--------------------------- MODULE PriorityOrder ----------------------------
(***************************************************************************)
(* The order rules and evaluators run in.                                  *)
(***************************************************************************)
EXTENDS Naturals, FiniteSets

(* sort.SliceStable by priority: every element comes after those with a    *)
(* smaller priority and after earlier ones with the same.                  *)
StableByPriority(s) ==
  LET Rank(i) == 1 + Cardinality({j \in DOMAIN s :
                   \/ s[j].priority < s[i].priority
                   \/ s[j].priority = s[i].priority /\ j < i})
  IN  [r \in DOMAIN s |-> s[CHOOSE i \in DOMAIN s : Rank(i) = r]]

=============================================================================
