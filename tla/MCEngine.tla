------------------------------ MODULE MCEngine ------------------------------
(***************************************************************************)
(* The legacy Engine on small instances.                                   *)
(***************************************************************************)
EXTENDS EngineProperties, TLC

CONSTANTS k1, k2, p1, p2, u1, u2

Ask(k, p) == [key |-> k, payload |-> p]
(* Two payloads under one key, and another key that evicts them.           *)
Competing == {Ask(k1, p1), Ask(k1, p2), Ask(k2, p1)}

(* With calls that carry no key.                                           *)
Mixed == Competing \cup {Ask(NoKey, p1)}

(* Two payloads with no JSON form under one key, and one that has it.      *)
Rejected == {Ask(k1, u1), Ask(k1, u2), Ask(k1, p1)}

Plain == [blocked |-> FALSE, valid |-> TRUE, onInvalid |-> "", disabled |-> {},
          reviewAt |-> 0, blockAt |-> 0]
SomeContexts == {Plain, [Plain EXCEPT !.blocked = TRUE]}
OnePlain == {Plain}

Rule(id, priority, outcome) ==
  [id |-> id, priority |-> priority, enabled |-> TRUE, outcome |-> outcome, score |-> 1]
NoRules == {<<>>}
SomeRules == {<<>>, <<Rule("r", 1, DecisionReview)>>}

CallSymmetry == Permutations(Calls)

=============================================================================
