-------------------- MODULE ScenarioEvaluationProperties --------------------
(***************************************************************************)
(* EvaluateContext on one version and one input, and what its observation  *)
(* says in terms of Boolean logic: over every way the leaves may turn out  *)
(* that the supplied operands leave open.                                  *)
(***************************************************************************)
EXTENDS ScenarioEvaluation

CONSTANTS Versions, InputsOf   \* the versions asked, and for each the inputs
VARIABLES version, input, phase, observation

IsTree(condition) ==
  /\ DOMAIN condition \subseteq 1 .. MaxNodes /\ 1 \in DOMAIN condition
  /\ \A n \in DOMAIN condition :
       condition[n].children \in Seq({m \in DOMAIN condition : m > n})

(* The content of a decimal is a number.                                   *)
IsValue(value) == IsDecimal(value) => value[2] \in Int
Literals(condition) ==
  {condition[n].value : n \in {m \in DOMAIN condition : condition[m].family \in {"field", "metric"}}}

ASSUME VersionsAssumption ==
  \A v \in Versions : IsTree(v.condition) /\ \A value \in Literals(v.condition) : IsValue(value)
ASSUME InputsAssumption ==
  \A v \in Versions : \A in \in InputsOf[v] :
    /\ \A k \in DOMAIN in.metrics : IsValue(in.metrics[k])
    /\ \A k \in DOMAIN in.facts : IsValue(in.facts[k])
    /\ \A k \in DOMAIN in.transaction : IsValue(in.transaction[k])
    /\ \A k \in DOMAIN in.policy : IsValue(in.policy[k])
    /\ \A k \in DOMAIN in.screening : in.screening[k] \in BOOLEAN

Init ==
  /\ version \in {v \in Versions : ValidCondition(v.condition)}
  /\ input \in InputsOf[version]
  /\ phase = "asked" /\ observation = [matched |-> FALSE, insufficient |-> FALSE, failed |-> FALSE]

EvaluateContext ==
  /\ phase = "asked" /\ phase' = "answered"
  /\ observation' = Evaluate(version, input)
  /\ UNCHANGED <<version, input>>

vars == <<version, input, phase, observation>>
Spec == Init /\ [][EvaluateContext]_vars

-----------------------------------------------------------------------------
(* The reference: what a condition says when every leaf is true or false.  *)

Children(condition, n) == {condition[n].children[i] : i \in DOMAIN condition[n].children}

Holds(condition, truth) ==
  LET holds[n \in DOMAIN condition] ==
        CASE condition[n].family = "all" -> \A m \in Children(condition, n) : holds[m]
          [] condition[n].family = "any" -> \E m \in Children(condition, n) : holds[m]
          [] condition[n].family = "not" -> \A m \in Children(condition, n) : ~holds[m]
          [] OTHER -> truth[n]
  IN  holds[1]

Comparable(left, operator, right) ==
  /\ ~Malformed(left)
  /\ operator # "exists" => ~Malformed(right)
  /\ operator \in Relational => IsDecimal(left) /\ IsDecimal(right)
  /\ operator \in Membership => right[1] = "array"

Satisfies(left, operator, right) ==
  \/ operator = "exists" /\ left[1] # "null"
  \/ operator = "eq" /\ left = right
  \/ operator = "neq" /\ left # right
  \/ operator = "in" /\ left \in right[2]
  \/ operator = "not_in" /\ left \notin right[2]
  \/ operator = "gt" /\ left[2] > right[2]
  \/ operator = "gte" /\ left[2] >= right[2]
  \/ operator = "lt" /\ left[2] < right[2]
  \/ operator = "lte" /\ left[2] <= right[2]

(* Both operands of a leaf are there; they can be compared; its statement  *)
(* is true of them.                                                        *)
Supplied(in, leaf) ==
  IF leaf.family = "screening" THEN leaf.key \in DOMAIN in.screening
  ELSE Left(in, leaf.key) # {} /\ Right(in, leaf) # {}
Readable(in, leaf) ==
  leaf.family # "screening" =>
    /\ ~InvalidLeft(in, leaf.key)
    /\ \A l \in Left(in, leaf.key), r \in Right(in, leaf) : Comparable(l, leaf.operator, r)
Says(in, leaf) ==
  IF leaf.family = "screening" THEN in.screening[leaf.key]
  ELSE \E l \in Left(in, leaf.key), r \in Right(in, leaf) : Satisfies(l, leaf.operator, r)

Leaves(condition) == {n \in DOMAIN condition : condition[n].family \in {"screening", "field", "metric"}}
Decided(condition, in, n) == Supplied(in, condition[n]) /\ Readable(in, condition[n])

(* How the leaves may turn out: as the input says where it does, and       *)
(* either way where operands are missing or broken.                        *)
Outcomes(condition, in) ==
  {truth \in [Leaves(condition) -> BOOLEAN] :
     \A n \in Leaves(condition) : Decided(condition, in, n) => (truth[n] <=> Says(in, condition[n]))}

-----------------------------------------------------------------------------
Judged == phase = "answered" /\ ~(input.lateData /\ version.lateDataBehavior = "ignore")
Certain == \A truth \in Outcomes(version.condition, input) : Holds(version.condition, truth)
Complete == \A n \in Leaves(version.condition) : Supplied(input, version.condition[n])

(* No "any" is below a "not": the nodes below one are among some that no   *)
(* "any" is among.                                                         *)
NegatesNoAny ==
  LET condition == version.condition
  IN  \E below \in SUBSET {n \in DOMAIN condition : condition[n].family # "any"} :
        \A n \in DOMAIN condition :
          n \in below \/ condition[n].family = "not" => Children(condition, n) \subseteq below
NegationFree == \A n \in DOMAIN version.condition : version.condition[n].family # "not"

(* What the caller supplied for a leaf can be read and is of the kind the  *)
(* operator asks for.                                                      *)
GoodOperands(in, leaf) ==
  leaf.family # "screening" =>
    /\ ~InvalidLeft(in, leaf.key)
    /\ \A l \in Left(in, leaf.key) :
         ~Malformed(l) /\ (leaf.operator \in Relational => IsDecimal(l))
    /\ leaf.policyRef # "" => \A r \in Right(in, leaf) :
         /\ ~Malformed(r) /\ (leaf.operator \in Relational => IsDecimal(r))
         /\ leaf.operator \in Membership => r[1] = "array"
AsksScalar(leaf) ==
  /\ leaf.family # "screening" /\ leaf.operator \in Membership
  /\ leaf.policyRef = "" /\ leaf.value[1] # "array"
GoodData ==
  \A n \in Leaves(version.condition) :
    /\ GoodOperands(input, version.condition[n])
    /\ ~AsksScalar(version.condition[n])

(* A match does not rest on what is missing or broken: the condition holds *)
(* whatever those parts really are.  For conditions that negate no "any"   *)
(* (evaluator.go:86-141).                                                  *)
MatchIsCertain == Judged /\ observation.matched /\ NegatesNoAny => Certain

(* With nothing missing the evaluation decides, and decides as Boolean     *)
(* logic does, unless it fails: no broken operand is passed over that the  *)
(* outcome depends on.                                                     *)
CompleteIsDecided ==
  Judged /\ Complete /\ ~observation.failed =>
    /\ ~observation.insufficient
    /\ \A truth \in Outcomes(version.condition, input) :
         observation.matched <=> Holds(version.condition, truth)

(* An accepted condition fails only on what the caller supplies: on good   *)
(* data its evaluation succeeds, but for membership in a scalar            *)
(* (scenario.go:212-238 against evaluator.go:192-258).                     *)
FailsOnlyOnData == Judged /\ GoodData => ~observation.failed

(* Without negation nothing that must match is missed: missing data cannot *)
(* hide a match that the supplied parts already decide.                    *)
MatchIsFound == Judged /\ NegationFree /\ ~observation.failed /\ Certain => observation.matched

(* "unavailable amount, facts, metrics or policy inputs produce            *)
(* insufficient-data observations" (docs/aml-evaluation.md:23-24): a match *)
(* never rests on an unavailable input, for any condition.                 *)
MissingNeverMatches == Judged /\ observation.matched => Certain

=============================================================================
