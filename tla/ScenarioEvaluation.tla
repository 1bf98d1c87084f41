------------------------- MODULE ScenarioEvaluation -------------------------
(***************************************************************************)
(* aml/domain.PrepareScenarioVersion and aml/scenarios.EvaluateContext:    *)
(* which scenario versions are accepted, and what one of them says of an   *)
(* input, some of whose parts may be missing.                              *)
(*                                                                         *)
(* A condition is a tree of numbered nodes, node 1 its root, children      *)
(* numbered above their parent: a function from numbers to records with    *)
(* the fields family ("all", "any", "not", "screening", "field", "metric") *)
(* and children, and the fields of its family; bounded says that subject,  *)
(* window, dataset and the like are within their limits.  A map of the     *)
(* input is a function on the keys it has.  A value is a pair of its JSON  *)
(* kind and its content: decimal strings are integers (canonical ones,     *)
(* which are equal as text when they are as numbers), <<"malformed", 0>>   *)
(* is text that is not one JSON value, and NoValue none at all.  The       *)
(* operators contains and starts_with, which look into strings, are left   *)
(* out.                                                                    *)
(*                                                                         *)
(* A context that ends during the evaluation is met by the caller, module  *)
(* AmlFramework: the test at line 63 makes it an error whatever was found. *)
(***************************************************************************)
EXTENDS Integers, Sequences, FiniteSets, FiniteSetsExt

Answer(matched, known) == [matched |-> matched, known |-> known, failed |-> FALSE]
Yes == Answer(TRUE, TRUE)
Unknown == Answer(FALSE, FALSE)
Failed == [matched |-> FALSE, known |-> FALSE, failed |-> TRUE]

NoValue == <<"none", 0>>
Malformed(value) == value[1] = "malformed"
IsDecimal(value) == value[1] = "decimal"
IsScalar(value) == value[1] \in {"decimal", "text", "bool", "null"}

Relational == {"gt", "gte", "lt", "lte"}
Equality == {"eq", "neq", "exists"}
Membership == {"in", "not_in"}

MaxDepth == 12
MaxNodes == 200
MaxChildren == 50

-----------------------------------------------------------------------------
(* Which conditions are accepted.                                          *)

NumericFields == {"transaction.amount", "profile.expected_amount", "profile.expected_count"}
StringFields ==
  {"transaction.kind", "transaction.direction", "transaction.status", "transaction.asset_code",
   "transaction.channel", "transaction.origin_country", "transaction.destination_country",
   "customer.risk_rating", "customer.industry"}

FaultyValidLiteral(node) ==
  IsScalar(node.value) \/ (node.value[1] = "array" /\ \A v \in node.value[2] : IsScalar(v))

(* A literal is a scalar or an array of them, JSON numbers excluded, and   *)
(* an exact decimal where it is compared by size.  That it is an array     *)
(* where membership is asked is not required.                              *)
ValidLiteral(node) ==
  /\ IsScalar(node.value) \/ (node.value[1] = "array" /\ \A v \in node.value[2] : IsScalar(v))
  /\ node.operator \in Relational => IsDecimal(node.value)

ValidPredicate(node) ==
  /\ node.operator \in Relational \cup Equality \cup Membership
  /\ node.operator # "exists" => ((node.value = NoValue) # (node.policyRef = ""))
  /\ node.value # NoValue => ValidLiteral(node)
  /\ \/ node.family = "metric" /\ node.bounded
     \/ /\ node.family = "field" /\ node.key \in NumericFields
        /\ node.operator \in Relational \cup Equality
     \/ /\ node.family = "field" /\ node.key \in StringFields
        /\ node.operator \in Equality \cup Membership

(* validateScenarioNode: every node is valid by itself, and the tree is    *)
(* not too deep or too large.                                              *)
ValidCondition(tree) ==
  LET height[n \in DOMAIN tree] ==
        1 + Max({0} \cup {height[tree[n].children[i]] : i \in DOMAIN tree[n].children})
  IN  /\ height[1] <= MaxDepth /\ Cardinality(DOMAIN tree) <= MaxNodes
      /\ \A n \in DOMAIN tree :
           \/ tree[n].family \in {"all", "any"} /\ Len(tree[n].children) \in 1 .. MaxChildren
           \/ tree[n].family = "not" /\ Len(tree[n].children) = 1
           \/ tree[n].family = "screening" /\ tree[n].bounded
           \/ tree[n].family \in {"field", "metric"} /\ ValidPredicate(tree[n])

-----------------------------------------------------------------------------
(* Leaves.                                                                 *)

(* The operand on the left: nothing when it is missing.  A metric goes     *)
(* before a fact of the same key, a fact before the transaction's own      *)
(* field; the amount of a partial transaction may be missing, its other    *)
(* fields are always there.                                                *)
Left(input, key) ==
  IF key \in DOMAIN input.metrics THEN {input.metrics[key]}
  ELSE IF key \in DOMAIN input.facts THEN {input.facts[key]}
  ELSE IF key \in DOMAIN input.transaction THEN {input.transaction[key]}
  ELSE {}

(* A metric or an amount that is no exact decimal is an error, and never   *)
(* taken for a missing one.                                                *)
InvalidLeft(input, key) ==
  \/ key \in DOMAIN input.metrics /\ ~IsDecimal(input.metrics[key])
  \/ /\ key \notin DOMAIN input.metrics \cup DOMAIN input.facts
     /\ key = "transaction.amount" /\ key \in DOMAIN input.transaction
     /\ ~IsDecimal(input.transaction[key])

(* The operand on the right: the node's literal or the caller's policy     *)
(* value.                                                                  *)
Right(input, node) ==
  IF node.policyRef = "" THEN {node.value}
  ELSE IF node.policyRef \in DOMAIN input.policy THEN {input.policy[node.policyRef]}
  ELSE {}

Compare(left, operator, right) ==
  CASE operator = "exists" ->
         IF Malformed(left) THEN Failed ELSE Answer(left[1] # "null", TRUE)
    [] operator # "exists" /\ (Malformed(left) \/ Malformed(right)) -> Failed
    [] OTHER ->
         CASE operator = "eq"  -> Answer(left = right, TRUE)
           [] operator = "neq" -> Answer(left # right, TRUE)
           [] operator \in Membership ->
                IF right[1] # "array" THEN Failed
                ELSE Answer((left \in right[2]) <=> (operator = "in"), TRUE)
           [] operator \in Relational ->
                IF ~IsDecimal(left) \/ ~IsDecimal(right) THEN Failed
                ELSE Answer(CASE operator = "gt"  -> left[2] > right[2]
                              [] operator = "gte" -> left[2] >= right[2]
                              [] operator = "lt"  -> left[2] < right[2]
                              [] operator = "lte" -> left[2] <= right[2], TRUE)

Predicate(input, node) ==
  IF InvalidLeft(input, node.key) THEN Failed
  ELSE IF Left(input, node.key) = {} \/ Right(input, node) = {} THEN Unknown
  ELSE LET left  == CHOOSE v \in Left(input, node.key) : TRUE
           right == CHOOSE v \in Right(input, node) : TRUE
       IN  Compare(left, node.operator, right)

(* A missing screening fact is unknown, never "not listed".                *)
Screening(input, node) ==
  IF node.key \in DOMAIN input.screening THEN Answer(input.screening[node.key], TRUE)
  ELSE Unknown

-----------------------------------------------------------------------------
(* Inner nodes, from the answers of their children in order.               *)

FaultyAllOf(answers) ==
  LET deciding == {i \in DOMAIN answers : answers[i].failed \/ (answers[i].known /\ ~answers[i].matched)}
  IN  IF deciding = {} THEN Yes ELSE answers[Min(deciding)]

(* The first child that is not a known match decides, unknown ones         *)
(* included: nothing after it is looked at.                                *)
AllOf(answers) ==
  LET deciding == {i \in DOMAIN answers : answers[i] # Yes}
  IN  IF deciding = {} THEN Yes ELSE answers[Min(deciding)]

HastyAnyOf(answers) ==
  LET deciding == {i \in DOMAIN answers : answers[i] = Yes \/ answers[i].failed \/ ~answers[i].known}
  IN  IF deciding = {} THEN Answer(FALSE, TRUE) ELSE answers[Min(deciding)]

FaultyAnyOf(answers) ==
  IF \E i \in DOMAIN answers : answers[i] = Yes THEN Yes
  ELSE Answer(FALSE, \E i \in DOMAIN answers : answers[i].known)

(* The first child that matches or fails decides.  Without one the answer  *)
(* is no match, known as soon as one child is known not to match.          *)
AnyOf(answers) ==
  LET deciding == {i \in DOMAIN answers : answers[i] = Yes \/ answers[i].failed}
  IN  IF deciding = {} THEN Answer(FALSE, \E i \in DOMAIN answers : answers[i].known)
      ELSE answers[Min(deciding)]

Negated(answer) == [answer EXCEPT !.matched = ~@]

(* The answer of every node.                                               *)
Nodes(tree, input) ==
  LET answer[n \in DOMAIN tree] ==
        LET node    == tree[n]
            answers == [i \in DOMAIN node.children |-> answer[node.children[i]]]
        IN  CASE node.family = "all"       -> AllOf(answers)
              [] node.family = "any"       -> AnyOf(answers)
              [] node.family = "not"       -> Negated(answers[1])
              [] node.family = "screening" -> Screening(input, node)
              [] node.family \in {"field", "metric"} -> Predicate(input, node)
  IN  answer

-----------------------------------------------------------------------------
(* The observation: matched, insufficient, or an error.                    *)
Evaluate(version, input) ==
  IF input.lateData /\ version.lateDataBehavior = "ignore"
  THEN [matched |-> FALSE, insufficient |-> FALSE, failed |-> FALSE]
  ELSE LET root == Nodes(version.condition, input)[1]
       IN  [matched      |-> root.known /\ root.matched,
            insufficient |-> ~root.known /\ ~root.failed,
            failed       |-> root.failed]

=============================================================================
