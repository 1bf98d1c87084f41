----------------------- MODULE ScenarioEvaluationProofs ---------------------
(***************************************************************************)
(* Proofs that the evaluation of AML conditions agrees with Boolean logic, *)
(* for every tree, every input and every choice of what is missing.        *)
(***************************************************************************)
EXTENDS ScenarioEvaluationProperties, OperatorProofs

(* What a node may answer: a failure is never known.                       *)
Reply == {a \in [matched : BOOLEAN, known : BOOLEAN, failed : BOOLEAN] : a.failed => ~a.known}

(* A known match is the answer Yes, and no other is.                       *)
LEMMA KnownMatch == \A a \in Reply : (a.known /\ a.matched) <=> a = Yes
<1>1. Yes \in Reply /\ Yes.known /\ Yes.matched /\ ~Yes.failed
  BY DEF Yes, Answer, Reply
<1>2. ASSUME NEW a \in Reply, a.known, a.matched PROVE a = Yes
  <2>1. ~a.failed /\ a \in [matched : BOOLEAN, known : BOOLEAN, failed : BOOLEAN]
    BY <1>2 DEF Reply
  <2>2. a = [matched |-> a.matched, known |-> a.known, failed |-> a.failed]
    BY <2>1
  <2> QED
    BY <1>2, <2>1, <2>2 DEF Yes, Answer
<1> QED
  BY <1>1, <1>2

(* The first of some positions.                                            *)
LEMMA FirstOf ==
  ASSUME NEW k \in Nat, NEW S \in SUBSET (1 .. k), S # {}
  PROVE  Min(S) \in S
<1>1. \E i \in S : \A j \in S : i <= j
  BY LeastElement
<1> QED
  BY <1>1 DEF Min

-----------------------------------------------------------------------------
(* Answers of inner nodes.                                                 *)

(* "all" matches when every child does; else it answers as one that does   *)
(* not.                                                                    *)
LEMMA AllOfAnswers ==
  ASSUME NEW k \in Nat, NEW answers \in [1 .. k -> Reply]
  PROVE  /\ AllOf(answers) \in Reply
         /\ \/ AllOf(answers) = Yes /\ \A i \in 1 .. k : answers[i] = Yes
            \/ \E i \in 1 .. k : AllOf(answers) = answers[i] /\ answers[i] # Yes
<1> DEFINE deciding == {i \in DOMAIN answers : answers[i] # Yes}
<1>1. AllOf(answers) = IF deciding = {} THEN Yes ELSE answers[Min(deciding)]
  BY DEF AllOf
<1>2. CASE deciding = {}
  <2>1. AllOf(answers) = Yes /\ \A i \in 1 .. k : answers[i] = Yes
    BY <1>1, <1>2
  <2> QED
    BY <2>1 DEF Yes, Answer, Reply
<1>3. CASE deciding # {}
  <2>1. deciding \in SUBSET (1 .. k)
    OBVIOUS
  <2>2. Min(deciding) \in deciding
    <3> HIDE DEF deciding
    <3> QED
      BY <1>3, <2>1, FirstOf
  <2> QED
    BY <1>1, <1>3, <2>2
<1> QED
  BY <1>2, <1>3

(* "any" answers as a child that matches or fails; without one it does not *)
(* match, known when some child is.                                        *)
LEMMA AnyOfAnswers ==
  ASSUME NEW k \in Nat, NEW answers \in [1 .. k -> Reply]
  PROVE  /\ AnyOf(answers) \in Reply
         /\ \/ /\ ~AnyOf(answers).matched /\ ~AnyOf(answers).failed
               /\ AnyOf(answers).known <=> \E i \in 1 .. k : answers[i].known
               /\ \A i \in 1 .. k : answers[i] # Yes /\ ~answers[i].failed
            \/ \E i \in 1 .. k : AnyOf(answers) = answers[i] /\ (answers[i] = Yes \/ answers[i].failed)
<1> DEFINE deciding == {i \in DOMAIN answers : answers[i] = Yes \/ answers[i].failed}
           known == \E i \in DOMAIN answers : answers[i].known
<1>1. AnyOf(answers) = IF deciding = {} THEN Answer(FALSE, known) ELSE answers[Min(deciding)]
  BY DEF AnyOf
<1>2. CASE deciding = {}
  <2>1. AnyOf(answers) = Answer(FALSE, known) /\ \A i \in 1 .. k : answers[i] # Yes /\ ~answers[i].failed
    BY <1>1, <1>2
  <2>2. known \in BOOLEAN
    OBVIOUS
  <2>3. DOMAIN answers = 1 .. k
    OBVIOUS
  <2>4. Answer(FALSE, known) \in Reply
    <3> HIDE DEF known
    <3> QED
      BY <2>2 DEF Answer, Reply
  <2>5. /\ ~Answer(FALSE, known).matched /\ ~Answer(FALSE, known).failed
        /\ Answer(FALSE, known).known <=> \E i \in 1 .. k : answers[i].known
    BY <2>3 DEF Answer
  <2>6. AnyOf(answers) = Answer(FALSE, known)
    BY <2>1
  <2>7. AnyOf(answers) \in Reply
    BY <2>4, <2>6
  <2>8. /\ ~AnyOf(answers).matched /\ ~AnyOf(answers).failed
        /\ AnyOf(answers).known <=> \E i \in 1 .. k : answers[i].known
    BY <2>5, <2>6
  <2> QED
    BY <2>1, <2>7, <2>8
<1>3. CASE deciding # {}
  <2>1. deciding \in SUBSET (1 .. k)
    OBVIOUS
  <2>2. Min(deciding) \in deciding
    <3> HIDE DEF deciding
    <3> QED
      BY <1>3, <2>1, FirstOf
  <2> QED
    BY <1>1, <1>3, <2>2
<1> QED
  BY <1>2, <1>3

(* Negation changes what is known and what fails of nothing.               *)
LEMMA NegatedAnswer ==
  ASSUME NEW a \in Reply
  PROVE  /\ Negated(a) \in Reply
         /\ Negated(a).matched = ~a.matched /\ Negated(a).known = a.known
         /\ Negated(a).failed = a.failed
BY DEF Negated, Reply

-----------------------------------------------------------------------------
(* Answers of leaves.                                                      *)

(* A comparison answers exactly when its operands can be compared, and     *)
(* then says whether they satisfy it; otherwise it fails.                  *)
LEMMA CompareAnswers ==
  ASSUME NEW left, NEW right, NEW operator \in Relational \cup Equality \cup Membership,
         IsValue(left), IsValue(right)
  PROVE  LET a == Compare(left, operator, right)
         IN  /\ a \in Reply /\ a.known = ~a.failed
             /\ a.known <=> Comparable(left, operator, right)
             /\ a.known => (a.matched <=> Satisfies(left, operator, right))
<1> DEFINE a == Compare(left, operator, right)
<1>1. CASE ~Comparable(left, operator, right)
  <2>1. a = Failed
    <3>1. CASE operator = "exists"
      BY <1>1, <3>1 DEF Compare, Comparable, Relational, Membership
    <3>2. CASE operator # "exists"
      BY <1>1, <3>2 DEF Compare, Comparable, Relational, Membership, Equality
    <3> QED
      BY <3>1, <3>2
  <2>2. Failed \in Reply /\ Failed.failed /\ ~Failed.known /\ (Failed.known = ~Failed.failed)
    BY DEF Failed, Reply
  <2> QED
    BY <1>1, <2>1, <2>2
<1>2. CASE Comparable(left, operator, right)
  <2> DEFINE says == Satisfies(left, operator, right)
  <2>1. says \in BOOLEAN
    BY DEF Satisfies
  <2>2. operator \in {"gt", "gte", "lt", "lte", "eq", "neq", "exists", "in", "not_in"}
    BY DEF Relational, Equality, Membership
  <2>3. a \in Reply /\ a.known /\ ~a.failed /\ (a.matched <=> says)
    <3>1. CASE operator = "exists"
      <4>1. a = Answer(left[1] # "null", TRUE)
        BY <1>2, <3>1 DEF Compare, Comparable, Membership, Relational
      <4>2. says <=> left[1] # "null"
        BY <3>1 DEF Satisfies
      <4> HIDE DEF a, says
      <4> QED
        BY <4>1, <4>2 DEF Answer, Reply
    <3>2. CASE operator = "eq"
      <4>1. a = Answer(left = right, TRUE)
        BY <1>2, <3>2 DEF Compare, Comparable, Membership, Relational
      <4>2. says <=> left = right
        BY <3>2 DEF Satisfies
      <4> HIDE DEF a, says
      <4> QED
        BY <4>1, <4>2 DEF Answer, Reply
    <3>3. CASE operator = "neq"
      <4>1. a = Answer(left # right, TRUE)
        BY <1>2, <3>3 DEF Compare, Comparable, Membership, Relational
      <4>2. says <=> left # right
        BY <3>3 DEF Satisfies
      <4> HIDE DEF a, says
      <4> QED
        BY <4>1, <4>2 DEF Answer, Reply
    <3>4. CASE operator = "in"
      <4>1. a = Answer((left \in right[2]) <=> (operator = "in"), TRUE)
        BY <1>2, <3>4 DEF Compare, Comparable, Membership, Relational
      <4>2. says <=> ((left \in right[2]) <=> (operator = "in"))
        BY <3>4 DEF Satisfies
      <4> HIDE DEF a, says
      <4> QED
        BY <4>1, <4>2 DEF Answer, Reply
    <3>5. CASE operator = "not_in"
      <4>1. a = Answer((left \in right[2]) <=> (operator = "in"), TRUE)
        BY <1>2, <3>5 DEF Compare, Comparable, Membership, Relational
      <4>2. says <=> ((left \in right[2]) <=> (operator = "in"))
        BY <3>5 DEF Satisfies
      <4> HIDE DEF a, says
      <4> QED
        BY <4>1, <4>2 DEF Answer, Reply
    <3>6. CASE operator \in Relational
      <4>1. left[2] \in Int /\ right[2] \in Int
        BY <1>2, <3>6 DEF Comparable, IsValue
      <4>2. operator \in {"gt", "gte", "lt", "lte"}
        BY <3>6 DEF Relational
      <4>3. CASE operator = "gt"
        <5> DEFINE holds == left[2] > right[2]
        <5>1. holds \in BOOLEAN /\ (says <=> holds)
          BY <4>1, <4>3 DEF Satisfies
        <5>2. a = Answer(holds, TRUE)
          BY <1>2, <3>6, <4>3 DEF Compare, Comparable, Membership, Relational
        <5> HIDE DEF a, says, holds
        <5> QED
          BY <5>1, <5>2 DEF Answer, Reply
      <4>4. CASE operator = "gte"
        <5> DEFINE holds == left[2] >= right[2]
        <5>1. holds \in BOOLEAN /\ (says <=> holds)
          BY <4>1, <4>4 DEF Satisfies
        <5>2. a = Answer(holds, TRUE)
          BY <1>2, <3>6, <4>4 DEF Compare, Comparable, Membership, Relational
        <5> HIDE DEF a, says, holds
        <5> QED
          BY <5>1, <5>2 DEF Answer, Reply
      <4>5. CASE operator = "lt"
        <5> DEFINE holds == left[2] < right[2]
        <5>1. holds \in BOOLEAN /\ (says <=> holds)
          BY <4>1, <4>5 DEF Satisfies
        <5>2. a = Answer(holds, TRUE)
          BY <1>2, <3>6, <4>5 DEF Compare, Comparable, Membership, Relational
        <5> HIDE DEF a, says, holds
        <5> QED
          BY <5>1, <5>2 DEF Answer, Reply
      <4>6. CASE operator = "lte"
        <5> DEFINE holds == left[2] <= right[2]
        <5>1. holds \in BOOLEAN /\ (says <=> holds)
          BY <4>1, <4>6 DEF Satisfies
        <5>2. a = Answer(holds, TRUE)
          BY <1>2, <3>6, <4>6 DEF Compare, Comparable, Membership, Relational
        <5> HIDE DEF a, says, holds
        <5> QED
          BY <5>1, <5>2 DEF Answer, Reply
      <4> QED
        BY <4>2, <4>3, <4>4, <4>5, <4>6
    <3> QED
      BY <2>2, <3>1, <3>2, <3>3, <3>4, <3>5, <3>6 DEF Relational
  <2> QED
    BY <1>2, <2>3
<1> QED
  BY <1>1, <1>2

(* A leaf answers what its operands say when they are there and can be     *)
(* compared; otherwise one is missing, or it fails.                        *)
Faithful(a, in, leaf) ==
  /\ a \in Reply
  /\ a.known <=> Supplied(in, leaf) /\ Readable(in, leaf)
  /\ a.known => (a.matched <=> Says(in, leaf))
  /\ a.known \/ a.failed \/ ~Supplied(in, leaf)

(* The values of an input are values.                                      *)
IsInput(in) ==
  /\ \A k \in DOMAIN in.metrics : IsValue(in.metrics[k])
  /\ \A k \in DOMAIN in.facts : IsValue(in.facts[k])
  /\ \A k \in DOMAIN in.transaction : IsValue(in.transaction[k])
  /\ \A k \in DOMAIN in.policy : IsValue(in.policy[k])
  /\ \A k \in DOMAIN in.screening : in.screening[k] \in BOOLEAN

(* A leaf that compares has an operator and a literal, or an empty one.    *)
IsPredicate(leaf) ==
  /\ leaf.family \in {"field", "metric"}
  /\ leaf.operator \in Relational \cup Equality \cup Membership
  /\ IsValue(leaf.value)

(* The operands of a leaf: one value or none on either side.               *)
LEMMA Operands ==
  ASSUME NEW in, IsInput(in), NEW leaf, IsPredicate(leaf)
  PROVE  /\ Left(in, leaf.key) = {} \/ \E l : Left(in, leaf.key) = {l} /\ IsValue(l)
         /\ Right(in, leaf) = {} \/ \E r : Right(in, leaf) = {r} /\ IsValue(r)
<1>1. Left(in, leaf.key) = {} \/ \E l : Left(in, leaf.key) = {l} /\ IsValue(l)
  BY DEF Left, IsInput
<1>2. Right(in, leaf) = {} \/ \E r : Right(in, leaf) = {r} /\ IsValue(r)
  BY DEF Right, IsInput, IsPredicate
<1> QED
  BY <1>1, <1>2

(* With both operands at hand a predicate compares them.                   *)
LEMMA PredicateCompares ==
  ASSUME NEW in, NEW leaf, NEW l, NEW r, ~InvalidLeft(in, leaf.key),
         Left(in, leaf.key) = {l}, Right(in, leaf) = {r}
  PROVE  Predicate(in, leaf) = Compare(l, leaf.operator, r)
<1>1. (CHOOSE v \in {l} : TRUE) = l /\ (CHOOSE v \in {r} : TRUE) = r
  OBVIOUS
<1> QED
  BY <1>1 DEF Predicate

(* Predicates are faithful to their operands.                              *)
LEMMA PredicateIsFaithful ==
  ASSUME NEW in, IsInput(in), NEW leaf, IsPredicate(leaf)
  PROVE  Faithful(Predicate(in, leaf), in, leaf)
<1> DEFINE a == Predicate(in, leaf)
<1>1. leaf.family # "screening"
  BY DEF IsPredicate
<1>2. CASE InvalidLeft(in, leaf.key)
  <2>1. a = Failed /\ ~Readable(in, leaf)
    BY <1>1, <1>2 DEF Predicate, Readable
  <2> HIDE DEF a
  <2>2. Faithful(a, in, leaf)
    BY <2>1 DEF Faithful, Failed, Reply
  <2> QED
    BY <2>2 DEF a
<1>3. CASE ~InvalidLeft(in, leaf.key) /\ (Left(in, leaf.key) = {} \/ Right(in, leaf) = {})
  <2>1. a = Unknown /\ ~Supplied(in, leaf)
    BY <1>1, <1>3 DEF Predicate, Supplied
  <2> HIDE DEF a
  <2>2. Faithful(a, in, leaf)
    BY <2>1 DEF Faithful, Unknown, Answer, Reply
  <2> QED
    BY <2>2 DEF a
<1>4. CASE ~InvalidLeft(in, leaf.key) /\ ~(Left(in, leaf.key) = {} \/ Right(in, leaf) = {})
  <2>1. PICK l : Left(in, leaf.key) = {l} /\ IsValue(l)
    BY <1>4, Operands
  <2>2. PICK r : Right(in, leaf) = {r} /\ IsValue(r)
    BY <1>4, Operands
  <2>3. leaf.operator \in Relational \cup Equality \cup Membership
    BY DEF IsPredicate
  <2>4. a = Compare(l, leaf.operator, r)
    BY <1>4, <2>1, <2>2, PredicateCompares
  <2>5. /\ Supplied(in, leaf)
        /\ Readable(in, leaf) <=> Comparable(l, leaf.operator, r)
        /\ Says(in, leaf) <=> Satisfies(l, leaf.operator, r)
    BY <1>1, <1>4, <2>1, <2>2 DEF Supplied, Readable, Says
  <2> HIDE DEF a
  <2>6. /\ a \in Reply /\ a.known = ~a.failed
        /\ a.known <=> Comparable(l, leaf.operator, r)
        /\ a.known => (a.matched <=> Satisfies(l, leaf.operator, r))
    BY <2>1, <2>2, <2>3, <2>4, CompareAnswers
  <2>7. Faithful(a, in, leaf)
    BY <2>5, <2>6 DEF Faithful, Reply
  <2> QED
    BY <2>7 DEF a
<1> QED
  BY <1>2, <1>3, <1>4

(* Screening facts are answered as supplied.                               *)
LEMMA ScreeningIsFaithful ==
  ASSUME NEW in, IsInput(in), NEW leaf, leaf.family = "screening"
  PROVE  Faithful(Screening(in, leaf), in, leaf) /\ ~Screening(in, leaf).failed
<1>1. CASE leaf.key \in DOMAIN in.screening
  <2>1. Screening(in, leaf) = Answer(in.screening[leaf.key], TRUE)
    BY <1>1 DEF Screening
  <2>2. in.screening[leaf.key] \in BOOLEAN
    BY <1>1 DEF IsInput
  <2>3. Supplied(in, leaf) /\ Readable(in, leaf) /\ Says(in, leaf) = in.screening[leaf.key]
    BY <1>1 DEF Supplied, Readable, Says
  <2> QED
    BY <2>1, <2>2, <2>3 DEF Faithful, Answer, Reply
<1>2. CASE leaf.key \notin DOMAIN in.screening
  <2>1. Screening(in, leaf) = Unknown /\ ~Supplied(in, leaf)
    BY <1>2 DEF Screening, Supplied
  <2> QED
    BY <2>1 DEF Faithful, Unknown, Answer, Reply
<1> QED
  BY <1>1, <1>2

(* An accepted predicate does not fail on good data.                       *)
LEMMA GoodDataIsCompared ==
  ASSUME NEW in, IsInput(in), NEW leaf, IsPredicate(leaf), ValidPredicate(leaf),
         GoodOperands(in, leaf), ~AsksScalar(leaf)
  PROVE  ~Predicate(in, leaf).failed
<1>0. leaf.family # "screening" /\ ~InvalidLeft(in, leaf.key)
  BY DEF GoodOperands, IsPredicate
<1>1. CASE Left(in, leaf.key) = {} \/ Right(in, leaf) = {}
  <2>1. Predicate(in, leaf) = Unknown
    BY <1>0, <1>1 DEF Predicate
  <2> QED
    BY <2>1 DEF Unknown, Answer
<1>2. CASE ~(Left(in, leaf.key) = {} \/ Right(in, leaf) = {})
  <2>1. PICK l : Left(in, leaf.key) = {l} /\ IsValue(l)
    BY <1>2, Operands
  <2>2. PICK r : Right(in, leaf) = {r} /\ IsValue(r)
    BY <1>2, Operands
  <2>3. Comparable(l, leaf.operator, r) => ~Predicate(in, leaf).failed
    <3>1. leaf.operator \in Relational \cup Equality \cup Membership
      BY DEF IsPredicate
    <3>2. Predicate(in, leaf) = Compare(l, leaf.operator, r)
      BY <1>0, <2>1, <2>2, PredicateCompares
    <3> QED
      BY <2>1, <2>2, <3>1, <3>2, CompareAnswers DEF Reply
  <2>4. CASE leaf.policyRef # ""
    <3>1. Comparable(l, leaf.operator, r)
      BY <1>0, <2>1, <2>2, <2>4 DEF Comparable, GoodOperands
    <3> QED
      BY <2>3, <3>1
  <2>5. CASE leaf.policyRef = ""
    <3>1. r = leaf.value
      BY <2>2, <2>5 DEF Right
    <3>2. leaf.operator # "exists" => ValidLiteral(leaf)
      <4>1. /\ leaf.operator # "exists" => ((leaf.value = NoValue) # (leaf.policyRef = ""))
            /\ leaf.value # NoValue => ValidLiteral(leaf)
        BY DEF ValidPredicate
      <4> QED
        BY <2>5, <4>1
    <3>3. ValidLiteral(leaf) => ~Malformed(r) /\ (leaf.operator \in Relational => IsDecimal(r))
      BY <3>1 DEF ValidLiteral, IsScalar, Malformed
    <3>4. Comparable(l, leaf.operator, r)
      BY <1>0, <2>1, <2>5, <3>1, <3>2, <3>3 DEF Comparable, GoodOperands, AsksScalar, Relational, Membership
    <3> QED
      BY <2>3, <3>4
  <2> QED
    BY <2>4, <2>5
<1> QED
  BY <1>1, <1>2

-----------------------------------------------------------------------------
(* Trees.                                                                  *)

(* A condition that is a tree of accepted nodes.                           *)
ValidNode(node) ==
  \/ node.family \in {"all", "any"} /\ Len(node.children) \in 1 .. MaxChildren
  \/ node.family = "not" /\ Len(node.children) = 1
  \/ node.family = "screening"
  \/ IsPredicate(node) /\ ValidPredicate(node)
Accepted(condition) ==
  /\ DOMAIN condition \in SUBSET (1 .. MaxNodes) /\ 1 \in DOMAIN condition
  /\ \A n \in DOMAIN condition : ValidNode(condition[n])
  /\ \A n \in DOMAIN condition :
       condition[n].children \in Seq({m \in DOMAIN condition : m > n})

(* The conditions of the model are.                                        *)
LEMMA ConditionsAreAccepted ==
  ASSUME NEW v \in Versions, ValidCondition(v.condition)
  PROVE  Accepted(v.condition)
<1> DEFINE condition == v.condition
<1>1. IsTree(condition) /\ \A value \in Literals(condition) : IsValue(value)
  BY VersionsAssumption
<1>2. \A n \in DOMAIN condition :
        \/ condition[n].family \in {"all", "any"} /\ Len(condition[n].children) \in 1 .. MaxChildren
        \/ condition[n].family = "not" /\ Len(condition[n].children) = 1
        \/ condition[n].family = "screening" /\ condition[n].bounded
        \/ condition[n].family \in {"field", "metric"} /\ ValidPredicate(condition[n])
  BY DEF ValidCondition
<1> HIDE DEF condition
<1>3. ASSUME NEW n \in DOMAIN condition PROVE ValidNode(condition[n])
  <2>1. CASE condition[n].family \in {"field", "metric"} /\ ValidPredicate(condition[n])
    <3>1. IsValue(condition[n].value)
      BY <1>1, <2>1 DEF Literals
    <3>2. condition[n].operator \in Relational \cup Equality \cup Membership
      BY <2>1 DEF ValidPredicate
    <3> QED
      BY <2>1, <3>1, <3>2 DEF ValidNode, IsPredicate
  <2> QED
    BY <1>2, <2>1 DEF ValidNode
<1> QED
  BY <1>1, <1>3 DEF Accepted, IsTree, condition

(* The children of a node: as many as its list is long, all of them nodes  *)
(* above it.                                                               *)
LEMMA ChildrenAbove ==
  ASSUME NEW condition, Accepted(condition), NEW n \in DOMAIN condition
  PROVE  LET list == condition[n].children
         IN  /\ Len(list) \in Nat /\ DOMAIN list = 1 .. Len(list)
             /\ Children(condition, n) = {list[i] : i \in 1 .. Len(list)}
             /\ \A i \in 1 .. Len(list) : list[i] \in DOMAIN condition /\ list[i] > n
             /\ \A m \in Children(condition, n) : m \in DOMAIN condition /\ m > n
<1> DEFINE list == condition[n].children
           above == {m \in DOMAIN condition : m > n}
<1>1. list \in Seq(above)
  BY DEF Accepted
<1> HIDE DEF list, above
<1>2. Len(list) \in Nat /\ DOMAIN list = 1 .. Len(list) /\ \A i \in 1 .. Len(list) : list[i] \in above
  BY <1>1, LenProperties, ElementOfSeq
<1>3. Children(condition, n) = {list[i] : i \in DOMAIN list}
  BY DEF Children, list
<1> QED
  BY <1>2, <1>3 DEF list, above

(* The answer of a node, when g are the answers of all.                    *)
AnswersOfChildren(condition, n, g) ==
  [i \in DOMAIN condition[n].children |-> g[condition[n].children[i]]]
AnswerFrom(node, in, answers) ==
  CASE node.family = "all"       -> AllOf(answers)
    [] node.family = "any"       -> AnyOf(answers)
    [] node.family = "not"       -> Negated(answers[1])
    [] node.family = "screening" -> Screening(in, node)
    [] node.family \in {"field", "metric"} -> Predicate(in, node)
NodeAnswer(condition, in, n, g) ==
  AnswerFrom(condition[n], in, AnswersOfChildren(condition, n, g))

(* What the answer of a node says of those of its children or of its       *)
(* operands.                                                               *)
Answered(condition, in, n, g, a) ==
  /\ a \in Reply
  /\ condition[n].family = "all" =>
       \/ a = Yes /\ \A m \in Children(condition, n) : g[m] = Yes
       \/ \E m \in Children(condition, n) : a = g[m] /\ g[m] # Yes
  /\ condition[n].family = "any" =>
       \/ /\ ~a.matched /\ ~a.failed
          /\ a.known <=> \E m \in Children(condition, n) : g[m].known
          /\ \A m \in Children(condition, n) : g[m] # Yes /\ ~g[m].failed
       \/ \E m \in Children(condition, n) : a = g[m] /\ (g[m] = Yes \/ g[m].failed)
  /\ condition[n].family = "not" =>
       \E m \in Children(condition, n) :
         Children(condition, n) = {m} /\ a = Negated(g[m])
  /\ n \in Leaves(condition) => Faithful(a, in, condition[n])
  /\ condition[n].family = "screening" => a = Screening(in, condition[n])
  /\ condition[n].family \in {"field", "metric"} => a = Predicate(in, condition[n])

(* Every node answers so.                                                  *)
LEMMA NodesAnswer ==
  ASSUME NEW condition, Accepted(condition), NEW in, IsInput(in),
         NEW n \in DOMAIN condition, NEW g \in [DOMAIN condition -> Reply]
  PROVE  Answered(condition, in, n, g, NodeAnswer(condition, in, n, g))
<1> DEFINE node == condition[n]
           list == node.children
           k == Len(list)
           answers == AnswersOfChildren(condition, n, g)
           a == AnswerFrom(node, in, answers)
<1>1. /\ k \in Nat /\ DOMAIN list = 1 .. k
      /\ Children(condition, n) = {list[i] : i \in 1 .. k}
      /\ \A i \in 1 .. k : list[i] \in DOMAIN condition
  BY ChildrenAbove
<1>2. ValidNode(node)
  BY DEF Accepted
<1>3. answers = [i \in DOMAIN list |-> g[list[i]]]
  BY DEF AnswersOfChildren
<1> HIDE DEF k, list, answers
<1>4. answers \in [1 .. k -> Reply] /\ \A i \in 1 .. k : answers[i] = g[list[i]]
  BY <1>1, <1>3
<1>5. Answered(condition, in, n, g, a) <=> Answered(condition, in, n, g, NodeAnswer(condition, in, n, g))
  BY DEF NodeAnswer, answers
<1>6. CASE node.family = "all"
  <2>1. a = AllOf(answers)
    BY <1>6 DEF AnswerFrom
  <2> HIDE DEF a
  <2>2. /\ a \in Reply
        /\ \/ a = Yes /\ \A i \in 1 .. k : answers[i] = Yes
           \/ \E i \in 1 .. k : a = answers[i] /\ answers[i] # Yes
    BY <1>1, <1>4, <2>1, AllOfAnswers
  <2>3. \/ a = Yes /\ \A m \in Children(condition, n) : g[m] = Yes
        \/ \E m \in Children(condition, n) : a = g[m] /\ g[m] # Yes
    BY <1>1, <1>4, <2>2
  <2>4. Answered(condition, in, n, g, a)
    BY <1>6, <2>2, <2>3 DEF Answered, Leaves
  <2> QED
    BY <1>5, <2>4
<1>7. CASE node.family = "any"
  <2>1. a = AnyOf(answers)
    BY <1>7 DEF AnswerFrom
  <2> HIDE DEF a
  <2>2. /\ a \in Reply
        /\ \/ /\ ~a.matched /\ ~a.failed
              /\ a.known <=> \E i \in 1 .. k : answers[i].known
              /\ \A i \in 1 .. k : answers[i] # Yes /\ ~answers[i].failed
           \/ \E i \in 1 .. k : a = answers[i] /\ (answers[i] = Yes \/ answers[i].failed)
    BY <1>1, <1>4, <2>1, AnyOfAnswers
  <2>3. (\E i \in 1 .. k : answers[i].known) <=> (\E m \in Children(condition, n) : g[m].known)
    BY <1>1, <1>4
  <2>4. \/ /\ ~a.matched /\ ~a.failed
           /\ a.known <=> \E m \in Children(condition, n) : g[m].known
           /\ \A m \in Children(condition, n) : g[m] # Yes /\ ~g[m].failed
        \/ \E m \in Children(condition, n) : a = g[m] /\ (g[m] = Yes \/ g[m].failed)
    BY <1>1, <1>4, <2>2, <2>3
  <2>5. Answered(condition, in, n, g, a)
    BY <1>7, <2>2, <2>4 DEF Answered, Leaves
  <2> QED
    BY <1>5, <2>5
<1>8. CASE node.family = "not"
  <2>1. k = 1
    BY <1>2, <1>8 DEF ValidNode, IsPredicate, k, list
  <2>2. 1 \in 1 .. k /\ a = Negated(answers[1])
    BY <1>8, <2>1 DEF AnswerFrom
  <2> HIDE DEF a
  <2>3. a \in Reply
    BY <1>4, <2>2, NegatedAnswer
  <2>4. Children(condition, n) = {list[1]} /\ a = Negated(g[list[1]])
    BY <1>1, <1>4, <2>1, <2>2
  <2>5. Answered(condition, in, n, g, a)
    BY <1>8, <2>3, <2>4 DEF Answered, Leaves
  <2> QED
    BY <1>5, <2>5
<1>9. CASE node.family = "screening"
  <2>1. a = Screening(in, node)
    BY <1>9 DEF AnswerFrom
  <2>2. Faithful(Screening(in, node), in, node)
    BY <1>9, ScreeningIsFaithful
  <2> HIDE DEF a
  <2>3. Answered(condition, in, n, g, a)
    BY <1>9, <2>1, <2>2 DEF Answered, Faithful
  <2> QED
    BY <1>5, <2>3
<1>10. CASE node.family \in {"field", "metric"}
  <2>1. a = Predicate(in, node)
    BY <1>10 DEF AnswerFrom
  <2>2. Faithful(Predicate(in, node), in, node)
    BY <1>2, <1>10, PredicateIsFaithful DEF ValidNode
  <2> HIDE DEF a
  <2>3. Answered(condition, in, n, g, a)
    BY <1>10, <2>1, <2>2 DEF Answered, Faithful
  <2> QED
    BY <1>5, <2>3
<1> QED
  BY <1>2, <1>6, <1>7, <1>8, <1>9, <1>10 DEF ValidNode, IsPredicate

(* Nodes with the same answers of their children answer the same.          *)
LEMMA AnswersOfNodesAbove ==
  ASSUME NEW condition, Accepted(condition), NEW in, NEW n \in DOMAIN condition, NEW g, NEW h,
         \A m \in DOMAIN condition : m > n => g[m] = h[m]
  PROVE  NodeAnswer(condition, in, n, g) = NodeAnswer(condition, in, n, h)
<1> DEFINE list == condition[n].children
<1>1. DOMAIN list = 1 .. Len(list) /\ \A i \in 1 .. Len(list) : list[i] \in DOMAIN condition /\ list[i] > n
  BY ChildrenAbove
<1>2. /\ AnswersOfChildren(condition, n, g) = [i \in DOMAIN list |-> g[list[i]]]
      /\ AnswersOfChildren(condition, n, h) = [i \in DOMAIN list |-> h[list[i]]]
  BY DEF AnswersOfChildren
<1> HIDE DEF list
<1>3. \A i \in DOMAIN list : g[list[i]] = h[list[i]]
  BY <1>1
<1>4. AnswersOfChildren(condition, n, g) = AnswersOfChildren(condition, n, h)
  BY <1>2, <1>3
<1> QED
  BY <1>4 DEF NodeAnswer

(* The answers of a tree exist, and Nodes is them.                         *)
LEMMA TreesAnswer ==
  ASSUME NEW condition, Accepted(condition), NEW in, IsInput(in)
  PROVE  /\ Nodes(condition, in) \in [DOMAIN condition -> Reply]
         /\ \A n \in DOMAIN condition :
              Answered(condition, in, n, Nodes(condition, in), Nodes(condition, in)[n])
<1> DEFINE D == DOMAIN condition
           F == [p \in D \X [D -> Reply] |-> NodeAnswer(condition, in, p[1], p[2])]
           Equation(g) == g = [n \in D |-> NodeAnswer(condition, in, n, g)]
           nodes == CHOOSE g : Equation(g)
<1>1. Nodes(condition, in) = nodes
  BY DEF Nodes, NodeAnswer, AnswerFrom, AnswersOfChildren
<1>2. D \in SUBSET (1 .. MaxNodes) /\ MaxNodes \in Nat /\ Unknown \in Reply
  BY DEF Accepted, MaxNodes, Unknown, Answer, Reply
<1>3. \A n \in D : \A g \in [D -> Reply] : NodeAnswer(condition, in, n, g) \in Reply
  BY NodesAnswer DEF Answered
<1>4. F \in [D \X [D -> Reply] -> Reply]
  BY <1>3
<1>5. \A n \in D : \A g \in [D -> Reply] : F[<<n, g>>] = NodeAnswer(condition, in, n, g)
  OBVIOUS
<1>6. LooksUp(F, MaxNodes, D, Reply, Unknown)
  <2>1. ASSUME NEW n \in D, NEW g \in [D -> Reply], NEW h \in [D -> Reply],
               \A m \in D : m > n => g[m] = h[m]
        PROVE  F[<<n, g>>] = F[<<n, h>>]
    <3>1. NodeAnswer(condition, in, n, g) = NodeAnswer(condition, in, n, h)
      BY <2>1, AnswersOfNodesAbove
    <3> QED
      BY <1>5, <3>1
  <2> HIDE DEF F, D
  <2> QED
    BY <1>2, <1>4, <2>1 DEF LooksUp
<1> HIDE DEF F, nodes
<1>7. PICK g \in [D -> Reply] : \A n \in D : g[n] = F[<<n, g>>]
  <2> HIDE DEF D
  <2> QED
    BY <1>6, RecursionFromAbove
<1>8. Equation(g)
  BY <1>5, <1>7
<1>9. Equation(nodes)
  <2> HIDE DEF Equation
  <2> QED
    BY <1>8 DEF nodes
<1> HIDE DEF Equation
<1>10. nodes = [n \in D |-> nodes[n]] /\ \A n \in D : nodes[n] = NodeAnswer(condition, in, n, nodes)
  BY <1>9 DEF Equation
<1>11. \A n \in D : nodes[n] \in Reply
  <2> DEFINE typed == {n \in D : nodes[n] \in Reply}
             known == [n \in D |-> IF n \in typed THEN nodes[n] ELSE Unknown]
  <2>1. known \in [D -> Reply] /\ \A n \in typed : known[n] = nodes[n]
    BY <1>2
  <2> HIDE DEF known
  <2>2. ASSUME NEW n \in D, \A m \in D : m > n => m \in typed PROVE n \in typed
    <3>1. NodeAnswer(condition, in, n, nodes) = NodeAnswer(condition, in, n, known)
      BY <2>1, <2>2, AnswersOfNodesAbove
    <3>2. nodes[n] \in Reply
      BY <1>3, <1>10, <2>1, <3>1
    <3> QED
      BY <3>2
  <2> HIDE DEF D, typed
  <2>3. \A n \in D : n \in typed
    BY <1>2, <2>2, InductionFromAbove
  <2> QED
    BY <2>3 DEF typed
<1>12. nodes \in [D -> Reply]
  <2> HIDE DEF D
  <2> QED
    BY <1>10, <1>11
<1>13. ASSUME NEW n \in D PROVE Answered(condition, in, n, nodes, nodes[n])
  BY <1>10, <1>12, NodesAnswer
<1> QED
  BY <1>1, <1>12, <1>13

-----------------------------------------------------------------------------
(* Boolean logic.                                                          *)

(* What a node says, when h says it of all.                                *)
NodeTruth(condition, truth, n, h) ==
  CASE condition[n].family = "all" -> \A m \in Children(condition, n) : h[m]
    [] condition[n].family = "any" -> \E m \in Children(condition, n) : h[m]
    [] condition[n].family = "not" -> \A m \in Children(condition, n) : ~h[m]
    [] OTHER -> truth[n]

Follows(condition, truth, n, h) ==
  /\ condition[n].family = "all" => (h[n] <=> \A m \in Children(condition, n) : h[m])
  /\ condition[n].family = "any" => (h[n] <=> \E m \in Children(condition, n) : h[m])
  /\ condition[n].family = "not" => (h[n] <=> \A m \in Children(condition, n) : ~h[m])
  /\ n \in Leaves(condition) => (h[n] <=> truth[n])

(* What the nodes of a tree say exists, and Holds is it of the root.       *)
LEMMA TreesHold ==
  ASSUME NEW condition, Accepted(condition), NEW truth \in [Leaves(condition) -> BOOLEAN]
  PROVE  \E h \in [DOMAIN condition -> BOOLEAN] :
           /\ Holds(condition, truth) <=> h[1]
           /\ \A n \in DOMAIN condition : Follows(condition, truth, n, h)
<1> DEFINE D == DOMAIN condition
           F == [p \in D \X [D -> BOOLEAN] |-> NodeTruth(condition, truth, p[1], p[2])]
           Equation(h) == h = [n \in D |-> NodeTruth(condition, truth, n, h)]
           holds == CHOOSE h : Equation(h)
<1>1. Holds(condition, truth) = holds[1]
  BY DEF Holds, NodeTruth
<1>2. D \in SUBSET (1 .. MaxNodes) /\ MaxNodes \in Nat /\ TRUE \in BOOLEAN
  BY DEF Accepted, MaxNodes
<1>3. ASSUME NEW n \in D, NEW h PROVE NodeTruth(condition, truth, n, h) \in BOOLEAN
  <2>1. ValidNode(condition[n])
    BY DEF Accepted
  <2>2. condition[n].family \in {"all", "any", "not"} \/ n \in Leaves(condition)
    BY <2>1 DEF ValidNode, IsPredicate, Leaves
  <2>3. CASE condition[n].family \in {"all", "any", "not"}
    BY <2>3 DEF NodeTruth
  <2>4. CASE n \in Leaves(condition)
    <3>1. NodeTruth(condition, truth, n, h) = truth[n]
      BY <2>4 DEF NodeTruth, Leaves
    <3> QED
      BY <2>4, <3>1
  <2> QED
    BY <2>2, <2>3, <2>4
<1>4. F \in [D \X [D -> BOOLEAN] -> BOOLEAN]
  BY <1>3
<1>5. \A n \in D : \A h \in [D -> BOOLEAN] : F[<<n, h>>] = NodeTruth(condition, truth, n, h)
  OBVIOUS
<1>6. LooksUp(F, MaxNodes, D, BOOLEAN, TRUE)
  <2>1. ASSUME NEW n \in D, NEW g \in [D -> BOOLEAN], NEW h \in [D -> BOOLEAN],
               \A m \in D : m > n => g[m] = h[m]
        PROVE  F[<<n, g>>] = F[<<n, h>>]
    <3>1. \A m \in Children(condition, n) : g[m] = h[m]
      BY <2>1, ChildrenAbove
    <3>2. NodeTruth(condition, truth, n, g) = NodeTruth(condition, truth, n, h)
      BY <3>1 DEF NodeTruth
    <3> QED
      BY <1>5, <3>2
  <2> HIDE DEF F, D
  <2> QED
    BY <1>2, <1>4, <2>1 DEF LooksUp
<1> HIDE DEF F, holds
<1>7. PICK g \in [D -> BOOLEAN] : \A n \in D : g[n] = F[<<n, g>>]
  <2> DEFINE values == BOOLEAN
             value == TRUE
  <2>1. LooksUp(F, MaxNodes, D, values, value)
    BY <1>6
  <2> HIDE DEF D, values, value
  <2>2. \E g \in [D -> values] : \A n \in D : g[n] = F[<<n, g>>]
    BY <2>1, RecursionFromAbove
  <2> QED
    BY <2>2 DEF values
<1>8. Equation(g)
  BY <1>5, <1>7
<1>9. Equation(holds)
  <2> HIDE DEF Equation
  <2> QED
    BY <1>8 DEF holds
<1> HIDE DEF Equation
<1>10. holds = [n \in D |-> holds[n]] /\ \A n \in D : holds[n] = NodeTruth(condition, truth, n, holds)
  BY <1>9 DEF Equation
<1>11. holds \in [D -> BOOLEAN]
  <2> HIDE DEF D
  <2> QED
    BY <1>3, <1>10
<1>12. ASSUME NEW n \in D PROVE Follows(condition, truth, n, holds)
  BY <1>10 DEF Follows, NodeTruth, Leaves
<1> QED
  BY <1>1, <1>11, <1>12

(* That every leaf is false unless its operands say otherwise is one way   *)
(* they may turn out.                                                      *)
LEMMA WorstOutcome ==
  ASSUME NEW condition, NEW in
  PROVE  \E truth \in Outcomes(condition, in) :
           \A n \in Leaves(condition) :
             truth[n] => Decided(condition, in, n) /\ Says(in, condition[n])
<1> DEFINE leaves == Leaves(condition)
           worst(n) == Decided(condition, in, n) /\ Says(in, condition[n])
           truth == [n \in leaves |-> worst(n)]
<1>1. ASSUME NEW n \in leaves PROVE worst(n) \in BOOLEAN /\ truth[n] = worst(n)
  OBVIOUS
<1> HIDE DEF worst
<1>2. truth \in [leaves -> BOOLEAN]
  BY <1>1
<1> HIDE DEF truth
<1>3. \A n \in leaves : truth[n] <=> Decided(condition, in, n) /\ Says(in, condition[n])
  BY <1>1 DEF worst
<1>4. truth \in Outcomes(condition, in)
  BY <1>2, <1>3 DEF Outcomes
<1> QED
  BY <1>3, <1>4

-----------------------------------------------------------------------------
(* Answers against Boolean logic.                                          *)

(* g are the answers of a tree, h what its nodes say when its leaves turn  *)
(* out to be as in truth.                                                  *)
Judges(condition, in, g, truth, h) ==
  /\ Accepted(condition)
  /\ g \in [DOMAIN condition -> Reply] /\ h \in [DOMAIN condition -> BOOLEAN]
  /\ \A n \in DOMAIN condition : Answered(condition, in, n, g, g[n]) /\ Follows(condition, truth, n, h)
  /\ \A n \in Leaves(condition) : g[n].known => (g[n].matched <=> h[n])

(* What is known of a node is so.                                          *)
Exact(g, h, n) == g[n].known => (g[n].matched <=> h[n])

(* What induction over a tree may use of a node.                           *)
LEMMA JudgedNode ==
  ASSUME NEW condition, NEW in, NEW g, NEW truth, NEW h, Judges(condition, in, g, truth, h),
         NEW n \in DOMAIN condition
  PROVE  /\ g[n] \in Reply /\ h[n] \in BOOLEAN
         /\ Answered(condition, in, n, g, g[n]) /\ Follows(condition, truth, n, h)
         /\ condition[n].family \in {"all", "any", "not"} \/ n \in Leaves(condition)
         /\ condition[n].family \in {"all", "any"} => Children(condition, n) # {}
         /\ \A m \in Children(condition, n) :
              /\ m \in DOMAIN condition /\ m > n
              /\ g[m] \in Reply /\ h[m] \in BOOLEAN
              /\ (g[m].known /\ g[m].matched) <=> g[m] = Yes
         /\ (g[n].known /\ g[n].matched) <=> g[n] = Yes
<1>1. Accepted(condition) /\ ValidNode(condition[n])
  BY DEF Judges, Accepted
<1>2. condition[n].family \in {"all", "any", "not"} \/ n \in Leaves(condition)
  BY <1>1 DEF ValidNode, IsPredicate, Leaves
<1>3. condition[n].family \in {"all", "any"} => Children(condition, n) # {}
  <2> DEFINE list == condition[n].children
  <2>1. Children(condition, n) = {list[i] : i \in 1 .. Len(list)} /\ Len(list) \in Nat
    BY <1>1, ChildrenAbove
  <2>2. condition[n].family \in {"all", "any"} => Len(list) \in 1 .. MaxChildren
    BY <1>1 DEF ValidNode, IsPredicate
  <2>3. condition[n].family \in {"all", "any"} => 1 \in 1 .. Len(list)
    <3>1. \A k \in 1 .. MaxChildren : 1 \in 1 .. k
      BY DEF MaxChildren
    <3> HIDE DEF list
    <3> QED
      BY <2>2, <3>1
  <2> QED
    BY <2>1, <2>3
<1>4. \A m \in Children(condition, n) : m \in DOMAIN condition /\ m > n
  BY <1>1, ChildrenAbove
<1>5. \A m \in DOMAIN condition : g[m] \in Reply /\ h[m] \in BOOLEAN
  BY DEF Judges
<1>6. Answered(condition, in, n, g, g[n]) /\ Follows(condition, truth, n, h)
  BY DEF Judges
<1> QED
  BY <1>2, <1>3, <1>4, <1>5, <1>6, KnownMatch

(* To show something of every node of a closed part of a tree, show it of  *)
(* a node whose children have it.                                          *)
LEMMA TreeInduction ==
  ASSUME NEW condition, Accepted(condition), NEW part \in SUBSET (DOMAIN condition), NEW T,
         \A n \in part : Children(condition, n) \subseteq part,
         \A n \in part : Children(condition, n) \subseteq T => n \in T
  PROVE  \A n \in part : n \in T
<1>1. MaxNodes \in Nat /\ part \in SUBSET (1 .. MaxNodes)
  BY DEF Accepted, MaxNodes
<1>2. ASSUME NEW n \in part, \A m \in part : m > n => m \in T PROVE n \in T
  <2>1. \A m \in Children(condition, n) : m > n /\ m \in part
    BY ChildrenAbove
  <2> QED
    BY <1>2, <2>1
<1> QED
  BY <1>1, <1>2, InductionFromAbove

(* Answers and truths of a condition exist, and what a leaf is known to    *)
(* say is so in every outcome.                                             *)
LEMMA TreesAreJudged ==
  ASSUME NEW condition, Accepted(condition), NEW in, IsInput(in),
         NEW truth \in Outcomes(condition, in)
  PROVE  \E h : /\ Judges(condition, in, Nodes(condition, in), truth, h)
                /\ Holds(condition, truth) <=> h[1]
<1> DEFINE g == Nodes(condition, in)
<1>1. truth \in [Leaves(condition) -> BOOLEAN]
  BY DEF Outcomes
<1>2. PICK h \in [DOMAIN condition -> BOOLEAN] :
        /\ Holds(condition, truth) <=> h[1]
        /\ \A n \in DOMAIN condition : Follows(condition, truth, n, h)
  BY <1>1, TreesHold
<1>3. /\ g \in [DOMAIN condition -> Reply]
      /\ \A n \in DOMAIN condition : Answered(condition, in, n, g, g[n])
  BY TreesAnswer
<1> HIDE DEF g
<1>4. ASSUME NEW n \in Leaves(condition), g[n].known PROVE g[n].matched <=> h[n]
  <2>1. n \in DOMAIN condition
    BY DEF Leaves
  <2>2. Decided(condition, in, n) /\ (g[n].matched <=> Says(in, condition[n]))
    BY <1>3, <1>4, <2>1 DEF Answered, Faithful, Decided
  <2>3. truth[n] <=> Says(in, condition[n])
    BY <2>2 DEF Outcomes
  <2>4. h[n] <=> truth[n]
    BY <1>2, <2>1 DEF Follows
  <2> QED
    BY <2>2, <2>3, <2>4
<1>5. Judges(condition, in, g, truth, h)
  BY <1>2, <1>3, <1>4 DEF Judges
<1> QED
  BY <1>2, <1>5 DEF g

(* Where no "any" is, everything known is so.                              *)
LEMMA ExactWithoutAny ==
  ASSUME NEW condition, NEW in, NEW g, NEW truth, NEW h, Judges(condition, in, g, truth, h),
         NEW part \in SUBSET (DOMAIN condition),
         \A n \in part : condition[n].family # "any" /\ Children(condition, n) \subseteq part
  PROVE  \A n \in part : Exact(g, h, n)
<1> DEFINE T == {n \in part : Exact(g, h, n)}
<1>1. ASSUME NEW n \in part, Children(condition, n) \subseteq T PROVE Exact(g, h, n)
  <2>1. \A m \in Children(condition, n) : g[m].known => (g[m].matched <=> h[m])
    BY <1>1 DEF Exact
  <2> HIDE DEF T
  <2>2. CASE condition[n].family = "all"
    <3>1. CASE g[n] = Yes /\ \A m \in Children(condition, n) : g[m] = Yes
      BY <2>1, <2>2, <3>1, JudgedNode DEF Exact, Follows
    <3>2. CASE \E m \in Children(condition, n) : g[n] = g[m] /\ g[m] # Yes
      BY <2>1, <2>2, <3>2, JudgedNode DEF Exact, Follows
    <3> QED
      BY <2>2, <3>1, <3>2, JudgedNode DEF Answered
  <2>3. CASE condition[n].family = "not"
    <3>1. PICK m \in Children(condition, n) :
            Children(condition, n) = {m} /\ g[n] = Negated(g[m])
      BY <2>3, JudgedNode DEF Answered
    <3>2. g[m] \in Reply /\ h[m] \in BOOLEAN /\ (h[n] <=> ~h[m])
      BY <2>3, <3>1, JudgedNode DEF Follows
    <3>3. g[n].matched = ~g[m].matched /\ g[n].known = g[m].known
      BY <3>1, <3>2, NegatedAnswer
    <3> QED
      BY <2>1, <3>2, <3>3 DEF Exact
  <2>4. CASE n \in Leaves(condition)
    BY <2>4 DEF Judges, Exact
  <2> QED
    BY <1>1, <2>2, <2>3, <2>4, JudgedNode
<1>2. Accepted(condition)
  BY DEF Judges
<1>3. \A n \in part : n \in T
  <2>1. \A n \in part : Children(condition, n) \subseteq T => n \in T
    BY <1>1
  <2> HIDE DEF T
  <2> QED
    BY <1>2, <2>1, TreeInduction
<1> QED
  BY <1>3

(* Where no "any" is below a "not", every match is so.                     *)
LEMMA MatchesHold ==
  ASSUME NEW condition, NEW in, NEW g, NEW truth, NEW h, Judges(condition, in, g, truth, h),
         NEW below \in SUBSET {n \in DOMAIN condition : condition[n].family # "any"},
         \A n \in DOMAIN condition :
           n \in below \/ condition[n].family = "not" => Children(condition, n) \subseteq below
  PROVE  \A n \in DOMAIN condition : g[n] = Yes => h[n]
<1> DEFINE T == {n \in DOMAIN condition : g[n] = Yes => h[n]}
<1>1. \A n \in below : Exact(g, h, n)
  BY ExactWithoutAny
<1>2. ASSUME NEW n \in DOMAIN condition, Children(condition, n) \subseteq T, g[n] = Yes PROVE h[n]
  <2>1. \A m \in Children(condition, n) : g[m] = Yes => h[m]
    BY <1>2
  <2> HIDE DEF T
  <2>2. CASE condition[n].family = "all"
    <3>1. \A m \in Children(condition, n) : g[m] = Yes
      BY <1>2, <2>2, JudgedNode DEF Answered
    <3> QED
      BY <2>1, <2>2, <3>1, JudgedNode DEF Follows
  <2>3. CASE condition[n].family = "any"
    <3>1. g[n].matched /\ ~g[n].failed
      BY <1>2 DEF Yes, Answer
    <3>2. \E m \in Children(condition, n) : g[n] = g[m] /\ (g[m] = Yes \/ g[m].failed)
      BY <2>3, <3>1, JudgedNode DEF Answered
    <3>3. \E m \in Children(condition, n) : g[m] = Yes
      BY <1>2, <3>2
    <3> QED
      BY <2>1, <2>3, <3>3, JudgedNode DEF Follows
  <2>4. CASE condition[n].family = "not"
    <3>1. PICK m \in Children(condition, n) :
            Children(condition, n) = {m} /\ g[n] = Negated(g[m])
      BY <2>4, JudgedNode DEF Answered
    <3>2. g[m] \in Reply /\ h[m] \in BOOLEAN /\ (h[n] <=> ~h[m])
      BY <2>4, <3>1, JudgedNode DEF Follows
    <3>3. g[n].matched = ~g[m].matched /\ g[n].known = g[m].known
      BY <3>1, <3>2, NegatedAnswer
    <3>4. g[n].matched = TRUE /\ g[n].known = TRUE
      BY <1>2 DEF Yes, Answer
    <3>5. Exact(g, h, m)
      BY <1>1, <2>4, <3>1
    <3> QED
      BY <3>2, <3>3, <3>4, <3>5 DEF Exact, Reply
  <2>5. CASE n \in Leaves(condition)
    <3>1. g[n].matched = TRUE /\ g[n].known = TRUE
      BY <1>2 DEF Yes, Answer
    <3> QED
      BY <2>5, <3>1 DEF Judges
  <2> QED
    BY <2>2, <2>3, <2>4, <2>5, JudgedNode
<1>3. Accepted(condition) /\ \A n \in DOMAIN condition : Children(condition, n) \subseteq DOMAIN condition
  BY ChildrenAbove DEF Judges
<1>4. \A n \in DOMAIN condition : n \in T
  <2>1. \A n \in DOMAIN condition : Children(condition, n) \subseteq T => n \in T
    BY <1>2
  <2> HIDE DEF T
  <2> QED
    BY <1>3, <2>1, TreeInduction
<1> QED
  BY <1>4

(* With every operand at hand a node fails or is known, and what is known  *)
(* is so.                                                                  *)
LEMMA CompleteTreesDecide ==
  ASSUME NEW condition, NEW in, NEW g, NEW truth, NEW h, Judges(condition, in, g, truth, h),
         \A n \in Leaves(condition) : g[n].known \/ g[n].failed
  PROVE  \A n \in DOMAIN condition : (g[n].known \/ g[n].failed) /\ Exact(g, h, n)
<1> DEFINE Settled(n) == (g[n].known \/ g[n].failed) /\ Exact(g, h, n)
           T == {n \in DOMAIN condition : Settled(n)}
<1>1. ASSUME NEW n \in DOMAIN condition, Children(condition, n) \subseteq T PROVE Settled(n)
  <2>1. \A m \in Children(condition, n) :
          (g[m].known \/ g[m].failed) /\ (g[m].known => (g[m].matched <=> h[m]))
    BY <1>1 DEF Exact
  <2> HIDE DEF T
  <2>2. CASE condition[n].family = "all"
    <3>1. CASE g[n] = Yes /\ \A m \in Children(condition, n) : g[m] = Yes
      BY <2>1, <2>2, <3>1, JudgedNode DEF Exact, Follows
    <3>2. CASE \E m \in Children(condition, n) : g[n] = g[m] /\ g[m] # Yes
      BY <2>1, <2>2, <3>2, JudgedNode DEF Exact, Follows
    <3> QED
      BY <2>2, <3>1, <3>2, JudgedNode DEF Answered
  <2>3. CASE condition[n].family = "any"
    <3>1. CASE /\ ~g[n].matched /\ ~g[n].failed
               /\ g[n].known <=> \E m \in Children(condition, n) : g[m].known
               /\ \A m \in Children(condition, n) : g[m] # Yes /\ ~g[m].failed
      <4>1. PICK m \in Children(condition, n) : TRUE
        BY <2>3, JudgedNode
      <4>2. g[n].known
        BY <2>1, <3>1, <4>1
      <4>3. \A p \in Children(condition, n) : ~h[p]
        BY <2>1, <3>1, JudgedNode
      <4> QED
        BY <2>3, <3>1, <4>2, <4>3, JudgedNode DEF Exact, Follows
    <3>2. CASE \E m \in Children(condition, n) : g[n] = g[m] /\ (g[m] = Yes \/ g[m].failed)
      <4>1. PICK m \in Children(condition, n) : g[n] = g[m] /\ (g[m] = Yes \/ g[m].failed)
        BY <3>2
      <4>2. CASE g[m].failed
        <5>1. g[n].failed /\ ~g[n].known
          BY <4>1, <4>2, JudgedNode DEF Reply
        <5> QED
          BY <5>1 DEF Exact
      <4>3. CASE g[m] = Yes
        <5>1. h[m] /\ h[n]
          BY <2>1, <2>3, <4>1, <4>3, JudgedNode DEF Follows
        <5> QED
          BY <4>1, <4>3, <5>1, JudgedNode DEF Exact
      <4> QED
        BY <4>1, <4>2, <4>3
    <3> QED
      BY <2>3, <3>1, <3>2, JudgedNode DEF Answered
  <2>4. CASE condition[n].family = "not"
    <3>1. PICK m \in Children(condition, n) :
            Children(condition, n) = {m} /\ g[n] = Negated(g[m])
      BY <2>4, JudgedNode DEF Answered
    <3>2. g[m] \in Reply /\ h[m] \in BOOLEAN /\ (h[n] <=> ~h[m])
      BY <2>4, <3>1, JudgedNode DEF Follows
    <3>3. g[n].matched = ~g[m].matched /\ g[n].known = g[m].known /\ g[n].failed = g[m].failed
      BY <3>1, <3>2, NegatedAnswer
    <3> QED
      BY <2>1, <3>2, <3>3 DEF Exact
  <2>5. CASE n \in Leaves(condition)
    BY <2>5 DEF Judges, Exact
  <2> QED
    BY <2>2, <2>3, <2>4, <2>5, JudgedNode
<1>2. Accepted(condition) /\ \A n \in DOMAIN condition : Children(condition, n) \subseteq DOMAIN condition
  BY ChildrenAbove DEF Judges
<1> HIDE DEF Settled
<1>3. \A n \in DOMAIN condition : n \in T
  <2>1. \A n \in DOMAIN condition : Children(condition, n) \subseteq T => n \in T
    BY <1>1
  <2> HIDE DEF T
  <2> QED
    BY <1>2, <2>1, TreeInduction
<1> QED
  BY <1>3 DEF Settled

(* Without negation a node holds at worst when it matches or fails.        *)
LEMMA WhatHoldsMatches ==
  ASSUME NEW condition, NEW in, NEW g, NEW truth, NEW h, Judges(condition, in, g, truth, h),
         \A n \in DOMAIN condition : condition[n].family # "not",
         \A n \in Leaves(condition) : h[n] => g[n] = Yes
  PROVE  \A n \in DOMAIN condition : h[n] => g[n] = Yes \/ g[n].failed
<1> DEFINE T == {n \in DOMAIN condition : h[n] => g[n] = Yes \/ g[n].failed}
<1>1. ASSUME NEW n \in DOMAIN condition, Children(condition, n) \subseteq T, h[n]
      PROVE  g[n] = Yes \/ g[n].failed
  <2>1. \A m \in Children(condition, n) : h[m] => g[m] = Yes \/ g[m].failed
    BY <1>1
  <2> HIDE DEF T
  <2>2. CASE condition[n].family = "all"
    <3>1. \A m \in Children(condition, n) : g[m] = Yes \/ g[m].failed
      BY <1>1, <2>1, <2>2, JudgedNode DEF Follows
    <3> QED
      BY <2>2, <3>1, JudgedNode DEF Answered
  <2>3. CASE condition[n].family = "any"
    <3>1. \E m \in Children(condition, n) : g[m] = Yes \/ g[m].failed
      BY <1>1, <2>1, <2>3, JudgedNode DEF Follows
    <3> QED
      BY <2>3, <3>1, JudgedNode DEF Answered
  <2> QED
    BY <1>1, <2>2, <2>3, JudgedNode
<1>2. Accepted(condition) /\ \A n \in DOMAIN condition : Children(condition, n) \subseteq DOMAIN condition
  BY ChildrenAbove DEF Judges
<1>3. \A n \in DOMAIN condition : n \in T
  <2>1. \A n \in DOMAIN condition : Children(condition, n) \subseteq T => n \in T
    BY <1>1
  <2> HIDE DEF T
  <2> QED
    BY <1>2, <2>1, TreeInduction
<1> QED
  BY <1>3

(* A tree fails only where a leaf does.                                    *)
LEMMA FailuresAreOfLeaves ==
  ASSUME NEW condition, Accepted(condition), NEW in, NEW g \in [DOMAIN condition -> Reply],
         \A n \in DOMAIN condition : Answered(condition, in, n, g, g[n]),
         \A n \in Leaves(condition) : ~g[n].failed
  PROVE  \A n \in DOMAIN condition : ~g[n].failed
<1> DEFINE T == {n \in DOMAIN condition : ~g[n].failed}
<1>1. ASSUME NEW n \in DOMAIN condition, Children(condition, n) \subseteq T PROVE ~g[n].failed
  <2>1. \A m \in Children(condition, n) : ~g[m].failed /\ g[m] \in Reply
    BY <1>1
  <2>2. ~Yes.failed
    BY DEF Yes, Answer
  <2> HIDE DEF T
  <2>3. Answered(condition, in, n, g, g[n])
    OBVIOUS
  <2>4. ValidNode(condition[n])
    BY DEF Accepted
  <2>5. CASE condition[n].family = "not"
    BY <2>1, <2>3, <2>5, NegatedAnswer DEF Answered
  <2>6. CASE condition[n].family \in {"all", "any"}
    BY <2>1, <2>2, <2>3, <2>6 DEF Answered
  <2>7. CASE n \in Leaves(condition)
    BY <2>7
  <2> QED
    BY <2>4, <2>5, <2>6, <2>7 DEF ValidNode, IsPredicate, Leaves
<1>2. \A n \in DOMAIN condition : Children(condition, n) \subseteq DOMAIN condition
  BY ChildrenAbove
<1>3. \A n \in DOMAIN condition : n \in T
  <2>1. \A n \in DOMAIN condition : Children(condition, n) \subseteq T => n \in T
    BY <1>1
  <2> HIDE DEF T
  <2> QED
    BY <1>2, <2>1, TreeInduction
<1> QED
  BY <1>3

-----------------------------------------------------------------------------
(* The theorems.                                                           *)

(* What is asked is accepted, and what is answered is what Evaluate says.  *)
Asked ==
  /\ version \in Versions /\ ValidCondition(version.condition)
  /\ input \in InputsOf[version]
  /\ phase = "answered" => observation = Evaluate(version, input)

LEMMA AskedInvariant == Spec => []Asked
<1>1. Init => Asked
  BY DEF Init, Asked
<1>2. Asked /\ [EvaluateContext]_vars => Asked'
  BY DEF Asked, EvaluateContext, vars
<1> QED
  BY <1>1, <1>2, PTL DEF Spec

(* Of a judged version: its condition is accepted, its input is one, and   *)
(* the observation is made of the answer of the root.                      *)
LEMMA JudgedVersion ==
  ASSUME Asked, Judged
  PROVE  LET root == Nodes(version.condition, input)[1]
         IN  /\ Accepted(version.condition) /\ IsInput(input) /\ 1 \in DOMAIN version.condition
             /\ root \in Reply
             /\ observation.matched <=> root = Yes
             /\ observation.insufficient <=> ~root.known /\ ~root.failed
             /\ observation.failed <=> root.failed
<1> DEFINE root == Nodes(version.condition, input)[1]
<1>1. Accepted(version.condition)
  BY ConditionsAreAccepted DEF Asked
<1>2. IsInput(input)
  BY InputsAssumption DEF Asked, IsInput
<1>3. 1 \in DOMAIN version.condition
  BY <1>1 DEF Accepted
<1>4. root \in Reply
  BY <1>1, <1>2, <1>3, TreesAnswer
<1>5. observation = [matched |-> root.known /\ root.matched,
                     insufficient |-> ~root.known /\ ~root.failed,
                     failed |-> root.failed]
  BY DEF Asked, Judged, Evaluate
<1> HIDE DEF root
<1>6. /\ observation.matched <=> root.known /\ root.matched
      /\ observation.insufficient <=> ~root.known /\ ~root.failed
      /\ observation.failed <=> root.failed
  BY <1>4, <1>5 DEF Reply
<1> QED
  BY <1>1, <1>2, <1>3, <1>4, <1>6, KnownMatch DEF root

(* A match does not rest on what is missing or broken, for any condition   *)
(* that negates no "any" and any input (evaluator.go:86-141).              *)
THEOREM MatchesAreCertain == Spec => []MatchIsCertain
<1>1. Asked => MatchIsCertain
  <2> SUFFICES ASSUME Asked, Judged, observation.matched, NegatesNoAny,
                      NEW truth \in Outcomes(version.condition, input)
               PROVE  Holds(version.condition, truth)
    BY DEF MatchIsCertain, Certain
  <2> DEFINE condition == version.condition
             g == Nodes(condition, input)
  <2>1. Accepted(condition) /\ IsInput(input) /\ 1 \in DOMAIN condition /\ g[1] = Yes
    BY JudgedVersion
  <2>2. PICK h : Judges(condition, input, g, truth, h) /\ (Holds(condition, truth) <=> h[1])
    BY <2>1, TreesAreJudged
  <2>3. PICK below \in SUBSET {n \in DOMAIN condition : condition[n].family # "any"} :
          \A n \in DOMAIN condition :
            n \in below \/ condition[n].family = "not" => Children(condition, n) \subseteq below
    BY DEF NegatesNoAny
  <2> HIDE DEF condition, g
  <2>4. \A n \in DOMAIN condition : g[n] = Yes => h[n]
    BY <2>2, <2>3, MatchesHold
  <2> QED
    BY <2>1, <2>2, <2>4 DEF condition
<1> QED
  BY <1>1, AskedInvariant, PTL

(* With nothing missing the evaluation decides as Boolean logic does, or   *)
(* fails, for any condition and any input.                                 *)
THEOREM CompleteInputsDecide == Spec => []CompleteIsDecided
<1>1. Asked => CompleteIsDecided
  <2> SUFFICES ASSUME Asked, Judged, Complete, ~observation.failed
               PROVE  /\ ~observation.insufficient
                      /\ \A truth \in Outcomes(version.condition, input) :
                           observation.matched <=> Holds(version.condition, truth)
    BY DEF CompleteIsDecided
  <2> DEFINE condition == version.condition
             g == Nodes(condition, input)
  <2>1. /\ Accepted(condition) /\ IsInput(input) /\ 1 \in DOMAIN condition
        /\ g[1] \in Reply /\ ~g[1].failed
        /\ observation.matched <=> g[1] = Yes
        /\ observation.insufficient <=> ~g[1].known /\ ~g[1].failed
    BY JudgedVersion
  <2>2. \A n \in Leaves(condition) : Supplied(input, condition[n])
    BY DEF Complete
  <2> HIDE DEF condition
  <2>3. /\ g \in [DOMAIN condition -> Reply]
        /\ \A n \in DOMAIN condition : Answered(condition, input, n, g, g[n])
    BY <2>1, TreesAnswer
  <2> HIDE DEF g
  <2>4. \A n \in Leaves(condition) : g[n].known \/ g[n].failed
    <3>1. ASSUME NEW n \in Leaves(condition) PROVE g[n].known \/ g[n].failed
      <4>1. n \in DOMAIN condition
        BY DEF Leaves
      <4>2. Faithful(g[n], input, condition[n])
        BY <2>3, <4>1 DEF Answered
      <4> QED
        BY <2>2, <4>2 DEF Faithful
    <3> QED
      BY <3>1
  <2>5. ASSUME NEW truth \in Outcomes(condition, input)
        PROVE  g[1].known /\ (observation.matched <=> Holds(condition, truth))
    <3>1. PICK h : Judges(condition, input, g, truth, h) /\ (Holds(condition, truth) <=> h[1])
      BY <2>1, TreesAreJudged DEF g
    <3>2. (g[1].known \/ g[1].failed) /\ Exact(g, h, 1)
      BY <2>1, <2>4, <3>1, CompleteTreesDecide
    <3> QED
      BY <2>1, <3>1, <3>2, KnownMatch DEF Exact
  <2>6. \E truth \in Outcomes(condition, input) : TRUE
    BY WorstOutcome
  <2> QED
    BY <2>1, <2>5, <2>6 DEF condition
<1> QED
  BY <1>1, AskedInvariant, PTL

(* Without negation nothing that must match is missed, for any condition   *)
(* and any input (evaluator.go:99-115).                                    *)
THEOREM MatchesAreFound == Spec => []MatchIsFound
<1>1. Asked => MatchIsFound
  <2> SUFFICES ASSUME Asked, Judged, NegationFree, ~observation.failed, Certain
               PROVE  observation.matched
    BY DEF MatchIsFound
  <2> DEFINE condition == version.condition
             g == Nodes(condition, input)
  <2>1. /\ Accepted(condition) /\ IsInput(input) /\ 1 \in DOMAIN condition
        /\ g[1] \in Reply /\ ~g[1].failed /\ (observation.matched <=> g[1] = Yes)
    BY JudgedVersion
  <2>2. /\ \A n \in DOMAIN condition : condition[n].family # "not"
        /\ \A truth \in Outcomes(condition, input) : Holds(condition, truth)
    BY DEF NegationFree, Certain
  <2> HIDE DEF condition
  <2>3. PICK truth \in Outcomes(condition, input) :
          \A n \in Leaves(condition) :
            truth[n] => Decided(condition, input, n) /\ Says(input, condition[n])
    BY WorstOutcome
  <2>4. PICK h : Judges(condition, input, g, truth, h) /\ (Holds(condition, truth) <=> h[1])
    BY <2>1, TreesAreJudged
  <2> HIDE DEF g
  <2>5. ASSUME NEW n \in Leaves(condition), h[n] PROVE g[n] = Yes
    <3>1. /\ n \in DOMAIN condition /\ g[n] \in Reply
          /\ Answered(condition, input, n, g, g[n]) /\ Follows(condition, truth, n, h)
      BY <2>4 DEF Leaves, Judges
    <3>2. truth[n]
      BY <2>5, <3>1 DEF Follows
    <3>3. Decided(condition, input, n) /\ Says(input, condition[n])
      BY <2>3, <3>2
    <3>4. Faithful(g[n], input, condition[n])
      BY <3>1 DEF Answered
    <3>5. g[n].known /\ g[n].matched
      BY <3>3, <3>4 DEF Faithful, Decided
    <3> QED
      BY <3>1, <3>5, KnownMatch
  <2>6. \A n \in DOMAIN condition : h[n] => g[n] = Yes \/ g[n].failed
    BY <2>2, <2>4, <2>5, WhatHoldsMatches
  <2> QED
    BY <2>1, <2>2, <2>3, <2>4, <2>6
<1> QED
  BY <1>1, AskedInvariant, PTL

(* An accepted condition fails only on what the caller supplies, or on     *)
(* membership in a scalar (scenario.go:212-238 against                     *)
(* evaluator.go:192-258).                                                  *)
THEOREM FailuresAreOfData == Spec => []FailsOnlyOnData
<1>1. Asked => FailsOnlyOnData
  <2> SUFFICES ASSUME Asked, Judged, GoodData PROVE ~observation.failed
    BY DEF FailsOnlyOnData
  <2> DEFINE condition == version.condition
             g == Nodes(condition, input)
  <2>1. /\ Accepted(condition) /\ IsInput(input) /\ 1 \in DOMAIN condition
        /\ observation.failed <=> g[1].failed
    BY JudgedVersion
  <2>2. \A n \in Leaves(condition) :
          GoodOperands(input, condition[n]) /\ ~AsksScalar(condition[n])
    BY DEF GoodData
  <2> HIDE DEF condition
  <2>3. /\ g \in [DOMAIN condition -> Reply]
        /\ \A n \in DOMAIN condition : Answered(condition, input, n, g, g[n])
    BY <2>1, TreesAnswer
  <2> HIDE DEF g
  <2>4. ASSUME NEW n \in Leaves(condition) PROVE ~g[n].failed
    <3>1. n \in DOMAIN condition /\ condition[n].family \in {"screening", "field", "metric"}
      BY DEF Leaves
    <3>2. Answered(condition, input, n, g, g[n]) /\ ValidNode(condition[n])
      BY <2>1, <2>3, <3>1 DEF Accepted
    <3>3. CASE condition[n].family = "screening"
      BY <2>1, <3>2, <3>3, ScreeningIsFaithful DEF Answered
    <3>4. CASE condition[n].family \in {"field", "metric"}
      <4>1. IsPredicate(condition[n]) /\ ValidPredicate(condition[n])
        BY <3>2, <3>4 DEF ValidNode
      <4>2. ~Predicate(input, condition[n]).failed
        BY <2>1, <2>2, <4>1, GoodDataIsCompared
      <4> QED
        BY <3>2, <3>4, <4>2 DEF Answered
    <3> QED
      BY <3>1, <3>3, <3>4
  <2> QED
    BY <2>1, <2>3, <2>4, FailuresAreOfLeaves
<1> QED
  BY <1>1, AskedInvariant, PTL

=============================================================================
