------------------------ MODULE MCScenarioEvaluation ------------------------
(***************************************************************************)
(* Scenario evaluation against Boolean logic: every small condition, over  *)
(* every choice of which parts of the input are supplied, missing or       *)
(* broken.                                                                 *)
(***************************************************************************)
EXTENDS ScenarioEvaluationProperties, Functions, TLC

Text(s) == <<"text", s>>
Decimal(n) == <<"decimal", n>>

(* What each part of an input is in each of four ways: two sound ones and, *)
(* where it can be broken, a broken one.                                   *)
Value ==
  [count        |-> [one |-> Decimal(2), other |-> Decimal(3), broken |-> Text("1/2")],
   rating       |-> [one |-> Text("high"), other |-> Text("low"), broken |-> <<"malformed", 0>>],
   ratingPolicy |-> [one |-> Text("high"), other |-> Text("low")],
   screening    |-> [one |-> TRUE, other |-> FALSE],
   amount       |-> [one |-> Decimal(2), other |-> Decimal(3), broken |-> Text("")],
   expected     |-> [one |-> Decimal(3), other |-> Decimal(4), broken |-> Text("x")],
   countries    |-> [one |-> <<"array", {Text("XY")}>>, other |-> <<"array", {}>>, broken |-> Text("XY")]]

SoundWays == {"one", "other"}
WaysOf(p) == DOMAIN Value[p] \cup {"missing"}

(* The key by which conditions name a part, and the map with those of      *)
(* `names` that are supplied.                                              *)
Key ==
  [count |-> "count:customer:3600", rating |-> "customer.risk_rating",
   ratingPolicy |-> "rating", screening |-> "customer:sanctions:list:confirmed",
   amount |-> "transaction.amount", expected |-> "profile.expected_count",
   countries |-> "countries"]
Map(ways, names) ==
  LET there == {p \in names \cap DOMAIN ways : ways[p] # "missing"}
  IN  [k \in {Key[p] : p \in there} |->
         LET p == CHOOSE p \in there : Key[p] = k IN Value[p][ways[p]]]

InputOf(ways, late) ==
  [metrics     |-> Map(ways, {"count"}),
   facts       |-> Map(ways, {"rating", "expected"}),
   transaction |-> [k \in {"transaction.destination_country"} |-> Text("XY")]
                   @@ Map(ways, {"amount"}),
   policy      |-> Map(ways, {"ratingPolicy", "countries"}),
   screening   |-> Map(ways, {"screening"}),
   lateData    |-> late]

-----------------------------------------------------------------------------
(* Conditions: up to three levels, every leaf with an input of its own.    *)

Inner(family, children) == [family |-> family, children |-> children]
Leaf(family, key, operator, value, policyRef) ==
  [family |-> family, children |-> <<>>, bounded |-> TRUE, key |-> key,
   operator |-> operator, value |-> value, policyRef |-> policyRef]

(* Some leaves are not acceptable: a literal beside a policy value, a      *)
(* literal that is no decimal, membership in a number, no operand.         *)
Leaf2 == Leaf("field", Key.expected, "gt", Decimal(3), "")
Leaf2s ==
  {Leaf2, Leaf("field", Key.expected, "gt", Text("3/1"), ""),
   Leaf("field", Key.expected, "in", Decimal(3), ""), Leaf("field", Key.expected, "gt", NoValue, "")}
(* Membership in a scalar is accepted, and then fails whenever it is asked.*)
ScalarLeaf == Leaf("field", "transaction.destination_country", "in", Text("XY"), "")
Leaf3s ==
  {ScalarLeaf} \cup
  {Leaf("field", "transaction.destination_country", o, NoValue, Key.countries) : o \in Membership}
Leaf4 == Leaf("metric", Key.count, "gte", Decimal(3), "")
Leaf5 == Leaf("field", Key.rating, "eq", NoValue, Key.ratingPolicy)
Leaf6 == [family |-> "screening", children |-> <<>>, bounded |-> TRUE, key |-> Key.screening]
(* Three ways to say that the amount is 2 and not 3.                       *)
Leaf7s ==
  {Leaf("field", Key.amount, "lt", Decimal(3), ""), Leaf("field", Key.amount, "lte", Decimal(2), ""),
   Leaf("field", Key.amount, "neq", Decimal(3), "")}

(* The nodes that can be reached from the root of a list of nodes are a    *)
(* condition.                                                              *)
Below(nodes, n) == {n} \cup Range(nodes[n].children)
Reached(nodes) == UNION {Below(nodes, n) : n \in Below(nodes, 1)}

Conditions ==
  {[n \in Reached(nodes) |-> nodes[n]] : nodes \in
    {<<root, two, three, Leaf4, Leaf5, Leaf6, seven>> :
       root  \in {Inner("all", <<2, 3>>), Inner("any", <<2, 3>>), Inner("any", <<3, 2>>), Inner("not", <<2>>)},
       two   \in {Inner("all", <<4, 5>>), Inner("any", <<4, 5>>), Inner("not", <<4>>)} \cup Leaf2s,
       three \in {Inner("all", <<6, 7>>), Inner("any", <<7, 6>>), Inner("not", <<6>>)} \cup Leaf3s,
       seven \in Leaf7s}}

MCVersions == {[condition |-> c, lateDataBehavior |-> b] : c \in Conditions, b \in {"ignore", "observe"}}

PartsOf(condition, n) ==
  CASE n = 2 /\ condition[2] \in Leaf2s -> {"expected"}
    [] n = 3 /\ condition[3] \in Leaf3s \ {ScalarLeaf} -> {"countries"}
    [] n = 4 -> {"count"}
    [] n = 5 -> {"rating", "ratingPolicy"}
    [] n = 6 -> {"screening"}
    [] n = 7 -> {"amount"}
    [] OTHER -> {}
Parts(condition) == UNION {PartsOf(condition, n) : n \in DOMAIN condition}

(* Every way to supply the parts a condition asks for.                     *)
Ways(parts) ==
  {ways \in [parts -> SoundWays \cup {"missing", "broken"}] : \A p \in parts : ways[p] \in WaysOf(p)}
MCInputsOf ==
  [v \in MCVersions |->
     {InputOf(ways, late) : ways \in Ways(Parts(v.condition)), late \in BOOLEAN}]

=============================================================================
