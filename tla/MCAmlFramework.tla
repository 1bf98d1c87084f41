--------------------------- MODULE MCAmlFramework ---------------------------
(***************************************************************************)
(* The AML Framework on a small instance.  Evaluations share nothing but   *)
(* the registry, which they only read.                                     *)
(***************************************************************************)
EXTENDS AmlFrameworkProperties, Functions

Amount == "transaction.amount"
AtLeast(n) ==
  [family |-> "field", children |-> <<>>, bounded |-> TRUE, key |-> Amount, operator |-> "gte",
   value |-> <<"decimal", n>>, policyRef |-> ""]

Version(id, condition) ==
  [id |-> id, custom |-> FALSE, wellFormed |-> TRUE,
   condition |-> condition, lateDataBehavior |-> "ignore"]
Not == [family |-> "not", children |-> <<2>>]

(* Two scenarios, one of which may take the name of a registration; a      *)
(* repeated ID; a condition that is not accepted.                          *)
SomeVersionLists ==
  {<<>>, <<Version("a", <<AtLeast(2)>>)>>,
   <<Version("x", <<AtLeast(3)>>), Version("b", <<Not, AtLeast(3)>>)>>,
   <<Version("a", <<AtLeast(2)>>), Version("a", <<AtLeast(3)>>)>>,
   <<Version("c", <<[AtLeast(2) EXCEPT !.value = <<"text", "2.5.1">>]>>)>>}

SomeVersions == UNION {Range(vs) : vs \in SomeVersionLists}

Custom(id) == [id |-> id, custom |-> TRUE, wellFormed |-> TRUE]
SomeRegistrations == {Custom("x"), Custom("y"), [Custom("") EXCEPT !.wellFormed = FALSE]}

Supplied(amounts) ==
  [metrics |-> <<>>, facts |-> <<>>, transaction |-> amounts, policy |-> <<>>,
   screening |-> <<>>, lateData |-> FALSE, serializable |-> TRUE]
Priced(amount) == Supplied([k \in {Amount} |-> amount])

(* An amount that matches some, none given, one that is no decimal, late   *)
(* data, metadata that cannot be cloned.                                   *)
SomeInputs ==
  {Priced(<<"decimal", 2>>), Supplied(<<>>), Priced(<<"text", "1/2">>),
   [Priced(<<"text", "1/2">>) EXCEPT !.lateData = TRUE],
   [Supplied(<<>>) EXCEPT !.serializable = FALSE]}

Says(id, matched, insufficient) ==
  [id |-> id, matched |-> matched, insufficient |-> insufficient, wellFormed |-> TRUE]
SomeAnswers ==
  {Says("x", TRUE, FALSE), Says("y", FALSE, TRUE), Says("x", TRUE, TRUE),
   [Says("y", FALSE, FALSE) EXCEPT !.wellFormed = FALSE]}

=============================================================================
