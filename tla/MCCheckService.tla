--------------------------- MODULE MCCheckService ---------------------------
(***************************************************************************)
(* CheckService over families of cases, one per question: every way to     *)
(* aggregate two rules; every kind of leaf over good and bad data; every   *)
(* small condition of leaves that hit, miss and fail; windows over short   *)
(* histories; and messages over HTTP, a pacs.008 document with any one     *)
(* element missing, repeated, foreign or changed among them.               *)
(***************************************************************************)
EXTENDS CheckServiceProperties, TLC

-----------------------------------------------------------------------------
(* Words.                                                                  *)
Plain ==
  {"", "A", "B", "C", "USD", "usd", "JPY", "KWD", "XXX", "pacs.008", "pacs.008.001.08", "m", "e",
   "ABCDPHMM", "ABCDUSMM", "rent may", "RENT MAY", "rent", "RENT", "k", "n", "1", "2",
   "noon", "eve", "d12", "soon", "high", "HIGH"}
PadWord(w) == " " \o w \o " "
Words == Plain \cup {PadWord(w) : w \in Plain}
TrimTable == [w \in Words |-> IF w \in Plain THEN w ELSE CHOOSE v \in Plain : PadWord(v) = w]
UpperTable == [w \in {"usd", "rent may", "rent", "high"} |->
  CASE w = "usd" -> "USD" [] w = "rent may" -> "RENT MAY" [] w = "rent" -> "RENT" [] w = "high" -> "HIGH"]

TrimWord(w) == IF w \in Words THEN TrimTable[w] ELSE w
UpperWord(w) == IF w \in DOMAIN UpperTable THEN UpperTable[w] ELSE w
WithinWord(v, w) == v = w \/ v = "" \/ <<v, w>> = <<"RENT", "RENT MAY">>
CountryOf(w) == IF w = "ABCDPHMM" THEN "PH" ELSE IF w = "ABCDUSMM" THEN "US" ELSE ""
NoSuchDay == -1
DayOf(w) == IF w = "d12" THEN 12 ELSE NoSuchDay
TimeWord(w) == w \in {"noon", "eve"}

Scales == [c \in {"USD", "JPY", "KWD"} |-> CASE c = "USD" -> 2 [] c = "JPY" -> 0 [] c = "KWD" -> 3]

-----------------------------------------------------------------------------
(* Requests and data.                                                      *)
Now == 10 * DayLength + 600

Valid ==
  [key |-> "", messageType |-> "pacs.008", messageId |-> "m", created |-> "noon",
   instructionId |-> "", endToEndId |-> "e", amount |-> Decimal(120, 2), currency |-> "USD",
   debtor |-> "A", creditor |-> "B", debtorBic |-> "ABCDPHMM", creditorBic |-> "ABCDUSMM",
   remittance |-> "rent may", executionDate |-> "d12"]
Paying(amount, currency) == [Valid EXCEPT !.amount = amount, !.currency = currency]

Data == [EmptyData EXCEPT !.now = Now, !.creditorTier = "high", !.creditorUpdatedAt = Now - 30]
Quiet ==
  [blocked |-> {}, onInvalid |-> "", conflict |-> FALSE, disabled |-> {}, reviewAt |-> 0,
   blockAt |-> 0, data |-> Data]

(* Of a check over HTTP, where only the clock is known.                    *)
NoContext == [Quiet EXCEPT !.data = [EmptyData EXCEPT !.now = Now]]

Paid(creditor, amount, currency, age) ==
  [debtor |-> "A", creditor |-> creditor, amount |-> amount, currency |-> currency, at |-> Now - age]

NoMessage == [kind |-> "none"]

(* One call of the library.                                                *)
Library(req, ctx, history, rules) ==
  /\ phase = "accepted" /\ message = NoMessage
  /\ request = req /\ context = ctx /\ recorded = history /\ installed = rules
  /\ status = 0 /\ check = Clean

-----------------------------------------------------------------------------
(* Rules.                                                                  *)
Node(all, any, field, op, value, minutes, hours) ==
  [all |-> all, any |-> any, field |-> field, op |-> op, value |-> value,
   minutes |-> minutes, hours |-> hours]
Leaf(field, op, value) == Node(<<>>, <<>>, field, op, value, 0, 0)
AllNode(children) == Node(children, <<>>, "", "", <<"null", 0>>, 0, 0)
AnyNode(children) == Node(<<>>, children, "", "", <<"null", 0>>, 0, 0)

Rule(tree) ==
  [id |-> "a", priority |-> 0, enabled |-> TRUE, outcome |-> DecisionReview, score |-> 2,
   decodes |-> TRUE, tree |-> tree]

(* Of the valid request: accepted by Validate, but too fine for dollars.   *)
Hits == Leaf("amount", "gte", <<"amount", Decimal(12, 1)>>)
Misses == Leaf("amount", "gt", <<"amount", Decimal(12, 1)>>)
Fails == Leaf("amount", "gte", <<"amount", Decimal(1, 3)>>)

-----------------------------------------------------------------------------
(* Aggregation: up to two rules, as many as give their order a meaning,    *)
(* under one ID or two.                                                    *)
Rules ==
  [id : {"a", "b"}, priority : {0, 1}, enabled : BOOLEAN, outcome : Decision, score : {-1, 2},
   decodes : {TRUE}, tree : {<<Hits>>, <<Misses>>, <<Fails>>}]
RuleLists ==
  {<<>>} \cup {<<r>> : r \in {r \in Rules : r.id = "a"}}
         \cup {<<r, s>> : r \in {r \in Rules : r.id = "a" /\ r.score = 2},
                          s \in {s \in Rules : /\ s.enabled /\ s.priority = 0
                                               /\ s.id = "b" \/ s.outcome = DecisionBlock}}

Contexts ==
  {c \in [blocked : {{}, {"A"}, {"B"}}, onInvalid : Decision \cup {""}, conflict : BOOLEAN,
          disabled : {{}, {"a"}}, reviewAt : {0, 1}, blockAt : {0, 4}, data : {Data}] :
     c.blocked # {} => ~c.conflict /\ c.reviewAt = 0 /\ c.blockAt = 0}

AggregationCases ==
  \E rules \in RuleLists, ctx \in Contexts, id \in {"m", " m ", " "} :
    /\ id \in {"m", " m "} => ctx.onInvalid = ""
    /\ id = " m " => rules = <<>>
    /\ Library([Valid EXCEPT !.messageId = id], ctx, <<>>, StableByPriority(rules))

-----------------------------------------------------------------------------
(* Leaves: each kind of field with each operator and kind of value.        *)
Fields ==
  SumFields \cup FirstTimeFields \cup DOMAIN RequestField \cup
  {"velocity.debtor_transfer_count", "velocity.debtor_unique_creditor_count",
   "velocity.debtor_repeated_amount_count", "amount", "requested_execution_days_ahead",
   "debtor_agent.country", "route.country_pair", "creditor_account.risk_tier",
   "account.debtor_metadata_recently_changed", "account.creditor_metadata_recently_changed", "color"}
Ops == {"gt", "gte", "lt", "lte", "eq", "neq", "contains", "not_contains", "in", "not_in", "like"}
Values ==
  {<<"amount", Decimal(1, 0)>>, <<"amount", Decimal(1200, 3)>>, <<"word", "RENT">>,
   <<"word", "PH-US">>, <<"number", Decimal(1, 0)>>, <<"bool", TRUE>>, <<"truth", FALSE>>,
   <<"list", {"HIGH", "usd"}>>, <<"null", 0>>}

Supplied(currency, sum) ==
  [loaded |-> TRUE, currency |-> currency, transferCount |-> 2, uniqueCreditors |-> 1,
   repeatedAmounts |-> 0, debtorSum |-> sum, creditorSum |-> sum, hasPreviousCreditor |-> TRUE]

Dollars == Paid("B", Decimal(120, 2), "usd", 30)
DataCases ==
  {[Data EXCEPT !.history = h] :
     h \in {<<Dollars>>, <<Paid("B", Decimal(5, 1), "JPY", 30)>>,
            <<Dollars, Paid("C", Garbled, "USD", 30)>>, <<Dollars, Paid("B", Decimal(99, 0), "USD", 30)>>}}
  \cup {[Data EXCEPT !.metrics = m] :
          m \in {Supplied("USD", Decimal(1, 0)), Supplied("JPY", Blank), Supplied("USD", Garbled)}}

LeafCases ==
  \E field \in Fields, op \in Ops, value \in Values, data \in DataCases,
     req \in {Valid, Paying(Decimal(15, 1), "JPY"), Paying(Garbled, "USD"), Paying(Decimal(1, 0), "XXX")} :
    /\ \/ field \in SumFields \cup {"amount"}
       \/ data.history = <<Dollars>> /\ req = Valid
       \/ data.metrics = Supplied("USD", Decimal(1, 0)) /\ req = Valid
    /\ Library(req, [Quiet EXCEPT !.data = data], <<>>, <<Rule(<<Leaf(field, op, value)>>)>>)

-----------------------------------------------------------------------------
(* Conditions: up to four leaves, up to three levels.                      *)
Shapes(a, b, c, d) ==
  {<<AllNode(<<2, 3, 4>>), a, b, c>>, <<AnyNode(<<2, 3, 4>>), a, b, c>>,
   <<AllNode(<<2, 5>>), AnyNode(<<3, 4>>), a, b, c>>, <<AnyNode(<<2, 5>>), AllNode(<<3, 4>>), a, b, c>>,
   <<AllNode(<<2, 3>>), a, AnyNode(<<4, 5>>), b, c>>, <<AnyNode(<<2, 3>>), a, AllNode(<<4, 5>>), b, c>>,
   <<AnyNode(<<2, 5>>), AllNode(<<3, 4>>), a, b, AllNode(<<6, 7>>), c, d>>,
   <<AllNode(<<2, 5>>), AnyNode(<<3, 4>>), a, b, AnyNode(<<6, 7>>), c, d>>,
   <<AllNode(<<2, 3, 7>>), a, AnyNode(<<4, 5>>), b, AllNode(<<6>>), c, d>>,
   <<AnyNode(<<2, 3, 7>>), a, AllNode(<<4, 5>>), b, AnyNode(<<6>>), c, d>>}

(* Not accepted: both kinds of children, windows that contradict, no JSON. *)
Broken ==
  {[Rule(<<Node(<<2>>, <<3>>, "", "", <<"null", 0>>, 0, 0), Hits, Hits>>) EXCEPT !.id = "a"],
   Rule(<<[Hits EXCEPT !.minutes = 1, !.hours = 1]>>), Rule(<<[Hits EXCEPT !.hours = -1]>>),
   [Rule(<<Hits>>) EXCEPT !.decodes = FALSE], [Rule(<<Hits>>) EXCEPT !.outcome = ""]}

ConditionCases ==
  \/ \E a, b, c, d \in {Hits, Misses, Fails} : \E tree \in Shapes(a, b, c, d) :
       Library(Valid, Quiet, <<>>, <<Rule(tree)>>)
  \/ \E rule \in Broken : Library(Valid, Quiet, <<>>, <<rule>>)

-----------------------------------------------------------------------------
(* Windows: short histories on both sides of the windows' ends, other      *)
(* currencies and other debtors' transfers among them.                     *)
Past ==
  {Paid(c, m, "USD", age) : c \in {"B", "C"}, m \in {Decimal(12, 1), Decimal(30, 2)}, age \in {60, 61}}
  \cup {Paid("B", Decimal(120, 2), "usd", 120), Paid("B", Decimal(3, 0), "JPY", 60),
        [Paid("B", Decimal(9, 0), "USD", 1) EXCEPT !.debtor = "C"], Paid("C", Decimal(99, 0), "USD", 60)}
Histories == {<<>>} \cup {<<p>> : p \in Past} \cup (Past \X Past)

Windowing == {<<60, 0>>, <<0, 2>>, <<2 * DurationLimit - 60, 0>>}
WindowLeaves ==
  {Node(<<>>, <<>>, field, op, value, w[1], w[2]) :
     field \in SumFields, op \in {"eq", "gt"}, value \in {<<"amount", Decimal(24, 1)>>, <<"amount", Decimal(150, 2)>>},
     w \in Windowing}
  \cup {Node(<<>>, <<>>, field, op, <<"number", Decimal(1, 0)>>, w[1], w[2]) :
          field \in VelocityFields \ SumFields, op \in {"eq", "gt"}, w \in Windowing}
  \cup {Node(<<>>, <<>>, field, "eq", <<"bool", TRUE>>, 60, 0) : field \in FirstTimeFields}

WindowCases ==
  \/ \E leaf \in WindowLeaves, history \in Histories :
       Library(Valid, Quiet, history, <<Rule(<<leaf>>)>>)
  \/ \E leaf, other \in {l \in WindowLeaves : l.op = "eq"}, p, q \in {Dollars, Paid("C", Decimal(12, 1), "USD", 61)} :
       Library(Valid, [Quiet EXCEPT !.data.history = <<p, q>>], <<>>,
               <<Rule(<<AnyNode(<<2, 3>>), leaf, other>>)>>)

-----------------------------------------------------------------------------
(* Messages.                                                               *)
Element(path, word, amount) == [path |-> path, ours |-> TRUE, word |-> word, amount |-> amount]
Tag(path) == Element(path, "", Blank)
Tx(path, word) == Element(Transaction \o path, word, Blank)
Agent(path, bic, name) ==
  <<Tag(path), Tag(path \o <<"FinInstnId">>), Element(path \o <<"FinInstnId", "BICFI">>, bic, Blank),
    Element(path \o <<"FinInstnId", "Nm">>, name, Blank)>>
AppHdr ==
  <<Tag(Header), Tag(Header \o <<"Fr">>)>> \o Agent(Header \o <<"Fr", "FIId">>, "ABCDPHMM", "")
    \o <<Tag(Header \o <<"To">>)>> \o Agent(Header \o <<"To", "FIId">>, "ABCDUSMM", "")
    \o <<Element(Header \o <<"BizMsgIdr">>, "m", Blank), Element(Header \o <<"MsgDefIdr">>, "pacs.008.001.08", Blank),
         Element(Header \o <<"CreDt">>, "eve", Blank)>>
Elements(interbank, instructed) ==
  <<Tag(Root)>> \o AppHdr \o
  <<Tag(Message), Tag(Group), Element(Group \o <<"MsgId">>, "n", Blank),
    Element(Group \o <<"CreDtTm">>, "noon", Blank), Element(Group \o <<"NbOfTxs">>, "1", Blank),
    Element(Group \o <<"IntrBkSttlmDt">>, "d12", Blank), Tag(Transaction), Tx(<<"PmtId">>, ""),
    Tx(<<"PmtId", "InstrId">>, "k"), Tx(<<"PmtId", "EndToEndId">>, "e"), Tx(<<"PmtId", "TxId">>, "k"),
    Tx(<<"PmtId", "ClrSysRef">>, "k"), interbank, instructed>>
  \o Agent(Transaction \o <<"InstgAgt">>, "ABCDUSMM", "") \o Agent(Transaction \o <<"InstdAgt">>, "ABCDPHMM", "")
  \o <<Tx(<<"Dbtr">>, ""), Tx(<<"Dbtr", "Nm">>, "A"), Tx(<<"DbtrAcct">>, ""), Tx(<<"DbtrAcct", "Id">>, ""),
       Tx(<<"DbtrAcct", "Id", "IBAN">>, "A")>>
  \o Agent(Transaction \o <<"DbtrAgt">>, "ABCDPHMM", "n")
  \o <<Tx(<<"Cdtr">>, ""), Tx(<<"Cdtr", "Nm">>, "B"), Tx(<<"CdtrAcct">>, ""), Tx(<<"CdtrAcct", "Id">>, ""),
       Tx(<<"CdtrAcct", "Id", "Othr">>, ""), Tx(<<"CdtrAcct", "Id", "Othr", "Id">>, "B")>>
  \o Agent(Transaction \o <<"CdtrAgt">>, "ABCDUSMM", "n")
  \o <<Tx(<<"RmtInf">>, ""), Tx(<<"RmtInf", "Ustrd">>, "rent")>>

Interbank(amount, currency) == Element(Transaction \o <<"IntrBkSttlmAmt">>, currency, amount)
Instructed(amount, currency) == Element(Transaction \o <<"InstdAmt">>, currency, amount)
Base == Elements(Interbank(Decimal(125, 2), "USD"), Instructed(Decimal(7, 0), "JPY"))

Texts ==
  {Blank, [Blank EXCEPT !.padded = TRUE], Garbled, Decimal(0, 0), Decimal(12, 1), Decimal(1200, 3),
   [Decimal(12, 1) EXCEPT !.padded = TRUE], Decimal(100, 0)}
Replaced(i, word) == [Base EXCEPT ![i].word = word]

(* Every element once missing, repeated with other contents, in another    *)
(* namespace, empty, or changed; every way to give the two amounts.        *)
Documents ==
  {Base}
  \cup {RemoveAt(Base, i) : i \in DOMAIN Base}
  \cup {InsertAt(Base, i, [Base[i] EXCEPT !.word = "C", !.amount = IF @ = Blank THEN @ ELSE Decimal(5, 0)]) :
          i \in DOMAIN Base}
  \cup {Append(Base, Base[i]) : i \in DOMAIN Base}
  \cup {[Base EXCEPT ![i].ours = FALSE] : i \in DOMAIN Base}
  \cup {Replaced(i, word) : i \in {i \in DOMAIN Base : Base[i].word # ""}, word \in {"", " A ", " 1 ", "2"}}
  \cup {Elements(Interbank(a, c), Instructed(b, d)) : a, b \in Texts, c \in {"USD", "usd"}, d \in {" usd ", "JPY"}}

Ask(kind, apiKey, keyHeader, body) ==
  [kind |-> kind, apiKey |-> apiKey, keyHeader |-> keyHeader, body |-> body]

MessageCases ==
  /\ phase = "received"
  /\ \E apiKey \in {"k", " k ", ""}, keyHeader \in {"", " n "} :
       \/ \E elements \in Documents, readable \in BOOLEAN :
            /\ apiKey # "k" => elements = Base
            /\ message = Ask("iso20022", apiKey, keyHeader, [readable |-> readable, elements |-> elements])
       \/ \E body \in {{}, {Valid}, {[Valid EXCEPT !.key = " k "]}, {[Valid EXCEPT !.debtor = "B"]}} :
            message = Ask("json", apiKey, keyHeader, body)
  /\ request = EmptyRequest /\ context = NoContext /\ recorded = <<Dollars>>
  /\ installed = <<Rule(<<Misses>>)>>
  /\ status = 0 /\ check = Clean

-----------------------------------------------------------------------------
Cases == AggregationCases \/ LeafCases \/ ConditionCases \/ WindowCases \/ MessageCases

MCInit == Cases /\ Init
MCSpec == MCInit /\ [][Next]_vars

WindowInit == WindowCases /\ Init
WindowSpec == WindowInit /\ [][Next]_vars

=============================================================================
