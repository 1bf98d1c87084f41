--------------------------- MODULE RulesEvaluation ---------------------------
(***************************************************************************)
(* rules/rules.go: the portable rule DSL.  Which rules are accepted, and   *)
(* what one says of a transfer: "hit", "miss" or "error".                  *)
(*                                                                         *)
(* A condition is a tree of numbered nodes, node 1 its root, children      *)
(* numbered above their parent: a function from numbers to records with    *)
(* the fields all and any (sequences of children), field (in lower case),  *)
(* op, value, minutes and hours.  A value is a pair of its JSON kind and   *)
(* its content, strings being told apart by what they read as: "amount" a  *)
(* plain decimal, "truth" a Boolean, "word" anything else; "number",       *)
(* "bool", "list" (a set of words) and "null" are no strings.              *)
(*                                                                         *)
(* A moment is a number of minutes, 0 the zero time.  A recorded check is  *)
(* a record of the debtor, creditor, amount and currency of its request    *)
(* and of its creation time, `at`.  The data of a call are its history (a  *)
(* sequence of those), metrics, metricsByWindow, the two accounts' tiers   *)
(* and times of change, and `now`.                                         *)
(***************************************************************************)
EXTENDS TransferRequest, FiniteSets, Decisions

CONSTANT DurationLimit   \* minutes a time.Duration can hold, 153722867 in the code

ASSUME DurationAssumption == DurationLimit \in Nat \ {0}

Hour == 60
DayLength == 24 * Hour

(* Products of a time.Duration wrap around silently.                       *)
Duration(minutes) == ((minutes + DurationLimit) % (2 * DurationLimit)) - DurationLimit

-----------------------------------------------------------------------------
(* Facts: what a leaf compares.  Money carries its currency and whether    *)
(* it could be had at all.                                                 *)
Money(failed, amount, currency) ==
  [type |-> "money", failed |-> failed, amount |-> amount, currency |-> currency]
Number(n) == [type |-> "number", number |-> n]
Truth(b) == [type |-> "bool", truth |-> b]
Text(w) == [type |-> "word", word |-> w]
Unsupported == [type |-> "unsupported"]

(* The start of the window a leaf asks for, if it asks for one.            *)
Windowed(node) == node.minutes > 0 \/ node.hours > 0
Window(node) ==
  IF node.minutes > 0 THEN Duration(node.minutes) ELSE Duration(node.hours * Hour)

FaultyWithin(node, data, at) == Windowed(node) => at > data.now - Window(node)

(* Not before the start of the window; everything when there is none.      *)
InWindow(node, data, at) == Windowed(node) => at >= data.now - Window(node)

(* Where in the history the debtor's transfers are, or those to the        *)
(* creditor.                                                               *)
HistoryWindow(node, req, data) ==
  {i \in DOMAIN data.history :
     InWindow(node, data, data.history[i].at) /\ data.history[i].debtor = req.debtor}
CreditorHistoryWindow(node, req, data) ==
  {i \in DOMAIN data.history :
     InWindow(node, data, data.history[i].at) /\ data.history[i].creditor = req.creditor}

SameCurrency(at, req, data) ==
  {i \in at : EqualFold(data.history[i].currency, req.currency)}

(* The recorded amounts and, after them, the current one.                  *)
Amounts(req, data) ==
  [i \in 1 .. Len(data.history) + 1 |->
     IF i <= Len(data.history) THEN data.history[i].amount ELSE req.amount]

(* An unreadable amount among those that count is an error.                *)
HistoryAmount(req, data, at, current) ==
  LET amounts == Amounts(req, data)
      adding  == SameCurrency(at, req, data) \cup (IF current THEN {Len(amounts)} ELSE {})
      sum     == AddAmounts(req.currency, amounts, adding)
  IN  IF \E i \in adding : ~TransferAmountOk(amounts[i], req.currency)
      THEN Money(TRUE, Blank, req.currency)
      ELSE Money(sum.failed, sum.amount, req.currency)

(* The creditors the debtor paid, the current one included.                *)
UniqueCreditors(req, data, at) ==
  Cardinality(({Trim(data.history[i].creditor) : i \in at} \cup {Trim(req.creditor)}) \ {""})

EqualAmounts(amount, currency, req) ==
  /\ EqualFold(currency, req.currency)
  /\ Comparable(amount, req.amount, req.currency)
  /\ MinorUnits(amount, req.currency) = MinorUnits(req.amount, req.currency)

RepeatedAmountCount(req, data, at) ==
  Cardinality({i \in at : EqualAmounts(data.history[i].amount, data.history[i].currency, req)})

(* Looks at the whole history, whatever window the leaf asks for.          *)
HasPreviousCreditor(req, checks) ==
  \E i \in DOMAIN checks : checks[i].debtor = req.debtor /\ checks[i].creditor = req.creditor

RecentlyChanged(node, updatedAt, data) ==
  updatedAt # 0 /\ updatedAt > data.now - (IF Windowed(node) THEN Window(node) ELSE DayLength)

DaysAhead(date, now) ==
  IF IsBlank(date) \/ Day(Trim(date)) = NoDay THEN 0 ELSE Day(Trim(date)) - (now \div DayLength)

-----------------------------------------------------------------------------
(* Metrics the caller aggregated, in the place of a history.               *)

MetricWindow(node) == IF Windowed(node) THEN Window(node) ELSE DayLength

HasMetrics(node, data) ==
  MetricWindow(node) \in DOMAIN data.metricsByWindow \/ data.metrics.loaded
MetricsFor(node, data) ==
  IF MetricWindow(node) \in DOMAIN data.metricsByWindow
  THEN data.metricsByWindow[MetricWindow(node)] ELSE data.metrics

MetricAmount(text) == IF text = Blank THEN Decimal(0, 0) ELSE text

(* An empty current amount leaves the sum as it is.                        *)
MetricMoney(metrics, req, amount, current) ==
  LET sum == AddAmounts(req.currency, <<MetricAmount(amount), req.amount>>, {1, 2})
  IN  IF metrics.currency # req.currency THEN Money(TRUE, Blank, req.currency)
      ELSE IF ~current \/ req.amount = Blank THEN Money(FALSE, MetricAmount(amount), req.currency)
      ELSE IF ~TransferAmountOk(req.amount, req.currency) THEN Money(TRUE, Blank, req.currency)
      ELSE Money(sum.failed, sum.amount, req.currency)

SumFields ==
  {"velocity.debtor_amount_sum", "velocity.debtor_amount_sum_including_current",
   "velocity.creditor_amount_sum_including_current"}
VelocityFields ==
  SumFields \cup {"velocity.debtor_transfer_count", "velocity.debtor_unique_creditor_count",
                  "velocity.debtor_repeated_amount_count"}
FirstTimeFields == {"beneficiary.first_time_creditor", "first_time_creditor"}

(* collectMetricWindows: also at inner nodes, whose field is not used.     *)
MetricWindows(tree) ==
  {MetricWindow(tree[n]) :
     n \in {n \in DOMAIN tree : tree[n].field \in VelocityFields \cup FirstTimeFields}}

Velocity(node, req, data) ==
  LET metrics == MetricsFor(node, data)
      at      == HistoryWindow(node, req, data)
      known   == HasMetrics(node, data)
  IN  CASE node.field = "velocity.debtor_transfer_count" ->
             Number(IF known THEN metrics.transferCount ELSE Cardinality(at))
        [] node.field = "velocity.debtor_unique_creditor_count" ->
             Number(IF known THEN metrics.uniqueCreditors ELSE UniqueCreditors(req, data, at))
        [] node.field = "velocity.debtor_repeated_amount_count" ->
             Number(IF known THEN metrics.repeatedAmounts ELSE RepeatedAmountCount(req, data, at))
        [] node.field = "velocity.debtor_amount_sum" ->
             IF known THEN MetricMoney(metrics, req, metrics.debtorSum, FALSE)
             ELSE HistoryAmount(req, data, at, FALSE)
        [] node.field = "velocity.debtor_amount_sum_including_current" ->
             IF known THEN MetricMoney(metrics, req, metrics.debtorSum, TRUE)
             ELSE HistoryAmount(req, data, at, TRUE)
        [] node.field = "velocity.creditor_amount_sum_including_current" ->
             IF known THEN MetricMoney(metrics, req, metrics.creditorSum, TRUE)
             ELSE HistoryAmount(req, data, CreditorHistoryWindow(node, req, data), TRUE)

-----------------------------------------------------------------------------
(* fieldValue: the fact a leaf asks for.                                   *)

RequestField ==
  [f \in {"message_type", "idempotency_key", "instruction_id",
          "payment_identification.instruction_id", "currency", "instructed_amount.currency",
          "debtor_account.id", "creditor_account.id", "debtor_agent.bicfi",
          "creditor_agent.bicfi", "remittance_information", "requested_execution_date"} |->
     CASE f = "message_type"             -> "messageType"
       [] f = "idempotency_key"          -> "key"
       [] f = "debtor_account.id"        -> "debtor"
       [] f = "creditor_account.id"      -> "creditor"
       [] f = "debtor_agent.bicfi"       -> "debtorBic"
       [] f = "creditor_agent.bicfi"     -> "creditorBic"
       [] f = "remittance_information"   -> "remittance"
       [] f = "requested_execution_date" -> "executionDate"
       [] f \in {"currency", "instructed_amount.currency"} -> "currency"
       [] f \in {"instruction_id", "payment_identification.instruction_id"} -> "instructionId"]

FieldValue(node, req, data) ==
  CASE node.field \in DOMAIN RequestField -> Text(req[RequestField[node.field]])
    [] node.field \in {"amount", "instructed_amount.amount"} ->
         Money(~TransferAmountOk(req.amount, req.currency), req.amount, req.currency)
    [] node.field = "requested_execution_days_ahead" ->
         Number(DaysAhead(req.executionDate, data.now))
    [] node.field = "debtor_agent.country"   -> Text(Country(req.debtorBic))
    [] node.field = "creditor_agent.country" -> Text(Country(req.creditorBic))
    [] node.field = "route.country_pair" ->
         Text(Country(req.debtorBic) \o "-" \o Country(req.creditorBic))
    [] node.field = "debtor_account.risk_tier"   -> Text(data.debtorTier)
    [] node.field = "creditor_account.risk_tier" -> Text(data.creditorTier)
    [] node.field \in VelocityFields -> Velocity(node, req, data)
    [] node.field \in FirstTimeFields ->
         Truth(~(IF HasMetrics(node, data) THEN MetricsFor(node, data).hasPreviousCreditor
                 ELSE HasPreviousCreditor(req, data.history)))
    [] node.field = "account.debtor_metadata_recently_changed" ->
         Truth(RecentlyChanged(node, data.debtorUpdatedAt, data))
    [] node.field = "account.creditor_metadata_recently_changed" ->
         Truth(RecentlyChanged(node, data.creditorUpdatedAt, data))
    [] OTHER -> Unsupported

-----------------------------------------------------------------------------
(* compare.                                                                *)
Says(matched) == IF matched THEN "hit" ELSE "miss"

Ordering == {"gt", "gte", "lt", "lte", "eq"}
Ordered(left, op, right) ==
  CASE op = "gt"  -> left > right
    [] op = "gte" -> left >= right
    [] op = "lt"  -> left < right
    [] op = "lte" -> left <= right
    [] op = "eq"  -> left = right
    [] op = "neq" -> left # right

(* Amounts are compared as amounts, with a decimal string only, and in the *)
(* scale of their currency.                                                *)
CompareMoney(fact, op, value) ==
  IF /\ ~fact.failed
     /\ value[1] = "amount"
     /\ Comparable(fact.amount, value[2], fact.currency)
     /\ op \in Ordering \cup {"neq"}
  THEN Says(Ordered(MinorUnits(fact.amount, fact.currency), op, MinorUnits(value[2], fact.currency)))
  ELSE "error"

(* boolFrom: JSON true and false, and strings that ParseBool takes.        *)
BoolFrom(value) ==
  CASE value[1] \in {"bool", "truth"} -> {value[2]}
    [] value[1] = "amount" ->
         IF value[2] = Decimal(1, 0) THEN {TRUE}
         ELSE IF value[2] = Decimal(0, 0) THEN {FALSE} ELSE {}
    [] OTHER -> {}

CompareBool(fact, op, value) ==
  IF BoolFrom(value) # {} /\ op \in {"eq", "neq"}
  THEN Says((fact.truth \in BoolFrom(value)) <=> (op = "eq"))
  ELSE "error"

(* There is no "neq" for numbers.                                          *)
CompareNumber(fact, op, value) ==
  IF value[1] \in {"number", "amount"} /\ op \in Ordering
  THEN Says(Ordered(fact.number * PowerOfTen[value[2].places], op, value[2].units))
  ELSE "error"

(* Without regard to case.  What is no word reads as none of the facts.    *)
CompareWord(fact, op, value) ==
  LET same     == value[1] = "word" /\ EqualFold(fact.word, value[2])
      contains == value[1] = "word" /\ Within(Upper(value[2]), Upper(fact.word))
      member   == IF value[1] = "list" THEN \E w \in value[2] : EqualFold(fact.word, w) ELSE same
  IN  CASE op = "eq"           -> Says(same)
        [] op = "neq"          -> Says(~same)
        [] op = "contains"     -> Says(contains)
        [] op = "not_contains" -> Says(~contains)
        [] op = "in"           -> Says(member)
        [] op = "not_in"       -> Says(~member)
        [] OTHER               -> "error"

Compare(fact, op, value) ==
  CASE fact.type = "money"       -> CompareMoney(fact, op, value)
    [] fact.type = "bool"        -> CompareBool(fact, op, value)
    [] fact.type = "number"      -> CompareNumber(fact, op, value)
    [] fact.type = "word"        -> CompareWord(fact, op, value)
    [] fact.type = "unsupported" -> "error"

-----------------------------------------------------------------------------
(* Which rules Validate accepts.                                           *)
NoMetrics == [loaded |-> FALSE]
EmptyRequest ==
  [f \in Required \cup {"key", "messageType", "instructionId", "remittance", "executionDate"} |-> ""]
EmptyData ==
  [history |-> <<>>, metrics |-> NoMetrics, metricsByWindow |-> <<>>, debtorTier |-> "",
   creditorTier |-> "", debtorUpdatedAt |-> 0, creditorUpdatedAt |-> 0, now |-> 0]

(* A leaf is tried on an empty request: what it compares with decides      *)
(* whether it can, money being tried in the currency with the finest scale.*)
TrialFact(node) ==
  IF node.field \in SumFields \cup {"amount", "instructed_amount.amount"}
  THEN Money(FALSE, Decimal(0, 0), "KWD")
  ELSE FieldValue(node, EmptyRequest, EmptyData)

FaultyLeafOk(node) == Compare(TrialFact(node), "eq", node.value) # "error"

LeafOk(node) == Compare(TrialFact(node), node.op, node.value) # "error"

ValidCondition(tree) ==
  \A n \in DOMAIN tree :
    /\ tree[n].minutes >= 0 /\ tree[n].hours >= 0
    /\ ~(tree[n].minutes > 0 /\ tree[n].hours > 0)
    /\ tree[n].all = <<>> \/ tree[n].any = <<>>
    /\ tree[n].all = <<>> /\ tree[n].any = <<>> => LeafOk(tree[n])

(* A rule whose definition is one JSON object with known fields only.      *)
Validate(rule) == rule.decodes /\ rule.outcome \in Decision /\ ValidCondition(rule.tree)

-----------------------------------------------------------------------------
(* evaluateLeaves.  The first child that does not hit decides an all, the  *)
(* first that does not miss an any; children after it are not looked at.   *)
EagerAllOf(verdicts) ==
  IF \E i \in DOMAIN verdicts : verdicts[i] = "error" THEN "error"
  ELSE Says(\A i \in DOMAIN verdicts : verdicts[i] = "hit")

FirstOther(verdicts, ordinary) ==
  LET deciding == {i \in DOMAIN verdicts : verdicts[i] # ordinary}
  IN  IF deciding = {} THEN ordinary ELSE verdicts[Min(deciding)]

AllOf(verdicts) == FirstOther(verdicts, "hit")
AnyOf(verdicts) == FirstOther(verdicts, "miss")

(* What a leaf says: the application's evaluator when it handles it, the   *)
(* portable comparison otherwise.                                          *)
LeafVerdict(node, req, data, custom) ==
  IF custom # "unhandled" THEN custom
  ELSE Compare(FieldValue(node, req, data), node.op, node.value)

EvaluateLeaves(tree, req, data, custom) ==
  LET verdict[n \in DOMAIN tree] ==
        CASE tree[n].all # <<>> -> AllOf([i \in DOMAIN tree[n].all |-> verdict[tree[n].all[i]]])
          [] tree[n].all = <<>> /\ tree[n].any # <<>> ->
               AnyOf([i \in DOMAIN tree[n].any |-> verdict[tree[n].any[i]]])
          [] OTHER -> LeafVerdict(tree[n], req, data, custom[n])
  IN  verdict[1]

(* An application that extends the DSL answers for its rules' validity.    *)
EvaluateWithLeaves(rule, req, data, custom) ==
  IF rule.decodes THEN EvaluateLeaves(rule.tree, req, data, custom) ELSE "error"

EvaluateWithContext(rule, req, data) ==
  IF Validate(rule)
  THEN EvaluateLeaves(rule.tree, req, data, [n \in DOMAIN rule.tree |-> "unhandled"])
  ELSE "error"

=============================================================================
