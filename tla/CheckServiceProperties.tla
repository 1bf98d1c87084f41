----------------------- MODULE CheckServiceProperties -----------------------
(***************************************************************************)
(* What must hold of CheckService: of the decision, of what a rule says,   *)
(* and of what is read from a document.                                    *)
(***************************************************************************)
EXTENDS CheckService

CONSTANT Pad(_)   \* a word with white space around it

ASSUME PadAssumption == \A w \in Word : Trim(Pad(Trim(w))) = Trim(w)

(* A condition's nodes are numbered in the order in which they are read:   *)
(* children above their parent, and a subtree before the next child.       *)
Kids(node) == IF node.all # <<>> THEN node.all ELSE node.any

IsCondition(tree) ==
  /\ Len(tree) \in Nat \ {0} /\ DOMAIN tree = 1 .. Len(tree)
  /\ \A n \in DOMAIN tree :
       /\ tree[n].all \in Seq(n + 1 .. Len(tree)) /\ tree[n].any \in Seq(n + 1 .. Len(tree))
       /\ \A i, j \in DOMAIN Kids(tree[n]) : i < j => Kids(tree[n])[i] < Kids(tree[n])[j]
  /\ \A n, m \in DOMAIN tree : n < m =>
       \A i \in DOMAIN Kids(tree[n]), j \in DOMAIN Kids(tree[m]) :
         m < Kids(tree[n])[i] => Kids(tree[m])[j] < Kids(tree[n])[i]

(* Lists are lists, and the amounts in them are texts, if not good ones.   *)
IsList(list) == Len(list) \in Nat /\ DOMAIN list = 1 .. Len(list)

IsDocument(doc) ==
  /\ DOMAIN doc = {"readable", "elements"} /\ IsList(doc.elements)
  /\ \A i \in DOMAIN doc.elements :
       /\ DOMAIN doc.elements[i] = {"path", "ours", "word", "amount"}
       /\ doc.elements[i].word \in Word /\ doc.elements[i].amount \in AmountText
IsRequest(req) == "amount" \in DOMAIN req /\ req.amount \in AmountText
IsMetrics(metrics) == metrics.debtorSum \in AmountText /\ metrics.creditorSum \in AmountText
IsHistory(history) == IsList(history) /\ \A i \in DOMAIN history : history[i].amount \in AmountText
IsData(data) ==
  /\ DOMAIN EmptyData \subseteq DOMAIN data
  /\ IsHistory(data.history)
  /\ data.metrics.loaded => IsMetrics(data.metrics)
  /\ \A w \in DOMAIN data.metricsByWindow : IsMetrics(data.metricsByWindow[w])

(* Where a check begins: as a request over HTTP or as a call, with rules   *)
(* that need not be valid.                                                 *)
Init ==
  /\ phase \in {"received", "accepted"} /\ status = 0 /\ check = Clean
  /\ phase = "received" =>
       IF message.kind = "iso20022" THEN IsDocument(message.body)
       ELSE \A r \in message.body : IsRequest(r)
  /\ phase = "accepted" => IsRequest(request)
  /\ IsHistory(recorded) /\ IsData(context.data)
  /\ context.conflict \in BOOLEAN
  /\ Len(installed) \in Nat /\ DOMAIN installed = 1 .. Len(installed)
  /\ \A i \in DOMAIN installed :
       /\ installed[i].decodes \in BOOLEAN /\ installed[i].score \in Int
       /\ IsCondition(installed[i].tree)

Spec == Init /\ [][Next]_vars

-----------------------------------------------------------------------------
Answered == phase = "answered" /\ status = 201

(* The positions whose rule runs, and with which verdict.                  *)
Ran(verdict) == {i \in DOMAIN installed : Active(Situation, installed[i]) /\ Verdicts[i] = verdict}

Total ==
  LET sum[n \in 0 .. Len(installed)] ==
        IF n = 0 THEN 0 ELSE sum[n - 1] + (IF n \in Ran("hit") THEN installed[n].score ELSE 0)
  IN  sum[Len(installed)]

(* What was decided before a rule that failed is forgotten.                *)
Outcomes == {installed[i].outcome : i \in {h \in Ran("hit") : \A e \in Ran("error") : e < h}}

Reaches(threshold) == threshold > 0 /\ Total >= threshold

(* A block before the thresholds: a hit that blocks, or the caller's choice *)
(* for an invalid request that no conflict and no failed rule withdrew.    *)
BlockStands ==
  \/ DecisionBlock \in Outcomes
  \/ /\ ~Situation.valid /\ Situation.onInvalid = DecisionBlock
     /\ ~context.conflict /\ Ran("error") = {}

(* An allow means that nothing spoke against the transfer: no blocked      *)
(* account, no conflict, no failed rule, no review or block hit, no        *)
(* threshold reached, and a valid request unless the caller chose to allow *)
(* invalid ones.  A block means a blocked account, a block hit after the   *)
(* last failed rule, the block threshold, or the caller's choice for an    *)
(* invalid request that no conflict and no failed rule withdrew.  Exactly  *)
(* then, whatever the order of the rules (engine.go:141-198).              *)
DecisionExplained ==
  Answered =>
    LET now == Situation
    IN  /\ check.decision = DecisionAllow <=>
             /\ ~now.blocked /\ ~context.conflict
             /\ now.valid \/ now.onInvalid = DecisionAllow
             /\ Ran("error") = {}
             /\ Outcomes \subseteq {DecisionAllow}
             /\ ~Reaches(now.reviewAt) /\ ~Reaches(now.blockAt)
        /\ check.decision = DecisionBlock <=>
             now.blocked \/ BlockStands \/ Reaches(now.blockAt)

(* Every kind of reason is given exactly when it has its cause: a blocked  *)
(* account, and then nothing else; an invalid request; a conflict; a rule  *)
(* that failed; a hit; a threshold reached by what is not blocked already. *)
(* "No signal" is said exactly of a valid request that is allowed without  *)
(* a hit, and so there is always a reason (engine.go:141-198).             *)
ReasonsHonest ==
  Answered =>
    LET now == Situation
    IN  /\ now.blocked => check.reasons = {"account"}
        /\ ~now.blocked =>
             /\ "account" \notin check.reasons
             /\ "invalid" \in check.reasons <=> ~now.valid
             /\ "conflict" \in check.reasons <=> context.conflict
             /\ "error" \in check.reasons <=> Ran("error") # {}
             /\ "hit" \in check.reasons <=> Ran("hit") # {}
             /\ "threshold" \in check.reasons <=>
                  ~BlockStands /\ (Reaches(now.blockAt) \/ Reaches(now.reviewAt))
             /\ "clean" \in check.reasons <=>
                  now.valid /\ check.decision = DecisionAllow /\ Ran("hit") = {}
        /\ check.reasons # {}

-----------------------------------------------------------------------------
(* A condition in Boolean logic, a "hit" being true and a "miss" false: a  *)
(* world says which each leaf is.                                          *)
Leaves(tree) == {n \in DOMAIN tree : tree[n].all = <<>> /\ tree[n].any = <<>>}

Value(tree, world) ==
  LET value[n \in DOMAIN tree] ==
        IF n \in Leaves(tree) THEN world[n]
        ELSE IF tree[n].all # <<>> THEN Says(\A i \in DOMAIN tree[n].all : value[tree[n].all[i]] = "hit")
        ELSE Says(\E i \in DOMAIN tree[n].any : value[tree[n].any[i]] = "hit")
  IN  value[1]

(* The ways the leaves may be that agree with the known ones in a set.     *)
Worlds(tree, said, known) ==
  {w \in [Leaves(tree) -> {"hit", "miss"}] :
     \A n \in known : said[n] # "error" => w[n] = said[n]}

(* An application's evaluator that handles one leaf, or none.              *)
Custom(tree) ==
  {[n \in DOMAIN tree |-> "unhandled"]} \cup
  {[n \in DOMAIN tree |-> IF n = leaf THEN answer ELSE "unhandled"] :
     leaf \in Leaves(tree), answer \in {"hit", "miss", "error"}}

(* All and any are Boolean logic as long as no leaf that matters fails     *)
(* (rules.go:231-264): a rule fails exactly when some failing leaf could   *)
(* still change its value, given what the leaves read before it say, and   *)
(* otherwise its verdict is its value whatever the failing leaves would    *)
(* have said.  So too with an application's own leaves.                    *)
RuleVerdictExplained ==
  Answered => \A i \in DOMAIN installed : installed[i].decodes =>
    LET tree == installed[i].tree
    IN  \A custom \in Custom(tree) :
          LET said    == [n \in Leaves(tree) |-> LeafVerdict(tree[n], request, DataOf, custom[n])]
              verdict == EvaluateWithLeaves(installed[i], request, DataOf, custom)
              Matters(f) ==
                \E w \in Worlds(tree, said, {n \in Leaves(tree) : n < f}) :
                  Value(tree, [w EXCEPT ![f] = "hit"]) # Value(tree, [w EXCEPT ![f] = "miss"])
          IN  /\ verdict = "error" <=> \E f \in Leaves(tree) : said[f] = "error" /\ Matters(f)
              /\ verdict # "error" =>
                   \A w \in Worlds(tree, said, Leaves(tree)) : Value(tree, w) = verdict

-----------------------------------------------------------------------------
MoneyLeaves(tree) ==
  {n \in Leaves(tree) : tree[n].field \in SumFields \cup {"amount", "instructed_amount.amount"}}

(* The recorded transfers of the currency and the current one have an      *)
(* amount that cannot be read, or cannot be added up.                      *)
Unfit(req, data) ==
  LET amounts == Amounts(req, data)
      alike   == SameCurrency(DOMAIN data.history, req, data) \cup {Len(amounts)}
  IN  \/ \E i \in alike : ~TransferAmountOk(amounts[i], req.currency)
      \/ AddAmounts(req.currency, amounts, alike).failed

(* A supplied sum to which the current amount cannot be added.             *)
SumUnfit(req, sum) == AddAmounts(req.currency, <<MetricAmount(sum), req.amount>>, {1, 2}).failed

(* Trying a rule on an empty request when it is installed finds every way  *)
(* in which its fields, operators and values do not fit each other         *)
(* (rules.go:190-225): an accepted rule only fails over money, where the   *)
(* transfer's amount, a threshold, a recorded amount or a supplied sum     *)
(* cannot be used in the transfer's currency.                              *)
FailsOnlyOnData ==
  Answered => \A i \in DOMAIN installed :
    Validate(installed[i]) /\ Verdicts[i] = "error" =>
      LET tree == installed[i].tree
          data == DataOf
      IN  \E n \in MoneyLeaves(tree) :
            \/ ~TransferAmountOk(request.amount, request.currency)
            \/ /\ tree[n].value[1] = "amount"
               /\ ~AggregateAmountOk(tree[n].value[2], request.currency)
            \/ /\ tree[n].field \in SumFields
               /\ IF HasMetrics(tree[n], data)
                  THEN LET metrics == MetricsFor(tree[n], data)
                       IN  \/ metrics.currency # request.currency
                           \/ SumUnfit(request, metrics.debtorSum)
                           \/ SumUnfit(request, metrics.creditorSum)
                  ELSE Unfit(request, data)

-----------------------------------------------------------------------------
(* What an application's database would answer for a window: the recorded  *)
(* transfers no older than it, counted and added up in the smallest unit.  *)
(* The previous creditor is looked for at any time, as the history is.     *)
Aggregates(window, req, data) ==
  LET recent(i) == data.history[i].at >= data.now - window
      debtors   == {i \in DOMAIN data.history : recent(i) /\ data.history[i].debtor = req.debtor}
      creditors == {i \in DOMAIN data.history : recent(i) /\ data.history[i].creditor = req.creditor}
      ours(is)  == {i \in is : EqualFold(data.history[i].currency, req.currency)}
      sum(is)   == Decimal(TotalUnits(req.currency, Amounts(req, data), ours(is)), Scale[req.currency])
  IN  [loaded |-> TRUE, currency |-> req.currency,
       transferCount   |-> Cardinality(debtors),
       uniqueCreditors |->
         Cardinality(({Trim(data.history[i].creditor) : i \in debtors} \cup {Trim(req.creditor)}) \ {""}),
       repeatedAmounts |->
         Cardinality({i \in ours(debtors) :
           MinorUnits(data.history[i].amount, req.currency) = MinorUnits(req.amount, req.currency)}),
       debtorSum   |-> sum(debtors),
       creditorSum |-> sum(creditors),
       hasPreviousCreditor |-> \E i \in DOMAIN data.history :
          data.history[i].debtor = req.debtor /\ data.history[i].creditor = req.creditor]

(* "MetricWindowsFromRules [discovers] the exact aggregate windows needed" *)
(* (README.md:187): a rule that states its windows says the same of the    *)
(* aggregates of these windows as of the history they were made from.      *)
MetricsAgreeWithHistory ==
  Answered => \A i \in DOMAIN installed :
    LET tree == installed[i].tree
        data == DataOf
        aggregated == [data EXCEPT !.history = <<>>,
          !.metricsByWindow = [window \in MetricWindows(tree) |-> Aggregates(window, request, data)]]
    IN  /\ Validate(installed[i])
        /\ \A n \in Leaves(tree) : tree[n].field \in VelocityFields => Windowed(tree[n])
        /\ ~data.metrics.loaded /\ DOMAIN data.metricsByWindow = {}
        /\ TransferAmountOk(request.amount, request.currency)
        /\ \A j \in DOMAIN data.history :
             EqualFold(data.history[j].currency, request.currency) =>
               TransferAmountOk(data.history[j].amount, request.currency)
        => EvaluateWithContext(installed[i], request, aggregated) = Verdicts[i]

(* "Window fields apply to velocity, beneficiary-history, and              *)
(* account-change signals" (rules.go:17-18): a creditor not paid within    *)
(* the window is a first-time creditor in it.                              *)
FirstTimeIsWindowed ==
  Answered => \A i \in DOMAIN installed :
    LET tree == installed[i].tree
        data == DataOf
    IN  /\ Validate(installed[i]) /\ DOMAIN tree = {1}
        /\ tree[1].field \in FirstTimeFields /\ Windowed(tree[1])
        /\ tree[1].op = "eq" /\ tree[1].value = <<"bool", TRUE>>
        /\ ~HasMetrics(tree[1], data)
        => (Verdicts[i] = "hit" <=>
              ~ \E j \in DOMAIN data.history :
                  /\ data.history[j].debtor = request.debtor
                  /\ data.history[j].creditor = request.creditor
                  /\ data.history[j].at >= data.now - Window(tree[1]))

-----------------------------------------------------------------------------
Imports == phase = "received" /\ message.kind = "iso20022"

(* "It rejects oversized, ambiguous, unsupported, and trailing XML input"  *)
(* (pacs008.go:86): no document is accepted in which a reader that takes   *)
(* the first of repeated elements would find another transfer than         *)
(* encoding/xml, which takes the last.                                     *)
OneReading ==
  Imports => LET body == message.body  key == message.keyHeader
             IN  ParsePacs008(body, key, "last") # {} =>
                   ParsePacs008(body, key, "first") = ParsePacs008(body, key, "last")

(* The same document with a zero more at the end of its fractions and      *)
(* white space around its texts, except the two that are compared as they  *)
(* are.                                                                    *)
Verbatim == {Group \o <<"NbOfTxs">>, Header \o <<"MsgDefIdr">>}
Zeroed(text) ==
  IF text.plain THEN [text EXCEPT !.padded = TRUE, !.units = @ * 10, !.places = @ + 1] ELSE text
Respelled(element) ==
  IF element.path \in Verbatim THEN element
  ELSE [element EXCEPT !.word = IF IsBlank(@) THEN @ ELSE Pad(Trim(@)), !.amount = Zeroed(@)]
Reformatted(doc) ==
  [doc EXCEPT !.elements = [i \in DOMAIN doc.elements |-> Respelled(doc.elements[i])]]

(* A transfer sent again in another form is the same request, and so has   *)
(* the same fingerprint and is replayed instead of flagged as a conflict   *)
(* (pacs008.go:101-122), as long as its currency has room for the zero.    *)
(* Not so of several remittance lines, which are joined with the space     *)
(* around each.                                                            *)
ReformattingIsSame ==
  Imports => LET body == message.body  key == message.keyHeader
                 money == TransferAmount(body, "last")
             IN  /\ Decodes(body) /\ money.currency \in DOMAIN Scale
                 /\ money.amount.places < Scale[money.currency]
                 /\ Cardinality(Occurrences(body, Transaction \o <<"RmtInf", "Ustrd">>)) <= 1
                 => ParsePacs008(Reformatted(body), key, "last") = ParsePacs008(body, key, "last")

=============================================================================
