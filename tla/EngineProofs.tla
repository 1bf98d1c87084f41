---------------------------- MODULE EngineProofs ----------------------------
(***************************************************************************)
(* Proofs about the legacy Engine: what its cache holds after any number   *)
(* of evictions, whose decision a replay returns, and which decisions are  *)
(* marked as conflicting.                                                  *)
(***************************************************************************)
EXTENDS EngineProperties, OperatorProofs

(* The kinds of reasons.                                                   *)
ReasonKind == {"clean", "account", "invalid", "conflict", "error", "hit", "threshold"}

Unfinished ==
  [decision : Decision, score : Int, hits : SUBSET STRING, reasons : SUBSET ReasonKind]

(* The result of an unblocked request, while it is made and at the end: a  *)
(* conflict is among the reasons exactly if there is one, and then nothing *)
(* is allowed.                                                             *)
Judged(conflict) ==
  {check \in Unfinished :
     /\ "conflict" \in check.reasons <=> conflict
     /\ conflict => check.decision # DecisionAllow}

(* It is so before the first rule.                                         *)
LEMMA OpeningJudged ==
  ASSUME NEW conflict \in BOOLEAN, NEW context
  PROVE  Opening(conflict, context) \in Judged(conflict)
<1> DEFINE check == Opening(conflict, context)
<1>1. check.decision \in Decision /\ (conflict => check.decision # DecisionAllow)
  BY DEF Opening, OnInvalid, Decision, DecisionAllow, DecisionReview, DecisionBlock
<1>2. check.reasons \in SUBSET ReasonKind /\ ("conflict" \in check.reasons <=> conflict)
  BY DEF Opening, ReasonKind
<1>3. check \in Unfinished
  BY <1>1, <1>2 DEF Opening, Unfinished
<1> QED
  BY <1>1, <1>2, <1>3 DEF Judged

(* A rule takes no conflict away, and its hit or error allows nothing.     *)
LEMMA ApplyRuleJudged ==
  ASSUME NEW conflict \in BOOLEAN, NEW check \in Judged(conflict),
         NEW rule \in InstalledRule, NEW verdict \in Verdict
  PROVE  ApplyRule(check, rule, verdict) \in Judged(conflict)
<1> DEFINE next == ApplyRule(check, rule, verdict)
<1>1. /\ check \in Unfinished
      /\ "conflict" \in check.reasons <=> conflict
      /\ conflict => check.decision # DecisionAllow
  BY DEF Judged
<1>2. CASE verdict = "miss"
  BY <1>2 DEF ApplyRule
<1>3. CASE verdict = "error"
  <2>1. next = [check EXCEPT !.decision = DecisionReview, !.reasons = @ \cup {"error"}]
    BY <1>3 DEF ApplyRule
  <2>2. next \in Unfinished
    BY <1>1, <2>1 DEF Unfinished, ReasonKind, Decision
  <2>3. next.decision # DecisionAllow /\ ("conflict" \in next.reasons <=> "conflict" \in check.reasons)
    BY <1>1, <2>1 DEF Unfinished, DecisionAllow, DecisionReview
  <2> QED
    BY <1>1, <2>2, <2>3 DEF Judged
<1>4. CASE verdict = "hit"
  <2>1. next = [decision |-> Escalate(check.decision, rule.outcome),
                score    |-> check.score + rule.score,
                hits     |-> check.hits \cup {rule.id},
                reasons  |-> check.reasons \cup {"hit"}]
    BY <1>4 DEF ApplyRule
  <2>2. /\ Escalate(check.decision, rule.outcome) \in Decision
        /\ check.decision # DecisionAllow => Escalate(check.decision, rule.outcome) # DecisionAllow
    BY <1>1 DEF Unfinished, Escalate, Decision, DecisionAllow, DecisionReview, DecisionBlock
  <2>3. next \in Unfinished
    BY <1>1, <2>1, <2>2 DEF Unfinished, ReasonKind, InstalledRule
  <2>4. "conflict" \in next.reasons <=> "conflict" \in check.reasons
    BY <1>1, <2>1
  <2> QED
    BY <1>1, <2>1, <2>2, <2>3, <2>4 DEF Judged
<1> QED
  BY <1>2, <1>3, <1>4 DEF Verdict

(* Nor do all of them.                                                     *)
LEMMA ApplyRulesJudged ==
  ASSUME NEW conflict \in BOOLEAN, NEW context, NEW rules \in Seq(InstalledRule),
         NEW verdicts, \A i \in 1 .. Len(rules) : verdicts[i] \in Verdict
  PROVE  ApplyRules(conflict, context, rules, verdicts) \in Judged(conflict)
<1> DEFINE n == Len(rules)
           A == Judged(conflict)
           opening == Opening(conflict, context)
           Step(i, check) == IF Active(context, rules[i])
                              THEN ApplyRule(check, rules[i], verdicts[i])
                              ELSE check
           Equation(g) == g = [i \in 0 .. n |-> IF i = 0 THEN opening ELSE Step(i, g[i - 1])]
           F == [p \in (1 .. n) \X A |-> Step(p[1], p[2])]
           after == CHOOSE g : Equation(g)
<1>1. n \in Nat /\ \A i \in 1 .. n : rules[i] \in InstalledRule
  BY ElementOfSeq, LenProperties
<1>2. opening \in A
  BY OpeningJudged
<1>3. ApplyRules(conflict, context, rules, verdicts) = after[n]
  BY DEF ApplyRules
<1>4. ASSUME NEW i \in 1 .. n, NEW check \in A PROVE Step(i, check) \in A
  <2>1. verdicts[i] \in Verdict /\ rules[i] \in InstalledRule
    BY <1>1
  <2>2. ApplyRule(check, rules[i], verdicts[i]) \in A
    BY <2>1, ApplyRuleJudged
  <2> QED
    BY <2>2
<1> HIDE DEF n, A, Step, opening
<1>5. F \in [(1 .. n) \X A -> A]
  BY <1>4
<1> HIDE DEF F
<1>6. PICK g \in [0 .. n -> A] : Recurs(g, n, opening, F)
  BY <1>1, <1>2, <1>5, RecursionExists
<1>7. Equation(g)
  <2>1. \A i \in 1 .. n : i - 1 \in 0 .. n /\ F[<<i, g[i - 1]>>] = Step(i, g[i - 1])
    <3>1. \A i \in 1 .. n : i - 1 \in 0 .. n
      BY <1>1
    <3> QED
      BY <3>1 DEF F
  <2>2. g[0] = opening /\ \A i \in 1 .. n : g[i] = Step(i, g[i - 1])
    BY <1>6, <2>1 DEF Recurs
  <2>3. \A i \in 0 .. n : i = 0 \/ i \in 1 .. n
    BY <1>1
  <2>4. \A i \in 0 .. n : g[i] = IF i = 0 THEN opening ELSE Step(i, g[i - 1])
    BY <2>2, <2>3
  <2> QED
    BY <2>4
<1>8. Equation(after)
  <2> HIDE DEF Equation
  <2> QED
    BY <1>7
<1> HIDE DEF after
<1>9. /\ after[0] = opening
      /\ \A i \in 1 .. n : after[i] = Step(i, after[i - 1])
      /\ after = [i \in 0 .. n |-> after[i]]
  <2>1. after = [i \in 0 .. n |-> IF i = 0 THEN opening ELSE Step(i, after[i - 1])]
    BY <1>8
  <2>2. \A i \in 0 .. n : after[i] = IF i = 0 THEN opening ELSE Step(i, after[i - 1])
    BY <2>1
  <2>3. 0 \in 0 .. n /\ \A i \in 1 .. n : i \in 0 .. n /\ i # 0
    BY <1>1
  <2>4. after[0] = opening /\ \A i \in 1 .. n : after[i] = Step(i, after[i - 1])
    BY <2>2, <2>3
  <2> QED
    BY <2>1, <2>4
<1> HIDE DEF Equation
<1>10. after \in [0 .. n -> A]
  <2>1. ASSUME NEW i \in 1 .. n, after[i - 1] \in A PROVE after[i] \in A
    BY <1>4, <1>9, <2>1
  <2> QED
    BY <1>1, <1>2, <1>9, <2>1, RecursionTyped
<1> QED
  BY <1>1, <1>3, <1>10 DEF A

(* Thresholds and the placeholder leave a conflict alone.                  *)
LEMMA ClosingJudged ==
  ASSUME NEW conflict \in BOOLEAN, NEW context, NEW check \in Judged(conflict)
  PROVE  DropPlaceholder(ApplyThresholds(context, check)) \in Judged(conflict)
<1> DEFINE raised == ApplyThresholds(context, check)
<1>1. /\ check \in Unfinished
      /\ "conflict" \in check.reasons <=> conflict
      /\ conflict => check.decision # DecisionAllow
  BY DEF Judged
<1>2. \/ raised = check
      \/ \E d \in {DecisionReview, DecisionBlock} :
           raised = [check EXCEPT !.decision = d, !.reasons = @ \cup {"threshold"}]
  BY DEF ApplyThresholds
<1> HIDE DEF raised
<1>3. raised \in Judged(conflict)
  <2>1. ASSUME NEW d \in {DecisionReview, DecisionBlock},
               raised = [check EXCEPT !.decision = d, !.reasons = @ \cup {"threshold"}]
        PROVE  raised \in Judged(conflict)
    <3>1. raised \in Unfinished /\ raised.decision # DecisionAllow
      BY <1>1, <2>1 DEF Unfinished, ReasonKind, Decision, DecisionAllow, DecisionReview, DecisionBlock
    <3>2. "conflict" \in raised.reasons <=> "conflict" \in check.reasons
      BY <1>1, <2>1 DEF Unfinished
    <3> QED
      BY <1>1, <3>1, <3>2 DEF Judged
  <2> QED
    BY <1>2, <2>1
<1>4. \/ DropPlaceholder(raised) = raised
      \/ DropPlaceholder(raised) = [raised EXCEPT !.reasons = @ \ {"clean"}]
  BY DEF DropPlaceholder
<1>5. [raised EXCEPT !.reasons = @ \ {"clean"}] \in Judged(conflict)
  <2> DEFINE dropped == [raised EXCEPT !.reasons = @ \ {"clean"}]
  <2>1. /\ raised \in Unfinished
        /\ "conflict" \in raised.reasons <=> conflict
        /\ conflict => raised.decision # DecisionAllow
    BY <1>3 DEF Judged
  <2>2. /\ dropped \in Unfinished /\ dropped.decision = raised.decision
        /\ "conflict" \in dropped.reasons <=> "conflict" \in raised.reasons
    BY <2>1 DEF Unfinished
  <2> QED
    BY <2>1, <2>2 DEF Judged
<1> QED
  BY <1>3, <1>4, <1>5 DEF raised

(* What evaluate promises: a decision, and a conflict flagged unless the   *)
(* account is blocked.                                                     *)
Flags(result, conflict) ==
  /\ result.decision \in Decision /\ result.reasons \in SUBSET ReasonKind
  /\ "conflict" \in result.reasons => conflict
  /\ conflict => /\ result.reasons \cap {"conflict", "account"} # {}
                 /\ result.decision # DecisionAllow

(* evaluate keeps that promise for every list of rules and verdicts.       *)
LEMMA EvaluateFlags ==
  ASSUME NEW conflict \in BOOLEAN, NEW context, NEW rules \in Seq(InstalledRule),
         NEW verdicts, \A i \in 1 .. Len(rules) : verdicts[i] \in Verdict
  PROVE  Flags(Evaluate(conflict, context, rules, verdicts), conflict)
<1>1. CASE context.blocked
  BY <1>1 DEF Evaluate, Flags, Decision, DecisionAllow, DecisionBlock, ReasonKind
<1>2. CASE ~context.blocked
  <2> DEFINE check == ApplyRules(conflict, context, rules, verdicts)
             result == DropPlaceholder(ApplyThresholds(context, check))
  <2>1. check \in Judged(conflict)
    BY ApplyRulesJudged
  <2>2. Evaluate(conflict, context, rules, verdicts) = result
    BY <1>2 DEF Evaluate
  <2> HIDE DEF check
  <2>3. result \in Judged(conflict)
    BY <2>1, ClosingJudged
  <2> HIDE DEF result
  <2>4. Flags(result, conflict)
    BY <2>3 DEF Judged, Unfinished, Flags
  <2> QED
    BY <2>2, <2>4
<1> QED
  BY <1>1, <1>2

-----------------------------------------------------------------------------
Typing == TypeOK /\ ruleSet \in Seq(InstalledRule)

(* The call that made a check, which has returned it.                      *)
Made(check) == pc[check.id] = "returned" /\ answer[check.id] = check

(* What a call has returned is a check, made by itself or by a call that   *)
(* asked the same.                                                         *)
Origins ==
  \A c \in Calls : pc[c] = "returned" =>
    /\ answer[c] \in Check
    /\ Made(answer[c])
    /\ answer[c].id # c => Keyed(c) /\ Pair(answer[c].id) = Pair(c)

(* A retained result was made for the pair it is retained under.           *)
CacheSound ==
  \A k, f : Cached(checks, k, f) => Made(checks[k][f]) /\ Pair(checks[k][f].id) = <<k, f>>

(* FIFO, counter and cache follow the log of recorded decisions.           *)
Retention ==
  /\ cacheEntries = Len(cacheOrder)
  /\ cacheEntries = (IF Len(ledger) < MaxEntries THEN Len(ledger) ELSE MaxEntries)
  /\ Agree(checks, cacheOrder, ledger)

Inv == Typing /\ Origins /\ CacheSound /\ Retention /\ ConflictExact

-----------------------------------------------------------------------------
(* What a call asks.                                                       *)
LEMMA RequestFields ==
  ASSUME req \in [Calls -> Requests], NEW c \in Calls
  PROVE  (Keyed(c) => Key(c) \in Keys) /\ Fingerprint(c) \in Fingerprints
<1>1. req[c] \in [key : Keys \cup {NoKey}, payload : Payloads]
  BY EngineRequestsAssumption
<1> QED
  BY <1>1 DEF Keyed, Key, Fingerprint, Digest, Fingerprints

(* Sorting a rule set gives a rule set.                                    *)
LEMMA SortedRules ==
  ASSUME NEW s \in RuleSets
  PROVE  StableByPriority(s) \in Seq(InstalledRule)
<1>1. /\ s \in Seq(InstalledRule) /\ Len(s) \in Nat /\ DOMAIN s = 1 .. Len(s)
      /\ \A i \in 1 .. Len(s) : s[i] \in InstalledRule /\ s[i].priority \in Int
  <2>1. s \in Seq(InstalledRule)
    BY EngineRuleSetsAssumption
  <2>2. Len(s) \in Nat /\ DOMAIN s = 1 .. Len(s) /\ \A i \in 1 .. Len(s) : s[i] \in InstalledRule
    BY <2>1, LenProperties, ElementOfSeq
  <2> QED
    BY <2>1, <2>2 DEF InstalledRule
<1>2. PICK p : Orders(p, s) /\ StableByPriority(s) = [r \in DOMAIN s |-> s[p[r]]]
  BY <1>1, StableOrderExists
<1>3. \A r \in 1 .. Len(s) : p[r] \in 1 .. Len(s)
  BY <1>1, <1>2 DEF Orders
<1>4. StableByPriority(s) \in [1 .. Len(s) -> InstalledRule]
  BY <1>1, <1>2, <1>3
<1> QED
  BY <1>1, <1>4, SeqDef

(* As every entry of the FIFO has a result, as many leave as have to.      *)
LEMMA EvictionsAreOverflow ==
  ASSUME Typing, Retention
  PROVE  Evictions = Overflow(cacheEntries, MaxEntries)
<1> DEFINE Live(n) == Cardinality({i \in 1 .. n : Cached(checks, cacheOrder[i][1], cacheOrder[i][2])})
           e == Overflow(cacheEntries, MaxEntries)
<1>1. cacheEntries \in Nat /\ e \in 0 .. cacheEntries /\ Len(cacheOrder) = cacheEntries
  BY OverflowMakesRoom, EngineCapsAssumption DEF Typing, TypeOK, Retention
<1>2. \A i \in 1 .. cacheEntries : Cached(checks, cacheOrder[i][1], cacheOrder[i][2])
  BY DEF Retention, Agree
<1>3. ASSUME NEW n \in 0 .. cacheEntries PROVE Live(n) = n
  <2>1. {i \in 1 .. n : Cached(checks, cacheOrder[i][1], cacheOrder[i][2])} = 1 .. n
    BY <1>1, <1>2
  <2>2. Cardinality(1 .. n) = n
    BY <1>1, FS_Interval
  <2> QED
    BY <2>1, <2>2
<1>4. Evictions = CHOOSE n \in 0 .. Len(cacheOrder) :
                    Live(n) = e /\ \A m \in 0 .. n - 1 : Live(m) < Live(n)
  BY DEF Evictions
<1> HIDE DEF Live, e
<1>5. \A n \in 0 .. cacheEntries :
        (Live(n) = e /\ \A m \in 0 .. n - 1 : Live(m) < Live(n)) <=> n = e
  <2> TAKE n \in 0 .. cacheEntries
  <2>1. \A m \in 0 .. n - 1 : m \in 0 .. cacheEntries /\ m < n
    BY <1>1
  <2> QED
    BY <1>3, <2>1
<1>6. Evictions = CHOOSE n \in 0 .. cacheEntries : n = e
  BY <1>1, <1>4, <1>5
<1> QED
  BY <1>1, <1>6 DEF e

-----------------------------------------------------------------------------
(* Whether another result is retained under the key of a call.             *)
Known(c) == Keyed(c) /\ Key(c) \in DOMAIN checks

(* What Decide does with the check it makes.                               *)
Decides(c, check) ==
  /\ check \in Check /\ check.id = c
  /\ Flags(check, Known(c))
  /\ history' = AppendBounded(history, MaxHistory, check)
  /\ IF Keyed(c)
     THEN Store(Key(c), Fingerprint(c), check) /\ ledger' = Append(ledger, check)
     ELSE UNCHANGED <<checks, cacheOrder, cacheEntries, ledger>>
  /\ Return(c, check)

(* The check is well formed, the call's own, and flags a known key.        *)
LEMMA DecideMakes ==
  ASSUME Typing, NEW c \in Calls, NEW context, NEW verdicts \in Verdicts,
         Decide(c, context, verdicts)
  PROVE  \E check : Decides(c, check)
<1> DEFINE known == Keyed(c) /\ Key(c) \in DOMAIN checks
           result == Evaluate(known, context, ruleSet, verdicts)
           check == [id |-> c, decision |-> result.decision, reasons |-> result.reasons,
                     createdAt |-> now[c]]
<1>1. /\ history' = AppendBounded(history, MaxHistory, check)
      /\ IF Keyed(c)
         THEN Store(Key(c), Fingerprint(c), check) /\ ledger' = Append(ledger, check)
         ELSE UNCHANGED <<checks, cacheOrder, cacheEntries, ledger>>
      /\ Return(c, check)
  BY Zenon DEF Decide
<1>2. Flags(result, known)
  <2>1. known \in BOOLEAN
    OBVIOUS
  <2>2. ruleSet \in Seq(InstalledRule) /\ DOMAIN ruleSet = 1 .. Len(ruleSet)
    BY LenProperties DEF Typing
  <2>3. \A i \in 1 .. Len(ruleSet) : verdicts[i] \in Verdict
    BY <2>2 DEF Verdicts
  <2> HIDE DEF known
  <2> QED
    BY <2>1, <2>2, <2>3, EvaluateFlags
<1> HIDE DEF result
<1>3. now[c] \in Nat
  BY DEF Typing, TypeOK
<1>4. check \in Check
  BY <1>2, <1>3 DEF Flags, Check, ReasonKind
<1>5. check.id = c /\ check.decision = result.decision /\ check.reasons = result.reasons
  OBVIOUS
<1> HIDE DEF check
<1>6. Flags(check, Known(c))
  BY <1>2, <1>5 DEF Flags, Known
<1> QED
  BY <1>1, <1>4, <1>5, <1>6 DEF Decides

(* A call that returns its own check or one made for the same pair.        *)
LEMMA ReturnOrigins ==
  ASSUME Typing, Origins, NEW c \in Calls, NEW x \in Check,
         pc[c] = "arrived", Return(c, x), UNCHANGED req,
         x.id = c \/ (Made(x) /\ Keyed(c) /\ Pair(x.id) = Pair(c))
  PROVE  Origins' /\ \A check \in Check : Made(check) => Made(check)'
<1>1. /\ pc'[c] = "returned" /\ answer'[c] = x
      /\ \A d \in Calls : d # c => pc'[d] = pc[d] /\ answer'[d] = answer[d]
  BY DEF Return, Typing, TypeOK
<1>2. \A check \in Check : check.id \in Calls
  BY DEF Check
<1>3. ASSUME NEW check \in Check, Made(check) PROVE Made(check)'
  <2>1. check.id # c
    BY <1>3 DEF Made
  <2> QED
    BY <1>1, <1>2, <1>3, <2>1 DEF Made
<1>4. \A d \in Calls : Pair(d)' = Pair(d) /\ (Keyed(d)' <=> Keyed(d))
  BY DEF Pair, Key, Keyed, Fingerprint
<1>5. Made(x)'
  BY <1>1, <1>2, <1>3 DEF Made
<1>6. ASSUME NEW d \in Calls, pc'[d] = "returned"
      PROVE  /\ answer'[d] \in Check
             /\ Made(answer[d])'
             /\ (answer[d].id # d => Keyed(d) /\ Pair(answer[d].id) = Pair(d))'
  <2>1. CASE d = c
    <3>1. answer'[d] = x /\ Made(x)'
      BY <1>1, <1>5, <2>1
    <3>2. Made(answer[d])'
      BY <3>1 DEF Made
    <3>3. x.id # c => Keyed(c)' /\ Pair(x.id)' = Pair(c)'
      BY <1>2, <1>4
    <3>4. (answer[d].id # d => Keyed(d) /\ Pair(answer[d].id) = Pair(d))'
      BY <2>1, <3>1, <3>3 DEF Pair, Key, Fingerprint, Keyed
    <3> QED
      BY <3>1, <3>2, <3>4
  <2>2. CASE d # c
    <3>1. pc[d] = "returned" /\ answer'[d] = answer[d]
      BY <1>1, <1>6, <2>2
    <3>2. PICK y \in Check : y = answer[d]
      BY <3>1 DEF Origins
    <3>3. Made(y) /\ (y.id # d => Keyed(d) /\ Pair(y.id) = Pair(d))
      BY <3>1, <3>2 DEF Origins
    <3>4. Made(y)' /\ (y.id # d => Keyed(d)' /\ Pair(y.id)' = Pair(d)')
      BY <1>2, <1>3, <1>4, <3>3
    <3>5. answer'[d] = y
      BY <3>1, <3>2
    <3> QED
      BY <3>4, <3>5 DEF Made, Pair, Key, Fingerprint, Keyed
  <2> QED
    BY <2>1, <2>2
<1> QED
  BY <1>3, <1>6 DEF Origins

(* What is retained stays sound while it and the requests stay.            *)
LEMMA QuietCache ==
  ASSUME Inv, UNCHANGED <<checks, cacheOrder, cacheEntries, ledger, req>>,
         \A check \in Check : Made(check) => Made(check)'
  PROVE  (CacheSound /\ Retention /\ ConflictExact)'
<1>1. CacheSound'
  <2> SUFFICES ASSUME NEW k, NEW f, Cached(checks', k, f)
               PROVE  (Made(checks[k][f]) /\ Pair(checks[k][f].id) = <<k, f>>)'
    BY DEF CacheSound, Cached
  <2>1. Cached(checks, k, f)
    OBVIOUS
  <2>2. PICK check \in Check : check = checks[k][f]
    BY <2>1 DEF Inv, Typing, TypeOK, Cached
  <2>3. Made(check) /\ Pair(check.id) = <<k, f>>
    BY <2>1, <2>2 DEF Inv, CacheSound
  <2>4. Made(check)'
    BY <2>3
  <2> QED
    BY <2>2, <2>3, <2>4 DEF Made, Pair, Key, Fingerprint
<1>2. Retention'
  BY DEF Inv, Retention
<1>3. ConflictExact'
  BY DEF Inv, ConflictExact, Key
<1> QED
  BY <1>1, <1>2, <1>3

(* A keyed decision takes the place of the oldest results, no more than    *)
(* the cap demands.                                                        *)
Stores(c, check) ==
  LET e == Overflow(Len(cacheOrder), MaxEntries)
  IN  /\ checks' = Put(Discard(checks, Oldest(cacheOrder, e)), Key(c), Fingerprint(c), check)
      /\ cacheOrder' = AppendBounded(cacheOrder, MaxEntries, Pair(c))
      /\ cacheEntries' = (cacheEntries - e) + 1
      /\ ledger' = Append(ledger, check)

(* Decide does that for a pair without a result.                           *)
LEMMA DecidesStores ==
  ASSUME Typing, Retention, NEW c \in Calls, NEW check, Decides(c, check), Keyed(c),
         ~Cached(checks, Key(c), Fingerprint(c))
  PROVE  Stores(c, check)
<1>1. cacheEntries = Len(cacheOrder) /\ Evictions = Overflow(cacheEntries, MaxEntries)
  BY EvictionsAreOverflow DEF Retention
<1>2. Store(Key(c), Fingerprint(c), check) /\ ledger' = Append(ledger, check)
  BY DEF Decides
<1> QED
  BY <1>1, <1>2 DEF Store, Stores, AppendBounded, Pair

(* What a decision retains and records has its type.                       *)
LEMMA DecideTyping ==
  ASSUME Typing, Retention, NEW c \in Calls, NEW check, Decides(c, check),
         ~(Keyed(c) /\ Cached(checks, Key(c), Fingerprint(c))),
         UNCHANGED <<ruleSet, clock, req, now>>
  PROVE  Typing'
<1> USE EngineCapsAssumption
<1>1. check \in Check /\ Return(c, check) /\ history' = AppendBounded(history, MaxHistory, check)
  BY DEF Decides
<1>2. /\ pc' \in [Calls -> {"start", "arrived", "returned"}]
      /\ answer' \in [Calls -> Check \cup {NoAnswer}]
  BY <1>1 DEF Return, Typing, TypeOK
<1>3. history' \in Seq(Check)
  BY <1>1, AppendBoundedType DEF Typing, TypeOK
<1>4. /\ DOMAIN checks' \subseteq Keys
      /\ \A k, f : Cached(checks', k, f) => f \in Fingerprints /\ checks'[k][f] \in Check
      /\ cacheOrder' \in Seq(Keys \X Fingerprints) /\ cacheEntries' \in Nat
      /\ ledger' \in Seq(Check)
  <2>1. CASE ~Keyed(c)
    BY <2>1 DEF Decides, Typing, TypeOK, Cached
  <2>2. CASE Keyed(c)
    <3> DEFINE e == Overflow(Len(cacheOrder), MaxEntries)
    <3>1. Stores(c, check)
      BY <2>2, DecidesStores
    <3>2. Key(c) \in Keys /\ Fingerprint(c) \in Fingerprints /\ Pair(c) \in Keys \X Fingerprints
      BY <2>2, RequestFields DEF Typing, TypeOK, Pair
    <3>3. /\ DOMAIN checks' \subseteq DOMAIN checks \cup {Key(c)}
          /\ \A k, f : Cached(checks', k, f) =>
               IF k = Key(c) /\ f = Fingerprint(c)
               THEN checks'[k][f] = check
               ELSE Cached(checks, k, f) /\ checks'[k][f] = checks[k][f]
      <4> DEFINE k0 == Key(c)
                 f0 == Fingerprint(c)
                 new == checks'
                 gone == Oldest(cacheOrder, e)
      <4>1. new = Put(Discard(checks, gone), k0, f0, check)
        BY <3>1 DEF Stores
      <4> HIDE DEF k0, f0, new, gone
      <4>2. /\ DOMAIN new \subseteq DOMAIN checks \cup {k0}
            /\ \A k, f : Cached(new, k, f) =>
                 IF k = k0 /\ f = f0
                 THEN new[k][f] = check
                 ELSE Cached(checks, k, f) /\ new[k][f] = checks[k][f]
        BY <4>1, ReplacementCaches
      <4> QED
        BY <4>2 DEF k0, f0, new
    <3>4. /\ DOMAIN checks \subseteq Keys
          /\ \A k, f : Cached(checks, k, f) => f \in Fingerprints /\ checks[k][f] \in Check
      BY DEF Typing, TypeOK, Cached
    <3>5. cacheOrder' \in Seq(Keys \X Fingerprints)
      BY <3>1, <3>2, AppendBoundedType DEF Stores, Typing, TypeOK
    <3>6. cacheEntries' \in Nat
      <4>1. cacheEntries = Len(cacheOrder) /\ cacheEntries \in Nat
        BY DEF Retention, Typing, TypeOK
      <4>2. e \in 0 .. cacheEntries
        BY <4>1, OverflowMakesRoom
      <4>3. cacheEntries' = (cacheEntries - e) + 1
        BY <3>1 DEF Stores
      <4> HIDE DEF e
      <4> QED
        BY <4>1, <4>2, <4>3
    <3>7. ledger' \in Seq(Check)
      BY <1>1, <3>1, AppendProperties DEF Stores, Typing, TypeOK
    <3>8. DOMAIN checks' \subseteq Keys
      BY <3>2, <3>3, <3>4
    <3>9. ASSUME NEW k, NEW f, Cached(checks', k, f)
          PROVE  f \in Fingerprints /\ checks'[k][f] \in Check
      <4>1. CASE k = Key(c) /\ f = Fingerprint(c)
        BY <1>1, <3>2, <3>3, <3>9, <4>1
      <4>2. CASE ~(k = Key(c) /\ f = Fingerprint(c))
        BY <3>3, <3>4, <3>9, <4>2
      <4> QED
        BY <4>1, <4>2
    <3> QED
      BY <3>5, <3>6, <3>7, <3>8, <3>9
  <2> QED
    BY <2>1, <2>2
<1>5. \A k \in DOMAIN checks' :
        /\ DOMAIN checks'[k] \subseteq Fingerprints
        /\ \A f \in DOMAIN checks'[k] : checks'[k][f] \in Check
  BY <1>4 DEF Cached
<1> QED
  BY <1>2, <1>3, <1>4, <1>5 DEF Typing, TypeOK

(* After a keyed decision the cache is again the newest of what was        *)
(* recorded.                                                               *)
LEMMA StoreRetention ==
  ASSUME Inv, NEW c \in Calls, NEW check \in Check, check.id = c, Keyed(c),
         ~Cached(checks, Key(c), Fingerprint(c)), Stores(c, check)
  PROVE  Retention'
<1> USE EngineCapsAssumption
<1> DEFINE n == Len(cacheOrder)
           e == Overflow(n, MaxEntries)
           P == Keys \X Fingerprints
           k0 == Key(c)
           f0 == Fingerprint(c)
<1>1. /\ checks' = Put(Discard(checks, Oldest(cacheOrder, Overflow(Len(cacheOrder), MaxEntries))), k0, f0, check)
      /\ cacheOrder' = AppendBounded(cacheOrder, MaxEntries, <<k0, f0>>)
      /\ cacheEntries' = (cacheEntries - e) + 1
      /\ ledger' = Append(ledger, check)
  BY DEF Stores, Pair
<1>2. /\ <<k0, f0>> \in P /\ ArePairs(P) /\ cacheOrder \in Seq(P) /\ ledger \in Seq(Check)
      /\ ~Cached(checks, k0, f0) /\ MaxEntries \in Nat \ {0}
  BY RequestFields DEF Inv, Typing, TypeOK, ArePairs
<1>3. Agree(checks, cacheOrder, ledger)
  BY DEF Inv, Retention
<1> HIDE DEF k0, f0, P
<1>4. Agree(checks', cacheOrder', ledger')
  BY <1>1, <1>2, <1>3, AgreementGrows
<1>5. n \in Nat /\ e \in 0 .. n /\ Len(cacheOrder') = (n - e) + 1
  <2>1. Succeeds(cacheOrder', cacheOrder, MaxEntries, <<k0, f0>>)
    BY <1>1, <1>2, AppendBoundedElements
  <2> QED
    BY <2>1 DEF Succeeds
<1>6. Len(ledger) \in Nat /\ Len(ledger') = Len(ledger) + 1
  BY <1>1, <1>2, LenProperties, AppendProperties
<1>7. /\ cacheEntries = n
      /\ n = (IF Len(ledger) < MaxEntries THEN Len(ledger) ELSE MaxEntries)
      /\ e = (IF n >= MaxEntries THEN (n - MaxEntries) + 1 ELSE 0)
  BY DEF Inv, Retention, Overflow
<1> HIDE DEF n, e
<1>8. cacheEntries' = (n - e) + 1
  BY <1>1, <1>7
<1>9. cacheEntries' = (IF Len(ledger') < MaxEntries THEN Len(ledger') ELSE MaxEntries)
  <2>1. CASE Len(ledger) < MaxEntries
    <3>1. n = Len(ledger) /\ e = 0
      BY <1>5, <1>6, <1>7, <2>1
    <3> QED
      BY <1>5, <1>6, <1>8, <2>1, <3>1
  <2>2. CASE ~(Len(ledger) < MaxEntries)
    <3>1. n = MaxEntries /\ e = 1
      BY <1>5, <1>6, <1>7, <2>2
    <3> QED
      BY <1>2, <1>5, <1>6, <1>8, <2>2, <3>1
  <2> QED
    BY <2>1, <2>2
<1>10. cacheEntries' = Len(cacheOrder')
  BY <1>5, <1>8
<1> QED
  BY <1>4, <1>9, <1>10 DEF Retention

(* Every result is retained under the pair it was made for.                *)
LEMMA StoreSound ==
  ASSUME Inv, NEW c \in Calls, NEW check \in Check, check.id = c, Stores(c, check), UNCHANGED req,
         Return(c, check), \A any \in Check : Made(any) => Made(any)'
  PROVE  CacheSound'
<1> SUFFICES ASSUME NEW k, NEW f, Cached(checks', k, f)
             PROVE  (Made(checks[k][f]) /\ Pair(checks[k][f].id) = <<k, f>>)'
  BY DEF CacheSound, Cached
<1> DEFINE k0 == Key(c)
           f0 == Fingerprint(c)
           new == checks'
           gone == Oldest(cacheOrder, Overflow(Len(cacheOrder), MaxEntries))
<1>1. new = Put(Discard(checks, gone), k0, f0, check) /\ Cached(new, k, f) /\ <<k0, f0>> = Pair(c)
  BY DEF Stores, Pair
<1> HIDE DEF k0, f0, new, gone
<1>2. IF k = k0 /\ f = f0
      THEN new[k][f] = check
      ELSE Cached(checks, k, f) /\ new[k][f] = checks[k][f]
  BY <1>1, ReplacementCaches
<1>3. Made(check)'
  BY DEF Return, Inv, Typing, TypeOK, Made
<1>4. CASE k = k0 /\ f = f0
  <2>1. new[k][f] = check /\ Pair(check.id) = <<k, f>>
    BY <1>1, <1>2, <1>4
  <2> QED
    BY <1>3, <2>1 DEF new, Made, Pair, Key, Fingerprint
<1>5. CASE ~(k = k0 /\ f = f0)
  <2>1. Cached(checks, k, f) /\ checks'[k][f] = checks[k][f]
    BY <1>2, <1>5 DEF new
  <2>2. PICK any \in Check : any = checks[k][f]
    BY <2>1 DEF Inv, Typing, TypeOK, Cached
  <2>3. Made(any) /\ Pair(any.id) = <<k, f>>
    BY <2>1, <2>2 DEF Inv, CacheSound
  <2>4. Made(any)'
    BY <2>3
  <2> QED
    BY <2>1, <2>2, <2>3, <2>4 DEF Made, Pair, Key, Fingerprint
<1> QED
  BY <1>4, <1>5

-----------------------------------------------------------------------------
(* The outer map has the keys of the last MaxEntries recorded decisions.   *)
LEMMA KnownIsRecent ==
  ASSUME Inv, NEW k
  PROVE  k \in DOMAIN checks <=>
           \E j \in 1 .. Len(ledger) :
             (Len(ledger) + 1) - j <= MaxEntries /\ Key(ledger[j].id) = k
<1> USE EngineCapsAssumption
<1> DEFINE L == Len(ledger)
           n == Len(cacheOrder)
           order == cacheOrder
<1>1. L \in Nat /\ n \in Nat /\ n = (IF L < MaxEntries THEN L ELSE MaxEntries)
  BY LenProperties DEF Inv, Retention, Typing, TypeOK
<1>2. /\ \A kk, f : Cached(checks, kk, f) => \E i \in 1 .. n : order[i] = <<kk, f>>
      /\ \A i \in 1 .. n : /\ Cached(checks, order[i][1], order[i][2])
                           /\ checks[order[i][1]][order[i][2]] = ledger[(L - n) + i]
      /\ \A kk \in DOMAIN checks : DOMAIN checks[kk] # {}
  BY DEF Inv, Retention, Agree
<1>3. \A i \in 1 .. n : Key(ledger[(L - n) + i].id) = order[i][1]
  <2> TAKE i \in 1 .. n
  <2>1. Cached(checks, order[i][1], order[i][2])
    BY <1>2
  <2>2. Pair(checks[order[i][1]][order[i][2]].id) = <<order[i][1], order[i][2]>>
    BY <2>1 DEF Inv, CacheSound
  <2>3. Pair(ledger[(L - n) + i].id) = <<order[i][1], order[i][2]>>
    BY <1>2, <2>2
  <2> QED
    BY <2>3 DEF Pair
<1> HIDE DEF L, n, order
<1>4. ASSUME k \in DOMAIN checks
      PROVE  \E j \in 1 .. L : (L + 1) - j <= MaxEntries /\ Key(ledger[j].id) = k
  <2>1. PICK f : f \in DOMAIN checks[k]
    BY <1>2, <1>4
  <2>2. PICK i \in 1 .. n : order[i] = <<k, f>>
    BY <1>2, <1>4, <2>1 DEF Cached
  <2>3. Key(ledger[(L - n) + i].id) = k
    BY <1>3, <2>2
  <2>4. (L - n) + i \in 1 .. L /\ (L + 1) - ((L - n) + i) <= MaxEntries
    BY <1>1, <2>2
  <2> QED
    BY <2>3, <2>4
<1>5. ASSUME NEW j \in 1 .. L, (L + 1) - j <= MaxEntries, Key(ledger[j].id) = k
      PROVE  k \in DOMAIN checks
  <2> DEFINE i == j - (L - n)
  <2>1. i \in 1 .. n /\ (L - n) + i = j
    BY <1>1, <1>5
  <2> HIDE DEF i
  <2>2. order[i][1] = k
    BY <1>3, <1>5, <2>1
  <2> QED
    BY <1>2, <2>1, <2>2 DEF Cached
<1> QED
  BY <1>4, <1>5 DEF L

(* A keyed decision is flagged exactly as its key was known; what was      *)
(* recorded before keeps its flags.                                        *)
LEMMA StoreConflicts ==
  ASSUME Inv, NEW c \in Calls, NEW check \in Check, check.id = c, Keyed(c),
         Flags(check, Known(c)), ledger' = Append(ledger, check), UNCHANGED req
  PROVE  ConflictExact'
<1> DEFINE L == Len(ledger)
           grown == ledger'
<1>1. /\ L \in Nat /\ Len(grown) = L + 1 /\ grown[L + 1] = check
      /\ \A i \in 1 .. L : grown[i] = ledger[i]
  BY LenProperties, AppendProperties DEF Inv, Typing, TypeOK
<1>2. Key(c) \in DOMAIN checks <=>
        \E j \in 1 .. L : (L + 1) - j <= MaxEntries /\ Key(ledger[j].id) = Key(c)
  BY KnownIsRecent
<1>3. Known(c) <=> \E j \in 1 .. L : (L + 1) - j <= MaxEntries /\ Key(ledger[j].id) = Key(c)
  BY <1>2 DEF Known
<1>4. \A i \in 1 .. L :
        LET prior == \E j \in 1 .. i - 1 : i - j <= MaxEntries /\ Key(ledger[j].id) = Key(ledger[i].id)
        IN  /\ "conflict" \in ledger[i].reasons => prior
            /\ prior => ledger[i].reasons \cap {"conflict", "account"} # {}
            /\ prior => ledger[i].decision # DecisionAllow
  BY DEF Inv, ConflictExact
<1> HIDE DEF L, grown
<1>5. ASSUME NEW i \in 1 .. L + 1
      PROVE  LET prior == \E j \in 1 .. i - 1 : i - j <= MaxEntries /\ Key(grown[j].id) = Key(grown[i].id)
             IN  /\ "conflict" \in grown[i].reasons => prior
                 /\ prior => grown[i].reasons \cap {"conflict", "account"} # {}
                 /\ prior => grown[i].decision # DecisionAllow
  <2> DEFINE Prior(s) == \E j \in 1 .. i - 1 : i - j <= MaxEntries /\ Key(s[j].id) = Key(s[i].id)
  <2>1. i - 1 <= L /\ \A j \in 1 .. i - 1 : grown[j] = ledger[j]
    BY <1>1
  <2>2. CASE i = L + 1
    <3>1. Prior(grown) <=> Known(c)
      <4>1. i - 1 = L /\ grown[i].id = c
        BY <1>1, <2>2
      <4> QED
        BY <1>3, <2>1, <2>2, <4>1
    <3>2. grown[i] = check
      BY <1>1, <2>2
    <3> HIDE DEF Prior
    <3>3. /\ "conflict" \in grown[i].reasons => Prior(grown)
          /\ Prior(grown) => grown[i].reasons \cap {"conflict", "account"} # {}
          /\ Prior(grown) => grown[i].decision # DecisionAllow
      BY <3>1, <3>2 DEF Flags
    <3> QED
      BY <3>3 DEF Prior
  <2>3. CASE i # L + 1
    <3>1. i \in 1 .. L /\ grown[i] = ledger[i]
      BY <1>1, <2>3
    <3>2. Prior(grown) <=> Prior(ledger)
      BY <2>1, <3>1
    <3>3. /\ "conflict" \in ledger[i].reasons => Prior(ledger)
          /\ Prior(ledger) => ledger[i].reasons \cap {"conflict", "account"} # {}
          /\ Prior(ledger) => ledger[i].decision # DecisionAllow
      BY <1>4, <3>1
    <3> HIDE DEF Prior
    <3>4. /\ "conflict" \in grown[i].reasons => Prior(grown)
          /\ Prior(grown) => grown[i].reasons \cap {"conflict", "account"} # {}
          /\ Prior(grown) => grown[i].decision # DecisionAllow
      BY <3>1, <3>2, <3>3
    <3> QED
      BY <3>4 DEF Prior
  <2> QED
    BY <2>2, <2>3
<1>6. \A any : Key(any)' = Key(any)
  BY DEF Key
<1> QED
  BY <1>1, <1>5 DEF ConflictExact, Key, grown

-----------------------------------------------------------------------------
(* A decision keeps the invariant, with a key and without.                 *)
LEMMA DecideInv ==
  ASSUME Inv, NEW c \in Calls, NEW context, NEW verdicts \in Verdicts,
         Decide(c, context, verdicts)
  PROVE  Inv'
<1>1. PICK check : Decides(c, check)
  BY DecideMakes DEF Inv
<1>2. check \in Check /\ check.id = c /\ Return(c, check) /\ Flags(check, Known(c))
  BY <1>1 DEF Decides
<1>3. /\ pc[c] = "arrived" /\ UNCHANGED <<ruleSet, clock, replacements, req, now>>
      /\ ~(Keyed(c) /\ Cached(checks, Key(c), Fingerprint(c)))
  BY DEF Decide
<1>4. Typing'
  BY <1>1, <1>3, DecideTyping DEF Inv
<1>5. Origins' /\ \A any \in Check : Made(any) => Made(any)'
  BY <1>2, <1>3, ReturnOrigins DEF Inv
<1>6. CASE ~Keyed(c)
  <2>1. UNCHANGED <<checks, cacheOrder, cacheEntries, ledger>>
    BY <1>1, <1>6 DEF Decides
  <2> QED
    BY <1>3, <1>4, <1>5, <2>1, QuietCache DEF Inv
<1>7. CASE Keyed(c)
  <2>1. Stores(c, check)
    BY <1>1, <1>3, <1>7, DecidesStores DEF Inv
  <2>2. Retention'
    BY <1>2, <1>3, <1>7, <2>1, StoreRetention
  <2>3. CacheSound'
    BY <1>2, <1>3, <1>5, <2>1, StoreSound
  <2>4. ConflictExact'
    BY <1>2, <1>3, <1>7, <2>1, StoreConflicts DEF Stores
  <2> QED
    BY <1>4, <1>5, <2>2, <2>3, <2>4 DEF Inv
<1> QED
  BY <1>6, <1>7

(* A replay returns what is retained, and changes nothing that is.         *)
LEMMA ReplayInv ==
  ASSUME Inv, NEW c \in Calls, Replay(c)
  PROVE  Inv'
<1>1. PICK check : check = checks[Key(c)][Fingerprint(c)]
  OBVIOUS
<1>2. /\ pc[c] = "arrived" /\ Keyed(c) /\ Cached(checks, Key(c), Fingerprint(c)) /\ Return(c, check)
      /\ UNCHANGED <<ruleSet, checks, cacheOrder, cacheEntries, history, clock, replacements,
                     req, now, ledger>>
  BY <1>1 DEF Replay
<1>3. check \in Check
  BY <1>1, <1>2 DEF Inv, Typing, TypeOK, Cached
<1>4. Made(check) /\ Pair(check.id) = Pair(c)
  <2>1. Made(checks[Key(c)][Fingerprint(c)]) /\ Pair(checks[Key(c)][Fingerprint(c)].id) = <<Key(c), Fingerprint(c)>>
    BY <1>2 DEF Inv, CacheSound
  <2> QED
    BY <1>1, <2>1 DEF Pair
<1>5. Typing'
  BY <1>2, <1>3 DEF Inv, Typing, TypeOK, Return
<1>6. Origins' /\ \A any \in Check : Made(any) => Made(any)'
  BY <1>2, <1>3, <1>4, ReturnOrigins DEF Inv
<1> QED
  BY <1>2, <1>5, <1>6, QuietCache DEF Inv

(* Reading the clock and installing rules touch nothing that is retained.  *)
LEMMA QuietInv ==
  ASSUME Inv, (\E c \in Calls : Arrive(c)) \/ (\E s \in RuleSets : ReplaceRules(s)) \/ UNCHANGED vars
  PROVE  Inv'
<1>1. /\ UNCHANGED <<checks, cacheOrder, cacheEntries, history, req, answer, ledger>>
      /\ \A c \in Calls : pc'[c] = "returned" <=> pc[c] = "returned"
  BY DEF Arrive, ReplaceRules, vars, Inv, Typing, TypeOK
<1>2. Typing'
  <2>1. CASE \E c \in Calls : Arrive(c)
    <3>1. PICK c \in Calls : Arrive(c)
      BY <2>1
    <3>2. clock' \in Nat /\ pc' \in [Calls -> {"start", "arrived", "returned"}]
      BY <3>1 DEF Arrive, Inv, Typing, TypeOK
    <3>3. now' \in [Calls -> 0 .. clock']
      <4>1. /\ clock \in Nat /\ clock' = clock + 1 /\ now \in [Calls -> 0 .. clock]
            /\ now' = [now EXCEPT ![c] = clock + 1]
        BY <3>1 DEF Arrive, Inv, Typing, TypeOK
      <4>2. \A d \in Calls : now'[d] \in 0 .. clock'
        BY <4>1
      <4> QED
        BY <4>1, <4>2
    <3>4. ruleSet' = ruleSet
      BY <3>1 DEF Arrive
    <3> QED
      BY <1>1, <3>2, <3>3, <3>4 DEF Inv, Typing, TypeOK
  <2>2. CASE \E s \in RuleSets : ReplaceRules(s)
    <3>1. ruleSet' \in Seq(InstalledRule) /\ UNCHANGED <<pc, clock, now>>
      BY <2>2, SortedRules DEF ReplaceRules
    <3> QED
      BY <1>1, <3>1 DEF Inv, Typing, TypeOK
  <2>3. CASE UNCHANGED vars
    BY <2>3 DEF vars, Inv, Typing, TypeOK
  <2> QED
    BY <2>1, <2>2, <2>3
<1>3. \A check \in Check : Made(check) <=> Made(check)'
  <2>1. \A check \in Check : check.id \in Calls
    BY DEF Check
  <2> QED
    BY <1>1, <2>1 DEF Made
<1>4. Origins'
  <2> SUFFICES ASSUME NEW c \in Calls, pc[c]' = "returned"
               PROVE  (/\ answer[c] \in Check /\ Made(answer[c])
                       /\ answer[c].id # c => Keyed(c) /\ Pair(answer[c].id) = Pair(c))'
    BY DEF Origins
  <2>1. /\ answer[c] \in Check /\ Made(answer[c])
        /\ answer[c].id # c => Keyed(c) /\ Pair(answer[c].id) = Pair(c)
    BY <1>1 DEF Inv, Origins
  <2>2. PICK check \in Check : check = answer[c]
    BY <2>1
  <2>3. Made(check)'
    BY <1>3, <2>1, <2>2
  <2> QED
    BY <1>1, <2>1, <2>2, <2>3 DEF Made, Keyed, Pair, Key, Fingerprint
<1> QED
  BY <1>1, <1>2, <1>3, <1>4, QuietCache DEF Inv

-----------------------------------------------------------------------------
(* An engine without calls satisfies the invariant.                        *)
LEMMA InitInv == Init => Inv
<1> SUFFICES ASSUME Init PROVE Inv
  OBVIOUS
<1>1. /\ checks = EmptyCache /\ cacheOrder = <<>> /\ cacheEntries = 0 /\ history = <<>> /\ ledger = <<>>
      /\ Len(ledger) = 0 /\ Len(cacheOrder) = 0 /\ MaxEntries \in Nat \ {0}
      /\ DOMAIN checks = {}
  BY EmptySeq, EngineCapsAssumption DEF Init, EmptyCache
<1>2. Typing
  <2>1. ruleSet \in Seq(InstalledRule)
    BY SortedRules DEF Init
  <2>2. /\ pc \in [Calls -> {"start", "arrived", "returned"}] /\ req \in [Calls -> Requests]
        /\ clock \in Nat /\ now \in [Calls -> 0 .. clock]
        /\ answer \in [Calls -> Check \cup {NoAnswer}]
    BY DEF Init
  <2> QED
    BY <1>1, <2>1, <2>2, EmptySeq DEF Typing, TypeOK
<1>3. Origins
  BY DEF Init, Origins
<1>4. CacheSound /\ Retention
  BY <1>1 DEF CacheSound, Retention, Agree, Cached
<1>5. ConflictExact
  BY <1>1 DEF ConflictExact
<1> QED
  BY <1>2, <1>3, <1>4, <1>5 DEF Inv

(* Every step keeps the invariant.                                         *)
LEMMA StepInv == Inv /\ [Next]_vars => Inv'
<1> SUFFICES ASSUME Inv, [Next]_vars PROVE Inv'
  OBVIOUS
<1>1. ASSUME NEW c \in Calls, Arrive(c) PROVE Inv'
  BY <1>1, QuietInv
<1>2. ASSUME NEW c \in Calls, Replay(c) PROVE Inv'
  BY <1>2, ReplayInv
<1>3. ASSUME NEW c \in Calls, NEW context \in Contexts, NEW verdicts \in Verdicts,
             Decide(c, context, verdicts)
      PROVE  Inv'
  BY <1>3, DecideInv
<1>4. ASSUME NEW s \in RuleSets, ReplaceRules(s) PROVE Inv'
  BY <1>4, QuietInv
<1>5. CASE UNCHANGED vars
  BY <1>5, QuietInv
<1> QED
  BY <1>1, <1>2, <1>3, <1>4, <1>5 DEF Next, AllReturned

(* It holds of every state.                                                *)
LEMMA Invariance == Spec => []Inv
<1> QED
  BY InitInv, StepInv, PTL DEF Spec

(* What the invariant says of the cache, position by position.             *)
LEMMA RetentionIsWindow == Inv => CacheIsWindow
<1> SUFFICES ASSUME Inv PROVE CacheIsWindow
  OBVIOUS
<1> DEFINE first == Len(ledger) - cacheEntries
           P == Keys \X Fingerprints
<1>1. /\ cacheEntries = (IF Len(ledger) < MaxEntries THEN Len(ledger) ELSE MaxEntries)
      /\ Len(cacheOrder) = cacheEntries /\ Agree(checks, cacheOrder, ledger)
  BY DEF Inv, Retention
<1>2. cacheOrder \in Seq(P) /\ ArePairs(P)
  BY DEF Inv, Typing, TypeOK, ArePairs
<1>3. \A i \in 1 .. cacheEntries : cacheOrder[i] = <<cacheOrder[i][1], cacheOrder[i][2]>>
  <2>1. \A i \in 1 .. cacheEntries : cacheOrder[i] \in P
    BY <1>1, <1>2, ElementOfSeq
  <2> QED
    BY <1>2, <2>1 DEF ArePairs
<1>4. ASSUME NEW i \in 1 .. cacheEntries
      PROVE  /\ Cached(checks, cacheOrder[i][1], cacheOrder[i][2])
             /\ checks[cacheOrder[i][1]][cacheOrder[i][2]] = ledger[first + i]
  BY <1>1 DEF Agree
<1>5. ASSUME NEW i \in 1 .. cacheEntries PROVE cacheOrder[i] = Pair(ledger[first + i].id)
  BY <1>3, <1>4 DEF Inv, CacheSound
<1>6. CachedPairs(checks) = {cacheOrder[i] : i \in 1 .. cacheEntries}
  <2> HIDE DEF P
  <2> QED
    BY <1>1, <1>2, AgreementListsPairs
<1>7. /\ \A i, j \in 1 .. cacheEntries : cacheOrder[i] = cacheOrder[j] => i = j
      /\ \A k \in DOMAIN checks : DOMAIN checks[k] # {}
  BY <1>1 DEF Agree
<1> QED
  BY <1>1, <1>4, <1>5, <1>6, <1>7 DEF CacheIsWindow

(* The engine's fields and answers keep their shapes.                      *)
THEOREM EngineTypes == Spec => []TypeOK
<1>1. Inv => TypeOK
  BY DEF Inv, Typing
<1> QED
  BY <1>1, Invariance, PTL

(* Maps, FIFO and counter agree for every cap, and hold the newest of what *)
(* was recorded under a key, nothing lost and nothing twice.               *)
THEOREM CacheRetainsNewest == Spec => []CacheIsWindow
<1> QED
  BY RetentionIsWindow, Invariance, PTL

(* A replay is the decision of a call with the same key and fingerprint.   *)
THEOREM ReplaysAreOriginals == Spec => []ReplayIsOriginal
<1>1. Inv => ReplayIsOriginal
  BY DEF Inv, Origins, Made, ReplayIsOriginal
<1> QED
  BY <1>1, Invariance, PTL

(* Decisions are flagged as conflicting exactly while another result of    *)
(* their key is retained, for every cap, rule set and order of calls.      *)
THEOREM ConflictsAreExact == Spec => []ConflictExact
<1>1. Inv => ConflictExact
  BY DEF Inv
<1> QED
  BY <1>1, Invariance, PTL

=============================================================================
