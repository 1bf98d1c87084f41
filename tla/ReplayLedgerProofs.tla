------------------------- MODULE ReplayLedgerProofs -------------------------
(***************************************************************************)
(* Proofs about what ReplayEngine retains: history, cache and FIFO are the *)
(* newest recorded decisions, and those of one key know of each other.     *)
(* From this, that it implements ReplayLedger: with the state of the       *)
(* engine mapped to the ledger's, every step is a step of the ledger or    *)
(* leaves it as it is; and that evaluators calling the engine change       *)
(* nothing about its safety.                                               *)
(***************************************************************************)
EXTENDS ReplayEngineProofs, ReplayNested

(* What is retained, and what calls in flight know of it.                  *)
Retention ==
  /\ IsTail(history, journal, MaxHistory)
  /\ entries = Len(order)
  /\ entries = (IF Len(ledger) < MaxEntries THEN Len(ledger) ELSE MaxEntries)
  /\ Agree(checks, order, ledger)

Undecided(c) == pc[c] \in {"evaluating", "commit"} /\ Keyed(c)

(* Since a call claimed its key nobody else has recorded anything under    *)
(* it: it still has no result, and others only if the call knows.          *)
Exclusive ==
  \A c \in Calls : Undecided(c) =>
    /\ ~HasPrior(c)
    /\ HasResults(checks, Key(c)) => conflict[c]

(* A call that knows of a conflict is about to record that.                *)
Flagging ==
  \A c \in Calls : pc[c] = "commit" =>
    /\ result[c].check.flagged = conflict[c]
    /\ conflict[c] => result[c].check.decision # DecisionAllow

Windows == Retention /\ Exclusive /\ Flagging /\ ConflictsFlagged /\ SerialPerKey

(* A step that records nothing, and lets no call start to evaluate or to   *)
(* commit.                                                                 *)
LEMMA QuietWindows ==
  ASSUME Windows,
         UNCHANGED <<checks, order, entries, history, journal, ledger, req, conflict>>,
         \A c \in Calls : pc'[c] \in {"evaluating", "commit"} =>
           pc'[c] = pc[c] /\ seen'[c] = seen[c] /\ result'[c] = result[c]
  PROVE  Windows'
<1>1. Retention'
  BY DEF Windows, Retention
<1>2. Exclusive'
  BY DEF Windows, Exclusive, Undecided, Keyed, Key, HasPrior
<1>3. Flagging'
  BY DEF Windows, Flagging
<1>4. ConflictsFlagged'
  BY DEF Windows, ConflictsFlagged
<1>5. SerialPerKey'
  BY DEF Windows, SerialPerKey, Keyed, Key
<1> QED
  BY <1>1, <1>2, <1>3, <1>4, <1>5 DEF Windows

(* A claim notes what there is under its key, and in the history.          *)
LEMMA ClaimWindows ==
  ASSUME Typing, Windows, NEW c \in Calls, Claim(c)
  PROVE  Windows'
<1>1. /\ UNCHANGED <<checks, order, entries, history, journal, ledger, req, result>>
      /\ pc' = [pc EXCEPT ![c] = "evaluating"] /\ pc \in [Calls -> Steps]
      /\ Keyed(c) => ~HasPrior(c)
  BY DEF Claim, Goto, recorded, Typing, TypeOK
<1>2. /\ conflict'[c] \in BOOLEAN
      /\ Keyed(c) /\ HasResults(checks, Key(c)) => conflict'[c]
      /\ \A d \in Calls : d # c => conflict'[d] = conflict[d]
  BY DEF Claim, Typing, TypeOK, HasResults
<1>3. /\ ~req[c].supplied => seen'[c] = history
      /\ \A d \in Calls : d # c => seen'[d] = seen[d]
  BY DEF Claim, Typing, TypeOK
<1>4. Retention'
  BY <1>1 DEF Windows, Retention
<1>5. Exclusive'
  BY <1>1, <1>2 DEF Windows, Exclusive, Undecided, Keyed, Key, HasPrior
<1>6. Flagging'
  BY <1>1, <1>2 DEF Windows, Flagging
<1>7. ConflictsFlagged'
  BY <1>1 DEF Windows, ConflictsFlagged
<1>8. SerialPerKey'
  BY <1>1, <1>3 DEF Windows, SerialPerKey, Keyed, Key
<1> QED
  BY <1>4, <1>5, <1>6, <1>7, <1>8 DEF Windows

(* A decision carries the conflict its call has noted.                     *)
LEMMA DecisionWindows ==
  ASSUME Typing, Windows, NEW c \in Calls, NEW decision \in Decision,
         EvaluationSucceeds(c, decision)
  PROVE  Windows'
<1>1. /\ UNCHANGED <<checks, order, entries, history, journal, ledger, req, conflict, seen>>
      /\ pc[c] = "evaluating" /\ pc' = [pc EXCEPT ![c] = "commit"] /\ pc \in [Calls -> Steps]
  BY DEF EvaluationSucceeds, Goto, shared, recorded, Typing, TypeOK
<1>2. /\ result'[c].check.flagged = conflict[c]
      /\ conflict[c] => result'[c].check.decision # DecisionAllow
      /\ \A d \in Calls : d # c => result'[d] = result[d]
  BY DEF EvaluationSucceeds, CheckOf, ReviewUnlessBlocked, DecisionAllow, DecisionReview,
         DecisionBlock, Typing, TypeOK
<1>3. Retention'
  BY <1>1 DEF Windows, Retention
<1>4. Exclusive'
  BY <1>1 DEF Windows, Exclusive, Undecided, Keyed, Key, HasPrior
<1>5. Flagging'
  BY <1>1, <1>2 DEF Windows, Flagging
<1>6. ConflictsFlagged'
  BY <1>1 DEF Windows, ConflictsFlagged
<1>7. SerialPerKey'
  BY <1>1 DEF Windows, SerialPerKey, Keyed, Key
<1> QED
  BY <1>3, <1>4, <1>5, <1>6, <1>7 DEF Windows

(* What the commit of a call with a key does to the windows.               *)
LEMMA RecordRetention ==
  ASSUME Typing, Answers, Windows, NEW c \in Calls, pc[c] = "commit",
         NEW check \in Check, check = result[c].check, Record(c, check), UNCHANGED req
  PROVE  Retention' /\ ConflictsFlagged'
<1> USE CapsAssumption
<1>1. check.id = c
  BY DEF Answers, Locals, CommitOwn
<1>2. IsTail(history, journal, MaxHistory)'
  BY TailGrows DEF Record, Windows, Retention, Typing, TypeOK
<1>3. CASE ~Keyed(c)
  <2>1. UNCHANGED <<checks, order, entries, ledger>>
    BY <1>3 DEF Record
  <2> QED
    BY <1>2, <2>1 DEF Windows, Retention, Agree, Cached, ConflictsFlagged
<1>4. CASE Keyed(c)
  <2> DEFINE e == Overflow(entries, MaxEntries)
             P == Keys \X Fingerprints
             pair == <<Key(c), req[c].fp>>
  <2>1. /\ checks' = Put(Discard(checks, Oldest(order, e)), Key(c), req[c].fp, check)
        /\ order' = Append(WithoutOldest(order, e), pair)
        /\ entries' = (entries - e) + 1
        /\ ledger' = Append(ledger, check)
    BY <1>4, Zenon DEF Record
  <2>2. /\ Key(c) \in Keys /\ req[c].fp \in Fingerprints
        /\ order \in Seq(Keys \X Fingerprints) /\ ledger \in Seq(Check)
    BY <1>4, RequestFields DEF Typing, TypeOK, HasFingerprint, Keyed, Key
  <2>3. pair \in P /\ pair[1] = Key(c) /\ ArePairs(P) /\ order \in Seq(P)
    BY <2>2 DEF ArePairs
  <2> HIDE DEF P, pair
  <2>4. entries = Len(order) /\ Agree(checks, order, ledger)
    BY DEF Windows, Retention
  <2>5. order' = AppendBounded(order, MaxEntries, pair)
    BY <2>1, <2>4 DEF AppendBounded
  <2>6. ~Cached(checks, Key(c), req[c].fp)
    BY <1>4 DEF Windows, Exclusive, Undecided, HasPrior
  <2>7. Agree(checks', order', ledger')
    <3>1. <<Key(c), req[c].fp>> \in P /\ order' = AppendBounded(order, MaxEntries, <<Key(c), req[c].fp>>)
      BY <2>3, <2>5 DEF pair
    <3>2. e = Overflow(Len(order), MaxEntries)
      BY <2>4
    <3>3. MaxEntries \in Nat \ {0} /\ check \in Check
      BY CapsAssumption
    <3> DEFINE k0 == Key(c)
               f0 == req[c].fp
    <3>4. /\ checks' = Put(Discard(checks, Oldest(order, Overflow(Len(order), MaxEntries))), k0, f0, check)
          /\ order' = AppendBounded(order, MaxEntries, <<k0, f0>>)
          /\ ledger' = Append(ledger, check)
          /\ <<k0, f0>> \in P /\ ~Cached(checks, k0, f0)
      BY <2>1, <2>6, <3>1, <3>2
    <3> HIDE DEF k0, f0
    <3> QED
      BY <2>2, <2>3, <2>4, <3>3, <3>4, AgreementGrows
  <2>8. /\ entries \in Nat /\ e \in 0 .. entries /\ Len(order') = (entries - e) + 1
        /\ \A i \in 1 .. entries - e : order'[i] = order[e + i]
        /\ order'[(entries - e) + 1] = pair
    <3>1. Succeeds(order', order, MaxEntries, pair)
      BY <2>3, <2>5, AppendBoundedElements
    <3> QED
      BY <2>4, <3>1 DEF Succeeds
  <2>9. /\ Len(ledger) \in Nat /\ Len(ledger') = Len(ledger) + 1
        /\ ledger'[Len(ledger) + 1] = check
        /\ \A i \in 1 .. Len(ledger) : ledger'[i] = ledger[i]
    BY <2>1, <2>2, LenProperties, AppendProperties
  <2>10. /\ entries = (IF Len(ledger) < MaxEntries THEN Len(ledger) ELSE MaxEntries)
         /\ e = (IF entries >= MaxEntries THEN (entries - MaxEntries) + 1 ELSE 0)
    BY DEF Windows, Retention, Overflow
  <2> HIDE DEF e
  <2>11. /\ entries' = (IF Len(ledger') < MaxEntries THEN Len(ledger') ELSE MaxEntries)
         /\ entries' = Len(order')
    <3>1. entries \in Nat /\ e \in Nat /\ MaxEntries \in Nat \ {0} /\ entries' = (entries - e) + 1
      BY <2>1, <2>8, CapsAssumption
    <3>2. /\ Len(order') = (entries - e) + 1
          /\ Len(ledger) \in Nat /\ Len(ledger') = Len(ledger) + 1
      BY <2>8, <2>9
    <3>3. CASE Len(ledger) < MaxEntries
      <4>1. entries = Len(ledger) /\ e = 0
        BY <2>10, <3>1, <3>2, <3>3
      <4> QED
        BY <3>1, <3>2, <3>3, <4>1
    <3>4. CASE ~(Len(ledger) < MaxEntries)
      <4>1. entries = MaxEntries /\ e = 1
        BY <2>10, <3>1, <3>2, <3>4
      <4> QED
        BY <3>1, <3>2, <3>4, <4>1
    <3> QED
      BY <3>3, <3>4
  <2>12. Retention'
    BY <1>2, <2>7, <2>11 DEF Retention
  <2>13. ConflictsFlagged'
    <3> DEFINE first == Len(ledger) - entries
    <3>1. /\ first \in Nat /\ Len(ledger') - entries' = first + e
          /\ first + entries = Len(ledger)
      <4>1. /\ entries \in Nat /\ e \in Nat /\ MaxEntries \in Nat \ {0}
            /\ entries' = (entries - e) + 1 /\ entries <= Len(ledger)
        BY <2>1, <2>8, <2>9, <2>10, CapsAssumption
      <4> QED
        BY <2>9, <4>1
    <3> HIDE DEF first
    <3>2. ASSUME NEW i \in 1 .. entries', NEW j \in 1 .. entries', i < j,
                 order'[i][1] = order'[j][1]
          PROVE  LET late == ledger'[(first + e) + j]
                 IN  late.flagged /\ late.decision # DecisionAllow
      <4>1. i \in 1 .. entries - e /\ e + i \in 1 .. entries /\ order'[i] = order[e + i]
        BY <2>1, <2>8, <3>2
      <4>2. CASE j = (entries - e) + 1
        <5>1. order[e + i][1] = Key(c)
          BY <2>3, <2>8, <3>2, <4>1, <4>2
        <5>2. Cached(checks, Key(c), order[e + i][2])
          BY <2>4, <4>1, <5>1 DEF Agree
        <5>3. conflict[c]
          BY <1>4, <5>2 DEF Windows, Exclusive, Undecided, Cached, HasResults
        <5>4. check.flagged /\ check.decision # DecisionAllow
          BY <5>3 DEF Windows, Flagging
        <5>5. (first + e) + j = Len(ledger) + 1
          BY <2>8, <2>9, <3>1, <4>2
        <5> QED
          BY <2>9, <5>4, <5>5
      <4>3. CASE j # (entries - e) + 1
        <5>1. j \in 1 .. entries - e /\ e + j \in 1 .. entries /\ order'[j] = order[e + j] /\ e + i < e + j
          BY <2>1, <2>8, <3>2, <4>1, <4>3
        <5>2. ledger[first + (e + j)].flagged /\ ledger[first + (e + j)].decision # DecisionAllow
          BY <3>2, <4>1, <5>1 DEF Windows, ConflictsFlagged, first
        <5>3. (first + e) + j = first + (e + j) /\ first + (e + j) \in 1 .. Len(ledger)
          BY <2>8, <2>9, <3>1, <5>1
        <5> QED
          BY <2>9, <5>2, <5>3
      <4> QED
        BY <4>2, <4>3
    <3> QED
      BY <3>1, <3>2 DEF ConflictsFlagged
  <2> QED
    BY <2>12, <2>13
<1> QED
  BY <1>3, <1>4

(* A commit disturbs no call that works on another key.                    *)
LEMMA CommitWindows ==
  ASSUME Typing, Flight, Answers, Windows, NEW c \in Calls, Commit(c)
  PROVE  Windows'
<1> USE CapsAssumption
<1>1. PICK check \in Check : check = result[c].check
  BY DEF Typing, TypeOK, Result
<1>2. /\ pc[c] = "commit" /\ Record(c, check) /\ UNCHANGED <<req, conflict>>
      /\ pc'[c] \notin {"evaluating", "commit"}
      /\ \A d \in Calls : d # c =>
           pc'[d] = pc[d] /\ seen'[d] = seen[d] /\ result'[d] = result[d]
  BY <1>1 DEF Commit, Leave, Goto, Typing, TypeOK
<1>3. check.id = c
  BY <1>1, <1>2 DEF Answers, Locals, CommitOwn
<1>4. Retention' /\ ConflictsFlagged'
  BY <1>1, <1>2, RecordRetention
<1>5. Flagging'
  BY <1>2 DEF Windows, Flagging
<1>6. ASSUME NEW d \in Calls, Undecided(d)'
      PROVE  d # c /\ Undecided(d) /\ (Keyed(c) => Key(d) # Key(c))
  <2>1. d # c /\ Undecided(d)
    BY <1>2, <1>6 DEF Undecided, Keyed, Key
  <2>2. Keyed(c) /\ Key(d) = Key(c) => FALSE
    BY <1>2, <2>1 DEF Flight, SingleFlight, InFlight, Undecided
  <2> QED
    BY <2>1, <2>2
<1>7. Exclusive'
  <2> SUFFICES ASSUME NEW d \in Calls, Undecided(d)'
               PROVE  ~HasPrior(d)' /\ (HasResults(checks', Key(d)) => conflict[d])
    BY <1>2 DEF Exclusive, Key
  <2>1. ~HasPrior(d) /\ (HasResults(checks, Key(d)) => conflict[d])
    BY <1>6 DEF Windows, Exclusive
  <2>2. \A f : Cached(checks', Key(d), f) => Cached(checks, Key(d), f)
    <3>1. CASE ~Keyed(c)
      BY <1>2, <3>1 DEF Record
    <3>2. CASE Keyed(c)
      <4>1. \A k, f : Cached(checks', k, f) =>
              IF k = Key(c) /\ f = req[c].fp
              THEN checks'[k][f] = check
              ELSE Cached(checks, k, f) /\ checks'[k][f] = checks[k][f]
        BY <1>2, <3>2, RecordCaches
      <4> QED
        BY <1>6, <3>2, <4>1
    <3> QED
      BY <3>1, <3>2
  <2> QED
    BY <1>2, <2>1, <2>2 DEF HasPrior, HasResults, Cached, Key
<1>8. SerialPerKey'
  <2>1. ASSUME NEW i \in 1 .. Len(history')
        PROVE  \/ history'[i] = check
               \/ \E j \in 1 .. Len(history) : history'[i] = history[j]
    <3> DEFINE e == Overflow(Len(history), MaxHistory)
    <3>1. history' = AppendBounded(history, MaxHistory, check) /\ history \in Seq(Check)
      BY <1>2 DEF Record, Typing, TypeOK
    <3>2. /\ Len(history) \in Nat /\ e \in 0 .. Len(history)
          /\ Len(history') = (Len(history) - e) + 1
          /\ \A j \in 1 .. Len(history) - e : history'[j] = history[e + j]
          /\ history'[(Len(history) - e) + 1] = check
      <4>1. Succeeds(history', history, MaxHistory, check)
        BY <3>1, AppendBoundedElements
      <4> QED
        BY <4>1 DEF Succeeds
    <3> HIDE DEF e
    <3>3. CASE i = (Len(history) - e) + 1
      BY <3>2, <3>3
    <3>4. CASE i # (Len(history) - e) + 1
      <4>1. i \in 1 .. Len(history) - e /\ e + i \in 1 .. Len(history)
        BY <3>2, <3>4
      <4> QED
        BY <3>2, <4>1
    <3> QED
      BY <3>3, <3>4
  <2> SUFFICES ASSUME NEW d \in Calls, Undecided(d)', ~req[d].supplied,
                      NEW i \in 1 .. Len(history'),
                      history'[i].id # d, Key(history'[i].id) = Key(d)
               PROVE  \E j \in 1 .. Len(seen'[d]) : seen'[d][j] = history'[i]
    BY <1>2 DEF SerialPerKey, Undecided, Key
  <2>2. d # c /\ Undecided(d) /\ (Keyed(c) => Key(d) # Key(c)) /\ seen'[d] = seen[d]
    BY <1>2, <1>6
  <2>3. history'[i] # check
    BY <1>3, <2>2 DEF Undecided, Keyed
  <2>4. PICK j \in 1 .. Len(history) : history'[i] = history[j]
    BY <2>1, <2>3
  <2> QED
    BY <2>2, <2>4 DEF Windows, SerialPerKey, Undecided
<1> QED
  BY <1>4, <1>5, <1>7, <1>8 DEF Windows

(* Every step keeps what is retained the newest of what was recorded.      *)
LEMMA StepWindows == Typing /\ Flight /\ Answers /\ Windows /\ [Next]_vars => Windows'
<1> SUFFICES ASSUME Typing, Flight, Answers, Windows, [Next]_vars PROVE Windows'
  OBVIOUS
<1>1. ASSUME NEW c \in Calls, NEW step \in Steps \ {"evaluating", "commit"},
             pc' = [pc EXCEPT ![c] = step],
             UNCHANGED <<checks, order, entries, history, journal, ledger, req, conflict>>,
             \A d \in Calls : d # c => seen'[d] = seen[d] /\ result'[d] = result[d]
      PROVE  Windows'
  <2>1. \A d \in Calls : pc'[d] \in {"evaluating", "commit"} =>
          pc'[d] = pc[d] /\ seen'[d] = seen[d] /\ result'[d] = result[d]
    BY <1>1 DEF Typing, TypeOK
  <2> QED
    BY <1>1, <2>1, QuietWindows
<1>2. ASSUME NEW c \in Calls, Cancel(c) PROVE Windows'
  BY <1>2, QuietWindows DEF Cancel, shared, recorded
<1>3. ASSUME NEW c \in Calls, NEW res, Return(c, res),
             UNCHANGED <<shared, req, conflict, seen, cancelled, recorded>>
      PROVE  Windows'
  <2>1. /\ pc' = [pc EXCEPT ![c] = "returned"]
        /\ UNCHANGED <<checks, order, entries, history, journal, ledger, req, conflict>>
        /\ \A d \in Calls : d # c => seen'[d] = seen[d] /\ result'[d] = result[d]
    BY <1>3 DEF Return, Goto, shared, recorded, Typing, TypeOK
  <2>2. "returned" \in Steps \ {"evaluating", "commit"}
    BY DEF Steps
  <2> QED
    BY <1>1, <2>1, <2>2
<1>4. ASSUME NEW c \in Calls, NEW step \in {"lookup", "waiting"}, Goto(c, step),
             UNCHANGED <<shared, req, conflict, seen, result, cancelled, recorded>>
      PROVE  Windows'
  <2>1. /\ pc' = [pc EXCEPT ![c] = step] /\ step \in Steps \ {"evaluating", "commit"}
        /\ UNCHANGED <<checks, order, entries, history, journal, ledger, req, conflict>>
        /\ \A d \in Calls : d # c => seen'[d] = seen[d] /\ result'[d] = result[d]
    BY <1>4 DEF Goto, Steps, shared, recorded
  <2> QED
    BY <1>1, <2>1
<1>5. ASSUME NEW c \in Calls, NEW res, result' = [result EXCEPT ![c] = res], Leave(c),
             UNCHANGED <<shared, req, conflict, cancelled, recorded>>
      PROVE  Windows'
  <2> DEFINE step == IF Keyed(c) THEN "cleanup" ELSE "returned"
  <2>1. /\ pc' = [pc EXCEPT ![c] = step]
        /\ UNCHANGED <<checks, order, entries, history, journal, ledger, req, conflict>>
        /\ \A d \in Calls : d # c => seen'[d] = seen[d] /\ result'[d] = result[d]
    BY <1>5 DEF Leave, Goto, shared, recorded, Typing, TypeOK
  <2>2. step \in Steps \ {"evaluating", "commit"}
    BY DEF Steps
  <2> HIDE DEF step
  <2> QED
    BY <1>1, <2>1, <2>2
<1>6. ASSUME NEW c \in Calls, Start(c) PROVE Windows'
  <2>1. CASE Return(c, FailedReplay)
    BY <1>3, <1>6, <2>1 DEF Start
  <2>2. CASE Goto(c, "lookup") /\ UNCHANGED result
    BY <1>4, <1>6, <2>2 DEF Start
  <2> QED
    BY <1>6, <2>1, <2>2 DEF Start
<1>7. ASSUME NEW c \in Calls, LookupCancelled(c) \/ Replay(c) \/ AbandonWait(c)
      PROVE  Windows'
  BY <1>3, <1>7 DEF LookupCancelled, Replay, AbandonWait
<1>8. ASSUME NEW c \in Calls, Wait(c) \/ Wake(c) PROVE Windows'
  BY <1>4, <1>8 DEF Wait, Wake
<1>9. ASSUME NEW c \in Calls, CommitCancelled(c) \/ EvaluationPanics(c) PROVE Windows'
  BY <1>5, <1>9 DEF CommitCancelled, EvaluationPanics
<1>10. ASSUME NEW c \in Calls, NEW decision \in Decision,
              EvaluationFails(c, decision) \/ EvaluationOutlived(c, decision)
       PROVE  Windows'
  BY <1>5, <1>10 DEF EvaluationFails, EvaluationOutlived
<1>11. ASSUME NEW c \in Calls, Cleanup(c) PROVE Windows'
  <2>1. \A d \in Calls : pc'[d] \in {"evaluating", "commit"} =>
          pc'[d] = pc[d] /\ seen'[d] = seen[d] /\ result'[d] = result[d]
    BY <1>11 DEF Cleanup
  <2> QED
    BY <1>11, <2>1, QuietWindows DEF Cleanup, recorded
<1>12. CASE UNCHANGED vars
  BY <1>12, QuietWindows DEF vars
<1> QED
  BY <1>2, <1>6, <1>7, <1>8, <1>9, <1>10, <1>11, <1>12, ClaimWindows, DecisionWindows,
     CommitWindows DEF Next, Proceed, Evaluation, AllReturned

(* Nothing is retained and nobody evaluates before the first step.         *)
LEMMA InitWindows == Init => Windows
<1> SUFFICES ASSUME Init PROVE Windows
  OBVIOUS
<1> USE CapsAssumption
<1>1. /\ history = <<>> /\ journal = <<>> /\ ledger = <<>> /\ order = <<>> /\ entries = 0
      /\ DOMAIN checks = {} /\ \A c \in Calls : pc[c] = "start"
  BY DEF Init, EmptyCache
<1>2. Len(<<>>) = 0
  BY EmptySeq
<1>3. Retention
  BY <1>1, <1>2 DEF Retention, IsTail, Agree, Cached
<1>4. Exclusive /\ Flagging /\ ConflictsFlagged /\ SerialPerKey
  BY <1>1 DEF Exclusive, Undecided, Flagging, ConflictsFlagged, SerialPerKey
<1> QED
  BY <1>3, <1>4 DEF Windows

(* The bundle the theorems below are parts of, with what it rests on.      *)
LEMMA WindowsInvariant == Spec => [](Typing /\ Flight /\ Answers /\ Windows)
<1> QED
  BY InitTyping, StepTyping, InitFlight, StepCleaning, StepFlight, InitAnswers, StepAnswers,
     InitWindows, StepWindows, PTL DEF Spec

(* Of two retained decisions under one key the later is flagged and never  *)
(* an allow, whatever was evicted, recorded or cancelled meanwhile.        *)
THEOREM ConflictsAreFlagged == Spec => []ConflictsFlagged
<1>1. Windows => ConflictsFlagged
  BY DEF Windows
<1> QED
  BY <1>1, WindowsInvariant, PTL

(* Nothing of its own key escapes the copy of the history a call evaluates *)
(* against, however many calls run.                                        *)
THEOREM VelocitySeesItsKey == Spec => []SerialPerKey
<1>1. Windows => SerialPerKey
  BY DEF Windows
<1> QED
  BY <1>1, WindowsInvariant, PTL

(* What the cache and its FIFO retain is the end of the ledger.            *)
LEMMA CacheFollowsLedger == Typing /\ Answers /\ Retention => CacheIsWindow
<1> SUFFICES ASSUME Typing, Answers, Retention PROVE CacheIsWindow
  OBVIOUS
<1> DEFINE first == Len(ledger) - entries
<1>1. /\ entries = (IF Len(ledger) < MaxEntries THEN Len(ledger) ELSE MaxEntries)
      /\ Len(order) = entries /\ Agree(checks, order, ledger)
  BY DEF Retention
<1>2. \A i \in 1 .. entries : order[i] \in Keys \X Fingerprints
  <2>1. order \in Seq(Keys \X Fingerprints)
    BY DEF Typing, TypeOK
  <2> QED
    BY <1>1, <2>1, ElementOfSeq
<1>3. ASSUME NEW i \in 1 .. entries
      PROVE  /\ order[i] = <<order[i][1], order[i][2]>>
             /\ Cached(checks, order[i][1], order[i][2])
             /\ checks[order[i][1]][order[i][2]] = ledger[first + i]
  BY <1>1, <1>2 DEF Agree
<1>4. ASSUME NEW i \in 1 .. entries PROVE order[i] = Pair(ledger[first + i].id)
  BY <1>3 DEF Answers, CacheSound
<1>5. CachedPairs(checks) = {order[i] : i \in 1 .. entries}
  <2> DEFINE P == Keys \X Fingerprints
  <2>1. order \in Seq(P) /\ ArePairs(P)
    BY DEF Typing, TypeOK, ArePairs
  <2> HIDE DEF P
  <2> QED
    BY <1>1, <2>1, AgreementListsPairs
<1>6. /\ \A i, j \in 1 .. entries : order[i] = order[j] => i = j
      /\ \A k \in DOMAIN checks : DOMAIN checks[k] # {}
  BY <1>1 DEF Agree
<1> QED
  BY <1>1, <1>3, <1>4, <1>5, <1>6 DEF CacheIsWindow

(* The history is the end of the journal.                                  *)
LEMMA HistoryFollowsJournal == Typing /\ Retention => HistoryIsWindow
<1> SUFFICES ASSUME Typing, Retention PROVE HistoryIsWindow
  OBVIOUS
<1> USE CapsAssumption
<1> DEFINE m == Len(journal)
           kept == IF m < MaxHistory THEN m ELSE MaxHistory
           tail == SubSeq(journal, m - kept + 1, m)
<1>1. /\ history \in Seq(Check) /\ journal \in Seq(Check) /\ m \in Nat
      /\ Len(history) = kept /\ kept \in 0 .. m
      /\ \A i \in 1 .. kept : history[i] = journal[(m - kept) + i]
  <2>1. history \in Seq(Check) /\ journal \in Seq(Check) /\ m \in Nat
    BY LenProperties DEF Typing, TypeOK
  <2>2. /\ Len(history) = kept
        /\ \A i \in 1 .. Len(history) : history[i] = journal[(m - Len(history)) + i]
    BY DEF Retention, IsTail
  <2>3. kept \in 0 .. m
    BY <2>1
  <2> HIDE DEF m, kept
  <2> QED
    BY <2>1, <2>2, <2>3
<1> HIDE DEF m, kept
<1>2. \A i \in m - kept + 1 .. m : journal[i] \in Check
  BY <1>1, ElementOfSeq DEF m
<1>3. /\ tail \in Seq(Check) /\ Len(tail) = kept
      /\ \A i \in 1 .. kept : tail[i] = journal[(m - kept) + i]
  <2>1. /\ tail \in Seq(Check)
        /\ Len(tail) = IF m - kept + 1 <= m THEN m - (m - kept + 1) + 1 ELSE 0
        /\ \A i \in 1 .. m - (m - kept + 1) + 1 : tail[i] = journal[(m - kept + 1) + i - 1]
    BY <1>1, <1>2, SubSeqProperties
  <2> HIDE DEF tail
  <2>2. Len(tail) = kept /\ m - (m - kept + 1) + 1 = kept
    BY <1>1, <2>1
  <2>3. \A i \in 1 .. kept : (m - kept + 1) + i - 1 = (m - kept) + i
    BY <1>1
  <2> QED
    BY <2>1, <2>2, <2>3
<1> HIDE DEF tail
<1>4. history = tail
  BY <1>1, <1>3, SeqEqual
<1> QED
  BY <1>4 DEF HistoryIsWindow, tail, m, kept

(* Cache, FIFO and counter are the newest recorded decisions with a key,   *)
(* for every cap and every order of commits.                               *)
THEOREM CacheRetainsNewest == Spec => []CacheIsWindow
<1>1. Typing /\ Answers /\ Windows => CacheIsWindow
  BY CacheFollowsLedger DEF Windows
<1> QED
  BY <1>1, WindowsInvariant, PTL

(* The history is the newest recorded decisions, none lost, none twice.    *)
THEOREM HistoryRetainsNewest == Spec => []HistoryIsWindow
<1>1. Typing /\ Windows => HistoryIsWindow
  BY HistoryFollowsJournal DEF Windows
<1> QED
  BY <1>1, WindowsInvariant, PTL

-----------------------------------------------------------------------------
(* The refinement.                                                         *)

(* The phases and the answers the mapping makes of the engine's state.     *)
PhaseMap == [c \in Calls |-> Phase(pc[c])]
AnswerMap == [c \in Calls |-> IF Phase(pc[c]) = "answered" THEN result[c] ELSE NoResult]

(* Both modules mean the same by a decision.                               *)
LEMMA SameDecisions == Ledger!Decision = Decision /\ Ledger!DecisionAllow = DecisionAllow
BY DEF Ledger!Decision, Ledger!DecisionAllow, Ledger!DecisionReview, Ledger!DecisionBlock,
       Decision, DecisionAllow, DecisionReview, DecisionBlock

(* The phases the steps of a call map to.                                  *)
LEMMA Phases ==
  /\ \A step \in {"start", "lookup", "waiting", "woken"} : Phase(step) = "idle"
  /\ \A step \in {"evaluating", "commit"} : Phase(step) = "evaluating"
  /\ \A step \in {"cleanup", "returned"} : Phase(step) = "answered"
BY DEF Phase

(* What the ledger sees of a step that changes no phase and no answer.     *)
LEMMA QuietMap ==
  ASSUME Typing, UNCHANGED <<req, journal, ledger, conflict>>,
         \A c \in Calls : /\ Phase(pc'[c]) = Phase(pc[c])
                          /\ Phase(pc[c]) = "answered" => result'[c] = result[c]
  PROVE  UNCHANGED Ledger!vars
<1>1. PhaseMap' = PhaseMap /\ AnswerMap' = AnswerMap
  BY DEF PhaseMap, AnswerMap
<1> QED
  BY <1>1 DEF Ledger!vars, PhaseMap, AnswerMap

(* What the ledger sees of a call whose result is settled.                 *)
LEMMA SettleMap ==
  ASSUME Typing, NEW c \in Calls, NEW res, NEW step \in {"cleanup", "returned"},
         pc[c] \notin {"cleanup", "returned"},
         result' = [result EXCEPT ![c] = res], pc' = [pc EXCEPT ![c] = step]
  PROVE  /\ PhaseMap' = [PhaseMap EXCEPT ![c] = "answered"]
         /\ AnswerMap' = [AnswerMap EXCEPT ![c] = res]
<1>1. /\ pc'[c] = step /\ result'[c] = res
      /\ \A d \in Calls : d # c => pc'[d] = pc[d] /\ result'[d] = result[d]
  BY DEF Typing, TypeOK
<1>2. Phase(step) = "answered"
  BY Phases
<1>3. \A d \in Calls :
        /\ Phase(pc'[d]) = (IF d = c THEN "answered" ELSE Phase(pc[d]))
        /\ d # c => result'[d] = result[d]
  BY <1>1, <1>2
<1>4. PhaseMap' = [PhaseMap EXCEPT ![c] = "answered"]
  BY <1>3 DEF PhaseMap
<1>5. AnswerMap' = [AnswerMap EXCEPT ![c] = res]
  BY <1>1, <1>3 DEF AnswerMap
<1> QED
  BY <1>4, <1>5

(* Where a call is that has no settled result.                             *)
LEMMA Unsettled ==
  ASSUME Typing, NEW c \in Calls, pc[c] \notin {"cleanup", "returned"}
  PROVE  PhaseMap[c] \in {"idle", "evaluating"}
<1>1. pc[c] \in Steps
  BY DEF Typing, TypeOK
<1> QED
  BY <1>1, Phases DEF PhaseMap, Steps

(* What fails on the engine fails on the ledger.                           *)
LEMMA FailMap ==
  ASSUME Typing, NEW c \in Calls, NEW res \in Result, NEW step \in {"cleanup", "returned"},
         pc[c] \notin {"cleanup", "returned"},
         result' = [result EXCEPT ![c] = res], pc' = [pc EXCEPT ![c] = step],
         UNCHANGED <<req, journal, ledger, conflict>>,
         res.outcome \in {"error", "panic"}, res.check.id \in {c, NoCall},
         res.check.decision # DecisionAllow
  PROVE  Ledger!Next
<1>1. PICK check \in Check : res = [outcome |-> res.outcome, check |-> check]
  BY DEF Result
<1>2. check = [id |-> check.id, decision |-> check.decision, flagged |-> check.flagged]
      /\ check.decision \in Decision \ {DecisionAllow} /\ check.flagged \in BOOLEAN
      /\ check.id \in {c, NoCall} /\ res.check = check
  BY <1>1 DEF Check
<1>3. /\ PhaseMap' = [PhaseMap EXCEPT ![c] = "answered"]
      /\ AnswerMap' = [AnswerMap EXCEPT ![c] = res]
      /\ PhaseMap[c] \in {"idle", "evaluating"}
  BY SettleMap, Unsettled
<1>4. Ledger!Finish(c, res.outcome, check)
  BY <1>1, <1>3 DEF Ledger!Finish, PhaseMap, AnswerMap
<1>5. Ledger!Fail(c)
  <2>1. \E outcome \in {"error", "panic"}, id \in {c, NoCall},
           decision \in Decision \ {DecisionAllow}, flagged \in BOOLEAN :
          Ledger!Finish(c, outcome, [id |-> id, decision |-> decision, flagged |-> flagged])
    BY <1>2, <1>4
  <2>2. Phase(pc[c]) \in {"idle", "evaluating"}
    BY <1>3 DEF PhaseMap
  <2> QED
    BY <2>1, <2>2, SameDecisions DEF Ledger!Fail
<1> QED
  BY <1>5 DEF Ledger!Next

(* The cache and the retained end of the ledger say the same.              *)
LEMMA RetainedIsCached ==
  ASSUME Typing, Answers, Retention
  PROVE  /\ \A i \in Ledger!Retained :
              LET owner == ledger[i].id
              IN  owner \in Calls /\ Cached(checks, Key(owner), req[owner].fp)
         /\ \A k, f : Cached(checks, k, f) =>
              \E i \in Ledger!Retained :
                 checks[k][f] = ledger[i] /\ Pair(ledger[i].id) = <<k, f>>
<1> USE CapsAssumption
<1> DEFINE first == Len(ledger) - entries
<1>1. /\ entries = (IF Len(ledger) < MaxEntries THEN Len(ledger) ELSE MaxEntries)
      /\ Len(order) = entries /\ Agree(checks, order, ledger)
      /\ Len(ledger) \in Nat /\ entries \in Nat
  BY LenProperties DEF Retention, Typing, TypeOK
<1>2. first \in Nat /\ first + entries = Len(ledger) /\ Ledger!Retained = first + 1 .. Len(ledger)
  <2>1. CASE Len(ledger) < MaxEntries
    <3>1. entries = Len(ledger) /\ first = 0
      BY <1>1, <2>1
    <3> HIDE DEF first
    <3> QED
      BY <1>1, <2>1, <3>1 DEF Ledger!Retained
  <2>2. CASE ~(Len(ledger) < MaxEntries)
    <3>1. entries = MaxEntries /\ first = Len(ledger) - MaxEntries
      BY <1>1, <2>2
    <3> HIDE DEF first
    <3> QED
      BY <1>1, <2>2, <3>1 DEF Ledger!Retained
  <2> QED
    BY <2>1, <2>2
<1>3. CacheIsWindow
  BY CacheFollowsLedger
<1>4. ASSUME NEW i \in Ledger!Retained
      PROVE  LET owner == ledger[i].id
             IN  owner \in Calls /\ Cached(checks, Key(owner), req[owner].fp)
  <2> DEFINE j == i - first
  <2>1. j \in 1 .. entries /\ first + j = i
    <3> HIDE DEF first
    <3> QED
      BY <1>1, <1>2
  <2>2. /\ Cached(checks, order[j][1], order[j][2])
        /\ checks[order[j][1]][order[j][2]] = ledger[i]
    BY <1>1, <2>1 DEF Agree
  <2> HIDE DEF j, first
  <2> DEFINE k == order[j][1]
             f == order[j][2]
  <2>3. Cached(checks, k, f) /\ checks[k][f] = ledger[i]
    BY <2>2
  <2> HIDE DEF k, f
  <2>4. Recorded(ledger[i]) /\ Pair(ledger[i].id) = <<k, f>>
    BY <2>3 DEF Answers, CacheSound
  <2> QED
    BY <2>3, <2>4 DEF Recorded, Pair
<1>5. ASSUME NEW k, NEW f, Cached(checks, k, f)
      PROVE  \E i \in Ledger!Retained : checks[k][f] = ledger[i] /\ Pair(ledger[i].id) = <<k, f>>
  <2>1. PICK j \in 1 .. entries : order[j] = <<k, f>>
    BY <1>1, <1>5, Zenon DEF Agree
  <2>2. checks[k][f] = ledger[first + j]
    <3>1. order[j][1] = k /\ order[j][2] = f
      BY <2>1
    <3> QED
      BY <1>1, <3>1 DEF Agree
  <2>3. first + j \in Ledger!Retained
    <3> HIDE DEF first
    <3> QED
      BY <1>1, <1>2
  <2>4. Pair(checks[k][f].id) = <<k, f>>
    BY <1>5 DEF Answers, CacheSound
  <2> QED
    BY <2>2, <2>3, <2>4
<1> QED
  BY <1>4, <1>5

(* A replay shares an answer that is retained for the same request.        *)
LEMMA ReplayMap ==
  ASSUME Typing, Answers, Retention, NEW c \in Calls, Replay(c)
  PROVE  Ledger!Next
<1> DEFINE check == checks[Key(c)][req[c].fp]
           res == [outcome |-> "ok", check |-> check]
<1>1. /\ pc[c] = "lookup" /\ Keyed(c) /\ Cached(checks, Key(c), req[c].fp)
      /\ result' = [result EXCEPT ![c] = res] /\ pc' = [pc EXCEPT ![c] = "returned"]
      /\ UNCHANGED <<req, journal, ledger, conflict>>
  BY DEF Replay, Return, Goto, HasPrior, recorded
<1>2. PICK i \in Ledger!Retained : check = ledger[i] /\ Pair(ledger[i].id) = Pair(c)
  BY <1>1, RetainedIsCached DEF Pair
<1> HIDE DEF check
<1>3. PhaseMap[c] = "idle"
  BY <1>1, Phases DEF PhaseMap
<1>4. /\ PhaseMap' = [PhaseMap EXCEPT ![c] = "answered"]
      /\ AnswerMap' = [AnswerMap EXCEPT ![c] = res]
  BY <1>1, SettleMap
<1>5. Ledger!Finish(c, "ok", ledger[i])
  BY <1>1, <1>2, <1>4 DEF Ledger!Finish, PhaseMap, AnswerMap
<1>6. Ledger!SameRequest(c, ledger[i].id)
  BY <1>2 DEF Ledger!SameRequest, Ledger!KeyOf, Pair, Key
<1>7. Ledger!Share(c)
  BY <1>1, <1>3, <1>5, <1>6 DEF Ledger!Share, Ledger!KeyOf, PhaseMap, Keyed, Key
<1> QED
  BY <1>7 DEF Ledger!Next

(* A claim begins an evaluation: nobody else is on the key, no answer is   *)
(* retained, and a conflict is noted exactly if the key has another.       *)
LEMMA ClaimMap ==
  ASSUME Typing, Flight, Answers, Retention, NEW c \in Calls, Claim(c)
  PROVE  Ledger!Next
<1>1. /\ pc[c] = "lookup" /\ pc' = [pc EXCEPT ![c] = "evaluating"]
      /\ UNCHANGED <<req, journal, ledger, result>>
      /\ Keyed(c) => ~HasPrior(c) /\ KeyFree(c)
  BY DEF Claim, Goto, recorded
<1>2. /\ PhaseMap[c] = "idle"
      /\ PhaseMap' = [PhaseMap EXCEPT ![c] = "evaluating"]
      /\ AnswerMap' = AnswerMap
  <2>1. /\ Phase("lookup") = "idle" /\ Phase("evaluating") = "evaluating"
        /\ pc'[c] = "evaluating" /\ \A d \in Calls : d # c => pc'[d] = pc[d]
    BY <1>1, Phases DEF Typing, TypeOK
  <2>2. \A d \in Calls : Phase(pc'[d]) = IF d = c THEN "evaluating" ELSE Phase(pc[d])
    BY <2>1
  <2>3. Phase(pc[c]) = "idle"
    BY <1>1, <2>1
  <2>4. PhaseMap[c] = "idle" /\ PhaseMap' = [PhaseMap EXCEPT ![c] = "evaluating"]
    BY <2>2, <2>3 DEF PhaseMap
  <2>5. AnswerMap' = AnswerMap
    BY <1>1, <2>2, <2>3 DEF AnswerMap
  <2> QED
    BY <2>4, <2>5
<1>3. CASE ~Keyed(c)
  <2>1. UNCHANGED conflict
    BY <1>3 DEF Claim
  <2>2. Ledger!Begin(c)
    BY <1>1, <1>2, <1>3, <2>1 DEF Ledger!Begin, Ledger!KeyOf, PhaseMap, AnswerMap, Keyed, Key
  <2> QED
    BY <2>2 DEF Ledger!Next
<1>4. CASE Keyed(c)
  <2>1. conflict' = [conflict EXCEPT ![c] = HasResults(checks, Key(c))]
    BY <1>4 DEF Claim
  <2>2. ASSUME NEW d \in Calls, PhaseMap[d] = "evaluating" PROVE Key(d) # Key(c)
    <3>1. pc[d] \in {"evaluating", "commit"}
      BY <2>2, Phases DEF PhaseMap, Typing, TypeOK, Steps
    <3>2. SUFFICES ASSUME Key(d) = Key(c) PROVE FALSE
      OBVIOUS
    <3> QED
      BY <1>1, <1>4, <3>1, <3>2 DEF Flight, SingleFlight, InFlight, KeyFree, Keyed
  <2>3. \A i \in Ledger!Retained : ~Ledger!SameRequest(c, ledger[i].id)
    <3> SUFFICES ASSUME NEW i \in Ledger!Retained, Ledger!SameRequest(c, ledger[i].id)
                 PROVE  FALSE
      OBVIOUS
    <3>1. Cached(checks, Key(ledger[i].id), req[ledger[i].id].fp)
      BY RetainedIsCached
    <3> QED
      BY <1>1, <1>4, <3>1 DEF Ledger!SameRequest, Ledger!KeyOf, HasPrior, Key
  <2>4. HasResults(checks, Key(c)) <=>
          \E i \in Ledger!Retained : Key(ledger[i].id) = Key(c)
    <3>1. ASSUME NEW f, Cached(checks, Key(c), f)
          PROVE  \E i \in Ledger!Retained : Key(ledger[i].id) = Key(c)
      <4>1. PICK i \in Ledger!Retained : Pair(ledger[i].id) = <<Key(c), f>>
        BY <3>1, RetainedIsCached
      <4> QED
        BY <4>1 DEF Pair
    <3>2. ASSUME NEW i \in Ledger!Retained, Key(ledger[i].id) = Key(c)
          PROVE  HasResults(checks, Key(c))
      <4>1. Cached(checks, Key(ledger[i].id), req[ledger[i].id].fp)
        BY RetainedIsCached
      <4> QED
        BY <3>2, <4>1 DEF HasResults, Cached
    <3> QED
      BY <3>1, <3>2 DEF HasResults, Cached
  <2>5. conflict' = [conflict EXCEPT ![c] =
                       \E i \in Ledger!Retained : Ledger!KeyOf(ledger[i].id) = Ledger!KeyOf(c)]
    <3>1. HasResults(checks, Key(c)) =
            \E i \in Ledger!Retained : Ledger!KeyOf(ledger[i].id) = Ledger!KeyOf(c)
      BY <2>4 DEF Ledger!KeyOf, Key, HasResults
    <3> QED
      BY <2>1, <3>1
  <2>6. \A d \in Calls : PhaseMap[d] = "evaluating" => Ledger!KeyOf(d) # Ledger!KeyOf(c)
    BY <2>2 DEF Ledger!KeyOf, Key
  <2>7. Ledger!Begin(c)
    BY <1>1, <1>2, <1>4, <2>3, <2>5, <2>6
    DEF Ledger!Begin, Ledger!KeyOf, PhaseMap, AnswerMap, Keyed, Key
  <2> QED
    BY <2>7 DEF Ledger!Next
<1> QED
  BY <1>3, <1>4

(* A commit decides: flagged exactly if a conflict was noted.              *)
LEMMA CommitMap ==
  ASSUME Typing, Answers, Flagging, NEW c \in Calls, Commit(c)
  PROVE  Ledger!Next
<1>1. PICK check \in Check : check = result[c].check
  BY DEF Typing, TypeOK, Result
<1> DEFINE res == [outcome |-> "ok", check |-> check]
           step == IF Keyed(c) THEN "cleanup" ELSE "returned"
<1>2. /\ pc[c] = "commit" /\ Record(c, check) /\ UNCHANGED <<req, conflict>>
      /\ pc' = [pc EXCEPT ![c] = step] /\ result' = [result EXCEPT ![c] = res]
  <2>1. [result[c] EXCEPT !.outcome = "ok"] = res
    BY <1>1 DEF Typing, TypeOK, Result
  <2>2. result' = [result EXCEPT ![c] = [result[c] EXCEPT !.outcome = "ok"]]
    BY DEF Commit, Typing, TypeOK
  <2> HIDE DEF res
  <2> QED
    BY <1>1, <2>1, <2>2 DEF Commit, Leave, Goto
<1>3. /\ check.id = c /\ check.flagged = conflict[c]
      /\ conflict[c] => check.decision # DecisionAllow
  BY <1>1, <1>2 DEF Answers, Locals, CommitOwn, Flagging
<1>4. /\ check.decision \in Decision
      /\ check = [id |-> c, decision |-> check.decision, flagged |-> conflict[c]]
  BY <1>3 DEF Check
<1> HIDE DEF res, step
<1>5. step \in {"cleanup", "returned"}
  BY DEF step
<1>6. /\ PhaseMap' = [PhaseMap EXCEPT ![c] = "answered"]
      /\ AnswerMap' = [AnswerMap EXCEPT ![c] = res]
      /\ PhaseMap[c] = "evaluating"
  BY <1>2, <1>5, SettleMap, Phases DEF PhaseMap
<1>7. Ledger!Finish(c, "ok", check)
  BY <1>2, <1>6 DEF Ledger!Finish, PhaseMap, AnswerMap, res
<1>8. /\ journal' = Append(journal, check)
      /\ ledger' = IF req[c].key = NoKey THEN ledger ELSE Append(ledger, check)
  BY <1>2 DEF Record, Keyed, Key
<1>9. PICK decision \in Decision :
        /\ conflict[c] => decision # DecisionAllow
        /\ check = [id |-> c, decision |-> decision, flagged |-> conflict[c]]
  BY <1>3, <1>4
<1>10. Ledger!Decide(c, decision)
  <2>1. Phase(pc[c]) = "evaluating"
    BY <1>6 DEF PhaseMap
  <2> DEFINE any == [id |-> c, decision |-> decision, flagged |-> conflict[c]]
  <2>2. any = check
    BY <1>9
  <2> HIDE DEF any
  <2>3. /\ journal' = Append(journal, any)
        /\ ledger' = IF req[c].key = NoKey THEN ledger ELSE Append(ledger, any)
        /\ Ledger!Finish(c, "ok", any)
    BY <1>7, <1>8, <2>2 DEF Ledger!Finish
  <2> QED
    BY <1>9, <2>1, <2>3, SameDecisions DEF Ledger!Decide, Ledger!KeyOf, any
<1> QED
  BY <1>10, SameDecisions DEF Ledger!Next

(* Every step of the engine is a step of the ledger, or none.              *)
LEMMA StepMap ==
  Typing /\ Flight /\ Answers /\ Windows /\ [Next]_vars => [Ledger!Next]_(Ledger!vars)
<1> SUFFICES ASSUME Typing, Flight, Answers, Windows, [Next]_vars
             PROVE  Ledger!Next \/ UNCHANGED Ledger!vars
  OBVIOUS
<1>1. ASSUME NEW c \in Calls, NEW res \in Result, NEW step \in {"cleanup", "returned"},
             pc[c] \notin {"cleanup", "returned"},
             result' = [result EXCEPT ![c] = res], pc' = [pc EXCEPT ![c] = step],
             UNCHANGED <<req, conflict, recorded>>,
             res.outcome \in {"error", "panic"}, res.check.id \in {c, NoCall},
             res.check.decision # DecisionAllow
      PROVE  Ledger!Next
  BY <1>1, FailMap DEF recorded
<1>2. ASSUME NEW c \in Calls, pc[c] \notin {"cleanup", "returned"}, Return(c, FailedReplay),
             UNCHANGED <<shared, req, conflict, seen, cancelled, recorded>>
      PROVE  Ledger!Next
  <2>1. PICK res \in Result : res = FailedReplay
    BY CheckTyping
  <2>2. /\ res.outcome \in {"error", "panic"} /\ res.check.id \in {c, NoCall}
        /\ res.check.decision # DecisionAllow
    BY <2>1 DEF FailedReplay, EmptyCheck, DecisionReview, DecisionAllow
  <2> QED
    BY <1>1, <1>2, <2>1, <2>2 DEF Return, Goto
<1>3. ASSUME NEW c \in Calls, NEW res \in Result, pc[c] \in {"evaluating", "commit"},
             result' = [result EXCEPT ![c] = res], Leave(c),
             UNCHANGED <<shared, req, conflict, cancelled, recorded>>,
             res.outcome \in {"error", "panic"}, res.check.id \in {c, NoCall},
             res.check.decision # DecisionAllow
      PROVE  Ledger!Next
  <2> DEFINE step == IF Keyed(c) THEN "cleanup" ELSE "returned"
  <2>1. pc' = [pc EXCEPT ![c] = step] /\ step \in {"cleanup", "returned"}
    BY <1>3 DEF Leave, Goto
  <2> HIDE DEF step
  <2> QED
    BY <1>1, <1>3, <2>1
<1>4. ASSUME NEW check \in Check
      PROVE  /\ Withdrawn(check) \in Result /\ Withdrawn(check).outcome = "error"
             /\ Withdrawn(check).check.decision # DecisionAllow
             /\ Withdrawn(check).check.id = check.id
  BY <1>4, CheckTyping DEF Withdrawn, WithdrawAllow, DecisionAllow, DecisionReview, Check
<1>5. ASSUME NEW c \in Calls, NEW step \in Steps, Phase(step) = Phase(pc[c]),
             Phase(step) # "answered", pc' = [pc EXCEPT ![c] = step],
             \A d \in Calls : d # c => result'[d] = result[d],
             UNCHANGED <<req, conflict, recorded>>
      PROVE  UNCHANGED Ledger!vars
  <2>1. \A d \in Calls : /\ Phase(pc'[d]) = Phase(pc[d])
                         /\ Phase(pc[d]) = "answered" => result'[d] = result[d]
    BY <1>5 DEF Typing, TypeOK
  <2> QED
    BY <1>5, <2>1, QuietMap DEF recorded
<1>6. ASSUME NEW c \in Calls, Cancel(c) PROVE UNCHANGED Ledger!vars
  BY <1>6, QuietMap DEF Cancel, recorded
<1>7. ASSUME NEW c \in Calls, Start(c) PROVE Ledger!Next \/ UNCHANGED Ledger!vars
  <2>1. CASE Return(c, FailedReplay)
    BY <1>2, <1>7, <2>1 DEF Start
  <2>2. CASE Goto(c, "lookup") /\ UNCHANGED result
    BY <1>5, <1>7, <2>2, Phases DEF Start, Goto, Steps
  <2> QED
    BY <1>7, <2>1, <2>2 DEF Start
<1>8. ASSUME NEW c \in Calls, LookupCancelled(c) \/ AbandonWait(c) PROVE Ledger!Next
  BY <1>2, <1>8 DEF LookupCancelled, AbandonWait
<1>9. ASSUME NEW c \in Calls, Wait(c) \/ Wake(c) PROVE UNCHANGED Ledger!vars
  BY <1>5, <1>9, Phases DEF Wait, Wake, Goto, Steps
<1>10. ASSUME NEW c \in Calls, NEW decision \in Decision \ {DecisionAllow},
              EvaluationFails(c, decision)
       PROVE  Ledger!Next
  <2> DEFINE res == [outcome |-> "error", check |-> CheckOf(c, decision, FALSE)]
  <2>1. /\ res \in Result /\ res.outcome = "error" /\ res.check.id = c
        /\ res.check.decision # DecisionAllow
    BY CheckTyping DEF CheckOf
  <2> QED
    BY <1>3, <1>10, <2>1 DEF EvaluationFails
<1>11. ASSUME NEW c \in Calls, EvaluationPanics(c) PROVE Ledger!Next
  <2> DEFINE res == [outcome |-> "panic", check |-> EmptyCheck]
  <2>1. /\ res \in Result /\ res.outcome = "panic" /\ res.check.id = NoCall
        /\ res.check.decision # DecisionAllow
    BY CheckTyping DEF EmptyCheck, DecisionReview, DecisionAllow
  <2> QED
    BY <1>3, <1>11, <2>1 DEF EvaluationPanics
<1>12. ASSUME NEW c \in Calls, NEW decision \in Decision, EvaluationOutlived(c, decision)
       PROVE  Ledger!Next
  <2>1. CheckOf(c, decision, FALSE) \in Check /\ CheckOf(c, decision, FALSE).id = c
    BY CheckTyping DEF CheckOf
  <2> QED
    BY <1>3, <1>4, <1>12, <2>1 DEF EvaluationOutlived
<1>13. ASSUME NEW c \in Calls, NEW decision \in Decision, EvaluationSucceeds(c, decision)
       PROVE  UNCHANGED Ledger!vars
  <2>1. /\ pc[c] = "evaluating" /\ pc' = [pc EXCEPT ![c] = "commit"] /\ "commit" \in Steps
        /\ \A d \in Calls : d # c => result'[d] = result[d]
        /\ UNCHANGED <<req, conflict, recorded>>
    BY <1>13 DEF EvaluationSucceeds, Goto, Steps, Typing, TypeOK
  <2> QED
    BY <1>5, <2>1, Phases
<1>14. ASSUME NEW c \in Calls, CommitCancelled(c) PROVE Ledger!Next
  <2>1. result[c].check \in Check /\ result[c].check.id = c
    BY <1>14 DEF CommitCancelled, Typing, TypeOK, Result, Answers, Locals, CommitOwn
  <2> QED
    BY <1>3, <1>4, <1>14, <2>1 DEF CommitCancelled
<1>15. ASSUME NEW c \in Calls, Cleanup(c) PROVE UNCHANGED Ledger!vars
  <2>1. \A d \in Calls : Phase(pc'[d]) = Phase(pc[d])
    <3>1. \A d \in Calls : \/ pc'[d] = pc[d]
                           \/ pc[d] = "waiting" /\ pc'[d] = "woken"
                           \/ pc[d] = "cleanup" /\ pc'[d] = "returned"
      BY <1>15 DEF Cleanup
    <3> QED
      BY <3>1, Phases
  <2> QED
    BY <1>15, <2>1, QuietMap DEF Cleanup, recorded
<1>16. CASE UNCHANGED vars
  BY <1>16, QuietMap DEF vars
<1>17. ASSUME NEW c \in Calls, Replay(c) \/ Claim(c) \/ Commit(c) PROVE Ledger!Next
  BY <1>17, ReplayMap, ClaimMap, CommitMap DEF Windows
<1> QED
  BY <1>6, <1>7, <1>8, <1>9, <1>10, <1>11, <1>12, <1>13, <1>14, <1>15, <1>16, <1>17
  DEF Next, Proceed, Evaluation, AllReturned

(* An engine without a call is a ledger without one.                       *)
LEMMA InitMap == Init => Ledger!Init
<1> SUFFICES ASSUME Init PROVE Ledger!Init
  OBVIOUS
<1>1. \A c \in Calls : pc[c] = "start" /\ Phase(pc[c]) = "idle"
  BY Phases DEF Init
<1>2. PhaseMap = [c \in Calls |-> "idle"] /\ AnswerMap = [c \in Calls |-> NoResult]
  BY <1>1 DEF PhaseMap, AnswerMap
<1>3. Ledger!EmptyAnswer = NoResult
  BY DEF Ledger!EmptyAnswer, Ledger!DecisionReview, DecisionReview, NoResult, EmptyCheck
<1> QED
  BY <1>2, <1>3 DEF Init, Ledger!Init, PhaseMap, AnswerMap

(* With any number of calls, keys and payloads and any caps the engine     *)
(* does only what the ledger allows: it shares the one recorded decision   *)
(* while that is retained, flags conflicting payloads, evaluates each key  *)
(* alone, and leaves no trace of what fails.                               *)
THEOREM EngineImplementsLedger == Spec => ImplementsLedger
<1> QED
  BY InitMap, StepMap, WindowsInvariant, PTL DEF Spec, ImplementsLedger, Ledger!Spec

-----------------------------------------------------------------------------
(* Evaluators that call the engine, module ReplayNested: what is safe      *)
(* stays so whichever calls they nest.  Such calls are steps of            *)
(* ReplayEngine, taken in an order that evaluators constrain, but for the  *)
(* contexts, of which several end at once.                                 *)
Safe == Typing /\ Cleaning /\ Flight /\ Answers /\ Windows

(* Several contexts end, and nothing else happens.                         *)
ContextsEnd ==
  /\ cancelled' \subseteq cancelled \cup Planned
  /\ UNCHANGED <<shared, pc, req, conflict, seen, result, recorded>>

(* Every step of nested calls is a step of the engine or ends contexts.    *)
LEMMA NestedStep ==
  ASSUME Planned \subseteq Calls, [NestedNext]_nestedVars
  PROVE  [Next]_vars \/ ContextsEnd
<1>1. ASSUME NEW c \in Planned, NestedCancel(c) PROVE ContextsEnd
  BY <1>1 DEF NestedCancel, ContextsEnd
<1>2. ASSUME NEW c \in Planned, CallInside(c) \/ ProceedMade(c) PROVE Next
  BY <1>2 DEF CallInside, ProceedMade, Proceed, Next
<1>3. ASSUME NEW c \in Planned, EvaluationDone(c) PROVE Next
  <2>1. Evaluation(c)
    BY <1>3, RepliesAssumption DEF EvaluationDone, Evaluation
  <2> QED
    BY <2>1 DEF Next
<1>4. CASE NothingToDo \/ UNCHANGED nestedVars
  BY <1>4 DEF NothingToDo, nestedVars
<1> QED
  BY <1>1, <1>2, <1>3, <1>4 DEF NestedNext

(* The safety of the engine does not depend on whose context ends when.    *)
LEMMA ContextsEndSafely ==
  ASSUME Safe, Planned \subseteq Calls, ContextsEnd
  PROVE  Safe'
<1>1. UNCHANGED <<checks, pending, req, pc, result, journal>>
  BY DEF ContextsEnd, shared, recorded
<1>2. Typing'
  BY DEF Safe, ContextsEnd, Typing, TypeOK, HasFingerprint, shared, recorded
<1>3. Cleaning'
  BY <1>1 DEF Safe, Cleaning, Keyed, Key
<1>4. Flight'
  BY <1>1 DEF Safe, Flight, SingleFlight, NoLostWakeup, InFlight, Keyed, Key
<1>5. Answers'
  BY <1>1, QuietAnswers DEF Safe, Settled
<1>6. Windows'
  BY QuietWindows DEF Safe, ContextsEnd, shared, recorded
<1> QED
  BY <1>2, <1>3, <1>4, <1>5, <1>6 DEF Safe

(* Nested calls keep the engine safe.                                      *)
LEMMA NestedSafety == NestedSpec => [](Safe /\ Planned \subseteq Calls)
<1>1. NestedInit => Safe /\ Planned \subseteq Calls
  <2> SUFFICES ASSUME NestedInit PROVE Safe /\ Planned \subseteq Calls
    OBVIOUS
  <2>1. Planned \subseteq Calls
    BY PlansAssumption DEF NestedInit, Planned
  <2>2. Init
    BY DEF NestedInit
  <2> QED
    BY <2>1, <2>2, InitTyping, InitFlight, InitAnswers, InitWindows DEF Safe
<1>2. Safe /\ Planned \subseteq Calls /\ [NestedNext]_nestedVars
        => (Safe /\ Planned \subseteq Calls)'
  <2> SUFFICES ASSUME Safe, Planned \subseteq Calls, [NestedNext]_nestedVars
               PROVE  Safe' /\ Planned' \subseteq Calls
    OBVIOUS
  <2>1. Planned' = Planned
    BY DEF NestedNext, nestedVars, Planned
  <2>2. CASE [Next]_vars
    BY <2>1, <2>2, StepTyping, StepCleaning, StepFlight, StepAnswers, StepWindows DEF Safe
  <2>3. CASE ContextsEnd
    BY <2>1, <2>3, ContextsEndSafely
  <2> QED
    BY <2>1, <2>2, <2>3, NestedStep
<1> QED
  BY <1>1, <1>2, PTL DEF NestedSpec

(* Evaluators that call the engine never make two evaluations of one key   *)
(* run at once, nor a waiter wait for nobody: what can hold a call up are  *)
(* evaluators.                                                             *)
THEOREM NestedFlightIsSingle == NestedSpec => [](SingleFlight /\ NoLostWakeup)
<1>1. Safe => SingleFlight /\ NoLostWakeup
  BY DEF Safe, Flight
<1> QED
  BY <1>1, NestedSafety, PTL

(* Nor do they make a replay one that nobody was given, a failure an       *)
(* allow, or a failed decision recorded.                                   *)
THEOREM NestedAnswersAreOriginals ==
  NestedSpec => [](ReplayIsOriginal /\ OnlySuccessRecorded /\ FailureNeverAllows)
<1>1. Safe => ReplayIsOriginal /\ OnlySuccessRecorded /\ FailureNeverAllows
  BY DEF Safe, Answers, Locals
<1> QED
  BY <1>1, NestedSafety, PTL

(* And the engine still implements the ledger: whatever evaluators nest,   *)
(* no caller can tell, but by waiting.                                     *)
THEOREM NestedImplementsLedger == NestedSpec => ImplementsLedger
<1>1. NestedInit => Ledger!Init
  BY InitMap DEF NestedInit
<1>2. /\ Safe /\ Planned \subseteq Calls /\ [NestedNext]_nestedVars
      => [Ledger!Next]_(Ledger!vars)
  <2> SUFFICES ASSUME Safe, Planned \subseteq Calls, [NestedNext]_nestedVars
               PROVE  [Ledger!Next]_(Ledger!vars)
    OBVIOUS
  <2>1. CASE [Next]_vars
    BY <2>1, StepMap DEF Safe
  <2>2. CASE ContextsEnd
    BY <2>2, QuietMap DEF Safe, ContextsEnd, recorded
  <2> QED
    BY <2>1, <2>2, NestedStep
<1> QED
  BY <1>1, <1>2, NestedSafety, PTL DEF NestedSpec, ImplementsLedger, Ledger!Spec

=============================================================================
