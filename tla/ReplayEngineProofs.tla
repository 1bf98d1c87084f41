------------------------- MODULE ReplayEngineProofs -------------------------
(***************************************************************************)
(* Proofs about ReplayEngine, for any number of calls, keys and payloads   *)
(* and any caps.                                                           *)
(***************************************************************************)
EXTENDS ReplayEngineProperties, OperatorProofs

(* Past its start a call has a fingerprint.                                *)
HasFingerprint ==
  \A c \in Calls : pc[c] \notin {"start", "returned"} => req[c].fp \in Fingerprints

Typing == TypeOK /\ HasFingerprint

(* The empty cache is a function without keys.                             *)
LEMMA InitTyping == Init => Typing
<1> SUFFICES ASSUME Init PROVE Typing
  OBVIOUS
<1>1. DOMAIN checks = {} /\ DOMAIN pending = {}
  BY DEF Init, EmptyCache
<1>2. NoResult \in Result
  BY DEF NoResult, EmptyCheck, Result, Check, Decision, DecisionReview
<1>3. <<>> \in Seq(Check) /\ <<>> \in Seq(Keys \X Fingerprints)
  BY EmptySeq
<1> QED
  BY <1>1, <1>2, <1>3 DEF Init, Typing, TypeOK, HasFingerprint, Steps

(* What a call asks.                                                       *)
LEMMA RequestFields ==
  ASSUME TypeOK, NEW c \in Calls
  PROVE  req[c].key \in Keys \cup {NoKey} /\ req[c].fp \in Fingerprints \cup {Unserializable}
BY RequestsAssumption DEF TypeOK, Request

(* Every way a call's check changes keeps it a check.                      *)
LEMMA CheckTyping ==
  /\ EmptyCheck \in Check
  /\ FailedReplay \in Result
  /\ \A c \in Calls, decision \in Decision, flagged \in BOOLEAN :
       CheckOf(c, decision, flagged) \in Check
  /\ \A check \in Check : Withdrawn(check) \in Result
  /\ \A decision \in Decision : ReviewUnlessBlocked(decision) \in Decision
  /\ \A check \in Check, outcome \in {"none", "ok", "error", "panic"} :
       [outcome |-> outcome, check |-> check] \in Result
BY DEF EmptyCheck, FailedReplay, CheckOf, Withdrawn, WithdrawAllow, ReviewUnlessBlocked,
       Check, Result, Decision, DecisionAllow, DecisionReview, DecisionBlock

(* What recording a decision with a key does to the cache: it has the new  *)
(* result, and every other result it still has is unchanged.               *)
LEMMA RecordCaches ==
  ASSUME NEW c \in Calls, NEW check, Keyed(c), Record(c, check)
  PROVE  /\ DOMAIN checks' \subseteq DOMAIN checks \cup {Key(c)}
         /\ \A k, f : Cached(checks', k, f) =>
              IF k = Key(c) /\ f = req[c].fp
              THEN checks'[k][f] = check
              ELSE Cached(checks, k, f) /\ checks'[k][f] = checks[k][f]
<1> DEFINE gone == Oldest(order, Overflow(entries, MaxEntries))
           k0 == Key(c)
           f0 == req[c].fp
           new == checks'
<1>1. new = Put(Discard(checks, gone), k0, f0, check)
  BY Zenon DEF Record
<1> HIDE DEF gone, k0, f0, new
<1>2. /\ DOMAIN new \subseteq DOMAIN checks \cup {k0}
      /\ \A k, f : Cached(new, k, f) =>
           IF k = k0 /\ f = f0
           THEN new[k][f] = check
           ELSE Cached(checks, k, f) /\ new[k][f] = checks[k][f]
  BY <1>1, ReplacementCaches
<1> QED
  BY <1>2 DEF k0, f0, new

(* Recording keeps the shapes of the cache, its FIFO and the lists.        *)
LEMMA RecordTyping ==
  ASSUME Typing, NEW c \in Calls, pc[c] = "commit", NEW check \in Check, Record(c, check)
  PROVE  /\ DOMAIN checks' \subseteq Keys
         /\ \A k \in DOMAIN checks' :
              /\ DOMAIN checks'[k] \subseteq Fingerprints
              /\ \A f \in DOMAIN checks'[k] : checks'[k][f] \in Check
         /\ order' \in Seq(Keys \X Fingerprints)
         /\ entries' \in Nat
         /\ history' \in Seq(Check) /\ journal' \in Seq(Check) /\ ledger' \in Seq(Check)
<1> USE CapsAssumption
<1>1. history' \in Seq(Check) /\ journal' \in Seq(Check)
  BY AppendBoundedType, AppendProperties DEF Record, Typing, TypeOK
<1>2. CASE ~Keyed(c)
  BY <1>1, <1>2 DEF Record, Typing, TypeOK
<1>3. CASE Keyed(c)
  <2> DEFINE evicted == Overflow(entries, MaxEntries)
  <2>1. Key(c) \in Keys /\ req[c].fp \in Fingerprints
    BY <1>3, RequestFields DEF Typing, HasFingerprint, Keyed, Key
  <2>2. entries \in Nat /\ evicted \in 0 .. entries
    BY OverflowMakesRoom DEF Typing, TypeOK
  <2>3. entries' \in Nat
    BY <1>3, <2>2 DEF Record
  <2>4. \A k, f : Cached(checks', k, f) => f \in Fingerprints /\ checks'[k][f] \in Check
    <3> TAKE k, f
    <3>1. Cached(checks, k, f) => f \in Fingerprints /\ checks[k][f] \in Check
      BY DEF Typing, TypeOK, Cached
    <3>2. Cached(checks', k, f) =>
            IF k = Key(c) /\ f = req[c].fp
            THEN checks'[k][f] = check
            ELSE Cached(checks, k, f) /\ checks'[k][f] = checks[k][f]
      <4>1. \A kk, ff : Cached(checks', kk, ff) =>
              IF kk = Key(c) /\ ff = req[c].fp
              THEN checks'[kk][ff] = check
              ELSE Cached(checks, kk, ff) /\ checks'[kk][ff] = checks[kk][ff]
        BY <1>3, RecordCaches
      <4> QED
        BY <4>1
    <3> QED
      BY <2>1, <3>1, <3>2
  <2>5. DOMAIN checks' \subseteq Keys
    BY <1>3, <2>1, RecordCaches DEF Typing, TypeOK
  <2>6. order' \in Seq(Keys \X Fingerprints)
    <3>1. order' = Append(WithoutOldest(order, evicted), <<Key(c), req[c].fp>>)
      BY <1>3, Zenon DEF Record
    <3>2. order \in Seq(Keys \X Fingerprints) /\ Len(order) \in Nat
      BY LenProperties DEF Typing, TypeOK
    <3>3. \A i \in evicted + 1 .. Len(order) : order[i] \in Keys \X Fingerprints
      BY <2>2, <3>2
    <3> HIDE DEF evicted
    <3>4. WithoutOldest(order, evicted) \in Seq(Keys \X Fingerprints)
      BY <2>2, <3>2, <3>3, SubSeqProperties DEF WithoutOldest
    <3> QED
      BY <2>1, <3>1, <3>4, AppendProperties
  <2>7. ledger' \in Seq(Check)
    <3>1. ledger' = Append(ledger, check)
      BY <1>3, Zenon DEF Record
    <3> QED
      BY <3>1, AppendProperties DEF Typing, TypeOK
  <2> QED
    BY <1>1, <2>3, <2>4, <2>5, <2>6, <2>7 DEF Cached
<1> QED
  BY <1>2, <1>3

(* Every step keeps the shapes: Commit by RecordTyping, the others touch   *)
(* the locals of one goroutine and at most the pending map.                *)
LEMMA StepTyping == Typing /\ [Next]_vars => Typing'
<1> SUFFICES ASSUME Typing, [Next]_vars PROVE Typing'
  OBVIOUS
<1> USE DEF Typing, TypeOK, HasFingerprint
<1>1. ASSUME NEW c \in Calls, Cancel(c) PROVE Typing'
  BY <1>1 DEF Cancel, shared, recorded
<1>2. ASSUME NEW c \in Calls, NEW res \in Result, Return(c, res),
             UNCHANGED <<shared, req, conflict, seen, cancelled, recorded>>
      PROVE  Typing'
  BY <1>2 DEF Return, Goto, Steps, shared, recorded
<1>3. ASSUME NEW c \in Calls, Start(c) PROVE Typing'
  <2>1. CASE Return(c, FailedReplay)
    BY <1>2, <1>3, <2>1, CheckTyping DEF Start
  <2>2. CASE /\ req[c].fp # Unserializable
             /\ Goto(c, "lookup") /\ UNCHANGED result
    BY <1>3, <2>2, RequestFields DEF Start, Goto, Steps, shared, recorded
  <2> QED
    BY <1>3, <2>1, <2>2 DEF Start
<1>4. ASSUME NEW c \in Calls, LookupCancelled(c) PROVE Typing'
  BY <1>2, <1>4, CheckTyping DEF LookupCancelled
<1>5. ASSUME NEW c \in Calls, Replay(c) PROVE Typing'
  <2>1. checks[Key(c)][req[c].fp] \in Check
    BY <1>5 DEF Replay, HasPrior, Cached
  <2>2. [outcome |-> "ok", check |-> checks[Key(c)][req[c].fp]] \in Result
    BY <2>1, CheckTyping
  <2> QED
    BY <1>2, <1>5, <2>2 DEF Replay
<1>6. ASSUME NEW c \in Calls, Wait(c) PROVE Typing'
  BY <1>6 DEF Wait, Goto, Steps, shared, recorded
<1>7. ASSUME NEW c \in Calls, Claim(c) PROVE Typing'
  <2>1. Keyed(c) => Key(c) \in Keys
    BY RequestFields DEF Keyed, Key
  <2>2. DOMAIN pending' \subseteq Keys /\ \A k \in DOMAIN pending' : pending'[k] \in Calls
    <3>1. CASE Keyed(c)
      <4>1. pending' = [k \in DOMAIN pending \cup {Key(c)} |->
                          IF k = Key(c) THEN c ELSE pending[k]]
        BY <1>7, <3>1 DEF Claim
      <4> QED
        BY <2>1, <3>1, <4>1
    <3>2. CASE ~Keyed(c)
      BY <1>7, <3>2 DEF Claim
    <3> QED
      BY <3>1, <3>2
  <2>3. conflict' \in [Calls -> BOOLEAN]
    BY <1>7 DEF Claim, HasResults
  <2>4. seen' \in [Calls -> Seq(Check)]
    BY <1>7, EmptySeq DEF Claim
  <2>5. pc' \in [Calls -> Steps] /\ HasFingerprint'
    BY <1>7 DEF Claim, Goto, Steps
  <2> QED
    BY <1>7, <2>2, <2>3, <2>4, <2>5 DEF Claim, recorded
<1>8. ASSUME NEW c \in Calls, Wake(c) PROVE Typing'
  BY <1>8 DEF Wake, Goto, Steps, shared, recorded
<1>9. ASSUME NEW c \in Calls, AbandonWait(c) PROVE Typing'
  BY <1>2, <1>9, CheckTyping DEF AbandonWait
<1>10. ASSUME NEW c \in Calls, NEW res \in Result, pc[c] \in {"evaluating", "commit"},
              result' = [result EXCEPT ![c] = res], Leave(c),
              UNCHANGED <<shared, req, conflict, cancelled, recorded>>
       PROVE  Typing'
  BY <1>10, EmptySeq DEF Leave, Goto, Steps, shared, recorded
<1>11. ASSUME NEW c \in Calls, NEW decision \in Decision, EvaluationFails(c, decision)
       PROVE  Typing'
  BY <1>10, <1>11, CheckTyping DEF EvaluationFails
<1>12. ASSUME NEW c \in Calls, EvaluationPanics(c) PROVE Typing'
  BY <1>10, <1>12, CheckTyping DEF EvaluationPanics
<1>13. ASSUME NEW c \in Calls, NEW decision \in Decision, EvaluationOutlived(c, decision)
       PROVE  Typing'
  BY <1>10, <1>13, CheckTyping DEF EvaluationOutlived
<1>14. ASSUME NEW c \in Calls, NEW decision \in Decision, EvaluationSucceeds(c, decision)
       PROVE  Typing'
  <2> DEFINE final == IF conflict[c] THEN ReviewUnlessBlocked(decision) ELSE decision
             res == [outcome |-> "none", check |-> CheckOf(c, final, conflict[c])]
  <2>1. final \in Decision
    BY CheckTyping
  <2>2. res \in Result
    BY <2>1, CheckTyping
  <2>3. result' = [result EXCEPT ![c] = res]
    BY <1>14 DEF EvaluationSucceeds
  <2> HIDE DEF res
  <2> QED
    BY <1>14, <2>2, <2>3 DEF EvaluationSucceeds, Goto, Steps, shared, recorded
<1>15. ASSUME NEW c \in Calls, CommitCancelled(c) PROVE Typing'
  <2>1. result[c].check \in Check
    BY DEF Result
  <2> QED
    BY <1>10, <1>15, <2>1, CheckTyping DEF CommitCancelled
<1>16. ASSUME NEW c \in Calls, Commit(c) PROVE Typing'
  <2>1. result[c].check \in Check
    BY DEF Result
  <2>2. [result[c] EXCEPT !.outcome = "ok"] \in Result
    BY <2>1 DEF Result
  <2>3. result' \in [Calls -> Result]
    BY <1>16, <2>2 DEF Commit
  <2>4. pc' \in [Calls -> Steps] /\ seen' \in [Calls -> Seq(Check)] /\ HasFingerprint'
    BY <1>16, EmptySeq DEF Commit, Leave, Goto, Steps
  <2>5. Record(c, result[c].check) /\ pc[c] = "commit"
    BY <1>16 DEF Commit
  <2>6. /\ DOMAIN checks' \subseteq Keys
        /\ \A k \in DOMAIN checks' :
             /\ DOMAIN checks'[k] \subseteq Fingerprints
             /\ \A f \in DOMAIN checks'[k] : checks'[k][f] \in Check
        /\ order' \in Seq(Keys \X Fingerprints)
        /\ entries' \in Nat
        /\ history' \in Seq(Check) /\ journal' \in Seq(Check) /\ ledger' \in Seq(Check)
    BY <2>1, <2>5, RecordTyping
  <2> QED
    BY <1>16, <2>3, <2>4, <2>6 DEF Commit
<1>17. ASSUME NEW c \in Calls, Cleanup(c) PROVE Typing'
  <2>1. pc' \in [Calls -> Steps]
    BY <1>17 DEF Cleanup, Steps
  <2>2. HasFingerprint'
    BY <1>17 DEF Cleanup
  <2> QED
    BY <1>17, <2>1, <2>2 DEF Cleanup, recorded
<1>18. CASE UNCHANGED vars
  BY <1>18 DEF vars
<1> QED
  BY <1>1, <1>3, <1>4, <1>5, <1>6, <1>7, <1>8, <1>9, <1>11, <1>12, <1>13, <1>14, <1>15,
     <1>16, <1>17, <1>18 DEF Next, Proceed, Evaluation, AllReturned

(* Every reachable state has the shapes TypeOK gives its variables, and a  *)
(* call past its start has a fingerprint.                                  *)
THEOREM TypingInvariant == Spec => []Typing
<1> QED
  BY InitTyping, StepTyping, PTL DEF Spec

(* Type correctness, for any calls, keys, payloads and caps.               *)
THEOREM TypeCorrect == Spec => []TypeOK
<1>1. Typing => TypeOK
  BY DEF Typing
<1> QED
  BY <1>1, TypingInvariant, PTL

-----------------------------------------------------------------------------
(* Who works on a key and who waits for it.                                *)
Flight == SingleFlight /\ NoLostWakeup

(* A step that leaves the pending map alone, makes no call with a key      *)
(* start or stop working on it, and lets a call wait only for a key that   *)
(* has an owner.                                                           *)
LEMMA QuietFlight ==
  ASSUME Typing, Flight, UNCHANGED <<pending, req>>,
         \A d \in Calls : Keyed(d) => (InFlight(d)' <=> InFlight(d)),
         \A d \in Calls : pc'[d] = "waiting" => pc[d] = "waiting" \/ Key(d) \in DOMAIN pending
  PROVE  Flight'
<1>1. \A d \in Calls : Keyed(d)' <=> Keyed(d)
  BY DEF Keyed, Key
<1>2. \A d \in Calls : InFlight(d)' /\ Keyed(d)' =>
                        Key(d) \in DOMAIN pending' /\ pending'[Key(d)] = d
  BY <1>1 DEF Flight, SingleFlight, Key
<1>3. ASSUME NEW k \in DOMAIN pending' PROVE (InFlight(pending[k]) /\ Key(pending[k]) = k)'
  <2>1. k \in DOMAIN pending /\ pending[k] \in Calls /\ k \in Keys /\ pending' = pending /\ req' = req
    BY DEF Typing, TypeOK
  <2>2. InFlight(pending[k]) /\ Key(pending[k]) = k
    BY <2>1 DEF Flight, SingleFlight
  <2>3. Keyed(pending[k])
    BY <2>1, <2>2, NamesAssumption DEF Keyed
  <2> QED
    BY <2>1, <2>2, <2>3 DEF InFlight, Key
<1>4. NoLostWakeup'
  BY DEF Flight, NoLostWakeup, Key
<1>5. SingleFlight'
  BY <1>2, <1>3 DEF SingleFlight, Key
<1> QED
  BY <1>4, <1>5 DEF Flight

(* The claim gives a key that has no owner to the call that found it free. *)
LEMMA ClaimFlight ==
  ASSUME Typing, Flight, NEW c \in Calls, Claim(c)
  PROVE  Flight'
<1>1. CASE ~Keyed(c)
  <2>1. UNCHANGED <<pending, req>> /\ pc' = [pc EXCEPT ![c] = "evaluating"] /\ pc[c] = "lookup"
    BY <1>1 DEF Claim, Goto
  <2> QED
    BY <1>1, <2>1, QuietFlight DEF Typing, TypeOK, InFlight
<1>2. CASE Keyed(c)
  <2>1. /\ pending' = [k \in DOMAIN pending \cup {Key(c)} |-> IF k = Key(c) THEN c ELSE pending[k]]
        /\ Key(c) \notin DOMAIN pending
        /\ pc[c] = "lookup" /\ pc' = [pc EXCEPT ![c] = "evaluating"] /\ req' = req
    BY <1>2 DEF Claim, Goto, KeyFree
  <2>2. \A d \in Calls : d # c => (InFlight(d)' <=> InFlight(d))
    BY <2>1 DEF InFlight, Typing, TypeOK
  <2>3. InFlight(c)' /\ ~InFlight(c) /\ \A d \in Calls : Key(d)' = Key(d) /\ (Keyed(d)' <=> Keyed(d))
    BY <2>1 DEF InFlight, Typing, TypeOK, Key, Keyed
  <2>4. SingleFlight'
    <3>1. ASSUME NEW d \in Calls, InFlight(d)', Keyed(d)
          PROVE  Key(d) \in DOMAIN pending' /\ pending'[Key(d)] = d
      BY <2>1, <2>2, <3>1 DEF Flight, SingleFlight
    <3>2. ASSUME NEW k \in DOMAIN pending'
          PROVE  (InFlight(pending[k]) /\ Key(pending[k]) = k)'
      <4>1. CASE k = Key(c)
        BY <2>1, <2>3, <4>1 DEF InFlight, Key
      <4>2. CASE k # Key(c)
        <5>1. k \in DOMAIN pending /\ pending'[k] = pending[k] /\ pending[k] \in Calls
          BY <2>1, <4>2 DEF Typing, TypeOK
        <5>2. InFlight(pending[k]) /\ Key(pending[k]) = k
          BY <5>1 DEF Flight, SingleFlight
        <5> QED
          BY <2>1, <2>2, <2>3, <5>1, <5>2 DEF InFlight, Key
      <4> QED
        BY <4>1, <4>2
    <3> QED
      BY <2>1, <2>3, <3>1, <3>2 DEF SingleFlight, Key
  <2>5. NoLostWakeup'
    BY <2>1, <2>3 DEF Flight, NoLostWakeup, Typing, TypeOK, Key
  <2> QED
    BY <2>4, <2>5 DEF Flight
<1> QED
  BY <1>1, <1>2

(* The release takes the key from its owner and leaves nobody waiting.     *)
LEMMA CleanupFlight ==
  ASSUME Typing, Flight, NEW c \in Calls, Cleanup(c), Keyed(c)
  PROVE  Flight'
<1>1. /\ pending' = [k \in DOMAIN pending \ {Key(c)} |-> pending[k]]
      /\ pc[c] = "cleanup" /\ req' = req
      /\ \A d \in Calls : pc'[d] = IF d = c THEN "returned"
                                  ELSE IF pc[d] = "waiting" /\ Key(d) = Key(c) THEN "woken"
                                  ELSE pc[d]
  BY DEF Cleanup
<1>2. \A d \in Calls : d # c => (InFlight(d)' <=> InFlight(d))
  BY <1>1 DEF InFlight
<1>3. ~InFlight(c)' /\ pending[Key(c)] = c /\ Key(c) \in DOMAIN pending
  BY <1>1 DEF InFlight, Flight, SingleFlight
<1>4. SingleFlight'
  <2>1. ASSUME NEW d \in Calls, InFlight(d)', Keyed(d)
        PROVE  Key(d) \in DOMAIN pending' /\ pending'[Key(d)] = d
    <3>1. d # c /\ InFlight(d)
      BY <1>2, <1>3, <2>1
    <3>2. Key(d) \in DOMAIN pending /\ pending[Key(d)] = d
      BY <2>1, <3>1 DEF Flight, SingleFlight
    <3> QED
      BY <1>1, <1>3, <3>1, <3>2
  <2>2. ASSUME NEW k \in DOMAIN pending'
        PROVE  (InFlight(pending[k]) /\ Key(pending[k]) = k)'
    <3>1. k \in DOMAIN pending /\ pending'[k] = pending[k] /\ pending[k] \in Calls /\ k # Key(c)
      BY <1>1 DEF Typing, TypeOK
    <3>2. InFlight(pending[k]) /\ Key(pending[k]) = k
      BY <3>1 DEF Flight, SingleFlight
    <3>3. pending[k] # c
      BY <3>1, <3>2
    <3> QED
      BY <1>1, <1>2, <3>1, <3>2, <3>3 DEF InFlight, Key
  <2> QED
    BY <1>1, <2>1, <2>2 DEF SingleFlight, Keyed, Key
<1>5. NoLostWakeup'
  <2> SUFFICES ASSUME NEW d \in Calls, pc'[d] = "waiting" PROVE Key(d) \in DOMAIN pending'
    BY <1>1 DEF NoLostWakeup, Key
  <2>1. pc[d] = "waiting" /\ Key(d) # Key(c)
    BY <1>1
  <2> QED
    BY <1>1, <2>1 DEF Flight, NoLostWakeup
<1> QED
  BY <1>4, <1>5 DEF Flight

(* A call without a key that claims, fails, records or panics owns nothing *)
(* to give up: it goes to "returned" without the release.                  *)
LEMMA LeaveFlight ==
  ASSUME Typing, Flight, NEW c \in Calls, pc[c] \in {"evaluating", "commit"}, Leave(c),
         UNCHANGED <<pending, req>>
  PROVE  Flight'
<1>1. pc' = [pc EXCEPT ![c] = IF Keyed(c) THEN "cleanup" ELSE "returned"]
  BY DEF Leave, Goto
<1>2. \A d \in Calls : Keyed(d) => (InFlight(d)' <=> InFlight(d))
  BY <1>1 DEF InFlight, Typing, TypeOK
<1>3. \A d \in Calls : pc'[d] = "waiting" => pc[d] = "waiting"
  BY <1>1 DEF Typing, TypeOK
<1> QED
  BY <1>2, <1>3, QuietFlight

(* Only a call that claimed a key has one to release.                      *)
Cleaning == \A c \in Calls : pc[c] = "cleanup" => Keyed(c)

(* Leave sends no other call to the release.                               *)
LEMMA StepCleaning == Typing /\ Cleaning /\ [Next]_vars => Cleaning'
<1> SUFFICES ASSUME Typing, Cleaning, [Next]_vars, NEW d \in Calls, pc'[d] = "cleanup"
             PROVE  Keyed(d)'
  BY DEF Cleaning
<1>1. req' = req
  BY DEF Next, Proceed, Evaluation, AllReturned, vars, Cancel, Start, LookupCancelled, Replay,
         Wait, Claim, Wake, AbandonWait, EvaluationSucceeds, EvaluationOutlived,
         EvaluationFails, EvaluationPanics, CommitCancelled, Commit, Cleanup
<1>2. pc[d] = "cleanup" => Keyed(d)
  BY DEF Cleaning
<1>3. ASSUME NEW c \in Calls, Leave(c) PROVE Keyed(d)
  BY <1>2, <1>3 DEF Leave, Goto, Typing, TypeOK
<1>4. ASSUME NEW c \in Calls, Cleanup(c) PROVE Keyed(d)
  BY <1>2, <1>4 DEF Cleanup
<1>5. ASSUME NEW c \in Calls, NEW step \in Steps \ {"cleanup"}, Goto(c, step) PROVE Keyed(d)
  BY <1>2, <1>5 DEF Goto, Typing, TypeOK
<1>6. ASSUME UNCHANGED pc PROVE Keyed(d)
  BY <1>2, <1>6
<1>7. Keyed(d)
  BY <1>3, <1>4, <1>5, <1>6
     DEF Next, Proceed, Evaluation, AllReturned, vars, Cancel, Start, LookupCancelled, Replay,
         Wait, Claim, Wake, AbandonWait, EvaluationSucceeds, EvaluationOutlived,
         EvaluationFails, EvaluationPanics, CommitCancelled, Commit, Return, Steps
<1> QED
  BY <1>1, <1>7 DEF Keyed, Key

(* No step breaks the single flight or loses a wakeup.                     *)
LEMMA StepFlight == Typing /\ Cleaning /\ Flight /\ [Next]_vars => Flight'
<1> SUFFICES ASSUME Typing, Cleaning, Flight, [Next]_vars PROVE Flight'
  OBVIOUS
<1> DEFINE Idle == {"start", "lookup", "waiting", "woken"}
<1>1. ASSUME NEW c \in Calls, NEW step, UNCHANGED <<pending, req>>, Goto(c, step),
             \/ pc[c] \in Idle /\ step \in {"lookup", "woken", "returned"}
             \/ step = "waiting" /\ pc[c] \in Idle /\ Key(c) \in DOMAIN pending
             \/ step = "commit" /\ pc[c] = "evaluating"
      PROVE  Flight'
  <2>1. pc' = [pc EXCEPT ![c] = step]
    BY <1>1 DEF Goto
  <2>2. \A d \in Calls : InFlight(d)' <=> InFlight(d)
    BY <1>1, <2>1 DEF InFlight, Typing, TypeOK
  <2>3. \A d \in Calls : pc'[d] = "waiting" => pc[d] = "waiting" \/ Key(d) \in DOMAIN pending
    BY <1>1, <2>1 DEF Typing, TypeOK
  <2> QED
    BY <1>1, <2>2, <2>3, QuietFlight
<1>2. ASSUME NEW c \in Calls, Cancel(c) PROVE Flight'
  BY <1>2, QuietFlight DEF Cancel, shared, InFlight
<1>3. ASSUME NEW c \in Calls, Start(c) PROVE Flight'
  <2>1. /\ UNCHANGED <<pending, req>>
        /\ pc[c] = "start" /\ (Goto(c, "lookup") \/ Goto(c, "returned"))
    BY <1>3 DEF Start, Return, shared
  <2> QED
    BY <1>1, <2>1
<1>4. ASSUME NEW c \in Calls, LookupCancelled(c) PROVE Flight'
  <2>1. /\ UNCHANGED <<pending, req>>
        /\ pc[c] = "lookup" /\ Goto(c, "returned")
    BY <1>4 DEF LookupCancelled, Return, shared
  <2> QED
    BY <1>1, <2>1
<1>5. ASSUME NEW c \in Calls, Replay(c) PROVE Flight'
  <2>1. /\ UNCHANGED <<pending, req>>
        /\ pc[c] = "lookup" /\ Goto(c, "returned")
    BY <1>5 DEF Replay, Return, shared
  <2> QED
    BY <1>1, <2>1
<1>6. ASSUME NEW c \in Calls, Wait(c) PROVE Flight'
  <2>1. /\ UNCHANGED <<pending, req>>
        /\ pc[c] = "lookup" /\ Goto(c, "waiting") /\ Key(c) \in DOMAIN pending
    BY <1>6 DEF Wait, KeyFree, shared
  <2> QED
    BY <1>1, <2>1
<1>7. ASSUME NEW c \in Calls, Wake(c) PROVE Flight'
  <2>1. /\ UNCHANGED <<pending, req>>
        /\ pc[c] = "woken" /\ Goto(c, "lookup")
    BY <1>7 DEF Wake, shared
  <2> QED
    BY <1>1, <2>1
<1>8. ASSUME NEW c \in Calls, AbandonWait(c) PROVE Flight'
  <2>1. /\ UNCHANGED <<pending, req>>
        /\ pc[c] \in {"waiting", "woken"} /\ Goto(c, "returned")
    BY <1>8 DEF AbandonWait, Return, shared
  <2> QED
    BY <1>1, <2>1
<1>9. ASSUME NEW c \in Calls, NEW decision \in Decision, EvaluationSucceeds(c, decision)
      PROVE  Flight'
  <2>1. /\ UNCHANGED <<pending, req>>
        /\ pc[c] = "evaluating" /\ Goto(c, "commit")
    BY <1>9 DEF EvaluationSucceeds, shared
  <2> QED
    BY <1>1, <2>1
<1>10. ASSUME NEW c \in Calls, NEW decision, EvaluationFails(c, decision) PROVE Flight'
  <2>1. pc[c] \in {"evaluating", "commit"} /\ Leave(c) /\ UNCHANGED <<pending, req>>
    BY <1>10 DEF EvaluationFails, shared
  <2> QED
    BY <2>1, LeaveFlight
<1>11. ASSUME NEW c \in Calls, EvaluationPanics(c) PROVE Flight'
  <2>1. pc[c] \in {"evaluating", "commit"} /\ Leave(c) /\ UNCHANGED <<pending, req>>
    BY <1>11 DEF EvaluationPanics, shared
  <2> QED
    BY <2>1, LeaveFlight
<1>12. ASSUME NEW c \in Calls, NEW decision, EvaluationOutlived(c, decision) PROVE Flight'
  <2>1. pc[c] \in {"evaluating", "commit"} /\ Leave(c) /\ UNCHANGED <<pending, req>>
    BY <1>12 DEF EvaluationOutlived, shared
  <2> QED
    BY <2>1, LeaveFlight
<1>13. ASSUME NEW c \in Calls, CommitCancelled(c) PROVE Flight'
  <2>1. pc[c] \in {"evaluating", "commit"} /\ Leave(c) /\ UNCHANGED <<pending, req>>
    BY <1>13 DEF CommitCancelled, shared
  <2> QED
    BY <2>1, LeaveFlight
<1>14. ASSUME NEW c \in Calls, Commit(c) PROVE Flight'
  <2>1. pc[c] \in {"evaluating", "commit"} /\ Leave(c) /\ UNCHANGED <<pending, req>>
    BY <1>14 DEF Commit
  <2> QED
    BY <2>1, LeaveFlight
<1>15. ASSUME NEW c \in Calls, Cleanup(c) PROVE Flight'
  <2>1. Keyed(c)
    BY <1>15 DEF Cleaning, Cleanup
  <2> QED
    BY <1>15, <2>1, CleanupFlight
<1>16. CASE UNCHANGED vars
  BY <1>16, QuietFlight DEF vars, InFlight
<1> QED
  BY <1>2, <1>3, <1>4, <1>5, <1>6, <1>7, <1>8, <1>9, <1>10, <1>11, <1>12, <1>13, <1>14,
     <1>15, <1>16, ClaimFlight DEF Next, Proceed, Evaluation, AllReturned

(* Nobody owns or waits for a key before the first step.                   *)
LEMMA InitFlight == Init => Flight /\ Cleaning
<1> SUFFICES ASSUME Init PROVE Flight /\ Cleaning
  OBVIOUS
<1>1. DOMAIN pending = {} /\ \A c \in Calls : pc[c] = "start"
  BY DEF Init
<1> QED
  BY <1>1 DEF Flight, Cleaning, SingleFlight, NoLostWakeup, InFlight

(* At most one call at a time works on a key, under the channel its        *)
(* release will close, however many calls, keys and cancellations.         *)
THEOREM FlightIsSingle == Spec => []SingleFlight
<1>1. Flight => SingleFlight
  BY DEF Flight
<1> QED
  BY <1>1, TypingInvariant, InitFlight, StepFlight, StepCleaning, PTL DEF Spec

(* A waiting call always has an owner left to wake it.                     *)
THEOREM WakeupsArrive == Spec => []NoLostWakeup
<1>1. Flight => NoLostWakeup
  BY DEF Flight
<1> QED
  BY <1>1, TypingInvariant, InitFlight, StepFlight, StepCleaning, PTL DEF Spec

-----------------------------------------------------------------------------
(* Why no answer is ever one that its evaluating caller did not get: the   *)
(* cache holds settled answers of the pair it files them under, and a      *)
(* settled answer never changes.                                           *)
Settled(c) == pc[c] \in {"cleanup", "returned"}

Recorded(check) ==
  check.id \in Calls /\ Settled(check.id) /\ result[check.id] = [outcome |-> "ok", check |-> check]

(* An outcome is there only once the result is settled.                    *)
OutcomeSettled == \A c \in Calls : result[c].outcome # "none" => Settled(c)

(* What a call is about to record is its own.                              *)
CommitOwn == \A c \in Calls : pc[c] = "commit" => result[c].check.id = c

CacheSound ==
  \A k, f : Cached(checks, k, f) =>
    Recorded(checks[k][f]) /\ Pair(checks[k][f].id) = <<k, f>>

Locals == OutcomeSettled /\ CommitOwn /\ ReplayIsOriginal /\ FailureNeverAllows
Answers == Locals /\ OnlySuccessRecorded /\ CacheSound

(* A call that sets its result leaves the answers of the others alone.     *)
LEMMA OneAnswer ==
  ASSUME Typing, Locals, NEW c \in Calls, NEW res \in Result, ~Settled(c),
         res.outcome # "none" => Settled(c)', pc'[c] = "commit" => res.check.id = c,
         result' = [result EXCEPT ![c] = res], req' = req,
         \A d \in Calls : d # c => pc'[d] = pc[d],
         res.outcome \in {"error", "panic"} => res.check.decision # DecisionAllow,
         res.outcome = "ok" =>
           /\ res.check.id \in Calls
           /\ res.check.id # c => /\ Keyed(c) /\ Pair(res.check.id) = Pair(c)
                                 /\ result[res.check.id] = res
  PROVE  Locals' /\ \A check : Recorded(check) => Recorded(check)'
<1>1. result'[c] = res /\ \A d \in Calls : d # c => result'[d] = result[d]
  BY DEF Typing, TypeOK
<1>2. \A d \in Calls : Settled(d) => d # c /\ Settled(d)'
  BY DEF Settled
<1>3. OutcomeSettled' /\ CommitOwn'
  BY <1>1 DEF Locals, OutcomeSettled, CommitOwn, Settled
<1>4. FailureNeverAllows'
  BY <1>1 DEF Locals, FailureNeverAllows
<1>5. ReplayIsOriginal'
  <2> SUFFICES ASSUME NEW d \in Calls, result'[d].outcome = "ok"
               PROVE  /\ result'[d].check.id \in Calls
                      /\ result'[d].check.id # d =>
                           /\ Keyed(d) /\ Pair(result'[d].check.id) = Pair(d)
                           /\ result'[result'[d].check.id] = result'[d]
    BY DEF ReplayIsOriginal, Pair, Keyed, Key
  <2>1. CASE d = c
    BY <1>1, <2>1
  <2>2. CASE d # c
    <3>1. result'[d] = result[d]
      BY <1>1, <2>2
    <3>2. /\ result[d].check.id \in Calls
          /\ result[d].check.id # d =>
               /\ Keyed(d) /\ Pair(result[d].check.id) = Pair(d)
               /\ result[result[d].check.id] = result[d]
      BY <3>1 DEF Locals, ReplayIsOriginal
    <3>3. result[d].check.id # d => result[d].check.id # c
      BY <3>1, <3>2 DEF Locals, OutcomeSettled
    <3> QED
      BY <1>1, <3>1, <3>2, <3>3
  <2> QED
    BY <2>1, <2>2
<1>6. ASSUME NEW check, Recorded(check) PROVE Recorded(check)'
  BY <1>1, <1>2, <1>6 DEF Recorded
<1> QED
  BY <1>3, <1>4, <1>5, <1>6 DEF Locals

(* Answers stay recorded answers while nothing is recorded or evicted.     *)
LEMMA RecordsStay ==
  ASSUME OnlySuccessRecorded, CacheSound, UNCHANGED <<checks, journal, req>>,
         \A check : Recorded(check) => Recorded(check)'
  PROVE  (OnlySuccessRecorded /\ CacheSound)'
<1>1. \A i \in 1 .. Len(journal) : Recorded(journal[i])
  BY DEF OnlySuccessRecorded, Recorded, Settled
<1>2. \A i \in 1 .. Len(journal) : LET check == journal[i] IN Recorded(check)'
  BY <1>1
<1>3. OnlySuccessRecorded'
  BY <1>2 DEF OnlySuccessRecorded, Recorded, Settled
<1>4. \A k, f : Cached(checks, k, f) =>
        LET check == checks[k][f] IN Recorded(check)' /\ Pair(check.id) = <<k, f>>
  BY DEF CacheSound
<1>5. CacheSound'
  BY <1>4 DEF CacheSound, Cached, Recorded, Settled, Pair, Key
<1> QED
  BY <1>3, <1>5

(* A step that settles no result changes no answer and no record.          *)
LEMMA QuietAnswers ==
  ASSUME Typing, Answers, UNCHANGED <<req, result, checks, journal>>,
         \A d \in Calls : Settled(d) => Settled(d)',
         \A d \in Calls : pc'[d] = "commit" => pc[d] = "commit"
  PROVE  Answers'
<1>1. \A check : Recorded(check) => Recorded(check)'
  BY DEF Recorded
<1>2. (OnlySuccessRecorded /\ CacheSound)'
  BY <1>1, RecordsStay DEF Answers
<1>3. Locals'
  BY DEF Answers, Locals, OutcomeSettled, CommitOwn, ReplayIsOriginal, FailureNeverAllows,
         Pair, Keyed, Key
<1> QED
  BY <1>2, <1>3 DEF Answers

(* A call that fails, panics or is cancelled reports no allow, and leaves  *)
(* no record.                                                              *)
LEMMA FailureAnswers ==
  ASSUME Typing, Answers, NEW c \in Calls, NEW res \in Result,
         pc[c] \notin {"cleanup", "returned"},
         result' = [result EXCEPT ![c] = res], Goto(c, "returned") \/ Leave(c),
         UNCHANGED <<checks, journal, req>>,
         res.outcome \in {"error", "panic"}, res.check.decision # DecisionAllow
  PROVE  Answers'
<1>1. ~Settled(c) /\ Settled(c)' /\ \A d \in Calls : d # c => pc'[d] = pc[d]
  BY DEF Settled, Goto, Leave, Typing, TypeOK
<1>2. Locals' /\ \A check : Recorded(check) => Recorded(check)'
  BY <1>1, OneAnswer DEF Answers, Settled
<1>3. (OnlySuccessRecorded /\ CacheSound)'
  BY <1>2, RecordsStay DEF Answers
<1> QED
  BY <1>2, <1>3 DEF Answers

(* A replay hands out what the cache has under the very pair of the call.  *)
LEMMA ReplayAnswers ==
  ASSUME Typing, Answers, NEW c \in Calls, Replay(c)
  PROVE  Answers'
<1> DEFINE check == checks[Key(c)][req[c].fp]
           res == [outcome |-> "ok", check |-> check]
<1>1. /\ pc[c] = "lookup" /\ Keyed(c) /\ Cached(checks, Key(c), req[c].fp)
      /\ result' = [result EXCEPT ![c] = res] /\ pc' = [pc EXCEPT ![c] = "returned"]
      /\ UNCHANGED <<checks, journal, req>>
  BY DEF Replay, Return, Goto, HasPrior, shared, recorded
<1>2. Recorded(check) /\ Pair(check.id) = Pair(c)
  BY <1>1 DEF Answers, CacheSound, Pair
<1>3. check \in Check
  BY <1>1 DEF Typing, TypeOK, Cached
<1> HIDE DEF check
<1>4. res \in Result /\ res.outcome = "ok" /\ res.check = check
  BY <1>3, CheckTyping
<1>5. check.id \in Calls /\ result[check.id] = res
  BY <1>2 DEF Recorded
<1> HIDE DEF res
<1>6. ~Settled(c) /\ Settled(c)' /\ \A d \in Calls : d # c => pc'[d] = pc[d]
  BY <1>1 DEF Settled, Typing, TypeOK
<1>7. res.outcome \notin {"error", "panic"}
  BY <1>4
<1>8. Locals' /\ \A any : Recorded(any) => Recorded(any)'
  BY <1>1, <1>2, <1>4, <1>5, <1>6, <1>7, OneAnswer DEF Answers, Settled
<1>9. (OnlySuccessRecorded /\ CacheSound)'
  BY <1>1, <1>8, RecordsStay DEF Answers
<1> QED
  BY <1>8, <1>9 DEF Answers

(* A commit records the caller's own answer under the caller's own pair.   *)
LEMMA CommitAnswers ==
  ASSUME Typing, Answers, NEW c \in Calls, Commit(c)
  PROVE  Answers'
<1>1. PICK check \in Check : check = result[c].check
  BY DEF Typing, TypeOK, Result
<1> DEFINE res == [outcome |-> "ok", check |-> check]
<1>2. /\ pc[c] = "commit" /\ Record(c, check) /\ req' = req /\ Leave(c)
      /\ result' = [result EXCEPT ![c] = res]
  <2>1. [result[c] EXCEPT !.outcome = "ok"] = res
    BY <1>1 DEF Typing, TypeOK, Result
  <2>2. result' = [result EXCEPT ![c] = [result[c] EXCEPT !.outcome = "ok"]]
    BY DEF Commit, Typing, TypeOK
  <2> HIDE DEF res
  <2> QED
    BY <1>1, <2>1, <2>2 DEF Commit
<1>3. res \in Result /\ res.outcome = "ok" /\ res.check = check
  BY CheckTyping
<1>4. check.id = c
  BY <1>1, <1>2 DEF Answers, Locals, CommitOwn
<1>5. ~Settled(c) /\ Settled(c)' /\ \A d \in Calls : d # c => pc'[d] = pc[d]
  BY <1>2 DEF Settled, Goto, Leave, Typing, TypeOK
<1>6. Recorded(check)'
  BY <1>2, <1>4, <1>5 DEF Recorded, Typing, TypeOK
<1> HIDE DEF res
<1>7. res.outcome \notin {"error", "panic"} /\ res.check.id = c
  BY <1>3, <1>4
<1>8. Locals' /\ \A any : Recorded(any) => Recorded(any)'
  BY <1>2, <1>3, <1>5, <1>7, OneAnswer DEF Answers, Settled
<1>9. OnlySuccessRecorded'
  <2>1. journal' = Append(journal, check) /\ journal \in Seq(Check)
    BY <1>2 DEF Record, Typing, TypeOK
  <2>2. \A i \in 1 .. Len(journal) : Recorded(journal[i])
    BY DEF Answers, OnlySuccessRecorded, Recorded, Settled
  <2>3. ASSUME NEW i \in 1 .. Len(journal')
        PROVE  LET any == journal'[i] IN Recorded(any) \/ any = check
    BY <2>1, <2>2, AppendProperties, LenProperties
  <2>4. ASSUME NEW any, Recorded(any) \/ any = check
        PROVE  /\ any.id \in Calls /\ pc'[any.id] \in {"cleanup", "returned"}
               /\ result'[any.id] = [outcome |-> "ok", check |-> any]
    BY <1>6, <1>8, <2>4 DEF Recorded, Settled
  <2> QED
    BY <2>3, <2>4 DEF OnlySuccessRecorded
<1>10. CacheSound'
  <2>1. ASSUME NEW k, NEW f, Cached(checks', k, f)
        PROVE  \E any : /\ checks'[k][f] = any /\ Pair(any.id) = <<k, f>>
                        /\ Recorded(any) \/ any = check
    <3>1. CASE ~Keyed(c)
      BY <1>2, <2>1, <3>1 DEF Record, Answers, CacheSound
    <3>2. CASE Keyed(c)
      <4>1. \A kk, ff : Cached(checks', kk, ff) =>
              IF kk = Key(c) /\ ff = req[c].fp
              THEN checks'[kk][ff] = check
              ELSE Cached(checks, kk, ff) /\ checks'[kk][ff] = checks[kk][ff]
        BY <1>2, <3>2, RecordCaches
      <4>2. CASE k = Key(c) /\ f = req[c].fp
        BY <1>4, <2>1, <4>1, <4>2 DEF Pair
      <4>3. CASE ~(k = Key(c) /\ f = req[c].fp)
        <5>1. Cached(checks, k, f) /\ checks'[k][f] = checks[k][f]
          BY <2>1, <4>1, <4>3
        <5> QED
          BY <5>1 DEF Answers, CacheSound
      <4> QED
        BY <4>2, <4>3
    <3> QED
      BY <3>1, <3>2
  <2>2. ASSUME NEW any, Recorded(any) \/ any = check
        PROVE  Recorded(any)' /\ Pair(any.id)' = Pair(any.id)
    BY <1>2, <1>6, <1>8, <2>2 DEF Pair, Key
  <2>3. ASSUME NEW k, NEW f, Cached(checks', k, f)
        PROVE  (Recorded(checks[k][f]) /\ Pair(checks[k][f].id) = <<k, f>>)'
    <3>1. PICK any : /\ checks'[k][f] = any /\ Pair(any.id) = <<k, f>>
                     /\ Recorded(any) \/ any = check
      BY <2>1, <2>3
    <3>2. Recorded(any)' /\ Pair(any.id)' = <<k, f>>
      BY <2>2, <3>1
    <3> QED
      BY <3>1, <3>2 DEF Recorded, Settled, Pair, Key
  <2> QED
    BY <2>3 DEF CacheSound, Cached
<1> QED
  BY <1>8, <1>9, <1>10 DEF Answers

(* No step makes an answer one that its evaluating caller did not get.     *)
LEMMA StepAnswers == Typing /\ Answers /\ [Next]_vars => Answers'
<1> SUFFICES ASSUME Typing, Answers, [Next]_vars PROVE Answers'
  OBVIOUS
<1>1. FailedReplay.outcome = "error" /\ FailedReplay.check.decision # DecisionAllow /\ FailedReplay \in Result
  BY CheckTyping DEF FailedReplay, EmptyCheck, DecisionReview, DecisionAllow
<1>2. ASSUME NEW check \in Check
      PROVE  /\ Withdrawn(check) \in Result /\ Withdrawn(check).outcome = "error"
             /\ Withdrawn(check).check.decision # DecisionAllow
  BY <1>2, CheckTyping DEF Withdrawn, WithdrawAllow, DecisionAllow, DecisionReview, Check
<1>3. ASSUME NEW c \in Calls, pc[c] \notin {"cleanup", "returned"}, Return(c, FailedReplay),
             UNCHANGED <<shared, req, conflict, seen, cancelled, recorded>>
      PROVE  Answers'
  <2>1. /\ result' = [result EXCEPT ![c] = FailedReplay] /\ Goto(c, "returned")
        /\ UNCHANGED <<checks, journal, req>>
    BY <1>3 DEF Return, shared, recorded
  <2>2. PICK res \in Result : res = FailedReplay
    BY <1>1
  <2>3. /\ res.outcome \in {"error", "panic"} /\ res.check.decision # DecisionAllow
        /\ result' = [result EXCEPT ![c] = res]
    BY <1>1, <2>1, <2>2
  <2>4. pc[c] \notin {"cleanup", "returned"} /\ (Goto(c, "returned") \/ Leave(c))
    BY <1>3, <2>1
  <2> QED
    BY <2>1, <2>3, <2>4, FailureAnswers
<1>4. ASSUME NEW c \in Calls, NEW res \in Result, pc[c] \in {"evaluating", "commit"},
             result' = [result EXCEPT ![c] = res], Leave(c),
             UNCHANGED <<shared, req, conflict, cancelled, recorded>>,
             res.outcome \in {"error", "panic"}, res.check.decision # DecisionAllow
      PROVE  Answers'
  <2>1. UNCHANGED <<checks, journal, req>> /\ pc[c] \notin {"cleanup", "returned"}
    BY <1>4 DEF shared, recorded
  <2> QED
    BY <1>4, <2>1, FailureAnswers
<1>5. ASSUME NEW c \in Calls, Cancel(c) PROVE Answers'
  BY <1>5, QuietAnswers DEF Cancel, shared, recorded, Settled
<1>6. ASSUME NEW c \in Calls, NEW step \in {"lookup", "waiting", "evaluating"},
             pc[c] \notin {"cleanup", "returned"}, Goto(c, step),
             UNCHANGED <<checks, req, result, journal>>
      PROVE  Answers'
  <2>1. pc' = [pc EXCEPT ![c] = step]
    BY <1>6 DEF Goto
  <2>2. /\ \A d \in Calls : Settled(d) => Settled(d)'
        /\ \A d \in Calls : pc'[d] = "commit" => pc[d] = "commit"
    BY <1>6, <2>1 DEF Settled, Typing, TypeOK
  <2> QED
    BY <1>6, <2>2, QuietAnswers
<1>7. ASSUME NEW c \in Calls, Start(c) PROVE Answers'
  <2>1. pc[c] = "start" /\ UNCHANGED <<shared, req, conflict, seen, cancelled, recorded>>
    BY <1>7 DEF Start
  <2>2. CASE Return(c, FailedReplay)
    BY <1>3, <2>1, <2>2
  <2>3. CASE Goto(c, "lookup") /\ UNCHANGED result
    BY <1>6, <2>1, <2>3 DEF shared, recorded
  <2> QED
    BY <1>7, <2>2, <2>3 DEF Start
<1>8. ASSUME NEW c \in Calls, LookupCancelled(c) PROVE Answers'
  BY <1>3, <1>8 DEF LookupCancelled
<1>9. ASSUME NEW c \in Calls, AbandonWait(c) PROVE Answers'
  BY <1>3, <1>9 DEF AbandonWait
<1>10. ASSUME NEW c \in Calls, Wait(c) \/ Claim(c) \/ Wake(c) PROVE Answers'
  BY <1>6, <1>10 DEF Wait, Claim, Wake, shared, recorded
<1>11. ASSUME NEW c \in Calls, NEW decision \in Decision \ {DecisionAllow},
              EvaluationFails(c, decision)
       PROVE  Answers'
  <2> DEFINE res == [outcome |-> "error", check |-> CheckOf(c, decision, FALSE)]
  <2>1. res \in Result /\ res.outcome = "error" /\ res.check.decision # DecisionAllow
    BY CheckTyping DEF CheckOf
  <2> QED
    BY <1>4, <1>11, <2>1 DEF EvaluationFails
<1>12. ASSUME NEW c \in Calls, EvaluationPanics(c) PROVE Answers'
  <2> DEFINE res == [outcome |-> "panic", check |-> EmptyCheck]
  <2>1. res \in Result /\ res.outcome = "panic" /\ res.check.decision # DecisionAllow
    BY CheckTyping DEF EmptyCheck, DecisionReview, DecisionAllow
  <2> QED
    BY <1>4, <1>12, <2>1 DEF EvaluationPanics
<1>13. ASSUME NEW c \in Calls, NEW decision \in Decision, EvaluationOutlived(c, decision)
       PROVE  Answers'
  <2>1. CheckOf(c, decision, FALSE) \in Check
    BY CheckTyping
  <2> QED
    BY <1>2, <1>4, <1>13, <2>1 DEF EvaluationOutlived
<1>14. ASSUME NEW c \in Calls, CommitCancelled(c) PROVE Answers'
  <2>1. result[c].check \in Check
    BY DEF Typing, TypeOK, Result
  <2> QED
    BY <1>2, <1>4, <1>14, <2>1 DEF CommitCancelled
<1>15. ASSUME NEW c \in Calls, NEW decision \in Decision, EvaluationSucceeds(c, decision)
       PROVE  Answers'
  <2> DEFINE final == IF conflict[c] THEN ReviewUnlessBlocked(decision) ELSE decision
             res == [outcome |-> "none", check |-> CheckOf(c, final, conflict[c])]
  <2>1. final \in Decision /\ conflict[c] \in BOOLEAN
    BY CheckTyping DEF Typing, TypeOK
  <2>2. res \in Result /\ res.outcome = "none" /\ res.check.id = c
    BY <2>1, CheckTyping DEF CheckOf
  <2>3. /\ result' = [result EXCEPT ![c] = res] /\ UNCHANGED <<checks, journal, req>>
        /\ pc[c] = "evaluating" /\ pc' = [pc EXCEPT ![c] = "commit"]
    BY <1>15 DEF EvaluationSucceeds, Goto, shared, recorded
  <2> HIDE DEF res
  <2>4. /\ ~Settled(c) /\ \A d \in Calls : d # c => pc'[d] = pc[d]
        /\ res.outcome # "ok" /\ res.outcome \notin {"error", "panic"}
    BY <2>2, <2>3 DEF Settled, Typing, TypeOK
  <2>5. Locals' /\ \A check : Recorded(check) => Recorded(check)'
    BY <2>2, <2>3, <2>4, OneAnswer DEF Answers
  <2>6. (OnlySuccessRecorded /\ CacheSound)'
    BY <2>3, <2>5, RecordsStay DEF Answers
  <2> QED
    BY <2>5, <2>6 DEF Answers
<1>16. ASSUME NEW c \in Calls, Cleanup(c) PROVE Answers'
  <2>1. /\ \A d \in Calls : Settled(d) => Settled(d)'
        /\ \A d \in Calls : pc'[d] = "commit" => pc[d] = "commit"
    BY <1>16 DEF Cleanup, Settled
  <2>2. UNCHANGED <<req, result, checks, journal>>
    BY <1>16 DEF Cleanup, recorded
  <2> QED
    BY <2>1, <2>2, QuietAnswers
<1>17. CASE UNCHANGED vars
  BY <1>17, QuietAnswers DEF vars, Settled
<1> QED
  BY <1>5, <1>7, <1>8, <1>9, <1>10, <1>11, <1>12, <1>13, <1>14, <1>15, <1>16, <1>17,
     ReplayAnswers, CommitAnswers DEF Next, Proceed, Evaluation, AllReturned

(* Nothing is recorded and nobody has an answer before the first step.     *)
LEMMA InitAnswers == Init => Answers
<1> SUFFICES ASSUME Init PROVE Answers
  OBVIOUS
<1>1. \A c \in Calls : result[c].outcome = "none" /\ pc[c] = "start"
  BY DEF Init, NoResult
<1>2. Locals
  BY <1>1 DEF Locals, OutcomeSettled, CommitOwn, ReplayIsOriginal, FailureNeverAllows
<1>3. OnlySuccessRecorded /\ CacheSound
  BY EmptySeq DEF Init, EmptyCache, OnlySuccessRecorded, CacheSound, Cached
<1> QED
  BY <1>2, <1>3 DEF Answers

(* The bundle the three theorems below are parts of.                       *)
LEMMA AnswersInvariant == Spec => []Answers
<1> QED
  BY TypingInvariant, InitAnswers, StepAnswers, PTL DEF Spec

(* History and cache hold only what an evaluating caller got, as it got    *)
(* it, whatever fails, panics or is cancelled meanwhile.                   *)
THEOREM RecordsAreSuccesses == Spec => []OnlySuccessRecorded
<1>1. Answers => OnlySuccessRecorded
  BY DEF Answers
<1> QED
  BY <1>1, AnswersInvariant, PTL

(* A replayed decision is the one its evaluating caller got for the same   *)
(* key and payload, for every order of calls and evictions.                *)
THEOREM ReplaysAreOriginals == Spec => []ReplayIsOriginal
<1>1. Answers => ReplayIsOriginal
  BY DEF Answers, Locals
<1> QED
  BY <1>1, AnswersInvariant, PTL

(* No error and no panic ever comes with an allow.                         *)
THEOREM FailuresNeverAllow == Spec => []FailureNeverAllows
<1>1. Answers => FailureNeverAllows
  BY DEF Answers, Locals
<1> QED
  BY <1>1, AnswersInvariant, PTL

=============================================================================
