---------------------------- MODULE ReplayEngine ----------------------------
(***************************************************************************)
(* engine.ReplayEngine: bounded history and single-flight idempotent       *)
(* replay around a Framework.                                              *)
(*                                                                         *)
(* A call is one invocation of Check, running in a goroutine of its own    *)
(* and identified with the ID newID gives its decision.  A call takes      *)
(*                                                                         *)
(*   "start"       ctx and fingerprint, before the lock is ever taken      *)
(*   "lookup"      about to take m.mu: replay, wait or claim the key       *)
(*   "waiting"     in the select, on the open channel of the key's owner   *)
(*   "woken"       in the select, that channel closed                      *)
(*   "evaluating"  inside framework.Evaluate, no lock held                 *)
(*   "commit"      about to take m.mu to record the decision               *)
(*   "cleanup"     about to run the deferred release of its key            *)
(*   "returned"    done: result[c] is what the caller got                  *)
(*                                                                         *)
(* Every critical section of m.mu is one action.  A ctx.Err() test that    *)
(* directly precedes a critical section is in its action: ctx is not       *)
(* shared state, so a cancellation between the two is one after both.      *)
(* framework.Evaluate is any outcome its contract allows: a failure is     *)
(* never an allow (module Framework).                                      *)
(*                                                                         *)
(* A definition named Faulty<X> is X with a plausible bug.  Nothing uses   *)
(* it: put in the place of X it shows that a property can fail.            *)
(***************************************************************************)
EXTENDS IdempotencyCache, Decisions

CONSTANTS
  Calls,           \* the invocations of Check
  Keys,            \* the non-empty idempotency keys
  Fingerprints,    \* the digests of serializable payloads
  NoKey,           \* the empty idempotency key
  Unserializable,  \* a payload json.Marshal rejects
  NoCall,          \* the empty decision ID
  Requests,        \* what a call may ask
  MaxEntries,      \* options.MaxIdempotencyEntries, after defaulting
  MaxHistory       \* options.MaxHistoryEntries, after defaulting

Request ==
  [key : Keys \cup {NoKey}, fp : Fingerprints \cup {Unserializable}, supplied : BOOLEAN]

(* NewReplayEngine replaces caps that are not positive by its defaults.    *)
ASSUME CapsAssumption == MaxEntries \in Nat \ {0} /\ MaxHistory \in Nat \ {0}
ASSUME NamesAssumption ==
  /\ NoKey \notin Keys
  /\ Unserializable \notin Fingerprints
  /\ NoCall \notin Calls
ASSUME RequestsAssumption == Requests \subseteq Request

VARIABLES
  \* shared, guarded by m.mu
  checks, order, entries, pending, history,
  \* local to each goroutine
  pc, req, conflict, seen, result,
  \* the contexts that are done
  cancelled,
  \* auxiliary: every recorded decision, oldest first, and those with a key
  journal, ledger

shared == <<checks, order, entries, pending, history>>
recorded == <<journal, ledger>>
vars == <<checks, order, entries, pending, history,
          pc, req, conflict, seen, result, cancelled, journal, ledger>>

(* A TransferCheck as far as callers can tell them apart: whose evaluation *)
(* made it, its decision, and whether its reasons carry the conflict.      *)
Check == [id : Calls \cup {NoCall}, decision : Decision, flagged : BOOLEAN]

(* What Check returned: `outcome` is "ok" with a nil error, "error" with   *)
(* one, "panic" when a callback's panic went through it.                   *)
Result == [outcome : {"none", "ok", "error", "panic"}, check : Check]

EmptyCheck == [id |-> NoCall, decision |-> DecisionReview, flagged |-> FALSE]
NoResult == [outcome |-> "none", check |-> EmptyCheck]

FaultyFailedReplay == [outcome |-> "error", check |-> [EmptyCheck EXCEPT !.decision = ""]]

(* failedReplay: no decision ID, review, the error as the only reason.     *)
FailedReplay == [outcome |-> "error", check |-> EmptyCheck]

Steps == {"start", "lookup", "waiting", "woken", "evaluating", "commit", "cleanup", "returned"}

Key(c) == req[c].key
Keyed(c) == Key(c) # NoKey

(* The calls between claiming and releasing the right to evaluate.         *)
InFlight(c) == pc[c] \in {"evaluating", "commit", "cleanup"}

FaultyKeyFree(c) == TRUE
GlobalKeyFree(c) == DOMAIN pending = {}
KeyFree(c) == Key(c) \notin DOMAIN pending
HasPrior(c) == Cached(checks, Key(c), req[c].fp)

Init ==
  /\ checks = EmptyCache /\ order = <<>> /\ entries = 0
  /\ pending = [k \in {} |-> NoCall]
  /\ history = <<>>
  /\ pc = [c \in Calls |-> "start"]
  /\ req \in [Calls -> Requests]
  /\ conflict = [c \in Calls |-> FALSE]
  /\ seen = [c \in Calls |-> <<>>]
  /\ result = [c \in Calls |-> NoResult]
  /\ cancelled = {}
  /\ journal = <<>> /\ ledger = <<>>

-----------------------------------------------------------------------------
Goto(c, step) == pc' = [pc EXCEPT ![c] = step]

Return(c, res) ==
  /\ result' = [result EXCEPT ![c] = res]
  /\ Goto(c, "returned")

(* The caller's context ends, maybe before Check is called; nothing looks  *)
(* at it once the result is settled.                                       *)
Cancel(c) ==
  /\ c \notin cancelled /\ pc[c] \notin {"cleanup", "returned"}
  /\ cancelled' = cancelled \cup {c}
  /\ UNCHANGED <<shared, pc, req, conflict, seen, result, recorded>>

(* A done context or a payload without a fingerprint ends the call before  *)
(* it touches the engine.                                                  *)
Start(c) ==
  /\ pc[c] = "start"
  /\ IF c \in cancelled \/ req[c].fp = Unserializable
     THEN Return(c, FailedReplay)
     ELSE Goto(c, "lookup") /\ UNCHANGED result
  /\ UNCHANGED <<shared, req, conflict, seen, cancelled, recorded>>

LookupCancelled(c) ==
  /\ pc[c] = "lookup" /\ c \in cancelled
  /\ Return(c, FailedReplay)
  /\ UNCHANGED <<shared, req, conflict, seen, cancelled, recorded>>

FaultyReplay(c) ==
  /\ pc[c] = "lookup" /\ c \notin cancelled /\ Keyed(c)
  /\ \E f \in Fingerprints :
       /\ Cached(checks, Key(c), f)
       /\ Return(c, [outcome |-> "ok", check |-> checks[Key(c)][f]])
  /\ UNCHANGED <<shared, req, conflict, seen, cancelled, recorded>>

(* The pair has a result: share it.                                        *)
Replay(c) ==
  /\ pc[c] = "lookup" /\ c \notin cancelled
  /\ Keyed(c) /\ HasPrior(c)
  /\ Return(c, [outcome |-> "ok", check |-> checks[Key(c)][req[c].fp]])
  /\ UNCHANGED <<shared, req, conflict, seen, cancelled, recorded>>

(* Another call owns the key: wait on its channel, outside the lock.       *)
Wait(c) ==
  /\ pc[c] = "lookup" /\ c \notin cancelled
  /\ Keyed(c) /\ ~HasPrior(c) /\ ~KeyFree(c)
  /\ Goto(c, "waiting")
  /\ UNCHANGED <<shared, req, conflict, seen, result, cancelled, recorded>>

(* Nobody owns the key: own it, note whether it has other results, and     *)
(* copy the history unless the caller supplied its own.                    *)
Claim(c) ==
  /\ pc[c] = "lookup" /\ c \notin cancelled
  /\ Keyed(c) => ~HasPrior(c) /\ KeyFree(c)
  /\ IF Keyed(c)
     THEN /\ pending' = [k \in DOMAIN pending \cup {Key(c)} |->
                           IF k = Key(c) THEN c ELSE pending[k]]
          /\ conflict' = [conflict EXCEPT ![c] = HasResults(checks, Key(c))]
     ELSE UNCHANGED <<pending, conflict>>
  /\ seen' = [seen EXCEPT ![c] = IF req[c].supplied THEN <<>> ELSE history]
  /\ Goto(c, "evaluating")
  /\ UNCHANGED <<checks, order, entries, history, req, result, cancelled, recorded>>

(* The select takes the closed channel: look the pair up again.            *)
Wake(c) ==
  /\ pc[c] = "woken"
  /\ Goto(c, "lookup")
  /\ UNCHANGED <<shared, req, conflict, seen, result, cancelled, recorded>>

FaultyAbandonWait(c) ==
  /\ pc[c] = "woken" /\ c \in cancelled
  /\ Return(c, FailedReplay)
  /\ UNCHANGED <<shared, req, conflict, seen, cancelled, recorded>>

(* The select takes ctx.Done(), whether or not the channel is closed.      *)
AbandonWait(c) ==
  /\ pc[c] \in {"waiting", "woken"} /\ c \in cancelled
  /\ Return(c, FailedReplay)
  /\ UNCHANGED <<shared, req, conflict, seen, cancelled, recorded>>

-----------------------------------------------------------------------------
(* Where a call goes once its result is settled: the deferred release runs *)
(* only for a call that claimed a key.  Its copy of the history is dead.   *)
Leave(c) ==
  /\ Goto(c, IF Keyed(c) THEN "cleanup" ELSE "returned")
  /\ seen' = [seen EXCEPT ![c] = <<>>]

CheckOf(c, decision, flagged) == [id |-> c, decision |-> decision, flagged |-> flagged]

FaultyWithdrawn(check) == [outcome |-> "error", check |-> check]

(* The check a call settles on when it finds its context done.             *)
Withdrawn(check) ==
  [outcome |-> "error", check |-> [check EXCEPT !.decision = WithdrawAllow(check.decision)]]

(* framework.Evaluate returns an error, its decision already conservative. *)
EvaluationFails(c, decision) ==
  /\ pc[c] = "evaluating"
  /\ result' = [result EXCEPT ![c] =
                  [outcome |-> "error", check |-> CheckOf(c, decision, FALSE)]]
  /\ Leave(c)
  /\ UNCHANGED <<shared, req, conflict, cancelled, recorded>>

FaultyEvaluationPanics(c) ==
  /\ pc[c] = "evaluating"
  /\ Return(c, [outcome |-> "panic", check |-> EmptyCheck])
  /\ UNCHANGED <<shared, req, conflict, seen, cancelled, recorded>>

(* A callback panics: only the deferred release runs on the way out.       *)
EvaluationPanics(c) ==
  /\ pc[c] = "evaluating"
  /\ result' = [result EXCEPT ![c] = [outcome |-> "panic", check |-> EmptyCheck]]
  /\ Leave(c)
  /\ UNCHANGED <<shared, req, conflict, cancelled, recorded>>

(* framework.Evaluate decides, but the context is done by now.             *)
EvaluationOutlived(c, decision) ==
  /\ pc[c] = "evaluating" /\ c \in cancelled
  /\ result' = [result EXCEPT ![c] = Withdrawn(CheckOf(c, decision, FALSE))]
  /\ Leave(c)
  /\ UNCHANGED <<shared, req, conflict, cancelled, recorded>>

(* framework.Evaluate decides: flag a conflicting payload, go and record.  *)
EvaluationSucceeds(c, decision) ==
  /\ pc[c] = "evaluating" /\ c \notin cancelled
  /\ result' = [result EXCEPT ![c] =
       [outcome |-> "none",
        check   |-> CheckOf(c, IF conflict[c] THEN ReviewUnlessBlocked(decision) ELSE decision,
                            conflict[c])]]
  /\ Goto(c, "commit")
  /\ UNCHANGED <<shared, req, conflict, seen, cancelled, recorded>>

(* Record a decision: in the history always, in the cache and its FIFO,    *)
(* after the oldest entries made room, when it has a key.                  *)
Record(c, check) ==
  /\ history' = AppendBounded(history, MaxHistory, check)
  /\ journal' = Append(journal, check)
  /\ IF Keyed(c)
     THEN LET evicted == Overflow(entries, MaxEntries)
          IN  /\ checks' = Put(Discard(checks, Oldest(order, evicted)),
                               Key(c), req[c].fp, check)
              /\ order' = Append(WithoutOldest(order, evicted), <<Key(c), req[c].fp>>)
              /\ entries' = (entries - evicted) + 1
              /\ ledger' = Append(ledger, check)
     ELSE UNCHANGED <<checks, order, entries, ledger>>

FaultyCommitCancelled(c) ==
  /\ pc[c] = "commit" /\ c \in cancelled
  /\ Record(c, result[c].check)
  /\ result' = [result EXCEPT ![c] = Withdrawn(result[c].check)]
  /\ Leave(c)
  /\ UNCHANGED <<pending, req, conflict, cancelled>>

CommitCancelled(c) ==
  /\ pc[c] = "commit" /\ c \in cancelled
  /\ result' = [result EXCEPT ![c] = Withdrawn(result[c].check)]
  /\ Leave(c)
  /\ UNCHANGED <<shared, req, conflict, cancelled, recorded>>

Commit(c) ==
  /\ pc[c] = "commit" /\ c \notin cancelled
  /\ Record(c, result[c].check)
  /\ result' = [result EXCEPT ![c].outcome = "ok"]
  /\ Leave(c)
  /\ UNCHANGED <<pending, req, conflict, cancelled>>

FaultyCleanup(c) ==
  /\ pc[c] = "cleanup"
  /\ pending' = [k \in DOMAIN pending \ {Key(c)} |-> pending[k]]
  /\ Goto(c, "returned")
  /\ UNCHANGED <<checks, order, entries, history, req, conflict, seen, result, cancelled, recorded>>

(* The deferred release, in a critical section of its own: close the       *)
(* channel, which wakes every call waiting on it, and give up the key.     *)
Cleanup(c) ==
  /\ pc[c] = "cleanup"
  /\ pending' = [k \in DOMAIN pending \ {Key(c)} |-> pending[k]]
  /\ pc' = [d \in Calls |->
              IF d = c THEN "returned"
              ELSE IF pc[d] = "waiting" /\ Key(d) = Key(c) THEN "woken"
              ELSE pc[d]]
  /\ UNCHANGED <<checks, order, entries, history, req, conflict, seen, result, cancelled, recorded>>

-----------------------------------------------------------------------------
(* What framework.Evaluate gives back.                                     *)
Evaluation(c) ==
  \/ \E decision \in Decision : EvaluationSucceeds(c, decision)
  \/ \E decision \in Decision : EvaluationOutlived(c, decision)
  \/ \E decision \in Decision \ {DecisionAllow} : EvaluationFails(c, decision)
  \/ EvaluationPanics(c)

(* The steps of the engine's own code.                                     *)
Proceed(c) ==
  \/ Start(c) \/ LookupCancelled(c) \/ Replay(c) \/ Wait(c) \/ Claim(c)
  \/ Wake(c) \/ AbandonWait(c)
  \/ CommitCancelled(c) \/ Commit(c) \/ Cleanup(c)

AllReturned == (\A c \in Calls : pc[c] = "returned") /\ UNCHANGED vars

Next == (\E c \in Calls : Cancel(c) \/ Proceed(c) \/ Evaluation(c)) \/ AllReturned

Spec == Init /\ [][Next]_vars

=============================================================================
