----------------------- MODULE ReplayEngineProperties -----------------------
(***************************************************************************)
(* What must hold of ReplayEngine: the invariants, and the abstract        *)
(* behaviour it implements (module ReplayLedger).  Its liveness is stated  *)
(* with nested calls, in module ReplayNested.                              *)
(***************************************************************************)
EXTENDS ReplayEngine

Pair(c) == <<Key(c), req[c].fp>>

(* The shapes of the engine's fields and of the goroutines' locals.        *)
TypeOK ==
  /\ DOMAIN checks \subseteq Keys
  /\ \A k \in DOMAIN checks :
       /\ DOMAIN checks[k] \subseteq Fingerprints
       /\ \A f \in DOMAIN checks[k] : checks[k][f] \in Check
  /\ order \in Seq(Keys \X Fingerprints)
  /\ entries \in Nat
  /\ DOMAIN pending \subseteq Keys /\ \A k \in DOMAIN pending : pending[k] \in Calls
  /\ history \in Seq(Check)
  /\ pc \in [Calls -> Steps]
  /\ req \in [Calls -> Requests]
  /\ conflict \in [Calls -> BOOLEAN]
  /\ seen \in [Calls -> Seq(Check)]
  /\ result \in [Calls -> Result]
  /\ cancelled \subseteq Calls
  /\ journal \in Seq(Check) /\ ledger \in Seq(Check)

(* At most one call at a time evaluates, records or releases a key: the    *)
(* pending map holds exactly the keys in flight, each under the channel of *)
(* the one call working on it, which is the one its release will close     *)
(* (replay.go:69-78, 88-93).                                               *)
SingleFlight ==
  /\ \A c \in Calls : InFlight(c) /\ Keyed(c) => Key(c) \in DOMAIN pending /\ pending[Key(c)] = c
  /\ \A k \in DOMAIN pending : InFlight(pending[k]) /\ Key(pending[k]) = k

(* Nobody waits on a channel that no call is left to close.                *)
NoLostWakeup == \A c \in Calls : pc[c] = "waiting" => Key(c) \in DOMAIN pending

(* The cache, its FIFO and its counter are one and the same thing: the     *)
(* newest recorded decisions with a key, as many as the cap allows, each   *)
(* pair once, oldest first; and no key stays in the outer map without a    *)
(* result (replay.go:131-147).                                             *)
CacheIsWindow ==
  LET first == Len(ledger) - entries
  IN  /\ entries = (IF Len(ledger) < MaxEntries THEN Len(ledger) ELSE MaxEntries)
      /\ Len(order) = entries
      /\ \A i \in 1 .. entries : order[i] = Pair(ledger[first + i].id)
      /\ \A i, j \in 1 .. entries : order[i] = order[j] => i = j
      /\ CachedPairs(checks) = {order[i] : i \in 1 .. entries}
      /\ \A i \in 1 .. entries : checks[order[i][1]][order[i][2]] = ledger[first + i]
      /\ \A k \in DOMAIN checks : DOMAIN checks[k] # {}

(* History holds the newest recorded decisions, keyed or not, none lost    *)
(* and none twice, up to its own cap (replay.go:126-130).                  *)
HistoryIsWindow ==
  LET kept == IF Len(journal) < MaxHistory THEN Len(journal) ELSE MaxHistory
  IN  history = SubSeq(journal, Len(journal) - kept + 1, Len(journal))

(* Only decisions their own caller got, or is about to get, with a nil     *)
(* error are ever recorded, and as that caller got them: what failed,      *)
(* panicked or was cancelled leaves no trace in history or cache.          *)
OnlySuccessRecorded ==
  \A i \in 1 .. Len(journal) :
    LET check == journal[i]
    IN  /\ check.id \in Calls
        /\ pc[check.id] \in {"cleanup", "returned"}
        /\ result[check.id] = [outcome |-> "ok", check |-> check]

(* A call that returns without error has its own decision or, for the same *)
(* key and payload, the decision the evaluating caller got, whatever was   *)
(* evicted, reused or evaluated again meanwhile.                           *)
ReplayIsOriginal ==
  \A c \in Calls : result[c].outcome = "ok" =>
    LET owner == result[c].check.id
    IN  /\ owner \in Calls
        /\ owner # c => /\ Keyed(c) /\ Pair(owner) = Pair(c)
                        /\ result[owner] = result[c]

(* An error or a panic never comes with an allow, at whichever of the five *)
(* places the call noticed that it failed.                                 *)
FailureNeverAllows ==
  \A c \in Calls : result[c].outcome \in {"error", "panic"} =>
                     result[c].check.decision # DecisionAllow

(* Of two retained decisions under one key the later is flagged and not an *)
(* allow, although `conflict` is read before the evaluation and the cache  *)
(* moves on during it.                                                     *)
ConflictsFlagged ==
  LET first == Len(ledger) - entries
  IN  \A i, j \in 1 .. entries :
        i < j /\ order[i][1] = order[j][1] =>
          /\ ledger[first + j].flagged
          /\ ledger[first + j].decision # DecisionAllow

(* Velocity sees what the key did: while a call works on a key, no other   *)
(* decision of that key is in the history that is not in the copy the call *)
(* evaluates against.                                                      *)
SerialPerKey ==
  \A c \in Calls : pc[c] \in {"evaluating", "commit"} /\ Keyed(c) /\ ~req[c].supplied =>
    \A i \in 1 .. Len(history) :
      history[i].id # c /\ Key(history[i].id) = Key(c) =>
        \E j \in 1 .. Len(seen[c]) : seen[c][j] = history[i]

-----------------------------------------------------------------------------
(* The engine implements the ledger: a call is idle until it claims, and   *)
(* answered as soon as its result is settled.                              *)
Phase(step) ==
  CASE step \in {"start", "lookup", "waiting", "woken"} -> "idle"
    [] step \in {"evaluating", "commit"}                -> "evaluating"
    [] step \in {"cleanup", "returned"}                 -> "answered"

Ledger == INSTANCE ReplayLedger WITH
  phase  <- [c \in Calls |-> Phase(pc[c])],
  clash  <- conflict,
  answer <- [c \in Calls |-> IF Phase(pc[c]) = "answered" THEN result[c] ELSE NoResult]

(* Every behaviour of the engine is one of the ledger: coalesced calls     *)
(* share the one recorded decision while it is retained, conflicting       *)
(* payloads are flagged, evaluations of one key never overlap.             *)
ImplementsLedger == Ledger!Spec

=============================================================================
