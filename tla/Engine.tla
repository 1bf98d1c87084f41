------------------------------- MODULE Engine -------------------------------
(***************************************************************************)
(* engine.Engine, the legacy thread-safe engine.  A call is one invocation *)
(* of CheckWithContext in a goroutine of its own, identified with the ID   *)
(* of the decision it makes.  It reads the clock and computes the          *)
(* fingerprint first ("arrived") and does everything else inside one       *)
(* critical section of e.mu.                                               *)
(*                                                                         *)
(* json.Marshal can fail on a request (a year after 9999), and fingerprint *)
(* ignores the error: all payloads it rejects have the digest of no bytes. *)
(***************************************************************************)
EXTENDS IdempotencyCache, LegacyEvaluate

CONSTANTS
  Calls,           \* the invocations of CheckWithContext
  Keys,            \* the non-empty idempotency keys
  NoKey,           \* the empty key
  Payloads,        \* the payloads of requests
  Unserializable,  \* those json.Marshal rejects
  EmptyDigest,     \* the digest of no bytes
  Requests,        \* what calls ask: a key, or none, and a payload
  Contexts,        \* what callers supply: blocked, valid, onInvalid, disabled, thresholds
  RuleSets,        \* the rule sets callers install, as given to the engine
  MaxEntries,      \* maxCacheEntries
  MaxHistory,      \* maxHistory
  MaxReplacements  \* bound on the calls of ReplaceRules

ASSUME EngineCapsAssumption == MaxEntries \in Nat \ {0} /\ MaxHistory \in Nat \ {0}
ASSUME EngineNamesAssumption ==
  NoKey \notin Keys /\ Unserializable \subseteq Payloads /\ EmptyDigest \notin Payloads
ASSUME EngineRequestsAssumption == Requests \subseteq [key : Keys \cup {NoKey}, payload : Payloads]
ASSUME EngineRuleSetsAssumption == RuleSets \subseteq Seq(InstalledRule)

VARIABLES
  ruleSet, checks, cacheOrder, cacheEntries, history,  \* guarded by e.mu
  clock, replacements,
  pc, req, now, answer,                                \* each call's own
  ledger            \* auxiliary: the decisions recorded under a key, oldest first

vars == <<ruleSet, checks, cacheOrder, cacheEntries, history, clock, replacements,
          pc, req, now, answer, ledger>>

Digest(payload) == IF payload \in Unserializable THEN EmptyDigest ELSE payload
Fingerprints == (Payloads \ Unserializable) \cup {EmptyDigest}

Key(c) == req[c].key
Keyed(c) == Key(c) # NoKey
Fingerprint(c) == Digest(req[c].payload)

NoAnswer == [id |-> "none"]

Init ==
  /\ ruleSet \in {StableByPriority(s) : s \in RuleSets}
  /\ checks = EmptyCache /\ cacheOrder = <<>> /\ cacheEntries = 0
  /\ history = <<>>
  /\ clock = 0 /\ replacements = 0
  /\ pc = [c \in Calls |-> "start"]
  /\ req \in [Calls -> Requests]
  /\ now = [c \in Calls |-> 0]
  /\ answer = [c \in Calls |-> NoAnswer]
  /\ ledger = <<>>

(* now := time.Now(), before the lock.                                     *)
Arrive(c) ==
  /\ pc[c] = "start"
  /\ clock' = clock + 1
  /\ now' = [now EXCEPT ![c] = clock + 1]
  /\ pc' = [pc EXCEPT ![c] = "arrived"]
  /\ UNCHANGED <<ruleSet, checks, cacheOrder, cacheEntries, history, replacements,
                 req, answer, ledger>>

Return(c, check) ==
  /\ answer' = [answer EXCEPT ![c] = check]
  /\ pc' = [pc EXCEPT ![c] = "returned"]

FaultyReplay(c) ==
  /\ pc[c] = "arrived"
  /\ Keyed(c) /\ \E f \in Fingerprints :
                   Cached(checks, Key(c), f) /\ Return(c, checks[Key(c)][f])
  /\ UNCHANGED <<ruleSet, checks, cacheOrder, cacheEntries, history, clock, replacements,
                 req, now, ledger>>

Replay(c) ==
  /\ pc[c] = "arrived"
  /\ Keyed(c) /\ Cached(checks, Key(c), Fingerprint(c))
  /\ Return(c, checks[Key(c)][Fingerprint(c)])
  /\ UNCHANGED <<ruleSet, checks, cacheOrder, cacheEntries, history, clock, replacements,
                 req, now, ledger>>

(* How many entries leave cacheOrder: those whose result is already gone   *)
(* do not count, so the loop goes on until enough results have left.       *)
Evictions ==
  LET Live(n) == Cardinality({i \in 1 .. n : Cached(checks, cacheOrder[i][1], cacheOrder[i][2])})
  IN  CHOOSE n \in 0 .. Len(cacheOrder) :
        /\ Live(n) = Overflow(cacheEntries, MaxEntries)
        /\ \A m \in 0 .. n - 1 : Live(m) < Live(n)

(* store: the pair is new, or its result is replaced in place.             *)
Store(k, f, check) ==
  IF Cached(checks, k, f)
  THEN /\ checks' = Put(checks, k, f, check)
       /\ UNCHANGED <<cacheOrder, cacheEntries>>
  ELSE /\ checks' = Put(Discard(checks, Oldest(cacheOrder, Evictions)), k, f, check)
       /\ cacheOrder' = Append(WithoutOldest(cacheOrder, Evictions), <<k, f>>)
       /\ cacheEntries' = (cacheEntries - Overflow(cacheEntries, MaxEntries)) + 1

(* Not a replay: evaluate against the installed rules, record, store.  A   *)
(* conflict is a key the outer map knows.                                  *)
Decide(c, context, verdicts) ==
  /\ pc[c] = "arrived"
  /\ ~(Keyed(c) /\ Cached(checks, Key(c), Fingerprint(c)))
  /\ LET known  == Keyed(c) /\ Key(c) \in DOMAIN checks
         result == Evaluate(known, context, ruleSet, verdicts)
         check  == [id |-> c, decision |-> result.decision, reasons |-> result.reasons,
                    createdAt |-> now[c]]
     IN  /\ history' = AppendBounded(history, MaxHistory, check)
         /\ IF Keyed(c)
            THEN /\ Store(Key(c), Fingerprint(c), check)
                 /\ ledger' = Append(ledger, check)
            ELSE UNCHANGED <<checks, cacheOrder, cacheEntries, ledger>>
         /\ Return(c, check)
  /\ UNCHANGED <<ruleSet, clock, replacements, req, now>>

(* ReplaceRules with rules that all validate; others change nothing.       *)
ReplaceRules(s) ==
  /\ replacements < MaxReplacements
  /\ replacements' = replacements + 1
  /\ ruleSet' = StableByPriority(s)
  /\ UNCHANGED <<checks, cacheOrder, cacheEntries, history, clock, pc, req, now, answer, ledger>>

(* Every rule of the installed set says something of the transfer.         *)
Verdicts == [DOMAIN ruleSet -> Verdict]

AllReturned == (\A c \in Calls : pc[c] = "returned") /\ UNCHANGED vars

Next ==
  \/ \E c \in Calls :
       \/ Arrive(c) \/ Replay(c)
       \/ \E context \in Contexts, verdicts \in Verdicts : Decide(c, context, verdicts)
  \/ \E s \in RuleSets : ReplaceRules(s)
  \/ AllReturned

Spec == Init /\ [][Next]_vars

(* History(limit): up to limit decisions, last recorded first.             *)
History(limit) ==
  LET n == IF limit <= 0 \/ limit > Len(history) THEN Len(history) ELSE limit
  IN  [i \in 1 .. n |-> history[Len(history) + 1 - i]]

=============================================================================
