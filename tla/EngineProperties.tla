-------------------------- MODULE EngineProperties --------------------------
(***************************************************************************)
(* What must hold of the legacy Engine.                                    *)
(***************************************************************************)
EXTENDS Engine

Pair(c) == <<Key(c), Fingerprint(c)>>

Check ==
  [id : Calls, decision : Decision, createdAt : Nat,
   reasons : SUBSET {"clean", "account", "invalid", "conflict", "error", "hit", "threshold"}]

(* The shapes of the engine's fields and of what calls return.             *)
TypeOK ==
  /\ DOMAIN checks \subseteq Keys
  /\ \A k \in DOMAIN checks :
       /\ DOMAIN checks[k] \subseteq Fingerprints
       /\ \A f \in DOMAIN checks[k] : checks[k][f] \in Check
  /\ cacheOrder \in Seq(Keys \X Fingerprints) /\ cacheEntries \in Nat
  /\ history \in Seq(Check) /\ ledger \in Seq(Check)
  /\ pc \in [Calls -> {"start", "arrived", "returned"}]
  /\ req \in [Calls -> Requests]
  /\ clock \in Nat /\ now \in [Calls -> 0 .. clock]
  /\ answer \in [Calls -> Check \cup {NoAnswer}]

(* Outer map, inner maps, FIFO and counter agree: they hold the newest     *)
(* decisions recorded under a key, as many as the cap allows, each pair    *)
(* once, oldest first, and no key without a result (engine.go:239-272).    *)
CacheIsWindow ==
  LET first == Len(ledger) - cacheEntries
  IN  /\ cacheEntries = (IF Len(ledger) < MaxEntries THEN Len(ledger) ELSE MaxEntries)
      /\ Len(cacheOrder) = cacheEntries
      /\ \A i \in 1 .. cacheEntries : cacheOrder[i] = Pair(ledger[first + i].id)
      /\ \A i, j \in 1 .. cacheEntries : cacheOrder[i] = cacheOrder[j] => i = j
      /\ CachedPairs(checks) = {cacheOrder[i] : i \in 1 .. cacheEntries}
      /\ \A i \in 1 .. cacheEntries :
           checks[cacheOrder[i][1]][cacheOrder[i][2]] = ledger[first + i]
      /\ \A k \in DOMAIN checks : DOMAIN checks[k] # {}

(* A call gets its own decision, or the one a call with the same key and   *)
(* fingerprint got, however often the cache turned over in between.        *)
ReplayIsOriginal ==
  \A c \in Calls : pc[c] = "returned" =>
    LET owner == answer[c].id
    IN  owner # c => /\ Keyed(c) /\ Pair(owner) = Pair(c)
                     /\ answer[owner] = answer[c]

(* A decision carries the conflict reason exactly when, as it was made,    *)
(* another result under its key was still retained; only a blocked account *)
(* comes first.  An evicted result must not count, which is why store has  *)
(* to drop a key with its last result (engine.go:108, 256-258).            *)
ConflictExact ==
  \A i \in 1 .. Len(ledger) :
    LET prior == \E j \in 1 .. i - 1 :
                   i - j <= MaxEntries /\ Key(ledger[j].id) = Key(ledger[i].id)
    IN  /\ "conflict" \in ledger[i].reasons => prior
        /\ prior => ledger[i].reasons \cap {"conflict", "account"} # {}
        /\ prior => ledger[i].decision # DecisionAllow

-----------------------------------------------------------------------------
(* "History returns up to limit recent non-replayed decisions, newest      *)
(* first": of two decisions History returns, the first is not the older.   *)
HistoryNewestFirst ==
  \A limit \in 0 .. Len(history) :
    \A i, j \in DOMAIN History(limit) :
      i < j => History(limit)[i].createdAt >= History(limit)[j].createdAt

(* A payload that differs from the retained one of its key is reviewed or  *)
(* blocked, it never gets the other payload's result.                      *)
ConflictingPayloadNotReplayed ==
  \A c \in Calls : pc[c] = "returned" => req[answer[c].id].payload = req[c].payload

=============================================================================
