-------------------------- MODULE IdempotencyCache --------------------------
(***************************************************************************)
(* The two-level map both engines keep their idempotent results in,        *)
(*                                                                         *)
(*     map[key]map[fingerprint]domain.TransferCheck                        *)
(*                                                                         *)
(* as a function from keys to non-empty functions from fingerprints, and   *)
(* the FIFO of <<key, fingerprint>> entries that bounds it.  The outer map *)
(* matters by itself: the legacy engine takes the presence of a key in it  *)
(* for "this key was used before".                                         *)
(***************************************************************************)
EXTENDS Naturals, Sequences

EmptyCache == [k \in {} |-> <<>>]

Cached(cache, k, f) == k \in DOMAIN cache /\ f \in DOMAIN cache[k]

(* The <<key, fingerprint>> pairs that have a result.                      *)
CachedPairs(cache) == UNION {{<<k, f>> : f \in DOMAIN cache[k]} : k \in DOMAIN cache}

FaultyHasResults(cache, k) ==
  k \in DOMAIN cache /\ \E f, g \in DOMAIN cache[k] : f # g

(* len(checks[key]) > 0                                                    *)
HasResults(cache, k) == k \in DOMAIN cache /\ DOMAIN cache[k] # {}

FaultyDiscard(cache, pairs) == cache
LeakyDiscard(cache, pairs) ==
  [k \in DOMAIN cache |-> [f \in {f \in DOMAIN cache[k] : <<k, f>> \notin pairs} |-> cache[k][f]]]

(* Delete the results of `pairs`; a key whose last result goes leaves the  *)
(* outer map with it.                                                      *)
Discard(cache, pairs) ==
  LET Kept(k) == {f \in DOMAIN cache[k] : <<k, f>> \notin pairs}
  IN  [k \in {k \in DOMAIN cache : Kept(k) # {}} |-> [f \in Kept(k) |-> cache[k][f]]]

(* Set one result, making the inner map when the key is new.               *)
Put(cache, k, f, check) ==
  LET Known == IF k \in DOMAIN cache THEN DOMAIN cache[k] ELSE {}
  IN  [kk \in DOMAIN cache \cup {k} |->
         IF kk = k
         THEN [ff \in Known \cup {f} |-> IF ff = f THEN check ELSE cache[k][ff]]
         ELSE cache[kk]]

FaultyOverflow(n, max) == IF n > max THEN n - max ELSE 0

(* How many entries leave a FIFO of n entries to make room for one more.   *)
Overflow(n, max) == IF n >= max THEN n - max + 1 ELSE 0

(* The n oldest entries of a FIFO, and what is left of it.                 *)
Oldest(fifo, n) == {fifo[i] : i \in 1..n}
WithoutOldest(fifo, n) == SubSeq(fifo, n + 1, Len(fifo))

FaultyAppendBounded(list, max, x) ==
  IF Len(list) < max THEN Append(list, x) ELSE list

(* Append to a list that keeps only its last `max` elements.               *)
AppendBounded(list, max, x) ==
  Append(WithoutOldest(list, Overflow(Len(list), max)), x)

=============================================================================
