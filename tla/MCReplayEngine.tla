--------------------------- MODULE MCReplayEngine ---------------------------
(***************************************************************************)
(* ReplayEngine on small instances: two keys, two payloads and three calls *)
(* with a cache of one or two results, so that entries are evicted while   *)
(* calls of the same key wait, evaluate and record.                        *)
(***************************************************************************)
EXTENDS ReplayEngineProperties, FiniteSets, TLC

CONSTANTS k1, k2, f1, f2

Ask(k, f) == [key |-> k, fp |-> f, supplied |-> FALSE]

(* Same and different payloads under one key, another key, no key, a       *)
(* caller that supplies its own history, a payload with no fingerprint.    *)
AllKinds ==
  {Ask(k1, f1), Ask(k1, f2), Ask(k2, f1), Ask(NoKey, f1), Ask(k1, Unserializable),
   [Ask(k1, f1) EXCEPT !.supplied = TRUE]}

CallSymmetry == Permutations(Calls)

=============================================================================
