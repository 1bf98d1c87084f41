--------------------------- MODULE MCReplayNested ---------------------------
(***************************************************************************)
(* ReplayNested on small plans: three calls on one key, whose waiters wake *)
(* after their result was evicted, and evaluators that make calls of their *)
(* own: with the same key, in the order of the keys, and against it.       *)
(***************************************************************************)
EXTENDS ReplayNested, TLC

CONSTANTS c1, c2, c3, c4, k1, k2, f1, f2

Ask(k, f) == [key |-> k, fp |-> f, supplied |-> FALSE]
Kinds == {Ask(k1, f1), Ask(k1, f2), Ask(k2, f1)}

By(caller, k, f) == [outer |-> caller, req |-> Ask(k, f)]
Top(k, f) == By(NoCall, k, f)

AllPlans ==
  { \* no nesting: same and different payloads, another key
    c1 :> Top(k1, f1) @@ c2 :> Top(k1, f1) @@ c3 :> Top(k1, f2),
    c1 :> Top(k1, f1) @@ c2 :> Top(k1, f1) @@ c3 :> Top(k2, f1),
    \* the evaluator's own key
    c1 :> Top(k1, f1) @@ c2 :> By(c1, k1, f2) @@ c3 :> Top(k2, f1),
    \* two keys in order, one below the other, and a caller of the inner key
    c1 :> Top(k1, f1) @@ c2 :> By(c1, k2, f1) @@ c3 :> Top(k2, f1),
    c1 :> Top(k1, f1) @@ c2 :> By(c1, k2, f1) @@ c3 :> By(c2, k1, f2),
    \* two evaluators that call each other's key
    c1 :> Top(k1, f1) @@ c2 :> By(c1, k2, f1) @@ c3 :> Top(k2, f1) @@ c4 :> By(c3, k1, f1) }

=============================================================================
