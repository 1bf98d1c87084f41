---------------------------- MODULE ReplayNested ----------------------------
(***************************************************************************)
(* ReplayEngine with callbacks that call it: an evaluator may Check other  *)
(* requests, with the context it was given, while its own is evaluated.    *)
(* The engine's steps are those of module ReplayEngine; what is added is   *)
(* when a nested call can be made, and that its caller is held up by it.   *)
(***************************************************************************)
EXTENDS ReplayEngineProperties, FiniteSets

CONSTANTS
  Replies,   \* the decisions evaluators give: who waits does not depend on it
  Plans      \* which calls are made, asking what, and from which evaluator

(* A plan maps the calls that may be made to their request and their       *)
(* caller: another call, whose evaluator makes it, or NoCall.              *)
ASSUME RepliesAssumption == Replies \subseteq Decision
ASSUME PlansAssumption == \A plan \in Plans : DOMAIN plan \subseteq Calls

VARIABLE outer   \* the caller of each call of the plan

nestedVars == <<vars, outer>>

Planned == DOMAIN outer
Nested(c) == outer[c] # NoCall
Running(c) == pc[c] \notin {"start", "returned"}

(* What is reached from c by one step or more.                             *)
Closure(step(_), c) ==
  LET reach[n \in Nat] ==
        IF n = 0 THEN step(c) ELSE reach[n - 1] \cup UNION {step(d) : d \in reach[n - 1]}
  IN  reach[Cardinality(Planned)]

Made(c) == {d \in Planned : outer[d] = c}

(* The calls an evaluator is in the middle of.                             *)
Inner(c) == {d \in Made(c) : Running(d)}

NestedInit ==
  /\ Init
  /\ \E plan \in Plans :
       /\ outer = [c \in DOMAIN plan |-> plan[c].outer]
       /\ \A c \in Calls : req[c] = IF c \in DOMAIN plan THEN plan[c].req
                                    ELSE CHOOSE r \in Requests : TRUE

(* A context ends together with those derived from it.                     *)
NestedCancel(c) ==
  /\ c \notin cancelled /\ pc[c] \notin {"cleanup", "returned"}
  /\ Nested(c) => Running(c)
  /\ cancelled' = cancelled \cup
       {d \in Planned : d \in {c} \cup Closure(Made, c) /\ pc[d] \notin {"cleanup", "returned"}}
  /\ UNCHANGED <<shared, pc, req, conflict, seen, result, recorded>>

(* An evaluator makes a call of its own, which the engine starts.          *)
CallInside(c) ==
  /\ Nested(c) /\ pc[c] = "start"
  /\ pc[outer[c]] = "evaluating"
  /\ Start(c)

(* What the engine does for a call that has been made.                     *)
ProceedMade(c) ==
  /\ ~Nested(c) \/ pc[c] # "start"
  /\ Proceed(c)

(* An evaluator answers when the calls it has made have returned.          *)
EvaluationDone(c) ==
  /\ Inner(c) = {}
  /\ \/ \E decision \in Replies : EvaluationSucceeds(c, decision)
     \/ \E decision \in Replies : EvaluationOutlived(c, decision)
     \/ \E decision \in Replies \ {DecisionAllow} : EvaluationFails(c, decision)
     \/ EvaluationPanics(c)

(* Returned, or not made by its evaluator, maybe never to be.              *)
Idle(c) == pc[c] = "returned" \/ (Nested(c) /\ pc[c] = "start")

NothingToDo == (\A c \in Planned : Idle(c)) /\ UNCHANGED vars

NestedNext ==
  /\ \/ \E c \in Planned :
          NestedCancel(c) \/ CallInside(c) \/ ProceedMade(c) \/ EvaluationDone(c)
     \/ NothingToDo
  /\ UNCHANGED outer

(* A goroutine that can run does, and sync.Mutex starves nobody.  Nothing  *)
(* says that an evaluator ever answers or makes its calls.                 *)
EngineFairness == \A c \in Calls : WF_nestedVars(c \in Planned /\ ProceedMade(c) /\ UNCHANGED outer)

NestedSpec == NestedInit /\ [][NestedNext]_nestedVars /\ EngineFairness

(* Evaluators cooperate: what they call having returned, they do.          *)
CallbackFairness ==
  \A c \in Calls : WF_nestedVars(c \in Planned /\ EvaluationDone(c) /\ UNCHANGED outer)

-----------------------------------------------------------------------------
(* Who is held up by whom: a waiting call by the owner of its key, an      *)
(* evaluating one by the calls its evaluator is in the middle of.          *)
HeldUpBy(c) ==
  IF pc[c] = "waiting" THEN {d \in Planned : Key(c) \in DOMAIN pending /\ pending[Key(c)] = d}
  ELSE IF pc[c] = "evaluating" THEN Inner(c)
  ELSE {}

Behind(c) == Closure(HeldUpBy, c)

Deadlocked(c) == c \in Behind(c)
Hung(c) == pc[c] = "evaluating" /\ Inner(c) = {}

(* Keys can be ranked so that an evaluator only calls with keys of a       *)
(* higher rank than those that are being evaluated around it.              *)
OrderedKeys ==
  \E rank \in [Keys -> 1 .. Cardinality(Keys)] :
    \A c \in Planned : \A d \in Closure(Made, c) :
      Keyed(c) /\ Keyed(d) => rank[Key(c)] < rank[Key(d)]

(* "Callbacks execute outside locks" (replay.go:43): whatever evaluators   *)
(* do, a call returns unless, from some time on and forever, it is an      *)
(* evaluator that does not answer, is in a circle of calls that wait for   *)
(* each other, or is held up by one of these through the owners of keys    *)
(* and the calls it made.  Other keys and other callers are not affected.  *)
StuckHasCause ==
  \A c \in Calls :
    <>[](c \in Planned =>
           \/ Idle(c)
           \/ \E d \in {c} \cup Behind(c) : Hung(d) \/ Deadlocked(d))

(* Every call that is made returns, if evaluators answer and nest their    *)
(* calls in an order of keys.  That no evaluator calls with its own key,   *)
(* which the comment at replay.go:45 asks for, is not enough: two that     *)
(* call with each other's key wait forever.                                *)
OrderedCallsReturn ==
  CallbackFairness /\ OrderedKeys =>
    \A c \in Calls : [](c \in Planned /\ (Nested(c) => Running(c)) => <>(pc[c] = "returned"))

(* "Waiting callers can cancel independently": a waiter whose context ends *)
(* returns although what it waits for never does, and a circle in which    *)
(* one context ends comes apart.                                           *)
CancellationFrees ==
  \A c \in Calls :
    /\ (pc[c] = "waiting" /\ c \in cancelled) ~> (pc[c] = "returned")
    /\ (c \in Planned /\ c \in cancelled /\ Deadlocked(c)) ~> ~Deadlocked(c)

=============================================================================
