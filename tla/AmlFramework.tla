---------------------------- MODULE AmlFramework ----------------------------
(***************************************************************************)
(* aml/scenarios.Framework: a registry of scenario versions and custom     *)
(* evaluators, and evaluations that collect one observation from each      *)
(* entry of a snapshot of it while Register and ReplaceScenarios (called   *)
(* by anyone, callbacks included) change it and their contexts end.  An    *)
(* evaluation takes                                                        *)
(*                                                                         *)
(*   "start"     nothing done yet                                          *)
(*   "loop"      between two entries of its snapshot                       *)
(*   "calling"   inside a custom evaluator, no lock held                   *)
(*   "returned"  observations[e], complete[e], error[e] are the result     *)
(*                                                                         *)
(* A scenario is evaluated by the library itself (ScenarioEvaluation); a   *)
(* custom evaluator is any answer its interface allows.  A test of ctx     *)
(* that precedes a step of the evaluation is in its action: ctx is shared  *)
(* with nobody, so its ending in between is its ending before.             *)
(***************************************************************************)
EXTENDS ScenarioEvaluation

CONSTANTS
  Evaluations,      \* the invocations of Evaluate
  Inputs,           \* what callers of Evaluate supply
  Versions,         \* scenario versions, prepared or not
  VersionLists,     \* lists given to NewFramework and ReplaceScenarios
  Registrations,    \* evaluators given to NewFramework and Register
  Answers,          \* observations custom evaluators may return
  MaxChanges        \* bound on the successful registry changes

(* An entry of the registry: a scenario version or a registered evaluator  *)
(* (custom).  wellFormed is validID, and for an evaluator that it is not   *)
(* nil.                                                                    *)
Entry == Versions \cup Registrations
Id(entry) == entry.id

Observation == [id : STRING, matched : BOOLEAN, insufficient : BOOLEAN, wellFormed : BOOLEAN]

ASSUME EntriesAssumption ==
  /\ VersionLists \subseteq Seq(Versions)
  /\ \A v \in Versions : Id(v) \in STRING /\ ~v.custom
  /\ \A r \in Registrations : r.custom
ASSUME AnswersAssumption == Answers \subseteq Observation
ASSUME BoundAssumption == MaxChanges \in Nat

VARIABLES
  versions, registrations,      \* guarded by f.mu
  changes,
  input, pc, entries, observations, complete, error, cancelled

registry == <<versions, registrations>>
locals == <<input, entries, observations, complete, error>>
vars == <<versions, registrations, changes,
          input, pc, entries, observations, complete, error, cancelled>>

-----------------------------------------------------------------------------
(* The registry.                                                           *)

DistinctIds(list) == \A i, j \in DOMAIN list : Id(list[i]) = Id(list[j]) => i = j
WellFormed(list) == \A i \in DOMAIN list : list[i].wellFormed

FaultyValidRegistry(vs, regs) ==
  WellFormed(vs \o regs) /\ DistinctIds(vs) /\ DistinctIds(regs)

(* validateRegistry: scenarios and evaluators share one name space.        *)
ValidRegistry(vs, regs) == WellFormed(vs \o regs) /\ DistinctIds(vs \o regs)

(* prepareVersions: every version must pass PrepareScenarioVersion.        *)
Prepared(vs) == \A i \in DOMAIN vs : ValidCondition(vs[i].condition)

Change == changes < MaxChanges /\ changes' = changes + 1

(* Register and ReplaceScenarios validate against the other half of the    *)
(* registry in the critical section that installs; a rejected call changes *)
(* nothing.  Preparing versions takes no lock and reads nothing shared.    *)
Register(r) ==
  /\ ValidRegistry(versions, Append(registrations, r))
  /\ registrations' = Append(registrations, r)
  /\ Change
  /\ UNCHANGED <<versions, pc, locals, cancelled>>

FaultyReplaceScenarios(vs) ==
  /\ ValidRegistry(vs, registrations)
  /\ versions' = vs
  /\ Change
  /\ UNCHANGED <<registrations, pc, locals, cancelled>>

ReplaceScenarios(vs) ==
  /\ Prepared(vs) /\ ValidRegistry(vs, registrations)
  /\ versions' = vs
  /\ Change
  /\ UNCHANGED <<registrations, pc, locals, cancelled>>

-----------------------------------------------------------------------------
(* An evaluation.                                                          *)

(* The observation of a scenario carries the identity of its version.      *)
ObservationOf(version, in) ==
  LET found == Evaluate(version, in)
  IN  [id |-> Id(version), matched |-> found.matched, insufficient |-> found.insufficient,
       wellFormed |-> TRUE]

(* validateObservation; wellFormed is a positive version, a typology, a    *)
(* known severity and an exact score up to 100.                            *)
ValidObservation(id, observation) ==
  /\ observation.id = id
  /\ ~(observation.matched /\ observation.insufficient)
  /\ observation.wellFormed

(* Evaluators given to NewFramework are registered before the first call.  *)
Init ==
  /\ versions \in {vs \in VersionLists : Prepared(vs) /\ ValidRegistry(vs, <<>>)}
  /\ registrations = <<>> /\ changes = 0
  /\ input \in [Evaluations -> Inputs]
  /\ pc = [e \in Evaluations |-> "start"]
  /\ entries = [e \in Evaluations |-> <<>>]
  /\ observations = [e \in Evaluations |-> <<>>]
  /\ complete = [e \in Evaluations |-> FALSE]
  /\ error = [e \in Evaluations |-> ""]
  /\ cancelled = {}

Cancel(e) ==
  /\ pc[e] # "returned" /\ e \notin cancelled
  /\ cancelled' = cancelled \cup {e}
  /\ UNCHANGED <<registry, changes, pc, locals>>

(* return result, err: with what was observed so far, incomplete.          *)
ReturnIncomplete(e, kind) ==
  /\ pc' = [pc EXCEPT ![e] = "returned"]
  /\ error' = [error EXCEPT ![e] = kind]
  /\ UNCHANGED <<registry, changes, input, entries, observations, complete, cancelled>>

(* The entry the evaluation is at: it has one observation of each before.  *)
More(e) == Len(observations[e]) < Len(entries[e])
Current(e) == entries[e][Len(observations[e]) + 1]

Observed(e, observation) ==
  /\ observations' = [observations EXCEPT ![e] = Append(@, observation)]
  /\ pc' = [pc EXCEPT ![e] = "loop"]
  /\ UNCHANGED <<registry, changes, input, entries, complete, error, cancelled>>

Cancelled(e) ==
  /\ pc[e] \in {"start", "loop"} /\ e \in cancelled
  /\ ReturnIncomplete(e, "cancelled")

(* Both halves are read in one critical section; then the input is cloned, *)
(* which fails on metadata that has no JSON form.                          *)
Begin(e) ==
  /\ pc[e] = "start" /\ e \notin cancelled
  /\ IF input[e].serializable
     THEN /\ entries' = [entries EXCEPT ![e] = versions \o registrations]
          /\ pc' = [pc EXCEPT ![e] = "loop"]
          /\ UNCHANGED <<registry, changes, input, observations, complete, error, cancelled>>
     ELSE ReturnIncomplete(e, "input")

RunScenario(e) ==
  /\ pc[e] = "loop" /\ More(e) /\ ~Current(e).custom /\ e \notin cancelled
  /\ IF Evaluate(Current(e), input[e]).failed
     THEN ReturnIncomplete(e, "scenario")
     ELSE Observed(e, ObservationOf(Current(e), input[e]))

(* The second clone, of a clone, cannot fail.                              *)
CallEvaluator(e) ==
  /\ pc[e] = "loop" /\ More(e) /\ Current(e).custom /\ e \notin cancelled
  /\ pc' = [pc EXCEPT ![e] = "calling"]
  /\ UNCHANGED <<registry, changes, locals, cancelled>>

(* Whatever the evaluator answers, a context that has ended goes first.    *)
AnsweredLate(e) ==
  /\ pc[e] = "calling" /\ e \in cancelled
  /\ ReturnIncomplete(e, "cancelled")

EvaluatorFails(e) ==
  /\ pc[e] = "calling" /\ e \notin cancelled
  /\ ReturnIncomplete(e, "evaluator")

EvaluatorAnswers(e, observation) ==
  /\ pc[e] = "calling" /\ e \notin cancelled
  /\ IF ValidObservation(Id(Current(e)), observation)
     THEN Observed(e, observation)
     ELSE ReturnIncomplete(e, "evaluator")

FaultyFinish(e) ==
  /\ pc[e] = "loop" /\ ~More(e)
  /\ complete' = [complete EXCEPT ![e] = TRUE]
  /\ pc' = [pc EXCEPT ![e] = "returned"]
  /\ UNCHANGED <<registry, changes, input, entries, observations, error, cancelled>>

Finish(e) ==
  /\ pc[e] = "loop" /\ ~More(e) /\ e \notin cancelled
  /\ complete' = [complete EXCEPT ![e] = TRUE]
  /\ pc' = [pc EXCEPT ![e] = "returned"]
  /\ UNCHANGED <<registry, changes, input, entries, observations, error, cancelled>>

-----------------------------------------------------------------------------
(* Between its callbacks the library runs on by itself.                    *)
Run(e) == Cancelled(e) \/ Begin(e) \/ RunScenario(e) \/ CallEvaluator(e) \/ Finish(e)
Return(e) == AnsweredLate(e) \/ EvaluatorFails(e) \/ \E o \in Answers : EvaluatorAnswers(e, o)

(* Evaluations that have all returned leave nothing to happen but changes. *)
AllReturned == (\A e \in Evaluations : pc[e] = "returned") /\ UNCHANGED vars

Next ==
  \/ \E e \in Evaluations : Run(e) \/ Return(e) \/ Cancel(e)
  \/ \E r \in Registrations : Register(r)
  \/ \E vs \in VersionLists : ReplaceScenarios(vs)
  \/ AllReturned

Spec == Init /\ [][Next]_vars

=============================================================================
