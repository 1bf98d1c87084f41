------------------------- MODULE AmlFrameworkProofs -------------------------
(***************************************************************************)
(* Proofs about the AML Framework, for any number of evaluations, any      *)
(* scenarios, evaluators, inputs and answers.                              *)
(***************************************************************************)
EXTENDS AmlFrameworkProperties, SequenceTheorems, TLAPS

(* What holds of one evaluation, whatever the others and the registry do.  *)
Heard(e) ==
  /\ DistinctIds(entries[e])
  /\ Len(observations[e]) <= Len(entries[e])
  /\ \A i \in DOMAIN observations[e] :
       /\ observations[e][i].id = Id(entries[e][i])
       /\ ~(observations[e][i].matched /\ observations[e][i].insufficient)

Status(e) ==
  /\ pc[e] = "start" => observations[e] = <<>>
  /\ pc[e] \in {"loop", "calling"} => input[e].serializable
  /\ pc[e] = "calling" => More(e)
  /\ pc[e] # "returned" => ~complete[e] /\ error[e] = ""
  /\ pc[e] = "returned" => (complete[e] <=> error[e] = "")
  /\ complete[e] =>
       /\ Len(observations[e]) = Len(entries[e])
       /\ input[e].serializable /\ e \notin cancelled

Consistent ==
  /\ TypeOK
  /\ ValidRegistry(versions, registrations)
  /\ \A e \in Evaluations : Heard(e) /\ Status(e)

-----------------------------------------------------------------------------
(* What the registry and the snapshots of it hold.                         *)
Listed == PreparedVersions \cup Registrations

(* A list that passed prepareVersions is a list of prepared versions.      *)
LEMMA PreparedList ==
  ASSUME NEW vs \in VersionLists, Prepared(vs)
  PROVE  vs \in Seq(PreparedVersions)
<1>1. vs \in Seq(Versions)
  BY EntriesAssumption
<1>2. Len(vs) \in Nat /\ DOMAIN vs = 1 .. Len(vs) /\ vs \in [1 .. Len(vs) -> Versions]
  BY <1>1, LenProperties
<1>3. ASSUME NEW i \in 1 .. Len(vs) PROVE vs[i] \in PreparedVersions
  BY <1>2 DEF Prepared, PreparedVersions
<1>4. vs \in [1 .. Len(vs) -> PreparedVersions]
  BY <1>2, <1>3
<1> QED
  BY <1>2, <1>4, SeqDef

(* The registry is a list of entries.                                      *)
LEMMA RegistryIsList ==
  ASSUME TypeOK
  PROVE  versions \o registrations \in Seq(Listed)
<1>1. versions \in Seq(Listed)
  BY SeqMonotonic DEF TypeOK, Listed
<1>2. registrations \in Seq(Listed)
  BY SeqMonotonic DEF TypeOK, Listed
<1> QED
  BY <1>1, <1>2, ConcatProperties

(* An entry that is no registration is a version, and has a string for ID. *)
LEMMA ScenarioEntries ==
  ASSUME TypeOK, NEW e \in Evaluations, More(e), ~Current(e).custom
  PROVE  Current(e) \in Versions /\ Id(Current(e)) \in STRING
<1>1. Len(observations[e]) \in Nat /\ Len(entries[e]) \in Nat
  BY LenProperties DEF TypeOK
<1>2. Len(observations[e]) + 1 \in 1 .. Len(entries[e])
  BY <1>1 DEF More
<1>3. entries[e] \in Seq(Listed)
  BY DEF TypeOK, Listed
<1>4. Current(e) \in Listed
  BY <1>2, <1>3, ElementOfSeq DEF Current
<1> QED
  BY <1>4, EntriesAssumption DEF Listed, PreparedVersions

(* The library's own observation says never both, and for whom it speaks.  *)
LEMMA ScenarioObservation ==
  ASSUME TypeOK, NEW version, NEW in, Id(version) \in STRING
  PROVE  /\ ObservationOf(version, in) \in Observation
         /\ ObservationOf(version, in).id = Id(version)
         /\ ~(ObservationOf(version, in).matched /\ ObservationOf(version, in).insufficient)
BY DEF ObservationOf, Evaluate, Observation

-----------------------------------------------------------------------------
(* The first registry was validated, and no evaluation has begun.          *)
LEMMA InitConsistent == Init => Consistent
<1> SUFFICES ASSUME Init PROVE Consistent
  OBVIOUS
<1>1. <<>> \in Seq(Listed) /\ <<>> \in Seq(Observation) /\ <<>> \in Seq(Registrations)
  BY EmptySeq
<1>2. TypeOK
  <2>1. 0 \in 0 .. MaxChanges
    BY BoundAssumption
  <2>2. versions \in Seq(PreparedVersions) /\ registrations \in Seq(Registrations)
    BY <1>1, PreparedList DEF Init
  <2>3. /\ entries \in [Evaluations -> Seq(Listed)]
        /\ observations \in [Evaluations -> Seq(Observation)]
    BY <1>1 DEF Init
  <2> QED
    BY <2>1, <2>2, <2>3 DEF Init, TypeOK, Listed
<1>3. ValidRegistry(versions, registrations)
  BY DEF Init
<1>4. ASSUME NEW e \in Evaluations PROVE Heard(e) /\ Status(e)
  <2>1. observations[e] = <<>> /\ entries[e] = <<>>
    BY DEF Init
  <2>2. Len(<<>>) = 0 /\ DOMAIN <<>> = {}
    BY EmptySeq
  <2>3. Heard(e)
    BY <2>1, <2>2 DEF Heard, DistinctIds
  <2>4. Status(e)
    BY <2>1 DEF Init, Status
  <2> QED
    BY <2>3, <2>4
<1> QED
  BY <1>2, <1>3, <1>4 DEF Consistent

(* The bound on changes is kept.                                           *)
LEMMA ChangeCounts ==
  ASSUME changes \in 0 .. MaxChanges, Change
  PROVE  changes' \in 0 .. MaxChanges
BY BoundAssumption DEF Change

(* A change of the registry installs a valid one and touches nothing else. *)
LEMMA ChangeConsistent ==
  ASSUME Consistent,
         \/ \E r \in Registrations : Register(r)
         \/ \E vs \in VersionLists : ReplaceScenarios(vs)
  PROVE  Consistent'
<1>1. TypeOK'
  <2>1. CASE \E r \in Registrations : Register(r)
    <3>1. PICK r \in Registrations : Register(r)
      BY <2>1
    <3>2. registrations' \in Seq(Registrations)
      BY <3>1, AppendProperties DEF Consistent, TypeOK, Register
    <3>3. changes' \in 0 .. MaxChanges
      <4>1. changes \in 0 .. MaxChanges /\ Change
        BY <3>1 DEF Consistent, TypeOK, Register
      <4> QED
        BY <4>1, ChangeCounts
    <3> QED
      BY <3>1, <3>2, <3>3 DEF Consistent, TypeOK, Register, locals
  <2>2. CASE \E vs \in VersionLists : ReplaceScenarios(vs)
    <3>1. PICK vs \in VersionLists : ReplaceScenarios(vs)
      BY <2>2
    <3>2. changes' \in 0 .. MaxChanges
      <4>1. changes \in 0 .. MaxChanges /\ Change
        BY <3>1 DEF Consistent, TypeOK, ReplaceScenarios
      <4> QED
        BY <4>1, ChangeCounts
    <3>3. versions' \in Seq(PreparedVersions)
      <4>1. Prepared(vs) /\ versions' = vs
        BY <3>1 DEF ReplaceScenarios
      <4> QED
        BY <4>1, PreparedList
    <3> QED
      BY <3>1, <3>2, <3>3 DEF Consistent, TypeOK, ReplaceScenarios, locals
  <2> QED
    BY <2>1, <2>2
<1>2. ValidRegistry(versions, registrations)'
  BY DEF Register, ReplaceScenarios
<1>3. UNCHANGED <<pc, locals, cancelled>>
  BY DEF Register, ReplaceScenarios
<1>4. ASSUME NEW e \in Evaluations PROVE (Heard(e) /\ Status(e))'
  BY <1>3 DEF Consistent, Heard, Status, More, locals
<1> QED
  BY <1>1, <1>2, <1>4 DEF Consistent

(* A context that ends concerns only evaluations that have not returned,   *)
(* and those are not complete.                                             *)
LEMMA CancelConsistent ==
  ASSUME Consistent, NEW e \in Evaluations, Cancel(e)
  PROVE  Consistent'
<1>1. TypeOK'
  BY DEF Consistent, TypeOK, Cancel, registry, locals
<1>2. ValidRegistry(versions, registrations)'
  BY DEF Consistent, Cancel, registry
<1>3. ASSUME NEW f \in Evaluations PROVE Heard(f)'
  BY DEF Consistent, Heard, Cancel, locals
<1>4. ASSUME NEW f \in Evaluations PROVE Status(f)'
  BY DEF Consistent, Status, More, Cancel, locals
<1> QED
  BY <1>1, <1>2, <1>3, <1>4 DEF Consistent

(* An evaluation that gives up keeps what it heard and is not complete.    *)
LEMMA ReturnConsistent ==
  ASSUME Consistent, NEW e \in Evaluations,
         NEW kind \in {"cancelled", "input", "scenario", "evaluator"},
         pc[e] # "returned", ReturnIncomplete(e, kind)
  PROVE  Consistent'
<1>1. TypeOK'
  BY DEF Consistent, TypeOK, ReturnIncomplete, registry
<1>2. ValidRegistry(versions, registrations)'
  BY DEF Consistent, ReturnIncomplete, registry
<1>3. ASSUME NEW f \in Evaluations PROVE Heard(f)'
  BY DEF Consistent, Heard, ReturnIncomplete
<1>4. ASSUME NEW f \in Evaluations PROVE Status(f)'
  BY DEF Consistent, TypeOK, Status, More, ReturnIncomplete
<1> QED
  BY <1>1, <1>2, <1>3, <1>4 DEF Consistent

(* One more observation, of the entry the evaluation is at.                *)
LEMMA ObservedConsistent ==
  ASSUME Consistent, NEW e \in Evaluations, NEW o \in Observation,
         pc[e] \in {"loop", "calling"}, More(e), Observed(e, o),
         o.id = Id(Current(e)), ~(o.matched /\ o.insufficient)
  PROVE  Consistent'
<1>1. /\ observations[e] \in Seq(Observation) /\ Len(observations[e]) \in Nat
      /\ entries[e] \in Seq(Listed) /\ Len(entries[e]) \in Nat
  BY LenProperties DEF Consistent, TypeOK, Listed
<1>2. /\ observations'[e] = Append(observations[e], o)
      /\ observations'[e] \in Seq(Observation)
      /\ Len(observations'[e]) = Len(observations[e]) + 1
      /\ DOMAIN observations'[e] = 1 .. Len(observations[e]) + 1
      /\ observations'[e][Len(observations[e]) + 1] = o
      /\ \A i \in 1 .. Len(observations[e]) : observations'[e][i] = observations[e][i]
  <2>1. observations'[e] = Append(observations[e], o)
    BY DEF Consistent, TypeOK, Observed
  <2> QED
    BY <1>1, <2>1, AppendProperties, LenProperties
<1>3. TypeOK'
  BY <1>2 DEF Consistent, TypeOK, Observed, registry
<1>4. ValidRegistry(versions, registrations)'
  BY DEF Consistent, Observed, registry
<1>5. Heard(e)'
  <2>1. DOMAIN observations[e] = 1 .. Len(observations[e])
    BY <1>1, LenProperties
  <2>2. entries'[e] = entries[e]
    BY DEF Observed
  <2>3. Len(observations'[e]) <= Len(entries'[e])
    BY <1>1, <1>2, <2>2 DEF More
  <2>4. ASSUME NEW i \in 1 .. Len(observations[e]) + 1
        PROVE  /\ observations'[e][i].id = Id(entries[e][i])
               /\ ~(observations'[e][i].matched /\ observations'[e][i].insufficient)
    <3>1. CASE i = Len(observations[e]) + 1
      BY <3>1, <1>2 DEF Current
    <3>2. CASE i \in 1 .. Len(observations[e])
      BY <3>2, <1>2, <2>1 DEF Consistent, Heard
    <3> QED
      BY <1>1, <3>1, <3>2
  <2> QED
    BY <1>2, <2>2, <2>3, <2>4 DEF Consistent, Heard, Id, DistinctIds
<1>6. Status(e)'
  BY DEF Consistent, TypeOK, Status, Observed
<1>7. ASSUME NEW f \in Evaluations, f # e PROVE Heard(f)' /\ Status(f)'
  <2>1. observations'[f] = observations[f] /\ pc'[f] = pc[f]
    BY <1>7 DEF Consistent, TypeOK, Observed
  <2> QED
    BY <2>1 DEF Consistent, Heard, Status, More, Observed
<1> QED
  BY <1>3, <1>4, <1>5, <1>6, <1>7 DEF Consistent

(* The snapshot is the registry of the moment, which is valid.             *)
LEMMA BeginConsistent ==
  ASSUME Consistent, NEW e \in Evaluations, Begin(e)
  PROVE  Consistent'
<1>1. CASE ~input[e].serializable
  <2>1. ReturnIncomplete(e, "input") /\ pc[e] # "returned"
    BY <1>1 DEF Begin
  <2> QED
    BY <2>1, ReturnConsistent
<1>2. CASE input[e].serializable
  <2>1. /\ entries' = [entries EXCEPT ![e] = versions \o registrations]
        /\ pc' = [pc EXCEPT ![e] = "loop"]
        /\ UNCHANGED <<registry, changes, input, observations, complete, error, cancelled>>
        /\ pc[e] = "start"
    BY <1>2 DEF Begin
  <2>2. versions \o registrations \in Seq(Listed)
    BY RegistryIsList DEF Consistent
  <2>3. TypeOK'
    BY <2>1, <2>2 DEF Consistent, TypeOK, registry, Listed
  <2>4. ValidRegistry(versions, registrations)'
    BY <2>1 DEF Consistent, registry
  <2>5. Heard(e)'
    <3>1. observations[e] = <<>> /\ observations' = observations
      BY <2>1 DEF Consistent, Status
    <3>2. entries'[e] = versions \o registrations
      BY <2>1 DEF Consistent, TypeOK
    <3>3. Len(entries'[e]) \in Nat /\ Len(<<>>) = 0 /\ DOMAIN observations'[e] = {}
      BY <2>2, <3>1, <3>2, LenProperties, EmptySeq
    <3>4. DistinctIds(versions \o registrations)
      BY DEF Consistent, ValidRegistry
    <3> QED
      BY <3>1, <3>2, <3>3, <3>4 DEF Heard, DistinctIds, Id
  <2>6. Status(e)'
    BY <2>1, <1>2 DEF Consistent, TypeOK, Status
  <2>7. ASSUME NEW f \in Evaluations, f # e PROVE Heard(f)' /\ Status(f)'
    <3>1. entries'[f] = entries[f] /\ pc'[f] = pc[f]
      BY <2>1, <2>7 DEF Consistent, TypeOK
    <3> QED
      BY <2>1, <3>1 DEF Consistent, Heard, Status, More
  <2> QED
    BY <2>3, <2>4, <2>5, <2>6, <2>7 DEF Consistent
<1> QED
  BY <1>1, <1>2

(* A scenario is observed, or ends the evaluation as incomplete.           *)
LEMMA RunScenarioConsistent ==
  ASSUME Consistent, NEW e \in Evaluations, RunScenario(e)
  PROVE  Consistent'
<1>1. CASE Evaluate(Current(e), input[e]).failed
  <2>1. ReturnIncomplete(e, "scenario") /\ pc[e] # "returned"
    BY <1>1 DEF RunScenario
  <2> QED
    BY <2>1, ReturnConsistent
<1>2. CASE ~Evaluate(Current(e), input[e]).failed
  <2>1. PICK o : o = ObservationOf(Current(e), input[e])
    OBVIOUS
  <2>2. /\ Observed(e, o) /\ pc[e] \in {"loop", "calling"}
        /\ More(e) /\ ~Current(e).custom /\ TypeOK
    BY <1>2, <2>1 DEF RunScenario, Consistent
  <2>3. Id(Current(e)) \in STRING
    BY <2>2, ScenarioEntries
  <2>4. o \in Observation /\ o.id = Id(Current(e)) /\ ~(o.matched /\ o.insufficient)
    BY <2>1, <2>2, <2>3, ScenarioObservation
  <2> QED
    BY <2>2, <2>4, ObservedConsistent
<1> QED
  BY <1>1, <1>2

(* So is what an evaluator answers, if it is a valid observation.          *)
LEMMA AnswerConsistent ==
  ASSUME Consistent, NEW e \in Evaluations, NEW o \in Answers, EvaluatorAnswers(e, o)
  PROVE  Consistent'
<1>1. CASE ValidObservation(Id(Current(e)), o)
  <2>1. Observed(e, o) /\ pc[e] \in {"loop", "calling"} /\ More(e)
    BY <1>1 DEF EvaluatorAnswers, Consistent, Status
  <2>2. o \in Observation /\ o.id = Id(Current(e)) /\ ~(o.matched /\ o.insufficient)
    BY <1>1, AnswersAssumption DEF ValidObservation
  <2> QED
    BY <2>1, <2>2, ObservedConsistent
<1>2. CASE ~ValidObservation(Id(Current(e)), o)
  <2>1. ReturnIncomplete(e, "evaluator") /\ pc[e] # "returned"
    BY <1>2 DEF EvaluatorAnswers
  <2> QED
    BY <2>1, ReturnConsistent
<1> QED
  BY <1>1, <1>2

(* Calling an evaluator changes nothing that was heard.                    *)
LEMMA CallConsistent ==
  ASSUME Consistent, NEW e \in Evaluations, CallEvaluator(e)
  PROVE  Consistent'
<1>1. TypeOK'
  BY DEF Consistent, TypeOK, CallEvaluator, registry, locals
<1>2. ValidRegistry(versions, registrations)'
  BY DEF Consistent, CallEvaluator, registry
<1>3. ASSUME NEW f \in Evaluations PROVE Heard(f)'
  BY DEF Consistent, Heard, CallEvaluator, locals
<1>4. ASSUME NEW f \in Evaluations PROVE Status(f)'
  BY DEF Consistent, TypeOK, Status, More, CallEvaluator, locals
<1> QED
  BY <1>1, <1>2, <1>3, <1>4 DEF Consistent

(* Only an evaluation that heard every entry completes.                    *)
LEMMA FinishConsistent ==
  ASSUME Consistent, NEW e \in Evaluations, Finish(e)
  PROVE  Consistent'
<1>1. TypeOK'
  BY DEF Consistent, TypeOK, Finish, registry
<1>2. ValidRegistry(versions, registrations)'
  BY DEF Consistent, Finish, registry
<1>3. ASSUME NEW f \in Evaluations PROVE Heard(f)'
  BY DEF Consistent, Heard, Finish
<1>4. ASSUME NEW f \in Evaluations PROVE Status(f)'
  <2>1. CASE f = e
    <3>1. Len(observations[e]) \in Nat /\ Len(entries[e]) \in Nat
      BY LenProperties DEF Consistent, TypeOK
    <3>2. Len(observations[e]) = Len(entries[e])
      BY <3>1 DEF Consistent, Heard, Finish, More
    <3> QED
      BY <2>1, <3>2 DEF Consistent, TypeOK, Status, Finish
  <2>2. CASE f # e
    BY <2>2 DEF Consistent, TypeOK, Status, More, Finish
  <2> QED
    BY <2>1, <2>2
<1> QED
  BY <1>1, <1>2, <1>3, <1>4 DEF Consistent

(* Every step keeps versions, observations and calls consistent.           *)
LEMMA StepConsistent == Consistent /\ [Next]_vars => Consistent'
<1> SUFFICES ASSUME Consistent, [Next]_vars PROVE Consistent'
  OBVIOUS
<1>1. CASE UNCHANGED vars
  <2>1. TypeOK' /\ ValidRegistry(versions, registrations)'
    BY <1>1 DEF Consistent, TypeOK, vars
  <2>2. ASSUME NEW e \in Evaluations PROVE (Heard(e) /\ Status(e))'
    BY <1>1 DEF Consistent, Heard, Status, More, vars
  <2> QED
    BY <2>1, <2>2 DEF Consistent
<1>2. CASE \/ \E r \in Registrations : Register(r)
           \/ \E vs \in VersionLists : ReplaceScenarios(vs)
  BY <1>2, ChangeConsistent
<1>3. ASSUME NEW e \in Evaluations, Run(e) \/ Return(e) \/ Cancel(e)
      PROVE  Consistent'
  <2>1. CASE Cancelled(e) \/ AnsweredLate(e)
    <3>1. ReturnIncomplete(e, "cancelled") /\ pc[e] # "returned"
      BY <2>1 DEF Cancelled, AnsweredLate
    <3> QED
      BY <3>1, ReturnConsistent
  <2>2. CASE EvaluatorFails(e)
    <3>1. ReturnIncomplete(e, "evaluator") /\ pc[e] # "returned"
      BY <2>2 DEF EvaluatorFails
    <3> QED
      BY <3>1, ReturnConsistent
  <2>3. CASE Begin(e)
    BY <2>3, BeginConsistent
  <2>4. CASE RunScenario(e)
    BY <2>4, RunScenarioConsistent
  <2>5. CASE CallEvaluator(e)
    BY <2>5, CallConsistent
  <2>6. CASE \E o \in Answers : EvaluatorAnswers(e, o)
    BY <2>6, AnswerConsistent
  <2>7. CASE Finish(e)
    BY <2>7, FinishConsistent
  <2>8. CASE Cancel(e)
    BY <2>8, CancelConsistent
  <2> QED
    BY <1>3, <2>1, <2>2, <2>3, <2>4, <2>5, <2>6, <2>7, <2>8 DEF Run, Return
<1> QED
  BY <1>1, <1>2, <1>3 DEF Next, AllReturned

-----------------------------------------------------------------------------
(* They are so in every state.                                             *)
LEMMA ConsistentInvariant == Spec => []Consistent
BY InitConsistent, StepConsistent, PTL DEF Spec

(* Registry and evaluations always have the shapes of the code's fields.   *)
THEOREM TypeCorrect == Spec => []TypeOK
<1>1. Consistent => TypeOK
  BY DEF Consistent
<1> QED
  BY <1>1, ConsistentInvariant, PTL

(* Every result speaks for one registry, entry by entry, with no ID twice, *)
(* however many evaluations run and however the registry changes.          *)
THEOREM ResultsSpeakForOneRegistry == Spec => []OneObservationEach
<1>1. Consistent => OneObservationEach
  BY DEF Consistent, Heard, OneObservationEach
<1> QED
  BY <1>1, ConsistentInvariant, PTL

(* Complete=true means every observation, no error and no cancellation.    *)
THEOREM CompletionIsEarned == Spec => []CompleteIsWhole
<1>1. Consistent => CompleteIsWhole
  BY DEF Consistent, Status, CompleteIsWhole
<1> QED
  BY <1>1, ConsistentInvariant, PTL

=============================================================================
