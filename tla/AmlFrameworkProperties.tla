----------------------- MODULE AmlFrameworkProperties -----------------------
(***************************************************************************)
(* What must hold of the AML Framework.                                    *)
(***************************************************************************)
EXTENDS AmlFramework

PreparedVersions == {v \in Versions : ValidCondition(v.condition)}

(* The shapes of the registry and of an evaluation's locals: what is       *)
(* installed, and what evaluations run over, has been prepared.            *)
TypeOK ==
  /\ versions \in Seq(PreparedVersions)
  /\ registrations \in Seq(Registrations)
  /\ changes \in 0 .. MaxChanges
  /\ input \in [Evaluations -> Inputs]
  /\ pc \in [Evaluations -> {"start", "loop", "calling", "returned"}]
  /\ entries \in [Evaluations -> Seq(PreparedVersions \cup Registrations)]
  /\ observations \in [Evaluations -> Seq(Observation)]
  /\ complete \in [Evaluations -> BOOLEAN]
  /\ error \in [Evaluations -> {"", "cancelled", "input", "scenario", "evaluator"}]
  /\ cancelled \subseteq Evaluations

(* A result speaks for one registry, in its order: the observations are    *)
(* those of the first entries of the snapshot, one each, and no two        *)
(* entries bear the same ID, which is all a caller can tell observations   *)
(* apart by, however the registry changes meanwhile (framework.go:109-175).*)
(* None says both that its scenario matched and that its data were missing.*)
OneObservationEach ==
  \A e \in Evaluations :
    /\ DistinctIds(entries[e])
    /\ Len(observations[e]) <= Len(entries[e])
    /\ \A i \in DOMAIN observations[e] :
         /\ observations[e][i].id = Id(entries[e][i])
         /\ ~(observations[e][i].matched /\ observations[e][i].insufficient)

(* "Errors stop evaluation and cancellation never yields Complete=true":   *)
(* an evaluation returns either the observation of every entry, with no    *)
(* error and its context alive, or an error and Complete=false.            *)
CompleteIsWhole ==
  \A e \in Evaluations : pc[e] = "returned" =>
    /\ complete[e] <=> error[e] = ""
    /\ complete[e] =>
         /\ Len(observations[e]) = Len(entries[e])
         /\ input[e].serializable /\ e \notin cancelled

=============================================================================
