------------------------- MODULE FrameworkProperties ------------------------
(***************************************************************************)
(* What must hold of Framework.                                            *)
(***************************************************************************)
EXTENDS Framework

Returned(e) == pc[e] = "returned"

(* The shapes of the registry and of an evaluation's locals.               *)
TypeOK ==
  /\ \A i \in DOMAIN ruleSet : ruleSet[i] \in Entry /\ ~ruleSet[i].custom
  /\ registrations \in Seq(Registrations)
  /\ policy \in Policies
  /\ changes \in 0 .. MaxChanges
  /\ input \in [Evaluations -> Inputs]
  /\ pc \in [Evaluations -> {"start", "loop", "calling", "returned"}]
  /\ \A e \in Evaluations :
       /\ pos[e] \in 1 .. Len(steps[e]) + 1
       /\ result[e].decision \in Decision /\ result[e].score \in Int
       /\ failures[e] \subseteq {"cancelled", "invalid", "thresholds", "evaluator"}
  /\ cancelled \subseteq Evaluations

(* An evaluation runs over one registry that was installed as a whole: no  *)
(* ID twice across rules and registrations, in priority order, rules       *)
(* before registrations of the same priority (framework.go:115-154,        *)
(* 175-188).                                                               *)
SnapshotCoherent ==
  \A e \in Evaluations : \A i, j \in DOMAIN steps[e] :
    i < j =>
      /\ steps[e][i].id # steps[e][j].id
      /\ steps[e][i].priority <= steps[e][j].priority
      /\ steps[e][i].priority = steps[e][j].priority => ~(steps[e][i].custom /\ ~steps[e][j].custom)

(* "A custom allow hit cannot downgrade a review/block": once an           *)
(* evaluation is at block nothing brings it back, not a later hit, a later *)
(* failure, a cancellation or a threshold; and it never returns to allow.  *)
NoDowngrade ==
  [][\A e \in Evaluations :
       /\ result[e].decision = DecisionBlock => result'[e].decision = DecisionBlock
       /\ result[e].decision = DecisionReview => result'[e].decision # DecisionAllow]_vars

(* "Neither validation failure nor cancellation can produce a successful   *)
(* allow", nor can any other failure: from its first failure on, an        *)
(* evaluation is at review or block, at block if the policy says so.       *)
FailureNeverAllows ==
  \A e \in Evaluations : failures[e] # {} =>
    /\ result[e].decision # DecisionAllow
    /\ policy.failure = "block" => result[e].decision = DecisionBlock

(* The evaluation passed the entry checks and heard every step of its      *)
(* snapshot.                                                               *)
Completed(e) ==
  /\ input[e].valid /\ input[e].thresholdsFinite /\ ~input[e].blocked
  /\ "cancelled" \notin failures[e]
  /\ ~More(e)

Outcomes(e) == {result[e].hits[i].outcome : i \in DOMAIN result[e].hits}
ReachedAt(e, threshold) ==
  (threshold > 0 \/ policy.includeZero) /\ result[e].score >= threshold

(* An allow exactly when the whole snapshot was heard without a failure or *)
(* a cancellation and nothing in it asked for more; a block exactly for    *)
(* one of its five causes.                                                 *)
Explained(e) ==
  /\ result[e].decision = DecisionAllow <=>
       /\ Completed(e) /\ failures[e] = {} /\ e \notin cancelled
       /\ Outcomes(e) \subseteq {DecisionAllow, ""}
       /\ ~ReachedAt(e, input[e].reviewAt) /\ ~ReachedAt(e, input[e].blockAt)
  /\ result[e].decision = DecisionBlock <=>
       \/ failures[e] # {} /\ policy.failure = "block"
       \/ failures[e] = {"invalid"} /\ input[e].onInvalid = DecisionBlock
       \/ failures[e] = {} /\ input[e].blocked
       \/ DecisionBlock \in Outcomes(e)
       \/ Completed(e) /\ ReachedAt(e, input[e].blockAt)

(* The decision a caller gets can be explained from what the evaluation    *)
(* went through (framework.go:190-303).                                    *)
DecisionExplained == \A e \in Evaluations : Returned(e) => Explained(e)

=============================================================================
