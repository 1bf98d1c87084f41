----------------------------- MODULE Framework ------------------------------
(***************************************************************************)
(* engine.Framework: a registry of rules and custom evaluators, and        *)
(* evaluations that run over a snapshot of it while Register and           *)
(* ReplaceRules (called by anyone, callbacks included) change it and their *)
(* contexts end.  An evaluation takes                                      *)
(*                                                                         *)
(*   "start"     nothing done yet                                          *)
(*   "loop"      between two evaluators, about to look at ctx              *)
(*   "calling"   inside a rule or a custom evaluator, no lock held         *)
(*   "returned"  result[e] and failures[e] are what the caller gets        *)
(*                                                                         *)
(* An evaluator is any answer its interface allows: an error, or a list of *)
(* hits, or both.  Scores are integers; a sum beyond MaxScore, of either   *)
(* sign, stands for one that is not finite.  Reasons are kept as the set   *)
(* of their kinds.                                                         *)
(***************************************************************************)
EXTENDS Integers, Sequences, FiniteSets, FiniteSetsExt, Decisions, PriorityOrder

CONSTANTS
  Evaluations,      \* the invocations of Evaluate
  Policies,         \* the policies the framework may be built with
  Inputs,           \* what callers of Evaluate supply
  RuleSets,         \* rule sets given to NewFramework and ReplaceRules
  Registrations,    \* evaluators given to Register
  HitLists,         \* what evaluators may answer
  MaxScore,         \* the largest finite score
  MaxChanges        \* bound on the successful registry changes

(* ids and priorities of rules and registrations; wellFormed is validID,   *)
(* and rules.Validate for a rule or a non-nil evaluator for a registration *)
Entry == [id : STRING, priority : Int, wellFormed : BOOLEAN, enabled : BOOLEAN, custom : BOOLEAN]

(* What evaluators answer: hits; wellFormed is validID of the rule's ID.   *)
Answer == [outcome : STRING, score : Int, wellFormed : BOOLEAN]

ASSUME MaxScoreAssumption == MaxScore \in Nat
ASSUME MaxChangesAssumption == MaxChanges \in Nat
ASSUME RuleSetsAssumption ==
  \A rules \in RuleSets : rules \in Seq(Entry) /\ \A i \in DOMAIN rules : ~rules[i].custom
ASSUME RegistrationsAssumption == \A r \in Registrations : r \in Entry /\ r.custom
ASSUME HitListsAssumption == HitLists \subseteq Seq(Answer)

VARIABLES
  ruleSet, registrations,      \* guarded by f.mu
  policy,                      \* never changes
  changes,
  input, pc, steps, pos, result, failures, cancelled

registry == <<ruleSet, registrations>>
vars == <<ruleSet, registrations, policy, changes,
          input, pc, steps, pos, result, failures, cancelled>>

-----------------------------------------------------------------------------
(* The registry.                                                           *)

FaultyValidRegistry(rules, regs) ==
  /\ \A i \in DOMAIN rules : rules[i].wellFormed
  /\ \A i \in DOMAIN regs : regs[i].wellFormed
  /\ \A i, j \in DOMAIN rules : rules[i].id = rules[j].id => i = j
  /\ \A i, j \in DOMAIN regs : regs[i].id = regs[j].id => i = j

(* validateRegistry: rules and registrations share one name space.         *)
ValidRegistry(rules, regs) ==
  LET all == rules \o regs
  IN  /\ \A i \in DOMAIN all : all[i].wellFormed
      /\ \A i, j \in DOMAIN all : all[i].id = all[j].id => i = j

Change == changes < MaxChanges /\ changes' = changes + 1

(* Register and ReplaceRules validate against the other half of the        *)
(* registry in the critical section that installs; a rejected call returns *)
(* an error and changes nothing.                                           *)
Register(r) ==
  /\ ValidRegistry(ruleSet, Append(registrations, r))
  /\ registrations' = Append(registrations, r)
  /\ Change
  /\ UNCHANGED <<ruleSet, policy, input, pc, steps, pos, result, failures, cancelled>>

ReplaceRules(rules) ==
  /\ ValidRegistry(rules, registrations)
  /\ ruleSet' = rules
  /\ Change
  /\ UNCHANGED <<registrations, policy, input, pc, steps, pos, result, failures, cancelled>>

(* The steps of an evaluation: one stable order over both halves.          *)
Snapshot == StableByPriority(ruleSet \o registrations)

-----------------------------------------------------------------------------
(* The result an evaluation builds.                                        *)

Untouched == [decision |-> DecisionAllow, score |-> 0, hits |-> <<>>, reasons |-> {"clean"}]

(* The placeholder goes with the first reason.                             *)
AppendReason(reasons, reason) == IF reasons = {"clean"} THEN {reason} ELSE reasons \cup {reason}

FaultyFail(res, kind) ==
  [res EXCEPT !.decision = IF policy.failure = "block" THEN DecisionBlock ELSE DecisionReview,
              !.reasons = IF policy.replaceReasons THEN {kind} ELSE AppendReason(@, kind)]

(* fail(err): the failure policy decides, but never against a block.       *)
Fail(res, kind) ==
  [res EXCEPT
     !.decision = IF res.decision = DecisionBlock \/ policy.failure = "block"
                  THEN DecisionBlock ELSE DecisionReview,
     !.reasons  = IF policy.replaceReasons THEN {kind} ELSE AppendReason(@, kind)]

(* The score before the first hit and after each.                          *)
RunningSum(hits, initial) ==
  LET sum[n \in 0 .. Len(hits)] == IF n = 0 THEN initial ELSE sum[n - 1] + hits[n].score
  IN  sum

Finite == -MaxScore .. MaxScore

(* validateHits: the answer counts as a whole or not at all.               *)
AcceptableHits(hits, initial) ==
  \A i \in DOMAIN hits :
    /\ hits[i].wellFormed
    /\ \/ hits[i].outcome \in Decision
       \/ hits[i].outcome = "" /\ policy.allowEmptyOutcome
    /\ RunningSum(hits, initial)[i] \in Finite

FaultyApplyHit(res, hit) ==
  [decision |-> hit.outcome, score |-> res.score + hit.score,
   hits |-> Append(res.hits, hit), reasons |-> AppendReason(res.reasons, "hit")]

ApplyHit(res, hit) ==
  [decision |-> Escalate(res.decision, hit.outcome), score |-> res.score + hit.score,
   hits |-> Append(res.hits, hit), reasons |-> AppendReason(res.reasons, "hit")]

(* The result before the first hit and after each.                         *)
AfterHits(res, hits) ==
  LET after[n \in 0 .. Len(hits)] == IF n = 0 THEN res ELSE ApplyHit(after[n - 1], hits[n])
  IN  after

(* Hits count in order, with StopOnBlock up to the first after which the   *)
(* decision is a block.                                                    *)
ApplyHits(res, hits) ==
  LET after == AfterHits(res, hits)
      stops == {n \in DOMAIN hits : policy.stopOnBlock /\ after[n].decision = DecisionBlock}
  IN  after[IF stops = {} THEN Len(hits) ELSE Min(stops)]

(* Zero thresholds are off unless the policy includes them.                *)
Reaches(score, threshold) ==
  (threshold > 0 \/ policy.includeZero) /\ score >= threshold

ApplyThresholds(res, in) ==
  IF res.decision = DecisionBlock THEN res
  ELSE IF Reaches(res.score, in.blockAt)
  THEN [res EXCEPT !.decision = DecisionBlock, !.reasons = AppendReason(@, "threshold")]
  ELSE IF Reaches(res.score, in.reviewAt)
  THEN [res EXCEPT !.decision = DecisionReview, !.reasons = AppendReason(@, "threshold")]
  ELSE res

-----------------------------------------------------------------------------
Init ==
  /\ policy \in Policies
  /\ ruleSet \in {rules \in RuleSets : ValidRegistry(rules, <<>>)}
  /\ registrations = <<>>
  /\ changes = 0
  /\ input \in [Evaluations -> Inputs]
  /\ pc = [e \in Evaluations |-> "start"]
  /\ steps = [e \in Evaluations |-> <<>>]
  /\ pos = [e \in Evaluations |-> 1]
  /\ result = [e \in Evaluations |-> Untouched]
  /\ failures = [e \in Evaluations |-> {}]
  /\ cancelled = {}

Cancel(e) ==
  /\ e \notin cancelled /\ pc[e] # "returned"
  /\ cancelled' = cancelled \cup {e}
  /\ UNCHANGED <<registry, policy, changes, input, pc, steps, pos, result, failures>>

Return(e, res) ==
  /\ result' = [result EXCEPT ![e] = res]
  /\ pc' = [pc EXCEPT ![e] = "returned"]

ReturnFailed(e, kind) ==
  /\ failures' = [failures EXCEPT ![e] = @ \cup {kind}]
  /\ Return(e, Fail(result[e], kind))

(* Snapshot, then everything before the first evaluator: ctx, validation,  *)
(* the thresholds themselves, blocked accounts.                            *)
Begin(e) ==
  LET in == input[e]
  IN  /\ pc[e] = "start"
      /\ steps' = [steps EXCEPT ![e] = Snapshot]
      /\ IF e \in cancelled THEN ReturnFailed(e, "cancelled")
         ELSE IF ~in.valid
         THEN /\ failures' = [failures EXCEPT ![e] = @ \cup {"invalid"}]
              /\ Return(e, LET res == Fail(result[e], "invalid")
                           IN  IF in.onInvalid = DecisionBlock
                               THEN [res EXCEPT !.decision = DecisionBlock] ELSE res)
         ELSE IF ~in.thresholdsFinite THEN ReturnFailed(e, "thresholds")
         ELSE IF in.blocked
         THEN /\ Return(e, [result[e] EXCEPT !.decision = DecisionBlock, !.reasons = {"account"}])
              /\ UNCHANGED failures
         ELSE pc' = [pc EXCEPT ![e] = "loop"] /\ UNCHANGED <<result, failures>>
      /\ UNCHANGED <<registry, policy, changes, input, pos, cancelled>>

Step(e) == steps[e][pos[e]]
More(e) == pos[e] <= Len(steps[e])
Skipped(e) ==
  \/ Step(e).id \in input[e].disabled
  \/ ~Step(e).custom /\ ~Step(e).enabled

StepCancelled(e) ==
  /\ pc[e] = "loop" /\ e \in cancelled
  /\ ReturnFailed(e, "cancelled")
  /\ UNCHANGED <<registry, policy, changes, input, steps, pos, cancelled>>

Skip(e) ==
  /\ pc[e] = "loop" /\ e \notin cancelled /\ More(e) /\ Skipped(e)
  /\ pos' = [pos EXCEPT ![e] = @ + 1]
  /\ UNCHANGED <<registry, policy, changes, input, pc, steps, result, failures, cancelled>>

Call(e) ==
  /\ pc[e] = "loop" /\ e \notin cancelled /\ More(e) /\ ~Skipped(e)
  /\ pc' = [pc EXCEPT ![e] = "calling"]
  /\ UNCHANGED <<registry, policy, changes, input, steps, pos, result, failures, cancelled>>

(* A rule answers at most one hit, and a well-formed one.                  *)
CanAnswer(e, hits) ==
  \/ Step(e).custom
  \/ Len(hits) <= 1 /\ \A i \in DOMAIN hits : hits[i].wellFormed

(* On to the next evaluator, or out of the loop.                           *)
Continue(e, res) ==
  /\ result' = [result EXCEPT ![e] = res]
  /\ pos' = [pos EXCEPT ![e] = @ + 1]
  /\ pc' = [pc EXCEPT ![e] = "loop"]

EvaluatorFails(e) ==
  /\ failures' = [failures EXCEPT ![e] = @ \cup {"evaluator"}]
  /\ IF policy.stopOnError
     THEN Return(e, Fail(result[e], "evaluator")) /\ UNCHANGED pos
     ELSE Continue(e, Fail(result[e], "evaluator"))

(* The last look at ctx before the next evaluator only, so that what came  *)
(* late is in the result.                                                  *)
FaultyAnsweredLate(e, hits) ==
  /\ pc[e] = "calling" /\ e \in cancelled
  /\ CanAnswer(e, hits)
  /\ IF AcceptableHits(hits, result[e].score)
     THEN Continue(e, ApplyHits(result[e], hits)) /\ UNCHANGED failures
     ELSE EvaluatorFails(e)
  /\ UNCHANGED <<registry, policy, changes, input, steps, cancelled>>

(* The answer of an evaluator whose context is done by now is not used.    *)
AnsweredLate(e, hits) ==
  /\ pc[e] = "calling" /\ e \in cancelled
  /\ CanAnswer(e, hits)
  /\ ReturnFailed(e, "cancelled")
  /\ UNCHANGED <<registry, policy, changes, input, steps, pos, cancelled>>

(* Hits that come with an error are not used; a rule gives none with one.  *)
AnswersError(e, hits) ==
  /\ pc[e] = "calling" /\ e \notin cancelled
  /\ Step(e).custom \/ hits = <<>>
  /\ EvaluatorFails(e)
  /\ UNCHANGED <<registry, policy, changes, input, steps, cancelled>>

(* Each hit counts as soon as it has been looked at, so that those ahead   *)
(* of one that is refused stay in the result.                              *)
FaultyAnswersHits(e, hits) ==
  /\ pc[e] = "calling" /\ e \notin cancelled
  /\ CanAnswer(e, hits)
  /\ LET good == {n \in 0 .. Len(hits) : AcceptableHits(SubSeq(hits, 1, n), result[e].score)}
         n    == CHOOSE k \in good : \A m \in good : m <= k
         res  == ApplyHits(result[e], SubSeq(hits, 1, n))
     IN  IF n = Len(hits)
         THEN /\ IF policy.stopOnBlock /\ hits # <<>> /\ res.decision = DecisionBlock
                 THEN Return(e, res) /\ UNCHANGED pos
                 ELSE Continue(e, res)
              /\ UNCHANGED failures
         ELSE /\ failures' = [failures EXCEPT ![e] = @ \cup {"evaluator"}]
              /\ IF policy.stopOnError
                 THEN Return(e, Fail(res, "evaluator")) /\ UNCHANGED pos
                 ELSE Continue(e, Fail(res, "evaluator"))
  /\ UNCHANGED <<registry, policy, changes, input, steps, cancelled>>

AnswersHits(e, hits) ==
  /\ pc[e] = "calling" /\ e \notin cancelled
  /\ CanAnswer(e, hits)
  /\ IF AcceptableHits(hits, result[e].score)
     THEN LET res == ApplyHits(result[e], hits)
          IN  /\ IF policy.stopOnBlock /\ hits # <<>> /\ res.decision = DecisionBlock
                 THEN Return(e, res) /\ UNCHANGED pos
                 ELSE Continue(e, res)
              /\ UNCHANGED failures
     ELSE EvaluatorFails(e)
  /\ UNCHANGED <<registry, policy, changes, input, steps, cancelled>>

FaultyFinish(e) ==
  /\ pc[e] = "loop" /\ ~More(e)
  /\ Return(e, ApplyThresholds(result[e], input[e]))
  /\ UNCHANGED <<registry, policy, changes, input, steps, pos, failures, cancelled>>

Finish(e) ==
  /\ pc[e] = "loop" /\ e \notin cancelled /\ ~More(e)
  /\ Return(e, ApplyThresholds(result[e], input[e]))
  /\ UNCHANGED <<registry, policy, changes, input, steps, pos, failures, cancelled>>

Answers(e, hits) == AnsweredLate(e, hits) \/ AnswersError(e, hits) \/ AnswersHits(e, hits)
Proceed(e) == Begin(e) \/ StepCancelled(e) \/ Skip(e) \/ Call(e) \/ Finish(e)

AllReturned == (\A e \in Evaluations : pc[e] = "returned") /\ UNCHANGED vars

Next ==
  \/ \E r \in Registrations : Register(r)
  \/ \E rules \in RuleSets : ReplaceRules(rules)
  \/ \E e \in Evaluations : Cancel(e) \/ Proceed(e) \/ \E hits \in HitLists : Answers(e, hits)
  \/ AllReturned

Spec == Init /\ [][Next]_vars

=============================================================================
