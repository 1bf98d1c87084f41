--------------------------- MODULE LegacyEvaluate ---------------------------
(***************************************************************************)
(* engine.Engine.evaluate: how the legacy engine turns account blocks,     *)
(* validation, an idempotency conflict, rule verdicts and score thresholds *)
(* into one decision.                                                      *)
(*                                                                         *)
(* What a rule says of a transfer is its verdict: "miss", "hit" or "error".*)
(* Scores are integers, which add without rounding; reasons are kept as    *)
(* the set of their kinds.                                                 *)
(***************************************************************************)
EXTENDS Integers, Sequences, FiniteSets, Decisions, PriorityOrder

Verdict == {"miss", "hit", "error"}

(* What a rule of the engine says of itself; New does not validate it.     *)
InstalledRule == [id : STRING, priority : Int, enabled : BOOLEAN, outcome : STRING, score : Int]

(* A ValidationFailureDecision that is none of the three means review.     *)
OnInvalid(context) ==
  IF context.onInvalid \in Decision THEN context.onInvalid ELSE DecisionReview

Clean == [decision |-> DecisionAllow, score |-> 0, hits |-> {}, reasons |-> {"clean"}]

(* The check before the first rule: an invalid request replaces the        *)
(* reasons, a conflict forces review, even where validation had blocked.   *)
Opening(conflict, context) ==
  [decision |-> IF conflict THEN DecisionReview
                ELSE IF context.valid THEN DecisionAllow
                ELSE OnInvalid(context),
   score    |-> 0,
   hits     |-> {},
   reasons  |-> (IF context.valid THEN {"clean"} ELSE {"invalid"})
                \cup (IF conflict THEN {"conflict"} ELSE {})]

Active(context, rule) == rule.enabled /\ rule.id \notin context.disabled

(* The rule's outcome taken over without looking at the running decision,  *)
(* so that a failed rule leaves no decision.                               *)
UnsetApplyRule(check, rule, verdict) ==
  IF verdict = "miss" THEN check
  ELSE [check EXCEPT !.decision = IF verdict = "hit" THEN rule.outcome ELSE "",
                     !.reasons = @ \cup {verdict}]

(* One rule: an error forces review, even after a block; a hit adds its    *)
(* score and escalates.                                                    *)
ApplyRule(check, rule, verdict) ==
  CASE verdict = "miss"  -> check
    [] verdict = "error" -> [check EXCEPT !.decision = DecisionReview,
                                          !.reasons = @ \cup {"error"}]
    [] verdict = "hit"   -> [decision |-> Escalate(check.decision, rule.outcome),
                             score    |-> check.score + rule.score,
                             hits     |-> check.hits \cup {rule.id},
                             reasons  |-> check.reasons \cup {"hit"}]

(* The rules one after the other, those that are off left out.             *)
ApplyRules(conflict, context, rules, verdicts) ==
  LET after[n \in 0 .. Len(rules)] ==
        IF n = 0 THEN Opening(conflict, context)
        ELSE IF Active(context, rules[n])
        THEN ApplyRule(after[n - 1], rules[n], verdicts[n])
        ELSE after[n - 1]
  IN  after[Len(rules)]

FaultyApplyThresholds(context, check) ==
  IF check.decision # DecisionBlock /\ context.blockAt > 0 /\ check.score > context.blockAt
  THEN [check EXCEPT !.decision = DecisionBlock, !.reasons = @ \cup {"threshold"}]
  ELSE IF check.decision # DecisionBlock /\ context.reviewAt > 0 /\ check.score > context.reviewAt
  THEN [check EXCEPT !.decision = DecisionReview, !.reasons = @ \cup {"threshold"}]
  ELSE check

(* A positive threshold the score reaches escalates what is not blocked.   *)
ApplyThresholds(context, check) ==
  IF check.decision = DecisionBlock THEN check
  ELSE IF context.blockAt > 0 /\ check.score >= context.blockAt
  THEN [check EXCEPT !.decision = DecisionBlock, !.reasons = @ \cup {"threshold"}]
  ELSE IF context.reviewAt > 0 /\ check.score >= context.reviewAt
  THEN [check EXCEPT !.decision = DecisionReview, !.reasons = @ \cup {"threshold"}]
  ELSE check

FaultyDropPlaceholder(check) ==
  IF check.decision # DecisionAllow
  THEN [check EXCEPT !.reasons = @ \ {"clean"}] ELSE check

(* "no fraud signal detected" goes once there is a hit or no allow.        *)
DropPlaceholder(check) ==
  IF check.hits # {} \/ check.decision # DecisionAllow
  THEN [check EXCEPT !.reasons = @ \ {"clean"}] ELSE check

Evaluate(conflict, context, rules, verdicts) ==
  IF context.blocked
  THEN [decision |-> DecisionBlock, score |-> 0, hits |-> {}, reasons |-> {"account"}]
  ELSE DropPlaceholder(ApplyThresholds(context, ApplyRules(conflict, context, rules, verdicts)))

=============================================================================
