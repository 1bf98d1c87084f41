---------------------------- MODULE MCFramework -----------------------------
(***************************************************************************)
(* Framework on a small instance: evaluations share nothing but the        *)
(* registry, so one of them under a changing registry shows what several   *)
(* would.                                                                  *)
(***************************************************************************)
EXTENDS FrameworkHistory

Rule(id, priority) ==
  [id |-> id, priority |-> priority, wellFormed |-> TRUE, enabled |-> TRUE, custom |-> FALSE]
Custom(id, priority) == [Rule(id, priority) EXCEPT !.custom = TRUE]

(* A rule set and its replacement, with a rule switched off, and one that  *)
(* takes the name of a registration; repeated and malformed IDs.           *)
SomeRuleSets ==
  {<<Rule("r", 1)>>, <<Rule("x", 1), [Rule("s", 0) EXCEPT !.enabled = FALSE]>>,
   <<Rule("r", 1), Rule("r", 2)>>, <<[Rule("bad id", 1) EXCEPT !.wellFormed = FALSE]>>}
SomeRegistrations == {Custom("x", 1), Custom("y", 0), [Custom("", 0) EXCEPT !.wellFormed = FALSE]}

Default == [failure |-> "review", stopOnBlock |-> FALSE, stopOnError |-> TRUE,
            replaceReasons |-> FALSE, includeZero |-> FALSE, allowEmptyOutcome |-> FALSE]
FullCompatibility == [failure |-> "review", stopOnBlock |-> TRUE, stopOnError |-> TRUE,
                      replaceReasons |-> TRUE, includeZero |-> TRUE, allowEmptyOutcome |-> TRUE]

(* DefaultPolicy, FullCompatibilityPolicy, and policies that hear every    *)
(* evaluator, failing to review and to block.                              *)
SomePolicies ==
  {Default, FullCompatibility, [Default EXCEPT !.stopOnError = FALSE],
   [Default EXCEPT !.stopOnError = FALSE, !.failure = "block", !.stopOnBlock = TRUE]}

Plain == [valid |-> TRUE, onInvalid |-> "", thresholdsFinite |-> TRUE, blocked |-> FALSE,
          disabled |-> {}, reviewAt |-> 0, blockAt |-> 0]
SomeInputs ==
  {Plain, [Plain EXCEPT !.reviewAt = 1, !.blockAt = 2],
   [Plain EXCEPT !.disabled = {"r", "x"}, !.reviewAt = 1],
   [Plain EXCEPT !.valid = FALSE, !.onInvalid = DecisionBlock],
   [Plain EXCEPT !.valid = FALSE, !.onInvalid = DecisionAllow],
   [Plain EXCEPT !.thresholdsFinite = FALSE], [Plain EXCEPT !.blocked = TRUE]}

Hit(outcome, score) == [outcome |-> outcome, score |-> score, wellFormed |-> TRUE]

(* No hit, one of each outcome, a score-only hit, two hits of which the    *)
(* first blocks, a good hit and one that makes the sum overflow or has no  *)
(* ID; two negative scores overflow as well.                               *)
SomeHitLists ==
  {<<>>, <<Hit(DecisionAllow, 1)>>, <<Hit(DecisionReview, -2)>>, <<Hit("", 1)>>,
   <<Hit(DecisionBlock, 0), Hit(DecisionAllow, 1)>>, <<Hit(DecisionAllow, 2), Hit(DecisionReview, 2)>>,
   <<Hit(DecisionReview, 1), [Hit(DecisionBlock, 1) EXCEPT !.wellFormed = FALSE]>>}

=============================================================================
