----------------------------- MODULE Decisions -----------------------------
(***************************************************************************)
(* The three transfer decisions of package domain and the two ways the     *)
(* engines move between them: a hit escalates, a cancelled call that had   *)
(* reached "allow" is downgraded.  Strings as in domain.go.                *)
(***************************************************************************)

DecisionAllow  == "allow"
DecisionReview == "review"
DecisionBlock  == "block"

Decision == {DecisionAllow, DecisionReview, DecisionBlock}

(* A hit with outcome `outcome` against the running decision: block always *)
(* wins, review only replaces allow, allow changes nothing.                *)
Escalate(current, outcome) ==
  IF \/ outcome = DecisionBlock
     \/ outcome = DecisionReview /\ current = DecisionAllow
  THEN outcome ELSE current

(* A call found cancelled after its evaluation may not report allow.       *)
WithdrawAllow(decision) ==
  IF decision = DecisionAllow THEN DecisionReview ELSE decision

(* A payload that conflicts with its idempotency key is reviewed unless it *)
(* is already blocked.                                                     *)
ReviewUnlessBlocked(decision) ==
  IF decision = DecisionBlock THEN decision ELSE DecisionReview

=============================================================================
