-------------------------- MODULE FrameworkHistory --------------------------
(***************************************************************************)
(* Framework with a memory of what its evaluators answered, to say which   *)
(* hits a result may hold.  The history is read by no step of the program: *)
(* every step of HSpec is one of Spec.                                     *)
(***************************************************************************)
EXTENDS FrameworkProperties

(* answers[e]: for each call evaluation e made, the hits that came back,   *)
(* whether with an error, whether after the context had ended, and the     *)
(* hits of the result until then.                                          *)
VARIABLE answers

hvars == <<vars, answers>>

Hear(e, hits, error) ==
  answers' = [answers EXCEPT ![e] = Append(@,
    [hits |-> hits, error |-> error, late |-> e \in cancelled, before |-> result[e].hits])]

HInit == Init /\ answers = [e \in Evaluations |-> <<>>]

HNext ==
  \/ /\ \/ \E r \in Registrations : Register(r)
        \/ \E rules \in RuleSets : ReplaceRules(rules)
        \/ \E e \in Evaluations : Cancel(e) \/ Proceed(e)
        \/ AllReturned
     /\ UNCHANGED answers
  \/ \E e \in Evaluations, hits \in HitLists :
       \/ AnsweredLate(e, hits) /\ Hear(e, hits, FALSE)
       \/ AnswersError(e, hits) /\ Hear(e, hits, TRUE)
       \/ AnswersHits(e, hits) /\ Hear(e, hits, FALSE)

HSpec == HInit /\ [][HNext]_hvars

-----------------------------------------------------------------------------
Total(hits) == RunningSum(hits, 0)[Len(hits)]

(* An answer that must add nothing: late, an error, or one hit of it is    *)
(* not acceptable, be it the last.                                         *)
Refused(answer) ==
  \/ answer.late \/ answer.error
  \/ \E i \in DOMAIN answer.hits :
       \/ ~answer.hits[i].wellFormed
       \/ answer.hits[i].outcome \notin Decision \cup (IF policy.allowEmptyOutcome THEN {""} ELSE {})
       \/ Total(answer.before \o SubSeq(answer.hits, 1, i)) \notin Finite

(* The hits of the result when e heard its n-th answer, and when it heard  *)
(* the next one, or now.                                                   *)
HitsBefore(e, n) == IF n <= Len(answers[e]) THEN answers[e][n].before ELSE result[e].hits
HitsAfter(e, n) == HitsBefore(e, n + 1)

(* With StopOnBlock an answer counts up to the hit that ends the           *)
(* evaluation at block.                                                    *)
CutShort(e, n) ==
  /\ policy.stopOnBlock /\ Returned(e) /\ result[e].decision = DecisionBlock
  /\ \E k \in DOMAIN answers[e][n].hits :
       HitsAfter(e, n) = HitsBefore(e, n) \o SubSeq(answers[e][n].hits, 1, k)

(* What became of the n-th answer of e.                                    *)
Taken(e, n) ==
  IF Refused(answers[e][n]) THEN HitsAfter(e, n) = HitsBefore(e, n)
  ELSE \/ HitsAfter(e, n) = HitsBefore(e, n) \o answers[e][n].hits
       \/ CutShort(e, n)

(* "Partial hits returned together with an error are discarded.  Invalid   *)
(* hits are evaluation failures, not signals": a result holds the hits of  *)
(* the answers that came in time, without error and acceptable as a whole, *)
(* in the order in which they came, and no other hit; its score is their   *)
(* sum and finite (framework.go:245-287, 311-332).                         *)
OnlyAcceptedHitsCount ==
  \A e \in Evaluations :
    /\ HitsBefore(e, 1) = <<>>
    /\ \A n \in DOMAIN answers[e] : Taken(e, n)
    /\ result[e].score = Total(result[e].hits) /\ result[e].score \in Finite

=============================================================================
