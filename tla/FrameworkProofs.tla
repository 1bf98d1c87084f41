--------------------------- MODULE FrameworkProofs --------------------------
(***************************************************************************)
(* Proofs about Framework: the snapshot an evaluation runs over, and what  *)
(* its decision, score and hits say of what it was answered.               *)
(***************************************************************************)
EXTENDS FrameworkHistory, OperatorProofs

(* The kinds of failures and of reasons.                                   *)
Failure == {"cancelled", "invalid", "thresholds", "evaluator"}
Reason == Failure \cup {"clean", "account", "hit", "threshold"}

Result == [decision : Decision, score : Int, hits : Seq(Answer), reasons : SUBSET Reason]

(* sum adds up the scores of hits, one after the other.                    *)
Adds(sum, hits, initial) ==
  /\ sum \in [0 .. Len(hits) -> Int]
  /\ sum[0] = initial
  /\ \A i \in 1 .. Len(hits) : sum[i] = sum[i - 1] + hits[i].score

(* The elements of a list of hits are hits, with integer scores.           *)
LEMMA ElementsAreAnswers ==
  ASSUME NEW hits \in Seq(Answer)
  PROVE  /\ Len(hits) \in Nat /\ DOMAIN hits = 1 .. Len(hits)
         /\ \A i \in 1 .. Len(hits) : hits[i] \in Answer /\ hits[i].score \in Int
<1>1. \A i \in 1 .. Len(hits) : hits[i] \in Answer
  BY ElementOfSeq
<1> QED
  BY <1>1, LenProperties DEF Answer

(* RunningSum does.                                                        *)
LEMMA RunningSumAdds ==
  ASSUME NEW hits \in Seq(Answer), NEW initial \in Int
  PROVE  Adds(RunningSum(hits, initial), hits, initial)
<1> DEFINE n == Len(hits)
           Equation(g) == g = [i \in 0 .. n |-> IF i = 0 THEN initial ELSE g[i - 1] + hits[i].score]
           F == [p \in (1 .. n) \X Int |-> p[2] + hits[p[1]].score]
           sum == CHOOSE g : Equation(g)
<1>1. n \in Nat /\ \A i \in 1 .. n : hits[i].score \in Int
  BY ElementsAreAnswers
<1>2. RunningSum(hits, initial) = sum
  BY DEF RunningSum
<1> HIDE DEF n
<1>3. F \in [(1 .. n) \X Int -> Int]
  BY <1>1
<1> HIDE DEF F
<1>4. PICK g \in [0 .. n -> Int] : Recurs(g, n, initial, F)
  BY <1>1, <1>3, RecursionExists
<1>5. \A i \in 1 .. n : F[<<i, g[i - 1]>>] = g[i - 1] + hits[i].score
  <2>1. \A i \in 1 .. n : i - 1 \in 0 .. n
    BY <1>1
  <2> QED
    BY <2>1 DEF F
<1>6. Equation(g)
  <2>1. g[0] = initial /\ \A i \in 1 .. n : g[i] = g[i - 1] + hits[i].score
    BY <1>4, <1>5 DEF Recurs
  <2>2. \A i \in 0 .. n : i = 0 \/ i \in 1 .. n
    BY <1>1
  <2>3. \A i \in 0 .. n : g[i] = IF i = 0 THEN initial ELSE g[i - 1] + hits[i].score
    BY <2>1, <2>2
  <2> QED
    BY <2>3
<1>7. Equation(sum)
  <2> HIDE DEF Equation
  <2> QED
    BY <1>6
<1> HIDE DEF sum
<1>8. /\ sum[0] = initial
      /\ \A i \in 1 .. n : sum[i] = sum[i - 1] + hits[i].score
      /\ sum = [i \in 0 .. n |-> sum[i]]
  BY <1>1, <1>7
<1> HIDE DEF Equation
<1>9. sum \in [0 .. n -> Int]
  <2>1. ASSUME NEW i \in 1 .. n, sum[i - 1] \in Int PROVE sum[i] \in Int
    <3>1. sum[i] = sum[i - 1] + hits[i].score
      BY <1>8
    <3>2. hits[i].score \in Int
      BY <1>1
    <3> QED
      BY <2>1, <3>1, <3>2
  <2>2. sum[0] \in Int
    BY <1>8
  <2> QED
    BY <1>1, <1>8, <2>1, <2>2, RecursionTyped
<1> QED
  BY <1>2, <1>8, <1>9 DEF Adds, n

(* One more hit adds its score.                                            *)
LEMMA RunningSumGrows ==
  ASSUME NEW hits \in Seq(Answer), NEW initial \in Int, NEW x \in Answer
  PROVE  RunningSum(Append(hits, x), initial)[Len(hits) + 1]
           = RunningSum(hits, initial)[Len(hits)] + x.score
<1> DEFINE n == Len(hits)
           longer == Append(hits, x)
           a == RunningSum(hits, initial)
           b == RunningSum(longer, initial)
           Same == {i \in 0 .. n : a[i] = b[i]}
<1>1. /\ n \in Nat /\ longer \in Seq(Answer) /\ Len(longer) = n + 1 /\ longer[n + 1] = x
      /\ \A i \in 1 .. n : longer[i] = hits[i]
  BY LenProperties, AppendProperties
<1>2. Adds(a, hits, initial) /\ Adds(b, longer, initial)
  BY <1>1, RunningSumAdds
<1> HIDE DEF a, b, longer
<1>3. /\ a[0] = initial /\ b[0] = initial
      /\ \A i \in 1 .. n : a[i] = a[i - 1] + hits[i].score
      /\ \A i \in 1 .. n + 1 : b[i] = b[i - 1] + longer[i].score
  BY <1>1, <1>2 DEF Adds
<1> HIDE DEF n
<1>4. 0 \in Same
  BY <1>1, <1>3
<1>5. ASSUME NEW i \in 0 .. n, i \in Same, i < n PROVE i + 1 \in Same
  <2> DEFINE j == i + 1
  <2>1. j \in 1 .. n /\ j \in 1 .. n + 1 /\ j \in 0 .. n /\ j - 1 = i /\ a[i] = b[i]
    BY <1>1, <1>5
  <2> HIDE DEF j
  <2>2. a[j] = b[j]
    BY <1>1, <1>3, <2>1
  <2>3. j \in Same
    BY <2>1, <2>2
  <2> QED
    BY <2>3 DEF j
<1> HIDE DEF Same
<1>6. \A i \in 0 .. n : i \in Same
  BY <1>1, <1>4, <1>5, Induction
<1>7. a[n] = b[n]
  BY <1>1, <1>6 DEF Same
<1>8. n + 1 \in 1 .. n + 1 /\ (n + 1) - 1 = n
  BY <1>1
<1>9. b[n + 1] = b[n] + x.score
  BY <1>1, <1>3, <1>8
<1> QED
  BY <1>7, <1>9 DEF a, b, longer, n

(* The first hits of a list, and one more.                                 *)
LEMMA PrefixGrows ==
  ASSUME NEW before \in Seq(Answer), NEW hits \in Seq(Answer), NEW n \in 1 .. Len(hits)
  PROVE  /\ before \o SubSeq(hits, 1, n - 1) \in Seq(Answer)
         /\ before \o SubSeq(hits, 1, n) = Append(before \o SubSeq(hits, 1, n - 1), hits[n])
<1> DEFINE short == SubSeq(hits, 1, n - 1)
           long == SubSeq(hits, 1, n)
           b == Len(before)
<1>1. /\ n \in Nat /\ n - 1 \in Nat /\ n \in Int /\ n - 1 \in Int /\ 1 \in Int /\ b \in Nat
      /\ Len(hits) \in Nat /\ \A i \in 1 .. Len(hits) : hits[i] \in Answer
  BY ElementsAreAnswers, LenProperties
<1>2. /\ \A i \in 1 .. n : hits[i] \in Answer
      /\ \A i \in 1 .. n - 1 : hits[i] \in Answer
  BY <1>1
<1>3. /\ long \in Seq(Answer) /\ Len(long) = n /\ \A i \in 1 .. n : long[i] = hits[i]
  <2>1. /\ long \in Seq(Answer) /\ Len(long) = (IF 1 <= n THEN n - 1 + 1 ELSE 0)
        /\ \A i \in 1 .. n - 1 + 1 : long[i] = hits[1 + i - 1]
    BY <1>1, <1>2, SubSeqProperties
  <2> HIDE DEF long
  <2> QED
    BY <1>1, <2>1
<1>4. /\ short \in Seq(Answer) /\ Len(short) = n - 1 /\ \A i \in 1 .. n - 1 : short[i] = hits[i]
  <2>1. /\ short \in Seq(Answer) /\ Len(short) = (IF 1 <= n - 1 THEN n - 1 - 1 + 1 ELSE 0)
        /\ \A i \in 1 .. n - 1 - 1 + 1 : short[i] = hits[1 + i - 1]
    BY <1>1, <1>2, SubSeqProperties
  <2> HIDE DEF short
  <2> QED
    BY <1>1, <2>1
<1> HIDE DEF short, long
<1> DEFINE x == before \o long
           y == before \o short
           z == Append(y, hits[n])
<1>5. /\ x \in Seq(Answer) /\ Len(x) = b + n
      /\ \A i \in 1 .. b + n : x[i] = IF i <= b THEN before[i] ELSE long[i - b]
  BY <1>3, ConcatProperties
<1>6. /\ y \in Seq(Answer) /\ Len(y) = b + (n - 1)
      /\ \A i \in 1 .. b + (n - 1) : y[i] = IF i <= b THEN before[i] ELSE short[i - b]
  <2>1. /\ y \in Seq(Answer) /\ Len(y) = b + Len(short)
        /\ \A i \in 1 .. b + Len(short) : y[i] = IF i <= b THEN before[i] ELSE short[i - b]
    BY <1>4, ConcatProperties
  <2> HIDE DEF y
  <2> QED
    BY <1>4, <2>1
<1> HIDE DEF x, y, b
<1>7. /\ z \in Seq(Answer) /\ Len(z) = b + n /\ z[b + n] = hits[n]
      /\ \A i \in 1 .. b + (n - 1) : z[i] = y[i]
  <2>1. Len(y) + 1 = b + n
    BY <1>1, <1>6
  <2>2. hits[n] \in Answer
    BY <1>1
  <2> QED
    BY <1>6, <2>1, <2>2, AppendProperties
<1> HIDE DEF z
<1>8. ASSUME NEW i \in 1 .. b + n PROVE x[i] = z[i]
  <2>1. CASE i <= b
    <3>1. i \in 1 .. b + (n - 1)
      BY <1>1, <2>1
    <3>2. x[i] = before[i] /\ y[i] = before[i] /\ z[i] = y[i]
      BY <1>5, <1>6, <1>7, <2>1, <3>1
    <3> QED
      BY <3>2
  <2>2. CASE i = b + n
    <3>1. x[i] = long[i - b] /\ i - b = n /\ long[n] = hits[n]
      BY <1>1, <1>3, <1>5, <2>2
    <3> QED
      BY <1>7, <2>2, <3>1
  <2>3. CASE i > b /\ i < b + n
    <3>1. i - b \in 1 .. n - 1 /\ i - b \in 1 .. n /\ i \in 1 .. b + (n - 1)
      BY <1>1, <2>3
    <3>2. x[i] = long[i - b] /\ y[i] = short[i - b] /\ z[i] = y[i]
      BY <1>1, <1>5, <1>6, <1>7, <2>3, <3>1
    <3> QED
      BY <1>3, <1>4, <3>1, <3>2
  <2> QED
    BY <1>1, <2>1, <2>2, <2>3
<1>9. x = z
  BY <1>5, <1>7, <1>8, SeqEqual
<1> QED
  BY <1>6, <1>9 DEF x, y, z, short, long, b

(* Adding hits to others adds up from the total of these.                  *)
LEMMA TotalOfPrefix ==
  ASSUME NEW before \in Seq(Answer), NEW hits \in Seq(Answer)
  PROVE  \A i \in 0 .. Len(hits) :
           Total(before \o SubSeq(hits, 1, i)) = RunningSum(hits, Total(before))[i]
<1> DEFINE len == Len(hits)
           sum == RunningSum(hits, Total(before))
           Same == {i \in 0 .. len : Total(before \o SubSeq(hits, 1, i)) = sum[i]}
<1>1. len \in Nat /\ \A i \in 1 .. len : hits[i] \in Answer /\ hits[i].score \in Int
  BY ElementsAreAnswers
<1>2. Total(before) \in Int
  <2>1. Adds(RunningSum(before, 0), before, 0) /\ Len(before) \in Nat
    BY RunningSumAdds, LenProperties
  <2> QED
    BY <2>1 DEF Adds, Total
<1>3. Adds(sum, hits, Total(before))
  BY <1>2, RunningSumAdds
<1> HIDE DEF sum
<1>4. 0 \in Same
  <2>1. SubSeq(hits, 1, 0) = <<>>
    BY SubSeqEmpty
  <2>2. before \o SubSeq(hits, 1, 0) = before
    BY <2>1, ConcatEmptySeq
  <2>3. Total(before \o SubSeq(hits, 1, 0)) = sum[0]
    BY <1>3, <2>2 DEF Adds
  <2>4. 0 \in 0 .. len
    BY <1>1
  <2> QED
    BY <2>3, <2>4
<1>5. ASSUME NEW i \in 0 .. len, i \in Same, i < len PROVE i + 1 \in Same
  <2> DEFINE j == i + 1
             shorter == before \o SubSeq(hits, 1, i)
             longer == before \o SubSeq(hits, 1, j)
  <2>1. j \in 1 .. len /\ j \in 0 .. len /\ j - 1 = i
    BY <1>1, <1>5
  <2>2. Total(shorter) = sum[i]
    BY <1>5
  <2> HIDE DEF j
  <2>3. shorter \in Seq(Answer) /\ longer = Append(shorter, hits[j])
    BY <2>1, PrefixGrows
  <2> HIDE DEF shorter, longer
  <2>4. Total(longer) = Total(shorter) + hits[j].score
    <3>1. hits[j] \in Answer
      BY <1>1, <2>1
    <3>2. Len(Append(shorter, hits[j])) = Len(shorter) + 1
      BY <2>3, <3>1, AppendProperties
    <3> QED
      BY <2>3, <3>1, <3>2, RunningSumGrows DEF Total
  <2>5. sum[j] = sum[j - 1] + hits[j].score
    BY <1>3, <2>1 DEF Adds
  <2>6. j \in Same
    BY <2>1, <2>2, <2>4, <2>5 DEF longer
  <2> QED
    BY <2>6 DEF j
<1> HIDE DEF Same
<1>6. \A i \in 0 .. len : i \in Same
  BY <1>1, <1>4, <1>5, Induction
<1> QED
  BY <1>6 DEF Same, sum

-----------------------------------------------------------------------------
(* The score of a result is that of its hits.                              *)
SumsUp(res) == res.score = Total(res.hits)

OutcomesOf(hits) == {hits[i].outcome : i \in DOMAIN hits}

(* A reason that is appended stays a reason.                               *)
LEMMA AppendReasonType ==
  ASSUME NEW reasons \in SUBSET Reason, NEW reason \in Reason
  PROVE  AppendReason(reasons, reason) \in SUBSET Reason
<1>1. {reason} \in SUBSET Reason /\ reasons \cup {reason} \in SUBSET Reason
  OBVIOUS
<1> QED
  BY <1>1, Zenon DEF AppendReason

(* One hit gives a result again; it escalates, counts and is kept.         *)
LEMMA ApplyHitResult ==
  ASSUME NEW res \in Result, NEW hit \in Answer
  PROVE  LET out == ApplyHit(res, hit)
         IN  /\ out \in Result
             /\ out.hits = Append(res.hits, hit)
             /\ out.score = res.score + hit.score
             /\ out.decision = Escalate(res.decision, hit.outcome)
<1> DEFINE out == ApplyHit(res, hit)
<1>1. /\ res.decision \in Decision /\ res.score \in Int /\ res.hits \in Seq(Answer)
      /\ res.reasons \in SUBSET Reason /\ hit.score \in Int
  BY DEF Result, Answer
<1>2. /\ out.hits = Append(res.hits, hit) /\ out.score = res.score + hit.score
      /\ out.decision = Escalate(res.decision, hit.outcome)
  BY DEF ApplyHit
<1>3. Append(res.hits, hit) \in Seq(Answer)
  BY <1>1, AppendProperties
<1>4. Escalate(res.decision, hit.outcome) \in Decision
  BY <1>1 DEF Escalate, Decision, DecisionReview, DecisionBlock
<1>5. AppendReason(res.reasons, "hit") \in SUBSET Reason
  <2>1. "hit" \in Reason
    BY DEF Reason
  <2> QED
    BY <1>1, <2>1, AppendReasonType, Zenon
<1>6. res.score + hit.score \in Int
  BY <1>1
<1>7. out \in Result
  BY <1>3, <1>4, <1>5, <1>6 DEF ApplyHit, Result
<1> QED
  BY <1>2, <1>7

(* after lists the results after each of the hits.                         *)
Follows(after, res, hits) ==
  /\ after \in [0 .. Len(hits) -> Result]
  /\ after[0] = res
  /\ \A i \in 1 .. Len(hits) : after[i] = ApplyHit(after[i - 1], hits[i])

(* AfterHits does.                                                         *)
LEMMA AfterHitsFollows ==
  ASSUME NEW res \in Result, NEW hits \in Seq(Answer)
  PROVE  Follows(AfterHits(res, hits), res, hits)
<1> DEFINE n == Len(hits)
           Equation(g) == g = [i \in 0 .. n |-> IF i = 0 THEN res ELSE ApplyHit(g[i - 1], hits[i])]
           F == [p \in (1 .. n) \X Result |-> ApplyHit(p[2], hits[p[1]])]
           after == CHOOSE g : Equation(g)
<1>1. n \in Nat /\ \A i \in 1 .. n : hits[i] \in Answer
  BY ElementsAreAnswers
<1>2. AfterHits(res, hits) = after
  BY DEF AfterHits
<1> HIDE DEF n
<1>3. \A i \in 1 .. n, r \in Result : ApplyHit(r, hits[i]) \in Result
  BY <1>1, ApplyHitResult
<1>4. F \in [(1 .. n) \X Result -> Result]
  BY <1>3
<1> HIDE DEF F
<1>5. PICK g \in [0 .. n -> Result] : Recurs(g, n, res, F)
  BY <1>1, <1>4, RecursionExists
<1>6. \A i \in 1 .. n : F[<<i, g[i - 1]>>] = ApplyHit(g[i - 1], hits[i])
  <2>1. \A i \in 1 .. n : i - 1 \in 0 .. n
    BY <1>1
  <2> QED
    BY <2>1 DEF F
<1>7. Equation(g)
  <2>1. g[0] = res /\ \A i \in 1 .. n : g[i] = ApplyHit(g[i - 1], hits[i])
    BY <1>5, <1>6 DEF Recurs
  <2>2. \A i \in 0 .. n : i = 0 \/ i \in 1 .. n
    BY <1>1
  <2>3. \A i \in 0 .. n : g[i] = IF i = 0 THEN res ELSE ApplyHit(g[i - 1], hits[i])
    BY <2>1, <2>2
  <2> QED
    BY <2>3
<1>8. Equation(after)
  <2> HIDE DEF Equation
  <2> QED
    BY <1>7
<1> HIDE DEF after
<1>9. /\ after[0] = res
      /\ \A i \in 1 .. n : after[i] = ApplyHit(after[i - 1], hits[i])
      /\ after = [i \in 0 .. n |-> after[i]]
  BY <1>1, <1>8
<1> HIDE DEF Equation
<1>10. after \in [0 .. n -> Result]
  <2>1. ASSUME NEW i \in 1 .. n, after[i - 1] \in Result PROVE after[i] \in Result
    BY <1>3, <1>9, <2>1
  <2>2. after[0] \in Result
    BY <1>9
  <2> QED
    BY <1>1, <1>9, <2>1, <2>2, RecursionTyped
<1> QED
  BY <1>2, <1>9, <1>10 DEF Follows, n

(* out is res after the first n of hits: the score moved by theirs, the    *)
(* decision is the gravest there was, and what was heard is kept.          *)
Heard(out, res, hits, n) ==
  /\ out \in Result
  /\ out.score = RunningSum(hits, res.score)[n]
  /\ out.hits = res.hits \o SubSeq(hits, 1, n)
  /\ SumsUp(res) => SumsUp(out)
  /\ out.decision = DecisionBlock <=>
       res.decision = DecisionBlock \/ \E i \in 1 .. n : hits[i].outcome = DecisionBlock
  /\ out.decision = DecisionAllow <=>
       /\ res.decision = DecisionAllow
       /\ \A i \in 1 .. n : hits[i].outcome \notin {DecisionReview, DecisionBlock}
  /\ \A o : o \in OutcomesOf(out.hits) <=>
              o \in OutcomesOf(res.hits) \/ \E i \in 1 .. n : hits[i].outcome = o

(* One more hit is heard, with its score and its outcome.                  *)
LEMMA HeardStep ==
  ASSUME NEW hits \in Seq(Answer), NEW res \in Result, NEW prev, NEW n \in 1 .. Len(hits),
         Heard(prev, res, hits, n - 1)
  PROVE  Heard(ApplyHit(prev, hits[n]), res, hits, n)
<1> DEFINE out == ApplyHit(prev, hits[n])
           hit == hits[n]
<1>1. prev \in Result /\ hit \in Answer /\ n \in Nat /\ Len(hits) \in Nat
  BY ElementsAreAnswers DEF Heard
<1>2. /\ out \in Result
      /\ out.hits = Append(prev.hits, hit)
      /\ out.score = prev.score + hit.score
      /\ out.decision = Escalate(prev.decision, hit.outcome)
  BY <1>1, ApplyHitResult
<1>3. /\ prev.hits \in Seq(Answer) /\ prev.score \in Int /\ res.score \in Int
      /\ prev.decision \in Decision
  BY <1>1 DEF Result
<1> HIDE DEF out
<1>4. out.score = RunningSum(hits, res.score)[n]
  <2>1. prev.score = RunningSum(hits, res.score)[n - 1]
    BY DEF Heard
  <2>2. Adds(RunningSum(hits, res.score), hits, res.score)
    BY <1>3, RunningSumAdds
  <2> QED
    BY <1>2, <2>1, <2>2 DEF Adds
<1>5. SumsUp(prev) => SumsUp(out)
  <2>1. Len(out.hits) = Len(prev.hits) + 1
    BY <1>1, <1>2, <1>3, AppendProperties
  <2>2. RunningSum(Append(prev.hits, hit), 0)[Len(prev.hits) + 1]
          = RunningSum(prev.hits, 0)[Len(prev.hits)] + hit.score
    BY <1>1, <1>3, RunningSumGrows
  <2> QED
    BY <1>2, <2>1, <2>2 DEF SumsUp, Total
<1>6. \A i : i \in 1 .. n <=> i \in 1 .. n - 1 \/ i = n
  BY <1>1
<1>7. /\ out.decision = DecisionBlock <=> prev.decision = DecisionBlock \/ hit.outcome = DecisionBlock
      /\ out.decision = DecisionAllow <=>
           prev.decision = DecisionAllow /\ hit.outcome \notin {DecisionReview, DecisionBlock}
  BY <1>2, <1>3 DEF Escalate, Decision, DecisionAllow, DecisionReview, DecisionBlock
<1>8. \A o : o \in OutcomesOf(out.hits) <=> o \in OutcomesOf(prev.hits) \/ hit.outcome = o
  <2> DEFINE m == Len(prev.hits)
  <2>1. /\ m \in Nat /\ DOMAIN prev.hits = 1 .. m /\ DOMAIN out.hits = 1 .. m + 1
        /\ out.hits[m + 1] = hit
        /\ \A i \in 1 .. m : out.hits[i] = prev.hits[i]
    BY <1>1, <1>2, <1>3, AppendProperties, LenProperties
  <2> HIDE DEF m
  <2>2. \A i : i \in 1 .. m + 1 <=> i \in 1 .. m \/ i = m + 1
    BY <2>1
  <2> QED
    BY <2>1, <2>2 DEF OutcomesOf
<1>9. /\ prev.decision = DecisionBlock <=>
           res.decision = DecisionBlock \/ \E i \in 1 .. n - 1 : hits[i].outcome = DecisionBlock
      /\ prev.decision = DecisionAllow <=>
           /\ res.decision = DecisionAllow
           /\ \A i \in 1 .. n - 1 : hits[i].outcome \notin {DecisionReview, DecisionBlock}
      /\ \A o : o \in OutcomesOf(prev.hits) <=>
                  o \in OutcomesOf(res.hits) \/ \E i \in 1 .. n - 1 : hits[i].outcome = o
      /\ SumsUp(res) => SumsUp(prev)
  BY DEF Heard
<1>10. out.decision = DecisionBlock <=>
         res.decision = DecisionBlock \/ \E i \in 1 .. n : hits[i].outcome = DecisionBlock
  BY <1>6, <1>7, <1>9
<1>11. out.decision = DecisionAllow <=>
         /\ res.decision = DecisionAllow
         /\ \A i \in 1 .. n : hits[i].outcome \notin {DecisionReview, DecisionBlock}
  BY <1>6, <1>7, <1>9
<1>12. \A o : o \in OutcomesOf(out.hits) <=>
                o \in OutcomesOf(res.hits) \/ \E i \in 1 .. n : hits[i].outcome = o
  BY <1>6, <1>8, <1>9
<1>13. out.hits = res.hits \o SubSeq(hits, 1, n)
  <2>1. prev.hits = res.hits \o SubSeq(hits, 1, n - 1) /\ res.hits \in Seq(Answer)
    BY <1>1 DEF Heard, Result
  <2> QED
    BY <1>2, <2>1, PrefixGrows
<1> QED
  BY <1>2, <1>4, <1>5, <1>9, <1>10, <1>11, <1>12, <1>13 DEF Heard, out

(* An answer counts up to some hit, all of it or as far as StopOnBlock.    *)
LEMMA ApplyHitsHears ==
  ASSUME NEW res \in Result, NEW hits \in Seq(Answer)
  PROVE  \E n \in 0 .. Len(hits) :
           /\ Heard(ApplyHits(res, hits), res, hits, n)
           /\ \/ n = Len(hits)
              \/ /\ n \in 1 .. Len(hits) /\ policy.stopOnBlock
                 /\ ApplyHits(res, hits).decision = DecisionBlock
<1> DEFINE after == AfterHits(res, hits)
           len == Len(hits)
           stops == {n \in DOMAIN hits : policy.stopOnBlock /\ after[n].decision = DecisionBlock}
           Good == {n \in 0 .. len : Heard(after[n], res, hits, n)}
<1>1. len \in Nat /\ DOMAIN hits = 1 .. len
  BY ElementsAreAnswers
<1>2. Follows(after, res, hits)
  BY AfterHitsFollows
<1>3. ApplyHits(res, hits) = after[IF stops = {} THEN len ELSE Min(stops)]
  BY DEF ApplyHits
<1> HIDE DEF after
<1>4. 0 \in Good
  <2>1. Adds(RunningSum(hits, res.score), hits, res.score)
    BY RunningSumAdds DEF Result
  <2>2. after[0] = res /\ RunningSum(hits, res.score)[0] = res.score
    BY <1>2, <2>1 DEF Follows, Adds
  <2>3. res.hits = res.hits \o SubSeq(hits, 1, 0)
    BY SubSeqEmpty, ConcatEmptySeq DEF Result
  <2>4. Heard(res, res, hits, 0)
    BY <2>2, <2>3 DEF Heard
  <2> QED
    BY <1>1, <2>2, <2>4
<1>5. ASSUME NEW n \in 0 .. len, n \in Good, n < len PROVE n + 1 \in Good
  <2> DEFINE m == n + 1
  <2>1. m \in 1 .. len /\ m \in 0 .. len /\ m - 1 = n
    BY <1>1, <1>5
  <2> HIDE DEF m
  <2>2. Heard(after[m - 1], res, hits, m - 1)
    BY <1>5, <2>1
  <2>3. after[m] = ApplyHit(after[m - 1], hits[m])
    BY <1>2, <2>1 DEF Follows
  <2>4. Heard(after[m], res, hits, m)
    BY <2>1, <2>2, <2>3, HeardStep
  <2>5. m \in Good
    BY <2>1, <2>4
  <2> QED
    BY <2>5 DEF m
<1> HIDE DEF Good
<1>6. \A n \in 0 .. len : n \in Good
  BY <1>1, <1>4, <1>5, Induction
<1> DEFINE last == IF stops = {} THEN len ELSE Min(stops)
<1>7. /\ last \in 0 .. len
      /\ last = len \/ (last \in 1 .. len /\ policy.stopOnBlock /\ after[last].decision = DecisionBlock)
  <2>1. CASE stops = {}
    BY <1>1, <2>1
  <2>2. CASE stops # {}
    <3>1. stops \in SUBSET Nat /\ stops \subseteq 1 .. len
      BY <1>1
    <3>2. \A m \in stops : policy.stopOnBlock /\ after[m].decision = DecisionBlock
      OBVIOUS
    <3> HIDE DEF stops
    <3>3. \E n \in stops : \A m \in stops : n <= m
      BY <2>2, <3>1, LeastElement
    <3>4. Min(stops) \in stops
      BY <3>3 DEF Min
    <3>5. Min(stops) \in 1 .. len
      BY <3>1, <3>4, Zenon
    <3>6. 1 .. len \subseteq 0 .. len
      BY <1>1
    <3>7. last = Min(stops)
      BY <2>2
    <3> HIDE DEF last
    <3> QED
      BY <3>2, <3>4, <3>5, <3>6, <3>7, Zenon
  <2> QED
    BY <2>1, <2>2
<1>8. ApplyHits(res, hits) = after[last]
  BY <1>3
<1> HIDE DEF last
<1>9. Heard(after[last], res, hits, last)
  BY <1>6, <1>7 DEF Good
<1> QED
  BY <1>7, <1>8, <1>9 DEF len

(* out is res after a failure: nothing of it is lost but an allow.         *)
Failed(out, res) ==
  /\ out \in Result
  /\ out.hits = res.hits /\ out.score = res.score
  /\ out.decision # DecisionAllow
  /\ out.decision = DecisionBlock <=> res.decision = DecisionBlock \/ policy.failure = "block"

(* Fail never leaves an allow, and never takes a block back.               *)
LEMMA FailFails ==
  ASSUME NEW res \in Result, NEW kind \in Failure
  PROVE  Failed(Fail(res, kind), res)
<1> DEFINE decision == IF res.decision = DecisionBlock \/ policy.failure = "block"
                       THEN DecisionBlock ELSE DecisionReview
           reasons == IF policy.replaceReasons THEN {kind} ELSE AppendReason(res.reasons, kind)
           out == [res EXCEPT !.decision = decision, !.reasons = reasons]
<1>1. reasons \in SUBSET Reason
  <2>1. kind \in Reason /\ res.reasons \in SUBSET Reason
    BY DEF Reason, Result
  <2>2. {kind} \in SUBSET Reason /\ AppendReason(res.reasons, kind) \in SUBSET Reason
    BY <2>1, AppendReasonType
  <2> QED
    BY <2>2, Zenon
<1>2. decision \in Decision
  BY DEF Decision
<1>3. Fail(res, kind) = out
  BY DEF Fail, Result
<1>4. /\ decision # DecisionAllow
      /\ decision = DecisionBlock <=> res.decision = DecisionBlock \/ policy.failure = "block"
  BY DEF DecisionAllow, DecisionReview, DecisionBlock
<1> HIDE DEF decision, reasons
<1>5. out \in Result /\ out.hits = res.hits /\ out.score = res.score /\ out.decision = decision
  BY <1>1, <1>2 DEF Result
<1> QED
  BY <1>3, <1>4, <1>5 DEF Failed

(* out is res after the thresholds of in.                                  *)
Measured(out, res, in) ==
  /\ out \in Result
  /\ out.hits = res.hits /\ out.score = res.score
  /\ out.decision = DecisionBlock <=>
       res.decision = DecisionBlock \/ Reaches(res.score, in.blockAt)
  /\ out.decision = DecisionAllow <=>
       /\ res.decision = DecisionAllow
       /\ ~Reaches(res.score, in.blockAt) /\ ~Reaches(res.score, in.reviewAt)

(* Thresholds raise a decision exactly where the score reaches them.       *)
LEMMA ApplyThresholdsMeasures ==
  ASSUME NEW res \in Result, NEW in
  PROVE  Measured(ApplyThresholds(res, in), res, in)
<1> DEFINE reasons == AppendReason(res.reasons, "threshold")
           With(decision) == [res EXCEPT !.decision = decision, !.reasons = reasons]
<1>1. reasons \in SUBSET Reason
  <2>1. "threshold" \in Reason /\ res.reasons \in SUBSET Reason
    BY DEF Reason, Result
  <2> QED
    BY <2>1, AppendReasonType, Zenon
<1>2. ASSUME NEW decision \in Decision
      PROVE  /\ With(decision) \in Result /\ With(decision).decision = decision
             /\ With(decision).hits = res.hits /\ With(decision).score = res.score
  <2> HIDE DEF reasons
  <2> QED
    BY <1>1 DEF Result
<1>3. ApplyThresholds(res, in) =
        IF res.decision = DecisionBlock THEN res
        ELSE IF Reaches(res.score, in.blockAt) THEN With(DecisionBlock)
        ELSE IF Reaches(res.score, in.reviewAt) THEN With(DecisionReview) ELSE res
  BY DEF ApplyThresholds, Result
<1> HIDE DEF With
<1>4. DecisionBlock \in Decision /\ DecisionReview \in Decision
  BY DEF Decision
<1>5. DecisionAllow # DecisionReview /\ DecisionAllow # DecisionBlock /\ DecisionReview # DecisionBlock
  BY DEF DecisionAllow, DecisionReview, DecisionBlock
<1>6. CASE res.decision = DecisionBlock
  BY <1>3, <1>5, <1>6 DEF Measured
<1>7. CASE res.decision # DecisionBlock /\ Reaches(res.score, in.blockAt)
  BY <1>2, <1>3, <1>4, <1>5, <1>7 DEF Measured
<1>8. CASE /\ res.decision # DecisionBlock
           /\ ~Reaches(res.score, in.blockAt) /\ Reaches(res.score, in.reviewAt)
  BY <1>2, <1>3, <1>4, <1>5, <1>8 DEF Measured
<1>9. CASE /\ res.decision # DecisionBlock
           /\ ~Reaches(res.score, in.blockAt) /\ ~Reaches(res.score, in.reviewAt)
  BY <1>3, <1>5, <1>9 DEF Measured
<1> QED
  BY <1>6, <1>7, <1>8, <1>9

-----------------------------------------------------------------------------
(* The registry as it is installed.                                        *)
Registry ==
  /\ ruleSet \in Seq(Entry) /\ \A i \in DOMAIN ruleSet : ~ruleSet[i].custom
  /\ registrations \in Seq(Registrations)
  /\ ValidRegistry(ruleSet, registrations)

(* What SnapshotCoherent says of one list of steps.                        *)
Coherent(list) ==
  /\ list \in Seq(Entry)
  /\ \A i, j \in DOMAIN list : i < j =>
       /\ list[i].id # list[j].id
       /\ list[i].priority <= list[j].priority
       /\ list[i].priority = list[j].priority => ~(list[i].custom /\ ~list[j].custom)

(* The merged list is one: every ID once, in order of priority.            *)
LEMMA SnapshotIsCoherent == Registry => Coherent(Snapshot)
<1> SUFFICES ASSUME Registry PROVE Coherent(Snapshot)
  OBVIOUS
<1> DEFINE all == ruleSet \o registrations
           n == Len(all)
           m == Len(ruleSet)
<1>1. registrations \in Seq(Entry) /\ \A i \in 1 .. Len(registrations) : registrations[i].custom
  <2>1. \A i \in 1 .. Len(registrations) : registrations[i] \in Registrations
    BY ElementOfSeq DEF Registry
  <2>2. registrations \in Seq(Registrations) /\ Registrations \subseteq Entry
    BY RegistrationsAssumption DEF Registry
  <2>3. registrations \in Seq(Entry)
    BY <2>2
  <2> QED
    BY <2>1, <2>3, RegistrationsAssumption
<1>2. /\ m \in Nat /\ all \in Seq(Entry) /\ n = m + Len(registrations) /\ Len(registrations) \in Nat
      /\ \A i \in 1 .. n : all[i] = IF i <= m THEN ruleSet[i] ELSE registrations[i - m]
  BY <1>1, ConcatProperties, LenProperties DEF Registry
<1>3. n \in Nat /\ DOMAIN all = 1 .. n /\ \A i \in 1 .. n : all[i] \in Entry
  BY <1>2, ElementOfSeq, LenProperties
<1>4. \A i \in 1 .. n : all[i].custom <=> i > m
  <2> TAKE i \in 1 .. n
  <2>1. CASE i <= m
    <3>1. i \in DOMAIN ruleSet /\ all[i] = ruleSet[i]
      BY <1>2, <2>1, LenProperties DEF Registry
    <3> QED
      BY <1>2, <2>1, <3>1 DEF Registry
  <2>2. CASE i > m
    <3>1. i - m \in 1 .. Len(registrations) /\ all[i] = registrations[i - m]
      BY <1>2, <2>2
    <3> QED
      BY <1>1, <2>2, <3>1
  <2> QED
    BY <1>2, <2>1, <2>2
<1>5. \A i, j \in 1 .. n : all[i].id = all[j].id => i = j
  BY <1>3 DEF Registry, ValidRegistry
<1>6. Snapshot = StableByPriority(all)
  BY DEF Snapshot
<1> HIDE DEF all, n, m
<1>7. \A i \in 1 .. n : all[i].priority \in Int
  BY <1>3 DEF Entry
<1>8. PICK p : Orders(p, all) /\ StableByPriority(all) = [r \in DOMAIN all |-> all[p[r]]]
  BY <1>3, <1>7, StableOrderExists
<1>9. /\ DOMAIN Snapshot = 1 .. n
      /\ \A r \in 1 .. n : p[r] \in 1 .. n /\ Snapshot[r] = all[p[r]]
  BY <1>3, <1>6, <1>8 DEF Orders
<1>10. Snapshot \in Seq(Entry)
  <2>1. Snapshot = [r \in 1 .. n |-> Snapshot[r]] /\ \A r \in 1 .. n : Snapshot[r] \in Entry
    BY <1>3, <1>6, <1>8, <1>9
  <2>2. Snapshot \in [1 .. n -> Entry]
    BY <2>1
  <2> QED
    BY <1>3, <2>2, SeqDef
<1>11. ASSUME NEW i \in 1 .. n, NEW j \in 1 .. n, i < j
       PROVE  /\ Snapshot[i].id # Snapshot[j].id
              /\ Snapshot[i].priority <= Snapshot[j].priority
              /\ Snapshot[i].priority = Snapshot[j].priority =>
                   ~(Snapshot[i].custom /\ ~Snapshot[j].custom)
  <2>1. /\ p[i] \in 1 .. n /\ p[j] \in 1 .. n /\ p[i] # p[j]
        /\ \/ all[p[i]].priority < all[p[j]].priority
           \/ all[p[i]].priority = all[p[j]].priority /\ p[i] < p[j]
    BY <1>3, <1>8, <1>9, <1>11 DEF Orders
  <2>2. all[p[i]].id # all[p[j]].id
    BY <1>5, <2>1
  <2>3. all[p[i]].priority \in Int /\ all[p[j]].priority \in Int
    BY <1>7, <2>1
  <2>4. all[p[i]].priority <= all[p[j]].priority
    BY <2>1, <2>3
  <2>5. all[p[i]].priority = all[p[j]].priority => ~(all[p[i]].custom /\ ~all[p[j]].custom)
    BY <1>2, <1>3, <1>4, <2>1, <2>3
  <2> QED
    BY <1>9, <2>2, <2>4, <2>5
<1> QED
  BY <1>9, <1>10, <1>11 DEF Coherent

-----------------------------------------------------------------------------
Running(e) == pc[e] \in {"loop", "calling"}

(* As long as an evaluation goes on its decision says what it heard.       *)
Accounted(e) ==
  /\ result[e].decision = DecisionBlock <=>
       \/ failures[e] # {} /\ policy.failure = "block"
       \/ DecisionBlock \in Outcomes(e)
  /\ result[e].decision = DecisionAllow <=>
       failures[e] = {} /\ Outcomes(e) \subseteq {DecisionAllow, ""}

Typing ==
  /\ TypeOK /\ Registry
  /\ steps \in [Evaluations -> Seq(Entry)]
  /\ pos \in [Evaluations -> Nat]
  /\ result \in [Evaluations -> Result]
  /\ failures \in [Evaluations -> SUBSET Failure]

(* What holds of one evaluation.                                           *)
Locals(e) ==
  /\ pc[e] = "start" => pos[e] = 1 /\ result[e] = Untouched /\ failures[e] = {}
  /\ pc[e] = "calling" => More(e)
  /\ ~Returned(e) => Accounted(e)
  /\ Running(e) =>
       /\ input[e].valid /\ input[e].thresholdsFinite /\ ~input[e].blocked
       /\ failures[e] \subseteq {"evaluator"}
  /\ Returned(e) => Explained(e)
  /\ SumsUp(result[e]) /\ result[e].score \in Finite
  /\ Coherent(steps[e])

Inv == Typing /\ \A e \in Evaluations : Locals(e)

(* An evaluation whose own state a step leaves alone.                      *)
LEMMA OthersKeep ==
  ASSUME NEW d \in Evaluations, Locals(d), UNCHANGED <<policy, input>>,
         pc'[d] = pc[d], steps'[d] = steps[d], pos'[d] = pos[d],
         result'[d] = result[d], failures'[d] = failures[d],
         Returned(d) => (d \in cancelled' <=> d \in cancelled)
  PROVE  Locals(d)'
<1>1. /\ Outcomes(d)' = Outcomes(d) /\ More(d)' = More(d) /\ Returned(d)' = Returned(d)
      /\ Running(d)' = Running(d) /\ Completed(d)' = Completed(d)
  BY DEF Outcomes, More, Returned, Running, Completed
<1>2. Accounted(d)' = Accounted(d)
  BY <1>1 DEF Accounted
<1>3. /\ ReachedAt(d, input[d].reviewAt)' = ReachedAt(d, input[d].reviewAt)
      /\ ReachedAt(d, input[d].blockAt)' = ReachedAt(d, input[d].blockAt)
  BY DEF ReachedAt
<1>4. Returned(d) => Explained(d)' = Explained(d)
  BY <1>1, <1>3 DEF Explained
<1> QED
  BY <1>1, <1>2, <1>4 DEF Locals

(* A step that changes the state of one evaluation only.                   *)
LEMMA LocalStep ==
  ASSUME Inv, NEW e \in Evaluations,
         NEW step \in {"loop", "calling", "returned"}, NEW list \in Seq(Entry),
         NEW n \in 1 .. Len(list) + 1, NEW out \in Result, NEW failed \in SUBSET Failure,
         pc' = [pc EXCEPT ![e] = step],
         steps' = [steps EXCEPT ![e] = list], pos' = [pos EXCEPT ![e] = n],
         result' = [result EXCEPT ![e] = out], failures' = [failures EXCEPT ![e] = failed],
         UNCHANGED <<registry, policy, changes, input, cancelled>>,
         Locals(e)'
  PROVE  Inv'
<1>1. /\ Typing /\ TypeOK /\ Registry
      /\ \A d \in Evaluations : Locals(d)
  BY DEF Inv, Typing
<1>2. n \in Nat
  BY LenProperties
<1>3. /\ steps' \in [Evaluations -> Seq(Entry)] /\ pos' \in [Evaluations -> Nat]
      /\ result' \in [Evaluations -> Result] /\ failures' \in [Evaluations -> SUBSET Failure]
      /\ pc' \in [Evaluations -> {"start", "loop", "calling", "returned"}]
  BY <1>1, <1>2 DEF Typing, TypeOK
<1>4. ASSUME NEW d \in Evaluations, d # e
      PROVE  /\ pc'[d] = pc[d] /\ steps'[d] = steps[d] /\ pos'[d] = pos[d]
             /\ result'[d] = result[d] /\ failures'[d] = failures[d]
  BY <1>1, <1>4 DEF Typing, TypeOK
<1>5. /\ pc'[e] = step /\ steps'[e] = list /\ pos'[e] = n /\ result'[e] = out
      /\ failures'[e] = failed
  BY <1>1 DEF Typing, TypeOK
<1>6. ASSUME NEW d \in Evaluations
      PROVE  /\ pos'[d] \in 1 .. Len(steps'[d]) + 1
             /\ result'[d].decision \in Decision /\ result'[d].score \in Int
             /\ failures'[d] \subseteq {"cancelled", "invalid", "thresholds", "evaluator"}
  <2>1. result'[d].decision \in Decision /\ result'[d].score \in Int
    BY <1>3 DEF Result
  <2>2. failures'[d] \subseteq {"cancelled", "invalid", "thresholds", "evaluator"}
    BY <1>3 DEF Failure
  <2>3. pos'[d] \in 1 .. Len(steps'[d]) + 1
    <3>1. CASE d = e
      BY <1>5, <3>1
    <3>2. CASE d # e
      BY <1>1, <1>4, <3>2 DEF TypeOK
    <3> QED
      BY <3>1, <3>2
  <2> QED
    BY <2>1, <2>2, <2>3
<1>7. TypeOK'
  BY <1>1, <1>3, <1>6 DEF TypeOK, registry
<1>8. Registry'
  BY <1>1 DEF Registry, registry
<1>9. ASSUME NEW d \in Evaluations, d # e PROVE Locals(d)'
  BY <1>1, <1>4, <1>9, OthersKeep
<1> QED
  BY <1>3, <1>7, <1>8, <1>9 DEF Inv, Typing

(* A failure that ends an evaluation.                                      *)
LEMMA FailureExplained ==
  ASSUME Inv, NEW e \in Evaluations, ~Returned(e), NEW kind \in Failure \ {"invalid"},
         UNCHANGED <<policy, input>>,
         pc'[e] = "returned", Failed(result'[e], result[e]),
         failures'[e] = failures[e] \cup {kind},
         ~Completed(e)', Coherent(steps'[e])
  PROVE  Locals(e)'
<1>1. Locals(e) /\ Accounted(e)
  BY DEF Inv, Locals
<1>2. /\ result'[e].hits = result[e].hits /\ result'[e].score = result[e].score
      /\ result'[e].decision # DecisionAllow
      /\ result'[e].decision = DecisionBlock <=>
           result[e].decision = DecisionBlock \/ policy.failure = "block"
  BY DEF Failed
<1>3. Outcomes(e)' = Outcomes(e)
  BY <1>2 DEF Outcomes
<1>4. failures'[e] # {} /\ failures'[e] # {"invalid"}
  OBVIOUS
<1>5. result[e].decision = DecisionBlock <=>
        \/ failures[e] # {} /\ policy.failure = "block"
        \/ DecisionBlock \in Outcomes(e)
  BY <1>1 DEF Accounted
<1>6. Explained(e)'
  BY <1>2, <1>3, <1>4, <1>5 DEF Explained
<1>7. SumsUp(result'[e]) /\ result'[e].score \in Finite
  BY <1>1, <1>2 DEF Locals, SumsUp
<1> QED
  BY <1>6, <1>7 DEF Locals, Returned, Running

(* A cancellation found by an evaluation that has begun.                   *)
LEMMA CancelledReturn ==
  ASSUME Inv, NEW e \in Evaluations, Running(e), ReturnFailed(e, "cancelled"),
         UNCHANGED <<registry, policy, changes, input, steps, pos, cancelled>>
  PROVE  Inv'
<1> DEFINE out == Fail(result[e], "cancelled")
           failed == failures[e] \cup {"cancelled"}
<1>1. /\ Typing /\ TypeOK /\ Locals(e) /\ ~Returned(e)
      /\ "cancelled" \in Failure \ {"invalid"}
  BY DEF Inv, Typing, Running, Returned, Failure
<1>2. result[e] \in Result /\ failures[e] \in SUBSET Failure
  BY <1>1 DEF Typing
<1>3. Failed(out, result[e]) /\ out \in Result /\ failed \in SUBSET Failure
  BY <1>1, <1>2, FailFails DEF Failed
<1>4. /\ pc' = [pc EXCEPT ![e] = "returned"] /\ result' = [result EXCEPT ![e] = out]
      /\ failures' = [failures EXCEPT ![e] = failed]
      /\ steps' = [steps EXCEPT ![e] = steps[e]] /\ pos' = [pos EXCEPT ![e] = pos[e]]
  BY <1>1 DEF ReturnFailed, Return, Typing
<1>5. /\ pc'[e] = "returned" /\ result'[e] = out /\ failures'[e] = failed
      /\ steps'[e] = steps[e] /\ pos'[e] = pos[e]
  BY <1>1, <1>4 DEF Typing, TypeOK
<1> HIDE DEF out
<1>6. ~Completed(e)'
  BY <1>5 DEF Completed
<1>7. Coherent(steps'[e])
  BY <1>1, <1>5 DEF Locals
<1>8. Locals(e)'
  BY <1>1, <1>3, <1>5, <1>6, <1>7, FailureExplained
<1>9. steps[e] \in Seq(Entry) /\ pos[e] \in 1 .. Len(steps[e]) + 1
  BY <1>1 DEF Typing, TypeOK
<1> HIDE DEF failed
<1> QED
  BY <1>3, <1>4, <1>8, <1>9, LocalStep

(* Before the first evaluator.                                             *)
LEMMA BeginInv ==
  ASSUME Inv, NEW e \in Evaluations, Begin(e)
  PROVE  Inv'
<1> DEFINE in == input[e]
           list == Snapshot
<1>1. /\ Typing /\ TypeOK /\ Registry /\ Locals(e) /\ pc[e] = "start" /\ ~Returned(e)
      /\ UNCHANGED <<registry, policy, changes, input, pos, cancelled>>
      /\ steps' = [steps EXCEPT ![e] = list]
  BY DEF Inv, Typing, Begin, Returned
<1>2. /\ pos[e] = 1 /\ result[e] = Untouched /\ failures[e] = {} /\ Accounted(e)
      /\ SumsUp(result[e]) /\ result[e].score \in Finite
  BY <1>1 DEF Locals
<1>3. Coherent(list) /\ list \in Seq(Entry) /\ 1 \in 1 .. Len(list) + 1
  <2>1. Coherent(list) /\ list \in Seq(Entry)
    BY <1>1, SnapshotIsCoherent DEF Coherent
  <2>2. Len(list) \in Nat
    BY <2>1, LenProperties
  <2> QED
    BY <2>1, <2>2
<1>4. /\ pos' = [pos EXCEPT ![e] = 1]
      /\ steps'[e] = list /\ pos'[e] = 1 /\ result[e] \in Result
      /\ Outcomes(e) = {}
  <2>1. result[e].hits = <<>>
    BY <1>2 DEF Untouched
  <2>2. Outcomes(e) = {}
    BY <2>1 DEF Outcomes
  <2> QED
    BY <1>1, <1>2, <2>2 DEF Typing
<1> HIDE DEF list
<1>5. ASSUME NEW kind \in {"cancelled", "thresholds"}, ReturnFailed(e, kind),
             kind = "thresholds" => ~in.thresholdsFinite
      PROVE  Inv'
  <2> DEFINE out == Fail(result[e], kind)
             failed == failures[e] \cup {kind}
  <2>1. kind \in Failure \ {"invalid"} /\ failed \in SUBSET Failure
    BY <1>2 DEF Failure
  <2>2. Failed(out, result[e]) /\ out \in Result
    BY <1>4, <2>1, FailFails DEF Failed
  <2>3. /\ pc' = [pc EXCEPT ![e] = "returned"] /\ result' = [result EXCEPT ![e] = out]
        /\ failures' = [failures EXCEPT ![e] = failed]
    BY <1>5 DEF ReturnFailed, Return, Typing
  <2>4. pc'[e] = "returned" /\ result'[e] = out /\ failures'[e] = failed
    BY <1>1, <2>3 DEF Typing, TypeOK
  <2> HIDE DEF out
  <2>5. ~Completed(e)'
    BY <1>1, <1>5, <2>4 DEF Completed
  <2>6. Locals(e)'
    BY <1>1, <1>3, <1>4, <2>1, <2>2, <2>4, <2>5, FailureExplained
  <2> HIDE DEF failed
  <2> QED
    BY <1>1, <1>3, <1>4, <2>1, <2>2, <2>3, <2>6, LocalStep
<1>6. ASSUME ~in.valid,
             failures' = [failures EXCEPT ![e] = @ \cup {"invalid"}],
             Return(e, LET res == Fail(result[e], "invalid")
                       IN  IF in.onInvalid = DecisionBlock
                           THEN [res EXCEPT !.decision = DecisionBlock] ELSE res)
      PROVE  Inv'
  <2> DEFINE res == Fail(result[e], "invalid")
             out == IF in.onInvalid = DecisionBlock
                    THEN [res EXCEPT !.decision = DecisionBlock] ELSE res
             failed == {"invalid"}
  <2>1. "invalid" \in Failure /\ failed \in SUBSET Failure
    BY DEF Failure
  <2>2. Failed(res, result[e])
    BY <1>4, <2>1, FailFails
  <2>3. /\ pc' = [pc EXCEPT ![e] = "returned"] /\ result' = [result EXCEPT ![e] = out]
        /\ failures' = [failures EXCEPT ![e] = failed]
    BY <1>2, <1>6 DEF Return
  <2> HIDE DEF res
  <2>4. /\ out \in Result /\ out.hits = result[e].hits /\ out.score = result[e].score
        /\ out.decision # DecisionAllow
        /\ out.decision = DecisionBlock <=>
             \/ result[e].decision = DecisionBlock \/ policy.failure = "block"
             \/ in.onInvalid = DecisionBlock
    BY <2>2 DEF Failed, Result, Decision, DecisionAllow, DecisionReview, DecisionBlock
  <2> HIDE DEF out
  <2>5. pc'[e] = "returned" /\ result'[e] = out /\ failures'[e] = failed
    BY <1>1, <2>3 DEF Typing, TypeOK
  <2>6. ~Completed(e)' /\ Outcomes(e)' = Outcomes(e) /\ input' = input /\ policy' = policy
    BY <1>1, <1>6, <2>4, <2>5 DEF Completed, Outcomes
  <2>7. result[e].decision # DecisionBlock
    BY <1>2 DEF Untouched, DecisionAllow, DecisionBlock
  <2>8. Explained(e)'
    BY <1>4, <2>4, <2>5, <2>6, <2>7 DEF Explained
  <2>9. Locals(e)'
    BY <1>2, <1>3, <1>4, <2>4, <2>5, <2>8 DEF Locals, Returned, Running, SumsUp
  <2> HIDE DEF failed
  <2> QED
    BY <1>1, <1>3, <1>4, <2>1, <2>3, <2>4, <2>9, LocalStep
<1>7. ASSUME in.valid, in.thresholdsFinite, in.blocked, UNCHANGED failures,
             Return(e, [result[e] EXCEPT !.decision = DecisionBlock, !.reasons = {"account"}])
      PROVE  Inv'
  <2> DEFINE out == [result[e] EXCEPT !.decision = DecisionBlock, !.reasons = {"account"}]
  <2>1. /\ pc' = [pc EXCEPT ![e] = "returned"] /\ result' = [result EXCEPT ![e] = out]
        /\ failures' = [failures EXCEPT ![e] = {}]
    BY <1>1, <1>2, <1>7 DEF Return, Typing
  <2>2. /\ out \in Result /\ out.hits = result[e].hits /\ out.score = result[e].score
        /\ out.decision = DecisionBlock
    <3>1. {"account"} \in SUBSET Reason /\ DecisionBlock \in Decision
      BY DEF Reason, Decision
    <3> QED
      BY <1>4, <3>1 DEF Result
  <2> HIDE DEF out
  <2>3. pc'[e] = "returned" /\ result'[e] = out /\ failures'[e] = {}
    BY <1>1, <2>1 DEF Typing, TypeOK
  <2>4. ~Completed(e)' /\ input' = input
    BY <1>1, <1>7 DEF Completed
  <2>5. Explained(e)'
    BY <1>7, <2>2, <2>3, <2>4 DEF Explained, DecisionAllow, DecisionBlock
  <2>6. Locals(e)'
    BY <1>2, <1>3, <1>4, <2>2, <2>3, <2>5 DEF Locals, Returned, Running, SumsUp
  <2>7. {} \in SUBSET Failure
    OBVIOUS
  <2> QED
    BY <1>1, <1>3, <1>4, <2>1, <2>2, <2>6, <2>7, LocalStep
<1>8. ASSUME in.valid, in.thresholdsFinite, ~in.blocked,
             pc' = [pc EXCEPT ![e] = "loop"], UNCHANGED <<result, failures>>
      PROVE  Inv'
  <2>1. /\ result' = [result EXCEPT ![e] = result[e]] /\ failures' = [failures EXCEPT ![e] = {}]
        /\ pc'[e] = "loop" /\ result'[e] = result[e] /\ failures'[e] = {}
    BY <1>1, <1>2, <1>8 DEF Typing, TypeOK
  <2>2. Outcomes(e)' = Outcomes(e)
    BY <2>1 DEF Outcomes
  <2>3. Accounted(e)'
    BY <1>1, <1>2, <2>1, <2>2 DEF Accounted
  <2>4. Locals(e)'
    BY <1>1, <1>2, <1>3, <1>4, <1>8, <2>1, <2>3 DEF Locals, Returned, Running
  <2>5. {} \in SUBSET Failure
    OBVIOUS
  <2> QED
    BY <1>1, <1>3, <1>4, <1>8, <2>1, <2>4, <2>5, LocalStep
<1>9. CASE e \in cancelled
  BY <1>5, <1>9 DEF Begin
<1>10. CASE e \notin cancelled /\ ~in.valid
  BY <1>6, <1>10 DEF Begin
<1>11. CASE e \notin cancelled /\ in.valid /\ ~in.thresholdsFinite
  BY <1>5, <1>11 DEF Begin
<1>12. CASE e \notin cancelled /\ in.valid /\ in.thresholdsFinite /\ in.blocked
  BY <1>7, <1>12 DEF Begin
<1>13. CASE e \notin cancelled /\ in.valid /\ in.thresholdsFinite /\ ~in.blocked
  BY <1>8, <1>13 DEF Begin
<1> QED
  BY <1>9, <1>10, <1>11, <1>12, <1>13

(* A step over an evaluator, or into it.                                   *)
LEMMA MovesInv ==
  ASSUME Inv, NEW e \in Evaluations, Skip(e) \/ Call(e)
  PROVE  Inv'
<1> DEFINE step == IF Skipped(e) THEN "loop" ELSE "calling"
           n == IF Skipped(e) THEN pos[e] + 1 ELSE pos[e]
<1>1. /\ Typing /\ TypeOK /\ Locals(e) /\ pc[e] = "loop" /\ ~Returned(e) /\ Running(e) /\ More(e)
      /\ UNCHANGED <<registry, policy, changes, input, steps, result, failures, cancelled>>
  BY DEF Inv, Typing, Skip, Call, Returned, Running
<1>2. steps[e] \in Seq(Entry) /\ pos[e] \in Nat /\ pos[e] \in 1 .. Len(steps[e]) + 1
  BY <1>1 DEF Typing, TypeOK
<1>3. /\ pc' = [pc EXCEPT ![e] = step] /\ pos' = [pos EXCEPT ![e] = n]
      /\ steps' = [steps EXCEPT ![e] = steps[e]] /\ result' = [result EXCEPT ![e] = result[e]]
      /\ failures' = [failures EXCEPT ![e] = failures[e]]
  <2>1. CASE Skip(e)
    BY <1>1, <2>1 DEF Skip, Typing, TypeOK
  <2>2. CASE Call(e)
    BY <1>1, <2>2 DEF Call, Typing, TypeOK
  <2> QED
    BY <2>1, <2>2
<1>4. n \in 1 .. Len(steps[e]) + 1 /\ step \in {"loop", "calling", "returned"}
  <2>1. Len(steps[e]) \in Nat /\ pos[e] <= Len(steps[e])
    BY <1>1, <1>2, LenProperties DEF More
  <2> QED
    BY <1>2, <2>1
<1>5. step = "calling" => n = pos[e]
  OBVIOUS
<1>6. step \in {"loop", "calling"}
  OBVIOUS
<1> HIDE DEF step, n
<1>7. /\ pc'[e] = step /\ steps'[e] = steps[e] /\ pos'[e] = n
      /\ result'[e] = result[e] /\ failures'[e] = failures[e]
  BY <1>1, <1>3 DEF Typing, TypeOK
<1>8. Outcomes(e)' = Outcomes(e) /\ (step = "calling" => More(e)')
  BY <1>1, <1>5, <1>7 DEF Outcomes, More
<1>9. Accounted(e)'
  BY <1>1, <1>7, <1>8 DEF Accounted, Locals
<1>10. Locals(e)'
  BY <1>1, <1>6, <1>7, <1>8, <1>9 DEF Locals, Returned, Running
<1>11. result[e] \in Result /\ failures[e] \in SUBSET Failure
  BY <1>1 DEF Typing
<1> QED
  BY <1>1, <1>2, <1>3, <1>4, <1>10, <1>11, LocalStep

(* On to the next evaluator.                                               *)
LEMMA ContinueInv ==
  ASSUME Inv, NEW e \in Evaluations, pc[e] = "calling", NEW out \in Result, Continue(e, out),
         UNCHANGED <<registry, policy, changes, input, steps, cancelled>>,
         NEW failed \in SUBSET Failure, failures' = [failures EXCEPT ![e] = failed],
         failed \subseteq {"evaluator"}, SumsUp(out), out.score \in Finite, Accounted(e)'
  PROVE  Inv'
<1>1. Typing /\ TypeOK /\ Locals(e) /\ ~Returned(e) /\ Running(e) /\ More(e)
  BY DEF Inv, Typing, Returned, Running, Locals
<1>2. steps[e] \in Seq(Entry) /\ pos[e] \in Nat /\ pos[e] \in 1 .. Len(steps[e]) + 1
  BY <1>1 DEF Typing, TypeOK
<1>3. pos[e] + 1 \in 1 .. Len(steps[e]) + 1
  <2>1. Len(steps[e]) \in Nat /\ pos[e] <= Len(steps[e])
    BY <1>1, <1>2, LenProperties DEF More
  <2> QED
    BY <1>2, <2>1
<1>4. /\ pc' = [pc EXCEPT ![e] = "loop"] /\ pos' = [pos EXCEPT ![e] = pos[e] + 1]
      /\ steps' = [steps EXCEPT ![e] = steps[e]] /\ result' = [result EXCEPT ![e] = out]
  BY <1>1 DEF Continue, Typing
<1>5. /\ pc'[e] = "loop" /\ steps'[e] = steps[e] /\ result'[e] = out /\ failures'[e] = failed
  BY <1>1, <1>4 DEF Typing, TypeOK
<1>6. Locals(e)'
  BY <1>1, <1>5 DEF Locals, Returned, Running
<1> QED
  BY <1>2, <1>3, <1>4, <1>6, LocalStep

(* An evaluator that fails or whose answer is refused.                     *)
LEMMA EvaluatorFailsInv ==
  ASSUME Inv, NEW e \in Evaluations, pc[e] = "calling", EvaluatorFails(e),
         UNCHANGED <<registry, policy, changes, input, steps, cancelled>>
  PROVE  Inv'
<1> DEFINE out == Fail(result[e], "evaluator")
           failed == failures[e] \cup {"evaluator"}
<1>1. /\ Typing /\ TypeOK /\ Locals(e) /\ ~Returned(e) /\ Running(e) /\ More(e)
      /\ "evaluator" \in Failure \ {"invalid"}
  BY DEF Inv, Typing, Running, Returned, Failure, Locals
<1>2. result[e] \in Result /\ failures[e] \in SUBSET Failure
  BY <1>1 DEF Typing
<1>3. Failed(out, result[e]) /\ out \in Result /\ failed \in SUBSET Failure
  BY <1>1, <1>2, FailFails DEF Failed
<1>4. failures' = [failures EXCEPT ![e] = failed] /\ failures'[e] = failed
  BY <1>1 DEF EvaluatorFails, Typing
<1>5. CASE policy.stopOnError
  <2>1. /\ pc' = [pc EXCEPT ![e] = "returned"] /\ result' = [result EXCEPT ![e] = out]
        /\ steps' = [steps EXCEPT ![e] = steps[e]] /\ pos' = [pos EXCEPT ![e] = pos[e]]
    BY <1>1, <1>5 DEF EvaluatorFails, Return, Typing
  <2>2. /\ pc'[e] = "returned" /\ result'[e] = out
        /\ steps'[e] = steps[e] /\ pos'[e] = pos[e]
    BY <1>1, <2>1 DEF Typing, TypeOK
  <2> HIDE DEF out
  <2>3. ~Completed(e)'
    BY <1>1, <2>2 DEF Completed, More
  <2>4. Coherent(steps'[e])
    BY <1>1, <2>2 DEF Locals
  <2>5. Locals(e)'
    BY <1>1, <1>3, <1>4, <2>2, <2>3, <2>4, FailureExplained
  <2>6. steps[e] \in Seq(Entry) /\ pos[e] \in 1 .. Len(steps[e]) + 1
    BY <1>1 DEF Typing, TypeOK
  <2> HIDE DEF failed
  <2> QED
    BY <1>3, <1>4, <2>1, <2>5, <2>6, LocalStep
<1>6. CASE ~policy.stopOnError
  <2>1. Continue(e, out)
    BY <1>6 DEF EvaluatorFails
  <2>2. result'[e] = out
    BY <1>1, <2>1 DEF Continue, Typing
  <2> HIDE DEF out
  <2>3. /\ out.hits = result[e].hits /\ out.score = result[e].score
        /\ out.decision # DecisionAllow
        /\ out.decision = DecisionBlock <=>
             result[e].decision = DecisionBlock \/ policy.failure = "block"
    BY <1>3 DEF Failed
  <2>4. Accounted(e)'
    <3>1. Outcomes(e)' = Outcomes(e)
      BY <2>2, <2>3 DEF Outcomes
    <3>2. Accounted(e) /\ policy' = policy /\ failures'[e] # {}
      BY <1>1, <1>4 DEF Locals
    <3> QED
      BY <2>2, <2>3, <3>1, <3>2 DEF Accounted
  <2>5. failed \subseteq {"evaluator"} /\ SumsUp(out) /\ out.score \in Finite
    BY <1>1, <2>3 DEF Locals, SumsUp
  <2> HIDE DEF failed
  <2> QED
    BY <1>3, <1>4, <2>1, <2>4, <2>5, ContinueInv
<1> QED
  BY <1>5, <1>6

(* Hits that are accepted.                                                 *)
LEMMA AnswersHitsInv ==
  ASSUME Inv, NEW e \in Evaluations, NEW hits \in HitLists, AnswersHits(e, hits)
  PROVE  Inv'
<1> DEFINE out == ApplyHits(result[e], hits)
<1>1. /\ Typing /\ TypeOK /\ Locals(e) /\ ~Returned(e) /\ Running(e) /\ More(e) /\ Accounted(e)
      /\ pc[e] = "calling"
      /\ UNCHANGED <<registry, policy, changes, input, steps, cancelled>>
  BY DEF Inv, Typing, Running, Returned, Locals, AnswersHits
<1>2. result[e] \in Result /\ failures[e] \in SUBSET Failure /\ hits \in Seq(Answer)
  BY <1>1, HitListsAssumption DEF Typing
<1>3. CASE ~AcceptableHits(hits, result[e].score)
  <2>1. EvaluatorFails(e)
    BY <1>3 DEF AnswersHits
  <2> QED
    BY <1>1, <2>1, EvaluatorFailsInv
<1>4. CASE AcceptableHits(hits, result[e].score)
  <2>1. PICK n \in 0 .. Len(hits) : Heard(out, result[e], hits, n)
    BY <1>2, ApplyHitsHears
  <2>2. \/ Return(e, out) /\ UNCHANGED pos
        \/ Continue(e, out)
    BY <1>4 DEF AnswersHits
  <2>3. UNCHANGED failures
    BY <1>4 DEF AnswersHits
  <2> HIDE DEF out
  <2>4. /\ out \in Result
        /\ out.score = RunningSum(hits, result[e].score)[n]
        /\ SumsUp(result[e]) => SumsUp(out)
        /\ out.decision = DecisionBlock <=>
             \/ result[e].decision = DecisionBlock
             \/ \E i \in 1 .. n : hits[i].outcome = DecisionBlock
        /\ out.decision = DecisionAllow <=>
             /\ result[e].decision = DecisionAllow
             /\ \A i \in 1 .. n : hits[i].outcome \notin {DecisionReview, DecisionBlock}
        /\ \A o : o \in OutcomesOf(out.hits) <=>
                    \/ o \in OutcomesOf(result[e].hits)
                    \/ \E i \in 1 .. n : hits[i].outcome = o
    BY <2>1 DEF Heard
  <2>5. /\ Len(hits) \in Nat /\ DOMAIN hits = 1 .. Len(hits)
        /\ n = 0 \/ n \in DOMAIN hits
        /\ \A i \in 1 .. n : i \in DOMAIN hits
    BY <1>2, ElementsAreAnswers
  <2>6. \A i \in 1 .. n : hits[i].outcome \in Decision \cup {""}
    BY <1>4, <2>5 DEF AcceptableHits
  <2>7. SumsUp(out) /\ out.score \in Finite
    <3>1. Adds(RunningSum(hits, result[e].score), hits, result[e].score)
      BY <1>2, RunningSumAdds DEF Result
    <3>2. CASE n = 0
      BY <1>1, <2>4, <3>1, <3>2 DEF Locals, Adds
    <3>3. CASE n \in DOMAIN hits
      BY <1>1, <1>4, <2>4, <3>3 DEF Locals, AcceptableHits
    <3> QED
      BY <2>5, <3>2, <3>3
  <2>8. result'[e] = out /\ failures'[e] = failures[e]
    BY <1>1, <2>2, <2>3 DEF Return, Continue, Typing
  <2>9. /\ out.decision = DecisionBlock <=>
             \/ failures[e] # {} /\ policy.failure = "block"
             \/ DecisionBlock \in OutcomesOf(out.hits)
        /\ out.decision = DecisionAllow <=>
             failures[e] = {} /\ OutcomesOf(out.hits) \subseteq {DecisionAllow, ""}
    <3>1. Outcomes(e) = OutcomesOf(result[e].hits)
      BY DEF Outcomes, OutcomesOf
    <3>2. /\ result[e].decision = DecisionBlock <=>
               \/ failures[e] # {} /\ policy.failure = "block"
               \/ DecisionBlock \in OutcomesOf(result[e].hits)
          /\ result[e].decision = DecisionAllow <=>
               failures[e] = {} /\ OutcomesOf(result[e].hits) \subseteq {DecisionAllow, ""}
      BY <1>1, <3>1 DEF Accounted
    <3>3. \A i \in 1 .. n : hits[i].outcome \in {DecisionReview, DecisionBlock} \/
                            hits[i].outcome \in {DecisionAllow, ""}
      BY <2>6 DEF Decision
    <3>4. {DecisionAllow, ""} \cap {DecisionReview, DecisionBlock} = {}
      BY DEF DecisionAllow, DecisionReview, DecisionBlock
    <3>5. out.decision = DecisionBlock <=>
            \/ failures[e] # {} /\ policy.failure = "block"
            \/ DecisionBlock \in OutcomesOf(out.hits)
      BY <2>4, <3>2
    <3>6. OutcomesOf(out.hits) \subseteq {DecisionAllow, ""} <=>
            /\ OutcomesOf(result[e].hits) \subseteq {DecisionAllow, ""}
            /\ \A i \in 1 .. n : hits[i].outcome \in {DecisionAllow, ""}
      BY <2>4
    <3>7. out.decision = DecisionAllow <=>
            failures[e] = {} /\ OutcomesOf(out.hits) \subseteq {DecisionAllow, ""}
      BY <2>4, <3>2, <3>3, <3>4, <3>6
    <3> QED
      BY <3>5, <3>7
  <2>10. Outcomes(e)' = OutcomesOf(out.hits)
    BY <2>8 DEF Outcomes, OutcomesOf
  <2>11. failures' = [failures EXCEPT ![e] = failures[e]]
    BY <1>1, <2>3 DEF Typing
  <2>12. CASE Continue(e, out)
    <3>1. Accounted(e)'
      BY <1>1, <2>8, <2>9, <2>10 DEF Accounted
    <3>2. failures[e] \subseteq {"evaluator"}
      BY <1>1 DEF Locals
    <3> QED
      BY <1>1, <1>2, <2>4, <2>7, <2>11, <2>12, <3>1, <3>2, ContinueInv
  <2>13. CASE Return(e, out) /\ UNCHANGED pos
    <3>1. /\ pc' = [pc EXCEPT ![e] = "returned"] /\ result' = [result EXCEPT ![e] = out]
          /\ steps' = [steps EXCEPT ![e] = steps[e]] /\ pos' = [pos EXCEPT ![e] = pos[e]]
      BY <1>1, <2>13 DEF Return, Typing
    <3>2. pc'[e] = "returned" /\ steps'[e] = steps[e] /\ pos'[e] = pos[e]
      BY <1>1, <3>1 DEF Typing, TypeOK
    <3>3. out.decision = DecisionBlock
      BY <1>1, <1>4, <2>13, <3>2 DEF AnswersHits, Continue, out, Typing, TypeOK
    <3>4. ~Completed(e)' /\ failures[e] \subseteq {"evaluator"} /\ ~input[e].blocked
      BY <1>1, <3>2 DEF Completed, More, Locals
    <3>5. Explained(e)'
      BY <1>1, <2>8, <2>9, <2>10, <3>3, <3>4 DEF Explained, DecisionAllow, DecisionBlock
    <3>6. Locals(e)'
      BY <1>1, <2>7, <2>8, <3>2, <3>5 DEF Locals, Returned, Running
    <3>7. steps[e] \in Seq(Entry) /\ pos[e] \in 1 .. Len(steps[e]) + 1
      BY <1>1 DEF Typing, TypeOK
    <3> QED
      BY <1>1, <1>2, <2>4, <2>11, <3>1, <3>6, <3>7, LocalStep
  <2> QED
    BY <2>2, <2>12, <2>13
<1> QED
  BY <1>3, <1>4

(* The thresholds, and the return of an evaluation that heard every step.  *)
LEMMA FinishInv ==
  ASSUME Inv, NEW e \in Evaluations, Finish(e)
  PROVE  Inv'
<1> DEFINE out == ApplyThresholds(result[e], input[e])
<1>1. /\ Typing /\ TypeOK /\ Locals(e) /\ ~Returned(e) /\ Running(e) /\ Accounted(e)
      /\ pc[e] = "loop" /\ ~More(e) /\ e \notin cancelled
      /\ UNCHANGED <<registry, policy, changes, input, steps, pos, failures, cancelled>>
  BY DEF Inv, Typing, Running, Returned, Locals, Finish
<1>2. result[e] \in Result /\ failures[e] \in SUBSET Failure
  BY <1>1 DEF Typing
<1>3. Measured(out, result[e], input[e])
  BY <1>2, ApplyThresholdsMeasures
<1>4. /\ pc' = [pc EXCEPT ![e] = "returned"] /\ result' = [result EXCEPT ![e] = out]
      /\ steps' = [steps EXCEPT ![e] = steps[e]] /\ pos' = [pos EXCEPT ![e] = pos[e]]
      /\ failures' = [failures EXCEPT ![e] = failures[e]]
  BY <1>1 DEF Finish, Return, Typing
<1>5. /\ pc'[e] = "returned" /\ result'[e] = out /\ steps'[e] = steps[e] /\ pos'[e] = pos[e]
      /\ failures'[e] = failures[e]
  BY <1>1, <1>4 DEF Typing, TypeOK
<1> HIDE DEF out
<1>6. /\ out \in Result /\ out.hits = result[e].hits /\ out.score = result[e].score
      /\ out.decision = DecisionBlock <=>
           result[e].decision = DecisionBlock \/ Reaches(result[e].score, input[e].blockAt)
      /\ out.decision = DecisionAllow <=>
           /\ result[e].decision = DecisionAllow
           /\ ~Reaches(result[e].score, input[e].blockAt)
           /\ ~Reaches(result[e].score, input[e].reviewAt)
  BY <1>3 DEF Measured
<1>7. /\ Outcomes(e)' = Outcomes(e) /\ Completed(e)'
      /\ failures[e] \subseteq {"evaluator"} /\ ~input[e].blocked
  BY <1>1, <1>5, <1>6 DEF Outcomes, Completed, More, Locals
<1>8. /\ ReachedAt(e, input[e].blockAt)' = Reaches(result[e].score, input[e].blockAt)
      /\ ReachedAt(e, input[e].reviewAt)' = Reaches(result[e].score, input[e].reviewAt)
  BY <1>1, <1>5, <1>6 DEF ReachedAt, Reaches
<1>9. Explained(e)'
  <2>1. /\ result[e].decision = DecisionBlock <=>
             \/ failures[e] # {} /\ policy.failure = "block"
             \/ DecisionBlock \in Outcomes(e)
        /\ result[e].decision = DecisionAllow <=>
             failures[e] = {} /\ Outcomes(e) \subseteq {DecisionAllow, ""}
    BY <1>1 DEF Accounted
  <2>2. failures[e] # {"invalid"}
    BY <1>7
  <2> QED
    BY <1>1, <1>5, <1>6, <1>7, <1>8, <2>1, <2>2 DEF Explained
<1>10. Locals(e)'
  BY <1>1, <1>5, <1>6, <1>9 DEF Locals, Returned, Running, SumsUp
<1>11. steps[e] \in Seq(Entry) /\ pos[e] \in 1 .. Len(steps[e]) + 1
  BY <1>1 DEF Typing, TypeOK
<1> QED
  BY <1>1, <1>2, <1>4, <1>6, <1>10, <1>11, LocalStep

(* A context that ends while its evaluation goes on.                       *)
LEMMA CancelInv ==
  ASSUME Inv, NEW e \in Evaluations, Cancel(e)
  PROVE  Inv'
<1>1. /\ Typing /\ TypeOK /\ Registry /\ ~Returned(e)
      /\ UNCHANGED <<ruleSet, registrations, policy, changes, input, pc, steps, pos, result, failures>>
      /\ cancelled' = cancelled \cup {e}
  BY DEF Inv, Typing, Cancel, Returned, registry
<1>2. Typing'
  BY <1>1 DEF Typing, TypeOK, Registry
<1>3. ASSUME NEW d \in Evaluations PROVE Locals(d)'
  <2>1. Locals(d) /\ (Returned(d) => d # e)
    BY <1>1 DEF Inv
  <2> QED
    BY <1>1, <2>1, OthersKeep
<1> QED
  BY <1>2, <1>3 DEF Inv

(* A registry that is replaced or extended.                                *)
LEMMA RegistryInv ==
  ASSUME Inv,
         \/ \E r \in Registrations : Register(r)
         \/ \E rules \in RuleSets : ReplaceRules(rules)
  PROVE  Inv'
<1>1. /\ Typing /\ TypeOK /\ Registry /\ Change
      /\ UNCHANGED <<policy, input, pc, steps, pos, result, failures, cancelled>>
  BY DEF Inv, Typing, Register, ReplaceRules
<1>2. Registry'
  <2>1. ASSUME NEW r \in Registrations, Register(r) PROVE Registry'
    <3>1. Append(registrations, r) \in Seq(Registrations)
      BY <1>1, AppendProperties DEF Registry
    <3>2. /\ registrations' = Append(registrations, r) /\ ruleSet' = ruleSet
          /\ ValidRegistry(ruleSet, Append(registrations, r))
      BY <2>1 DEF Register
    <3> QED
      BY <1>1, <3>1, <3>2 DEF Registry, ValidRegistry
  <2>2. ASSUME NEW rules \in RuleSets, ReplaceRules(rules) PROVE Registry'
    <3>1. rules \in Seq(Entry) /\ \A i \in DOMAIN rules : ~rules[i].custom
      BY RuleSetsAssumption
    <3>2. registrations' = registrations /\ ruleSet' = rules /\ ValidRegistry(rules, registrations)
      BY <2>2 DEF ReplaceRules
    <3> QED
      BY <1>1, <3>1, <3>2 DEF Registry, ValidRegistry
  <2> QED
    BY <2>1, <2>2
<1>3. changes' \in 0 .. MaxChanges
  BY <1>1, MaxChangesAssumption DEF Change, TypeOK
<1>4. \A i \in DOMAIN ruleSet' : ruleSet'[i] \in Entry /\ ~ruleSet'[i].custom
  <2>1. ruleSet' \in Seq(Entry) /\ \A i \in DOMAIN ruleSet' : ~ruleSet'[i].custom
    BY <1>2 DEF Registry
  <2>2. \A i \in DOMAIN ruleSet' : ruleSet'[i] \in Entry
    BY <2>1, ElementOfSeq, LenProperties
  <2> QED
    BY <2>1, <2>2
<1>5. TypeOK'
  BY <1>1, <1>2, <1>3, <1>4 DEF TypeOK, Registry
<1>6. ASSUME NEW d \in Evaluations PROVE Locals(d)'
  BY <1>1, OthersKeep DEF Inv
<1> QED
  BY <1>1, <1>2, <1>5, <1>6 DEF Inv, Typing

(* Nothing has been evaluated before the first step.                       *)
LEMMA InitInv == Init => Inv
<1> SUFFICES ASSUME Init PROVE Inv
  OBVIOUS
<1>1. /\ policy \in Policies /\ registrations = <<>> /\ changes = 0
      /\ input \in [Evaluations -> Inputs] /\ cancelled = {}
      /\ pc = [e \in Evaluations |-> "start"] /\ steps = [e \in Evaluations |-> <<>>]
      /\ pos = [e \in Evaluations |-> 1] /\ result = [e \in Evaluations |-> Untouched]
      /\ failures = [e \in Evaluations |-> {}]
      /\ ruleSet \in RuleSets /\ ValidRegistry(ruleSet, <<>>)
  BY DEF Init
<1>2. Registry
  <2>1. ruleSet \in Seq(Entry) /\ \A i \in DOMAIN ruleSet : ~ruleSet[i].custom
    BY <1>1, RuleSetsAssumption
  <2>2. registrations \in Seq(Registrations)
    BY <1>1, EmptySeq
  <2> QED
    BY <1>1, <2>1, <2>2 DEF Registry
<1>3. \A i \in DOMAIN ruleSet : ruleSet[i] \in Entry /\ ~ruleSet[i].custom
  BY <1>2, ElementOfSeq, LenProperties DEF Registry
<1>4. /\ <<>> \in Seq(Answer) /\ <<>> \in Seq(Entry) /\ Len(<<>>) = 0
      /\ DOMAIN Untouched.hits = {}
  BY EmptySeq DEF Untouched
<1>5. Untouched \in Result
  <2>1. {"clean"} \in SUBSET Reason /\ DecisionAllow \in Decision
    BY DEF Reason, Decision
  <2> QED
    BY <1>4, <2>1 DEF Untouched, Result
<1>6. TypeOK
  <2>1. \A e \in Evaluations :
          /\ pos[e] \in 1 .. Len(steps[e]) + 1
          /\ result[e].decision \in Decision /\ result[e].score \in Int
          /\ failures[e] \subseteq {"cancelled", "invalid", "thresholds", "evaluator"}
    BY <1>1, <1>4, <1>5 DEF Result
  <2> QED
    BY <1>1, <1>2, <1>3, <2>1, MaxChangesAssumption DEF TypeOK, Registry
<1>7. Typing
  BY <1>1, <1>2, <1>4, <1>5, <1>6 DEF Typing
<1>8. ASSUME NEW e \in Evaluations PROVE Locals(e)
  <2>1. /\ pc[e] = "start" /\ steps[e] = <<>> /\ pos[e] = 1 /\ result[e] = Untouched
        /\ failures[e] = {}
    BY <1>1
  <2>2. SumsUp(Untouched) /\ Untouched.score = 0
    <3>1. \A hits \in Seq(Answer) : Adds(RunningSum(hits, 0), hits, 0)
      BY RunningSumAdds
    <3>2. Adds(RunningSum(<<>>, 0), <<>>, 0)
      BY <1>4, <3>1
    <3> QED
      BY <1>4, <3>2 DEF SumsUp, Total, Adds, Untouched
  <2>3. Accounted(e)
    BY <1>4, <2>1 DEF Accounted, Outcomes, Untouched, DecisionAllow, DecisionBlock
  <2>4. Coherent(steps[e])
    <3>1. DOMAIN <<>> = {}
      OBVIOUS
    <3> QED
      BY <1>4, <2>1, <3>1 DEF Coherent
  <2> QED
    BY <2>1, <2>2, <2>3, <2>4, MaxScoreAssumption DEF Locals, Returned, Running, Finite
<1> QED
  BY <1>7, <1>8 DEF Inv

(* Every step keeps the invariant.                                         *)
LEMMA StepInv == Inv /\ [Next]_vars => Inv'
<1> SUFFICES ASSUME Inv, [Next]_vars PROVE Inv'
  OBVIOUS
<1>1. ASSUME NEW e \in Evaluations, StepCancelled(e) PROVE Inv'
  BY <1>1, CancelledReturn DEF StepCancelled, Running
<1>2. ASSUME NEW e \in Evaluations, NEW hits \in HitLists, AnsweredLate(e, hits) PROVE Inv'
  BY <1>2, CancelledReturn DEF AnsweredLate, Running
<1>3. ASSUME NEW e \in Evaluations, NEW hits \in HitLists, AnswersError(e, hits) PROVE Inv'
  BY <1>3, EvaluatorFailsInv DEF AnswersError
<1>4. ASSUME UNCHANGED vars PROVE Inv'
  <2>1. /\ UNCHANGED <<ruleSet, registrations, policy, changes, input, pc, steps, pos, result,
                       failures, cancelled>>
        /\ Typing
    BY <1>4 DEF vars, Inv
  <2>2. Typing'
    BY <2>1 DEF Typing, TypeOK, Registry
  <2>3. ASSUME NEW d \in Evaluations PROVE Locals(d)'
    BY <2>1, OthersKeep DEF Inv
  <2> QED
    BY <2>2, <2>3 DEF Inv
<1> QED
  BY <1>1, <1>2, <1>3, <1>4, BeginInv, MovesInv, AnswersHitsInv, FinishInv, CancelInv, RegistryInv
     DEF Next, Proceed, Answers, AllReturned

(* It holds of every state.                                                *)
LEMMA Invariance == Spec => []Inv
<1> QED
  BY InitInv, StepInv, PTL DEF Spec

(* The registry and the locals of evaluations keep their shapes.           *)
THEOREM FrameworkTypes == Spec => []TypeOK
<1>1. Inv => TypeOK
  BY DEF Inv, Typing
<1> QED
  BY <1>1, Invariance, PTL

(* Every evaluation runs over a registry that was valid as a whole, in     *)
(* stable priority order, whatever Register and ReplaceRules do meanwhile. *)
THEOREM SnapshotsAreCoherent == Spec => []SnapshotCoherent
<1>1. Inv => SnapshotCoherent
  BY DEF Inv, Locals, Coherent, SnapshotCoherent
<1> QED
  BY <1>1, Invariance, PTL

(* No evaluation that failed is at allow, and none at review where the     *)
(* policy says block.                                                      *)
THEOREM FailuresNeverAllow == Spec => []FailureNeverAllows
<1>1. Inv => FailureNeverAllows
  <2> SUFFICES ASSUME Inv, NEW e \in Evaluations, failures[e] # {}
               PROVE  /\ result[e].decision # DecisionAllow
                      /\ policy.failure = "block" => result[e].decision = DecisionBlock
    BY DEF FailureNeverAllows
  <2>1. CASE Returned(e)
    <3>1. Explained(e)
      BY <2>1 DEF Inv, Locals
    <3> QED
      BY <3>1 DEF Explained
  <2>2. CASE ~Returned(e)
    <3>1. Accounted(e)
      BY <2>2 DEF Inv, Locals
    <3> QED
      BY <3>1 DEF Accounted
  <2> QED
    BY <2>1, <2>2
<1> QED
  BY <1>1, Invariance, PTL

(* What is returned is explained by what was heard.                        *)
THEOREM DecisionsAreExplained == Spec => []DecisionExplained
<1>1. Inv => DecisionExplained
  BY DEF Inv, Locals, DecisionExplained
<1> QED
  BY <1>1, Invariance, PTL

-----------------------------------------------------------------------------
(* The decision new takes back nothing of old.                             *)
KeepsUp(new, old) ==
  /\ old = DecisionBlock => new = DecisionBlock
  /\ old = DecisionReview => new # DecisionAllow

(* No step takes back a review or a block.                                 *)
LEMMA StepKeepsUp ==
  ASSUME Inv, [Next]_vars, NEW e \in Evaluations
  PROVE  KeepsUp(result'[e].decision, result[e].decision)
<1>1. /\ Typing /\ Locals(e) /\ result[e] \in Result
      /\ result \in [Evaluations -> Result]
      /\ result[e].decision \in Decision
  BY DEF Inv, Typing, Result
<1>2. /\ DecisionAllow # DecisionReview /\ DecisionAllow # DecisionBlock
      /\ DecisionReview # DecisionBlock /\ Decision = {DecisionAllow, DecisionReview, DecisionBlock}
  BY DEF DecisionAllow, DecisionReview, DecisionBlock, Decision
<1> HIDE DEF DecisionAllow, DecisionReview, DecisionBlock, Decision
<1>3. ASSUME result'[e] = result[e] PROVE KeepsUp(result'[e].decision, result[e].decision)
  BY <1>2, <1>3 DEF KeepsUp
<1>4. ASSUME NEW d \in Evaluations, NEW out, result' = [result EXCEPT ![d] = out],
             KeepsUp(out.decision, result[d].decision)
      PROVE  KeepsUp(result'[e].decision, result[e].decision)
  <2>1. CASE d = e
    BY <1>1, <1>4, <2>1
  <2>2. CASE d # e
    BY <1>1, <1>3, <1>4, <2>2
  <2> QED
    BY <2>1, <2>2
<1>5. ASSUME NEW d \in Evaluations PROVE result[d] \in Result
  BY <1>1
<1>6. ASSUME NEW d \in Evaluations, NEW kind \in Failure
      PROVE  KeepsUp(Fail(result[d], kind).decision, result[d].decision)
  BY <1>2, <1>5, FailFails DEF Failed, KeepsUp
<1>7. ASSUME NEW d \in Evaluations, NEW kind \in Failure, ReturnFailed(d, kind)
      PROVE  KeepsUp(result'[e].decision, result[e].decision)
  BY <1>4, <1>6, <1>7 DEF ReturnFailed, Return
<1>8. "cancelled" \in Failure /\ "thresholds" \in Failure /\ "evaluator" \in Failure
  BY DEF Failure
<1>9. ASSUME NEW d \in Evaluations, Begin(d)
      PROVE  KeepsUp(result'[e].decision, result[e].decision)
  <2>1. pc[d] = "start" /\ Locals(d)
    BY <1>9 DEF Begin, Inv
  <2>2. result[d].decision = DecisionAllow
    BY <2>1 DEF Locals, Untouched
  <2>3. ASSUME NEW x PROVE KeepsUp(x, result[d].decision)
    BY <1>2, <2>2 DEF KeepsUp
  <2>4. \/ \E out : result' = [result EXCEPT ![d] = out]
        \/ result' = result
    BY <1>9 DEF Begin, ReturnFailed, Return
  <2> QED
    BY <1>3, <1>4, <2>3, <2>4
<1>10. ASSUME NEW d \in Evaluations, EvaluatorFails(d)
       PROVE  KeepsUp(result'[e].decision, result[e].decision)
  BY <1>4, <1>6, <1>8, <1>10 DEF EvaluatorFails, Return, Continue
<1>11. ASSUME NEW d \in Evaluations, NEW hits \in HitLists, AnswersHits(d, hits)
       PROVE  KeepsUp(result'[e].decision, result[e].decision)
  <2> DEFINE out == ApplyHits(result[d], hits)
  <2>1. hits \in Seq(Answer)
    BY HitListsAssumption
  <2>2. PICK n \in 0 .. Len(hits) : Heard(out, result[d], hits, n)
    BY <1>5, <2>1, ApplyHitsHears
  <2>3. EvaluatorFails(d) \/ result' = [result EXCEPT ![d] = out]
    BY <1>11 DEF AnswersHits, Return, Continue
  <2> HIDE DEF out
  <2>4. KeepsUp(out.decision, result[d].decision)
    BY <1>2, <2>2 DEF Heard, KeepsUp
  <2> QED
    BY <1>4, <1>10, <2>3, <2>4
<1>12. ASSUME NEW d \in Evaluations, Finish(d)
       PROVE  KeepsUp(result'[e].decision, result[e].decision)
  <2> DEFINE out == ApplyThresholds(result[d], input[d])
  <2>1. Measured(out, result[d], input[d]) /\ result' = [result EXCEPT ![d] = out]
    BY <1>5, <1>12, ApplyThresholdsMeasures DEF Finish, Return
  <2> HIDE DEF out
  <2>2. KeepsUp(out.decision, result[d].decision)
    BY <1>2, <2>1 DEF Measured, KeepsUp
  <2> QED
    BY <1>4, <2>1, <2>2
<1>13. ASSUME UNCHANGED result PROVE KeepsUp(result'[e].decision, result[e].decision)
  BY <1>3, <1>13
<1>14. ASSUME NEW d \in Evaluations, Proceed(d) \/ Cancel(d)
       PROVE  KeepsUp(result'[e].decision, result[e].decision)
  BY <1>7, <1>8, <1>9, <1>12, <1>13, <1>14 DEF Proceed, StepCancelled, Skip, Call, Cancel
<1>15. ASSUME NEW d \in Evaluations, NEW hits \in HitLists, Answers(d, hits)
       PROVE  KeepsUp(result'[e].decision, result[e].decision)
  BY <1>7, <1>8, <1>10, <1>11, <1>15 DEF Answers, AnsweredLate, AnswersError
<1>16. CASE \/ \E r \in Registrations : Register(r)
            \/ \E rules \in RuleSets : ReplaceRules(rules)
            \/ UNCHANGED vars
  BY <1>13, <1>16 DEF Register, ReplaceRules, vars
<1> QED
  BY <1>14, <1>15, <1>16 DEF Next, AllReturned

(* Nothing brings an evaluation back from a block, nor from a review to an *)
(* allow: no later hit, failure, cancellation or threshold.                *)
THEOREM NothingDowngrades == Spec => NoDowngrade
<1>1. Inv /\ [Next]_vars =>
        [\A e \in Evaluations :
           /\ result[e].decision = DecisionBlock => result'[e].decision = DecisionBlock
           /\ result[e].decision = DecisionReview => result'[e].decision # DecisionAllow]_vars
  BY StepKeepsUp DEF KeepsUp
<1> QED
  BY <1>1, Invariance, PTL DEF Spec, NoDowngrade

-----------------------------------------------------------------------------
(* The history is only looked at.                                          *)
LEMMA HistoryStep == [HNext]_hvars => [Next]_vars
BY DEF HNext, Next, Answers, hvars

(* Remembering the answers allows the program no step it did not have.     *)
THEOREM HistoryAddsNothing == HSpec => Spec
<1>1. HInit => Init
  BY DEF HInit
<1> QED
  BY <1>1, HistoryStep, PTL DEF HSpec, Spec

AnswerKept == [hits : Seq(Answer), error : BOOLEAN, late : BOOLEAN, before : Seq(Answer)]

(* What an answer did to the result of its evaluation.                     *)
Does(e, answer) ==
  IF Refused(answer) THEN result'[e].hits = result[e].hits
  ELSE \/ result'[e].hits = result[e].hits \o answer.hits
       \/ /\ policy.stopOnBlock /\ pc'[e] = "returned" /\ result'[e].decision = DecisionBlock
          /\ \E k \in DOMAIN answer.hits :
               result'[e].hits = result[e].hits \o SubSeq(answer.hits, 1, k)

(* An evaluation that fails keeps the hits it has.                         *)
LEMMA FailureKeepsHits ==
  ASSUME Inv, NEW e \in Evaluations, NEW kind \in Failure,
         ReturnFailed(e, kind) \/ (EvaluatorFails(e) /\ kind = "evaluator")
  PROVE  result'[e].hits = result[e].hits
<1> DEFINE out == Fail(result[e], kind)
<1>1. result \in [Evaluations -> Result] /\ result[e] \in Result
  BY DEF Inv, Typing
<1>2. out.hits = result[e].hits
  BY <1>1, FailFails DEF Failed
<1>3. result' = [result EXCEPT ![e] = out]
  BY DEF ReturnFailed, Return, EvaluatorFails, Continue
<1> HIDE DEF out
<1> QED
  BY <1>1, <1>2, <1>3

(* An answer is refused as a whole or counts.                              *)
LEMMA AnswerDoes ==
  ASSUME Inv, NEW e \in Evaluations, NEW hits \in HitLists, NEW answer \in AnswerKept,
         answer.hits = hits, answer.before = result[e].hits,
         \/ AnsweredLate(e, hits) /\ answer.late
         \/ AnswersError(e, hits) /\ answer.error
         \/ AnswersHits(e, hits) /\ ~answer.error /\ ~answer.late
  PROVE  Does(e, answer)
<1> DEFINE out == ApplyHits(result[e], hits)
<1>1. /\ result \in [Evaluations -> Result] /\ result[e] \in Result
      /\ result[e].hits \in Seq(Answer) /\ hits \in Seq(Answer)
      /\ SumsUp(result[e])
  BY HitListsAssumption DEF Inv, Typing, Locals, Result
<1>2. "cancelled" \in Failure /\ "evaluator" \in Failure
  BY DEF Failure
<1>3. CASE AnsweredLate(e, hits) /\ answer.late
  BY <1>2, <1>3, FailureKeepsHits DEF AnsweredLate, Does, Refused
<1>4. CASE AnswersError(e, hits) /\ answer.error
  BY <1>2, <1>4, FailureKeepsHits DEF AnswersError, Does, Refused
<1>5. CASE AnswersHits(e, hits) /\ ~answer.error /\ ~answer.late
  <2>1. Refused(answer) <=> ~AcceptableHits(hits, result[e].score)
    <3>1. \A i \in DOMAIN hits :
            Total(result[e].hits \o SubSeq(hits, 1, i)) = RunningSum(hits, result[e].score)[i]
      <4>1. DOMAIN hits = 1 .. Len(hits) /\ Len(hits) \in Nat
        BY <1>1, ElementsAreAnswers
      <4>2. \A i \in DOMAIN hits : i \in 0 .. Len(hits)
        BY <4>1
      <4> QED
        BY <1>1, <4>2, TotalOfPrefix DEF SumsUp
    <3>2. \A i \in DOMAIN hits :
            hits[i].outcome \in Decision \cup (IF policy.allowEmptyOutcome THEN {""} ELSE {}) <=>
              \/ hits[i].outcome \in Decision
              \/ hits[i].outcome = "" /\ policy.allowEmptyOutcome
      OBVIOUS
    <3> QED
      BY <1>5, <3>1, <3>2 DEF Refused, AcceptableHits
  <2>2. CASE ~AcceptableHits(hits, result[e].score)
    BY <1>2, <1>5, <2>1, <2>2, FailureKeepsHits DEF AnswersHits, Does
  <2>3. CASE AcceptableHits(hits, result[e].score)
    <3>1. PICK n \in 0 .. Len(hits) :
            /\ Heard(out, result[e], hits, n)
            /\ \/ n = Len(hits)
               \/ n \in 1 .. Len(hits) /\ policy.stopOnBlock /\ out.decision = DecisionBlock
      BY <1>1, ApplyHitsHears
    <3>2. out.hits = result[e].hits \o SubSeq(hits, 1, n)
      BY <3>1 DEF Heard
    <3>3. IF policy.stopOnBlock /\ hits # <<>> /\ out.decision = DecisionBlock
          THEN Return(e, out) ELSE Continue(e, out)
      BY <1>5, <2>3 DEF AnswersHits
    <3> HIDE DEF out
    <3>4. result'[e] = out
      BY <1>1, <3>3 DEF Return, Continue
    <3>5. CASE n = Len(hits)
      <4>1. SubSeq(hits, 1, n) = hits
        BY <1>1, <3>5, SubSeqFull
      <4> QED
        BY <2>1, <2>3, <3>2, <3>4, <4>1 DEF Does
    <3>6. CASE n \in 1 .. Len(hits) /\ policy.stopOnBlock /\ out.decision = DecisionBlock
      <4>1. n \in DOMAIN hits /\ hits # <<>>
        <5>1. DOMAIN hits = 1 .. Len(hits)
          BY <1>1, ElementsAreAnswers
        <5> QED
          BY <3>6, <5>1, EmptySeq
      <4>2. Return(e, out)
        BY <3>3, <3>6, <4>1
      <4>3. pc'[e] = "returned"
        BY <4>2 DEF Return, Inv, Typing, TypeOK
      <4> QED
        BY <2>1, <2>3, <3>2, <3>4, <3>6, <4>1, <4>3 DEF Does
    <3> QED
      BY <3>1, <3>5, <3>6
  <2> QED
    BY <2>2, <2>3
<1> QED
  BY <1>3, <1>4, <1>5

(* What holds of the history of one evaluation.                            *)
Remembered(e) ==
  /\ HitsBefore(e, 1) = <<>>
  /\ \A n \in DOMAIN answers[e] : Taken(e, n)

HInv ==
  /\ Inv
  /\ answers \in [Evaluations -> Seq(AnswerKept)]
  /\ \A e \in Evaluations : Remembered(e)

(* An evaluation that hears nothing keeps its hits, and once it has        *)
(* returned everything.                                                    *)
LEMMA QuietKeeps ==
  ASSUME HInv, NEW e \in Evaluations, UNCHANGED policy, answers'[e] = answers[e],
         result'[e].hits = result[e].hits,
         Returned(e) => pc'[e] = pc[e] /\ result'[e] = result[e]
  PROVE  Remembered(e)'
<1>1. \A n : HitsBefore(e, n)' = HitsBefore(e, n)
  BY DEF HitsBefore
<1>2. \A n : HitsAfter(e, n)' = HitsAfter(e, n)
  BY <1>1 DEF HitsAfter
<1>3. ASSUME NEW n PROVE CutShort(e, n) => CutShort(e, n)'
  BY <1>1, <1>2 DEF CutShort, Returned
<1>4. ASSUME NEW n PROVE Refused(answers[e][n])' = Refused(answers[e][n])
  BY DEF Refused
<1>5. ASSUME NEW n \in DOMAIN answers[e] PROVE Taken(e, n)'
  <2>1. Taken(e, n)
    BY DEF HInv, Remembered
  <2>2. Refused(answers[e][n])' <=> Refused(answers[e][n])
    BY <1>4
  <2>3. answers'[e][n] = answers[e][n]
    OBVIOUS
  <2> QED
    BY <1>1, <1>2, <1>3, <2>1, <2>2, <2>3 DEF Taken
<1> QED
  BY <1>1, <1>5 DEF HInv, Remembered

(* An answer is added to those before it.                                  *)
LEMMA AnswerKeeps ==
  ASSUME HInv, NEW e \in Evaluations, ~Returned(e), UNCHANGED policy,
         NEW answer \in AnswerKept, answer.before = result[e].hits,
         answers'[e] = Append(answers[e], answer), Does(e, answer)
  PROVE  Remembered(e)'
<1> PICK m \in Nat : m = Len(answers[e])
  BY LenProperties DEF HInv
<1>1. /\ answers[e] \in Seq(AnswerKept) /\ m \in Nat /\ DOMAIN answers[e] = 1 .. m
      /\ Remembered(e)
  BY LenProperties DEF HInv
<1>2. /\ Len(answers'[e]) = m + 1 /\ answers'[e][m + 1] = answer /\ DOMAIN answers'[e] = 1 .. m + 1
      /\ \A n \in 1 .. m : answers'[e][n] = answers[e][n]
  <2>1. Append(answers[e], answer) \in Seq(AnswerKept)
    BY <1>1, AppendProperties
  <2> QED
    BY <1>1, <2>1, AppendProperties, LenProperties
<1>3. ASSUME NEW n \in 1 .. m + 1 PROVE HitsBefore(e, n)' = HitsBefore(e, n)
  <2>1. CASE n \in 1 .. m
    <3>1. n <= m /\ n <= m + 1
      BY <1>1, <2>1
    <3> QED
      BY <1>1, <1>2, <2>1, <3>1 DEF HitsBefore
  <2>2. CASE n = m + 1
    <3>1. ~(n <= m) /\ n <= m + 1
      BY <1>1, <2>2
    <3> QED
      BY <1>2, <2>2, <3>1 DEF HitsBefore
  <2> QED
    BY <1>1, <2>1, <2>2
<1>4. HitsBefore(e, m + 2)' = result'[e].hits
  <2>1. ~(m + 2 <= m + 1)
    BY <1>1
  <2> QED
    BY <1>2, <2>1 DEF HitsBefore
<1>5. ASSUME NEW n \in 1 .. m PROVE Taken(e, n)'
  <2>1. n \in 1 .. m + 1 /\ n + 1 \in 1 .. m + 1
    BY <1>1
  <2>2. HitsBefore(e, n)' = HitsBefore(e, n) /\ HitsAfter(e, n)' = HitsAfter(e, n)
    BY <1>3, <2>1 DEF HitsAfter
  <2>3. Taken(e, n) /\ ~CutShort(e, n)
    BY <1>1 DEF Remembered, CutShort
  <2>4. answers'[e][n] = answers[e][n]
    BY <1>2
  <2>5. Refused(answers[e][n])' <=> Refused(answers[e][n])
    BY <2>4 DEF Refused
  <2> QED
    BY <2>2, <2>3, <2>4, <2>5 DEF Taken
<1>6. Taken(e, m + 1)'
  <2>1. HitsBefore(e, m + 1) = result[e].hits
    <3>1. ~(m + 1 <= m)
      BY <1>1
    <3> QED
      BY <3>1 DEF HitsBefore
  <2>2. HitsBefore(e, m + 1)' = result[e].hits
    BY <1>1, <1>3, <2>1
  <2>3. HitsAfter(e, m + 1)' = result'[e].hits
    <3>1. (m + 1) + 1 = m + 2
      BY <1>1
    <3> QED
      BY <1>4, <3>1 DEF HitsAfter
  <2>4. Refused(answers[e][m + 1])' <=> Refused(answer)
    BY <1>2 DEF Refused
  <2>5. CASE Refused(answer)
    BY <2>2, <2>3, <2>4, <2>5 DEF Taken, Does
  <2>6. CASE ~Refused(answer)
    <3>1. CASE result'[e].hits = result[e].hits \o answer.hits
      BY <1>2, <2>2, <2>3, <2>4, <2>6, <3>1 DEF Taken
    <3>2. CASE /\ policy.stopOnBlock /\ pc'[e] = "returned" /\ result'[e].decision = DecisionBlock
               /\ \E k \in DOMAIN answer.hits :
                    result'[e].hits = result[e].hits \o SubSeq(answer.hits, 1, k)
      <4>1. CutShort(e, m + 1)'
        BY <1>2, <2>2, <2>3, <3>2 DEF CutShort, Returned
      <4> QED
        BY <2>4, <2>6, <4>1 DEF Taken
    <3> QED
      BY <2>6, <3>1, <3>2 DEF Does
  <2> QED
    BY <2>5, <2>6
<1>7. HitsBefore(e, 1)' = <<>>
  BY <1>1, <1>3 DEF Remembered
<1>8. \A n : n \in 1 .. m + 1 <=> n \in 1 .. m \/ n = m + 1
  BY <1>1
<1> QED
  BY <1>2, <1>5, <1>6, <1>7, <1>8 DEF Remembered

(* A step that is no answer adds no hit, and changes nothing of an         *)
(* evaluation that has returned.                                           *)
LEMMA QuietStep ==
  ASSUME Inv, NEW d \in Evaluations,
         \/ \E r \in Registrations : Register(r)
         \/ \E rules \in RuleSets : ReplaceRules(rules)
         \/ \E e \in Evaluations : Cancel(e) \/ Proceed(e)
         \/ UNCHANGED vars
  PROVE  /\ UNCHANGED policy
         /\ result'[d].hits = result[d].hits
         /\ Returned(d) => pc'[d] = pc[d] /\ result'[d] = result[d]
<1>1. /\ result \in [Evaluations -> Result]
      /\ pc \in [Evaluations -> {"start", "loop", "calling", "returned"}]
  BY DEF Inv, Typing, TypeOK
<1>2. CASE \/ \E r \in Registrations : Register(r)
           \/ \E rules \in RuleSets : ReplaceRules(rules)
           \/ \E e \in Evaluations : Cancel(e)
           \/ UNCHANGED vars
  BY <1>2 DEF Register, ReplaceRules, Cancel, vars
<1>3. ASSUME NEW e \in Evaluations, NEW out, pc[e] # "returned", UNCHANGED policy,
             result' = [result EXCEPT ![e] = out], out.hits = result[e].hits,
             \E step : pc' = [pc EXCEPT ![e] = step]
      PROVE  /\ UNCHANGED policy
             /\ result'[d].hits = result[d].hits
             /\ Returned(d) => pc'[d] = pc[d] /\ result'[d] = result[d]
  BY <1>1, <1>3 DEF Returned
<1>4. ASSUME NEW e \in Evaluations, Skip(e) \/ Call(e)
      PROVE  /\ UNCHANGED policy
             /\ result'[d].hits = result[d].hits
             /\ Returned(d) => pc'[d] = pc[d] /\ result'[d] = result[d]
  BY <1>1, <1>4 DEF Skip, Call, Returned
<1>5. ASSUME NEW e \in Evaluations, NEW kind \in Failure, ReturnFailed(e, kind), pc[e] # "returned",
             UNCHANGED policy
      PROVE  /\ UNCHANGED policy
             /\ result'[d].hits = result[d].hits
             /\ Returned(d) => pc'[d] = pc[d] /\ result'[d] = result[d]
  <2> DEFINE out == Fail(result[e], kind)
  <2>1. out.hits = result[e].hits
    BY <1>1, FailFails DEF Failed
  <2>2. result' = [result EXCEPT ![e] = out] /\ pc' = [pc EXCEPT ![e] = "returned"]
    BY <1>5 DEF ReturnFailed, Return
  <2> HIDE DEF out
  <2> QED
    BY <1>3, <1>5, <2>1, <2>2
<1>6. "cancelled" \in Failure /\ "thresholds" \in Failure /\ "invalid" \in Failure
  BY DEF Failure
<1>7. ASSUME NEW e \in Evaluations, StepCancelled(e)
      PROVE  /\ UNCHANGED policy
             /\ result'[d].hits = result[d].hits
             /\ Returned(d) => pc'[d] = pc[d] /\ result'[d] = result[d]
  BY <1>5, <1>6, <1>7 DEF StepCancelled
<1>8. ASSUME NEW e \in Evaluations, Finish(e)
      PROVE  /\ UNCHANGED policy
             /\ result'[d].hits = result[d].hits
             /\ Returned(d) => pc'[d] = pc[d] /\ result'[d] = result[d]
  <2> DEFINE out == ApplyThresholds(result[e], input[e])
  <2>1. out.hits = result[e].hits
    BY <1>1, ApplyThresholdsMeasures DEF Measured
  <2>2. /\ result' = [result EXCEPT ![e] = out] /\ pc' = [pc EXCEPT ![e] = "returned"]
        /\ pc[e] # "returned" /\ UNCHANGED policy
    BY <1>8 DEF Finish, Return
  <2> HIDE DEF out
  <2> QED
    BY <1>3, <2>1, <2>2
<1>9. ASSUME NEW e \in Evaluations, Begin(e)
      PROVE  /\ UNCHANGED policy
             /\ result'[d].hits = result[d].hits
             /\ Returned(d) => pc'[d] = pc[d] /\ result'[d] = result[d]
  <2> DEFINE res == Fail(result[e], "invalid")
             invalid == IF input[e].onInvalid = DecisionBlock
                        THEN [res EXCEPT !.decision = DecisionBlock] ELSE res
             blocked == [result[e] EXCEPT !.decision = DecisionBlock, !.reasons = {"account"}]
  <2>1. pc[e] # "returned" /\ UNCHANGED policy
    BY <1>9 DEF Begin
  <2>2. invalid.hits = result[e].hits
    <3>1. res \in Result /\ res.hits = result[e].hits
      BY <1>1, <1>6, FailFails DEF Failed
    <3> HIDE DEF res
    <3> QED
      BY <3>1 DEF Result
  <2>3. blocked.hits = result[e].hits
    <3>1. result[e] \in Result
      BY <1>1
    <3> QED
      BY <3>1 DEF Result
  <2>4. \/ ReturnFailed(e, "cancelled") \/ ReturnFailed(e, "thresholds")
        \/ Return(e, invalid) \/ Return(e, blocked)
        \/ pc' = [pc EXCEPT ![e] = "loop"] /\ UNCHANGED result
    BY <1>9 DEF Begin
  <2> HIDE DEF invalid, blocked
  <2>5. CASE ReturnFailed(e, "cancelled") \/ ReturnFailed(e, "thresholds")
    BY <1>5, <1>6, <2>1, <2>5
  <2>6. CASE Return(e, invalid)
    BY <1>3, <2>1, <2>2, <2>6 DEF Return
  <2>7. CASE Return(e, blocked)
    BY <1>3, <2>1, <2>3, <2>7 DEF Return
  <2>8. CASE pc' = [pc EXCEPT ![e] = "loop"] /\ UNCHANGED result
    BY <1>1, <2>1, <2>8 DEF Returned
  <2> QED
    BY <2>4, <2>5, <2>6, <2>7, <2>8
<1> QED
  BY <1>2, <1>4, <1>7, <1>8, <1>9 DEF Proceed

(* An answer changes nothing of the evaluations it is not for.             *)
LEMMA AnswerIsLocal ==
  ASSUME Inv, NEW e \in Evaluations, NEW hits \in HitLists, Answers(e, hits),
         NEW d \in Evaluations, d # e
  PROVE  pc'[d] = pc[d] /\ result'[d] = result[d]
<1>1. /\ result \in [Evaluations -> Result]
      /\ pc \in [Evaluations -> {"start", "loop", "calling", "returned"}]
  BY DEF Inv, Typing, TypeOK
<1>2. \E out : result' = [result EXCEPT ![e] = out]
  BY DEF Answers, AnsweredLate, AnswersError, AnswersHits, ReturnFailed, EvaluatorFails, Return,
         Continue
<1>3. \E step : pc' = [pc EXCEPT ![e] = step]
  BY DEF Answers, AnsweredLate, AnswersError, AnswersHits, ReturnFailed, EvaluatorFails, Return,
         Continue
<1> QED
  BY <1>1, <1>2, <1>3

(* An answer is remembered, and does what it should.                       *)
LEMMA HearInv ==
  ASSUME HInv, NEW e \in Evaluations, NEW hits \in HitLists, NEW error \in BOOLEAN,
         \/ AnsweredLate(e, hits)
         \/ AnswersError(e, hits) /\ error
         \/ AnswersHits(e, hits) /\ ~error,
         Hear(e, hits, error)
  PROVE  HInv'
<1> DEFINE late == e \in cancelled
           answer == [hits |-> hits, error |-> error, late |-> late, before |-> result[e].hits]
<1>1. /\ Inv /\ answers \in [Evaluations -> Seq(AnswerKept)] /\ answers[e] \in Seq(AnswerKept)
      /\ result[e].hits \in Seq(Answer) /\ hits \in Seq(Answer)
      /\ Answers(e, hits) /\ ~Returned(e) /\ UNCHANGED policy
  BY HitListsAssumption
     DEF HInv, Inv, Typing, Result, Answers, AnsweredLate, AnswersError, AnswersHits, Returned
<1>2. late \in BOOLEAN /\ (AnsweredLate(e, hits) <=> Answers(e, hits) /\ late)
  BY DEF AnsweredLate, AnswersError, AnswersHits, Answers
<1>3. answers' = [answers EXCEPT ![e] = Append(answers[e], answer)]
  BY <1>1 DEF Hear
<1>4. (AnswersError(e, hits) \/ AnswersHits(e, hits)) => ~late
  BY DEF AnswersError, AnswersHits
<1> HIDE DEF late
<1>5. /\ answer \in AnswerKept /\ answer.hits = hits /\ answer.before = result[e].hits
      /\ answer.error = error /\ answer.late = late
  BY <1>1, <1>2 DEF AnswerKept
<1> HIDE DEF answer
<1>6. Does(e, answer)
  <2>1. \/ AnsweredLate(e, hits) /\ late
        \/ AnswersError(e, hits) /\ error
        \/ AnswersHits(e, hits) /\ ~error /\ ~late
    BY <1>2, <1>4
  <2>2. \/ AnsweredLate(e, hits) /\ answer.late
        \/ AnswersError(e, hits) /\ answer.error
        \/ AnswersHits(e, hits) /\ ~answer.error /\ ~answer.late
    BY <1>5, <2>1
  <2> QED
    BY <1>1, <1>5, <2>2, AnswerDoes
<1>7. answers'[e] = Append(answers[e], answer) /\ Append(answers[e], answer) \in Seq(AnswerKept)
  BY <1>1, <1>3, <1>5, AppendProperties
<1>8. answers' \in [Evaluations -> Seq(AnswerKept)]
  BY <1>1, <1>3, <1>7
<1>9. Inv'
  <2>1. [Next]_vars
    BY <1>1 DEF Next
  <2> QED
    BY <1>1, <2>1, StepInv
<1>10. ASSUME NEW d \in Evaluations PROVE Remembered(d)'
  <2>1. CASE d = e
    BY <1>1, <1>5, <1>6, <1>7, <2>1, AnswerKeeps
  <2>2. CASE d # e
    <3>1. answers'[d] = answers[d]
      BY <1>1, <1>3, <2>2
    <3>2. pc'[d] = pc[d] /\ result'[d] = result[d]
      BY <1>1, <2>2, AnswerIsLocal
    <3> QED
      BY <1>1, <3>1, <3>2, QuietKeeps
  <2> QED
    BY <2>1, <2>2
<1> QED
  BY <1>8, <1>9, <1>10 DEF HInv

(* Every step keeps the history true.                                      *)
LEMMA HStepInv == HInv /\ [HNext]_hvars => HInv'
<1> SUFFICES ASSUME HInv, [HNext]_hvars PROVE HInv'
  OBVIOUS
<1>1. ASSUME UNCHANGED answers,
             \/ \E r \in Registrations : Register(r)
             \/ \E rules \in RuleSets : ReplaceRules(rules)
             \/ \E e \in Evaluations : Cancel(e) \/ Proceed(e)
             \/ UNCHANGED vars
      PROVE  HInv'
  <2>1. Inv /\ Inv'
    BY HistoryStep, StepInv DEF HInv
  <2>2. ASSUME NEW d \in Evaluations PROVE Remembered(d)'
    BY <1>1, <2>1, QuietStep, QuietKeeps
  <2> QED
    BY <1>1, <2>1, <2>2 DEF HInv
<1> QED
  BY <1>1, HearInv DEF HNext, AllReturned, hvars

(* Nothing has been answered before the first step.                        *)
LEMMA HInitInv == HInit => HInv
<1> SUFFICES ASSUME HInit PROVE HInv
  OBVIOUS
<1>1. Inv /\ answers = [e \in Evaluations |-> <<>>]
  BY InitInv DEF HInit
<1>2. <<>> \in Seq(AnswerKept) /\ Len(<<>>) = 0 /\ DOMAIN <<>> = {}
  BY EmptySeq
<1>3. ASSUME NEW e \in Evaluations PROVE Remembered(e)
  <2>1. answers[e] = <<>> /\ result[e].hits = <<>>
    BY <1>1 DEF HInit, Init, Untouched
  <2> QED
    BY <1>2, <2>1 DEF Remembered, HitsBefore
<1> QED
  BY <1>1, <1>2, <1>3 DEF HInv

(* A result holds the hits of the answers that came in time, without error *)
(* and acceptable as a whole, in their order, and no other; its score is   *)
(* their sum and finite: for answers of any length and any number.         *)
THEOREM OnlyAcceptedCount == HSpec => []OnlyAcceptedHitsCount
<1>1. HInv => OnlyAcceptedHitsCount
  BY DEF HInv, Inv, Locals, Remembered, SumsUp, OnlyAcceptedHitsCount
<1> QED
  BY <1>1, HInitInv, HStepInv, PTL DEF HSpec

=============================================================================
