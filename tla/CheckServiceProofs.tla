------------------------- MODULE CheckServiceProofs -------------------------
(***************************************************************************)
(* Proofs about one transfer check: that a condition of any shape is       *)
(* evaluated as Boolean logic says, that the decision has exactly the      *)
(* stated causes for any list of rules, that an accepted rule fails over   *)
(* money only, that aggregates stand for the history they were made from,  *)
(* and that a document is read in one way only, and in the same way in     *)
(* another form.                                                           *)
(***************************************************************************)
EXTENDS CheckServiceProperties, OperatorProofs

-----------------------------------------------------------------------------
(* The children of a node that are read.                                   *)
LEMMA KidsAbove ==
  ASSUME NEW tree, IsCondition(tree), NEW n \in DOMAIN tree
  PROVE  /\ n \in Nat
         /\ Len(Kids(tree[n])) \in Nat /\ DOMAIN Kids(tree[n]) = 1 .. Len(Kids(tree[n]))
         /\ \A i \in DOMAIN Kids(tree[n]) :
              Kids(tree[n])[i] \in DOMAIN tree /\ Kids(tree[n])[i] \in Nat /\ Kids(tree[n])[i] > n
         /\ n \notin Leaves(tree) <=> DOMAIN Kids(tree[n]) # {}
<1> DEFINE S == n + 1 .. Len(tree)
           kids == Kids(tree[n])
<1>1. /\ n \in Nat /\ Len(tree) \in Nat /\ DOMAIN tree = 1 .. Len(tree)
      /\ tree[n].all \in Seq(S) /\ tree[n].any \in Seq(S)
  BY DEF IsCondition
<1>2. kids \in Seq(S)
  BY <1>1 DEF Kids
<1>3. n \notin Leaves(tree) <=> kids # <<>>
  BY DEF Kids, Leaves
<1>4. \A m \in S : m \in DOMAIN tree /\ m \in Nat /\ m > n
  BY <1>1
<1> HIDE DEF S, kids
<1>5. /\ Len(kids) \in Nat /\ DOMAIN kids = 1 .. Len(kids) /\ \A i \in DOMAIN kids : kids[i] \in S
      /\ kids # <<>> <=> DOMAIN kids # {}
  BY <1>2, LenProperties, ElementOfSeq, EmptySeq
<1>6. kids # <<>> <=> DOMAIN kids # {}
  BY <1>5
<1> QED
  BY <1>1, <1>3, <1>4, <1>5, <1>6 DEF kids

(* The nodes from n below hi are all that is read for n.                   *)
Closed(tree, n, hi) ==
  /\ hi \in Int /\ n < hi
  /\ \A m \in DOMAIN tree : n <= m /\ m < hi =>
       \A i \in DOMAIN Kids(tree[m]) : Kids(tree[m])[i] < hi

(* Where the subtree of the i-th child ends: before the next child.        *)
End(kids, i, hi) == IF i < Len(kids) THEN kids[i + 1] ELSE hi

(* The subtrees of children are closed and follow each other.              *)
LEMMA KidsClosed ==
  ASSUME NEW tree, IsCondition(tree), NEW n \in DOMAIN tree, NEW hi, Closed(tree, n, hi),
         NEW i \in DOMAIN Kids(tree[n])
  PROVE  /\ Closed(tree, Kids(tree[n])[i], End(Kids(tree[n]), i, hi))
         /\ End(Kids(tree[n]), i, hi) <= hi
         /\ \A j \in DOMAIN Kids(tree[n]) : j > i => End(Kids(tree[n]), i, hi) <= Kids(tree[n])[j]
<1> DEFINE kids == Kids(tree[n])
           end == End(kids, i, hi)
<1>1. /\ n \in Nat /\ Len(kids) \in Nat /\ DOMAIN kids = 1 .. Len(kids)
      /\ \A j \in DOMAIN kids : kids[j] \in DOMAIN tree /\ kids[j] \in Nat /\ kids[j] > n
  BY KidsAbove
<1>2. hi \in Int /\ \A j \in DOMAIN kids : kids[j] < hi
  <2>1. n <= n /\ n < hi /\ hi \in Int
    BY <1>1 DEF Closed
  <2> QED
    BY <2>1 DEF Closed
<1>3. \A j, k \in DOMAIN kids : j < k => kids[j] < kids[k]
  BY DEF IsCondition
<1>4. \A m \in DOMAIN tree : n < m =>
        \A j \in DOMAIN kids, k \in DOMAIN Kids(tree[m]) : m < kids[j] => Kids(tree[m])[k] < kids[j]
  BY DEF IsCondition
<1>5. \A m \in DOMAIN tree : m \in Nat /\ \A k \in DOMAIN Kids(tree[m]) : Kids(tree[m])[k] \in Nat
  BY KidsAbove
<1>0. i \in DOMAIN kids
  OBVIOUS
<1> HIDE DEF kids
<1>6. CASE i < Len(kids)
  <2>1. i + 1 \in DOMAIN kids /\ i + 1 > i /\ end = kids[i + 1]
    BY <1>0, <1>1, <1>6 DEF End
  <2>2. end \in Int /\ kids[i] < end /\ end <= hi
    BY <1>0, <1>1, <1>2, <1>3, <2>1
  <2>3. ASSUME NEW m \in DOMAIN tree, kids[i] <= m, m < end, NEW k \in DOMAIN Kids(tree[m])
        PROVE  Kids(tree[m])[k] < end
    <3>1. n < m
      BY <1>0, <1>1, <1>5, <2>3
    <3> QED
      BY <1>4, <2>1, <2>3, <3>1
  <2>4. ASSUME NEW j \in DOMAIN kids, j > i PROVE end <= kids[j]
    <3>1. j = i + 1 \/ i + 1 < j
      BY <1>1, <2>4
    <3>2. kids[j] \in Nat /\ (i + 1 < j => kids[i + 1] < kids[j])
      BY <1>1, <1>3, <2>1
    <3> QED
      BY <1>1, <2>1, <3>1, <3>2
  <2>5. Closed(tree, kids[i], end)
    BY <2>2, <2>3 DEF Closed
  <2> QED
    BY <2>2, <2>4, <2>5 DEF kids
<1>7. CASE ~(i < Len(kids))
  <2>1. end = hi /\ \A j \in DOMAIN kids : ~(j > i)
    BY <1>0, <1>1, <1>7 DEF End
  <2>2. ASSUME NEW m \in DOMAIN tree, kids[i] <= m, m < hi, NEW k \in DOMAIN Kids(tree[m])
        PROVE  Kids(tree[m])[k] < hi
    <3>1. n <= m
      BY <1>0, <1>1, <1>5, <2>2
    <3> QED
      BY <2>2, <3>1 DEF Closed
  <2>3. Closed(tree, kids[i], hi)
    BY <1>0, <1>2, <2>2 DEF Closed
  <2> QED
    BY <1>2, <2>1, <2>3 DEF kids
<1> QED
  BY <1>6, <1>7

-----------------------------------------------------------------------------
(* What decides an all or an any: the first child that is not ordinary.    *)
LEMMA FirstOtherDecides ==
  ASSUME NEW k \in Nat, NEW verdicts, DOMAIN verdicts = 1 .. k, NEW ordinary
  PROVE  \/ FirstOther(verdicts, ordinary) = ordinary /\ \A i \in 1 .. k : verdicts[i] = ordinary
         \/ \E d \in 1 .. k : /\ verdicts[d] # ordinary /\ FirstOther(verdicts, ordinary) = verdicts[d]
                              /\ \A i \in 1 .. k : i < d => verdicts[i] = ordinary
<1> DEFINE deciding == {i \in DOMAIN verdicts : verdicts[i] # ordinary}
<1>1. CASE deciding = {}
  BY <1>1 DEF FirstOther
<1>2. CASE deciding # {}
  <2>1. deciding \in SUBSET Nat
    OBVIOUS
  <2>2. FirstOther(verdicts, ordinary) = verdicts[Min(deciding)]
    BY <1>2 DEF FirstOther
  <2>3. \A d \in deciding : d \in 1 .. k /\ verdicts[d] # ordinary
    OBVIOUS
  <2>4. \A i \in 1 .. k : i \notin deciding => verdicts[i] = ordinary
    OBVIOUS
  <2> HIDE DEF deciding
  <2>5. \E d \in deciding : \A i \in deciding : d <= i
    BY <1>2, <2>1, LeastElement
  <2>6. Min(deciding) \in deciding /\ \A i \in deciding : Min(deciding) <= i
    BY <2>5 DEF Min
  <2> DEFINE d == Min(deciding)
  <2>7. d \in 1 .. k /\ verdicts[d] # ordinary
    BY <2>3, <2>6
  <2>8. ASSUME NEW i \in 1 .. k, i < d PROVE verdicts[i] = ordinary
    <3>1. ~(d <= i)
      BY <2>7, <2>8
    <3> QED
      BY <2>4, <2>6, <3>1
  <2> QED
    BY <2>2, <2>7, <2>8
<1> QED
  BY <1>1, <1>2

Ordinary(node) == IF node.all # <<>> THEN "hit" ELSE "miss"

KidsSay(tree, n, g) == [i \in DOMAIN Kids(tree[n]) |-> g[Kids(tree[n])[i]]]

(* What a node says when its leaf says `said`, or when its children say g. *)
NodeSays(tree, said, n, g) ==
  IF n \in Leaves(tree) THEN said[n]
  ELSE FirstOther(KidsSay(tree, n, g), Ordinary(tree[n]))

(* What all nodes of a tree say, in A, when its leaves say `said`.         *)
IsRun(tree, A, said, v) ==
  /\ said \in [Leaves(tree) -> A] /\ v \in [DOMAIN tree -> A]
  /\ \A n \in DOMAIN tree : v[n] = NodeSays(tree, said, n, v)

(* A node whose children agree says the same.                              *)
LEMMA SameKidsSaySame ==
  ASSUME NEW tree, IsCondition(tree), NEW said, NEW n \in DOMAIN tree, NEW g, NEW h,
         \A m \in DOMAIN tree : m > n => g[m] = h[m]
  PROVE  NodeSays(tree, said, n, g) = NodeSays(tree, said, n, h)
<1>1. \A i \in DOMAIN Kids(tree[n]) : g[Kids(tree[n])[i]] = h[Kids(tree[n])[i]]
  BY KidsAbove
<1>2. KidsSay(tree, n, g) = KidsSay(tree, n, h)
  BY <1>1 DEF KidsSay
<1> QED
  BY <1>2 DEF NodeSays

(* An inner node is ordinary when all its children are, and otherwise says *)
(* what the first other child says.                                        *)
Decided(kids, ordinary, g, says) ==
  \/ says = ordinary /\ \A i \in DOMAIN kids : g[kids[i]] = ordinary
  \/ \E d \in DOMAIN kids :
       /\ g[kids[d]] # ordinary /\ says = g[kids[d]]
       /\ \A i \in DOMAIN kids : i < d => g[kids[i]] = ordinary

LEMMA InnerNode ==
  ASSUME NEW tree, IsCondition(tree), NEW said, NEW n \in DOMAIN tree \ Leaves(tree), NEW g
  PROVE  Decided(Kids(tree[n]), Ordinary(tree[n]), g, NodeSays(tree, said, n, g))
<1> DEFINE kids == Kids(tree[n])
           list == KidsSay(tree, n, g)
           ordinary == Ordinary(tree[n])
<1>1. Len(kids) \in Nat /\ DOMAIN kids = 1 .. Len(kids)
  BY KidsAbove
<1>2. DOMAIN list = DOMAIN kids /\ \A i \in DOMAIN kids : list[i] = g[kids[i]]
  BY DEF KidsSay
<1>3. NodeSays(tree, said, n, g) = FirstOther(list, ordinary)
  BY DEF NodeSays
<1> HIDE DEF kids, list, ordinary
<1>4. \/ FirstOther(list, ordinary) = ordinary /\ \A i \in 1 .. Len(kids) : list[i] = ordinary
      \/ \E d \in 1 .. Len(kids) :
           /\ list[d] # ordinary /\ FirstOther(list, ordinary) = list[d]
           /\ \A i \in 1 .. Len(kids) : i < d => list[i] = ordinary
  BY <1>1, <1>2, FirstOtherDecides
<1>5. \/ NodeSays(tree, said, n, g) = ordinary /\ \A i \in DOMAIN kids : g[kids[i]] = ordinary
      \/ \E d \in DOMAIN kids :
           /\ g[kids[d]] # ordinary /\ NodeSays(tree, said, n, g) = g[kids[d]]
           /\ \A i \in DOMAIN kids : i < d => g[kids[i]] = ordinary
  BY <1>1, <1>2, <1>3, <1>4
<1> QED
  BY <1>5 DEF kids, ordinary, Decided

(* What a node says is one of A, if what its children say is.              *)
LEMMA NodeSaysTyped ==
  ASSUME NEW tree, IsCondition(tree), NEW A, "hit" \in A, "miss" \in A,
         NEW said \in [Leaves(tree) -> A], NEW n \in DOMAIN tree, NEW g,
         \A m \in DOMAIN tree : m > n => g[m] \in A
  PROVE  NodeSays(tree, said, n, g) \in A
<1>1. CASE n \in Leaves(tree)
  BY <1>1 DEF NodeSays
<1>2. CASE n \notin Leaves(tree)
  <2>1. \A i \in DOMAIN Kids(tree[n]) : g[Kids(tree[n])[i]] \in A
    BY KidsAbove
  <2>2. Ordinary(tree[n]) \in A
    BY DEF Ordinary
  <2>3. Decided(Kids(tree[n]), Ordinary(tree[n]), g, NodeSays(tree, said, n, g))
    BY <1>2, InnerNode
  <2> QED
    BY <2>1, <2>2, <2>3 DEF Decided
<1> QED
  BY <1>1, <1>2

-----------------------------------------------------------------------------
(* What the nodes say exists, whatever the leaves say.                     *)
LEMMA RunsExist ==
  ASSUME NEW tree, IsCondition(tree), NEW A, "hit" \in A, "miss" \in A,
         NEW said \in [Leaves(tree) -> A]
  PROVE  \E v : IsRun(tree, A, said, v)
<1> DEFINE D == DOMAIN tree
           F == [p \in D \X [D -> A] |-> NodeSays(tree, said, p[1], p[2])]
           size == Len(tree)
           base == "hit"
<1>1. size \in Nat /\ D \in SUBSET (1 .. size) /\ base \in A
  BY DEF IsCondition
<1>2. \A n \in D : \A g \in [D -> A] : NodeSays(tree, said, n, g) \in A
  BY NodeSaysTyped
<1>3. F \in [D \X [D -> A] -> A]
  BY <1>2
<1>4. \A n \in D : \A g \in [D -> A] : F[<<n, g>>] = NodeSays(tree, said, n, g)
  OBVIOUS
<1>5. LooksUp(F, size, D, A, base)
  <2>1. ASSUME NEW n \in D, NEW g \in [D -> A], NEW h \in [D -> A],
               \A m \in D : m > n => g[m] = h[m]
        PROVE  F[<<n, g>>] = F[<<n, h>>]
    <3>1. NodeSays(tree, said, n, g) = NodeSays(tree, said, n, h)
      BY <2>1, SameKidsSaySame
    <3> QED
      BY <1>4, <3>1
  <2> HIDE DEF F, D, size, base
  <2> QED
    BY <1>1, <1>3, <2>1 DEF LooksUp
<1> HIDE DEF F, size, base
<1>6. PICK g \in [D -> A] : \A n \in D : g[n] = F[<<n, g>>]
  <2> HIDE DEF D
  <2> QED
    BY <1>5, RecursionFromAbove
<1>7. IsRun(tree, A, said, g)
  BY <1>4, <1>6 DEF IsRun
<1> QED
  BY <1>7

(* Whatever satisfies the equations of a run is one.                       *)
LEMMA RunsTyped ==
  ASSUME NEW tree, IsCondition(tree), NEW A, "hit" \in A, "miss" \in A,
         NEW said \in [Leaves(tree) -> A], NEW v,
         v = [n \in DOMAIN tree |-> NodeSays(tree, said, n, v)]
  PROVE  IsRun(tree, A, said, v)
<1> DEFINE D == DOMAIN tree
           typed == {n \in D : v[n] \in A}
           size == Len(tree)
<1>1. size \in Nat /\ D \in SUBSET (1 .. size)
  BY DEF IsCondition
<1>2. \A n \in D : v[n] = NodeSays(tree, said, n, v)
  <2> DEFINE Says_(n) == NodeSays(tree, said, n, v)
  <2>1. v = [n \in D |-> Says_(n)]
    OBVIOUS
  <2> HIDE DEF Says_
  <2>2. \A n \in D : v[n] = Says_(n)
    BY <2>1
  <2> QED
    BY <2>2 DEF Says_
<1>3. ASSUME NEW n \in D, \A m \in D : m > n => m \in typed PROVE n \in typed
  <2>1. \A m \in DOMAIN tree : m > n => v[m] \in A
    BY <1>3
  <2>2. NodeSays(tree, said, n, v) \in A
    BY <2>1, NodeSaysTyped
  <2> QED
    BY <1>2, <2>2
<1>4. \A n \in D : n \in typed
  <2> HIDE DEF D, typed, size
  <2> QED
    BY <1>1, <1>3, InductionFromAbove
<1>5. v = [n \in D |-> v[n]]
  OBVIOUS
<1>6. v \in [D -> A]
  <2> HIDE DEF D
  <2> QED
    BY <1>4, <1>5
<1> QED
  BY <1>2, <1>6 DEF IsRun

(* What the leaves of a rule's tree say.                                   *)
LeavesSay(tree, req, data, custom) ==
  [n \in Leaves(tree) |-> LeafVerdict(tree[n], req, data, custom[n])]

(* evaluateLeaves says of a tree what the run of its leaves' verdicts says *)
(* of the root.                                                            *)
LEMMA EvaluationIsRun ==
  ASSUME NEW tree, IsCondition(tree), NEW req, NEW data, NEW custom,
         LeavesSay(tree, req, data, custom) \in [Leaves(tree) -> Verdict]
  PROVE  \E v : /\ IsRun(tree, Verdict, LeavesSay(tree, req, data, custom), v)
                /\ EvaluateLeaves(tree, req, data, custom) = v[1]
<1> DEFINE said == LeavesSay(tree, req, data, custom)
           Step(n, g) ==
             CASE tree[n].all # <<>> -> AllOf([i \in DOMAIN tree[n].all |-> g[tree[n].all[i]]])
               [] tree[n].all = <<>> /\ tree[n].any # <<>> ->
                    AnyOf([i \in DOMAIN tree[n].any |-> g[tree[n].any[i]]])
               [] OTHER -> LeafVerdict(tree[n], req, data, custom[n])
           Equation(g) == g = [n \in DOMAIN tree |-> Step(n, g)]
           verdict == CHOOSE g : Equation(g)
<1>1. EvaluateLeaves(tree, req, data, custom) = verdict[1]
  BY DEF EvaluateLeaves
<1>2. ASSUME NEW n \in DOMAIN tree, NEW g PROVE Step(n, g) = NodeSays(tree, said, n, g)
  <2>1. CASE tree[n].all # <<>>
    BY <2>1 DEF NodeSays, Leaves, KidsSay, Kids, Ordinary, AllOf
  <2>2. CASE tree[n].all = <<>> /\ tree[n].any # <<>>
    BY <2>2 DEF NodeSays, Leaves, KidsSay, Kids, Ordinary, AnyOf
  <2>3. CASE tree[n].all = <<>> /\ tree[n].any = <<>>
    <3>1. n \in Leaves(tree)
      BY <2>3 DEF Leaves
    <3>2. said[n] = LeafVerdict(tree[n], req, data, custom[n])
      BY <3>1 DEF LeavesSay
    <3> QED
      BY <2>3, <3>1, <3>2 DEF NodeSays
  <2> QED
    BY <2>1, <2>2, <2>3
<1> HIDE DEF Step, said
<1>3. \A g : Equation(g) <=> g = [n \in DOMAIN tree |-> NodeSays(tree, said, n, g)]
  BY <1>2
<1>4. PICK g : IsRun(tree, Verdict, said, g)
  <2>1. said \in [Leaves(tree) -> Verdict] /\ "hit" \in Verdict /\ "miss" \in Verdict
    BY DEF said, Verdict
  <2> QED
    BY <2>1, RunsExist
<1>5. g = [n \in DOMAIN tree |-> NodeSays(tree, said, n, g)]
  BY <1>4 DEF IsRun
<1>6. Equation(g)
  BY <1>3, <1>5
<1>7. Equation(verdict)
  <2> HIDE DEF Equation
  <2> QED
    BY <1>6
<1>8. verdict = [n \in DOMAIN tree |-> NodeSays(tree, said, n, verdict)]
  <2> HIDE DEF verdict, Equation
  <2> QED
    BY <1>3, <1>7
<1> HIDE DEF verdict
<1>9. IsRun(tree, Verdict, said, verdict)
  <2>1. said \in [Leaves(tree) -> Verdict] /\ "hit" \in Verdict /\ "miss" \in Verdict
    BY DEF said, Verdict
  <2> QED
    BY <1>8, <2>1, RunsTyped
<1> QED
  BY <1>1, <1>9 DEF said

Truths == {"hit", "miss"}

(* Boolean logic is a run, too: one of leaves that do not fail.            *)
LEMMA ValueIsRun ==
  ASSUME NEW tree, IsCondition(tree), NEW world \in [Leaves(tree) -> Truths]
  PROVE  \E u : IsRun(tree, Truths, world, u) /\ Value(tree, world) = u[1]
<1> DEFINE Step(n, g) ==
             IF n \in Leaves(tree) THEN world[n]
             ELSE IF tree[n].all # <<>> THEN Says(\A i \in DOMAIN tree[n].all : g[tree[n].all[i]] = "hit")
             ELSE Says(\E i \in DOMAIN tree[n].any : g[tree[n].any[i]] = "hit")
           Equation(g) == g = [n \in DOMAIN tree |-> Step(n, g)]
           value == CHOOSE g : Equation(g)
           Typed(g) == \A n \in DOMAIN tree : g[n] \in Truths
<1>1. Value(tree, world) = value[1]
  BY DEF Value
<1>2. \A n \in DOMAIN tree : \A g : Step(n, g) \in Truths
  BY DEF Says, Truths
<1>3. ASSUME NEW n \in DOMAIN tree, NEW g, Typed(g) PROVE Step(n, g) = NodeSays(tree, world, n, g)
  <2>1. CASE n \in Leaves(tree)
    BY <2>1 DEF NodeSays
  <2>2. CASE n \notin Leaves(tree)
    <3> DEFINE kids == Kids(tree[n])
               says == NodeSays(tree, world, n, g)
               step == Step(n, g)
    <3> SUFFICES step = says
      OBVIOUS
    <3>1. Decided(kids, Ordinary(tree[n]), g, says)
      BY <2>2, InnerNode
    <3>2. \A i \in DOMAIN kids : g[kids[i]] \in Truths
      BY <1>3, KidsAbove
    <3>3. CASE tree[n].all # <<>>
      <4>1. kids = tree[n].all /\ Ordinary(tree[n]) = "hit"
        BY <3>3 DEF Kids, Ordinary
      <4>2. step = Says(\A i \in DOMAIN kids : g[kids[i]] = "hit")
        BY <2>2, <3>3, <4>1
      <4> HIDE DEF kids, says, step
      <4>3. CASE says = "hit" /\ \A i \in DOMAIN kids : g[kids[i]] = "hit"
        BY <4>2, <4>3 DEF Says
      <4>4. CASE \E d \in DOMAIN kids : g[kids[d]] # "hit" /\ says = g[kids[d]]
        <5>1. says = "miss" /\ ~\A i \in DOMAIN kids : g[kids[i]] = "hit"
          BY <3>2, <4>4 DEF Truths
        <5> QED
          BY <4>2, <5>1 DEF Says
      <4> QED
        BY <3>1, <4>1, <4>3, <4>4 DEF Decided
    <3>4. CASE tree[n].all = <<>>
      <4>1. kids = tree[n].any /\ Ordinary(tree[n]) = "miss"
        BY <3>4 DEF Kids, Ordinary
      <4>2. step = Says(\E i \in DOMAIN kids : g[kids[i]] = "hit")
        BY <2>2, <3>4, <4>1
      <4> HIDE DEF kids, says, step
      <4>3. CASE says = "miss" /\ \A i \in DOMAIN kids : g[kids[i]] = "miss"
        <5>1. ~\E i \in DOMAIN kids : g[kids[i]] = "hit"
          BY <4>3
        <5> QED
          BY <4>2, <4>3, <5>1 DEF Says
      <4>4. CASE \E d \in DOMAIN kids : g[kids[d]] # "miss" /\ says = g[kids[d]]
        <5>1. says = "hit" /\ \E i \in DOMAIN kids : g[kids[i]] = "hit"
          BY <3>2, <4>4 DEF Truths
        <5> QED
          BY <4>2, <5>1 DEF Says
      <4> QED
        BY <3>1, <4>1, <4>3, <4>4 DEF Decided
    <3> QED
      BY <3>3, <3>4
  <2> QED
    BY <2>1, <2>2
<1> HIDE DEF Step
<1>4. PICK g : IsRun(tree, Truths, world, g)
  BY RunsExist DEF Truths
<1>5. Equation(g)
  BY <1>3, <1>4 DEF IsRun
<1>6. Equation(value)
  <2> HIDE DEF Equation
  <2> QED
    BY <1>5
<1> HIDE DEF value
<1>7. \A n \in DOMAIN tree : value[n] = Step(n, value)
  BY <1>6
<1>8. Typed(value)
  BY <1>2, <1>7
<1>9. value = [n \in DOMAIN tree |-> NodeSays(tree, world, n, value)]
  <2>1. \A n \in DOMAIN tree : Step(n, value) = NodeSays(tree, world, n, value)
    BY <1>3, <1>8
  <2> QED
    BY <1>6, <2>1
<1>10. IsRun(tree, Truths, world, value)
  <2>1. "hit" \in Truths /\ "miss" \in Truths
    BY DEF Truths
  <2> QED
    BY <1>9, <2>1, RunsTyped
<1> QED
  BY <1>1, <1>10

-----------------------------------------------------------------------------
(* The worlds v and w agree on the leaves from n below hi.                 *)
AgreeOn(tree, n, hi, v, w) == \A leaf \in Leaves(tree) : n <= leaf /\ leaf < hi => v[leaf] = w[leaf]

(* A world agrees with what the leaves from n below hi say without error.  *)
Told(tree, n, hi, said, w) ==
  \A leaf \in Leaves(tree) : n <= leaf /\ leaf < hi /\ said[leaf] # "error" => w[leaf] = said[leaf]

(* What a run says of a node, from what it says of the node's children.    *)
LEMMA RunOfNode ==
  ASSUME NEW tree, IsCondition(tree), NEW A, NEW said, NEW v, IsRun(tree, A, said, v),
         NEW n \in DOMAIN tree
  PROVE  /\ v[n] \in A
         /\ n \in Leaves(tree) => v[n] = said[n]
         /\ n \notin Leaves(tree) => Decided(Kids(tree[n]), Ordinary(tree[n]), v, v[n])
<1>1. v[n] \in A /\ v[n] = NodeSays(tree, said, n, v)
  BY DEF IsRun
<1>2. CASE n \in Leaves(tree)
  BY <1>1, <1>2 DEF NodeSays
<1>3. CASE n \notin Leaves(tree)
  BY <1>1, <1>3, InnerNode
<1> QED
  BY <1>1, <1>2, <1>3

(* In Boolean logic a node is decided by its children whatever their order.*)
LEMMA SameTruth ==
  ASSUME NEW tree, IsCondition(tree), NEW v, NEW w, NEW g, NEW h,
         IsRun(tree, Truths, v, g), IsRun(tree, Truths, w, h), NEW n \in DOMAIN tree \ Leaves(tree),
         \/ \A i \in DOMAIN Kids(tree[n]) : g[Kids(tree[n])[i]] = h[Kids(tree[n])[i]]
         \/ \E i \in DOMAIN Kids(tree[n]) : /\ g[Kids(tree[n])[i]] # Ordinary(tree[n])
                                             /\ h[Kids(tree[n])[i]] # Ordinary(tree[n])
  PROVE  g[n] = h[n]
<1> DEFINE kids == Kids(tree[n])
           ordinary == Ordinary(tree[n])
<1>1. /\ Decided(kids, ordinary, g, g[n]) /\ Decided(kids, ordinary, h, h[n])
      /\ \A i \in DOMAIN kids : g[kids[i]] \in Truths /\ h[kids[i]] \in Truths
  BY RunOfNode, KidsAbove
<1>2. ordinary \in Truths
  BY DEF Ordinary, Truths
<1>3. \/ \A i \in DOMAIN kids : g[kids[i]] = h[kids[i]]
      \/ \E i \in DOMAIN kids : g[kids[i]] # ordinary /\ h[kids[i]] # ordinary
  OBVIOUS
<1> HIDE DEF kids, ordinary
<1> DEFINE other == IF ordinary = "hit" THEN "miss" ELSE "hit"
<1>4. \A a \in Truths : a # ordinary => a = other
  BY <1>2 DEF Truths
<1> HIDE DEF other
<1>5. (g[n] = ordinary /\ \A i \in DOMAIN kids : g[kids[i]] = ordinary)
      \/ (g[n] = other /\ other # ordinary /\ \E i \in DOMAIN kids : g[kids[i]] # ordinary)
  BY <1>1, <1>4 DEF Decided
<1>6. (h[n] = ordinary /\ \A i \in DOMAIN kids : h[kids[i]] = ordinary)
      \/ (h[n] = other /\ other # ordinary /\ \E i \in DOMAIN kids : h[kids[i]] # ordinary)
  BY <1>1, <1>4 DEF Decided
<1> QED
  BY <1>3, <1>5, <1>6

(* What a node says depends on the leaves below it only.                   *)
LEMMA RunIsLocal ==
  ASSUME NEW tree, IsCondition(tree), NEW v, NEW w, NEW g, NEW h,
         IsRun(tree, Truths, v, g), IsRun(tree, Truths, w, h)
  PROVE  \A n \in DOMAIN tree : \A hi : Closed(tree, n, hi) /\ AgreeOn(tree, n, hi, v, w) => g[n] = h[n]
<1> DEFINE D == DOMAIN tree
           size == Len(tree)
           Local(n) == \A hi : Closed(tree, n, hi) /\ AgreeOn(tree, n, hi, v, w) => g[n] = h[n]
           T == {n \in D : Local(n)}
<1>1. size \in Nat /\ D \in SUBSET (1 .. size)
  BY DEF IsCondition
<1>2. ASSUME NEW n \in D, \A m \in D : m > n => m \in T PROVE n \in T
  <2> SUFFICES ASSUME NEW hi, Closed(tree, n, hi), AgreeOn(tree, n, hi, v, w) PROVE g[n] = h[n]
    OBVIOUS
  <2>1. CASE n \in Leaves(tree)
    <3>1. n \in Nat /\ n <= n /\ n < hi
      BY KidsAbove DEF Closed
    <3>2. v[n] = w[n]
      BY <2>1, <3>1 DEF AgreeOn
    <3> QED
      BY <2>1, <3>2, RunOfNode
  <2>2. CASE n \notin Leaves(tree)
    <3>1. ASSUME NEW i \in DOMAIN Kids(tree[n]) PROVE g[Kids(tree[n])[i]] = h[Kids(tree[n])[i]]
      <4> DEFINE kid == Kids(tree[n])[i]
                 end == End(Kids(tree[n]), i, hi)
      <4>1. kid \in D /\ kid \in Nat /\ n \in Nat /\ kid > n
        BY KidsAbove
      <4>2. Closed(tree, kid, end) /\ end <= hi
        BY KidsClosed
      <4>3. end \in Int /\ hi \in Int
        BY <4>2 DEF Closed
      <4> HIDE DEF kid, end
      <4>4. \A leaf \in Leaves(tree) : leaf \in Nat
        BY KidsAbove DEF Leaves
      <4>5. AgreeOn(tree, kid, end, v, w)
        BY <4>1, <4>2, <4>3, <4>4 DEF AgreeOn
      <4>6. kid \in T
        BY <1>2, <4>1
      <4>7. g[kid] = h[kid]
        BY <4>2, <4>5, <4>6
      <4> QED
        BY <4>7 DEF kid
    <3> QED
      BY <2>2, <3>1, SameTruth
  <2> QED
    BY <2>1, <2>2
<1>3. \A n \in D : n \in T
  <2> HIDE DEF D, T, size
  <2> QED
    BY <1>1, <1>2, InductionFromAbove
<1> QED
  BY <1>3

(* Where all leaves say the same, all nodes do.                            *)
LEMMA RunIsConstant ==
  ASSUME NEW tree, IsCondition(tree), NEW a \in Truths, NEW g,
         IsRun(tree, Truths, [leaf \in Leaves(tree) |-> a], g)
  PROVE  \A n \in DOMAIN tree : g[n] = a
<1> DEFINE D == DOMAIN tree
           size == Len(tree)
           T == {n \in D : g[n] = a}
<1>1. size \in Nat /\ D \in SUBSET (1 .. size)
  BY DEF IsCondition
<1>2. ASSUME NEW n \in D, \A m \in D : m > n => m \in T PROVE n \in T
  <2>1. CASE n \in Leaves(tree)
    BY <2>1, RunOfNode
  <2>2. CASE n \notin Leaves(tree)
    <3>1. DOMAIN Kids(tree[n]) # {} /\ \A i \in DOMAIN Kids(tree[n]) : g[Kids(tree[n])[i]] = a
      BY <1>2, <2>2, KidsAbove
    <3>2. Decided(Kids(tree[n]), Ordinary(tree[n]), g, g[n])
      BY <2>2, RunOfNode
    <3>3. g[n] = a
      BY <3>1, <3>2 DEF Decided
    <3> QED
      BY <3>3
  <2> QED
    BY <2>1, <2>2
<1>3. \A n \in D : n \in T
  <2> HIDE DEF D, T, size
  <2> QED
    BY <1>1, <1>2, InductionFromAbove
<1> QED
  BY <1>3

(* What a node says without error is so in every world its leaves allow.   *)
LEMMA RunIsSound ==
  ASSUME NEW tree, IsCondition(tree), NEW said, NEW v, IsRun(tree, Verdict, said, v),
         NEW w, NEW g, IsRun(tree, Truths, w, g)
  PROVE  \A n \in DOMAIN tree : \A hi :
           Closed(tree, n, hi) /\ Told(tree, n, hi, said, w) /\ v[n] # "error" => g[n] = v[n]
<1> DEFINE D == DOMAIN tree
           size == Len(tree)
           Sound(n) == \A hi : Closed(tree, n, hi) /\ Told(tree, n, hi, said, w) /\ v[n] # "error"
                                 => g[n] = v[n]
           T == {n \in D : Sound(n)}
<1>1. size \in Nat /\ D \in SUBSET (1 .. size)
  BY DEF IsCondition
<1>2. ASSUME NEW n \in D, \A m \in D : m > n => m \in T PROVE n \in T
  <2> SUFFICES ASSUME NEW hi, Closed(tree, n, hi), Told(tree, n, hi, said, w), v[n] # "error"
               PROVE  g[n] = v[n]
    OBVIOUS
  <2>1. CASE n \in Leaves(tree)
    <3>1. n \in Nat /\ n <= n /\ n < hi /\ v[n] = said[n] /\ g[n] = w[n]
      BY <2>1, KidsAbove, RunOfNode DEF Closed
    <3> QED
      BY <2>1, <3>1 DEF Told
  <2>2. CASE n \notin Leaves(tree)
    <3> DEFINE kids == Kids(tree[n])
               ordinary == Ordinary(tree[n])
    <3>1. ASSUME NEW i \in DOMAIN kids, v[kids[i]] # "error" PROVE g[kids[i]] = v[kids[i]]
      <4> DEFINE kid == kids[i]
                 end == End(kids, i, hi)
      <4>1. kid \in D /\ kid \in Nat /\ n \in Nat /\ kid > n
        BY KidsAbove
      <4>2. Closed(tree, kid, end) /\ end <= hi
        BY KidsClosed
      <4>3. end \in Int /\ hi \in Int
        BY <4>2 DEF Closed
      <4>4. v[kid] # "error"
        BY <3>1
      <4> HIDE DEF kid, end
      <4>5. \A leaf \in Leaves(tree) : leaf \in Nat
        BY KidsAbove DEF Leaves
      <4>6. Told(tree, kid, end, said, w)
        BY <4>1, <4>2, <4>3, <4>5 DEF Told
      <4>7. kid \in T
        BY <1>2, <4>1
      <4>8. g[kid] = v[kid]
        BY <4>2, <4>4, <4>6, <4>7
      <4> QED
        BY <4>8 DEF kid
    <3>2. Decided(kids, ordinary, v, v[n]) /\ Decided(kids, ordinary, g, g[n])
      BY <2>2, RunOfNode
    <3>3. \A i \in DOMAIN kids : g[kids[i]] \in Truths
      BY KidsAbove, RunOfNode
    <3>4. ordinary # "error" /\ ordinary \in Truths
      BY DEF Ordinary, Truths
    <3> HIDE DEF kids, ordinary
    <3>5. CASE v[n] = ordinary /\ \A i \in DOMAIN kids : v[kids[i]] = ordinary
      <4>1. \A i \in DOMAIN kids : g[kids[i]] = ordinary
        BY <3>1, <3>4, <3>5
      <4> QED
        BY <3>2, <3>5, <4>1 DEF Decided
    <3>6. CASE \E d \in DOMAIN kids : v[kids[d]] # ordinary /\ v[n] = v[kids[d]]
      <4>1. PICK d \in DOMAIN kids : v[kids[d]] # ordinary /\ v[n] = v[kids[d]]
        BY <3>6
      <4>2. g[kids[d]] = v[n] /\ v[n] # ordinary
        BY <3>1, <4>1
      <4>3. PICK e \in DOMAIN kids : g[kids[e]] # ordinary /\ g[n] = g[kids[e]]
        BY <3>2, <4>1, <4>2 DEF Decided
      <4>4. g[kids[d]] \in Truths /\ g[kids[e]] \in Truths
        BY <3>3
      <4> QED
        BY <3>4, <4>2, <4>3, <4>4 DEF Truths
    <3> QED
      BY <3>2, <3>5, <3>6 DEF Decided
  <2> QED
    BY <2>1, <2>2
<1>3. \A n \in D : n \in T
  <2> HIDE DEF D, T, size
  <2> QED
    BY <1>1, <1>2, InductionFromAbove
<1> QED
  BY <1>3

(* A world with one leaf set.                                              *)
Set(w, leaf, a) == [w EXCEPT ![leaf] = a]

(* Where a node does not fail, a failing leaf does not matter.             *)
LEMMA ErrorsNotRead ==
  ASSUME NEW tree, IsCondition(tree), NEW said, NEW v, IsRun(tree, Verdict, said, v),
         NEW f \in Leaves(tree), said[f] = "error",
         NEW w, \A leaf \in Leaves(tree) : leaf < f /\ said[leaf] # "error" => w[leaf] = said[leaf],
         NEW g, NEW h,
         IsRun(tree, Truths, Set(w, f, "hit"), g), IsRun(tree, Truths, Set(w, f, "miss"), h)
  PROVE  \A n \in DOMAIN tree : \A hi : Closed(tree, n, hi) /\ v[n] # "error" => g[n] = h[n]
<1> DEFINE D == DOMAIN tree
           size == Len(tree)
           wg == Set(w, f, "hit")
           wh == Set(w, f, "miss")
           Same(n) == \A hi : Closed(tree, n, hi) /\ v[n] # "error" => g[n] = h[n]
           T == {n \in D : Same(n)}
<1>1. size \in Nat /\ D \in SUBSET (1 .. size)
  BY DEF IsCondition
<1>2. \A leaf \in Leaves(tree) : leaf \in Nat
  BY KidsAbove DEF Leaves
<1>3. \A leaf \in Leaves(tree) : leaf # f => wg[leaf] = w[leaf] /\ wh[leaf] = w[leaf]
  BY DEF Set, IsRun
<1>4. IsRun(tree, Truths, wg, g) /\ IsRun(tree, Truths, wh, h)
  OBVIOUS
<1> HIDE DEF wg, wh
<1>5. ASSUME NEW n \in D, \A m \in D : m > n => m \in T PROVE n \in T
  <2> SUFFICES ASSUME NEW hi, Closed(tree, n, hi), v[n] # "error" PROVE g[n] = h[n]
    OBVIOUS
  <2>1. CASE n \in Leaves(tree)
    <3>1. v[n] = said[n] /\ g[n] = wg[n] /\ h[n] = wh[n]
      BY <1>4, <2>1, RunOfNode
    <3>2. n # f
      BY <3>1
    <3> QED
      BY <1>3, <2>1, <3>1, <3>2
  <2>2. CASE n \notin Leaves(tree)
    <3> DEFINE kids == Kids(tree[n])
               ordinary == Ordinary(tree[n])
    <3>1. \A i \in DOMAIN kids : kids[i] \in D /\ kids[i] \in Nat /\ kids[i] > n
      BY KidsAbove
    <3>2. ASSUME NEW i \in DOMAIN kids, v[kids[i]] # "error" PROVE g[kids[i]] = h[kids[i]]
      <4>1. Closed(tree, kids[i], End(kids, i, hi))
        BY KidsClosed
      <4>2. kids[i] \in T
        BY <1>5, <3>1
      <4> QED
        BY <3>2, <4>1, <4>2
    <3>3. Decided(kids, ordinary, v, v[n])
      BY <2>2, RunOfNode
    <3>4. CASE \A i \in DOMAIN kids : v[kids[i]] = ordinary
      <4>1. \A i \in DOMAIN kids : g[kids[i]] = h[kids[i]]
        BY <3>2, <3>4 DEF Ordinary
      <4> QED
        BY <1>4, <2>2, <4>1, SameTruth
    <3>5. ASSUME NEW d \in DOMAIN kids, v[kids[d]] # ordinary, v[n] = v[kids[d]],
                 \A i \in DOMAIN kids : i < d => v[kids[i]] = ordinary
          PROVE  g[n] = h[n]
      <4> DEFINE end == End(kids, d, hi)
      <4>1. /\ Closed(tree, kids[d], end)
            /\ \A j \in DOMAIN kids : j > d => end <= kids[j]
        BY KidsClosed
      <4>2. end \in Int /\ f \in Int /\ kids[d] < end
        BY <1>2, <4>1 DEF Closed
      <4>3. CASE f < end
        <5>1. ASSUME NEW i \in DOMAIN kids PROVE g[kids[i]] = h[kids[i]]
          <6>1. CASE i < d
            BY <3>2, <3>5, <6>1 DEF Ordinary
          <6>2. CASE i = d
            BY <3>2, <3>5, <6>2
          <6>3. CASE i > d
            <7>1. end <= kids[i] /\ kids[i] \in Nat /\ kids[i] \in D
              BY <3>1, <4>1, <6>3
            <7>2. Closed(tree, kids[i], End(kids, i, hi))
              BY KidsClosed
            <7>3. AgreeOn(tree, kids[i], End(kids, i, hi), wg, wh)
              <8>1. ASSUME NEW leaf \in Leaves(tree), kids[i] <= leaf PROVE leaf # f
                BY <1>2, <4>2, <4>3, <7>1, <8>1
              <8> QED
                BY <1>3, <8>1 DEF AgreeOn
            <7> QED
              BY <1>4, <7>1, <7>2, <7>3, RunIsLocal
          <6>4. i \in Int /\ d \in Int
            BY KidsAbove
          <6> QED
            BY <6>1, <6>2, <6>3, <6>4
        <5> QED
          BY <1>4, <2>2, <5>1, SameTruth
      <4>4. CASE ~(f < end)
        <5>1. ASSUME NEW leaf \in Leaves(tree), leaf < end, said[leaf] # "error"
              PROVE  wg[leaf] = said[leaf] /\ wh[leaf] = said[leaf]
          <6>1. leaf < f /\ leaf # f
            BY <1>2, <4>2, <4>4, <5>1
          <6> QED
            BY <1>3, <5>1, <6>1
        <5>2. Told(tree, kids[d], end, said, wg) /\ Told(tree, kids[d], end, said, wh)
          BY <5>1 DEF Told
        <5>3. v[kids[d]] # "error" /\ kids[d] \in D
          BY <3>1, <3>5
        <5>4. g[kids[d]] = v[kids[d]] /\ h[kids[d]] = v[kids[d]]
          BY <1>4, <4>1, <5>2, <5>3, RunIsSound
        <5>5. g[kids[d]] # ordinary /\ h[kids[d]] # ordinary
          BY <3>5, <5>4
        <5> QED
          BY <1>4, <2>2, <5>5, SameTruth
      <4> QED
        BY <4>3, <4>4
    <3> QED
      BY <3>3, <3>4, <3>5 DEF Decided
  <2> QED
    BY <2>1, <2>2
<1>6. \A n \in D : n \in T
  <2> HIDE DEF D, T, size
  <2> QED
    BY <1>1, <1>5, InductionFromAbove
<1> QED
  BY <1>6

(* Of a node that fails: a failing leaf below it that decides it in some   *)
(* world that agrees with the leaves read before.                          *)
Blames(tree, said, n, hi, f, w) ==
  /\ f \in Leaves(tree) /\ n <= f /\ f < hi /\ said[f] = "error"
  /\ w \in [Leaves(tree) -> Truths] /\ Told(tree, n, f, said, w)
  /\ \E g, h : /\ IsRun(tree, Truths, Set(w, f, "hit"), g) /\ IsRun(tree, Truths, Set(w, f, "miss"), h)
               /\ g[n] # h[n]

LEMMA ErrorsMatter ==
  ASSUME NEW tree, IsCondition(tree), NEW said, NEW v, IsRun(tree, Verdict, said, v)
  PROVE  \A n \in DOMAIN tree : \A hi : Closed(tree, n, hi) /\ v[n] = "error" =>
           \E f, w : Blames(tree, said, n, hi, f, w)
<1> DEFINE D == DOMAIN tree
           size == Len(tree)
           Blamed(n) == \A hi : Closed(tree, n, hi) /\ v[n] = "error" =>
                          \E f, w : Blames(tree, said, n, hi, f, w)
           T == {n \in D : Blamed(n)}
<1>1. size \in Nat /\ D \in SUBSET (1 .. size)
  BY DEF IsCondition
<1>2. \A leaf \in Leaves(tree) : leaf \in Nat
  BY KidsAbove DEF Leaves
<1>3. "hit" \in Truths /\ "miss" \in Truths /\ "hit" # "miss"
  BY DEF Truths
<1>4. \A w \in [Leaves(tree) -> Truths] : \A f, a : a \in Truths =>
        /\ Set(w, f, a) \in [Leaves(tree) -> Truths]
        /\ \E g : IsRun(tree, Truths, Set(w, f, a), g)
  <2>1. \A w \in [Leaves(tree) -> Truths] : \A f, a : a \in Truths =>
          Set(w, f, a) \in [Leaves(tree) -> Truths]
    BY DEF Set
  <2> QED
    BY <1>3, <2>1, RunsExist
<1>5. ASSUME NEW n \in D, \A m \in D : m > n => m \in T PROVE n \in T
  <2> SUFFICES ASSUME NEW hi, Closed(tree, n, hi), v[n] = "error"
               PROVE  \E f, w : Blames(tree, said, n, hi, f, w)
    OBVIOUS
  <2>1. CASE n \in Leaves(tree)
    <3> DEFINE w == [leaf \in Leaves(tree) |-> IF said[leaf] \in Truths THEN said[leaf] ELSE "hit"]
    <3>1. n \in Nat /\ n <= n /\ n < hi /\ said[n] = "error"
      BY <2>1, KidsAbove, RunOfNode DEF Closed
    <3>2. w \in [Leaves(tree) -> Truths] /\ Told(tree, n, n, said, w)
      BY <1>2, <1>3, <3>1 DEF Told
    <3> HIDE DEF w
    <3>3. PICK g, h : /\ IsRun(tree, Truths, Set(w, n, "hit"), g)
                      /\ IsRun(tree, Truths, Set(w, n, "miss"), h)
      BY <1>3, <1>4, <3>2
    <3>4. Set(w, n, "hit")[n] = "hit" /\ Set(w, n, "miss")[n] = "miss"
      BY <2>1, <3>2 DEF Set
    <3>5. g[n] = "hit" /\ h[n] = "miss"
      BY <2>1, <3>3, <3>4, RunOfNode
    <3>6. Blames(tree, said, n, hi, n, w)
      BY <2>1, <3>1, <3>2, <3>3, <3>5 DEF Blames
    <3> QED
      BY <3>6
  <2>2. CASE n \notin Leaves(tree)
    <3> DEFINE kids == Kids(tree[n])
               ordinary == Ordinary(tree[n])
    <3>1. /\ n \in Nat /\ DOMAIN kids \in SUBSET Nat
          /\ \A i \in DOMAIN kids : kids[i] \in D /\ kids[i] \in Nat /\ kids[i] > n
      BY KidsAbove
    <3>2. PICK d \in DOMAIN kids : v[kids[d]] = "error" /\ \A i \in DOMAIN kids : i < d => v[kids[i]] = ordinary
      <4>1. Decided(kids, ordinary, v, v[n]) /\ ordinary # "error"
        BY <2>2, RunOfNode DEF Ordinary
      <4> QED
        BY <4>1 DEF Decided
    <3> DEFINE kid == kids[d]
               end == End(kids, d, hi)
    <3>3. /\ Closed(tree, kid, end) /\ end <= hi
          /\ \A j \in DOMAIN kids : j > d => end <= kids[j]
      BY KidsClosed
    <3>4. /\ kid \in D /\ kid \in Nat /\ kid > n /\ end \in Int /\ hi \in Int /\ kid < end
      BY <3>1, <3>3 DEF Closed
    <3>5. PICK f, u : Blames(tree, said, kid, end, f, u)
      <4>1. kid \in T /\ v[kid] = "error"
        BY <1>5, <3>2, <3>4
      <4> HIDE DEF kid, end
      <4> QED
        BY <3>3, <4>1
    <3>6. PICK g, h : /\ IsRun(tree, Truths, Set(u, f, "hit"), g) /\ IsRun(tree, Truths, Set(u, f, "miss"), h)
                      /\ g[kid] # h[kid]
      BY <3>5 DEF Blames
    <3>7. /\ f \in Leaves(tree) /\ f \in Nat /\ kid <= f /\ f < end /\ said[f] = "error"
          /\ u \in [Leaves(tree) -> Truths] /\ Told(tree, kid, f, said, u)
      BY <1>2, <3>5 DEF Blames
    <3>8. ordinary \in Truths
      BY DEF Ordinary, Truths
    <3> HIDE DEF kid, end, ordinary
    <3> DEFINE w == [leaf \in Leaves(tree) |->
                       IF leaf < kid THEN IF said[leaf] \in Truths THEN said[leaf] ELSE "hit"
                       ELSE IF leaf < end THEN u[leaf] ELSE ordinary]
    <3>9. /\ w \in [Leaves(tree) -> Truths]
          /\ \A leaf \in Leaves(tree) : leaf < kid /\ said[leaf] \in Truths => w[leaf] = said[leaf]
          /\ \A leaf \in Leaves(tree) : kid <= leaf /\ leaf < end => w[leaf] = u[leaf]
          /\ \A leaf \in Leaves(tree) : end <= leaf => w[leaf] = ordinary
      BY <1>2, <1>3, <3>4, <3>7, <3>8
    <3> HIDE DEF w
    <3>10. \A leaf \in Leaves(tree) : said[leaf] # "error" => said[leaf] \in Truths
      BY DEF IsRun, Verdict, Truths
    <3>11. Told(tree, n, f, said, w)
      <4>1. ASSUME NEW leaf \in Leaves(tree), leaf < f, said[leaf] # "error" PROVE w[leaf] = said[leaf]
        <5>1. CASE leaf < kid
          BY <3>9, <3>10, <4>1, <5>1
        <5>2. CASE ~(leaf < kid)
          <6>1. kid <= leaf /\ leaf < end
            BY <1>2, <3>4, <3>7, <4>1, <5>2
          <6>2. u[leaf] = said[leaf]
            BY <3>7, <4>1, <6>1 DEF Told
          <6> QED
            BY <3>9, <6>1, <6>2
        <5> QED
          BY <5>1, <5>2
      <4> QED
        BY <4>1 DEF Told
    <3>12. PICK gw, hw : /\ IsRun(tree, Truths, Set(w, f, "hit"), gw)
                         /\ IsRun(tree, Truths, Set(w, f, "miss"), hw)
      BY <1>3, <1>4, <3>9
    <3>13. \A a : \A leaf \in Leaves(tree) : leaf # f =>
              Set(w, f, a)[leaf] = w[leaf] /\ Set(u, f, a)[leaf] = u[leaf]
      BY <3>7, <3>9 DEF Set
    <3>14. \A a : Set(w, f, a)[f] = a /\ Set(u, f, a)[f] = a
      BY <3>7, <3>9 DEF Set
    <3>15. gw[kid] = g[kid] /\ hw[kid] = h[kid]
      <4>1. ASSUME NEW a PROVE AgreeOn(tree, kid, end, Set(w, f, a), Set(u, f, a))
        <5>1. ASSUME NEW leaf \in Leaves(tree), kid <= leaf, leaf < end
              PROVE  Set(w, f, a)[leaf] = Set(u, f, a)[leaf]
          <6>1. CASE leaf = f
            BY <3>14, <6>1
          <6>2. CASE leaf # f
            <7>1. Set(w, f, a)[leaf] = w[leaf] /\ Set(u, f, a)[leaf] = u[leaf]
              BY <3>13, <6>2
            <7> QED
              BY <3>9, <5>1, <7>1
          <6> QED
            BY <6>1, <6>2
        <5> QED
          BY <5>1 DEF AgreeOn
      <4> QED
        BY <3>3, <3>4, <3>6, <3>12, <4>1, RunIsLocal
    <3>16. ASSUME NEW i \in DOMAIN kids, i # d, NEW a \in Truths, NEW x, IsRun(tree, Truths, Set(w, f, a), x)
           PROVE  x[kids[i]] = ordinary
      <4>1. Closed(tree, kids[i], End(kids, i, hi)) /\ kids[i] \in D /\ kids[i] \in Nat /\ i \in Nat /\ d \in Nat
        BY <3>1, KidsClosed
      <4>2. CASE i < d
        <5>1. End(kids, i, hi) <= kid /\ End(kids, i, hi) \in Int
          <6>1. d \in DOMAIN kids /\ d > i
            BY <4>1, <4>2
          <6>2. \A j \in DOMAIN kids : j > i => End(kids, i, hi) <= kids[j]
            BY KidsClosed
          <6> QED
            BY <4>1, <6>1, <6>2 DEF Closed, kid
        <5>2. ASSUME NEW leaf \in Leaves(tree), leaf < End(kids, i, hi), said[leaf] # "error"
              PROVE  Set(w, f, a)[leaf] = said[leaf]
          <6>1. leaf < kid /\ leaf # f
            BY <1>2, <3>4, <3>7, <5>1, <5>2
          <6>2. w[leaf] = said[leaf]
            BY <3>9, <3>10, <5>2, <6>1
          <6>3. Set(w, f, a)[leaf] = w[leaf]
            BY <3>13, <6>1
          <6> QED
            BY <6>2, <6>3
        <5>3. Told(tree, kids[i], End(kids, i, hi), said, Set(w, f, a))
          BY <5>2 DEF Told
        <5>4. v[kids[i]] = ordinary /\ ordinary # "error"
          BY <3>2, <3>8, <4>2 DEF Truths
        <5> QED
          BY <3>16, <4>1, <5>3, <5>4, RunIsSound
      <4>3. CASE i > d
        <5> DEFINE plain == [leaf \in Leaves(tree) |-> ordinary]
        <5>1. plain \in [Leaves(tree) -> Truths]
          BY <3>8
        <5>2. PICK y : IsRun(tree, Truths, plain, y)
          <6> HIDE DEF plain
          <6> QED
            BY <1>3, <5>1, RunsExist
        <5>3. \A m \in D : y[m] = ordinary
          BY <3>8, <5>2, RunIsConstant
        <5>4. end <= kids[i]
          BY <3>3, <4>3
        <5>5. AgreeOn(tree, kids[i], End(kids, i, hi), Set(w, f, a), plain)
          <6>1. ASSUME NEW leaf \in Leaves(tree), kids[i] <= leaf PROVE Set(w, f, a)[leaf] = ordinary
            <7>1. end <= leaf /\ leaf # f
              BY <1>2, <3>4, <3>7, <4>1, <5>4, <6>1
            <7>2. w[leaf] = ordinary
              BY <3>9, <7>1
            <7>3. Set(w, f, a)[leaf] = w[leaf]
              BY <3>13, <7>1
            <7> QED
              BY <7>2, <7>3
          <6> QED
            BY <6>1 DEF AgreeOn
        <5> HIDE DEF plain
        <5>6. x[kids[i]] = y[kids[i]]
          BY <3>16, <4>1, <5>2, <5>5, RunIsLocal
        <5> QED
          BY <4>1, <5>3, <5>6
      <4> QED
        BY <3>16, <4>1, <4>2, <4>3
    <3>17. ASSUME NEW a \in Truths, NEW x, IsRun(tree, Truths, Set(w, f, a), x) PROVE x[n] = x[kid]
      <4>1. Decided(kids, ordinary, x, x[n])
        BY <2>2, <3>17, RunOfNode DEF ordinary
      <4>2. \A i \in DOMAIN kids : i # d => x[kids[i]] = ordinary
        BY <3>16, <3>17
      <4> HIDE DEF kids
      <4> QED
        BY <4>1, <4>2 DEF Decided, kid
    <3>18. gw[n] # hw[n]
      BY <1>3, <3>6, <3>12, <3>15, <3>17
    <3>19. n <= f /\ f < hi
      BY <3>1, <3>3, <3>4, <3>7
    <3>20. Blames(tree, said, n, hi, f, w)
      BY <3>7, <3>9, <3>11, <3>12, <3>18, <3>19 DEF Blames
    <3> QED
      BY <3>20
  <2> QED
    BY <2>1, <2>2
<1>6. \A n \in D : n \in T
  <2> HIDE DEF D, T, size
  <2> QED
    BY <1>1, <1>5, InductionFromAbove
<1> QED
  BY <1>6

-----------------------------------------------------------------------------
(* What a comparison says is a verdict, for every field.                   *)
FactType == {"money", "number", "bool", "word", "unsupported"}

LEMMA FieldValueTyped ==
  ASSUME NEW node, NEW req, NEW data
  PROVE  FieldValue(node, req, data).type \in FactType
<1>1. /\ \A failed, amount, currency : Money(failed, amount, currency).type \in FactType
      /\ \A x : /\ Number(x).type \in FactType /\ Truth(x).type \in FactType
                /\ Text(x).type \in FactType
      /\ Unsupported.type \in FactType
  BY DEF Money, Number, Truth, Text, Unsupported, FactType
<1>2. \A at, current : HistoryAmount(req, data, at, current).type \in FactType
  BY <1>1 DEF HistoryAmount
<1>3. \A metrics, amount, current : MetricMoney(metrics, req, amount, current).type \in FactType
  BY <1>1 DEF MetricMoney
<1>4. node.field \in VelocityFields => Velocity(node, req, data).type \in FactType
  BY <1>1, <1>2, <1>3 DEF Velocity, VelocityFields, SumFields
<1> QED
  BY <1>1, <1>4 DEF FieldValue

LEMMA LeafVerdictTyped ==
  ASSUME NEW node, NEW req, NEW data, NEW custom \in Verdict \cup {"unhandled"}
  PROVE  LeafVerdict(node, req, data, custom) \in Verdict
<1>1. \A matched : Says(matched) \in Verdict
  BY DEF Says, Verdict
<1>2. "error" \in Verdict
  BY DEF Verdict
<1>3. ASSUME NEW fact, NEW op, NEW value, fact.type \in FactType PROVE Compare(fact, op, value) \in Verdict
  <2>1. CompareMoney(fact, op, value) \in Verdict
    BY <1>1, <1>2 DEF CompareMoney
  <2>2. CompareBool(fact, op, value) \in Verdict
    BY <1>1, <1>2 DEF CompareBool
  <2>3. CompareNumber(fact, op, value) \in Verdict
    BY <1>1, <1>2 DEF CompareNumber
  <2>4. CompareWord(fact, op, value) \in Verdict
    BY <1>1, <1>2 DEF CompareWord
  <2> QED
    BY <1>2, <1>3, <2>1, <2>2, <2>3, <2>4 DEF Compare, FactType
<1>4. Compare(FieldValue(node, req, data), node.op, node.value) \in Verdict
  BY <1>3, FieldValueTyped
<1> QED
  BY <1>4 DEF LeafVerdict

(* The root is over the whole tree.                                        *)
LEMMA RootClosed ==
  ASSUME NEW tree, IsCondition(tree)
  PROVE  1 \in DOMAIN tree /\ Closed(tree, 1, Len(tree) + 1)
<1>1. Len(tree) \in Nat \ {0} /\ DOMAIN tree = 1 .. Len(tree)
  BY DEF IsCondition
<1>2. /\ 1 \in DOMAIN tree /\ 1 < Len(tree) + 1 /\ Len(tree) + 1 \in Int
      /\ \A m \in DOMAIN tree : m < Len(tree) + 1
  BY <1>1
<1>3. \A n \in DOMAIN tree : \A i \in DOMAIN Kids(tree[n]) : Kids(tree[n])[i] \in DOMAIN tree
  BY KidsAbove
<1> QED
  BY <1>2, <1>3 DEF Closed

(* Boolean logic gives one value.                                          *)
LEMMA ValueOfRun ==
  ASSUME NEW tree, IsCondition(tree), NEW w, NEW g, IsRun(tree, Truths, w, g)
  PROVE  Value(tree, w) = g[1]
<1>1. w \in [Leaves(tree) -> Truths]
  BY DEF IsRun
<1>2. PICK u : IsRun(tree, Truths, w, u) /\ Value(tree, w) = u[1]
  BY <1>1, ValueIsRun
<1>3. AgreeOn(tree, 1, Len(tree) + 1, w, w)
  BY DEF AgreeOn
<1> QED
  BY <1>2, <1>3, RootClosed, RunIsLocal

(* A failing leaf matters: it decides in a world that agrees with what the *)
(* leaves read before it say.                                              *)
Matters(tree, said, f) ==
  \E w \in Worlds(tree, said, {n \in Leaves(tree) : n < f}) :
    Value(tree, Set(w, f, "hit")) # Value(tree, Set(w, f, "miss"))

(* A condition of any shape whose leaves may fail is evaluated as Boolean  *)
(* logic says: it fails exactly if a failing leaf matters, and otherwise   *)
(* says what is so however its failing leaves might have turned out.       *)
LEMMA TreeExplained ==
  ASSUME NEW tree, IsCondition(tree), NEW req, NEW data, NEW custom, NEW said,
         said = LeavesSay(tree, req, data, custom), said \in [Leaves(tree) -> Verdict]
  PROVE  LET verdict == EvaluateLeaves(tree, req, data, custom)
         IN  /\ verdict = "error" <=> \E f \in Leaves(tree) : said[f] = "error" /\ Matters(tree, said, f)
             /\ verdict # "error" => \A w \in Worlds(tree, said, Leaves(tree)) : Value(tree, w) = verdict
<1> DEFINE hi == Len(tree) + 1
           verdict == EvaluateLeaves(tree, req, data, custom)
<1>1. PICK v : IsRun(tree, Verdict, said, v) /\ verdict = v[1]
  BY EvaluationIsRun
<1>2. /\ 1 \in DOMAIN tree /\ Closed(tree, 1, hi)
      /\ \A leaf \in Leaves(tree) : leaf \in Nat /\ 1 <= leaf /\ leaf < hi
  <2>1. Len(tree) \in Nat /\ DOMAIN tree = 1 .. Len(tree)
    BY DEF IsCondition
  <2>2. \A leaf \in 1 .. Len(tree) : leaf \in Nat /\ 1 <= leaf /\ leaf < hi
    BY <2>1
  <2>3. \A leaf \in Leaves(tree) : leaf \in DOMAIN tree
    BY DEF Leaves
  <2> HIDE DEF hi
  <2> QED
    BY <2>1, <2>2, <2>3, RootClosed DEF hi
<1>3. "hit" \in Truths /\ "miss" \in Truths
  BY DEF Truths
<1>4. \A known : Worlds(tree, said, known) =
        {w \in [Leaves(tree) -> Truths] : \A n \in known : said[n] # "error" => w[n] = said[n]}
  BY DEF Worlds, Truths
<1> HIDE DEF hi, verdict
<1>5. ASSUME v[1] = "error" PROVE \E f \in Leaves(tree) : said[f] = "error" /\ Matters(tree, said, f)
  <2>1. PICK f, w : Blames(tree, said, 1, hi, f, w)
    BY <1>1, <1>2, <1>5, ErrorsMatter
  <2>2. /\ f \in Leaves(tree) /\ said[f] = "error"
        /\ w \in [Leaves(tree) -> Truths] /\ Told(tree, 1, f, said, w)
    BY <2>1 DEF Blames
  <2>3. w \in Worlds(tree, said, {n \in Leaves(tree) : n < f})
    BY <1>2, <1>4, <2>2 DEF Told
  <2>4. PICK g, h : /\ IsRun(tree, Truths, Set(w, f, "hit"), g) /\ IsRun(tree, Truths, Set(w, f, "miss"), h)
                    /\ g[1] # h[1]
    BY <2>1 DEF Blames
  <2>5. Value(tree, Set(w, f, "hit")) # Value(tree, Set(w, f, "miss"))
    BY <2>4, ValueOfRun
  <2> QED
    BY <2>2, <2>3, <2>5 DEF Matters
<1>6. ASSUME v[1] # "error", NEW f \in Leaves(tree), said[f] = "error" PROVE ~Matters(tree, said, f)
  <2> SUFFICES ASSUME NEW w \in Worlds(tree, said, {n \in Leaves(tree) : n < f})
               PROVE  Value(tree, Set(w, f, "hit")) = Value(tree, Set(w, f, "miss"))
    BY DEF Matters
  <2>1. /\ w \in [Leaves(tree) -> Truths]
        /\ \A leaf \in Leaves(tree) : leaf < f /\ said[leaf] # "error" => w[leaf] = said[leaf]
    BY <1>4
  <2>2. \A a \in Truths : Set(w, f, a) \in [Leaves(tree) -> Truths]
    BY <2>1 DEF Set
  <2>3. PICK g : IsRun(tree, Truths, Set(w, f, "hit"), g)
    BY <1>3, <2>2, RunsExist
  <2>4. PICK h : IsRun(tree, Truths, Set(w, f, "miss"), h)
    BY <1>3, <2>2, RunsExist
  <2>5. g[1] = h[1]
    BY <1>1, <1>2, <1>6, <2>1, <2>3, <2>4, ErrorsNotRead
  <2> QED
    BY <2>3, <2>4, <2>5, ValueOfRun
<1>7. ASSUME v[1] # "error", NEW w \in Worlds(tree, said, Leaves(tree)) PROVE Value(tree, w) = v[1]
  <2>1. w \in [Leaves(tree) -> Truths] /\ Told(tree, 1, hi, said, w)
    BY <1>4 DEF Told
  <2>2. PICK g : IsRun(tree, Truths, w, g)
    BY <1>3, <2>1, RunsExist
  <2>3. g[1] = v[1]
    BY <1>1, <1>2, <1>7, <2>1, <2>2, RunIsSound
  <2> QED
    BY <2>2, <2>3, ValueOfRun
<1> QED
  BY <1>1, <1>5, <1>6, <1>7 DEF verdict

-----------------------------------------------------------------------------
(* The kinds of reasons.                                                   *)
ReasonKind == {"clean", "account", "invalid", "conflict", "error", "hit", "threshold"}

(* What evaluate makes its way through: rules whose scores are numbers and *)
(* whose verdicts are known, hits having an outcome that is a decision.    *)
Judged(rules, verdicts) ==
  /\ Len(rules) \in Nat /\ DOMAIN rules = 1 .. Len(rules)
  /\ \A i \in 1 .. Len(rules) :
       /\ rules[i].score \in Int /\ verdicts[i] \in Verdict
       /\ verdicts[i] = "hit" => rules[i].outcome \in Decision

Unfinished(rules) ==
  [decision : Decision, score : Int, hits : SUBSET {rules[i].id : i \in 1 .. Len(rules)},
   reasons : SUBSET ReasonKind]

(* One round of the loop over the rules.                                   *)
Round(now, rules, verdicts, i, draft) ==
  IF Active(now, rules[i]) THEN ApplyRule(draft, rules[i], verdicts[i]) ELSE draft

LEMMA OpeningTyped ==
  ASSUME NEW conflict, NEW now, NEW rules
  PROVE  Opening(conflict, now) \in Unfinished(rules)
<1> DEFINE opening == Opening(conflict, now)
<1>1. opening.decision \in Decision
  BY DEF Opening, OnInvalid, Decision, DecisionAllow, DecisionReview, DecisionBlock
<1>2. opening.reasons \in SUBSET ReasonKind
  BY DEF Opening, ReasonKind
<1>3. opening = [decision |-> opening.decision, score |-> 0, hits |-> {}, reasons |-> opening.reasons]
  BY DEF Opening
<1> HIDE DEF opening
<1>4. opening \in Unfinished(rules)
  BY <1>1, <1>2, <1>3 DEF Unfinished
<1> QED
  BY <1>4 DEF opening

LEMMA RoundTyped ==
  ASSUME NEW now, NEW rules, NEW verdicts, Judged(rules, verdicts),
         NEW i \in 1 .. Len(rules), NEW draft \in Unfinished(rules)
  PROVE  Round(now, rules, verdicts, i, draft) \in Unfinished(rules)
<1> DEFINE rule == rules[i]
           next == ApplyRule(draft, rule, verdicts[i])
           Ids == {rules[j].id : j \in 1 .. Len(rules)}
<1>1. rule.score \in Int /\ verdicts[i] \in Verdict /\ rule.id \in Ids
  BY DEF Judged
<1>2. draft \in [decision : Decision, score : Int, hits : SUBSET Ids, reasons : SUBSET ReasonKind]
  BY DEF Unfinished
<1> HIDE DEF Ids
<1>3. CASE verdicts[i] = "miss"
  BY <1>3 DEF ApplyRule, Round
<1>4. CASE verdicts[i] = "error"
  <2>1. next = [draft EXCEPT !.decision = DecisionReview, !.reasons = @ \cup {"error"}]
    BY <1>4 DEF ApplyRule
  <2>2. next \in [decision : Decision, score : Int, hits : SUBSET Ids, reasons : SUBSET ReasonKind]
    BY <1>2, <2>1 DEF Decision, ReasonKind
  <2>3. next \in Unfinished(rules)
    BY <2>2 DEF Unfinished, Ids
  <2> QED
    BY <2>3 DEF Round
<1>5. CASE verdicts[i] = "hit"
  <2>1. next = [decision |-> Escalate(draft.decision, rule.outcome),
                score    |-> draft.score + rule.score,
                hits     |-> draft.hits \cup {rule.id},
                reasons  |-> draft.reasons \cup {"hit"}]
    BY <1>5 DEF ApplyRule
  <2>2. Escalate(draft.decision, rule.outcome) \in Decision
    BY <1>2 DEF Escalate, Decision
  <2>3. next \in [decision : Decision, score : Int, hits : SUBSET Ids, reasons : SUBSET ReasonKind]
    BY <1>1, <1>2, <2>1, <2>2 DEF ReasonKind
  <2>4. next \in Unfinished(rules)
    BY <2>3 DEF Unfinished, Ids
  <2> QED
    BY <2>4 DEF Round
<1> QED
  BY <1>1, <1>3, <1>4, <1>5 DEF Verdict

(* The loop is the rounds, one after the other.                            *)
IsLoop(conflict, now, rules, verdicts, after) ==
  /\ after \in [0 .. Len(rules) -> Unfinished(rules)]
  /\ after[0] = Opening(conflict, now)
  /\ \A i \in 1 .. Len(rules) : after[i] = Round(now, rules, verdicts, i, after[i - 1])
  /\ ApplyRules(conflict, now, rules, verdicts) = after[Len(rules)]

LEMMA ApplyRulesLoops ==
  ASSUME NEW conflict, NEW now, NEW rules, NEW verdicts, Judged(rules, verdicts)
  PROVE  \E after : IsLoop(conflict, now, rules, verdicts, after)
<1> DEFINE n == Len(rules)
           A == Unfinished(rules)
           opening == Opening(conflict, now)
           Step(i, draft) == Round(now, rules, verdicts, i, draft)
           Equation(g) == g = [i \in 0 .. n |-> IF i = 0 THEN opening ELSE Step(i, g[i - 1])]
           F == [p \in (1 .. n) \X A |-> Step(p[1], p[2])]
           after == CHOOSE g : Equation(g)
<1>1. n \in Nat
  BY DEF Judged
<1>2. opening \in A
  BY OpeningTyped
<1>3. ApplyRules(conflict, now, rules, verdicts) = after[n]
  BY DEF ApplyRules, Round
<1>4. \A i \in 1 .. n : \A draft \in A : Step(i, draft) \in A
  BY RoundTyped
<1> HIDE DEF n, A, Step, opening
<1>5. F \in [(1 .. n) \X A -> A]
  BY <1>4
<1> HIDE DEF F
<1>6. PICK g \in [0 .. n -> A] : Recurs(g, n, opening, F)
  BY <1>1, <1>2, <1>5, RecursionExists
<1>7. Equation(g)
  <2>1. \A i \in 1 .. n : i - 1 \in 0 .. n
    BY <1>1
  <2>2. \A i \in 1 .. n : F[<<i, g[i - 1]>>] = Step(i, g[i - 1])
    BY <2>1 DEF F
  <2>3. g[0] = opening /\ \A i \in 1 .. n : g[i] = Step(i, g[i - 1])
    BY <1>6, <2>2 DEF Recurs
  <2>4. \A i \in 0 .. n : i = 0 \/ i \in 1 .. n
    BY <1>1
  <2>5. \A i \in 0 .. n : g[i] = IF i = 0 THEN opening ELSE Step(i, g[i - 1])
    BY <2>3, <2>4
  <2> QED
    BY <2>5
<1>8. Equation(after)
  <2> HIDE DEF Equation
  <2> QED
    BY <1>7
<1> HIDE DEF after
<1>9. /\ after[0] = opening
      /\ \A i \in 1 .. n : after[i] = Step(i, after[i - 1])
      /\ after = [i \in 0 .. n |-> after[i]]
  <2>1. after = [i \in 0 .. n |-> IF i = 0 THEN opening ELSE Step(i, after[i - 1])]
    BY <1>8
  <2>2. \A i \in 0 .. n : after[i] = IF i = 0 THEN opening ELSE Step(i, after[i - 1])
    BY <2>1
  <2>3. 0 \in 0 .. n /\ \A i \in 1 .. n : i \in 0 .. n /\ i # 0
    BY <1>1
  <2>4. after[0] = opening /\ \A i \in 1 .. n : after[i] = Step(i, after[i - 1])
    BY <2>2, <2>3
  <2> QED
    BY <2>1, <2>4
<1> HIDE DEF Equation
<1>10. after \in [0 .. n -> A]
  <2>1. ASSUME NEW i \in 1 .. n, after[i - 1] \in A PROVE after[i] \in A
    BY <1>4, <1>9, <2>1
  <2> QED
    BY <1>1, <1>2, <1>9, <2>1, RecursionTyped
<1>11. IsLoop(conflict, now, rules, verdicts, after)
  BY <1>3, <1>9, <1>10 DEF IsLoop, n, A, Step, opening
<1> QED
  BY <1>11

-----------------------------------------------------------------------------
(* The first n rules that run and say `verdict`, and the outcomes of those *)
(* that hit after the last one that failed.                                *)
RanUpTo(now, rules, verdicts, n, verdict) == {i \in 1 .. n : Active(now, rules[i]) /\ verdicts[i] = verdict}

Voted(now, rules, verdicts, n) ==
  {rules[i].outcome : i \in {h \in RanUpTo(now, rules, verdicts, n, "hit") :
                               \A e \in RanUpTo(now, rules, verdicts, n, "error") : e < h}}

(* What is decided after n rules, and why.                                 *)
Standing(conflict, now, rules, verdicts, n, draft) ==
  LET opening == Opening(conflict, now).decision
      failed  == RanUpTo(now, rules, verdicts, n, "error") # {}
      voted   == Voted(now, rules, verdicts, n)
  IN  /\ draft.decision = DecisionAllow <=>
           opening = DecisionAllow /\ ~failed /\ voted \subseteq {DecisionAllow}
      /\ draft.decision = DecisionBlock <=>
           DecisionBlock \in voted \/ (opening = DecisionBlock /\ ~failed)

(* What is said of it after n rules.                                       *)
Reasoned(conflict, now, rules, verdicts, n, draft) ==
  LET errors == RanUpTo(now, rules, verdicts, n, "error")
      hits   == RanUpTo(now, rules, verdicts, n, "hit")
  IN  /\ "clean" \in draft.reasons <=> now.valid
      /\ "invalid" \in draft.reasons <=> ~now.valid
      /\ "conflict" \in draft.reasons <=> conflict
      /\ "error" \in draft.reasons <=> errors # {}
      /\ "hit" \in draft.reasons <=> hits # {}
      /\ draft.hits = {} <=> hits = {}
      /\ "account" \notin draft.reasons /\ "threshold" \notin draft.reasons

(* So it is before the first rule,                                         *)
LEMMA OpeningStands ==
  ASSUME NEW conflict \in BOOLEAN, NEW now, NEW rules, NEW verdicts
  PROVE  /\ Standing(conflict, now, rules, verdicts, 0, Opening(conflict, now))
         /\ Reasoned(conflict, now, rules, verdicts, 0, Opening(conflict, now))
<1> DEFINE opening == Opening(conflict, now)
<1>1. /\ Voted(now, rules, verdicts, 0) = {}
      /\ \A verdict : RanUpTo(now, rules, verdicts, 0, verdict) = {}
  BY DEF Voted, RanUpTo
<1>2. Standing(conflict, now, rules, verdicts, 0, opening)
  BY <1>1 DEF Standing
<1>3. /\ opening.reasons = (IF now.valid THEN {"clean"} ELSE {"invalid"})
                           \cup (IF conflict THEN {"conflict"} ELSE {})
      /\ opening.hits = {}
  BY DEF Opening
<1> HIDE DEF opening
<1>4. Reasoned(conflict, now, rules, verdicts, 0, opening)
  BY <1>1, <1>3 DEF Reasoned
<1> QED
  BY <1>2, <1>4 DEF opening

(* and after every further one.                                            *)
LEMMA RoundStands ==
  ASSUME NEW conflict, NEW now, NEW rules, NEW verdicts, Judged(rules, verdicts),
         NEW n \in 1 .. Len(rules), NEW draft \in Unfinished(rules),
         Standing(conflict, now, rules, verdicts, n - 1, draft)
  PROVE  Standing(conflict, now, rules, verdicts, n, Round(now, rules, verdicts, n, draft))
<1> DEFINE rule == rules[n]
           next == Round(now, rules, verdicts, n, draft)
           Hits(k) == RanUpTo(now, rules, verdicts, k, "hit")
           Errors(k) == RanUpTo(now, rules, verdicts, k, "error")
           Votes(k) == Voted(now, rules, verdicts, k)
           opening == Opening(conflict, now).decision
<1>1. n \in Nat /\ n - 1 \in Nat /\ \A i : i \in 1 .. n <=> i \in 1 .. n - 1 \/ i = n
  BY DEF Judged
<1>2. /\ verdicts[n] \in Verdict
      /\ verdicts[n] = "hit" => rule.outcome \in Decision
      /\ draft.decision \in Decision
  BY DEF Judged, Unfinished
<1>3. /\ draft.decision = DecisionAllow <=>
           opening = DecisionAllow /\ Errors(n - 1) = {} /\ Votes(n - 1) \subseteq {DecisionAllow}
      /\ draft.decision = DecisionBlock <=>
           DecisionBlock \in Votes(n - 1) \/ (opening = DecisionBlock /\ Errors(n - 1) = {})
  BY DEF Standing
<1>4. SUFFICES
      /\ next.decision = DecisionAllow <=>
           opening = DecisionAllow /\ Errors(n) = {} /\ Votes(n) \subseteq {DecisionAllow}
      /\ next.decision = DecisionBlock <=>
           DecisionBlock \in Votes(n) \/ (opening = DecisionBlock /\ Errors(n) = {})
  BY DEF Standing
<1>5. Votes(n) = {rules[i].outcome : i \in {h \in Hits(n) : \A e \in Errors(n) : e < h}}
  BY DEF Voted
<1>6. Votes(n - 1) = {rules[i].outcome : i \in {h \in Hits(n - 1) : \A e \in Errors(n - 1) : e < h}}
  BY DEF Voted
<1>7. Hits(n - 1) \in SUBSET (1 .. n - 1) /\ Errors(n - 1) \in SUBSET (1 .. n - 1)
  BY DEF RanUpTo
<1>8. CASE ~Active(now, rule) \/ verdicts[n] = "miss"
  <2>1. Hits(n) = Hits(n - 1) /\ Errors(n) = Errors(n - 1)
    BY <1>1, <1>8 DEF RanUpTo
  <2>2. next = draft
    BY <1>8 DEF Round, ApplyRule
  <2>3. Votes(n) = Votes(n - 1)
    BY <2>1, <1>5, <1>6
  <2> HIDE DEF next, Hits, Errors, Votes, opening
  <2> QED
    BY <1>3, <2>1, <2>2, <2>3
<1>9. CASE Active(now, rule) /\ verdicts[n] = "error"
  <2>1. Hits(n) = Hits(n - 1) /\ Errors(n) = Errors(n - 1) \cup {n}
    BY <1>1, <1>9 DEF RanUpTo
  <2>2. next = [draft EXCEPT !.decision = DecisionReview, !.reasons = @ \cup {"error"}]
    BY <1>9 DEF Round, ApplyRule
  <2>3. next.decision = DecisionReview
    BY <2>2 DEF Unfinished
  <2>4. \A h \in Hits(n) : ~(n < h)
    <3> HIDE DEF Hits, Errors
    <3> QED
      BY <1>1, <1>7, <2>1
  <2> HIDE DEF next, Hits, Errors, Votes, opening
  <2>5. n \in Errors(n)
    BY <2>1
  <2>6. Votes(n) = {}
    BY <1>5, <2>4, <2>5
  <2> QED
    BY <1>3, <2>3, <2>5, <2>6 DEF DecisionAllow, DecisionReview, DecisionBlock
<1>10. CASE Active(now, rule) /\ verdicts[n] = "hit"
  <2>1. Hits(n) = Hits(n - 1) \cup {n} /\ Errors(n) = Errors(n - 1)
    BY <1>1, <1>10 DEF RanUpTo
  <2>2. next = [decision |-> Escalate(draft.decision, rule.outcome),
                score    |-> draft.score + rule.score,
                hits     |-> draft.hits \cup {rule.id},
                reasons  |-> draft.reasons \cup {"hit"}]
    BY <1>10 DEF Round, ApplyRule
  <2>3. next.decision = Escalate(draft.decision, rule.outcome)
    BY <2>2
  <2>4. \A e \in Errors(n) : e < n
    <3> HIDE DEF Hits, Errors
    <3> QED
      BY <1>1, <1>7, <2>1
  <2> HIDE DEF next, Hits, Errors, Votes, opening
  <2>5. Votes(n) = Votes(n - 1) \cup {rule.outcome}
    BY <1>5, <1>6, <2>1, <2>4
  <2> DEFINE before == draft.decision
             outcome == rule.outcome
             after == Escalate(before, outcome)
  <2>8. before \in Decision /\ outcome \in Decision
    <3>1. rule.outcome \in Decision
      BY <1>2, <1>10
    <3> QED
      BY <1>2, <3>1
  <2> HIDE DEF before, outcome
  <2>9. after = DecisionAllow <=> before = DecisionAllow /\ outcome = DecisionAllow
    BY <2>8 DEF Escalate, Decision, DecisionAllow, DecisionReview, DecisionBlock
  <2>10. after = DecisionBlock <=> before = DecisionBlock \/ outcome = DecisionBlock
    BY <2>8 DEF Escalate, Decision, DecisionAllow, DecisionReview, DecisionBlock
  <2>11. next.decision = DecisionAllow <=> draft.decision = DecisionAllow /\ rule.outcome = DecisionAllow
    BY <2>3, <2>9 DEF before, outcome
  <2>12. next.decision = DecisionBlock <=> draft.decision = DecisionBlock \/ rule.outcome = DecisionBlock
    BY <2>3, <2>10 DEF before, outcome
  <2>13. Votes(n) \subseteq {DecisionAllow} <=>
           Votes(n - 1) \subseteq {DecisionAllow} /\ rule.outcome = DecisionAllow
    BY <2>5
  <2>14. DecisionBlock \in Votes(n) <=> DecisionBlock \in Votes(n - 1) \/ rule.outcome = DecisionBlock
    BY <2>5
  <2> HIDE DEF rule
  <2>15. next.decision = DecisionAllow <=>
           opening = DecisionAllow /\ Errors(n) = {} /\ Votes(n) \subseteq {DecisionAllow}
    BY <1>3, <2>1, <2>11, <2>13
  <2>16. next.decision = DecisionBlock <=>
           DecisionBlock \in Votes(n) \/ (opening = DecisionBlock /\ Errors(n) = {})
    BY <1>3, <2>1, <2>12, <2>14
  <2> QED
    BY <2>15, <2>16
<1> QED
  BY <1>2, <1>8, <1>9, <1>10 DEF Verdict

(* A failed rule and a hit are told.                                       *)
LEMMA RoundReasoned ==
  ASSUME NEW conflict, NEW now, NEW rules, NEW verdicts, Judged(rules, verdicts),
         NEW n \in 1 .. Len(rules), NEW draft \in Unfinished(rules),
         Reasoned(conflict, now, rules, verdicts, n - 1, draft)
  PROVE  Reasoned(conflict, now, rules, verdicts, n, Round(now, rules, verdicts, n, draft))
<1> DEFINE next == Round(now, rules, verdicts, n, draft)
           Hits(k) == RanUpTo(now, rules, verdicts, k, "hit")
           Errors(k) == RanUpTo(now, rules, verdicts, k, "error")
<1>1. n \in Nat /\ n - 1 \in Nat /\ \A i : i \in 1 .. n <=> i \in 1 .. n - 1 \/ i = n
  BY DEF Judged
<1>2. CASE ~Active(now, rules[n]) \/ verdicts[n] = "miss"
  <2>1. Hits(n) = Hits(n - 1) /\ Errors(n) = Errors(n - 1)
    BY <1>1, <1>2 DEF RanUpTo
  <2>2. next = draft
    BY <1>2 DEF Round, ApplyRule
  <2> QED
    BY <2>1, <2>2 DEF Reasoned
<1>3. CASE Active(now, rules[n]) /\ verdicts[n] = "error"
  <2>1. Hits(n) = Hits(n - 1) /\ Errors(n) = Errors(n - 1) \cup {n}
    BY <1>1, <1>3 DEF RanUpTo
  <2>2. next = [draft EXCEPT !.decision = DecisionReview, !.reasons = @ \cup {"error"}]
    BY <1>3 DEF Round, ApplyRule
  <2>3. next.reasons = draft.reasons \cup {"error"} /\ next.hits = draft.hits
    BY <2>2 DEF Unfinished
  <2> HIDE DEF next
  <2>4. Reasoned(conflict, now, rules, verdicts, n, next)
    BY <2>1, <2>3 DEF Reasoned
  <2> QED
    BY <2>4 DEF next
<1>4. CASE Active(now, rules[n]) /\ verdicts[n] = "hit"
  <2>1. Hits(n) = Hits(n - 1) \cup {n} /\ Errors(n) = Errors(n - 1)
    BY <1>1, <1>4 DEF RanUpTo
  <2>2. next.reasons = draft.reasons \cup {"hit"} /\ next.hits = draft.hits \cup {rules[n].id}
    BY <1>4 DEF Round, ApplyRule
  <2> HIDE DEF next
  <2>3. Reasoned(conflict, now, rules, verdicts, n, next)
    BY <2>1, <2>2 DEF Reasoned
  <2> QED
    BY <2>3 DEF next
<1>5. verdicts[n] \in Verdict
  BY DEF Judged
<1> QED
  BY <1>2, <1>3, <1>4, <1>5 DEF Verdict

-----------------------------------------------------------------------------
(* Where the engine answers from.                                          *)
Installed ==
  /\ context.conflict \in BOOLEAN
  /\ Len(installed) \in Nat /\ DOMAIN installed = 1 .. Len(installed)
  /\ \A i \in DOMAIN installed :
       /\ installed[i].decodes \in BOOLEAN /\ installed[i].score \in Int
       /\ IsCondition(installed[i].tree)

(* Every rule has a verdict, and one that hits has been accepted.          *)
LEMMA RulesAreJudged ==
  ASSUME Installed
  PROVE  Judged(installed, Verdicts)
<1>1. ASSUME NEW i \in 1 .. Len(installed)
      PROVE  /\ installed[i].score \in Int /\ Verdicts[i] \in Verdict
             /\ Verdicts[i] = "hit" => installed[i].outcome \in Decision
  <2> DEFINE rule == installed[i]
             tree == rule.tree
             custom == [n \in DOMAIN tree |-> "unhandled"]
             verdict == EvaluateWithContext(rule, request, DataOf)
             leaves == EvaluateLeaves(tree, request, DataOf, custom)
  <2>1. rule.score \in Int /\ IsCondition(tree) /\ Verdicts[i] = verdict
    BY DEF Installed, Verdicts
  <2>2. verdict = IF Validate(rule) THEN leaves ELSE "error"
    BY DEF EvaluateWithContext
  <2>3. LeavesSay(tree, request, DataOf, custom) \in [Leaves(tree) -> Verdict]
    <3>1. \A n \in Leaves(tree) : custom[n] = "unhandled"
      BY DEF Leaves
    <3> HIDE DEF tree, custom
    <3>2. \A n \in Leaves(tree) : LeafVerdict(tree[n], request, DataOf, custom[n]) \in Verdict
      BY <3>1, LeafVerdictTyped
    <3> QED
      BY <3>2 DEF LeavesSay
  <2> HIDE DEF tree, custom, rule, verdict, leaves
  <2>4. leaves \in Verdict
    <3>1. PICK v : /\ IsRun(tree, Verdict, LeavesSay(tree, request, DataOf, custom), v)
                   /\ EvaluateLeaves(tree, request, DataOf, custom) = v[1]
      BY <2>1, <2>3, EvaluationIsRun
    <3>2. 1 \in DOMAIN tree
      BY <2>1, RootClosed
    <3>3. v[1] \in Verdict
      BY <3>1, <3>2 DEF IsRun
    <3> QED
      BY <3>1, <3>3 DEF leaves
  <2>5. verdict \in Verdict /\ (verdict = "hit" => rule.outcome \in Decision)
    <3>1. CASE Validate(rule)
      BY <2>2, <2>4, <3>1 DEF Validate
    <3>2. CASE ~Validate(rule)
      BY <2>2, <3>2 DEF Verdict
    <3> QED
      BY <3>1, <3>2
  <2> QED
    BY <2>1, <2>5 DEF rule
<1> QED
  BY <1>1 DEF Judged, Installed

(* A round adds the score of a rule that hits.                             *)
LEMMA RoundScores ==
  ASSUME NEW now, NEW rules, NEW verdicts, Judged(rules, verdicts),
         NEW i \in 1 .. Len(rules), NEW draft \in Unfinished(rules)
  PROVE  Round(now, rules, verdicts, i, draft).score =
           draft.score + (IF Active(now, rules[i]) /\ verdicts[i] = "hit" THEN rules[i].score ELSE 0)
<1>1. /\ draft.score \in Int /\ verdicts[i] \in Verdict
      /\ draft = [decision |-> draft.decision, score |-> draft.score, hits |-> draft.hits,
                  reasons |-> draft.reasons]
  BY DEF Judged, Unfinished
<1>2. CASE ~Active(now, rules[i]) \/ verdicts[i] = "miss"
  BY <1>1, <1>2 DEF Round, ApplyRule
<1>3. CASE Active(now, rules[i]) /\ verdicts[i] = "error"
  <2>1. Round(now, rules, verdicts, i, draft)
          = [draft EXCEPT !.decision = DecisionReview, !.reasons = @ \cup {"error"}]
    BY <1>3 DEF Round, ApplyRule
  <2> QED
    BY <1>1, <1>3, <2>1
<1>4. CASE Active(now, rules[i]) /\ verdicts[i] = "hit"
  BY <1>4 DEF Round, ApplyRule
<1> QED
  BY <1>1, <1>2, <1>3, <1>4 DEF Verdict

(* The score is the sum of the hits.                                       *)
LEMMA ScoreIsTotal ==
  ASSUME Installed, NEW after, IsLoop(context.conflict, Situation, installed, Verdicts, after)
  PROVE  Total = after[Len(installed)].score
<1> DEFINE n == Len(installed)
           gain(i) == IF i \in Ran("hit") THEN installed[i].score ELSE 0
           Equation(g) == g = [i \in 0 .. n |-> IF i = 0 THEN 0 ELSE g[i - 1] + gain(i)]
           sum == CHOOSE g : Equation(g)
           score == [i \in 0 .. n |-> after[i].score]
<1>1. Total = sum[n]
  BY DEF Total
<1>2. n \in Nat /\ DOMAIN installed = 1 .. n
  BY DEF Installed
<1>3. ASSUME NEW i \in 1 .. n PROVE after[i].score = after[i - 1].score + gain(i)
  <2>1. i - 1 \in 0 .. n
    BY <1>2
  <2>2. after[i - 1] \in Unfinished(installed) /\ after[i] = Round(Situation, installed, Verdicts, i, after[i - 1])
    BY <2>1 DEF IsLoop
  <2>3. i \in Ran("hit") <=> Active(Situation, installed[i]) /\ Verdicts[i] = "hit"
    BY <1>2 DEF Ran
  <2>4. after[i].score = after[i - 1].score +
          (IF Active(Situation, installed[i]) /\ Verdicts[i] = "hit" THEN installed[i].score ELSE 0)
    BY <2>2, RulesAreJudged, RoundScores
  <2> QED
    BY <2>3, <2>4
<1>4. after[0].score = 0
  BY DEF IsLoop, Opening
<1> HIDE DEF gain, n
<1>5. Equation(score)
  <2>1. \A i \in 0 .. n : i = 0 \/ (i \in 1 .. n /\ i - 1 \in 0 .. n)
    BY <1>2
  <2>2. \A i \in 0 .. n : score[i] = IF i = 0 THEN 0 ELSE score[i - 1] + gain(i)
    BY <1>3, <1>4, <2>1
  <2> QED
    BY <2>2
<1>6. Equation(sum)
  <2> HIDE DEF Equation, score
  <2> QED
    BY <1>5
<1> HIDE DEF sum
<1>7. sum[0] = 0 /\ \A i \in 0 .. n : i # 0 => sum[i] = sum[i - 1] + gain(i)
  <2>1. \A i \in 0 .. n : sum[i] = IF i = 0 THEN 0 ELSE sum[i - 1] + gain(i)
    BY <1>6
  <2>2. 0 \in 0 .. n
    BY <1>2
  <2> QED
    BY <2>1, <2>2
<1> HIDE DEF Equation, score
<1> DEFINE T == {i \in 0 .. n : sum[i] = after[i].score}
<1>8. 0 \in T
  BY <1>2, <1>4, <1>7
<1>9. ASSUME NEW i \in 0 .. n, i \in T, i < n PROVE i + 1 \in T
  <2>1. i + 1 \in 1 .. n /\ i + 1 \in 0 .. n /\ i + 1 # 0 /\ (i + 1) - 1 = i
    BY <1>2, <1>9
  <2>2. sum[i + 1] = sum[i] + gain(i + 1) /\ after[i + 1].score = after[i].score + gain(i + 1)
    BY <1>3, <1>7, <2>1
  <2> QED
    BY <1>9, <2>1, <2>2
<1>10. \A i \in 0 .. n : i \in T
  <2> HIDE DEF T
  <2> QED
    BY <1>2, <1>8, <1>9, Induction
<1>11. n \in 0 .. n
  BY <1>2
<1> QED
  BY <1>1, <1>10, <1>11 DEF n

(* After the last rule a standing draft meets the thresholds and loses the *)
(* placeholder.                                                            *)
LEMMA ClosingExplained ==
  ASSUME NEW now, NEW rules, NEW draft \in Unfinished(rules),
         "threshold" \notin draft.reasons
  PROVE  LET final == DropPlaceholder(ApplyThresholds(now, draft))
             reaches(threshold) == threshold > 0 /\ draft.score >= threshold
         IN  /\ final.decision = DecisionAllow <=>
                  draft.decision = DecisionAllow /\ ~reaches(now.reviewAt) /\ ~reaches(now.blockAt)
             /\ final.decision = DecisionBlock <=> draft.decision = DecisionBlock \/ reaches(now.blockAt)
             /\ "threshold" \in final.reasons <=>
                  draft.decision # DecisionBlock /\ (reaches(now.blockAt) \/ reaches(now.reviewAt))
             /\ "clean" \in final.reasons <=>
                  "clean" \in draft.reasons /\ final.decision = DecisionAllow /\ draft.hits = {}
             /\ \A reason : reason # "clean" /\ reason # "threshold" =>
                  (reason \in final.reasons <=> reason \in draft.reasons)
<1> DEFINE raised == ApplyThresholds(now, draft)
           final == DropPlaceholder(raised)
           block == now.blockAt > 0 /\ draft.score >= now.blockAt
           review == now.reviewAt > 0 /\ draft.score >= now.reviewAt
<1>1. /\ draft = [decision |-> draft.decision, score |-> draft.score, hits |-> draft.hits,
                  reasons |-> draft.reasons]
      /\ draft.decision \in Decision
  BY DEF Unfinished
<1>2. /\ raised.hits = draft.hits
      /\ raised.decision = DecisionAllow <=> draft.decision = DecisionAllow /\ ~review /\ ~block
      /\ raised.decision = DecisionBlock <=> draft.decision = DecisionBlock \/ block
      /\ "threshold" \in raised.reasons <=> draft.decision # DecisionBlock /\ (block \/ review)
      /\ \A reason : reason # "threshold" =>
           (reason \in raised.reasons <=> reason \in draft.reasons)
  <2>1. CASE draft.decision = DecisionBlock
    <3>1. raised = draft
      BY <2>1 DEF ApplyThresholds
    <3> QED
      BY <2>1, <3>1 DEF DecisionAllow, DecisionBlock
  <2>2. CASE draft.decision # DecisionBlock /\ block
    <3>1. raised = [draft EXCEPT !.decision = DecisionBlock, !.reasons = @ \cup {"threshold"}]
      BY <2>2 DEF ApplyThresholds
    <3>2. /\ raised.decision = DecisionBlock /\ raised.hits = draft.hits
          /\ raised.reasons = draft.reasons \cup {"threshold"}
      BY <1>1, <3>1
    <3> HIDE DEF raised, block, review
    <3> QED
      BY <2>2, <3>2 DEF DecisionAllow, DecisionBlock
  <2>3. CASE draft.decision # DecisionBlock /\ ~block /\ review
    <3>1. raised = [draft EXCEPT !.decision = DecisionReview, !.reasons = @ \cup {"threshold"}]
      BY <2>3 DEF ApplyThresholds
    <3>2. /\ raised.decision = DecisionReview /\ raised.hits = draft.hits
          /\ raised.reasons = draft.reasons \cup {"threshold"}
      BY <1>1, <3>1
    <3> HIDE DEF raised, block, review
    <3> QED
      BY <2>3, <3>2 DEF DecisionAllow, DecisionReview, DecisionBlock
  <2>4. CASE draft.decision # DecisionBlock /\ ~block /\ ~review
    <3>1. raised = draft
      BY <2>4 DEF ApplyThresholds
    <3> HIDE DEF raised, block, review
    <3> QED
      BY <2>4, <3>1
  <2> QED
    BY <2>1, <2>2, <2>3, <2>4
<1>3. /\ raised.hits # {} \/ raised.decision # DecisionAllow =>
           final = [raised EXCEPT !.reasons = @ \ {"clean"}]
      /\ ~(raised.hits # {} \/ raised.decision # DecisionAllow) => final = raised
  BY DEF DropPlaceholder
<1>4. raised = [decision |-> raised.decision, score |-> raised.score, hits |-> raised.hits,
                reasons |-> raised.reasons]
  BY <1>1 DEF ApplyThresholds
<1> HIDE DEF raised, final, block, review
<1>5. /\ final.decision = raised.decision /\ final.hits = raised.hits
      /\ raised.hits # {} \/ raised.decision # DecisionAllow => final.reasons = raised.reasons \ {"clean"}
      /\ ~(raised.hits # {} \/ raised.decision # DecisionAllow) => final.reasons = raised.reasons
  BY <1>3, <1>4
<1>6. "clean" \in final.reasons <=>
        "clean" \in draft.reasons /\ final.decision = DecisionAllow /\ draft.hits = {}
  BY <1>2, <1>5
<1>7. \A reason : reason # "clean" => (reason \in final.reasons <=> reason \in raised.reasons)
  BY <1>5
<1> QED
  BY <1>2, <1>5, <1>6, <1>7 DEF final, raised, block, review

(* So the draft that leaves the loop stands, and is told, for all rules.    *)
LEMMA LoopStands ==
  ASSUME NEW conflict \in BOOLEAN, NEW now, NEW rules, NEW verdicts, Judged(rules, verdicts),
         NEW after, IsLoop(conflict, now, rules, verdicts, after)
  PROVE  /\ Standing(conflict, now, rules, verdicts, Len(rules), after[Len(rules)])
         /\ Reasoned(conflict, now, rules, verdicts, Len(rules), after[Len(rules)])
<1> DEFINE n == Len(rules)
           T == {i \in 0 .. n : /\ Standing(conflict, now, rules, verdicts, i, after[i])
                                /\ Reasoned(conflict, now, rules, verdicts, i, after[i])}
<1>1. n \in Nat
  BY DEF Judged
<1>2. 0 \in T
  BY <1>1, OpeningStands DEF IsLoop
<1>3. ASSUME NEW i \in 0 .. n, i \in T, i < n PROVE i + 1 \in T
  <2>1. i + 1 \in 1 .. n /\ i + 1 \in 0 .. n /\ (i + 1) - 1 = i
    BY <1>1, <1>3
  <2>2. after[i] \in Unfinished(rules) /\ after[i + 1] = Round(now, rules, verdicts, i + 1, after[i])
    BY <2>1 DEF IsLoop
  <2>3. /\ Standing(conflict, now, rules, verdicts, (i + 1) - 1, after[i])
        /\ Reasoned(conflict, now, rules, verdicts, (i + 1) - 1, after[i])
    BY <1>3, <2>1
  <2>4. /\ Standing(conflict, now, rules, verdicts, i + 1, after[i + 1])
        /\ Reasoned(conflict, now, rules, verdicts, i + 1, after[i + 1])
    BY <2>1, <2>2, <2>3, RoundStands, RoundReasoned
  <2> QED
    BY <2>1, <2>4
<1> HIDE DEF T
<1>4. \A i \in 0 .. n : i \in T
  BY <1>1, <1>2, <1>3, Induction
<1>5. n \in 0 .. n
  BY <1>1
<1> QED
  BY <1>4, <1>5 DEF T

(* What evaluate answers is explained.                                     *)
LEMMA AnswerExplained ==
  ASSUME Installed, check = Evaluate(context.conflict, Situation, installed, Verdicts)
  PROVE  DecisionExplained /\ ReasonsHonest
<1> DEFINE now == Situation
           opening == Opening(context.conflict, now).decision
<1>1. CASE now.blocked
  <2>1. check = [decision |-> DecisionBlock, score |-> 0, hits |-> {}, reasons |-> {"account"}]
    BY <1>1 DEF Evaluate
  <2>2. check.decision = DecisionBlock /\ check.reasons = {"account"}
    BY <2>1
  <2> QED
    BY <1>1, <2>2 DEF DecisionExplained, ReasonsHonest, DecisionAllow, DecisionBlock
<1>2. CASE ~now.blocked
  <2>1. Judged(installed, Verdicts) /\ context.conflict \in BOOLEAN
    BY RulesAreJudged DEF Installed
  <2>2. PICK after : IsLoop(context.conflict, now, installed, Verdicts, after)
    BY <2>1, ApplyRulesLoops
  <2> DEFINE draft == after[Len(installed)]
             voted == Voted(now, installed, Verdicts, Len(installed))
             failed == RanUpTo(now, installed, Verdicts, Len(installed), "error")
             struck == RanUpTo(now, installed, Verdicts, Len(installed), "hit")
  <2>3. draft \in Unfinished(installed)
    <3>1. Len(installed) \in 0 .. Len(installed)
      BY DEF Installed
    <3> QED
      BY <2>2, <3>1 DEF IsLoop
  <2>4. /\ Standing(context.conflict, now, installed, Verdicts, Len(installed), draft)
        /\ Reasoned(context.conflict, now, installed, Verdicts, Len(installed), draft)
    BY <2>1, <2>2, LoopStands
  <2>5. Total = draft.score
    BY <2>2, ScoreIsTotal
  <2>6. check = DropPlaceholder(ApplyThresholds(now, draft))
    BY <1>2, <2>2 DEF Evaluate, IsLoop
  <2>7. Ran("error") = failed /\ Ran("hit") = struck /\ Outcomes = voted
    <3>1. \A verdict : Ran(verdict) = RanUpTo(now, installed, Verdicts, Len(installed), verdict)
      BY DEF Ran, RanUpTo, Installed
    <3> QED
      BY <3>1 DEF Outcomes, Voted
  <2>8. /\ draft.decision = DecisionAllow <=>
             opening = DecisionAllow /\ failed = {} /\ voted \subseteq {DecisionAllow}
        /\ draft.decision = DecisionBlock <=>
             DecisionBlock \in voted \/ (opening = DecisionBlock /\ failed = {})
        /\ "clean" \in draft.reasons <=> now.valid
        /\ "invalid" \in draft.reasons <=> ~now.valid
        /\ "conflict" \in draft.reasons <=> context.conflict
        /\ "error" \in draft.reasons <=> failed # {}
        /\ "hit" \in draft.reasons <=> struck # {}
        /\ draft.hits = {} <=> struck = {}
        /\ "account" \notin draft.reasons /\ "threshold" \notin draft.reasons
    BY <2>4 DEF Standing, Reasoned
  <2>9. /\ opening = DecisionAllow <=>
             ~context.conflict /\ (now.valid \/ now.onInvalid = DecisionAllow)
        /\ opening = DecisionBlock <=>
             ~context.conflict /\ ~now.valid /\ now.onInvalid = DecisionBlock
    <3> HIDE DEF now
    <3> QED
      BY DEF Opening, OnInvalid, Decision, DecisionAllow, DecisionReview, DecisionBlock
  <2>10. Outcomes # {} => struck # {}
    BY <2>7 DEF Outcomes
  <2> HIDE DEF now, opening, draft, voted, failed, struck
  <2>11. /\ check.decision = DecisionAllow <=>
              draft.decision = DecisionAllow /\ ~Reaches(now.reviewAt) /\ ~Reaches(now.blockAt)
         /\ check.decision = DecisionBlock <=> draft.decision = DecisionBlock \/ Reaches(now.blockAt)
         /\ "threshold" \in check.reasons <=>
              draft.decision # DecisionBlock /\ (Reaches(now.blockAt) \/ Reaches(now.reviewAt))
         /\ "clean" \in check.reasons <=>
              "clean" \in draft.reasons /\ check.decision = DecisionAllow /\ draft.hits = {}
         /\ \A reason : reason # "clean" /\ reason # "threshold" =>
              (reason \in check.reasons <=> reason \in draft.reasons)
    BY <2>3, <2>5, <2>6, <2>8, ClosingExplained DEF Reaches
  <2>12. draft.decision = DecisionBlock <=> BlockStands
    <3>1. BlockStands <=>
            \/ DecisionBlock \in Outcomes
            \/ /\ ~now.valid /\ now.onInvalid = DecisionBlock
               /\ ~context.conflict /\ Ran("error") = {}
      BY DEF BlockStands, now
    <3> QED
      BY <2>7, <2>8, <2>9, <3>1
  <2>13. /\ check.decision = DecisionAllow <=>
              /\ ~now.blocked /\ ~context.conflict
              /\ now.valid \/ now.onInvalid = DecisionAllow
              /\ Ran("error") = {}
              /\ Outcomes \subseteq {DecisionAllow}
              /\ ~Reaches(now.reviewAt) /\ ~Reaches(now.blockAt)
         /\ check.decision = DecisionBlock <=>
              now.blocked \/ BlockStands \/ Reaches(now.blockAt)
    BY <1>2, <2>7, <2>8, <2>9, <2>11, <2>12
  <2>14. /\ "account" \notin check.reasons
         /\ "invalid" \in check.reasons <=> ~now.valid
         /\ "conflict" \in check.reasons <=> context.conflict
         /\ "error" \in check.reasons <=> Ran("error") # {}
         /\ "hit" \in check.reasons <=> Ran("hit") # {}
         /\ "threshold" \in check.reasons <=>
              ~BlockStands /\ (Reaches(now.blockAt) \/ Reaches(now.reviewAt))
         /\ "clean" \in check.reasons <=>
              now.valid /\ check.decision = DecisionAllow /\ Ran("hit") = {}
    BY <2>7, <2>8, <2>11, <2>12
  <2>15. check.reasons # {}
    <3>1. CASE Ran("error") = {} /\ Ran("hit") = {} /\ ~context.conflict /\ now.valid
      <4>1. Outcomes = {}
        BY <2>7, <2>10, <3>1
      <4>2. ~BlockStands
        BY <3>1, <4>1 DEF BlockStands, now
      <4> QED
        BY <1>2, <2>13, <2>14, <3>1, <4>1, <4>2
    <3>2. CASE ~(Ran("error") = {} /\ Ran("hit") = {} /\ ~context.conflict /\ now.valid)
      BY <2>14, <3>2
    <3> QED
      BY <3>1, <3>2
  <2>16. DecisionExplained
    BY <2>13 DEF DecisionExplained, now
  <2>17. ReasonsHonest
    BY <1>2, <2>14, <2>15 DEF ReasonsHonest, now
  <2> QED
    BY <2>16, <2>17
<1> QED
  BY <1>1, <1>2

-----------------------------------------------------------------------------
(* What an answer is, and where it comes from.                             *)
Inv ==
  /\ Installed
  /\ Answered => check = Evaluate(context.conflict, Situation, installed, Verdicts)

LEMMA InvHolds == Spec => []Inv
<1>1. Init => Inv
  BY DEF Init, Inv, Installed, Answered
<1>2. ASSUME Inv, [Next]_vars PROVE Inv'
  <2>1. Installed'
    BY <1>2 DEF Inv, Installed, Next, Unauthorized, BadRequest, Accept, CheckWithContext, vars
  <2>2. CASE Unauthorized
    BY <2>1, <2>2 DEF Inv, Unauthorized, Respond, Answered
  <2>3. CASE BadRequest
    BY <2>1, <2>3 DEF Inv, BadRequest, Respond, Answered
  <2>4. CASE Accept
    BY <2>1, <2>4 DEF Inv, Accept, Answered
  <2>5. CASE CheckWithContext
    <3>1. context' = context /\ Situation' = Situation /\ installed' = installed /\ Verdicts' = Verdicts
      BY <2>5 DEF CheckWithContext, Situation, Verdicts, DataOf
    <3>2. check' = Evaluate(context.conflict, Situation, installed, Verdicts)
      BY <2>5 DEF CheckWithContext
    <3>3. check' = Evaluate(context'.conflict, Situation', installed', Verdicts')
      BY <3>1, <3>2
    <3> QED
      BY <2>1, <3>3 DEF Inv
  <2>6. CASE UNCHANGED vars
    <3>1. /\ context' = context /\ Situation' = Situation /\ installed' = installed
          /\ Verdicts' = Verdicts /\ check' = check /\ Answered' = Answered
      BY <2>6 DEF vars, Situation, Verdicts, DataOf, Answered
    <3> QED
      BY <1>2, <2>1, <3>1 DEF Inv
  <2> QED
    BY <1>2, <2>2, <2>3, <2>4, <2>5, <2>6 DEF Next
<1> QED
  BY <1>1, <1>2, PTL DEF Spec

(* Every decision that is answered has exactly the stated causes, for any  *)
(* list of rules, their order and their verdicts (engine.go:141-198).      *)
THEOREM DecisionIsExplained == Spec => []DecisionExplained
<1>1. Inv => DecisionExplained
  BY AnswerExplained DEF Inv, DecisionExplained
<1> QED
  BY <1>1, InvHolds, PTL

(* Every kind of reason is given exactly when it has its cause, and there  *)
(* is always one, for any list of rules (engine.go:141-198).               *)
THEOREM ReasonsAreHonest == Spec => []ReasonsHonest
<1>1. Inv => ReasonsHonest
  BY AnswerExplained DEF Inv, ReasonsHonest
<1> QED
  BY <1>1, InvHolds, PTL

(* Whatever the order of its leaves, a rule fails exactly when a failing   *)
(* leaf could still change it, and otherwise is Boolean logic, for every   *)
(* condition and also with an application's own leaves (rules.go:231-264). *)
THEOREM RuleVerdictIsExplained == Spec => []RuleVerdictExplained
<1>1. Installed => RuleVerdictExplained
  <2> SUFFICES ASSUME Installed, NEW i \in DOMAIN installed, installed[i].decodes,
                      NEW custom \in Custom(installed[i].tree)
               PROVE  LET tree == installed[i].tree
                          said    == [n \in Leaves(tree) |-> LeafVerdict(tree[n], request, DataOf, custom[n])]
                          verdict == EvaluateWithLeaves(installed[i], request, DataOf, custom)
                          Blamed(f) ==
                            \E w \in Worlds(tree, said, {n \in Leaves(tree) : n < f}) :
                              Value(tree, [w EXCEPT ![f] = "hit"]) # Value(tree, [w EXCEPT ![f] = "miss"])
                      IN  /\ verdict = "error" <=> \E f \in Leaves(tree) : said[f] = "error" /\ Blamed(f)
                          /\ verdict # "error" =>
                               \A w \in Worlds(tree, said, Leaves(tree)) : Value(tree, w) = verdict
    BY DEF RuleVerdictExplained
  <2> DEFINE tree == installed[i].tree
             said == LeavesSay(tree, request, DataOf, custom)
             verdict == EvaluateLeaves(tree, request, DataOf, custom)
  <2>1. IsCondition(tree)
    BY DEF Installed
  <2>2. EvaluateWithLeaves(installed[i], request, DataOf, custom) = verdict
    BY DEF EvaluateWithLeaves
  <2>3. \A n \in Leaves(tree) : custom[n] \in Verdict \cup {"unhandled"}
    BY DEF Custom, Leaves, Verdict
  <2>4. said \in [Leaves(tree) -> Verdict]
    <3>1. \A n \in Leaves(tree) : LeafVerdict(tree[n], request, DataOf, custom[n]) \in Verdict
      BY <2>3, LeafVerdictTyped
    <3> QED
      BY <3>1 DEF LeavesSay
  <2>5. said = [n \in Leaves(tree) |-> LeafVerdict(tree[n], request, DataOf, custom[n])]
    BY DEF LeavesSay
  <2> HIDE DEF tree, said
  <2>6. /\ verdict = "error" <=> \E f \in Leaves(tree) : said[f] = "error" /\ Matters(tree, said, f)
        /\ verdict # "error" => \A w \in Worlds(tree, said, Leaves(tree)) : Value(tree, w) = verdict
    BY <2>1, <2>4, TreeExplained DEF said
  <2> HIDE DEF verdict
  <2>7. \A f : Matters(tree, said, f) =
          \E w \in Worlds(tree, said, {n \in Leaves(tree) : n < f}) :
            Value(tree, [w EXCEPT ![f] = "hit"]) # Value(tree, [w EXCEPT ![f] = "miss"])
    BY DEF Matters, Set
  <2> QED
    BY <2>2, <2>5, <2>6, <2>7 DEF tree
<1>2. Inv => RuleVerdictExplained
  BY <1>1 DEF Inv
<1> QED
  BY <1>2, InvHolds, PTL

-----------------------------------------------------------------------------
LEMMA OccurrencesFinite ==
  ASSUME NEW doc, IsDocument(doc), NEW path
  PROVE  IsFiniteSet(Occurrences(doc, path)) /\ Occurrences(doc, path) \subseteq Int
<1> DEFINE at == Occurrences(doc, path)
<1>1. IsFiniteSet(1 .. Len(doc.elements)) /\ at \subseteq 1 .. Len(doc.elements)
  BY FS_Interval DEF IsDocument, IsList, Occurrences
<1> HIDE DEF at
<1>2. \A n : 1 .. n \subseteq Int
  OBVIOUS
<1>3. IsFiniteSet(at)
  BY <1>1, FS_Subset
<1> QED
  BY <1>1, <1>2, <1>3 DEF at

(* At a path that may occur once, first and last are the same.             *)
LEMMA OnceIsOne ==
  ASSUME NEW doc, IsDocument(doc), Decodes(doc), NEW path \in SingleValuePaths
  PROVE  /\ WordAt(doc, path, "first") = WordAt(doc, path, "last")
         /\ AmountAt(doc, path, "first") = AmountAt(doc, path, "last")
<1> DEFINE at == Occurrences(doc, path)
<1>1. IsFiniteSet(at) /\ at \subseteq Int
  BY OccurrencesFinite
<1>2. Cardinality(at) <= 1
  BY DEF Decodes
<1> HIDE DEF at
<1>3. CASE at = {}
  BY <1>3 DEF WordAt, AmountAt, at
<1>4. CASE at # {}
  <2>1. PICK i : at = {i}
    <3>1. Cardinality(at) \in Nat /\ Cardinality(at) # 0
      BY <1>1, <1>4, FS_CardinalityType, FS_EmptySet
    <3>2. Cardinality(at) = 1
      BY <1>2, <3>1
    <3> QED
      BY <1>1, <3>2, FS_Singleton
  <2>2. Min(at) = i /\ Max(at) = i
    BY <1>1, <2>1 DEF Min, Max
  <2>3. Taken(doc, path, "first") = Taken(doc, path, "last")
    BY <2>2 DEF Taken, at
  <2> QED
    BY <2>3 DEF WordAt, AmountAt
<1> QED
  BY <1>3, <1>4

(* Every word and amount that is mapped is at such a path.                 *)
LEMMA MappedOnce ==
  /\ \A name \in {"MsgId", "CreDtTm", "NbOfTxs", "IntrBkSttlmDt"} : Group \o <<name>> \in SingleValuePaths
  /\ \A name \in {"BizMsgIdr", "MsgDefIdr", "CreDt"} : Header \o <<name>> \in SingleValuePaths
  /\ \A name \in {"InstrId", "EndToEndId", "TxId", "ClrSysRef"} :
       Transaction \o <<"PmtId", name>> \in SingleValuePaths
  /\ \A name \in {"IntrBkSttlmAmt", "InstdAmt"} : Transaction \o <<name>> \in SingleValuePaths
  /\ \A name \in {"Dbtr", "Cdtr"} : Transaction \o <<name, "Nm">> \in SingleValuePaths
  /\ \A name \in {"DbtrAcct", "CdtrAcct"}, path \in {<<"Id", "IBAN">>, <<"Id", "Othr", "Id">>} :
       Transaction \o <<name>> \o path \in SingleValuePaths
  /\ \A name \in {"DbtrAgt", "CdtrAgt", "InstgAgt", "InstdAgt"},
        path \in {<<"FinInstnId", "BICFI">>, <<"FinInstnId", "Nm">>} :
       Transaction \o <<name>> \o path \in SingleValuePaths
  /\ \A name \in {"Fr", "To"}, path \in {<<"FinInstnId", "BICFI">>, <<"FinInstnId", "Nm">>} :
       Header \o <<name, "FIId">> \o path \in SingleValuePaths
<1> DEFINE texts == {<<"FinInstnId", "BICFI">>, <<"FinInstnId", "Nm">>}
           numbers == {<<"Id", "IBAN">>, <<"Id", "Othr", "Id">>}
           in(name, path) == Transaction \o <<name>> \o path
           of(name, path) == Header \o <<name, "FIId">> \o path
<1>1. \A name \in {"MsgId", "CreDtTm", "NbOfTxs", "IntrBkSttlmDt"} : Group \o <<name>> \in GroupPaths
  BY DEF GroupPaths
<1>2. \A name \in {"BizMsgIdr", "MsgDefIdr", "CreDt"} : Header \o <<name>> \in HeaderPaths
  BY DEF HeaderPaths
<1>3. \A name \in {"InstrId", "EndToEndId", "TxId", "ClrSysRef"} :
        Transaction \o <<"PmtId", name>> \in TransferPaths
  BY DEF TransferPaths
<1>4. \A name \in {"IntrBkSttlmAmt", "InstdAmt"} : Transaction \o <<name>> \in TransferPaths
  BY DEF TransferPaths
<1>5. /\ numbers \subseteq AccountPaths /\ texts \subseteq AgentPaths
      /\ <<"Nm">> \in {<<>>, <<"Nm">>}
  BY DEF AccountPaths, AgentPaths
<1>6. /\ PartyPaths =
           {in(party, path) : party \in {"Dbtr", "Cdtr"}, path \in {<<>>, <<"Nm">>}}
             \cup {in(account, path) : account \in {"DbtrAcct", "CdtrAcct"}, path \in AccountPaths}
             \cup {in(agent, path) :
                     agent \in {"DbtrAgt", "CdtrAgt", "InstgAgt", "InstdAgt"}, path \in AgentPaths}
      /\ HeaderPaths =
           {Header} \cup {Header \o <<name>> : name \in {"BizMsgIdr", "MsgDefIdr", "CreDt"}}
             \cup {Header \o <<party>> : party \in {"Fr", "To"}}
             \cup {of(party, path) : party \in {"Fr", "To"}, path \in AgentPaths}
  BY DEF PartyPaths, HeaderPaths
<1>7. \A name \in {"Dbtr", "Cdtr"} : Transaction \o <<name, "Nm">> = in(name, <<"Nm">>)
  BY DEF Transaction, Message, Root
<1> HIDE DEF texts, numbers, in, of
<1>8. \A name \in {"Dbtr", "Cdtr"} : Transaction \o <<name, "Nm">> \in PartyPaths
  <2> DEFINE tails == {<<>>, <<"Nm">>}
             tail == <<"Nm">>
  <2>1. tail \in tails
    OBVIOUS
  <2>2. \A name \in {"Dbtr", "Cdtr"}, path \in tails : in(name, path) \in PartyPaths
    <3> HIDE DEF tails
    <3> QED
      BY <1>6 DEF tails
  <2> HIDE DEF tails
  <2>3. \A name \in {"Dbtr", "Cdtr"} : in(name, tail) \in PartyPaths
    BY <2>1, <2>2
  <2> QED
    BY <1>7, <2>3
<1>9. \A name \in {"DbtrAcct", "CdtrAcct"}, path \in numbers : in(name, path) \in PartyPaths
  BY <1>5, <1>6
<1>10. \A name \in {"DbtrAgt", "CdtrAgt", "InstgAgt", "InstdAgt"}, path \in texts : in(name, path) \in PartyPaths
  BY <1>5, <1>6
<1>11. \A name \in {"Fr", "To"}, path \in texts : of(name, path) \in HeaderPaths
  BY <1>5, <1>6
<1> QED
  BY <1>1, <1>2, <1>3, <1>4, <1>8, <1>9, <1>10, <1>11 DEF SingleValuePaths, in, of, texts, numbers

(* Both readers find the same request in it,                               *)
LEMMA OneRequest ==
  ASSUME NEW doc, IsDocument(doc), Decodes(doc), NEW key
  PROVE  /\ RequestOf(doc, key, "first") = RequestOf(doc, key, "last")
         /\ TransferAmount(doc, "first") = TransferAmount(doc, "last")
         /\ CreatedAt(doc, "first") = CreatedAt(doc, "last")
<1> DEFINE Same(path) == /\ WordAt(doc, path, "first") = WordAt(doc, path, "last")
                         /\ AmountAt(doc, path, "first") = AmountAt(doc, path, "last")
<1>1. \A path \in SingleValuePaths : Same(path)
  BY OnceIsOne
<1> HIDE DEF Same
<1>2. CreatedAt(doc, "first") = CreatedAt(doc, "last")
  <2>1. Same(Group \o <<"CreDtTm">>) /\ Same(Header \o <<"CreDt">>)
    BY <1>1, MappedOnce
  <2> QED
    BY <2>1 DEF CreatedAt, Same
<1>3. TransferAmount(doc, "first") = TransferAmount(doc, "last")
  <2>1. Same(Transaction \o <<"IntrBkSttlmAmt">>) /\ Same(Transaction \o <<"InstdAmt">>)
    BY <1>1, MappedOnce
  <2> QED
    BY <2>1 DEF TransferAmount, Same
<1>4. \A name \in {"DbtrAcct", "CdtrAcct"} :
        AccountAt(doc, Transaction \o <<name>>, "first") = AccountAt(doc, Transaction \o <<name>>, "last")
  <2> SUFFICES ASSUME NEW name \in {"DbtrAcct", "CdtrAcct"}
               PROVE  AccountAt(doc, Transaction \o <<name>>, "first")
                        = AccountAt(doc, Transaction \o <<name>>, "last")
    OBVIOUS
  <2>1. /\ Same(Transaction \o <<name>> \o <<"Id", "IBAN">>)
        /\ Same(Transaction \o <<name>> \o <<"Id", "Othr", "Id">>)
    BY <1>1, MappedOnce
  <2> QED
    BY <2>1 DEF AccountAt, Same
<1>5. \A name \in {"DbtrAgt", "CdtrAgt", "InstgAgt", "InstdAgt"} :
        AgentAt(doc, Transaction \o <<name>>, "first") = AgentAt(doc, Transaction \o <<name>>, "last")
  <2> SUFFICES ASSUME NEW name \in {"DbtrAgt", "CdtrAgt", "InstgAgt", "InstdAgt"}
               PROVE  AgentAt(doc, Transaction \o <<name>>, "first")
                        = AgentAt(doc, Transaction \o <<name>>, "last")
    OBVIOUS
  <2>1. /\ Same(Transaction \o <<name>> \o <<"FinInstnId", "BICFI">>)
        /\ Same(Transaction \o <<name>> \o <<"FinInstnId", "Nm">>)
    BY <1>1, MappedOnce
  <2> QED
    BY <2>1 DEF AgentAt, Same
<1>6. \A name \in {"Fr", "To"} :
        AgentAt(doc, Header \o <<name, "FIId">>, "first") = AgentAt(doc, Header \o <<name, "FIId">>, "last")
  <2> SUFFICES ASSUME NEW name \in {"Fr", "To"}
               PROVE  AgentAt(doc, Header \o <<name, "FIId">>, "first")
                        = AgentAt(doc, Header \o <<name, "FIId">>, "last")
    OBVIOUS
  <2>1. /\ Same(Header \o <<name, "FIId">> \o <<"FinInstnId", "BICFI">>)
        /\ Same(Header \o <<name, "FIId">> \o <<"FinInstnId", "Nm">>)
    BY <1>1, MappedOnce
  <2> QED
    BY <2>1 DEF AgentAt, Same
<1>7. /\ \A name \in {"InstrId", "EndToEndId", "TxId", "ClrSysRef"} : Same(Transaction \o <<"PmtId", name>>)
      /\ \A name \in {"Dbtr", "Cdtr"} : Same(Transaction \o <<name, "Nm">>)
      /\ \A name \in {"MsgId", "IntrBkSttlmDt"} : Same(Group \o <<name>>)
      /\ Same(Header \o <<"BizMsgIdr">>)
  BY <1>1, MappedOnce
<1>8. RequestOf(doc, key, "first") = RequestOf(doc, key, "last")
  BY <1>2, <1>3, <1>4, <1>5, <1>6, <1>7 DEF RequestOf, Same
<1> QED
  BY <1>2, <1>3, <1>8

(* and so answer the same.                                                 *)
LEMMA OneAnswer ==
  ASSUME NEW doc, IsDocument(doc), Decodes(doc), NEW key
  PROVE  ParsePacs008(doc, key, "first") = ParsePacs008(doc, key, "last")
<1>1. /\ Group \o <<"NbOfTxs">> \in SingleValuePaths
      /\ Header \o <<"MsgDefIdr">> \in SingleValuePaths
  BY MappedOnce
<1>2. /\ WordAt(doc, Group \o <<"NbOfTxs">>, "first") = WordAt(doc, Group \o <<"NbOfTxs">>, "last")
      /\ WordAt(doc, Header \o <<"MsgDefIdr">>, "first") = WordAt(doc, Header \o <<"MsgDefIdr">>, "last")
  BY <1>1, OnceIsOne
<1> QED
  BY <1>2, OneRequest DEF ParsePacs008

(* No accepted document holds two transfers, one for a reader that takes   *)
(* the first of repeated elements and one for encoding/xml, which takes    *)
(* the last (pacs008.go:86, 239-258).                                      *)
THEOREM ImportHasOneReading == Spec => []OneReading
<1> DEFINE Typed == phase = "received" /\ message.kind = "iso20022" => IsDocument(message.body)
<1>1. Init => Typed
  BY DEF Init
<1>2. Typed /\ [Next]_vars => Typed'
  BY DEF Next, Unauthorized, BadRequest, Accept, CheckWithContext, Respond, vars
<1>3. Typed => OneReading
  <2>1. ASSUME NEW doc, NEW key, ParsePacs008(doc, key, "last") # {} PROVE Decodes(doc)
    BY <2>1 DEF ParsePacs008
  <2> SUFFICES ASSUME Typed, Imports,
                      ParsePacs008(message.body, message.keyHeader, "last") # {}
               PROVE  ParsePacs008(message.body, message.keyHeader, "first")
                        = ParsePacs008(message.body, message.keyHeader, "last")
    BY DEF OneReading
  <2>2. IsDocument(message.body) /\ Decodes(message.body)
    BY <2>1 DEF Imports
  <2> QED
    BY <2>2, OneAnswer
<1> QED
  BY <1>1, <1>2, <1>3, PTL DEF Spec

-----------------------------------------------------------------------------
(* Powers of ten.                                                          *)
LEMMA PowersExist ==
  /\ PowerOfTen = [n \in Nat |-> PowerOfTen[n]]
  /\ PowerOfTen[0] = 1
  /\ \A n \in Nat \ {0} : PowerOfTen[n] = 10 * PowerOfTen[n - 1]
<1> DEFINE Right(g, n) == g \in [0 .. n -> Nat] /\ g[0] = 1 /\ \A i \in 1 .. n : g[i] = 10 * g[i - 1]
           G == [n \in Nat |-> CHOOSE g : Right(g, n)]
           p == [n \in Nat |-> G[n][n]]
           Equation(h) == h = [n \in Nat |-> IF n = 0 THEN 1 ELSE 10 * h[n - 1]]
           power == CHOOSE h : Equation(h)
<1>1. ASSUME NEW n \in Nat PROVE Right(G[n], n)
  <2> DEFINE F == [q \in (1 .. n) \X Nat |-> 10 * q[2]]
  <2>1. F \in [(1 .. n) \X Nat -> Nat]
    OBVIOUS
  <2>2. \A i \in 1 .. n : \A x \in Nat : F[<<i, x>>] = 10 * x
    OBVIOUS
  <2> HIDE DEF F
  <2>3. PICK g \in [0 .. n -> Nat] : Recurs(g, n, 1, F)
    BY <2>1, RecursionExists
  <2>4. \A i \in 1 .. n : i - 1 \in 0 .. n /\ g[i - 1] \in Nat
    <3>1. \A i \in 1 .. n : i - 1 \in 0 .. n
      OBVIOUS
    <3> QED
      BY <3>1
  <2>5. Right(g, n)
    BY <2>2, <2>3, <2>4 DEF Recurs
  <2> HIDE DEF Right
  <2> QED
    BY <2>5
<1>2. ASSUME NEW n \in Nat \ {0} PROVE G[n][n - 1] = G[n - 1][n - 1]
  <2> DEFINE m == n - 1
             T == {i \in 0 .. m : G[n][i] = G[m][i]}
  <2>1. m \in Nat /\ Right(G[n], n) /\ Right(G[m], m)
    <3>1. m \in Nat
      OBVIOUS
    <3> HIDE DEF G, Right, m
    <3> QED
      BY <1>1, <3>1
  <2> HIDE DEF G
  <2>2. 0 \in T
    <3>1. 0 \in 0 .. m
      BY <2>1
    <3>2. G[n][0] = 1 /\ G[m][0] = 1
      BY <2>1
    <3> QED
      BY <3>1, <3>2
  <2>3. ASSUME NEW i \in 0 .. m, i \in T, i < m PROVE i + 1 \in T
    <3>1. i + 1 \in 1 .. n /\ i + 1 \in 1 .. m /\ (i + 1) - 1 = i /\ i + 1 \in 0 .. m
      BY <2>1, <2>3
    <3>2. G[n][i + 1] = 10 * G[n][i] /\ G[m][i + 1] = 10 * G[m][i]
      BY <2>1, <3>1
    <3> QED
      BY <2>3, <3>1, <3>2
  <2> HIDE DEF T, m
  <2>4. \A i \in 0 .. m : i \in T
    BY <2>1, <2>2, <2>3, Induction
  <2>5. m \in 0 .. m
    BY <2>1
  <2> QED
    BY <2>4, <2>5 DEF T, m
<1>3. Equation(p)
  <2>1. \A n \in Nat : Right(G[n], n)
    BY <1>1
  <2> HIDE DEF G
  <2>2. \A n \in Nat : n = 0 => p[n] = 1
    BY <2>1
  <2>3. ASSUME NEW n \in Nat, n # 0 PROVE p[n] = 10 * p[n - 1]
    <3>1. n - 1 \in Nat /\ n \in 1 .. n
      BY <2>3
    <3>2. G[n][n] = 10 * G[n][n - 1]
      BY <2>1, <3>1
    <3> QED
      BY <1>2, <2>3, <3>1, <3>2
  <2> HIDE DEF p
  <2>4. \A n \in Nat : p[n] = IF n = 0 THEN 1 ELSE 10 * p[n - 1]
    BY <2>2, <2>3
  <2>5. p = [n \in Nat |-> p[n]]
    BY DEF p
  <2> QED
    BY <2>4, <2>5
<1> HIDE DEF p
<1>4. Equation(power)
  <2> HIDE DEF Equation
  <2> QED
    BY <1>3
<1>5. PowerOfTen = power
  BY DEF PowerOfTen
<1> HIDE DEF power
<1>6. \A n \in Nat : power[n] = IF n = 0 THEN 1 ELSE 10 * power[n - 1]
  BY <1>4
<1>7. power = [n \in Nat |-> power[n]]
  BY <1>4
<1> HIDE DEF Equation
<1> QED
  BY <1>5, <1>6, <1>7

LEMMA PowersPositive == \A n \in Nat : PowerOfTen[n] \in Nat \ {0}
<1> SUFFICES ASSUME NEW n \in Nat PROVE PowerOfTen[n] \in Nat \ {0}
  OBVIOUS
<1> DEFINE T == {i \in 0 .. n : PowerOfTen[i] \in Nat \ {0}}
<1>1. 0 \in T
  BY PowersExist
<1>2. ASSUME NEW i \in 0 .. n, i \in T, i < n PROVE i + 1 \in T
  <2>1. i + 1 \in Nat \ {0} /\ (i + 1) - 1 = i /\ i + 1 \in 0 .. n
    BY <1>2
  <2>2. PowerOfTen[i + 1] = 10 * PowerOfTen[i]
    BY <2>1, PowersExist
  <2> QED
    BY <1>2, <2>1, <2>2
<1> HIDE DEF T
<1>3. \A i \in 0 .. n : i \in T
  BY <1>1, <1>2, Induction
<1> QED
  BY <1>3 DEF T

LEMMA PowersAdd == \A m, n \in Nat : PowerOfTen[m + n] = PowerOfTen[m] * PowerOfTen[n]
<1> SUFFICES ASSUME NEW m \in Nat, NEW n \in Nat PROVE PowerOfTen[m + n] = PowerOfTen[m] * PowerOfTen[n]
  OBVIOUS
<1> DEFINE T == {i \in 0 .. n : PowerOfTen[m + i] = PowerOfTen[m] * PowerOfTen[i]}
<1>1. 0 \in T
  BY PowersExist, PowersPositive
<1>2. ASSUME NEW i \in 0 .. n, i \in T, i < n PROVE i + 1 \in T
  <2>1. /\ i + 1 \in Nat \ {0} /\ (i + 1) - 1 = i /\ i + 1 \in 0 .. n
        /\ m + (i + 1) \in Nat \ {0} /\ (m + (i + 1)) - 1 = m + i
    BY <1>2
  <2>2. /\ PowerOfTen[i + 1] = 10 * PowerOfTen[i]
        /\ PowerOfTen[m + (i + 1)] = 10 * PowerOfTen[m + i]
    BY <2>1, PowersExist
  <2>3. \A x, y \in Nat : 10 * (x * y) = x * (10 * y)
    OBVIOUS
  <2>4. PowerOfTen[m] \in Nat /\ PowerOfTen[i] \in Nat
    BY PowersPositive
  <2>5. PowerOfTen[m + (i + 1)] = PowerOfTen[m] * PowerOfTen[i + 1]
    BY <1>2, <2>2, <2>3, <2>4
  <2> QED
    BY <2>1, <2>5
<1> HIDE DEF T
<1>3. \A i \in 0 .. n : i \in T
  BY <1>1, <1>2, Induction
<1> QED
  BY <1>3 DEF T

LEMMA PowersGrow == \A m, n \in Nat : m <= n => PowerOfTen[m] <= PowerOfTen[n]
<1> SUFFICES ASSUME NEW m \in Nat, NEW n \in Nat, m <= n PROVE PowerOfTen[m] <= PowerOfTen[n]
  OBVIOUS
<1>1. n - m \in Nat /\ n = m + (n - m)
  OBVIOUS
<1>2. PowerOfTen[n] = PowerOfTen[m] * PowerOfTen[n - m]
  BY <1>1, PowersAdd
<1>3. PowerOfTen[m] \in Nat \ {0} /\ PowerOfTen[n - m] \in Nat \ {0}
  BY <1>1, PowersPositive
<1>4. \A x, y \in Nat \ {0} : x <= x * y
  OBVIOUS
<1> QED
  BY <1>2, <1>3, <1>4

-----------------------------------------------------------------------------
(* What canonicalAmount makes of an accepted text is another text for the  *)
(* same number, without superfluous zeros.                                 *)
Reduced(text) == {p \in 0 .. text.places : text.units % PowerOfTen[text.places - p] = 0}

LEMMA CanonicalReduces ==
  ASSUME NEW text \in AmountText
  PROVE  \E p \in 0 .. text.places :
           LET k == text.places - p
               q == text.units \div PowerOfTen[k]
           IN  /\ CanonicalAmount(text) = Decimal(q, p)
               /\ p = Min(Reduced(text))
               /\ \A r \in Reduced(text) : p <= r
               /\ p \in Reduced(text)
               /\ q \in Nat /\ q * PowerOfTen[k] = text.units
<1> DEFINE S == Reduced(text)
           p == Min(S)
           k == text.places - p
           q == text.units \div PowerOfTen[k]
<1>1. text.units \in Nat /\ text.places \in Nat
  BY DEF AmountText
<1>2. text.places \in S
  <2>1. text.places - text.places = 0 /\ text.places \in 0 .. text.places
    BY <1>1
  <2>2. \A x \in Nat : x % 1 = 0
    OBVIOUS
  <2> QED
    BY <1>1, <2>1, <2>2, PowersExist DEF Reduced
<1>3. S \in SUBSET Nat
  BY <1>1 DEF Reduced
<1>4. p \in S /\ \A r \in S : p <= r
  <2> HIDE DEF S
  <2>1. \E n \in S : \A m \in S : n <= m
    BY <1>2, <1>3, LeastElement
  <2> QED
    BY <2>1 DEF Min
<1>5. CanonicalAmount(text) = Decimal(q, p)
  BY DEF CanonicalAmount, Reduced
<1>6. p \in 0 .. text.places /\ text.units % PowerOfTen[k] = 0
  BY <1>4 DEF Reduced
<1> HIDE DEF p
<1>7. k \in Nat
  BY <1>1, <1>6
<1>8. PowerOfTen[k] \in Nat \ {0}
  BY <1>7, PowersPositive
<1>9. \A x \in Nat, d \in Nat \ {0} : x % d = 0 => (x \div d) \in Nat /\ (x \div d) * d = x
  OBVIOUS
<1>10. q \in Nat /\ q * PowerOfTen[k] = text.units
  BY <1>1, <1>6, <1>8, <1>9
<1> HIDE DEF S
<1> QED
  BY <1>4, <1>5, <1>6, <1>10 DEF p, S

(* It stays acceptable for a total, and the same number.                   *)
LEMMA CanonicalIsSame ==
  ASSUME NEW text \in AmountText
  PROVE  /\ CanonicalAmount(text) \in AmountText
         /\ \A currency : AggregateAmountOk(text, currency) =>
              /\ AggregateAmountOk(CanonicalAmount(text), currency)
              /\ MinorUnits(CanonicalAmount(text), currency) = MinorUnits(text, currency)
<1>1. PICK p \in 0 .. text.places :
           LET k == text.places - p
               q == text.units \div PowerOfTen[k]
           IN  /\ CanonicalAmount(text) = Decimal(q, p)
               /\ q \in Nat /\ q * PowerOfTen[k] = text.units
  BY CanonicalReduces
<1> DEFINE k == text.places - p
           q == text.units \div PowerOfTen[k]
           c == Decimal(q, p)
<1>2. /\ CanonicalAmount(text) = c
      /\ q \in Nat /\ q * PowerOfTen[k] = text.units
  BY <1>1
<1>3. text.units \in Nat /\ text.places \in Nat
  BY DEF AmountText
<1> HIDE DEF q
<1>4. p \in Nat /\ k \in Nat /\ text.places = p + k
  BY <1>3
<1>5. c \in AmountText /\ c.plain /\ ~c.padded /\ c.units = q /\ c.places = p
  BY <1>2, <1>4 DEF Decimal, AmountText
<1> HIDE DEF c, k
<1>6. PowerOfTen[k] \in Nat \ {0}
  BY <1>4, PowersPositive
<1>7. ASSUME NEW currency, AggregateAmountOk(text, currency)
      PROVE  AggregateAmountOk(c, currency) /\ MinorUnits(c, currency) = MinorUnits(text, currency)
  <2>1. /\ currency \in DOMAIN Scale /\ text.places <= Scale[currency]
        /\ text.units < PowerOfTen[AggregateDigits + text.places]
    BY <1>7 DEF AggregateAmountOk, CanonicalAmountOk
  <2>2. Scale[currency] \in Nat /\ AggregateDigits \in Nat
    BY <2>1, ScaleAssumption, DigitsAssumption
  <2>3. q < PowerOfTen[AggregateDigits + p]
    <3>1. AggregateDigits + text.places = (AggregateDigits + p) + k /\ AggregateDigits + p \in Nat
      BY <1>4, <2>2
    <3>2. /\ PowerOfTen[AggregateDigits + text.places] = PowerOfTen[AggregateDigits + p] * PowerOfTen[k]
          /\ PowerOfTen[AggregateDigits + p] \in Nat
      BY <1>4, <3>1, PowersAdd, PowersPositive
    <3>3. \A x, y \in Nat, d \in Nat \ {0} : x * d < y * d => x < y
      OBVIOUS
    <3>4. q * PowerOfTen[k] < PowerOfTen[AggregateDigits + p] * PowerOfTen[k]
      BY <1>2, <2>1, <3>2
    <3> QED
      BY <1>2, <1>6, <3>2, <3>3, <3>4
  <2>4. p <= Scale[currency]
    BY <1>3, <1>4, <2>1, <2>2
  <2>5. AggregateAmountOk(c, currency)
    BY <1>5, <2>1, <2>3, <2>4 DEF AggregateAmountOk, CanonicalAmountOk
  <2>6. /\ Scale[currency] - p = k + (Scale[currency] - text.places)
        /\ Scale[currency] - text.places \in Nat
    BY <1>3, <1>4, <2>1, <2>2
  <2> DEFINE rest == Scale[currency] - text.places
  <2>7. /\ PowerOfTen[Scale[currency] - p] = PowerOfTen[k] * PowerOfTen[rest]
        /\ PowerOfTen[rest] \in Nat
    BY <1>4, <2>6, PowersAdd, PowersPositive
  <2>8. \A x, y, z \in Nat : x * (y * z) = (x * y) * z
    OBVIOUS
  <2>9. MinorUnits(c, currency) = q * (PowerOfTen[k] * PowerOfTen[rest])
    BY <1>5, <2>7 DEF MinorUnits
  <2>10. MinorUnits(text, currency) = text.units * PowerOfTen[rest]
    BY DEF MinorUnits
  <2> HIDE DEF rest
  <2>11. q * (PowerOfTen[k] * PowerOfTen[rest]) = (q * PowerOfTen[k]) * PowerOfTen[rest]
    BY <1>2, <1>6, <2>7, <2>8
  <2> QED
    BY <1>2, <2>5, <2>9, <2>10, <2>11
<1> QED
  BY <1>2, <1>5, <1>7

(* A transfer amount will do as a total.                                   *)
LEMMA TransferIsAggregate ==
  ASSUME NEW text \in AmountText, NEW currency, TransferAmountOk(text, currency)
  PROVE  AggregateAmountOk(text, currency)
<1>1. /\ currency \in DOMAIN Scale /\ text.plain /\ ~text.padded
      /\ text.places <= Scale[currency]
      /\ text.units < PowerOfTen[TransferDigits + text.places]
  BY DEF TransferAmountOk, CanonicalAmountOk
<1>2. text.units \in Nat /\ text.places \in Nat
  BY DEF AmountText
<1>3. /\ TransferDigits + text.places \in Nat /\ AggregateDigits + text.places \in Nat
      /\ TransferDigits + text.places <= AggregateDigits + text.places
  BY <1>2, DigitsAssumption
<1>4. /\ PowerOfTen[TransferDigits + text.places] <= PowerOfTen[AggregateDigits + text.places]
      /\ PowerOfTen[TransferDigits + text.places] \in Nat /\ PowerOfTen[AggregateDigits + text.places] \in Nat
  BY <1>3, PowersGrow, PowersPositive
<1>5. text.units < PowerOfTen[AggregateDigits + text.places]
  BY <1>1, <1>2, <1>4
<1> QED
  BY <1>1, <1>5 DEF AggregateAmountOk, CanonicalAmountOk

LEMMA MinorUnitsTyped ==
  ASSUME NEW text \in AmountText, NEW currency, AggregateAmountOk(text, currency)
  PROVE  MinorUnits(text, currency) \in Nat
<1>1. currency \in DOMAIN Scale /\ text.places <= Scale[currency] /\ text.units \in Nat /\ text.places \in Nat
  BY DEF AggregateAmountOk, CanonicalAmountOk, AmountText
<1>2. Scale[currency] - text.places \in Nat
  BY <1>1, ScaleAssumption
<1>3. PowerOfTen[Scale[currency] - text.places] \in Nat
  BY <1>2, PowersPositive
<1>4. \A x, y \in Nat : x * y \in Nat
  OBVIOUS
<1> QED
  BY <1>1, <1>3, <1>4 DEF MinorUnits

-----------------------------------------------------------------------------
(* Sums.                                                                   *)
Texts(amounts) ==
  Len(amounts) \in Nat /\ DOMAIN amounts = 1 .. Len(amounts) /\ \A i \in DOMAIN amounts : amounts[i] \in AmountText

Addable(currency, amounts, adding) ==
  adding \subseteq DOMAIN amounts /\ \A i \in adding : AggregateAmountOk(amounts[i], currency)

UnitsAt(currency, amounts, adding, i) == IF i \in adding THEN MinorUnits(amounts[i], currency) ELSE 0

IsTotal(currency, amounts, adding, total) ==
  /\ total \in [0 .. Len(amounts) -> Nat]
  /\ total[0] = 0
  /\ \A i \in 1 .. Len(amounts) : total[i] = total[i - 1] + UnitsAt(currency, amounts, adding, i)
  /\ TotalUnits(currency, amounts, adding) = total[Len(amounts)]

LEMMA UnitsTyped ==
  ASSUME NEW currency, NEW amounts, Texts(amounts), NEW adding, Addable(currency, amounts, adding)
  PROVE  \A i \in 1 .. Len(amounts) : UnitsAt(currency, amounts, adding, i) \in Nat
<1> SUFFICES ASSUME NEW i \in 1 .. Len(amounts) PROVE UnitsAt(currency, amounts, adding, i) \in Nat
  OBVIOUS
<1>1. CASE i \in adding
  <2>1. amounts[i] \in AmountText /\ AggregateAmountOk(amounts[i], currency)
    BY <1>1 DEF Texts, Addable
  <2>2. MinorUnits(amounts[i], currency) \in Nat
    BY <2>1, MinorUnitsTyped
  <2> QED
    BY <1>1, <2>2 DEF UnitsAt
<1>2. CASE i \notin adding
  BY <1>2 DEF UnitsAt
<1> QED
  BY <1>1, <1>2

LEMMA TotalsExist ==
  ASSUME NEW currency, NEW amounts, Texts(amounts), NEW adding, Addable(currency, amounts, adding)
  PROVE  \E total : IsTotal(currency, amounts, adding, total)
<1> DEFINE n == Len(amounts)
           Units(i) == UnitsAt(currency, amounts, adding, i)
           Equation(g) == g = [i \in 0 .. n |-> IF i = 0 THEN 0 ELSE g[i - 1] + Units(i)]
           F == [p \in (1 .. n) \X Nat |-> p[2] + Units(p[1])]
           total == CHOOSE g : Equation(g)
<1>1. n \in Nat
  BY DEF Texts
<1>2. TotalUnits(currency, amounts, adding) = total[n]
  BY DEF TotalUnits, UnitsAt
<1>3. \A i \in 1 .. n : Units(i) \in Nat
  BY UnitsTyped
<1> HIDE DEF n, Units
<1>4. /\ F \in [(1 .. n) \X Nat -> Nat]
      /\ \A i \in 1 .. n : \A x \in Nat : F[<<i, x>>] = x + Units(i)
  BY <1>3
<1> HIDE DEF F
<1>5. PICK g \in [0 .. n -> Nat] : Recurs(g, n, 0, F)
  BY <1>1, <1>4, RecursionExists
<1>6. Equation(g)
  <2>1. \A i \in 1 .. n : i - 1 \in 0 .. n
    BY <1>1
  <2>2. \A i \in 1 .. n : F[<<i, g[i - 1]>>] = g[i - 1] + Units(i)
    BY <1>4, <2>1
  <2>3. g[0] = 0 /\ \A i \in 1 .. n : g[i] = g[i - 1] + Units(i)
    BY <1>5, <2>2 DEF Recurs
  <2>4. \A i \in 0 .. n : i = 0 \/ i \in 1 .. n
    BY <1>1
  <2>5. \A i \in 0 .. n : g[i] = IF i = 0 THEN 0 ELSE g[i - 1] + Units(i)
    BY <2>3, <2>4
  <2> QED
    BY <2>5
<1>7. Equation(total)
  <2> HIDE DEF Equation
  <2> QED
    BY <1>6
<1> HIDE DEF total
<1>8. /\ total[0] = 0
      /\ \A i \in 1 .. n : total[i] = total[i - 1] + Units(i)
      /\ total = [i \in 0 .. n |-> total[i]]
  <2>1. total = [i \in 0 .. n |-> IF i = 0 THEN 0 ELSE total[i - 1] + Units(i)]
    BY <1>7
  <2>2. \A i \in 0 .. n : total[i] = IF i = 0 THEN 0 ELSE total[i - 1] + Units(i)
    BY <2>1
  <2>3. 0 \in 0 .. n /\ \A i \in 1 .. n : i \in 0 .. n /\ i # 0
    BY <1>1
  <2>4. total[0] = 0 /\ \A i \in 1 .. n : total[i] = total[i - 1] + Units(i)
    BY <2>2, <2>3
  <2> QED
    BY <2>1, <2>4
<1> HIDE DEF Equation
<1>9. total \in [0 .. n -> Nat]
  <2>1. ASSUME NEW i \in 1 .. n, total[i - 1] \in Nat PROVE total[i] \in Nat
    BY <1>3, <1>8, <2>1
  <2>2. total[0] \in Nat
    BY <1>8
  <2> QED
    BY <1>1, <1>8, <2>1, <2>2, RecursionTyped
<1> QED
  BY <1>2, <1>8, <1>9 DEF IsTotal, n, Units

(* More amounts come to no less.                                           *)
LEMMA TotalsGrow ==
  ASSUME NEW currency, NEW amounts, Texts(amounts), NEW more, Addable(currency, amounts, more),
         NEW fewer, fewer \subseteq more
  PROVE  /\ Addable(currency, amounts, fewer)
         /\ TotalUnits(currency, amounts, fewer) \in Nat /\ TotalUnits(currency, amounts, more) \in Nat
         /\ TotalUnits(currency, amounts, fewer) <= TotalUnits(currency, amounts, more)
<1>1. Addable(currency, amounts, fewer)
  BY DEF Addable
<1>2. PICK f : IsTotal(currency, amounts, fewer, f)
  BY <1>1, TotalsExist
<1>3. PICK m : IsTotal(currency, amounts, more, m)
  BY TotalsExist
<1> DEFINE n == Len(amounts)
           T == {i \in 0 .. n : f[i] <= m[i]}
<1>4. n \in Nat
  BY DEF Texts
<1>5. \A i \in 1 .. n : /\ UnitsAt(currency, amounts, fewer, i) \in Nat
                        /\ UnitsAt(currency, amounts, more, i) \in Nat
                        /\ UnitsAt(currency, amounts, fewer, i) <= UnitsAt(currency, amounts, more, i)
  <2>1. \A i \in 1 .. n : /\ UnitsAt(currency, amounts, fewer, i) \in Nat
                          /\ UnitsAt(currency, amounts, more, i) \in Nat
    BY <1>1, UnitsTyped
  <2>2. ASSUME NEW i \in 1 .. n PROVE UnitsAt(currency, amounts, fewer, i) <= UnitsAt(currency, amounts, more, i)
    <3>1. CASE i \in fewer
      <4>1. UnitsAt(currency, amounts, fewer, i) = UnitsAt(currency, amounts, more, i)
        BY <3>1 DEF UnitsAt
      <4> QED
        BY <2>1, <4>1
    <3>2. CASE i \notin fewer
      <4>1. UnitsAt(currency, amounts, fewer, i) = 0
        BY <3>2 DEF UnitsAt
      <4> QED
        BY <2>1, <4>1
    <3> QED
      BY <3>1, <3>2
  <2> QED
    BY <2>1, <2>2
<1>6. /\ f \in [0 .. n -> Nat] /\ m \in [0 .. n -> Nat] /\ f[0] = 0 /\ m[0] = 0
      /\ \A i \in 1 .. n : f[i] = f[i - 1] + UnitsAt(currency, amounts, fewer, i)
      /\ \A i \in 1 .. n : m[i] = m[i - 1] + UnitsAt(currency, amounts, more, i)
      /\ TotalUnits(currency, amounts, fewer) = f[n] /\ TotalUnits(currency, amounts, more) = m[n]
  BY <1>2, <1>3 DEF IsTotal
<1> HIDE DEF n
<1>7. 0 \in T
  BY <1>4, <1>6
<1>8. ASSUME NEW i \in 0 .. n, i \in T, i < n PROVE i + 1 \in T
  <2>1. i + 1 \in 1 .. n /\ (i + 1) - 1 = i /\ i + 1 \in 0 .. n
    BY <1>4, <1>8
  <2>2. /\ f[i + 1] = f[i] + UnitsAt(currency, amounts, fewer, i + 1)
        /\ m[i + 1] = m[i] + UnitsAt(currency, amounts, more, i + 1)
    BY <1>6, <2>1
  <2>3. /\ UnitsAt(currency, amounts, fewer, i + 1) \in Nat /\ UnitsAt(currency, amounts, more, i + 1) \in Nat
        /\ UnitsAt(currency, amounts, fewer, i + 1) <= UnitsAt(currency, amounts, more, i + 1)
    BY <1>5, <2>1
  <2>4. f[i] \in Nat /\ m[i] \in Nat /\ f[i] <= m[i]
    BY <1>6, <1>8
  <2>5. f[i + 1] <= m[i + 1]
    BY <2>2, <2>3, <2>4
  <2> QED
    BY <2>1, <2>5
<1> HIDE DEF T
<1>9. \A i \in 0 .. n : i \in T
  BY <1>4, <1>7, <1>8, Induction
<1>10. n \in 0 .. n
  BY <1>4
<1>11. f[n] \in Nat /\ m[n] \in Nat
  BY <1>6, <1>10
<1>12. f[n] <= m[n]
  BY <1>9, <1>10 DEF T
<1> QED
  BY <1>1, <1>6, <1>11, <1>12

(* A sum that can be had is acceptable, and so is one of fewer amounts.    *)
LEMMA SumsStandFor ==
  ASSUME NEW currency, NEW amounts, Texts(amounts), NEW more, more \subseteq DOMAIN amounts,
         ~AddAmounts(currency, amounts, more).failed, NEW fewer, fewer \subseteq more
  PROVE  LET sum == AddAmounts(currency, amounts, fewer)
         IN  /\ Addable(currency, amounts, fewer)
             /\ ~sum.failed
             /\ sum.amount \in AmountText /\ AggregateAmountOk(sum.amount, currency)
             /\ MinorUnits(sum.amount, currency) = TotalUnits(currency, amounts, fewer)
<1> DEFINE units(adding) == TotalUnits(currency, amounts, adding)
           text(adding) == Decimal(units(adding), Scale[currency])
<1>1. \A adding : AddAmounts(currency, amounts, adding) =
         IF currency \in DOMAIN Scale /\ \A i \in adding : AggregateAmountOk(amounts[i], currency)
         THEN IF AggregateAmountOk(text(adding), currency) THEN TotalText(CanonicalAmount(text(adding))) ELSE NoTotal
         ELSE NoTotal
  BY DEF AddAmounts, AmountFromMinorUnits
<1>2. NoTotal.failed /\ \A c : ~TotalText(c).failed /\ TotalText(c).amount = c
  BY DEF NoTotal, TotalText
<1>3. /\ currency \in DOMAIN Scale /\ \A i \in more : AggregateAmountOk(amounts[i], currency)
      /\ AggregateAmountOk(text(more), currency)
  BY <1>1, <1>2
<1>4. Addable(currency, amounts, more)
  BY <1>3 DEF Addable
<1>5. /\ Addable(currency, amounts, fewer)
      /\ units(fewer) \in Nat /\ units(more) \in Nat /\ units(fewer) <= units(more)
  BY <1>4, TotalsGrow
<1>6. Scale[currency] \in Nat
  BY <1>3, ScaleAssumption
<1> HIDE DEF units
<1>7. /\ text(fewer) \in AmountText
      /\ text(fewer).plain /\ ~text(fewer).padded /\ text(fewer).places = Scale[currency]
      /\ text(fewer).units = units(fewer)
      /\ text(more).units = units(more) /\ text(more).places = Scale[currency]
  BY <1>5, <1>6 DEF Decimal, AmountText
<1> HIDE DEF text
<1>8. units(more) < PowerOfTen[AggregateDigits + Scale[currency]]
  BY <1>3, <1>7 DEF AggregateAmountOk, CanonicalAmountOk
<1>9. PowerOfTen[AggregateDigits + Scale[currency]] \in Nat
  <2>1. AggregateDigits + Scale[currency] \in Nat
    BY <1>6, DigitsAssumption
  <2> QED
    BY <2>1, PowersPositive
<1>10. units(fewer) < PowerOfTen[AggregateDigits + Scale[currency]]
  BY <1>5, <1>8, <1>9
<1>11. AggregateAmountOk(text(fewer), currency)
  <2>1. Scale[currency] <= Scale[currency]
    BY <1>6
  <2> QED
    BY <1>3, <1>7, <1>10, <2>1 DEF AggregateAmountOk, CanonicalAmountOk
<1>12. MinorUnits(text(fewer), currency) = units(fewer)
  <2>1. Scale[currency] - text(fewer).places = 0
    BY <1>6, <1>7
  <2>2. MinorUnits(text(fewer), currency) = units(fewer) * 1
    BY <1>7, <2>1, PowersExist DEF MinorUnits
  <2> QED
    BY <1>5, <2>2
<1>13. AddAmounts(currency, amounts, fewer) = TotalText(CanonicalAmount(text(fewer)))
  BY <1>1, <1>3, <1>11
<1> QED
  BY <1>2, <1>5, <1>7, <1>11, <1>12, <1>13, CanonicalIsSame DEF units

-----------------------------------------------------------------------------
(* Which comparisons fail.  The type of a fact depends on its field only.  *)
MoneyFields == SumFields \cup {"amount", "instructed_amount.amount"}

TypeOf(field) ==
  IF field \in DOMAIN RequestField \cup
       {"debtor_agent.country", "creditor_agent.country", "route.country_pair",
        "debtor_account.risk_tier", "creditor_account.risk_tier"} THEN "word"
  ELSE IF field \in (VelocityFields \ SumFields) \cup {"requested_execution_days_ahead"} THEN "number"
  ELSE IF field \in FirstTimeFields \cup
       {"account.debtor_metadata_recently_changed", "account.creditor_metadata_recently_changed"} THEN "bool"
  ELSE "unsupported"

LEMMA FactOfField ==
  ASSUME NEW node, node.field \notin MoneyFields, NEW req, NEW data
  PROVE  FieldValue(node, req, data).type = TypeOf(node.field)
<1> DEFINE fact == FieldValue(node, req, data)
<1>1. /\ \A x : Number(x).type = "number" /\ Truth(x).type = "bool" /\ Text(x).type = "word"
      /\ Unsupported.type = "unsupported"
  BY DEF Number, Truth, Text, Unsupported
<1>2. node.field \notin SumFields \cup {"amount", "instructed_amount.amount"}
  BY DEF MoneyFields
<1>3. CASE node.field \in DOMAIN RequestField
  <2>1. fact = Text(req[RequestField[node.field]])
    BY <1>3 DEF FieldValue, RequestField, VelocityFields, SumFields, FirstTimeFields
  <2> QED
    BY <1>1, <1>3, <2>1 DEF TypeOf
<1>4. CASE node.field \in VelocityFields
  <2>1. fact = Velocity(node, req, data)
    BY <1>4 DEF FieldValue, VelocityFields, SumFields, FirstTimeFields, RequestField
  <2>2. Velocity(node, req, data).type = "number"
    BY <1>1, <1>2, <1>4 DEF Velocity, VelocityFields, SumFields
  <2>3. TypeOf(node.field) = "number"
    BY <1>2, <1>4 DEF TypeOf, RequestField, VelocityFields, SumFields
  <2> QED
    BY <2>1, <2>2, <2>3
<1>5. CASE node.field \notin DOMAIN RequestField /\ node.field \notin VelocityFields
  <2> DEFINE first == ~(IF HasMetrics(node, data) THEN MetricsFor(node, data).hasPreviousCreditor
                        ELSE HasPreviousCreditor(req, data.history))
  <2>1. \/ /\ node.field = "requested_execution_days_ahead"
           /\ fact = Number(DaysAhead(req.executionDate, data.now))
        \/ /\ node.field = "debtor_agent.country"
           /\ fact = Text(Country(req.debtorBic))
        \/ /\ node.field = "creditor_agent.country"
           /\ fact = Text(Country(req.creditorBic))
        \/ /\ node.field = "route.country_pair"
           /\ fact = Text(Country(req.debtorBic) \o "-" \o Country(req.creditorBic))
        \/ node.field = "debtor_account.risk_tier" /\ fact = Text(data.debtorTier)
        \/ node.field = "creditor_account.risk_tier" /\ fact = Text(data.creditorTier)
        \/ node.field \in FirstTimeFields /\ fact = Truth(first)
        \/ /\ node.field = "account.debtor_metadata_recently_changed"
           /\ fact = Truth(RecentlyChanged(node, data.debtorUpdatedAt, data))
        \/ /\ node.field = "account.creditor_metadata_recently_changed"
           /\ fact = Truth(RecentlyChanged(node, data.creditorUpdatedAt, data))
        \/ /\ node.field \notin FirstTimeFields \cup
                {"requested_execution_days_ahead", "debtor_agent.country", "creditor_agent.country",
                 "route.country_pair", "debtor_account.risk_tier", "creditor_account.risk_tier",
                 "account.debtor_metadata_recently_changed", "account.creditor_metadata_recently_changed"}
           /\ fact = Unsupported
    BY <1>2, <1>5 DEF FieldValue, FirstTimeFields
  <2> HIDE DEF fact, first
  <2>2. \/ /\ node.field \in {"debtor_agent.country", "creditor_agent.country", "route.country_pair",
                            "debtor_account.risk_tier", "creditor_account.risk_tier"}
           /\ fact.type = "word"
        \/ node.field = "requested_execution_days_ahead" /\ fact.type = "number"
        \/ /\ node.field \in FirstTimeFields \cup
                {"account.debtor_metadata_recently_changed", "account.creditor_metadata_recently_changed"}
           /\ fact.type = "bool"
        \/ /\ node.field \notin FirstTimeFields \cup
                {"requested_execution_days_ahead", "debtor_agent.country", "creditor_agent.country",
                 "route.country_pair", "debtor_account.risk_tier", "creditor_account.risk_tier",
                 "account.debtor_metadata_recently_changed", "account.creditor_metadata_recently_changed"}
           /\ fact.type = "unsupported"
    BY <1>1, <2>1
  <2>3. fact.type = TypeOf(node.field)
    BY <1>5, <2>2 DEF TypeOf, FirstTimeFields
  <2> QED
    BY <2>3 DEF fact
<1> QED
  BY <1>3, <1>4, <1>5

(* Whether a comparison of what is not money fails is decided by the       *)
(* operator and the value.                                                 *)
LEMMA FailureIsOfKind ==
  ASSUME NEW f, NEW g, f.type = g.type, f.type \in FactType \ {"money"}, NEW op, NEW value
  PROVE  Compare(f, op, value) = "error" <=> Compare(g, op, value) = "error"
<1>1. \A matched : Says(matched) # "error"
  BY DEF Says
<1>2. CASE f.type = "number"
  <2>1. Compare(f, op, value) = CompareNumber(f, op, value) /\ Compare(g, op, value) = CompareNumber(g, op, value)
    BY <1>2 DEF Compare
  <2> QED
    BY <1>1, <2>1 DEF CompareNumber
<1>3. CASE f.type = "bool"
  <2>1. Compare(f, op, value) = CompareBool(f, op, value) /\ Compare(g, op, value) = CompareBool(g, op, value)
    BY <1>3 DEF Compare
  <2> QED
    BY <1>1, <2>1 DEF CompareBool
<1>4. CASE f.type = "word"
  <2>1. Compare(f, op, value) = CompareWord(f, op, value) /\ Compare(g, op, value) = CompareWord(g, op, value)
    BY <1>4 DEF Compare
  <2>2. \A h : CompareWord(h, op, value) = "error" <=>
                 op \notin {"eq", "neq", "contains", "not_contains", "in", "not_in"}
    BY <1>1 DEF CompareWord
  <2> QED
    BY <2>1, <2>2
<1>5. CASE f.type = "unsupported"
  BY <1>5 DEF Compare
<1> QED
  BY <1>2, <1>3, <1>4, <1>5 DEF FactType

(* What the trial lets through fails over money only: because the fact     *)
(* cannot be had, or the value is too fine for the currency.               *)
LEMMA TrialTells ==
  ASSUME NEW node, LeafOk(node), NEW req, NEW data,
         Compare(FieldValue(node, req, data), node.op, node.value) = "error"
  PROVE  /\ node.field \in MoneyFields /\ node.value[1] = "amount"
         /\ LET fact == FieldValue(node, req, data)
            IN  fact.type = "money" =>
                  \/ fact.failed
                  \/ ~Comparable(fact.amount, node.value[2], fact.currency)
<1>1. \A matched : Says(matched) # "error"
  BY DEF Says
<1>2. ASSUME node.field \notin MoneyFields PROVE FALSE
  <2> DEFINE trial == FieldValue(node, EmptyRequest, EmptyData)
             fact == FieldValue(node, req, data)
  <2>1. TrialFact(node) = trial
    BY <1>2 DEF TrialFact, MoneyFields
  <2>2. trial.type = fact.type
    BY <1>2, FactOfField
  <2>3. trial.type \in FactType \ {"money"}
    <3>1. trial.type \in FactType /\ trial.type = TypeOf(node.field)
      BY <1>2, FactOfField, FieldValueTyped
    <3>2. TypeOf(node.field) # "money"
      BY DEF TypeOf
    <3> QED
      BY <3>1, <3>2
  <2> HIDE DEF trial, fact
  <2>4. Compare(trial, node.op, node.value) = "error" <=> Compare(fact, node.op, node.value) = "error"
    BY <2>2, <2>3, FailureIsOfKind
  <2> QED
    BY <2>1, <2>4 DEF LeafOk, fact
<1>3. node.value[1] = "amount" /\ node.op \in Ordering \cup {"neq"}
  <2> DEFINE trial == Money(FALSE, Decimal(0, 0), "KWD")
  <2>1. TrialFact(node) = trial
    BY <1>2 DEF TrialFact, MoneyFields
  <2>2. trial.type = "money"
    BY DEF Money
  <2> HIDE DEF trial
  <2>3. CompareMoney(trial, node.op, node.value) # "error"
    BY <2>1, <2>2 DEF LeafOk, Compare
  <2> QED
    BY <2>3 DEF CompareMoney
<1>4. ASSUME NEW fact, fact.type = "money", Compare(fact, node.op, node.value) = "error"
      PROVE  fact.failed \/ ~Comparable(fact.amount, node.value[2], fact.currency)
  <2>1. CompareMoney(fact, node.op, node.value) = "error"
    BY <1>4 DEF Compare
  <2> QED
    BY <1>1, <1>3, <2>1 DEF CompareMoney
<1> QED
  BY <1>2, <1>3, <1>4

-----------------------------------------------------------------------------
(* The amounts that are added up.                                          *)
LEMMA AmountsTyped ==
  ASSUME NEW req, req.amount \in AmountText, NEW data, IsHistory(data.history)
  PROVE  /\ Texts(Amounts(req, data)) /\ Len(Amounts(req, data)) = Len(data.history) + 1
         /\ \A i \in DOMAIN data.history : Amounts(req, data)[i] = data.history[i].amount
         /\ Amounts(req, data)[Len(Amounts(req, data))] = req.amount
<1> DEFINE n == Len(data.history)
           amounts == Amounts(req, data)
<1>1. n \in Nat /\ DOMAIN data.history = 1 .. n /\ \A i \in 1 .. n : data.history[i].amount \in AmountText
  BY DEF IsHistory, IsList
<1>2. amounts = [i \in 1 .. n + 1 |-> IF i <= n THEN data.history[i].amount ELSE req.amount]
  BY DEF Amounts
<1> HIDE DEF amounts, n
<1>3. \A i \in 1 .. n + 1 : amounts[i] \in AmountText
  BY <1>1, <1>2
<1>4. amounts \in Seq(AmountText)
  <2>1. amounts \in [1 .. n + 1 -> AmountText]
    BY <1>2, <1>3
  <2>2. n + 1 \in Nat
    BY <1>1
  <2> QED
    BY <2>1, <2>2, SeqDef
<1>5. Len(amounts) \in Nat /\ DOMAIN amounts = 1 .. Len(amounts)
  BY <1>4, LenProperties
<1>6. DOMAIN amounts = 1 .. n + 1
  BY <1>2
<1>7. Len(amounts) = n + 1
  <2> DEFINE l == Len(amounts)
  <2>1. l \in Nat /\ 1 .. l = 1 .. n + 1
    BY <1>5, <1>6
  <2> HIDE DEF l
  <2>2. n + 1 \in 1 .. l
    BY <1>1, <2>1
  <2>3. n + 1 <= l /\ l \in 1 .. l
    BY <1>1, <2>1, <2>2
  <2>4. l \in 1 .. n + 1
    BY <2>1, <2>3
  <2>5. l = n + 1
    BY <1>1, <2>3, <2>4
  <2> QED
    BY <2>5 DEF l
<1>8. /\ \A i \in 1 .. n : amounts[i] = data.history[i].amount
      /\ amounts[n + 1] = req.amount
  BY <1>1, <1>2
<1> QED
  BY <1>1, <1>3, <1>5, <1>6, <1>7, <1>8 DEF Texts, amounts, n

LEMMA PairTyped ==
  ASSUME NEW a \in AmountText, NEW b \in AmountText
  PROVE  Texts(<<a, b>>) /\ Len(<<a, b>>) = 2 /\ {1, 2} \subseteq DOMAIN <<a, b>>
BY DEF Texts

LEMMA MetricAmountTyped ==
  ASSUME NEW text \in AmountText
  PROVE  MetricAmount(text) \in AmountText
BY DEF MetricAmount, AmountText, Decimal

(* Money that can be had and compared.                                     *)
Usable(fact, currency) ==
  fact.type = "money" /\ ~fact.failed /\ fact.currency = currency /\ AggregateAmountOk(fact.amount, currency)

LEMMA MoneyIsUsable ==
  ASSUME NEW amount, NEW currency, AggregateAmountOk(amount, currency), NEW failed, ~failed
  PROVE  Usable(Money(failed, amount, currency), currency)
BY DEF Usable, Money

LEMMA MetricsAreUsable ==
  ASSUME NEW metrics, NEW req, req.amount \in AmountText, metrics.currency = req.currency,
         NEW sum \in AmountText, ~SumUnfit(req, sum), TransferAmountOk(req.amount, req.currency),
         NEW current
  PROVE  Usable(MetricMoney(metrics, req, sum, current), req.currency)
<1> DEFINE pair == <<MetricAmount(sum), req.amount>>
           total == AddAmounts(req.currency, pair, {1, 2})
<1>1. ~total.failed
  BY DEF SumUnfit
<1>2. Texts(pair) /\ {1, 2} \subseteq DOMAIN pair
  BY MetricAmountTyped, PairTyped
<1>3. pair[1] = MetricAmount(sum)
  OBVIOUS
<1>4. MetricMoney(metrics, req, sum, current) =
        IF ~current \/ req.amount = Blank THEN Money(FALSE, MetricAmount(sum), req.currency)
        ELSE Money(total.failed, total.amount, req.currency)
  BY DEF MetricMoney
<1> HIDE DEF pair
<1>5. /\ Addable(req.currency, pair, {1, 2})
      /\ AggregateAmountOk(total.amount, req.currency)
  BY <1>1, <1>2, SumsStandFor
<1>6. AggregateAmountOk(MetricAmount(sum), req.currency)
  BY <1>3, <1>5 DEF Addable
<1> HIDE DEF total
<1>7. /\ Usable(Money(FALSE, MetricAmount(sum), req.currency), req.currency)
      /\ Usable(Money(total.failed, total.amount, req.currency), req.currency)
  BY <1>1, <1>5, <1>6, MoneyIsUsable
<1> QED
  BY <1>4, <1>7

LEMMA HistoryIsUsable ==
  ASSUME NEW req, req.amount \in AmountText, NEW data, IsHistory(data.history), ~Unfit(req, data),
         NEW at, at \subseteq DOMAIN data.history, NEW current
  PROVE  Usable(HistoryAmount(req, data, at, current), req.currency)
<1> DEFINE amounts == Amounts(req, data)
           alike == SameCurrency(DOMAIN data.history, req, data) \cup {Len(amounts)}
           adding == SameCurrency(at, req, data) \cup (IF current THEN {Len(amounts)} ELSE {})
           sum == AddAmounts(req.currency, amounts, adding)
<1>1. /\ \A i \in alike : TransferAmountOk(amounts[i], req.currency)
      /\ ~AddAmounts(req.currency, amounts, alike).failed
  BY DEF Unfit
<1>2. adding \subseteq alike
  BY DEF SameCurrency
<1>3. Texts(amounts) /\ Len(amounts) = Len(data.history) + 1
  BY AmountsTyped
<1>4. alike \subseteq DOMAIN amounts
  <2>1. Len(data.history) \in Nat /\ DOMAIN data.history = 1 .. Len(data.history)
    BY DEF IsHistory, IsList
  <2>2. DOMAIN amounts = 1 .. Len(data.history) + 1
    BY <1>3 DEF Texts
  <2>3. DOMAIN data.history \subseteq DOMAIN amounts /\ Len(data.history) + 1 \in DOMAIN amounts
    BY <2>1, <2>2
  <2>4. SameCurrency(DOMAIN data.history, req, data) \subseteq DOMAIN data.history
    BY DEF SameCurrency
  <2> QED
    BY <1>3, <2>3, <2>4
<1>5. HistoryAmount(req, data, at, current) =
        IF \E i \in adding : ~TransferAmountOk(amounts[i], req.currency)
        THEN Money(TRUE, Blank, req.currency) ELSE Money(sum.failed, sum.amount, req.currency)
  BY DEF HistoryAmount
<1> HIDE DEF amounts, alike, adding
<1>6. ~sum.failed /\ AggregateAmountOk(sum.amount, req.currency)
  BY <1>1, <1>2, <1>3, <1>4, SumsStandFor
<1> HIDE DEF sum
<1>7. HistoryAmount(req, data, at, current) = Money(sum.failed, sum.amount, req.currency)
  BY <1>1, <1>2, <1>5
<1> QED
  BY <1>6, <1>7, MoneyIsUsable

(* The data behind a leaf about money can be used in the currency.         *)
Sound(node, req, data) ==
  /\ TransferAmountOk(req.amount, req.currency)
  /\ node.field \in SumFields =>
       IF HasMetrics(node, data)
       THEN LET metrics == MetricsFor(node, data)
            IN  /\ metrics.currency = req.currency
                /\ ~SumUnfit(req, metrics.debtorSum) /\ ~SumUnfit(req, metrics.creditorSum)
       ELSE ~Unfit(req, data)

LEMMA MoneyIsThere ==
  ASSUME NEW req, req.amount \in AmountText, NEW data, IsData(data),
         NEW node, node.field \in MoneyFields, Sound(node, req, data)
  PROVE  Usable(FieldValue(node, req, data), req.currency)
<1> DEFINE fact == FieldValue(node, req, data)
           metrics == MetricsFor(node, data)
           at == HistoryWindow(node, req, data)
           cat == CreditorHistoryWindow(node, req, data)
<1>1. CASE node.field \in {"amount", "instructed_amount.amount"}
  <2>1. fact = Money(~TransferAmountOk(req.amount, req.currency), req.amount, req.currency)
    BY <1>1 DEF FieldValue, RequestField, VelocityFields, SumFields, FirstTimeFields
  <2>2. AggregateAmountOk(req.amount, req.currency)
    BY TransferIsAggregate DEF Sound
  <2> DEFINE failed == ~TransferAmountOk(req.amount, req.currency)
  <2>3. ~failed
    BY DEF Sound
  <2> HIDE DEF failed
  <2>4. Usable(Money(failed, req.amount, req.currency), req.currency)
    BY <2>2, <2>3, MoneyIsUsable
  <2> QED
    BY <2>1, <2>4 DEF failed
<1>2. CASE node.field \in SumFields
  <2>1. fact = Velocity(node, req, data)
    BY <1>2 DEF FieldValue, RequestField, VelocityFields, SumFields, FirstTimeFields
  <2>2. CASE HasMetrics(node, data)
    <3>1. /\ metrics.currency = req.currency
          /\ ~SumUnfit(req, metrics.debtorSum) /\ ~SumUnfit(req, metrics.creditorSum)
      BY <1>2, <2>2 DEF Sound
    <3>2. metrics.debtorSum \in AmountText /\ metrics.creditorSum \in AmountText
      BY <2>2 DEF IsData, IsMetrics, HasMetrics, MetricsFor
    <3>3. \/ Velocity(node, req, data) = MetricMoney(metrics, req, metrics.debtorSum, FALSE)
          \/ Velocity(node, req, data) = MetricMoney(metrics, req, metrics.debtorSum, TRUE)
          \/ Velocity(node, req, data) = MetricMoney(metrics, req, metrics.creditorSum, TRUE)
      BY <1>2, <2>2 DEF Velocity, SumFields
    <3> HIDE DEF metrics, fact
    <3>4. \A current : /\ Usable(MetricMoney(metrics, req, metrics.debtorSum, current), req.currency)
                       /\ Usable(MetricMoney(metrics, req, metrics.creditorSum, current), req.currency)
      BY <3>1, <3>2, MetricsAreUsable DEF Sound
    <3> QED
      BY <2>1, <3>3, <3>4 DEF fact
  <2>3. CASE ~HasMetrics(node, data)
    <3>1. ~Unfit(req, data)
      BY <1>2, <2>3 DEF Sound
    <3>2. \/ Velocity(node, req, data) = HistoryAmount(req, data, at, FALSE)
          \/ Velocity(node, req, data) = HistoryAmount(req, data, at, TRUE)
          \/ Velocity(node, req, data) = HistoryAmount(req, data, cat, TRUE)
      BY <1>2, <2>3 DEF Velocity, SumFields
    <3>3. at \subseteq DOMAIN data.history /\ cat \subseteq DOMAIN data.history
      BY DEF HistoryWindow, CreditorHistoryWindow
    <3> HIDE DEF at, cat, fact
    <3>4. \A current : /\ Usable(HistoryAmount(req, data, at, current), req.currency)
                       /\ Usable(HistoryAmount(req, data, cat, current), req.currency)
      BY <3>1, <3>3, HistoryIsUsable DEF IsData
    <3> QED
      BY <2>1, <3>2, <3>4 DEF fact
  <2> QED
    BY <2>2, <2>3
<1> QED
  BY <1>1, <1>2 DEF MoneyFields

(* A leaf that the trial let through fails only where its data or its      *)
(* value do not fit the currency.                                          *)
LEMMA LeafFailsOnData ==
  ASSUME NEW req, req.amount \in AmountText, NEW data, IsData(data), NEW node, LeafOk(node),
         Compare(FieldValue(node, req, data), node.op, node.value) = "error"
  PROVE  /\ node.field \in MoneyFields
         /\ \/ ~Sound(node, req, data)
            \/ node.value[1] = "amount" /\ ~AggregateAmountOk(node.value[2], req.currency)
<1> DEFINE fact == FieldValue(node, req, data)
<1>1. /\ node.field \in MoneyFields /\ node.value[1] = "amount"
      /\ fact.type = "money" => fact.failed \/ ~Comparable(fact.amount, node.value[2], fact.currency)
  BY TrialTells
<1>2. ASSUME Sound(node, req, data) PROVE ~AggregateAmountOk(node.value[2], req.currency)
  <2>1. Usable(fact, req.currency)
    BY <1>1, <1>2, MoneyIsThere
  <2> HIDE DEF fact
  <2> QED
    BY <1>1, <2>1 DEF Usable, Comparable
<1> QED
  BY <1>1, <1>2

-----------------------------------------------------------------------------
(* What is checked is a request, whichever way it came, and the data are   *)
(* data.                                                                   *)
LEMMA ImportsAmount ==
  ASSUME NEW doc, IsDocument(doc), NEW key, NEW req \in ParsePacs008(doc, key, "last")
  PROVE  IsRequest(req)
<1> DEFINE money == TransferAmount(doc, "last")
<1>1. Decodes(doc) /\ req = RequestOf(doc, key, "last")
  BY DEF ParsePacs008
<1>2. "amount" \in DOMAIN req /\ req.amount = CanonicalAmount(money.amount)
  BY <1>1 DEF RequestOf
<1>3. \A path \in SingleValuePaths : AmountAt(doc, path, "last") \in AmountText
  <2> SUFFICES ASSUME NEW path \in SingleValuePaths PROVE AmountAt(doc, path, "last") \in AmountText
    OBVIOUS
  <2> DEFINE at == Occurrences(doc, path)
  <2>1. CASE at = {}
    BY <2>1 DEF AmountAt, Blank, AmountText
  <2>2. CASE at # {}
    <3>1. PICK i \in DOMAIN doc.elements : at = {i}
      <4>1. IsFiniteSet(at) /\ Cardinality(at) <= 1
        BY <1>1, OccurrencesFinite DEF Decodes
      <4>2. PICK i : at = {i}
        <5> HIDE DEF at
        <5>1. Cardinality(at) \in Nat /\ Cardinality(at) # 0
          BY <2>2, <4>1, FS_CardinalityType, FS_EmptySet
        <5>2. Cardinality(at) = 1
          BY <4>1, <5>1
        <5> QED
          BY <4>1, <5>2, FS_Singleton
      <4> QED
        BY <4>2 DEF Occurrences
    <3>2. i \in Int
      BY DEF IsDocument, IsList
    <3> HIDE DEF at
    <3>3. Max(at) = i
      BY <3>1, <3>2 DEF Max
    <3>4. AmountAt(doc, path, "last") = doc.elements[i].amount
      BY <2>2, <3>3 DEF AmountAt, Taken, at
    <3> QED
      BY <3>4 DEF IsDocument
  <2> QED
    BY <2>1, <2>2
<1>4. \A text \in AmountText : Trimmed(text) \in AmountText
  BY DEF Trimmed, AmountText
<1>5. money.amount \in AmountText
  <2>1. /\ AmountAt(doc, Transaction \o <<"IntrBkSttlmAmt">>, "last") \in AmountText
        /\ AmountAt(doc, Transaction \o <<"InstdAmt">>, "last") \in AmountText
    BY <1>3, MappedOnce
  <2> QED
    BY <1>4, <2>1 DEF TransferAmount
<1> HIDE DEF money
<1> QED
  BY <1>2, <1>5, CanonicalIsSame DEF IsRequest

LEMMA ReadsRequests ==
  ASSUME NEW msg,
         IF msg.kind = "iso20022" THEN IsDocument(msg.body) ELSE \A r \in msg.body : IsRequest(r),
         NEW req \in Read(msg)
  PROVE  IsRequest(req)
<1>1. CASE msg.kind = "iso20022"
  BY <1>1, ImportsAmount DEF Read
<1>2. CASE msg.kind # "iso20022"
  <2>1. PICK r \in msg.body : req = [r EXCEPT !.key = IF @ = "" THEN Trim(msg.keyHeader) ELSE @]
    BY <1>2 DEF Read
  <2>2. IsRequest(r)
    BY <1>2
  <2> QED
    BY <2>1, <2>2 DEF IsRequest
<1> QED
  BY <1>1, <1>2

Inputs ==
  /\ phase = "received" =>
       IF message.kind = "iso20022" THEN IsDocument(message.body)
       ELSE \A r \in message.body : IsRequest(r)
  /\ phase = "accepted" \/ Answered => IsRequest(request)
  /\ IsHistory(recorded) /\ IsData(context.data)

LEMMA InputsHold == Spec => []Inputs
<1>1. Init => Inputs
  BY DEF Init, Inputs, Answered
<1>2. ASSUME Inputs, [Next]_vars PROVE Inputs'
  <2>1. CASE Unauthorized
    BY <1>2, <2>1 DEF Inputs, Unauthorized, Respond, Answered
  <2>2. CASE BadRequest
    BY <1>2, <2>2 DEF Inputs, BadRequest, Respond, Answered
  <2>3. CASE Accept
    <3>1. request' \in Read(message)
      BY <2>3 DEF Accept
    <3>2. IsRequest(request')
      BY <1>2, <2>3, <3>1, ReadsRequests DEF Inputs, Accept
    <3>3. phase' = "accepted" /\ recorded' = recorded /\ context' = context
      BY <2>3 DEF Accept
    <3> QED
      BY <1>2, <3>2, <3>3 DEF Inputs
  <2>4. CASE CheckWithContext
    BY <1>2, <2>4 DEF Inputs, CheckWithContext, Respond, Answered
  <2>5. CASE UNCHANGED vars
    BY <1>2, <2>5 DEF Inputs, vars, Answered
  <2> QED
    BY <1>2, <2>1, <2>2, <2>3, <2>4, <2>5 DEF Next
<1> QED
  BY <1>1, <1>2, PTL DEF Spec

LEMMA DataTyped ==
  ASSUME Inputs
  PROVE  IsData(DataOf)
<1> DEFINE data == context.data
<1>1. IsData(data) /\ IsHistory(recorded)
  BY DEF Inputs
<1> HIDE DEF data
<1>2. IsData([data EXCEPT !.history = recorded])
  BY <1>1 DEF IsData, EmptyData
<1> QED
  BY <1>1, <1>2 DEF DataOf, data

(* A rule that was accepted when it was installed fails on no transfer     *)
(* that could be judged: only where an amount, a threshold, a recorded     *)
(* amount or a supplied sum cannot be used in the transfer's currency      *)
(* (rules.go:190-225, 549-572).                                            *)
THEOREM FailuresAreOfData == Spec => []FailsOnlyOnData
<1>1. ASSUME Installed, Inputs PROVE FailsOnlyOnData
  <2> SUFFICES ASSUME Answered, NEW i \in DOMAIN installed, Validate(installed[i]), Verdicts[i] = "error"
               PROVE  \E n \in MoneyLeaves(installed[i].tree) :
                        \/ ~TransferAmountOk(request.amount, request.currency)
                        \/ /\ installed[i].tree[n].value[1] = "amount"
                           /\ ~AggregateAmountOk(installed[i].tree[n].value[2], request.currency)
                        \/ /\ installed[i].tree[n].field \in SumFields
                           /\ IF HasMetrics(installed[i].tree[n], DataOf)
                              THEN LET metrics == MetricsFor(installed[i].tree[n], DataOf)
                                   IN  \/ metrics.currency # request.currency
                                       \/ SumUnfit(request, metrics.debtorSum)
                                       \/ SumUnfit(request, metrics.creditorSum)
                              ELSE Unfit(request, DataOf)
    BY DEF FailsOnlyOnData
  <2> DEFINE tree == installed[i].tree
             data == DataOf
             custom == [n \in DOMAIN tree |-> "unhandled"]
             said == LeavesSay(tree, request, data, custom)
  <2>1. IsCondition(tree) /\ ValidCondition(tree)
    BY <1>1 DEF Installed, Validate
  <2>2. EvaluateLeaves(tree, request, data, custom) = "error"
    BY DEF Verdicts, EvaluateWithContext
  <2>3. IsRequest(request) /\ IsData(data)
    BY <1>1, DataTyped DEF Inputs
  <2> HIDE DEF tree, data
  <2>4. \A n \in Leaves(tree) : custom[n] = "unhandled"
    BY DEF Leaves
  <2> HIDE DEF custom
  <2>5. said \in [Leaves(tree) -> Verdict]
    BY <2>4, LeafVerdictTyped DEF LeavesSay
  <2>6. PICK f \in Leaves(tree) : said[f] = "error"
    <3> HIDE DEF said
    <3>1. \E f \in Leaves(tree) : said[f] = "error" /\ Matters(tree, said, f)
      BY <2>1, <2>2, <2>5, TreeExplained DEF said
    <3> QED
      BY <3>1
  <2>7. Compare(FieldValue(tree[f], request, data), tree[f].op, tree[f].value) = "error"
    BY <2>4, <2>6 DEF LeavesSay, LeafVerdict
  <2>8. LeafOk(tree[f])
    BY <2>1 DEF ValidCondition, Leaves
  <2>9. /\ tree[f].field \in MoneyFields
        /\ \/ ~Sound(tree[f], request, data)
           \/ tree[f].value[1] = "amount" /\ ~AggregateAmountOk(tree[f].value[2], request.currency)
    BY <2>3, <2>7, <2>8, LeafFailsOnData DEF IsRequest
  <2>10. f \in MoneyLeaves(tree)
    BY <2>9 DEF MoneyLeaves, MoneyFields
  <2>11. \/ ~TransferAmountOk(request.amount, request.currency)
         \/ tree[f].value[1] = "amount" /\ ~AggregateAmountOk(tree[f].value[2], request.currency)
         \/ /\ tree[f].field \in SumFields
            /\ IF HasMetrics(tree[f], data)
               THEN LET metrics == MetricsFor(tree[f], data)
                    IN  \/ metrics.currency # request.currency
                        \/ SumUnfit(request, metrics.debtorSum)
                        \/ SumUnfit(request, metrics.creditorSum)
               ELSE Unfit(request, data)
    BY <2>9 DEF Sound
  <2> QED
    BY <2>10, <2>11 DEF tree, data
<1>2. Inv /\ Inputs => FailsOnlyOnData
  BY <1>1 DEF Inv
<1> QED
  BY <1>2, InvHolds, InputsHold, PTL

-----------------------------------------------------------------------------
(* Where the leaves say the same of two sets of data, the rule does.       *)
LEMMA SameLeavesSameVerdict ==
  ASSUME NEW tree, IsCondition(tree), NEW req, NEW data, NEW other, NEW custom,
         \A n \in Leaves(tree) : custom[n] \in Verdict \cup {"unhandled"},
         \A n \in Leaves(tree) : LeafVerdict(tree[n], req, data, custom[n])
                                   = LeafVerdict(tree[n], req, other, custom[n])
  PROVE  EvaluateLeaves(tree, req, data, custom) = EvaluateLeaves(tree, req, other, custom)
<1> DEFINE said == LeavesSay(tree, req, data, custom)
           D == DOMAIN tree
           size == Len(tree)
<1>1. said = LeavesSay(tree, req, other, custom)
  BY DEF LeavesSay
<1>2. said \in [Leaves(tree) -> Verdict]
  <2>1. \A n \in Leaves(tree) : LeafVerdict(tree[n], req, data, custom[n]) \in Verdict
    BY LeafVerdictTyped
  <2> QED
    BY <2>1 DEF LeavesSay
<1>3. PICK g : IsRun(tree, Verdict, said, g) /\ EvaluateLeaves(tree, req, data, custom) = g[1]
  BY <1>2, EvaluationIsRun
<1>4. PICK h : IsRun(tree, Verdict, said, h) /\ EvaluateLeaves(tree, req, other, custom) = h[1]
  BY <1>1, <1>2, EvaluationIsRun
<1> DEFINE T == {n \in D : g[n] = h[n]}
<1>5. size \in Nat /\ D \in SUBSET (1 .. size)
  BY DEF IsCondition
<1> HIDE DEF said
<1>6. ASSUME NEW n \in D, \A m \in D : m > n => m \in T PROVE n \in T
  <2>1. \A m \in DOMAIN tree : m > n => g[m] = h[m]
    BY <1>6
  <2>2. NodeSays(tree, said, n, g) = NodeSays(tree, said, n, h)
    BY <2>1, SameKidsSaySame
  <2>3. g[n] = NodeSays(tree, said, n, g) /\ h[n] = NodeSays(tree, said, n, h)
    BY <1>3, <1>4 DEF IsRun
  <2> QED
    BY <2>2, <2>3
<1>7. 1 \in D
  BY RootClosed
<1> HIDE DEF D, T, size
<1>8. \A n \in D : n \in T
  BY <1>5, <1>6, InductionFromAbove
<1>9. 1 \in T
  BY <1>7, <1>8
<1> QED
  BY <1>3, <1>4, <1>9 DEF T

(* The last amount of a list is added to the total of those before it.     *)
LEMMA TotalWithLast ==
  ASSUME NEW currency, NEW amounts, Texts(amounts), Len(amounts) # 0,
         NEW adding, adding \subseteq 1 .. Len(amounts) - 1,
         Addable(currency, amounts, adding \cup {Len(amounts)})
  PROVE  TotalUnits(currency, amounts, adding \cup {Len(amounts)})
           = TotalUnits(currency, amounts, adding) + MinorUnits(amounts[Len(amounts)], currency)
<1> DEFINE n == Len(amounts)
           all == adding \cup {n}
<1>1. Addable(currency, amounts, adding)
  BY DEF Addable
<1>2. PICK f : IsTotal(currency, amounts, adding, f)
  BY <1>1, TotalsExist
<1>3. PICK m : IsTotal(currency, amounts, all, m)
  BY TotalsExist
<1> DEFINE T == {i \in 0 .. n - 1 : f[i] = m[i]}
<1>4. n \in Nat /\ n - 1 \in Nat
  BY DEF Texts
<1>5. \A i \in 1 .. n - 1 : UnitsAt(currency, amounts, adding, i) = UnitsAt(currency, amounts, all, i)
  <2>1. \A i \in 1 .. n - 1 : i # n
    BY <1>4
  <2> QED
    BY <2>1 DEF UnitsAt
<1>6. /\ UnitsAt(currency, amounts, adding, n) = 0
      /\ UnitsAt(currency, amounts, all, n) = MinorUnits(amounts[n], currency)
  <2>1. n \notin adding
    BY <1>4
  <2> QED
    BY <2>1 DEF UnitsAt
<1>7. /\ f \in [0 .. n -> Nat] /\ m \in [0 .. n -> Nat] /\ f[0] = 0 /\ m[0] = 0
      /\ \A i \in 1 .. n : f[i] = f[i - 1] + UnitsAt(currency, amounts, adding, i)
      /\ \A i \in 1 .. n : m[i] = m[i - 1] + UnitsAt(currency, amounts, all, i)
      /\ TotalUnits(currency, amounts, adding) = f[n] /\ TotalUnits(currency, amounts, all) = m[n]
  BY <1>2, <1>3 DEF IsTotal
<1>8. MinorUnits(amounts[n], currency) \in Nat
  <2>1. amounts[n] \in AmountText /\ AggregateAmountOk(amounts[n], currency)
    BY DEF Texts, Addable
  <2> QED
    BY <2>1, MinorUnitsTyped
<1> HIDE DEF n, all
<1>9. 0 \in T
  BY <1>4, <1>7
<1>10. ASSUME NEW i \in 0 .. n - 1, i \in T, i < n - 1 PROVE i + 1 \in T
  <2>1. i + 1 \in 1 .. n /\ i + 1 \in 1 .. n - 1 /\ (i + 1) - 1 = i /\ i + 1 \in 0 .. n - 1
    BY <1>4, <1>10
  <2>2. f[i + 1] = m[i + 1]
    BY <1>5, <1>7, <1>10, <2>1
  <2> QED
    BY <2>1, <2>2
<1> HIDE DEF T
<1>11. \A i \in 0 .. n - 1 : i \in T
  BY <1>4, <1>9, <1>10, Induction
<1>12. f[n - 1] = m[n - 1] /\ f[n - 1] \in Nat
  <2>1. n - 1 \in 0 .. n - 1 /\ n - 1 \in 0 .. n
    BY <1>4
  <2> QED
    BY <1>7, <1>11, <2>1 DEF T
<1>13. n \in 1 .. n
  BY <1>4
<1>14. f[n] = f[n - 1] + 0 /\ m[n] = m[n - 1] + MinorUnits(amounts[n], currency)
  BY <1>6, <1>7, <1>13
<1>15. m[n] = f[n] + MinorUnits(amounts[n], currency)
  BY <1>8, <1>12, <1>14
<1> QED
  BY <1>7, <1>15 DEF n, all

LEMMA TotalOfPair ==
  ASSUME NEW currency, NEW a \in AmountText, NEW b \in AmountText,
         AggregateAmountOk(a, currency), AggregateAmountOk(b, currency)
  PROVE  TotalUnits(currency, <<a, b>>, {1, 2}) = MinorUnits(a, currency) + MinorUnits(b, currency)
<1> DEFINE pair == <<a, b>>
           both == {1, 2}
<1>1. Texts(pair) /\ Len(pair) = 2 /\ both \subseteq DOMAIN pair
  BY PairTyped
<1>2. pair[1] = a /\ pair[2] = b
  OBVIOUS
<1>3. Addable(currency, pair, both)
  BY <1>1, <1>2 DEF Addable
<1>4. 1 \in both /\ 2 \in both
  OBVIOUS
<1>5. MinorUnits(a, currency) \in Nat /\ MinorUnits(b, currency) \in Nat
  BY MinorUnitsTyped
<1> HIDE DEF pair, both
<1>6. PICK t : IsTotal(currency, pair, both, t)
  BY <1>1, <1>3, TotalsExist
<1>7. /\ t[0] = 0 /\ TotalUnits(currency, pair, both) = t[2]
      /\ \A i \in 1 .. 2 : t[i] = t[i - 1] + UnitsAt(currency, pair, both, i)
  BY <1>1, <1>6 DEF IsTotal
<1>8. t[1] = t[0] + UnitsAt(currency, pair, both, 1) /\ t[2] = t[1] + UnitsAt(currency, pair, both, 2)
  <2>1. 1 \in 1 .. 2 /\ 2 \in 1 .. 2 /\ 1 - 1 = 0 /\ 2 - 1 = 1
    OBVIOUS
  <2> QED
    BY <1>7, <2>1
<1>9. /\ UnitsAt(currency, pair, both, 1) = MinorUnits(a, currency)
      /\ UnitsAt(currency, pair, both, 2) = MinorUnits(b, currency)
  BY <1>2, <1>4 DEF UnitsAt
<1>10. t[2] = MinorUnits(a, currency) + MinorUnits(b, currency)
  BY <1>5, <1>7, <1>8, <1>9
<1> QED
  BY <1>7, <1>10 DEF pair, both

(* A total in the smallest unit, written as an amount.                     *)
LEMMA TotalAsAmount ==
  ASSUME NEW currency \in DOMAIN Scale, NEW units \in Nat
  PROVE  LET text == Decimal(units, Scale[currency])
         IN  /\ text \in AmountText /\ text # Blank
             /\ AggregateAmountOk(text, currency) <=> units < PowerOfTen[AggregateDigits + Scale[currency]]
             /\ MinorUnits(text, currency) = units
<1> DEFINE text == Decimal(units, Scale[currency])
<1>1. Scale[currency] \in Nat
  BY ScaleAssumption
<1>2. /\ text \in AmountText /\ text.plain /\ ~text.padded
      /\ text.units = units /\ text.places = Scale[currency]
  BY <1>1 DEF Decimal, AmountText
<1>3. ~Blank.plain
  BY DEF Blank
<1> HIDE DEF text
<1>4. text # Blank
  BY <1>2, <1>3
<1>5. AggregateAmountOk(text, currency) <=> units < PowerOfTen[AggregateDigits + Scale[currency]]
  <2>1. Scale[currency] <= Scale[currency]
    BY <1>1
  <2> QED
    BY <1>2, <2>1 DEF AggregateAmountOk, CanonicalAmountOk
<1>6. MinorUnits(text, currency) = units
  <2>1. Scale[currency] - text.places = 0
    BY <1>1, <1>2
  <2>2. MinorUnits(text, currency) = units * 1
    BY <1>2, <2>1, PowersExist DEF MinorUnits
  <2> QED
    BY <2>2
<1> QED
  BY <1>2, <1>4, <1>5, <1>6 DEF text

(* There is a history and nothing else, and all of it that is in the       *)
(* transfer's currency can be used.                                        *)
Steady(req, data) ==
  /\ ~data.metrics.loaded /\ DOMAIN data.metricsByWindow = {}
  /\ TransferAmountOk(req.amount, req.currency)
  /\ \A j \in DOMAIN data.history :
       EqualFold(data.history[j].currency, req.currency) =>
         TransferAmountOk(data.history[j].amount, req.currency)

(* The sum over some recorded transfers, as an amount.                     *)
SumOver(req, data, at) ==
  Decimal(TotalUnits(req.currency, Amounts(req, data), SameCurrency(at, req, data)), Scale[req.currency])

(* The supplied sum says what the history does, without the current amount *)
(* and with it.                                                            *)
Alike(metrics, req, data, at, sum, op, value) ==
  /\ Compare(HistoryAmount(req, data, at, FALSE), op, value)
       = Compare(MetricMoney(metrics, req, sum, FALSE), op, value)
  /\ HistoryAmount(req, data, at, TRUE) = MetricMoney(metrics, req, sum, TRUE)

LEMMA SumsAgree ==
  ASSUME NEW req, req.amount \in AmountText, NEW data, IsData(data), Steady(req, data),
         NEW at, at \subseteq DOMAIN data.history,
         NEW metrics, metrics.currency = req.currency, NEW op, NEW value
  PROVE  Alike(metrics, req, data, at, SumOver(req, data, at), op, value)
<1> DEFINE currency == req.currency
           amounts == Amounts(req, data)
           last == Len(amounts)
           ours == SameCurrency(at, req, data)
           total == TotalUnits(currency, amounts, ours)
           text == SumOver(req, data, at)
           own == MinorUnits(req.amount, currency)
           limit == PowerOfTen[AggregateDigits + Scale[currency]]
           Made(units) == LET t == Decimal(units, Scale[currency])
                          IN  IF AggregateAmountOk(t, currency) THEN TotalText(CanonicalAmount(t)) ELSE NoTotal
<1>1. /\ Texts(amounts) /\ last = Len(data.history) + 1 /\ amounts[last] = req.amount
      /\ \A i \in DOMAIN data.history : amounts[i] = data.history[i].amount
  BY AmountsTyped DEF IsData
<1>2. Len(data.history) \in Nat /\ DOMAIN data.history = 1 .. Len(data.history)
  BY DEF IsData, IsHistory, IsList
<1>3. currency \in DOMAIN Scale /\ AggregateAmountOk(req.amount, currency) /\ TransferAmountOk(req.amount, currency)
  BY TransferIsAggregate DEF Steady, TransferAmountOk, CanonicalAmountOk
<1>4. \A i \in ours : i \in DOMAIN data.history /\ TransferAmountOk(data.history[i].amount, currency)
  BY DEF SameCurrency, Steady
<1> HIDE DEF amounts, ours, currency
<1>5. ours \subseteq 1 .. last - 1 /\ last \in Nat /\ last # 0
  BY <1>1, <1>2, <1>4
<1>6. \A i \in ours \cup {last} : i \in DOMAIN amounts /\ TransferAmountOk(amounts[i], currency)
  <2>1. DOMAIN amounts = 1 .. last
    BY <1>1 DEF Texts
  <2> QED
    BY <1>1, <1>3, <1>4, <1>5, <2>1
<1>7. \A i \in ours \cup {last} : AggregateAmountOk(amounts[i], currency)
  BY <1>1, <1>6, TransferIsAggregate DEF Texts
<1>8. Addable(currency, amounts, ours) /\ Addable(currency, amounts, ours \cup {last})
  BY <1>6, <1>7 DEF Addable
<1>9. total \in Nat /\ own \in Nat
  BY <1>1, <1>3, <1>8, TotalsGrow, MinorUnitsTyped
<1>10. TotalUnits(currency, amounts, ours \cup {last}) = total + own
  BY <1>1, <1>5, <1>8, TotalWithLast
<1>11. /\ AddAmounts(currency, amounts, ours) = Made(total)
       /\ AddAmounts(currency, amounts, ours \cup {last}) = Made(total + own)
  BY <1>3, <1>7, <1>10 DEF AddAmounts, AmountFromMinorUnits
<1>12. /\ HistoryAmount(req, data, at, FALSE) = Money(Made(total).failed, Made(total).amount, currency)
       /\ HistoryAmount(req, data, at, TRUE) = Money(Made(total + own).failed, Made(total + own).amount, currency)
  <2>1. HistoryAmount(req, data, at, FALSE) =
          IF \E i \in ours \cup {} : ~TransferAmountOk(amounts[i], currency)
          THEN Money(TRUE, Blank, currency)
          ELSE Money(AddAmounts(currency, amounts, ours \cup {}).failed,
                     AddAmounts(currency, amounts, ours \cup {}).amount, currency)
    BY DEF HistoryAmount, amounts, ours, currency
  <2>2. HistoryAmount(req, data, at, TRUE) =
          IF \E i \in ours \cup {last} : ~TransferAmountOk(amounts[i], currency)
          THEN Money(TRUE, Blank, currency)
          ELSE Money(AddAmounts(currency, amounts, ours \cup {last}).failed,
                     AddAmounts(currency, amounts, ours \cup {last}).amount, currency)
    BY DEF HistoryAmount, amounts, ours, currency
  <2>3. ours \cup {} = ours
    OBVIOUS
  <2> HIDE DEF Made, last
  <2> QED
    BY <1>6, <1>11, <2>1, <2>2, <2>3
<1>13. /\ text \in AmountText /\ text # Blank
       /\ AggregateAmountOk(text, currency) <=> total < limit
       /\ MinorUnits(text, currency) = total
       /\ text = Decimal(total, Scale[currency])
  <2>1. text = Decimal(total, Scale[currency])
    BY DEF SumOver, amounts, ours, currency
  <2> HIDE DEF total, text
  <2> QED
    BY <1>3, <1>9, <2>1, TotalAsAmount
<1>14. req.amount # Blank
  BY <1>3 DEF TransferAmountOk, CanonicalAmountOk, Blank
<1>15. /\ MetricMoney(metrics, req, text, FALSE) = Money(FALSE, text, currency)
       /\ MetricMoney(metrics, req, text, TRUE) =
            Money(AddAmounts(currency, <<text, req.amount>>, {1, 2}).failed,
                  AddAmounts(currency, <<text, req.amount>>, {1, 2}).amount, currency)
  <2>1. MetricAmount(text) = text
    BY <1>13 DEF MetricAmount
  <2> HIDE DEF text
  <2> QED
    BY <1>3, <1>14, <2>1 DEF MetricMoney, currency
<1>16. AddAmounts(currency, <<text, req.amount>>, {1, 2}) = Made(total + own)
  <2>1. limit \in Nat
    <3>1. AggregateDigits + Scale[currency] \in Nat
      BY <1>3, ScaleAssumption, DigitsAssumption
    <3> QED
      BY <3>1, PowersPositive
  <2>2. CASE AggregateAmountOk(text, currency)
    <3>1. TotalUnits(currency, <<text, req.amount>>, {1, 2}) = total + own
      <4> HIDE DEF text, total, own
      <4>1. TotalUnits(currency, <<text, req.amount>>, {1, 2}) = MinorUnits(text, currency) + own
        BY <1>3, <1>13, <2>2, TotalOfPair DEF own
      <4> QED
        BY <1>13, <4>1
    <3>2. \A i \in {1, 2} : AggregateAmountOk(<<text, req.amount>>[i], currency)
      <4> HIDE DEF text
      <4> QED
        BY <1>3, <2>2
    <3> HIDE DEF text, total, own
    <3> QED
      BY <1>3, <3>1, <3>2 DEF AddAmounts, AmountFromMinorUnits
  <2>3. CASE ~AggregateAmountOk(text, currency)
    <3>1. AddAmounts(currency, <<text, req.amount>>, {1, 2}) = NoTotal
      <4>1. ~AggregateAmountOk(<<text, req.amount>>[1], currency)
        <5> HIDE DEF text
        <5> QED
          BY <2>3
      <4> HIDE DEF text
      <4>2. 1 \in {1, 2}
        OBVIOUS
      <4> QED
        BY <4>1, <4>2 DEF AddAmounts
    <3> HIDE DEF text, total, own, limit
    <3>2. ~(total + own < limit) /\ total + own \in Nat
      BY <1>9, <1>13, <2>1, <2>3
    <3>3. ~AggregateAmountOk(Decimal(total + own, Scale[currency]), currency)
      BY <1>3, <3>2, TotalAsAmount DEF limit
    <3> QED
      BY <3>1, <3>3
  <2> QED
    BY <2>2, <2>3
<1>17. Compare(Money(Made(total).failed, Made(total).amount, currency), op, value)
         = Compare(Money(FALSE, text, currency), op, value)
  <2>1. \A failed, amount : Compare(Money(failed, amount, currency), op, value) =
          CompareMoney(Money(failed, amount, currency), op, value)
    BY DEF Compare, Money
  <2>2. \A failed, amount : /\ Money(failed, amount, currency).failed = failed
                            /\ Money(failed, amount, currency).amount = amount
                            /\ Money(failed, amount, currency).currency = currency
    BY DEF Money
  <2> DEFINE c == CanonicalAmount(text)
  <2>3. CASE AggregateAmountOk(text, currency)
    <3>1. Made(total) = TotalText(c)
      <4> HIDE DEF text, total
      <4> QED
        BY <1>13, <2>3
    <3>2. Made(total).failed = FALSE /\ Made(total).amount = c
      <4> HIDE DEF Made, c, total
      <4> QED
        BY <3>1 DEF TotalText
    <3>3. AggregateAmountOk(c, currency) /\ MinorUnits(c, currency) = MinorUnits(text, currency)
      <4> HIDE DEF text
      <4> QED
        BY <1>13, <2>3, CanonicalIsSame
    <3> HIDE DEF Made, c, text, total
    <3>4. CompareMoney(Money(FALSE, c, currency), op, value) = CompareMoney(Money(FALSE, text, currency), op, value)
      <4>1. \A a : CompareMoney(Money(FALSE, a, currency), op, value) =
              (IF value[1] = "amount" /\ Comparable(a, value[2], currency) /\ op \in Ordering \cup {"neq"}
               THEN Says(Ordered(MinorUnits(a, currency), op, MinorUnits(value[2], currency)))
               ELSE "error")
        BY DEF CompareMoney, Money
      <4>2. Comparable(c, value[2], currency) <=> Comparable(text, value[2], currency)
        BY <2>3, <3>3 DEF Comparable
      <4> QED
        BY <3>3, <4>1, <4>2
    <3> QED
      BY <2>1, <3>2, <3>4
  <2>4. CASE ~AggregateAmountOk(text, currency)
    <3>1. Made(total) = NoTotal
      <4> HIDE DEF text, total
      <4> QED
        BY <1>13, <2>4
    <3>2. Made(total).failed = TRUE
      <4> HIDE DEF Made, total
      <4> QED
        BY <3>1 DEF NoTotal
    <3> HIDE DEF Made, text, total
    <3>3. CompareMoney(Money(TRUE, Made(total).amount, currency), op, value) = "error"
      BY <2>2 DEF CompareMoney
    <3>4. CompareMoney(Money(FALSE, text, currency), op, value) = "error"
      BY <2>2, <2>4 DEF CompareMoney, Comparable
    <3> QED
      BY <2>1, <3>2, <3>3, <3>4
  <2> QED
    BY <2>3, <2>4
<1> HIDE DEF Made, text, total, own, last, limit
<1>18. /\ Compare(HistoryAmount(req, data, at, FALSE), op, value)
            = Compare(MetricMoney(metrics, req, text, FALSE), op, value)
       /\ HistoryAmount(req, data, at, TRUE) = MetricMoney(metrics, req, text, TRUE)
  BY <1>12, <1>15, <1>16, <1>17
<1> QED
  BY <1>18 DEF text, Alike

-----------------------------------------------------------------------------
(* The data with aggregates of these windows in the place of the history.  *)
Aggregated(windows, req, data) ==
  [data EXCEPT !.history = <<>>,
     !.metricsByWindow = [window \in windows |-> Aggregates(window, req, data)]]

LEMMA AggregatedData ==
  ASSUME NEW windows, NEW req, NEW data, IsData(data)
  PROVE  LET other == Aggregated(windows, req, data)
         IN  /\ other.metricsByWindow = [window \in windows |-> Aggregates(window, req, data)]
             /\ \A f \in {"metrics", "debtorTier", "creditorTier", "debtorUpdatedAt",
                          "creditorUpdatedAt", "now"} : other[f] = data[f]
<1>1. {"history", "metrics", "metricsByWindow", "debtorTier", "creditorTier", "debtorUpdatedAt",
       "creditorUpdatedAt", "now"} \subseteq DOMAIN data
  BY DEF IsData, EmptyData
<1> DEFINE metrics == [window \in windows |-> Aggregates(window, req, data)]
<1>2. Aggregated(windows, req, data) = [data EXCEPT !.history = <<>>, !.metricsByWindow = metrics]
  BY DEF Aggregated
<1> HIDE DEF metrics
<1>3. /\ Aggregated(windows, req, data).metricsByWindow = metrics
      /\ \A f \in {"metrics", "debtorTier", "creditorTier", "debtorUpdatedAt", "creditorUpdatedAt", "now"} :
           Aggregated(windows, req, data)[f] = data[f]
  BY <1>1, <1>2
<1> QED
  BY <1>3 DEF metrics

(* The aggregates of the window a node states are what the node counts.    *)
LEMMA AggregatesCount ==
  ASSUME NEW node, Windowed(node), NEW req, req.amount \in AmountText,
         NEW data, IsData(data), Steady(req, data)
  PROVE  LET metrics == Aggregates(MetricWindow(node), req, data)
             at      == HistoryWindow(node, req, data)
         IN  /\ metrics.currency = req.currency
             /\ metrics.transferCount = Cardinality(at)
             /\ metrics.uniqueCreditors = UniqueCreditors(req, data, at)
             /\ metrics.repeatedAmounts = RepeatedAmountCount(req, data, at)
             /\ metrics.debtorSum = SumOver(req, data, at)
             /\ metrics.creditorSum = SumOver(req, data, CreditorHistoryWindow(node, req, data))
<1> DEFINE at == HistoryWindow(node, req, data)
           to == CreditorHistoryWindow(node, req, data)
           window == MetricWindow(node)
           debtors == {i \in DOMAIN data.history :
                         data.history[i].at >= data.now - window /\ data.history[i].debtor = req.debtor}
           creditors == {i \in DOMAIN data.history :
                           data.history[i].at >= data.now - window /\ data.history[i].creditor = req.creditor}
           repeated == {i \in SameCurrency(debtors, req, data) :
                          MinorUnits(data.history[i].amount, req.currency) = MinorUnits(req.amount, req.currency)}
           unique == Cardinality(({Trim(data.history[i].creditor) : i \in debtors} \cup {Trim(req.creditor)}) \ {""})
           previous == \E i \in DOMAIN data.history :
                         data.history[i].debtor = req.debtor /\ data.history[i].creditor = req.creditor
<1>1. window = Window(node)
  BY DEF MetricWindow
<1>2. debtors = at /\ creditors = to
  BY <1>1 DEF HistoryWindow, CreditorHistoryWindow, InWindow
<1>3. repeated = {i \in at : EqualAmounts(data.history[i].amount, data.history[i].currency, req)}
  <2>1. ASSUME NEW i \in DOMAIN data.history, EqualFold(data.history[i].currency, req.currency)
        PROVE  Comparable(data.history[i].amount, req.amount, req.currency)
    <3>1. data.history[i].amount \in AmountText
      BY DEF IsData, IsHistory
    <3> QED
      BY <2>1, <3>1, TransferIsAggregate DEF Steady, Comparable
  <2>2. at \subseteq DOMAIN data.history
    BY DEF HistoryWindow
  <2> HIDE DEF at, debtors
  <2> QED
    BY <1>2, <2>1, <2>2 DEF SameCurrency, EqualAmounts
<1>4. Aggregates(window, req, data) =
        [loaded |-> TRUE, currency |-> req.currency,
         transferCount |-> Cardinality(debtors),
         uniqueCreditors |-> unique, repeatedAmounts |-> Cardinality(repeated),
         debtorSum |-> SumOver(req, data, debtors), creditorSum |-> SumOver(req, data, creditors),
         hasPreviousCreditor |-> previous]
  BY DEF Aggregates, SumOver, SameCurrency
<1> HIDE DEF previous
<1>5. unique = UniqueCreditors(req, data, at)
  BY <1>2 DEF UniqueCreditors
<1> HIDE DEF at, to, window, debtors, creditors, repeated, unique
<1>6. LET metrics == Aggregates(window, req, data)
      IN  /\ metrics.currency = req.currency
          /\ metrics.transferCount = Cardinality(at)
          /\ metrics.uniqueCreditors = UniqueCreditors(req, data, at)
          /\ metrics.repeatedAmounts = Cardinality(repeated)
          /\ metrics.debtorSum = SumOver(req, data, at)
          /\ metrics.creditorSum = SumOver(req, data, to)
  BY <1>2, <1>4, <1>5
<1>7. Cardinality(repeated) = RepeatedAmountCount(req, data, at)
  BY <1>3 DEF RepeatedAmountCount
<1> QED
  BY <1>6, <1>7 DEF at, to, window

LEMMA AggregatesRemember ==
  ASSUME NEW window, NEW req, NEW data
  PROVE  Aggregates(window, req, data).hasPreviousCreditor <=> HasPreviousCreditor(req, data.history)
BY DEF Aggregates, HasPreviousCreditor

(* Whichever of the two a leaf looks at, it says the same.                 *)
LEMMA LeafAgrees ==
  ASSUME NEW windows, NEW req, req.amount \in AmountText,
         NEW data, IsData(data), Steady(req, data), NEW node,
         node.field \in VelocityFields \cup FirstTimeFields => MetricWindow(node) \in windows,
         node.field \in VelocityFields => Windowed(node),
         NEW op, NEW value
  PROVE  Compare(FieldValue(node, req, data), op, value)
           = Compare(FieldValue(node, req, Aggregated(windows, req, data)), op, value)
<1> DEFINE other == Aggregated(windows, req, data)
           metrics == Aggregates(MetricWindow(node), req, data)
           at == HistoryWindow(node, req, data)
           to == CreditorHistoryWindow(node, req, data)
<1>1. /\ other.metricsByWindow = [window \in windows |-> Aggregates(window, req, data)]
      /\ other.debtorTier = data.debtorTier /\ other.creditorTier = data.creditorTier
      /\ other.debtorUpdatedAt = data.debtorUpdatedAt /\ other.creditorUpdatedAt = data.creditorUpdatedAt
      /\ other.now = data.now
  BY AggregatedData
<1> HIDE DEF other
<1>2. ~HasMetrics(node, data)
  BY DEF Steady, HasMetrics
<1>3. ASSUME node.field \in VelocityFields \cup FirstTimeFields
      PROVE  HasMetrics(node, other) /\ MetricsFor(node, other) = metrics
  BY <1>1, <1>3 DEF HasMetrics, MetricsFor
<1>4. CASE node.field \in VelocityFields
  <2>1. /\ FieldValue(node, req, data) = Velocity(node, req, data)
        /\ FieldValue(node, req, other) = Velocity(node, req, other)
    BY <1>4 DEF FieldValue, VelocityFields, SumFields, FirstTimeFields, RequestField
  <2>2. /\ metrics.currency = req.currency
        /\ metrics.transferCount = Cardinality(at)
        /\ metrics.uniqueCreditors = UniqueCreditors(req, data, at)
        /\ metrics.repeatedAmounts = RepeatedAmountCount(req, data, at)
        /\ metrics.debtorSum = SumOver(req, data, at)
        /\ metrics.creditorSum = SumOver(req, data, to)
    BY <1>4, AggregatesCount
  <2>3. HasMetrics(node, other) /\ MetricsFor(node, other) = metrics
    BY <1>3, <1>4
  <2>4. at \subseteq DOMAIN data.history /\ to \subseteq DOMAIN data.history
    BY DEF HistoryWindow, CreditorHistoryWindow
  <2> HIDE DEF metrics, at, to
  <2>5. /\ Compare(HistoryAmount(req, data, at, FALSE), op, value)
             = Compare(MetricMoney(metrics, req, metrics.debtorSum, FALSE), op, value)
        /\ HistoryAmount(req, data, at, TRUE) = MetricMoney(metrics, req, metrics.debtorSum, TRUE)
    <3>1. Alike(metrics, req, data, at, SumOver(req, data, at), op, value)
      BY <2>2, <2>4, SumsAgree
    <3> QED
      BY <2>2, <3>1 DEF Alike
  <2>6. HistoryAmount(req, data, to, TRUE) = MetricMoney(metrics, req, metrics.creditorSum, TRUE)
    <3>1. Alike(metrics, req, data, to, SumOver(req, data, to), op, value)
      BY <2>2, <2>4, SumsAgree
    <3> QED
      BY <2>2, <3>1 DEF Alike
  <2>7. \/ /\ node.field = "velocity.debtor_amount_sum"
           /\ Velocity(node, req, data) = HistoryAmount(req, data, at, FALSE)
           /\ Velocity(node, req, other) = MetricMoney(metrics, req, metrics.debtorSum, FALSE)
        \/ Velocity(node, req, data) = Velocity(node, req, other)
    <3>1. CASE node.field = "velocity.debtor_transfer_count"
      <4>1. /\ Velocity(node, req, data) = Number(Cardinality(at))
            /\ Velocity(node, req, other) = Number(metrics.transferCount)
        BY <1>2, <2>3, <3>1 DEF Velocity, at
      <4> QED
        BY <2>2, <4>1
    <3>2. CASE node.field = "velocity.debtor_unique_creditor_count"
      <4>1. /\ Velocity(node, req, data) = Number(UniqueCreditors(req, data, at))
            /\ Velocity(node, req, other) = Number(metrics.uniqueCreditors)
        BY <1>2, <2>3, <3>2 DEF Velocity, at
      <4> QED
        BY <2>2, <4>1
    <3>3. CASE node.field = "velocity.debtor_repeated_amount_count"
      <4>1. /\ Velocity(node, req, data) = Number(RepeatedAmountCount(req, data, at))
            /\ Velocity(node, req, other) = Number(metrics.repeatedAmounts)
        BY <1>2, <2>3, <3>3 DEF Velocity, at
      <4> QED
        BY <2>2, <4>1
    <3>4. CASE node.field = "velocity.debtor_amount_sum"
      BY <1>2, <2>3, <3>4 DEF Velocity, at
    <3>5. CASE node.field = "velocity.debtor_amount_sum_including_current"
      <4>1. /\ Velocity(node, req, data) = HistoryAmount(req, data, at, TRUE)
            /\ Velocity(node, req, other) = MetricMoney(metrics, req, metrics.debtorSum, TRUE)
        BY <1>2, <2>3, <3>5 DEF Velocity, at
      <4> QED
        BY <2>5, <4>1
    <3>6. CASE node.field = "velocity.creditor_amount_sum_including_current"
      <4>1. /\ Velocity(node, req, data) = HistoryAmount(req, data, to, TRUE)
            /\ Velocity(node, req, other) = MetricMoney(metrics, req, metrics.creditorSum, TRUE)
        BY <1>2, <2>3, <3>6 DEF Velocity, to
      <4> QED
        BY <2>6, <4>1
    <3> QED
      BY <1>4, <3>1, <3>2, <3>3, <3>4, <3>5, <3>6 DEF VelocityFields, SumFields
  <2> QED
    BY <2>1, <2>5, <2>7 DEF other
<1>5. CASE node.field \in FirstTimeFields
  <2> DEFINE was == HasPreviousCreditor(req, data.history)
             is == metrics.hasPreviousCreditor
  <2>1. is <=> was
    BY AggregatesRemember
  <2>2. HasMetrics(node, other) /\ MetricsFor(node, other) = metrics
    BY <1>3, <1>5
  <2> HIDE DEF metrics
  <2>3. FieldValue(node, req, data) = Truth(~was) /\ FieldValue(node, req, other) = Truth(~is)
    BY <1>2, <1>5, <2>2 DEF FieldValue, VelocityFields, SumFields, FirstTimeFields, RequestField
  <2> HIDE DEF was, is
  <2>4. (~was) = (~is)
    BY <2>1
  <2>5. Truth(~was) = Truth(~is)
    BY <2>4
  <2> QED
    BY <2>3, <2>5 DEF other
<1>6. CASE node.field \notin VelocityFields \cup FirstTimeFields
  <2>1. \A t : RecentlyChanged(node, t, data) = RecentlyChanged(node, t, other)
    BY <1>1 DEF RecentlyChanged
  <2>2. FieldValue(node, req, data) = FieldValue(node, req, other)
    BY <1>1, <1>6, <2>1 DEF FieldValue
  <2> QED
    BY <2>2 DEF other
<1> QED
  BY <1>4, <1>5, <1>6

(* "MetricWindowsFromRules [discovers] the exact aggregate windows needed" *)
(* (README.md:187): a rule that states its windows says of the aggregates  *)
(* of these windows what it says of the history they were made from.       *)
THEOREM AggregatesStandForHistory == Spec => []MetricsAgreeWithHistory
<1>1. ASSUME Installed, Inputs PROVE MetricsAgreeWithHistory
  <2> SUFFICES ASSUME Answered, NEW i \in DOMAIN installed, Validate(installed[i]),
                      \A n \in Leaves(installed[i].tree) :
                        installed[i].tree[n].field \in VelocityFields => Windowed(installed[i].tree[n]),
                      Steady(request, DataOf)
               PROVE  EvaluateWithContext(installed[i], request,
                        Aggregated(MetricWindows(installed[i].tree), request, DataOf)) = Verdicts[i]
    BY DEF MetricsAgreeWithHistory, Steady, Aggregated
  <2> DEFINE tree == installed[i].tree
             data == DataOf
             other == Aggregated(MetricWindows(tree), request, data)
             custom == [n \in DOMAIN tree |-> "unhandled"]
  <2>1. IsCondition(tree)
    BY <1>1 DEF Installed
  <2>2. request.amount \in AmountText /\ IsData(data)
    BY <1>1, DataTyped DEF Inputs, IsRequest
  <2>3. /\ Verdicts[i] = EvaluateLeaves(tree, request, data, custom)
        /\ EvaluateWithContext(installed[i], request, other) = EvaluateLeaves(tree, request, other, custom)
    BY DEF Verdicts, EvaluateWithContext
  <2>4. \A n \in Leaves(tree) : tree[n].field \in VelocityFields => Windowed(tree[n])
    OBVIOUS
  <2> HIDE DEF tree, data
  <2>5. \A n \in Leaves(tree) : custom[n] = "unhandled"
    BY DEF Leaves
  <2>6. ASSUME NEW n \in Leaves(tree)
        PROVE  LeafVerdict(tree[n], request, data, custom[n]) = LeafVerdict(tree[n], request, other, custom[n])
    <3>1. tree[n].field \in VelocityFields \cup FirstTimeFields => MetricWindow(tree[n]) \in MetricWindows(tree)
      BY <2>6 DEF MetricWindows, Leaves
    <3>2. Steady(request, data)
      BY DEF data
    <3>3. Compare(FieldValue(tree[n], request, data), tree[n].op, tree[n].value)
            = Compare(FieldValue(tree[n], request, other), tree[n].op, tree[n].value)
      BY <2>2, <2>4, <2>6, <3>1, <3>2, LeafAgrees
    <3> HIDE DEF custom, other
    <3> QED
      BY <2>5, <2>6, <3>3 DEF LeafVerdict
  <2> HIDE DEF custom, other
  <2>7. \A n \in Leaves(tree) : custom[n] \in Verdict \cup {"unhandled"}
    BY <2>5
  <2>8. EvaluateLeaves(tree, request, data, custom) = EvaluateLeaves(tree, request, other, custom)
    BY <2>1, <2>6, <2>7, SameLeavesSameVerdict
  <2> QED
    BY <2>3, <2>8 DEF tree, data, other
<1>2. Inv /\ Inputs => MetricsAgreeWithHistory
  BY <1>1 DEF Inv
<1> QED
  BY <1>2, InvHolds, InputsHold, PTL

-----------------------------------------------------------------------------
(* The same document in another form.  What is around a text is not read,  *)
(* and a zero at the end of a fraction does not count.                     *)
LEMMA ReformattedElement ==
  ASSUME NEW doc, IsDocument(doc)
  PROVE  LET other == Reformatted(doc)
         IN  /\ other.readable = doc.readable
             /\ DOMAIN other.elements = DOMAIN doc.elements
             /\ \A i \in DOMAIN doc.elements :
                  LET old == doc.elements[i]
                      new == other.elements[i]
                  IN  /\ new.path = old.path /\ new.ours = old.ours
                      /\ Trim(new.word) = Trim(old.word)
                      /\ old.path \in Verbatim => new.word = old.word
                      /\ new.amount \in {old.amount, Zeroed(old.amount)}
<1> DEFINE list == [i \in DOMAIN doc.elements |-> Respelled(doc.elements[i])]
<1>1. Reformatted(doc) = [doc EXCEPT !.elements = list]
  BY DEF Reformatted
<1> HIDE DEF list
<1>2. Reformatted(doc).readable = doc.readable /\ Reformatted(doc).elements = list
  BY <1>1 DEF IsDocument
<1>3. DOMAIN list = DOMAIN doc.elements /\ \A i \in DOMAIN doc.elements : list[i] = Respelled(doc.elements[i])
  BY DEF list
<1>4. ASSUME NEW i \in DOMAIN doc.elements
      PROVE  LET old == doc.elements[i]
                 new == Respelled(old)
             IN  /\ new.path = old.path /\ new.ours = old.ours
                 /\ Trim(new.word) = Trim(old.word)
                 /\ old.path \in Verbatim => new.word = old.word
                 /\ new.amount \in {old.amount, Zeroed(old.amount)}
  <2> DEFINE old == doc.elements[i]
             word == IF IsBlank(old.word) THEN old.word ELSE Pad(Trim(old.word))
             amount == Zeroed(old.amount)
  <2>1. DOMAIN old = {"path", "ours", "word", "amount"} /\ old.word \in Word
    BY DEF IsDocument
  <2> HIDE DEF old
  <2>2. Trim(word) = Trim(old.word)
    BY <2>1, PadAssumption
  <2>3. Respelled(old) = IF old.path \in Verbatim THEN old
                         ELSE [old EXCEPT !.word = word, !.amount = amount]
    BY DEF Respelled
  <2> HIDE DEF word, amount
  <2>4. old.path \notin Verbatim =>
          /\ Respelled(old).path = old.path /\ Respelled(old).ours = old.ours
          /\ Respelled(old).word = word /\ Respelled(old).amount = amount
    BY <2>1, <2>3
  <2>5. old.path \in Verbatim => Respelled(old) = old
    BY <2>3
  <2> QED
    BY <2>2, <2>4, <2>5 DEF old, amount
<1> QED
  BY <1>2, <1>3, <1>4

LEMMA ReformattedDecodes ==
  ASSUME NEW doc, IsDocument(doc), Decodes(doc)
  PROVE  /\ \A path : Occurrences(Reformatted(doc), path) = Occurrences(doc, path)
         /\ Decodes(Reformatted(doc))
<1> DEFINE other == Reformatted(doc)
<1>1. /\ other.readable = doc.readable /\ DOMAIN other.elements = DOMAIN doc.elements
      /\ \A i \in DOMAIN doc.elements :
           other.elements[i].path = doc.elements[i].path /\ other.elements[i].ours = doc.elements[i].ours
  BY ReformattedElement
<1> HIDE DEF other
<1>2. \A path : Occurrences(other, path) = Occurrences(doc, path)
  BY <1>1 DEF Occurrences
<1>3. Decodes(other)
  BY <1>1, <1>2 DEF Decodes
<1> QED
  BY <1>2, <1>3 DEF other

LEMMA TakenOnce ==
  ASSUME NEW doc, IsDocument(doc), Decodes(doc), NEW path \in SingleValuePaths, Occurrences(doc, path) # {}
  PROVE  \E i \in DOMAIN doc.elements : doc.elements[i].path = path /\ Occurrences(doc, path) = {i}
<1> DEFINE at == Occurrences(doc, path)
<1>1. IsFiniteSet(at) /\ at \subseteq DOMAIN doc.elements /\ \A i \in at : doc.elements[i].path = path
  BY OccurrencesFinite DEF Occurrences
<1>2. Cardinality(at) <= 1 /\ at # {}
  BY DEF Decodes
<1> HIDE DEF at
<1>3. Cardinality(at) \in Nat /\ Cardinality(at) # 0
  BY <1>1, <1>2, FS_CardinalityType, FS_EmptySet
<1>4. Cardinality(at) = 1
  BY <1>2, <1>3
<1>5. PICK i : at = {i}
  BY <1>1, <1>4, FS_Singleton
<1> QED
  BY <1>1, <1>5 DEF at

LEMMA MaxOfOne == ASSUME NEW i \in Int PROVE Max({i}) = i /\ Min({i}) = i
BY DEF Max, Min

(* What is read at a path, in the two forms.                               *)
Reads(doc, path) ==
  LET other == Reformatted(doc)
  IN  /\ Trim(WordAt(other, path, "last")) = Trim(WordAt(doc, path, "last"))
      /\ path \in Verbatim => WordAt(other, path, "last") = WordAt(doc, path, "last")
      /\ AmountAt(doc, path, "last") \in AmountText
      /\ AmountAt(other, path, "last") \in {AmountAt(doc, path, "last"), Zeroed(AmountAt(doc, path, "last"))}

LEMMA ReformattedReads ==
  ASSUME NEW doc, IsDocument(doc), Decodes(doc), NEW path \in SingleValuePaths
  PROVE  Reads(doc, path)
<1> DEFINE other == Reformatted(doc)
<1>1. Occurrences(other, path) = Occurrences(doc, path)
  BY ReformattedDecodes
<1>2. CASE Occurrences(doc, path) = {}
  <2>1. /\ WordAt(doc, path, "last") = "" /\ WordAt(other, path, "last") = ""
        /\ AmountAt(doc, path, "last") = Blank /\ AmountAt(other, path, "last") = Blank
    BY <1>1, <1>2 DEF WordAt, AmountAt
  <2>2. Blank \in AmountText
    BY DEF Blank, AmountText
  <2> QED
    BY <2>1, <2>2 DEF Reads
<1>3. CASE Occurrences(doc, path) # {}
  <2>1. PICK i \in DOMAIN doc.elements : doc.elements[i].path = path /\ Occurrences(doc, path) = {i}
    BY <1>3, TakenOnce
  <2>2. i \in Int /\ doc.elements[i].amount \in AmountText
    BY DEF IsDocument, IsList
  <2>3. /\ Trim(other.elements[i].word) = Trim(doc.elements[i].word)
        /\ path \in Verbatim => other.elements[i].word = doc.elements[i].word
        /\ other.elements[i].amount \in {doc.elements[i].amount, Zeroed(doc.elements[i].amount)}
    BY <2>1, ReformattedElement
  <2> HIDE DEF other
  <2>4. Max({i}) = i
    BY <2>2, MaxOfOne
  <2>5. /\ WordAt(doc, path, "last") = doc.elements[i].word
        /\ WordAt(other, path, "last") = other.elements[i].word
        /\ AmountAt(doc, path, "last") = doc.elements[i].amount
        /\ AmountAt(other, path, "last") = other.elements[i].amount
    BY <1>1, <2>1, <2>4 DEF WordAt, AmountAt, Taken
  <2> QED
    BY <2>2, <2>3, <2>5 DEF Reads, other
<1> QED
  BY <1>2, <1>3

LEMMA TrimmedIs ==
  ASSUME NEW text \in AmountText
  PROVE  /\ Trimmed(text) \in AmountText
         /\ Trimmed(text).plain = text.plain /\ ~Trimmed(text).padded
         /\ Trimmed(text).units = text.units /\ Trimmed(text).places = text.places
BY DEF Trimmed, AmountText

LEMMA ZeroedIs ==
  ASSUME NEW text \in AmountText, text.plain
  PROVE  /\ Zeroed(text) \in AmountText /\ Zeroed(text).plain
         /\ Zeroed(text).units = text.units * 10 /\ Zeroed(text).places = text.places + 1
<1>1. /\ text.plain \in BOOLEAN /\ text.padded \in BOOLEAN /\ text.units \in Nat /\ text.places \in Nat
      /\ DOMAIN text = {"plain", "padded", "units", "places"}
  BY DEF AmountText
<1>2. text.units * 10 \in Nat /\ text.places + 1 \in Nat
  BY <1>1
<1> DEFINE units == text.units * 10
           places == text.places + 1
<1>3. Zeroed(text) = [text EXCEPT !.padded = TRUE, !.units = units, !.places = places]
  BY DEF Zeroed
<1> HIDE DEF units, places
<1>4. Zeroed(text) \in AmountText
  BY <1>2, <1>3 DEF AmountText, units, places
<1>5. Zeroed(text).plain = text.plain /\ Zeroed(text).units = units /\ Zeroed(text).places = places
  BY <1>1, <1>3
<1> QED
  BY <1>4, <1>5 DEF units, places

(* A zero more at the end changes nothing in what an amount stands for,    *)
(* where its currency has room for it.                                     *)
LEMMA ZeroIsNothing ==
  ASSUME NEW text \in AmountText, NEW zeroed, zeroed \in {text, Zeroed(text)}
  PROVE  /\ Trimmed(zeroed) # Blank <=> Trimmed(text) # Blank
         /\ CanonicalAmount(Trimmed(zeroed)) = CanonicalAmount(Trimmed(text))
         /\ \A currency \in DOMAIN Scale : text.places < Scale[currency] =>
              (TransferAmountOk(Trimmed(zeroed), currency) <=> TransferAmountOk(Trimmed(text), currency))
<1>1. CASE zeroed = text
  BY <1>1
<1>2. CASE zeroed # text
  <2> DEFINE a == Trimmed(text)
             b == Trimmed(zeroed)
  <2>1. text.plain /\ zeroed = Zeroed(text)
    BY <1>2 DEF Zeroed
  <2>2. text.units \in Nat /\ text.places \in Nat
    BY DEF AmountText
  <2>3. /\ a \in AmountText /\ a.plain /\ ~a.padded /\ a.units = text.units /\ a.places = text.places
        /\ b \in AmountText /\ b.plain /\ ~b.padded /\ b.units = text.units * 10 /\ b.places = text.places + 1
    <3>1. /\ zeroed \in AmountText /\ zeroed.plain
          /\ zeroed.units = text.units * 10 /\ zeroed.places = text.places + 1
      BY <2>1, ZeroedIs
    <3>2. a \in AmountText /\ a.plain /\ ~a.padded /\ a.units = text.units /\ a.places = text.places
      BY <2>1, TrimmedIs
    <3>3. b \in AmountText /\ b.plain /\ ~b.padded /\ b.units = zeroed.units /\ b.places = zeroed.places
      BY <3>1, TrimmedIs
    <3> QED
      BY <3>1, <3>2, <3>3
  <2> HIDE DEF a, b
  <2>4. a # Blank /\ b # Blank
    BY <2>3 DEF Blank
  <2>5. CanonicalAmount(b) = CanonicalAmount(a)
    <3>1. PICK p \in 0 .. a.places :
                 LET k == a.places - p
                     q == a.units \div PowerOfTen[k]
                 IN  /\ CanonicalAmount(a) = Decimal(q, p)
                     /\ \A r \in Reduced(a) : p <= r
                     /\ p \in Reduced(a)
                     /\ q \in Nat /\ q * PowerOfTen[k] = a.units
      BY <2>3, CanonicalReduces
    <3>2. PICK s \in 0 .. b.places :
                 LET k == b.places - s
                     q == b.units \div PowerOfTen[k]
                 IN  /\ CanonicalAmount(b) = Decimal(q, s)
                     /\ \A r \in Reduced(b) : s <= r
                     /\ s \in Reduced(b)
                     /\ q \in Nat /\ q * PowerOfTen[k] = b.units
      BY <2>3, CanonicalReduces
    <3>3. ASSUME NEW r \in 0 .. a.places
          PROVE  /\ b.places - r = (a.places - r) + 1 /\ a.places - r \in Nat
                 /\ PowerOfTen[a.places - r] \in Nat \ {0}
                 /\ PowerOfTen[b.places - r] = 10 * PowerOfTen[a.places - r]
      <4>1. b.places - r = (a.places - r) + 1 /\ a.places - r \in Nat /\ (a.places - r) + 1 \in Nat
        BY <2>2, <2>3
      <4>2. PowerOfTen[a.places - r] \in Nat \ {0}
        BY <4>1, PowersPositive
      <4>3. ((a.places - r) + 1) - 1 = a.places - r /\ (a.places - r) + 1 # 0
        BY <4>1
      <4>4. PowerOfTen[(a.places - r) + 1] = 10 * PowerOfTen[a.places - r]
        BY <4>1, <4>3, PowersExist
      <4> QED
        BY <4>1, <4>2, <4>4
    <3>4. \A r \in 0 .. a.places : r \in Reduced(b) <=> r \in Reduced(a)
      <4> SUFFICES ASSUME NEW r \in 0 .. a.places PROVE r \in Reduced(b) <=> r \in Reduced(a)
        OBVIOUS
      <4>1. r \in 0 .. b.places
        BY <2>2, <2>3
      <4>2. \A x \in Nat, d \in Nat \ {0} : (x * 10) % (10 * d) = 0 <=> x % d = 0
        <5> SUFFICES ASSUME NEW x \in Nat, NEW d \in Nat \ {0}
                     PROVE  (x * 10) % (10 * d) = 0 <=> x % d = 0
          OBVIOUS
        <5>1. \A y \in Nat, e \in Nat \ {0} : y % e = 0 => (y \div e) \in Nat /\ (y \div e) * e = y
          OBVIOUS
        <5>2. \A q \in Nat, e \in Nat \ {0} : (q * e) % e = 0
          OBVIOUS
        <5>3. x * 10 \in Nat /\ 10 * d \in Nat \ {0}
          OBVIOUS
        <5>4. ASSUME x % d = 0 PROVE (x * 10) % (10 * d) = 0
          <6>1. PICK q \in Nat : q * d = x
            BY <5>1, <5>4
          <6>2. x * 10 = q * (10 * d)
            BY <6>1
          <6> QED
            BY <5>2, <5>3, <6>2
        <5>5. ASSUME (x * 10) % (10 * d) = 0 PROVE x % d = 0
          <6>1. PICK q \in Nat : q * (10 * d) = x * 10
            BY <5>1, <5>3, <5>5
          <6>2. \A y, z \in Nat : y * (10 * z) = (y * z) * 10 /\ y * z \in Nat
            OBVIOUS
          <6>3. (q * d) * 10 = x * 10 /\ q * d \in Nat
            BY <6>1, <6>2
          <6>4. x = q * d
            BY <6>3
          <6> QED
            BY <5>2, <6>4
        <5> QED
          BY <5>4, <5>5
      <4> DEFINE d == PowerOfTen[a.places - r]
      <4>3. d \in Nat \ {0} /\ PowerOfTen[b.places - r] = 10 * d
        BY <3>3
      <4> HIDE DEF d
      <4>4. (b.units % PowerOfTen[b.places - r] = 0) <=> (a.units % d = 0)
        BY <2>2, <2>3, <4>2, <4>3
      <4> QED
        BY <4>1, <4>4 DEF Reduced, d
    <3>5. a.places \in Nat /\ b.places = a.places + 1
      BY <2>2, <2>3
    <3>6. s = p
      <4>1. p \in Reduced(b)
        BY <3>1, <3>4
      <4>2. s <= p
        BY <3>2, <4>1
      <4>3. s \in 0 .. a.places
        BY <3>1, <3>2, <3>5, <4>2
      <4>4. s \in Reduced(a)
        BY <3>2, <3>4, <4>3
      <4>5. p <= s
        BY <3>1, <4>4
      <4> QED
        BY <3>1, <3>2, <4>2, <4>5
    <3> DEFINE d == PowerOfTen[a.places - p]
               q == a.units \div d
               t == b.units \div (10 * d)
    <3>7. d \in Nat \ {0} /\ PowerOfTen[b.places - p] = 10 * d
      BY <3>3
    <3>8. /\ CanonicalAmount(a) = Decimal(q, p) /\ q \in Nat /\ q * d = a.units
          /\ CanonicalAmount(b) = Decimal(t, p) /\ t \in Nat /\ t * (10 * d) = b.units
      BY <3>1, <3>2, <3>6, <3>7
    <3> HIDE DEF d, q, t
    <3>9. \A x, y \in Nat, e \in Nat \ {0} : y * (10 * e) = (x * e) * 10 => x = y
      OBVIOUS
    <3>10. t * (10 * d) = (q * d) * 10
      BY <2>3, <3>8
    <3>11. q = t
      BY <3>7, <3>8, <3>9, <3>10
    <3> QED
      BY <3>8, <3>11
  <2>6. ASSUME NEW currency \in DOMAIN Scale, text.places < Scale[currency]
        PROVE  TransferAmountOk(b, currency) <=> TransferAmountOk(a, currency)
    <3>1. Scale[currency] \in Nat /\ TransferDigits \in Nat
      BY ScaleAssumption, DigitsAssumption
    <3>2. a.places <= Scale[currency] /\ b.places <= Scale[currency]
      BY <2>2, <2>3, <2>6, <3>1
    <3>3. b.units > 0 <=> a.units > 0
      BY <2>2, <2>3
    <3> DEFINE n == TransferDigits + a.places
               d == PowerOfTen[n]
    <3>4. n \in Nat /\ TransferDigits + b.places = n + 1 /\ n + 1 \in Nat /\ n + 1 # 0 /\ (n + 1) - 1 = n
      BY <2>2, <2>3, <3>1
    <3> HIDE DEF n
    <3>5. d \in Nat \ {0} /\ PowerOfTen[TransferDigits + b.places] = 10 * d
      BY <3>4, PowersPositive, PowersExist
    <3> HIDE DEF d
    <3>6. a.units < d <=> b.units < PowerOfTen[TransferDigits + b.places]
      BY <2>2, <2>3, <3>5
    <3> QED
      BY <2>3, <3>2, <3>3, <3>6 DEF TransferAmountOk, CanonicalAmountOk, d, n
  <2> QED
    BY <2>4, <2>5, <2>6 DEF a, b
<1> QED
  BY <1>1, <1>2

-----------------------------------------------------------------------------
(* The first of several places is the same place.                          *)
LEMMA FirstSame ==
  ASSUME NEW v, NEW w, DOMAIN v = DOMAIN w, DOMAIN v \in SUBSET Nat,
         \A i \in DOMAIN v : Trim(v[i]) = Trim(w[i])
  PROVE  First(v) = First(w)
<1> DEFINE filled == {i \in DOMAIN v : ~IsBlank(v[i])}
<1>1. filled = {i \in DOMAIN w : ~IsBlank(w[i])}
  BY DEF IsBlank
<1>2. filled \in SUBSET Nat /\ filled \subseteq DOMAIN v
  OBVIOUS
<1>3. /\ First(v) = IF filled = {} THEN "" ELSE Trim(v[Min(filled)])
      /\ First(w) = IF filled = {} THEN "" ELSE Trim(w[Min(filled)])
  BY <1>1 DEF First
<1> HIDE DEF filled
<1>4. filled # {} => Min(filled) \in filled
  BY <1>2, LeastElement DEF Min
<1> DEFINE i == Min(filled)
<1>5. filled # {} => i \in DOMAIN v
  BY <1>2, <1>4
<1>6. /\ First(v) = IF filled = {} THEN "" ELSE Trim(v[i])
      /\ First(w) = IF filled = {} THEN "" ELSE Trim(w[i])
  BY <1>3
<1>7. filled # {} => Trim(v[i]) = Trim(w[i])
  BY <1>5
<1> HIDE DEF i
<1>8. CASE filled = {}
  <2>1. First(v) = "" /\ First(w) = ""
    BY <1>6, <1>8
  <2> QED
    BY <2>1
<1>9. CASE filled # {}
  <2>1. First(v) = Trim(v[i]) /\ First(w) = Trim(w[i])
    BY <1>6, <1>9
  <2> QED
    BY <1>7, <1>9, <2>1
<1> QED
  BY <1>8, <1>9

LEMMA FirstAgentSame ==
  ASSUME NEW v, NEW w, DOMAIN v = DOMAIN w, DOMAIN v \in SUBSET Nat,
         \A i \in DOMAIN v : Trim(v[i].bicfi) = Trim(w[i].bicfi) /\ Trim(v[i].name) = Trim(w[i].name)
  PROVE  FirstAgent(v) = FirstAgent(w)
<1> DEFINE filled == {i \in DOMAIN v : ~IsBlank(v[i].bicfi) \/ ~IsBlank(v[i].name)}
<1>1. filled = {i \in DOMAIN w : ~IsBlank(w[i].bicfi) \/ ~IsBlank(w[i].name)}
  BY DEF IsBlank
<1>2. filled \in SUBSET Nat /\ filled \subseteq DOMAIN v
  OBVIOUS
<1>3. /\ FirstAgent(v) = IF filled = {} THEN [bicfi |-> "", name |-> ""]
                         ELSE [bicfi |-> Trim(v[Min(filled)].bicfi), name |-> Trim(v[Min(filled)].name)]
      /\ FirstAgent(w) = IF filled = {} THEN [bicfi |-> "", name |-> ""]
                         ELSE [bicfi |-> Trim(w[Min(filled)].bicfi), name |-> Trim(w[Min(filled)].name)]
  BY <1>1 DEF FirstAgent
<1> HIDE DEF filled
<1>4. filled # {} => Min(filled) \in filled
  BY <1>2, LeastElement DEF Min
<1> DEFINE i == Min(filled)
<1>5. filled # {} => i \in DOMAIN v
  BY <1>2, <1>4
<1>6. /\ FirstAgent(v) = IF filled = {} THEN [bicfi |-> "", name |-> ""]
                         ELSE [bicfi |-> Trim(v[i].bicfi), name |-> Trim(v[i].name)]
      /\ FirstAgent(w) = IF filled = {} THEN [bicfi |-> "", name |-> ""]
                         ELSE [bicfi |-> Trim(w[i].bicfi), name |-> Trim(w[i].name)]
  BY <1>3
<1>7. filled # {} => Trim(v[i].bicfi) = Trim(w[i].bicfi) /\ Trim(v[i].name) = Trim(w[i].name)
  BY <1>5
<1> HIDE DEF i
<1>8. CASE filled = {}
  <2>1. FirstAgent(v) = [bicfi |-> "", name |-> ""] /\ FirstAgent(w) = [bicfi |-> "", name |-> ""]
    BY <1>6, <1>8
  <2> QED
    BY <2>1
<1>9. CASE filled # {}
  <2>1. /\ FirstAgent(v) = [bicfi |-> Trim(v[i].bicfi), name |-> Trim(v[i].name)]
        /\ FirstAgent(w) = [bicfi |-> Trim(w[i].bicfi), name |-> Trim(w[i].name)]
    BY <1>6, <1>9
  <2> QED
    BY <1>7, <1>9, <2>1
<1> QED
  BY <1>8, <1>9

(* A single line is the remittance information, whatever is around it.     *)
LEMMA RemittanceIs ==
  ASSUME NEW doc, IsList(doc.elements), NEW lines, lines = Occurrences(doc, Transaction \o <<"RmtInf", "Ustrd">>)
  PROVE  /\ lines = {} => Remittance(doc) = Trim("")
         /\ \A i \in DOMAIN doc.elements : lines = {i} => Remittance(doc) = Trim(doc.elements[i].word)
<1> DEFINE size == Len(doc.elements)
           Longer(n, g) == g[n - 1] \o " " \o doc.elements[n].word
           Step(n, g) ==
             IF n = 0 THEN ""
             ELSE IF n \notin lines THEN g[n - 1]
             ELSE IF n = Min(lines) THEN doc.elements[n].word
             ELSE Longer(n, g)
           Equation(g) == g = [n \in 0 .. size |-> Step(n, g)]
           joined == CHOOSE g : Equation(g)
<1>1. Remittance(doc) = Trim(joined[size])
  BY DEF Remittance
<1>2. size \in Nat /\ DOMAIN doc.elements = 1 .. size
  BY DEF IsList
<1> HIDE DEF size, Longer
<1>3. \A n, g : n \notin lines => Step(n, g) = IF n = 0 THEN "" ELSE g[n - 1]
  OBVIOUS
<1>4. \A n, g : n \in lines /\ n # 0 /\ n = Min(lines) => Step(n, g) = doc.elements[n].word
  OBVIOUS
<1> HIDE DEF Step
<1>5. ASSUME \E g : Equation(g)
      PROVE  \A n \in 0 .. size : joined[n] = Step(n, joined)
  <2>1. Equation(joined)
    <3> HIDE DEF Equation
    <3> QED
      BY <1>5
  <2>2. joined = [n \in 0 .. size |-> Step(n, joined)]
    <3> HIDE DEF joined
    <3> QED
      BY <2>1
  <2> HIDE DEF joined
  <2> QED
    BY <2>2
<1>6. ASSUME lines = {} PROVE joined[size] = ""
  <2> DEFINE g == [n \in 0 .. size |-> ""]
             T == {n \in 0 .. size : joined[n] = ""}
  <2>1. ASSUME NEW n \in 0 .. size PROVE Step(n, g) = ""
    <3>1. n # 0 => n - 1 \in 0 .. size
      BY <1>2
    <3>2. n # 0 => g[n - 1] = ""
      BY <3>1
    <3> HIDE DEF g
    <3> QED
      BY <1>3, <1>6, <3>2
  <2>2. Equation(g)
    BY <2>1
  <2>3. \A n \in 0 .. size : joined[n] = Step(n, joined)
    <3> HIDE DEF Equation, g, joined
    <3> QED
      BY <1>5, <2>2
  <2> HIDE DEF joined
  <2>4. \A n \in 0 .. size : joined[n] = IF n = 0 THEN "" ELSE joined[n - 1]
    BY <1>3, <1>6, <2>3
  <2> HIDE DEF T
  <2>5. 0 \in T
    <3>1. 0 \in 0 .. size
      BY <1>2
    <3>2. joined[0] = ""
      BY <2>4, <3>1
    <3> QED
      BY <3>1, <3>2 DEF T
  <2>6. ASSUME NEW n \in 0 .. size, n \in T, n < size PROVE n + 1 \in T
    <3>1. n + 1 \in 0 .. size /\ n + 1 # 0 /\ (n + 1) - 1 = n
      BY <1>2, <2>6
    <3>2. joined[n] = ""
      BY <2>6 DEF T
    <3>3. joined[n + 1] = joined[n]
      BY <2>4, <3>1
    <3> QED
      BY <3>1, <3>2, <3>3 DEF T
  <2>7. \A n \in 0 .. size : n \in T
    BY <1>2, <2>5, <2>6, Induction
  <2>8. size \in T
    BY <1>2, <2>7
  <2> QED
    BY <2>8 DEF T
<1>7. ASSUME NEW i \in DOMAIN doc.elements, lines = {i} PROVE joined[size] = doc.elements[i].word
  <2> DEFINE word == doc.elements[i].word
             g == [n \in 0 .. size |-> IF n < i THEN "" ELSE word]
             T == {n \in 0 .. size : n >= i => joined[n] = word}
  <2>1. i \in Int /\ i \in 1 .. size
    BY <1>2
  <2>2. Min(lines) = i /\ i # 0
    BY <1>7, <2>1, MaxOfOne
  <2>3. \A n, h : Step(n, h) = IF n = i THEN word ELSE IF n = 0 THEN "" ELSE h[n - 1]
    <3>1. \A n : n \in lines <=> n = i
      BY <1>7
    <3> QED
      BY <1>3, <1>4, <2>2, <3>1
  <2> HIDE DEF word
  <2>4. ASSUME NEW n \in 0 .. size PROVE Step(n, g) = IF n < i THEN "" ELSE word
    <3>1. CASE n = 0 /\ n # i
      <4>1. n < i
        BY <2>1, <3>1
      <4> QED
        BY <2>3, <3>1, <4>1
    <3>2. CASE n = i
      <4>1. ~(n < i)
        BY <2>1, <3>2
      <4> QED
        BY <2>3, <3>2, <4>1
    <3>3. CASE n # 0 /\ n # i
      <4>1. n - 1 \in 0 .. size /\ (n - 1 < i <=> n < i)
        BY <1>2, <2>1, <3>3
      <4>2. g[n - 1] = IF n < i THEN "" ELSE word
        BY <4>1
      <4> HIDE DEF g
      <4> QED
        BY <2>3, <3>3, <4>2
    <3> QED
      BY <3>1, <3>2, <3>3
  <2>5. Equation(g)
    BY <2>4
  <2>6. \A n \in 0 .. size : joined[n] = Step(n, joined)
    <3> HIDE DEF Equation, g, joined
    <3> QED
      BY <1>5, <2>5
  <2> HIDE DEF joined
  <2>7. \A n \in 0 .. size : joined[n] = IF n = i THEN word ELSE IF n = 0 THEN "" ELSE joined[n - 1]
    BY <2>3, <2>6
  <2>8. 0 \in T
    BY <1>2, <2>1
  <2>9. ASSUME NEW n \in 0 .. size, n \in T, n < size PROVE n + 1 \in T
    <3>1. n + 1 \in 0 .. size /\ n + 1 # 0 /\ (n + 1) - 1 = n
      BY <1>2, <2>9
    <3>2. joined[n + 1] = IF n + 1 = i THEN word ELSE joined[n]
      BY <2>7, <3>1
    <3>3. n + 1 >= i => n + 1 = i \/ n >= i
      BY <2>1
    <3>4. n >= i => joined[n] = word
      BY <2>9
    <3>5. n + 1 >= i => joined[n + 1] = word
      BY <3>2, <3>3, <3>4
    <3> QED
      BY <3>1, <3>5
  <2> HIDE DEF T
  <2>10. \A n \in 0 .. size : n \in T
    BY <1>2, <2>8, <2>9, Induction
  <2>11. size \in T /\ size >= i
    BY <1>2, <2>1, <2>10
  <2> QED
    BY <2>11 DEF T, word
<1> HIDE DEF joined
<1> QED
  BY <1>1, <1>6, <1>7

LEMMA ReformattedList ==
  ASSUME NEW doc, IsDocument(doc)
  PROVE  IsList(Reformatted(doc).elements)
<1> DEFINE n == Len(doc.elements)
           list == [i \in DOMAIN doc.elements |-> Respelled(doc.elements[i])]
           S == {list[i] : i \in DOMAIN doc.elements}
<1>1. n \in Nat /\ DOMAIN doc.elements = 1 .. n
  BY DEF IsDocument, IsList
<1>2. Reformatted(doc) = [doc EXCEPT !.elements = list]
  BY DEF Reformatted
<1>3. DOMAIN list = 1 .. n /\ \A i \in 1 .. n : list[i] \in S
  BY <1>1
<1>4. list = [i \in 1 .. n |-> list[i]]
  BY <1>1
<1> HIDE DEF list, S, n
<1>5. Reformatted(doc).elements = list
  BY <1>2 DEF IsDocument
<1>6. list \in Seq(S)
  <2>1. list \in [1 .. n -> S]
    BY <1>3, <1>4
  <2> QED
    BY <1>1, <2>1, SeqDef
<1>7. Len(list) \in Nat /\ DOMAIN list = 1 .. Len(list)
  BY <1>6, LenProperties
<1> QED
  BY <1>5, <1>7 DEF IsList

LEMMA RemittanceSame ==
  ASSUME NEW doc, IsDocument(doc), Decodes(doc),
         Cardinality(Occurrences(doc, Transaction \o <<"RmtInf", "Ustrd">>)) <= 1
  PROVE  Remittance(Reformatted(doc)) = Remittance(doc)
<1> DEFINE other == Reformatted(doc)
           path == Transaction \o <<"RmtInf", "Ustrd">>
           lines == Occurrences(doc, path)
<1>1. lines = Occurrences(other, path)
  BY ReformattedDecodes
<1>2. IsList(other.elements) /\ IsList(doc.elements)
  BY ReformattedList DEF IsDocument
<1>3. IsFiniteSet(lines) /\ lines \subseteq DOMAIN doc.elements /\ DOMAIN other.elements = DOMAIN doc.elements
  <2>1. IsFiniteSet(lines)
    BY OccurrencesFinite
  <2>2. lines \subseteq DOMAIN doc.elements
    BY DEF Occurrences
  <2>3. DOMAIN other.elements = DOMAIN doc.elements
    BY ReformattedElement
  <2> QED
    BY <2>1, <2>2, <2>3
<1>4. \A i \in DOMAIN doc.elements : Trim(other.elements[i].word) = Trim(doc.elements[i].word)
  BY ReformattedElement
<1>5. /\ lines = {} => Remittance(doc) = Trim("") /\ Remittance(other) = Trim("")
      /\ \A i \in DOMAIN doc.elements : lines = {i} =>
           /\ Remittance(doc) = Trim(doc.elements[i].word)
           /\ Remittance(other) = Trim(other.elements[i].word)
  BY <1>1, <1>2, <1>3, RemittanceIs
<1>6. Cardinality(lines) <= 1
  OBVIOUS
<1> HIDE DEF lines, other
<1>7. lines = {} \/ \E i \in DOMAIN doc.elements : lines = {i}
  <2>1. Cardinality(lines) \in Nat
    BY <1>3, FS_CardinalityType
  <2>2. Cardinality(lines) = 0 \/ Cardinality(lines) = 1
    BY <1>6, <2>1
  <2>3. Cardinality(lines) = 0 => lines = {}
    BY <1>3, FS_EmptySet
  <2>4. Cardinality(lines) = 1 => \E i : lines = {i}
    BY <1>3, FS_Singleton
  <2> QED
    BY <1>3, <2>2, <2>3, <2>4
<1>8. Remittance(other) = Remittance(doc)
  <2>1. CASE lines = {}
    BY <1>5, <2>1
  <2>2. ASSUME NEW i \in DOMAIN doc.elements, lines = {i} PROVE Remittance(other) = Remittance(doc)
    <3>1. Remittance(doc) = Trim(doc.elements[i].word) /\ Remittance(other) = Trim(other.elements[i].word)
      BY <1>5, <2>2
    <3> QED
      BY <1>4, <3>1
  <2> QED
    BY <1>7, <2>1, <2>2
<1> QED
  BY <1>8 DEF other

-----------------------------------------------------------------------------
(* The money, the moment and the request that are read are the same,       *)
(* where the currency has room for the zero.                               *)
HasRoom(doc) ==
  LET money == TransferAmount(doc, "last")
  IN  money.currency \in DOMAIN Scale /\ money.amount.places < Scale[money.currency]

SameMoney(money, other) ==
  /\ other.currency = money.currency
  /\ CanonicalAmount(other.amount) = CanonicalAmount(money.amount)
  /\ TransferAmountOk(other.amount, other.currency) <=> TransferAmountOk(money.amount, money.currency)

LEMMA MoneySame ==
  ASSUME NEW doc, IsDocument(doc), Decodes(doc), HasRoom(doc)
  PROVE  SameMoney(TransferAmount(doc, "last"), TransferAmount(Reformatted(doc), "last"))
<1> DEFINE other == Reformatted(doc)
           settled == Transaction \o <<"IntrBkSttlmAmt">>
           instructed == Transaction \o <<"InstdAmt">>
           path == IF Trimmed(AmountAt(doc, settled, "last")) # Blank THEN settled ELSE instructed
           old == AmountAt(doc, path, "last")
           new == AmountAt(other, path, "last")
           currency == Upper(Trim(WordAt(doc, path, "last")))
<1>1. Reads(doc, settled) /\ Reads(doc, instructed)
  BY MappedOnce, ReformattedReads
<1>2. Trimmed(AmountAt(other, settled, "last")) # Blank <=> Trimmed(AmountAt(doc, settled, "last")) # Blank
  <2>1. /\ AmountAt(doc, settled, "last") \in AmountText
        /\ AmountAt(other, settled, "last")
             \in {AmountAt(doc, settled, "last"), Zeroed(AmountAt(doc, settled, "last"))}
    BY <1>1 DEF Reads
  <2> HIDE DEF other, settled
  <2> QED
    BY <2>1, ZeroIsNothing
<1>3. /\ TransferAmount(doc, "last") = [amount |-> Trimmed(old), currency |-> currency]
      /\ TransferAmount(other, "last") =
           [amount |-> Trimmed(new), currency |-> Upper(Trim(WordAt(other, path, "last")))]
  BY <1>2 DEF TransferAmount
<1>4. path = settled \/ path = instructed
  OBVIOUS
<1> HIDE DEF path, settled, instructed, other
<1>5. Reads(doc, path)
  BY <1>1, <1>4
<1>6. old \in AmountText /\ new \in {old, Zeroed(old)} /\ Upper(Trim(WordAt(other, path, "last"))) = currency
  BY <1>5 DEF Reads, other
<1> HIDE DEF old, new, currency
<1>7. /\ TransferAmount(doc, "last").amount = Trimmed(old) /\ TransferAmount(doc, "last").currency = currency
      /\ TransferAmount(other, "last").amount = Trimmed(new) /\ TransferAmount(other, "last").currency = currency
  BY <1>3, <1>6
<1>8. currency \in DOMAIN Scale /\ old.places < Scale[currency]
  <2>1. Trimmed(old).places = old.places
    BY <1>6, TrimmedIs
  <2> QED
    BY <1>7, <2>1 DEF HasRoom
<1>9. /\ CanonicalAmount(Trimmed(new)) = CanonicalAmount(Trimmed(old))
      /\ TransferAmountOk(Trimmed(new), currency) <=> TransferAmountOk(Trimmed(old), currency)
  BY <1>6, <1>8, ZeroIsNothing
<1> QED
  BY <1>7, <1>9 DEF SameMoney, other

LEMMA RequestSame ==
  ASSUME NEW doc, IsDocument(doc), Decodes(doc), HasRoom(doc), NEW key,
         Cardinality(Occurrences(doc, Transaction \o <<"RmtInf", "Ustrd">>)) <= 1
  PROVE  /\ RequestOf(Reformatted(doc), key, "last") = RequestOf(doc, key, "last")
         /\ CreatedAt(Reformatted(doc), "last") = CreatedAt(doc, "last")
<1> DEFINE other == Reformatted(doc)
           Same(path) == Trim(WordAt(other, path, "last")) = Trim(WordAt(doc, path, "last"))
           money == TransferAmount(doc, "last")
           paid == TransferAmount(other, "last")
<1>1. \A path \in SingleValuePaths : Same(path)
  BY ReformattedReads DEF Reads
<1>2. paid.currency = money.currency /\ CanonicalAmount(paid.amount) = CanonicalAmount(money.amount)
  BY MoneySame DEF SameMoney
<1>3. Remittance(other) = Remittance(doc)
  BY RemittanceSame
<1> HIDE DEF Same, other, money, paid
<1>4. \A f, g : Same(f) /\ Same(g) =>
        First(<<WordAt(other, f, "last"), WordAt(other, g, "last")>>)
          = First(<<WordAt(doc, f, "last"), WordAt(doc, g, "last")>>)
  <2> SUFFICES ASSUME NEW f, NEW g, Same(f), Same(g)
               PROVE  First(<<WordAt(other, f, "last"), WordAt(other, g, "last")>>)
                        = First(<<WordAt(doc, f, "last"), WordAt(doc, g, "last")>>)
    OBVIOUS
  <2> DEFINE v == <<WordAt(other, f, "last"), WordAt(other, g, "last")>>
             w == <<WordAt(doc, f, "last"), WordAt(doc, g, "last")>>
  <2>1. DOMAIN v = 1 .. 2 /\ DOMAIN w = 1 .. 2
    OBVIOUS
  <2>2. Trim(v[1]) = Trim(w[1]) /\ Trim(v[2]) = Trim(w[2])
    BY DEF Same
  <2> HIDE DEF v, w
  <2>3. DOMAIN v = DOMAIN w /\ DOMAIN v \in SUBSET Nat
    BY <2>1
  <2>4. \A i \in DOMAIN v : Trim(v[i]) = Trim(w[i])
    <3>1. \A i \in 1 .. 2 : i = 1 \/ i = 2
      OBVIOUS
    <3> QED
      BY <2>1, <2>2, <3>1
  <2>5. First(v) = First(w)
    BY <2>3, <2>4, FirstSame
  <2> QED
    BY <2>5 DEF v, w
<1>5. /\ CreatedAt(other, "last") = CreatedAt(doc, "last")
      /\ First(<<WordAt(other, Group \o <<"MsgId">>, "last"), WordAt(other, Header \o <<"BizMsgIdr">>, "last")>>)
           = First(<<WordAt(doc, Group \o <<"MsgId">>, "last"), WordAt(doc, Header \o <<"BizMsgIdr">>, "last")>>)
  <2>1. /\ Same(Group \o <<"CreDtTm">>) /\ Same(Header \o <<"CreDt">>)
        /\ Same(Group \o <<"MsgId">>) /\ Same(Header \o <<"BizMsgIdr">>)
    BY <1>1, MappedOnce
  <2> QED
    BY <1>4, <2>1 DEF CreatedAt
<1>6. \A name \in {"DbtrAcct", "CdtrAcct"} :
        AccountAt(other, Transaction \o <<name>>, "last") = AccountAt(doc, Transaction \o <<name>>, "last")
  <2> SUFFICES ASSUME NEW name \in {"DbtrAcct", "CdtrAcct"}
               PROVE  AccountAt(other, Transaction \o <<name>>, "last")
                        = AccountAt(doc, Transaction \o <<name>>, "last")
    OBVIOUS
  <2>1. /\ Same(Transaction \o <<name>> \o <<"Id", "IBAN">>)
        /\ Same(Transaction \o <<name>> \o <<"Id", "Othr", "Id">>)
    BY <1>1, MappedOnce
  <2> QED
    BY <2>1 DEF AccountAt, Same
<1> DEFINE Agent(path) ==
             /\ Trim(AgentAt(other, path, "last").bicfi) = Trim(AgentAt(doc, path, "last").bicfi)
             /\ Trim(AgentAt(other, path, "last").name) = Trim(AgentAt(doc, path, "last").name)
<1>7. \A path : /\ Same(path \o <<"FinInstnId", "BICFI">>) /\ Same(path \o <<"FinInstnId", "Nm">>)
                => Agent(path)
  BY DEF AgentAt, Same
<1> HIDE DEF Agent
<1>8. /\ \A name \in {"DbtrAgt", "CdtrAgt", "InstgAgt", "InstdAgt"} : Agent(Transaction \o <<name>>)
      /\ \A name \in {"Fr", "To"} : Agent(Header \o <<name, "FIId">>)
  <2>1. \A name \in {"DbtrAgt", "CdtrAgt", "InstgAgt", "InstdAgt"} : Agent(Transaction \o <<name>>)
    <3> SUFFICES ASSUME NEW name \in {"DbtrAgt", "CdtrAgt", "InstgAgt", "InstdAgt"}
                 PROVE  Agent(Transaction \o <<name>>)
      OBVIOUS
    <3>1. /\ Same(Transaction \o <<name>> \o <<"FinInstnId", "BICFI">>)
          /\ Same(Transaction \o <<name>> \o <<"FinInstnId", "Nm">>)
      BY <1>1, MappedOnce
    <3> QED
      BY <1>7, <3>1
  <2>2. \A name \in {"Fr", "To"} : Agent(Header \o <<name, "FIId">>)
    <3> SUFFICES ASSUME NEW name \in {"Fr", "To"} PROVE Agent(Header \o <<name, "FIId">>)
      OBVIOUS
    <3>1. /\ Same(Header \o <<name, "FIId">> \o <<"FinInstnId", "BICFI">>)
          /\ Same(Header \o <<name, "FIId">> \o <<"FinInstnId", "Nm">>)
      BY <1>1, MappedOnce
    <3> QED
      BY <1>7, <3>1
  <2> QED
    BY <2>1, <2>2
<1>9. \A a, b, c : Agent(a) /\ Agent(b) /\ Agent(c) =>
        FirstAgent(<<AgentAt(other, a, "last"), AgentAt(other, b, "last"), AgentAt(other, c, "last")>>)
          = FirstAgent(<<AgentAt(doc, a, "last"), AgentAt(doc, b, "last"), AgentAt(doc, c, "last")>>)
  <2> SUFFICES ASSUME NEW a, NEW b, NEW c, Agent(a), Agent(b), Agent(c)
               PROVE  FirstAgent(<<AgentAt(other, a, "last"), AgentAt(other, b, "last"), AgentAt(other, c, "last")>>)
                        = FirstAgent(<<AgentAt(doc, a, "last"), AgentAt(doc, b, "last"), AgentAt(doc, c, "last")>>)
    OBVIOUS
  <2> DEFINE v == <<AgentAt(other, a, "last"), AgentAt(other, b, "last"), AgentAt(other, c, "last")>>
             w == <<AgentAt(doc, a, "last"), AgentAt(doc, b, "last"), AgentAt(doc, c, "last")>>
             Alike3(i) == Trim(v[i].bicfi) = Trim(w[i].bicfi) /\ Trim(v[i].name) = Trim(w[i].name)
  <2>1. DOMAIN v = 1 .. 3 /\ DOMAIN w = 1 .. 3
    OBVIOUS
  <2>2. Alike3(1) /\ Alike3(2) /\ Alike3(3)
    BY DEF Agent
  <2> HIDE DEF v, w
  <2>3. DOMAIN v = DOMAIN w /\ DOMAIN v \in SUBSET Nat
    BY <2>1
  <2>4. \A i \in DOMAIN v : Alike3(i)
    <3>1. \A i \in 1 .. 3 : i = 1 \/ i = 2 \/ i = 3
      OBVIOUS
    <3> HIDE DEF Alike3
    <3> QED
      BY <2>1, <2>2, <3>1
  <2>5. FirstAgent(v) = FirstAgent(w)
    BY <2>3, <2>4, FirstAgentSame
  <2> QED
    BY <2>5 DEF v, w
<1>10. /\ FirstAgent(<<AgentAt(other, Transaction \o <<"DbtrAgt">>, "last"),
                       AgentAt(other, Transaction \o <<"InstgAgt">>, "last"),
                       AgentAt(other, Header \o <<"Fr", "FIId">>, "last")>>)
            = FirstAgent(<<AgentAt(doc, Transaction \o <<"DbtrAgt">>, "last"),
                           AgentAt(doc, Transaction \o <<"InstgAgt">>, "last"),
                           AgentAt(doc, Header \o <<"Fr", "FIId">>, "last")>>)
       /\ FirstAgent(<<AgentAt(other, Transaction \o <<"CdtrAgt">>, "last"),
                       AgentAt(other, Transaction \o <<"InstdAgt">>, "last"),
                       AgentAt(other, Header \o <<"To", "FIId">>, "last")>>)
            = FirstAgent(<<AgentAt(doc, Transaction \o <<"CdtrAgt">>, "last"),
                           AgentAt(doc, Transaction \o <<"InstdAgt">>, "last"),
                           AgentAt(doc, Header \o <<"To", "FIId">>, "last")>>)
  BY <1>8, <1>9
<1>11. /\ \A name \in {"InstrId", "EndToEndId", "TxId", "ClrSysRef"} : Same(Transaction \o <<"PmtId", name>>)
       /\ \A name \in {"Dbtr", "Cdtr"} : Same(Transaction \o <<name, "Nm">>)
       /\ Same(Group \o <<"IntrBkSttlmDt">>)
  BY <1>1, MappedOnce
<1>12. RequestOf(other, key, "last") = RequestOf(doc, key, "last")
  BY <1>2, <1>3, <1>5, <1>6, <1>10, <1>11 DEF RequestOf, Same, money, paid
<1> QED
  BY <1>5, <1>12 DEF other

LEMMA AnswerSame ==
  ASSUME NEW doc, IsDocument(doc), Decodes(doc), HasRoom(doc), NEW key,
         Cardinality(Occurrences(doc, Transaction \o <<"RmtInf", "Ustrd">>)) <= 1
  PROVE  ParsePacs008(Reformatted(doc), key, "last") = ParsePacs008(doc, key, "last")
<1> DEFINE other == Reformatted(doc)
           count == Group \o <<"NbOfTxs">>
           definition == Header \o <<"MsgDefIdr">>
<1>1. count \in SingleValuePaths /\ definition \in SingleValuePaths
  BY MappedOnce
<1>2. count \in Verbatim /\ definition \in Verbatim
  BY DEF Verbatim
<1> HIDE DEF count, definition
<1>3. Reads(doc, count) /\ Reads(doc, definition)
  BY <1>1, ReformattedReads
<1>4. /\ WordAt(other, count, "last") = WordAt(doc, count, "last")
      /\ WordAt(other, definition, "last") = WordAt(doc, definition, "last")
  BY <1>2, <1>3 DEF Reads
<1>5. Decodes(other) /\ \A path : Occurrences(other, path) = Occurrences(doc, path)
  BY ReformattedDecodes
<1>6. RequestOf(other, key, "last") = RequestOf(doc, key, "last") /\ CreatedAt(other, "last") = CreatedAt(doc, "last")
  BY RequestSame
<1> DEFINE readable(d) == TransferAmountOk(TransferAmount(d, "last").amount, TransferAmount(d, "last").currency)
<1>7. readable(other) <=> readable(doc)
  BY MoneySame DEF SameMoney
<1> HIDE DEF other, readable
<1> DEFINE Accepted(d) ==
             /\ Decodes(d)
             /\ Cardinality(Occurrences(d, Transaction)) = 1
             /\ WordAt(d, count, "last") \in {"", "1"}
             /\ WordAt(d, definition, "last") \in {"", "pacs.008.001.08"}
             /\ readable(d)
             /\ IsTime(CreatedAt(d, "last"))
             /\ ValidateTransfer(RequestOf(d, key, "last")) = {}
<1>8. \A d : ParsePacs008(d, key, "last") = IF Accepted(d) THEN {RequestOf(d, key, "last")} ELSE {}
  BY DEF ParsePacs008, count, definition, readable
<1>9. Accepted(other) <=> Accepted(doc)
  BY <1>4, <1>5, <1>6, <1>7
<1> HIDE DEF Accepted
<1>10. ParsePacs008(other, key, "last") = ParsePacs008(doc, key, "last")
  <2>1. CASE Accepted(doc)
    BY <1>6, <1>8, <1>9, <2>1
  <2>2. CASE ~Accepted(doc)
    BY <1>8, <1>9, <2>2
  <2> QED
    BY <2>1, <2>2
<1> QED
  BY <1>10 DEF other

(* A transfer sent again in another form is the same request, which is     *)
(* replayed instead of flagged as a conflict (pacs008.go:101-122).         *)
THEOREM AnotherFormIsSame == Spec => []ReformattingIsSame
<1> DEFINE Typed == phase = "received" /\ message.kind = "iso20022" => IsDocument(message.body)
<1>1. Init => Typed
  BY DEF Init
<1>2. Typed /\ [Next]_vars => Typed'
  BY DEF Next, Unauthorized, BadRequest, Accept, CheckWithContext, Respond, vars
<1>3. Typed => ReformattingIsSame
  <2> DEFINE body == message.body
             key == message.keyHeader
  <2> SUFFICES ASSUME Typed, Imports, Decodes(body), HasRoom(body),
                      Cardinality(Occurrences(body, Transaction \o <<"RmtInf", "Ustrd">>)) <= 1
               PROVE  ParsePacs008(Reformatted(body), key, "last") = ParsePacs008(body, key, "last")
    BY DEF ReformattingIsSame, HasRoom
  <2>1. IsDocument(body)
    BY DEF Imports
  <2> QED
    BY <2>1, AnswerSame
<1> QED
  BY <1>1, <1>2, <1>3, PTL DEF Spec

=============================================================================
