--------------------------- MODULE OperatorProofs ---------------------------
(***************************************************************************)
(* What the operators the models share compute and keep: induction and     *)
(* recursion over the numbers below a length, the stable order by          *)
(* priority, bounded lists, and the two-level cache with its FIFO.         *)
(*                                                                         *)
(* The induction theorems of the library are about an operator; the ones   *)
(* here are about a set, of the numbers for which something holds.         *)
(***************************************************************************)
EXTENDS IdempotencyCache, PriorityOrder, SequenceTheorems, FiniteSetTheorems,
        WellFoundedInduction, TLAPS

(* A set of numbers that is not empty has a least element.                 *)
LEMMA LeastElement ==
  ASSUME NEW T \in SUBSET Nat, T # {}
  PROVE  \E n \in T : \A m \in T : n <= m
<1> DEFINE R == OpToRel(<, Nat)
<1>1. IsWellFoundedOn(R, Nat)
  BY NatLessThanWellFounded
<1>2. \A m, n \in Nat : <<m, n>> \in R <=> m < n
  BY DEF OpToRel
<1> HIDE DEF R
<1>3. \E n \in T : \A m \in T : <<m, n>> \notin R
  BY <1>1, WFMin, Zenon
<1>4. PICK n \in T : \A m \in T : <<m, n>> \notin R
  BY <1>3, Zenon
<1>5. \A m \in T : ~(m < n)
  BY <1>2, <1>4
<1> QED
  BY <1>5

(* A set that has 0, and with a number below n the next one, has all of    *)
(* them up to n.                                                           *)
LEMMA Induction ==
  ASSUME NEW n \in Nat, NEW T, 0 \in T,
         \A i \in 0 .. n : i \in T /\ i < n => i + 1 \in T
  PROVE  \A i \in 0 .. n : i \in T
<1> DEFINE Missing == {i \in 0 .. n : i \notin T}
<1> SUFFICES ASSUME Missing # {} PROVE FALSE
  OBVIOUS
<1>1. PICK i \in Missing : \A m \in Missing : i <= m
  <2>1. Missing \in SUBSET Nat
    OBVIOUS
  <2> HIDE DEF Missing
  <2> QED
    BY <2>1, LeastElement
<1>2. i # 0 /\ i - 1 \in 0 .. n /\ i - 1 < n /\ ~(i <= i - 1)
  BY <1>1
<1>3. i - 1 \notin T
  BY <1>1, <1>2
<1>4. i - 1 \in Missing
  BY <1>2, <1>3
<1> QED
  BY <1>1, <1>2, <1>4

(* A list filled from `base` on, each element from the one before.         *)
Recurs(g, n, base, F) ==
  /\ g[0] = base
  /\ \A i \in 1 .. n : g[i] = F[<<i, g[i - 1]>>]

(* Such a list exists, for every length and every step.                    *)
LEMMA RecursionExists ==
  ASSUME NEW A, NEW base \in A, NEW n \in Nat, NEW F \in [(1 .. n) \X A -> A]
  PROVE  \E g \in [0 .. n -> A] : Recurs(g, n, base, F)
<1> DEFINE Filled == {m \in 0 .. n : \E g \in [0 .. m -> A] : Recurs(g, m, base, F)}
<1>1. 0 \in Filled
  <2> DEFINE g == [i \in 0 .. 0 |-> base]
  <2>1. g \in [0 .. 0 -> A] /\ Recurs(g, 0, base, F)
    BY DEF Recurs
  <2> QED
    BY <2>1
<1>2. ASSUME NEW m \in 0 .. n, m \in Filled, m < n PROVE m + 1 \in Filled
  <2>1. PICK g \in [0 .. m -> A] : Recurs(g, m, base, F)
    BY <1>2
  <2> DEFINE h == [i \in 0 .. m + 1 |-> IF i = m + 1 THEN F[<<m + 1, g[m]>>] ELSE g[i]]
  <2>2. m + 1 \in 1 .. n /\ m \in 0 .. m /\ m + 1 - 1 = m /\ m + 1 # m
    BY <1>2
  <2>3. g[m] \in A /\ F[<<m + 1, g[m]>>] \in A
    BY <2>1, <2>2
  <2>4. h \in [0 .. m + 1 -> A]
    <3>1. ASSUME NEW i \in 0 .. m + 1, i # m + 1 PROVE g[i] \in A
      BY <2>1, <3>1
    <3> QED
      BY <2>3, <3>1
  <2>5. h[0] = base
    BY <2>1 DEF Recurs
  <2>6. ASSUME NEW i \in 1 .. m + 1 PROVE h[i] = F[<<i, h[i - 1]>>]
    <3>1. CASE i = m + 1
      <4>1. m + 1 \in 0 .. m + 1 /\ m \in 0 .. m + 1
        BY <2>2
      <4>2. h[m + 1] = F[<<m + 1, g[m]>>] /\ h[m] = g[m]
        BY <2>2, <4>1
      <4> HIDE DEF h
      <4>3. i - 1 = m
        BY <2>2, <3>1
      <4> QED
        BY <3>1, <4>2, <4>3
    <3>2. CASE i # m + 1
      <4>1. i \in 1 .. m /\ i - 1 \in 0 .. m /\ i - 1 # m + 1 /\ i \in 0 .. m + 1 /\ i - 1 \in 0 .. m + 1
        BY <3>2
      <4>2. h[i] = g[i] /\ h[i - 1] = g[i - 1]
        BY <3>2, <4>1
      <4> QED
        BY <2>1, <4>1, <4>2 DEF Recurs
    <3> QED
      BY <3>1, <3>2
  <2>7. Recurs(h, m + 1, base, F)
    BY <2>5, <2>6 DEF Recurs
  <2> QED
    BY <2>2, <2>4, <2>7
<1> HIDE DEF Filled
<1>3. \A m \in 0 .. n : m \in Filled
  BY <1>1, <1>2, Induction
<1>4. n \in Filled
  BY <1>3
<1> QED
  BY <1>4 DEF Filled

(* What is computed step by step has the kind every step preserves.        *)
LEMMA RecursionTyped ==
  ASSUME NEW A, NEW n \in Nat, NEW h, h = [i \in 0 .. n |-> h[i]],
         h[0] \in A, \A i \in 1 .. n : h[i - 1] \in A => h[i] \in A
  PROVE  h \in [0 .. n -> A]
<1> DEFINE Typed == {i \in 0 .. n : h[i] \in A}
<1>1. 0 \in Typed
  OBVIOUS
<1>2. ASSUME NEW i \in 0 .. n, i \in Typed, i < n PROVE i + 1 \in Typed
  <2> DEFINE j == i + 1
  <2>1. j \in 1 .. n /\ j \in 0 .. n /\ j - 1 = i /\ h[i] \in A
    BY <1>2
  <2> HIDE DEF j
  <2>2. h[j] \in A
    BY <2>1
  <2>3. j \in Typed
    BY <2>1, <2>2
  <2> QED
    BY <2>3 DEF j
<1> HIDE DEF Typed
<1>3. \A i \in 0 .. n : i \in Typed
  BY <1>1, <1>2, Induction
<1> QED
  BY <1>3 DEF Typed

(* Induction from above: a set that has a number of D as soon as it has    *)
(* all greater ones of D has all of D.                                     *)
LEMMA InductionFromAbove ==
  ASSUME NEW n \in Nat, NEW D \in SUBSET (1 .. n), NEW T,
         \A i \in D : (\A j \in D : j > i => j \in T) => i \in T
  PROVE  \A i \in D : i \in T
<1> DEFINE Reach == {k \in 0 .. n : \A i \in D : i > n - k => i \in T}
<1>1. 0 \in Reach
  OBVIOUS
<1>2. ASSUME NEW k \in 0 .. n, k \in Reach, k < n PROVE k + 1 \in Reach
  <2>1. k + 1 \in 0 .. n
    BY <1>2
  <2>2. ASSUME NEW i \in D, i > n - (k + 1) PROVE i \in T
    <3>1. i \in Int /\ (i > n - k \/ i = n - k)
      BY <2>2
    <3>2. CASE i > n - k
      BY <1>2, <3>2
    <3>3. CASE i = n - k
      <4>1. \A j \in D : j > i => j \in T
        BY <1>2, <3>3
      <4> QED
        BY <4>1
    <3> QED
      BY <3>1, <3>2, <3>3
  <2> QED
    BY <2>1, <2>2
<1> HIDE DEF Reach
<1>3. \A k \in 0 .. n : k \in Reach
  BY <1>1, <1>2, Induction
<1>4. n \in Reach
  BY <1>3
<1>5. \A i \in D : i > n - n
  OBVIOUS
<1> QED
  BY <1>4, <1>5 DEF Reach

(* F gives the value in A at a number of D, all up to n, from the values   *)
(* at greater ones.                                                        *)
LooksUp(F, n, D, A, base) ==
  /\ n \in Nat /\ D \in SUBSET (1 .. n) /\ base \in A
  /\ F \in [D \X [D -> A] -> A]
  /\ \A i \in D : \A g, h \in [D -> A] :
       (\A j \in D : j > i => g[j] = h[j]) => F[<<i, g>>] = F[<<i, h>>]

(* Then there is a function every value of which is the one F gives.       *)
LEMMA RecursionFromAbove ==
  ASSUME NEW n, NEW D, NEW A, NEW base, NEW F, LooksUp(F, n, D, A, base)
  PROVE  \E g \in [D -> A] : \A i \in D : g[i] = F[<<i, g>>]
<1> DEFINE Right(g, k) == \A i \in D : i > n - k => g[i] = F[<<i, g>>]
           Filled == {k \in 0 .. n : \E g \in [D -> A] : Right(g, k)}
<1>0. n \in Nat /\ D \in SUBSET (1 .. n) /\ base \in A /\ F \in [D \X [D -> A] -> A]
  BY DEF LooksUp
<1>1. 0 \in Filled
  <2> DEFINE g == [i \in D |-> base]
  <2>1. \A i \in D : ~(i > n - 0)
    BY <1>0
  <2>2. g \in [D -> A] /\ Right(g, 0) /\ 0 \in 0 .. n
    BY <1>0, <2>1
  <2> HIDE DEF g
  <2> QED
    BY <2>2
<1>2. ASSUME NEW k \in 0 .. n, k \in Filled, k < n PROVE k + 1 \in Filled
  <2>1. PICK g \in [D -> A] : Right(g, k)
    BY <1>2
  <2>2. k + 1 \in 0 .. n /\ \A i \in D : i > n - (k + 1) => i > n - k \/ i = n - k
    BY <1>0, <1>2
  <2>3. CASE n - k \notin D
    <3>1. Right(g, k + 1)
      BY <2>1, <2>2, <2>3
    <3> QED
      BY <2>2, <3>1
  <2>4. CASE n - k \in D
    <3> DEFINE m == n - k
               h == [g EXCEPT ![m] = F[<<m, g>>]]
    <3>1. F[<<m, g>>] \in A
      BY <1>0, <2>1, <2>4
    <3>2. h \in [D -> A] /\ h[m] = F[<<m, g>>] /\ \A j \in D : j # m => h[j] = g[j]
      BY <2>1, <2>4, <3>1
    <3> HIDE DEF h
    <3>3. ASSUME NEW i \in D, i > m \/ i = m PROVE h[i] = F[<<i, h>>]
      <4>1. \A j \in D : j > i => j # m
        BY <1>0, <2>4, <3>3
      <4>2. \A j \in D : j > i => g[j] = h[j]
        BY <3>2, <4>1
      <4>3. F[<<i, g>>] = F[<<i, h>>]
        BY <3>2, <4>2 DEF LooksUp
      <4>4. CASE i = m
        BY <3>2, <4>3, <4>4
      <4>5. CASE i # m
        <5>1. i > n - k
          BY <1>0, <3>3, <4>5
        <5>2. g[i] = F[<<i, g>>]
          BY <2>1, <5>1
        <5> QED
          BY <3>2, <4>3, <4>5, <5>2
      <4> QED
        BY <4>4, <4>5
    <3>4. Right(h, k + 1)
      BY <2>2, <3>3
    <3> QED
      BY <2>2, <3>2, <3>4
  <2> QED
    BY <2>3, <2>4
<1> HIDE DEF Filled
<1>3. \A k \in 0 .. n : k \in Filled
  BY <1>0, <1>1, <1>2, Induction
<1>4. n \in Filled
  BY <1>0, <1>3
<1>5. \A i \in D : i > n - n
  BY <1>0
<1> QED
  BY <1>4, <1>5 DEF Filled

-----------------------------------------------------------------------------
(* p orders the elements of s by priority and keeps ties in place.         *)
Orders(p, s) ==
  /\ p \in [DOMAIN s -> DOMAIN s]
  /\ \A r, q \in DOMAIN s : r < q =>
       /\ p[r] # p[q]
       /\ \/ s[p[r]].priority < s[p[q]].priority
          \/ s[p[r]].priority = s[p[q]].priority /\ p[r] < p[q]

(* StableByPriority is such an order: nothing is lost and nothing twice.   *)
LEMMA StableOrderExists ==
  ASSUME NEW s, NEW n \in Nat, DOMAIN s = 1 .. n,
         \A i \in 1 .. n : s[i].priority \in Int
  PROVE  \E p : /\ Orders(p, s)
                /\ StableByPriority(s) = [r \in DOMAIN s |-> s[p[r]]]
<1> DEFINE Before(i) == {j \in 1 .. n : \/ s[j].priority < s[i].priority
                                        \/ s[j].priority = s[i].priority /\ j < i}
           Rank(i) == 1 + Cardinality(Before(i))
           p == [r \in 1 .. n |-> CHOOSE i \in 1 .. n : Rank(i) = r]
           rank == [i \in 1 .. n |-> Rank(i)]
<1>1. StableByPriority(s) = [r \in DOMAIN s |-> s[p[r]]]
  BY DEF StableByPriority
<1>2. IsFiniteSet(1 .. n) /\ Cardinality(1 .. n) = n
  BY FS_Interval
<1>3. ASSUME NEW i \in 1 .. n PROVE IsFiniteSet(Before(i)) /\ Cardinality(Before(i)) \in Nat
  BY <1>2, FS_Subset, FS_CardinalityType
<1>4. ASSUME NEW i \in 1 .. n, NEW j \in 1 .. n, i \in Before(j)
      PROVE  Rank(i) < Rank(j)
  <2>1. Before(i) \subseteq Before(j) /\ i \notin Before(i)
    BY <1>4
  <2> HIDE DEF Before
  <2>2. Before(i) # Before(j) /\ Before(i) \in SUBSET Before(j)
    BY <1>4, <2>1
  <2>3. Cardinality(Before(i)) <= Cardinality(Before(j)) /\ Cardinality(Before(i)) # Cardinality(Before(j))
    BY <1>3, <2>2, FS_Subset
  <2> QED
    BY <1>3, <2>3
<1>5. ASSUME NEW i \in 1 .. n, NEW j \in 1 .. n, i # j
      PROVE  i \in Before(j) \/ j \in Before(i)
  BY <1>5
<1>6. ASSUME NEW i \in 1 .. n PROVE Rank(i) \in 1 .. n
  <2>1. Before(i) \in SUBSET ((1 .. n) \ {i})
    OBVIOUS
  <2>2. IsFiniteSet((1 .. n) \ {i}) /\ Cardinality((1 .. n) \ {i}) = n - 1
    BY <1>2, FS_RemoveElement
  <2> HIDE DEF Before
  <2>3. Cardinality(Before(i)) <= n - 1
    BY <2>1, <2>2, FS_Subset
  <2> QED
    BY <1>3, <2>3
<1> HIDE DEF Before, Rank
<1>7. rank \in Injection(1 .. n, 1 .. n)
  <2>1. \A i, j \in 1 .. n : Rank(i) = Rank(j) => i = j
    BY <1>4, <1>5, <1>6
  <2> QED
    BY <1>6, <2>1 DEF Injection, IsInjective
<1>8. rank \in Surjection(1 .. n, 1 .. n)
  <2> HIDE DEF rank
  <2> QED
    BY <1>2, <1>7, FS_Injection
<1>9. \A r \in 1 .. n : p[r] \in 1 .. n /\ Rank(p[r]) = r
  <2>1. \A r \in 1 .. n : \E i \in 1 .. n : Rank(i) = r
    BY <1>8 DEF Surjection
  <2> QED
    BY <2>1
<1> HIDE DEF p
<1>10. Orders(p, s)
  <2>1. p \in [1 .. n -> 1 .. n]
    BY <1>9 DEF p
  <2>2. ASSUME NEW r \in 1 .. n, NEW q \in 1 .. n, r < q
        PROVE  p[r] # p[q] /\ p[r] \in Before(p[q])
    <3>1. p[r] \in 1 .. n /\ p[q] \in 1 .. n /\ Rank(p[r]) = r /\ Rank(p[q]) = q
      BY <1>9
    <3>2. p[q] \notin Before(p[r])
      <4>1. p[q] \in Before(p[r]) => q < r
        BY <1>4, <3>1
      <4> QED
        BY <2>2, <4>1
    <3>3. p[r] # p[q]
      BY <2>2, <3>1
    <3> QED
      BY <1>5, <3>1, <3>2, <3>3
  <2> QED
    BY <2>1, <2>2 DEF Orders, Before
<1> QED
  BY <1>1, <1>10

-----------------------------------------------------------------------------
(* Evicting pairs removes exactly them and leaves other results alone.     *)
LEMMA DiscardKeepsOthers ==
  ASSUME NEW cache, NEW pairs, NEW k, NEW f
  PROVE  /\ Cached(Discard(cache, pairs), k, f) <=> Cached(cache, k, f) /\ <<k, f>> \notin pairs
         /\ Cached(Discard(cache, pairs), k, f) => Discard(cache, pairs)[k][f] = cache[k][f]
BY DEF Discard, Cached

(* No key stays behind without a result, and no key appears.               *)
LEMMA DiscardDropsEmptyKeys ==
  ASSUME NEW cache, NEW pairs, NEW k \in DOMAIN Discard(cache, pairs)
  PROVE  k \in DOMAIN cache /\ DOMAIN Discard(cache, pairs)[k] # {}
BY DEF Discard

(* Setting a result sets that one and leaves the others alone.             *)
LEMMA PutSetsOne ==
  ASSUME NEW cache, NEW k, NEW f, NEW check, NEW kk, NEW ff
  PROVE  /\ Cached(Put(cache, k, f, check), kk, ff) <=>
              Cached(cache, kk, ff) \/ (kk = k /\ ff = f)
         /\ Cached(Put(cache, k, f, check), kk, ff) =>
              Put(cache, k, f, check)[kk][ff] =
                IF kk = k /\ ff = f THEN check ELSE cache[kk][ff]
BY DEF Put, Cached

(* The keys after a result is set.                                         *)
LEMMA PutKeys ==
  ASSUME NEW cache, NEW k, NEW f, NEW check
  PROVE  DOMAIN Put(cache, k, f, check) = DOMAIN cache \cup {k}
BY DEF Put

(* Evicting pairs and setting a result changes no other result.            *)
LEMMA ReplacementCaches ==
  ASSUME NEW cache, NEW pairs, NEW k0, NEW f0, NEW check, NEW new,
         new = Put(Discard(cache, pairs), k0, f0, check)
  PROVE  /\ DOMAIN new \subseteq DOMAIN cache \cup {k0}
         /\ \A k, f : Cached(new, k, f) =>
              IF k = k0 /\ f = f0
              THEN new[k][f] = check
              ELSE Cached(cache, k, f) /\ new[k][f] = cache[k][f]
<1> DEFINE kept == Discard(cache, pairs)
           put == Put(kept, k0, f0, check)
<1>1. \A k, f : /\ Cached(kept, k, f) <=> Cached(cache, k, f) /\ <<k, f>> \notin pairs
                /\ Cached(kept, k, f) => kept[k][f] = cache[k][f]
  <2> TAKE k, f
  <2> QED
    BY DiscardKeepsOthers
<1>2. DOMAIN kept \subseteq DOMAIN cache
  BY DiscardDropsEmptyKeys
<1>3. new = put
  OBVIOUS
<1> HIDE DEF kept
<1>4. \A k, f : /\ Cached(put, k, f) <=> Cached(kept, k, f) \/ (k = k0 /\ f = f0)
                /\ Cached(put, k, f) =>
                     put[k][f] = IF k = k0 /\ f = f0 THEN check ELSE kept[k][f]
  BY PutSetsOne
<1>5. DOMAIN put = DOMAIN kept \cup {k0}
  BY PutKeys, Zenon
<1> HIDE DEF put
<1> QED
  BY <1>1, <1>2, <1>3, <1>4, <1>5

(* Making room evicts no more than there is, and then one more fits.       *)
LEMMA OverflowMakesRoom ==
  ASSUME NEW n \in Nat, NEW max \in Nat \ {0}
  PROVE  /\ Overflow(n, max) \in 0 .. n
         /\ (n - Overflow(n, max)) + 1 \in 1 .. max
BY DEF Overflow

(* Dropping the oldest elements of a list gives a list of the same kind.   *)
LEMMA WithoutOldestType ==
  ASSUME NEW S, NEW s \in Seq(S), NEW n \in 0 .. Len(s)
  PROVE  /\ WithoutOldest(s, n) \in Seq(S)
         /\ Len(WithoutOldest(s, n)) = Len(s) - n
         /\ \A i \in 1 .. Len(s) - n : WithoutOldest(s, n)[i] = s[n + i]
BY SubSeqProperties DEF WithoutOldest

(* A bounded list keeps its kind and its bound.                            *)
LEMMA AppendBoundedType ==
  ASSUME NEW S, NEW s \in Seq(S), NEW x \in S, NEW max \in Nat \ {0}
  PROVE  /\ AppendBounded(s, max, x) \in Seq(S)
         /\ Len(AppendBounded(s, max, x)) \in 1 .. max
<1> DEFINE n == Overflow(Len(s), max)
           rest == WithoutOldest(s, n)
<1>1. Len(s) \in Nat
  BY LenProperties
<1>2. n \in 0 .. Len(s) /\ (Len(s) - n) + 1 \in 1 .. max
  BY <1>1, OverflowMakesRoom
<1>3. rest \in Seq(S) /\ Len(rest) = Len(s) - n
  BY <1>2, WithoutOldestType
<1>4. Append(rest, x) \in Seq(S) /\ Len(Append(rest, x)) = Len(rest) + 1
  BY <1>3, AppendProperties
<1> QED
  BY <1>2, <1>3, <1>4 DEF AppendBounded

(* A list holds the last elements of a log, as many as max allows.         *)
IsTail(list, log, max) ==
  /\ Len(list) = (IF Len(log) < max THEN Len(log) ELSE max)
  /\ \A i \in 1 .. Len(list) : list[i] = log[(Len(log) - Len(list)) + i]

(* list is s after x came in and the e oldest of its n elements went.      *)
Succeeds(list, s, max, x) ==
  LET n == Len(s)
      e == Overflow(n, max)
  IN  /\ n \in Nat /\ e \in 0 .. n
      /\ Len(list) = (n - e) + 1
      /\ \A i \in 1 .. n - e : list[i] = s[e + i]
      /\ list[(n - e) + 1] = x

(* What appending to a bounded list does, element by element.              *)
LEMMA AppendBoundedElements ==
  ASSUME NEW S, NEW s \in Seq(S), NEW x \in S, NEW max \in Nat \ {0}
  PROVE  Succeeds(AppendBounded(s, max, x), s, max, x)
<1> DEFINE n == Len(s)
           e == Overflow(n, max)
           rest == WithoutOldest(s, e)
           t == AppendBounded(s, max, x)
<1>1. n \in Nat /\ e \in 0 .. n
  BY LenProperties, OverflowMakesRoom
<1>2. t = Append(rest, x)
  BY DEF AppendBounded
<1> HIDE DEF e
<1>3. /\ rest \in Seq(S) /\ Len(rest) = n - e
      /\ \A i \in 1 .. n - e : rest[i] = s[e + i]
  BY <1>1, WithoutOldestType
<1> HIDE DEF rest, n, t
<1>4. /\ Len(t) = Len(rest) + 1 /\ t[Len(rest) + 1] = x
      /\ \A i \in 1 .. Len(rest) : t[i] = rest[i]
  BY <1>2, <1>3, AppendProperties
<1>5. /\ Len(t) = (n - e) + 1
      /\ \A i \in 1 .. n - e : t[i] = s[e + i]
      /\ t[(n - e) + 1] = x
  BY <1>1, <1>3, <1>4
<1> QED
  BY <1>1, <1>5 DEF Succeeds, n, e, t

(* A list and its log grow together.                                       *)
LEMMA TailGrows ==
  ASSUME NEW S, NEW s \in Seq(S), NEW log \in Seq(S), NEW x \in S, NEW max \in Nat \ {0},
         IsTail(s, log, max)
  PROVE  IsTail(AppendBounded(s, max, x), Append(log, x), max)
<1> DEFINE n == Len(s)
           m == Len(log)
           e == Overflow(n, max)
           t == AppendBounded(s, max, x)
           grown == Append(log, x)
<1>1. /\ n \in Nat /\ e \in 0 .. n /\ Len(t) = (n - e) + 1
      /\ \A i \in 1 .. n - e : t[i] = s[e + i]
      /\ t[(n - e) + 1] = x
  <2>1. Succeeds(t, s, max, x)
    BY AppendBoundedElements
  <2> QED
    BY <2>1 DEF Succeeds
<1>2. /\ m \in Nat /\ Len(grown) = m + 1 /\ grown[m + 1] = x
      /\ \A i \in 1 .. m : grown[i] = log[i]
  BY LenProperties, AppendProperties
<1>3. /\ n = IF m < max THEN m ELSE max
      /\ \A i \in 1 .. n : s[i] = log[(m - n) + i]
  BY DEF IsTail
<1>4. e = IF n >= max THEN n - max + 1 ELSE 0
  BY DEF Overflow
<1> HIDE DEF n, m, e, t, grown
<1>5. Len(t) = (IF m + 1 < max THEN m + 1 ELSE max) /\ m + 1 - Len(t) = (m - n) + e
  BY <1>1, <1>2, <1>3, <1>4
<1>6. ASSUME NEW i \in 1 .. Len(t) PROVE t[i] = grown[(m + 1 - Len(t)) + i]
  <2>1. CASE i = (n - e) + 1
    <3>1. (m + 1 - Len(t)) + i = m + 1
      BY <1>1, <1>2, <2>1
    <3> QED
      BY <1>1, <1>2, <2>1, <3>1
  <2>2. CASE i # (n - e) + 1
    <3>1. i \in 1 .. n - e /\ e + i \in 1 .. n
      BY <1>1, <2>2
    <3>2. t[i] = log[(m - n) + (e + i)]
      BY <1>1, <1>3, <3>1
    <3>3. (m - n) + (e + i) = (m + 1 - Len(t)) + i /\ (m - n) + (e + i) \in 1 .. m
      BY <1>1, <1>2, <1>3, <1>5, <3>1
    <3> QED
      BY <1>2, <3>2, <3>3
  <2> QED
    BY <2>1, <2>2
<1>7. IsTail(t, grown, max)
  BY <1>2, <1>5, <1>6 DEF IsTail
<1> QED
  BY <1>7 DEF t, grown

(* The cache holds the pairs of its FIFO, each once, with the last checks  *)
(* of the log, and no key without a result.                                *)
Agree(cache, fifo, log) ==
  /\ Len(fifo) <= Len(log)
  /\ \A i, j \in 1 .. Len(fifo) : fifo[i] = fifo[j] => i = j
  /\ \A k, f : Cached(cache, k, f) => \E i \in 1 .. Len(fifo) : fifo[i] = <<k, f>>
  /\ \A i \in 1 .. Len(fifo) :
       /\ Cached(cache, fifo[i][1], fifo[i][2])
       /\ cache[fifo[i][1]][fifo[i][2]] = log[(Len(log) - Len(fifo)) + i]
  /\ \A k \in DOMAIN cache : DOMAIN cache[k] # {}

ArePairs(P) == \A p \in P : p = <<p[1], p[2]>>

(* The pairs with a result are those the FIFO lists.                       *)
LEMMA AgreementListsPairs ==
  ASSUME NEW P, ArePairs(P), NEW cache, NEW fifo \in Seq(P), NEW log, Agree(cache, fifo, log)
  PROVE  CachedPairs(cache) = {fifo[i] : i \in 1 .. Len(fifo)}
<1> DEFINE n == Len(fifo)
<1>1. \A i \in 1 .. n : fifo[i] = <<fifo[i][1], fifo[i][2]>> /\ Cached(cache, fifo[i][1], fifo[i][2])
  <2>1. \A i \in 1 .. n : fifo[i] \in P
    BY ElementOfSeq
  <2> QED
    BY <2>1 DEF Agree, ArePairs
<1>2. \A k, f : Cached(cache, k, f) => \E i \in 1 .. n : fifo[i] = <<k, f>>
  BY DEF Agree
<1> HIDE DEF n
<1>3. ASSUME NEW k \in DOMAIN cache, NEW f \in DOMAIN cache[k]
      PROVE  <<k, f>> \in {fifo[i] : i \in 1 .. n}
  BY <1>2, <1>3, Zenon DEF Cached
<1>4. ASSUME NEW k \in DOMAIN cache, NEW f \in DOMAIN cache[k]
      PROVE  <<k, f>> \in CachedPairs(cache)
  <2> DEFINE Pairs(kk) == {<<kk, ff>> : ff \in DOMAIN cache[kk]}
  <2>1. <<k, f>> \in Pairs(k)
    OBVIOUS
  <2>2. CachedPairs(cache) = UNION {Pairs(kk) : kk \in DOMAIN cache}
    BY DEF CachedPairs
  <2> HIDE DEF Pairs
  <2>3. Pairs(k) \in {Pairs(kk) : kk \in DOMAIN cache}
    OBVIOUS
  <2> QED
    BY <2>1, <2>2, <2>3
<1>5. ASSUME NEW i \in 1 .. n PROVE fifo[i] \in CachedPairs(cache)
  BY <1>1, <1>4, <1>5, Zenon DEF Cached
<1>6. ASSUME NEW pair \in CachedPairs(cache)
      PROVE  \E k \in DOMAIN cache : \E f \in DOMAIN cache[k] : pair = <<k, f>>
  BY Zenon DEF CachedPairs
<1>7. ASSUME NEW pair \in CachedPairs(cache) PROVE pair \in {fifo[i] : i \in 1 .. n}
  <2>1. PICK k \in DOMAIN cache : \E f \in DOMAIN cache[k] : pair = <<k, f>>
    BY <1>6
  <2>2. PICK f \in DOMAIN cache[k] : pair = <<k, f>>
    BY <2>1
  <2> QED
    BY <1>3, <2>2
<1> QED
  BY <1>5, <1>7 DEF n

(* Evicting the oldest and storing a pair that is not there keeps it so.   *)
LEMMA AgreementGrows ==
  ASSUME NEW P, ArePairs(P), NEW S, NEW cache,
         NEW fifo \in Seq(P), NEW log \in Seq(S),
         NEW k0, NEW f0, <<k0, f0>> \in P, NEW x \in S, NEW max \in Nat \ {0},
         Agree(cache, fifo, log), ~Cached(cache, k0, f0)
  PROVE  Agree(Put(Discard(cache, Oldest(fifo, Overflow(Len(fifo), max))), k0, f0, x),
               AppendBounded(fifo, max, <<k0, f0>>), Append(log, x))
<1> DEFINE n == Len(fifo)
           e == Overflow(n, max)
           gone == Oldest(fifo, e)
           kept == Discard(cache, gone)
           put == Put(kept, k0, f0, x)
           t == AppendBounded(fifo, max, <<k0, f0>>)
           grown == Append(log, x)
<1>1. /\ n \in Nat /\ e \in 0 .. n /\ Len(t) = (n - e) + 1
      /\ \A i \in 1 .. n - e : t[i] = fifo[e + i]
      /\ t[(n - e) + 1] = <<k0, f0>>
  <2>1. Succeeds(t, fifo, max, <<k0, f0>>)
    BY AppendBoundedElements
  <2> QED
    BY <2>1 DEF Succeeds
<1>2. /\ Len(log) \in Nat /\ Len(grown) = Len(log) + 1 /\ grown[Len(log) + 1] = x
      /\ \A i \in 1 .. Len(log) : grown[i] = log[i]
  BY LenProperties, AppendProperties
<1> HIDE DEF gone
<1>3. \A k, f : /\ Cached(kept, k, f) <=> Cached(cache, k, f) /\ <<k, f>> \notin gone
                /\ Cached(kept, k, f) => kept[k][f] = cache[k][f]
  BY DiscardKeepsOthers
<1>4. \A k, f : /\ Cached(put, k, f) <=> Cached(kept, k, f) \/ (k = k0 /\ f = f0)
                /\ Cached(put, k, f) =>
                     put[k][f] = IF k = k0 /\ f = f0 THEN x ELSE kept[k][f]
  <2> HIDE DEF kept
  <2> QED
    BY PutSetsOne
<1>5. \A k \in DOMAIN put : DOMAIN put[k] # {}
  <2>1. \A k \in DOMAIN kept : DOMAIN kept[k] # {}
    BY DiscardDropsEmptyKeys
  <2> HIDE DEF kept
  <2>2. DOMAIN put = DOMAIN kept \cup {k0}
    BY PutKeys, Zenon
  <2> HIDE DEF put
  <2>3. Cached(put, k0, f0)
    BY <1>4
  <2>4. ASSUME NEW k \in DOMAIN kept PROVE DOMAIN put[k] # {}
    <3>1. PICK f : f \in DOMAIN kept[k]
      BY <2>1
    <3>2. Cached(put, k, f)
      BY <1>4, <3>1 DEF Cached
    <3> QED
      BY <3>2 DEF Cached
  <2> QED
    BY <2>2, <2>3, <2>4 DEF Cached
<1> HIDE DEF kept, put, t, n, e, grown
<1>6. \A i \in 1 .. n : /\ fifo[i] = <<fifo[i][1], fifo[i][2]>>
                        /\ Cached(cache, fifo[i][1], fifo[i][2])
                        /\ fifo[i] # <<k0, f0>>
                        /\ cache[fifo[i][1]][fifo[i][2]] = log[(Len(log) - n) + i]
  <2>1. \A i \in 1 .. n : fifo[i] \in P
    BY ElementOfSeq DEF n
  <2> QED
    BY <2>1 DEF Agree, ArePairs, n
<1>7. n <= Len(log) /\ \A i, j \in 1 .. n : fifo[i] = fifo[j] => i = j
  BY DEF Agree, n
<1>8. Len(t) <= Len(grown) /\ Len(grown) - Len(t) = (Len(log) - n) + e
  BY <1>1, <1>2, <1>7
<1>9. \A i, j \in 1 .. Len(t) : t[i] = t[j] => i = j
  <2> TAKE i, j \in 1 .. Len(t)
  <2>1. CASE i = (n - e) + 1 /\ j = (n - e) + 1
    BY <2>1
  <2>2. CASE i # (n - e) + 1 /\ j # (n - e) + 1
    <3>1. /\ i \in 1 .. n - e /\ j \in 1 .. n - e
          /\ e + i \in 1 .. n /\ e + j \in 1 .. n
      BY <1>1, <2>2
    <3> QED
      BY <1>1, <1>7, <3>1
  <2>3. CASE i = (n - e) + 1 /\ j # (n - e) + 1
    <3>1. j \in 1 .. n - e /\ e + j \in 1 .. n
      BY <1>1, <2>3
    <3> QED
      BY <1>1, <1>6, <2>3, <3>1
  <2>4. CASE i # (n - e) + 1 /\ j = (n - e) + 1
    <3>1. i \in 1 .. n - e /\ e + i \in 1 .. n
      BY <1>1, <2>4
    <3> QED
      BY <1>1, <1>6, <2>4, <3>1
  <2> QED
    BY <2>1, <2>2, <2>3, <2>4
<1>10. ASSUME NEW k, NEW f, Cached(put, k, f)
       PROVE  \E i \in 1 .. Len(t) : t[i] = <<k, f>>
  <2>1. CASE k = k0 /\ f = f0
    <3>1. (n - e) + 1 \in 1 .. Len(t)
      BY <1>1
    <3> QED
      BY <1>1, <2>1, <3>1
  <2>2. CASE ~(k = k0 /\ f = f0)
    <3>1. Cached(cache, k, f) /\ <<k, f>> \notin gone
      BY <1>3, <1>4, <1>10, <2>2
    <3>2. PICK i \in 1 .. n : fifo[i] = <<k, f>>
      BY <3>1 DEF Agree, n
    <3>3. i \notin 1 .. e
      BY <3>1, <3>2 DEF gone, Oldest
    <3>4. i - e \in 1 .. n - e /\ e + (i - e) = i /\ i - e \in 1 .. Len(t)
      BY <1>1, <3>3
    <3>5. t[i - e] = fifo[e + (i - e)]
      BY <1>1, <3>4
    <3> QED
      BY <3>2, <3>4, <3>5
  <2> QED
    BY <2>1, <2>2
<1>11. ASSUME NEW i \in 1 .. Len(t)
       PROVE  /\ Cached(put, t[i][1], t[i][2])
              /\ put[t[i][1]][t[i][2]] = grown[(Len(grown) - Len(t)) + i]
  <2>1. CASE i = (n - e) + 1
    <3>1. t[i] = <<k0, f0>> /\ t[i][1] = k0 /\ t[i][2] = f0
      BY <1>1, <2>1
    <3>2. (Len(grown) - Len(t)) + i = Len(log) + 1
      BY <1>1, <1>2, <2>1
    <3> QED
      BY <1>2, <1>4, <3>1, <3>2
  <2>2. CASE i # (n - e) + 1
    <3>1. i \in 1 .. n - e /\ e + i \in 1 .. n /\ e + i \notin 1 .. e
      BY <1>1, <2>2
    <3>2. PICK k, f : fifo[e + i] = <<k, f>>
      BY <1>6, <3>1
    <3>3. /\ t[i][1] = k /\ t[i][2] = f /\ ~(k = k0 /\ f = f0)
          /\ Cached(cache, k, f)
          /\ cache[k][f] = log[(Len(log) - n) + (e + i)]
      <4>1. t[i] = <<k, f>>
        BY <1>1, <3>1, <3>2
      <4>2. fifo[e + i][1] = k /\ fifo[e + i][2] = f /\ <<k, f>> # <<k0, f0>>
        BY <1>6, <3>1, <3>2
      <4> QED
        BY <1>6, <3>1, <4>1, <4>2
    <3>4. <<k, f>> \notin gone
      <4> SUFFICES ASSUME NEW j \in 1 .. e, <<k, f>> = fifo[j] PROVE FALSE
        BY DEF gone, Oldest
      <4>1. j \in 1 .. n /\ j # e + i
        BY <1>1, <3>1
      <4> QED
        BY <1>7, <3>1, <3>2, <4>1
    <3>5. Cached(put, k, f) /\ put[k][f] = cache[k][f]
      <4>1. Cached(kept, k, f) /\ kept[k][f] = cache[k][f]
        BY <1>3, <3>3, <3>4
      <4>2. Cached(put, k, f)
        BY <1>4, <4>1
      <4> QED
        BY <1>4, <3>3, <4>1, <4>2
    <3>6. /\ (Len(log) - n) + (e + i) = (Len(grown) - Len(t)) + i
          /\ (Len(log) - n) + (e + i) \in 1 .. Len(log)
      <4>1. n \in Nat /\ e \in Nat /\ Len(log) \in Nat /\ n <= Len(log)
        BY <1>1, <1>2, <1>7
      <4> QED
        BY <1>8, <3>1, <4>1
    <3> QED
      BY <1>2, <3>3, <3>5, <3>6
  <2> QED
    BY <2>1, <2>2
<1> QED
  BY <1>5, <1>8, <1>9, <1>10, <1>11 DEF Agree, put, kept, gone, t, grown, e, n

=============================================================================
