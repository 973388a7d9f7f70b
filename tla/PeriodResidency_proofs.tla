----------------------- MODULE PeriodResidency_proofs -----------------------
(***************************************************************************)
(* What the figures of dashboards and reports are made of: SumOf, sums     *)
(* over finite sets, and the stays of a finding in its periods, for any    *)
(* sets of findings and periods.                                           *)
(***************************************************************************)
EXTENDS PeriodResidency, SequenceTheorems, FiniteSetTheorems, WellFoundedInduction, TLAPS

-----------------------------------------------------------------------------
(* Sums over sequences and sets, for every sequence of numbers.  Induction *)
(* is over a set of naturals rather than a predicate: a set that holds 0   *)
(* and the successors of its elements holds every natural.                 *)

\* Induction, from the well-foundedness of < on the naturals
LEMMA NatSetInduction ==
    ASSUME NEW S, 0 \in S, \A n \in Nat : n \in S => n + 1 \in S
    PROVE  Nat \subseteq S
<1> DEFINE T == Nat \ S
           R == OpToRel(<, Nat)
<1>1. R = {ss \in Nat \X Nat : ss[1] < ss[2]}
    BY DEF OpToRel
<1>2. IsWellFoundedOn(R, Nat)
    BY NatLessThanWellFounded
<1>3. SUFFICES ASSUME T # {} PROVE FALSE
    OBVIOUS
<1>4. T \subseteq Nat
    OBVIOUS
<1>5. PICK n \in T : \A m \in T : <<m, n>> \notin R
  <2> HIDE DEF T, R
  <2> QED
    BY <1>2, <1>3, <1>4, WFMin
<1>6. n \in Nat /\ n # 0 /\ n - 1 \in Nat
    OBVIOUS
<1>7. <<n - 1, n>> \in R
    <2>1. <<n - 1, n>> \in Nat \X Nat /\ <<n - 1, n>>[1] < <<n - 1, n>>[2]
        BY <1>6
    <2> HIDE DEF R
    <2> QED
        BY <1>1, <2>1
<1>8. n - 1 \in S
    BY <1>5, <1>6, <1>7
<1>9. n \in S
    BY <1>6, <1>8
<1> QED
    BY <1>9

\* The equation PartialSums solves, and the sequences of partial sums
Solves(s, w) == s = [i \in 0..Len(w) |-> IF i = 0 THEN 0 ELSE s[i - 1] + w[i]]

SumsUpTo(g, w, k) ==
    /\ g \in [0..k -> Int]
    /\ g[0] = 0
    /\ \A i \in 1..k : g[i] = g[i - 1] + w[i]

Summable(w, k) == \E g : SumsUpTo(g, w, k)

\* Partial sums exist: those of one number more can always be formed.
LEMMA SumsExist ==
    ASSUME NEW w \in Seq(Int)
    PROVE  Summable(w, Len(w))
<1> DEFINE n == Len(w)
           Reach == {k \in Nat : k <= n => Summable(w, k)}
<1>1. n \in Nat /\ \A i \in 1..n : w[i] \in Int
    OBVIOUS
<1>2. Summable(w, 0)
    <2>1. SumsUpTo([i \in 0..0 |-> 0], w, 0)
        BY DEF SumsUpTo
    <2> QED
        BY <2>1 DEF Summable
<1>3. ASSUME NEW k \in Nat, k + 1 <= n, Summable(w, k) PROVE Summable(w, k + 1)
    <2>1. PICK g : SumsUpTo(g, w, k)
        BY <1>3 DEF Summable
    <2> DEFINE h == [i \in 0..(k + 1) |-> IF i = k + 1 THEN g[k] + w[k + 1] ELSE g[i]]
    <2>2. g[k] \in Int /\ w[k + 1] \in Int
        BY <1>1, <1>3, <2>1 DEF SumsUpTo
    <2>3. h \in [0..(k + 1) -> Int] /\ h[0] = 0
        BY <2>1, <2>2 DEF SumsUpTo
    <2>4. ASSUME NEW i \in 1..(k + 1) PROVE h[i] = h[i - 1] + w[i]
        BY <2>1, <2>4 DEF SumsUpTo
    <2>5. SumsUpTo(h, w, k + 1)
        BY <2>3, <2>4 DEF SumsUpTo
    <2> QED
        BY <2>5 DEF Summable
<1>4. Nat \subseteq Reach
    <2>1. 0 \in Reach
        BY <1>2
    <2>2. ASSUME NEW k \in Nat, k \in Reach PROVE k + 1 \in Reach
        BY <1>1, <1>3, <2>2
    <2> HIDE DEF Reach
    <2> QED
        BY <2>1, <2>2, NatSetInduction
<1> QED
    BY <1>1, <1>4

\* So PartialSums solves its equation ...
LEMMA PartialSumsSolve ==
    ASSUME NEW w \in Seq(Int)
    PROVE  Solves(PartialSums(w), w)
<1>1. PICK g : SumsUpTo(g, w, Len(w))
    BY SumsExist DEF Summable
<1>2. Len(w) \in Nat
    OBVIOUS
<1>3. Solves(g, w)
    BY <1>1, <1>2 DEF Solves, SumsUpTo
<1>4. PartialSums(w) = CHOOSE s : Solves(s, w)
    BY DEF PartialSums, Solves
<1> QED
    BY <1>3, <1>4

\* ... and whatever solves it is a sequence of partial sums.
LEMMA SolutionsAreSums ==
    ASSUME NEW w \in Seq(Int), NEW s, Solves(s, w)
    PROVE  SumsUpTo(s, w, Len(w))
<1> DEFINE n == Len(w)
           Typed == {k \in Nat : k <= n => s[k] \in Int}
<1>1. n \in Nat /\ \A i \in 1..n : w[i] \in Int
    OBVIOUS
<1>2. s[0] = 0 /\ \A i \in 1..n : s[i] = s[i - 1] + w[i]
    <2>1. ASSUME NEW i \in 0..n PROVE s[i] = IF i = 0 THEN 0 ELSE s[i - 1] + w[i]
        BY DEF Solves
    <2> QED
        BY <1>1, <2>1
<1>3. Nat \subseteq Typed
    <2>1. 0 \in Typed
        BY <1>2
    <2>2. ASSUME NEW k \in Nat, k \in Typed PROVE k + 1 \in Typed
        <3>1. SUFFICES ASSUME k + 1 <= n PROVE s[k + 1] \in Int
            OBVIOUS
        <3>2. s[k] \in Int /\ w[k + 1] \in Int /\ k + 1 \in 1..n /\ (k + 1) - 1 = k
            BY <1>1, <2>2, <3>1
        <3>3. s[k + 1] = s[(k + 1) - 1] + w[k + 1]
            BY <1>2, <3>2
        <3> QED
            BY <3>2, <3>3
    <2> HIDE DEF Typed
    <2> QED
        BY <2>1, <2>2, NatSetInduction
<1>4. s \in [0..n -> Int]
    <2>1. \A i \in 0..n : s[i] \in Int
        BY <1>1, <1>3
    <2>2. s = [i \in 0..n |-> s[i]]
        BY DEF Solves
    <2> QED
        BY <2>1, <2>2
<1> QED
    BY <1>2, <1>4 DEF SumsUpTo

\* A sum of naturals is a natural.
LEMMA SumOfNats ==
    ASSUME NEW w \in Seq(Nat)
    PROVE  SumOf(w) \in Nat
<1> DEFINE n == Len(w)
           p == PartialSums(w)
           Good == {k \in Nat : k <= n => p[k] \in Nat}
<1>1. n \in Nat /\ (\A i \in 1..n : w[i] \in Nat) /\ w \in Seq(Int)
    OBVIOUS
<1>2. SumsUpTo(p, w, n)
    BY <1>1, PartialSumsSolve, SolutionsAreSums
<1> HIDE DEF p
<1>3. Nat \subseteq Good
    <2>1. 0 \in Good
        BY <1>2 DEF SumsUpTo
    <2>2. ASSUME NEW k \in Nat, k \in Good PROVE k + 1 \in Good
        <3>1. SUFFICES ASSUME k + 1 <= n PROVE p[k + 1] \in Nat
            OBVIOUS
        <3>2. p[k] \in Nat /\ w[k + 1] \in Nat /\ k + 1 \in 1..n /\ (k + 1) - 1 = k
            BY <1>1, <2>2, <3>1
        <3>3. p[k + 1] = p[(k + 1) - 1] + w[k + 1]
            BY <1>2, <3>2 DEF SumsUpTo
        <3> QED
            BY <3>2, <3>3
    <2> HIDE DEF Good
    <2> QED
        BY <2>1, <2>2, NatSetInduction
<1>4. p[n] \in Nat
    BY <1>1, <1>3
<1> QED
    BY <1>4 DEF SumOf, p

\* A sum of naturals is at least each of them.
LEMMA SumAtLeast ==
    ASSUME NEW w \in Seq(Nat), NEW j \in 1..Len(w)
    PROVE  w[j] <= SumOf(w)
<1> DEFINE n == Len(w)
           p == PartialSums(w)
           Over == {k \in Nat : j + k <= n => p[j + k] \in Nat /\ w[j] <= p[j + k]}
           Good == {k \in Nat : k < j => p[k] \in Nat}
<1>1. n \in Nat /\ (\A i \in 1..n : w[i] \in Nat) /\ w \in Seq(Int) /\ j \in Nat \ {0} /\ j <= n
    OBVIOUS
<1>2. SumsUpTo(p, w, n)
    BY <1>1, PartialSumsSolve, SolutionsAreSums
<1> HIDE DEF p
<1>3. \A i \in Nat : i + 1 <= n => p[i + 1] = p[i] + w[i + 1] /\ w[i + 1] \in Nat
    <2>1. ASSUME NEW i \in Nat, i + 1 <= n PROVE p[i + 1] = p[i] + w[i + 1] /\ w[i + 1] \in Nat
        <3>1. i + 1 \in 1..n /\ (i + 1) - 1 = i
            BY <1>1, <2>1
        <3> QED
            BY <1>1, <1>2, <3>1 DEF SumsUpTo
    <2> QED
        BY <2>1
<1>4. Nat \subseteq Good
    <2>1. 0 \in Good
        BY <1>2 DEF SumsUpTo
    <2>2. ASSUME NEW k \in Nat, k \in Good PROVE k + 1 \in Good
        <3>1. SUFFICES ASSUME k + 1 < j PROVE p[k + 1] \in Nat
            OBVIOUS
        <3>2. p[k] \in Nat /\ k + 1 <= n
            BY <1>1, <2>2, <3>1
        <3>3. p[k + 1] = p[k] + w[k + 1] /\ w[k + 1] \in Nat
            BY <1>3, <3>2
        <3> QED
            BY <3>2, <3>3
    <2> HIDE DEF Good
    <2> QED
        BY <2>1, <2>2, NatSetInduction
<1>5. Nat \subseteq Over
    <2>1. 0 \in Over
        <3>1. j - 1 \in Nat /\ j - 1 < j /\ (j - 1) + 1 = j
            BY <1>1
        <3>2. p[j - 1] \in Nat
            BY <1>4, <3>1
        <3>3. p[j] = p[j - 1] + w[j] /\ w[j] \in Nat
            BY <1>1, <1>3, <3>1
        <3> QED
            BY <1>1, <3>2, <3>3
    <2>2. ASSUME NEW k \in Nat, k \in Over PROVE k + 1 \in Over
        <3>1. SUFFICES ASSUME (j + k) + 1 <= n
                       PROVE  p[(j + k) + 1] \in Nat /\ w[j] <= p[(j + k) + 1]
            BY <1>1
        <3>2. j + k \in Nat /\ p[j + k] \in Nat /\ w[j] <= p[j + k]
            BY <1>1, <2>2, <3>1
        <3>3. p[(j + k) + 1] = p[j + k] + w[(j + k) + 1] /\ w[(j + k) + 1] \in Nat
            BY <1>3, <3>1, <3>2
        <3>4. w[j] \in Nat
            BY <1>1
        <3> QED
            BY <3>2, <3>3, <3>4
    <2> HIDE DEF Over
    <2> QED
        BY <2>1, <2>2, NatSetInduction
<1>6. w[j] <= p[n]
    <2>1. n - j \in Nat /\ j + (n - j) = n
        BY <1>1
    <2> QED
        BY <1>5, <2>1
<1> QED
    BY <1>6 DEF SumOf, p

\* The sum of nothing
LEMMA SumOfEmpty == SumOf(<<>>) = 0
<1> DEFINE none == <<>>
<1>1. none \in Seq(Int) /\ Len(none) = 0
    BY EmptySeq
<1> HIDE DEF none
<1>2. SumsUpTo(PartialSums(none), none, 0)
    BY <1>1, PartialSumsSolve, SolutionsAreSums
<1>3. SumOf(none) = 0
    BY <1>1, <1>2 DEF SumOf, SumsUpTo
<1> QED
    BY <1>3 DEF none

\* Sums that start alike are alike: the partial sums of one sequence are
\* those of any longer one.
LEMMA SumsAgree ==
    ASSUME NEW w \in Seq(Int), NEW v \in Seq(Int), NEW m \in 0..Len(w), m <= Len(v),
           \A i \in 1..m : w[i] = v[i]
    PROVE  PartialSums(w)[m] = PartialSums(v)[m]
<1> DEFINE p == PartialSums(w)
           q == PartialSums(v)
           Same == {k \in Nat : k <= m => p[k] = q[k]}
<1>1. Len(w) \in Nat /\ Len(v) \in Nat
    OBVIOUS
<1>2. SumsUpTo(p, w, Len(w)) /\ SumsUpTo(q, v, Len(v))
    BY PartialSumsSolve, SolutionsAreSums
<1> HIDE DEF p, q
<1>3. 0 \in Same
    BY <1>2 DEF SumsUpTo
<1>4. ASSUME NEW k \in Nat, k \in Same PROVE k + 1 \in Same
    <2>1. SUFFICES ASSUME k + 1 <= m PROVE p[k + 1] = q[k + 1]
        OBVIOUS
    <2>2. p[k] = q[k] /\ k + 1 \in 1..m /\ k + 1 \in 1..Len(w) /\ k + 1 \in 1..Len(v)
        BY <1>1, <1>4, <2>1
    <2>3. p[k + 1] = p[(k + 1) - 1] + w[k + 1] /\ q[k + 1] = q[(k + 1) - 1] + v[k + 1]
        BY <1>2, <2>2 DEF SumsUpTo
    <2>4. (k + 1) - 1 = k
        OBVIOUS
    <2> QED
        BY <2>2, <2>3, <2>4
<1>5. Nat \subseteq Same
    <2> HIDE DEF Same
    <2> QED
        BY <1>3, <1>4, NatSetInduction
<1> QED
    BY <1>1, <1>5 DEF p, q

\* One number more at the end
LEMMA SumOfAppend ==
    ASSUME NEW w \in Seq(Int), NEW x \in Int
    PROVE  SumOf(Append(w, x)) = SumOf(w) + x
<1> DEFINE v == Append(w, x)
           n == Len(w)
<1>1. /\ n \in Nat /\ v \in Seq(Int) /\ Len(v) = n + 1 /\ v[n + 1] = x
      /\ \A i \in 1..n : w[i] = v[i]
    OBVIOUS
<1> HIDE DEF v
<1>2. SumsUpTo(PartialSums(v), v, n + 1)
    BY <1>1, PartialSumsSolve, SolutionsAreSums
<1>3. PartialSums(v)[n + 1] = PartialSums(v)[(n + 1) - 1] + x
    BY <1>1, <1>2 DEF SumsUpTo
<1>4. (n + 1) - 1 = n
    BY <1>1
<1>5. PartialSums(w)[n] = PartialSums(v)[n]
    <2>1. n \in 0..Len(w) /\ n <= Len(v) /\ w \in Seq(Int)
        BY <1>1
    <2> HIDE DEF n
    <2>2. \A i \in 1..n : w[i] = v[i]
        BY <1>1
    <2> QED
        BY <1>1, <2>1, <2>2, SumsAgree
<1> QED
    BY <1>1, <1>3, <1>4, <1>5 DEF SumOf, v

\* A function on the first m positions is a sequence.
LEMMA IntsInOrder ==
    ASSUME NEW m \in Nat, NEW w \in [1..m -> Int]
    PROVE  w \in Seq(Int) /\ Len(w) = m
OBVIOUS

\* Whatever adds up a sequence from 0 ends in its sum.
LEMMA SumIs ==
    ASSUME NEW w \in Seq(Int), NEW g, SumsUpTo(g, w, Len(w))
    PROVE  SumOf(w) = g[Len(w)] /\ SumOf(w) \in Int
<1> DEFINE p == PartialSums(w)
           n == Len(w)
           Same == {k \in Nat : k <= n => p[k] = g[k]}
<1>1. n \in Nat /\ SumsUpTo(p, w, n)
    BY PartialSumsSolve, SolutionsAreSums
<1> HIDE DEF p
<1>2. 0 \in Same
    BY <1>1 DEF SumsUpTo
<1>3. ASSUME NEW k \in Nat, k \in Same PROVE k + 1 \in Same
    <2>1. SUFFICES ASSUME k + 1 <= n PROVE p[k + 1] = g[k + 1]
        OBVIOUS
    <2>2. p[k] = g[k] /\ k + 1 \in 1..n /\ (k + 1) - 1 = k
        BY <1>1, <1>3, <2>1
    <2>3. p[k + 1] = p[(k + 1) - 1] + w[k + 1] /\ g[k + 1] = g[(k + 1) - 1] + w[k + 1]
        BY <1>1, <2>2 DEF SumsUpTo
    <2> QED
        BY <2>2, <2>3
<1>4. Nat \subseteq Same
    <2> HIDE DEF Same
    <2> QED
        BY <1>2, <1>3, NatSetInduction
<1> QED
    BY <1>1, <1>4 DEF SumOf, p, SumsUpTo

\* Numbers added up side by side
LEMMA SumOfBoth ==
    ASSUME NEW m \in Nat, NEW u \in [1..m -> Int], NEW v \in [1..m -> Int], NEW w \in [1..m -> Int],
           \A i \in 1..m : w[i] = u[i] + v[i]
    PROVE  SumOf(w) = SumOf(u) + SumOf(v)
<1> DEFINE p == PartialSums(u)
           q == PartialSums(v)
           g == [i \in 0..m |-> p[i] + q[i]]
<1>1. /\ u \in Seq(Int) /\ v \in Seq(Int) /\ w \in Seq(Int)
      /\ Len(u) = m /\ Len(v) = m /\ Len(w) = m
    BY IntsInOrder
<1>2. SumsUpTo(p, u, m) /\ SumsUpTo(q, v, m)
    BY <1>1, PartialSumsSolve, SolutionsAreSums
<1>3. p[m] = SumOf(u) /\ q[m] = SumOf(v)
    BY <1>1 DEF SumOf
<1> HIDE DEF p, q
<1>4. SumsUpTo(g, w, m)
    <2>1. g \in [0..m -> Int] /\ g[0] = 0
        BY <1>2 DEF SumsUpTo
    <2>2. ASSUME NEW i \in 1..m PROVE g[i] = g[i - 1] + w[i]
        <3>1. i \in 0..m /\ i - 1 \in 0..m
            OBVIOUS
        <3>2. /\ p[i] = p[i - 1] + u[i] /\ q[i] = q[i - 1] + v[i]
              /\ p[i - 1] \in Int /\ q[i - 1] \in Int /\ u[i] \in Int /\ v[i] \in Int
            BY <1>2, <3>1 DEF SumsUpTo
        <3>3. g[i] = p[i] + q[i] /\ g[i - 1] = p[i - 1] + q[i - 1]
            BY <3>1
        <3> HIDE DEF g
        <3> QED
            BY <3>2, <3>3
    <2> QED
        BY <2>1, <2>2 DEF SumsUpTo
<1>5. SumOf(w) = g[m]
    BY <1>1, <1>4, SumIs
<1> QED
    BY <1>3, <1>5

\* The larger numbers have the larger sum.
LEMMA SumMonotone ==
    ASSUME NEW m \in Nat, NEW u \in [1..m -> Nat], NEW v \in [1..m -> Nat],
           \A i \in 1..m : u[i] <= v[i]
    PROVE  SumOf(u) <= SumOf(v)
<1> DEFINE w == [i \in 1..m |-> v[i] - u[i]]
<1>1. w \in [1..m -> Nat] /\ \A i \in 1..m : v[i] = u[i] + w[i]
    OBVIOUS
<1> HIDE DEF w
<1>2. u \in [1..m -> Int] /\ v \in [1..m -> Int] /\ w \in [1..m -> Int]
    BY <1>1
<1>3. SumOf(v) = SumOf(u) + SumOf(w)
    BY <1>1, <1>2, SumOfBoth
<1>4. u \in Seq(Nat) /\ w \in Seq(Nat)
    BY <1>1
<1>5. SumOf(u) \in Nat /\ SumOf(w) \in Nat
    BY <1>4, SumOfNats
<1> QED
    BY <1>3, <1>5

\* The sum of as many zeros
LEMMA SumOfZeros ==
    ASSUME NEW m \in Nat, NEW w \in [1..m -> Int], \A i \in 1..m : w[i] = 0
    PROVE  SumOf(w) = 0
<1>1. SumOf(w) = SumOf(w) + SumOf(w)
    BY SumOfBoth
<1>2. w \in Seq(Int) /\ Len(w) = m
    BY IntsInOrder
<1>3. SumOf(w) \in Int
    BY <1>2, SumIs, PartialSumsSolve, SolutionsAreSums
<1> QED
    BY <1>1, <1>3

-----------------------------------------------------------------------------
(* Numbers dealt out over the elements of a finite set, one to each position *)
(* of a sequence: adding up what each element got adds up the sequence.      *)

\* What the positions that w deals to an element of s add up to
DealtTo(k, w, s) == SumOf([i \in DOMAIN k |-> IF w[i] \in s THEN k[i] ELSE 0])

EachDealt(g, k, w, S) == \A x \in S : g[x] = DealtTo(k, w, {x})

\* Numbers dealt to two sets that share nothing
LEMMA DealtBoth ==
    ASSUME NEW m \in Nat, NEW k \in [1..m -> Int], NEW w, NEW s, NEW t, s \cap t = {}
    PROVE  DealtTo(k, w, s \cup t) = DealtTo(k, w, s) + DealtTo(k, w, t)
<1> DEFINE all == [i \in 1..m |-> IF w[i] \in s \cup t THEN k[i] ELSE 0]
           one == [i \in 1..m |-> IF w[i] \in s THEN k[i] ELSE 0]
           other == [i \in 1..m |-> IF w[i] \in t THEN k[i] ELSE 0]
<1>1. all \in [1..m -> Int] /\ one \in [1..m -> Int] /\ other \in [1..m -> Int]
    OBVIOUS
<1>2. \A i \in 1..m : all[i] = one[i] + other[i]
    OBVIOUS
<1>3. DealtTo(k, w, s \cup t) = SumOf(all) /\ DealtTo(k, w, s) = SumOf(one)
      /\ DealtTo(k, w, t) = SumOf(other)
    BY DEF DealtTo
<1> HIDE DEF all, one, other
<1>4. SumOf(all) = SumOf(one) + SumOf(other)
    <2>1. \A a, b, c \in [1..m -> Int] :
             (\A i \in 1..m : c[i] = a[i] + b[i]) => SumOf(c) = SumOf(a) + SumOf(b)
        BY SumOfBoth
    <2> QED
        BY <1>1, <1>2, <2>1, Zenon
<1> QED
    BY <1>3, <1>4

\* Naturals dealt to a set add up to a natural.
LEMMA DealtNat ==
    ASSUME NEW m \in Nat, NEW k \in [1..m -> Nat], NEW w, NEW s
    PROVE  DealtTo(k, w, s) \in Nat
<1> DEFINE one == [i \in 1..m |-> IF w[i] \in s THEN k[i] ELSE 0]
<1>1. one \in Seq(Nat)
    OBVIOUS
<1>2. DealtTo(k, w, s) = SumOf(one)
    BY DEF DealtTo
<1> HIDE DEF one
<1> QED
    BY <1>1, <1>2, SumOfNats

\* Nothing is dealt to nobody.
LEMMA DealtNone ==
    ASSUME NEW m \in Nat, NEW k \in [1..m -> Int], NEW w
    PROVE  DealtTo(k, w, {}) = 0
<1> DEFINE none == [i \in 1..m |-> IF w[i] \in {} THEN k[i] ELSE 0]
<1>1. none \in [1..m -> Int] /\ \A i \in 1..m : none[i] = 0
    OBVIOUS
<1>2. DealtTo(k, w, {}) = SumOf(none)
    BY DEF DealtTo
<1> HIDE DEF none
<1> QED
    BY <1>1, <1>2, SumOfZeros

\* As many ones as there are positions
LEMMA SumOfOnes ==
    ASSUME NEW m \in Nat, NEW k, k = [i \in 1..m |-> 1]
    PROVE  SumOf(k) = m
<1>1. k \in [1..m -> Int] /\ k \in Seq(Int) /\ Len(k) = m
    <2>1. k \in [1..m -> Int]
        OBVIOUS
    <2> QED
        BY <2>1, IntsInOrder
<1> DEFINE g == [i \in 0..m |-> i]
<1>2. SumsUpTo(g, k, m)
    <2>1. g \in [0..m -> Int] /\ g[0] = 0
        OBVIOUS
    <2>2. ASSUME NEW i \in 1..m PROVE g[i] = g[i - 1] + k[i]
        <3>1. i \in 0..m /\ i - 1 \in 0..m /\ k[i] = 1
            OBVIOUS
        <3>2. g[i] = i /\ g[i - 1] = i - 1
            BY <3>1
        <3> QED
            BY <3>1, <3>2
    <2> QED
        BY <2>1, <2>2 DEF SumsUpTo
<1> HIDE DEF g
<1>3. SumOf(k) = g[m]
    BY <1>1, <1>2, SumIs
<1> QED
    BY <1>3 DEF g

\* One element of a set, and the others
LEMMA DealtApart ==
    ASSUME NEW m \in Nat, NEW k \in [1..m -> Int], NEW w, NEW s, NEW x \in s
    PROVE  DealtTo(k, w, s) = DealtTo(k, w, {x}) + DealtTo(k, w, s \ {x})
<1>1. {x} \cap (s \ {x}) = {} /\ {x} \cup (s \ {x}) = s
    OBVIOUS
<1>2. DealtTo(k, w, {x} \cup (s \ {x})) = DealtTo(k, w, {x}) + DealtTo(k, w, s \ {x})
    BY <1>1, DealtBoth
<1> QED
    BY <1>1, <1>2

\* A function of the subsets of S that adds g up one chosen element at a time
AddsUp(it, g, S) ==
    it = [s \in SUBSET S |->
             IF s = {} THEN 0
             ELSE LET x == CHOOSE y \in s : TRUE IN g[x] + it[s \ {x}]]

\* Every such function gives what the elements of a subset were dealt.
LEMMA AddedUpIsDealt ==
    ASSUME NEW m \in Nat, NEW k \in [1..m -> Int], NEW w, NEW S, IsFiniteSet(S),
           NEW g, EachDealt(g, k, w, S),
           NEW it, AddsUp(it, g, S)
    PROVE  it[S] = DealtTo(k, w, S)
<1> DEFINE Good == {n \in Nat : \A s \in SUBSET S : Cardinality(s) <= n => it[s] = DealtTo(k, w, s)}
<1>0. \A s \in SUBSET S : IsFiniteSet(s) /\ Cardinality(s) \in Nat
    BY FS_Subset, FS_CardinalityType
<1>1. ASSUME NEW s \in SUBSET S, s = {} PROVE it[s] = DealtTo(k, w, s)
    <2>1. it[s] = 0
        BY <1>1 DEF AddsUp
    <2> DEFINE none == [i \in DOMAIN k |-> IF w[i] \in s THEN k[i] ELSE 0]
    <2>2. none \in [1..m -> Int] /\ \A i \in 1..m : none[i] = 0
        BY <1>1
    <2>3. DealtTo(k, w, s) = SumOf(none)
        BY DEF DealtTo
    <2> HIDE DEF none
    <2> QED
        BY <2>1, <2>2, <2>3, SumOfZeros
<1>2. 0 \in Good
    BY <1>0, <1>1, FS_EmptySet
<1>3. ASSUME NEW n \in Nat, n \in Good PROVE n + 1 \in Good
    <2>1. SUFFICES ASSUME NEW s \in SUBSET S, Cardinality(s) <= n + 1, s # {}
                   PROVE  it[s] = DealtTo(k, w, s)
        BY <1>1
    <2>2. PICK x : x = CHOOSE y \in s : TRUE
        OBVIOUS
    <2>3. x \in s
        BY <2>1, <2>2
    <2>4. it[s] = g[x] + it[s \ {x}]
        BY <2>1, <2>2 DEF AddsUp
    <2>5. s \ {x} \in SUBSET S /\ Cardinality(s \ {x}) <= n
        <3>1. IsFiniteSet(s) /\ Cardinality(s) \in Nat
            BY <1>0
        <3>2. Cardinality(s \ {x}) = Cardinality(s) - 1
            BY <2>3, <3>1, FS_RemoveElement
        <3> QED
            BY <2>1, <3>1, <3>2
    <2>6. it[s \ {x}] = DealtTo(k, w, s \ {x})
        BY <1>3, <2>5
    <2>7. g[x] = DealtTo(k, w, {x})
        BY <2>3 DEF EachDealt
    <2> QED
        BY <2>3, <2>4, <2>6, <2>7, DealtApart
<1>4. Nat \subseteq Good
    <2> HIDE DEF Good
    <2> QED
        BY <1>2, <1>3, NatSetInduction
<1> HIDE DEF Good
<1>5. Cardinality(S) \in Good
    BY <1>0, <1>4
<1> QED
    BY <1>0, <1>5 DEF Good

\* There is one: what each subset was dealt.
LEMMA DealtAddsUp ==
    ASSUME NEW m \in Nat, NEW k \in [1..m -> Int], NEW w, NEW S,
           NEW g, EachDealt(g, k, w, S)
    PROVE  AddsUp([s \in SUBSET S |-> DealtTo(k, w, s)], g, S)
<1> DEFINE it == [s \in SUBSET S |-> DealtTo(k, w, s)]
<1>1. ASSUME NEW s \in SUBSET S
      PROVE  it[s] = IF s = {} THEN 0 ELSE LET x == CHOOSE y \in s : TRUE IN g[x] + it[s \ {x}]
    <2>1. CASE s = {}
        <3> DEFINE none == [i \in DOMAIN k |-> IF w[i] \in s THEN k[i] ELSE 0]
        <3>1. none \in [1..m -> Int] /\ \A i \in 1..m : none[i] = 0
            BY <2>1
        <3>2. DealtTo(k, w, s) = SumOf(none)
            BY DEF DealtTo
        <3> HIDE DEF none
        <3>3. DealtTo(k, w, s) = 0
            BY <3>1, <3>2, SumOfZeros
        <3> QED
            BY <2>1, <3>3
    <2>2. CASE s # {}
        <3>1. PICK x : x = CHOOSE y \in s : TRUE
            OBVIOUS
        <3>2. x \in s
            BY <2>2, <3>1
        <3>3. DealtTo(k, w, s) = g[x] + DealtTo(k, w, s \ {x})
            <4>1. x \in S /\ g[x] = DealtTo(k, w, {x})
                BY <3>2 DEF EachDealt
            <4>2. DealtTo(k, w, s) = DealtTo(k, w, {x}) + DealtTo(k, w, s \ {x})
                BY <3>2, DealtApart
            <4> QED
                BY <4>1, <4>2
        <3>4. it[s] = g[x] + it[s \ {x}]
            BY <3>3
        <3> HIDE DEF it
        <3> QED
            BY <2>2, <3>1, <3>4
    <2> QED
        BY <2>1, <2>2
<1>2. it = [s \in SUBSET S |-> it[s]]
    OBVIOUS
<1> HIDE DEF it
<1>3. [s \in SUBSET S |-> it[s]] = [s \in SUBSET S |->
         IF s = {} THEN 0 ELSE LET x == CHOOSE y \in s : TRUE IN g[x] + it[s \ {x}]]
    BY <1>1
<1> QED
    BY <1>2, <1>3 DEF AddsUp, it

\* So the whole set is given the sum of the sequence.
LEMMA SharesAreTheWhole ==
    ASSUME NEW m \in Nat, NEW k \in [1..m -> Int], NEW w, NEW S, IsFiniteSet(S),
           \A i \in 1..m : w[i] \in S,
           NEW g, EachDealt(g, k, w, S)
    PROVE  /\ \E it : AddsUp(it, g, S)
           /\ \A it : AddsUp(it, g, S) => it[S] = SumOf(k)
<1>1. \E it : AddsUp(it, g, S)
    BY DealtAddsUp
<1>2. DealtTo(k, w, S) = SumOf(k)
    <2>1. [i \in DOMAIN k |-> IF w[i] \in S THEN k[i] ELSE 0] = k
        OBVIOUS
    <2> QED
        BY <2>1 DEF DealtTo
<1>3. ASSUME NEW it, AddsUp(it, g, S) PROVE it[S] = SumOf(k)
    <2>1. it[S] = DealtTo(k, w, S)
        BY <1>3, AddedUpIsDealt
    <2> QED
        BY <1>2, <2>1
<1> QED
    BY <1>1, <1>3
-----------------------------------------------------------------------------
(* Sums over a finite set, SumFunctionOnSet: the set is dealt out over the  *)
(* positions of a sequence, and the sum is that of the sequence.            *)

\* A sequence with one number among zeros
LEMMA SumOfSingle ==
    ASSUME NEW m \in Nat, NEW w \in [1..m -> Int], NEW j \in 1..m, \A i \in 1..m : i # j => w[i] = 0
    PROVE  SumOf(w) = w[j]
<1> DEFINE g == [i \in 0..m |-> IF i < j THEN 0 ELSE w[j]]
<1>1. w \in Seq(Int) /\ Len(w) = m
    BY IntsInOrder
<1>2. w[j] \in Int /\ j \in Nat /\ 1 <= j /\ j <= m
    OBVIOUS
<1>3. g \in [0..m -> Int] /\ g[0] = 0 /\ g[m] = w[j]
    BY <1>2
<1>4. ASSUME NEW i \in 1..m PROVE g[i] = g[i - 1] + w[i]
    <2>1. i \in 0..m /\ i - 1 \in 0..m
        OBVIOUS
    <2>2. g[i] = (IF i < j THEN 0 ELSE w[j]) /\ g[i - 1] = (IF i - 1 < j THEN 0 ELSE w[j])
        BY <2>1
    <2> HIDE DEF g
    <2>3. CASE i = j
        BY <1>2, <2>2, <2>3
    <2>4. CASE i # j
        <3>1. w[i] = 0
            BY <2>4
        <3>2. i < j <=> i - 1 < j
            BY <1>2, <2>4
        <3> QED
            BY <1>2, <2>2, <3>1, <3>2
    <2> QED
        BY <2>3, <2>4
<1>5. SumsUpTo(g, w, m)
    BY <1>3, <1>4 DEF SumsUpTo
<1> HIDE DEF g
<1> QED
    BY <1>1, <1>3, <1>5, SumIs

\* An order of the elements of a finite set, each once
Ordered(w, m, S) ==
    /\ w \in [1..m -> S]
    /\ \A x \in S : \E i \in 1..m : w[i] = x
    /\ \A i, j \in 1..m : w[i] = w[j] => i = j

\* There is one.
LEMMA OrderExists ==
    ASSUME NEW S, IsFiniteSet(S)
    PROVE  Cardinality(S) \in Nat /\ \E w : Ordered(w, Cardinality(S), S)
<1>1. Cardinality(S) \in Nat /\ ExistsBijection(1..Cardinality(S), S)
    BY FS_CardinalityType
<1>2. PICK w : w \in Bijection(1..Cardinality(S), S)
    BY <1>1 DEF ExistsBijection
<1>3. Ordered(w, Cardinality(S), S)
    BY <1>2 DEF Bijection, Injection, Surjection, IsInjective, Ordered
<1> QED
    BY <1>1, <1>3

\* The numbers of the elements in that order
Numbers(k, g, w, m) == k = [i \in 1..m |-> g[w[i]]]

\* In such an order, each element is dealt its own number.
LEMMA DealtInOrder ==
    ASSUME NEW S, NEW m \in Nat, NEW w, Ordered(w, m, S), NEW g, \A x \in S : g[x] \in Int,
           NEW k, Numbers(k, g, w, m)
    PROVE  k \in [1..m -> Int] /\ EachDealt(g, k, w, S)
<1>1. DOMAIN k = 1..m /\ \A i \in 1..m : k[i] = g[w[i]]
    BY DEF Numbers
<1>2. k \in [1..m -> Int]
    BY DEF Ordered, Numbers
<1>3. ASSUME NEW x \in S PROVE g[x] = DealtTo(k, w, {x})
    <2>1. PICK j \in 1..m : w[j] = x
        BY DEF Ordered
    <2>2. PICK v : v = [i \in 1..m |-> IF w[i] \in {x} THEN k[i] ELSE 0]
        OBVIOUS
    <2>3. v \in [1..m -> Int]
        BY <1>2, <2>2
    <2>4. \A i \in 1..m : i # j => v[i] = 0
        BY <2>1, <2>2 DEF Ordered
    <2>5. v[j] = g[x]
        BY <1>1, <2>1, <2>2
    <2>6. SumOf(v) = v[j]
        BY <2>3, <2>4, SumOfSingle
    <2>7. DealtTo(k, w, {x}) = SumOf(v)
        BY <1>2, <2>2 DEF DealtTo
    <2> QED
        BY <2>5, <2>6, <2>7
<1> QED
    BY <1>1, <1>2, <1>3 DEF EachDealt

\* The sum over a set is the value there of a function that adds g up.
LEMMA SumOnIsAddedUp ==
    ASSUME NEW S, NEW g, NEW v, \E it : AddsUp(it, g, S), \A it : AddsUp(it, g, S) => it[S] = v
    PROVE  SumFunctionOnSet(g, S) = v
<1>1. PICK it : it = CHOOSE sums : AddsUp(sums, g, S)
    OBVIOUS
<1>2. AddsUp(it, g, S)
    BY <1>1
<1>3. SumFunctionOnSet(g, S) = it[S]
    BY <1>1 DEF SumFunctionOnSet, FoldFunctionOnSet, MapThenFoldSet, AddsUp
<1> QED
    BY <1>2, <1>3

\* So the sum over any part of a set is what that part was dealt.
LEMMA SumOnIsDealt ==
    ASSUME NEW m \in Nat, NEW k \in [1..m -> Int], NEW w, NEW T, IsFiniteSet(T),
           NEW g, EachDealt(g, k, w, T)
    PROVE  SumFunctionOnSet(g, T) = DealtTo(k, w, T)
<1>1. \E it : AddsUp(it, g, T)
    BY DealtAddsUp
<1>2. \A it : AddsUp(it, g, T) => it[T] = DealtTo(k, w, T)
    BY AddedUpIsDealt
<1> QED
    BY <1>1, <1>2, SumOnIsAddedUp

\* All parts of a set are dealt in the one order.
LEMMA SumOnInOrder ==
    ASSUME NEW S, IsFiniteSet(S), NEW m \in Nat, NEW w, Ordered(w, m, S), NEW g, \A x \in S : g[x] \in Int,
           NEW k, Numbers(k, g, w, m), NEW T \in SUBSET S
    PROVE  k \in [1..m -> Int] /\ SumFunctionOnSet(g, T) = DealtTo(k, w, T)
<1>2. k \in [1..m -> Int] /\ EachDealt(g, k, w, S)
    BY DealtInOrder
<1>3. EachDealt(g, k, w, T) /\ IsFiniteSet(T)
    BY <1>2, FS_Subset DEF EachDealt
<1>4. SumFunctionOnSet(g, T) = DealtTo(k, w, T)
    BY <1>2, <1>3, SumOnIsDealt
<1> QED
    BY <1>2, <1>4

\* Nothing adds up to nothing.
LEMMA SumOnNone ==
    ASSUME NEW g
    PROVE  SumFunctionOnSet(g, {}) = 0
<1>1. PICK S : S = {}
    OBVIOUS
<1>2. PICK m \in Nat : m = 0
    OBVIOUS
<1>3. PICK k : k = [i \in 1..m |-> 0]
    OBVIOUS
<1>3a. k \in [1..m -> Int]
    BY <1>3
<1>4. PICK w : w = k
    OBVIOUS
<1>5. SumFunctionOnSet(g, S) = DealtTo(k, w, S)
    <2>1. IsFiniteSet(S)
        BY <1>1, FS_EmptySet
    <2>2. EachDealt(g, k, w, S)
        BY <1>1, <1>3a DEF EachDealt
    <2> QED
        BY <1>3a, <2>1, <2>2, SumOnIsDealt
<1>6. DealtTo(k, w, {}) = 0
    BY <1>3a, DealtNone
<1> QED
    BY <1>1, <1>5, <1>6

\* One element adds up to its number.
LEMMA SumOnOne ==
    ASSUME NEW g, NEW x, g[x] \in Int
    PROVE  SumFunctionOnSet(g, {x}) = g[x]
<1>1. PICK S : S = {x}
    OBVIOUS
<1>2. IsFiniteSet(S) /\ \A y \in S : g[y] \in Int
    BY <1>1, FS_Singleton
<1>a. PICK m \in Nat : \E w : Ordered(w, m, S)
    BY <1>2, OrderExists
<1>3. PICK w : Ordered(w, m, S)
    BY <1>a
<1>4. PICK k : Numbers(k, g, w, m)
    BY DEF Numbers
<1>5. SumFunctionOnSet(g, S) = DealtTo(k, w, S)
    BY <1>2, <1>3, <1>4, SumOnInOrder
<1>6. EachDealt(g, k, w, S)
    BY <1>2, <1>3, <1>4, DealtInOrder
<1> QED
    BY <1>1, <1>5, <1>6 DEF EachDealt

\* A sum of integers is an integer, and of naturals a natural.
LEMMA SumOnInt ==
    ASSUME NEW S, IsFiniteSet(S), NEW g, \A x \in S : g[x] \in Int
    PROVE  SumFunctionOnSet(g, S) \in Int
<1>a. PICK m \in Nat : \E w : Ordered(w, m, S)
    BY OrderExists
<1>1. PICK w : Ordered(w, m, S)
    BY <1>a
<1>2. PICK k : Numbers(k, g, w, m)
    BY DEF Numbers
<1>3. SumFunctionOnSet(g, S) = DealtTo(k, w, S)
    BY <1>1, <1>2, SumOnInOrder
<1>4. k \in [1..m -> Int]
    BY <1>1, <1>2, DealtInOrder
<1>5. PICK v : v = [i \in DOMAIN k |-> IF w[i] \in S THEN k[i] ELSE 0]
    OBVIOUS
<1>6. v \in [1..m -> Int]
    BY <1>4, <1>5
<1>7. v \in Seq(Int)
    BY <1>6, IntsInOrder
<1>8. SumOf(v) \in Int
    BY <1>7, SumIs, PartialSumsSolve, SolutionsAreSums
<1> QED
    BY <1>3, <1>5, <1>8 DEF DealtTo

\* Naturals add up to a natural.
LEMMA SumOnNat ==
    ASSUME NEW S, IsFiniteSet(S), NEW g, \A x \in S : g[x] \in Nat
    PROVE  SumFunctionOnSet(g, S) \in Nat
<1>0. \A x \in S : g[x] \in Int
    OBVIOUS
<1>a. PICK m \in Nat : \E w : Ordered(w, m, S)
    BY OrderExists
<1>1. PICK w : Ordered(w, m, S)
    BY <1>a
<1>2. PICK k : Numbers(k, g, w, m)
    BY DEF Numbers
<1>3. SumFunctionOnSet(g, S) = DealtTo(k, w, S)
    BY <1>0, <1>1, <1>2, SumOnInOrder
<1>4. k \in [1..m -> Nat]
    BY <1>1, <1>2 DEF Ordered, Numbers
<1> QED
    BY <1>3, <1>4, DealtNat

\* The same numbers have the same sum.
LEMMA SumOnSame ==
    ASSUME NEW S, IsFiniteSet(S), NEW g, \A x \in S : g[x] \in Int, NEW h, \A x \in S : h[x] = g[x]
    PROVE  SumFunctionOnSet(h, S) = SumFunctionOnSet(g, S)
<1>a. PICK m \in Nat : \E w : Ordered(w, m, S)
    BY OrderExists
<1>1. PICK w : Ordered(w, m, S)
    BY <1>a
<1>2. PICK k : Numbers(k, g, w, m)
    BY DEF Numbers
<1>3. \A x \in S : h[x] \in Int
    OBVIOUS
<1>4. Numbers(k, h, w, m)
    BY <1>1, <1>2 DEF Ordered, Numbers
<1>5. SumFunctionOnSet(g, S) = DealtTo(k, w, S)
    BY <1>1, <1>2, SumOnInOrder
<1>6. SumFunctionOnSet(h, S) = DealtTo(k, w, S)
    BY <1>1, <1>3, <1>4, SumOnInOrder
<1> QED
    BY <1>5, <1>6

\* Two parts that share nothing
LEMMA SumOnParts ==
    ASSUME NEW S, IsFiniteSet(S), NEW g, \A x \in S : g[x] \in Int,
           NEW A \in SUBSET S, NEW B \in SUBSET S, A \cap B = {}, S = A \cup B
    PROVE  SumFunctionOnSet(g, S) = SumFunctionOnSet(g, A) + SumFunctionOnSet(g, B)
<1>a. PICK m \in Nat : \E w : Ordered(w, m, S)
    BY OrderExists
<1>1. PICK w : Ordered(w, m, S)
    BY <1>a
<1>2. PICK k : Numbers(k, g, w, m)
    BY DEF Numbers
<1>3. k \in [1..m -> Int]
    BY <1>1, <1>2, DealtInOrder
<1>4. \A T \in SUBSET S : SumFunctionOnSet(g, T) = DealtTo(k, w, T)
    BY <1>1, <1>2, SumOnInOrder
<1>5. DealtTo(k, w, A \cup B) = DealtTo(k, w, A) + DealtTo(k, w, B)
    BY <1>3, DealtBoth
<1> QED
    BY <1>4, <1>5

\* Two sums over one set, added up element by element
LEMMA SumOnPlus ==
    ASSUME NEW S, IsFiniteSet(S), NEW a, \A x \in S : a[x] \in Int, NEW b, \A x \in S : b[x] \in Int,
           NEW c, \A x \in S : c[x] = a[x] + b[x]
    PROVE  SumFunctionOnSet(c, S) = SumFunctionOnSet(a, S) + SumFunctionOnSet(b, S)
<1>a. PICK m \in Nat : \E w : Ordered(w, m, S)
    BY OrderExists
<1>1. PICK w : Ordered(w, m, S)
    BY <1>a
<1>2. \A x \in S : c[x] \in Int
    OBVIOUS
<1>3. PICK p : Numbers(p, a, w, m)
    BY DEF Numbers
<1>4. PICK q : Numbers(q, b, w, m)
    BY DEF Numbers
<1>5. PICK r : Numbers(r, c, w, m)
    BY DEF Numbers
<1>6. \A i \in 1..m : w[i] \in S
    BY <1>1 DEF Ordered
<1>7. p \in [1..m -> Int] /\ q \in [1..m -> Int] /\ r \in [1..m -> Int] /\ \A i \in 1..m : r[i] = p[i] + q[i]
    BY <1>2, <1>3, <1>4, <1>5, <1>6 DEF Numbers
<1>8. SumFunctionOnSet(a, S) = DealtTo(p, w, S)
    BY <1>1, <1>3, SumOnInOrder
<1>9. SumFunctionOnSet(b, S) = DealtTo(q, w, S)
    BY <1>1, <1>4, SumOnInOrder
<1>10. SumFunctionOnSet(c, S) = DealtTo(r, w, S)
    BY <1>1, <1>2, <1>5, SumOnInOrder
<1>11. ASSUME NEW k \in [1..m -> Int] PROVE DealtTo(k, w, S) = SumOf(k)
    <2>1. [i \in DOMAIN k |-> IF w[i] \in S THEN k[i] ELSE 0] = k
        BY <1>6
    <2> QED
        BY <2>1 DEF DealtTo
<1>12. SumOf(r) = SumOf(p) + SumOf(q)
    BY <1>7, SumOfBoth
<1> QED
    BY <1>7, <1>8, <1>9, <1>10, <1>11, <1>12

\* Zeros add up to zero.
LEMMA SumOnZeros ==
    ASSUME NEW S, IsFiniteSet(S), NEW g, \A x \in S : g[x] = 0
    PROVE  SumFunctionOnSet(g, S) = 0
<1>1. PICK z \in Int : z = SumFunctionOnSet(g, S)
    <2>1. \A x \in S : g[x] \in Int
        OBVIOUS
    <2> QED
        BY <2>1, SumOnInt
<1>2. z = z + z
    <2>1. (\A x \in S : g[x] \in Int) /\ \A x \in S : g[x] = g[x] + g[x]
        OBVIOUS
    <2>2. SumFunctionOnSet(g, S) = SumFunctionOnSet(g, S) + SumFunctionOnSet(g, S)
        BY <2>1, SumOnPlus
    <2> QED
        BY <1>1, <2>2
<1>3. z = 0
    BY <1>2
<1> QED
    BY <1>1, <1>3

\* Larger numbers have the larger sum.
LEMMA SumOnMonotone ==
    ASSUME NEW S, IsFiniteSet(S), NEW a, \A x \in S : a[x] \in Int, NEW b, \A x \in S : b[x] \in Int,
           \A x \in S : a[x] <= b[x]
    PROVE  SumFunctionOnSet(a, S) <= SumFunctionOnSet(b, S)
<1>1. PICK c : c = [x \in S |-> b[x] - a[x]]
    OBVIOUS
<1>2. \A x \in S : c[x] \in Nat /\ b[x] = a[x] + c[x]
    BY <1>1
<1>3. SumFunctionOnSet(c, S) \in Nat
    BY <1>2, SumOnNat
<1>4. SumFunctionOnSet(b, S) = SumFunctionOnSet(a, S) + SumFunctionOnSet(c, S)
    <2>1. \A x \in S : c[x] \in Int
        BY <1>2
    <2> QED
        BY <1>2, <2>1, SumOnPlus
<1>5. SumFunctionOnSet(a, S) \in Int
    BY SumOnInt
<1> QED
    BY <1>3, <1>4, <1>5

\* A part of a set counts its elements and nothing for the others.
LEMMA SumOnPart ==
    ASSUME NEW S, IsFiniteSet(S), NEW g, \A x \in S : g[x] \in Int, NEW T \in SUBSET S,
           NEW h, \A x \in S : h[x] = IF x \in T THEN g[x] ELSE 0
    PROVE  SumFunctionOnSet(g, T) = SumFunctionOnSet(h, S)
<1>1. \A x \in S : h[x] \in Int
    OBVIOUS
<1>2. IsFiniteSet(T) /\ IsFiniteSet(S \ T)
    BY FS_Subset
<1>3. SumFunctionOnSet(h, S) = SumFunctionOnSet(h, T) + SumFunctionOnSet(h, S \ T)
    <2>1. T \cap (S \ T) = {} /\ S = T \cup (S \ T)
        OBVIOUS
    <2> QED
        BY <1>1, <2>1, SumOnParts
<1>4. SumFunctionOnSet(h, S \ T) = 0
    BY <1>2, SumOnZeros
<1>5. SumFunctionOnSet(h, T) = SumFunctionOnSet(g, T)
    BY <1>2, SumOnSame
<1>6. SumFunctionOnSet(g, T) \in Int
    BY <1>2, SumOnInt
<1> QED
    BY <1>3, <1>4, <1>5, <1>6

\* As many ones as there are elements
LEMMA SumOnOnes ==
    ASSUME NEW S, IsFiniteSet(S), NEW g, \A x \in S : g[x] = 1
    PROVE  SumFunctionOnSet(g, S) = Cardinality(S)
<1>1. PICK m \in Nat : m = Cardinality(S)
    BY FS_CardinalityType
<1>2. PICK w : Ordered(w, m, S)
    BY <1>1, OrderExists
<1>3. PICK k : k = [i \in 1..m |-> 1]
    OBVIOUS
<1>4. \A i \in 1..m : w[i] \in S
    BY <1>2 DEF Ordered
<1>5. Numbers(k, g, w, m) /\ [i \in DOMAIN k |-> IF w[i] \in S THEN k[i] ELSE 0] = k
    BY <1>3, <1>4 DEF Numbers
<1>6. SumFunctionOnSet(g, S) = DealtTo(k, w, S)
    <2>1. \A x \in S : g[x] \in Int
        OBVIOUS
    <2> QED
        BY <1>2, <1>5, <2>1, SumOnInOrder
<1>7. DealtTo(k, w, S) = SumOf(k)
    BY <1>5 DEF DealtTo
<1> QED
    BY <1>1, <1>3, <1>6, <1>7, SumOfOnes

\* Of the figures m, the column of y; of S, the elements with key y
ColumnOf(m, S, y) == [x \in S |-> m[x][y]]
Keyed(S, key, y) == {x \in S : key[x] = y}

\* What each element x of S has in all, whole, is dealt out over T: m[x][y] is
\* what y gets of it, and column what y gets of all of S.
DealtOut(m, whole, S, T) ==
    /\ \A x \in S, y \in T : m[x][y] \in Int
    /\ \A x \in S : whole[x] = SumFunctionOnSet(m[x], T)

BroughtTogether(m, column, S, T) ==
    \A y \in T : column[y] = SumFunctionOnSet(ColumnOf(m, S, y), S)

\* Rows first or columns first
LEMMA SumOnExchanged ==
    ASSUME NEW S, IsFiniteSet(S), NEW T, IsFiniteSet(T), NEW m,
           NEW a, DealtOut(m, a, S, T), NEW b, BroughtTogether(m, b, S, T)
    PROVE  SumFunctionOnSet(a, S) = SumFunctionOnSet(b, T)
<1> DEFINE Column(y) == ColumnOf(m, S, y)
           Part(P) == [y \in T |-> SumFunctionOnSet(Column(y), P)]
           Good == {n \in Nat : \A P \in SUBSET S :
                      Cardinality(P) <= n => SumFunctionOnSet(a, P) = SumFunctionOnSet(Part(P), T)}
<1>1. \A P \in SUBSET S : IsFiniteSet(P) /\ Cardinality(P) \in Nat
    BY FS_Subset, FS_CardinalityType
<1>0. /\ \A x \in S, y \in T : m[x][y] \in Int
      /\ \A x \in S : a[x] = SumFunctionOnSet(m[x], T)
      /\ \A y \in T : b[y] = SumFunctionOnSet(Column(y), S)
    BY DEF DealtOut, BroughtTogether
<1>2. \A y \in T : \A x \in S : Column(y)[x] \in Int /\ Column(y)[x] = m[x][y]
    BY <1>0 DEF ColumnOf
<1>3. \A x \in S : a[x] \in Int
    BY <1>0, SumOnInt
<1>4. \A P \in SUBSET S : \A y \in T : Part(P)[y] = SumFunctionOnSet(Column(y), P)
    OBVIOUS
<1>5. \A P \in SUBSET S : \A y \in T : Part(P)[y] \in Int
    <2>1. ASSUME NEW P \in SUBSET S, NEW y \in T PROVE SumFunctionOnSet(Column(y), P) \in Int
        <3>1. \A x \in P : Column(y)[x] \in Int
            BY <1>2
        <3> HIDE DEF Column
        <3> QED
            BY <1>1, <3>1, SumOnInt
    <2> QED
        BY <2>1
<1> HIDE DEF Column, Part
<1>6. SumFunctionOnSet(a, {}) = SumFunctionOnSet(Part({}), T)
    <2>1. \A y \in T : Part({})[y] = 0
        BY <1>4, SumOnNone
    <2>2. SumFunctionOnSet(Part({}), T) = 0
        BY <2>1, SumOnZeros
    <2> QED
        BY <2>2, SumOnNone
<1>7. ASSUME NEW P \in SUBSET S, NEW x \in P,
             SumFunctionOnSet(a, P \ {x}) = SumFunctionOnSet(Part(P \ {x}), T)
      PROVE  SumFunctionOnSet(a, P) = SumFunctionOnSet(Part(P), T)
    <2>1. /\ IsFiniteSet(P) /\ {x} \in SUBSET P /\ P \ {x} \in SUBSET P /\ P \ {x} \in SUBSET S
          /\ {x} \cap (P \ {x}) = {} /\ P = {x} \cup (P \ {x}) /\ x \in S
        BY <1>1
    <2>2. SumFunctionOnSet(a, P) = SumFunctionOnSet(a, {x}) + SumFunctionOnSet(a, P \ {x})
        <3>1. \A z \in P : a[z] \in Int
            BY <1>3
        <3> QED
            BY <2>1, <3>1, SumOnParts
    <2>3. SumFunctionOnSet(a, {x}) = a[x] /\ a[x] = SumFunctionOnSet(m[x], T)
        BY <1>0, <1>3, <2>1, SumOnOne
    <2>4. ASSUME NEW y \in T PROVE Part(P)[y] = m[x][y] + Part(P \ {x})[y]
        <3>1. \A z \in P : Column(y)[z] \in Int
            BY <1>2
        <3>2. SumFunctionOnSet(Column(y), P)
                = SumFunctionOnSet(Column(y), {x}) + SumFunctionOnSet(Column(y), P \ {x})
            BY <2>1, <3>1, SumOnParts
        <3>3. SumFunctionOnSet(Column(y), {x}) = m[x][y]
            <4>1. PICK c : c = Column(y)
                OBVIOUS
            <4>2. c[x] \in Int /\ c[x] = m[x][y]
                BY <1>2, <2>1, <4>1
            <4>3. SumFunctionOnSet(c, {x}) = c[x]
                BY <4>2, SumOnOne
            <4> QED
                BY <4>1, <4>2, <4>3
        <3> QED
            BY <1>4, <2>1, <3>2, <3>3
    <2>5. SumFunctionOnSet(Part(P), T) = SumFunctionOnSet(m[x], T) + SumFunctionOnSet(Part(P \ {x}), T)
        <3>1. (\A y \in T : m[x][y] \in Int) /\ \A y \in T : Part(P \ {x})[y] \in Int
            BY <1>0, <1>5, <2>1
        <3> QED
            BY <2>4, <3>1, SumOnPlus
    <2> QED
        BY <1>7, <2>2, <2>3, <2>5
<1>8. Nat \subseteq Good
    <2>1. 0 \in Good
        <3>1. ASSUME NEW P \in SUBSET S, Cardinality(P) <= 0 PROVE P = {}
            BY <1>1, <3>1, FS_EmptySet
        <3> QED
            BY <1>6, <3>1
    <2>2. ASSUME NEW n \in Nat, n \in Good PROVE n + 1 \in Good
        <3>1. ASSUME NEW P \in SUBSET S, Cardinality(P) <= n + 1
              PROVE  SumFunctionOnSet(a, P) = SumFunctionOnSet(Part(P), T)
            <4>1. CASE P = {}
                BY <1>6, <4>1
            <4>2. CASE P # {}
                <5>1. PICK x \in P : TRUE
                    BY <4>2
                <5>2. IsFiniteSet(P) /\ Cardinality(P) \in Nat
                    BY <1>1
                <5>3. Cardinality(P \ {x}) = Cardinality(P) - 1
                    BY <5>1, <5>2, FS_RemoveElement
                <5>4. Cardinality(P \ {x}) <= n /\ P \ {x} \in SUBSET S
                    BY <3>1, <5>2, <5>3
                <5>5. SumFunctionOnSet(a, P \ {x}) = SumFunctionOnSet(Part(P \ {x}), T)
                    BY <2>2, <5>4
                <5> QED
                    BY <1>7, <5>1, <5>5
            <4> QED
                BY <4>1, <4>2
        <3> QED
            BY <3>1
    <2> HIDE DEF Good
    <2> QED
        BY <2>1, <2>2, NatSetInduction
<1>9. SumFunctionOnSet(a, S) = SumFunctionOnSet(Part(S), T)
    BY <1>1, <1>8
<1>10. SumFunctionOnSet(Part(S), T) = SumFunctionOnSet(b, T)
    <2>1. \A y \in T : Part(S)[y] = b[y]
        BY <1>0, <1>4
    <2>2. \A y \in T : Part(S)[y] \in Int
        BY <1>5
    <2>3. \A y \in T : b[y] = Part(S)[y]
        BY <2>1
    <2> QED
        BY <2>2, <2>3, SumOnSame
<1> QED
    BY <1>9, <1>10

\* A set sorted by a key: what the keys' parts add up to adds up to the whole.
LEMMA SumOnByKey ==
    ASSUME NEW S, IsFiniteSet(S), NEW K, IsFiniteSet(K), NEW key, \A x \in S : key[x] \in K,
           NEW g, \A x \in S : g[x] \in Int,
           NEW b, \A y \in K : b[y] = SumFunctionOnSet(g, Keyed(S, key, y))
    PROVE  SumFunctionOnSet(g, S) = SumFunctionOnSet(b, K)
<1>1. PICK m : m = [x \in S |-> [y \in K |-> IF key[x] = y THEN g[x] ELSE 0]]
    OBVIOUS
<1>2. \A x \in S, y \in K : m[x][y] = (IF key[x] = y THEN g[x] ELSE 0) /\ m[x][y] \in Int
    BY <1>1
<1>3. ASSUME NEW x \in S PROVE g[x] = SumFunctionOnSet(m[x], K)
    <2>1. PICK one : one = [y \in K |-> g[x]]
        OBVIOUS
    <2>2. \A y \in K : m[x][y] = IF y \in {key[x]} THEN one[y] ELSE 0
        BY <1>2, <2>1
    <2>3. (\A y \in K : one[y] \in Int) /\ {key[x]} \in SUBSET K /\ one[key[x]] = g[x]
        BY <2>1
    <2>4. SumFunctionOnSet(one, {key[x]}) = SumFunctionOnSet(m[x], K)
        BY <2>2, <2>3, SumOnPart
    <2>5. SumFunctionOnSet(one, {key[x]}) = g[x]
        BY <2>3, SumOnOne
    <2> QED
        BY <2>4, <2>5
<1>4. ASSUME NEW y \in K PROVE b[y] = SumFunctionOnSet(ColumnOf(m, S, y), S)
    <2>1. PICK T : T = Keyed(S, key, y)
        OBVIOUS
    <2>2. PICK h : h = ColumnOf(m, S, y)
        OBVIOUS
    <2>3. T \in SUBSET S /\ \A x \in S : h[x] = IF x \in T THEN g[x] ELSE 0
        BY <1>2, <2>1, <2>2 DEF ColumnOf, Keyed
    <2>4. SumFunctionOnSet(g, T) = SumFunctionOnSet(h, S)
        BY <2>3, SumOnPart
    <2> QED
        BY <2>1, <2>2, <2>4
<1>5. DealtOut(m, g, S, K) /\ BroughtTogether(m, b, S, K)
    BY <1>2, <1>3, <1>4 DEF DealtOut, BroughtTogether
<1> QED
    BY <1>5, SumOnExchanged

\* What is shown of a place of T counts those elements that have something there.
ShowsThere(shown, figure, there, m, S, T) ==
    /\ \A y \in T : there[y] \in SUBSET S
    /\ \A x \in S, y \in T : x \notin there[y] => m[x][y] = 0
    /\ \A y \in T : DOMAIN figure[y] = there[y]
    /\ \A y \in T : \A x \in there[y] : figure[y][x] = m[x][y]
    /\ \A y \in T : shown[y] = SumFunction(figure[y])

\* Place by place or element by element, it adds up to the same.
LEMMA SumsSpread ==
    ASSUME NEW S, IsFiniteSet(S), NEW T, IsFiniteSet(T), NEW m, NEW whole, DealtOut(m, whole, S, T),
           NEW shown, NEW figure, NEW there, ShowsThere(shown, figure, there, m, S, T)
    PROVE  SumFunctionOnSet(shown, T) = SumFunctionOnSet(whole, S)
<1>0. /\ \A x \in S, y \in T : m[x][y] \in Int
      /\ \A y \in T : there[y] \in SUBSET S
      /\ \A x \in S, y \in T : x \notin there[y] => m[x][y] = 0
      /\ \A y \in T : DOMAIN figure[y] = there[y]
      /\ \A y \in T : \A x \in there[y] : figure[y][x] = m[x][y]
      /\ \A y \in T : shown[y] = SumFunction(figure[y])
    BY DEF DealtOut, ShowsThere
<1>1. ASSUME NEW y \in T PROVE shown[y] = SumFunctionOnSet(ColumnOf(m, S, y), S)
    <2>1. PICK h : h = ColumnOf(m, S, y)
        OBVIOUS
    <2>2. PICK R \in SUBSET S : R = there[y]
        BY <1>0
    <2>3. PICK g : g = figure[y]
        OBVIOUS
    <2>4. /\ \A x \in S : h[x] = m[x][y] /\ h[x] \in Int
          /\ \A x \in S : x \notin R => h[x] = 0
        BY <1>0, <2>1, <2>2 DEF ColumnOf
    <2>5. \A x \in S : h[x] = IF x \in R THEN h[x] ELSE 0
        BY <2>4
    <2>6. SumFunctionOnSet(h, R) = SumFunctionOnSet(h, S)
        BY <2>4, <2>5, SumOnPart
    <2>7. \A x \in R : h[x] = g[x] /\ h[x] \in Int
        BY <1>0, <2>2, <2>3, <2>4
    <2>8. SumFunctionOnSet(g, R) = SumFunctionOnSet(h, R)
        <3>1. IsFiniteSet(R)
            BY FS_Subset
        <3> QED
            BY <2>7, <3>1, SumOnSame
    <2>9. DOMAIN g = R /\ shown[y] = SumFunction(g)
        BY <1>0, <2>2, <2>3
    <2> QED
        BY <2>1, <2>6, <2>8, <2>9 DEF SumFunction
<1>2. BroughtTogether(m, shown, S, T)
    BY <1>1 DEF BroughtTogether
<1> QED
    BY <1>2, SumOnExchanged

\* The elements of S numbered by those of T: g counts at x what h counts at
\* the element x is sent to.
LEMMA SumOnRenamed ==
    ASSUME NEW S, IsFiniteSet(S), NEW T, IsFiniteSet(T), NEW to, \A x \in S : to[x] \in T,
           \A y \in T : \E x \in S : to[x] = y, \A x, z \in S : to[x] = to[z] => x = z,
           NEW h, \A y \in T : h[y] \in Int, NEW g, \A x \in S : g[x] = h[to[x]]
    PROVE  SumFunctionOnSet(g, S) = SumFunctionOnSet(h, T)
<1>1. \A x \in S : g[x] \in Int
    OBVIOUS
<1>2. ASSUME NEW y \in T PROVE h[y] = SumFunctionOnSet(g, Keyed(S, to, y))
    <2>1. PICK x \in S : to[x] = y
        OBVIOUS
    <2>2. Keyed(S, to, y) = {x}
        BY <2>1 DEF Keyed
    <2>3. SumFunctionOnSet(g, {x}) = g[x]
        BY <1>1, SumOnOne
    <2> QED
        BY <2>1, <2>2, <2>3
<1> QED
    BY <1>1, <1>2, SumOnByKey

\* A set sorted by a key is counted part by part.
LEMMA CountByKey ==
    ASSUME NEW S, IsFiniteSet(S), NEW K, IsFiniteSet(K), NEW key, \A x \in S : key[x] \in K,
           NEW b, \A y \in K : b[y] = Cardinality(Keyed(S, key, y))
    PROVE  Cardinality(S) = SumFunctionOnSet(b, K)
<1>1. PICK g : g = [x \in S |-> 1]
    OBVIOUS
<1>2. \A x \in S : g[x] = 1
    BY <1>1
<1>3. \A x \in S : g[x] \in Int
    BY <1>2
<1>4. ASSUME NEW y \in K PROVE b[y] = SumFunctionOnSet(g, Keyed(S, key, y))
    <2>1. IsFiniteSet(Keyed(S, key, y))
        BY FS_Subset DEF Keyed
    <2>2. \A z \in Keyed(S, key, y) : g[z] = 1
        BY <1>2 DEF Keyed
    <2>3. SumFunctionOnSet(g, Keyed(S, key, y)) = Cardinality(Keyed(S, key, y))
        BY <2>1, <2>2, SumOnOnes
    <2> QED
        BY <2>3
<1>5. SumFunctionOnSet(g, S) = SumFunctionOnSet(b, K)
    BY <1>3, <1>4, SumOnByKey
<1> QED
    BY <1>2, <1>5, SumOnOnes
-----------------------------------------------------------------------------
(* The stays of a finding.  P stands for the periods, D for what is counted *)
(* (cases, amounts).                                                        *)

Amounts(D) == [D -> Nat]
Moving(P, D) == [from : P, to : P, qty : Amounts(D)]

\* A set of positions has a last one.
LEMMA LastPosition ==
    ASSUME NEW n \in Nat, NEW S \in SUBSET (1..n), S # {}
    PROVE  Max(S) \in S /\ \A i \in S : i <= Max(S)
<1> DEFINE Good == {k \in Nat : \A T \in SUBSET (1..k) : T # {} => \E x \in T : \A y \in T : x >= y}
<1>1. 0 \in Good
    <2>1. 1..0 = {}
        OBVIOUS
    <2> QED
        BY <2>1
<1>2. ASSUME NEW k \in Nat, k \in Good PROVE k + 1 \in Good
    <2>1. SUFFICES ASSUME NEW T \in SUBSET (1..(k + 1)), T # {}
                   PROVE  \E x \in T : \A y \in T : x >= y
        OBVIOUS
    <2>2. CASE k + 1 \in T
        BY <2>2
    <2>3. CASE k + 1 \notin T
        <3>1. T \in SUBSET (1..k)
            BY <2>3
        <3> QED
            BY <1>2, <2>1, <3>1
    <2> QED
        BY <2>2, <2>3
<1>3. Nat \subseteq Good
    <2> HIDE DEF Good
    <2> QED
        BY <1>1, <1>2, NatSetInduction
<1>4. \E x \in S : \A y \in S : x >= y
    BY <1>3
<1>5. Max(S) \in S /\ \A y \in S : Max(S) >= y
    BY <1>4 DEF Max
<1> QED
    BY <1>5

\* The stays, read off the transfers
LEMMA StaysFollow ==
    ASSUME NEW P, NEW D, NEW moves \in Seq(Moving(P, D)), NEW home \in P, NEW total \in Amounts(D),
           NEW stays, stays = Stays(moves, home, total)
    PROVE  /\ Len(moves) \in Nat /\ DOMAIN stays = 1..(Len(moves) + 1)
           /\ \A i \in 1..(Len(moves) + 1) : stays[i].period \in P /\ stays[i].arrived \in Amounts(D)
           /\ stays[1].arrived = total
           /\ moves = <<>> => stays[1].period = home
           /\ \A i \in 1..Len(moves) :
                 stays[i + 1].period = moves[i].to /\ stays[i + 1].arrived = moves[i].qty
<1> DEFINE n == Len(moves)
           tail == [i \in DOMAIN moves |-> [period |-> moves[i].to, arrived |-> moves[i].qty]]
           first == [period |-> IF moves = <<>> THEN home ELSE moves[1].from, arrived |-> total]
<1>1. n \in Nat /\ DOMAIN moves = 1..n /\ \A i \in 1..n : moves[i] \in Moving(P, D)
    OBVIOUS
<1>2. tail \in Seq([period : P, arrived : Amounts(D)]) /\ Len(tail) = n
    BY <1>1 DEF Moving
<1>3. first \in [period : P, arrived : Amounts(D)]
    BY <1>1 DEF Moving
<1>4. moves = <<>> <=> n = 0
    BY <1>1
<1>5. \A i \in 1..n : /\ tail[i] \in [period : P, arrived : Amounts(D)]
                      /\ tail[i].period = moves[i].to /\ tail[i].arrived = moves[i].qty
    BY <1>1 DEF Moving
<1>6. stays = <<first>> \o tail
    <2>1. CASE moves = <<>>
        <3>1. stays = <<first>>
            BY <2>1 DEF Stays
        <3>2. Len(tail) = 0
            BY <1>2, <1>4, <2>1
        <3> HIDE DEF tail, first
        <3> QED
            BY <1>2, <1>3, <3>1, <3>2
    <2>2. CASE moves # <<>>
        BY <2>2 DEF Stays
    <2> QED
        BY <2>1, <2>2
<1>7. first.arrived = total /\ (moves = <<>> => first.period = home)
    OBVIOUS
<1> HIDE DEF tail, first
<1>8. /\ DOMAIN stays = 1..(n + 1) /\ stays[1] = first
      /\ \A i \in 1..n : stays[i + 1] = tail[i]
    BY <1>1, <1>2, <1>3, <1>6
<1>9. \A i \in 1..(n + 1) : i = 1 \/ (i - 1 \in 1..n /\ (i - 1) + 1 = i)
    BY <1>1
<1>10. \A i \in 1..(n + 1) : stays[i] \in [period : P, arrived : Amounts(D)]
    <2>1. \A i \in 1..n : tail[i] \in [period : P, arrived : Amounts(D)]
        BY <1>5
    <2>2. \A i \in 1..(n + 1) : i # 1 => stays[i] = tail[i - 1] /\ i - 1 \in 1..n
        BY <1>8, <1>9
    <2> QED
        BY <1>3, <1>8, <2>1, <2>2
<1> QED
    BY <1>1, <1>5, <1>7, <1>8, <1>10

\* Only the last stay has not ended, and it is in the finding's own period.
LEMMA OnlyLastStayGoesOn ==
    ASSUME NEW P, NEW D, NEW moves \in Seq(Moving(P, D)), NEW home \in P, NEW total \in Amounts(D),
           moves # <<>> => moves[Len(moves)].to = home, NEW p \in P
    PROVE  StillIn(moves, home, total, p) <=> p = home
<1>1. PICK stays : stays = Stays(moves, home, total)
    OBVIOUS
<1>2. PICK here : here = {i \in DOMAIN stays : stays[i].period = p}
    OBVIOUS
<1> DEFINE n == Len(moves)
<1>3. n \in Nat /\ DOMAIN moves = 1..n /\ DOMAIN stays = 1..(n + 1) /\ (moves = <<>> <=> n = 0)
    BY <1>1, StaysFollow
<1>4. stays[n + 1].period = home
    <2>1. /\ moves = <<>> => stays[1].period = home
          /\ \A i \in 1..n : stays[i + 1].period = moves[i].to
        BY <1>1, StaysFollow
    <2>2. moves # <<>> => moves[n].to = home
        OBVIOUS
    <2> HIDE DEF n
    <2>3. CASE n = 0
        BY <1>3, <2>1, <2>3
    <2>4. CASE n # 0
        <3>1. n \in 1..n
            BY <1>3, <2>4
        <3> QED
            BY <1>3, <2>1, <2>2, <2>4, <3>1
    <2> QED
        BY <2>3, <2>4
<1>5. StillIn(moves, home, total, p) <=> here # {} /\ Max(here) \notin 1..n
    BY <1>1, <1>2, <1>3 DEF StillIn, StaysIn
<1> HIDE DEF n
<1>6. here \subseteq 1..(n + 1)
    BY <1>2, <1>3
<1>7. here # {} => Max(here) \in here /\ \A i \in here : i <= Max(here)
    <2>1. PICK m \in Nat : m = n + 1
        BY <1>3
    <2> QED
        BY <1>6, <2>1, LastPosition
<1>8. p = home <=> n + 1 \in here
    BY <1>2, <1>3, <1>4
<1>9. CASE n + 1 \in here
    <2>1. Max(here) \in 1..(n + 1) /\ n + 1 <= Max(here)
        BY <1>6, <1>7, <1>9
    <2> QED
        BY <1>3, <1>5, <1>8, <1>9, <2>1
<1>10. CASE n + 1 \notin here
    <2>1. here # {} => Max(here) \in 1..n
        <3>1. SUFFICES ASSUME here # {} PROVE Max(here) \in 1..n
            OBVIOUS
        <3>2. Max(here) \in here
            BY <1>7, <3>1
        <3>3. Max(here) \in 1..(n + 1) /\ Max(here) # n + 1
            BY <1>6, <1>10, <3>2
        <3> QED
            BY <1>3, <3>3
    <2> QED
        BY <1>5, <1>8, <1>10, <2>1
<1> QED
    BY <1>9, <1>10

\* What the stays keep adds up to what was registered: each transfer carries
\* out of a stay what the next one starts with.
LEMMA KeptIsTotal ==
    ASSUME NEW P, NEW D, NEW moves \in Seq(Moving(P, D)), NEW home \in P, NEW total \in Amounts(D),
           NEW d \in D, NEW n, n = Len(moves),
           NEW kept, kept = [i \in 1..(n + 1) |-> Kept(moves, home, total, i, d)]
    PROVE  kept \in [1..(n + 1) -> Int] /\ SumOf(kept) = total[d]
<1>1. PICK stays : stays = Stays(moves, home, total)
    OBVIOUS
<1>2. /\ n \in Nat /\ DOMAIN moves = 1..n /\ DOMAIN stays = 1..(n + 1)
      /\ \A i \in 1..n : stays[i + 1].arrived = moves[i].qty
      /\ stays[1].arrived = total
    BY <1>1, StaysFollow
<1>3. total[d] \in Nat /\ \A i \in 1..n : moves[i].qty[d] \in Nat
    <2>1. \A i \in 1..n : moves[i] \in Moving(P, D)
        BY <1>2
    <2> QED
        BY <2>1 DEF Moving, Amounts
<1>4. PICK left : left = [i \in 0..(n + 1) |->
                             total[d] - (IF i \in 1..n THEN moves[i].qty[d] ELSE IF i = 0 THEN total[d] ELSE 0)]
    OBVIOUS
<1>5. PICK came : came = [i \in 1..(n + 1) |-> IF i = 1 THEN total[d] ELSE moves[i - 1].qty[d]]
    OBVIOUS
<1>6. \A i \in 1..(n + 1) : i # 1 => i - 1 \in 1..n /\ (i - 1) + 1 = i
    BY <1>2
<1>7. \A i \in 1..(n + 1) : came[i] \in Nat /\ stays[i].arrived[d] = came[i]
    BY <1>2, <1>3, <1>5, <1>6
<1>8. \A i \in 1..(n + 1) : kept[i] = came[i] - (IF i \in 1..n THEN moves[i].qty[d] ELSE 0)
    BY <1>1, <1>2, <1>7 DEF Kept
<1>9. kept \in [1..(n + 1) -> Int]
    <2>1. ASSUME NEW i \in 1..(n + 1) PROVE kept[i] \in Int
        <3>1. PICK here \in Int : here = came[i]
            BY <1>7
        <3>2. PICK onward \in Int : onward = IF i \in 1..n THEN moves[i].qty[d] ELSE 0
            BY <1>3
        <3>3. kept[i] = here - onward
            BY <1>8, <3>1, <3>2
        <3> QED
            BY <3>3
    <2> QED
        BY <2>1
<1>10. left \in [0..(n + 1) -> Int] /\ left[0] = 0 /\ left[n + 1] = total[d]
    BY <1>2, <1>3, <1>4
<1>11. ASSUME NEW i \in 1..(n + 1) PROVE left[i] = left[i - 1] + kept[i]
    <2>1. i \in 0..(n + 1) /\ i - 1 \in 0..(n + 1) /\ (i - 1 = 0 <=> i = 1)
        BY <1>2
    <2>2. PICK out \in Nat : out = IF i \in 1..n THEN moves[i].qty[d] ELSE 0
        BY <1>3
    <2>3. left[i] = total[d] - out
        BY <1>4, <2>1, <2>2
    <2>4. left[i - 1] = total[d] - came[i]
        BY <1>2, <1>4, <1>5, <1>6, <2>1
    <2>5. kept[i] = came[i] - out /\ came[i] \in Nat
        BY <1>7, <1>8, <2>2
    <2> QED
        BY <1>3, <2>2, <2>3, <2>4, <2>5
<1>12. kept \in Seq(Int) /\ Len(kept) = n + 1
    BY <1>2, <1>9, IntsInOrder
<1>13. SumsUpTo(left, kept, n + 1)
    BY <1>10, <1>11 DEF SumsUpTo
<1>14. SumOf(kept) = left[n + 1]
    BY <1>12, <1>13, SumIs
<1> QED
    BY <1>9, <1>10, <1>14

\* The shares of the stays that have ended, and what the last one has
EndedStays(moves, home, total, p, d) ==
    SumOf([i \in 1..Len(moves) |->
              IF Stays(moves, home, total)[i].period = p THEN Kept(moves, home, total, i, d) ELSE 0])

Arrived(moves, total) == IF moves = <<>> THEN total ELSE moves[Len(moves)].qty

\* The share of the last one in p
HasHere(moves, home, total, p, d) == IF home = p THEN Arrived(moves, total)[d] ELSE 0

\* A period's eligible cases, stay by stay.
LEMMA EligibleByStay ==
    ASSUME NEW P, NEW D, NEW moves \in Seq(Moving(P, D)), NEW home \in P, NEW total \in Amounts(D),
           moves # <<>> => moves[Len(moves)].to = home, NEW p \in P, NEW d \in D
    PROVE  /\ EndedStays(moves, home, total, p, d) \in Int
           /\ Arrived(moves, total) \in Amounts(D)
           /\ HasHere(moves, home, total, p, d) \in Int
           /\ EligibleIn(moves, home, total, p, d)
                = EndedStays(moves, home, total, p, d) + HasHere(moves, home, total, p, d)
<1>1. PICK stays : stays = Stays(moves, home, total)
    OBVIOUS
<1>2. PICK n \in Nat : n = Len(moves) /\ DOMAIN stays = 1..(n + 1) /\ DOMAIN moves = 1..n
    BY <1>1, StaysFollow
<1>3. /\ \A i \in 1..(n + 1) : stays[i].period \in P /\ stays[i].arrived \in Amounts(D)
      /\ stays[1].arrived = total
      /\ moves = <<>> => stays[1].period = home
      /\ \A i \in 1..n : stays[i + 1].period = moves[i].to /\ stays[i + 1].arrived = moves[i].qty
    BY <1>1, <1>2, StaysFollow
<1>4. /\ \A i \in 1..n : moves[i] \in Moving(P, D)
      /\ moves = <<>> <=> n = 0
      /\ n # 0 => n \in 1..n
    BY <1>2
<1>5. stays[n + 1].period = home /\ stays[n + 1].arrived = Arrived(moves, total)
    <2>1. CASE n = 0
        BY <1>3, <1>4, <2>1 DEF Arrived
    <2>2. CASE n # 0
        BY <1>2, <1>3, <1>4, <2>2 DEF Arrived
    <2> QED
        BY <2>1, <2>2
<1>6. Arrived(moves, total) \in Amounts(D)
    <2>1. n + 1 \in 1..(n + 1)
        OBVIOUS
    <2> QED
        BY <1>3, <1>5, <2>1
<1>7. PICK k : k = [i \in 1..(n + 1) |-> Kept(moves, home, total, i, d)]
    OBVIOUS
<1>8. k \in [1..(n + 1) -> Int]
    BY <1>2, <1>7, KeptIsTotal
<1>9. k[n + 1] = Arrived(moves, total)[d]
    <2>1. n + 1 \in 1..(n + 1) /\ n + 1 \notin 1..n
        OBVIOUS
    <2>2. Arrived(moves, total)[d] \in Nat
        BY <1>6 DEF Amounts
    <2> QED
        BY <1>1, <1>2, <1>5, <1>7, <2>1, <2>2 DEF Kept
<1>10. PICK w : w = [i \in 1..n |-> IF stays[i].period = p THEN k[i] ELSE 0]
    OBVIOUS
<1>11. PICK x : x = IF home = p THEN k[n + 1] ELSE 0
    OBVIOUS
<1>12. w \in Seq(Int) /\ Len(w) = n /\ x \in Int
    <2>1. w \in [1..n -> Int]
        BY <1>8, <1>10
    <2> QED
        BY <1>8, <1>11, <2>1, IntsInOrder
<1>13. PICK v : v = [i \in 1..(n + 1) |-> IF stays[i].period = p THEN k[i] ELSE 0]
    OBVIOUS
<1>14. v = Append(w, x)
    <2>1. PICK more : more = Append(w, x)
        OBVIOUS
    <2>2. more \in Seq(Int) /\ Len(more) = n + 1
          /\ \A i \in 1..(n + 1) : more[i] = IF i = n + 1 THEN x ELSE w[i]
        BY <1>12, <2>1
    <2>3. more = [i \in 1..(n + 1) |-> more[i]]
        BY <2>2
    <2>4. \A i \in 1..(n + 1) : more[i] = v[i]
        <3>1. \A i \in 1..(n + 1) : i # n + 1 => i \in 1..n
            OBVIOUS
        <3>2. \A i \in 1..n : more[i] = v[i]
            <4>1. \A i \in 1..n : i \in 1..(n + 1) /\ i # n + 1
                OBVIOUS
            <4> QED
                BY <1>10, <1>13, <2>2, <4>1
        <3>3. n + 1 \in 1..(n + 1)
            OBVIOUS
        <3>4. more[n + 1] = x /\ v[n + 1] = x
            BY <1>5, <1>11, <1>13, <2>2, <3>3
        <3> QED
            BY <3>1, <3>2, <3>4
    <2> QED
        BY <1>13, <2>1, <2>3, <2>4
<1>15. SumOf(v) = SumOf(w) + x /\ SumOf(w) \in Int
    BY <1>12, <1>14, SumOfAppend, SumIs, PartialSumsSolve, SolutionsAreSums
<1>16. EligibleIn(moves, home, total, p, d) = SumOf(v)
    <2>1. [i \in DOMAIN stays |-> IF stays[i].period = p THEN Kept(moves, home, total, i, d) ELSE 0] = v
        BY <1>2, <1>7, <1>13
    <2> QED
        BY <1>1, <2>1 DEF EligibleIn
<1>17. EndedStays(moves, home, total, p, d) = SumOf(w)
    <2>1. [i \in 1..Len(moves) |->
              IF Stays(moves, home, total)[i].period = p THEN Kept(moves, home, total, i, d) ELSE 0] = w
        BY <1>1, <1>2, <1>7, <1>10
    <2> QED
        BY <2>1 DEF EndedStays
<1>18. HasHere(moves, home, total, p, d) = x
    BY <1>9, <1>11 DEF HasHere
<1>19. x \in Int
    BY <1>12
<1> QED
    BY <1>6, <1>15, <1>16, <1>17, <1>18, <1>19

\* The first stay is where the first transfer left from.
LEMMA FirstStay ==
    ASSUME NEW P, NEW D, NEW moves \in Seq(Moving(P, D)), NEW home \in P, NEW total \in Amounts(D),
           moves # <<>>, NEW stays, stays = Stays(moves, home, total)
    PROVE  stays[1].period = moves[1].from
<1>1. PICK tail : tail = [i \in DOMAIN moves |-> [period |-> moves[i].to, arrived |-> moves[i].qty]]
    OBVIOUS
<1>2. PICK first : first = [period |-> moves[1].from, arrived |-> total]
    OBVIOUS
<1>3. /\ Len(moves) \in Nat /\ DOMAIN moves = 1..Len(moves) /\ 1 \in 1..Len(moves)
      /\ \A i \in 1..Len(moves) : moves[i] \in Moving(P, D)
    OBVIOUS
<1>4. tail \in Seq([period : P, arrived : Amounts(D)])
    BY <1>1, <1>3 DEF Moving
<1>5. first \in [period : P, arrived : Amounts(D)]
    BY <1>2, <1>3 DEF Moving
<1>6. stays = <<first>> \o tail
    BY <1>1, <1>2 DEF Stays
<1>7. (<<first>> \o tail)[1] = first
    BY <1>4, <1>5
<1> QED
    BY <1>2, <1>6, <1>7

\* A sequence with one number more
LEMMA IntAppended ==
    ASSUME NEW w \in Seq(Int), NEW n \in Nat, Len(w) = n, NEW x \in Int, NEW more, more = Append(w, x)
    PROVE  /\ more \in Seq(Int) /\ Len(more) = n + 1
           /\ \A i \in 1..(n + 1) : more[i] = IF i = n + 1 THEN x ELSE w[i]
OBVIOUS

\* A transfer forgets no stay.
LEMMA StaysRemain ==
    ASSUME NEW P, NEW D, NEW moves \in Seq(Moving(P, D)), NEW home \in P, NEW total \in Amounts(D),
           NEW m \in Moving(P, D), m.from = home,
           NEW more \in Seq(Moving(P, D)), Len(more) = Len(moves) + 1, more[Len(moves) + 1] = m,
           \A i \in 1..Len(moves) : more[i] = moves[i],
           NEW p, StaysIn(moves, home, total, p) # {}
    PROVE  StaysIn(more, m.to, total, p) # {}
<1>1. PICK stays : stays = Stays(moves, home, total)
    OBVIOUS
<1>2. PICK longer : longer = Stays(more, m.to, total)
    OBVIOUS
<1>3. PICK n \in Nat : n = Len(moves)
    OBVIOUS
<1>4. /\ Len(more) = n + 1 /\ more # <<>> /\ more[n + 1] = m
      /\ \A i \in 1..n : more[i] = moves[i]
      /\ moves = <<>> <=> n = 0
    BY <1>3
<1>5. m.to \in P
    BY DEF Moving
<1>6. /\ DOMAIN stays = 1..(n + 1)
      /\ moves = <<>> => stays[1].period = home
      /\ \A i \in 1..n : stays[i + 1].period = moves[i].to
    BY <1>1, <1>3, StaysFollow
<1>7. /\ DOMAIN longer = 1..((n + 1) + 1)
      /\ \A i \in 1..(n + 1) : longer[i + 1].period = more[i].to
    <2>1. /\ DOMAIN longer = 1..(Len(more) + 1)
          /\ \A i \in 1..Len(more) : longer[i + 1].period = more[i].to
        BY <1>2, <1>5, StaysFollow
    <2> QED
        BY <1>4, <2>1
<1>8. longer[1].period = more[1].from
    BY <1>2, <1>4, <1>5, FirstStay
<1>9. moves # <<>> => stays[1].period = moves[1].from
    BY <1>1, FirstStay
<1>10. PICK i \in 1..(n + 1) : stays[i].period = p
    BY <1>1, <1>6 DEF StaysIn
<1>11. longer[i].period = p
    <2>1. CASE n = 0
        <3>1. moves = <<>> /\ i = 1
            BY <1>4, <2>1
        <3> QED
            BY <1>4, <1>6, <1>8, <1>10, <2>1, <3>1
    <2>2. CASE n # 0 /\ i = 1
        <3>1. moves # <<>> /\ 1 \in 1..n
            BY <1>4, <2>2
        <3> QED
            BY <1>4, <1>8, <1>9, <1>10, <2>2, <3>1
    <2>3. CASE i # 1
        <3>1. PICK j \in 1..n : i = j + 1
            BY <2>3
        <3>2. j \in 1..(n + 1)
            OBVIOUS
        <3> QED
            BY <1>4, <1>6, <1>7, <1>10, <3>1, <3>2
    <2> QED
        BY <2>1, <2>2, <2>3
<1>12. i \in DOMAIN longer
    BY <1>7
<1> QED
    BY <1>2, <1>11, <1>12 DEF StaysIn

\* A transfer ends the stay the finding was in and starts another.
LEMMA StayEnds ==
    ASSUME NEW P, NEW D, NEW moves \in Seq(Moving(P, D)), NEW home \in P, NEW total \in Amounts(D),
           moves # <<>> => moves[Len(moves)].to = home, NEW p \in P, NEW d \in D,
           NEW m \in Moving(P, D), m.from = home,
           NEW more \in Seq(Moving(P, D)), Len(more) = Len(moves) + 1, more[Len(moves) + 1] = m,
           \A i \in 1..Len(moves) : more[i] = moves[i]
    PROVE  /\ EndedStays(more, m.to, total, p, d)
                = EndedStays(moves, home, total, p, d)
                    + (IF home = p THEN Arrived(moves, total)[d] - m.qty[d] ELSE 0)
           /\ Arrived(more, total) = m.qty
<1>1. PICK stays : stays = Stays(moves, home, total)
    OBVIOUS
<1>2. PICK n \in Nat : n = Len(moves) /\ DOMAIN stays = 1..(n + 1) /\ DOMAIN moves = 1..n
    BY <1>1, StaysFollow
<1>3. /\ stays[1].arrived = total
      /\ moves = <<>> => stays[1].period = home
      /\ \A i \in 1..n : stays[i + 1].period = moves[i].to /\ stays[i + 1].arrived = moves[i].qty
    <2>1. /\ stays[1].arrived = total
          /\ moves = <<>> => stays[1].period = home
          /\ \A i \in 1..Len(moves) :
                stays[i + 1].period = moves[i].to /\ stays[i + 1].arrived = moves[i].qty
        BY <1>1, StaysFollow
    <2> QED
        BY <1>2, <2>1
<1>29. moves # <<>> => stays[1].period = moves[1].from
    BY <1>1, FirstStay
<1>4. /\ \A i \in 1..n : moves[i] \in Moving(P, D)
      /\ moves = <<>> <=> n = 0
      /\ n # 0 => n \in 1..n /\ 1 \in 1..n
    BY <1>2
<1>5. stays[n + 1].period = home /\ stays[n + 1].arrived = Arrived(moves, total)
    <2>1. CASE n = 0
        BY <1>3, <1>4, <2>1 DEF Arrived
    <2>2. CASE n # 0
        BY <1>2, <1>3, <1>4, <2>2 DEF Arrived
    <2> QED
        BY <2>1, <2>2
<1>6. /\ Len(more) = n + 1 /\ DOMAIN more = 1..(n + 1) /\ more # <<>>
      /\ more[n + 1] = m /\ \A i \in 1..n : more[i] = moves[i]
    BY <1>2
<1>7. m.to \in P /\ m.qty \in Amounts(D)
    BY DEF Moving
<1>8. PICK longer : longer = Stays(more, m.to, total)
    OBVIOUS
<1>9. /\ longer[1].arrived = total
      /\ longer[1].period = more[1].from
      /\ \A i \in 1..(n + 1) : longer[i + 1].period = more[i].to /\ longer[i + 1].arrived = more[i].qty
    <2>1. /\ longer[1].arrived = total
          /\ \A i \in 1..Len(more) :
                longer[i + 1].period = more[i].to /\ longer[i + 1].arrived = more[i].qty
        BY <1>7, <1>8, StaysFollow
    <2>2. longer[1].period = more[1].from
        BY <1>6, <1>7, <1>8, FirstStay
    <2> QED
        BY <1>6, <2>1, <2>2
<1>10. \A i \in 1..n : /\ longer[i + 1].period = stays[i + 1].period
                       /\ longer[i + 1].arrived = stays[i + 1].arrived
    <2>1. \A i \in 1..n : i \in 1..(n + 1)
        OBVIOUS
    <2> QED
        BY <1>3, <1>6, <1>9, <2>1, ZenonT(60)
<1>11. longer[1].period = stays[1].period
    <2>1. CASE n = 0
        BY <1>3, <1>4, <1>6, <1>9, <2>1
    <2>2. CASE n # 0
        BY <1>3, <1>4, <1>6, <1>9, <1>29, <2>2
    <2> QED
        BY <2>1, <2>2
<1>12. \A i \in 1..(n + 1) : longer[i].period = stays[i].period /\ longer[i].arrived = stays[i].arrived
    <2>1. \A i \in 1..(n + 1) : i = 1 \/ (i - 1 \in 1..n /\ (i - 1) + 1 = i)
        OBVIOUS
    <2> QED
        BY <1>3, <1>9, <1>10, <1>11, <2>1
<1>13. PICK k : k = [i \in 1..(n + 1) |-> Kept(moves, home, total, i, d)]
    OBVIOUS
<1>14. k \in [1..(n + 1) -> Int]
    <2>1. n = Len(moves)
        BY <1>2
    <2> QED
        BY ONLY <1>13, <2>1, moves \in Seq(Moving(P, D)), home \in P, total \in Amounts(D), d \in D, KeptIsTotal
<1>15. PICK kk : kk = [i \in 1..(n + 1) |-> Kept(more, m.to, total, i, d)]
    OBVIOUS
<1>16. \A i \in 1..n : kk[i] = k[i]
    <2>1. \A i \in 1..n : i \in 1..(n + 1)
        OBVIOUS
    <2> QED
        BY <1>1, <1>2, <1>6, <1>8, <1>12, <1>13, <1>15, <2>1 DEF Kept
<1>17. n + 1 \in 1..(n + 1)
    OBVIOUS
<1>18. kk[n + 1] = Arrived(moves, total)[d] - m.qty[d]
    BY <1>5, <1>6, <1>8, <1>12, <1>15, <1>17 DEF Kept
<1>19. Arrived(moves, total)[d] \in Int /\ m.qty[d] \in Int
    <2>1. Arrived(moves, total) \in Amounts(D)
        BY EligibleByStay
    <2> QED
        BY <1>7, <2>1 DEF Amounts
<1>20. PICK w : w = [i \in 1..n |-> IF stays[i].period = p THEN k[i] ELSE 0]
    OBVIOUS
<1>21. PICK x : x = IF home = p THEN Arrived(moves, total)[d] - m.qty[d] ELSE 0
    OBVIOUS
<1>22. w \in Seq(Int) /\ Len(w) = n /\ x \in Int
    <2>1. w \in [1..n -> Int]
        BY <1>14, <1>20
    <2> QED
        BY <1>19, <1>21, <2>1, IntsInOrder
<1>23. PICK v : v = [i \in 1..(n + 1) |-> IF longer[i].period = p THEN kk[i] ELSE 0]
    OBVIOUS
<1>24. v = Append(w, x)
    <2>1. PICK one : one = Append(w, x)
        OBVIOUS
    <2>2. one \in Seq(Int) /\ Len(one) = n + 1
          /\ \A i \in 1..(n + 1) : one[i] = IF i = n + 1 THEN x ELSE w[i]
        BY <1>22, <2>1, IntAppended
    <2>3. one = [i \in 1..(n + 1) |-> one[i]]
        BY <2>2
    <2>4. \A i \in 1..(n + 1) : one[i] = v[i]
        <3>1. \A i \in 1..(n + 1) : i # n + 1 => i \in 1..n
            OBVIOUS
        <3>2. \A i \in 1..n : one[i] = v[i]
            <4>1. \A i \in 1..n : i \in 1..(n + 1) /\ i # n + 1
                OBVIOUS
            <4> QED
                BY <1>12, <1>16, <1>20, <1>23, <2>2, <4>1
        <3>3. one[n + 1] = x /\ v[n + 1] = x
            BY <1>5, <1>12, <1>17, <1>18, <1>21, <1>23, <2>2
        <3> QED
            BY <3>1, <3>2, <3>3
    <2> QED
        BY <1>23, <2>1, <2>3, <2>4
<1>25. SumOf(v) = SumOf(w) + x
    BY <1>22, <1>24, SumOfAppend
<1>26. EndedStays(moves, home, total, p, d) = SumOf(w)
    <2>1. [i \in 1..Len(moves) |->
              IF Stays(moves, home, total)[i].period = p THEN Kept(moves, home, total, i, d) ELSE 0] = w
        BY <1>1, <1>2, <1>13, <1>20
    <2> QED
        BY <2>1 DEF EndedStays
<1>27. EndedStays(more, m.to, total, p, d) = SumOf(v)
    <2>1. [i \in 1..Len(more) |->
              IF Stays(more, m.to, total)[i].period = p THEN Kept(more, m.to, total, i, d) ELSE 0] = v
        BY <1>6, <1>8, <1>15, <1>23
    <2> QED
        BY <2>1 DEF EndedStays
<1>28. Arrived(more, total) = m.qty
    BY <1>6 DEF Arrived
<1> QED
    BY <1>21, <1>25, <1>26, <1>27, <1>28

\* No stay has ended before the first transfer.
LEMMA EndedNone ==
    ASSUME NEW home, NEW total, NEW p, NEW d
    PROVE  EndedStays(<<>>, home, total, p, d) = 0 /\ Arrived(<<>>, total) = total
<1>1. EndedStays(<<>>, home, total, p, d) = SumOf(<<>>)
    BY DEF EndedStays
<1> QED
    BY <1>1, SumOfEmpty DEF Arrived

\* One row more in a ledger, whichever periods are counted
LEMMA LedgerOneMore ==
    ASSUME NEW Rows, NEW d, \A y \in Rows : y.qty[d] \in Int,
           NEW rows \in Seq(Rows), NEW row \in Rows, NEW S
    PROVE  /\ SumOfRows(rows, S, d) \in Int
           /\ SumOfRows(Append(rows, row), S, d)
                = SumOfRows(rows, S, d) + (IF row.period \in S THEN row.qty[d] ELSE 0)
<1> DEFINE w == [i \in DOMAIN rows |-> IF rows[i].period \in S THEN rows[i].qty[d] ELSE 0]
           more == Append(rows, row)
           v == [i \in DOMAIN more |-> IF more[i].period \in S THEN more[i].qty[d] ELSE 0]
           x == IF row.period \in S THEN row.qty[d] ELSE 0
<1>1. \A y \in Rows : y.qty[d] \in Int
    OBVIOUS
<1>2. /\ Len(rows) \in Nat /\ DOMAIN rows = 1..Len(rows)
      /\ DOMAIN more = 1..(Len(rows) + 1)
      /\ more[Len(rows) + 1] = row
      /\ \A i \in 1..Len(rows) : rows[i] \in Rows /\ more[i] = rows[i]
    OBVIOUS
<1>3. w \in Seq(Int) /\ Len(w) = Len(rows) /\ x \in Int
    BY <1>1, <1>2
<1>4. v = Append(w, x)
    BY <1>1, <1>2, <1>3
<1>5. SumOfRows(rows, S, d) = SumOf(w) /\ SumOfRows(more, S, d) = SumOf(v)
    BY DEF SumOfRows
<1> HIDE DEF w, v, x, more
<1>6. SumOf(v) = SumOf(w) + x
    BY <1>3, <1>4, SumOfAppend
<1>7. SumOf(w) \in Int
    BY <1>3, SumIs, PartialSumsSolve, SolutionsAreSums
<1> QED
    BY <1>5, <1>6, <1>7 DEF x, more

\* The shares of the periods add up to what was registered.
LEMMA SharesOfStays ==
    ASSUME NEW P, IsFiniteSet(P), NEW D, NEW moves \in Seq(Moving(P, D)), NEW home \in P,
           NEW total \in Amounts(D), NEW d \in D,
           NEW share, \A p \in P : share[p] = EligibleIn(moves, home, total, p, d)
    PROVE  SumFunctionOnSet(share, P) = total[d]
<1>3. PICK stays : stays = Stays(moves, home, total)
    OBVIOUS
<1>4. PICK n \in Nat : n = Len(moves) /\ DOMAIN stays = 1..(n + 1)
    BY <1>3, StaysFollow
<1>5. PICK kept : kept = [i \in 1..(n + 1) |-> Kept(moves, home, total, i, d)]
    OBVIOUS
<1>6. kept \in [1..(n + 1) -> Int] /\ SumOf(kept) = total[d]
    BY <1>4, <1>5, KeptIsTotal
<1>7. PICK where : where = [i \in 1..(n + 1) |-> stays[i].period]
    OBVIOUS
<1>8. \A i \in 1..(n + 1) : where[i] \in P
    BY <1>3, <1>4, <1>7, StaysFollow
<1>9. EachDealt(share, kept, where, P)
    <2>1. ASSUME NEW p \in P PROVE share[p] = DealtTo(kept, where, {p})
        <3>1. share[p] =
                SumOf([i \in DOMAIN stays |-> IF stays[i].period = p THEN Kept(moves, home, total, i, d) ELSE 0])
            BY <1>3 DEF EligibleIn
        <3>2. [i \in DOMAIN stays |-> IF stays[i].period = p THEN Kept(moves, home, total, i, d) ELSE 0]
                = [i \in DOMAIN kept |-> IF where[i] \in {p} THEN kept[i] ELSE 0]
            BY <1>4, <1>5, <1>7
        <3> QED
            BY <3>1, <3>2 DEF DealtTo
    <2> QED
        BY <2>1 DEF EachDealt
<1>10. PICK m \in Nat : m = n + 1
    OBVIOUS
<1>11. kept \in [1..m -> Int]
    BY <1>6, <1>10
<1>12. SumFunctionOnSet(share, P) = DealtTo(kept, where, P)
    BY <1>9, <1>11, SumOnIsDealt
<1>13. [i \in DOMAIN kept |-> IF where[i] \in P THEN kept[i] ELSE 0] = kept
    BY <1>6, <1>8
<1> QED
    BY <1>6, <1>12, <1>13 DEF DealtTo

\* The ledger rows stamped with each period add up to those of all of them.
LEMMA SharesOfLedger ==
    ASSUME NEW P, IsFiniteSet(P), NEW Rows, NEW d, \A y \in Rows : y.qty[d] \in Int, NEW rows \in Seq(Rows),
           NEW share, \A p \in P : share[p] = ClosedIn(rows, p, d)
    PROVE  SumFunctionOnSet(share, P) = SumOfRows(rows, P, d)
<1>1. PICK m \in Nat : m = Len(rows) /\ DOMAIN rows = 1..m
    OBVIOUS
<1>2. PICK k : k = [i \in 1..m |-> rows[i].qty[d]]
    OBVIOUS
<1>3. PICK where : where = [i \in 1..m |-> rows[i].period]
    OBVIOUS
<1>4. k \in [1..m -> Int]
    BY <1>1, <1>2
<1>5. ASSUME NEW T PROVE SumOfRows(rows, T, d) = DealtTo(k, where, T)
    <2>1. [i \in DOMAIN rows |-> IF rows[i].period \in T THEN rows[i].qty[d] ELSE 0]
            = [i \in DOMAIN k |-> IF where[i] \in T THEN k[i] ELSE 0]
        BY <1>1, <1>2, <1>3
    <2> QED
        BY <2>1 DEF SumOfRows, DealtTo
<1>6. EachDealt(share, k, where, P)
    BY <1>5 DEF ClosedIn, EachDealt
<1>7. SumFunctionOnSet(share, P) = DealtTo(k, where, P)
    BY <1>4, <1>6, SumOnIsDealt
<1> QED
    BY <1>5, <1>7
=============================================================================
