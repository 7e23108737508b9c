---------------------------- MODULE XrmSumProofs ----------------------------
(***************************************************************************)
(* Sums are what their recursive definition says, and how they compare;    *)
(* and folds over sequences keep what each of their steps keeps.           *)
(***************************************************************************)
EXTENDS XrmSum, SequencesExt, WellFoundedInduction, TLAPS

(* A non-empty set of natural numbers has a least element. *)
LEMMA LeastElement ==
  ASSUME NEW T \in SUBSET Nat, T # {}
  PROVE  \E n \in T : \A m \in T : n <= m
<1> DEFINE R == OpToRel(<, Nat)
<1>1. \A m, n \in Nat : m < n => <<m, n>> \in R
  BY DEF OpToRel
<1>2. IsWellFoundedOn(R, Nat)
  BY NatLessThanWellFounded
<1> HIDE DEF R
<1>3. PICK n \in T : \A m \in T : ~(<<m, n>> \in R)
  BY <1>2, WFMin
<1>4. \A m \in T : ~(m < n)
  <2> TAKE m \in T
  <2>1. m \in Nat /\ n \in Nat
    OBVIOUS
  <2> QED BY <1>1, <1>3, <2>1
<1>5. \A m \in T : m \in Nat /\ n \in Nat
  OBVIOUS
<1> QED BY <1>4, <1>5

(* Induction over the naturals, for a property given as a set. *)
LEMMA InductiveSet ==
  ASSUME NEW T \in SUBSET Nat, 0 \in T, \A n \in T : n + 1 \in T
  PROVE  T = Nat
<1> SUFFICES ASSUME Nat \ T # {} PROVE FALSE
  OBVIOUS
<1>1. PICK n \in Nat \ T : \A m \in Nat \ T : n <= m
  BY LeastElement
<1>2. n # 0 /\ n - 1 \in Nat
  BY <1>1
<1>3. n - 1 \in T
  BY <1>1, <1>2
<1> QED BY <1>1, <1>2, <1>3

(* An array of partial sums exists, of any length. *)
LEMMA PartialSums ==
  ASSUME NEW n \in Nat, NEW f
  PROVE  \E s : s = [i \in 0..n |-> IF i = 0 THEN 0 ELSE s[i - 1] + f[i - 1]]
<1> DEFINE IsSums(s, m) == s = [i \in 0..m |-> IF i = 0 THEN 0 ELSE s[i - 1] + f[i - 1]]
           T == {m \in Nat : \E s : IsSums(s, m)}
<1>1. 0 \in T
  <2>1. IsSums([i \in 0..0 |-> 0], 0)
    OBVIOUS
  <2> QED BY <2>1
<1>2. ASSUME NEW m \in T PROVE m + 1 \in T
  <2>1. PICK s : IsSums(s, m)
    OBVIOUS
  <2> DEFINE r == [i \in 0..(m + 1) |-> IF i = m + 1 THEN s[m] + f[m] ELSE s[i]]
  <2>2. \A i \in 0..(m + 1) : r[i] = IF i = 0 THEN 0 ELSE r[i - 1] + f[i - 1]
    <3> TAKE i \in 0..(m + 1)
    <3>1. CASE i = m + 1
      BY <3>1
    <3>2. CASE i # m + 1
      <4>1. i \in 0..m /\ (i # 0 => i - 1 \in 0..m /\ i - 1 \in 0..(m + 1))
        BY <3>2
      <4>2. s[i] = IF i = 0 THEN 0 ELSE s[i - 1] + f[i - 1]
        BY <2>1, <4>1
      <4> QED BY <4>1, <4>2, <3>2
    <3> QED BY <3>1, <3>2
  <2>3. r = [i \in 0..(m + 1) |-> IF i = 0 THEN 0 ELSE r[i - 1] + f[i - 1]]
    BY <2>2
  <2>4. IsSums(r, m + 1)
    BY <2>3
  <2> HIDE DEF IsSums, r
  <2>5. m + 1 \in Nat /\ \E q : IsSums(q, m + 1)
    BY <2>4
  <2> QED BY <2>5
<1>3. T = Nat
  <2> HIDE DEF T
  <2>1. T \in SUBSET Nat BY DEF T
  <2> QED BY <1>1, <1>2, <2>1, InductiveSet
<1> QED BY <1>3

(* SumTo is the last of the partial sums its definition names. *)
LEMMA SumRecurrence ==
  ASSUME NEW n \in Nat, NEW f
  PROVE  \E s : /\ s = [i \in 0..n |-> IF i = 0 THEN 0 ELSE s[i - 1] + f[i - 1]]
               /\ SumTo(f, n) = s[n]
<1> DEFINE s == CHOOSE s : s = [i \in 0..n |-> IF i = 0 THEN 0 ELSE s[i - 1] + f[i - 1]]
<1>1. s = [i \in 0..n |-> IF i = 0 THEN 0 ELSE s[i - 1] + f[i - 1]]
  BY PartialSums
<1>2. SumTo(f, n) = s[n]
  BY DEF SumTo
<1> QED BY <1>1, <1>2

(* An empty sum. *)
LEMMA SumZero == \A f : SumTo(f, 0) = 0
<1> TAKE f
<1>1. PICK s : /\ s = [i \in 0..0 |-> IF i = 0 THEN 0 ELSE s[i - 1] + f[i - 1]]
               /\ SumTo(f, 0) = s[0]
  BY SumRecurrence
<1> QED BY <1>1

(* One more element, the recurrence proofs about sums go by. *)
LEMMA SumStep ==
  ASSUME NEW n \in Nat, NEW f
  PROVE  SumTo(f, n + 1) = SumTo(f, n) + f[n]
<1>1. PICK s : /\ s = [i \in 0..n |-> IF i = 0 THEN 0 ELSE s[i - 1] + f[i - 1]]
               /\ SumTo(f, n) = s[n]
  BY SumRecurrence
<1>2. PICK r : /\ r = [i \in 0..(n + 1) |-> IF i = 0 THEN 0 ELSE r[i - 1] + f[i - 1]]
               /\ SumTo(f, n + 1) = r[n + 1]
  <2> n + 1 \in Nat OBVIOUS
  <2> QED BY SumRecurrence
<1> DEFINE T == {i \in Nat : i <= n => s[i] = r[i]}
<1>3. 0 \in T
  BY <1>1, <1>2
<1>4. ASSUME NEW i \in T PROVE i + 1 \in T
  <2>1. SUFFICES ASSUME i + 1 <= n PROVE s[i + 1] = r[i + 1]
    OBVIOUS
  <2>2. s[i] = r[i] /\ i + 1 \in 0..n /\ i + 1 \in 0..(n + 1) /\ i + 1 # 0 /\ i + 1 - 1 = i
    BY <2>1
  <2>3. s[i + 1] = s[i] + f[i]
    BY <1>1, <2>2
  <2>4. r[i + 1] = r[i] + f[i]
    BY <1>2, <2>2
  <2> QED BY <2>2, <2>3, <2>4
<1>5. T = Nat
  <2>1. T \in SUBSET Nat OBVIOUS
  <2> HIDE DEF T
  <2> QED BY <1>3, <1>4, <2>1, InductiveSet
<1>6. s[n] = r[n]
  BY <1>5
<1>7. r[n + 1] = r[n] + f[n]
  <2> n + 1 \in 0..(n + 1) /\ n + 1 # 0 /\ n + 1 - 1 = n
    OBVIOUS
  <2> QED BY <1>2
<1> QED BY <1>1, <1>2, <1>6, <1>7

(* A sum of integers is an integer, of naturals a natural. *)
LEMMA SumType ==
  ASSUME NEW n \in Nat, NEW f, \A i \in 0..(n - 1) : f[i] \in Int
  PROVE  SumTo(f, n) \in Int
<1> DEFINE T == {m \in Nat : m <= n => SumTo(f, m) \in Int}
<1>1. 0 \in T
  BY SumZero
<1>2. ASSUME NEW m \in T PROVE m + 1 \in T
  <2>1. SUFFICES ASSUME m + 1 <= n PROVE SumTo(f, m + 1) \in Int
    OBVIOUS
  <2>2. f[m] \in Int
    BY <2>1
  <2> QED BY <2>1, <2>2, SumStep
<1>3. T = Nat
  <2>1. T \in SUBSET Nat OBVIOUS
  <2> HIDE DEF T
  <2> QED BY <1>1, <1>2, <2>1, InductiveSet
<1> QED BY <1>3

(* Sums are monotone. *)
LEMMA SumMonotone ==
  ASSUME NEW n \in Nat, NEW f, NEW g,
         \A i \in 0..(n - 1) : f[i] \in Int /\ g[i] \in Int /\ f[i] <= g[i]
  PROVE  SumTo(f, n) <= SumTo(g, n)
<1> DEFINE T == {m \in Nat : m <= n => /\ SumTo(f, m) \in Int /\ SumTo(g, m) \in Int
                                       /\ SumTo(f, m) <= SumTo(g, m)}
<1>1. 0 \in T
  BY SumZero
<1>2. ASSUME NEW m \in T PROVE m + 1 \in T
  <2>1. SUFFICES ASSUME m + 1 <= n
                 PROVE  /\ SumTo(f, m + 1) \in Int /\ SumTo(g, m + 1) \in Int
                        /\ SumTo(f, m + 1) <= SumTo(g, m + 1)
    OBVIOUS
  <2>2. f[m] \in Int /\ g[m] \in Int /\ f[m] <= g[m]
    BY <2>1
  <2>3. SumTo(f, m + 1) = SumTo(f, m) + f[m] /\ SumTo(g, m + 1) = SumTo(g, m) + g[m]
    BY SumStep
  <2> QED BY <2>1, <2>2, <2>3
<1>3. T = Nat
  <2>1. T \in SUBSET Nat OBVIOUS
  <2> HIDE DEF T
  <2> QED BY <1>1, <1>2, <2>1, InductiveSet
<1> QED BY <1>3

(* The sum of the pointwise sum. *)
LEMMA SumAdd ==
  ASSUME NEW n \in Nat, NEW f, NEW g, NEW h,
         \A i \in 0..(n - 1) : f[i] \in Int /\ g[i] \in Int /\ h[i] = f[i] + g[i]
  PROVE  SumTo(h, n) = SumTo(f, n) + SumTo(g, n)
<1> DEFINE T == {m \in Nat : m <= n => /\ SumTo(f, m) \in Int /\ SumTo(g, m) \in Int
                                       /\ SumTo(h, m) = SumTo(f, m) + SumTo(g, m)}
<1>1. 0 \in T
  BY SumZero
<1>2. ASSUME NEW m \in T PROVE m + 1 \in T
  <2>1. SUFFICES ASSUME m + 1 <= n
                 PROVE  /\ SumTo(f, m + 1) \in Int /\ SumTo(g, m + 1) \in Int
                        /\ SumTo(h, m + 1) = SumTo(f, m + 1) + SumTo(g, m + 1)
    OBVIOUS
  <2>2. f[m] \in Int /\ g[m] \in Int /\ h[m] = f[m] + g[m]
    BY <2>1
  <2>3. /\ SumTo(f, m + 1) = SumTo(f, m) + f[m]
        /\ SumTo(g, m + 1) = SumTo(g, m) + g[m]
        /\ SumTo(h, m + 1) = SumTo(h, m) + h[m]
    BY SumStep
  <2> QED BY <2>1, <2>2, <2>3
<1>3. T = Nat
  <2>1. T \in SUBSET Nat OBVIOUS
  <2> HIDE DEF T
  <2> QED BY <1>1, <1>2, <2>1, InductiveSet
<1> QED BY <1>3

(* The sum of an array that is 0 everywhere but, maybe, at k. *)
LEMMA SumSingle ==
  ASSUME NEW n \in Nat, NEW f, NEW k \in 0..(n - 1), f[k] \in Int,
         \A i \in 0..(n - 1) : i # k => f[i] = 0
  PROVE  SumTo(f, n) = f[k]
<1> DEFINE T == {m \in Nat : m <= n => SumTo(f, m) = IF k < m THEN f[k] ELSE 0}
<1>1. 0 \in T
  BY SumZero
<1>2. ASSUME NEW m \in T PROVE m + 1 \in T
  <2>1. SUFFICES ASSUME m + 1 <= n
                 PROVE  SumTo(f, m + 1) = IF k < m + 1 THEN f[k] ELSE 0
    OBVIOUS
  <2>2. m # k => f[m] = 0
    BY <2>1
  <2>3. SumTo(f, m + 1) = SumTo(f, m) + f[m]
    BY SumStep
  <2> QED BY <2>1, <2>2, <2>3
<1>3. T = Nat
  <2>1. T \in SUBSET Nat OBVIOUS
  <2> HIDE DEF T
  <2> QED BY <1>1, <1>2, <2>1, InductiveSet
<1> QED BY <1>3

(* Equal arrays have equal sums. *)
LEMMA SumEqual ==
  ASSUME NEW n \in Nat, NEW f, NEW g,
         \A i \in 0..(n - 1) : f[i] \in Int /\ g[i] = f[i]
  PROVE  SumTo(g, n) = SumTo(f, n)
<1>1. SumTo(f, n) <= SumTo(g, n) /\ SumTo(g, n) <= SumTo(f, n)
  BY SumMonotone
<1>2. SumTo(f, n) \in Int /\ SumTo(g, n) \in Int
  BY SumType
<1> QED BY <1>1, <1>2

(* An array of zeros. *)
LEMMA SumOfZeros ==
  ASSUME NEW n \in Nat, NEW f, \A i \in 0..(n - 1) : f[i] = 0
  PROVE  SumTo(f, n) = 0
<1>1. CASE n = 0
  BY <1>1, SumZero
<1>2. CASE n # 0
  <2>1. 0 \in 0..(n - 1)
    BY <1>2
  <2> QED BY <2>1, SumSingle
<1> QED BY <1>1, <1>2

(* A sum of naturals is not negative. *)
LEMMA SumNatural ==
  ASSUME NEW n \in Nat, NEW f, \A i \in 0..(n - 1) : f[i] \in Nat
  PROVE  SumTo(f, n) \in Nat
<1> DEFINE zeros == [i \in 0..(n - 1) |-> 0]
<1>1. SumTo(zeros, n) = 0
  BY SumOfZeros
<1>2. SumTo(zeros, n) <= SumTo(f, n)
  BY SumMonotone
<1>3. SumTo(f, n) \in Int
  BY SumType
<1> HIDE DEF zeros
<1> QED BY <1>1, <1>2, <1>3

(* Two arrays that differ at k alone differ by as much in their sums. *)
LEMMA SumChange ==
  ASSUME NEW n \in Nat, NEW f, NEW g, NEW k \in 0..(n - 1),
         \A i \in 0..(n - 1) : f[i] \in Int /\ g[i] \in Int /\ (i # k => g[i] = f[i])
  PROVE  SumTo(g, n) = SumTo(f, n) + (g[k] - f[k])
<1> DEFINE change == [i \in 0..(n - 1) |-> IF i = k THEN g[k] - f[k] ELSE 0]
<1>1. SumTo(change, n) = change[k]
  BY SumSingle
<1>2. \A i \in 0..(n - 1) : change[i] \in Int /\ g[i] = f[i] + change[i]
  OBVIOUS
<1>3. change[k] = g[k] - f[k]
  OBVIOUS
<1> HIDE DEF change
<1>4. SumTo(g, n) = SumTo(f, n) + SumTo(change, n)
  BY <1>2, SumAdd
<1> QED BY <1>1, <1>3, <1>4

(* A sum of naturals is at least each of them. *)
LEMMA SumAtLeast ==
  ASSUME NEW n \in Nat, NEW f, NEW k \in 0..(n - 1), \A i \in 0..(n - 1) : f[i] \in Nat
  PROVE  f[k] <= SumTo(f, n)
<1> DEFINE one == [i \in 0..(n - 1) |-> IF i = k THEN f[k] ELSE 0]
<1>1. \A i \in 0..(n - 1) : one[i] \in Int /\ f[i] \in Int /\ one[i] <= f[i]
  OBVIOUS
<1>2. one[k] = f[k] /\ one[k] \in Int /\ \A i \in 0..(n - 1) : i # k => one[i] = 0
  OBVIOUS
<1> HIDE DEF one
<1>3. SumTo(one, n) = one[k]
  BY <1>2, SumSingle
<1>4. SumTo(one, n) <= SumTo(f, n)
  BY <1>1, SumMonotone
<1> QED BY <1>2, <1>3, <1>4

----------------------------------------------------------------------------
(* The prefixes a fold has worked off are sets of positions, of which the  *)
(* last is the largest.                                                    *)
Parts(n) == {s \in SUBSET (1 .. n) : s # {}}

Rest(s) == s \ {Max(s)}

LEMMA MaxOf ==
  ASSUME NEW n \in Nat, NEW s \in Parts(n)
  PROVE  Max(s) \in s /\ Max(s) \in 1 .. n /\ \A y \in s : y <= Max(s)
<1> DEFINE T == {n - x : x \in s}
<1>0. s \in SUBSET (1 .. n) /\ s # {}
  BY DEF Parts
<1>1. T \in SUBSET Nat /\ T # {}
  <2>1. \A x \in s : x \in 1 .. n
    BY <1>0
  <2>2. \A x \in s : n - x \in Nat
    BY <2>1
  <2>3. PICK x \in s : TRUE
    BY <1>0
  <2> QED BY <2>2, <2>3
<1>2. PICK t \in T : \A m \in T : t <= m
  BY <1>1, LeastElement
<1>3. PICK x \in s : t = n - x
  BY <1>2
<1>4. \A y \in s : x >= y
  <2> TAKE y \in s
  <2>1. n - x <= n - y
    BY <1>2, <1>3
  <2>2. x \in 1 .. n /\ y \in 1 .. n
    BY <1>0
  <2> QED BY <2>1, <2>2
<1>5. /\ Max(s) \in s
      /\ \A y \in s : Max(s) >= y
  BY <1>4 DEF Max
<1> QED BY <1>0, <1>5

(* A set that holds the largest position, and one that does not. *)
LEMMA LastOf ==
  ASSUME NEW k \in Nat, NEW s \in SUBSET (1 .. (k + 1))
  PROVE  /\ k + 1 \in s => s \in Parts(k + 1) /\ Max(s) = k + 1 /\ Rest(s) \in SUBSET (1 .. k)
         /\ k + 1 \notin s => s \in SUBSET (1 .. k)
<1>1. ASSUME k + 1 \in s
      PROVE  s \in Parts(k + 1) /\ Max(s) = k + 1 /\ Rest(s) \in SUBSET (1 .. k)
  <2>1. s \in Parts(k + 1) /\ k + 1 \in Nat
    BY <1>1 DEF Parts
  <2>2. Max(s) \in 1 .. (k + 1) /\ k + 1 <= Max(s)
    BY <1>1, <2>1, MaxOf
  <2>3. Max(s) = k + 1
    BY <2>2
  <2>4. ASSUME NEW i \in Rest(s) PROVE i \in 1 .. k
    BY <2>3, <2>4 DEF Rest
  <2> QED BY <2>1, <2>3, <2>4
<1>2. ASSUME k + 1 \notin s, NEW i \in s PROVE i \in 1 .. k
  <2>1. i \in 1 .. (k + 1) /\ i # k + 1
    BY <1>2
  <2> QED BY <2>1
<1> QED BY <1>1, <1>2

LEMMA PartsGrow ==
  ASSUME NEW n \in Nat, NEW k \in Nat, k <= n
  PROVE  Parts(k) \subseteq Parts(n)
<1>1. 1 .. k \subseteq 1 .. n
  OBVIOUS
<1> QED BY <1>1 DEF Parts

LEMMA RestOf ==
  ASSUME NEW n \in Nat, NEW s \in Parts(n)
  PROVE  Rest(s) \in SUBSET (1 .. n) /\ s \in SUBSET (1 .. n)
BY DEF Parts, Rest

(* step[s] takes what a fold has come to before the last position of s to  *)
(* what it comes to after it; what it comes to stays in Kept.              *)
IsFold(h, n, base, step) ==
    h = [s \in SUBSET (1 .. n) |-> IF s = {} THEN base ELSE step[s][h[Rest(s)]]]

Keeping(n, Kept, step) ==
    \A s \in Parts(n) : \A at \in Kept[Rest(s)] : step[s][at] \in Kept[s]

Within(h, n, Kept) == \A s \in SUBSET (1 .. n) : h[s] \in Kept[s]

LEMMA FoldExists ==
  ASSUME NEW n \in Nat, NEW Kept, NEW base \in Kept[{}], NEW step, Keeping(n, Kept, step)
  PROVE  \E h : IsFold(h, n, base, step) /\ Within(h, n, Kept)
<1> DEFINE T == {k \in Nat : k <= n => \E h : IsFold(h, k, base, step) /\ Within(h, k, Kept)}
<1>1. 0 \in T
  <2> DEFINE g == [s \in SUBSET (1 .. 0) |-> base]
  <2>1. SUBSET (1 .. 0) = {{}}
    OBVIOUS
  <2>2. IsFold(g, 0, base, step) /\ Within(g, 0, Kept)
    BY <2>1 DEF IsFold, Within
  <2> HIDE DEF g
  <2> QED BY <2>2
<1>2. ASSUME NEW k \in T PROVE k + 1 \in T
  <2>0. k \in Nat
    OBVIOUS
  <2> SUFFICES ASSUME k + 1 <= n
               PROVE  \E h : IsFold(h, k + 1, base, step) /\ Within(h, k + 1, Kept)
    BY <2>0
  <2>1. PICK g : IsFold(g, k, base, step) /\ Within(g, k, Kept)
    BY <2>0
  <2> HIDE DEF T
  <2> DEFINE h == [s \in SUBSET (1 .. (k + 1)) |-> IF k + 1 \in s THEN step[s][g[Rest(s)]] ELSE g[s]]
  <2>2. ASSUME NEW s \in SUBSET (1 .. k) PROVE h[s] = g[s] /\ s \in SUBSET (1 .. (k + 1))
    BY <2>0
  <2>3. ASSUME NEW s \in SUBSET (1 .. (k + 1))
        PROVE  /\ h[s] = IF s = {} THEN base ELSE step[s][h[Rest(s)]]
               /\ h[s] \in Kept[s]
    <3>1. CASE k + 1 \in s
      <4>1. s \in Parts(k + 1) /\ Rest(s) \in SUBSET (1 .. k)
        BY <2>0, <3>1, LastOf
      <4>2. s \in Parts(n) /\ s # {}
        <5>1. k + 1 \in Nat
          BY <2>0
        <5> QED BY <4>1, <5>1, PartsGrow DEF Parts
      <4>3. g[Rest(s)] \in Kept[Rest(s)]
        BY <2>1, <4>1 DEF Within
      <4>4. h[s] = step[s][g[Rest(s)]] /\ h[Rest(s)] = g[Rest(s)]
        BY <2>2, <3>1, <4>1
      <4> HIDE DEF h
      <4> QED BY <4>2, <4>3, <4>4 DEF Keeping
    <3>2. CASE k + 1 \notin s
      <4>1. s \in SUBSET (1 .. k)
        BY <2>0, <3>2, LastOf
      <4>2. s # {} => Rest(s) \in SUBSET (1 .. k)
        BY <2>0, <4>1, RestOf DEF Parts
      <4>3. g[s] = IF s = {} THEN base ELSE step[s][g[Rest(s)]]
        BY <2>1, <4>1 DEF IsFold
      <4>4. g[s] \in Kept[s]
        BY <2>1, <4>1 DEF Within
      <4>5. h[s] = g[s] /\ (s # {} => h[Rest(s)] = g[Rest(s)])
        BY <2>2, <4>1, <4>2
      <4> HIDE DEF h
      <4> QED BY <4>3, <4>4, <4>5
    <3> QED BY <3>1, <3>2
  <2>4. h = [s \in SUBSET (1 .. (k + 1)) |-> IF s = {} THEN base ELSE step[s][h[Rest(s)]]]
    BY <2>3
  <2>5. IsFold(h, k + 1, base, step) /\ Within(h, k + 1, Kept)
    BY <2>3, <2>4 DEF IsFold, Within
  <2> HIDE DEF h
  <2> QED BY <2>5
<1>3. n \in T
  <2> HIDE DEF T
  <2>1. T \in SUBSET Nat BY DEF T
  <2> QED BY <1>1, <1>2, <2>1, InductiveSet
<1> QED BY <1>3

(* What every step keeps is kept from the beginning to the end.            *)
LEMMA FoldKeeps ==
  ASSUME NEW n \in Nat, NEW Kept, NEW h, h[{}] \in Kept[{}],
         \A s \in Parts(n) : h[Rest(s)] \in Kept[Rest(s)] => h[s] \in Kept[s]
  PROVE  h[1 .. n] \in Kept[1 .. n]
<1> DEFINE T == {k \in Nat : k <= n => h[1 .. k] \in Kept[1 .. k]}
<1>1. 0 \in T
  <2>1. 1 .. 0 = {}
    OBVIOUS
  <2> QED BY <2>1
<1>2. ASSUME NEW k \in T PROVE k + 1 \in T
  <2>0. k \in Nat
    OBVIOUS
  <2> SUFFICES ASSUME k + 1 <= n PROVE h[1 .. (k + 1)] \in Kept[1 .. (k + 1)]
    BY <2>0
  <2>1. h[1 .. k] \in Kept[1 .. k]
    BY <2>0
  <2> HIDE DEF T
  <2> DEFINE s == 1 .. (k + 1)
  <2>2. s \in SUBSET (1 .. (k + 1)) /\ k + 1 \in s
    BY <2>0
  <2>3. s \in Parts(k + 1) /\ Max(s) = k + 1
    BY <2>0, <2>2, LastOf
  <2>4. Rest(s) = 1 .. k
    BY <2>0, <2>3 DEF Rest
  <2>5. s \in Parts(n)
    <3>1. k + 1 \in Nat
      BY <2>0
    <3> QED BY <2>3, <3>1, PartsGrow
  <2> HIDE DEF s
  <2>6. h[s] \in Kept[s]
    BY <2>1, <2>4, <2>5
  <2> QED BY <2>6 DEF s
<1>3. n \in T
  <2> HIDE DEF T
  <2>1. T \in SUBSET Nat BY DEF T
  <2> QED BY <1>1, <1>2, <2>1, InductiveSet
<1> QED BY <1>3

=============================================================================
