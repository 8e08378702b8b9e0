--------------------------- MODULE VersionProofs ---------------------------
(***************************************************************************)
(* Theorems about the versions of any length: the code of version.go,      *)
(* which takes two texts apart and compares them run by run, finds the     *)
(* order that DebVersion defines by one first difference.                  *)
(*                                                                         *)
(* What a recursive function has at an argument follows by Induction from  *)
(* its equation, which is proved for each of them from the definition.     *)
(***************************************************************************)
EXTENDS DebVersion, WellFoundedInduction, SequenceTheorems, TLAPS

Below == OpToRel(<, Nat)

LEMMA BelowIs == \A x, y \in Nat : <<x, y>> \in Below <=> x < y
BY DEF Below, OpToRel

LEMMA BelowWellFounded == IsWellFoundedOn(Below, Nat)
BY NatLessThanWellFounded DEF Below

LEMMA Least ==
    ASSUME NEW T \in SUBSET Nat, T # {}
    PROVE  \E x \in T : \A y \in T : x <= y
<1>1. PICK x \in T : \A y \in T : ~ (<<y, x>> \in Below)
  BY WFMin, BelowWellFounded
<1>2. ASSUME NEW y \in T PROVE x <= y
  <2>1. x \in Nat /\ y \in Nat OBVIOUS
  <2>2. <<y, x>> \in Below <=> y < x BY <2>1, BelowIs
  <2>3. <<y, x>> \notin Below BY <1>1
  <2> QED BY <2>1, <2>2, <2>3
<1> QED BY <1>2

\* Induction, with the set of the numbers for which something holds.
LEMMA Induction ==
    ASSUME NEW T \in SUBSET Nat, 0 \in T, \A n \in Nat : n \in T => n + 1 \in T
    PROVE  T = Nat
<1>1. SUFFICES ASSUME Nat \ T # {} PROVE FALSE
  OBVIOUS
<1>2. PICK x \in Nat \ T : \A y \in Nat \ T : x <= y
  BY <1>1, Least
<1>3. x # 0 /\ x - 1 \in Nat
  OBVIOUS
<1>4. x - 1 \in T
  BY <1>2, <1>3
<1>5. x - 1 + 1 \in T
  BY <1>3, <1>4
<1> QED BY <1>5

LEMMA MinIs ==
    ASSUME NEW T \in SUBSET Nat, T # {}
    PROVE  Min(T) \in T /\ \A y \in T : Min(T) <= y
BY Least DEF Min

LEMMA MaxIs ==
    ASSUME NEW n \in Nat, NEW T \in SUBSET (0..n), T # {}
    PROVE  Max(T) \in T /\ \A y \in T : y <= Max(T)
<1> DEFINE R == {m \in 0..n : n - m \in T}
<1>1. PICK t \in T : TRUE
  OBVIOUS
<1>2. n - t \in R
  <2>1. t \in 0..n OBVIOUS
  <2>2. n - t \in 0..n /\ n - (n - t) = t BY <2>1
  <2> QED BY <2>2
<1>3. PICK x \in R : \A y \in R : x <= y
  <2>1. R \in SUBSET Nat /\ R # {} BY <1>2
  <2> HIDE DEF R
  <2> QED BY <2>1, Least
<1>4. n - x \in T /\ x \in 0..n
  OBVIOUS
<1>5. ASSUME NEW y \in T PROVE y <= n - x
  <2>1. y \in 0..n OBVIOUS
  <2>2. n - y \in 0..n /\ n - (n - y) = y BY <2>1
  <2>3. n - y \in R BY <2>2
  <2>4. x <= n - y BY <1>3, <2>3
  <2> QED BY <1>4, <2>1, <2>4
<1>6. \E m \in T : \A y \in T : m >= y
  <2> WITNESS n - x \in T
  <2>1. ASSUME NEW y \in T PROVE n - x >= y
    <3>1. y \in 0..n OBVIOUS
    <3> QED BY <3>1, <1>4, <1>5
  <2> QED BY <2>1
<1>7. Max(T) \in T /\ \A y \in T : Max(T) >= y
  BY <1>6 DEF Max
<1>8. ASSUME NEW y \in T PROVE y <= Max(T)
  <2>1. y \in 0..n /\ Max(T) \in 0..n BY <1>7
  <2> QED BY <2>1, <1>7
<1> QED BY <1>7, <1>8

-----------------------------------------------------------------------------
\* Where a run of characters ends.
LEMMA PastIs ==
    ASSUME NEW text \in Seq(Bytes), NEW i \in 1..(Len(text) + 1), NEW chars
    PROVE  /\ Past(text, i, chars) \in i..(Len(text) + 1)
           /\ \A n \in i..(Past(text, i, chars) - 1) : text[n] \in chars
           /\ Past(text, i, chars) <= Len(text) => text[Past(text, i, chars)] \notin chars
<1> DEFINE others == {n \in i..Len(text) : text[n] \notin chars}
<1>1. CASE others = {}
  <2>1. Past(text, i, chars) = Len(text) + 1
    BY <1>1 DEF Past
  <2> QED BY <1>1, <2>1
<1>2. CASE others # {}
  <2>1. others \in SUBSET Nat
    OBVIOUS
  <2>2. Past(text, i, chars) = Min(others)
    BY <1>2 DEF Past
  <2>3. Min(others) \in others /\ \A y \in others : Min(others) <= y
    BY <1>2, <2>1, MinIs
  <2>4. ASSUME NEW n \in i..(Min(others) - 1) PROVE text[n] \in chars
    <3>1. n \in i..Len(text) /\ n < Min(others)
      BY <2>3
    <3>2. n \notin others
      BY <3>1, <2>1, <2>3
    <3> QED BY <3>1, <3>2
  <2> QED BY <2>2, <2>3, <2>4
<1> QED BY <1>1, <1>2

-----------------------------------------------------------------------------
\* The numbers that the first digits stand for.
Values(d, f) ==
    /\ f \in [0..Len(d) -> Nat] /\ f[0] = 0
    /\ \A k \in 1..Len(d) : f[k] = 10 * f[k - 1] + (d[k] - Zero)

LEMMA ValueIs ==
    ASSUME NEW d \in Seq(Digits)
    PROVE  \E f : Values(d, f) /\ Value(d) = f[Len(d)]
<1> DEFINE n == Len(d)
           step(f, k) == IF k = 0 THEN 0 ELSE 10 * f[k - 1] + (d[k] - Zero)
           T == {m \in Nat : m <= n => \E f : f = [k \in 0..m |-> step(f, k)]}
           value == CHOOSE f : f = [k \in 0..n |-> step(f, k)]
<1>1. n \in Nat
  OBVIOUS
<1>2. 0 \in T
  <2> DEFINE f == [k \in 0..0 |-> 0]
  <2>1. f = [k \in 0..0 |-> step(f, k)] OBVIOUS
  <2> QED BY <2>1
<1>3. ASSUME NEW m \in Nat, m \in T PROVE m + 1 \in T
  <2>1. SUFFICES ASSUME m + 1 <= n PROVE \E g : g = [k \in 0..(m + 1) |-> step(g, k)]
    OBVIOUS
  <2>2. PICK f : f = [k \in 0..m |-> step(f, k)]
    BY <1>1, <1>3, <2>1
  <2> DEFINE g == [k \in 0..(m + 1) |-> IF k = m + 1 THEN step(f, k) ELSE f[k]]
  <2>3. ASSUME NEW k \in 0..(m + 1) PROVE g[k] = step(g, k)
    <3>1. CASE k = 0 BY <2>2, <3>1
    <3>2. CASE k # 0
      <4>1. k - 1 \in 0..m /\ k - 1 \in 0..(m + 1) /\ k - 1 # m + 1 BY <3>2
      <4>2. g[k - 1] = f[k - 1] BY <4>1
      <4>3. CASE k = m + 1 BY <3>2, <4>2, <4>3
      <4>4. CASE k # m + 1
        <5>1. k \in 0..m BY <4>4
        <5>2. f[k] = step(f, k) BY <2>2, <5>1
        <5> QED BY <3>2, <4>2, <4>4, <5>2
      <4> QED BY <4>3, <4>4
    <3> QED BY <3>1, <3>2
  <2>4. g = [k \in 0..(m + 1) |-> step(g, k)]
    BY <2>3
  <2> QED BY <2>4
<1>4. T = Nat
  <2>1. T \in SUBSET Nat OBVIOUS
  <2> HIDE DEF T
  <2> QED BY <1>2, <1>3, <2>1, Induction
<1>5. \E f : f = [k \in 0..n |-> step(f, k)]
  BY <1>1, <1>4
<1>6. value = [k \in 0..n |-> step(value, k)]
  BY <1>5
<1>7. Value(d) = value[n]
  BY DEF Value
<1> HIDE DEF value
<1>8. value[0] = 0 /\ \A k \in 1..n : value[k] = 10 * value[k - 1] + (d[k] - Zero)
  BY <1>1, <1>6
<1> DEFINE U == {k \in Nat : k <= n => value[k] \in Nat}
<1>9. U = Nat
  <2>1. U \in SUBSET Nat /\ 0 \in U BY <1>8
  <2>2. ASSUME NEW k \in Nat, k \in U PROVE k + 1 \in U
    <3>1. SUFFICES ASSUME k + 1 <= n PROVE value[k + 1] \in Nat OBVIOUS
    <3>2. value[k] \in Nat BY <1>1, <2>2, <3>1
    <3>3. k + 1 \in 1..n /\ k + 1 - 1 = k BY <1>1, <3>1
    <3>4. d[k + 1] \in Digits BY <3>3
    <3>5. value[k + 1] = 10 * value[k] + (d[k + 1] - Zero) BY <1>8, <3>3
    <3>6. \A x \in Nat, c \in Digits : 10 * x + (c - Zero) \in Nat BY DEF Digits, Zero
    <3> QED BY <3>2, <3>4, <3>5, <3>6
  <2> HIDE DEF U
  <2> QED BY <2>1, <2>2, Induction
<1>10. value \in [0..n -> Nat]
  <2>1. \A k \in 0..n : value[k] \in Nat BY <1>1, <1>9
  <2> HIDE DEF n
  <2> QED BY <1>6, <2>1
<1> QED BY <1>7, <1>8, <1>10 DEF Values

LEMMA ValueNat == ASSUME NEW d \in Seq(Digits) PROVE Value(d) \in Nat
<1>1. PICK f : Values(d, f) /\ Value(d) = f[Len(d)]
  BY ValueIs
<1> QED BY <1>1 DEF Values

\* Zeros in front do not count.
LEMMA ZerosInFront ==
    ASSUME NEW c \in Seq(Digits), NEW d \in Seq(Digits), NEW z \in Nat,
           Len(d) = z + Len(c), \A k \in 1..z : d[k] = Zero,
           \A k \in 1..Len(c) : d[z + k] = c[k]
    PROVE  Value(d) = Value(c)
<1>1. PICK f : Values(c, f) /\ Value(c) = f[Len(c)]
  BY ValueIs
<1>2. PICK g : Values(d, g) /\ Value(d) = g[Len(d)]
  BY ValueIs
<1> DEFINE T == {k \in Nat : k <= z => g[k] = 0}
           U == {k \in Nat : k <= Len(c) => g[z + k] = f[k]}
<1>3. T = Nat
  <2>1. T \in SUBSET Nat /\ 0 \in T BY <1>2 DEF Values
  <2>2. ASSUME NEW k \in Nat, k \in T PROVE k + 1 \in T
    <3>1. SUFFICES ASSUME k + 1 <= z PROVE g[k + 1] = 0 OBVIOUS
    <3>2. k + 1 \in 1..Len(d) /\ k + 1 - 1 = k /\ k + 1 \in 1..z BY <3>1
    <3>3. g[k + 1] = 10 * g[k] + (d[k + 1] - Zero) BY <1>2, <3>2 DEF Values
    <3>4. g[k] = 0 /\ d[k + 1] = Zero BY <2>2, <3>1, <3>2
    <3> QED BY <3>3, <3>4 DEF Zero
  <2> HIDE DEF T
  <2> QED BY <2>1, <2>2, Induction
<1>4. U = Nat
  <2>1. U \in SUBSET Nat /\ 0 \in U
    <3>1. g[z] = 0 BY <1>3
    <3> QED BY <1>1, <3>1 DEF Values
  <2>2. ASSUME NEW k \in Nat, k \in U PROVE k + 1 \in U
    <3>1. SUFFICES ASSUME k + 1 <= Len(c) PROVE g[z + (k + 1)] = f[k + 1] OBVIOUS
    <3>2. z + (k + 1) \in 1..Len(d) /\ z + (k + 1) - 1 = z + k /\ k + 1 \in 1..Len(c)
          /\ k + 1 - 1 = k
      BY <3>1
    <3>3. g[z + (k + 1)] = 10 * g[z + k] + (d[z + (k + 1)] - Zero)
      BY <1>2, <3>2 DEF Values
    <3>4. f[k + 1] = 10 * f[k] + (c[k + 1] - Zero)
      BY <1>1, <3>2 DEF Values
    <3>5. g[z + k] = f[k] /\ d[z + (k + 1)] = c[k + 1] BY <2>2, <3>1, <3>2
    <3> QED BY <3>3, <3>4, <3>5
  <2> HIDE DEF U
  <2> QED BY <2>1, <2>2, Induction
<1>5. g[z + Len(c)] = f[Len(c)]
  BY <1>4
<1> QED BY <1>1, <1>2, <1>5

\* Where the numbers of the first digits differ, they go on to differ.
LEMMA SmallerForEver ==
    ASSUME NEW c \in Seq(Digits), NEW d \in Seq(Digits), NEW m \in Nat, NEW n \in Nat,
           NEW f, NEW g, Values(c, f), Values(d, g),
           m <= Len(c), Len(c) - m = Len(d) - n, f[m] < g[n]
    PROVE  f[Len(c)] < g[Len(d)]
<1> DEFINE T == {k \in Nat : m + k <= Len(c) => f[m + k] < g[n + k]}
<1>1. T = Nat
  <2>1. T \in SUBSET Nat /\ 0 \in T OBVIOUS
  <2>2. ASSUME NEW k \in Nat, k \in T PROVE k + 1 \in T
    <3>1. SUFFICES ASSUME m + (k + 1) <= Len(c) PROVE f[m + (k + 1)] < g[n + (k + 1)]
      OBVIOUS
    <3>2. /\ m + (k + 1) \in 1..Len(c) /\ m + (k + 1) - 1 = m + k /\ m + k \in 0..Len(c)
          /\ n + (k + 1) \in 1..Len(d) /\ n + (k + 1) - 1 = n + k /\ n + k \in 0..Len(d)
      BY <3>1
    <3>3. f[m + (k + 1)] = 10 * f[m + k] + (c[m + (k + 1)] - Zero)
      BY <3>2 DEF Values
    <3>4. g[n + (k + 1)] = 10 * g[n + k] + (d[n + (k + 1)] - Zero)
      BY <3>2 DEF Values
    <3>5. f[m + k] < g[n + k] BY <2>2, <3>2
    <3>6. f[m + k] \in Nat /\ g[n + k] \in Nat BY <3>2 DEF Values
    <3>7. c[m + (k + 1)] \in Digits /\ d[n + (k + 1)] \in Digits BY <3>2
    <3>8. \A x, y \in Nat : \A u, v \in Digits :
              x < y => 10 * x + (u - Zero) < 10 * y + (v - Zero)
      BY DEF Digits, Zero
    <3> QED BY <3>3, <3>4, <3>5, <3>6, <3>7, <3>8
  <2> HIDE DEF T
  <2> QED BY <2>1, <2>2, Induction
<1>2. Len(c) - m \in Nat /\ m + (Len(c) - m) = Len(c) /\ n + (Len(c) - m) = Len(d)
  OBVIOUS
<1>3. Len(c) - m \in T
  BY <1>1, <1>2
<1> QED BY <1>2, <1>3

LEMMA LongerIsLarger ==
    ASSUME NEW c \in Seq(Digits), NEW d \in Seq(Digits), Len(c) < Len(d), d[1] # Zero
    PROVE  Value(c) < Value(d)
<1>1. PICK f : Values(c, f) /\ Value(c) = f[Len(c)]
  BY ValueIs
<1>2. PICK g : Values(d, g) /\ Value(d) = g[Len(d)]
  BY ValueIs
<1> DEFINE T == {k \in Nat : k + 1 <= Len(d) => g[k + 1] > 0}
<1>3. T = Nat
  <2>1. T \in SUBSET Nat /\ 0 \in T
    <3>1. 1 \in 1..Len(d) OBVIOUS
    <3>2. g[1] = 10 * g[0] + (d[1] - Zero) /\ g[0] = 0 BY <1>2, <3>1 DEF Values
    <3>3. d[1] \in Digits BY <3>1
    <3>4. g[1] > 0 BY <3>2, <3>3 DEF Digits, Zero
    <3> QED BY <3>4
  <2>2. ASSUME NEW k \in Nat, k \in T PROVE k + 1 \in T
    <3>1. SUFFICES ASSUME (k + 1) + 1 <= Len(d) PROVE g[(k + 1) + 1] > 0 OBVIOUS
    <3>2. (k + 1) + 1 \in 1..Len(d) /\ (k + 1) + 1 - 1 = k + 1 /\ k + 1 \in 0..Len(d) BY <3>1
    <3>3. g[(k + 1) + 1] = 10 * g[k + 1] + (d[(k + 1) + 1] - Zero) BY <1>2, <3>2 DEF Values
    <3>4. g[k + 1] \in Nat /\ g[k + 1] > 0 BY <1>2, <2>2, <3>1, <3>2 DEF Values
    <3>5. d[(k + 1) + 1] \in Digits BY <3>2
    <3>6. \A x \in Nat, u \in Digits : x > 0 => 10 * x + (u - Zero) > 0 BY DEF Digits, Zero
    <3> QED BY <3>3, <3>4, <3>5, <3>6
  <2> HIDE DEF T
  <2> QED BY <2>1, <2>2, Induction
<1>4. Len(d) - Len(c) - 1 \in Nat
  OBVIOUS
<1>5. g[Len(d) - Len(c)] > 0
  <2>1. Len(d) - Len(c) - 1 \in T BY <1>3, <1>4
  <2>2. Len(d) - Len(c) - 1 + 1 = Len(d) - Len(c) /\ Len(d) - Len(c) <= Len(d) BY <1>4
  <2> QED BY <2>1, <2>2
<1>6. f[0] < g[Len(d) - Len(c)] /\ Len(c) - 0 = Len(d) - (Len(d) - Len(c))
  BY <1>1, <1>5 DEF Values
<1>7. f[Len(c)] < g[Len(d)]
  <2> DEFINE m == Len(d) - Len(c)
  <2>1. m \in Nat OBVIOUS
  <2>2. f[0] < g[m] /\ Len(c) - 0 = Len(d) - m /\ 0 \in Nat /\ 0 <= Len(c) BY <1>6
  <2>3. Values(c, f) /\ Values(d, g) BY <1>1, <1>2
  <2> HIDE DEF m, T
  <2> QED BY <2>1, <2>2, <2>3, SmallerForEver, ZenonT(30)
<1> QED BY <1>1, <1>2, <1>7

LEMMA FirstDigitDecides ==
    ASSUME NEW c \in Seq(Digits), NEW d \in Seq(Digits), Len(c) = Len(d),
           NEW k \in 1..Len(c), c[k] < d[k], \A i \in 1..(k - 1) : c[i] = d[i]
    PROVE  Value(c) < Value(d)
<1>1. PICK f : Values(c, f) /\ Value(c) = f[Len(c)]
  BY ValueIs
<1>2. PICK g : Values(d, g) /\ Value(d) = g[Len(d)]
  BY ValueIs
<1> DEFINE T == {i \in Nat : i < k => f[i] = g[i]}
<1>3. T = Nat
  <2>1. T \in SUBSET Nat /\ 0 \in T BY <1>1, <1>2 DEF Values
  <2>2. ASSUME NEW i \in Nat, i \in T PROVE i + 1 \in T
    <3>1. SUFFICES ASSUME i + 1 < k PROVE f[i + 1] = g[i + 1] OBVIOUS
    <3>2. i + 1 \in 1..Len(c) /\ i + 1 \in 1..(k - 1) /\ i + 1 - 1 = i BY <3>1
    <3>3. f[i + 1] = 10 * f[i] + (c[i + 1] - Zero) BY <1>1, <3>2 DEF Values
    <3>4. g[i + 1] = 10 * g[i] + (d[i + 1] - Zero) BY <1>2, <3>2 DEF Values
    <3>5. f[i] = g[i] /\ c[i + 1] = d[i + 1] BY <2>2, <3>1, <3>2
    <3> QED BY <3>3, <3>4, <3>5
  <2> HIDE DEF T
  <2> QED BY <2>1, <2>2, Induction
<1>4. f[k - 1] = g[k - 1] /\ k - 1 \in 0..Len(c)
  BY <1>3
<1>5. f[k] = 10 * f[k - 1] + (c[k] - Zero) /\ g[k] = 10 * g[k - 1] + (d[k] - Zero)
  BY <1>1, <1>2 DEF Values
<1>6. f[k - 1] \in Nat
  BY <1>1, <1>4 DEF Values
<1>7. \A x \in Nat : \A u, v \in Digits : u < v => 10 * x + (u - Zero) < 10 * x + (v - Zero)
  BY DEF Digits, Zero
<1>8. f[k] < g[k]
  <2>1. c[k] \in Digits /\ d[k] \in Digits OBVIOUS
  <2> QED BY <1>4, <1>5, <1>6, <1>7, <2>1
<1>9. f[Len(c)] < g[Len(d)]
  <2>1. k \in Nat /\ k <= Len(c) /\ Len(c) - k = Len(d) - k OBVIOUS
  <2>2. Values(c, f) /\ Values(d, g) BY <1>1, <1>2
  <2> HIDE DEF T
  <2> QED BY <2>1, <2>2, <1>8, SmallerForEver, ZenonT(30)
<1> QED BY <1>1, <1>2, <1>9

\* Two functions are the same up to n, or a first difference decides between them.
SameTo(f, g, n) == CompareFirst(f, g, n) = 0 /\ \A k \in 1..n : f[k] = g[k]
DifferAt(f, g, n, k) ==
    /\ f[k] # g[k] /\ \A i \in 1..(k - 1) : f[i] = g[i]
    /\ CompareFirst(f, g, n) = compareInt(f[k], g[k])

LEMMA CompareFirstIs ==
    ASSUME NEW n \in Nat, NEW f, NEW g
    PROVE  SameTo(f, g, n) \/ \E k \in 1..n : DifferAt(f, g, n, k)
<1> USE DEF SameTo, DifferAt
<1> DEFINE differ == {k \in 1..n : f[k] # g[k]}
<1>1. CASE differ = {}
  <2>1. CompareFirst(f, g, n) = 0 BY <1>1 DEF CompareFirst
  <2> QED BY <1>1, <2>1
<1>2. CASE differ # {}
  <2>1. differ \in SUBSET Nat OBVIOUS
  <2>2. CompareFirst(f, g, n) = compareInt(f[Min(differ)], g[Min(differ)])
    BY <1>2 DEF CompareFirst
  <2>3. Min(differ) \in differ /\ \A k \in differ : Min(differ) <= k
    <3> HIDE DEF differ
    <3> QED BY <1>2, <2>1, MinIs
  <2>4. ASSUME NEW i \in 1..(Min(differ) - 1) PROVE f[i] = g[i]
    <3>1. i \in 1..n /\ i < Min(differ) BY <2>3
    <3>2. i \notin differ BY <3>1, <2>3
    <3> QED BY <3>1, <3>2
  <2> QED BY <2>2, <2>3, <2>4
<1> QED BY <1>1, <1>2

\* Without zeros in front, digits are compared as the numbers that they stand for.
LEMMA DigitsOrder ==
    ASSUME NEW c \in Seq(Digits), NEW d \in Seq(Digits),
           c # <<>> => c[1] # Zero, d # <<>> => d[1] # Zero
    PROVE  CompareDigits(c, d) = compareInt(Value(c), Value(d))
<1>1. Value(c) \in Int /\ Value(d) \in Int
  BY ValueNat
<1>2. CASE Len(c) < Len(d)
  <2>1. d # <<>> BY <1>2
  <2>2. Value(c) < Value(d) BY <2>1, <1>2, LongerIsLarger
  <2>3. CompareDigits(c, d) = -1 BY <1>2 DEF CompareDigits, compareInt
  <2> QED BY <1>1, <2>2, <2>3 DEF compareInt
<1>3. CASE Len(d) < Len(c)
  <2>1. c # <<>> BY <1>3
  <2>2. Value(d) < Value(c) BY <2>1, <1>3, LongerIsLarger
  <2>3. CompareDigits(c, d) = 1 BY <1>3 DEF CompareDigits, compareInt
  <2> QED BY <1>1, <2>2, <2>3 DEF compareInt
<1>4. CASE Len(c) = Len(d)
  <2> DEFINE n == Len(c)
  <2>1. CompareDigits(c, d) = CompareFirst(c, d, n) BY <1>4 DEF CompareDigits
  <2>2. \A k \in 1..n : c[k] \in Int /\ d[k] \in Int /\ c[k] \in Digits /\ d[k] \in Digits
    <3>1. \A k \in 1..n : c[k] \in Digits /\ d[k] \in Digits BY <1>4
    <3>2. Digits \subseteq Int BY DEF Digits
    <3> QED BY <3>1, <3>2
  <2>3. n \in Nat OBVIOUS
  <2>4. CASE CompareFirst(c, d, n) = 0 /\ \A k \in 1..n : c[k] = d[k]
    <3>1. c = d BY <1>4, <2>4, SeqEqual
    <3> QED BY <3>1, <1>1, <2>1, <2>4 DEF compareInt
  <2>5. ASSUME NEW k \in 1..n, c[k] # d[k] /\ \A i \in 1..(k - 1) : c[i] = d[i],
               CompareFirst(c, d, n) = compareInt(c[k], d[k])
        PROVE  CompareDigits(c, d) = compareInt(Value(c), Value(d))
    <3>1. CASE c[k] < d[k]
      <4>1. Value(c) < Value(d) BY <1>4, <2>5, <3>1, FirstDigitDecides
      <4> QED BY <1>1, <2>1, <2>2, <2>5, <3>1, <4>1 DEF compareInt
    <3>2. CASE d[k] < c[k]
      <4>1. Value(d) < Value(c) BY <1>4, <2>5, <3>2, FirstDigitDecides
      <4> QED BY <1>1, <2>1, <2>2, <2>5, <3>2, <4>1 DEF compareInt
    <3> QED BY <2>2, <2>5, <3>1, <3>2
  <2> HIDE DEF n
  <2>6. SameTo(c, d, n) \/ \E k \in 1..n : DifferAt(c, d, n, k)
    BY <2>3, CompareFirstIs
  <2> QED BY <2>4, <2>5, <2>6 DEF SameTo, DifferAt
<1> QED BY <1>2, <1>3, <1>4

-----------------------------------------------------------------------------
LEMMA SegmentIs ==
    ASSUME NEW S, NEW text \in Seq(S), NEW T, NEW m \in 1..(Len(text) + 1),
           NEW n \in m..(Len(text) + 1), \A k \in m..(n - 1) : text[k] \in T
    PROVE  /\ SubSeq(text, m, n - 1) \in Seq(T)
           /\ Len(SubSeq(text, m, n - 1)) = n - m
           /\ \A k \in 1..(n - m) : SubSeq(text, m, n - 1)[k] = text[m + k - 1]
<1>1. m \in Int /\ n - 1 \in Int /\ n - 1 - m + 1 = n - m
  OBVIOUS
<1> QED BY <1>1, SubSeqProperties

\* A run of non-digits and digits from a position on.
LEMMA RunIs ==
    ASSUME NEW text \in Seq(Bytes), NEW i \in 1..(Len(text) + 1)
    PROVE  LET n == NumberFrom(text, i)
               a == AfterZeros(text, i)
               e == RunEnd(text, i)
           IN  /\ n \in i..(Len(text) + 1) /\ e \in n..(Len(text) + 1) /\ a \in n..e
               /\ i <= Len(text) => e > i
               /\ \A k \in i..(n - 1) : text[k] \in Bytes \ Digits
               /\ \A k \in n..(e - 1) : text[k] \in Digits
               /\ \A k \in n..(a - 1) : text[k] = Zero
               /\ a < e => text[a] # Zero
               /\ n <= Len(text) => e > n
<1> DEFINE n == NumberFrom(text, i)
           a == AfterZeros(text, i)
           e == RunEnd(text, i)
<1>1. /\ n \in i..(Len(text) + 1) /\ \A k \in i..(n - 1) : text[k] \in Bytes \ Digits
      /\ n <= Len(text) => text[n] \notin Bytes \ Digits
  BY PastIs DEF NumberFrom
<1>2. n \in 1..(Len(text) + 1)
  BY <1>1
<1>3. /\ e \in n..(Len(text) + 1) /\ \A k \in n..(e - 1) : text[k] \in Digits
      /\ e <= Len(text) => text[e] \notin Digits
  <2> HIDE DEF n
  <2> QED BY <1>2, PastIs DEF RunEnd, n
<1>4. /\ a \in n..(Len(text) + 1) /\ \A k \in n..(a - 1) : text[k] \in {Zero}
      /\ a <= Len(text) => text[a] \notin {Zero}
  <2> HIDE DEF n
  <2> QED BY <1>2, PastIs DEF AfterZeros, n
<1> HIDE DEF n, a, e
<1>5. a <= e
  <2>1. SUFFICES ASSUME e < a PROVE FALSE BY <1>3, <1>4
  <2>2. e \in n..(a - 1) /\ e <= Len(text) BY <1>3, <1>4, <2>1
  <2>3. text[e] = Zero BY <1>4, <2>2
  <2> QED BY <1>3, <2>2, <2>3 DEF Digits, Zero
<1>6. n <= Len(text) => e > n
  <2>1. SUFFICES ASSUME n <= Len(text), ~(e > n) PROVE FALSE OBVIOUS
  <2>2. e = n BY <1>2, <1>3, <2>1
  <2>3. text[n] \in Bytes BY <1>2, <2>1
  <2> QED BY <1>1, <1>3, <2>1, <2>2, <2>3
<1>7. i <= Len(text) => e > i
  BY <1>1, <1>3, <1>6
<1>8. a \in n..e
  BY <1>2, <1>3, <1>4, <1>5
<1> QED BY <1>1, <1>3, <1>4, <1>6, <1>7, <1>8 DEF n, a, e

-----------------------------------------------------------------------------
\* The keys of what follows each position of a text.
Keys(text, f) ==
    /\ f \in [1..(Len(text) + 1) -> Seq(Int)]
    /\ f[Len(text) + 1] = <<>>
    /\ \A i \in 1..Len(text) :
          f[i] = IF text[i] \in Digits
                 THEN <<0, Value(SubSeq(text, i, Past(text, i, Digits) - 1))>>
                          \o f[Past(text, i, Digits)]
                 ELSE <<Rank(text[i])>> \o f[i + 1]

LEMMA RankIs ==
    ASSUME NEW c \in Bytes \ Digits
    PROVE  /\ Rank(c) \in Int /\ Rank(c) # 0 /\ orderChar(c) \in Int /\ orderChar(c) # 0
           /\ Rank(c) < 0 <=> orderChar(c) < 0
           /\ \A d \in Bytes \ Digits : Rank(c) < Rank(d) <=> orderChar(c) < orderChar(d)
BY DEF Rank, orderChar, Letters, Tilde, Bytes, Digits

LEMMA PastDigits ==
    ASSUME NEW text \in Seq(Bytes), NEW i \in 1..Len(text), text[i] \in Digits
    PROVE  Past(text, i, Digits) \in (i + 1)..(Len(text) + 1)
<1>1. i \in 1..(Len(text) + 1)
  OBVIOUS
<1>2. /\ Past(text, i, Digits) \in i..(Len(text) + 1)
      /\ Past(text, i, Digits) <= Len(text) => text[Past(text, i, Digits)] \notin Digits
  BY <1>1, PastIs
<1>3. Past(text, i, Digits) # i
  BY <1>2
<1> QED BY <1>2, <1>3

LEMMA KeyIs ==
    ASSUME NEW text \in Seq(Bytes)
    PROVE  \E f : Keys(text, f) /\ Key(text) = f[1]
<1> DEFINE n == Len(text)
           end(i) == Past(text, i, Digits)
           number(i) == Value(SubSeq(text, i, end(i) - 1))
           step(f, i) == IF i > n THEN <<>>
                         ELSE IF text[i] \in Digits THEN <<0, number(i)>> \o f[end(i)]
                         ELSE <<Rank(text[i])>> \o f[i + 1]
           T == {m \in Nat : m <= n => \E f : f = [i \in (n + 1 - m)..(n + 1) |-> step(f, i)]}
           key == CHOOSE f : f = [i \in 1..(n + 1) |-> step(f, i)]
<1>1. n \in Nat
  OBVIOUS
<1>2. \A i \in 1..n : text[i] \in Digits => end(i) \in (i + 1)..(n + 1)
  BY PastDigits
<1>a. \A i \in 1..n : text[i] \in Digits => number(i) \in Int
  <2>1. SUFFICES ASSUME NEW i \in 1..n, text[i] \in Digits PROVE number(i) \in Int
    OBVIOUS
  <2>2. i \in 1..(Len(text) + 1) BY <1>1
  <2>3. end(i) \in i..(Len(text) + 1) /\ \A k \in i..(end(i) - 1) : text[k] \in Digits
    BY <2>2, PastIs
  <2> HIDE DEF end
  <2>4. SubSeq(text, i, end(i) - 1) \in Seq(Digits)
    BY <2>2, <2>3, SegmentIs
  <2>5. Value(SubSeq(text, i, end(i) - 1)) \in Nat BY <2>4, ValueNat
  <2>6. number(i) \in Nat BY <2>5
  <2> HIDE DEF number
  <2> QED BY <2>6
<1> HIDE DEF n, number, end
<1>3. T = Nat
  <2>1. 0 \in T
    <3> DEFINE f == [i \in (n + 1)..(n + 1) |-> <<>>]
    <3>1. f = [i \in (n + 1 - 0)..(n + 1) |-> step(f, i)] BY <1>1
    <3> QED BY <3>1
  <2>2. ASSUME NEW m \in Nat, m \in T PROVE m + 1 \in T
    <3>1. SUFFICES ASSUME m + 1 <= n
                   PROVE \E g : g = [i \in (n + 1 - (m + 1))..(n + 1) |-> step(g, i)]
      OBVIOUS
    <3>2. PICK f : f = [i \in (n + 1 - m)..(n + 1) |-> step(f, i)]
      BY <1>1, <2>2, <3>1
    <3> DEFINE low == n + 1 - (m + 1)
               g == [i \in low..(n + 1) |-> IF i = low THEN step(f, i) ELSE f[i]]
    <3>3. low \in 1..n /\ n + 1 - m = low + 1
      BY <1>1, <3>1
    <3> HIDE DEF low
    <3>4. ASSUME NEW i \in low..(n + 1) PROVE g[i] = step(g, i)
      <4>1. i \in Nat /\ n \in Nat /\ low \in Nat BY <1>1, <3>3
      <4>2. ASSUME NEW j \in (low + 1)..(n + 1) PROVE g[j] = f[j]
        <5>1. j \in low..(n + 1) /\ j # low BY <4>1
        <5> QED BY <5>1
      <4>3. step(g, i) = step(f, i)
        <5>1. CASE i > n BY <5>1
        <5>2. CASE i <= n /\ text[i] \in Digits
          <6>1. i \in 1..n BY <4>1, <5>2, <3>3
          <6>2. end(i) \in (low + 1)..(n + 1) BY <1>2, <3>3, <4>1, <5>2, <6>1
          <6>3. g[end(i)] = f[end(i)] BY <4>2, <6>2
          <6> HIDE DEF g
          <6> QED BY <4>1, <5>2, <6>3
        <5>3. CASE i <= n /\ text[i] \notin Digits
          <6>1. i + 1 \in (low + 1)..(n + 1) BY <4>1, <5>3
          <6>2. g[i + 1] = f[i + 1] BY <4>2, <6>1
          <6> HIDE DEF g
          <6> QED BY <4>1, <5>3, <6>2
        <5> QED BY <4>1, <5>1, <5>2, <5>3
      <4>4. CASE i = low
        <5>1. g[i] = step(f, i) BY <4>4
        <5> QED BY <4>3, <5>1
      <4>5. CASE i # low
        <5>1. i \in (low + 1)..(n + 1) BY <4>1, <4>5
        <5>2. f[i] = step(f, i) BY <3>2, <3>3, <5>1
        <5> QED BY <4>2, <4>3, <5>1, <5>2
      <4> QED BY <4>4, <4>5
    <3>5. g = [i \in low..(n + 1) |-> step(g, i)]
      BY <3>4
    <3> QED BY <3>5 DEF low
  <2>3. T \in SUBSET Nat OBVIOUS
  <2> HIDE DEF T
  <2> QED BY <2>1, <2>2, <2>3, Induction
<1>4. \E f : f = [i \in 1..(n + 1) |-> step(f, i)]
  <2>1. n \in T /\ n <= n
    <3> HIDE DEF T
    <3> QED BY <1>1, <1>3
  <2>2. n + 1 - n = 1 BY <1>1
  <2>3. \E f : f = [i \in (n + 1 - n)..(n + 1) |-> step(f, i)] BY <2>1
  <2> QED BY <2>2, <2>3
<1>5. key = [i \in 1..(n + 1) |-> step(key, i)]
  BY <1>4
<1>6. Key(text) = key[1]
  BY DEF Key, n, number, end
<1> HIDE DEF key
<1>7. key[n + 1] = <<>>
  BY <1>1, <1>5
<1>8. ASSUME NEW i \in 1..n
      PROVE  key[i] = IF text[i] \in Digits THEN <<0, number(i)>> \o key[end(i)]
                      ELSE <<Rank(text[i])>> \o key[i + 1]
  <2>1. i \in 1..(n + 1) /\ ~(i > n) BY <1>1
  <2>2. key[i] = step(key, i) BY <1>5, <2>1
  <2> QED BY <2>1, <2>2
<1> DEFINE U == {m \in Nat : m <= n => \A i \in (n + 1 - m)..(n + 1) : key[i] \in Seq(Int)}
<1>9. U = Nat
  <2>1. 0 \in U
    <3>1. key[n + 1] \in Seq(Int) BY <1>7
    <3>2. \A i \in (n + 1 - 0)..(n + 1) : i = n + 1 BY <1>1
    <3> QED BY <3>1, <3>2
  <2>2. ASSUME NEW m \in Nat, m \in U PROVE m + 1 \in U
    <3>1. SUFFICES ASSUME m + 1 <= n, NEW i \in (n + 1 - (m + 1))..(n + 1)
                   PROVE  key[i] \in Seq(Int)
      OBVIOUS
    <3>2. \A j \in (n + 1 - m)..(n + 1) : key[j] \in Seq(Int) BY <1>1, <2>2, <3>1
    <3>3. CASE i = n + 1 - (m + 1)
      <4>1. i \in 1..n BY <1>1, <3>1, <3>3
      <4>2. CASE text[i] \in Digits
        <5>1. end(i) \in (i + 1)..(n + 1) BY <1>2, <4>1, <4>2
        <5>2. end(i) \in (n + 1 - m)..(n + 1) BY <1>1, <3>3, <5>1
        <5>3. key[end(i)] \in Seq(Int) BY <3>2, <5>2
        <5>4. number(i) \in Int BY <1>a, <4>1, <4>2
        <5>5. <<0, number(i)>> \in Seq(Int) BY <5>4
        <5>6. key[i] = <<0, number(i)>> \o key[end(i)] BY <1>8, <4>1, <4>2
        <5> QED BY <5>3, <5>5, <5>6, ConcatProperties
      <4>3. CASE text[i] \notin Digits
        <5>1. i + 1 \in (n + 1 - m)..(n + 1) BY <1>1, <3>3, <4>1
        <5>2. key[i + 1] \in Seq(Int) BY <3>2, <5>1
        <5>3. text[i] \in Bytes BY <4>1 DEF n
        <5>4. Rank(text[i]) \in Int BY <4>3, <5>3, RankIs
        <5>5. <<Rank(text[i])>> \in Seq(Int) BY <5>4
        <5>6. key[i] = <<Rank(text[i])>> \o key[i + 1] BY <1>8, <4>1, <4>3
        <5> QED BY <5>2, <5>5, <5>6, ConcatProperties
      <4> QED BY <4>2, <4>3
    <3>4. CASE i # n + 1 - (m + 1)
      <4>1. i \in (n + 1 - m)..(n + 1) BY <1>1, <3>1, <3>4
      <4> QED BY <3>2, <4>1
    <3> QED BY <3>3, <3>4
  <2>3. U \in SUBSET Nat OBVIOUS
  <2> HIDE DEF U
  <2> QED BY <2>1, <2>2, <2>3, Induction
<1>10. key \in [1..(n + 1) -> Seq(Int)]
  <2>1. n \in U /\ n <= n
    <3> HIDE DEF U
    <3> QED BY <1>1, <1>9
  <2>2. n + 1 - n = 1 BY <1>1
  <2>3. \A i \in (n + 1 - n)..(n + 1) : key[i] \in Seq(Int) BY <2>1
  <2>4. \A i \in 1..(n + 1) : key[i] \in Seq(Int) BY <2>2, <2>3
  <2> HIDE DEF step
  <2> QED BY <1>5, <2>4
<1> QED BY <1>6, <1>7, <1>8, <1>10 DEF Keys, n, number, end

LEMMA AtIs ==
    ASSUME NEW x \in Seq(Int), NEW c \in Int
    PROVE  /\ \A k \in Nat \ {0} : At(x, k) \in Int /\ (k > Len(x) => At(x, k) = 0)
           /\ At(<<c>> \o x, 1) = c
           /\ \A k \in Nat \ {0} : At(<<c>> \o x, k + 1) = At(x, k)
<1>1. <<c>> \in Seq(Int) /\ Len(<<c>>) = 1 /\ <<c>>[1] = c
  OBVIOUS
<1> DEFINE y == <<c>> \o x
<1>2. /\ y \in Seq(Int) /\ Len(y) = 1 + Len(x)
      /\ \A k \in 1..(1 + Len(x)) : y[k] = IF k <= 1 THEN c ELSE x[k - 1]
  BY <1>1, ConcatProperties
<1> HIDE DEF y
<1>3. ASSUME NEW k \in Nat \ {0} PROVE At(x, k) \in Int /\ (k > Len(x) => At(x, k) = 0)
  BY DEF At
<1>4. At(y, 1) = c
  <2>1. 1 \in 1..(1 + Len(x)) OBVIOUS
  <2> QED BY <1>2, <2>1 DEF At
<1>5. ASSUME NEW k \in Nat \ {0} PROVE At(y, k + 1) = At(x, k)
  <2>1. CASE k <= Len(x)
    <3>1. k + 1 \in 1..(1 + Len(x)) /\ k + 1 - 1 = k /\ ~(k + 1 <= 1) BY <2>1
    <3> QED BY <1>2, <2>1, <3>1 DEF At
  <2>2. CASE ~(k <= Len(x))
    BY <1>2, <2>2 DEF At
  <2> QED BY <2>1, <2>2
<1> QED BY <1>3, <1>4, <1>5 DEF y

LEMMA AtPair ==
    ASSUME NEW x \in Seq(Int), NEW c \in Int
    PROVE  /\ At(<<0, c>> \o x, 1) = 0 /\ At(<<0, c>> \o x, 2) = c
           /\ \A k \in Nat \ {0} : At(<<0, c>> \o x, 2 + k) = At(x, k)
<1>1. <<0, c>> \in Seq(Int) /\ Len(<<0, c>>) = 2 /\ <<0, c>>[1] = 0 /\ <<0, c>>[2] = c
  OBVIOUS
<1> DEFINE y == <<0, c>> \o x
<1>2. /\ y \in Seq(Int) /\ Len(y) = 2 + Len(x)
      /\ \A k \in 1..(2 + Len(x)) : y[k] = IF k <= 2 THEN <<0, c>>[k] ELSE x[k - 2]
  BY <1>1, ConcatProperties
<1> HIDE DEF y
<1>3. At(y, 1) = 0 /\ At(y, 2) = c
  <2>1. 1 \in 1..(2 + Len(x)) /\ 2 \in 1..(2 + Len(x)) OBVIOUS
  <2> QED BY <1>1, <1>2, <2>1 DEF At
<1>4. ASSUME NEW k \in Nat \ {0} PROVE At(y, 2 + k) = At(x, k)
  <2>1. CASE k <= Len(x)
    <3>1. 2 + k \in 1..(2 + Len(x)) /\ 2 + k - 2 = k /\ ~(2 + k <= 2) BY <2>1
    <3> DEFINE m == 2 + k
    <3>2. m \in 1..(2 + Len(x)) /\ m - 2 = k /\ ~(m <= 2) BY <3>1
    <3> HIDE DEF m
    <3>3. y[m] = x[k] BY <1>2, <3>2
    <3>4. 2 + k <= Len(y) BY <1>2, <3>1
    <3> QED BY <2>1, <3>3, <3>4 DEF At, m
  <2>2. CASE ~(k <= Len(x))
    BY <1>2, <2>2 DEF At
  <2> QED BY <2>1, <2>2
<1> QED BY <1>3, <1>4 DEF y

\* The key from a position on is the ranks of the non-digits there, a 0, the number after
\* them and the key of the rest.
LEMMA KeyFromRun ==
    ASSUME NEW text \in Seq(Bytes), NEW f, Keys(text, f), NEW i \in 1..(Len(text) + 1)
    PROVE  LET n == NumberFrom(text, i)
               e == RunEnd(text, i)
           IN  /\ \A k \in 1..(n - i) : At(f[i], k) = Rank(text[i + k - 1])
               /\ At(f[i], n - i + 1) = 0
               /\ At(f[i], n - i + 2) = Value(SubSeq(text, n, e - 1))
               /\ \A k \in Nat \ {0} : At(f[i], n - i + 2 + k) = At(f[e], k)
<1> DEFINE n == NumberFrom(text, i)
           e == RunEnd(text, i)
           number == Value(SubSeq(text, n, e - 1))
           Claim(j) == /\ \A k \in 1..(n - j) : At(f[j], k) = Rank(text[j + k - 1])
                       /\ At(f[j], n - j + 1) = 0
                       /\ At(f[j], n - j + 2) = number
                       /\ \A k \in Nat \ {0} : At(f[j], n - j + 2 + k) = At(f[e], k)
           T == {m \in Nat : m <= n - i => Claim(n - m)}
<1>1. /\ n \in i..(Len(text) + 1) /\ e \in n..(Len(text) + 1)
      /\ \A k \in i..(n - 1) : text[k] \in Bytes \ Digits
      /\ \A k \in n..(e - 1) : text[k] \in Digits
      /\ n <= Len(text) => e > n
  BY RunIs
<1>2. e = Past(text, n, Digits)
  BY DEF RunEnd
<1>3. number \in Int
  <2>1. n \in 1..(Len(text) + 1) BY <1>1
  <2> HIDE DEF n, e
  <2>2. SubSeq(text, n, e - 1) \in Seq(Digits) BY <1>1, <2>1, SegmentIs
  <2>3. Value(SubSeq(text, n, e - 1)) \in Nat BY <2>2, ValueNat
  <2>4. number \in Nat BY <2>3
  <2> HIDE DEF number
  <2> QED BY <2>4
<1> HIDE DEF n, e
<1>4. Claim(n)
  <2>1. CASE n = Len(text) + 1
    <3>1. e = n BY <1>1, <2>1
    <3>2. f[n] = <<>> /\ f[n] \in Seq(Int) BY <2>1 DEF Keys
    <3>3. \A k \in Nat \ {0} : At(f[n], k) = 0 BY <3>2 DEF At
    <3>4. number = 0
      <4>1. n \in Int /\ e - 1 \in Int /\ e - 1 < n BY <1>1, <3>1
      <4>2. SubSeq(text, n, e - 1) = <<>> BY <4>1, SubSeqEmpty
      <4>3. Value(<<>>) = 0
        <5>1. <<>> \in Seq(Digits) /\ Len(<<>>) = 0 OBVIOUS
        <5>2. PICK v : Values(<<>>, v) /\ Value(<<>>) = v[Len(<<>>)] BY <5>1, ValueIs
        <5>3. v[0] = 0 BY <5>2 DEF Values
        <5> QED BY <5>1, <5>2, <5>3
      <4> QED BY <4>2, <4>3
    <3> HIDE DEF number
    <3>5. n - n + 1 = 1 /\ n - n + 2 = 2 BY <1>1
    <3>6. \A k \in Nat \ {0} : n - n + 2 + k \in Nat \ {0} BY <1>1
    <3>7. \A k \in 1..(n - n) : FALSE BY <1>1
    <3> QED BY <3>1, <3>3, <3>4, <3>5, <3>6, <3>7
  <2>2. CASE n <= Len(text)
    <3>1. n \in 1..Len(text) BY <1>1, <2>2
    <3>2. text[n] \in Digits
      <4>1. n \in n..(e - 1) BY <1>1, <2>2
      <4> QED BY <1>1, <4>1
    <3>3. f[n] = <<0, number>> \o f[e] BY <1>2, <3>1, <3>2 DEF Keys
    <3>4. e \in 1..(Len(text) + 1) BY <1>1
    <3>5. f[e] \in Seq(Int) BY <3>4 DEF Keys
    <3> HIDE DEF number
    <3>6. /\ At(f[n], 1) = 0 /\ At(f[n], 2) = number
          /\ \A k \in Nat \ {0} : At(f[n], 2 + k) = At(f[e], k)
      <4>1. 0 \in Int OBVIOUS
      <4>2. /\ At(<<0, number>> \o f[e], 1) = 0 /\ At(<<0, number>> \o f[e], 2) = number
            /\ \A k \in Nat \ {0} : At(<<0, number>> \o f[e], 2 + k) = At(f[e], k)
        BY <1>3, <3>5, <4>1, AtPair
      <4> QED BY <3>3, <4>2
    <3>7. n - n + 1 = 1 /\ n - n + 2 = 2 BY <1>1
    <3>8. \A k \in 1..(n - n) : FALSE BY <1>1
    <3> QED BY <3>6, <3>7, <3>8
  <2> QED BY <1>1, <2>1, <2>2
<1> HIDE DEF number
<1>5. T = Nat
  <2>1. 0 \in T
    <3>1. n - 0 = n BY <1>1
    <3>2. Claim(n - 0)
      <4> HIDE DEF Claim
      <4> QED BY <1>4, <3>1
    <3> HIDE DEF Claim
    <3> QED BY <3>2
  <2>2. ASSUME NEW m \in Nat, m \in T PROVE m + 1 \in T
    <3>1. SUFFICES ASSUME m + 1 <= n - i PROVE Claim(n - (m + 1))
      <4> HIDE DEF Claim
      <4> QED OBVIOUS
    <3> DEFINE j == n - (m + 1)
    <3>2. Claim(n - m)
      <4>1. m <= n - i BY <1>1, <3>1
      <4> HIDE DEF Claim
      <4> QED BY <2>2, <4>1
    <3>3. j \in i..(n - 1) /\ n - m = j + 1 /\ n \in Nat /\ j \in Nat \ {0} BY <1>1, <3>1
    <3> HIDE DEF j
    <3>4. Claim(j + 1)
      <4> HIDE DEF Claim
      <4> QED BY <3>2, <3>3
    <3>5. j \in 1..Len(text) /\ j + 1 \in 1..(Len(text) + 1) BY <1>1, <3>3
    <3>6. text[j] \in Bytes \ Digits BY <1>1, <3>3
    <3>7. f[j] = <<Rank(text[j])>> \o f[j + 1] /\ f[j + 1] \in Seq(Int)
      BY <3>5, <3>6 DEF Keys
    <3>8. Rank(text[j]) \in Int BY <3>6, RankIs
    <3>9. /\ At(f[j], 1) = Rank(text[j])
          /\ \A k \in Nat \ {0} : At(f[j], k + 1) = At(f[j + 1], k)
      <4>1. /\ At(<<Rank(text[j])>> \o f[j + 1], 1) = Rank(text[j])
            /\ \A k \in Nat \ {0} : At(<<Rank(text[j])>> \o f[j + 1], k + 1) = At(f[j + 1], k)
        BY <3>7, <3>8, AtIs
      <4> QED BY <3>7, <4>1
    <3>10. ASSUME NEW k \in 1..(n - j) PROVE At(f[j], k) = Rank(text[j + k - 1])
      <4>1. CASE k = 1
        <5>1. j + k - 1 = j BY <3>3, <4>1
        <5> QED BY <3>9, <4>1, <5>1
      <4>2. CASE k # 1
        <5>1. /\ k - 1 \in Nat \ {0} /\ k - 1 + 1 = k /\ k - 1 \in 1..(n - (j + 1))
              /\ j + 1 + (k - 1) - 1 = j + k - 1
          BY <3>3, <4>2
        <5>2. At(f[j], k) = At(f[j + 1], k - 1) BY <3>9, <5>1
        <5>3. At(f[j + 1], k - 1) = Rank(text[j + 1 + (k - 1) - 1]) BY <3>4, <5>1
        <5> QED BY <5>1, <5>2, <5>3
      <4> QED BY <4>1, <4>2
    <3>11. /\ n - (j + 1) + 1 \in Nat \ {0} /\ n - (j + 1) + 1 + 1 = n - j + 1
           /\ n - (j + 1) + 2 \in Nat \ {0} /\ n - (j + 1) + 2 + 1 = n - j + 2
      BY <3>3
    <3>12. At(f[j], n - j + 1) = 0 /\ At(f[j], n - j + 2) = number
      <4>1. At(f[j + 1], n - (j + 1) + 1) = 0 /\ At(f[j + 1], n - (j + 1) + 2) = number
        BY <3>4
      <4> QED BY <3>9, <3>11, <4>1
    <3>13. ASSUME NEW k \in Nat \ {0} PROVE At(f[j], n - j + 2 + k) = At(f[e], k)
      <4>1. n - (j + 1) + 2 + k \in Nat \ {0} /\ n - (j + 1) + 2 + k + 1 = n - j + 2 + k
        BY <3>3
      <4>2. At(f[j + 1], n - (j + 1) + 2 + k) = At(f[e], k) BY <3>4
      <4> QED BY <3>9, <4>1, <4>2
    <3>14. Claim(j) BY <3>10, <3>12, <3>13
    <3> HIDE DEF Claim
    <3> QED BY <3>14 DEF j
  <2>3. T \in SUBSET Nat OBVIOUS
  <2> HIDE DEF T
  <2> QED BY <2>1, <2>2, <2>3, Induction
<1>6. Claim(i)
  <2>1. n - i \in Nat /\ n - (n - i) = i /\ n - i <= n - i BY <1>1
  <2>2. n - i \in T
    <3> HIDE DEF T
    <3> QED BY <1>5, <2>1
  <2>3. Claim(n - (n - i))
    <3> HIDE DEF Claim
    <3> QED BY <2>1, <2>2
  <2> HIDE DEF Claim
  <2> QED BY <2>1, <2>3
<1> QED BY <1>6 DEF n, e, number

-----------------------------------------------------------------------------
\* The order of keys, without a bound on where they differ.
Before(x, y) ==
    \E k \in Nat \ {0} : At(x, k) < At(y, k) /\ \A i \in 1..(k - 1) : At(x, i) = At(y, i)

Comparison(x, y) == IF Before(x, y) THEN -1 ELSE IF Before(y, x) THEN 1 ELSE 0

LEMMA KeyLessIs ==
    ASSUME NEW x \in Seq(Int), NEW y \in Seq(Int)
    PROVE  KeyLess(x, y) <=> Before(x, y)
<1>1. ASSUME KeyLess(x, y) PROVE Before(x, y)
  <2>1. Len(x) + Len(y) \in Nat OBVIOUS
  <2> QED BY <1>1, <2>1 DEF KeyLess, Before
<1>2. ASSUME Before(x, y) PROVE KeyLess(x, y)
  <2>1. PICK k \in Nat \ {0} : /\ At(x, k) < At(y, k)
                              /\ \A i \in 1..(k - 1) : At(x, i) = At(y, i)
    BY <1>2 DEF Before
  <2>2. k <= Len(x) \/ k <= Len(y)
    <3>1. SUFFICES ASSUME k > Len(x), k > Len(y) PROVE FALSE OBVIOUS
    <3>2. At(x, k) = 0 /\ At(y, k) = 0 BY <3>1 DEF At
    <3> QED BY <2>1, <3>2
  <2>3. k \in 1..(Len(x) + Len(y)) BY <2>2
  <2> QED BY <2>1, <2>3 DEF KeyLess
<1> QED BY <1>1, <1>2

LEMMA AtInt == ASSUME NEW x \in Seq(Int), NEW k \in Nat \ {0} PROVE At(x, k) \in Int
BY DEF At

LEMMA BeforeAsymmetric ==
    ASSUME NEW x \in Seq(Int), NEW y \in Seq(Int), Before(x, y)
    PROVE  ~Before(y, x)
<1>1. SUFFICES ASSUME Before(y, x) PROVE FALSE
  OBVIOUS
<1>2. PICK k \in Nat \ {0} : At(x, k) < At(y, k) /\ \A i \in 1..(k - 1) : At(x, i) = At(y, i)
  BY DEF Before
<1>3. PICK l \in Nat \ {0} : At(y, l) < At(x, l) /\ \A i \in 1..(l - 1) : At(y, i) = At(x, i)
  BY <1>1 DEF Before
<1>4. /\ At(x, k) \in Int /\ At(y, k) \in Int
      /\ At(x, l) \in Int /\ At(y, l) \in Int
  BY AtInt
<1>5. CASE k < l
  <2>1. k \in 1..(l - 1) BY <1>5
  <2> QED BY <1>2, <1>3, <1>4, <2>1
<1>6. CASE l < k
  <2>1. l \in 1..(k - 1) BY <1>6
  <2> QED BY <1>2, <1>3, <1>4, <2>1
<1>7. CASE k = l
  BY <1>2, <1>3, <1>4, <1>7
<1> QED BY <1>5, <1>6, <1>7

LEMMA FirstDifference ==
    ASSUME NEW x \in Seq(Int), NEW y \in Seq(Int), NEW k \in Nat \ {0}, At(x, k) # At(y, k),
           \A i \in 1..(k - 1) : At(x, i) = At(y, i)
    PROVE  Comparison(x, y) = compareInt(At(x, k), At(y, k))
<1>1. At(x, k) \in Int /\ At(y, k) \in Int
  BY AtInt
<1>2. CASE At(x, k) < At(y, k)
  <2>1. Before(x, y) BY <1>2 DEF Before
  <2> QED BY <1>2, <2>1 DEF Comparison, compareInt
<1>3. CASE At(y, k) < At(x, k)
  <2>1. Before(y, x) BY <1>3 DEF Before
  <2>2. ~Before(x, y) BY <2>1, BeforeAsymmetric
  <2> QED BY <1>1, <1>3, <2>1, <2>2 DEF Comparison, compareInt
<1> QED BY <1>1, <1>2, <1>3

\* Two keys are the same so far and go on as two others.
GoOn(x, y, n, u, v) ==
    /\ \A k \in 1..n : At(x, k) = At(y, k)
    /\ \A k \in Nat \ {0} : At(x, n + k) = At(u, k) /\ At(y, n + k) = At(v, k)

LEMMA BeforeShift ==
    ASSUME NEW x \in Seq(Int), NEW y \in Seq(Int), NEW u \in Seq(Int), NEW v \in Seq(Int),
           NEW n \in Nat, GoOn(x, y, n, u, v)
    PROVE  Before(x, y) <=> Before(u, v)
<1> USE DEF GoOn
<1>1. ASSUME Before(x, y) PROVE Before(u, v)
  <2>1. PICK k \in Nat \ {0} : /\ At(x, k) < At(y, k)
                              /\ \A i \in 1..(k - 1) : At(x, i) = At(y, i)
    BY <1>1 DEF Before
  <2>2. At(x, k) \in Int /\ At(y, k) \in Int BY AtInt
  <2>3. k > n
    <3>1. SUFFICES ASSUME k <= n PROVE FALSE OBVIOUS
    <3>2. k \in 1..n BY <3>1
    <3>3. At(x, k) = At(y, k) BY <3>2
    <3> QED BY <2>1, <2>2, <3>3
  <2> DEFINE l == k - n
  <2>4. l \in Nat \ {0} /\ n + l = k BY <2>3
  <2> HIDE DEF l
  <2>5. At(u, l) < At(v, l)
    <3>1. At(x, n + l) = At(u, l) /\ At(y, n + l) = At(v, l) BY <2>4
    <3> QED BY <2>1, <2>4, <3>1
  <2>6. ASSUME NEW i \in 1..(l - 1) PROVE At(u, i) = At(v, i)
    <3>1. i \in Nat \ {0} /\ n + i \in 1..(k - 1) BY <2>4
    <3>2. At(x, n + i) = At(u, i) /\ At(y, n + i) = At(v, i) BY <3>1
    <3>3. At(x, n + i) = At(y, n + i) BY <2>1, <3>1
    <3> QED BY <3>2, <3>3
  <2> QED BY <2>4, <2>5, <2>6 DEF Before
<1>2. ASSUME Before(u, v) PROVE Before(x, y)
  <2>1. PICK k \in Nat \ {0} : /\ At(u, k) < At(v, k)
                              /\ \A i \in 1..(k - 1) : At(u, i) = At(v, i)
    BY <1>2 DEF Before
  <2> DEFINE l == n + k
  <2>2. l \in Nat \ {0} /\ l = n + k OBVIOUS
  <2> HIDE DEF l
  <2>3. At(x, l) < At(y, l)
    <3>1. At(x, n + k) = At(u, k) /\ At(y, n + k) = At(v, k) OBVIOUS
    <3> QED BY <2>1, <2>2, <3>1
  <2>4. ASSUME NEW i \in 1..(l - 1) PROVE At(x, i) = At(y, i)
    <3>1. CASE i <= n
      <4>1. i \in 1..n BY <3>1
      <4> QED BY <4>1
    <3>2. CASE i > n
      <4> DEFINE m == i - n
      <4>1. m \in Nat \ {0} /\ m \in 1..(k - 1) /\ i = n + m BY <2>2, <3>2
      <4> HIDE DEF m
      <4>2. At(x, n + m) = At(u, m) /\ At(y, n + m) = At(v, m) BY <4>1
      <4>3. At(u, m) = At(v, m) BY <2>1, <4>1
      <4> QED BY <4>1, <4>2, <4>3
    <3> QED BY <2>2, <3>1, <3>2
  <2> QED BY <2>2, <2>3, <2>4 DEF Before
<1> QED BY <1>1, <1>2

LEMMA ComparisonShift ==
    ASSUME NEW x \in Seq(Int), NEW y \in Seq(Int), NEW u \in Seq(Int), NEW v \in Seq(Int),
           NEW n \in Nat, GoOn(x, y, n, u, v)
    PROVE  Comparison(x, y) = Comparison(u, v)
<1>1. Before(x, y) <=> Before(u, v)
  BY BeforeShift
<1>2. Before(y, x) <=> Before(v, u)
  <2>1. GoOn(y, x, n, v, u) BY DEF GoOn
  <2> QED BY <2>1, BeforeShift
<1> QED BY <1>1, <1>2 DEF Comparison

-----------------------------------------------------------------------------
\* A key that begins with the ranks of some non-digits and the 0 after them.
Begins(x, a) ==
    /\ \A k \in 1..Len(a) : At(x, k) = Rank(a[k])
    /\ At(x, Len(a) + 1) = 0

Order(a, k) == IF k <= Len(a) THEN orderChar(a[k]) ELSE 0
RankAt(a, k) == IF k <= Len(a) THEN Rank(a[k]) ELSE 0

LEMMA OrderIsRank ==
    ASSUME NEW a \in Seq(Bytes \ Digits), NEW b \in Seq(Bytes \ Digits), NEW k \in Nat \ {0}
    PROVE  /\ Order(a, k) \in Int /\ RankAt(a, k) \in Int
           /\ Order(a, k) = 0 <=> k > Len(a)
           /\ Order(a, k) < Order(b, k) <=> RankAt(a, k) < RankAt(b, k)
<1>1. k <= Len(a) => a[k] \in Bytes \ Digits
  OBVIOUS
<1>2. k <= Len(b) => b[k] \in Bytes \ Digits
  OBVIOUS
<1>3. \A c \in Bytes \ Digits :
          /\ Rank(c) \in Int /\ Rank(c) # 0 /\ orderChar(c) \in Int /\ orderChar(c) # 0
          /\ Rank(c) < 0 <=> orderChar(c) < 0
          /\ \A d \in Bytes \ Digits : Rank(c) < Rank(d) <=> orderChar(c) < orderChar(d)
  BY RankIs
<1> QED BY <1>1, <1>2, <1>3 DEF Order, RankAt

LEMMA BeginsAt ==
    ASSUME NEW a \in Seq(Bytes \ Digits), NEW x \in Seq(Int), Begins(x, a),
           NEW k \in 1..(Len(a) + 1)
    PROVE  At(x, k) = RankAt(a, k)
<1>1. CASE k <= Len(a)
  <2>1. k \in 1..Len(a) BY <1>1
  <2> QED BY <1>1, <2>1 DEF Begins, RankAt
<1>2. CASE ~(k <= Len(a))
  <2>1. k = Len(a) + 1 BY <1>2
  <2> QED BY <1>2, <2>1 DEF Begins, RankAt
<1> QED BY <1>1, <1>2

LEMMA NonDigitsOrder ==
    ASSUME NEW a \in Seq(Bytes \ Digits), NEW b \in Seq(Bytes \ Digits),
           NEW x \in Seq(Int), NEW y \in Seq(Int), Begins(x, a), Begins(y, b)
    PROVE  \/ /\ CompareNonDigits(a, b) = 0 /\ Len(a) = Len(b)
              /\ \A k \in 1..(Len(a) + 1) : At(x, k) = At(y, k)
           \/ CompareNonDigits(a, b) # 0 /\ Comparison(x, y) = CompareNonDigits(a, b)
<1> DEFINE n == Max({Len(a), Len(b)})
           f == [k \in 1..n |-> Order(a, k)]
           g == [k \in 1..n |-> Order(b, k)]
<1>1. n \in Nat /\ Len(a) <= n /\ Len(b) <= n /\ (n = Len(a) \/ n = Len(b))
  <2>1. {Len(a), Len(b)} \in SUBSET (0..(Len(a) + Len(b))) /\ {Len(a), Len(b)} # {}
        /\ Len(a) + Len(b) \in Nat
    OBVIOUS
  <2>2. n \in {Len(a), Len(b)} /\ \A l \in {Len(a), Len(b)} : l <= n
    BY <2>1, MaxIs
  <2> HIDE DEF n
  <2> QED BY <2>2
<1>2. CompareNonDigits(a, b) = CompareFirst(f, g, n)
  BY DEF CompareNonDigits, Order
<1> HIDE DEF n
<1>4. \A k \in Nat \ {0} :
         /\ Order(a, k) \in Int /\ RankAt(a, k) \in Int
         /\ Order(b, k) \in Int /\ RankAt(b, k) \in Int
         /\ (Order(a, k) = 0 <=> k > Len(a)) /\ (Order(b, k) = 0 <=> k > Len(b))
         /\ Order(a, k) < Order(b, k) <=> RankAt(a, k) < RankAt(b, k)
         /\ Order(b, k) < Order(a, k) <=> RankAt(b, k) < RankAt(a, k)
  BY OrderIsRank
<1>3. \A k \in 1..n : f[k] \in Int /\ g[k] \in Int
  <2>1. \A k \in 1..n : k \in Nat \ {0} BY <1>1
  <2> QED BY <1>4, <2>1
<1>5. CASE CompareFirst(f, g, n) = 0 /\ \A k \in 1..n : f[k] = g[k]
  <2>1. \A k \in 1..n : Order(a, k) = Order(b, k) BY <1>5
  <2>2. ~(Len(a) < Len(b))
    <3>1. SUFFICES ASSUME Len(a) < Len(b) PROVE FALSE OBVIOUS
    <3>2. Len(b) \in 1..n /\ Len(b) \in Nat \ {0} /\ ~(Len(b) > Len(b)) BY <1>1, <3>1
    <3> QED BY <1>4, <2>1, <3>1, <3>2
  <2>3. ~(Len(b) < Len(a))
    <3>1. SUFFICES ASSUME Len(b) < Len(a) PROVE FALSE OBVIOUS
    <3>2. Len(a) \in 1..n /\ Len(a) \in Nat \ {0} /\ ~(Len(a) > Len(a)) BY <1>1, <3>1
    <3> QED BY <1>4, <2>1, <3>1, <3>2
  <2>4. Len(a) = Len(b) /\ n = Len(a) BY <1>1, <2>2, <2>3
  <2>5. ASSUME NEW k \in 1..(Len(a) + 1) PROVE At(x, k) = At(y, k)
    <3>1. At(x, k) = RankAt(a, k) /\ At(y, k) = RankAt(b, k)
      BY <2>4, BeginsAt
    <3>2. RankAt(a, k) = RankAt(b, k)
      <4>1. CASE k <= n
        <5>1. k \in 1..n /\ k \in Nat \ {0} BY <1>1, <4>1
        <5>2. Order(a, k) = Order(b, k) BY <2>1, <5>1
        <5> QED BY <1>4, <5>1, <5>2
      <4>2. CASE ~(k <= n) BY <2>4, <4>2 DEF RankAt
      <4> QED BY <4>1, <4>2
    <3> QED BY <3>1, <3>2
  <2> QED BY <1>2, <1>5, <2>4, <2>5
<1>6. ASSUME NEW k \in 1..n, f[k] # g[k], \A i \in 1..(k - 1) : f[i] = g[i],
             CompareFirst(f, g, n) = compareInt(f[k], g[k])
      PROVE  CompareNonDigits(a, b) # 0 /\ Comparison(x, y) = CompareNonDigits(a, b)
  <2>1. k \in Nat \ {0} /\ f[k] = Order(a, k) /\ g[k] = Order(b, k) OBVIOUS
  <2>2. ASSUME NEW i \in 1..(k - 1) PROVE Order(a, i) = Order(b, i)
    <3>1. i \in 1..n BY <1>1
    <3>2. f[i] = g[i] BY <1>6
    <3> QED BY <3>1, <3>2
  <2>3. k <= Len(a) + 1
    <3>1. SUFFICES ASSUME k > Len(a) + 1 PROVE FALSE OBVIOUS
    <3>2. Len(a) + 1 \in 1..(k - 1) /\ Len(a) + 1 \in Nat \ {0} BY <2>1, <3>1
    <3>3. Order(a, Len(a) + 1) = 0 BY <1>4, <3>2
    <3>4. Order(b, Len(a) + 1) = 0 BY <2>2, <3>2, <3>3
    <3>5. Len(a) + 1 > Len(b) BY <1>4, <3>2, <3>4
    <3> QED BY <1>1, <1>6, <3>1, <3>5
  <2>4. k <= Len(b) + 1
    <3>1. SUFFICES ASSUME k > Len(b) + 1 PROVE FALSE OBVIOUS
    <3>2. Len(b) + 1 \in 1..(k - 1) /\ Len(b) + 1 \in Nat \ {0} BY <2>1, <3>1
    <3>3. Order(b, Len(b) + 1) = 0 BY <1>4, <3>2
    <3>4. Order(a, Len(b) + 1) = 0 BY <2>2, <3>2, <3>3
    <3>5. Len(b) + 1 > Len(a) BY <1>4, <3>2, <3>4
    <3> QED BY <1>1, <1>6, <3>1, <3>5
  <2>5. ASSUME NEW i \in 1..k PROVE At(x, i) = RankAt(a, i) /\ At(y, i) = RankAt(b, i)
    <3>1. i \in 1..(Len(a) + 1) /\ i \in 1..(Len(b) + 1) BY <2>1, <2>3, <2>4
    <3> QED BY <3>1, BeginsAt
  <2>6. \A i \in 1..(k - 1) : At(x, i) = At(y, i)
    <3>1. SUFFICES ASSUME NEW i \in 1..(k - 1) PROVE At(x, i) = At(y, i) OBVIOUS
    <3>2. i \in 1..k /\ i \in Nat \ {0} BY <2>1
    <3>3. Order(a, i) = Order(b, i) BY <2>2
    <3>4. RankAt(a, i) = RankAt(b, i) BY <1>4, <3>2, <3>3
    <3> QED BY <2>5, <3>2, <3>4
  <2>7. At(x, k) = RankAt(a, k) /\ At(y, k) = RankAt(b, k)
    <3>1. k \in 1..k BY <2>1
    <3> QED BY <2>5, <3>1
  <2>8. /\ RankAt(a, k) # RankAt(b, k)
        /\ compareInt(RankAt(a, k), RankAt(b, k)) = compareInt(Order(a, k), Order(b, k))
        /\ compareInt(Order(a, k), Order(b, k)) # 0
    BY <1>4, <1>6, <2>1 DEF compareInt
  <2>9. Comparison(x, y) = compareInt(At(x, k), At(y, k))
    BY <2>1, <2>6, <2>7, <2>8, FirstDifference
  <2> QED BY <1>2, <1>6, <2>1, <2>7, <2>8, <2>9
<1> HIDE DEF f, g
<1>7. SameTo(f, g, n) \/ \E k \in 1..n : DifferAt(f, g, n, k)
  BY <1>1, CompareFirstIs
<1> QED BY <1>5, <1>6, <1>7 DEF SameTo, DifferAt

\* The numbers of a run, with and without its zeros.
LEMMA NumberOfRun ==
    ASSUME NEW text \in Seq(Bytes), NEW i \in 1..(Len(text) + 1)
    PROVE  LET n == NumberFrom(text, i)
               a == AfterZeros(text, i)
               e == RunEnd(text, i)
               digits == SubSeq(text, a, e - 1)
           IN  /\ digits \in Seq(Digits) /\ (digits # <<>> => digits[1] # Zero)
               /\ Value(digits) = Value(SubSeq(text, n, e - 1))
               /\ Value(digits) \in Nat
<1> DEFINE n == NumberFrom(text, i)
           a == AfterZeros(text, i)
           e == RunEnd(text, i)
           c == SubSeq(text, a, e - 1)
           d == SubSeq(text, n, e - 1)
<1>1. /\ n \in i..(Len(text) + 1) /\ e \in n..(Len(text) + 1) /\ a \in n..e
      /\ \A k \in n..(e - 1) : text[k] \in Digits
      /\ \A k \in n..(a - 1) : text[k] = Zero
      /\ a < e => text[a] # Zero
  BY RunIs
<1> HIDE DEF n, a, e
<1>2. n \in 1..(Len(text) + 1) /\ a \in 1..(Len(text) + 1) /\ e \in a..(Len(text) + 1)
  BY <1>1
<1>3. /\ d \in Seq(Digits) /\ Len(d) = e - n
      /\ \A k \in 1..(e - n) : d[k] = text[n + k - 1]
  BY <1>1, <1>2, SegmentIs
<1>4. /\ c \in Seq(Digits) /\ Len(c) = e - a
      /\ \A k \in 1..(e - a) : c[k] = text[a + k - 1]
  <2>1. \A k \in a..(e - 1) : text[k] \in Digits BY <1>1, <1>2
  <2> QED BY <1>2, <2>1, SegmentIs
<1> HIDE DEF c, d
<1>5. c # <<>> => c[1] # Zero
  <2>1. SUFFICES ASSUME c # <<>> PROVE c[1] # Zero OBVIOUS
  <2>2. 1 \in 1..(e - a) /\ a < e /\ a + 1 - 1 = a BY <1>1, <1>2, <1>4, <2>1
  <2>3. c[1] = text[a] BY <1>4, <2>2
  <2> QED BY <1>1, <2>2, <2>3
<1>6. Value(d) = Value(c)
  <2> DEFINE z == a - n
  <2>1. z \in Nat /\ Len(d) = z + Len(c) BY <1>1, <1>2, <1>3, <1>4
  <2>2. ASSUME NEW k \in 1..z PROVE d[k] = Zero
    <3>1. k \in 1..(e - n) /\ n + k - 1 \in n..(a - 1) BY <1>1, <1>2
    <3> QED BY <1>1, <1>3, <3>1
  <2>3. ASSUME NEW k \in 1..Len(c) PROVE d[z + k] = c[k]
    <3>1. z + k \in 1..(e - n) /\ n + (z + k) - 1 = a + k - 1 /\ k \in 1..(e - a)
      BY <1>1, <1>2, <1>4
    <3> QED BY <1>3, <1>4, <3>1
  <2> HIDE DEF z
  <2> QED BY <1>3, <1>4, <2>1, <2>2, <2>3, ZerosInFront
<1>7. Value(c) \in Nat
  BY <1>4, ValueNat
<1> QED BY <1>4, <1>5, <1>6, <1>7 DEF c, d, n, a, e

LEMMA RunsOrder ==
    ASSUME NEW s \in Seq(Bytes), NEW t \in Seq(Bytes), NEW f, NEW g, Keys(s, f), Keys(t, g),
           NEW i \in 1..(Len(s) + 1), NEW j \in 1..(Len(t) + 1)
    PROVE  Comparison(f[i], g[j]) =
               IF CompareRuns(s, t, i, j) # 0 THEN CompareRuns(s, t, i, j)
               ELSE Comparison(f[RunEnd(s, i)], g[RunEnd(t, j)])
<1> DEFINE n1 == NumberFrom(s, i)
           n2 == NumberFrom(t, j)
           e1 == RunEnd(s, i)
           e2 == RunEnd(t, j)
           a == SubSeq(s, i, n1 - 1)
           b == SubSeq(t, j, n2 - 1)
           c == SubSeq(s, AfterZeros(s, i), e1 - 1)
           d == SubSeq(t, AfterZeros(t, j), e2 - 1)
           x == f[i]
           y == g[j]
<1>1. /\ n1 \in i..(Len(s) + 1) /\ e1 \in n1..(Len(s) + 1)
      /\ \A k \in i..(n1 - 1) : s[k] \in Bytes \ Digits
  BY RunIs
<1>2. /\ n2 \in j..(Len(t) + 1) /\ e2 \in n2..(Len(t) + 1)
      /\ \A k \in j..(n2 - 1) : t[k] \in Bytes \ Digits
  BY RunIs
<1>3. CompareRuns(s, t, i, j) = IF CompareNonDigits(a, b) # 0 THEN CompareNonDigits(a, b)
                                ELSE CompareDigits(c, d)
  BY DEF CompareRuns
<1>4. /\ c \in Seq(Digits) /\ (c # <<>> => c[1] # Zero)
      /\ Value(c) = Value(SubSeq(s, n1, e1 - 1)) /\ Value(c) \in Nat
  BY NumberOfRun
<1>5. /\ d \in Seq(Digits) /\ (d # <<>> => d[1] # Zero)
      /\ Value(d) = Value(SubSeq(t, n2, e2 - 1)) /\ Value(d) \in Nat
  BY NumberOfRun
<1>6. /\ \A k \in 1..(n1 - i) : At(x, k) = Rank(s[i + k - 1])
      /\ At(x, n1 - i + 1) = 0
      /\ At(x, n1 - i + 2) = Value(SubSeq(s, n1, e1 - 1))
      /\ \A k \in Nat \ {0} : At(x, n1 - i + 2 + k) = At(f[e1], k)
  BY KeyFromRun
<1>7. /\ \A k \in 1..(n2 - j) : At(y, k) = Rank(t[j + k - 1])
      /\ At(y, n2 - j + 1) = 0
      /\ At(y, n2 - j + 2) = Value(SubSeq(t, n2, e2 - 1))
      /\ \A k \in Nat \ {0} : At(y, n2 - j + 2 + k) = At(g[e2], k)
  BY KeyFromRun
<1> HIDE DEF n1, n2, e1, e2, c, d
<1>8. /\ a \in Seq(Bytes \ Digits) /\ Len(a) = n1 - i
      /\ \A k \in 1..(n1 - i) : a[k] = s[i + k - 1]
  BY <1>1, SegmentIs
<1>9. /\ b \in Seq(Bytes \ Digits) /\ Len(b) = n2 - j
      /\ \A k \in 1..(n2 - j) : b[k] = t[j + k - 1]
  BY <1>2, SegmentIs
<1>10. x \in Seq(Int) /\ y \in Seq(Int) /\ f[e1] \in Seq(Int) /\ g[e2] \in Seq(Int)
  <2>1. e1 \in 1..(Len(s) + 1) /\ e2 \in 1..(Len(t) + 1) BY <1>1, <1>2
  <2> QED BY <2>1 DEF Keys
<1> HIDE DEF a, b, x, y
<1>11. Begins(x, a) /\ Begins(y, b)
  BY <1>6, <1>7, <1>8, <1>9 DEF Begins
<1>12. CASE CompareNonDigits(a, b) # 0 /\ Comparison(x, y) = CompareNonDigits(a, b)
  BY <1>3, <1>12 DEF x, y
<1>13. CASE /\ CompareNonDigits(a, b) = 0 /\ Len(a) = Len(b)
            /\ \A k \in 1..(Len(a) + 1) : At(x, k) = At(y, k)
  <2> DEFINE m == Len(a) + 2
  <2>1. m \in Nat \ {0} /\ n1 - i + 2 = m /\ n2 - j + 2 = m /\ Len(a) + 1 = m - 1
    BY <1>8, <1>9, <1>13
  <2> HIDE DEF m
  <2>2. At(x, m) = Value(c) /\ At(y, m) = Value(d)
    BY <1>4, <1>5, <1>6, <1>7, <2>1
  <2>3. \A k \in 1..(m - 1) : At(x, k) = At(y, k)
    BY <1>13, <2>1
  <2>4. CompareRuns(s, t, i, j) = compareInt(Value(c), Value(d))
    BY <1>3, <1>4, <1>5, <1>13, DigitsOrder
  <2>5. CASE Value(c) # Value(d)
    <3>1. Comparison(x, y) = compareInt(Value(c), Value(d))
      BY <1>10, <2>1, <2>2, <2>3, <2>5, FirstDifference
    <3>2. compareInt(Value(c), Value(d)) # 0
      BY <1>4, <1>5, <2>5 DEF compareInt
    <3> QED BY <2>4, <3>1, <3>2 DEF x, y
  <2>6. CASE Value(c) = Value(d)
    <3>1. CompareRuns(s, t, i, j) = 0
      BY <1>4, <1>5, <2>4, <2>6 DEF compareInt
    <3>2. \A k \in 1..m : At(x, k) = At(y, k)
      <4>1. SUFFICES ASSUME NEW k \in 1..m PROVE At(x, k) = At(y, k) OBVIOUS
      <4>2. CASE k = m BY <2>2, <2>6, <4>2
      <4>3. CASE k # m
        <5>1. k \in 1..(m - 1) BY <2>1, <4>3
        <5> QED BY <2>3, <5>1
      <4> QED BY <4>2, <4>3
    <3>3. ASSUME NEW k \in Nat \ {0}
          PROVE  At(x, m + k) = At(f[e1], k) /\ At(y, m + k) = At(g[e2], k)
      <4>1. At(x, n1 - i + 2 + k) = At(f[e1], k) BY <1>6
      <4>2. At(y, n2 - j + 2 + k) = At(g[e2], k) BY <1>7
      <4> QED BY <2>1, <4>1, <4>2
    <3>4. GoOn(x, y, m, f[e1], g[e2]) BY <3>2, <3>3 DEF GoOn
    <3>5. Comparison(x, y) = Comparison(f[e1], g[e2])
      BY <1>10, <2>1, <3>4, ComparisonShift
    <3> QED BY <3>1, <3>5 DEF x, y, e1, e2
  <2> QED BY <2>5, <2>6
<1> QED BY <1>8, <1>9, <1>10, <1>11, <1>12, <1>13, NonDigitsOrder

\* compareParts compares keys.
LEMMA PartsOrder ==
    ASSUME NEW s \in Seq(Bytes), NEW t \in Seq(Bytes)
    PROVE  compareParts(s, t) = Comparison(Key(s), Key(t))
<1> DEFINE D == (1..(Len(s) + 1)) \X (1..(Len(t) + 1))
           ends(p) == p[1] > Len(s) /\ p[2] > Len(t)
           next(p) == <<RunEnd(s, p[1]), RunEnd(t, p[2])>>
           runs(p) == CompareRuns(s, t, p[1], p[2])
           left(p) == (Len(s) + 1 - p[1]) + (Len(t) + 1 - p[2])
           within(m) == {p \in D : left(p) <= m}
           step(h, p) == IF ends(p) THEN 0 ELSE IF runs(p) # 0 THEN runs(p) ELSE h[next(p)]
           T == {m \in Nat : \E h : h = [p \in within(m) |-> step(h, p)]}
           compare == CHOOSE h : h = [p \in D |-> step(h, p)]
           all == Len(s) + Len(t)
<1>1. PICK f : Keys(s, f) /\ Key(s) = f[1]
  BY KeyIs
<1>2. PICK g : Keys(t, g) /\ Key(t) = g[1]
  BY KeyIs
<1>3. \A p \in D : left(p) \in Nat /\ left(p) <= all
  OBVIOUS
<1>4. \A p \in D : left(p) = 0 => ends(p)
  OBVIOUS
<1>5. \A p \in D : ~ends(p) => next(p) \in D /\ left(next(p)) < left(p)
  <2>1. SUFFICES ASSUME NEW p \in D, ~ends(p) PROVE next(p) \in D /\ left(next(p)) < left(p)
    OBVIOUS
  <2> DEFINE i == p[1]
             j == p[2]
  <2>2. i \in 1..(Len(s) + 1) /\ j \in 1..(Len(t) + 1) OBVIOUS
  <2> HIDE DEF i, j
  <2>3. RunEnd(s, i) \in i..(Len(s) + 1) /\ (i <= Len(s) => RunEnd(s, i) > i)
    <3>1. /\ NumberFrom(s, i) \in i..(Len(s) + 1)
          /\ RunEnd(s, i) \in NumberFrom(s, i)..(Len(s) + 1)
          /\ i <= Len(s) => RunEnd(s, i) > i
      BY <2>2, RunIs
    <3> QED BY <2>2, <3>1
  <2>4. RunEnd(t, j) \in j..(Len(t) + 1) /\ (j <= Len(t) => RunEnd(t, j) > j)
    <3>1. /\ NumberFrom(t, j) \in j..(Len(t) + 1)
          /\ RunEnd(t, j) \in NumberFrom(t, j)..(Len(t) + 1)
          /\ j <= Len(t) => RunEnd(t, j) > j
      BY <2>2, RunIs
    <3> QED BY <2>2, <3>1
  <2>5. next(p) = <<RunEnd(s, i), RunEnd(t, j)>> BY DEF i, j
  <2>6. next(p) \in D BY <2>2, <2>3, <2>4, <2>5
  <2>7. i <= Len(s) \/ j <= Len(t) BY <2>1, <2>2 DEF i, j
  <2>8. left(next(p)) = (Len(s) + 1 - RunEnd(s, i)) + (Len(t) + 1 - RunEnd(t, j)) BY <2>5
  <2>9. left(p) = (Len(s) + 1 - i) + (Len(t) + 1 - j) BY DEF i, j
  <2>10. left(next(p)) < left(p)
    <3> HIDE DEF left, next, D
    <3>1. Len(s) \in Nat /\ Len(t) \in Nat OBVIOUS
    <3> QED BY <3>1, <2>2, <2>3, <2>4, <2>7, <2>8, <2>9
  <2> QED BY <2>6, <2>10
<1>6. all \in Nat /\ <<1, 1>> \in D
  OBVIOUS
<1>7. \A p \in D : p[1] \in 1..(Len(s) + 1) /\ p[2] \in 1..(Len(t) + 1)
  OBVIOUS
<1> HIDE DEF D, ends, next, runs, left, all
<1>8. T = Nat
  <2>1. 0 \in T
    <3> DEFINE h == [p \in within(0) |-> 0]
    <3>1. \A p \in within(0) : ends(p) BY <1>3, <1>4
    <3>2. h = [p \in within(0) |-> step(h, p)] BY <3>1
    <3> QED BY <3>2
  <2>2. ASSUME NEW m \in Nat, m \in T PROVE m + 1 \in T
    <3>1. PICK h : h = [p \in within(m) |-> step(h, p)]
      BY <2>2
    <3> DEFINE k == [p \in within(m + 1) |-> IF p \in within(m) THEN h[p] ELSE step(h, p)]
    <3>2. ASSUME NEW p \in within(m + 1) PROVE k[p] = step(k, p)
      <4>1. p \in D /\ left(p) \in Nat /\ left(p) <= m + 1 BY <1>3
      <4>2. k[p] = step(h, p) BY <3>1
      <4>3. ASSUME ~ends(p) PROVE k[next(p)] = h[next(p)]
        <5>1. next(p) \in D /\ left(next(p)) < left(p) BY <1>5, <4>1, <4>3
        <5>2. left(next(p)) \in Nat BY <1>3, <5>1
        <5>3. next(p) \in within(m) /\ next(p) \in within(m + 1) BY <4>1, <5>1, <5>2
        <5> HIDE DEF within
        <5> QED BY <5>3
      <4> HIDE DEF k
      <4> QED BY <4>2, <4>3
    <3>3. k = [p \in within(m + 1) |-> step(k, p)]
      <4> HIDE DEF step, within
      <4> QED BY <3>2
    <3>4. \E q : q = [p \in within(m + 1) |-> step(q, p)]
      <4> HIDE DEF k, step, within
      <4> QED BY <3>3
    <3> HIDE DEF step, within
    <3> QED BY <3>4
  <2>3. T \in SUBSET Nat OBVIOUS
  <2> HIDE DEF T
  <2> QED BY <2>1, <2>2, <2>3, Induction
<1>9. \E h : h = [p \in D |-> step(h, p)]
  <2>1. all \in T
    <3> HIDE DEF T
    <3> QED BY <1>6, <1>8
  <2>2. within(all) = D BY <1>3
  <2>3. \E h : h = [p \in within(all) |-> step(h, p)] BY <2>1
  <2> HIDE DEF within
  <2> QED BY <2>2, <2>3
<1>10. compare = [p \in D |-> step(compare, p)]
  BY <1>9
<1>11. compareParts(s, t) = compare[<<1, 1>>]
  BY DEF compareParts, D, ends, next, runs
<1> HIDE DEF compare
<1>12. \A p \in D : compare[p] = step(compare, p)
  BY <1>10
<1> DEFINE U == {m \in Nat : \A p \in within(m) : compare[p] = Comparison(f[p[1]], g[p[2]])}
<1>13. \A p \in D : ends(p) => Comparison(f[p[1]], g[p[2]]) = 0
  <2>1. SUFFICES ASSUME NEW p \in D, ends(p) PROVE Comparison(f[p[1]], g[p[2]]) = 0
    OBVIOUS
  <2>2. p[1] = Len(s) + 1 /\ p[2] = Len(t) + 1 BY <1>7, <2>1 DEF ends
  <2>3. f[p[1]] = <<>> /\ g[p[2]] = <<>> BY <1>1, <1>2, <2>2 DEF Keys
  <2>4. ~Before(<<>>, <<>>) BY DEF Before, At
  <2> QED BY <2>3, <2>4 DEF Comparison
<1>14. \A p \in D : ~ends(p) =>
         Comparison(f[p[1]], g[p[2]]) = IF runs(p) # 0 THEN runs(p)
                                        ELSE Comparison(f[next(p)[1]], g[next(p)[2]])
  <2>1. SUFFICES ASSUME NEW p \in D
                 PROVE  Comparison(f[p[1]], g[p[2]]) =
                            IF runs(p) # 0 THEN runs(p)
                            ELSE Comparison(f[next(p)[1]], g[next(p)[2]])
    OBVIOUS
  <2> DEFINE i == p[1]
             j == p[2]
  <2>2. i \in 1..(Len(s) + 1) /\ j \in 1..(Len(t) + 1) BY <1>7
  <2> HIDE DEF i, j
  <2>3. Comparison(f[i], g[j]) = IF CompareRuns(s, t, i, j) # 0 THEN CompareRuns(s, t, i, j)
                                 ELSE Comparison(f[RunEnd(s, i)], g[RunEnd(t, j)])
    BY <1>1, <1>2, <2>2, RunsOrder
  <2>4. next(p)[1] = RunEnd(s, i) /\ next(p)[2] = RunEnd(t, j) BY DEF next, i, j
  <2>5. runs(p) = CompareRuns(s, t, i, j) BY DEF runs, i, j
  <2> QED BY <2>3, <2>4, <2>5 DEF i, j
<1>15. U = Nat
  <2>1. 0 \in U
    <3>1. \A p \in within(0) : p \in D /\ ends(p) BY <1>3, <1>4
    <3>2. \A p \in within(0) : compare[p] = Comparison(f[p[1]], g[p[2]])
      BY <1>12, <1>13, <3>1
    <3> QED BY <3>2
  <2>2. ASSUME NEW m \in Nat, m \in U PROVE m + 1 \in U
    <3>1. SUFFICES ASSUME NEW p \in within(m + 1)
                   PROVE  compare[p] = Comparison(f[p[1]], g[p[2]])
      OBVIOUS
    <3>2. p \in D /\ left(p) \in Nat /\ left(p) <= m + 1 BY <1>3
    <3>3. compare[p] = step(compare, p) BY <1>12, <3>2
    <3>4. CASE ends(p)
      BY <1>13, <3>2, <3>3, <3>4
    <3>5. CASE ~ends(p)
      <4>1. next(p) \in D /\ left(next(p)) < left(p) BY <1>5, <3>2, <3>5
      <4>2. left(next(p)) \in Nat BY <1>3, <4>1
      <4>3. next(p) \in within(m) BY <3>2, <4>1, <4>2
      <4>4. compare[next(p)] = Comparison(f[next(p)[1]], g[next(p)[2]]) BY <2>2, <4>3
      <4>5. compare[p] = IF runs(p) # 0 THEN runs(p) ELSE compare[next(p)] BY <3>3, <3>5
      <4>6. Comparison(f[p[1]], g[p[2]]) = IF runs(p) # 0 THEN runs(p)
                                        ELSE Comparison(f[next(p)[1]], g[next(p)[2]])
        BY <1>14, <3>2, <3>5
      <4> QED BY <4>4, <4>5, <4>6
    <3> QED BY <3>4, <3>5
  <2>3. U \in SUBSET Nat OBVIOUS
  <2> HIDE DEF U
  <2> QED BY <2>1, <2>2, <2>3, Induction
<1>16. compare[<<1, 1>>] = Comparison(f[1], g[1])
  <2>1. all \in U
    <3> HIDE DEF U
    <3> QED BY <1>6, <1>15
  <2>2. <<1, 1>> \in within(all) BY <1>3, <1>6
  <2>3. compare[<<1, 1>>] = Comparison(f[<<1, 1>>[1]], g[<<1, 1>>[2]]) BY <2>1, <2>2
  <2>4. <<1, 1>>[1] = 1 /\ <<1, 1>>[2] = 1 OBVIOUS
  <2> QED BY <2>3, <2>4
<1> QED BY <1>1, <1>2, <1>11, <1>16

-----------------------------------------------------------------------------
LEMMA BeforeTotal ==
    ASSUME NEW x \in Seq(Int), NEW y \in Seq(Int), NEW z \in Seq(Int),
           ~Before(x, y), ~Before(y, z)
    PROVE  ~Before(x, z)
<1>1. SUFFICES ASSUME Before(x, z) PROVE FALSE
  OBVIOUS
<1>2. PICK k \in Nat \ {0} : At(x, k) < At(z, k) /\ \A i \in 1..(k - 1) : At(x, i) = At(z, i)
  BY <1>1 DEF Before
<1>3. \A i \in Nat \ {0} : At(x, i) \in Int /\ At(y, i) \in Int /\ At(z, i) \in Int
  BY AtInt
<1> DEFINE differ == {i \in 1..k : At(y, i) # At(x, i)}
<1>4. CASE differ = {}
  <2>1. \A i \in 1..k : At(y, i) = At(x, i) BY <1>4
  <2>2. k \in 1..k /\ \A i \in 1..(k - 1) : i \in 1..k OBVIOUS
  <2>3. Before(y, z) BY <1>2, <2>1, <2>2 DEF Before
  <2> QED BY <2>3
<1>5. CASE differ # {}
  <2>1. differ \in SUBSET Nat OBVIOUS
  <2>2. PICK i \in differ : \A l \in differ : i <= l
    <3> HIDE DEF differ
    <3> QED BY <1>5, <2>1, Least
  <2>3. i \in 1..k /\ i \in Nat \ {0} /\ At(y, i) # At(x, i) OBVIOUS
  <2>4. ASSUME NEW l \in 1..(i - 1) PROVE At(y, l) = At(x, l) /\ At(x, l) = At(z, l)
    <3>1. l \in 1..k /\ l < i /\ l \in 1..(k - 1) BY <2>3
    <3>2. l \notin differ BY <2>2, <2>3, <3>1
    <3> QED BY <1>2, <3>1, <3>2
  <2>5. CASE At(x, i) < At(y, i)
    <3>1. Before(x, y) BY <2>3, <2>4, <2>5 DEF Before
    <3> QED BY <3>1
  <2>6. CASE At(y, i) < At(x, i)
    <3>1. At(x, i) <= At(z, i)
      <4>1. CASE i = k BY <1>2, <1>3, <4>1
      <4>2. CASE i # k
        <5>1. i \in 1..(k - 1) BY <2>3, <4>2
        <5> QED BY <1>2, <1>3, <2>3, <5>1
      <4> QED BY <4>1, <4>2
    <3>2. At(y, i) < At(z, i) BY <1>3, <2>3, <2>6, <3>1
    <3>3. \A l \in 1..(i - 1) : At(y, l) = At(z, l) BY <2>4
    <3>4. Before(y, z) BY <2>3, <3>2, <3>3 DEF Before
    <3> QED BY <3>4
  <2> QED BY <1>3, <2>3, <2>5, <2>6
<1> QED BY <1>4, <1>5

LEMMA KeyType == ASSUME NEW text \in Seq(Bytes) PROVE Key(text) \in Seq(Int)
<1>1. PICK f : Keys(text, f) /\ Key(text) = f[1]
  BY KeyIs
<1>2. 1 \in 1..(Len(text) + 1)
  OBVIOUS
<1> QED BY <1>1, <1>2 DEF Keys

\* The parts of a well-formed version.
LEMMA WellFormedIs ==
    ASSUME NEW v, WellFormed(v)
    PROVE  /\ v.upstream \in Seq(Bytes) /\ Revision(v) \in Seq(Bytes)
           /\ Number(v.epoch) \in Int
           /\ Key(v.upstream) \in Seq(Int) /\ Key(Revision(v)) \in Seq(Int)
<1>1. v.upstream \in Seq(Bytes)
  BY DEF WellFormed
<1>2. Revision(v) \in Seq(Bytes)
  <2>1. CASE v.revision = None BY <2>1 DEF Revision
  <2>2. CASE v.revision # None
    <3>1. v.revision \in Seq(Bytes \ {Hyphen, Colon}) BY <2>2 DEF WellFormed
    <3>2. v.revision \in Seq(Bytes) BY <3>1, SeqMonotonic
    <3> QED BY <2>2, <3>2 DEF Revision
  <2> QED BY <2>1, <2>2
<1>3. Number(v.epoch) \in Int
  <2>1. CASE v.epoch = None BY <2>1 DEF Number
  <2>2. CASE v.epoch # None
    <3>1. v.epoch \in Seq(Digits) BY <2>2 DEF WellFormed
    <3>2. Value(v.epoch) \in Nat BY <3>1, ValueNat
    <3> QED BY <2>2, <3>2 DEF Number
  <2> QED BY <2>1, <2>2
<1> QED BY <1>1, <1>2, <1>3, KeyType

DebBefore(v, w) ==
    \/ Number(v.epoch) < Number(w.epoch)
    \/ /\ Number(v.epoch) = Number(w.epoch)
       /\ \/ Before(Key(v.upstream), Key(w.upstream))
          \/ /\ ~Before(Key(w.upstream), Key(v.upstream))
             /\ Before(Key(Revision(v)), Key(Revision(w)))

LEMMA DebLessIs ==
    ASSUME NEW v, NEW w, WellFormed(v), WellFormed(w)
    PROVE  DebLess(v, w) <=> DebBefore(v, w)
<1>1. /\ Key(v.upstream) \in Seq(Int) /\ Key(Revision(v)) \in Seq(Int)
      /\ Key(w.upstream) \in Seq(Int) /\ Key(Revision(w)) \in Seq(Int)
  BY WellFormedIs
<1>2. KeyLess(Key(v.upstream), Key(w.upstream)) <=> Before(Key(v.upstream), Key(w.upstream))
  BY <1>1, KeyLessIs
<1>3. KeyLess(Key(w.upstream), Key(v.upstream)) <=> Before(Key(w.upstream), Key(v.upstream))
  BY <1>1, KeyLessIs
<1>4. KeyLess(Key(Revision(v)), Key(Revision(w)))
          <=> Before(Key(Revision(v)), Key(Revision(w)))
  BY <1>1, KeyLessIs
<1> QED BY <1>2, <1>3, <1>4 DEF DebLess, DebBefore

\* DebLess is a strict weak order of all versions, so that the slices.SortFunc of
\* PublishDebFiles and of Index.Sort, which compare with CompareVersions, have an order
\* to sort by: no two versions are each later than the other, and what is not later
\* than a version that is not later than a third is not later than the third.
THEOREM DebLessIsOrder ==
    ASSUME NEW u, NEW v, NEW w, WellFormed(u), WellFormed(v), WellFormed(w)
    PROVE  /\ ~(DebLess(u, v) /\ DebLess(v, u))
           /\ ~DebLess(u, v) /\ ~DebLess(v, w) => ~DebLess(u, w)
<1> DEFINE a == Key(u.upstream)
           b == Key(v.upstream)
           c == Key(w.upstream)
           p == Key(Revision(u))
           q == Key(Revision(v))
           r == Key(Revision(w))
           k == Number(u.epoch)
           l == Number(v.epoch)
           m == Number(w.epoch)
<1>1. /\ a \in Seq(Int) /\ b \in Seq(Int) /\ c \in Seq(Int)
      /\ p \in Seq(Int) /\ q \in Seq(Int) /\ r \in Seq(Int)
      /\ k \in Int /\ l \in Int /\ m \in Int
  BY WellFormedIs
<1>2. /\ DebLess(u, v) <=> DebBefore(u, v)
      /\ DebLess(v, u) <=> DebBefore(v, u)
      /\ DebLess(v, w) <=> DebBefore(v, w)
      /\ DebLess(u, w) <=> DebBefore(u, w)
  BY DebLessIs
<1>3. DebBefore(u, v) <=>
          k < l \/ (k = l /\ (Before(a, b) \/ (~Before(b, a) /\ Before(p, q))))
  BY DEF DebBefore
<1>4. DebBefore(v, u) <=>
          l < k \/ (l = k /\ (Before(b, a) \/ (~Before(a, b) /\ Before(q, p))))
  BY DEF DebBefore
<1>5. DebBefore(v, w) <=>
          l < m \/ (l = m /\ (Before(b, c) \/ (~Before(c, b) /\ Before(q, r))))
  BY DEF DebBefore
<1>6. DebBefore(u, w) <=>
          k < m \/ (k = m /\ (Before(a, c) \/ (~Before(c, a) /\ Before(p, r))))
  BY DEF DebBefore
<1> HIDE DEF a, b, c, p, q, r, k, l, m
<1>7. \A x, y \in Seq(Int) : ~(Before(x, y) /\ Before(y, x))
  BY BeforeAsymmetric
<1>8. \A x, y, z \in Seq(Int) : Before(x, z) => Before(x, y) \/ Before(y, z)
  BY BeforeTotal
<1>9. ~(DebBefore(u, v) /\ DebBefore(v, u))
  BY <1>1, <1>3, <1>4, <1>7
<1>10. ~DebBefore(u, v) /\ ~DebBefore(v, w) => ~DebBefore(u, w)
  <2>1. SUFFICES ASSUME ~DebBefore(u, v), ~DebBefore(v, w), DebBefore(u, w) PROVE FALSE
    OBVIOUS
  <2>2. ~(k < l) /\ ~(l < m) BY <1>3, <1>5, <2>1
  <2>3. k = m /\ l = m BY <1>1, <1>6, <2>1, <2>2
  <2>4. ~Before(a, b) /\ ~Before(b, c) BY <1>3, <1>5, <2>1, <2>3
  <2>5. ~Before(a, c) BY <1>1, <1>8, <2>4
  <2>6. ~Before(c, a) /\ Before(p, r) BY <1>1, <1>6, <2>1, <2>3, <2>5
  <2>7. ~Before(b, a)
    <3>1. SUFFICES ASSUME Before(b, a) PROVE FALSE OBVIOUS
    <3>2. Before(b, c) \/ Before(c, a) BY <1>1, <1>8, <3>1
    <3> QED BY <2>4, <2>6, <3>2
  <2>8. ~Before(c, b)
    <3>1. SUFFICES ASSUME Before(c, b) PROVE FALSE OBVIOUS
    <3>2. Before(c, a) \/ Before(a, b) BY <1>1, <1>8, <3>1
    <3> QED BY <2>4, <2>6, <3>2
  <2>9. ~Before(p, q) /\ ~Before(q, r) BY <1>3, <1>5, <2>1, <2>3, <2>7, <2>8
  <2> QED BY <1>1, <1>8, <2>6, <2>9
<1> QED BY <1>2, <1>9, <1>10

-----------------------------------------------------------------------------
\* A text that is cut at one of its bytes.
LEMMA CutIs ==
    ASSUME NEW x \in Seq(Bytes), NEW c \in Bytes, NEW y \in Seq(Bytes)
    PROVE  LET z == Append(x, c) \o y
           IN  /\ z \in Seq(Bytes) /\ Len(z) = Len(x) + 1 + Len(y)
               /\ \A k \in 1..Len(x) : z[k] = x[k]
               /\ z[Len(x) + 1] = c
               /\ \A k \in 1..Len(y) : z[Len(x) + 1 + k] = y[k]
               /\ SubSeq(z, 1, Len(x)) = x
               /\ SubSeq(z, Len(x) + 2, Len(z)) = y
<1> DEFINE b == Append(x, c)
           z == b \o y
<1>1. /\ b \in Seq(Bytes) /\ Len(b) = Len(x) + 1
      /\ \A k \in 1..Len(x) : b[k] = x[k]
      /\ b[Len(x) + 1] = c
  BY AppendProperties
<1> HIDE DEF b
<1>2. /\ z \in Seq(Bytes) /\ Len(z) = Len(b) + Len(y)
      /\ \A k \in 1..(Len(b) + Len(y)) : z[k] = IF k <= Len(b) THEN b[k] ELSE y[k - Len(b)]
  BY <1>1, ConcatProperties
<1> HIDE DEF z
<1>3. ASSUME NEW k \in 1..Len(x) PROVE z[k] = x[k]
  <2>1. k \in 1..(Len(b) + Len(y)) /\ k <= Len(b) BY <1>1
  <2> QED BY <1>1, <1>2, <2>1
<1>4. z[Len(x) + 1] = c
  <2>1. Len(x) + 1 \in 1..(Len(b) + Len(y)) /\ Len(x) + 1 <= Len(b) BY <1>1
  <2> QED BY <1>1, <1>2, <2>1
<1>5. ASSUME NEW k \in 1..Len(y) PROVE z[Len(x) + 1 + k] = y[k]
  <2> DEFINE m == Len(x) + 1 + k
  <2>1. m \in 1..(Len(b) + Len(y)) /\ ~(m <= Len(b)) /\ m - Len(b) = k BY <1>1
  <2> HIDE DEF m
  <2>2. z[m] = y[k] BY <1>2, <2>1
  <2> QED BY <2>2 DEF m
<1>6. SubSeq(z, 1, Len(x)) = x
  <2>1. \A i \in 1..Len(x) : z[i] \in Bytes BY <1>3
  <2> DEFINE s == SubSeq(z, 1, Len(x))
  <2>2. 1 \in Int /\ Len(x) \in Int /\ Len(x) - 1 + 1 = Len(x) OBVIOUS
  <2>3. /\ s \in Seq(Bytes) /\ Len(s) = IF 1 <= Len(x) THEN Len(x) - 1 + 1 ELSE 0
        /\ \A i \in 1..(Len(x) - 1 + 1) : s[i] = z[1 + i - 1]
    BY <2>1, <2>2, SubSeqProperties
  <2> HIDE DEF s
  <2>4. Len(s) = Len(x) BY <2>3
  <2>5. ASSUME NEW i \in 1..Len(x) PROVE s[i] = x[i]
    <3>1. i \in 1..(Len(x) - 1 + 1) /\ 1 + i - 1 = i OBVIOUS
    <3> QED BY <1>3, <2>3, <3>1
  <2>6. s = x BY <2>3, <2>4, <2>5, SeqEqual
  <2> QED BY <2>6 DEF s
<1>7. SubSeq(z, Len(x) + 2, Len(z)) = y
  <2> DEFINE m == Len(x) + 2
             n == Len(z)
             s == SubSeq(z, m, n)
  <2>1. m \in Int /\ n \in Int /\ n - m + 1 = Len(y) /\ (m <= n <=> Len(y) >= 1)
    BY <1>1, <1>2
  <2>2. \A i \in 1..Len(y) : m + i - 1 = Len(x) + 1 + i OBVIOUS
  <2>3. \A i \in m..n : z[i] \in Bytes
    <3>1. SUFFICES ASSUME NEW i \in m..n PROVE z[i] \in Bytes OBVIOUS
    <3>2. i \in 1..Len(z) BY <1>2
    <3> QED BY <1>2, <3>2
  <2> HIDE DEF m, n
  <2>4. /\ s \in Seq(Bytes) /\ Len(s) = IF m <= n THEN n - m + 1 ELSE 0
        /\ \A i \in 1..(n - m + 1) : s[i] = z[m + i - 1]
    BY <2>1, <2>3, SubSeqProperties
  <2> HIDE DEF s
  <2>5. Len(s) = Len(y) BY <2>1, <2>4
  <2>6. ASSUME NEW i \in 1..Len(y) PROVE s[i] = y[i]
    <3>1. s[i] = z[m + i - 1] BY <2>1, <2>4
    <3>2. m + i - 1 = Len(x) + 1 + i BY <2>2
    <3> QED BY <1>5, <3>1, <3>2
  <2>7. s = y BY <2>4, <2>5, <2>6, SeqEqual
  <2> QED BY <2>7 DEF s, m, n
<1> QED BY <1>1, <1>2, <1>3, <1>4, <1>5, <1>6, <1>7 DEF z, b

LEMMA NoPositions ==
    ASSUME NEW x \in Seq(Bytes), NEW c, \A k \in 1..Len(x) : x[k] # c
    PROVE  Positions(x, c) = {}
BY DEF Positions

\* What follows the epoch in the text of a version.
Rest(v) == v.upstream \o (IF v.revision = None THEN <<>> ELSE <<Hyphen>> \o v.revision)

LEMMA RestIs ==
    ASSUME NEW v, WellFormed(v)
    PROVE  /\ Rest(v) \in Seq(Bytes)
           /\ v.revision = None => Rest(v) = v.upstream
           /\ v.revision # None => Rest(v) = Append(v.upstream, Hyphen) \o v.revision
<1>1. v.upstream \in Seq(Bytes)
  BY DEF WellFormed
<1>2. CASE v.revision = None
  <2>1. Rest(v) = v.upstream BY <1>1, <1>2, ConcatEmptySeq DEF Rest
  <2> QED BY <1>1, <1>2, <2>1
<1>3. CASE v.revision # None
  <2>1. v.revision \in Seq(Bytes)
    <3>1. v.revision \in Seq(Bytes \ {Hyphen, Colon}) BY <1>3 DEF WellFormed
    <3> QED BY <3>1, SeqMonotonic
  <2>2. Hyphen \in Bytes /\ <<Hyphen>> \in Seq(Bytes) BY DEF Hyphen, Bytes
  <2>3. Rest(v) = v.upstream \o (<<Hyphen>> \o v.revision) BY <1>3 DEF Rest
  <2>4. v.upstream \o (<<Hyphen>> \o v.revision) = (v.upstream \o <<Hyphen>>) \o v.revision
    <3> DEFINE x == v.upstream
               h == <<Hyphen>>
               y == v.revision
    <3>1. x \in Seq(Bytes) /\ h \in Seq(Bytes) /\ y \in Seq(Bytes) BY <1>1, <2>1, <2>2
    <3> HIDE DEF x, h, y
    <3>2. x \o (h \o y) = (x \o h) \o y BY <3>1, ConcatAssociative
    <3> QED BY <3>2 DEF x, h, y
  <2>5. v.upstream \o <<Hyphen>> = Append(v.upstream, Hyphen)
    BY <1>1, <2>2, AppendIsConcat
  <2>6. Rest(v) = Append(v.upstream, Hyphen) \o v.revision BY <2>3, <2>4, <2>5
  <2>7. Append(v.upstream, Hyphen) \o v.revision \in Seq(Bytes)
    BY <1>1, <2>1, <2>2, AppendProperties, ConcatProperties
  <2> QED BY <1>3, <2>6, <2>7
<1> QED BY <1>2, <1>3

\* The revision begins at the last hyphen.
LEMMA RevisionIs ==
    ASSUME NEW v, WellFormed(v)
    PROVE  LET hyphens == Positions(Rest(v), Hyphen)
           IN  /\ v.upstream = (IF hyphens = {} THEN Rest(v)
                                ELSE SubSeq(Rest(v), 1, Max(hyphens) - 1))
               /\ Revision(v) = (IF hyphens = {} THEN <<>>
                                 ELSE SubSeq(Rest(v), Max(hyphens) + 1, Len(Rest(v))))
<1> DEFINE hyphens == Positions(Rest(v), Hyphen)
<1>1. CASE v.revision = None
  <2>1. Rest(v) = v.upstream BY <1>1, RestIs
  <2>2. hyphens = {} BY <1>1, <2>1 DEF WellFormed
  <2> HIDE DEF hyphens
  <2>3. Revision(v) = <<>> BY <1>1 DEF Revision
  <2> QED BY <2>1, <2>2, <2>3 DEF hyphens
<1>2. CASE v.revision # None
  <2> DEFINE x == v.upstream
             y == v.revision
             z == Append(x, Hyphen) \o y
  <2>1. Rest(v) = z /\ Revision(v) = y BY <1>2, RestIs DEF Revision
  <2>2. y \in Seq(Bytes \ {Hyphen, Colon}) /\ x \in Seq(Bytes) BY <1>2 DEF WellFormed
  <2>3. y \in Seq(Bytes) BY <2>2, SeqMonotonic
  <2>4. Hyphen \in Bytes BY DEF Hyphen, Bytes
  <2> HIDE DEF x, y
  <2>5. /\ Len(z) = Len(x) + 1 + Len(y)
        /\ z[Len(x) + 1] = Hyphen
        /\ \A k \in 1..Len(y) : z[Len(x) + 1 + k] = y[k]
        /\ SubSeq(z, 1, Len(x)) = x
        /\ SubSeq(z, Len(x) + 2, Len(z)) = y
    BY <2>2, <2>3, <2>4, CutIs
  <2> HIDE DEF z
  <2> DEFINE m == Len(x) + 1
  <2>6. m \in Nat /\ m \in 1..Len(z) /\ m - 1 = Len(x) /\ m + 1 = Len(x) + 2 BY <2>2, <2>3, <2>5
  <2>7. m \in hyphens BY <2>1, <2>5, <2>6 DEF Positions
  <2>8. \A k \in hyphens : k \in 1..Len(z) /\ k <= m
    <3>1. SUFFICES ASSUME NEW k \in hyphens PROVE k \in 1..Len(z) /\ k <= m OBVIOUS
    <3>2. k \in 1..Len(z) /\ z[k] = Hyphen BY <2>1 DEF Positions
    <3>3. ASSUME k > m PROVE FALSE
      <4> DEFINE l == k - m
      <4>1. l \in 1..Len(y) /\ m + l = k BY <2>3, <2>5, <2>6, <3>2, <3>3
      <4> HIDE DEF l
      <4>2. z[m + l] = y[l] BY <2>5, <4>1
      <4>3. y[l] \in Bytes \ {Hyphen, Colon} BY <2>2, <4>1
      <4> QED BY <3>2, <4>1, <4>2, <4>3
    <3> QED BY <2>6, <3>2, <3>3
  <2> HIDE DEF m, hyphens
  <2>9. Max(hyphens) = m
    <3>1. hyphens \in SUBSET (0..m) /\ hyphens # {} BY <2>6, <2>7, <2>8
    <3>2. Max(hyphens) \in hyphens /\ \A k \in hyphens : k <= Max(hyphens)
      BY <2>6, <3>1, MaxIs
    <3>3. Max(hyphens) \in 0..m /\ m <= Max(hyphens) BY <2>7, <3>1, <3>2
    <3> QED BY <2>6, <3>3
  <2>10. x = SubSeq(z, 1, m - 1) /\ y = SubSeq(z, m + 1, Len(z)) BY <2>5, <2>6
  <2> QED BY <2>1, <2>7, <2>9, <2>10 DEF hyphens, x
<1> QED BY <1>1, <1>2

\* The text of a version is its epoch, if it has one, and the rest.
LEMMA TextIs ==
    ASSUME NEW v, WellFormed(v)
    PROVE  /\ v.epoch = None => Text(v) = Rest(v)
           /\ v.epoch # None => Text(v) = Append(v.epoch, Colon) \o Rest(v)
<1> DEFINE R == IF v.revision = None THEN <<>> ELSE <<Hyphen>> \o v.revision
           E == IF v.epoch = None THEN <<>> ELSE Append(v.epoch, Colon)
           x == v.upstream
<1>1. x \in Seq(Bytes)
  BY DEF WellFormed
<1>2. R \in Seq(Bytes)
  <2>1. CASE v.revision = None BY <2>1
  <2>2. CASE v.revision # None
    <3>1. v.revision \in Seq(Bytes \ {Hyphen, Colon}) BY <2>2 DEF WellFormed
    <3>2. v.revision \in Seq(Bytes) BY <3>1, SeqMonotonic
    <3>3. <<Hyphen>> \in Seq(Bytes) BY DEF Hyphen, Bytes
    <3> QED BY <2>2, <3>2, <3>3, ConcatProperties
  <2> QED BY <2>1, <2>2
<1>3. E \in Seq(Bytes)
  <2>1. CASE v.epoch = None BY <2>1
  <2>2. CASE v.epoch # None
    <3>1. v.epoch \in Seq(Digits) BY <2>2 DEF WellFormed
    <3>2. v.epoch \in Seq(Bytes)
      <4>1. Digits \subseteq Bytes BY DEF Digits, Bytes
      <4> QED BY <3>1, <4>1, SeqMonotonic
    <3>3. Colon \in Bytes BY DEF Colon, Bytes
    <3> QED BY <2>2, <3>2, <3>3, AppendProperties
  <2> QED BY <2>1, <2>2
<1>4. Text(v) = (E \o x) \o R /\ Rest(v) = x \o R
  BY DEF Text, Rest
<1>5. E \o Rest(v) = Text(v)
  <2> HIDE DEF E, x, R
  <2>1. (E \o x) \o R = E \o (x \o R) BY <1>1, <1>2, <1>3, ConcatAssociative
  <2> QED BY <1>4, <2>1
<1>6. CASE v.epoch = None
  <2>1. E = <<>> BY <1>6
  <2>2. Rest(v) \in Seq(Bytes) BY RestIs
  <2>3. <<>> \o Rest(v) = Rest(v) BY <2>2, ConcatEmptySeq
  <2> QED BY <1>5, <1>6, <2>1, <2>3
<1>7. CASE v.epoch # None
  <2>1. E = Append(v.epoch, Colon) BY <1>7
  <2> QED BY <1>5, <1>7, <2>1
<1> QED BY <1>6, <1>7

\* Without an epoch there is no colon.
LEMMA NoColon ==
    ASSUME NEW v, WellFormed(v), v.epoch = None
    PROVE  Positions(Rest(v), Colon) = {}
<1>1. v.upstream \in Seq(Bytes) /\ Positions(v.upstream, Colon) = {}
  BY DEF WellFormed
<1>2. CASE v.revision = None
  BY <1>1, <1>2, RestIs
<1>3. CASE v.revision # None
  <2> DEFINE x == v.upstream
             y == v.revision
             z == Append(x, Hyphen) \o y
  <2>1. Rest(v) = z BY <1>3, RestIs
  <2>2. y \in Seq(Bytes \ {Hyphen, Colon}) BY <1>3 DEF WellFormed
  <2>3. y \in Seq(Bytes) BY <2>2, SeqMonotonic
  <2>4. Hyphen \in Bytes BY DEF Hyphen, Bytes
  <2>5. x \in Seq(Bytes) /\ Positions(x, Colon) = {} BY <1>1
  <2> HIDE DEF x, y
  <2>6. /\ z \in Seq(Bytes) /\ Len(z) = Len(x) + 1 + Len(y)
        /\ \A k \in 1..Len(x) : z[k] = x[k]
        /\ z[Len(x) + 1] = Hyphen
        /\ \A k \in 1..Len(y) : z[Len(x) + 1 + k] = y[k]
    BY <2>3, <2>4, <2>5, CutIs
  <2> HIDE DEF z
  <2>7. ASSUME NEW k \in 1..Len(z) PROVE z[k] # Colon
    <3>1. CASE k <= Len(x)
      <4>1. k \in 1..Len(x) BY <2>5, <3>1
      <4>2. x[k] # Colon BY <2>5, <4>1 DEF Positions
      <4> QED BY <2>6, <4>1, <4>2
    <3>2. CASE k = Len(x) + 1
      BY <2>6, <3>2 DEF Hyphen, Colon
    <3>3. CASE k > Len(x) + 1
      <4> DEFINE l == k - (Len(x) + 1)
      <4>1. l \in 1..Len(y) /\ Len(x) + 1 + l = k BY <2>3, <2>5, <2>6, <3>3
      <4> HIDE DEF l
      <4>2. z[k] = y[l] BY <2>6, <4>1
      <4>3. y[l] \in Bytes \ {Hyphen, Colon} BY <2>2, <4>1
      <4> QED BY <4>2, <4>3
    <3>4. Len(x) \in Nat BY <2>5
    <3> QED BY <3>1, <3>2, <3>3, <3>4
  <2>8. Positions(z, Colon) = {} BY <2>6, <2>7, NoPositions
  <2> QED BY <2>1, <2>8
<1> QED BY <1>2, <1>3

\* A text of digits is a number without a sign.
LEMMA AtoiIs ==
    ASSUME NEW d \in Seq(Digits), d # <<>>, Value(d) <= MaxInt
    PROVE  Atoi(d) = Value(d)
<1>1. 1 \in 1..Len(d)
  BY EmptySeq
<1>2. d[1] \in Digits
  BY <1>1
<1>3. ~(d # <<>> /\ d[1] \in {Plus, Hyphen})
  BY <1>2 DEF Digits, Plus, Hyphen
<1>4. ~(\E i \in DOMAIN d : d[i] \notin Digits)
  OBVIOUS
<1>5. Value(d) \in -(MaxInt + 1)..MaxInt
  BY ValueNat, MaxIntAssumption
<1> QED BY <1>3, <1>4, <1>5 DEF Atoi

\* The epoch ends at the first colon.
LEMMA EpochIs ==
    ASSUME NEW v, WellFormed(v)
    PROVE  LET text == Text(v)
               colons == Positions(text, Colon)
           IN  /\ Number(v.epoch) = (IF colons = {} THEN 0
                                     ELSE Atoi(SubSeq(text, 1, Min(colons) - 1)))
               /\ Rest(v) = (IF colons = {} THEN text
                             ELSE SubSeq(text, Min(colons) + 1, Len(text)))
<1> DEFINE text == Text(v)
           colons == Positions(text, Colon)
<1>1. CASE v.epoch = None
  <2>1. text = Rest(v) BY <1>1, TextIs
  <2>2. colons = {} BY <1>1, <2>1, NoColon
  <2>3. Number(v.epoch) = 0 BY <1>1 DEF Number
  <2> HIDE DEF colons, text
  <2> QED BY <2>1, <2>2, <2>3 DEF colons, text
<1>2. CASE v.epoch # None
  <2> DEFINE x == v.epoch
             y == Rest(v)
             z == Append(x, Colon) \o y
  <2>1. text = z /\ Number(x) = Value(x) BY <1>2, TextIs DEF Number
  <2>2. x \in Seq(Digits) /\ x # <<>> /\ Value(x) <= MaxInt BY <1>2 DEF WellFormed
  <2>3. x \in Seq(Bytes)
    <3>1. Digits \subseteq Bytes BY DEF Digits, Bytes
    <3> QED BY <2>2, <3>1, SeqMonotonic
  <2>4. Colon \in Bytes BY DEF Colon, Bytes
  <2>5. y \in Seq(Bytes) BY RestIs
  <2>6. Atoi(x) = Value(x) BY <2>2, AtoiIs
  <2> HIDE DEF x, y
  <2>7. /\ z \in Seq(Bytes) /\ Len(z) = Len(x) + 1 + Len(y)
        /\ \A k \in 1..Len(x) : z[k] = x[k]
        /\ z[Len(x) + 1] = Colon
        /\ SubSeq(z, 1, Len(x)) = x
        /\ SubSeq(z, Len(x) + 2, Len(z)) = y
    BY <2>3, <2>4, <2>5, CutIs
  <2> HIDE DEF z
  <2> DEFINE m == Len(x) + 1
  <2>8. m \in Nat /\ m \in 1..Len(z) /\ m - 1 = Len(x) /\ m + 1 = Len(x) + 2 BY <2>3, <2>5, <2>7
  <2>9. m \in colons BY <2>1, <2>7, <2>8 DEF Positions
  <2>10. \A k \in colons : k \in 1..Len(z) /\ k >= m
    <3>1. SUFFICES ASSUME NEW k \in colons PROVE k \in 1..Len(z) /\ k >= m OBVIOUS
    <3>2. k \in 1..Len(z) /\ z[k] = Colon BY <2>1 DEF Positions
    <3>3. ASSUME k < m PROVE FALSE
      <4>1. k \in 1..Len(x) BY <2>3, <2>8, <3>2, <3>3
      <4>2. z[k] = x[k] /\ x[k] \in Digits BY <2>2, <2>7, <4>1
      <4> QED BY <3>2, <4>2 DEF Digits, Colon
    <3> QED BY <2>8, <3>2, <3>3
  <2> HIDE DEF m, colons
  <2>11. Min(colons) = m
    <3>1. colons \in SUBSET Nat /\ colons # {} BY <2>9, <2>10
    <3>2. Min(colons) \in colons /\ \A k \in colons : Min(colons) <= k BY <3>1, MinIs
    <3>3. Min(colons) \in 1..Len(z) /\ Min(colons) >= m /\ Min(colons) <= m
      BY <2>9, <2>10, <3>2
    <3> QED BY <2>8, <3>3
  <2>12. x = SubSeq(z, 1, m - 1) /\ y = SubSeq(z, m + 1, Len(z)) BY <2>7, <2>8
  <2>13. colons # {} BY <2>9
  <2>14. Number(x) = Atoi(SubSeq(z, 1, Min(colons) - 1))
    BY <2>1, <2>6, <2>11, <2>12
  <2>15. y = SubSeq(z, Min(colons) + 1, Len(z)) BY <2>11, <2>12
  <2> QED BY <2>1, <2>13, <2>14, <2>15 DEF colons, x, y
<1> QED BY <1>1, <1>2

\* ParseVersion finds in the text of every version the epoch, the upstream version and
\* the revision that it was written from: it cuts at the first colon and at the last
\* hyphen, however many of them the upstream version has, and takes what is missing
\* for 0.
THEOREM ParseIs ==
    ASSUME NEW v, WellFormed(v)
    PROVE  ParseVersion(Text(v)) = [epoch |-> Number(v.epoch), upstream |-> v.upstream,
                                    revision |-> Revision(v)]
<1> DEFINE text == Text(v)
           colons == Positions(text, Colon)
           rest == IF colons = {} THEN text ELSE SubSeq(text, Min(colons) + 1, Len(text))
           hyphens == Positions(rest, Hyphen)
<1>1. /\ Number(v.epoch) = (IF colons = {} THEN 0 ELSE Atoi(SubSeq(text, 1, Min(colons) - 1)))
      /\ Rest(v) = rest
  BY EpochIs
<1>2. /\ v.upstream = (IF hyphens = {} THEN rest ELSE SubSeq(rest, 1, Max(hyphens) - 1))
      /\ Revision(v) = (IF hyphens = {} THEN <<>>
                        ELSE SubSeq(rest, Max(hyphens) + 1, Len(rest)))
  BY <1>1, RevisionIs
<1>3. ParseVersion(text)
        = [epoch |-> IF colons = {} THEN 0 ELSE Atoi(SubSeq(text, 1, Min(colons) - 1)),
           upstream |-> IF hyphens = {} THEN rest ELSE SubSeq(rest, 1, Max(hyphens) - 1),
           revision |-> IF hyphens = {} THEN <<>>
                        ELSE SubSeq(rest, Max(hyphens) + 1, Len(rest))]
  BY DEF ParseVersion
<1> HIDE DEF rest, hyphens, colons
<1> QED BY <1>1, <1>2, <1>3

\* CompareVersions, which takes texts apart again and compares run by run, finds the
\* order of deb-version(7), for every two versions.
THEOREM VersionOrder ==
    ASSUME NEW v, NEW w, WellFormed(v), WellFormed(w)
    PROVE  CompareVersions(Text(v), Text(w))
             = IF DebLess(v, w) THEN -1 ELSE IF DebLess(w, v) THEN 1 ELSE 0
<1> DEFINE a == Number(v.epoch)
           b == Number(w.epoch)
           U == compareParts(v.upstream, w.upstream)
           R == compareParts(Revision(v), Revision(w))
<1>1. CompareVersions(Text(v), Text(w))
        = IF a # b THEN compareInt(a, b) ELSE IF U # 0 THEN U ELSE R
  <2>1. /\ ParseVersion(Text(v)).epoch = a /\ ParseVersion(Text(w)).epoch = b
        /\ ParseVersion(Text(v)).upstream = v.upstream
        /\ ParseVersion(Text(w)).upstream = w.upstream
        /\ ParseVersion(Text(v)).revision = Revision(v)
        /\ ParseVersion(Text(w)).revision = Revision(w)
    BY ParseIs
  <2> HIDE DEF a, b
  <2> QED BY <2>1 DEF CompareVersions
<1> DEFINE A == Key(v.upstream)
           B == Key(w.upstream)
           C == Key(Revision(v))
           D == Key(Revision(w))
<1>2. /\ v.upstream \in Seq(Bytes) /\ w.upstream \in Seq(Bytes)
      /\ Revision(v) \in Seq(Bytes) /\ Revision(w) \in Seq(Bytes)
      /\ A \in Seq(Int) /\ B \in Seq(Int) /\ C \in Seq(Int) /\ D \in Seq(Int)
      /\ a \in Int /\ b \in Int
  BY WellFormedIs
<1>3. U = Comparison(A, B) /\ R = Comparison(C, D)
  BY <1>2, PartsOrder
<1>4. /\ DebLess(v, w) <=> \/ a < b
                           \/ a = b /\ (Before(A, B) \/ (~Before(B, A) /\ Before(C, D)))
      /\ DebLess(w, v) <=> \/ b < a
                           \/ b = a /\ (Before(B, A) \/ (~Before(A, B) /\ Before(D, C)))
  BY DebLessIs DEF DebBefore
<1> HIDE DEF a, b, U, R, A, B, C, D
<1>5. /\ ~(Before(A, B) /\ Before(B, A))
      /\ ~(Before(C, D) /\ Before(D, C))
  BY <1>2, BeforeAsymmetric
<1> QED BY <1>1, <1>2, <1>3, <1>4, <1>5 DEF compareInt, Comparison
=============================================================================
