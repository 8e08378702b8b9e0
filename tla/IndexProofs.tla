---------------------------- MODULE IndexProofs ----------------------------
(***************************************************************************)
(* Theorems about Index: what a Packages file has after every run, for any *)
(* packages, versions and control files.                                   *)
(*                                                                         *)
(* A text is followed line by line by the parser and by a reader: what     *)
(* they have made of a sequence of stanzas (Tells) is shown stanza by      *)
(* stanza, and of a stanza (StanzaRead, StanzaSeen) line by line, so that  *)
(* parsing what is printed gives back what says the same.  The index that  *)
(* is sorted, merged and replaced is then a sequence of such stanzas.      *)
(***************************************************************************)
EXTENDS Index, VersionProofs, FiniteSetTheorems

\* What has been picked of the first members of a sequence.
Picks(seq, P, f) ==
    /\ f[0] = <<>>
    /\ \A k \in 1..Len(seq) :
          f[k] = IF k \in P THEN Append(f[k - 1], seq[k]) ELSE f[k - 1]

LEMMA PickedIs ==
    ASSUME NEW seq, NEW P, Len(seq) \in Nat
    PROVE  \E f : Picks(seq, P, f) /\ Picked(seq, P) = f[Len(seq)]
<1> DEFINE n == Len(seq)
           base == <<>>
           next(x, k) == IF k \in P THEN Append(x, seq[k]) ELSE x
           step(f, k) == IF k = 0 THEN base ELSE next(f[k - 1], k)
           T == {m \in Nat : m <= n => \E f : f = [k \in 0..m |-> step(f, k)]}
           whole == CHOOSE f : f = [k \in 0..n |-> step(f, k)]
<1>1. n \in Nat
  OBVIOUS
<1> HIDE DEF base, next
<1>2. 0 \in T
  <2> DEFINE f == [k \in 0..0 |-> base]
  <2>1. f = [k \in 0..0 |-> step(f, k)] OBVIOUS
  <2> QED BY <2>1
<1>3. ASSUME NEW m \in Nat, m \in T PROVE m + 1 \in T
  <2>1. SUFFICES ASSUME m + 1 <= n PROVE \E g : g = [k \in 0..(m + 1) |-> step(g, k)]
    OBVIOUS
  <2>2. PICK f : f = [k \in 0..m |-> step(f, k)]
    BY <1>1, <1>3, <2>1
  <2> DEFINE g == [k \in 0..(m + 1) |-> IF k = m + 1 THEN step(f, k) ELSE f[k]]
  <2>3. ASSUME NEW k \in 0..(m + 1) PROVE g[k] = step(g, k)
    <3>1. CASE k = 0 BY <2>2, <3>1
    <3>2. CASE k # 0
      <4>1. k - 1 \in 0..m /\ k - 1 \in 0..(m + 1) /\ k - 1 # m + 1 BY <3>2
      <4>2. g[k - 1] = f[k - 1] BY <4>1
      <4>3. CASE k = m + 1 BY <3>2, <4>2, <4>3
      <4>4. CASE k # m + 1
        <5>1. k \in 0..m BY <4>4
        <5>2. f[k] = step(f, k) BY <2>2, <5>1
        <5> QED BY <3>2, <4>2, <4>4, <5>2
      <4> QED BY <4>3, <4>4
    <3> QED BY <3>1, <3>2
  <2>4. g = [k \in 0..(m + 1) |-> step(g, k)]
    BY <2>3
  <2> QED BY <2>4
<1>4. T = Nat
  <2>1. T \in SUBSET Nat OBVIOUS
  <2> HIDE DEF T
  <2> QED BY <1>2, <1>3, <2>1, Induction
<1>5. \E f : f = [k \in 0..n |-> step(f, k)]
  BY <1>1, <1>4
<1>6. whole = [k \in 0..n |-> step(whole, k)]
  BY <1>5
<1>7. Picked(seq, P) = whole[Len(seq)]
  BY DEF Picked, base, next
<1> HIDE DEF whole
<1>8. whole[0] = base /\ \A k \in 1..n : whole[k] = next(whole[k - 1], k)
  BY <1>1, <1>6
<1> QED BY <1>7, <1>8 DEF Picks, base, next

\* The files with the first of the stanzas.
Writes(stanzas, f) ==
    /\ f[0] = <<>>
    /\ \A k \in 1..Len(stanzas) : f[k] = f[k - 1] \o Append(stanzas[k], Blank)

LEMMA WrittenIs ==
    ASSUME NEW stanzas, Len(stanzas) \in Nat
    PROVE  \E f : Writes(stanzas, f) /\ Written(stanzas) = f[Len(stanzas)]
<1> DEFINE n == Len(stanzas)
           base == <<>>
           next(x, k) == x \o Append(stanzas[k], Blank)
           step(f, k) == IF k = 0 THEN base ELSE next(f[k - 1], k)
           T == {m \in Nat : m <= n => \E f : f = [k \in 0..m |-> step(f, k)]}
           whole == CHOOSE f : f = [k \in 0..n |-> step(f, k)]
<1>1. n \in Nat
  OBVIOUS
<1> HIDE DEF base, next
<1>2. 0 \in T
  <2> DEFINE f == [k \in 0..0 |-> base]
  <2>1. f = [k \in 0..0 |-> step(f, k)] OBVIOUS
  <2> QED BY <2>1
<1>3. ASSUME NEW m \in Nat, m \in T PROVE m + 1 \in T
  <2>1. SUFFICES ASSUME m + 1 <= n PROVE \E g : g = [k \in 0..(m + 1) |-> step(g, k)]
    OBVIOUS
  <2>2. PICK f : f = [k \in 0..m |-> step(f, k)]
    BY <1>1, <1>3, <2>1
  <2> DEFINE g == [k \in 0..(m + 1) |-> IF k = m + 1 THEN step(f, k) ELSE f[k]]
  <2>3. ASSUME NEW k \in 0..(m + 1) PROVE g[k] = step(g, k)
    <3>1. CASE k = 0 BY <2>2, <3>1
    <3>2. CASE k # 0
      <4>1. k - 1 \in 0..m /\ k - 1 \in 0..(m + 1) /\ k - 1 # m + 1 BY <3>2
      <4>2. g[k - 1] = f[k - 1] BY <4>1
      <4>3. CASE k = m + 1 BY <3>2, <4>2, <4>3
      <4>4. CASE k # m + 1
        <5>1. k \in 0..m BY <4>4
        <5>2. f[k] = step(f, k) BY <2>2, <5>1
        <5> QED BY <3>2, <4>2, <4>4, <5>2
      <4> QED BY <4>3, <4>4
    <3> QED BY <3>1, <3>2
  <2>4. g = [k \in 0..(m + 1) |-> step(g, k)]
    BY <2>3
  <2> QED BY <2>4
<1>4. T = Nat
  <2>1. T \in SUBSET Nat OBVIOUS
  <2> HIDE DEF T
  <2> QED BY <1>2, <1>3, <2>1, Induction
<1>5. \E f : f = [k \in 0..n |-> step(f, k)]
  BY <1>1, <1>4
<1>6. whole = [k \in 0..n |-> step(whole, k)]
  BY <1>5
<1>7. Written(stanzas) = whole[Len(stanzas)]
  BY DEF Written, base, next
<1> HIDE DEF whole
<1>8. whole[0] = base /\ \A k \in 1..n : whole[k] = next(whole[k - 1], k)
  BY <1>1, <1>6
<1> QED BY <1>7, <1>8 DEF Writes, base, next

\* What a reader sees in the first lines.
Sees(lines, f) ==
    /\ f[0] = [entries |-> <<>>, within |-> FALSE]
    /\ \A k \in 1..Len(lines) : f[k] = Show(f[k - 1], lines[k])

LEMMA ShownIs ==
    ASSUME NEW lines, Len(lines) \in Nat
    PROVE  \E f : Sees(lines, f) /\ Shown(lines) = f[Len(lines)].entries
<1> DEFINE n == Len(lines)
           base == [entries |-> <<>>, within |-> FALSE]
           next(x, k) == Show(x, lines[k])
           step(f, k) == IF k = 0 THEN base ELSE next(f[k - 1], k)
           T == {m \in Nat : m <= n => \E f : f = [k \in 0..m |-> step(f, k)]}
           whole == CHOOSE f : f = [k \in 0..n |-> step(f, k)]
<1>1. n \in Nat
  OBVIOUS
<1> HIDE DEF base, next
<1>2. 0 \in T
  <2> DEFINE f == [k \in 0..0 |-> base]
  <2>1. f = [k \in 0..0 |-> step(f, k)] OBVIOUS
  <2> QED BY <2>1
<1>3. ASSUME NEW m \in Nat, m \in T PROVE m + 1 \in T
  <2>1. SUFFICES ASSUME m + 1 <= n PROVE \E g : g = [k \in 0..(m + 1) |-> step(g, k)]
    OBVIOUS
  <2>2. PICK f : f = [k \in 0..m |-> step(f, k)]
    BY <1>1, <1>3, <2>1
  <2> DEFINE g == [k \in 0..(m + 1) |-> IF k = m + 1 THEN step(f, k) ELSE f[k]]
  <2>3. ASSUME NEW k \in 0..(m + 1) PROVE g[k] = step(g, k)
    <3>1. CASE k = 0 BY <2>2, <3>1
    <3>2. CASE k # 0
      <4>1. k - 1 \in 0..m /\ k - 1 \in 0..(m + 1) /\ k - 1 # m + 1 BY <3>2
      <4>2. g[k - 1] = f[k - 1] BY <4>1
      <4>3. CASE k = m + 1 BY <3>2, <4>2, <4>3
      <4>4. CASE k # m + 1
        <5>1. k \in 0..m BY <4>4
        <5>2. f[k] = step(f, k) BY <2>2, <5>1
        <5> QED BY <3>2, <4>2, <4>4, <5>2
      <4> QED BY <4>3, <4>4
    <3> QED BY <3>1, <3>2
  <2>4. g = [k \in 0..(m + 1) |-> step(g, k)]
    BY <2>3
  <2> QED BY <2>4
<1>4. T = Nat
  <2>1. T \in SUBSET Nat OBVIOUS
  <2> HIDE DEF T
  <2> QED BY <1>2, <1>3, <2>1, Induction
<1>5. \E f : f = [k \in 0..n |-> step(f, k)]
  BY <1>1, <1>4
<1>6. whole = [k \in 0..n |-> step(whole, k)]
  BY <1>5
<1>7. Shown(lines) = whole[Len(lines)].entries
  BY DEF Shown, base, next
<1> HIDE DEF whole
<1>8. whole[0] = base /\ \A k \in 1..n : whole[k] = next(whole[k - 1], k)
  BY <1>1, <1>6
<1> QED BY <1>7, <1>8 DEF Sees, base, next

\* What the parser has read of the first lines.
Reads(lines, f) ==
    /\ f[0] = NothingRead
    /\ \A k \in 1..Len(lines) : f[k] = ParseLine(f[k - 1], lines[k])

LEMMA ReadIs ==
    ASSUME NEW lines, Len(lines) \in Nat
    PROVE  \E f : /\ Reads(lines, f)
                  /\ ParseParagraphs(lines) = EndParagraph(Flush(f[Len(lines)])).paragraphs
<1> DEFINE n == Len(lines)
           base == NothingRead
           next(x, k) == ParseLine(x, lines[k])
           step(f, k) == IF k = 0 THEN base ELSE next(f[k - 1], k)
           T == {m \in Nat : m <= n => \E f : f = [k \in 0..m |-> step(f, k)]}
           whole == CHOOSE f : f = [k \in 0..n |-> step(f, k)]
<1>1. n \in Nat
  OBVIOUS
<1> HIDE DEF base, next
<1>2. 0 \in T
  <2> DEFINE f == [k \in 0..0 |-> base]
  <2>1. f = [k \in 0..0 |-> step(f, k)] OBVIOUS
  <2> QED BY <2>1
<1>3. ASSUME NEW m \in Nat, m \in T PROVE m + 1 \in T
  <2>1. SUFFICES ASSUME m + 1 <= n PROVE \E g : g = [k \in 0..(m + 1) |-> step(g, k)]
    OBVIOUS
  <2>2. PICK f : f = [k \in 0..m |-> step(f, k)]
    BY <1>1, <1>3, <2>1
  <2> DEFINE g == [k \in 0..(m + 1) |-> IF k = m + 1 THEN step(f, k) ELSE f[k]]
  <2>3. ASSUME NEW k \in 0..(m + 1) PROVE g[k] = step(g, k)
    <3>1. CASE k = 0 BY <2>2, <3>1
    <3>2. CASE k # 0
      <4>1. k - 1 \in 0..m /\ k - 1 \in 0..(m + 1) /\ k - 1 # m + 1 BY <3>2
      <4>2. g[k - 1] = f[k - 1] BY <4>1
      <4>3. CASE k = m + 1 BY <3>2, <4>2, <4>3
      <4>4. CASE k # m + 1
        <5>1. k \in 0..m BY <4>4
        <5>2. f[k] = step(f, k) BY <2>2, <5>1
        <5> QED BY <3>2, <4>2, <4>4, <5>2
      <4> QED BY <4>3, <4>4
    <3> QED BY <3>1, <3>2
  <2>4. g = [k \in 0..(m + 1) |-> step(g, k)]
    BY <2>3
  <2> QED BY <2>4
<1>4. T = Nat
  <2>1. T \in SUBSET Nat OBVIOUS
  <2> HIDE DEF T
  <2> QED BY <1>2, <1>3, <2>1, Induction
<1>5. \E f : f = [k \in 0..n |-> step(f, k)]
  BY <1>1, <1>4
<1>6. whole = [k \in 0..n |-> step(whole, k)]
  BY <1>5
<1>7. ParseParagraphs(lines) = EndParagraph(Flush(whole[Len(lines)])).paragraphs
  BY DEF ParseParagraphs, base, next
<1> HIDE DEF whole
<1>8. whole[0] = base /\ \A k \in 1..n : whole[k] = next(whole[k - 1], k)
  BY <1>1, <1>6
<1> QED BY <1>7, <1>8 DEF Reads, base, next

-----------------------------------------------------------------------------
\* x has the members of seq at the positions in P, of the first k, each once.
PickedFrom(x, seq, P, k) ==
    /\ \A i \in 1..Len(x) : \E p \in 1..k : p \in P /\ x[i] = seq[p]
    /\ \A p \in 1..k : p \in P => \E i \in 1..Len(x) : x[i] = seq[p]
    /\ \A i, j \in 1..Len(x) : i # j =>
          \E p, q \in 1..k : p \in P /\ q \in P /\ p # q /\ x[i] = seq[p] /\ x[j] = seq[q]

LEMMA PickedAppend ==
    ASSUME NEW S, NEW seq \in Seq(S), NEW P, NEW x \in Seq(S), NEW k \in Nat,
           PickedFrom(x, seq, P, k), k + 1 \in P, k + 1 <= Len(seq)
    PROVE  PickedFrom(Append(x, seq[k + 1]), seq, P, k + 1)
<1> DEFINE a == seq[k + 1]
           y == Append(x, a)
           m == Len(x) + 1
<1>1. a \in S /\ k + 1 \in 1..(k + 1) /\ \A p \in 1..k : p \in 1..(k + 1) /\ p # k + 1
  OBVIOUS
<1>2. /\ Len(x) \in Nat /\ Len(y) = m /\ y[m] = a
      /\ \A i \in 1..Len(x) : y[i] = x[i] /\ i \in 1..m
      /\ \A i \in 1..m : i \in 1..Len(x) \/ i = m
      /\ m \in 1..m
  BY <1>1, AppendProperties
<1> HIDE DEF y, m
<1>3. \A i \in 1..m : \E p \in 1..(k + 1) : p \in P /\ y[i] = seq[p]
  <2>1. SUFFICES ASSUME NEW i \in 1..m PROVE \E p \in 1..(k + 1) : p \in P /\ y[i] = seq[p]
    OBVIOUS
  <2>2. CASE i \in 1..Len(x)
    <3>1. PICK p \in 1..k : p \in P /\ x[i] = seq[p] BY <2>2 DEF PickedFrom
    <3> QED BY <1>1, <1>2, <2>2, <3>1
  <2>3. CASE i = m BY <1>1, <1>2, <2>3
  <2> QED BY <1>2, <2>2, <2>3
<1>4. \A p \in 1..(k + 1) : p \in P => \E i \in 1..m : y[i] = seq[p]
  <2>1. SUFFICES ASSUME NEW p \in 1..(k + 1), p \in P PROVE \E i \in 1..m : y[i] = seq[p]
    OBVIOUS
  <2>2. CASE p = k + 1 BY <1>2, <2>2
  <2>3. CASE p # k + 1
    <3>1. p \in 1..k BY <2>3
    <3>2. PICK i \in 1..Len(x) : x[i] = seq[p] BY <2>1, <3>1 DEF PickedFrom
    <3> QED BY <1>2, <3>2
  <2> QED BY <2>2, <2>3
<1>5. \A i, j \in 1..m : i # j =>
          \E p, q \in 1..(k + 1) : p \in P /\ q \in P /\ p # q /\ y[i] = seq[p] /\ y[j] = seq[q]
  <2>1. SUFFICES ASSUME NEW i \in 1..m, NEW j \in 1..m, i # j
                 PROVE  \E p, q \in 1..(k + 1) : /\ p \in P /\ q \in P /\ p # q
                                                 /\ y[i] = seq[p] /\ y[j] = seq[q]
    OBVIOUS
  <2>2. CASE i \in 1..Len(x) /\ j \in 1..Len(x)
    <3>1. PICK p \in 1..k, q \in 1..k : p \in P /\ q \in P /\ p # q /\ x[i] = seq[p] /\ x[j] = seq[q]
      BY <2>1, <2>2 DEF PickedFrom
    <3> QED BY <1>1, <1>2, <2>2, <3>1
  <2>3. CASE i = m /\ j \in 1..Len(x)
    <3>1. PICK q \in 1..k : q \in P /\ x[j] = seq[q] BY <2>3 DEF PickedFrom
    <3> QED BY <1>1, <1>2, <2>3, <3>1
  <2>4. CASE i \in 1..Len(x) /\ j = m
    <3>1. PICK p \in 1..k : p \in P /\ x[i] = seq[p] BY <2>4 DEF PickedFrom
    <3> QED BY <1>1, <1>2, <2>4, <3>1
  <2> QED BY <1>2, <2>1, <2>2, <2>3, <2>4
<1> QED BY <1>2, <1>3, <1>4, <1>5 DEF PickedFrom, y

\* A subsequence has what it is to have, each once.
LEMMA PickedFacts ==
    ASSUME NEW S, NEW seq \in Seq(S), NEW P
    PROVE  Picked(seq, P) \in Seq(S) /\ PickedFrom(Picked(seq, P), seq, P, Len(seq))
<1>1. PICK f : Picks(seq, P, f) /\ Picked(seq, P) = f[Len(seq)]
  BY PickedIs
<1> DEFINE T == {k \in Nat : k <= Len(seq) => f[k] \in Seq(S) /\ PickedFrom(f[k], seq, P, k)}
<1>2. 0 \in T
  <2>1. f[0] = <<>> /\ <<>> \in Seq(S) /\ 1..0 = {} /\ Len(<<>>) = 0 BY <1>1 DEF Picks
  <2>2. PickedFrom(<<>>, seq, P, 0) BY <2>1 DEF PickedFrom
  <2> QED BY <2>1, <2>2
<1>3. ASSUME NEW k \in Nat, k \in T PROVE k + 1 \in T
  <2>1. SUFFICES ASSUME k + 1 <= Len(seq)
                 PROVE  f[k + 1] \in Seq(S) /\ PickedFrom(f[k + 1], seq, P, k + 1)
    OBVIOUS
  <2>2. f[k] \in Seq(S) /\ PickedFrom(f[k], seq, P, k) BY <1>3, <2>1
  <2>3. k + 1 \in 1..Len(seq) /\ k + 1 - 1 = k /\ seq[k + 1] \in S BY <2>1
  <2>4. f[k + 1] = IF k + 1 \in P THEN Append(f[k], seq[k + 1]) ELSE f[k]
    BY <1>1, <2>3 DEF Picks
  <2>5. CASE k + 1 \in P
    BY <2>1, <2>2, <2>3, <2>4, <2>5, PickedAppend, AppendProperties
  <2>6. CASE k + 1 \notin P
    <3>1. f[k + 1] = f[k] BY <2>4, <2>6
    <3>2. \A p \in 1..k : p \in 1..(k + 1) OBVIOUS
    <3>3. \A p \in 1..(k + 1) : p \in P => p \in 1..k BY <2>6
    <3> QED BY <2>2, <3>1, <3>2, <3>3 DEF PickedFrom
  <2> QED BY <2>5, <2>6
<1>4. T = Nat
  <2>1. T \in SUBSET Nat OBVIOUS
  <2> HIDE DEF T
  <2> QED BY <1>2, <1>3, <2>1, Induction
<1>5. Len(seq) \in T
  BY <1>4
<1> QED BY <1>1, <1>5

-----------------------------------------------------------------------------
\* The words of the first lines, or parts of a value.
Speaks(x, w) ==
    /\ w[0] = <<>>
    /\ \A k \in 1..Len(x) :
          w[k] = IF Says(x[k]) THEN Append(w[k - 1], x[k].text) ELSE w[k - 1]

LEMMA WordsIs ==
    ASSUME NEW S, NEW x \in Seq(S)
    PROVE  \E w : Speaks(x, w) /\ Words(x) = w[Len(x)]
<1> DEFINE texts == [n \in DOMAIN x |-> x[n].text]
           P == {n \in DOMAIN x : Says(x[n])}
<1>1. DOMAIN x = 1..Len(x) /\ Len(x) \in Nat
  OBVIOUS
<1>2. Len(texts) = Len(x) /\ Words(x) = Picked(texts, P)
  BY <1>1 DEF Words
<1>3. \A k \in 1..Len(x) : texts[k] = x[k].text /\ (k \in P <=> Says(x[k]))
  BY <1>1
<1> HIDE DEF texts, P
<1>4. PICK w : Picks(texts, P, w) /\ Picked(texts, P) = w[Len(texts)]
  BY <1>1, <1>2, PickedIs
<1>5. Speaks(x, w)
  BY <1>2, <1>3, <1>4 DEF Picks, Speaks
<1> QED BY <1>2, <1>4, <1>5

\* Apart from lines that say nothing, x says from o on what y says.
Quotes(x, y, o) ==
    /\ o \in Nat /\ o + Len(y) <= Len(x)
    /\ \A k \in 1..o : ~Says(x[k])
    /\ \A k \in 1..Len(y) : /\ Says(x[o + k]) <=> Says(y[k])
                            /\ Says(y[k]) => x[o + k].text = y[k].text
    /\ \A k \in (o + Len(y) + 1)..Len(x) : ~Says(x[k])

LEMMA QuotesWords ==
    ASSUME NEW S, NEW R, NEW x \in Seq(S), NEW y \in Seq(R), NEW o, Quotes(x, y, o)
    PROVE  Words(x) = Words(y)
<1>1. PICK a : Speaks(x, a) /\ Words(x) = a[Len(x)]
  BY WordsIs
<1>2. PICK b : Speaks(y, b) /\ Words(y) = b[Len(y)]
  BY WordsIs
<1>3. o \in Nat /\ Len(x) \in Nat /\ Len(y) \in Nat /\ o + Len(y) <= Len(x)
  BY DEF Quotes
<1> DEFINE T == {k \in Nat : k <= o => a[k] = <<>>}
           U == {k \in Nat : k <= Len(y) => a[o + k] = b[k]}
           n == o + Len(y)
           W == {k \in Nat : n + k <= Len(x) => a[n + k] = b[Len(y)]}
<1>4. T = Nat
  <2>1. T \in SUBSET Nat OBVIOUS
  <2>2. 0 \in T BY <1>1 DEF Speaks
  <2>3. ASSUME NEW k \in Nat, k \in T PROVE k + 1 \in T
    <3>1. SUFFICES ASSUME k + 1 <= o PROVE a[k + 1] = <<>> OBVIOUS
    <3>2. k + 1 \in 1..Len(x) /\ k + 1 \in 1..o /\ k + 1 - 1 = k BY <1>3, <3>1
    <3>3. ~Says(x[k + 1]) BY <3>2 DEF Quotes
    <3>4. a[k] = <<>> BY <1>3, <2>3, <3>1
    <3> QED BY <1>1, <3>2, <3>3, <3>4 DEF Speaks
  <2> HIDE DEF T
  <2> QED BY <2>1, <2>2, <2>3, Induction
<1>5. a[o] = <<>>
  BY <1>3, <1>4
<1> HIDE DEF T
<1>6. U = Nat
  <2>1. U \in SUBSET Nat OBVIOUS
  <2>2. 0 \in U
    <3>1. a[o + 0] = b[0] BY <1>2, <1>3, <1>5 DEF Speaks
    <3> QED BY <3>1
  <2>3. ASSUME NEW k \in Nat, k \in U PROVE k + 1 \in U
    <3>1. SUFFICES ASSUME k + 1 <= Len(y) PROVE a[o + (k + 1)] = b[k + 1] OBVIOUS
    <3> DEFINE i == o + (k + 1)
    <3>2. k + 1 \in 1..Len(y) /\ k + 1 - 1 = k /\ i \in 1..Len(x) /\ i - 1 = o + k
      BY <1>3, <3>1
    <3>3. a[o + k] = b[k] BY <1>3, <2>3, <3>1
    <3>4. (Says(x[i]) <=> Says(y[k + 1])) /\ (Says(y[k + 1]) => x[i].text = y[k + 1].text)
      BY <3>2 DEF Quotes
    <3>5. b[k + 1] = IF Says(y[k + 1]) THEN Append(b[k], y[k + 1].text) ELSE b[k]
      BY <1>2, <3>2 DEF Speaks
    <3> HIDE DEF i
    <3>6. a[i] = IF Says(x[i]) THEN Append(a[i - 1], x[i].text) ELSE a[i - 1]
      BY <1>1, <3>2 DEF Speaks
    <3>7. a[i] = b[k + 1] BY <3>2, <3>3, <3>4, <3>5, <3>6
    <3> QED BY <3>7 DEF i
  <2> HIDE DEF U
  <2> QED BY <2>1, <2>2, <2>3, Induction
<1>7. n \in Nat /\ a[n] = b[Len(y)]
  BY <1>3, <1>6
<1> HIDE DEF U
<1>8. W = Nat
  <2>1. W \in SUBSET Nat OBVIOUS
  <2>2. 0 \in W
    <3>1. n + 0 = n BY <1>7
    <3> QED BY <1>7, <3>1
  <2>3. ASSUME NEW k \in Nat, k \in W PROVE k + 1 \in W
    <3>1. SUFFICES ASSUME n + (k + 1) <= Len(x) PROVE a[n + (k + 1)] = b[Len(y)] OBVIOUS
    <3> DEFINE i == n + (k + 1)
    <3>2. i \in 1..Len(x) /\ i - 1 = n + k /\ i \in (n + 1)..Len(x) BY <1>3, <1>7, <3>1
    <3>3. ~Says(x[i]) BY <3>2 DEF Quotes
    <3>4. a[n + k] = b[Len(y)] BY <1>3, <1>7, <2>3, <3>1
    <3> HIDE DEF i, n
    <3>5. a[i] = a[i - 1] BY <1>1, <3>2, <3>3 DEF Speaks
    <3>6. a[i] = b[Len(y)] BY <3>2, <3>4, <3>5
    <3> QED BY <3>6 DEF i
  <2> HIDE DEF W
  <2> QED BY <2>1, <2>2, <2>3, Induction
<1>9. Len(x) - n \in Nat /\ n + (Len(x) - n) = Len(x)
  BY <1>3
<1>10. a[Len(x)] = b[Len(y)]
  <2> HIDE DEF n
  <2>1. Len(x) - n \in W BY <1>8, <1>9
  <2> QED BY <1>3, <1>9, <2>1
<1> QED BY <1>1, <1>2, <1>10

\* One more line.
LEMMA WordsAppend ==
    ASSUME NEW S, NEW x \in Seq(S), NEW a \in S
    PROVE  Words(Append(x, a)) = IF Says(a) THEN Append(Words(x), a.text) ELSE Words(x)
<1> DEFINE y == Append(x, a)
           n == Len(x)
<1>1. y \in Seq(S) /\ Len(y) = n + 1 /\ y[n + 1] = a /\ \A k \in 1..n : y[k] = x[k]
  BY AppendProperties
<1> HIDE DEF y
<1>2. n \in Nat
  OBVIOUS
<1>3. PICK f : Speaks(x, f) /\ Words(x) = f[n]
  BY WordsIs
<1>4. PICK g : Speaks(y, g) /\ Words(y) = g[n + 1]
  BY <1>1, WordsIs
<1>5. \A k \in Nat : k <= n => f[k] = g[k]
  <2> DEFINE U == {k \in Nat : k <= n => f[k] = g[k]}
  <2>1. U \in SUBSET Nat /\ 0 \in U BY <1>3, <1>4 DEF Speaks
  <2>2. ASSUME NEW k \in Nat, k \in U PROVE k + 1 \in U
    <3>1. SUFFICES ASSUME k + 1 <= n PROVE f[k + 1] = g[k + 1] OBVIOUS
    <3>2. k + 1 \in 1..n /\ k + 1 \in 1..(n + 1) /\ k + 1 - 1 = k BY <3>1
    <3>3. f[k] = g[k] BY <1>2, <2>2, <3>1
    <3>4. y[k + 1] = x[k + 1] BY <1>1, <3>2
    <3>5. f[k + 1] = IF Says(x[k + 1]) THEN Append(f[k], x[k + 1].text) ELSE f[k]
      BY <1>3, <3>2 DEF Speaks
    <3>6. g[k + 1] = IF Says(y[k + 1]) THEN Append(g[k], y[k + 1].text) ELSE g[k]
      BY <1>1, <1>4, <3>2 DEF Speaks
    <3> QED BY <3>3, <3>4, <3>5, <3>6
  <2> HIDE DEF U
  <2>3. U = Nat BY <2>1, <2>2, Induction
  <2> QED BY <2>3 DEF U
<1>6. g[n + 1] = IF Says(a) THEN Append(g[n], a.text) ELSE g[n]
  <2> DEFINE m == n + 1
  <2>1. m \in 1..Len(y) /\ m - 1 = n BY <1>1, <1>2
  <2>2. y[m] = a BY <1>1
  <2> HIDE DEF m, n
  <2>3. g[m] = IF Says(y[m]) THEN Append(g[m - 1], y[m].text) ELSE g[m - 1]
    BY <1>4, <2>1 DEF Speaks
  <2>4. g[m] = IF Says(a) THEN Append(g[n], a.text) ELSE g[n] BY <2>1, <2>2, <2>3
  <2> QED BY <2>4 DEF m
<1>7. f[n] = g[n]
  BY <1>2, <1>5
<1> QED BY <1>3, <1>4, <1>6, <1>7 DEF y

-----------------------------------------------------------------------------
\* Another last member.
Ends(v, a, u) == v = Append(u, v[Len(v)]) /\ [v EXCEPT ![Len(v)] = a] = Append(u, a)

LEMMA LastIs ==
    ASSUME NEW S, NEW v \in Seq(S), Len(v) >= 1, NEW a \in S
    PROVE  \E u \in Seq(S) : Ends(v, a, u)
<1>1. v # <<>>
  OBVIOUS
<1>2. PICK u \in Seq(S), e \in S : v = Append(u, e)
  BY <1>1, SequenceEmptyOrAppend
<1> DEFINE n == Len(u) + 1
           w == [v EXCEPT ![n] = a]
           z == Append(u, a)
<1>3. /\ n \in Nat /\ Len(v) = n /\ v[n] = e
      /\ \A i \in 1..Len(u) : v[i] = u[i]
  BY <1>2, AppendProperties
<1>4. n \in 1..Len(v) /\ \A i \in 1..n : i = n \/ i \in 1..Len(u)
  BY <1>3
<1>5. \A i \in 1..Len(u) : i # n
  OBVIOUS
<1>6. /\ z \in Seq(S) /\ Len(z) = n /\ z[n] = a
      /\ \A i \in 1..Len(u) : z[i] = u[i]
  BY AppendProperties
<1> HIDE DEF n
<1>7. /\ w \in Seq(S) /\ Len(w) = n
      /\ \A j \in 1..n : w[j] = IF j = n THEN a ELSE v[j]
  BY <1>3, <1>4, ExceptSeq
<1> HIDE DEF w, z
<1>8. \A i \in 1..n : w[i] = z[i]
  BY <1>3, <1>4, <1>5, <1>6, <1>7
<1>9. w = z
  BY <1>6, <1>7, <1>8, SeqEqual
<1> QED BY <1>2, <1>3, <1>9 DEF w, z, Ends

\* The values that the parser can read: what is empty has no indent.
Parts == [indent : Nat, text : Texts]
IsValue(v) ==
    /\ v \in Seq(Parts) /\ Len(v) >= 1
    /\ \A i \in 1..Len(v) : v[i].text = Empty => v[i] = Nothing

\* An indented line adds its words to the value.
LEMMA ContinuedIs ==
    ASSUME NEW v, IsValue(v), NEW line \in Lines, line.indent > 0, line.text # Empty
    PROVE  /\ IsValue(Continued(v, line))
           /\ Words(Continued(v, line))
                = IF Says(line) THEN Append(Words(v), line.text) ELSE Words(v)
<1> DEFINE part == Part(line.indent - 1, line.text)
           n == Len(v)
<1>1. /\ v \in Seq(Parts) /\ n \in Nat /\ n >= 1 /\ n \in 1..n
      /\ \A i \in 1..n : v[i].text = Empty => v[i] = Nothing
  BY DEF IsValue
<1>2. line.indent \in Nat /\ line.text \in Texts
  BY DEF Lines
<1>3. part \in Parts /\ part.text = line.text /\ (Says(part) <=> Says(line))
  BY <1>2 DEF Part, Parts, Says
<1>4. Nothing \in Parts /\ Nothing.text = Empty /\ ~Says(Nothing)
  BY TextsAssumption DEF Nothing, Part, Parts, Says
<1> HIDE DEF part, n
<1>5. ASSUME NEW a \in Parts, a.text = Empty => a = Nothing
      PROVE  IsValue(Append(v, a))
  <2> DEFINE y == Append(v, a)
  <2>1. /\ y \in Seq(Parts) /\ Len(y) = n + 1 /\ y[n + 1] = a
        /\ \A i \in 1..n : y[i] = v[i]
    BY <1>1, AppendProperties DEF n
  <2>2. \A i \in 1..(n + 1) : i \in 1..n \/ i = n + 1 BY <1>1
  <2>3. n + 1 >= 1 BY <1>1
  <2> HIDE DEF y
  <2>4. \A i \in 1..Len(y) : y[i].text = Empty => y[i] = Nothing
    BY <1>1, <1>5, <2>1, <2>2
  <2>5. IsValue(y) BY <2>1, <2>3, <2>4 DEF IsValue
  <2> QED BY <2>5 DEF y
<1>6. CASE line.indent = 1 /\ line.text = Dot
  <2>1. Continued(v, line) = Append(v, Nothing) BY <1>6 DEF Continued
  <2>2. ~Says(line) BY <1>6 DEF Says
  <2> QED BY <1>1, <1>4, <1>5, <2>1, <2>2, WordsAppend
<1>7. CASE ~(line.indent = 1 /\ line.text = Dot) /\ v[n] # Nothing
  <2>1. Continued(v, line) = Append(v, part) BY <1>7 DEF Continued, part, n
  <2>2. part.text # Empty BY <1>3
  <2>3. Words(Append(v, part)) = IF Says(part) THEN Append(Words(v), part.text) ELSE Words(v)
    BY <1>1, <1>3, WordsAppend
  <2> QED BY <1>3, <1>5, <2>1, <2>2, <2>3
<1>8. CASE ~(line.indent = 1 /\ line.text = Dot) /\ v[n] = Nothing
  <2> DEFINE y == [v EXCEPT ![n] = part]
  <2>1. Continued(v, line) = y BY <1>8 DEF Continued, part, n
  <2>2. PICK u \in Seq(Parts) : v = Append(u, v[n]) /\ y = Append(u, part)
    <3>1. v \in Seq(Parts) /\ Len(v) >= 1 BY <1>1 DEF n
    <3>2. \E u \in Seq(Parts) : Ends(v, part, u) BY <1>3, <3>1, LastIs
    <3> QED BY <3>2 DEF n, Ends
  <2>3. v = Append(u, Nothing) BY <1>8, <2>2
  <2>4. Words(v) = Words(u) BY <1>4, <2>3, WordsAppend
  <2>5. Words(y) = IF Says(part) THEN Append(Words(u), part.text) ELSE Words(u)
    <3>1. Words(Append(u, part)) = IF Says(part) THEN Append(Words(u), part.text) ELSE Words(u)
      BY <1>3, WordsAppend
    <3> HIDE DEF y
    <3> QED BY <2>2, <3>1
  <2>6. /\ y \in Seq(Parts) /\ Len(y) = n
        /\ \A j \in 1..n : y[j] = IF j = n THEN part ELSE v[j]
    BY <1>1, <1>3, ExceptSeq DEF n
  <2> HIDE DEF y
  <2>7. \A j \in 1..n : y[j].text = Empty => y[j] = Nothing BY <1>1, <1>3, <2>6
  <2>8. IsValue(y) BY <1>1, <2>6, <2>7 DEF IsValue
  <2> QED BY <1>3, <2>1, <2>4, <2>5, <2>8
<1> QED BY <1>6, <1>7, <1>8

\* Empty lines at the end of a value say nothing.
LEMMA TrimmedIs ==
    ASSUME NEW v, IsValue(v)
    PROVE  IsValue(Trimmed(v)) /\ Words(Trimmed(v)) = Words(v)
<1> DEFINE T == {1} \cup {n \in 1..Len(v) : v[n] # Nothing}
           m == Max(T)
           y == SubSeq(v, 1, m)
<1>1. /\ v \in Seq(Parts) /\ Len(v) \in Nat /\ Len(v) >= 1
      /\ \A i \in 1..Len(v) : v[i].text = Empty => v[i] = Nothing
  BY DEF IsValue
<1>2. T \in SUBSET (0..Len(v)) /\ T # {} /\ T \in SUBSET (1..Len(v))
  BY <1>1
<1>3. m \in T /\ \A k \in T : k <= m
  BY <1>1, <1>2, MaxIs
<1>4. m \in 1..Len(v) /\ \A k \in 1..Len(v) : v[k] # Nothing => k <= m
  BY <1>2, <1>3
<1>5. Trimmed(v) = y
  BY DEF Trimmed
<1> HIDE DEF T, m
<1>6. /\ y \in Seq(Parts) /\ Len(y) = m
      /\ \A i \in 1..m : y[i] = v[i]
  <2>1. \A i \in 1..m : v[i] \in Parts BY <1>1, <1>4
  <2>2. 1 \in Int /\ m \in Int /\ m - 1 + 1 = m /\ 1 <= m /\ \A i \in 1..m : 1 + i - 1 = i
    BY <1>4
  <2>3. /\ y \in Seq(Parts) /\ Len(y) = IF 1 <= m THEN m - 1 + 1 ELSE 0
        /\ \A i \in 1..(m - 1 + 1) : y[i] = v[1 + i - 1]
    BY <2>1, <2>2, SubSeqProperties
  <2> HIDE DEF y
  <2> QED BY <2>2, <2>3
<1> HIDE DEF y
<1>7. IsValue(y)
  BY <1>1, <1>4, <1>6 DEF IsValue
<1>8. Quotes(v, y, 0)
  <2>1. \A k \in (0 + m + 1)..Len(v) : ~Says(v[k])
    <3>1. SUFFICES ASSUME NEW k \in (0 + m + 1)..Len(v) PROVE ~Says(v[k]) OBVIOUS
    <3>2. k \in 1..Len(v) /\ ~(k <= m) BY <1>4
    <3>3. v[k] = Nothing BY <1>4, <3>2
    <3> QED BY <3>3 DEF Nothing, Part, Says
  <2>2. \A k \in 1..m : 0 + k = k /\ v[0 + k] = y[k] BY <1>4, <1>6
  <2>3. 0 \in Nat /\ 0 + m <= Len(v) /\ 1..0 = {} BY <1>4
  <2> QED BY <1>6, <2>1, <2>2, <2>3 DEF Quotes
<1>9. Words(v) = Words(y)
  BY <1>1, <1>6, <1>8, QuotesWords
<1> QED BY <1>5, <1>7, <1>9

-----------------------------------------------------------------------------
\* The states of the parser: between stanzas, and the paragraph whose fields it has read.
Resting(ps) == Reading(ps, <<>>, NoKey, NoHead, <<>>)
InPackage(ps, d) == Reading(ps, <<>>, "Package", d, <<Nothing>>)
PackageField(d) == [head |-> d, value |-> Trimmed(<<Nothing>>)]
InDescription(ps, d, v) ==
    Reading(ps, [k \in {"Package"} |-> PackageField(d)], "Description", NoHead, v)
Whole(d, v) ==
    [k \in {"Package", "Description"} |->
        IF k = "Description" THEN [head |-> NoHead, value |-> Trimmed(v)] ELSE PackageField(d)]

LEMMA Literals ==
    /\ NoKey # "Package" /\ NoKey # "Description" /\ "Package" # "Description"
    /\ Empty # Dot /\ Empty # Comment /\ Dot # Comment
BY DEF NoKey, Empty, Dot, Comment

LEMMA FlushResting == ASSUME NEW ps PROVE Flush(Resting(ps)) = Resting(ps)
BY DEF Flush, Resting, Reading

LEMMA ReadSilent ==
    ASSUME NEW ps, NEW line, IsBlank(line) \/ IsComment(line)
    PROVE  ParseLine(Resting(ps), line) = Resting(ps)
<1>1. EndParagraph(Resting(ps)) = Resting(ps)
  BY DEF EndParagraph, Resting, Reading
<1> QED BY <1>1, FlushResting, Literals DEF ParseLine, IsBlank, IsComment

LEMMA ReadPackage ==
    ASSUME NEW ps, NEW d
    PROVE  ParseLine(Resting(ps), FieldLine("Package", d, Empty)) = InPackage(ps, d)
BY FlushResting, Literals DEF ParseLine, FieldLine, InPackage, Resting, Reading, Nothing

LEMMA ReadDescription ==
    ASSUME NEW ps, NEW d, NEW t
    PROVE  ParseLine(InPackage(ps, d), FieldLine("Description", NoHead, t))
             = InDescription(ps, d, <<Part(0, t)>>)
<1> DEFINE c == [k \in DOMAIN <<>> \cup {"Package"} |->
                    IF k = "Package" THEN PackageField(d) ELSE <<>>[k]]
<1>1. Flush(InPackage(ps, d)) = Reading(ps, c, NoKey, NoHead, <<>>)
  BY Literals DEF Flush, InPackage, Reading, PackageField
<1>2. c = [k \in {"Package"} |-> PackageField(d)]
  OBVIOUS
<1> HIDE DEF c
<1>3. ParseLine(InPackage(ps, d), FieldLine("Description", NoHead, t))
        = Reading(ps, c, "Description", NoHead, <<Part(0, t)>>)
  BY <1>1, Literals DEF ParseLine, FieldLine, Reading
<1> QED BY <1>2, <1>3 DEF InDescription

LEMMA ReadMore ==
    ASSUME NEW ps, NEW d, NEW v, IsValue(v), NEW line \in Lines, line.key = NoKey,
           line.indent > 0, line.text # Empty
    PROVE  \E u : /\ IsValue(u)
                  /\ Words(u) = IF Says(line) THEN Append(Words(v), line.text) ELSE Words(v)
                  /\ ParseLine(InDescription(ps, d, v), line) = InDescription(ps, d, u)
<1>1. CASE line.text = Comment
  <2>1. ParseLine(InDescription(ps, d, v), line) = InDescription(ps, d, v)
    BY <1>1 DEF ParseLine
  <2>2. ~Says(line) BY <1>1 DEF Says
  <2> QED BY <2>1, <2>2
<1>2. CASE line.text # Comment
  <2> DEFINE u == Continued(v, line)
  <2>1. ParseLine(InDescription(ps, d, v), line) = InDescription(ps, d, u)
    <3> DEFINE c == [k \in {"Package"} |-> PackageField(d)]
    <3> HIDE DEF c, u
    <3> QED BY <1>2, Literals DEF ParseLine, InDescription, Reading, c, u
  <2> HIDE DEF u
  <2>2. /\ IsValue(u)
        /\ Words(u) = IF Says(line) THEN Append(Words(v), line.text) ELSE Words(v)
    BY ContinuedIs DEF u
  <2> QED BY <2>1, <2>2
<1> QED BY <1>1, <1>2

LEMMA ReadEnd ==
    ASSUME NEW ps, NEW d, NEW v
    PROVE  /\ EndParagraph(Flush(InDescription(ps, d, v))) = Resting(Append(ps, Whole(d, v)))
           /\ ParseLine(InDescription(ps, d, v), Blank) = Resting(Append(ps, Whole(d, v)))
           /\ ParagraphToStanza(Whole(d, v)) = [head |-> d, description |-> Trimmed(v)]
<1> DEFINE b == [k \in {"Package"} |-> PackageField(d)]
           field == [head |-> NoHead, value |-> Trimmed(v)]
           c == [k \in DOMAIN b \cup {"Description"} |-> IF k = "Description" THEN field ELSE b[k]]
<1>1. c = Whole(d, v) /\ DOMAIN c # {}
  BY Literals DEF Whole
<1>2. Flush(InDescription(ps, d, v)) = Reading(ps, c, NoKey, NoHead, <<>>)
  <2> HIDE DEF b
  <2>1. InDescription(ps, d, v) = Reading(ps, b, "Description", NoHead, v)
    BY DEF InDescription, b
  <2>2. Flush(Reading(ps, b, "Description", NoHead, v)) = Reading(ps, c, NoKey, NoHead, <<>>)
    BY Literals DEF Flush, Reading
  <2> QED BY <2>1, <2>2
<1> HIDE DEF c
<1>3. EndParagraph(Reading(ps, c, NoKey, NoHead, <<>>)) = Resting(Append(ps, c))
  BY <1>1 DEF EndParagraph, Reading, Resting
<1>4. ParseLine(InDescription(ps, d, v), Blank) = EndParagraph(Flush(InDescription(ps, d, v)))
  BY Literals DEF ParseLine, Blank, Continuation
<1>5. ParagraphToStanza(Whole(d, v)) = [head |-> d, description |-> Trimmed(v)]
  BY Literals DEF ParagraphToStanza, Whole, PackageField
<1> QED BY <1>1, <1>2, <1>3, <1>4, <1>5

-----------------------------------------------------------------------------
\* The lines e are those of the file from o on.
Placed(lines, e, o) ==
    /\ o \in Nat /\ o + Len(e) <= Len(lines)
    /\ \A k \in 1..Len(e) : lines[o + k] = e[k]

\* The head of e is at n.
HeadAt(e, d, n) ==
    /\ n \in 1..(Len(e) - 1)
    /\ \A i \in 1..(n - 1) : IsBlank(e[i]) \/ IsComment(e[i])
    /\ e[n] = FieldLine("Package", d, Empty)
    /\ e[n + 1] = FieldLine("Description", NoHead, e[n + 1].text)
    /\ \A i \in (n + 2)..Len(e) : e[i].key = NoKey /\ e[i].indent > 0 /\ e[i].text # Empty

LEMMA Silent ==
    /\ \A line : IsBlank(line) \/ IsComment(line) => ~Says(line)
    /\ \A d : ~Says(FieldLine("Package", d, Empty))
    /\ ~Says(Blank)
BY DEF IsBlank, IsComment, Says, FieldLine, Blank, Continuation

\* Up to its head a stanza says nothing.
LEMMA BeforeHead ==
    ASSUME NEW e \in Seq(Lines), NEW d, NEW n, HeadAt(e, d, n), NEW w, Speaks(e, w)
    PROVE  \A k \in 0..n : w[k] = <<>>
<1> DEFINE T == {k \in Nat : k <= n => w[k] = <<>>}
<1>1. n \in Nat /\ n <= Len(e) /\ Len(e) \in Nat
  BY DEF HeadAt
<1>2. T \in SUBSET Nat /\ 0 \in T
  BY DEF Speaks
<1>3. ASSUME NEW k \in Nat, k \in T PROVE k + 1 \in T
  <2>1. SUFFICES ASSUME k + 1 <= n PROVE w[k + 1] = <<>> OBVIOUS
  <2>2. k + 1 \in 1..Len(e) /\ k + 1 - 1 = k BY <1>1, <2>1
  <2>3. w[k] = <<>> BY <1>1, <1>3, <2>1
  <2>4. ~Says(e[k + 1])
    <3>1. CASE k + 1 = n BY <3>1, Silent DEF HeadAt
    <3>2. CASE k + 1 # n
      <4>1. k + 1 \in 1..(n - 1) BY <1>1, <2>1, <3>2
      <4> QED BY <4>1, Silent DEF HeadAt
    <3> QED BY <3>1, <3>2
  <2> QED BY <2>2, <2>3, <2>4 DEF Speaks
<1> HIDE DEF T
<1>4. T = Nat
  BY <1>2, <1>3, Induction
<1> QED BY <1>1, <1>4 DEF T

\* A stanza that is read has the words of its lines.
LEMMA StanzaRead ==
    ASSUME NEW lines \in Seq(Lines), NEW e \in Seq(Lines), NEW d, IsStanza(e, d),
           NEW o, Placed(lines, e, o), NEW r, Reads(lines, r), NEW ps, r[o] = Resting(ps)
    PROVE  \E v : IsValue(v) /\ Words(v) = Words(e) /\ r[o + Len(e)] = InDescription(ps, d, v)
<1>1. PICK n : HeadAt(e, d, n)
  BY DEF IsStanza, HeadAt
<1>2. PICK w : Speaks(e, w) /\ Words(e) = w[Len(e)]
  BY WordsIs
<1>3. /\ n \in Nat /\ n >= 1 /\ n + 1 <= Len(e) /\ Len(e) \in Nat
      /\ o \in Nat /\ o + Len(e) <= Len(lines) /\ Len(lines) \in Nat
  BY <1>1 DEF HeadAt, Placed
<1>4. ASSUME NEW k \in 1..Len(e) PROVE r[o + k] = ParseLine(r[o + (k - 1)], e[k])
  <2> DEFINE i == o + k
  <2>1. i \in 1..Len(lines) /\ i - 1 = o + (k - 1) BY <1>3
  <2>2. lines[i] = e[k] BY DEF Placed
  <2> HIDE DEF i
  <2>3. r[i] = ParseLine(r[i - 1], lines[i]) BY <2>1 DEF Reads
  <2>4. r[i] = ParseLine(r[o + (k - 1)], e[k]) BY <2>1, <2>2, <2>3
  <2> QED BY <2>4 DEF i
<1> DEFINE T == {k \in Nat : k <= n - 1 => r[o + k] = Resting(ps)}
<1>5. T = Nat
  <2>1. T \in SUBSET Nat /\ 0 \in T BY <1>3
  <2>2. ASSUME NEW k \in Nat, k \in T PROVE k + 1 \in T
    <3>1. SUFFICES ASSUME k + 1 <= n - 1 PROVE r[o + (k + 1)] = Resting(ps) OBVIOUS
    <3>2. k + 1 \in 1..Len(e) /\ k + 1 - 1 = k /\ k + 1 \in 1..(n - 1) BY <1>3, <3>1
    <3>3. r[o + k] = Resting(ps) BY <1>3, <2>2, <3>1
    <3>4. IsBlank(e[k + 1]) \/ IsComment(e[k + 1]) BY <1>1, <3>2 DEF HeadAt
    <3>5. r[o + (k + 1)] = ParseLine(r[o + k], e[k + 1]) BY <1>4, <3>2
    <3> QED BY <3>3, <3>4, <3>5, ReadSilent
  <2> HIDE DEF T
  <2> QED BY <2>1, <2>2, Induction
<1>6. r[o + (n - 1)] = Resting(ps)
  <2> DEFINE k == n - 1
  <2>1. k \in Nat /\ k <= n - 1 BY <1>3
  <2> HIDE DEF k
  <2>2. k \in T BY <1>5, <2>1
  <2>3. r[o + k] = Resting(ps) BY <2>1, <2>2
  <2> QED BY <2>3 DEF k
<1> HIDE DEF T
<1>7. r[o + n] = InPackage(ps, d)
  <2>1. n \in 1..Len(e) BY <1>3
  <2>2. e[n] = FieldLine("Package", d, Empty) BY <1>1 DEF HeadAt
  <2> QED BY <1>4, <1>6, <2>1, <2>2, ReadPackage
<1> DEFINE Told(k, v) == IsValue(v) /\ Words(v) = w[k] /\ r[o + k] = InDescription(ps, d, v)
           U == {k \in Nat : n + 1 + k <= Len(e) => \E v : Told(n + 1 + k, v)}
<1>8. U = Nat
  <2>1. U \in SUBSET Nat OBVIOUS
  <2>2. 0 \in U
    <3> DEFINE m == n + 1
               t == e[m].text
               p == Part(0, t)
               v == <<p>>
    <3>1. m \in 1..Len(e) /\ m - 1 = n /\ m + 0 = m BY <1>3
    <3>2. e[m] = FieldLine("Description", NoHead, t) BY <1>1 DEF HeadAt
    <3>3. r[o + m] = InDescription(ps, d, v)
      <4> HIDE DEF m, v
      <4>1. r[o + m] = ParseLine(r[o + n], e[m]) BY <1>4, <3>1
      <4> QED BY <1>7, <3>2, <4>1, ReadDescription DEF v
    <3>4. e[m] \in Lines BY <3>1
    <3> HIDE DEF m
    <3>5. t \in Texts BY <3>4 DEF Lines
    <3>6. p \in Parts /\ p.text = t /\ (t = Empty => p = Nothing) BY <3>5 DEF Part, Parts, Nothing
    <3>7. Says(p) <=> Says(e[m]) BY <3>6 DEF Says
    <3> HIDE DEF t, p
    <3>8. IsValue(v) BY <3>6 DEF IsValue
    <3>9. Words(v) = IF Says(p) THEN Append(<<>>, p.text) ELSE <<>>
      <4>1. PICK a : Speaks(v, a) /\ Words(v) = a[Len(v)]
        <5>1. v \in Seq(Parts) BY <3>6
        <5> QED BY <5>1, WordsIs
      <4>2. Len(v) = 1 /\ v[1] = p /\ 1 \in 1..1 /\ 1 - 1 = 0 OBVIOUS
      <4> HIDE DEF v
      <4> QED BY <4>1, <4>2 DEF Speaks
    <3>10. w[n] = <<>>
      <4>1. n \in 0..n BY <1>3
      <4> QED BY <1>1, <1>2, <4>1, BeforeHead
    <3>11. w[m] = IF Says(e[m]) THEN Append(<<>>, e[m].text) ELSE <<>>
      BY <1>2, <3>1, <3>10 DEF Speaks
    <3>12. Words(v) = w[m] BY <3>6, <3>7, <3>9, <3>11 DEF t
    <3> HIDE DEF v
    <3>13. \E v2 : Told(m + 0, v2) BY <3>1, <3>3, <3>8, <3>12
    <3> QED BY <3>13 DEF m
  <2>3. ASSUME NEW k \in Nat, k \in U PROVE k + 1 \in U
    <3> DEFINE m == n + 1 + k
               i == n + 1 + (k + 1)
    <3>1. SUFFICES ASSUME i <= Len(e) PROVE \E v : Told(i, v) OBVIOUS
    <3>2. i \in 1..Len(e) /\ i - 1 = m /\ i \in (n + 2)..Len(e) /\ m <= Len(e) BY <1>3, <3>1
    <3>3. \E v : Told(m, v) BY <2>3, <3>2
    <3> HIDE DEF m, i
    <3>4. PICK v : Told(m, v) BY <3>3
    <3>5. e[i] \in Lines /\ e[i].key = NoKey /\ e[i].indent > 0 /\ e[i].text # Empty
      BY <1>1, <3>2 DEF HeadAt
    <3>6. r[o + i] = ParseLine(InDescription(ps, d, v), e[i]) BY <1>4, <3>2, <3>4
    <3>7. PICK u : /\ IsValue(u)
                   /\ Words(u) = IF Says(e[i]) THEN Append(Words(v), e[i].text) ELSE Words(v)
                   /\ ParseLine(InDescription(ps, d, v), e[i]) = InDescription(ps, d, u)
      BY <3>4, <3>5, ReadMore
    <3>8. w[i] = IF Says(e[i]) THEN Append(w[m], e[i].text) ELSE w[m]
      BY <1>2, <3>2 DEF Speaks
    <3>9. Told(i, u) BY <3>4, <3>6, <3>7, <3>8
    <3> QED BY <3>9
  <2> HIDE DEF U
  <2> QED BY <2>1, <2>2, <2>3, Induction
<1>9. \E v : Told(Len(e), v)
  <2> DEFINE k == Len(e) - (n + 1)
  <2>1. k \in Nat /\ n + 1 + k = Len(e) BY <1>3
  <2>2. n + 1 + k <= Len(e) BY <1>3, <2>1
  <2> HIDE DEF k
  <2>3. k \in U BY <1>8, <2>1
  <2>4. \E v : Told(n + 1 + k, v) BY <2>2, <2>3
  <2> HIDE DEF Told
  <2> QED BY <2>1, <2>4
<1> QED BY <1>2, <1>9

-----------------------------------------------------------------------------
Between(entries) == [entries |-> entries, within |-> FALSE]
Within(entries) == [entries |-> entries, within |-> TRUE]
Entry(d, words) == [head |-> d, words |-> words]

\* A reader sees the head of a stanza and adds the words of its other lines.
LEMMA ShowSilent ==
    ASSUME NEW es, NEW line, IsBlank(line) \/ IsComment(line)
    PROVE  Show(Between(es), line) = Between(es)
BY Literals DEF Show, Between, Within, IsBlank, IsComment

LEMMA ShowPackage ==
    ASSUME NEW es, NEW d
    PROVE  Show(Between(es), FieldLine("Package", d, Empty))
             = Within(Append(es, Entry(d, <<>>)))
BY DEF Show, Between, Within, FieldLine, Entry

LEMMA ShowMore ==
    ASSUME NEW S, NEW es \in Seq(S), NEW d, NEW words, NEW line, line.key # "Package",
           ~IsBlank(line)
    PROVE  Show(Within(Append(es, Entry(d, words))), line)
             = Within(Append(es, Entry(d, IF Says(line) THEN Append(words, line.text) ELSE words)))
<1> DEFINE x == Entry(d, words)
           y == Entry(d, Append(words, line.text))
           z == Append(es, x)
           R == S \cup {x, y}
<1>1. es \in Seq(R)
  BY SeqMonotonic
<1>2. x \in R /\ y \in R
  OBVIOUS
<1>3. /\ z \in Seq(R) /\ Len(z) = Len(es) + 1 /\ z[Len(z)] = x /\ Len(z) >= 1
  <2> HIDE DEF x, y, R
  <2> QED BY <1>1, <1>2, AppendProperties
<1> HIDE DEF z, R
<1>4. [z EXCEPT ![Len(z)] = y] = Append(es, y)
  <2> HIDE DEF x, y
  <2>1. PICK u \in Seq(R) : Ends(z, y, u) BY <1>2, <1>3, LastIs
  <2>2. z = Append(u, x) /\ [z EXCEPT ![Len(z)] = y] = Append(u, y) BY <1>3, <2>1 DEF Ends
  <2>3. u = es BY <1>1, <1>2, <2>2, AppendInjective DEF z
  <2> QED BY <2>2, <2>3
<1>5. CASE Says(line)
  <2>1. [head |-> z[Len(z)].head, words |-> Append(z[Len(z)].words, line.text)] = y
    BY <1>3 DEF Entry
  <2>2. Show(Within(z), line)
          = Within([z EXCEPT ![Len(z)] = [head |-> @.head, words |-> Append(@.words, line.text)]])
    BY <1>5 DEF Show, Between, Within
  <2>3. [z EXCEPT ![Len(z)] = [head |-> @.head, words |-> Append(@.words, line.text)]]
          = [z EXCEPT ![Len(z)] = y]
    <3> HIDE DEF y
    <3> QED BY <2>1
  <2> QED BY <1>4, <1>5, <2>2, <2>3 DEF z
<1>6. CASE ~Says(line)
  BY <1>6 DEF Show, Between, Within, z
<1> QED BY <1>5, <1>6

LEMMA StanzaSeen ==
    ASSUME NEW lines \in Seq(Lines), NEW e \in Seq(Lines), NEW d, IsStanza(e, d),
           NEW o, Placed(lines, e, o), NEW s, Sees(lines, s),
           NEW S, NEW es \in Seq(S), s[o] = Between(es)
    PROVE  s[o + Len(e)] = Within(Append(es, Entry(d, Words(e))))
<1>1. PICK n : HeadAt(e, d, n)
  BY DEF IsStanza, HeadAt
<1>2. PICK w : Speaks(e, w) /\ Words(e) = w[Len(e)]
  BY WordsIs
<1>3. /\ n \in Nat /\ n >= 1 /\ n + 1 <= Len(e) /\ Len(e) \in Nat
      /\ o \in Nat /\ o + Len(e) <= Len(lines) /\ Len(lines) \in Nat
  BY <1>1 DEF HeadAt, Placed
<1>4. ASSUME NEW k \in 1..Len(e) PROVE s[o + k] = Show(s[o + (k - 1)], e[k])
  <2> DEFINE i == o + k
  <2>1. i \in 1..Len(lines) /\ i - 1 = o + (k - 1) BY <1>3
  <2>2. lines[i] = e[k] BY DEF Placed
  <2> HIDE DEF i
  <2>3. s[i] = Show(s[i - 1], lines[i]) BY <2>1 DEF Sees
  <2>4. s[i] = Show(s[o + (k - 1)], e[k]) BY <2>1, <2>2, <2>3
  <2> QED BY <2>4 DEF i
<1> DEFINE T == {k \in Nat : k <= n - 1 => s[o + k] = Between(es)}
<1>5. T = Nat
  <2>1. T \in SUBSET Nat /\ 0 \in T BY <1>3
  <2>2. ASSUME NEW k \in Nat, k \in T PROVE k + 1 \in T
    <3>1. SUFFICES ASSUME k + 1 <= n - 1 PROVE s[o + (k + 1)] = Between(es) OBVIOUS
    <3>2. k + 1 \in 1..Len(e) /\ k + 1 - 1 = k /\ k + 1 \in 1..(n - 1) BY <1>3, <3>1
    <3>3. s[o + k] = Between(es) BY <1>3, <2>2, <3>1
    <3>4. IsBlank(e[k + 1]) \/ IsComment(e[k + 1]) BY <1>1, <3>2 DEF HeadAt
    <3>5. s[o + (k + 1)] = Show(s[o + k], e[k + 1]) BY <1>4, <3>2
    <3> QED BY <3>3, <3>4, <3>5, ShowSilent
  <2> HIDE DEF T
  <2> QED BY <2>1, <2>2, Induction
<1>6. s[o + (n - 1)] = Between(es)
  <2> DEFINE k == n - 1
  <2>1. k \in Nat /\ k <= n - 1 BY <1>3
  <2> HIDE DEF k
  <2>2. k \in T BY <1>5, <2>1
  <2>3. s[o + k] = Between(es) BY <2>1, <2>2
  <2> QED BY <2>3 DEF k
<1> HIDE DEF T
<1>7. s[o + n] = Within(Append(es, Entry(d, w[n])))
  <2>1. n \in 1..Len(e) /\ n \in 0..n BY <1>3
  <2>2. e[n] = FieldLine("Package", d, Empty) BY <1>1 DEF HeadAt
  <2>3. w[n] = <<>> BY <1>1, <1>2, <2>1, BeforeHead
  <2> QED BY <1>4, <1>6, <2>1, <2>2, <2>3, ShowPackage
<1> DEFINE Told(k) == s[o + k] = Within(Append(es, Entry(d, w[k])))
           U == {k \in Nat : n + k <= Len(e) => Told(n + k)}
<1>8. U = Nat
  <2>1. U \in SUBSET Nat OBVIOUS
  <2>2. 0 \in U
    <3>1. n + 0 = n BY <1>3
    <3> QED BY <1>7, <3>1
  <2>3. ASSUME NEW k \in Nat, k \in U PROVE k + 1 \in U
    <3> DEFINE m == n + k
               i == n + (k + 1)
    <3>1. SUFFICES ASSUME i <= Len(e) PROVE Told(i) OBVIOUS
    <3>2. i \in 1..Len(e) /\ i - 1 = m /\ (i = n + 1 \/ i \in (n + 2)..Len(e)) /\ m <= Len(e)
      BY <1>3, <3>1
    <3>3. Told(m) BY <2>3, <3>2
    <3>4. e[i].key # "Package" /\ ~IsBlank(e[i])
      <4>1. CASE i = n + 1
        <5> DEFINE l == e[i].text
        <5>1. e[i] = FieldLine("Description", NoHead, l) BY <1>1, <4>1 DEF HeadAt
        <5> HIDE DEF i, l
        <5> QED BY <5>1, Literals DEF FieldLine, IsBlank
      <4>2. CASE i \in (n + 2)..Len(e)
        <5> HIDE DEF i
        <5>1. e[i].key = NoKey /\ e[i].text # Empty BY <1>1, <4>2 DEF HeadAt
        <5> QED BY <5>1, Literals DEF IsBlank
      <4> HIDE DEF i
      <4> QED BY <3>2, <4>1, <4>2
    <3> HIDE DEF m, i
    <3>6. s[o + i] = Show(s[o + m], e[i]) BY <1>4, <3>2
    <3>7. w[i] = IF Says(e[i]) THEN Append(w[m], e[i].text) ELSE w[m]
      BY <1>2, <3>2 DEF Speaks
    <3>8. Show(Within(Append(es, Entry(d, w[m]))), e[i])
            = Within(Append(es, Entry(d, IF Says(e[i]) THEN Append(w[m], e[i].text) ELSE w[m])))
      BY <3>4, ShowMore
    <3> QED BY <3>3, <3>6, <3>7, <3>8
  <2> HIDE DEF U
  <2> QED BY <2>1, <2>2, <2>3, Induction
<1>9. Told(Len(e))
  <2> DEFINE k == Len(e) - n
  <2>1. k \in Nat /\ n + k = Len(e) BY <1>3
  <2>2. n + k <= Len(e) BY <1>3, <2>1
  <2> HIDE DEF k
  <2>3. k \in U BY <1>8, <2>1
  <2>4. Told(n + k) BY <2>2, <2>3
  <2> HIDE DEF Told
  <2> QED BY <2>1, <2>4
<1> QED BY <1>2, <1>9

-----------------------------------------------------------------------------
LEMMA AppendIs ==
    ASSUME NEW k \in Nat, NEW f, NEW a
    PROVE  Append([n \in 1..k |-> f[n]], a) = [n \in 1..(k + 1) |-> IF n = k + 1 THEN a ELSE f[n]]
<1> DEFINE S == {f[n] : n \in 1..k} \cup {a}
           x == [n \in 1..k |-> f[n]]
           y == [n \in 1..(k + 1) |-> IF n = k + 1 THEN a ELSE f[n]]
           z == Append(x, a)
<1>1. x \in Seq(S) /\ Len(x) = k /\ a \in S /\ \A n \in 1..k : x[n] = f[n]
  OBVIOUS
<1>2. \A n \in 1..(k + 1) : n = k + 1 \/ n \in 1..k
  OBVIOUS
<1>3. /\ y \in [1..(k + 1) -> S] /\ y[k + 1] = a
      /\ \A n \in 1..k : y[n] = f[n]
  BY <1>1
<1>4. y \in Seq(S) /\ Len(y) = k + 1
  <2>1. k + 1 \in Nat OBVIOUS
  <2> HIDE DEF y, S
  <2> QED BY <1>3, <2>1
<1>5. z \in Seq(S) /\ Len(z) = k + 1 /\ z[k + 1] = a /\ \A n \in 1..k : z[n] = x[n]
  <2> HIDE DEF x, S
  <2> QED BY <1>1, AppendProperties
<1> HIDE DEF x, y, z, S
<1>6. \A n \in 1..(k + 1) : z[n] = y[n]
  BY <1>1, <1>2, <1>3, <1>5
<1>7. z = y
  BY <1>4, <1>5, <1>6, SeqEqual
<1> QED BY <1>7 DEF x, y, z

\* What the parser and a reader make of a file with the first k stanzas.
Paragraphs(heads, vs, k) == [n \in 1..k |-> Whole(heads[n], vs[n])]
Entries(stanzas, heads, k) == [n \in 1..k |-> Entry(heads[n], Words(stanzas[n]))]
Values822(stanzas, vs, k) ==
    \A n \in 1..k : IsValue(vs[n]) /\ Words(vs[n]) = Words(stanzas[n])

Tells(text, stanzas, heads, k) ==
    /\ text \in Seq(Lines)
    /\ \A r : Reads(text, r) =>
          \E vs : Values822(stanzas, vs, k) /\ r[Len(text)] = Resting(Paragraphs(heads, vs, k))
    /\ \A s : Sees(text, s) => s[Len(text)] = Between(Entries(stanzas, heads, k))

\* One more stanza.
LEMMA TellsMore ==
    ASSUME NEW text, NEW stanzas, NEW heads, NEW k \in Nat, Tells(text, stanzas, heads, k),
           NEW e \in Seq(Lines), e = stanzas[k + 1], NEW d, d = heads[k + 1], IsStanza(e, d)
    PROVE  Tells(text \o Append(e, Blank), stanzas, heads, k + 1)
<1> DEFINE x == Append(e, Blank)
           y == text \o x
           o == Len(text)
           m == Len(e)
<1>1. text \in Seq(Lines) /\ o \in Nat /\ m \in Nat
  BY DEF Tells
<1>2. Blank \in Lines
  <2>1. Blank = [key |-> NoKey, head |-> NoHead, indent |-> 0, text |-> Empty]
    BY DEF Blank, Continuation
  <2>2. Empty \in Texts BY TextsAssumption
  <2> QED BY <2>1, <2>2 DEF Lines
<1>3. /\ x \in Seq(Lines) /\ Len(x) = m + 1 /\ x[m + 1] = Blank
      /\ \A i \in 1..m : x[i] = e[i]
  <2> HIDE DEF x
  <2> QED BY <1>2, AppendProperties DEF x
<1> HIDE DEF x
<1>4. /\ y \in Seq(Lines) /\ Len(y) = o + (m + 1)
      /\ \A i \in 1..(o + (m + 1)) : y[i] = IF i <= o THEN text[i] ELSE x[i - o]
  <2> HIDE DEF m
  <2>1. /\ y \in Seq(Lines) /\ Len(y) = Len(text) + Len(x)
        /\ \A i \in 1..(Len(text) + Len(x)) :
              y[i] = IF i <= Len(text) THEN text[i] ELSE x[i - Len(text)]
    BY <1>1, <1>3, ConcatProperties
  <2> HIDE DEF y, o
  <2> QED BY <1>3, <2>1 DEF o
<1> HIDE DEF y
<1>5. \A i \in 1..o : y[i] = text[i]
  <2>1. SUFFICES ASSUME NEW i \in 1..o PROVE y[i] = text[i] OBVIOUS
  <2>2. i \in 1..(o + (m + 1)) /\ i <= o BY <1>1
  <2> QED BY <1>4, <2>2
<1>6. \A i \in 1..m : y[o + i] = e[i]
  <2>1. SUFFICES ASSUME NEW i \in 1..m PROVE y[o + i] = e[i] OBVIOUS
  <2> DEFINE j == o + i
  <2>2. j \in 1..(o + (m + 1)) /\ ~(j <= o) /\ j - o = i BY <1>1
  <2> HIDE DEF j
  <2>3. y[j] = e[i] BY <1>3, <1>4, <2>2
  <2> QED BY <2>3 DEF j
<1> DEFINE l == o + (m + 1)
<1>7. y[l] = Blank /\ l \in 1..l /\ l - 1 = o + m /\ Len(y) = l
  <2>1. l \in 1..l /\ ~(l <= o) /\ l - o = m + 1 /\ l - 1 = o + m BY <1>1
  <2> QED BY <1>3, <1>4, <2>1
<1>8. Placed(y, e, o)
  BY <1>1, <1>4, <1>6 DEF Placed
<1>9. \A i \in 1..o : i \in 1..Len(y)
  BY <1>1, <1>4
<1> HIDE DEF l, o, m
<1>10. ASSUME NEW r, Reads(y, r)
       PROVE  \E vs : /\ Values822(stanzas, vs, k + 1)
                      /\ r[Len(y)] = Resting(Paragraphs(heads, vs, k + 1))
  <2>1. Reads(text, r)
    <3>1. r[0] = NothingRead /\ \A i \in 1..Len(y) : r[i] = ParseLine(r[i - 1], y[i])
      BY <1>10 DEF Reads
    <3>2. \A i \in 1..o : r[i] = ParseLine(r[i - 1], text[i]) BY <1>5, <1>9, <3>1
    <3> QED BY <3>1, <3>2 DEF Reads, o
  <2>2. PICK vs : Values822(stanzas, vs, k) /\ r[o] = Resting(Paragraphs(heads, vs, k))
    BY <2>1 DEF Tells, o
  <2> DEFINE ps == Paragraphs(heads, vs, k)
  <2> HIDE DEF ps
  <2>3. r[o] = Resting(ps) BY <2>2 DEF ps
  <2>4. PICK v : IsValue(v) /\ Words(v) = Words(e) /\ r[o + m] = InDescription(ps, d, v)
    BY <1>4, <1>8, <1>10, <2>3, StanzaRead DEF m
  <2>5. r[l] = ParseLine(r[l - 1], y[l]) BY <1>7, <1>10 DEF Reads
  <2>6. r[l] = Resting(Append(ps, Whole(d, v))) BY <1>7, <2>4, <2>5, ReadEnd
  <2> DEFINE us == [n \in 1..(k + 1) |-> IF n = k + 1 THEN v ELSE vs[n]]
  <2>7. us[k + 1] = v /\ \A n \in 1..k : us[n] = vs[n] /\ n # k + 1 OBVIOUS
  <2>8. \A n \in 1..(k + 1) : n = k + 1 \/ n \in 1..k OBVIOUS
  <2> HIDE DEF us
  <2>9. Values822(stanzas, us, k + 1)
    BY <2>2, <2>4, <2>7, <2>8 DEF Values822
  <2>10. Append(ps, Whole(d, v)) = Paragraphs(heads, us, k + 1)
    <3> DEFINE f == [n \in 1..k |-> Whole(heads[n], vs[n])]
               a == Whole(d, v)
    <3>1. ps = [n \in 1..k |-> f[n]] BY DEF ps, Paragraphs
    <3>2. \A n \in 1..k : f[n] = Whole(heads[n], vs[n]) OBVIOUS
    <3> HIDE DEF f, a
    <3>3. Append(ps, a) = [n \in 1..(k + 1) |-> IF n = k + 1 THEN a ELSE f[n]]
      BY <3>1, AppendIs
    <3>4. \A n \in 1..(k + 1) : (IF n = k + 1 THEN a ELSE f[n]) = Whole(heads[n], us[n])
      BY <2>7, <2>8, <3>2 DEF a
    <3>5. Append(ps, a) = [n \in 1..(k + 1) |-> Whole(heads[n], us[n])] BY <3>3, <3>4
    <3> QED BY <3>5 DEF Paragraphs, a
  <2> QED BY <1>7, <2>6, <2>9, <2>10
<1>11. ASSUME NEW s, Sees(y, s)
       PROVE  s[Len(y)] = Between(Entries(stanzas, heads, k + 1))
  <2>1. Sees(text, s)
    <3>1. /\ s[0] = [entries |-> <<>>, within |-> FALSE]
          /\ \A i \in 1..Len(y) : s[i] = Show(s[i - 1], y[i])
      BY <1>11 DEF Sees
    <3>2. \A i \in 1..o : s[i] = Show(s[i - 1], text[i]) BY <1>5, <1>9, <3>1
    <3> QED BY <3>1, <3>2 DEF Sees, o
  <2> DEFINE es == Entries(stanzas, heads, k)
             S == {es[n] : n \in 1..k}
             a == Entry(d, Words(e))
  <2>2. es \in Seq(S) BY DEF Entries
  <2> HIDE DEF es, S, a
  <2>3. s[o] = Between(es) BY <2>1 DEF Tells, o, es
  <2>4. s[o + m] = Within(Append(es, a))
    BY <1>4, <1>8, <1>11, <2>2, <2>3, StanzaSeen DEF m, a
  <2>5. s[l] = Show(s[l - 1], y[l]) BY <1>7, <1>11 DEF Sees
  <2>6. s[l] = Between(Append(es, a))
    <3>1. s[l] = Show(Within(Append(es, a)), Blank) BY <1>7, <2>4, <2>5
    <3> QED BY <3>1, Literals DEF Show, Blank, Continuation, IsBlank, Within, Between
  <2>7. Append(es, a) = Entries(stanzas, heads, k + 1)
    <3> DEFINE f == [n \in 1..k |-> Entry(heads[n], Words(stanzas[n]))]
    <3>1. es = [n \in 1..k |-> f[n]] BY DEF es, Entries
    <3>2. \A n \in 1..k : f[n] = Entry(heads[n], Words(stanzas[n])) OBVIOUS
    <3> HIDE DEF f
    <3>3. Append(es, a) = [n \in 1..(k + 1) |-> IF n = k + 1 THEN a ELSE f[n]]
      BY <3>1, AppendIs
    <3>4. \A n \in 1..(k + 1) : n = k + 1 \/ n \in 1..k OBVIOUS
    <3>5. \A n \in 1..(k + 1) :
              (IF n = k + 1 THEN a ELSE f[n]) = Entry(heads[n], Words(stanzas[n]))
      BY <3>2, <3>4 DEF a
    <3>6. Append(es, a) = [n \in 1..(k + 1) |-> Entry(heads[n], Words(stanzas[n]))]
      BY <3>3, <3>5
    <3> QED BY <3>6 DEF Entries
  <2> QED BY <1>7, <2>6, <2>7
<1>12. Tells(y, stanzas, heads, k + 1)
  BY <1>4, <1>10, <1>11 DEF Tells
<1> QED BY <1>12 DEF x, y

\* A file with some stanzas is read as these stanzas.
LEMMA WrittenTells ==
    ASSUME NEW stanzas \in Seq(Seq(Lines)), NEW heads,
           \A n \in 1..Len(stanzas) : IsStanza(stanzas[n], heads[n])
    PROVE  Tells(Written(stanzas), stanzas, heads, Len(stanzas))
<1>1. Len(stanzas) \in Nat
  OBVIOUS
<1>2. PICK f : Writes(stanzas, f) /\ Written(stanzas) = f[Len(stanzas)]
  BY <1>1, WrittenIs
<1> DEFINE T == {k \in Nat : k <= Len(stanzas) => Tells(f[k], stanzas, heads, k)}
<1>3. 0 \in T
  <2>1. f[0] = <<>> /\ Len(<<>>) = 0 /\ <<>> \in Seq(Lines) BY <1>2 DEF Writes
  <2>2. ASSUME NEW r, Reads(<<>>, r)
        PROVE  \E vs : Values822(stanzas, vs, 0) /\ r[0] = Resting(Paragraphs(heads, vs, 0))
    <3>1. r[0] = Resting(<<>>) BY <2>2 DEF Reads, NothingRead, Resting
    <3>2. Paragraphs(heads, <<>>, 0) = <<>> BY DEF Paragraphs
    <3>3. Values822(stanzas, <<>>, 0) BY DEF Values822
    <3> QED BY <3>1, <3>2, <3>3
  <2>3. ASSUME NEW s, Sees(<<>>, s)
        PROVE  s[0] = Between(Entries(stanzas, heads, 0))
    <3>1. s[0] = Between(<<>>) BY <2>3 DEF Sees, Between
    <3>2. Entries(stanzas, heads, 0) = <<>> BY DEF Entries
    <3> QED BY <3>1, <3>2
  <2>4. Tells(<<>>, stanzas, heads, 0) BY <2>1, <2>2, <2>3 DEF Tells
  <2> QED BY <2>1, <2>4
<1>4. ASSUME NEW k \in Nat, k \in T PROVE k + 1 \in T
  <2>1. SUFFICES ASSUME k + 1 <= Len(stanzas) PROVE Tells(f[k + 1], stanzas, heads, k + 1)
    OBVIOUS
  <2>2. k + 1 \in 1..Len(stanzas) /\ k + 1 - 1 = k BY <2>1
  <2>3. Tells(f[k], stanzas, heads, k) BY <1>1, <1>4, <2>1
  <2>4. f[k + 1] = f[k] \o Append(stanzas[k + 1], Blank)
    <3> DEFINE m == k + 1
    <3>1. m \in 1..Len(stanzas) /\ m - 1 = k BY <2>2
    <3> HIDE DEF m
    <3>2. f[m] = f[m - 1] \o Append(stanzas[m], Blank) BY <1>2, <3>1 DEF Writes
    <3>3. f[m] = f[k] \o Append(stanzas[m], Blank) BY <3>1, <3>2
    <3> QED BY <3>3 DEF m
  <2>5. stanzas[k + 1] \in Seq(Lines) /\ IsStanza(stanzas[k + 1], heads[k + 1]) BY <2>2
  <2>6. Tells(f[k] \o Append(stanzas[k + 1], Blank), stanzas, heads, k + 1)
    BY <2>3, <2>5, TellsMore
  <2> QED BY <2>4, <2>6
<1>5. T = Nat
  <2>1. T \in SUBSET Nat OBVIOUS
  <2> HIDE DEF T
  <2> QED BY <1>3, <1>4, <2>1, Induction
<1>6. Tells(f[Len(stanzas)], stanzas, heads, Len(stanzas))
  BY <1>1, <1>5
<1> QED BY <1>2, <1>6

\* A stanza in hand.
InHand(s) == s = [head |-> s.head, description |-> s.description] /\ IsValue(s.description)

\* A file holds n stanzas: a reader sees their heads and words, and the parser reads them.
Holds(text, n, heads, words) ==
    /\ Shown(text) = [i \in 1..n |-> Entry(heads[i], words[i])]
    /\ Parsed(text) \in [1..n -> {s \in [head : Known, description : Seq(Parts)] : InHand(s)}]
    /\ \A i \in 1..n : /\ Parsed(text)[i].head = heads[i]
                       /\ Words(Parsed(text)[i].description) = words[i]

LEMMA WrittenHolds ==
    ASSUME NEW stanzas \in Seq(Seq(Lines)), NEW heads,
           \A n \in 1..Len(stanzas) : heads[n] \in Known /\ IsStanza(stanzas[n], heads[n]),
           NEW words, \A n \in 1..Len(stanzas) : words[n] = Words(stanzas[n])
    PROVE  Holds(Written(stanzas), Len(stanzas), heads, words)
<1> DEFINE text == Written(stanzas)
           n == Len(stanzas)
<1>1. Tells(text, stanzas, heads, n) /\ n \in Nat
  BY WrittenTells
<1> HIDE DEF text, n
<1>2. Len(text) \in Nat
  BY <1>1 DEF Tells
<1>3. Shown(text) = [i \in 1..n |-> Entry(heads[i], words[i])]
  <2>1. PICK s : Sees(text, s) /\ Shown(text) = s[Len(text)].entries BY <1>2, ShownIs
  <2>2. s[Len(text)] = Between(Entries(stanzas, heads, n)) BY <1>1, <2>1 DEF Tells
  <2>3. Shown(text) = Entries(stanzas, heads, n) BY <2>1, <2>2 DEF Between
  <2>4. \A i \in 1..n : words[i] = Words(stanzas[i]) BY DEF n
  <2> QED BY <2>3, <2>4 DEF Entries
<1>4. PICK r : /\ Reads(text, r)
               /\ ParseParagraphs(text) = EndParagraph(Flush(r[Len(text)])).paragraphs
  BY <1>2, ReadIs
<1>5. PICK vs : /\ Values822(stanzas, vs, n)
                /\ r[Len(text)] = Resting(Paragraphs(heads, vs, n))
  BY <1>1, <1>4 DEF Tells
<1>6. ParseParagraphs(text) = Paragraphs(heads, vs, n)
  <2> DEFINE ps == Paragraphs(heads, vs, n)
  <2> HIDE DEF ps
  <2>1. Flush(Resting(ps)) = Resting(ps) BY FlushResting
  <2>2. EndParagraph(Resting(ps)).paragraphs = ps BY DEF EndParagraph, Resting, Reading
  <2> QED BY <1>4, <1>5, <2>1, <2>2 DEF ps
<1> DEFINE stanza(i) == [head |-> heads[i], description |-> Trimmed(vs[i])]
<1>7. Parsed(text) = [i \in 1..n |-> stanza(i)]
  <2>1. \A i \in 1..n : ParagraphToStanza(Whole(heads[i], vs[i])) = stanza(i) BY ReadEnd
  <2>2. DOMAIN Paragraphs(heads, vs, n) = 1..n BY DEF Paragraphs
  <2>3. \A i \in 1..n : Paragraphs(heads, vs, n)[i] = Whole(heads[i], vs[i]) BY DEF Paragraphs
  <2> HIDE DEF stanza
  <2> QED BY <1>6, <2>1, <2>2, <2>3 DEF Parsed
<1>8. ASSUME NEW i \in 1..n
      PROVE  /\ stanza(i) \in [head : Known, description : Seq(Parts)] /\ InHand(stanza(i))
             /\ stanza(i).head = heads[i] /\ Words(stanza(i).description) = words[i]
  <2> DEFINE u == Trimmed(vs[i])
  <2>1. IsValue(u) /\ Words(u) = Words(vs[i]) BY <1>5, TrimmedIs DEF Values822
  <2>2. Words(vs[i]) = Words(stanzas[i]) BY <1>5 DEF Values822
  <2>3. heads[i] \in Known /\ words[i] = Words(stanzas[i]) BY DEF n
  <2> HIDE DEF u
  <2>4. u \in Seq(Parts) BY <2>1 DEF IsValue
  <2>5. [head |-> heads[i], description |-> u] \in [head : Known, description : Seq(Parts)]
    BY <2>3, <2>4
  <2>6. InHand([head |-> heads[i], description |-> u]) BY <2>1 DEF InHand
  <2> QED BY <2>1, <2>2, <2>3, <2>5, <2>6 DEF u
<1> HIDE DEF stanza
<1>9. Holds(text, n, heads, words)
  BY <1>3, <1>7, <1>8 DEF Holds
<1> QED BY <1>9 DEF text, n

-----------------------------------------------------------------------------
LEMMA PartPrinted ==
    ASSUME NEW a \in Parts, a.text = Empty => a = Nothing
    PROVE  /\ PrintPart(a) \in Lines /\ PrintPart(a).key = NoKey
           /\ PrintPart(a).indent > 0 /\ PrintPart(a).text # Empty
           /\ Says(PrintPart(a)) <=> Says(a)
           /\ Says(a) => PrintPart(a).text = a.text
<1>1. a.indent \in Nat /\ a.text \in Texts /\ Dot \in Texts
  BY TextsAssumption DEF Parts
<1>2. \A i \in Nat, t \in Texts : Continuation(i, t) \in Lines
  BY DEF Continuation, Lines
<1>3. CASE a = Nothing
  <2>1. PrintPart(a) = Continuation(1, Dot) BY <1>3 DEF PrintPart
  <2> QED BY <1>1, <1>2, <1>3, <2>1, Literals DEF Continuation, Says, Nothing, Part
<1>4. CASE a # Nothing /\ a.indent > 0
  <2>1. PrintPart(a) = Continuation(a.indent, a.text) BY <1>4 DEF PrintPart
  <2> QED BY <1>1, <1>2, <1>4, <2>1 DEF Continuation, Says
<1>5. CASE a # Nothing /\ ~(a.indent > 0)
  <2>1. PrintPart(a) = Continuation(1, a.text) BY <1>5 DEF PrintPart
  <2> QED BY <1>1, <1>2, <1>5, <2>1 DEF Continuation, Says
<1> QED BY <1>3, <1>4, <1>5

\* What is printed is a stanza again, with the words of the description.
LEMMA PrintedIs ==
    ASSUME NEW s, InHand(s), s.head \in Known
    PROVE  /\ PrintStanza(s) \in Seq(Lines) /\ IsStanza(PrintStanza(s), s.head)
           /\ Words(PrintStanza(s)) = Words(s.description)
<1> DEFINE v == s.description
           m == Len(v)
           d == s.head
           package == FieldLine("Package", d, Empty)
           first == FieldLine("Description", NoHead, IF m = 1 THEN v[1].text ELSE Empty)
           x == PrintField("Description", NoHead, v)
           y == <<package>> \o x
           o == IF m = 1 THEN 1 ELSE 2
<1>1. /\ v \in Seq(Parts) /\ m \in Nat /\ m >= 1
      /\ \A i \in 1..m : v[i] \in Parts /\ (v[i].text = Empty => v[i] = Nothing)
  BY DEF InHand, IsValue
<1>2. PrintStanza(s) = y
  <2>1. PrintField("Package", d, <<Nothing>>) = <<package>>
    BY DEF PrintField, Nothing, Part
  <2> HIDE DEF x, package, v
  <2> QED BY <2>1 DEF PrintStanza, x, v
<1>3. package \in Lines /\ first \in Lines
  <2>1. Empty \in Texts BY TextsAssumption
  <2>2. m = 1 => v[1].text \in Texts BY <1>1 DEF Parts
  <2>3. \A t \in Texts : /\ FieldLine("Package", d, t) \in Lines
                         /\ FieldLine("Description", NoHead, t) \in Lines
    BY DEF FieldLine, Lines
  <2> HIDE DEF v, m, d
  <2> QED BY <2>1, <2>2, <2>3
<1> HIDE DEF package, first
<1>4. /\ x \in Seq(Lines) /\ x[1] = first /\ Len(x) = IF m = 1 THEN 1 ELSE m + 1
      /\ m # 1 => \A i \in 1..m : x[i + 1] = PrintPart(v[i])
  <2>1. CASE m = 1
    <3>1. x = <<first>> BY <2>1 DEF PrintField, first
    <3> HIDE DEF x, m
    <3> QED BY <1>3, <2>1, <3>1
  <2>2. CASE m # 1
    <3> DEFINE z == [n \in DOMAIN v |-> PrintPart(v[n])]
    <3>1. x = <<first>> \o z BY <2>2 DEF PrintField, first
    <3>2. \A i \in 1..m : PrintPart(v[i]) \in Lines BY <1>1, PartPrinted
    <3>3. DOMAIN v = 1..m BY <1>1
    <3>4. z \in Seq(Lines) /\ Len(z) = m /\ \A i \in 1..m : z[i] = PrintPart(v[i])
      <4> HIDE DEF m, v
      <4> QED BY <1>1, <3>2, <3>3
    <3> HIDE DEF x, m, z, v
    <3>5. <<first>> \in Seq(Lines) /\ Len(<<first>>) = 1 /\ <<first>>[1] = first BY <1>3
    <3>6. /\ x \in Seq(Lines) /\ Len(x) = 1 + m
          /\ \A i \in 1..(1 + m) : x[i] = IF i <= 1 THEN <<first>>[i] ELSE z[i - 1]
      BY <3>1, <3>4, <3>5, ConcatProperties
    <3>7. x[1] = first
      <4>1. 1 \in 1..(1 + m) BY <1>1
      <4> QED BY <3>5, <3>6, <4>1
    <3>8. \A i \in 1..m : x[i + 1] = PrintPart(v[i])
      <4>1. SUFFICES ASSUME NEW i \in 1..m PROVE x[i + 1] = PrintPart(v[i]) OBVIOUS
      <4> DEFINE j == i + 1
      <4>2. j \in 1..(1 + m) /\ ~(j <= 1) /\ j - 1 = i BY <1>1
      <4> HIDE DEF j
      <4>3. x[j] = PrintPart(v[i]) BY <3>4, <3>6, <4>2
      <4> QED BY <4>3 DEF j
    <3>9. Len(x) = m + 1 BY <1>1, <3>6
    <3> QED BY <2>2, <3>6, <3>7, <3>8, <3>9
  <2> QED BY <2>1, <2>2
<1> HIDE DEF x
<1>5. /\ y \in Seq(Lines) /\ Len(y) = 1 + Len(x) /\ y[1] = package /\ Len(x) \in Nat
      /\ \A i \in 1..Len(x) : y[i + 1] = x[i]
  <2>1. <<package>> \in Seq(Lines) /\ Len(<<package>>) = 1 /\ <<package>>[1] = package BY <1>3
  <2> DEFINE q == <<package>>
             n == Len(x)
  <2>2. n \in Nat BY <1>4
  <2> HIDE DEF q, n
  <2>3. /\ y \in Seq(Lines) /\ Len(y) = 1 + n
        /\ \A i \in 1..(1 + n) : y[i] = IF i <= 1 THEN q[i] ELSE x[i - 1]
    <3> HIDE DEF y
    <3>1. y = q \o x BY DEF y, q
    <3>2. q \in Seq(Lines) /\ Len(q) = 1 BY <2>1 DEF q
    <3>3. /\ q \o x \in Seq(Lines) /\ Len(q \o x) = Len(q) + Len(x)
          /\ \A i \in 1..(Len(q) + Len(x)) :
                (q \o x)[i] = IF i <= Len(q) THEN q[i] ELSE x[i - Len(q)]
      BY <1>4, <3>2, ConcatProperties
    <3> QED BY <3>1, <3>2, <3>3 DEF n
  <2> HIDE DEF y
  <2>4. y[1] = package
    <3>1. 1 \in 1..(1 + n) BY <2>2
    <3> QED BY <2>1, <2>3, <3>1 DEF q
  <2>5. \A i \in 1..n : y[i + 1] = x[i]
    <3>1. SUFFICES ASSUME NEW i \in 1..n PROVE y[i + 1] = x[i] OBVIOUS
    <3> DEFINE j == i + 1
    <3>2. j \in 1..(1 + n) /\ ~(j <= 1) /\ j - 1 = i BY <2>2
    <3> HIDE DEF j
    <3>3. y[j] = x[i] BY <2>3, <3>2
    <3> QED BY <3>3 DEF j
  <2> QED BY <2>2, <2>3, <2>4, <2>5 DEF n
<1> HIDE DEF y
<1>6. y[2] = first
  <2>1. 1 \in 1..Len(x) BY <1>1, <1>4
  <2>2. y[1 + 1] = x[1] BY <1>5, <2>1
  <2>3. 1 + 1 = 2 OBVIOUS
  <2> QED BY <1>4, <2>2, <2>3
<1>7. ASSUME m # 1, NEW i \in 1..m PROVE y[2 + i] = PrintPart(v[i])
  <2> DEFINE j == i + 1
             k == 2 + i
  <2>1. j \in 1..Len(x) /\ k = j + 1 BY <1>1, <1>4, <1>7
  <2>2. x[j] = PrintPart(v[i]) BY <1>4, <1>7
  <2> HIDE DEF j, k
  <2>3. y[k] = PrintPart(v[i]) BY <1>5, <2>1, <2>2
  <2> QED BY <2>3 DEF k
<1>8. IsStanza(y, d)
  <2>1. 1 \in 1..(Len(y) - 1) /\ 1..(1 - 1) = {} BY <1>1, <1>4, <1>5
  <2>2. y[1 + 1] = FieldLine("Description", NoHead, y[1 + 1].text)
    <3>1. y[2] = FieldLine("Description", NoHead, y[2].text) BY <1>6 DEF first, FieldLine
    <3>2. 1 + 1 = 2 OBVIOUS
    <3> QED BY <3>1, <3>2
  <2>3. ASSUME NEW i \in (1 + 2)..Len(y)
        PROVE  y[i].key = NoKey /\ y[i].indent > 0 /\ y[i].text # Empty
    <3> DEFINE j == i - 2
    <3>1. m # 1 /\ j \in 1..m /\ 2 + j = i BY <1>1, <1>4, <1>5
    <3> HIDE DEF j
    <3>2. y[i] = PrintPart(v[j]) BY <1>7, <3>1
    <3>3. v[j] \in Parts /\ (v[j].text = Empty => v[j] = Nothing) BY <1>1, <3>1
    <3> QED BY <3>2, <3>3, PartPrinted
  <2>4. y[1] = FieldLine("Package", d, Empty) BY <1>5 DEF package
  <2> HIDE DEF d, m
  <2> QED BY <2>1, <2>2, <2>3, <2>4 DEF IsStanza
<1>9. Quotes(y, v, o)
  <2>1. ~Says(y[1]) BY <1>5, Silent DEF package
  <2>2. CASE m = 1
    <3>1. o = 1 /\ Len(v) = 1 /\ Len(y) = 2 BY <1>4, <1>5, <2>2
    <3>2. (Says(y[2]) <=> Says(v[1])) /\ y[2].text = v[1].text
      BY <1>6, <2>2 DEF first, FieldLine, Says
    <3> HIDE DEF o, v, m
    <3>3. \A k \in 1..o : ~Says(y[k]) BY <2>1, <3>1
    <3>4. \A k \in 1..Len(v) : /\ Says(y[o + k]) <=> Says(v[k])
                               /\ Says(v[k]) => y[o + k].text = v[k].text
      <4>1. \A k \in 1..Len(v) : k = 1 /\ o + k = 2 BY <3>1
      <4> QED BY <3>2, <4>1
    <3>5. (o + Len(v) + 1)..Len(y) = {} BY <3>1
    <3> QED BY <3>1, <3>3, <3>4, <3>5 DEF Quotes
  <2>3. CASE m # 1
    <3>1. o = 2 /\ Len(v) = m /\ Len(y) = 2 + m BY <1>1, <1>4, <1>5, <2>3
    <3>2. ~Says(y[2]) BY <1>6, <2>3 DEF first, FieldLine, Says
    <3>3. \A k \in 1..m : y[2 + k] = PrintPart(v[k]) BY <1>7, <2>3
    <3>4. \A k \in 1..m : /\ Says(PrintPart(v[k])) <=> Says(v[k])
                          /\ Says(v[k]) => PrintPart(v[k]).text = v[k].text
      BY <1>1, PartPrinted
    <3> HIDE DEF o, v, m
    <3>5. \A k \in 1..o : ~Says(y[k])
      <4>1. \A k \in 1..o : k = 1 \/ k = 2 BY <3>1
      <4> QED BY <2>1, <3>2, <4>1
    <3>6. (o + Len(v) + 1)..Len(y) = {} BY <1>1, <3>1
    <3>7. o \in Nat /\ o + Len(v) <= Len(y) BY <1>1, <3>1
    <3>8. \A k \in 1..Len(v) : /\ Says(y[o + k]) <=> Says(v[k])
                               /\ Says(v[k]) => y[o + k].text = v[k].text
      BY <3>1, <3>3, <3>4
    <3> QED BY <3>5, <3>6, <3>7, <3>8 DEF Quotes
  <2> QED BY <2>2, <2>3
<1>10. Words(y) = Words(v)
  <2> HIDE DEF v, o
  <2> QED BY <1>1, <1>5, <1>9, QuotesWords
<1> QED BY <1>2, <1>5, <1>8, <1>10

\* A package's control file is parsed as its stanza.
LEMMA DebIs ==
    ASSUME NEW d \in Known
    PROVE  /\ InHand(ParseDeb(d)) /\ ParseDeb(d).head = d
           /\ Words(ParseDeb(d).description) = Words(Control(d))
<1> DEFINE e == Control(d)
<1>1. e \in Seq(Lines) /\ IsStanza(e, d)
  BY ControlAssumption
<1> HIDE DEF e
<1>2. Len(e) \in Nat
  BY <1>1
<1>3. PICK r : Reads(e, r) /\ ParseParagraphs(e) = EndParagraph(Flush(r[Len(e)])).paragraphs
  BY <1>2, ReadIs
<1>4. r[0] = Resting(<<>>)
  BY <1>3 DEF Reads, NothingRead, Resting
<1>5. Placed(e, e, 0)
  BY <1>2 DEF Placed
<1>6. PICK v : IsValue(v) /\ Words(v) = Words(e) /\ r[0 + Len(e)] = InDescription(<<>>, d, v)
  BY <1>1, <1>3, <1>4, <1>5, StanzaRead
<1>7. r[Len(e)] = InDescription(<<>>, d, v)
  BY <1>2, <1>6
<1>8. ParseParagraphs(e) = Append(<<>>, Whole(d, v))
  BY <1>3, <1>7, ReadEnd DEF Resting, Reading
<1>9. ParseDeb(d) = [head |-> d, description |-> Trimmed(v)]
  <2>1. Append(<<>>, Whole(d, v))[1] = Whole(d, v) OBVIOUS
  <2> QED BY <1>8, <2>1, ReadEnd DEF ParseDeb, e
<1>10. IsValue(Trimmed(v)) /\ Words(Trimmed(v)) = Words(v)
  BY <1>6, TrimmedIs
<1> QED BY <1>6, <1>9, <1>10 DEF InHand, e

-----------------------------------------------------------------------------
\* What is sorted is in order.
LEMMA Pairwise ==
    ASSUME NEW S, NEW seq \in Seq(S), NEW R,
           \A x, y, z \in S : <<x, y>> \in R /\ <<y, z>> \in R => <<x, z>> \in R,
           \A i \in 1..(Len(seq) - 1) : <<seq[i], seq[i + 1]>> \in R
    PROVE  \A i, j \in 1..Len(seq) : i < j => <<seq[i], seq[j]>> \in R
<1> DEFINE n == Len(seq)
           T == {k \in Nat : k <= n => \A i \in 1..n : i < k => <<seq[i], seq[k]>> \in R}
<1>1. n \in Nat /\ \A i \in 1..n : seq[i] \in S
  OBVIOUS
<1>2. T \in SUBSET Nat /\ 0 \in T
  OBVIOUS
<1>3. ASSUME NEW k \in Nat, k \in T PROVE k + 1 \in T
  <2> DEFINE m == k + 1
  <2>1. SUFFICES ASSUME m <= n, NEW i \in 1..n, i < m PROVE <<seq[i], seq[m]>> \in R
    OBVIOUS
  <2>2. k <= n /\ k \in 1..(n - 1) /\ k \in 1..n /\ m \in 1..n /\ (i = k \/ i < k)
    BY <1>1, <2>1
  <2>3. <<seq[k], seq[m]>> \in R BY <2>2
  <2>4. CASE i = k BY <2>3, <2>4
  <2>5. CASE i < k
    <3>1. <<seq[i], seq[k]>> \in R BY <1>3, <2>2, <2>5
    <3>2. seq[i] \in S /\ seq[k] \in S /\ seq[m] \in S BY <1>1, <2>2
    <3> HIDE DEF m, T
    <3> QED BY <2>3, <3>1, <3>2
  <2> QED BY <2>2, <2>4, <2>5
<1> HIDE DEF T
<1>4. T = Nat
  BY <1>2, <1>3, Induction
<1>5. ASSUME NEW i \in 1..n, NEW j \in 1..n, i < j PROVE <<seq[i], seq[j]>> \in R
  <2>1. j \in T /\ j \in Nat /\ j <= n BY <1>1, <1>4
  <2> HIDE DEF n
  <2> QED BY <1>5, <2>1 DEF T
<1> QED BY <1>5

\* The orders of the batch and of the index.
DebsSorted(s, t) ==
    \/ s.name < t.name
    \/ /\ s.name = t.name
       /\ s.arch < t.arch \/ (s.arch = t.arch /\ ~DebLess(t.version, s.version))

NotBefore(s, t) ==
    s.name < t.name \/ (s.name = t.name /\ ~DebLess(s.version, t.version))

LEMMA KnownIs ==
    ASSUME NEW d \in Known
    PROVE  d.name \in Nat /\ d.arch \in Nat /\ WellFormed(d.version)
BY DebAssumption

LEMMA CompareDebsIs ==
    ASSUME NEW s \in Known, NEW t \in Known, CompareDebs(s, t) <= 0
    PROVE  DebsSorted(s, t)
<1> DEFINE c == CompareVersions(Text(s.version), Text(t.version))
<1>1. c = IF DebLess(s.version, t.version) THEN -1
          ELSE IF DebLess(t.version, s.version) THEN 1 ELSE 0
  BY KnownIs, VersionOrder
<1>2. ~(DebLess(s.version, t.version) /\ DebLess(t.version, s.version))
  BY KnownIs, DebLessIsOrder
<1>3. s.name \in Nat /\ t.name \in Nat /\ s.arch \in Nat /\ t.arch \in Nat
  BY KnownIs
<1>4. CompareDebs(s, t) = IF s.name # t.name THEN compareInt(s.name, t.name)
                          ELSE IF s.arch # t.arch THEN compareInt(s.arch, t.arch)
                          ELSE c
  BY DEF CompareDebs
<1> HIDE DEF c
<1> QED BY <1>1, <1>2, <1>3, <1>4 DEF compareInt, DebsSorted

LEMMA CompareStanzasIs ==
    ASSUME NEW a, NEW b, a.head \in Known, b.head \in Known, CompareStanzas(a, b) <= 0
    PROVE  NotBefore(a.head, b.head)
<1> DEFINE s == a.head
           t == b.head
           c == CompareVersions(Text(t.version), Text(s.version))
<1>1. s \in Known /\ t \in Known
  OBVIOUS
<1>2. CompareStanzas(a, b) = IF s.name # t.name THEN compareInt(s.name, t.name)
                             ELSE IF c # 0 THEN c
                             ELSE compareInt(s.arch, t.arch)
  BY DEF CompareStanzas
<1> HIDE DEF s, t
<1>3. c = IF DebLess(t.version, s.version) THEN -1
          ELSE IF DebLess(s.version, t.version) THEN 1 ELSE 0
  BY <1>1, KnownIs, VersionOrder
<1>4. ~(DebLess(s.version, t.version) /\ DebLess(t.version, s.version))
  BY <1>1, KnownIs, DebLessIsOrder
<1>5. s.name \in Nat /\ t.name \in Nat /\ s.arch \in Nat /\ t.arch \in Nat
  BY <1>1, KnownIs
<1> HIDE DEF c
<1>6. NotBefore(s, t)
  BY <1>2, <1>3, <1>4, <1>5 DEF compareInt, NotBefore
<1> QED BY <1>6 DEF s, t

LEMMA DebsSortedTransitive ==
    ASSUME NEW s \in Known, NEW t \in Known, NEW u \in Known, DebsSorted(s, t), DebsSorted(t, u)
    PROVE  DebsSorted(s, u)
<1>1. ~DebLess(u.version, t.version) /\ ~DebLess(t.version, s.version) => ~DebLess(u.version, s.version)
  BY KnownIs, DebLessIsOrder
<1>2. /\ s.name \in Nat /\ t.name \in Nat /\ s.arch \in Nat /\ t.arch \in Nat
      /\ u.name \in Nat /\ u.arch \in Nat
  BY KnownIs
<1> QED BY <1>1, <1>2 DEF DebsSorted

LEMMA NotBeforeTransitive ==
    ASSUME NEW s \in Known, NEW t \in Known, NEW u \in Known, NotBefore(s, t), NotBefore(t, u)
    PROVE  NotBefore(s, u)
<1>1. ~DebLess(s.version, t.version) /\ ~DebLess(t.version, u.version) => ~DebLess(s.version, u.version)
  BY KnownIs, DebLessIsOrder
<1>2. s.name \in Nat /\ t.name \in Nat /\ u.name \in Nat
  BY KnownIs
<1> QED BY <1>1, <1>2 DEF NotBefore

\* The batch is in order.
LEMMA SortedBatch ==
    ASSUME NEW seq \in Seq(Known), IsSorted(seq, CompareDebs)
    PROVE  \A i, j \in 1..Len(seq) : i < j => DebsSorted(seq[i], seq[j])
<1> DEFINE R == {p \in Known \X Known : DebsSorted(p[1], p[2])}
<1>1. \A x, y \in Known : <<x, y>> \in R <=> DebsSorted(x, y)
  OBVIOUS
<1> HIDE DEF R
<1>2. \A x, y, z \in Known : <<x, y>> \in R /\ <<y, z>> \in R => <<x, z>> \in R
  BY <1>1, DebsSortedTransitive
<1>3. \A i \in 1..(Len(seq) - 1) : <<seq[i], seq[i + 1]>> \in R
  <2>1. SUFFICES ASSUME NEW i \in 1..(Len(seq) - 1) PROVE <<seq[i], seq[i + 1]>> \in R OBVIOUS
  <2>2. seq[i] \in Known /\ seq[i + 1] \in Known
    <3>1. i \in 1..Len(seq) /\ i + 1 \in 1..Len(seq) OBVIOUS
    <3> QED BY <3>1
  <2>3. CompareDebs(seq[i], seq[i + 1]) <= 0 BY DEF IsSorted
  <2> QED BY <1>1, <2>2, <2>3, CompareDebsIs
<1>4. \A i, j \in 1..Len(seq) : i < j => <<seq[i], seq[j]>> \in R
  BY <1>2, <1>3, Pairwise
<1>5. \A i \in 1..Len(seq) : seq[i] \in Known
  OBVIOUS
<1> QED BY <1>1, <1>4, <1>5

-----------------------------------------------------------------------------
\* A stanza as it is while an index is in hand: it says what the control file says.
Stanzas ==
    {s \in [head : Known, description : Seq(Parts)] :
        InHand(s) /\ Words(s.description) = Words(Control(s.head))}

Entered(seq) == [n \in DOMAIN seq |-> Entry(seq[n].head, Words(Control(seq[n].head)))]

\* What the parser makes of a Packages file is what a reader sees in it.
FileIs(text) == Parsed(text) \in Seq(Stanzas) /\ Shown(text) = Entered(Parsed(text))

LEMMA HeadsIs ==
    ASSUME NEW seq \in Seq(Stanzas)
    PROVE  /\ Heads(seq) \in Seq(Known) /\ Len(Heads(seq)) = Len(seq)
           /\ DOMAIN Heads(seq) = 1..Len(seq)
           /\ \A i \in 1..Len(seq) : Heads(seq)[i] = seq[i].head /\ seq[i] \in Stanzas
<1>1. \A i \in 1..Len(seq) : seq[i] \in Stanzas /\ seq[i].head \in Known
  BY DEF Stanzas
<1>2. Heads(seq) = [i \in 1..Len(seq) |-> seq[i].head]
  BY DEF Heads
<1> HIDE DEF Heads
<1>3. Len(seq) \in Nat
  OBVIOUS
<1>4. Heads(seq) \in Seq(Known)
  BY <1>1, <1>2, <1>3
<1> QED BY <1>1, <1>2, <1>3, <1>4

LEMMA RangeOfHeads ==
    ASSUME NEW seq \in Seq(Stanzas)
    PROVE  \A h : h \in Range(Heads(seq)) <=> \E i \in 1..Len(seq) : h = seq[i].head
BY HeadsIs DEF Range

LEMMA FileLists ==
    ASSUME NEW text, FileIs(text)
    PROVE  Listed(text) = Heads(Parsed(text))
<1> DEFINE x == Parsed(text)
           y == Entered(x)
<1>1. x \in Seq(Stanzas) /\ Shown(text) = y
  BY DEF FileIs
<1>2. DOMAIN y = DOMAIN x /\ \A n \in DOMAIN x : y[n].head = x[n].head
  BY DEF Entered, Entry
<1>3. Listed(text) = [n \in DOMAIN y |-> y[n].head]
  BY <1>1 DEF Listed, Heads
<1> HIDE DEF x, y
<1>4. Listed(text) = Heads(x)
  BY <1>2, <1>3 DEF Heads
<1> QED BY <1>4 DEF x

LEMMA WrittenFile ==
    ASSUME NEW stanzas \in Seq(Seq(Lines)), NEW heads \in Seq(Known), Len(heads) = Len(stanzas),
           \A n \in 1..Len(stanzas) : /\ IsStanza(stanzas[n], heads[n])
                                      /\ Words(stanzas[n]) = Words(Control(heads[n]))
    PROVE  FileIs(Written(stanzas)) /\ Listed(Written(stanzas)) = heads
<1> DEFINE m == Len(stanzas)
           words == [n \in 1..m |-> Words(stanzas[n])]
           text == Written(stanzas)
           x == Parsed(text)
<1>1. \A n \in 1..m : heads[n] \in Known /\ IsStanza(stanzas[n], heads[n])
  OBVIOUS
<1>2. \A n \in 1..m : words[n] = Words(stanzas[n])
  OBVIOUS
<1>3. m \in Nat /\ \A n \in 1..m : words[n] = Words(Control(heads[n]))
  OBVIOUS
<1> HIDE DEF words
<1>4. Holds(text, m, heads, words)
  BY <1>1, <1>2, WrittenHolds
<1> HIDE DEF text
<1>5. /\ Shown(text) = [i \in 1..m |-> Entry(heads[i], words[i])]
      /\ x \in [1..m -> {s \in [head : Known, description : Seq(Parts)] : InHand(s)}]
      /\ \A i \in 1..m : x[i].head = heads[i] /\ Words(x[i].description) = words[i]
  BY <1>4 DEF Holds
<1> HIDE DEF x, m
<1>6. \A i \in 1..m : x[i] \in Stanzas
  <2>1. SUFFICES ASSUME NEW i \in 1..m PROVE x[i] \in Stanzas OBVIOUS
  <2>2. x[i] \in [head : Known, description : Seq(Parts)] /\ InHand(x[i]) BY <1>5
  <2>3. Words(x[i].description) = Words(Control(x[i].head)) BY <1>3, <1>5
  <2> QED BY <2>2, <2>3 DEF Stanzas
<1>7. DOMAIN x = 1..m
  BY <1>5
<1>8. x \in Seq(Stanzas) /\ Len(x) = m
  <2>1. x = [i \in 1..m |-> x[i]] BY <1>5
  <2>2. x \in [1..m -> Stanzas] BY <1>6, <1>7, <2>1
  <2> QED BY <1>3, <2>2
<1>9. Shown(text) = Entered(x)
  BY <1>3, <1>5, <1>7 DEF Entered
<1>10. FileIs(text)
  BY <1>8, <1>9 DEF FileIs, x
<1>11. Listed(text) = Heads(x)
  BY <1>10, FileLists DEF x
<1>12. heads = [i \in 1..m |-> heads[i]]
  BY DEF m
<1>13. Heads(x) = heads
  BY <1>5, <1>7, <1>12 DEF Heads
<1> QED BY <1>10, <1>11, <1>13 DEF text

\* What is sorted is stored in order.
LEMMA SortedIndex ==
    ASSUME NEW seq \in Seq(Stanzas), IsSorted(seq, CompareStanzas)
    PROVE  InOrder(Heads(seq))
<1> DEFINE h == Heads(seq)
           R == {p \in Known \X Known : NotBefore(p[1], p[2])}
<1>1. \A x, y \in Known : <<x, y>> \in R <=> NotBefore(x, y)
  OBVIOUS
<1>2. /\ h \in Seq(Known) /\ Len(h) = Len(seq) /\ DOMAIN h = 1..Len(seq)
      /\ \A i \in 1..Len(seq) : h[i] = seq[i].head
  BY HeadsIs
<1> HIDE DEF R, h
<1>3. \A x, y, z \in Known : <<x, y>> \in R /\ <<y, z>> \in R => <<x, z>> \in R
  BY <1>1, NotBeforeTransitive
<1>4. \A i \in 1..Len(seq) : h[i] \in Known
  BY <1>2
<1>5. \A i \in 1..(Len(h) - 1) : <<h[i], h[i + 1]>> \in R
  <2>1. SUFFICES ASSUME NEW i \in 1..(Len(h) - 1) PROVE <<h[i], h[i + 1]>> \in R OBVIOUS
  <2>2. i \in 1..Len(seq) /\ i + 1 \in 1..Len(seq) /\ i \in 1..(Len(seq) - 1) BY <1>2
  <2>3. h[i] \in Known /\ h[i + 1] \in Known BY <1>4, <2>2
  <2>4. h[i] = seq[i].head /\ h[i + 1] = seq[i + 1].head BY <1>2, <2>2
  <2>5. CompareStanzas(seq[i], seq[i + 1]) <= 0 BY <2>2 DEF IsSorted
  <2>6. NotBefore(h[i], h[i + 1]) BY <2>3, <2>4, <2>5, CompareStanzasIs
  <2> QED BY <1>1, <2>3, <2>6
<1>6. \A i, j \in 1..Len(h) : i < j => <<h[i], h[j]>> \in R
  BY <1>2, <1>3, <1>5, Pairwise
<1>7. \A i, j \in 1..Len(seq) : i < j => NotBefore(h[i], h[j])
  BY <1>1, <1>2, <1>4, <1>6
<1>8. InOrder(h)
  BY <1>2, <1>7 DEF InOrder, NotBefore
<1> QED BY <1>8 DEF h

-----------------------------------------------------------------------------
\* Which stanzas replace each other.
LEMMA ReplacesIs ==
    ASSUME NEW keep \in BOOLEAN
    PROVE  /\ \A s : Replaces(s, s, keep)
           /\ \A s, t : Replaces(s, t, keep) => Replaces(t, s, keep)
           /\ \A s, t, u : Replaces(s, t, keep) /\ Replaces(t, u, keep) => Replaces(s, u, keep)
           /\ \A s, t : SameStanza(s, t) => Replaces(s, t, keep)
           /\ keep => \A s, t : Replaces(s, t, keep) => SameStanza(s, t)
           /\ ~keep => \A s, t : SamePackage(s, t) => Replaces(s, t, keep)
<1>1. CASE keep
  BY <1>1 DEF Replaces, SameStanza, SamePackage
<1>2. CASE ~keep
  BY <1>2 DEF Replaces, SameStanza, SamePackage
<1> QED BY <1>1, <1>2

\* No two members are of one package, architecture and version.
Single(seq) == \A i, j \in 1..Len(seq) : SameStanza(seq[i].head, seq[j].head) => i = j

LEMMA SingleIs ==
    ASSUME NEW seq \in Seq(Stanzas)
    PROVE  IsIndex(Heads(seq)) <=> Single(seq)
BY HeadsIs DEF IsIndex, Single

\* seq with st in the place of what st replaces.
Updates(u, seq, st, keep) ==
    /\ u \in Seq(Stanzas) /\ Single(u)
    /\ \A i \in 1..Len(u) :
          \/ u[i].head = st.head
          \/ \E p \in 1..Len(seq) :
                u[i].head = seq[p].head /\ ~Replaces(st.head, seq[p].head, keep)
    /\ \E i \in 1..Len(u) : u[i].head = st.head
    /\ \A p \in 1..Len(seq) : ~Replaces(st.head, seq[p].head, keep) =>
          \E i \in 1..Len(u) : u[i].head = seq[p].head

LEMMA UpdatedIs ==
    ASSUME NEW seq \in Seq(Stanzas), NEW st \in Stanzas, NEW keep \in BOOLEAN, Single(seq)
    PROVE  Updates(AddOrUpdate(seq, st, keep), seq, st, keep)
<1> DEFINE n == Len(seq)
           R(s) == Replaces(st.head, s.head, keep)
           old == {p \in DOMAIN seq : Replaces(st.head, seq[p].head, keep)}
           m == Min(old)
           y == [seq EXCEPT ![m] = st]
           P == {p \in DOMAIN seq : p = m \/ p \notin old}
           u == AddOrUpdate(seq, st, keep)
<1>1. n \in Nat /\ DOMAIN seq = 1..n /\ \A p \in 1..n : seq[p] \in Stanzas
  OBVIOUS
<1>2. u = IF old = {} THEN Append(seq, st) ELSE IF keep THEN y ELSE Picked(y, P)
  BY DEF AddOrUpdate
<1>3. \A p \in 1..n : p \in old <=> R(seq[p])
  BY <1>1
<1>4. \A s : SameStanza(st.head, s.head) => R(s)
  BY ReplacesIs
<1>5. \A s, t : SameStanza(s.head, t.head) => SameStanza(t.head, s.head)
  BY DEF SameStanza, SamePackage
<1>6. \A p, q \in 1..n : SameStanza(seq[p].head, seq[q].head) => p = q
  BY DEF Single
<1> DEFINE D == Updates(u, seq, st, keep)
<1>7. CASE old = {}
  <2> DEFINE z == Append(seq, st)
             k == n + 1
  <2>1. z \in Seq(Stanzas) /\ Len(z) = k /\ z[k] = st /\ \A p \in 1..n : z[p] = seq[p]
    BY <1>1
  <2>2. u = z BY <1>2, <1>7
  <2>3. \A p \in 1..n : ~R(seq[p]) BY <1>3, <1>7
  <2>4. k \in 1..k /\ \A p \in 1..k : p \in 1..n \/ p = k BY <1>1
  <2>5. \A p \in 1..n : p \in 1..k BY <1>1
  <2> HIDE DEF z, k, n, u, R
  <2>6. Single(z)
    BY <1>4, <1>5, <1>6, <2>1, <2>3, <2>4 DEF Single
  <2>7. \A i \in 1..k : z[i].head = st.head \/ \E p \in 1..n : z[i].head = seq[p].head /\ ~R(seq[p])
    BY <2>1, <2>3, <2>4
  <2>8. \A p \in 1..n : ~R(seq[p]) => \E i \in 1..k : z[i].head = seq[p].head
    BY <2>1, <2>5
  <2>9. Updates(z, seq, st, keep)
    BY <2>1, <2>4, <2>6, <2>7, <2>8 DEF Updates, n, R
  <2> QED BY <2>2, <2>9 DEF u
<1>8. CASE old # {}
  <2>1. old \in SUBSET (0..n) BY <1>1
  <2>2. m \in old
    <3> HIDE DEF old
    <3> QED BY <1>1, <1>8, <2>1, MinIs
  <2>3. m \in 1..n /\ R(seq[m]) BY <1>1, <1>3, <2>2
  <2> HIDE DEF m, old, u
  <2>4. y \in Seq(Stanzas) /\ Len(y) = n /\ y[m] = st /\ \A p \in 1..n : p # m => y[p] = seq[p]
    BY <1>1, <2>3
  <2> HIDE DEF y
  <2>5. CASE keep
    <3>1. u = y BY <1>2, <1>8, <2>5
    <3>2. \A p \in 1..n : p # m => ~R(seq[p])
      <4>1. SUFFICES ASSUME NEW p \in 1..n, p # m, R(seq[p]) PROVE FALSE OBVIOUS
      <4>2. SameStanza(st.head, seq[p].head) /\ SameStanza(st.head, seq[m].head)
        BY <2>3, <2>5, <4>1, ReplacesIs
      <4>3. SameStanza(seq[p].head, seq[m].head) BY <4>2 DEF SameStanza, SamePackage
      <4> QED BY <1>6, <2>3, <4>1, <4>3
    <3> HIDE DEF n, R
    <3>3. Single(y)
      BY <1>4, <1>5, <1>6, <2>3, <2>4, <3>2 DEF Single
    <3>4. \A i \in 1..n : y[i].head = st.head \/ \E p \in 1..n : y[i].head = seq[p].head /\ ~R(seq[p])
      BY <2>4, <3>2
    <3>5. \A p \in 1..n : ~R(seq[p]) => \E i \in 1..n : y[i].head = seq[p].head
      BY <2>3, <2>4
    <3>6. Updates(y, seq, st, keep)
      BY <2>3, <2>4, <3>3, <3>4, <3>5 DEF Updates, n, R
    <3> QED BY <3>1, <3>6 DEF u
  <2>6. CASE ~keep
    <3> DEFINE z == Picked(y, P)
    <3>1. u = z BY <1>2, <1>8, <2>6
    <3>2. \A p \in 1..n : p \in P <=> (p = m \/ ~R(seq[p])) BY <1>1, <1>3
    <3> HIDE DEF P
    <3>3. z \in Seq(Stanzas) /\ PickedFrom(z, y, P, n) BY <2>4, PickedFacts
    <3> HIDE DEF z, n, R
    <3>4. /\ \A i \in 1..Len(z) : \E p \in 1..n : p \in P /\ z[i] = y[p]
          /\ \A p \in 1..n : p \in P => \E i \in 1..Len(z) : z[i] = y[p]
          /\ \A i, j \in 1..Len(z) : i # j =>
                \E p, q \in 1..n : p \in P /\ q \in P /\ p # q /\ z[i] = y[p] /\ z[j] = y[q]
      BY <3>3 DEF PickedFrom
    <3>5. \A p, q \in 1..n : p \in P /\ q \in P /\ p # q => ~SameStanza(y[p].head, y[q].head)
      BY <1>4, <1>5, <1>6, <2>3, <2>4, <3>2
    <3>6. Single(z)
      <4>1. SUFFICES ASSUME NEW i \in 1..Len(z), NEW j \in 1..Len(z), i # j
                     PROVE  ~SameStanza(z[i].head, z[j].head)
        BY DEF Single
      <4>2. PICK p \in 1..n, q \in 1..n :
                p \in P /\ q \in P /\ p # q /\ z[i] = y[p] /\ z[j] = y[q]
        BY <3>4, <4>1
      <4> QED BY <3>5, <4>2
    <3>7. ASSUME NEW i \in 1..Len(z)
          PROVE  z[i].head = st.head \/ \E p \in 1..n : z[i].head = seq[p].head /\ ~R(seq[p])
      <4>1. PICK p \in 1..n : p \in P /\ z[i] = y[p] BY <3>4
      <4>2. CASE p = m BY <2>4, <4>1, <4>2
      <4>3. CASE p # m BY <2>4, <3>2, <4>1, <4>3
      <4> QED BY <4>2, <4>3
    <3>8. \E i \in 1..Len(z) : z[i].head = st.head
      BY <2>3, <2>4, <3>2, <3>4
    <3>9. \A p \in 1..n : ~R(seq[p]) => \E i \in 1..Len(z) : z[i].head = seq[p].head
      <4>1. SUFFICES ASSUME NEW p \in 1..n, ~R(seq[p])
                     PROVE  \E i \in 1..Len(z) : z[i].head = seq[p].head
        OBVIOUS
      <4>2. p # m /\ p \in P BY <2>3, <3>2, <4>1
      <4>3. y[p] = seq[p] BY <2>4, <4>2
      <4>4. PICK i \in 1..Len(z) : z[i] = y[p] BY <3>4, <4>2
      <4> QED BY <4>3, <4>4
    <3>10. Updates(z, seq, st, keep)
      BY <3>3, <3>6, <3>7, <3>8, <3>9 DEF Updates, n, R
    <3> QED BY <3>1, <3>10 DEF u
  <2> QED BY <2>5, <2>6
<1> QED BY <1>7, <1>8

LEMMA UpdatedHeads ==
    ASSUME NEW seq \in Seq(Stanzas), NEW st \in Stanzas, NEW keep \in BOOLEAN, NEW u,
           Updates(u, seq, st, keep)
    PROVE  \A h : h \in Range(Heads(u)) <=>
                    \/ h = st.head
                    \/ h \in Range(Heads(seq)) /\ ~Replaces(st.head, h, keep)
<1>1. u \in Seq(Stanzas)
  BY DEF Updates
<1>2. \A h : h \in Range(Heads(u)) <=> \E i \in 1..Len(u) : h = u[i].head
  BY <1>1, RangeOfHeads
<1>3. \A h : h \in Range(Heads(seq)) <=> \E i \in 1..Len(seq) : h = seq[i].head
  BY RangeOfHeads
<1>4. ASSUME NEW h, h \in Range(Heads(u))
      PROVE  h = st.head \/ (h \in Range(Heads(seq)) /\ ~Replaces(st.head, h, keep))
  <2>1. PICK i \in 1..Len(u) : h = u[i].head BY <1>2, <1>4
  <2>2. CASE u[i].head = st.head BY <2>1, <2>2
  <2>3. CASE u[i].head # st.head
    <3>1. PICK p \in 1..Len(seq) : u[i].head = seq[p].head /\ ~Replaces(st.head, seq[p].head, keep)
      BY <2>3 DEF Updates
    <3> QED BY <1>3, <2>1, <3>1
  <2> QED BY <2>2, <2>3
<1>5. st.head \in Range(Heads(u))
  BY <1>2 DEF Updates
<1>6. ASSUME NEW h, h \in Range(Heads(seq)), ~Replaces(st.head, h, keep)
      PROVE  h \in Range(Heads(u))
  <2>1. PICK p \in 1..Len(seq) : h = seq[p].head BY <1>3, <1>6
  <2>2. \E i \in 1..Len(u) : u[i].head = seq[p].head BY <1>6, <2>1 DEF Updates
  <2> QED BY <1>2, <2>1, <2>2
<1> QED BY <1>4, <1>5, <1>6

\* What now is in the index, where was was before and of the batch done is merged.
Published(now, was, done, keep) ==
    /\ \A s \in now :
          \/ /\ s \in done
             /\ keep \/ \A d \in done : SamePackage(d, s) => ~DebLess(s.version, d.version)
          \/ s \in was /\ \A d \in done : ~Replaces(d, s, keep)
    /\ \A s \in was \cup done : \E t \in now : Replaces(s, t, keep)
    /\ \A d \in done : \A s, t \in now : Replaces(d, s, keep) /\ Replaces(d, t, keep) => s = t

LEMMA NothingPublished ==
    ASSUME NEW now, NEW keep \in BOOLEAN
    PROVE  Published(now, now, {}, keep)
BY ReplacesIs DEF Published

\* One more package, which no package before it is later than.
LEMMA OneMore ==
    ASSUME NEW now, NEW was, NEW done, NEW keep \in BOOLEAN, Published(now, was, done, keep),
           NEW h, ~DebLess(h.version, h.version),
           \A d \in done : SamePackage(d, h) => ~DebLess(h.version, d.version),
           NEW next, \A s : s \in next <=> s = h \/ (s \in now /\ ~Replaces(h, s, keep))
    PROVE  Published(next, was, done \cup {h}, keep)
<1> DEFINE all == done \cup {h}
<1>1. ASSUME NEW s \in next
      PROVE  \/ /\ s \in all
                /\ keep \/ \A d \in all : SamePackage(d, s) => ~DebLess(s.version, d.version)
             \/ s \in was /\ \A d \in all : ~Replaces(d, s, keep)
  <2>1. CASE s = h BY <2>1
  <2>2. CASE s # h
    <3>1. s \in now /\ ~Replaces(h, s, keep) BY <2>2
    <3>2. CASE /\ s \in done
               /\ keep \/ \A d \in done : SamePackage(d, s) => ~DebLess(s.version, d.version)
      <4>1. ~keep => ~SamePackage(h, s) BY <3>1, ReplacesIs
      <4> QED BY <3>2, <4>1
    <3>3. CASE s \in was /\ \A d \in done : ~Replaces(d, s, keep)
      BY <3>1, <3>3
    <3> QED BY <3>1, <3>2, <3>3 DEF Published
  <2> QED BY <2>1, <2>2
<1>2. ASSUME NEW s \in was \cup all PROVE \E t \in next : Replaces(s, t, keep)
  <2>1. h \in next /\ Replaces(h, h, keep) BY ReplacesIs
  <2>2. CASE s = h BY <2>1, <2>2
  <2>3. CASE s # h
    <3>1. PICK t \in now : Replaces(s, t, keep) BY <1>2, <2>3 DEF Published
    <3>2. CASE Replaces(h, t, keep)
      <4>1. Replaces(s, h, keep) BY <3>1, <3>2, ReplacesIs
      <4> QED BY <2>1, <4>1
    <3>3. CASE ~Replaces(h, t, keep) BY <3>1, <3>3
    <3> QED BY <3>2, <3>3
  <2> QED BY <2>2, <2>3
<1>3. ASSUME NEW d \in all, NEW s \in next, NEW t \in next,
             Replaces(d, s, keep), Replaces(d, t, keep)
      PROVE  s = t
  <2>1. Replaces(s, t, keep) /\ Replaces(t, s, keep) BY <1>3, ReplacesIs
  <2>2. CASE s = h \/ t = h BY <2>1, <2>2
  <2>3. CASE s # h /\ t # h
    <3>1. s \in now /\ t \in now /\ d # h BY <1>3, <2>3
    <3> QED BY <1>3, <3>1 DEF Published
  <2> QED BY <2>2, <2>3
<1> HIDE DEF all
<1>4. Published(next, was, all, keep)
  BY <1>1, <1>2, <1>3 DEF Published
<1> QED BY <1>4 DEF all

\* What is picked of an index is an index.
LEMMA PickedSingle ==
    ASSUME NEW seq \in Seq(Stanzas), Single(seq), NEW P
    PROVE  Picked(seq, P) \in Seq(Stanzas) /\ Single(Picked(seq, P))
<1> DEFINE x == Picked(seq, P)
<1>1. x \in Seq(Stanzas) /\ PickedFrom(x, seq, P, Len(seq))
  BY PickedFacts
<1> HIDE DEF x
<1>2. ASSUME NEW i \in 1..Len(x), NEW j \in 1..Len(x), i # j
      PROVE  ~SameStanza(x[i].head, x[j].head)
  <2>1. PICK p \in 1..Len(seq), q \in 1..Len(seq) : p # q /\ x[i] = seq[p] /\ x[j] = seq[q]
    BY <1>1, <1>2 DEF PickedFrom
  <2> QED BY <2>1 DEF Single
<1>3. Single(x)
  BY <1>2 DEF Single
<1> QED BY <1>1, <1>3 DEF x

\* What is sorted has the same stanzas.
LEMMA ArrangedIs ==
    ASSUME NEW seq \in Seq(Stanzas), Single(seq), NEW t \in Arrangements(seq)
    PROVE  t \in Seq(Stanzas) /\ Single(t) /\ Range(Heads(t)) = Range(Heads(seq))
<1> DEFINE n == Len(seq)
<1>1. DOMAIN seq = 1..n /\ n \in Nat /\ \A i \in 1..n : seq[i] \in Stanzas
  OBVIOUS
<1>2. PICK f \in Bijection(1..n, 1..n) : t = [i \in 1..n |-> seq[f[i]]]
  BY <1>1 DEF Arrangements
<1>3. /\ f \in [1..n -> 1..n]
      /\ \A i, j \in 1..n : f[i] = f[j] => i = j
      /\ \A p \in 1..n : \E i \in 1..n : f[i] = p
  BY DEF Bijection, Injection, Surjection, IsInjective
<1> HIDE DEF n
<1>4. \A i \in 1..n : t[i] = seq[f[i]] /\ f[i] \in 1..n
  BY <1>2, <1>3
<1>5. t \in Seq(Stanzas) /\ Len(t) = n
  <2>1. t \in [1..n -> Stanzas] BY <1>1, <1>2, <1>3
  <2> QED BY <1>1, <2>1
<1>6. Single(t)
  <2>1. SUFFICES ASSUME NEW i \in 1..n, NEW j \in 1..n, SameStanza(t[i].head, t[j].head)
                 PROVE  i = j
    BY <1>5 DEF Single
  <2>2. SameStanza(seq[f[i]].head, seq[f[j]].head) BY <1>4, <2>1
  <2>3. f[i] = f[j] BY <1>4, <2>2 DEF Single, n
  <2> QED BY <1>3, <2>3
<1>7. \A h : (\E i \in 1..n : h = t[i].head) <=> (\E i \in 1..n : h = seq[i].head)
  <2>1. ASSUME NEW h, NEW i \in 1..n, h = t[i].head PROVE \E p \in 1..n : h = seq[p].head
    BY <1>4, <2>1
  <2>2. ASSUME NEW h, NEW p \in 1..n, h = seq[p].head PROVE \E i \in 1..n : h = t[i].head
    <3>1. PICK i \in 1..n : f[i] = p BY <1>3
    <3> QED BY <1>4, <2>2, <3>1
  <2> QED BY <2>1, <2>2
<1>8. \A h : h \in Range(Heads(t)) <=> h \in Range(Heads(seq))
  <2>1. \A h : h \in Range(Heads(t)) <=> \E i \in 1..n : h = t[i].head BY <1>5, RangeOfHeads
  <2>2. \A h : h \in Range(Heads(seq)) <=> \E i \in 1..n : h = seq[i].head BY RangeOfHeads DEF n
  <2> QED BY <1>7, <2>1, <2>2
<1> QED BY <1>5, <1>6, <1>8

-----------------------------------------------------------------------------
\* The packages of the batch that are merged.
Done == debs \ Range(batch)

\* The batch has each package once, latest versions last, and after what is merged of it.
BatchIs(seq, done) ==
    /\ \A i, j \in 1..Len(seq) : seq[i] = seq[j] => i = j
    /\ \A i, j \in 1..Len(seq) : i < j => DebsSorted(seq[i], seq[j])
    /\ \A d \in done : \A i \in 1..Len(seq) : DebsSorted(d, seq[i])

\* The inductive invariant: every stanza, in the file or in hand, is in the form that
\* the parser and the printer keep, and the index in hand is what BatchIsPublished says
\* of a stored one, for the packages that are merged already.
IInv ==
    /\ TypeOK
    /\ FileIs(stored)
    /\ packages \in Seq(Stanzas)
    /\ StoredInOrder
    /\ BatchIs(batch, Done)
    /\ ~open => batch = <<>>
    /\ open => Published(Range(Heads(packages)), Range(before), Done, preserve)
    /\ ~open => Published(Range(Listed(stored)), Range(before), Done, preserve)

LEMMA EmptyBatch == ASSUME NEW done PROVE BatchIs(<<>>, done)
<1>1. 1..Len(<<>>) = {}
  OBVIOUS
<1> QED BY <1>1 DEF BatchIs

LEMMA RangeOfEmpty == Range(<<>>) = {}
<1>1. DOMAIN <<>> = {}
  OBVIOUS
<1> QED BY <1>1 DEF Range

LEMMA EmptyIndex ==
    Heads(<<>>) \in Seq(Known) /\ IsIndex(Heads(<<>>)) /\ <<>> \in Seq(Stanzas)
<1>1. <<>> \in Seq(Stanzas)
  OBVIOUS
<1>2. Single(<<>>)
  BY DEF Single
<1> QED BY <1>1, <1>2, HeadsIs, SingleIs

LEMMA DebsKnown == Debs \subseteq Known
BY DEF Known

LEMMA IndexInit == Init => IInv
<1> SUFFICES ASSUME Init PROVE IInv
  OBVIOUS
<1> DEFINE stanzas == [n \in DOMAIN before |-> Control(before[n])]
<1>1. /\ before \in Seq(Known) /\ IsIndex(before) /\ InOrder(before)
      /\ batch = <<>> /\ packages = <<>> /\ debs = {} /\ open = FALSE /\ merged = 0
      /\ preserve \in BOOLEAN /\ stored = Written(stanzas)
  BY DebAssumption DEF Init
<1>2. \A n \in 1..Len(before) : /\ before[n] \in Known /\ Control(before[n]) \in Seq(Lines)
                                /\ IsStanza(Control(before[n]), before[n])
  BY <1>1, ControlAssumption
<1>3. /\ stanzas \in Seq(Seq(Lines)) /\ Len(before) = Len(stanzas)
      /\ \A n \in 1..Len(stanzas) : stanzas[n] = Control(before[n])
  <2>1. DOMAIN before = 1..Len(before) /\ Len(before) \in Nat BY <1>1
  <2>2. stanzas \in [1..Len(before) -> Seq(Lines)] BY <1>2, <2>1
  <2> QED BY <2>1, <2>2
<1> HIDE DEF stanzas
<1>4. \A n \in 1..Len(stanzas) : /\ IsStanza(stanzas[n], before[n])
                                 /\ Words(stanzas[n]) = Words(Control(before[n]))
  BY <1>2, <1>3
<1>5. FileIs(stored) /\ Listed(stored) = before
  BY <1>1, <1>3, <1>4, WrittenFile
<1>6. Done = {}
  BY <1>1 DEF Done
<1>7. Published(Range(Listed(stored)), Range(before), Done, preserve)
  BY <1>1, <1>5, <1>6, NothingPublished
<1>8. TypeOK
  <2>1. Listed(stored) \in Seq(Known) /\ IsIndex(Listed(stored)) BY <1>1, <1>5
  <2>2. Heads(packages) \in Seq(Known) /\ IsIndex(Heads(packages)) BY <1>1, EmptyIndex
  <2>3. batch \in Seq(debs) /\ debs \subseteq Debs BY <1>1
  <2>4. merged \in 0..MaxDebs BY <1>1, DebAssumption
  <2>5. open \in BOOLEAN BY <1>1
  <2> QED BY <1>1, <2>1, <2>2, <2>3, <2>4, <2>5 DEF TypeOK
<1> QED BY <1>1, <1>5, <1>7, <1>8, EmptyBatch, EmptyIndex DEF IInv, StoredInOrder

LEMMA MergeOneStep == IInv /\ MergeOne => IInv'
<1> SUFFICES ASSUME IInv, MergeOne PROVE IInv'
  OBVIOUS
<1> DEFINE h == Head(batch)
           st == ParseDeb(h)
           rest == Tail(batch)
           n == Len(batch)
<1>1. /\ open /\ batch # <<>> /\ batch' = rest /\ packages' = AddOrUpdate(packages, st, preserve)
      /\ UNCHANGED <<stored, preserve, open, debs, before, merged>>
  BY DEF MergeOne
<1>2. /\ packages \in Seq(Stanzas) /\ Single(packages) /\ preserve \in BOOLEAN
      /\ debs \subseteq Known /\ batch \in Seq(debs)
  BY SingleIs, DebsKnown DEF IInv, TypeOK
<1>3. /\ n \in Nat /\ n >= 1 /\ h = batch[1] /\ h \in debs /\ rest \in Seq(debs)
      /\ Len(rest) = n - 1 /\ \A i \in 1..(n - 1) : rest[i] = batch[i + 1]
  <2>1. batch \in Seq(debs) /\ batch # <<>> BY <1>1, <1>2
  <2> QED BY <2>1
<1>4. h \in Known /\ st \in Stanzas /\ st.head = h
  <2>1. h \in Known BY <1>2, <1>3
  <2> HIDE DEF h
  <2>2. InHand(st) /\ st.head = h /\ Words(st.description) = Words(Control(h))
    BY <2>1, DebIs
  <2>3. st \in [head : Known, description : Seq(Parts)]
    BY <2>1, <2>2 DEF InHand, IsValue
  <2> QED BY <2>1, <2>2, <2>3 DEF Stanzas
<1>5. Updates(packages', packages, st, preserve)
  <2> HIDE DEF st
  <2> QED BY <1>1, <1>2, <1>4, UpdatedIs
<1>6. packages' \in Seq(Stanzas) /\ Single(packages')
  BY <1>5 DEF Updates
<1>7. \A s : s \in Range(Heads(packages')) <=>
                 s = h \/ (s \in Range(Heads(packages)) /\ ~Replaces(h, s, preserve))
  <2> HIDE DEF st, h
  <2> QED BY <1>2, <1>4, <1>5, UpdatedHeads
<1>8. Done' = Done \cup {h}
  <2>1. /\ Range(batch) = {batch[i] : i \in 1..n}
        /\ Range(rest) = {rest[i] : i \in 1..(n - 1)}
    <3>1. DOMAIN batch = 1..n BY <1>2
    <3>2. DOMAIN rest = 1..(n - 1) BY <1>3
    <3> HIDE DEF rest, n
    <3> QED BY <3>1, <3>2 DEF Range
  <2>2. \A i, j \in 1..n : batch[i] = batch[j] => i = j
    BY DEF IInv, BatchIs
  <2> HIDE DEF rest, n, h
  <2>3. \A s : s \in Range(batch) <=> s = h \/ s \in Range(rest)
    <3>1. ASSUME NEW s, s \in Range(batch) PROVE s = h \/ s \in Range(rest)
      <4>1. PICK i \in 1..n : s = batch[i] BY <2>1, <3>1
      <4>2. CASE i = 1 BY <1>3, <4>1, <4>2
      <4>3. CASE i # 1
        <5> DEFINE k == i - 1
        <5>1. k \in 1..(n - 1) /\ k + 1 = i BY <1>3, <4>3
        <5> HIDE DEF k
        <5> QED BY <1>3, <2>1, <4>1, <5>1
      <4> QED BY <4>2, <4>3
    <3>2. h \in Range(batch) BY <1>3, <2>1
    <3>3. ASSUME NEW s, s \in Range(rest) PROVE s \in Range(batch)
      <4>1. PICK i \in 1..(n - 1) : s = rest[i] BY <2>1, <3>3
      <4>2. i + 1 \in 1..n /\ rest[i] = batch[i + 1] BY <1>3
      <4> QED BY <2>1, <4>1, <4>2
    <3> QED BY <3>1, <3>2, <3>3
  <2>4. h \notin Range(rest)
    <3>1. SUFFICES ASSUME NEW i \in 1..(n - 1), h = rest[i] PROVE FALSE BY <2>1
    <3>2. i + 1 \in 1..n /\ rest[i] = batch[i + 1] /\ i + 1 # 1 /\ 1 \in 1..n BY <1>3
    <3> QED BY <1>3, <2>2, <3>1, <3>2
  <2> QED BY <1>1, <1>3, <2>3, <2>4 DEF Done
<1>9. \A d \in Done : DebsSorted(d, h) /\ d \in Debs
  <2>1. 1 \in 1..n BY <1>3
  <2> QED BY <1>3, <2>1 DEF IInv, BatchIs, TypeOK, Done
<1>10. BatchIs(batch, Done)'
  <2>1. /\ \A i, j \in 1..n : batch[i] = batch[j] => i = j
        /\ \A i, j \in 1..n : i < j => DebsSorted(batch[i], batch[j])
        /\ \A d \in Done : \A i \in 1..n : DebsSorted(d, batch[i])
    BY DEF IInv, BatchIs
  <2> HIDE DEF rest, n, h
  <2>3. ASSUME NEW i \in 1..(n - 1), NEW j \in 1..(n - 1), rest[i] = rest[j] PROVE i = j
    <3>1. i + 1 \in 1..n /\ j + 1 \in 1..n /\ batch[i + 1] = batch[j + 1] BY <1>3, <2>3
    <3>2. i + 1 = j + 1 BY <2>1, <3>1
    <3> QED BY <3>2
  <2>4. ASSUME NEW i \in 1..(n - 1), NEW j \in 1..(n - 1), i < j PROVE DebsSorted(rest[i], rest[j])
    <3>1. i + 1 \in 1..n /\ j + 1 \in 1..n /\ i + 1 < j + 1 BY <1>3, <2>4
    <3>2. DebsSorted(batch[i + 1], batch[j + 1]) BY <2>1, <3>1
    <3> QED BY <1>3, <3>2
  <2>5. ASSUME NEW d \in Done \cup {h}, NEW i \in 1..(n - 1) PROVE DebsSorted(d, rest[i])
    <3>1. 1 \in 1..n /\ i + 1 \in 1..n /\ 1 < i + 1 BY <1>3
    <3>2. DebsSorted(batch[1], batch[i + 1]) BY <2>1, <3>1
    <3>3. d \in Done => DebsSorted(d, batch[i + 1]) BY <2>1, <3>1
    <3> QED BY <1>3, <2>5, <3>2, <3>3
  <2>6. BatchIs(rest, Done \cup {h})
    BY <1>3, <2>3, <2>4, <2>5 DEF BatchIs
  <2> QED BY <1>1, <1>8, <2>6
<1>11. Published(Range(Heads(packages')), Range(before), Done \cup {h}, preserve)
  <2>1. Published(Range(Heads(packages)), Range(before), Done, preserve)
    BY <1>1 DEF IInv
  <2>2. ~DebLess(h.version, h.version) BY <1>4, KnownIs, DebLessIsOrder
  <2>3. ASSUME NEW d \in Done, SamePackage(d, h) PROVE ~DebLess(h.version, d.version)
    <3>1. d \in Known /\ d.name = h.name /\ d.arch = h.arch /\ DebsSorted(d, h)
      BY <1>9, <2>3, DebsKnown DEF SamePackage
    <3>2. d.name \in Nat /\ d.arch \in Nat BY <3>1, KnownIs
    <3> HIDE DEF h
    <3> QED BY <3>1, <3>2 DEF DebsSorted
  <2> HIDE DEF h
  <2> QED BY <1>2, <1>7, <2>1, <2>2, <2>3, OneMore
<1>12. /\ Heads(packages') \in Seq(Known) /\ IsIndex(Heads(packages'))
  BY <1>6, HeadsIs, SingleIs
<1>13. TypeOK'
  BY <1>1, <1>3, <1>12 DEF IInv, TypeOK
<1> QED BY <1>1, <1>6, <1>8, <1>10, <1>11, <1>13 DEF IInv, StoredInOrder, FileIs

LEMMA ParseIndexStep == IInv /\ ParseIndex => IInv'
<1> SUFFICES ASSUME IInv, ParseIndex PROVE IInv'
  OBVIOUS
<1>1. PICK chosen \in Batches :
        /\ merged' = merged + Cardinality(chosen) /\ merged' <= MaxDebs
        /\ debs' = chosen
        /\ batch' \in Bijection(1..Cardinality(chosen), chosen) /\ IsSorted(batch', CompareDebs)
  BY DEF ParseIndex
<1>2. /\ open' = TRUE /\ packages' = Parsed(stored) /\ before' = Listed(stored)
      /\ preserve' \in BOOLEAN /\ stored' = stored
  BY DEF ParseIndex
<1> DEFINE c == Cardinality(chosen)
<1>3. c \in Nat
  BY DebAssumption, FS_CardinalityType
<1>4. chosen \subseteq Debs /\ chosen \subseteq Known
  BY DebsKnown DEF Debs
<1> HIDE DEF c
<1>5. /\ batch' \in [1..c -> chosen]
      /\ \A i, j \in 1..c : batch'[i] = batch'[j] => i = j
      /\ \A d \in chosen : \E i \in 1..c : batch'[i] = d
  BY <1>1 DEF Bijection, Injection, Surjection, IsInjective, c
<1>6. batch' \in Seq(chosen) /\ batch' \in Seq(Known) /\ Len(batch') = c
  <2>1. batch' \in [1..c -> Known] BY <1>4, <1>5
  <2> QED BY <1>3, <1>5, <2>1
<1>7. \A i, j \in 1..Len(batch') : i < j => DebsSorted(batch'[i], batch'[j])
  BY <1>1, <1>6, SortedBatch
<1>8. Done' = {}
  <2>1. DOMAIN batch' = 1..c BY <1>5
  <2>2. \A d \in chosen : d \in Range(batch') BY <1>5, <2>1 DEF Range
  <2> QED BY <1>1, <2>2 DEF Done
<1>9. BatchIs(batch, Done)'
  <2>1. BatchIs(batch', {}) BY <1>5, <1>6, <1>7 DEF BatchIs
  <2> QED BY <1>8, <2>1
<1>10. FileIs(stored) /\ packages' \in Seq(Stanzas) /\ Listed(stored) = Heads(packages')
  BY <1>2, FileLists DEF IInv, FileIs
<1>11. Listed(stored) \in Seq(Known) /\ IsIndex(Listed(stored))
  BY DEF IInv, TypeOK
<1>12. Published(Range(Heads(packages')), Range(before'), Done', preserve')
  BY <1>2, <1>8, <1>10, NothingPublished
<1>13. TypeOK'
  <2>1. merged' \in 0..MaxDebs BY <1>1, <1>3, DebAssumption DEF IInv, TypeOK, c
  <2>2. batch' \in Seq(debs') /\ debs' \subseteq Debs BY <1>1, <1>4, <1>6
  <2>3. Listed(stored)' = Listed(stored) BY <1>2
  <2> QED BY <1>2, <1>10, <1>11, <2>1, <2>2, <2>3 DEF TypeOK
<1>14. FileIs(stored)' /\ StoredInOrder'
  BY <1>2, <1>10 DEF IInv, StoredInOrder
<1> QED BY <1>2, <1>9, <1>10, <1>12, <1>13, <1>14 DEF IInv

LEMMA RemoveStep == IInv /\ RemovePackages => IInv'
<1> SUFFICES ASSUME IInv, RemovePackages PROVE IInv'
  OBVIOUS
<1>1. /\ ~open /\ open' = TRUE
      /\ \E name, version : packages' = Without(Parsed(stored), name, version)
      /\ before' = Heads(packages') /\ debs' = {}
      /\ UNCHANGED <<stored, batch, preserve, merged>>
  BY DEF RemovePackages
<1>2. FileIs(stored) /\ Parsed(stored) \in Seq(Stanzas) /\ Single(Parsed(stored))
  <2>1. FileIs(stored) /\ Parsed(stored) \in Seq(Stanzas) BY DEF IInv, FileIs
  <2>2. IsIndex(Heads(Parsed(stored))) BY <2>1, FileLists DEF IInv, TypeOK
  <2> QED BY <2>1, <2>2, SingleIs
<1>3. packages' \in Seq(Stanzas) /\ Single(packages')
  BY <1>1, <1>2, PickedSingle DEF Without
<1>4. Heads(packages') \in Seq(Known) /\ IsIndex(Heads(packages'))
  BY <1>3, HeadsIs, SingleIs
<1>5. batch' = <<>> /\ Done' = {}
  BY <1>1 DEF IInv, Done
<1>6. BatchIs(batch, Done)'
  BY <1>5, EmptyBatch
<1>7. Published(Range(Heads(packages')), Range(before'), Done', preserve')
  BY <1>1, <1>5, NothingPublished DEF IInv, TypeOK
<1>8. TypeOK'
  <2>1. batch' \in Seq(debs') /\ debs' \subseteq Debs BY <1>1, <1>5
  <2>2. Listed(stored)' = Listed(stored) BY <1>1
  <2> QED BY <1>1, <1>4, <2>1, <2>2 DEF IInv, TypeOK
<1>9. FileIs(stored)' /\ StoredInOrder'
  BY <1>1, <1>2 DEF IInv, StoredInOrder
<1> QED BY <1>1, <1>3, <1>6, <1>7, <1>8, <1>9 DEF IInv

LEMMA SerializeStep == IInv /\ Serialize => IInv'
<1> SUFFICES ASSUME IInv, Serialize PROVE IInv'
  OBVIOUS
<1>1. PICK sorted \in Arrangements(packages) :
        /\ IsSorted(sorted, CompareStanzas)
        /\ stored' = Written([n \in DOMAIN sorted |-> PrintStanza(sorted[n])])
  BY DEF Serialize
<1>2. /\ open /\ batch = <<>> /\ open' = FALSE /\ packages' = <<>>
      /\ UNCHANGED <<batch, preserve, debs, before, merged>>
  BY DEF Serialize
<1> DEFINE stanzas == [n \in DOMAIN sorted |-> PrintStanza(sorted[n])]
           heads == Heads(sorted)
<1>3. packages \in Seq(Stanzas) /\ Single(packages)
  BY SingleIs DEF IInv, TypeOK
<1>4. sorted \in Seq(Stanzas) /\ Single(sorted) /\ Range(heads) = Range(Heads(packages))
  BY <1>1, <1>3, ArrangedIs
<1>5. /\ heads \in Seq(Known) /\ Len(heads) = Len(sorted) /\ IsIndex(heads)
      /\ \A i \in 1..Len(sorted) : heads[i] = sorted[i].head /\ sorted[i] \in Stanzas
  BY <1>4, HeadsIs, SingleIs
<1>6. InOrder(heads)
  BY <1>1, <1>4, SortedIndex
<1>7. \A i \in 1..Len(sorted) :
         /\ PrintStanza(sorted[i]) \in Seq(Lines) /\ IsStanza(PrintStanza(sorted[i]), heads[i])
         /\ Words(PrintStanza(sorted[i])) = Words(Control(heads[i]))
  <2>1. SUFFICES ASSUME NEW i \in 1..Len(sorted)
                 PROVE  LET s == sorted[i] IN
                        /\ PrintStanza(s) \in Seq(Lines) /\ IsStanza(PrintStanza(s), heads[i])
                        /\ Words(PrintStanza(s)) = Words(Control(heads[i]))
    OBVIOUS
  <2> DEFINE s == sorted[i]
  <2>2. /\ s.head = heads[i] /\ s.head \in Known /\ InHand(s)
        /\ Words(s.description) = Words(Control(s.head))
    BY <1>5 DEF Stanzas
  <2> HIDE DEF s, heads
  <2> QED BY <2>2, PrintedIs DEF s
<1>8. /\ stanzas \in Seq(Seq(Lines)) /\ Len(stanzas) = Len(sorted)
      /\ \A i \in 1..Len(sorted) : stanzas[i] = PrintStanza(sorted[i])
  <2>1. DOMAIN sorted = 1..Len(sorted) /\ Len(sorted) \in Nat BY <1>4
  <2>2. stanzas \in [1..Len(sorted) -> Seq(Lines)] BY <1>7, <2>1
  <2> QED BY <2>1, <2>2
<1>9. stored' = Written(stanzas)
  BY <1>1
<1> HIDE DEF stanzas, heads
<1>10. \A i \in 1..Len(stanzas) : /\ IsStanza(stanzas[i], heads[i])
                                  /\ Words(stanzas[i]) = Words(Control(heads[i]))
  BY <1>7, <1>8
<1>11. FileIs(Written(stanzas)) /\ Listed(Written(stanzas)) = heads
  BY <1>5, <1>8, <1>10, WrittenFile
<1>12. FileIs(stored') /\ Listed(stored') = heads
  BY <1>9, <1>11
<1>13. Done' = Done
  BY <1>2 DEF Done
<1>14. Published(Range(heads), Range(before'), Done', preserve')
  BY <1>2, <1>4, <1>13 DEF IInv
<1>15. TypeOK'
  <2>1. Listed(stored') \in Seq(Known) /\ IsIndex(Listed(stored')) BY <1>5, <1>12
  <2> QED BY <1>2, <2>1, EmptyIndex DEF IInv, TypeOK
<1>16. BatchIs(batch, Done)'
  BY <1>2, <1>13 DEF IInv
<1>17. StoredInOrder'
  BY <1>6, <1>12 DEF StoredInOrder
<1> QED BY <1>2, <1>12, <1>14, <1>15, <1>16, <1>17, EmptyIndex DEF IInv

LEMMA Unchanged == IInv /\ UNCHANGED vars => IInv'
BY DEF IInv, vars, TypeOK, StoredInOrder, Done

LEMMA IndexStep == IInv /\ [Next]_vars => IInv'
BY ParseIndexStep, MergeOneStep, RemoveStep, SerializeStep, Unchanged DEF Next

\* Before and after every step of a run the index, parsed, merged, printed or stored,
\* is one that the next step of index.go treats as it should.
THEOREM IndexIsInductive == Spec => []IInv
<1> QED BY IndexInit, IndexStep, PTL DEF Spec

\* The stored index, and the one in hand while AddOrUpdate merges into it, never have
\* two stanzas of one package, architecture and version.
THEOREM IndexTypes == Spec => []TypeOK
<1>1. IInv => TypeOK
  BY DEF IInv
<1> QED BY <1>1, IndexIsInductive, PTL

\* Whatever Index.Sort may do with stanzas that compare equal, what it stores is in the
\* order of names and, by deb-version(7), of versions, latest first.
THEOREM IndexInOrder == Spec => []StoredInOrder
<1>1. IInv => StoredInOrder
  BY DEF IInv
<1> QED BY <1>1, IndexIsInductive, PTL

\* For every batch and every index a run leaves what it should: merging the sorted batch
\* one by one (PublishDebFiles, AddOrUpdate) lets the latest version of a package win
\* and touches no other package.
THEOREM IndexHasBatch == Spec => []BatchIsPublished
<1>1. IInv => BatchIsPublished
  <2> SUFFICES ASSUME IInv PROVE BatchIsPublished
    OBVIOUS
  <2>1. CASE open BY <2>1 DEF BatchIsPublished
  <2>2. CASE ~open
    <3>1. Done = debs BY <2>2, RangeOfEmpty DEF IInv, Done
    <3>2. Published(Range(Listed(stored)), Range(before), debs, preserve)
      BY <2>2, <3>1 DEF IInv
    <3> QED BY <3>2 DEF BatchIsPublished, Published, Latest
  <2> QED BY <2>1, <2>2
<1> QED BY <1>1, IndexIsInductive, PTL

\* Over any number of runs, which parse and print the whole file, and for control files
\* with any number of lines, no line of a Description that says something is lost,
\* repeated or moved (ParseParagraphs, Paragraph.String).
THEOREM IndexKeepsWords == Spec => []WordsAreKept
<1>1. IInv => WordsAreKept
  <2> SUFFICES ASSUME IInv PROVE WordsAreKept
    OBVIOUS
  <2> DEFINE x == Parsed(stored)
  <2>1. Shown(stored) = Entered(x) BY DEF IInv, FileIs
  <2> HIDE DEF x
  <2>2. \A n \in DOMAIN Entered(x) : Entered(x)[n].words = Words(Control(Entered(x)[n].head))
    BY DEF Entered, Entry
  <2> QED BY <2>1, <2>2 DEF WordsAreKept
<1> QED BY <1>1, IndexIsInductive, PTL
=============================================================================
