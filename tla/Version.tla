------------------------------ MODULE Version ------------------------------
(***************************************************************************)
(* internal/debian/version.go: how debpub parses and compares versions.    *)
(* A text is the sequence of its bytes, none of which is 0 or outside      *)
(* ASCII.                                                                  *)
(***************************************************************************)
EXTENDS Integers, Sequences, FiniteSetsExt

CONSTANT MaxInt     \* the largest int

ASSUME MaxIntAssumption == MaxInt \in Nat

Plus == 43
Hyphen == 45
Colon == 58
Tilde == 126
Zero == 48

Bytes == 1..127
Digits == 48..57
Letters == 65..90 \cup 97..122

\* The number that a sequence of digits stands for.
Value(digits) ==
    LET value[k \in 0..Len(digits)] ==
            IF k = 0 THEN 0 ELSE 10 * value[k - 1] + (digits[k] - Zero)
    IN value[Len(digits)]

-----------------------------------------------------------------------------
\* strconv.Atoi, with 0 for a text that is no number or no int.
Atoi(text) ==
    LET signed == text # <<>> /\ text[1] \in {Plus, Hyphen}
        digits == IF signed THEN Tail(text) ELSE text
        number == IF signed /\ text[1] = Hyphen THEN -Value(digits) ELSE Value(digits)
    IN IF digits = <<>> \/ \E i \in DOMAIN digits : digits[i] \notin Digits THEN 0
       ELSE IF number \in -(MaxInt + 1)..MaxInt THEN number ELSE 0

Positions(text, c) == {n \in 1..Len(text) : text[n] = c}

\* The epoch ends at the first colon, the revision begins at the last hyphen.
ParseVersion(text) ==
    LET colons == Positions(text, Colon)
        rest == IF colons = {} THEN text ELSE SubSeq(text, Min(colons) + 1, Len(text))
        hyphens == Positions(rest, Hyphen)
    IN [epoch |-> IF colons = {} THEN 0 ELSE Atoi(SubSeq(text, 1, Min(colons) - 1)),
        upstream |-> IF hyphens = {} THEN rest ELSE SubSeq(rest, 1, Max(hyphens) - 1),
        revision |-> IF hyphens = {} THEN <<>> ELSE SubSeq(rest, Max(hyphens) + 1, Len(rest))]

-----------------------------------------------------------------------------
compareInt(a, b) == IF a < b THEN -1 ELSE IF a > b THEN 1 ELSE 0

\* Where two functions on 1..n first differ, compare their values.
CompareFirst(f, g, n) ==
    LET differ == {k \in 1..n : f[k] # g[k]} IN
    IF differ = {} THEN 0 ELSE compareInt(f[Min(differ)], g[Min(differ)])

\* Bug: punctuation in ASCII order, before the letters.
AsciiOrder(c) == IF c = Tilde THEN -1 ELSE c

orderChar(c) ==
    IF c = Tilde THEN -1 ELSE IF c \in Letters THEN c ELSE c + 256

\* The first position of text from i on whose character is none of chars.
Past(text, i, chars) ==
    LET others == {n \in i..Len(text) : text[n] \notin chars} IN
    IF others = {} THEN Len(text) + 1 ELSE Min(others)

\* Where the number after the non-digits from i on begins, its first digit but zeros,
\* and its end.
NumberFrom(text, i) == Past(text, i, Bytes \ Digits)
AfterZeros(text, i) == Past(text, NumberFrom(text, i), {Zero})
RunEnd(text, i) == Past(text, NumberFrom(text, i), Digits)

\* One character after the other, 0 where the shorter one has ended.
CompareNonDigits(s, t) ==
    LET n == Max({Len(s), Len(t)})
        orders(text) == [k \in 1..n |-> IF k <= Len(text) THEN orderChar(text[k]) ELSE 0]
    IN CompareFirst(orders(s), orders(t), n)

\* Without leading zeros, the longer number is the larger one.
CompareDigits(s, t) ==
    IF Len(s) # Len(t) THEN compareInt(Len(s), Len(t)) ELSE CompareFirst(s, t, Len(s))

\* The non-digits from positions i and j on, and the numbers after them.
CompareRuns(s, t, i, j) ==
    LET byNonDigits == CompareNonDigits(SubSeq(s, i, NumberFrom(s, i) - 1),
                                        SubSeq(t, j, NumberFrom(t, j) - 1))
    IN IF byNonDigits # 0 THEN byNonDigits
       ELSE CompareDigits(SubSeq(s, AfterZeros(s, i), RunEnd(s, i) - 1),
                          SubSeq(t, AfterZeros(t, j), RunEnd(t, j) - 1))

\* Runs of non-digits and of digits in turn, from a pair of positions on.
compareParts(s, t) ==
    LET compare[p \in (1..(Len(s) + 1)) \X (1..(Len(t) + 1))] ==
            IF p[1] > Len(s) /\ p[2] > Len(t) THEN 0
            ELSE IF CompareRuns(s, t, p[1], p[2]) # 0 THEN CompareRuns(s, t, p[1], p[2])
            ELSE compare[<<RunEnd(s, p[1]), RunEnd(t, p[2])>>]
    IN compare[<<1, 1>>]

CompareVersions(text1, text2) ==
    LET v == ParseVersion(text1)
        w == ParseVersion(text2)
        byUpstream == compareParts(v.upstream, w.upstream)
    IN IF v.epoch # w.epoch THEN compareInt(v.epoch, w.epoch)
       ELSE IF byUpstream # 0 THEN byUpstream
       ELSE compareParts(v.revision, w.revision)
=============================================================================
