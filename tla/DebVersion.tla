----------------------------- MODULE DebVersion -----------------------------
(***************************************************************************)
(* What deb-version(7) says of versions, in a form of its own: a version   *)
(* is an epoch, an upstream version and a revision, each a text, and its   *)
(* parts are ordered by the first difference of their keys.                *)
(***************************************************************************)
EXTENDS Version

\* An epoch or a revision that is left out.
CONSTANT None

\* How a version is written.
Text(v) ==
    (IF v.epoch = None THEN <<>> ELSE Append(v.epoch, Colon)) \o v.upstream
    \o (IF v.revision = None THEN <<>> ELSE <<Hyphen>> \o v.revision)

\* Only with an epoch may there be a colon elsewhere, only with a revision a hyphen.  An
\* epoch is an int.
WellFormed(v) ==
    /\ v.epoch # None => v.epoch \in Seq(Digits) /\ v.epoch # <<>> /\ Value(v.epoch) <= MaxInt
    /\ v.upstream \in Seq(Bytes)
    /\ v.epoch = None => Positions(v.upstream, Colon) = {}
    /\ v.revision = None => Positions(v.upstream, Hyphen) = {}
    /\ v.revision # None => v.revision \in Seq(Bytes \ {Hyphen, Colon})

\* A tilde comes before the end of a part, that before all letters, and they before
\* everything else.
Rank(c) ==
    CASE c = Tilde -> -1
      [] c \in Letters -> c
      [] OTHER -> c + 1000

\* The ranks of the non-digits and, each after a 0 that ends the part before it, the
\* numbers.
Key(text) ==
    LET key[i \in 1..(Len(text) + 1)] ==
            LET end == Past(text, i, Digits) IN
            IF i > Len(text) THEN <<>>
            ELSE IF text[i] \in Digits THEN <<0, Value(SubSeq(text, i, end - 1))>> \o key[end]
            ELSE <<Rank(text[i])>> \o key[i + 1]
    IN key[1]

\* A key goes on with zeros for ever.
At(key, k) == IF k <= Len(key) THEN key[k] ELSE 0

KeyLess(x, y) ==
    \E k \in 1..(Len(x) + Len(y)) : /\ At(x, k) < At(y, k)
                                    /\ \A i \in 1..(k - 1) : At(x, i) = At(y, i)

Number(epoch) == IF epoch = None THEN 0 ELSE Value(epoch)
Revision(v) == IF v.revision = None THEN <<>> ELSE v.revision

\* The versions, from earliest to latest.
DebLess(v, w) ==
    \/ Number(v.epoch) < Number(w.epoch)
    \/ /\ Number(v.epoch) = Number(w.epoch)
       /\ \/ KeyLess(Key(v.upstream), Key(w.upstream))
          \/ /\ ~KeyLess(Key(w.upstream), Key(v.upstream))
             /\ KeyLess(Key(Revision(v)), Key(Revision(w)))
=============================================================================
