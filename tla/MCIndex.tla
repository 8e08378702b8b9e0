------------------------------ MODULE MCIndex ------------------------------
(***************************************************************************)
(* Instances of Index for TLC.                                             *)
(***************************************************************************)
EXTENDS Index

CONSTANTS s1, s2

N0 == Zero
N1 == Zero + 1
A == 97
Period == 46

Short(chars) == {<<>>} \cup {<<a>> : a \in chars} \cup {<<a, b>> : a, b \in chars}

\* Every part of at most two characters; numbers of different lengths; the same
\* version in different texts; epochs; revisions, with a hyphen or a colon before them.
V(e, u, r) == [epoch |-> e, upstream |-> u, revision |-> r]
Upstreams == Short({Tilde, N0, N1, A, Period}) \cup {<<N1, N0, N0>>, <<N0, N1, N0>>}
MCVersions ==
    {V(None, u, None) : u \in Upstreams}
    \cup {V(<<N0>>, <<N1>>, None), V(<<N1>>, <<N0>>, None), V(<<N1, N0>>, <<Tilde>>, None),
          V(<<N1>>, <<N0, Colon, N1>>, None),
          V(None, <<N1>>, <<>>), V(None, <<N1>>, <<N0>>), V(None, <<N1>>, <<Tilde>>),
          V(None, <<N1, Hyphen, N1>>, <<N1>>), V(None, <<N1, Hyphen, A>>, <<N0, N1>>)}

Deb(n, a, v, s) == [name |-> n, arch |-> a, version |-> v, sum |-> s]
One == V(None, <<N1>>, None)

\* Descriptions: a synopsis, and two lines or separators after it, or more of them.
MCTexts == {Empty, Dot, Comment, "one", "two", "three"}
Synopses == {"one", Comment}
Follow(text) ==
    {Continuation(1, text), Continuation(2, text), Continuation(1, Dot), Continuation(2, Dot)}
Long ==
    {<<x, y>> : x \in Follow("two"), y \in Follow("three")}
    \cup {<<Continuation(3, Comment), Continuation(1, Dot), Continuation(1, Dot),
            Continuation(4, "two")>>}
Descriptions == {<<s, l>> : s \in Synopses, l \in Long}

\* The control file: a checksum that is a description says so; s1 has one line, and s2 a
\* comment above.
MCControl(deb) ==
    LET synopsis(text) == FieldLine("Description", NoHead, text)
        package == FieldLine("Package", deb, Empty)
    IN CASE deb.sum = s1 -> <<package, synopsis("one")>>
         [] deb.sum = s2 -> <<Continuation(0, Comment), Blank, package, synopsis("two"),
                              Continuation(1, "three")>>
         [] OTHER -> <<package, synopsis(deb.sum[1])>> \o deb.sum[2]

\* All versions of one package, a rebuild, and another package with every description.
Plain == {Deb(1, 2, v, s1) : v \in MCVersions} \cup {Deb(1, 2, One, s2), Deb(2, 2, One, s1)}
Described == {Deb(2, 2, One, d) : d \in Descriptions}

MCBatches == {{d, e} : d, e \in Plain} \cup {{d} : d \in Described}

\* No index, and one that was made elsewhere and has two architectures.
MCInitIndices == {<<>>, <<Deb(1, 1, One, s2), Deb(1, 2, One, s2)>>}
=============================================================================
