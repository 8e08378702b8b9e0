------------------------------- MODULE Index -------------------------------
(***************************************************************************)
(* internal/debian/index.go, as the publisher uses it: the list of stanzas *)
(* of one Packages file, into which run after run merges a batch of        *)
(* packages.  The file is text, which every run parses and prints anew.    *)
(* The head of a stanza has the fields of one line: names and              *)
(* architectures are numbers in their sort order, and a checksum stands    *)
(* for all fields that nothing is decided by.                              *)
(***************************************************************************)
EXTENDS DebVersion, Deb822

CONSTANTS
    Batches,        \* sets of packages, as heads, that may be published to it
    Control(_),     \* the lines of a package's control file
    InitIndices,    \* the lists of packages that may be there at the start
    AnyVersion,     \* Remove's empty version
    MaxDebs         \* bound on the packages that are published in all

VARIABLES
    stored,         \* the lines of the Packages file
    packages,       \* the index in hand
    batch,          \* the packages yet to be merged into it
    preserve,       \* cfg.PreserveVersions of the run
    open,           \* is an index in hand that is not stored?
    debs, before,   \* history: the batch and the packages that it is merged with
    merged          \* how many packages have been published

Debs == UNION Batches

vars == <<stored, packages, batch, preserve, open, debs, before, merged>>

SamePackage(s, t) == s.name = t.name /\ s.arch = t.arch
SameStanza(s, t)  == SamePackage(s, t) /\ s.version = t.version

\* A list without two stanzas of one package, architecture and version.
IsIndex(seq) == \A i, j \in DOMAIN seq : SameStanza(seq[i], seq[j]) => i = j

\* Names in order, and under each name the latest version first.
InOrder(seq) ==
    \A i, j \in DOMAIN seq : i < j =>
        \/ seq[i].name < seq[j].name
        \/ /\ seq[i].name = seq[j].name
           /\ ~DebLess(seq[i].version, seq[j].version)

Known == Debs \cup UNION {Range(seq) : seq \in InitIndices}

ASSUME DebAssumption ==
    /\ MaxDebs \in Nat /\ \A d, e \in Debs : d.arch = e.arch
    /\ \A chosen \in Batches : IsFiniteSet(chosen)
    /\ \A d \in Known : d.name \in Nat /\ d.arch \in Nat /\ WellFormed(d.version)
    /\ \A seq \in InitIndices : seq \in Seq(Known) /\ IsIndex(seq) /\ InOrder(seq)

Lines == [key : {NoKey, "Package", "Description"}, head : Known \cup {NoHead}, indent : Nat,
          text : Texts]

IsBlank(line) == line.key = NoKey /\ line.text = Empty
IsComment(line) == line.key = NoKey /\ line.text = Comment

\* The stanza of a package: after comments or empty lines a line with its head, then its
\* description, whose further lines are indented.
IsStanza(lines, d) ==
    \E n \in 1..(Len(lines) - 1) :
        /\ \A i \in 1..(n - 1) : IsBlank(lines[i]) \/ IsComment(lines[i])
        /\ lines[n] = FieldLine("Package", d, Empty)
        /\ lines[n + 1] = FieldLine("Description", NoHead, lines[n + 1].text)
        /\ \A i \in (n + 2)..Len(lines) : /\ lines[i].key = NoKey /\ lines[i].indent > 0
                                          /\ lines[i].text # Empty

ASSUME ControlAssumption ==
    \A d \in Known : Control(d) \in Seq(Lines) /\ IsStanza(Control(d), d)

\* The members of a sequence at some positions.
Picked(seq, positions) ==
    LET picked[n \in 0..Len(seq)] ==
            IF n = 0 THEN <<>>
            ELSE IF n \in positions THEN Append(picked[n - 1], seq[n])
            ELSE picked[n - 1]
    IN picked[Len(seq)]

Heads(seq) == [n \in DOMAIN seq |-> seq[n].head]

\* What lines say that are neither empty nor a dot nor a comment.
Says(line) == line.text \notin {Empty, Dot, Comment}
Words(lines) ==
    Picked([n \in DOMAIN lines |-> lines[n].text], {n \in DOMAIN lines : Says(lines[n])})

\* The stanzas of a Packages file as a reader sees them: from a line with a head to the
\* next empty line.
Show(seen, line) ==
    IF line.key = "Package"
    THEN [entries |-> Append(seen.entries, [head |-> line.head, words |-> <<>>]), within |-> TRUE]
    ELSE IF IsBlank(line) THEN [entries |-> seen.entries, within |-> FALSE]
    ELSE IF seen.within /\ Says(line)
    THEN [entries |-> [seen.entries EXCEPT ![Len(seen.entries)] =
                         [head |-> @.head, words |-> Append(@.words, line.text)]],
          within |-> TRUE]
    ELSE seen

Shown(lines) ==
    LET seen[n \in 0..Len(lines)] ==
            IF n = 0 THEN [entries |-> <<>>, within |-> FALSE]
            ELSE Show(seen[n - 1], lines[n])
    IN seen[Len(lines)].entries

Listed(lines) == Heads(Shown(lines))

TypeOK ==
    /\ Listed(stored) \in Seq(Known) /\ IsIndex(Listed(stored))
    /\ Heads(packages) \in Seq(Known) /\ IsIndex(Heads(packages))
    /\ batch \in Seq(debs) /\ debs \subseteq Debs /\ before \in Seq(Known)
    /\ preserve \in BOOLEAN /\ open \in BOOLEAN /\ merged \in 0..MaxDebs

\* A Packages file: an empty line after each stanza.
Written(stanzas) ==
    LET text[n \in 0..Len(stanzas)] ==
            IF n = 0 THEN <<>> ELSE text[n - 1] \o Append(stanzas[n], Blank)
    IN text[Len(stanzas)]

Init ==
    /\ before \in InitIndices
    /\ stored = Written([n \in DOMAIN before |-> Control(before[n])])
    /\ packages = <<>> /\ batch = <<>> /\ debs = {}
    /\ preserve \in BOOLEAN
    /\ open = FALSE
    /\ merged = 0

-----------------------------------------------------------------------------
\* slices.SortFunc: what compares equal may end up in any order.
Arrangements(seq) ==
    {[i \in DOMAIN seq |-> seq[f[i]]] : f \in Bijection(DOMAIN seq, DOMAIN seq)}
IsSorted(seq, Compare(_, _)) == \A i \in 1..(Len(seq) - 1) : Compare(seq[i], seq[i + 1]) <= 0

\* Bug: packages of a batch by name and architecture only.
CompareNames(s, t) ==
    IF s.name # t.name THEN compareInt(s.name, t.name) ELSE compareInt(s.arch, t.arch)

\* PublishDebFiles: by name, architecture and version.
CompareDebs(s, t) ==
    IF s.name # t.name THEN compareInt(s.name, t.name)
    ELSE IF s.arch # t.arch THEN compareInt(s.arch, t.arch)
    ELSE CompareVersions(Text(s.version), Text(t.version))

\* Index.Sort: by name, latest version first, and architecture.
CompareStanzas(a, b) ==
    LET s == a.head
        t == b.head
        byVersion == CompareVersions(Text(t.version), Text(s.version))
    IN IF s.name # t.name THEN compareInt(s.name, t.name)
       ELSE IF byVersion # 0 THEN byVersion
       ELSE compareInt(s.arch, t.arch)

\* Bug: never a replacement when versions are preserved.
Add(seq, stanza, keep) ==
    LET same == {n \in DOMAIN seq : SamePackage(seq[n].head, stanza.head)} IN
    IF keep \/ same = {} THEN Append(seq, stanza) ELSE [seq EXCEPT ![Min(same)] = stanza]

\* With preserved versions a stanza replaces that of its version, without all of its
\* package.
Replaces(d, s, keep) == IF keep THEN SameStanza(d, s) ELSE SamePackage(d, s)

\* Index.AddOrUpdate: the stanza takes the place of the first that it replaces.
AddOrUpdate(seq, stanza, keep) ==
    LET old == {n \in DOMAIN seq : Replaces(stanza.head, seq[n].head, keep)}
        updated == [seq EXCEPT ![Min(old)] = stanza]
    IN IF old = {} THEN Append(seq, stanza)
       ELSE IF keep THEN updated
       ELSE Picked(updated, {n \in DOMAIN seq : n = Min(old) \/ n \notin old})

\* Index.Remove
Without(seq, name, version) ==
    Picked(seq, {n \in DOMAIN seq : /\ seq[n].head.name = name
                                    => version \notin {AnyVersion, seq[n].head.version}})

\* ParseDebReader, of a package's control file.
ParseDeb(deb) == ParagraphToStanza(ParseParagraphs(Control(deb))[1])

Parsed(lines) ==
    LET paragraphs == ParseParagraphs(lines) IN
    [n \in DOMAIN paragraphs |-> ParagraphToStanza(paragraphs[n])]

-----------------------------------------------------------------------------
\* A run sorts its batch, given in any order, and parses the stored index.
ParseIndex ==
    /\ ~open /\ open' = TRUE
    /\ \E chosen \in Batches :
          /\ merged' = merged + Cardinality(chosen) /\ merged' <= MaxDebs
          /\ debs' = chosen
          /\ batch' \in Bijection(1..Cardinality(chosen), chosen) /\ IsSorted(batch', CompareDebs)
    /\ packages' = Parsed(stored) /\ before' = Listed(stored)
    /\ preserve' \in BOOLEAN
    /\ UNCHANGED stored

MergeOne ==
    /\ open /\ batch # <<>>
    /\ packages' = AddOrUpdate(packages, ParseDeb(Head(batch)), preserve)
    /\ batch' = Tail(batch)
    /\ UNCHANGED <<stored, preserve, open, debs, before, merged>>

\* Removal, from an index into which nothing is merged.
RemovePackages ==
    /\ ~open /\ open' = TRUE
    /\ \E d \in Range(Listed(stored)) : \E version \in {AnyVersion, d.version} :
          packages' = Without(Parsed(stored), d.name, version)
    /\ before' = Heads(packages') /\ debs' = {}
    /\ UNCHANGED <<stored, batch, preserve, merged>>

Serialize ==
    /\ open /\ batch = <<>>
    /\ open' = FALSE
    /\ \E sorted \in Arrangements(packages) :
          /\ IsSorted(sorted, CompareStanzas)
          /\ stored' = Written([n \in DOMAIN sorted |-> PrintStanza(sorted[n])])
    /\ packages' = <<>>
    /\ UNCHANGED <<batch, preserve, debs, before, merged>>

Next == ParseIndex \/ MergeOne \/ RemovePackages \/ Serialize

Spec == Init /\ [][Next]_vars

-----------------------------------------------------------------------------
\* The order in which packages are stored, which the code finds with CompareVersions
\* on the texts of versions, is that of deb-version(7).
StoredInOrder == InOrder(Listed(stored))

\* A stanza of the batch than which the batch has no later version.
Latest(s) ==
    s \in debs /\ \A d \in debs : SamePackage(d, s) => ~DebLess(s.version, d.version)

\* What a run leaves: the packages that were there but for those it replaces, and of
\* its batch every version or, if versions are not preserved, one latest version of
\* each package, whatever the order of its arguments.
BatchIsPublished ==
    LET now == Range(Listed(stored))
        was == Range(before)
    IN ~open =>
        /\ \A s \in now : \/ s \in debs /\ (preserve \/ Latest(s))
                          \/ s \in was /\ \A d \in debs : ~Replaces(d, s, preserve)
        /\ \A s \in was \cup debs : \E t \in now : Replaces(s, t, preserve)
        /\ \A d \in debs : \A s, t \in now :
              Replaces(d, s, preserve) /\ Replaces(d, t, preserve) => s = t

\* However often an index is parsed and printed, the stanza of every package says what
\* the package's control file says, line after line: separators, comments and the
\* indents of lines may go, but no line that says something is lost, repeated or moved
\* to another stanza.
WordsAreKept ==
    \A n \in DOMAIN Shown(stored) :
        Shown(stored)[n].words = Words(Control(Shown(stored)[n].head))
=============================================================================
