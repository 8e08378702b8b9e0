------------------------------- MODULE Deb822 -------------------------------
(***************************************************************************)
(* internal/debian/parser.go and the text side of model.go: deb822 text,   *)
(* as sequences of physical lines, and what the parser and the printer     *)
(* make of each other's output.  Only what bears on structure is kept: how *)
(* far a line is indented and whether its text is empty, a dot, a comment  *)
(* or something else.  The fields of a stanza that have one line each are  *)
(* one line here, with all their contents in its head; the Description     *)
(* stands for the fields that may have several lines.                      *)
(*                                                                         *)
(* Left out: tabs, which are taken off as the first space is, keys that    *)
(* differ in case only, and lines that begin with a colon.                 *)
(***************************************************************************)
EXTENDS Integers, Sequences, FiniteSetsExt

CONSTANTS
    NoHead,         \* the head of every other line
    Texts           \* what a line may say

NoKey == "no key"
Empty == "no text"
Dot == "."
Comment == "#"      \* any text that begins with #

ASSUME TextsAssumption == {Empty, Dot, Comment} \subseteq Texts

\* "Key: text", " text" with an indent, and "".
FieldLine(key, head, text) == [key |-> key, head |-> head, indent |-> 0, text |-> text]
Continuation(n, text) == [key |-> NoKey, head |-> NoHead, indent |-> n, text |-> text]
Blank == Continuation(0, Empty)

\* The value of a field is the sequence of its lines.
Part(n, text) == [indent |-> n, text |-> text]
Nothing == Part(0, Empty)

-----------------------------------------------------------------------------
\* ParseParagraphs: what has been read so far.  A paragraph maps keys to the heads and
\* values of its fields.
Reading(paragraphs, current, key, head, value) ==
    [paragraphs |-> paragraphs, current |-> current, key |-> key, head |-> head,
     value |-> value]
NothingRead == Reading(<<>>, <<>>, NoKey, NoHead, <<>>)

\* strings.TrimRight(value, "\n")
Trimmed(value) ==
    SubSeq(value, 1, Max({1} \cup {n \in 1..Len(value) : value[n] # Nothing}))

\* flushField and Paragraph.Set
Flush(st) ==
    LET field == [head |-> st.head, value |-> Trimmed(st.value)]
        current == [k \in DOMAIN st.current \cup {st.key} |->
                        IF k = st.key THEN field ELSE st.current[k]]
    IN IF st.key = NoKey THEN st ELSE Reading(st.paragraphs, current, NoKey, NoHead, <<>>)

EndParagraph(st) ==
    IF DOMAIN st.current = {} THEN st
    ELSE Reading(Append(st.paragraphs, st.current), <<>>, st.key, st.head, st.value)

\* One space is taken off.  A dot ends a line; any other text starts a new one unless
\* the value so far is empty or ends a line.
Continued(value, line) ==
    LET part == Part(line.indent - 1, line.text) IN
    IF line.indent = 1 /\ line.text = Dot THEN Append(value, Nothing)
    ELSE IF value[Len(value)] = Nothing THEN [value EXCEPT ![Len(value)] = part]
    ELSE Append(value, part)

ParseLine(st, line) ==
    IF line.key = NoKey /\ line.text = Comment THEN st
    ELSE IF line.key = NoKey /\ line.text = Empty THEN EndParagraph(Flush(st))
    ELSE IF line.indent > 0
         THEN IF st.key = NoKey THEN st
              ELSE Reading(st.paragraphs, st.current, st.key, st.head, Continued(st.value, line))
    ELSE LET flushed == Flush(st) IN
         Reading(flushed.paragraphs, flushed.current, line.key, line.head,
                 <<Part(0, line.text)>>)

ParseParagraphs(lines) ==
    LET read[n \in 0..Len(lines)] ==
            IF n = 0 THEN NothingRead ELSE ParseLine(read[n - 1], lines[n])
    IN EndParagraph(Flush(read[Len(lines)])).paragraphs

-----------------------------------------------------------------------------
\* Bug: a line of a value is printed as it is.
PrintVerbatim(part) == Continuation(part.indent, part.text)

\* Paragraph.String: a line of a value that has several.
PrintPart(part) ==
    IF part = Nothing THEN Continuation(1, Dot)
    ELSE IF part.indent > 0 THEN Continuation(part.indent, part.text)
    ELSE Continuation(1, part.text)

PrintField(key, head, value) ==
    IF Len(value) = 1 THEN <<FieldLine(key, head, value[1].text)>>
    ELSE <<FieldLine(key, head, Empty)>> \o [n \in DOMAIN value |-> PrintPart(value[n])]

-----------------------------------------------------------------------------
\* A paragraph without a field is read as if it were empty.
ParagraphToStanza(p) ==
    [head |-> IF "Package" \in DOMAIN p THEN p["Package"].head ELSE NoHead,
     description |-> IF "Description" \in DOMAIN p THEN p["Description"].value
                                                   ELSE <<Nothing>>]

PrintStanza(s) ==
    PrintField("Package", s.head, <<Nothing>>) \o PrintField("Description", NoHead, s.description)
=============================================================================
