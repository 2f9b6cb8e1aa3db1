------------------------------- MODULE DocAppend -------------------------------
(***************************************************************************)
(* Appending to a Google Doc (action-mcp tools/docs.py): append_markdown   *)
(* and append_text read where the document ends, then send one batch that  *)
(* inserts the text there and styles it by index, repeat the batch after a *)
(* transient error, and append_markdown falls back to the raw text.  Other *)
(* calls, on other instances of the server, and a person at the keyboard   *)
(* change the document in between.                                         *)
(* The document is a sequence of code units, which is what the service's   *)
(* indices count; the code counts characters.                              *)
(***************************************************************************)
EXTENDS Integers, FiniteSets, SequencesExt

CONSTANTS
    Calls,      \* the append calls
    Texts,      \* Texts[c]: the lines c is to append
    Tries,      \* attempts of retry_on_transient (4 in the code)
    MaxTyped    \* bound: the units the person has in the document

\* A line: whether it is a heading (a bullet is treated alike), the width of each of
\* its characters in code units, and how many of them, the last ones, are bold.
Lines == {l \in [heading : BOOLEAN, widths : Seq({1, 2}), bold : Nat] : l.bold <= Len(l.widths)}

ASSUME CallsAssumption == "person" \notin Calls
ASSUME TextsAssumption == \A c \in Calls : Texts[c] \in Seq(Lines) \ {<<>>}
ASSUME TriesAssumption == Tries \in Nat \ {0}

VARIABLES
    doc,      \* the units of the document, the last one its closing newline
    mode,     \* mode[c]: "styled", or "plain" for append_text and the last resort
    pc,       \* pc[c]: "read", "write", or what the caller is told
    index,    \* index[c]: where the end was when c read it
    tries,    \* tries[c]: attempts of the batch so far
    lost,     \* history, lost[c]: a batch of c was done and its answer lost
    early     \* history: a batch has landed before the document's end

vars == <<doc, mode, pc, index, tries, lost, early>>

Told == {"appended", "appended plain", "error", "raised"}

\* at = 0 for the newline that ends a line; a paragraph's style is kept there.
Unit(by, l, at, raw) ==
    [by |-> by, line |-> l, at |-> at, raw |-> raw, bold |-> FALSE, heading |-> FALSE]

Closing == Unit("person", 0, 0, TRUE)
Typed == Unit("person", 0, 1, TRUE)

Init ==
    /\ doc = <<Closing>>
    /\ mode \in [Calls -> {"styled", "plain"}]
    /\ pc = [c \in Calls |-> "read"]
    /\ index = [c \in Calls |-> 0] /\ tries = [c \in Calls |-> 0]
    /\ lost = [c \in Calls |-> FALSE] /\ early = FALSE

-------------------------------------------------------------------------------
\* The batch

Width(c, l) == Len(Texts[c][l].widths)

\* The units of one line; the raw text does not end in a newline.
LineUnits(c, l, raw) ==
    FlattenSeq([at \in 1 .. Width(c, l) |->
                  [k \in 1 .. Texts[c][l].widths[at] |-> Unit(c, l, at, raw)]])
    \o (IF raw /\ l = Len(Texts[c]) THEN <<>> ELSE <<Unit(c, l, 0, raw)>>)

Text(c, raw) == FlattenSeq([l \in DOMAIN Texts[c] |-> LineUnits(c, l, raw)])

\* A slip: the newline after each line is not counted.
LineStartNoNewline(c, l) ==
    LET start[k \in DOMAIN Texts[c]] == IF k = 1 THEN 0 ELSE start[k - 1] + Width(c, k - 1)
    IN start[l]

\* Where line l starts, counting characters from the start of the text.
LineStart(c, l) ==
    LET start[k \in DOMAIN Texts[c]] == IF k = 1 THEN 0 ELSE start[k - 1] + Width(c, k - 1) + 1
    IN start[l]

\* The ranges to style, as offsets <<start, end>> from the start of the text.
Headings(c) ==
    { <<LineStart(c, l), LineStart(c, l) + Width(c, l) + 1>> :
        l \in {k \in DOMAIN Texts[c] : Texts[c][k].heading} }
Bolds(c) ==
    { <<LineStart(c, l) + Width(c, l) - Texts[c][l].bold, LineStart(c, l) + Width(c, l)>> :
        l \in {k \in DOMAIN Texts[c] : Texts[c][k].bold > 0} }

\* Unit p of the document (counted from 1) lies in one of the ranges laid at base.
Covered(p, ranges, base) == \E r \in ranges : base + r[1] < p /\ p <= base + r[2]

\* The units of the paragraph that ends at p.
Paragraph(d, p) == {q \in 1 .. p : \A k \in q .. p - 1 : d[k].at # 0}

\* Styles add to what is there; a range touches every paragraph it overlaps.
Styled(d, c, base) ==
    [p \in DOMAIN d |->
       [d[p] EXCEPT !.bold = @ \/ Covered(p, Bolds(c), base),
                    !.heading = @ \/ /\ d[p].at = 0
                                     /\ \E q \in Paragraph(d, p) :
                                           Covered(q, Headings(c), base)]]

\* Inserted text takes after the text before it, and its new paragraphs after the
\* one they are cut from.
Inserted(d, units, at) ==
    LET bold == at > 0 /\ d[at].bold
        around == CHOOSE p \in at + 1 .. Len(d) :
                     d[p].at = 0 /\ \A k \in at + 1 .. p - 1 : d[k].at # 0
        new == [i \in DOMAIN units |->
                  [units[i] EXCEPT !.bold = bold,
                                   !.heading = units[i].at = 0 /\ d[around].heading]]
    IN SubSeq(d, 1, at) \o new \o SubSeq(d, at + 1, Len(d))

Batch(d, c) ==
    IF mode[c] = "styled"
    THEN Styled(Inserted(d, Text(c, FALSE), index[c]), c, index[c])
    ELSE Inserted(d, Text(c, TRUE), index[c])

-------------------------------------------------------------------------------
\* The calls

Fits(c) == index[c] < Len(doc)

\* The newline that closes the document stays behind whatever is appended.
EndIndex == Len(doc) - 1

ReadEnd(c) ==
    /\ pc[c] = "read"
    /\ index' = [index EXCEPT ![c] = EndIndex]
    /\ tries' = [tries EXCEPT ![c] = 0]
    /\ pc' = [pc EXCEPT ![c] = "write"]
    /\ UNCHANGED <<doc, mode, lost, early>>

\* An HttpError: append_markdown tries once more with the raw text, and what fails
\* then is an error text.
Fails(c) ==
    IF mode[c] = "styled"
    THEN /\ mode' = [mode EXCEPT ![c] = "plain"]
         /\ pc' = [pc EXCEPT ![c] = "read"]
    ELSE /\ pc' = [pc EXCEPT ![c] = "error"]
         /\ UNCHANGED mode

\* A slip: the loop runs out and nothing is raised.
GivesUpQuietly(c, how) == pc' = [pc EXCEPT ![c] = "appended"] /\ UNCHANGED mode

\* The last attempt failed: an HttpError is handled, a connection error is not.
GivesUp(c, how) ==
    IF how = "http" THEN Fails(c) ELSE pc' = [pc EXCEPT ![c] = "raised"] /\ UNCHANGED mode

\* The end could not be read, its own retries included.
ReadFails(c) ==
    /\ pc[c] = "read"
    /\ \E how \in {"http", "connection"} : GivesUp(c, how)
    /\ UNCHANGED <<doc, index, tries, lost, early>>

MoreTries(c) == tries[c] + 1 < Tries

\* A batch that got no usable answer: repeated as it is, up to the last attempt.
Again(c) ==
    /\ tries' = [tries EXCEPT ![c] = @ + 1]
    /\ IF MoreTries(c)
       THEN UNCHANGED <<mode, pc>>
       ELSE \E how \in {"http", "connection"} : GivesUp(c, how)

Done(c) ==
    /\ doc' = Batch(doc, c)
    /\ early' = (early \/ index[c] < EndIndex)

AppendAnswered(c) ==
    /\ pc[c] = "write" /\ Fits(c)
    /\ Done(c)
    /\ pc' = [pc EXCEPT ![c] = IF mode[c] = "styled" THEN "appended" ELSE "appended plain"]
    /\ UNCHANGED <<mode, index, tries, lost>>

\* Bound: a call loses one answer.
MayLose(c) == ~lost[c]

\* The batch is done and its answer does not come back.
AppendUnanswered(c) ==
    /\ pc[c] = "write" /\ Fits(c) /\ MayLose(c)
    /\ Done(c)
    /\ lost' = [lost EXCEPT ![c] = TRUE]
    /\ Again(c)
    /\ UNCHANGED index

AppendFails(c) ==
    /\ pc[c] = "write"
    /\ Again(c)
    /\ UNCHANGED <<doc, index, lost, early>>

\* A slip: the text goes in with a request of its own, and only the styles are refused.
RefusedDocHalf(c) == IF Fits(c) THEN Inserted(doc, Text(c, FALSE), index[c]) ELSE doc

\* What a refused batch leaves behind: nothing, it is applied whole or not at all.
RefusedDoc(c) == doc

\* The service refuses the batch, as it must when the index lies beyond the end.
AppendRefused(c) ==
    /\ pc[c] = "write"
    /\ doc' = RefusedDoc(c)
    /\ Fails(c)
    /\ UNCHANGED <<index, tries, lost, early>>

\* The person types a character at the top, or removes one of theirs there.
Person ==
    /\ \/ /\ Cardinality({p \in DOMAIN doc : doc[p].by = "person" /\ doc[p].at # 0}) < MaxTyped
          /\ doc' = <<Typed>> \o doc
       \/ /\ doc[1].by = "person" /\ doc[1].at # 0
          /\ doc' = Tail(doc)
    /\ \E c \in Calls : pc[c] \notin Told
    /\ UNCHANGED <<mode, pc, index, tries, lost, early>>

Next ==
    \/ \E c \in Calls :
          \/ ReadEnd(c) \/ ReadFails(c)
          \/ AppendAnswered(c) \/ AppendUnanswered(c) \/ AppendFails(c) \/ AppendRefused(c)
    \/ Person

Spec == Init /\ [][Next]_vars

-------------------------------------------------------------------------------
\* What the calls promise

\* What a unit says; the styles are left out.
Said(u) == <<u.line, u.at, u.raw>>

\* What call c says in d, and what it is to say.
Heard(c, said, u) == IF u.by = c THEN Append(said, Said(u)) ELSE said
Of(c, d) ==
    LET upto[p \in 0 .. Len(d)] == IF p = 0 THEN <<>> ELSE Heard(c, upto[p - 1], d[p])
    IN upto[Len(d)]
Whole(c, raw) == LET t == Text(c, raw) IN [i \in DOMAIN t |-> Said(t[i])]

\* "Never lose the content" (docs.py:225): a call that reports its text appended has
\* put the whole of it in the document, in order and in the form it reports,
\* whatever other calls, repeats and the person did meanwhile.
ReportedIsThere ==
    \A c \in Calls :
       pc[c] \in {"appended", "appended plain"} =>
          LET whole == Whole(c, pc[c] = "appended plain")
              said == Of(c, doc)
          IN \E n \in 0 .. Len(said) : IsPrefix(SubSeq(said, 1, n) \o whole, said)

\* Text is there twice only when an answer was lost: the retry of a failed batch and
\* the last resort after a refused one repeat nothing that was done (docs.py:217-240).
TwiceOnlyWhenLost ==
    \A c \in Calls : ~lost[c] => Len(Of(c, doc)) <= Len(Text(c, FALSE))

Narrow(c) == \A l \in DOMAIN Texts[c] : \A i \in 1 .. Width(c, l) : Texts[c][l].widths[i] = 1

WrittenBold(u) == ~u.raw /\ u.at > Width(u.by, u.line) - Texts[u.by][u.line].bold
WrittenHeading(u) == ~u.raw /\ u.at = 0 /\ Texts[u.by][u.line].heading

\* Styles land on the characters they were written for (docs.py:137-205): of a text
\* without wide characters each bold character and heading is styled, and nothing
\* else of it is as long as no batch has landed before the end, however the calls
\* interleave, repeat and fall back, and beside texts that have wide characters.
StyledAsWritten ==
    \A p \in DOMAIN doc : LET u == doc[p] IN
       (u.by \in Calls /\ Narrow(u.by)) =>
          /\ WrittenBold(u) => u.bold
          /\ WrittenHeading(u) => u.heading
          /\ ~early => /\ u.bold => WrittenBold(u)
                       /\ u.heading => WrittenHeading(u)
===============================================================================
