----------------------------- MODULE RfiDocument -----------------------------
(***************************************************************************)
(* The customer's document around RfiEngine: where the response file has   *)
(* the answers.  fill_rfi_answers (action-mcp tools/rfi) goes through them *)
(* in the order of the questions and puts each at the anchor the parser    *)
(* chose for its question: into a cell of a sheet or table, or into a      *)
(* paragraph of its own after the question's.                              *)
(***************************************************************************)
EXTENDS RfiEngine, SequencesExt

CONSTANTS
    Cells,          \* the cells of the document's sheets and tables
    Paragraphs      \* how many paragraphs it has

\* The questions are numbered in their order.
ASSUME DocumentAssumption ==
    /\ Paragraphs \in Nat
    /\ IsFiniteSet(Questions) /\ Questions = 1 .. Cardinality(Questions)

\* answer_location: a cell, a paragraph counted from 0, maybe beyond the last one, or a
\* text that names neither.
Cell(c) == <<"cell", c>>
Para(p) == <<"para", p>>
Unreadable == <<"unreadable">>
Anchors == {Cell(c) : c \in Cells} \cup {Para(p) : p \in 0 .. Paragraphs} \cup {Unreadable}

\* No question: the cell, or the paragraph, is as the customer wrote it.
Own == 0

Template ==
    [cells |-> [c \in Cells |-> Own],
     paras |-> [i \in 1 .. Paragraphs |-> [own |-> i, answer |-> Own]]]

AnswerPara(q) == [own |-> 0, answer |-> q]

\* The questions whose answers are not blank.
Payload(content) == {q \in Questions : content[q] # "blank"}

\* A slip: the answer is put before the question's paragraph.
PlacedBefore(doc, anchor, q) ==
    CASE anchor[1] = "cell" -> [doc EXCEPT !.cells[anchor[2]] = q]
      [] anchor[1] = "para" /\ anchor[2] < Len(doc.paras) ->
            [doc EXCEPT !.paras = InsertAt(@, anchor[2] + 1, AnswerPara(q))]
      [] OTHER -> doc

\* A paragraph is counted in the document as it is by then; what has no place is
\* skipped.
Placed(doc, anchor, q) ==
    CASE anchor[1] = "cell" -> [doc EXCEPT !.cells[anchor[2]] = q]
      [] anchor[1] = "para" /\ anchor[2] < Len(doc.paras) ->
            [doc EXCEPT !.paras = InsertAt(@, anchor[2] + 2, AnswerPara(q))]
      [] OTHER -> doc

\* Question q's turn, in the order of the questions.
Turn(doc, anchors, content, q) ==
    IF q \in Payload(content) THEN Placed(doc, anchors[q], q) ELSE doc

\* Every fill starts from the customer's file, also one that overwrites a response.
Response(anchors, content) ==
    LET upto[n \in 0 .. Cardinality(Questions)] ==
          IF n = 0 THEN Template ELSE Turn(upto[n - 1], anchors, content, n)
    IN upto[Cardinality(Questions)]

-------------------------------------------------------------------------------
\* Properties

\* q's anchor is a cell that no later question of the payload is anchored at.
LastInCell(q, anchors, content) ==
    /\ anchors[q][1] = "cell"
    /\ \A r \in Payload(content) : r > q => anchors[r] # anchors[q]

\* The paragraphs the payload is anchored at come from the last to the first.
Upwards(anchors, content) ==
    \A q, r \in Payload(content) :
        q < r /\ anchors[q][1] = "para" /\ anchors[r][1] = "para"
        => anchors[r][2] < anchors[q][2]

\* The customer's paragraphs are all there, once and in their order.
TextKept(paras) ==
    /\ {p \in ToSet(paras) : p.answer = Own} = ToSet(Template.paras)
    /\ \A i, j \in 1 .. Len(paras) :
          i < j /\ paras[i].answer = Own /\ paras[j].answer = Own =>
             paras[i].own < paras[j].own

Follows(paras, q, own) ==
    \E i \in 1 .. Len(paras) - 1 : paras[i].own = own /\ paras[i + 1] = AnswerPara(q)

\* "Choose precise answer write-back anchors": whatever anchors the parser chose, a
\* response file that is on the Drive holds the customer's text unchanged and in
\* order, each answer anchored at a cell in that cell, and each anchored at a
\* paragraph right after it, as long as they are written from the last to the first.
AnsweredInPlace ==
    \A n \in Files : drive[n] # NoFile =>
        \A anchors \in [Questions -> Anchors] :
            LET filed == Response(anchors, drive[n])
            IN /\ TextKept(filed.paras)
               /\ \A q \in Payload(drive[n]) :
                     /\ LastInCell(q, anchors, drive[n]) =>
                           filed.cells[anchors[q][2]] = q
                     /\ /\ Upwards(anchors, drive[n])
                        /\ anchors[q][1] = "para" /\ anchors[q][2] < Paragraphs
                        => Follows(filed.paras, q, anchors[q][2] + 1)

\* "Word paragraph: para-<index> (answer inserted next line)" (rfi/__init__.py:63),
\* which the code keeps for one such answer only: an answer that is written shifts
\* every paragraph after it for those that follow.
AnsweredBelow ==
    \A n \in Files : drive[n] # NoFile =>
        \A anchors \in [Questions -> Anchors], q \in Payload(drive[n]) :
            anchors[q][1] = "para" /\ anchors[q][2] < Paragraphs =>
                Follows(Response(anchors, drive[n]).paras, q, anchors[q][2] + 1)
===============================================================================
