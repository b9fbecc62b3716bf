--------------------------- MODULE UndoableProject ---------------------------
(***************************************************************************)
(* What the editors promise of undo, whatever kinds of edit the project    *)
(* mixes: the project is one document, every edit of it can be taken back  *)
(* in order, and taking one back restores exactly the document it changed. *)
(* There is no redo.  Opening something starts a new history.              *)
(***************************************************************************)
EXTENDS Integers, Sequences

CONSTANTS
    Docs,     \* project documents
    Blank,    \* the project without an edit
    Openings  \* what can be opened: a document and the history it comes with

VARIABLES
    doc,    \* the project as it stands
    past    \* the documents before each edit that can still be undone

vars == <<doc, past>>

Init == doc = Blank /\ past = <<>>

Edit ==
    /\ doc' \in Docs
    /\ past' = Append(past, doc)

Undo ==
    /\ past # <<>>
    /\ doc' = past[Len(past)]
    /\ past' = SubSeq(past, 1, Len(past) - 1)

Open ==
    \E o \in Openings : doc' = o.doc /\ past' = o.past

Next == Edit \/ Undo \/ Open

Spec == Init /\ [][Next]_vars

=============================================================================
