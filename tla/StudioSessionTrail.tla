-------------------------- MODULE StudioSessionTrail --------------------------
(***************************************************************************)
(* StudioSession with a history variable: past[i] is the document as it    *)
(* was when record i of the undo order was pushed.  It says what an undo   *)
(* has to restore; the session itself only has the records and the         *)
(* snapshot files to do it with.                                           *)
(***************************************************************************)
EXTENDS StudioSession

VARIABLE past

Remember ==
    past' = IF Len(order') > Len(order) THEN Append(past, Doc)
            ELSE SubSeq(past, 1, Len(order'))

TrailInit == Init /\ past = <<>>
TrailNext == Next /\ Remember
TrailSpec == TrailInit /\ [][TrailNext]_<<vars, past>>

-----------------------------------------------------------------------------
(* The session implements the undoable project: snapshot files, per-editor *)
(* stacks and the undo order together restore, edit by edit and across     *)
(* Revert All, exactly the document each record was pushed on.             *)
Documents == [edits : EditMaps, texts : TextMaps, notes : NoteMaps]
NoDocument == [edits |-> NoEdits, texts |-> NoTexts, notes |-> NoNotes]

(* Opening a project leaves nothing to undo.                               *)
Opened == {[doc |-> archive, past |-> <<>>] : archive \in Archives}

Project == INSTANCE UndoableProject
             WITH Docs <- Documents, Blank <- NoDocument, Openings <- Opened,
                  doc <- Doc

UndoIsExact == Project!Spec

=============================================================================
