------------------------------ MODULE ApfSession ------------------------------
(***************************************************************************)
(* The working session of APF 2K8 Mod Studio                               *)
(* (mod_editor/apf_studio/session.py, class ApfSession) behind its facade  *)
(* (mod_editor/apf_studio/facade.py).                                      *)
(*                                                                         *)
(* One map holds the edits of every editor and one the sound labels; an    *)
(* undo checkpoint is a copy of both.  Replacement payloads live in a      *)
(* directory of files named by their content, which edits, checkpoints and *)
(* unfinished imports share.  A sound pack and a ratings sheet change the  *)
(* project in two steps, a preview and a confirmation, and anything may    *)
(* happen to the project and to the pack between them.  Every operation    *)
(* here runs under the facade's _session_lock, so it is one step.          *)
(*                                                                         *)
(* Simplifications.                                                        *)
(*  - A payload is a member of Values, None is "no edit".  Only payloads   *)
(*    that pass their validator are supplied, and none equals the game's.  *)
(*  - A template lists every sound, the entries not filled in are skipped. *)
(*  - The game loaded is always the same one; loading it again is          *)
(*    LoadSource.  Reserve plan, crest and field art are not in the        *)
(*    session.                                                             *)
(***************************************************************************)
EXTENDS Integers, Sequences, FiniteSets

CONSTANTS
    Assets,    \* editable assets
    KindOf,    \* their kind: "art", "text", "rating" or "audio"
    Owners,    \* the sounds that share the physical range of each sound
    Cues,      \* sounds that can be labelled
    Values,    \* replacement payloads; labels
    None,      \* no edit, no label
    Archives,  \* project files that can be opened
    MaxUndo    \* bound on the undo list

Kinds == {"art", "text", "rating", "audio"}
Of(kind) == {a \in Assets : KindOf[a] = kind}
Sounds == Of("audio")

Payload == Values \cup {None}
EditMaps == [Assets -> Payload]
NoteMaps == [Cues -> Payload]
SoundMaps == [Sounds -> Payload]
Documents == [mods : EditMaps, notes : NoteMaps]

NoEdits == [a \in Assets |-> None]
NoNotes == [c \in Cues |-> None]
Blank == [mods |-> NoEdits, notes |-> NoNotes]

ASSUME ApfAssumption ==
    /\ KindOf \in [Assets -> Kinds]
    /\ Owners \in [Assets -> SUBSET Assets]
    /\ \A a \in Sounds : a \in Owners[a] /\ Owners[a] \subseteq Sounds
    /\ None \notin Values
    /\ Archives \subseteq Documents
    /\ MaxUndo \in Nat \ {0}

VARIABLES
    mods,         \* _modifications
    notes,        \* _audio_annotations
    undo,         \* _undo
    store,        \* replacements/
    pack,         \* a sound pack on disk: state at export, files supplied
    packReceipt,  \* the last preview of the pack the user looked at
    sheet,        \* a ratings sheet on disk: the value of every cell
    sheetReceipt, \* the last preview of the sheet
    built         \* last_build: the edits that were built

session == <<mods, notes, undo>>
plans == <<pack, packReceipt, sheet, sheetReceipt>>
vars == <<session, store, plans, built>>

-----------------------------------------------------------------------------
(* Documents, payload files and packs *)

Doc == [mods |-> mods, notes |-> notes]

(* The file of a payload: its digest and the suffix of its kind.           *)
Suffix(a) == CASE KindOf[a] = "art" -> "png"
               [] KindOf[a] = "audio" -> "packets"
               [] OTHER -> "json"
Files == [suffix : {"png", "json", "packets"}, value : Values]
FileOf(a, v) == [suffix |-> Suffix(a), value |-> v]
FilesOf(m) == {FileOf(a, m[a]) : a \in {b \in DOMAIN m : m[b] # None}}

(* The files the project or an undo checkpoint still needs.                *)
Protected ==
    FilesOf(mods) \cup UNION {FilesOf(undo[i].mods) : i \in 1..Len(undo)}

(* Mutant: the undo checkpoints are forgotten.                             *)
StoredAndDiscarded_EditsOnly(F) == (store \cup F) \ (F \ FilesOf(mods))

(* _discard_failed_audio_pack_payloads, once F has been stored.            *)
StoredAndDiscarded(F) == (store \cup F) \ (F \ Protected)

(* _discard_new_uncommitted_audio_payload, once f has been stored.         *)
StoredAndDiscardedNew(f) ==
    (store \cup {f}) \ ({f} \ (store \cup Protected))

SoundsOf(m) == [a \in Sounds |-> m[a]]
RatingsOf(m) == [a \in Of("rating") |-> m[a]]

(* _validate_ausb_alias_replacements *)
AliasesAgree(m) ==
    \A a, b \in Sounds :
        b \in Owners[a] /\ m[a] # None /\ m[b] # None => m[a] = m[b]

Packs == [base : SoundMaps, supplied : SoundMaps]
NoPack == [base |-> [a \in Sounds |-> None], supplied |-> [a \in Sounds |-> None]]
Supplied == {a \in Sounds : pack.supplied[a] # None}

(* _require_audio_pack_baseline *)
BaselineHolds ==
    \A a \in Supplied : \A o \in Owners[a] : pack.base[o] = mods[o]

(* Mutant: the new cells alone.                                            *)
Over_Only(m, new) == [a \in DOMAIN new |-> new[a]]

(* The edits with the map's values over them; a cell without is left.      *)
Over(m, new) ==
    [a \in Assets |-> IF a \in DOMAIN new THEN new[a] ELSE m[a]]

PackFiles == FilesOf(pack.supplied)
WithPack == Over(mods, [a \in Supplied |-> pack.supplied[a]])

(* _prepare_audio_replacement_pack returns a complete batch.               *)
PackPrepared == Supplied # {} /\ BaselineHolds /\ AliasesAgree(WithPack)

(* What a preview remembers: the confirmation token, and whether its nonce *)
(* is that of the present session; and the sounds the preview announced.   *)
PackReceipts ==
    [pack : Packs, revision : SoundMaps, live : BOOLEAN, result : SoundMaps]
SheetReceipts ==
    [sheet : [Of("rating") -> Payload], fingerprint : [Of("rating") -> Payload]]

(* _audio_replacement_confirmation_token *)
TokenMatches ==
    /\ packReceipt.pack = pack
    /\ packReceipt.revision = SoundsOf(mods)
    /\ packReceipt.live

Expired(receipt) ==
    IF receipt = None THEN None ELSE [receipt EXCEPT !.live = FALSE]

NoBuild == None

Init ==
    /\ mods = NoEdits /\ notes = NoNotes /\ undo = <<>>
    /\ store = {}
    /\ pack = NoPack /\ packReceipt = None
    /\ sheet = [a \in Of("rating") |-> None] /\ sheetReceipt = None
    /\ built = NoBuild

-----------------------------------------------------------------------------
(* Edits *)

(* _record_undo *)
RecordUndo ==
    /\ Len(undo) < MaxUndo
    /\ undo' = Append(undo, Doc)

(* An edit of the map makes the last build stale.                          *)
ChangeMods(new) ==
    /\ RecordUndo
    /\ mods' = new
    /\ built' = NoBuild
    /\ UNCHANGED notes

(* The replace_* operations: the payload is stored, then _set.  Supplying  *)
(* the payload an asset already has is recorded like any other edit.       *)
Replace(a, v) ==
    /\ store' = store \cup {FileOf(a, v)}
    /\ ChangeMods([mods EXCEPT ![a] = v])
    /\ UNCHANGED plans

(* replace_audio_from_pcm, cancelled or refused after the encoder's output *)
(* has been stored.                                                        *)
PcmCancelled(a, v) ==
    /\ store' = StoredAndDiscardedNew(FileOf(a, v))
    /\ UNCHANGED <<session, plans, built>>

(* A batch that fails leaves the payloads it has already stored.           *)
BatchFails(a, v) ==
    /\ store' = store \cup {FileOf(a, v)}
    /\ UNCHANGED <<session, plans, built>>

(* apply_localization_text_batch and apply_player_base_rating_batch: new   *)
(* maps every cell of the batch to its payload, or to None to revert it.   *)
ApplyBatch(new) ==
    LET updated == Over(mods, new)
    IN  /\ store' = store \cup FilesOf(new)
        /\ IF updated = mods
           THEN UNCHANGED <<session, built>>
           ELSE ChangeMods(updated)

ImportTextSheet ==
    /\ \E S \in SUBSET Of("text") : \E new \in [S -> Payload] : ApplyBatch(new)
    /\ UNCHANGED plans

SetNote(c, v) ==
    /\ notes[c] # v
    /\ RecordUndo
    /\ notes' = [notes EXCEPT ![c] = v]
    /\ UNCHANGED <<mods, store, plans, built>>

ClearNote(c) ==
    /\ notes[c] # None
    /\ RecordUndo
    /\ notes' = [notes EXCEPT ![c] = None]
    /\ UNCHANGED <<mods, store, plans, built>>

Revert(a) ==
    /\ mods[a] # None
    /\ ChangeMods([mods EXCEPT ![a] = None])
    /\ UNCHANGED <<store, plans>>

RevertAll ==
    /\ Doc # Blank
    /\ RecordUndo
    /\ mods' = NoEdits /\ notes' = NoNotes
    /\ built' = NoBuild
    /\ UNCHANGED <<store, plans>>

(* Mutant: the last build stays the one to launch.                         *)
Undo_Launchable ==
    /\ undo # <<>>
    /\ LET snapshot == undo[Len(undo)]
       IN  mods' = snapshot.mods /\ notes' = snapshot.notes
    /\ undo' = SubSeq(undo, 1, Len(undo) - 1)
    /\ UNCHANGED <<store, plans, built>>

(* Mutant: the labels are not restored.                                    *)
Undo_ModsOnly ==
    /\ undo # <<>>
    /\ mods' = undo[Len(undo)].mods
    /\ undo' = SubSeq(undo, 1, Len(undo) - 1)
    /\ built' = NoBuild
    /\ UNCHANGED <<notes, store, plans>>

Undo ==
    /\ undo # <<>>
    /\ LET snapshot == undo[Len(undo)]
       IN  mods' = snapshot.mods /\ notes' = snapshot.notes
    /\ undo' = SubSeq(undo, 1, Len(undo) - 1)
    /\ built' = NoBuild
    /\ UNCHANGED <<store, plans>>

-----------------------------------------------------------------------------
(* The ratings sheet: preview, then apply *)

(* Each cell that differs from the project is replaced or reverted.        *)
SheetOperations(ratings) ==
    [a \in {b \in Of("rating") : sheet[b] # ratings[b]} |-> sheet[a]]

(* Cells of the sheet that would replace or revert an edit.                *)
SheetConflicts(ratings) ==
    {a \in DOMAIN SheetOperations(ratings) : ratings[a] # None}

WriteSheet ==
    /\ sheet' \in [Of("rating") -> Payload]
    /\ UNCHANGED <<session, store, pack, packReceipt, sheetReceipt, built>>

PreviewSheet ==
    /\ sheetReceipt' = [sheet |-> sheet, fingerprint |-> RatingsOf(mods)]
    /\ UNCHANGED <<session, store, pack, packReceipt, sheet, built>>

(* Mutant: the sheet may have been written again.                          *)
SheetTokenMatches_AnySheet == sheetReceipt.fingerprint = RatingsOf(mods)

(* The sheet is read and compared again, under the token of the preview.   *)
SheetTokenMatches ==
    /\ sheetReceipt.sheet = sheet
    /\ sheetReceipt.fingerprint = RatingsOf(mods)

ApplySheet(allow_conflicts) ==
    /\ sheetReceipt # None
    /\ SheetTokenMatches
    /\ SheetConflicts(RatingsOf(mods)) = {} \/ allow_conflicts
    /\ ApplyBatch(SheetOperations(RatingsOf(mods)))
    /\ UNCHANGED plans

-----------------------------------------------------------------------------
(* The sound pack: template, preview, then apply *)

ExportTemplate ==
    /\ pack' = [NoPack EXCEPT !.base = SoundsOf(mods)]
    /\ UNCHANGED <<session, store, packReceipt, sheet, sheetReceipt, built>>

FillTemplate ==
    /\ \E files \in SoundMaps : pack' = [pack EXCEPT !.supplied = files]
    /\ UNCHANGED <<session, store, packReceipt, sheet, sheetReceipt, built>>

(* preview_audio_replacement_pack *)
PreviewPack ==
    /\ PackPrepared
    /\ packReceipt' = [pack |-> pack, revision |-> SoundsOf(mods), live |-> TRUE,
                       result |-> SoundsOf(WithPack)]
    /\ store' = StoredAndDiscarded(PackFiles)
    /\ UNCHANGED <<session, pack, sheet, sheetReceipt, built>>

(* A preview or an application that is cancelled or refused after some of  *)
(* the files, or all, have been prepared.                                  *)
PackDropped ==
    /\ BaselineHolds
    /\ \E done \in SUBSET Supplied :
          store' = StoredAndDiscarded({FileOf(a, pack.supplied[a]) : a \in done})
    /\ UNCHANGED <<session, plans, built>>

(* apply_audio_replacement_pack *)
ApplyPack ==
    /\ packReceipt # None
    /\ PackPrepared
    /\ TokenMatches
    /\ WithPack # mods
    /\ store' = store \cup PackFiles
    /\ ChangeMods(WithPack)
    /\ UNCHANGED plans

-----------------------------------------------------------------------------
(* Opening, building *)

(* A project is read into a session of its own, which then takes the place *)
(* of the present one.  The load is itself an edit of the new session's    *)
(* empty project.                                                          *)
LoadProject(archive) ==
    /\ mods' = archive.mods /\ notes' = archive.notes
    /\ undo' = <<Blank>>
    /\ store' = FilesOf(archive.mods)
    /\ packReceipt' = Expired(packReceipt)
    /\ built' = NoBuild
    /\ UNCHANGED <<pack, sheet, sheetReceipt>>

(* load_source *)
LoadSource ==
    /\ mods' = NoEdits /\ notes' = NoNotes
    /\ undo' = <<>>
    /\ store' = {}
    /\ packReceipt' = Expired(packReceipt)
    /\ built' = NoBuild
    /\ UNCHANGED <<pack, sheet, sheetReceipt>>

(* build: every payload is read; two edits of one physical range collide.  *)
Build ==
    /\ FilesOf(mods) \subseteq store
    /\ AliasesAgree(mods)
    /\ built' = mods
    /\ UNCHANGED <<session, store, plans>>

Next ==
    \/ \E a \in Assets, v \in Values : Replace(a, v)
    \/ \E a \in Sounds, v \in Values : PcmCancelled(a, v)
    \/ \E a \in Of("text") \cup Of("rating"), v \in Values : BatchFails(a, v)
    \/ ImportTextSheet
    \/ \E c \in Cues, v \in Values : SetNote(c, v)
    \/ \E c \in Cues : ClearNote(c)
    \/ \E a \in Assets : Revert(a)
    \/ RevertAll \/ Undo
    \/ WriteSheet \/ PreviewSheet \/ \E allow \in BOOLEAN : ApplySheet(allow)
    \/ ExportTemplate \/ FillTemplate \/ PreviewPack \/ PackDropped \/ ApplyPack
    \/ \E archive \in Archives : LoadProject(archive)
    \/ LoadSource \/ Build

Spec == Init /\ [][Next]_vars

-----------------------------------------------------------------------------
(* Properties *)

TypeOK ==
    /\ mods \in EditMaps /\ notes \in NoteMaps
    /\ undo \in Seq(Documents) /\ Len(undo) <= MaxUndo
    /\ store \subseteq Files
    /\ pack \in Packs /\ packReceipt \in PackReceipts \cup {None}
    /\ sheet \in [Of("rating") -> Payload]
    /\ sheetReceipt \in SheetReceipts \cup {None}
    /\ built \in EditMaps \cup {NoBuild}

(* Every payload of the project and of every undo checkpoint is in the     *)
(* store: no cancelled, refused or previewed import takes away a file that *)
(* another edit shares, and an undo brings back edits that can be built.   *)
PayloadsKept == Protected \subseteq store

(* "Any edit after a build makes that launch target stale": what Launch    *)
(* starts has the edits of the project, whatever operation changed them.   *)
LaunchesCurrent == built # NoBuild => built = mods

(* "verifies that its exact member hashes and project-audio revision still *)
(* match the preview": a confirmed pack or sheet leaves exactly the sounds *)
(* or ratings that its preview announced, and touches nothing else.        *)
ConfirmedIsShown ==
    [][ /\ ApplyPack =>
             mods' = Over(mods, packReceipt.result)
        /\ (\E allow \in BOOLEAN : ApplySheet(allow)) =>
             mods' = Over(mods, sheetReceipt.sheet) ]_vars

(* The session implements the undoable project: single edits, batches,     *)
(* packs, sheets, labels and Revert All are undone exactly and in order.   *)
(* Undoing right after a project was opened empties it.                    *)
Opened ==
    {[doc |-> archive, past |-> <<Blank>>] : archive \in Archives}
        \cup {[doc |-> Blank, past |-> <<>>]}

Project == INSTANCE UndoableProject
             WITH Docs <- Documents, Openings <- Opened, doc <- Doc, past <- undo

UndoIsExact == Project!Spec

=============================================================================
