---------------------------- MODULE StudioSession ----------------------------
(***************************************************************************)
(* The reversible working session of 2K5 Mod Studio                        *)
(* (mod_editor/studio/session.py, class StudioSession).                    *)
(*                                                                         *)
(* A session keeps one sparse edit map per editor, the private replacement *)
(* file of every file-backed edit, an undo stack per editor, one global    *)
(* undo order across the editors, numbered snapshot files that the undo    *)
(* records point at, and the session manifest.  Every operation runs under *)
(* the facade's lock, so it is one step; what can go wrong inside it is a  *)
(* failing file-system call or a failing validation, and the step takes    *)
(* the kind of the failing call as its argument f ("none": no failure).    *)
(*                                                                         *)
(* Simplifications.                                                        *)
(*  - A PNG or WAV is a member of Values; the source's own pixels or PCM   *)
(*    are None, so "supplied = original" is v = None, as it is "no edit".  *)
(*  - files[a] is the file at the path the edit of a uses.  A stadium edit *)
(*    has fresh token-named files, so an old pair it failed to remove is   *)
(*    no longer anybody's file; the authored file stands for the pair.     *)
(*  - A snapshot file is named by its sequence number alone.               *)
(*  - One call fails per operation; rollback and cleanup then succeed,     *)
(*    except under the fault "rollback" (a disk that stays full).          *)
(***************************************************************************)
EXTENDS Integers, Sequences, FiniteSets, Functions

CONSTANTS
    Assets,       \* file-backed assets; a physical slot for audio
    SourceOf,     \* the editor that owns each asset
    Texts,        \* text and jersey-number assets
    Cues,         \* audio cues that can carry an annotation
    Values,       \* authored payloads
    Colours,      \* facemask/turtleneck colour pairs
    None,         \* no edit, the retail value
    Faults,       \* the kinds of failure that may happen
    Archives,     \* projects that can be opened
    MaxSnapshots, \* bound on the history sequence
    MaxUndo       \* bound on the undo order

FileSources == {"visual", "crib", "stadium", "audio"}

(* snapshot: copying a live edit into the history directory                *)
(* stage   : writing or renaming a replacement file into place             *)
(* unlink  : removing a live replacement file                              *)
(* preview : removing a stadium preview after its authored PNG was removed *)
(* validate: reading or checking a snapshot or a staged file               *)
(* manifest: publishing session.json                                       *)
(* purge   : removing a snapshot an undo has consumed                      *)
(* rollback: a commit fails and so does restoring a touched file           *)
FaultKinds == {"snapshot", "stage", "unlink", "preview", "validate",
               "manifest", "purge", "rollback"}

Payload == Values \cup {None}
EditMaps == [Assets -> Payload]
TextMaps == [Texts -> Payload]
NoteMaps == [Cues -> Payload]
NoEdits == [a \in Assets |-> None]
NoTexts == [t \in Texts |-> None]
NoNotes == [c \in Cues |-> None]

ASSUME SessionAssumption ==
    /\ IsFiniteSet(Assets)
    /\ SourceOf \in [Assets -> FileSources]
    /\ None \notin Values
    /\ None \notin Colours
    /\ Faults \subseteq FaultKinds
    /\ Archives \subseteq [edits : EditMaps, texts : TextMaps, notes : NoteMaps]
    /\ MaxSnapshots \in Nat
    /\ MaxUndo \in Nat

VARIABLES
    edits,     \* _edits, _crib_edits, _stadium_edits, _audio_edits
    files,     \* replacements/
    texts,     \* text_edits: staged values
    textUndo,  \* text_edits._undo
    notes,     \* _audio_annotations
    colours,   \* _unif_colors
    undo,      \* _undo, _crib_undo, _stadium_undo, _audio_undo
    order,     \* _undo_order
    history,   \* undo/: snapshot number -> content
    seq,       \* _history_sequence
    manifest   \* session.json

vars == <<edits, files, texts, textUndo, notes, colours, undo, order, history,
          seq, manifest>>

(***************************************************************************)
(* Undo records.  An action maps every asset to the number of its          *)
(* snapshot, to NoSnapshot (there was no edit) or to Untouched.            *)
(***************************************************************************)
Untouched == -1
NoSnapshot == 0
SnapIds == 1..MaxSnapshots
UndoActions == [Assets -> Untouched..MaxSnapshots]
Nothing == [a \in Assets |-> Untouched]

Entries ==
    [source  : FileSources \cup {"text", "audio_annotation", "revert_all"},
     touched : SUBSET FileSources,      \* stacks that hold a part of the record
     audio   : UndoActions,             \* revert_all: its audio snapshots
     texts   : TextMaps \cup {None},    \* revert_all: the text document
     notes   : NoteMaps,                \* revert_all: the annotations
     cue     : Cues \cup {None},        \* audio_annotation
     note    : Payload]                 \* audio_annotation

Entry(source, touched) ==
    [source |-> source, touched |-> touched, audio |-> Nothing, texts |-> None,
     notes |-> NoNotes, cue |-> None, note |-> None]

Doc == [edits |-> edits, texts |-> texts, notes |-> notes]

Init ==
    /\ edits = NoEdits
    /\ files = NoEdits
    /\ texts = NoTexts
    /\ textUndo = <<>>
    /\ notes = NoNotes
    /\ colours = None
    /\ undo = [s \in FileSources |-> <<>>]
    /\ order = <<>>
    /\ history = [n \in SnapIds |-> None]
    /\ seq = 0
    /\ manifest = Doc

-----------------------------------------------------------------------------
(* Helpers *)

Of(s) == {a \in Assets : SourceOf[a] = s}
Edited(S) == {a \in S : edits[a] # None}
HasText == texts # NoTexts
Top == order[Len(order)]
AllButLast(q) == SubSeq(q, 1, Len(q) - 1)
LastAction(s) == undo[s][Len(undo[s])]
Items(action) == {a \in Assets : action[a] # Untouched}
Restored(action, a) == IF action[a] = NoSnapshot THEN None ELSE history[action[a]]

(* The order in which a set of edits is snapshotted is the caller's.       *)
Numberings(S) ==
    Injection(Edited(S), (seq + 1)..(seq + Cardinality(Edited(S))))

Copied(S, num) ==
    [n \in SnapIds |->
        IF \E a \in Edited(S) : num[a] = n
        THEN files[CHOOSE a \in Edited(S) : num[a] = n]
        ELSE history[n]]

CanCopy(S) ==
    /\ seq + Cardinality(Edited(S)) <= MaxSnapshots
    /\ \A a \in Edited(S) : files[a] # None

(* Mutant: the sequence is cut back although the snapshots are kept.       *)
TakeSnapshots_Reuse(S, num) ==
    /\ CanCopy(S)
    /\ seq' = seq
    /\ history' = Copied(S, num)

TakeSnapshots(S, num) ==
    /\ CanCopy(S)
    /\ seq' = seq + Cardinality(Edited(S))
    /\ history' = Copied(S, num)

(* Mutant: the item keeps the live edit instead of its snapshot.           *)
ActionFor_Live(S, num) ==
    [a \in Assets |-> IF a \notin S THEN Untouched
                      ELSE IF edits[a] = None THEN NoSnapshot ELSE edits[a]]

ActionFor(S, num) ==
    [a \in Assets |-> IF a \notin S THEN Untouched
                      ELSE IF edits[a] = None THEN NoSnapshot ELSE num[a]]

(* Mutant: the whole history directory is cleared.                         *)
Purge_All(ids) == history' = [n \in SnapIds |-> None]

Purge(ids) ==
    history' = [n \in SnapIds |-> IF n \in ids THEN None ELSE history[n]]

WriteManifest(f) == manifest' = IF f = "manifest" THEN manifest ELSE Doc'

Room == Len(order) < MaxUndo

(* Mutants: one of the two ledgers is forgotten.                           *)
Record_StackOnly(s, action) ==
    /\ Room
    /\ undo' = [undo EXCEPT ![s] = Append(@, action)]
    /\ UNCHANGED order
Record_OrderOnly(s, action) ==
    /\ Room
    /\ UNCHANGED undo
    /\ order' = Append(order, Entry(s, {s}))

Record(s, action) ==
    /\ Room
    /\ undo' = [undo EXCEPT ![s] = Append(@, action)]
    /\ order' = Append(order, Entry(s, {s}))

KeepLedgers == UNCHANGED <<undo, order>>

-----------------------------------------------------------------------------
(* Single edits.  The edit is live as soon as it is in the map; only the   *)
(* manifest can lag behind it.                                             *)

(* _snapshot_*: the number is taken before the copy is attempted.          *)
SnapshotFails(a, f) ==
    /\ edits[a] # None
    /\ f = "snapshot" \/ (files[a] = None /\ SourceOf[a] # "audio")
    /\ seq < MaxSnapshots
    /\ seq' = seq + 1
    /\ UNCHANGED <<edits, files, texts, textUndo, notes, colours, undo, order,
                   history, manifest>>

(* The edit of a becomes v, its file with it, and one record is pushed.    *)
(* Where there was no edit there is no file to remove.                     *)
Stage(a, v, num, f) ==
    /\ f \in {"none", "manifest"}
    /\ edits' = [edits EXCEPT ![a] = v]
    /\ files' = IF v = None /\ edits[a] = None THEN files
              ELSE [files EXCEPT ![a] = v]
    /\ Record(SourceOf[a], ActionFor({a}, num))
    /\ WriteManifest(f)

(* The operation raised after the snapshot was taken: the snapshot stays   *)
(* behind and nothing refers to it.                                        *)
Abandon == KeepLedgers /\ UNCHANGED <<edits, files, manifest>>

(* replace, replace_crib *)
Replace(a, v, f) ==
    /\ SourceOf[a] \in {"visual", "crib"}
    /\ UNCHANGED <<texts, textUndo, notes, colours>>
    /\ \E num \in Numberings({a}) :
         /\ TakeSnapshots({a}, num)
         /\ \/ Stage(a, v, num, f)
            \/ f = "stage" /\ v # None /\ Abandon
            \/ /\ f = "unlink" /\ v = None /\ edits[a] # None
               /\ edits' = [edits EXCEPT ![a] = None]
               /\ KeepLedgers
               /\ UNCHANGED <<files, manifest>>

(* replace_stadium_texture *)
ReplaceStadium(a, v, f) ==
    /\ SourceOf[a] = "stadium"
    /\ v # None \/ edits[a] # None
    /\ UNCHANGED <<texts, textUndo, notes, colours>>
    /\ \E num \in Numberings({a}) :
         /\ TakeSnapshots({a}, num)
         /\ \/ Stage(a, v, num, f)
            \/ f = "stage" /\ v # None /\ Abandon
            \/ f = "unlink" /\ v = None /\ Abandon
            \/ /\ f \in {"unlink", "preview"} /\ v # None /\ edits[a] # None
               /\ edits' = [edits EXCEPT ![a] = v]
               /\ files' = [files EXCEPT ![a] = v]
               /\ KeepLedgers
               /\ UNCHANGED manifest
            \/ /\ f = "preview" /\ v = None
               /\ files' = [files EXCEPT ![a] = None]
               /\ KeepLedgers
               /\ UNCHANGED <<edits, manifest>>

(* _replace_authorized_audio; a is the physical slot *)
ReplaceAudio(a, v, f) ==
    /\ SourceOf[a] = "audio"
    /\ v # IF edits[a] = None THEN None ELSE files[a]
    /\ UNCHANGED <<texts, textUndo, notes, colours>>
    /\ \E num \in Numberings({a}) :
         /\ TakeSnapshots({a}, num)
         /\ \/ Stage(a, v, num, f)
            \/ f = "stage" /\ v # None /\ Abandon
            \/ f = "unlink" /\ v = None /\ Abandon

(* revert, revert_crib, revert_stadium_texture, revert_audio *)
Revert(a, f) ==
    /\ edits[a] # None
    /\ UNCHANGED <<texts, textUndo, notes, colours>>
    /\ \E num \in Numberings({a}) :
         /\ TakeSnapshots({a}, num)
         /\ \/ Stage(a, None, num, f)
            \/ f = "unlink" /\ Abandon
            \/ /\ f = "preview" /\ SourceOf[a] = "stadium"
               /\ files' = [files EXCEPT ![a] = None]
               /\ KeepLedgers
               /\ UNCHANGED <<edits, manifest>>

(* set_text, set_number, revert_text *)
SetText(t, v, f) ==
    /\ f \in {"none", "manifest"}
    /\ texts[t] # v
    /\ Room
    /\ UNCHANGED <<edits, files, notes, colours, undo, history, seq>>
    /\ texts' = [texts EXCEPT ![t] = v]
    /\ textUndo' = Append(textUndo, [asset |-> t, previous |-> texts[t]])
    /\ order' = Append(order, Entry("text", {}))
    /\ WriteManifest(f)

(* set_audio_annotation, clear_audio_annotation *)
SetNote(c, v, f) ==
    /\ notes[c] # v
    /\ Room
    /\ UNCHANGED <<edits, files, texts, textUndo, colours, undo, history, seq>>
    /\ \/ /\ f = "none"
          /\ notes' = [notes EXCEPT ![c] = v]
          /\ order' = Append(order, [Entry("audio_annotation", {}) EXCEPT
                                       !.cue = c, !.note = notes[c]])
          /\ WriteManifest(f)
       \/ f = "manifest" /\ UNCHANGED <<notes, order, manifest>>

(* set_unif_colors, clear_unif_colors *)
SetColours(v) ==
    /\ colours # v
    /\ colours' = v
    /\ UNCHANGED <<edits, files, texts, textUndo, notes, undo, order, history,
                   seq, manifest>>

-----------------------------------------------------------------------------
(* Batches: replace_batch ("visual"), _replace_authorized_audio_batch      *)
(* ("audio").  Rows that change nothing are dropped before the commit.     *)

Changed(rows) == {a \in DOMAIN rows : rows[a] # edits[a]}
Intact(S) == \A a \in Edited(S) : files[a] = edits[a]
BatchAccepted(rows) == Changed(rows) # {} /\ Intact(DOMAIN rows)

Batch(s, rows, f) ==
    LET S == Changed(rows) IN
    /\ f = "none"
    /\ BatchAccepted(rows)
    /\ UNCHANGED <<texts, textUndo, notes, colours>>
    /\ \E num \in Numberings(S) :
         /\ TakeSnapshots(S, num)
         /\ edits' = [a \in Assets |-> IF a \in S THEN rows[a] ELSE edits[a]]
         /\ files' = [a \in Assets |-> IF a \in S THEN rows[a] ELSE files[a]]
         /\ Record(s, ActionFor(S, num))
    /\ WriteManifest(f)

(* Mutant: the rollback forgets the files already committed.               *)
BatchRollsBack_KeepsFiles(s, rows, f) ==
    /\ f \in {"snapshot", "stage", "unlink", "validate", "manifest"}
    /\ BatchAccepted(rows)
    /\ files' = [a \in Assets |-> IF a \in DOMAIN rows THEN rows[a] ELSE files[a]]
    /\ UNCHANGED <<edits, texts, textUndo, notes, colours, undo, order,
                   history, seq>>
    /\ WriteManifest("none")

(* The except branch: every touched file is restored from its snapshot,    *)
(* the ledgers and the sequence are cut back, the snapshots removed and    *)
(* the old state is published again.                                       *)
BatchRollsBack(s, rows, f) ==
    /\ f \in {"snapshot", "stage", "unlink", "validate", "manifest"}
    /\ BatchAccepted(rows)
    /\ UNCHANGED <<edits, files, texts, textUndo, notes, colours, undo, order,
                   history, seq>>
    /\ WriteManifest("none")

(* The restoring copy of one file fails too: that file is gone, files not  *)
(* yet reached keep the new bytes, and the snapshots stay.                 *)
BatchRollbackFails(s, rows, f) ==
    LET S == Changed(rows) IN
    /\ f = "rollback"
    /\ BatchAccepted(rows)
    /\ CanCopy(S)
    /\ \E hit \in Edited(S), num \in Numberings(S), kept \in SUBSET S :
         /\ hit \notin kept
         /\ history' = Copied(S, num)
         /\ files' = [a \in Assets |-> IF a = hit THEN None
                                       ELSE IF a \in kept THEN rows[a]
                                       ELSE files[a]]
    /\ UNCHANGED <<edits, texts, textUndo, notes, colours, undo, order, seq,
                   manifest>>

-----------------------------------------------------------------------------
(* revert_all *)

Clean == edits = NoEdits /\ ~HasText /\ notes = NoNotes

(* Each editor with edits but audio pushes an action on its own stack.     *)
Part(s, num) ==
    [a \in Assets |-> IF a \in Edited(Of(s)) THEN num[a] ELSE Untouched]
RevertedStacks == {s \in FileSources \ {"audio"} : Edited(Of(s)) # {}}

RevertAllEntry(num) ==
    [Entry("revert_all", RevertedStacks) EXCEPT
        !.audio = Part("audio", num),
        !.texts = IF HasText THEN texts ELSE None,
        !.notes = notes]

(* After the empty manifest is published the previous files are removed;   *)
(* left is what a failing unlink leaves of them.                           *)
RevertAll(f) ==
    /\ f \in {"none", "unlink"}
    /\ ~Clean \/ colours # None
    /\ Room
    /\ colours' = None
    /\ \E num \in Numberings(Assets), left \in SUBSET Edited(Assets) :
         /\ (left = {}) = (f = "none")
         /\ TakeSnapshots(Assets, num)
         /\ files' = [a \in Assets |-> IF a \in Edited(Assets) \ left
                                       THEN None ELSE files[a]]
         /\ undo' = [s \in FileSources |->
                       IF s \in RevertedStacks THEN Append(undo[s], Part(s, num))
                                              ELSE undo[s]]
         /\ order' = Append(order, RevertAllEntry(num))
    /\ edits' = NoEdits
    /\ texts' = NoTexts
    /\ textUndo' = IF HasText THEN <<>> ELSE textUndo
    /\ notes' = NoNotes
    /\ WriteManifest(f)

(* A snapshot, an audio check or the manifest fails: the snapshots are     *)
(* removed and the edit maps and ledgers restored; _unif_colors was        *)
(* dropped before the transaction began.                                   *)
RevertAllFails(f) ==
    /\ \/ f \in {"snapshot", "validate", "manifest"}
       \/ \E a \in Edited(Assets) : files[a] = None
    /\ ~Clean \/ colours # None
    /\ colours' = None
    /\ UNCHANGED <<edits, files, texts, textUndo, notes, undo, order, history,
                   seq, manifest>>

-----------------------------------------------------------------------------
(* undo *)

Pop == order' = AllButLast(order)
TopIs(source) == order # <<>> /\ Top.source = source

AudioUndone(g) ==
    LET action == LastAction("audio") IN
    [a \in Assets |-> IF a \in Items(action) THEN Restored(action, a) ELSE g[a]]

(* _undo_authorized_audio_action: every file and the manifest, or nothing. *)
(* The stack is popped before the consumed snapshots are removed and the   *)
(* order after, so a failing removal leaves the order record in place.     *)
UndoAudio(f) ==
    LET action == LastAction("audio")
        S == Items(action)
    IN
    /\ f \in {"none", "purge"}
    /\ TopIs("audio")
    /\ undo["audio"] # <<>>
    /\ \A a \in S : files[a] = edits[a]
    /\ UNCHANGED <<texts, textUndo, notes, colours, seq>>
    /\ edits' = AudioUndone(edits)
    /\ files' = AudioUndone(files)
    /\ WriteManifest(f)
    /\ undo' = [undo EXCEPT !["audio"] = AllButLast(@)]
    /\ \/ f = "none" /\ Pop /\ Purge({action[a] : a \in S})
       \/ /\ f = "purge"
          /\ \E gone \in SUBSET S :
               /\ \E a \in S \ gone : action[a] # NoSnapshot
               /\ Purge({action[a] : a \in gone})
          /\ UNCHANGED order

(* Mutant: the files are rolled back and the edit map is not.              *)
UndoAudioFails_Half(f) ==
    /\ f \in {"validate", "stage", "unlink", "manifest"}
    /\ TopIs("audio")
    /\ undo["audio"] # <<>>
    /\ edits' = AudioUndone(edits)
    /\ UNCHANGED <<files, texts, textUndo, notes, colours, undo, order, history,
                   seq, manifest>>

(* Any earlier failure rolls files, edits and manifest back.               *)
UndoAudioFails(f) ==
    /\ f \in {"validate", "stage", "unlink", "manifest"}
    /\ TopIs("audio")
    /\ UNCHANGED vars

(* The rollback of some files fails as well: the current WAV is gone, or   *)
(* it could not be put back because what the undo left there stays.        *)
UndoAudioRollbackFails(f) ==
    /\ f = "rollback"
    /\ TopIs("audio")
    /\ undo["audio"] # <<>>
    /\ LET S == Items(LastAction("audio")) IN
       /\ \A a \in S : files[a] = edits[a]
       /\ \E gone \in SUBSET Edited(S), stays \in SUBSET S :
            /\ gone \cup stays # {}
            /\ files' = [a \in Assets |-> IF a \in gone THEN None
                                          ELSE IF a \in stays THEN AudioUndone(files)[a]
                                          ELSE files[a]]
    /\ UNCHANGED <<edits, texts, textUndo, notes, colours, undo, order, history,
                   seq, manifest>>

UndoNote(f) ==
    /\ TopIs("audio_annotation")
    /\ UNCHANGED <<edits, files, texts, textUndo, colours, undo, history, seq>>
    /\ \/ /\ f = "none"
          /\ notes' = [notes EXCEPT ![Top.cue] = Top.note]
          /\ Pop
          /\ WriteManifest(f)
       \/ f = "manifest" /\ UNCHANGED <<notes, order, manifest>>

(* The record leaves the order before text_edits.undo() is asked.          *)
UndoText(f) ==
    /\ TopIs("text")
    /\ Pop
    /\ UNCHANGED <<edits, files, notes, colours, undo, history, seq>>
    /\ \/ /\ f \in {"none", "manifest"}
          /\ textUndo # <<>>
          /\ LET last == textUndo[Len(textUndo)] IN
             texts' = [texts EXCEPT ![last.asset] = last.previous]
          /\ textUndo' = AllButLast(textUndo)
          /\ WriteManifest(f)
       \/ textUndo = <<>> /\ f = "none" /\ UNCHANGED <<texts, textUndo, manifest>>

(* _undo_visual_action, _undo_crib_action, _undo_stadium_action: both      *)
(* records are popped first, then the items are restored one by one.       *)
(* Mutant: an edit that had no predecessor survives its undo.              *)
Reverted_KeepsNew(action, S, g) ==
    [a \in Assets |-> IF a \in S /\ action[a] # NoSnapshot
                      THEN history[action[a]] ELSE g[a]]

Reverted(action, S, g) ==
    [a \in Assets |->
        IF a \notin S THEN g[a]
        ELSE IF action[a] # NoSnapshot THEN history[action[a]]
        ELSE IF edits[a] # None THEN None ELSE g[a]]

UndoFile(s, f) ==
    LET action == LastAction(s)
        S == Items(action)
    IN
    /\ f \in {"none", "manifest"}
    /\ TopIs(s)
    /\ undo[s] # <<>>
    /\ Pop
    /\ undo' = [undo EXCEPT ![s] = AllButLast(@)]
    /\ edits' = Reverted(action, S, edits)
    /\ files' = Reverted(action, S, files)
    /\ Purge({action[a] : a \in S})
    /\ UNCHANGED <<texts, textUndo, notes, colours, seq>>
    /\ WriteManifest(f)

(* A call fails at item hit: the items done are restored, the others keep  *)
(* their current edit, and neither record comes back.                      *)
UndoFileFails(s, f) ==
    LET action == LastAction(s)
        S == Items(action)
    IN
    /\ f \in {"unlink", "preview", "validate", "stage", "purge"}
    /\ TopIs(s)
    /\ undo[s] # <<>>
    /\ Pop
    /\ undo' = [undo EXCEPT ![s] = AllButLast(@)]
    /\ \E done \in SUBSET S, hit \in S :
         /\ hit \notin done
         /\ f = "unlink" => edits[hit] # None
         /\ f = "preview" => edits[hit] # None /\ s = "stadium"
         /\ f \in {"validate", "stage", "purge"} => action[hit] # NoSnapshot
         /\ LET T == IF f = "purge" THEN done \cup {hit} ELSE done IN
            /\ edits' = [Reverted(action, T, edits) EXCEPT
                           ![hit] = IF f = "purge" THEN @ ELSE None]
            /\ files' = [Reverted(action, T, files) EXCEPT
                           ![hit] = IF f \in {"purge", "unlink"} \/ edits[hit] = None
                                    THEN @ ELSE None]
         /\ Purge({action[a] : a \in done})
    /\ UNCHANGED <<texts, textUndo, notes, colours, seq, manifest>>

(* _undo_revert_all_transaction *)
UndoRevertAllReady ==
    /\ TopIs("revert_all")
    /\ Clean /\ colours = None
    /\ \A s \in Top.touched : undo[s] # <<>>

RestoredBy(a) ==   \* the action of the Revert All on top that holds asset a
    IF SourceOf[a] = "audio" THEN Top.audio
    ELSE IF SourceOf[a] \in Top.touched THEN LastAction(SourceOf[a]) ELSE Nothing

RevertAllItems == {a \in Assets : RestoredBy(a)[a] # Untouched}

RevertAllUndone(g) ==
    [a \in Assets |-> IF a \in RevertAllItems THEN history[RestoredBy(a)[a]]
                                              ELSE g[a]]

UndoRevertAll(f) ==
    /\ f = "none"
    /\ UndoRevertAllReady
    /\ \A a \in RevertAllItems : RestoredBy(a)[a] # NoSnapshot
    /\ \A a \in RevertAllItems : SourceOf[a] # "stadium" => files[a] = None
    /\ edits' = RevertAllUndone(edits)
    /\ files' = RevertAllUndone(files)
    /\ texts' = IF Top.texts # None THEN Top.texts ELSE texts
    /\ textUndo' = IF Top.texts # None THEN <<>> ELSE textUndo
    /\ notes' = Top.notes
    /\ WriteManifest(f)
    /\ undo' = [s \in FileSources |->
                  IF s \in Top.touched THEN AllButLast(undo[s]) ELSE undo[s]]
    /\ Pop
    /\ Purge({RestoredBy(a)[a] : a \in RevertAllItems})
    /\ UNCHANGED <<colours, seq>>

UndoRevertAllFails(f) ==
    /\ f \in {"validate", "stage", "manifest"}
    /\ UndoRevertAllReady
    /\ UNCHANGED vars

-----------------------------------------------------------------------------
(* Opening a project (facade._load_project_candidate with                  *)
(* load_shareable_project): a fresh session adopts the archive's document; *)
(* a failure discards the candidate and leaves this session as it is.      *)
OpenProject(d) ==
    /\ edits' = d.edits
    /\ files' = d.edits
    /\ texts' = d.texts
    /\ notes' = d.notes
    /\ colours' = None
    /\ textUndo' = <<>>
    /\ undo' = [s \in FileSources |-> <<>>]
    /\ order' = <<>>
    /\ history' = [n \in SnapIds |-> None]
    /\ seq' = 0
    /\ manifest' = d

-----------------------------------------------------------------------------
Outcomes == Faults \cup {"none"}

(* The bundles a batch import can supply: any rows of the editor's assets. *)
Bundles(s) == UNION {[S -> Payload] : S \in SUBSET Of(s)}

Next ==
    \/ \E a \in Assets, f \in Outcomes : SnapshotFails(a, f)
    \/ \E a \in Assets, v \in Payload, f \in Outcomes : Replace(a, v, f)
    \/ \E a \in Assets, v \in Payload, f \in Outcomes : ReplaceStadium(a, v, f)
    \/ \E a \in Assets, v \in Payload, f \in Outcomes : ReplaceAudio(a, v, f)
    \/ \E a \in Assets, f \in Outcomes : Revert(a, f)
    \/ \E t \in Texts, v \in Payload, f \in Outcomes : SetText(t, v, f)
    \/ \E c \in Cues, v \in Payload, f \in Outcomes : SetNote(c, v, f)
    \/ \E v \in Colours \cup {None} : SetColours(v)
    \/ \E s \in {"visual", "audio"} : \E rows \in Bundles(s), f \in Outcomes :
          Batch(s, rows, f)
    \/ \E s \in {"visual", "audio"} : \E rows \in Bundles(s), f \in Outcomes :
          BatchRollsBack(s, rows, f)
    \/ \E s \in {"visual", "audio"} : \E rows \in Bundles(s), f \in Outcomes :
          BatchRollbackFails(s, rows, f)
    \/ \E f \in Outcomes : RevertAll(f)
    \/ \E f \in Outcomes : RevertAllFails(f)
    \/ \E f \in Outcomes : UndoAudio(f)
    \/ \E f \in Outcomes : UndoAudioFails(f)
    \/ \E f \in Outcomes : UndoAudioRollbackFails(f)
    \/ \E f \in Outcomes : UndoNote(f)
    \/ \E f \in Outcomes : UndoText(f)
    \/ \E s \in FileSources \ {"audio"}, f \in Outcomes : UndoFile(s, f)
    \/ \E s \in FileSources \ {"audio"}, f \in Outcomes : UndoFileFails(s, f)
    \/ \E f \in Outcomes : UndoRevertAll(f)
    \/ \E f \in Outcomes : UndoRevertAllFails(f)
    \/ \E d \in Archives : OpenProject(d)

Spec == Init /\ [][Next]_vars

-----------------------------------------------------------------------------
(* Properties *)

(* Every variable keeps its shape, and the undo records are records.       *)
TypeOK ==
    /\ edits \in EditMaps
    /\ files \in EditMaps
    /\ texts \in TextMaps
    /\ textUndo \in Seq([asset : Texts, previous : Payload])
    /\ notes \in NoteMaps
    /\ colours \in Colours \cup {None}
    /\ undo \in [FileSources -> Seq(UndoActions)]
    /\ order \in Seq(Entries)
    /\ history \in [SnapIds -> Payload]
    /\ seq \in 0..MaxSnapshots
    /\ manifest \in [edits : EditMaps, texts : TextMaps, notes : NoteMaps]

(* A Revert All keeps its audio snapshots in the undo order, every other   *)
(* file action in its editor's own stack.                                  *)
Ledgers == FileSources \cup {"revert_all"}
Ledger(h) == IF h = "revert_all" THEN [i \in DOMAIN order |-> order[i].audio]
                                 ELSE undo[h]

(* Every snapshot an undo record names has been taken and its file is      *)
(* still there, whatever failed, was cut back or was removed since: an     *)
(* undo never comes to a history file that is missing.                     *)
SnapshotsKept ==
    \A h \in Ledgers : \A i \in DOMAIN Ledger(h), a \in Assets :
        LET n == Ledger(h)[i][a] IN
        n \in SnapIds => n <= seq /\ history[n] # None

(* No snapshot file serves two records, so removing the snapshots an undo  *)
(* has consumed never takes away another record's.                         *)
SnapshotsUnshared ==
    \A g, h \in Ledgers :
        \A i \in DOMAIN Ledger(g), j \in DOMAIN Ledger(h), a, b \in Assets :
            /\ Ledger(g)[i][a] \in SnapIds
            /\ Ledger(g)[i][a] = Ledger(h)[j][b]
            => g = h /\ i = j /\ a = b

(* The replacement file of a live edit holds the payload the edit was made *)
(* with: what a build reads is what the editor shows.  (A restoring copy   *)
(* that fails, or half of a stadium pair removed, is the exception.)       *)
FilesBackEdits ==
    \A a \in Assets : edits[a] # None => files[a] = edits[a]

(* Records of the undo order and actions on an editor's stack correspond   *)
(* one to one, so "Undo" never finds a stack empty or out of step.         *)
FileLedgersAgree ==
    \A s \in FileSources :
        Cardinality({i \in DOMAIN order : s \in order[i].touched}) = Len(undo[s])

(* The undo order ends in a record that can be undone: its ledger has the  *)
(* matching action, its snapshots are there, the files it will write are   *)
(* free, and nothing it did not record stands in its way.                  *)
UndoReady ==
    order = <<>> \/
    CASE Top.source = "text" -> textUndo # <<>>
      [] Top.source = "audio" ->
           /\ undo["audio"] # <<>>
           /\ \A a \in Items(LastAction("audio")) : files[a] = edits[a]
      [] Top.source = "revert_all" ->
           /\ UndoRevertAllReady
           /\ \A a \in RevertAllItems :
                /\ RestoredBy(a)[a] # NoSnapshot
                /\ SourceOf[a] # "stadium" => files[a] = None
      [] Top.source = "audio_annotation" -> TRUE
      [] OTHER -> undo[Top.source] # <<>>

(* A call that leaves no undo record behind leaves the work alone as well: *)
(* a failed operation is rolled back whole, a successful one can be taken  *)
(* back.  Only opening another project replaces the work outright.         *)
NothingUnrecorded ==
    [][order' = order =>
         \/ UNCHANGED <<edits, files, texts, notes>>
         \/ \E d \in Archives : OpenProject(d)]_vars

=============================================================================
