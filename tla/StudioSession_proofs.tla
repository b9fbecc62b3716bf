------------------------- MODULE StudioSession_proofs -------------------------
EXTENDS StudioSession, SequenceTheorems, FiniteSetTheorems, TLAPS

-----------------------------------------------------------------------------
(* Operators the session is built from *)

(* Popping a record leaves a ledger of the same kind, one shorter.         *)
LEMMA AllButLastType ==
    ASSUME NEW S, NEW q \in Seq(S), q # <<>>
    PROVE  /\ AllButLast(q) \in Seq(S)
           /\ Len(AllButLast(q)) = Len(q) - 1
           /\ \A i \in 1..(Len(q) - 1) : AllButLast(q)[i] = q[i]
  <1>. DEFINE n == Len(q) - 1
  <1>1. Len(q) \in Nat \ {0} /\ \A i \in 1..Len(q) : q[i] \in S
    BY LenProperties, EmptySeq
  <1>2. n \in Nat /\ \A i \in 1..n : q[i] \in S
    BY <1>1
  <1>. HIDE DEF n
  <1>3. /\ SubSeq(q, 1, n) \in Seq(S)
        /\ Len(SubSeq(q, 1, n)) = IF 1 <= n THEN n - 1 + 1 ELSE 0
        /\ \A i \in 1..(n - 1 + 1) : SubSeq(q, 1, n)[i] = q[1 + i - 1]
    BY <1>2, SubSeqProperties
  <1>4. /\ SubSeq(q, 1, n) \in Seq(S)
        /\ Len(SubSeq(q, 1, n)) = n
        /\ \A i \in 1..n : SubSeq(q, 1, n)[i] = q[i]
    BY <1>2, <1>3
  <1>. QED BY <1>4 DEF AllButLast, n

(* The last entry of a nonempty ledger is one of its entries.              *)
LEMMA LastType ==
    ASSUME NEW S, NEW q \in Seq(S), q # <<>>
    PROVE  /\ Len(q) \in 1..Len(q)
           /\ DOMAIN q = 1..Len(q)
           /\ q[Len(q)] \in S
  BY LenProperties, EmptySeq, ElementOfSeq

(* The edited assets of an editor are finitely many, so their count is a   *)
(* number.                                                                 *)
LEMMA EditedFinite ==
    ASSUME NEW S \in SUBSET Assets
    PROVE  Edited(S) \in SUBSET Assets /\ Cardinality(Edited(S)) \in Nat
  <1>1. Edited(S) \in SUBSET Assets
    BY DEF Edited
  <1>. QED BY <1>1, FS_Subset, FS_CardinalityType, SessionAssumption

(* Snapshots that can be copied get fresh numbers within the bound, one    *)
(* each.                                                                   *)
LEMMA NumberingFacts ==
    ASSUME TypeOK, NEW S \in SUBSET Assets, NEW num \in Numberings(S), CanCopy(S)
    PROVE  /\ Cardinality(Edited(S)) \in Nat
           /\ \A a \in Edited(S) :
                /\ num[a] \in SnapIds
                /\ seq < num[a]
                /\ num[a] <= seq + Cardinality(Edited(S))
           /\ \A a, b \in Edited(S) : num[a] = num[b] => a = b
           /\ seq + Cardinality(Edited(S)) \in 0..MaxSnapshots
  <1>1. Cardinality(Edited(S)) \in Nat
    BY EditedFinite
  <1>2. seq \in Nat /\ MaxSnapshots \in Nat /\ seq <= MaxSnapshots
    BY SessionAssumption DEF TypeOK
  <1>3. num \in [Edited(S) -> (seq + 1)..(seq + Cardinality(Edited(S)))]
    BY DEF Numberings, Injection
  <1>4. \A a, b \in Edited(S) : num[a] = num[b] => a = b
    BY <1>3 DEF Numberings, Injection, IsInjective
  <1>5. seq + Cardinality(Edited(S)) <= MaxSnapshots
    BY DEF CanCopy
  <1>6. \A a \in Edited(S) : num[a] \in (seq + 1)..(seq + Cardinality(Edited(S)))
    BY <1>3
  <1>. QED BY <1>1, <1>2, <1>4, <1>5, <1>6 DEF SnapIds

(* Copying files into the history keeps it a history.                      *)
LEMMA CopiedType ==
    ASSUME TypeOK, NEW S \in SUBSET Assets, NEW num
    PROVE  Copied(S, num) \in [SnapIds -> Payload]
  <1>. SUFFICES ASSUME NEW n \in SnapIds PROVE Copied(S, num)[n] \in Payload
    BY DEF Copied
  <1>1. history[n] \in Payload
    BY DEF TypeOK
  <1>2. CASE \E a \in Edited(S) : num[a] = n
    <2>. DEFINE c == CHOOSE a \in Edited(S) : num[a] = n
    <2>1. c \in Edited(S)
      BY <1>2
    <2>2. c \in Assets
      BY <2>1 DEF Edited
    <2>3. files[c] \in Payload
      BY <2>2 DEF TypeOK, EditMaps
    <2>. QED BY <1>2, <2>3 DEF Copied
  <1>3. CASE ~ \E a \in Edited(S) : num[a] = n
    BY <1>1, <1>3 DEF Copied
  <1>. QED BY <1>2, <1>3

(* What a fresh snapshot number holds is the file it was copied from.      *)
LEMMA CopiedContent ==
    ASSUME TypeOK, NEW S \in SUBSET Assets, NEW num \in Numberings(S), CanCopy(S)
    PROVE  /\ \A a \in Edited(S) : Copied(S, num)[num[a]] = files[a]
           /\ \A n \in SnapIds : n <= seq => Copied(S, num)[n] = history[n]
  <1>1. \A a \in Edited(S) : num[a] \in SnapIds /\ seq < num[a]
    BY NumberingFacts
  <1>2. \A a, b \in Edited(S) : num[a] = num[b] => a = b
    BY NumberingFacts
  <1>3. ASSUME NEW a \in Edited(S) PROVE Copied(S, num)[num[a]] = files[a]
    <2>1. (CHOOSE b \in Edited(S) : num[b] = num[a]) = a
      BY <1>2, <1>3
    <2>. QED BY <1>1, <1>3, <2>1 DEF Copied
  <1>4. ASSUME NEW n \in SnapIds, n <= seq PROVE Copied(S, num)[n] = history[n]
    <2>1. seq \in Nat /\ n \in Nat
      BY SessionAssumption DEF TypeOK, SnapIds
    <2>2. \A a \in Edited(S) : num[a] # n
      BY <1>1, <1>4, <2>1 DEF SnapIds
    <2>. QED BY <2>2 DEF Copied
  <1>. QED BY <1>3, <1>4

(* An undo action made of fresh snapshot numbers is an undo action.        *)
LEMMA ActionForType ==
    ASSUME TypeOK, NEW S \in SUBSET Assets, NEW num \in Numberings(S), CanCopy(S)
    PROVE  ActionFor(S, num) \in UndoActions
  <1>1. MaxSnapshots \in Nat
    BY SessionAssumption
  <1>. SUFFICES ASSUME NEW a \in Assets
                PROVE  ActionFor(S, num)[a] \in Untouched..MaxSnapshots
    BY DEF ActionFor, UndoActions
  <1>2. CASE a \notin S
    BY <1>1, <1>2 DEF ActionFor, Untouched
  <1>3. CASE a \in S /\ edits[a] = None
    BY <1>1, <1>3 DEF ActionFor, Untouched, NoSnapshot
  <1>4. CASE a \in S /\ edits[a] # None
    <2>1. a \in Edited(S)
      BY <1>4 DEF Edited
    <2>2. num[a] \in SnapIds
      BY <2>1, NumberingFacts
    <2>. QED BY <1>1, <1>4, <2>2 DEF ActionFor, SnapIds, Untouched
  <1>. QED BY <1>2, <1>3, <1>4

LEMMA PartType ==
    ASSUME TypeOK, NEW num \in Numberings(Assets), CanCopy(Assets), NEW s
    PROVE  Part(s, num) \in UndoActions
  <1>1. \A a \in Edited(Assets) : num[a] \in SnapIds
    BY NumberingFacts
  <1>2. Edited(Of(s)) \subseteq Edited(Assets)
    BY DEF Edited, Of
  <1>. QED BY <1>1, <1>2, SessionAssumption DEF Part, UndoActions, SnapIds, Untouched

(* Restoring an asset from an undo action gives a payload.                 *)
LEMMA RestoredType ==
    ASSUME TypeOK, NEW action \in UndoActions, NEW a \in Items(action)
    PROVE  /\ action[a] \in SnapIds \cup {NoSnapshot}
           /\ Restored(action, a) \in Payload
  <1>1. a \in Assets /\ action[a] \in Untouched..MaxSnapshots /\ action[a] # Untouched
    BY DEF Items, UndoActions
  <1>2. MaxSnapshots \in Nat
    BY SessionAssumption
  <1>3. action[a] \in SnapIds \cup {NoSnapshot}
    BY <1>1, <1>2 DEF SnapIds, NoSnapshot, Untouched
  <1>. QED BY <1>3 DEF Restored, TypeOK, Payload

LEMMA RevertedType ==
    ASSUME TypeOK, NEW action \in UndoActions, NEW S \in SUBSET Items(action),
           NEW g \in EditMaps
    PROVE  Reverted(action, S, g) \in EditMaps
  <1>. SUFFICES ASSUME NEW a \in Assets PROVE Reverted(action, S, g)[a] \in Payload
    BY DEF Reverted, EditMaps
  <1>1. g[a] \in Payload /\ None \in Payload
    BY DEF EditMaps, Payload
  <1>2. a \in S /\ action[a] # NoSnapshot => history[action[a]] \in Payload
    BY RestoredType DEF Restored
  <1>. QED BY <1>1, <1>2 DEF Reverted

(* Removing snapshots keeps the history a history.                         *)
LEMMA PurgeType ==
    ASSUME TypeOK, NEW ids, Purge(ids)
    PROVE  history' \in [SnapIds -> Payload]
  BY DEF Purge, TypeOK, Payload

LEMMA EntryType ==
    ASSUME NEW s \in FileSources \cup {"text", "audio_annotation", "revert_all"},
           NEW touched \in SUBSET FileSources
    PROVE  Entry(s, touched) \in Entries
  <1>1. Nothing \in UndoActions
    BY SessionAssumption DEF Nothing, UndoActions, Untouched
  <1>2. NoNotes \in NoteMaps
    BY DEF NoNotes, NoteMaps, Payload
  <1>3. None \in Payload
    BY DEF Payload
  <1>. QED BY <1>1, <1>2, <1>3 DEF Entry, Entries

-----------------------------------------------------------------------------
(* Type correctness *)

LEMMA PayloadNone == None \in Payload
  BY DEF Payload

LEMMA EmptyMaps == NoEdits \in EditMaps /\ NoTexts \in TextMaps /\ NoNotes \in NoteMaps
  BY PayloadNone DEF NoEdits, NoTexts, NoNotes, EditMaps, TextMaps, NoteMaps

LEMMA InitType == Init => TypeOK
  <1>. SUFFICES ASSUME Init PROVE TypeOK
    OBVIOUS
  <1>1. /\ edits \in EditMaps /\ files \in EditMaps
        /\ texts \in TextMaps /\ notes \in NoteMaps
        /\ colours \in Colours \cup {None}
    BY EmptyMaps DEF Init
  <1>2. manifest \in [edits : EditMaps, texts : TextMaps, notes : NoteMaps]
    BY <1>1 DEF Init, Doc
  <1>3. textUndo \in Seq([asset : Texts, previous : Payload])
    BY EmptySeq DEF Init
  <1>4. undo \in [FileSources -> Seq(UndoActions)] /\ order \in Seq(Entries)
    BY EmptySeq DEF Init
  <1>5. history \in [SnapIds -> Payload]
    BY PayloadNone DEF Init
  <1>6. seq \in 0..MaxSnapshots
    BY SessionAssumption DEF Init
  <1>. QED BY <1>1, <1>2, <1>3, <1>4, <1>5, <1>6 DEF TypeOK

(* The manifest is the document or what it was.                            *)
LEMMA ManifestType ==
    ASSUME TypeOK, NEW f, WriteManifest(f),
           edits' \in EditMaps, texts' \in TextMaps, notes' \in NoteMaps
    PROVE  manifest' \in [edits : EditMaps, texts : TextMaps, notes : NoteMaps]
  <1>1. Doc' \in [edits : EditMaps, texts : TextMaps, notes : NoteMaps]
    BY DEF Doc
  <1>. QED BY <1>1 DEF WriteManifest, TypeOK

LEMMA RecordType ==
    ASSUME TypeOK, NEW s \in FileSources, NEW action \in UndoActions,
           Record(s, action)
    PROVE  /\ undo' \in [FileSources -> Seq(UndoActions)]
           /\ order' \in Seq(Entries)
  <1>1. Append(undo[s], action) \in Seq(UndoActions)
    BY AppendProperties DEF TypeOK
  <1>2. Entry(s, {s}) \in Entries
    BY EntryType
  <1>3. Append(order, Entry(s, {s})) \in Seq(Entries)
    BY <1>2, AppendProperties DEF TypeOK
  <1>. QED BY <1>1, <1>3 DEF Record, TypeOK

LEMMA SnapshotsType ==
    ASSUME TypeOK, NEW S \in SUBSET Assets, NEW num \in Numberings(S),
           TakeSnapshots(S, num)
    PROVE  /\ seq' \in 0..MaxSnapshots
           /\ history' \in [SnapIds -> Payload]
           /\ CanCopy(S)
           /\ ActionFor(S, num) \in UndoActions
  BY NumberingFacts, CopiedType, ActionForType DEF TakeSnapshots

LEMMA StageType ==
    ASSUME TypeOK, NEW a \in Assets, NEW v \in Payload, NEW num \in Numberings({a}),
           NEW f, TakeSnapshots({a}, num), Stage(a, v, num, f),
           UNCHANGED <<texts, notes>>
    PROVE  /\ edits' \in EditMaps /\ files' \in EditMaps
           /\ undo' \in [FileSources -> Seq(UndoActions)]
           /\ order' \in Seq(Entries)
           /\ manifest' \in [edits : EditMaps, texts : TextMaps, notes : NoteMaps]
  <1>1. edits' \in EditMaps /\ files' \in EditMaps
    BY DEF Stage, TypeOK, EditMaps
  <1>2. SourceOf[a] \in FileSources
    BY SessionAssumption
  <1>3. ActionFor({a}, num) \in UndoActions
    BY SnapshotsType
  <1>4. undo' \in [FileSources -> Seq(UndoActions)] /\ order' \in Seq(Entries)
    BY <1>2, <1>3, RecordType DEF Stage
  <1>5. texts' \in TextMaps /\ notes' \in NoteMaps
    BY DEF TypeOK
  <1>6. WriteManifest(f)
    BY DEF Stage
  <1>. QED BY <1>1, <1>4, <1>5, <1>6, ManifestType

(* Single edits                                                            *)
LEMMA EditSteps ==
    ASSUME TypeOK, NEW a \in Assets, NEW v \in Payload, NEW f,
           \/ SnapshotFails(a, f) \/ Replace(a, v, f) \/ ReplaceStadium(a, v, f)
           \/ ReplaceAudio(a, v, f) \/ Revert(a, f)
    PROVE  TypeOK'
  <1>0. None \in Payload /\ {a} \in SUBSET Assets
    BY PayloadNone
  <1>1. CASE SnapshotFails(a, f)
    <2>1. seq' \in 0..MaxSnapshots
      BY <1>1, SessionAssumption DEF SnapshotFails, TypeOK
    <2>. QED BY <1>1, <2>1 DEF SnapshotFails, TypeOK
  <1>2. ASSUME NEW num \in Numberings({a}), NEW u \in Payload,
               TakeSnapshots({a}, num), UNCHANGED <<texts, textUndo, notes, colours>>,
               Stage(a, u, num, f)
        PROVE  TypeOK'
    BY <1>0, <1>2, SnapshotsType, StageType DEF TypeOK
  <1>3. ASSUME NEW num \in Numberings({a}), TakeSnapshots({a}, num),
               UNCHANGED <<texts, textUndo, notes, colours>>, UNCHANGED <<undo, order>>,
               edits' \in EditMaps, files' \in EditMaps, UNCHANGED manifest
        PROVE  TypeOK'
    BY <1>0, <1>3, SnapshotsType DEF TypeOK
  <1>4. /\ edits \in EditMaps /\ files \in EditMaps
        /\ \A u \in Payload : /\ [edits EXCEPT ![a] = u] \in EditMaps
                               /\ [files EXCEPT ![a] = u] \in EditMaps
    BY DEF TypeOK, EditMaps
  <1>5. CASE Replace(a, v, f)
    BY <1>0, <1>2, <1>3, <1>4, <1>5 DEF Replace, Abandon, KeepLedgers
  <1>6. CASE ReplaceStadium(a, v, f)
    BY <1>0, <1>2, <1>3, <1>4, <1>6 DEF ReplaceStadium, Abandon, KeepLedgers
  <1>7. CASE ReplaceAudio(a, v, f)
    BY <1>0, <1>2, <1>3, <1>4, <1>7 DEF ReplaceAudio, Abandon, KeepLedgers
  <1>8. CASE Revert(a, f)
    BY <1>0, <1>2, <1>3, <1>4, <1>8 DEF Revert, Abandon, KeepLedgers
  <1>. QED BY <1>1, <1>5, <1>6, <1>7, <1>8

LEMMA TextNoteSteps ==
    ASSUME TypeOK, NEW v \in Payload, NEW f,
           \/ \E t \in Texts : SetText(t, v, f)
           \/ \E c \in Cues : SetNote(c, v, f)
           \/ \E u \in Colours \cup {None} : SetColours(u)
    PROVE  TypeOK'
  <1>1. ASSUME NEW t \in Texts, SetText(t, v, f) PROVE TypeOK'
    <2>1. texts' \in TextMaps
      BY <1>1 DEF SetText, TypeOK, TextMaps
    <2>2. [asset |-> t, previous |-> texts[t]] \in [asset : Texts, previous : Payload]
      BY DEF TypeOK, TextMaps
    <2>3. textUndo' \in Seq([asset : Texts, previous : Payload])
      BY <1>1, <2>2, AppendProperties DEF SetText, TypeOK
    <2>4. order' \in Seq(Entries)
      <3>1. Entry("text", {}) \in Entries
        BY EntryType
      <3>. QED BY <1>1, <3>1, AppendProperties DEF SetText, TypeOK
    <2>5. edits' \in EditMaps /\ notes' \in NoteMaps
      BY <1>1 DEF SetText, TypeOK
    <2>6. manifest' \in [edits : EditMaps, texts : TextMaps, notes : NoteMaps]
      BY <1>1, <2>1, <2>5, ManifestType DEF SetText
    <2>. QED BY <1>1, <2>1, <2>3, <2>4, <2>6 DEF SetText, TypeOK
  <1>2. ASSUME NEW c \in Cues, SetNote(c, v, f) PROVE TypeOK'
    <2>1. CASE f = "none"
      <3>1. notes' \in NoteMaps
        BY <1>2, <2>1 DEF SetNote, TypeOK, NoteMaps
      <3>. DEFINE e == [Entry("audio_annotation", {}) EXCEPT !.cue = c, !.note = notes[c]]
      <3>2. e \in Entries
        <4>1. Entry("audio_annotation", {}) \in Entries
          BY EntryType
        <4>2. notes[c] \in Payload
          BY DEF TypeOK, NoteMaps
        <4>. QED BY <4>1, <4>2 DEF Entries
      <3>3. order' = Append(order, e)
        BY <1>2, <2>1 DEF SetNote
      <3>. HIDE DEF e
      <3>4. order' \in Seq(Entries)
        BY <3>2, <3>3, AppendProperties DEF TypeOK
      <3>5. edits' \in EditMaps /\ texts' \in TextMaps
        BY <1>2 DEF SetNote, TypeOK
      <3>6. manifest' \in [edits : EditMaps, texts : TextMaps, notes : NoteMaps]
        BY <1>2, <2>1, <3>1, <3>5, ManifestType DEF SetNote
      <3>. QED BY <1>2, <2>1, <3>1, <3>4, <3>6 DEF SetNote, TypeOK
    <2>2. CASE UNCHANGED <<notes, order, manifest>>
      BY <1>2, <2>2 DEF SetNote, TypeOK
    <2>. QED BY <1>2, <2>1, <2>2 DEF SetNote
  <1>3. ASSUME NEW u \in Colours \cup {None}, SetColours(u) PROVE TypeOK'
    BY <1>3 DEF SetColours, TypeOK
  <1>. QED BY <1>1, <1>2, <1>3

(* Batches: the rows of a bundle are assets of one editor.                 *)
LEMMA BundleFacts ==
    ASSUME NEW s \in FileSources, NEW rows \in Bundles(s)
    PROVE  /\ DOMAIN rows \subseteq Of(s)
           /\ Of(s) \subseteq Assets
           /\ \A a \in DOMAIN rows : rows[a] \in Payload
           /\ Changed(rows) \in SUBSET Assets
           /\ Changed(rows) \subseteq DOMAIN rows
  BY DEF Bundles, Of, Changed

LEMMA BatchSteps ==
    ASSUME TypeOK, NEW s \in FileSources, NEW rows \in Bundles(s), NEW f,
           \/ Batch(s, rows, f) \/ BatchRollsBack(s, rows, f)
           \/ BatchRollbackFails(s, rows, f)
    PROVE  TypeOK'
  <1>. DEFINE S == Changed(rows)
  <1>0. S \in SUBSET Assets /\ \A a \in S : rows[a] \in Payload
    BY BundleFacts
  <1>. HIDE DEF S
  <1>1. CASE Batch(s, rows, f)
    <2>. PICK num \in Numberings(S) :
           /\ TakeSnapshots(S, num)
           /\ edits' = [a \in Assets |-> IF a \in S THEN rows[a] ELSE edits[a]]
           /\ files' = [a \in Assets |-> IF a \in S THEN rows[a] ELSE files[a]]
           /\ Record(s, ActionFor(S, num))
      BY <1>1 DEF Batch, S
    <2>1. edits' \in EditMaps /\ files' \in EditMaps
      BY <1>0 DEF TypeOK, EditMaps
    <2>2. /\ seq' \in 0..MaxSnapshots /\ history' \in [SnapIds -> Payload]
          /\ ActionFor(S, num) \in UndoActions
      BY <1>0, SnapshotsType
    <2>3. undo' \in [FileSources -> Seq(UndoActions)] /\ order' \in Seq(Entries)
      BY <2>2, RecordType
    <2>4. UNCHANGED <<texts, textUndo, notes, colours>> /\ WriteManifest(f)
      BY <1>1 DEF Batch
    <2>5. texts' \in TextMaps /\ notes' \in NoteMaps
      BY <2>4 DEF TypeOK
    <2>6. manifest' \in [edits : EditMaps, texts : TextMaps, notes : NoteMaps]
      BY <2>1, <2>4, <2>5, ManifestType
    <2>. QED BY <2>1, <2>2, <2>3, <2>4, <2>6 DEF TypeOK
  <1>2. CASE BatchRollsBack(s, rows, f)
    <2>1. edits' \in EditMaps /\ texts' \in TextMaps /\ notes' \in NoteMaps
      BY <1>2 DEF BatchRollsBack, TypeOK
    <2>2. manifest' \in [edits : EditMaps, texts : TextMaps, notes : NoteMaps]
      BY <1>2, <2>1, ManifestType DEF BatchRollsBack
    <2>. QED BY <1>2, <2>2 DEF BatchRollsBack, TypeOK
  <1>3. CASE BatchRollbackFails(s, rows, f)
    <2>. PICK hit \in Edited(S), num \in Numberings(S), kept \in SUBSET S :
           /\ history' = Copied(S, num)
           /\ files' = [a \in Assets |-> IF a = hit THEN None
                                         ELSE IF a \in kept THEN rows[a]
                                         ELSE files[a]]
      BY <1>3 DEF BatchRollbackFails, S
    <2>1. history' \in [SnapIds -> Payload]
      BY <1>0, CopiedType
    <2>2. files' \in EditMaps
      BY <1>0, PayloadNone DEF TypeOK, EditMaps
    <2>. QED BY <1>3, <2>1, <2>2 DEF BatchRollbackFails, TypeOK
  <1>. QED BY <1>1, <1>2, <1>3

LEMMA RevertAllSteps ==
    ASSUME TypeOK, NEW f, RevertAll(f) \/ RevertAllFails(f)
    PROVE  TypeOK'
  <1>1. CASE RevertAll(f)
    <2>. PICK num \in Numberings(Assets), left \in SUBSET Edited(Assets) :
           /\ TakeSnapshots(Assets, num)
           /\ files' = [a \in Assets |-> IF a \in Edited(Assets) \ left
                                         THEN None ELSE files[a]]
           /\ undo' = [s \in FileSources |->
                         IF s \in RevertedStacks THEN Append(undo[s], Part(s, num))
                                                ELSE undo[s]]
           /\ order' = Append(order, RevertAllEntry(num))
      BY <1>1 DEF RevertAll
    <2>1. edits' \in EditMaps /\ texts' \in TextMaps /\ notes' \in NoteMaps
      BY <1>1, EmptyMaps DEF RevertAll
    <2>2. files' \in EditMaps
      BY PayloadNone DEF TypeOK, EditMaps
    <2>3. seq' \in 0..MaxSnapshots /\ history' \in [SnapIds -> Payload]
      BY SnapshotsType
    <2>4. \A s \in FileSources : Part(s, num) \in UndoActions
      BY PartType DEF TakeSnapshots
    <2>5. undo' \in [FileSources -> Seq(UndoActions)]
      BY <2>4, AppendProperties DEF TypeOK
    <2>6. RevertAllEntry(num) \in Entries
      <3>1. RevertedStacks \in SUBSET FileSources
        BY DEF RevertedStacks
      <3>2. Entry("revert_all", RevertedStacks) \in Entries
        BY <3>1, EntryType
      <3>3. Part("audio", num) \in UndoActions
        BY <2>4 DEF FileSources
      <3>. QED BY <3>2, <3>3 DEF RevertAllEntry, Entries, TypeOK
    <2>7. order' \in Seq(Entries)
      BY <2>6, AppendProperties DEF TypeOK
    <2>8. textUndo' \in Seq([asset : Texts, previous : Payload])
      BY <1>1, EmptySeq DEF RevertAll, TypeOK
    <2>9. colours' = None /\ WriteManifest(f)
      BY <1>1 DEF RevertAll
    <2>10. manifest' \in [edits : EditMaps, texts : TextMaps, notes : NoteMaps]
      BY <2>1, <2>9, ManifestType
    <2>. QED BY <2>1, <2>2, <2>3, <2>5, <2>7, <2>8, <2>9, <2>10 DEF TypeOK
  <1>2. CASE RevertAllFails(f)
    BY <1>2 DEF RevertAllFails, TypeOK
  <1>. QED BY <1>1, <1>2

(* The action on top of a nonempty stack.                                  *)
LEMMA LastActionType ==
    ASSUME TypeOK, NEW s \in FileSources, undo[s] # <<>>
    PROVE  LastAction(s) \in UndoActions
  BY LastType DEF LastAction, TypeOK

LEMMA PopType ==
    ASSUME TypeOK, NEW source, TopIs(source)
    PROVE  /\ AllButLast(order) \in Seq(Entries)
           /\ Top \in Entries
           /\ Top.source = source
  BY AllButLastType, LastType DEF TypeOK, TopIs, Top

LEMMA PopStackType ==
    ASSUME TypeOK, NEW s \in FileSources, undo[s] # <<>>
    PROVE  [undo EXCEPT ![s] = AllButLast(@)] \in [FileSources -> Seq(UndoActions)]
  BY AllButLastType DEF TypeOK

LEMMA AudioUndoneType ==
    ASSUME TypeOK, undo["audio"] # <<>>, NEW g \in EditMaps
    PROVE  AudioUndone(g) \in EditMaps
  <1>1. LastAction("audio") \in UndoActions
    BY LastActionType DEF FileSources
  <1>2. \A a \in Items(LastAction("audio")) : Restored(LastAction("audio"), a) \in Payload
    BY <1>1, RestoredType
  <1>. QED BY <1>2 DEF AudioUndone, EditMaps

LEMMA UndoAudioSteps ==
    ASSUME TypeOK, NEW f,
           UndoAudio(f) \/ UndoAudioFails(f) \/ UndoAudioRollbackFails(f)
    PROVE  TypeOK'
  <1>1. CASE UndoAudio(f)
    <2>1. /\ TopIs("audio") /\ undo["audio"] # <<>> /\ "audio" \in FileSources
          /\ UNCHANGED <<texts, textUndo, notes, colours, seq>>
          /\ edits' = AudioUndone(edits) /\ files' = AudioUndone(files)
          /\ WriteManifest(f)
          /\ undo' = [undo EXCEPT !["audio"] = AllButLast(@)]
      BY <1>1 DEF UndoAudio, FileSources
    <2>2. edits' \in EditMaps /\ files' \in EditMaps
      BY <2>1, AudioUndoneType DEF TypeOK
    <2>3. texts' \in TextMaps /\ notes' \in NoteMaps
      BY <2>1 DEF TypeOK
    <2>4. manifest' \in [edits : EditMaps, texts : TextMaps, notes : NoteMaps]
      BY <2>1, <2>2, <2>3, ManifestType
    <2>5. undo' \in [FileSources -> Seq(UndoActions)]
      BY <2>1, PopStackType
    <2>6. order' \in Seq(Entries)
      BY <1>1, <2>1, PopType DEF UndoAudio, Pop, TypeOK
    <2>7. history' \in [SnapIds -> Payload]
      BY <1>1, PurgeType DEF UndoAudio
    <2>. QED BY <2>1, <2>2, <2>4, <2>5, <2>6, <2>7 DEF TypeOK
  <1>2. CASE UndoAudioFails(f)
    BY <1>2 DEF UndoAudioFails, vars, TypeOK
  <1>3. CASE UndoAudioRollbackFails(f)
    <2>1. AudioUndone(files) \in EditMaps
      BY <1>3, AudioUndoneType DEF UndoAudioRollbackFails, TypeOK
    <2>2. files' \in EditMaps
      BY <1>3, <2>1, PayloadNone DEF UndoAudioRollbackFails, TypeOK, EditMaps
    <2>. QED BY <1>3, <2>2 DEF UndoAudioRollbackFails, TypeOK
  <1>. QED BY <1>1, <1>2, <1>3

LEMMA UndoTextNoteSteps ==
    ASSUME TypeOK, NEW f, UndoNote(f) \/ UndoText(f)
    PROVE  TypeOK'
  <1>1. CASE UndoNote(f)
    <2>1. TopIs("audio_annotation") /\ Top.note \in Payload
      BY <1>1, PopType DEF UndoNote, Entries
    <2>2. UNCHANGED <<edits, files, texts, textUndo, colours, undo, history, seq>>
      BY <1>1 DEF UndoNote
    <2>3. CASE notes' = [notes EXCEPT ![Top.cue] = Top.note] /\ Pop /\ WriteManifest(f)
      <3>1. notes' \in NoteMaps
        BY <2>1, <2>3 DEF TypeOK, NoteMaps
      <3>2. order' \in Seq(Entries)
        BY <2>1, <2>3, PopType DEF Pop
      <3>3. edits' \in EditMaps /\ texts' \in TextMaps
        BY <2>2 DEF TypeOK
      <3>4. manifest' \in [edits : EditMaps, texts : TextMaps, notes : NoteMaps]
        BY <2>3, <3>1, <3>3, ManifestType
      <3>. QED BY <2>2, <3>1, <3>2, <3>4 DEF TypeOK
    <2>4. CASE UNCHANGED <<notes, order, manifest>>
      BY <2>2, <2>4 DEF TypeOK
    <2>. QED BY <1>1, <2>3, <2>4 DEF UndoNote
  <1>2. CASE UndoText(f)
    <2>1. /\ TopIs("text") /\ Pop
          /\ UNCHANGED <<edits, files, notes, colours, undo, history, seq>>
      BY <1>2 DEF UndoText
    <2>2. order' \in Seq(Entries)
      BY <2>1, PopType DEF Pop
    <2>3. CASE /\ textUndo # <<>>
               /\ texts' = [texts EXCEPT ![textUndo[Len(textUndo)].asset] =
                              textUndo[Len(textUndo)].previous]
               /\ textUndo' = AllButLast(textUndo)
               /\ WriteManifest(f)
      <3>1. textUndo[Len(textUndo)] \in [asset : Texts, previous : Payload]
        BY <2>3, LastType DEF TypeOK
      <3>2. texts' \in TextMaps
        BY <2>3, <3>1 DEF TypeOK, TextMaps
      <3>3. textUndo' \in Seq([asset : Texts, previous : Payload])
        BY <2>3, AllButLastType DEF TypeOK
      <3>4. edits' \in EditMaps /\ notes' \in NoteMaps
        BY <2>1 DEF TypeOK
      <3>5. manifest' \in [edits : EditMaps, texts : TextMaps, notes : NoteMaps]
        BY <2>3, <3>2, <3>4, ManifestType
      <3>. QED BY <2>1, <2>2, <3>2, <3>3, <3>5 DEF TypeOK
    <2>4. CASE UNCHANGED <<texts, textUndo, manifest>>
      BY <2>1, <2>2, <2>4 DEF TypeOK
    <2>. QED BY <1>2, <2>3, <2>4 DEF UndoText
  <1>. QED BY <1>1, <1>2

LEMMA UndoFileSteps ==
    ASSUME TypeOK, NEW s \in FileSources, NEW f, UndoFile(s, f) \/ UndoFileFails(s, f)
    PROVE  TypeOK'
  <1>. DEFINE action == LastAction(s)
  <1>1. /\ TopIs(s) /\ undo[s] # <<>> /\ Pop
        /\ undo' = [undo EXCEPT ![s] = AllButLast(@)]
        /\ UNCHANGED <<texts, textUndo, notes, colours, seq>>
    BY DEF UndoFile, UndoFileFails
  <1>2. action \in UndoActions
    BY <1>1, LastActionType
  <1>3. undo' \in [FileSources -> Seq(UndoActions)] /\ order' \in Seq(Entries)
    BY <1>1, PopStackType, PopType DEF Pop
  <1>4. texts' \in TextMaps /\ notes' \in NoteMaps
    BY <1>1 DEF TypeOK
  <1>5. \A S \in SUBSET Items(action) :
          Reverted(action, S, edits) \in EditMaps /\ Reverted(action, S, files) \in EditMaps
    BY <1>2, RevertedType DEF TypeOK
  <1>6. history' \in [SnapIds -> Payload]
    BY PurgeType DEF UndoFile, UndoFileFails
  <1>7. CASE UndoFile(s, f)
    <2>1. edits' \in EditMaps /\ files' \in EditMaps /\ WriteManifest(f)
      BY <1>5, <1>7 DEF UndoFile
    <2>2. manifest' \in [edits : EditMaps, texts : TextMaps, notes : NoteMaps]
      BY <1>4, <2>1, ManifestType
    <2>. QED BY <1>1, <1>3, <1>4, <1>6, <2>1, <2>2 DEF TypeOK
  <1>8. CASE UndoFileFails(s, f)
    <2>. PICK T \in SUBSET Items(action), hit \in Items(action) :
           /\ edits' = [Reverted(action, T, edits) EXCEPT
                          ![hit] = IF f = "purge" THEN @ ELSE None]
           /\ files' = [Reverted(action, T, files) EXCEPT
                          ![hit] = IF f \in {"purge", "unlink"} \/ edits[hit] = None
                                   THEN @ ELSE None]
      BY <1>8 DEF UndoFileFails
    <2>1. hit \in Assets
      BY DEF Items
    <2>2. edits' \in EditMaps /\ files' \in EditMaps
      BY <1>5, <2>1, PayloadNone DEF EditMaps
    <2>3. UNCHANGED manifest
      BY <1>8 DEF UndoFileFails
    <2>. QED BY <1>1, <1>3, <1>4, <1>6, <2>2, <2>3 DEF TypeOK
  <1>. QED BY <1>7, <1>8

(* The actions a Revert All record is undone with.                         *)
LEMMA RestoredByType ==
    ASSUME TypeOK, UndoRevertAllReady, NEW a \in Assets
    PROVE  RestoredBy(a) \in UndoActions
  <1>1. Top \in Entries
    BY PopType DEF UndoRevertAllReady
  <1>2. Top.audio \in UndoActions
    BY <1>1 DEF Entries
  <1>3. SourceOf[a] \in FileSources
    BY SessionAssumption
  <1>4. SourceOf[a] \in Top.touched => LastAction(SourceOf[a]) \in UndoActions
    BY <1>3, LastActionType DEF UndoRevertAllReady
  <1>5. Nothing \in UndoActions
    BY SessionAssumption DEF Nothing, UndoActions, Untouched
  <1>. QED BY <1>2, <1>4, <1>5 DEF RestoredBy

LEMMA RevertAllUndoneType ==
    ASSUME TypeOK, UndoRevertAllReady, NEW g \in EditMaps,
           \A a \in RevertAllItems : RestoredBy(a)[a] # NoSnapshot
    PROVE  RevertAllUndone(g) \in EditMaps
  <1>1. ASSUME NEW a \in RevertAllItems PROVE history[RestoredBy(a)[a]] \in Payload
    <2>1. a \in Assets /\ RestoredBy(a)[a] # Untouched /\ RestoredBy(a)[a] # NoSnapshot
      BY <1>1 DEF RevertAllItems
    <2>2. RestoredBy(a)[a] \in Untouched..MaxSnapshots
      BY <2>1, RestoredByType DEF UndoActions
    <2>3. RestoredBy(a)[a] \in SnapIds
      BY <2>1, <2>2, SessionAssumption DEF SnapIds, Untouched, NoSnapshot
    <2>. QED BY <2>3 DEF TypeOK
  <1>. QED BY <1>1 DEF RevertAllUndone, EditMaps

LEMMA UndoRevertAllSteps ==
    ASSUME TypeOK, NEW f, UndoRevertAll(f) \/ UndoRevertAllFails(f)
    PROVE  TypeOK'
  <1>1. CASE UndoRevertAll(f)
    <2>1. /\ UndoRevertAllReady
          /\ edits' = RevertAllUndone(edits) /\ files' = RevertAllUndone(files)
          /\ \A a \in RevertAllItems : RestoredBy(a)[a] # NoSnapshot
          /\ texts' = (IF Top.texts # None THEN Top.texts ELSE texts)
          /\ textUndo' = (IF Top.texts # None THEN <<>> ELSE textUndo)
          /\ notes' = Top.notes
          /\ WriteManifest(f) /\ Pop
          /\ undo' = [s \in FileSources |->
                        IF s \in Top.touched THEN AllButLast(undo[s]) ELSE undo[s]]
          /\ UNCHANGED <<colours, seq>>
      BY <1>1 DEF UndoRevertAll
    <2>2. Top \in Entries /\ AllButLast(order) \in Seq(Entries)
      BY <2>1, PopType DEF UndoRevertAllReady
    <2>3. edits' \in EditMaps /\ files' \in EditMaps
      BY <2>1, RevertAllUndoneType DEF TypeOK
    <2>4. texts' \in TextMaps /\ notes' \in NoteMaps
      BY <2>1, <2>2 DEF Entries, TypeOK
    <2>5. textUndo' \in Seq([asset : Texts, previous : Payload])
      BY <2>1, EmptySeq DEF TypeOK
    <2>6. manifest' \in [edits : EditMaps, texts : TextMaps, notes : NoteMaps]
      BY <2>1, <2>3, <2>4, ManifestType
    <2>7. undo' \in [FileSources -> Seq(UndoActions)]
      <3>1. \A s \in FileSources : s \in Top.touched =>
              AllButLast(undo[s]) \in Seq(UndoActions)
        BY <2>1, AllButLastType DEF UndoRevertAllReady, TypeOK
      <3>. QED BY <2>1, <3>1 DEF TypeOK
    <2>8. history' \in [SnapIds -> Payload]
      BY <1>1, PurgeType DEF UndoRevertAll
    <2>. QED BY <2>1, <2>2, <2>3, <2>4, <2>5, <2>6, <2>7, <2>8 DEF TypeOK, Pop
  <1>2. CASE UndoRevertAllFails(f)
    BY <1>2 DEF UndoRevertAllFails, vars, TypeOK
  <1>. QED BY <1>1, <1>2

LEMMA OpenProjectStep ==
    ASSUME TypeOK, NEW d \in Archives, OpenProject(d)
    PROVE  TypeOK'
  <1>1. d \in [edits : EditMaps, texts : TextMaps, notes : NoteMaps]
    BY SessionAssumption
  <1>2. undo' \in [FileSources -> Seq(UndoActions)] /\ order' \in Seq(Entries)
    BY EmptySeq DEF OpenProject
  <1>3. textUndo' \in Seq([asset : Texts, previous : Payload])
    BY EmptySeq DEF OpenProject
  <1>4. history' \in [SnapIds -> Payload] /\ seq' \in 0..MaxSnapshots
    BY PayloadNone, SessionAssumption DEF OpenProject
  <1>. QED BY <1>1, <1>2, <1>3, <1>4 DEF OpenProject, TypeOK

LEMMA NextType == TypeOK /\ [Next]_vars => TypeOK'
  <1>. SUFFICES ASSUME TypeOK, [Next]_vars PROVE TypeOK'
    OBVIOUS
  <1>1. CASE UNCHANGED vars
    BY <1>1 DEF vars, TypeOK
  <1>2. CASE \E a \in Assets, v \in Payload, f \in Outcomes :
               \/ SnapshotFails(a, f) \/ Replace(a, v, f) \/ ReplaceStadium(a, v, f)
               \/ ReplaceAudio(a, v, f) \/ Revert(a, f)
    BY <1>2, EditSteps
  <1>3. CASE \E v \in Payload, f \in Outcomes :
               \/ \E t \in Texts : SetText(t, v, f)
               \/ \E c \in Cues : SetNote(c, v, f)
               \/ \E u \in Colours \cup {None} : SetColours(u)
    BY <1>3, TextNoteSteps
  <1>4. CASE \E s \in {"visual", "audio"} : \E rows \in Bundles(s), f \in Outcomes :
               \/ Batch(s, rows, f) \/ BatchRollsBack(s, rows, f)
               \/ BatchRollbackFails(s, rows, f)
    BY <1>4, BatchSteps DEF FileSources
  <1>5. CASE \E f \in Outcomes : RevertAll(f) \/ RevertAllFails(f)
    BY <1>5, RevertAllSteps
  <1>6. CASE \E f \in Outcomes :
               UndoAudio(f) \/ UndoAudioFails(f) \/ UndoAudioRollbackFails(f)
    BY <1>6, UndoAudioSteps
  <1>7. CASE \E f \in Outcomes : UndoNote(f) \/ UndoText(f)
    BY <1>7, UndoTextNoteSteps
  <1>8. CASE \E s \in FileSources \ {"audio"}, f \in Outcomes :
               UndoFile(s, f) \/ UndoFileFails(s, f)
    BY <1>8, UndoFileSteps
  <1>9. CASE \E f \in Outcomes : UndoRevertAll(f) \/ UndoRevertAllFails(f)
    BY <1>9, UndoRevertAllSteps
  <1>10. CASE \E d \in Archives : OpenProject(d)
    BY <1>10, OpenProjectStep
  <1>11. None \in Payload /\ "none" \in Outcomes
    BY PayloadNone DEF Outcomes
  <1>. QED BY <1>1, <1>2, <1>3, <1>4, <1>5, <1>6, <1>7, <1>8, <1>9, <1>10, <1>11 DEF Next

(* Whatever fails, the session's maps, ledgers and history keep their      *)
(* shape.                                                                  *)
THEOREM TypeCorrect == Spec => []TypeOK
  BY InitType, NextType, PTL DEF Spec

=============================================================================
