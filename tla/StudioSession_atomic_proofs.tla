---------------------- MODULE StudioSession_atomic_proofs ----------------------
(***************************************************************************)
(* What the session's rollbacks keep together, for any assets and any      *)
(* number of steps, each fact under the failures that leave it standing:   *)
(* the undo order and the editors' stacks, the files and the edits they    *)
(* back, and a call's changes with the record that takes them back.        *)
(***************************************************************************)
EXTENDS StudioSession_snapshots_proofs

-----------------------------------------------------------------------------
(* Counting records *)

(* The places in an undo order whose records hold an action of editor s.   *)
Records(q, s) == {i \in DOMAIN q : s \in q[i].touched}

LEMMA RecordsFinite ==
    ASSUME NEW S, NEW q \in Seq(S), NEW s
    PROVE  IsFiniteSet(Records(q, s)) /\ Cardinality(Records(q, s)) \in Nat
  <1>1. Records(q, s) \in SUBSET (1..Len(q)) /\ Len(q) \in Nat
    BY LenProperties DEF Records
  <1>2. IsFiniteSet(1..Len(q))
    BY <1>1, FS_Interval
  <1>3. IsFiniteSet(Records(q, s))
    BY <1>1, <1>2, FS_Subset
  <1>. QED BY <1>3, FS_CardinalityType

LEMMA RecordsAppend ==
    ASSUME NEW S, NEW q \in Seq(S), NEW e \in S, NEW s
    PROVE  Cardinality(Records(Append(q, e), s)) =
             IF s \in e.touched THEN Cardinality(Records(q, s)) + 1
                                ELSE Cardinality(Records(q, s))
  <1>. DEFINE n == Len(q) + 1
  <1>1. /\ DOMAIN q = 1..Len(q) /\ Len(q) \in Nat
        /\ DOMAIN Append(q, e) = 1..n
        /\ \A i \in 1..Len(q) : Append(q, e)[i] = q[i]
        /\ Append(q, e)[n] = e
    BY AppendFacts
  <1>2. n \notin DOMAIN q /\ DOMAIN Append(q, e) = DOMAIN q \cup {n}
    BY <1>1
  <1>. HIDE DEF n
  <1>3. Records(Append(q, e), s) =
          IF s \in e.touched THEN Records(q, s) \cup {n} ELSE Records(q, s)
    BY <1>1, <1>2 DEF Records
  <1>4. n \notin Records(q, s)
    BY <1>2 DEF Records
  <1>. QED BY <1>3, <1>4, RecordsFinite, FS_AddElement

LEMMA RecordsCut ==
    ASSUME NEW S, NEW q \in Seq(S), q # <<>>, NEW s
    PROVE  Cardinality(Records(AllButLast(q), s)) =
             IF s \in q[Len(q)].touched THEN Cardinality(Records(q, s)) - 1
                                        ELSE Cardinality(Records(q, s))
  <1>. DEFINE n == Len(q)
  <1>1. /\ AllButLast(q) \in Seq(S) /\ Len(AllButLast(q)) = n - 1
        /\ \A i \in 1..(n - 1) : AllButLast(q)[i] = q[i]
    BY AllButLastType
  <1>2. n \in 1..n /\ DOMAIN q = 1..n
    BY LastType
  <1>3. n \in Nat \ {0} /\ DOMAIN AllButLast(q) = 1..(n - 1)
    BY <1>1, <1>2, LenProperties
  <1>4. n \in DOMAIN q /\ DOMAIN AllButLast(q) = DOMAIN q \ {n}
    BY <1>2, <1>3
  <1>5. \A i \in DOMAIN AllButLast(q) : AllButLast(q)[i] = q[i]
    BY <1>1, <1>3
  <1>6. q[Len(q)] = q[n]
    OBVIOUS
  <1>. HIDE DEF n
  <1>7. Records(AllButLast(q), s) = Records(q, s) \ {n}
    BY <1>4, <1>5 DEF Records
  <1>8. n \in Records(q, s) <=> s \in q[n].touched
    BY <1>4 DEF Records
  <1>9. Cardinality(Records(q, s) \ {n}) =
          IF n \in Records(q, s) THEN Cardinality(Records(q, s)) - 1
                                 ELSE Cardinality(Records(q, s))
    BY RecordsFinite, FS_RemoveElement
  <1>. QED BY <1>6, <1>7, <1>8, <1>9

-----------------------------------------------------------------------------
(* What a step does to the undo order and the stacks *)

(* A record of one editor has its action on that editor's stack, the       *)
(* record of a text edit or of a label has none.                           *)
Shape(e) ==
    /\ e.source \in FileSources => e.touched = {e.source}
    /\ e.source \in {"text", "audio_annotation"} => e.touched = {}

Shaped == \A i \in DOMAIN order : Shape(order[i])

Push(e) ==
    /\ order' = Append(order, e)
    /\ \A s \in FileSources :
         IF s \in e.touched THEN \E action \in UndoActions :
                                   undo'[s] = Append(undo[s], action)
                            ELSE undo'[s] = undo[s]

PopAll ==
    /\ order # <<>>
    /\ Pop
    /\ \A s \in FileSources :
         IF s \in Top.touched THEN undo[s] # <<>> /\ undo'[s] = AllButLast(undo[s])
                              ELSE undo'[s] = undo[s]

Emptied == order' = <<>> /\ \A s \in FileSources : undo'[s] = <<>>

LedgerStep ==
    \/ UNCHANGED <<undo, order>>
    \/ \E e \in Entries : Shape(e) /\ Push(e)
    \/ PopAll
    \/ Emptied

LEMMA RecordPushes ==
    ASSUME TypeOK, NEW s \in FileSources, NEW action \in UndoActions,
           Record(s, action)
    PROVE  LedgerStep
  <1>1. Entry(s, {s}) \in Entries /\ Entry(s, {s}).source = s
        /\ Entry(s, {s}).touched = {s}
    BY EntryType DEF Entry
  <1>2. Shape(Entry(s, {s}))
    BY <1>1 DEF Shape, FileSources
  <1>3. /\ order' = Append(order, Entry(s, {s}))
        /\ undo'[s] = Append(undo[s], action)
        /\ \A r \in FileSources : r # s => undo'[r] = undo[r]
    BY DEF Record, TypeOK
  <1>4. Push(Entry(s, {s}))
    BY <1>1, <1>3 DEF Push
  <1>. QED BY <1>1, <1>2, <1>4 DEF LedgerStep

LEMMA EditLedger ==
    ASSUME TypeOK, NEW a \in Assets, NEW v \in Payload, NEW f,
           \/ SnapshotFails(a, f) \/ Replace(a, v, f) \/ ReplaceStadium(a, v, f)
           \/ ReplaceAudio(a, v, f) \/ Revert(a, f)
    PROVE  LedgerStep
  <1>0. SourceOf[a] \in FileSources
    BY SessionAssumption
  <1>1. ASSUME NEW num \in Numberings({a}), TakeSnapshots({a}, num),
               Record(SourceOf[a], ActionFor({a}, num))
        PROVE  LedgerStep
    BY <1>0, <1>1, SnapshotsType, RecordPushes
  <1>2. CASE SnapshotFails(a, f)
    BY <1>2 DEF SnapshotFails, LedgerStep
  <1>3. CASE Replace(a, v, f)
    BY <1>1, <1>3 DEF Replace, Stage, Abandon, KeepLedgers, LedgerStep
  <1>4. CASE ReplaceStadium(a, v, f)
    BY <1>1, <1>4 DEF ReplaceStadium, Stage, Abandon, KeepLedgers, LedgerStep
  <1>5. CASE ReplaceAudio(a, v, f)
    BY <1>1, <1>5 DEF ReplaceAudio, Stage, Abandon, KeepLedgers, LedgerStep
  <1>6. CASE Revert(a, f)
    BY <1>1, <1>6 DEF Revert, Stage, Abandon, KeepLedgers, LedgerStep
  <1>. QED BY <1>2, <1>3, <1>4, <1>5, <1>6

LEMMA TextNoteLedger ==
    ASSUME TypeOK, NEW v \in Payload, NEW f,
           \/ \E t \in Texts : SetText(t, v, f)
           \/ \E c \in Cues : SetNote(c, v, f)
           \/ \E u \in Colours \cup {None} : SetColours(u)
    PROVE  LedgerStep
  <1>1. ASSUME NEW t \in Texts, SetText(t, v, f) PROVE LedgerStep
    <2>1. Entry("text", {}) \in Entries /\ Shape(Entry("text", {}))
      BY EntryType DEF Entry, Shape, FileSources
    <2>2. Push(Entry("text", {}))
      BY <1>1 DEF SetText, Push, Entry
    <2>. QED BY <2>1, <2>2 DEF LedgerStep
  <1>2. ASSUME NEW c \in Cues, SetNote(c, v, f) PROVE LedgerStep
    <2>. DEFINE e == [Entry("audio_annotation", {}) EXCEPT !.cue = c, !.note = notes[c]]
    <2>1. Entry("audio_annotation", {}) \in Entries /\ notes[c] \in Payload
      BY EntryType DEF TypeOK, NoteMaps
    <2>2. e \in Entries
      BY <2>1 DEF Entries
    <2>3. e.source = "audio_annotation" /\ e.touched = {}
      BY DEF Entry
    <2>4. UNCHANGED undo /\ (order' = Append(order, e) \/ UNCHANGED order)
      BY <1>2 DEF SetNote
    <2>. HIDE DEF e
    <2>5. Shape(e)
      BY <2>3 DEF Shape, FileSources
    <2>6. order' = Append(order, e) => Push(e)
      BY <2>3, <2>4 DEF Push
    <2>. QED BY <2>2, <2>4, <2>5, <2>6 DEF LedgerStep
  <1>3. ASSUME NEW u \in Colours \cup {None}, SetColours(u) PROVE LedgerStep
    BY <1>3 DEF SetColours, LedgerStep
  <1>. QED BY <1>1, <1>2, <1>3

LEMMA BatchLedger ==
    ASSUME TypeOK, NEW s \in FileSources, NEW rows \in Bundles(s), NEW f,
           \/ Batch(s, rows, f) \/ BatchRollsBack(s, rows, f)
           \/ BatchRollbackFails(s, rows, f)
    PROVE  LedgerStep
  <1>1. CASE Batch(s, rows, f)
    <2>1. Changed(rows) \in SUBSET Assets
      BY BundleFacts
    <2>2. PICK num \in Numberings(Changed(rows)) :
            /\ TakeSnapshots(Changed(rows), num)
            /\ Record(s, ActionFor(Changed(rows), num))
      BY <1>1 DEF Batch
    <2>. QED BY <2>1, <2>2, SnapshotsType, RecordPushes
  <1>2. CASE BatchRollsBack(s, rows, f) \/ BatchRollbackFails(s, rows, f)
    BY <1>2 DEF BatchRollsBack, BatchRollbackFails, LedgerStep
  <1>. QED BY <1>1, <1>2

LEMMA RevertAllLedger ==
    ASSUME TypeOK, NEW f, RevertAll(f) \/ RevertAllFails(f)
    PROVE  LedgerStep
  <1>1. CASE RevertAll(f)
    <2>1. PICK num \in Numberings(Assets) :
            /\ TakeSnapshots(Assets, num)
            /\ undo' = [s \in FileSources |->
                          IF s \in RevertedStacks THEN Append(undo[s], Part(s, num))
                                                 ELSE undo[s]]
            /\ order' = Append(order, RevertAllEntry(num))
      BY <1>1 DEF RevertAll
    <2>2. \A s \in FileSources : Part(s, num) \in UndoActions
      BY <2>1, PartType DEF TakeSnapshots
    <2>. DEFINE e == RevertAllEntry(num)
    <2>3. e \in Entries
      <3>1. RevertedStacks \in SUBSET FileSources
        BY DEF RevertedStacks
      <3>2. Entry("revert_all", RevertedStacks) \in Entries
        BY <3>1, EntryType
      <3>3. Part("audio", num) \in UndoActions
        BY <2>2 DEF FileSources
      <3>. QED BY <3>2, <3>3 DEF RevertAllEntry, Entries, TypeOK
    <2>4. e.source = "revert_all" /\ e.touched = RevertedStacks
      BY DEF RevertAllEntry, Entry
    <2>5. order' = Append(order, e)
      BY <2>1
    <2>. HIDE DEF e
    <2>6. Shape(e)
      BY <2>4 DEF Shape, FileSources
    <2>7. Push(e)
      BY <2>1, <2>2, <2>4, <2>5 DEF Push
    <2>. QED BY <2>3, <2>6, <2>7 DEF LedgerStep
  <1>2. CASE RevertAllFails(f)
    BY <1>2 DEF RevertAllFails, LedgerStep
  <1>. QED BY <1>1, <1>2

(* The record on top has the shape of a record.                            *)
LEMMA TopShape ==
    ASSUME TypeOK, Shaped, NEW source, TopIs(source)
    PROVE  Shape(Top) /\ Top.source = source
  <1>1. Len(order) \in DOMAIN order
    BY LastType DEF TopIs, TypeOK
  <1>. QED BY <1>1 DEF Shaped, TopIs, Top

LEMMA PopsOne ==
    ASSUME TypeOK, Shaped, NEW s \in FileSources, TopIs(s), Pop, undo[s] # <<>>,
           undo' = [undo EXCEPT ![s] = AllButLast(@)]
    PROVE  PopAll
  <1>1. Top.touched = {s}
    BY TopShape DEF Shape
  <1>2. /\ undo'[s] = AllButLast(undo[s])
        /\ \A r \in FileSources : r # s => undo'[r] = undo[r]
    BY DEF TypeOK
  <1>. QED BY <1>1, <1>2 DEF PopAll, TopIs

LEMMA UndoLedger ==
    ASSUME TypeOK, Shaped, NEW f, f # "purge",
           \/ UndoAudio(f) \/ UndoAudioFails(f) \/ UndoAudioRollbackFails(f)
           \/ UndoNote(f) \/ UndoText(f)
           \/ UndoRevertAll(f) \/ UndoRevertAllFails(f)
    PROVE  LedgerStep
  <1>1. CASE UndoAudio(f)
    <2>1. /\ "audio" \in FileSources /\ TopIs("audio") /\ Pop /\ undo["audio"] # <<>>
          /\ undo' = [undo EXCEPT !["audio"] = AllButLast(@)]
      BY <1>1 DEF UndoAudio, FileSources
    <2>. QED BY <2>1, PopsOne DEF LedgerStep
  <1>2. CASE UndoAudioFails(f) \/ UndoAudioRollbackFails(f)
    BY <1>2 DEF UndoAudioFails, UndoAudioRollbackFails, vars, LedgerStep
  <1>3. ASSUME NEW source \in {"text", "audio_annotation"}, TopIs(source), Pop,
               UNCHANGED undo
        PROVE  LedgerStep
    <2>1. Top.touched = {}
      BY <1>3, TopShape DEF Shape
    <2>. QED BY <1>3, <2>1 DEF PopAll, TopIs, LedgerStep
  <1>4. CASE UndoNote(f)
    BY <1>3, <1>4 DEF UndoNote, LedgerStep
  <1>5. CASE UndoText(f)
    BY <1>3, <1>5 DEF UndoText
  <1>6. CASE UndoRevertAll(f)
    BY <1>6 DEF UndoRevertAll, UndoRevertAllReady, TopIs, PopAll, LedgerStep
  <1>7. CASE UndoRevertAllFails(f)
    BY <1>7 DEF UndoRevertAllFails, vars, LedgerStep
  <1>. QED BY <1>1, <1>2, <1>4, <1>5, <1>6, <1>7

LEMMA NextLedger ==
    ASSUME "purge" \notin Faults, TypeOK, Shaped, [Next]_vars
    PROVE  LedgerStep
  <1>0. /\ "none" \in Outcomes /\ None \in Payload
        /\ \A f \in Outcomes : f # "purge"
    BY PayloadNone DEF Outcomes
  <1>1. CASE UNCHANGED vars
    BY <1>1 DEF vars, LedgerStep
  <1>2. CASE \E a \in Assets, v \in Payload, f \in Outcomes :
               \/ SnapshotFails(a, f) \/ Replace(a, v, f) \/ ReplaceStadium(a, v, f)
               \/ ReplaceAudio(a, v, f) \/ Revert(a, f)
    BY <1>2, EditLedger
  <1>3. CASE \E v \in Payload, f \in Outcomes :
               \/ \E t \in Texts : SetText(t, v, f)
               \/ \E c \in Cues : SetNote(c, v, f)
               \/ \E u \in Colours \cup {None} : SetColours(u)
    BY <1>3, TextNoteLedger
  <1>4. CASE \E s \in {"visual", "audio"} : \E rows \in Bundles(s), f \in Outcomes :
               \/ Batch(s, rows, f) \/ BatchRollsBack(s, rows, f)
               \/ BatchRollbackFails(s, rows, f)
    BY <1>4, BatchLedger DEF FileSources
  <1>5. CASE \E f \in Outcomes : RevertAll(f) \/ RevertAllFails(f)
    BY <1>5, RevertAllLedger
  <1>6. CASE \E f \in Outcomes :
               \/ UndoAudio(f) \/ UndoAudioFails(f) \/ UndoAudioRollbackFails(f)
               \/ UndoNote(f) \/ UndoText(f)
               \/ UndoRevertAll(f) \/ UndoRevertAllFails(f)
    BY <1>0, <1>6, UndoLedger
  <1>7. CASE \E s \in FileSources \ {"audio"}, f \in Outcomes :
               UndoFile(s, f) \/ UndoFileFails(s, f)
    BY <1>7, PopsOne DEF UndoFile, UndoFileFails, LedgerStep
  <1>8. CASE \E d \in Archives : OpenProject(d)
    BY <1>8 DEF OpenProject, Emptied, LedgerStep
  <1>. QED BY <1>0, <1>1, <1>2, <1>3, <1>4, <1>5, <1>6, <1>7, <1>8 DEF Next

-----------------------------------------------------------------------------
(* The undo order against the stacks *)

LEMMA AgreeByRecords ==
    FileLedgersAgree <=>
      \A s \in FileSources : Cardinality(Records(order, s)) = Len(undo[s])
  BY DEF FileLedgersAgree, Records

LEMMA AgreePush ==
    ASSUME TypeOK, FileLedgersAgree, NEW e \in Entries, Push(e)
    PROVE  FileLedgersAgree'
  <1>. SUFFICES ASSUME NEW s \in FileSources
                PROVE  Cardinality(Records(order', s)) = Len(undo'[s])
    BY DEF FileLedgersAgree, Records
  <1>1. Cardinality(Records(order, s)) = Len(undo[s])
    BY AgreeByRecords
  <1>2. undo[s] \in Seq(UndoActions) /\ order \in Seq(Entries)
    BY DEF TypeOK
  <1>3. Cardinality(Records(order', s)) =
          IF s \in e.touched THEN Cardinality(Records(order, s)) + 1
                             ELSE Cardinality(Records(order, s))
    BY <1>2, RecordsAppend DEF Push
  <1>4. Len(undo'[s]) = IF s \in e.touched THEN Len(undo[s]) + 1 ELSE Len(undo[s])
    BY <1>2, AppendProperties DEF Push
  <1>. QED BY <1>1, <1>3, <1>4

LEMMA AgreePop ==
    ASSUME TypeOK, FileLedgersAgree, PopAll
    PROVE  FileLedgersAgree'
  <1>. SUFFICES ASSUME NEW s \in FileSources
                PROVE  Cardinality(Records(order', s)) = Len(undo'[s])
    BY DEF FileLedgersAgree, Records
  <1>1. Cardinality(Records(order, s)) = Len(undo[s])
    BY AgreeByRecords
  <1>2. undo[s] \in Seq(UndoActions) /\ order \in Seq(Entries)
    BY DEF TypeOK
  <1>3. Cardinality(Records(order', s)) =
          IF s \in Top.touched THEN Cardinality(Records(order, s)) - 1
                               ELSE Cardinality(Records(order, s))
    BY <1>2, RecordsCut DEF PopAll, Pop, Top
  <1>4. Len(undo'[s]) = IF s \in Top.touched THEN Len(undo[s]) - 1 ELSE Len(undo[s])
    BY <1>2, AllButLastType DEF PopAll
  <1>. QED BY <1>1, <1>3, <1>4

LEMMA ShapedStep ==
    ASSUME TypeOK, Shaped, LedgerStep
    PROVE  Shaped'
  <1>0. order \in Seq(Entries)
    BY DEF TypeOK
  <1>1. CASE UNCHANGED <<undo, order>>
    BY <1>1 DEF Shaped
  <1>2. ASSUME NEW e \in Entries, Shape(e), Push(e) PROVE Shaped'
    <2>1. \A i \in DOMAIN order' : IF i \in DOMAIN order THEN order'[i] = order[i]
                                   ELSE order'[i] = e
      BY <1>0, <1>2, AppendFacts DEF Push
    <2>. QED BY <1>2, <2>1 DEF Shaped
  <1>3. CASE PopAll
    BY <1>0, <1>3, CutFacts DEF PopAll, Pop, Shaped
  <1>4. CASE Emptied
    BY <1>4 DEF Emptied, Shaped
  <1>. QED BY <1>1, <1>2, <1>3, <1>4 DEF LedgerStep

(* The records' shape is what makes the agreement inductive: popping the   *)
(* record of an editor must take away exactly that editor's last action.   *)
LedgerInv == TypeOK /\ Shaped /\ FileLedgersAgree

LEMMA LedgerInit == Init => LedgerInv
  <1>. SUFFICES ASSUME Init PROVE LedgerInv
    OBVIOUS
  <1>1. \A s \in FileSources : Records(order, s) = {} /\ Len(undo[s]) = 0
    BY DEF Init, Records
  <1>. QED BY <1>1, InitType, AgreeByRecords, FS_EmptySet
       DEF LedgerInv, Shaped, Init

LEMMA LedgerNext == "purge" \notin Faults /\ LedgerInv /\ [Next]_vars => LedgerInv'
  <1>. SUFFICES ASSUME "purge" \notin Faults, LedgerInv, [Next]_vars PROVE LedgerInv'
    OBVIOUS
  <1>1. TypeOK /\ Shaped /\ FileLedgersAgree /\ TypeOK'
    BY NextType DEF LedgerInv
  <1>2. LedgerStep
    BY <1>1, NextLedger
  <1>3. Shaped'
    BY <1>1, <1>2, ShapedStep
  <1>4. ASSUME UNCHANGED <<undo, order>> PROVE FileLedgersAgree'
    BY <1>1, <1>4 DEF FileLedgersAgree
  <1>5. ASSUME Emptied PROVE FileLedgersAgree'
    <2>1. \A s \in FileSources : Records(order', s) = {} /\ Len(undo'[s]) = 0
      BY <1>5 DEF Emptied, Records
    <2>. QED BY <2>1, FS_EmptySet DEF FileLedgersAgree, Records
  <1>6. FileLedgersAgree'
    BY <1>1, <1>2, <1>4, <1>5, AgreePush, AgreePop DEF LedgerStep
  <1>. QED BY <1>1, <1>3, <1>6 DEF LedgerInv

THEOREM LedgerInvariant == "purge" \notin Faults /\ Spec => []LedgerInv
  <1>. SUFFICES ASSUME "purge" \notin Faults PROVE Spec => []LedgerInv
    OBVIOUS
  <1>. QED BY LedgerInit, LedgerNext, PTL DEF Spec

(* Unless a consumed snapshot cannot be removed, every record of the undo  *)
(* order finds its action on its editor's stack, whatever else fails.      *)
THEOREM LedgersAgree == "purge" \notin Faults /\ Spec => []FileLedgersAgree
  <1>1. LedgerInv => FileLedgersAgree
    BY DEF LedgerInv
  <1>. QED BY <1>1, LedgerInvariant, PTL

-----------------------------------------------------------------------------
(* The files against the edits *)

(* The failures after which a rollback itself or half of a stadium pair is *)
(* left undone.                                                            *)
FilesFollow == {"preview", "rollback"} \cap Faults = {}

(* A step sets the edit and the file of an asset to the same payload, or   *)
(* leaves both alone; only a failing removal leaves a file without edit.   *)
Together(a) ==
    \/ files'[a] = edits'[a]
    \/ edits'[a] = edits[a] /\ files'[a] = files[a]
    \/ "unlink" \in Faults /\ edits'[a] = None

LEMMA EditTogether ==
    ASSUME FilesFollow, TypeOK, NEW a \in Assets, NEW v \in Payload,
           NEW f \in Outcomes, NEW b \in Assets,
           \/ SnapshotFails(a, f) \/ Replace(a, v, f) \/ ReplaceStadium(a, v, f)
           \/ ReplaceAudio(a, v, f) \/ Revert(a, f)
    PROVE  Together(b)
  <1>0. f # "preview" /\ (f = "unlink" => "unlink" \in Faults)
    BY DEF FilesFollow, Outcomes
  <1>1. \A u : [edits EXCEPT ![a] = u][b] = (IF b = a THEN u ELSE edits[b])
               /\ [files EXCEPT ![a] = u][b] = (IF b = a THEN u ELSE files[b])
    BY DEF TypeOK, EditMaps
  <1>2. CASE SnapshotFails(a, f)
    BY <1>2 DEF SnapshotFails, Together
  <1>3. CASE Replace(a, v, f)
    <2>1. \/ edits' = [edits EXCEPT ![a] = v] /\ files' = [files EXCEPT ![a] = v]
          \/ /\ edits[a] = v
             /\ edits' = [edits EXCEPT ![a] = v] /\ files' = files
          \/ UNCHANGED <<edits, files>>
          \/ f = "unlink" /\ edits' = [edits EXCEPT ![a] = None] /\ files' = files
      BY <1>3 DEF Replace, Stage, Abandon
    <2>. QED BY <1>0, <1>1, <2>1 DEF Together
  <1>4. CASE ReplaceStadium(a, v, f)
    <2>1. \/ edits' = [edits EXCEPT ![a] = v] /\ files' = [files EXCEPT ![a] = v]
          \/ UNCHANGED <<edits, files>>
      BY <1>0, <1>4 DEF ReplaceStadium, Stage, Abandon
    <2>. QED BY <1>1, <2>1 DEF Together
  <1>5. CASE ReplaceAudio(a, v, f)
    <2>1. \/ edits' = [edits EXCEPT ![a] = v] /\ files' = [files EXCEPT ![a] = v]
          \/ UNCHANGED <<edits, files>>
      BY <1>0, <1>5 DEF ReplaceAudio, Stage, Abandon
    <2>. QED BY <1>1, <2>1 DEF Together
  <1>6. CASE Revert(a, f)
    <2>1. \/ edits' = [edits EXCEPT ![a] = None] /\ files' = [files EXCEPT ![a] = None]
          \/ UNCHANGED <<edits, files>>
      BY <1>0, <1>6 DEF Revert, Stage, Abandon
    <2>. QED BY <1>1, <2>1 DEF Together
  <1>. QED BY <1>2, <1>3, <1>4, <1>5, <1>6

LEMMA BatchTogether ==
    ASSUME FilesFollow, NEW s, NEW rows, NEW f \in Outcomes, NEW b \in Assets,
           \/ Batch(s, rows, f) \/ BatchRollsBack(s, rows, f)
           \/ BatchRollbackFails(s, rows, f)
    PROVE  Together(b)
  <1>0. f # "rollback"
    BY DEF FilesFollow, Outcomes
  <1>. QED BY <1>0 DEF Batch, BatchRollsBack, BatchRollbackFails, Together

LEMMA RevertAllTogether ==
    ASSUME FilesFollow, NEW f \in Outcomes, NEW b \in Assets,
           RevertAll(f) \/ RevertAllFails(f)
    PROVE  Together(b)
  <1>1. CASE RevertAll(f)
    <2>. PICK left \in SUBSET Edited(Assets) :
           /\ (left = {}) = (f = "none")
           /\ files' = [a \in Assets |-> IF a \in Edited(Assets) \ left
                                         THEN None ELSE files[a]]
      BY <1>1 DEF RevertAll
    <2>1. edits'[b] = None /\ f \in {"none", "unlink"}
      BY <1>1 DEF RevertAll, NoEdits
    <2>2. CASE f = "unlink"
      BY <2>1, <2>2 DEF Together, Outcomes
    <2>3. CASE left = {}
      BY <2>1, <2>3 DEF Together, Edited
    <2>. QED BY <2>1, <2>2, <2>3
  <1>2. CASE RevertAllFails(f)
    BY <1>2 DEF RevertAllFails, Together
  <1>. QED BY <1>1, <1>2

LEMMA UndoTogether ==
    ASSUME FilesFollow, NEW f \in Outcomes, NEW b \in Assets,
           \/ UndoAudio(f) \/ UndoAudioFails(f) \/ UndoAudioRollbackFails(f)
           \/ UndoNote(f) \/ UndoText(f)
           \/ UndoRevertAll(f) \/ UndoRevertAllFails(f)
    PROVE  Together(b)
  <1>0. f # "rollback"
    BY DEF FilesFollow, Outcomes
  <1>1. CASE UndoAudio(f)
    BY <1>1 DEF UndoAudio, AudioUndone, Together
  <1>2. CASE UndoRevertAll(f)
    BY <1>2 DEF UndoRevertAll, RevertAllUndone, Together
  <1>. QED BY <1>0, <1>1, <1>2
       DEF UndoAudioFails, UndoAudioRollbackFails, UndoNote, UndoText,
           UndoRevertAllFails, vars, Together

LEMMA UndoFileTogether ==
    ASSUME FilesFollow, TypeOK, NEW s \in FileSources, NEW f \in Outcomes, NEW b \in Assets,
           UndoFile(s, f) \/ UndoFileFails(s, f)
    PROVE  Together(b)
  <1>. DEFINE action == LastAction(s)
  <1>0. f # "preview" /\ (f = "unlink" => "unlink" \in Faults)
    BY DEF FilesFollow, Outcomes
  <1>1. \A S, x : LET e == Reverted(action, S, edits)
                      g == Reverted(action, S, files)
                  IN  /\ e[b] = g[b] \/ (e[b] = edits[b] /\ g[b] = files[b])
                      /\ x \in Assets =>
                           \A u : /\ [e EXCEPT ![x] = u][b] = IF b = x THEN u ELSE e[b]
                                  /\ [g EXCEPT ![x] = u][b] = IF b = x THEN u ELSE g[b]
    BY DEF Reverted
  <1>2. CASE UndoFile(s, f)
    BY <1>1, <1>2 DEF UndoFile, Together
  <1>3. CASE UndoFileFails(s, f)
    <2>. PICK done \in SUBSET Items(action), hit \in Items(action) :
           /\ hit \notin done
           /\ LET T == IF f = "purge" THEN done \cup {hit} ELSE done IN
              /\ edits' = [Reverted(action, T, edits) EXCEPT
                             ![hit] = IF f = "purge" THEN @ ELSE None]
              /\ files' = [Reverted(action, T, files) EXCEPT
                             ![hit] = IF f \in {"purge", "unlink"} \/ edits[hit] = None
                                      THEN @ ELSE None]
      BY <1>3 DEF UndoFileFails
    <2>. DEFINE T == IF f = "purge" THEN done \cup {hit} ELSE done
                e == Reverted(action, T, edits)
                g == Reverted(action, T, files)
    <2>1. hit \in Assets
      BY DEF Items
    <2>2. /\ edits'[b] = IF b = hit THEN (IF f = "purge" THEN e[hit] ELSE None) ELSE e[b]
          /\ files'[b] = IF b = hit
                         THEN (IF f \in {"purge", "unlink"} \/ edits[hit] = None
                               THEN g[hit] ELSE None)
                         ELSE g[b]
      BY <2>1 DEF Reverted
    <2>3. e[b] = g[b] \/ (e[b] = edits[b] /\ g[b] = files[b])
      BY <1>1
    <2>4. f # "purge" => g[hit] = files[hit]
      BY <2>1 DEF Reverted
    <2>. HIDE DEF e, g
    <2>5. CASE b = hit /\ f # "purge"
      BY <1>0, <2>2, <2>4, <2>5 DEF Together
    <2>6. CASE ~(b = hit /\ f # "purge")
      BY <2>2, <2>3, <2>6 DEF Together
    <2>. QED BY <2>5, <2>6
  <1>. QED BY <1>2, <1>3

LEMMA NextTogether ==
    ASSUME FilesFollow, TypeOK, [Next]_vars, NEW b \in Assets
    PROVE  Together(b)
  <1>0. "none" \in Outcomes /\ None \in Payload
    BY PayloadNone DEF Outcomes
  <1>1. CASE UNCHANGED vars
    BY <1>1 DEF vars, Together
  <1>2. CASE \E a \in Assets, v \in Payload, f \in Outcomes :
               \/ SnapshotFails(a, f) \/ Replace(a, v, f) \/ ReplaceStadium(a, v, f)
               \/ ReplaceAudio(a, v, f) \/ Revert(a, f)
    BY <1>2, EditTogether
  <1>3. CASE \E v \in Payload, f \in Outcomes :
               \/ \E t \in Texts : SetText(t, v, f)
               \/ \E c \in Cues : SetNote(c, v, f)
               \/ \E u \in Colours \cup {None} : SetColours(u)
    BY <1>3 DEF SetText, SetNote, SetColours, Together
  <1>4. CASE \E s \in {"visual", "audio"} : \E rows \in Bundles(s), f \in Outcomes :
               \/ Batch(s, rows, f) \/ BatchRollsBack(s, rows, f)
               \/ BatchRollbackFails(s, rows, f)
    BY <1>4, BatchTogether
  <1>5. CASE \E f \in Outcomes : RevertAll(f) \/ RevertAllFails(f)
    BY <1>5, RevertAllTogether
  <1>6. CASE \E f \in Outcomes :
               \/ UndoAudio(f) \/ UndoAudioFails(f) \/ UndoAudioRollbackFails(f)
               \/ UndoNote(f) \/ UndoText(f)
               \/ UndoRevertAll(f) \/ UndoRevertAllFails(f)
    BY <1>6, UndoTogether
  <1>7. CASE \E s \in FileSources \ {"audio"}, f \in Outcomes :
               UndoFile(s, f) \/ UndoFileFails(s, f)
    BY <1>7, UndoFileTogether
  <1>8. CASE \E d \in Archives : OpenProject(d)
    BY <1>8 DEF OpenProject, Together
  <1>. QED BY <1>0, <1>1, <1>2, <1>3, <1>4, <1>5, <1>6, <1>7, <1>8 DEF Next

(* While rollbacks succeed and stadium pairs go together, a live edit has  *)
(* its file, with its payload.                                             *)
THEOREM FilesBacked == FilesFollow /\ Spec => []FilesBackEdits
  <1>. SUFFICES ASSUME FilesFollow PROVE Spec => []FilesBackEdits
    OBVIOUS
  <1>1. Init => TypeOK /\ FilesBackEdits
    BY InitType DEF Init, FilesBackEdits, NoEdits
  <1>2. ASSUME TypeOK, FilesBackEdits, [Next]_vars PROVE (TypeOK /\ FilesBackEdits)'
    <2>1. \A a \in Assets : Together(a)
      BY <1>2, NextTogether
    <2>. QED BY <1>2, <2>1, NextType DEF FilesBackEdits, Together
  <1>. QED BY <1>1, <1>2, PTL DEF Spec

(* While removals succeed as well, the replacement directory holds exactly *)
(* the edits: no file without an edit either, which an undo relies on to   *)
(* find its places free.                                                   *)
FilesAreEdits == \A a \in Assets : files[a] = edits[a]

THEOREM FilesExact ==
    FilesFollow /\ "unlink" \notin Faults /\ Spec => []FilesAreEdits
  <1>. SUFFICES ASSUME FilesFollow, "unlink" \notin Faults
                PROVE  Spec => []FilesAreEdits
    OBVIOUS
  <1>1. Init => TypeOK /\ FilesAreEdits
    BY InitType DEF Init, FilesAreEdits
  <1>2. ASSUME TypeOK, FilesAreEdits, [Next]_vars PROVE (TypeOK /\ FilesAreEdits)'
    <2>1. \A a \in Assets : Together(a)
      BY <1>2, NextTogether
    <2>. QED BY <1>2, <2>1, NextType DEF FilesAreEdits, Together
  <1>. QED BY <1>1, <1>2, PTL DEF Spec

-----------------------------------------------------------------------------
(* A call's changes and its record *)

(* A push and a pop both change the length of the undo order.              *)
LEMMA OrderMoves ==
    ASSUME TypeOK
    PROVE  /\ \A e \in Entries : Append(order, e) # order
           /\ order # <<>> => AllButLast(order) # order
  <1>1. order \in Seq(Entries) /\ Len(order) \in Nat
    BY LenProperties DEF TypeOK
  <1>2. \A e \in Entries : Len(Append(order, e)) = Len(order) + 1
    BY <1>1, AppendProperties
  <1>3. order # <<>> => Len(AllButLast(order)) = Len(order) - 1
    BY <1>1, AllButLastType
  <1>. QED BY <1>1, <1>2, <1>3

Undisturbed == UNCHANGED <<edits, files, texts, notes>>

(* The failures the code rolls back or refuses before it touches anything. *)
RolledBack == {"unlink", "preview", "purge", "rollback"} \cap Faults = {}

LEMMA EditRecorded ==
    ASSUME RolledBack, TypeOK, order' = order, NEW a \in Assets, NEW v \in Payload,
           NEW f \in Outcomes,
           \/ SnapshotFails(a, f) \/ Replace(a, v, f) \/ ReplaceStadium(a, v, f)
           \/ ReplaceAudio(a, v, f) \/ Revert(a, f)
    PROVE  Undisturbed
  <1>0. f \notin {"unlink", "preview"}
    BY DEF RolledBack, Outcomes
  <1>1. ~ \E u, num : Stage(a, u, num, f)
    <2>1. Entry(SourceOf[a], {SourceOf[a]}) \in Entries
      BY SessionAssumption, EntryType
    <2>. QED BY <2>1, OrderMoves DEF Stage, Record
  <1>2. CASE SnapshotFails(a, f)
    BY <1>2 DEF SnapshotFails, Undisturbed
  <1>3. CASE Replace(a, v, f)
    BY <1>0, <1>1, <1>3 DEF Replace, Abandon, Undisturbed
  <1>4. CASE ReplaceStadium(a, v, f)
    BY <1>0, <1>1, <1>4 DEF ReplaceStadium, Abandon, Undisturbed
  <1>5. CASE ReplaceAudio(a, v, f)
    BY <1>0, <1>1, <1>5 DEF ReplaceAudio, Abandon, Undisturbed
  <1>6. CASE Revert(a, f)
    BY <1>0, <1>1, <1>6 DEF Revert, Abandon, Undisturbed
  <1>. QED BY <1>2, <1>3, <1>4, <1>5, <1>6

LEMMA TextNoteRecorded ==
    ASSUME TypeOK, order' = order, NEW v \in Payload, NEW f,
           \/ \E t \in Texts : SetText(t, v, f)
           \/ \E c \in Cues : SetNote(c, v, f)
           \/ \E u \in Colours \cup {None} : SetColours(u)
    PROVE  Undisturbed
  <1>1. ASSUME NEW t \in Texts, SetText(t, v, f) PROVE FALSE
    <2>1. Entry("text", {}) \in Entries
      BY EntryType
    <2>. QED BY <1>1, <2>1, OrderMoves DEF SetText
  <1>2. ASSUME NEW c \in Cues, SetNote(c, v, f) PROVE Undisturbed
    <2>. DEFINE e == [Entry("audio_annotation", {}) EXCEPT !.cue = c, !.note = notes[c]]
    <2>1. Entry("audio_annotation", {}) \in Entries /\ notes[c] \in Payload
      BY EntryType DEF TypeOK, NoteMaps
    <2>2. e \in Entries
      BY <2>1 DEF Entries
    <2>3. order' = Append(order, e) \/ UNCHANGED notes
      BY <1>2 DEF SetNote
    <2>. HIDE DEF e
    <2>. QED BY <1>2, <2>2, <2>3, OrderMoves DEF SetNote, Undisturbed
  <1>3. ASSUME NEW u \in Colours \cup {None}, SetColours(u) PROVE Undisturbed
    BY <1>3 DEF SetColours, Undisturbed
  <1>. QED BY <1>1, <1>2, <1>3

LEMMA BatchRecorded ==
    ASSUME RolledBack, TypeOK, order' = order,
           NEW s \in FileSources, NEW rows, NEW f \in Outcomes,
           \/ Batch(s, rows, f) \/ BatchRollsBack(s, rows, f)
           \/ BatchRollbackFails(s, rows, f)
    PROVE  Undisturbed
  <1>1. ~Batch(s, rows, f)
    <2>1. Entry(s, {s}) \in Entries
      BY EntryType
    <2>. QED BY <2>1, OrderMoves DEF Batch, Record
  <1>2. f # "rollback"
    BY DEF RolledBack, Outcomes
  <1>. QED BY <1>1, <1>2 DEF BatchRollsBack, BatchRollbackFails, Undisturbed

LEMMA RevertAllRecorded ==
    ASSUME TypeOK, order' = order, NEW f, RevertAll(f) \/ RevertAllFails(f)
    PROVE  Undisturbed
  <1>1. ~RevertAll(f)
    <2>. SUFFICES ASSUME RevertAll(f) PROVE FALSE
      OBVIOUS
    <2>1. PICK num \in Numberings(Assets) :
            TakeSnapshots(Assets, num) /\ order' = Append(order, RevertAllEntry(num))
      BY DEF RevertAll
    <2>2. RevertAllEntry(num) \in Entries
      <3>1. RevertedStacks \in SUBSET FileSources
        BY DEF RevertedStacks
      <3>2. Entry("revert_all", RevertedStacks) \in Entries
        BY <3>1, EntryType
      <3>3. Part("audio", num) \in UndoActions
        BY <2>1, PartType DEF TakeSnapshots
      <3>. QED BY <3>2, <3>3 DEF RevertAllEntry, Entries, TypeOK
    <2>. QED BY <2>1, <2>2, OrderMoves
  <1>. QED BY <1>1 DEF RevertAllFails, Undisturbed

LEMMA UndoRecorded ==
    ASSUME RolledBack, TypeOK, order' = order, NEW f \in Outcomes,
           \/ UndoAudio(f) \/ UndoAudioFails(f) \/ UndoAudioRollbackFails(f)
           \/ UndoNote(f) \/ UndoText(f)
           \/ \E s \in FileSources : UndoFile(s, f) \/ UndoFileFails(s, f)
           \/ UndoRevertAll(f) \/ UndoRevertAllFails(f)
    PROVE  Undisturbed
  <1>0. f \notin {"purge", "rollback"}
    BY DEF RolledBack, Outcomes
  <1>1. ASSUME NEW source, TopIs(source) PROVE ~Pop
    BY <1>1, OrderMoves DEF TopIs, Pop
  <1>2. CASE UndoAudio(f)
    BY <1>0, <1>1, <1>2 DEF UndoAudio
  <1>3. CASE UndoNote(f)
    BY <1>1, <1>3 DEF UndoNote, Undisturbed
  <1>4. CASE UndoText(f)
    BY <1>1, <1>4 DEF UndoText
  <1>5. CASE \E s \in FileSources : UndoFile(s, f) \/ UndoFileFails(s, f)
    BY <1>1, <1>5 DEF UndoFile, UndoFileFails
  <1>6. CASE UndoRevertAll(f)
    BY <1>1, <1>6 DEF UndoRevertAll, UndoRevertAllReady
  <1>7. CASE UndoAudioFails(f) \/ UndoAudioRollbackFails(f) \/ UndoRevertAllFails(f)
    BY <1>0, <1>7 DEF UndoAudioFails, UndoAudioRollbackFails, UndoRevertAllFails,
                      vars, Undisturbed
  <1>. QED BY <1>2, <1>3, <1>4, <1>5, <1>6, <1>7

LEMMA NextRecorded ==
    ASSUME RolledBack, TypeOK, [Next]_vars, order' = order
    PROVE  Undisturbed \/ \E d \in Archives : OpenProject(d)
  <1>0. "none" \in Outcomes /\ None \in Payload
    BY PayloadNone DEF Outcomes
  <1>1. CASE UNCHANGED vars
    BY <1>1 DEF vars, Undisturbed
  <1>2. CASE \E a \in Assets, v \in Payload, f \in Outcomes :
               \/ SnapshotFails(a, f) \/ Replace(a, v, f) \/ ReplaceStadium(a, v, f)
               \/ ReplaceAudio(a, v, f) \/ Revert(a, f)
    BY <1>2, EditRecorded
  <1>3. CASE \E v \in Payload, f \in Outcomes :
               \/ \E t \in Texts : SetText(t, v, f)
               \/ \E c \in Cues : SetNote(c, v, f)
               \/ \E u \in Colours \cup {None} : SetColours(u)
    BY <1>3, TextNoteRecorded
  <1>4. CASE \E s \in {"visual", "audio"} : \E rows \in Bundles(s), f \in Outcomes :
               \/ Batch(s, rows, f) \/ BatchRollsBack(s, rows, f)
               \/ BatchRollbackFails(s, rows, f)
    BY <1>4, BatchRecorded DEF FileSources
  <1>5. CASE \E f \in Outcomes : RevertAll(f) \/ RevertAllFails(f)
    BY <1>5, RevertAllRecorded
  <1>6. CASE \E f \in Outcomes :
               \/ UndoAudio(f) \/ UndoAudioFails(f) \/ UndoAudioRollbackFails(f)
               \/ UndoNote(f) \/ UndoText(f)
               \/ \E s \in FileSources : UndoFile(s, f) \/ UndoFileFails(s, f)
               \/ UndoRevertAll(f) \/ UndoRevertAllFails(f)
    BY <1>6, UndoRecorded
  <1>7. CASE \E d \in Archives : OpenProject(d)
    BY <1>7
  <1>. QED BY <1>0, <1>1, <1>2, <1>3, <1>4, <1>5, <1>6, <1>7 DEF Next

(* While removals and rollbacks succeed, an operation that changes the     *)
(* work also changes the undo order: nothing is edited behind its back.    *)
THEOREM NothingGoesUnrecorded == RolledBack /\ Spec => NothingUnrecorded
  <1>. SUFFICES ASSUME RolledBack PROVE Spec => NothingUnrecorded
    OBVIOUS
  <1>1. TypeOK /\ [Next]_vars =>
          [order' = order => \/ UNCHANGED <<edits, files, texts, notes>>
                             \/ \E d \in Archives : OpenProject(d)]_vars
    BY NextRecorded DEF Undisturbed
  <1>. QED BY <1>1, TypeCorrect, PTL DEF Spec, NothingUnrecorded

=============================================================================
