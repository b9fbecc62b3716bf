-------------------------- MODULE ApfSession_proofs --------------------------
EXTENDS ApfSession, SequenceTheorems, TLAPS

-----------------------------------------------------------------------------
(* Operators the session is built from *)

(* The map with some cells overwritten is a map of the same assets.        *)
LEMMA OverType ==
    ASSUME NEW m \in EditMaps, NEW S \in SUBSET Assets, NEW new \in [S -> Payload]
    PROVE  Over(m, new) \in EditMaps
  BY DEF Over, EditMaps

(* The payload of an edited asset is a value, and its file a possible one. *)
LEMMA FilesOfType ==
    ASSUME NEW S \in SUBSET Assets, NEW m \in [S -> Payload]
    PROVE  FilesOf(m) \subseteq Files
  <1>1. ASSUME NEW a \in S, m[a] # None
        PROVE  FileOf(a, m[a]) \in Files
    <2>1. m[a] \in Values
      BY <1>1 DEF Payload
    <2>2. Suffix(a) \in {"png", "json", "packets"}
      BY DEF Suffix
    <2>. QED BY <2>1, <2>2 DEF FileOf, Files
  <1>. QED BY <1>1 DEF FilesOf

LEMMA FileOfType ==
    ASSUME NEW a \in Assets, NEW v \in Values
    PROVE  FileOf(a, v) \in Files
  BY DEF FileOf, Files, Suffix

(* The supplied files of a pack as a partial map of sounds.                *)
LEMMA SuppliedType ==
    ASSUME pack \in Packs
    PROVE  /\ Supplied \in SUBSET Assets
           /\ [a \in Supplied |-> pack.supplied[a]] \in [Supplied -> Payload]
           /\ Sounds \in SUBSET Assets
           /\ pack.supplied \in [Sounds -> Payload]
  BY DEF Packs, SoundMaps, Supplied, Sounds, Of

(* Taking the last checkpoint off.                                         *)
LEMMA PopFacts ==
    ASSUME NEW S, NEW q \in Seq(S), q # <<>>
    PROVE  LET n == Len(q) - 1
           IN  /\ n \in Nat
               /\ n + 1 = Len(q)
               /\ q[Len(q)] \in S
               /\ SubSeq(q, 1, n) \in Seq(S)
               /\ Len(SubSeq(q, 1, n)) = n
               /\ \A i \in 1..n : SubSeq(q, 1, n)[i] = q[i]
  <1>. DEFINE n == Len(q) - 1
  <1>1. Len(q) \in Nat \ {0} /\ \A i \in 1..Len(q) : q[i] \in S
    BY LenProperties, EmptySeq
  <1>2. n \in Nat /\ n + 1 = Len(q) /\ \A i \in 1..n : q[i] \in S
    BY <1>1
  <1>. HIDE DEF n
  <1>3. /\ SubSeq(q, 1, n) \in Seq(S)
        /\ Len(SubSeq(q, 1, n)) = IF 1 <= n THEN n - 1 + 1 ELSE 0
        /\ \A i \in 1..(n - 1 + 1) : SubSeq(q, 1, n)[i] = q[1 + i - 1]
    BY <1>2, SubSeqProperties
  <1>4. /\ SubSeq(q, 1, n) \in Seq(S)
        /\ Len(SubSeq(q, 1, n)) = n
        /\ \A i \in 1..n : SubSeq(q, 1, n)[i] = q[i]
    BY <1>2, <1>3
  <1>. QED BY <1>1, <1>2, <1>4 DEF n

-----------------------------------------------------------------------------
(* What a step does to the project: it records the project and edits it,   *)
(* takes back the last edit, opens something or leaves it alone.           *)

Recorded ==
    /\ RecordUndo
    /\ mods' \in EditMaps
    /\ notes' \in NoteMaps

Reopened ==
    \E o \in Opened : mods' = o.doc.mods /\ notes' = o.doc.notes /\ undo' = o.past

LEMMA ChangeModsRecords ==
    ASSUME TypeOK, NEW new \in EditMaps, ChangeMods(new)
    PROVE  Recorded
  BY DEF ChangeMods, Recorded, TypeOK

LEMMA ApplyBatchRecords ==
    ASSUME TypeOK, NEW S \in SUBSET Assets, NEW new \in [S -> Payload],
           ApplyBatch(new)
    PROVE  Recorded \/ UNCHANGED session
  BY OverType, ChangeModsRecords DEF ApplyBatch, TypeOK

LEMMA SheetOperationsType ==
    ASSUME TypeOK
    PROVE  \E S \in SUBSET Assets : SheetOperations(RatingsOf(mods)) \in [S -> Payload]
  BY DEF SheetOperations, RatingsOf, TypeOK, Of

LEMMA SessionStep ==
    ASSUME TypeOK, Next
    PROVE  Recorded \/ Undo \/ Reopened \/ UNCHANGED session
  <1>1. ASSUME NEW a \in Assets, NEW v \in Values, Replace(a, v)
        PROVE  Recorded
    <2>1. [mods EXCEPT ![a] = v] \in EditMaps
      BY DEF TypeOK, EditMaps, Payload
    <2>. QED BY <1>1, <2>1, ChangeModsRecords DEF Replace
  <1>2. ASSUME NEW a \in Assets, Revert(a)
        PROVE  Recorded
    <2>1. [mods EXCEPT ![a] = None] \in EditMaps
      BY DEF TypeOK, EditMaps, Payload
    <2>. QED BY <1>2, <2>1, ChangeModsRecords DEF Revert
  <1>3. ASSUME ImportTextSheet
        PROVE  Recorded \/ UNCHANGED session
    BY <1>3, ApplyBatchRecords DEF ImportTextSheet, Of
  <1>4. ASSUME NEW allow \in BOOLEAN, ApplySheet(allow)
        PROVE  Recorded \/ UNCHANGED session
    BY <1>4, ApplyBatchRecords, SheetOperationsType DEF ApplySheet
  <1>5. ASSUME ApplyPack
        PROVE  Recorded
    BY <1>5, OverType, SuppliedType, ChangeModsRecords DEF ApplyPack, WithPack, TypeOK
  <1>6. ASSUME NEW c \in Cues, NEW v \in Values, SetNote(c, v)
        PROVE  Recorded
    BY <1>6 DEF SetNote, Recorded, TypeOK, NoteMaps, Payload
  <1>7. ASSUME NEW c \in Cues, ClearNote(c)
        PROVE  Recorded
    BY <1>7 DEF ClearNote, Recorded, TypeOK, NoteMaps, Payload
  <1>8. ASSUME RevertAll
        PROVE  Recorded
    BY <1>8 DEF RevertAll, Recorded, NoEdits, NoNotes, EditMaps, NoteMaps, Payload
  <1>9. ASSUME NEW archive \in Archives, LoadProject(archive)
        PROVE  Reopened
    <2>. DEFINE o == [doc |-> archive, past |-> <<Blank>>]
    <2>1. o \in Opened
      BY DEF Opened
    <2>2. mods' = o.doc.mods /\ notes' = o.doc.notes /\ undo' = o.past
      BY <1>9 DEF LoadProject
    <2>. QED BY <2>1, <2>2 DEF Reopened
  <1>10. ASSUME LoadSource
         PROVE  Reopened
    <2>. DEFINE o == [doc |-> Blank, past |-> <<>>]
    <2>1. o \in Opened
      BY DEF Opened
    <2>2. mods' = o.doc.mods /\ notes' = o.doc.notes /\ undo' = o.past
      BY <1>10 DEF LoadSource, Blank
    <2>. QED BY <2>1, <2>2 DEF Reopened
  <1>. QED
    BY <1>1, <1>2, <1>3, <1>4, <1>5, <1>6, <1>7, <1>8, <1>9, <1>10
    DEF Next, PcmCancelled, BatchFails, WriteSheet, PreviewSheet, ExportTemplate,
        FillTemplate, PreviewPack, PackDropped, Build

-----------------------------------------------------------------------------
(* Type correctness *)

LEMMA BlankType == Blank \in Documents
  BY DEF Blank, Documents, NoEdits, NoNotes, EditMaps, NoteMaps, Payload

LEMMA DocType ==
    ASSUME TypeOK
    PROVE  Doc \in Documents
  BY DEF Doc, TypeOK, Documents

(* The project and the undo list stay well typed.                          *)
LEMMA SessionTypes ==
    ASSUME TypeOK, Recorded \/ Undo \/ Reopened \/ UNCHANGED session
    PROVE  /\ mods' \in EditMaps /\ notes' \in NoteMaps
           /\ undo' \in Seq(Documents) /\ Len(undo') <= MaxUndo
  <1>. USE ApfAssumption DEF TypeOK
  <1>1. CASE Recorded
    <2>1. undo' \in Seq(Documents) /\ Len(undo') = Len(undo) + 1
      BY <1>1, DocType, AppendProperties DEF Recorded, RecordUndo
    <2>2. Len(undo) \in Nat
      BY LenProperties
    <2>. QED BY <1>1, <2>1, <2>2 DEF Recorded, RecordUndo
  <1>2. CASE Undo
    <2>1. /\ undo[Len(undo)] \in Documents
          /\ undo' \in Seq(Documents)
          /\ Len(undo') = Len(undo) - 1
      BY <1>2, PopFacts DEF Undo
    <2>2. Len(undo) \in Nat
      BY LenProperties
    <2>. QED BY <1>2, <2>1, <2>2 DEF Undo, Documents
  <1>3. CASE Reopened
    <2>1. PICK o \in Opened : mods' = o.doc.mods /\ notes' = o.doc.notes /\ undo' = o.past
      BY <1>3 DEF Reopened
    <2>2. o.doc \in Documents
      BY <2>1, BlankType DEF Opened
    <2>3. o.past \in Seq(Documents) /\ Len(o.past) <= 1
      <3>1. <<Blank>> \in Seq(Documents) /\ Len(<<Blank>>) <= 1
        BY BlankType
      <3>2. <<>> \in Seq(Documents) /\ Len(<<>>) <= 1
        BY EmptySeq
      <3>3. o.past = <<Blank>> \/ o.past = <<>>
        BY <2>1 DEF Opened
      <3>. QED BY ONLY <3>1, <3>2, <3>3, Zenon
    <2>4. Len(o.past) \in Nat
      BY <2>3, LenProperties
    <2>. QED BY <2>1, <2>2, <2>3, <2>4 DEF Documents
  <1>4. CASE UNCHANGED session
    BY <1>4 DEF session
  <1>. QED BY <1>1, <1>2, <1>3, <1>4

(* The files on disk and what the previews remember stay well typed.       *)
LEMMA ImportTypes ==
    ASSUME TypeOK, Next
    PROVE  /\ pack' \in Packs /\ packReceipt' \in PackReceipts \cup {None}
           /\ sheet' \in [Of("rating") -> Payload]
           /\ sheetReceipt' \in SheetReceipts \cup {None}
  <1>. USE DEF TypeOK
  <1>1. CASE WriteSheet
    BY <1>1 DEF WriteSheet
  <1>2. CASE PreviewSheet
    BY <1>2 DEF PreviewSheet, SheetReceipts, RatingsOf, Of, EditMaps
  <1>3. SoundsOf(mods) \in SoundMaps
    BY DEF SoundsOf, SoundMaps, Sounds, Of, EditMaps
  <1>4. CASE ExportTemplate
    BY <1>3, <1>4 DEF ExportTemplate, NoPack, Packs, SoundMaps, Payload
  <1>5. CASE FillTemplate
    BY <1>5 DEF FillTemplate, Packs
  <1>6. CASE PreviewPack
    <2>1. SoundsOf(WithPack) \in SoundMaps
      <3>1. WithPack \in EditMaps
        BY OverType, SuppliedType DEF WithPack
      <3>. QED BY <3>1 DEF SoundsOf, SoundMaps, Sounds, Of, EditMaps
    <2>. QED BY <1>3, <1>6, <2>1 DEF PreviewPack, PackReceipts
  <1>7. Expired(packReceipt) \in PackReceipts \cup {None}
    BY DEF Expired, PackReceipts
  <1>8. ASSUME NEW archive \in Archives, LoadProject(archive)
        PROVE  UNCHANGED <<pack, sheet, sheetReceipt>> /\ packReceipt' = Expired(packReceipt)
    BY <1>8 DEF LoadProject
  <1>9. CASE LoadSource
    BY <1>7, <1>9 DEF LoadSource
  <1>. QED
    BY <1>1, <1>2, <1>4, <1>5, <1>6, <1>7, <1>8, <1>9
    DEF Next, Replace, PcmCancelled, BatchFails, ImportTextSheet, SetNote, ClearNote,
        Revert, RevertAll, Undo, ApplySheet, PackDropped, ApplyPack, Build, plans

LEMMA StoreTypes ==
    ASSUME TypeOK, Next
    PROVE  store' \subseteq Files
  <1>. USE DEF TypeOK
  <1>1. ASSUME NEW a \in Assets, NEW v \in Values
        PROVE  FileOf(a, v) \in Files
    BY FileOfType
  <1>2. ASSUME NEW S \in SUBSET Assets, NEW new \in [S -> Payload], ApplyBatch(new)
        PROVE  store' \subseteq Files
    BY <1>2, FilesOfType DEF ApplyBatch
  <1>3. ASSUME ImportTextSheet
        PROVE  store' \subseteq Files
    BY <1>2, <1>3 DEF ImportTextSheet, Of
  <1>4. ASSUME NEW allow \in BOOLEAN, ApplySheet(allow)
        PROVE  store' \subseteq Files
    BY <1>2, <1>4, SheetOperationsType DEF ApplySheet
  <1>5. PackFiles \subseteq Files
    BY SuppliedType, FilesOfType DEF PackFiles
  <1>6. ASSUME NEW done \in SUBSET Supplied
        PROVE  {FileOf(a, pack.supplied[a]) : a \in done} \subseteq Files
    BY <1>5 DEF PackFiles, FilesOf, Supplied, Packs, SoundMaps
  <1>7. ASSUME NEW archive \in Archives, LoadProject(archive)
        PROVE  store' \subseteq Files
    <2>1. archive.mods \in [Assets -> Payload]
      BY ApfAssumption DEF Documents, EditMaps
    <2>. QED BY <1>7, <2>1, FilesOfType DEF LoadProject
  <1>8. ASSUME PackDropped
        PROVE  store' \subseteq Files
    BY <1>6, <1>8 DEF PackDropped, StoredAndDiscarded
  <1>9. ASSUME NEW a \in Sounds, NEW v \in Values, PcmCancelled(a, v)
        PROVE  store' \subseteq Files
    BY <1>1, <1>9 DEF PcmCancelled, StoredAndDiscardedNew, Sounds, Of
  <1>10. ASSUME NEW a \in Of("text") \cup Of("rating"), NEW v \in Values,
                BatchFails(a, v)
         PROVE  store' \subseteq Files
    BY <1>1, <1>10 DEF BatchFails, Of
  <1>11. ASSUME LoadSource
         PROVE  store' \subseteq Files
    BY <1>11 DEF LoadSource
  <1>12. ASSUME PreviewPack \/ ApplyPack
         PROVE  store' \subseteq Files
    BY <1>5, <1>12 DEF PreviewPack, ApplyPack, StoredAndDiscarded
  <1>13. ASSUME NEW a \in Assets, NEW v \in Values, Replace(a, v)
         PROVE  store' \subseteq Files
    BY <1>1, <1>13 DEF Replace
  <1>. QED
    BY <1>3, <1>4, <1>7, <1>8, <1>9, <1>10, <1>11, <1>12, <1>13
    DEF Next, WriteSheet, PreviewSheet, ExportTemplate, FillTemplate, SetNote,
        ClearNote, Revert, RevertAll, Undo, Build

(* A change of the edits makes the last build stale, and only Build makes  *)
(* another one, of the edits as they are.                                  *)
LEMMA BuiltStep ==
    ASSUME Next
    PROVE  \/ built' = NoBuild
           \/ built' = built /\ mods' = mods
           \/ built' = mods /\ mods' = mods
  BY DEF Next, Replace, PcmCancelled, BatchFails, ImportTextSheet, ApplyBatch, SetNote,
         ClearNote, Revert, RevertAll, Undo, WriteSheet, PreviewSheet, ApplySheet,
         ExportTemplate, FillTemplate, PreviewPack, PackDropped, ApplyPack, LoadProject,
         LoadSource, Build, ChangeMods, session

LEMMA InitTyped == Init => TypeOK
  <1>. SUFFICES ASSUME Init
                PROVE  TypeOK
    OBVIOUS
  <1>1. <<>> \in Seq(Documents) /\ Len(<<>>) = 0
    BY EmptySeq
  <1>2. NoEdits \in EditMaps /\ NoNotes \in NoteMaps /\ NoPack \in Packs
    BY DEF NoEdits, EditMaps, NoNotes, NoteMaps, NoPack, Packs, SoundMaps, Payload
  <1>. QED
    BY <1>1, <1>2, ApfAssumption DEF Init, TypeOK, Payload, NoBuild

LEMMA NextTyped == TypeOK /\ [Next]_vars => TypeOK'
  <1>1. ASSUME TypeOK, Next
        PROVE  TypeOK'
    <2>1. built' \in EditMaps \cup {NoBuild}
      BY <1>1, BuiltStep DEF TypeOK
    <2>. QED
      BY <1>1, <2>1, SessionStep, SessionTypes, ImportTypes, StoreTypes DEF TypeOK
  <1>2. ASSUME TypeOK, UNCHANGED vars
        PROVE  TypeOK'
    BY <1>2 DEF TypeOK, vars, session, plans
  <1>. QED BY <1>1, <1>2

(* The session's maps, checkpoints, payload files and previews are always  *)
(* of their kinds, whatever the assets, sounds and projects.               *)
THEOREM SessionTyped == Spec => []TypeOK
  BY InitTyped, NextTyped, PTL DEF Spec

-----------------------------------------------------------------------------
(* The last build *)

(* Whatever is opened, edited, undone or imported, the build that Launch   *)
(* would start has exactly the edits of the project (last_build).          *)
THEOREM LaunchIsCurrent == Spec => []LaunchesCurrent
  <1>1. Init => LaunchesCurrent
    BY DEF Init, LaunchesCurrent
  <1>2. LaunchesCurrent /\ [Next]_vars => LaunchesCurrent'
    <2>1. ASSUME LaunchesCurrent, Next
          PROVE  LaunchesCurrent'
      BY <2>1, BuiltStep DEF LaunchesCurrent
    <2>2. ASSUME LaunchesCurrent, UNCHANGED vars
          PROVE  LaunchesCurrent'
      BY <2>2 DEF LaunchesCurrent, vars, session
    <2>. QED BY <2>1, <2>2
  <1>. QED BY <1>1, <1>2, PTL DEF Spec

-----------------------------------------------------------------------------
(* Payload files *)

(* What is kept, said of the project and of each checkpoint.               *)
Kept(files) ==
    /\ FilesOf(mods) \subseteq files
    /\ \A i \in 1..Len(undo) : FilesOf(undo[i].mods) \subseteq files

LEMMA ProtectedKept ==
    /\ PayloadsKept <=> Kept(store)
    /\ Kept(Protected)
  BY DEF PayloadsKept, Kept, Protected

(* A map with new payloads over old ones needs the files of both, at most. *)
LEMMA FilesOver ==
    ASSUME NEW m \in EditMaps, NEW S \in SUBSET Assets, NEW new \in [S -> Payload],
           NEW files, FilesOf(m) \subseteq files, FilesOf(new) \subseteq files
    PROVE  FilesOf(Over(m, new)) \subseteq files
  <1>1. DOMAIN m = Assets /\ DOMAIN new = S /\ DOMAIN Over(m, new) = Assets
    BY DEF EditMaps, Over
  <1>2. ASSUME NEW a \in Assets, Over(m, new)[a] # None
        PROVE  FileOf(a, Over(m, new)[a]) \in files
    <2>1. CASE a \in S
      BY <1>1, <1>2, <2>1 DEF Over, FilesOf
    <2>2. CASE a \notin S
      BY <1>1, <1>2, <2>2 DEF Over, FilesOf
    <2>. QED BY <2>1, <2>2
  <1>. QED BY <1>1, <1>2 DEF FilesOf

(* One edit as a map over the others.                                      *)
LEMMA FilesExcept ==
    ASSUME NEW m \in EditMaps, NEW a \in Assets, NEW x \in Payload,
           NEW files, FilesOf(m) \subseteq files, x # None => FileOf(a, x) \in files
    PROVE  FilesOf([m EXCEPT ![a] = x]) \subseteq files
  <1>1. DOMAIN m = Assets /\ DOMAIN [m EXCEPT ![a] = x] = Assets
    BY DEF EditMaps
  <1>2. ASSUME NEW b \in Assets, [m EXCEPT ![a] = x][b] # None
        PROVE  FileOf(b, [m EXCEPT ![a] = x][b]) \in files
    BY <1>1, <1>2 DEF FilesOf
  <1>. QED BY <1>1, <1>2 DEF FilesOf

(* A recorded edit needs the files of what it makes and of what was there. *)
LEMMA RecordKeeps ==
    ASSUME TypeOK, RecordUndo, Kept(store), store \subseteq store',
           FilesOf(mods') \subseteq store'
    PROVE  Kept(store)'
  <1>1. /\ Len(undo) \in Nat /\ Len(undo') = Len(undo) + 1
        /\ \A i \in 1..Len(undo) : undo'[i] = undo[i]
        /\ undo'[Len(undo) + 1] = Doc
    <2>1. undo \in Seq(Documents) /\ Doc \in Documents
      BY DocType DEF TypeOK
    <2>2. /\ Len(Append(undo, Doc)) = Len(undo) + 1
          /\ \A i \in 1..Len(undo) : Append(undo, Doc)[i] = undo[i]
          /\ Append(undo, Doc)[Len(undo) + 1] = Doc
      BY <2>1, AppendProperties
    <2>. QED BY <2>1, <2>2, LenProperties DEF RecordUndo
  <1>2. ASSUME NEW i \in 1..Len(undo')
        PROVE  FilesOf(undo'[i].mods) \subseteq store'
    <2>1. CASE i \in 1..Len(undo)
      BY <1>1, <2>1 DEF Kept
    <2>2. CASE i = Len(undo) + 1
      BY <1>1, <2>2 DEF Kept, Doc
    <2>. QED BY <1>1, <2>1, <2>2
  <1>. QED BY <1>2 DEF Kept

(* Adding files, or discarding files nobody needs, keeps what is needed.   *)
LEMMA SameKeeps ==
    ASSUME Kept(store), UNCHANGED <<mods, undo>>, Protected \cap store \subseteq store'
    PROVE  Kept(store)'
  <1>1. Kept(Protected) /\ Protected \subseteq store
    BY ProtectedKept DEF PayloadsKept
  <1>. QED BY <1>1 DEF Kept

LEMMA BatchKeeps ==
    ASSUME TypeOK, Kept(store), NEW S \in SUBSET Assets, NEW new \in [S -> Payload],
           ApplyBatch(new)
    PROVE  Kept(store)'
  <1>1. store' = store \cup FilesOf(new)
    BY DEF ApplyBatch
  <1>2. CASE Over(mods, new) = mods
    BY <1>1, <1>2, SameKeeps DEF ApplyBatch, session
  <1>3. CASE Over(mods, new) # mods
    <2>1. RecordUndo /\ mods' = Over(mods, new)
      BY <1>3 DEF ApplyBatch, ChangeMods
    <2>2. mods \in EditMaps /\ FilesOf(mods) \subseteq store
      BY DEF TypeOK, Kept
    <2>3. FilesOf(mods') \subseteq store'
      BY <1>1, <2>1, <2>2, FilesOver
    <2>. QED BY <1>1, <2>1, <2>3, RecordKeeps
  <1>. QED BY <1>2, <1>3

LEMMA PackKeeps ==
    ASSUME TypeOK, Kept(store), ApplyPack
    PROVE  Kept(store)'
  <1>. DEFINE new == [a \in Supplied |-> pack.supplied[a]]
  <1>1. new \in [Supplied -> Payload] /\ Supplied \in SUBSET Assets
    BY SuppliedType DEF TypeOK
  <1>2. FilesOf(new) \subseteq PackFiles
    BY SuppliedType DEF FilesOf, PackFiles, Supplied, TypeOK
  <1>3. RecordUndo /\ mods' = Over(mods, new) /\ store' = store \cup PackFiles
    BY DEF ApplyPack, ChangeMods, WithPack
  <1>4. mods \in EditMaps /\ FilesOf(mods) \subseteq store
    BY DEF TypeOK, Kept
  <1>. HIDE DEF new
  <1>5. FilesOf(mods') \subseteq store'
    BY <1>1, <1>2, <1>3, <1>4, FilesOver
  <1>. QED BY <1>3, <1>5, RecordKeeps

LEMMA NextKeeps ==
    ASSUME TypeOK, Kept(store), Next
    PROVE  Kept(store)'
  <1>1. mods \in EditMaps /\ FilesOf(mods) \subseteq store
    BY DEF TypeOK, Kept
  <1>2. ASSUME NEW a \in Assets, NEW v \in Values, Replace(a, v)
        PROVE  Kept(store)'
    <2>1. RecordUndo /\ mods' = [mods EXCEPT ![a] = v] /\ store' = store \cup {FileOf(a, v)}
      BY <1>2 DEF Replace, ChangeMods
    <2>2. v \in Payload
      BY DEF Payload
    <2>3. FilesOf(mods) \subseteq store' /\ FileOf(a, v) \in store'
      BY <1>1, <2>1
    <2>4. FilesOf([mods EXCEPT ![a] = v]) \subseteq store'
      BY <1>1, <2>2, <2>3, FilesExcept
    <2>. QED BY <2>1, <2>4, RecordKeeps
  <1>3. ASSUME NEW a \in Assets, Revert(a)
        PROVE  Kept(store)'
    <2>1. RecordUndo /\ mods' = [mods EXCEPT ![a] = None] /\ store' = store
      BY <1>3 DEF Revert, ChangeMods
    <2>2. None \in Payload
      BY DEF Payload
    <2>3. FilesOf([mods EXCEPT ![a] = None]) \subseteq store
      BY <1>1, <2>2, FilesExcept
    <2>. QED BY <2>1, <2>3, RecordKeeps
  <1>4. ASSUME RevertAll
        PROVE  Kept(store)'
    <2>1. RecordUndo /\ mods' = NoEdits /\ store' = store
      BY <1>4 DEF RevertAll
    <2>2. FilesOf(NoEdits) = {}
      BY DEF FilesOf, NoEdits
    <2>. QED BY <2>1, <2>2, RecordKeeps
  <1>5. ASSUME NEW c \in Cues, ClearNote(c) \/ \E v \in Values : SetNote(c, v)
        PROVE  Kept(store)'
    <2>1. RecordUndo /\ mods' = mods /\ store' = store
      BY <1>5 DEF ClearNote, SetNote
    <2>. QED BY <1>1, <2>1, RecordKeeps
  <1>6. ASSUME Undo
        PROVE  Kept(store)'
    <2>1. /\ Len(undo) - 1 \in Nat /\ Len(undo) \in 1..Len(undo)
          /\ undo' = SubSeq(undo, 1, Len(undo) - 1)
          /\ Len(undo') = Len(undo) - 1
          /\ \A i \in 1..(Len(undo) - 1) : undo'[i] = undo[i]
      BY <1>6, PopFacts DEF Undo, TypeOK
    <2>2. mods' = undo[Len(undo)].mods /\ store' = store
      BY <1>6 DEF Undo
    <2>3. FilesOf(mods') \subseteq store'
      BY <2>1, <2>2 DEF Kept
    <2>4. \A i \in 1..Len(undo') : FilesOf(undo'[i].mods) \subseteq store'
      <3>. TAKE i \in 1..Len(undo')
      <3>1. i \in 1..(Len(undo) - 1) /\ i \in 1..Len(undo)
        BY <2>1
      <3>2. undo'[i] = undo[i]
        BY <2>1, <3>1
      <3>. QED BY <2>2, <3>1, <3>2 DEF Kept
    <2>. QED BY <2>3, <2>4 DEF Kept
  <1>7. ASSUME NEW archive \in Archives, LoadProject(archive)
        PROVE  Kept(store)'
    <2>1. /\ mods' = archive.mods /\ store' = FilesOf(archive.mods)
          /\ undo' = <<Blank>>
      BY <1>7 DEF LoadProject
    <2>2. FilesOf(Blank.mods) = {}
      BY DEF FilesOf, Blank, NoEdits
    <2>3. Len(undo') = 1 /\ undo'[1] = Blank
      BY <2>1
    <2>. QED BY <2>1, <2>2, <2>3 DEF Kept
  <1>8. ASSUME LoadSource
        PROVE  Kept(store)'
    <2>1. mods' = NoEdits /\ Len(undo') = 0 /\ FilesOf(NoEdits) = {}
      BY <1>8 DEF LoadSource, FilesOf, NoEdits
    <2>. QED BY <2>1 DEF Kept
  <1>9. ASSUME ImportTextSheet
        PROVE  Kept(store)'
    BY <1>9, BatchKeeps DEF ImportTextSheet, Of
  <1>10. ASSUME NEW allow \in BOOLEAN, ApplySheet(allow)
         PROVE  Kept(store)'
    BY <1>10, BatchKeeps, SheetOperationsType DEF ApplySheet
  <1>11. ASSUME UNCHANGED <<mods, undo>>, Protected \cap store \subseteq store'
         PROVE  Kept(store)'
    BY <1>11, SameKeeps
  <1>12. ASSUME NEW a \in Assets, NEW v \in Values, PcmCancelled(a, v) \/ BatchFails(a, v)
         PROVE  Kept(store)'
    BY <1>11, <1>12 DEF PcmCancelled, BatchFails, StoredAndDiscardedNew, session
  <1>13. ASSUME PreviewPack \/ PackDropped
         PROVE  Kept(store)'
    BY <1>11, <1>13 DEF PreviewPack, PackDropped, StoredAndDiscarded, session
  <1>14. ASSUME WriteSheet \/ PreviewSheet \/ ExportTemplate \/ FillTemplate \/ Build
         PROVE  Kept(store)'
    BY <1>11, <1>14 DEF WriteSheet, PreviewSheet, ExportTemplate, FillTemplate, Build, session
  <1>. QED
    BY <1>2, <1>3, <1>4, <1>5, <1>6, <1>7, <1>8, <1>9, <1>10, <1>12, <1>13, <1>14, PackKeeps
    DEF Next, Sounds, Of

(* No cancelled, refused or previewed import ever takes away a payload     *)
(* file that the project or one of its undo checkpoints uses.              *)
THEOREM PayloadFilesKept == Spec => []PayloadsKept
  <1>1. Init => PayloadsKept
    <2>1. Init => FilesOf(mods) = {} /\ Len(undo) = 0
      BY DEF Init, FilesOf, NoEdits
    <2>. QED BY <2>1 DEF PayloadsKept, Protected
  <1>2. TypeOK /\ PayloadsKept /\ [Next]_vars => PayloadsKept'
    <2>1. ASSUME TypeOK, PayloadsKept, Next
          PROVE  PayloadsKept'
      <3>1. Kept(store)'
        BY <2>1, ProtectedKept, NextKeeps
      <3>. QED BY <3>1 DEF Kept, PayloadsKept, Protected
    <2>2. ASSUME PayloadsKept, UNCHANGED vars
          PROVE  PayloadsKept'
      BY <2>2 DEF PayloadsKept, Protected, vars, session
    <2>. QED BY <2>1, <2>2
  <1>. QED BY <1>1, <1>2, SessionTyped, PTL DEF Spec

-----------------------------------------------------------------------------
(* Previews and confirmations *)

(* What the pack of a preview makes of each sound it found.                *)
Announced(receipt) ==
    [a \in Sounds |-> IF receipt.pack.supplied[a] # None
                      THEN receipt.pack.supplied[a]
                      ELSE receipt.revision[a]]

(* The strengthening: what a preview announced follows from what its token *)
(* binds, the pack and the sounds of the project it was made for.          *)
ReceiptHonest == packReceipt # None => packReceipt.result = Announced(packReceipt)

LEMMA PreviewHonest ==
    ASSUME TypeOK, PreviewPack
    PROVE  ReceiptHonest'
  <1>1. SoundsOf(WithPack) =
          [a \in Sounds |-> IF pack.supplied[a] # None THEN pack.supplied[a] ELSE mods[a]]
    BY DEF SoundsOf, WithPack, Over, Supplied, Sounds, Of
  <1>2. \A a \in Sounds : SoundsOf(mods)[a] = mods[a]
    BY DEF SoundsOf
  <1>3. packReceipt' = [pack |-> pack, revision |-> SoundsOf(mods), live |-> TRUE,
                        result |-> SoundsOf(WithPack)]
    BY DEF PreviewPack
  <1>4. Announced(packReceipt') = SoundsOf(WithPack)
    BY <1>1, <1>2, <1>3 DEF Announced
  <1>. QED BY <1>3, <1>4 DEF ReceiptHonest, Announced

LEMMA ExpiredHonest ==
    ASSUME TypeOK, ReceiptHonest, packReceipt' = Expired(packReceipt)
    PROVE  ReceiptHonest'
  <1>1. CASE packReceipt = None
    BY <1>1 DEF Expired, ReceiptHonest
  <1>2. CASE packReceipt # None
    <2>1. packReceipt \in PackReceipts
      BY <1>2 DEF TypeOK
    <2>2. /\ packReceipt'.result = packReceipt.result
          /\ packReceipt'.pack = packReceipt.pack
          /\ packReceipt'.revision = packReceipt.revision
      BY <1>2, <2>1 DEF Expired, PackReceipts
    <2>. QED BY <1>2, <2>2 DEF ReceiptHonest, Announced
  <1>. QED BY <1>1, <1>2

LEMMA NextHonest ==
    ASSUME TypeOK, ReceiptHonest, Next
    PROVE  ReceiptHonest'
  <1>1. \/ PreviewPack
        \/ packReceipt' = Expired(packReceipt)
        \/ packReceipt' = packReceipt
    BY DEF Next, Replace, PcmCancelled, BatchFails, ImportTextSheet, SetNote, ClearNote,
           Revert, RevertAll, Undo, WriteSheet, PreviewSheet, ApplySheet, ExportTemplate,
           FillTemplate, PackDropped, ApplyPack, LoadProject, LoadSource, Build, plans
  <1>2. CASE packReceipt' = packReceipt
    BY <1>2 DEF ReceiptHonest, Announced
  <1>. QED BY <1>1, <1>2, PreviewHonest, ExpiredHonest

LEMMA PackAsShown ==
    ASSUME TypeOK, ReceiptHonest, ApplyPack
    PROVE  mods' = Over(mods, packReceipt.result)
  <1>1. /\ packReceipt # None /\ packReceipt.pack = pack
        /\ packReceipt.revision = SoundsOf(mods)
        /\ mods' = WithPack
    BY DEF ApplyPack, TokenMatches, ChangeMods
  <1>2. packReceipt.result =
          [a \in Sounds |-> IF pack.supplied[a] # None THEN pack.supplied[a]
                            ELSE mods[a]]
    BY <1>1 DEF ReceiptHonest, Announced, SoundsOf
  <1>3. WithPack = Over(mods, packReceipt.result)
    BY <1>2 DEF WithPack, Over, Supplied
  <1>. QED BY <1>1, <1>3

LEMMA SheetAsShown ==
    ASSUME TypeOK, NEW allow \in BOOLEAN, ApplySheet(allow)
    PROVE  mods' = Over(mods, sheetReceipt.sheet)
  <1>. DEFINE new == SheetOperations(RatingsOf(mods))
  <1>1. sheetReceipt.sheet = sheet /\ DOMAIN sheet = Of("rating")
    BY DEF ApplySheet, SheetTokenMatches, TypeOK
  <1>2. mods' = Over(mods, new)
    BY DEF ApplySheet, ApplyBatch, ChangeMods, session
  <1>3. Over(mods, new) = Over(mods, sheet)
    BY <1>1 DEF Over, SheetOperations, RatingsOf
  <1>. QED BY <1>1, <1>2, <1>3

(* A confirmed sound pack or ratings sheet makes exactly the edits that    *)
(* its preview announced, whatever happened to the project, to the pack or *)
(* to the sheet in between.                                                *)
THEOREM ConfirmedAsShown == Spec => ConfirmedIsShown
  <1>1. Init => ReceiptHonest
    BY DEF Init, ReceiptHonest
  <1>2. TypeOK /\ ReceiptHonest /\ [Next]_vars => ReceiptHonest'
    <2>1. ASSUME ReceiptHonest, UNCHANGED vars
          PROVE  ReceiptHonest'
      BY <2>1 DEF ReceiptHonest, Announced, vars, plans
    <2>. QED BY <2>1, NextHonest
  <1>3. TypeOK /\ ReceiptHonest =>
          /\ ApplyPack => mods' = Over(mods, packReceipt.result)
          /\ (\E allow \in BOOLEAN : ApplySheet(allow)) =>
               mods' = Over(mods, sheetReceipt.sheet)
    BY PackAsShown, SheetAsShown
  <1>. QED BY <1>1, <1>2, <1>3, SessionTyped, PTL DEF Spec, ConfirmedIsShown

-----------------------------------------------------------------------------
(* Refinement *)

(* The session implements the undoable project: every operation of it is   *)
(* an edit, an undo, an opening or no step at all of the one document that *)
(* the edits and the labels make together.                                 *)
THEOREM SessionUndoesExactly == Spec => UndoIsExact
  <1>1. Init => Project!Init
    BY DEF Init, Project!Init, Doc, Blank
  <1>2. TypeOK /\ [Next]_vars => [Project!Next]_(Project!vars)
    <2>. SUFFICES ASSUME TypeOK, [Next]_vars
                  PROVE  [Project!Next]_(Project!vars)
      OBVIOUS
    <2>1. CASE Recorded
      <3>1. Doc' \in Documents
        BY <2>1 DEF Recorded, Doc, Documents
      <3>. QED BY <2>1, <3>1 DEF Recorded, RecordUndo, Project!Next, Project!Edit
    <2>2. CASE Undo
      <3>1. undo[Len(undo)] \in Documents
        BY <2>2, PopFacts DEF Undo, TypeOK
      <3>2. Doc' = undo[Len(undo)]
        BY <2>2, <3>1 DEF Undo, Doc, Documents
      <3>. QED BY <2>2, <3>2 DEF Undo, Project!Next, Project!Undo
    <2>3. CASE Reopened
      <3>1. PICK o \in Opened : mods' = o.doc.mods /\ notes' = o.doc.notes /\ undo' = o.past
        BY <2>3 DEF Reopened
      <3>2. o.doc \in Documents
        BY BlankType, ApfAssumption DEF Opened
      <3>3. Doc' = o.doc
        BY <3>1, <3>2 DEF Doc, Documents
      <3>. QED BY <3>1, <3>3 DEF Project!Next, Project!Open
    <2>4. CASE UNCHANGED session
      BY <2>4 DEF session, Doc, Project!vars
    <2>5. CASE UNCHANGED vars
      BY <2>4, <2>5 DEF vars
    <2>. QED BY <2>1, <2>2, <2>3, <2>4, <2>5, SessionStep
  <1>. QED BY <1>1, <1>2, SessionTyped, PTL DEF Spec, UndoIsExact, Project!Spec

=============================================================================
