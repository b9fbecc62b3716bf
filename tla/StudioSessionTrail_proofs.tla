----------------------- MODULE StudioSessionTrail_proofs -----------------------
(***************************************************************************)
(* Undo is exact: the records, the stacks and the snapshot files together  *)
(* hold every document that can still be undone to.  The session with its  *)
(* history variable implements UndoableProject, for any assets, payloads,  *)
(* labels and archives and any number of steps, where a document has no    *)
(* text edits (Revert All drops their history) and the failures are those  *)
(* the code takes back whole.                                              *)
(*                                                                         *)
(* The argument goes record by record.  From the document after record i   *)
(* the record and the snapshots it names give past[i], the document before *)
(* it.  Pushing and popping later records leaves that alone, because they  *)
(* neither move the record's actions nor touch its snapshots; the record   *)
(* on top starts from the document as it stands.                           *)
(***************************************************************************)
EXTENDS StudioSession_atomic_proofs, StudioSessionTrail

(* The sessions the argument is about.  A copy or a check may fail only    *)
(* where all edits are of sounds: the other editors' undo has dropped its  *)
(* record by then.                                                         *)
AllAudio == \A a \in Assets : SourceOf[a] = "audio"

Plain ==
    /\ Texts = {}
    /\ Faults \subseteq {"snapshot", "manifest", "stage", "validate"}
    /\ {"stage", "validate"} \cap Faults # {} => AllAudio

LEMMA PlainFaults ==
    ASSUME Plain
    PROVE  /\ "purge" \notin Faults /\ "unlink" \notin Faults
           /\ FilesFollow /\ RolledBack
           /\ \A f \in Outcomes :
                /\ f \in {"none", "snapshot", "manifest", "stage", "validate"}
                /\ f \in {"stage", "validate"} => AllAudio
  BY DEF Plain, FilesFollow, RolledBack, Outcomes

(* Without text assets there is one text map.                              *)
LEMMA OneText ==
    ASSUME Plain, NEW x \in TextMaps, NEW y \in TextMaps
    PROVE  x = y
  BY DEF Plain, TextMaps

-----------------------------------------------------------------------------
(* The record at a place of the undo order *)

(* What is known of the session without its history.                       *)
Base == SnapInv /\ LedgerInv /\ FilesAreEdits

(* The place of record i's action on the stack of s.                       *)
Pos(i, s) == Cardinality({j \in 1..i : s \in order[j].touched})

(* What record i holds of asset a: a snapshot's number, that there was no  *)
(* edit, or nothing.                                                       *)
Held(i, a) ==
    IF SourceOf[a] \in order[i].touched
    THEN undo[SourceOf[a]][Pos(i, SourceOf[a])][a]
    ELSE IF SourceOf[a] = "audio" THEN order[i].audio[a] ELSE Untouched

After(i) == IF i = Len(order) THEN Doc ELSE past[i + 1]

(* Record e, holding held with the snapshots h, takes after to before.     *)
Retraced(e, held, h, after, before) ==
    /\ \A a \in Assets :
         before.edits[a] = IF held[a] = Untouched THEN after.edits[a]
                           ELSE IF held[a] = NoSnapshot THEN None
                           ELSE h[held[a]]
    /\ before.notes = IF e.source = "revert_all" THEN e.notes
                      ELSE IF e.source = "audio_annotation"
                      THEN [after.notes EXCEPT ![e.cue] = e.note]
                      ELSE after.notes
    /\ e.source = "revert_all" =>
         /\ after.edits = NoEdits /\ after.notes = NoNotes
         /\ \A a \in Assets : held[a] # NoSnapshot

Retraces(i) ==
    Retraced(order[i], [a \in Assets |-> Held(i, a)], history, After(i), past[i])

(* Revert All keeps its audio snapshots in its record, nobody else does;   *)
(* there are no records of text edits.                                     *)
Mark(e) ==
    /\ e.source # "text"
    /\ IF e.source = "revert_all" THEN "audio" \notin e.touched /\ e.texts = None
                                  ELSE e.audio = Nothing

(* An editor's stack concerns that editor's assets.                        *)
Owns(s, action) == \A a \in Assets : action[a] # Untouched => SourceOf[a] = s

Owned == \A s \in FileSources : \A k \in DOMAIN undo[s] : Owns(s, undo[s][k])

TrailInv ==
    /\ past \in Seq(Documents)
    /\ Len(past) = Len(order)
    /\ \A i \in DOMAIN order : Mark(order[i])
    /\ Owned
    /\ \A i \in DOMAIN order : Retraces(i)

LEMMA DocType ==
    ASSUME TypeOK
    PROVE  /\ Doc \in Documents
           /\ Doc.edits = edits /\ Doc.texts = texts /\ Doc.notes = notes
           /\ order \in Seq(Entries) /\ DOMAIN order = 1..Len(order) /\ Len(order) \in Nat
  BY LenProperties DEF TypeOK, Doc, Documents

(* A record's action is on the stack, and the last record's is on top.     *)
LEMMA PosFacts ==
    ASSUME LedgerInv, NEW i \in DOMAIN order, NEW s \in FileSources
    PROVE  /\ s \in order[i].touched => Pos(i, s) \in DOMAIN undo[s]
           /\ i = Len(order) => Pos(i, s) = Len(undo[s])
  <1>0. TypeOK /\ FileLedgersAgree
    BY DEF LedgerInv
  <1>1. /\ order \in Seq(Entries) /\ undo[s] \in Seq(UndoActions)
        /\ DOMAIN order = 1..Len(order) /\ Len(order) \in Nat
        /\ DOMAIN undo[s] = 1..Len(undo[s]) /\ Len(undo[s]) \in Nat
    BY <1>0, DocType, LenProperties DEF TypeOK
  <1>2. IsFiniteSet(Records(order, s)) /\ Cardinality(Records(order, s)) = Len(undo[s])
    BY <1>0, <1>1, RecordsFinite, AgreeByRecords
  <1>. DEFINE P == {j \in 1..i : s \in order[j].touched}
  <1>3. P \in SUBSET Records(order, s)
    BY <1>1 DEF Records
  <1>4. /\ IsFiniteSet(P) /\ Cardinality(P) \in Nat
        /\ Cardinality(P) <= Cardinality(Records(order, s))
        /\ Cardinality(P) = 0 <=> P = {}
    BY <1>2, <1>3, FS_Subset, FS_CardinalityType, FS_EmptySet
  <1>5. s \in order[i].touched => i \in P
    BY <1>1
  <1>6. i = Len(order) => P = Records(order, s)
    BY <1>1 DEF Records
  <1>7. Pos(i, s) = Cardinality(P)
    BY DEF Pos
  <1>. HIDE DEF P
  <1>. QED BY <1>1, <1>2, <1>4, <1>5, <1>6, <1>7

LEMMA PosNext ==
    (LedgerInv =>
      \A i \in DOMAIN order, s \in FileSources :
        /\ s \in order[i].touched => Pos(i, s) \in DOMAIN undo[s]
        /\ i = Len(order) => Pos(i, s) = Len(undo[s]))'
  <1>1. LedgerInv =>
          \A i \in DOMAIN order, s \in FileSources :
            /\ s \in order[i].touched => Pos(i, s) \in DOMAIN undo[s]
            /\ i = Len(order) => Pos(i, s) = Len(undo[s])
    BY PosFacts
  <1>. QED BY <1>1, PTL

(* A step only drops or adds records at the end, and actions likewise.     *)
LEMMA Overlap ==
    ASSUME TypeOK, LedgerStep
    PROVE  /\ \A j \in DOMAIN order : j \in DOMAIN order' => order'[j] = order[j]
           /\ \A s \in FileSources : \A k \in DOMAIN undo[s] :
                k \in DOMAIN undo'[s] => undo'[s][k] = undo[s][k]
  <1>0. order \in Seq(Entries) /\ \A s \in FileSources : undo[s] \in Seq(UndoActions)
    BY DEF TypeOK
  <1>1. CASE UNCHANGED <<undo, order>>
    BY <1>1
  <1>2. ASSUME NEW e \in Entries, Push(e)
        PROVE  /\ \A j \in DOMAIN order : j \in DOMAIN order' => order'[j] = order[j]
               /\ \A s \in FileSources : \A k \in DOMAIN undo[s] :
                    k \in DOMAIN undo'[s] => undo'[s][k] = undo[s][k]
    <2>1. \A j \in DOMAIN order : order'[j] = order[j]
      BY <1>0, <1>2, AppendFacts DEF Push
    <2>2. ASSUME NEW s \in FileSources, NEW k \in DOMAIN undo[s]
          PROVE  undo'[s][k] = undo[s][k]
      <3>1. CASE s \in e.touched
        <4>1. PICK action \in UndoActions : undo'[s] = Append(undo[s], action)
          BY <1>2, <3>1 DEF Push
        <4>. QED BY <1>0, <2>2, <4>1, AppendFacts
      <3>2. CASE s \notin e.touched
        BY <1>2, <3>2 DEF Push
      <3>. QED BY <3>1, <3>2
    <2>. QED BY <2>1, <2>2
  <1>3. CASE PopAll
    <2>1. \A j \in DOMAIN order' : order'[j] = order[j]
      BY <1>0, <1>3, CutFacts DEF PopAll, Pop
    <2>2. ASSUME NEW s \in FileSources, NEW k \in DOMAIN undo'[s]
          PROVE  undo'[s][k] = undo[s][k]
      BY <1>0, <1>3, <2>2, CutFacts DEF PopAll
    <2>. QED BY <2>1, <2>2
  <1>4. CASE Emptied
    BY <1>4 DEF Emptied
  <1>. QED BY <1>1, <1>2, <1>3, <1>4 DEF LedgerStep

LEMMA CopiedOld ==
    ASSUME TypeOK, NEW S \in SUBSET Assets, NEW num \in Numberings(S),
           CanCopy(S), history' = Copied(S, num), NEW n \in SnapIds, n <= seq
    PROVE  history'[n] = history[n]
  BY CopiedContent

(* A snapshot taken earlier keeps its content or is removed.               *)
LEMMA HistoryStep ==
    ASSUME TypeOK, [Next]_vars, NEW n \in SnapIds, n <= seq
    PROVE  history'[n] = history[n] \/ history'[n] = None
  <1>1. ASSUME NEW S \in SUBSET Assets, NEW num \in Numberings(S), TakeSnapshots(S, num)
        PROVE  history'[n] = history[n]
    BY <1>1, CopiedOld DEF TakeSnapshots
  <1>2. ASSUME NEW ids, Purge(ids)
        PROVE  history'[n] = history[n] \/ history'[n] = None
    BY <1>2 DEF Purge
  <1>3. CASE UNCHANGED history
    BY <1>3
  <1>4. ASSUME NEW a \in Assets, NEW v \in Payload, NEW f,
               Replace(a, v, f) \/ ReplaceStadium(a, v, f) \/ ReplaceAudio(a, v, f)
               \/ Revert(a, f)
        PROVE  history'[n] = history[n]
    <2>1. \E num \in Numberings({a}) : TakeSnapshots({a}, num)
      BY <1>4 DEF Replace, ReplaceStadium, ReplaceAudio, Revert
    <2>. QED BY <1>1, <2>1
  <1>5. ASSUME NEW s \in FileSources, NEW rows \in Bundles(s), NEW f,
               Batch(s, rows, f) \/ BatchRollbackFails(s, rows, f)
        PROVE  history'[n] = history[n]
    <2>1. Changed(rows) \in SUBSET Assets
      BY BundleFacts
    <2>. QED BY <1>1, <1>5, <2>1, CopiedOld DEF Batch, BatchRollbackFails
  <1>6. ASSUME NEW f, RevertAll(f) PROVE history'[n] = history[n]
    BY <1>1, <1>6 DEF RevertAll
  <1>7. ASSUME NEW f, UndoAudio(f)
        PROVE  history'[n] = history[n] \/ history'[n] = None
    BY <1>2, <1>7 DEF UndoAudio
  <1>8. ASSUME NEW s, NEW f, UndoFile(s, f) \/ UndoFileFails(s, f)
        PROVE  history'[n] = history[n] \/ history'[n] = None
    BY <1>2, <1>8 DEF UndoFile, UndoFileFails
  <1>9. ASSUME NEW f, UndoRevertAll(f)
        PROVE  history'[n] = history[n] \/ history'[n] = None
    BY <1>2, <1>9 DEF UndoRevertAll
  <1>10. ASSUME NEW d, OpenProject(d) PROVE history'[n] = None
    BY <1>10 DEF OpenProject
  <1>11. CASE UNCHANGED vars
    BY <1>3, <1>11 DEF vars
  <1>12. CASE \/ \E a \in Assets, f \in Outcomes : SnapshotFails(a, f)
              \/ \E t \in Texts, v \in Payload, f \in Outcomes : SetText(t, v, f)
              \/ \E c \in Cues, v \in Payload, f \in Outcomes : SetNote(c, v, f)
              \/ \E v \in Colours \cup {None} : SetColours(v)
              \/ \E s \in {"visual", "audio"} : \E rows \in Bundles(s), f \in Outcomes :
                    BatchRollsBack(s, rows, f)
              \/ \E f \in Outcomes :
                    \/ RevertAllFails(f) \/ UndoAudioFails(f) \/ UndoNote(f)
                    \/ UndoAudioRollbackFails(f) \/ UndoText(f) \/ UndoRevertAllFails(f)
    <2>1. UNCHANGED history
      BY <1>12 DEF SnapshotFails, SetText, SetNote, SetColours, BatchRollsBack,
                   RevertAllFails, UndoAudioFails, UndoNote, UndoAudioRollbackFails,
                   UndoText, UndoRevertAllFails, vars
    <2>. QED BY <2>1
  <1>13. {"visual", "audio"} \subseteq FileSources /\ None \in Payload
    BY PayloadNone DEF FileSources
  <1>. QED BY <1>4, <1>5, <1>6, <1>7, <1>8, <1>9, <1>10, <1>11, <1>12, <1>13 DEF Next

LEMMA HeldType ==
    ASSUME LedgerInv, NEW i \in DOMAIN order, NEW a \in Assets
    PROVE  Held(i, a) \in SnapIds \cup {Untouched, NoSnapshot}
  <1>. DEFINE s == SourceOf[a]
  <1>0. TypeOK /\ s \in FileSources /\ MaxSnapshots \in Nat
    BY SessionAssumption DEF LedgerInv
  <1>1. order[i].audio \in UndoActions
    <2>1. order[i] \in Entries
      BY <1>0, DocType, ElementOfSeq
    <2>. QED BY <2>1 DEF Entries
  <1>2. s \in order[i].touched => undo[s][Pos(i, s)] \in UndoActions
    <2>1. s \in order[i].touched => Pos(i, s) \in DOMAIN undo[s]
      BY <1>0, PosFacts
    <2>2. undo[s] \in Seq(UndoActions) /\ DOMAIN undo[s] = 1..Len(undo[s])
      BY <1>0, LenProperties DEF TypeOK
    <2>. QED BY <2>1, <2>2, ElementOfSeq
  <1>3. \A action \in UndoActions : action[a] \in SnapIds \cup {Untouched, NoSnapshot}
    BY <1>0 DEF UndoActions, SnapIds, Untouched, NoSnapshot
  <1>. QED BY <1>0, <1>1, <1>2, <1>3 DEF Held

(* What record i holds of an asset is held in a ledger, so the snapshot is *)
(* there.                                                                  *)
LEMMA HeldIsHeld ==
    ASSUME LedgerInv, NEW i \in DOMAIN order, NEW a \in Assets, Held(i, a) \in SnapIds
    PROVE  \E h, k : Holds(h, k, a, Held(i, a))
  <1>. DEFINE s == SourceOf[a]
  <1>0. s \in FileSources
    BY SessionAssumption
  <1>1. CASE s \in order[i].touched
    <2>1. Pos(i, s) \in DOMAIN undo[s]
      BY <1>0, <1>1, PosFacts
    <2>2. s \in Ledgers /\ Ledger(s) = undo[s]
      BY <1>0, StackLedger
    <2>3. Held(i, a) = undo[s][Pos(i, s)][a]
      BY <1>1 DEF Held
    <2>4. Holds(s, Pos(i, s), a, Held(i, a))
      BY <2>1, <2>2, <2>3 DEF Holds
    <2>. QED BY <2>4
  <1>2. CASE s \notin order[i].touched
    <2>1. Held(i, a) = order[i].audio[a]
      BY <1>2, SessionAssumption DEF Held, SnapIds, Untouched
    <2>2. Holds("revert_all", i, a, Held(i, a))
      BY <2>1 DEF Holds, Ledger, Ledgers
    <2>. QED BY <2>2
  <1>. QED BY <1>1, <1>2

LEMMA HeldSnapshot ==
    ASSUME SnapInv, LedgerInv, NEW i \in DOMAIN order, NEW a \in Assets,
           Held(i, a) \in SnapIds
    PROVE  Held(i, a) <= seq /\ history[Held(i, a)] # None
  <1>1. PICK h, k : Holds(h, k, a, Held(i, a))
    BY HeldIsHeld
  <1>. QED BY <1>1, KeptByHolds DEF SnapInv

LEMMA HeldSnapshotAll ==
    SnapInv /\ LedgerInv =>
      \A i \in DOMAIN order, a \in Assets :
        Held(i, a) \in SnapIds => Held(i, a) <= seq /\ history[Held(i, a)] # None
  BY HeldSnapshot

LEMMA HeldSnapshotNext ==
    (SnapInv /\ LedgerInv =>
      \A i \in DOMAIN order, a \in Assets :
        Held(i, a) \in SnapIds => Held(i, a) <= seq /\ history[Held(i, a)] # None)'
  BY HeldSnapshotAll, PTL

-----------------------------------------------------------------------------
(* A record that stays keeps its meaning *)

LEMMA HeldStays ==
    ASSUME LedgerInv, LedgerInv', LedgerStep,
           NEW i \in DOMAIN order, i \in DOMAIN order', NEW a \in Assets
    PROVE  Held(i, a)' = Held(i, a)
  <1>. DEFINE s == SourceOf[a]
  <1>0. TypeOK /\ TypeOK' /\ s \in FileSources
    BY SessionAssumption DEF LedgerInv
  <1>1. \A j \in DOMAIN order : j \in DOMAIN order' => order'[j] = order[j]
    BY <1>0, Overlap
  <1>2. /\ DOMAIN order = 1..Len(order) /\ Len(order) \in Nat
        /\ DOMAIN order' = 1..Len(order') /\ Len(order') \in Nat
    BY <1>0, LenProperties DEF TypeOK
  <1>3. \A j \in 1..i : order'[j] = order[j]
    BY <1>1, <1>2
  <1>4. order'[i] = order[i]
    BY <1>1
  <1>5. Pos(i, s)' = Pos(i, s)
    <2>1. {j \in 1..i : s \in order'[j].touched} = {j \in 1..i : s \in order[j].touched}
      BY <1>3
    <2>. QED BY <2>1 DEF Pos
  <1>6. CASE s \in order[i].touched
    <2>1. Pos(i, s) \in DOMAIN undo[s]
      BY <1>0, <1>6, PosFacts
    <2>2. Pos(i, s) \in DOMAIN undo'[s]
      <3>1. \A j \in DOMAIN order, r \in FileSources :
              LedgerInv /\ r \in order[j].touched => Pos(j, r) \in DOMAIN undo[r]
        BY PosFacts
      <3>. QED BY <1>0, <1>4, <1>5, <1>6, PosNext
    <2>3. undo'[s][Pos(i, s)] = undo[s][Pos(i, s)]
      BY <1>0, <2>1, <2>2, Overlap
    <2>. QED BY <1>4, <1>5, <1>6, <2>3 DEF Held
  <1>7. CASE s \notin order[i].touched
    BY <1>4, <1>7 DEF Held
  <1>. QED BY <1>6, <1>7

LEMMA RetracesStays ==
    ASSUME Base, Base', [Next]_vars, LedgerStep,
           NEW i \in DOMAIN order, i \in DOMAIN order', Retraces(i),
           After(i)' = After(i), past'[i] = past[i]
    PROVE  Retraces(i)'
  <1>0. SnapInv /\ LedgerInv /\ SnapInv' /\ LedgerInv' /\ TypeOK
    BY DEF Base, SnapInv
  <1>. DEFINE held == [a \in Assets |-> Held(i, a)]
  <1>1. [a \in Assets |-> Held(i, a)]' = held
    BY <1>0, HeldStays
  <1>2. order'[i] = order[i]
    BY <1>0, Overlap
  <1>3. ASSUME NEW a \in Assets, held[a] \in SnapIds
        PROVE  history'[held[a]] = history[held[a]]
    <2>1. held[a] = Held(i, a) /\ Held(i, a)' = Held(i, a)
      BY <1>0, HeldStays
    <2>2. Held(i, a) <= seq
      BY <1>0, <1>3, <2>1, HeldSnapshot
    <2>3. history'[Held(i, a)] # None
      BY <1>0, <1>3, <2>1, HeldSnapshotNext DEF SnapIds
    <2>. QED BY <1>0, <1>3, <2>1, <2>2, <2>3, HistoryStep
  <1>4. ASSUME NEW a \in Assets
        PROVE  held[a] \in SnapIds \/ held[a] \in {Untouched, NoSnapshot}
    BY <1>0, HeldType
  <1>5. Retraced(order[i], held, history, After(i), past[i])
    BY DEF Retraces
  <1>. HIDE DEF held
  <1>6. Retraced(order[i], held, history', After(i), past[i])
    <2>1. \A a \in Assets :
            held[a] \notin {Untouched, NoSnapshot} => history'[held[a]] = history[held[a]]
      BY <1>3, <1>4
    <2>. QED BY <1>5, <2>1 DEF Retraced
  <1>. QED BY <1>1, <1>2, <1>6 DEF Retraces

-----------------------------------------------------------------------------
(* The record on top *)

TopHeld == [a \in Assets |->
    IF SourceOf[a] \in Top.touched THEN LastAction(SourceOf[a])[a]
    ELSE IF SourceOf[a] = "audio" THEN Top.audio[a] ELSE Untouched]

LEMMA TopRetraces ==
    ASSUME LedgerInv, order # <<>>
    PROVE  Retraces(Len(order)) <=>
             Retraced(Top, TopHeld, history, Doc, past[Len(order)])
  <1>1. Len(order) \in DOMAIN order
    BY LastType DEF LedgerInv, TypeOK
  <1>2. \A a \in Assets : Held(Len(order), a) = TopHeld[a]
    BY <1>1, PosFacts, SessionAssumption DEF Held, TopHeld, Top, LastAction
  <1>3. [a \in Assets |-> Held(Len(order), a)] = TopHeld
    BY <1>2 DEF TopHeld
  <1>. QED BY <1>3 DEF Retraces, After, Top

LEMMA TopRetracesNext ==
    (LedgerInv /\ order # <<>> =>
      \A i : i = Len(order) =>
        (Retraces(i) <=> Retraced(Top, TopHeld, history, Doc, past[i])))'
  <1>1. LedgerInv /\ order # <<>> =>
          \A i : i = Len(order) =>
            (Retraces(i) <=> Retraced(Top, TopHeld, history, Doc, past[i]))
    BY TopRetraces
  <1>. QED BY <1>1, PTL

(* Each way a step may treat the trail *)

LEMMA TrailPush ==
    ASSUME Base, Base', TrailInv, [Next]_vars, Owned',
           NEW e \in Entries, Shape(e), Mark(e), Push(e),
           Retraced(Top', TopHeld', history', Doc', Doc),
           past' = Append(past, Doc)
    PROVE  TrailInv'
  <1>0. /\ TypeOK /\ LedgerInv /\ LedgerInv' /\ LedgerStep
        /\ Doc \in Documents /\ past \in Seq(Documents) /\ Len(past) = Len(order)
        /\ order \in Seq(Entries)
    BY DocType DEF Base, SnapInv, TrailInv, LedgerStep
  <1>1. /\ order' = Append(order, e) /\ Len(order') = Len(order) + 1
        /\ DOMAIN order = 1..Len(order) /\ Len(order) \in Nat
        /\ DOMAIN order' = 1..(Len(order) + 1)
        /\ order'[Len(order) + 1] = e
        /\ \A i \in DOMAIN order : order'[i] = order[i]
    BY <1>0, AppendFacts, AppendProperties DEF Push
  <1>2. /\ past' \in Seq(Documents) /\ Len(past') = Len(order')
        /\ past'[Len(order')] = Doc
        /\ \A i \in DOMAIN order : past'[i] = past[i]
    BY <1>0, <1>1, AppendProperties
  <1>3. \A i \in DOMAIN order' : Mark(order'[i])
    BY <1>1 DEF TrailInv
  <1>4. ASSUME NEW i \in DOMAIN order PROVE Retraces(i)'
    <2>1. After(i)' = After(i)
      <3>1. i # Len(order') /\ i \in 1..Len(order)
        BY <1>1
      <3>2. past'[i + 1] = IF i = Len(order) THEN Doc ELSE past[i + 1]
        BY <1>1, <1>2, <3>1
      <3>. QED BY <3>1, <3>2 DEF After
    <2>. QED BY <1>0, <1>1, <1>2, <2>1, RetracesStays DEF TrailInv
  <1>5. \A i : i = Len(order') => Retraces(i)'
    <2>1. order' # <<>>
      BY <1>1
    <2>. QED BY <1>0, <1>2, <2>1, TopRetracesNext
  <1>6. \A i \in DOMAIN order' : Retraces(i)'
    BY <1>1, <1>4, <1>5
  <1>. QED BY <1>2, <1>3, <1>6 DEF TrailInv

LEMMA TrailPop ==
    ASSUME Base, Base', TrailInv, [Next]_vars, Owned', PopAll,
           Doc' = past[Len(order)], past' = AllButLast(past)
    PROVE  TrailInv'
  <1>0. /\ TypeOK /\ LedgerInv /\ LedgerInv' /\ LedgerStep
        /\ past \in Seq(Documents) /\ Len(past) = Len(order)
        /\ order \in Seq(Entries) /\ order # <<>>
    BY DEF Base, SnapInv, TrailInv, LedgerStep, PopAll, TypeOK
  <1>1. /\ order' = AllButLast(order) /\ Len(order') = Len(order) - 1
        /\ DOMAIN order = 1..Len(order) /\ Len(order) \in Nat \ {0}
        /\ DOMAIN order' = 1..(Len(order) - 1)
        /\ \A i \in DOMAIN order' : order'[i] = order[i]
    <2>1. order' = AllButLast(order) /\ order' \in Seq(Entries)
      BY <1>0, AllButLastType DEF PopAll, Pop
    <2>2. DOMAIN order = 1..Len(order) /\ Len(order) \in Nat \ {0}
      BY <1>0, LastType, LenProperties
    <2>3. /\ Len(order') = Len(order) - 1
          /\ \A i \in 1..(Len(order) - 1) : order'[i] = order[i]
      BY <1>0, <2>1, AllButLastType
    <2>4. DOMAIN order' = 1..Len(order')
      BY <2>1, LenProperties
    <2>. QED BY <2>1, <2>2, <2>3, <2>4
  <1>2. /\ past' \in Seq(Documents) /\ Len(past') = Len(order')
        /\ \A i \in DOMAIN order' : past'[i] = past[i]
    <2>1. past # <<>>
      BY <1>0, <1>1
    <2>. QED BY <1>0, <1>1, <2>1, AllButLastType
  <1>3. \A i \in DOMAIN order' : Mark(order'[i])
    BY <1>1 DEF TrailInv
  <1>4. ASSUME NEW i \in DOMAIN order' PROVE Retraces(i)'
    <2>1. After(i)' = After(i)
      <3>1. i # Len(order) /\ i \in 1..(Len(order) - 1)
        BY <1>1
      <3>2. i = Len(order') => i + 1 = Len(order)
        BY <1>1, <3>1
      <3>3. i # Len(order') => past'[i + 1] = past[i + 1]
        BY <1>1, <1>2, <3>1
      <3>. QED BY <3>1, <3>2, <3>3 DEF After
    <2>2. i \in DOMAIN order
      BY <1>1
    <2>. QED BY <1>0, <1>2, <2>1, <2>2, RetracesStays DEF TrailInv
  <1>. QED BY <1>2, <1>3, <1>4 DEF TrailInv

LEMMA TrailStill ==
    ASSUME Base, Base', TrailInv, [Next]_vars, UNCHANGED <<undo, order>>,
           Doc' = Doc, past' = past
    PROVE  TrailInv'
  <1>0. LedgerStep
    BY DEF LedgerStep
  <1>1. \A i \in DOMAIN order : After(i)' = After(i)
    BY DEF After
  <1>2. \A i \in DOMAIN order : Retraces(i)'
    BY <1>0, <1>1, RetracesStays DEF TrailInv
  <1>. QED BY <1>2 DEF TrailInv, Owned

LEMMA TrailEmptied ==
    ASSUME Emptied, past' = <<>>
    PROVE  TrailInv'
  <1>1. DOMAIN order' = {} /\ \A s \in FileSources : DOMAIN undo'[s] = {}
    BY DEF Emptied
  <1>2. past' \in Seq(Documents) /\ Len(past') = Len(order')
    BY EmptySeq DEF Emptied
  <1>. QED BY <1>1, <1>2 DEF TrailInv, Owned

-----------------------------------------------------------------------------
(* Pushing a record *)

(* The record a step pushes takes the new document back to the old one.    *)
PushesExact ==
    /\ \E e \in Entries : Shape(e) /\ Mark(e) /\ Push(e)
    /\ Owned'
    /\ Retraced(Top', TopHeld', history', Doc', Doc)

LEMMA OwnedPush ==
    ASSUME TypeOK, Owned,
           \A s \in FileSources :
             \/ undo'[s] = undo[s]
             \/ \E action \in UndoActions :
                  Owns(s, action) /\ undo'[s] = Append(undo[s], action)
    PROVE  Owned'
  <1>. SUFFICES ASSUME NEW s \in FileSources, NEW k \in DOMAIN undo'[s]
                PROVE  Owns(s, undo'[s][k])
    BY DEF Owned, Owns
  <1>0. undo[s] \in Seq(UndoActions)
    BY DEF TypeOK
  <1>1. CASE undo'[s] = undo[s]
    BY <1>1 DEF Owned
  <1>2. ASSUME NEW action \in UndoActions, Owns(s, action),
               undo'[s] = Append(undo[s], action)
        PROVE  Owns(s, undo'[s][k])
    <2>1. IF k \in DOMAIN undo[s] THEN undo'[s][k] = undo[s][k] ELSE undo'[s][k] = action
      BY <1>0, <1>2, AppendFacts
    <2>. QED BY <1>2, <2>1 DEF Owned
  <1>. QED BY <1>1, <1>2

LEMMA OwnedCut ==
    ASSUME TypeOK, Owned, PopAll
    PROVE  Owned'
  <1>. SUFFICES ASSUME NEW s \in FileSources, NEW k \in DOMAIN undo'[s]
                PROVE  Owns(s, undo'[s][k])
    BY DEF Owned, Owns
  <1>0. undo[s] \in Seq(UndoActions)
    BY DEF TypeOK
  <1>1. k \in DOMAIN undo[s] /\ undo'[s][k] = undo[s][k]
    BY <1>0, CutFacts DEF PopAll
  <1>. QED BY <1>1 DEF Owned

(* The record of an edit or a batch of editor s.                           *)
LEMMA RecordExact ==
    ASSUME Base, Base', TrailInv, NEW s \in FileSources,
           NEW S \in SUBSET Assets, S \subseteq Of(s), NEW num \in Numberings(S),
           TakeSnapshots(S, num), Record(s, ActionFor(S, num)),
           \A a \in Assets \ S : edits'[a] = edits[a],
           UNCHANGED notes
    PROVE  PushesExact
  <1>. DEFINE action == ActionFor(S, num)
              e == Entry(s, {s})
  <1>0. /\ TypeOK /\ TypeOK' /\ CanCopy(S) /\ FilesAreEdits
        /\ order \in Seq(Entries) /\ undo[s] \in Seq(UndoActions)
    BY DEF Base, SnapInv, TakeSnapshots, TypeOK
  <1>1. action \in UndoActions /\ Owns(s, action)
    BY <1>0, SnapshotsType DEF Owns, ActionFor, Of
  <1>2. e \in Entries /\ e.source = s /\ e.touched = {s} /\ e.audio = Nothing
    BY EntryType DEF Entry
  <1>3. Shape(e) /\ Mark(e)
    BY <1>2 DEF Shape, Mark, FileSources
  <1>4. /\ order' = Append(order, e)
        /\ undo'[s] = Append(undo[s], action)
        /\ \A r \in FileSources : r # s => undo'[r] = undo[r]
    BY <1>0 DEF Record, TypeOK
  <1>5. \A a \in Assets :
          action[a] = IF a \notin S THEN Untouched
                      ELSE IF edits[a] = None THEN NoSnapshot ELSE num[a]
    BY DEF ActionFor
  <1>6. /\ \A a \in Edited(S) : num[a] \in SnapIds
        /\ \A a \in Edited(S) : history'[num[a]] = files[a]
    BY <1>0, NumberingFacts, CopiedContent DEF TakeSnapshots
  <1>. HIDE DEF action, e
  <1>7. Push(e)
    BY <1>1, <1>2, <1>4 DEF Push
  <1>8. Owned'
    BY <1>0, <1>1, <1>4, OwnedPush DEF TrailInv
  <1>9. Top' = e /\ LastAction(s)' = action
    BY <1>0, <1>1, <1>2, <1>4, AppendProperties DEF Top, LastAction
  <1>10. \A a \in Assets : TopHeld'[a] = action[a]
    <2>1. \A a \in Assets : SourceOf[a] # s => action[a] = Untouched
      BY <1>1 DEF Owns
    <2>2. \A a \in Assets : Nothing[a] = Untouched
      BY DEF Nothing
    <2>. QED BY <1>2, <1>9, <2>1, <2>2 DEF TopHeld
  <1>11. Retraced(Top', TopHeld', history', Doc', Doc)
    <2>1. /\ Doc.edits = edits /\ Doc.notes = notes
          /\ Doc'.edits = edits' /\ Doc'.notes = notes'
      BY DEF Doc
    <2>2. s # "revert_all" /\ s # "audio_annotation"
      BY DEF FileSources
    <2>3. ASSUME NEW a \in Assets
          PROVE  edits[a] = IF action[a] = Untouched THEN edits'[a]
                            ELSE IF action[a] = NoSnapshot THEN None
                            ELSE history'[action[a]]
      <3>1. CASE a \notin S
        BY <1>5, <3>1
      <3>2. CASE a \in S /\ edits[a] = None
        BY <1>5, <3>2 DEF Untouched, NoSnapshot
      <3>3. CASE a \in S /\ edits[a] # None
        <4>1. a \in Edited(S) /\ action[a] = num[a]
          BY <1>5, <3>3 DEF Edited
        <4>2. num[a] # Untouched /\ num[a] # NoSnapshot
          BY <1>6, <4>1, SessionAssumption DEF SnapIds, Untouched, NoSnapshot
        <4>3. history'[num[a]] = edits[a]
          BY <1>0, <1>6, <4>1 DEF FilesAreEdits
        <4>. QED BY <4>1, <4>2, <4>3
      <3>. QED BY <3>1, <3>2, <3>3
    <2>. QED BY <1>2, <1>9, <1>10, <2>1, <2>2, <2>3 DEF Retraced
  <1>. QED BY <1>2, <1>3, <1>7, <1>8, <1>11 DEF PushesExact

(* The record of a label.                                                  *)
LEMMA NoteExact ==
    ASSUME Base, TrailInv, NEW c \in Cues, NEW v \in Payload,
           notes' = [notes EXCEPT ![c] = v], UNCHANGED <<edits, undo>>,
           order' = Append(order, [Entry("audio_annotation", {}) EXCEPT
                                     !.cue = c, !.note = notes[c]])
    PROVE  PushesExact
  <1>. DEFINE e == [Entry("audio_annotation", {}) EXCEPT !.cue = c, !.note = notes[c]]
  <1>0. TypeOK /\ order \in Seq(Entries) /\ notes[c] \in Payload
    BY DEF Base, SnapInv, TypeOK, NoteMaps
  <1>1. Entry("audio_annotation", {}) \in Entries
    BY EntryType
  <1>2. e \in Entries
    BY <1>0, <1>1 DEF Entries
  <1>3. /\ e.source = "audio_annotation" /\ e.touched = {} /\ e.audio = Nothing
        /\ e.cue = c /\ e.note = notes[c]
    BY DEF Entry
  <1>4. order' = Append(order, e)
    OBVIOUS
  <1>. HIDE DEF e
  <1>5. Shape(e) /\ Mark(e) /\ Push(e)
    BY <1>3, <1>4 DEF Shape, Mark, Push, FileSources
  <1>6. Owned'
    BY DEF Owned, TrailInv
  <1>7. Top' = e
    BY <1>0, <1>2, <1>4, AppendProperties DEF Top
  <1>8. \A a \in Assets : TopHeld'[a] = Untouched
    BY <1>3, <1>7 DEF TopHeld, Nothing
  <1>9. [notes' EXCEPT ![c] = notes[c]] = notes
    BY <1>0 DEF TypeOK, NoteMaps
  <1>10. /\ Doc.edits = edits /\ Doc.notes = notes
         /\ Doc'.edits = edits' /\ Doc'.notes = notes'
    BY DEF Doc
  <1>11. Retraced(Top', TopHeld', history', Doc', Doc)
    BY <1>3, <1>7, <1>8, <1>9, <1>10 DEF Retraced
  <1>. QED BY <1>2, <1>5, <1>6, <1>11 DEF PushesExact

(* The record of a Revert All: the document after it is empty, every edit  *)
(* before it is in one of its actions.                                     *)
LEMMA RevertAllExact ==
    ASSUME Plain, Base, Base', TrailInv, NEW f \in Outcomes, RevertAll(f)
    PROVE  PushesExact
  <1>0. TypeOK /\ TypeOK' /\ FilesAreEdits /\ order \in Seq(Entries) /\ ~HasText
    <2>1. texts \in TextMaps /\ NoTexts \in TextMaps
      BY EmptyMaps DEF Base, SnapInv, TypeOK
    <2>. QED BY <2>1, OneText DEF Base, SnapInv, TypeOK, HasText
  <1>. PICK num \in Numberings(Assets) :
         /\ TakeSnapshots(Assets, num)
         /\ undo' = [s \in FileSources |->
                       IF s \in RevertedStacks THEN Append(undo[s], Part(s, num))
                                              ELSE undo[s]]
         /\ order' = Append(order, RevertAllEntry(num))
    BY DEF RevertAll
  <1>. DEFINE e == RevertAllEntry(num)
  <1>1. \A s \in FileSources : Part(s, num) \in UndoActions /\ Owns(s, Part(s, num))
    BY <1>0, PartType DEF TakeSnapshots, Owns, Part, Edited, Of
  <1>2. e \in Entries
    <2>1. RevertedStacks \in SUBSET FileSources
      BY DEF RevertedStacks
    <2>2. Entry("revert_all", RevertedStacks) \in Entries
      BY <2>1, EntryType
    <2>3. Part("audio", num) \in UndoActions
      BY <1>1 DEF FileSources
    <2>. QED BY <1>0, <2>2, <2>3 DEF RevertAllEntry, Entries, TypeOK
  <1>3. /\ e.source = "revert_all" /\ e.touched = RevertedStacks
        /\ e.audio = Part("audio", num) /\ e.texts = None /\ e.notes = notes
    BY <1>0 DEF RevertAllEntry, Entry
  <1>4. order' = Append(order, e)
    OBVIOUS
  <1>5. /\ \A a \in Edited(Assets) : num[a] \in SnapIds
        /\ \A a \in Edited(Assets) : history'[num[a]] = files[a]
    BY <1>0, NumberingFacts, CopiedContent DEF TakeSnapshots
  <1>. HIDE DEF e
  <1>6. Shape(e) /\ Mark(e) /\ Push(e)
    BY <1>1, <1>3, <1>4 DEF Shape, Mark, Push, FileSources, RevertedStacks
  <1>7. Owned'
    BY <1>0, <1>1, OwnedPush DEF TrailInv
  <1>8. Top' = e
    BY <1>0, <1>2, <1>4, AppendProperties DEF Top
  <1>9. \A s \in RevertedStacks : LastAction(s)' = Part(s, num)
    <2>. SUFFICES ASSUME NEW s \in RevertedStacks PROVE LastAction(s)' = Part(s, num)
      OBVIOUS
    <2>1. s \in FileSources /\ undo[s] \in Seq(UndoActions)
      BY <1>0 DEF RevertedStacks, TypeOK
    <2>2. undo'[s] = Append(undo[s], Part(s, num))
      BY <2>1
    <2>. QED BY <1>1, <2>1, <2>2, AppendProperties DEF LastAction
  <1>10. ASSUME NEW a \in Assets
         PROVE  TopHeld'[a] = IF edits[a] # None THEN num[a] ELSE Untouched
    <2>. DEFINE s == SourceOf[a]
    <2>0. s \in FileSources /\ (a \in Edited(Of(s)) <=> edits[a] # None)
      BY SessionAssumption DEF Edited, Of
    <2>1. Part(s, num)[a] = IF edits[a] # None THEN num[a] ELSE Untouched
      BY <2>0 DEF Part
    <2>2. CASE s \in RevertedStacks
      BY <1>3, <1>8, <1>9, <2>1, <2>2 DEF TopHeld
    <2>3. CASE s = "audio"
      BY <1>3, <1>8, <2>1, <2>3 DEF TopHeld, RevertedStacks
    <2>4. CASE s # "audio" /\ s \notin RevertedStacks
      <3>1. edits[a] = None
        BY <2>0, <2>4 DEF RevertedStacks
      <3>. QED BY <1>3, <1>8, <2>4, <3>1 DEF TopHeld
    <2>. QED BY <2>2, <2>3, <2>4
  <1>11. ASSUME NEW a \in Assets, edits[a] # None
         PROVE  /\ num[a] \notin {Untouched, NoSnapshot}
                /\ history'[num[a]] = edits[a]
    <2>1. a \in Edited(Assets)
      BY <1>11 DEF Edited
    <2>. QED BY <1>0, <1>5, <2>1, SessionAssumption
         DEF FilesAreEdits, SnapIds, Untouched, NoSnapshot
  <1>12. /\ Doc.edits = edits /\ Doc.notes = notes
         /\ Doc'.edits = NoEdits /\ Doc'.notes = NoNotes
    BY DEF Doc, RevertAll
  <1>13. Retraced(Top', TopHeld', history', Doc', Doc)
    <2>1. \A a \in Assets : TopHeld'[a] # NoSnapshot
      BY <1>10, <1>11 DEF Untouched, NoSnapshot
    <2>2. \A a \in Assets :
            edits[a] = IF TopHeld'[a] = Untouched THEN NoEdits[a]
                       ELSE IF TopHeld'[a] = NoSnapshot THEN None
                       ELSE history'[TopHeld'[a]]
      BY <1>10, <1>11 DEF NoEdits
    <2>. QED BY <1>3, <1>8, <1>12, <2>1, <2>2 DEF Retraced
  <1>. QED BY <1>2, <1>6, <1>7, <1>13 DEF PushesExact

-----------------------------------------------------------------------------
(* Popping a record *)

PopsExact == PopAll /\ Doc' = past[Len(order)]

(* What the record on top leads back to.                                   *)
LEMMA TopFacts ==
    ASSUME Base, TrailInv, order # <<>>
    PROVE  /\ past[Len(order)] \in Documents
           /\ Retraced(Top, TopHeld, history, Doc, past[Len(order)])
           /\ Mark(Top) /\ Shape(Top)
  <1>1. Len(order) \in DOMAIN order /\ LedgerInv
    BY LastType DEF Base, LedgerInv, TypeOK
  <1>2. past # <<>> /\ past \in Seq(Documents) /\ Len(past) = Len(order)
    BY <1>1, DocType, EmptySeq DEF TrailInv, LedgerInv
  <1>3. past[Len(order)] \in Documents
    BY <1>2, LastType
  <1>. QED BY <1>1, <1>3, TopRetraces DEF TrailInv, LedgerInv, Shaped, Top

(* A document is what its edits and labels are.                            *)
LEMMA DocIs ==
    ASSUME Plain, TypeOK', NEW d \in Documents,
           \A a \in Assets : edits'[a] = d.edits[a], notes' = d.notes
    PROVE  Doc' = d
  <1>1. /\ Doc'.edits = edits' /\ Doc'.texts = texts' /\ Doc'.notes = notes'
        /\ edits' \in EditMaps /\ texts' \in TextMaps /\ notes' \in NoteMaps
    BY DEF Doc, TypeOK
  <1>2. d.edits \in EditMaps /\ d.texts \in TextMaps /\ d.notes \in NoteMaps
    BY DEF Documents
  <1>3. edits' = d.edits
    BY <1>1, <1>2 DEF EditMaps
  <1>4. texts' = d.texts
    BY <1>1, <1>2, OneText
  <1>5. Doc' \in Documents
    BY <1>1 DEF Documents, Doc
  <1>6. d = [edits |-> d.edits, texts |-> d.texts, notes |-> d.notes]
    BY DEF Documents
  <1>7. Doc' = [edits |-> edits', texts |-> texts', notes |-> notes']
    BY DEF Doc
  <1>. QED BY <1>3, <1>4, <1>6, <1>7

(* The last action of an editor, undone item by item or in one piece.      *)
LEMMA FileBack ==
    ASSUME Plain, Base, TypeOK', TrailInv, NEW s \in FileSources, TopIs(s), Pop,
           undo[s] # <<>>, undo' = [undo EXCEPT ![s] = AllButLast(@)],
           \A a \in Assets :
             LET action == LastAction(s) IN
             edits'[a] = IF a \notin Items(action) THEN edits[a]
                         ELSE IF action[a] = NoSnapshot THEN None
                         ELSE history[action[a]],
           UNCHANGED notes
    PROVE  PopsExact
  <1>. DEFINE action == LastAction(s)
              d == past[Len(order)]
  <1>0. TypeOK /\ Shaped /\ order # <<>>
    BY DEF Base, LedgerInv, TopIs
  <1>1. /\ Top.source = s /\ Top.touched = {s} /\ Top.audio = Nothing
        /\ d \in Documents /\ Retraced(Top, TopHeld, history, Doc, d)
    BY <1>0, TopFacts DEF TopIs, Shape, Mark, FileSources
  <1>2. action \in UndoActions /\ Owns(s, action)
    <2>1. Len(undo[s]) \in DOMAIN undo[s]
      BY <1>0, LastType DEF TypeOK
    <2>. QED BY <1>0, <2>1, LastActionType DEF LastAction, TrailInv, Owned
  <1>3. ASSUME NEW a \in Assets PROVE TopHeld[a] = action[a]
    <2>1. SourceOf[a] # s => action[a] = Untouched
      BY <1>2 DEF Owns
    <2>. QED BY <1>1, <2>1 DEF TopHeld, Nothing
  <1>4. s # "revert_all" /\ s # "audio_annotation"
    BY DEF FileSources
  <1>5. Doc.edits = edits /\ Doc.notes = notes
    BY DEF Doc
  <1>. HIDE DEF action, d
  <1>6. /\ \A a \in Assets :
             d.edits[a] = IF action[a] = Untouched THEN edits[a]
                          ELSE IF action[a] = NoSnapshot THEN None
                          ELSE history[action[a]]
        /\ d.notes = notes
    BY <1>1, <1>3, <1>4, <1>5 DEF Retraced
  <1>7. \A a \in Assets : edits'[a] = d.edits[a]
    BY <1>6 DEF Items, action
  <1>8. Doc' = d
    BY <1>1, <1>6, <1>7, DocIs
  <1>. QED BY <1>0, <1>8, PopsOne DEF PopsExact, d

LEMMA UndoFileBack ==
    ASSUME Plain, Base, TypeOK', TrailInv, NEW f,
           (UndoAudio(f) /\ Pop) \/ \E s \in FileSources : UndoFile(s, f)
    PROVE  PopsExact
  <1>0. TypeOK
    BY DEF Base, LedgerInv
  <1>1. CASE UndoAudio(f) /\ Pop
    <2>1. /\ "audio" \in FileSources /\ TopIs("audio") /\ Pop /\ undo["audio"] # <<>>
          /\ undo' = [undo EXCEPT !["audio"] = AllButLast(@)]
          /\ edits' = AudioUndone(edits) /\ UNCHANGED notes
      BY <1>1 DEF UndoAudio, FileSources
    <2>. QED BY <2>1, FileBack DEF AudioUndone, Restored
  <1>2. ASSUME NEW s \in FileSources, UndoFile(s, f) PROVE PopsExact
    <2>1. /\ TopIs(s) /\ Pop /\ undo[s] # <<>>
          /\ undo' = [undo EXCEPT ![s] = AllButLast(@)]
          /\ edits' = Reverted(LastAction(s), Items(LastAction(s)), edits)
          /\ UNCHANGED notes
      BY <1>2 DEF UndoFile
    <2>. QED BY <2>1, FileBack DEF Reverted
  <1>. QED BY <1>1, <1>2

LEMMA UndoNoteBack ==
    ASSUME Plain, Base, TypeOK', TrailInv, TopIs("audio_annotation"), Pop,
           notes' = [notes EXCEPT ![Top.cue] = Top.note], UNCHANGED <<edits, undo>>
    PROVE  PopsExact
  <1>. DEFINE d == past[Len(order)]
  <1>1. /\ order # <<>> /\ Top.source = "audio_annotation" /\ Top.touched = {}
        /\ Top.audio = Nothing
        /\ d \in Documents /\ Retraced(Top, TopHeld, history, Doc, d)
    BY TopFacts DEF TopIs, Shape, Mark
  <1>2. \A a \in Assets : TopHeld[a] = Untouched
    BY <1>1 DEF TopHeld, Nothing
  <1>3. Doc.edits = edits /\ Doc.notes = notes
    BY DEF Doc
  <1>. HIDE DEF d
  <1>4. d.notes = notes' /\ \A a \in Assets : d.edits[a] = edits'[a]
    BY <1>1, <1>2, <1>3 DEF Retraced
  <1>5. Doc' = d
    BY <1>1, <1>4, DocIs
  <1>6. PopAll
    BY <1>1 DEF PopAll
  <1>. QED BY <1>5, <1>6 DEF PopsExact, d

LEMMA UndoRevertAllBack ==
    ASSUME Plain, Base, TypeOK', TrailInv, NEW f, UndoRevertAll(f)
    PROVE  PopsExact
  <1>. DEFINE d == past[Len(order)]
  <1>0. /\ UndoRevertAllReady /\ Pop /\ TopIs("revert_all")
        /\ edits' = RevertAllUndone(edits) /\ notes' = Top.notes
        /\ undo' = [s \in FileSources |->
                      IF s \in Top.touched THEN AllButLast(undo[s]) ELSE undo[s]]
    BY DEF UndoRevertAll, UndoRevertAllReady
  <1>1. /\ order # <<>> /\ Top.source = "revert_all" /\ "audio" \notin Top.touched
        /\ d \in Documents /\ Retraced(Top, TopHeld, history, Doc, d)
    BY <1>0, TopFacts DEF TopIs, Mark
  <1>2. \A a \in Assets : TopHeld[a] = RestoredBy(a)[a]
    BY <1>1 DEF TopHeld, RestoredBy, Nothing
  <1>3. Doc.edits = edits
    BY DEF Doc
  <1>. HIDE DEF d
  <1>4. d.notes = notes' /\ \A a \in Assets : edits'[a] = d.edits[a]
    BY <1>0, <1>1, <1>2, <1>3 DEF Retraced, RevertAllUndone, RevertAllItems
  <1>5. Doc' = d
    BY <1>1, <1>4, DocIs
  <1>6. PopAll
    BY <1>0, <1>1 DEF PopAll, UndoRevertAllReady
  <1>. QED BY <1>5, <1>6 DEF PopsExact, d

-----------------------------------------------------------------------------
(* Every step of the session is one of these *)

ExactStep ==
    \/ UNCHANGED <<undo, order>> /\ Doc' = Doc
    \/ PushesExact
    \/ PopsExact
    \/ \E d \in Archives : OpenProject(d)

LEMMA EditExact ==
    ASSUME Plain, Base, Base', TrailInv, NEW a \in Assets, NEW v \in Payload,
           NEW f \in Outcomes,
           \/ SnapshotFails(a, f) \/ Replace(a, v, f) \/ ReplaceStadium(a, v, f)
           \/ ReplaceAudio(a, v, f) \/ Revert(a, f)
    PROVE  ExactStep
  <1>0. /\ f \notin {"unlink", "preview"} /\ SourceOf[a] \in FileSources
        /\ {a} \in SUBSET Assets /\ {a} \subseteq Of(SourceOf[a])
    BY PlainFaults, SessionAssumption DEF Of
  <1>1. ASSUME NEW num \in Numberings({a}), NEW u, TakeSnapshots({a}, num),
               Stage(a, u, num, f), UNCHANGED notes
        PROVE  ExactStep
    <2>1. \A b \in Assets \ {a} : edits'[b] = edits[b]
      BY <1>1 DEF Stage, Base, LedgerInv, TypeOK, EditMaps
    <2>. QED BY <1>0, <1>1, <2>1, RecordExact DEF Stage, ExactStep
  <1>2. ASSUME Abandon, UNCHANGED <<texts, notes>> PROVE ExactStep
    BY <1>2 DEF Abandon, KeepLedgers, ExactStep, Doc
  <1>3. CASE SnapshotFails(a, f)
    BY <1>3 DEF SnapshotFails, ExactStep, Doc
  <1>4. CASE Replace(a, v, f)
    BY <1>0, <1>1, <1>2, <1>4 DEF Replace
  <1>5. CASE ReplaceStadium(a, v, f)
    BY <1>0, <1>1, <1>2, <1>5 DEF ReplaceStadium
  <1>6. CASE ReplaceAudio(a, v, f)
    BY <1>0, <1>1, <1>2, <1>6 DEF ReplaceAudio
  <1>7. CASE Revert(a, f)
    BY <1>0, <1>1, <1>2, <1>7 DEF Revert
  <1>. QED BY <1>3, <1>4, <1>5, <1>6, <1>7

LEMMA TextNoteExact ==
    ASSUME Plain, Base, TrailInv, NEW v \in Payload, NEW f,
           \/ \E t \in Texts : SetText(t, v, f)
           \/ \E c \in Cues : SetNote(c, v, f)
           \/ \E u \in Colours \cup {None} : SetColours(u)
    PROVE  ExactStep
  <1>1. ASSUME NEW c \in Cues, SetNote(c, v, f) PROVE ExactStep
    <2>1. CASE f = "none"
      BY <1>1, <2>1, NoteExact DEF SetNote, ExactStep
    <2>2. CASE f # "none"
      BY <1>1, <2>2 DEF SetNote, ExactStep, Doc
    <2>. QED BY <2>1, <2>2
  <1>2. CASE \E u \in Colours \cup {None} : SetColours(u)
    BY <1>2 DEF SetColours, ExactStep, Doc
  <1>. QED BY <1>1, <1>2 DEF Plain

LEMMA BatchExact ==
    ASSUME Plain, Base, Base', TrailInv, NEW s \in FileSources,
           NEW rows \in Bundles(s), NEW f \in Outcomes,
           \/ Batch(s, rows, f) \/ BatchRollsBack(s, rows, f)
           \/ BatchRollbackFails(s, rows, f)
    PROVE  ExactStep
  <1>. DEFINE S == Changed(rows)
  <1>0. f # "rollback" /\ S \in SUBSET Assets /\ S \subseteq Of(s)
    BY PlainFaults, BundleFacts
  <1>. HIDE DEF S
  <1>1. CASE Batch(s, rows, f)
    <2>1. PICK num \in Numberings(S) :
            /\ TakeSnapshots(S, num)
            /\ edits' = [a \in Assets |-> IF a \in S THEN rows[a] ELSE edits[a]]
            /\ Record(s, ActionFor(S, num))
      BY <1>1 DEF Batch, S
    <2>2. UNCHANGED notes
      BY <1>1 DEF Batch
    <2>. QED BY <1>0, <2>1, <2>2, RecordExact DEF ExactStep
  <1>2. CASE BatchRollsBack(s, rows, f)
    BY <1>2 DEF BatchRollsBack, ExactStep, Doc
  <1>. QED BY <1>0, <1>1, <1>2 DEF BatchRollbackFails

LEMMA UndoExact ==
    ASSUME Plain, Base, Base', TrailInv, NEW f \in Outcomes,
           \/ UndoAudio(f) \/ UndoAudioFails(f) \/ UndoAudioRollbackFails(f)
           \/ UndoNote(f) \/ UndoText(f)
           \/ \E s \in FileSources \ {"audio"} : UndoFile(s, f) \/ UndoFileFails(s, f)
           \/ UndoRevertAll(f) \/ UndoRevertAllFails(f)
    PROVE  ExactStep
  <1>0. /\ f \in {"none", "snapshot", "manifest", "stage", "validate"}
        /\ f \in {"stage", "validate"} => AllAudio
        /\ TypeOK /\ TypeOK'
    BY PlainFaults DEF Base, LedgerInv
  <1>1. CASE UndoAudio(f)
    BY <1>0, <1>1, UndoFileBack DEF UndoAudio, ExactStep
  <1>2. CASE UndoAudioFails(f) \/ UndoRevertAllFails(f)
    BY <1>2 DEF UndoAudioFails, UndoRevertAllFails, vars, ExactStep, Doc
  <1>3. CASE UndoNote(f)
    <2>1. CASE f = "none"
      BY <1>0, <1>3, <2>1, UndoNoteBack DEF UndoNote, ExactStep
    <2>2. CASE f # "none"
      BY <1>3, <2>2 DEF UndoNote, ExactStep, Doc
    <2>. QED BY <2>1, <2>2
  <1>4. ~TopIs("text")
    BY TopFacts DEF TopIs, Mark
  <1>5. CASE \E s \in FileSources \ {"audio"} : UndoFile(s, f)
    BY <1>0, <1>5, UndoFileBack DEF ExactStep
  <1>7. ASSUME NEW s \in FileSources \ {"audio"} PROVE ~UndoFileFails(s, f)
    <2>. SUFFICES ASSUME UndoFileFails(s, f) PROVE FALSE
      OBVIOUS
    <2>1. AllAudio /\ undo[s] # <<>>
      BY <1>0 DEF UndoFileFails
    <2>2. PICK a \in Assets : LastAction(s)[a] # Untouched
      BY DEF UndoFileFails, Items
    <2>3. Owns(s, LastAction(s))
      <3>1. Len(undo[s]) \in DOMAIN undo[s]
        BY <1>0, <2>1, LastType DEF TypeOK
      <3>. QED BY <3>1 DEF LastAction, TrailInv, Owned
    <2>. QED BY <2>1, <2>2, <2>3 DEF AllAudio, Owns
  <1>6. CASE UndoRevertAll(f)
    BY <1>0, <1>6, UndoRevertAllBack DEF ExactStep
  <1>. QED BY <1>0, <1>1, <1>2, <1>3, <1>4, <1>5, <1>6, <1>7
       DEF UndoText, UndoAudioRollbackFails

LEMMA NextExact ==
    ASSUME Plain, Base, Base', TrailInv, [Next]_vars
    PROVE  ExactStep
  <1>0. "none" \in Outcomes /\ None \in Payload
    BY PayloadNone DEF Outcomes
  <1>1. CASE UNCHANGED vars
    BY <1>1 DEF vars, ExactStep, Doc
  <1>2. CASE \E a \in Assets, v \in Payload, f \in Outcomes :
               \/ SnapshotFails(a, f) \/ Replace(a, v, f) \/ ReplaceStadium(a, v, f)
               \/ ReplaceAudio(a, v, f) \/ Revert(a, f)
    BY <1>2, EditExact
  <1>3. CASE \E v \in Payload, f \in Outcomes :
               \/ \E t \in Texts : SetText(t, v, f)
               \/ \E c \in Cues : SetNote(c, v, f)
               \/ \E u \in Colours \cup {None} : SetColours(u)
    BY <1>3, TextNoteExact
  <1>4. CASE \E s \in {"visual", "audio"} : \E rows \in Bundles(s), f \in Outcomes :
               \/ Batch(s, rows, f) \/ BatchRollsBack(s, rows, f)
               \/ BatchRollbackFails(s, rows, f)
    BY <1>4, BatchExact DEF FileSources
  <1>5. CASE \E f \in Outcomes : RevertAll(f)
    BY <1>5, RevertAllExact DEF ExactStep
  <1>6. CASE \E f \in Outcomes : RevertAllFails(f)
    BY <1>6 DEF RevertAllFails, ExactStep, Doc
  <1>7. CASE \E f \in Outcomes :
               \/ UndoAudio(f) \/ UndoAudioFails(f) \/ UndoAudioRollbackFails(f)
               \/ UndoNote(f) \/ UndoText(f)
               \/ \E s \in FileSources \ {"audio"} : UndoFile(s, f) \/ UndoFileFails(s, f)
               \/ UndoRevertAll(f) \/ UndoRevertAllFails(f)
    BY <1>7, UndoExact
  <1>8. CASE \E d \in Archives : OpenProject(d)
    BY <1>8 DEF ExactStep
  <1>. QED BY <1>0, <1>1, <1>2, <1>3, <1>4, <1>5, <1>6, <1>7, <1>8 DEF Next

-----------------------------------------------------------------------------
(* The trail itself *)

(* What the history variable remembers after each kind of step.            *)
LEMMA RememberFacts ==
    ASSUME TypeOK, TypeOK', TrailInv, Remember
    PROVE  /\ order' = order => past' = past
           /\ \A e \in Entries : order' = Append(order, e) => past' = Append(past, Doc)
           /\ order # <<>> /\ Pop => past' = AllButLast(past)
           /\ order' = <<>> => past' = <<>>
  <1>0. /\ order \in Seq(Entries) /\ Len(order) \in Nat /\ Len(past) = Len(order)
        /\ past \in Seq(Documents)
    BY LenProperties DEF TypeOK, TrailInv
  <1>1. order' = order => past' = past
    <2>1. \A i \in 1..Len(past) : past[i] \in Documents
      BY <1>0, ElementOfSeq
    <2>2. /\ SubSeq(past, 1, Len(past)) \in Seq(Documents)
          /\ Len(SubSeq(past, 1, Len(past))) = Len(past)
          /\ \A i \in 1..Len(past) : SubSeq(past, 1, Len(past))[i] = past[i]
      <3>. DEFINE n == Len(past)
      <3>1. n \in Nat /\ \A i \in 1..n : past[i] \in Documents
        BY <1>0, <2>1
      <3>. HIDE DEF n
      <3>2. /\ SubSeq(past, 1, n) \in Seq(Documents)
            /\ Len(SubSeq(past, 1, n)) = IF 1 <= n THEN n - 1 + 1 ELSE 0
            /\ \A i \in 1..(n - 1 + 1) : SubSeq(past, 1, n)[i] = past[1 + i - 1]
        BY <3>1, SubSeqProperties
      <3>3. /\ SubSeq(past, 1, n) \in Seq(Documents)
            /\ Len(SubSeq(past, 1, n)) = n
            /\ \A i \in 1..n : SubSeq(past, 1, n)[i] = past[i]
        BY <3>1, <3>2
      <3>. QED BY <3>3 DEF n
    <2>3. SubSeq(past, 1, Len(past)) = past
      BY <1>0, <2>2, SeqEqual
    <2>4. ASSUME order' = order PROVE past' = SubSeq(past, 1, Len(past))
      <3>1. ~(Len(order') > Len(order)) /\ Len(order') = Len(past)
        BY <1>0, <2>4
      <3>. QED BY <3>1, Zenon DEF Remember
    <2>. QED BY <2>3, <2>4
  <1>2. ASSUME NEW e \in Entries, order' = Append(order, e)
        PROVE  past' = Append(past, Doc)
    <2>1. Len(order') = Len(order) + 1
      BY <1>0, <1>2, AppendProperties
    <2>. QED BY <1>0, <2>1 DEF Remember
  <1>3. ASSUME order # <<>>, Pop PROVE past' = AllButLast(past)
    <2>1. Len(order') = Len(order) - 1
      BY <1>0, <1>3, AllButLastType DEF Pop
    <2>. QED BY <1>0, <2>1 DEF Remember, AllButLast
  <1>4. ASSUME order' = <<>> PROVE past' = <<>>
    <2>1. Len(order') = 0
      BY <1>4
    <2>2. SubSeq(past, 1, 0) = <<>>
      BY <1>0
    <2>. QED BY <1>0, <2>1, <2>2 DEF Remember
  <1>. QED BY <1>1, <1>2, <1>3, <1>4

LEMMA TrailStep ==
    ASSUME Plain, Base, Base', TrailInv, [TrailNext]_<<vars, past>>
    PROVE  TrailInv' /\ [Project!Next]_(Project!vars)
  <1>0. TypeOK /\ TypeOK' /\ LedgerInv /\ LedgerInv' /\ Doc' \in Documents
    BY DocType DEF Base, LedgerInv, TypeOK, Doc, Documents
  <1>1. CASE UNCHANGED <<vars, past>>
    <2>1. UNCHANGED <<undo, order>> /\ Doc' = Doc /\ past' = past /\ [Next]_vars
      BY <1>1 DEF vars, Doc
    <2>. QED BY <2>1, TrailStill DEF Project!vars
  <1>2. CASE TrailNext
    <2>0. [Next]_vars /\ Remember /\ ExactStep
      BY <1>2, NextExact DEF TrailNext
    <2>1. CASE UNCHANGED <<undo, order>> /\ Doc' = Doc
      <3>1. past' = past
        BY <1>0, <2>0, <2>1, RememberFacts
      <3>. QED BY <2>0, <2>1, <3>1, TrailStill DEF Project!vars
    <2>2. CASE PushesExact
      <3>1. PICK e \in Entries : Shape(e) /\ Mark(e) /\ Push(e)
        BY <2>2 DEF PushesExact
      <3>2. past' = Append(past, Doc)
        BY <1>0, <2>0, <3>1, RememberFacts DEF Push
      <3>3. TrailInv'
        BY <2>0, <2>2, <3>1, <3>2, TrailPush DEF PushesExact
      <3>. QED BY <1>0, <3>2, <3>3 DEF Project!Next, Project!Edit
    <2>3. CASE PopsExact
      <3>1. PopAll /\ Doc' = past[Len(order)] /\ Len(past) = Len(order)
        BY <2>3 DEF PopsExact, TrailInv
      <3>2. past' = AllButLast(past)
        BY <1>0, <2>0, <3>1, RememberFacts DEF PopAll
      <3>3. Owned'
        BY <1>0, <3>1, OwnedCut DEF TrailInv
      <3>4. TrailInv'
        BY <2>0, <3>1, <3>2, <3>3, TrailPop
      <3>5. past # <<>>
        <4>1. Len(order) # 0
          BY <1>0, <3>1, EmptySeq DEF PopAll, TypeOK
        <4>. QED BY <3>1, <4>1
      <3>. QED BY <3>1, <3>2, <3>4, <3>5 DEF Project!Next, Project!Undo, AllButLast
    <2>4. ASSUME NEW d \in Archives, OpenProject(d)
          PROVE  TrailInv' /\ [Project!Next]_(Project!vars)
      <3>1. Emptied /\ past' = <<>>
        BY <1>0, <2>0, <2>4, RememberFacts DEF OpenProject, Emptied
      <3>2. TrailInv'
        BY <3>1, TrailEmptied
      <3>3. d \in Documents
        BY SessionAssumption DEF Documents
      <3>4. Doc' = d
        BY <2>4, <3>3 DEF OpenProject, Doc, Documents
      <3>5. [doc |-> d, past |-> <<>>] \in Opened
        BY DEF Opened
      <3>6. Project!Open
        BY <3>1, <3>4, <3>5 DEF Project!Open
      <3>. QED BY <3>2, <3>6 DEF Project!Next
    <2>. QED BY <2>0, <2>1, <2>2, <2>3, <2>4 DEF ExactStep
  <1>. QED BY <1>1, <1>2

LEMMA TrailInitially == TrailInit => Init /\ TrailInv /\ Project!Init
  <1>. SUFFICES ASSUME TrailInit PROVE Init /\ TrailInv /\ Project!Init
    OBVIOUS
  <1>1. Init /\ past = <<>>
    BY DEF TrailInit
  <1>2. TrailInv
    BY <1>1, EmptySeq DEF TrailInv, Init, Owned
  <1>3. Doc = NoDocument
    BY <1>1 DEF Init, Doc, NoDocument
  <1>. QED BY <1>1, <1>2, <1>3 DEF Project!Init

(* The history variable observes the session and does not steer it.        *)
LEMMA TrailIsSession == TrailSpec => Spec
  <1>1. TrailInit => Init
    BY DEF TrailInit
  <1>2. [TrailNext]_<<vars, past>> => [Next]_vars
    BY DEF TrailNext
  <1>. QED BY <1>1, <1>2, PTL DEF TrailSpec, Spec

THEOREM TrailInvariant == Plain /\ TrailSpec => [](Base /\ TrailInv)
  <1>. SUFFICES ASSUME Plain PROVE TrailSpec => [](Base /\ TrailInv)
    OBVIOUS
  <1>1. TrailSpec => []Base
    <2>1. FilesFollow /\ "unlink" \notin Faults /\ "purge" \notin Faults
      BY PlainFaults
    <2>2. Spec => []LedgerInv /\ []FilesAreEdits
      BY <2>1, LedgerInvariant, FilesExact
    <2>3. SnapInv /\ LedgerInv /\ FilesAreEdits => Base
      BY DEF Base
    <2>. QED BY <2>2, <2>3, TrailIsSession, SnapInvariant, PTL
  <1>2. Base /\ Base' /\ TrailInv /\ [TrailNext]_<<vars, past>> => TrailInv'
    BY TrailStep
  <1>. QED BY <1>1, <1>2, TrailInitially, PTL DEF TrailSpec

(* For any mix of edits of every editor, batches, labels and Revert All,   *)
(* and whichever snapshot or manifest write fails on the way (in a session *)
(* of sounds, whichever copy or check as well), undoing a record restores  *)
(* exactly the document it was pushed on.                                  *)
THEOREM SessionUndoesExactly == Plain /\ TrailSpec => UndoIsExact
  <1>. SUFFICES ASSUME Plain PROVE TrailSpec => UndoIsExact
    OBVIOUS
  <1>1. TrailSpec => [](Base /\ TrailInv)
    BY TrailInvariant
  <1>2. Base /\ Base' /\ TrailInv /\ [TrailNext]_<<vars, past>> =>
          [Project!Next]_(Project!vars)
    BY TrailStep
  <1>. QED BY <1>1, <1>2, TrailInitially, PTL DEF TrailSpec, UndoIsExact, Project!Spec

(* Under the same failures, and with no uniform colours to stand in a      *)
(* Revert All's way, the record on top can always be undone.               *)
THEOREM UndoAlwaysReady == Plain /\ Colours = {} /\ TrailSpec => []UndoReady
  <1>. SUFFICES ASSUME Plain, Colours = {} PROVE TrailSpec => []UndoReady
    OBVIOUS
  <1>1. Base /\ TrailInv => UndoReady
    <2>. SUFFICES ASSUME Base, TrailInv, order # <<>> PROVE UndoReady
      BY DEF UndoReady
    <2>0. TypeOK /\ LedgerInv /\ FilesAreEdits /\ Len(order) \in DOMAIN order
      BY LastType DEF Base, LedgerInv, TypeOK
    <2>1. /\ Mark(Top) /\ Shape(Top) /\ Top \in Entries
          /\ Retraced(Top, TopHeld, history, Doc, past[Len(order)])
      BY <2>0, TopFacts, LastType DEF Top, TypeOK
    <2>2. \A s \in Top.touched : s \in FileSources /\ undo[s] # <<>>
      <3>. SUFFICES ASSUME NEW s \in Top.touched PROVE s \in FileSources /\ undo[s] # <<>>
        OBVIOUS
      <3>1. s \in FileSources
        BY <2>1 DEF Entries
      <3>2. Pos(Len(order), s) \in DOMAIN undo[s]
        BY <2>0, <3>1, PosFacts DEF Top
      <3>. QED BY <3>1, <3>2
    <2>3. CASE Top.source = "revert_all"
      <3>1. /\ edits = NoEdits /\ notes = NoNotes
            /\ \A a \in Assets : TopHeld[a] # NoSnapshot
        BY <2>1, <2>3 DEF Retraced, Doc
      <3>2. ~HasText /\ colours = None
        <4>1. texts \in TextMaps /\ NoTexts \in TextMaps
          BY <2>0, EmptyMaps DEF TypeOK
        <4>. QED BY <2>0, <4>1, OneText DEF HasText, TypeOK
      <3>3. UndoRevertAllReady
        BY <2>2, <2>3, <3>1, <3>2 DEF UndoRevertAllReady, TopIs, Clean
      <3>4. \A a \in Assets : TopHeld[a] = RestoredBy(a)[a]
        BY <2>1, <2>3 DEF TopHeld, RestoredBy, Nothing, Mark
      <3>5. \A a \in RevertAllItems : RestoredBy(a)[a] # NoSnapshot /\ files[a] = None
        BY <2>0, <3>1, <3>4 DEF RevertAllItems, FilesAreEdits, NoEdits
      <3>. QED BY <2>3, <3>3, <3>5 DEF UndoReady
    <2>4. CASE Top.source \in FileSources
      <3>1. undo[Top.source] # <<>>
        BY <2>1, <2>2, <2>4 DEF Shape
      <3>2. \A a \in Assets : files[a] = edits[a]
        BY <2>0 DEF FilesAreEdits
      <3>. QED BY <2>4, <3>1, <3>2 DEF UndoReady, Items, FileSources
    <2>5. CASE Top.source = "audio_annotation"
      BY <2>5 DEF UndoReady
    <2>6. Top.source \in FileSources \cup {"audio_annotation", "revert_all"}
      BY <2>1 DEF Entries, Mark
    <2>. QED BY <2>3, <2>4, <2>5, <2>6
  <1>. QED BY <1>1, TrailInvariant, PTL

=============================================================================
