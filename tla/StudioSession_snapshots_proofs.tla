-------------------- MODULE StudioSession_snapshots_proofs --------------------
(***************************************************************************)
(* The history directory of the session never lets an undo down: for every *)
(* set of assets, every kind of failure and any number of steps, each      *)
(* snapshot a record names exists and belongs to that record alone.        *)
(*                                                                         *)
(* The two facts are inductive together, with the types: removing the      *)
(* snapshots an undo consumed is harmless because no other record shares   *)
(* them, and a new snapshot is nobody else's because its number is beyond  *)
(* the sequence that bounds every number in use.                           *)
(***************************************************************************)
EXTENDS StudioSession_proofs

SnapInv == TypeOK /\ SnapshotsKept /\ SnapshotsUnshared

(* Asset a of action i in ledger h is to be restored from snapshot n.      *)
Holds(h, i, a, n) ==
    /\ h \in Ledgers /\ i \in DOMAIN Ledger(h) /\ a \in Assets
    /\ n \in SnapIds /\ Ledger(h)[i][a] = n

LEMMA KeptByHolds ==
    SnapshotsKept <=>
      \A h, i, a, n : Holds(h, i, a, n) => n <= seq /\ history[n] # None
  BY DEF SnapshotsKept, Holds

LEMMA UnsharedByHolds ==
    SnapshotsUnshared <=>
      \A g, h, i, j, a, b, n : Holds(g, i, a, n) /\ Holds(h, j, b, n) =>
                                 g = h /\ i = j /\ a = b
  <1>1. ASSUME SnapshotsUnshared,
               NEW g, NEW h, NEW i, NEW j, NEW a, NEW b, NEW n,
               Holds(g, i, a, n), Holds(h, j, b, n)
        PROVE  g = h /\ i = j /\ a = b
    <2>1. /\ g \in Ledgers /\ i \in DOMAIN Ledger(g) /\ a \in Assets
          /\ h \in Ledgers /\ j \in DOMAIN Ledger(h) /\ b \in Assets
          /\ Ledger(g)[i][a] \in SnapIds /\ Ledger(g)[i][a] = Ledger(h)[j][b]
      BY <1>1 DEF Holds
    <2>. QED BY <1>1, <2>1 DEF SnapshotsUnshared
  <1>2. ASSUME \A g, h, i, j, a, b, n : Holds(g, i, a, n) /\ Holds(h, j, b, n) =>
                                           g = h /\ i = j /\ a = b
        PROVE  SnapshotsUnshared
    <2>. SUFFICES ASSUME NEW g \in Ledgers, NEW h \in Ledgers,
                         NEW i \in DOMAIN Ledger(g), NEW j \in DOMAIN Ledger(h),
                         NEW a \in Assets, NEW b \in Assets,
                         Ledger(g)[i][a] \in SnapIds,
                         Ledger(g)[i][a] = Ledger(h)[j][b]
                  PROVE  g = h /\ i = j /\ a = b
      BY DEF SnapshotsUnshared
    <2>1. Holds(g, i, a, Ledger(g)[i][a]) /\ Holds(h, j, b, Ledger(g)[i][a])
      BY DEF Holds
    <2>. QED BY <1>2, <2>1
  <1>. QED BY <1>1, <1>2

(* A step keeps the invariant if every number it leaves in a ledger was    *)
(* there with its content, or is fresh, has content and is held once.      *)
LEMMA KeepsSnapshots ==
    ASSUME SnapInv, TypeOK', seq <= seq',
           \A h, i, a, n : Holds(h, i, a, n)' =>
             \/ Holds(h, i, a, n) /\ history'[n] = history[n]
             \/ seq < n /\ n <= seq' /\ history'[n] # None,
           \A g, h, i, j, a, b, n :
             Holds(g, i, a, n)' /\ Holds(h, j, b, n)' /\ seq < n =>
               g = h /\ i = j /\ a = b
    PROVE  SnapInv'
  <1>1. \A h, i, a, n : Holds(h, i, a, n) => n <= seq /\ history[n] # None
    BY KeptByHolds DEF SnapInv
  <1>2. \A g, h, i, j, a, b, n : Holds(g, i, a, n) /\ Holds(h, j, b, n) =>
                                   g = h /\ i = j /\ a = b
    BY UnsharedByHolds DEF SnapInv
  <1>3. seq \in Nat /\ seq' \in Nat
    BY SessionAssumption DEF SnapInv, TypeOK
  <1>4. \A h, i, a, n : Holds(h, i, a, n)' => n \in Nat
    BY SessionAssumption DEF Holds, SnapIds
  <1>5. ASSUME NEW h, NEW i, NEW a, NEW n, Holds(h, i, a, n)'
        PROVE  n <= seq' /\ history'[n] # None
    BY <1>1, <1>3, <1>4, <1>5
  <1>6. ASSUME NEW g, NEW h, NEW i, NEW j, NEW a, NEW b, NEW n,
               Holds(g, i, a, n)', Holds(h, j, b, n)'
        PROVE  g = h /\ i = j /\ a = b
    <2>1. CASE seq < n
      BY <1>6, <2>1
    <2>2. CASE ~(seq < n)
      BY <1>2, <1>6, <2>2
    <2>. QED BY <2>1, <2>2
  <1>7. SnapshotsKept'
    <2>. SUFFICES ASSUME NEW h \in Ledgers, NEW i \in (DOMAIN Ledger(h))', NEW a \in Assets,
                         (Ledger(h)[i][a])' \in SnapIds
                  PROVE  (Ledger(h)[i][a])' <= seq' /\ (history[Ledger(h)[i][a]])' # None
      BY DEF SnapshotsKept, SnapIds, Ledgers
    <2>1. Holds(h, i, a, Ledger(h)[i][a])'
      BY DEF Holds, Ledgers, SnapIds
    <2>. QED BY <1>5, <2>1
  <1>8. SnapshotsUnshared'
    <2>. SUFFICES ASSUME NEW g \in Ledgers, NEW h \in Ledgers,
                         NEW i \in (DOMAIN Ledger(g))', NEW j \in (DOMAIN Ledger(h))',
                         NEW a \in Assets, NEW b \in Assets,
                         (Ledger(g)[i][a])' \in SnapIds,
                         (Ledger(g)[i][a])' = (Ledger(h)[j][b])'
                  PROVE  g = h /\ i = j /\ a = b
      BY DEF SnapshotsUnshared, SnapIds, Ledgers
    <2>1. Holds(g, i, a, Ledger(g)[i][a])' /\ Holds(h, j, b, Ledger(g)[i][a])'
      BY DEF Holds, Ledgers, SnapIds
    <2>. QED BY <1>6, <2>1
  <1>. QED BY <1>7, <1>8 DEF SnapInv

-----------------------------------------------------------------------------
(* The ways a step treats the ledgers *)

LEMMA LedgersStill ==
    ASSUME SnapInv, TypeOK', UNCHANGED <<undo, order>>, seq <= seq',
           \A n \in SnapIds : n <= seq => history'[n] = history[n]
    PROVE  SnapInv'
  <1>1. \A h, i, a, n : Holds(h, i, a, n)' => Holds(h, i, a, n)
    BY DEF Holds, Ledger, Ledgers, SnapIds
  <1>2. \A h, i, a, n : Holds(h, i, a, n) => n <= seq /\ n \in SnapIds
    BY KeptByHolds DEF SnapInv, Holds
  <1>3. seq \in Nat /\ \A n \in SnapIds : n \in Nat
    BY SessionAssumption DEF SnapInv, TypeOK, SnapIds
  <1>4. \A h, i, a, n : Holds(h, i, a, n)' => Holds(h, i, a, n) /\ history'[n] = history[n]
    BY <1>1, <1>2
  <1>5. \A h, i, a, n : Holds(h, i, a, n)' => ~(seq < n)
    BY <1>1, <1>2, <1>3
  <1>. QED BY <1>4, <1>5, KeepsSnapshots

(* Records are dropped from the ends, and only what they held is removed.  *)
LEMMA LedgersCut ==
    ASSUME SnapInv, TypeOK', seq' = seq,
           \A h \in Ledgers : \A i \in (DOMAIN Ledger(h))' :
             i \in DOMAIN Ledger(h) /\ (Ledger(h)[i])' = Ledger(h)[i],
           \A n \in SnapIds :
             \/ history'[n] = history[n]
             \/ \E g \in Ledgers : \E j \in DOMAIN Ledger(g), b \in Assets :
                  j \notin (DOMAIN Ledger(g))' /\ Ledger(g)[j][b] = n
    PROVE  SnapInv'
  <1>1. ASSUME NEW h, NEW i, NEW a, NEW n, Holds(h, i, a, n)'
        PROVE  Holds(h, i, a, n) /\ history'[n] = history[n]
    <2>1. /\ h \in Ledgers /\ i \in (DOMAIN Ledger(h))' /\ a \in Assets
          /\ n \in SnapIds /\ (Ledger(h)[i][a])' = n
      BY <1>1 DEF Holds, Ledgers, SnapIds
    <2>2. i \in DOMAIN Ledger(h) /\ (Ledger(h)[i])' = Ledger(h)[i]
      BY <2>1
    <2>3. Holds(h, i, a, n)
      BY <2>1, <2>2 DEF Holds
    <2>4. ASSUME NEW g \in Ledgers, NEW j \in DOMAIN Ledger(g), NEW b \in Assets,
                 j \notin (DOMAIN Ledger(g))', Ledger(g)[j][b] = n
          PROVE  FALSE
      <3>1. Holds(g, j, b, n)
        BY <2>1, <2>4 DEF Holds
      <3>2. g = h /\ j = i
        BY <2>3, <3>1, UnsharedByHolds DEF SnapInv
      <3>. QED BY <2>1, <2>4, <3>2
    <2>. QED BY <2>1, <2>3, <2>4
  <1>2. \A h, i, a, n : Holds(h, i, a, n) => n <= seq /\ n \in SnapIds
    BY KeptByHolds DEF SnapInv, Holds
  <1>3. seq \in Nat /\ \A n \in SnapIds : n \in Nat
    BY SessionAssumption DEF SnapInv, TypeOK, SnapIds
  <1>4. \A h, i, a, n : Holds(h, i, a, n)' => ~(seq < n)
    BY <1>1, <1>2, <1>3
  <1>5. seq <= seq'
    BY <1>3
  <1>. QED BY <1>1, <1>4, <1>5, KeepsSnapshots

(* Actions made of fresh snapshots of S are appended, each asset in one.   *)
LEMMA LedgersGrow ==
    ASSUME SnapInv, TypeOK', NEW S \in SUBSET Assets, NEW num \in Numberings(S),
           TakeSnapshots(S, num),
           \A h \in Ledgers : \A i \in (DOMAIN Ledger(h))' :
             IF i \in DOMAIN Ledger(h) THEN (Ledger(h)[i])' = Ledger(h)[i]
             ELSE \A a \in Assets : (Ledger(h)[i][a])' \in SnapIds =>
                    a \in Edited(S) /\ (Ledger(h)[i][a])' = num[a],
           \A g, h \in Ledgers :
             \A i \in (DOMAIN Ledger(g))' \ DOMAIN Ledger(g),
                j \in (DOMAIN Ledger(h))' \ DOMAIN Ledger(h), a \in Assets :
               (Ledger(g)[i][a])' \in SnapIds /\ (Ledger(h)[j][a])' \in SnapIds =>
                 g = h /\ i = j
    PROVE  SnapInv'
  <1>. DEFINE Fresh(h, i) == i \in (DOMAIN Ledger(h))' \ DOMAIN Ledger(h)
  <1>1. /\ Cardinality(Edited(S)) \in Nat
        /\ \A a \in Edited(S) :
             /\ num[a] \in SnapIds
             /\ seq < num[a]
             /\ num[a] <= seq + Cardinality(Edited(S))
        /\ \A a, b \in Edited(S) : num[a] = num[b] => a = b
        /\ CanCopy(S)
    BY NumberingFacts DEF SnapInv, TakeSnapshots
  <1>2. /\ \A a \in Edited(S) : history'[num[a]] = files[a] /\ files[a] # None
        /\ \A n \in SnapIds : n <= seq => history'[n] = history[n]
    BY <1>1, CopiedContent DEF SnapInv, TakeSnapshots, CanCopy
  <1>3. seq' = seq + Cardinality(Edited(S)) /\ seq \in Nat
    BY SessionAssumption DEF TakeSnapshots, SnapInv, TypeOK
  <1>4. \A h, i, a, n : Holds(h, i, a, n) => n <= seq /\ n \in SnapIds /\ n \in Nat
    BY KeptByHolds, SessionAssumption DEF SnapInv, Holds, SnapIds
  <1>5. ASSUME NEW h, NEW i, NEW a, NEW n, Holds(h, i, a, n)'
        PROVE  \/ Holds(h, i, a, n) /\ history'[n] = history[n] /\ ~(seq < n)
               \/ /\ seq < n /\ n <= seq' /\ history'[n] # None
                  /\ a \in Edited(S) /\ num[a] = n /\ Fresh(h, i)
    <2>1. /\ h \in Ledgers /\ i \in (DOMAIN Ledger(h))' /\ a \in Assets
          /\ n \in SnapIds /\ (Ledger(h)[i][a])' = n
      BY <1>5 DEF Holds, Ledgers, SnapIds
    <2>2. CASE i \in DOMAIN Ledger(h)
      <3>1. Holds(h, i, a, n)
        BY <2>1, <2>2 DEF Holds
      <3>. QED BY <1>2, <1>3, <1>4, <3>1
    <2>3. CASE i \notin DOMAIN Ledger(h)
      <3>1. Fresh(h, i) /\ a \in Edited(S) /\ num[a] = n
        BY <2>1, <2>3
      <3>. QED BY <1>1, <1>2, <1>3, <3>1
    <2>. QED BY <2>2, <2>3
  <1>6. ASSUME NEW g, NEW h, NEW i, NEW j, NEW a, NEW b, NEW n,
               Holds(g, i, a, n)', Holds(h, j, b, n)', seq < n
        PROVE  g = h /\ i = j /\ a = b
    <2>1. /\ a \in Edited(S) /\ num[a] = n /\ Fresh(g, i)
          /\ b \in Edited(S) /\ num[b] = n /\ Fresh(h, j)
      BY <1>5, <1>6
    <2>2. a = b
      BY <1>1, <2>1
    <2>3. /\ g \in Ledgers /\ h \in Ledgers /\ a \in Assets
          /\ (Ledger(g)[i][a])' \in SnapIds /\ (Ledger(h)[j][a])' \in SnapIds
      BY <1>6, <2>2 DEF Holds, Ledgers, SnapIds
    <2>. QED BY <2>1, <2>2, <2>3
  <1>7. seq <= seq'
    BY <1>1, <1>3
  <1>8. \A h, i, a, n : Holds(h, i, a, n)' =>
             \/ Holds(h, i, a, n) /\ history'[n] = history[n]
             \/ seq < n /\ n <= seq' /\ history'[n] # None
    BY <1>5
  <1>. QED BY <1>6, <1>7, <1>8, KeepsSnapshots

-----------------------------------------------------------------------------
(* The ledgers after the steps' assignments *)

LEMMA AppendFacts ==
    ASSUME NEW S, NEW q \in Seq(S), NEW e \in S
    PROVE  /\ DOMAIN q = 1..Len(q) /\ Len(q) \in Nat
           /\ DOMAIN Append(q, e) = 1..(Len(q) + 1)
           /\ \A i \in 1..Len(q) : Append(q, e)[i] = q[i]
           /\ Append(q, e)[Len(q) + 1] = e
           /\ \A i \in DOMAIN Append(q, e) : i \notin DOMAIN q => i = Len(q) + 1
  <1>1. DOMAIN q = 1..Len(q) /\ Len(q) \in Nat
    BY LenProperties
  <1>2. /\ Append(q, e) \in Seq(S) /\ Len(Append(q, e)) = Len(q) + 1
        /\ \A i \in 1..Len(q) : Append(q, e)[i] = q[i]
        /\ Append(q, e)[Len(q) + 1] = e
    BY AppendProperties
  <1>3. DOMAIN Append(q, e) = 1..(Len(q) + 1)
    BY <1>2, LenProperties
  <1>. QED BY <1>1, <1>2, <1>3

LEMMA CutFacts ==
    ASSUME NEW S, NEW q \in Seq(S), q # <<>>
    PROVE  /\ Len(q) \in DOMAIN q /\ Len(q) \notin DOMAIN AllButLast(q)
           /\ \A i \in DOMAIN AllButLast(q) : i \in DOMAIN q /\ AllButLast(q)[i] = q[i]
  <1>1. /\ AllButLast(q) \in Seq(S) /\ Len(AllButLast(q)) = Len(q) - 1
        /\ \A i \in 1..(Len(q) - 1) : AllButLast(q)[i] = q[i]
    BY AllButLastType
  <1>2. Len(q) \in Nat \ {0} /\ DOMAIN q = 1..Len(q)
    BY LenProperties, EmptySeq
  <1>3. DOMAIN AllButLast(q) = 1..(Len(q) - 1)
    BY <1>1, LenProperties
  <1>. QED BY <1>1, <1>2, <1>3

LEMMA StackLedger ==
    ASSUME NEW s \in FileSources
    PROVE  s \in Ledgers /\ Ledger(s) = undo[s] /\ s # "revert_all"
  BY DEF Ledger, Ledgers, FileSources

(* A record without audio snapshots on the undo order.                     *)
LEMMA OrderGrows ==
    ASSUME SnapInv, TypeOK', NEW e \in Entries, e.audio = Nothing,
           order' = Append(order, e), UNCHANGED <<undo, history, seq>>
    PROVE  SnapInv'
  <1>1. /\ DOMAIN order' = 1..(Len(order) + 1) /\ DOMAIN order = 1..Len(order)
        /\ \A i \in DOMAIN order : order'[i] = order[i]
        /\ \A i \in DOMAIN order' : i \notin DOMAIN order => order'[i].audio = Nothing
    BY AppendFacts DEF SnapInv, TypeOK
  <1>2. ASSUME NEW h, NEW i, NEW a, NEW n, Holds(h, i, a, n)'
        PROVE  Holds(h, i, a, n)
    <2>1. /\ h \in Ledgers /\ i \in (DOMAIN Ledger(h))' /\ a \in Assets
          /\ n \in SnapIds /\ (Ledger(h)[i][a])' = n
      BY <1>2 DEF Holds, Ledgers, SnapIds
    <2>2. CASE h # "revert_all"
      BY <2>1, <2>2 DEF Holds, Ledger
    <2>3. CASE h = "revert_all"
      <3>1. i \in DOMAIN order' /\ order'[i].audio[a] = n
        BY <2>1, <2>3 DEF Ledger
      <3>2. i \in DOMAIN order
        BY <1>1, <2>1, <3>1, SessionAssumption DEF Nothing, Untouched, SnapIds
      <3>. QED BY <1>1, <2>1, <2>3, <3>1, <3>2 DEF Holds, Ledger
    <2>. QED BY <2>2, <2>3
  <1>3. \A h, i, a, n : Holds(h, i, a, n) => n <= seq /\ n \in SnapIds
    BY KeptByHolds DEF SnapInv, Holds
  <1>4. seq \in Nat /\ \A n \in SnapIds : n \in Nat
    BY SessionAssumption DEF SnapInv, TypeOK, SnapIds
  <1>5. \A h, i, a, n : Holds(h, i, a, n)' => ~(seq < n)
    BY <1>2, <1>3, <1>4
  <1>6. seq <= seq'
    BY <1>4
  <1>. QED BY <1>2, <1>5, <1>6, KeepsSnapshots

(* Pushing the record of a single edit or of a batch.                      *)
LEMMA RecordGrows ==
    ASSUME SnapInv, TypeOK', NEW S \in SUBSET Assets, NEW num \in Numberings(S),
           TakeSnapshots(S, num), NEW s \in FileSources, Record(s, ActionFor(S, num))
    PROVE  SnapInv'
  <1>1. ActionFor(S, num) \in UndoActions
    BY SnapshotsType DEF SnapInv
  <1>2. Entry(s, {s}) \in Entries
    BY EntryType
  <1>3. /\ undo' = [undo EXCEPT ![s] = Append(@, ActionFor(S, num))]
        /\ order' = Append(order, Entry(s, {s}))
        /\ undo \in [FileSources -> Seq(UndoActions)] /\ order \in Seq(Entries)
    BY DEF Record, SnapInv, TypeOK
  <1>4. \A a \in Assets : ActionFor(S, num)[a] \in SnapIds =>
          a \in Edited(S) /\ ActionFor(S, num)[a] = num[a]
    BY SessionAssumption DEF ActionFor, Edited, SnapIds, Untouched, NoSnapshot
  <1>5. \A a \in Assets : Entry(s, {s}).audio[a] \notin SnapIds
    BY SessionAssumption DEF Entry, Nothing, Untouched, SnapIds
  <1>6. \A i \in DOMAIN order' :
          IF i \in DOMAIN order THEN order'[i] = order[i]
          ELSE \A a \in Assets : order'[i].audio[a] \notin SnapIds
    <2>. DEFINE e == Entry(s, {s})
    <2>1. e \in Entries /\ order' = Append(order, e) /\ order \in Seq(Entries)
      BY <1>2, <1>3
    <2>2. \A a \in Assets : e.audio[a] \notin SnapIds
      BY <1>5
    <2>. HIDE DEF e
    <2>3. \A i \in DOMAIN order' : IF i \in DOMAIN order THEN order'[i] = order[i]
                                                       ELSE order'[i] = e
      BY <2>1, AppendFacts
    <2>. QED BY <2>2, <2>3
  <1>7. \A i \in DOMAIN undo'[s] :
          IF i \in DOMAIN undo[s] THEN undo'[s][i] = undo[s][i]
          ELSE i = Len(undo[s]) + 1 /\ undo'[s][i] = ActionFor(S, num)
    BY <1>1, <1>3, AppendFacts
  <1>8. \A h \in Ledgers : h = s \/ h = "revert_all" \/
          (h \in FileSources /\ (Ledger(h))' = Ledger(h))
    BY <1>3, StackLedger DEF Ledgers, Ledger
  <1>9. Ledger(s) = undo[s] /\ (Ledger(s))' = undo'[s] /\ s # "revert_all"
    BY StackLedger DEF Ledger
  <1>10. /\ DOMAIN Ledger("revert_all") = DOMAIN order
         /\ (DOMAIN Ledger("revert_all"))' = DOMAIN order'
         /\ \A i \in DOMAIN order : Ledger("revert_all")[i] = order[i].audio
         /\ \A i \in DOMAIN order' : (Ledger("revert_all")[i])' = order'[i].audio
    BY DEF Ledger
  <1>11. ASSUME NEW h \in Ledgers, NEW i \in (DOMAIN Ledger(h))'
         PROVE  IF i \in DOMAIN Ledger(h) THEN (Ledger(h)[i])' = Ledger(h)[i]
                ELSE \A a \in Assets : (Ledger(h)[i][a])' \in SnapIds =>
                       /\ a \in Edited(S) /\ (Ledger(h)[i][a])' = num[a]
                       /\ h = s /\ i = Len(undo[s]) + 1
    <2>1. CASE h = s
      BY <1>4, <1>7, <1>9, <2>1 DEF SnapIds
    <2>2. CASE h = "revert_all"
      BY <1>6, <1>10, <2>2 DEF SnapIds
    <2>3. CASE h # s /\ h # "revert_all"
      BY <1>8, <2>3
    <2>. QED BY <2>1, <2>2, <2>3
  <1>. QED BY <1>11, LedgersGrow

(* Pushing a Revert All: one action per editor, audio in the undo order.   *)
LEMMA RevertAllGrows ==
    ASSUME SnapInv, TypeOK', NEW num \in Numberings(Assets), TakeSnapshots(Assets, num),
           undo' = [s \in FileSources |->
                      IF s \in RevertedStacks THEN Append(undo[s], Part(s, num))
                                             ELSE undo[s]],
           order' = Append(order, RevertAllEntry(num))
    PROVE  SnapInv'
  <1>1. \A s : Part(s, num) \in UndoActions
    BY PartType DEF SnapInv, TakeSnapshots
  <1>2. RevertAllEntry(num) \in Entries /\ RevertAllEntry(num).audio = Part("audio", num)
    <2>1. RevertedStacks \in SUBSET FileSources
      BY DEF RevertedStacks
    <2>2. Entry("revert_all", RevertedStacks) \in Entries
      BY <2>1, EntryType
    <2>. QED BY <1>1, <2>2 DEF RevertAllEntry, Entries, SnapInv, TypeOK
  <1>3. \A s, a : a \in Assets /\ Part(s, num)[a] \in SnapIds =>
          a \in Edited(Assets) /\ a \in Of(s) /\ Part(s, num)[a] = num[a]
    BY SessionAssumption DEF Part, Edited, Of, SnapIds, Untouched
  <1>4. undo \in [FileSources -> Seq(UndoActions)] /\ order \in Seq(Entries)
    BY DEF SnapInv, TypeOK
  <1>5. \A s \in FileSources : \A i \in DOMAIN undo'[s] :
          IF i \in DOMAIN undo[s] THEN undo'[s][i] = undo[s][i]
          ELSE s \in RevertedStacks /\ i = Len(undo[s]) + 1 /\ undo'[s][i] = Part(s, num)
    <2>. SUFFICES ASSUME NEW s \in FileSources, NEW i \in DOMAIN undo'[s]
                  PROVE  IF i \in DOMAIN undo[s] THEN undo'[s][i] = undo[s][i]
                         ELSE /\ s \in RevertedStacks /\ i = Len(undo[s]) + 1
                              /\ undo'[s][i] = Part(s, num)
      OBVIOUS
    <2>1. undo[s] \in Seq(UndoActions) /\ Part(s, num) \in UndoActions
      BY <1>1, <1>4
    <2>2. CASE s \in RevertedStacks
      <3>1. undo'[s] = Append(undo[s], Part(s, num))
        BY <2>2
      <3>. QED BY <2>1, <2>2, <3>1, AppendFacts
    <2>3. CASE s \notin RevertedStacks
      BY <2>3
    <2>. QED BY <2>2, <2>3
  <1>6. \A i \in DOMAIN order' :
          IF i \in DOMAIN order THEN order'[i] = order[i]
          ELSE i = Len(order) + 1 /\ order'[i].audio = Part("audio", num)
    <2>. DEFINE e == RevertAllEntry(num)
    <2>1. e \in Entries /\ e.audio = Part("audio", num) /\ order' = Append(order, e)
      BY <1>2
    <2>. HIDE DEF e
    <2>2. \A i \in DOMAIN order' : IF i \in DOMAIN order THEN order'[i] = order[i]
                                   ELSE i = Len(order) + 1 /\ order'[i] = e
      BY <1>4, <2>1, AppendFacts
    <2>. QED BY <2>1, <2>2
  <1>7. "audio" \notin RevertedStacks /\ "revert_all" \notin FileSources
        /\ Ledgers = FileSources \cup {"revert_all"}
    BY DEF RevertedStacks, FileSources, Ledgers
  <1>8. ASSUME NEW h \in Ledgers, NEW i \in (DOMAIN Ledger(h))'
        PROVE  IF i \in DOMAIN Ledger(h) THEN (Ledger(h)[i])' = Ledger(h)[i]
               ELSE \A a \in Assets : (Ledger(h)[i][a])' \in SnapIds =>
                      /\ a \in Edited(Assets) /\ (Ledger(h)[i][a])' = num[a]
                      /\ \/ h = "revert_all" /\ i = Len(order) + 1 /\ a \in Of("audio")
                         \/ h \in RevertedStacks /\ i = Len(undo[h]) + 1 /\ a \in Of(h)
    <2>1. CASE h = "revert_all"
      <3>1. /\ DOMAIN Ledger(h) = DOMAIN order /\ (DOMAIN Ledger(h))' = DOMAIN order'
            /\ \A j \in DOMAIN order : Ledger(h)[j] = order[j].audio
            /\ \A j \in DOMAIN order' : (Ledger(h)[j])' = order'[j].audio
        BY <2>1 DEF Ledger
      <3>. QED BY <1>3, <1>6, <2>1, <3>1 DEF SnapIds
    <2>2. CASE h \in FileSources
      <3>1. Ledger(h) = undo[h] /\ (Ledger(h))' = undo'[h]
        BY <1>7, <2>2 DEF Ledger
      <3>. QED BY <1>3, <1>5, <2>2, <3>1 DEF SnapIds
    <2>. QED BY <1>7, <2>1, <2>2
  <1>9. \A g, h \in Ledgers :
          \A i \in (DOMAIN Ledger(g))' \ DOMAIN Ledger(g),
             j \in (DOMAIN Ledger(h))' \ DOMAIN Ledger(h), a \in Assets :
            (Ledger(g)[i][a])' \in SnapIds /\ (Ledger(h)[j][a])' \in SnapIds =>
              g = h /\ i = j
    BY <1>7, <1>8 DEF Of
  <1>. QED BY <1>8, <1>9, LedgersGrow

-----------------------------------------------------------------------------
(* Undo *)

(* Undoing a record that keeps no snapshots of its own in the order.       *)
LEMMA OrderCut ==
    ASSUME SnapInv, TypeOK', NEW source, TopIs(source), Pop,
           UNCHANGED <<undo, history, seq>>
    PROVE  SnapInv'
  <1>1. /\ order # <<>> /\ order \in Seq(Entries)
        /\ \A i \in DOMAIN order' : i \in DOMAIN order /\ order'[i] = order[i]
    BY CutFacts DEF TopIs, Pop, SnapInv, TypeOK
  <1>2. \A h \in Ledgers : \A i \in (DOMAIN Ledger(h))' :
          i \in DOMAIN Ledger(h) /\ (Ledger(h)[i])' = Ledger(h)[i]
    BY <1>1 DEF Ledger
  <1>. QED BY <1>2, LedgersCut

(* Undoing an action of one editor, the order record with it or not.       *)
LEMMA StackCut ==
    ASSUME SnapInv, TypeOK', NEW s \in FileSources, undo[s] # <<>>, order # <<>>,
           undo' = [undo EXCEPT ![s] = AllButLast(@)],
           Pop \/ UNCHANGED order, seq' = seq,
           NEW done \in SUBSET Assets, Purge({LastAction(s)[a] : a \in done})
    PROVE  SnapInv'
  <1>1. undo \in [FileSources -> Seq(UndoActions)] /\ order \in Seq(Entries)
    BY DEF SnapInv, TypeOK
  <1>2. /\ Len(undo[s]) \in DOMAIN undo[s] /\ Len(undo[s]) \notin DOMAIN undo'[s]
        /\ \A i \in DOMAIN undo'[s] : i \in DOMAIN undo[s] /\ undo'[s][i] = undo[s][i]
    BY <1>1, CutFacts
  <1>3. \A i \in DOMAIN order' : i \in DOMAIN order /\ order'[i] = order[i]
    BY <1>1, CutFacts DEF Pop
  <1>4. Ledger(s) = undo[s] /\ (Ledger(s))' = undo'[s] /\ s # "revert_all" /\ s \in Ledgers
    BY StackLedger DEF Ledger
  <1>5. ASSUME NEW h \in Ledgers, NEW i \in (DOMAIN Ledger(h))'
        PROVE  i \in DOMAIN Ledger(h) /\ (Ledger(h)[i])' = Ledger(h)[i]
    <2>1. CASE h = s
      BY <1>2, <1>4, <2>1
    <2>2. CASE h = "revert_all"
      BY <1>3, <2>2 DEF Ledger
    <2>3. CASE h # s /\ h # "revert_all"
      BY <1>1, <2>3 DEF Ledger, Ledgers
    <2>. QED BY <2>1, <2>2, <2>3
  <1>6. ASSUME NEW n \in SnapIds, history'[n] # history[n]
        PROVE  \E g \in Ledgers : \E j \in DOMAIN Ledger(g), b \in Assets :
                 j \notin (DOMAIN Ledger(g))' /\ Ledger(g)[j][b] = n
    <2>1. PICK a \in done : LastAction(s)[a] = n
      BY <1>6 DEF Purge
    <2>2. Ledger(s)[Len(undo[s])][a] = n /\ a \in Assets
      BY <1>4, <2>1 DEF LastAction
    <2>. QED BY <1>2, <1>4, <2>2
  <1>. QED BY <1>5, <1>6, LedgersCut

LEMMA RevertAllCut ==
    ASSUME SnapInv, TypeOK', UndoRevertAllReady, Pop, seq' = seq,
           undo' = [s \in FileSources |->
                      IF s \in Top.touched THEN AllButLast(undo[s]) ELSE undo[s]],
           Purge({RestoredBy(a)[a] : a \in RevertAllItems})
    PROVE  SnapInv'
  <1>1. undo \in [FileSources -> Seq(UndoActions)] /\ order \in Seq(Entries)
    BY DEF SnapInv, TypeOK
  <1>2. order # <<>> /\ \A s \in Top.touched : undo[s] # <<>>
    BY DEF UndoRevertAllReady, TopIs
  <1>3. \A s \in FileSources :
          /\ s \in Top.touched => Len(undo[s]) \in DOMAIN undo[s]
                                  /\ Len(undo[s]) \notin DOMAIN undo'[s]
          /\ \A i \in DOMAIN undo'[s] : i \in DOMAIN undo[s] /\ undo'[s][i] = undo[s][i]
    BY <1>1, <1>2, CutFacts
  <1>4. /\ Len(order) \in DOMAIN order /\ Len(order) \notin DOMAIN order'
        /\ \A i \in DOMAIN order' : i \in DOMAIN order /\ order'[i] = order[i]
    BY <1>1, <1>2, CutFacts DEF Pop
  <1>5. ASSUME NEW h \in Ledgers, NEW i \in (DOMAIN Ledger(h))'
        PROVE  i \in DOMAIN Ledger(h) /\ (Ledger(h)[i])' = Ledger(h)[i]
    <2>1. CASE h = "revert_all"
      BY <1>4, <2>1 DEF Ledger
    <2>2. CASE h # "revert_all"
      <3>1. h \in FileSources
        BY <2>2 DEF Ledgers
      <3>2. Ledger(h) = undo[h] /\ (Ledger(h))' = undo'[h]
        BY <2>2 DEF Ledger
      <3>. QED BY <1>3, <3>1, <3>2
    <2>. QED BY <2>1, <2>2
  <1>6. ASSUME NEW n \in SnapIds, history'[n] # history[n]
        PROVE  \E g \in Ledgers : \E j \in DOMAIN Ledger(g), b \in Assets :
                 j \notin (DOMAIN Ledger(g))' /\ Ledger(g)[j][b] = n
    <2>1. PICK a \in RevertAllItems : RestoredBy(a)[a] = n
      BY <1>6 DEF Purge
    <2>2. a \in Assets /\ RestoredBy(a)[a] # Untouched
      BY DEF RevertAllItems
    <2>3. CASE SourceOf[a] = "audio"
      <3>1. order[Len(order)].audio[a] = n
        BY <2>1, <2>3 DEF RestoredBy, Top
      <3>2. /\ Ledger("revert_all")[Len(order)][a] = n
            /\ Len(order) \in DOMAIN Ledger("revert_all")
            /\ Len(order) \notin (DOMAIN Ledger("revert_all"))'
        BY <1>4, <3>1 DEF Ledger
      <3>. QED BY <2>2, <3>2 DEF Ledgers
    <2>4. CASE SourceOf[a] # "audio"
      <3>. DEFINE s == SourceOf[a]
      <3>1. s \in FileSources
        BY <2>2, SessionAssumption
      <3>2. s \in Top.touched /\ LastAction(s)[a] = n
        BY <2>1, <2>2, <2>4 DEF RestoredBy, Nothing
      <3>3. s \in Ledgers /\ Ledger(s) = undo[s] /\ (Ledger(s))' = undo'[s]
        BY <3>1, StackLedger DEF Ledger
      <3>. QED BY <1>3, <2>2, <3>1, <3>2, <3>3 DEF LastAction
    <2>. QED BY <2>3, <2>4
  <1>. QED BY <1>5, <1>6, LedgersCut

-----------------------------------------------------------------------------
(* Every step keeps the snapshots *)

LEMMA SnapInit == Init => SnapInv
  <1>. SUFFICES ASSUME Init PROVE SnapInv
    OBVIOUS
  <1>1. TypeOK
    BY InitType
  <1>2. \A h \in Ledgers : DOMAIN Ledger(h) = {}
    BY DEF Init, Ledger, Ledgers
  <1>. QED BY <1>1, <1>2 DEF SnapInv, SnapshotsKept, SnapshotsUnshared

LEMMA SnapEdits ==
    ASSUME SnapInv, TypeOK', NEW a \in Assets, NEW v \in Payload, NEW f,
           \/ SnapshotFails(a, f) \/ Replace(a, v, f) \/ ReplaceStadium(a, v, f)
           \/ ReplaceAudio(a, v, f) \/ Revert(a, f)
    PROVE  SnapInv'
  <1>0. /\ SourceOf[a] \in FileSources /\ {a} \in SUBSET Assets
        /\ seq \in Nat
    BY SessionAssumption DEF SnapInv, TypeOK
  <1>1. CASE SnapshotFails(a, f)
    BY <1>0, <1>1, LedgersStill DEF SnapshotFails
  <1>2. ASSUME NEW num \in Numberings({a}), TakeSnapshots({a}, num),
               Record(SourceOf[a], ActionFor({a}, num))
        PROVE  SnapInv'
    BY <1>0, <1>2, RecordGrows
  <1>3. ASSUME NEW num \in Numberings({a}), TakeSnapshots({a}, num), KeepLedgers
        PROVE  SnapInv'
    <2>1. \A n \in SnapIds : n <= seq => history'[n] = history[n]
      BY <1>0, <1>3, CopiedContent DEF TakeSnapshots, SnapInv
    <2>2. seq <= seq'
      BY <1>0, <1>3, EditedFinite DEF TakeSnapshots
    <2>. QED BY <1>3, <2>1, <2>2, LedgersStill DEF KeepLedgers
  <1>4. CASE Replace(a, v, f)
    BY <1>2, <1>3, <1>4 DEF Replace, Stage, Abandon
  <1>5. CASE ReplaceStadium(a, v, f)
    BY <1>2, <1>3, <1>5 DEF ReplaceStadium, Stage, Abandon
  <1>6. CASE ReplaceAudio(a, v, f)
    BY <1>2, <1>3, <1>6 DEF ReplaceAudio, Stage, Abandon
  <1>7. CASE Revert(a, f)
    BY <1>2, <1>3, <1>7 DEF Revert, Stage, Abandon
  <1>. QED BY <1>1, <1>4, <1>5, <1>6, <1>7

LEMMA SnapTextNotes ==
    ASSUME SnapInv, TypeOK', NEW v \in Payload, NEW f,
           \/ \E t \in Texts : SetText(t, v, f)
           \/ \E c \in Cues : SetNote(c, v, f)
           \/ \E u \in Colours \cup {None} : SetColours(u)
    PROVE  SnapInv'
  <1>0. seq \in Nat
    BY SessionAssumption DEF SnapInv, TypeOK
  <1>1. ASSUME NEW t \in Texts, SetText(t, v, f) PROVE SnapInv'
    <2>1. Entry("text", {}) \in Entries /\ Entry("text", {}).audio = Nothing
      BY EntryType DEF Entry
    <2>. QED BY <1>1, <2>1, OrderGrows DEF SetText
  <1>2. ASSUME NEW c \in Cues, SetNote(c, v, f) PROVE SnapInv'
    <2>. DEFINE e == [Entry("audio_annotation", {}) EXCEPT !.cue = c, !.note = notes[c]]
    <2>0. UNCHANGED <<undo, history, seq>>
      BY <1>2 DEF SetNote
    <2>1. e \in Entries /\ e.audio = Nothing
      <3>1. Entry("audio_annotation", {}) \in Entries
        BY EntryType
      <3>2. notes[c] \in Payload
        BY DEF SnapInv, TypeOK, NoteMaps
      <3>3. e \in Entries
        BY <3>1, <3>2 DEF Entries
      <3>4. e.audio = Nothing
        BY DEF Entry
      <3>. QED BY <3>3, <3>4
    <2>2. CASE order' = Append(order, e)
      <3>. HIDE DEF e
      <3>. QED BY <2>0, <2>1, <2>2, OrderGrows
    <2>3. CASE UNCHANGED order
      BY <1>0, <2>0, <2>3, LedgersStill
    <2>. QED BY <1>2, <2>2, <2>3 DEF SetNote
  <1>3. ASSUME NEW u \in Colours \cup {None}, SetColours(u) PROVE SnapInv'
    BY <1>0, <1>3, LedgersStill DEF SetColours
  <1>. QED BY <1>1, <1>2, <1>3

LEMMA SnapBatches ==
    ASSUME SnapInv, TypeOK', NEW s \in FileSources, NEW rows \in Bundles(s), NEW f,
           \/ Batch(s, rows, f) \/ BatchRollsBack(s, rows, f)
           \/ BatchRollbackFails(s, rows, f)
    PROVE  SnapInv'
  <1>. DEFINE S == Changed(rows)
  <1>0. seq \in Nat /\ S \in SUBSET Assets
    BY BundleFacts, SessionAssumption DEF SnapInv, TypeOK
  <1>1. CASE Batch(s, rows, f)
    BY <1>0, <1>1, RecordGrows DEF Batch
  <1>2. CASE BatchRollsBack(s, rows, f)
    BY <1>0, <1>2, LedgersStill DEF BatchRollsBack
  <1>3. CASE BatchRollbackFails(s, rows, f)
    <2>. PICK num \in Numberings(S) : history' = Copied(S, num)
      BY <1>3 DEF BatchRollbackFails
    <2>1. CanCopy(S) /\ UNCHANGED <<undo, order, seq>>
      BY <1>3 DEF BatchRollbackFails
    <2>2. \A n \in SnapIds : n <= seq => history'[n] = history[n]
      BY <1>0, <2>1, CopiedContent DEF SnapInv
    <2>. QED BY <1>0, <2>1, <2>2, LedgersStill
  <1>. QED BY <1>1, <1>2, <1>3

LEMMA SnapRevertAll ==
    ASSUME SnapInv, TypeOK', NEW f, RevertAll(f) \/ RevertAllFails(f)
    PROVE  SnapInv'
  <1>0. seq \in Nat
    BY SessionAssumption DEF SnapInv, TypeOK
  <1>1. CASE RevertAll(f)
    BY <1>1, RevertAllGrows DEF RevertAll
  <1>2. CASE RevertAllFails(f)
    BY <1>0, <1>2, LedgersStill DEF RevertAllFails
  <1>. QED BY <1>1, <1>2

LEMMA SnapUndoAudio ==
    ASSUME SnapInv, TypeOK', NEW f,
           UndoAudio(f) \/ UndoAudioFails(f) \/ UndoAudioRollbackFails(f)
    PROVE  SnapInv'
  <1>0. seq \in Nat
    BY SessionAssumption DEF SnapInv, TypeOK
  <1>1. CASE UndoAudio(f)
    <2>1. Items(LastAction("audio")) \subseteq Assets
      BY DEF Items
    <2>2. \E done \in SUBSET Assets : Purge({LastAction("audio")[a] : a \in done})
      BY <1>1, <2>1 DEF UndoAudio
    <2>3. /\ "audio" \in FileSources /\ undo["audio"] # <<>> /\ order # <<>>
          /\ undo' = [undo EXCEPT !["audio"] = AllButLast(@)]
          /\ Pop \/ UNCHANGED order
          /\ seq' = seq
      BY <1>1 DEF UndoAudio, TopIs, FileSources
    <2>. QED BY <2>2, <2>3, StackCut
  <1>2. CASE UndoAudioFails(f)
    BY <1>0, <1>2, LedgersStill DEF UndoAudioFails, vars
  <1>3. CASE UndoAudioRollbackFails(f)
    BY <1>0, <1>3, LedgersStill DEF UndoAudioRollbackFails
  <1>. QED BY <1>1, <1>2, <1>3

LEMMA SnapUndoTextNote ==
    ASSUME SnapInv, TypeOK', NEW f, UndoNote(f) \/ UndoText(f)
    PROVE  SnapInv'
  <1>0. seq \in Nat
    BY SessionAssumption DEF SnapInv, TypeOK
  <1>1. CASE UndoNote(f)
    <2>1. CASE Pop
      BY <1>1, <2>1, OrderCut DEF UndoNote
    <2>2. CASE UNCHANGED order
      BY <1>0, <1>1, <2>2, LedgersStill DEF UndoNote
    <2>. QED BY <1>1, <2>1, <2>2 DEF UndoNote
  <1>2. CASE UndoText(f)
    BY <1>2, OrderCut DEF UndoText
  <1>. QED BY <1>1, <1>2

LEMMA SnapUndoFile ==
    ASSUME SnapInv, TypeOK', NEW s \in FileSources, NEW f,
           UndoFile(s, f) \/ UndoFileFails(s, f)
    PROVE  SnapInv'
  <1>1. Items(LastAction(s)) \subseteq Assets
    BY DEF Items
  <1>2. \E done \in SUBSET Assets : Purge({LastAction(s)[a] : a \in done})
    BY <1>1 DEF UndoFile, UndoFileFails
  <1>3. /\ undo[s] # <<>> /\ order # <<>> /\ Pop /\ seq' = seq
        /\ undo' = [undo EXCEPT ![s] = AllButLast(@)]
    BY DEF UndoFile, UndoFileFails, TopIs
  <1>. QED BY <1>2, <1>3, StackCut

LEMMA SnapNext == SnapInv /\ [Next]_vars => SnapInv'
  <1>. SUFFICES ASSUME SnapInv, [Next]_vars PROVE SnapInv'
    OBVIOUS
  <1>0. TypeOK' /\ seq \in Nat /\ None \in Payload /\ "none" \in Outcomes
    BY NextType, PayloadNone, SessionAssumption DEF SnapInv, TypeOK, Outcomes
  <1>1. CASE UNCHANGED vars
    BY <1>0, <1>1, LedgersStill DEF vars
  <1>2. CASE \E a \in Assets, v \in Payload, f \in Outcomes :
               \/ SnapshotFails(a, f) \/ Replace(a, v, f) \/ ReplaceStadium(a, v, f)
               \/ ReplaceAudio(a, v, f) \/ Revert(a, f)
    BY <1>0, <1>2, SnapEdits
  <1>3. CASE \E v \in Payload, f \in Outcomes :
               \/ \E t \in Texts : SetText(t, v, f)
               \/ \E c \in Cues : SetNote(c, v, f)
               \/ \E u \in Colours \cup {None} : SetColours(u)
    BY <1>0, <1>3, SnapTextNotes
  <1>4. CASE \E s \in {"visual", "audio"} : \E rows \in Bundles(s), f \in Outcomes :
               \/ Batch(s, rows, f) \/ BatchRollsBack(s, rows, f)
               \/ BatchRollbackFails(s, rows, f)
    BY <1>0, <1>4, SnapBatches DEF FileSources
  <1>5. CASE \E f \in Outcomes : RevertAll(f) \/ RevertAllFails(f)
    BY <1>0, <1>5, SnapRevertAll
  <1>6. CASE \E f \in Outcomes :
               UndoAudio(f) \/ UndoAudioFails(f) \/ UndoAudioRollbackFails(f)
    BY <1>0, <1>6, SnapUndoAudio
  <1>7. CASE \E f \in Outcomes : UndoNote(f) \/ UndoText(f)
    BY <1>0, <1>7, SnapUndoTextNote
  <1>8. CASE \E s \in FileSources \ {"audio"}, f \in Outcomes :
               UndoFile(s, f) \/ UndoFileFails(s, f)
    BY <1>0, <1>8, SnapUndoFile
  <1>9. CASE \E f \in Outcomes : UndoRevertAll(f)
    BY <1>0, <1>9, RevertAllCut DEF UndoRevertAll
  <1>10. CASE \E f \in Outcomes : UndoRevertAllFails(f)
    BY <1>0, <1>10, LedgersStill DEF UndoRevertAllFails, vars
  <1>11. CASE \E d \in Archives : OpenProject(d)
    <2>1. \A h \in Ledgers : (DOMAIN Ledger(h))' = {}
      BY <1>11 DEF OpenProject, Ledger, Ledgers
    <2>. QED BY <1>0, <2>1 DEF SnapInv, SnapshotsKept, SnapshotsUnshared, Ledgers
  <1>. QED BY <1>0, <1>1, <1>2, <1>3, <1>4, <1>5, <1>6, <1>7, <1>8, <1>9, <1>10,
              <1>11 DEF Next

THEOREM SnapInvariant == Spec => []SnapInv
  BY SnapInit, SnapNext, PTL DEF Spec

(* Whatever fails, and however long the session runs, a snapshot that an   *)
(* undo record names is there.                                             *)
THEOREM SnapshotsAlwaysKept == Spec => []SnapshotsKept
  <1>1. SnapInv => SnapshotsKept
    BY DEF SnapInv
  <1>. QED BY <1>1, SnapInvariant, PTL

(* And it is that record's alone.                                          *)
THEOREM SnapshotsNeverShared == Spec => []SnapshotsUnshared
  <1>1. SnapInv => SnapshotsUnshared
    BY DEF SnapInv
  <1>. QED BY <1>1, SnapInvariant, PTL

=============================================================================
