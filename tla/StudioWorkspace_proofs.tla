--------------------------- MODULE StudioWorkspace_proofs ---------------------
(* Proofs about StudioWorkspace: its types, the promise made by "Autosaved *)
(* unsaved edits", and that finished work is never offered again. The      *)
(* clean-ups, the promise and the registration are the same few handlers   *)
(* seen from two sides, so both proofs go through the actions in the same  *)
(* groups: what the user starts, what pool threads do, the queued results, *)
(* the recovery snapshot, the panels, and closing.                         *)
EXTENDS StudioWorkspace, TLAPS

-----------------------------------------------------------------------------
(* Types *)

(* The greater of two integers.                                            *)
LEMMA MaxOfTwo ==
    ASSUME NEW d \in Int, NEW e \in Int
    PROVE  Max({d, e}) \in {d, e} /\ Max({d, e}) >= d /\ Max({d, e}) >= e
  <1>1. \E x \in {d, e} : \A y \in {d, e} : x >= y
    <2>1. CASE d >= e
      BY <2>1
    <2>2. CASE ~(d >= e)
      BY <2>2
    <2>. QED BY <2>1, <2>2
  <1>. QED BY <1>1 DEF Max

Autos == [phase : {"idle", "running", "written", "failed", "landed"},
          source : SourceOrNone, current : BOOLEAN]

(* The components of the state variables that arithmetic is done on.       *)
LEMMA Typed ==
    ASSUME TypeOK
    PROVE  /\ auto \in Autos /\ task \in Requests /\ afterwards \in Requests
           /\ facade \in Archives /\ archive \in Archives /\ promise \in Archives
           /\ made \in Nat /\ settled \in Nat
           /\ facade.doc \in Nat /\ archive.doc \in Nat /\ promise.doc \in Nat
           /\ \A d \in named : d \in Nat
           /\ task.doc \in Nat /\ afterwards.doc \in Nat
  BY WorkspaceAssumption DEF TypeOK, Archives, Documents, Requests, Autos

(* A document is settled with all that led to it.                          *)
LEMMA SettleFacts ==
    ASSUME TypeOK, NEW d \in Documents, Settle(d)
    PROVE  /\ settled' \in Documents /\ settled' \in {settled, d}
           /\ settled' >= settled /\ settled' >= d
  <1>1. settled \in Int /\ d \in Int
    BY WorkspaceAssumption DEF TypeOK, Documents
  <1>2. /\ Max({settled, d}) \in {settled, d}
        /\ Max({settled, d}) >= settled /\ Max({settled, d}) >= d
    BY <1>1, MaxOfTwo
  <1>3. settled' = Max({settled, d})
    BY DEF Settle
  <1>4. settled \in Documents
    BY DEF TypeOK
  <1>. QED BY <1>2, <1>3, <1>4

LEMMA NoAutoType == NoAuto \in Autos
  BY DEF NoAuto, Autos, SourceOrNone

LEMMA NoArchiveType == NoArchive \in Archives
  BY WorkspaceAssumption DEF NoArchive, Archives, SourceOrNone, Documents

(* The components of a plain request.                                      *)
LEMMA RequestType ==
    ASSUME NEW kind \in {"none", "edit", "save", "source", "project", "close"}
    PROVE  Request(kind) \in Requests /\ Request(kind).kind = kind
             /\ ~Request(kind).recovery /\ ~Request(kind).discarded
             /\ Request(kind).doc = 0 /\ Request(kind).source = None
  BY WorkspaceAssumption DEF Request, Requests, SourceOrNone, Documents

LEMMA NothingType == Nothing \in Requests /\ Nothing.kind = "none"
  BY RequestType DEF Nothing

(* A new revision leaves the snapshot in flight where it is.               *)
LEMMA Revised ==
    ASSUME TypeOK
    PROVE  /\ NewRevision \in Autos
           /\ NewRevision.phase = auto.phase /\ NewRevision.source = auto.source
           /\ NewRevision.phase = "idle" <=> NewRevision = NoAuto
  <1>1. auto \in Autos
    BY DEF TypeOK, Autos
  <1>2. /\ NewRevision \in Autos
        /\ NewRevision.phase = auto.phase /\ NewRevision.source = auto.source
        /\ NewRevision.current = FALSE
    BY <1>1 DEF NewRevision, Autos
  <1>3. ASSUME auto = NoAuto PROVE NewRevision = NoAuto
    <2>1. NoAuto \in Autos /\ NoAuto.current = FALSE
      BY NoAutoType DEF NoAuto
    <2>2. \A x, y \in Autos :
            x.phase = y.phase /\ x.source = y.source /\ x.current = y.current => x = y
      BY DEF Autos
    <2>. QED BY <1>2, <1>3, <2>1, <2>2
  <1>4. NoAuto.phase = "idle"
    BY DEF NoAuto
  <1>. QED BY <1>2, <1>3, <1>4 DEF TypeOK

(* A snapshot is asked for: the one in flight goes on, or one starts for   *)
(* the active source.                                                      *)
LEMMA SnapshotType ==
    ASSUME TypeOK, NEW a \in Autos, a.phase = "idle" <=> a = NoAuto,
           SaveRecoverySnapshot(a)
    PROVE  /\ auto' \in Autos /\ pending' \in BOOLEAN
           /\ auto'.phase = "idle" <=> auto' = NoAuto
           /\ \/ auto'.phase = a.phase /\ auto'.source = a.source
              \/ a.phase = "idle" /\ auto'.phase = "running" /\ auto'.source = active
  <1>1. CASE auto' = a /\ pending' = TRUE
    BY <1>1
  <1>2. CASE /\ auto' = [phase |-> "running", source |-> active, current |-> TRUE]
             /\ pending' = FALSE /\ a.phase = "idle"
    <2>1. active \in SourceOrNone
      BY DEF TypeOK
    <2>2. auto' \in Autos /\ auto'.phase = "running" /\ auto'.source = active
      BY <1>2, <2>1 DEF Autos
    <2>3. auto' # NoAuto
      BY <2>2 DEF NoAuto
    <2>. QED BY <1>2, <2>2, <2>3
  <1>. QED BY <1>1, <1>2 DEF SaveRecoverySnapshot

(* What replaces the work settles it, or leaves what is settled alone.     *)
LEMMA ReplacedFacts ==
    ASSUME TypeOK, SettleReplaced
    PROVE  /\ settled' \in Documents /\ settled' \in {settled, facade.doc}
           /\ settled' >= settled
           /\ settled' >= facade.doc \/ (task.recovery /\ ~ours)
  <1>1. facade.doc \in Documents /\ settled \in Documents /\ settled \in Nat
    BY Typed DEF TypeOK, Archives
  <1>2. CASE task.recovery /\ ~ours
    BY <1>1, <1>2 DEF SettleReplaced
  <1>3. CASE ~(task.recovery /\ ~ours)
    <2>1. Settle(facade.doc)
      BY <1>3 DEF SettleReplaced
    <2>. QED BY <1>1, <1>3, <2>1, SettleFacts
  <1>. QED BY <1>2, <1>3

(* _mark_workspace_changed: the work is dirty and a snapshot is asked for. *)
LEMMA MarkType ==
    ASSUME TypeOK, MarkWorkspaceChanged
    PROVE  /\ dirty' = TRUE /\ auto' \in Autos /\ pending' \in BOOLEAN
           /\ auto'.phase = "idle" <=> auto' = NoAuto
           /\ \/ auto'.phase = auto.phase /\ auto'.source = auto.source
              \/ auto.phase = "idle" /\ auto'.phase = "running" /\ auto'.source = active
  BY SnapshotType, Revised DEF MarkWorkspaceChanged

LEMMA ClearType ==
    ASSUME TypeOK, ClearRecovery
    PROVE  /\ archive' = NoArchive /\ archive' \in Archives
           /\ moved' \in BOOLEAN /\ record' \in SourceOrNone
  BY NoArchiveType DEF ClearRecovery, TypeOK, SourceOrNone

Disk == archive \in Archives /\ moved \in BOOLEAN /\ record \in SourceOrNone

(* Whatever becomes of a clean-up, the disk holds an archive and an entry. *)
LEMMA ActiveClearType ==
    ASSUME TypeOK, ClearForActiveSource \/ RecordRecent(ClearForActiveSource)
             \/ RecordRecent(ClearRecovery) \/ UNCHANGED disk \/ ClearRecovery
    PROVE  Disk'
  BY ClearType DEF ClearForActiveSource, RecordRecent, TypeOK, disk, Disk

WindowType ==
    /\ window \in {"starting", "open", "closed"}
    /\ active \in SourceOrNone
    /\ dirty \in BOOLEAN /\ closeWhenRecoveryFinishes \in BOOLEAN
    /\ allowClose \in BOOLEAN /\ closing \in BOOLEAN

TaskType ==
    /\ task \in Requests /\ afterwards \in Requests
    /\ phase \in {"idle", "running", "read", "checked", "done", "failed", "landed"}
    /\ phase = "idle" <=> task = Nothing
    /\ panel \in {"idle", "running", "done", "landed"}

AutoType ==
    /\ auto \in Autos
    /\ auto.phase = "idle" <=> auto = NoAuto
    /\ pending \in BOOLEAN /\ timer \in BOOLEAN

DiskType == archive \in Archives /\ moved \in BOOLEAN /\ record \in SourceOrNone

WorkType ==
    /\ facade \in Archives /\ promise \in Archives
    /\ named \subseteq Documents
    /\ made \in Documents /\ settled \in Documents
    /\ ours \in BOOLEAN

(* TypeOK by the parts of the program.                                     *)
LEMMA TypeParts ==
    /\ TypeOK <=> WindowType /\ TaskType /\ AutoType /\ DiskType /\ WorkType
    /\ TypeOK' <=> WindowType' /\ TaskType' /\ AutoType' /\ DiskType' /\ WorkType'
  BY DEF TypeOK, WindowType, TaskType, AutoType, DiskType, WorkType, Autos

(* What the handlers rely on and do not test again: one blocking task at a *)
(* time and none beside a panel, what may follow it, the checks made when  *)
(* it was started (there is a source, the bound on edits), and a window    *)
(* that has done nothing before it is shown.                               *)
Orderly ==
    /\ task.kind # "close"
    /\ task.kind = "none" => task = Nothing
    /\ task = Nothing => afterwards = Nothing
    /\ task.kind = "edit" /\ phase = "running" => made < MaxEdits
    /\ task.kind = "edit" => facade.source # None
    /\ panel = "running" => made < MaxEdits /\ facade.source # None
    /\ panel # "idle" => task = Nothing
    /\ active = facade.source \/ (task.kind = "source" /\ phase = "done")
    /\ afterwards.kind \in {"none", "source", "project", "close"}
    /\ afterwards.kind = "none" => afterwards = Nothing
    /\ afterwards.kind = "close" => task.kind = "save"
    /\ afterwards # Nothing =>
         \/ task.kind = "save"
         \/ task.kind = "source" /\ phase = "landed" /\ afterwards.kind = "project"
    /\ task.kind = "project" => facade.source # None
    /\ afterwards.kind = "project" => facade.source # None
    /\ phase \in {"read", "checked"} => task.kind = "project"
    /\ task.kind = "source" /\ phase = "done" => facade.source # None /\ facade.doc = 0
    /\ window = "starting" =>
         /\ task = Nothing /\ panel = "idle" /\ auto = NoAuto
         /\ ~dirty /\ facade = NoArchive /\ ~ours

(* What a request for a blocking task, and what is to follow it, can be.   *)
Asked(request, then) ==
    /\ Start(request, then)
    /\ request.kind \in {"edit", "save", "source", "project"}
    /\ request.kind = "edit" => made < MaxEdits /\ facade.source # None
    /\ request.kind \in {"source", "project"} => (request.discarded <=> dirty)
    /\ request.kind \in {"edit", "save"} => ~request.discarded
    /\ request.kind = "save" => dirty
    /\ then.kind \in {"none", "source", "project", "close"}
    /\ then.kind = "none" => then = Nothing
    /\ then # Nothing => request.kind = "save"
    /\ ~then.discarded
    /\ \A r \in {request, then} :
         /\ r.kind = "project" => facade.source # None
         /\ r.kind = "project" /\ ~r.recovery => r.doc \in named
         /\ r.recovery =>
              /\ record # None /\ r.source = record /\ r.doc = 0
              /\ r.kind = "project" => facade.source = record
              /\ r.kind = "source" => facade.source # record

(* _continue_after_unsaved asks for what it was given, at once, discarding *)
(* or after a save.                                                        *)
LEMMA AskedAfterUnsaved ==
    ASSUME NEW request \in Requests, request.kind \in {"source", "project"},
           ~request.discarded, ContinueAfterUnsaved(request),
           request.kind = "project" => facade.source # None,
           request.kind = "project" /\ ~request.recovery => request.doc \in named,
           request.recovery =>
              /\ record # None /\ request.source = record /\ request.doc = 0
              /\ request.kind = "project" => facade.source = record
              /\ request.kind = "source" => facade.source # record
    PROVE  \E r, t \in Requests : Asked(r, t)
  <1>0. /\ Nothing \in Requests /\ Nothing.kind = "none"
        /\ ~Nothing.recovery /\ ~Nothing.discarded
    BY RequestType DEF Nothing
  <1>1. CASE ~dirty /\ Start(request, Nothing)
    BY <1>0, <1>1 DEF Asked
  <1>2. CASE dirty /\ Start([request EXCEPT !.discarded = TRUE], Nothing)
    <2>. DEFINE r == [request EXCEPT !.discarded = TRUE]
    <2>1. /\ r \in Requests /\ r.kind = request.kind /\ r.recovery = request.recovery
          /\ r.source = request.source /\ r.doc = request.doc /\ r.discarded
      BY DEF Requests
    <2>. HIDE DEF r
    <2>2. Start(r, Nothing)
      BY <1>2 DEF r
    <2>. QED BY <1>0, <1>2, <2>1, <2>2 DEF Asked
  <1>3. CASE dirty /\ Start(Request("save"), request)
    BY <1>3, RequestType DEF Asked
  <1>. QED BY <1>1, <1>2, <1>3 DEF ContinueAfterUnsaved

(* _recover_candidate asks for the recorded source, or for its recovery    *)
(* archive when that source is loaded.                                     *)
LEMMA AskedToRecover ==
    ASSUME TypeOK, Candidate, RecoverCandidate
    PROVE  \E r, t \in Requests : Asked(r, t)
  <1>. DEFINE recover(kind) == [Request(kind) EXCEPT !.source = record, !.recovery = TRUE]
  <1>1. ASSUME NEW kind \in {"source", "project"}
        PROVE  /\ recover(kind) \in Requests /\ recover(kind).kind = kind
               /\ recover(kind).source = record /\ recover(kind).recovery
               /\ recover(kind).doc = 0 /\ ~recover(kind).discarded
    <2>1. /\ Request(kind) \in Requests /\ Request(kind).kind = kind
          /\ Request(kind).doc = 0 /\ ~Request(kind).discarded
      BY RequestType
    <2>2. record \in SourceOrNone
      BY DEF TypeOK
    <2>. QED BY <2>1, <2>2 DEF Requests
  <1>2. record # None
    BY DEF Candidate
  <1>3. CASE facade.source = record /\ ContinueAfterUnsaved(recover("project"))
    BY <1>1, <1>2, <1>3, AskedAfterUnsaved
  <1>4. CASE facade.source # record /\ ContinueAfterUnsaved(recover("source"))
    BY <1>1, <1>2, <1>4, AskedAfterUnsaved
  <1>. QED BY <1>3, <1>4 DEF RecoverCandidate

(* The actions of the user that start a blocking task.                     *)
UserAsks ==
    \/ Edit \/ Save \/ RecoverFromMenu \/ CloseSaving
    \/ \E s \in Sources : OpenSource(s)
    \/ \E d \in named : OpenProject(d)

(* Every one of them is made in an idle window and changes nothing but the *)
(* task.                                                                   *)
LEMMA AskedByUser ==
    ASSUME TypeOK, UserAsks
    PROVE  Idle /\ KeepAllButTask /\ \E r, t \in Requests : Asked(r, t)
  <1>0. /\ Nothing \in Requests /\ Nothing.kind = "none"
        /\ ~Nothing.recovery /\ ~Nothing.discarded
    BY RequestType DEF Nothing
  <1>1. CASE Edit
    BY <1>0, <1>1, RequestType DEF Edit, Asked
  <1>2. CASE Save
    BY <1>0, <1>2, RequestType DEF Save, Asked
  <1>3. CASE CloseSaving
    BY <1>0, <1>3, RequestType DEF CloseSaving, Asked
  <1>4. CASE RecoverFromMenu
    BY <1>4, AskedToRecover DEF RecoverFromMenu
  <1>5. ASSUME NEW s \in Sources, OpenSource(s)
        PROVE  Idle /\ KeepAllButTask /\ \E r, t \in Requests : Asked(r, t)
    <2>. DEFINE request == [Request("source") EXCEPT !.source = s]
    <2>1. /\ request \in Requests /\ request.kind = "source"
          /\ ~request.discarded /\ ~request.recovery
      BY RequestType DEF Requests, SourceOrNone
    <2>2. Idle /\ KeepAllButTask /\ ContinueAfterUnsaved(request)
      BY <1>5 DEF OpenSource
    <2>. HIDE DEF request
    <2>. QED BY <2>1, <2>2, AskedAfterUnsaved
  <1>6. ASSUME NEW d \in named, OpenProject(d)
        PROVE  Idle /\ KeepAllButTask /\ \E r, t \in Requests : Asked(r, t)
    <2>. DEFINE request == [Request("project") EXCEPT !.doc = d]
    <2>1. /\ request \in Requests /\ request.kind = "project"
          /\ ~request.discarded /\ ~request.recovery /\ request.doc = d
      BY RequestType DEF Requests, TypeOK
    <2>2. Idle /\ KeepAllButTask /\ ContinueAfterUnsaved(request) /\ facade.source # None
      BY <1>6 DEF OpenProject
    <2>. HIDE DEF request
    <2>. QED BY <1>6, <2>1, <2>2, AskedAfterUnsaved
  <1>. QED BY <1>1, <1>2, <1>3, <1>4, <1>5, <1>6 DEF UserAsks

(* The initial state is well-typed and orderly.                            *)
LEMMA InitTyped == Init => TypeOK /\ Orderly
  <1>. SUFFICES ASSUME Init PROVE TypeOK /\ Orderly
    OBVIOUS
  <1>1. WindowType /\ AutoType
    BY NoAutoType DEF Init, WindowType, AutoType, NoAuto, SourceOrNone
  <1>2. TaskType
    BY NothingType DEF Init, TaskType
  <1>3. DiskType
    BY NoArchiveType DEF Init, DiskType, SourceOrNone
  <1>5. 0 \in Documents
    BY WorkspaceAssumption DEF Documents
  <1>6. WorkType
    BY <1>5, NoArchiveType DEF Init, WorkType
  <1>4. Orderly
    BY NothingType DEF Init, Orderly, NoArchive
  <1>. QED BY <1>1, <1>2, <1>3, <1>4, <1>6, TypeParts

(* Each part of the program keeps the types and the order.                 *)
LEMMA AskingTyped ==
    ASSUME TypeOK, Orderly, UserAsks
    PROVE  TypeOK' /\ Orderly'
  <1>1. PICK r \in Requests, t \in Requests : Asked(r, t)
    BY AskedByUser
  <1>2. Idle /\ KeepAllButTask
    BY AskedByUser
  <1>3. task' = r /\ phase' = "running" /\ afterwards' = t /\ r # Nothing
    BY <1>1, NothingType DEF Asked, Start
  <1>4. TaskType'
    BY <1>1, <1>2, <1>3, TypeParts DEF TaskType, KeepAllButTask
  <1>5. WindowType' /\ AutoType' /\ DiskType' /\ WorkType'
    BY <1>2, TypeParts
       DEF KeepAllButTask, WindowType, AutoType, DiskType, WorkType, windowVars,
           autoVars, disk, talk
  <1>6. Orderly'
    BY <1>1, <1>2, <1>3, NothingType
       DEF Orderly, Asked, KeepAllButTask, Idle, windowVars, autoVars, talk
  <1>. QED BY <1>4, <1>5, <1>6, TypeParts

LEMMA OfferTyped ==
    ASSUME TypeOK, Orderly, OfferStartupRecovery
    PROVE  TypeOK' /\ Orderly'
  <1>1. WindowType' /\ AutoType'
    BY TypeParts DEF OfferStartupRecovery, WindowType, AutoType, autoVars
  <1>2. CASE UNCHANGED <<taskVars, disk, settled>>
    <2>1. TaskType' /\ DiskType' /\ WorkType'
      BY <1>2, TypeParts
         DEF OfferStartupRecovery, TaskType, DiskType, WorkType, taskVars, disk
    <2>2. Orderly'
      BY <1>2 DEF OfferStartupRecovery, Orderly, taskVars, autoVars
    <2>. QED BY <1>1, <2>1, <2>2, TypeParts
  <1>3. CASE Candidate /\ RecoverCandidate /\ UNCHANGED <<disk, settled>>
    <2>1. PICK r \in Requests, t \in Requests : Asked(r, t)
      BY <1>3, AskedToRecover
    <2>2. task' = r /\ phase' = "running" /\ afterwards' = t /\ r # Nothing
      BY <2>1, NothingType DEF Asked, Start
    <2>3. TaskType' /\ DiskType' /\ WorkType'
      BY <1>3, <2>1, <2>2, TypeParts
         DEF OfferStartupRecovery, TaskType, DiskType, WorkType, disk
    <2>4. Orderly'
      BY <1>3, <2>1, <2>2, NothingType DEF OfferStartupRecovery, Orderly, Asked, autoVars
    <2>. QED BY <1>1, <2>3, <2>4, TypeParts
  <1>4. CASE Candidate /\ ClearRecovery /\ Settle(promise.doc) /\ UNCHANGED taskVars
    <2>1. promise.doc \in Documents
      BY DEF TypeOK, Archives
    <2>2. DiskType' /\ settled' \in Documents
      BY <1>4, <2>1, SettleFacts, ClearType DEF DiskType
    <2>3. TaskType' /\ WorkType'
      BY <1>4, <2>2, TypeParts DEF OfferStartupRecovery, TaskType, WorkType, taskVars
    <2>4. Orderly'
      BY <1>4 DEF OfferStartupRecovery, Orderly, taskVars, autoVars
    <2>. QED BY <1>1, <2>2, <2>3, <2>4, TypeParts
  <1>. QED BY <1>2, <1>3, <1>4 DEF OfferStartupRecovery

LEMMA WorkerTyped ==
    ASSUME TypeOK, Orderly, Worker
    PROVE  TypeOK' /\ Orderly'
  <1>0. WindowType /\ TaskType /\ AutoType /\ DiskType /\ WorkType
    BY TypeParts
  <1>1. ASSUME KeepAllButWork
        PROVE  WindowType' /\ AutoType' /\ (moved' \in BOOLEAN => DiskType')
    BY <1>0, <1>1
       DEF KeepAllButWork, WindowType, AutoType, DiskType, windowVars, autoVars
  <1>2. facade.doc \in Documents /\ task.doc \in Documents /\ facade.source \in SourceOrNone
    BY <1>0 DEF WorkType, TaskType, Archives, Requests
  <1>3. \A p \in {"read", "checked", "done", "failed"} :
          phase # "idle" /\ Reach(p) => TaskType' \/ panel' # panel
    BY <1>0 DEF TaskType, Reach
  <1>4. ASSUME NEW d \in Documents, facade' = [facade EXCEPT !.doc = d]
        PROVE  facade' \in Archives /\ facade'.source = facade.source /\ facade'.doc = d
    BY <1>0, <1>4 DEF WorkType, Archives
  <1>5. CASE RunEdit
    <2>1. made < MaxEdits /\ facade.source # None /\ phase = "running"
      BY <1>5 DEF RunEdit, Orderly
    <2>2. made' \in Documents
      BY <1>0, <1>5, <2>1, WorkspaceAssumption DEF RunEdit, WorkType, Documents
    <2>3. facade' \in Archives /\ facade'.source = facade.source
      BY <1>4, <1>5, <2>2 DEF RunEdit
    <2>4. TypeOK'
      BY <1>0, <1>1, <1>3, <1>5, <2>1, <2>2, <2>3, TypeParts
         DEF RunEdit, KeepAllButWork, DiskType, WorkType
    <2>5. Orderly'
      BY <1>5, <2>1, <2>3
         DEF RunEdit, Orderly, Reach, KeepAllButWork, windowVars, autoVars
    <2>. QED BY <2>4, <2>5
  <1>6. CASE RunSave
    <2>1. settled' \in Documents
      BY <1>2, <1>6, SettleFacts DEF RunSave
    <2>2. WorkType'
      BY <1>0, <1>2, <1>6, <2>1 DEF RunSave, WorkType, KeepAllButWork
    <2>3. TypeOK'
      BY <1>0, <1>1, <1>3, <1>6, <2>2, TypeParts DEF RunSave, KeepAllButWork, DiskType
    <2>4. Orderly'
      BY <1>6 DEF RunSave, Orderly, Reach, KeepAllButWork, windowVars, autoVars
    <2>. QED BY <2>3, <2>4
  <1>7. ASSUME NEW s \in Sources, RunSource(s) PROVE TypeOK' /\ Orderly'
    <2>1. settled' \in Documents
      BY <1>7, ReplacedFacts DEF RunSource
    <2>2. facade' \in Archives /\ facade'.source # None /\ facade'.doc = 0
      BY <1>7, WorkspaceAssumption DEF RunSource, Archives, SourceOrNone, Documents
    <2>3. WorkType'
      BY <1>0, <1>7, <2>1, <2>2 DEF RunSource, WorkType, KeepAllButWork
    <2>4. TypeOK'
      BY <1>0, <1>1, <1>3, <1>7, <2>3, TypeParts DEF RunSource, KeepAllButWork, DiskType
    <2>5. Orderly'
      BY <1>7, <2>2, NothingType
         DEF RunSource, Orderly, Reach, KeepAllButWork, windowVars, autoVars
    <2>. QED BY <2>4, <2>5
  <1>8. CASE ReadProject
    <2>1. WorkType' /\ moved' \in BOOLEAN
      BY <1>0, <1>8 DEF ReadProject, WorkType, KeepAllButWork
    <2>2. DiskType' /\ WindowType' /\ AutoType'
      BY <1>0, <1>1, <1>8, <2>1 DEF ReadProject, DiskType, KeepAllButWork
    <2>3. CASE Reach("read") \/ Reach("failed")
      <3>1. TaskType'
        BY <1>0, <1>3, <1>8, <2>3 DEF ReadProject, KeepAllButWork, TaskType
      <3>2. Orderly'
        BY <1>8, <2>3
           DEF ReadProject, Orderly, Reach, KeepAllButWork, windowVars, autoVars
      <3>. QED BY <2>1, <2>2, <3>1, <3>2, TypeParts
    <2>4. CASE /\ task' = [task EXCEPT !.source = archive.source, !.doc = archive.doc]
               /\ phase' = "read"
               /\ UNCHANGED afterwards
      <3>1. task' \in Requests /\ task'.kind = task.kind
        BY <1>0, <2>4 DEF TaskType, DiskType, Archives, Requests
      <3>2. task' # Nothing /\ task # Nothing
        BY <1>8, <3>1, NothingType DEF ReadProject
      <3>3. TaskType'
        BY <1>0, <1>8, <2>4, <3>1, <3>2 DEF ReadProject, KeepAllButWork, TaskType
      <3>4. Orderly'
        BY <1>8, <2>4, <3>1, <3>2
           DEF ReadProject, Orderly, KeepAllButWork, windowVars, autoVars
      <3>. QED BY <2>1, <2>2, <3>3, <3>4, TypeParts
    <2>. QED BY <1>8, <2>3, <2>4 DEF ReadProject
  <1>9. CASE CheckProject
    <2>1. TypeOK'
      BY <1>0, <1>1, <1>3, <1>9, TypeParts
         DEF CheckProject, KeepAllButWork, DiskType, WorkType
    <2>2. Orderly'
      BY <1>9 DEF CheckProject, Orderly, Reach, KeepAllButWork, windowVars, autoVars
    <2>. QED BY <2>1, <2>2
  <1>10. CASE AdoptProject
    <2>1. settled' \in Documents
      BY <1>10, ReplacedFacts DEF AdoptProject
    <2>2. facade' \in Archives /\ facade'.source = facade.source
      BY <1>2, <1>4, <1>10 DEF AdoptProject
    <2>3. WorkType'
      BY <1>0, <1>10, <2>1, <2>2 DEF AdoptProject, WorkType, KeepAllButWork, TaskType
    <2>4. TypeOK'
      BY <1>0, <1>1, <1>3, <1>10, <2>3, TypeParts
         DEF AdoptProject, KeepAllButWork, DiskType
    <2>5. Orderly'
      BY <1>10, <2>2, NothingType
         DEF AdoptProject, Orderly, Reach, KeepAllButWork, windowVars, autoVars
    <2>. QED BY <2>4, <2>5
  <1>11. CASE TaskFails
    <2>1. TypeOK'
      BY <1>0, <1>1, <1>3, <1>11, TypeParts
         DEF TaskFails, KeepAllButWork, DiskType, WorkType
    <2>2. Orderly'
      BY <1>11 DEF TaskFails, Orderly, Reach, KeepAllButWork, windowVars, autoVars
    <2>. QED BY <2>1, <2>2
  <1>. QED BY <1>5, <1>6, <1>7, <1>8, <1>9, <1>10, <1>11 DEF Worker

LEMMA SignalTyped ==
    ASSUME TypeOK, Orderly, Signal
    PROVE  TypeOK' /\ Orderly'
  <1>0. WindowType /\ TaskType /\ AutoType /\ DiskType /\ WorkType
    BY TypeParts
  <1>1. ASSUME KeepAllButResult, Land, phase # "idle", afterwards' \in Requests,
               active' \in SourceOrNone, dirty' \in BOOLEAN,
               auto' \in Autos, auto'.phase = "idle" <=> auto' = NoAuto,
               pending' \in BOOLEAN, Disk', UNCHANGED promise, settled' \in Documents
        PROVE  TypeOK'
    <2>1. WindowType' /\ TaskType' /\ AutoType'
      BY <1>0, <1>1 DEF KeepAllButResult, Land, WindowType, TaskType, AutoType
    <2>2. DiskType' /\ WorkType'
      BY <1>0, <1>1 DEF KeepAllButResult, Land, DiskType, Disk, WorkType
    <2>. QED BY <2>1, <2>2, TypeParts
  <1>2. CASE TaskError
    <2>1. TypeOK'
      BY <1>0, <1>1, <1>2, NothingType, ActiveClearType
         DEF TaskError, WindowType, TaskType, AutoType, WorkType
    <2>2. Orderly'
      BY <1>2, NothingType DEF TaskError, Orderly, Land, KeepAllButResult
    <2>. QED BY <2>1, <2>2
  <1>3. CASE EditResult
    <2>1. TypeOK'
      BY <1>0, <1>1, <1>3, MarkType, ActiveClearType
         DEF EditResult, WindowType, TaskType, AutoType, WorkType
    <2>2. Orderly'
      BY <1>3 DEF EditResult, Orderly, Land, KeepAllButResult
    <2>. QED BY <2>1, <2>2
  <1>4. CASE SaveResult
    <2>1. TypeOK'
      BY <1>0, <1>1, <1>4, ActiveClearType
         DEF SaveResult, WindowType, TaskType, AutoType, WorkType
    <2>2. Orderly'
      BY <1>4, NothingType DEF SaveResult, Orderly, Land, KeepAllButResult
    <2>. QED BY <2>1, <2>2
  <1>5. CASE SourceResult
    <2>1. Disk'
      BY <1>5, ActiveClearType DEF SourceResult
    <2>2. [Request("project") EXCEPT !.recovery = TRUE] \in Requests
            /\ [Request("project") EXCEPT !.recovery = TRUE].kind = "project"
      BY RequestType DEF Requests
    <2>3. afterwards' = Nothing \/ (afterwards' \in Requests /\ afterwards'.kind = "project")
      BY <1>5, <2>2 DEF SourceResult
    <2>4. active' \in SourceOrNone
      BY <1>0, <1>5 DEF SourceResult, WorkType, Archives
    <2>5. TypeOK'
      BY <1>0, <1>1, <1>5, <2>1, <2>3, <2>4, Revised, NothingType
         DEF SourceResult, WindowType, TaskType, AutoType, WorkType
    <2>6. facade'.source # None /\ task'.kind = "source" /\ phase' = "landed" /\ task # Nothing
      BY <1>5, NothingType DEF SourceResult, Orderly, Land, KeepAllButResult
    <2>7. Orderly'
      BY <1>5, <2>3, <2>6, NothingType DEF SourceResult, Orderly, KeepAllButResult
    <2>. QED BY <2>5, <2>7
  <1>6. CASE ProjectResult
    <2>1. Disk'
      BY <1>6, ActiveClearType DEF ProjectResult
    <2>2. task.recovery \in BOOLEAN
      BY <1>0 DEF TaskType, Requests
    <2>3. TypeOK'
      BY <1>0, <1>1, <1>6, <2>1, <2>2
         DEF ProjectResult, WindowType, TaskType, AutoType, WorkType
    <2>4. Orderly'
      BY <1>6, NothingType DEF ProjectResult, Orderly, Land, KeepAllButResult
    <2>. QED BY <2>3, <2>4
  <1>7. CASE TaskFinished
    <2>1. AutoType' /\ DiskType' /\ WorkType' /\ window' \in {"starting", "open", "closed"}
      BY <1>0, <1>7
         DEF TaskFinished, autoVars, disk, talk, AutoType, DiskType, WorkType,
             WindowType
    <2>2. CASE afterwards.kind \notin {"none", "close"} /\ Start(afterwards, Nothing)
      <3>1. WindowType' /\ TaskType'
        BY <1>0, <1>7, <2>2, NothingType DEF TaskFinished, Start, WindowType, TaskType
      <3>2. Orderly'
        BY <1>7, <2>2, NothingType DEF TaskFinished, Start, Orderly, autoVars, talk
      <3>. QED BY <2>1, <3>1, <3>2, TypeParts
    <2>3. CASE afterwards.kind \in {"none", "close"} /\ EndTask
      <3>1. WindowType' /\ TaskType'
        BY <1>0, <1>7, <2>3, NothingType DEF TaskFinished, EndTask, WindowType, TaskType
      <3>2. Orderly'
        BY <1>7, <2>3, NothingType DEF TaskFinished, EndTask, Orderly, autoVars, talk
      <3>. QED BY <2>1, <3>1, <3>2, TypeParts
    <2>. QED BY <1>7, <2>2, <2>3 DEF TaskFinished
  <1>. QED BY <1>2, <1>3, <1>4, <1>5, <1>6, <1>7 DEF Signal

LEMMA RecoveryTyped ==
    ASSUME TypeOK, Orderly,
           WriteRecovery \/ RecoveryResult \/ RecoveryFinished \/ Timer
    PROVE  TypeOK' /\ Orderly'
  <1>0. WindowType /\ TaskType /\ AutoType /\ DiskType /\ WorkType
    BY TypeParts
  <1>1. ASSUME NEW p \in {"written", "failed", "landed"}, auto.phase # "idle",
               auto' = [auto EXCEPT !.phase = p]
        PROVE  /\ auto' \in Autos /\ auto'.phase = p /\ auto'.source = auto.source
               /\ auto'.phase = "idle" <=> auto' = NoAuto
    <2>1. auto' \in Autos /\ auto'.phase = p /\ auto'.source = auto.source
      BY <1>0, <1>1 DEF AutoType, Autos
    <2>. QED BY <2>1 DEF NoAuto
  <1>2. CASE WriteRecovery
    <2>1. AutoType'
      BY <1>0, <1>1, <1>2 DEF WriteRecovery, AutoType
    <2>2. WindowType' /\ TaskType'
      BY <1>0, <1>2 DEF WriteRecovery, WindowType, TaskType, windowVars, taskVars
    <2>4. DiskType' /\ WorkType'
      BY <1>0, <1>2, NoArchiveType DEF WriteRecovery, DiskType, WorkType
    <2>3. Orderly'
      BY <1>2 DEF WriteRecovery, Orderly, windowVars, taskVars, NoAuto
    <2>. QED BY <2>1, <2>2, <2>3, <2>4, TypeParts
  <1>3. CASE RecoveryResult
    <2>1. AutoType'
      BY <1>0, <1>1, <1>3 DEF RecoveryResult, AutoType
    <2>2. Disk'
      <3>1. CASE RegisterRecovery(auto.source) /\ UNCHANGED <<archive, moved>>
        BY <1>0, <3>1 DEF RegisterRecovery, Disk, DiskType, AutoType, Autos
      <3>. QED BY <1>3, <3>1, ActiveClearType DEF RecoveryResult
    <2>3. promise' \in Archives
      BY <1>0, <1>3 DEF RecoveryResult, WorkType, DiskType, AutoType, Autos, Archives
    <2>4. WindowType' /\ TaskType' /\ WorkType'
      BY <1>0, <1>3, <2>3
         DEF RecoveryResult, WindowType, TaskType, WorkType, windowVars, taskVars
    <2>5. Orderly'
      BY <1>3 DEF RecoveryResult, Orderly, windowVars, taskVars
    <2>. QED BY <2>1, <2>2, <2>4, <2>5, TypeParts DEF Disk, DiskType
  <1>4. CASE RecoveryFinished
    <2>0. timer' \in BOOLEAN
      <3>1. CASE closeWhenRecoveryFinishes
        BY <1>0, <1>4, <3>1 DEF RecoveryFinished, AutoType
      <3>2. CASE ~closeWhenRecoveryFinishes
        BY <1>4, <3>2 DEF RecoveryFinished, AskedAgain
      <3>. QED BY <3>1, <3>2
    <2>1. AutoType'
      BY <1>4, <2>0, NoAutoType DEF RecoveryFinished, AutoType, NoAuto
    <2>2. Disk'
      BY <1>4, ActiveClearType DEF RecoveryFinished
    <2>3. WindowType' /\ TaskType' /\ WorkType'
      BY <1>0, <1>4
         DEF RecoveryFinished, WindowType, TaskType, WorkType, taskVars, talk
    <2>4. Orderly'
      BY <1>4 DEF RecoveryFinished, Orderly, taskVars, talk
    <2>. QED BY <2>1, <2>2, <2>3, <2>4, TypeParts DEF Disk, DiskType
  <1>5. CASE Timer
    <2>1. AutoType'
      BY <1>0, <1>5, SnapshotType DEF Timer, AutoType
    <2>2. WindowType' /\ TaskType' /\ DiskType' /\ WorkType'
      BY <1>0, <1>5
        
            DEF Timer, WindowType, TaskType, DiskType, WorkType, windowVars,
                taskVars, disk, talk
    <2>3. Orderly'
      BY <1>5 DEF Timer, Orderly, windowVars, taskVars, disk, talk
    <2>. QED BY <2>1, <2>2, <2>3, TypeParts
  <1>. QED BY <1>2, <1>3, <1>4, <1>5

LEMMA PanelTyped ==
    ASSUME TypeOK, Orderly,
           EditText \/ PanelStart \/ PanelRun \/ PanelResult \/ PanelFinished
    PROVE  TypeOK' /\ Orderly'
  <1>0. WindowType /\ TaskType /\ AutoType /\ DiskType /\ WorkType
    BY TypeParts
  <1>1. ASSUME made' = made + 1, made < MaxEdits, facade' = [facade EXCEPT !.doc = made']
        PROVE  made' \in Documents /\ facade' \in Archives /\ facade'.source = facade.source
    <2>1. made' \in Documents
      BY <1>0, <1>1, WorkspaceAssumption DEF WorkType, Documents
    <2>. QED BY <1>0, <1>1, <2>1 DEF WorkType, Archives
  <1>2. CASE EditText
    <2>1. made' \in Documents /\ facade' \in Archives /\ facade'.source = facade.source
      BY <1>1, <1>2 DEF EditText
    <2>2. AutoType' /\ WorkType'
      BY <1>0, <1>2, <2>1, MarkType DEF EditText, AutoType, WorkType, talk
    <2>3. WindowType' /\ TaskType' /\ DiskType'
      BY <1>0, <1>2, MarkType
         DEF EditText, WindowType, TaskType, DiskType, taskVars, disk
    <2>4. Orderly'
      BY <1>2, <2>1, NothingType DEF EditText, Orderly, Idle, taskVars, disk, talk
    <2>. QED BY <2>2, <2>3, <2>4, TypeParts
  <1>3. CASE PanelStart
    <2>1. TypeOK'
      BY <1>0, <1>3, TypeParts
         DEF PanelStart, PanelStep, WindowType, TaskType, AutoType, DiskType, WorkType,
             windowVars, taskVars, autoVars, disk, talk
    <2>2. Orderly'
      BY <1>3, NothingType
         DEF PanelStart, PanelStep, Orderly, Idle, windowVars, taskVars, autoVars, talk
    <2>. QED BY <2>1, <2>2
  <1>4. CASE PanelRun
    <2>1. panel = "running" /\ panel' \in {"done", "landed"}
            /\ UNCHANGED <<taskVars, disk, named, promise, ours, windowVars, autoVars, settled>>
      BY <1>4 DEF PanelRun, PanelStep, talk
    <2>2. made < MaxEdits /\ facade.source # None
      BY <2>1 DEF Orderly
    <2>3. made' \in Documents /\ facade' \in Archives /\ facade'.source = facade.source
      BY <1>0, <1>1, <1>4, <2>2 DEF PanelRun, WorkType
    <2>4. TypeOK'
      BY <1>0, <2>1, <2>3, TypeParts
         DEF WindowType, TaskType, AutoType, DiskType, WorkType,
             windowVars, taskVars, autoVars, disk
    <2>5. Orderly'
      BY <2>1, <2>3, NothingType DEF Orderly, windowVars, taskVars, autoVars
    <2>. QED BY <2>4, <2>5
  <1>5. CASE PanelResult
    <2>1. AutoType' /\ WorkType'
      BY <1>0, <1>5, MarkType DEF PanelResult, PanelStep, AutoType, WorkType, talk
    <2>2. WindowType' /\ TaskType' /\ DiskType'
      BY <1>0, <1>5, MarkType
         DEF PanelResult, PanelStep, WindowType, TaskType, DiskType, taskVars, disk
    <2>3. Orderly'
      BY <1>5, NothingType DEF PanelResult, PanelStep, Orderly, taskVars, talk
    <2>. QED BY <2>1, <2>2, <2>3, TypeParts
  <1>6. CASE PanelFinished
    <2>1. AutoType'
      BY <1>0, <1>6 DEF PanelFinished, PanelStep, AutoType, WindowType
    <2>2. WindowType' /\ TaskType' /\ DiskType' /\ WorkType'
      BY <1>0, <1>6
         DEF PanelFinished, PanelStep, WindowType, TaskType, DiskType, WorkType,
             windowVars, taskVars, disk, talk
    <2>3. Orderly'
      BY <1>6 DEF PanelFinished, PanelStep, Orderly, windowVars, taskVars, talk
    <2>. QED BY <2>1, <2>2, <2>3, TypeParts
  <1>. QED BY <1>2, <1>3, <1>4, <1>5, <1>6

LEMMA CloseTyped ==
    ASSUME TypeOK, Orderly,
           CloseAccepted \/ CloseDiscarding \/ QueuedClose \/ Relaunch
    PROVE  TypeOK' /\ Orderly'
  <1>0. WindowType /\ TaskType /\ AutoType /\ DiskType /\ WorkType
    BY TypeParts
  <1>1. CASE CloseAccepted
    <2>1. TypeOK'
      BY <1>0, <1>1, TypeParts
         DEF CloseAccepted, KeepAllButClose, WindowType, TaskType, AutoType, DiskType,
             WorkType, taskVars, disk
    <2>2. Orderly'
      BY <1>1 DEF CloseAccepted, KeepAllButClose, Orderly, taskVars, disk
    <2>. QED BY <2>1, <2>2
  <1>2. CASE QueuedClose
    <2>1. WindowType' /\ TaskType' /\ AutoType'
      BY <1>0, <1>2
         DEF QueuedClose, KeepAllButClose, WindowType, TaskType, AutoType, taskVars
    <2>2. DiskType' /\ WorkType'
      BY <1>0, <1>2 DEF QueuedClose, KeepAllButClose, DiskType, WorkType, disk
    <2>3. Orderly'
      BY <1>2 DEF QueuedClose, KeepAllButClose, Orderly, taskVars
    <2>. QED BY <2>1, <2>2, <2>3, TypeParts
  <1>3. CASE CloseDiscarding
    <2>1. facade.doc \in Documents
      BY <1>0 DEF WorkType, Archives
    <2>2. settled' \in Documents
      BY <1>3, <2>1, SettleFacts DEF CloseDiscarding
    <2>3. Disk'
      BY <1>3, ActiveClearType DEF CloseDiscarding
    <2>4. AutoType' /\ WorkType'
      BY <1>0, <1>3, <2>2, Revised
         DEF CloseDiscarding, KeepAllButClose, AutoType, WorkType
    <2>5. WindowType' /\ TaskType'
      BY <1>0, <1>3 DEF CloseDiscarding, KeepAllButClose, WindowType, TaskType, taskVars
    <2>6. Orderly'
      BY <1>3 DEF CloseDiscarding, KeepAllButClose, Orderly, Idle, taskVars
    <2>. QED BY <2>3, <2>4, <2>5, <2>6, TypeParts DEF Disk, DiskType
  <1>4. CASE Relaunch
    <2>1. WindowType' /\ AutoType'
      BY <1>4, NoAutoType
         DEF Relaunch, Volatile, WindowType, AutoType, NoAuto, SourceOrNone
    <2>2. TaskType' /\ Orderly'
      BY <1>4, NothingType DEF Relaunch, Volatile, TaskType, Orderly, NoArchive
    <2>3. DiskType' /\ WorkType'
      BY <1>0, <1>4, NoArchiveType DEF Relaunch, Volatile, DiskType, WorkType
    <2>. QED BY <2>1, <2>2, <2>3, TypeParts
  <1>. QED BY <1>1, <1>2, <1>3, <1>4

(* Every step keeps the types and the order.                               *)
LEMMA NextTyped ==
    ASSUME TypeOK, Orderly, [Next]_vars
    PROVE  TypeOK' /\ Orderly'
  <1>1. CASE User
    BY <1>1, AskingTyped, OfferTyped, PanelTyped, CloseTyped DEF User, UserAsks
  <1>2. CASE Worker
    BY <1>2, WorkerTyped
  <1>3. CASE Signal
    BY <1>3, SignalTyped
  <1>4. CASE WriteRecovery \/ RecoveryResult \/ RecoveryFinished \/ Timer
    BY <1>4, RecoveryTyped
  <1>5. CASE PanelRun \/ PanelResult \/ PanelFinished \/ QueuedClose
    BY <1>5, PanelTyped, CloseTyped
  <1>6. CASE UNCHANGED vars
    BY <1>6 DEF vars, windowVars, taskVars, autoVars, disk, talk, TypeOK, Orderly
  <1>. QED BY <1>1, <1>2, <1>3, <1>4, <1>5, <1>6 DEF Next

(* Every variable of the window, its tasks, the facade and the recovery    *)
(* store has its type in every reachable state, for any set of images,     *)
(* faults and number of edits; a blocking task is on record exactly while  *)
(* one is under way.                                                       *)
THEOREM TypeCorrect == Spec => []TypeOK
  <1>1. Init => TypeOK /\ Orderly
    BY InitTyped
  <1>2. TypeOK /\ Orderly /\ [Next]_vars => TypeOK' /\ Orderly'
    BY NextTyped
  <1>. QED BY <1>1, <1>2, PTL DEF Spec
-----------------------------------------------------------------------------
(* The promise *)

(* Documents are numbered in the order they are made; what was saved is    *)
(* settled; an image without a name holds nothing; a finished task has     *)
(* done what it says.                                                      *)
Bounds ==
    /\ facade.doc <= made /\ archive.doc <= made /\ promise.doc <= made
    /\ settled <= made
    /\ \A d \in named : d <= settled
    /\ facade.source = None => facade.doc = 0
    /\ archive.source = None => archive.doc = 0
    /\ \A r \in {task, afterwards} : r.kind = "project" =>
         r.doc <= made /\ (~r.recovery => r.doc <= settled)
    /\ task.kind = "project" /\ phase = "done" =>
         IF task.recovery THEN ours ELSE facade.doc <= settled
    /\ task.kind = "save" /\ (phase = "done" \/ (phase = "landed" /\ afterwards # Nothing)) =>
         facade.doc <= settled

(* The last promise still stands: its document has not been saved,         *)
(* discarded or replaced.                                                  *)
Live == promise.doc > settled

(* A promise about the work in hand (ours): that work is loaded under the  *)
(* promised source, has not fallen behind it, and is dirty; only between   *)
(* the adoption of a recovered project and its queued result is it not     *)
(* marked yet, and a snapshot still in flight then is of another source.   *)
Mine == Live /\ ours =>
    /\ facade.source = promise.source
    /\ facade.doc >= promise.doc
    /\ \/ dirty
       \/ /\ task.kind = "project" /\ task.recovery /\ phase = "done"
          /\ \/ auto.phase = "idle"
             \/ auto.phase # "written" /\ auto.source # facade.source

(* A promise of an earlier run, not taken up.  Work done meanwhile is      *)
(* later than it, so whatever saves, discards or replaces that work        *)
(* settles the promise.                                                    *)
Later ==
    /\ \/ facade.doc >= promise.doc
       \/ /\ dirty => task.kind = "source" /\ phase = "done"
          /\ task.kind # "save" /\ panel # "done"
          /\ ~(task.kind = "edit" /\ phase = "done")
          /\ ~(task.discarded /\ ~task.recovery)
    /\ ~(task.discarded /\ ~task.recovery /\ phase = "done")
    /\ ~afterwards.discarded
    /\ task.discarded => task.kind \in {"source", "project"}
    /\ task.kind \in {"source", "project"} /\ dirty => task.discarded

(* A snapshot cannot be written under the promised source once the work it *)
(* was taken of was given up for the recovery.                             *)
Elsewhere == auto.phase # "idle" =>
    \/ auto.source # record
    \/ dirty /\ auto.source = facade.source /\ ~(task.kind = "source" /\ phase = "done")

(* A recovery under way is of the recorded source and reads the promised   *)
(* archive.                                                                *)
Recovering ==
    /\ task.kind = "source" /\ task.recovery =>
         task.source = record /\ (dirty => active # record)
    /\ afterwards.kind = "project" =>
         /\ afterwards.recovery => facade.source = record
         /\ task.kind = "source" => ~dirty /\ afterwards.recovery
    /\ task.kind = "project" /\ task.recovery =>
         /\ facade.source = record
         /\ phase \in {"read", "checked"} => task.doc = archive.doc

Theirs == Live /\ ~ours => Later /\ Elsewhere /\ Recovering

(* A window that waits for the last snapshot to close has kept its         *)
(* promise.                                                                *)
Waiting == closeWhenRecoveryFinishes => ~Live

(* A snapshot on disk whose result is still queued is of the work in hand  *)
(* and of the source it was started for.                                   *)
Written == auto.phase = "written" /\ archive.doc > settled =>
    ours /\ archive.source = auto.source /\ archive.doc <= facade.doc

(* The inductive invariant behind PromiseKept.                             *)
PromiseInv == Bounds /\ Mine /\ Theirs /\ Waiting /\ Written /\ PromiseKept

(* Starting a task changes no document.                                    *)
LEMMA AskingKeeps ==
    ASSUME TypeOK, Orderly, PromiseInv, task = Nothing,
           UNCHANGED <<facade, archive, record, promise, settled, made, named, ours, dirty,
                       auto, closeWhenRecoveryFinishes, active, panel>>,
           NEW r \in Requests, NEW t \in Requests, Asked(r, t)
    PROVE  PromiseInv'
  <1>1. task' = r /\ phase' = "running" /\ afterwards' = t
    BY DEF Asked, Start
  <1>2. t = Nothing \/ t.kind \in {"source", "project", "close"}
    BY DEF Asked
  <1>3. Bounds'
    BY <1>1, Typed DEF Asked, PromiseInv, Bounds
  <1>4. Mine'
    BY <1>1, NothingType DEF Asked, PromiseInv, Mine, Live
  <1>6. Theirs'
    <2>. SUFFICES ASSUME Live, ~ours PROVE Later' /\ Elsewhere' /\ Recovering'
      BY DEF Theirs, Live
    <2>1. Later /\ Elsewhere /\ active = facade.source /\ task.kind = "none"
      BY NothingType DEF PromiseInv, Theirs, Orderly
    <2>2. Later'
      BY <1>1, <2>1, NothingType DEF Asked, Later
    <2>3. Elsewhere' /\ Recovering'
      BY <1>1, <1>2, <2>1, NothingType DEF Asked, Elsewhere, Recovering
    <2>. QED BY <2>2, <2>3
  <1>5. Waiting' /\ Written' /\ PromiseKept'
    BY <1>1 DEF PromiseInv, Waiting, Written, PromiseKept, Live, Candidate
  <1>. QED BY <1>3, <1>4, <1>5, <1>6 DEF PromiseInv

(* The workers: a task done by a pool thread only settles what it          *)
(* replaces.                                                               *)
LEMMA WorkerKeeps ==
    ASSUME TypeOK, Orderly, PromiseInv, Worker, TypeOK'
    PROVE  PromiseInv'
  <1>. USE Typed DEF PromiseInv
  <1>0. ASSUME KeepAllButWork
        PROVE  UNCHANGED <<archive, record, promise, dirty, auto, active,
                           closeWhenRecoveryFinishes, panel>>
    BY <1>0 DEF KeepAllButWork, windowVars, autoVars
  <1>1. ASSUME NEW d \in Documents, facade' = [facade EXCEPT !.doc = d]
        PROVE  facade'.source = facade.source /\ facade'.doc = d
    BY <1>1 DEF Archives
  <1>2. ASSUME Settle(facade.doc)
        PROVE  /\ settled' >= settled /\ settled' >= facade.doc
               /\ settled' \in {settled, facade.doc}
    <2>1. facade.doc \in Documents
      BY DEF TypeOK, Archives
    <2>. QED BY <1>2, <2>1, SettleFacts
  <1>5. CASE RunEdit
    <2>1. /\ facade'.source = facade.source /\ facade'.doc = made + 1 /\ made' = made + 1
          /\ UNCHANGED <<task, afterwards, settled, named, ours>>
          /\ phase' = "done" /\ task.kind = "edit"
      BY <1>1, <1>5 DEF RunEdit, Reach, TypeOK
    <2>2. UNCHANGED <<archive, record, promise, dirty, auto, active, closeWhenRecoveryFinishes,
                    panel>>
      BY <1>0, <1>5 DEF RunEdit
    <2>3. Bounds'
      BY <2>1, <2>2 DEF Bounds, Orderly
    <2>4. Mine'
      BY <2>1, <2>2 DEF Mine, Live, Bounds, Orderly
    <2>6. Theirs'
      BY <2>1, <2>2
         DEF Theirs, Later, Elsewhere, Recovering, Live, Bounds, Orderly
    <2>5. Waiting' /\ Written' /\ PromiseKept'
      BY <2>1, <2>2 DEF Waiting, Written, PromiseKept, Live, Candidate, Bounds
    <2>. QED BY <2>3, <2>4, <2>5, <2>6
  <1>6. CASE RunSave
    <2>1. /\ UNCHANGED <<task, afterwards, facade, made, ours>>
          /\ phase' = "done" /\ task.kind = "save" /\ named' = named \cup {facade.doc}
          /\ settled' >= settled /\ settled' >= facade.doc
          /\ settled' \in {settled, facade.doc}
      BY <1>2, <1>6 DEF RunSave, Reach
    <2>2. UNCHANGED <<archive, record, promise, dirty, auto, active, closeWhenRecoveryFinishes,
                    panel>>
      BY <1>0, <1>6 DEF RunSave
    <2>3. Bounds'
      BY <2>1, <2>2 DEF Bounds, Orderly
    <2>4. Mine'
      BY <2>1, <2>2 DEF Mine, Live, Bounds, Orderly
    <2>6. Theirs'
      BY <2>1, <2>2
         DEF Theirs, Later, Elsewhere, Recovering, Live, Bounds, Orderly
    <2>5. Waiting' /\ Written' /\ PromiseKept'
      BY <2>1, <2>2 DEF Waiting, Written, PromiseKept, Live, Candidate, Bounds
    <2>. QED BY <2>3, <2>4, <2>5, <2>6
  <1>7. ASSUME NEW s \in Sources, RunSource(s) PROVE PromiseInv'
    <2>1. /\ UNCHANGED <<task, afterwards, named, made>>
          /\ phase = "running" /\ phase' = "done" /\ task.kind = "source"
          /\ facade'.source = s /\ facade'.doc = 0 /\ s # None
          /\ settled' >= settled /\ settled' \in {settled, facade.doc}
          /\ settled' >= facade.doc \/ (task.recovery /\ ~ours)
          /\ ours' <=> (ours /\ ~task.recovery)
      BY <1>7, ReplacedFacts, WorkspaceAssumption DEF RunSource, Reach
    <2>2. UNCHANGED <<archive, record, promise, dirty, auto, active, closeWhenRecoveryFinishes,
                    panel>>
      BY <1>0, <1>7 DEF RunSource
    <2>3. Bounds'
      BY <2>1, <2>2 DEF Bounds, Orderly
    <2>4. Mine'
      BY <2>1, <2>2 DEF Mine, Live, Bounds, Orderly
    <2>6. Theirs'
      <3>. SUFFICES ASSUME Live', ~ours' PROVE Later' /\ Elsewhere' /\ Recovering'
        BY DEF Theirs
      <3>1. Live /\ ~ours
        BY <2>1, <2>2 DEF Live, Mine
      <3>2. Later /\ Elsewhere /\ Recovering
        BY <3>1 DEF Theirs
      <3>3. task.recovery \/ ~dirty
        BY <2>1, <2>2, <3>2 DEF Live, Later
      <3>4. panel = "idle" /\ active = facade.source /\ afterwards = Nothing
        BY <2>1, NothingType DEF Orderly
      <3>5. Later' /\ Elsewhere'
        BY <2>1, <2>2, <3>2, <3>3, <3>4 DEF Live, Later, Elsewhere, Recovering
      <3>6. Recovering'
        BY <2>1, <2>2, <3>2, <3>4, NothingType DEF Recovering
      <3>. QED BY <3>5, <3>6
    <2>5. Waiting' /\ Written' /\ PromiseKept'
      BY <2>1, <2>2 DEF Waiting, Written, PromiseKept, Live, Candidate, Bounds
    <2>. QED BY <2>3, <2>4, <2>5, <2>6
  <1>8. CASE ReadProject
    <2>1. /\ UNCHANGED <<afterwards, facade, named, made, settled, ours>>
          /\ phase = "running" /\ phase' \in {"read", "failed"} /\ task.kind = "project"
          /\ task'.kind = "project" /\ task'.recovery = task.recovery /\ task'.discarded = task.discarded
          /\ \/ phase' = "failed" /\ task' = task
             \/ ~task.recovery /\ task' = task
             \/ task.recovery /\ task'.doc = archive.doc
      BY <1>8 DEF ReadProject, Reach, Requests
    <2>2. UNCHANGED <<archive, record, promise, dirty, auto, active, closeWhenRecoveryFinishes,
                    panel>>
      BY <1>0, <1>8 DEF ReadProject
    <2>3. Bounds'
      BY <2>1, <2>2 DEF Bounds, Orderly
    <2>4. Mine'
      BY <2>1, <2>2 DEF Mine, Live, Bounds, Orderly
    <2>6. Theirs'
      BY <2>1, <2>2
         DEF Theirs, Later, Elsewhere, Recovering, Live, Bounds, Orderly
    <2>5. Waiting' /\ Written' /\ PromiseKept'
      BY <2>1, <2>2 DEF Waiting, Written, PromiseKept, Live, Candidate, Bounds
    <2>. QED BY <2>3, <2>4, <2>5, <2>6
  <1>9. CASE CheckProject \/ TaskFails
    <2>1. /\ UNCHANGED <<task, afterwards, facade, named, made, settled, ours>>
          /\ phase' \in {"checked", "failed"}
          /\ phase' = "checked" => task.kind = "project" /\ phase = "read"
          /\ phase # "done" /\ phase # "landed"
      BY <1>9 DEF CheckProject, TaskFails, Reach
    <2>2. UNCHANGED <<archive, record, promise, dirty, auto, active, closeWhenRecoveryFinishes,
                    panel>>
      BY <1>0, <1>9 DEF CheckProject, TaskFails
    <2>3. Bounds'
      BY <2>1, <2>2 DEF Bounds, Orderly
    <2>4. Mine'
      BY <2>1, <2>2 DEF Mine, Live, Bounds, Orderly
    <2>6. Theirs'
      BY <2>1, <2>2
         DEF Theirs, Later, Elsewhere, Recovering, Live, Bounds, Orderly
    <2>5. Waiting' /\ Written' /\ PromiseKept'
      BY <2>1, <2>2 DEF Waiting, Written, PromiseKept, Live, Candidate, Bounds
    <2>. QED BY <2>3, <2>4, <2>5, <2>6
  <1>10. CASE AdoptProject
    <2>1. /\ UNCHANGED <<task, afterwards, named, made>>
          /\ phase = "checked" /\ phase' = "done" /\ task.kind = "project"
          /\ facade'.source = facade.source /\ facade'.doc = task.doc
          /\ settled' >= settled /\ settled' \in {settled, facade.doc}
          /\ settled' >= facade.doc \/ (task.recovery /\ ~ours)
          /\ ours' <=> (ours \/ task.recovery)
      BY <1>1, <1>10, ReplacedFacts DEF AdoptProject, Reach, Requests
    <2>2. UNCHANGED <<archive, record, promise, dirty, auto, active, closeWhenRecoveryFinishes,
                    panel>>
      BY <1>0, <1>10 DEF AdoptProject
    <2>3. Bounds'
      BY <2>1, <2>2 DEF Bounds, Orderly
    <2>4. Mine'
      BY <2>1, <2>2
         DEF Mine, Theirs, Later, Elsewhere, Recovering, Live, Bounds, Orderly,
             PromiseKept, Written
    <2>6. Theirs'
      BY <2>1, <2>2
         DEF Theirs, Later, Elsewhere, Recovering, Live, Bounds, Orderly
    <2>5. Waiting' /\ Written' /\ PromiseKept'
      BY <2>1, <2>2 DEF Waiting, Written, PromiseKept, Live, Candidate, Bounds
    <2>. QED BY <2>3, <2>4, <2>5, <2>6
  <1>. QED BY <1>5, <1>6, <1>7, <1>8, <1>9, <1>10 DEF Worker

(* A clean-up leaves the archive or removes it.                            *)
LEMMA Cleared ==
    ASSUME TypeOK
    PROVE  /\ ClearRecovery => archive' = NoArchive
           /\ ClearForActiveSource => archive' \in {archive, NoArchive}
           /\ RecordRecent(ClearForActiveSource) => archive' \in {archive, NoArchive}
           /\ RecordRecent(ClearRecovery) => archive' \in {archive, NoArchive}
           /\ NoArchive.doc = 0 /\ NoArchive.source = None
  BY DEF ClearRecovery, ClearForActiveSource, RecordRecent, disk, NoArchive

(* The queued results: a clean-up comes only after the promise was         *)
(* settled.                                                                *)
LEMMA SignalKeeps ==
    ASSUME TypeOK, Orderly, PromiseInv, Signal, TypeOK'
    PROVE  PromiseInv'
  <1>. USE Typed DEF PromiseInv
  <1>0. ASSUME KeepAllButResult
        PROVE  UNCHANGED <<facade, named, made, ours, task, panel, closeWhenRecoveryFinishes>>
    BY <1>0 DEF KeepAllButResult
  <1>1. NoArchive.doc = 0 /\ NoArchive.source = None
    BY DEF NoArchive
  <1>2. CASE TaskError
    <2>1. /\ UNCHANGED <<facade, named, made, ours, task, panel, closeWhenRecoveryFinishes, dirty,
                         auto, archive, record, promise, settled, active>>
          /\ phase' = "landed" /\ phase = "failed" /\ afterwards' = Nothing
      BY <1>0, <1>2 DEF TaskError, Land, disk
    <2>2. Bounds'
      BY <2>1, NothingType DEF Bounds, Orderly
    <2>3. Mine' /\ Theirs'
      BY <2>1, RequestType DEF Mine, Theirs, Later, Elsewhere, Recovering, Live, Nothing
    <2>4. Waiting' /\ Written' /\ PromiseKept'
      BY <2>1 DEF Waiting, Written, PromiseKept, Live, Candidate
    <2>. QED BY <2>2, <2>3, <2>4
  <1>3. CASE EditResult
    <2>1. /\ UNCHANGED <<facade, named, made, ours, task, panel, closeWhenRecoveryFinishes,
                         afterwards, archive, record, promise, settled, active>>
          /\ task.kind = "edit" /\ phase' = "landed" /\ phase = "done"
          /\ MarkWorkspaceChanged
      BY <1>0, <1>3 DEF EditResult, Land, disk
    <2>2. /\ dirty'
          /\ \/ auto'.phase = auto.phase /\ auto'.source = auto.source
             \/ auto.phase = "idle" /\ auto'.phase = "running" /\ auto'.source = active
      BY <2>1, MarkType
    <2>3. Bounds'
      BY <2>1, <2>2, NothingType DEF Bounds, Orderly
    <2>4. Mine' /\ Theirs'
      BY <2>1, <2>2 DEF Mine, Theirs, Later, Elsewhere, Recovering, Live, Orderly
    <2>5. Waiting' /\ Written' /\ PromiseKept'
      BY <2>1, <2>2 DEF Waiting, Written, PromiseKept, Live, Candidate
    <2>. QED BY <2>3, <2>4, <2>5
  <1>4. CASE SaveResult
    <2>1. /\ UNCHANGED <<facade, named, made, ours, task, panel, closeWhenRecoveryFinishes,
                         afterwards, auto, promise, settled>>
          /\ task.kind = "save" /\ phase' = "landed" /\ phase = "done"
          /\ ~dirty' /\ archive' \in {archive, NoArchive}
      BY <1>0, <1>4, Cleared DEF SaveResult, Land
    <2>2. ~Live
      BY <2>1 DEF Bounds, Mine, Theirs, Later, Live
    <2>3. Bounds'
      BY <1>1, <2>1 DEF Bounds
    <2>4. Mine' /\ Theirs' /\ Waiting' /\ PromiseKept'
      BY <2>1, <2>2 DEF Mine, Theirs, Waiting, PromiseKept, Live
    <2>5. Written'
      BY <1>1, <2>1 DEF Written
    <2>. QED BY <2>3, <2>4, <2>5
  <1>5. CASE SourceResult
    <2>1. /\ UNCHANGED <<facade, named, made, ours, task, panel, closeWhenRecoveryFinishes,
                         promise, settled>>
          /\ task.kind = "source" /\ phase' = "landed" /\ phase = "done"
          /\ ~dirty' /\ auto' = NewRevision
          /\ facade.doc = 0
      BY <1>0, <1>5 DEF SourceResult, Land, Orderly
    <2>2. auto'.phase = auto.phase /\ auto'.source = auto.source
      BY <2>1, Revised
    <2>3. /\ archive' \in {archive, NoArchive}
          /\ ClearsPrevious \/ UNCHANGED <<archive, record>>
      BY <1>5, Cleared DEF SourceResult, disk
    <2>4. LET request == [Request("project") EXCEPT !.recovery = TRUE]
          IN  request.doc = 0 /\ request.kind = "project" /\ request.recovery /\ ~request.discarded
      BY RequestType DEF Requests
    <2>5. /\ afterwards'.kind = "project" => afterwards'.doc = 0 /\ afterwards'.recovery
          /\ ~afterwards'.discarded
          /\ afterwards' # Nothing =>
                afterwards'.recovery /\ task.recovery /\ facade.source = task.source
      BY <1>5, <2>4, RequestType DEF SourceResult, Nothing
    <2>6. Bounds'
      BY <1>1, <2>1, <2>3, <2>5 DEF Bounds
    <2>7. Live => ~ours /\ ~ClearsPrevious
      BY <2>1 DEF Mine, Theirs, Later, Live, ClearsPrevious
    <2>10. Theirs'
      <3>1. CASE Live /\ ~ours
        <4>1. auto.phase # "idle" => auto.source # record
          BY <2>1, <3>1 DEF Theirs, Later, Elsewhere, Recovering, Orderly
        <4>. QED
          BY <2>1, <2>2, <2>3, <2>5, <2>7, <3>1, <4>1, NothingType
             DEF Theirs, Later, Elsewhere, Recovering, Live
      <3>. QED BY <2>1, <3>1 DEF Theirs, Live
    <2>8. Mine' /\ Waiting' /\ PromiseKept'
      BY <2>1, <2>2, <2>3, <2>5, <2>7
         DEF Mine, Waiting, PromiseKept, Live, Candidate
    <2>9. Written'
      BY <1>1, <2>1, <2>2, <2>3 DEF Written
    <2>. QED BY <2>6, <2>8, <2>9, <2>10
  <1>6. CASE ProjectResult
    <2>1. /\ UNCHANGED <<facade, named, made, ours, task, panel, closeWhenRecoveryFinishes,
                         promise, settled, afterwards, auto, active>>
          /\ task.kind = "project" /\ phase' = "landed" /\ phase = "done"
          /\ dirty' = task.recovery
          /\ archive' \in {archive, NoArchive}
          /\ ClearsPrevious \/ UNCHANGED <<archive, record>>
      BY <1>0, <1>6, Cleared DEF ProjectResult, Land, disk
    <2>2. Bounds'
      BY <1>1, <2>1 DEF Bounds
    <2>3. Live => ~ClearsPrevious /\ (ours => task.recovery)
      BY <2>1 DEF Mine, Theirs, Later, Live, ClearsPrevious, Bounds
    <2>6. Theirs'
      BY <2>1, <2>3
         DEF Theirs, Later, Elsewhere, Recovering, Live, Bounds, Orderly
    <2>4. Mine' /\ Waiting' /\ PromiseKept'
      BY <2>1, <2>3 DEF Mine, Waiting, PromiseKept, Live, Candidate, Bounds
    <2>5. Written'
      BY <1>1, <2>1 DEF Written
    <2>. QED BY <2>2, <2>4, <2>5, <2>6
  <1>7. CASE TaskFinished
    <2>1. /\ UNCHANGED <<facade, named, made, ours, dirty, promise, settled, auto, archive, record,
                         active, panel>>
          /\ phase = "landed"
          /\ \/ task' = afterwards /\ phase' = "running" /\ afterwards' = Nothing
             \/ task' = Nothing /\ phase' = "idle" /\ afterwards' = Nothing
          /\ \/ UNCHANGED closeWhenRecoveryFinishes
             \/ afterwards.kind = "close"
      BY <1>7 DEF TaskFinished, Start, EndTask, autoVars, disk, talk
    <2>2. afterwards.kind = "close" => ~Live
      BY <2>1, NothingType DEF Orderly, Bounds, Mine, Theirs, Later, Live
    <2>3. Bounds'
      BY <2>1, NothingType DEF Bounds
    <2>4. Mine'
      BY <2>1, RequestType DEF Mine, Live, Nothing, Orderly
    <2>6. task.kind = "save" /\ afterwards # Nothing => ~Live
      BY <2>1 DEF Bounds, Mine, Theirs, Later, Live
    <2>7. Theirs'
      BY <2>1, <2>6, RequestType
         DEF Theirs, Later, Elsewhere, Recovering, Live, Nothing, Orderly
    <2>5. Waiting' /\ Written' /\ PromiseKept'
      BY <2>1, <2>2 DEF Waiting, Written, PromiseKept, Live, Candidate
    <2>. QED BY <2>3, <2>4, <2>5, <2>7
  <1>. QED BY <1>2, <1>3, <1>4, <1>5, <1>6, <1>7 DEF Signal

(* The recovery snapshot: written over by the same work or later work,     *)
(* registered under its source, cleared when it was superseded.            *)
LEMMA RecoveryKeeps ==
    ASSUME TypeOK, Orderly, PromiseInv, TypeOK',
           WriteRecovery \/ RecoveryResult \/ RecoveryFinished \/ Timer
    PROVE  PromiseInv'
  <1>. USE Typed DEF PromiseInv
  <1>1. NoArchive.doc = 0 /\ NoArchive.source = None
    BY DEF NoArchive
  <1>2. ASSUME NEW p \in {"written", "failed", "landed"}, auto' = [auto EXCEPT !.phase = p]
        PROVE  auto'.phase = p /\ auto'.source = auto.source
    BY <1>2 DEF Autos
  <1>3. CASE WriteRecovery
    <2>1. /\ UNCHANGED <<facade, named, made, dirty, settled, record, task, phase,
                         afterwards, closeWhenRecoveryFinishes, active, panel>>
          /\ auto.phase = "running" /\ auto'.phase \in {"written", "failed"}
          /\ auto'.source = auto.source
          /\ \/ /\ auto'.phase = "failed" /\ UNCHANGED <<archive, ours, promise>>
             \/ /\ auto'.phase = "written" /\ ours' /\ archive' = facade
                /\ facade.source = auto.source
                /\ promise' = IF ours THEN promise ELSE NoArchive
      BY <1>2, <1>3 DEF WriteRecovery, SourceUnchanged, windowVars, taskVars
    <2>2. Bounds'
      BY <1>1, <2>1 DEF Bounds
    <2>3. Mine' /\ Theirs'
      BY <1>1, <2>1 DEF Mine, Theirs, Later, Elsewhere, Recovering, Live
    <2>4. Waiting' /\ Written' /\ PromiseKept'
      BY <1>1, <2>1 DEF Waiting, Written, PromiseKept, Mine, Live, Candidate
    <2>. QED BY <2>2, <2>3, <2>4
  <1>4. CASE RecoveryResult
    <2>1. /\ UNCHANGED <<facade, named, made, dirty, settled, task, phase, ours,
                         afterwards, closeWhenRecoveryFinishes, active, panel>>
          /\ auto.phase \in {"written", "failed"} /\ auto'.phase = "landed"
          /\ auto'.source = auto.source
      BY <1>2, <1>4 DEF RecoveryResult, windowVars, taskVars
    <2>5. Live /\ auto.phase = "written" => ours
      BY DEF Live, Written, PromiseKept
    <2>2. CASE UNCHANGED <<archive, record, promise>>
      <3>1. Bounds'
        BY <1>1, <2>1, <2>2 DEF Bounds
      <3>2. Mine' /\ Theirs'
        BY <1>1, <2>1, <2>2, <2>5
           DEF Mine, Theirs, Later, Elsewhere, Recovering, Live, Written, Bounds
      <3>3. Waiting' /\ Written' /\ PromiseKept'
        BY <1>1, <2>1, <2>2
           DEF Waiting, Written, PromiseKept, Mine, Live, Candidate, Bounds
      <3>. QED BY <3>1, <3>2, <3>3
    <2>3. CASE auto.phase = "written" /\ ~dirty /\ archive' \in {archive, NoArchive} /\ UNCHANGED promise
      <3>1. Bounds'
        BY <1>1, <2>1, <2>3 DEF Bounds
      <3>2. Mine' /\ Theirs'
        BY <1>1, <2>1, <2>3, <2>5
           DEF Mine, Theirs, Later, Elsewhere, Recovering, Live, Written, Bounds
      <3>3. Waiting' /\ Written' /\ PromiseKept'
        BY <1>1, <2>1, <2>3
           DEF Waiting, Written, PromiseKept, Mine, Live, Candidate, Bounds
      <3>. QED BY <3>1, <3>2, <3>3
    <2>4. CASE /\ auto.phase = "written" /\ dirty /\ facade.source = auto.source
               /\ record' \in {record, auto.source}
               /\ archive' = archive
               /\ \/ promise' = promise
                  \/ /\ record' = auto.source /\ ~closeWhenRecoveryFinishes
                     /\ promise' = [source |-> auto.source, doc |-> archive.doc]
      <3>1. Bounds'
        BY <1>1, <2>1, <2>4 DEF Bounds
      <3>2. Mine' /\ Theirs'
        BY <1>1, <2>1, <2>4, <2>5
           DEF Mine, Theirs, Later, Elsewhere, Recovering, Live, Written, Bounds
      <3>3. Waiting' /\ Written' /\ PromiseKept'
        BY <1>1, <2>1, <2>4
           DEF Waiting, Written, PromiseKept, Mine, Live, Candidate, Bounds
      <3>. QED BY <3>1, <3>2, <3>3
    <2>. QED
      BY <1>4, <2>2, <2>3, <2>4, Cleared
         DEF RecoveryResult, Superseded, RegisterRecovery, disk
  <1>5. CASE RecoveryFinished
    <2>1. /\ UNCHANGED <<facade, named, made, dirty, promise, settled, ours, task, phase,
                         afterwards, active, panel>>
          /\ auto'.phase = "idle"
          /\ closeWhenRecoveryFinishes' => closeWhenRecoveryFinishes
          /\ archive' \in {archive, NoArchive}
          /\ closeWhenRecoveryFinishes \/ UNCHANGED <<archive, record>>
      BY <1>5, Cleared DEF RecoveryFinished, taskVars, talk, disk, NoAuto
    <2>2. Bounds'
      BY <1>1, <2>1 DEF Bounds
    <2>3. Mine' /\ Theirs'
      BY <2>1 DEF Mine, Theirs, Later, Elsewhere, Recovering, Waiting, Live
    <2>4. Waiting' /\ Written' /\ PromiseKept'
      BY <2>1 DEF Waiting, Written, PromiseKept, Live, Candidate
    <2>. QED BY <2>2, <2>3, <2>4
  <1>6. CASE Timer
    <2>1. /\ UNCHANGED <<facade, named, made, dirty, promise, settled, ours, task, phase,
                         afterwards, archive, record, closeWhenRecoveryFinishes, active,
                         panel>>
          /\ \/ auto'.phase = auto.phase /\ auto'.source = auto.source
             \/ dirty /\ auto'.phase = "running" /\ auto'.source = active
          /\ dirty \/ auto' = auto
      BY <1>6, SnapshotType DEF Timer, windowVars, taskVars, talk, disk, TypeOK, Autos
    <2>2. Bounds'
      BY <2>1 DEF Bounds
    <2>3. Mine'
      BY <2>1 DEF Mine, Live
    <2>5. Theirs'
      BY <2>1 DEF Theirs, Later, Elsewhere, Recovering, Live, Orderly
    <2>4. Waiting' /\ Written' /\ PromiseKept'
      BY <2>1 DEF Waiting, Written, PromiseKept, Live, Candidate
    <2>. QED BY <2>2, <2>3, <2>4, <2>5
  <1>. QED BY <1>3, <1>4, <1>5, <1>6

(* Text edits and the embedded panels make later documents.                *)
LEMMA PanelKeeps ==
    ASSUME TypeOK, Orderly, PromiseInv, TypeOK',
           EditText \/ PanelStart \/ PanelRun \/ PanelResult \/ PanelFinished
    PROVE  PromiseInv'
  <1>. USE Typed DEF PromiseInv
  <1>1. ASSUME NEW d \in Documents, facade' = [facade EXCEPT !.doc = d]
        PROVE  facade'.source = facade.source /\ facade'.doc = d
    BY <1>1 DEF Archives
  <1>2. ASSUME MarkWorkspaceChanged
        PROVE  /\ dirty'
               /\ \/ auto'.phase = auto.phase /\ auto'.source = auto.source
                  \/ auto.phase = "idle" /\ auto'.phase = "running" /\ auto'.source = active
    BY <1>2, MarkType
  <1>3. CASE EditText
    <2>1. /\ UNCHANGED <<named, ours, task, phase, afterwards, closeWhenRecoveryFinishes,
                         archive, record, promise, settled, active, panel>>
          /\ task = Nothing /\ made' = made + 1 /\ facade.source # None
          /\ facade'.source = facade.source /\ facade'.doc = made'
      BY <1>1, <1>3 DEF EditText, Idle, taskVars, disk, talk, TypeOK
    <2>2. MarkWorkspaceChanged
      BY <1>3 DEF EditText
    <2>3. Bounds'
      BY <1>2, <2>1, <2>2, NothingType DEF Bounds
    <2>4. Mine' /\ Theirs'
      BY <1>2, <2>1, <2>2, NothingType
         DEF Mine, Theirs, Later, Elsewhere, Recovering, Live, Bounds, Orderly
    <2>5. Waiting' /\ Written' /\ PromiseKept'
      BY <1>2, <2>1, <2>2 DEF Waiting, Written, PromiseKept, Live, Candidate, Bounds
    <2>. QED BY <2>3, <2>4, <2>5
  <1>4. CASE PanelResult
    <2>1. /\ UNCHANGED <<facade, named, made, ours, task, phase, afterwards,
                         closeWhenRecoveryFinishes, archive, record, promise, settled, active>>
          /\ MarkWorkspaceChanged /\ task = Nothing /\ panel = "done" /\ panel' = "landed"
      BY <1>4 DEF PanelResult, PanelStep, taskVars, disk, talk, Orderly
    <2>2. Bounds'
      BY <1>2, <2>1 DEF Bounds
    <2>3. Mine' /\ Theirs'
      BY <1>2, <2>1, NothingType
         DEF Mine, Theirs, Later, Elsewhere, Recovering, Live, Orderly
    <2>4. Waiting' /\ Written' /\ PromiseKept'
      BY <1>2, <2>1 DEF Waiting, Written, PromiseKept, Live, Candidate
    <2>. QED BY <2>2, <2>3, <2>4
  <1>5. CASE PanelStart \/ PanelFinished
    <2>1. /\ UNCHANGED <<facade, named, made, ours, task, phase, afterwards, dirty, auto, settled,
                         closeWhenRecoveryFinishes, archive, record, promise, active>>
          /\ panel' # "done"
      BY <1>5
         DEF PanelStart, PanelFinished, PanelStep, windowVars, autoVars, taskVars, disk,
             talk
    <2>2. Bounds' /\ Mine' /\ Theirs'
      BY <2>1 DEF Bounds, Mine, Theirs, Later, Elsewhere, Recovering, Live
    <2>3. Waiting' /\ Written' /\ PromiseKept'
      BY <2>1 DEF Waiting, Written, PromiseKept, Live, Candidate
    <2>. QED BY <2>2, <2>3
  <1>6. CASE PanelRun
    <2>1. /\ UNCHANGED <<named, ours, task, phase, afterwards, dirty, auto, settled,
                         closeWhenRecoveryFinishes, archive, record, promise, active>>
          /\ panel = "running" /\ task = Nothing /\ facade.source # None
      BY <1>6 DEF PanelRun, PanelStep, windowVars, autoVars, taskVars, disk, talk, Orderly
    <2>2. /\ facade'.source = facade.source
          /\ \/ made' = made /\ facade'.doc = facade.doc
                /\ panel' = "landed"
             \/ made' = made + 1 /\ facade'.doc = made'
      BY <1>1, <1>6 DEF PanelRun, PanelStep, TypeOK
    <2>3. Bounds'
      BY <2>1, <2>2, NothingType DEF Bounds
    <2>4. Mine' /\ Theirs'
      BY <2>1, <2>2, NothingType
         DEF Mine, Theirs, Later, Elsewhere, Recovering, Live, Bounds, Orderly
    <2>5. Waiting' /\ Written' /\ PromiseKept'
      BY <2>1, <2>2 DEF Waiting, Written, PromiseKept, Live, Candidate, Bounds
    <2>. QED BY <2>3, <2>4, <2>5
  <1>. QED BY <1>3, <1>4, <1>5, <1>6

(* Closing, and the crash or restart.                                      *)
LEMMA CloseKeeps ==
    ASSUME TypeOK, Orderly, PromiseInv, TypeOK',
           CloseAccepted \/ CloseDiscarding \/ QueuedClose \/ Relaunch
    PROVE  PromiseInv'
  <1>. USE Typed DEF PromiseInv
  <1>1. NoArchive.doc = 0 /\ NoArchive.source = None
    BY DEF NoArchive
  <1>2. CASE CloseAccepted \/ QueuedClose
    <2>1. UNCHANGED <<facade, named, made, ours, task, phase, afterwards, dirty, auto, settled,
                      closeWhenRecoveryFinishes, archive, record, promise, active, panel>>
      BY <1>2 DEF CloseAccepted, QueuedClose, KeepAllButClose, taskVars, disk
    <2>2. Bounds' /\ Mine' /\ Theirs'
      BY <2>1 DEF Bounds, Mine, Theirs, Later, Elsewhere, Recovering, Live
    <2>3. Waiting' /\ Written' /\ PromiseKept'
      BY <2>1 DEF Waiting, Written, PromiseKept, Live, Candidate
    <2>. QED BY <2>2, <2>3
  <1>3. CASE CloseDiscarding
    <2>1. /\ UNCHANGED <<facade, named, made, promise, ours, task, phase, afterwards>>
          /\ dirty /\ auto' = NewRevision /\ task = Nothing
          /\ archive' \in {archive, NoArchive}
      BY <1>3, Cleared DEF CloseDiscarding, KeepAllButClose, taskVars, Idle, disk
    <2>2. auto'.phase = auto.phase /\ auto'.source = auto.source
      BY <2>1, Revised
    <2>3. settled' >= settled /\ settled' >= facade.doc /\ settled' \in {settled, facade.doc}
      <3>1. facade.doc \in Documents
        BY DEF TypeOK, Archives
      <3>. QED BY <1>3, <3>1, SettleFacts DEF CloseDiscarding
    <2>4. ~Live'
      BY <2>1, <2>3, NothingType DEF Live, Mine, Theirs, Later
    <2>5. Bounds'
      BY <1>1, <2>1, <2>3, NothingType DEF Bounds
    <2>6. Mine' /\ Theirs' /\ Waiting' /\ PromiseKept'
      BY <2>4 DEF Mine, Theirs, Waiting, PromiseKept, Live
    <2>7. Written'
      BY <1>1, <2>1, <2>2, <2>3 DEF Written
    <2>. QED BY <2>5, <2>6, <2>7
  <1>4. CASE Relaunch
    <2>1. /\ UNCHANGED <<archive, record, named, made, settled, promise>>
          /\ task' = Nothing /\ phase' = "idle" /\ afterwards' = Nothing
          /\ ~dirty' /\ ~ours' /\ auto'.phase = "idle" /\ ~closeWhenRecoveryFinishes'
          /\ facade' = NoArchive /\ panel' = "idle"
      BY <1>4 DEF Relaunch, Volatile, NoAuto
    <2>2. Bounds'
      BY <1>1, <2>1, NothingType DEF Bounds
    <2>3. Mine' /\ Theirs'
      BY <2>1, RequestType
         DEF Mine, Theirs, Later, Elsewhere, Recovering, Live, Nothing
    <2>4. Waiting' /\ Written' /\ PromiseKept'
      BY <2>1 DEF Waiting, Written, PromiseKept, Live, Candidate
    <2>. QED BY <2>2, <2>3, <2>4
  <1>. QED BY <1>2, <1>3, <1>4

(* The offer made when the window is first shown.                          *)
LEMMA OfferKeeps ==
    ASSUME TypeOK, Orderly, PromiseInv, TypeOK', OfferStartupRecovery
    PROVE  PromiseInv'
  <1>. USE Typed DEF PromiseInv
  <1>1. /\ UNCHANGED <<facade, named, made, promise, ours, dirty, auto, closeWhenRecoveryFinishes,
                         active, panel>>
        /\ task = Nothing /\ phase = "idle" /\ afterwards = Nothing /\ auto = NoAuto
    BY DEF OfferStartupRecovery, autoVars, Orderly, TypeOK
  <1>2. CASE UNCHANGED <<taskVars, disk, settled>>
    <2>1. UNCHANGED <<task, phase, afterwards, archive, record, settled>>
      BY <1>2 DEF taskVars, disk
    <2>2. Bounds' /\ Mine' /\ Theirs'
      BY <1>1, <2>1 DEF Bounds, Mine, Theirs, Later, Elsewhere, Recovering, Live
    <2>3. Waiting' /\ Written' /\ PromiseKept'
      BY <1>1, <2>1 DEF Waiting, Written, PromiseKept, Live, Candidate
    <2>. QED BY <2>2, <2>3
  <1>3. CASE Candidate /\ RecoverCandidate /\ UNCHANGED <<disk, settled>>
    <2>1. PICK r \in Requests, t \in Requests : Asked(r, t)
      BY <1>3, AskedToRecover
    <2>2. UNCHANGED <<archive, record, settled>>
      BY <1>3 DEF disk
    <2>. QED BY <1>1, <2>1, <2>2, AskingKeeps
  <1>4. CASE Candidate /\ ClearRecovery /\ Settle(promise.doc) /\ UNCHANGED taskVars
    <2>1. /\ UNCHANGED <<task, phase, afterwards>>
          /\ archive' = NoArchive /\ NoArchive.doc = 0 /\ NoArchive.source = None
      BY <1>4, Cleared DEF taskVars
    <2>2. settled' >= settled /\ settled' >= promise.doc /\ settled' \in {settled, promise.doc}
      <3>1. promise.doc \in Documents
        BY DEF TypeOK, Archives
      <3>. QED BY <1>4, <3>1, SettleFacts
    <2>3. Bounds'
      BY <1>1, <2>1, <2>2, NothingType DEF Bounds
    <2>4. Mine' /\ Theirs' /\ Waiting' /\ PromiseKept'
      BY <1>1, <2>2 DEF Mine, Theirs, Waiting, PromiseKept, Live
    <2>5. Written'
      BY <1>1, <2>1, <2>2 DEF Written
    <2>. QED BY <2>3, <2>4, <2>5
  <1>. QED BY <1>2, <1>3, <1>4 DEF OfferStartupRecovery

(* Every step keeps the invariant.                                         *)
LEMMA PromiseNext ==
    ASSUME TypeOK, Orderly, PromiseInv, [Next]_vars
    PROVE  PromiseInv'
  <1>0. TypeOK'
    BY NextTyped
  <1>1. CASE UserAsks
    <2>1. PICK r \in Requests, t \in Requests : Asked(r, t)
      BY <1>1, AskedByUser
    <2>2. /\ task = Nothing
          /\ UNCHANGED <<facade, archive, record, promise, settled, made, named, ours, dirty,
                         auto, closeWhenRecoveryFinishes, active, panel>>
      BY <1>1, AskedByUser DEF Idle, KeepAllButTask, windowVars, autoVars, disk, talk
    <2>. QED BY <2>1, <2>2, AskingKeeps
  <1>2. CASE OfferStartupRecovery
    BY <1>0, <1>2, OfferKeeps
  <1>3. CASE EditText \/ PanelStart \/ PanelRun \/ PanelResult \/ PanelFinished
    BY <1>0, <1>3, PanelKeeps
  <1>4. CASE CloseAccepted \/ CloseDiscarding \/ QueuedClose \/ Relaunch
    BY <1>0, <1>4, CloseKeeps
  <1>5. CASE Worker
    BY <1>0, <1>5, WorkerKeeps
  <1>6. CASE Signal
    BY <1>0, <1>6, SignalKeeps
  <1>7. CASE WriteRecovery \/ RecoveryResult \/ RecoveryFinished \/ Timer
    BY <1>0, <1>7, RecoveryKeeps
  <1>8. CASE UNCHANGED vars
    <2>1. UNCHANGED <<facade, named, made, promise, ours, dirty, auto, closeWhenRecoveryFinishes,
                      task, phase, afterwards, archive, record, settled, active, panel>>
      BY <1>8 DEF vars, windowVars, taskVars, autoVars, disk, talk
    <2>2. Bounds' /\ Mine' /\ Theirs'
      BY <2>1 DEF PromiseInv, Bounds, Mine, Theirs, Later, Elsewhere, Recovering, Live
    <2>3. Waiting' /\ Written' /\ PromiseKept'
      BY <2>1 DEF PromiseInv, Waiting, Written, PromiseKept, Live, Candidate
    <2>. QED BY <2>2, <2>3 DEF PromiseInv
  <1>. QED BY <1>1, <1>2, <1>3, <1>4, <1>5, <1>6, <1>7, <1>8 DEF Next, User, UserAsks

(* No promise was made in the beginning.                                   *)
LEMMA PromiseInit == Init => PromiseInv
  <1>. SUFFICES ASSUME Init PROVE PromiseInv
    OBVIOUS
  <1>1. NoArchive.doc = 0 /\ NoArchive.source = None /\ NoAuto.phase = "idle"
    BY DEF NoArchive, NoAuto
  <1>2. Bounds
    BY <1>1, NothingType DEF Init, Bounds
  <1>3. ~Live
    BY <1>1 DEF Init, Live
  <1>4. Mine /\ Theirs /\ Waiting /\ PromiseKept
    BY <1>3 DEF Mine, Theirs, Waiting, PromiseKept, Live
  <1>5. Written
    BY <1>1 DEF Init, Written
  <1>. QED BY <1>2, <1>4, <1>5 DEF PromiseInv

(* "Autosaved unsaved edits" holds in every reachable state, for any       *)
(* images, any number of edits and every kind of fault (failing tasks,     *)
(* failing snapshots, a state file that cannot be written, a crash at any  *)
(* step): workspace-state.json and the recovery archive hold those edits   *)
(* or later ones under their source until the user saves, discards or      *)
(* replaces the working set, or until, the promise being an earlier run's, *)
(* the autosave of other work has been written in their place.  What is    *)
(* proved of that exception is that nothing else ends the promise unasked: *)
(* no clean-up, no restart, no failed or refused recovery.                 *)
THEOREM PromiseAlwaysKept == Spec => []PromiseKept
  <1>1. Init => TypeOK /\ Orderly /\ PromiseInv
    BY InitTyped, PromiseInit
  <1>2. TypeOK /\ Orderly /\ PromiseInv /\ [Next]_vars => TypeOK' /\ Orderly' /\ PromiseInv'
    BY NextTyped, PromiseNext
  <1>3. PromiseInv => PromiseKept
    BY DEF PromiseInv
  <1>. QED BY <1>1, <1>2, <1>3, PTL DEF Spec
-----------------------------------------------------------------------------
(* Nothing stale *)

(* The two assumptions under which finished work is never offered again:   *)
(* one game image, and a workspace-state.json that can be written.         *)
OneImage == \A s, t \in Sources : s = t
StateWritten == "state" \notin Faults

(* The window knows the loaded source except while a loaded source is      *)
(* being reported; edits, panels and snapshots have one.                   *)
Loaded ==
    /\ active = facade.source \/ (task.kind = "source" /\ phase = "done")
    /\ task.kind = "save" \/ panel # "idle" \/ ours => facade.source # None
    /\ dirty \/ auto.phase # "idle" => active # None
    /\ auto.phase # "idle" => auto.source # None

(* A task that will replace dirty work was allowed to discard it;          *)
(* recovering another source starts from a window without work.            *)
GivenUp ==
    /\ task.kind \in {"source", "project"} /\ phase # "landed" /\ dirty => task.discarded
    /\ afterwards # Nothing /\ phase = "landed" => ~dirty
    /\ task.kind = "source" /\ task.recovery => ~ours /\ auto.phase = "idle" /\ ~dirty
    /\ afterwards.kind = "source" => ~afterwards.recovery

(* With clean work in hand the recovery entry is gone, except while a      *)
(* close waits for the last snapshot, after it, and before the result of a *)
(* recovery.                                                               *)
Fresh ==
    /\ closeWhenRecoveryFinishes => auto.phase # "idle"
    /\ /\ ~dirty /\ (ours \/ auto.phase # "idle")
       /\ ~allowClose /\ ~closeWhenRecoveryFinishes
       /\ ~(task.kind = "project" /\ task.recovery /\ phase = "done")
       => record = None

(* The inductive invariant behind NothingStale.                            *)
StaleInv == Loaded /\ GivenUp /\ Fresh

(* With one image, the recorded, the active and the loaded source agree.   *)
LEMMA SameImage ==
    ASSUME TypeOK, OneImage
    PROVE  /\ record # None /\ active # None => record = active
           /\ record # None /\ facade.source # None => record = facade.source
  BY DEF OneImage, TypeOK, Archives, SourceOrNone

(* A clean-up that can write the state file removes the entry.             *)
LEMMA ClearedWhole ==
    ASSUME TypeOK, OneImage, StateWritten
    PROVE  /\ ClearRecovery => record' = None
           /\ ClearForActiveSource => record' \in {record, None}
           /\ ClearForActiveSource /\ active # None => record' = None
           /\ RecordRecent(ClearRecovery) => record' = None
           /\ RecordRecent(ClearForActiveSource) /\ active # None => record' = None
  BY SameImage
     DEF ClearRecovery, ClearForActiveSource, RecordRecent, StateWritten, disk,
         Candidate

(* Each part of the program keeps it.                                      *)
LEMMA AskingStale ==
    ASSUME TypeOK, Orderly, OneImage, StaleInv, task = Nothing,
           UNCHANGED <<facade, record, ours, dirty, auto, panel, active, allowClose,
                       closeWhenRecoveryFinishes>>,
           NEW r \in Requests, NEW t \in Requests, Asked(r, t)
    PROVE  StaleInv'
  <1>1. task' = r /\ phase' = "running" /\ afterwards' = t
    BY DEF Asked, Start
  <1>2. active = facade.source
    BY NothingType DEF StaleInv, Loaded
  <1>3. \A q \in {r, t} : q.kind = "source" /\ q.recovery =>
          ~ours /\ auto.phase = "idle" /\ ~dirty
    BY <1>2, SameImage DEF Asked, StaleInv, Loaded
  <1>4. Loaded'
    BY <1>1, <1>2 DEF Asked, StaleInv, Loaded
  <1>5. GivenUp'
    BY <1>1, <1>3, NothingType DEF Asked, GivenUp
  <1>6. Fresh'
    BY <1>1, NothingType DEF StaleInv, Fresh
  <1>. QED BY <1>4, <1>5, <1>6 DEF StaleInv

LEMMA WorkerStale ==
    ASSUME TypeOK, Orderly, StaleInv, Worker, TypeOK'
    PROVE  StaleInv'
  <1>. USE DEF StaleInv
  <1>1. UNCHANGED <<record, dirty, auto, panel, active, allowClose, closeWhenRecoveryFinishes,
                    afterwards>>
    BY
       DEF Worker, RunEdit, RunSave, RunSource, ReadProject, CheckProject,
           AdoptProject, TaskFails,
           KeepAllButWork, Reach, windowVars, autoVars
  <1>2. ASSUME NEW d, facade' = [facade EXCEPT !.doc = d]
        PROVE  facade'.source = facade.source
    BY <1>2 DEF TypeOK, Archives
  <1>3. CASE RunEdit \/ RunSave \/ CheckProject \/ TaskFails
    <2>1. /\ facade'.source = facade.source /\ UNCHANGED <<ours, task>>
          /\ phase \notin {"done", "landed"} /\ phase' # "landed"
          /\ phase' = "done" => task.kind \in {"edit", "save"}
      BY <1>2, <1>3 DEF RunEdit, RunSave, CheckProject, TaskFails, Reach
    <2>. QED BY <1>1, <2>1 DEF Loaded, GivenUp, Fresh
  <1>4. CASE ReadProject
    <2>1. /\ UNCHANGED <<ours, facade>> /\ phase = "running" /\ phase' \in {"read", "failed"}
          /\ task.kind = "project" /\ task'.kind = "project"
          /\ task'.recovery = task.recovery /\ task'.discarded = task.discarded
      BY <1>4 DEF ReadProject, Reach, TypeOK, Requests
    <2>. QED BY <1>1, <2>1 DEF Loaded, GivenUp, Fresh
  <1>5. CASE AdoptProject
    <2>1. /\ facade'.source = facade.source /\ task' = task /\ task.kind = "project"
          /\ phase = "checked" /\ phase' = "done" /\ facade.source # None
          /\ ours' <=> ours \/ task.recovery
      BY <1>2, <1>5 DEF AdoptProject, Reach, Orderly
    <2>. QED BY <1>1, <2>1 DEF Loaded, GivenUp, Fresh
  <1>6. ASSUME NEW s \in Sources, RunSource(s) PROVE StaleInv'
    <2>1. /\ facade'.source # None /\ task' = task /\ task.kind = "source"
          /\ phase = "running" /\ phase' = "done"
          /\ ours' <=> (ours /\ ~task.recovery)
      BY <1>6, WorkspaceAssumption DEF RunSource, Reach
    <2>. QED BY <1>1, <2>1 DEF Loaded, GivenUp, Fresh
  <1>. QED BY <1>3, <1>4, <1>5, <1>6 DEF Worker

LEMMA SignalStale ==
    ASSUME TypeOK, Orderly, OneImage, StateWritten, StaleInv, Signal, TypeOK'
    PROVE  StaleInv'
  <1>. USE DEF StaleInv
  <1>0. ASSUME KeepAllButResult
        PROVE  UNCHANGED <<facade, ours, task, panel, closeWhenRecoveryFinishes, allowClose>>
    BY <1>0 DEF KeepAllButResult
  <1>2. CASE TaskError
    <2>1. /\ UNCHANGED <<facade, ours, task, panel, closeWhenRecoveryFinishes, allowClose,
                         dirty, auto, record, active>>
          /\ phase' = "landed" /\ phase = "failed" /\ afterwards' = Nothing
      BY <1>0, <1>2 DEF TaskError, Land, disk
    <2>. QED BY <2>1, NothingType DEF Loaded, GivenUp, Fresh
  <1>3. CASE EditResult
    <2>1. /\ UNCHANGED <<facade, ours, task, panel, closeWhenRecoveryFinishes, allowClose,
                         record, active, afterwards>>
          /\ task.kind = "edit" /\ phase' = "landed" /\ facade.source # None
          /\ MarkWorkspaceChanged /\ afterwards = Nothing
      BY <1>0, <1>3 DEF EditResult, Land, disk, Orderly
    <2>2. /\ dirty'
          /\ \/ auto'.phase = auto.phase /\ auto'.source = auto.source
             \/ auto.phase = "idle" /\ auto'.phase = "running" /\ auto'.source = active
      BY <2>1, MarkType
    <2>. QED BY <2>1, <2>2 DEF Loaded, GivenUp, Fresh
  <1>4. CASE SaveResult
    <2>1. /\ UNCHANGED <<facade, ours, task, panel, closeWhenRecoveryFinishes, allowClose,
                         auto, active, afterwards>>
          /\ task.kind = "save" /\ phase' = "landed" /\ ~dirty'
          /\ RecordRecent(ClearForActiveSource)
      BY <1>0, <1>4 DEF SaveResult, Land
    <2>2. record' = None
      BY <2>1, ClearedWhole DEF Loaded
    <2>. QED BY <2>1, <2>2 DEF Loaded, GivenUp, Fresh
  <1>5. CASE SourceResult
    <2>1. /\ UNCHANGED <<facade, ours, task, panel, closeWhenRecoveryFinishes, allowClose>>
          /\ task.kind = "source" /\ phase' = "landed" /\ phase = "done"
          /\ active' = facade.source /\ facade.source # None
          /\ ~dirty' /\ auto' = NewRevision
      BY <1>0, <1>5 DEF SourceResult, Land, Orderly
    <2>2. auto'.phase = auto.phase /\ auto'.source = auto.source
      BY <2>1, Revised
    <2>3. IF ClearsPrevious THEN record' = None ELSE record' = record
      BY <1>5, ClearedWhole DEF SourceResult, disk
    <2>4. [Request("project") EXCEPT !.recovery = TRUE].kind = "project"
      BY RequestType DEF Requests
    <2>5. afterwards'.kind # "source"
      BY <1>5, <2>4, NothingType DEF SourceResult
    <2>6. Fresh'
      BY <2>1, <2>2, <2>3 DEF GivenUp, Fresh, ClearsPrevious
    <2>7. Loaded' /\ GivenUp'
      BY <2>1, <2>2, <2>5 DEF Loaded, GivenUp
    <2>. QED BY <2>6, <2>7
  <1>6. CASE ProjectResult
    <2>1. /\ UNCHANGED <<facade, ours, task, panel, closeWhenRecoveryFinishes, allowClose,
                         auto, active, afterwards>>
          /\ task.kind = "project" /\ phase' = "landed" /\ phase = "done"
          /\ dirty' = task.recovery /\ facade.source # None /\ afterwards = Nothing
      BY <1>0, <1>6 DEF ProjectResult, Land, Orderly
    <2>2. IF ClearsPrevious THEN record' = None ELSE record' = record
      BY <1>6, ClearedWhole DEF ProjectResult, disk
    <2>. QED BY <2>1, <2>2 DEF Loaded, GivenUp, Fresh, ClearsPrevious
  <1>7. CASE TaskFinished
    <2>1. /\ UNCHANGED <<facade, ours, dirty, auto, record, panel, active>>
          /\ phase = "landed"
          /\ \/ task' = afterwards /\ phase' = "running" /\ afterwards # Nothing
             \/ task' = Nothing /\ phase' = "idle"
          /\ afterwards' = Nothing
          /\ allowClose => allowClose'
          /\ closeWhenRecoveryFinishes => closeWhenRecoveryFinishes'
          /\ closeWhenRecoveryFinishes' => closeWhenRecoveryFinishes \/ auto.phase # "idle"
      BY <1>7, NothingType
         DEF TaskFinished, Start, EndTask, autoVars, disk, talk
    <2>2. Loaded'
      BY <2>1, NothingType DEF Loaded, Orderly
    <2>3. GivenUp'
      BY <2>1, NothingType DEF GivenUp
    <2>4. Fresh'
      BY <2>1 DEF Fresh
    <2>. QED BY <2>2, <2>3, <2>4
  <1>. QED BY <1>2, <1>3, <1>4, <1>5, <1>6, <1>7 DEF Signal

LEMMA RecoveryStale ==
    ASSUME TypeOK, Orderly, OneImage, StateWritten, StaleInv, TypeOK',
           WriteRecovery \/ RecoveryResult \/ RecoveryFinished \/ Timer
    PROVE  StaleInv'
  <1>. USE DEF StaleInv
  <1>2. ASSUME NEW p \in {"written", "failed", "landed"}, auto' = [auto EXCEPT !.phase = p]
        PROVE  auto'.phase = p /\ auto'.source = auto.source
    BY <1>2, Typed DEF Autos
  <1>3. CASE WriteRecovery
    <2>1. /\ UNCHANGED <<facade, dirty, record, task, phase, panel, active, allowClose,
                         afterwards, closeWhenRecoveryFinishes>>
          /\ auto.phase = "running" /\ auto'.phase # "idle"
          /\ auto'.source = auto.source
          /\ ours' => ours \/ facade.source = auto.source
      BY <1>2, <1>3 DEF WriteRecovery, SourceUnchanged, windowVars, taskVars
    <2>. QED BY <2>1 DEF Loaded, GivenUp, Fresh
  <1>4. CASE RecoveryResult
    <2>1. /\ UNCHANGED <<facade, dirty, task, phase, ours, panel, active, allowClose,
                         afterwards, closeWhenRecoveryFinishes>>
          /\ auto.phase # "idle" /\ auto'.phase = "landed" /\ auto'.source = auto.source
      BY <1>2, <1>4 DEF RecoveryResult, windowVars, taskVars
    <2>2. dirty \/ record' \in {record, None}
      BY <1>4, ClearedWhole DEF RecoveryResult, Superseded, disk
    <2>. QED BY <2>1, <2>2 DEF Loaded, GivenUp, Fresh
  <1>5. CASE RecoveryFinished
    <2>1. /\ UNCHANGED <<facade, dirty, ours, task, phase, afterwards, panel, active>>
          /\ auto'.phase = "idle" /\ ~closeWhenRecoveryFinishes'
          /\ \/ allowClose'
             \/ ~closeWhenRecoveryFinishes /\ UNCHANGED <<allowClose, record>>
      BY <1>5 DEF RecoveryFinished, taskVars, talk, disk, NoAuto
    <2>. QED BY <2>1 DEF Loaded, GivenUp, Fresh
  <1>6. CASE Timer
    <2>1. /\ UNCHANGED <<facade, dirty, ours, task, phase, afterwards, record, panel, active,
                         allowClose, closeWhenRecoveryFinishes>>
          /\ \/ auto'.phase = auto.phase /\ auto'.source = auto.source
             \/ dirty /\ auto'.phase = "running" /\ auto'.source = active
          /\ dirty \/ auto' = auto
      BY <1>6, SnapshotType, Typed DEF Timer, windowVars, taskVars, talk, disk, TypeOK
    <2>. QED BY <2>1 DEF Loaded, GivenUp, Fresh
  <1>. QED BY <1>3, <1>4, <1>5, <1>6

LEMMA PanelStale ==
    ASSUME TypeOK, Orderly, StaleInv, TypeOK',
           EditText \/ PanelStart \/ PanelRun \/ PanelResult \/ PanelFinished
    PROVE  StaleInv'
  <1>. USE DEF StaleInv
  <1>1. /\ UNCHANGED <<ours, task, phase, afterwards, closeWhenRecoveryFinishes, allowClose,
                       record, active>>
        /\ facade'.source = facade.source /\ task = Nothing /\ facade.source # None
    <2>1. facade' = facade \/ (\E d : facade' = [facade EXCEPT !.doc = d])
      BY DEF EditText, PanelStart, PanelRun, PanelResult, PanelFinished, PanelStep
    <2>2. facade'.source = facade.source
      BY <2>1 DEF TypeOK, Archives
    <2>3. UNCHANGED <<ours, task, phase, afterwards, closeWhenRecoveryFinishes, allowClose,
                       record, active>>
      BY DEF EditText, PanelStart, PanelRun, PanelResult, PanelFinished, PanelStep,
             taskVars, disk, windowVars, talk
    <2>4. task = Nothing /\ facade.source # None
      BY DEF EditText, PanelStart, PanelRun, PanelResult, PanelFinished, PanelStep,
             Idle, Orderly, Loaded
    <2>. QED BY <2>2, <2>3, <2>4
  <1>2. CASE MarkWorkspaceChanged
    <2>1. /\ dirty'
          /\ \/ auto'.phase = auto.phase /\ auto'.source = auto.source
             \/ auto.phase = "idle" /\ auto'.phase = "running" /\ auto'.source = active
      BY <1>2, MarkType
    <2>. QED BY <1>1, <2>1, NothingType DEF Loaded, GivenUp, Fresh, Orderly
  <1>3. CASE UNCHANGED <<dirty, auto>>
    BY <1>1, <1>3, NothingType DEF Loaded, GivenUp, Fresh
  <1>. QED
    BY <1>2, <1>3
      
          DEF EditText, PanelStart, PanelRun, PanelResult, PanelFinished, windowVars,
              autoVars

LEMMA CloseStale ==
    ASSUME TypeOK, Orderly, StaleInv, TypeOK',
           CloseAccepted \/ CloseDiscarding \/ QueuedClose \/ Relaunch
    PROVE  StaleInv'
  <1>. USE DEF StaleInv
  <1>2. CASE CloseAccepted \/ QueuedClose
    <2>1. UNCHANGED <<facade, ours, task, phase, afterwards, dirty, auto, panel, active, allowClose,
                      closeWhenRecoveryFinishes, record>>
      BY <1>2 DEF CloseAccepted, QueuedClose, KeepAllButClose, taskVars, disk
    <2>. QED BY <2>1 DEF Loaded, GivenUp, Fresh
  <1>3. CASE CloseDiscarding
    <2>1. /\ UNCHANGED <<facade, ours, task, phase, afterwards, panel, active>>
          /\ ~dirty' /\ auto' = NewRevision /\ task = Nothing
          /\ \/ auto.phase # "idle" /\ closeWhenRecoveryFinishes'
             \/ auto.phase = "idle" /\ allowClose' /\ UNCHANGED closeWhenRecoveryFinishes
      BY <1>3 DEF CloseDiscarding, KeepAllButClose, taskVars, Idle
    <2>2. auto'.phase = auto.phase /\ auto'.source = auto.source
      BY <2>1, Revised
    <2>. QED BY <2>1, <2>2, NothingType DEF Loaded, GivenUp, Fresh
  <1>4. CASE Relaunch
    <2>1. /\ task' = Nothing /\ phase' = "idle" /\ afterwards' = Nothing /\ panel' = "idle"
          /\ ~dirty' /\ ~ours' /\ auto'.phase = "idle" /\ ~closeWhenRecoveryFinishes'
          /\ active' = None /\ facade'.source = None
      BY <1>4 DEF Relaunch, Volatile, NoAuto, NoArchive
    <2>. QED BY <2>1, NothingType DEF Loaded, GivenUp, Fresh
  <1>. QED BY <1>2, <1>3, <1>4

LEMMA OfferStale ==
    ASSUME TypeOK, Orderly, OneImage, StaleInv, TypeOK', OfferStartupRecovery
    PROVE  StaleInv'
  <1>1. /\ UNCHANGED <<facade, ours, dirty, auto, panel, active, allowClose,
                       closeWhenRecoveryFinishes>>
        /\ task = Nothing /\ auto.phase = "idle" /\ ~ours
    BY DEF OfferStartupRecovery, autoVars, Orderly, NoAuto
  <1>2. CASE UNCHANGED taskVars
    BY <1>1, <1>2 DEF StaleInv, Loaded, GivenUp, Fresh, taskVars
  <1>3. CASE Candidate /\ RecoverCandidate /\ UNCHANGED <<disk, settled>>
    <2>1. PICK r \in Requests, t \in Requests : Asked(r, t)
      BY <1>3, AskedToRecover
    <2>2. record' = record
      BY <1>3 DEF disk
    <2>. QED BY <1>1, <2>1, <2>2, AskingStale
  <1>. QED BY <1>2, <1>3 DEF OfferStartupRecovery

(* Every step keeps the invariant.                                         *)
LEMMA StaleNext ==
    ASSUME TypeOK, Orderly, OneImage, StateWritten, StaleInv, [Next]_vars
    PROVE  StaleInv'
  <1>0. TypeOK'
    BY NextTyped
  <1>1. CASE UserAsks
    <2>1. PICK r \in Requests, t \in Requests : Asked(r, t)
      BY <1>1, AskedByUser
    <2>2. /\ task = Nothing
          /\ UNCHANGED <<facade, record, ours, dirty, auto, panel, active, allowClose,
                         closeWhenRecoveryFinishes>>
      BY <1>1, AskedByUser DEF Idle, KeepAllButTask, windowVars, autoVars, disk, talk
    <2>. QED BY <2>1, <2>2, AskingStale
  <1>2. CASE OfferStartupRecovery
    BY <1>0, <1>2, OfferStale
  <1>3. CASE EditText \/ PanelStart \/ PanelRun \/ PanelResult \/ PanelFinished
    BY <1>0, <1>3, PanelStale
  <1>4. CASE CloseAccepted \/ CloseDiscarding \/ QueuedClose \/ Relaunch
    BY <1>0, <1>4, CloseStale
  <1>5. CASE Worker
    BY <1>0, <1>5, WorkerStale
  <1>6. CASE Signal
    BY <1>0, <1>6, SignalStale
  <1>7. CASE WriteRecovery \/ RecoveryResult \/ RecoveryFinished \/ Timer
    BY <1>0, <1>7, RecoveryStale
  <1>8. CASE UNCHANGED vars
    BY <1>8
       DEF vars, windowVars, taskVars, autoVars, disk, talk, StaleInv, Loaded,
           GivenUp, Fresh
  <1>. QED BY <1>1, <1>2, <1>3, <1>4, <1>5, <1>6, <1>7, <1>8 DEF Next, User, UserAsks

(* Work that has been saved or discarded is not offered for recovery: with *)
(* one image and a writable state file, whatever tasks and snapshots fail  *)
(* and wherever the process dies.                                          *)
THEOREM NeverStale ==
    ASSUME OneImage, StateWritten
    PROVE  Spec => []NothingStale
  <1>1. Init => TypeOK /\ Orderly /\ StaleInv
    <2>1. Init => StaleInv
      BY NothingType DEF Init, StaleInv, Loaded, GivenUp, Fresh, NoAuto, NoArchive
    <2>. QED BY <2>1, InitTyped
  <1>2. TypeOK /\ Orderly /\ StaleInv /\ [Next]_vars => TypeOK' /\ Orderly' /\ StaleInv'
    BY NextTyped, StaleNext
  <1>3. StaleInv => NothingStale
    BY NothingType DEF StaleInv, Fresh, NothingStale, Quiet, Candidate
  <1>. QED BY <1>1, <1>2, <1>3, PTL DEF Spec
=============================================================================
