--------------------------- MODULE StudioWorkspace ---------------------------
(***************************************************************************)
(* Unsaved work in 2K5 Mod Studio: the window (mod_editor/gui/studio_qt.py), *)
(* the facade behind it (mod_editor/studio/facade.py) and the private      *)
(* recovery store (mod_editor/studio/workspace_state.py).                  *)
(*                                                                         *)
(* The window's thread runs its handlers one at a time.  Facade operations *)
(* run on pool threads, atomically under the facade's lock where they read *)
(* or replace the session, and report by two queued signals, the result    *)
(* and then "finished"; anything may happen between them.  At most one     *)
(* blocking task runs; beside it there may be one recovery snapshot, and,  *)
(* when no blocking task runs, one operation of an embedded panel.         *)
(*                                                                         *)
(* Simplifications.                                                        *)
(*  - A document (an edit set) is a number, 0 the empty one; every edit    *)
(*    makes a new one.  Archives carry documents only, as in the code; the *)
(*    source recorded with the recovery archive here is the one it was     *)
(*    made under, which the code does not store in it.                     *)
(*  - A modal dialogue and what follows from its answer are one step, for  *)
(*    nothing read before it is used after it.                             *)
(*  - The Audio and Crib panels are one panel.                             *)
(***************************************************************************)
EXTENDS Integers, FiniteSetsExt

CONSTANTS
    Sources,  \* game images, by SHA-256
    None,     \* no source
    Faults,   \* the kinds of failure that may happen
    MaxEdits  \* bound on the edits made

(* task    : an operation the user started fails                           *)
(* autosave: a recovery snapshot cannot be written                         *)
(* state   : workspace-state.json cannot be written                        *)
(* crash   : the process dies                                              *)
FaultKinds == {"task", "autosave", "state", "crash"}

ASSUME WorkspaceAssumption ==
    /\ None \notin Sources
    /\ Faults \subseteq FaultKinds
    /\ MaxEdits \in Nat

Documents == 0..MaxEdits
SourceOrNone == Sources \cup {None}
Archives == [source : SourceOrNone, doc : Documents]
NoArchive == [source |-> None, doc |-> 0]

(* A request for a blocking task: what to do, with which source or         *)
(* project, whether for recovery, and whether the work it replaces has     *)
(* been discarded by the user.                                             *)
Requests ==
    [kind : {"none", "edit", "save", "source", "project", "close"},
     source : SourceOrNone, doc : Documents, recovery : BOOLEAN,
     discarded : BOOLEAN]

Request(kind) ==
    [kind |-> kind, source |-> None, doc |-> 0, recovery |-> FALSE,
     discarded |-> FALSE]

Nothing == Request("none")

VARIABLES
    (* the window *)
    window,    \* "starting", "open" or "closed"
    active,    \* _active_source_sha256
    dirty,     \* _workspace_dirty
    pending,   \* _recovery_save_pending
    timer,     \* a singleShot(0, _save_recovery_snapshot) is queued
    closeWhenRecoveryFinishes,
    allowClose, \* _allow_close
    closing,   \* a singleShot(0, close) is queued
    (* its tasks *)
    task,      \* the blocking task (_blocking)
    phase,     \* how far it is
    afterwards, \* what follows it: after_success, _post_blocking_continuations
    moved,     \* the recovery archive changed since the task read it
    panel,     \* the embedded panel's operation
    auto,      \* the recovery snapshot (_recovery_save_in_flight)
    (* the facade *)
    facade,    \* source and document of the working session
    (* the disk *)
    archive,   \* unsaved-recovery.2k5mod
    record,    \* the source of the recovery entry of workspace-state.json
    named,     \* documents saved as named projects
    (* what was done and said *)
    made,      \* edits made so far
    settled,   \* the last document the user saved, discarded or replaced
    promise,   \* what "Autosaved unsaved edits" last referred to, no close waiting
    ours       \* the recovery archive is of the work in hand, not an earlier run's

windowVars == <<window, active, dirty, closeWhenRecoveryFinishes, allowClose,
                closing>>
taskVars == <<task, phase, afterwards>>
autoVars == <<auto, pending, timer>>
disk == <<archive, record, moved>>
talk == <<settled, promise, ours>>

vars == <<windowVars, taskVars, autoVars, panel, facade, disk, named, made, talk>>

NoAuto == [phase |-> "idle", source |-> None, current |-> FALSE]

Volatile ==
    /\ window' = "starting" /\ active' = None /\ dirty' = FALSE
    /\ pending' = FALSE /\ timer' = FALSE
    /\ closeWhenRecoveryFinishes' = FALSE
    /\ allowClose' = FALSE /\ closing' = FALSE
    /\ task' = Nothing /\ phase' = "idle" /\ afterwards' = Nothing
    /\ moved' = FALSE /\ panel' = "idle" /\ auto' = NoAuto
    /\ facade' = NoArchive /\ ours' = FALSE

Init ==
    /\ window = "starting" /\ active = None /\ dirty = FALSE
    /\ pending = FALSE /\ timer = FALSE
    /\ closeWhenRecoveryFinishes = FALSE
    /\ allowClose = FALSE /\ closing = FALSE
    /\ task = Nothing /\ phase = "idle" /\ afterwards = Nothing
    /\ moved = FALSE /\ panel = "idle" /\ auto = NoAuto
    /\ facade = NoArchive /\ ours = FALSE
    /\ archive = NoArchive /\ record = None /\ named = {} /\ made = 0
    /\ settled = 0 /\ promise = NoArchive

-----------------------------------------------------------------------------
(* The recovery store *)

(* recovery_candidate *)
Candidate == record # None /\ archive # NoArchive

(* clear_recovery: the archive goes first, then the entry.                 *)
ClearRecovery ==
    /\ archive' = NoArchive
    /\ moved' = TRUE
    /\ \/ record' = None
       \/ "state" \in Faults /\ UNCHANGED record

(* _clear_recovery_safely(only_for_active_source=True) *)
ClearForActiveSource ==
    IF Candidate /\ record # active
    THEN UNCHANGED disk
    ELSE ClearRecovery

(* record_source or record_project, and then the clean-up.                 *)
RecordRecent(clear) ==
    \/ clear
    \/ "state" \in Faults /\ UNCHANGED disk

(* register_recovery *)
RegisterRecovery(source) ==
    \/ record' = source
    \/ "state" \in Faults /\ UNCHANGED record

(* The user saves, discards or replaces a document; all that was made      *)
(* before it is settled with it.                                           *)
Settle(d) == settled' = Max({settled, d})

(* The work in hand is replaced; when what replaces it is the recovery     *)
(* project of an earlier run, that one is still due.                       *)
SettleReplaced ==
    IF task.recovery /\ ~ours THEN UNCHANGED settled ELSE Settle(facade.doc)

-----------------------------------------------------------------------------
(* The recovery snapshot *)

(* _save_recovery_snapshot; a is the snapshot in flight, if any.           *)
SaveRecoverySnapshot(a) ==
    \/ /\ panel # "idle" \/ a.phase # "idle"
       /\ pending' = TRUE
       /\ auto' = a
    \/ /\ panel = "idle" /\ a.phase = "idle"
       /\ pending' = FALSE
       /\ auto' = [phase |-> "running", source |-> active, current |-> TRUE]

NewRevision == [auto EXCEPT !.current = FALSE]

(* _mark_workspace_changed *)
MarkWorkspaceChanged ==
    /\ dirty' = TRUE
    /\ SaveRecoverySnapshot(NewRevision)

(* The queued _save_recovery_snapshot.                                     *)
Timer ==
    /\ window = "open"
    /\ timer
    /\ timer' = FALSE
    /\ \/ dirty /\ SaveRecoverySnapshot(auto)
       \/ ~dirty /\ UNCHANGED <<auto, pending>>
    /\ UNCHANGED <<windowVars, taskVars, panel, facade, disk, named, made, talk>>

(* The comparison of sources under the facade's lock.                      *)
SourceUnchanged == facade.source = auto.source

(* save_recovery_project.  It replaces whatever recovery project there is, *)
(* an earlier run's too, and then the promise made for that one is over,   *)
(* though nobody asked for it (RecoveryKept).                              *)
WriteRecovery ==
    /\ auto.phase = "running"
    /\ UNCHANGED <<windowVars, taskVars, pending, timer, panel, facade, record,
                   named, made, settled>>
    /\ \/ /\ SourceUnchanged
          /\ archive' = facade
          /\ moved' = TRUE
          /\ ours' = TRUE
          /\ promise' = IF ours THEN promise ELSE NoArchive
          /\ auto' = [auto EXCEPT !.phase = "written"]
       \/ /\ ~SourceUnchanged \/ "autosave" \in Faults
          /\ auto' = [auto EXCEPT !.phase = "failed"]
          /\ UNCHANGED <<archive, moved, ours, promise>>

(* Mutant: a finished snapshot is registered though its work was saved.    *)
Superseded_Never == FALSE

(* The work was saved or discarded while it was being written.             *)
Superseded == ~dirty

(* The worker's result: success() or error().                              *)
RecoveryResult ==
    /\ window = "open"
    /\ auto.phase \in {"written", "failed"}
    /\ auto' = [auto EXCEPT !.phase = "landed"]
    /\ UNCHANGED <<windowVars, taskVars, pending, timer, panel, facade, named,
                   made, settled, ours>>
    /\ \/ auto.phase = "failed" /\ UNCHANGED <<disk, promise>>
       \/ auto.phase = "written" /\ Superseded /\ ClearForActiveSource /\ UNCHANGED promise
       \/ /\ auto.phase = "written" /\ ~Superseded
          /\ facade.source # auto.source
          /\ UNCHANGED <<disk, promise>>
       \/ /\ auto.phase = "written" /\ ~Superseded
          /\ facade.source = auto.source
          /\ RegisterRecovery(auto.source)
          /\ promise' = IF /\ auto.current /\ record' = auto.source
                           /\ ~closeWhenRecoveryFinishes
                        THEN [source |-> auto.source, doc |-> archive.doc]
                        ELSE promise
          /\ UNCHANGED <<archive, moved>>

(* Mutant: the request is tested after the flag has been reset.            *)
AskedAgain_Reset == pending' /\ dirty

(* Edits came while the snapshot was being written.                        *)
AskedAgain == pending /\ dirty

RecoveryFinished ==
    /\ window = "open"
    /\ auto.phase = "landed"
    /\ auto' = NoAuto
    /\ pending' = FALSE
    /\ UNCHANGED <<window, active, dirty, taskVars, panel, facade, named, made, talk>>
    /\ \/ /\ closeWhenRecoveryFinishes
          /\ closeWhenRecoveryFinishes' = FALSE
          /\ ClearForActiveSource
          /\ allowClose' = TRUE
          /\ closing' = TRUE
          /\ UNCHANGED timer
       \/ /\ ~closeWhenRecoveryFinishes
          /\ timer' = (timer \/ AskedAgain)
          /\ UNCHANGED <<closeWhenRecoveryFinishes, allowClose, closing, disk>>

-----------------------------------------------------------------------------
(* What the user starts *)

(* The actions of the shell are enabled (_refresh_action_states), and      *)
(* _start_task and _refuse_while_embedded_busy let them through.           *)
Idle == window = "open" /\ task = Nothing /\ panel = "idle"

Start(request, then) ==
    /\ task' = request
    /\ phase' = "running"
    /\ afterwards' = then

(* _continue_after_unsaved: straight on, or Discard, or Save first.        *)
ContinueAfterUnsaved(request) ==
    \/ ~dirty /\ Start(request, Nothing)
    \/ dirty /\ Start([request EXCEPT !.discarded = TRUE], Nothing)
    \/ dirty /\ Start(Request("save"), request)

KeepAllButTask ==
    UNCHANGED <<windowVars, autoVars, panel, facade, disk, named, made, talk>>

Edit ==
    /\ Idle
    /\ facade.source # None
    /\ made < MaxEdits
    /\ Start(Request("edit"), Nothing)
    /\ KeepAllButTask

Save ==
    /\ Idle
    /\ dirty
    /\ Start(Request("save"), Nothing)
    /\ KeepAllButTask

OpenSource(s) ==
    /\ Idle
    /\ ContinueAfterUnsaved([Request("source") EXCEPT !.source = s])
    /\ KeepAllButTask

OpenProject(d) ==
    /\ Idle
    /\ facade.source # None
    /\ ContinueAfterUnsaved([Request("project") EXCEPT !.doc = d])
    /\ KeepAllButTask

(* _recover_candidate *)
RecoverCandidate ==
    LET recover(kind) == [Request(kind) EXCEPT !.source = record, !.recovery = TRUE]
    IN  IF facade.source = record
        THEN ContinueAfterUnsaved(recover("project"))
        ELSE ContinueAfterUnsaved(recover("source"))

RecoverFromMenu ==
    /\ Idle
    /\ Candidate
    /\ RecoverCandidate
    /\ KeepAllButTask

(* A text or roster edit is made by the window's own thread.               *)
EditText ==
    /\ Idle
    /\ facade.source # None
    /\ made < MaxEdits
    /\ made' = made + 1
    /\ facade' = [facade EXCEPT !.doc = made']
    /\ MarkWorkspaceChanged
    /\ UNCHANGED <<window, active, closeWhenRecoveryFinishes, allowClose, closing,
                   taskVars, timer, panel, disk, named, talk>>

(* _offer_startup_recovery *)
OfferStartupRecovery ==
    /\ window = "starting"
    /\ window' = "open"
    /\ UNCHANGED <<active, dirty, closeWhenRecoveryFinishes, allowClose, closing,
                   autoVars, panel, facade, named, made, promise, ours>>
    /\ \/ UNCHANGED <<taskVars, disk, settled>>
       \/ Candidate /\ RecoverCandidate /\ UNCHANGED <<disk, settled>>
       \/ Candidate /\ ClearRecovery /\ Settle(promise.doc) /\ UNCHANGED taskVars

-----------------------------------------------------------------------------
(* The blocking task: its worker, its result, its end *)

Reach(p) == phase' = p /\ UNCHANGED <<task, afterwards>>

KeepAllButWork == UNCHANGED <<windowVars, autoVars, panel, archive, record, promise>>

TaskFails ==
    /\ task # Nothing
    /\ phase \in {"running", "read", "checked"}
    /\ "task" \in Faults
    /\ Reach("failed")
    /\ KeepAllButWork
    /\ UNCHANGED <<facade, moved, named, made, settled, ours>>

RunEdit ==
    /\ task.kind = "edit" /\ phase = "running"
    /\ made' = made + 1
    /\ facade' = [facade EXCEPT !.doc = made']
    /\ Reach("done")
    /\ KeepAllButWork
    /\ UNCHANGED <<moved, named, settled, ours>>

(* save_project *)
RunSave ==
    /\ task.kind = "save" /\ phase = "running"
    /\ named' = named \cup {facade.doc}
    /\ Settle(facade.doc)
    /\ Reach("done")
    /\ KeepAllButWork
    /\ UNCHANGED <<facade, moved, made, ours>>

(* load_source.  The file at the recorded path may be another image now.   *)
RunSource(s) ==
    /\ task.kind = "source" /\ phase = "running"
    /\ task.recovery \/ s = task.source
    /\ facade' = [source |-> s, doc |-> 0]
    /\ SettleReplaced
    /\ Reach("done")
    /\ ours' = (ours /\ ~task.recovery)
    /\ KeepAllButWork
    /\ UNCHANGED <<moved, named, made>>

(* load_project: the archive is read into a candidate session, its         *)
(* identity is compared again, and the candidate is adopted.               *)
ReadProject ==
    /\ task.kind = "project" /\ phase = "running"
    /\ \/ ~task.recovery /\ Reach("read")
       \/ /\ task.recovery /\ archive # NoArchive
          /\ task' = [task EXCEPT !.source = archive.source, !.doc = archive.doc]
          /\ phase' = "read"
          /\ UNCHANGED afterwards
       \/ task.recovery /\ archive = NoArchive /\ Reach("failed")
    /\ moved' = FALSE
    /\ KeepAllButWork
    /\ UNCHANGED <<facade, named, made, settled, ours>>

CheckProject ==
    /\ task.kind = "project" /\ phase = "read"
    /\ Reach(IF task.recovery /\ moved THEN "failed" ELSE "checked")
    /\ KeepAllButWork
    /\ UNCHANGED <<facade, moved, named, made, settled, ours>>

AdoptProject ==
    /\ task.kind = "project" /\ phase = "checked"
    /\ facade' = [facade EXCEPT !.doc = task.doc]
    /\ SettleReplaced
    /\ ours' = (ours \/ task.recovery)
    /\ Reach("done")
    /\ KeepAllButWork
    /\ UNCHANGED <<moved, named, made>>

Land == phase' = "landed"

KeepAllButResult ==
    UNCHANGED <<window, closeWhenRecoveryFinishes, allowClose, closing, task,
                timer, panel, facade, named, made, ours>>

(* The error handler; what should have followed is dropped.                *)
TaskError ==
    /\ window = "open"
    /\ phase = "failed"
    /\ Land
    /\ afterwards' = Nothing
    /\ KeepAllButResult
    /\ UNCHANGED <<active, dirty, auto, pending, disk, promise, settled>>

EditResult ==
    /\ window = "open"
    /\ task.kind = "edit" /\ phase = "done"
    /\ Land
    /\ MarkWorkspaceChanged
    /\ KeepAllButResult
    /\ UNCHANGED <<active, afterwards, disk, promise, settled>>

SaveResult ==
    /\ window = "open"
    /\ task.kind = "save" /\ phase = "done"
    /\ Land
    /\ dirty' = FALSE
    /\ RecordRecent(ClearForActiveSource)
    /\ KeepAllButResult
    /\ UNCHANGED <<active, afterwards, auto, pending, promise, settled>>

(* Mutant: also when the user was not asked to discard anything.           *)
ClearsPrevious_Unasked == ~task.recovery

(* clear_previous_recovery and recovery is None                            *)
ClearsPrevious == task.discarded /\ ~task.recovery

(* The recovered project follows when the image is the one it belongs to.  *)
SourceResult ==
    /\ window = "open"
    /\ task.kind = "source" /\ phase = "done"
    /\ Land
    /\ active' = facade.source
    /\ dirty' = FALSE
    /\ auto' = NewRevision
    /\ IF ClearsPrevious
       THEN RecordRecent(ClearRecovery)
       ELSE UNCHANGED disk
    /\ afterwards' = IF task.recovery /\ active' = task.source
                     THEN [Request("project") EXCEPT !.recovery = TRUE]
                     ELSE Nothing
    /\ KeepAllButResult
    /\ UNCHANGED <<pending, promise, settled>>

ProjectResult ==
    /\ window = "open"
    /\ task.kind = "project" /\ phase = "done"
    /\ Land
    /\ dirty' = task.recovery
    /\ IF ClearsPrevious
       THEN RecordRecent(ClearRecovery)
       ELSE UNCHANGED disk
    /\ KeepAllButResult
    /\ UNCHANGED <<active, afterwards, auto, pending, promise, settled>>

(* Mutant: the task stays on record when nothing follows it.               *)
EndTask_Keeps == phase' = "idle" /\ UNCHANGED <<task, afterwards>>

(* _set_busy(False) *)
EndTask == task' = Nothing /\ phase' = "idle" /\ afterwards' = Nothing

(* The queued continuations; after a save for closing it is                *)
(* _finish_close_after_save.                                               *)
TaskFinished ==
    /\ window = "open"
    /\ phase = "landed"
    /\ UNCHANGED <<active, dirty, closing, autoVars, panel, facade, disk, named,
                   made, talk>>
    /\ \/ /\ afterwards.kind \notin {"none", "close"}
          /\ Start(afterwards, Nothing)
          /\ UNCHANGED <<window, closeWhenRecoveryFinishes, allowClose>>
       \/ /\ afterwards.kind \in {"none", "close"}
          /\ EndTask
          /\ \/ /\ afterwards.kind = "none"
                /\ UNCHANGED <<window, closeWhenRecoveryFinishes, allowClose>>
             \/ /\ afterwards.kind = "close" /\ auto.phase # "idle"
                /\ closeWhenRecoveryFinishes' = TRUE
                /\ UNCHANGED <<window, allowClose>>
             \/ /\ afterwards.kind = "close" /\ auto.phase = "idle"
                /\ allowClose' = TRUE
                /\ window' = "closed"
                /\ UNCHANGED closeWhenRecoveryFinishes

-----------------------------------------------------------------------------
(* An operation of an embedded panel that may edit.                        *)
PanelStep(from, to) ==
    /\ panel = from
    /\ panel' = to
    /\ UNCHANGED <<taskVars, disk, named, talk>>

PanelStart ==
    /\ Idle
    /\ facade.source # None
    /\ made < MaxEdits
    /\ PanelStep("idle", "running")
    /\ UNCHANGED <<windowVars, autoVars, facade, made>>

PanelRun ==
    /\ \/ /\ PanelStep("running", "done")
          /\ made' = made + 1
          /\ facade' = [facade EXCEPT !.doc = made']
       \/ /\ PanelStep("running", "landed")
          /\ UNCHANGED <<made, facade>>
    /\ UNCHANGED <<windowVars, autoVars>>

PanelResult ==
    /\ window = "open"
    /\ PanelStep("done", "landed")
    /\ MarkWorkspaceChanged
    /\ UNCHANGED <<window, active, closeWhenRecoveryFinishes, allowClose, closing,
                   timer, facade, made>>

(* _embedded_operation_state_changed *)
PanelFinished ==
    /\ window = "open"
    /\ PanelStep("landed", "idle")
    /\ timer' = (timer \/ (pending /\ auto.phase = "idle" /\ dirty))
    /\ UNCHANGED <<windowVars, auto, pending, facade, made>>

-----------------------------------------------------------------------------
(* closeEvent *)

KeepAllButClose ==
    UNCHANGED <<active, panel, facade, named, made, promise, ours, timer>>

CloseAccepted ==
    /\ window = "open"
    /\ panel = "idle"
    /\ allowClose \/ (task = Nothing /\ ~dirty)
    /\ window' = "closed"
    /\ KeepAllButClose
    /\ UNCHANGED <<dirty, closeWhenRecoveryFinishes, allowClose, closing, taskVars,
                   auto, pending, disk, settled>>

(* The close queued when the last snapshot had finished.                   *)
QueuedClose ==
    /\ window = "open"
    /\ closing
    /\ closing' = FALSE
    /\ window' = IF panel = "idle" THEN "closed" ELSE window
    /\ KeepAllButClose
    /\ UNCHANGED <<dirty, closeWhenRecoveryFinishes, allowClose, taskVars, auto,
                   pending, disk, settled>>

CloseDiscarding ==
    /\ Idle /\ ~allowClose /\ dirty
    /\ dirty' = FALSE
    /\ auto' = NewRevision
    /\ Settle(facade.doc)
    /\ \/ /\ auto.phase # "idle"
          /\ closeWhenRecoveryFinishes' = TRUE
          /\ pending' = FALSE
          /\ UNCHANGED <<window, allowClose, disk>>
       \/ /\ auto.phase = "idle"
          /\ ClearForActiveSource
          /\ allowClose' = TRUE
          /\ window' = "closed"
          /\ UNCHANGED <<closeWhenRecoveryFinishes, pending>>
    /\ KeepAllButClose
    /\ UNCHANGED <<closing, taskVars>>

CloseSaving ==
    /\ Idle /\ ~allowClose /\ dirty
    /\ Start(Request("save"), Request("close"))
    /\ KeepAllButTask

(* The process ends, or dies, and is started again.                        *)
Relaunch ==
    /\ window = "closed" \/ "crash" \in Faults
    /\ Volatile
    /\ UNCHANGED <<archive, record, named, made, settled, promise>>

-----------------------------------------------------------------------------
Worker ==
    \/ RunEdit \/ RunSave \/ (\E s \in Sources : RunSource(s))
    \/ ReadProject \/ CheckProject \/ AdoptProject \/ TaskFails

Signal ==
    \/ TaskError \/ EditResult \/ SaveResult \/ SourceResult \/ ProjectResult
    \/ TaskFinished

User ==
    \/ Edit \/ Save \/ EditText \/ RecoverFromMenu \/ PanelStart
    \/ \E s \in Sources : OpenSource(s)
    \/ \E d \in named : OpenProject(d)
    \/ CloseAccepted \/ CloseDiscarding \/ CloseSaving
    \/ OfferStartupRecovery \/ Relaunch

Next ==
    \/ User \/ Worker \/ Signal
    \/ WriteRecovery \/ RecoveryResult \/ RecoveryFinished \/ Timer
    \/ PanelRun \/ PanelResult \/ PanelFinished
    \/ QueuedClose

(* Pool threads run what they are given and the event loop delivers what   *)
(* was queued; nobody has to press a button.                               *)
Fairness ==
    /\ WF_vars(Worker) /\ WF_vars(Signal)
    /\ WF_vars(WriteRecovery) /\ WF_vars(RecoveryResult)
    /\ WF_vars(RecoveryFinished)
    /\ WF_vars(Timer) /\ SF_vars(Timer /\ panel = "idle")
    /\ WF_vars(PanelRun) /\ WF_vars(PanelResult) /\ WF_vars(PanelFinished)
    /\ WF_vars(QueuedClose)

Spec == Init /\ [][Next]_vars
FairSpec == Spec /\ Fairness

-----------------------------------------------------------------------------
(* Properties *)

TypeOK ==
    /\ window \in {"starting", "open", "closed"}
    /\ active \in SourceOrNone
    /\ dirty \in BOOLEAN /\ pending \in BOOLEAN /\ timer \in BOOLEAN
    /\ closeWhenRecoveryFinishes \in BOOLEAN
    /\ allowClose \in BOOLEAN /\ closing \in BOOLEAN
    /\ moved \in BOOLEAN /\ ours \in BOOLEAN
    /\ task \in Requests /\ afterwards \in Requests
    /\ phase \in {"idle", "running", "read", "checked", "done", "failed", "landed"}
    /\ phase = "idle" <=> task = Nothing
    /\ auto.phase = "idle" <=> auto = NoAuto
    /\ panel \in {"idle", "running", "done", "landed"}
    /\ auto \in [phase : {"idle", "running", "written", "failed", "landed"},
                 source : SourceOrNone, current : BOOLEAN]
    /\ facade \in Archives /\ archive \in Archives /\ promise \in Archives
    /\ record \in SourceOrNone
    /\ named \subseteq Documents
    /\ made \in Documents /\ settled \in Documents

(* "Autosaved unsaved edits" holds: until the user saves, discards or      *)
(* replaces the working set, whatever crashes or fails, the next launch    *)
(* finds a recovery project with those edits or later ones, under their    *)
(* source.  The one exception is that of RecoveryKept below: the edits of  *)
(* an earlier run, left in the recovery project while something else is    *)
(* edited, are safe only until the autosave of that other work has been    *)
(* written in their place.                                                 *)
PromiseKept ==
    promise.doc > settled =>
        /\ Candidate
        /\ record = promise.source
        /\ archive.source = promise.source
        /\ archive.doc >= promise.doc

Quiet ==
    /\ window = "open" /\ task = Nothing /\ panel = "idle"
    /\ auto.phase = "idle" /\ ~timer /\ ~allowClose

(* "The recovery project is kept until you explicitly discard it or        *)
(* save/replace the working set": the recovery project of an earlier run   *)
(* that holds what was promised goes only with a discard, a save or a      *)
(* replacement.                                                            *)
RecoveryKept ==
    [][promise.doc > settled /\ ~ours /\ archive' # archive =>
         promise.doc <= settled']_vars

(* Work that has been saved or discarded is not offered for recovery.      *)
NothingStale ==
    Quiet /\ ~dirty /\ ours =>
        ~(Candidate /\ record = active /\ archive.source = active /\ archive.doc > 0)

(* "A source switch cannot relabel one game's edit set as another game's   *)
(* recovery": what a recovery brings back belongs to the loaded source.    *)
RecoveredUnderItsSource ==
    task.kind = "project" /\ task.recovery /\ phase = "done" =>
        task.source = facade.source

(* "Before ... closing the app with changes that have not been saved under *)
(* a project name, Mod Studio asks": the window closes only on a document  *)
(* the user has saved, given up or never edited.                           *)
ClosedKnowingly ==
    window = "closed" => facade.doc <= settled

Protected == Candidate /\ record = facade.source /\ archive = facade

Unsafe ==
    /\ window = "open" /\ ~allowClose
    /\ dirty /\ facade.doc > settled /\ ~Protected

(* Unsaved edits are eventually in the recovery project.                   *)
AutosaveCatchesUp ==
    Unsafe ~> ~Unsafe

=============================================================================
