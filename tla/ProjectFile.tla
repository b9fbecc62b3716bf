----------------------------- MODULE ProjectFile -----------------------------
(***************************************************************************)
(* One .2k5mod file and the editors and other programs that use it: fast   *)
(* save under the identity of the file that was opened or last saved, Save *)
(* Project As, opening with the identity checked before and after, and the *)
(* publication of the archive (mod_editor/studio/project_archive.py, the   *)
(* facade's save_project and load_project, the window's active project).   *)
(*                                                                         *)
(* A file has its content, its inode and its time of change; the last two  *)
(* are its identity.  `clock' numbers contents, inodes and times.  One     *)
(* editor runs one task at a time, and its project does not change while   *)
(* it does.                                                                *)
(*                                                                         *)
(* Simplifications.                                                        *)
(*  - Only this path is saved to and opened.  What is in an archive, and   *)
(*    whether it is valid, is not modelled: a task may fail at any point.  *)
(*  - The file is regular and never a symbolic link.                       *)
(*  - Two changes of a file never have the same time.  The change that     *)
(*    publishing makes to the new file itself is left out: nobody has seen *)
(*    that file before.                                                    *)
(***************************************************************************)
EXTENDS Integers, FiniteSets

CONSTANTS
    Editors,   \* windows that use the file
    None,      \* no file, no identity, nobody
    Guarded,   \* nobody else acts between a publication and the look at it
    MaxClock   \* bound on edits, files and changes of them

VARIABLES
    target,  \* the file at the project's path
    temp,    \* each editor's temporary file beside it
    litter,  \* temporary files that were left behind
    doc,     \* each editor's project; 0 is the one without edits
    dirty,   \* _workspace_dirty
    active,  \* _active_project_identity
    job,     \* the task: its step and what it knows
    clock    \* counts edits, files and changes of files

editor == <<doc, dirty, active>>
disk == <<target, temp, litter>>
vars == <<disk, editor, job, clock>>

Times == 0..MaxClock
Identities == Times \X Times
(* `by' is the editor that has reported this file as saved, or will.       *)
FileKind == [content : Times, inode : Times, changed : Times,
             by : Editors \cup {None}]

ASSUME ProjectFileAssumption ==
    /\ None \notin Editors \cup FileKind \cup Identities
    /\ Guarded \in BOOLEAN
    /\ MaxClock \in Nat

Steps == {"idle", "named", "begun", "staged", "checked", "linked", "published",
          "opening", "read"}
Jobs == [step : Steps, fast : BOOLEAN, replace : BOOLEAN,
         seen : Identities \cup {None}, content : Times]

NoJob == [step |-> "idle", fast |-> FALSE, replace |-> FALSE, seen |-> None,
          content |-> 0]

-----------------------------------------------------------------------------
(* Files *)

Identity(f) == <<f.inode, f.changed>>

(* st_nlink is one.                                                        *)
Single(f) ==
    /\ \A e \in Editors : temp[e] # None => temp[e].inode # f.inode
    /\ \A g \in litter : g.inode # f.inode

(* project_target_identity succeeds and returns the identity.              *)
Identified(identity) ==
    /\ target # None
    /\ Single(target)
    /\ Identity(target) = identity

Tick == clock < MaxClock /\ clock' = clock + 1

(* The file after a change of its names.                                   *)
Renamed(f) == [f EXCEPT !.changed = clock + 1]

(* The editor has published and takes what is at the path for its file.    *)
Relying(e) == job[e].step \in {"linked", "published"}

Undisturbed(e) == Guarded => \A o \in Editors \ {e} : ~Relying(o)

Init ==
    /\ target = None /\ temp = [e \in Editors |-> None] /\ litter = {}
    /\ doc = [e \in Editors |-> 0]
    /\ dirty = [e \in Editors |-> FALSE]
    /\ active = [e \in Editors |-> None]
    /\ job = [e \in Editors |-> NoJob]
    /\ clock = 0

Step(e, from, to) ==
    /\ job[e].step = from
    /\ job' = [job EXCEPT ![e].step = to]

(* Mutant: the finished task stays on record.                              *)
Ends_OnRecord(e) == job' = [job EXCEPT ![e].step = "finished"]

Ends(e) == job' = [job EXCEPT ![e] = NoJob]

-----------------------------------------------------------------------------
(* Editing and saving *)

Edit(e) ==
    /\ job[e].step = "idle"
    /\ Tick
    /\ doc' = [doc EXCEPT ![e] = clock + 1]
    /\ dirty' = [dirty EXCEPT ![e] = TRUE]
    /\ UNCHANGED <<disk, active, job>>

(* _save_project with an active project: the identity it must still have.  *)
FastSave(e) ==
    /\ job[e].step = "idle"
    /\ active[e] # None
    /\ job' = [job EXCEPT ![e] = [NoJob EXCEPT !.step = "begun", !.fast = TRUE,
                                               !.replace = TRUE, !.seen = active[e]]]
    /\ UNCHANGED <<disk, editor, clock>>

(* _choose_save_project_as.  The dialogue asks about an existing file of   *)
(* the name as it was typed; .2k5mod is added after that, so the user may  *)
(* not have been asked about this file, and what is there is not recorded. *)
SaveAs(e) ==
    /\ job[e].step = "idle"
    /\ job' = [job EXCEPT ![e] = [NoJob EXCEPT !.step = "named"]]
    /\ UNCHANGED <<disk, editor, clock>>

(* replace=destination.exists(), when the worker starts.                   *)
SaveAsBegins(e) ==
    /\ job[e].step = "named"
    /\ job' = [job EXCEPT ![e].step = "begun", ![e].replace = target # None]
    /\ UNCHANGED <<disk, editor, clock>>

(* The archive is written to a temporary file and flushed.                 *)
Stage(e) ==
    /\ Step(e, "begun", "staged")
    /\ job[e].fast => target # None
    /\ Tick
    /\ temp' = [temp EXCEPT ![e] = [content |-> doc[e], inode |-> clock + 1,
                                    changed |-> clock + 1, by |-> None]]
    /\ UNCHANGED <<target, litter, editor>>

(* _publish_archive: the identity check of a fast save.  What it saw may   *)
(* be gone when the archive is published: that is a step of its own.       *)
Check(e) ==
    /\ Step(e, "staged", "checked")
    /\ job[e].fast => Identified(job[e].seen)
    /\ UNCHANGED <<disk, editor, clock>>

(* os.replace of an existing file.                                         *)
PublishReplacing(e) ==
    /\ Step(e, "checked", "published")
    /\ target # None /\ job[e].replace
    /\ Undisturbed(e)
    /\ target' = [temp[e] EXCEPT !.by = e]
    /\ temp' = [temp EXCEPT ![e] = None]
    /\ UNCHANGED <<litter, editor, clock>>

(* os.link where there is none; the temporary name is removed after it.    *)
PublishLinking(e) ==
    /\ Step(e, "checked", "linked")
    /\ target = None
    /\ Undisturbed(e)
    /\ target' = [temp[e] EXCEPT !.by = e]
    /\ UNCHANGED <<temp, litter, editor, clock>>

(* What removing another name of its file does to the target.              *)
TargetWithout(f) ==
    IF target # None /\ target.inode = f.inode THEN Renamed(target) ELSE target

Unlink(e) ==
    /\ Step(e, "linked", "published")
    /\ Tick
    /\ target' = TargetWithout(temp[e])
    /\ temp' = [temp EXCEPT ![e] = None]
    /\ UNCHANGED <<litter, editor>>

(* Mutant: a fast save goes on expecting the file it has replaced.         *)
Saved_OldIdentity(e) ==
    /\ job[e].step = "published"
    /\ \E identity \in Identities :
          /\ Identified(identity)
          /\ active' = [active EXCEPT ![e] = IF job[e].fast THEN @ ELSE identity]
    /\ dirty' = [dirty EXCEPT ![e] = FALSE]
    /\ Ends(e)
    /\ UNCHANGED <<disk, doc, clock>>

(* The identity of what was saved becomes the active one.                  *)
Saved(e) ==
    /\ job[e].step = "published"
    /\ \E identity \in Identities :
          /\ Identified(identity)
          /\ active' = [active EXCEPT ![e] = identity]
    /\ dirty' = [dirty EXCEPT ![e] = FALSE]
    /\ Ends(e)
    /\ UNCHANGED <<disk, doc, clock>>

Disowned(e) ==
    IF target # None /\ target.by = e THEN [target EXCEPT !.by = None] ELSE target

(* The archive is published, and then its temporary name cannot be removed *)
(* or its identity not be read: the save is reported as failed.            *)
SavedButFails(e) ==
    /\ job[e].step \in {"linked", "published"}
    /\ target' = Disowned(e)
    /\ litter' = litter \cup ({temp[e]} \ {None})
    /\ temp' = [temp EXCEPT ![e] = None]
    /\ Ends(e)
    /\ UNCHANGED <<editor, clock>>

(* A save is refused, or fails, before it publishes anything.              *)
SaveFails(e) ==
    /\ job[e].step \in {"named", "begun", "staged", "checked"}
    /\ temp' = [temp EXCEPT ![e] = None]
    /\ Ends(e)
    /\ UNCHANGED <<target, litter, editor, clock>>

-----------------------------------------------------------------------------
(* Opening *)

Open(e) ==
    /\ job[e].step = "idle"
    /\ \E identity \in Identities :
          /\ Identified(identity)
          /\ job' = [job EXCEPT ![e] = [NoJob EXCEPT !.step = "opening",
                                                     !.seen = identity]]
    /\ UNCHANGED <<disk, editor, clock>>

(* load_project_archive, by path *)
Read(e) ==
    /\ job[e].step = "opening"
    /\ target # None
    /\ job' = [job EXCEPT ![e].step = "read", ![e].content = target.content]
    /\ UNCHANGED <<disk, editor, clock>>

(* Mutant: the file is identified only after it has been read.             *)
Adopt_Late(e) ==
    /\ job[e].step = "read"
    /\ \E identity \in Identities :
          /\ Identified(identity)
          /\ active' = [active EXCEPT ![e] = identity]
    /\ doc' = [doc EXCEPT ![e] = job[e].content]
    /\ dirty' = [dirty EXCEPT ![e] = FALSE]
    /\ Ends(e)
    /\ UNCHANGED <<disk, clock>>

Adopt(e) ==
    /\ job[e].step = "read"
    /\ Identified(job[e].seen)
    /\ doc' = [doc EXCEPT ![e] = job[e].content]
    /\ dirty' = [dirty EXCEPT ![e] = FALSE]
    /\ active' = [active EXCEPT ![e] = job[e].seen]
    /\ Ends(e)
    /\ UNCHANGED <<disk, clock>>

OpenFails(e) ==
    /\ job[e].step \in {"opening", "read"}
    /\ Ends(e)
    /\ UNCHANGED <<disk, editor, clock>>

-----------------------------------------------------------------------------
(* Crashes and other programs *)

(* The editor is gone and started again, with a new process.               *)
Crash(e) ==
    /\ litter' = litter \cup ({temp[e]} \ {None})
    /\ temp' = [temp EXCEPT ![e] = None]
    /\ target' = Disowned(e)
    /\ doc' = [doc EXCEPT ![e] = 0]
    /\ dirty' = [dirty EXCEPT ![e] = FALSE]
    /\ active' = [active EXCEPT ![e] = None]
    /\ Ends(e)
    /\ UNCHANGED clock

Others == Undisturbed(None) /\ UNCHANGED <<temp, editor, job>>

(* Another program makes the file anew or replaces it.                     *)
OthersWrite ==
    /\ Others /\ Tick
    /\ target' = [content |-> clock + 1, inode |-> clock + 1,
                  changed |-> clock + 1, by |-> None]
    /\ UNCHANGED litter

(* Another program changes it in place.                                    *)
OthersModify ==
    /\ Others /\ Tick
    /\ target # None
    /\ target' = [Renamed(target) EXCEPT !.content = clock + 1, !.by = None]
    /\ UNCHANGED litter

OthersRemove ==
    /\ Others
    /\ target # None
    /\ target' = None
    /\ UNCHANGED <<litter, clock>>

(* The user removes a file that was left behind.                           *)
OthersTidy ==
    /\ Others /\ Tick
    /\ \E f \in litter :
          /\ litter' = litter \ {f}
          /\ target' = TargetWithout(f)

Next ==
    \/ \E e \in Editors :
          \/ Edit(e) \/ FastSave(e) \/ SaveAs(e) \/ SaveAsBegins(e)
          \/ Stage(e) \/ Check(e) \/ PublishReplacing(e) \/ PublishLinking(e)
          \/ Unlink(e) \/ Saved(e) \/ SavedButFails(e) \/ SaveFails(e)
          \/ Open(e) \/ Read(e) \/ Adopt(e) \/ OpenFails(e)
          \/ Crash(e)
    \/ OthersWrite \/ OthersModify \/ OthersRemove \/ OthersTidy

Spec == Init /\ [][Next]_vars

-----------------------------------------------------------------------------
(* Properties *)

TypeOK ==
    /\ target \in FileKind \cup {None}
    /\ temp \in [Editors -> FileKind \cup {None}]
    /\ litter \subseteq FileKind
    /\ doc \in [Editors -> Times]
    /\ dirty \in [Editors -> BOOLEAN]
    /\ active \in [Editors -> Identities \cup {None}]
    /\ job \in [Editors -> Jobs]
    /\ clock \in Times

(* An editor that shows no unsaved changes, and whose remembered file is   *)
(* still there, shows what is in that file: neither a save nor an opening  *)
(* ties the project to a file it did not write or read.                    *)
CleanMeansSaved ==
    \A e \in Editors :
        /\ ~dirty[e] /\ active[e] # None
        /\ target # None /\ Identity(target) = active[e]
        => target.content = doc[e]

(* What an editor has saved it may save again: its own publication does    *)
(* not look like another program's change to its next fast save.           *)
OwnSavesAccepted ==
    \A e \in Editors :
        /\ job[e].step = "idle" /\ target # None /\ target.by = e
        => active[e] # None /\ Identified(active[e])

=============================================================================
