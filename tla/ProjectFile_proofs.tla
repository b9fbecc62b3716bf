------------------------- MODULE ProjectFile_proofs -------------------------
EXTENDS ProjectFile, TLAPS

-----------------------------------------------------------------------------
(* Types *)

(* While an archive is staged or linked there is a temporary file.         *)
Staged ==
    \A e \in Editors :
        job[e].step \in {"staged", "checked", "linked"} => temp[e] # None

Typed == TypeOK /\ Staged

LEMMA TypedFacts ==
    ASSUME TypeOK
    PROVE  /\ target = None \/ target \in FileKind
           /\ \A e \in Editors : temp[e] = None \/ temp[e] \in FileKind
           /\ job \in [Editors -> Jobs] /\ temp \in [Editors -> FileKind \cup {None}]
           /\ clock \in Nat /\ clock <= MaxClock /\ MaxClock \in Nat
           /\ None \notin FileKind /\ None \notin Identities
  BY ProjectFileAssumption DEF TypeOK, Times

LEMMA InitTyped == Init => Typed
  BY ProjectFileAssumption DEF Init, Typed, TypeOK, Staged, NoJob, Jobs, Steps, Times

LEMMA TickType ==
    ASSUME TypeOK, Tick
    PROVE  clock' = clock + 1 /\ clock + 1 \in Times /\ clock' \in Times
  BY TypedFacts DEF Tick, Times

LEMMA NoJobType == NoJob \in Jobs
  BY ProjectFileAssumption DEF NoJob, Jobs, Steps, Times

LEMMA RenamedType ==
    ASSUME NEW f \in FileKind, clock + 1 \in Times
    PROVE  /\ Renamed(f) \in FileKind
           /\ Renamed(f).content = f.content
           /\ Renamed(f).inode = f.inode
           /\ Renamed(f).changed = clock + 1
           /\ Renamed(f).by = f.by
  BY DEF Renamed, FileKind

LEMMA OwnedType ==
    ASSUME NEW f \in FileKind, NEW e \in Editors \cup {None}
    PROVE  /\ [f EXCEPT !.by = e] \in FileKind
           /\ [f EXCEPT !.by = e].content = f.content
           /\ [f EXCEPT !.by = e].inode = f.inode
           /\ [f EXCEPT !.by = e].changed = f.changed
           /\ [f EXCEPT !.by = e].by = e
  BY DEF FileKind

(* The target without one of its names, or without its editor.             *)
LEMMA TargetWithoutType ==
    ASSUME TypeOK, NEW f \in FileKind, clock + 1 \in Times
    PROVE  TargetWithout(f) \in FileKind \cup {None}
  BY RenamedType DEF TargetWithout, TypeOK

LEMMA DisownedType ==
    ASSUME TypeOK, NEW e \in Editors
    PROVE  /\ Disowned(e) \in FileKind \cup {None}
           /\ Disowned(e) = None <=> target = None
           /\ target # None =>
                /\ Disowned(e).content = target.content
                /\ Disowned(e).inode = target.inode
                /\ Disowned(e).changed = target.changed
                /\ Disowned(e).by # e
                /\ Disowned(e).by \in {target.by, None}
  BY TypedFacts, OwnedType, ProjectFileAssumption DEF Disowned, TypeOK

(* Another step of a task.                                                 *)
LEMMA StepType ==
    ASSUME TypeOK, NEW e \in Editors, NEW from, NEW to \in Steps, Step(e, from, to)
    PROVE  /\ job' \in [Editors -> Jobs]
           /\ job'[e] = [job[e] EXCEPT !.step = to]
           /\ job'[e].step = to /\ job'[e].fast = job[e].fast
           /\ job'[e].replace = job[e].replace /\ job'[e].seen = job[e].seen
           /\ job'[e].content = job[e].content
           /\ \A o \in Editors \ {e} : job'[o] = job[o]
  BY TypedFacts DEF Step, Jobs

LEMMA EndsType ==
    ASSUME TypeOK, NEW e \in Editors, Ends(e)
    PROVE  /\ job' \in [Editors -> Jobs]
           /\ job'[e] = NoJob
           /\ \A o \in Editors \ {e} : job'[o] = job[o]
  BY TypedFacts, NoJobType DEF Ends

LEMMA IdentityType ==
    ASSUME NEW f \in FileKind
    PROVE  Identity(f) \in Identities /\ Identity(f) # None
  BY ProjectFileAssumption DEF Identity, Identities, FileKind

LEMMA SavingTyped ==
    ASSUME Typed, NEW e \in Editors,
           \/ FastSave(e) \/ SaveAs(e) \/ SaveAsBegins(e) \/ Stage(e) \/ Check(e)
           \/ PublishReplacing(e) \/ PublishLinking(e) \/ Unlink(e)
    PROVE  Typed'
  <1>. USE DEF Typed
  <1>0. job \in [Editors -> Jobs] /\ job[e] \in Jobs
    BY DEF TypeOK
  <1>1. CASE FastSave(e)
    <2>1. active[e] \in Identities
      BY <1>1 DEF FastSave, TypeOK
    <2>2. job' \in [Editors -> Jobs]
      BY <1>0, <1>1, <2>1, NoJobType DEF FastSave, Jobs, Steps
    <2>3. TypeOK'
      BY <1>1, <2>2 DEF FastSave, TypeOK, disk, editor
    <2>4. Staged'
      BY <1>0, <1>1 DEF FastSave, Staged, disk, NoJob
    <2>. QED BY <2>3, <2>4
  <1>2. CASE SaveAs(e)
    <2>1. job' \in [Editors -> Jobs]
      BY <1>0, <1>2, NoJobType DEF SaveAs, Jobs, Steps
    <2>2. TypeOK'
      BY <1>2, <2>1 DEF SaveAs, TypeOK, disk, editor
    <2>3. Staged'
      BY <1>0, <1>2 DEF SaveAs, Staged, disk, NoJob
    <2>. QED BY <2>2, <2>3
  <1>3. CASE SaveAsBegins(e)
    <2>1. job' \in [Editors -> Jobs]
      BY <1>0, <1>3 DEF SaveAsBegins, Jobs, Steps
    <2>2. TypeOK'
      BY <1>3, <2>1 DEF SaveAsBegins, TypeOK, disk, editor
    <2>3. Staged'
      BY <1>0, <1>3 DEF SaveAsBegins, Staged, disk, Jobs
    <2>. QED BY <2>2, <2>3
  <1>4. CASE Stage(e)
    <2>. DEFINE f == [content |-> doc[e], inode |-> clock + 1, changed |-> clock + 1,
                      by |-> None]
    <2>1. clock + 1 \in Times /\ clock' \in Times
      BY <1>4, TickType DEF Stage
    <2>2. f \in FileKind /\ f # None
      BY <2>1, ProjectFileAssumption DEF FileKind, TypeOK
    <2>3. temp' = [temp EXCEPT ![e] = f]
      BY <1>4 DEF Stage
    <2>4. job' \in [Editors -> Jobs]
      BY <1>4, StepType DEF Stage, Steps
    <2>. HIDE DEF f
    <2>5. TypeOK'
      BY <1>4, <2>1, <2>2, <2>3, <2>4 DEF Stage, TypeOK, editor
    <2>6. Staged'
      BY <1>0, <1>4, <2>2, <2>3, TypedFacts DEF Stage, Step, Staged
    <2>. QED BY <2>5, <2>6
  <1>5. CASE Check(e)
    <2>1. job' \in [Editors -> Jobs]
      BY <1>5, StepType DEF Check, Steps
    <2>2. TypeOK'
      BY <1>5, <2>1 DEF Check, TypeOK, disk, editor
    <2>3. Staged'
      BY <1>0, <1>5 DEF Check, Step, Staged, disk, Jobs
    <2>. QED BY <2>2, <2>3
  <1>6. CASE PublishReplacing(e) \/ PublishLinking(e)
    <2>1. temp[e] \in FileKind
      BY <1>6, TypedFacts DEF PublishReplacing, PublishLinking, Step, Staged
    <2>2. target' \in FileKind
      BY <1>6, <2>1, OwnedType DEF PublishReplacing, PublishLinking
    <2>3. job' \in [Editors -> Jobs]
      BY <1>6, StepType DEF PublishReplacing, PublishLinking, Steps
    <2>4. TypeOK'
      BY <1>6, <2>2, <2>3 DEF PublishReplacing, PublishLinking, TypeOK, editor
    <2>5. Staged'
      BY <1>0, <1>6, TypedFacts DEF PublishReplacing, PublishLinking, Step, Staged, Jobs
    <2>. QED BY <2>4, <2>5
  <1>7. CASE Unlink(e)
    <2>1. temp[e] \in FileKind /\ clock + 1 \in Times /\ clock' \in Times
      BY <1>7, TypedFacts, TickType DEF Unlink, Step, Staged
    <2>2. target' \in FileKind \cup {None}
      BY <1>7, <2>1, TargetWithoutType DEF Unlink
    <2>3. job' \in [Editors -> Jobs]
      BY <1>7, StepType DEF Unlink, Steps
    <2>4. TypeOK'
      BY <1>7, <2>1, <2>2, <2>3 DEF Unlink, TypeOK, editor
    <2>5. Staged'
      BY <1>0, <1>7, TypedFacts DEF Unlink, Step, Staged, Jobs
    <2>. QED BY <2>4, <2>5
  <1>. QED BY <1>1, <1>2, <1>3, <1>4, <1>5, <1>6, <1>7

LEMMA EndingTyped ==
    ASSUME Typed, NEW e \in Editors,
           \/ Saved(e) \/ SavedButFails(e) \/ SaveFails(e) \/ Adopt(e)
           \/ OpenFails(e) \/ Crash(e)
    PROVE  Typed'
  <1>. USE DEF Typed
  <1>1. Ends(e)
    BY DEF Saved, SavedButFails, SaveFails, Adopt, OpenFails, Crash
  <1>2. job' \in [Editors -> Jobs]
    BY <1>1, EndsType
  <1>3. temp' \in [Editors -> FileKind \cup {None}]
    BY DEF Saved, SavedButFails, SaveFails, Adopt, OpenFails, Crash, TypeOK, disk
  <1>4. /\ litter' \subseteq FileKind
        /\ \A o \in Editors \ {e} : temp'[o] = temp[o]
    BY TypedFacts DEF Saved, SavedButFails, SaveFails, Adopt, OpenFails, Crash, TypeOK,
                      disk
  <1>5. target' \in FileKind \cup {None}
    BY DisownedType DEF Saved, SavedButFails, SaveFails, Adopt, OpenFails, Crash,
                        TypeOK, disk
  <1>6. /\ doc' \in [Editors -> Times] /\ dirty' \in [Editors -> BOOLEAN]
        /\ active' \in [Editors -> Identities \cup {None}]
        /\ clock' \in Times
    <2>1. job[e].content \in Times /\ job[e].seen \in Identities \cup {None} /\ 0 \in Times
      BY ProjectFileAssumption DEF TypeOK, Jobs, Times
    <2>2. CASE Saved(e)
      BY <2>2 DEF Saved, TypeOK
    <2>3. CASE Adopt(e)
      BY <2>1, <2>3 DEF Adopt, TypeOK
    <2>4. CASE Crash(e)
      BY <2>1, <2>4 DEF Crash, TypeOK
    <2>5. CASE SavedButFails(e) \/ SaveFails(e) \/ OpenFails(e)
      BY <2>5 DEF SavedButFails, SaveFails, OpenFails, TypeOK, editor
    <2>. QED BY <2>2, <2>3, <2>4, <2>5
  <1>7. Staged'
    BY <1>1, <1>4, EndsType DEF Staged, NoJob
  <1>. QED BY <1>2, <1>3, <1>4, <1>5, <1>6, <1>7 DEF TypeOK

LEMMA OpeningTyped ==
    ASSUME Typed, NEW e \in Editors, Edit(e) \/ Open(e) \/ Read(e)
    PROVE  Typed'
  <1>. USE DEF Typed
  <1>0. job \in [Editors -> Jobs] /\ job[e] \in Jobs
    BY DEF TypeOK
  <1>1. CASE Edit(e)
    <2>1. clock + 1 \in Times /\ clock' \in Times
      BY <1>1, TickType DEF Edit
    <2>. QED BY <1>1, <2>1 DEF Edit, TypeOK, Staged, disk
  <1>2. CASE Open(e)
    <2>. PICK identity \in Identities :
           job' = [job EXCEPT ![e] = [NoJob EXCEPT !.step = "opening", !.seen = identity]]
      BY <1>2 DEF Open
    <2>0. [NoJob EXCEPT !.step = "opening", !.seen = identity] \in Jobs
      BY NoJobType DEF Jobs, Steps
    <2>1. job' \in [Editors -> Jobs]
      BY <1>0, <2>0
    <2>2. TypeOK'
      BY <1>2, <2>1 DEF Open, TypeOK, disk, editor
    <2>3. Staged'
      BY <1>0, <1>2 DEF Open, Staged, disk, NoJob
    <2>. QED BY <2>2, <2>3
  <1>3. CASE Read(e)
    <2>1. target.content \in Times
      BY <1>3, TypedFacts DEF Read, FileKind
    <2>2. job' \in [Editors -> Jobs]
      BY <1>0, <1>3, <2>1 DEF Read, Jobs, Steps
    <2>3. TypeOK'
      BY <1>3, <2>2 DEF Read, TypeOK, disk, editor
    <2>4. Staged'
      BY <1>0, <1>3 DEF Read, Staged, disk, Jobs
    <2>. QED BY <2>3, <2>4
  <1>. QED BY <1>1, <1>2, <1>3

LEMMA OthersTyped ==
    ASSUME Typed, OthersWrite \/ OthersModify \/ OthersRemove \/ OthersTidy
    PROVE  Typed'
  <1>. USE DEF Typed
  <1>1. target' \in FileKind \cup {None} /\ clock' \in Times
    <2>1. CASE OthersWrite
      BY <2>1, TickType DEF OthersWrite, FileKind
    <2>2. CASE OthersModify
      <3>1. target \in FileKind /\ clock + 1 \in Times /\ clock' \in Times
        BY <2>2, TypedFacts, TickType DEF OthersModify
      <3>2. Renamed(target) \in FileKind
        BY <3>1, RenamedType
      <3>3. target' \in FileKind
        BY <2>2, <3>1, <3>2 DEF OthersModify, FileKind
      <3>. QED BY <3>1, <3>3
    <2>3. CASE OthersRemove
      BY <2>3 DEF OthersRemove, TypeOK
    <2>4. CASE OthersTidy
      BY <2>4, TickType, TargetWithoutType DEF OthersTidy, TypeOK
    <2>. QED BY <2>1, <2>2, <2>3, <2>4
  <1>2. UNCHANGED <<temp, editor, job>> /\ litter' \subseteq litter
    BY DEF OthersWrite, OthersModify, OthersRemove, OthersTidy, Others
  <1>. QED BY <1>1, <1>2 DEF TypeOK, Staged, editor

LEMMA NextTyped ==
    ASSUME Typed, [Next]_vars
    PROVE  Typed'
  <1>1. CASE UNCHANGED vars
    BY <1>1 DEF vars, disk, editor, Typed, TypeOK, Staged
  <1>. QED
    BY <1>1, SavingTyped, EndingTyped, OpeningTyped, OthersTyped DEF Next

(* Every state the model reaches has its types: an archive that is to be   *)
(* published has been staged (_publish_archive).                           *)
THEOREM FileTyped == Spec => []TypeOK
  <1>1. Typed /\ [Next]_vars => Typed'
    BY NextTyped
  <1>2. Typed => TypeOK
    BY DEF Typed
  <1>. QED BY <1>1, <1>2, InitTyped, PTL DEF Spec

LEMMA AlwaysTyped == Spec => []Typed
  <1>1. Typed /\ [Next]_vars => Typed'
    BY NextTyped
  <1>. QED BY <1>1, InitTyped, PTL DEF Spec

-----------------------------------------------------------------------------
(* Inodes, names and identities *)

(* An identity is an inode and a time of change.                           *)
LEMMA IdentityFacts ==
    ASSUME NEW f \in FileKind
    PROVE  /\ f.inode \in Nat /\ f.changed \in Nat
           /\ \A id \in Identities :
                /\ id[1] \in Nat /\ id[2] \in Nat
                /\ Identity(f) = id <=> f.inode = id[1] /\ f.changed = id[2]
  BY ProjectFileAssumption DEF FileKind, Identities, Identity, Times

(* No temporary file, of an editor or left behind, has the inode i.        *)
NoName(i) ==
    /\ \A e \in Editors : temp[e] # None => temp[e].inode # i
    /\ \A g \in litter : g.inode # i

(* Inodes and times in use are not later than the clock; nobody has the    *)
(* identity of a file that still has a temporary name.                     *)
Known(id, time) ==
    id # None => id[1] <= time /\ id[2] <= time

Aged ==
    /\ target # None => target.inode <= clock /\ target.changed <= clock
    /\ \A e \in Editors : temp[e] # None =>
          temp[e].inode <= clock /\ temp[e].changed <= clock
    /\ \A e \in Editors : Known(active[e], clock) /\ Known(job[e].seen, clock)

LEMMA SingleFacts ==
    ASSUME TypeOK, NEW id \in Identities, Identified(id)
    PROVE  /\ target \in FileKind /\ target # None
           /\ NoName(id[1])
           /\ target.inode = id[1] /\ target.changed = id[2]
  BY TypedFacts, IdentityFacts DEF Identified, Single, NoName

(* How a step changes the target: not at all but for who it belongs to,    *)
(* by removing it, by giving it a new time of change, or by publishing.    *)
Quiet ==
    /\ target' = None <=> target = None
    /\ target # None => /\ target'.content = target.content
                        /\ target'.inode = target.inode
                        /\ target'.changed = target.changed

Touched == target' # None /\ clock' = clock + 1 /\ target'.changed = clock'

Publishes(e) ==
    /\ PublishReplacing(e) \/ PublishLinking(e)
    /\ temp[e] \in FileKind
    /\ target' \in FileKind
    /\ target'.content = temp[e].content
    /\ target'.inode = temp[e].inode
    /\ target'.changed = temp[e].changed
    /\ target'.by = e

LEMMA PublishMoves ==
    ASSUME Typed, NEW e \in Editors, PublishReplacing(e) \/ PublishLinking(e)
    PROVE  Publishes(e)
  <1>1. temp[e] \in FileKind
    BY TypedFacts DEF PublishReplacing, PublishLinking, Step, Typed, Staged
  <1>2. target' = [temp[e] EXCEPT !.by = e]
    BY DEF PublishReplacing, PublishLinking
  <1>. QED BY <1>1, <1>2, OwnedType DEF Publishes

(* Taking another name off a file.                                         *)
LEMMA WithoutMoves ==
    ASSUME TypeOK, NEW f \in FileKind, Tick, target' = TargetWithout(f)
    PROVE  /\ Quiet \/ Touched
           /\ target' = None <=> target = None
           /\ target # None => /\ target'.content = target.content
                               /\ target'.inode = target.inode
                               /\ target'.by = target.by
           /\ target # None /\ target.inode # f.inode => target' = target
  <1>1. clock' = clock + 1 /\ clock + 1 \in Times
    BY TickType
  <1>2. CASE target # None /\ target.inode = f.inode
    <2>1. target \in FileKind
      BY <1>2, TypedFacts
    <2>2. target' = Renamed(target) /\ target' \in FileKind
      BY <1>1, <1>2, <2>1, RenamedType DEF TargetWithout
    <2>. QED BY <1>1, <1>2, <2>1, <2>2, RenamedType, TypedFacts DEF Touched
  <1>3. CASE target = None \/ target.inode # f.inode
    BY <1>3 DEF TargetWithout, Quiet
  <1>. QED BY <1>2, <1>3

LEMMA DisownedMoves ==
    ASSUME TypeOK, NEW e \in Editors, target' = Disowned(e)
    PROVE  Quiet /\ (target # None => target'.by \in {target.by, None} /\ target'.by # e)
  BY DisownedType DEF Quiet

LEMMA Moves ==
    ASSUME Typed, [Next]_vars
    PROVE  Quiet \/ target' = None \/ Touched \/ \E e \in Editors : Publishes(e)
  <1>. USE DEF Typed
  <1>1. ASSUME NEW e \in Editors,
               \/ Edit(e) \/ FastSave(e) \/ SaveAs(e) \/ SaveAsBegins(e) \/ Stage(e)
               \/ Check(e) \/ Saved(e) \/ SaveFails(e) \/ Open(e) \/ Read(e)
               \/ Adopt(e) \/ OpenFails(e)
        PROVE  Quiet
    BY <1>1 DEF Edit, FastSave, SaveAs, SaveAsBegins, Stage, Check, Saved, SaveFails,
                Open, Read, Adopt, OpenFails, disk, Quiet
  <1>2. ASSUME NEW e \in Editors, SavedButFails(e) \/ Crash(e)
        PROVE  Quiet
    BY <1>2, DisownedMoves DEF SavedButFails, Crash
  <1>3. ASSUME NEW e \in Editors, Unlink(e)
        PROVE  Quiet \/ Touched
    <2>1. temp[e] \in FileKind
      BY <1>3, TypedFacts DEF Unlink, Step, Staged
    <2>. QED BY <1>3, <2>1, WithoutMoves DEF Unlink
  <1>4. CASE OthersWrite
    <2>1. target' \in FileKind
      BY <1>4, TickType DEF OthersWrite, FileKind
    <2>. QED BY <1>4, <2>1, TypedFacts DEF OthersWrite, Tick, Touched
  <1>5. CASE OthersModify
    <2>1. target \in FileKind /\ clock + 1 \in Times
      BY <1>5, TypedFacts, TickType DEF OthersModify
    <2>2. Renamed(target) \in FileKind /\ Renamed(target).changed = clock + 1
      BY <2>1, RenamedType
    <2>3. target' \in FileKind /\ target'.changed = clock + 1
      BY <1>5, <2>1, <2>2 DEF OthersModify, FileKind
    <2>. QED BY <1>5, <2>3, TypedFacts DEF OthersModify, Tick, Touched
  <1>6. CASE OthersTidy
    <2>1. PICK f \in litter : target' = TargetWithout(f)
      BY <1>6 DEF OthersTidy
    <2>. QED BY <1>6, <2>1, WithoutMoves DEF OthersTidy, TypeOK
  <1>7. CASE UNCHANGED vars
    BY <1>7 DEF vars, disk, Quiet
  <1>. QED
    BY <1>1, <1>2, <1>3, <1>4, <1>5, <1>6, <1>7, PublishMoves DEF Next, OthersRemove

(* Temporary files are created with new inodes.                            *)
LEMMA Temporaries ==
    ASSUME Typed, [Next]_vars
    PROVE  /\ clock' \in {clock, clock + 1}
           /\ \A e \in Editors :
                \/ temp'[e] = temp[e] \/ temp'[e] = None
                \/ /\ Stage(e)
                   /\ temp'[e].inode = clock + 1 /\ temp'[e].changed = clock + 1
                   /\ temp'[e].content = doc[e]
                   /\ clock' = clock + 1
           /\ litter' \subseteq litter \cup ({temp[e] : e \in Editors} \ {None})
  <1>. USE DEF Typed
  <1>0. temp \in [Editors -> FileKind \cup {None}]
    BY DEF TypeOK
  <1>1. ASSUME NEW e \in Editors, Stage(e)
        PROVE  /\ temp'[e].inode = clock + 1 /\ temp'[e].changed = clock + 1
               /\ temp'[e].content = doc[e]
               /\ \A o \in Editors \ {e} : temp'[o] = temp[o]
               /\ litter' = litter /\ clock' = clock + 1
    BY <1>0, <1>1 DEF Stage, Tick
  <1>2. ASSUME NEW e \in Editors,
               \/ PublishReplacing(e) \/ PublishLinking(e) \/ Unlink(e)
               \/ SavedButFails(e) \/ SaveFails(e) \/ Crash(e)
        PROVE  /\ clock' \in {clock, clock + 1}
               /\ \A o \in Editors : temp'[o] = temp[o] \/ temp'[o] = None
               /\ litter' \subseteq litter \cup ({temp[o] : o \in Editors} \ {None})
    BY <1>0, <1>2 DEF PublishReplacing, PublishLinking, Unlink, SavedButFails, SaveFails,
                      Crash, Tick
  <1>3. ASSUME NEW e \in Editors,
               \/ Edit(e) \/ FastSave(e) \/ SaveAs(e) \/ SaveAsBegins(e) \/ Check(e)
               \/ Saved(e) \/ Open(e) \/ Read(e) \/ Adopt(e) \/ OpenFails(e)
        PROVE  clock' \in {clock, clock + 1} /\ temp' = temp /\ litter' = litter
    BY <1>3 DEF Edit, FastSave, SaveAs, SaveAsBegins, Check, Saved, Open, Read, Adopt,
                OpenFails, disk, Tick
  <1>4. ASSUME OthersWrite \/ OthersModify \/ OthersRemove \/ OthersTidy
        PROVE  clock' \in {clock, clock + 1} /\ temp' = temp /\ litter' \subseteq litter
    BY <1>4 DEF OthersWrite, OthersModify, OthersRemove, OthersTidy, Others, Tick
  <1>5. CASE UNCHANGED vars
    BY <1>5 DEF vars, disk
  <1>. QED BY <1>1, <1>2, <1>3, <1>4, <1>5 DEF Next

(* A file without another name does not get one.                           *)
LEMMA NamesKept ==
    ASSUME Typed, [Next]_vars, NEW i \in Nat, i <= clock, NoName(i)
    PROVE  NoName(i)'
  BY Temporaries, TypedFacts DEF NoName, Typed

-----------------------------------------------------------------------------
(* What each editor knows changes by its own steps only *)

Acts(e) ==
    \/ Edit(e) \/ FastSave(e) \/ SaveAs(e) \/ SaveAsBegins(e)
    \/ Stage(e) \/ Check(e) \/ PublishReplacing(e) \/ PublishLinking(e)
    \/ Unlink(e) \/ Saved(e) \/ SavedButFails(e) \/ SaveFails(e)
    \/ Open(e) \/ Read(e) \/ Adopt(e) \/ OpenFails(e)
    \/ Crash(e)

LEMMA NotMine ==
    ASSUME Typed, [Next]_vars, NEW e \in Editors, ~Acts(e)
    PROVE  /\ job'[e] = job[e] /\ active'[e] = active[e]
           /\ doc'[e] = doc[e] /\ dirty'[e] = dirty[e]
           /\ temp'[e] = temp[e]
  <1>0. /\ job \in [Editors -> Jobs] /\ temp \in [Editors -> FileKind \cup {None}]
        /\ active \in [Editors -> Identities \cup {None}]
        /\ doc \in [Editors -> Times] /\ dirty \in [Editors -> BOOLEAN]
    BY DEF Typed, TypeOK
  <1>1. ASSUME NEW o \in Editors, Acts(o)
        PROVE  /\ job'[e] = job[e] /\ active'[e] = active[e]
               /\ doc'[e] = doc[e] /\ dirty'[e] = dirty[e]
               /\ temp'[e] = temp[e]
    <2>1. o # e
      BY <1>1
    <2>2. CASE \/ Edit(o) \/ FastSave(o) \/ SaveAs(o) \/ SaveAsBegins(o) \/ Stage(o)
               \/ Check(o)
      BY <1>0, <2>1, <2>2 DEF Edit, FastSave, SaveAs, SaveAsBegins, Stage, Check, Step,
                              disk, editor
    <2>3. CASE PublishReplacing(o) \/ PublishLinking(o) \/ Unlink(o)
      BY <1>0, <2>1, <2>3 DEF PublishReplacing, PublishLinking, Unlink, Step, editor
    <2>4. CASE Saved(o) \/ SavedButFails(o) \/ SaveFails(o)
      BY <1>0, <2>1, <2>4 DEF Saved, SavedButFails, SaveFails, Ends, disk, editor
    <2>5. CASE Open(o) \/ Read(o) \/ Adopt(o) \/ OpenFails(o) \/ Crash(o)
      BY <1>0, <2>1, <2>5 DEF Open, Read, Adopt, OpenFails, Crash, Ends, disk, editor
    <2>. QED BY <1>1, <2>2, <2>3, <2>4, <2>5 DEF Acts
  <1>2. CASE OthersWrite \/ OthersModify \/ OthersRemove \/ OthersTidy
    BY <1>2 DEF OthersWrite, OthersModify, OthersRemove, OthersTidy, Others, editor
  <1>3. CASE UNCHANGED vars
    BY <1>3 DEF vars, disk, editor
  <1>. QED BY <1>1, <1>2, <1>3 DEF Next, Acts

(* The identities an editor comes to know are those of the target.         *)
LEMMA MyIdentities ==
    ASSUME Typed, NEW e \in Editors, Acts(e)
    PROVE  /\ active'[e] \in {active[e], job[e].seen, None} \/ Identified(active'[e])
           /\ \/ job'[e].seen \in {job[e].seen, active[e], None}
              \/ target # None /\ job'[e].seen = Identity(target)
  <1>0. /\ job \in [Editors -> Jobs]
        /\ active \in [Editors -> Identities \cup {None}]
    BY DEF Typed, TypeOK
  <1>1. CASE FastSave(e)
    BY <1>0, <1>1 DEF FastSave, editor, NoJob
  <1>2. CASE SaveAs(e)
    BY <1>0, <1>2 DEF SaveAs, editor, NoJob
  <1>3. CASE SaveAsBegins(e) \/ Stage(e) \/ Check(e) \/ Read(e)
    BY <1>0, <1>3 DEF SaveAsBegins, Stage, Check, Read, Step, editor, Jobs
  <1>4. CASE PublishReplacing(e) \/ PublishLinking(e) \/ Unlink(e)
    BY <1>0, <1>4 DEF PublishReplacing, PublishLinking, Unlink, Step, editor, Jobs
  <1>5. CASE Saved(e)
    BY <1>0, <1>5 DEF Saved, Ends, NoJob
  <1>6. CASE Open(e)
    BY <1>0, <1>6 DEF Open, Identified, editor, NoJob
  <1>7. CASE Adopt(e)
    BY <1>0, <1>7 DEF Adopt, Ends, NoJob
  <1>8. CASE SavedButFails(e) \/ SaveFails(e) \/ OpenFails(e) \/ Crash(e)
    BY <1>0, <1>8 DEF SavedButFails, SaveFails, OpenFails, Crash, Ends, NoJob, editor
  <1>9. CASE Edit(e)
    BY <1>9 DEF Edit
  <1>. QED BY <1>1, <1>2, <1>3, <1>4, <1>5, <1>6, <1>7, <1>8, <1>9 DEF Acts

LEMMA InitAged == Init => Aged
  BY DEF Init, Aged, Known, NoJob

LEMMA NewTarget ==
    ASSUME Typed, Aged, [Next]_vars, target' # None
    PROVE  target'.inode <= clock' /\ target'.changed <= clock'
  <1>. USE DEF Typed
  <1>0. clock \in Nat /\ clock' \in {clock, clock + 1}
    BY Temporaries, TypedFacts
  <1>1. CASE Quiet
    <2>1. target \in FileKind
      BY <1>1, TypedFacts DEF Quiet
    <2>. QED BY <1>0, <1>1, <2>1, IdentityFacts DEF Quiet, Aged
  <1>2. CASE \E e \in Editors : Publishes(e)
    BY <1>0, <1>2, IdentityFacts, ProjectFileAssumption DEF Publishes, Aged
  <1>3. ASSUME NEW e \in Editors, Unlink(e)
        PROVE  target'.inode <= clock' /\ target'.changed <= clock'
    <2>1. temp[e] \in FileKind
      BY <1>3, TypedFacts DEF Unlink, Step, Staged
    <2>2. target \in FileKind /\ target'.inode = target.inode /\ (Quiet \/ Touched)
      BY <1>3, <2>1, WithoutMoves, TypedFacts DEF Unlink
    <2>3. target.inode <= clock /\ target.inode \in Nat
      BY <2>2, IdentityFacts, TypedFacts DEF Aged
    <2>. QED BY <1>0, <1>1, <2>2, <2>3 DEF Touched
  <1>4. CASE OthersTidy
    <2>1. PICK f \in litter : target' = TargetWithout(f)
      BY <1>4 DEF OthersTidy
    <2>2. target \in FileKind /\ target'.inode = target.inode /\ (Quiet \/ Touched)
      BY <1>4, <2>1, WithoutMoves, TypedFacts DEF OthersTidy, TypeOK
    <2>3. target.inode <= clock /\ target.inode \in Nat
      BY <2>2, IdentityFacts, TypedFacts DEF Aged
    <2>. QED BY <1>0, <1>1, <2>2, <2>3 DEF Touched
  <1>5. CASE OthersWrite
    BY <1>0, <1>5 DEF OthersWrite, Tick
  <1>6. CASE OthersModify
    <2>1. target \in FileKind /\ clock + 1 \in Times /\ clock' = clock + 1
      BY <1>6, TypedFacts, TickType DEF OthersModify
    <2>2. /\ Renamed(target) \in FileKind /\ Renamed(target).changed = clock + 1
          /\ Renamed(target).inode = target.inode
      BY <2>1, RenamedType
    <2>3. target'.changed = clock + 1 /\ target'.inode = target.inode
      BY <1>6, <2>2 DEF OthersModify, FileKind
    <2>4. target.inode <= clock /\ target.inode \in Nat
      BY <2>1, IdentityFacts, TypedFacts DEF Aged
    <2>. QED BY <1>0, <2>1, <2>3, <2>4
  <1>7. CASE OthersRemove \/ UNCHANGED vars
    BY <1>7, <1>1 DEF OthersRemove, vars, disk, Quiet
  <1>8. ASSUME NEW e \in Editors, Acts(e), ~Unlink(e),
               ~(PublishReplacing(e) \/ PublishLinking(e))
        PROVE  Quiet
    BY <1>8, DisownedMoves
       DEF Acts, Edit, FastSave, SaveAs, SaveAsBegins, Stage, Check, Saved, SaveFails,
           Open, Read, Adopt, OpenFails, SavedButFails, Crash, disk, Quiet
  <1>. QED
    BY <1>1, <1>2, <1>3, <1>4, <1>5, <1>6, <1>7, <1>8, PublishMoves DEF Next, Acts

LEMMA NextAged ==
    ASSUME Typed, Aged, [Next]_vars
    PROVE  Aged'
  <1>. USE DEF Typed
  <1>0. /\ clock \in Nat /\ clock' \in {clock, clock + 1}
        /\ \A e \in Editors : temp[e] = None \/ temp[e] \in FileKind
    BY Temporaries, TypedFacts
  <1>1. ASSUME NEW e \in Editors, temp'[e] # None
        PROVE  temp'[e].inode <= clock' /\ temp'[e].changed <= clock'
    <2>1. CASE temp'[e] = temp[e]
      BY <1>0, <1>1, <2>1, IdentityFacts DEF Aged
    <2>2. CASE temp'[e] # temp[e]
      BY <1>0, <1>1, <2>2, Temporaries
    <2>. QED BY <2>1, <2>2
  <1>2. ASSUME NEW id \in Identities \cup {None}, Known(id, clock)
        PROVE  Known(id, clock')
    <2>1. id = None \/ (id[1] \in Nat /\ id[2] \in Nat)
      BY DEF Identities, Times
    <2>. QED BY <1>0, <1>2, <2>1 DEF Known
  <1>3. ASSUME target # None
        PROVE  Identity(target) \in Identities /\ Known(Identity(target), clock)
    <2>1. target \in FileKind
      BY <1>3, TypedFacts
    <2>. QED BY <1>3, <2>1, IdentityType DEF Aged, Known, Identity
  <1>4. ASSUME NEW e \in Editors
        PROVE  Known(active'[e], clock') /\ Known(job'[e].seen, clock')
    <2>1. /\ Known(active[e], clock) /\ Known(job[e].seen, clock)
          /\ active[e] \in Identities \cup {None}
          /\ job[e].seen \in Identities \cup {None}
      BY DEF Aged, TypeOK, Jobs
    <2>2. Known(None, clock')
      BY DEF Known
    <2>3. CASE ~Acts(e)
      BY <1>2, <2>1, <2>3, NotMine
    <2>4. CASE Acts(e)
      <3>1. /\ active'[e] \in {active[e], job[e].seen, None} \/ Identified(active'[e])
            /\ \/ job'[e].seen \in {job[e].seen, active[e], None}
               \/ target # None /\ job'[e].seen = Identity(target)
        BY <2>4, MyIdentities
      <3>2. Identified(active'[e]) => target # None /\ active'[e] = Identity(target)
        BY DEF Identified
      <3>. QED BY <1>2, <1>3, <2>1, <2>2, <3>1, <3>2
    <2>. QED BY <2>3, <2>4
  <1>. QED
    BY <1>1, <1>4, NewTarget DEF Aged

LEMMA AlwaysAged == Spec => [](Typed /\ Aged)
  <1>1. Init => Typed /\ Aged
    BY InitTyped, InitAged
  <1>2. Typed /\ Aged /\ [Next]_vars => (Typed /\ Aged)'
    BY NextTyped, NextAged
  <1>. QED BY <1>1, <1>2, PTL DEF Spec

(* A file that is not touched keeps its identity.                          *)
LEMMA IdentityKept ==
    ASSUME Typed, Aged, [Next]_vars, NEW id \in Identities, Identified(id), Quiet
    PROVE  Identified(id)'
  <1>1. target \in FileKind /\ target # None /\ NoName(id[1])
        /\ target.inode = id[1] /\ target.changed = id[2]
    BY SingleFacts DEF Typed
  <1>2. id[1] \in Nat /\ id[1] <= clock
    BY <1>1, IdentityFacts DEF Aged
  <1>3. NoName(id[1])'
    BY <1>1, <1>2, NamesKept
  <1>4. /\ target' # None /\ target'.inode = target.inode
        /\ target'.changed = target.changed
    BY <1>1 DEF Quiet
  <1>5. Identity(target)' = Identity(target)
    BY <1>4 DEF Identity
  <1>6. Single(target)'
    BY <1>1, <1>3, <1>4 DEF Single, NoName
  <1>7. Identity(target) = id
    BY DEF Identified
  <1>. QED BY <1>4, <1>5, <1>6, <1>7 DEF Identified

-----------------------------------------------------------------------------
(* An editor's own publications *)

(* Outside a save, the file an editor has published is the one it expects. *)
Own ==
    \A e \in Editors :
        /\ job[e].step \notin {"linked", "published"}
        /\ target # None /\ target.by = e
        => active[e] # None /\ Identified(active[e])

LEMMA OwnByOthers ==
    ASSUME Typed, Aged, Own, [Next]_vars, NEW e \in Editors, ~Acts(e),
           target' # None, target'.by = e, job[e].step \notin {"linked", "published"}
    PROVE  Quiet /\ target # None /\ target.by = e
  <1>. USE DEF Typed
  <1>1. ASSUME NEW f \in FileKind, Tick, target' = TargetWithout(f),
               f.inode = target.inode => ~NoName(target.inode)
        PROVE  Quiet /\ target # None /\ target.by = e
    <2>1. target # None /\ target.by = e
      BY <1>1, WithoutMoves
    <2>2. active[e] \in Identities /\ Identified(active[e])
      BY <2>1 DEF Own, TypeOK
    <2>3. NoName(target.inode)
      BY <2>2, SingleFacts
    <2>. QED BY <1>1, <2>1, <2>3, WithoutMoves DEF Quiet
  <1>2. ASSUME NEW o \in Editors, Acts(o)
        PROVE  Quiet /\ target # None /\ target.by = e
    <2>1. o # e
      BY <1>2
    <2>2. CASE PublishReplacing(o) \/ PublishLinking(o)
      BY <2>1, <2>2, PublishMoves DEF Publishes
    <2>3. CASE Unlink(o)
      <3>1. temp[o] \in FileKind /\ temp[o] # None
        BY <2>3, TypedFacts DEF Unlink, Step, Staged
      <3>. QED BY <1>1, <2>3, <3>1 DEF Unlink, NoName
    <2>4. CASE SavedButFails(o) \/ Crash(o)
      <3>1. target' = Disowned(o)
        BY <2>4 DEF SavedButFails, Crash
      <3>2. Quiet /\ (target # None => target'.by \in {target.by, None})
        BY <3>1, DisownedMoves
      <3>. QED BY <3>2, ProjectFileAssumption DEF Quiet
    <2>5. CASE \/ Edit(o) \/ FastSave(o) \/ SaveAs(o) \/ SaveAsBegins(o) \/ Stage(o)
               \/ Check(o) \/ Saved(o) \/ SaveFails(o) \/ Open(o) \/ Read(o)
               \/ Adopt(o) \/ OpenFails(o)
      BY <2>5 DEF Edit, FastSave, SaveAs, SaveAsBegins, Stage, Check, Saved, SaveFails,
                  Open, Read, Adopt, OpenFails, disk, Quiet
    <2>. QED BY <1>2, <2>2, <2>3, <2>4, <2>5 DEF Acts
  <1>3. CASE OthersTidy
    <2>1. PICK f \in litter : target' = TargetWithout(f)
      BY <1>3 DEF OthersTidy
    <2>2. f \in FileKind
      BY <2>1 DEF TypeOK
    <2>. QED BY <1>1, <1>3, <2>1, <2>2 DEF OthersTidy, NoName
  <1>4. ~OthersWrite /\ ~OthersRemove
    BY ProjectFileAssumption DEF OthersWrite, OthersRemove
  <1>5. ~OthersModify
    <2>1. SUFFICES ASSUME OthersModify PROVE FALSE
      OBVIOUS
    <2>2. target \in FileKind /\ clock + 1 \in Times
      BY <2>1, TypedFacts, TickType DEF OthersModify
    <2>3. Renamed(target) \in FileKind
      BY <2>2, RenamedType
    <2>4. target'.by = None
      BY <2>1, <2>3 DEF OthersModify, FileKind
    <2>. QED BY <2>4, ProjectFileAssumption
  <1>6. CASE UNCHANGED vars
    BY <1>6 DEF vars, disk, Quiet
  <1>. QED BY <1>2, <1>3, <1>4, <1>5, <1>6 DEF Next, Acts

LEMMA NextOwn ==
    ASSUME Typed, Aged, Own, [Next]_vars
    PROVE  Own'
  <1>. USE DEF Typed
  <1>1. SUFFICES ASSUME NEW e \in Editors, job'[e].step \notin {"linked", "published"},
                        target' # None, target'.by = e
                 PROVE  (active[e] # None /\ Identified(active[e]))'
    BY DEF Own
  <1>0. /\ job \in [Editors -> Jobs]
        /\ active \in [Editors -> Identities \cup {None}]
    BY DEF TypeOK
  <1>2. ASSUME NEW id \in Identities, Quiet, Identified(id), active'[e] = id
        PROVE  (active[e] # None /\ Identified(active[e]))'
    <2>1. Identified(id)' /\ id # None
      BY <1>2, IdentityKept, TypedFacts
    <2>2. target' # None /\ Single(target)' /\ Identity(target)' = id
      BY <2>1 DEF Identified
    <2>. QED BY <1>2, <2>1, <2>2 DEF Identified
  <1>3. ASSUME Quiet, target # None, target.by = e, active'[e] = active[e],
               job[e].step \notin {"linked", "published"}
        PROVE  (active[e] # None /\ Identified(active[e]))'
    <2>1. active[e] \in Identities /\ Identified(active[e])
      BY <1>3 DEF Own, TypeOK
    <2>. QED BY <1>2, <1>3, <2>1
  <1>4. CASE ~Acts(e)
    <2>1. job'[e] = job[e] /\ active'[e] = active[e]
      BY <1>4, NotMine
    <2>2. Quiet /\ target # None /\ target.by = e
      BY <1>1, <1>4, <2>1, OwnByOthers
    <2>. QED BY <1>1, <1>3, <2>1, <2>2
  <1>5. CASE \/ Edit(e) \/ FastSave(e) \/ SaveAs(e) \/ SaveAsBegins(e) \/ Stage(e)
             \/ Check(e) \/ SaveFails(e) \/ Open(e) \/ Read(e) \/ OpenFails(e)
    <2>1. target' = target /\ active'[e] = active[e]
      BY <1>5 DEF Edit, FastSave, SaveAs, SaveAsBegins, Stage, Check, SaveFails, Open,
                  Read, OpenFails, disk, editor
    <2>2. job[e].step \notin {"linked", "published"}
      BY <1>1, <1>5 DEF Edit, FastSave, SaveAs, SaveAsBegins, Stage, Check, Step,
                        SaveFails, Open, Read, OpenFails
    <2>. QED BY <1>1, <1>3, <2>1, <2>2 DEF Quiet
  <1>6. CASE PublishReplacing(e) \/ PublishLinking(e) \/ Unlink(e)
    BY <1>0, <1>1, <1>6 DEF PublishReplacing, PublishLinking, Unlink, Step, Jobs
  <1>7. CASE Saved(e)
    <2>1. PICK id \in Identities : Identified(id) /\ active' = [active EXCEPT ![e] = id]
      BY <1>7 DEF Saved
    <2>2. active'[e] = id /\ Quiet
      BY <1>0, <1>7, <2>1 DEF Saved, disk, Quiet
    <2>. QED BY <1>2, <2>1, <2>2
  <1>8. CASE Adopt(e)
    <2>1. Identified(job[e].seen) /\ Quiet /\ active'[e] = job[e].seen
      BY <1>0, <1>8 DEF Adopt, disk, Quiet
    <2>2. job[e].seen \in Identities
      BY <1>0, <2>1, TypedFacts, IdentityType DEF Identified
    <2>. QED BY <1>2, <2>1, <2>2
  <1>9. CASE SavedButFails(e) \/ Crash(e)
    <2>1. target' = Disowned(e)
      BY <1>9 DEF SavedButFails, Crash
    <2>. QED BY <1>1, <2>1, DisownedMoves DEF Quiet
  <1>. QED BY <1>4, <1>5, <1>6, <1>7, <1>8, <1>9 DEF Acts

(* An editor that has saved the project may save it again as long as       *)
(* nobody else has touched the file: publishing an archive and removing    *)
(* its temporary name do not change the identity that the editor remembers *)
(* (_save_project_path reads it after both), whatever the other programs   *)
(* do meanwhile and without any assumption on when they act.               *)
THEOREM OwnSavesAreAccepted == Spec => []OwnSavesAccepted
  <1>1. Init => Own
    BY DEF Init, Own
  <1>2. Typed /\ Aged /\ Own /\ [Next]_vars => Own'
    BY NextOwn
  <1>3. Own => OwnSavesAccepted
    BY DEF Own, OwnSavesAccepted
  <1>. QED BY <1>1, <1>2, <1>3, AlwaysAged, PTL DEF Spec

-----------------------------------------------------------------------------
(* What an editor shows and what is in its file *)

(* Nobody shows a file, or opens one, that has a temporary name.           *)
Unseen ==
    \A e \in Editors :
        /\ active[e] # None => NoName(active[e][1])
        /\ job[e].step \in {"opening", "read"} =>
              job[e].seen # None /\ NoName(job[e].seen[1])

(* A file that has been read has not changed while its identity has not.   *)
AsRead ==
    \A e \in Editors :
        job[e].step = "read" /\ target # None /\ Identity(target) = job[e].seen
        => target.content = job[e].content

(* A file that bears a known identity without a temporary name has not     *)
(* been touched.                                                           *)
LEMMA SameFile ==
    ASSUME Typed, Aged, [Next]_vars, NEW id \in Identities, Known(id, clock),
           NoName(id[1]), target' # None, Identity(target)' = id
    PROVE  /\ target # None /\ Identity(target) = id
           /\ target'.content = target.content
  <1>. USE DEF Typed
  <1>0. /\ id # None /\ id[1] \in Nat /\ id[2] \in Nat
        /\ id[1] <= clock /\ id[2] <= clock /\ clock \in Nat
    BY TypedFacts DEF Known, Identities, Times
  <1>1. target'.inode = id[1] /\ target'.changed = id[2]
    BY DEF Identity
  <1>2. ~Touched
    BY <1>0, <1>1 DEF Touched
  <1>3. ASSUME NEW e \in Editors PROVE ~Publishes(e)
    BY <1>1, TypedFacts DEF Publishes, NoName
  <1>4. Quiet
    BY <1>2, <1>3, Moves
  <1>. QED BY <1>4 DEF Quiet, Identity

LEMMA NextUnseen ==
    ASSUME Typed, Aged, Unseen, [Next]_vars
    PROVE  Unseen'
  <1>. USE DEF Typed
  <1>0. /\ job \in [Editors -> Jobs]
        /\ active \in [Editors -> Identities \cup {None}]
    BY DEF TypeOK
  <1>. DEFINE Nameless(id) == id \in Identities /\ Known(id, clock) /\ NoName(id[1])
              NamelessNext(id) ==
                id # None => /\ \A o \in Editors :
                                   temp'[o] # None => temp'[o].inode # id[1]
                             /\ \A g \in litter' : g.inode # id[1]
  <1>1. ASSUME NEW id, Nameless(id)
        PROVE  NamelessNext(id) /\ id # None
    <2>1. id[1] \in Nat /\ id[1] <= clock
      BY <1>1, TypedFacts DEF Known, Identities, Times
    <2>2. NoName(id[1])'
      BY <1>1, <2>1, NamesKept
    <2>. QED BY <1>1, <2>2, TypedFacts DEF NoName
  <1>2. NamelessNext(None)
    OBVIOUS
  <1>3. ASSUME NEW id \in Identities, Identified(id)
        PROVE  Nameless(id)
    BY <1>3, SingleFacts DEF Aged, Known
  <1>4. ASSUME NEW e \in Editors
        PROVE  /\ active[e] # None => Nameless(active[e])
               /\ job[e].step \in {"opening", "read"} => Nameless(job[e].seen)
    BY <1>0, <1>4 DEF Unseen, Aged, Jobs
  <1>. HIDE DEF Nameless, NamelessNext
  <1>5. ASSUME NEW e \in Editors
        PROVE  NamelessNext(active'[e])
    <2>1. CASE active'[e] = active[e]
      BY <1>1, <1>2, <1>4, <2>1
    <2>2. CASE Saved(e)
      BY <1>0, <1>1, <1>3, <2>2 DEF Saved
    <2>3. CASE Adopt(e)
      BY <1>0, <1>1, <1>4, <2>3 DEF Adopt
    <2>4. CASE Crash(e)
      BY <1>0, <1>2, <2>4 DEF Crash
    <2>5. CASE Acts(e) /\ ~Saved(e) /\ ~Adopt(e) /\ ~Crash(e)
      BY <2>1, <2>5
         DEF Acts, Edit, FastSave, SaveAs, SaveAsBegins, Stage, Check, PublishReplacing,
             PublishLinking, Unlink, SavedButFails, SaveFails, Open, Read, OpenFails,
             editor
    <2>6. CASE ~Acts(e)
      BY <2>1, <2>6, NotMine
    <2>. QED BY <2>2, <2>3, <2>4, <2>5, <2>6
  <1>6. ASSUME NEW e \in Editors, job'[e].step \in {"opening", "read"}
        PROVE  job'[e].seen # None /\ NamelessNext(job'[e].seen)
    <2>1. CASE Open(e)
      <3>1. PICK id \in Identities :
              /\ Identified(id)
              /\ job' = [job EXCEPT ![e] = [NoJob EXCEPT !.step = "opening", !.seen = id]]
        BY <2>1 DEF Open
      <3>2. job'[e].seen = id
        BY <1>0, <3>1 DEF NoJob
      <3>. QED BY <1>1, <1>3, <3>1, <3>2
    <2>2. CASE Read(e)
      <3>1. job'[e].seen = job[e].seen /\ job[e].step = "opening"
        BY <1>0, <2>2 DEF Read, Jobs
      <3>. QED BY <1>1, <1>4, <3>1
    <2>3. CASE ~Acts(e) \/ Edit(e)
      <3>1. job'[e] = job[e]
        BY <2>3, NotMine DEF Edit
      <3>. QED BY <1>1, <1>4, <1>6, <3>1
    <2>4. ~FastSave(e) /\ ~SaveAs(e)
      BY <1>0, <1>6 DEF FastSave, SaveAs, NoJob
    <2>5. /\ ~SaveAsBegins(e) /\ ~Stage(e) /\ ~Check(e) /\ ~PublishReplacing(e)
          /\ ~PublishLinking(e) /\ ~Unlink(e)
      BY <1>0, <1>6 DEF SaveAsBegins, Stage, Check, PublishReplacing, PublishLinking,
                        Unlink, Step, Jobs
    <2>6. /\ ~Saved(e) /\ ~SavedButFails(e) /\ ~SaveFails(e) /\ ~Adopt(e)
          /\ ~OpenFails(e) /\ ~Crash(e)
      BY <1>0, <1>6 DEF Saved, SavedButFails, SaveFails, Adopt, OpenFails, Crash, Ends,
                        NoJob
    <2>. QED BY <2>1, <2>2, <2>3, <2>4, <2>5, <2>6 DEF Acts
  <1>. QED BY <1>5, <1>6 DEF Unseen, NamelessNext, NoName

LEMMA NextAsRead ==
    ASSUME Typed, Aged, Unseen, AsRead, [Next]_vars
    PROVE  AsRead'
  <1>. USE DEF Typed
  <1>0. job \in [Editors -> Jobs]
    BY DEF TypeOK
  <1>1. SUFFICES ASSUME NEW e \in Editors, job'[e].step = "read", target' # None,
                        Identity(target)' = job'[e].seen
                 PROVE  target'.content = job'[e].content
    BY DEF AsRead
  <1>2. CASE Read(e)
    BY <1>0, <1>2 DEF Read, disk, Jobs
  <1>3. CASE job'[e] = job[e]
    <2>1. /\ job[e].seen \in Identities /\ Known(job[e].seen, clock)
          /\ NoName(job[e].seen[1])
      BY <1>0, <1>1, <1>3 DEF Unseen, Aged, Jobs
    <2>2. /\ target # None /\ Identity(target) = job[e].seen
          /\ target'.content = target.content
      BY <1>1, <1>3, <2>1, SameFile
    <2>. QED BY <1>1, <1>3, <2>2 DEF AsRead
  <1>4. CASE ~Acts(e) \/ Edit(e)
    BY <1>3, <1>4, NotMine DEF Edit
  <1>5. ~FastSave(e) /\ ~SaveAs(e) /\ ~Open(e)
    BY <1>0, <1>1 DEF FastSave, SaveAs, Open, NoJob
  <1>6. /\ ~SaveAsBegins(e) /\ ~Stage(e) /\ ~Check(e) /\ ~PublishReplacing(e)
        /\ ~PublishLinking(e) /\ ~Unlink(e)
    BY <1>0, <1>1 DEF SaveAsBegins, Stage, Check, PublishReplacing, PublishLinking,
                      Unlink, Step, Jobs
  <1>7. /\ ~Saved(e) /\ ~SavedButFails(e) /\ ~SaveFails(e) /\ ~Adopt(e)
        /\ ~OpenFails(e) /\ ~Crash(e)
    BY <1>0, <1>1 DEF Saved, SavedButFails, SaveFails, Adopt, OpenFails, Crash, Ends,
                      NoJob
  <1>. QED BY <1>2, <1>4, <1>5, <1>6, <1>7 DEF Acts

(* What is staged is the project, and so is what is published until the    *)
(* save is over.                                                           *)
InTransit ==
    \A e \in Editors :
        /\ job[e].step \in {"staged", "checked", "linked"} => temp[e].content = doc[e]
        /\ job[e].step \in {"linked", "published"} =>
              target # None /\ target.content = doc[e]

(* While nobody else acts between a publication and the look at it.        *)
LEMMA Still ==
    ASSUME Guarded, Typed, [Next]_vars, NEW e \in Editors, Relying(e), ~Acts(e)
    PROVE  /\ target' = None <=> target = None
           /\ target # None => target'.content = target.content
  <1>. USE DEF Typed
  <1>1. /\ ~OthersWrite /\ ~OthersModify /\ ~OthersRemove /\ ~OthersTidy
    BY ProjectFileAssumption
       DEF OthersWrite, OthersModify, OthersRemove, OthersTidy, Others, Undisturbed
  <1>2. ASSUME NEW o \in Editors, o # e
        PROVE  ~PublishReplacing(o) /\ ~PublishLinking(o)
    BY <1>2 DEF PublishReplacing, PublishLinking, Undisturbed
  <1>3. ASSUME NEW o \in Editors, Unlink(o)
        PROVE  /\ target' = None <=> target = None
               /\ target # None => target'.content = target.content
    <2>1. temp[o] \in FileKind /\ temp[o] # None
      BY <1>3, TypedFacts DEF Unlink, Step, Staged
    <2>2. Tick /\ target' = TargetWithout(temp[o])
      BY <1>3 DEF Unlink
    <2>. QED BY <2>1, <2>2, WithoutMoves
  <1>4. ASSUME NEW o \in Editors, o # e, Acts(o), ~Unlink(o)
        PROVE  Quiet
    <2>1. CASE SavedButFails(o) \/ Crash(o)
      BY <2>1, DisownedMoves DEF SavedButFails, Crash
    <2>2. CASE ~SavedButFails(o) /\ ~Crash(o)
      BY <1>2, <1>4, <2>2
         DEF Acts, Edit, FastSave, SaveAs, SaveAsBegins, Stage, Check, Saved, SaveFails,
             Open, Read, Adopt, OpenFails, disk, Quiet
    <2>. QED BY <2>1, <2>2
  <1>5. CASE UNCHANGED vars
    BY <1>5 DEF vars, disk, Quiet
  <1>6. CASE \E o \in Editors : o # e /\ Acts(o) /\ ~Unlink(o)
    BY <1>4, <1>6 DEF Quiet
  <1>7. CASE \E o \in Editors : Unlink(o)
    BY <1>3, <1>7
  <1>. QED BY <1>1, <1>5, <1>6, <1>7 DEF Next, Acts

LEMMA NextInTransit ==
    ASSUME Guarded, Typed, InTransit, [Next]_vars
    PROVE  InTransit'
  <1>. USE DEF Typed
  <1>0. /\ job \in [Editors -> Jobs] /\ temp \in [Editors -> FileKind \cup {None}]
        /\ doc \in [Editors -> Times]
    BY DEF TypeOK
  <1>1. ASSUME NEW e \in Editors, ~Acts(e)
        PROVE  /\ job'[e].step \in {"staged", "checked", "linked"} =>
                      temp'[e].content = doc'[e]
               /\ job'[e].step \in {"linked", "published"} =>
                      target' # None /\ target'.content = doc'[e]
    <2>1. job'[e] = job[e] /\ doc'[e] = doc[e] /\ temp'[e] = temp[e]
      BY <1>1, NotMine
    <2>2. ASSUME job[e].step \in {"linked", "published"}
          PROVE  target' # None /\ target'.content = doc[e]
      BY <1>1, <2>2, Still DEF InTransit, Relying
    <2>. QED BY <2>1, <2>2 DEF InTransit
  <1>2. ASSUME NEW e \in Editors, Acts(e)
        PROVE  /\ job'[e].step \in {"staged", "checked", "linked"} =>
                      temp'[e].content = doc'[e]
               /\ job'[e].step \in {"linked", "published"} =>
                      target' # None /\ target'.content = doc'[e]
    <2>1. CASE Stage(e)
      BY <1>0, <2>1 DEF Stage, Step, editor, Jobs
    <2>2. CASE Check(e)
      BY <1>0, <2>2 DEF Check, Step, editor, disk, Jobs, InTransit
    <2>3. CASE PublishReplacing(e) \/ PublishLinking(e)
      <3>1. Publishes(e) /\ target' # None
        BY <2>3, PublishMoves, TypedFacts DEF Publishes
      <3>2. temp[e].content = doc[e] /\ doc' = doc
        BY <2>3 DEF PublishReplacing, PublishLinking, Step, InTransit, editor
      <3>3. job'[e].step = "linked" => temp' = temp
        BY <1>0, <2>3 DEF PublishReplacing, PublishLinking, Step, Jobs
      <3>4. job'[e].step \in {"linked", "published"}
        BY <1>0, <2>3 DEF PublishReplacing, PublishLinking, Step, Jobs
      <3>. QED BY <3>1, <3>2, <3>3, <3>4 DEF Publishes
    <2>4. CASE Unlink(e)
      <3>1. temp[e] \in FileKind
        BY <2>4, TypedFacts DEF Unlink, Step, Staged
      <3>2. target # None /\ target.content = doc[e] /\ doc' = doc
        BY <2>4 DEF Unlink, Step, InTransit, editor
      <3>3. target' # None /\ target'.content = target.content
        BY <2>4, <3>1, <3>2, WithoutMoves DEF Unlink
      <3>4. job'[e].step = "published"
        BY <1>0, <2>4 DEF Unlink, Step, Jobs
      <3>. QED BY <3>2, <3>3, <3>4
    <2>5. CASE Edit(e)
      BY <2>5 DEF Edit
    <2>6. CASE FastSave(e) \/ SaveAs(e)
      BY <1>0, <2>6 DEF FastSave, SaveAs, NoJob
    <2>7. CASE SaveAsBegins(e) \/ Read(e)
      BY <1>0, <2>7 DEF SaveAsBegins, Read, Jobs
    <2>8. CASE Open(e)
      BY <1>0, <2>8 DEF Open, NoJob
    <2>9. CASE \/ Saved(e) \/ SavedButFails(e) \/ SaveFails(e) \/ Adopt(e)
               \/ OpenFails(e) \/ Crash(e)
      BY <1>0, <2>9 DEF Saved, SavedButFails, SaveFails, Adopt, OpenFails, Crash, Ends,
                        NoJob
    <2>. QED BY <1>2, <2>1, <2>2, <2>3, <2>4, <2>5, <2>6, <2>7, <2>8, <2>9 DEF Acts
  <1>. QED BY <1>1, <1>2 DEF InTransit

LEMMA NextClean ==
    ASSUME Typed, Aged, Unseen, AsRead, InTransit, CleanMeansSaved, [Next]_vars
    PROVE  CleanMeansSaved'
  <1>. USE DEF Typed
  <1>0. /\ job \in [Editors -> Jobs] /\ doc \in [Editors -> Times]
        /\ active \in [Editors -> Identities \cup {None}]
        /\ dirty \in [Editors -> BOOLEAN]
    BY DEF TypeOK
  <1>1. SUFFICES ASSUME NEW e \in Editors, ~dirty'[e], active'[e] # None, target' # None,
                        Identity(target)' = active'[e]
                 PROVE  target'.content = doc'[e]
    BY DEF CleanMeansSaved
  <1>2. ASSUME dirty'[e] = dirty[e], active'[e] = active[e], doc'[e] = doc[e]
        PROVE  target'.content = doc'[e]
    <2>1. active[e] \in Identities /\ Known(active[e], clock) /\ NoName(active[e][1])
      BY <1>0, <1>1, <1>2 DEF Unseen, Aged
    <2>2. /\ target # None /\ Identity(target) = active[e]
          /\ target'.content = target.content
      BY <1>1, <1>2, <2>1, SameFile
    <2>. QED BY <1>1, <1>2, <2>2 DEF CleanMeansSaved
  <1>3. CASE ~Acts(e)
    BY <1>2, <1>3, NotMine
  <1>4. CASE \/ FastSave(e) \/ SaveAs(e) \/ SaveAsBegins(e) \/ Stage(e) \/ Check(e)
             \/ PublishReplacing(e) \/ PublishLinking(e) \/ Unlink(e)
             \/ SavedButFails(e) \/ SaveFails(e) \/ Open(e) \/ Read(e) \/ OpenFails(e)
    BY <1>2, <1>4 DEF FastSave, SaveAs, SaveAsBegins, Stage, Check, PublishReplacing,
                      PublishLinking, Unlink, SavedButFails, SaveFails, Open, Read,
                      OpenFails, editor
  <1>5. CASE Edit(e)
    BY <1>0, <1>1, <1>5 DEF Edit
  <1>6. CASE Saved(e)
    BY <1>6 DEF Saved, disk, InTransit
  <1>7. CASE Adopt(e)
    BY <1>0, <1>7 DEF Adopt, Identified, disk, AsRead
  <1>8. CASE Crash(e)
    BY <1>0, <1>1, <1>8 DEF Crash
  <1>. QED BY <1>3, <1>4, <1>5, <1>6, <1>7, <1>8 DEF Acts

(* When nobody else touches the file between an editor's publication and   *)
(* its look at the identity, an editor without unsaved changes shows what  *)
(* is in its file (_save_project_path and _load_project_path), whatever    *)
(* others do while a file is read, or between a check and a publication.   *)
THEOREM CleanIsSaved ==
    ASSUME Guarded
    PROVE  Spec => []CleanMeansSaved
  <1>. DEFINE I == Unseen /\ AsRead /\ InTransit /\ CleanMeansSaved
  <1>1. Init => I
    BY DEF Init, Unseen, AsRead, InTransit, CleanMeansSaved, NoJob
  <1>2. Typed /\ Aged /\ I /\ [Next]_vars => I'
    BY NextUnseen, NextAsRead, NextInTransit, NextClean
  <1>. QED BY <1>1, <1>2, AlwaysAged, PTL DEF Spec

=============================================================================
