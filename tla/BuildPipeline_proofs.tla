------------------------ MODULE BuildPipeline_proofs ------------------------
EXTENDS BuildPipeline, TLAPS

-----------------------------------------------------------------------------
(* Types *)

(* What was read, with one more file.                                      *)
LEMMA PinsGrow ==
    ASSUME NEW pins \in Pinned, NEW a \in Assets, NEW v \in Versions
    PROVE  [b \in DOMAIN pins \cup {a} |-> IF b = a THEN v ELSE pins[b]] \in Pinned
  <1>1. PICK S \in SUBSET Assets : pins \in [S -> Versions]
    BY DEF Pinned
  <1>2. DOMAIN pins = S /\ S \cup {a} \in SUBSET Assets
    BY <1>1
  <1>3. [b \in S \cup {a} |-> IF b = a THEN v ELSE pins[b]] \in [S \cup {a} -> Versions]
    BY <1>1
  <1>. QED BY <1>2, <1>3 DEF Pinned

LEMMA NoPinsType == NoPins \in Pinned
  <1>1. NoPins \in [{} -> Versions]
    BY DEF NoPins
  <1>. QED BY <1>1 DEF Pinned

LEMMA NoJobType == NoJob \in Jobs
  BY NoPinsType DEF NoJob, Jobs, Steps

(* A build that verifies or publishes has a staged image of what it read;  *)
(* the identity it publishes under is the image's.                         *)
Staged ==
    \A p \in Editors :
        /\ job[p].step \in {"verifying", "publishing"} =>
             /\ stage[p] # None
             /\ stage[p].by = p
             /\ stage[p].media = job[p].pins
        /\ job[p].step = "publishing" => stage[p].inode = job[p].identity

Typed == TypeOK /\ Staged

LEMMA InitTyped == Init => Typed
  <1>. SUFFICES ASSUME Init PROVE Typed
    OBVIOUS
  <1>1. job \in [Editors -> Jobs]
    BY NoJobType DEF Init
  <1>2. media \in [Editors -> Media]
    BY BuildAssumption DEF Init, Media, Versions
  <1>3. TypeOK
    BY <1>1, <1>2, BuildAssumption DEF Init, TypeOK
  <1>4. Staged
    BY DEF Init, Staged, NoJob
  <1>. QED BY <1>3, <1>4 DEF Typed

(* The end of a build.                                                     *)
LEMMA EndsTyped ==
    ASSUME Typed, NEW p \in Editors, NEW failure \in BOOLEAN, Ends(p, failure),
           iso' \in Images \cup {None}
    PROVE  Typed'
  <1>1. job' \in [Editors -> Jobs]
    BY NoJobType DEF Typed, TypeOK, Ends
  <1>2. TypeOK'
    BY <1>1 DEF Typed, TypeOK, Ends, source, project
  <1>3. Staged'
    BY DEF Typed, TypeOK, Staged, Ends, NoJob
  <1>. QED BY <1>2, <1>3 DEF Typed

(* Another value of a build's job.                                         *)
LEMMA JobTyped ==
    ASSUME TypeOK, NEW p \in Editors, NEW j \in Jobs, job' = [job EXCEPT ![p] = j]
    PROVE  job' \in [Editors -> Jobs] /\ job'[p] = j
             /\ \A q \in Editors \ {p} : job'[q] = job[q]
  BY DEF TypeOK

LEMMA BuildTyped ==
    ASSUME Typed, NEW p \in Editors, Builds(p)
    PROVE  Typed'
  <1>. USE DEF Typed
  <1>0. job[p] \in Jobs /\ job \in [Editors -> Jobs]
    BY DEF TypeOK
  <1>1. CASE Start(p)
    <2>0. Edited(p) \in SUBSET Assets /\ {media[p]} \in SUBSET Media
      BY DEF Edited, TypeOK
    <2>1. [NoJob EXCEPT !.step = "reading", !.recipe = Edited(p),
                        !.moments = {media[p]}] \in Jobs
      BY <2>0, NoJobType DEF Jobs, Steps
    <2>2. TypeOK'
      BY <1>1, <2>1 DEF Start, TypeOK, source, project, output
    <2>3. Staged'
      BY <1>1, <1>0 DEF Start, Staged, source, project, output, NoJob
    <2>. QED BY <2>2, <2>3
  <1>2. ASSUME NEW a \in Assets, ReadMedia(p, a)
        PROVE  Typed'
    <2>. DEFINE new == [b \in DOMAIN job[p].pins \cup {a} |->
                          IF b = a THEN media[p][a] ELSE job[p].pins[b]]
    <2>0. job[p].pins \in Pinned /\ media[p][a] \in Versions
      BY <1>0 DEF Jobs, TypeOK, Media
    <2>1. new \in Pinned
      BY <2>0, PinsGrow
    <2>2. job' = [job EXCEPT ![p].pins = new] /\ job[p].step = "reading"
      BY <1>2 DEF ReadMedia
    <2>. HIDE DEF new
    <2>3. job' \in [Editors -> Jobs]
      BY <1>0, <2>1, <2>2 DEF Jobs
    <2>4. TypeOK'
      BY <1>2, <2>3 DEF ReadMedia, TypeOK, source, project, output
    <2>5. Staged'
      BY <1>0, <1>2, <2>2 DEF ReadMedia, Staged, source, project, output
    <2>. QED BY <2>4, <2>5
  <1>3. ASSUME NEW a \in Assets, Compare(p, a)
        PROVE  Typed'
    <2>1. job' \in [Editors -> Jobs]
      BY <1>0, <1>3 DEF Compare, Jobs
    <2>2. TypeOK'
      BY <1>3, <2>1 DEF Compare, TypeOK, source, project, output
    <2>3. Staged'
      BY <1>0, <1>3 DEF Compare, Staged, source, project, output, Jobs
    <2>. QED BY <2>2, <2>3
  <1>4. CASE WriteImage(p)
    <2>1. PICK i \in FreeInodes :
            stage' = [stage EXCEPT ![p] = [inode |-> i, by |-> p,
                                           media |-> job[p].pins, moments |-> {}]]
      BY <1>4 DEF WriteImage
    <2>2. [inode |-> i, by |-> p, media |-> job[p].pins, moments |-> {}] \in Images
      BY <1>0 DEF Images, Jobs, FreeInodes
    <2>3. job' = [job EXCEPT ![p] = [job[p] EXCEPT !.step = "verifying",
                                                   !.left = job[p].recipe]]
      BY <1>0, <1>4 DEF WriteImage, Jobs
    <2>4. job' \in [Editors -> Jobs]
      BY <1>0, <2>3 DEF Jobs, Steps
    <2>5. TypeOK'
      BY <1>4, <2>1, <2>2, <2>4 DEF WriteImage, TypeOK, source, project
    <2>6. stage'[p] # None
      BY <2>1, <2>2, BuildAssumption DEF TypeOK
    <2>7. Staged'
      BY <1>0, <1>4, <2>1, <2>3, <2>6 DEF Staged, TypeOK, Jobs
    <2>. QED BY <2>5, <2>7
  <1>5. CASE Hold(p)
    <2>1. stage[p] \in Images
      BY <1>0, <1>5 DEF Hold, Staged, TypeOK
    <2>2. job' = [job EXCEPT ![p] = [job[p] EXCEPT !.step = "publishing",
                                                   !.identity = stage[p].inode]]
      BY <1>0, <1>5 DEF Hold, Jobs
    <2>3. job' \in [Editors -> Jobs]
      BY <1>0, <2>1, <2>2 DEF Jobs, Steps, Images
    <2>4. TypeOK'
      BY <1>5, <2>1, <2>3 DEF Hold, TypeOK, Images, source, project
    <2>5. Staged'
      BY <1>0, <1>5, <2>1, <2>2 DEF Hold, Staged, Jobs
    <2>. QED BY <2>4, <2>5
  <1>6. CASE Publish(p)
    <2>1. stage[p] \in Images
      BY <1>0, <1>6 DEF Publish, Step, Staged, TypeOK
    <2>2. job' \in [Editors -> Jobs]
      BY <1>0, <1>6 DEF Publish, Step, Jobs, Steps
    <2>3. iso' \in Images
      BY <1>0, <1>6, <2>1 DEF Publish, Images, Jobs
    <2>4. TypeOK'
      BY <1>6, <2>2, <2>3 DEF Publish, TypeOK, source, project
    <2>5. Staged'
      BY <1>0, <1>6 DEF Publish, Step, Staged, Jobs, TypeOK
    <2>. QED BY <2>4, <2>5
  <1>7. CASE Commit(p)
    <2>1. job' \in [Editors -> Jobs]
      BY <1>0, <1>7 DEF Commit, Step, Jobs, Steps
    <2>2. TypeOK'
      BY <1>7, <2>1 DEF Commit, TypeOK, source, project, output
    <2>3. Staged'
      BY <1>0, <1>7 DEF Commit, Step, Staged, Jobs, output
    <2>. QED BY <2>2, <2>3
  <1>8. CASE Release(p)
    <2>1. job' \in [Editors -> Jobs]
      BY <1>0, <1>8 DEF Release, Jobs, Steps
    <2>2. TypeOK'
      BY <1>8, <2>1 DEF Release, TypeOK, source, project
    <2>3. Staged'
      BY <1>0, <1>8 DEF Release, Staged, Jobs
    <2>. QED BY <2>2, <2>3
  <1>9. CASE Finish(p) \/ Fail(p) \/ Withdraw(p) \/ WithdrawFails(p)
    <2>1. iso' \in Images \cup {None}
      BY <1>9 DEF Finish, Fail, Withdraw, WithdrawFails, TypeOK
    <2>2. PICK failure \in BOOLEAN : Ends(p, failure)
      BY <1>9 DEF Finish, Fail, Withdraw, WithdrawFails
    <2>. QED BY <2>1, <2>2, EndsTyped
  <1>. QED
    BY <1>1, <1>2, <1>3, <1>4, <1>5, <1>6, <1>7, <1>8, <1>9 DEF Builds

LEMMA ChangesTyped ==
    ASSUME Typed, NEW p \in Editors, NEW new \in Media, Changes(p, new),
           edits' \in 0..MaxEdits
    PROVE  Typed'
  <1>. USE DEF Typed
  <1>1. job \in [Editors -> Jobs] /\ job[p].moments \cup {new} \in SUBSET Media
    BY DEF TypeOK, Jobs
  <1>2. job' \in [Editors -> Jobs]
    BY <1>1 DEF Changes, Jobs
  <1>3. TypeOK'
    BY <1>2 DEF Changes, TypeOK, source, output
  <1>4. Staged'
    BY <1>1 DEF Changes, Staged, Jobs, output
  <1>. QED BY <1>3, <1>4

LEMMA OthersTyped ==
    ASSUME Typed, OthersWrite \/ OthersRemove \/ OthersCache
    PROVE  Typed'
  <1>. USE DEF Typed
  <1>1. CASE OthersWrite
    <2>1. PICK i \in FreeInodes : iso' = [inode |-> i, by |-> None, media |-> NoPins,
                                           moments |-> {}]
      BY <1>1 DEF OthersWrite
    <2>2. iso' \in Images
      BY <2>1, NoPinsType DEF Images, FreeInodes
    <2>3. TypeOK' /\ Staged'
      BY <1>1, <2>2 DEF OthersWrite, TypeOK, Staged, source, project
    <2>. QED BY <2>3
  <1>2. CASE OthersRemove
    BY <1>2 DEF OthersRemove, TypeOK, Staged, source, project
  <1>3. CASE OthersCache
    BY <1>3 DEF OthersCache, TypeOK, Staged, project, output, Trees
  <1>. QED BY <1>1, <1>2, <1>3

LEMMA CrashTyped ==
    ASSUME Typed, NEW p \in Editors, Crash(p)
    PROVE  Typed'
  <1>. USE DEF Typed
  <1>1. job' \in [Editors -> Jobs]
    BY NoJobType DEF Crash, TypeOK
  <1>2. TypeOK'
    BY <1>1 DEF Crash, TypeOK, project
  <1>3. Staged'
    BY DEF Crash, TypeOK, Staged, NoJob
  <1>. QED BY <1>2, <1>3

LEMMA IndexesTyped ==
    ASSUME Typed, NEW p \in Editors, Indexes(p)
    PROVE  Typed'
  <1>. USE DEF Typed
  <1>1. TypeOK'
    BY DEF Indexes, IndexFinds, IndexStages, IndexPublishes, IndexFails, TypeOK,
           project, output, Trees
  <1>2. Staged'
    BY DEF Indexes, IndexFinds, IndexStages, IndexPublishes, IndexFails, Staged,
           project, output
  <1>. QED BY <1>1, <1>2

LEMMA NextTyped ==
    ASSUME Typed, [Next]_vars
    PROVE  Typed'
  <1>1. ASSUME NEW p \in Editors, NEW a \in Assets, Replace(p, a)
        PROVE  Typed'
    <2>1. edits' \in 0..MaxEdits /\ edits + 2 \in Versions
      BY <1>1, BuildAssumption DEF Replace, Typed, TypeOK, Versions
    <2>2. [media[p] EXCEPT ![a] = edits + 2] \in Media
      BY <2>1 DEF Typed, TypeOK, Media
    <2>. QED BY <1>1, <2>1, <2>2, ChangesTyped DEF Replace
  <1>2. ASSUME NEW p \in Editors, NEW a \in Assets, Remove(p, a)
        PROVE  Typed'
    <2>1. 0 \in Versions
      BY BuildAssumption DEF Versions
    <2>2. [media[p] EXCEPT ![a] = 0] \in Media
      BY <2>1 DEF Typed, TypeOK, Media
    <2>. QED BY <1>2, <2>2, ChangesTyped DEF Remove, Typed, TypeOK
  <1>3. CASE UNCHANGED vars
    BY <1>3 DEF vars, source, project, output, Typed, TypeOK, Staged
  <1>. QED
    BY <1>1, <1>2, <1>3, BuildTyped, IndexesTyped, CrashTyped, OthersTyped DEF Next

(* Every state the model reaches has its types: a build that verifies or   *)
(* publishes has the image it wrote (Nfl2k5BuildService.build).            *)
THEOREM PipelineTyped == Spec => []TypeOK
  <1>1. Typed /\ [Next]_vars => Typed'
    BY NextTyped
  <1>2. Typed => TypeOK
    BY DEF Typed
  <1>. QED BY <1>1, <1>2, InitTyped, PTL DEF Spec

LEMMA AlwaysTyped == Spec => []Typed
  <1>1. Typed /\ [Next]_vars => Typed'
    BY NextTyped
  <1>. QED BY <1>1, InitTyped, PTL DEF Spec

-----------------------------------------------------------------------------
(* What a build that fails leaves under the output name *)

(* An image under the output name is attributed to its build, and is the   *)
(* one the build would withdraw.                                           *)
Attributed ==
    \A p \in Editors :
        /\ failed[p] => job[p].step = "idle"
        /\ failed[p] \/ job[p].step \in {"reading", "verifying", "publishing"} =>
             iso = None \/ iso.by # p
        /\ job[p].step \in {"published", "released", "committed"} =>
             \/ iso = None \/ iso.by # p
             \/ iso.inode = job[p].identity

LEMMA BuildAttributed ==
    ASSUME Typed, Attributed, NEW p \in Editors, Builds(p)
    PROVE  Attributed'
  <1>. USE DEF Typed
  <1>0. job \in [Editors -> Jobs] /\ failed \in [Editors -> BOOLEAN]
    BY DEF TypeOK
  <1>1. CASE Start(p)
    BY <1>0, <1>1 DEF Start, Attributed, NoJob, output
  <1>2. ASSUME NEW a \in Assets, ReadMedia(p, a)
        PROVE  Attributed'
    BY <1>0, <1>2 DEF ReadMedia, Attributed, Jobs, output
  <1>3. ASSUME NEW a \in Assets, Compare(p, a)
        PROVE  Attributed'
    BY <1>0, <1>3 DEF Compare, Attributed, Jobs, output
  <1>4. CASE WriteImage(p)
    BY <1>0, <1>4 DEF WriteImage, Attributed, Jobs
  <1>5. CASE Hold(p)
    BY <1>0, <1>5 DEF Hold, Attributed, Jobs
  <1>6. CASE Publish(p)
    <2>1. iso'.by = p /\ iso'.inode = job[p].identity
      <3>1. stage[p] \in Images /\ stage[p].by = p /\ stage[p].inode = job[p].identity
        BY <1>6 DEF Publish, Step, Staged, TypeOK
      <3>. QED BY <1>6, <3>1 DEF Publish, Images
    <2>. QED BY <1>0, <1>6, <2>1 DEF Publish, Step, Attributed, Jobs
  <1>7. CASE Commit(p)
    BY <1>0, <1>7 DEF Commit, Step, Attributed, Jobs, output
  <1>8. CASE Release(p)
    BY <1>0, <1>8 DEF Release, Attributed, Jobs
  <1>9. CASE Finish(p) \/ WithdrawFails(p)
    BY <1>0, <1>9 DEF Finish, WithdrawFails, Ends, Attributed, NoJob
  <1>10. CASE Fail(p)
    BY <1>0, <1>10 DEF Fail, Ends, Attributed, NoJob
  <1>11. CASE Withdraw(p)
    BY <1>0, <1>11 DEF Withdraw, Ends, Attributed, NoJob, OutputIs
  <1>. QED
    BY <1>1, <1>2, <1>3, <1>4, <1>5, <1>6, <1>7, <1>8, <1>9, <1>10, <1>11 DEF Builds

LEMMA NextAttributed ==
    ASSUME Typed, Attributed, [Next]_vars
    PROVE  Attributed'
  <1>. USE DEF Typed
  <1>0. job \in [Editors -> Jobs] /\ failed \in [Editors -> BOOLEAN]
    BY DEF TypeOK
  <1>1. ASSUME NEW p \in Editors, NEW a \in Assets, Replace(p, a) \/ Remove(p, a)
        PROVE  Attributed'
    BY <1>0, <1>1 DEF Replace, Remove, Changes, Attributed, Jobs, output
  <1>2. ASSUME NEW p \in Editors, Indexes(p)
        PROVE  Attributed'
    BY <1>2 DEF Indexes, IndexFinds, IndexStages, IndexPublishes, IndexFails,
                Attributed, output
  <1>3. ASSUME NEW p \in Editors, Crash(p)
        PROVE  Attributed'
    BY <1>0, <1>3 DEF Crash, Attributed, NoJob
  <1>4. CASE OthersWrite
    BY <1>4, BuildAssumption DEF OthersWrite, Attributed
  <1>5. CASE OthersRemove \/ OthersCache
    BY <1>5 DEF OthersRemove, OthersCache, Attributed, output
  <1>6. CASE UNCHANGED vars
    BY <1>6 DEF vars, output, Attributed
  <1>. QED
    BY <1>1, <1>2, <1>3, <1>4, <1>5, <1>6, BuildAttributed DEF Next

(* "Publish one verified output, or leave the destination untouched"       *)
(* (Nfl2k5BuildService.build): a build that fails, at whatever step, in    *)
(* whatever company, leaves no image of its own under the output name.     *)
THEOREM FailuresLeaveNothing == Spec => []FailedLeavesNothing
  <1>1. Init => Attributed
    BY DEF Init, Attributed, NoJob
  <1>2. Typed /\ Attributed /\ [Next]_vars => Attributed'
    BY NextAttributed
  <1>3. Attributed => FailedLeavesNothing
    BY DEF Attributed, FailedLeavesNothing
  <1>. QED BY <1>1, <1>2, <1>3, AlwaysTyped, PTL DEF Spec

-----------------------------------------------------------------------------
(* The media of an image *)

(* No version is newer than the last replacement.                          *)
Dated ==
    /\ \A p \in Editors, a \in Assets : media[p][a] <= edits + 1
    /\ \A p \in Editors : \A a \in DOMAIN job[p].pins :
          job[p].pins[a] \in 1..edits + 1

(* The moment at which the last file was read has every file that has been *)
(* compared; of one that is still to be compared, either the moment has it *)
(* too or it will never be there again.                                    *)
Witnessed(j, m, current) ==
    \A a \in DOMAIN j.pins :
        m[a] = j.pins[a] \/ (a \in j.left /\ current[a] # j.pins[a])

Tracked ==
    \A p \in Editors :
        /\ job[p].step \in {"reading", "verifying"} => media[p] \in job[p].moments
        /\ job[p].step = "verifying" =>
             \E m \in job[p].moments : Witnessed(job[p], m, media[p])
        /\ job[p].step = "publishing" =>
             \E m \in job[p].moments :
               \A a \in DOMAIN job[p].pins : m[a] = job[p].pins[a]

Traced == Dated /\ Tracked /\ ImageOfOneMoment

LEMMA PinsFacts ==
    ASSUME TypeOK, NEW p \in Editors
    PROVE  /\ DOMAIN job[p].pins \subseteq Assets
           /\ \A a \in DOMAIN job[p].pins : job[p].pins[a] \in Versions
           /\ job[p].moments \subseteq Media
           /\ media[p] \in Media
           /\ edits \in 0..MaxEdits
  <1>1. job[p] \in Jobs /\ media[p] \in Media /\ edits \in 0..MaxEdits
    BY DEF TypeOK
  <1>2. PICK S \in SUBSET Assets : job[p].pins \in [S -> Versions]
    BY <1>1 DEF Jobs, Pinned
  <1>. QED BY <1>1, <1>2 DEF Jobs

LEMMA InitTraced == Init => Traced
  <1>. SUFFICES ASSUME Init PROVE Traced
    OBVIOUS
  <1>1. Dated
    BY DEF Init, Dated, NoJob, NoPins
  <1>2. Tracked
    BY DEF Init, Tracked, NoJob
  <1>3. ImageOfOneMoment
    BY DEF Init, ImageOfOneMoment
  <1>. QED BY <1>1, <1>2, <1>3 DEF Traced

(* A file that is replaced or removed does not become one that was read.   *)
LEMMA ChangesTraced ==
    ASSUME Typed, Traced, NEW p \in Editors, NEW a \in Assets, NEW v \in Versions,
           Changes(p, [media[p] EXCEPT ![a] = v]),
           edits' \in {edits, edits + 1}, v <= edits' + 1,
           v = 0 \/ v = edits + 2
    PROVE  Traced'
  <1>. DEFINE new == [media[p] EXCEPT ![a] = v]
  <1>. USE DEF Typed, Traced
  <1>0. job \in [Editors -> Jobs] /\ media \in [Editors -> Media] /\ edits \in Nat
    BY BuildAssumption DEF TypeOK
  <1>1. /\ media'[p] = new /\ \A q \in Editors \ {p} : media'[q] = media[q]
        /\ iso' = iso
        /\ \A q \in Editors \ {p} : job'[q] = job[q]
        /\ job'[p].step = job[p].step /\ job'[p].pins = job[p].pins
        /\ job'[p].left = job[p].left
        /\ job'[p].moments = IF job[p].step \in {"reading", "verifying"}
                             THEN job[p].moments \cup {new} ELSE job[p].moments
    BY <1>0 DEF Changes, Jobs, output
  <1>2. /\ new[a] = v
        /\ \A b \in Assets \ {a} : new[b] = media[p][b]
    BY <1>0 DEF Media
  <1>3. Dated'
    <2>1. ASSUME NEW q \in Editors, NEW b \in Assets
          PROVE  media'[q][b] <= edits' + 1
      <3>1. media[q][b] \in Nat /\ media[q][b] <= edits + 1
        BY <1>0, BuildAssumption DEF Media, Versions, Dated
      <3>2. CASE q = p /\ b = a
        BY <1>1, <1>2, <3>2
      <3>3. CASE ~(q = p /\ b = a)
        <4>1. media'[q][b] = media[q][b]
          <5>1. CASE q = p
            BY <1>1, <1>2, <3>3, <5>1
          <5>2. CASE q # p
            BY <1>1, <5>2
          <5>. QED BY <5>1, <5>2
        <4>. QED BY <1>0, <3>1, <4>1
      <3>. QED BY <3>2, <3>3
    <2>2. ASSUME NEW q \in Editors, NEW b \in DOMAIN job'[q].pins
          PROVE  job'[q].pins[b] \in 1..edits' + 1
      <3>1. job'[q].pins = job[q].pins
        BY <1>1
      <3>2. job[q].pins[b] \in 1..edits + 1
        BY <3>1 DEF Dated
      <3>. QED BY <1>0, <3>1, <3>2
    <2>. QED BY <2>1, <2>2 DEF Dated
  <1>4. ASSUME NEW m \in Media, Witnessed(job[p], m, media[p])
        PROVE  Witnessed(job'[p], m, media'[p])
    <2>1. ASSUME NEW b \in DOMAIN job[p].pins
          PROVE  m[b] = job[p].pins[b] \/ (b \in job[p].left /\ new[b] # job[p].pins[b])
      <3>1. b \in Assets /\ job[p].pins[b] \in 1..edits + 1
        BY PinsFacts DEF Dated
      <3>2. CASE b = a
        BY <1>0, <1>2, <1>4, <3>1, <3>2 DEF Witnessed
      <3>3. CASE b # a
        BY <1>2, <1>4, <3>1, <3>3 DEF Witnessed
      <3>. QED BY <3>2, <3>3
    <2>. QED BY <1>1, <2>1 DEF Witnessed
  <1>5. Tracked'
    <2>1. ASSUME job[p].step = "verifying"
          PROVE  \E m \in job'[p].moments : Witnessed(job'[p], m, media'[p])
      <3>1. PICK m \in job[p].moments : Witnessed(job[p], m, media[p])
        BY <2>1 DEF Tracked
      <3>2. m \in Media /\ m \in job'[p].moments
        BY <1>1, <3>1, PinsFacts
      <3>. QED BY <1>4, <3>1, <3>2
    <2>2. ASSUME NEW q \in Editors, q # p
          PROVE  job'[q] = job[q] /\ media'[q] = media[q]
      BY <1>1, <2>2
    <2>. QED BY <1>1, <2>1, <2>2 DEF Tracked
  <1>6. ImageOfOneMoment'
    BY <1>1 DEF ImageOfOneMoment
  <1>. QED BY <1>3, <1>5, <1>6

(* A job that is over, whatever becomes of the output.                     *)
LEMMA OverTraced ==
    ASSUME Typed, Traced, NEW p \in Editors, job' = [job EXCEPT ![p] = NoJob],
           UNCHANGED <<media, edits>>, iso' = iso \/ iso' = None
    PROVE  Traced'
  <1>. USE DEF Traced
  <1>1. job'[p] = NoJob /\ \A q \in Editors \ {p} : job'[q] = job[q]
    BY DEF Typed, TypeOK
  <1>2. Dated'
    BY <1>1 DEF Dated, NoJob, NoPins
  <1>3. Tracked'
    BY <1>1 DEF Tracked, NoJob
  <1>4. ImageOfOneMoment'
    BY DEF ImageOfOneMoment
  <1>. QED BY <1>2, <1>3, <1>4

LEMMA BuildTraced ==
    ASSUME Typed, Traced, NEW p \in Editors, Builds(p)
    PROVE  Traced'
  <1>. USE DEF Traced
  <1>0. job \in [Editors -> Jobs] /\ media \in [Editors -> Media] /\ edits \in Nat
    BY BuildAssumption DEF Typed, TypeOK
  <1>1. CASE Start(p)
    <2>1. /\ job'[p].step = "reading" /\ job'[p].pins = NoPins
          /\ job'[p].moments = {media[p]}
          /\ \A q \in Editors \ {p} : job'[q] = job[q]
          /\ media' = media /\ edits' = edits /\ iso' = iso
      BY <1>0, <1>1 DEF Start, NoJob, project, output
    <2>2. Dated'
      BY <2>1 DEF Dated, NoPins
    <2>3. Tracked'
      BY <2>1 DEF Tracked
    <2>. QED BY <2>1, <2>2, <2>3 DEF ImageOfOneMoment
  <1>2. ASSUME NEW a \in Assets, ReadMedia(p, a)
        PROVE  Traced'
    <2>1. /\ job'[p].step = "reading" /\ job[p].step = "reading"
          /\ job'[p].moments = job[p].moments
          /\ \A q \in Editors \ {p} : job'[q] = job[q]
          /\ media' = media /\ edits' = edits /\ iso' = iso
          /\ job'[p].pins = [b \in DOMAIN job[p].pins \cup {a} |->
                               IF b = a THEN media[p][a] ELSE job[p].pins[b]]
      BY <1>0, <1>2 DEF ReadMedia, Jobs, project, output
    <2>2. media[p][a] \in 1..edits + 1
      <3>1. media[p][a] \in Nat /\ media[p][a] # 0 /\ media[p][a] <= edits + 1
        BY <1>0, <1>2, BuildAssumption DEF ReadMedia, Dated, Media, Versions
      <3>. QED BY <1>0, <3>1
    <2>3. Dated'
      BY <2>1, <2>2 DEF Dated
    <2>4. Tracked'
      BY <2>1 DEF Tracked
    <2>. QED BY <2>1, <2>3, <2>4 DEF ImageOfOneMoment
  <1>3. ASSUME NEW a \in Assets, Compare(p, a)
        PROVE  Traced'
    <2>1. /\ job'[p].step = "verifying" /\ job[p].step = "verifying"
          /\ job'[p].moments = job[p].moments /\ job'[p].pins = job[p].pins
          /\ job'[p].left = job[p].left \ {a}
          /\ \A q \in Editors \ {p} : job'[q] = job[q]
          /\ media' = media /\ edits' = edits /\ iso' = iso
      BY <1>0, <1>3 DEF Compare, Jobs, project, output
    <2>2. Dated'
      BY <2>1 DEF Dated
    <2>3. PICK m \in job[p].moments : Witnessed(job[p], m, media[p])
      BY <2>1 DEF Tracked
    <2>4. Witnessed(job'[p], m, media'[p])
      BY <1>3, <2>1, <2>3 DEF Compare, Unchanged, Witnessed
    <2>5. Tracked'
      BY <2>1, <2>3, <2>4 DEF Tracked
    <2>. QED BY <2>1, <2>2, <2>5 DEF ImageOfOneMoment
  <1>4. CASE WriteImage(p)
    <2>1. /\ job'[p].step = "verifying" /\ job[p].step = "reading"
          /\ job'[p].moments = job[p].moments /\ job'[p].pins = job[p].pins
          /\ job'[p].left = DOMAIN job[p].pins
          /\ \A q \in Editors \ {p} : job'[q] = job[q]
          /\ media' = media /\ edits' = edits /\ iso' = iso
      BY <1>0, <1>4 DEF WriteImage, Jobs, project
    <2>2. Dated'
      BY <2>1 DEF Dated
    <2>3. media[p] \in job'[p].moments /\ Witnessed(job'[p], media[p], media'[p])
      BY <2>1 DEF Tracked, Witnessed
    <2>4. Tracked'
      BY <2>1, <2>3 DEF Tracked
    <2>. QED BY <2>1, <2>2, <2>4 DEF ImageOfOneMoment
  <1>5. CASE Hold(p)
    <2>1. /\ job'[p].step = "publishing" /\ job[p].step = "verifying"
          /\ job'[p].moments = job[p].moments /\ job'[p].pins = job[p].pins
          /\ job[p].left = {}
          /\ \A q \in Editors \ {p} : job'[q] = job[q]
          /\ media' = media /\ edits' = edits /\ iso' = iso
      BY <1>0, <1>5 DEF Hold, Jobs, project
    <2>2. Dated'
      BY <2>1 DEF Dated
    <2>3. Tracked'
      BY <2>1 DEF Tracked, Witnessed
    <2>. QED BY <2>1, <2>2, <2>3 DEF ImageOfOneMoment
  <1>6. CASE Publish(p)
    <2>1. /\ job'[p].step = "published" /\ job[p].step = "publishing"
          /\ job'[p].pins = job[p].pins
          /\ \A q \in Editors \ {p} : job'[q] = job[q]
          /\ media' = media /\ edits' = edits
      BY <1>0, <1>6 DEF Publish, Step, Jobs, project
    <2>2. stage[p] \in Images /\ stage[p].media = job[p].pins
      BY <2>1 DEF Typed, TypeOK, Staged
    <2>3. iso'.media = job[p].pins /\ iso'.moments = job[p].moments
      BY <1>6, <2>2 DEF Publish, Images
    <2>4. Dated'
      BY <2>1 DEF Dated
    <2>5. Tracked'
      BY <2>1 DEF Tracked
    <2>6. ImageOfOneMoment'
      <3>1. PICK m \in job[p].moments :
              \A a \in DOMAIN job[p].pins : m[a] = job[p].pins[a]
        BY <2>1 DEF Tracked
      <3>2. \A a \in DOMAIN job[p].pins : job[p].pins[a] # 0
        BY <1>0 DEF Dated
      <3>. QED BY <2>3, <3>1, <3>2 DEF ImageOfOneMoment
    <2>. QED BY <2>4, <2>5, <2>6
  <1>7. CASE Commit(p) \/ Release(p)
    <2>1. /\ job'[p].step \in {"committed", "released"}
          /\ job'[p].pins = job[p].pins
          /\ \A q \in Editors \ {p} : job'[q] = job[q]
          /\ media' = media /\ edits' = edits /\ iso' = iso
      BY <1>0, <1>7 DEF Commit, Release, Step, Jobs, project, output
    <2>2. Dated'
      BY <2>1 DEF Dated
    <2>3. Tracked'
      BY <2>1 DEF Tracked
    <2>. QED BY <2>1, <2>2, <2>3 DEF ImageOfOneMoment
  <1>8. CASE Finish(p) \/ Fail(p) \/ Withdraw(p) \/ WithdrawFails(p)
    BY <1>8, OverTraced DEF Finish, Fail, Withdraw, WithdrawFails, Ends, project
  <1>. QED
    BY <1>1, <1>2, <1>3, <1>4, <1>5, <1>6, <1>7, <1>8 DEF Builds

LEMMA NextTraced ==
    ASSUME Typed, Traced, [Next]_vars
    PROVE  Traced'
  <1>0. edits \in 0..MaxEdits
    BY DEF Typed, TypeOK
  <1>1. ASSUME NEW p \in Editors, NEW a \in Assets, Replace(p, a)
        PROVE  Traced'
    <2>1. edits' = edits + 1 /\ edits + 2 \in Versions /\ edits + 2 <= edits' + 1
      BY <1>0, <1>1, BuildAssumption DEF Replace, Versions
    <2>. QED BY <1>1, <2>1, ChangesTraced DEF Replace
  <1>2. ASSUME NEW p \in Editors, NEW a \in Assets, Remove(p, a)
        PROVE  Traced'
    <2>1. edits' = edits /\ 0 \in Versions /\ 0 <= edits' + 1
      BY <1>0, <1>2, BuildAssumption DEF Remove, Versions
    <2>. QED BY <1>2, <2>1, ChangesTraced DEF Remove
  <1>3. ASSUME NEW p \in Editors, Crash(p)
        PROVE  Traced'
    BY <1>3, OverTraced DEF Crash, project
  <1>4. CASE OthersWrite
    BY <1>4 DEF OthersWrite, Traced, Dated, Tracked, ImageOfOneMoment, project
  <1>5. CASE OthersRemove
    BY <1>5 DEF OthersRemove, Traced, Dated, Tracked, ImageOfOneMoment, project
  <1>6. ASSUME UNCHANGED <<project, output, job>>
        PROVE  Traced'
    BY <1>6 DEF Traced, Dated, Tracked, ImageOfOneMoment, project, output
  <1>7. (\E p \in Editors : Indexes(p)) \/ OthersCache \/ UNCHANGED vars
          => UNCHANGED <<project, output, job>>
    BY DEF Indexes, IndexFinds, IndexStages, IndexPublishes, IndexFails, OthersCache,
           vars
  <1>. QED
    BY <1>1, <1>2, <1>3, <1>4, <1>5, <1>6, <1>7, BuildTraced DEF Next

(* The builder reads the media of the live session file by file            *)
(* (pin_project_inputs) and later reads each of them again                 *)
(* (verify_input_pin): whatever is edited meanwhile, the media of an image *)
(* that is published were all in the project at one moment.                *)
THEOREM ImagesAreOfOneMoment == Spec => []ImageOfOneMoment
  <1>1. Typed /\ Traced /\ [Next]_vars => Traced'
    BY NextTraced
  <1>2. Traced => ImageOfOneMoment
    BY DEF Traced
  <1>. QED BY <1>1, <1>2, InitTraced, AlwaysTyped, PTL DEF Spec

-----------------------------------------------------------------------------
(* What a build replaces and removes *)

(* No two files have one inode; what has the identity a build remembers is *)
(* its own image.  This needs numbers that are not given out again.        *)
Distinct ==
    \A p \in Editors :
        /\ stage[p] # None =>
             /\ iso # None => iso.inode # stage[p].inode
             /\ \A q \in Editors \ {p} :
                  /\ stage[q] # None => stage[q].inode # stage[p].inode
                  /\ job[q].identity # stage[p].inode
        /\ iso # None /\ iso.inode = job[p].identity => iso.by = p

LEMMA FreshInode ==
    ASSUME Typed, Reuse = FALSE, NEW i \in FreeInodes
    PROVE  /\ i \in Inodes
           /\ iso # None => iso.inode # i
           /\ \A p \in Editors : /\ stage[p] # None => stage[p].inode # i
                                 /\ job[p].identity # i
  BY DEF FreeInodes, InUse

LEMMA BuildDistinct ==
    ASSUME Typed, Distinct, Reuse = FALSE, NEW p \in Editors, Builds(p)
    PROVE  Distinct'
  <1>. USE DEF Typed
  <1>0. /\ job \in [Editors -> Jobs] /\ stage \in [Editors -> Images \cup {None}]
        /\ iso \in Images \cup {None}
        /\ \A f \in Images : f.inode \in Inodes
        /\ None \notin Inodes
    BY BuildAssumption DEF TypeOK, Images
  <1>1. CASE Start(p)
    BY <1>0, <1>1 DEF Start, Distinct, NoJob, output
  <1>2. ASSUME NEW a \in Assets, ReadMedia(p, a)
        PROVE  Distinct'
    BY <1>0, <1>2 DEF ReadMedia, Distinct, Jobs, output
  <1>3. ASSUME NEW a \in Assets, Compare(p, a)
        PROVE  Distinct'
    BY <1>0, <1>3 DEF Compare, Distinct, Jobs, output
  <1>4. CASE WriteImage(p)
    <2>1. PICK i \in FreeInodes :
            stage' = [stage EXCEPT ![p] = [inode |-> i, by |-> p,
                                           media |-> job[p].pins, moments |-> {}]]
      BY <1>4 DEF WriteImage
    <2>2. stage'[p].inode = i /\ \A q \in Editors \ {p} : stage'[q] = stage[q]
      BY <1>0, <2>1
    <2>3. iso' = iso /\ \A q \in Editors : job'[q].identity = job[q].identity
      BY <1>0, <1>4 DEF WriteImage, Jobs
    <2>4. ASSUME NEW q \in Editors, stage'[q] # None, iso' # None
          PROVE  iso'.inode # stage'[q].inode
      BY <2>2, <2>3, <2>4, FreshInode DEF Distinct
    <2>5. ASSUME NEW q \in Editors, NEW r \in Editors \ {q}, stage'[q] # None
          PROVE  /\ stage'[r] # None => stage'[r].inode # stage'[q].inode
                 /\ job'[r].identity # stage'[q].inode
      <3>1. CASE q = p
        BY <2>2, <2>3, <3>1, FreshInode
      <3>2. CASE r = p
        <4>1. stage[q] # None /\ stage'[q] = stage[q] /\ stage'[r].inode = i
          BY <2>2, <2>5, <3>2
        <4>2. i # stage[q].inode
          BY <4>1, FreshInode
        <4>3. job'[r].identity # stage[q].inode
          BY <2>3, <4>1 DEF Distinct
        <4>. QED BY <4>1, <4>2, <4>3
      <3>3. CASE q # p /\ r # p
        BY <2>2, <2>3, <2>5, <3>3 DEF Distinct
      <3>. QED BY <3>1, <3>2, <3>3
    <2>6. ASSUME NEW q \in Editors, iso' # None, iso'.inode = job'[q].identity
          PROVE  iso'.by = q
      BY <2>3, <2>6 DEF Distinct
    <2>. QED BY <2>4, <2>5, <2>6 DEF Distinct
  <1>5. CASE Hold(p)
    <2>1. stage[p] # None
      BY <1>5 DEF Hold, Staged
    <2>2. /\ job'[p].identity = stage[p].inode
          /\ \A q \in Editors \ {p} : job'[q] = job[q]
          /\ iso' = iso /\ stage' = stage
      BY <1>0, <1>5 DEF Hold, Jobs
    <2>3. ASSUME NEW q \in Editors, stage[q] # None, iso # None
          PROVE  iso.inode # stage[q].inode
      BY <2>3 DEF Distinct
    <2>4. ASSUME NEW q \in Editors, NEW r \in Editors \ {q}, stage[q] # None
          PROVE  /\ stage[r] # None => stage[r].inode # stage[q].inode
                 /\ job'[r].identity # stage[q].inode
      <3>1. CASE r = p
        BY <1>0, <2>1, <2>2, <2>4, <3>1 DEF Distinct
      <3>2. CASE r # p
        BY <2>2, <2>4, <3>2 DEF Distinct
      <3>. QED BY <3>1, <3>2
    <2>5. ASSUME NEW q \in Editors, iso # None, iso.inode = job'[q].identity
          PROVE  iso.by = q
      <3>1. CASE q = p
        BY <1>0, <2>1, <2>2, <2>3, <2>5, <3>1
      <3>2. CASE q # p
        BY <2>2, <2>5, <3>2 DEF Distinct
      <3>. QED BY <3>1, <3>2
    <2>. QED BY <2>2, <2>3, <2>4, <2>5 DEF Distinct
  <1>6. CASE Publish(p)
    <2>1. stage[p] \in Images /\ stage[p].by = p
      BY <1>0, <1>6 DEF Publish, Step, Staged
    <2>2. iso'.inode = stage[p].inode /\ iso'.by = p
      BY <1>6, <2>1 DEF Publish, Images
    <2>3. /\ \A q \in Editors : job'[q].identity = job[q].identity
          /\ stage'[p] = None /\ \A q \in Editors \ {p} : stage'[q] = stage[q]
      BY <1>0, <1>6 DEF Publish, Step, Jobs
    <2>. QED BY <1>0, <2>1, <2>2, <2>3, BuildAssumption DEF Distinct
  <1>7. CASE Commit(p)
    BY <1>0, <1>7 DEF Commit, Step, Distinct, Jobs, output
  <1>8. CASE Release(p)
    BY <1>0, <1>8 DEF Release, Distinct, Jobs
  <1>9. CASE Finish(p) \/ Fail(p) \/ Withdraw(p) \/ WithdrawFails(p)
    <2>1. /\ job'[p] = NoJob /\ \A q \in Editors \ {p} : job'[q] = job[q]
          /\ stage'[p] = None /\ \A q \in Editors \ {p} : stage'[q] = stage[q]
          /\ iso' = iso \/ iso' = None
      BY <1>0, <1>9 DEF Finish, Fail, Withdraw, WithdrawFails, Ends
    <2>. QED BY <1>0, <2>1 DEF Distinct, NoJob
  <1>. QED
    BY <1>1, <1>2, <1>3, <1>4, <1>5, <1>6, <1>7, <1>8, <1>9 DEF Builds

LEMMA NextDistinct ==
    ASSUME Typed, Distinct, Reuse = FALSE, [Next]_vars
    PROVE  Distinct'
  <1>. USE DEF Typed
  <1>0. /\ job \in [Editors -> Jobs] /\ stage \in [Editors -> Images \cup {None}]
        /\ iso \in Images \cup {None}
        /\ \A f \in Images : f.inode \in Inodes
        /\ None \notin Inodes
    BY BuildAssumption DEF TypeOK, Images
  <1>1. ASSUME NEW p \in Editors, NEW a \in Assets, Replace(p, a) \/ Remove(p, a)
        PROVE  Distinct'
    BY <1>0, <1>1 DEF Replace, Remove, Changes, Distinct, Jobs, output
  <1>2. ASSUME NEW p \in Editors, Indexes(p)
        PROVE  Distinct'
    BY <1>2 DEF Indexes, IndexFinds, IndexStages, IndexPublishes, IndexFails,
                Distinct, output
  <1>3. ASSUME NEW p \in Editors, Crash(p)
        PROVE  Distinct'
    <2>1. /\ job'[p] = NoJob /\ \A q \in Editors \ {p} : job'[q] = job[q]
          /\ stage'[p] = None /\ \A q \in Editors \ {p} : stage'[q] = stage[q]
          /\ iso' = iso
      BY <1>0, <1>3 DEF Crash
    <2>. QED BY <1>0, <2>1 DEF Distinct, NoJob
  <1>4. CASE OthersWrite
    <2>1. PICK i \in FreeInodes : iso' = [inode |-> i, by |-> None, media |-> NoPins,
                                           moments |-> {}]
      BY <1>4 DEF OthersWrite
    <2>2. iso'.inode = i /\ stage' = stage /\ job' = job
      BY <1>4, <2>1 DEF OthersWrite
    <2>. QED BY <2>2, FreshInode DEF Distinct
  <1>5. CASE OthersRemove \/ OthersCache
    BY <1>5 DEF OthersRemove, OthersCache, Distinct, output
  <1>6. CASE UNCHANGED vars
    BY <1>6 DEF vars, output, Distinct
  <1>. QED
    BY <1>1, <1>2, <1>3, <1>4, <1>5, <1>6, BuildDistinct DEF Next

LEMMA OnlyItsOwn ==
    ASSUME Typed, Distinct, NEW p \in Editors, Builds(p), iso' # iso
    PROVE  iso = None \/ iso.by = p
  <1>1. iso = None \/ iso.inode \in Inodes
    BY DEF Typed, TypeOK, Images
  <1>. QED
    BY <1>1 DEF Builds, Start, ReadMedia, Compare, WriteImage, Hold, Publish, Commit,
                Release, Finish, Fail, Withdraw, WithdrawFails, OutputIs, Distinct,
                output

LEMMA OnlyWhereNone ==
    ASSUME NEW p \in Editors, Indexes(p), cache' # cache
    PROVE  cache = None
  BY DEF Indexes, IndexFinds, IndexStages, IndexPublishes, IndexFails

(* "Remove only the file this transaction published, never a replacement"  *)
(* (_unlink_if_identity): where the number of a removed file is not given  *)
(* out again, no build touches an output that is not its own, and no       *)
(* indexing a source cache that is there.                                  *)
THEOREM DestinationIsRespected ==
    ASSUME Reuse = FALSE
    PROVE  Spec => DestinationRespected
  <1>1. Init => Distinct
    BY DEF Init, Distinct
  <1>2. Typed /\ Distinct /\ [Next]_vars => Distinct'
    BY NextDistinct
  <1>3. Typed /\ Distinct =>
          \A p \in Editors :
            /\ Builds(p) /\ iso' # iso => iso = None \/ iso.by = p
            /\ Indexes(p) /\ cache' # cache => cache = None
    BY OnlyItsOwn, OnlyWhereNone
  <1>. QED
    BY <1>1, <1>2, <1>3, AlwaysTyped, PTL DEF Spec, DestinationRespected

=============================================================================
