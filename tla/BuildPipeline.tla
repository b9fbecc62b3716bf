---------------------------- MODULE BuildPipeline ----------------------------
(***************************************************************************)
(* From the game's image to the modded one: editors that share one source  *)
(* cache (mod_editor/core/nfl2k5_source_cache.py) and build to one output  *)
(* path (mod_editor/core/nfl2k5_build_service.py and the builder it runs,  *)
(* tools/nfl2k5_visual_mod_project.py).                                    *)
(*                                                                         *)
(* The builder reads the replacement media of the live session, one file   *)
(* after the other, while the session may replace or remove them; nothing  *)
(* is locked.  The finished image is published under the output name only  *)
(* where there is none, and withdrawn if it cannot be confirmed there.     *)
(*                                                                         *)
(* Simplifications.                                                        *)
(*  - A replaced media file is a new version: no content and no inode of   *)
(*    media comes twice.                                                   *)
(*  - The builder, and the verification after it, read every file again;   *)
(*    one such reading is modelled.                                        *)
(*  - An editor does not load its game while it builds.                    *)
(*  - Nobody meddles with a staging directory.                             *)
(*  - A cache is looked up, and the output withdrawn, in one step: nothing *)
(*    happens between an lstat and the unlink that follows it.             *)
(*  - A crash takes the editor's process and its builder; the edits come   *)
(*    back (StudioWorkspace is about that); the staging directories it     *)
(*    leaves behind are not modelled.                                      *)
(***************************************************************************)
EXTENDS Integers, FiniteSets

CONSTANTS
    Editors,  \* editor processes
    Assets,   \* what can be replaced
    Inodes,   \* inode numbers of large files
    None,     \* no file, nobody
    Reuse,    \* the number of a removed file is given out again
    MaxEdits  \* bound on replacements

VARIABLES
    cache,    \* the published source cache
    index,    \* the editor has a staged source cache
    loaded,   \* the editor has a source cache
    media,    \* each session's replacement files; 0 is none
    edits,    \* counts replacements
    iso,      \* the file under the output name
    stage,    \* each build's staged image
    pin,      \* the inode its open descriptor holds
    job,      \* the build's step and what it knows
    failed    \* the last build failed and could tidy up

source == <<cache, index, loaded>>
project == <<media, edits>>
output == <<iso, stage, pin>>
vars == <<source, project, output, job, failed>>

Versions == 0..MaxEdits + 1
Media == [Assets -> Versions]
Trees == {"whole", "broken"}
Pinned == UNION {[S -> Versions] : S \in SUBSET Assets}
Images == [inode : Inodes, by : Editors \cup {None}, media : Pinned,
           moments : SUBSET Media]

ASSUME BuildAssumption ==
    /\ None \notin Editors \cup Inodes \cup Trees \cup Images
    /\ Reuse \in BOOLEAN
    /\ MaxEdits \in Nat

Steps == {"idle", "reading", "verifying", "publishing", "published",
          "released", "committed"}
(* `moments' is what the media have been while the builder read them.      *)
Jobs == [step : Steps, recipe : SUBSET Assets, moments : SUBSET Media,
         pins : Pinned, left : SUBSET Assets, identity : Inodes \cup {None}]

NoPins == [a \in {} |-> 0]
NoJob == [step |-> "idle", recipe |-> {}, moments |-> {}, pins |-> NoPins,
          left |-> {}, identity |-> None]

-----------------------------------------------------------------------------
(* Inodes *)

InUse ==
    {f.inode : f \in ({iso} \cup {stage[p] : p \in Editors}) \ {None}}
        \cup {pin[p] : p \in Editors}

FreeInodes ==
    Inodes \ (InUse \cup IF Reuse THEN {} ELSE {job[p].identity : p \in Editors})

(* The file under the output name is the one with this identity.           *)
OutputIs(identity) == iso # None /\ iso.inode = identity

Init ==
    /\ cache = None
    /\ index = [p \in Editors |-> FALSE]
    /\ loaded = [p \in Editors |-> FALSE]
    /\ media = [p \in Editors |-> [a \in Assets |-> 1]]
    /\ edits = 0
    /\ iso = None
    /\ stage = [p \in Editors |-> None]
    /\ pin = [p \in Editors |-> None]
    /\ job = [p \in Editors |-> NoJob]
    /\ failed = [p \in Editors |-> FALSE]

-----------------------------------------------------------------------------
(* The source cache *)

(* The cache is there, or has just been published: marker and sizes.       *)
IndexFinds(p) ==
    /\ job[p].step = "idle" /\ ~index[p]
    /\ cache = "whole"
    /\ loaded' = [loaded EXCEPT ![p] = TRUE]
    /\ UNCHANGED <<cache, index, project, output, job, failed>>

(* The packs are extracted into a staging directory.                       *)
IndexStages(p) ==
    /\ job[p].step = "idle" /\ ~index[p]
    /\ cache # "whole"
    /\ index' = [index EXCEPT ![p] = TRUE]
    /\ UNCHANGED <<cache, loaded, project, output, job, failed>>

(* os.replace refuses a directory that is not empty.                       *)
IndexPublishes(p) ==
    /\ index[p]
    /\ cache = None
    /\ cache' = "whole"
    /\ index' = [index EXCEPT ![p] = FALSE]
    /\ UNCHANGED <<loaded, project, output, job, failed>>

(* The digests do not match, another editor was first, or any error.       *)
IndexFails(p) ==
    /\ index[p]
    /\ index' = [index EXCEPT ![p] = FALSE]
    /\ UNCHANGED <<cache, loaded, project, output, job, failed>>

-----------------------------------------------------------------------------
(* The session during a build *)

Changes(p, new) ==
    /\ media' = [media EXCEPT ![p] = new]
    /\ job' = IF job[p].step \in {"reading", "verifying"}
              THEN [job EXCEPT ![p].moments = @ \cup {new}] ELSE job
    /\ UNCHANGED <<source, output, failed>>

Replace(p, a) ==
    /\ edits < MaxEdits
    /\ edits' = edits + 1
    /\ Changes(p, [media[p] EXCEPT ![a] = edits + 2])

Remove(p, a) ==
    /\ media[p][a] # 0
    /\ Changes(p, [media[p] EXCEPT ![a] = 0])
    /\ UNCHANGED edits

-----------------------------------------------------------------------------
(* A build *)

Edited(p) == {a \in Assets : media[p][a] # 0}

Step(p, from, to) ==
    /\ job[p].step = from
    /\ job' = [job EXCEPT ![p].step = to]

(* _validate_cache, _new_output_path, _project_path                        *)
Start(p) ==
    /\ job[p].step = "idle" /\ ~index[p]
    /\ loaded[p] /\ cache = "whole"
    /\ iso = None
    /\ Edited(p) # {}
    /\ job' = [job EXCEPT ![p] = [NoJob EXCEPT !.step = "reading",
                                               !.recipe = Edited(p),
                                               !.moments = {media[p]}]]
    /\ failed' = [failed EXCEPT ![p] = FALSE]
    /\ UNCHANGED <<source, project, output>>

(* pin_project_inputs, one file                                            *)
ReadMedia(p, a) ==
    LET pins == job[p].pins
    IN  /\ job[p].step = "reading"
        /\ a \in job[p].recipe \ DOMAIN pins
        /\ media[p][a] # 0
        /\ job' = [job EXCEPT ![p].pins =
                     [b \in DOMAIN pins \cup {a} |->
                        IF b = a THEN media[p][a] ELSE pins[b]]]
        /\ UNCHANGED <<source, project, output, failed>>

(* build: the digests of the cache, then the image.                        *)
WriteImage(p) ==
    /\ job[p].step = "reading"
    /\ DOMAIN job[p].pins = job[p].recipe
    /\ cache = "whole"
    /\ \E i \in FreeInodes :
          stage' = [stage EXCEPT ![p] =
                      [inode |-> i, by |-> p, media |-> job[p].pins,
                       moments |-> {}]]
    /\ job' = [job EXCEPT ![p].step = "verifying", ![p].left = job[p].recipe]
    /\ UNCHANGED <<source, project, iso, pin, failed>>

(* Mutant: what was read is not compared with what is there.               *)
Unchanged_Assumed(p, a) == TRUE

(* The media file is the one that was read.                                *)
Unchanged(p, a) == media[p][a] = job[p].pins[a]

(* verify_prepared_pins, and verify's own reading of the media, one file   *)
Compare(p, a) ==
    /\ job[p].step = "verifying"
    /\ a \in job[p].left
    /\ Unchanged(p, a)
    /\ job' = [job EXCEPT ![p].left = @ \ {a}]
    /\ UNCHANGED <<source, project, output, failed>>

(* Mutant: the whole file is recorded as its identity.                     *)
Hold_File(p) ==
    /\ job[p].step = "verifying" /\ job[p].left = {}
    /\ job' = [job EXCEPT ![p].step = "publishing", ![p].identity = stage[p]]
    /\ pin' = [pin EXCEPT ![p] = stage[p].inode]
    /\ UNCHANGED <<source, project, iso, stage, failed>>

(* _read_verified_result, and the descriptor that holds the image.         *)
Hold(p) ==
    /\ job[p].step = "verifying" /\ job[p].left = {}
    /\ job' = [job EXCEPT ![p].step = "publishing",
                          ![p].identity = stage[p].inode]
    /\ pin' = [pin EXCEPT ![p] = stage[p].inode]
    /\ UNCHANGED <<source, project, iso, stage, failed>>

(* _rename_noreplace                                                       *)
Publish(p) ==
    /\ Step(p, "publishing", "published")
    /\ iso = None
    /\ iso' = [stage[p] EXCEPT !.moments = job[p].moments]
    /\ stage' = [stage EXCEPT ![p] = None]
    /\ UNCHANGED <<source, project, pin, failed>>

(* The name leads to the image that was verified.                          *)
Commit(p) ==
    /\ Step(p, "published", "committed")
    /\ OutputIs(job[p].identity)
    /\ UNCHANGED <<source, project, output, failed>>

Ends(p, failure) ==
    /\ job' = [job EXCEPT ![p] = NoJob]
    /\ pin' = [pin EXCEPT ![p] = None]
    /\ stage' = [stage EXCEPT ![p] = None]
    /\ failed' = [failed EXCEPT ![p] = failure]
    /\ UNCHANGED <<source, project>>

(* The image is in place, even if the call still fails because the staging *)
(* directory cannot be removed.                                            *)
Finish(p) ==
    /\ job[p].step = "committed"
    /\ Ends(p, FALSE)
    /\ UNCHANGED iso

(* An error, a refusal or a cancellation before anything was published.    *)
Fail(p) ==
    /\ job[p].step \in {"reading", "verifying", "publishing"}
    /\ Ends(p, TRUE)
    /\ UNCHANGED iso

(* After publication was attempted: the descriptor is closed first.        *)
Release(p) ==
    /\ job[p].step \in {"publishing", "published"}
    /\ job' = [job EXCEPT ![p].step = "released"]
    /\ pin' = [pin EXCEPT ![p] = None]
    /\ UNCHANGED <<source, project, iso, stage, failed>>

(* Mutant: only a publication that was refused is cleared up.              *)
Withdraw_StageOnly(p) ==
    /\ job[p].step = "released"
    /\ iso' = iso
    /\ Ends(p, TRUE)

(* Mutant: whatever is under the output name is removed.                   *)
Withdraw_Any(p) ==
    /\ job[p].step = "released"
    /\ iso' = None
    /\ Ends(p, TRUE)

(* _unlink_if_identity                                                     *)
Withdraw(p) ==
    /\ job[p].step = "released"
    /\ iso' = IF OutputIs(job[p].identity) THEN None ELSE iso
    /\ Ends(p, TRUE)

(* The image cannot be removed: the build fails without tidying up.        *)
WithdrawFails(p) ==
    /\ job[p].step = "released"
    /\ OutputIs(job[p].identity)
    /\ Ends(p, FALSE)
    /\ UNCHANGED iso

-----------------------------------------------------------------------------
(* Crashes and other programs *)

Crash(p) ==
    /\ stage' = [stage EXCEPT ![p] = None]
    /\ pin' = [pin EXCEPT ![p] = None]
    /\ job' = [job EXCEPT ![p] = NoJob]
    /\ index' = [index EXCEPT ![p] = FALSE]
    /\ loaded' = [loaded EXCEPT ![p] = FALSE]
    /\ failed' = [failed EXCEPT ![p] = FALSE]
    /\ UNCHANGED <<cache, project, iso>>

OthersWrite ==
    /\ \E i \in FreeInodes : iso' = [inode |-> i, by |-> None, media |-> NoPins,
                               moments |-> {}]
    /\ UNCHANGED <<source, project, stage, pin, job, failed>>

OthersRemove ==
    /\ iso # None
    /\ iso' = None
    /\ UNCHANGED <<source, project, stage, pin, job, failed>>

OthersCache ==
    /\ cache' \in {None, "broken"}
    /\ UNCHANGED <<index, loaded, project, output, job, failed>>

Indexes(p) ==
    \/ IndexFinds(p) \/ IndexStages(p) \/ IndexPublishes(p) \/ IndexFails(p)

Builds(p) ==
    \/ Start(p) \/ \E a \in Assets : ReadMedia(p, a) \/ Compare(p, a)
    \/ WriteImage(p) \/ Hold(p) \/ Publish(p) \/ Commit(p)
    \/ Finish(p) \/ Fail(p) \/ Release(p) \/ Withdraw(p) \/ WithdrawFails(p)

Next ==
    \/ \E p \in Editors :
          \/ Indexes(p)
          \/ \E a \in Assets : Replace(p, a) \/ Remove(p, a)
          \/ Builds(p) \/ Crash(p)
    \/ OthersWrite \/ OthersRemove \/ OthersCache

Spec == Init /\ [][Next]_vars

-----------------------------------------------------------------------------
(* Properties *)

TypeOK ==
    /\ cache \in Trees \cup {None}
    /\ index \in [Editors -> BOOLEAN]
    /\ loaded \in [Editors -> BOOLEAN]
    /\ media \in [Editors -> Media]
    /\ edits \in 0..MaxEdits
    /\ iso \in Images \cup {None}
    /\ stage \in [Editors -> Images \cup {None}]
    /\ pin \in [Editors -> Inodes \cup {None}]
    /\ job \in [Editors -> Jobs]
    /\ failed \in [Editors -> BOOLEAN]

(* The media in a published image were in the project together: edits made *)
(* while the builder reads them are never mixed into one image.            *)
ImageOfOneMoment ==
    iso # None /\ iso.by # None =>
        \E m \in iso.moments :
            \A a \in DOMAIN iso.media : iso.media[a] = m[a] /\ m[a] # 0

(* "Publish one verified output, or leave the destination untouched": no   *)
(* image of a build that reports failure is left under the output name,    *)
(* unless what failed is the removal of something.                         *)
FailedLeavesNothing ==
    \A p \in Editors : failed[p] => iso = None \/ iso.by # p

(* "Remove only the file this transaction published, never a replacement": *)
(* no step of a build replaces or removes an output that is not its own,   *)
(* and indexing never replaces or removes a source cache.                  *)
DestinationRespected ==
    [][ \A p \in Editors :
            /\ Builds(p) /\ iso' # iso => iso = None \/ iso.by = p
            /\ Indexes(p) /\ cache' # cache => cache = None ]_vars

=============================================================================
