# TLA+ models of 2K5 Mod Studio

The repository is a Python tool set for modding two football games. Its centre
is a pair of desktop editors: 2K5 Mod Studio (`src/mod_editor/studio`,
`core`, `gui`) and APF 2K8 Mod Studio (`src/mod_editor/apf_studio`). A user
opens a disc image, replaces textures, sounds and text in a private session,
undoes, saves a `.2k5mod` project without any game data, and builds a new
image. What must not go wrong is the user's work: an undo that restores the
wrong file, a crash that loses what was reported as saved, a build that leaves
half an image behind. These modules are about that.

Paths below are relative to `src/mod_editor/` unless they start with `src/`.

## 1. Inventory

| Component | State | Operations | Interacts with | Hard parts | Correct when |
|---|---|---|---|---|---|
| **Session** `studio/session.py` | edit map per editor, replacement files, undo stack per editor, one undo order, numbered snapshot files, text editor, audio labels, uniform colours, `session.json` | replace, revert, batches, text, labels, colours, Revert All, undo, open/save project, audio-pack preflight | called by the facade under its lock; reads and writes the session directory; text catalogue, audio and Crib services | partial failure inside an operation; five stacks and an order kept in step by hand; rollback of rollbacks; Revert All as one undoable step | undo restores exactly; snapshots live as long as their records; a failed call changes nothing |
| **Facade** `studio/facade.py` | current source cache, session, catalogues, behind an `RLock` | load_source, load_project (candidate, recheck, adopt), save_project, save_recovery_project, build | window's worker threads; session; source cache; build service | candidate adopted after an unlocked interval; build reads live files outside the lock | a switch never mixes two sessions |
| **Workspace state** `studio/workspace_state.py` | `workspace-state.json`, one recovery archive | register, offer, clear, recent lists | window | crash between two of its files; two processes | recovery is there when promised and not stale |
| **Window** `gui/studio_qt.py` (with the Audio and Crib panels) | dirty flag, revision, blocking flag, continuations, snapshot in flight/pending, closing flags, active source | every user action, result and finished signals, zero timers, closeEvent | facade on pool threads; workspace state | results that arrive late; chained tasks; closing while a snapshot runs | no unsaved work lost unasked; autosave catches up |
| **Project archive** `studio/project_archive.py` | the `.2k5mod` file | guarded save, load, identity | session, facade | identity check and replace are two steps | a save never overwrites a file it did not check |
| **Build service** `core/nfl2k5_build_service.py` | temporary image, published image and manifest | build, verify, publish without replacing, cancel | session files, cache, child processes | failure or cancellation anywhere; destination changed underneath | one verified image or nothing |
| **Source cache** `core/nfl2k5_source_cache.py` | cache directory per game | index, load existing | facade | two indexers of one game | a published cache is complete |
| **Platform primitives** `core/platform_compat.py` | — | publish without replacing, private directories, handles | build, cache, session | platform differences | atomic or refused |
| **Audio packs** `studio/audio_replacement_pack.py` | preflight token | check, import | session | token outlives what it checked | an import applies what was checked |
| **First editor** `core/controller.py`, `providers.py`, `model.py`, `persistence.py` | project queue | add, save, build and verify | providers | one provider of several failing | as the build service |
| **APF studio** `apf_studio/*.py` | one edit map, labels, whole-project checkpoints without a limit, payload files named by content, previews of packs and sheets, last build | replace, batches, two-step imports, undo, revert, load, build | its window, under one lock | payload files shared by edits, checkpoints and imports; a confirmation that comes late | undo restores exactly; a payload outlives what needs it; what was previewed is what is applied |
| **Formats** (`core/*_asset_io`, writers), **tools** (`src/tools`), **recovered C** (`src/src`), packaging, Ghidra scripts | none shared | conversions | — | — | out of scope here |

Signals and threads: the window starts an operation on a pool thread; the
worker emits *progress*, then *result* or *error*, then *finished*, which Qt
delivers on the window's thread in that order, with any other event in between.
Facade operations on the session are atomic under its lock, but for the build,
which reads the session's files without it. The window disables edits during a
build; the facade, whose contract the build model checks, does not. At most one
*blocking* task runs; beside it there may be one recovery snapshot.

## 2. Plan

1. **StudioSession** with its history variable and the abstract
   `UndoableProject` — done; all seven properties proved, the refinement
   included.
2. **StudioWorkspace**: dirty state, autosave, recovery, switching, closing,
   crashes — done; all three safety properties proved.
3. **ProjectFile**: guarded saves and opening against other windows, other
   programs and crashes — done; all three properties proved.
4. **BuildPipeline**: the source cache and the build with its publication and
   withdrawal, in one module because a build depends on the cache at two
   points — done; all four properties proved.
5. **ApfSession**: the second studio's session with its two-step imports; the
   same abstract `UndoableProject` — done; all five properties proved, the
   refinement included.
6. **AudioPackPreflight** of the 2K5 studio: the token and everything that must
   invalidate it (StudioSession with a nonce and a manifest revision). The APF
   twin, in `ApfSession`, is the pattern.
7. The APF window's autosave, if it turns out to differ from StudioWorkspace;
   the first editor's project queue.

Every safety property that a passing run checks is now also a theorem. Worth
proving next: the refinement of StudioSession with text edits, once finding 1 is
repaired in the code; `NothingStale` for several images, with the cases in which
an archive is left behind by design named in it; and the preflight's promise when
step 6 is written.

## 3. Modules

| Module | What it is |
|---|---|
| `StudioSession` | the session: state, every mutating operation, its failures, its properties |
| `StudioSessionTrail` | the same with a history variable, the refinement mapping |
| `UndoableProject` | the abstract specification of undo |
| `MCStudioSession`, `MCStudioSessionTrail` | TLC instances |
| `StudioSession_proofs` | type correctness |
| `StudioSession_snapshots_proofs` | the snapshot invariant |
| `StudioSession_atomic_proofs` | stacks against the order, files against the edits, nothing unrecorded |
| `StudioSessionTrail_proofs` | the refinement of `UndoableProject` |
| `StudioWorkspace` | window, facade and recovery store, with crashes |
| `MCStudioWorkspace` | TLC instances |
| `StudioWorkspace_proofs` | its types, the promise, nothing stale |
| `ProjectFile`, `MCProjectFile`, `ProjectFile_proofs` | one `.2k5mod` file between windows, other programs and crashes |
| `BuildPipeline`, `MCBuildPipeline`, `BuildPipeline_proofs` | source cache, build, publication, withdrawal |
| `ApfSession`, `MCApfSession`, `ApfSession_proofs` | the APF studio's session behind its facade |

### StudioSession

`edits` stands for the four edit maps (visual, Crib, stadium, audio; `SourceOf`
tells the editor), `files` for the files at the paths those edits use, `undo`
for the four stacks, `order` for `_undo_order`, `history` and `seq` for the
history directory and its sequence number, `texts` and `textUndo` for
`Nfl2k5TextEdits`, `notes` for the audio labels, `colours` for the uniform
colours, `manifest` for the published `session.json`.

One action per operation. What fails inside it is its argument `f`, a member of
`Faults` or `"none"`; each outcome lists what the code has already changed when
the failing call raises, after what its handlers restore:

| Action | Code |
|---|---|
| `Replace`, `ReplaceStadium`, `ReplaceAudio` | `replace`, `replace_crib`, `replace_stadium_texture`, `_replace_authorized_audio`, `replace_audio` |
| `Revert` | `revert`, `revert_crib`, `revert_stadium_texture`, `revert_audio` |
| `SetText`, `SetNote`, `SetColours` | text, number, label and colour setters |
| `Batch`, `BatchRollsBack`, `BatchRollbackFails` | `replace_batch`, `_replace_authorized_audio_batch`: committed, rolled back whole, rolled back in part |
| `RevertAll`, `RevertAllFails` | `revert_all` |
| `UndoFile`, `UndoAudio`, `UndoText`, `UndoNote`, `UndoRevertAll` and their `...Fails` | `undo` and the private transaction of each editor |
| `SnapshotFails` | `_snapshot_*` raising before anything else |
| `OpenProject` | a fresh session loads an archive and is adopted |

A payload is a member of `Values`; the game's own data is `None`, so replacing
by the original is `v = None`. A snapshot file is named by its number. Where an
operation exists in two variants (audio with and without the immutable-snapshot
gate) they agree on the modelled state.

The abstract `UndoableProject` is a document with a stack of earlier documents:
edit, undo, open. What is opened is a document with the history it comes with
(`Openings`): empty here, the empty project in the APF studio, whose load is
itself recorded as an edit. `StudioSessionTrail` adds `past`, the document each undo
record was pushed on, and `UndoIsExact` says that the session implements it: no
snapshot, stack or order mistake anywhere in a chain of edits, batches, Revert
Alls and undos shows in what an undo restores.

### StudioWorkspace

A document is a number that grows with every edit, 0 for no edits; it says all
that the protocol can tell apart. `window` to `closing` are the window's flags,
`task`, `phase` and `afterwards` the blocking task, where its worker or its
signals are, and what is chained to it; `auto` the recovery snapshot (with the
source it was started for and whether it is still the newest revision); `panel`
the operation of an embedded panel; `facade` what the session holds; `archive`
and `record` the two files on disk. `named`, `made`, `settled`, `promise` and
`ours` record what the user did and was told; no action but `OpenProject` (which
saved projects exist) and the bound on edits looks at them. `promise` is what
"Autosaved unsaved edits" last referred to while no close was waiting for the
snapshot: a report made in that state does not last (section 6, item 2).
`settled` is the newest document the user has saved, discarded or replaced, and
settles all that were made before it, an earlier run's recovery project included;
an edit alone settles nothing, and neither does opening the image or the project
that a recovery needs. When an autosave of other work replaces the recovery
project of an earlier run, the promise ends unasked: that is an exception of
`PromiseKept` and what `RecoveryKept` says must not happen (section 6, item 4).

Every task takes the steps the code takes: worker (`RunEdit`, `RunSave`,
`RunSource`, or `ReadProject`, `CheckProject`, `AdoptProject` with the identity
recheck), the result handler (`EditResult` ... `ProjectResult`, `TaskError`),
`finished` (`TaskFinished`, which starts the chained task). A snapshot takes
`WriteRecovery` under the facade's lock, `RecoveryResult`, `RecoveryFinished`.
`Relaunch` is the next start of the program, after closing or, under the fault
"crash", at any moment: everything but the disk is lost. With "state", any write
of `workspace-state.json` may fail.

A modal dialogue with its answer is one step; that the window's own thread waits
in it while signals are delivered does not matter, for the handlers use nothing
after the dialogue that they read before it, but for the recovery candidate,
which the task carries as the code does.

### ProjectFile

A file is its content, its inode, its time of change and the editor that counts
it as its own; the identity an editor remembers (`active`,
`_active_project_identity`) is inode and time. `temp` is the temporary file
beside the target, `litter` those a crash left behind: a file with a second name
is refused everywhere, so a leftover matters. `job` is the task an editor runs:

| Steps | Code |
|---|---|
| `FastSave` or `SaveAs`, `SaveAsBegins` | Save with the remembered identity; the dialogue, which need not have asked about this file, and `destination.exists()` later, in the worker |
| `Stage`, `Check` | the archive written beside the target, the identity compared |
| `PublishReplacing`, or `PublishLinking` and `Unlink` | `os.replace`; `os.link` and the removal of the temporary name, which changes the file's time |
| `Saved`, `SavedButFails`, `SaveFails` | the new identity remembered; reported as failed after, or before, publishing |
| `Open`, `Read`, `Adopt`, `OpenFails` | `load_project`: identify, read by path, compare, adopt |
| `Crash`, `OthersWrite`, `OthersModify`, `OthersRemove`, `OthersTidy` | everything else that happens to files |

### BuildPipeline

`cache`, `index` and `loaded` are the published source cache, who is staging one
and who holds one; `media` the sessions' replacement files, as versions;
`iso`, `stage`, `pin` the file under the output name, each build's staged image
and the descriptor that holds it; `job` the step of the build. A build looks at
the cache (`Start`), pins the media one file at a time (`ReadMedia`), writes the
image after checking the cache's digests (`WriteImage`), compares the media one
file at a time (`Compare`), opens the image (`Hold`), publishes it where there is
none (`Publish`), and confirms it (`Commit`, `Finish`) or closes the descriptor
and withdraws it (`Release`, `Withdraw`, `WithdrawFails`). The session may replace
or remove media at every one of these steps. Inode numbers are a finite set:
`Reuse` says whether the number of a removed file comes back.

### ApfSession

`mods` and `notes` are the edits and the labels, `undo` the list of copies of
both, `store` the payload files, named by digest and suffix. A sound pack and a
ratings sheet are files the user writes with other programs at any time
(`FillTemplate`, `WriteSheet`); `PreviewPack` and `PreviewSheet` remember what
the user was shown, `ApplyPack` and `ApplySheet` read everything again under the
preview's token. `PackDropped` and `PcmCancelled` are imports given up after some
payloads were stored: their clean-up must spare what others share. `Owners`
relates sounds that occupy one physical range, which a pack and a build compare
and single edits do not. `built` is the build that Launch would start.

## 4. Runs

| Run | Instance | Shows |
|---|---|---|
| `session_faults` | one visual, audio and stadium asset, a text, a cue, a colour; all eight faults; 3 snapshots, 2 records | `TypeOK`, `SnapshotsKept`, `SnapshotsUnshared`: however operations fail, a snapshot named by a record exists and is that record's alone |
| `session_undo` | two visual assets and one audio, two values, a cue; snapshot and manifest failures; 4 snapshots, 3 records | `UndoReady`, `UndoIsExact`: the refinement of `UndoableProject`; `FilesBackEdits`, `FileLedgersAgree`, `NothingUnrecorded`: files, edits and ledgers stay together, and an operation that leaves the order alone leaves the work alone |
| `workspace_crash` | two images, two edits, all faults | `TypeOK`, `PromiseKept`: work reported as autosaved is recoverable until it is settled, or overwritten as in `recovery_overwritten` |
| `workspace_autosave` | one image, two edits, failing tasks and crashes, fairness | `NothingStale`, `AutosaveCatchesUp` |
| `project_file` | two windows, other programs, crashes, a clock of 4 | `TypeOK`, `CleanMeansSaved`, `OwnSavesAccepted` |
| `build_pipeline` | two editors, two assets, three inodes, one replacement | `TypeOK`, `ImageOfOneMoment`, `FailedLeavesNothing`, `DestinationRespected` |
| `apf_session` | a rating, a text, two sounds of one range, one value, two checkpoints | `TypeOK`, `PayloadsKept`, `LaunchesCurrent`, `ConfirmedIsShown`, `UndoIsExact` |
| `undo_text_history`, `close_race`, `recovery_source_race`, `recovery_overwritten`, `build_rollback` | the smallest instance of each | the disagreements of section 6 |

**Bounds.** `MaxSnapshots` and `MaxUndo` bound the history number and the undo
order. The properties relate at most two records and the number that may be
cut back and reused between them; three snapshots hold two records of one
action and a reused number, and a Revert All over three assets takes all three
at once. `session_undo` needs two assets of one editor and two values, for a
batch and for an undo that restores the wrong one of two files. No instance has a Crib
asset: it takes the same actions as a visual one, without batches, and the theorems
cover it. In the
workspace two edits are enough for every order of "the edit the snapshot holds"
and "the edit after it", and two images for every comparison of sources;
`MaxEdits` bounds the whole run, crashes and relaunches do not count.

In `project_file` every edit, new file and change of a file advances the clock
once: four ticks are an edit, its archive, the removal of a linked temporary name
and one act of somebody else, or two edits of two windows with their archives,
which are the cases the checks exist for (about a million states). In
`build_pipeline` two assets are needed for an image of mixed media, one
replacement and any number of removals for the mixture, and a third inode for a
stranger's file beside two images. In `apf_session` two sounds of one range and
one value give a payload file that two edits, a checkpoint and an import share,
and two checkpoints are enough for two undos in a row.

Windows in `project_file`, and editors, assets and inodes in the build runs, are
interchangeable, and those configurations declare the symmetry; no liveness is
checked there. The others use none. Deadlock is checked everywhere.

**Assumptions about the world.** `Guarded` (in `project_file`): nobody else acts
on the file between a publication and the look at what was published. Between any
other two steps, the identity check and the publication included, anybody may do
anything. Without it `CleanMeansSaved` is false, `OwnSavesAccepted` still holds. `Reuse = FALSE` (in `build_pipeline`): the number of an image's inode does
not come back while its build may still withdraw it; `build_rollback` has it come
back.

**What the faults exclude.** `session_undo` leaves out "unlink", "preview",
"rollback" and "purge": there the code loses the record (hazards list) and
`FilesBackEdits`, `FileLedgersAgree` or `NothingUnrecorded` is false of it. It has
no text edits, because of finding 1, no failing copies or checks, because an undo
of a visual, Crib or stadium action that fails half-way has already dropped its
record (`session.py:1207`), and no uniform colours (`session.py:1221`). The
theorems on the three properties cover text, Crib and stadium assets and failing
copies and checks as well. `NothingUnrecorded` speaks of operations that leave the
order alone; an undo that fails half-way does not, and is outside it.
`workspace_autosave` has one image and no failing state writes,
since a discarded archive of another image stays by design.

**Fairness.** The session, file and build runs have none: nothing there must
happen. In
`FairSpec`, pool threads run what they were given and queued signals and zero
timers are delivered (weak fairness of each kind). Strong fairness is assumed
only of the queued snapshot while no panel is busy: it rules out a user who
starts a panel operation for ever in the instant between the end of the last
one and the delivery of a zero timer. No user action is fair.

## 5. Proofs

All for arbitrary constants under the named assumption of each module: any
assets, editors, values and archives, any bounds, and any set of faults where a
theorem does not name the ones it excludes.

**StudioSession** (`SessionAssumption`)

* `TypeCorrect`: `Spec => []TypeOK`. One lemma per group of actions; the work is
  in the helper lemmas on what a numbering, a copy of snapshots, a pushed action
  and a shortened stack are.
* `SnapshotsAlwaysKept`, `SnapshotsNeverShared`. Neither is inductive alone: a
  record may only lose its snapshot through another record that shares it, and
  a new snapshot may only be shared if a record names a number beyond `seq`.
  `SnapInv == TypeOK /\ SnapshotsKept /\ SnapshotsUnshared` is. The argument is
  made once for *ledgers* (the four stacks, and the audio parts that Revert-All
  records keep in the order): a step leaves the ledgers alone, cuts one, purging
  only what the cut record named, or grows one by an action that names only
  numbers above the old `seq` (`LedgersStill`, `LedgersCut`, `LedgersGrow`).
  Every action is shown to be one of the three. Rolled-back batches matter here:
  they put `seq` back, which is safe because no ledger names the numbers given
  up.
* `LedgersAgree`, without the fault "purge" and with every other: the number of
  records of the order that touch an editor is the length of its stack.
  `LedgerInv` adds `Shaped`, which editors a record of each kind may touch; a
  step leaves order and stacks alone, pushes one record and an action on the
  stack of every editor it touches, pops both, or empties both
  (`LedgerStep`), and the counting is done once, in `AgreePush` and `AgreePop`.
* `FilesBacked`, under `FilesFollow` (no failing rollback and no failing second
  removal of a stadium pair): every step sets an edit and its file together, or
  neither (`Together`). `FilesExact`, if removals succeed as well: the files are
  exactly the edits.
* `NothingGoesUnrecorded`, under `RolledBack` (none of the faults "unlink",
  "preview", "purge", "rollback"): a step that leaves the order as it was leaves
  the work as it was.

These assumptions leave out no more than what the hazards list says the code
loses: with any one of the excluded faults the property is false, and TLC gives
the behaviour.

**StudioSessionTrail** (`Plain`: no text edits, because of finding 1; snapshot
and manifest writes may fail, and copies and checks too if all edits are of
sounds, whose undo keeps its record until it has committed; the reasons for what
is left out are in section 4)

* `SessionUndoesExactly`, the refinement: `UndoableProject`'s history is a list of
  documents, the session's is an order of marks, four stacks and a directory of
  numbered files. `TrailInv` says that they are the same thing. `Retraces(i)`
  reads record `i` backwards: from the document after it (the one before record
  `i + 1`, or the current one), what the record and its editor's action name, with
  the snapshot files they number, gives `past[i]`. Three earlier results carry
  the step: a snapshot in use is neither removed nor reused (`SnapInv`), so old
  records keep their meaning; stacks and order agree (`LedgerInv`), so the
  position of a record in its editor's stack is the number of records of that
  editor up to it (`Pos`); the files are the edits (`FilesAreEdits`), so what a
  snapshot copies is the edit. Two facts had to be added: an action on an
  editor's stack concerns that editor's assets only (`Owned`), and after a Revert
  All the document is empty, so its undo may rebuild it from its own parts.
* `UndoAlwaysReady`, with `Colours = {}`: the record on top can be undone. Uniform
  colours are left out because the code's undo of Revert All insists on an empty
  project and counts colours as edits (`session.py:1221`).

**StudioWorkspace** (`WorkspaceAssumption`)

* `TypeCorrect`, with `Orderly`: which task, phase and continuation go together,
  and that at most one blocking task or panel operation is under way.
* `PromiseAlwaysKept`, for any images, edits and all faults, with the exception of
  section 6, item 4, which is thereby the only way in which what was reported as
  autosaved is lost unasked while no close waits. `PromiseInv` splits a
  standing promise in two. `Mine`: it was made for the work in hand, which is
  then loaded under the promised source, at least as new, and dirty (but for the
  instant between the adoption of a recovered project and its queued result).
  `Theirs`: it is left from an earlier run and not taken up. Then work done
  meanwhile has a later document, so whatever saves, discards or replaces it
  settles the promise (`Later`); no snapshot of work given up for the recovery can
  be written under the promised image (`Elsewhere`), while one of other work ends
  the promise; and a recovery under way is of the recorded image and reads just
  that archive (`Recovering`). `Bounds` keeps documents, saves and settled work in
  order, `Written` speaks of an archive whose result is still queued, `Waiting`
  says that no promise stands while a close waits.
* `NeverStale`, with one image and a state file that can be written (the
  conditions of its run: with either dropped, TLC finds a stale archive that the
  code leaves behind).
  `StaleInv`: window and facade agree on the source except while a loaded source
  is being reported (`Loaded`), dirty work is only replaced by a task that was
  allowed to discard it (`GivenUp`), and clean work in hand means no recovery
  entry (`Fresh`).

**ApfSession** (`ApfAssumption`)

* `SessionTyped`, and with it `SessionStep`: every step records a checkpoint,
  undoes, opens, or leaves document and history alone. `SessionUndoesExactly`,
  the refinement of `UndoableProject`, follows from that.
* `PayloadFilesKept`: `PayloadsKept` is inductive once typed. Steps that change
  the document store its files first; steps that discard files keep
  `Protected`.
* `LaunchIsCurrent`: each step drops the build or keeps it with the edits.
* `ConfirmedAsShown`: from the invariant `ReceiptHonest`, that the sounds a preview
  announced are those its token's pack makes of the project's sounds then.

**ProjectFile** (`ProjectFileAssumption`)

* `FileTyped`; `Typed` adds that a save past staging has its temporary file.
* `OwnSavesAreAccepted`, without `Guarded`: `Aged` (no inode or time is later than
  the clock, so a new file has an identity nobody knows) and `Own` (outside the
  steps of publishing, the file an editor published is the one it expects).
* `CleanIsSaved`, with `Guarded`: `Unseen` (nobody remembers the identity of a
  file that has a second name, so no removal of a name changes it), `AsRead`
  (what was read is in the file while its identity is unchanged) and `InTransit`
  (what is staged and published is the editor's project until the save is over).

**BuildPipeline** (`BuildAssumption`)

* `PipelineTyped`; `Staged` says what a verifying or publishing build has staged.
* `ImagesAreOfOneMoment`: the builder never sees the project at one moment, so
  the invariant has to name one. It is the moment the last file was pinned:
  by `Tracked`, of every pinned file, either that moment has it too, or it is
  still to be compared and has been replaced since, so the comparison will fail.
  `Dated` (versions never come back) is what makes that final.
* `FailuresLeaveNothing`: `Attributed`, where the image of a build can be at each
  step.
* `DestinationIsRespected`, assuming `Reuse = FALSE`: `Distinct`, no two files
  have one inode, so what has the identity a build remembers is its own image.

Only model-checked: the liveness property `AutosaveCatchesUp`, which is beyond this
prover, and the properties of the runs that expect a violation, which are false.

## 6. Disagreements with the documents

1. *Text undo history* (`session.py:1103`, run `undo_text_history`). Revert All
   and its undo each make a new text editor with an empty history while the text
   records stay in the order; the next undo of one fails. The record is dropped
   before it fails (`session.py:1198`): that edit can never be undone, and the undo
   after it reaches the older records.
2. *Closing* (`gui/studio_qt.py:5042`, run `close_race`). Edits made while a close
   waits for the last snapshot are closed away unasked, with their recovery copy.
   The proof of `PromiseKept` met a second form of it, too long for the run's two
   edits: a first edit is autosaved, a second one is being autosaved; the user
   closes and chooses Save Project, the state file cannot be rewritten at the
   clean-up, and the window waits for the snapshot. From the menu the user takes up
   the recovery that is still on offer, and edits again. The snapshot writes that
   edit, "Autosaved unsaved edits" is shown, and the `finished` handler
   (`studio_qt.py:4980`) clears the recovery and closes. The report was true for
   one event; `promise` therefore leaves out reports made while a close waits.
3. *Recovery of another image* (`gui/studio_qt.py:1491`, run
   `recovery_source_race`). A snapshot in flight can overwrite the recovery archive
   between the choice to recover it and its loading, and one image's edits come
   back under another.
4. *A recovery left for later* (`gui/studio_qt.py:4895`, run
   `recovery_overwritten`). The guide says that the recovery project is kept until
   it is explicitly discarded or the working set is saved or replaced. After "Not
   Now", a recovery that failed, or one refused because the file is another image
   now, the first edit of other work autosaves over it, without a look at what is
   there.
5. *Withdrawing an image* (`core/nfl2k5_build_service.py:1321`, run
   `build_rollback`). The descriptor that keeps the inode number from being given
   out again is closed just before the number is compared. It takes a failing
   build, another program that replaces the output, and a recycled number.

Behaviour met on the way that no run is about, because no document promises
otherwise or because the instance adds nothing to reading the code:

* Another program's version written between the identity check of a fast save and
  its `os.replace` is overwritten (`studio/project_archive.py:135-160`; the guide,
  `src/docs/mod_editor/2k5_mod_studio_getting_started.md:168-171`, says that a
  project changed by another program is refused). Both steps are in the model.
* Save Project As adds a missing `.2k5mod` after the dialogue has asked about the
  name as typed, and replaces what is at the resulting path
  (`gui/studio_qt.py:4433`, 4486): a project nobody was asked about.
* Uniform colours leave no undo record and Revert All does not bring them back
  (`session.py:1011`, 1041).
* When a consumed audio snapshot cannot be removed, the undo has committed but
  only one of its two ledgers was popped (`session.py:2920`).
* A save can be reported as failed though the file was replaced
  (`studio/facade.py:2187`; the guide says that a failed save leaves the file
  intact). The window stays dirty, which is the safe side.
* After a crash between `os.link` and the removal of the temporary name the
  project has two names and is refused until the other one is removed.
* The second of two indexers of a game fails instead of adopting the first one's
  cache where the system reports ENOTEMPTY (`core/nfl2k5_source_cache.py:250`
  catches `FileExistsError`), and a damaged cache is never replaced.
* The 2K5 facade goes on offering the last build after later edits; the APF
  facade does not.
* Two APF sounds of one physical range can be given different payloads one by
  one; the project can then be saved but not built.
* A crash leaves build and indexing staging directories behind; nothing looks
  for them again.

## 7. Not modelled

Contents of archives, images, textures and sounds; previews, search, widgets;
path, permission and link checks; audio aliases of the 2K5 studio that reach one
physical slot by two ids; its audio-pack preflight; a second editor process on
the same workspace state (nothing in the code says what should happen); the
child process of a build, which appears as a failure that may come at any step;
the APF studio's reserve plan, staged crest and field art, its archive code and
its build's publication (twins of the 2K5 ones); the APF window; the
first-generation editor; the command-line tools and the recovered C sources.
They make up nearly all of the repository's lines: conversions between formats
without state that outlives a call, which these modules take as values.
