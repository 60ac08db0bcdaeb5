# Verification of the StudioOnAir recorder

StudioOnAir is a desktop recording studio (C++/Qt): it captures screen, camera
and microphones at once, records each source into segment files of a project
package, imports the result into a timeline editor and exports it. This
directory holds TLA+ models of the parts of it where threads, processes, files
and crashes meet, the TLC runs that check them and the TLAPS proofs about them.
Components are named by their directory below the repository's `src/`; in
`PROJECT.json` the repository itself is `src/`, so `app/X.cpp` here is
`src/src/app/X.cpp` there.

## 1. The system

### 1.1 Recording

| Component | State it keeps | Operations | What is hard |
|---|---|---|---|
| `recorder/AsyncTrackRecorder` | `state_`, a bounded media queue, `stopRequested_`, `requestedEndTime_`, `inputError_`, the open segment, completions and one observer | `start`, `accept` (video, audio), `stopAsync`, `observeCompletion`, destructor; worker thread `run` | capture threads, service threads and the worker share one mutex; full queues; cutting at segment ends; a stop against queued media; failures of encoder, file system and store |
| `recorder/DurableSegmentPublisher` | `pending_` (begun segment) | `begin`, `publish`, `fail` | two systems (SQLite, file system) with no common transaction; link + unlink on Linux |
| `sync/`, `ffmpeg_adapter/*SegmentEncoder` | offsets and drift of each clock, the master, the frame planner, the encoder's FIFO and expected time | `observe`, `plan`, `accept`, `finish` | clocks that jump, jitter, drift and leave gaps |
| `app/MultiTrackRecordingService` | `state_`, `terminalError_`, entries (`started`, `completed`, `summary`), completions, observer | `start`, `accept`, `fail`, `stopAsync`, `observeCompletion`, `onTrackCompleted` | every decision is taken under the mutex and carried out after it, by any of four kinds of thread |
| `app/FfmpegLiveRecordingEngine` | one `Run` (recorders, routers, `accepting`), the current result | `start`, `stopAsync`, `finishRun`; `VideoRouter`, `AudioRouter` | order of opening sinks, accepting and stopping; lifetime of a `Run` shared with workers |
| `app/LiveRecordingController` | phase, generation, session id | `startRecording`, `stopRecording`, completions of begin, start, finish, complete, abort | late completions of an earlier take |
| `project_store/SqliteProjectDatabase` | `recording_sessions`, `segments` rows | `beginRecording`, `beginSegment`, `markSegmentReady`, `markSegmentFailed`, `completeRecording`, `abortRecording`, `scanRecovery`, `recover` | rows against files; refusals half-way |
| `project_store/ProjectPackageStore`, `RecentProjects` | the package directory, `.tmp/*.part`, `recovery/quarantine/`; the list of recent projects | `create`, `open`, `recover`, migration | a crash between any two file operations; names shared by several takes; two processes |
| `app/ProjectController`, `app/ProjectWorker` | the open project, the list of interrupted sessions, a busy flag | `create`, `open`, `recover`, `begin/complete/abortRecording` on one worker thread | which project is open, which session is offered |

A take goes: `LiveRecordingController` asks the project worker to begin a
session (`recording_sessions` RECORDING); the engine builds one recorder per
source and a service over them; the service starts the recorders; the sources
are attached and media are let in. Each recorder's worker cuts media into
segments on the project grid and publishes each (row WRITING, part file, final
file, row READY). A stop, a failing source, an overflowing audio queue or a
failing track stops all recorders; when the last worker has reported the service
decides one result; the engine reads the session, and the project worker
completes it, or leaves it RECORDING. On the next opening of the project a
RECORDING session is offered for recovery: its part files and orphans are
quarantined, its WRITING rows become FAILED and it becomes RECOVERED.

Correct means: media accepted are published or reported, never silently lost
(README and `docs/superpowers/specs/2026-07-16-r0-05-source-recording-design.md`);
a READY row has its file; a terminal session has no unfinished row; all callers
learn one result, once; every stop is answered; recovery loses and overwrites
nothing, and may be repeated.

### 1.2 Capture and the Studio page

| Component | State it keeps | Operations | What is hard |
|---|---|---|---|
| `capture/` mailboxes, queue, fan-outs, stop coordinators; `ffmpeg_adapter/windows`, `macos` backends | latest frame, bounded blocks, stop tokens, native session | `start`, `stopAsync`, callbacks, `poll` | a callback that has taken the sink when the source stops; several stops at once; a worker that ends by itself |
| `app/ScreenCaptureController` | state, targets, region, source, mailbox, generation | permission, refresh, preview, stop, target and region changes | old answers; a target that is gone; restarts; a take joining and leaving |
| `app/DeviceCaptureController` | per slot state, devices, source, retry timer | enable, refresh, choose, stop, restart of system audio | unplugging, late permission, restart budget |
| `app/AvatarSceneController`, `avatar/` renderer | style, atomics of the renderer, thread, fan-out, settings | setters, enable, attach and detach of a take | two threads over a dozen atomics; a thread joined by the GUI thread |
| `app/StudioWorkflowController`, `StudioWorkflowWorker`, `StudioRecordingBinding`, `project_store/SqliteStudioStore` | scenes, selection, revision, the take prepared, what awaits its import | scenes added, changed, reordered, removed; prepare, switch, mark, complete, abort; retry of imports | optimistic page against stored rows; a project switched in mid-take; restarts |
| `avatar/` tracking, telemetry, calibration, supervisor | the last face, session file, worker process | `poll`, `append`, `load`, `start`, `stop` | datagrams lost or malformed, a torn line, a worker that dies |

### 1.3 Editing, rendering and the stores

| Component | State it keeps | Operations | What is hard |
|---|---|---|---|
| `domain/` commands, `app/TimelineEditService`, `project_store/SqliteTimelineStore` | timeline, history with cursor and clean cursor, revision | each edit, undo, redo, save, open; commit with revision | an edit is stored before it is applied; two writers; what is stored must read back |
| `app/RecordingTimelineReconciler`, `ffmpeg_adapter/FfmpegMediaProbe` | plan of an import; leases on files | join, plan, hash, verify, commit | the files can change while they are hashed; the timeline while it is planned |
| `app/EditorController`, `EditorSessionWorker`, `EditorEngineWorker`, `mlt_adapter` | snapshot, generations, pending requests, playhead, engine | open, edit, seek, play, pull sound | replies of an earlier project, edit or seek |
| `app/Export*`, `SqliteRenderJobStore`, `PersistentRenderJobLifecycle`, `RenderJobRecovery`, `MltRenderJob` | job row, thread, partial and destination file | export, cancel, publish, recover | cancel against completion; crash while publishing; somebody else's file |
| `avatar_pack_adapter/`, `project_store/AvatarSpecFileStore` | staged trees, versions, current and backup file | install, list, resolve; save, load | two processes, a crash or a power loss at every step |
| `autozoom`, `cut_suggest`, `cursor`, transcripts | lists of recorded inputs | analyzers | boundaries of intervals |

`PROJECT.json` lists every component with its status and every hazard at its
line.

## 2. Modules

| Module | Models | Checked by |
|---|---|---|
| `TrackRecorder` | `AsyncTrackRecorder` and its `DurableSegmentPublisher`, all threads | `MCTrackRecorder` |
| `MediaTiming` | `ClockCoordinator`, `AudioRateCompensator`, `VideoSyncPlanner`, the routers, the clocks of both segment encoders | `MCTrackRecorder` |
| `MultiTrackRecording` | `MultiTrackRecordingService` with its recorders reduced to what `TrackRecorder` shows of them | `MCMultiTrackRecording`, `MultiTrackRecordingProofs` |
| `RecordingPromise` | what a recording of several tracks promises: an abstract specification | refined by `MultiTrackRecording` |
| `SegmentStore` | rows and files of a package over several takes, crashes, recoveries | `MCSegmentStore`, `SegmentStoreProofs` |
| `LiveRecording` | `LiveRecordingController`, `ProjectController`, `ProjectWorker` and the pages | `MCLiveRecording` |
| `FaceTracking` | tracking provider, smoothing, telemetry file, supervisor, calibration | `MCLiveRecording` |
| `TimelineCommands` ← `EditCommandCodec` ← `TimelineRows` ← `TimelineEditing` | the domain's commands; their stored form; the timeline's rows; editor and importer over one store | `MCTimelineEditing`, `TimelineProofs` |
| `EditedDocument` | a document with bounded undo: an abstract specification | refined by `TimelineEditing` |
| `RenderExport` | export from the button to the file, its job, thread and recovery | `MCDesk`, `DeskProofs` |
| `EditorPreview` | the Editor page's controller with its two workers and the engine | `MCDesk`, `DeskProofs` |
| `RecordingImport` ← `RenderGraph` ← `ProgramBuild` | a take's segments to clips; a timeline to frames; what a loaded timeline shows | `MCDesk` |
| `EditingAids` | zoom, emphasis, silence, filler, suggestion and transcript functions | `MCDesk` |
| `ScreenCapture`, `DeviceCapture` | the two capture controllers with the page | `MCStudio` |
| `CaptureSources` | one source of each of six implementations | `MCStudio` |
| `AvatarScene` | the live avatar's thread, style, sinks and settings | `MCStudio` |
| `StudioWorkflow` | scenes and takes of projects between page, worker and store | `MCStudio` |
| `AvatarCatalog`, `AvatarSpecStore`, `PackageLibrary`, `MediaIdentity` | installed packs; an avatar's files; packages and recent projects; leases on media | `MCLibrary` |
| `TrackRecorderProofs`, `MultiTrackRecordingProofs`, `SegmentStoreProofs`, `LiveRecordingProofs`, `TimelineProofs`, `DeskProofs`, `StudioProofs`, `LibraryProofs` | theorems and their proofs (section 5) | TLAPS |

`A ← B` says that B extends A. An operator whose comment says "Mutant" is the
definition after it with one plausible mistake in it; nothing refers to it, and
it is there to show that the properties notice the mistake.

Four MC modules put several parts side by side that share no state (`MCDesk`,
`MCLibrary`, `MCStudio`, and `MCTrackRecorder` and `MCLiveRecording` with two
parts each). A variable fixed by `Init` (`part`, `shelf`, `corner`, `side`,
`recording`) says which part moves; the others stay in one initial state. The
states of such a run are the sum of its parts, not their product, and a property
of a part is checked in every state of that part. Parts meet only where the code
lets them meet, and there one module models both sides: `StudioWorkflow` has the
take's controller and the project's in it, `TimelineEditing` both writers of the
store, `ScreenCapture` and `DeviceCapture` the source and the take,
`ProgramBuild` the import, the graph and the load.

### 2.1 TrackRecorder and MediaTiming

One action of `TrackRecorder` is one critical section of `mutex_`, or a stretch
of the worker between two. `Start`, `AcceptVideo`, `AcceptAudio`, `StopAsync`,
`Observe`, `Unobserve` and `Destroy` are the public calls; `Dequeue`,
`DrainFinished`, `Rotate`, `OpenSegment`, `Encode`, `EncodeFails`,
`LatchProcessError`, `FinishTail`, `Complete`, `NotifyObserver`,
`CallCompletion` and `WorkerExit` are `run()` in its order, with `pc` the place.
Time is in ticks: one sample frame of audio or one video frame, and a medium is
the set of ticks it covers, so that "lost", "twice" and "in which segment" are
questions about sets. Left out: `start()` failing to create a thread (the state
goes back to Idle, a stutter), calls after the destructor was entered (undefined
in C++ and not made). Every call into the encoder, file system and store may
fail, separately.

`MediaTiming` is what `TrackRecorder` takes as given, that media arrive in order
and fit. A callback of a source goes through `Observed` (rebasing on the master,
the jump and drift filter), the router's clamp, `Planned` (video: the grid,
duplicates, skips) or `CorrectionsOf` (audio: the rate compensator), and into the
encoder's arithmetic (`AudioAccepted`, `VideoAccepted`: gap, overlap, padding,
flush, whole frames). It is arithmetic over small integers, with the code's own
divisions and remainders. The rate in parts per million is abstracted to the
corrections it may yield, a queue between router and encoder to the order it
keeps; the resampler's own delay and the int64 overflow checks are left out.

What a reader of the code may not expect, and the model shows: the router clamps
a corrected time to the end of the last block, so a follower that is faster than
the master is never pulled back, and one that is slower leaves gaps that are
padded although the resampler compensates too (the drift bound of
`2026-07-16-r0-06-sync-recovery-design.md` is tested without the router); the
frame that pads a small gap overlaps the time of the next; after a skip a frame
may lie up to a period behind the grid; a window that is resized fails the take.

### 2.2 MultiTrackRecording and RecordingPromise

Each thread has a place and a list of the recorders it has collected under the
mutex and has not stopped yet: `starter`, `capture[t]`, `worker[t]`,
`callerStops[c]`. A recorder is `Idle/Running/Stopping/Stopped` with `fault`; it
fails only after it was given a medium (`fed`), because an empty track opens no
segment. The engine's gates are part of the model: media enter after `start()`
returned (`FfmpegLiveRecordingEngine.cpp:527-535`) and a router is silent after
its first failure (`Run::fail`, line 186).

`RecordingPromise` knows no threads: tracks open only while the recording is on
and never again, one decision is taken when no track is open, it is a success
only if every track finished, clients learn it afterwards and once. The
refinement mapping (`Promise`) reads phase, tracks, outcome and the set of told
clients from the service's variables.

A stop that nothing failed before may still end with an error: a submission that
passed the Running check is refused by its recorder and latched
(`MultiTrackRecordingService.cpp:118-119`). Not modelled: `addTrack` (before
`start`), the destructor while calls are in flight, and the loss of a router
error between attaching and accepting (hazard list).

### 2.3 SegmentStore

A file is named by source and index, not by session
(`RecordingTrack.cpp:90-100`), so a path is a pair all takes share, and a file is
modelled by the session whose media it holds. `writer[x]` walks through
`begin`, the encoder and `publish`, each SQLite statement and each directory
operation a step. `Platforms` names the kinds of system: one that publishes with
one rename (Windows, macOS) and one that links and unlinks (Linux); a package that
is carried from one to the other meets both. `Crash` may come at any time, and
keeps exactly rows and files.

`recover()` is `StartRecovery`, which reads the WRITING rows once, then for each
part the look of `quarantinePart` at both names (`InspectPart`) and the move
(`MoveByRename`, or `MoveByLink` and `MoveByUnlink`), then the orphans, then
`CommitRecovery`; `RecoveryFails` ends it anywhere and `MoveTakenBack` is the
failing unlink. It runs on the project worker, as `beginRecording`,
`completeRecording` and `abortRecording` do, so it does not overlap those. The
writers run elsewhere, and recovery does overlap them: the tabs are closed during a
take, but an opening that was under way when Record was clicked ends in it, turns
the page without looking (`qml/Main.qml:106-111`, `ProjectController.cpp:226-277`)
and offers the session that is being recorded. A session so recovered is in the
history `overtaken`. Its parts may be moved between any two steps of its writers,
which then find none to publish (`HasPart`); a part made after `recover()` has
looked at its path is not seen (`StartEncoder`); `beginSegment` checks the session
in one statement and inserts the row in another (`Prepare`, `BeginSegment`), so a
row may come after `CommitRecovery`.

What still holds then is what the properties say: a READY row has its file, no
medium is lost, even if a writer links a part to its final name while recovery links
it into the quarantine, and no row goes back. What does not hold, and is excepted
where it is stated: an overtaken session may keep a WRITING row in a RECOVERED
session, which nothing ever settles (`ClosedIsSettled`), and may leave a part
(`RecoveredLeavesNoPart`).

Abstracted: a take may be stopped at any moment, for each track on its own
(`WriterStops`); the service that makes them stop is the other module's business. A
store that refuses READY or FAILED leaves the row as it is. Parts are moved in
any order. The second unlink of `MoveTakenBack`, whose failure the code ignores,
succeeds. Repeating a mark that is already made is not modelled.

Two things the code does that a reader should know: after a crash between link
and unlink a part has two names, and `validatedPlainFile` refuses to move it, so
that recovery of that session fails each time (`ProjectPackageStore.cpp:499-507`);
and a file that is final while its row is still WRITING becomes FAILED in
recovery although nothing of it is missing (`SqliteProjectDatabase.cpp:945`).

### 2.4 LiveRecording and FaceTracking

Three threads: the GUI thread handles one posted event or one user action at a
time (`inbox`, `EventLoop`, `ProjectUser`, `TakeUser`), the project worker takes
one job at a time (`jobs`, `ProjectWorker`), and the engine runs by itself until
it is stopped or fails (`engine`, `run`). Take and project state are the
controllers' members under short names: `op` is `operationState_`, `pending` is
`pendingStart_`, `project` and `chosen` are `project_` and `pendingProject_`. The
QML pages are in the model as far as they decide what the user can do: `page` and
the guards of the user's actions are the `enabled` conditions and the handlers of
the three signals in `Main.qml`. A session is the identity of a take, so the
generation numbers of the controller, one per session, are not a variable of
their own. The preparation set by `setRecordingPreparation` is any listener that
answers each request once, with either result; `StudioWorkflow` has the one the
program has.

A start that fails is aborted in the package that is open by then, so its session
may stay RECORDING in the one where it began (`ProjectController.cpp:355`; the
r0-02 design, lines 285-286, expects ABORTED; `FailedStartIsAborted` states it
and no run has it). Left out: closing the window (the next start is `Init`, which
has RECORDING sessions from any earlier run), an unavailable engine.

`FaceTracking` has four small programs, one per value of `tracking`: the
provider with smoothing over datagrams that are lost, late or malformed; the
telemetry session that appends lines and the playback that reads them; the
supervisor with its process; and the calibration. The smoothed pose is modelled
by the set of samples it was made of, which is what "newest" and "no bleeding
between sessions" are about. A malformed datagram ends a drain: newer ones wait
for the next tick, and the error is shown only while no face was ever held,
against what the header says of both. A repeated timestamp, a second session
appended from time 0 or a torn line makes a telemetry file unloadable
(`AvatarMotionPlayback.cpp:95-127`), which the model has and the properties allow.
On POSIX `running()` reaps the child, so a later `pollExitCode` has lost its
code. Only the provider is used by the program as it is now; the others are
libraries with tests. `processFrame` and `CalibrationCapture::reset` are left out.

### 2.5 Timeline editing

`TimelineCommands` has every command of `domain/` as an operator from a timeline
to the set of its results, empty when the domain refuses it, with what its undo
needs. `EditCommandCodec` says which stored commands decode, `TimelineRows` what
`writeSnapshot` and `loadPrimaryTimeline` do between timeline and rows.
`TimelineEditing` joins them: an editor and an importer, each with a copy of
timeline, history and revision, a store whose transactions are single steps, and
crashes between any two steps. An action is one call of the service: the commit
with its revision check, then the change in memory.

`EditedDocument` is the abstract specification: a document, a past and a future,
where an edit forgets the future and may forget the oldest past. Every step of
`TimelineEditing` is a step of it, so no writer overwrites what it has not seen
and undo restores the very document, after restarts too.

An import over a full history stores more commands than the editor's decoder
accepts, so the editor cannot open the project again (`EditorSessionWorker.cpp:342`
100 against `RecordingTimelineReconciler.h:44` 1000, `SqliteTimelineStore.cpp:1027`);
`EditorCanReopen` states what `2026-07-17-r1-04-durable-edit-operations-design.md:82-83`
promises of it and no run has it. Not modelled: locked tracks, markers outside
imports, frame-rate changes, which no operation of the editor reaches.

### 2.6 The desk: RenderExport, EditorPreview, ProgramBuild, EditingAids

`RenderExport` has the GUI with its queued signals, the worker that recovers
earlier jobs before it renders, the render thread with its transitions through
`IRenderJobLifecycle`, the row, the partial and the destination file. Another
program may put a file at the destination at any time, and the process may die at
any step; the next export recovers. Publication by a job that may not replace is two
steps on POSIX, a look at the destination (`LookAtDestination`) and a rename that
replaces whatever is there by then (`Publish`, `MltEditEngine.cpp:106-113`); on
Windows the move itself refuses. Recovery looks (`RecoverLook`) and renames
(`RecoverPublish`) in the same way, on POSIX with a `renameWithoutReplacement` that
replaces (`RenderJobRecovery.cpp:159-175`, 203-218). `posix` is the build, and `late`
remembers that the file at the destination came after the look. That file is lost,
although "the destination is never overwritten implicitly"
(`2026-07-18-r1-06-export-design.md:166`); `KeepsDestination` says that no other is.
Two more things hold in the code that its design does not say: a cancelled export may leave its row in another state than
CANCELLED (`EditEngineTypes.cpp:91-94`, against `2026-07-18-r1-06-export-design.md:126`),
and recovery may publish an MKV partial under the name of an MP4 destination
(`RenderJobRecovery.cpp:212-227`); `CancelIsRecorded` and `PublishesWantedFormat`
state the design's sentences and no run has them.

`EditorPreview` has the controller's generations and pending requests, the queue
to each worker, the engine and the page's buttons. A playback tick that comes
during a seek drops the seek's frame request, and the older frame moves the
playhead back (`EditorController.cpp` near 1520, `MltEditEngine.cpp:1480-1489`);
`SeekIsShown` states what `2026-07-17-r1-03-mlt-preview-playback.md:89` says.
What `PictureIsAtPlayhead` promises is that the picture and the playhead agree.

`RecordingImport` and `RenderGraph` are pure: a request (segments, scenes,
switches, markers) to assets, tracks and clips; a timeline to the frames of its
layers. `ProgramBuild` adds the engine's load with its overlay cache and compares
the program with what the take recorded, frame by frame: which media, from which
place, in which layer, and nothing where nothing was recorded. The comparison is
made from the request alone, by other definitions than the import's. Abstracted:
transforms and gains; a source is its role. `SoundIsTrue` excepts sounds after a
clip shorter than a frame, which the plan keeps for one frame
(`MltGraphPlan.cpp:88-101`) and which so shifts what follows; `PictureIsTrue`
allows black in the last frame of a piece, for source and timeline are rounded
separately. No code sets an asset offline, so a media file that is gone refuses
the whole load, and the diagnostics of a plan are not shown.

`EditingAids` compares each analyzer with a reference definition over all inputs
that a small recorder of cursor, sound and words can write. The analyzers are
libraries with tests; of the transcripts the program uses loading and adding.

### 2.7 The Studio page: ScreenCapture, DeviceCapture, CaptureSources, AvatarScene, StudioWorkflow

The two capture controllers see a source through what `CaptureSources` promises
of it: after the answer of `stopAsync` no frame comes, and a source may break by
itself. An answer of the system is fresh or stale by its generation. The page's
own part is in the model: what it starts, pauses and shows. `DeviceCapture` is one slot;
of the other kind it meets what reaches over: `refreshDevices` and a permission
granted to either kind list both kinds again (`RefreshDevices`,
`DeviceCaptureController.cpp:142-203`, 274-275). Only a hotplug stops a source whose
device is gone: after such a refresh the slot shows another device as chosen while
the source of the lost one goes on, which `overlooked` remembers and `SlotInv`
excepts; the hotplug that follows finds nothing missing. `CaptureSources` has
six implementations with their threads and locks; `native`, `ringing` and
`closing` are what a callback, a worker or a teardown is at. `wgc` and `stream`
call the sink under their mutex, the others after it, so `stop()` of a `session`
or of macOS system audio is not the barrier `IVideoFrameSink.h:12-13` promises
(`StopIsBarrier`, stated and not run); the owner drops the sink only in the
answer of `stopAsync`, which is one. Also stated and not run: `PausedWhenHidden`
(a refresh or a restart while the page is hidden starts the capture again) and
`SystemAudioComesBack` (the Windows worker ends without a word when its device is
invalidated, `WindowsCaptureBackend.cpp:1191-1203`, and the slot goes on showing
a capture).

`AvatarScene` has the setters as series of stores and the render thread's loads;
a frame drawn during a change may mix two styles, one drawn after it may not.

`StudioWorkflow` has the page's optimistic scenes, the worker, the store with the
triggers of migration 003, the take's preparation, completion and abort, and the
imports that are retried when a project opens. A project may be opened, or the take
that is running recovered, at any step of a take (`ProjectOpened`), for the reason
told in 2.3; the take's preparation outlives it. The model shows, and the
properties allow: an abort refused while a command is under way leaves its scene
events behind, and the triggers lock these scenes for good; a failing import
stops the retry of the later ones until the next opening
(`StudioWorkflowWorker.cpp` near 160, against
`2026-07-17-r1-05-studio-workflow-design.md:168-169`, `ReopenRetriesEvery`); a
project opened while the studio is busy is refused by it, and
`StudioRecordingBinding` drops the error; the row of a take that records may be
RECOVERED (`TakeIsPrepared`).

### 2.8 The library: AvatarCatalog, AvatarSpecStore, PackageLibrary, MediaIdentity

Each is a directory or file protocol with a crash, a power loss or a failing call
at any step, and each step is one system call or one SQLite transaction.
`AvatarCatalog`: several processes install packs, from the archive through a
staged tree and its flushes to the rename, under a lock that refuses and does not
wait. What is written and what survives a power loss are two things (`synced`,
`settled`, `rooms`). `AvatarSpecStore`: a save copies a readable file to the backup, then
replaces the file, both through flushed temporaries; a load reads the file, then the backup; both kinds
of platform, because a POSIX load that races a save fails where a Windows save
does. `PackageLibrary`: two processes create, open, migrate and list packages; a
flaw of a found package stands for everything validation refuses it for.
`MediaIdentity`: the probe's double look at a file around its hash and the
verification at each step of an import, against another program that writes,
replaces or removes the file; `coarse` says whether a second change within a
timestamp's unit can be seen. Where it cannot, what is recorded may be only the
beginning of what the file was at one time: size and stamp are compared after both
reads (`FfmpegMediaProbe.cpp:534-584`), so a file that grows within the unit passes
(`RecordedIsWhole` says it; with distinct stamps the copy is the whole).

Known limits of the code that these modules have: an installation found again
after an indeterminate flush is answered without a new flush; one bad entry makes
the whole catalog unreadable; a first save that died with a bad backup makes an
avatar unsavable; two processes that open an old database race on its version
and the second fails once; two processes lose updates of the recent list; and on
POSIX a change of a medium after the last look of an import goes unnoticed.
The avatar catalog and the spec store are not used by the program yet.

## 3. Runs

Every bound is a constant of a module, given its value in the cfg.

| Run | Instance | What it shows |
|---|---|---|
| `track` | an audio and a video track, capacity 3, segments of 2 ticks, blocks of 1 and 3, up to tick 4, one stop caller; and three pairs of sources with clocks that run ahead, go back, jitter and leave gaps, four callbacks | `MediaKept`, `SegmentsInv`, `OneVerdict`; with a scheduled worker every track that has to end does (`TracksEnd`); no sample lost, misplaced or overlapping, every frame in its segment (`EncoderInv`) |
| `service` | two tracks, a caller and the observer | `NoTrackForgotten`, `ServiceInv`, `FirstFailureKept`, `KeepsPromise`, `RecordingEnds`: no track forgotten, the inductive invariant, first failure kept, refinement of `RecordingPromise`; stops are answered, a failure stops all |
| `store` | two takes of two sources with two segments, at most two paths used by all of them (`TwoPaths`), both platforms | `StoreInv`, `NoMediaLost`, `RecoveredLeavesNoPart`, `RowsMoveForward`: the inductive invariant with READY has its file and closed is settled; no media lost, a recovered session leaves no part, rows move forward; with recoveries of the session that is being recorded |
| `second_take` | two takes of one source | `LaterTakesRecord` **violated**: section 6 |
| `timeline` | one take of length 3, histories of 2 (editor) and 3 (importer), seven kinds of user, revision 4 | `EditingInv`, `KeepsDocument`: the stored history reads back and verifies, a take is imported once, saved is saved unless an import overtakes it, refinement of `EditedDocument` |
| `timeline_saved` | the same | `CleanMeansSaved` **violated**: section 6 |
| `desk` | two exports (a new MP4, an existing MKV); two projects of length 2, one edit each, two openings, eight kinds of user; about 2 200 requests of six ticks; up to four cursor samples, two clicks, five sounds | `RenderInv`, `KeepsDestination`, `EditorInv`, `ProgramInv`, `AidsInv`, `DeskEnds`: the row, the thread, the file and what the user was told agree, nobody's file is replaced unasked but one saved between the look and the rename on POSIX; picture, playhead, selection and sound belong to the document shown; the program shows what was recorded; proposals are complete and disjoint; every export, edit, opening and preview ends |
| `studio` | two targets, one that the region does not fit; two devices, two retries; six source implementations, two completions; two characters, two corners; two projects, three scenes, two takes, eight kinds of user | `CaptureInv`, `SceneInv`, `StudioInv`, `PageEnds`: what is shown as captured is; nothing reaches a stopped source's owner; the avatar's thread is joined and draws what the controls say; takes keep their scenes and are imported, also when packages are opened and takes recovered meanwhile; the page's states end |
| `library` | two processes, seven packs (two of one version, two of one asset, one per refusal), two faults; three saves, two loads, two upsets; two workers, two paths with seven kinds of package; three intrusions into a medium | `AvatarInv`, `StoresInv`, `LibraryEnds`: versions are whole and what was promised is served; a saved avatar is never lost; packages are whole and strangers' directories left alone; what was recorded of a medium is the whole of one state of it; every call ends |
| `live_takes` | two takes, two packages, the store may refuse; three datagrams, two sessions, five shots | `TakesInv`, `FaceInv`, `TakesEnd`: answers arrive where they are expected, the engine is free for a take, what was recorded is not aborted, what was announced is durable; the newest face, whole telemetry, one worker, a robust calibration; Preparing and Finalizing end and an open project stays open |
| `avatar_style` | two characters, two corners, two changes | `StyleSurvivesRestart` **violated**: section 6 |
| `audio_rate` | the timing half of `track` with devices of half and of twice the project's rate | `SteadyAudioIsWhole` **violated**: section 6 |

Each passing run also has a type invariant (`TypeOK`, `LiveTypeOK`).

Why these bounds are enough.

- *Tracks.* A track of four ticks with segments of two crosses a boundary and a
  block of three spans one; capacity three takes one block of three, so every
  fullness occurs. In the timing half a period of 4, a frame of 4, a block of 6
  and a segment of 14 ticks have no common grid, and the slips stand for each
  branch of the filter: back beyond a period, jitter, a gap below a frame, a
  jump over several. Two tracks are what "first", "other" and "later entry"
  need, and the theorems of section 5 hold for every number.
- *Store.* Two takes let a path be used, and reused after a recovery; two
  sources interleave two writers. `TwoPaths` is an action constraint: either both
  sources record a segment at once, or one records two in a row; a third path
  would be changed by nobody else's steps. About a million states. The theorems
  hold for every number and without it.
- *Timeline.* Length 3 can be cut twice; a history of two forgets with the third
  edit; revision 4 has two edits, an import and one more. A user is a set of
  kinds of edit, so that kinds that interact (a range deleted over titles, the
  fades of a clip that is cut) are together and others are not multiplied.
- *Desk.* Two exports are one and a later one that recovers it; both builds. Users of the
  editor are sets of habits for the same reason. A frame rate of two frames in
  three ticks makes frames begin at a tick and between two; takes are whole,
  split, late, short within and beyond the tolerance, torn and unfinished.
- *Studio, library.* A second target, device, project, process or worker is what
  "another one" needs; two faults let one fall into the handling of the other.
- *Symmetry* is over sessions and sources in the runs of the store, none of
  which the definitions tell apart, and never used in a run with fairness.

Deadlock is checked in every run but `avatar_style`, whose bound on changes
stops it. A recorder or service that has finished stutters in `Terminated`; a
package can always be opened or crash; in the runs with parts `Rest` (or `Over`)
lets everybody leave when no call is under way, so a deadlock is a call that
cannot go on.

### Fairness

Weak fairness is assumed of what the operating system, an event loop or a loop of
the program runs as long as it can, and of nothing a user, a device or another
program decides.

In a run with parts the fairness of a part that does not move asks for nothing: in
the one state it stays in, none of its fair actions is enabled (nothing was
started, nobody has called). The project's part of `MCLiveRecording` begins with a
scan queued, so there the fairness is of steps that the takes make (`Taking`), and
the face tracking has behaviours of its own.

| Specification | Weakly fair | Because |
|---|---|---|
| `TrackRecorder` | the worker as a whole | it waits on a condition variable that every change of its condition notifies |
| `MultiTrackRecording` | each thread *inside* a call | it goes on to the call's end; whether a source delivers, fails, or a user stops is not assumed |
| `LiveRecording` | event loop, project worker, listener, the stopping engine | a posted event, a queued job, a request; for the engine `StopIsAnswered` of `service` |
| `RenderExport` | signal delivery, worker (it polls), render thread | queued connections and `std::thread`s |
| `EditorPreview` | both workers, the handlers of their answers | the same; a user owes nothing |
| `ScreenCapture`, `DeviceCapture` | the system's answers, the poll timer, the restart timer | asked questions are answered; for a stop it is `SourceEnds` of `CaptureSources` |
| `CaptureSources` | a worker that was asked to end, the teardown, the join, a call of the sink that was taken | threads |
| `AvatarScene` | a setter's stores, the render thread, the join | threads |
| `StudioWorkflow` | the worker, the handlers of answers, an engine that is finalizing | the same |
| `AvatarCatalog`, `AvatarSpecStore`, `PackageLibrary` | a call under way | it may fail or its process die, but not sleep for ever |

`SegmentStore`, `TimelineEditing`, `ProgramBuild`, `EditingAids`, `FaceTracking`,
`MediaIdentity` and `MediaTiming` have no liveness property: their calls are
straight-line code in a thread of another module.

## 4. Properties and hazards

`PROJECT.json` lists the hazards with the properties that would catch them. A
run's property is often the conjunction of several named ones, each with a
comment of its own in its module:

| Property | Its parts |
|---|---|
| `MediaKept` | `MediaAccounted`, `DrainedBeforeReport`: an accepted medium is somewhere until the result, and then published; it counts, so it excludes loss and duplication at once. `MediaInOrder`: published, open segment, worker's hand, queue and what a call carries follow each other in time |
| `SegmentsInv` | `SegmentsPartitionTime`, `RowsMatchFiles`; `SegmentGrows`: which place of the worker has an open segment, and what it holds |
| `OneVerdict` | everybody hears the one result; `WorkerPlace`: what each place of the worker says of state, queue, result and completions |
| `EncoderInv` | `GridIsAccounted`, `FramesAreInTheSegment`, `NoSampleIsLost`, `AudioIsInPlace`, `NothingOverlaps` |
| `NoTrackForgotten` | relates the service's state to lists held by threads outside the mutex: what makes collecting under the lock and acting after it safe |
| `StoreInv` | see section 5 |
| `EditingInv` | `ReopenRestores`, `ImportedOnce`, `SavedUnlessOvertaken` |
| `RenderInv`, `KeepsDestination` | `ToldIsTrue`, `CompletedIsPublished`, `NoPartialLeft`, `RowFollowsThread`, `OneExport`, `NothingBefore`, `ThreadKeeps`, `AnswerIsTrue`, `EvidenceIsOwn`, `Looked`; the destination is only replaced by who was told to, or by a POSIX rename that looked before the file was there |
| `EditorInv` | `NothingForgotten`, `FreshIsCurrent`, `PictureIsAtPlayhead`, `StaleIsRepaired`, `SelectionIsShown`, `SoundFollows`; what they rest on is in `DeskProofs` |
| `ProgramInv` | `ImportIsTrue`, `PictureIsTrue`, `SoundIsTrue`, `TitlesAreTrue`, `LayersAreInOrder` |
| `AidsInv` | `ZoomsAreApart`, `HiddenMeansStill`, `SilencesAreMaximal`, `FillersAreMaximal`, `CutsAreOrdered` |
| `CaptureInv` | `ScreenInv`, `SlotInv`, `SourceInv` |
| `SceneInv` | `FanoutOutlivesThread`, `ThreadIsJoined`, `TakeIsFed`, `OneLateFrame`, `ControlsAreTrue`, `SetterKeeps`, `SettledFramesAreTrue`, `FrameKeeps` |
| `StudioInv` | `PageIsTrue`, `TakeIsPrepared`, `TakeKeepsItsScenes`, `EditorHasTakes`; what they rest on is in `StudioProofs` |
| `AvatarInv` | `VersionsAreWhole`, `PromisesAreServed`, `TreesHaveOwners`, `OnlySoundPacks`; `OneWorks`, `ShelvesHold`, `TreesAreReady`: who holds the lock, what a place in the catalog has, and what a staged tree has at each step of its installation |
| `StoresInv` | an avatar's files: `AvatarIsKept`, `SavedIsRead`, `LoadIsRecent`, `SaveKeeps`, `LoadKeeps`; packages: `PackagesAreWhole`, `StrangersAreLeftAlone`, `OpenedIsCurrent`, `StagingIsRemoved`, `OpenFailsForAReason`, `RecentsAreTidy`, `FlawsStay`, `StagingIsAhead`, `LeasesAgree`; media: `RecordedIsWhole`, `RecordedIsCurrent`, `LeaseKeeps`, `StampsTell`, `ReadingTwiceTells` |
| `TakesInv` | `AnswersAreExpected`, `EngineIsFree`, `RecordedIsKept`, `AnnouncedIsDurable`; `OneUnderWay`, `TakeKeeps`, `PageKeeps`: the one request under way, what it asks, and which page waits for it |
| `FaceInv` | `PoseIsNewest`, `NothingBleeds`, `TelemetryIsWhole`, `WorkerIsOwned`, `CalibrationIsRobust`; what they rest on is in `LiveRecordingProofs` |

One hazard has no property: an error that reaches `Run::fail()` between attaching
the sinks and accepting media is dropped (`FfmpegLiveRecordingEngine.cpp:187`);
the run goes on with a source that is silent.

## 5. Proofs

Checked by TLAPS, for every value of the constants under the modules' ASSUMEs.

`MultiTrackRecordingProofs` (from `ServiceAssumption`: at least one track,
"observer" is not a caller). The safety properties are not inductive by
themselves: that nothing is live at Stopped needs that a completed entry's worker
has reported, that a worker reports after its recorder stopped, and that
`start()` marks an entry before it moves on; that no recorder is forgotten needs
that no caller can have a list while `start()` is still under way. `ServiceInv`
is the conjunction of these facts (`StartOrder`, `ReportsOnce`, `DecidedOnce`)
with the two properties; with `TypeOK` it is inductive. From it follow
`StoppedIsSafe`, `OkIsComplete`, `NothingForgotten`, `VerdictIsOne`,
`FirstFailureStays` and `Refinement`, in which each action is shown to be a step
of `RecordingPromise` or a stutter under the mapping.

`SegmentStoreProofs` (from `StoreAssumption`: `NoOne` is not a session, the bound
on indices is a natural number, the platforms are among the two). `StoreInv`
joins the safety properties with what they rest on. `SessionsKeep`: the session of
a take is RECORDING unless it was recovered meanwhile, that of a recovery always.
`WriterKeeps`: the place of each writer tells the status of its row and whose media
its part and final file hold, and indices not yet reached have no row; without the
first, `MarkReady` could point at a foreign file, without the second `BeginSegment`
could rewrite a READY row. It has to hold also when a recovery has taken the part
away, so it says of a part that it is there or gone, and of a row that it is WRITING
or, in an overtaken session, FAILED. `RecoveryKeeps`: a part that was linked is at
its destination, and under its old name or published by its writer, so neither
unlink loses it (`LinkedIsThere`); what recovery has looked at in a session that is
not recorded is gone (`LookedAreGone`), and a path it leaves alone is claimed by a
row that is still there (`ClaimsStand`), until `CommitRecovery` takes away the
WRITING rows. A writer changes only its own path, so the other writers keep what
they rely on (`WriterFrame`, `WriterOthers`), and recovery changes no writer's place. From the
invariant follow `ReadyIsBacked`, `ClosedStaysSettled`, `MediaIsKept`,
`RecoveryIsThorough` and, as an action property, `RowsOnlyForward`.

`TrackRecorderProofs` (from `RecorderAssumption`: positive capacity, segment
length and block sizes, a natural horizon). `IInv` is the types with `WorkerPlace`,
`OrderInv`, `Accounted` and `SegInv`, and is inductive only as a whole. What each
place of the worker says of state, queue and result (`WorkerPlace`) keeps two
callers from two results: the result is set before the completions are taken and
never again. That nothing is lost is a matter of order: what is displaced,
queued, in the worker's hand and encoded lies in this order in time (`OrderInv`),
hence is disjoint, and the sum of `MediaAccounted` is the cardinality of one
union (`Counted`), which needs no induction over the queue. That segments
partition time needs what the open segment holds (`SegmentGrows`) and that the
worker's next medium is not before it, from `OrderInv`; that indices suffice
(`NextIndexFits`) needs that every earlier segment is longer than nothing. The
step lemmas (`VerdictStep`, `TypesStep`, `PlacesStep`, `SegmentStep`) each prove a
part of `IInv'` from all of `IInv`.

`LiveRecordingProofs` (from `RecordingAssumption` and `FaceAssumption`) is about
`LiveRecording!Spec` and, of the face tracking and the types,
`MCLiveRecording!LiveSpec`. Takes: the inductive invariant is the
property itself, `TypeOK /\ TakesInv`: `OneUnderWay` says that of the requests a
take makes at most one is under way, as a job, an event or a call of the engine,
and which one in which phase; without it an answer could be one of an earlier
take. `TakeKeeps` relates a session's row to what the controller did, `PageKeeps`
the pages' waiting for a scan to the busy flag. Face: datagrams wait in the socket in
the order they were sent, those of a session come after its begin, and while nobody
tracks none waits (`SocketFits`); so what bleeds from one session into the next
has nowhere to wait. The pose shown is of a datagram that left the socket
(`PoseFits`); a file that loads has what was acknowledged, in increasing times, and a
first session without mishap leaves only whole lines of its provider
(`TelemetryFits`). The calibration takes the value at a place of the sorted shots:
one exists at every place (`RankedIs`: the least value up to which there are
enough), and since a majority of good shots meets both halves (`Meet`), the middle
lies between good values (`RobustAt`).

`TimelineProofs` (from `TakeLengthAssumption` and `EditingAssumption`) is about
`TimelineEditing!Spec`, for any number of edits, takes and clips and any two
limits of the history. Each writer has a copy that may be overtaken, so only what
a session that has seen the stored revision holds can be said (`EditorOK`,
`ImporterOK`). What is stored is described by a history and the timelines between
its entries: each entry leads from one timeline to the next and its undo state back
(`Linked`), the stored events replayed under either reader's limit end in that
history (`Ends`), past and future lie around the stored timeline (`Around`), and the
saved place is one of them (`SavedAt`). The inductive invariant is these with the
soundness of the stored rows and of the imports (`StoreOK`, `ImportsOK`,
`HistoryOK`). Three results about the operators carry it: a command has one result
on a sound timeline, which is sound, and its undo state restores the timeline
exactly (`CommandWorks`, one lemma for each command); the rows of a sound timeline
are refused or read back as that timeline (`LoadTimelineIs`); the replay of one
more event is one more step of the history (`ApplyEnds`, `UndoEnds`, `RedoEnds`).
The replay is a fold, which is followed one element at a time without an induction
rule: of the places where two functions differ take the least.
From the invariant follow `TimelineTypes`, `DocumentIsKept` (the
refinement of `EditedDocument`: each action is one of its steps or a stutter),
`ImportsAndSaves` (two of the three parts of `EditingInv`) and, of the third,
`ReopenAgrees`: a project that opens shows the document and history its editor
had. That it does open, as long as its history fits, is checked by TLC only.

`DeskProofs` (from `RenderAssumption`, `EditorAssumption` and `ProgramAssumption`)
is about `MCDesk!Spec`. `RowFollowsThread` is not inductive: that
the row is what the render thread wrote last needs that the worker does not begin
a job while an earlier thread runs (`OneExport`), that rows after the current job
are untouched (`NothingBefore`), what the thread has made at each place
(`ThreadKeeps`) and whose output a file is (`EvidenceIsOwn`). What the user is
told comes through a queue, so the truth of it is the truth of every signal still
queued (`AnswerIsTrue`). `RenderKeepsDestination` is an action property from the
same invariant: between the look and the rename the destination is free or holds a
file that came after the look (`Looked`). `DeskTypes` says that the whole desk stays bounded: of the page's
queue by `EditorIsBounded`, of the program that its rasters are finitely
many (`WantedAre`).

The editor, in the same module. The commands the engine has
not answered are one line (`Line`): the one it runs, then its queue, each with the
generation, document and position it was sent for. `InLine` says what a line in order
is: no frame, seek or load is of a later generation than the page's, a load of the page's
generation carries the page's document, at most one frame and one audio request are
in it exactly when the page waits for one, and what comes after a load is drawn from
that load. Sending a command keeps a line in order (`SentInLine`) and so does an answer
(`AnsweredInLine`); the actions of the page then only have to show which command they
send. `EditorKeeps` adds the other worker: of the present opening at most one request
is under way, as a call or an answer and exactly while the page is busy with the
session; without one the page shows what is stored; a page that knows its preview to be
stale has the load that repairs it in the line. From it follow the six parts of
`EditorInv`, for timelines of any length.
That the queue to the engine is bounded needs more than the invariant: of one opening
at most one command that makes the page busy is pending, what the clock and the edits
still owe is counted (`Due`, `Ceiling`), and one frame and one block of audio wait
beside (`LineIsShort`). Openings can be counted because each sends one message
(`MessagesDiffer`), and a command of the present generation is one of an open page
(`SentWhenReady`).

`StudioProofs` (from `ScreenAssumption`, `SlotAssumption`, `AvatarAssumption` and
`StudioAssumption`) is about the composition `MCStudio!Spec`. Screen: a preview that can be stopped has
the source of the chosen target and region, and each waiting state has its fresh
question. Slot: `SlotWaits` adds which question is fresh when. Source: "quiet
after a stop" needs `SourceQuiets`, which threads are in a callback in each phase
of the teardown. Scene: `SetterKeeps` says which fields a half-done setter still
owes to renderer and settings, `FrameKeeps` what an undisturbed frame has loaded
so far. Scenes and takes: `StudioKeeps` says that of the requests and answers on the
way only the last is waited for, and that a command is alone (`InTurn`), about what
the page shows (`AskedWell`); so the page shows the worker's state unless the answer
on the way brings it (`PageFits`). The worker has what the package has and records
the take it prepared (`WorkerFits`), the recording's step agrees with the take's row
(`RowsFit`), and a take that records has its first event in the package it is of
(`TakeFits`). What the editor shows is late in one place only: between the row's
verdict and the answer that says that the take is imported (`EditorSees`).

`LibraryProofs` (from `AvatarAssumption`, `SpecAssumption`, `PackageAssumption`,
`FoundAssumption` and `MediaAssumption`) is about `MCLibrary!Spec`, one store after
the other. Packs: `ShelvesHold` says what a place has once a pack is in it, and
`TreesAreReady` what the tree of the one process at work has at its step; that
what was promised is served follows from them (`CatalogServes`). An avatar's files:
versions grow, so that the file a power loss brings back is told from the one that
replaced it (`SaveKeeps`). Packages: a worker between two transactions knows only
what it has read, so `LeasesAgree` says how that relates to what is there: the
version read is the database's or a smaller one, and then another worker has
migrated it; a file that was replaced has another identity; what is refused has no
worker past its check. One migration keeps tables, rows and version together
(`MigratedIs`); the list of recent projects is an increasing enumeration of the
rows that are kept (`RowsAre`, by the least counterexample), so that it names none
twice (`RememberedIs`). Media: on Windows a lease keeps its file as it is; on POSIX,
where each change has its own stamp, the stamp tells (`StampsTell`), and where it
has not, reading twice does (`ReadingTwiceTells`): what is written was never there
before, so a piece read twice alike was there all the time between.

Only model-checked:

- liveness under fairness, and ENABLED: the prover has no rule for WF;
- what recursion or a fold computes for every input, because the library's
  induction rules take an operator as a parameter, which the installed provers
  cannot instantiate. A fold over a list can be followed without them, as in
  `TimelineProofs`; the functions of `RecordingImport`, `RenderGraph` and
  `EditingAids` (`ProgramInv`, `AidsInv`) have not been;
- that a stored timeline is always one that opens, the half of `ReopenRestores`
  that `ReopenAgrees` leaves, and so `EditingInv` as a whole: it needs of every
  command that it keeps all that the decoder and the rows' checks ask for;
- `MediaTiming` (`EncoderInv`): its divisions and remainders are by variables.

The properties of the violation runs are false and have no proof.

## 6. Where code and documents differ

| Run | Code | Document |
|---|---|---|
| `second_take` | `RecordingTrack.cpp:90`, `AsyncTrackRecorder.h:112`: a second take of a source has the paths of the first and `prepare()` refuses them | `tests/README.md:27`, r0-02 design, line 265 |
| `timeline_saved` | `SqliteTimelineStore.cpp:1339`: a save has no revision of its own, so an import planned before it commits its older clean position over it | `2026-07-17-r1-usable-recorder-editor-design.md:205-206`: edited state is not silently presented as saved state |
| `avatar_style` | `AvatarSceneController.cpp:63`: the constructor's setters each save the whole style, and so overwrite what is not yet read | the comment above them, lines 56-57: character, position and size survive restarts |
| `audio_rate` | `FfmpegAudioSegmentEncoder.cpp:172`: the expected time adds frames of the device's rate to ticks of 48 kHz, so contiguous blocks look like gaps or overlaps | lines 265-271: every audio segment matches the profile at any device rate |

Smaller differences, without a run of their own, are named in section 2 at the
module that has them.

## 7. Plan

The models are complete as far as section 8 allows. Of the properties that the
passing runs check these have no proof and stay with TLC: those of liveness
(`TracksEnd`, `RecordingEnds`, `DeskEnds`, `PageEnds`, `LibraryEnds`, `TakesEnd`),
the invariants of pure functions (`ProgramInv`, `AidsInv`), `EncoderInv`, whose
divisions are by variables, and of `EditingInv` that a stored timeline always opens.
The last would come first: `Sound` has to say more, that clips lie in
their asset, and `CommandWorks` that this is kept.

## 8. Not modelled

- Codecs, conversions, the MLT framework and FFmpeg themselves; effects and
  encoder options: numeric or external.
- Audio DSP, noise suppression and transcription: numeric, behind ports of one
  call each.
- Drawing of avatars, parameter mapping, the Inochi2D and VRM parts, licences and
  manifests of packs: data without state; a manifest is good or refused.
- The systems' capture frameworks below the callbacks; frame assemblers, level
  meters and regions: numeric.
- QML layout and wording; the pages' conditions and handlers are guards of the
  users' actions. `main.cpp` beyond the order of initial values.
- SQL text and JSON schemas: a file passes validation or is refused for a reason
  of a small set; SQLite's transactions are taken as atomic and durable.
- The destructor of the service or of a `Run` while calls are in flight, whose
  outcome C++ leaves undefined or which the last owner's thread decides
  (`FfmpegLiveRecordingEngine.cpp:533`).
- Test doubles and value types.
