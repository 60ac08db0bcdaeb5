---------------------------- MODULE StudioWorkflow ----------------------------
(***************************************************************************)
(* The Studio page's workflow: the scenes of a project, and what the       *)
(* studio keeps of a take (its sources, scene switches and markers) until  *)
(* the take is imported into the timeline.  StudioWorkflowController runs   *)
(* on the GUI thread and StudioWorkflowWorker on its own; requests and      *)
(* answers are queued.  StudioRecordingBinding joins them to the recording  *)
(* controller, to ProjectController and to the editor.                      *)
(*                                                                         *)
(* A scene is a number; what its sources look like is whether they are the *)
(* ones the scene came with or changed ones.  A take is a number as well,  *)
(* in the order of the takes.                                               *)
(***************************************************************************)
EXTENDS Naturals, Sequences, SequencesExt

CONSTANTS
    Packages,      \* packages on the disk
    MaxScene,      \* bound: scenes ever made, those of a new package included
    MaxTake,       \* bound: takes
    StudioHabits   \* bound: the kinds of user, each a set of what they do

ASSUME StudioAssumption == "none" \notin Packages /\ MaxScene \in Nat /\ MaxScene >= 2 /\ MaxTake \in Nat

VARIABLES
    habit,      \* what this user does
    project,    \* the package of ProjectController, "none" at first
    live,       \* [op, take] of LiveRecordingController
    row,        \* the state of each take's session row, "none" before it
    home,       \* the package of each take's session row
    matter,     \* the takes with a segment row or a marker
    events,     \* the scenes in the recording_scene_events of each take
    imported,   \* the takes with a recording_imports row
    stored,     \* the scenes of each package
    queue,      \* requests on their way to the worker
    worker,     \* the worker's state_
    inbox,      \* its answers on their way to the controller
    known,      \* the controller's state_
    inHand,       \* the controller's busy_
    pending,    \* its pendingOperation_
    touched,    \* whether the selection changed since the last command
    editor,     \* [package, takes] the editor was last opened with
    made,       \* history: scenes made
    recorded,   \* history: the changed scenes when a take was prepared
    reopened,   \* history: [wanted, tried] imports of the last open
    healthy     \* history: no statement, file or engine has failed

rowVars == <<row, home, matter, events, imported>>
guiVars == <<known, inHand, pending, touched, editor>>
historyVars == <<made, recorded, reopened, healthy>>
studioVars == <<habit, project, live, rowVars, stored, queue, worker, inbox, guiVars, historyVars>>

None == "none"
Takes == 1..MaxTake
Done == {"COMPLETED", "RECOVERED"}
Edits == {"add", "duplicate", "remove", "moveUp", "moveDown", "changeSource"}

Closed == [package |-> None, scenes |-> <<>>, changed |-> {}, active |-> 0, selected |-> 0,
           recording |-> FALSE, take |-> 0, awaiting |-> 0, missing |-> FALSE, blind |-> FALSE]
NoScenes == [scenes |-> <<>>, changed |-> {}, active |-> 0]
DefaultScenes == [scenes |-> <<1, 2>>, changed |-> {}, active |-> 1]

StudioInit ==
    /\ habit \in StudioHabits
    /\ project = None /\ live = [op |-> "Idle", take |-> 0]
    /\ row = [t \in Takes |-> "none"] /\ home = [t \in Takes |-> None]
    /\ matter = {} /\ events = [t \in Takes |-> {}] /\ imported = {}
    /\ stored = [p \in Packages |-> NoScenes]
    /\ queue = <<>> /\ worker = Closed /\ inbox = <<>>
    /\ known = Closed /\ inHand = FALSE /\ pending = None /\ touched = FALSE
    /\ editor = [package |-> None, takes |-> {}]
    /\ made = 2 /\ recorded = [t \in Takes |-> {}]
    /\ reopened = [wanted |-> {}, tried |-> {}] /\ healthy = TRUE

TakesOf(p) == {t \in Takes : home[t] = p}
Unimported(p) == {t \in TakesOf(p) : row[t] \in Done /\ t \notin imported}

----------------------------------------------------------------------------
(* The controller: requests.                                                *)

Request(op, fresh, package, scene, take) ==
    [op |-> op, fresh |-> fresh, package |-> package, scene |-> scene, take |-> take]

\* submit() refuses a request before the project is open and during another.
Accepts == known.package # None /\ ~inHand

Submit(op, scene, take) ==
    IF Accepts
    THEN /\ inHand' = TRUE /\ pending' = op /\ touched' = FALSE
         /\ queue' = Append(queue, Request(op, TRUE, known.package, scene, take))
         /\ UNCHANGED <<known, editor>>
    ELSE UNCHANGED <<guiVars, queue>>

\* openProject(): what is under way for an earlier open is for nobody now.
Outdated(s) == [i \in DOMAIN s |-> [s[i] EXCEPT !.fresh = FALSE]]

OpenStudio(p) ==
    IF known.recording \/ pending # None THEN UNCHANGED <<guiVars, queue, inbox>>
    ELSE /\ known' = Closed /\ inHand' = TRUE /\ UNCHANGED <<pending, touched, editor>>
         /\ queue' = Append(Outdated(queue), Request("open", TRUE, p, 0, 0))
         /\ inbox' = Outdated(inbox)

----------------------------------------------------------------------------
(* The user.                                                                *)

Quiet == queue = <<>> /\ inbox = <<>>
Habit(what) == what \in habit
\* StudioPage's workflowEditable.
Editable == live.op = "Idle" /\ ~known.recording /\ ~inHand

Edit(op) ==
    /\ Habit(op) /\ Editable /\ known.selected # 0
    /\ op \in {"add", "duplicate"} => made < MaxScene
    /\ Submit(op, known.selected, 0)
    /\ UNCHANGED <<habit, project, live, rowVars, stored, worker, inbox, historyVars>>

\* A double click on a scene asks whatever is under way; the keys do not.
SwitchScene ==
    /\ Habit("switch") /\ known.package # None
    /\ \E c \in Range(known.scenes) : c # known.active /\ Submit("switch", c, 0)
    /\ UNCHANGED <<habit, project, live, rowVars, stored, worker, inbox, historyVars>>

AddMarker ==
    /\ Habit("mark") /\ live.op = "Recording" /\ known.recording /\ ~inHand
    /\ live.take \notin matter
    /\ Submit("mark", 0, 0)
    /\ UNCHANGED <<habit, project, live, rowVars, stored, worker, inbox, historyVars>>

SelectScene ==
    /\ Habit("select") /\ known.package # None
    /\ \E c \in Range(known.scenes) : c # known.selected /\ known' = [known EXCEPT !.selected = c]
    /\ touched' = TRUE
    /\ UNCHANGED <<habit, project, live, rowVars, stored, queue, worker, inbox,
                   inHand, pending, editor, historyVars>>

\* ProjectController has opened a package: at once, or by recovering one of
\* the takes whose row is still RECORDING, the one that is being recorded
\* included.  An opening under way when a take starts ends in it, and leads to
\* the recovery page and from there to any other.
ProjectOpened(p) ==
    /\ Habit(p) /\ (project = None \/ Habit("open"))
    /\ Len(queue) + Len(inbox) < 2   \* bound: projects opened at the same time
    /\ project' = p
    /\ LET interrupted == {t \in TakesOf(p) : row[t] = "RECORDING"} IN
       IF interrupted = {} THEN UNCHANGED row
       ELSE \E t \in interrupted : row' = [row EXCEPT ![t] = "RECOVERED"]
    /\ OpenStudio(p)
    /\ UNCHANGED <<habit, live, home, matter, events, imported, stored, worker, historyVars>>

\* The program ends, in order or not, and is started again.
Restart ==
    /\ Habit("restart") /\ project # None
    /\ project' = None /\ live' = [op |-> "Idle", take |-> 0]
    /\ queue' = <<>> /\ worker' = Closed /\ inbox' = <<>>
    /\ known' = Closed /\ inHand' = FALSE /\ pending' = None /\ touched' = FALSE
    /\ editor' = [package |-> None, takes |-> {}]
    /\ UNCHANGED <<habit, rowVars, stored, historyVars>>

StudioUser ==
    \/ \E op \in Edits : Edit(op)
    \/ SwitchScene \/ AddMarker \/ SelectScene
    \/ \E p \in Packages : ProjectOpened(p)
    \/ Restart

----------------------------------------------------------------------------
(* The recording controller, through its binding.                           *)

StartRecording ==
    /\ Habit("record") /\ live.op = "Idle" /\ project # None
    /\ \E t \in Takes :
          /\ home[t] = None /\ \A u \in 1..(t - 1) : home[u] # None
          /\ t = 1 \/ Habit("again")
          /\ live' = [op |-> "Beginning", take |-> t]
          /\ home' = [home EXCEPT ![t] = project]
    /\ UNCHANGED <<habit, project, row, matter, events, imported, stored, queue, worker, inbox,
                   guiVars, historyVars>>

\* The row is written; the studio is asked to prepare, and may refuse.
HandleBegun ==
    /\ live.op = "Beginning"
    /\ \/ /\ row' = [row EXCEPT ![live.take] = "RECORDING"]
          /\ Submit("prepare", 0, live.take)
          /\ live' = [live EXCEPT !.op = IF Accepts THEN "Preparing" ELSE "Aborting"]
          /\ UNCHANGED healthy
       \/ /\ live' = [op |-> "Idle", take |-> 0] /\ healthy' = FALSE
          /\ UNCHANGED <<row, guiVars, queue>>
    /\ UNCHANGED <<habit, project, home, matter, events, imported, stored, worker, inbox,
                   made, recorded, reopened>>

WriteSegment ==
    /\ live.op = "Recording" /\ live.take \notin matter
    /\ matter' = matter \cup {live.take}
    /\ UNCHANGED <<habit, project, live, row, home, events, imported, stored, queue, worker, inbox,
                   guiVars, historyVars>>

StopRecording ==
    /\ live.op = "Recording"
    /\ live' = [live EXCEPT !.op = "Finalizing"]
    /\ UNCHANGED <<habit, project, rowVars, stored, queue, worker, inbox, guiVars, historyVars>>

\* The engine has ended by itself or on request, with media or with an error.
HandleEngineFinished ==
    /\ live.op \in {"Recording", "Finalizing"}
    /\ \/ live.take \in matter /\ live' = [live EXCEPT !.op = "Saving"] /\ UNCHANGED healthy
       \/ live' = [live EXCEPT !.op = "Aborting"] /\ healthy' = FALSE
    /\ UNCHANGED <<habit, project, rowVars, stored, queue, worker, inbox, guiVars,
                   made, recorded, reopened>>

\* The row is final, and the studio hears so; or the row could not be written.
Settle(op, state, request) ==
    /\ live.op = op
    /\ live' = [op |-> "Idle", take |-> 0]
    /\ \/ /\ row[live.take] = "RECORDING" /\ home[live.take] = project
          /\ row' = [row EXCEPT ![live.take] = state]
          /\ Submit(request, 0, 0)
          /\ UNCHANGED healthy
       \/ UNCHANGED <<row, guiVars, queue>> /\ healthy' = FALSE
    /\ UNCHANGED <<habit, project, home, matter, events, imported, stored, worker, inbox,
                   made, recorded, reopened>>

HandlePersistenceComplete == Settle("Saving", "COMPLETED", "complete")
HandleAborted == Settle("Aborting", "ABORTED", "abort")

Recording ==
    \/ StartRecording \/ WriteSegment \/ StopRecording \/ HandleEngineFinished
    \/ HandleBegun \/ HandlePersistenceComplete \/ HandleAborted

----------------------------------------------------------------------------
(* The worker.                                                              *)

Job == Head(queue)
Answer(ok, state) ==
    inbox' = Append(inbox, [op |-> Job.op, fresh |-> Job.fresh, ok |-> ok, state |-> state])

\* Mutant of Locked: the triggers ask for rows that are final, too.
LockedWhenDone(p) == UNION {events[t] : t \in {u \in TakesOf(p) \ imported : row[u] = "RECORDING"}}

\* The triggers of migration 003: a scene an unimported take refers to keeps
\* its row and its sources.
Locked(p) == UNION {events[t] : t \in TakesOf(p) \ imported}

MayCommit(p, next) ==
    /\ next.scenes # <<>> /\ next.active \in Range(next.scenes)
    /\ LET gone == Range(stored[p].scenes) \ Range(next.scenes)
           redone == {c \in Range(stored[p].scenes) \cap Range(next.scenes) :
                         (c \in stored[p].changed) # (c \in next.changed)}
       IN (gone \cup redone) \cap Locked(p) = {}

Kept(state) == [scenes |-> state.scenes, changed |-> state.changed, active |-> state.active]

\* The store's statements; each is refused unless the take's row allows it.
IsRecording(t) == row[t] = "RECORDING"
IsImportable(t) == row[t] \in Done
PrepareTake(t, c) == events' = [events EXCEPT ![t] = {c}]
DiscardPreparation(t) == events' = [events EXCEPT ![t] = {}]
RecordSceneSwitch(t, c) == events' = [events EXCEPT ![t] = @ \cup {c}]
RecordMarker(t) == matter' = matter \cup {t}
PutImports(ts) == imported' = imported \cup ts

\* The plan of an import begins with a scene and contains a track or a marker.
HasPlan(t) == events[t] # {} /\ t \in matter
\* reconcile(): what it takes for a take to be imported.
CanImport(t) == IsImportable(t) /\ HasPlan(t)

SeededIfEmpty(p) == IF stored[p].scenes = <<>> THEN DefaultScenes ELSE stored[p]

\* An open imports what is not imported, in order, as far as the first failure.
WorkerOpens ==
    /\ queue # <<>> /\ Job.op = "open" /\ queue' = Tail(queue)
    /\ LET p == Job.package
           now == SeededIfEmpty(p)
           opened == [Closed EXCEPT !.package = p, !.scenes = now.scenes, !.changed = now.changed,
                                    !.active = now.active, !.selected = now.active]
           wanted == Unimported(p)
       IN \/ worker' = Closed /\ Answer(FALSE, Closed) /\ healthy' = FALSE
             /\ UNCHANGED <<stored, imported, reopened>>
          \/ /\ worker' = [opened EXCEPT !.missing = TRUE, !.blind = TRUE]
             /\ Answer(TRUE, worker') /\ healthy' = FALSE
             /\ stored' = [stored EXCEPT ![p] = now] /\ UNCHANGED <<imported, reopened>>
          \/ \E good \in SUBSET wanted :
                LET failing == {t \in wanted : t \notin good \/ ~CanImport(t)}
                    tried == {t \in wanted : \A u \in failing : t <= u}
                    failed == tried \cap failing
                IN /\ PutImports(tried \ failing)
                   /\ worker' = IF failed = {} THEN opened
                                ELSE [opened EXCEPT !.missing = TRUE,
                                                    !.awaiting = CHOOSE t \in failed : TRUE]
                   /\ Answer(TRUE, worker')
                   /\ reopened' = [wanted |-> wanted, tried |-> tried]
                   /\ healthy' = (healthy /\ \A t \in tried : CanImport(t) => t \in good)
                   /\ stored' = [stored EXCEPT ![p] = now]
    /\ UNCHANGED <<habit, project, live, row, home, matter, events, guiVars, made, recorded>>

\* Mutant of Swapped: one of the two is only copied.
SwappedHalf(s, i, j) == [s EXCEPT ![i] = s[j]]

Swapped(s, i, j) == [s EXCEPT ![i] = s[j], ![j] = s[i]]

\* The states an edit may lead to; none if it is refused.
Edited(w, op, c) ==
    LET i == CHOOSE k \in DOMAIN w.scenes : w.scenes[k] = c
        new == made + 1
        Added(changed) == [w EXCEPT !.scenes = Append(@, new), !.changed = changed, !.selected = new]
        Moved(k) == {[w EXCEPT !.scenes = Swapped(@, i, j)] : j \in {k} \cap DOMAIN w.scenes}
        left == RemoveAt(w.scenes, i)
        active == IF w.active = c THEN left[1] ELSE w.active
    IN IF w.recording THEN {}
       ELSE CASE op = "add" -> {Added(w.changed)}
              [] op = "duplicate" -> {Added(w.changed \cup {d \in {new} : c \in w.changed})}
              [] op = "remove" ->
                    IF Len(w.scenes) = 1 THEN {}
                    ELSE {[w EXCEPT !.scenes = left, !.changed = @ \ {c}, !.active = active,
                                    !.selected = IF @ = c THEN active ELSE @]}
              [] op = "moveUp" -> Moved(i - 1)
              [] op = "moveDown" -> Moved(i + 1)
              [] op = "changeSource" ->
                    {[w EXCEPT !.changed = IF c \in @ THEN @ \ {c} ELSE @ \cup {c}]}

\* publishSceneSnapshot(): stored first, and only then the worker's state.
WorkerEdits ==
    /\ queue # <<>> /\ Job.op \in Edits /\ queue' = Tail(queue)
    /\ LET good == {w \in Edited(worker, Job.op, Job.scene) : MayCommit(worker.package, Kept(w))}
       IN \/ \E w \in good :
                /\ worker' = w /\ Answer(TRUE, w)
                /\ stored' = [stored EXCEPT ![w.package] = Kept(w)]
                /\ made' = IF Job.op \in {"add", "duplicate"} THEN made + 1 ELSE made
                /\ UNCHANGED healthy
          \/ Answer(FALSE, Closed) /\ healthy' = (healthy /\ good = {})
             /\ UNCHANGED <<worker, stored, made>>
    /\ UNCHANGED <<habit, project, live, rowVars, guiVars, recorded, reopened>>

\* While recording only the take's events are told; the package's active
\* scene stays what it was.
WorkerSwitches ==
    /\ queue # <<>> /\ Job.op = "switch" /\ queue' = Tail(queue)
    /\ LET next == [worker EXCEPT !.active = Job.scene]
           live_ == worker.recording /\ IsRecording(worker.take)
           good == Job.scene \in Range(worker.scenes) /\ (live_ \/ ~worker.recording)
       IN \/ /\ good /\ worker' = next /\ Answer(TRUE, next) /\ UNCHANGED healthy
             /\ IF live_
                THEN RecordSceneSwitch(worker.take, Job.scene) /\ UNCHANGED stored
                ELSE stored' = [stored EXCEPT ![worker.package] = Kept(next)] /\ UNCHANGED events
          \/ Answer(FALSE, Closed) /\ healthy' = (healthy /\ ~good) /\ UNCHANGED <<worker, events, stored>>
    /\ UNCHANGED <<habit, project, live, row, home, matter, imported, guiVars,
                   made, recorded, reopened>>

WorkerMarks ==
    /\ queue # <<>> /\ Job.op = "mark" /\ queue' = Tail(queue)
    /\ LET good == worker.recording /\ IsRecording(worker.take) IN
       \/ good /\ RecordMarker(worker.take) /\ Answer(TRUE, worker) /\ UNCHANGED healthy
       \/ Answer(FALSE, Closed) /\ healthy' = (healthy /\ ~good) /\ UNCHANGED matter
    /\ UNCHANGED <<habit, project, live, row, home, events, imported, stored, worker, guiVars,
                   made, recorded, reopened>>

\* Only a row of this package that is RECORDING can be prepared.
WorkerPrepares ==
    /\ queue # <<>> /\ Job.op = "prepare" /\ queue' = Tail(queue)
    /\ LET good == ~worker.recording /\ IsRecording(Job.take) /\ Job.take \in TakesOf(worker.package)
       IN \/ /\ good
             /\ worker' = [worker EXCEPT !.recording = TRUE, !.take = Job.take, !.awaiting = 0]
             /\ PrepareTake(Job.take, worker.active)
             /\ recorded' = [recorded EXCEPT ![Job.take] = worker.changed]
             /\ Answer(TRUE, worker') /\ UNCHANGED healthy
          \/ Answer(FALSE, Closed) /\ healthy' = (healthy /\ ~good) /\ UNCHANGED <<worker, events, recorded>>
    /\ UNCHANGED <<habit, project, live, row, home, matter, imported, stored, guiVars, made, reopened>>

\* discardRecordingPreparation(): only of a row that is ABORTED.
WorkerAborts ==
    /\ queue # <<>> /\ Job.op = "abort" /\ queue' = Tail(queue)
    /\ LET good == worker.recording /\ row[worker.take] = "ABORTED" IN
       \/ /\ good /\ worker' = [worker EXCEPT !.recording = FALSE, !.take = 0]
          /\ DiscardPreparation(worker.take)
          /\ Answer(TRUE, worker') /\ UNCHANGED healthy
       \/ Answer(FALSE, Closed) /\ healthy' = (healthy /\ ~good) /\ UNCHANGED <<worker, events>>
    /\ UNCHANGED <<habit, project, live, row, home, matter, imported, stored, guiVars,
                   made, recorded, reopened>>

\* The take is over for the studio whether it can be imported or not.
WorkerCompletes ==
    /\ queue # <<>> /\ Job.op = "complete" /\ queue' = Tail(queue)
    /\ LET over == [worker EXCEPT !.recording = FALSE, !.take = 0] IN
       IF ~worker.recording THEN Answer(FALSE, Closed) /\ UNCHANGED <<worker, imported, healthy>>
       ELSE \/ /\ CanImport(worker.take)
               /\ PutImports({worker.take})
               /\ worker' = [over EXCEPT !.awaiting = 0, !.missing = worker.blind]
               /\ Answer(TRUE, worker') /\ UNCHANGED healthy
            \/ /\ worker' = [over EXCEPT !.awaiting = worker.take]
               /\ Answer(TRUE, worker') /\ healthy' = (healthy /\ ~CanImport(worker.take))
               /\ UNCHANGED imported
    /\ UNCHANGED <<habit, project, live, row, home, matter, events, stored, guiVars,
                   made, recorded, reopened>>

Worker ==
    \/ WorkerOpens \/ WorkerEdits \/ WorkerSwitches \/ WorkerMarks
    \/ WorkerPrepares \/ WorkerAborts \/ WorkerCompletes

----------------------------------------------------------------------------
(* The controller: answers.                                                 *)

Received == Head(inbox)

\* The user's selection stays, unless the command was about making a scene
\* or removing one and nothing was selected since.
Merged(r) ==
    LET ofWorker == ~touched /\ r.op \in {"add", "duplicate", "remove"}
    IN IF ~ofWorker /\ known.selected \in Range(r.state.scenes)
       THEN [r.state EXCEPT !.selected = known.selected] ELSE r.state

\* The answer was waited for by the recording controller, or by the binding
\* that opens the editor.
Completed(r) ==
    LET ok == r.ok /\ (r.op \in {"open", "complete"} => ~r.state.missing /\ r.state.awaiting = 0)
    IN /\ IF r.op = "prepare" /\ live.op = "Preparing"
          THEN \/ ok /\ live' = [live EXCEPT !.op = "Recording"] /\ UNCHANGED healthy
               \/ live' = [live EXCEPT !.op = "Aborting"] /\ healthy' = (healthy /\ ~ok)
          ELSE UNCHANGED <<live, healthy>>
       /\ editor' = IF ok /\ r.op \in {"open", "complete"} /\ project # None
                    THEN [package |-> project, takes |-> imported \cap TakesOf(project)] ELSE editor

\* Mutant: a refused command stays the pending one.
HandleCompletedOnSuccess ==
    /\ inbox # <<>> /\ inbox' = Tail(inbox)
    /\ IF Received.fresh
       THEN /\ inHand' = ~Received.ok /\ pending' = IF Received.ok THEN None ELSE pending
            /\ known' = IF Received.ok THEN Merged(Received) ELSE known
            /\ Completed(Received)
       ELSE UNCHANGED <<inHand, pending, known, live, editor, healthy>>
    /\ UNCHANGED <<habit, project, rowVars, stored, queue, worker, touched, made, recorded, reopened>>

HandleCompleted ==
    /\ inbox # <<>> /\ inbox' = Tail(inbox)
    /\ IF Received.fresh
       THEN /\ inHand' = FALSE /\ pending' = None
            /\ known' = IF Received.ok THEN Merged(Received) ELSE known
            /\ Completed(Received)
       ELSE UNCHANGED <<inHand, pending, known, live, editor, healthy>>
    /\ UNCHANGED <<habit, project, rowVars, stored, queue, worker, touched, made, recorded, reopened>>

StudioNext == StudioUser \/ Recording \/ Worker \/ HandleCompleted

\* The two threads and the engine serve what they are asked; a user need not
\* do anything.
StudioFairness ==
    /\ WF_studioVars(Worker) /\ WF_studioVars(HandleCompleted)
    /\ WF_studioVars(HandleBegun) /\ WF_studioVars(HandlePersistenceComplete) /\ WF_studioVars(HandleAborted)
    /\ WF_studioVars(HandleEngineFinished /\ live.op = "Finalizing")

StudioSpec == StudioInit /\ [][StudioNext]_studioVars /\ StudioFairness
----------------------------------------------------------------------------
(* Properties                                                               *)

Studios(state) ==
    /\ state.package \in Packages \cup {None} /\ state.changed \subseteq 1..MaxScene
    /\ Range(state.scenes) \subseteq 1..MaxScene /\ IsInjective(state.scenes)
    /\ {state.active, state.selected} \subseteq 0..MaxScene
    /\ {state.take, state.awaiting} \subseteq 0..MaxTake
    /\ {state.recording, state.missing, state.blind} \subseteq BOOLEAN

\* The types.
StudioTypeOK ==
    /\ project \in Packages \cup {None} /\ live.take \in 0..MaxTake
    /\ live.op \in {"Idle", "Beginning", "Preparing", "Recording", "Finalizing", "Saving", "Aborting"}
    /\ row \in [Takes -> {"none", "RECORDING", "COMPLETED", "ABORTED", "RECOVERED"}]
    /\ home \in [Takes -> Packages \cup {None}] /\ matter \subseteq Takes /\ imported \subseteq Takes
    /\ events \in [Takes -> SUBSET (1..MaxScene)] /\ recorded \in [Takes -> SUBSET (1..MaxScene)]
    /\ Studios(worker) /\ Studios(known) /\ made \in 2..MaxScene
    /\ {inHand, touched, healthy} \subseteq BOOLEAN
    /\ reopened.tried \subseteq reopened.wanted

\* The page shows an active and a selected scene that exist, and, with no
\* command under way, the scenes and the take that the worker and the package
\* have (handleCompleted(), publishSceneSnapshot()).
PageIsTrue ==
    /\ known.package # None => {known.active, known.selected} \subseteq Range(known.scenes)
    /\ known.package # None /\ ~inHand =>
          /\ known = [worker EXCEPT !.selected = known.selected]
          /\ known.scenes = stored[known.package].scenes
          /\ known.changed = stored[known.package].changed

\* While the engine runs and until its result is settled, the studio has
\* prepared this take and no other, even if a project is opened meanwhile or
\* the session recovered (StudioRecordingBinding.cpp:75-101,
\* StudioWorkflowController::openProject).
TakeIsPrepared ==
    live.op \in {"Recording", "Finalizing", "Saving"} =>
        /\ worker.recording /\ worker.take = live.take /\ worker.package = home[live.take]
        /\ events[live.take] # {} /\ row[live.take] \in {"RECORDING", "RECOVERED"}

\* Until a take is imported its scenes exist and look as they were recorded:
\* the import takes them from the studio's scenes of the time
\* (RecordingTimelineReconciler.cpp:246, 003_studio_workflow.sql:177-232).
TakeKeepsItsScenes ==
    \A t \in Takes : events[t] # {} /\ t \notin imported =>
        /\ events[t] \subseteq Range(stored[home[t]].scenes)
        /\ events[t] \cap stored[home[t]].changed = events[t] \cap recorded[t]

\* Only a final take is imported, and an editor opened on the project has seen
\* all of its imported takes when nothing is left to import that the studio
\* knows of (ProjectEditorBinding.cpp:25-27).
EditorHasTakes ==
    /\ \A t \in imported : row[t] \in Done
    /\ Quiet /\ ~inHand /\ known.package = project /\ ~known.missing /\ known.awaiting = 0
       /\ editor.package = project
       => editor.takes = imported \cap TakesOf(project)

StudioInv == PageIsTrue /\ TakeIsPrepared /\ TakeKeepsItsScenes /\ EditorHasTakes

\* A command ends, unless projects are opened for ever, and a take gets past
\* its preparation and its abort.
StudioEnds ==
    /\ []<>~inHand \/ []<><<\E p \in Packages : ProjectOpened(p)>>_studioVars
    /\ live.op \in {"Beginning", "Preparing", "Aborting"} ~> live.op \in {"Recording", "Idle"}

\* docs/superpowers/specs/2026-07-17-r1-05-studio-workflow-design.md:168: project
\* reopen retries every completed, unimported session.
ReopenRetriesEvery == healthy => reopened.wanted \subseteq reopened.tried
===============================================================================
