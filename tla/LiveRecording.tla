----------------------------- MODULE LiveRecording -----------------------------
(***************************************************************************)
(* Takes as the user starts and stops them: LiveRecordingController and    *)
(* ProjectController on the GUI thread, ProjectWorker on its own thread,   *)
(* and the recording engine with the threads behind it.                    *)
(*                                                                         *)
(* The GUI thread talks to the project worker through a queue of jobs; the *)
(* worker and the engine post their answers to the event queue of the GUI  *)
(* thread.  A job names the package it is for, and that is the package     *)
(* open when the job is issued.                                            *)
(*                                                                         *)
(* When a handler calls out (the recording preparation, the signals        *)
(* projectOpened, recordingCommitted and recordingAborted) it does so last *)
(* and "calling" holds the call; the GUI thread does nothing else until    *)
(* the listener has taken it.  The listener is the Studio: here one that   *)
(* answers a preparation in its own time.                                  *)
(*                                                                         *)
(* Opening stands for creating a project, too, which answers as the opening *)
(* of a package without interrupted sessions does.  Leaving the program is *)
(* not modelled: its next start is Init.                                   *)
(***************************************************************************)
EXTENDS Naturals, Sequences, Functions

CONSTANTS
    Sessions,        \* session identities; a take uses a new one
    Packages,        \* project packages the user knows
    None,            \* no session, no package
    StoreMayFail     \* the store may refuse a job for reasons of its own

ASSUME RecordingAssumption ==
    None \notin Sessions \cup Packages /\ StoreMayFail \in BOOLEAN

VARIABLES
    state,           \* session -> recording_sessions.state
    home,            \* session -> the package its row is in
    take,            \* history: session -> what this program did with it
    op,              \* LiveRecordingController::operationState_
    pending,         \* pendingStart_: the session of the take
    finishing,       \* pendingCompletion_ is set
    asked,           \* the session whose preparation the Studio works on
    calling,         \* the call the GUI thread is making
    project,         \* ProjectController::project_
    chosen,          \* pendingProject_: opened, and has interrupted sessions
    offered,         \* recoveries_: the interrupted sessions on display
    busy,            \* busy_: an open or a recovery is on its way
    page,            \* the page the window shows
    jobs,            \* the project worker's queue
    inbox,           \* the GUI thread's posted events
    engine,          \* where the engine's run is
    run              \* the session that run records

rowVars == <<state, home, take>>
takeVars == <<op, pending, finishing, asked>>
projectVars == <<project, chosen, offered, busy, page>>
engineVars == <<engine, run>>
vars == <<rowVars, takeVars, calling, projectVars, jobs, inbox, engineVars>>

-----------------------------------------------------------------------------

Job(kind, package, session) == [kind |-> kind, package |-> package, session |-> session]
Event(kind, package, sessions, ok) ==
    [kind |-> kind, package |-> package, sessions |-> sessions, ok |-> ok]

\* The program starts on packages in which an earlier run may have left
\* sessions RECORDING; a scan for them is the worker's first job.
Init ==
    /\ \E left \in SUBSET Sessions :
          /\ state = [s \in Sessions |-> IF s \in left THEN "RECORDING" ELSE "none"]
          /\ home \in [Sessions -> Packages \cup {None}]
          /\ \A s \in Sessions : home[s] = None <=> s \notin left
    /\ take = [s \in Sessions |-> "none"]
    /\ op = "Idle" /\ pending = None /\ finishing = FALSE /\ asked = None
    /\ calling = <<>>
    /\ project = None /\ chosen = None /\ offered = {} /\ busy = FALSE /\ page = "Home"
    /\ jobs = <<Job("scan", None, None)>> /\ inbox = <<>>
    /\ engine = "idle" /\ run = None

Interrupted(packages) == {s \in Sessions : state[s] = "RECORDING" /\ home[s] \in packages}

\* The GUI thread is free for the user, or for the next posted event.
GuiFree == calling = <<>>
IsNext(kind) == GuiFree /\ inbox # <<>> /\ Head(inbox).kind = kind
Receive(kind) == IsNext(kind) /\ inbox' = Tail(inbox)
Received == Head(inbox)
IsFor(s) == Received.sessions = {s}

-----------------------------------------------------------------------------
(* The project worker: one job after the other, each answered. *)

Outcomes(allowed) == {allowed} \cup (IF StoreMayFail THEN {FALSE} ELSE {})

RunJob(kind) == jobs # <<>> /\ Head(jobs).kind = kind /\ jobs' = Tail(jobs)
Answer(kind, ok) == inbox' = Append(inbox, Event(kind, Head(jobs).package, {Head(jobs).session}, ok))
WorkerLeaves == UNCHANGED <<takeVars, calling, projectVars, engineVars>>

ScanRecent ==
    /\ RunJob("scan")
    /\ inbox' = Append(inbox, Event("scanned", None, Interrupted(Packages), TRUE))
    /\ UNCHANGED rowVars /\ WorkerLeaves

WorkerOpens ==
    /\ RunJob("open")
    /\ \E ok \in Outcomes(TRUE) :
          inbox' = Append(inbox, Event("opened", Head(jobs).package,
                                       Interrupted({Head(jobs).package}), ok))
    /\ UNCHANGED rowVars /\ WorkerLeaves

\* A statement on the row of a session finds it only in its own package and
\* only in the state it asks for.
RowIs(states) ==
    LET j == Head(jobs) IN home[j.session] = j.package /\ state[j.session] \in states

Settle(kind, from, to, answer) ==
    /\ RunJob(kind)
    /\ \E ok \in Outcomes(RowIs(from)) :
          /\ Answer(answer, ok)
          /\ state' = IF ok THEN [state EXCEPT ![Head(jobs).session] = to] ELSE state
    /\ UNCHANGED <<home, take>> /\ WorkerLeaves

WorkerBegins ==
    /\ RunJob("begin")
    /\ \E ok \in Outcomes(TRUE) :
          /\ Answer("begun", ok)
          /\ IF ok THEN /\ state' = [state EXCEPT ![Head(jobs).session] = "RECORDING"]
                        /\ home' = [home EXCEPT ![Head(jobs).session] = Head(jobs).package]
                   ELSE UNCHANGED <<state, home>>
    /\ UNCHANGED take /\ WorkerLeaves

\* Mutant: the row gets the name the domain has for the state.
WorkerStops == Settle("complete", {"RECORDING"}, "STOPPED", "completed")
WorkerCompletes == Settle("complete", {"RECORDING"}, "COMPLETED", "completed")
WorkerAborts == Settle("abort", {"RECORDING"}, "ABORTED", "aborted")
\* Recovering a session again succeeds and changes nothing.
WorkerRecovers == Settle("recover", {"RECORDING", "RECOVERED"}, "RECOVERED", "recovered")

ProjectWorker ==
    \/ ScanRecent \/ WorkerOpens \/ WorkerBegins
    \/ WorkerCompletes \/ WorkerAborts \/ WorkerRecovers

-----------------------------------------------------------------------------
(* ProjectController: opening and recovering. *)

\* Home offers packages to open, whatever is being recorded.
OpenProject(p) ==
    /\ GuiFree /\ page = "Home" /\ ~busy
    /\ busy' = TRUE /\ jobs' = Append(jobs, Job("open", p, None))
    /\ UNCHANGED <<rowVars, takeVars, calling, project, chosen, offered, page, inbox, engineVars>>

\* The package is the one waiting for its recovery, or the open one, or, if
\* there is neither, the one the candidate names.
RecoverSession(s) ==
    /\ GuiFree /\ page = "Recovery" /\ ~busy /\ s \in offered
    /\ chosen' = IF chosen = None /\ project = None THEN home[s] ELSE chosen
    /\ busy' = TRUE
    /\ jobs' = Append(jobs, Job("recover", IF chosen' = None THEN project ELSE chosen', s))
    /\ UNCHANGED <<rowVars, takeVars, calling, project, offered, page, inbox, engineVars>>

\* Mutant: the page stays.
LeaveRecoveryStaying ==
    /\ GuiFree /\ page = "Recovery" /\ ~busy
    /\ chosen' = None
    /\ UNCHANGED <<rowVars, takeVars, calling, project, offered, busy, page, jobs, inbox, engineVars>>

LeaveRecoveryForLater ==
    /\ GuiFree /\ page = "Recovery" /\ ~busy
    /\ chosen' = None /\ page' = "Home"
    /\ UNCHANGED <<rowVars, takeVars, calling, project, offered, busy, jobs, inbox, engineVars>>

\* The tabs are closed during a take, and the Studio's without a project.
Navigate(to) ==
    /\ GuiFree /\ op = "Idle" /\ to # page
    /\ to = "Studio" => project # None
    /\ page' = to
    /\ UNCHANGED <<rowVars, takeVars, calling, project, chosen, offered, busy, jobs, inbox, engineVars>>

HandleScanned ==
    /\ Receive("scanned")
    /\ offered' = Received.sessions
    /\ page' = IF offered' = {} THEN page ELSE "Recovery"
    /\ UNCHANGED <<rowVars, takeVars, calling, project, chosen, busy, jobs, engineVars>>

\* projectOpened shows the Studio and tells the listener the open project.
Opened(p) ==
    /\ project' = p /\ chosen' = None
    /\ page' = "Studio" /\ calling' = <<"opened", p>>

HandleOpened ==
    /\ Receive("opened")
    /\ busy' = FALSE
    /\ IF ~Received.ok THEN UNCHANGED <<project, chosen, offered, page, calling>>
       ELSE /\ offered' = Received.sessions
            /\ IF Received.sessions = {} THEN Opened(Received.package)
               ELSE /\ chosen' = Received.package /\ page' = "Recovery"
                    /\ UNCHANGED <<project, calling>>
    /\ UNCHANGED <<rowVars, takeVars, jobs, engineVars>>

HandleRecovered ==
    /\ Receive("recovered")
    /\ busy' = FALSE
    /\ IF ~Received.ok THEN UNCHANGED <<project, chosen, offered, page, calling>>
       ELSE Opened(chosen) /\ offered' = {}
    /\ UNCHANGED <<rowVars, takeVars, jobs, engineVars>>

-----------------------------------------------------------------------------
(* LiveRecordingController: a take. *)

\* A recording command goes to the package open now; with none it fails by
\* a timer.  "rest" is what the inbox holds without the event handled.
Persist(kind, answer, s, rest) ==
    IF project = None
    THEN inbox' = Append(rest, Event(answer, None, {s}, FALSE)) /\ UNCHANGED jobs
    ELSE jobs' = Append(jobs, Job(kind, project, s)) /\ inbox' = rest

\* Mutant: a take may start while the last one is being stored.
StartRecordingEarly(s) ==
    /\ GuiFree /\ page = "Studio" /\ project # None /\ op \in {"Idle", "Finalizing"}
    /\ state[s] = "none" /\ take[s] = "none"
    /\ op' = "Preparing" /\ pending' = s /\ take' = [take EXCEPT ![s] = "asked"]
    /\ Persist("begin", "begun", s, inbox)
    /\ UNCHANGED <<state, home, finishing, asked, calling, projectVars, engineVars>>

StartRecording(s) ==
    /\ GuiFree /\ page = "Studio" /\ project # None /\ op = "Idle"
    /\ state[s] = "none" /\ take[s] = "none"
    /\ op' = "Preparing" /\ pending' = s /\ take' = [take EXCEPT ![s] = "asked"]
    /\ Persist("begin", "begun", s, inbox)
    /\ UNCHANGED <<state, home, finishing, asked, calling, projectVars, engineVars>>

HandleBegun ==
    /\ Receive("begun")
    /\ IF op # "Preparing" \/ ~IsFor(pending) THEN UNCHANGED <<op, pending, calling>>
       ELSE IF Received.ok THEN calling' = <<"prepare", pending>> /\ UNCHANGED <<op, pending>>
       ELSE op' = "Idle" /\ pending' = None /\ UNCHANGED calling
    /\ UNCHANGED <<rowVars, finishing, asked, projectVars, jobs, engineVars>>

\* The take could not be prepared or started; its session is to be aborted.
AbortStarted(rest) ==
    /\ Persist("abort", "aborted", pending, rest)
    /\ UNCHANGED <<take, op, engineVars>>

StartEngine(rest) ==
    \/ /\ engine \in {"idle", "stopped"}
       /\ engine' = "running" /\ run' = pending
       /\ op' = "Recording" /\ take' = [take EXCEPT ![pending] = "ran"]
       /\ inbox' = rest /\ UNCHANGED jobs
    \/ AbortStarted(rest)

\* handlePreparationFinished()
FinishPreparation(s, ok, rest) ==
    /\ IF op # "Preparing" \/ pending # s
       THEN inbox' = rest /\ UNCHANGED <<take, op, jobs, engineVars>>
       ELSE IF ok THEN StartEngine(rest) ELSE AbortStarted(rest)
    /\ UNCHANGED <<state, home, pending, finishing, projectVars>>

\* Mutant: a stop ends the take at once.
StopRecordingAtOnce ==
    /\ GuiFree /\ page = "Studio" /\ op = "Recording"
    /\ op' = "Idle" /\ pending' = None
    /\ engine' = IF engine = "running" THEN "stopping" ELSE engine
    /\ UNCHANGED <<rowVars, finishing, asked, calling, projectVars, jobs, inbox, run>>

StopRecording ==
    /\ GuiFree /\ page = "Studio" /\ op = "Recording"
    /\ op' = "Finalizing"
    /\ engine' = IF engine = "running" THEN "stopping" ELSE engine
    /\ UNCHANGED <<rowVars, pending, finishing, asked, calling, projectVars, jobs, inbox, run>>

\* A source or a track fails, and the engine stops the others.
EngineFails ==
    /\ engine = "running" /\ engine' = "stopping"
    /\ UNCHANGED <<rowVars, takeVars, calling, projectVars, jobs, inbox, run>>

\* The last track has reported; the result is posted to the GUI thread.
EngineFinishes ==
    /\ engine = "stopping" /\ engine' = "stopped"
    /\ inbox' = Append(inbox, Event("finished", None, {run}, TRUE))
    /\ UNCHANGED <<rowVars, takeVars, calling, projectVars, jobs, run>>

\* Mutant: the session is aborted whatever the engine says.
HandleFinishedAborting ==
    /\ IsNext("finished")
    /\ op' = "Finalizing"
    /\ Persist("abort", "aborted", pending, Tail(inbox))
    /\ UNCHANGED <<rowVars, pending, finishing, asked, calling, projectVars, engineVars>>

\* The engine answers with the error of a track inside its result, so its
\* result is always one to complete.
HandleFinished ==
    /\ IsNext("finished")
    /\ IF op \notin {"Recording", "Finalizing"} \/ ~IsFor(pending)
       THEN inbox' = Tail(inbox) /\ UNCHANGED <<op, finishing, jobs>>
       ELSE /\ op' = "Finalizing" /\ finishing' = Received.ok
            /\ IF Received.ok THEN Persist("complete", "completed", pending, Tail(inbox))
                              ELSE Persist("abort", "aborted", pending, Tail(inbox))
    /\ UNCHANGED <<rowVars, pending, asked, calling, projectVars, engineVars>>

\* The answer of the store ends the take; only a success is announced.
\* Mutants: a refusal is announced, too; or it leaves the take as it is.
EndTakeAnnouncing(signal) ==
    /\ op' = "Idle" /\ pending' = None /\ finishing' = FALSE
    /\ calling' = <<signal, pending>>
EndTakeIfStored(signal) ==
    IF Received.ok
    THEN op' = "Idle" /\ pending' = None /\ finishing' = FALSE /\ calling' = <<signal, pending>>
    ELSE UNCHANGED <<op, pending, finishing, calling>>

EndTake(signal) ==
    /\ op' = "Idle" /\ pending' = None /\ finishing' = FALSE
    /\ calling' = IF Received.ok THEN <<signal, pending>> ELSE <<>>

HandleCompleted ==
    /\ Receive("completed")
    /\ IF op = "Finalizing" /\ finishing /\ IsFor(pending) THEN EndTake("committed")
       ELSE UNCHANGED <<op, pending, finishing, calling>>
    /\ UNCHANGED <<rowVars, asked, projectVars, jobs, engineVars>>

HandleAborted ==
    /\ Receive("aborted")
    /\ IF IsFor(pending) THEN EndTake("aborted") ELSE UNCHANGED <<op, pending, finishing, calling>>
    /\ UNCHANGED <<rowVars, asked, projectVars, jobs, engineVars>>

-----------------------------------------------------------------------------

ProjectUser ==
    \/ \E p \in Packages : OpenProject(p)
    \/ \E s \in Sessions : RecoverSession(s)
    \/ LeaveRecoveryForLater
    \/ \E to \in {"Home", "Studio"} : Navigate(to)

TakeUser == StopRecording \/ \E s \in Sessions : StartRecording(s)

EventLoop ==
    \/ HandleScanned \/ HandleOpened \/ HandleRecovered
    \/ HandleBegun \/ HandleFinished \/ HandleCompleted \/ HandleAborted

\* A listener that prepares a take in its own time and only hears the rest.
ListenerHears ==
    /\ calling # <<>> /\ calling' = <<>>
    /\ asked' = IF calling[1] = "prepare" THEN calling[2] ELSE asked
    /\ UNCHANGED <<rowVars, op, pending, finishing, projectVars, jobs, inbox, engineVars>>

ListenerPrepared(ok) ==
    /\ GuiFree /\ asked # None /\ asked' = None
    /\ FinishPreparation(asked, ok, inbox)
    /\ UNCHANGED calling

Listener == ListenerHears \/ \E ok \in BOOLEAN : ListenerPrepared(ok)

Next ==
    \/ ProjectWorker \/ EventLoop \/ Listener
    \/ ProjectUser \/ TakeUser \/ EngineFails \/ EngineFinishes

Spec == Init /\ [][Next]_vars

\* The worker, the event loop and the listener go on, and a stopped engine
\* finishes (MultiTrackRecording!StopIsAnswered).  The user owes nothing.
Fairness ==
    WF_vars(ProjectWorker) /\ WF_vars(EventLoop) /\ WF_vars(Listener) /\ WF_vars(EngineFinishes)
FairSpec == Spec /\ Fairness

-----------------------------------------------------------------------------
(* Properties *)

\* What travels between the two threads: a job names the open package and, but for an
\* opening, the session it settles; an answer names that session, or those found interrupted.
JobsSent ==
    [kind : {"scan"}, package : {None}, session : {None}]
    \cup [kind : {"open"}, package : Packages, session : {None}]
    \cup [kind : {"begin", "complete", "abort", "recover"}, package : Packages, session : Sessions]
EventsPosted ==
    [kind : {"scanned"}, package : {None}, sessions : SUBSET Sessions, ok : {TRUE}]
    \cup [kind : {"opened"}, package : Packages, sessions : SUBSET Sessions, ok : BOOLEAN]
    \cup [kind : {"begun", "completed", "aborted", "recovered"}, package : Packages,
          sessions : {{s} : s \in Sessions}, ok : BOOLEAN]
    \cup [kind : {"finished"}, package : {None}, sessions : {{s} : s \in Sessions}, ok : {TRUE}]
CallsMade ==
    {<<>>} \cup ({"opened"} \X Packages) \cup ({"prepare", "committed", "aborted"} \X Sessions)

TypeOK ==
    /\ jobs \in Seq(JobsSent) /\ inbox \in Seq(EventsPosted) /\ calling \in CallsMade
    /\ state \in [Sessions -> {"none", "RECORDING", "COMPLETED", "ABORTED", "RECOVERED"}]
    /\ home \in [Sessions -> Packages \cup {None}]
    /\ take \in [Sessions -> {"none", "asked", "ran"}]
    /\ op \in {"Idle", "Preparing", "Recording", "Finalizing"}
    /\ pending \in Sessions \cup {None} /\ asked \in Sessions \cup {None}
    /\ finishing \in BOOLEAN /\ busy \in BOOLEAN
    /\ project \in Packages \cup {None} /\ chosen \in Packages \cup {None}
    /\ offered \subseteq Sessions /\ page \in {"Home", "Studio", "Recovery"}
    /\ engine \in {"idle", "running", "stopping", "stopped"} /\ run \in Sessions \cup {None}

\* No answer is ever discarded: whatever is on its way to the controller
\* (LiveRecordingController.cpp:177-403) is for the take it waits for, in the
\* state in which it waits for it.
Expects ==
    [begun |-> {"Preparing"}, aborted |-> {"Preparing"},
     finished |-> {"Recording", "Finalizing"}, completed |-> {"Finalizing"}]
AnswersAreExpected ==
    \A e \in Range(inbox) :
        e.kind \in DOMAIN Expects => e.sessions = {pending} /\ op \in Expects[e.kind]

\* A take in preparation finds the engine free (FfmpegLiveRecordingEngine.cpp:
\* 428-434 would refuse it), and a run that still records or stops is the run
\* of the take on display.
EngineIsFree ==
    /\ op \in {"Idle", "Preparing"} => engine \in {"idle", "stopped"}
    /\ engine \in {"running", "stopping"} => run = pending

\* Whatever was recorded can still be had: a session whose engine ran is never
\* marked ABORTED, which no recovery would offer (SqliteProjectDatabase.cpp:847).
RecordedIsKept == \A s \in Sessions : take[s] = "ran" => state[s] \notin {"none", "ABORTED"}

\* What is announced is durable: recordingCommitted and recordingAborted follow
\* the transaction of the worker (LiveRecordingController.cpp:306 and 401).
AnnouncedIsDurable ==
    /\ calling # <<>> /\ calling[1] = "committed" => state[calling[2]] = "COMPLETED"
    /\ calling # <<>> /\ calling[1] = "aborted" => state[calling[2]] = "ABORTED"

\* One thing at a time is under way for a take: its job, the answer to it, the preparation or
\* the engine's run; and one for the project page, which is busy as long as it is.
Has(queue, kinds) == \E i \in 1 .. Len(queue) : queue[i].kind \in kinds
OnlyOne(queue, kinds) ==
    \A i, j \in 1 .. Len(queue) : queue[i].kind \in kinds /\ queue[j].kind \in kinds => i = j
Calls(what) == calling # <<>> /\ calling[1] \in what
TakeJobs == {"begin", "complete", "abort"}
TakeAnswers == DOMAIN Expects
TakeTravels == Has(jobs, TakeJobs) \/ Has(inbox, TakeAnswers)
PageJobs == {"open", "recover"}
PageAnswers == {"opened", "recovered"}

OneUnderWay ==
    /\ OnlyOne(jobs, TakeJobs) /\ OnlyOne(inbox, TakeAnswers)
    /\ Has(jobs, TakeJobs) => ~Has(inbox, TakeAnswers)
    /\ TakeTravels => asked = None /\ ~Calls({"prepare"}) /\ engine \in {"idle", "stopped"}
    /\ Calls({"prepare"}) => asked = None
    /\ OnlyOne(jobs, PageJobs) /\ OnlyOne(inbox, PageAnswers)
    /\ Has(jobs, PageJobs) => ~Has(inbox, PageAnswers)
    /\ Has(jobs, PageJobs) \/ Has(inbox, PageAnswers) => busy

\* What is under way is for the take on display, in the state that goes with it, and a
\* favourable answer is still true of the row when it is heard.
InRow(s) == state[s] \in {"RECORDING", "RECOVERED"}
TakeKeeps ==
    /\ op = "Idle" <=> pending = None
    /\ op # "Idle" => project # None
    /\ op = "Preparing" => take[pending] = "asked"
    /\ asked # None => op = "Preparing" /\ asked = pending /\ InRow(pending)
    /\ Calls({"prepare"}) => op = "Preparing" /\ calling[2] = pending /\ InRow(pending)
    /\ Calls({"committed", "aborted"}) => op = "Idle"
    /\ \A j \in Range(jobs) : j.kind \in TakeJobs =>
           /\ j.session = pending
           /\ IF j.kind = "complete" THEN op = "Finalizing" /\ finishing ELSE op = "Preparing"
    /\ \A e \in Range(inbox) :
           /\ e.kind = "begun" /\ e.ok => InRow(pending)
           /\ e.kind = "completed" => finishing /\ (e.ok => state[pending] = "COMPLETED")
           /\ e.kind = "aborted" /\ e.ok => state[pending] = "ABORTED"

\* A recovery on its way has a project to open, and the scan of the start is answered before
\* anything else (ProjectController.cpp:46-80).
PageKeeps ==
    /\ page = "Recovery" /\ project # None => chosen # None
    /\ Has(jobs, {"recover"}) \/ Has(inbox, {"recovered"}) => chosen # None
    /\ \A s \in offered : home[s] # None
    /\ \A e \in Range(inbox) :
           e.kind \in {"scanned", "opened"} => \A s \in e.sessions : home[s] # None
    /\ \A i \in 1 .. Len(jobs) : jobs[i].kind = "scan" => i = 1 /\ inbox = <<>> /\ project = None
    /\ \A i \in 1 .. Len(inbox) : inbox[i].kind = "scanned" => i = 1 /\ project = None

\* Together: no answer of a worker is lost or misread, the next take finds the
\* engine free, and what was recorded and announced is in the store.
TakesInv ==
    /\ AnswersAreExpected /\ EngineIsFree /\ RecordedIsKept /\ AnnouncedIsDurable
    /\ OneUnderWay /\ TakeKeeps /\ PageKeeps

\* A project once open is never closed: recoveryFinished moves pendingProject_
\* into project_ (ProjectController.cpp:66), which would close the project if it
\* were empty; the pages see to it that it is not.
ProjectStaysOpen == [][project # None => project' # None]_vars

\* Preparing and Finalizing end (isBusy() closes every tab while they last), and
\* meanwhile the project of the take stays open.
PreparationEnds == op = "Preparing" ~> op # "Preparing"
FinalizationEnds == op = "Finalizing" ~> op = "Idle"
TakesEnd == ProjectStaysOpen /\ PreparationEnds /\ FinalizationEnds

\* docs r0-02 8.3, lines 285-286: a start that fails leaves the session ABORTED.
Settled == calling = <<>> /\ inbox = <<>> /\ jobs = <<>> /\ op = "Idle"
FailedStartIsAborted ==
    Settled => \A s \in Sessions : take[s] = "asked" => state[s] \in {"none", "ABORTED"}
=============================================================================
