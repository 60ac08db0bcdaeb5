------------------------- MODULE MultiTrackRecording -------------------------
(***************************************************************************)
(* One recording of several sources: app/MultiTrackRecordingService over   *)
(* one AsyncTrackRecorder per source.                                      *)
(*                                                                         *)
(* Four kinds of thread meet in the service: the thread that starts it,    *)
(* one capture thread per source that submits media and reports capture    *)
(* errors, one worker per track that reports its track complete, and the   *)
(* callers of stopAsync.  The service decides under its mutex what has to  *)
(* stop, and calls the recorders and the completions after unlocking; each *)
(* of these calls is a step of its own.                                    *)
(*                                                                         *)
(* A recorder is what TrackRecorder promises of it: it takes media while   *)
(* Running, and once asked to stop, or on an error of its own, it becomes  *)
(* Stopped and then calls onTrackCompleted once.                           *)
(***************************************************************************)
EXTENDS Integers, FiniteSets

CONSTANTS
    TrackCount,      \* entries_.size(): sources recorded together
    Callers          \* threads that call stopAsync with a completion

ASSUME ServiceAssumption ==
    /\ TrackCount \in Nat \ {0}
    /\ "observer" \notin Callers

Tracks == 1 .. TrackCount

VARIABLES
    state,           \* state_
    terminalError,   \* terminalError_: what failed first
    finalResult,     \* finalResult_
    observer,        \* is completionObserver_ set
    waiting,         \* callers in stopCompletions_
    started,         \* track -> entries_[i].started
    completed,       \* track -> entries_[i].completed
    summary,         \* track -> has entries_[i].summary
    recorder,        \* track -> state of its AsyncTrackRecorder
    fault,           \* track -> the recorder latched an error of its own
    fed,             \* track -> the recorder was given a medium
    starter,         \* where the starting thread is in start()
    position,        \* the entry it is at
    starterStops,    \* recorders it still has to stop
    capture,         \* track -> where its capture thread is in accept()/fail()
    captureStops,    \* track -> recorders that capture thread has to stop
    worker,          \* track -> where its worker is in onTrackCompleted()
    workerStops,     \* track -> recorders that worker has to stop
    callerStops,     \* caller -> recorders it has to stop
    registered,      \* observeCompletion was called
    deliverTo,       \* completions moved out by finishIfReadyLocked, not yet called
    deliverObserver, \* the observer was moved out and not yet called
    answer,          \* history: caller -> result its completion was called with
    observed         \* history: number of times the observer was called

entryVars == <<started, completed, summary>>
recorderVars == <<recorder, fault, fed>>
starterVars == <<starter, position, starterStops>>
captureVars == <<capture, captureStops>>
workerVars == <<worker, workerStops>>
deliveryVars == <<deliverTo, deliverObserver>>
replyVars == <<registered, answer, observed>>
decisionVars == <<state, terminalError, finalResult, observer, waiting>>
vars == <<decisionVars, entryVars, recorderVars, starterVars, captureVars, workerVars,
          callerStops, deliveryVars, replyVars>>

-----------------------------------------------------------------------------

Init ==
    /\ state = "Idle" /\ terminalError = "none" /\ finalResult = "none"
    /\ observer = FALSE /\ waiting = {}
    /\ started = [t \in Tracks |-> FALSE]
    /\ completed = [t \in Tracks |-> FALSE]
    /\ summary = [t \in Tracks |-> FALSE]
    /\ recorder = [t \in Tracks |-> "Idle"]
    /\ fault = [t \in Tracks |-> FALSE]
    /\ fed = [t \in Tracks |-> FALSE]
    /\ starter = "idle" /\ position = 1 /\ starterStops = {}
    /\ capture = [t \in Tracks |-> "idle"] /\ captureStops = [t \in Tracks |-> {}]
    /\ worker = [t \in Tracks |-> "idle"] /\ workerStops = [t \in Tracks |-> {}]
    /\ callerStops = [c \in Callers |-> {}]
    /\ deliverTo = {} /\ deliverObserver = FALSE
    /\ registered = FALSE /\ answer = [c \in Callers |-> "none"] /\ observed = 0

\* The tracks a stop decision has to reach: collected under the mutex.
Active == {t \in Tracks : started[t] /\ ~completed[t]}

\* Mutant: a stopped recorder is made to stop again.
StopRecorderAlways(t) ==
    recorder' = IF recorder[t] # "Idle"
                THEN [recorder EXCEPT ![t] = "Stopping"] ELSE recorder

\* recorder->stopAsync(): an idle or stopped recorder ignores it.
StopRecorder(t) ==
    recorder' = IF recorder[t] \in {"Running", "Stopping"}
                THEN [recorder EXCEPT ![t] = "Stopping"] ELSE recorder

\* Mutant: the completions are copied out and kept.
FinishIfReadyCopies(newState, newCompleted, newError, newWaiting) ==
    IF newState = "Stopping" /\ \A t \in Tracks : newCompleted[t]
    THEN /\ state' = "Stopped"
         /\ finalResult' = IF newError = "none" THEN "ok" ELSE "error"
         /\ deliverTo' = newWaiting /\ waiting' = newWaiting
         /\ deliverObserver' = observer /\ observer' = FALSE
    ELSE /\ state' = newState /\ waiting' = newWaiting
         /\ UNCHANGED <<finalResult, deliverTo, deliverObserver, observer>>

\* finishIfReadyLocked(), on the values the critical section leaves behind.
FinishIfReady(newState, newCompleted, newError, newWaiting) ==
    IF newState = "Stopping" /\ \A t \in Tracks : newCompleted[t]
    THEN /\ state' = "Stopped"
         /\ finalResult' = IF newError = "none" THEN "ok" ELSE "error"
         /\ deliverTo' = newWaiting /\ waiting' = {}
         /\ deliverObserver' = observer /\ observer' = FALSE
    ELSE /\ state' = newState /\ waiting' = newWaiting
         /\ UNCHANGED <<finalResult, deliverTo, deliverObserver, observer>>

\* Mutant: the last error replaces the first.
LastError(error) == error

FirstError(error) == IF terminalError = "none" THEN error ELSE terminalError

-----------------------------------------------------------------------------
(* start(): the state is Running before any recorder is. *)

BeginStart ==
    /\ starter = "idle" /\ state = "Idle"
    /\ state' = "Running" /\ starter' = "start"
    /\ UNCHANGED <<terminalError, finalResult, observer, waiting, entryVars,
                   recorderVars, position, starterStops, captureVars, workerVars,
                   callerStops, deliveryVars, replyVars>>

StartRecorder ==
    /\ starter = "start" /\ position <= TrackCount
    /\ recorder' = [recorder EXCEPT ![position] = "Running"]
    /\ starter' = "mark"
    /\ UNCHANGED <<decisionVars, entryVars, fault, fed, position, starterStops,
                   captureVars, workerVars, callerStops, deliveryVars, replyVars>>

MarkStarted ==
    /\ starter = "mark"
    /\ started' = [started EXCEPT ![position] = TRUE]
    /\ position' = position + 1
    /\ starter' = IF position = TrackCount THEN "returned" ELSE "start"
    /\ UNCHANGED <<decisionVars, completed, summary, recorderVars, starterStops,
                   captureVars, workerVars, callerStops, deliveryVars, replyVars>>

\* Mutant: the entries to stop are counted from 0.
StartFailsOffByOne ==
    /\ starter = "start" /\ position <= TrackCount
    /\ terminalError' = "start"
    /\ completed' = [t \in Tracks |-> completed[t] \/ t >= position]
    /\ FinishIfReady("Stopping", completed', "start", waiting)
    /\ starterStops' = 0 .. (position - 1)
    /\ starter' = "unwind"
    /\ UNCHANGED <<started, summary, recorderVars, position, captureVars, workerVars,
                   callerStops, replyVars>>

\* A recorder does not start: this one and the later ones count as completed,
\* the earlier ones are stopped.
StartFails ==
    /\ starter = "start" /\ position <= TrackCount
    /\ terminalError' = "start"
    /\ completed' = [t \in Tracks |-> completed[t] \/ t >= position]
    /\ FinishIfReady("Stopping", completed', "start", waiting)
    /\ starterStops' = 1 .. (position - 1)
    /\ starter' = "unwind"
    /\ UNCHANGED <<started, summary, recorderVars, position, captureVars, workerVars,
                   callerStops, replyVars>>

UnwindStop(t) ==
    /\ starter = "unwind" /\ t \in starterStops
    /\ StopRecorder(t)
    /\ starterStops' = starterStops \ {t}
    /\ UNCHANGED <<decisionVars, entryVars, fault, fed, starter, position, captureVars,
                   workerVars, callerStops, deliveryVars, replyVars>>

\* start() returns its error; the engine then lets no media in.
UnwindReturns ==
    /\ starter = "unwind" /\ starterStops = {}
    /\ starter' = "failed"
    /\ UNCHANGED <<decisionVars, entryVars, recorderVars, position, starterStops,
                   captureVars, workerVars, callerStops, deliveryVars, replyVars>>

-----------------------------------------------------------------------------
(* accept() and fail() of the capture thread of track t.  The engine lets    *)
(* media in only after start() has returned (FfmpegLiveRecordingEngine.cpp,  *)
(* lines 527-535).                                                           *)

\* accept(): the service is Running; the recorder is called after unlocking.
Route(t) ==
    /\ starter = "returned" /\ capture[t] = "idle" /\ state = "Running"
    /\ capture' = [capture EXCEPT ![t] = "routed"]
    /\ UNCHANGED <<decisionVars, entryVars, recorderVars, starterVars, captureStops,
                   workerVars, callerStops, deliveryVars, replyVars>>

\* The recorder takes the medium ...
Submit(t) ==
    /\ capture[t] = "routed" /\ recorder[t] = "Running"
    /\ fed' = [fed EXCEPT ![t] = TRUE]
    /\ capture' = [capture EXCEPT ![t] = "idle"]
    /\ UNCHANGED <<decisionVars, entryVars, recorder, fault, starterVars, captureStops,
                   workerVars, callerStops, deliveryVars, replyVars>>

\* ... or its audio queue overflows, which is a terminal error of the track ...
SubmitOverflows(t) ==
    /\ capture[t] = "routed" /\ recorder[t] = "Running"
    /\ recorder' = [recorder EXCEPT ![t] = "Stopping"]
    /\ fault' = [fault EXCEPT ![t] = TRUE]
    /\ capture' = [capture EXCEPT ![t] = "refused"]
    /\ UNCHANGED <<decisionVars, entryVars, fed, starterVars, captureStops, workerVars,
                   callerStops, deliveryVars, replyVars>>

\* ... or it has stopped taking media since Route.
SubmitRefused(t) ==
    /\ capture[t] = "routed" /\ recorder[t] # "Running"
    /\ capture' = [capture EXCEPT ![t] = "refused"]
    /\ UNCHANGED <<decisionVars, entryVars, recorderVars, starterVars, captureStops,
                   workerVars, callerStops, deliveryVars, replyVars>>

\* Mutant: the track that failed is not among those to stop.
LatchFailureOthers(t, error) ==
    /\ terminalError' = FirstError(error)
    /\ IF state = "Running"
       THEN state' = "Stopping" /\ captureStops' = [captureStops EXCEPT ![t] = Active \ {t}]
       ELSE UNCHANGED <<state, captureStops>>
    /\ capture' = [capture EXCEPT ![t] = "stopping"]
    /\ UNCHANGED <<finalResult, observer, waiting, entryVars, recorderVars, starterVars,
                   workerVars, callerStops, deliveryVars, replyVars>>

\* latchFailure(): the first error stays; a Running service starts stopping.
LatchFailure(t, error) ==
    /\ terminalError' = FirstError(error)
    /\ IF state = "Running"
       THEN state' = "Stopping" /\ captureStops' = [captureStops EXCEPT ![t] = Active]
       ELSE UNCHANGED <<state, captureStops>>
    /\ capture' = [capture EXCEPT ![t] = "stopping"]
    /\ UNCHANGED <<finalResult, observer, waiting, entryVars, recorderVars, starterVars,
                   workerVars, callerStops, deliveryVars, replyVars>>

RefusalLatched(t) == capture[t] = "refused" /\ LatchFailure(t, "refused")

\* fail(): the capture backend or the clock reports an error of its own.
CaptureFails(t) ==
    /\ starter = "returned" /\ capture[t] = "idle"
    /\ LatchFailure(t, "capture")

CaptureStops(t, u) ==
    /\ capture[t] = "stopping" /\ u \in captureStops[t]
    /\ StopRecorder(u)
    /\ captureStops' = [captureStops EXCEPT ![t] = @ \ {u}]
    /\ UNCHANGED <<decisionVars, entryVars, fault, fed, starterVars, capture, workerVars,
                   callerStops, deliveryVars, replyVars>>

\* accept() or fail() returns.  After its first failure a router is silent: the
\* engine has cleared Run::accepting.
CaptureReturns(t) ==
    /\ capture[t] = "stopping" /\ captureStops[t] = {}
    /\ capture' = [capture EXCEPT ![t] = "silent"]
    /\ UNCHANGED <<decisionVars, entryVars, recorderVars, starterVars, captureStops,
                   workerVars, callerStops, deliveryVars, replyVars>>

-----------------------------------------------------------------------------
(* The recorders and onTrackCompleted(). *)

\* A worker fails on a medium, or on the trailing segment.
RecorderFails(t) ==
    /\ worker[t] = "idle" /\ recorder[t] \in {"Running", "Stopping"} /\ fed[t]
    /\ recorder' = [recorder EXCEPT ![t] = "Stopped"]
    /\ fault' = [fault EXCEPT ![t] = TRUE]
    /\ worker' = [worker EXCEPT ![t] = "reporting"]
    /\ UNCHANGED <<decisionVars, entryVars, fed, starterVars, captureVars, workerStops,
                   callerStops, deliveryVars, replyVars>>

\* A worker asked to stop has drained and closed its track.
RecorderStops(t) ==
    /\ worker[t] = "idle" /\ recorder[t] = "Stopping"
    /\ recorder' = [recorder EXCEPT ![t] = "Stopped"]
    /\ worker' = [worker EXCEPT ![t] = "reporting"]
    /\ UNCHANGED <<decisionVars, entryVars, fault, fed, starterVars, captureVars,
                   workerStops, callerStops, deliveryVars, replyVars>>

\* Mutant: a track that fails does not stop the others.
TrackCompletedAlone(t) ==
    /\ worker[t] = "reporting" /\ ~completed[t]
    /\ completed' = [completed EXCEPT ![t] = TRUE]
    /\ IF ~fault[t]
       THEN /\ summary' = [summary EXCEPT ![t] = TRUE]
            /\ FinishIfReady(state, completed', terminalError, waiting)
            /\ UNCHANGED <<terminalError, workerStops>>
       ELSE /\ terminalError' = FirstError("track")
            /\ IF state = "Running"
               THEN /\ UNCHANGED workerStops
                    /\ FinishIfReady("Stopping", completed', terminalError', waiting)
               ELSE /\ UNCHANGED workerStops
                    /\ FinishIfReady(state, completed', terminalError', waiting)
            /\ UNCHANGED summary
    /\ worker' = [worker EXCEPT ![t] = "stopping"]
    /\ UNCHANGED <<started, recorderVars, starterVars, captureVars, callerStops, replyVars>>

\* onTrackCompleted() with a summary, or with the recorder's error.  An entry
\* that is completed already has no worker: its recorder did not start.
TrackCompleted(t) ==
    /\ worker[t] = "reporting" /\ ~completed[t]
    /\ completed' = [completed EXCEPT ![t] = TRUE]
    /\ IF ~fault[t]
       THEN /\ summary' = [summary EXCEPT ![t] = TRUE]
            /\ FinishIfReady(state, completed', terminalError, waiting)
            /\ UNCHANGED <<terminalError, workerStops>>
       ELSE /\ terminalError' = FirstError("track")
            /\ IF state = "Running"
               THEN /\ workerStops' = [workerStops EXCEPT ![t] = Active \ {t}]
                    /\ FinishIfReady("Stopping", completed', terminalError', waiting)
               ELSE /\ UNCHANGED workerStops
                    /\ FinishIfReady(state, completed', terminalError', waiting)
            /\ UNCHANGED summary
    /\ worker' = [worker EXCEPT ![t] = "stopping"]
    /\ UNCHANGED <<started, recorderVars, starterVars, captureVars, callerStops, replyVars>>

WorkerStops(t, u) ==
    /\ worker[t] = "stopping" /\ u \in workerStops[t]
    /\ StopRecorder(u)
    /\ workerStops' = [workerStops EXCEPT ![t] = @ \ {u}]
    /\ UNCHANGED <<decisionVars, entryVars, fault, fed, starterVars, captureVars, worker,
                   callerStops, deliveryVars, replyVars>>

WorkerReturns(t) ==
    /\ worker[t] = "stopping" /\ workerStops[t] = {}
    /\ worker' = [worker EXCEPT ![t] = "exited"]
    /\ UNCHANGED <<decisionVars, entryVars, recorderVars, starterVars, captureVars,
                   workerStops, callerStops, deliveryVars, replyVars>>

-----------------------------------------------------------------------------
(* stopAsync(), observeCompletion() and deliver(). *)

\* Before start() or after the end the answer is immediate.
StopAsync(c) ==
    /\ starter \in {"idle", "returned", "failed"} /\ answer[c] = "none"
    /\ c \notin waiting \cup deliverTo
    /\ \/ /\ state = "Idle"
          /\ answer' = [answer EXCEPT ![c] = "unstarted"]
          /\ UNCHANGED <<decisionVars, callerStops, deliveryVars>>
       \/ /\ state = "Stopped"
          /\ answer' = [answer EXCEPT ![c] = finalResult]
          /\ UNCHANGED <<decisionVars, callerStops, deliveryVars>>
       \/ /\ state \in {"Running", "Stopping"}
          /\ callerStops' = [callerStops EXCEPT ![c] = Active]
          /\ FinishIfReady("Stopping", completed, terminalError, waiting \cup {c})
          /\ UNCHANGED <<terminalError, answer>>
    /\ UNCHANGED <<entryVars, recorderVars, starterVars, captureVars, workerVars,
                   registered, observed>>

CallerStops(c, t) ==
    /\ t \in callerStops[c]
    /\ StopRecorder(t)
    /\ callerStops' = [callerStops EXCEPT ![c] = @ \ {t}]
    /\ UNCHANGED <<decisionVars, entryVars, fault, fed, starterVars, captureVars,
                   workerVars, deliveryVars, replyVars>>

Observe ==
    /\ starter \in {"idle", "returned", "failed"} /\ ~registered
    /\ registered' = TRUE /\ observer' = TRUE
    /\ observed' = IF state = "Stopped" THEN observed + 1 ELSE observed
    /\ UNCHANGED <<state, terminalError, finalResult, waiting, entryVars, recorderVars,
                   starterVars, captureVars, workerVars, callerStops, deliveryVars, answer>>

\* deliver(): the observer first, then the completions.
DeliverObserver ==
    /\ deliverObserver
    /\ deliverObserver' = FALSE /\ observed' = observed + 1
    /\ UNCHANGED <<decisionVars, entryVars, recorderVars, starterVars, captureVars,
                   workerVars, callerStops, deliverTo, registered, answer>>

DeliverCompletion(c) ==
    /\ ~deliverObserver /\ c \in deliverTo
    /\ deliverTo' = deliverTo \ {c}
    /\ answer' = [answer EXCEPT ![c] = finalResult]
    /\ UNCHANGED <<decisionVars, entryVars, recorderVars, starterVars, captureVars,
                   workerVars, callerStops, deliverObserver, registered, observed>>

-----------------------------------------------------------------------------

StarterStep ==
    StartRecorder \/ MarkStarted \/ StartFails \/ UnwindReturns
        \/ (\E t \in Tracks : UnwindStop(t))
CaptureStep(t) ==
    Submit(t) \/ SubmitOverflows(t) \/ SubmitRefused(t) \/ RefusalLatched(t)
        \/ CaptureReturns(t) \/ (\E u \in Tracks : CaptureStops(t, u))
WorkerStep(t) ==
    RecorderStops(t) \/ TrackCompleted(t) \/ WorkerReturns(t)
        \/ (\E u \in Tracks : WorkerStops(t, u))
CallerStep(c) == (\E t \in Tracks : CallerStops(c, t)) \/ DeliverCompletion(c)

\* What has begun and has to go on.
Progress ==
    \/ StarterStep \/ DeliverObserver
    \/ \E t \in Tracks : CaptureStep(t) \/ WorkerStep(t)
    \/ \E c \in Callers : CallerStep(c)

\* What the user, the sources and the disk may do.
Environment ==
    \/ BeginStart \/ Observe
    \/ \E t \in Tracks : Route(t) \/ CaptureFails(t) \/ RecorderFails(t)
    \/ \E c \in Callers : StopAsync(c)

\* Every call of the service has returned.
Terminated ==
    /\ state = "Stopped" /\ starter \in {"returned", "failed"}
    /\ \A t \in Tracks : capture[t] \in {"idle", "silent"} /\ worker[t] \in {"idle", "exited"}
    /\ deliverTo = {} /\ ~deliverObserver /\ \A c \in Callers : callerStops[c] = {}
    /\ UNCHANGED vars

Next == Progress \/ Environment \/ Terminated

Spec == Init /\ [][Next]_vars

\* Every thread inside a call of the service is scheduled.
Fairness ==
    /\ WF_vars(StarterStep) /\ WF_vars(DeliverObserver)
    /\ \A t \in Tracks : WF_vars(CaptureStep(t)) /\ WF_vars(WorkerStep(t))
    /\ \A c \in Callers : WF_vars(CallerStep(c))

FairSpec == Spec /\ Fairness

-----------------------------------------------------------------------------

TypeOK ==
    /\ state \in {"Idle", "Running", "Stopping", "Stopped"}
    /\ terminalError \in {"none", "start", "refused", "capture", "track"}
    /\ finalResult \in {"none", "ok", "error"}
    /\ observer \in BOOLEAN /\ waiting \subseteq Callers
    /\ started \in [Tracks -> BOOLEAN] /\ completed \in [Tracks -> BOOLEAN]
    /\ summary \in [Tracks -> BOOLEAN]
    /\ recorder \in [Tracks -> {"Idle", "Running", "Stopping", "Stopped"}]
    /\ fault \in [Tracks -> BOOLEAN] /\ fed \in [Tracks -> BOOLEAN]
    /\ starter \in {"idle", "start", "mark", "unwind", "returned", "failed"}
    /\ position \in 1 .. TrackCount + 1 /\ starterStops \subseteq Tracks
    /\ capture \in [Tracks -> {"idle", "routed", "refused", "stopping", "silent"}]
    /\ captureStops \in [Tracks -> SUBSET Tracks]
    /\ worker \in [Tracks -> {"idle", "reporting", "stopping", "exited"}]
    /\ workerStops \in [Tracks -> SUBSET Tracks]
    /\ callerStops \in [Callers -> SUBSET Tracks]
    /\ registered \in BOOLEAN
    /\ deliverTo \subseteq Callers /\ deliverObserver \in BOOLEAN
    /\ answer \in [Callers -> {"none", "unstarted", "ok", "error"}]
    /\ observed \in Nat

Live == {t \in Tracks : recorder[t] \in {"Running", "Stopping"}}

\* When the service says Stopped, and so before anybody is told a result, no
\* recorder is writing any more: the session that finishRun() reads next
\* (FfmpegLiveRecordingEngine.cpp:325) is complete.
StoppedMeansNothingLive == state = "Stopped" => Live = {}

\* A successful result means a summary from every source recorded: none is left
\* out because it failed, never started, or was skipped.
OkMeansEveryTrack == finalResult = "ok" => \A t \in Tracks : summary[t] /\ ~fault[t]

Targeted(t) ==
    \/ t \in starterStops
    \/ \E u \in Tracks : t \in captureStops[u] \/ t \in workerStops[u]
    \/ \E c \in Callers : t \in callerStops[c]

\* A recorder still running after the service has begun to stop is in the list
\* some thread collected and is about to stop: the lists are collected under
\* the mutex and used after it, and no track falls between two of them.
NoTrackForgotten ==
    state \in {"Stopping", "Stopped"} =>
        \A t \in Tracks : recorder[t] = "Running" => Targeted(t)

\* The facts the threads rely on without holding the mutex, as parts of one
\* inductive invariant.  How far start() has come decides which recorders run:
Starting == starter \in {"idle", "start", "mark"}
Unwinding == starter \in {"unwind", "failed"}

StartOrder ==
    /\ (starter = "idle") <=> (state = "Idle")
    /\ position = TrackCount + 1 <=> starter = "returned"
    /\ \A t \in Tracks :
          /\ started[t] <=> t < position
          /\ recorder[t] = "Idle" <=> t > position \/ (t = position /\ starter # "mark")
    /\ Starting =>
          /\ terminalError = "none" /\ state \in {"Idle", "Running"}
          /\ \A t \in Tracks : /\ ~completed[t] /\ worker[t] = "idle"
                              /\ recorder[t] \in {"Idle", "Running"}
          /\ \A c \in Callers : callerStops[c] = {}
    /\ Unwinding => terminalError = "start" /\ state \in {"Stopping", "Stopped"}
    /\ starter # "returned" => \A t \in Tracks : ~fault[t] /\ ~fed[t] /\ capture[t] = "idle"

\* ... a worker reports after its recorder has stopped, and its report is what
\* completes the entry, with a summary or with an error that is kept:
ReportsOnce ==
    \A t \in Tracks :
        /\ worker[t] = "idle" <=> recorder[t] # "Stopped"
        /\ completed[t] <=> \/ worker[t] \in {"stopping", "exited"}
                            \/ Unwinding /\ t >= position
        /\ summary[t] <=> worker[t] \in {"stopping", "exited"} /\ ~fault[t]
        /\ completed[t] /\ fault[t] => terminalError # "none"

\* ... and what was decided is delivered, to each client once.
DecidedOnce ==
    /\ (finalResult # "none") <=> (state = "Stopped")
    /\ state = "Stopped" => waiting = {} /\ \A t \in Tracks : completed[t]
    /\ state # "Stopped" => deliverTo = {} /\ ~deliverObserver /\ observed = 0
    /\ deliverObserver => observed = 0
    /\ observed <= 1
    /\ ~registered => ~observer /\ ~deliverObserver /\ observed = 0
    /\ \A c \in Callers :
          /\ c \in waiting \cup deliverTo => answer[c] = "none"
          /\ answer[c] \in {"ok", "error"} => answer[c] = finalResult

ServiceInv ==
    StartOrder /\ ReportsOnce /\ DecidedOnce /\ OkMeansEveryTrack /\ NoTrackForgotten

\* Everybody is told the same result and the observer once: "later duplicates
\* are harmless and do not trigger a second completion"
\* (MultiTrackRecordingService.h:57-58).
OneVerdict ==
    /\ observed <= 1
    /\ finalResult = "none" => observed = 0
    /\ \A c \in Callers : answer[c] \notin {"none", "unstarted"} => answer[c] = finalResult

\* "The first failure remains the terminal diagnostic"
\* (MultiTrackRecordingService.h:57), whatever fails after it, and a result
\* once final is not decided again.
FirstFailureKept ==
    [][/\ terminalError # "none" => terminalError' = terminalError
       /\ finalResult # "none" => finalResult' = finalResult]_vars

\* The service carries out a RecordingPromise: its recorders are the tracks, and
\* the completions and the observer the clients.
PhaseOf == [Idle |-> "idle", Running |-> "recording",
            Stopping |-> "closing", Stopped |-> "closed"]
TrackStatus(t) ==
    CASE recorder[t] = "Idle" -> "unopened"
      [] recorder[t] = "Stopped" -> IF fault[t] THEN "failed" ELSE "finished"
      [] OTHER -> "open"

Told == {c \in Callers : answer[c] \in {"ok", "error"}}
            \cup {c \in {"observer"} : observed > 0}

Promise == INSTANCE RecordingPromise WITH
    Clients <- Callers \cup {"observer"},
    phase <- PhaseOf[state],
    track <- [t \in Tracks |-> TrackStatus(t)],
    outcome <- finalResult,
    told <- Told

\* Every behaviour of the threads is one the promise allows: no track opens
\* after the decision to stop, none reopens, nothing is decided while a track is
\* open, and nobody is told before the decision.
KeepsPromise == Promise!Spec

\* The recording ends: whoever asks for a stop is answered, also while a failure
\* stops the tracks, and any failure, of a source, of a queue or of a track, ends
\* the whole recording.
StopIsAnswered == \A c \in Callers : (c \in waiting) ~> (answer[c] # "none")
FailureStopsAll == (terminalError # "none") ~> (state = "Stopped")
RecordingEnds == StopIsAnswered /\ FailureStopsAll
=============================================================================
