---------------------------- MODULE CaptureSources ----------------------------
(***************************************************************************)
(* One capture source between the native callbacks of the operating system *)
(* and the GUI thread that starts and stops it.  The six implementations:  *)
(*                                                                         *)
(*   grab     screen, camera and microphone on Windows: a thread that      *)
(*            reads, and a second one that joins it for stopAsync          *)
(*   loopback system audio on Windows: the same, woken by an event         *)
(*   wgc      screen on Windows, Windows.Graphics.Capture                  *)
(*   stream   screen on macOS, an SCStream                                 *)
(*   session  camera and microphone on macOS, an AVCaptureSession          *)
(*   audio    system audio on macOS, an SCStream found asynchronously      *)
(*                                                                         *)
(* wgc and stream call the sink with their mutex held.  The others take    *)
(* the sink under the mutex and call it afterwards: ringing holds the      *)
(* calls that are between the two.                                         *)
(***************************************************************************)
EXTENDS Naturals, FiniteSets

CONSTANT Completions    \* bound: calls of stopAsync on one source

VARIABLES
    backend,   \* which implementation
    client,    \* what the GUI thread does with the source
    native,    \* what runs below: the worker, the session or the stream
    accepting, \* accepting_, or the negation of stopRequested_
    rung,      \* what the sink has been told: "started", "frame", "error"
    ringing,   \* calls of the sink that have taken it and are not made yet
    closing,   \* how far the native teardown is
    waiting,   \* completions kept by the coordinator or the stop thread
    answered,    \* of each completion: its result
    afterwards       \* history: calls of the sink after stop() returned, or after an answer

sourceVars == <<backend, client, native, accepting, rung, ringing, closing, waiting, answered, afterwards>>

Calls == {"started", "frame", "error"}
UnderLock == {"wgc", "stream"}
Workers == {"grab", "loopback"}
Backends == UnderLock \cup Workers \cup {"session", "audio"}

SourceInit ==
    /\ backend \in Backends
    /\ client = "new" /\ native = "none" /\ accepting = TRUE
    /\ rung = {} /\ ringing = {} /\ closing = "none"
    /\ waiting = {} /\ answered = [c \in Completions |-> "none"]
    /\ afterwards = {}

----------------------------------------------------------------------------
(* The sink                                                                *)

Ring(call) ==
    /\ rung' = rung \cup {call}
    /\ afterwards' = afterwards \cup (IF client = "stopped" THEN {<<"stop", call>>} ELSE {})
                    \cup (IF \E c \in Completions : answered[c] = "ok" THEN {<<"answer", call>>} ELSE {})

\* A call with the mutex held, or the first half of one without.
Call(call) ==
    IF backend \in UnderLock
    THEN Ring(call) /\ UNCHANGED ringing
    ELSE ringing' = ringing \cup {call} /\ UNCHANGED <<rung, afterwards>>

\* The second half.
CallSink(call) ==
    /\ call \in ringing
    /\ ringing' = ringing \ {call}
    /\ Ring(call)
    /\ UNCHANGED <<backend, client, native, accepting, closing, waiting, answered>>

\* The threads calls come from: one worker; the serial queue of a session; the queue and
\* the handlers of a system audio stream.
Free(call) == IF backend = "audio" THEN call \notin ringing ELSE ringing = {}

----------------------------------------------------------------------------
(* The GUI thread                                                          *)

\* The frames of Windows.Graphics.Capture begin within start(), which then tells of it.
StartReturned == client \in {"started", "failed"} /\ (backend = "wgc" => native # "opening")

\* start() may fail at once on the system's own grounds; nothing is left behind.
SourceStart ==
    /\ client = "new"
    /\ \/ client' = "started" /\ native' = "opening"
       \/ backend \notin Workers /\ client' = "failed" /\ UNCHANGED native
    /\ UNCHANGED <<backend, accepting, rung, ringing, closing, waiting, answered, afterwards>>

\* The teardown goes to a thread or a queue; a source that was not started has none.
BeginStop ==
    /\ accepting' = FALSE
    /\ closing' = IF closing = "none" /\ native # "none" THEN "queued" ELSE closing

\* stop() of a worker joins it, or the stop thread if there is one.
SourceStop ==
    /\ StartReturned
    /\ IF backend \in Workers
       THEN client' = "joining" /\ accepting' = FALSE /\ UNCHANGED closing
       ELSE client' = "stopped" /\ BeginStop
    /\ UNCHANGED <<backend, native, rung, ringing, waiting, answered, afterwards>>

SourceJoined ==
    /\ client = "joining"
    /\ IF closing = "none" THEN native \in {"none", "ended"} /\ ringing = {} ELSE closing = "done"
    /\ client' = "stopped"
    /\ UNCHANGED <<backend, native, accepting, rung, ringing, closing, waiting, answered,
                   afterwards>>

StopAsync(c) ==
    /\ StartReturned /\ answered[c] = "none" /\ c \notin waiting
    /\ CASE backend \in Workers /\ closing # "none" ->      \* already in progress
                answered' = [answered EXCEPT ![c] = "error"] /\ UNCHANGED <<waiting, accepting, closing>>
         [] backend \notin Workers /\ (native = "none" \/ closing = "done") ->
                answered' = [answered EXCEPT ![c] = "ok"] /\ UNCHANGED <<waiting, accepting, closing>>
         [] OTHER ->
                /\ waiting' = waiting \cup {c}
                /\ accepting' = FALSE
                /\ closing' = IF closing = "none" THEN "queued" ELSE closing
                /\ UNCHANGED answered
    /\ UNCHANGED <<backend, client, native, rung, ringing, afterwards>>

----------------------------------------------------------------------------
(* The native side                                                         *)

\* What was asked for is open; whether the sink is told, each backend decides for itself.
Open(tells) ==
    /\ native = "opening" /\ Free("started")
    /\ native' = "running"
    /\ IF tells THEN Call("started") ELSE UNCHANGED <<rung, ringing, afterwards>>
    /\ UNCHANGED <<backend, client, accepting, closing, waiting, answered>>

\* The workers tell without a look at stopRequested_.
OpenGrab == backend = "grab" /\ Open(TRUE)
OpenLoopback == backend = "loopback" /\ Open(TRUE)
\* notifyStarted() is the end of start() here, the handler of the stream there.
OpenWgc == backend = "wgc" /\ Open(accepting)
OpenStream == backend = "stream" /\ Open(accepting)
\* A queue that has seen the stop opens nothing.
OpenSession == backend = "session" /\ accepting /\ Open(TRUE)
OpenAudio == backend = "audio" /\ accepting /\ Open(TRUE)

\* Frames may come before the confirmation of the start where the start is asynchronous.
Frame(bs) ==
    /\ backend \in bs /\ accepting /\ Free("frame")
    /\ native = "running" \/ (native = "opening" /\ backend \notin Workers \cup {"session"})
    /\ Call("frame")
    /\ UNCHANGED <<backend, client, native, accepting, closing, waiting, answered>>

DeliverWorker == Frame(Workers)
DeliverLocked == Frame(UnderLock)
DeliverUnlocked == Frame({"session", "audio"})

\* The first error is told and bars what follows.
FailDelivery ==
    /\ backend \notin Workers
    /\ native \in {"opening", "running"} /\ accepting /\ Free("error")
    /\ accepting' = FALSE
    /\ Call("error")
    /\ UNCHANGED <<backend, client, native, closing, waiting, answered>>

\* A worker does not bar, it ends: but not when the error is of one frame (deliver).
FailWorker ==
    /\ backend \in Workers
    /\ native \in {"opening", "running"} /\ Free("error")
    /\ native' \in {"ended"} \cup (IF native = "running" THEN {native} ELSE {})
    /\ IF accepting /\ "error" \notin rung \cup ringing
       THEN Call("error")
       ELSE UNCHANGED <<rung, ringing, afterwards>>
    /\ UNCHANGED <<backend, client, accepting, closing, waiting, answered>>

\* The device of system audio goes: the worker sets stopRequested_ and ends, which is told
\* to nobody.
DeviceLost ==
    /\ backend = "loopback" /\ native = "running" /\ ringing = {}
    /\ accepting' = FALSE
    /\ UNCHANGED <<backend, client, native, rung, ringing, closing, waiting, answered,
                   afterwards>>

\* The worker sees stopRequested_ between two reads.
WorkerEnds ==
    /\ backend \in Workers /\ ~accepting /\ native \in {"opening", "running"} /\ ringing = {}
    /\ native' = "ended"
    /\ UNCHANGED <<backend, client, accepting, rung, ringing, closing, waiting, answered,
                   afterwards>>

\* Mutant: only one of those who wait is answered.
finishFirst(results) ==
    /\ closing = "queued"
    /\ closing' = "done" /\ native' = "ended"
    /\ waiting' = {}
    /\ \E r \in results, c \in waiting : answered' = [answered EXCEPT ![c] = r]
    /\ UNCHANGED <<backend, client, accepting, rung, ringing, afterwards>>

\* finish() of the coordinator, or of the stop thread: one result for all that wait.
finish(results) ==
    /\ closing = "queued"
    /\ closing' = "done" /\ native' = "ended"
    /\ waiting' = {}
    /\ \E r \in results : answered' = [c \in Completions |-> IF c \in waiting THEN r ELSE answered[c]]
    /\ UNCHANGED <<backend, client, accepting, rung, ringing, afterwards>>

\* The stop thread has joined the worker.
CloseWorker == backend \in Workers /\ native \in {"none", "ended"} /\ ringing = {} /\ finish({"ok"})
CloseWgc == backend = "wgc" /\ finish({"ok", "error"})
CloseStream == backend = "stream" /\ finish({"ok", "error"})
\* Mutant of CloseSession: the stop overtakes what rings on the queue.
CloseSessionAtOnce == backend = "session" /\ finish({"ok"})

\* The queue of a session is serial: what rings on it comes first, as do the blocks of a
\* system audio stream.
CloseSession == backend = "session" /\ ringing = {} /\ finish({"ok"})
CloseAudio == backend = "audio" /\ "frame" \notin ringing /\ finish({"ok", "error"})
Close == CloseWorker \/ CloseWgc \/ CloseStream \/ CloseSession \/ CloseAudio

\* The owner lets a stopped source go.
Leave == client = "stopped" /\ UNCHANGED sourceVars

NativeSide ==
    \/ OpenGrab \/ OpenLoopback \/ OpenWgc \/ OpenStream \/ OpenSession \/ OpenAudio
    \/ DeliverWorker \/ DeliverLocked \/ DeliverUnlocked
    \/ FailDelivery \/ FailWorker \/ DeviceLost \/ WorkerEnds
    \/ CloseWorker \/ CloseWgc \/ CloseStream \/ CloseSession \/ CloseAudio
    \/ \E call \in Calls : CallSink(call)

SourceNext ==
    \/ SourceStart \/ SourceStop \/ SourceJoined \/ Leave
    \/ \E c \in Completions : StopAsync(c)
    \/ NativeSide

\* Threads run, queues are emptied, and the system finishes the stop it was asked for.
SourceFairness ==
    /\ WF_sourceVars(WorkerEnds) /\ WF_sourceVars(Close) /\ WF_sourceVars(SourceJoined)
    /\ \A call \in Calls : WF_sourceVars(CallSink(call))

SourceSpec == SourceInit /\ [][SourceNext]_sourceVars /\ SourceFairness

----------------------------------------------------------------------------
(* Properties                                                              *)

\* The variables have their types.
SourceTypeOK ==
    /\ backend \in Backends
    /\ client \in {"new", "started", "failed", "joining", "stopped"}
    /\ native \in {"none", "opening", "running", "ended"}
    /\ accepting \in BOOLEAN
    /\ rung \subseteq Calls /\ ringing \subseteq Calls
    /\ closing \in {"none", "queued", "done"}
    /\ waiting \subseteq Completions
    /\ answered \in [Completions -> {"none", "ok", "error"}]
    /\ afterwards \subseteq {"stop", "answer"} \X Calls

\* How far a teardown is when something is answered: nothing runs below any more, and no
\* frame is between the sink that was taken and its call.
SourceQuiets ==
    /\ backend \in UnderLock => ringing = {}
    /\ native = "none" => ringing = {}
    /\ client = "new" => native = "none" /\ closing = "none"
    /\ client = "joining" => backend \in Workers
    /\ closing = "done" => native = "ended" /\ "frame" \notin ringing
    /\ closing = "done" /\ backend \in Workers => ringing = {}
    /\ (\E c \in Completions : answered[c] = "ok") => closing = "done" \/ (native = "none" /\ client # "new")
    /\ client = "stopped" /\ backend \in UnderLock => ~accepting
    /\ client = "stopped" /\ backend \in Workers => native \in {"none", "ended"} /\ ringing = {}

\* What the owner of a source rests on when it drops sink and source in the completion of
\* stopAsync (handleStopResult of the controllers).  No frame comes after a good answer;
\* stop() of a worker that returned, and any stop of a stream, is a barrier; no completion
\* is answered while it is still kept.
SourceInv ==
    /\ <<"answer", "frame">> \notin afterwards
    /\ backend \in UnderLock \cup Workers => \A call \in Calls : <<"stop", call>> \notin afterwards
    /\ \A c \in waiting : answered[c] = "none"
    /\ closing = "done" => waiting = {}
    /\ SourceQuiets

\* Every completion is answered, with a thread to join, a queue to go through and several
\* callers at once; and stop() of a worker returns.
SourceEnds ==
    /\ \A c \in Completions : (c \in waiting) ~> (answered[c] # "none")
    /\ (client = "joining") ~> (client = "stopped")

\* IVideoFrameSink.h: stop() is a barrier after which no callbacks are made.  A session
\* takes the sink under its mutex and calls it afterwards, and its stop() waits for nothing.
StopIsBarrier == \A call \in Calls : <<"stop", call>> \notin afterwards
=============================================================================
