---------------------------- MODULE FaceTracking -----------------------------
(* From the tracking worker's datagrams to poses and telemetry (src/avatar):   *)
(* OpenSeeFaceUdpSource, OpenSeeFaceTrackingProvider for the live avatar,      *)
(* AvatarTrackingSession with its AvatarMotionPipeline and AvatarMotionNdjson- *)
(* Sink, AvatarMotionPlayback, CalibrationCapture and, beside them, the        *)
(* OpenSeeFaceProcessSupervisor.  They are four programs of which the initial  *)
(* state names one; the first two read the same kind of socket.                *)
EXTENDS Integers, Sequences, FiniteSets, SequencesExt

CONSTANTS
    MaxDatagram,   \* bound: datagrams sent
    SocketRoom,    \* datagrams the socket keeps
    MaxPoll,       \* bound: polls of a session
    MaxProject,    \* bound: project times
    MaxSession,    \* bound: sessions, workers started, application starts
    MaxShot,       \* bound: frames of a calibration
    MinShot        \* kMinCalibrationFrames

ASSUME FaceAssumption ==
    /\ {MaxDatagram, SocketRoom, MaxPoll, MaxProject, MaxSession, MaxShot} \subseteq Nat
    /\ MinShot \in Nat \ {0}

VARIABLES
    tracking,      \* "live", "session", "worker" or "calibration"
    socket,        \* datagrams received and not polled: [n, faces]
    sent,          \* datagrams sent so far
    pose,          \* the live avatar: [have, face, answer, taken], taken: the last good datagram
    session,       \* [on, count, provider, since, time, polls]
    smoother,      \* ExpressionSmoother: [warm, time, of], of: whose expression it holds
    telemetry,     \* avatar-motion.ndjson: [lines, cut], cut: the last line has no end
    written,       \* samples whose append() was acknowledged, in order
    mishap,        \* whether an append failed or a process ended
    supervised,    \* the supervisor: [windows, pid, child], child: the fate of each process
    shots          \* CalibrationCapture: the accepted frames

faceVars == <<tracking, socket, sent, pose, session, smoother, telemetry, written, mishap, supervised, shots>>
socketVars == <<socket, sent>>
sessionVars == <<session, smoother, telemetry, written, mishap>>

\* The confidence of each face in a datagram, 0 for a record without a face; a
\* datagram that cannot be parsed has none.  Below Trusted a face counts as neutral.
Malformed == <<>>
Batches == {Malformed, <<1>>, <<2>>} \cup (IF tracking = "live" THEN {<<0>>, <<1, 2, 2>>} ELSE {})
Trusted == 2
NoFace == <<0, 0>>
Nothing == [n |-> 0, faces |-> <<0>>]

FaceInit ==
    /\ tracking \in {"live", "session", "worker", "calibration"}
    /\ socket = <<>> /\ sent = 0
    /\ pose = [have |-> FALSE, face |-> NoFace, answer |-> "none", taken |-> Nothing]
    /\ session = [on |-> FALSE, count |-> 0, provider |-> 1, since |-> 0, time |-> 0, polls |-> 0]
    /\ smoother = [warm |-> FALSE, time |-> 0, of |-> {}]
    /\ telemetry = [lines |-> <<>>, cut |-> FALSE] /\ written = <<>> /\ mishap = FALSE
    /\ supervised \in [windows : BOOLEAN, pid : {0}, child : {<<>>}]
    /\ tracking # "worker" => supervised.windows
    /\ shots = <<>>

-----------------------------------------------------------------------------
(* The socket                                                               *)

\* A datagram that finds the socket full is lost.
Arrive(batch) ==
    /\ sent < MaxDatagram /\ sent' = sent + 1
    /\ socket' = IF Len(socket) < SocketRoom THEN Append(socket, [n |-> sent + 1, faces |-> batch])
                 ELSE socket
    /\ UNCHANGED <<tracking, pose, sessionVars, supervised, shots>>

\* selectPrimaryFace(): the most confident face, of several the first.
Primary(d) ==
    LET found == {i \in DOMAIN d.faces : d.faces[i] > 0} IN
    IF found = {} THEN NoFace
    ELSE <<d.n, CHOOSE i \in found : \A j \in found :
                   d.faces[j] < d.faces[i] \/ (d.faces[j] = d.faces[i] /\ i <= j)>>

-----------------------------------------------------------------------------
(* process() of the live provider: the socket is polled until it is empty or a *)
(* datagram is malformed, the last good one counts                             *)

FirstMalformed ==
    LET bad == {i \in DOMAIN socket : socket[i].faces = Malformed} IN
    IF bad = {} THEN Len(socket) + 1 ELSE CHOOSE i \in bad : \A j \in bad : i <= j

ProcessFrame ==
    LET k == FirstMalformed
        face == IF k = 1 THEN NoFace ELSE Primary(socket[k - 1])
        held == IF face = NoFace THEN pose.face ELSE face IN
    /\ socket' = SubSeq(socket, k + 1, Len(socket))
    /\ pose' = [have |-> held # NoFace, face |-> held, taken |-> IF k = 1 THEN pose.taken ELSE socket[k - 1],
                answer |-> IF held # NoFace THEN "face" ELSE IF k = 1 /\ socket # <<>> THEN "error" ELSE "none"]
    /\ UNCHANGED <<tracking, sent, sessionVars, supervised, shots>>

-----------------------------------------------------------------------------
(* A tracking session that records                                          *)

\* Mutant: the smoother goes on where the last session ended.
BeginSessionWarm(provider) ==
    /\ ~session.on /\ session.count < MaxSession
    /\ \E bound \in BOOLEAN :
         session' = [session EXCEPT !.on = bound, !.count = @ + 1, !.provider = provider, !.since = sent, !.time = 0]
    /\ UNCHANGED <<smoother, tracking, socketVars, pose, telemetry, written, mishap, supervised, shots>>

\* The pipeline is reset before the socket is bound, which may fail.
BeginSession(provider) ==
    /\ ~session.on /\ session.count < MaxSession
    /\ \E bound \in BOOLEAN :
         session' = [session EXCEPT !.on = bound, !.count = @ + 1, !.provider = provider, !.since = sent, !.time = 0]
    /\ smoother' = [warm |-> FALSE, time |-> 0, of |-> {}]
    /\ UNCHANGED <<tracking, socketVars, pose, telemetry, written, mishap, supervised, shots>>

\* stop() closes the socket with what it holds.
EndSession ==
    /\ session.on /\ session' = [session EXCEPT !.on = FALSE] /\ socket' = <<>>
    /\ UNCHANGED <<tracking, sent, pose, smoother, telemetry, written, mishap, supervised, shots>>

\* smooth(): the first sample passes, one at the same time is the last again, and
\* any other is blended with what was before.
Smoothed(of, time) ==
    IF ~smoother.warm THEN [warm |-> TRUE, time |-> time, of |-> of]
    ELSE IF time <= smoother.time THEN smoother
    ELSE [warm |-> TRUE, time |-> time, of |-> smoother.of \cup of]

\* The expression of a face that is missing or not trusted is the neutral one.
Expression(d) ==
    LET face == Primary(d) IN
    IF face = NoFace THEN {} ELSE IF d.faces[face[2]] < Trusted THEN {} ELSE {d.n}

\* append(): a line is written behind what the file ends with, or some of it.
Line(sample, readable) == [sample |-> sample, readable |-> readable]
Extended(line, cut) ==
    IF telemetry.cut
    THEN [lines |-> [telemetry.lines EXCEPT ![Len(telemetry.lines)].readable = FALSE], cut |-> cut]
    ELSE [lines |-> Append(telemetry.lines, line), cut |-> cut]

Sink(sample) ==
    \/ telemetry' = Extended(Line(sample, TRUE), FALSE) /\ written' = Append(written, sample) /\ UNCHANGED mishap
    \/ /\ mishap' = TRUE /\ UNCHANGED written
       /\ telemetry' \in {telemetry, Extended(Line(sample, FALSE), TRUE), Extended(Line(sample, TRUE), TRUE),
                          Extended(Line(sample, TRUE), FALSE)}

\* poll(): one datagram, at a project time that does not go back.
PollSession(time) ==
    /\ session.on /\ session.polls < MaxPoll /\ time >= session.time /\ socket # <<>>
    /\ session' = [session EXCEPT !.time = time, !.polls = @ + 1] /\ socket' = Tail(socket)
    /\ IF Head(socket).faces = Malformed THEN UNCHANGED <<smoother, telemetry, written, mishap>>
       ELSE LET next == Smoothed(Expression(Head(socket)), time) IN
            /\ smoother' = next
            /\ Sink([time |-> time, of |-> next.of, provider |-> session.provider])
    /\ UNCHANGED <<tracking, sent, pose, supervised, shots>>

\* A process that ends leaves the file, cut as it may be.
LeaveApplication ==
    /\ session.on /\ mishap' = TRUE
    /\ session' = [session EXCEPT !.on = FALSE] /\ socket' = <<>>
    /\ smoother' = [warm |-> FALSE, time |-> 0, of |-> {}]
    /\ UNCHANGED <<tracking, sent, pose, telemetry, written, supervised, shots>>

\* load(): all of the file or nothing.
Increasing == \A i, j \in DOMAIN telemetry.lines :
                  i < j => telemetry.lines[i].sample.time < telemetry.lines[j].sample.time
Loads ==
    /\ telemetry.lines # <<>> /\ \A i \in DOMAIN telemetry.lines : telemetry.lines[i].readable
    /\ \A i \in DOMAIN telemetry.lines : telemetry.lines[i].sample.provider = telemetry.lines[1].sample.provider
    /\ Increasing

-----------------------------------------------------------------------------
(* The supervisor of the worker process                                     *)

Alone == UNCHANGED <<tracking, socketVars, pose, sessionVars, shots>>
Child == supervised.child[supervised.pid]
Waited(fate) == [supervised EXCEPT !.pid = 0, !.child[supervised.pid] = fate]

\* running() on POSIX waits for the process and so reaps one that has ended.
Asked ==
    IF ~supervised.windows /\ supervised.pid # 0 /\ Child = "ended"
    THEN [supervised EXCEPT !.child[supervised.pid] = "reaped"] ELSE supervised
AskRunning == supervised.pid # 0 /\ supervised' = Asked /\ Alone

\* start() has a process that ended reaped before it forgets it; on POSIX it has
\* just asked running(), finds nobody to wait for, and fails once.
Launched(w) == [w EXCEPT !.pid = Len(w.child) + 1, !.child = Append(@, "alive")]

StartWorker ==
    /\ Len(supervised.child) < MaxSession /\ (supervised.pid # 0 => Child # "alive")
    /\ supervised' = IF supervised.pid = 0 THEN Launched(supervised)
                 ELSE IF supervised.windows THEN Launched(Waited("reaped")) ELSE Waited("reaped")
    /\ Alone

PollExitCode == supervised.pid # 0 /\ Child # "alive" /\ supervised' = Waited("reaped") /\ Alone

\* stop() ends the process, and waits for it.
StopWorker == supervised.pid # 0 /\ supervised' = Waited("reaped") /\ Alone

ProcessEnds ==
    /\ \E k \in DOMAIN supervised.child :
         supervised.child[k] = "alive" /\ supervised' = [supervised EXCEPT !.child[k] = "ended"]
    /\ Alone

-----------------------------------------------------------------------------
(* A calibration: add() and build(), with one field of the expression       *)

\* A frame without a face, below the confidence floor or not finite is counted and
\* not kept.
AddShot(value, good) ==
    /\ Len(shots) < MaxShot /\ shots' = IF good THEN Append(shots, value) ELSE shots
    /\ UNCHANGED <<tracking, socketVars, pose, sessionVars, supervised>>

\* The value at place k of the accepted values when they are sorted.
Ranked(k) ==
    CHOOSE v \in Range(shots) :
        /\ Cardinality({i \in DOMAIN shots : shots[i] < v}) < k
        /\ k <= Cardinality({i \in DOMAIN shots : shots[i] <= v})

\* Twice the median of the accepted values, half of the middle two of an even number.
Baseline2 ==
    LET n == Len(shots) IN
    IF n % 2 = 1 THEN 2 * Ranked(n \div 2 + 1) ELSE Ranked(n \div 2) + Ranked(n \div 2 + 1)
Calibrates == Len(shots) >= MinShot

-----------------------------------------------------------------------------
SessionStep ==
    \/ \E p \in {1, 2} : BeginSession(p)
    \/ \E t \in 0..MaxProject : PollSession(t)
    \/ EndSession \/ LeaveApplication

FaceNext ==
    \/ (tracking = "live" \/ session.on) /\ \E b \in Batches : Arrive(b)
    \/ tracking = "live" /\ ProcessFrame
    \/ tracking = "session" /\ SessionStep
    \/ tracking = "worker" /\ (AskRunning \/ StartWorker \/ PollExitCode \/ StopWorker \/ ProcessEnds)
    \/ tracking = "calibration" /\ \E v \in 0..3, good \in BOOLEAN : AddShot(v, good)

-----------------------------------------------------------------------------
(* Properties                                                               *)

FaceTypeOK ==
    /\ Len(socket) <= SocketRoom /\ sent \in 0..MaxDatagram
    /\ pose.answer \in {"none", "error", "face"} /\ pose.have \in BOOLEAN
    /\ session.count \in 0..MaxSession /\ session.time \in 0..MaxProject
    /\ smoother.of \subseteq 1..MaxDatagram /\ mishap \in BOOLEAN
    /\ supervised.pid \in 0..Len(supervised.child) /\ Len(shots) <= MaxShot

\* The live avatar shows the face of the last good datagram it took, and an error only
\* while it never had one; no datagram it takes is older than the face it shows.
PoseIsNewest ==
    /\ Primary(pose.taken) # NoFace => pose.face = Primary(pose.taken)
    /\ pose.answer = "error" => ~pose.have
    /\ \A i \in DOMAIN socket : pose.face[1] < socket[i].n

\* Nothing of an earlier session bleeds into a sample of this one
\* (AvatarMotionPipeline.h:43).
NothingBleeds == session.on => \A n \in smoother.of : n > session.since

\* What loads has every sample whose append was acknowledged, in its order, and if
\* nothing went wrong in one session of increasing times the file loads.
TelemetryIsWhole ==
    LET samples == [i \in DOMAIN telemetry.lines |-> telemetry.lines[i].sample] IN
    /\ Loads =>
          /\ Range(written) \subseteq Range(samples)
          /\ \A i, j \in DOMAIN written : \A k, m \in DOMAIN samples :
                i < j /\ samples[k] = written[i] /\ samples[m] = written[j] => k < m
    /\ ~mishap /\ session.count = 1 /\ Increasing /\ written # <<>> => Loads

\* A process that is alive or waits to be reaped is the one the supervisor knows.
WorkerIsOwned == \A k \in DOMAIN supervised.child : supervised.child[k] # "reaped" => k = supervised.pid

\* As long as fewer than half of the accepted frames are off, the baseline is between
\* two of the others (CalibrationCapture.cpp:26-30).
CalibrationIsRobust ==
    Calibrates =>
        \A good \in SUBSET DOMAIN shots : 2 * Cardinality(good) > Len(shots) =>
            /\ \E i \in good : 2 * shots[i] <= Baseline2
            /\ \E i \in good : 2 * shots[i] >= Baseline2

\* What the tracking parts promise.
FaceInv == PoseIsNewest /\ NothingBleeds /\ TelemetryIsWhole /\ WorkerIsOwned /\ CalibrationIsRobust
=============================================================================
