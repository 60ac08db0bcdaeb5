---------------------------- MODULE TrackRecorder ----------------------------
(***************************************************************************)
(* One recording track: recorder/AsyncTrackRecorder and the                *)
(* DurableSegmentPublisher it owns.                                        *)
(*                                                                         *)
(* Capture threads call accept(), service threads call stopAsync() and the *)
(* destructor, and one worker thread drains the queue, cuts the media into *)
(* segments and publishes each of them: a row WRITING, a ".part" file, the *)
(* final file, the row READY.  Every action is one critical section of     *)
(* mutex_, or a stretch of the worker between two of them.                 *)
(*                                                                         *)
(* Time is counted in ticks from recordingStartTime; one tick is one audio *)
(* sample frame, or the nanosecond a video frame occupies.  A medium is a  *)
(* record [at, frames] covering the ticks at .. at + frames - 1.           *)
(***************************************************************************)
EXTENDS Integers, Sequences, FiniteSets

CONSTANTS
    Kinds,           \* of the tracks considered: "video", "audio" or both
    Capacity,        \* videoQueueCapacity / audioQueueFrameCapacity
    SegmentDuration, \* config_.segmentDuration, in ticks
    BlockSizes,      \* frames of an audio block
    Horizon,         \* bound: no medium reaches beyond this tick
    Callers          \* threads that call stopAsync with a completion

ASSUME RecorderAssumption ==
    /\ Kinds \subseteq {"video", "audio"}
    /\ Capacity \in Nat \ {0}
    /\ SegmentDuration \in Nat \ {0}
    /\ BlockSizes \subseteq Nat \ {0}
    /\ Horizon \in Nat

VARIABLES
    kind,            \* config_.track.mediaKind(), given to the constructor
    state,           \* state_
    queue,           \* videoQueue_ / audioQueue_
    stopRequested,   \* stopRequested_
    requestedEnd,    \* requestedEndTime_
    inputError,      \* inputError_
    finalResult,     \* finalResult_
    observer,        \* is completionObserver_ set
    registered,      \* an observer was given to observeCompletion
    waiting,         \* callers in stopCompletions_
    pc,              \* where the worker is in run()
    current,         \* the medium being processed, what is left of it
    verdict,         \* the result run() passes to complete()
    segmentOpen,     \* segmentOpen_
    segmentStart,    \* segmentStartTime_
    nextIndex,       \* nextSegmentIndex_, and summary_.segmentsPublished
    lastMediaEnd,    \* lastMediaEndTime_
    calls,           \* completions complete() moved out and has not called yet
    pending,         \* is publisher_.pending_ set
    row,             \* index -> the segment's row in project.db
    finalFile,       \* indices whose final file exists
    span,            \* index -> [start, end] the READY row carries
    content,         \* index -> ticks the encoder was given
    destroyed,       \* the destructor has been entered
    taken,           \* history: ticks of the media accept() said ok to
    displaced,       \* history: ticks of displaced video frames
    answer,          \* history: caller -> result its completion was called with
    observed         \* history: results the observer was called with

queueVars == <<queue, taken, displaced>>
segmentVars == <<segmentOpen, segmentStart, nextIndex, lastMediaEnd,
                 pending, row, finalFile, span, content>>
replyVars == <<finalResult, observer, registered, waiting, calls, answer, observed>>
controlVars == <<kind, state, stopRequested, requestedEnd, inputError>>
vars == <<controlVars, queueVars, segmentVars, replyVars, pc, current,
          verdict, destroyed>>

-----------------------------------------------------------------------------

Indices == 0 .. Horizon          \* at most one segment per tick
Results == {"ok", "overflow", "failed", "unstarted"}
NoMedium == [at |-> 0, frames |-> 0]

Ticks(m) == m.at .. (m.at + m.frames - 1)
MediumEnd(m) == m.at + m.frames
QueuedTicks == UNION {Ticks(queue[k]) : k \in 1 .. Len(queue)}
SegmentEnd == segmentStart + SegmentDuration
Larger(a, b) == IF a >= b THEN a ELSE b
Smaller(a, b) == IF a <= b THEN a ELSE b

\* queuedAudioFrames_, or videoQueue_.size(): a video frame counts as one.
QueuedFrames == Cardinality(QueuedTicks)

\* What a router may hand over next: it clamps a timestamp to the recording's
\* start and to the end of its previous block, so media arrive in order.
Offers ==
    LET earliest == IF taken = {} THEN 0
                    ELSE 1 + CHOOSE t \in taken : \A u \in taken : u <= t
        sizes == IF kind = "video" THEN {1} ELSE BlockSizes
    IN  {m \in [at : earliest .. Horizon, frames : sizes] : MediumEnd(m) <= Horizon + 1}

-----------------------------------------------------------------------------

Init ==
    /\ kind \in Kinds
    /\ state = "Idle" /\ stopRequested = FALSE /\ requestedEnd = 0
    /\ inputError = "none" /\ finalResult = "none"
    /\ queue = <<>> /\ observer = FALSE /\ registered = FALSE /\ waiting = {} /\ calls = {}
    /\ pc = "none" /\ current = NoMedium /\ verdict = "none"
    /\ segmentOpen = FALSE /\ segmentStart = 0 /\ nextIndex = 0 /\ lastMediaEnd = 0
    /\ pending = FALSE /\ row = [i \in Indices |-> "none"] /\ finalFile = {}
    /\ span = [i \in Indices |-> [start |-> 0, end |-> 0]]
    /\ content = [i \in Indices |-> {}]
    /\ destroyed = FALSE /\ taken = {} /\ displaced = {}
    /\ answer = [c \in Callers |-> "none"] /\ observed = <<>>

\* start(): Idle only; the thread may fail to start, and the state goes back.
Start ==
    /\ ~destroyed /\ state = "Idle"
    /\ state' = "Running" /\ pc' = "wait"
    /\ UNCHANGED <<kind, stopRequested, requestedEnd, inputError, queueVars, segmentVars,
                   replyVars, verdict, current, destroyed>>

\* Mutant: the displaced frame is not counted.
AcceptVideoUncounted(m) ==
    /\ ~destroyed /\ kind = "video" /\ state = "Running"
    /\ IF Len(queue) = Capacity
       THEN /\ queue' = Append(Tail(queue), m)
            /\ UNCHANGED displaced
       ELSE /\ queue' = Append(queue, m)
            /\ UNCHANGED displaced
    /\ taken' = taken \cup Ticks(m)
    /\ UNCHANGED <<controlVars, segmentVars, replyVars, pc, verdict, current, destroyed>>

\* accept(VideoFrame) while Running: a full queue gives up its oldest frame.
AcceptVideo(m) ==
    /\ ~destroyed /\ kind = "video" /\ state = "Running"
    /\ IF Len(queue) = Capacity
       THEN /\ queue' = Append(Tail(queue), m)
            /\ displaced' = displaced \cup Ticks(Head(queue))
       ELSE /\ queue' = Append(queue, m)
            /\ UNCHANGED displaced
    /\ taken' = taken \cup Ticks(m)
    /\ UNCHANGED <<controlVars, segmentVars, replyVars, pc, verdict, current, destroyed>>

\* Mutant: a block that does not fit is dropped and reported as taken.
AcceptAudioDropping(m) ==
    /\ ~destroyed /\ kind = "audio" /\ state = "Running"
    /\ IF m.frames > Capacity - QueuedFrames
       THEN /\ taken' = taken \cup Ticks(m)
            /\ UNCHANGED <<controlVars, queue, displaced>>
       ELSE /\ queue' = Append(queue, m)
            /\ taken' = taken \cup Ticks(m)
            /\ UNCHANGED <<controlVars, displaced>>
    /\ UNCHANGED <<segmentVars, replyVars, pc, verdict, current, destroyed>>

\* Mutant: an overflow does not set stopRequested_.
AcceptAudioUnstopped(m) ==
    /\ ~destroyed /\ kind = "audio" /\ state = "Running"
    /\ IF m.frames > Capacity - QueuedFrames
       THEN /\ inputError' = "overflow" /\ state' = "Stopping"
            /\ requestedEnd' = Larger(requestedEnd, m.at)
            /\ UNCHANGED <<kind, stopRequested, queueVars>>
       ELSE /\ queue' = Append(queue, m)
            /\ taken' = taken \cup Ticks(m)
            /\ UNCHANGED <<controlVars, displaced>>
    /\ UNCHANGED <<segmentVars, replyVars, pc, verdict, current, destroyed>>

\* accept(AudioBlock) while Running: a block that does not fit is a terminal
\* error, which also closes the input.
AcceptAudio(m) ==
    /\ ~destroyed /\ kind = "audio" /\ state = "Running"
    /\ IF m.frames > Capacity - QueuedFrames
       THEN /\ inputError' = "overflow" /\ state' = "Stopping"
            /\ stopRequested' = TRUE
            /\ requestedEnd' = Larger(requestedEnd, m.at)
            /\ UNCHANGED <<kind, queueVars>>
       ELSE /\ queue' = Append(queue, m)
            /\ taken' = taken \cup Ticks(m)
            /\ UNCHANGED <<controlVars, displaced>>
    /\ UNCHANGED <<segmentVars, replyVars, pc, verdict, current, destroyed>>

RequestStop(end) ==
    /\ state' = "Stopping" /\ stopRequested' = TRUE
    /\ requestedEnd' = Larger(requestedEnd, end)
    /\ UNCHANGED <<kind, inputError>>

\* stopAsync(end, completion): answered at once when there is nothing to wait
\* for, otherwise by complete().
StopAsync(c, end) ==
    /\ ~destroyed /\ answer[c] = "none" /\ c \notin waiting \cup calls
    /\ \/ /\ state = "Idle"
          /\ answer' = [answer EXCEPT ![c] = "unstarted"]
          /\ UNCHANGED <<controlVars, waiting>>
       \/ /\ state = "Stopped"
          /\ answer' = [answer EXCEPT ![c] = finalResult]
          /\ UNCHANGED <<controlVars, waiting>>
       \/ /\ state \in {"Running", "Stopping"}
          /\ waiting' = waiting \cup {c}
          /\ RequestStop(end)
          /\ UNCHANGED answer
    /\ UNCHANGED <<queueVars, segmentVars, finalResult, observer, registered, calls,
                   observed, pc, verdict, current, destroyed>>

\* observeCompletion(callback): called at once when the result is already there.
Observe ==
    /\ ~destroyed /\ ~registered
    /\ registered' = TRUE /\ observer' = TRUE
    /\ observed' = IF state = "Stopped" THEN Append(observed, finalResult) ELSE observed
    /\ UNCHANGED <<controlVars, queueVars, segmentVars, finalResult, waiting, calls,
                   answer, pc, verdict, current, destroyed>>

\* observeCompletion({}): takes the callback away, if complete() has not yet.
Unobserve ==
    /\ ~destroyed /\ observer
    /\ observer' = FALSE
    /\ UNCHANGED <<controlVars, queueVars, segmentVars, finalResult, registered, waiting,
                   calls, answer, observed, pc, verdict, current, destroyed>>

\* ~AsyncTrackRecorder(): stopAsync(recordingStartTime), then join the worker.
Destroy ==
    /\ ~destroyed
    /\ destroyed' = TRUE
    /\ IF state \in {"Running", "Stopping"} THEN RequestStop(0) ELSE UNCHANGED controlVars
    /\ UNCHANGED <<queueVars, segmentVars, replyVars, pc, verdict, current>>

-----------------------------------------------------------------------------
(* The worker. *)

\* run(): take the oldest medium; stop is honoured only on an empty queue.
Dequeue ==
    /\ pc = "wait" /\ queue # <<>>
    /\ current' = Head(queue) /\ queue' = Tail(queue)
    /\ pc' = "process"
    /\ UNCHANGED <<controlVars, taken, displaced, segmentVars, replyVars, verdict, destroyed>>

DrainFinished ==
    /\ pc = "wait" /\ queue = <<>> /\ stopRequested
    /\ pc' = "finish"
    /\ UNCHANGED <<controlVars, queueVars, segmentVars, replyVars, verdict, current, destroyed>>

\* DurableSegmentPublisher::fail(): the row becomes FAILED unless the store
\* itself refuses, in which case it stays WRITING.
FailPending ==
    /\ pending' = FALSE
    /\ \/ row' = [row EXCEPT ![nextIndex] = "FAILED"]
       \/ row' = row

\* finishSegment(end) failed before the final file existed: encoder_->finish,
\* the metadata check, or the flush or link of the part.
FinishUnpublished ==
    /\ segmentOpen' = FALSE /\ FailPending
    /\ UNCHANGED <<segmentStart, nextIndex, lastMediaEnd, finalFile, span, content>>

\* Mutant: the row fails although the file is final.
FinishUnindexedFailed ==
    /\ segmentOpen' = FALSE /\ FailPending
    /\ finalFile' = finalFile \cup {nextIndex}
    /\ UNCHANGED <<segmentStart, nextIndex, lastMediaEnd, span, content>>

\* ... after it existed: the unlink or directory sync, or sink.ready.  pending_
\* is gone and the row is left WRITING.
FinishUnindexed ==
    /\ segmentOpen' = FALSE /\ pending' = FALSE
    /\ finalFile' = finalFile \cup {nextIndex}
    /\ UNCHANGED <<segmentStart, nextIndex, lastMediaEnd, row, span, content>>

\* finishSegment(end): finish, publish, READY, next index.
FinishReady(end) ==
    /\ segmentOpen' = FALSE /\ pending' = FALSE
    /\ finalFile' = finalFile \cup {nextIndex}
    /\ row' = [row EXCEPT ![nextIndex] = "READY"]
    /\ span' = [span EXCEPT ![nextIndex] = [start |-> segmentStart, end |-> end]]
    /\ nextIndex' = nextIndex + 1
    /\ UNCHANGED <<segmentStart, lastMediaEnd, content>>

Due == segmentOpen /\ current.at >= SegmentEnd

\* ensureSegment(ts): a medium past the open segment closes it at its end.
Rotate ==
    /\ pc = "process" /\ current.frames > 0 /\ Due
    /\ \/ FinishReady(SegmentEnd) /\ UNCHANGED pc
       \/ (FinishUnpublished \/ FinishUnindexed) /\ pc' = "fail"
    /\ UNCHANGED <<controlVars, queueVars, replyVars, verdict, current, destroyed>>

\* openSegment(bucket start): disk check, publisher begin, encoder start.
Bucket(t) == SegmentDuration * (t \div SegmentDuration)

OpenSegment ==
    /\ pc = "process" /\ current.frames > 0 /\ ~segmentOpen
    /\ \/ \* everything succeeds: the row is WRITING
          /\ segmentOpen' = TRUE /\ pending' = TRUE
          /\ segmentStart' = Bucket(current.at)
          /\ row' = [row EXCEPT ![nextIndex] = "WRITING"]
          /\ UNCHANGED pc
       \/ \* the disk check, prepare or sink.begin refuses: nothing was begun
          /\ pc' = "fail"
          /\ UNCHANGED <<segmentOpen, pending, segmentStart, row>>
       \/ \* the encoder does not start: begun, then failed
          /\ pc' = "fail"
          /\ \E status \in {"FAILED", "WRITING"} :
                row' = [row EXCEPT ![nextIndex] = status]
          /\ UNCHANGED <<segmentOpen, pending, segmentStart>>
    /\ UNCHANGED <<controlVars, queueVars, replyVars, verdict, current, destroyed,
                   nextIndex, lastMediaEnd, finalFile, span, content>>

\* Mutant: a slice is not limited to what is left of the block.
SliceWhole == IF kind = "video" THEN current.frames
               ELSE Larger(1, SegmentEnd - current.at)

\* One slice of process(): audio is cut at the segment's end, video is whole.
SliceFrames == IF kind = "video" THEN current.frames
               ELSE Smaller(current.frames, Larger(1, SegmentEnd - current.at))

Encode ==
    LET slice == [at |-> current.at, frames |-> SliceFrames]
        left == current.frames - SliceFrames
    IN  /\ pc = "process" /\ current.frames > 0 /\ segmentOpen /\ ~Due
        /\ content' = [content EXCEPT ![nextIndex] = @ \cup Ticks(slice)]
        /\ lastMediaEnd' = Larger(lastMediaEnd, MediumEnd(slice))
        /\ current' = IF left = 0 THEN NoMedium
                      ELSE [at |-> MediumEnd(slice), frames |-> left]
        /\ pc' = IF left = 0 THEN "wait" ELSE "process"
        /\ UNCHANGED <<controlVars, queueVars, replyVars, verdict, destroyed, segmentOpen,
                       segmentStart, nextIndex, pending, row, finalFile, span>>

\* encoder_->accept refuses: abortSegment() fails the pending segment.
EncodeFails ==
    /\ pc = "process" /\ current.frames > 0 /\ segmentOpen /\ ~Due
    /\ segmentOpen' = FALSE /\ FailPending
    /\ pc' = "fail"
    /\ UNCHANGED <<controlVars, queueVars, replyVars, verdict, current, destroyed, segmentStart,
                   nextIndex, lastMediaEnd, finalFile, span, content>>

\* run(), a processing error: latch it and forget what is queued.
LatchProcessError ==
    /\ pc = "fail"
    /\ inputError' = "failed" /\ queue' = <<>>
    /\ current' = NoMedium /\ verdict' = "failed" /\ pc' = "complete"
    /\ UNCHANGED <<kind, state, stopRequested, requestedEnd, taken, displaced, segmentVars,
                   replyVars, destroyed>>

\* Mutant: the trailing segment is not cut at the grid.
FinishTailLong ==
    LET end == Larger(requestedEnd, lastMediaEnd)
        drained == IF inputError = "none" THEN "ok" ELSE inputError
    IN  /\ pc = "finish" /\ pc' = "complete"
        /\ \/ ~segmentOpen /\ verdict' = drained /\ UNCHANGED segmentVars
           \/ segmentOpen /\ FinishReady(end) /\ verdict' = drained
           \/ segmentOpen /\ (FinishUnpublished \/ FinishUnindexed) /\ verdict' = "failed"
        /\ UNCHANGED <<controlVars, queueVars, replyVars, current, destroyed>>

\* run(), after the loop: close the trailing segment.  Its failure outranks an
\* overflow that was latched before.
FinishTail ==
    LET end == Smaller(Larger(requestedEnd, lastMediaEnd), SegmentEnd)
        drained == IF inputError = "none" THEN "ok" ELSE inputError
    IN  /\ pc = "finish" /\ pc' = "complete"
        /\ \/ ~segmentOpen /\ verdict' = drained /\ UNCHANGED segmentVars
           \/ segmentOpen /\ FinishReady(end) /\ verdict' = drained
           \/ segmentOpen /\ (FinishUnpublished \/ FinishUnindexed) /\ verdict' = "failed"
        /\ UNCHANGED <<controlVars, queueVars, replyVars, current, destroyed>>

\* complete(result): Stopped; take the observer and the completions out.
Complete ==
    /\ pc = "complete"
    /\ state' = "Stopped" /\ stopRequested' = TRUE /\ finalResult' = verdict
    /\ calls' = waiting /\ waiting' = {}
    /\ pc' = IF observer THEN "notify" ELSE "reply"
    /\ observer' = FALSE
    /\ UNCHANGED <<kind, requestedEnd, inputError, queueVars, segmentVars, registered,
                   answer, observed, current, verdict, destroyed>>

\* ... and call them outside the lock: the observer first.
NotifyObserver ==
    /\ pc = "notify"
    /\ observed' = Append(observed, finalResult)
    /\ pc' = "reply"
    /\ UNCHANGED <<controlVars, queueVars, segmentVars, finalResult, observer, registered,
                   waiting, calls, answer, verdict, current, destroyed>>

\* Mutant: a caller is told how the queue ended, not the track.
CallCompletionDrained(c) ==
    /\ pc = "reply" /\ c \in calls
    /\ calls' = calls \ {c}
    /\ answer' = [answer EXCEPT ![c] =
                        IF inputError = "none" THEN "ok" ELSE inputError]
    /\ UNCHANGED <<controlVars, queueVars, segmentVars, finalResult, observer, registered,
                   waiting, observed, pc, verdict, current, destroyed>>

CallCompletion(c) ==
    /\ pc = "reply" /\ c \in calls
    /\ calls' = calls \ {c}
    /\ answer' = [answer EXCEPT ![c] = finalResult]
    /\ UNCHANGED <<controlVars, queueVars, segmentVars, finalResult, observer, registered,
                   waiting, observed, pc, verdict, current, destroyed>>

WorkerExit ==
    /\ pc = "reply" /\ calls = {}
    /\ pc' = "exited"
    /\ UNCHANGED <<controlVars, queueVars, segmentVars, replyVars, verdict, current, destroyed>>

Worker ==
    \/ Dequeue \/ DrainFinished \/ Rotate \/ OpenSegment \/ Encode \/ EncodeFails
    \/ LatchProcessError \/ FinishTail \/ Complete \/ NotifyObserver
    \/ (\E c \in Callers : CallCompletion(c)) \/ WorkerExit

Clients ==
    \/ Start \/ Destroy
    \/ \E m \in Offers : AcceptVideo(m) \/ AcceptAudio(m)
    \/ \E c \in Callers, end \in {0, Horizon} : StopAsync(c, end)
    \/ Observe \/ Unobserve

\* The recorder is gone: the destructor's join has returned.
Terminated ==
    /\ destroyed /\ pc \in {"none", "exited"}
    /\ UNCHANGED vars

Next == Worker \/ Clients \/ Terminated

Spec == Init /\ [][Next]_vars

\* The worker thread is scheduled; nobody has to call anything.
FairSpec == Spec /\ WF_vars(Worker)
-----------------------------------------------------------------------------

TypeOK ==
    /\ kind \in Kinds
    /\ state \in {"Idle", "Running", "Stopping", "Stopped"}
    /\ queue \in Seq([at : Indices, frames : {1} \cup BlockSizes])
    /\ stopRequested \in BOOLEAN /\ requestedEnd \in Indices
    /\ inputError \in {"none", "overflow", "failed"}
    /\ finalResult \in {"none", "ok", "overflow", "failed"}
    /\ observer \in BOOLEAN /\ registered \in BOOLEAN
    /\ waiting \subseteq Callers /\ calls \subseteq Callers
    /\ pc \in {"none", "wait", "process", "fail", "finish", "complete", "notify",
              "reply", "exited"}
    /\ verdict \in {"none", "ok", "overflow", "failed"}
    /\ current \in [at : 0 .. Horizon, frames : 0 .. Horizon + 1]
    /\ segmentOpen \in BOOLEAN /\ pending \in BOOLEAN /\ segmentStart \in Indices
    /\ nextIndex \in 0 .. Horizon + 1 /\ lastMediaEnd \in 0 .. Horizon + 1
    /\ row \in [Indices -> {"none", "WRITING", "READY", "FAILED"}]
    /\ finalFile \subseteq Indices
    /\ span \in [Indices -> [start : Nat, end : Nat]]
    /\ content \in [Indices -> SUBSET Indices]
    /\ destroyed \in BOOLEAN
    /\ taken \subseteq Indices /\ displaced \subseteq Indices
    /\ answer \in [Callers -> {"none"} \cup Results]
    /\ observed \in Seq(Results)

Ready == {i \in Indices : row[i] = "READY"}
Published == UNION {content[i] : i \in Ready}

\* Media accepted are never lost silently.  While nothing has failed, every
\* accepted tick is displaced, queued, being processed or encoded, in exactly
\* one of these places: "it never silently drops"
\* (docs/superpowers/specs/2026-07-16-r0-05-source-recording-design.md:143).
MediaAccounted ==
    LET encoded == UNION {content[i] : i \in Indices}
    IN  (pc # "fail" /\ verdict # "failed") =>
            /\ taken = displaced \cup QueuedTicks \cup Ticks(current) \cup encoded
            /\ Cardinality(taken) = Cardinality(displaced) + Cardinality(QueuedTicks)
                                    + Cardinality(Ticks(current)) + Cardinality(encoded)

\* A recorder that reports success, or only that its audio queue overflowed,
\* has published everything it accepted and did not displace: stop drains the
\* queue and closes the trailing segment before complete() is called.
DrainedBeforeReport ==
    finalResult \in {"ok", "overflow"} => Published = taken \ displaced

\* Media keep their order: what was encoded lies before what is processed, that before what
\* is queued, and a displaced frame is in no other place (the router clamps a timestamp to
\* the end of its previous block; the queue is a deque).
MediaInOrder ==
    LET encoded == UNION {content[i] : i \in Indices}
        Whole(m) == MediumEnd(m) <= Horizon + 1 /\ lastMediaEnd <= m.at /\ (kind = "video" => m.frames = 1)
    IN  /\ \A k \in 1 .. Len(queue) :
             /\ Whole(queue[k]) /\ \A t \in displaced : t < queue[k].at
             /\ current.frames > 0 => MediumEnd(current) <= queue[k].at
             /\ \A l \in 1 .. Len(queue) : k < l => MediumEnd(queue[k]) <= queue[l].at
        /\ current.frames > 0 => Whole(current)
        /\ displaced \cap (Ticks(current) \cup encoded) = {}
        /\ \A t \in encoded : t < lastMediaEnd
        /\ lastMediaEnd = 0 \/ lastMediaEnd - 1 \in taken
        /\ displaced \cup QueuedTicks \cup Ticks(current) \cup encoded \subseteq taken

\* Both: a medium accepted is somewhere until the recording has its result, and then it is
\* published (push, run and stop of AsyncTrackRecorder).
MediaKept == MediaAccounted /\ DrainedBeforeReport /\ MediaInOrder

\* Segments are cut on the project grid: what a READY segment holds lies inside
\* the span its row carries, spans of consecutive indices do not overlap, and
\* no tick is in two segments.
SegmentsPartitionTime ==
    \A i \in Ready :
        /\ content[i] # {}
        /\ content[i] \subseteq span[i].start .. (span[i].end - 1)
        /\ span[i].end - span[i].start \in 1 .. SegmentDuration
        /\ \A j \in Ready : i < j => span[i].end <= span[j].start

\* Rows, files and the index tell the same story, whatever failed.  READY has a
\* final file and FAILED has none; every segment before the newest is READY and
\* none after it has a row; a file is final without a READY row only on the
\* segment whose failure is the recording's result (DurableSegmentPublisher.cpp:
\* 255-267 and AsyncTrackRecorder.cpp:362-408).
RowsMatchFiles ==
    \A i \in Indices :
        /\ row[i] = "READY" => i \in finalFile
        /\ row[i] = "FAILED" => i \notin finalFile
        /\ i < nextIndex => row[i] = "READY"
        /\ i > nextIndex => row[i] = "none"
        /\ (i \in finalFile /\ row[i] # "READY") =>
              /\ row[i] = "WRITING" /\ i = nextIndex
              /\ pc = "fail" \/ verdict = "failed"
        /\ (finalResult # "none" /\ row[i] \notin {"none", "READY"}) => finalResult = "failed"

OnGrid(t) == Bucket(t) = t

\* The segment under way begins on the grid, after all that are READY, and holds only what
\* lies within it; while none is open nothing of the next one is there (ensureSegment).
SegmentGrows ==
    /\ pending = segmentOpen
    /\ segmentOpen =>
         /\ pc \in {"wait", "process", "finish"}
         /\ OnGrid(segmentStart) /\ nextIndex <= segmentStart /\ row[nextIndex] = "WRITING"
         /\ content[nextIndex] \subseteq segmentStart .. SegmentEnd - 1
         /\ content[nextIndex] = {} => pc = "process" /\ current.at \in segmentStart .. SegmentEnd - 1
         /\ \A i \in Ready : span[i].end <= segmentStart
    /\ pc \in {"none", "wait", "process"} =>
         \A i \in Ready : OnGrid(span[i].end) /\ (~segmentOpen => pc = "process" /\ span[i].end <= current.at)
    /\ \A i \in Ready : i < span[i].end
    /\ \A i \in Indices :
         /\ i > nextIndex => content[i] = {} /\ i \notin finalFile
         /\ i = nextIndex => /\ row[i] # "READY"
                             /\ row[i] # "none" \/ content[i] # {} => segmentOpen \/ pc = "fail" \/ verdict = "failed"

\* Both: what is READY is a part of the recording, and rows and files agree on it
\* (the publication of a segment).
SegmentsInv == SegmentsPartitionTime /\ RowsMatchFiles /\ SegmentGrows

\* Where the worker is goes with what the others are told: it drains before it finishes, it
\* has a verdict from then on, and the result is there when the recorder is Stopped (run()
\* and complete()).
WorkerPlace ==
    /\ (state = "Idle") = (pc = "none")
    /\ (state = "Stopped") = (pc \in {"notify", "reply", "exited"})
    /\ stopRequested = (state \in {"Stopping", "Stopped"})
    /\ (verdict # "none") = (pc \in {"complete", "notify", "reply", "exited"})
    /\ pc = "finish" \/ verdict \in {"ok", "overflow"} => stopRequested /\ queue = <<>>
    /\ finalResult = IF state = "Stopped" THEN verdict ELSE "none"
    /\ pc = "process" => current.frames > 0
    /\ pc \notin {"process", "fail"} => current = NoMedium
    /\ inputError = "failed" => verdict = "failed"
    /\ observer => registered
    /\ observed # <<>> => registered /\ state = "Stopped" /\ pc # "notify"
    /\ pc = "notify" => registered

\* Every caller of stopAsync and the observer are told the same result, and the
\* observer at most once.
OneVerdict ==
    /\ WorkerPlace
    /\ Len(observed) <= 1
    /\ \A k \in 1 .. Len(observed) : observed[k] = finalResult
    /\ \A c \in Callers : answer[c] \notin {"none", "unstarted"} => answer[c] = finalResult

\* Every track that has to end does.  A stopAsync is answered, also when the
\* worker fails, overflows or was already stopping; an overflow ends the
\* recording by itself, without anybody calling stopAsync; and the destructor's
\* join returns.
StopIsAnswered == \A c \in Callers : (c \in waiting) ~> (answer[c] # "none")
OverflowEnds == (inputError = "overflow") ~> (state = "Stopped")
DestructorReturns == destroyed ~> (pc \in {"none", "exited"})
TracksEnd == StopIsAnswered /\ OverflowEnds /\ DestructorReturns
=============================================================================
