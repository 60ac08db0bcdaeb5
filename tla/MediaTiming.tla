----------------------------- MODULE MediaTiming -----------------------------
(***************************************************************************)
(* The time of a medium on its way from a capture callback into a segment: *)
(* the routers of app/FfmpegLiveRecordingEngine, sync/ClockCoordinator,    *)
(* sync/VideoSyncPlanner, sync/AudioRateCompensator and the two encoders   *)
(* FfmpegVideoSegmentEncoder and FfmpegAudioSegmentEncoder.                *)
(*                                                                         *)
(* One track of a take is followed from its router to its encoder, beside  *)
(* the other sources that only move the clock.  The recorder's queue keeps *)
(* the order of the media, so that the worker's part is taken together     *)
(* with the callback's.  One tick is one sample of the project's rate, and *)
(* zero is the start of the take.                                          *)
(***************************************************************************)
EXTENDS Integers, SequencesExt

CONSTANTS
    Takes,           \* the sets of sources a take may record
    Rates,           \* sample frames two ticks of a device's audio may hold
    FramePeriod,     \* framePeriod of the planner
    Duplicates,      \* maximumDuplicatesPerInput
    FrameSize,       \* samples of one AAC frame
    BlockTicks,      \* ticks an audio block lasts
    SegmentTicks,    \* ticks between two rotations of the recorder
    Offsets,         \* device clocks are this far ahead of the project's
    Slips,           \* a device's next timestamp is this far from the expected one
    Waits,           \* ticks between two callbacks
    Corrections,     \* samples AudioRateCompensator may ask to add or to remove
    MaxCallbacks     \* bound: callbacks of a behaviour

ASSUME MediaTimingAssumption ==
    /\ \A t \in Takes : t # {} /\ t \subseteq {"mic", "system", "screen", "camera"}
    /\ {FramePeriod, Duplicates, FrameSize, BlockTicks, SegmentTicks} \subseteq Nat \ {0}
    /\ BlockTicks % 2 = 0 /\ BlockTicks <= SegmentTicks
    /\ Rates \subseteq Nat \ {0} /\ Waits \subseteq Nat /\ MaxCallbacks \in Nat
    /\ Offsets \cup Slips \cup Corrections \subseteq Int

VARIABLES
    sources,         \* the sources of the take
    track,           \* the source that is followed into its encoder
    rate,            \* sampleRate of its device, in frames per two ticks
    now,             \* ProjectClock::now()
    clock,           \* source -> its SourceState in the coordinator
    accepting,       \* Run::accepting
    blockEnd,        \* AudioRouter's lastBlockEnd_, 0 before the first block
    planner,         \* the track's VideoSyncPlanner
    encoder,         \* the track's segment encoder
    out,             \* history: what the last step gave to the codec
    tally,           \* history: samples given and encoded, inputs of the planner
    steady,          \* history: every block began where the one before it ended
    callbacks        \* history: callbacks so far

timingVars == <<sources, track, rate, now, clock, accepting, blockEnd, planner,
                encoder, out, tally, steady, callbacks>>

-----------------------------------------------------------------------------
(* ClockCoordinator *)

Unset == -1000                 \* an empty std::optional
Priorities == [mic |-> 0, system |-> 1, screen |-> 2, camera |-> 3]
Master == CHOOSE s \in sources : \A r \in sources : Priorities[s] <= Priorities[r]

FreshState == [source |-> Unset, observed |-> Unset, corrected |-> Unset,
               drift |-> 0, synchronized |-> FALSE]

\* C++ division and remainder by eight, which round towards zero
Eighth(n) == IF n >= 0 THEN n \div 8 ELSE -((-n) \div 8)
Rest(n) == n - 8 * Eighth(n)
FilteredEighth(previous, current) ==
    7 * Eighth(previous) + Eighth(current) + Eighth(7 * Rest(previous) + Rest(current))

MovedBackward(s, stamp, at) ==
    \/ clock[s].source # Unset /\ stamp < clock[s].source
    \/ clock[s].observed # Unset /\ at < clock[s].observed

\* what observe() stores for s
Observed(s, stamp, at) ==
    LET master == clock[Master]
        seen == [clock[s] EXCEPT !.source = stamp, !.observed = at]
        estimate == master.source + (at - master.observed)
        raw == stamp - estimate
        drift == IF clock[s].synchronized THEN FilteredEighth(clock[s].drift, raw) ELSE raw
        corrected == IF clock[s].source # Unset
                     THEN Max({stamp - drift, clock[s].corrected}) ELSE stamp - drift
    IN CASE s = Master -> [seen EXCEPT !.corrected = stamp, !.synchronized = TRUE]
         [] s # Master /\ master.source = Unset -> [seen EXCEPT !.corrected = stamp]
         [] OTHER -> [seen EXCEPT !.corrected = corrected, !.drift = drift,
                                  !.synchronized = TRUE]

\* the samples of compensation a block of s may carry: the coordinator asks for a
\* rate only of an audio source that follows another one
CorrectionsOf(s) ==
    IF s \in {"mic", "system"} /\ s # Master /\ clock[s].synchronized
    THEN Corrections ELSE {0}

-----------------------------------------------------------------------------
(* VideoSyncPlanner *)

FreshPlanner == [next |-> Unset, passed |-> 0, dropped |-> 0, duplicated |-> 0, skipped |-> 0]
Half == FramePeriod \div 2

\* how often the last frame is repeated before a frame of time at
Repeats(at) == Min({Duplicates} \cup
    {n \in 0 .. Duplicates : at <= planner.next + n * FramePeriod + Half})

\* plan(): the planner afterwards and the grid times it gives out
Planned(at) ==
    IF planner.next = Unset
    THEN [planner |-> [planner EXCEPT !.next = at + FramePeriod, !.passed = @ + 1],
          times |-> <<at>>]
    ELSE IF at < planner.next - Half
    THEN [planner |-> [planner EXCEPT !.dropped = @ + 1], times |-> <<>>]
    ELSE LET n == Repeats(at)
             reached == planner.next + n * FramePeriod
             skipped == IF at > reached + Half THEN (at - reached) \div FramePeriod ELSE 0
             grid == reached + skipped * FramePeriod
         IN [planner |-> [planner EXCEPT !.next = grid + FramePeriod,
                              !.passed = @ + 1, !.duplicated = @ + n, !.skipped = @ + skipped],
             times |-> [k \in 1 .. n |-> planner.next + (k - 1) * FramePeriod] \o <<grid>>]

-----------------------------------------------------------------------------
(* The encoders.  cause tells why the encoder refused a medium, bent counts *)
(* the samples compensated since fifoStartPts_ was last taken from a block. *)

NewEncoder == [started |-> FALSE, open |-> FALSE, start |-> 0, size |-> 0, count |-> 0,
               expected |-> Unset, fifoStart |-> Unset, fifo |-> <<>>, bent |-> 0,
               cause |-> "none"]

\* abort(), and what finish() leaves: closeMedia() forgets the positions
ShutKeepingFifo(e) == [NewEncoder EXCEPT !.cause = e.cause, !.fifoStart = e.fifoStart]
Shut(e) == [NewEncoder EXCEPT !.cause = e.cause]
Refused(e, cause) == [Shut(e) EXCEPT !.cause = cause]

\* start() for the segment the recorder opens for a medium of time at
Started(e, at) ==
    [e EXCEPT !.started = TRUE, !.start = (at \div SegmentTicks) * SegmentTicks]

\* open() on the first medium of a segment
Opened(e, size) == [e EXCEPT !.open = TRUE, !.size = IF e.open THEN e.size ELSE size]

\* encodeFromFifo(): the frame that goes to the codec, and what stays
Frame(e, n, why) == [at |-> e.start + e.fifoStart, samples |-> SubSeq(e.fifo, 1, n),
                     why |-> why, bent |-> e.bent]
EncodedAs(e, n) == [e EXCEPT !.fifoStart = @ + n, !.fifo = SubSeq(@, n + 1, Len(@))]

\* FfmpegAudioSegmentEncoder::accept() of a block of n ticks of project time at:
\* first the frame a gap makes it flush, then the whole frames of the FIFO
Gap(e, at) == e.expected # Unset /\ at - e.start - e.expected > 1
Overlaps(e, at) == e.expected # Unset /\ at - e.start - e.expected < -1
Flushed(e, at) == IF Gap(e, at) /\ e.fifo # <<>> THEN <<Frame(e, Len(e.fifo), "gap")>> ELSE <<>>

Buffered(e, at, n, correction) ==
    LET pts == IF e.expected # Unset /\ ~ Gap(e, at) THEN e.expected ELSE at - e.start
        restart == e.fifoStart = Unset \/ Gap(e, at)
        kept == IF Gap(e, at) THEN <<>> ELSE e.fifo
    IN [e EXCEPT !.fifoStart = IF restart THEN pts ELSE @,
                 !.bent = (IF restart THEN 0 ELSE @) + Max({correction, -correction}),
                 !.fifo = kept \o [k \in 1 .. (n + correction) |-> at + Min({k, n}) - 1],
                 !.expected = pts + (n * rate) \div 2,
                 !.count = @ + 1]

Whole(e) == Len(e.fifo) \div FrameSize
FramesOf(e) == [k \in 1 .. Whole(e) |->
    [at |-> e.start + e.fifoStart + (k - 1) * FrameSize,
     samples |-> SubSeq(e.fifo, (k - 1) * FrameSize + 1, k * FrameSize),
     why |-> "full", bent |-> e.bent]]

\* one call of accept(): what the codec is given and the encoder afterwards
AudioAccepted(e, at, n, correction) ==
    IF Overlaps(e, at) THEN [out |-> <<>>, encoder |-> Refused(e, "overlap")]
    ELSE LET b == Buffered(Opened(e, 0), at, n, correction)
         IN [out |-> Flushed(e, at) \o FramesOf(b),
             encoder |-> EncodedAs(b, Whole(b) * FrameSize)]

\* FfmpegVideoSegmentEncoder::accept() of a frame of size
VideoAccepted(e, at, size) ==
    IF Opened(e, size).size # size THEN [out |-> <<>>, encoder |-> Refused(e, "size")]
    ELSE [out |-> <<[at |-> at, samples |-> <<at>>, why |-> "full", bent |-> 0]>>,
          encoder |-> [Opened(e, size) EXCEPT !.count = @ + 1]]

\* finish(): the rest of the FIFO, padded with silence
Rested(e) == IF e.fifo = <<>> THEN <<>> ELSE <<Frame(e, Len(e.fifo), "end")>>

\* AsyncTrackRecorder::ensureSegment() before a medium of time at
Rotates(e, at) == e.started /\ at >= e.start + SegmentTicks
Ensured(e, at) ==
    LET kept == IF Rotates(e, at) THEN Shut(e) ELSE e
    IN [out |-> IF Rotates(e, at) THEN Rested(e) ELSE <<>>,
        encoder |-> IF kept.started THEN kept ELSE Started(kept, at)]

-----------------------------------------------------------------------------
(* The recorder feeds the encoder: one frame after another, and a block cut *)
(* at the segment's end.                                                    *)

Fed(r, at, Accept(_)) ==
    IF r.encoder.cause # "none" THEN r
    ELSE LET e == Ensured(r.encoder, at)
             a == Accept(e.encoder)
         IN [out |-> r.out \o e.out \o a.out, encoder |-> a.encoder]

\* process(AudioBlock): slices up to segmentEndTime_
BlockFed(e, at, correction) ==
    LET first == Min({BlockTicks, SegmentTicks - (at % SegmentTicks)})
        one == Fed([out |-> <<>>, encoder |-> e], at,
                   LAMBDA x : AudioAccepted(x, at, first, correction))
    IN IF first = BlockTicks THEN one
       ELSE Fed(one, at + first,
                LAMBDA x : AudioAccepted(x, at + first, BlockTicks - first, 0))

\* process(VideoFrame) for each frame of a batch
FramesFed(e, times, size) ==
    FoldLeft(LAMBDA r, at : Fed(r, at, LAMBDA x : VideoAccepted(x, at, size)),
             [out |-> <<>>, encoder |-> e], times)

-----------------------------------------------------------------------------
(* The callbacks *)

IsAudio == track \in {"mic", "system"}
SamplesIn(frames) == FoldLeft(LAMBDA n, f : n + Len(f.samples), 0, frames)

\* Run::fail(), or the recorder's own end after an encoder refused
GiveUp == accepting' = FALSE

\* VideoRouter::onVideoFrame of the followed track
RouteVideo(corrected, size) ==
    LET p == Planned(Max({corrected, 0}))
        fed == FramesFed(encoder, p.times, size)
    IN /\ planner' = p.planner
       /\ encoder' = fed.encoder
       /\ out' = fed.out
       /\ tally' = [tally EXCEPT !.inputs = @ + 1,
                                 !.first = IF @ = Unset THEN p.times[1] ELSE @,
                                 !.encoded = @ + Len(fed.out)]
       /\ accepting' = (fed.encoder.cause = "none")
       /\ UNCHANGED <<blockEnd, steady>>

\* AudioRouter::onAudioBlock of the followed track
RouteAudio(corrected) ==
    LET at == Max({corrected, 0, blockEnd})
    IN \E correction \in CorrectionsOf(track) :
        LET fed == BlockFed(encoder, at, correction)
        IN /\ blockEnd' = at + BlockTicks
           /\ steady' = (steady /\ (tally.inputs = 0 \/ at = blockEnd) /\ correction = 0)
           /\ encoder' = fed.encoder
           /\ out' = fed.out
           /\ tally' = [tally EXCEPT !.inputs = @ + 1, !.given = @ + BlockTicks + correction,
                                     !.encoded = @ + SamplesIn(fed.out)]
           /\ accepting' = (fed.encoder.cause = "none")
           /\ UNCHANGED planner

\* a device hands over a medium: its clock may run ahead of the project's, and its
\* next timestamp may slip
Callback(s) ==
    /\ accepting /\ callbacks < MaxCallbacks
    /\ callbacks' = callbacks + 1
    /\ \E wait \in Waits, slip \in Slips, offset \in Offsets, size \in {1, 2} :
        LET at == now + wait
            length == IF s \in {"mic", "system"} THEN BlockTicks ELSE FramePeriod
            stamp == IF clock[s].source = Unset THEN at + offset
                     ELSE clock[s].source + length + slip
        IN /\ now' = at
           /\ clock[s].source = Unset => slip = 0
           /\ clock[s].source # Unset => offset = 0
           /\ size = 2 => s = track /\ ~ IsAudio
           /\ IF MovedBackward(s, stamp, at)
              THEN /\ GiveUp
                   /\ UNCHANGED <<clock, blockEnd, planner, encoder, out, tally, steady>>
              ELSE /\ clock' = [clock EXCEPT ![s] = Observed(s, stamp, at)]
                   /\ IF s # track
                      THEN UNCHANGED <<accepting, blockEnd, planner, encoder, out, tally, steady>>
                      ELSE IF IsAudio THEN RouteAudio(clock'[s].corrected)
                      ELSE RouteVideo(clock'[s].corrected, size)
    /\ UNCHANGED <<sources, track, rate>>

\* open(), a codec or the disk fails: the worker aborts the segment
EncoderFails ==
    /\ accepting /\ encoder.started
    /\ encoder' = Refused(encoder, "fault")
    /\ out' = <<>>
    /\ GiveUp
    /\ UNCHANGED <<sources, track, rate, now, clock, blockEnd, planner, tally, steady, callbacks>>

\* the take is stopped
StopTake ==
    /\ accepting
    /\ GiveUp
    /\ UNCHANGED <<sources, track, rate, now, clock, blockEnd, planner, encoder, out, tally,
                   steady, callbacks>>

\* the worker leaves its loop and finishes the open segment
FinishSegment ==
    /\ ~ accepting /\ encoder.started
    /\ out' = Rested(encoder)
    /\ tally' = [tally EXCEPT !.encoded = @ + SamplesIn(out')]
    /\ encoder' = Shut(encoder)
    /\ UNCHANGED <<sources, track, rate, now, clock, accepting, blockEnd, planner, steady, callbacks>>

TimingInit ==
    /\ sources \in Takes /\ track \in sources /\ rate \in Rates
    /\ track \in {"screen", "camera"} => rate = Min(Rates)
    /\ now = 0 /\ accepting = TRUE /\ blockEnd = 0 /\ callbacks = 0
    /\ clock = [s \in sources |-> FreshState]
    /\ planner = FreshPlanner /\ encoder = NewEncoder /\ out = <<>> /\ steady = TRUE
    /\ tally = [first |-> Unset, inputs |-> 0, given |-> 0, encoded |-> 0]

TimingNext ==
    \/ \E s \in sources : Callback(s)
    \/ EncoderFails
    \/ StopTake
    \/ FinishSegment

TimingSpec == TimingInit /\ [][TimingNext]_timingVars

-----------------------------------------------------------------------------
(* Properties *)

TimingTypeOK ==
    /\ track \in sources /\ sources \in Takes /\ rate \in Rates
    /\ now \in Nat /\ blockEnd \in Nat /\ callbacks \in 0 .. MaxCallbacks
    /\ accepting \in BOOLEAN /\ steady \in BOOLEAN
    /\ encoder.cause \in {"none", "fault", "size", "overlap"}
    /\ encoder.open => encoder.started

\* The planner gives out one time grid: every input is passed or dropped, the grid
\* moved by one period for each frame given out and each interval counted as
\* skipped, one input never leads to more than the allowed repetitions, and the
\* frame that is passed lies within a period of its corrected time.
GridIsAccounted ==
    ~ IsAudio /\ tally.inputs > 0 =>
        /\ tally.inputs = planner.passed + planner.dropped
        /\ planner.next = tally.first
             + FramePeriod * (planner.passed + planner.duplicated + planner.skipped)
        /\ Len(out) <= Duplicates + 1
        /\ out # <<>> =>
             LET last == out[Len(out)].at
                 behind == Max({clock[track].corrected, 0}) - last
             IN last = planner.next - FramePeriod /\ -Half <= behind /\ behind < FramePeriod

\* The last frame the video encoder was given lies inside the segment that is open.
FramesAreInTheSegment ==
    ~ IsAudio /\ encoder.started /\ out # <<>> =>
        LET f == out[Len(out)]
        IN encoder.start <= f.at /\ f.at < encoder.start + SegmentTicks

\* Audio is never discarded while the take goes on: what the routers handed over is
\* encoded, or waits in the FIFO for the next frame or for finish().
NoSampleIsLost ==
    IsAudio /\ encoder.cause = "none" => tally.given = tally.encoded + Len(encoder.fifo)

\* A sample is played at the time its block was routed for, up to the one tick
\* accept() snaps and the samples the clock correction added or removed.
AudioIsInPlace ==
    IsAudio => \A k \in 1 .. Len(out) : \A i \in 1 .. Len(out[k].samples) :
        LET error == out[k].at + (i - 1) - out[k].samples[i]
        IN Max({error, -error}) <= 1 + out[k].bent

\* The audio router hands blocks over in order, so the encoder never has to refuse
\* one as overlapping, at the rate of the project.
NothingOverlaps == rate = 2 => encoder.cause # "overlap"

\* A device whose blocks follow each other without a gap is encoded without silence
\* between them, and none of its blocks is refused.
SteadyAudioIsWhole ==
    IsAudio /\ steady => /\ encoder.cause # "overlap"
                         /\ \A k \in 1 .. Len(out) : out[k].why # "gap"

\* What the clock and the encoders keep.
EncoderInv ==
    /\ TimingTypeOK
    /\ GridIsAccounted
    /\ FramesAreInTheSegment
    /\ NoSampleIsLost
    /\ AudioIsInPlace
    /\ NothingOverlaps
    /\ rate = 2 => SteadyAudioIsWhole
=============================================================================
