-------------------------- MODULE MCTrackRecorder --------------------------
(***************************************************************************)
(* A recorded track, for TLC: the recorder with its queue and publisher,   *)
(* or the time of its media on their way into the encoder.  The initial    *)
(* state says which of the two moves.                                      *)
(***************************************************************************)
EXTENDS TrackRecorder, MediaTiming

VARIABLE side   \* of the track: "recorder" or "timing"

trackVars == <<side, vars, timingVars>>

\* Blocks of one or three frames against a capacity of three and segments of two:
\* blocks that fit, that overflow, and that span two segments.
MCBlockSizes == {1, 3}

\* Takes whose followed source is the master, or follows one of either kind.
MCTakes == {{"mic", "system"}, {"mic", "screen"}, {"screen", "camera"}}

\* A device clock that runs nine ticks ahead; timestamps that go back, that jitter by one
\* tick, that leave a gap shorter than a frame, and that leave out several periods.
MCOffsets == {0, 9}
MCSlips == {-8, -1, 0, 3, 16}
MCCorrections == {-1, 0, 1}

TrackInit ==
    /\ side \in {"recorder", "timing"}
    /\ Init /\ TimingInit
    /\ side = "timing" => kind = "audio"
    /\ side = "recorder" => sources = {"mic", "system"} /\ track = "mic" /\ rate = Min(Rates)

\* The take is over and its segment finished.
Over == side = "timing" /\ ~ accepting /\ ~ encoder.started /\ UNCHANGED trackVars

TrackNext ==
    \/ side = "recorder" /\ Next /\ UNCHANGED <<side, timingVars>>
    \/ side = "timing" /\ TimingNext /\ UNCHANGED <<side, vars>>

TrackSpec == TrackInit /\ [][TrackNext \/ Over]_trackVars /\ WF_vars(Worker)
=============================================================================
