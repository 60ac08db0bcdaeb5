--------------------------- MODULE RecordingPromise ---------------------------
(***************************************************************************)
(* What a recording of several tracks promises, whatever threads carry it  *)
(* out.  A track opens only while the recording is on, and never again.    *)
(* The recording is closed by one decision, once no track is open; it is a *)
(* success only if every track finished.  Whoever asked learns that        *)
(* decision, after it was made and once.                                   *)
(***************************************************************************)
CONSTANTS
    Tracks,
    Clients          \* who may learn how the recording ended

VARIABLES
    phase,           \* "idle", "recording", "closing", "closed"
    track,           \* track -> "unopened", "open", "finished", "failed"
    outcome,         \* "none", "ok", "error"
    told             \* the clients that know the outcome

vars == <<phase, track, outcome, told>>

Init ==
    /\ phase = "idle" /\ track = [t \in Tracks |-> "unopened"]
    /\ outcome = "none" /\ told = {}

Begin ==
    /\ phase = "idle" /\ phase' = "recording"
    /\ UNCHANGED <<track, outcome, told>>

OpenTrack(t) ==
    /\ phase = "recording" /\ track[t] = "unopened"
    /\ track' = [track EXCEPT ![t] = "open"]
    /\ UNCHANGED <<phase, outcome, told>>

\* A track ends when it is stopped or by a failure of its own.
CloseTrack(t, how) ==
    /\ phase # "closed" /\ track[t] = "open"
    /\ track' = [track EXCEPT ![t] = how]
    /\ UNCHANGED <<phase, outcome, told>>

\* A stop request or a failure: there is no way back.
BeginClosing ==
    /\ phase = "recording" /\ phase' = "closing"
    /\ UNCHANGED <<track, outcome, told>>

Decide(result) ==
    /\ phase \in {"recording", "closing"}
    /\ \A t \in Tracks : track[t] # "open"
    /\ result = "ok" => \A t \in Tracks : track[t] = "finished"
    /\ phase' = "closed" /\ outcome' = result
    /\ UNCHANGED <<track, told>>

Tell(c) ==
    /\ phase = "closed" /\ c \notin told
    /\ told' = told \cup {c}
    /\ UNCHANGED <<phase, track, outcome>>

Next ==
    \/ Begin \/ BeginClosing
    \/ \E t \in Tracks : OpenTrack(t) \/ \E how \in {"finished", "failed"} : CloseTrack(t, how)
    \/ \E result \in {"ok", "error"} : Decide(result)
    \/ \E c \in Clients : Tell(c)

Spec == Init /\ [][Next]_vars
=============================================================================
