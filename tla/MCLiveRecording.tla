---------------------------- MODULE MCLiveRecording ----------------------------
(***************************************************************************)
(* What is recorded live, for TLC: the takes of the user, or the face      *)
(* tracking with its telemetry, of which the initial state names one.      *)
(***************************************************************************)
EXTENDS LiveRecording, FaceTracking, TLC

VARIABLE recording   \* "takes" or "face"

liveVars == <<recording, vars, faceVars>>

LiveInit ==
    /\ recording \in {"takes", "face"} /\ Init /\ FaceInit
    /\ recording # "takes" => (\A s \in Sessions : state[s] = "none")
    /\ recording # "face" => tracking = "live"

\* A step of the takes, when it is they that are recorded.
Taking(step) == recording = "takes" /\ step /\ UNCHANGED <<recording, faceVars>>

\* Nobody has to send a datagram.
LiveNext ==
    \/ Taking(Next)
    \/ recording = "face" /\ (FaceNext \/ UNCHANGED faceVars) /\ UNCHANGED <<recording, vars>>

LiveFairness ==
    /\ WF_liveVars(Taking(ProjectWorker)) /\ WF_liveVars(Taking(EventLoop))
    /\ WF_liveVars(Taking(Listener)) /\ WF_liveVars(Taking(EngineFinishes))

LiveSpec == LiveInit /\ [][LiveNext]_liveVars /\ LiveFairness

\* The types of the two.
LiveTypeOK == TypeOK /\ FaceTypeOK
=============================================================================
