------------------------ MODULE MCMultiTrackRecording ------------------------
(***************************************************************************)
(* MultiTrackRecording for TLC: two sources, and a thread that asks for a  *)
(* stop beside the observer.                                               *)
(***************************************************************************)
EXTENDS MultiTrackRecording, TLC
=============================================================================
