------------------------------- MODULE MCStudio -------------------------------
(***************************************************************************)
(* The Studio page, for TLC: its screen preview, one slot of the other     *)
(* devices and below both one source of each implementation, the live      *)
(* avatar, and the scenes and takes of its projects.  The initial state    *)
(* says which of them moves; the screen and the slot have the source as    *)
(* CaptureSources promises it, the takes have the capture as engine.       *)
(***************************************************************************)
EXTENDS ScreenCapture, DeviceCapture, CaptureSources, AvatarScene, StudioWorkflow

VARIABLE corner   \* of the page: "screen", "slot", "source", "avatar" or "scenes"

vars == <<corner, screenVars, slotVars, sourceVars, avatarSceneVars, studioVars>>

\* Users who open a project around a take or during it, who take twice with switches or restarts
\* in between, who mark, and who work on the scenes.
MCHabits == {{"p", "q", "open", "record"}, {"p", "record", "again", "switch"},
             {"p", "record", "again", "restart"}, {"p", "open", "record", "again", "mark"},
             {"p", "record", "switch", "remove", "changeSource"},
             {"p", "add", "remove", "select", "moveUp"},
             {"p", "duplicate", "moveUp", "moveDown", "changeSource"},
             {"p", "q", "open", "remove"}}

Init ==
    /\ corner \in {"screen", "slot", "source", "avatar", "scenes"}
    /\ ScreenInit /\ SlotInit /\ SourceInit /\ AvatarSceneInit /\ StudioInit
    /\ corner # "screen" => ~granted
    /\ corner # "slot" => slot = "camera"
    /\ corner # "source" => backend = "grab"
    /\ corner # "avatar" => renderer = "model"
    /\ corner # "scenes" => habit = CHOOSE h \in StudioHabits : TRUE

\* With nothing under way everybody may leave.
Rest == corner = "scenes" /\ Quiet /\ live.op = "Idle" /\ UNCHANGED vars

Next ==
    \/ /\ corner = "screen" /\ ScreenNext
       /\ UNCHANGED <<corner, slotVars, sourceVars, avatarSceneVars, studioVars>>
    \/ /\ corner = "slot" /\ SlotStep
       /\ UNCHANGED <<corner, screenVars, sourceVars, avatarSceneVars, studioVars>>
    \/ /\ corner = "source" /\ SourceNext
       /\ UNCHANGED <<corner, screenVars, slotVars, avatarSceneVars, studioVars>>
    \/ /\ corner = "avatar" /\ AvatarSceneNext
       /\ UNCHANGED <<corner, screenVars, slotVars, sourceVars, studioVars>>
    \/ /\ corner = "scenes" /\ StudioNext
       /\ UNCHANGED <<corner, screenVars, slotVars, sourceVars, avatarSceneVars>>

Spec ==
    /\ Init /\ [][Next \/ Rest]_vars
    /\ ScreenFairness /\ SlotFairness /\ SourceFairness /\ AvatarSceneFairness /\ StudioFairness

----------------------------------------------------------------------------
\* The types of the five.
TypeOK == ScreenTypeOK /\ SlotTypeOK /\ SourceTypeOK /\ AvatarSceneTypeOK /\ StudioTypeOK

\* What is shown as captured is captured, of the thing that is chosen, and recorded when
\* there is a recording; and nothing reaches the sink of a source that was stopped
\* (ScreenCaptureController, DeviceCaptureController and the sources).
CaptureInv == ScreenInv /\ SlotInv /\ SourceInv

\* Every permission, discovery and stop ends; an error is noticed, a system audio that
\* failed within its budget is started again, the avatar's thread is joined, and every
\* command of the scenes is answered (the controllers of the page).
PageEnds == ScreenEnds /\ SlotEnds /\ SourceEnds /\ SceneEnds /\ StudioEnds
=============================================================================
