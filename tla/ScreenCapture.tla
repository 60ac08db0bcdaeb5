----------------------------- MODULE ScreenCapture -----------------------------
(***************************************************************************)
(* The screen preview: ScreenCaptureController, its mailbox and fan-out,   *)
(* and the Studio page that starts and pauses it.                          *)
(*                                                                         *)
(* Permission, discovery and stop are asked of the system and answered     *)
(* through the event queue; a number (generation_) tells the answer that   *)
(* is awaited from the older ones: here an answer is fresh or it is not.   *)
(* The source is CaptureSources seen from above.                           *)
(***************************************************************************)
EXTENDS Naturals

CONSTANTS
    Targets,    \* screens and windows, 1..n
    Small       \* the targets the region does not fit

ASSUME ScreenAssumption == Targets \subseteq Nat \ {0} /\ Small \subseteq Targets

VARIABLES
    state,      \* state_
    granted,    \* the system's answer to permission_->status()
    snapshot,   \* targetSnapshot_
    selected,   \* selectedTargetId_, 0 when empty
    region,     \* region_
    source,     \* source_ and what it does
    applied,    \* target and region the source was made with
    mailbox,    \* mailbox_ is there
    told,       \* what waits in the mailbox
    tapped,     \* the fan-out has a recording sink
    recording,  \* a recording runs, and its sink: recordingSink_
    restart,    \* restartPreviewAfterStop_
    asked,      \* questions that are not answered
    page,       \* the Studio page is shown
    arming,     \* its timer screenAutoStart runs
    paused      \* history: the page was left with no recording running

screenVars == <<state, granted, snapshot, selected, region, source, applied, mailbox, told,
          tapped, recording, restart, asked, page, arming, paused>>

Regions == {"none", "set"}
Fits(r, t) == r = "set" => t \notin Small

busy == state \in {"CheckingPermission", "Discovering", "Starting", "Stopping"}
previewing == state = "Previewing"
canStopPreview == state \in {"Starting", "Previewing"}

ScreenInit ==
    /\ state = "Idle" /\ granted \in BOOLEAN
    /\ snapshot = {} /\ selected = 0 /\ region = "none"
    /\ source = "none" /\ applied = <<0, "none">> /\ mailbox = FALSE /\ told = {}
    /\ tapped = FALSE /\ recording = FALSE /\ restart = FALSE
    /\ asked = {} /\ page = "hidden" /\ arming = FALSE /\ paused = TRUE

\* ++generation_ and the question.
Ask(kind) == asked' = {[a EXCEPT !.fresh = FALSE] : a \in asked} \cup {[kind |-> kind, fresh |-> TRUE]}
Fresh(kind) == [kind |-> kind, fresh |-> TRUE]

capture == <<source, applied, mailbox, told, tapped>>
choice == <<snapshot, selected, region>>
screen == <<page, arming, paused>>

----------------------------------------------------------------------------
(* Permission and discovery                                                *)

beginDiscovery == state' = "Discovering" /\ Ask("discovery")

initialize ==
    /\ state = "Idle"
    /\ IF granted THEN beginDiscovery ELSE state' = "PermissionRequired" /\ UNCHANGED asked
    /\ UNCHANGED <<granted, capture, choice, recording, restart, screen>>

AskPermission == state' = "CheckingPermission" /\ Ask("permission")

\* The button is shown while permission is required.
requestPermission ==
    /\ page = "shown" /\ state = "PermissionRequired"
    /\ AskPermission
    /\ UNCHANGED <<granted, capture, choice, recording, restart, screen>>

\* Allowed while previewing: the source is left alone.
refreshTargets ==
    /\ page = "shown" /\ granted /\ ~busy
    /\ beginDiscovery
    /\ UNCHANGED <<granted, capture, choice, recording, restart, screen>>

\* An answer that is not awaited any more.
Ignored(a) == ~a.fresh \/ state # (CASE a.kind = "permission" -> "CheckingPermission"
                                     [] a.kind = "discovery" -> "Discovering"
                                     [] a.kind = "stop" -> "Stopping")

Drop(a) ==
    /\ Ignored(a)
    /\ asked' = asked \ {a}
    /\ UNCHANGED <<state, granted, capture, choice, recording, restart, screen>>

handlePermissionResult ==
    /\ Fresh("permission") \in asked /\ ~Ignored(Fresh("permission"))
    /\ \/ granted' = TRUE /\ beginDiscovery
       \/ /\ state' \in {"PermissionRequired", "Error"}
          /\ asked' = asked \ {Fresh("permission")} /\ UNCHANGED granted
    /\ UNCHANGED <<capture, choice, recording, restart, screen>>

handleDiscoveryResult ==
    /\ Fresh("discovery") \in asked /\ ~Ignored(Fresh("discovery"))
    /\ asked' = asked \ {Fresh("discovery")}
    /\ \/ state' = "Error" /\ UNCHANGED choice
       \/ \E found \in SUBSET Targets :
            /\ snapshot' = found
            /\ state' = IF found = {} THEN "Error" ELSE "Ready"
            /\ selected' = CASE selected \in found -> selected
                             [] found = {} -> 0
                             [] OTHER -> CHOOSE t \in found : \A u \in found : t <= u
            /\ UNCHANGED region
    /\ UNCHANGED <<granted, capture, recording, restart, screen>>

----------------------------------------------------------------------------
(* Start and stop                                                          *)

\* startPreview() in the state Ready.  The source of before, if any, goes with the
\* assignment, or stays when the new one cannot be made.
StartReady ==
    CASE selected \notin snapshot -> state' = "Ready" /\ UNCHANGED capture
      [] selected \in snapshot /\ ~Fits(region, selected) -> state' = "Error" /\ UNCHANGED capture
      [] OTHER ->
           \/ /\ state' = "Starting"
              /\ source' = "opening" /\ applied' = <<selected, region>>
              /\ mailbox' = TRUE /\ told' = {} /\ tapped' = recording
           \/ /\ state' = "Error"                                  \* create() fails, or start()
              /\ source' \in {source, "none"}
              /\ mailbox' = FALSE /\ told' = {} /\ tapped' = FALSE /\ UNCHANGED applied

startPreview == IF state = "Ready" THEN StartReady ELSE UNCHANGED <<state, capture>>

StopSource ==
    /\ state' = "Stopping" /\ Ask("stop")
    /\ source' = "stopping" /\ UNCHANGED <<applied, mailbox, told, tapped>>

\* The button, or the key.
StartButton ==
    /\ page = "shown" /\ ~canStopPreview /\ ~busy /\ selected # 0
    /\ startPreview
    /\ UNCHANGED <<granted, choice, recording, restart, asked, screen>>

stopPreview ==
    /\ page = "shown" /\ canStopPreview
    /\ StopSource
    /\ UNCHANGED <<granted, choice, recording, restart, screen>>

handleStopResult ==
    /\ Fresh("stop") \in asked /\ ~Ignored(Fresh("stop"))
    /\ asked' = asked \ {Fresh("stop")}
    /\ \/ /\ state' = "Error"                                      \* restart stays as it is
          /\ source' = "none" /\ mailbox' = FALSE /\ told' = {} /\ tapped' = FALSE
          /\ UNCHANGED <<applied, restart>>
       \/ IF restart
          THEN /\ restart' = FALSE
               /\ StartReady
          ELSE /\ state' = "Ready"
               /\ source' = "none" /\ mailbox' = FALSE /\ told' = {} /\ tapped' = FALSE
               /\ UNCHANGED <<applied, restart>>
    /\ UNCHANGED <<granted, choice, recording, screen>>

----------------------------------------------------------------------------
(* The choice of target and region                                         *)

\* A change while previewing stops the preview, to start it again on what is chosen.
Reapply(settled) ==
    IF previewing
    THEN restart' = TRUE /\ StopSource
    ELSE UNCHANGED <<restart, asked, capture>> /\ state' = settled

selectTarget(t) ==
    /\ page = "shown" /\ ~busy /\ t \in snapshot
    /\ selected' = t
    /\ Reapply(IF state = "Error" THEN "Ready" ELSE state)
    /\ UNCHANGED <<granted, snapshot, region, recording, screen>>

setRegion(r) ==
    /\ page = "shown" /\ ~busy /\ r # "none"
    /\ selected \in snapshot => Fits(r, selected)
    /\ region' = r
    /\ Reapply(state)
    /\ UNCHANGED <<granted, snapshot, selected, recording, screen>>

clearRegion ==
    /\ page = "shown" /\ ~busy /\ (region # "none" \/ previewing)
    /\ region' = "none"
    /\ Reapply(state)
    /\ UNCHANGED <<granted, snapshot, selected, recording, screen>>

----------------------------------------------------------------------------
(* The source, the mailbox and the poll timer                              *)

\* onCaptureStarted and onCaptureError of the mailbox; an error takes the start with it.
SourceStarts ==
    /\ source = "opening"
    /\ source' = "running"
    /\ told' = IF mailbox THEN told \cup {"started"} ELSE told
    /\ UNCHANGED <<state, granted, applied, mailbox, tapped, choice, recording, restart, asked, screen>>

SourceFails ==
    /\ source \in {"opening", "running"}
    /\ source' = "broken"
    /\ told' = IF mailbox THEN {"error"} ELSE told
    /\ UNCHANGED <<state, granted, applied, mailbox, tapped, choice, recording, restart, asked, screen>>

pollCapture ==
    /\ mailbox /\ state # "Stopping"
    /\ IF "error" \in told
       THEN /\ state' = "Error"
            /\ source' = "none" /\ mailbox' = FALSE /\ told' = {} /\ tapped' = FALSE
            /\ UNCHANGED applied
       ELSE /\ state = "Starting" /\ "started" \in told
            /\ state' = "Previewing" /\ told' = told \ {"started"}
            /\ UNCHANGED <<source, applied, mailbox, tapped>>
    /\ UNCHANGED <<granted, choice, recording, restart, asked, screen>>

\* setRecordingSink at the start of a recording that found the source, and at its end.
setRecordingSink ==
    /\ recording \/ source \in {"opening", "running"}
    /\ recording' = ~recording
    /\ tapped' = IF mailbox THEN ~recording ELSE tapped
    /\ UNCHANGED <<state, granted, source, applied, mailbox, told, choice, restart, asked, screen>>

----------------------------------------------------------------------------
(* The page                                                                *)

ShowPage ==
    /\ page = "hidden"
    /\ page' = "shown" /\ arming' = TRUE /\ paused' = FALSE
    /\ UNCHANGED <<state, granted, capture, choice, recording, restart, asked>>

\* The preview is paused unless a recording runs.
HidePage ==
    /\ page = "shown"
    /\ page' = "hidden"
    /\ IF recording
       THEN UNCHANGED <<state, capture, asked, arming, paused>>
       ELSE /\ arming' = FALSE /\ paused' = TRUE
            /\ IF canStopPreview THEN StopSource ELSE UNCHANGED <<state, capture, asked>>
    /\ UNCHANGED <<granted, choice, recording, restart>>

\* The timer starts what is not started, up to 20 times.
ArmTick ==
    /\ arming
    /\ arming' \in BOOLEAN
    /\ IF ~canStopPreview /\ ~busy /\ selected # 0
       THEN IF state = "PermissionRequired"
            THEN AskPermission /\ UNCHANGED capture
            ELSE startPreview /\ UNCHANGED asked
       ELSE UNCHANGED <<state, capture, asked>>
    /\ UNCHANGED <<granted, choice, recording, restart, page, paused>>

User ==
    \/ initialize \/ requestPermission \/ refreshTargets \/ StartButton \/ stopPreview
    \/ clearRegion \/ setRecordingSink \/ ShowPage \/ HidePage \/ ArmTick
    \/ \E t \in Targets : selectTarget(t)
    \/ \E r \in Regions : setRegion(r)

Results ==
    \/ handlePermissionResult \/ handleDiscoveryResult \/ handleStopResult
    \/ \E a \in asked : Drop(a)

ScreenNext == User \/ Results \/ SourceStarts \/ SourceFails \/ pollCapture

\* What is asked of the system is answered: SourceEnds of CaptureSources for a stop.
ScreenFairness ==
    /\ WF_screenVars(handlePermissionResult) /\ WF_screenVars(handleDiscoveryResult)
    /\ WF_screenVars(handleStopResult) /\ WF_screenVars(pollCapture)

ScreenSpec == ScreenInit /\ [][ScreenNext]_screenVars /\ ScreenFairness

----------------------------------------------------------------------------
(* Properties                                                              *)

\* The variables have their types.
ScreenTypeOK ==
    /\ state \in {"Idle", "PermissionRequired", "CheckingPermission", "Discovering", "Ready",
                  "Starting", "Previewing", "Stopping", "Error"}
    /\ granted \in BOOLEAN /\ snapshot \subseteq Targets /\ selected \in Targets \cup {0}
    /\ region \in Regions /\ applied \in (Targets \cup {0}) \X Regions
    /\ source \in {"none", "opening", "running", "broken", "stopping"}
    /\ mailbox \in BOOLEAN /\ told \subseteq {"started", "error"} /\ tapped \in BOOLEAN
    /\ recording \in BOOLEAN /\ restart \in BOOLEAN
    /\ asked \subseteq [kind : {"permission", "discovery", "stop"}, fresh : BOOLEAN]
    /\ page \in {"shown", "hidden"} /\ arming \in BOOLEAN /\ paused \in BOOLEAN

\* Whatever is refreshed, chosen, paused or lost meanwhile: the preview shows the target and
\* the region that are chosen, of a source that is there and whose frames the recording gets
\* too; and a state that waits for an answer of the system will have it.
ScreenInv ==
    /\ canStopPreview => applied = <<selected, region>>
    /\ canStopPreview => mailbox /\ source \in {"opening", "running", "broken"}
    /\ mailbox => tapped = recording
    /\ state = "CheckingPermission" => Fresh("permission") \in asked
    /\ state = "Discovering" => Fresh("discovery") \in asked
    /\ state = "Stopping" => Fresh("stop") \in asked

\* The states that wait for the system end, and a broken source is noticed.
ScreenEnds ==
    /\ \A s \in {"CheckingPermission", "Discovering", "Stopping"} : (state = s) ~> (state # s)
    /\ (source = "broken" /\ mailbox) ~> (source # "broken" \/ ~mailbox)

\* StudioPage.qml: the capture is paused while the page is not on screen, except for a
\* recording.  Refresh makes the controller forget that it previews, and a restart for a new
\* target comes after the page is left.
PausedWhenHidden ==
    page = "hidden" /\ paused => source \in {"none", "stopping", "broken"}
=============================================================================
