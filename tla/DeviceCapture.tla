----------------------------- MODULE DeviceCapture -----------------------------
(***************************************************************************)
(* One slot of DeviceCaptureController: the camera, the microphone or the  *)
(* system audio, with its source, its mailbox and its recording sink.      *)
(*                                                                         *)
(* Camera and microphone need a permission and a device, which may be      *)
(* unplugged; system audio needs neither and is restarted when it fails.   *)
(* As in ScreenCapture, an answer of the system is fresh when its number   *)
(* is still the one of the slot.                                           *)
(***************************************************************************)
EXTENDS Naturals

CONSTANTS
    Devices,        \* devices of the slot's kind, 1..n
    RestartLimit,   \* kSystemAudioRestartLimit
    MaxTimers       \* bound: restarts due when the user starts system audio again

ASSUME SlotAssumption == Devices \subseteq Nat \ {0} /\ RestartLimit \in Nat /\ MaxTimers \in Nat

VARIABLES
    slot,          \* which slot
    slotState,     \* cameraState_, microphoneState_ or systemAudioState_
    slotGranted,   \* the permission the controller knows of
    devices,       \* the devices it knows of
    device,        \* the device chosen, 0 when there is none
    slotSource,    \* the source and what it does
    using,         \* the device the source was made for
    overlooked,    \* history: that device was found gone, and the source runs on
    slotTold,      \* what waits in the mailbox
    slotTapped,    \* the fan-out has a recording sink
    slotRecording, \* the recording sink
    slotAfter,     \* the state after the stop
    slotAsked,     \* questions that are not answered
    attempts,      \* systemAudioRestartAttempts_
    timers         \* restarts that are due

slotVars == <<slot, slotState, slotGranted, devices, device, slotSource, using, overlooked, slotTold,
          slotTapped, slotRecording, slotAfter, slotAsked, attempts, timers>>

SlotKinds == {"camera", "microphone", "system"}
Audio == {"microphone", "system"}

slotBusy == slotState \in {"Starting", "Stopping"}
slotCanStop == slotSource # "none" /\ slotState \in {"Starting", "Capturing"}

FreshSlot(question) == [question |-> question, fresh |-> TRUE]
AskSlot(question) ==
    slotAsked' = {[a EXCEPT !.fresh = @ /\ a.question # question] : a \in slotAsked} \cup {FreshSlot(question)}

SlotInit ==
    /\ slot \in SlotKinds
    /\ slotState = IF slot = "system" THEN "Ready" ELSE "Disabled"
    /\ slotGranted = (slot = "system") /\ devices = {} /\ device = 0
    /\ slotSource = "none" /\ using = 0 /\ overlooked = FALSE
    /\ slotTold = {} /\ slotTapped = FALSE /\ slotRecording = FALSE
    /\ slotAfter = "Ready" /\ slotAsked = {} /\ attempts = 0 /\ timers = 0

slotCapture == <<slotSource, using, overlooked, slotTold, slotTapped>>
slotChoice == <<devices, device>>
slotRestarts == <<attempts, timers>>

----------------------------------------------------------------------------
(* Start and stop                                                          *)

SlotIdle(result) ==
    /\ slotState' = result /\ slotSource' = "none" /\ slotTold' = {} /\ slotTapped' = FALSE
    /\ overlooked' = FALSE /\ UNCHANGED using

\* startCamera, startMicrophone, startSystemAudio.
SlotStart ==
    \/ /\ slotState' = "Starting" /\ slotSource' = "opening" /\ using' = device /\ overlooked' = FALSE
       /\ slotTold' = {} /\ slotTapped' = slotRecording
    \/ SlotIdle("Error")

stopSlot(result) ==
    IF slotSource # "none" /\ slotState # "Stopping"
    THEN /\ slotAfter' = result
         /\ slotState' = "Stopping" /\ slotSource' = "stopping" /\ AskSlot("stop")
         /\ UNCHANGED <<using, overlooked, slotTold, slotTapped>>
    ELSE UNCHANGED <<slotAfter, slotState, slotAsked, slotCapture>>

\* The button of the slot, and the timer of the Studio page.
EnableSlot ==
    /\ ~slotCanStop /\ ~slotBusy
    /\ slot = "system" \/ (slotGranted /\ device \in devices)
    /\ slotSource = "none" /\ timers <= MaxTimers
    /\ SlotStart
    /\ attempts' = 0
    /\ UNCHANGED <<slot, slotGranted, slotChoice, slotRecording, slotAfter, slotAsked, timers>>

DisableSlot ==
    /\ slotCanStop
    /\ stopSlot("Ready")
    /\ UNCHANGED <<slot, slotGranted, slotChoice, slotRecording, slotRestarts>>

handleSlotStopResult ==
    /\ FreshSlot("stop") \in slotAsked
    /\ slotAsked' = slotAsked \ {FreshSlot("stop")}
    /\ IF slotState = "Stopping"
       THEN \E result \in {slotAfter, "Error"} : SlotIdle(result)
       ELSE UNCHANGED <<slotState, slotCapture>>
    /\ UNCHANGED <<slot, slotGranted, slotChoice, slotRecording, slotAfter, slotRestarts>>

----------------------------------------------------------------------------
(* Permission and devices                                                  *)

\* refreshDeviceSnapshots with what devices() found; a failure finds nothing and is an
\* error of a slot with no source.
refreshDeviceSnapshots(found, failed, hotplug, allowed) ==
    LET gone == device # 0 /\ device \notin found IN
    /\ devices' = found
    /\ device' = CASE device \in found -> device
                     [] found = {} -> 0
                     [] OTHER -> CHOOSE d \in found : \A e \in found : d <= e
    /\ IF hotplug /\ gone /\ slotSource # "none"
       THEN stopSlot("Error")
       ELSE /\ slotState' = IF slotSource # "none" THEN slotState
                            ELSE IF failed \/ slotState = "Error" THEN "Error"
                            ELSE IF allowed THEN "Ready" ELSE "PermissionRequired"
            /\ overlooked' = (overlooked \/ (gone /\ slotSource # "none"))
            /\ UNCHANGED <<slotAfter, slotSource, using, slotTold, slotTapped>>

initializeSlots ==
    /\ slotState = "Disabled"
    /\ slotGranted' \in BOOLEAN
    /\ \E found \in SUBSET Devices, failed \in BOOLEAN :
         /\ failed => found = {}
         /\ refreshDeviceSnapshots(found, failed, FALSE, slotGranted')
    /\ UNCHANGED <<slot, slotRecording, slotAsked, slotRestarts>>

\* The device change handler, queued to the controller's thread.
Hotplug ==
    /\ slot # "system" /\ slotState # "Disabled"
    /\ \E found \in SUBSET Devices, failed \in BOOLEAN :
         /\ failed => found = {}
         /\ refreshDeviceSnapshots(found, failed, TRUE, slotGranted)
         /\ ~(device # 0 /\ device \notin found /\ slotSource # "none") => UNCHANGED slotAsked
    /\ UNCHANGED <<slot, slotGranted, slotRecording, slotRestarts>>

\* refreshDevices, and handlePermissionResult of the other kind of device: both kinds are
\* listed again, and nothing is stopped.
RefreshDevices ==
    /\ slot # "system" /\ slotState # "Disabled"
    /\ \E found \in SUBSET Devices, failed \in BOOLEAN :
         /\ failed => found = {}
         /\ refreshDeviceSnapshots(found, failed, FALSE, slotGranted)
    /\ UNCHANGED <<slot, slotGranted, slotRecording, slotAsked, slotRestarts>>

requestSlotPermission ==
    /\ slot # "system" /\ slotState # "Disabled" /\ ~slotGranted /\ ~slotBusy
    /\ slotState' = "Starting" /\ AskSlot("permission")
    /\ UNCHANGED <<slot, slotGranted, slotCapture, slotChoice, slotRecording, slotAfter,
                   slotRestarts>>

handleSlotPermissionResult ==
    /\ FreshSlot("permission") \in slotAsked
    /\ slotAsked' = slotAsked \ {FreshSlot("permission")}
    /\ \/ slotState' = "Error" /\ UNCHANGED <<slotGranted, slotChoice, slotCapture, slotAfter>>
       \/ slotState' = "PermissionRequired" /\ slotGranted' = FALSE /\ UNCHANGED <<slotChoice, slotCapture, slotAfter>>
       \/ /\ slotGranted' = TRUE
          /\ \E found \in SUBSET Devices, failed \in BOOLEAN :
               /\ failed => found = {}
               /\ refreshDeviceSnapshots(found, failed, FALSE, TRUE)
    /\ UNCHANGED <<slot, slotRecording, slotRestarts>>

\* An answer to an older question is dropped.
DropSlotAnswer(a) ==
    /\ ~a.fresh
    /\ slotAsked' = slotAsked \ {a}
    /\ UNCHANGED <<slot, slotState, slotGranted, slotCapture, slotChoice, slotRecording,
                   slotAfter, slotRestarts>>

selectDevice(d) ==
    /\ d \in devices /\ slotSource = "none" /\ ~slotBusy
    /\ device' = d
    /\ UNCHANGED <<slot, slotState, slotGranted, devices, slotCapture, slotRecording,
                   slotAfter, slotAsked, slotRestarts>>

----------------------------------------------------------------------------
(* The source, the mailbox and the poll timer                              *)

SlotSourceStarts ==
    /\ slotSource = "opening"
    /\ slotSource' = "running" /\ slotTold' = slotTold \cup {"started"}
    /\ UNCHANGED <<slot, slotState, slotGranted, using, overlooked, slotTapped, slotChoice,
                   slotRecording, slotAfter, slotAsked, slotRestarts>>

\* A terminal error.  The video mailbox forgets a start that was not taken.
SlotSourceFails ==
    /\ slotSource \in {"opening", "running"}
    /\ slotSource' = "broken" /\ slotTold' = IF slot = "camera" THEN {"error"} ELSE slotTold \cup {"error"}
    /\ UNCHANGED <<slot, slotState, slotGranted, using, overlooked, slotTapped, slotChoice,
                   slotRecording, slotAfter, slotAsked, slotRestarts>>

\* The poll comes too late for the 128 blocks of the audio queue: an error of the mailbox
\* while the source is well.
QueueFull ==
    /\ slot \in Audio /\ slotSource = "running"
    /\ slotTold' = slotTold \cup {"error"}
    /\ UNCHANGED <<slot, slotState, slotGranted, slotSource, using, overlooked, slotTapped, slotChoice,
                   slotRecording, slotAfter, slotAsked, slotRestarts>>

\* The loopback device of Windows is gone, and nothing is told (DeviceLost of CaptureSources).
SourceVanishes ==
    /\ slot = "system" /\ slotSource = "running"
    /\ slotSource' = "gone"
    /\ UNCHANGED <<slot, slotState, slotGranted, using, overlooked, slotTold, slotTapped, slotChoice,
                   slotRecording, slotAfter, slotAsked, slotRestarts>>

\* Mutant: a system audio that fails is always restarted.
pollSlotForEver ==
    /\ slotSource # "none" /\ slotState # "Stopping" /\ slotTold # {}
    /\ IF "error" \in slotTold
       THEN /\ SlotIdle("Error")
            /\ IF slot = "system"
               THEN attempts' = attempts + 1 /\ timers' = timers + 1
               ELSE UNCHANGED slotRestarts
       ELSE /\ slotState' = IF slotState = "Starting" THEN "Capturing" ELSE slotState
            /\ slotTold' = {}
            /\ UNCHANGED <<slotSource, using, overlooked, slotTapped, slotRestarts>>
    /\ UNCHANGED <<slot, slotGranted, slotChoice, slotRecording, slotAfter, slotAsked>>

\* pollCapture, drainAudio and terminateSlot.
pollSlot ==
    /\ slotSource # "none" /\ slotState # "Stopping" /\ slotTold # {}
    /\ IF "error" \in slotTold
       THEN /\ SlotIdle("Error")
            /\ IF slot = "system" /\ attempts < RestartLimit
               THEN attempts' = attempts + 1 /\ timers' = timers + 1
               ELSE UNCHANGED slotRestarts
       ELSE /\ slotState' = IF slotState = "Starting" THEN "Capturing" ELSE slotState
            /\ slotTold' = {}
            /\ UNCHANGED <<slotSource, using, overlooked, slotTapped, slotRestarts>>
    /\ UNCHANGED <<slot, slotGranted, slotChoice, slotRecording, slotAfter, slotAsked>>

\* QTimer::singleShot of terminateSlot.
restartSystemAudio ==
    /\ timers > 0 /\ timers' = timers - 1
    /\ IF slotSource = "none" /\ slotState = "Error" THEN SlotStart ELSE UNCHANGED <<slotState, slotCapture>>
    /\ UNCHANGED <<slot, slotGranted, slotChoice, slotRecording, slotAfter, slotAsked,
                   attempts>>

\* setCameraRecordingSink and the like: at the start of a recording that found the source,
\* and at its end.
setSlotRecordingSink ==
    /\ slotRecording \/ slotSource # "none"
    /\ slotRecording' = ~slotRecording
    /\ slotTapped' = (slotSource # "none" /\ ~slotRecording)
    /\ UNCHANGED <<slot, slotState, slotGranted, slotSource, using, overlooked, slotTold, slotChoice,
                   slotAfter, slotAsked, slotRestarts>>

SlotResults ==
    \/ handleSlotStopResult \/ handleSlotPermissionResult
    \/ \E a \in slotAsked : DropSlotAnswer(a)

SlotStep ==
    \/ initializeSlots \/ EnableSlot \/ DisableSlot \/ requestSlotPermission \/ setSlotRecordingSink
    \/ \E d \in Devices : selectDevice(d)
    \/ Hotplug \/ RefreshDevices \/ SlotResults
    \/ SlotSourceStarts \/ SlotSourceFails \/ QueueFull \/ SourceVanishes
    \/ pollSlot \/ restartSystemAudio

\* The system answers (SourceEnds of CaptureSources for a stop), and the timers fire.
SlotFairness ==
    /\ WF_slotVars(handleSlotStopResult) /\ WF_slotVars(handleSlotPermissionResult)
    /\ WF_slotVars(pollSlot) /\ WF_slotVars(restartSystemAudio)

SlotSpec == SlotInit /\ [][SlotStep]_slotVars /\ SlotFairness

----------------------------------------------------------------------------
(* Properties                                                              *)

\* The variables have their types.
SlotTypeOK ==
    /\ slot \in SlotKinds
    /\ slotState \in {"Disabled", "PermissionRequired", "Ready", "Starting", "Capturing", "Stopping", "Error"}
    /\ slotGranted \in BOOLEAN /\ devices \subseteq Devices
    /\ device \in Devices \cup {0} /\ using \in Devices \cup {0}
    /\ slotSource \in {"none", "opening", "running", "broken", "gone", "stopping"}
    /\ overlooked \in BOOLEAN
    /\ slotTold \subseteq {"started", "error"} /\ slotTapped \in BOOLEAN /\ slotRecording \in BOOLEAN
    /\ slotAfter \in {"Ready", "Error"}
    /\ slotAsked \subseteq [question : {"permission", "stop"}, fresh : BOOLEAN]
    /\ attempts \in 0..RestartLimit /\ timers \in Nat

\* Only a camera or a microphone asks for a permission, and no source is there before it is
\* given (requestPermission and the completion that refreshes the devices).
SlotWaits ==
    /\ slot # "system" => timers = 0 /\ (slotSource # "none" => slotGranted)
    /\ FreshSlot("permission") \in slotAsked =>
           slot # "system" /\ ~slotGranted /\ slotState # "Disabled"
    /\ slotState = "Stopping" => slotSource = "stopping"

\* A device that is on can be turned off: whatever is answered late, unplugged or restarted,
\* a source is there exactly in the states that show one, it is of the device that is shown
\* as chosen unless that one was found gone by a refresh that stops nothing, and its sound
\* or picture goes to the recording that wants it.
SlotInv ==
    /\ slotSource # "none" => slotState \in {"Starting", "Capturing", "Stopping"}
    /\ slotState \in {"Capturing", "Stopping"} => slotSource # "none"
    /\ slot # "system" /\ slotSource \notin {"none", "stopping"} /\ ~overlooked =>
           using = device /\ using \in devices
    /\ slotSource # "none" => slotTapped = slotRecording
    /\ slotState = "Stopping" => FreshSlot("stop") \in slotAsked
    /\ slotState = "Starting" /\ slotSource = "none" => FreshSlot("permission") \in slotAsked
    /\ SlotWaits

\* The states that wait for the system end, an error is noticed, and a system audio that
\* failed within its budget is tried again.
SlotEnds ==
    /\ (slotState = "Stopping") ~> (slotState # "Stopping")
    /\ (slotState = "Starting" /\ slotSource = "none") ~> (slotState # "Starting" \/ slotSource # "none")
    /\ (slotSource = "broken") ~> (slotSource # "broken")
    /\ (timers > 0 /\ slotState = "Error") ~> (slotSource # "none" \/ timers = 0)

\* terminateSlot: without recovery one transient error silently kills PC-sound capture for
\* the rest of the session.  The worker ends without a word when the device is invalidated,
\* and the slot goes on showing a capture.
SystemAudioComesBack == (slotSource = "gone") ~> (slotSource # "gone")
=============================================================================
