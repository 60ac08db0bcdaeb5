------------------------------ MODULE StudioProofs ------------------------------
(***************************************************************************)
(* The Studio page, for any number of screens, devices, completions,       *)
(* avatars, packages, scenes and takes: what is shown as captured is       *)
(* captured, of the thing that is chosen; a source that was stopped is     *)
(* quiet; the avatar's page, its renderer, its settings and its takes      *)
(* agree; and so do the page of scenes, the worker, the package, the take  *)
(* that is recorded and the editor.                                        *)
(***************************************************************************)
EXTENDS MCStudio, SequenceTheorems, TLAPS, WellFoundedInduction

\* What CHOOSE picks of the targets or devices that were found.
LEMMA Smallest ==
    ASSUME NEW S, S \subseteq Nat, S # {}
    PROVE  (CHOOSE d \in S : \A e \in S : d <= e) \in S
<1>1. PICK d \in S : \A e \in S : ~(<<e, d>> \in OpToRel(<, Nat))  BY NatLessThanWellFounded, WFMin
<1>2. ASSUME NEW e \in S PROVE d <= e
 <2>1. <<e, d>> \in Nat \X Nat  OBVIOUS
 <2>2. ~(e < d)  BY <1>1, <2>1 DEF OpToRel
 <2> QED  BY <2>2
<1> QED  BY <1>2

-----------------------------------------------------------------------------
(* The screen preview *)

ScreenIInv == ScreenTypeOK /\ ScreenInv

\* The types, with names for the larger sets.
ScreenStates == {"Idle", "PermissionRequired", "CheckingPermission", "Discovering", "Ready",
                 "Starting", "Previewing", "Stopping", "Error"}
Questions == [kind : {"permission", "discovery", "stop"}, fresh : BOOLEAN]
Applied == (Targets \cup {0}) \X Regions
SourceStates == {"none", "opening", "running", "broken", "stopping"}
Words == SUBSET {"started", "error"}

ScreenParts ==
    /\ state \in ScreenStates /\ asked \subseteq Questions
    /\ source \in SourceStates /\ applied \in Applied /\ told \in Words /\ mailbox \in BOOLEAN /\ tapped \in BOOLEAN
    /\ snapshot \subseteq Targets /\ selected \in Targets \cup {0} /\ region \in Regions
    /\ granted \in BOOLEAN /\ recording \in BOOLEAN /\ restart \in BOOLEAN
    /\ page \in {"shown", "hidden"} /\ arming \in BOOLEAN /\ paused \in BOOLEAN

LEMMA ScreenTypesAre == (ScreenTypeOK <=> ScreenParts) /\ (ScreenTypeOK' <=> ScreenParts')
BY DEF ScreenTypeOK, ScreenParts, ScreenStates, Questions, Applied, SourceStates, Words

\* Which of them change together.
ScreenPart == granted \in BOOLEAN /\ recording \in BOOLEAN /\ restart \in BOOLEAN
CapturePart ==
    source \in SourceStates /\ applied \in Applied /\ told \in Words /\ mailbox \in BOOLEAN /\ tapped \in BOOLEAN
ChoicePart == snapshot \subseteq Targets /\ selected \in Targets \cup {0} /\ region \in Regions
PagePart == page \in {"shown", "hidden"} /\ arming \in BOOLEAN /\ paused \in BOOLEAN

\* The variables of the screen preview keep their types.
LEMMA ScreenTypes == ScreenTypeOK /\ [ScreenNext]_screenVars => ScreenTypeOK'
<1> SUFFICES ASSUME ScreenParts, [ScreenNext]_screenVars PROVE ScreenParts'  BY ScreenTypesAre
<1> USE DEF capture, choice, screen
<1> DEFINE Asked == asked \subseteq Questions
<1>t. /\ state \in ScreenStates /\ Asked /\ CapturePart /\ ChoicePart /\ PagePart /\ ScreenPart
  BY DEF ScreenParts, CapturePart, ChoicePart, PagePart, ScreenPart
<1>q. ASSUME state' \in ScreenStates, Asked', CapturePart', ChoicePart', PagePart', ScreenPart' PROVE ScreenParts'
  BY <1>q DEF ScreenParts, CapturePart, ChoicePart, PagePart, ScreenPart
<1>u. /\ UNCHANGED capture => CapturePart' /\ source' = source
      /\ UNCHANGED choice => ChoicePart'
      /\ UNCHANGED screen => PagePart'
      /\ UNCHANGED <<granted, recording, restart>> => ScreenPart'
  BY <1>t DEF CapturePart, ChoicePart, PagePart, ScreenPart
<1>m. ScreenStates = {"Idle", "PermissionRequired", "CheckingPermission", "Discovering", "Ready",
                      "Starting", "Previewing", "Stopping", "Error"}
  BY DEF ScreenStates
<1>a. ASSUME NEW kind \in {"permission", "discovery", "stop"}, Ask(kind) PROVE Asked'
 <2>1. \A a \in Questions : [a EXCEPT !.fresh = FALSE] \in Questions  BY DEF Questions
 <2>2. [kind |-> kind, fresh |-> TRUE] \in Questions  BY <1>a DEF Questions
 <2> QED  BY <1>a, <1>t, <2>1, <2>2 DEF Ask
<1>d. ASSUME NEW a, asked' = asked \ {a} PROVE Asked'  BY <1>d, <1>t
<1>s. ASSUME StopSource PROVE state' = "Stopping" /\ CapturePart' /\ Asked'
  BY <1>a, <1>s, <1>t DEF StopSource, CapturePart, SourceStates
<1>n. ASSUME source' = "none", mailbox' = FALSE, told' = {}, tapped' = FALSE, applied' = applied PROVE CapturePart'
  BY <1>n, <1>t DEF CapturePart, SourceStates, Words
<1>r. ASSUME StartReady PROVE state' \in {"Ready", "Error", "Starting"} /\ CapturePart'
 <2>1. CASE selected \notin snapshot  BY <1>r, <1>u, <2>1 DEF StartReady
 <2>2. CASE selected \in snapshot /\ ~Fits(region, selected)  BY <1>r, <1>u, <2>2 DEF StartReady
 <2>3. CASE selected \in snapshot /\ Fits(region, selected)
  <3>1. \/ /\ state' = "Starting" /\ source' = "opening" /\ applied' = <<selected, region>>
           /\ mailbox' = TRUE /\ told' = {} /\ tapped' = recording
        \/ /\ state' = "Error" /\ source' \in {source, "none"}
           /\ mailbox' = FALSE /\ told' = {} /\ tapped' = FALSE /\ UNCHANGED applied
    BY <1>r, <2>3 DEF StartReady
  <3>2. <<selected, region>> \in Applied  BY <1>t DEF ChoicePart, Applied
  <3> QED  BY <1>t, <3>1, <3>2 DEF CapturePart, ScreenPart, SourceStates, Words
 <2> QED  BY <2>1, <2>2, <2>3
<1> HIDE DEF Asked
<1>1. CASE initialize \/ requestPermission \/ refreshTargets
  BY <1>1, <1>a, <1>m, <1>q, <1>t, <1>u DEF initialize, requestPermission, refreshTargets,
    AskPermission, beginDiscovery, Asked
<1>2. CASE handlePermissionResult
  BY <1>2, <1>t, <1>a, <1>d, <1>m, <1>q, <1>u DEF handlePermissionResult, beginDiscovery, ScreenPart
<1>3. CASE handleDiscoveryResult
 <2>0. /\ state' \in {"Error", "Ready"} /\ asked' = asked \ {Fresh("discovery")}
       /\ UNCHANGED <<granted, capture, recording, restart, screen>>
   BY <1>3 DEF handleDiscoveryResult
 <2>1. ChoicePart'
  <3>1. CASE UNCHANGED choice  BY <1>u, <3>1
  <3>2. CASE ~UNCHANGED choice
   <4>1. PICK found \in SUBSET Targets :
             /\ snapshot' = found /\ region' = region
             /\ selected' = CASE selected \in found -> selected
                               [] found = {} -> 0
                               [] OTHER -> CHOOSE t \in found : \A u \in found : t <= u
     BY <1>3, <3>2 DEF handleDiscoveryResult
   <4>2. CASE selected \in found \/ found = {}  BY <1>t, <4>1, <4>2 DEF ChoicePart
   <4>3. CASE selected \notin found /\ found # {}
     BY <4>3, Smallest, ScreenAssumption, <1>t, <4>1 DEF ScreenAssumption, ChoicePart
   <4> QED  BY <4>2, <4>3
  <3> QED  BY <3>1, <3>2
 <2> QED  BY <1>d, <1>m, <1>q, <1>u, <2>0, <2>1
<1>4. ASSUME NEW a \in asked, Drop(a) PROVE ScreenParts'  BY <1>4, <1>d, <1>q, <1>t, <1>u DEF Drop
<1>5. CASE StartButton  BY <1>5, <1>m, <1>q, <1>r, <1>t, <1>u DEF StartButton, startPreview, Asked
<1>6. CASE stopPreview  BY <1>6, <1>m, <1>q, <1>s, <1>t, <1>u DEF stopPreview
<1>7. CASE handleStopResult
  BY <1>7, <1>t, <1>d, <1>m, <1>n, <1>q, <1>r, <1>u DEF handleStopResult, ScreenPart
<1>8. ASSUME NEW settled \in {state, "Ready"}, Reapply(settled), UNCHANGED <<granted, recording>>
      PROVE  state' \in ScreenStates /\ CapturePart' /\ ScreenPart' /\ Asked'
  BY <1>8, <1>m, <1>s, <1>t, <1>u DEF Reapply, ScreenPart, Asked
<1>9. ASSUME NEW t \in Targets, selectTarget(t) PROVE ScreenParts'
 <2>1. PICK settled \in {state, "Ready"} : Reapply(settled)  BY <1>9 DEF selectTarget
 <2>2. ChoicePart'  BY <1>9, <1>t DEF selectTarget, ChoicePart
 <2>3. UNCHANGED <<granted, recording, screen>>  BY <1>9 DEF selectTarget
 <2> QED  BY <1>8, <1>q, <1>u, <2>1, <2>2, <2>3
<1>10. ASSUME NEW r \in Regions, setRegion(r) PROVE ScreenParts'
  BY <1>10, <1>t, <1>8, <1>q, <1>u DEF setRegion, ChoicePart
<1>11. CASE clearRegion  BY <1>11, <1>t, <1>8, <1>q, <1>u DEF clearRegion, ChoicePart, Regions
<1>12. CASE SourceStarts \/ SourceFails
  BY <1>12, <1>t, <1>q, <1>u DEF SourceStarts, SourceFails, CapturePart, SourceStates, Words, Asked
<1>13. CASE setRecordingSink
  BY <1>13, <1>t, <1>q, <1>u DEF setRecordingSink, CapturePart, ScreenPart, Asked
<1>14. CASE pollCapture
  BY <1>14, <1>n, <1>t, <1>m, <1>q, <1>u DEF pollCapture, CapturePart, Words, Asked
<1>15. CASE ShowPage \/ HidePage
  BY <1>t, <1>15, <1>m, <1>q, <1>s, <1>u DEF ShowPage, PagePart, HidePage, Asked
<1>16. CASE ArmTick
  BY <1>16, <1>t, <1>a, <1>m, <1>q, <1>r, <1>u DEF ArmTick, AskPermission, startPreview, PagePart,
    Asked
<1>17. CASE UNCHANGED screenVars  BY <1>17, <1>q, <1>t, <1>u DEF screenVars, Asked
<1> QED
  BY <1>1, <1>2, <1>3, <1>4, <1>5, <1>6, <1>7, <1>9, <1>10, <1>11, <1>12, <1>13, <1>14, <1>15,
   <1>16, <1>17 DEF ScreenNext, User, Results

LEMMA ScreenInvInit == ScreenInit => ScreenIInv
<1> SUFFICES ASSUME ScreenInit PROVE ScreenIInv  OBVIOUS
<1>1. ScreenInv  BY DEF ScreenInit, ScreenInv, previewing, canStopPreview
<1>2. applied \in Applied  BY DEF ScreenInit, Applied, Regions
<1>3. ScreenParts  BY <1>2 DEF ScreenInit, ScreenParts, ScreenStates, SourceStates, Words, Regions
<1> QED  BY <1>1, <1>3, ScreenTypesAre DEF ScreenIInv

\* A question asked is the one that is awaited.
LEMMA Asks ==
    ASSUME NEW kind, Ask(kind)
    PROVE  Fresh(kind) \in asked'
BY DEF Ask, Fresh

\* StopSource and StartReady, wherever they are done from.
LEMMA StopsSource ==
    ASSUME ScreenInv, StopSource, UNCHANGED recording
    PROVE  ScreenInv'
BY Asks DEF ScreenInv, StopSource, previewing, canStopPreview

LEMMA StartsReady ==
    ASSUME ScreenInv, StartReady, UNCHANGED <<selected, region, recording>>
    PROVE  ScreenInv'
  BY DEF StartReady, ScreenInv, capture, previewing, canStopPreview

LEMMA ScreenInvStep == ScreenInv /\ [ScreenNext]_screenVars => ScreenInv'
<1> SUFFICES ASSUME ScreenInv, [ScreenNext]_screenVars PROVE ScreenInv'  OBVIOUS
<1> USE DEF capture, choice, screen, busy, previewing, canStopPreview
<1> DEFINE Awaited == /\ state = "CheckingPermission" => Fresh("permission") \in asked
                      /\ state = "Discovering" => Fresh("discovery") \in asked
                      /\ state = "Stopping" => Fresh("stop") \in asked
           Captured == UNCHANGED <<source, applied, mailbox, tapped, selected, region, recording>>
\* A new question, of a state that waits for it.
<1>1. ASSUME NEW kind, Ask(kind), Captured,
             <<state', kind>> \in {<<"CheckingPermission", "permission">>, <<"Discovering", "discovery">>}
      PROVE  ScreenInv'
  BY <1>1, Asks DEF ScreenInv
<1>2. CASE initialize \/ requestPermission \/ refreshTargets
  BY <1>1, <1>2 DEF initialize, requestPermission, refreshTargets, AskPermission, beginDiscovery, ScreenInv
<1>3. CASE handlePermissionResult
  BY <1>1, <1>3 DEF handlePermissionResult, beginDiscovery, ScreenInv
<1>4. CASE handleDiscoveryResult
 <2>1. state' \in {"Error", "Ready"} /\ UNCHANGED <<mailbox, tapped, recording>>
   BY <1>4 DEF handleDiscoveryResult
 <2> QED  BY <2>1 DEF ScreenInv
<1>5. ASSUME NEW a \in asked, Drop(a) PROVE ScreenInv'
 <2>1. /\ state = "CheckingPermission" => a # Fresh("permission")
       /\ state = "Discovering" => a # Fresh("discovery")
       /\ state = "Stopping" => a # Fresh("stop")
   BY <1>5 DEF Drop, Ignored, Fresh
 <2> QED  BY <1>5, <2>1 DEF Drop, ScreenInv
<1>6. CASE StartButton
 <2>1. CASE state = "Ready"  BY <1>6, <2>1, StartsReady DEF StartButton, startPreview
 <2>2. CASE state # "Ready"  BY <1>6, <2>2 DEF StartButton, startPreview, ScreenInv
 <2> QED  BY <2>1, <2>2
<1>7. CASE stopPreview  BY <1>7, StopsSource DEF stopPreview
<1>8. CASE handleStopResult
 <2>1. CASE StartReady  BY <1>8, <2>1, StartsReady DEF handleStopResult
 <2>2. CASE ~StartReady
  <3>1. state' \in {"Error", "Ready"} /\ ~mailbox'  BY <1>8, <2>2 DEF handleStopResult
  <3> QED  BY <3>1 DEF ScreenInv
 <2> QED  BY <2>1, <2>2
\* A change of the choice: the preview is stopped for it, or there is none.
<1>9. ASSUME NEW settled, Reapply(settled), settled = state \/ settled = "Ready", ~busy, UNCHANGED recording
      PROVE  ScreenInv'
 <2>1. CASE previewing  BY <1>9, <2>1, StopsSource DEF Reapply
 <2>2. CASE ~previewing  BY <1>9, <2>2 DEF Reapply, ScreenInv
 <2> QED  BY <2>1, <2>2
<1>10. ASSUME NEW t \in Targets, selectTarget(t) PROVE ScreenInv'  BY <1>9, <1>10 DEF selectTarget
<1>11. ASSUME NEW r \in Regions, setRegion(r) PROVE ScreenInv'  BY <1>9, <1>11 DEF setRegion
<1>12. CASE clearRegion  BY <1>9, <1>12 DEF clearRegion
<1>13. CASE SourceStarts \/ SourceFails \/ setRecordingSink \/ ShowPage
  BY <1>13 DEF SourceStarts, SourceFails, setRecordingSink, ShowPage, ScreenInv
<1>14. CASE pollCapture  BY <1>14 DEF pollCapture, ScreenInv
<1>15. CASE HidePage
 <2>1. CASE StopSource  BY <1>15, <2>1, StopsSource DEF HidePage
 <2>2. CASE ~StopSource  BY <1>15, <2>2 DEF HidePage, ScreenInv
 <2> QED  BY <2>1, <2>2
<1>16. CASE ArmTick
 <2>1. CASE state = "Ready" /\ startPreview  BY <1>16, <2>1, StartsReady DEF ArmTick, startPreview
 <2>2. CASE AskPermission /\ UNCHANGED capture  BY <1>1, <1>16, <2>2 DEF ArmTick, AskPermission
 <2>3. CASE UNCHANGED <<state, capture, asked>>  BY <1>16, <2>3 DEF ArmTick, ScreenInv
 <2> QED  BY <1>16, <2>1, <2>2, <2>3 DEF ArmTick, startPreview
<1>17. CASE UNCHANGED screenVars  BY <1>17 DEF screenVars, ScreenInv
<1> QED
  BY <1>2, <1>3, <1>4, <1>5, <1>6, <1>7, <1>8, <1>10, <1>11, <1>12, <1>13, <1>14, <1>15, <1>16,
   <1>17 DEF ScreenNext, User, Results

-----------------------------------------------------------------------------
(* One slot of the other devices *)

\* The types, with names for the larger sets and for what changes together.
SlotStates == {"Disabled", "PermissionRequired", "Ready", "Starting", "Capturing", "Stopping", "Error"}
SlotSources == {"none", "opening", "running", "broken", "gone", "stopping"}
SlotQuestions == [question : {"permission", "stop"}, fresh : BOOLEAN]

SlotCapturePart ==
    /\ slotSource \in SlotSources /\ using \in Devices \cup {0} /\ overlooked \in BOOLEAN
    /\ slotTold \in Words /\ slotTapped \in BOOLEAN
SlotChoicePart == devices \subseteq Devices /\ device \in Devices \cup {0}
SlotRestartPart == attempts \in 0..RestartLimit /\ timers \in Nat
SlotPart == slot \in SlotKinds /\ slotGranted \in BOOLEAN /\ slotRecording \in BOOLEAN
SlotStatePart == slotState \in SlotStates /\ slotAfter \in {"Ready", "Error"}
SlotParts ==
    SlotStatePart /\ SlotCapturePart /\ SlotChoicePart /\ SlotRestartPart /\ SlotPart /\ slotAsked \subseteq SlotQuestions

LEMMA SlotTypesAre == (SlotTypeOK <=> SlotParts) /\ (SlotTypeOK' <=> SlotParts')
BY DEF SlotTypeOK, SlotParts, SlotStates, SlotSources, SlotQuestions, SlotCapturePart, SlotChoicePart,
       SlotRestartPart, SlotPart, SlotStatePart, Words

\* A question keeps those of the other kind as they are.
LEMMA AsksSlot ==
    ASSUME slotAsked \subseteq SlotQuestions, NEW question \in {"permission", "stop"}, AskSlot(question)
    PROVE  /\ slotAsked' \subseteq SlotQuestions
           /\ FreshSlot(question) \in slotAsked'
           /\ \A other : other # question => (FreshSlot(other) \in slotAsked' <=> FreshSlot(other) \in slotAsked)
<1> DEFINE Worn(a) == [a EXCEPT !.fresh = @ /\ a.question # question]
<1>1. slotAsked' = {Worn(a) : a \in slotAsked} \cup {FreshSlot(question)}  BY DEF AskSlot
<1>2. \A a \in SlotQuestions :
          /\ Worn(a) \in SlotQuestions /\ Worn(a).question = a.question
          /\ Worn(a).fresh = (a.fresh /\ a.question # question)
  BY DEF SlotQuestions
<1>3. \A a \in SlotQuestions : \A q : a = FreshSlot(q) <=> a.question = q /\ a.fresh = TRUE
  BY DEF SlotQuestions, FreshSlot
<1>4. FreshSlot(question) \in SlotQuestions /\ \A q : FreshSlot(q).question = q /\ FreshSlot(q).fresh = TRUE
  BY DEF SlotQuestions, FreshSlot
<1>5. \A a \in SlotQuestions : a.fresh \in BOOLEAN  BY DEF SlotQuestions
<1> HIDE DEF Worn
<1>6. ASSUME NEW other, other # question, FreshSlot(other) \in slotAsked PROVE FreshSlot(other) \in slotAsked'
 <2>0. /\ FreshSlot(other) \in SlotQuestions
       /\ FreshSlot(other).question = other /\ FreshSlot(other).fresh = TRUE
   BY <1>4, <1>6
 <2>1. /\ Worn(FreshSlot(other)) \in SlotQuestions
       /\ Worn(FreshSlot(other)).question = other
       /\ Worn(FreshSlot(other)).fresh = TRUE
   BY <1>2, <2>0, <1>6
 <2>2. Worn(FreshSlot(other)) = FreshSlot(other)  BY <1>3, <2>1
 <2> QED  BY <1>1, <1>6, <2>2
<1>7. ASSUME NEW other, other # question, FreshSlot(other) \in slotAsked' PROVE FreshSlot(other) \in slotAsked
 <2>1. FreshSlot(other) # FreshSlot(question)  BY <1>4, <1>7
 <2>2. PICK a \in slotAsked : FreshSlot(other) = Worn(a)  BY <1>1, <1>7, <2>1
 <2>3. a \in SlotQuestions /\ a.question = other /\ a.fresh = TRUE  BY <1>2, <1>4, <1>5, <2>2
 <2>4. a = FreshSlot(other)  BY <1>3, <2>3
 <2> QED  BY <2>4
<1> QED  BY <1>1, <1>2, <1>4, <1>6, <1>7

\* What was found: a source whose device is gone is stopped or, with no hotplug, overlooked;
\* otherwise nothing happens to it.
LEMMA Refreshes ==
    ASSUME SlotParts, NEW found \in SUBSET Devices, NEW failed \in BOOLEAN, NEW hotplug \in BOOLEAN,
           NEW allowed \in BOOLEAN, refreshDeviceSnapshots(found, failed, hotplug, allowed)
    PROVE  /\ SlotChoicePart'
           /\ \/ hotplug /\ stopSlot("Error") /\ slotSource # "none"
              \/ /\ slotSource # "none" => slotState' = slotState
                 /\ slotSource = "none" => slotState' \in {"Error", "Ready", "PermissionRequired"}
                 /\ UNCHANGED <<slotAfter, slotSource, using, slotTold, slotTapped>> /\ SlotCapturePart'
                 /\ slotSource = "none" => UNCHANGED slotCapture
                 /\ hotplug => ~(device # 0 /\ device \notin found /\ slotSource # "none")
                 /\ slotSource # "none" /\ ~overlooked' => ~overlooked /\ ~(device # 0 /\ device \notin found)
                 /\ devices' = found /\ (device \in found => device' = device)
<1> DEFINE Gone == hotplug /\ device # 0 /\ device \notin found /\ slotSource # "none"
<1>1. /\ devices' = found
      /\ device' = CASE device \in found -> device
                     [] found = {} -> 0
                     [] OTHER -> CHOOSE d \in found : \A e \in found : d <= e
  BY DEF refreshDeviceSnapshots
<1>2. SlotChoicePart'  BY <1>1, Smallest, SlotAssumption DEF SlotChoicePart, SlotAssumption
<1>3. CASE Gone  BY <1>2, <1>3 DEF refreshDeviceSnapshots
<1>4. CASE ~Gone
 <2>1. /\ slotState' = IF slotSource # "none" THEN slotState
                       ELSE IF failed \/ slotState = "Error" THEN "Error"
                       ELSE IF allowed THEN "Ready" ELSE "PermissionRequired"
       /\ UNCHANGED <<slotAfter, slotSource, using, slotTold, slotTapped>>
   BY <1>4, Zenon DEF refreshDeviceSnapshots
 <2>2. /\ overlooked' <=> overlooked \/ (device # 0 /\ device \notin found /\ slotSource # "none")
       /\ overlooked' \in BOOLEAN /\ overlooked \in BOOLEAN
   BY <1>4, Zenon DEF refreshDeviceSnapshots, SlotParts, SlotCapturePart
 <2>3. SlotCapturePart'  BY <2>1, <2>2, Zenon DEF SlotParts, SlotCapturePart
 <2>4. slotSource = "none" => UNCHANGED slotCapture  BY <2>1, <2>2 DEF slotCapture
 <2>5. hotplug => ~(device # 0 /\ device \notin found /\ slotSource # "none")  BY <1>4
 <2>6. slotSource # "none" => slotState' = slotState  BY <2>1
 <2>7. slotSource = "none" => slotState' \in {"Error", "Ready", "PermissionRequired"}  BY <2>1
 <2>8. device \in found => device' = device  BY <1>1
 <2>9. slotSource # "none" /\ ~overlooked' => ~overlooked /\ ~(device # 0 /\ device \notin found)  BY <2>2, Zenon
 <2> QED  BY <1>1, <1>2, <2>1, <2>3, <2>4, <2>5, <2>6, <2>7, <2>8, <2>9
<1> QED  BY <1>3, <1>4

\* stopSlot(), wherever it is done from.
LEMMA StopsSlot ==
    ASSUME SlotParts, NEW result \in {"Ready", "Error"}, stopSlot(result)
    PROVE  /\ SlotStatePart' /\ SlotCapturePart' /\ slotAsked' \subseteq SlotQuestions
           /\ \/ /\ slotSource # "none" /\ slotState' = "Stopping" /\ slotSource' = "stopping"
                 /\ FreshSlot("stop") \in slotAsked'
                 /\ FreshSlot("permission") \in slotAsked' <=> FreshSlot("permission") \in slotAsked
                 /\ slotTapped' = slotTapped
              \/ UNCHANGED <<slotAfter, slotState, slotAsked, slotCapture>> /\ (slotSource = "none" \/ slotState = "Stopping")
  BY AsksSlot DEF stopSlot, SlotParts, SlotStatePart, SlotCapturePart, SlotStates, SlotSources,
    slotCapture

SlotIInv == SlotParts /\ SlotInv

LEMMA SlotInvInit == SlotInit => SlotIInv
<1> SUFFICES ASSUME SlotInit PROVE SlotIInv  OBVIOUS
<1> USE DEF SlotInit
<1>1. SlotStatePart /\ SlotCapturePart /\ SlotChoicePart
  BY DEF SlotStatePart, SlotCapturePart, SlotChoicePart, SlotStates, SlotSources, Words
<1>2. SlotRestartPart /\ SlotPart /\ slotAsked \subseteq SlotQuestions
 <2>1. 0 \in 0..RestartLimit  BY SlotAssumption DEF SlotAssumption
 <2>2. (slot = "system") \in BOOLEAN  OBVIOUS
 <2> QED  BY <2>1, <2>2 DEF SlotRestartPart, SlotPart
<1>3. slotState \in {"Ready", "Disabled"} /\ slotSource = "none"  OBVIOUS
<1>4. SlotInv  BY <1>3 DEF SlotInv, SlotWaits
<1> QED  BY <1>1, <1>2, <1>4 DEF SlotIInv, SlotParts

LEMMA SlotInvStep == SlotIInv /\ [SlotStep]_slotVars => SlotIInv'
<1> SUFFICES ASSUME SlotIInv, [SlotStep]_slotVars PROVE SlotIInv'  OBVIOUS
<1> USE DEF slotCapture, slotChoice, slotRestarts, slotBusy, slotCanStop
<1>i. /\ SlotParts /\ SlotInv /\ SlotWaits
      /\ SlotStatePart /\ SlotCapturePart /\ SlotChoicePart /\ SlotRestartPart /\ SlotPart /\ slotAsked \subseteq SlotQuestions
  BY DEF SlotIInv, SlotInv, SlotParts
<1>q. ASSUME SlotStatePart', SlotCapturePart', SlotChoicePart', SlotRestartPart', SlotPart',
             slotAsked' \subseteq SlotQuestions, SlotInv'
      PROVE  SlotIInv'
  BY <1>q DEF SlotIInv, SlotParts
<1>u. /\ UNCHANGED <<slotState, slotAfter>> => SlotStatePart'
      /\ UNCHANGED slotCapture => SlotCapturePart'
      /\ UNCHANGED slotChoice => SlotChoicePart'
      /\ UNCHANGED slotRestarts => SlotRestartPart'
      /\ UNCHANGED <<slot, slotGranted, slotRecording>> => SlotPart'
      /\ UNCHANGED slotAsked => slotAsked' \subseteq SlotQuestions
      /\ \A a : slotAsked' = slotAsked \ {a} => slotAsked' \subseteq SlotQuestions
  BY <1>i DEF SlotStatePart, SlotCapturePart, SlotChoicePart, SlotRestartPart, SlotPart
\* SlotIdle and SlotStart, wherever they are done from.
<1>d. ASSUME NEW result, SlotIdle(result)
      PROVE  slotState' = result /\ slotSource' = "none" /\ slotTapped' = FALSE /\ SlotCapturePart'
  BY <1>d, <1>i DEF SlotIdle, SlotCapturePart, SlotSources, Words
<1>s. ASSUME SlotStart
      PROVE  /\ SlotCapturePart'
             /\ \/ /\ slotState' = "Starting" /\ slotSource' = "opening" /\ using' = device
                   /\ slotTapped' = slotRecording
                \/ slotState' = "Error" /\ slotSource' = "none"
 <2>1. CASE SlotIdle("Error")  BY <1>d, <2>1
 <2>2. CASE ~SlotIdle("Error")
   BY <1>s, <1>i, <2>2 DEF SlotStart, SlotCapturePart, SlotChoicePart, SlotPart, SlotSources, Words
 <2> QED  BY <2>1, <2>2
<1>2. CASE EnableSlot
 <2>1. /\ SlotStart /\ slotSource = "none" /\ attempts' = 0 /\ timers' = timers
       /\ slotState \notin {"Starting", "Stopping"} /\ (slot # "system" => slotGranted /\ device \in devices)
       /\ UNCHANGED <<slot, slotGranted, slotChoice, slotRecording, slotAfter, slotAsked>>
   BY <1>2 DEF EnableSlot
 <2>2. SlotStatePart' /\ SlotRestartPart'
   BY <1>i, <1>s, <2>1, SlotAssumption DEF SlotStatePart, SlotRestartPart, SlotStates, SlotAssumption
 <2>3. SlotInv'  BY <1>i, <1>s, <2>1 DEF SlotInv, SlotWaits
 <2> QED  BY <1>q, <1>s, <1>u, <2>1, <2>2, <2>3
<1>3. CASE DisableSlot
 <2>1. stopSlot("Ready") /\ UNCHANGED <<slot, slotGranted, slotChoice, slotRecording, slotRestarts>>
   BY <1>3 DEF DisableSlot
 <2>2. SlotStatePart' /\ SlotCapturePart' /\ slotAsked' \subseteq SlotQuestions
   BY <1>i, <2>1, StopsSlot
 <2>3. SlotInv'  BY <1>i, <2>1, StopsSlot DEF SlotInv, SlotWaits
 <2> QED  BY <1>q, <1>u, <2>1, <2>2, <2>3
<1>4. CASE handleSlotStopResult
 <2>1. /\ slotAsked' = slotAsked \ {FreshSlot("stop")}
       /\ UNCHANGED <<slot, slotGranted, slotChoice, slotRecording, slotAfter, slotRestarts>>
   BY <1>4 DEF handleSlotStopResult
 <2>2. FreshSlot("permission") \in slotAsked' <=> FreshSlot("permission") \in slotAsked
   BY <2>1 DEF FreshSlot
 <2>3. CASE slotState = "Stopping"
  <3>1. PICK result \in {"Ready", "Error"} : SlotIdle(result)
    BY <1>4, <1>i, <2>3 DEF handleSlotStopResult, SlotStatePart
  <3>2. SlotStatePart'  BY <1>d, <1>i, <2>1, <3>1 DEF SlotStatePart, SlotStates
  <3>3. SlotInv'  BY <1>d, <1>i, <2>1, <2>2, <2>3, <3>1 DEF SlotInv, SlotWaits
  <3> QED  BY <1>d, <1>q, <1>u, <2>1, <3>1, <3>2, <3>3
 <2>4. CASE slotState # "Stopping"
  <3>1. UNCHANGED <<slotState, slotCapture>>  BY <1>4, <2>4 DEF handleSlotStopResult
  <3>2. SlotInv'  BY <1>i, <2>1, <2>2, <2>4, <3>1 DEF SlotInv, SlotWaits
  <3> QED  BY <1>q, <1>u, <2>1, <3>1, <3>2
 <2> QED  BY <2>3, <2>4
<1>6. CASE initializeSlots
 <2>1. /\ slotSource = "none" /\ slotState = "Disabled" /\ FreshSlot("permission") \notin slotAsked
       /\ UNCHANGED <<slot, slotRecording, slotAsked, slotRestarts>> /\ slotGranted' \in BOOLEAN
   BY <1>6, <1>i DEF initializeSlots, SlotInv, SlotWaits
 <2>2. PICK found \in SUBSET Devices, failed \in BOOLEAN : refreshDeviceSnapshots(found, failed, FALSE, slotGranted')
   BY <1>6 DEF initializeSlots
 <2>3. /\ slotState' \in {"Error", "Ready", "PermissionRequired"} /\ UNCHANGED <<slotAfter, slotCapture>>
       /\ SlotChoicePart'
   BY <1>i, <2>1, <2>2, Refreshes
 <2>4. SlotStatePart' /\ SlotPart'  BY <1>i, <2>1, <2>3 DEF SlotStatePart, SlotPart, SlotStates
 <2>5. SlotInv'  BY <1>i, <2>1, <2>3 DEF SlotInv, SlotWaits
 <2> QED  BY <1>q, <1>u, <2>1, <2>3, <2>4, <2>5
<1>7. CASE Hotplug
 <2>1. PICK found \in SUBSET Devices, failed \in BOOLEAN :
           /\ refreshDeviceSnapshots(found, failed, TRUE, slotGranted)
           /\ ~(device # 0 /\ device \notin found /\ slotSource # "none") => UNCHANGED slotAsked
   BY <1>7 DEF Hotplug
 <2>2. /\ UNCHANGED <<slot, slotGranted, slotRecording, slotRestarts>>
       /\ slot # "system" /\ slotState # "Disabled"
   BY <1>7 DEF Hotplug
 <2>g. slotGranted \in BOOLEAN  BY <1>i DEF SlotPart
 <2>c. SlotChoicePart'  BY <1>i, <2>1, <2>g, Refreshes
 <2>3. CASE stopSlot("Error") /\ slotSource # "none"
  <3>1. SlotStatePart' /\ SlotCapturePart' /\ slotAsked' \subseteq SlotQuestions
    BY <1>i, <2>3, StopsSlot
  <3>2. /\ slotState' = "Stopping" /\ slotSource' = "stopping" /\ slotTapped' = slotTapped
        /\ FreshSlot("stop") \in slotAsked'
        /\ FreshSlot("permission") \in slotAsked' <=> FreshSlot("permission") \in slotAsked
    BY <1>i, <2>3, StopsSlot DEF SlotInv, SlotWaits
  <3>3. SlotInv'  BY <1>i, <2>2, <2>3, <3>2 DEF SlotInv, SlotWaits
  <3> QED  BY <1>q, <1>u, <2>2, <2>c, <3>1, <3>3
 <2>4. CASE ~(stopSlot("Error") /\ slotSource # "none")
  <3>1. /\ slotSource # "none" => slotState' = slotState
        /\ slotSource = "none" => slotState' \in {"Error", "Ready", "PermissionRequired"}
        /\ UNCHANGED <<slotAfter, slotSource, using, slotTold, slotTapped>> /\ SlotCapturePart'
        /\ ~(device # 0 /\ device \notin found /\ slotSource # "none")
        /\ slotSource # "none" /\ ~overlooked' => ~overlooked
        /\ devices' = found /\ (device \in found => device' = device)
    BY <1>i, <2>1, <2>4, <2>g, Refreshes
  <3>2. UNCHANGED slotAsked  BY <2>1, <3>1
  <3>3. slotSource \notin {"none", "stopping"} /\ ~overlooked => device \in found
    BY <1>i, <2>2, <3>1, SlotAssumption DEF SlotInv, SlotChoicePart, SlotAssumption
  <3>4. SlotStatePart'  BY <1>i, <3>1 DEF SlotStatePart, SlotStates
  <3>5. SlotInv'  BY <1>i, <2>2, <3>1, <3>2, <3>3 DEF SlotInv, SlotWaits
  <3> QED  BY <1>q, <1>u, <2>2, <2>c, <3>1, <3>2, <3>4, <3>5
 <2> QED  BY <2>3, <2>4
<1>18. CASE RefreshDevices
 <2>1. PICK found \in SUBSET Devices, failed \in BOOLEAN : refreshDeviceSnapshots(found, failed, FALSE, slotGranted)
   BY <1>18 DEF RefreshDevices
 <2>2. /\ UNCHANGED <<slot, slotGranted, slotRecording, slotAsked, slotRestarts>>
       /\ slot # "system" /\ slotState # "Disabled"
   BY <1>18 DEF RefreshDevices
 <2>g. slotGranted \in BOOLEAN  BY <1>i DEF SlotPart
 <2>3. /\ slotSource # "none" => slotState' = slotState
       /\ slotSource = "none" => slotState' \in {"Error", "Ready", "PermissionRequired"}
       /\ UNCHANGED <<slotAfter, slotSource, using, slotTold, slotTapped>> /\ SlotCapturePart' /\ SlotChoicePart'
       /\ slotSource # "none" /\ ~overlooked' => ~overlooked /\ ~(device # 0 /\ device \notin found)
       /\ devices' = found /\ (device \in found => device' = device)
   BY <1>i, <2>1, <2>g, Refreshes
 <2>4. slotSource \notin {"none", "stopping"} /\ ~overlooked' => device \in found /\ device = using
   BY <1>i, <2>2, <2>3, SlotAssumption DEF SlotInv, SlotChoicePart, SlotAssumption
 <2>5. SlotStatePart'  BY <1>i, <2>3 DEF SlotStatePart, SlotStates
 <2>6. SlotInv'  BY <1>i, <2>2, <2>3, <2>4 DEF SlotInv, SlotWaits
 <2> QED  BY <1>q, <1>u, <2>2, <2>3, <2>5, <2>6
<1>8. CASE requestSlotPermission
 <2>1. /\ slot # "system" /\ slotState \notin {"Disabled", "Starting", "Stopping"} /\ ~slotGranted
       /\ slotState' = "Starting" /\ AskSlot("permission")
       /\ UNCHANGED <<slot, slotGranted, slotCapture, slotChoice, slotRecording, slotAfter, slotRestarts>>
   BY <1>8 DEF requestSlotPermission
 <2>2. slotAsked' \subseteq SlotQuestions /\ FreshSlot("permission") \in slotAsked'
   BY <1>i, <2>1, AsksSlot
 <2>3. slotSource = "none" /\ SlotStatePart'  BY <1>i, <2>1 DEF SlotWaits, SlotStatePart, SlotStates
 <2>4. SlotInv'  BY <1>i, <2>1, <2>2, <2>3 DEF SlotInv, SlotWaits
 <2> QED  BY <1>q, <1>u, <2>1, <2>2, <2>3, <2>4
<1>9. CASE handleSlotPermissionResult
 <2>1. /\ slotAsked' = slotAsked \ {FreshSlot("permission")} /\ FreshSlot("permission") \notin slotAsked'
       /\ UNCHANGED <<slot, slotRecording, slotRestarts>>
       /\ slotSource = "none" /\ slot # "system"
   BY <1>9, <1>i DEF handleSlotPermissionResult, SlotWaits
 <2>2. /\ slotState' \in {"Error", "Ready", "PermissionRequired"} /\ SlotChoicePart' /\ slotGranted' \in BOOLEAN
       /\ UNCHANGED <<slotCapture, slotAfter>>
  <3>1. CASE UNCHANGED <<slotChoice, slotCapture, slotAfter>> /\ slotState' \in {"Error", "PermissionRequired"}
             /\ slotGranted' \in {slotGranted, FALSE}
    BY <1>i, <1>u, <3>1 DEF SlotPart
  <3>2. ASSUME NEW found \in SUBSET Devices, NEW failed \in BOOLEAN, refreshDeviceSnapshots(found, failed, FALSE, TRUE),
               slotGranted' = TRUE
        PROVE  /\ slotState' \in {"Error", "Ready", "PermissionRequired"} /\ SlotChoicePart' /\ slotGranted' \in BOOLEAN
               /\ UNCHANGED <<slotCapture, slotAfter>>
    BY <1>i, <2>1, <3>2, Refreshes
  <3> QED  BY <1>9, <3>1, <3>2 DEF handleSlotPermissionResult
 <2>3. SlotStatePart' /\ SlotPart'  BY <1>i, <2>1, <2>2 DEF SlotStatePart, SlotPart, SlotStates
 <2>4. SlotInv'  BY <1>i, <2>1, <2>2 DEF SlotInv, SlotWaits
 <2> QED  BY <1>q, <1>u, <2>1, <2>2, <2>3, <2>4
<1>10. ASSUME NEW a \in slotAsked, DropSlotAnswer(a) PROVE SlotIInv'
 <2>1. /\ slotAsked' = slotAsked \ {a} /\ \A question : a # FreshSlot(question)
       /\ UNCHANGED <<slot, slotState, slotGranted, slotCapture, slotChoice, slotRecording, slotAfter, slotRestarts>>
   BY <1>10 DEF DropSlotAnswer, FreshSlot
 <2>2. SlotInv'  BY <1>i, <2>1 DEF SlotInv, SlotWaits
 <2> QED  BY <1>q, <1>u, <2>1, <2>2
<1>11. ASSUME NEW d \in Devices, selectDevice(d) PROVE SlotIInv'
 <2>1. /\ device' = d /\ slotSource = "none"
       /\ UNCHANGED <<slot, slotState, slotGranted, devices, slotCapture, slotRecording, slotAfter, slotAsked, slotRestarts>>
   BY <1>11 DEF selectDevice
 <2>2. SlotChoicePart'  BY <1>i, <2>1 DEF SlotChoicePart
 <2>3. SlotInv'  BY <1>i, <2>1 DEF SlotInv, SlotWaits
 <2> QED  BY <1>q, <1>u, <2>1, <2>2, <2>3
<1>12. CASE SlotSourceStarts \/ SlotSourceFails \/ QueueFull \/ SourceVanishes
 <2>1. /\ slotSource \in {"opening", "running"} /\ slotSource' \in {"running", "broken", "gone"} /\ slotTold' \in Words
       /\ UNCHANGED <<slot, slotState, slotGranted, using, overlooked, slotTapped, slotChoice, slotRecording, slotAfter, slotAsked,
                      slotRestarts>>
   BY <1>12, <1>i DEF SlotSourceStarts, SlotSourceFails, QueueFull, SourceVanishes, SlotCapturePart, Words
 <2>2. SlotCapturePart'  BY <1>i, <2>1 DEF SlotCapturePart, SlotSources
 <2>3. SlotInv'  BY <1>i, <2>1 DEF SlotInv, SlotWaits
 <2> QED  BY <1>q, <1>u, <2>1, <2>2, <2>3
<1>13. CASE pollSlot
 <2>1. /\ slotSource # "none" /\ slotState # "Stopping"
       /\ UNCHANGED <<slot, slotGranted, slotChoice, slotRecording, slotAfter, slotAsked>>
   BY <1>13 DEF pollSlot
 <2>2. CASE "error" \in slotTold
  <3>1. SlotIdle("Error")  BY <1>13, <2>2 DEF pollSlot
  <3>2. \/ UNCHANGED slotRestarts
        \/ slot = "system" /\ attempts < RestartLimit /\ attempts' = attempts + 1 /\ timers' = timers + 1
    BY <1>13, <2>2 DEF pollSlot
  <3>3. SlotRestartPart'  BY <1>i, <3>2, SlotAssumption DEF SlotRestartPart, SlotAssumption
  <3>4. SlotStatePart'  BY <1>d, <1>i, <2>1, <3>1 DEF SlotStatePart, SlotStates
  <3>5. slotState' = "Error" /\ slotSource' = "none" /\ (slot # "system" => UNCHANGED timers)
    BY <1>d, <3>1, <3>2
  <3>6. SlotInv'  BY <1>i, <2>1, <3>5 DEF SlotInv, SlotWaits
  <3> QED  BY <1>d, <1>q, <1>u, <2>1, <3>1, <3>3, <3>4, <3>6
 <2>3. CASE "error" \notin slotTold
  <3>1. /\ slotState' = IF slotState = "Starting" THEN "Capturing" ELSE slotState
        /\ slotTold' = {} /\ UNCHANGED <<slotSource, using, overlooked, slotTapped, slotRestarts>>
    BY <1>13, <2>3 DEF pollSlot
  <3>2. SlotStatePart' /\ SlotCapturePart'
    BY <1>i, <2>1, <3>1 DEF SlotStatePart, SlotCapturePart, SlotStates, Words
  <3>3. SlotInv'  BY <1>i, <2>1, <3>1 DEF SlotInv, SlotWaits
  <3> QED  BY <1>q, <1>u, <2>1, <3>1, <3>2, <3>3
 <2> QED  BY <2>2, <2>3
<1>14. CASE restartSystemAudio
 <2>1. /\ timers > 0 /\ timers' = timers - 1 /\ attempts' = attempts
       /\ UNCHANGED <<slot, slotGranted, slotChoice, slotRecording, slotAfter, slotAsked>>
   BY <1>14 DEF restartSystemAudio
 <2>2. slot = "system" /\ SlotRestartPart'  BY <1>i, <2>1 DEF SlotWaits, SlotRestartPart
 <2>3. CASE SlotStart /\ slotSource = "none" /\ slotState = "Error"
  <3>1. SlotStatePart'  BY <1>i, <1>s, <2>1, <2>3 DEF SlotStatePart, SlotStates
  <3>2. SlotInv'  BY <1>i, <1>s, <2>1, <2>2, <2>3 DEF SlotInv, SlotWaits
  <3> QED  BY <1>q, <1>s, <1>u, <2>1, <2>2, <2>3, <3>1, <3>2
 <2>4. CASE UNCHANGED <<slotState, slotCapture>>
  <3>1. SlotInv'  BY <1>i, <2>1, <2>2, <2>4 DEF SlotInv, SlotWaits
  <3> QED  BY <1>q, <1>u, <2>1, <2>2, <2>4, <3>1
 <2> QED  BY <1>14, <2>3, <2>4 DEF restartSystemAudio
<1>15. CASE setSlotRecordingSink
 <2>1. /\ slotRecording' = ~slotRecording /\ slotTapped' = (slotSource # "none" /\ ~slotRecording)
       /\ UNCHANGED <<slot, slotState, slotGranted, slotSource, using, overlooked, slotTold, slotChoice, slotAfter, slotAsked,
                      slotRestarts>>
   BY <1>15 DEF setSlotRecordingSink
 <2>2. slotRecording \in BOOLEAN /\ slotTapped' \in BOOLEAN /\ slotRecording' \in BOOLEAN
   BY <1>i, <2>1 DEF SlotPart
 <2>3. SlotPart' /\ SlotCapturePart'  BY <1>i, <2>1, <2>2 DEF SlotPart, SlotCapturePart
 <2>4. slotSource # "none" => slotTapped' = slotRecording'  BY <2>1
 <2>5. SlotInv'  BY <1>i, <2>1, <2>4 DEF SlotInv, SlotWaits
 <2> QED  BY <1>q, <1>u, <2>1, <2>3, <2>5
<1>16. CASE UNCHANGED slotVars
 <2>1. SlotInv'  BY <1>16, <1>i DEF slotVars, SlotInv, SlotWaits
 <2> QED  BY <1>16, <1>q, <1>u, <2>1 DEF slotVars
<1> QED
  BY <1>2, <1>3, <1>4, <1>6, <1>7, <1>8, <1>9, <1>10, <1>11, <1>12, <1>13, <1>14, <1>15, <1>16, <1>18 DEF
   SlotStep, SlotResults

-----------------------------------------------------------------------------
(* One source below them *)

Natives == {"none", "opening", "running", "ended"}
CallResults == {"none", "ok", "error"}

SourceLife ==
    /\ backend \in Backends /\ client \in {"new", "started", "failed", "joining", "stopped"}
    /\ native \in Natives /\ accepting \in BOOLEAN /\ closing \in {"none", "queued", "done"}
SourceCalls == rung \subseteq Calls /\ ringing \subseteq Calls /\ afterwards \subseteq {"stop", "answer"} \X Calls
SourceAnswers == waiting \subseteq Completions /\ answered \in [Completions -> CallResults]
SourceParts == SourceLife /\ SourceCalls /\ SourceAnswers

LEMMA SourceTypesAre == (SourceTypeOK <=> SourceParts) /\ (SourceTypeOK' <=> SourceParts')
BY DEF SourceTypeOK, SourceParts, SourceLife, SourceCalls, SourceAnswers, Natives, CallResults

\* SourceInv in two halves: what has reached the sink, and how far the teardown is.
SourceHeard ==
    /\ <<"answer", "frame">> \notin afterwards
    /\ backend \in UnderLock \cup Workers => \A call \in Calls : <<"stop", call>> \notin afterwards
SourceWaits == (\A c \in waiting : answered[c] = "none") /\ (closing = "done" => waiting = {})
SomeGoodAnswer == \E c \in Completions : answered[c] = "ok"

LEMMA SourceInvIs == SourceInv <=> SourceHeard /\ SourceWaits /\ SourceQuiets
BY DEF SourceInv, SourceHeard, SourceWaits

SourceIInv == SourceParts /\ SourceHeard /\ SourceWaits /\ SourceQuiets

LEMMA SourceInvInit == SourceInit => SourceIInv
<1> SUFFICES ASSUME SourceInit PROVE SourceIInv  OBVIOUS
<1> USE DEF SourceInit
<1>1. SourceParts  BY DEF SourceParts, SourceLife, SourceCalls, SourceAnswers, Natives, CallResults
<1>2. SourceHeard /\ SourceWaits  BY DEF SourceHeard, SourceWaits
<1>3. SourceQuiets  BY DEF SourceQuiets
<1> QED  BY <1>1, <1>2, <1>3 DEF SourceIInv

\* A call that is made finds nobody who has been told that there is none.
LEMMA Rings ==
    ASSUME SourceIInv, NEW call \in Calls, Ring(call), UNCHANGED backend,
           client = "stopped" => backend \notin UnderLock \cup Workers,
           call = "frame" => ~SomeGoodAnswer
    PROVE  SourceHeard' /\ rung' \subseteq Calls /\ afterwards' \subseteq {"stop", "answer"} \X Calls
<1> DEFINE AfterStop == IF client = "stopped" THEN {<<"stop", call>>} ELSE {}
           AfterAnswer == IF SomeGoodAnswer THEN {<<"answer", call>>} ELSE {}
<1>1. rung' = rung \cup {call} /\ afterwards' = afterwards \cup AfterStop \cup AfterAnswer
  BY DEF Ring, SomeGoodAnswer
<1>2. AfterStop \subseteq {"stop", "answer"} \X Calls /\ AfterAnswer \subseteq {"stop", "answer"} \X Calls
  OBVIOUS
<1>3. <<"answer", "frame">> \notin AfterStop \cup AfterAnswer  OBVIOUS
<1>4. backend \in UnderLock \cup Workers => \A other \in Calls : <<"stop", other>> \notin AfterStop \cup AfterAnswer
  OBVIOUS
<1> HIDE DEF AfterStop, AfterAnswer
<1>5. SourceHeard'  BY <1>1, <1>3, <1>4 DEF SourceIInv, SourceHeard
<1> QED  BY <1>1, <1>2, <1>5 DEF SourceIInv, SourceParts, SourceCalls

\* A call of a native side that runs, of the first half when it is not made under the mutex.
LEMMA CallsOut ==
    ASSUME SourceIInv, NEW call \in Calls, Call(call), UNCHANGED backend, native \in {"opening", "running"},
           backend \in UnderLock => accepting
    PROVE  SourceHeard' /\ SourceCalls' /\ ringing' \subseteq ringing \cup {call}
           /\ (backend \in UnderLock => ringing' = {})
  BY Rings DEF SourceIInv, SourceQuiets, SomeGoodAnswer, Call, SourceCalls, SourceHeard, SourceParts

LEMMA SourceInvStep == SourceIInv /\ [SourceNext]_sourceVars => SourceIInv'
<1> SUFFICES ASSUME SourceIInv, [SourceNext]_sourceVars PROVE SourceIInv'  OBVIOUS
<1>i. SourceLife /\ SourceCalls /\ SourceAnswers /\ SourceHeard /\ SourceWaits /\ SourceQuiets
  BY DEF SourceIInv, SourceParts
<1>q. ASSUME SourceLife', SourceCalls', SourceAnswers', SourceHeard', SourceWaits', SourceQuiets'
      PROVE  SourceIInv'
  BY <1>q DEF SourceIInv, SourceParts
<1>u. /\ UNCHANGED <<backend, client, native, accepting, closing>> => SourceLife'
      /\ UNCHANGED <<rung, ringing, afterwards>> => SourceCalls'
      /\ UNCHANGED <<waiting, answered>> => SourceAnswers'
      /\ UNCHANGED <<backend, afterwards>> => SourceHeard'
      /\ UNCHANGED <<closing, waiting, answered>> => SourceWaits'
  BY <1>i DEF SourceLife, SourceCalls, SourceAnswers, SourceHeard, SourceWaits
\* What the native side does while it runs.
<1>n. ASSUME UNCHANGED <<backend, client, closing, waiting, answered>>, native \in {"opening", "running"},
             native' \in {native, "running", "ended"}, accepting' \in {accepting, FALSE},
             SourceCalls', SourceHeard', backend \in UnderLock => ringing' = {},
             client = "stopped" => backend \notin Workers
      PROVE  SourceIInv'
 <2>1. SourceLife'  BY <1>i, <1>n DEF SourceLife, Natives
 <2>2. closing' # "done" /\ client' # "new" /\ native' # "none" /\ ~SomeGoodAnswer'
   BY <1>i, <1>n DEF SourceQuiets, SomeGoodAnswer
 <2>3. client' = "joining" => backend' \in Workers  BY <1>i, <1>n DEF SourceQuiets
 <2>4. client' = "stopped" => backend' \notin Workers /\ (backend' \in UnderLock => ~accepting')
   BY <1>i, <1>n DEF SourceQuiets
 <2>5. backend' \in UnderLock => ringing' = {}  BY <1>n
 <2>6. SourceQuiets'  BY <2>2, <2>3, <2>4, <2>5 DEF SourceQuiets, SomeGoodAnswer
 <2> QED  BY <1>n, <1>q, <1>u, <2>1, <2>6
<1>w. native \in {"opening", "running"} => (client = "stopped" => backend \notin Workers)
  BY <1>i DEF SourceQuiets
<1>1. CASE SourceStart
 <2>1. /\ client = "new" /\ client' \in {"started", "failed"} /\ native' \in {native, "opening"}
       /\ UNCHANGED <<backend, accepting, rung, ringing, closing, waiting, answered, afterwards>>
   BY <1>1 DEF SourceStart
 <2>2. ~SomeGoodAnswer /\ closing = "none" /\ native = "none" /\ ringing = {}
   BY <1>i, <2>1 DEF SourceQuiets, SomeGoodAnswer
 <2>3. SourceLife'  BY <1>i, <2>1, <2>2 DEF SourceLife, Natives
 <2>4. SourceQuiets'  BY <1>i, <2>1, <2>2 DEF SourceQuiets, SomeGoodAnswer
 <2> QED  BY <1>q, <1>u, <2>1, <2>3, <2>4
<1>2. CASE SourceStop
 <2>1. /\ client \in {"started", "failed"} /\ accepting' = FALSE /\ closing' \in {closing, "queued"}
       /\ closing # "none" => closing' = closing
       /\ IF backend \in Workers THEN client' = "joining" ELSE client' = "stopped"
       /\ UNCHANGED <<backend, native, rung, ringing, waiting, answered, afterwards>>
   BY <1>2 DEF SourceStop, BeginStop, StartReturned
 <2>2. SourceLife'  BY <1>i, <2>1 DEF SourceLife
 <2>3. SourceWaits'  BY <1>i, <2>1 DEF SourceWaits
 <2>4. SourceQuiets'  BY <1>i, <2>1 DEF SourceQuiets, UnderLock, Workers
 <2> QED  BY <1>q, <1>u, <2>1, <2>2, <2>3, <2>4
<1>3. CASE SourceJoined
 <2>1. /\ client = "joining" /\ client' = "stopped"
       /\ IF closing = "none" THEN native \in {"none", "ended"} /\ ringing = {} ELSE closing = "done"
       /\ UNCHANGED <<backend, native, accepting, rung, ringing, closing, waiting, answered, afterwards>>
   BY <1>3 DEF SourceJoined
 <2>2. SourceLife'  BY <1>i, <2>1 DEF SourceLife
 <2>3. SourceQuiets'  BY <1>i, <2>1 DEF SourceQuiets, UnderLock, Workers
 <2> QED  BY <1>q, <1>u, <2>1, <2>2, <2>3
<1>4. ASSUME NEW c \in Completions, StopAsync(c) PROVE SourceIInv'
 <2>1. /\ client \in {"started", "failed"} /\ answered[c] = "none" /\ c \notin waiting
       /\ UNCHANGED <<backend, client, native, rung, ringing, afterwards>>
   BY <1>4 DEF StopAsync, StartReturned
 <2>2. CASE backend \in Workers /\ closing # "none"
  <3>1. answered' = [answered EXCEPT ![c] = "error"] /\ UNCHANGED <<waiting, accepting, closing>>
    BY <1>4, <2>2 DEF StopAsync
  <3>2. SourceAnswers' /\ SourceWaits' /\ (SomeGoodAnswer' => SomeGoodAnswer)
    BY <1>i, <2>1, <3>1 DEF SourceAnswers, SourceWaits, CallResults, SomeGoodAnswer
  <3>3. SourceQuiets'  BY <1>i, <2>1, <3>1, <3>2 DEF SourceQuiets, SomeGoodAnswer
  <3> QED  BY <1>q, <1>u, <2>1, <3>1, <3>2, <3>3
 <2>3. CASE backend \notin Workers /\ (native = "none" \/ closing = "done")
  <3>1. answered' = [answered EXCEPT ![c] = "ok"] /\ UNCHANGED <<waiting, accepting, closing>>
    BY <1>4, <2>3 DEF StopAsync
  <3>2. SourceAnswers' /\ SourceWaits'
    BY <1>i, <2>1, <3>1 DEF SourceAnswers, SourceWaits, CallResults
  <3>3. SourceQuiets'  BY <1>i, <2>1, <2>3, <3>1 DEF SourceQuiets
  <3> QED  BY <1>q, <1>u, <2>1, <3>1, <3>2, <3>3
 <2>4. CASE ~(backend \in Workers /\ closing # "none") /\ ~(backend \notin Workers /\ (native = "none" \/ closing = "done"))
  <3>1. /\ waiting' = waiting \cup {c} /\ accepting' = FALSE /\ UNCHANGED answered
        /\ closing' = IF closing = "none" THEN "queued" ELSE closing
    BY <1>4, <2>4 DEF StopAsync
  <3>2. closing' = "queued" /\ closing # "done"  BY <1>i, <2>4, <3>1 DEF SourceLife
  <3>3. SourceLife' /\ SourceAnswers' /\ SourceWaits'
    BY <1>i, <2>1, <3>1, <3>2 DEF SourceLife, SourceAnswers, SourceWaits
  <3>4. SourceQuiets'  BY <1>i, <2>1, <3>1, <3>2 DEF SourceQuiets
  <3> QED  BY <1>q, <1>u, <2>1, <3>1, <3>3, <3>4
 <2> QED  BY <2>2, <2>3, <2>4
<1>5. ASSUME NEW tells \in BOOLEAN, Open(tells), backend \in UnderLock => (tells => accepting) PROVE SourceIInv'
 <2>1. /\ native = "opening" /\ native' = "running"
       /\ UNCHANGED <<backend, client, accepting, closing, waiting, answered>>
       /\ IF tells THEN Call("started") ELSE UNCHANGED <<rung, ringing, afterwards>>
   BY <1>5 DEF Open
 <2>2. SourceCalls' /\ SourceHeard' /\ (backend \in UnderLock => ringing' = {})
  <3>1. CASE tells  BY <1>5, <2>1, <3>1, CallsOut DEF Calls
  <3>2. CASE ~tells  BY <1>i, <1>u, <2>1, <3>2 DEF SourceQuiets
  <3> QED  BY <3>1, <3>2
 <2> QED  BY <1>n, <1>w, <2>1, <2>2
<1>6. CASE OpenGrab \/ OpenLoopback \/ OpenWgc \/ OpenStream \/ OpenSession \/ OpenAudio
 <2>1. accepting \in BOOLEAN  BY <1>i DEF SourceLife
 <2> QED
   BY <1>5, <1>6, <2>1 DEF OpenGrab, OpenLoopback, OpenWgc, OpenStream, OpenSession, OpenAudio, UnderLock
<1>7. ASSUME NEW bs, Frame(bs) PROVE SourceIInv'
 <2>1. /\ accepting /\ native \in {"opening", "running"} /\ Call("frame")
       /\ UNCHANGED <<backend, client, native, accepting, closing, waiting, answered>>
   BY <1>7 DEF Frame
 <2>2. SourceCalls' /\ SourceHeard' /\ (backend \in UnderLock => ringing' = {})
   BY <2>1, CallsOut DEF Calls
 <2> QED  BY <1>n, <1>w, <2>1, <2>2
<1>8. CASE FailDelivery
 <2>1. /\ accepting /\ native \in {"opening", "running"} /\ Call("error") /\ accepting' = FALSE
       /\ UNCHANGED <<backend, client, native, closing, waiting, answered>>
   BY <1>8 DEF FailDelivery
 <2>2. SourceCalls' /\ SourceHeard' /\ (backend \in UnderLock => ringing' = {})
   BY <2>1, CallsOut DEF Calls
 <2> QED  BY <1>n, <1>w, <2>1, <2>2
<1>9. CASE FailWorker
 <2>1. /\ backend \in Workers /\ native \in {"opening", "running"} /\ native' \in {native, "ended"}
       /\ Call("error") \/ UNCHANGED <<rung, ringing, afterwards>>
       /\ UNCHANGED <<backend, client, accepting, closing, waiting, answered>>
   BY <1>9 DEF FailWorker
 <2>2. backend \notin UnderLock  BY <2>1 DEF UnderLock, Workers
 <2>3. SourceCalls' /\ SourceHeard'
  <3>1. CASE Call("error")  BY <2>1, <2>2, <3>1, CallsOut DEF Calls
  <3>2. CASE UNCHANGED <<rung, ringing, afterwards>>  BY <1>u, <2>1, <3>2
  <3> QED  BY <2>1, <3>1, <3>2
 <2> QED  BY <1>n, <1>w, <2>1, <2>2, <2>3
<1>10. CASE DeviceLost \/ WorkerEnds
 <2>1. /\ native \in {"opening", "running"} /\ native' \in {native, "ended"} /\ accepting' \in {accepting, FALSE}
       /\ UNCHANGED <<backend, client, rung, ringing, closing, waiting, answered, afterwards>>
   BY <1>10 DEF DeviceLost, WorkerEnds
 <2>2. SourceCalls' /\ SourceHeard' /\ (backend \in UnderLock => ringing' = {})
   BY <1>i, <1>u, <2>1 DEF SourceQuiets
 <2> QED  BY <1>n, <1>w, <2>1, <2>2
\* The end of a teardown: what may still ring is no frame.
<1>11. ASSUME NEW results, results \subseteq {"ok", "error"}, finish(results), "frame" \notin ringing,
              backend \in Workers => ringing = {}
       PROVE  SourceIInv'
 <2>1. /\ closing = "queued" /\ closing' = "done" /\ native' = "ended" /\ waiting' = {}
       /\ UNCHANGED <<backend, client, accepting, rung, ringing, afterwards>>
   BY <1>11 DEF finish
 <2>2. PICK r \in results : answered' = [c \in Completions |-> IF c \in waiting THEN r ELSE answered[c]]
   BY <1>11 DEF finish
 <2>3. SourceAnswers'  BY <1>11, <1>i, <2>1, <2>2 DEF SourceAnswers, CallResults
 <2>4. SourceLife' /\ SourceWaits'  BY <1>i, <2>1 DEF SourceLife, SourceWaits, Natives
 <2>5. SourceQuiets'  BY <1>11, <1>i, <2>1 DEF SourceQuiets
 <2> QED  BY <1>q, <1>u, <2>1, <2>3, <2>4, <2>5
<1>12. CASE Close
 <2>1. CASE CloseWorker \/ CloseSession \/ CloseAudio
   BY <1>11, <2>1 DEF CloseWorker, CloseSession, CloseAudio, Workers
 <2>2. CASE CloseWgc \/ CloseStream
  <3>1. ringing = {}  BY <1>i, <2>2 DEF CloseWgc, CloseStream, SourceQuiets, UnderLock
  <3> QED  BY <1>11, <2>2, <3>1 DEF CloseWgc, CloseStream
 <2> QED  BY <1>12, <2>1, <2>2 DEF Close
<1>13. ASSUME NEW call \in Calls, CallSink(call) PROVE SourceIInv'
 <2>1. /\ call \in ringing /\ ringing' = ringing \ {call} /\ Ring(call)
       /\ UNCHANGED <<backend, client, native, accepting, closing, waiting, answered>>
   BY <1>13 DEF CallSink
 <2>2. /\ client = "stopped" => backend \notin UnderLock \cup Workers
       /\ call = "frame" => ~SomeGoodAnswer
   BY <1>i, <2>1 DEF SourceQuiets, SomeGoodAnswer
 <2>3. SourceHeard' /\ rung' \subseteq Calls /\ afterwards' \subseteq {"stop", "answer"} \X Calls
   BY <2>1, <2>2, Rings
 <2>4. SourceCalls'  BY <1>i, <2>1, <2>3 DEF SourceCalls
 <2>5. SourceQuiets'  BY <1>i, <2>1 DEF SourceQuiets
 <2> QED  BY <1>q, <1>u, <2>1, <2>3, <2>4, <2>5
<1>14. CASE UNCHANGED sourceVars
 <2>1. SourceQuiets'  BY <1>14, <1>i DEF sourceVars, SourceQuiets
 <2> QED  BY <1>14, <1>q, <1>u, <2>1 DEF sourceVars
<1> QED
  BY <1>1, <1>2, <1>3, <1>4, <1>6, <1>7, <1>8, <1>9, <1>10, <1>12, <1>13, <1>14 DEF SourceNext,
   NativeSide, Leave, Close, DeliverWorker, DeliverLocked, DeliverUnlocked

-----------------------------------------------------------------------------
(* The style of the avatar *)

\* The fields a frame is drawn from, and those that are written with persistStyle().
Fields == {"character", "mode", "scale", "at", "hair"}
Plain == {"character", "mode", "corner", "scale", "at"}

LEMMA DrawnAre ==
    /\ {Drawn[i] : i \in 1 .. Len(Drawn)} = Fields
    /\ \A s : Look(s) = [f \in Fields |-> s[f]]
  BY DEF Drawn, Fields, Look

\* A style is what its fields are.
LEMMA SameStyle ==
    ASSUME NEW s \in Styles, NEW t \in Styles, \A f \in Plain : s[f] = t[f], s.hair = t.hair
    PROVE  s = t
BY DEF Styles, Plain

\* What one setter makes of a style: a style, with no other field drawn differently.
Alters(s, t, F) == t \in Styles /\ \A f \in Fields \ F : t[f] = s[f]

LEMMA Altered ==
    ASSUME NEW s \in Styles
    PROVE  /\ \A c \in Characters : Alters(s, WithCharacter(s, c), {"character"}) /\ WithCharacter(s, c).character = c
           /\ \A m \in {"front", "corner"} : Alters(s, WithMode(s, m), {"mode", "scale", "at"}) /\ WithMode(s, m).mode = m
           /\ \A c \in Corners : Alters(s, WithCorner(s, c), {"scale", "at"}) /\ WithCorner(s, c).corner = c
           /\ \A x \in {"full", "small", "custom"} : Alters(s, WithScale(s, x), {"scale"}) /\ WithScale(s, x).scale = x
           /\ \A x \in Corners \cup {"centre", "free"} : Alters(s, WithPlace(s, x), {"at"}) /\ WithPlace(s, x).at = x
           /\ \A h \in {"own", "dyed"} : Alters(s, [s EXCEPT !.hair = h], {"hair"})
<1> USE DEF Alters, Styles, Fields
<1>1. \A c \in Characters : Alters(s, WithCharacter(s, c), {"character"}) /\ WithCharacter(s, c).character = c
  BY DEF WithCharacter
<1>2. ASSUME NEW m \in {"front", "corner"}
      PROVE  Alters(s, WithMode(s, m), {"mode", "scale", "at"}) /\ WithMode(s, m).mode = m
  BY DEF WithMode, CornerPreset, FrontPreset
<1>3. ASSUME NEW c \in Corners
      PROVE  Alters(s, WithCorner(s, c), {"scale", "at"}) /\ WithCorner(s, c).corner = c
  BY DEF WithCorner, CornerPreset
<1>4. \A x \in {"full", "small", "custom"} : Alters(s, WithScale(s, x), {"scale"}) /\ WithScale(s, x).scale = x
  BY DEF WithScale
<1>5. \A x \in Corners \cup {"centre", "free"} : Alters(s, WithPlace(s, x), {"at"}) /\ WithPlace(s, x).at = x
  BY DEF WithPlace
<1>6. \A h \in {"own", "dyed"} : Alters(s, [s EXCEPT !.hair = h], {"hair"})  OBVIOUS
<1> QED  BY <1>1, <1>2, <1>3, <1>4, <1>5, <1>6

LEMMA Persists ==
    ASSUME NEW s \in Styles, NEW old \in Styles \cup {NoStyle}
    PROVE  /\ persistStyle(s, old) \in Styles /\ persistStyle(s, old).hair = old.hair
           /\ \A f \in Plain : persistStyle(s, old)[f] = s[f]
<1>1. old.hair \in {"own", "dyed"}
 <2>1. CASE old \in Styles  BY <2>1 DEF Styles
 <2>2. CASE old = NoStyle  BY <2>2 DEF NoStyle
 <2> QED  BY <2>1, <2>2
<1> DEFINE h == old.hair
<1>2. persistStyle(s, old) = [s EXCEPT !.hair = h]  BY DEF persistStyle
<1> HIDE DEF h
<1>3. h \in {"own", "dyed"}  BY <1>1 DEF h
<1>4. /\ [s EXCEPT !.hair = h] \in Styles /\ [s EXCEPT !.hair = h].hair = h
      /\ \A f \in Plain : [s EXCEPT !.hair = h][f] = s[f]
  BY <1>3 DEF Styles, Plain
<1> QED  BY <1>2, <1>4 DEF h

LEMMA BoundIsNat == MaxAvatarEvent \in Nat
BY AvatarAssumption, Zenon DEF AvatarAssumption

LEMMA FreshStyles == /\ Fresh0 \in Styles /\ NoStyle \notin Styles
                     /\ \A r \in Renderers : FreshOf(r) \in Styles /\ FreshOf(r).hair = "own"
  BY AvatarAssumption DEF AvatarAssumption, Fresh0, Styles, NoStyle, FreshOf, CornerPreset,
    Renderers

-----------------------------------------------------------------------------
(* The constructor, with what was kept *)

\* What the page has and what the settings hold.
Pairs == [style : Styles, saved : Styles]
Agree(p, F) == \A f \in F : p.style[f] = p.saved[f]

\* A setting that is none leaves both as they are, and one that is writes every field but
\* the colour.
LEMMA Sets ==
    ASSUME NEW p \in Pairs, NEW s \in Styles
    PROVE  Setting(p, s) \in Pairs /\ Setting(p, s).style = s /\ (Setting(p, s) = p \/ Agree(Setting(p, s), Plain))
  BY Persists DEF Pairs, Setting, Agree

\* One more field of the settings is taken over, and those that agreed go on to.
LEMMA TakesOver ==
    ASSUME NEW p \in Pairs, NEW F, F \subseteq Plain, Agree(p, F), NEW f \in Plain, NEW s \in Styles,
           s[f] = p.saved[f]
    PROVE  Setting(p, s) \in Pairs /\ Agree(Setting(p, s), F \cup {f})
  BY Sets DEF Agree

LEMMA RestoresTransform ==
    ASSUME NEW p \in Pairs, NEW F, F \subseteq Plain, Agree(p, F)
    PROVE  RestoreTransform(p) \in Pairs /\ Agree(RestoreTransform(p), F \cup {"scale", "at"})
<1> DEFINE q == Setting(p, WithScale(p.style, p.saved.scale))
           r == Setting(q, WithPlace(q.style, q.saved.at))
<1>1. p.style \in Styles /\ p.saved \in Styles /\ p.saved.scale \in {"full", "small", "custom"}
  BY DEF Pairs, Styles
<1>2. q \in Pairs /\ Agree(q, F \cup {"scale"})
 <2>1. WithScale(p.style, p.saved.scale) \in Styles /\ WithScale(p.style, p.saved.scale).scale = p.saved.scale
   BY <1>1, Altered DEF Alters
 <2> QED  BY <2>1, TakesOver DEF Plain
<1> HIDE DEF q
<1>3. q.style \in Styles /\ q.saved \in Styles /\ q.saved.at \in Corners \cup {"centre", "free"}
  BY <1>2 DEF Pairs, Styles
<1>4. r \in Pairs /\ Agree(r, (F \cup {"scale"}) \cup {"at"})
 <2>0. \A x \in Corners \cup {"centre", "free"} : WithPlace(q.style, x) \in Styles /\ WithPlace(q.style, x).at = x
  <3>1. \A x \in Corners \cup {"centre", "free"} :
            Alters(q.style, WithPlace(q.style, x), {"at"}) /\ WithPlace(q.style, x).at = x
    BY <1>3, Altered, Zenon
  <3> QED  BY <3>1 DEF Alters
 <2>1. WithPlace(q.style, q.saved.at) \in Styles /\ WithPlace(q.style, q.saved.at).at = q.saved.at
   BY <1>3, <2>0
 <2>2. F \cup {"scale"} \subseteq Plain /\ "at" \in Plain  BY DEF Plain
 <2> QED  BY <1>2, <2>1, <2>2, TakesOver
<1>5. r = RestoreTransform(p)  BY DEF RestoreTransform, q
<1>6. (F \cup {"scale"}) \cup {"at"} = F \cup {"scale", "at"}  OBVIOUS
<1> HIDE DEF r
<1> QED  BY <1>4, <1>5, <1>6

\* What the constructor of a character has is what the settings hold then.
LEMMA RestoresCharacter ==
    ASSUME NEW kept \in Styles \cup {NoStyle}
    PROVE  LET p == Restored("character", kept) IN p.style \in Styles /\ p.saved = p.style
<1> DEFINE F0 == FreshOf("character")
<1>f. F0 \in Styles /\ F0.hair = "own"  BY FreshStyles DEF Renderers
<1> HIDE DEF F0
<1>1. CASE kept = NoStyle
 <2>1. Restored("character", kept) = [style |-> F0, saved |-> persistStyle(F0, NoStyle)]
   BY <1>1 DEF Restored, F0
 <2>0. NoStyle.hair = F0.hair  BY <1>f DEF NoStyle
 <2>2. persistStyle(F0, NoStyle) \in Styles /\ persistStyle(F0, NoStyle).hair = F0.hair
       /\ \A f \in Plain : persistStyle(F0, NoStyle)[f] = F0[f]
   BY <1>f, <2>0, Persists
 <2>3. persistStyle(F0, NoStyle) = F0  BY <1>f, <2>2, SameStyle
 <2> QED  BY <1>f, <2>1, <2>3
<1>2. CASE kept # NoStyle
 <2> DEFINE p0 == [style |-> F0, saved |-> kept]
            p1 == Setting(p0, WithCharacter(p0.style, p0.saved.character))
            p2 == Setting(p1, WithMode(p1.style, p1.saved.mode))
            p3 == Setting(p2, WithCorner(p2.style, p2.saved.corner))
            p4 == RestoreTransform(p3)
 <2>1. Restored("character", kept) = [p4 EXCEPT !.style.hair = p4.saved.hair]
   BY <1>2 DEF Restored, F0
 <2>p. \A p \in Pairs : /\ p.style \in Styles /\ p.saved \in Styles
                        /\ p.saved.character \in Characters /\ p.saved.mode \in {"front", "corner"}
                        /\ p.saved.corner \in Corners /\ p.saved.hair \in {"own", "dyed"}
   BY DEF Pairs, Styles
 <2>2. p0 \in Pairs /\ Agree(p0, {})  BY <1>f, <1>2 DEF Pairs, Agree
 <2> HIDE DEF p0
 <2>3. p1 \in Pairs /\ Agree(p1, {"character"})
  <3>0. \A c \in Characters : WithCharacter(p0.style, c) \in Styles /\ WithCharacter(p0.style, c).character = c
   <4>1. \A c \in Characters :
             Alters(p0.style, WithCharacter(p0.style, c), {"character"}) /\ WithCharacter(p0.style, c).character = c
     BY <2>2, <2>p, Altered, Zenon
   <4> QED  BY <4>1 DEF Alters
  <3>1. WithCharacter(p0.style, p0.saved.character) \in Styles
        /\ WithCharacter(p0.style, p0.saved.character).character = p0.saved.character
    BY <2>2, <2>p, <3>0
  <3>2. p1 \in Pairs /\ Agree(p1, {} \cup {"character"})  BY <2>2, <3>1, TakesOver DEF Plain
  <3> QED  BY <3>2
 <2> HIDE DEF p1
 <2>4. p2 \in Pairs /\ Agree(p2, {"character", "mode"})
  <3>1. WithMode(p1.style, p1.saved.mode) \in Styles /\ WithMode(p1.style, p1.saved.mode).mode = p1.saved.mode
    BY ZenonT(40), <2>3, <2>p, Altered DEF Alters
  <3>2. p2 \in Pairs /\ Agree(p2, {"character"} \cup {"mode"})  BY <2>3, <3>1, TakesOver DEF Plain
  <3>3. {"character"} \cup {"mode"} = {"character", "mode"}  OBVIOUS
  <3> HIDE DEF p2
  <3> QED  BY <3>2, <3>3
 <2> HIDE DEF p2
 <2>5. p3 \in Pairs /\ Agree(p3, {"character", "mode", "corner"})
  <3>0. \A c \in Corners : WithCorner(p2.style, c) \in Styles /\ WithCorner(p2.style, c).corner = c
   <4>1. \A c \in Corners :
             Alters(p2.style, WithCorner(p2.style, c), {"scale", "at"}) /\ WithCorner(p2.style, c).corner = c
     BY <2>4, <2>p, Altered, Zenon
   <4> QED  BY <4>1 DEF Alters
  <3>1. WithCorner(p2.style, p2.saved.corner) \in Styles
        /\ WithCorner(p2.style, p2.saved.corner).corner = p2.saved.corner
    BY <2>4, <2>p, <3>0
  <3>2. p3 \in Pairs /\ Agree(p3, {"character", "mode"} \cup {"corner"})
    BY <2>4, <3>1, TakesOver DEF Plain
  <3>3. {"character", "mode"} \cup {"corner"} = {"character", "mode", "corner"}  OBVIOUS
  <3> HIDE DEF p3
  <3> QED  BY <3>2, <3>3
 <2> HIDE DEF p3
 <2>6. p4 \in Pairs /\ Agree(p4, Plain)
  <3>1. p4 \in Pairs /\ Agree(p4, {"character", "mode", "corner"} \cup {"scale", "at"})
    BY <2>5, RestoresTransform DEF Plain
  <3>2. {"character", "mode", "corner"} \cup {"scale", "at"} = Plain  BY DEF Plain
  <3> HIDE DEF p4
  <3> QED  BY <3>1, <3>2
 <2> HIDE DEF p4
 <2> DEFINE dyed == [p4.style EXCEPT !.hair = p4.saved.hair]
 <2>7. Restored("character", kept).style = dyed /\ Restored("character", kept).saved = p4.saved
   BY <2>1, <2>6 DEF Pairs
 <2>8. dyed \in Styles /\ dyed.hair = p4.saved.hair /\ \A f \in Plain : dyed[f] = p4.style[f]
   BY <2>6, <2>p DEF Styles, Plain
 <2> HIDE DEF dyed
 <2>9. dyed = p4.saved  BY <2>6, <2>8, <2>p, SameStyle DEF Agree
 <2> QED  BY <2>7, <2>8, <2>9
<1> QED  BY <1>1, <1>2

LEMMA Restores ==
    ASSUME NEW r \in Renderers, NEW kept \in Styles \cup {NoStyle}
    PROVE  LET p == Restored(r, kept) IN
           p.style \in Styles /\ p.saved \in Styles \cup {NoStyle} /\ (r = "character" => p.saved = p.style)
<1> DEFINE p == [style |-> FreshOf(r), saved |-> kept]
<1>f. FreshOf(r) \in Styles  BY FreshStyles
<1>1. CASE r = "character"  BY <1>1, RestoresCharacter
<1>2. CASE r = "puppet" /\ kept # NoStyle
 <2>1. Restored(r, kept) = RestoreTransform(p)  BY <1>2 DEF Restored
 <2>2. p \in Pairs /\ Agree(p, {})  BY <1>f, <1>2 DEF Pairs, Agree
 <2> HIDE DEF p
 <2>3. RestoreTransform(p) \in Pairs  BY <2>2, RestoresTransform
 <2> QED  BY <1>2, <2>1, <2>3 DEF Pairs
<1>3. CASE r # "character" /\ ~(r = "puppet" /\ kept # NoStyle)  BY <1>3, <1>f DEF Restored
<1> QED  BY <1>1, <1>2, <1>3

-----------------------------------------------------------------------------
(* The live avatar *)

\* The types, with names for what changes together, and the fields by name.
IsLook(g) == g = [f \in Fields |-> g[f]]
Has(q, f) == \E i \in 1 .. Len(q) : q[i] = f
Threads == {"none", "pacing", "binding", "pushing"} \cup Fields
Bound == 0..MaxAvatarEvent

StylePart ==
    /\ renderer \in Renderers /\ style \in Styles /\ saved \in Styles \cup {NoStyle} /\ IsLook(look)
    /\ change \in Styles \cup {NoStyle} /\ todo \in Seq(Fields)
CountPart == changes \in Bound /\ restarts \in Bound /\ takes \in Bound
ThreadPart == IsLook(loaded) /\ thread \in Threads /\ clean \in BOOLEAN /\ bound \in Bound
SinkPart == fanout \in BOOLEAN /\ secondary \in Bound /\ sink \in Bound /\ taking \in Bound /\ late \in Bound
SwitchPart == enabled \in BOOLEAN /\ joining \in BOOLEAN
SceneParts == StylePart /\ CountPart /\ ThreadPart /\ SinkPart /\ SwitchPart

LEMMA LookDomain == \A g : IsLook(g) => DOMAIN g = Fields
BY DEF IsLook

LEMMA SceneTypesAre == (AvatarSceneTypeOK <=> SceneParts) /\ (AvatarSceneTypeOK' <=> SceneParts')
  BY DrawnAre, LookDomain DEF IsLook, AvatarSceneTypeOK, SceneParts, StylePart, CountPart,
    ThreadPart, SinkPart, SwitchPart, Threads, Bound, Drawn

\* What was loaded so far, field by field.
Loaded ==
    /\ thread \in {"mode", "scale", "at", "hair", "binding", "pushing"} => loaded["character"] = look["character"]
    /\ thread \in {"scale", "at", "hair", "binding", "pushing"} => loaded["mode"] = look["mode"]
    /\ thread \in {"at", "hair", "binding", "pushing"} => loaded["scale"] = look["scale"]
    /\ thread \in {"hair", "binding", "pushing"} => loaded["at"] = look["at"]
    /\ thread \in {"binding", "pushing"} => loaded["hair"] = look["hair"]

Later(i) == {Drawn[j] : j \in i + 1 .. Len(Drawn)}

LEMMA LaterAre == /\ Later(1) = {"mode", "scale", "at", "hair"} /\ Later(2) = {"scale", "at", "hair"}
                  /\ Later(3) = {"at", "hair"} /\ Later(4) = {"hair"} /\ Later(5) = {}
  BY DEF Drawn, Later

LEMMA LoadedIs == (FrameKeeps <=> (clean => Loaded)) /\ (FrameKeeps' <=> (clean => Loaded)')
  BY LaterAre DEF Drawn, FrameKeeps, Later, Loaded

\* SceneInv in three: the setters, the takes and the frame.
StyleKept == ControlsAreTrue /\ SetterKeeps
TakesKept == FanoutOutlivesThread /\ TakeIsFed /\ OneLateFrame /\ ThreadIsJoined

SceneIInv == SceneParts /\ StyleKept /\ TakesKept /\ FrameKeeps

\* A frame with every load done, and nothing stored meanwhile, is what the renderer has.
LEMMA Settled == StylePart /\ ThreadPart /\ StyleKept /\ FrameKeeps => SettledFramesAreTrue
<1> SUFFICES ASSUME StylePart, ThreadPart, StyleKept, FrameKeeps, thread \in {"binding", "pushing"}, clean,
                    change = NoStyle
             PROVE  loaded = Look(style)
  BY DEF SettledFramesAreTrue
<1>1. \A f \in Fields : loaded[f] = look[f]  BY LoadedIs DEF Loaded, Fields
<1>2. loaded = look  BY <1>1 DEF StylePart, ThreadPart, IsLook
<1> QED  BY <1>2 DEF StyleKept, ControlsAreTrue

LEMMA SceneInvIs == SceneIInv => SceneInv
BY Settled DEF SceneIInv, SceneParts, StyleKept, TakesKept, SceneInv

\* SetterKeeps, with the fields by name.
LEMMA SetterIs ==
    ASSUME IsLook(look)
    PROVE  SetterKeeps <=>
               IF change = NoStyle THEN todo = <<>>
               ELSE /\ renderer = "character" => saved = style
                    /\ change.hair # style.hair => renderer = "character" /\ change = [style EXCEPT !.hair = change.hair]
                    /\ \A f \in Fields : look[f] = change[f] \/ Has(todo, f)
BY LookDomain DEF SetterKeeps, Has

LEMMA SetterIsNext ==
    ASSUME IsLook(look')
    PROVE  SetterKeeps' <=>
               IF change' = NoStyle THEN todo' = <<>>
               ELSE /\ renderer' = "character" => saved' = style'
                    /\ change'.hair # style'.hair =>
                           renderer' = "character" /\ change' = [style' EXCEPT !.hair = change'.hair]
                    /\ \A f \in Fields : look'[f] = change'[f] \/ Has(todo', f)
BY LookDomain DEF SetterKeeps, Has

LEMMA SceneInvInit == AvatarSceneInit => SceneIInv
<1> SUFFICES ASSUME AvatarSceneInit PROVE SceneIInv  OBVIOUS
<1> USE DEF AvatarSceneInit
<1>1. style \in Styles /\ saved \in Styles \cup {NoStyle} /\ (renderer = "character" => saved = style)
  BY Restores
<1>2. look = [f \in Fields |-> style[f]] /\ loaded = look /\ IsLook(look)  BY DrawnAre DEF IsLook
<1>3. todo \in Seq(Fields)  OBVIOUS
<1>4. StylePart  BY <1>1, <1>2, <1>3 DEF StylePart
<1>5. 0 \in Bound  BY BoundIsNat DEF Bound
<1>6. CountPart /\ ThreadPart /\ SinkPart /\ SwitchPart
  BY <1>2, <1>5 DEF CountPart, ThreadPart, SinkPart, SwitchPart, Threads
<1>7. StyleKept  BY <1>1 DEF StyleKept, ControlsAreTrue, SetterKeeps
<1>8. TakesKept  BY DEF TakesKept, FanoutOutlivesThread, TakeIsFed, OneLateFrame, ThreadIsJoined
<1>9. FrameKeeps  BY LoadedIs DEF Loaded
<1> QED  BY <1>4, <1>6, <1>7, <1>8, <1>9 DEF SceneIInv, SceneParts

\* The stores that are left after one of them.
LEMMA Stored ==
    ASSUME NEW q \in Seq(Fields), q # <<>>
    PROVE  Head(q) \in Fields /\ Tail(q) \in Seq(Fields) /\ \A f : Has(q, f) => f = Head(q) \/ Has(Tail(q), f)
<1>1. Len(q) \in Nat \ {0} /\ Head(q) = q[1] /\ Head(q) \in Fields /\ Tail(q) \in Seq(Fields)
  OBVIOUS
<1>2. Len(Tail(q)) = Len(q) - 1 /\ \A i \in 1 .. Len(Tail(q)) : Tail(q)[i] = q[i + 1]  OBVIOUS
<1>3. ASSUME NEW f, NEW i \in 1 .. Len(q), q[i] = f, i # 1 PROVE Has(Tail(q), f)
  BY <1>1, <1>2, <1>3 DEF Has
<1> QED  BY <1>1, <1>3 DEF Has

\* A setter begins: what it has not to store is drawn as it was.
LEMMA Begins ==
    ASSUME SceneIInv, NEW s, NEW fields \in Seq(Fields), NEW F, Alters(style, s, F), \A f \in F : Has(fields, f),
           s.hair = style.hair \/ (renderer = "character" /\ s = [style EXCEPT !.hair = s.hair]), Begin(s, fields)
    PROVE  StylePart' /\ StyleKept' /\ changes' \in Bound /\ UNCHANGED <<look, threadVars, sinkVars, enabled, joining, restarts>>
<1>i. StylePart /\ StyleKept /\ CountPart  BY DEF SceneIInv, SceneParts
<1>1. /\ change = NoStyle /\ change' = s /\ todo' = fields /\ changes' = changes + 1
      /\ changes + restarts + takes < MaxAvatarEvent
      /\ UNCHANGED <<renderer, style, saved, look, threadVars, sinkVars, enabled, joining, restarts>>
  BY DEF Begin, Room
<1>2. changes' \in Bound  BY <1>1, <1>i, BoundIsNat DEF CountPart, Bound
<1>3. s \in Styles /\ s # NoStyle /\ \A f \in Fields \ F : s[f] = style[f]
  BY FreshStyles DEF Alters
<1>4. StylePart'  BY <1>1, <1>3, <1>i DEF StylePart
<1>5. \A f \in Fields : look[f] = style[f]  BY <1>1, <1>i, DrawnAre DEF StyleKept, ControlsAreTrue
<1>6. \A f \in Fields : look'[f] = change'[f] \/ Has(todo', f)  BY <1>1, <1>3, <1>5
<1>7. renderer = "character" => saved = style  BY <1>1, <1>i DEF StyleKept, ControlsAreTrue
<1>8. SetterKeeps'  BY <1>1, <1>3, <1>4, <1>6, <1>7, SetterIsNext DEF StylePart
<1>9. ControlsAreTrue'  BY <1>1, <1>3 DEF ControlsAreTrue
<1> QED  BY <1>1, <1>2, <1>4, <1>8, <1>9 DEF StyleKept

\* The end of a setter: everything is stored, so the members that mirror the renderer are
\* those it was called for.
LEMMA Ends ==
    ASSUME SceneIInv, Persist
    PROVE  StylePart' /\ StyleKept' /\ UNCHANGED <<look, changes, threadVars, sinkVars, enabled, joining, restarts>>
<1>i. StylePart /\ StyleKept  BY DEF SceneIInv, SceneParts
<1>1. /\ change # NoStyle /\ todo = <<>> /\ style' = Synced(change) /\ change' = NoStyle
      /\ saved' = IF change.hair # style.hair THEN [saved EXCEPT !.hair = change.hair] ELSE persistStyle(style', saved)
      /\ UNCHANGED <<renderer, look, todo, changes, threadVars, sinkVars, enabled, joining, restarts>>
  BY DEF Persist
<1>2. change \in Styles /\ style \in Styles /\ IsLook(look)  BY <1>1, <1>i DEF StylePart
<1>3. /\ renderer = "character" => saved = style
      /\ change.hair # style.hair => renderer = "character" /\ change = [style EXCEPT !.hair = change.hair]
      /\ \A f \in Fields : look[f] = change[f]
  BY <1>1, <1>2, <1>i, SetterIs DEF Has, StyleKept
<1>4. style' = change  BY <1>3, <1>2, <1>1 DEF Fields, Styles, Synced
<1>5. saved' \in Styles /\ (renderer = "character" => saved' = change)
  BY <1>1, <1>2, <1>3, <1>4, <1>i, Persists, SameStyle DEF StylePart
<1>6. StylePart'  BY <1>1, <1>2, <1>4, <1>5, <1>i DEF StylePart
<1>7. look' = Look(style')  BY <1>1, <1>2, <1>3, <1>4, DrawnAre DEF IsLook
<1>8. StyleKept'  BY <1>1, <1>4, <1>5, <1>7 DEF StyleKept, ControlsAreTrue, SetterKeeps
<1> QED  BY <1>1, <1>6, <1>8

LEMMA SceneInvStep == SceneIInv /\ [AvatarSceneNext]_avatarSceneVars => SceneIInv'
<1> SUFFICES ASSUME SceneIInv, [AvatarSceneNext]_avatarSceneVars PROVE SceneIInv'  OBVIOUS
<1> USE DEF styleVars, threadVars, sinkVars, threadOnly, window
<1>i. StylePart /\ CountPart /\ ThreadPart /\ SinkPart /\ SwitchPart /\ StyleKept /\ TakesKept /\ FrameKeeps
  BY DEF SceneIInv, SceneParts
<1>q. ASSUME StylePart', CountPart', ThreadPart', SinkPart', SwitchPart', StyleKept', TakesKept', FrameKeeps'
      PROVE  SceneIInv'
  BY <1>q DEF SceneIInv, SceneParts
<1>u. /\ UNCHANGED <<renderer, style, saved, look, change, todo>> => StylePart' /\ StyleKept'
      /\ UNCHANGED <<changes, restarts, takes>> => CountPart'
      /\ UNCHANGED threadVars => ThreadPart'
      /\ UNCHANGED <<fanout, secondary, sink, taking, late>> => SinkPart'
      /\ UNCHANGED <<enabled, joining>> => SwitchPart'
      /\ UNCHANGED <<threadVars, sinkVars, enabled, joining>> => TakesKept'
      /\ UNCHANGED <<look, thread, loaded, clean>> => FrameKeeps'
  BY <1>i, LoadedIs DEF StylePart, StyleKept, ControlsAreTrue, SetterKeeps, CountPart, ThreadPart,
    SinkPart, SwitchPart, TakesKept, FanoutOutlivesThread, TakeIsFed, OneLateFrame, ThreadIsJoined,
    Loaded
<1> DEFINE Fixed == UNCHANGED <<look, threadVars, sinkVars, enabled, joining, restarts>>
\* A setter, of the fields it stores.
<1>b. ASSUME NEW s, NEW fields \in Seq(Fields), NEW F, Alters(style, s, F), \A f \in F : Has(fields, f),
             s.hair = style.hair \/ (renderer = "character" /\ s = [style EXCEPT !.hair = s.hair]), Begin(s, fields)
      PROVE  SceneIInv'
 <2>1. StylePart' /\ StyleKept' /\ changes' \in Bound /\ Fixed  BY <1>b, Begins
 <2>2. CountPart'  BY <1>i, <2>1 DEF CountPart
 <2> QED  BY <1>q, <1>u, <2>1, <2>2
<1>f. /\ style \in Styles
      /\ \A f \in Fields : <<f>> \in Seq(Fields) /\ Has(<<f>>, f)
      /\ transform \in Seq(Fields) /\ Has(transform, "scale") /\ Has(transform, "at")
      /\ <<"mode">> \o transform \in Seq(Fields)
      /\ \A f \in {"mode", "scale", "at"} : Has(<<"mode">> \o transform, f)
 <2>1. style \in Styles  BY <1>i DEF StylePart
 <2>2. \A f \in Fields : <<f>> \in Seq(Fields) /\ Has(<<f>>, f)
  <3> TAKE f \in Fields
  <3>1. <<f>> \in Seq(Fields) /\ Len(<<f>>) = 1 /\ <<f>>[1] = f  OBVIOUS
  <3> QED  BY <3>1 DEF Has
 <2>3. /\ transform = <<"scale", "at">> /\ transform \in Seq(Fields) /\ Len(transform) = 2
       /\ transform[1] = "scale" /\ transform[2] = "at"
   BY DEF transform, Fields
 <2>4. Has(transform, "scale") /\ Has(transform, "at")  BY <2>3 DEF Has
 <2> DEFINE q == <<"mode">> \o transform
 <2>5. q \in Seq(Fields) /\ Len(q) = 3 /\ q[1] = "mode" /\ q[2] = "scale" /\ q[3] = "at"
   BY <2>3 DEF Fields
 <2> HIDE DEF q
 <2>6. Has(q, "mode") /\ Has(q, "scale") /\ Has(q, "at")  BY <2>5 DEF Has
 <2> QED  BY <2>1, <2>2, <2>3, <2>4, <2>5, <2>6 DEF q
<1>1. ASSUME NEW c \in Characters, setAvatarCharacterIndex(c) PROVE SceneIInv'
 <2>1. Begin(WithCharacter(style, c), <<"character">>)  BY <1>1 DEF setAvatarCharacterIndex
 <2>2. Alters(style, WithCharacter(style, c), {"character"})  BY <1>f, Altered, Zenon
 <2>3. WithCharacter(style, c).hair = style.hair  BY <2>2 DEF Alters, Fields
 <2> QED  BY <1>b, <1>f, <2>1, <2>2, <2>3 DEF Fields
<1>2. ASSUME NEW m \in {"front", "corner"}, setAvatarPlacementMode(m) PROVE SceneIInv'
 <2>1. Begin(WithMode(style, m), <<"mode">> \o transform)  BY <1>2 DEF setAvatarPlacementMode
 <2>2. Alters(style, WithMode(style, m), {"mode", "scale", "at"})  BY <1>f, Altered, Zenon
 <2>3. WithMode(style, m).hair = style.hair  BY <2>2 DEF Alters, Fields
 <2> QED  BY <1>b, <1>f, <2>1, <2>2, <2>3
<1>3. ASSUME NEW c \in Corners, setAvatarCorner(c) PROVE SceneIInv'
 <2>1. Begin(WithCorner(style, c), transform)  BY <1>3 DEF setAvatarCorner
 <2>2. Alters(style, WithCorner(style, c), {"scale", "at"})  BY <1>f, Altered, Zenon
 <2>3. WithCorner(style, c).hair = style.hair  BY <2>2 DEF Alters, Fields
 <2> QED  BY <1>b, <1>f, <2>1, <2>2, <2>3
<1>4. CASE setAvatarScale
 <2>1. Begin(WithScale(style, "custom"), <<"scale">>)  BY <1>4 DEF setAvatarScale
 <2>2. Alters(style, WithScale(style, "custom"), {"scale"})  BY <1>f, Altered
 <2>3. WithScale(style, "custom").hair = style.hair  BY <2>2 DEF Alters, Fields
 <2> QED  BY <1>b, <1>f, <2>1, <2>2, <2>3 DEF Fields
<1>5. CASE setAvatarPosition
 <2>1. Begin(WithPlace(style, "free"), <<"at">>)  BY <1>5 DEF setAvatarPosition
 <2>2. Alters(style, WithPlace(style, "free"), {"at"})  BY <1>f, Altered
 <2>3. WithPlace(style, "free").hair = style.hair  BY <2>2 DEF Alters, Fields
 <2> QED  BY <1>b, <1>f, <2>1, <2>2, <2>3 DEF Fields
<1>6. CASE setAvatarHairColor
 <2> DEFINE s == [style EXCEPT !.hair = "dyed"]
 <2>1. Begin(s, <<"hair">>) /\ renderer = "character"  BY <1>6 DEF setAvatarHairColor
 <2>2. Alters(style, s, {"hair"}) /\ s.hair = "dyed"
  <3>1. Alters(style, s, {"hair"})  BY <1>f, Altered
  <3>2. s.hair = "dyed"  BY <1>f DEF Styles
  <3> QED  BY <3>1, <3>2
 <2>3. s = [style EXCEPT !.hair = s.hair]  BY <2>2
 <2> HIDE DEF s
 <2>4. <<"hair">> \in Seq(Fields) /\ \A f \in {"hair"} : Has(<<"hair">>, f)  BY <1>f DEF Fields
 <2> QED  BY ZenonT(40), <1>b, <2>1, <2>2, <2>3, <2>4
<1>7. CASE Store
 <2> DEFINE f == Head(todo)
 <2>1. /\ todo # <<>> /\ look' = [look EXCEPT ![f] = change[f]] /\ todo' = Tail(todo) /\ clean' = FALSE
       /\ UNCHANGED <<renderer, style, saved, change, changes, thread, loaded, bound, sinkVars, enabled, joining, restarts>>
   BY <1>7 DEF Store
 <2>2. f \in Fields /\ Tail(todo) \in Seq(Fields) /\ \A g : Has(todo, g) => g = f \/ Has(Tail(todo), g)
   BY <1>i, <2>1, Stored DEF StylePart
 <2> HIDE DEF f
 <2>3. IsLook(look') /\ \A g \in Fields : look'[g] = IF g = f THEN change[f] ELSE look[g]
   BY <1>i, <2>1, <2>2 DEF StylePart, IsLook
 <2>4. StylePart'  BY <1>i, <2>1, <2>2, <2>3 DEF StylePart
 <2>5. change # NoStyle  BY <1>i, <2>1 DEF StyleKept, SetterKeeps
 <2>6. SetterKeeps'
   BY <1>i, <2>1, <2>2, <2>3, <2>5, SetterIs, SetterIsNext DEF StyleKept, StylePart
 <2>7. StyleKept'  BY <2>1, <2>5, <2>6 DEF StyleKept, ControlsAreTrue
 <2>8. ThreadPart' /\ FrameKeeps'  BY <1>i, <2>1, LoadedIs DEF ThreadPart
 <2>9. TakesKept'
   BY <1>i, <2>1 DEF TakesKept, FanoutOutlivesThread, TakeIsFed, OneLateFrame, ThreadIsJoined
 <2> QED  BY <1>q, <1>u, <2>1, <2>4, <2>7, <2>8, <2>9
<1>8. CASE Persist
 <2>1. StylePart' /\ StyleKept' /\ UNCHANGED <<changes, restarts>> /\ Fixed  BY <1>8, Ends
 <2> QED  BY <1>q, <1>u, <2>1
<1>9. CASE Enable
 <2>1. /\ ~joining /\ ~enabled /\ enabled' = TRUE /\ fanout' = TRUE /\ secondary' = sink /\ thread' = "pacing"
       /\ UNCHANGED <<styleVars, loaded, bound, clean, sink, taking, late, takes, joining, restarts>>
   BY <1>9 DEF Enable
 <2>2. ThreadPart' /\ SinkPart' /\ SwitchPart'
   BY <1>i, <2>1 DEF ThreadPart, SinkPart, SwitchPart, Threads
 <2>3. TakesKept'
   BY <1>i, <2>1 DEF TakesKept, FanoutOutlivesThread, TakeIsFed, OneLateFrame, ThreadIsJoined
 <2>4. FrameKeeps'  BY <2>1, LoadedIs DEF Loaded
 <2> QED  BY <1>q, <1>u, <2>1, <2>2, <2>3, <2>4
<1>10. CASE Disable
 <2>1. enabled /\ enabled' = FALSE /\ joining' = TRUE /\ UNCHANGED <<styleVars, threadVars, sinkVars, restarts>>
   BY <1>10 DEF Disable
 <2>2. SwitchPart' /\ TakesKept'
   BY <1>i, <2>1 DEF SwitchPart, TakesKept, FanoutOutlivesThread, TakeIsFed, OneLateFrame, ThreadIsJoined
 <2> QED  BY <1>q, <1>u, <2>1, <2>2
<1>11. CASE Joined
 <2>1. /\ joining /\ thread = "none" /\ joining' = FALSE /\ fanout' = FALSE /\ secondary' = 0
       /\ UNCHANGED <<styleVars, threadVars, sink, taking, late, takes, enabled, restarts>>
   BY <1>11 DEF Joined
 <2>0. 0 \in Bound  BY BoundIsNat DEF Bound
 <2>2. SinkPart' /\ SwitchPart'  BY <1>i, <2>0, <2>1 DEF SinkPart, SwitchPart
 <2>3. TakesKept'
   BY <1>i, <2>1 DEF TakesKept, FanoutOutlivesThread, TakeIsFed, OneLateFrame, ThreadIsJoined
 <2> QED  BY <1>q, <1>u, <2>1, <2>2, <2>3
<1>12. CASE BeginTake
 <2>1. /\ taking = 0 /\ changes + restarts + takes < MaxAvatarEvent /\ takes' = takes + 1 /\ taking' = takes'
       /\ late' = 0 /\ sink' \in {sink, takes'} /\ secondary' \in {secondary, takes'}
       /\ fanout /\ enabled => sink' = secondary'
       /\ ~enabled => UNCHANGED <<sink, secondary>>
       /\ enabled => sink' = takes'
       /\ UNCHANGED <<styleVars, threadVars, fanout, enabled, joining, restarts>>
   BY <1>12 DEF BeginTake, SetSink, Room
 <2>2. takes' \in Bound /\ takes' # 0 /\ 0 \in Bound  BY <1>i, <2>1, BoundIsNat DEF CountPart, Bound
 <2>3. CountPart' /\ SinkPart'  BY <1>i, <2>1, <2>2 DEF CountPart, SinkPart
 <2>4. TakesKept'
   BY <1>i, <2>1, <2>2 DEF TakesKept, FanoutOutlivesThread, TakeIsFed, OneLateFrame, ThreadIsJoined
 <2> QED  BY <1>q, <1>u, <2>1, <2>3, <2>4
<1>13. CASE EndTake
 <2>1. /\ taking # 0 /\ taking' = 0 /\ sink' = 0 /\ secondary' = IF fanout THEN 0 ELSE secondary
       /\ UNCHANGED <<styleVars, threadVars, fanout, late, takes, enabled, joining, restarts>>
   BY <1>13 DEF EndTake, SetSink
 <2>2. SinkPart'  BY <1>i, <2>1, BoundIsNat DEF SinkPart, Bound
 <2>3. TakesKept'
   BY <1>i, <2>1 DEF TakesKept, FanoutOutlivesThread, TakeIsFed, OneLateFrame, ThreadIsJoined
 <2> QED  BY <1>q, <1>u, <2>1, <2>2, <2>3
<1>14. CASE Relaunch
 <2> DEFINE p == Restored(renderer', saved)
 <2>1. /\ changes + restarts + takes < MaxAvatarEvent /\ restarts' = restarts + 1 /\ renderer' \in Renderers
       /\ style' = p.style /\ saved' = p.saved /\ look' = Look(p.style)
       /\ change' = NoStyle /\ todo' = <<>> /\ enabled' = FALSE /\ joining' = FALSE
       /\ fanout' = FALSE /\ secondary' = 0 /\ sink' = 0 /\ taking' = 0 /\ late' = 0
       /\ thread' = "none" /\ loaded' = look' /\ bound' = 0 /\ clean' = TRUE
       /\ UNCHANGED <<changes, takes>>
   BY <1>14 DEF Relaunch, Room
 <2>2. p.style \in Styles /\ p.saved \in Styles \cup {NoStyle} /\ (renderer' = "character" => p.saved = p.style)
   BY <1>i, <2>1, Restores DEF StylePart
 <2> HIDE DEF p
 <2>3. IsLook(look')  BY <2>1, DrawnAre DEF IsLook
 <2>4. StylePart'
  <3>1. todo' \in Seq(Fields)  BY <2>1
  <3> QED  BY <2>1, <2>2, <2>3, <3>1 DEF StylePart
 <2>5. StyleKept'  BY <2>1, <2>2 DEF StyleKept, ControlsAreTrue, SetterKeeps
 <2>6. CountPart' /\ 0 \in Bound  BY <1>i, <2>1, BoundIsNat DEF CountPart, Bound
 <2>7. ThreadPart' /\ SinkPart' /\ SwitchPart'
   BY <2>1, <2>3, <2>6 DEF ThreadPart, SinkPart, SwitchPart, Threads
 <2>8. TakesKept'
   BY <2>1 DEF TakesKept, FanoutOutlivesThread, TakeIsFed, OneLateFrame, ThreadIsJoined
 <2>9. FrameKeeps'  BY <2>1, LoadedIs DEF Loaded
 <2> QED  BY <1>q, <2>4, <2>5, <2>6, <2>7, <2>8, <2>9
<1>15. CASE Pace
 <2>1. /\ thread = "pacing" /\ thread' \in {"none", "character"} /\ (thread' = "none" => joining)
       /\ clean' \in {clean, todo = <<>>} /\ UNCHANGED <<loaded, bound, threadOnly>>
   BY <1>15 DEF Pace
 <2>2. (todo = <<>>) \in BOOLEAN  OBVIOUS
 <2>3. ThreadPart'  BY <1>i, <2>1, <2>2 DEF ThreadPart, Threads, Fields
 <2>4. TakesKept'
   BY <1>i, <2>1 DEF TakesKept, FanoutOutlivesThread, TakeIsFed, OneLateFrame, ThreadIsJoined
 <2>5. FrameKeeps'  BY <2>1, LoadedIs DEF Loaded
 <2> QED  BY <1>q, <1>u, <2>1, <2>3, <2>4, <2>5
<1>16. CASE Load
 <2>1. /\ thread \in Fields /\ loaded' = [loaded EXCEPT ![thread] = look[thread]]
       /\ thread' \in {NextThing(thread), "pacing"} /\ UNCHANGED <<bound, clean, threadOnly>>
   BY <1>16, <1>i, LookDomain DEF Load, StylePart
 <2>2. /\ IsLook(loaded') /\ loaded'[thread] = look[thread]
       /\ \A f \in Fields \ {thread} : loaded'[f] = loaded[f]
   BY <1>i, <2>1 DEF ThreadPart, IsLook
 <2>3. /\ NextThing("character") = "mode" /\ NextThing("mode") = "scale" /\ NextThing("scale") = "at"
       /\ NextThing("at") = "hair" /\ NextThing("hair") = "binding"
   BY DEF NextThing
 <2>4. thread' \in {"mode", "scale", "at", "hair", "binding", "pacing"}  BY <2>1, <2>3 DEF Fields
 <2>5. ThreadPart'  BY <1>i, <2>1, <2>2, <2>4 DEF ThreadPart, Threads, Fields
 <2>6. TakesKept'
   BY <1>i, <2>1, <2>4 DEF TakesKept, FanoutOutlivesThread, TakeIsFed, OneLateFrame, ThreadIsJoined, Fields
 <2>7. ASSUME clean PROVE Loaded'
  <3>1. Loaded  BY <1>i, <2>7, LoadedIs
  <3>2. CASE thread' = "pacing"  BY <3>2 DEF Loaded
  <3>3. CASE thread' = NextThing(thread)  BY <2>1, <2>2, <2>3, <3>1, <3>3 DEF Loaded, Fields
  <3> QED  BY <2>1, <3>2, <3>3
 <2>8. FrameKeeps'  BY <2>1, <2>7, LoadedIs
 <2> QED  BY <1>q, <1>u, <2>1, <2>5, <2>6, <2>8
<1>17. CASE Bind
 <2>1. thread = "binding" /\ thread' = "pushing" /\ bound' = secondary /\ UNCHANGED <<loaded, clean, threadOnly>>
   BY <1>17 DEF Bind
 <2>2. ThreadPart'  BY <1>i, <2>1 DEF ThreadPart, SinkPart, Threads
 <2>3. TakesKept'
   BY <1>i, <2>1 DEF TakesKept, FanoutOutlivesThread, TakeIsFed, OneLateFrame, ThreadIsJoined
 <2>4. FrameKeeps'  BY <1>i, <2>1, LoadedIs DEF Loaded
 <2> QED  BY <1>q, <1>u, <2>1, <2>2, <2>3, <2>4
<1>18. CASE Push
 <2>1. /\ thread = "pushing" /\ thread' = "pacing"
       /\ late' = IF bound # 0 /\ bound = takes /\ taking = 0 THEN late + 1 ELSE late
       /\ UNCHANGED <<loaded, bound, clean, styleVars, fanout, secondary, sink, taking, takes, enabled, joining, restarts>>
   BY <1>18 DEF Push
 <2>2. late' = late \/ (late' = 1 /\ taking = 0 /\ takes # 0)
   BY <1>i, <2>1 DEF TakesKept, OneLateFrame, SinkPart, Bound
 <2>3. ThreadPart' /\ SinkPart'
  <3>1. takes # 0 => 1 \in Bound  BY <1>i, BoundIsNat DEF CountPart, Bound
  <3> QED  BY <1>i, <2>1, <2>2, <3>1 DEF ThreadPart, SinkPart, Threads
 <2>4. TakesKept'
   BY <1>i, <2>1, <2>2 DEF TakesKept, FanoutOutlivesThread, TakeIsFed, OneLateFrame, ThreadIsJoined
 <2>5. FrameKeeps'  BY <2>1, LoadedIs DEF Loaded
 <2> QED  BY <1>q, <1>u, <2>1, <2>3, <2>4, <2>5
<1>19. CASE UNCHANGED avatarSceneVars  BY <1>19, <1>q, <1>u DEF avatarSceneVars
<1> QED
  BY <1>1, <1>2, <1>3, <1>4, <1>5, <1>6, <1>7, <1>8, <1>9, <1>10, <1>11, <1>12, <1>13, <1>14, <1>15, <1>16, <1>17, <1>18,
<1>19 DEF AvatarSceneNext, RenderThread

-----------------------------------------------------------------------------
(* Scenes and takes: types *)
LiveOps == {"Idle", "Beginning", "Preparing", "Recording", "Finalizing", "Saving", "Aborting"}
RowStates == {"none", "RECORDING", "COMPLETED", "ABORTED", "RECOVERED"}
StudioOps == Edits \cup {"open", "switch", "mark", "prepare", "abort", "complete"}
Works == [package : Packages \cup {None}, scenes : Seq(Nat), changed : SUBSET Nat, active : Nat,
          selected : Nat, recording : BOOLEAN, take : Takes \cup {0}, awaiting : Takes \cup {0},
          missing : BOOLEAN, blind : BOOLEAN]
Shelves == [scenes : Seq(Nat), changed : SUBSET Nat, active : Nat]
StudioRequests ==
    [op : StudioOps, fresh : BOOLEAN, package : Packages \cup {None}, scene : Nat, take : Takes \cup {0}]
StudioReplies == [op : StudioOps, fresh : BOOLEAN, ok : BOOLEAN, state : Works]

StudioTypes ==
    /\ project \in Packages \cup {None} /\ live \in [op : LiveOps, take : Takes \cup {0}]
    /\ row \in [Takes -> RowStates] /\ home \in [Takes -> Packages \cup {None}]
    /\ matter \subseteq Takes /\ imported \subseteq Takes
    /\ events \in [Takes -> SUBSET Nat] /\ recorded \in [Takes -> SUBSET Nat]
    /\ stored \in [Packages -> Shelves] /\ queue \in Seq(StudioRequests) /\ inbox \in Seq(StudioReplies)
    /\ worker \in Works /\ known \in Works
    /\ inHand \in BOOLEAN /\ touched \in BOOLEAN /\ healthy \in BOOLEAN
    /\ pending \in StudioOps \cup {None}
    /\ editor \in [package : Packages \cup {None}, takes : SUBSET Takes]
    /\ made \in 2 .. MaxScene
    /\ reopened \in [wanted : SUBSET Takes, tried : SUBSET Takes]
    /\ reopened.tried \subseteq reopened.wanted

-----------------------------------------------------------------------------
(* Scenes and takes: what holds all the time *)

\* The scenes of a package, or of what the worker or the page knows of it.
Listed(s) == Range(s.scenes) \subseteq 1 .. made /\ IsInjective(s.scenes) /\ s.changed \subseteq 1 .. made
Sane(w) ==
    /\ w.package = None => w = Closed
    /\ w.package # None => Listed(w) /\ w.active \in Range(w.scenes) /\ w.selected \in Range(w.scenes)

\* k is w, with perhaps another scene selected.
Shows(k, w) ==
    /\ k.package = w.package /\ k.scenes = w.scenes /\ k.changed = w.changed /\ k.active = w.active
    /\ k.recording = w.recording /\ k.take = w.take /\ k.awaiting = w.awaiting
    /\ k.missing = w.missing /\ k.blind = w.blind

\* Of the requests and answers on the way the last one is waited for; a command is alone.
InTurn ==
    /\ inHand <=> (queue # <<>> \/ inbox # <<>>)
    /\ inHand => project # None
    /\ \A i \in DOMAIN queue : /\ queue[i].fresh <=> i = Len(queue)
                               /\ queue[i].op = "open" => queue[i].package \in Packages
    /\ \A i \in DOMAIN inbox : inbox[i].fresh <=> i = Len(inbox) /\ queue = <<>>
    /\ pending = None =>
          /\ \A i \in DOMAIN queue : queue[i].op = "open"
          /\ \A i \in DOMAIN inbox : inbox[i].op = "open"
          /\ inHand => known = Closed
    /\ pending # None =>
          /\ known.package # None /\ pending # "open"
          /\ \/ Len(queue) = 1 /\ inbox = <<>> /\ queue[1].op = pending
             \/ queue = <<>> /\ Len(inbox) = 1 /\ inbox[1].op = pending

\* No answer on the way has anything to show.
NoNews == queue # <<>> \/ inbox = <<>> \/ ~inbox[Len(inbox)].ok

\* A command is about what the page shows.
AskedWell ==
    pending # None /\ queue # <<>> =>
        /\ queue[1].op \in Edits => queue[1].scene \in Range(known.scenes)
        /\ queue[1].op \in {"add", "duplicate"} => made < MaxScene
        /\ queue[1].op = "prepare" => queue[1].take = live.take

\* The page shows the worker's state, unless the answer on the way brings it.
PageFits ==
    /\ Sane(known) /\ Sane(worker)
    /\ known.package # None =>
          /\ project # None /\ worker.package = known.package
          /\ NoNews => Shows(known, worker)
    /\ ~NoNews => inbox[Len(inbox)].state = worker /\ worker.package # None

\* The worker has the scenes and changes the package has, and records what it prepared.
WorkerFits ==
    /\ \A p \in Packages : Listed(stored[p]) /\ (stored[p].scenes # <<>> => stored[p].active \in Range(stored[p].scenes))
    /\ worker.package # None =>
          worker.scenes = stored[worker.package].scenes /\ worker.changed = stored[worker.package].changed
    /\ worker.recording =>
          /\ worker.package # None /\ worker.take \in Takes /\ home[worker.take] = worker.package
          /\ recorded[worker.take] = worker.changed

\* A take has a row once it begins, and the recording's step agrees with the row.
RowsFit ==
    /\ \A t \in Takes : home[t] = None => row[t] = "none" /\ events[t] = {}
    /\ \A t \in imported : row[t] \in Done
    /\ \A t \in Takes : recorded[t] \subseteq 1 .. made /\ events[t] \subseteq 1 .. made
    /\ live.op # "Idle" => live.take \in Takes /\ home[live.take] # None /\ project # None
    /\ live.op = "Beginning" => row[live.take] = "none"
    /\ live.op \in {"Preparing", "Recording", "Finalizing", "Saving"} =>
          /\ row[live.take] \in {"RECORDING", "RECOVERED"} /\ known.package # None
          /\ pending \notin {"abort", "complete"}
    /\ live.op = "Preparing" <=> pending = "prepare"

\* While a take records, the worker records it, into its package, from a first event.
TakeFits ==
    live.op \in {"Recording", "Finalizing", "Saving"} \/ (live.op = "Preparing" /\ ~NoNews) =>
        /\ worker.recording /\ worker.take = live.take /\ worker.package = home[live.take]
        /\ events[live.take] # {}

\* The editor has what was imported, unless the worker could not tell or is about to.
EditorSees ==
    /\ known.package # None /\ editor.package = known.package /\ ~worker.missing
          /\ (NoNews \/ pending # "complete" \/ worker.awaiting # 0) =>
             editor.takes = imported \cap TakesOf(known.package)
    /\ pending = None /\ ~NoNews /\ worker.awaiting # 0 => worker.missing
    /\ editor.package = None => editor.takes = {}

\* The inductive invariant: every step of page, worker and recording keeps it.
StudioKeeps ==
    /\ StudioTypes /\ InTurn /\ AskedWell /\ PageFits /\ WorkerFits /\ RowsFit /\ TakeFits
    /\ TakeKeepsItsScenes /\ EditorSees

LEMMA Members == \A S : \A s \in Seq(S) : \A i \in DOMAIN s : s[i] \in S
BY ElementOfSeq

\* What the worker and the page know of no package.
LEMMA ClosedIs == Closed \in Works /\ Sane(Closed) /\ Closed.package = None /\ ~Closed.recording
  BY DEF Closed, Works, Sane

\* Without a command nothing is on the way.
LEMMA QuietIs ==
    ASSUME StudioKeeps, ~inHand
    PROVE  queue = <<>> /\ inbox = <<>> /\ pending = None /\ NoNews
  BY DEF StudioKeeps, InTurn, NoNews

LEMMA RequestTyped ==
    ASSUME NEW op \in StudioOps, NEW p \in Packages \cup {None}, NEW c \in Nat, NEW t \in Takes \cup {0},
           NEW r, r = [op |-> op, fresh |-> TRUE, package |-> p, scene |-> c, take |-> t]
    PROVE  /\ r \in StudioRequests /\ r.op = op /\ r.fresh /\ r.package = p /\ r.scene = c /\ r.take = t
BY DEF StudioRequests

\* A command that is taken is the only thing on the way.
LEMMA Submitted ==
    ASSUME StudioKeeps, NEW op \in StudioOps, op # "open", NEW c \in Nat, NEW t \in Takes \cup {0}, Accepts,
           Submit(op, c, t), inbox' = inbox, worker' = worker, project' = project, made' = made
    PROVE  /\ inHand' = TRUE /\ pending' = op /\ touched' = FALSE /\ known' = known /\ editor' = editor
           /\ queue' \in Seq(StudioRequests) /\ Len(queue') = 1 /\ DOMAIN queue' = {1}
           /\ queue'[1].op = op /\ queue'[1].scene = c /\ queue'[1].take = t
           /\ inbox = <<>> /\ NoNews /\ NoNews' /\ InTurn' /\ PageFits'
<1>1. inHand' = TRUE /\ pending' = op /\ touched' = FALSE /\ known' = known /\ editor' = editor
      /\ queue' = Append(queue, [op |-> op, fresh |-> TRUE, package |-> known.package, scene |-> c, take |-> t])
  BY DEF Submit, Request
<1>2. StudioTypes /\ InTurn /\ PageFits  BY DEF StudioKeeps
<1>3. ~inHand /\ known.package # None  BY DEF Accepts
<1>4. queue = <<>> /\ inbox = <<>> /\ pending = None /\ NoNews  BY <1>3, QuietIs
<1> DEFINE r == [op |-> op, fresh |-> TRUE, package |-> known.package, scene |-> c, take |-> t]
<1>5. r \in StudioRequests /\ r.op = op /\ r.fresh /\ r.scene = c /\ r.take = t
 <2>1. known.package \in Packages \cup {None}  BY <1>2 DEF StudioTypes, Works
 <2> QED  BY <2>1, RequestTyped
<1> HIDE DEF r
<1>6. queue' \in Seq(StudioRequests) /\ queue' # <<>> /\ Len(queue') = 1 /\ DOMAIN queue' = {1} /\ queue'[1] = r
 <2>1. queue' = <<r>>  BY <1>1, <1>4 DEF r
 <2> QED  BY <2>1, <1>5
<1>7. NoNews'  BY <1>6 DEF NoNews
<1>8. op # None  BY DEF StudioOps, Edits, None
<1>9. InTurn'  BY <1>1, <1>6, <1>2, <1>3, <1>5, <1>4, <1>8 DEF PageFits, InTurn
<1>10. PageFits'  BY <1>1, <1>2, <1>3, <1>4, <1>7 DEF PageFits, Sane, Listed, Shows
<1> QED  BY <1>1, <1>4, <1>5, <1>6, <1>7, <1>9, <1>10

-----------------------------------------------------------------------------

-----------------------------------------------------------------------------
(* Scenes and takes: the user *)

\* A command that changes nothing else: an edit, a switch or a mark.
LEMMA CommandKeeps ==
    ASSUME StudioKeeps, NEW op \in Edits \cup {"switch", "mark"}, NEW c \in Nat, Submit(op, c, 0),
           op \in Edits => c \in Range(known.scenes), op \in {"add", "duplicate"} => made < MaxScene,
           UNCHANGED <<project, live, rowVars, stored, worker, inbox, historyVars>>
    PROVE  StudioKeeps'
<1>1. CASE ~Accepts
 <2>1. UNCHANGED <<queue, guiVars>>  BY <1>1 DEF Submit
 <2> USE <2>1 DEF guiVars, rowVars, historyVars
 <2>2. (NoNews' <=> NoNews) /\ (Shows(known, worker)' <=> Shows(known, worker))
   BY DEF NoNews, Shows
 <2>3. StudioTypes' /\ InTurn'  BY DEF StudioKeeps, StudioTypes, InTurn
 <2>4. AskedWell' /\ PageFits'  BY <2>2 DEF StudioKeeps, AskedWell, PageFits, Sane, Listed
 <2>5. WorkerFits' /\ TakeKeepsItsScenes'
   BY DEF StudioKeeps, WorkerFits, TakeKeepsItsScenes, Listed
 <2>6. RowsFit' /\ TakeFits' /\ EditorSees'
   BY <2>2 DEF StudioKeeps, RowsFit, TakeFits, EditorSees, TakesOf
 <2> QED  BY <2>2, <2>3, <2>4, <2>5, <2>6 DEF StudioKeeps
<1>2. CASE Accepts
 <2>u. /\ project' = project /\ live' = live /\ stored' = stored /\ worker' = worker /\ inbox' = inbox
       /\ UNCHANGED rowVars /\ UNCHANGED historyVars /\ made' = made
   BY DEF historyVars
 <2>0. op \in StudioOps /\ op \notin {"open", "prepare", "abort", "complete"} /\ 0 \in Takes \cup {0}
   BY DEF StudioOps, Edits
 <2>1. /\ inHand' = TRUE /\ pending' = op /\ touched' = FALSE /\ known' = known /\ editor' = editor
       /\ queue' \in Seq(StudioRequests) /\ DOMAIN queue' = {1}
       /\ queue'[1].op = op /\ queue'[1].scene = c
       /\ NoNews /\ NoNews' /\ InTurn' /\ PageFits'
   BY <1>2, <2>u, <2>0, Submitted
 <2>2. StudioTypes'  BY <2>u, <2>0, <2>1 DEF StudioKeeps, StudioTypes, rowVars, historyVars
 <2>3. AskedWell'  BY <2>u, <2>0, <2>1 DEF AskedWell
 <2>4. WorkerFits' /\ TakeKeepsItsScenes'
   BY <2>u DEF StudioKeeps, WorkerFits, TakeKeepsItsScenes, Listed, rowVars, historyVars
 <2>5. pending = None  BY <1>2, QuietIs DEF Accepts
 <2>6. RowsFit'  BY <2>u, <2>0, <2>1, <2>5 DEF StudioKeeps, RowsFit, rowVars, historyVars, None
 <2>7. TakeFits'  BY <2>u, <2>1 DEF StudioKeeps, TakeFits, rowVars
 <2>8. EditorSees'  BY <2>u, <2>1 DEF StudioKeeps, EditorSees, rowVars, TakesOf
 <2> QED  BY <2>1, <2>2, <2>3, <2>4, <2>6, <2>7, <2>8 DEF StudioKeeps
<1> QED  BY <1>1, <1>2

\* What is in a list of scenes is a scene.
LEMMA ListedAre ==
    ASSUME NEW s, s.scenes \in Seq(Nat)
    PROVE  Range(s.scenes) \subseteq Nat
BY Members DEF Range

\* The user's edits of scenes, a switch and a mark (dispatchCommand()).
LEMMA CommandsKeep ==
    ASSUME StudioKeeps, (\E op \in Edits : Edit(op)) \/ SwitchScene \/ AddMarker
    PROVE  StudioKeeps'
<1>t. known \in Works /\ Sane(known) /\ Range(known.scenes) \subseteq Nat
  BY ListedAre DEF StudioKeeps, StudioTypes, PageFits, Works
<1>1. ASSUME NEW op \in Edits, Edit(op) PROVE StudioKeeps'
 <2>1. /\ Submit(op, known.selected, 0) /\ (op \in {"add", "duplicate"} => made < MaxScene)
       /\ UNCHANGED <<project, live, rowVars, stored, worker, inbox, historyVars>> /\ known.selected # 0
   BY <1>1 DEF Edit
 <2>2. known.package # None  BY <1>t, <2>1 DEF Sane, Closed
 <2>3. known.selected \in Range(known.scenes) /\ known.selected \in Nat  BY <1>t, <2>2 DEF Sane
 <2> QED  BY <2>1, <2>3, op \in Edits \cup {"switch", "mark"}, CommandKeeps
<1>2. ASSUME SwitchScene PROVE StudioKeeps'
 <2>1. PICK c \in Range(known.scenes) : Submit("switch", c, 0)  BY <1>2 DEF SwitchScene
 <2>2. UNCHANGED <<project, live, rowVars, stored, worker, inbox, historyVars>>
   BY <1>2 DEF SwitchScene
 <2>3. c \in Nat /\ "switch" \notin Edits  BY <1>t DEF Edits
 <2> QED  BY <2>1, <2>2, <2>3, CommandKeeps
<1>3. ASSUME AddMarker PROVE StudioKeeps'  BY <1>3, CommandKeeps DEF AddMarker, Edits
<1> QED  BY <1>1, <1>2, <1>3

\* Another scene is selected on the page alone (selectScene()).
LEMMA SelectSceneKeeps ==
    ASSUME StudioKeeps, SelectScene
    PROVE  StudioKeeps'
<1>1. PICK c \in Range(known.scenes) : known' = [known EXCEPT !.selected = c]  BY DEF SelectScene
<1>t. known \in Works /\ Sane(known) /\ known.package # None /\ Range(known.scenes) \subseteq Nat
  BY ListedAre DEF StudioKeeps, StudioTypes, PageFits, Works, SelectScene
<1>2. /\ known'.package = known.package /\ known'.scenes = known.scenes /\ known'.changed = known.changed
      /\ known'.active = known.active /\ known'.selected = c /\ known' \in Works
      /\ \A w : Shows(known, w) => Shows(known', w)
  BY <1>1, <1>t DEF Works, Shows
<1>u. /\ touched' = TRUE /\ UNCHANGED rowVars /\ UNCHANGED historyVars /\ project' = project /\ live' = live
      /\ stored' = stored /\ queue' = queue /\ worker' = worker /\ inbox' = inbox
      /\ inHand' = inHand /\ pending' = pending /\ editor' = editor
  BY DEF SelectScene
<1>3. StudioTypes'  BY <1>u, <1>2 DEF StudioKeeps, StudioTypes, rowVars, historyVars
<1>4. ~(inHand /\ pending = None)  BY <1>t, ClosedIs DEF StudioKeeps, InTurn
<1>5. InTurn'  BY <1>u, <1>2, <1>4, <1>t DEF StudioKeeps, InTurn
<1>6. AskedWell'  BY <1>u, <1>2 DEF StudioKeeps, AskedWell, historyVars
<1>7. NoNews' <=> NoNews  BY <1>u DEF NoNews
<1>8. PageFits'  BY <1>u, <1>2, <1>t, <1>7 DEF StudioKeeps, PageFits, Sane, Listed, historyVars
<1>9. WorkerFits' /\ TakeKeepsItsScenes'
  BY <1>u DEF StudioKeeps, WorkerFits, TakeKeepsItsScenes, Listed, rowVars, historyVars
<1>10. RowsFit' /\ TakeFits'
  BY <1>u, <1>2, <1>7 DEF StudioKeeps, RowsFit, TakeFits, rowVars, historyVars
<1>11. EditorSees'  BY <1>u, <1>2, <1>7 DEF StudioKeeps, EditorSees, rowVars, TakesOf
<1> QED  BY <1>3, <1>5, <1>6, <1>8, <1>9, <1>10, <1>11 DEF StudioKeeps

\* Messages of an earlier opening are the same ones, but for nobody.
LEMMA OutdatedIs ==
    ASSUME NEW s \in Seq(StudioRequests) \cup Seq(StudioReplies)
    PROVE  /\ Len(Outdated(s)) = Len(s) /\ DOMAIN Outdated(s) = DOMAIN s
           /\ \A i \in DOMAIN s : ~Outdated(s)[i].fresh /\ Outdated(s)[i].op = s[i].op
           /\ s \in Seq(StudioRequests) => /\ Outdated(s) \in Seq(StudioRequests)
                                           /\ \A i \in DOMAIN s : Outdated(s)[i].package = s[i].package
           /\ s \in Seq(StudioReplies) => Outdated(s) \in Seq(StudioReplies)
<1>1. ASSUME NEW T, s \in Seq(T), \A m \in T : [m EXCEPT !.fresh = FALSE] \in T
      PROVE  /\ Outdated(s) \in Seq(T) /\ Len(Outdated(s)) = Len(s) /\ DOMAIN Outdated(s) = DOMAIN s
             /\ \A i \in DOMAIN s : s[i] \in T /\ Outdated(s)[i] = [s[i] EXCEPT !.fresh = FALSE]
 <2>1. DOMAIN s = 1 .. Len(s) /\ Len(s) \in Nat /\ \A i \in DOMAIN s : s[i] \in T  BY <1>1, Members
 <2>2. Outdated(s) = [i \in 1 .. Len(s) |-> [s[i] EXCEPT !.fresh = FALSE]]  BY <2>1 DEF Outdated
 <2>3. \A i \in 1 .. Len(s) : [s[i] EXCEPT !.fresh = FALSE] \in T  BY <1>1, <2>1
 <2> DEFINE F(i) == [s[i] EXCEPT !.fresh = FALSE]
 <2>4. [i \in 1 .. Len(s) |-> F(i)] \in Seq(T) /\ Len([i \in 1 .. Len(s) |-> F(i)]) = Len(s)
  <3> HIDE DEF F
  <3>1. \A i \in 1 .. Len(s) : F(i) \in T  BY <2>3 DEF F
  <3> QED  BY <2>1, <3>1, IsASeq
 <2> QED  BY <2>1, <2>2, <2>4
<1>2. \A m \in StudioRequests : LET n == [m EXCEPT !.fresh = FALSE]
                                IN n \in StudioRequests /\ ~n.fresh /\ n.op = m.op /\ n.package = m.package
  BY DEF StudioRequests
<1>3. \A m \in StudioReplies : LET n == [m EXCEPT !.fresh = FALSE]
                               IN n \in StudioReplies /\ ~n.fresh /\ n.op = m.op
  BY DEF StudioReplies
<1>4. CASE s \in Seq(StudioRequests)  BY <1>1, <1>2, <1>4, <1>3
<1>5. CASE s \in Seq(StudioReplies)  BY <1>1, <1>3, <1>5, <1>4
<1> QED  BY <1>4, <1>5

\* A package that is opened while nothing is under way: its request is the last one.
LEMMA OpenedInTurn ==
    ASSUME StudioKeeps, NEW p \in Packages, OpenStudio(p), ~(known.recording \/ pending # None), project' = p,
           made' = made, worker' = worker
    PROVE  /\ known' = Closed /\ inHand' = TRUE /\ pending' = None /\ pending = None /\ UNCHANGED <<touched, editor>>
           /\ queue' \in Seq(StudioRequests) /\ inbox' \in Seq(StudioReplies)
           /\ InTurn' /\ NoNews' /\ PageFits'
<1>1. /\ known' = Closed /\ inHand' = TRUE /\ UNCHANGED <<pending, touched, editor>>
      /\ queue' = Append(Outdated(queue), [op |-> "open", fresh |-> TRUE, package |-> p, scene |-> 0, take |-> 0])
      /\ inbox' = Outdated(inbox)
  BY DEF OpenStudio, Request
<1>2. StudioTypes /\ InTurn /\ PageFits /\ pending = None  BY DEF StudioKeeps
<1> DEFINE r == [op |-> "open", fresh |-> TRUE, package |-> p, scene |-> 0, take |-> 0]
<1>3. r \in StudioRequests /\ r.op = "open" /\ r.fresh /\ r.package = p
  BY RequestTyped DEF StudioOps
<1> HIDE DEF r
<1>4. /\ Outdated(queue) \in Seq(StudioRequests) /\ Len(Outdated(queue)) = Len(queue) /\ DOMAIN queue = 1 .. Len(queue)
      /\ \A i \in DOMAIN queue : /\ ~Outdated(queue)[i].fresh /\ Outdated(queue)[i].op = queue[i].op
                                 /\ Outdated(queue)[i].package = queue[i].package
      /\ Outdated(inbox) \in Seq(StudioReplies) /\ Len(Outdated(inbox)) = Len(inbox) /\ DOMAIN Outdated(inbox) = DOMAIN inbox
      /\ \A i \in DOMAIN inbox : ~Outdated(inbox)[i].fresh /\ Outdated(inbox)[i].op = inbox[i].op
      /\ Len(queue) \in Nat
  BY <1>2, OutdatedIs DEF StudioTypes
<1>5. /\ queue' \in Seq(StudioRequests) /\ Len(queue') = Len(queue) + 1 /\ DOMAIN queue' = 1 .. Len(queue) + 1 /\ queue' # <<>>
      /\ queue'[Len(queue) + 1] = r
      /\ \A i \in 1 .. Len(queue) : /\ ~queue'[i].fresh /\ queue'[i].op = queue[i].op
                                    /\ queue'[i].package = queue[i].package
 <2>1. queue' = Append(Outdated(queue), r)  BY <1>1 DEF r
 <2>2. /\ queue' \in Seq(StudioRequests) /\ queue' # <<>> /\ Len(queue') = Len(queue) + 1
       /\ queue'[Len(queue) + 1] = r
       /\ \A i \in 1 .. Len(queue) : queue'[i] = Outdated(queue)[i]
   BY <2>1, <1>3, <1>4, AppendProperties
 <2>3. DOMAIN queue' = 1 .. Len(queue) + 1  BY <2>2
 <2>4. \A i \in 1 .. Len(queue) : /\ ~queue'[i].fresh /\ queue'[i].op = queue[i].op
                                  /\ queue'[i].package = queue[i].package
   BY <2>2, <1>4
 <2> QED  BY <2>2, <2>3, <2>4
<1>6. p # None  BY StudioAssumption DEF StudioAssumption, None
<1>7. InTurn'
 <2>1. \A i \in DOMAIN queue' : /\ queue'[i].fresh <=> i = Len(queue')
                                /\ queue'[i].op = "open" => queue'[i].package \in Packages
                                /\ queue'[i].op = "open"
  <3>1. \A i \in 1 .. Len(queue) : queue[i].op = "open" /\ queue[i].package \in Packages
    BY <1>2, <1>4 DEF InTurn
  <3> QED  BY <1>3, <1>4, <1>5, <3>1
 <2>2. \A i \in DOMAIN inbox' : ~inbox'[i].fresh /\ inbox'[i].op = "open"
   BY <1>1, <1>2, <1>4 DEF InTurn
 <2>3. queue' # <<>> /\ inHand' /\ project' # None /\ pending' = None /\ known' = Closed
   BY <1>1, <1>2, <1>5, <1>6
 <2> QED  BY <2>1, <2>2, <2>3 DEF InTurn
<1>8. NoNews'  BY <1>5 DEF NoNews
<1>9. PageFits'  BY <1>1, ClosedIs, <1>2, <1>8 DEF Sane, Closed, PageFits, Listed
<1> QED  BY <1>1, <1>2, <1>4, <1>5, <1>7, <1>8, <1>9

\* Another package is opened, or the same again: what was under way is outdated.
LEMMA ProjectOpenedKeeps ==
    ASSUME StudioKeeps, NEW p \in Packages, ProjectOpened(p)
    PROVE  StudioKeeps'
<1>u. /\ project' = p /\ OpenStudio(p)
      /\ live' = live /\ home' = home /\ matter' = matter /\ events' = events /\ imported' = imported
      /\ stored' = stored /\ worker' = worker /\ made' = made /\ recorded' = recorded /\ UNCHANGED historyVars
  BY DEF ProjectOpened, historyVars
<1>k. /\ StudioTypes /\ InTurn /\ AskedWell /\ PageFits /\ WorkerFits /\ RowsFit /\ TakeFits
      /\ TakeKeepsItsScenes /\ EditorSees
  BY DEF StudioKeeps
<1>p. p # None /\ p \in Packages \cup {None}  BY StudioAssumption DEF StudioAssumption, None
<1>r. /\ row' \in [Takes -> RowStates]
      /\ \A t \in Takes : row'[t] = row[t] \/ (row[t] = "RECORDING" /\ row'[t] = "RECOVERED" /\ home[t] = p)
  BY <1>k DEF ProjectOpened, StudioTypes, RowStates, TakesOf
<1>1. WorkerFits' /\ TakeKeepsItsScenes'  BY <1>u, <1>k DEF WorkerFits, TakeKeepsItsScenes, Listed
<1>l. live.op # "Idle" => live.take \in Takes /\ home[live.take] # None  BY <1>k DEF RowsFit
<1>2. /\ \A t \in Takes : home[t] = None => row'[t] = "none" /\ events[t] = {}
      /\ \A t \in imported : row'[t] \in Done
      /\ \A t \in Takes : recorded[t] \subseteq 1 .. made /\ events[t] \subseteq 1 .. made
      /\ (live.op # "Idle" => live.take \in Takes /\ home[live.take] # None)
      /\ (live.op = "Beginning" => row'[live.take] = "none")
 <2>1. \A t \in Takes : home[t] = None => row'[t] = "none" /\ events[t] = {}
   BY <1>k, <1>r, <1>p DEF RowsFit
 <2>2. \A t \in imported : row'[t] \in Done  BY <1>k, <1>r DEF RowsFit, StudioTypes, Done
 <2>3. live.op = "Beginning" => row'[live.take] = "none"  BY <1>k, <1>r, <1>l DEF RowsFit
 <2>4. \A t \in Takes : recorded[t] \subseteq 1 .. made /\ events[t] \subseteq 1 .. made  BY <1>k DEF RowsFit
 <2> QED  BY <1>l, <2>1, <2>2, <2>3, <2>4
<1>5. live.op \in {"Preparing", "Recording", "Finalizing", "Saving"} => row'[live.take] \in {"RECORDING", "RECOVERED"}
  BY <1>k, <1>l, <1>r DEF RowsFit
<1>3. CASE known.recording \/ pending # None
 <2>1. UNCHANGED <<known, inHand, pending, touched, editor, queue, inbox>>
   BY <1>3, <1>u DEF OpenStudio, guiVars
 <2>2. (NoNews' <=> NoNews) /\ (Shows(known, worker)' <=> Shows(known, worker))
   BY <2>1, <1>u DEF NoNews, Shows
 <2>3. StudioTypes'  BY <2>1, <1>u, <1>k, <1>p, <1>r DEF StudioTypes, historyVars
 <2>4. InTurn' /\ AskedWell'  BY <2>1, <1>u, <1>k, <1>p DEF InTurn, AskedWell
 <2>5. PageFits'  BY <2>1, <2>2, <1>u, <1>k, <1>p DEF PageFits, Sane, Listed
 <2>6. EditorSees'  BY <2>1, <2>2, <1>u, <1>k DEF EditorSees, TakesOf
 <2>7. RowsFit'  BY <2>1, <1>u, <1>2, <1>5, <1>k, <1>p DEF RowsFit
 <2>8. TakeFits'  BY <2>2, <1>u, <1>k DEF TakeFits
 <2> QED  BY <2>3, <2>4, <2>5, <2>6, <2>7, <2>8, <1>1 DEF StudioKeeps
<1>4. CASE ~(known.recording \/ pending # None)
 <2>1. /\ known' = Closed /\ inHand' = TRUE /\ pending' = None /\ pending = None /\ UNCHANGED <<touched, editor>>
       /\ queue' \in Seq(StudioRequests) /\ inbox' \in Seq(StudioReplies)
       /\ InTurn' /\ NoNews' /\ PageFits'
   BY <1>4, <1>u, OpenedInTurn
 <2>2. live.op \notin {"Preparing", "Recording", "Finalizing", "Saving"}
  <3>1. SUFFICES ASSUME live.op \in {"Recording", "Finalizing", "Saving"} PROVE FALSE
    BY <2>1, <1>k DEF RowsFit, None
  <3>2. known.package # None /\ worker.recording  BY <3>1, <1>k DEF RowsFit, TakeFits
  <3>3. ~inHand  BY <3>2, <2>1, <1>k, ClosedIs DEF InTurn
  <3>4. Shows(known, worker)  BY <3>2, <3>3, <1>k, QuietIs DEF PageFits
  <3> QED  BY <3>2, <3>4, <1>4 DEF Shows
 <2>3. StudioTypes'  BY <2>1, <1>u, <1>k, <1>p, <1>r, ClosedIs DEF StudioTypes, historyVars
 <2>4. AskedWell'  BY <2>1 DEF AskedWell
 <2>5. EditorSees'  BY <2>1, <1>u, <1>k, ClosedIs DEF EditorSees
 <2>6. RowsFit'  BY <2>1, <2>2, <1>u, <1>2, <1>k, <1>p DEF RowsFit, None
 <2>7. TakeFits'  BY <2>2, <1>u DEF TakeFits
 <2> QED  BY <2>1, <2>3, <2>4, <2>5, <2>6, <2>7, <1>1 DEF StudioKeeps
<1> QED  BY <1>3, <1>4

\* The program ends and starts again.
LEMMA RestartKeeps ==
    ASSUME StudioKeeps, Restart
    PROVE  StudioKeeps'
<1>u. /\ project' = None /\ live' = [op |-> "Idle", take |-> 0] /\ queue' = <<>> /\ worker' = Closed /\ inbox' = <<>>
      /\ known' = Closed /\ inHand' = FALSE /\ pending' = None /\ touched' = FALSE
      /\ editor' = [package |-> None, takes |-> {}] /\ UNCHANGED rowVars /\ UNCHANGED historyVars /\ stored' = stored
  BY DEF Restart
<1>l. live' \in [op : LiveOps, take : Takes \cup {0}] /\ live'.op = "Idle"  BY <1>u DEF LiveOps
<1>e. editor' \in [package : Packages \cup {None}, takes : SUBSET Takes] /\ editor'.takes = {}
  BY <1>u
<1>q. queue' \in Seq(StudioRequests) /\ inbox' \in Seq(StudioReplies) /\ DOMAIN queue' = {} /\ DOMAIN inbox' = {}
  BY <1>u
<1>1. StudioTypes'
  BY <1>u, <1>l, <1>e, <1>q, ClosedIs DEF StudioKeeps, StudioTypes, rowVars, historyVars
<1>2. InTurn' /\ AskedWell' /\ NoNews'  BY <1>u, <1>q DEF InTurn, AskedWell, NoNews
<1>3. PageFits'  BY ClosedIs, <1>u, <1>2 DEF Sane, Closed, PageFits
<1>4. WorkerFits' /\ TakeKeepsItsScenes'
  BY <1>u, ClosedIs DEF StudioKeeps, WorkerFits, TakeKeepsItsScenes, Listed, rowVars, historyVars
<1>5. RowsFit' /\ TakeFits'
  BY <1>u, <1>l DEF StudioKeeps, RowsFit, TakeFits, rowVars, historyVars, None
<1>6. EditorSees'  BY <1>u, <1>e, <1>2, ClosedIs DEF EditorSees
<1> QED  BY <1>1, <1>2, <1>3, <1>4, <1>5, <1>6 DEF StudioKeeps

-----------------------------------------------------------------------------

-----------------------------------------------------------------------------
(* Scenes and takes: the recording *)

\* A step that touches neither requests nor answers leaves them as they were.
LEMMA MessagesStay ==
    ASSUME StudioKeeps, UNCHANGED <<project, queue, worker, inbox, guiVars, made>>
    PROVE  InTurn' /\ PageFits' /\ (NoNews' <=> NoNews)
<1> USE DEF guiVars
<1>1. (NoNews' <=> NoNews) /\ (Shows(known, worker)' <=> Shows(known, worker))  BY DEF NoNews, Shows
<1>2. InTurn'  BY DEF StudioKeeps, InTurn
<1>3. PageFits'  BY <1>1 DEF StudioKeeps, PageFits, Sane, Listed
<1> QED  BY <1>1, <1>2, <1>3

\* What the recording's step and take are.
LEMMA LiveIs ==
    ASSUME NEW op \in LiveOps, NEW t \in Takes \cup {0}, NEW l, l = [op |-> op, take |-> t]
    PROVE  l \in [op : LiveOps, take : Takes \cup {0}] /\ l.op = op /\ l.take = t
OBVIOUS

\* A recording begins (the binding of the recording to the scenes).
LEMMA StartRecordingKeeps ==
    ASSUME StudioKeeps, StartRecording
    PROVE  StudioKeeps'
<1>k. /\ StudioTypes /\ InTurn /\ AskedWell /\ PageFits /\ WorkerFits /\ RowsFit /\ TakeFits
      /\ TakeKeepsItsScenes /\ EditorSees
  BY DEF StudioKeeps
<1>u. /\ live.op = "Idle" /\ project # None /\ project' = project /\ row' = row /\ matter' = matter /\ events' = events
      /\ imported' = imported /\ stored' = stored /\ queue' = queue /\ worker' = worker /\ inbox' = inbox
      /\ UNCHANGED guiVars /\ UNCHANGED historyVars /\ made' = made /\ recorded' = recorded
  BY DEF StartRecording, historyVars
<1>g. known' = known /\ inHand' = inHand /\ pending' = pending /\ touched' = touched /\ editor' = editor
  BY <1>u DEF guiVars
<1>1. PICK t \in Takes : /\ home[t] = None /\ live' = [op |-> "Beginning", take |-> t]
                         /\ home' = [home EXCEPT ![t] = project]
  BY DEF StartRecording
<1>2. live' \in [op : LiveOps, take : Takes \cup {0}] /\ live'.op = "Beginning" /\ live'.take = t
  BY <1>1, LiveIs DEF LiveOps
<1>3. /\ home' \in [Takes -> Packages \cup {None}] /\ home'[t] = project
      /\ \A u \in Takes : u # t => home'[u] = home[u]
  BY <1>1, <1>k DEF StudioTypes
<1>4. row[t] = "none" /\ events[t] = {} /\ t \notin imported  BY <1>1, <1>k DEF Done, RowsFit
<1>5. StudioTypes'  BY <1>u, <1>g, <1>2, <1>3, <1>k DEF StudioTypes, historyVars
<1>6. InTurn' /\ PageFits' /\ (NoNews' <=> NoNews)  BY <1>u, MessagesStay
<1>7. AskedWell' /\ TakeFits'  BY <1>u, <1>k, <1>g, <1>2 DEF RowsFit, AskedWell, InTurn, TakeFits
<1>8. WorkerFits'  BY <1>1, <1>k, <1>u, <1>3 DEF WorkerFits, Listed
<1>9. RowsFit'  BY <1>u, <1>g, <1>2, <1>3, <1>4, <1>k DEF RowsFit
<1>10. TakeKeepsItsScenes'  BY <1>u, <1>3, <1>4, <1>k DEF TakeKeepsItsScenes
<1>11. EditorSees'  BY <1>3, <1>4, <1>u, <1>g, <1>6, <1>k DEF EditorSees, TakesOf
<1> QED  BY <1>5, <1>6, <1>7, <1>8, <1>9, <1>10, <1>11 DEF StudioKeeps

\* The take moves on by itself.
LEMMA TakeMovesOn ==
    ASSUME StudioKeeps, NEW op \in {"Finalizing", "Saving", "Aborting"}, live' = [live EXCEPT !.op = op],
           live.op \in {"Recording", "Finalizing"}, healthy' \in BOOLEAN,
           UNCHANGED <<project, rowVars, stored, queue, worker, inbox, guiVars, made, recorded, reopened>>
    PROVE  StudioKeeps'
<1>k. /\ StudioTypes /\ InTurn /\ AskedWell /\ PageFits /\ WorkerFits /\ RowsFit /\ TakeFits
      /\ TakeKeepsItsScenes /\ EditorSees
  BY DEF StudioKeeps
<1>1. live' \in [op : LiveOps, take : Takes \cup {0}] /\ live'.op = op /\ live'.take = live.take
  BY <1>k DEF StudioTypes, LiveOps
<1>2. InTurn' /\ PageFits' /\ (NoNews' <=> NoNews)  BY MessagesStay
<1>3. StudioTypes'  BY <1>1, <1>k DEF StudioTypes, rowVars, guiVars
<1>4. AskedWell' /\ WorkerFits' /\ TakeKeepsItsScenes'
  BY <1>1, <1>k DEF AskedWell, WorkerFits, TakeKeepsItsScenes, Listed, rowVars, guiVars
<1>5. RowsFit' /\ TakeFits'  BY <1>1, <1>2, <1>k DEF RowsFit, TakeFits, rowVars, guiVars
<1>6. EditorSees'  BY <1>2, <1>k DEF EditorSees, TakesOf, rowVars, guiVars
<1> QED  BY <1>2, <1>3, <1>4, <1>5, <1>6 DEF StudioKeeps

\* A segment is written, the recording is stopped, or the engine ends.
LEMMA EngineKeeps ==
    ASSUME StudioKeeps, WriteSegment \/ StopRecording \/ HandleEngineFinished
    PROVE  StudioKeeps'
<1>k. /\ StudioTypes /\ InTurn /\ AskedWell /\ PageFits /\ WorkerFits /\ RowsFit /\ TakeFits
      /\ TakeKeepsItsScenes /\ EditorSees
  BY DEF StudioKeeps
<1>1. CASE WriteSegment
 <2>u. /\ live' = live /\ project' = project /\ row' = row /\ home' = home /\ events' = events
       /\ imported' = imported /\ stored' = stored /\ queue' = queue /\ worker' = worker /\ inbox' = inbox
       /\ UNCHANGED guiVars /\ UNCHANGED historyVars /\ made' = made /\ recorded' = recorded
       /\ matter' = matter \cup {live.take} /\ live.op = "Recording"
   BY <1>1 DEF WriteSegment, historyVars
 <2>g. known' = known /\ inHand' = inHand /\ pending' = pending /\ touched' = touched /\ editor' = editor
   BY <2>u DEF guiVars
 <2>1. live.take \in Takes  BY <2>u, <1>k DEF RowsFit
 <2>2. StudioTypes'  BY <2>u, <2>g, <2>1, <1>k DEF StudioTypes, historyVars
 <2>3. InTurn' /\ PageFits' /\ (NoNews' <=> NoNews)  BY <2>u, MessagesStay
 <2>4. AskedWell' /\ WorkerFits' /\ TakeKeepsItsScenes'
   BY <2>u, <2>g, <1>k DEF AskedWell, WorkerFits, TakeKeepsItsScenes, Listed
 <2>5. RowsFit' /\ TakeFits'  BY <2>u, <2>g, <2>3, <1>k DEF RowsFit, TakeFits
 <2>6. EditorSees'  BY <2>u, <2>g, <2>3, <1>k DEF EditorSees, TakesOf
 <2> QED  BY <2>2, <2>3, <2>4, <2>5, <2>6 DEF StudioKeeps
<1>2. CASE StopRecording  BY <1>2, <1>k, TakeMovesOn DEF StopRecording, historyVars, StudioTypes
<1>3. CASE HandleEngineFinished  BY <1>3, <1>k, TakeMovesOn DEF HandleEngineFinished, StudioTypes
<1> QED  BY <1>1, <1>2, <1>3

\* The row of the take moves on, and the studio is told so if it can be.
LEMMA RowMovesOn ==
    ASSUME StudioKeeps, NEW request \in {"prepare", "complete", "abort"}, NEW verdict \in RowStates \ {"none"},
           NEW take, take \in {0, live.take}, NEW op \in LiveOps, live.op \in {"Beginning", "Saving", "Aborting"},
           row' = [row EXCEPT ![live.take] = verdict], Submit(request, 0, take), live'.op = op,
           live' \in [op : LiveOps, take : Takes \cup {0}], healthy' = healthy,
           row[live.take] \notin Done,
           IF request = "prepare"
           THEN /\ verdict = "RECORDING" /\ take = live.take /\ live'.take = live.take
                /\ op = IF Accepts THEN "Preparing" ELSE "Aborting"
           ELSE op = "Idle",
           UNCHANGED <<project, home, matter, events, imported, stored, worker, inbox, made, recorded, reopened>>
    PROVE  StudioKeeps'
<1>k. /\ StudioTypes /\ InTurn /\ AskedWell /\ PageFits /\ WorkerFits /\ RowsFit /\ TakeFits
      /\ TakeKeepsItsScenes /\ EditorSees
  BY DEF StudioKeeps
<1>1. live.take \in Takes /\ take \in Takes \cup {0} /\ home[live.take] # None /\ project # None
  BY <1>k DEF RowsFit
<1>2. /\ row' \in [Takes -> RowStates] /\ row'[live.take] = verdict /\ live.take \notin imported
      /\ \A t \in Takes : t # live.take => row'[t] = row[t]
  BY <1>1, <1>k DEF StudioTypes, RowsFit
<1>3. /\ \A t \in Takes : home[t] = None => row'[t] = "none" /\ events[t] = {}
      /\ \A t \in imported : row'[t] \in Done
  BY <1>k, <1>1, <1>2 DEF StudioTypes, RowsFit
<1>4. TakeKeepsItsScenes' /\ WorkerFits'  BY <1>k DEF TakeKeepsItsScenes, WorkerFits, Listed
<1>5. op \notin {"Beginning", "Recording", "Finalizing", "Saving"} /\ pending # "prepare"
  BY <1>k DEF RowsFit
<1>6. CASE ~Accepts
 <2>1. UNCHANGED <<queue, guiVars>>  BY <1>6 DEF Submit
 <2>g. known' = known /\ inHand' = inHand /\ pending' = pending /\ touched' = touched /\ editor' = editor
   BY <2>1 DEF guiVars
 <2>2. InTurn' /\ PageFits' /\ (NoNews' <=> NoNews)  BY <2>1, MessagesStay
 <2>3. StudioTypes'  BY <2>1, <2>g, <1>2, <1>k DEF StudioTypes
 <2>4. AskedWell'  BY <2>1, <2>g, <1>k, <1>5 DEF AskedWell, InTurn
 <2>5. TakeFits'  BY <1>5, <1>6 DEF TakeFits
 <2>6. RowsFit'  BY <2>1, <2>g, <1>1, <1>2, <1>3, <1>5, <1>6, <1>k DEF RowsFit
 <2>7. EditorSees'  BY <2>1, <2>g, <2>2, <1>k DEF EditorSees, TakesOf
 <2> QED  BY <1>4, <2>2, <2>3, <2>4, <2>5, <2>6, <2>7 DEF StudioKeeps
<1>7. CASE Accepts
 <2>0. request \in StudioOps /\ request # "open" /\ 0 \in Nat /\ request \notin Edits
   BY DEF StudioOps, Edits
 <2>1. /\ inHand' = TRUE /\ pending' = request /\ touched' = FALSE /\ known' = known /\ editor' = editor
       /\ queue' \in Seq(StudioRequests) /\ queue'[1].op = request /\ queue'[1].take = take
       /\ NoNews /\ NoNews' /\ InTurn' /\ PageFits'
   BY <1>1, <1>7, <2>0, Submitted
 <2>2. known.package # None  BY <1>7 DEF Accepts
 <2>3. StudioTypes'  BY <2>0, <2>1, <1>2, <1>k DEF StudioTypes
 <2>4. AskedWell'  BY <2>0, <2>1 DEF AskedWell
 <2>5. TakeFits'  BY <2>1, <1>5 DEF TakeFits
 <2>6. RowsFit'  BY <2>1, <2>2, <1>1, <1>2, <1>3, <1>5, <1>7, <1>k DEF RowsFit
 <2>7. EditorSees'  BY <2>1, <1>k DEF EditorSees, TakesOf
 <2> QED  BY <1>4, <2>1, <2>3, <2>4, <2>5, <2>6, <2>7 DEF StudioKeeps
<1> QED  BY <1>6, <1>7

\* A take that ends without its row leaves the studio as it is.
LEMMA TakeDropped ==
    ASSUME StudioKeeps, live' = [op |-> "Idle", take |-> 0], live.op \in {"Beginning", "Saving", "Aborting"},
           healthy' = FALSE,
           UNCHANGED <<project, row, home, matter, events, imported, stored, queue, worker, inbox, guiVars,
                       made, recorded, reopened>>
    PROVE  StudioKeeps'
<1>k. /\ StudioTypes /\ InTurn /\ AskedWell /\ PageFits /\ WorkerFits /\ RowsFit /\ TakeFits
      /\ TakeKeepsItsScenes /\ EditorSees
  BY DEF StudioKeeps
<1>1. live' \in [op : LiveOps, take : Takes \cup {0}] /\ live'.op = "Idle"  BY LiveIs DEF LiveOps
<1>g. known' = known /\ inHand' = inHand /\ pending' = pending /\ touched' = touched /\ editor' = editor
  BY DEF guiVars
<1>2. InTurn' /\ PageFits' /\ (NoNews' <=> NoNews)  BY MessagesStay
<1>3. StudioTypes'  BY <1>1, <1>g, <1>k DEF StudioTypes
<1>4. AskedWell' /\ WorkerFits' /\ TakeKeepsItsScenes'
  BY <1>k, <1>g DEF RowsFit, AskedWell, InTurn, WorkerFits, TakeKeepsItsScenes, Listed
<1>5. RowsFit' /\ TakeFits'  BY <1>1, <1>g, <1>k DEF RowsFit, TakeFits
<1>6. EditorSees'  BY <1>2, <1>g, <1>k DEF EditorSees, TakesOf
<1> QED  BY <1>2, <1>3, <1>4, <1>5, <1>6 DEF StudioKeeps

\* The take has a row, and the worker is asked to prepare it.
LEMMA HandleBegunKeeps ==
    ASSUME StudioKeeps, HandleBegun
    PROVE  StudioKeeps'
<1>k. StudioTypes /\ RowsFit /\ live.op = "Beginning"  BY DEF StudioKeeps, HandleBegun
<1>u. UNCHANGED <<project, home, matter, events, imported, stored, worker, inbox, made, recorded, reopened>>
  BY DEF HandleBegun
<1>1. CASE /\ row' = [row EXCEPT ![live.take] = "RECORDING"]
           /\ Submit("prepare", 0, live.take)
           /\ live' = [live EXCEPT !.op = IF Accepts THEN "Preparing" ELSE "Aborting"]
           /\ UNCHANGED healthy
 <2> DEFINE op == IF Accepts THEN "Preparing" ELSE "Aborting"
 <2>1. op \in LiveOps  BY DEF LiveOps
 <2>2. live' = [live EXCEPT !.op = op]  BY <1>1
 <2>3. row[live.take] \notin Done /\ "RECORDING" \in RowStates \ {"none"}
   BY <1>k DEF RowsFit, Done, RowStates
 <2>5. op = IF Accepts THEN "Preparing" ELSE "Aborting"  OBVIOUS
 <2> HIDE DEF op
 <2>4. live' \in [op : LiveOps, take : Takes \cup {0}] /\ live'.op = op /\ live'.take = live.take
   BY <2>1, <2>2, <1>k DEF StudioTypes
 <2> QED  BY <1>1, <1>k, <1>u, <2>1, <2>3, <2>4, <2>5, RowMovesOn
<1>2. CASE live' = [op |-> "Idle", take |-> 0] /\ healthy' = FALSE /\ UNCHANGED <<row, guiVars, queue>>
  BY <1>2, <1>u, <1>k, TakeDropped
<1> QED  BY <1>1, <1>2 DEF HandleBegun

\* The row gets its verdict, and the worker is asked to end the take.
LEMMA SettleKeeps ==
    ASSUME StudioKeeps, HandlePersistenceComplete \/ HandleAborted
    PROVE  StudioKeeps'
<1>1. PICK op \in {"Saving", "Aborting"}, verdict \in {"COMPLETED", "ABORTED"}, request \in {"complete", "abort"} :
          Settle(op, verdict, request)
  BY DEF HandlePersistenceComplete, HandleAborted
<1>k. StudioTypes /\ live.op = op  BY <1>1 DEF StudioKeeps, Settle
<1>u. /\ UNCHANGED <<project, home, matter, events, imported, stored, worker, inbox, made, recorded, reopened>>
      /\ live' = [op |-> "Idle", take |-> 0]
  BY <1>1 DEF Settle
<1>2. CASE /\ row[live.take] = "RECORDING" /\ home[live.take] = project
           /\ row' = [row EXCEPT ![live.take] = verdict]
           /\ Submit(request, 0, 0)
           /\ UNCHANGED healthy
 <2>1. live' \in [op : LiveOps, take : Takes \cup {0}] /\ live'.op = "Idle" /\ "Idle" \in LiveOps
   BY <1>u, LiveIs DEF LiveOps
 <2>2. row[live.take] \notin Done /\ verdict \in RowStates \ {"none"} /\ request # "prepare"
       /\ request \in {"prepare", "complete", "abort"} /\ 0 \in {0, live.take}
   BY <1>2 DEF Done, RowStates
 <2> QED  BY <1>2, <1>k, <1>u, <2>1, <2>2, RowMovesOn
<1>3. CASE UNCHANGED <<row, guiVars, queue>> /\ healthy' = FALSE  BY <1>3, <1>u, <1>k, TakeDropped
<1> QED  BY <1>1, <1>2, <1>3 DEF Settle

-----------------------------------------------------------------------------

-----------------------------------------------------------------------------
(* Scenes and takes: the worker *)

\* The worker has answered the first request.
LEMMA Worked ==
    ASSUME StudioKeeps, queue # <<>>, queue' = Tail(queue), NEW ok \in BOOLEAN, NEW brought \in Works,
           NEW a, a = [op |-> Job.op, fresh |-> Job.fresh, ok |-> ok, state |-> brought], inbox' = Append(inbox, a),
           UNCHANGED <<project, guiVars>>
    PROVE  /\ Job \in StudioRequests /\ Job = queue[1] /\ inHand /\ project # None
           /\ queue' \in Seq(StudioRequests) /\ inbox' \in Seq(StudioReplies) /\ InTurn' /\ AskedWell'
           /\ inbox' # <<>> /\ inbox'[Len(inbox')].state = brought
           /\ NoNews' <=> (queue' # <<>> \/ ~ok)
           /\ NoNews
           /\ pending # None => queue' = <<>> /\ Job.op = pending
           /\ pending = None => Job.op = "open" /\ Job.package \in Packages /\ known = Closed
<1>k. StudioTypes /\ InTurn  BY DEF StudioKeeps
<1>g. known' = known /\ inHand' = inHand /\ pending' = pending /\ touched' = touched /\ editor' = editor /\ project' = project
  BY DEF guiVars
<1>1. /\ queue \in Seq(StudioRequests) /\ Len(queue) \in Nat \ {0} /\ DOMAIN queue = 1 .. Len(queue)
      /\ Job = queue[1] /\ Job \in StudioRequests
      /\ queue' \in Seq(StudioRequests) /\ Len(queue') = Len(queue) - 1 /\ DOMAIN queue' = 1 .. Len(queue) - 1
      /\ \A i \in DOMAIN queue' : queue'[i] = queue[i + 1]
  BY <1>k, Members, HeadTailProperties DEF StudioTypes, Job
<1>2. a \in StudioReplies /\ a.op = Job.op /\ a.state = brought /\ (a.fresh <=> Job.fresh) /\ (a.ok <=> ok)
  BY <1>1 DEF StudioRequests, StudioReplies
<1>3. /\ inbox \in Seq(StudioReplies) /\ Len(inbox) \in Nat /\ DOMAIN inbox = 1 .. Len(inbox)
      /\ inbox' \in Seq(StudioReplies) /\ inbox' # <<>> /\ Len(inbox') = Len(inbox) + 1
      /\ DOMAIN inbox' = 1 .. Len(inbox) + 1
      /\ inbox'[Len(inbox) + 1] = a /\ \A i \in 1 .. Len(inbox) : inbox'[i] = inbox[i]
 <2>1. inbox \in Seq(StudioReplies) /\ Len(inbox) \in Nat /\ DOMAIN inbox = 1 .. Len(inbox)
   BY <1>k DEF StudioTypes
 <2>2. inbox' \in Seq(StudioReplies) /\ inbox' # <<>> /\ Len(inbox') = Len(inbox) + 1
   BY <2>1, <1>2, AppendProperties
 <2>3. inbox'[Len(inbox) + 1] = a /\ \A i \in 1 .. Len(inbox) : inbox'[i] = inbox[i]
   BY <2>1, <1>2, AppendProperties
 <2> QED  BY <2>1, <2>2, <2>3
<1>4. queue' = <<>> <=> Len(queue) = 1
 <2>1. queue' = <<>> <=> Len(queue') = 0  BY <1>1, EmptySeq
 <2> QED  BY <1>1, <2>1
<1>5. inHand /\ project # None  BY <1>k DEF InTurn
<1>6. pending # None => /\ Len(queue) = 1 /\ queue' = <<>> /\ inbox = <<>> /\ Job.op = pending
  BY <1>1, <1>4, <1>k DEF InTurn
<1>7. pending = None => Job.op = "open" /\ Job.package \in Packages /\ known = Closed
  BY <1>1, <1>5, <1>k DEF InTurn
<1>8. InTurn'
 <2>1. \A i \in DOMAIN queue' : /\ queue'[i].fresh <=> i = Len(queue')
                                /\ queue'[i].op = "open" => queue'[i].package \in Packages
                                /\ pending = None => queue'[i].op = "open"
   BY <1>k, <1>1 DEF InTurn
 <2>2. \A i \in DOMAIN inbox' : /\ inbox'[i].fresh <=> i = Len(inbox') /\ queue' = <<>>
                                /\ pending = None => inbox'[i].op = "open"
   BY <1>k, <1>3, <1>1, <1>2, <1>7, <1>4 DEF InTurn
 <2>3. pending # None => /\ known.package # None /\ pending # "open"
                         /\ queue' = <<>> /\ Len(inbox') = 1 /\ inbox'[1].op = pending
   BY <1>3, <1>2, <1>6, <1>k DEF InTurn
 <2>4. pending = None => known = Closed  BY <1>7
 <2> QED  BY <2>1, <2>2, <2>3, <2>4, <1>3, <1>5, <1>g DEF InTurn
<1>9. NoNews' <=> (queue' # <<>> \/ ~ok)  BY <1>2, <1>3 DEF NoNews
<1>10. AskedWell'  BY <1>6, <1>g DEF AskedWell
<1>11. NoNews  BY DEF NoNews
<1> QED  BY <1>1, <1>2, <1>3, <1>5, <1>6, <1>7, <1>8, <1>9, <1>10, <1>11

\* A command is answered while the page shows what the worker has.
LEMMA CommandRuns ==
    ASSUME StudioKeeps, queue # <<>>, Job.op # "open", queue' = Tail(queue), NEW ok \in BOOLEAN, NEW brought \in Works,
           NEW a, a = [op |-> Job.op, fresh |-> Job.fresh, ok |-> ok, state |-> brought], inbox' = Append(inbox, a),
           UNCHANGED <<project, guiVars>>
    PROVE  /\ Job \in StudioRequests /\ Job = queue[1] /\ Job.op = pending /\ pending # None
           /\ queue' = <<>> /\ inbox' \in Seq(StudioReplies) /\ InTurn' /\ AskedWell' /\ NoNews
           /\ inbox'[Len(inbox')].state = brought
           /\ NoNews' <=> ~ok
           /\ known.package # None /\ worker.package = known.package /\ worker.package # None /\ worker.package \in Packages
           /\ Shows(known, worker) /\ project # None
           /\ Listed(worker) /\ worker.active \in Range(worker.scenes) /\ worker.selected \in Range(worker.scenes)
<1>1. /\ Job \in StudioRequests /\ Job = queue[1] /\ project # None
      /\ queue' \in Seq(StudioRequests) /\ inbox' \in Seq(StudioReplies) /\ InTurn' /\ AskedWell'
      /\ inbox' # <<>> /\ inbox'[Len(inbox')].state = brought
      /\ NoNews' <=> (queue' # <<>> \/ ~ok)
      /\ NoNews
      /\ pending # None => queue' = <<>> /\ Job.op = pending
      /\ pending = None => Job.op = "open" /\ Job.package \in Packages /\ known = Closed
  BY Worked
<1>2. pending # None /\ known.package # None  BY <1>1 DEF StudioKeeps, InTurn
<1>3. worker.package = known.package /\ Shows(known, worker) /\ Sane(worker)  BY <1>1, <1>2 DEF StudioKeeps, PageFits
<1>4. worker.package \in Packages  BY <1>2, <1>3 DEF StudioKeeps, StudioTypes, Works
<1> QED  BY <1>1, <1>2, <1>3, <1>4 DEF Sane

\* A command that fails, or is refused, changes nothing.
LEMMA CommandRefused ==
    ASSUME StudioKeeps, queue # <<>>, Job.op # "open", queue' = Tail(queue), Answer(FALSE, Closed), healthy' \in BOOLEAN,
           UNCHANGED <<project, live, row, home, matter, events, imported, stored, worker, guiVars, made, recorded, reopened>>
    PROVE  StudioKeeps'
<1>k. /\ StudioTypes /\ PageFits /\ WorkerFits /\ RowsFit /\ TakeFits /\ TakeKeepsItsScenes /\ EditorSees
  BY DEF StudioKeeps
<1> DEFINE a == [op |-> Job.op, fresh |-> Job.fresh, ok |-> FALSE, state |-> Closed]
<1>0. inbox' = Append(inbox, a) /\ Closed \in Works  BY ClosedIs DEF Answer
<1>1. /\ queue' = <<>> /\ inbox' \in Seq(StudioReplies) /\ InTurn' /\ AskedWell' /\ NoNews /\ NoNews'
      /\ known.package # None /\ worker.package = known.package /\ Shows(known, worker) /\ project # None
 <2> HIDE DEF a
 <2>1. FALSE \in BOOLEAN /\ a = [op |-> Job.op, fresh |-> Job.fresh, ok |-> FALSE, state |-> Closed]
   BY DEF a
 <2> QED  BY <2>1, <1>0, CommandRuns
<1> HIDE DEF a
<1>g. known' = known /\ inHand' = inHand /\ pending' = pending /\ touched' = touched /\ editor' = editor
  BY DEF guiVars
<1>2. StudioTypes'  BY <1>g, <1>1, <1>k DEF StudioTypes
<1>3. PageFits'  BY <1>g, <1>1, <1>k DEF PageFits, Sane, Listed, Shows
<1>4. WorkerFits' /\ TakeKeepsItsScenes' /\ RowsFit' /\ TakeFits'
  BY <1>g, <1>1, <1>k DEF WorkerFits, TakeKeepsItsScenes, RowsFit, TakeFits, Listed
<1>5. EditorSees'  BY <1>g, <1>1, <1>k DEF EditorSees, TakesOf
<1> QED  BY <1>1, <1>2, <1>3, <1>4, <1>5 DEF StudioKeeps

\* A scene behind the others.
LEMMA SceneAdded ==
    ASSUME NEW s \in Seq(Nat), NEW n \in Nat, Range(s) \subseteq 1 .. n, IsInjective(s)
    PROVE  /\ Append(s, n + 1) \in Seq(Nat) /\ Range(Append(s, n + 1)) = Range(s) \cup {n + 1}
           /\ Range(Append(s, n + 1)) \subseteq 1 .. n + 1 /\ IsInjective(Append(s, n + 1))
<1> DEFINE r == Append(s, n + 1)
<1>1. /\ r \in Seq(Nat) /\ DOMAIN s = 1 .. Len(s) /\ DOMAIN r = 1 .. Len(s) + 1 /\ Len(s) \in Nat
      /\ r[Len(s) + 1] = n + 1 /\ \A i \in 1 .. Len(s) : r[i] = s[i]
  BY AppendProperties
<1> HIDE DEF r
<1>2. \A i \in 1 .. Len(s) : s[i] \in 1 .. n  BY <1>1 DEF Range
<1>3. Range(r) = Range(s) \cup {n + 1}
 <2>1. \A x \in Range(r) : x \in Range(s) \cup {n + 1}  BY <1>1 DEF Range
 <2>2. \A x \in Range(s) : x \in Range(r)  BY <1>1 DEF Range
 <2>3. n + 1 \in Range(r)  BY <1>1 DEF Range
 <2> QED  BY <2>1, <2>2, <2>3
<1>4. IsInjective(r)
 <2>1. \A i, j \in 1 .. Len(s) : s[i] = s[j] => i = j  BY <1>1 DEF IsInjective
 <2>2. \A i \in 1 .. Len(s) : r[i] # n + 1  BY <1>1, <1>2
 <2>3. \A i \in DOMAIN r : i \in 1 .. Len(s) \/ i = Len(s) + 1  BY <1>1
 <2>4. SUFFICES ASSUME NEW i \in DOMAIN r, NEW j \in DOMAIN r, r[i] = r[j] PROVE i = j
   BY DEF IsInjective
 <2> QED  BY <1>1, <2>1, <2>2, <2>3, <2>4
<1>5. Range(r) \subseteq 1 .. n + 1  BY <1>3
<1> QED  BY <1>1, <1>3, <1>4, <1>5 DEF r

\* Two scenes in each other's place.
LEMMA ScenesSwapped ==
    ASSUME NEW s \in Seq(Nat), IsInjective(s), NEW i \in DOMAIN s, NEW j \in DOMAIN s
    PROVE  Swapped(s, i, j) \in Seq(Nat) /\ Range(Swapped(s, i, j)) = Range(s) /\ IsInjective(Swapped(s, i, j))
<1> DEFINE r == Swapped(s, i, j)
<1>1. DOMAIN s = 1 .. Len(s) /\ Len(s) \in Nat /\ \A k \in DOMAIN s : s[k] \in Nat  BY Members
<1>2. /\ DOMAIN r = DOMAIN s /\ r[j] = s[i] /\ r[i] = s[j]
      /\ \A k \in DOMAIN s : k # i /\ k # j => r[k] = s[k]
  BY DEF Swapped
<1> HIDE DEF r
<1>3. r \in Seq(Nat)  BY <1>1, ExceptSeq DEF r, Swapped
<1>4. Range(r) = Range(s)  BY <1>2 DEF Range
<1>5. IsInjective(r)
 <2>1. \A k, m \in DOMAIN s : s[k] = s[m] => k = m  BY DEF IsInjective
 <2>2. SUFFICES ASSUME NEW k \in DOMAIN s, NEW m \in DOMAIN s, r[k] = r[m] PROVE k = m
   BY <1>2 DEF IsInjective
 <2> QED  BY <1>2, <2>1, <2>2
<1> QED  BY <1>3, <1>4, <1>5 DEF r

\* A scene taken out.
LEMMA SceneRemoved ==
    ASSUME NEW s \in Seq(Nat), IsInjective(s), NEW i \in DOMAIN s
    PROVE  /\ RemoveAt(s, i) \in Seq(Nat) /\ Range(RemoveAt(s, i)) = Range(s) \ {s[i]} /\ IsInjective(RemoveAt(s, i))
           /\ Len(RemoveAt(s, i)) = Len(s) - 1
           /\ Len(s) # 1 => RemoveAt(s, i)[1] \in Range(RemoveAt(s, i))
<1> DEFINE r == RemoveAt(s, i)
<1>1. DOMAIN s = 1 .. Len(s) /\ Len(s) \in Nat /\ i \in 1 .. Len(s) /\ i \in Nat  OBVIOUS
<1> DEFINE u == SubSeq(s, 1, i - 1)
           v == SubSeq(s, i + 1, Len(s))
<1>2. u \in Seq(Nat) /\ Len(u) = i - 1 /\ \A k \in 1 .. i - 1 : u[k] = s[k]
 <2>1. /\ u \in Seq(Nat) /\ Len(u) = IF 1 <= i - 1 THEN (i - 1) - 1 + 1 ELSE 0
       /\ \A k \in 1 .. (i - 1) - 1 + 1 : u[k] = s[1 + k - 1]
   BY <1>1, SubSeqProperties
 <2> HIDE DEF u
 <2>2. \A k \in 1 .. i - 1 : 1 + k - 1 = k  OBVIOUS
 <2>3. (i - 1) - 1 + 1 = i - 1  BY <1>1
 <2> QED  BY <1>1, <2>1, <2>2, <2>3
<1>3. v \in Seq(Nat) /\ Len(v) = Len(s) - i /\ \A k \in 1 .. Len(s) - i : v[k] = s[i + k]
 <2>0. i + 1 \in Int /\ Len(s) \in Int /\ \A k \in i + 1 .. Len(s) : s[k] \in Nat  BY <1>1
 <2> DEFINE m == i + 1
            n == Len(s)
 <2>1. v = SubSeq(s, m, n)  OBVIOUS
 <2>2. m \in Int /\ n \in Int /\ \A k \in m .. n : s[k] \in Nat  BY <2>0
 <2>3. m = i + 1 /\ n = Len(s)  OBVIOUS
 <2> HIDE DEF v, m, n
 <2>4. /\ v \in Seq(Nat) /\ Len(v) = IF m <= n THEN n - m + 1 ELSE 0
       /\ \A k \in 1 .. n - m + 1 : v[k] = s[m + k - 1]
   BY <2>1, <2>2, SubSeqProperties
 <2>5. Len(v) = Len(s) - i  BY <1>1, <2>3, <2>4
 <2>6. ASSUME NEW k \in 1 .. Len(s) - i PROVE v[k] = s[i + k]
  <3>0. k \in Int /\ i \in Int /\ n - m + 1 = Len(s) - i  BY <1>1, <2>3
  <3>1. k \in 1 .. n - m + 1 /\ m + k - 1 = i + k  BY <2>3, <2>6, <3>0
  <3> QED  BY <3>1, <2>4
 <2> QED  BY <2>4, <2>5, <2>6
<1>c. r = u \o v  BY DEF RemoveAt
<1> HIDE DEF u, v, r
<1>4. /\ r \in Seq(Nat) /\ Len(r) = Len(s) - 1 /\ DOMAIN r = 1 .. Len(s) - 1
      /\ \A k \in 1 .. Len(s) - 1 : k < i => r[k] = s[k]
      /\ \A k \in 1 .. Len(s) - 1 : ~(k < i) => r[k] = s[k + 1]
 <2>0. /\ u \o v \in Seq(Nat) /\ Len(u \o v) = Len(u) + Len(v)
       /\ \A k \in 1 .. Len(u) + Len(v) : (u \o v)[k] = IF k <= Len(u) THEN u[k] ELSE v[k - Len(u)]
   BY <1>2, <1>3, ConcatProperties
 <2>1. r \in Seq(Nat) /\ Len(r) = (i - 1) + (Len(s) - i)  BY <1>2, <1>3, <1>c, <2>0
 <2>2. \A k \in 1 .. (i - 1) + (Len(s) - i) : r[k] = IF k <= i - 1 THEN u[k] ELSE v[k - (i - 1)]
   BY <1>2, <1>3, <1>c, <2>0
 <2>3. (i - 1) + (Len(s) - i) = Len(s) - 1  BY <1>1
 <2>4. ASSUME NEW k \in 1 .. Len(s) - 1, k < i PROVE r[k] = s[k]
  <3>1. k <= i - 1 /\ k \in 1 .. i - 1  BY <1>1, <2>4
  <3> QED  BY <3>1, <2>2, <2>3, <1>2
 <2>5. ASSUME NEW k \in 1 .. Len(s) - 1, ~(k < i) PROVE r[k] = s[k + 1]
  <3>1. ~(k <= i - 1) /\ k - (i - 1) \in 1 .. Len(s) - i /\ i + (k - (i - 1)) = k + 1  BY <1>1, <2>5
  <3>2. r[k] = v[k - (i - 1)]  BY <3>1, <2>2, <2>3
  <3>3. v[k - (i - 1)] = s[i + (k - (i - 1))]  BY <3>1, <1>3
  <3> QED  BY <3>1, <3>2, <3>3
 <2> QED  BY <1>1, <2>1, <2>3, <2>4, <2>5
<1>5. \A k, m \in 1 .. Len(s) : s[k] = s[m] => k = m  BY <1>1 DEF IsInjective
<1>6. Range(r) = Range(s) \ {s[i]}
 <2>1. ASSUME NEW x \in Range(r) PROVE x \in Range(s) \ {s[i]}
  <3>1. PICK k \in 1 .. Len(s) - 1 : r[k] = x  BY <1>4, <2>1 DEF Range
  <3>2. CASE k < i
   <4>1. k \in 1 .. Len(s) /\ k # i /\ x = s[k]  BY <1>1, <1>4, <3>1, <3>2
   <4> QED  BY <1>1, <1>5, <4>1 DEF Range
  <3>3. CASE ~(k < i)
   <4>1. k + 1 \in 1 .. Len(s) /\ k + 1 # i /\ x = s[k + 1]  BY <1>1, <1>4, <3>1, <3>3
   <4> QED  BY <1>1, <1>5, <4>1 DEF Range
  <3> QED  BY <3>2, <3>3
 <2>2. ASSUME NEW x \in Range(s) \ {s[i]} PROVE x \in Range(r)
  <3>1. PICK k \in 1 .. Len(s) : s[k] = x  BY <1>1, <2>2 DEF Range
  <3>2. k # i  BY <2>2, <3>1
  <3>3. CASE k < i
   <4>1. k \in 1 .. Len(s) - 1 /\ r[k] = x  BY <1>1, <1>4, <3>1, <3>3
   <4> QED  BY <1>4, <4>1 DEF Range
  <3>4. CASE k > i
   <4>1. k - 1 \in 1 .. Len(s) - 1 /\ ~(k - 1 < i) /\ (k - 1) + 1 = k  BY <1>1, <3>1, <3>4
   <4>2. r[k - 1] = x  BY <1>4, <3>1, <4>1
   <4> QED  BY <1>4, <4>1, <4>2 DEF Range
  <3> QED  BY <1>1, <3>2, <3>3, <3>4
 <2> QED  BY <2>1, <2>2
<1>7. IsInjective(r)
 <2> DEFINE F(k) == IF k < i THEN k ELSE k + 1
 <2>1. ASSUME NEW k \in 1 .. Len(s) - 1 PROVE F(k) \in 1 .. Len(s) /\ r[k] = s[F(k)]
  <3>1. CASE k < i  BY <1>4, <3>1, <1>1
  <3>2. CASE ~(k < i)  BY <1>4, <3>2, <1>1
  <3> QED  BY <3>1, <3>2
 <2>2. \A k, m \in 1 .. Len(s) - 1 : F(k) = F(m) => k = m  BY <1>1
 <2> HIDE DEF F
 <2>3. SUFFICES ASSUME NEW k \in 1 .. Len(s) - 1, NEW m \in 1 .. Len(s) - 1, r[k] = r[m] PROVE k = m
   BY <1>4 DEF IsInjective
 <2> QED  BY <1>5, <2>1, <2>2, <2>3
<1>8. Len(s) # 1 => r[1] \in Range(r)
 <2>1. Len(s) # 1 => 1 \in 1 .. Len(s) - 1  BY <1>1
 <2> QED  BY <1>4, <2>1 DEF Range
<1> QED  BY <1>4, <1>6, <1>7, <1>8 DEF r

\* What an edit leads to.
LEMMA EditedIs ==
    ASSUME NEW w \in Works, Listed(w), w.active \in Range(w.scenes), w.selected \in Range(w.scenes),
           NEW c \in Range(w.scenes), NEW op \in Edits, NEW v \in Edited(w, op, c), made \in Nat,
           NEW n, n = IF op \in {"add", "duplicate"} THEN made + 1 ELSE made
    PROVE  /\ ~w.recording /\ v \in Works /\ v.package = w.package /\ ~v.recording /\ v.missing = w.missing
           /\ v.awaiting = w.awaiting
           /\ Range(v.scenes) \subseteq 1 .. n /\ IsInjective(v.scenes) /\ v.changed \subseteq 1 .. n
           /\ v.active \in Range(v.scenes) /\ v.selected \in Range(v.scenes)
<1>w. /\ w.scenes \in Seq(Nat) /\ Range(w.scenes) \subseteq 1 .. made /\ IsInjective(w.scenes) /\ w.changed \subseteq 1 .. made
      /\ 1 .. made \subseteq Nat /\ Range(w.scenes) \subseteq Nat
  BY DEF Works, Listed
<1> DEFINE i == CHOOSE k \in DOMAIN w.scenes : w.scenes[k] = c
           new == made + 1
           left == RemoveAt(w.scenes, i)
           active == IF w.active = c THEN left[1] ELSE w.active
           Added(changed) == [w EXCEPT !.scenes = Append(@, new), !.changed = changed, !.selected = new]
           Moved(k) == {[w EXCEPT !.scenes = Swapped(@, i, j)] : j \in {k} \cap DOMAIN w.scenes}
<1>i. i \in DOMAIN w.scenes /\ w.scenes[i] = c  BY DEF Range
<1>r. ~w.recording  BY DEF Edited
<1>e. v \in CASE op = "add" -> {Added(w.changed)}
              [] op = "duplicate" -> {Added(w.changed \cup {d \in {new} : c \in w.changed})}
              [] op = "remove" ->
                    IF Len(w.scenes) = 1 THEN {}
                    ELSE {[w EXCEPT !.scenes = left, !.changed = @ \ {c}, !.active = active,
                                    !.selected = IF @ = c THEN active ELSE @]}
              [] op = "moveUp" -> Moved(i - 1)
              [] op = "moveDown" -> Moved(i + 1)
              [] op = "changeSource" ->
                    {[w EXCEPT !.changed = IF c \in @ THEN @ \ {c} ELSE @ \cup {c}]}
  BY <1>r DEF Edited
<1>1. ASSUME NEW x \in SUBSET (1 .. made + 1), v = Added(x), n = made + 1
      PROVE  /\ v \in Works /\ v.package = w.package /\ ~v.recording /\ v.missing = w.missing
             /\ v.awaiting = w.awaiting
             /\ Range(v.scenes) \subseteq 1 .. n /\ IsInjective(v.scenes) /\ v.changed \subseteq 1 .. n
             /\ v.active \in Range(v.scenes) /\ v.selected \in Range(v.scenes)
 <2> DEFINE s == Append(w.scenes, made + 1)
 <2>1. /\ s \in Seq(Nat) /\ Range(s) = Range(w.scenes) \cup {made + 1}
       /\ Range(s) \subseteq 1 .. made + 1 /\ IsInjective(s)
   BY <1>w, SceneAdded
 <2>2. v = [w EXCEPT !.scenes = s, !.changed = x, !.selected = made + 1]  BY <1>1
 <2> HIDE DEF s
 <2>3. /\ v.scenes = s /\ v.changed = x /\ v.selected = made + 1 /\ v.package = w.package /\ v.missing = w.missing
       /\ v.awaiting = w.awaiting /\ v.active = w.active /\ v.recording = w.recording
       /\ v \in Works
  <3>1. x \subseteq Nat /\ made + 1 \in Nat  OBVIOUS
  <3> QED  BY <2>1, <2>2, <3>1 DEF Works
 <2>4. ~v.recording  BY <2>3, <1>r, Zenon
 <2> QED  BY <1>1, <2>1, <2>3, <2>4
<1>2. CASE op = "add"
 <2>1. v = Added(w.changed) /\ n = made + 1 /\ w.changed \in SUBSET (1 .. made + 1)
   BY <1>2, <1>e, <1>w
 <2> QED  BY <2>1, <1>1, <1>r
<1>3. CASE op = "duplicate"
 <2>1. v = Added(w.changed \cup {d \in {new} : c \in w.changed}) /\ n = made + 1  BY <1>3, <1>e
 <2>2. w.changed \cup {d \in {new} : c \in w.changed} \in SUBSET (1 .. made + 1)  BY <1>w
 <2> QED  BY <2>1, <2>2, <1>1, <1>r
<1>4. CASE op = "remove"
 <2>1. /\ Len(w.scenes) # 1 /\ n = made
       /\ v = [w EXCEPT !.scenes = left, !.changed = @ \ {c}, !.active = active,
                        !.selected = IF @ = c THEN active ELSE @]
   BY <1>4, <1>e
 <2>2. /\ left \in Seq(Nat) /\ Range(left) = Range(w.scenes) \ {c} /\ IsInjective(left) /\ left[1] \in Range(left)
  <3> HIDE DEF i
  <3>1. /\ left \in Seq(Nat) /\ Range(left) = Range(w.scenes) \ {w.scenes[i]} /\ IsInjective(left)
        /\ Len(w.scenes) # 1 => left[1] \in Range(left)
    BY <1>w, <1>i, SceneRemoved
  <3> QED  BY <3>1, <1>i, <2>1
 <2> HIDE DEF left
 <2>3. active \in Range(left) /\ active \in Nat  BY <1>w, <2>2
 <2> DEFINE picked == IF w.selected = c THEN active ELSE w.selected
 <2>4. picked \in Range(left) /\ picked \in Nat  BY <1>w, <2>2, <2>3
 <2>5. v = [w EXCEPT !.scenes = left, !.changed = w.changed \ {c}, !.active = active, !.selected = picked]
   BY <2>1 DEF Works
 <2> HIDE DEF active, picked
 <2>6. /\ v.scenes = left /\ v.changed = w.changed \ {c} /\ v.selected = picked /\ v.package = w.package
       /\ v.missing = w.missing /\ v.awaiting = w.awaiting /\ v.active = active /\ v.recording = w.recording
       /\ v \in Works
   BY <2>2, <2>3, <2>4, <2>5 DEF Works
 <2>7. ~v.recording  BY <2>6, <1>r, Zenon
 <2> QED  BY <1>r, <1>w, <2>1, <2>2, <2>3, <2>4, <2>6, <2>7
<1>5. CASE op \in {"moveUp", "moveDown"}
 <2>1. PICK j \in DOMAIN w.scenes : v = [w EXCEPT !.scenes = Swapped(w.scenes, i, j)]
   BY <1>5, <1>e DEF Works
 <2> DEFINE s == Swapped(w.scenes, i, j)
 <2>2. s \in Seq(Nat) /\ Range(s) = Range(w.scenes) /\ IsInjective(s)  BY <1>w, <1>i, ScenesSwapped
 <2>3. v = [w EXCEPT !.scenes = s] /\ n = made  BY <1>5, <2>1
 <2> HIDE DEF s, i
 <2>4. /\ v.scenes = s /\ v.changed = w.changed /\ v.selected = w.selected /\ v.package = w.package
       /\ v.missing = w.missing /\ v.awaiting = w.awaiting /\ v.active = w.active /\ v.recording = w.recording
       /\ v \in Works
   BY <2>2, <2>3 DEF Works
 <2>5. ~v.recording  BY <2>4, <1>r, Zenon
 <2> QED  BY <1>r, <1>w, <2>2, <2>3, <2>4, <2>5
<1>6. CASE op = "changeSource"
 <2> DEFINE x == IF c \in w.changed THEN w.changed \ {c} ELSE w.changed \cup {c}
 <2>1. v = [w EXCEPT !.changed = x] /\ n = made  BY <1>6, <1>e DEF Works
 <2>2. x \subseteq 1 .. made /\ x \subseteq Nat  BY <1>w
 <2> HIDE DEF x
 <2>3. /\ v.scenes = w.scenes /\ v.changed = x /\ v.selected = w.selected /\ v.package = w.package
       /\ v.missing = w.missing /\ v.awaiting = w.awaiting /\ v.active = w.active /\ v.recording = w.recording
       /\ v \in Works
   BY <2>1, <2>2 DEF Works
 <2>4. ~v.recording  BY <2>3, <1>r, Zenon
 <2> QED  BY <1>r, <1>w, <2>1, <2>2, <2>3, <2>4
<1> QED  BY <1>2, <1>3, <1>4, <1>5, <1>6 DEF Edits

\* A command that is done: what the worker answers is what it has.
LEMMA CommandDone ==
    ASSUME StudioKeeps, queue # <<>>, Job.op # "open", queue' = Tail(queue), Answer(TRUE, worker'), worker' \in Works,
           worker'.package = worker.package, Listed(worker)', worker'.active \in Range(worker'.scenes),
           worker'.selected \in Range(worker'.scenes), made' \in Nat, made <= made', UNCHANGED <<project, guiVars>>
    PROVE  /\ Job \in StudioRequests /\ Job = queue[1] /\ Job.op = pending
           /\ queue' = <<>> /\ queue' \in Seq(StudioRequests) /\ inbox' \in Seq(StudioReplies)
           /\ InTurn' /\ AskedWell' /\ PageFits' /\ NoNews /\ ~NoNews'
<1> DEFINE a == [op |-> Job.op, fresh |-> Job.fresh, ok |-> TRUE, state |-> worker']
<1>1. inbox' = Append(inbox, a)  BY DEF Answer
<1>2. /\ Job \in StudioRequests /\ Job = queue[1] /\ Job.op = pending
      /\ queue' = <<>> /\ inbox' \in Seq(StudioReplies) /\ InTurn' /\ AskedWell' /\ NoNews /\ ~NoNews'
      /\ inbox'[Len(inbox')].state = worker'
      /\ known.package # None /\ worker.package = known.package /\ project # None
 <2>1. TRUE \in BOOLEAN /\ a = [op |-> Job.op, fresh |-> Job.fresh, ok |-> TRUE, state |-> worker']
   OBVIOUS
 <2> HIDE DEF a
 <2> QED  BY <1>1, <2>1, CommandRuns
<1>g. known' = known /\ project' = project  BY DEF guiVars
<1>m. made \in Nat  BY StudioAssumption DEF StudioKeeps, StudioTypes, StudioAssumption
<1>3. PageFits'  BY <1>m, <1>g, <1>2 DEF StudioKeeps, PageFits, Sane, Listed
<1>4. queue' \in Seq(StudioRequests)
 <2>1. <<>> \in Seq(StudioRequests)  OBVIOUS
 <2> QED  BY <1>2, <2>1, Zenon
<1> QED  BY <1>2, <1>3, <1>4

\* The worker edits the scenes.
LEMMA WorkerEditsKeeps ==
    ASSUME StudioKeeps, WorkerEdits
    PROVE  StudioKeeps'
<1>k. /\ StudioTypes /\ InTurn /\ AskedWell /\ PageFits /\ WorkerFits /\ RowsFit /\ TakeFits
      /\ TakeKeepsItsScenes /\ EditorSees
  BY DEF StudioKeeps
<1>u. /\ queue # <<>> /\ Job.op \in Edits /\ queue' = Tail(queue)
      /\ UNCHANGED <<project, live, row, home, matter, events, imported, guiVars, recorded, reopened>>
  BY DEF WorkerEdits, rowVars
<1>g. known' = known /\ inHand' = inHand /\ pending' = pending /\ touched' = touched /\ editor' = editor
  BY <1>u DEF guiVars
<1>o. Job.op \notin {"open", "complete", "prepare"}  BY <1>u DEF Edits
<1> DEFINE good == {w \in Edited(worker, Job.op, Job.scene) : MayCommit(worker.package, Kept(w))}
<1>1. CASE Answer(FALSE, Closed) /\ healthy' = (healthy /\ good = {}) /\ UNCHANGED <<worker, stored, made>>
  BY <1>1, <1>k, <1>u, <1>o, CommandRefused DEF StudioTypes
<1>2. ASSUME NEW w \in good, worker' = w, Answer(TRUE, w), stored' = [stored EXCEPT ![w.package] = Kept(w)],
             made' = (IF Job.op \in {"add", "duplicate"} THEN made + 1 ELSE made), healthy' = healthy
      PROVE  StudioKeeps'
 <2>1. w \in Edited(worker, Job.op, Job.scene) /\ MayCommit(worker.package, Kept(w))  OBVIOUS
 <2>m. made \in Nat /\ made >= 2 /\ made <= MaxScene /\ MaxScene \in Nat
   BY <1>k, StudioAssumption DEF StudioTypes, StudioAssumption
 <2> HIDE DEF good
 <2>2. /\ known.package # None /\ worker.package = known.package /\ worker.package \in Packages
       /\ Listed(worker) /\ worker.active \in Range(worker.scenes) /\ worker.selected \in Range(worker.scenes)
       /\ Shows(known, worker) /\ Job = queue[1] /\ Job.op = pending /\ pending # None
  <3> DEFINE a == [op |-> Job.op, fresh |-> Job.fresh, ok |-> TRUE, state |-> w]
  <3>1. inbox' = Append(inbox, a) /\ a = [op |-> Job.op, fresh |-> Job.fresh, ok |-> TRUE, state |-> w] /\ TRUE \in BOOLEAN
    BY <1>2 DEF Answer
  <3> HIDE DEF a
  <3>2. ~(queue = <<>>) /\ pending # None  BY <1>u, <1>k, <1>o DEF StudioTypes, Job, InTurn
  <3>3. queue[1] = Job /\ Job.op = pending /\ known.package # None /\ NoNews
    BY <3>2, <1>u, <1>k DEF InTurn, Job, NoNews, StudioTypes
  <3> QED  BY <3>2, <3>3, <1>k DEF PageFits, Sane, StudioTypes, Works
 <2>3. Job.scene \in Range(worker.scenes) /\ (Job.op \in {"add", "duplicate"} => made < MaxScene)
   BY <2>2, <1>u, <1>k DEF AskedWell, Shows
 <2>n. made' \in Nat /\ made <= made' /\ made' \in 2 .. MaxScene  BY <2>m, <2>3, <1>2
 <2>4. /\ ~worker.recording /\ w \in Works /\ w.package = worker.package /\ ~w.recording /\ w.missing = worker.missing
       /\ w.awaiting = worker.awaiting
       /\ Range(w.scenes) \subseteq 1 .. made' /\ IsInjective(w.scenes) /\ w.changed \subseteq 1 .. made'
       /\ w.active \in Range(w.scenes) /\ w.selected \in Range(w.scenes)
  <3>1. worker \in Works /\ Job.scene \in Range(worker.scenes) /\ Job.op \in Edits
    BY <1>k, <1>u, <2>3 DEF StudioTypes
  <3>2. made' = IF Job.op \in {"add", "duplicate"} THEN made + 1 ELSE made  BY <1>2
  <3>3. Listed(worker) /\ worker.active \in Range(worker.scenes) /\ worker.selected \in Range(worker.scenes)
    BY <2>2
  <3>4. made \in Nat  BY <2>m
  <3>5. PICK c \in Range(worker.scenes) : c = Job.scene  BY <3>1
  <3>6. PICK op \in Edits : op = Job.op  BY <3>1
  <3>7. PICK n : n = made'  OBVIOUS
  <3>8. w \in Edited(worker, op, c) /\ n = IF op \in {"add", "duplicate"} THEN made + 1 ELSE made
    BY <2>1, <3>2, <3>5, <3>6, <3>7
  <3>9. worker \in Works  BY <3>1
  <3>10. /\ ~worker.recording /\ w \in Works /\ w.package = worker.package /\ ~w.recording /\ w.missing = worker.missing
        /\ w.awaiting = worker.awaiting
        /\ Range(w.scenes) \subseteq 1 .. n /\ IsInjective(w.scenes) /\ w.changed \subseteq 1 .. n
        /\ w.active \in Range(w.scenes) /\ w.selected \in Range(w.scenes)
    BY <3>9, <3>3, <3>4, <3>8, EditedIs, ZenonT(40)
  <3> QED  BY <3>7, <3>10
 <2>5. Listed(worker)'  BY <2>4, <1>2 DEF Listed
 <2>6. /\ queue' = <<>> /\ queue' \in Seq(StudioRequests) /\ inbox' \in Seq(StudioReplies)
       /\ InTurn' /\ AskedWell' /\ PageFits' /\ NoNews /\ ~NoNews'
   BY <1>2, <1>u, <1>o, <2>4, <2>5, <2>n, CommandDone
 <2>7. /\ Kept(w) \in Shelves /\ Kept(w).scenes = w.scenes /\ Kept(w).changed = w.changed /\ Kept(w).active = w.active
   BY <2>4 DEF Kept, Shelves, Works
 <2>8. /\ stored' \in [Packages -> Shelves] /\ stored'[worker.package] = Kept(w)
       /\ \A p \in Packages : p # worker.package => stored'[p] = stored[p]
   BY <1>2, <1>k, <2>2, <2>4, <2>7 DEF StudioTypes
 <2>9. StudioTypes'  BY <1>2, <1>g, <1>u, <1>k, <2>4, <2>6, <2>8, <2>n DEF StudioTypes
 <2>10. WorkerFits'
  <3>1. 1 .. made \subseteq 1 .. made'  BY <2>m, <2>n
  <3>2. \A p \in Packages : Listed(stored[p])'
   <4>1. ASSUME NEW p \in Packages, p = worker.package PROVE Listed(stored[p])'
     BY <4>1, <2>4, <2>7, <2>8 DEF Listed
   <4>2. ASSUME NEW p \in Packages, p # worker.package PROVE Listed(stored[p])'
     BY <4>2, <3>1, <2>8, <1>k DEF Listed, WorkerFits
   <4> QED  BY <4>1, <4>2
  <3>3. \A p \in Packages : stored'[p].scenes # <<>> => stored'[p].active \in Range(stored'[p].scenes)
    BY <2>4, <2>7, <2>8, <1>k DEF WorkerFits
  <3>4. worker'.scenes = stored'[worker'.package].scenes /\ worker'.changed = stored'[worker'.package].changed
    BY <1>2, <2>4, <2>7, <2>8
  <3>5. ~worker'.recording  BY <1>2, <2>4, Zenon
  <3> QED  BY <3>2, <3>3, <3>4, <3>5 DEF WorkerFits
 <2>11. RowsFit'  BY <2>m, <2>n, <1>g, <1>u, <1>k DEF RowsFit
 <2>12. TakeFits'  BY <1>g, <1>u, <1>o, <1>k, <2>2, <2>4 DEF TakeFits, RowsFit
 <2>13. EditorSees'  BY <1>g, <1>o, <2>2, <1>2, <1>u, <1>k, <2>4, <2>6 DEF EditorSees, TakesOf
 <2>14. TakeKeepsItsScenes'
  <3>1. SUFFICES ASSUME NEW t \in Takes, events[t] # {}, t \notin imported
                 PROVE  /\ events[t] \subseteq Range(stored'[home[t]].scenes)
                        /\ events[t] \cap stored'[home[t]].changed = events[t] \cap recorded[t]
    BY <1>u DEF TakeKeepsItsScenes
  <3>2. /\ events[t] \subseteq Range(stored[home[t]].scenes)
        /\ events[t] \cap stored[home[t]].changed = events[t] \cap recorded[t]
    BY <3>1, <1>k DEF TakeKeepsItsScenes
  <3>3. home[t] \in Packages  BY <3>1, <1>k DEF RowsFit, StudioTypes
  <3>4. CASE home[t] # worker.package  BY <3>2, <3>3, <3>4, <2>8
  <3>5. CASE home[t] = worker.package
    BY <3>1, <3>5, <3>2, <2>1, <2>7, <2>8 DEF Locked, TakesOf, MayCommit
  <3> QED  BY <3>4, <3>5
 <2> QED  BY <2>6, <2>9, <2>10, <2>11, <2>12, <2>13, <2>14 DEF StudioKeeps
<1> QED  BY <1>1, <1>2 DEF WorkerEdits

\* Where a command finds page, package and worker.
LEMMA CommandFinds ==
    ASSUME StudioKeeps, queue # <<>>, Job.op # "open"
    PROVE  /\ Job = queue[1] /\ Job \in StudioRequests /\ Job.op = pending /\ pending # None
           /\ known.package # None /\ worker.package = known.package /\ worker.package # None /\ worker.package \in Packages
           /\ Listed(worker) /\ worker.active \in Range(worker.scenes) /\ worker.selected \in Range(worker.scenes)
           /\ Shows(known, worker) /\ NoNews
           /\ worker.scenes = stored[worker.package].scenes /\ worker.changed = stored[worker.package].changed
           /\ Range(worker.scenes) \subseteq 1 .. made /\ made \in Nat /\ 1 .. made \subseteq Nat
<1>k. StudioTypes /\ InTurn /\ PageFits /\ WorkerFits  BY DEF StudioKeeps
<1>1. queue[1] = Job /\ 1 \in DOMAIN queue /\ Job \in StudioRequests
  BY <1>k, Members DEF StudioTypes, Job
<1>2. pending # None  BY <1>1, <1>k DEF InTurn
<1>3. Job.op = pending /\ known.package # None /\ NoNews  BY <1>1, <1>2, <1>k DEF InTurn, NoNews
<1>4. worker.package = known.package /\ Shows(known, worker) /\ Sane(worker)
  BY <1>3, <1>k DEF PageFits
<1>5. worker.package \in Packages  BY <1>3, <1>4, <1>k DEF StudioTypes, Works
<1>6. made \in Nat  BY <1>k, StudioAssumption DEF StudioTypes, StudioAssumption
<1>7. worker.scenes = stored[worker.package].scenes /\ worker.changed = stored[worker.package].changed
  BY <1>3, <1>4, <1>k DEF WorkerFits
<1> QED  BY <1>1, <1>2, <1>3, <1>4, <1>5, <1>6, <1>7 DEF Sane, Listed

\* The worker switches the active scene.
LEMMA WorkerSwitchesKeeps ==
    ASSUME StudioKeeps, WorkerSwitches
    PROVE  StudioKeeps'
<1>k. /\ StudioTypes /\ InTurn /\ PageFits /\ WorkerFits /\ RowsFit /\ TakeFits
      /\ TakeKeepsItsScenes /\ EditorSees
  BY DEF StudioKeeps
<1>u. /\ queue # <<>> /\ Job.op = "switch" /\ queue' = Tail(queue)
      /\ project' = project /\ live' = live /\ row' = row /\ home' = home /\ matter' = matter /\ imported' = imported
      /\ UNCHANGED guiVars /\ made' = made /\ recorded' = recorded /\ reopened' = reopened
  BY DEF WorkerSwitches
<1>g. known' = known /\ inHand' = inHand /\ pending' = pending /\ touched' = touched /\ editor' = editor
  BY <1>u DEF guiVars
<1>f. /\ Job.op = pending /\ pending # None /\ worker.package \in Packages
      /\ Listed(worker) /\ worker.active \in Range(worker.scenes) /\ worker.selected \in Range(worker.scenes) /\ NoNews
      /\ worker.scenes = stored[worker.package].scenes /\ worker.changed = stored[worker.package].changed
      /\ Range(worker.scenes) \subseteq 1 .. made /\ made \in Nat /\ 1 .. made \subseteq Nat
  BY <1>u, CommandFinds
<1> DEFINE next == [worker EXCEPT !.active = Job.scene]
           live_ == worker.recording /\ IsRecording(worker.take)
           good == Job.scene \in Range(worker.scenes) /\ (live_ \/ ~worker.recording)
<1>1. CASE Answer(FALSE, Closed) /\ healthy' = (healthy /\ ~good) /\ UNCHANGED <<worker, events, stored>>
  BY <1>1, <1>k, <1>u, CommandRefused DEF StudioTypes
<1>2. CASE /\ good /\ worker' = next /\ Answer(TRUE, next) /\ UNCHANGED healthy
           /\ IF live_
              THEN RecordSceneSwitch(worker.take, Job.scene) /\ UNCHANGED stored
              ELSE stored' = [stored EXCEPT ![worker.package] = Kept(next)] /\ UNCHANGED events
 <2>1. /\ next \in Works /\ next.package = worker.package /\ next.scenes = worker.scenes /\ next.changed = worker.changed
       /\ next.active = Job.scene /\ next.selected = worker.selected /\ next.take = worker.take
       /\ next.recording = worker.recording /\ next.missing = worker.missing /\ next.awaiting = worker.awaiting
   BY <1>2, <1>k, <1>f DEF StudioTypes, Works
 <2> HIDE DEF next
 <2>r. (worker'.recording <=> worker.recording) /\ (worker'.missing <=> worker.missing)
   BY <2>1, <1>2, Zenon
 <2>2. Job.scene \in Range(worker.scenes) /\ Job.scene \in 1 .. made  BY <1>2, <1>f
 <2>3. /\ queue' \in Seq(StudioRequests) /\ inbox' \in Seq(StudioReplies)
       /\ InTurn' /\ AskedWell' /\ PageFits' /\ NoNews /\ ~NoNews'
   BY <1>2, <1>f, <1>u, <2>1, <2>2, CommandDone DEF Listed
 <2>4. /\ events' \in [Takes -> SUBSET Nat]
       /\ \A t \in Takes : events'[t] = events[t] \/ (live_ /\ t = worker.take /\ events'[t] = events[t] \cup {Job.scene})
   BY <1>2, <1>k, <2>2, <1>f DEF RecordSceneSwitch, StudioTypes, WorkerFits
 <2>5. /\ stored' \in [Packages -> Shelves]
       /\ \A p \in Packages : /\ stored'[p].scenes = stored[p].scenes /\ stored'[p].changed = stored[p].changed
                              /\ stored'[p].active = stored[p].active \/ stored'[p].active \in Range(stored[p].scenes)
  <3>1. /\ Kept(next) \in Shelves /\ Kept(next).scenes = worker.scenes /\ Kept(next).changed = worker.changed
        /\ Kept(next).active = Job.scene
    BY <2>1 DEF Kept, Shelves, Works
  <3>2. stored' = stored \/ stored' = [stored EXCEPT ![worker.package] = Kept(next)]  BY <1>2
  <3>3. stored \in [Packages -> Shelves]  BY <1>k DEF StudioTypes
  <3>4. CASE stored' = stored  BY <3>3, <3>4
  <3>5. CASE stored' = [stored EXCEPT ![worker.package] = Kept(next)]
    BY <3>1, <3>3, <3>5, <1>f, <2>2
  <3> QED  BY <3>2, <3>4, <3>5
 <2>6. StudioTypes'  BY <1>2, <1>g, <1>u, <1>k, <2>1, <2>3, <2>4, <2>5 DEF StudioTypes
 <2>7. WorkerFits'  BY <2>5, <1>u, <1>k, <1>2, <2>1, <1>f, <2>r DEF WorkerFits, Listed
 <2>8. RowsFit'
  <3>1. \A t \in Takes : events'[t] \subseteq 1 .. made /\ (home[t] = None => events'[t] = {})
    BY <2>2, <2>4, <1>f, <1>k DEF RowsFit, WorkerFits
  <3> QED  BY <3>1, <1>g, <1>u, <1>k DEF RowsFit
 <2>9. TakeFits'  BY <2>4, <1>f, <1>u, <1>k, <1>2, <2>1, <2>r DEF RowsFit, TakeFits
 <2>10. EditorSees'  BY <1>2, <1>g, <1>u, <1>k, <1>f, <2>1, <2>r, <2>3 DEF EditorSees, TakesOf
 <2>11. TakeKeepsItsScenes'
  <3>1. SUFFICES ASSUME NEW t \in Takes, events'[t] # {}, t \notin imported
                 PROVE  /\ events'[t] \subseteq Range(stored'[home[t]].scenes)
                        /\ events'[t] \cap stored'[home[t]].changed = events'[t] \cap recorded[t]
    BY <1>u DEF TakeKeepsItsScenes
  <3>2. CASE events'[t] = events[t]
    BY <3>1, <3>2, <1>k, <2>5 DEF RowsFit, StudioTypes, TakeKeepsItsScenes
  <3>3. CASE live_ /\ t = worker.take /\ events'[t] = events[t] \cup {Job.scene}
    BY <3>3, <1>k, <3>1, <2>2, <2>5, <1>f DEF WorkerFits, TakeKeepsItsScenes
  <3> QED  BY <3>2, <3>3, <2>4
 <2> QED  BY <2>3, <2>6, <2>7, <2>8, <2>9, <2>10, <2>11 DEF StudioKeeps
<1> QED  BY <1>1, <1>2 DEF WorkerSwitches

\* The worker sets a mark.
LEMMA WorkerMarksKeeps ==
    ASSUME StudioKeeps, WorkerMarks
    PROVE  StudioKeeps'
<1>k. /\ StudioTypes /\ InTurn /\ PageFits /\ WorkerFits /\ RowsFit /\ TakeFits
      /\ TakeKeepsItsScenes /\ EditorSees
  BY DEF StudioKeeps
<1>u. /\ queue # <<>> /\ Job.op = "mark" /\ queue' = Tail(queue) /\ worker' = worker /\ events' = events /\ stored' = stored
      /\ project' = project /\ live' = live /\ row' = row /\ home' = home /\ imported' = imported
      /\ UNCHANGED guiVars /\ made' = made /\ recorded' = recorded /\ reopened' = reopened
  BY DEF WorkerMarks
<1>g. known' = known /\ inHand' = inHand /\ pending' = pending /\ touched' = touched /\ editor' = editor
  BY <1>u DEF guiVars
<1>f. /\ Job.op = pending /\ pending # None /\ worker.package \in Packages
      /\ Listed(worker) /\ worker.active \in Range(worker.scenes) /\ worker.selected \in Range(worker.scenes) /\ NoNews
      /\ made \in Nat
  BY <1>u, CommandFinds
<1> DEFINE good == worker.recording /\ IsRecording(worker.take)
<1>1. CASE Answer(FALSE, Closed) /\ healthy' = (healthy /\ ~good) /\ UNCHANGED matter
  BY <1>1, <1>k, <1>u, CommandRefused DEF StudioTypes
<1>2. CASE good /\ RecordMarker(worker.take) /\ Answer(TRUE, worker) /\ UNCHANGED healthy
 <2>1. matter' \subseteq Takes  BY <1>2, <1>k DEF RecordMarker, StudioTypes, WorkerFits
 <2>3. /\ queue' \in Seq(StudioRequests) /\ inbox' \in Seq(StudioReplies)
       /\ InTurn' /\ AskedWell' /\ PageFits' /\ NoNews /\ ~NoNews'
   BY <1>f, <1>u, <1>k, <1>2, CommandDone DEF Listed, StudioTypes
 <2>4. StudioTypes'  BY <1>2, <1>g, <1>u, <1>k, <2>1, <2>3 DEF StudioTypes
 <2>5. WorkerFits' /\ RowsFit' /\ TakeKeepsItsScenes'
   BY <1>g, <1>u, <1>k DEF WorkerFits, RowsFit, TakeKeepsItsScenes, Listed
 <2>6. TakeFits' /\ EditorSees'
   BY <1>g, <1>u, <1>k, <1>f, <2>3 DEF TakeFits, RowsFit, EditorSees, TakesOf
 <2> QED  BY <2>3, <2>4, <2>5, <2>6 DEF StudioKeeps
<1> QED  BY <1>1, <1>2 DEF WorkerMarks

\* The worker prepares a take.
LEMMA WorkerPreparesKeeps ==
    ASSUME StudioKeeps, WorkerPrepares
    PROVE  StudioKeeps'
<1>k. /\ StudioTypes /\ InTurn /\ AskedWell /\ PageFits /\ WorkerFits /\ RowsFit /\ TakeFits
      /\ TakeKeepsItsScenes /\ EditorSees
  BY DEF StudioKeeps
<1>u. /\ queue # <<>> /\ Job.op = "prepare" /\ queue' = Tail(queue)
      /\ project' = project /\ live' = live /\ row' = row /\ home' = home /\ matter' = matter /\ imported' = imported
      /\ stored' = stored /\ UNCHANGED guiVars /\ made' = made /\ reopened' = reopened
  BY DEF WorkerPrepares
<1>g. known' = known /\ inHand' = inHand /\ pending' = pending /\ touched' = touched /\ editor' = editor
  BY <1>u DEF guiVars
<1>f. /\ Job = queue[1] /\ Job.op = pending /\ pending # None /\ worker.package \in Packages
      /\ Listed(worker) /\ worker.active \in Range(worker.scenes) /\ worker.selected \in Range(worker.scenes) /\ NoNews
      /\ worker.scenes = stored[worker.package].scenes /\ worker.changed = stored[worker.package].changed
      /\ Range(worker.scenes) \subseteq 1 .. made /\ made \in Nat /\ 1 .. made \subseteq Nat
  BY <1>u, CommandFinds
<1>t. live.op = "Preparing" /\ Job.take = live.take /\ live.take \in Takes
  BY <1>u, <1>f, <1>k DEF RowsFit, AskedWell
<1> DEFINE good == ~worker.recording /\ IsRecording(Job.take) /\ Job.take \in TakesOf(worker.package)
           next == [worker EXCEPT !.recording = TRUE, !.take = Job.take, !.awaiting = 0]
<1>1. CASE Answer(FALSE, Closed) /\ healthy' = (healthy /\ ~good) /\ UNCHANGED <<worker, events, recorded>>
  BY <1>1, <1>k, <1>u, CommandRefused DEF StudioTypes
<1>2. CASE /\ good
           /\ worker' = next
           /\ PrepareTake(Job.take, worker.active)
           /\ recorded' = [recorded EXCEPT ![Job.take] = worker.changed]
           /\ Answer(TRUE, worker') /\ UNCHANGED healthy
 <2>w. worker' = next  BY <1>2
 <2>1. /\ next \in Works /\ next.package = worker.package /\ next.scenes = worker.scenes /\ next.changed = worker.changed
       /\ next.active = worker.active /\ next.selected = worker.selected /\ next.take = live.take
       /\ next.recording = TRUE /\ next.missing = worker.missing
   BY <1>k, <1>t DEF StudioTypes, Works
 <2> HIDE DEF next
 <2>r. worker'.recording /\ (worker'.missing <=> worker.missing)  BY <2>1, <2>w, Zenon
 <2>2. home[live.take] = worker.package /\ row[live.take] = "RECORDING"
   BY <1>2, <1>t DEF TakesOf, IsRecording
 <2>3. /\ queue' \in Seq(StudioRequests) /\ inbox' \in Seq(StudioReplies)
       /\ InTurn' /\ AskedWell' /\ PageFits' /\ NoNews /\ ~NoNews'
   BY <2>w, <1>f, <1>u, <2>1, <1>2, CommandDone DEF Listed
 <2>4. /\ events' \in [Takes -> SUBSET Nat] /\ events'[live.take] = {worker.active}
       /\ \A t \in Takes : t # live.take => events'[t] = events[t]
   BY <1>2, <1>t, <1>f, <1>k DEF PrepareTake, StudioTypes
 <2>5. /\ recorded' \in [Takes -> SUBSET Nat] /\ recorded'[live.take] = worker.changed
       /\ \A t \in Takes : t # live.take => recorded'[t] = recorded[t]
   BY <1>2, <1>t, <1>k DEF StudioTypes, Works
 <2>6. StudioTypes'  BY <1>2, <1>g, <1>u, <1>k, <2>1, <2>w, <2>3, <2>4, <2>5 DEF StudioTypes
 <2>7. WorkerFits'
   BY <1>u, <1>k, <2>w, <2>1, <2>2, <1>t, StudioAssumption, <1>f, <2>5 DEF WorkerFits, Listed,
     StudioAssumption, None
 <2>8. RowsFit'
   BY <1>f, <2>4, <2>5, <1>k, <2>2, StudioAssumption, <1>g, <1>u DEF Listed, RowsFit,
     StudioAssumption, None
 <2>9. TakeFits'  BY <2>w, <2>1, <2>2, <2>4, <2>r, <1>u DEF TakeFits
 <2>10. EditorSees'  BY <1>u, <1>f, <1>g, <1>k, <2>r, <2>3 DEF EditorSees, TakesOf
 <2>11. TakeKeepsItsScenes'
  <3>1. SUFFICES ASSUME NEW t \in Takes, events'[t] # {}, t \notin imported
                 PROVE  /\ events'[t] \subseteq Range(stored[home[t]].scenes)
                        /\ events'[t] \cap stored[home[t]].changed = events'[t] \cap recorded'[t]
    BY <1>u DEF TakeKeepsItsScenes
  <3>2. CASE t # live.take  BY <3>1, <3>2, <2>4, <2>5, <1>k DEF TakeKeepsItsScenes
  <3>3. CASE t = live.take  BY <3>3, <2>2, <2>4, <2>5, <1>f
  <3> QED  BY <3>2, <3>3
 <2> QED  BY <2>3, <2>6, <2>7, <2>8, <2>9, <2>10, <2>11 DEF StudioKeeps
<1> QED  BY <1>1, <1>2 DEF WorkerPrepares

\* The take the worker has is over: its events and its import aside, everything stays.
LEMMA TakeOver ==
    ASSUME StudioKeeps, queue # <<>>, Job.op \in {"abort", "complete"}, queue' = Tail(queue), worker.recording,
           NEW w \in Works, w.package = worker.package, w.scenes = worker.scenes, w.changed = worker.changed,
           w.active = worker.active, w.selected = worker.selected, ~w.recording, worker' = w, Answer(TRUE, worker'),
           events' = events \/ events' = [events EXCEPT ![worker.take] = {}],
           \/ imported' = imported /\ w.missing = worker.missing /\ (Job.op = "complete" => w.awaiting # 0)
           \/ imported' = imported \cup {worker.take} /\ row[worker.take] \in Done /\ Job.op = "complete" /\ w.awaiting = 0,
           healthy' \in BOOLEAN,
           UNCHANGED <<project, live, row, home, matter, stored, guiVars, made, recorded, reopened>>
    PROVE  StudioKeeps'
<1>k. /\ StudioTypes /\ InTurn /\ AskedWell /\ PageFits /\ WorkerFits /\ RowsFit /\ TakeFits
      /\ TakeKeepsItsScenes /\ EditorSees
  BY DEF StudioKeeps
<1>u. /\ project' = project /\ live' = live /\ row' = row /\ home' = home /\ matter' = matter
      /\ stored' = stored /\ made' = made /\ reopened' = reopened /\ recorded' = recorded
  OBVIOUS
<1>g. known' = known /\ inHand' = inHand /\ pending' = pending /\ touched' = touched /\ editor' = editor
  BY DEF guiVars
<1>f. /\ Job.op = pending /\ pending # None /\ worker.package \in Packages
      /\ Listed(worker) /\ worker.active \in Range(worker.scenes) /\ worker.selected \in Range(worker.scenes) /\ NoNews
      /\ worker.scenes = stored[worker.package].scenes /\ worker.changed = stored[worker.package].changed
      /\ made \in Nat
  BY CommandFinds
<1>t. live.op \notin {"Preparing", "Recording", "Finalizing", "Saving"}  BY <1>f, <1>k DEF RowsFit
<1>3. /\ queue' \in Seq(StudioRequests) /\ inbox' \in Seq(StudioReplies)
      /\ InTurn' /\ AskedWell' /\ PageFits' /\ NoNews /\ ~NoNews'
  BY <1>f, <1>u, CommandDone DEF Listed
<1>4. events' \in [Takes -> SUBSET Nat] /\ \A t \in Takes : events'[t] = events[t] \/ events'[t] = {}
  BY <1>k DEF StudioTypes
<1>5. imported' \subseteq Takes /\ imported \subseteq imported' /\ \A t \in imported' : row[t] \in Done
  BY <1>k DEF StudioTypes, WorkerFits, RowsFit
<1>6. StudioTypes'  BY <1>g, <1>u, <1>k, <1>3, <1>4, <1>5 DEF StudioTypes
<1>7. WorkerFits'  BY <1>u, <1>k, <1>f DEF WorkerFits, Listed
<1>8. RowsFit'  BY <1>g, <1>u, <1>k, <1>4, <1>5 DEF RowsFit
<1>9. TakeFits'  BY <1>u, <1>t DEF TakeFits
<1>10. TakeKeepsItsScenes'  BY <1>u, <1>k, <1>4, <1>5 DEF TakeKeepsItsScenes
<1>11. EditorSees'  BY <1>f, <1>g, <1>k, <1>3, <1>u DEF EditorSees, TakesOf
<1> QED  BY <1>3, <1>6, <1>7, <1>8, <1>9, <1>10, <1>11 DEF StudioKeeps

\* The worker gives a take up.
LEMMA WorkerAbortsKeeps ==
    ASSUME StudioKeeps, WorkerAborts
    PROVE  StudioKeeps'
<1>k. StudioTypes  BY DEF StudioKeeps
<1>u. /\ queue # <<>> /\ Job.op = "abort" /\ queue' = Tail(queue)
      /\ UNCHANGED <<project, live, row, home, matter, imported, stored, guiVars, made, recorded, reopened>>
  BY DEF WorkerAborts
<1> DEFINE good == worker.recording /\ row[worker.take] = "ABORTED"
           next == [worker EXCEPT !.recording = FALSE, !.take = 0]
<1>1. CASE Answer(FALSE, Closed) /\ healthy' = (healthy /\ ~good) /\ UNCHANGED <<worker, events>>
  BY <1>1, <1>k, <1>u, CommandRefused DEF StudioTypes
<1>2. CASE good /\ worker' = next /\ DiscardPreparation(worker.take) /\ Answer(TRUE, worker') /\ UNCHANGED healthy
 <2>1. /\ next \in Works /\ next.package = worker.package /\ next.scenes = worker.scenes /\ next.changed = worker.changed
       /\ next.active = worker.active /\ next.selected = worker.selected /\ next.recording = FALSE
       /\ next.missing = worker.missing
   BY <1>k DEF StudioTypes, Works
 <2>2. worker' = next /\ worker.recording /\ events' = [events EXCEPT ![worker.take] = {}]
   BY <1>2 DEF DiscardPreparation
 <2>3. Answer(TRUE, worker') /\ healthy' = healthy  BY <1>2
 <2>4. healthy' \in BOOLEAN  BY <2>3, <1>k DEF StudioTypes
 <2> HIDE DEF next
 <2>5. ~next.recording  BY <2>1, Zenon
 <2>6. (next.missing = worker.missing) /\ imported' = imported  BY <2>1, <1>u
 <2> QED  BY <1>u, <2>1, <2>2, <2>3, <2>4, <2>5, <2>6, TakeOver
<1> QED  BY <1>1, <1>2 DEF WorkerAborts

\* The worker completes a take and imports it.
LEMMA WorkerCompletesKeeps ==
    ASSUME StudioKeeps, WorkerCompletes
    PROVE  StudioKeeps'
<1>k. StudioTypes /\ WorkerFits  BY DEF StudioKeeps
<1>u. /\ queue # <<>> /\ Job.op = "complete" /\ queue' = Tail(queue) /\ events' = events
      /\ UNCHANGED <<project, live, row, home, matter, stored, guiVars, made, recorded, reopened>>
  BY DEF WorkerCompletes
<1> DEFINE over == [worker EXCEPT !.recording = FALSE, !.take = 0]
<1>1. CASE ~worker.recording  BY <1>1, <1>k, <1>u, CommandRefused DEF WorkerCompletes, StudioTypes
<1>2. CASE /\ worker.recording /\ CanImport(worker.take)
           /\ PutImports({worker.take})
           /\ worker' = [over EXCEPT !.awaiting = 0, !.missing = worker.blind]
           /\ Answer(TRUE, worker') /\ UNCHANGED healthy
 <2> DEFINE next == [over EXCEPT !.awaiting = 0, !.missing = worker.blind]
 <2>1. /\ next \in Works /\ next.package = worker.package /\ next.scenes = worker.scenes /\ next.changed = worker.changed
       /\ next.active = worker.active /\ next.selected = worker.selected /\ next.recording = FALSE
       /\ next.awaiting = 0
   BY <1>k DEF StudioTypes, Works
 <2>2. worker' = next /\ worker.recording  BY <1>2
 <2>3. imported' = imported \cup {worker.take} /\ row[worker.take] \in Done
   BY <1>2 DEF PutImports, CanImport, IsImportable
 <2>4. Answer(TRUE, worker') /\ healthy' \in BOOLEAN  BY <1>2, <1>k DEF StudioTypes
 <2> HIDE DEF next
 <2>6. ~next.recording  BY <2>1
 <2> QED  BY <1>u, <2>1, <2>2, <2>3, <2>4, <2>6, TakeOver
<1>3. CASE /\ worker.recording
           /\ worker' = [over EXCEPT !.awaiting = worker.take]
           /\ Answer(TRUE, worker') /\ healthy' = (healthy /\ ~CanImport(worker.take))
           /\ UNCHANGED imported
 <2> DEFINE next == [over EXCEPT !.awaiting = worker.take]
 <2>0. worker.take \in Takes /\ worker.take # 0  BY <1>3, <1>k DEF WorkerFits, Takes
 <2>1. /\ next \in Works /\ next.package = worker.package /\ next.scenes = worker.scenes /\ next.changed = worker.changed
       /\ next.active = worker.active /\ next.selected = worker.selected /\ next.recording = FALSE
       /\ next.awaiting = worker.take /\ next.missing = worker.missing
   BY <1>k, <2>0 DEF StudioTypes, Works
 <2>2. worker' = next /\ worker.recording /\ imported' = imported  BY <1>3
 <2>4. Answer(TRUE, worker') /\ healthy' \in BOOLEAN  BY <1>3, <1>k DEF StudioTypes
 <2> HIDE DEF next
 <2>6. ~next.recording /\ next.awaiting # 0  BY <2>1, <2>0
 <2> QED  BY <1>u, <2>1, <2>2, <2>4, <2>6, TakeOver
<1> QED  BY <1>1, <1>2, <1>3 DEF WorkerCompletes

\* The worker opens a package, and recovers and imports what was left.
LEMMA WorkerOpensKeeps ==
    ASSUME StudioKeeps, WorkerOpens
    PROVE  StudioKeeps'
<1>k. /\ StudioTypes /\ InTurn /\ PageFits /\ WorkerFits /\ RowsFit /\ TakeFits
      /\ TakeKeepsItsScenes /\ EditorSees
  BY DEF StudioKeeps
<1>u. /\ queue # <<>> /\ Job.op = "open" /\ queue' = Tail(queue)
      /\ project' = project /\ live' = live /\ row' = row /\ home' = home /\ matter' = matter /\ events' = events
      /\ UNCHANGED guiVars /\ made' = made /\ recorded' = recorded
  BY DEF WorkerOpens
<1>g. known' = known /\ inHand' = inHand /\ pending' = pending /\ touched' = touched /\ editor' = editor
  BY <1>u DEF guiVars
<1>m. made \in Nat /\ made >= 2 /\ 1 .. made \subseteq Nat
  BY <1>k, StudioAssumption DEF StudioTypes, StudioAssumption
<1> DEFINE p == Job.package
           now == SeededIfEmpty(p)
           opened == [Closed EXCEPT !.package = p, !.scenes = now.scenes, !.changed = now.changed,
                                    !.active = now.active, !.selected = now.active]
           wanted == Unimported(p)
           failing(good) == {t \in wanted : t \notin good \/ ~CanImport(t)}
           tried(good) == {t \in wanted : \A u \in failing(good) : t <= u}
           failed(good) == tried(good) \cap failing(good)
\* The request is one of an opening, so the page knows nothing.
<1>p. pending = None /\ p \in Packages /\ known = Closed
 <2>1. queue[1] = Job /\ 1 \in DOMAIN queue  BY <1>u, <1>k DEF StudioTypes, Job
 <2>2. pending = None  BY <2>1, <1>u, <1>k DEF InTurn
 <2> QED  BY <2>1, <2>2, <1>u, <1>k DEF InTurn
<1>n. /\ now \in Shelves /\ Range(now.scenes) \subseteq 1 .. made /\ IsInjective(now.scenes) /\ now.changed \subseteq 1 .. made
      /\ now.active \in Range(now.scenes) /\ (stored[p].scenes # <<>> => now = stored[p])
 <2> HIDE DEF p
 <2>1. CASE stored[p].scenes # <<>>
  <3>1. now = stored[p]  BY <2>1 DEF SeededIfEmpty
  <3> QED  BY <2>1, <3>1, <1>p, <1>k DEF WorkerFits, Listed, StudioTypes
 <2>2. CASE stored[p].scenes = <<>>
  <3>1. now = [scenes |-> <<1, 2>>, changed |-> {}, active |-> 1]
    BY <2>2 DEF SeededIfEmpty, DefaultScenes
  <3> HIDE DEF now
  <3>2. now.scenes = <<1, 2>> /\ now.changed = {} /\ now.active = 1 /\ now \in Shelves
    BY <3>1 DEF Shelves
  <3>3. /\ Range(now.scenes) = {1, 2} /\ IsInjective(now.scenes)
   <4>1. DOMAIN now.scenes = {1, 2} /\ now.scenes[1] = 1 /\ now.scenes[2] = 2  BY <3>2
   <4> QED  BY <4>1 DEF Range, IsInjective
  <3> QED  BY <2>2, <3>2, <3>3, <1>m
 <2> QED  BY <2>1, <2>2
<1> HIDE DEF p, now
<1>o. /\ opened \in Works /\ opened.package = p /\ opened.scenes = now.scenes /\ opened.changed = now.changed
      /\ opened.active = now.active /\ opened.selected = now.active /\ opened.recording = FALSE
      /\ opened.awaiting = 0
 <2>1. Closed \in Works /\ Closed.awaiting = 0  BY ClosedIs DEF Closed
 <2>2. Closed.recording = FALSE  BY Zenon DEF Closed
 <2> QED  BY <2>1, <2>2, <1>n, <1>p DEF Works, Shelves
<1>r. ~opened.recording  BY <1>o, Zenon
<1>pn. p # None  BY <1>p, StudioAssumption DEF StudioAssumption, None
\* The package is open, or not, and something of it may be imported.
<1>1. ASSUME NEW w \in Works, worker' = w, NEW ok \in BOOLEAN, NEW brought \in Works,
             NEW a, a = [op |-> Job.op, fresh |-> Job.fresh, ok |-> ok, state |-> brought], inbox' = Append(inbox, a),
             ~w.recording,
             \/ ~ok /\ w = Closed /\ stored' = stored
             \/ /\ ok /\ brought = w /\ w.package = p /\ w.scenes = now.scenes /\ w.changed = now.changed
                /\ w.active = now.active /\ w.selected = now.active /\ (w.awaiting # 0 => w.missing)
                /\ stored' = [stored EXCEPT ![p] = now],
             imported' \subseteq Takes, imported \subseteq imported', \A t \in imported' : row[t] \in Done,
             healthy' \in BOOLEAN, reopened' \in [wanted : SUBSET Takes, tried : SUBSET Takes],
             reopened'.tried \subseteq reopened'.wanted
      PROVE  StudioKeeps'
 <2>1. /\ queue' \in Seq(StudioRequests) /\ inbox' \in Seq(StudioReplies) /\ InTurn' /\ AskedWell'
       /\ inbox'[Len(inbox')].state = brought
       /\ NoNews' <=> (queue' # <<>> \/ ~ok)
   BY <1>1, <1>u, Worked
 <2>2. /\ stored' \in [Packages -> Shelves]
       /\ \A q \in Packages : stored[q].scenes # <<>> => stored'[q] = stored[q]
       /\ \A q \in Packages : stored'[q] = stored[q] \/ stored'[q] = now
       /\ ok => stored'[p] = now
   BY <1>1, <1>n, <1>p, <1>k DEF StudioTypes
 <2>3. StudioTypes'  BY <1>1, <1>u, <1>g, <1>k, <2>1, <2>2 DEF StudioTypes
 <2>4. Sane(worker)'
  <3>1. CASE ~ok
   <4>1. worker' = Closed  BY <1>1, <3>1
   <4> QED  BY <4>1, ClosedIs DEF Sane, Closed
  <3>2. CASE ok  BY <1>1, <1>n, <1>pn, <1>u, <3>2 DEF Sane, Listed
  <3> QED  BY <3>1, <3>2
 <2>5. PageFits'
  <3>1. Sane(known)' /\ known'.package = None  BY <1>g, <1>p, ClosedIs DEF Sane, Closed
  <3>2. ~NoNews' => inbox'[Len(inbox')].state = worker' /\ worker'.package # None
    BY <2>1, <1>1, <1>pn
  <3> QED  BY <2>4, <3>1, <3>2 DEF PageFits
 <2>6. WorkerFits'
  <3>1. \A q \in Packages : /\ Listed(stored[q])'
                            /\ stored'[q].scenes # <<>> => stored'[q].active \in Range(stored'[q].scenes)
   <4>1. ASSUME NEW q \in Packages, stored'[q] = stored[q]
         PROVE  /\ Listed(stored[q])'
                /\ stored'[q].scenes # <<>> => stored'[q].active \in Range(stored'[q].scenes)
     BY <4>1, <1>u, <1>k DEF WorkerFits, Listed
   <4>2. ASSUME NEW q \in Packages, stored'[q] = now
         PROVE  /\ Listed(stored[q])'
                /\ stored'[q].scenes # <<>> => stored'[q].active \in Range(stored'[q].scenes)
     BY <4>2, <1>u, <1>n DEF Listed
   <4> QED  BY <4>1, <4>2, <2>2
  <3>2. worker'.package # None =>
            worker'.scenes = stored'[worker'.package].scenes /\ worker'.changed = stored'[worker'.package].changed
    BY <1>1, <2>2, ClosedIs
  <3>3. ~worker'.recording  BY <1>1, Zenon
  <3> QED  BY <3>1, <3>2, <3>3 DEF WorkerFits
 <2>7. known.package = None /\ live.op \notin {"Preparing", "Recording", "Finalizing", "Saving"}
   BY <1>p, <1>k, ClosedIs DEF RowsFit
 <2>8. RowsFit'  BY <1>1, <1>u, <1>g, <1>k DEF RowsFit
 <2>9. TakeFits'  BY <2>7, <1>u DEF TakeFits
 <2>10. TakeKeepsItsScenes'
  <3>1. SUFFICES ASSUME NEW t \in Takes, events[t] # {}, t \notin imported'
                 PROVE  /\ events[t] \subseteq Range(stored'[home[t]].scenes)
                        /\ events[t] \cap stored'[home[t]].changed = events[t] \cap recorded[t]
    BY <1>u DEF TakeKeepsItsScenes
  <3>2. /\ events[t] \subseteq Range(stored[home[t]].scenes)
        /\ events[t] \cap stored[home[t]].changed = events[t] \cap recorded[t]
    BY <3>1, <1>1, <1>k DEF TakeKeepsItsScenes
  <3>3. home[t] \in Packages  BY <3>1, <1>k DEF RowsFit, StudioTypes
  <3>4. stored[home[t]].scenes # <<>>  BY <3>1, <3>2 DEF Range
  <3> QED  BY <3>2, <3>3, <3>4, <2>2
 <2>11. EditorSees'
  <3>1. ~NoNews' /\ worker'.awaiting # 0 => worker'.missing  BY <1>1, <2>1
  <3> QED  BY <2>7, <1>g, <1>k, <3>1 DEF EditorSees
 <2> QED  BY <2>1, <2>3, <2>5, <2>6, <2>8, <2>9, <2>10, <2>11 DEF StudioKeeps
<1>h. /\ reopened \in [wanted : SUBSET Takes, tried : SUBSET Takes] /\ reopened.tried \subseteq reopened.wanted
      /\ imported \subseteq Takes /\ \A t \in imported : row[t] \in Done
  BY <1>k DEF StudioTypes, RowsFit
<1>w. wanted \subseteq Takes  BY DEF Unimported, TakesOf
<1>2. CASE /\ worker' = Closed /\ Answer(FALSE, Closed) /\ healthy' = FALSE
           /\ UNCHANGED <<stored, imported, reopened>>
 <2> DEFINE a == [op |-> Job.op, fresh |-> Job.fresh, ok |-> FALSE, state |-> Closed]
 <2>1. inbox' = Append(inbox, a) /\ a = [op |-> Job.op, fresh |-> Job.fresh, ok |-> FALSE, state |-> Closed] /\ FALSE \in BOOLEAN
   BY <1>2 DEF Answer
 <2> HIDE DEF a
 <2>2. healthy' \in BOOLEAN  BY <1>2
 <2> QED  BY <1>2, <1>h, <2>1, <2>2, <1>1, ClosedIs
<1>3. CASE /\ worker' = [opened EXCEPT !.missing = TRUE, !.blind = TRUE]
           /\ Answer(TRUE, worker') /\ healthy' = FALSE
           /\ stored' = [stored EXCEPT ![p] = now] /\ UNCHANGED <<imported, reopened>>
 <2> DEFINE w == [opened EXCEPT !.missing = TRUE, !.blind = TRUE]
            a == [op |-> Job.op, fresh |-> Job.fresh, ok |-> TRUE, state |-> w]
 <2>1. /\ w \in Works /\ w.package = p /\ w.scenes = now.scenes /\ w.changed = now.changed
       /\ w.active = now.active /\ w.selected = now.active /\ w.recording = FALSE
       /\ w.awaiting = 0
  <3> HIDE DEF opened
  <3> QED  BY <1>o DEF Works
 <2>2. worker' = w /\ inbox' = Append(inbox, a)  BY <1>3 DEF Answer
 <2>3. a = [op |-> Job.op, fresh |-> Job.fresh, ok |-> TRUE, state |-> w] /\ TRUE \in BOOLEAN
   OBVIOUS
 <2>4. healthy' \in BOOLEAN /\ stored' = [stored EXCEPT ![p] = now] /\ imported' = imported /\ reopened' = reopened
   BY <1>3
 <2> HIDE DEF w, a
 <2>5. ~w.recording  BY <2>1, Zenon
 <2> QED  BY <1>h, <2>1, <2>2, <2>3, <2>4, <2>5, <1>1
<1>4. ASSUME NEW good \in SUBSET wanted,
             PutImports(tried(good) \ failing(good)),
             worker' = (IF failed(good) = {} THEN opened
                        ELSE [opened EXCEPT !.missing = TRUE, !.awaiting = CHOOSE t \in failed(good) : TRUE]),
             Answer(TRUE, worker'), reopened' = [wanted |-> wanted, tried |-> tried(good)],
             healthy' = (healthy /\ \A t \in tried(good) : CanImport(t) => t \in good),
             stored' = [stored EXCEPT ![p] = now]
      PROVE  StudioKeeps'
 <2> DEFINE w == IF failed(good) = {} THEN opened
                 ELSE [opened EXCEPT !.missing = TRUE, !.awaiting = CHOOSE t \in failed(good) : TRUE]
            a == [op |-> Job.op, fresh |-> Job.fresh, ok |-> TRUE, state |-> w]
 <2>0. failed(good) \subseteq Takes /\ tried(good) \subseteq wanted /\ tried(good) \subseteq Takes
   BY <1>w
 <2>1. /\ w \in Works /\ w.package = p /\ w.scenes = now.scenes /\ w.changed = now.changed
       /\ w.active = now.active /\ w.selected = now.active /\ w.recording = FALSE
       /\ (w.awaiting # 0 => w.missing)
  <3> HIDE DEF opened, failed
  <3>1. CASE failed(good) = {}  BY <1>o, <3>1
  <3>2. CASE failed(good) # {}
   <4>1. PICK t \in Takes : t = CHOOSE u \in failed(good) : TRUE  BY <2>0, <3>2
   <4>2. w = [opened EXCEPT !.missing = TRUE, !.awaiting = t]  BY <3>2, <4>1
   <4> HIDE DEF w
   <4>3. /\ w \in Works /\ w.package = p /\ w.scenes = now.scenes /\ w.changed = now.changed
         /\ w.active = now.active /\ w.selected = now.active /\ w.recording = FALSE /\ w.missing = TRUE
     BY <1>o, <4>2 DEF Works
   <4> QED  BY <4>3
  <3> QED  BY <3>1, <3>2
 <2>2. worker' = w /\ inbox' = Append(inbox, a)  BY <1>4 DEF Answer
 <2>3. a = [op |-> Job.op, fresh |-> Job.fresh, ok |-> TRUE, state |-> w] /\ TRUE \in BOOLEAN
   OBVIOUS
 <2>4. healthy' \in BOOLEAN  BY <1>4, <1>k, Zenon DEF StudioTypes
 <2>5. /\ imported' \subseteq Takes /\ imported \subseteq imported' /\ \A t \in imported' : row[t] \in Done
  <3>1. imported' = imported \cup (tried(good) \ failing(good))  BY <1>4 DEF PutImports
  <3>2. \A t \in tried(good) \ failing(good) : row[t] \in Done  BY DEF CanImport, IsImportable
  <3> QED  BY <3>1, <3>2, <2>0, <1>h
 <2>6. /\ reopened' \in [wanted : SUBSET Takes, tried : SUBSET Takes]
       /\ reopened'.tried \subseteq reopened'.wanted
  <3> HIDE DEF tried, wanted
  <3> QED  BY <1>4, <2>0, <1>w
 <2>7. stored' = [stored EXCEPT ![p] = now]  BY <1>4
 <2> HIDE DEF w, a
 <2>8. ~w.recording  BY <2>1, Zenon
 <2> QED  BY <2>1, <2>2, <2>3, <2>4, <2>5, <2>6, <2>7, <2>8, <1>1
<1> QED  BY <1>2, <1>3, <1>4, Zenon DEF WorkerOpens, p, now

-----------------------------------------------------------------------------

-----------------------------------------------------------------------------
(* Scenes and takes: the page hears the worker *)

\* An answer that is for nobody now leaves the others as they are.
LEMMA AnswerDropped ==
    ASSUME StudioKeeps, inbox # <<>>, inbox' = Tail(inbox), ~Received.fresh,
           UNCHANGED <<habit, project, live, rowVars, stored, queue, worker, guiVars, historyVars>>
    PROVE  StudioKeeps'
<1>k. /\ StudioTypes /\ InTurn /\ AskedWell /\ PageFits /\ WorkerFits /\ RowsFit /\ TakeFits
      /\ TakeKeepsItsScenes /\ EditorSees
  BY DEF StudioKeeps
<1>u. /\ project' = project /\ live' = live /\ row' = row /\ home' = home /\ matter' = matter /\ events' = events
      /\ imported' = imported /\ stored' = stored /\ queue' = queue /\ worker' = worker /\ known' = known
      /\ inHand' = inHand /\ pending' = pending /\ touched' = touched /\ editor' = editor /\ made' = made
      /\ recorded' = recorded /\ reopened' = reopened /\ healthy' = healthy
  BY DEF rowVars, guiVars, historyVars
<1>1. /\ inbox \in Seq(StudioReplies) /\ Len(inbox) \in Nat \ {0} /\ DOMAIN inbox = 1 .. Len(inbox) /\ Received = inbox[1]
      /\ inbox' \in Seq(StudioReplies) /\ Len(inbox') = Len(inbox) - 1 /\ DOMAIN inbox' = 1 .. Len(inbox) - 1
      /\ \A i \in DOMAIN inbox' : inbox'[i] = inbox[i + 1]
  BY <1>k, HeadTailProperties DEF StudioTypes, Received
<1>2. queue # <<>> \/ (Len(inbox) # 1 /\ inbox' # <<>>)  BY <1>1, <1>k DEF InTurn
<1>3. pending = None  BY <1>1, <1>2, <1>k DEF InTurn
<1>4. InTurn'  BY <1>3, <1>k, <1>1, <1>2, <1>u DEF InTurn
<1>5. (NoNews' <=> NoNews) /\ (~NoNews => inbox'[Len(inbox')] = inbox[Len(inbox)])
  BY <1>u, <1>1, <1>2 DEF NoNews
<1>6. StudioTypes'  BY <1>u, <1>k, <1>1 DEF StudioTypes
<1>7. AskedWell' /\ WorkerFits' /\ TakeKeepsItsScenes'
  BY <1>u, <1>k DEF AskedWell, WorkerFits, TakeKeepsItsScenes, Listed
<1>8. PageFits'  BY <1>u, <1>k, <1>5 DEF PageFits, Sane, Listed, Shows
<1>9. RowsFit' /\ TakeFits'  BY <1>u, <1>k, <1>5 DEF RowsFit, TakeFits
<1>10. EditorSees'  BY <1>u, <1>k, <1>5 DEF EditorSees, TakesOf
<1> QED  BY <1>4, <1>6, <1>7, <1>8, <1>9, <1>10 DEF StudioKeeps

\* The page takes an answer or drops it (handleCompleted()).
LEMMA HandleCompletedKeeps ==
    ASSUME StudioKeeps, HandleCompleted
    PROVE  StudioKeeps'
<1>k. /\ StudioTypes /\ InTurn /\ AskedWell /\ PageFits /\ WorkerFits /\ RowsFit /\ TakeFits
      /\ TakeKeepsItsScenes /\ EditorSees
  BY DEF StudioKeeps
<1>u. /\ inbox # <<>> /\ inbox' = Tail(inbox)
      /\ project' = project /\ row' = row /\ home' = home /\ matter' = matter /\ events' = events
      /\ imported' = imported /\ stored' = stored /\ queue' = queue /\ worker' = worker
      /\ touched' = touched /\ made' = made /\ recorded' = recorded /\ reopened' = reopened
      /\ habit' = habit
  BY DEF HandleCompleted, rowVars
<1>1. CASE ~Received.fresh
  BY <1>1, <1>u, AnswerDropped DEF HandleCompleted, rowVars, guiVars, historyVars
<1>2. CASE Received.fresh
 <2> DEFINE r == Received
            ok == r.ok /\ (r.op \in {"open", "complete"} => ~r.state.missing /\ r.state.awaiting = 0)
 <2>1. /\ inHand' = FALSE /\ pending' = None /\ known' = (IF r.ok THEN Merged(r) ELSE known) /\ Completed(r)
   BY <1>2 DEF HandleCompleted
 <2>2. /\ inbox \in Seq(StudioReplies) /\ Len(inbox) \in Nat \ {0} /\ 1 \in DOMAIN inbox /\ r = inbox[1] /\ r \in StudioReplies
   BY <1>u, <1>k, Members DEF StudioTypes, Received
 <2>3. Len(inbox) = 1 /\ queue = <<>> /\ inHand /\ project # None
   BY <2>2, <1>k, <1>2, <1>u DEF InTurn
 <2>4. inbox' = <<>> /\ inbox' \in Seq(StudioReplies)  BY <1>u, <2>2, <2>3, HeadTailProperties
 <2>5. r.ok <=> ~NoNews  BY <2>2, <2>3 DEF NoNews
 <2>6. r.ok => r.state = worker /\ worker.package # None  BY <2>2, <2>3, <2>5, <1>k DEF PageFits
 <2>7. /\ pending = None => r.op = "open" /\ known = Closed
       /\ pending # None => r.op = pending /\ known.package # None /\ pending # "open"
   BY <2>2, <2>3, <1>k DEF InTurn
 <2>w. worker \in Works /\ Sane(worker) /\ known \in Works /\ Sane(known)
   BY <1>k DEF StudioTypes, PageFits
  \* The page shows the worker's state, and a scene of it is selected.
 <2>8. r.ok => /\ known' \in Works /\ Shows(known', worker) /\ known'.selected \in Range(worker.scenes)
  <3>1. SUFFICES ASSUME r.ok
                 PROVE  known' \in Works /\ Shows(known', worker) /\ known'.selected \in Range(worker.scenes)
    OBVIOUS
  <3>2. known' = Merged(r) /\ r.state = worker /\ worker.selected \in Range(worker.scenes)
    BY <3>1, <2>1, <2>6, <2>w DEF Sane
  <3>3. \/ known' = [worker EXCEPT !.selected = known.selected] /\ known.selected \in Range(worker.scenes)
        \/ known' = worker
    BY <3>2 DEF Merged
  <3>4. CASE known' = worker  BY <3>2, <3>4, <2>w DEF Shows
  <3>5. CASE known' = [worker EXCEPT !.selected = known.selected] /\ known.selected \in Range(worker.scenes)
    BY <2>w, <3>5 DEF Works, Shows
  <3> QED  BY <3>3, <3>4, <3>5
 <2>9. ~r.ok => known' = known  BY <2>1
 <2>10. NoNews'  BY <2>4 DEF NoNews
 <2>11. InTurn' /\ AskedWell'  BY <2>1, <2>3, <2>4, <1>u DEF InTurn, AskedWell
 <2>12. known' \in Works  BY <2>8, <2>9, <2>w
 <2>13. PageFits'
   BY <2>w, <1>u, <2>6, <2>8, <2>3, <2>10, <2>9, <2>5, <1>k DEF Sane, Listed, Shows, PageFits
 <2>14. known.package # None => known'.package = known.package
   BY <2>8, <1>k, <2>9 DEF Shows, PageFits
 <2>15. /\ r.op = "prepare" /\ live.op = "Preparing" =>
              \/ r.ok /\ live' = [live EXCEPT !.op = "Recording"] /\ healthy' = healthy
              \/ live' = [live EXCEPT !.op = "Aborting"] /\ healthy' = (healthy /\ ~ok)
        /\ ~(r.op = "prepare" /\ live.op = "Preparing") => live' = live /\ healthy' = healthy
   BY <2>1, Zenon DEF Completed
 <2>16. editor' = IF ok /\ r.op \in {"open", "complete"} /\ project # None
                  THEN [package |-> project, takes |-> imported \cap TakesOf(project)] ELSE editor
   BY <2>1, Zenon DEF Completed
 <2>17. healthy' \in BOOLEAN  BY <2>15, <1>k DEF StudioTypes
 <2>18. live' \in [op : LiveOps, take : Takes \cup {0}] /\ live'.take = live.take
   BY <1>k, <2>15 DEF StudioTypes, LiveOps
 <2>19. \/ live' = live /\ live.op # "Preparing"
        \/ live.op = "Preparing" /\ live'.op = "Recording" /\ r.ok
        \/ live.op = "Preparing" /\ live'.op = "Aborting"
   BY <1>k, <2>7, <2>15 DEF StudioTypes, RowsFit, None
 <2>20. /\ editor' \in [package : Packages \cup {None}, takes : SUBSET Takes]
        /\ editor'.package = None => editor'.takes = {}
        /\ \/ editor' = editor /\ ~(ok /\ r.op \in {"open", "complete"})
           \/ editor'.package = project /\ editor'.takes = imported \cap TakesOf(project)
  <3>1. editor \in [package : Packages \cup {None}, takes : SUBSET Takes] /\ (editor.package = None => editor.takes = {})
        /\ project \in Packages \cup {None} /\ imported \cap TakesOf(project) \in SUBSET Takes
    BY <1>k DEF StudioTypes, EditorSees
  <3> HIDE DEF ok, r
  <3>2. CASE ok /\ r.op \in {"open", "complete"}  BY <2>16, <2>3, <3>2, <3>1
  <3>3. CASE ~(ok /\ r.op \in {"open", "complete"})  BY <2>16, <3>3, <3>1
  <3> QED  BY <3>2, <3>3
 <2>21. StudioTypes'  BY <2>1, <1>u, <1>k, <2>4, <2>12, <2>17, <2>18, <2>20 DEF StudioTypes
 <2>22. WorkerFits' /\ TakeKeepsItsScenes'  BY <1>u, <1>k DEF WorkerFits, TakeKeepsItsScenes, Listed
 <2>23. RowsFit'  BY <2>1, <2>19, <1>u, <1>k, <2>14, <2>18 DEF RowsFit, None
 <2>24. TakeFits'  BY <2>5, <2>19, <1>u, <1>k, <2>10, <2>18 DEF TakeFits
 <2>25. EditorSees'
  <3>1. SUFFICES ASSUME known'.package # None, editor'.package = known'.package, ~worker.missing
                 PROVE  editor'.takes = imported \cap TakesOf(known'.package)
    BY <2>10, <2>20, <1>u DEF TakesOf, EditorSees
  <3>2. CASE editor'.package = project /\ editor'.takes = imported \cap TakesOf(project)
    BY <3>1, <3>2
  <3>3. CASE editor' = editor /\ ~(ok /\ r.op \in {"open", "complete"})
   <4>1. known.package # None => editor'.takes = imported \cap TakesOf(known'.package)
    <5>1. SUFFICES ASSUME known.package # None PROVE NoNews \/ pending # "complete" \/ worker.awaiting # 0
      BY <3>1, <3>3, <2>14, <1>k DEF EditorSees
    <5>2. pending = "complete" /\ ~NoNews => worker.awaiting # 0
      BY <3>1, <3>3, <2>5, <2>6, <2>7 DEF None
    <5> QED  BY <5>2
   <4>2. known.package # None
    <5>1. SUFFICES ASSUME known.package = None PROVE FALSE  OBVIOUS
    <5>2. pending = None /\ r.op = "open" /\ r.ok  BY <5>1, <3>1, <2>7, <2>9
    <5>3. worker.awaiting # 0  BY <5>2, <3>1, <3>3, <2>6
    <5> QED  BY <5>2, <5>3, <3>1, <2>5, <1>k DEF EditorSees
   <4> QED  BY <4>1, <4>2
  <3> QED  BY <3>2, <3>3, <2>20
 <2> QED  BY <2>11, <2>13, <2>21, <2>22, <2>23, <2>24, <2>25 DEF StudioKeeps
<1> QED  BY <1>1, <1>2

-----------------------------------------------------------------------------

-----------------------------------------------------------------------------
(* Scenes and takes: every step *)

\* It holds with no package open.
LEMMA StudioStarts == StudioInit => StudioKeeps
<1> SUFFICES ASSUME StudioInit PROVE StudioKeeps  OBVIOUS
<1>u. /\ project = None /\ live = [op |-> "Idle", take |-> 0]
      /\ row = [t \in Takes |-> "none"] /\ home = [t \in Takes |-> None]
      /\ matter = {} /\ events = [t \in Takes |-> {}] /\ imported = {}
      /\ stored = [p \in Packages |-> NoScenes]
      /\ queue = <<>> /\ worker = Closed /\ inbox = <<>>
      /\ known = Closed /\ inHand = FALSE /\ pending = None /\ touched = FALSE
      /\ editor = [package |-> None, takes |-> {}]
      /\ made = 2 /\ recorded = [t \in Takes |-> {}]
      /\ reopened = [wanted |-> {}, tried |-> {}] /\ healthy = TRUE
  BY DEF StudioInit
<1>l. live \in [op : LiveOps, take : Takes \cup {0}] /\ live.op = "Idle"
  BY <1>u, LiveIs DEF LiveOps
<1>e. editor \in [package : Packages \cup {None}, takes : SUBSET Takes] /\ editor.takes = {}
  BY <1>u
<1>q. queue \in Seq(StudioRequests) /\ inbox \in Seq(StudioReplies) /\ DOMAIN queue = {} /\ DOMAIN inbox = {}
  BY <1>u
<1>s. stored \in [Packages -> Shelves] /\ \A p \in Packages : Listed(stored[p]) /\ stored[p].scenes = <<>>
  BY <1>u DEF NoScenes, Shelves, Range, IsInjective, Listed
<1>h. healthy \in BOOLEAN /\ inHand \in BOOLEAN /\ touched \in BOOLEAN  BY <1>u
<1>m. made \in 2 .. MaxScene  BY <1>u, StudioAssumption DEF StudioAssumption
<1>r. row \in [Takes -> RowStates] /\ home \in [Takes -> Packages \cup {None}]
  BY <1>u DEF RowStates
<1>1. StudioTypes  BY <1>u, <1>l, <1>e, <1>q, <1>s, <1>h, <1>m, <1>r, ClosedIs DEF StudioTypes
<1>2. InTurn /\ AskedWell /\ NoNews  BY <1>u, <1>q DEF InTurn, AskedWell, NoNews
<1>3. PageFits  BY <1>u, <1>2, ClosedIs DEF PageFits
<1>4. WorkerFits /\ TakeKeepsItsScenes  BY <1>u, <1>s, ClosedIs DEF WorkerFits, TakeKeepsItsScenes
<1>5. RowsFit /\ TakeFits  BY <1>u, <1>l DEF RowsFit, TakeFits, None
<1>6. EditorSees  BY <1>u, <1>e, <1>2, ClosedIs DEF EditorSees
<1> QED  BY <1>1, <1>2, <1>3, <1>4, <1>5, <1>6 DEF StudioKeeps

LEMMA StudioStutters == StudioKeeps /\ UNCHANGED studioVars => StudioKeeps'
<1> SUFFICES ASSUME StudioKeeps, UNCHANGED studioVars PROVE StudioKeeps'  OBVIOUS
<1>u. /\ UNCHANGED <<project, live, row, home, matter, events, imported, stored, queue, worker, inbox, known,
                     inHand, pending, touched, editor, made, recorded, reopened, healthy>>
      /\ UNCHANGED guiVars
  BY DEF studioVars, rowVars, guiVars, historyVars
<1>1. InTurn' /\ PageFits' /\ (NoNews' <=> NoNews)  BY <1>u, MessagesStay
<1>2. StudioTypes' /\ AskedWell'  BY <1>u DEF StudioKeeps, StudioTypes, AskedWell
<1>3. WorkerFits' /\ TakeKeepsItsScenes'
  BY <1>u DEF StudioKeeps, WorkerFits, TakeKeepsItsScenes, Listed
<1>4. RowsFit' /\ TakeFits'  BY <1>u, <1>1 DEF StudioKeeps, RowsFit, TakeFits
<1>5. EditorSees'  BY <1>u, <1>1 DEF StudioKeeps, EditorSees, TakesOf
<1> QED  BY <1>1, <1>2, <1>3, <1>4, <1>5 DEF StudioKeeps

LEMMA StudioSteps == StudioKeeps /\ [StudioNext]_studioVars => StudioKeeps'
BY CommandsKeep, SelectSceneKeeps, ProjectOpenedKeeps, RestartKeeps, StartRecordingKeeps, EngineKeeps,
   HandleBegunKeeps, SettleKeeps, WorkerOpensKeeps, WorkerEditsKeeps, WorkerSwitchesKeeps, WorkerMarksKeeps,
   WorkerPreparesKeeps, WorkerAbortsKeeps, WorkerCompletesKeeps, HandleCompletedKeeps, StudioStutters
   DEF StudioNext, StudioUser, Recording, Worker

-----------------------------------------------------------------------------

-----------------------------------------------------------------------------
(* Scenes and takes: what they promise *)

\* From it follows what the page, the take and the editor promise.
LEMMA StudioPromises == StudioKeeps => StudioInv
<1> SUFFICES ASSUME StudioKeeps PROVE StudioInv  OBVIOUS
<1>k. /\ StudioTypes /\ InTurn /\ PageFits /\ WorkerFits /\ RowsFit /\ TakeFits
      /\ TakeKeepsItsScenes /\ EditorSees
  BY DEF StudioKeeps
<1>1. PageIsTrue
 <2>1. known.package # None => {known.active, known.selected} \subseteq Range(known.scenes)
   BY <1>k DEF PageFits, Sane
 <2>2. ASSUME known.package # None, ~inHand
       PROVE  /\ known = [worker EXCEPT !.selected = known.selected]
              /\ known.scenes = stored[known.package].scenes
              /\ known.changed = stored[known.package].changed
   BY <2>2, <1>k, QuietIs DEF PageFits, StudioTypes, Works, Shows, WorkerFits
 <2> QED  BY <2>1, <2>2 DEF PageIsTrue
<1>2. TakeIsPrepared  BY <1>k DEF TakeIsPrepared, TakeFits, RowsFit
<1>3. EditorHasTakes
 <2>1. ASSUME Quiet, ~inHand, known.package = project, ~known.missing, editor.package = project
       PROVE  editor.takes = imported \cap TakesOf(project)
   BY <2>1, <1>k, QuietIs DEF PageFits, Shows, EditorSees, RowsFit, Done, TakesOf
 <2>2. \A t \in imported : row[t] \in Done  BY <1>k DEF RowsFit
 <2> QED  BY <2>1, <2>2 DEF EditorHasTakes
<1> QED  BY <1>1, <1>2, <1>3, <1>k DEF StudioInv

\* And the bounds on the variables, as the runs check them.
LEMMA StudioTypesAre == StudioKeeps => StudioTypeOK
<1> SUFFICES ASSUME StudioKeeps PROVE StudioTypeOK  OBVIOUS
<1>k. StudioTypes /\ PageFits /\ RowsFit  BY DEF StudioKeeps
<1>1. MaxScene \in Nat /\ MaxTake \in Nat /\ made \in Nat /\ 1 .. made \subseteq 1 .. MaxScene /\ Takes \cup {0} = 0 .. MaxTake
  BY <1>k, StudioAssumption DEF StudioTypes, StudioAssumption, Takes
<1>2. ASSUME NEW w \in Works, Sane(w) PROVE Studios(w)
 <2>1. /\ w.changed \subseteq 1 .. MaxScene /\ Range(w.scenes) \subseteq 1 .. MaxScene /\ IsInjective(w.scenes)
       /\ {w.active, w.selected} \subseteq 0 .. MaxScene
  <3>1. CASE w.package # None  BY <1>1, <1>2, <3>1 DEF Sane, Listed
  <3>2. CASE w.package = None  BY <1>2, <3>2, <1>1 DEF Sane, Closed, Range, IsInjective
  <3> QED  BY <3>1, <3>2
 <2>2. w.package \in Packages \cup {None} /\ {w.take, w.awaiting} \subseteq 0 .. MaxTake
   BY <1>1 DEF Works
 <2>3. {w.recording, w.missing, w.blind} \subseteq BOOLEAN  BY DEF Works
 <2> QED  BY <2>1, <2>2, <2>3 DEF Studios
<1>3. Studios(worker) /\ Studios(known)  BY <1>k, <1>2 DEF StudioTypes, PageFits
<1>4. events \in [Takes -> SUBSET (1 .. MaxScene)] /\ recorded \in [Takes -> SUBSET (1 .. MaxScene)]
  BY <1>k, <1>1 DEF StudioTypes, RowsFit
<1>5. {inHand, touched, healthy} \subseteq BOOLEAN  BY <1>k DEF StudioTypes
<1>6. live.take \in 0 .. MaxTake /\ live.op \in LiveOps  BY <1>k, <1>1 DEF StudioTypes
<1> QED  BY <1>k, <1>3, <1>4, <1>5, <1>6 DEF StudioTypes, StudioTypeOK, LiveOps, RowStates

-----------------------------------------------------------------------------
(* The page *)

\* One corner moves at a time, and the others stand still.
LEMMA PageSteps ==
    [Next \/ Rest]_vars =>
        /\ [ScreenNext]_screenVars /\ [SlotStep]_slotVars /\ [SourceNext]_sourceVars
        /\ [AvatarSceneNext]_avatarSceneVars /\ [StudioNext]_studioVars
  BY DEF vars, Rest, Next

\* Whatever is answered late, unplugged, stopped twice or restarted: a preview or a slot
\* shows a capture exactly when there is a source, of the thing that is chosen, with a sink
\* when there is a recording, and the sink of a source hears nothing after a stop was
\* answered well (ScreenCaptureController, DeviceCaptureController and the sources).
THEOREM CaptureCorrect == Spec => []CaptureInv
<1>1. Init => ScreenIInv /\ SlotIInv /\ SourceIInv
  BY ScreenInvInit, SlotInvInit, SourceInvInit DEF Init
<1>2. ScreenIInv /\ SlotIInv /\ SourceIInv /\ [Next \/ Rest]_vars => (ScreenIInv /\ SlotIInv /\ SourceIInv)'
  BY PageSteps, ScreenTypes, ScreenInvStep, SlotInvStep, SourceInvStep DEF ScreenIInv
<1>3. ScreenIInv /\ SlotIInv /\ SourceIInv => CaptureInv
  BY SourceInvIs DEF ScreenIInv, SlotIInv, SourceIInv, CaptureInv
<1> QED  BY <1>1, <1>2, <1>3, PTL DEF Spec

\* Every variable of the page keeps its type: the screen's preview, the slot, the source, the
\* avatar, and the scenes with their bounds on the scenes that are made and the takes.
THEOREM PageTypes == Spec => []TypeOK
<1>1. Init => ScreenIInv /\ SlotIInv /\ SourceIInv /\ SceneIInv /\ StudioKeeps
  BY ScreenInvInit, SlotInvInit, SourceInvInit, SceneInvInit, StudioStarts DEF Init
<1>2. ScreenIInv /\ SlotIInv /\ SourceIInv /\ SceneIInv /\ StudioKeeps /\ [Next \/ Rest]_vars =>
          (ScreenIInv /\ SlotIInv /\ SourceIInv /\ SceneIInv /\ StudioKeeps)'
  BY PageSteps, ScreenTypes, ScreenInvStep, SlotInvStep, SourceInvStep, SceneInvStep, StudioSteps DEF ScreenIInv
<1>3. ScreenIInv /\ SlotIInv /\ SourceIInv /\ SceneIInv /\ StudioKeeps => TypeOK
  BY SlotTypesAre, SourceTypesAre, SceneTypesAre, StudioTypesAre
  DEF ScreenIInv, SlotIInv, SourceIInv, SceneIInv, TypeOK
<1> QED  BY <1>1, <1>2, <1>3, PTL DEF Spec

\* However a change of the style, the render thread, a recording and a restart fall upon
\* each other: the page, the renderer and the settings agree when no setter runs, a frame
\* during which nothing changed is drawn as the page says, the thread never finds its
\* fan-out gone, and the fan-out feeds the take that has the avatar (AvatarSceneController).
THEOREM SceneCorrect == Spec => []SceneInv
<1>1. Init => SceneIInv  BY SceneInvInit DEF Init
<1>2. SceneIInv /\ [Next \/ Rest]_vars => SceneIInv'  BY PageSteps, SceneInvStep
<1> QED  BY <1>1, <1>2, SceneInvIs, PTL DEF Spec

\* However commands, the recording, a restart and the opening of a package overtake each other:
\* the page shows what the worker of its package has, a take records into the package it was
\* prepared for and keeps the scenes and changes that were put down when it began, and what
\* was recorded is in the editor (StudioWorkflowController, StudioWorkflowWorker and the
\* binding of the recording to them).
THEOREM StudioCorrect == Spec => []StudioInv
<1>1. Init => StudioKeeps  BY StudioStarts DEF Init
<1>2. StudioKeeps /\ [Next \/ Rest]_vars => StudioKeeps'  BY PageSteps, StudioSteps
<1> QED  BY <1>1, <1>2, StudioPromises, PTL DEF Spec
=============================================================================
