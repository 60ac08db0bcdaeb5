----------------------- MODULE MultiTrackRecordingProofs -----------------------
(***************************************************************************)
(* Proofs about MultiTrackRecording, for any number of tracks and callers: *)
(* TypeOK /\ ServiceInv is an inductive invariant; the safety properties   *)
(* that TLC checks on two tracks follow from it; and every step is a step  *)
(* of RecordingPromise or leaves alone what the promise sees.              *)
(***************************************************************************)
EXTENDS MultiTrackRecording, TLAPS

IInv == TypeOK /\ ServiceInv

-----------------------------------------------------------------------------
(* Type correctness. *)

\* What finishIfReadyLocked() leaves has the right types.
LEMMA FinishType ==
    ASSUME TypeOK, NEW s \in {"Idle", "Running", "Stopping", "Stopped"}, NEW done, NEW error,
           NEW asking \in SUBSET Callers, FinishIfReady(s, done, error, asking)
    PROVE  /\ state' \in {"Idle", "Running", "Stopping", "Stopped"}
           /\ finalResult' \in {"none", "ok", "error"}
           /\ waiting' \subseteq Callers /\ deliverTo' \subseteq Callers
           /\ observer' \in BOOLEAN /\ deliverObserver' \in BOOLEAN
    BY DEF FinishIfReady, TypeOK

\* Every action keeps the types.
LEMMA TypeStep ==
    TypeOK /\ StartOrder /\ [Next]_vars => TypeOK'
<1> SUFFICES ASSUME TypeOK /\ StartOrder, [Next]_vars
             PROVE  TypeOK'
  OBVIOUS
<1> USE ServiceAssumption DEF TypeOK, Tracks, vars, decisionVars, entryVars, recorderVars, starterVars, captureVars, workerVars,
        deliveryVars, replyVars
<1>1. CASE BeginStart  BY <1>1 DEF BeginStart
<1>2. CASE StartRecorder  BY <1>2 DEF StartRecorder
<1>3. CASE MarkStarted  BY <1>3 DEF MarkStarted, StartOrder
<1>4. CASE StartFails
 <2>1. FinishIfReady("Stopping", completed', "start", waiting)  BY <1>4 DEF StartFails
 <2>2. completed' \in [Tracks -> BOOLEAN] /\ starterStops' \subseteq Tracks  BY <1>4 DEF StartFails
 <2> HIDE DEF TypeOK
 <2>3. waiting \subseteq Callers  BY DEF TypeOK
 <2>4. QED  BY <1>4, <2>1, <2>2, <2>3, FinishType DEF StartFails, TypeOK
<1>5. ASSUME NEW t \in Tracks, UnwindStop(t) PROVE TypeOK'  BY <1>5 DEF UnwindStop, StopRecorder
<1>6. CASE UnwindReturns  BY <1>6 DEF UnwindReturns
<1>7. ASSUME NEW t \in Tracks, Route(t) PROVE TypeOK'  BY <1>7 DEF Route
<1>8. ASSUME NEW t \in Tracks, Submit(t) PROVE TypeOK'  BY <1>8 DEF Submit
<1>9. ASSUME NEW t \in Tracks, SubmitOverflows(t) PROVE TypeOK'  BY <1>9 DEF SubmitOverflows
<1>10. ASSUME NEW t \in Tracks, SubmitRefused(t) PROVE TypeOK'  BY <1>10 DEF SubmitRefused
<1>11. ASSUME NEW t \in Tracks, RefusalLatched(t) PROVE TypeOK'
  BY <1>11 DEF RefusalLatched, LatchFailure, FirstError, Active
<1>12. ASSUME NEW t \in Tracks, CaptureFails(t) PROVE TypeOK'
  BY <1>12 DEF CaptureFails, LatchFailure, FirstError, Active
<1>13. ASSUME NEW t \in Tracks, NEW u \in Tracks, CaptureStops(t, u) PROVE TypeOK'
  BY <1>13 DEF CaptureStops, StopRecorder
<1>14. ASSUME NEW t \in Tracks, CaptureReturns(t) PROVE TypeOK'  BY <1>14 DEF CaptureReturns
<1>15. ASSUME NEW t \in Tracks, RecorderFails(t) PROVE TypeOK'  BY <1>15 DEF RecorderFails
<1>16. ASSUME NEW t \in Tracks, RecorderStops(t) PROVE TypeOK'  BY <1>16 DEF RecorderStops
<1>17. ASSUME NEW t \in Tracks, TrackCompleted(t) PROVE TypeOK'
 <2>1. completed' \in [Tracks -> BOOLEAN] /\ summary' \in [Tracks -> BOOLEAN]
   BY <1>17 DEF TrackCompleted
 <2>2. PICK s \in {state, "Stopping"} : FinishIfReady(s, completed', terminalError', waiting)
   BY <1>17 DEF TrackCompleted
 <2>3. terminalError' \in {"none", "start", "refused", "capture", "track"}
       /\ worker' \in [Tracks -> {"idle", "reporting", "stopping", "exited"}]
   BY <1>17 DEF TrackCompleted, FirstError
 <2>4. workerStops' \in [Tracks -> SUBSET Tracks]  BY <1>17 DEF TrackCompleted, Active
 <2>5. s \in {"Idle", "Running", "Stopping", "Stopped"} /\ waiting \subseteq Callers  OBVIOUS
 <2> HIDE DEF TypeOK
 <2>6. QED  BY <1>17, <2>1, <2>2, <2>3, <2>4, <2>5, FinishType DEF TrackCompleted, TypeOK
<1>18. ASSUME NEW t \in Tracks, NEW u \in Tracks, WorkerStops(t, u) PROVE TypeOK'
  BY <1>18 DEF WorkerStops, StopRecorder
<1>19. ASSUME NEW t \in Tracks, WorkerReturns(t) PROVE TypeOK'  BY <1>19 DEF WorkerReturns
<1>20. ASSUME NEW c \in Callers, StopAsync(c) PROVE TypeOK'
 <2>1. CASE state = "Idle" \/ state = "Stopped"
  <3>1. answer' \in [Callers -> {"none", "unstarted", "ok", "error"}]  BY <1>20, <2>1 DEF StopAsync
  <3>2. UNCHANGED <<decisionVars, callerStops, deliveryVars>>  BY <1>20, <2>1 DEF StopAsync
  <3>3. QED  BY <1>20, <3>1, <3>2 DEF StopAsync
 <2>2. CASE state \in {"Running", "Stopping"}
  <3>1. FinishIfReady("Stopping", completed, terminalError, waiting \cup {c})
    BY <1>20, <2>2 DEF StopAsync
  <3>2. callerStops' \in [Callers -> SUBSET Tracks] /\ waiting \cup {c} \subseteq Callers
    BY ZenonT(40), <1>20, <2>2 DEF StopAsync, Active
  <3> HIDE DEF TypeOK
  <3>3. QED  BY <1>20, <2>2, <3>1, <3>2, FinishType DEF StopAsync, TypeOK
 <2>3. QED  BY <2>1, <2>2
<1>21. ASSUME NEW c \in Callers, NEW t \in Tracks, CallerStops(c, t) PROVE TypeOK'
  BY <1>21 DEF CallerStops, StopRecorder
<1>22. CASE Observe  BY <1>22 DEF Observe
<1>23. CASE DeliverObserver
 <2>1. observed' \in Nat  BY <1>23 DEF DeliverObserver
 <2>2. deliverObserver' = FALSE  BY <1>23, Zenon DEF DeliverObserver
 <2>3. QED  BY <1>23, <2>1, <2>2, ZenonT(40) DEF DeliverObserver
<1>24. ASSUME NEW c \in Callers, DeliverCompletion(c) PROVE TypeOK'  BY <1>24 DEF DeliverCompletion
<1>25. CASE UNCHANGED vars  BY <1>25 DEF vars
<1> QED
  BY <1>1, <1>2, <1>3, <1>4, <1>5, <1>6, <1>7, <1>8, <1>9, <1>10, <1>11, <1>12, <1>13, <1>14, <1>15, <1>16, <1>17, <1>18, <1>19, <1>20, <1>21, <1>22, <1>23, <1>24, <1>25
  DEF Next, Progress, Environment, Terminated, StarterStep, CaptureStep, WorkerStep, CallerStep

-----------------------------------------------------------------------------
(* The parts of ServiceInv, one lemma each. *)

\* How far start() has come decides which recorders run.
LEMMA StartOrderStep ==
    TypeOK /\ StartOrder /\ ReportsOnce /\ DecidedOnce /\ [Next]_vars => StartOrder'
<1> SUFFICES ASSUME TypeOK /\ StartOrder /\ ReportsOnce /\ DecidedOnce, [Next]_vars
             PROVE  StartOrder'
  OBVIOUS
<1> USE ServiceAssumption DEF TypeOK, Tracks, StartOrder, Starting, Unwinding, ReportsOnce, DecidedOnce,
        vars, decisionVars, entryVars, recorderVars, starterVars, captureVars, workerVars,
        deliveryVars, replyVars
<1>1. CASE BeginStart  BY <1>1 DEF BeginStart
<1>2. CASE StartRecorder  BY <1>2 DEF StartRecorder
<1>3. CASE MarkStarted  BY <1>3 DEF MarkStarted
<1>4. CASE StartFails  BY <1>4 DEF StartFails, FinishIfReady
<1>5. ASSUME NEW t \in Tracks, UnwindStop(t) PROVE StartOrder'  BY <1>5 DEF UnwindStop, StopRecorder
<1>6. CASE UnwindReturns  BY <1>6 DEF UnwindReturns
<1>7. ASSUME NEW t \in Tracks, Route(t) PROVE StartOrder'  BY <1>7 DEF Route
<1>8. ASSUME NEW t \in Tracks, Submit(t) PROVE StartOrder'  BY <1>8 DEF Submit
<1>9. ASSUME NEW t \in Tracks, SubmitOverflows(t) PROVE StartOrder'  BY <1>9 DEF SubmitOverflows
<1>10. ASSUME NEW t \in Tracks, SubmitRefused(t) PROVE StartOrder'  BY <1>10 DEF SubmitRefused
<1>11. ASSUME NEW t \in Tracks, RefusalLatched(t) PROVE StartOrder'
  BY <1>11 DEF RefusalLatched, LatchFailure, FirstError, Active
<1>12. ASSUME NEW t \in Tracks, CaptureFails(t) PROVE StartOrder'
  BY <1>12 DEF CaptureFails, LatchFailure, FirstError, Active
<1>13. ASSUME NEW t \in Tracks, NEW u \in Tracks, CaptureStops(t, u) PROVE StartOrder'
  BY <1>13 DEF CaptureStops, StopRecorder
<1>14. ASSUME NEW t \in Tracks, CaptureReturns(t) PROVE StartOrder'  BY <1>14 DEF CaptureReturns
<1>15. ASSUME NEW t \in Tracks, RecorderFails(t) PROVE StartOrder'  BY <1>15 DEF RecorderFails
<1>16. ASSUME NEW t \in Tracks, RecorderStops(t) PROVE StartOrder'  BY <1>16 DEF RecorderStops
<1>17. ASSUME NEW t \in Tracks, TrackCompleted(t) PROVE StartOrder'
  BY <1>17 DEF TrackCompleted, FinishIfReady, FirstError, Active
<1>18. ASSUME NEW t \in Tracks, NEW u \in Tracks, WorkerStops(t, u) PROVE StartOrder'
  BY <1>18 DEF WorkerStops, StopRecorder
<1>19. ASSUME NEW t \in Tracks, WorkerReturns(t) PROVE StartOrder'  BY <1>19 DEF WorkerReturns
<1>20. ASSUME NEW c \in Callers, StopAsync(c) PROVE StartOrder'
  BY <1>20 DEF StopAsync, FinishIfReady, Active
<1>21. ASSUME NEW c \in Callers, NEW t \in Tracks, CallerStops(c, t) PROVE StartOrder'
  BY <1>21 DEF CallerStops, StopRecorder
<1>22. CASE Observe  BY <1>22 DEF Observe
<1>23. CASE DeliverObserver  BY <1>23 DEF DeliverObserver
<1>24. ASSUME NEW c \in Callers, DeliverCompletion(c) PROVE StartOrder'
  BY <1>24 DEF DeliverCompletion
<1>25. CASE UNCHANGED vars  BY <1>25 DEF vars
<1> QED
  BY <1>1, <1>2, <1>3, <1>4, <1>5, <1>6, <1>7, <1>8, <1>9, <1>10, <1>11, <1>12, <1>13, <1>14, <1>15, <1>16, <1>17, <1>18, <1>19, <1>20, <1>21, <1>22, <1>23, <1>24, <1>25
  DEF Next, Progress, Environment, Terminated, StarterStep, CaptureStep, WorkerStep, CallerStep

\* A worker's report completes its entry, once.
LEMMA ReportsOnceStep ==
    TypeOK /\ StartOrder /\ ReportsOnce /\ [Next]_vars => ReportsOnce'
<1> SUFFICES ASSUME TypeOK /\ StartOrder /\ ReportsOnce, [Next]_vars
             PROVE  ReportsOnce'
  OBVIOUS
<1> USE ServiceAssumption DEF TypeOK, Tracks, StartOrder, Starting, Unwinding, ReportsOnce,
        vars, decisionVars, entryVars, recorderVars, starterVars, captureVars, workerVars,
        deliveryVars, replyVars
<1>1. CASE BeginStart  BY <1>1 DEF BeginStart
<1>2. CASE StartRecorder  BY <1>2 DEF StartRecorder
<1>3. CASE MarkStarted  BY <1>3 DEF MarkStarted
<1>4. CASE StartFails  BY <1>4 DEF StartFails, FinishIfReady
<1>5. ASSUME NEW t \in Tracks, UnwindStop(t) PROVE ReportsOnce'
  BY <1>5 DEF UnwindStop, StopRecorder
<1>6. CASE UnwindReturns  BY <1>6 DEF UnwindReturns
<1>7. ASSUME NEW t \in Tracks, Route(t) PROVE ReportsOnce'  BY <1>7 DEF Route
<1>8. ASSUME NEW t \in Tracks, Submit(t) PROVE ReportsOnce'  BY <1>8 DEF Submit
<1>9. ASSUME NEW t \in Tracks, SubmitOverflows(t) PROVE ReportsOnce'  BY <1>9 DEF SubmitOverflows
<1>10. ASSUME NEW t \in Tracks, SubmitRefused(t) PROVE ReportsOnce'  BY <1>10 DEF SubmitRefused
<1>11. ASSUME NEW t \in Tracks, RefusalLatched(t) PROVE ReportsOnce'
  BY <1>11 DEF RefusalLatched, LatchFailure, FirstError, Active
<1>12. ASSUME NEW t \in Tracks, CaptureFails(t) PROVE ReportsOnce'
  BY <1>12 DEF CaptureFails, LatchFailure, FirstError, Active
<1>13. ASSUME NEW t \in Tracks, NEW u \in Tracks, CaptureStops(t, u) PROVE ReportsOnce'
  BY <1>13 DEF CaptureStops, StopRecorder
<1>14. ASSUME NEW t \in Tracks, CaptureReturns(t) PROVE ReportsOnce'  BY <1>14 DEF CaptureReturns
<1>15. ASSUME NEW t \in Tracks, RecorderFails(t) PROVE ReportsOnce'  BY <1>15 DEF RecorderFails
<1>16. ASSUME NEW t \in Tracks, RecorderStops(t) PROVE ReportsOnce'  BY <1>16 DEF RecorderStops
<1>17. ASSUME NEW t \in Tracks, TrackCompleted(t) PROVE ReportsOnce'
  BY <1>17 DEF TrackCompleted, FirstError
<1>18. ASSUME NEW t \in Tracks, NEW u \in Tracks, WorkerStops(t, u) PROVE ReportsOnce'
  BY <1>18 DEF WorkerStops, StopRecorder
<1>19. ASSUME NEW t \in Tracks, WorkerReturns(t) PROVE ReportsOnce'  BY <1>19 DEF WorkerReturns
<1>20. ASSUME NEW c \in Callers, StopAsync(c) PROVE ReportsOnce'
  BY <1>20 DEF StopAsync, FinishIfReady, Active
<1>21. ASSUME NEW c \in Callers, NEW t \in Tracks, CallerStops(c, t) PROVE ReportsOnce'
  BY <1>21 DEF CallerStops, StopRecorder
<1>22. CASE Observe  BY <1>22 DEF Observe
<1>23. CASE DeliverObserver  BY <1>23 DEF DeliverObserver
<1>24. ASSUME NEW c \in Callers, DeliverCompletion(c) PROVE ReportsOnce'
  BY <1>24 DEF DeliverCompletion
<1>25. CASE UNCHANGED vars  BY <1>25 DEF vars
<1> QED
  BY <1>1, <1>2, <1>3, <1>4, <1>5, <1>6, <1>7, <1>8, <1>9, <1>10, <1>11, <1>12, <1>13, <1>14, <1>15, <1>16, <1>17, <1>18, <1>19, <1>20, <1>21, <1>22, <1>23, <1>24, <1>25
  DEF Next, Progress, Environment, Terminated, StarterStep, CaptureStep, WorkerStep, CallerStep

\* What is decided is decided once, and each client hears it once.
LEMMA DecidedOnceStep ==
    TypeOK /\ StartOrder /\ DecidedOnce /\ [Next]_vars => DecidedOnce'
<1> SUFFICES ASSUME TypeOK /\ StartOrder /\ DecidedOnce, [Next]_vars
             PROVE  DecidedOnce'
  OBVIOUS
<1> USE ServiceAssumption DEF TypeOK, Tracks, StartOrder, Starting, Unwinding, DecidedOnce,
        vars, decisionVars, entryVars, recorderVars, starterVars, captureVars, workerVars,
        deliveryVars, replyVars
<1>1. CASE BeginStart  BY <1>1 DEF BeginStart
<1>2. CASE StartRecorder  BY <1>2 DEF StartRecorder
<1>3. CASE MarkStarted  BY <1>3 DEF MarkStarted
<1>4. CASE StartFails  BY <1>4 DEF StartFails, FinishIfReady
<1>5. ASSUME NEW t \in Tracks, UnwindStop(t) PROVE DecidedOnce'
  BY <1>5 DEF UnwindStop, StopRecorder
<1>6. CASE UnwindReturns  BY <1>6 DEF UnwindReturns
<1>7. ASSUME NEW t \in Tracks, Route(t) PROVE DecidedOnce'  BY <1>7 DEF Route
<1>8. ASSUME NEW t \in Tracks, Submit(t) PROVE DecidedOnce'  BY <1>8 DEF Submit
<1>9. ASSUME NEW t \in Tracks, SubmitOverflows(t) PROVE DecidedOnce'  BY <1>9 DEF SubmitOverflows
<1>10. ASSUME NEW t \in Tracks, SubmitRefused(t) PROVE DecidedOnce'  BY <1>10 DEF SubmitRefused
<1>11. ASSUME NEW t \in Tracks, RefusalLatched(t) PROVE DecidedOnce'
  BY <1>11 DEF RefusalLatched, LatchFailure, FirstError, Active
<1>12. ASSUME NEW t \in Tracks, CaptureFails(t) PROVE DecidedOnce'
  BY <1>12 DEF CaptureFails, LatchFailure, FirstError, Active
<1>13. ASSUME NEW t \in Tracks, NEW u \in Tracks, CaptureStops(t, u) PROVE DecidedOnce'
  BY <1>13 DEF CaptureStops, StopRecorder
<1>14. ASSUME NEW t \in Tracks, CaptureReturns(t) PROVE DecidedOnce'  BY <1>14 DEF CaptureReturns
<1>15. ASSUME NEW t \in Tracks, RecorderFails(t) PROVE DecidedOnce'  BY <1>15 DEF RecorderFails
<1>16. ASSUME NEW t \in Tracks, RecorderStops(t) PROVE DecidedOnce'  BY <1>16 DEF RecorderStops
<1>17. ASSUME NEW t \in Tracks, TrackCompleted(t) PROVE DecidedOnce'
  BY <1>17 DEF TrackCompleted, FinishIfReady, FirstError, Active
<1>18. ASSUME NEW t \in Tracks, NEW u \in Tracks, WorkerStops(t, u) PROVE DecidedOnce'
  BY <1>18 DEF WorkerStops, StopRecorder
<1>19. ASSUME NEW t \in Tracks, WorkerReturns(t) PROVE DecidedOnce'  BY <1>19 DEF WorkerReturns
<1>20. ASSUME NEW c \in Callers, StopAsync(c) PROVE DecidedOnce'
 <2>1. CASE state \in {"Idle", "Stopped"}
  <3>1. UNCHANGED <<decisionVars, deliveryVars, registered, observed>>  BY <1>20, <2>1 DEF StopAsync
  <3>2. \A d \in Callers \ {c} : answer'[d] = answer[d]  BY <1>20, <2>1 DEF StopAsync
  <3>3. completed' = completed /\ c \notin waiting \cup deliverTo  BY <1>20, <2>1 DEF StopAsync
  <3>4. answer'[c] \in {"unstarted", finalResult}  BY <1>20, <2>1 DEF StopAsync
  <3>5. ASSUME NEW d \in Callers
        PROVE  /\ d \in waiting' \cup deliverTo' => answer'[d] = "none"
               /\ answer'[d] \in {"ok", "error"} => answer'[d] = finalResult'
   <4>1. CASE d = c  BY <4>1, <3>1, <3>3, <3>4
   <4>2. CASE d # c  BY <4>2, <3>1, <3>2, <3>3
   <4>3. QED  BY <4>1, <4>2
  <3>6. QED  BY <3>1, <3>3, <3>5
 <2>2. CASE state \in {"Running", "Stopping"} /\ \A t \in Tracks : completed[t]
   BY <1>20, <2>2 DEF StopAsync, FinishIfReady
 <2>3. CASE state \in {"Running", "Stopping"} /\ ~ \A t \in Tracks : completed[t]
   BY <1>20, <2>3 DEF StopAsync, FinishIfReady
 <2>4. QED  BY <2>1, <2>2, <2>3
<1>21. ASSUME NEW c \in Callers, NEW t \in Tracks, CallerStops(c, t) PROVE DecidedOnce'
  BY <1>21 DEF CallerStops, StopRecorder
<1>22. CASE Observe  BY <1>22 DEF Observe
<1>23. CASE DeliverObserver  BY <1>23 DEF DeliverObserver
<1>24. ASSUME NEW c \in Callers, DeliverCompletion(c) PROVE DecidedOnce'
  BY <1>24 DEF DeliverCompletion
<1>25. CASE UNCHANGED vars  BY <1>25 DEF vars
<1> QED
  BY <1>1, <1>2, <1>3, <1>4, <1>5, <1>6, <1>7, <1>8, <1>9, <1>10, <1>11, <1>12, <1>13, <1>14, <1>15, <1>16, <1>17, <1>18, <1>19, <1>20, <1>21, <1>22, <1>23, <1>24, <1>25
  DEF Next, Progress, Environment, Terminated, StarterStep, CaptureStep, WorkerStep, CallerStep

\* Success is decided only when no error is kept.
LEMMA OkStep ==
    TypeOK /\ StartOrder /\ ReportsOnce /\ DecidedOnce /\ OkMeansEveryTrack /\ [Next]_vars => OkMeansEveryTrack'
<1> SUFFICES ASSUME TypeOK /\ StartOrder /\ ReportsOnce /\ DecidedOnce /\ OkMeansEveryTrack, [Next]_vars
             PROVE  OkMeansEveryTrack'
  OBVIOUS
<1> USE ServiceAssumption DEF TypeOK, Tracks, StartOrder, Starting, Unwinding, ReportsOnce, DecidedOnce, OkMeansEveryTrack,
        vars, decisionVars, entryVars, recorderVars, starterVars, captureVars, workerVars,
        deliveryVars, replyVars
<1>1. CASE BeginStart  BY <1>1 DEF BeginStart
<1>2. CASE StartRecorder  BY <1>2 DEF StartRecorder
<1>3. CASE MarkStarted  BY <1>3 DEF MarkStarted
<1>4. CASE StartFails  BY <1>4 DEF StartFails, FinishIfReady
<1>5. ASSUME NEW t \in Tracks, UnwindStop(t) PROVE OkMeansEveryTrack'
  BY <1>5 DEF UnwindStop, StopRecorder
<1>6. CASE UnwindReturns  BY <1>6 DEF UnwindReturns
<1>7. ASSUME NEW t \in Tracks, Route(t) PROVE OkMeansEveryTrack'  BY <1>7 DEF Route
<1>8. ASSUME NEW t \in Tracks, Submit(t) PROVE OkMeansEveryTrack'  BY <1>8 DEF Submit
<1>9. ASSUME NEW t \in Tracks, SubmitOverflows(t) PROVE OkMeansEveryTrack'
  BY <1>9 DEF SubmitOverflows
<1>10. ASSUME NEW t \in Tracks, SubmitRefused(t) PROVE OkMeansEveryTrack'
  BY <1>10 DEF SubmitRefused
<1>11. ASSUME NEW t \in Tracks, RefusalLatched(t) PROVE OkMeansEveryTrack'
  BY <1>11 DEF RefusalLatched, LatchFailure, FirstError, Active
<1>12. ASSUME NEW t \in Tracks, CaptureFails(t) PROVE OkMeansEveryTrack'
  BY <1>12 DEF CaptureFails, LatchFailure, FirstError, Active
<1>13. ASSUME NEW t \in Tracks, NEW u \in Tracks, CaptureStops(t, u) PROVE OkMeansEveryTrack'
  BY <1>13 DEF CaptureStops, StopRecorder
<1>14. ASSUME NEW t \in Tracks, CaptureReturns(t) PROVE OkMeansEveryTrack'
  BY <1>14 DEF CaptureReturns
<1>15. ASSUME NEW t \in Tracks, RecorderFails(t) PROVE OkMeansEveryTrack'
  BY <1>15 DEF RecorderFails
<1>16. ASSUME NEW t \in Tracks, RecorderStops(t) PROVE OkMeansEveryTrack'
  BY <1>16 DEF RecorderStops
<1>17. ASSUME NEW t \in Tracks, TrackCompleted(t) PROVE OkMeansEveryTrack'
  BY <1>17 DEF TrackCompleted, FinishIfReady, FirstError, Active
<1>18. ASSUME NEW t \in Tracks, NEW u \in Tracks, WorkerStops(t, u) PROVE OkMeansEveryTrack'
  BY <1>18 DEF WorkerStops, StopRecorder
<1>19. ASSUME NEW t \in Tracks, WorkerReturns(t) PROVE OkMeansEveryTrack'
  BY <1>19 DEF WorkerReturns
<1>20. ASSUME NEW c \in Callers, StopAsync(c) PROVE OkMeansEveryTrack'
  BY <1>20 DEF StopAsync, FinishIfReady, Active
<1>21. ASSUME NEW c \in Callers, NEW t \in Tracks, CallerStops(c, t) PROVE OkMeansEveryTrack'
  BY <1>21 DEF CallerStops, StopRecorder
<1>22. CASE Observe  BY <1>22 DEF Observe
<1>23. CASE DeliverObserver  BY <1>23 DEF DeliverObserver
<1>24. ASSUME NEW c \in Callers, DeliverCompletion(c) PROVE OkMeansEveryTrack'
  BY <1>24 DEF DeliverCompletion
<1>25. CASE UNCHANGED vars  BY <1>25 DEF vars
<1> QED
  BY <1>1, <1>2, <1>3, <1>4, <1>5, <1>6, <1>7, <1>8, <1>9, <1>10, <1>11, <1>12, <1>13, <1>14, <1>15, <1>16, <1>17, <1>18, <1>19, <1>20, <1>21, <1>22, <1>23, <1>24, <1>25
  DEF Next, Progress, Environment, Terminated, StarterStep, CaptureStep, WorkerStep, CallerStep

\* Stopping recorder u leaves it not Running, and the others as they were.
LEMMA StoppedIsNotRunning ==
    ASSUME TypeOK, NEW u \in Tracks, StopRecorder(u), NEW x \in Tracks, recorder'[x] = "Running"
    PROVE  recorder[x] = "Running" /\ x # u
    BY DEF StopRecorder, TypeOK

\* Every running recorder is in the list that a decision to stop collects.
LEMMA RunningIsActive ==
    ASSUME TypeOK, StartOrder, ReportsOnce, state # "Idle", NEW x \in Tracks, recorder[x] = "Running"
    PROVE  completed[x] = FALSE /\ (starter # "mark" => x \in Active)
    BY DEF TypeOK, StartOrder, Starting, Unwinding, ReportsOnce, Active, Tracks

\* A decision to stop leaves every running recorder on a list, and a recorder
\* leaves a list only by being stopped.
LEMMA NoTrackForgottenStep ==
    TypeOK /\ StartOrder /\ ReportsOnce /\ NoTrackForgotten /\ [Next]_vars => NoTrackForgotten'
<1> SUFFICES ASSUME TypeOK, StartOrder, ReportsOnce, NoTrackForgotten, [Next]_vars,
                    state' \in {"Stopping", "Stopped"},
                    NEW x \in Tracks, recorder'[x] = "Running"
             PROVE  Targeted(x)'
  BY DEF NoTrackForgotten
<1> USE DEF entryVars, recorderVars, starterVars, captureVars, workerVars, deliveryVars,
            replyVars, decisionVars
<1>1. ASSUME UNCHANGED <<recorder, state>>,
             UNCHANGED <<starterStops, captureStops, workerStops, callerStops>>
      PROVE Targeted(x)'
  BY <1>1 DEF Targeted, NoTrackForgotten
<1>2. ASSUME NEW t \in Tracks, UnwindStop(t) PROVE Targeted(x)'
  BY <1>2, StoppedIsNotRunning DEF UnwindStop, NoTrackForgotten, Targeted
<1>3. ASSUME NEW t \in Tracks, NEW u \in Tracks, CaptureStops(t, u) PROVE Targeted(x)'
  BY <1>3, StoppedIsNotRunning DEF CaptureStops, NoTrackForgotten, Targeted, TypeOK
<1>4. ASSUME NEW t \in Tracks, NEW u \in Tracks, WorkerStops(t, u) PROVE Targeted(x)'
  BY <1>4, StoppedIsNotRunning DEF WorkerStops, NoTrackForgotten, Targeted, TypeOK
<1>5. ASSUME NEW c \in Callers, NEW t \in Tracks, CallerStops(c, t) PROVE Targeted(x)'
  BY <1>5, StoppedIsNotRunning DEF CallerStops, NoTrackForgotten, Targeted, TypeOK
<1>6. ASSUME NEW t \in Tracks, SubmitOverflows(t) \/ RecorderFails(t) \/ RecorderStops(t)
      PROVE  Targeted(x)'
  BY <1>6 DEF SubmitOverflows, RecorderFails, RecorderStops, NoTrackForgotten, TypeOK, Targeted
<1>7. ASSUME NEW t \in Tracks, NEW error, LatchFailure(t, error), starter = "returned"
      PROVE  Targeted(x)'
 <2>1. recorder[x] = "Running"  BY <1>7 DEF LatchFailure
 <2>2. CASE state = "Running"
  <3>1. x \in Active  BY <1>7, <2>1, <2>2, RunningIsActive
  <3>2. QED  BY <1>7, <2>2, <3>1 DEF LatchFailure, Targeted, TypeOK
 <2>3. CASE state # "Running"  BY <1>7, <2>1, <2>3 DEF LatchFailure, Targeted, NoTrackForgotten
 <2>4. QED  BY <2>2, <2>3
<1>8. ASSUME NEW t \in Tracks, TrackCompleted(t) PROVE Targeted(x)'
 <2>1. recorder[x] = "Running" /\ starter # "mark" /\ x # t /\ state # "Idle"
   BY <1>8 DEF TrackCompleted, StartOrder, Starting, ReportsOnce, TypeOK
 <2>2. CASE state = "Running"
  <3>1. x \in Active /\ completed[x] = FALSE  BY <2>1, <2>2, RunningIsActive
  <3>2. CASE fault[t]  BY <1>8, <2>1, <2>2, <3>1, <3>2 DEF TrackCompleted, Targeted, TypeOK
  <3>3. CASE ~fault[t]  BY <1>8, <2>1, <2>2, <3>1, <3>3 DEF TrackCompleted, FinishIfReady
  <3>4. QED  BY <3>2, <3>3
 <2>3. CASE state # "Running"
   BY <1>8, <2>1, <2>3 DEF NoTrackForgotten, TypeOK, TrackCompleted, Targeted
 <2>4. QED  BY <2>2, <2>3
<1>9. ASSUME NEW c \in Callers, StopAsync(c) PROVE Targeted(x)'
 <2>1. recorder[x] = "Running" /\ UNCHANGED <<starterStops, captureStops, workerStops>>
   BY <1>9 DEF StopAsync
 <2>2. CASE state \in {"Idle", "Stopped"}
   BY <1>9, <2>1, <2>2 DEF StopAsync, NoTrackForgotten, Targeted
 <2>3. CASE state \in {"Running", "Stopping"}
   BY <1>9, <2>1, <2>3, RunningIsActive DEF StopAsync, Targeted, TypeOK
 <2>4. QED  BY <2>2, <2>3 DEF TypeOK
<1>10. CASE StartFails  BY <1>10 DEF StartFails, StartOrder, TypeOK, Tracks, Targeted
<1>11. CASE BeginStart \/ StartRecorder
  BY <1>11 DEF BeginStart, StartRecorder, StartOrder, Starting, TypeOK
<1>12. CASE MarkStarted \/ UnwindReturns \/ Observe \/ DeliverObserver
  BY <1>12, <1>1 DEF MarkStarted, UnwindReturns, Observe, DeliverObserver
<1>13. ASSUME NEW t \in Tracks,
              Route(t) \/ Submit(t) \/ SubmitRefused(t) \/ CaptureReturns(t) \/ WorkerReturns(t)
       PROVE  Targeted(x)'
  BY <1>13, <1>1 DEF Route, Submit, SubmitRefused, CaptureReturns, WorkerReturns
<1>14. ASSUME NEW c \in Callers, DeliverCompletion(c) PROVE Targeted(x)'
  BY <1>14, <1>1 DEF DeliverCompletion
<1>15. CASE UNCHANGED vars  BY <1>15, <1>1 DEF vars
<1>16. ASSUME NEW t \in Tracks, RefusalLatched(t) \/ CaptureFails(t) PROVE Targeted(x)'
  BY <1>16, <1>7 DEF RefusalLatched, CaptureFails, StartOrder
<1> QED
  BY <1>2, <1>3, <1>4, <1>5, <1>6, <1>8, <1>9, <1>10, <1>11, <1>12, <1>13, <1>14, <1>15, <1>16
  DEF Next, Progress, Environment, Terminated, StarterStep, CaptureStep, WorkerStep, CallerStep

-----------------------------------------------------------------------------
(* The invariant, and what follows from it. *)

\* The service starts consistent.
LEMMA InitInv == Init => IInv
<1> SUFFICES ASSUME Init PROVE IInv  OBVIOUS
<1> USE ServiceAssumption DEF Init, Tracks
<1>1. TypeOK
 <2>1. position \in 1 .. TrackCount + 1 /\ observed \in Nat  OBVIOUS
 <2>2. QED  BY <2>1, Zenon DEF TypeOK
<1>2. StartOrder  BY DEF StartOrder, Starting, Unwinding
<1>3. ReportsOnce  BY DEF ReportsOnce, Unwinding
<1>4. DecidedOnce  BY DEF DecidedOnce
<1>5. OkMeansEveryTrack /\ NoTrackForgotten  BY DEF OkMeansEveryTrack, NoTrackForgotten
<1> QED  BY <1>1, <1>2, <1>3, <1>4, <1>5 DEF IInv, ServiceInv

\* Every step of every thread keeps it so.
LEMMA StepInv == IInv /\ [Next]_vars => IInv'
    BY TypeStep, StartOrderStep, ReportsOnceStep, DecidedOnceStep, OkStep, NoTrackForgottenStep
    DEF IInv, ServiceInv

\* The inductive invariant holds in every reachable state.
THEOREM Invariance == Spec => []IInv
<1>1. Init => IInv  BY InitInv
<1>2. IInv /\ [Next]_vars => IInv'  BY StepInv
<1> QED  BY <1>1, <1>2, PTL DEF Spec

\* Every variable keeps its type, for any number of tracks and callers.
THEOREM TypeCorrect == Spec => []TypeOK
<1>1. IInv => TypeOK  BY DEF IInv
<1> QED  BY <1>1, Invariance, PTL

\* The parts the invariant is made of, as TLC checks them.
THEOREM ServiceConsistent == Spec => []ServiceInv
<1>1. IInv => ServiceInv  BY DEF IInv
<1> QED  BY <1>1, Invariance, PTL

\* A completed entry has a recorder that never ran, or that has stopped.
LEMMA CompletedIsNotLive ==
    ASSUME TypeOK, StartOrder, ReportsOnce, NEW t \in Tracks, completed[t]
    PROVE  recorder[t] \in {"Idle", "Stopped"}
  BY DEF ReportsOnce, StartOrder, Unwinding, TypeOK, Tracks

LEMMA NothingLive == IInv => StoppedMeansNothingLive
    BY CompletedIsNotLive DEF IInv, ServiceInv, StoppedMeansNothingLive, Live, DecidedOnce

LEMMA NothingLivePrime == IInv' => StoppedMeansNothingLive'
    BY NothingLive, PTL

\* Stopped means that no recorder is writing: finishRun() reads a complete
\* session.
THEOREM StoppedIsSafe == Spec => []StoppedMeansNothingLive
    BY Invariance, NothingLive, PTL

\* A success covers every source.
THEOREM OkIsComplete == Spec => []OkMeansEveryTrack
<1>1. IInv => OkMeansEveryTrack  BY DEF IInv, ServiceInv
<1> QED  BY <1>1, Invariance, PTL

\* No running recorder falls between the lists that threads collect under the
\* mutex and work off after it.
THEOREM NothingForgotten == Spec => []NoTrackForgotten
<1>1. IInv => NoTrackForgotten  BY DEF IInv, ServiceInv
<1> QED  BY <1>1, Invariance, PTL

\* Everybody hears the same result, the observer at most once.
THEOREM VerdictIsOne == Spec => []OneVerdict
<1>1. IInv => OneVerdict
 <2> SUFFICES ASSUME IInv PROVE OneVerdict  OBVIOUS
 <2>1. observed <= 1 /\ (finalResult = "none" => observed = 0)  BY DEF IInv, ServiceInv, DecidedOnce
 <2>2. ASSUME NEW c \in Callers, answer[c] \notin {"none", "unstarted"}
       PROVE  answer[c] = finalResult
   BY <2>2 DEF IInv, TypeOK, ServiceInv, DecidedOnce
 <2>3. QED  BY <2>1, <2>2 DEF OneVerdict
<1> QED  BY <1>1, Invariance, PTL

\* What one step does to the first error and to a final result.
KeepsFirst ==
    /\ terminalError # "none" => terminalError' = terminalError
    /\ finalResult # "none" => finalResult' = finalResult

LEMMA StepKeepsFirst == IInv /\ [Next]_vars => KeepsFirst
<1> SUFFICES ASSUME IInv, [Next]_vars PROVE KeepsFirst  OBVIOUS
<1> USE DEF KeepsFirst
<1>1. StartOrder /\ DecidedOnce  BY DEF IInv, ServiceInv
<1>2. CASE StartFails  BY <1>1, <1>2 DEF StartFails, StartOrder, Starting, DecidedOnce
<1>3. ASSUME NEW t \in Tracks, RefusalLatched(t) \/ CaptureFails(t) PROVE KeepsFirst
  BY <1>3 DEF RefusalLatched, CaptureFails, LatchFailure, FirstError
<1>4. ASSUME NEW t \in Tracks, TrackCompleted(t) PROVE KeepsFirst
  BY <1>1, <1>4 DEF TrackCompleted, FinishIfReady, FirstError, DecidedOnce
<1>5. ASSUME NEW c \in Callers, StopAsync(c) PROVE KeepsFirst
  BY <1>1, <1>5 DEF StopAsync, FinishIfReady, DecidedOnce, decisionVars
<1>6. CASE BeginStart \/ Observe  BY <1>6 DEF BeginStart, Observe
<1>7. CASE StartRecorder \/ MarkStarted \/ UnwindReturns \/ DeliverObserver
  BY <1>7 DEF StartRecorder, MarkStarted, UnwindReturns, DeliverObserver, decisionVars
<1>8. ASSUME NEW t \in Tracks, NEW u \in Tracks,
             UnwindStop(t) \/ CaptureStops(t, u) \/ WorkerStops(t, u)
      PROVE  KeepsFirst
  BY <1>8 DEF UnwindStop, CaptureStops, WorkerStops, decisionVars
<1>9. ASSUME NEW t \in Tracks,
             Route(t) \/ Submit(t) \/ SubmitOverflows(t) \/ SubmitRefused(t) \/ CaptureReturns(t)
      PROVE  KeepsFirst
  BY <1>9 DEF Route, Submit, SubmitOverflows, SubmitRefused, CaptureReturns, decisionVars
<1>10. ASSUME NEW t \in Tracks, RecorderFails(t) \/ RecorderStops(t) \/ WorkerReturns(t)
       PROVE  KeepsFirst
  BY <1>10 DEF RecorderFails, RecorderStops, WorkerReturns, decisionVars
<1>11. ASSUME NEW c \in Callers, NEW t \in Tracks, CallerStops(c, t) PROVE KeepsFirst
  BY <1>11 DEF CallerStops, decisionVars
<1>12. ASSUME NEW c \in Callers, DeliverCompletion(c) PROVE KeepsFirst
  BY <1>12 DEF DeliverCompletion, decisionVars
<1>13. CASE UNCHANGED vars  BY <1>13 DEF vars, decisionVars
<1> QED
  BY <1>2, <1>3, <1>4, <1>5, <1>6, <1>7, <1>8, <1>9, <1>10, <1>11, <1>12, <1>13
  DEF Next, Progress, Environment, Terminated, StarterStep, CaptureStep, WorkerStep, CallerStep

\* The first failure stays the diagnostic, and a final result stays final.
THEOREM FirstFailureStays == Spec => FirstFailureKept
<1>1. IInv /\ [Next]_vars => [KeepsFirst]_vars  BY StepKeepsFirst
<1> QED  BY <1>1, Invariance, PTL DEF Spec, FirstFailureKept, KeepsFirst

-----------------------------------------------------------------------------
(* The service carries out a RecordingPromise. *)

\* What the promise sees of a step: who has been told, and each track's status.
SameReplies == Told' = Told
SameTracks == \A s \in Tracks : TrackStatus(s)' = TrackStatus(s)

LEMMA Stutter ==
    ASSUME UNCHANGED <<state, finalResult, Told>>, SameTracks
    PROVE  UNCHANGED Promise!vars
    BY DEF Promise!vars, SameTracks

LEMMA TrackMoves ==
    ASSUME NEW t \in Tracks, NEW how, TrackStatus(t)' = how,
           \A s \in Tracks \ {t} : TrackStatus(s)' = TrackStatus(s)
    PROVE  [s \in Tracks |-> TrackStatus(s)]' = [[s \in Tracks |-> TrackStatus(s)] EXCEPT ![t] = how]
    OBVIOUS

LEMMA Closes ==
    ASSUME TypeOK, StoppedMeansNothingLive, UNCHANGED <<state, finalResult, Told>>,
           NEW t \in Tracks, recorder[t] \in {"Running", "Stopping"},
           recorder' = [recorder EXCEPT ![t] = "Stopped"],
           \A s \in Tracks \ {t} : fault'[s] = fault[s]
    PROVE  Promise!Next
<1> DEFINE how == TrackStatus(t)'
<1>1. how \in {"finished", "failed"}  BY DEF TrackStatus, TypeOK
<1>2. \A s \in Tracks \ {t} : TrackStatus(s)' = TrackStatus(s)  BY DEF TrackStatus, TypeOK
<1>3. [s \in Tracks |-> TrackStatus(s)]' = [[s \in Tracks |-> TrackStatus(s)] EXCEPT ![t] = how]
  BY <1>2, TrackMoves
<1>4. [s \in Tracks |-> TrackStatus(s)][t] = "open"  BY DEF TrackStatus
<1>5. PhaseOf[state] # "closed"  BY DEF PhaseOf, StoppedMeansNothingLive, Live, TypeOK
<1>6. Promise!CloseTrack(t, how)  BY <1>3, <1>4, <1>5 DEF Promise!CloseTrack
<1>7. QED  BY <1>1, <1>6 DEF Promise!Next

\* A critical section that ends with finishIfReadyLocked() decides, begins to
\* close, or changes nothing the promise sees.
LEMMA Finishes ==
    ASSUME TypeOK, TypeOK', state \in {"Running", "Stopping"},
           SameReplies, SameTracks, NEW error, NEW asking, NEW s \in {state, "Stopping"},
           FinishIfReady(s, completed', error, asking), finalResult = "none",
           state' = "Stopped" => /\ \A t \in Tracks : TrackStatus(t) # "open"
                                 /\ error = "none" => \A t \in Tracks : TrackStatus(t) = "finished"
    PROVE  [Promise!Next]_(Promise!vars)
  BY Stutter DEF FinishIfReady, PhaseOf, SameTracks, Promise!Decide, SameReplies, Promise!Next,
    Promise!BeginClosing

\* A completion or the observer is called, once, after the end.
LEMMA Tells ==
    ASSUME state = "Stopped", UNCHANGED <<state, finalResult>>, SameTracks,
           NEW c \in Callers \cup {"observer"}, c \notin Told, Told' = Told \cup {c}
    PROVE  Promise!Next
  BY DEF PhaseOf, Promise!Tell, SameTracks, Promise!Next

LEMMA StopKeepsTracks ==
    ASSUME TypeOK, NEW u \in Tracks, StopRecorder(u), UNCHANGED fault
    PROVE  SameTracks
    BY DEF StopRecorder, SameTracks, TrackStatus, TypeOK

\* When the last entry is completed no track is open, and all of them finished
\* unless an error is kept.
LEMMA FinishedWhenOk ==
    ASSUME IInv', state' = "Stopped", UNCHANGED <<recorder, fault>>
    PROVE  /\ \A u \in Tracks : TrackStatus(u) # "open"
           /\ terminalError' = "none" => \A u \in Tracks : TrackStatus(u) = "finished"
<1>1. Live' = {} /\ \A u \in Tracks : completed'[u]
  BY NothingLivePrime DEF StoppedMeansNothingLive, IInv, ServiceInv, DecidedOnce
<1>2. \A u \in Tracks : TrackStatus(u) # "open"  BY <1>1 DEF Live, TrackStatus, IInv, TypeOK
<1>3. ASSUME terminalError' = "none", NEW u \in Tracks PROVE TrackStatus(u) = "finished"
  BY <1>1, <1>3 DEF TrackStatus, IInv, TypeOK, ServiceInv, ReportsOnce, StartOrder, Unwinding
<1>4. QED  BY <1>2, <1>3

LEMMA StepKeepsPromise ==
    ASSUME IInv, IInv', [Next]_vars
    PROVE  [Promise!Next]_(Promise!vars)
<1> USE DEF entryVars, recorderVars, starterVars, captureVars, workerVars, deliveryVars,
            replyVars, decisionVars
<1> DEFINE Kept == [Promise!Next]_(Promise!vars)
<1>1. TypeOK /\ StartOrder /\ ReportsOnce /\ DecidedOnce /\ OkMeansEveryTrack
      /\ StoppedMeansNothingLive /\ TypeOK'
  BY NothingLive DEF IInv, ServiceInv
<1>2. ASSUME UNCHANGED <<state, finalResult, answer, observed, recorder, fault>> PROVE Kept
  BY <1>2, Stutter DEF SameTracks, TrackStatus, Told
<1>3. CASE BeginStart
  BY <1>3 DEF BeginStart, SameTracks, SameReplies, TrackStatus, Told, PhaseOf, Promise!Begin,
    Promise!Next
<1>4. CASE StartRecorder
 <2>1. PICK p \in Tracks : p = position  BY <1>4, <1>1 DEF StartRecorder, TypeOK, Tracks
 <2>2. state = "Running" /\ recorder[p] = "Idle"
   BY <1>4, <1>1, <2>1 DEF StartRecorder, StartOrder, Starting
 <2>3. TrackStatus(p) = "unopened" /\ TrackStatus(p)' = "open"
       /\ \A s \in Tracks \ {p} : TrackStatus(s)' = TrackStatus(s)
   BY <1>1, <1>4, <2>1, <2>2 DEF StartRecorder, TrackStatus, TypeOK
 <2>4. [s \in Tracks |-> TrackStatus(s)]' = [[s \in Tracks |-> TrackStatus(s)] EXCEPT ![p] = "open"]
   BY <2>3, TrackMoves
 <2>5. Promise!OpenTrack(p)
   BY <1>4, <2>2, <2>3, <2>4 DEF StartRecorder, Promise!OpenTrack, PhaseOf, Told
 <2>6. QED  BY <2>5 DEF Promise!Next
<1>5. CASE StartFails
 <2>1. SameTracks /\ SameReplies  BY <1>5 DEF StartFails, SameTracks, SameReplies, TrackStatus, Told
 <2>2. state = "Running" /\ finalResult = "none"
   BY <1>1, <1>5 DEF StartFails, StartOrder, DecidedOnce, Starting, TypeOK
 <2>3. ASSUME state' = "Stopped" PROVE \A t \in Tracks : TrackStatus(t) # "open"
   BY <1>5, <2>3, FinishedWhenOk DEF StartFails
 <2>4. QED  BY <1>1, <1>5, <2>1, <2>2, <2>3, Finishes DEF StartFails
<1>6. ASSUME NEW t \in Tracks, TrackCompleted(t) PROVE Kept
 <2>1. SameTracks /\ SameReplies
   BY <1>6 DEF TrackCompleted, SameTracks, SameReplies, TrackStatus, Told
 <2>2. state # "Idle"  BY <1>6, <1>1 DEF TrackCompleted, StartOrder, Starting
 <2>3. PICK s \in {state, "Stopping"} :
          /\ FinishIfReady(s, completed', terminalError', waiting)
          /\ s # state => state = "Running"
   BY <1>6 DEF TrackCompleted
 <2>4. CASE state = "Stopped"  BY <1>2, <1>6, <2>2, <2>3, <2>4 DEF TrackCompleted, FinishIfReady
 <2>5. CASE state # "Stopped"
  <3>1. state \in {"Running", "Stopping"} /\ finalResult = "none"
    BY <1>1, <2>2, <2>5 DEF TypeOK, DecidedOnce
  <3>2. ASSUME state' = "Stopped"
        PROVE  /\ \A u \in Tracks : TrackStatus(u) # "open"
               /\ terminalError' = "none" => \A u \in Tracks : TrackStatus(u) = "finished"
    BY <1>1, <1>6, <2>3, <3>1, <3>2, FinishedWhenOk DEF TrackCompleted, FinishIfReady
  <3>3. QED  BY <1>1, <2>1, <2>3, <3>1, <3>2, Finishes
 <2>6. QED  BY <2>4, <2>5
<1>7. ASSUME NEW c \in Callers, StopAsync(c) PROVE Kept
 <2>1. SameTracks  BY <1>7 DEF StopAsync, SameTracks, TrackStatus
 <2>2. CASE state = "Idle"  BY <1>7, <2>1, <2>2, <1>1, Stutter DEF StopAsync, Told, TypeOK
 <2>3. CASE state = "Stopped"
   BY <1>1, <1>7, <2>3, ServiceAssumption, <2>1, Tells DEF DecidedOnce, TypeOK, StopAsync, Told
 <2>4. CASE state \in {"Running", "Stopping"}
  <3>1. FinishIfReady("Stopping", completed', terminalError, waiting \cup {c}) /\ SameReplies
    BY <1>7, <2>4 DEF StopAsync, SameReplies, Told
  <3>2. finalResult = "none"  BY <1>1, <2>4 DEF DecidedOnce
  <3>3. ASSUME state' = "Stopped"
        PROVE  /\ \A u \in Tracks : TrackStatus(u) # "open"
               /\ terminalError = "none" => \A u \in Tracks : TrackStatus(u) = "finished"
    BY <1>1, <1>7, <2>4, <3>1, <3>2, <3>3, FinishedWhenOk DEF StopAsync, FinishIfReady
  <3>4. QED  BY <1>1, <2>1, <2>4, <3>1, <3>2, <3>3, Finishes
 <2>5. QED  BY <1>1, <2>2, <2>3, <2>4 DEF TypeOK
<1>8. ASSUME NEW t \in Tracks, RecorderFails(t) \/ RecorderStops(t) PROVE Kept
  BY <1>8, <1>1, Closes DEF RecorderFails, RecorderStops, Told, TypeOK
<1>9. ASSUME NEW t \in Tracks, SubmitOverflows(t) PROVE Kept
  BY <1>1, <1>9, Stutter DEF SubmitOverflows, SameTracks, TrackStatus, TypeOK, Told
<1>10. ASSUME NEW u \in Tracks, StopRecorder(u),
             UNCHANGED <<fault, state, finalResult, answer, observed>>
      PROVE  Kept
  BY <1>1, <1>10, StopKeepsTracks, Stutter DEF Told
<1>11. ASSUME NEW t \in Tracks, NEW u \in Tracks,
             UnwindStop(u) \/ CaptureStops(t, u) \/ WorkerStops(t, u)
      PROVE  Kept
  BY <1>10, <1>11 DEF UnwindStop, CaptureStops, WorkerStops
<1>12. ASSUME NEW c \in Callers, NEW u \in Tracks, CallerStops(c, u) PROVE Kept
  BY <1>10, <1>12 DEF CallerStops
<1>13. ASSUME NEW t \in Tracks, NEW error, LatchFailure(t, error) PROVE Kept
  BY <1>13, Stutter DEF LatchFailure, SameTracks, SameReplies, TrackStatus, Told, PhaseOf,
    Promise!BeginClosing, Promise!Next
<1>14. ASSUME NEW t \in Tracks, RefusalLatched(t) \/ CaptureFails(t) PROVE Kept
  BY <1>13, <1>14 DEF RefusalLatched, CaptureFails
<1>15. CASE Observe
  BY <1>15, <1>1, ServiceAssumption, Tells, Stutter DEF Observe, SameTracks, TrackStatus, Told,
    DecidedOnce
<1>16. CASE DeliverObserver
  BY <1>1, <1>16, ServiceAssumption, Tells DEF DeliverObserver, DecidedOnce, SameTracks,
    TrackStatus, Told
<1>17. ASSUME NEW c \in Callers, DeliverCompletion(c) PROVE Kept
  BY <1>1, <1>17, ServiceAssumption, Tells DEF DeliverCompletion, DecidedOnce, SameTracks,
    TrackStatus, TypeOK, Told
<1>18. CASE MarkStarted \/ UnwindReturns  BY <1>18, <1>2 DEF MarkStarted, UnwindReturns
<1>19. ASSUME NEW t \in Tracks,
              Route(t) \/ Submit(t) \/ SubmitRefused(t) \/ CaptureReturns(t) \/ WorkerReturns(t)
       PROVE  Kept
  BY <1>19, <1>2 DEF Route, Submit, SubmitRefused, CaptureReturns, WorkerReturns
<1>20. CASE UNCHANGED vars  BY <1>20, <1>2 DEF vars
<1> QED
  BY <1>3, <1>4, <1>5, <1>6, <1>7, <1>8, <1>9, <1>11, <1>12, <1>14, <1>15, <1>16, <1>17, <1>18,
<1>19, <1>20
  DEF Next, Progress, Environment, Terminated, StarterStep, CaptureStep, WorkerStep, CallerStep

\* The recording begins as the promise does.
LEMMA InitKeepsPromise == Init => Promise!Init
    BY ServiceAssumption DEF Init, Promise!Init, PhaseOf, TrackStatus, Told

\* For any number of tracks and callers, every behaviour of the service is one
\* that RecordingPromise allows.
THEOREM Refinement == Spec => KeepsPromise
<1>1. Init => Promise!Init  BY InitKeepsPromise
<1>2. IInv /\ IInv' /\ [Next]_vars => [Promise!Next]_(Promise!vars)  BY StepKeepsPromise
<1> QED  BY <1>1, <1>2, Invariance, PTL DEF Spec, KeepsPromise, Promise!Spec
=============================================================================
