-------------------------- MODULE LiveRecordingProofs --------------------------
(***************************************************************************)
(* Takes, for any number of sessions and packages: no answer is lost or    *)
(* misread however the user, the project worker and the engine interleave, *)
(* what was recorded is kept, and an open project stays open.  And the     *)
(* face, for any number of datagrams, sessions, workers and frames: the    *)
(* pose is the newest, nothing of a session bleeds into the next, the      *)
(* telemetry is whole, no worker is forgotten, a baseline is robust.       *)
(***************************************************************************)
EXTENDS MCLiveRecording, FiniteSetTheorems, SequenceTheorems, TLAPS, WellFoundedInduction

-----------------------------------------------------------------------------
(* Queues *)

LEMMA Appended ==
    ASSUME NEW S, NEW q \in Seq(S), NEW e \in S
    PROVE  /\ Append(q, e) \in Seq(S) /\ Range(Append(q, e)) = Range(q) \cup {e}
           /\ Append(q, e) # <<>> /\ Len(Append(q, e)) = Len(q) + 1 /\ Len(q) \in Nat
           /\ \A i \in 1 .. Len(q) : Append(q, e)[i] = q[i]
           /\ Append(q, e)[Len(q) + 1] = e
<1>1. /\ Append(q, e) \in Seq(S) /\ Len(Append(q, e)) = Len(q) + 1 /\ Len(q) \in Nat
      /\ \A i \in 1 .. Len(q) : Append(q, e)[i] = q[i]
      /\ Append(q, e)[Len(q) + 1] = e
  OBVIOUS
<1>2. \A s \in Seq(S) : DOMAIN s = 1 .. Len(s)  OBVIOUS
<1>3. Range(Append(q, e)) = Range(q) \cup {e}  BY <1>1, <1>2 DEF Range
<1>4. Append(q, e) # <<>>  BY <1>1
<1> QED  BY <1>1, <1>3, <1>4

LEMMA AppendedHas ==
    ASSUME NEW S, NEW q \in Seq(S), NEW e \in S, NEW K
    PROVE  /\ Has(Append(q, e), K) <=> Has(q, K) \/ e.kind \in K
           /\ OnlyOne(q, K) /\ (e.kind \in K => ~Has(q, K)) => OnlyOne(Append(q, e), K)
<1> DEFINE a == Append(q, e)
<1>1. /\ Len(a) = Len(q) + 1 /\ Len(q) \in Nat
      /\ \A i \in 1 .. Len(q) : a[i] = q[i]
      /\ a[Len(q) + 1] = e
  BY Appended
<1> HIDE DEF a
<1>2. Has(a, K) <=> Has(q, K) \/ e.kind \in K
 <2>1. ASSUME NEW i \in 1 .. Len(a), a[i].kind \in K PROVE Has(q, K) \/ e.kind \in K
   BY <1>1, <2>1 DEF Has
 <2>2. ASSUME NEW i \in 1 .. Len(q), q[i].kind \in K PROVE Has(a, K)  BY <1>1, <2>2 DEF Has
 <2>3. Len(a) \in 1 .. Len(a) /\ a[Len(a)] = e  BY <1>1
 <2>4. e.kind \in K => Has(a, K)  BY <2>3 DEF Has
 <2> QED  BY <2>1, <2>2, <2>4 DEF Has
<1>3. OnlyOne(q, K) /\ (e.kind \in K => ~Has(q, K)) => OnlyOne(a, K)
 <2> SUFFICES ASSUME OnlyOne(q, K), e.kind \in K => ~Has(q, K), NEW i \in 1 .. Len(a), NEW j \in 1 .. Len(a),
                     a[i].kind \in K, a[j].kind \in K
              PROVE  i = j
   BY DEF OnlyOne
 <2> QED  BY <1>1 DEF OnlyOne, Has
<1> QED  BY <1>2, <1>3 DEF a

LEMMA Taken ==
    ASSUME NEW S, NEW q \in Seq(S), q # <<>>
    PROVE  /\ Head(q) = q[1] /\ Head(q) \in S /\ Head(q) \in Range(q) /\ Len(q) \in Nat \ {0}
           /\ Tail(q) \in Seq(S) /\ Range(Tail(q)) \subseteq Range(q) /\ Len(Tail(q)) = Len(q) - 1
           /\ \A i \in 1 .. Len(Tail(q)) : i + 1 \in 1 .. Len(q) /\ Tail(q)[i] = q[i + 1]
  BY DEF Range

LEMMA TakenHas ==
    ASSUME NEW S, NEW q \in Seq(S), q # <<>>, NEW K
    PROVE  /\ Has(Tail(q), K) => Has(q, K)
           /\ Head(q).kind \in K => Has(q, K)
           /\ OnlyOne(q, K) => OnlyOne(Tail(q), K) /\ (Head(q).kind \in K => ~Has(Tail(q), K))
<1> DEFINE t == Tail(q)
<1>1. /\ Head(q) = q[1] /\ Len(q) \in Nat \ {0} /\ Len(t) = Len(q) - 1 /\ 1 \in 1 .. Len(q)
      /\ \A i \in 1 .. Len(t) : i + 1 \in 1 .. Len(q) /\ t[i] = q[i + 1]
  BY Taken
<1> HIDE DEF t
<1>2. Has(t, K) => Has(q, K)  BY <1>1 DEF Has
<1>3. Head(q).kind \in K => Has(q, K)  BY <1>1 DEF Has
<1>4. ASSUME OnlyOne(q, K), NEW i \in 1 .. Len(t), NEW j \in 1 .. Len(t), t[i].kind \in K, t[j].kind \in K
      PROVE  i = j
 <2>1. i + 1 = j + 1  BY <1>1, <1>4 DEF OnlyOne
 <2> QED  BY <2>1
<1>5. ASSUME OnlyOne(q, K), NEW i \in 1 .. Len(t), t[i].kind \in K, Head(q).kind \in K
      PROVE  FALSE
 <2>1. i + 1 = 1  BY <1>1, <1>5 DEF OnlyOne
 <2> QED  BY <2>1
<1> QED  BY <1>2, <1>3, <1>4, <1>5 DEF t, OnlyOne, Has

-----------------------------------------------------------------------------
(* Jobs and events *)

SettleJobs == {"begin", "complete", "abort", "recover"}
SettleAnswers == {"begun", "completed", "aborted", "recovered"}

LEMMA JobIs ==
    ASSUME NEW j \in JobsSent
    PROVE  /\ j.kind \in SettleJobs \cup {"scan", "open"}
           /\ j.kind # "scan" => j.package \in Packages
           /\ j.kind \in SettleJobs => j.session \in Sessions
BY DEF JobsSent, SettleJobs

LEMMA JobMade ==
    /\ \A k \in SettleJobs, p \in Packages, s \in Sessions :
           /\ Job(k, p, s) \in JobsSent
           /\ Job(k, p, s).kind = k /\ Job(k, p, s).package = p /\ Job(k, p, s).session = s
    /\ \A p \in Packages : Job("open", p, None) \in JobsSent /\ Job("open", p, None).kind = "open"
    /\ Job("scan", None, None) \in JobsSent /\ Job("scan", None, None).kind = "scan"
BY DEF JobsSent, SettleJobs, Job

LEMMA EventIs ==
    ASSUME NEW e \in EventsPosted
    PROVE  /\ e.kind \in SettleAnswers \cup {"scanned", "opened", "finished"}
           /\ e.kind = "opened" => e.package \in Packages
           /\ e.kind \in {"opened", "scanned"} => e.sessions \subseteq Sessions
           /\ e.kind = "finished" => e.ok
           /\ e.ok \in BOOLEAN
BY DEF EventsPosted, SettleAnswers

LEMMA AnswerIs ==
    ASSUME NEW e \in EventsPosted, e.kind \in SettleAnswers \cup {"finished"}
    PROVE  \E s \in Sessions : e.sessions = {s}
  BY DEF EventsPosted, SettleAnswers

LEMMA OpenedMade ==
    ASSUME NEW p \in Packages, NEW found \in SUBSET Sessions, NEW ok \in BOOLEAN
    PROVE  /\ Event("opened", p, found, ok) \in EventsPosted
           /\ Event("opened", p, found, ok).kind = "opened" /\ Event("opened", p, found, ok).sessions = found
BY DEF EventsPosted, Event

LEMMA ScannedMade ==
    ASSUME NEW found \in SUBSET Sessions
    PROVE  /\ Event("scanned", None, found, TRUE) \in EventsPosted
           /\ Event("scanned", None, found, TRUE).kind = "scanned"
           /\ Event("scanned", None, found, TRUE).sessions = found
BY DEF EventsPosted, Event

LEMMA FinishedMade ==
    ASSUME NEW s \in Sessions
    PROVE  /\ Event("finished", None, {s}, TRUE) \in EventsPosted
           /\ Event("finished", None, {s}, TRUE).kind = "finished"
           /\ Event("finished", None, {s}, TRUE).sessions = {s}
BY DEF EventsPosted, Event

IInv == TypeOK /\ TakesInv

LEMMA InitHolds == Init => IInv
<1> SUFFICES ASSUME Init PROVE IInv  OBVIOUS
<1> USE RecordingAssumption DEF RecordingAssumption, Init
<1>1. jobs \in Seq(JobsSent) /\ Len(jobs) = 1 /\ jobs[1].kind = "scan"  BY JobMade
<1>2. inbox \in Seq(EventsPosted) /\ Len(inbox) = 0 /\ Range(inbox) = {}  BY DEF Range
<1>3. Range(jobs) = {jobs[1]}  BY DEF Range
<1>4. TypeOK  BY <1>1, <1>2 DEF TypeOK, CallsMade
<1>5. OneUnderWay
  BY <1>1, <1>2 DEF OneUnderWay, OnlyOne, Has, Calls, TakeTravels, TakeJobs, PageJobs, PageAnswers
<1>6. TakeKeeps /\ AnswersAreExpected
  BY <1>1, <1>2, <1>3 DEF TakeKeeps, Calls, TakeJobs, AnswersAreExpected
<1>7. PageKeeps  BY <1>1, <1>2 DEF PageKeeps, Has
<1>8. EngineIsFree /\ RecordedIsKept /\ AnnouncedIsDurable
  BY DEF EngineIsFree, RecordedIsKept, AnnouncedIsDurable
<1> QED  BY <1>4, <1>5, <1>6, <1>7, <1>8 DEF IInv, TakesInv

-----------------------------------------------------------------------------
(* The worker answers the job at the head of its queue *)

AnswerTo == [scan |-> "scanned", open |-> "opened", begin |-> "begun", complete |-> "completed",
             abort |-> "aborted", recover |-> "recovered"]
RowAfter == [begin |-> "RECORDING", complete |-> "COMPLETED", abort |-> "ABORTED", recover |-> "RECOVERED"]
RowBefore == [complete |-> {"RECORDING"}, abort |-> {"RECORDING"}, recover |-> {"RECORDING", "RECOVERED"}]

\* What a step of the worker does: j is the job it runs, e its answer.
WorkerDoes(j, e) ==
    /\ jobs # <<>> /\ j = Head(jobs) /\ j \in JobsSent /\ e \in EventsPosted
    /\ jobs' = Tail(jobs) /\ inbox' = Append(inbox, e)
    /\ e.kind = AnswerTo[j.kind]
    /\ j.kind \in SettleJobs => e.sessions = {j.session}
    /\ j.kind \notin SettleJobs => (\A s \in e.sessions : home[s] # None)
    /\ \A s \in Sessions : home[s] # None => home'[s] # None
    /\ \A s \in Sessions :
           \/ state'[s] = state[s]
           \/ /\ j.kind \in SettleJobs /\ s = j.session /\ e.ok
              /\ j.kind # "begin" => state[s] \in RowBefore[j.kind]
    /\ j.kind \in SettleJobs /\ e.ok => state'[j.session] = RowAfter[j.kind]
    /\ UNCHANGED <<take, takeVars, calling, projectVars, engineVars>>

LEMMA WorkerStep ==
    ASSUME TypeOK, ProjectWorker
    PROVE  /\ \E j \in JobsSent, e \in EventsPosted : WorkerDoes(j, e)
           /\ state' \in [Sessions -> {"none", "RECORDING", "COMPLETED", "ABORTED", "RECOVERED"}]
           /\ home' \in [Sessions -> Packages \cup {None}]
<1> USE RecordingAssumption DEF RecordingAssumption, WorkerLeaves
<1> DEFINE j == Head(jobs)
           RowTypes == /\ state' \in [Sessions -> {"none", "RECORDING", "COMPLETED", "ABORTED", "RECOVERED"}]
                       /\ home' \in [Sessions -> Packages \cup {None}]
<1>t. /\ jobs \in Seq(JobsSent) /\ home \in [Sessions -> Packages \cup {None}]
      /\ state \in [Sessions -> {"none", "RECORDING", "COMPLETED", "ABORTED", "RECOVERED"}]
  BY DEF TypeOK
<1>0. jobs # <<>>
  BY DEF ProjectWorker, ScanRecent, WorkerOpens, WorkerBegins, WorkerCompletes, WorkerAborts,
   WorkerRecovers, Settle, RunJob
<1>j. j \in JobsSent  BY <1>t, <1>0
<1> HIDE DEF j
<1> USE <1>t, <1>j
<1>f. ASSUME NEW ps, ps \subseteq Packages
      PROVE  Interrupted(ps) \in SUBSET Sessions /\ \A s \in Interrupted(ps) : home[s] # None
  BY <1>f DEF Interrupted
<1>1. CASE ScanRecent
 <2> DEFINE e == Event("scanned", None, Interrupted(Packages), TRUE)
 <2>0. j.kind = "scan"  BY <1>1 DEF ScanRecent, RunJob, j
 <2>1. e \in EventsPosted /\ e.kind = "scanned" /\ \A s \in e.sessions : home[s] # None
  <3>1. Interrupted(Packages) \in SUBSET Sessions /\ \A s \in Interrupted(Packages) : home[s] # None
    BY <1>f
  <3> QED  BY <3>1, ScannedMade, Zenon
 <2>2. jobs' = Tail(jobs) /\ inbox' = Append(inbox, e) /\ UNCHANGED rowVars
       /\ UNCHANGED <<takeVars, calling, projectVars, engineVars>>
   BY <1>1 DEF ScanRecent, RunJob
 <2> HIDE DEF e
 <2>3. WorkerDoes(j, e)  BY <1>0, <2>0, <2>1, <2>2 DEF WorkerDoes, AnswerTo, SettleJobs, rowVars, j
 <2> QED  BY <2>1, <2>2, <2>3 DEF rowVars
<1>2. CASE WorkerOpens
 <2>1. j.kind = "open" /\ j.package \in Packages  BY <1>2, JobIs DEF WorkerOpens, RunJob, j
 <2>2. PICK ok \in BOOLEAN : inbox' = Append(inbox, Event("opened", j.package, Interrupted({j.package}), ok))
   BY <1>2 DEF WorkerOpens, Outcomes, j
 <2> DEFINE e == Event("opened", j.package, Interrupted({j.package}), ok)
 <2>3. e \in EventsPosted /\ e.kind = "opened" /\ \A s \in e.sessions : home[s] # None
   BY <1>f, <2>1, OpenedMade
 <2>4. jobs' = Tail(jobs) /\ inbox' = Append(inbox, e) /\ UNCHANGED rowVars
       /\ UNCHANGED <<takeVars, calling, projectVars, engineVars>>
   BY <1>2, <2>2 DEF WorkerOpens, RunJob
 <2> HIDE DEF e
 <2>5. WorkerDoes(j, e)  BY <1>0, <2>1, <2>3, <2>4 DEF WorkerDoes, AnswerTo, SettleJobs, rowVars, j
 <2> QED  BY <2>3, <2>4, <2>5 DEF rowVars
<1>3. CASE WorkerBegins
 <2>1. j.kind = "begin" /\ j.package \in Packages /\ j.session \in Sessions
   BY <1>3, JobIs DEF WorkerBegins, RunJob, SettleJobs, j
 <2>2. PICK ok \in BOOLEAN :
           /\ inbox' = Append(inbox, Event("begun", j.package, {j.session}, ok))
           /\ IF ok THEN /\ state' = [state EXCEPT ![j.session] = "RECORDING"]
                         /\ home' = [home EXCEPT ![j.session] = j.package]
                    ELSE UNCHANGED <<state, home>>
   BY <1>3 DEF WorkerBegins, Outcomes, Answer, j
 <2> DEFINE e == Event("begun", j.package, {j.session}, ok)
 <2>3. e \in EventsPosted /\ e.kind = "begun" /\ e.sessions = {j.session} /\ e.ok = ok
   BY <2>1 DEF SettleAnswers, Event, EventsPosted
 <2>4. jobs' = Tail(jobs) /\ inbox' = Append(inbox, e)
       /\ UNCHANGED <<take, takeVars, calling, projectVars, engineVars>>
   BY <1>3, <2>2 DEF WorkerBegins, RunJob
 <2> HIDE DEF e
 <2>5. RowTypes  BY <2>1, <2>2
 <2>6. WorkerDoes(j, e)
   BY <1>0, <2>1, <2>2, <2>3, <2>4 DEF WorkerDoes, AnswerTo, RowAfter, SettleJobs, j
 <2> QED  BY <2>3, <2>5, <2>6
<1>4. ASSUME NEW kind \in {"complete", "abort", "recover"}, Settle(kind, RowBefore[kind], RowAfter[kind], AnswerTo[kind])
      PROVE  (\E jj \in JobsSent, e \in EventsPosted : WorkerDoes(jj, e)) /\ RowTypes
 <2>1. j.kind = kind /\ j.package \in Packages /\ j.session \in Sessions /\ kind \in SettleJobs
   BY <1>4, JobIs DEF Settle, RunJob, SettleJobs, j
 <2>2. PICK ok \in BOOLEAN :
           /\ inbox' = Append(inbox, Event(AnswerTo[kind], j.package, {j.session}, ok))
           /\ state' = IF ok THEN [state EXCEPT ![j.session] = RowAfter[kind]] ELSE state
           /\ ok => state[j.session] \in RowBefore[kind]
   BY <1>4 DEF Settle, Outcomes, RowIs, Answer, j
 <2> DEFINE e == Event(AnswerTo[kind], j.package, {j.session}, ok)
 <2>3. e \in EventsPosted /\ e.kind = AnswerTo[kind] /\ e.sessions = {j.session} /\ e.ok = ok
  <3>1. AnswerTo[kind] \in SettleAnswers  BY DEF SettleAnswers, AnswerTo
  <3> QED  BY <2>1, <3>1 DEF Event, EventsPosted, SettleAnswers
 <2>4. jobs' = Tail(jobs) /\ inbox' = Append(inbox, e) /\ home' = home
       /\ UNCHANGED <<take, takeVars, calling, projectVars, engineVars>>
   BY <1>4, <2>2 DEF Settle, RunJob
 <2> HIDE DEF e
 <2>5. RowAfter[kind] \in {"COMPLETED", "ABORTED", "RECOVERED"}  BY DEF RowAfter
 <2>6. RowTypes  BY <2>1, <2>2, <2>4, <2>5
 <2>7. WorkerDoes(j, e)  BY <1>0, <2>1, <2>2, <2>3, <2>4, <2>5 DEF WorkerDoes, j
 <2> QED  BY <2>3, <2>6, <2>7
<1> QED
  BY <1>1, <1>2, <1>3, <1>4 DEF ProjectWorker, WorkerCompletes, WorkerAborts, WorkerRecovers,
   RowBefore, RowAfter, AnswerTo

-----------------------------------------------------------------------------
(* Types *)

\* A recording command always finds a project open: it is a job of that package.
LEMMA Persists ==
    ASSUME TypeOK, TakeKeeps, op # "Idle", NEW kind \in SettleJobs, NEW answer, NEW rest,
           Persist(kind, answer, pending, rest)
    PROVE  /\ pending \in Sessions /\ project \in Packages
           /\ jobs' = Append(jobs, Job(kind, project, pending)) /\ inbox' = rest
           /\ Job(kind, project, pending) \in JobsSent
BY JobMade DEF Persist, TypeOK, TakeKeeps

LEMMA RecordingTypes == IInv /\ [Next]_vars => TypeOK'
<1> SUFFICES ASSUME IInv, [Next]_vars PROVE TypeOK'  OBVIOUS
<1> USE RecordingAssumption DEF RecordingAssumption, takeVars, projectVars, engineVars, rowVars, GuiFree
<1>i. TypeOK /\ TakeKeeps /\ PageKeeps  BY DEF IInv, TakesInv
<1>t. /\ jobs \in Seq(JobsSent) /\ inbox \in Seq(EventsPosted) /\ <<>> \in CallsMade
      /\ \A p \in Packages : <<"opened", p>> \in CallsMade
      /\ \A what \in {"prepare", "committed", "aborted"}, s \in Sessions : <<what, s>> \in CallsMade
  BY <1>i DEF TypeOK, CallsMade
<1>r. ASSUME NEW kind, Receive(kind)
      PROVE  /\ inbox' = Tail(inbox) /\ inbox' \in Seq(EventsPosted) /\ Received \in EventsPosted
             /\ Received.kind = kind /\ Received \in Range(inbox) /\ calling = <<>>
  BY <1>t, <1>r, Taken DEF Receive, IsNext, Received
<1>1. CASE ProjectWorker
 <2>1. PICK j \in JobsSent, e \in EventsPosted : WorkerDoes(j, e)  BY <1>1, <1>i, WorkerStep
 <2>2. jobs' \in Seq(JobsSent) /\ inbox' \in Seq(EventsPosted)  BY <1>t, <2>1 DEF WorkerDoes
 <2> QED  BY <1>1, <1>i, <2>1, <2>2, WorkerStep DEF WorkerDoes, TypeOK
<1>2. ASSUME NEW p \in Packages, OpenProject(p) PROVE TypeOK'
  BY <1>2, <1>t, JobMade, <1>i DEF OpenProject, TypeOK
<1>3. ASSUME NEW s \in Sessions, RecoverSession(s) PROVE TypeOK'
  BY <1>3, <1>i, JobMade, <1>t DEF RecoverSession, TypeOK, PageKeeps, SettleJobs
<1>4. CASE LeaveRecoveryForLater \/ (\E to \in {"Home", "Studio"} : Navigate(to))
  BY <1>4, <1>i DEF LeaveRecoveryForLater, Navigate, TypeOK
<1>5. CASE HandleScanned  BY <1>5, <1>r, EventIs, <1>i DEF HandleScanned, TypeOK
<1>6. CASE HandleOpened
 <2>1. Received.sessions \subseteq Sessions /\ Received.package \in Packages
   BY <1>6, <1>r, EventIs DEF HandleOpened
 <2>2. calling' \in CallsMade  BY <1>6, <1>i, <1>t, <2>1 DEF HandleOpened, Opened, TypeOK
 <2>3. inbox' \in Seq(EventsPosted)  BY <1>6, <1>r DEF HandleOpened
 <2> QED  BY ZenonT(40), <1>6, <1>i, <2>1, <2>2, <2>3 DEF HandleOpened, Opened, TypeOK
<1>7. CASE HandleRecovered
 <2>1. chosen \in Packages
   BY <1>7, <1>t, TakenHas, <1>i DEF HandleRecovered, Receive, IsNext, PageKeeps, TypeOK
 <2>2. calling' \in CallsMade  BY <1>7, <1>i, <1>t, <2>1 DEF HandleRecovered, Opened, TypeOK
 <2>3. inbox' \in Seq(EventsPosted)  BY <1>7, <1>r DEF HandleRecovered
 <2> QED  BY ZenonT(40), <1>7, <1>i, <2>1, <2>2, <2>3 DEF HandleRecovered, Opened, TypeOK
<1>8. ASSUME NEW s \in Sessions, StartRecording(s) PROVE TypeOK'
 <2>1. project \in Packages  BY <1>8, <1>i DEF StartRecording, TypeOK
 <2>2. jobs' = Append(jobs, Job("begin", project, s)) /\ inbox' = inbox
   BY <1>8, <2>1 DEF StartRecording, Persist
 <2>3. jobs' \in Seq(JobsSent)  BY <1>t, <2>1, <2>2, JobMade DEF SettleJobs
 <2> QED  BY <1>8, <1>i, <2>2, <2>3 DEF StartRecording, TypeOK
<1>9. CASE StopRecording \/ EngineFails  BY <1>9, <1>i DEF StopRecording, EngineFails, TypeOK
<1>10. CASE HandleBegun  BY <1>10, <1>i, <1>t, <1>r DEF HandleBegun, TypeOK, TakeKeeps
<1>11. CASE HandleFinished
 <2>1. inbox # <<>> /\ Tail(inbox) \in Seq(EventsPosted) /\ Received \in EventsPosted /\ Received.kind = "finished"
   BY <1>11, <1>t, Taken DEF HandleFinished, IsNext, Received
 <2>2. Received.ok = TRUE  BY <2>1 DEF EventsPosted
 <2>3. CASE op \notin {"Recording", "Finalizing"} \/ ~IsFor(pending)
  <3>1. inbox' = Tail(inbox) /\ UNCHANGED <<op, finishing, jobs>>  BY <1>11, <2>3 DEF HandleFinished
  <3> QED  BY <1>11, <1>i, <2>1, <3>1 DEF HandleFinished, TypeOK
 <2>4. CASE op \in {"Recording", "Finalizing"} /\ IsFor(pending)
  <3>1. Persist("complete", "completed", pending, Tail(inbox)) /\ finishing' = TRUE /\ op' = "Finalizing"
    BY <1>11, <2>2, <2>4 DEF HandleFinished
  <3>2. inbox' = Tail(inbox) /\ jobs' \in Seq(JobsSent)
   <4>1. op # "Idle" /\ "complete" \in SettleJobs  BY <2>4 DEF SettleJobs
   <4>2. /\ jobs' = Append(jobs, Job("complete", project, pending)) /\ inbox' = Tail(inbox)
         /\ Job("complete", project, pending) \in JobsSent
     BY <1>i, <3>1, <4>1, Persists
   <4> QED  BY <1>t, <4>2
  <3> QED  BY <1>11, <1>i, <2>1, <3>1, <3>2 DEF HandleFinished, TypeOK
 <2> QED  BY <2>3, <2>4
<1>12. CASE HandleCompleted \/ HandleAborted
 <2>1. calling = <<>>  BY <1>12 DEF HandleCompleted, HandleAborted, Receive, IsNext
 <2>2. IsFor(pending) => pending \in Sessions
  <3>1. ASSUME Receive("completed") \/ Receive("aborted") PROVE \E s \in Sessions : Received.sessions = {s}
    BY <1>r, <3>1, AnswerIs DEF SettleAnswers
  <3> QED  BY <1>12, <3>1 DEF HandleCompleted, HandleAborted, IsFor
 <2>3. calling' \in CallsMade
   BY <1>12, <1>t, <2>1, <2>2 DEF HandleCompleted, HandleAborted, EndTake
 <2>4. inbox' \in Seq(EventsPosted)  BY <1>12, <1>r DEF HandleCompleted, HandleAborted
 <2> QED  BY ZenonT(40), <1>12, <1>i, <2>3, <2>4 DEF HandleCompleted, HandleAborted, EndTake, TypeOK
<1>13. CASE EngineFinishes
 <2>1. run \in Sessions
   BY <1>13, <1>i DEF EngineFinishes, IInv, TakesInv, EngineIsFree, TypeOK, TakeKeeps
 <2>2. inbox' \in Seq(EventsPosted)
  <3> DEFINE e == Event("finished", None, {run}, TRUE)
  <3>1. e \in EventsPosted  BY <2>1 DEF Event, EventsPosted
  <3>2. inbox' = Append(inbox, e)  BY <1>13 DEF EngineFinishes
  <3> HIDE DEF e
  <3> QED  BY <1>t, <3>1, <3>2
 <2> QED  BY ZenonT(40), <1>13, <1>i, <2>2 DEF EngineFinishes, TypeOK
<1>14. CASE ListenerHears  BY <1>14, <1>i, <1>t DEF ListenerHears, TakeKeeps, Calls, TypeOK
<1>15. ASSUME NEW ok \in BOOLEAN, ListenerPrepared(ok) PROVE TypeOK'
 <2>1. asked = pending /\ op = "Preparing" /\ pending \in Sessions
   BY <1>15, <1>i DEF ListenerPrepared, TakeKeeps, TypeOK
 <2>2. /\ jobs' \in Seq(JobsSent) /\ inbox' \in Seq(EventsPosted)
       /\ op' \in {"Preparing", "Recording"} /\ take' \in [Sessions -> {"none", "asked", "ran"}]
       /\ engine' \in {engine, "running"} /\ run' \in {run, pending}
  <3>1. CASE AbortStarted(inbox)
    BY SMTT(40), <1>i, <1>t, <2>1, <3>1, Persists DEF AbortStarted, SettleJobs, TypeOK
  <3>2. CASE StartEngine(inbox) /\ ~AbortStarted(inbox)
    BY <1>i, <1>t, <2>1, <3>2 DEF StartEngine, TypeOK
  <3> QED  BY <1>15, <2>1, <3>1, <3>2 DEF ListenerPrepared, FinishPreparation
 <2> QED  BY <1>15, <1>i, <2>1, <2>2 DEF ListenerPrepared, FinishPreparation, TypeOK
<1>16. CASE UNCHANGED vars  BY <1>16, <1>i DEF vars, TypeOK
<1> QED
  BY <1>1, <1>2, <1>3, <1>4, <1>5, <1>6, <1>7, <1>8, <1>9, <1>10, <1>11, <1>12, <1>13, <1>14, <1>15,
   <1>16 DEF Next, ProjectUser, TakeUser, EventLoop, Listener

-----------------------------------------------------------------------------
(* One thing under way.  K are the jobs and L the answers of a kind of work. *)

Travels(K, L) == Has(jobs, K) \/ Has(inbox, L)
Single(K, L) == OnlyOne(jobs, K) /\ OnlyOne(inbox, L) /\ (Has(jobs, K) => ~Has(inbox, L))

LEMMA WorkerMoves ==
    ASSUME TypeOK, NEW K, NEW L, Single(K, L),
           NEW j, NEW e, WorkerDoes(j, e), j.kind \in K <=> e.kind \in L
    PROVE  Single(K, L)' /\ (Travels(K, L)' => Travels(K, L)) /\ (j.kind \in K => Has(jobs, K))
  BY TakenHas, AppendedHas DEF TypeOK, WorkerDoes, Single, Travels

LEMMA EventTaken ==
    ASSUME TypeOK, NEW K, NEW L, Single(K, L), inbox # <<>>, inbox' = Tail(inbox), jobs' = jobs
    PROVE  /\ Single(K, L)' /\ (Travels(K, L)' => Travels(K, L))
           /\ Head(inbox).kind \in L => Has(inbox, L) /\ ~Travels(K, L)'
  BY TakenHas DEF TypeOK, Single, Travels

LEMMA JobIssued ==
    ASSUME TypeOK, NEW K, NEW L, Single(K, L), NEW j \in JobsSent, j.kind \in K => ~Travels(K, L),
           jobs' = Append(jobs, j), inbox' = inbox
    PROVE  Single(K, L)' /\ (Travels(K, L)' <=> Travels(K, L) \/ j.kind \in K)
  BY AppendedHas DEF TypeOK, Single, Travels

LEMMA KindsAre ==
    /\ TakeAnswers = {"begun", "aborted", "finished", "completed"}
    /\ TakeJobs = {"begin", "complete", "abort"} /\ PageJobs = {"open", "recover"}
    /\ PageAnswers = {"opened", "recovered"}
    /\ \A k \in SettleJobs \cup {"scan", "open"} :
           /\ k \in TakeJobs <=> AnswerTo[k] \in TakeAnswers
           /\ k \in PageJobs <=> AnswerTo[k] \in PageAnswers
BY DEF TakeAnswers, Expects, TakeJobs, PageJobs, PageAnswers, SettleJobs, AnswerTo

TakeSingle == Single(TakeJobs, TakeAnswers)
PageSingle == Single(PageJobs, PageAnswers)
PageTravels == Travels(PageJobs, PageAnswers)

LEMMA UnderWayParts ==
    /\ OneUnderWay <=>
           /\ TakeSingle /\ PageSingle /\ (PageTravels => busy)
           /\ TakeTravels => asked = None /\ ~Calls({"prepare"}) /\ engine \in {"idle", "stopped"}
           /\ Calls({"prepare"}) => asked = None
    /\ OneUnderWay' <=>
           /\ TakeSingle' /\ PageSingle' /\ (PageTravels' => busy')
           /\ TakeTravels' => asked' = None /\ ~Calls({"prepare"})' /\ engine' \in {"idle", "stopped"}
           /\ Calls({"prepare"})' => asked' = None
    /\ TakeTravels <=> Travels(TakeJobs, TakeAnswers)
    /\ TakeTravels' <=> Travels(TakeJobs, TakeAnswers)'
BY DEF OneUnderWay, TakeSingle, PageSingle, PageTravels, Single, Travels, TakeTravels

\* Between two takes nothing of a take is under way.
LEMMA IdleIsQuiet ==
    ASSUME IInv, op = "Idle"
    PROVE  ~TakeTravels /\ asked = None /\ ~Calls({"prepare"}) /\ engine \in {"idle", "stopped"}
<1>1. TypeOK /\ TakeKeeps /\ AnswersAreExpected /\ EngineIsFree  BY DEF IInv, TakesInv
<1>2. asked = None /\ ~Calls({"prepare"}) /\ engine \in {"idle", "stopped"}
  BY <1>1 DEF TakeKeeps, EngineIsFree
<1>3. ASSUME NEW i \in 1 .. Len(jobs), jobs[i].kind \in TakeJobs PROVE FALSE
  BY <1>1, <1>3 DEF TypeOK, Range, TakeKeeps
<1>4. ASSUME NEW i \in 1 .. Len(inbox), inbox[i].kind \in TakeAnswers PROVE FALSE
  BY <1>1, <1>4 DEF TypeOK, Range, AnswersAreExpected, TakeAnswers, Expects
<1> QED  BY <1>2, <1>3, <1>4 DEF TakeTravels, Has

\* A handler takes the event at the head, and no job or event of its kind is left.
LEMMA Hears ==
    ASSUME IInv, NEW kind, Receive(kind), jobs' = jobs
    PROVE  /\ TakeSingle' /\ PageSingle' /\ (TakeTravels' => TakeTravels) /\ (PageTravels' => PageTravels)
           /\ kind \in TakeAnswers => TakeTravels /\ ~TakeTravels'
           /\ kind \in PageAnswers => PageTravels /\ ~PageTravels'
           /\ inbox # <<>> /\ Head(inbox) = Received /\ Received.kind = kind /\ calling = <<>>
  BY UnderWayParts, EventTaken DEF IInv, Receive, IsNext, GuiFree, Received, TakesInv, TakeSingle,
    Travels, PageSingle, PageTravels

LEMMA OneUnderWayStep == IInv /\ [Next]_vars => OneUnderWay'
<1> SUFFICES ASSUME IInv, [Next]_vars PROVE OneUnderWay'  OBVIOUS
<1> USE DEF takeVars, projectVars, engineVars, rowVars, GuiFree
<1> DEFINE Quiet == asked' = None /\ ~Calls({"prepare"})' /\ engine' \in {"idle", "stopped"}
<1>i. /\ TypeOK /\ TakeKeeps /\ EngineIsFree /\ TakeSingle /\ PageSingle /\ (PageTravels => busy)
      /\ TakeTravels => asked = None /\ ~Calls({"prepare"}) /\ engine \in {"idle", "stopped"}
      /\ Calls({"prepare"}) => asked = None
  BY UnderWayParts DEF IInv, TakesInv
<1>s. ASSUME UNCHANGED <<jobs, inbox>>
      PROVE  TakeSingle' /\ PageSingle' /\ (PageTravels' <=> PageTravels) /\ (TakeTravels' <=> TakeTravels)
  BY <1>i, <1>s DEF TakeSingle, PageSingle, PageTravels, Single, Travels, TakeTravels
<1>q. ASSUME TakeSingle', PageSingle', PageTravels' => busy', TakeTravels' => Quiet, Calls({"prepare"})' => asked' = None
      PROVE  OneUnderWay'
  BY <1>q, UnderWayParts
<1>1. CASE ProjectWorker
 <2>1. PICK j \in JobsSent, e \in EventsPosted : WorkerDoes(j, e)  BY <1>1, <1>i, WorkerStep
 <2>2. (j.kind \in TakeJobs <=> e.kind \in TakeAnswers) /\ (j.kind \in PageJobs <=> e.kind \in PageAnswers)
   BY <2>1, JobIs, KindsAre DEF WorkerDoes
 <2>3. TakeSingle' /\ (TakeTravels' => TakeTravels)
   BY <1>i, <2>1, <2>2, WorkerMoves, UnderWayParts DEF TakeSingle
 <2>4. PageSingle' /\ (PageTravels' => PageTravels)
   BY <1>i, <2>1, <2>2, WorkerMoves DEF PageSingle, PageTravels
 <2> QED  BY <1>i, <1>q, <2>1, <2>3, <2>4 DEF WorkerDoes, Calls
<1>2. ASSUME NEW j \in JobsSent, j.kind \in PageJobs, ~busy, busy', jobs' = Append(jobs, j), inbox' = inbox,
             UNCHANGED <<takeVars, calling, engineVars>>
      PROVE  OneUnderWay'
  BY <1>2, <1>i, JobIssued, UnderWayParts, KindsAre, <1>q DEF TakeSingle, PageSingle, PageTravels,
    Calls
<1>3. ASSUME NEW p \in Packages, OpenProject(p) PROVE OneUnderWay'
  BY <1>2, <1>3, JobMade, KindsAre DEF OpenProject
<1>4. ASSUME NEW s \in Sessions, RecoverSession(s) PROVE OneUnderWay'
 <2>1. (IF chosen' = None THEN project ELSE chosen') \in Packages
   BY <1>4, <1>i, RecordingAssumption DEF RecoverSession, IInv, TakesInv, TypeOK, PageKeeps, RecordingAssumption
 <2> DEFINE j == Job("recover", IF chosen' = None THEN project ELSE chosen', s)
 <2>2. j \in JobsSent /\ j.kind \in PageJobs  BY <2>1, JobMade, KindsAre DEF SettleJobs
 <2>3. ~busy /\ busy' /\ jobs' = Append(jobs, j) /\ inbox' = inbox /\ UNCHANGED <<takeVars, calling, engineVars>>
   BY <1>4 DEF RecoverSession
 <2> HIDE DEF j
 <2> QED  BY <1>2, <2>2, <2>3
<1>5. CASE LeaveRecoveryForLater \/ (\E to \in {"Home", "Studio"} : Navigate(to)) \/ UNCHANGED vars
  BY <1>5, <1>i, <1>q, <1>s DEF LeaveRecoveryForLater, Navigate, vars, Calls
<1>6. CASE HandleScanned  BY <1>6, <1>i, <1>q, Hears DEF HandleScanned, Calls
<1>7. CASE HandleOpened \/ HandleRecovered
  BY <1>7, Hears, KindsAre, <1>i, <1>q DEF HandleOpened, HandleRecovered, Opened, Calls
<1>8. ASSUME NEW j \in JobsSent, j.kind \in TakeJobs, ~TakeTravels, jobs' = Append(jobs, j), inbox' = inbox,
             Quiet, busy' = busy
      PROVE  OneUnderWay'
  BY <1>8, <1>i, JobIssued, KindsAre, UnderWayParts, <1>q DEF PageSingle, PageTravels, TakeSingle
<1>9. ASSUME NEW s \in Sessions, StartRecording(s) PROVE OneUnderWay'
 <2>1. project \in Packages  BY <1>9, <1>i DEF StartRecording, TypeOK
 <2> DEFINE j == Job("begin", project, s)
 <2>2. jobs' = Append(jobs, j) /\ inbox' = inbox  BY <1>9, <2>1 DEF StartRecording, Persist
 <2>3. j \in JobsSent /\ j.kind \in TakeJobs  BY <2>1, JobMade, KindsAre DEF SettleJobs
 <2> HIDE DEF j
 <2> QED  BY <1>9, <1>8, <2>2, <2>3, IdleIsQuiet DEF StartRecording, Calls
<1>10. CASE StopRecording  BY <1>10, <1>i, <1>q, <1>s DEF StopRecording, Calls
<1>11. CASE EngineFails  BY <1>11, <1>i, <1>q, <1>s DEF EngineFails, Calls
<1>12. CASE HandleBegun \/ HandleCompleted \/ HandleAborted
  BY <1>12, Hears, KindsAre, <1>i, <1>q DEF HandleBegun, HandleCompleted, HandleAborted
<1>13. CASE HandleFinished
 <2>1. inbox # <<>> /\ Head(inbox).kind = "finished" /\ calling = <<>>
   BY <1>13 DEF HandleFinished, IsNext
 <2>2. CASE inbox' = Tail(inbox) /\ jobs' = jobs
   BY <2>1, <2>2, <1>13, <1>i, <1>q, Hears, KindsAre DEF Receive, IsNext, HandleFinished, Calls
 <2>3. CASE ~(inbox' = Tail(inbox) /\ jobs' = jobs)
  <3>1. /\ Persist("complete", "completed", pending, Tail(inbox)) /\ op # "Idle"
        /\ UNCHANGED <<busy, asked, calling, engine>>
    BY <1>i, <2>1, Taken, EventIs, <1>13, <2>3 DEF Received, TypeOK, HandleFinished
  <3> DEFINE j == Job("complete", project, pending)
  <3>2. jobs' = Append(jobs, j) /\ inbox' = Tail(inbox) /\ j \in JobsSent /\ project \in Packages
        /\ pending \in Sessions
    BY <1>i, <3>1, Persists DEF SettleJobs
  <3>3. j.kind = "complete" /\ j.kind \in TakeJobs /\ j.kind \notin PageJobs
    BY <3>2, JobMade, KindsAre DEF SettleJobs
  <3> HIDE DEF j
  <3>4. inbox \in Seq(EventsPosted) /\ jobs \in Seq(JobsSent)  BY <1>i DEF TypeOK
  <3>5. /\ Has(jobs', TakeJobs) /\ (~Has(jobs, TakeJobs) => OnlyOne(jobs', TakeJobs))
        /\ Has(jobs', PageJobs) <=> Has(jobs, PageJobs)
        /\ OnlyOne(jobs, PageJobs) => OnlyOne(jobs', PageJobs)
    BY <3>2, <3>3, <3>4, AppendedHas, <1>i DEF TakeSingle, Single
  <3>6. /\ Has(inbox, TakeAnswers) /\ ~Has(inbox', TakeAnswers) /\ OnlyOne(inbox', TakeAnswers)
        /\ Has(inbox', PageAnswers) => Has(inbox, PageAnswers)
        /\ OnlyOne(inbox', PageAnswers)
    BY <2>1, <3>2, <3>4, TakenHas, KindsAre, <1>i DEF TakeSingle, PageSingle, Single
  <3>7. TakeTravels /\ TakeSingle' /\ PageSingle' /\ (PageTravels' => PageTravels)
    BY <1>i, <3>5, <3>6 DEF TakeTravels, TakeSingle, PageSingle, PageTravels, Single, Travels
  <3> QED  BY <1>i, <1>q, <3>1, <3>7 DEF Calls
 <2> QED  BY <2>2, <2>3
<1>14. CASE EngineFinishes
 <2>1. op \notin {"Idle", "Preparing"} /\ ~TakeTravels /\ asked = None /\ ~Calls({"prepare"})
   BY <1>14, <1>i DEF EngineFinishes, EngineIsFree, TakeKeeps
 <2>2. run \in Sessions  BY <1>14, <1>i, <2>1 DEF EngineFinishes, EngineIsFree, TypeOK, TakeKeeps
 <2> DEFINE e == Event("finished", None, {run}, TRUE)
 <2>3. e \in EventsPosted /\ e.kind = "finished"  BY <2>2 DEF Event, EventsPosted
 <2>4. inbox' = Append(inbox, e) /\ jobs' = jobs /\ inbox \in Seq(EventsPosted) /\ jobs \in Seq(JobsSent)
   BY <1>14, <1>i DEF EngineFinishes, TypeOK
 <2> HIDE DEF e
 <2>5. OnlyOne(inbox', TakeAnswers) /\ (Has(inbox', PageAnswers) <=> Has(inbox, PageAnswers))
       /\ OnlyOne(inbox', PageAnswers)
   BY <1>i, <2>1, <2>3, <2>4, AppendedHas, KindsAre DEF TakeSingle, PageSingle, Single, TakeTravels
 <2>6. TakeSingle' /\ PageSingle' /\ (PageTravels' => PageTravels)
   BY <1>i, <2>1, <2>4, <2>5 DEF TakeSingle, PageSingle, PageTravels, Single, Travels, TakeTravels
 <2> QED  BY <1>14, <1>i, <1>q, <2>1, <2>6 DEF EngineFinishes, Calls
<1>15. CASE ListenerHears  BY <1>15, <1>i, <1>q, <1>s DEF ListenerHears, Calls
<1>16. ASSUME NEW ok \in BOOLEAN, ListenerPrepared(ok) PROVE OneUnderWay'
 <2>1. /\ asked = pending /\ op = "Preparing" /\ ~TakeTravels /\ calling = <<>> /\ asked' = None
       /\ engine \in {"idle", "stopped"} /\ calling' = calling /\ busy' = busy
   BY <1>16, <1>i DEF ListenerPrepared, FinishPreparation, TakeKeeps, EngineIsFree
 <2>2. CASE AbortStarted(inbox)
  <3> DEFINE j == Job("abort", project, pending)
  <3>1. jobs' = Append(jobs, j) /\ inbox' = inbox /\ j \in JobsSent /\ project \in Packages /\ pending \in Sessions
    BY <2>1, <2>2, <1>i, Persists DEF SettleJobs, AbortStarted
  <3>2. j.kind \in TakeJobs  BY <3>1, JobMade, KindsAre DEF SettleJobs
  <3> HIDE DEF j
  <3> QED  BY <1>8, <2>1, <2>2, <3>1, <3>2 DEF AbortStarted, Calls
 <2>3. CASE ~AbortStarted(inbox)
   BY <1>16, <2>1, <2>3, <1>i, <1>q, <1>s DEF ListenerPrepared, FinishPreparation, StartEngine,
     Calls
 <2> QED  BY <2>2, <2>3
<1> QED
  BY <1>1, <1>3, <1>4, <1>5, <1>6, <1>7, <1>9, <1>10, <1>11, <1>12, <1>13, <1>14, <1>15, <1>16 DEF
   Next, ProjectUser, TakeUser, EventLoop, Listener

-----------------------------------------------------------------------------
(* What is under way fits the take *)

LEMMA HasRange ==
    ASSUME NEW S, NEW q \in Seq(S), NEW K
    PROVE  Has(q, K) <=> \E e \in Range(q) : e.kind \in K
  BY DEF Has, Range

\* An open project is replaced by another one, never closed.
LEMMA OpenStays == IInv /\ [Next]_vars => (project # None => project' # None)
<1> SUFFICES ASSUME IInv, [Next]_vars, project # None PROVE project' # None  OBVIOUS
<1> USE RecordingAssumption DEF RecordingAssumption, takeVars, projectVars, engineVars, rowVars
<1>i. TypeOK /\ PageKeeps  BY DEF IInv, TakesInv
<1>1. CASE HandleOpened
  BY <1>1, <1>i, Taken, EventIs DEF HandleOpened, Receive, IsNext, Received, TypeOK, Opened
<1>2. CASE HandleRecovered
  BY <1>2, <1>i, TakenHas DEF HandleRecovered, Receive, IsNext, TypeOK, Opened, PageKeeps
<1>3. CASE ProjectWorker  BY <1>3, <1>i, WorkerStep DEF WorkerDoes
<1>4. CASE ~HandleOpened /\ ~HandleRecovered /\ ~ProjectWorker
  BY <1>4 DEF Next, ProjectUser, TakeUser, EventLoop, Listener, OpenProject, RecoverSession,
   LeaveRecoveryForLater, Navigate, HandleScanned, StartRecording, StopRecording, HandleBegun,
   HandleFinished, HandleCompleted, HandleAborted, EngineFails, EngineFinishes, ListenerHears,
   ListenerPrepared, FinishPreparation, vars
<1> QED  BY <1>1, <1>2, <1>3, <1>4

\* The parts of TakesInv that speak of the take.
TakePart == AnswersAreExpected /\ EngineIsFree /\ RecordedIsKept /\ AnnouncedIsDurable /\ TakeKeeps

LEMMA TakeSeen ==
    ASSUME IInv
    PROVE  /\ \A j \in Range(jobs) : j.kind \in TakeJobs => TakeTravels /\ Has(jobs, TakeJobs)
           /\ \A e \in Range(inbox) : e.kind \in TakeAnswers => TakeTravels /\ ~Has(jobs, TakeJobs)
           /\ TakeTravels => asked = None /\ ~Calls({"prepare"}) /\ engine \in {"idle", "stopped"}
           /\ Calls({"prepare"}) => asked = None
  BY HasRange DEF IInv, TypeOK, TakesInv, OneUnderWay, TakeTravels

LEMMA WorkerTakes == ASSUME IInv, ProjectWorker PROVE TakePart'
<1>1. PICK j \in JobsSent, e \in EventsPosted : WorkerDoes(j, e)  BY WorkerStep DEF IInv
<1>i. /\ TypeOK /\ AnswersAreExpected /\ EngineIsFree /\ RecordedIsKept /\ AnnouncedIsDurable /\ TakeKeeps
  BY DEF IInv, TakesInv
<1>2. /\ Range(inbox') = Range(inbox) \cup {e} /\ Range(jobs') \subseteq Range(jobs) /\ j \in Range(jobs)
  BY <1>1, <1>i, Appended, Taken DEF WorkerDoes, TypeOK
<1>u. UNCHANGED <<take, op, pending, finishing, asked, calling, project, engine, run>>
  BY <1>1 DEF WorkerDoes, takeVars, projectVars, engineVars
<1>3. /\ j.kind \in TakeJobs => j.session = pending /\ e.sessions = {pending} /\ pending \in Sessions /\ TakeTravels
      /\ j.kind = "complete" => op = "Finalizing" /\ finishing
      /\ j.kind \in {"begin", "abort"} => op = "Preparing"
      /\ e.kind = AnswerTo[j.kind] /\ j.kind \in SettleJobs \cup {"scan", "open"}
  BY <1>1, <1>i, <1>2, JobIs, TakeSeen DEF WorkerDoes, TakeKeeps, TakeJobs, SettleJobs
\* Only the job for the take itself writes its row otherwise than recovery does.
<1>4. ASSUME NEW s \in Sessions, j.kind \notin TakeJobs \/ s # j.session
      PROVE  state'[s] = state[s] \/ (InRow(s) /\ state'[s] = "RECOVERED")
  BY <1>1, <1>4, JobIs DEF WorkerDoes, SettleJobs, TakeJobs, RowBefore, RowAfter, InRow
<1>5. j.kind \in TakeJobs => (state'[pending] = state[pending] \/ state'[pending] = RowAfter[j.kind])
      /\ (e.ok => state'[pending] = RowAfter[j.kind])
  BY <1>1, <1>3, JobIs DEF WorkerDoes, SettleJobs, TakeJobs
<1>6. AnswersAreExpected'
  BY <1>i, <1>2, <1>3, <1>u DEF AnswersAreExpected, Expects, AnswerTo, TakeJobs, SettleJobs
<1>7. EngineIsFree'  BY <1>i, <1>u DEF EngineIsFree
<1>8. RecordedIsKept'
 <2> SUFFICES ASSUME NEW s \in Sessions, take[s] = "ran" PROVE state'[s] \notin {"none", "ABORTED"}
   BY <1>u DEF RecordedIsKept
 <2>1. state[s] \notin {"none", "ABORTED"}  BY <1>i DEF RecordedIsKept
 <2>2. CASE j.kind \in TakeJobs /\ s = j.session
  <3>1. j.kind # "abort"  BY <1>i, <1>3, <2>2 DEF TakeKeeps
  <3> QED  BY <1>3, <1>5, <2>1, <2>2, <3>1 DEF TakeJobs, RowAfter
 <2> QED  BY <1>4, <2>1, <2>2
<1>9. AnnouncedIsDurable'
 <2>1. Calls({"committed", "aborted"}) => op = "Idle" /\ calling[2] \in Sessions /\ j.kind \notin TakeJobs
   BY <1>i, <1>3, IdleIsQuiet DEF TakeKeeps, Calls, TypeOK, CallsMade
 <2> QED  BY <1>i, <1>u, <1>4, <2>1 DEF AnnouncedIsDurable, Calls, InRow
<1>10. TakeKeeps'
 <2>1. asked # None \/ Calls({"prepare"}) => pending \in Sessions /\ InRow(pending)'
  <3>1. asked # None \/ Calls({"prepare"}) => pending \in Sessions /\ InRow(pending) /\ j.kind \notin TakeJobs
    BY <1>i, <1>3, TakeSeen DEF TakeKeeps, TypeOK
  <3> QED  BY <1>u, <1>4, <3>1 DEF InRow
 <2>2. ASSUME NEW f \in Range(inbox')
       PROVE  /\ f.kind = "begun" /\ f.ok => InRow(pending)'
              /\ f.kind = "completed" => finishing /\ (f.ok => state'[pending] = "COMPLETED")
              /\ f.kind = "aborted" /\ f.ok => state'[pending] = "ABORTED"
  <3>1. CASE f = e  BY <1>3, <1>5, <1>u, <3>1 DEF AnswerTo, RowAfter, TakeJobs, SettleJobs, InRow
  <3>2. CASE f \in Range(inbox)
   <4>1. f.kind \in TakeAnswers => j.kind \notin TakeJobs /\ pending \in Sessions
    <5>1. f.kind \in TakeAnswers => ~Has(jobs, TakeJobs) /\ op # "Idle"
      BY <1>i, <3>2, TakeSeen DEF AnswersAreExpected, Expects, TakeAnswers
    <5> QED  BY <1>i, <1>2, <5>1, TakeSeen DEF TakeKeeps, TypeOK
   <4>2. f.kind \in TakeAnswers =>
             state'[pending] = state[pending] \/ (InRow(pending) /\ state'[pending] = "RECOVERED")
     BY <1>4, <4>1
   <4> QED  BY <1>i, <1>u, <3>2, <4>2, KindsAre DEF TakeKeeps, InRow
  <3> QED  BY <1>2, <3>1, <3>2
 <2> QED  BY <1>i, <1>2, <1>u, <2>1, <2>2 DEF TakeKeeps, Calls
<1> QED  BY <1>6, <1>7, <1>8, <1>9, <1>10 DEF TakePart

LEMMA TakePartStep == IInv /\ [Next]_vars => TakePart'
<1> SUFFICES ASSUME IInv, [Next]_vars PROVE TakePart'  OBVIOUS
<1> USE DEF takeVars, projectVars, engineVars, rowVars, GuiFree
<1>i. /\ TypeOK /\ AnswersAreExpected /\ EngineIsFree /\ RecordedIsKept /\ AnnouncedIsDurable /\ TakeKeeps
  BY DEF IInv, TakesInv
<1>o. project # None => project' # None  BY OpenStays
<1>q. jobs \in Seq(JobsSent) /\ inbox \in Seq(EventsPosted)  BY <1>i DEF TypeOK
<1>1. CASE ProjectWorker  BY <1>1, WorkerTakes
\* The take is left alone: the queues only lose events and gain jobs for the page.
<1>2. ASSUME UNCHANGED <<state, take, op, pending, finishing, asked, engine, run>>,
             Range(inbox') \subseteq Range(inbox), \A j \in Range(jobs') : j \in Range(jobs) \/ j.kind \notin TakeJobs,
             calling' = calling \/ (calling' # <<>> /\ calling'[1] = "opened")
      PROVE  TakePart'
 <2>1. AnswersAreExpected' /\ EngineIsFree' /\ RecordedIsKept' /\ AnnouncedIsDurable'
   BY <1>2, <1>i DEF AnswersAreExpected, EngineIsFree, RecordedIsKept, AnnouncedIsDurable
 <2>2. TakeKeeps'  BY <1>2, <1>i, <1>o DEF TakeKeeps, Calls, InRow
 <2> QED  BY <2>1, <2>2 DEF TakePart
<1>3. ASSUME NEW p \in Packages, OpenProject(p) PROVE TakePart'
 <2>1. Range(jobs') = Range(jobs) \cup {Job("open", p, None)} /\ Job("open", p, None).kind \notin TakeJobs
   BY <1>3, <1>q, JobMade, Appended, KindsAre DEF OpenProject
 <2> QED  BY <1>2, <1>3, <2>1 DEF OpenProject
<1>4. ASSUME NEW s \in Sessions, RecoverSession(s) PROVE TakePart'
 <2> DEFINE j == Job("recover", IF chosen' = None THEN project ELSE chosen', s)
 <2>1. (IF chosen' = None THEN project ELSE chosen') \in Packages
   BY <1>4, <1>i, RecordingAssumption DEF RecoverSession, IInv, TakesInv, TypeOK, PageKeeps, RecordingAssumption
 <2>2. j \in JobsSent /\ j.kind \notin TakeJobs  BY <2>1, JobMade, KindsAre DEF SettleJobs
 <2>3. jobs' = Append(jobs, j) /\ inbox' = inbox
       /\ UNCHANGED <<state, take, op, pending, finishing, asked, engine, run, calling>>
   BY <1>4 DEF RecoverSession
 <2> HIDE DEF j
 <2>4. Range(jobs') = Range(jobs) \cup {j}  BY <1>q, <2>2, <2>3, Appended
 <2> QED  BY <1>2, <2>2, <2>3, <2>4
<1>5. CASE LeaveRecoveryForLater \/ (\E to \in {"Home", "Studio"} : Navigate(to)) \/ UNCHANGED vars
  BY <1>5, <1>2 DEF LeaveRecoveryForLater, Navigate, vars
<1>r. ASSUME NEW kind, Receive(kind)
      PROVE  Range(inbox') \subseteq Range(inbox) /\ Received \in Range(inbox) /\ Received.kind = kind
             /\ Received \in EventsPosted /\ calling = <<>>
  BY <1>q, <1>r, Taken DEF Receive, IsNext, Received
<1>6. CASE HandleScanned \/ HandleOpened \/ HandleRecovered
 <2>1. Range(inbox') \subseteq Range(inbox)
   BY <1>6, <1>r DEF HandleScanned, HandleOpened, HandleRecovered
 <2>2. UNCHANGED <<state, take, op, pending, finishing, asked, engine, run, jobs>>
   BY <1>6 DEF HandleScanned, HandleOpened, HandleRecovered
 <2>3. calling' = calling \/ (calling' # <<>> /\ calling'[1] = "opened")
   BY <1>6 DEF HandleScanned, HandleOpened, HandleRecovered, Opened
 <2> QED  BY <1>2, <2>1, <2>2, <2>3
\* No event is left that could find the take changed.
<1>n. ASSUME TypeOK', ~TakeTravels'
      PROVE  /\ \A e \in Range(inbox') : e.kind \notin TakeAnswers
             /\ \A j \in Range(jobs') : j.kind \notin TakeJobs
             /\ AnswersAreExpected'
 <2>1. inbox' \in Seq(EventsPosted) /\ jobs' \in Seq(JobsSent)  BY <1>n DEF TypeOK
 <2> QED  BY <1>n, <2>1, HasRange DEF TakeTravels, AnswersAreExpected, TakeAnswers
<1>t. TypeOK'  BY RecordingTypes
<1>7. ASSUME NEW s \in Sessions, StartRecording(s) PROVE TakePart'
 <2>1. project \in Packages /\ op = "Idle" /\ calling = <<>> /\ calling' = calling
   BY <1>7, <1>i DEF StartRecording, TypeOK
 <2> DEFINE j == Job("begin", project, s)
 <2>2. jobs' = Append(jobs, j) /\ inbox' = inbox /\ j \in JobsSent /\ j.kind = "begin" /\ j.session = s
   BY <1>7, <2>1, JobMade DEF StartRecording, Persist, SettleJobs
 <2> HIDE DEF j
 <2>3. Range(jobs') = Range(jobs) \cup {j}  BY <1>q, <2>2, Appended
 <2>4. ~TakeTravels /\ asked = None /\ engine \in {"idle", "stopped"}  BY <2>1, IdleIsQuiet
 <2>5. /\ \A e \in Range(inbox) : e.kind \notin TakeAnswers
       /\ \A k \in Range(jobs) : k.kind \notin TakeJobs
   BY <2>4, TakeSeen
 <2>6. AnswersAreExpected' /\ EngineIsFree' /\ AnnouncedIsDurable'
   BY <1>7, <1>i, <2>1, <2>2, <2>4, <2>5 DEF StartRecording, AnswersAreExpected, EngineIsFree,
    AnnouncedIsDurable, TakeAnswers
 <2>7. RecordedIsKept'  BY <1>7, <1>i DEF StartRecording, RecordedIsKept, TypeOK
 <2>8. TakeKeeps'
   BY <1>7, <1>i, <1>o, <2>1, <2>2, <2>3, <2>4, <2>5, KindsAre, RecordingAssumption DEF
    StartRecording, TakeKeeps, Calls, TypeOK, RecordingAssumption
 <2> QED  BY <2>6, <2>7, <2>8 DEF TakePart
<1>8. CASE StopRecording
 <2>1. AnswersAreExpected' /\ EngineIsFree' /\ RecordedIsKept' /\ AnnouncedIsDurable'
   BY <1>8, <1>i DEF StopRecording, AnswersAreExpected, Expects, EngineIsFree, RecordedIsKept, AnnouncedIsDurable
 <2>2. TakeKeeps'  BY <1>8, <1>i, <1>o DEF StopRecording, TakeKeeps, Calls, InRow
 <2> QED  BY <2>1, <2>2 DEF TakePart
<1>9. CASE EngineFails
 <2>1. AnswersAreExpected' /\ EngineIsFree' /\ RecordedIsKept' /\ AnnouncedIsDurable'
   BY <1>9, <1>i DEF EngineFails, AnswersAreExpected, EngineIsFree, RecordedIsKept, AnnouncedIsDurable
 <2>2. TakeKeeps'  BY <1>9, <1>i, <1>o DEF EngineFails, TakeKeeps, Calls, InRow
 <2> QED  BY <2>1, <2>2 DEF TakePart
<1>10. CASE EngineFinishes
 <2>1. op \in {"Recording", "Finalizing"} /\ run = pending /\ pending \in Sessions
   BY <1>10, <1>i DEF EngineFinishes, EngineIsFree, TypeOK, TakeKeeps
 <2> DEFINE e == Event("finished", None, {run}, TRUE)
 <2>2. e \in EventsPosted /\ e.kind = "finished" /\ e.sessions = {run}
   BY <2>1 DEF Event, EventsPosted
 <2>3. inbox' = Append(inbox, e) /\ jobs' = jobs  BY <1>10 DEF EngineFinishes
 <2> HIDE DEF e
 <2>4. Range(inbox') = Range(inbox) \cup {e}  BY <1>q, <2>2, <2>3, Appended
 <2>n. AnswersAreExpected'
  <3>1. UNCHANGED <<op, pending>>  BY <1>10 DEF EngineFinishes
  <3>2. Expects["finished"] = {"Recording", "Finalizing"}  BY DEF Expects
  <3> QED  BY <1>i, <2>1, <2>2, <2>4, <3>1, <3>2 DEF AnswersAreExpected
 <2>5. AnswersAreExpected' /\ EngineIsFree' /\ RecordedIsKept' /\ AnnouncedIsDurable'
   BY <1>10, <1>i, <2>1, <2>n DEF EngineFinishes, EngineIsFree, RecordedIsKept, AnnouncedIsDurable
 <2>6. TakeKeeps'
   BY <1>10, <1>i, <1>o, <2>2, <2>3, <2>4 DEF EngineFinishes, TakeKeeps, Calls, InRow
 <2> QED  BY <2>5, <2>6 DEF TakePart
<1>11. CASE HandleBegun
 <2>1. /\ Received \in Range(inbox) /\ Received.kind = "begun" /\ TakeTravels /\ ~TakeTravels' /\ calling = <<>>
       /\ jobs' = jobs
   BY <1>11, <1>r, Hears, KindsAre DEF HandleBegun
 <2>2. op = "Preparing" /\ IsFor(pending) /\ pending \in Sessions
   BY <1>i, <2>1 DEF AnswersAreExpected, Expects, IsFor, TypeOK, TakeKeeps
 <2>3. asked = None /\ engine \in {"idle", "stopped"}  BY <2>1, TakeSeen
 <2>4. Received.ok => InRow(pending)  BY <1>i, <2>1 DEF TakeKeeps
 <2>5. EngineIsFree' /\ RecordedIsKept' /\ AnnouncedIsDurable'
   BY <1>11, <1>i, <2>1, <2>2, <2>3 DEF HandleBegun, EngineIsFree, RecordedIsKept, AnnouncedIsDurable
 <2>6. TakeKeeps'
   BY <1>11, <1>i, <1>n, <1>o, <1>t, <2>1, <2>2, <2>3, <2>4, KindsAre, RecordingAssumption DEF
    HandleBegun, TakeKeeps, Calls, InRow, RecordingAssumption
 <2> QED  BY <1>n, <1>t, <2>1, <2>5, <2>6 DEF TakePart
<1>12. CASE HandleCompleted \/ HandleAborted
 <2>1. /\ Received \in Range(inbox) /\ Received.kind \in {"completed", "aborted"} /\ ~TakeTravels' /\ calling = <<>>
       /\ jobs' = jobs /\ TakeTravels
   BY <1>12, <1>r, Hears, KindsAre DEF HandleCompleted, HandleAborted
 <2>2. IsFor(pending) /\ pending \in Sessions
       /\ (Received.kind = "completed" => op = "Finalizing" /\ finishing)
   BY <1>i, <2>1 DEF AnswersAreExpected, Expects, IsFor, TypeOK, TakeKeeps
 <2>3. asked = None /\ engine \in {"idle", "stopped"}  BY <2>1, TakeSeen
 <2>4. /\ Received.kind = "completed" /\ Received.ok => state[pending] = "COMPLETED"
       /\ Received.kind = "aborted" /\ Received.ok => state[pending] = "ABORTED"
   BY <1>i, <2>1 DEF TakeKeeps
 <2>5. /\ op' = "Idle" /\ pending' = None /\ finishing' = FALSE
       /\ \/ calling' = <<>>
          \/ Received.kind = "completed" /\ Received.ok /\ calling' = <<"committed", pending>>
          \/ Received.kind = "aborted" /\ Received.ok /\ calling' = <<"aborted", pending>>
       /\ UNCHANGED <<rowVars, asked, engine, run, project>>
  <3>1. CASE HandleCompleted
   <4>1. Received.kind = "completed"  BY <1>r, <3>1 DEF HandleCompleted
   <4> QED  BY <2>2, <3>1, <4>1 DEF HandleCompleted, EndTake
  <3>2. CASE HandleAborted
   <4>1. Received.kind = "aborted"  BY <1>r, <3>2 DEF HandleAborted
   <4> QED  BY <2>2, <3>2, <4>1 DEF HandleAborted, EndTake
  <3> QED  BY <1>12, <3>1, <3>2
 <2>6. EngineIsFree' /\ RecordedIsKept' /\ AnnouncedIsDurable'
   BY <1>i, <2>3, <2>4, <2>5 DEF EngineIsFree, RecordedIsKept, AnnouncedIsDurable
 <2>7. TakeKeeps'  BY <1>i, <1>n, <1>t, <2>1, <2>3, <2>5, KindsAre DEF TakeKeeps, Calls, InRow
 <2> QED  BY <1>n, <1>t, <2>1, <2>6, <2>7 DEF TakePart
<1>13. CASE HandleFinished
 <2>1. /\ Received \in Range(inbox) /\ Received.kind = "finished" /\ Received \in EventsPosted /\ calling = <<>>
       /\ inbox # <<>> /\ Head(inbox) = Received
   BY <1>13, <1>q, Taken DEF HandleFinished, IsNext, Received
 <2>k. Received.ok = TRUE  BY <2>1, EventIs
 <2>2. op \in {"Recording", "Finalizing"} /\ IsFor(pending) /\ pending \in Sessions /\ Received.ok = TRUE
   BY <1>i, <2>1, <2>k DEF AnswersAreExpected, Expects, IsFor, TypeOK, TakeKeeps
 <2>3. /\ Persist("complete", "completed", pending, Tail(inbox)) /\ op' = "Finalizing" /\ finishing' = TRUE
       /\ UNCHANGED <<rowVars, pending, asked, calling, project, engine, run>>
   BY <1>13, <2>2 DEF HandleFinished
 <2> DEFINE j == Job("complete", project, pending)
 <2>4. jobs' = Append(jobs, j) /\ inbox' = Tail(inbox) /\ j \in JobsSent /\ j.kind = "complete" /\ j.session = pending
  <3>1. "complete" \in SettleJobs /\ op # "Idle"  BY <2>2 DEF SettleJobs
  <3>2. project \in Packages /\ jobs' = Append(jobs, j) /\ inbox' = Tail(inbox) /\ j \in JobsSent
    BY <1>i, <2>3, <3>1, Persists
  <3> QED  BY <2>2, <3>1, <3>2, JobMade
 <2> HIDE DEF j
 <2>5. Range(jobs') = Range(jobs) \cup {j} /\ Range(inbox') \subseteq Range(inbox)
   BY <1>q, <2>1, <2>4, Appended, Taken
 <2>6. /\ \A e \in Range(inbox') : e.kind \notin TakeAnswers
       /\ \A k \in Range(jobs) : k.kind \notin TakeJobs
  <3>1. OnlyOne(inbox, TakeAnswers) /\ (Has(jobs, TakeJobs) => ~Has(inbox, TakeAnswers))
    BY DEF IInv, TakesInv, OneUnderWay
  <3>2. Has(inbox, TakeAnswers) /\ ~Has(Tail(inbox), TakeAnswers) /\ Tail(inbox) \in Seq(EventsPosted)
    BY <1>q, <2>1, <3>1, TakenHas, Taken, KindsAre
  <3> QED  BY <1>q, <2>4, <3>1, <3>2, HasRange
 <2>7. AnswersAreExpected' /\ EngineIsFree' /\ RecordedIsKept' /\ AnnouncedIsDurable'
   BY <1>i, <2>2, <2>3, <2>6 DEF AnswersAreExpected, EngineIsFree, RecordedIsKept, AnnouncedIsDurable, TakeAnswers
 <2>8. asked = None /\ ~Calls({"prepare"})  BY <1>i, <2>1, <2>2 DEF TakeKeeps, Calls
 <2>9. TakeKeeps'
   BY <1>i, <1>o, <2>1, <2>2, <2>3, <2>4, <2>5, <2>6, <2>8, KindsAre, RecordingAssumption DEF
    TakeKeeps, Calls, RecordingAssumption
 <2> QED  BY <2>7, <2>9 DEF TakePart
<1>14. CASE ListenerHears
 <2>1. UNCHANGED <<rowVars, op, pending, finishing, project, jobs, inbox, engine, run>> /\ calling' = <<>>
   BY <1>14 DEF ListenerHears
 <2>2. asked' = asked \/ (asked' = pending /\ op = "Preparing" /\ InRow(pending))
   BY <1>14, <1>i DEF ListenerHears, TakeKeeps, Calls
 <2>3. AnswersAreExpected' /\ EngineIsFree' /\ RecordedIsKept' /\ AnnouncedIsDurable'
   BY <1>i, <2>1 DEF AnswersAreExpected, EngineIsFree, RecordedIsKept, AnnouncedIsDurable
 <2>4. TakeKeeps'  BY <1>i, <2>1, <2>2 DEF TakeKeeps, Calls, InRow
 <2> QED  BY <2>3, <2>4 DEF TakePart
<1>15. ASSUME NEW ok \in BOOLEAN, ListenerPrepared(ok) PROVE TakePart'
 <2>1. /\ asked = pending /\ op = "Preparing" /\ pending \in Sessions /\ InRow(pending) /\ calling = <<>>
       /\ asked' = None /\ take[pending] = "asked"
       /\ UNCHANGED <<state, home, pending, finishing, project, calling>>
   BY <1>15, <1>i DEF ListenerPrepared, FinishPreparation, TakeKeeps, TypeOK
 <2>2. ~TakeTravels /\ (\A e \in Range(inbox) : e.kind \notin TakeAnswers)
       /\ \A k \in Range(jobs) : k.kind \notin TakeJobs
  <3>1. asked # None  BY <1>15 DEF ListenerPrepared
  <3> QED  BY <3>1, TakeSeen
 <2>3. CASE AbortStarted(inbox)
  <3> DEFINE j == Job("abort", project, pending)
  <3>1. jobs' = Append(jobs, j) /\ inbox' = inbox /\ j \in JobsSent /\ j.kind = "abort" /\ j.session = pending
   <4>1. "abort" \in SettleJobs /\ op # "Idle"  BY <2>1 DEF SettleJobs
   <4>2. Persist("abort", "aborted", pending, inbox)  BY <2>3 DEF AbortStarted
   <4>3. project \in Packages /\ jobs' = Append(jobs, j) /\ inbox' = inbox /\ j \in JobsSent
     BY <1>i, <4>1, <4>2, Persists
   <4> QED  BY <2>1, <4>1, <4>3, JobMade
  <3> HIDE DEF j
  <3>2. Range(jobs') = Range(jobs) \cup {j}  BY <1>q, <3>1, Appended
  <3>3. UNCHANGED <<take, op, engine, run>>  BY <2>3 DEF AbortStarted
  <3>4. AnswersAreExpected' /\ EngineIsFree' /\ RecordedIsKept' /\ AnnouncedIsDurable'
    BY <1>i, <2>1, <3>1, <3>3 DEF AnswersAreExpected, EngineIsFree, RecordedIsKept, AnnouncedIsDurable
  <3>5. TakeKeeps'  BY <1>i, <2>1, <3>1, <3>2, <3>3 DEF TakeKeeps, Calls, InRow
  <3> QED  BY <3>4, <3>5 DEF TakePart
 <2>4. CASE ~AbortStarted(inbox)
  <3>1. /\ engine' = "running" /\ run' = pending /\ op' = "Recording" /\ take' = [take EXCEPT ![pending] = "ran"]
        /\ UNCHANGED <<jobs, inbox>>
    BY <1>15, <2>1, <2>4 DEF ListenerPrepared, FinishPreparation, StartEngine
  <3>2. AnswersAreExpected' /\ EngineIsFree' /\ AnnouncedIsDurable'
    BY <1>i, <2>1, <2>2, <3>1 DEF AnswersAreExpected, TakeAnswers, EngineIsFree, AnnouncedIsDurable
  <3>3. RecordedIsKept'  BY <1>i, <2>1, <3>1 DEF RecordedIsKept, TypeOK, InRow
  <3>4. TakeKeeps'  BY <1>i, <2>1, <2>2, <3>1, KindsAre DEF TakeKeeps, Calls, InRow
  <3> QED  BY <3>2, <3>3, <3>4 DEF TakePart
 <2> QED  BY <2>3, <2>4
<1> QED
  BY <1>1, <1>3, <1>4, <1>5, <1>6, <1>7, <1>8, <1>9, <1>10, <1>11, <1>12, <1>13, <1>14, <1>15 DEF
   Next, ProjectUser, TakeUser, EventLoop, Listener

-----------------------------------------------------------------------------
(* The project page *)

\* The scan of the start is the first job and then the first event.
ScanFirst ==
    /\ \A i \in 1 .. Len(jobs) : jobs[i].kind = "scan" => i = 1 /\ inbox = <<>> /\ project = None
    /\ \A i \in 1 .. Len(inbox) : inbox[i].kind = "scanned" => i = 1 /\ project = None

LEMMA ScanFirstStep == IInv /\ [Next]_vars => ScanFirst'
<1> SUFFICES ASSUME IInv, [Next]_vars PROVE ScanFirst'  OBVIOUS
<1> USE DEF takeVars, projectVars, engineVars, rowVars, GuiFree
<1>i. TypeOK /\ TypeOK' /\ TakeKeeps /\ EngineIsFree /\ ScanFirst
  BY RecordingTypes DEF IInv, TakesInv, PageKeeps, ScanFirst
<1>q. jobs \in Seq(JobsSent) /\ inbox \in Seq(EventsPosted)  BY <1>i DEF TypeOK
<1>1. CASE ProjectWorker
 <2>1. PICK j \in JobsSent, e \in EventsPosted : WorkerDoes(j, e)  BY <1>1, <1>i, WorkerStep
 <2>2. /\ jobs # <<>> /\ j = Head(jobs) /\ jobs' = Tail(jobs) /\ inbox' = Append(inbox, e) /\ project' = project
       /\ e.kind = AnswerTo[j.kind]
   BY <2>1 DEF WorkerDoes
 <2>3. /\ j = jobs[1] /\ 1 \in 1 .. Len(jobs)
       /\ \A i \in 1 .. Len(jobs') : i + 1 \in 1 .. Len(jobs) /\ jobs'[i] = jobs[i + 1] /\ i + 1 # 1
   BY <1>q, <2>2, Taken
 <2>4. \A i \in 1 .. Len(jobs') : jobs'[i].kind # "scan"  BY <1>i, <2>3 DEF ScanFirst
 <2>5. e.kind = "scanned" => j.kind = "scan"  BY <2>2, JobIs DEF AnswerTo, SettleJobs
 <2>6. e.kind = "scanned" => Len(inbox) = 0 /\ project = None
   BY <1>i, <1>q, <2>3, <2>5 DEF ScanFirst
 <2>7. /\ Len(inbox') = Len(inbox) + 1 /\ Len(inbox) \in Nat /\ inbox'[Len(inbox) + 1] = e
       /\ \A i \in 1 .. Len(inbox) : inbox'[i] = inbox[i]
   BY <1>q, <2>2, Appended
 <2>8. ASSUME NEW i \in 1 .. Len(inbox'), inbox'[i].kind = "scanned" PROVE i = 1 /\ project = None
   BY <2>6, <2>7, <2>8, <1>i DEF ScanFirst
 <2> QED  BY <2>2, <2>4, <2>8 DEF ScanFirst
\* A new job comes after the scan, and only to an empty inbox while the scan waits.
<1>2. ASSUME NEW j \in JobsSent, j.kind # "scan", jobs' = Append(jobs, j), inbox' = inbox, project' = project
      PROVE  ScanFirst'
 <2>1. /\ Len(jobs') = Len(jobs) + 1 /\ Len(jobs) \in Nat /\ jobs'[Len(jobs) + 1] = j
       /\ \A i \in 1 .. Len(jobs) : jobs'[i] = jobs[i]
   BY <1>2, <1>q, Appended
 <2>2. ASSUME NEW i \in 1 .. Len(jobs'), jobs'[i].kind = "scan" PROVE i \in 1 .. Len(jobs) /\ jobs[i].kind = "scan"
   BY <1>2, <2>1, <2>2
 <2> QED  BY <1>2, <1>i, <2>2 DEF ScanFirst
<1>3. ASSUME UNCHANGED <<jobs, inbox, project>> PROVE ScanFirst'  BY <1>3, <1>i DEF ScanFirst
\* An event is taken: the scan's event was the first, so the others find no scan.
<1>4. ASSUME inbox # <<>>, inbox' = Tail(inbox)
      PROVE  /\ \A i \in 1 .. Len(inbox') : inbox'[i].kind # "scanned"
             /\ \A i \in 1 .. Len(jobs) : jobs[i].kind # "scan"
 <2>1. \A i \in 1 .. Len(inbox') : i + 1 \in 1 .. Len(inbox) /\ inbox'[i] = inbox[i + 1] /\ i + 1 # 1
   BY <1>4, <1>q, Taken
 <2> QED  BY <1>4, <1>i, <2>1 DEF ScanFirst
<1>5. ASSUME NEW kind, Receive(kind), jobs' = jobs PROVE ScanFirst'
  BY <1>4, <1>5 DEF Receive, IsNext, ScanFirst
<1>6. CASE HandleScanned \/ HandleOpened \/ HandleRecovered \/ HandleBegun \/ HandleCompleted \/ HandleAborted
  BY <1>5, <1>6 DEF HandleScanned, HandleOpened, HandleRecovered, HandleBegun, HandleCompleted, HandleAborted
<1>7. CASE HandleFinished
 <2>1. inbox # <<>> /\ Received \in EventsPosted
   BY <1>7, <1>q, Taken DEF HandleFinished, IsNext, Received
 <2>2. CASE inbox' = Tail(inbox) /\ jobs' = jobs  BY <1>4, <2>1, <2>2 DEF ScanFirst
 <2>3. CASE ~(inbox' = Tail(inbox) /\ jobs' = jobs)
  <3>1. Persist("complete", "completed", pending, Tail(inbox)) /\ op # "Idle" /\ Received.kind = "finished"
   <4>1. Received.kind = "finished" /\ Received.ok
     BY <1>7, <2>1, EventIs DEF HandleFinished, IsNext, Received
   <4> QED  BY <1>7, <2>3, <4>1 DEF HandleFinished
  <3> DEFINE j == Job("complete", project, pending)
  <3>2. jobs' = Append(jobs, j) /\ inbox' = Tail(inbox) /\ j \in JobsSent /\ j.kind = "complete"
   <4>1. "complete" \in SettleJobs  BY DEF SettleJobs
   <4>2. project \in Packages /\ pending \in Sessions /\ jobs' = Append(jobs, j) /\ inbox' = Tail(inbox) /\ j \in JobsSent
     BY <1>i, <3>1, <4>1, Persists
   <4> QED  BY <4>1, <4>2, JobMade
  <3> HIDE DEF j
  <3>3. /\ Len(jobs') = Len(jobs) + 1 /\ Len(jobs) \in Nat /\ jobs'[Len(jobs) + 1] = j
        /\ \A i \in 1 .. Len(jobs) : jobs'[i] = jobs[i]
    BY <1>q, <3>2, Appended
  <3>4. ASSUME NEW i \in 1 .. Len(jobs'), jobs'[i].kind = "scan" PROVE i \in 1 .. Len(jobs) /\ jobs[i].kind = "scan"
    BY <3>2, <3>3, <3>4
  <3>5. \A i \in 1 .. Len(jobs') : jobs'[i].kind # "scan"  BY <1>4, <2>1, <3>2, <3>4
  <3> QED  BY <1>4, <2>1, <3>2, <3>5 DEF ScanFirst
 <2> QED  BY <2>2, <2>3
<1>8. ASSUME NEW p \in Packages, OpenProject(p) PROVE ScanFirst'
 <2>1. Job("open", p, None) \in JobsSent /\ Job("open", p, None).kind # "scan"  BY JobMade
 <2> QED  BY <1>2, <1>8, <2>1 DEF OpenProject
<1>9. ASSUME NEW s \in Sessions, RecoverSession(s) PROVE ScanFirst'
 <2> DEFINE j == Job("recover", IF chosen' = None THEN project ELSE chosen', s)
 <2>1. (IF chosen' = None THEN project ELSE chosen') \in Packages
   BY <1>9, <1>i, RecordingAssumption DEF RecoverSession, IInv, TakesInv, TypeOK, PageKeeps, RecordingAssumption
 <2>2. j \in JobsSent /\ j.kind # "scan"  BY <2>1, JobMade DEF SettleJobs
 <2>3. jobs' = Append(jobs, j) /\ inbox' = inbox /\ project' = project  BY <1>9 DEF RecoverSession
 <2> HIDE DEF j
 <2> QED  BY <1>2, <2>2, <2>3
<1>10. ASSUME NEW s \in Sessions, StartRecording(s) PROVE ScanFirst'
 <2>1. project \in Packages  BY <1>10, <1>i DEF StartRecording, TypeOK
 <2> DEFINE j == Job("begin", project, s)
 <2>2. jobs' = Append(jobs, j) /\ inbox' = inbox /\ project' = project
   BY <1>10, <2>1 DEF StartRecording, Persist
 <2>3. j \in JobsSent /\ j.kind # "scan"  BY <2>1, JobMade DEF SettleJobs
 <2> HIDE DEF j
 <2> QED  BY <1>2, <2>2, <2>3
<1>11. CASE LeaveRecoveryForLater \/ (\E to \in {"Home", "Studio"} : Navigate(to)) \/ StopRecording \/ EngineFails
            \/ ListenerHears \/ UNCHANGED vars
  BY <1>3, <1>11 DEF LeaveRecoveryForLater, Navigate, StopRecording, EngineFails, ListenerHears, vars
<1>12. CASE EngineFinishes
 <2>1. op # "Idle" /\ project # None  BY <1>12, <1>i DEF EngineFinishes, EngineIsFree, TakeKeeps
 <2>2. run \in Sessions  BY <1>12, <1>i DEF EngineFinishes, EngineIsFree, TypeOK, TakeKeeps
 <2> DEFINE e == Event("finished", None, {run}, TRUE)
 <2>3. e \in EventsPosted /\ e.kind = "finished"  BY <2>2 DEF Event, EventsPosted
 <2>4. inbox' = Append(inbox, e) /\ jobs' = jobs /\ project' = project  BY <1>12 DEF EngineFinishes
 <2> HIDE DEF e
 <2>5. /\ Len(inbox') = Len(inbox) + 1 /\ Len(inbox) \in Nat /\ inbox'[Len(inbox) + 1] = e
       /\ \A i \in 1 .. Len(inbox) : inbox'[i] = inbox[i]
   BY <1>q, <2>3, <2>4, Appended
 <2>6. ASSUME NEW i \in 1 .. Len(inbox'), inbox'[i].kind = "scanned" PROVE FALSE
  <3>1. i \in 1 .. Len(inbox) /\ inbox[i].kind = "scanned"  BY <2>3, <2>5, <2>6
  <3> QED  BY <1>i, <2>1, <3>1 DEF ScanFirst
 <2> QED  BY <1>i, <2>1, <2>4, <2>6 DEF ScanFirst
<1>13. ASSUME NEW ok \in BOOLEAN, ListenerPrepared(ok) PROVE ScanFirst'
 <2>1. asked = pending /\ op = "Preparing" /\ pending \in Sessions /\ project' = project
   BY <1>13, <1>i DEF ListenerPrepared, FinishPreparation, TakeKeeps, TypeOK
 <2>2. CASE AbortStarted(inbox)
  <3> DEFINE j == Job("abort", project, pending)
  <3>1. "abort" \in SettleJobs /\ op # "Idle" /\ Persist("abort", "aborted", pending, inbox)
    BY <2>1, <2>2 DEF SettleJobs, AbortStarted
  <3>2. project \in Packages /\ jobs' = Append(jobs, j) /\ inbox' = inbox /\ j \in JobsSent
    BY <1>i, <3>1, Persists
  <3>3. j.kind # "scan"  BY <2>1, <3>1, <3>2, JobMade
  <3> HIDE DEF j
  <3> QED  BY <1>2, <2>1, <3>2, <3>3
 <2>3. CASE ~AbortStarted(inbox)
  <3>1. UNCHANGED <<jobs, inbox>>
    BY <1>13, <2>1, <2>3 DEF ListenerPrepared, FinishPreparation, StartEngine
  <3> QED  BY <1>3, <2>1, <3>1
 <2> QED  BY <2>2, <2>3
<1> QED
  BY <1>1, <1>6, <1>7, <1>8, <1>9, <1>10, <1>11, <1>12, <1>13 DEF Next, ProjectUser, TakeUser, EventLoop, Listener

LEMMA AppendedRange ==
    ASSUME NEW S, NEW q \in Seq(S), NEW e
    PROVE  Range(Append(q, e)) = Range(q) \cup {e}
<1>1. q \in Seq(S \cup {e})  OBVIOUS
<1> QED  BY <1>1, Appended

\* A step of a take: it leaves the project page alone and sends no job and posts no answer of
\* the page's.
TakeStep ==
    \/ TakeUser \/ EngineFails \/ EngineFinishes \/ Listener
    \/ HandleBegun \/ HandleFinished \/ HandleCompleted \/ HandleAborted

LEMMA TakeLeavesPage ==
    ASSUME TypeOK, TakeStep
    PROVE  /\ UNCHANGED <<home, projectVars>>
           /\ \A j \in Range(jobs') : j \in Range(jobs) \/ j.kind \in TakeJobs
           /\ \A e \in Range(inbox') : e \in Range(inbox) \/ e.kind \in TakeAnswers
<1> USE DEF rowVars
<1> DEFINE Sent == \A j \in Range(jobs') : j \in Range(jobs) \/ j.kind \in TakeJobs
           Posted == \A e \in Range(inbox') : e \in Range(inbox) \/ e.kind \in TakeAnswers
<1>q. jobs \in Seq(JobsSent) /\ inbox \in Seq(EventsPosted)  BY DEF TypeOK
<1>p. ASSUME NEW kind \in TakeJobs, NEW answer \in TakeAnswers, NEW s, NEW rest \in Seq(EventsPosted),
             Range(rest) \subseteq Range(inbox), Persist(kind, answer, s, rest)
      PROVE  Sent /\ Posted
 <2>1. Job(kind, project, s).kind = kind /\ Event(answer, None, {s}, FALSE).kind = answer
   BY DEF Job, Event
 <2>2. Range(Append(jobs, Job(kind, project, s))) = Range(jobs) \cup {Job(kind, project, s)}
   BY <1>q, AppendedRange
 <2>3. Range(Append(rest, Event(answer, None, {s}, FALSE))) = Range(rest) \cup {Event(answer, None, {s}, FALSE)}
   BY AppendedRange
 <2>4. CASE project = None  BY <1>p, <2>1, <2>3, <2>4 DEF Persist
 <2>5. CASE project # None  BY <1>p, <2>1, <2>2, <2>5 DEF Persist
 <2> QED  BY <2>4, <2>5
<1>t. ASSUME inbox # <<>> PROVE Tail(inbox) \in Seq(EventsPosted) /\ Range(Tail(inbox)) \subseteq Range(inbox)
  BY <1>q, <1>t, Taken
<1>1. CASE TakeUser
 <2>1. CASE StopRecording  BY <2>1 DEF StopRecording
 <2>2. ASSUME NEW s \in Sessions, StartRecording(s)
       PROVE  Sent /\ Posted /\ UNCHANGED <<home, projectVars>>
   BY <1>p, <1>q, <2>2, KindsAre DEF StartRecording
 <2> QED  BY <1>1, <2>1, <2>2 DEF TakeUser
<1>2. CASE EngineFails  BY <1>2 DEF EngineFails
<1>3. CASE EngineFinishes
 <2> DEFINE e == Event("finished", None, {run}, TRUE)
 <2>1. inbox' = Append(inbox, e) /\ UNCHANGED <<jobs, home, projectVars>>
   BY <1>3 DEF EngineFinishes
 <2>2. e.kind \in TakeAnswers  BY KindsAre DEF Event
 <2> HIDE DEF e
 <2>3. Range(inbox') = Range(inbox) \cup {e}  BY <1>q, <2>1, AppendedRange
 <2> QED  BY <2>1, <2>2, <2>3
<1>4. CASE Listener
 <2>1. CASE ListenerHears  BY <2>1 DEF ListenerHears
 <2>2. ASSUME NEW ok \in BOOLEAN, ListenerPrepared(ok)
       PROVE  Sent /\ Posted /\ UNCHANGED <<home, projectVars>>
   BY <2>2, <1>p, <1>q, KindsAre DEF ListenerPrepared, FinishPreparation, StartEngine, AbortStarted
 <2> QED  BY <1>4, <2>1, <2>2 DEF Listener
<1>5. CASE HandleFinished  BY <1>5, <1>p, <1>t, KindsAre DEF HandleFinished, IsNext
<1>6. CASE HandleBegun \/ HandleCompleted \/ HandleAborted
  BY <1>t, <1>6 DEF HandleBegun, HandleCompleted, HandleAborted, Receive, IsNext
<1> QED  BY <1>1, <1>2, <1>3, <1>4, <1>5, <1>6 DEF TakeStep

\* A recovery under way knows the package it opens, and what is on display, or on its way to
\* it, is in some package.
PagePart ==
    /\ page = "Recovery" /\ project # None => chosen # None
    /\ (\E j \in Range(jobs) : j.kind = "recover") \/ (\E e \in Range(inbox) : e.kind = "recovered") => chosen # None
    /\ \A s \in offered : home[s] # None
    /\ \A e \in Range(inbox) : e.kind \in {"scanned", "opened"} => \A s \in e.sessions : home[s] # None

LEMMA PageParts ==
    /\ TypeOK => (PageKeeps <=> PagePart /\ ScanFirst)
    /\ TypeOK' => (PageKeeps' <=> PagePart' /\ ScanFirst')
<1>1. ASSUME TypeOK PROVE PageKeeps <=> PagePart /\ ScanFirst
  BY <1>1, HasRange DEF TypeOK, PageKeeps, PagePart, ScanFirst
<1>2. ASSUME TypeOK' PROVE PageKeeps' <=> PagePart' /\ ScanFirst'
  BY <1>2, HasRange DEF TypeOK, PageKeeps, PagePart, ScanFirst
<1> QED  BY <1>1, <1>2

LEMMA PagePartStep == IInv /\ [Next]_vars => PagePart'
<1> SUFFICES ASSUME IInv, [Next]_vars PROVE PagePart'  OBVIOUS
<1> USE DEF takeVars, projectVars, engineVars, rowVars
<1>i. TypeOK /\ TypeOK' /\ PagePart /\ ScanFirst  BY RecordingTypes, PageParts DEF IInv, TakesInv
<1>q. /\ jobs \in Seq(JobsSent) /\ inbox \in Seq(EventsPosted) /\ page \in {"Home", "Studio", "Recovery"}
      /\ home \in [Sessions -> Packages \cup {None}] /\ offered \subseteq Sessions /\ None \notin Packages
  BY <1>i, RecordingAssumption DEF TypeOK, RecordingAssumption
<1>b. PageTravels => busy  BY UnderWayParts DEF IInv, TakesInv
<1>1. CASE ProjectWorker
 <2>1. PICK j \in JobsSent, e \in EventsPosted : WorkerDoes(j, e)  BY <1>1, <1>i, WorkerStep
 <2>2. /\ j \in Range(jobs) /\ Range(jobs') \subseteq Range(jobs) /\ Range(inbox') = Range(inbox) \cup {e}
       /\ UNCHANGED <<project, chosen, offered, page>>
   BY <1>q, <2>1, Taken, Appended DEF WorkerDoes
 <2>3. e.kind = "recovered" => j.kind = "recover"
   BY <2>1, JobIs DEF WorkerDoes, AnswerTo, SettleJobs
 <2>4. e.kind \in {"scanned", "opened"} => \A s \in e.sessions : home[s] # None
   BY <2>1, JobIs DEF WorkerDoes, AnswerTo, SettleJobs
 <2>5. \A s \in Sessions : home[s] # None => home'[s] # None  BY <2>1 DEF WorkerDoes
 <2>6. ASSUME NEW x \in Range(inbox'), x.kind \in {"scanned", "opened"}, NEW s \in x.sessions PROVE home'[s] # None
  <3>1. x \in EventsPosted  BY <1>i, <2>6 DEF TypeOK, Range
  <3>2. s \in Sessions  BY <2>6, <3>1, EventIs
  <3> QED  BY <1>i, <2>2, <2>4, <2>5, <2>6, <3>2 DEF PagePart
 <2> QED  BY <1>i, <1>q, <2>2, <2>3, <2>5, <2>6 DEF PagePart
<1>2. ASSUME NEW p \in Packages, OpenProject(p) PROVE PagePart'
  BY <1>2, <1>q, AppendedRange, JobMade, <1>i DEF OpenProject, PagePart
<1>3. ASSUME NEW s \in Sessions, RecoverSession(s) PROVE PagePart'
  BY <1>3, <1>i DEF RecoverSession, PagePart
<1>4. CASE LeaveRecoveryForLater
  BY <1>4, <1>b, <1>q, HasRange, KindsAre, <1>i DEF LeaveRecoveryForLater, PageTravels, Travels,
    PagePart
<1>5. ASSUME NEW to \in {"Home", "Studio"}, Navigate(to) PROVE PagePart'
  BY <1>5, <1>i DEF Navigate, PagePart
<1>6. ASSUME NEW kind, Receive(kind)
      PROVE  Received \in Range(inbox) /\ Received.kind = kind /\ Received \in EventsPosted
             /\ Range(inbox') \subseteq Range(inbox)
  BY <1>6, <1>q, Taken DEF Receive, IsNext, Received
<1>7. CASE HandleScanned
  BY <1>6, <1>7, <1>q, Taken, <1>i DEF HandleScanned, Receive, IsNext, ScanFirst, PagePart
<1>8. CASE HandleOpened \/ HandleRecovered
  BY <1>8, Hears, KindsAre, <1>i, HasRange, <1>6, EventIs, <1>q DEF HandleOpened, HandleRecovered,
    TypeOK, PageTravels, Travels, Opened, PagePart
<1>9. CASE TakeStep  BY <1>9, <1>i, TakeLeavesPage, KindsAre DEF PagePart
<1>10. CASE UNCHANGED vars  BY <1>10, <1>i DEF vars, PagePart
<1> QED
  BY <1>1, <1>2, <1>3, <1>4, <1>5, <1>7, <1>8, <1>9, <1>10 DEF Next, ProjectUser, TakeStep, EventLoop

LEMMA InvariantStep == IInv /\ [Next]_vars => IInv'
<1> SUFFICES ASSUME IInv, [Next]_vars PROVE IInv'  OBVIOUS
<1>1. TypeOK' /\ OneUnderWay' /\ TakePart' /\ PageKeeps'
  BY RecordingTypes, OneUnderWayStep, TakePartStep, ScanFirstStep, PagePartStep, PageParts
<1> QED  BY <1>1 DEF IInv, TakesInv, TakePart

-----------------------------------------------------------------------------

\* However the user, the project worker, the engine and the Studio interleave, and for any
\* number of sessions and packages: no answer of the store or of the engine is discarded, the
\* next take finds the engine free, what was recorded is never marked ABORTED and what is
\* announced is durable (LiveRecordingController.cpp:177-403, ProjectController.cpp:46-80).
THEOREM TakesCorrect == Spec => [](TypeOK /\ TakesInv)
<1> QED  BY InitHolds, InvariantStep, PTL DEF Spec, IInv

\* A project once open stays open: what recoveryFinished moves into project_ is never empty
\* (ProjectController.cpp:66).
THEOREM ProjectNeverCloses == Spec => ProjectStaysOpen
<1>1. IInv /\ [Next]_vars => [project # None => project' # None]_vars  BY OpenStays
<1> QED  BY <1>1, InitHolds, InvariantStep, PTL DEF Spec, ProjectStaysOpen

-----------------------------------------------------------------------------
(* The face: types, and what holds all the time *)

Tracks == {"live", "session", "worker", "calibration"}
Datagrams == [n : Nat, faces : Seq(Nat)]
Samples == [time : Nat, of : SUBSET Nat, provider : {1, 2}]
Lines == [sample : Samples, readable : BOOLEAN]
Fates == {"alive", "ended", "reaped"}

SocketTypes ==
    /\ tracking \in Tracks
    /\ socket \in Seq(Datagrams) /\ Len(socket) <= SocketRoom /\ sent \in 0 .. MaxDatagram
PoseTypes == pose.answer \in {"none", "error", "face"} /\ pose.have \in BOOLEAN /\ pose.face[1] \in Nat
SessionTypes ==
    /\ session.on \in BOOLEAN /\ session.count \in 0 .. MaxSession /\ session.provider \in {1, 2}
    /\ session.since \in Nat /\ session.time \in 0 .. MaxProject /\ session.polls \in Nat
    /\ session = [on |-> session.on, count |-> session.count, provider |-> session.provider,
                  since |-> session.since, time |-> session.time, polls |-> session.polls]
SampleTypes == smoother \in [warm : BOOLEAN, time : 0 .. MaxProject, of : SUBSET (1 .. MaxDatagram)]
FileTypes ==
    telemetry \in [lines : Seq(Lines), cut : BOOLEAN] /\ written \in Seq(Samples) /\ mishap \in BOOLEAN
ChildTypes ==
    /\ supervised.windows \in BOOLEAN /\ supervised.child \in Seq(Fates)
    /\ supervised.pid \in 0 .. Len(supervised.child)
    /\ supervised = [windows |-> supervised.windows, pid |-> supervised.pid, child |-> supervised.child]
ShotTypes == shots \in Seq(0 .. 3) /\ Len(shots) <= MaxShot
FaceTypes ==
    /\ SocketTypes /\ PoseTypes /\ SessionTypes /\ SampleTypes /\ FileTypes /\ ChildTypes /\ ShotTypes

\* Datagrams wait in the order they came, those of a session came after its begin, and
\* without a session there is no socket.
SocketFits ==
    /\ \A i \in DOMAIN socket : socket[i].n \in 1 .. sent
    /\ \A i, j \in DOMAIN socket : i < j => socket[i].n < socket[j].n
    /\ tracking # "live" /\ ~session.on => socket = <<>>
    /\ session.on => tracking = "session" /\ session.count > 0
    /\ session.on => \A i \in DOMAIN socket : session.since < socket[i].n
    /\ session.since <= sent

\* The face is of a datagram that has left the socket.
PoseFits ==
    /\ Primary(pose.taken) # NoFace => pose.face = Primary(pose.taken)
    /\ pose.answer = "error" => ~pose.have
    /\ pose.face[1] <= sent
    /\ \A i \in DOMAIN socket : pose.face[1] < socket[i].n

\* A file that loads has what was acknowledged, in increasing times; a session without a
\* mishap leaves nothing but whole lines of its provider.
TelemetryFits ==
    /\ telemetry.lines = <<>> => ~telemetry.cut /\ written = <<>>
    /\ Loads =>
          /\ \A i \in DOMAIN written : \E k \in DOMAIN telemetry.lines : telemetry.lines[k].sample = written[i]
          /\ \A i, j \in DOMAIN written : i < j => written[i].time < written[j].time
    /\ session.count = 0 => telemetry.lines = <<>>
    /\ ~mishap /\ session.count = 1 =>
          /\ ~telemetry.cut
          /\ \A i \in DOMAIN telemetry.lines :
                telemetry.lines[i].readable /\ telemetry.lines[i].sample.provider = session.provider

FaceKeeps == FaceTypes /\ SocketFits /\ PoseFits /\ NothingBleeds /\ TelemetryFits /\ WorkerIsOwned

\* The least of some numbers.
LEMMA Least ==
    ASSUME NEW S, S \subseteq Nat, S # {}
    PROVE  \E d \in S : \A e \in S : d <= e
<1>1. PICK d \in S : \A e \in S : ~(<<e, d>> \in OpToRel(<, Nat))  BY NatLessThanWellFounded, WFMin
<1>2. ASSUME NEW e \in S PROVE d <= e
 <2>1. <<e, d>> \in Nat \X Nat  OBVIOUS
 <2>2. ~(e < d)  BY <1>1, <2>1 DEF OpToRel
 <2> QED  BY <2>2
<1> QED  BY <1>2

\* The greatest of numbers that are bounded.
LEMMA Greatest ==
    ASSUME NEW S, S \subseteq Nat, S # {}, NEW b \in Nat, \A e \in S : e <= b
    PROVE  \E d \in S : \A e \in S : e <= d
<1> DEFINE R == {b - e : e \in S}
<1>1. R \subseteq Nat /\ R # {}
 <2>1. R \subseteq Nat  OBVIOUS
 <2>2. PICK e \in S : TRUE  OBVIOUS
 <2>3. b - e \in R  OBVIOUS
 <2> QED  BY <2>1, <2>3
<1>2. PICK r \in R : \A q \in R : r <= q  BY <1>1, Least
<1>3. PICK d \in S : r = b - d  OBVIOUS
<1>4. ASSUME NEW e \in S PROVE e <= d  BY <1>2, <1>3
<1> QED  BY <1>4

LEMMA Elements == \A S : \A s \in Seq(S) : \A i \in DOMAIN s : s[i] \in S
BY ElementOfSeq

\* A sequence and one more.
LEMMA Added ==
    ASSUME NEW S, NEW s \in Seq(S), NEW e \in S
    PROVE  /\ Append(s, e) \in Seq(S) /\ Len(Append(s, e)) = Len(s) + 1 /\ Len(s) \in Nat
           /\ DOMAIN s = 1 .. Len(s) /\ DOMAIN Append(s, e) = 1 .. Len(s) + 1
           /\ \A i \in 1 .. Len(s) : Append(s, e)[i] = s[i]
           /\ Append(s, e)[Len(s) + 1] = e /\ Append(s, e) # <<>>
  OBVIOUS

-----------------------------------------------------------------------------
(* The face: the socket *)

\* It holds before anything is received.
LEMMA FaceStarts == FaceInit => FaceKeeps
<1> SUFFICES ASSUME FaceInit PROVE FaceKeeps  OBVIOUS
<1> USE FaceAssumption DEF FaceAssumption
<1>1. /\ socket = <<>> /\ sent = 0 /\ written = <<>> /\ mishap = FALSE /\ shots = <<>>
      /\ pose = [have |-> FALSE, face |-> NoFace, answer |-> "none", taken |-> Nothing]
      /\ session = [on |-> FALSE, count |-> 0, provider |-> 1, since |-> 0, time |-> 0, polls |-> 0]
      /\ smoother = [warm |-> FALSE, time |-> 0, of |-> {}]
      /\ telemetry = [lines |-> <<>>, cut |-> FALSE]
      /\ tracking \in Tracks /\ supervised \in [windows : BOOLEAN, pid : {0}, child : {<<>>}]
  BY DEF FaceInit, Tracks
<1>2. /\ session.on = FALSE /\ session.count = 0 /\ session.provider = 1 /\ session.since = 0
      /\ session.time = 0 /\ session.polls = 0
  BY <1>1
<1>3. /\ telemetry.lines = <<>> /\ telemetry.cut = FALSE
      /\ supervised.pid = 0 /\ supervised.child = <<>> /\ supervised.windows \in BOOLEAN
      /\ supervised = [windows |-> supervised.windows, pid |-> 0, child |-> <<>>]
  BY <1>1
<1>4. pose.have = FALSE /\ pose.face = <<0, 0>> /\ pose.answer = "none" /\ pose.taken = Nothing
  BY <1>1 DEF NoFace
<1>5. \A S : <<>> \in Seq(S) /\ Len(<<>>) = 0 /\ DOMAIN <<>> = {}  OBVIOUS
<1>6. FaceTypes
 <2>1. SessionTypes  BY <1>1, <1>2 DEF SessionTypes
 <2>2. SampleTypes  BY <1>1 DEF SampleTypes
 <2>3. FileTypes  BY <1>1, <1>5 DEF FileTypes
 <2>4. ChildTypes  BY <1>3, <1>5 DEF ChildTypes
 <2>5. PoseTypes
  <3>1. pose.have \in BOOLEAN  BY <1>4, Zenon
  <3>2. pose.answer \in {"none", "error", "face"} /\ pose.face[1] \in Nat  BY <1>4
  <3> QED  BY <3>1, <3>2 DEF PoseTypes
 <2>6. SocketTypes  BY <1>1, <1>5 DEF SocketTypes
 <2>7. ShotTypes  BY <1>1, <1>5 DEF ShotTypes
 <2> QED  BY <2>1, <2>2, <2>3, <2>4, <2>5, <2>6, <2>7 DEF FaceTypes
<1>7. SocketFits  BY <1>1, <1>2, <1>5 DEF SocketFits
<1>8. PoseFits  BY <1>1, <1>4, <1>5 DEF Primary, Nothing, PoseFits
<1>9. NothingBleeds /\ WorkerIsOwned  BY <1>2, <1>3, <1>5 DEF NothingBleeds, WorkerIsOwned
<1>10. TelemetryFits  BY <1>1, <1>2, <1>3, <1>5 DEF TelemetryFits, Loads
<1> QED  BY <1>6, <1>7, <1>8, <1>9, <1>10 DEF FaceKeeps

\* What each property reads: a step that leaves it as it is keeps the property.
LEMMA FaceFrames ==
    /\ WorkerIsOwned /\ UNCHANGED supervised => WorkerIsOwned'
    /\ TelemetryFits /\ UNCHANGED <<session, telemetry, written, mishap>> => TelemetryFits'
    /\ NothingBleeds /\ UNCHANGED <<session, smoother>> => NothingBleeds'
    /\ PoseFits /\ UNCHANGED <<socket, sent, pose>> => PoseFits'
    /\ SocketFits /\ UNCHANGED <<socket, sent, session, tracking>> => SocketFits'
    /\ SocketTypes /\ UNCHANGED <<tracking, socket, sent>> => SocketTypes'
    /\ PoseTypes /\ UNCHANGED pose => PoseTypes'
    /\ SessionTypes /\ UNCHANGED session => SessionTypes'
    /\ SampleTypes /\ UNCHANGED smoother => SampleTypes'
    /\ FileTypes /\ UNCHANGED <<telemetry, written, mishap>> => FileTypes'
    /\ ChildTypes /\ UNCHANGED supervised => ChildTypes'
    /\ ShotTypes /\ UNCHANGED shots => ShotTypes'
  BY DEF WorkerIsOwned, TelemetryFits, Loads, Increasing, NothingBleeds, PoseFits, Primary,
    SocketFits, SocketTypes, PoseTypes, SessionTypes, SampleTypes, FileTypes, ChildTypes, ShotTypes

\* What is left of a sequence behind its first elements.
LEMMA Leaves ==
    ASSUME NEW S, NEW s \in Seq(S), NEW k \in 1 .. Len(s) + 1,
           NEW r, r = SubSeq(s, k + 1, Len(s))
    PROVE  /\ r \in Seq(S) /\ Len(r) <= Len(s) /\ DOMAIN r = 1 .. Len(r)
           /\ \A i \in DOMAIN r : k + i \in DOMAIN s /\ r[i] = s[k + i]
<1>1. k \in Nat /\ k >= 1 /\ k + 1 \in Nat /\ Len(s) \in Nat /\ DOMAIN s = 1 .. Len(s)  OBVIOUS
<1>2. \A i \in k + 1 .. Len(s) : i \in 1 .. Len(s)  BY <1>1
<1>3. /\ r \in Seq(S) /\ Len(r) = IF k + 1 <= Len(s) THEN Len(s) - (k + 1) + 1 ELSE 0
      /\ \A i \in 1 .. Len(s) - (k + 1) + 1 : r[i] = s[k + 1 + i - 1]
  BY <1>1, <1>2, SubSeqProperties
<1>4. DOMAIN r = 1 .. Len(r)  BY <1>3
<1>5. ASSUME NEW i \in DOMAIN r PROVE k + i \in DOMAIN s /\ r[i] = s[k + i]
 <2>1. i \in 1 .. Len(s) - (k + 1) + 1
  <3>1. i \in Nat /\ 1 <= i /\ i <= Len(r)  BY <1>3, <1>4
  <3>2. CASE k + 1 <= Len(s)  BY <1>1, <1>3, <3>1, <3>2
  <3>3. CASE ~(k + 1 <= Len(s))  BY <1>1, <1>3, <3>1, <3>3
  <3> QED  BY <3>2, <3>3
 <2>2. k + 1 + i - 1 = k + i  BY <1>1, <2>1
 <2> QED  BY <1>1, <1>3, <2>1, <2>2
<1>6. Len(r) <= Len(s)  BY <1>1, <1>3
<1> QED  BY <1>3, <1>4, <1>5, <1>6

\* What is left of a sequence behind its first element.
LEMMA TailLeaves ==
    ASSUME NEW S, NEW s \in Seq(S), s # <<>>
    PROVE  /\ Tail(s) \in Seq(S) /\ Len(Tail(s)) <= Len(s) /\ Head(s) = s[1] /\ 1 \in DOMAIN s
           /\ \A i \in DOMAIN Tail(s) : 1 + i \in DOMAIN s /\ Tail(s)[i] = s[1 + i]
  OBVIOUS

\* A datagram arrives, or finds no room.
LEMMA ArriveKeeps ==
    ASSUME FaceKeeps, tracking = "live" \/ session.on, NEW batch \in Batches, Arrive(batch)
    PROVE  FaceKeeps'
<1> USE FaceAssumption DEF FaceAssumption
<1>k. FaceTypes /\ SocketFits /\ PoseFits /\ NothingBleeds /\ TelemetryFits /\ WorkerIsOwned
  BY DEF FaceKeeps
<1> DEFINE d == [n |-> sent + 1, faces |-> batch]
<1>1. /\ sent < MaxDatagram /\ sent' = sent + 1 /\ tracking' = tracking /\ pose' = pose /\ session' = session
      /\ smoother' = smoother /\ telemetry' = telemetry /\ written' = written /\ mishap' = mishap
      /\ supervised' = supervised /\ shots' = shots
      /\ socket' = IF Len(socket) < SocketRoom THEN Append(socket, d) ELSE socket
  BY DEF Arrive, sessionVars
<1>2. /\ socket \in Seq(Datagrams) /\ Len(socket) <= SocketRoom /\ sent \in 0 .. MaxDatagram /\ sent \in Nat
      /\ pose.face[1] \in Nat /\ session.since \in Nat
  BY <1>k DEF FaceTypes, SocketTypes, PoseTypes, SessionTypes
<1>3. d \in Datagrams /\ d.n = sent + 1
 <2>1. batch \in Seq(Nat)
  <3>1. /\ <<>> \in Seq(Nat) /\ <<1>> \in Seq(Nat) /\ <<2>> \in Seq(Nat) /\ <<0>> \in Seq(Nat)
        /\ <<1, 2, 2>> \in Seq(Nat)
    OBVIOUS
  <3> QED  BY <3>1 DEF Batches, Malformed
 <2> QED  BY <2>1, <1>2 DEF Datagrams
<1> HIDE DEF d
<1>4. /\ socket' \in Seq(Datagrams) /\ Len(socket') <= SocketRoom
      /\ \A i \in DOMAIN socket' : (i \in DOMAIN socket /\ socket'[i] = socket[i])
                                   \/ (i = Len(socket) + 1 /\ socket'[i] = d)
      /\ \A i \in DOMAIN socket : i < Len(socket) + 1 /\ i \in Nat
      /\ Len(socket) \in Nat
  BY <1>1, <1>2, <1>3, Added
<1>5. FaceTypes'  BY <1>k, <1>1, <1>2, <1>4, FaceFrames DEF FaceTypes, SocketTypes
<1>6. SocketFits'
 <2>1. \A i \in DOMAIN socket : socket[i].n \in 1 .. sent  BY <1>k DEF SocketFits
 <2>2. \A i \in DOMAIN socket' : socket'[i].n \in 1 .. sent'
   BY SMTT(40), <1>1, <1>2, <1>3, <1>4, <2>1
 <2>3. ASSUME NEW i \in DOMAIN socket', NEW j \in DOMAIN socket', i < j PROVE socket'[i].n < socket'[j].n
  <3>1. i \in DOMAIN socket  BY <1>4, <2>3
  <3>2. socket'[i] = socket[i] /\ socket[i].n <= sent /\ socket[i].n \in Nat
    BY SMTT(40), <1>4, <2>1, <3>1, <1>2
  <3>3. CASE j \in DOMAIN socket
   <4>1. socket'[j] = socket[j]  BY <1>4, <3>3
   <4> QED  BY <1>k, <2>3, <3>1, <3>2, <3>3, <4>1 DEF SocketFits
  <3>4. CASE j \notin DOMAIN socket  BY SMTT(40), <1>2, <1>3, <1>4, <3>2, <3>4
  <3> QED  BY <3>3, <3>4
 <2>4. tracking = "live" \/ session.on  OBVIOUS
 <2>5. ASSUME session.on PROVE \A i \in DOMAIN socket' : session.since < socket'[i].n
   BY SMTT(40), <1>k, <1>2, <1>3, <1>4, <2>5 DEF SocketFits
 <2>7. /\ tracking' # "live" /\ ~session'.on => socket' = <<>>
       /\ session'.on => tracking' = "session" /\ session'.count > 0
       /\ session'.since <= sent'
   BY <1>k, <1>1, <1>2, <2>4 DEF SocketFits
 <2>8. session'.on => \A i \in DOMAIN socket' : session'.since < socket'[i].n  BY <1>1, <2>5
 <2> QED  BY <2>2, <2>3, <2>7, <2>8 DEF SocketFits
<1>7. PoseFits'
 <2>1. pose.face[1] <= sent /\ \A i \in DOMAIN socket : pose.face[1] < socket[i].n
   BY <1>k DEF PoseFits
 <2>2. \A i \in DOMAIN socket' : pose.face[1] < socket'[i].n  BY SMTT(40), <1>2, <1>3, <1>4, <2>1
 <2>3. pose.face[1] <= sent'  BY <1>1, <1>2, <2>1
 <2> QED  BY <1>k, <1>1, <2>2, <2>3 DEF PoseFits, Primary
<1>8. NothingBleeds' /\ TelemetryFits' /\ WorkerIsOwned'  BY <1>k, <1>1, FaceFrames
<1> QED  BY <1>5, <1>6, <1>7, <1>8 DEF FaceKeeps

\* The live provider empties the socket, up to a malformed datagram.
LEMMA ProcessFrameKeeps ==
    ASSUME FaceKeeps, tracking = "live", ProcessFrame
    PROVE  FaceKeeps'
<1> USE FaceAssumption DEF FaceAssumption
<1>k. FaceTypes /\ SocketFits /\ PoseFits /\ NothingBleeds /\ TelemetryFits /\ WorkerIsOwned
  BY DEF FaceKeeps
<1> DEFINE k == FirstMalformed
           face == IF k = 1 THEN NoFace ELSE Primary(socket[k - 1])
           held == IF face = NoFace THEN pose.face ELSE face
<1>1. /\ socket' = SubSeq(socket, k + 1, Len(socket)) /\ pose'.have = (held # NoFace) /\ pose'.face = held
      /\ pose'.taken = IF k = 1 THEN pose.taken ELSE socket[k - 1]
      /\ pose'.answer = IF held # NoFace THEN "face" ELSE IF k = 1 /\ socket # <<>> THEN "error" ELSE "none"
      /\ tracking' = tracking /\ sent' = sent /\ session' = session /\ smoother' = smoother
      /\ telemetry' = telemetry /\ written' = written /\ mishap' = mishap
      /\ supervised' = supervised /\ shots' = shots
  BY DEF ProcessFrame, sessionVars
<1>2. /\ socket \in Seq(Datagrams) /\ Len(socket) <= SocketRoom /\ sent \in 0 .. MaxDatagram /\ sent \in Nat
      /\ pose.face[1] \in Nat /\ Len(socket) \in Nat /\ DOMAIN socket = 1 .. Len(socket)
      /\ socket' = SubSeq(socket, k + 1, Len(socket))
  BY <1>k, <1>1 DEF FaceTypes, SocketTypes, PoseTypes
<1>3. k \in 1 .. Len(socket) + 1
 <2> DEFINE bad == {i \in DOMAIN socket : socket[i].faces = Malformed}
 <2>1. CASE bad = {}  BY <1>2, <2>1 DEF FirstMalformed
 <2>2. CASE bad # {}
  <3>1. bad \subseteq Nat  BY <1>2
  <3>2. \E i \in bad : \A j \in bad : i <= j  BY <2>2, <3>1, Least
  <3>3. k \in bad  BY <2>2, <3>2 DEF FirstMalformed
  <3> QED  BY <1>2, <3>3
 <2> QED  BY <2>1, <2>2
<1>4. \A e : Primary(e) # NoFace => Primary(e)[1] = e.n  BY DEF Primary, NoFace
<1>5. session.on = FALSE  BY <1>k DEF SocketFits, FaceTypes, SessionTypes
<1> HIDE DEF k
<1>6. /\ socket' \in Seq(Datagrams) /\ Len(socket') <= Len(socket) /\ Len(socket') \in Nat
      /\ \A i \in DOMAIN socket' : i \in Nat \ {0} /\ k + i \in DOMAIN socket /\ socket'[i] = socket[k + i]
 <2>1. SubSeq(socket, k + 1, Len(socket)) = socket'  BY <1>2
 <2>2. /\ socket' \in Seq(Datagrams) /\ Len(socket') <= Len(socket) /\ DOMAIN socket' = 1 .. Len(socket')
       /\ \A i \in DOMAIN socket' : k + i \in DOMAIN socket /\ socket'[i] = socket[k + i]
  <3>1. PICK r : r = SubSeq(socket, k + 1, Len(socket))  OBVIOUS
  <3>2. socket \in Seq(Datagrams)  BY <1>2
  <3>3. /\ r \in Seq(Datagrams) /\ Len(r) <= Len(socket) /\ DOMAIN r = 1 .. Len(r)
        /\ \A i \in DOMAIN r : k + i \in DOMAIN socket /\ r[i] = socket[k + i]
    BY <1>3, <3>1, <3>2, Leaves, SMTT(40)
  <3>4. r = socket'  BY <2>1, <3>1
  <3> QED  BY <3>3, <3>4
 <2> QED  BY <2>2
<1>7. held[1] \in Nat /\ held[1] <= sent /\ \A i \in DOMAIN socket' : held[1] < socket'[i].n
 <2>1. CASE face = NoFace  BY <2>1, <1>k, <1>6 DEF PoseFits, FaceTypes, PoseTypes
 <2>2. CASE face # NoFace
  <3>1. k # 1 /\ k - 1 \in DOMAIN socket /\ face = Primary(socket[k - 1]) /\ held = face
    BY <1>2, <1>3, <2>2
  <3>2. held[1] = socket[k - 1].n  BY <1>4, <2>2, <3>1
  <3>3. socket[k - 1].n \in 1 .. sent  BY <1>k, <3>1 DEF SocketFits
  <3>4. ASSUME NEW i \in DOMAIN socket' PROVE socket[k - 1].n < socket'[i].n
   <4>1. k - 1 < k + i  BY <1>3, <1>6
   <4> QED  BY <1>k, <1>6, <3>1, <4>1 DEF SocketFits
  <3>5. socket[k - 1].n \in Nat /\ socket[k - 1].n <= sent  BY <1>2, <3>3
  <3> HIDE DEF held, face
  <3> QED  BY <3>2, <3>4, <3>5
 <2> QED  BY <2>1, <2>2
<1>8. FaceTypes'  BY <1>1, <1>7, <1>k, <1>2, <1>6, FaceFrames DEF PoseTypes, FaceTypes, SocketTypes
<1>9. SocketFits'
 <2>1. \A i \in DOMAIN socket' : socket'[i].n \in 1 .. sent  BY <1>k, <1>6 DEF SocketFits
 <2>2. ASSUME NEW i \in DOMAIN socket', NEW j \in DOMAIN socket', i < j PROVE socket'[i].n < socket'[j].n
  <3>1. k + i < k + j  BY <1>3, <1>6, <2>2
  <3> QED  BY <1>k, <1>6, <3>1 DEF SocketFits
 <2> QED  BY <1>k, <1>1, <1>5, <2>1, <2>2 DEF SocketFits
<1>10. PoseFits'
 <2>1. Primary(pose'.taken) # NoFace => pose'.face = Primary(pose'.taken)
   BY <1>k, <1>1 DEF PoseFits
 <2>2. pose'.answer = "error" => ~pose'.have  BY <1>1
 <2>3. Primary(pose.taken)' = Primary(pose'.taken)  BY DEF Primary
 <2> HIDE DEF held, face
 <2> QED  BY <1>1, <1>7, <2>1, <2>2, <2>3 DEF PoseFits
<1>11. NothingBleeds' /\ TelemetryFits' /\ WorkerIsOwned'  BY <1>k, <1>1, FaceFrames
<1> QED  BY <1>8, <1>9, <1>10, <1>11 DEF FaceKeeps

-----------------------------------------------------------------------------
(* The face: a session *)

\* The reset, and a socket that is empty until datagrams of this session come.
LEMMA BeginSessionKeeps ==
    ASSUME FaceKeeps, tracking = "session", NEW p \in {1, 2}, BeginSession(p)
    PROVE  FaceKeeps'
<1> USE FaceAssumption DEF FaceAssumption
<1>k. FaceTypes /\ SocketFits /\ PoseFits /\ NothingBleeds /\ TelemetryFits /\ WorkerIsOwned
  BY DEF FaceKeeps
<1>1. PICK bound \in BOOLEAN :
          session' = [session EXCEPT !.on = bound, !.count = @ + 1, !.provider = p, !.since = sent, !.time = 0]
  BY DEF BeginSession
<1>2. /\ ~session.on /\ session.count < MaxSession /\ smoother' = [warm |-> FALSE, time |-> 0, of |-> {}]
      /\ tracking' = tracking /\ socket' = socket /\ sent' = sent /\ pose' = pose /\ telemetry' = telemetry
      /\ written' = written /\ mishap' = mishap /\ supervised' = supervised /\ shots' = shots
  BY DEF BeginSession, socketVars
<1>3. SessionTypes /\ sent \in Nat /\ FileTypes  BY <1>k DEF FaceTypes, SocketTypes
<1>4. session' = [on |-> bound, count |-> session.count + 1, provider |-> p, since |-> sent, time |-> 0,
                  polls |-> session.polls]
  BY <1>1, <1>3, Zenon DEF SessionTypes
<1>5. /\ session'.on = bound /\ session'.count = session.count + 1 /\ session'.provider = p
      /\ session'.since = sent /\ session'.time = 0 /\ session'.polls = session.polls
  BY <1>4, Zenon
<1>6. socket = <<>> /\ DOMAIN socket = {}
 <2>1. socket = <<>>  BY <1>k, <1>2 DEF SocketFits
 <2> QED  BY <2>1
<1>7. FaceTypes'
  BY <1>5, <1>4, <1>2, <1>3, <1>k, FaceFrames DEF SessionTypes, SampleTypes, FaceTypes
<1>8. SocketFits'  BY <1>2, <1>3, <1>5, <1>6 DEF SessionTypes, SocketFits
<1>9. NothingBleeds'  BY <1>2 DEF NothingBleeds
<1>10. TelemetryFits'  BY <1>2, <1>3, <1>5, <1>k DEF Loads, Increasing, SessionTypes, TelemetryFits
<1>11. PoseFits' /\ WorkerIsOwned'  BY <1>k, <1>2, FaceFrames
<1> QED  BY <1>7, <1>8, <1>9, <1>10, <1>11 DEF FaceKeeps

\* A session that ends, or the program with it.
LEMMA EndsKeep ==
    ASSUME FaceKeeps, EndSession \/ LeaveApplication
    PROVE  FaceKeeps'
<1> USE FaceAssumption DEF FaceAssumption
<1>k. FaceTypes /\ SocketFits /\ PoseFits /\ NothingBleeds /\ TelemetryFits /\ WorkerIsOwned
  BY DEF FaceKeeps
<1>1. /\ session.on /\ session' = [session EXCEPT !.on = FALSE] /\ socket' = <<>>
      /\ tracking' = tracking /\ sent' = sent /\ pose' = pose /\ telemetry' = telemetry
      /\ written' = written /\ supervised' = supervised /\ shots' = shots
  BY DEF EndSession, LeaveApplication
<1>2. \/ mishap' = mishap /\ smoother' = smoother
      \/ mishap' = TRUE /\ smoother' = [warm |-> FALSE, time |-> 0, of |-> {}]
  BY DEF EndSession, LeaveApplication
<1>3. SessionTypes /\ sent \in Nat /\ FileTypes /\ SampleTypes  BY <1>k DEF FaceTypes, SocketTypes
<1>4. session' = [on |-> FALSE, count |-> session.count, provider |-> session.provider, since |-> session.since,
                  time |-> session.time, polls |-> session.polls]
  BY <1>1, <1>3, Zenon DEF SessionTypes
<1>5. /\ session'.on = FALSE /\ session'.count = session.count /\ session'.provider = session.provider
      /\ session'.since = session.since /\ session'.time = session.time /\ session'.polls = session.polls
  BY <1>4, Zenon
<1>6. socket' \in Seq(Datagrams) /\ Len(socket') = 0 /\ DOMAIN socket' = {}  BY <1>1
<1>7. FaceTypes'
 <2>1. SessionTypes'  BY <1>5, <1>4, <1>3 DEF SessionTypes
 <2>2. SampleTypes'
  <3>1. CASE smoother' = smoother  BY <1>3, <3>1 DEF SampleTypes
  <3>2. CASE smoother' = [warm |-> FALSE, time |-> 0, of |-> {}]  BY <3>2 DEF SampleTypes
  <3> QED  BY <1>2, <3>1, <3>2
 <2>3. FileTypes'  BY <1>2, <1>3, <1>1 DEF FileTypes
 <2>4. SocketTypes'  BY <1>k, <1>1, <1>6 DEF FaceTypes, SocketTypes
 <2> QED  BY <1>k, <1>1, <2>1, <2>2, <2>3, <2>4, FaceFrames DEF FaceTypes
<1>8. SocketFits'  BY <1>k, <1>1, <1>5, <1>6 DEF SocketFits
<1>9. NothingBleeds'  BY <1>5 DEF NothingBleeds
<1>10. TelemetryFits'  BY <1>1, <1>2, <1>k, <1>5 DEF Loads, Increasing, TelemetryFits
<1>11. PoseFits'  BY <1>k, <1>1, <1>6 DEF PoseFits, Primary
<1>12. WorkerIsOwned'  BY <1>k, <1>1, FaceFrames
<1> QED  BY <1>7, <1>8, <1>9, <1>10, <1>11, <1>12 DEF FaceKeeps

\* What a line more, or a line that goes on, does to what the file has.
LEMMA SinkKeeps ==
    ASSUME TelemetryFits, FileTypes, SessionTypes, NEW s \in Samples, Sink(s), session.on, s.provider = session.provider,
           session.count > 0, session' = [session EXCEPT !.time = s.time, !.polls = @ + 1]
    PROVE  TelemetryFits' /\ FileTypes'
<1> DEFINE whole == Line(s, TRUE)
           torn == Line(s, FALSE)
           n == Len(telemetry.lines)
<1>1. /\ whole \in Lines /\ torn \in Lines /\ whole.sample = s /\ torn.sample = s
      /\ whole.readable = TRUE /\ torn.readable = FALSE
  BY Zenon DEF Line, Lines
<1>2. /\ telemetry.lines \in Seq(Lines) /\ n \in Nat /\ DOMAIN telemetry.lines = 1 .. n
      /\ written \in Seq(Samples) /\ DOMAIN written = 1 .. Len(written) /\ Len(written) \in Nat
      /\ telemetry = [lines |-> telemetry.lines, cut |-> telemetry.cut]
      /\ telemetry.cut \in BOOLEAN
  BY DEF FileTypes
<1>3. session'.count = session.count /\ session'.provider = session.provider
  BY Zenon DEF SessionTypes
<1> HIDE DEF whole, torn
\* What is left behind, in the cases of append().
<1>4. \E line \in {whole, torn}, cut \in BOOLEAN :
          \/ telemetry' = telemetry /\ written' = written /\ mishap'
          \/ /\ telemetry' = Extended(line, cut)
             /\ \/ line = whole /\ ~cut /\ written' = Append(written, s) /\ (mishap' <=> mishap)
                \/ written' = written /\ mishap'
 <2>1. whole \in {whole, torn} /\ torn \in {whole, torn} /\ TRUE \in BOOLEAN /\ FALSE \in BOOLEAN
   BY Zenon
 <2>2. CASE telemetry' = Extended(whole, FALSE) /\ written' = Append(written, s) /\ mishap' = mishap
   BY <2>1, <2>2, Zenon
 <2>3. CASE mishap' = TRUE /\ written' = written /\ telemetry' = telemetry  BY <2>1, <2>3, Zenon
 <2>4. CASE mishap' = TRUE /\ written' = written /\ telemetry' = Extended(torn, TRUE)
   BY <2>1, <2>4, Zenon
 <2>5. CASE mishap' = TRUE /\ written' = written /\ telemetry' = Extended(whole, TRUE)
   BY <2>1, <2>5, Zenon
 <2>6. CASE mishap' = TRUE /\ written' = written /\ telemetry' = Extended(whole, FALSE)
   BY <2>1, <2>6, Zenon
 <2> QED  BY <2>2, <2>3, <2>4, <2>5, <2>6, Zenon DEF Sink, whole, torn
<1>5. mishap' \in BOOLEAN  BY Zenon DEF Sink, FileTypes
<1>6. PICK line \in {whole, torn}, cut \in BOOLEAN :
          \/ telemetry' = telemetry /\ written' = written /\ mishap'
          \/ /\ telemetry' = Extended(line, cut)
             /\ \/ line = whole /\ ~cut /\ written' = Append(written, s) /\ (mishap' <=> mishap)
                \/ written' = written /\ mishap'
  BY <1>4
<1>7. line \in Lines /\ line.sample = s  BY <1>1
<1>8. CASE telemetry' = telemetry /\ written' = written /\ mishap'
 <2>1. FileTypes'  BY <1>2, <1>5, <1>8 DEF FileTypes
 <2>2. TelemetryFits'
  <3>1. Loads' <=> Loads  BY <1>8 DEF Loads, Increasing
  <3>2. session.count # 0  BY DEF SessionTypes
  <3> QED  BY <1>3, <1>8, <3>1, <3>2 DEF TelemetryFits
 <2> QED  BY <2>1, <2>2
<1>9. CASE /\ telemetry' = Extended(line, cut)
           /\ \/ line = whole /\ ~cut /\ written' = Append(written, s) /\ (mishap' <=> mishap)
              \/ written' = written /\ mishap'
 <2>w. /\ written' \in Seq(Samples)
       /\ \/ written' = written
          \/ /\ DOMAIN written' = 1 .. Len(written) + 1 /\ written'[Len(written) + 1] = s
             /\ \A i \in 1 .. Len(written) : written'[i] = written[i]
  <3>1. CASE written' = written  BY <1>2, <3>1
  <3>2. CASE written' = Append(written, s)
   <4> DEFINE v == Append(written, s)
   <4>1. /\ v \in Seq(Samples) /\ DOMAIN v = 1 .. Len(written) + 1 /\ v[Len(written) + 1] = s
         /\ \A i \in 1 .. Len(written) : v[i] = written[i]
     BY <1>2, Added
   <4>2. written' = v  BY <3>2
   <4> HIDE DEF v
   <4> QED  BY <4>1, <4>2
  <3> QED  BY <1>9, <3>1, <3>2
 <2>c. session.count # 0  BY DEF SessionTypes
 <2>1. CASE telemetry.cut
  <3> DEFINE rest == [telemetry.lines EXCEPT ![n].readable = FALSE]
  <3>1. telemetry' = [lines |-> rest, cut |-> cut]  BY <1>9, <2>1 DEF Extended
  <3>2. telemetry'.lines = rest /\ telemetry'.cut = cut  BY <3>1, Zenon
  <3>3. n > 0 /\ n \in 1 .. n
   <4>1. telemetry.lines # <<>>  BY <2>1 DEF TelemetryFits
   <4> QED  BY <1>2, <4>1
  <3>4. /\ rest \in Seq(Lines) /\ Len(rest) = n /\ DOMAIN rest = 1 .. n
        /\ rest[n].readable = FALSE
   <4>1. telemetry.lines[n] \in Lines  BY <1>2, <3>3, Elements
   <4>2. [telemetry.lines[n] EXCEPT !.readable = FALSE] \in Lines
         /\ [telemetry.lines[n] EXCEPT !.readable = FALSE].readable = FALSE
     BY <4>1, Zenon DEF Lines
   <4> DEFINE e == [telemetry.lines[n] EXCEPT !.readable = FALSE]
   <4>3. rest = [telemetry.lines EXCEPT ![n] = e]  OBVIOUS
   <4> HIDE DEF e
   <4>4. e \in Lines /\ e.readable = FALSE  BY <4>2 DEF e
   <4> DEFINE l == telemetry.lines
   <4>5. l \in Seq(Lines) /\ Len(l) \in Nat /\ n = Len(l) /\ n \in 1 .. Len(l)  BY <1>2, <3>3
   <4> HIDE DEF l, n
   <4>6. /\ [l EXCEPT ![n] = e] \in Seq(Lines) /\ Len([l EXCEPT ![n] = e]) = Len(l)
         /\ DOMAIN [l EXCEPT ![n] = e] = 1 .. Len(l) /\ [l EXCEPT ![n] = e][n] = e
     BY <4>4, <4>5, ExceptSeq
   <4>7. rest = [l EXCEPT ![n] = e]  BY <4>3 DEF l
   <4> HIDE DEF rest
   <4> QED  BY <4>4, <4>5, <4>6, <4>7
  <3> HIDE DEF rest
  <3>5. FileTypes'  BY <1>5, <2>w, <3>1, <3>4 DEF FileTypes
  <3>6. ~Loads' /\ telemetry'.lines # <<>>
   <4>1. telemetry'.lines[n].readable = FALSE /\ n \in DOMAIN telemetry'.lines  BY <3>2, <3>3, <3>4
   <4>2. ~Loads'  BY <4>1 DEF Loads
   <4>3. rest # <<>>  BY <3>3, <3>4
   <4> QED  BY <3>2, <4>2, <4>3
  <3>7. ~mishap' => session.count # 1  BY <1>9, <2>1 DEF TelemetryFits
  <3> QED  BY <1>3, <2>c, <3>5, <3>6, <3>7 DEF TelemetryFits
 <2>2. CASE ~telemetry.cut
  <3> DEFINE more == Append(telemetry.lines, line)
  <3>1. telemetry' = [lines |-> more, cut |-> cut]  BY <1>9, <2>2 DEF Extended
  <3>2. telemetry'.lines = more /\ telemetry'.cut = cut  BY <3>1, Zenon
  <3>3. /\ more \in Seq(Lines) /\ DOMAIN more = 1 .. n + 1 /\ more # <<>>
        /\ \A i \in 1 .. n : more[i] = telemetry.lines[i]
        /\ more[n + 1] = line
    BY <1>2, <1>7, Added
  <3> HIDE DEF more, n
  <3>4. FileTypes'  BY <1>5, <2>w, <3>1, <3>3 DEF FileTypes
  <3>5. CASE telemetry.lines = <<>>
   <4>1. n = 0 /\ written = <<>> /\ Len(written) = 0  BY <3>5 DEF TelemetryFits, n
   <4>2. \A i \in DOMAIN written' : i = 1 /\ written'[i] = s  BY <2>w, <4>1
   <4>3. telemetry'.lines[1].sample = s /\ 1 \in DOMAIN telemetry'.lines  BY <1>7, <3>2, <3>3, <4>1
   <4>4. /\ \A i \in DOMAIN written' : \E k \in DOMAIN telemetry'.lines : telemetry'.lines[k].sample = written'[i]
         /\ \A i, j \in DOMAIN written' : i < j => written'[i].time < written'[j].time
     BY <4>2, <4>3
   <4>5. ~mishap' /\ session'.count = 1 =>
           /\ ~telemetry'.cut
           /\ \A i \in DOMAIN telemetry'.lines :
                 telemetry'.lines[i].readable /\ telemetry'.lines[i].sample.provider = session'.provider
    <5>1. ~mishap' => line = whole /\ ~cut  BY <1>9
    <5>2. \A i \in DOMAIN telemetry'.lines : telemetry'.lines[i] = line  BY <3>2, <3>3, <4>1
    <5> QED  BY <1>1, <1>3, <3>2, <5>1, <5>2
   <4> QED  BY <1>3, <2>c, <3>2, <3>3, <3>4, <4>4, <4>5 DEF TelemetryFits
  <3>6. CASE telemetry.lines # <<>>
   <4>0. n # 0  BY <1>2, <3>6 DEF n
   <4>1. Loads' => Loads /\ \A i \in 1 .. n : telemetry.lines[i].sample.time < s.time
    <5> SUFFICES ASSUME Loads' PROVE Loads /\ \A i \in 1 .. n : telemetry.lines[i].sample.time < s.time
      OBVIOUS
    <5>1. /\ \A i \in 1 .. n + 1 : more[i].readable
          /\ \A i \in 1 .. n + 1 : more[i].sample.provider = more[1].sample.provider
          /\ \A i, j \in 1 .. n + 1 : i < j => more[i].sample.time < more[j].sample.time
      BY <3>2, <3>3 DEF Loads, Increasing
    <5>2. 1 \in 1 .. n /\ \A i \in 1 .. n : i \in 1 .. n + 1 /\ i < n + 1 /\ n + 1 \in 1 .. n + 1
      BY <1>2, <4>0
    <5>3. Loads
     <6>1. \A i \in 1 .. n : /\ telemetry.lines[i].readable
                             /\ telemetry.lines[i].sample.provider = telemetry.lines[1].sample.provider
       BY <3>3, <5>1, <5>2
     <6>2. \A i, j \in 1 .. n : i < j => telemetry.lines[i].sample.time < telemetry.lines[j].sample.time
       BY <3>3, <5>1, <5>2
     <6> QED  BY <1>2, <3>6, <6>1, <6>2 DEF Loads, Increasing
    <5> QED  BY <1>7, <3>3, <5>1, <5>2, <5>3
   <4>2. Loads' =>
           /\ \A i \in DOMAIN written' : \E k \in DOMAIN telemetry'.lines : telemetry'.lines[k].sample = written'[i]
           /\ \A i, j \in DOMAIN written' : i < j => written'[i].time < written'[j].time
    <5> SUFFICES ASSUME Loads'
                 PROVE /\ \A i \in DOMAIN written' :
                             \E k \in DOMAIN telemetry'.lines : telemetry'.lines[k].sample = written'[i]
                       /\ \A i, j \in DOMAIN written' : i < j => written'[i].time < written'[j].time
      OBVIOUS
    <5>1. /\ \A i \in 1 .. Len(written) : \E k \in 1 .. n : telemetry.lines[k].sample = written[i]
          /\ \A i, j \in 1 .. Len(written) : i < j => written[i].time < written[j].time
      BY <1>2, <4>1 DEF TelemetryFits
    <5>2. \A i \in 1 .. Len(written) : written[i].time < s.time  BY <4>1, <5>1
    <5>3. \A k \in 1 .. n : k \in DOMAIN telemetry'.lines /\ telemetry'.lines[k] = telemetry.lines[k]
      BY <1>2, <3>2, <3>3
    <5>4. n + 1 \in DOMAIN telemetry'.lines /\ telemetry'.lines[n + 1].sample = s
      BY <1>2, <1>7, <3>2, <3>3
    <5>5. CASE written' = written  BY <1>2, <5>1, <5>3, <5>5
    <5>6. CASE /\ DOMAIN written' = 1 .. Len(written) + 1 /\ written'[Len(written) + 1] = s
               /\ \A i \in 1 .. Len(written) : written'[i] = written[i]
     <6>1. \A i \in DOMAIN written' : i \in 1 .. Len(written) \/ i = Len(written) + 1  BY <1>2, <5>6
     <6>2. ASSUME NEW i \in DOMAIN written'
           PROVE  \E k \in DOMAIN telemetry'.lines : telemetry'.lines[k].sample = written'[i]
       BY <5>1, <5>3, <5>4, <5>6, <6>1
     <6>3. ASSUME NEW i \in DOMAIN written', NEW j \in DOMAIN written', i < j
           PROVE  written'[i].time < written'[j].time
      <7>1. i \in 1 .. Len(written) /\ written'[i] = written[i]  BY <1>2, <5>6, <6>1, <6>3
      <7>2. CASE j \in 1 .. Len(written)  BY <5>1, <5>6, <6>3, <7>1, <7>2
      <7>3. CASE j = Len(written) + 1  BY <5>2, <5>6, <7>1, <7>3
      <7> QED  BY <6>1, <7>2, <7>3
     <6> QED  BY <6>2, <6>3
    <5> QED  BY <2>w, <5>5, <5>6
   <4>3. ~mishap' /\ session'.count = 1 =>
           /\ ~telemetry'.cut
           /\ \A i \in DOMAIN telemetry'.lines :
                 telemetry'.lines[i].readable /\ telemetry'.lines[i].sample.provider = session'.provider
    <5>1. ~mishap' => line = whole /\ ~cut /\ ~mishap  BY <1>9
    <5>2. ~mishap /\ session.count = 1 =>
            \A i \in 1 .. n : /\ telemetry.lines[i].readable
                              /\ telemetry.lines[i].sample.provider = session.provider
      BY <1>2 DEF TelemetryFits
    <5>3. \A i \in DOMAIN telemetry'.lines :
             \/ i = n + 1 /\ telemetry'.lines[i] = line
             \/ i \in 1 .. n /\ telemetry'.lines[i] = telemetry.lines[i]
      BY <1>2, <3>2, <3>3
    <5> QED  BY <1>1, <1>3, <3>2, <5>1, <5>2, <5>3
   <4> QED  BY <1>3, <2>c, <3>2, <3>3, <3>4, <4>2, <4>3 DEF TelemetryFits
  <3> QED  BY <3>5, <3>6
 <2> QED  BY <2>1, <2>2
<1> QED  BY <1>6, <1>8, <1>9

\* One datagram: the oldest leaves the socket, and its expression is blended in.
LEMMA PollKeeps ==
    ASSUME FaceKeeps, NEW time \in 0 .. MaxProject, PollSession(time)
    PROVE  FaceKeeps'
<1> USE FaceAssumption DEF FaceAssumption
<1>k. FaceTypes /\ SocketFits /\ PoseFits /\ NothingBleeds /\ TelemetryFits /\ WorkerIsOwned
  BY DEF FaceKeeps
<1> DEFINE d == Head(socket)
           next == Smoothed(Expression(d), time)
           s == [time |-> time, of |-> next.of, provider |-> session.provider]
<1>1. /\ session.on /\ socket # <<>> /\ socket' = Tail(socket)
      /\ session' = [session EXCEPT !.time = time, !.polls = @ + 1]
      /\ tracking' = tracking /\ sent' = sent /\ pose' = pose /\ supervised' = supervised /\ shots' = shots
  BY DEF PollSession
<1>2. \/ d.faces = Malformed /\ smoother' = smoother /\ telemetry' = telemetry /\ written' = written /\ mishap' = mishap
      \/ d.faces # Malformed /\ smoother' = next /\ Sink(s)
  BY DEF PollSession
<1>3. /\ socket \in Seq(Datagrams) /\ Len(socket) <= SocketRoom /\ sent \in 0 .. MaxDatagram /\ sent \in Nat
      /\ SessionTypes /\ SampleTypes /\ FileTypes /\ Len(socket) \in Nat
  BY <1>k DEF FaceTypes, SocketTypes
<1>4. session' = [on |-> session.on, count |-> session.count, provider |-> session.provider, since |-> session.since,
                  time |-> time, polls |-> session.polls + 1]
  BY <1>1, <1>3, Zenon DEF SessionTypes
<1>5. /\ session'.on = session.on /\ session'.count = session.count /\ session'.provider = session.provider
      /\ session'.since = session.since /\ session'.time = time /\ session'.polls = session.polls + 1
  BY <1>4, Zenon
<1>6. /\ socket' \in Seq(Datagrams) /\ Len(socket') <= Len(socket) /\ Len(socket') \in Nat
      /\ d = socket[1] /\ 1 \in DOMAIN socket
      /\ \A i \in DOMAIN socket' : i \in Nat \ {0} /\ 1 + i \in DOMAIN socket /\ socket'[i] = socket[1 + i]
 <2> DEFINE r == Tail(socket)
 <2>1. /\ r \in Seq(Datagrams) /\ Len(r) <= Len(socket) /\ d = socket[1] /\ 1 \in DOMAIN socket
       /\ \A i \in DOMAIN r : 1 + i \in DOMAIN socket /\ r[i] = socket[1 + i]
   BY <1>1, <1>3, TailLeaves
 <2>2. DOMAIN r = 1 .. Len(r) /\ Len(r) \in Nat  BY <2>1
 <2>3. r = socket'  BY <1>1
 <2> HIDE DEF r, d
 <2> QED  BY <2>1, <2>2, <2>3
<1>7. d.n \in 1 .. sent /\ session.since < d.n  BY <1>k, <1>1, <1>6 DEF SocketFits
<1>8. Expression(d) \subseteq {d.n}  BY Zenon DEF Expression
<1>9. /\ next \in [warm : BOOLEAN, time : 0 .. MaxProject, of : SUBSET (1 .. MaxDatagram)]
      /\ next.of \subseteq smoother.of \cup {d.n}
 <2> HIDE DEF d
 <2>1. d.n \in 1 .. MaxDatagram  BY <1>3, <1>7
 <2>2. smoother \in [warm : BOOLEAN, time : 0 .. MaxProject, of : SUBSET (1 .. MaxDatagram)]
   BY <1>3 DEF SampleTypes
 <2>5. \/ next = smoother \/ next = [warm |-> TRUE, time |-> time, of |-> Expression(d)]
       \/ next = [warm |-> TRUE, time |-> time, of |-> smoother.of \cup Expression(d)]
   BY DEF Smoothed
 <2> HIDE DEF next
 <2>3. CASE next = smoother  BY <2>2, <2>3
 <2>4. CASE next = [warm |-> TRUE, time |-> time, of |-> Expression(d)]  BY <1>8, <2>1, <2>4
 <2>6. CASE next = [warm |-> TRUE, time |-> time, of |-> smoother.of \cup Expression(d)]
   BY <1>8, <2>1, <2>2, <2>6
 <2> QED  BY <2>3, <2>4, <2>5, <2>6
<1>10. s \in Samples /\ s.time = time /\ s.provider = session.provider
 <2>1. next.of \subseteq Nat  BY <1>9
 <2>2. session.provider \in {1, 2} /\ time \in Nat  BY <1>3 DEF SessionTypes
 <2> HIDE DEF next
 <2> QED  BY <2>1, <2>2 DEF Samples
<1>11. session.count > 0  BY <1>k, <1>1 DEF SocketFits
<1> HIDE DEF d, next, s
<1>12. TelemetryFits' /\ FileTypes'
 <2>1. CASE Sink(s)  BY <1>1, <1>10, <1>k, <1>3, <1>11, <2>1, SinkKeeps
 <2>2. CASE telemetry' = telemetry /\ written' = written /\ mishap' = mishap
   BY <2>2, <1>k, <1>3, <1>5, FaceFrames DEF Loads, Increasing, TelemetryFits
 <2> QED  BY <1>2, <2>1, <2>2
<1>13. FaceTypes'
 <2>1. SessionTypes'
  <3>1. session'.on \in BOOLEAN  BY <1>3, <1>5, Zenon DEF SessionTypes
  <3>2. session' = [on |-> session'.on, count |-> session'.count, provider |-> session'.provider,
                    since |-> session'.since, time |-> session'.time, polls |-> session'.polls]
    BY <1>4, <1>5, Zenon
  <3>3. /\ session'.count \in 0 .. MaxSession /\ session'.provider \in {1, 2} /\ session'.since \in Nat
        /\ session'.time \in 0 .. MaxProject /\ session'.polls \in Nat
    BY SMTT(40), <1>3, <1>5 DEF SessionTypes
  <3> QED  BY <3>1, <3>2, <3>3 DEF SessionTypes
 <2>2. SampleTypes'  BY <1>3, <1>9, <1>2 DEF SampleTypes
 <2>3. SocketTypes'  BY <1>k, <1>1, <1>3, <1>6 DEF FaceTypes, SocketTypes
 <2> QED  BY <1>k, <1>1, <1>12, <2>1, <2>2, <2>3, FaceFrames DEF FaceTypes
<1>14. SocketFits'
 <2>1. \A i \in DOMAIN socket' : socket'[i].n \in 1 .. sent /\ session.since < socket'[i].n
   BY <1>k, <1>1, <1>6 DEF SocketFits
 <2>2. ASSUME NEW i \in DOMAIN socket', NEW j \in DOMAIN socket', i < j PROVE socket'[i].n < socket'[j].n
  <3>1. 1 + i < 1 + j  BY <1>6, <2>2
  <3> QED  BY <1>k, <1>6, <3>1 DEF SocketFits
 <2> QED  BY <1>k, <1>1, <1>5, <2>1, <2>2 DEF SocketFits
<1>15. NothingBleeds'  BY <1>2, <1>9, <1>k, <1>1, <1>3, <1>7, <1>5 DEF NothingBleeds, SessionTypes
<1>16. PoseFits'  BY <1>k, <1>6, <1>1 DEF PoseFits, Primary
<1>17. WorkerIsOwned'  BY <1>k, <1>1, FaceFrames
<1> QED  BY <1>12, <1>13, <1>14, <1>15, <1>16, <1>17 DEF FaceKeeps

-----------------------------------------------------------------------------
(* The face: the worker process *)

\* Where every process but the one that is known is reaped, another may be started.
LEMMA LaunchedIs ==
    ASSUME NEW w, w.windows \in BOOLEAN, w.child \in Seq(Fates), \A k \in DOMAIN w.child : w.child[k] = "reaped",
           w = [windows |-> w.windows, pid |-> w.pid, child |-> w.child], NEW v, v = Launched(w)
    PROVE  /\ v.windows \in BOOLEAN /\ v.child \in Seq(Fates) /\ v.pid \in 0 .. Len(v.child)
           /\ v = [windows |-> v.windows, pid |-> v.pid, child |-> v.child]
           /\ \A k \in DOMAIN v.child : v.child[k] # "reaped" => k = v.pid
<1> DEFINE c == Append(w.child, "alive")
<1>1. v = [windows |-> w.windows, pid |-> Len(w.child) + 1, child |-> c]  BY DEF Launched
<1>2. v.windows = w.windows /\ v.pid = Len(w.child) + 1 /\ v.child = c  BY <1>1
<1>3. "alive" \in Fates  BY DEF Fates
<1>4. /\ c \in Seq(Fates) /\ Len(c) = Len(w.child) + 1 /\ Len(w.child) \in Nat
      /\ DOMAIN w.child = 1 .. Len(w.child) /\ DOMAIN c = 1 .. Len(w.child) + 1
      /\ \A i \in 1 .. Len(w.child) : c[i] = w.child[i]
  BY <1>3, Added
<1> HIDE DEF c
<1>5. \A k \in DOMAIN c : c[k] # "reaped" => k = Len(w.child) + 1  BY <1>4
<1>6. v = [windows |-> v.windows, pid |-> v.pid, child |-> v.child]  BY <1>1, <1>2
<1> QED  BY <1>2, <1>4, <1>5, <1>6

\* A process of which something is written down.
Noted(p, k, fate) == [supervised EXCEPT !.pid = p, !.child[k] = fate]

LEMMA FateIs ==
    ASSUME ChildTypes, NEW k \in 1 .. Len(supervised.child), NEW fate \in Fates,
           NEW p \in 0 .. Len(supervised.child),
           NEW v, v = Noted(p, k, fate)
    PROVE  /\ v.windows = supervised.windows /\ v.pid = p /\ v.child \in Seq(Fates)
           /\ Len(v.child) = Len(supervised.child) /\ p \in 0 .. Len(v.child)
           /\ v = [windows |-> v.windows, pid |-> v.pid, child |-> v.child]
           /\ DOMAIN v.child = DOMAIN supervised.child /\ v.child[k] = fate
           /\ \A i \in DOMAIN v.child : i # k => v.child[i] = supervised.child[i]
<1> DEFINE s == supervised.child
           c == [s EXCEPT ![k] = fate]
<1>1. v = [windows |-> supervised.windows, pid |-> p, child |-> c]  BY Zenon DEF ChildTypes, Noted
<1> HIDE DEF c
<1>2. v.windows = supervised.windows /\ v.pid = p /\ v.child = c  BY <1>1
<1> USE DEF c
<1>3. s \in Seq(Fates) /\ k \in 1 .. Len(s) /\ Len(s) \in Nat /\ DOMAIN s = 1 .. Len(s)
  BY DEF ChildTypes
<1>4. p \in 0 .. Len(s)  OBVIOUS
<1> HIDE DEF s
<1>5. /\ c \in Seq(Fates) /\ Len(c) = Len(s) /\ \A j \in 1 .. Len(s) : c[j] = IF j = k THEN fate ELSE s[j]
  BY <1>3, ExceptSeq
<1>6. DOMAIN c = 1 .. Len(s)  BY <1>3
<1> HIDE DEF c
<1>7. c[k] = fate /\ \A i \in DOMAIN c : i # k => c[i] = s[i]  BY <1>3, <1>5, <1>6
<1>8. v = [windows |-> v.windows, pid |-> v.pid, child |-> v.child]  BY <1>1, <1>2
<1> QED  BY <1>2, <1>3, <1>4, <1>5, <1>6, <1>7, <1>8 DEF s

\* The supervisor and its processes.
LEMMA WorkerKeeps ==
    ASSUME FaceKeeps, AskRunning \/ StartWorker \/ PollExitCode \/ StopWorker \/ ProcessEnds
    PROVE  FaceKeeps'
<1>k. FaceTypes /\ SocketFits /\ PoseFits /\ NothingBleeds /\ TelemetryFits /\ WorkerIsOwned
  BY DEF FaceKeeps
<1>1. Alone  BY DEF AskRunning, StartWorker, PollExitCode, StopWorker, ProcessEnds
<1>2. /\ tracking' = tracking /\ socket' = socket /\ sent' = sent /\ pose' = pose /\ session' = session
      /\ smoother' = smoother /\ telemetry' = telemetry /\ written' = written /\ mishap' = mishap /\ shots' = shots
  BY <1>1 DEF Alone, socketVars, sessionVars
<1>3. /\ ChildTypes /\ supervised.child \in Seq(Fates) /\ DOMAIN supervised.child = 1 .. Len(supervised.child)
      /\ Len(supervised.child) \in Nat /\ supervised.pid \in 0 .. Len(supervised.child)
      /\ supervised = [windows |-> supervised.windows, pid |-> supervised.pid, child |-> supervised.child]
      /\ supervised.windows \in BOOLEAN
  BY <1>k DEF FaceTypes, ChildTypes
<1>4. \A k \in DOMAIN supervised.child : supervised.child[k] # "reaped" => k = supervised.pid
  BY <1>k DEF WorkerIsOwned
<1>5. "reaped" \in Fates /\ "ended" \in Fates  BY DEF Fates
<1> DEFINE Good(v) == /\ v.windows \in BOOLEAN /\ v.child \in Seq(Fates) /\ v.pid \in 0 .. Len(v.child)
                      /\ v = [windows |-> v.windows, pid |-> v.pid, child |-> v.child]
                      /\ \A k \in DOMAIN v.child : v.child[k] # "reaped" => k = v.pid
<1>6. Good(supervised)  BY <1>3, <1>4
<1>7. ASSUME supervised.pid # 0, NEW p \in {0, supervised.pid},
             NEW v, v = Noted(p, supervised.pid, "reaped")
      PROVE  Good(v) /\ \A k \in DOMAIN v.child : v.child[k] = "reaped"
 <2> HIDE DEF Good
 <2>1. supervised.pid \in 1 .. Len(supervised.child)  BY <1>3, <1>7
 <2>2. /\ v.windows = supervised.windows /\ v.pid = p /\ v.child \in Seq(Fates)
       /\ Len(v.child) = Len(supervised.child) /\ p \in 0 .. Len(v.child)
       /\ v = [windows |-> v.windows, pid |-> v.pid, child |-> v.child]
       /\ DOMAIN v.child = DOMAIN supervised.child /\ v.child[supervised.pid] = "reaped"
       /\ \A i \in DOMAIN v.child : i # supervised.pid => v.child[i] = supervised.child[i]
  <3>1. PICK k \in 1 .. Len(supervised.child) : k = supervised.pid  BY <2>1
  <3>2. PICK fate \in Fates : fate = "reaped"  BY <1>5
  <3>3. v = Noted(p, k, fate) /\ p \in 0 .. Len(supervised.child)  BY <1>3, <1>7, <3>1, <3>2
  <3>4. /\ v.windows = supervised.windows /\ v.pid = p /\ v.child \in Seq(Fates)
        /\ Len(v.child) = Len(supervised.child) /\ p \in 0 .. Len(v.child)
        /\ v = [windows |-> v.windows, pid |-> v.pid, child |-> v.child]
        /\ DOMAIN v.child = DOMAIN supervised.child /\ v.child[k] = fate
        /\ \A i \in DOMAIN v.child : i # k => v.child[i] = supervised.child[i]
    BY <1>3, <1>7, <3>3, FateIs, SMTT(40)
  <3> QED  BY <3>1, <3>2, <3>4
 <2>3. \A k \in DOMAIN v.child : v.child[k] = "reaped"  BY <1>4, <2>2
 <2> QED  BY <1>3, <2>2, <2>3 DEF Good
<1>8. supervised.pid # 0 => Good(Waited("reaped")) /\ \A k \in DOMAIN Waited("reaped").child : Waited("reaped").child[k] = "reaped"
 <2>1. Waited("reaped") = Noted(0, supervised.pid, "reaped")  BY DEF Waited, Noted
 <2> HIDE DEF Good
 <2> QED  BY <1>7, <2>1
<1>9. ASSUME supervised.pid # 0 PROVE Good([supervised EXCEPT !.child[supervised.pid] = "reaped"])
 <2> DEFINE v == [supervised EXCEPT !.child[supervised.pid] = "reaped"]
 <2>1. v = Noted(supervised.pid, supervised.pid, "reaped")  BY <1>3, Zenon DEF Noted
 <2> HIDE DEF v, Good
 <2>2. Good(v)  BY <1>7, <1>9, <2>1
 <2> QED  BY <2>2 DEF v
<1>10. ASSUME NEW w, Good(w), \A k \in DOMAIN w.child : w.child[k] = "reaped" PROVE Good(Launched(w))
  BY <1>10, LaunchedIs
<1>11. Good(supervised')
 <2> HIDE DEF Good
 <2>1. CASE AskRunning  BY <1>6, <1>9, <2>1 DEF AskRunning, Asked
 <2>2. CASE StartWorker  BY <1>3, <1>4, <1>6, <1>10, <2>2, <1>8 DEF StartWorker
 <2>3. CASE PollExitCode \/ StopWorker  BY <1>8, <2>3 DEF PollExitCode, StopWorker
 <2>4. CASE ProcessEnds
  <3>1. PICK k \in DOMAIN supervised.child :
            supervised.child[k] = "alive" /\ supervised' = [supervised EXCEPT !.child[k] = "ended"]
    BY <2>4 DEF ProcessEnds
  <3>2. supervised' = Noted(supervised.pid, k, "ended")  BY <1>3, <3>1, Zenon DEF Noted
  <3>3. k = supervised.pid /\ k \in 1 .. Len(supervised.child)  BY <1>3, <1>4, <3>1
  <3> DEFINE v == supervised'
  <3>4. /\ v.windows = supervised.windows /\ v.pid = supervised.pid /\ v.child \in Seq(Fates)
        /\ Len(v.child) = Len(supervised.child) /\ supervised.pid \in 0 .. Len(v.child)
        /\ v = [windows |-> v.windows, pid |-> v.pid, child |-> v.child]
        /\ DOMAIN v.child = DOMAIN supervised.child
        /\ \A i \in DOMAIN v.child : i # k => v.child[i] = supervised.child[i]
    BY <1>3, <1>5, <3>2, <3>3, FateIs
  <3>5. \A i \in DOMAIN v.child : v.child[i] # "reaped" => i = v.pid  BY <1>4, <3>3, <3>4
  <3> QED  BY <1>3, <3>4, <3>5 DEF Good
 <2> QED  BY <2>1, <2>2, <2>3, <2>4
<1>12. ChildTypes' /\ WorkerIsOwned'  BY <1>11 DEF ChildTypes, WorkerIsOwned
<1>13. FaceTypes'  BY <1>k, <1>2, <1>12, FaceFrames DEF FaceTypes
<1>14. SocketFits' /\ PoseFits' /\ NothingBleeds' /\ TelemetryFits'  BY <1>k, <1>2, FaceFrames
<1> QED  BY <1>12, <1>13, <1>14 DEF FaceKeeps

\* A frame of a calibration.
LEMMA ShotKeeps ==
    ASSUME FaceKeeps, NEW v \in 0 .. 3, NEW good \in BOOLEAN, AddShot(v, good)
    PROVE  FaceKeeps'
  BY FaceAssumption, FaceFrames DEF FaceKeeps, AddShot, socketVars, sessionVars, FaceTypes,
    ShotTypes, FaceAssumption

\* Every step keeps it.
LEMMA FaceSteps == FaceKeeps /\ [FaceNext]_faceVars => FaceKeeps'
<1> SUFFICES ASSUME FaceKeeps, [FaceNext]_faceVars PROVE FaceKeeps'  OBVIOUS
<1>k. FaceTypes /\ SocketFits /\ PoseFits /\ NothingBleeds /\ TelemetryFits /\ WorkerIsOwned
  BY DEF FaceKeeps
<1>1. CASE (tracking = "live" \/ session.on) /\ \E b \in Batches : Arrive(b)  BY <1>1, ArriveKeeps
<1>2. CASE tracking = "live" /\ ProcessFrame  BY <1>2, ProcessFrameKeeps
<1>3. CASE tracking = "session" /\ SessionStep
  BY <1>3, BeginSessionKeeps, PollKeeps, EndsKeep DEF SessionStep
<1>4. CASE AskRunning \/ StartWorker \/ PollExitCode \/ StopWorker \/ ProcessEnds
  BY <1>4, WorkerKeeps
<1>5. CASE \E v \in 0 .. 3, good \in BOOLEAN : AddShot(v, good)  BY <1>5, ShotKeeps
<1>6. CASE UNCHANGED faceVars  BY <1>6, <1>k, FaceFrames DEF faceVars, FaceKeeps, FaceTypes
<1> QED  BY <1>1, <1>2, <1>3, <1>4, <1>5, <1>6 DEF FaceNext

-----------------------------------------------------------------------------
(* The face: a calibration *)

\* The accepted values up to a value, and below it.
UpTo(v) == {i \in DOMAIN shots : shots[i] <= v}
Below(v) == {i \in DOMAIN shots : shots[i] < v}

\* Sets of shots are counted.
LEMMA Counts ==
    ASSUME ShotTypes, NEW S \in SUBSET DOMAIN shots
    PROVE  /\ IsFiniteSet(S) /\ Cardinality(S) \in Nat /\ Cardinality(S) <= Len(shots)
           /\ \A T \in SUBSET S : Cardinality(T) <= Cardinality(S) /\ Cardinality(T) \in Nat
<1>1. DOMAIN shots = 1 .. Len(shots) /\ Len(shots) \in Nat  BY DEF ShotTypes
<1>2. IsFiniteSet(1 .. Len(shots)) /\ Cardinality(1 .. Len(shots)) = Len(shots)
  BY <1>1, FS_Interval
<1>3. IsFiniteSet(S) /\ Cardinality(S) <= Len(shots)  BY <1>1, <1>2, FS_Subset
<1>4. Cardinality(S) \in Nat  BY <1>3, FS_CardinalityType
<1>5. ASSUME NEW T \in SUBSET S PROVE Cardinality(T) <= Cardinality(S) /\ Cardinality(T) \in Nat
  BY <1>3, FS_Subset, FS_CardinalityType
<1> QED  BY <1>3, <1>4, <1>5

\* Two sets of shots with more in all than there are shots have one in common.
LEMMA Meet ==
    ASSUME ShotTypes, NEW S \in SUBSET DOMAIN shots, NEW T \in SUBSET DOMAIN shots,
           Cardinality(S) + Cardinality(T) > Len(shots)
    PROVE  \E i \in S : i \in T
<1> SUFFICES ASSUME S \cap T = {} PROVE FALSE  OBVIOUS
<1>1. /\ IsFiniteSet(S) /\ IsFiniteSet(T) /\ Cardinality(S) \in Nat /\ Cardinality(T) \in Nat
      /\ Cardinality(S \cup T) <= Len(shots) /\ Cardinality(S \cup T) \in Nat
  BY Counts
<1>2. Cardinality(S \cup T) = Cardinality(S) + Cardinality(T) - Cardinality(S \cap T)
  BY <1>1, FS_Union
<1>3. Cardinality(S \cap T) = 0  BY FS_EmptySet
<1>4. Len(shots) \in Nat  BY DEF ShotTypes
<1> QED  BY <1>1, <1>2, <1>3, <1>4

\* There is a value at every place: the least one up to which there are enough.
LEMMA RankedIs ==
    ASSUME ShotTypes, NEW k \in 1 .. Len(shots)
    PROVE  Ranked(k) \in Nat /\ Cardinality(Below(Ranked(k))) < k /\ k <= Cardinality(UpTo(Ranked(k)))
<1>1. /\ DOMAIN shots = 1 .. Len(shots) /\ Len(shots) \in Nat /\ Range(shots) \subseteq 0 .. 3
      /\ \A i \in DOMAIN shots : shots[i] \in 0 .. 3 /\ shots[i] \in Range(shots)
  BY DEF ShotTypes, Range
<1> DEFINE E == {v \in Range(shots) : k <= Cardinality(UpTo(v))}
<1>2. E # {}
 <2>1. {shots[i] : i \in DOMAIN shots} \subseteq Nat  BY <1>1
 <2> DEFINE R == {shots[i] : i \in DOMAIN shots}
 <2>2. R \subseteq Nat /\ R # {} /\ \A e \in R : e <= 3  BY <1>1, <2>1
 <2> HIDE DEF R
 <2>3. PICK d \in R : \A e \in R : e <= d  BY <2>2, Greatest
 <2>4. UpTo(d) = DOMAIN shots /\ d \in Range(shots)  BY <1>1, <2>3 DEF UpTo, R
 <2>5. Cardinality(UpTo(d)) = Len(shots)  BY SMTT(40), <1>1, <2>4, FS_Interval
 <2> QED  BY <2>4, <2>5
<1>3. PICK v \in E : \A e \in E : v <= e
 <2>1. E \subseteq Nat  BY <1>1
 <2> HIDE DEF E
 <2> QED  BY <1>2, <2>1, Least
<1>4. v \in Range(shots) /\ v \in Nat /\ k <= Cardinality(UpTo(v))  BY <1>1
<1>5. Cardinality(Below(v)) < k
 <2> SUFFICES ASSUME ~(Cardinality(Below(v)) < k) PROVE FALSE  OBVIOUS
 <2>1. Cardinality(Below(v)) \in Nat /\ Below(v) # {}  BY Counts, FS_EmptySet DEF Below
 <2> DEFINE R == {shots[i] : i \in Below(v)}
 <2>2. R \subseteq Nat /\ R # {} /\ \A e \in R : e <= 3
  <3>1. PICK i \in Below(v) : TRUE  BY <2>1
  <3>2. shots[i] \in R  OBVIOUS
  <3>3. \A e \in R : e \in Nat /\ e <= 3  BY <1>1 DEF Below
  <3> QED  BY <3>2, <3>3
 <2> HIDE DEF R
 <2>3. PICK d \in R : \A e \in R : e <= d  BY <2>2, Greatest
 <2>4. PICK j \in Below(v) : d = shots[j]  BY <2>3 DEF R
 <2>5. d < v /\ d \in Range(shots) /\ d \in Nat  BY <1>1, <2>4 DEF Below
 <2>6. Below(v) \subseteq UpTo(d)
  <3>1. ASSUME NEW i \in Below(v) PROVE i \in UpTo(d)  BY <2>3 DEF R, UpTo, Below
  <3> QED  BY <3>1
 <2>7. Cardinality(Below(v)) <= Cardinality(UpTo(d)) /\ Cardinality(UpTo(d)) \in Nat
   BY <2>6, Counts DEF UpTo
 <2>8. d \in E  BY <2>1, <2>5, <2>7
 <2> QED  BY <1>3, <1>4, <2>5, <2>8
<1>6. \E w \in Range(shots) : /\ Cardinality({i \in DOMAIN shots : shots[i] < w}) < k
                              /\ k <= Cardinality({i \in DOMAIN shots : shots[i] <= w})
  BY <1>4, <1>5 DEF Below, UpTo
<1>7. /\ Ranked(k) \in Range(shots)
      /\ Cardinality({i \in DOMAIN shots : shots[i] < Ranked(k)}) < k
      /\ k <= Cardinality({i \in DOMAIN shots : shots[i] <= Ranked(k)})
  BY <1>6, Zenon DEF Ranked
<1> QED  BY <1>1, <1>7 DEF Below, UpTo

\* Most shots have one up to the value at each place in the middle, and one from it on.
LEMMA RobustAt ==
    ASSUME ShotTypes, NEW good \in SUBSET DOMAIN shots, NEW k \in 1 .. Len(shots)
    PROVE  /\ Cardinality(good) + k > Len(shots) => \E i \in good : shots[i] <= Ranked(k)
           /\ Cardinality(good) >= k => \E i \in good : shots[i] >= Ranked(k)
<1> DEFINE v == Ranked(k)
<1>1. v \in Nat /\ Cardinality(Below(v)) < k /\ k <= Cardinality(UpTo(v))  BY RankedIs
<1>2. Below(v) \in SUBSET DOMAIN shots /\ UpTo(v) \in SUBSET DOMAIN shots  BY DEF Below, UpTo
<1>3. /\ Cardinality(Below(v)) \in Nat /\ Cardinality(UpTo(v)) \in Nat /\ Cardinality(good) \in Nat
      /\ Len(shots) \in Nat /\ \A i \in DOMAIN shots : shots[i] \in Nat
  BY <1>2, Counts DEF ShotTypes
<1> HIDE DEF v
<1>4. ASSUME Cardinality(good) + k > Len(shots) PROVE \E i \in good : shots[i] <= v
  BY <1>1, <1>3, <1>4, <1>2, Meet DEF UpTo
<1>5. ASSUME Cardinality(good) >= k PROVE \E i \in good : shots[i] >= v
 <2>1. ~(good \subseteq Below(v))
  <3> SUFFICES ASSUME good \subseteq Below(v) PROVE FALSE  OBVIOUS
  <3>1. Cardinality(good) <= Cardinality(Below(v))  BY <1>2, Counts
  <3> QED  BY <1>1, <1>3, <1>5, <3>1
 <2>2. PICK i \in good : i \notin Below(v)  BY <2>1
 <2>3. shots[i] >= v  BY <1>1, <1>3, <2>2 DEF Below
 <2> QED  BY <2>3
<1> QED  BY <1>4, <1>5 DEF v

\* Later places have no smaller values.
LEMMA RankedGrows ==
    ASSUME ShotTypes, NEW k \in 1 .. Len(shots), k + 1 \in 1 .. Len(shots)
    PROVE  Ranked(k) <= Ranked(k + 1)
<1> DEFINE v == Ranked(k)
           w == Ranked(k + 1)
<1>1. /\ v \in Nat /\ w \in Nat /\ Cardinality(Below(v)) < k /\ k + 1 <= Cardinality(UpTo(w))
  BY RankedIs
<1> HIDE DEF v, w
<1> SUFFICES ASSUME w < v PROVE FALSE  BY <1>1 DEF v, w
<1>2. \A i \in DOMAIN shots : shots[i] \in Nat  BY DEF ShotTypes
<1>3. UpTo(w) \subseteq Below(v) /\ Below(v) \in SUBSET DOMAIN shots  BY <1>1, <1>2 DEF UpTo, Below
<1>4. Cardinality(UpTo(w)) <= Cardinality(Below(v)) /\ Cardinality(Below(v)) \in Nat /\ Cardinality(UpTo(w)) \in Nat
  BY <1>3, Counts
<1> QED  BY <1>1, <1>4

\* So the baseline is between two of the majority, whichever it is.
LEMMA Robust == ShotTypes => CalibrationIsRobust
<1> SUFFICES ASSUME ShotTypes, Calibrates, NEW good \in SUBSET DOMAIN shots, 2 * Cardinality(good) > Len(shots)
             PROVE  /\ \E i \in good : 2 * shots[i] <= Baseline2
                    /\ \E i \in good : 2 * shots[i] >= Baseline2
  BY DEF CalibrationIsRobust
<1> DEFINE n == Len(shots)
           m == n \div 2
<1>1. n \in Nat /\ n >= 1 /\ m \in Nat /\ Cardinality(good) \in Nat /\ Cardinality(good) <= n
  BY Counts, FaceAssumption DEF ShotTypes, Calibrates, FaceAssumption
<1>2. \A i \in good : shots[i] \in Nat  BY DEF ShotTypes
<1>3. CASE n % 2 = 1
 <2>1. n = 2 * m + 1 /\ m + 1 \in 1 .. n  BY <1>1, <1>3
 <2>2. Cardinality(good) + (m + 1) > n /\ Cardinality(good) >= m + 1  BY <1>1, <2>1
 <2> DEFINE k == m + 1
 <2>3. k \in 1 .. Len(shots) /\ Cardinality(good) + k > Len(shots) /\ Cardinality(good) >= k
   BY <2>1, <2>2
 <2> HIDE DEF k
 <2>4. Ranked(k) \in Nat  BY <2>3, RankedIs
 <2>5. (\E i \in good : shots[i] <= Ranked(k)) /\ \E i \in good : shots[i] >= Ranked(k)
   BY <2>3, RobustAt
 <2>6. Baseline2 = 2 * Ranked(k)  BY <1>3 DEF Baseline2, k
 <2> QED  BY <1>2, <2>4, <2>5, <2>6
<1>4. CASE n % 2 # 1
 <2>1. n = 2 * m /\ m \in 1 .. n /\ m + 1 \in 1 .. n  BY <1>1, <1>4
 <2>2. Cardinality(good) + m > n /\ Cardinality(good) >= m + 1  BY <1>1, <2>1
 <2>3. m \in 1 .. Len(shots) /\ m + 1 \in 1 .. Len(shots)  BY <2>1
 <2>4. Baseline2 = Ranked(m) + Ranked(m + 1)  BY <1>4 DEF Baseline2
 <2>5. Cardinality(good) + m > Len(shots)  BY <2>2
 <2> HIDE DEF n, m
 <2> DEFINE k == m + 1
 <2>6. k \in 1 .. Len(shots) /\ Cardinality(good) >= k  BY <2>2, <2>3
 <2>7. Ranked(m) <= Ranked(k)  BY <2>3, RankedGrows
 <2> HIDE DEF k
 <2>8. Ranked(m) \in Nat /\ Ranked(k) \in Nat  BY <2>3, <2>6, RankedIs
 <2>9. (\E i \in good : shots[i] <= Ranked(m)) /\ \E i \in good : shots[i] >= Ranked(k)
   BY <2>3, <2>5, <2>6, RobustAt
 <2>10. Baseline2 = Ranked(m) + Ranked(k)  BY <2>4 DEF k
 <2> QED  BY <1>2, <2>7, <2>8, <2>9, <2>10
<1> QED  BY <1>3, <1>4

-----------------------------------------------------------------------------
(* The face: what it promises *)

\* From it follows what the four programs promise.
LEMMA FacePromises == FaceKeeps => FaceInv
<1> SUFFICES ASSUME FaceKeeps PROVE FaceInv  OBVIOUS
<1>k. FaceTypes /\ SocketFits /\ PoseFits /\ NothingBleeds /\ TelemetryFits /\ WorkerIsOwned
  BY DEF FaceKeeps
<1>1. PoseIsNewest  BY <1>k DEF PoseFits, PoseIsNewest
<1>2. TelemetryIsWhole
 <2> DEFINE samples == [i \in DOMAIN telemetry.lines |-> telemetry.lines[i].sample]
 <2>1. /\ telemetry.lines \in Seq(Lines) /\ written \in Seq(Samples)
       /\ \A i \in DOMAIN written : written[i].time \in Nat
  <3>1. telemetry.lines \in Seq(Lines) /\ written \in Seq(Samples)  BY <1>k DEF FaceTypes, FileTypes
  <3>2. \A i \in DOMAIN written : written[i] \in Samples  BY <3>1, Elements
  <3> QED  BY <3>1, <3>2 DEF Samples
 <2>2. DOMAIN samples = DOMAIN telemetry.lines /\ \A i \in DOMAIN samples : samples[i] = telemetry.lines[i].sample
   OBVIOUS
 <2>3. ASSUME Loads
       PROVE  /\ Range(written) \subseteq Range(samples)
              /\ \A i, j \in DOMAIN written : \A k, m \in DOMAIN samples :
                    i < j /\ samples[k] = written[i] /\ samples[m] = written[j] => k < m
  <3>1. /\ \A i \in DOMAIN written : \E k \in DOMAIN telemetry.lines : telemetry.lines[k].sample = written[i]
        /\ \A i, j \in DOMAIN written : i < j => written[i].time < written[j].time
    BY <1>k, <2>3 DEF TelemetryFits
  <3>2. Range(written) \subseteq Range(samples)  BY <2>2, <3>1 DEF Range
  <3> HIDE DEF samples
  <3>3. ASSUME NEW i \in DOMAIN written, NEW j \in DOMAIN written, NEW k \in DOMAIN samples, NEW m \in DOMAIN samples,
               i < j, samples[k] = written[i], samples[m] = written[j], ~(k < m)
        PROVE  FALSE
   <4>1. telemetry.lines[k].sample.time < telemetry.lines[m].sample.time  BY <2>2, <3>1, <3>3
   <4>2. k \in Nat /\ m \in Nat  BY <2>1, <2>2
   <4>3. k = m \/ m < k  BY <3>3, <4>2
   <4>4. m < k => telemetry.lines[m].sample.time < telemetry.lines[k].sample.time
     BY <2>2, <2>3 DEF Loads, Increasing
   <4>5. telemetry.lines[k].sample.time \in Nat /\ telemetry.lines[m].sample.time \in Nat
     BY <2>1, <2>2, <3>3
   <4> QED  BY <4>1, <4>3, <4>4, <4>5
  <3> QED  BY <3>2, <3>3
 <2>4. ASSUME ~mishap, session.count = 1, Increasing, written # <<>> PROVE Loads
   BY <1>k, <2>4, <2>1 DEF TelemetryFits, Loads
 <2> QED  BY <2>3, <2>4, Zenon DEF TelemetryIsWhole
<1>3. CalibrationIsRobust  BY <1>k, Robust DEF FaceTypes
<1> QED  BY <1>k, <1>1, <1>2, <1>3 DEF FaceInv

\* And the bounds on the variables, as the runs check them.
LEMMA FaceTypesAre == FaceKeeps => FaceTypeOK
BY DEF FaceKeeps, FaceTypes, SocketTypes, PoseTypes, SessionTypes, SampleTypes, FileTypes, ChildTypes, ShotTypes,
       FaceTypeOK

-----------------------------------------------------------------------------
(* What is recorded live *)

\* One of the two moves at a time.
LEMMA LiveSteps == [LiveNext]_liveVars => [Next]_vars /\ [FaceNext]_faceVars
BY DEF LiveNext, Taking, liveVars

\* The variables of the takes and of the tracking keep their types.
THEOREM LiveTypes == LiveSpec => []LiveTypeOK
<1>1. LiveInit => IInv /\ FaceKeeps  BY InitHolds, FaceStarts DEF LiveInit, IInv
<1>2. IInv /\ FaceKeeps /\ [LiveNext]_liveVars => IInv' /\ FaceKeeps'
  BY LiveSteps, InvariantStep, FaceSteps
<1>3. IInv /\ FaceKeeps => LiveTypeOK  BY FaceTypesAre DEF IInv, LiveTypeOK
<1> QED  BY <1>1, <1>2, <1>3, PTL DEF LiveSpec

\* Whatever datagrams are lost, malformed or without a face, whatever session or process
\* ends and whatever line is torn: the live avatar shows the face of the last good datagram
\* it took (OpenSeeFaceTrackingProvider), a sample has nothing of an earlier session
\* (AvatarMotionPipeline), what loads has every sample that was acknowledged
\* (AvatarMotionNdjsonSink, AvatarMotionPlayback), a worker that runs is the one the
\* supervisor knows, and a minority of bad frames does not move a baseline
\* (CalibrationCapture).
THEOREM FaceCorrect == LiveSpec => []FaceInv
<1>1. LiveInit => FaceKeeps  BY FaceStarts DEF LiveInit
<1>2. FaceKeeps /\ [LiveNext]_liveVars => FaceKeeps'  BY LiveSteps, FaceSteps
<1> QED  BY <1>1, <1>2, FacePromises, PTL DEF LiveSpec
=============================================================================
