----------------------------- MODULE RenderExport -----------------------------
(***************************************************************************)
(* Exporting a timeline: ExportController on the GUI thread, ExportWorker  *)
(* on its own, the render thread of MltRenderJob, the render_jobs row of   *)
(* each job, and the files beside the destination.  One destination is     *)
(* exported to again and again; every export is a job of its own.          *)
(*                                                                         *)
(* A render is encoded into a Matroska file, <<job, "mkv">>.  A job asked  *)
(* for MP4 copies it into <<job, "mp4">> and publishes that one.  Files    *)
(* are compared by content and identity at once (hash and inode).          *)
(***************************************************************************)
EXTENDS Naturals, Sequences

CONSTANTS
    Jobs,       \* bound: exports looked at
    Exports     \* bound: what users choose, [format, replace]

ASSUME RenderAssumption == Jobs \in Nat /\ Exports \subseteq [format : {"mp4", "mkv"}, replace : BOOLEAN]

VARIABLES
    job,        \* the export begun last, 0 before the first
    wanted,     \* of each job: [format, replace], what the user chose
    busy,       \* ExportController::busy_
    shown,      \* ExportController::state_
    cancelFlag, \* cancellationRequested_, shared with the worker
    signals,    \* progress and result on their way to the GUI thread
    worker,     \* where ExportWorker::start is
    sent,       \* cancellationSent
    mem,        \* state of the job in memory, under MltRenderJob's mutex
    stop,       \* its stop token
    pc,         \* where the render thread is
    result,     \* what renderFrozen returned: "ok" or "error"
    row,        \* of each job: its row [state, evidence]
    tmp,        \* the partial files
    dest,       \* the file at the destination, or NoFile
    late,       \* history: the user's file there came between the look at it and the rename
    posix,      \* the build: POSIX, where a rename replaces, or Windows, where a move need not
    told,       \* history: the result the user was shown for each job
    published,  \* history: the file of each job that was put at the destination
    crashed     \* history: jobs the process died in

guiVars == <<job, wanted, busy, shown, told>>
threadVars == <<mem, stop, pc, result>>
destVars == <<dest, late, published>>
fileVars == <<tmp, destVars>>
renderVars == <<guiVars, cancelFlag, signals, worker, sent, threadVars, row, fileVars, crashed, posix>>

JobIds == 1 .. Jobs
NoFile == <<>>
Foreign == <<0, "foreign">>
BeforeBegin == {"called", "renaming", "recovered"}   \* the worker has not begun its job
NoRow == [state |-> "none", evidence |-> NoFile]
Terminal == {"COMPLETED", "FAILED", "CANCELLED"}
Stale == {"PENDING", "RUNNING", "PUBLISHING", "CANCELLING"}

RenderInit ==
    /\ job = 0
    /\ wanted = [j \in JobIds |-> [format |-> "mp4", replace |-> FALSE]]
    /\ busy = FALSE /\ shown = "PENDING" /\ told = [j \in JobIds |-> "nothing"]
    /\ cancelFlag = FALSE /\ signals = <<>>
    /\ worker = "idle" /\ sent = FALSE
    /\ mem = "PENDING" /\ stop = FALSE /\ pc = "none" /\ result = "ok"
    /\ row = [j \in JobIds |-> NoRow]
    /\ tmp = {} /\ dest \in {NoFile, Foreign} /\ published = [j \in JobIds |-> NoFile]
    /\ late = FALSE /\ posix \in BOOLEAN
    /\ crashed = {}

----------------------------------------------------------------------------
(* ExportController                                                        *)

\* exportTo: RenderRequest::create refuses an existing destination unless it is replaced.
Export(format, replace) ==
    /\ ~busy /\ job < Jobs
    /\ replace \/ dest = NoFile
    /\ job' = job + 1
    /\ wanted' = [wanted EXCEPT ![job + 1] = [format |-> format, replace |-> replace]]
    /\ busy' = TRUE /\ shown' = "PENDING"
    /\ cancelFlag' = FALSE
    /\ worker' = "called"
    /\ UNCHANGED <<told, signals, sent, threadVars, row, fileVars, crashed, posix>>

Cancel ==
    /\ busy /\ shown # "PUBLISHING" /\ ~cancelFlag
    /\ cancelFlag' = TRUE
    /\ UNCHANGED <<guiVars, signals, worker, sent, threadVars, row, fileVars, crashed, posix>>

\* The destructor: ask for a cancel whatever is shown and wait for the worker.
Quit ==
    /\ busy /\ ~cancelFlag
    /\ cancelFlag' = TRUE
    /\ UNCHANGED <<guiVars, signals, worker, sent, threadVars, row, fileVars, crashed, posix>>

Deliver ==
    /\ signals # <<>>
    /\ LET s == Head(signals)
       IN  /\ shown' = s.state
           /\ busy' = (busy /\ ~s.last)
           /\ told' = IF s.last THEN [told EXCEPT ![job] = s.state] ELSE told
    /\ signals' = Tail(signals)
    /\ UNCHANGED <<job, wanted, cancelFlag, worker, sent, threadVars, row, fileVars, crashed, posix>>

----------------------------------------------------------------------------
(* ExportWorker and ProjectExportEngine                                    *)

Say(state, last) == signals' = Append(signals, [state |-> state, last |-> last])

\* render() failed before there was a job.
RenderRefused ==
    /\ worker \in BeforeBegin
    /\ Say("FAILED", TRUE)
    /\ worker' = "idle"
    /\ UNCHANGED <<guiVars, cancelFlag, sent, threadVars, row, fileVars, crashed, posix>>

StaleRows == {j \in JobIds : row[j].state \in Stale}

\* Mutant of Publishable: what is at the destination is not looked at.
PublishableBlindly(j) == row[j].state = "PUBLISHING" /\ row[j].evidence \in tmp

\* RenderJobRecovery publishes a partial that matches the evidence where nothing is ...
Publishable(j) ==
    row[j].state = "PUBLISHING" /\ dest = NoFile /\ row[j].evidence \in tmp

RecoverLook(j) ==
    /\ worker = "called" /\ Publishable(j)
    /\ worker' = "renaming" /\ late' = FALSE
    /\ UNCHANGED <<guiVars, cancelFlag, signals, sent, threadVars, row, tmp, dest, published, crashed, posix>>

\* ... with a rename that was meant not to replace, and on POSIX does (renameWithoutReplacement).
\* Only one row is ever stale: a job begins when no other is.
RecoverPublish(j) ==
    /\ worker = "renaming" /\ row[j].state = "PUBLISHING" /\ row[j].evidence \in tmp
    /\ posix \/ dest = NoFile
    /\ worker' = "called"
    /\ dest' = row[j].evidence /\ published' = [published EXCEPT ![j] = row[j].evidence]
    /\ tmp' = tmp \ {row[j].evidence} /\ late' = FALSE
    /\ UNCHANGED <<guiVars, cancelFlag, signals, sent, threadVars, row, crashed, posix>>

\* ... and gives every stale row its terminal state, judging by hash and identity.
RecoverSettle(j) ==
    /\ worker = "called"
    /\ row[j].state \in Stale
    /\ ~Publishable(j)
    /\ row' = [row EXCEPT ![j].state =
                  CASE @ = "CANCELLING" -> "CANCELLED"
                    [] @ = "PUBLISHING" /\ dest = row[j].evidence -> "COMPLETED"
                    [] OTHER -> "FAILED"]
    /\ UNCHANGED <<guiVars, cancelFlag, signals, worker, sent, threadVars, fileVars, crashed, posix>>

Recovered ==
    /\ worker = "called" /\ StaleRows = {}
    /\ worker' = "recovered"
    /\ UNCHANGED <<guiVars, cancelFlag, signals, sent, threadVars, row, fileVars, crashed, posix>>

\* PersistentRenderJobLifecycle::begin and MltRenderJob::start.
Begin ==
    /\ worker = "recovered"
    /\ row' = [row EXCEPT ![job].state = "PENDING"]
    /\ worker' = "polling" /\ sent' = FALSE
    /\ mem' = "PENDING" /\ stop' = FALSE /\ pc' = "start" /\ result' = "ok"
    /\ UNCHANGED <<guiVars, cancelFlag, signals, fileVars, crashed, posix>>

\* Mutant of SendCancel: a cancel is taken after the publication boundary too.
SendCancelAnyTime ==
    /\ worker = "polling" /\ cancelFlag /\ ~sent
    /\ sent' = TRUE
    /\ IF mem \in Terminal THEN UNCHANGED <<mem, stop>> ELSE stop' = TRUE /\ mem' = "CANCELLING"
    /\ UNCHANGED <<guiVars, cancelFlag, signals, worker, pc, result, row, fileVars, crashed, posix>>

\* MltRenderJob::cancel: not after the publication boundary.
SendCancel ==
    /\ worker = "polling" /\ cancelFlag /\ ~sent
    /\ sent' = TRUE
    /\ IF mem \in Terminal \cup {"PUBLISHING"}
       THEN UNCHANGED <<mem, stop>>
       ELSE stop' = TRUE /\ mem' = "CANCELLING"
    /\ UNCHANGED <<guiVars, cancelFlag, signals, worker, pc, result, row, fileVars, crashed, posix>>

\* Mutant: the worker does not return for a cancelled export.
PollForCompletion ==
    /\ worker = "polling" /\ (cancelFlag => sent)
    /\ IF mem \in {"COMPLETED", "FAILED"}
       THEN Say(mem, TRUE) /\ pc = "none" /\ worker' = "idle"
       ELSE /\ shown # mem /\ signals = <<>>
            /\ Say(mem, FALSE) /\ UNCHANGED worker
    /\ UNCHANGED <<guiVars, cancelFlag, sent, threadVars, row, fileVars, crashed, posix>>

\* A poll says something only when the state has changed; the render thread is joined
\* before the worker returns.
Poll ==
    /\ worker = "polling" /\ (cancelFlag => sent)
    /\ IF mem \in Terminal
       THEN Say(mem, TRUE) /\ pc = "none" /\ worker' = "idle"
       ELSE /\ shown # mem /\ signals = <<>>
            /\ Say(mem, FALSE) /\ UNCHANGED worker
    /\ UNCHANGED <<guiVars, cancelFlag, sent, threadVars, row, fileVars, crashed, posix>>

----------------------------------------------------------------------------
(* The render thread                                                       *)

Step(from, to) == pc = from /\ pc' = to
OtherVars == <<guiVars, cancelFlag, signals, worker, sent, crashed, posix>>

\* run(): publish(Running), refused once a cancel came first.
ThreadStarts ==
    /\ pc = "start"
    /\ IF stop THEN mem' = "CANCELLED" /\ pc' = "none" ELSE mem' = "RUNNING" /\ pc' = "running"
    /\ UNCHANGED <<stop, result, row, fileVars, OtherVars>>

\* isAllowedStateTransition, and the trigger render_jobs_state_transition.
Allowed(from, to) ==
    \/ from = to /\ from \notin Terminal
    \/ from = "PENDING" /\ to \in {"RUNNING", "CANCELLING", "FAILED"}
    \/ from = "RUNNING" /\ to \in {"PUBLISHING", "CANCELLING", "FAILED"}
    \/ from = "PUBLISHING" /\ to \in Terminal
    \/ from = "CANCELLING" /\ to \in Terminal

\* advance(): refused when the transition is not allowed, or when the database fails.
Advanced(state, evidence) ==
    /\ Allowed(row[job].state, state)
    /\ row' = [row EXCEPT ![job] = [state |-> state, evidence |-> evidence]]

\* A row that cannot be made RUNNING ends the operation before its finish().
RowRunning ==
    /\ pc = "running"
    /\ \/ Advanced("RUNNING", NoFile) /\ pc' = "preflight" /\ UNCHANGED result
       \/ pc' = "ended" /\ result' = "error" /\ UNCHANGED row
    /\ UNCHANGED <<mem, stop, fileVars, OtherVars>>

\* Encoder probe, graph and loudness pass: nothing on disk yet.
Preflight ==
    /\ pc = "preflight"
    /\ \/ ~stop /\ pc' = "encode" /\ UNCHANGED result
       \/ pc' = "cleanup" /\ result' = "error"
    /\ UNCHANGED <<mem, stop, row, fileVars, OtherVars>>

\* The consumer writes the partial; its progress rows leave the row RUNNING.
Encode ==
    /\ pc = "encode"
    /\ tmp' = tmp \cup {<<job, "mkv">>}
    /\ \/ ~stop /\ pc' = "encoded" /\ UNCHANGED result
       \/ pc' = "cleanup" /\ result' = "error"
    /\ UNCHANGED <<mem, stop, row, destVars, OtherVars>>

\* Probe of the partial, then report(Publishing): the boundary under the job's mutex.
Boundary ==
    /\ pc = "encoded"
    /\ \/ ~stop /\ mem' = "PUBLISHING" /\ pc' = "prepare" /\ UNCHANGED result
       \/ pc' = "cleanup" /\ result' = "error" /\ UNCHANGED mem
    /\ UNCHANGED <<stop, row, fileVars, OtherVars>>

\* Mutant of Prepare: the row says PUBLISHING before the evidence is there.
PrepareUnproven ==
    /\ pc = "prepare"
    /\ \/ Advanced("PUBLISHING", NoFile) /\ pc' = "publish" /\ UNCHANGED result
       \/ pc' = "cleanup" /\ result' = "error" /\ UNCHANGED row
    /\ UNCHANGED <<mem, stop, fileVars, OtherVars>>

\* preparePublication: hash and identity of the partial are the evidence.
Prepare ==
    /\ pc = "prepare"
    /\ \/ Advanced("PUBLISHING", <<job, "mkv">>) /\ pc' = "publish" /\ UNCHANGED result
       \/ pc' = "cleanup" /\ result' = "error" /\ UNCHANGED row
    /\ UNCHANGED <<mem, stop, fileVars, OtherVars>>

Output == <<job, wanted[job].format>>

Remux ==
    /\ pc = "publish" /\ Output \notin tmp
    /\ tmp' = tmp \cup {Output}
    /\ \/ UNCHANGED <<pc, result>>
       \/ pc' = "cleanup" /\ result' = "error"
    /\ UNCHANGED <<mem, stop, row, destVars, OtherVars>>

\* publishAtomically.  On POSIX a job that may not replace looks at the destination first ...
LookAtDestination ==
    /\ pc = "publish" /\ Output \in tmp
    /\ posix /\ ~wanted[job].replace
    /\ late' = FALSE
    /\ IF dest = NoFile THEN pc' = "rename" /\ UNCHANGED result ELSE pc' = "cleanup" /\ result' = "error"
    /\ UNCHANGED <<mem, stop, row, tmp, dest, published, OtherVars>>

\* ... and the rename replaces whatever is there; on Windows the move itself refuses.
Publish ==
    /\ pc = "rename" \/ (pc = "publish" /\ (posix => wanted[job].replace))
    /\ pc' = "cleanup"
    /\ Output \in tmp
    /\ \/ /\ posix \/ wanted[job].replace \/ dest = NoFile
          /\ dest' = Output /\ published' = [published EXCEPT ![job] = Output]
          /\ tmp' = tmp \ {Output}
          /\ UNCHANGED result
       \/ result' = "error" /\ UNCHANGED <<tmp, dest, published>>
    /\ late' = FALSE
    /\ UNCHANGED <<mem, stop, row, OtherVars>>

\* The PartialArtifact guards remove what was not published.
Cleanup ==
    /\ Step("cleanup", "finish")
    /\ tmp' = {f \in tmp : f[1] # job}
    /\ UNCHANGED <<mem, stop, result, row, destVars, OtherVars>>

\* finish(): a refused or failed update leaves the row as it is.
Finish ==
    /\ Step("finish", "ended")
    /\ LET state == IF stop THEN "CANCELLED" ELSE IF result = "ok" THEN "COMPLETED" ELSE "FAILED"
       IN  \/ Advanced(state, row[job].evidence) /\ UNCHANGED result
           \/ result' = "error" /\ UNCHANGED row
    /\ UNCHANGED <<mem, stop, fileVars, OtherVars>>

\* run(), after the operation.
ThreadEnds ==
    /\ Step("ended", "none")
    /\ mem' = IF stop THEN "CANCELLED" ELSE IF result = "ok" THEN "COMPLETED" ELSE "FAILED"
    /\ UNCHANGED <<stop, result, row, fileVars, OtherVars>>

----------------------------------------------------------------------------
(* The environment                                                         *)

\* Another program saves a file where the export is going to.
ForeignFile ==
    /\ dest = NoFile
    /\ dest' = Foreign /\ late' = (pc = "rename" \/ worker = "renaming")
    /\ UNCHANGED <<guiVars, cancelFlag, signals, worker, sent, threadVars, row, tmp, published, crashed, posix>>

\* The process dies and is started again.
Crash ==
    /\ worker # "idle"
    /\ crashed' = crashed \cup {job}
    /\ busy' = FALSE /\ shown' = "PENDING" /\ cancelFlag' = FALSE /\ signals' = <<>>
    /\ worker' = "idle" /\ sent' = FALSE
    /\ mem' = "PENDING" /\ stop' = FALSE /\ pc' = "none" /\ result' = "ok"
    /\ UNCHANGED <<job, wanted, told, row, fileVars, posix>>

\* The user exports no more.
NoMore == ~busy /\ job = Jobs /\ UNCHANGED renderVars

Thread ==
    \/ ThreadStarts \/ RowRunning \/ Preflight \/ Encode \/ Boundary \/ Prepare \/ Remux
    \/ LookAtDestination \/ Publish \/ Cleanup \/ Finish \/ ThreadEnds

Worker ==
    \/ RenderRefused \/ Recovered \/ Begin \/ SendCancel \/ Poll
    \/ \E j \in JobIds : RecoverLook(j) \/ RecoverPublish(j) \/ RecoverSettle(j)

RenderNext ==
    \/ \E c \in Exports : Export(c.format, c.replace)
    \/ Cancel \/ Quit \/ Deliver
    \/ Worker \/ Thread
    \/ ForeignFile \/ Crash \/ NoMore

\* The threads run: the GUI thread's event loop, the worker and the render thread.
RenderFairness == WF_renderVars(Deliver) /\ WF_renderVars(Worker) /\ WF_renderVars(Thread)

RenderSpec == RenderInit /\ [][RenderNext]_renderVars /\ RenderFairness

----------------------------------------------------------------------------
(* Properties                                                              *)

RenderFiles == JobIds \X {"mkv", "mp4"}

RenderTypeOK ==
    /\ job \in 0 .. Jobs
    /\ wanted \in [JobIds -> [format : {"mp4", "mkv"}, replace : BOOLEAN]]
    /\ busy \in BOOLEAN /\ cancelFlag \in BOOLEAN /\ sent \in BOOLEAN /\ stop \in BOOLEAN
    /\ worker \in {"idle", "called", "renaming", "recovered", "polling"}
    /\ pc \in {"none", "start", "running", "preflight", "encode", "encoded", "prepare",
               "publish", "rename", "cleanup", "finish", "ended"}
    /\ mem \in Stale \cup Terminal /\ shown \in Stale \cup Terminal /\ result \in {"ok", "error"}
    /\ signals \in Seq([state : Stale \cup Terminal, last : BOOLEAN])
    /\ row \in [JobIds -> [state : Stale \cup Terminal \cup {"none"}, evidence : RenderFiles \cup {NoFile}]]
    /\ \A j \in JobIds : row[j].state = "PUBLISHING" => row[j].evidence \in RenderFiles
    /\ told \in [JobIds -> Stale \cup Terminal \cup {"nothing"}]
    /\ tmp \subseteq RenderFiles /\ dest \in RenderFiles \cup {NoFile, Foreign}
    /\ published \in [JobIds -> RenderFiles \cup {NoFile}]
    /\ late \in BOOLEAN /\ posix \in BOOLEAN

\* What the user is told agrees with the disk, however the cancel, the render thread, the
\* row and crashes interleave: "completed" means that the row says so and the file was put
\* at the destination; after "cancelled" no file of the job is there, then or later.
TruthOf(j, answer) ==
    /\ answer = "COMPLETED" => row[j].state = "COMPLETED" /\ published[j] = <<j, wanted[j].format>>
    /\ answer = "CANCELLED" => row[j].state # "PUBLISHING" /\ published[j] = NoFile
ToldIsTrue == \A j \in JobIds : TruthOf(j, told[j])

\* A row is COMPLETED, by the job itself or by the recovery of a later export, only for
\* a job whose file was put at the destination.
CompletedIsPublished == \A j \in JobIds : row[j].state = "COMPLETED" => published[j] # NoFile

\* Partial files outlive their job only when the process died in it (PartialArtifact).
NoPartialLeft == \A f \in tmp : f[1] \in crashed \/ (f[1] = job /\ pc # "none")

\* Once the row says PUBLISHING no cancel is accepted any more: memory and stop token
\* agree with it as long as the thread is at it (MltRenderJob.cpp:52-72).
RowFollowsThread ==
    pc \in {"publish", "rename", "cleanup"} /\ row[job].state = "PUBLISHING" => mem = "PUBLISHING" /\ ~stop

\* One export at a time: the worker is called for the page that waits, its last signal
\* ends the wait, and the thread runs while the worker polls (ExportController::exportTo).
OneExport ==
    /\ pc # "none" => worker = "polling"
    /\ worker # "idle" => busy /\ job \in JobIds
    /\ busy => job \in JobIds
    /\ worker \in BeforeBegin => signals = <<>>
    /\ worker = "idle" => (busy <=> signals # <<>>)
    /\ \A i \in 1 .. Len(signals) : signals[i].last <=> worker = "idle" /\ i = Len(signals)

\* A job that is not begun has left nothing: no row, no answer, no file.  The job the page
\* waits for has not been answered.
NotBegun(j) == row[j] = NoRow /\ told[j] = "nothing" /\ published[j] = NoFile
NothingBefore ==
    /\ \A j \in JobIds : j > job => NotBegun(j)
    /\ worker \in BeforeBegin => NotBegun(job)
    /\ busy => told[job] = "nothing"
    /\ \A f \in tmp : f[1] <= job /\ (worker \in BeforeBegin => f[1] # job)

\* Memory, stop token, row and files at each place of the render thread: a stop is taken
\* before the publication boundary or not at all, and "ok" after it means published.
ThreadKeeps ==
    worker = "polling" =>
        /\ stop <=> mem \in {"CANCELLING", "CANCELLED"}
        /\ pc = "none" <=> mem \in Terminal
        /\ row[job].state = "PUBLISHING" \/ published[job] # NoFile =>
               mem \in {"PUBLISHING", "COMPLETED", "FAILED"}
        /\ pc \in {"prepare", "publish", "rename"} => mem = "PUBLISHING"
        /\ mem = "PUBLISHING" => pc \in {"prepare", "publish", "rename", "cleanup", "finish", "ended"}
        /\ pc \in {"publish", "rename"} => row[job].state = "PUBLISHING"
        /\ pc \in {"cleanup", "finish"} /\ result = "ok" =>
               row[job].state = "PUBLISHING" /\ published[job] = Output
        /\ pc = "ended" /\ result = "ok" => TruthOf(job, "COMPLETED")
        /\ pc = "none" => TruthOf(job, mem)
        /\ pc \in {"start", "running", "preflight", "encode", "finish", "ended"} =>
               \A f \in tmp : f[1] # job

\* What the last signal says will still be true when the page shows it (ExportWorker).
AnswerIsTrue ==
    worker = "idle" /\ busy => TruthOf(job, signals[Len(signals)].state)

\* A file of a job is at the destination only when it was put there, and evidence is of
\* the job's own file (RenderJobRecovery).
EvidenceIsOwn ==
    /\ dest \in RenderFiles => published[dest[1]] # NoFile
    /\ \A j \in JobIds : row[j].state = "PUBLISHING" => row[j].evidence = <<j, "mkv">>

\* What is found at the destination by a rename that may not replace came after the look
\* (publishAtomically, renameWithoutReplacement).
Looked ==
    /\ pc = "rename" => posix /\ ~wanted[job].replace
    /\ pc = "rename" \/ worker = "renaming" => dest = NoFile \/ (dest = Foreign /\ late)

RenderInv ==
    /\ ToldIsTrue /\ CompletedIsPublished /\ NoPartialLeft /\ RowFollowsThread
    /\ OneExport /\ NothingBefore /\ ThreadKeeps /\ AnswerIsTrue /\ EvidenceIsOwn /\ Looked

\* A file at the destination, the user's or that of an earlier export, is replaced only by
\* a job that was told to replace it, also when recovery publishes for a dead process.  On
\* POSIX one file is lost all the same: the user's, saved between the look at the destination
\* and the rename (MltEditEngine.cpp:106-113, RenderJobRecovery.cpp:203-218).
KeepsDestination ==
    [][dest # NoFile /\ dest' # dest =>
          /\ dest'[1] \in JobIds
          /\ wanted[dest'[1]].replace \/ (posix /\ late /\ dest = Foreign)]_renderVars

\* The export always ends for the user, whether it was cancelled, refused or failed.
ExportEnds == busy ~> ~busy

\* 2026-07-18-r1-06-export-design.md:126 "`pending|running -> cancelling -> cancelled`": a
\* cancelled export has a cancelled row.
CancelIsRecorded == \A j \in JobIds : told[j] = "CANCELLED" => row[j].state \in {"CANCELLING", "CANCELLED"}

\* MltEditEngine.cpp:1991 "then atomically publish the MP4": the file an export puts at
\* its destination has the format the destination asks for.
PublishesWantedFormat == \A j \in JobIds : published[j] # NoFile => published[j][2] = wanted[j].format
=============================================================================
