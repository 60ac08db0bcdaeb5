----------------------------- MODULE SegmentStore -----------------------------
(***************************************************************************)
(* A project package over its lifetime: the rows of project.db and the     *)
(* media files beside it, written by the takes recorded into it one after  *)
(* the other, across crashes and recoveries.                               *)
(*                                                                         *)
(* A take is a recording session.  Each of its sources has a writer (the   *)
(* DurableSegmentPublisher of its recorder) that turns segments into rows  *)
(* and files one at a time.  A segment's files are named by its source and *)
(* index and not by its session (RecordingTrack.cpp:90-100), so a path is  *)
(* a pair <<source, index>> that all takes share.  A file is modelled by   *)
(* the session whose media it holds.                                       *)
(*                                                                         *)
(* Takes begin and end on the project worker, where recover() runs too.    *)
(* The writers do not: an opening that was under way when Record was       *)
(* clicked turns the page away from the take (Main.qml:106-111), and the   *)
(* user may then recover the very session that is being recorded.          *)
(*                                                                         *)
(* The process may stop between any two steps.  A statement of SQLite is   *)
(* durable when it returns; so is a name in a directory.                   *)
(***************************************************************************)
EXTENDS Naturals

CONSTANTS
    Sessions,        \* session identities; each is used once
    Sources,         \* capture sources, the same in every take
    MaxIndex,        \* bound: segments per source and take
    NoOne,           \* no session
    Platforms        \* how a part is published where the package is opened: renamed in
                     \* one step (Windows, macOS), or linked and then unlinked (Linux);
                     \* a package that is carried between them meets both

ASSUME StoreAssumption ==
    NoOne \notin Sessions /\ MaxIndex \in Nat /\ Platforms \subseteq {"rename", "link"}

Paths == Sources \X (0 .. MaxIndex)

VARIABLES
    session,         \* session -> recording_sessions.state
    row,             \* session -> path -> segments.status
    part,            \* path -> whose media .tmp/<path>.part holds
    final,           \* path -> whose media <path> holds
    quarantine,      \* session -> path -> recovery/quarantine/<session>/<path>.part
    orphans,         \* path -> recovery/quarantine/orphans/<path>.part
    project,         \* "open" or "closed": ProjectController::project_
    take,            \* the session being recorded
    writer,          \* source -> where its writer is
    index,           \* source -> the segment it is at
    recovering,      \* the session recover() works on
    step,            \* where recover() is
    claimed,         \* the paths of all WRITING rows when it began: referencedParts
    todo,            \* the paths it looks for parts at: a part made there after it has
                     \* looked is not seen
    moving,          \* the path quarantinePart has found in order and is moving, if any
    recorded,        \* history: the parts the encoders ever created
    overtaken        \* history: sessions that were recovered while they were recorded

filesVars == <<part, final, quarantine, orphans>>
takeVars == <<take, writer, index>>
recoverVars == <<recovering, step, claimed, todo, moving>>
historyVars == <<recorded, overtaken>>
vars == <<session, row, filesVars, project, takeVars, recoverVars, historyVars>>

-----------------------------------------------------------------------------

Nothing == [p \in Paths |-> NoOne]

Init ==
    /\ session = [s \in Sessions |-> "none"]
    /\ row = [s \in Sessions |-> [p \in Paths |-> "none"]]
    /\ part = Nothing /\ final = Nothing
    /\ quarantine = [s \in Sessions |-> Nothing] /\ orphans = Nothing
    /\ project = "closed" /\ take = NoOne
    /\ writer = [x \in Sources |-> "none"] /\ index = [x \in Sources |-> 0]
    /\ recovering = NoOne /\ step = "idle" /\ claimed = {} /\ todo = {} /\ moving = <<>>
    /\ recorded = {} /\ overtaken = {}

Interrupted == {s \in Sessions : session[s] = "RECORDING"}
Path(x) == <<x, index[x]>>
RowOf(x) == row[take][Path(x)]
SetRow(x, status) == row' = [row EXCEPT ![take][Path(x)] = status]

\* open(): a project with interrupted sessions is opened by recovering one.
OpenProject ==
    /\ project = "closed" /\ recovering = NoOne /\ Interrupted = {}
    /\ project' = "open"
    /\ UNCHANGED <<session, row, filesVars, takeVars, recoverVars, historyVars>>

RecoveryEnds == recovering' = NoOne /\ step' = "idle" /\ claimed' = {} /\ todo' = {}

\* The process stops; rows and files stay as they are.
Crash ==
    /\ project = "open" \/ recovering # NoOne
    /\ project' = "closed" /\ take' = NoOne
    /\ writer' = [x \in Sources |-> "none"] /\ index' = [x \in Sources |-> 0]
    /\ RecoveryEnds /\ moving' = <<>>
    /\ UNCHANGED <<session, row, filesVars, historyVars>>

-----------------------------------------------------------------------------
(* A take. *)

\* beginRecording(), on the project worker like recover().
BeginRecording(s) ==
    /\ project = "open" /\ take = NoOne /\ recovering = NoOne /\ session[s] = "none"
    /\ session' = [session EXCEPT ![s] = "RECORDING"]
    /\ take' = s /\ writer' = [x \in Sources |-> "idle"] /\ index' = [x \in Sources |-> 0]
    /\ UNCHANGED <<row, filesVars, project, recoverVars, historyVars>>

\* Only a session that is RECORDING is aborted or completed.
EndSession(states) ==
    \/ /\ session[take] = "RECORDING"
       /\ \E state \in states : session' = [session EXCEPT ![take] = state]
    \/ session[take] # "RECORDING" /\ UNCHANGED session

\* The engine does not start: nothing was recorded, the session is aborted, or
\* the store refuses even that and it stays RECORDING.
AbortRecording ==
    /\ take # NoOne /\ recovering = NoOne
    /\ \A x \in Sources : writer[x] = "idle" /\ index[x] = 0
    /\ EndSession({"ABORTED", "RECORDING"})
    /\ take' = NoOne /\ writer' = [x \in Sources |-> "none"]
    /\ UNCHANGED <<row, filesVars, project, index, recoverVars, historyVars>>

At(x, place) == take # NoOne /\ writer[x] = place

Goes(x, place) == writer' = [writer EXCEPT ![x] = place]

\* begin(): prepare() wants both names free, which only this writer changes, and
\* beginSegment() a session that is RECORDING.  A take that stops may still have queued
\* media that open a segment.
Prepare(x) ==
    /\ At(x, "idle")
    /\ part[Path(x)] = NoOne /\ final[Path(x)] = NoOne
    /\ (session[take] = "RECORDING" /\ Goes(x, "prepared")) \/ Goes(x, "done")
    /\ UNCHANGED <<row, filesVars, index, recorded>>

\* ... and refuses with AlreadyExists otherwise.
PrepareCollides(x) ==
    /\ At(x, "idle")
    /\ part[Path(x)] # NoOne \/ final[Path(x)] # NoOne
    /\ Goes(x, "collided")
    /\ UNCHANGED <<row, filesVars, index, recorded>>

\* Mutant: a refused row is ignored.
BeginSegmentAnyway(x) ==
    /\ At(x, "prepared")
    /\ SetRow(x, "WRITING") \/ UNCHANGED row
    /\ Goes(x, "begun")
    /\ UNCHANGED <<filesVars, index, recorded>>

\* beginSegment() inserts the row in a statement of its own, whatever has become of the
\* session since.  The row is WRITING before there is a file.
BeginSegment(x) ==
    /\ At(x, "prepared")
    /\ \/ SetRow(x, "WRITING") /\ Goes(x, "begun")
       \/ Goes(x, "done") /\ UNCHANGED row
    /\ UNCHANGED <<filesVars, index, recorded>>

\* The encoder creates the part and writes it.  recover() sees it, or has looked before.
StartEncoder(x) ==
    /\ At(x, "begun")
    /\ part' = [part EXCEPT ![Path(x)] = take]
    /\ recorded' = recorded \cup {<<take, Path(x)>>}
    /\ todo' \in {todo, todo \ {Path(x)}}
    /\ Goes(x, "encoding")
    /\ UNCHANGED <<row, final, quarantine, orphans, index>>

\* publish() needs the part where the encoder made it: recover() may have moved it.
HasPart(x) == part[Path(x)] = take

\* A rename without overwrite; what follows it may fail.
PublishRename(x) ==
    /\ "rename" \in Platforms /\ At(x, "encoding") /\ HasPart(x) /\ final[Path(x)] = NoOne
    /\ final' = [final EXCEPT ![Path(x)] = take]
    /\ part' = [part EXCEPT ![Path(x)] = NoOne]
    /\ Goes(x, "published") \/ Goes(x, "done")
    /\ UNCHANGED <<row, quarantine, orphans, index, recorded>>

PublishLink(x) ==
    /\ "link" \in Platforms /\ At(x, "encoding") /\ HasPart(x) /\ final[Path(x)] = NoOne
    /\ final' = [final EXCEPT ![Path(x)] = take]
    /\ Goes(x, "linked")
    /\ UNCHANGED <<row, part, quarantine, orphans, index, recorded>>

PublishUnlink(x) ==
    /\ At(x, "linked")
    /\ \/ /\ HasPart(x)
          /\ part' = [part EXCEPT ![Path(x)] = NoOne]
          /\ Goes(x, "published") \/ Goes(x, "done")
       \/ Goes(x, "done") /\ UNCHANGED part
    /\ UNCHANGED <<row, final, quarantine, orphans, index, recorded>>

\* Rows are turned from WRITING, while the session is RECORDING.
Writable(x) == session[take] = "RECORDING" /\ RowOf(x) = "WRITING"

\* ready(): the row is READY after the file is final; if the store refuses, the
\* row stays as it is.
MarkReady(x) ==
    /\ At(x, "published")
    /\ \/ Writable(x) /\ SetRow(x, "READY") /\ Goes(x, "closed")
       \/ Goes(x, "done") /\ UNCHANGED row
    /\ UNCHANGED <<filesVars, index, recorded>>

\* fail(): the encoder, its last flush or the rename failed.  The part is left where it
\* is; the row becomes FAILED, or stays as it is if the store refuses.
MarkFailed(x) ==
    /\ At(x, "begun") \/ At(x, "encoding")
    /\ (Writable(x) /\ SetRow(x, "FAILED")) \/ UNCHANGED row
    /\ Goes(x, "done")
    /\ UNCHANGED <<filesVars, index, recorded>>

NextSegment(x) ==
    /\ At(x, "closed") /\ index[x] < MaxIndex
    /\ index' = [index EXCEPT ![x] = @ + 1] /\ Goes(x, "idle")
    /\ UNCHANGED <<row, filesVars, recorded>>

\* The take may be stopped at any moment, by the user or because another track failed.
WriterStops(x) ==
    /\ At(x, "idle") \/ At(x, "closed")
    /\ Goes(x, "done")
    /\ UNCHANGED <<row, filesVars, index, recorded>>

\* completeRecording(): refused while a row of the session is WRITING; the
\* project stays open either way.
CompleteRecording ==
    /\ take # NoOne /\ recovering = NoOne /\ \A x \in Sources : writer[x] \in {"done", "collided"}
    /\ \/ (\A p \in Paths : row[take][p] # "WRITING") /\ EndSession({"COMPLETED"})
       \/ UNCHANGED session
    /\ take' = NoOne /\ writer' = [x \in Sources |-> "none"] /\ index' = [x \in Sources |-> 0]
    /\ UNCHANGED <<row, filesVars, project, recoverVars, historyVars>>

-----------------------------------------------------------------------------
(* recover() of one interrupted session, which may be the one being recorded.  *)

Known(s) == {p \in Paths : row[s][p] = "WRITING"}
Referenced == UNION {Known(s) : s \in Sessions}

\* The WRITING rows of all sessions are read once.
StartRecovery(s) ==
    /\ recovering = NoOne /\ s \in Interrupted
    /\ recovering' = s /\ step' = "parts"
    /\ claimed' = Referenced /\ todo' = Known(s)
    /\ UNCHANGED <<part, quarantine, orphans, moving>>

\* Where quarantinePart() takes the part of p: those of the session's WRITING rows to a
\* place of the session's own, and then those no WRITING row claimed among the orphans.
Destination(p) == IF step = "parts" THEN quarantine[recovering][p] ELSE orphans[p]
PutThere(p, media) ==
    IF step = "parts"
    THEN quarantine' = [quarantine EXCEPT ![recovering][p] = media] /\ UNCHANGED orphans
    ELSE orphans' = [orphans EXCEPT ![p] = media] /\ UNCHANGED quarantine

\* A part has a second name: a session makes one file at a path.
Doubled(p) ==
    \/ part[p] \in {final[p], orphans[p]}
    \/ \E t \in Sessions : quarantine[t][p] = part[p]

\* Mutant: only the part is looked at, and a name that is there is taken for its own.
InspectPartOnly(p) ==
    /\ recovering # NoOne /\ moving = <<>> /\ p \in todo /\ part[p] # NoOne /\ ~Doubled(p)
    /\ moving' = <<p>>
    /\ UNCHANGED <<part, quarantine, orphans, recovering, step, claimed, todo>>

\* validatedPlainFile() of the two names: the part has one name, the other is free.
InspectPart(p) ==
    /\ recovering # NoOne /\ moving = <<>> /\ p \in todo /\ part[p] # NoOne /\ ~Doubled(p) /\ Destination(p) = NoOne
    /\ moving' = <<p>>
    /\ UNCHANGED <<part, quarantine, orphans, recovering, step, claimed, todo>>

Linked(p) == Destination(p) # NoOne

\* moveWithoutOverwrite(): the part may have gone since, published by its writer.
MoveByRename(p) ==
    /\ "rename" \in Platforms /\ moving = <<p>> /\ ~Linked(p) /\ part[p] # NoOne
    /\ PutThere(p, part[p])
    /\ part' = [part EXCEPT ![p] = NoOne] /\ moving' = <<>>
    /\ UNCHANGED <<recovering, step, claimed, todo>>

MoveByLink(p) ==
    /\ "link" \in Platforms /\ moving = <<p>> /\ ~Linked(p) /\ part[p] # NoOne
    /\ PutThere(p, part[p])
    /\ UNCHANGED <<part, recoverVars>>

MoveByUnlink(p) ==
    /\ moving = <<p>> /\ Linked(p) /\ part[p] # NoOne
    /\ part' = [part EXCEPT ![p] = NoOne] /\ moving' = <<>>
    /\ UNCHANGED <<quarantine, orphans, recovering, step, claimed, todo>>

\* unlink() of the part fails: the new name is taken back and recover() fails.
MoveTakenBack(p) ==
    /\ moving = <<p>> /\ Linked(p) /\ moving' = <<>>
    /\ PutThere(p, NoOne)
    /\ RecoveryEnds
    /\ UNCHANGED part

\* Mutant: the parts of the session are left in place.
PartsSkipped ==
    /\ step = "parts" /\ moving = <<>>
    /\ step' = "orphans" /\ todo' = Paths \ claimed
    /\ UNCHANGED <<part, quarantine, orphans, recovering, claimed, moving>>

\* No part is left that it sees at the session's rows; the orphans are next, every part
\* that orphanPartCandidates() finds.
PartsDone ==
    /\ step = "parts" /\ moving = <<>> /\ \A p \in todo : part[p] = NoOne
    /\ step' = "orphans" /\ todo' = Paths \ claimed
    /\ UNCHANGED <<part, quarantine, orphans, recovering, claimed, moving>>

\* Mutant: the failed recovery keeps its place.
RecoveryFailsMidway ==
    /\ recovering # NoOne /\ \A p \in Paths : moving = <<p>> => ~Linked(p)
    /\ recovering' = NoOne /\ moving' = <<>>
    /\ UNCHANGED <<part, quarantine, orphans, step, claimed, todo>>

\* An I/O error, or a file recover() may not move.
RecoveryFails ==
    /\ recovering # NoOne /\ \A p \in Paths : moving = <<p>> => ~Linked(p)
    /\ RecoveryEnds /\ moving' = <<>>
    /\ UNCHANGED <<part, quarantine, orphans>>

\* Mutant: every row of the session fails.
CommitRecoveryAll ==
    /\ step = "orphans" /\ moving = <<>> /\ \A p \in todo : part[p] = NoOne
    /\ row' = [row EXCEPT ![recovering] =
                  [p \in Paths |-> IF @[p] # "none" THEN "FAILED" ELSE @[p]]]
    /\ session' = [session EXCEPT ![recovering] = "RECOVERED"]
    /\ overtaken' = overtaken \cup ({recovering} \cap {take})
    /\ RecoveryEnds /\ project' = "open"
    /\ UNCHANGED <<filesVars, takeVars, moving, recorded>>

\* SqliteProjectDatabase::recover(), one transaction; the project opens.
CommitRecovery ==
    /\ step = "orphans" /\ moving = <<>> /\ \A p \in todo : part[p] = NoOne
    /\ row' = [row EXCEPT ![recovering] =
                  [p \in Paths |-> IF @[p] = "WRITING" THEN "FAILED" ELSE @[p]]]
    /\ session' = [session EXCEPT ![recovering] = "RECOVERED"]
    /\ overtaken' = overtaken \cup ({recovering} \cap {take})
    /\ RecoveryEnds /\ project' = "open"
    /\ UNCHANGED <<filesVars, takeVars, moving, recorded>>

-----------------------------------------------------------------------------

WriterStep(x) ==
    /\ \/ /\ \/ Prepare(x) \/ PrepareCollides(x) \/ BeginSegment(x)
             \/ PublishRename(x) \/ PublishLink(x) \/ PublishUnlink(x)
             \/ MarkReady(x) \/ MarkFailed(x) \/ NextSegment(x) \/ WriterStops(x)
          /\ UNCHANGED todo
       \/ StartEncoder(x)
    /\ UNCHANGED <<session, project, take, recovering, step, claimed, moving, overtaken>>

PartStep(p) ==
    \/ InspectPart(p)
    \/ MoveByRename(p) \/ MoveByLink(p) \/ MoveByUnlink(p) \/ MoveTakenBack(p)

RecoveryStep ==
    /\ \/ \E s \in Sessions : StartRecovery(s)
       \/ \E p \in Paths : PartStep(p)
       \/ PartsDone \/ RecoveryFails
    /\ UNCHANGED <<session, row, final, project, takeVars, historyVars>>

Next ==
    \/ OpenProject \/ Crash
    \/ (\E s \in Sessions : BeginRecording(s))
    \/ AbortRecording \/ CompleteRecording
    \/ (\E x \in Sources : WriterStep(x))
    \/ RecoveryStep \/ CommitRecovery

Spec == Init /\ [][Next]_vars

-----------------------------------------------------------------------------
(* What is checked. *)

Places == {"none", "idle", "prepared", "begun", "encoding", "linked", "published", "closed",
           "done", "collided"}
Holder == Sessions \cup {NoOne}

\* Every variable holds a value of its kind.
TypeOK ==
    /\ session \in [Sessions -> {"none", "RECORDING", "COMPLETED", "RECOVERED", "ABORTED"}]
    /\ row \in [Sessions -> [Paths -> {"none", "WRITING", "READY", "FAILED"}]]
    /\ part \in [Paths -> Holder] /\ final \in [Paths -> Holder]
    /\ quarantine \in [Sessions -> [Paths -> Holder]] /\ orphans \in [Paths -> Holder]
    /\ project \in {"open", "closed"} /\ take \in Holder
    /\ writer \in [Sources -> Places] /\ index \in [Sources -> 0 .. MaxIndex]
    /\ recovering \in Holder /\ step \in {"idle", "parts", "orphans"}
    /\ (recovering = NoOne) <=> (step = "idle")
    /\ claimed \subseteq Paths /\ todo \subseteq Paths
    /\ moving = <<>> \/ \E p \in Paths : moving = <<p>>
    /\ recorded \subseteq Sessions \X Paths /\ overtaken \subseteq Sessions

\* A READY row names a file that exists and holds this session's media, whatever
\* other takes share its path, wherever the process stopped, however often recovery
\* ran, and also when it ran during the take.
ReadyHasFile ==
    \A s \in Sessions, p \in Paths : row[s][p] = "READY" => final[p] = s

Closed == {s \in Sessions : session[s] \in {"COMPLETED", "RECOVERED", "ABORTED"}}

\* A session that was completed, recovered or aborted has no WRITING row left, unless it
\* was recovered while it was recorded: beginSegment's row may come after the recovery.
ClosedIsSettled ==
    \A s \in Closed \ overtaken, p \in Paths : row[s][p] # "WRITING"

\* Media an encoder wrote is never lost: not overwritten by a later take with the same
\* path, not replaced in the quarantine, not between a writer that publishes a part and
\* the recovery that moves it away.
NoMediaLost ==
    \A s \in Sessions, p \in Paths :
        <<s, p>> \in recorded =>
            s \in {part[p], final[p], orphans[p]} \/ \E t \in Sessions : quarantine[t][p] = s

\* A recovered session left no part under .tmp, except where the WRITING row of another
\* session claims the path.  One that was recovered while it was recorded may leave one:
\* its writers go on until the store refuses them.
RecoveredLeavesNoPart ==
    \A s \in Sessions \ overtaken, p \in Paths :
        session[s] = "RECOVERED" /\ part[p] = s =>
            \E t \in Sessions \ {s} : row[t][p] = "WRITING"

\* Every part belongs to a row that is not READY, the one a recovery has overlooked too.
PartsHaveRows ==
    \A s \in Sessions, p \in Paths : part[p] = s => row[s][p] \in {"WRITING", "FAILED"}

\* The facts the takes and recover() rely on from one step to the next, as parts
\* of one inductive invariant.  A session is RECORDING while it is recovered, and while
\* it is recorded unless it was recovered meanwhile:
SessionsKeep ==
    /\ take # NoOne => session[take] = "RECORDING" \/ take \in overtaken
    /\ recovering # NoOne => session[recovering] = "RECORDING"
    /\ \A s \in overtaken : session[s] = "RECOVERED"
    /\ \A s \in Sessions : session[s] = "none" => \A p \in Paths : row[s][p] = "none"

\* ... where a writer is tells what its row says and whose media its files hold;
\* the indices it has not reached have no row:
OpenRow(x) == RowOf(x) = "WRITING" \/ (RowOf(x) = "FAILED" /\ take \in overtaken)
KeepsAt(x) ==
    /\ \A i \in 0 .. MaxIndex : i > index[x] => row[take][<<x, i>>] = "none"
    /\ writer[x] \in {"idle", "prepared"} => RowOf(x) = "none"
    /\ writer[x] \in {"begun", "encoding", "linked", "published"} => OpenRow(x)
    /\ writer[x] \in {"prepared", "begun", "published"} => part[Path(x)] = NoOne
    /\ writer[x] \in {"prepared", "begun"} => final[Path(x)] = NoOne
    /\ writer[x] \in {"linked", "published"} => final[Path(x)] = take

WriterKeeps ==
    take # NoOne =>
        /\ \A x \in Sources : KeepsAt(x)
        /\ \A p \in Paths : row[take][p] # "none" => part[p] \in {NoOne, take}

\* ... and of a session that is not being recorded, the parts recover() is done with are
\* gone from .tmp; a path it leaves to a WRITING row is still claimed by one, or by the
\* take; what it has linked is at its destination, and under its old name or published by
\* its writer.
Looked ==
    {p \in Paths \ todo : row[recovering][p] = "WRITING" \/ (step = "orphans" /\ p \notin claimed)}
LookedAreGone ==
    recovering \notin {NoOne, take} =>
        /\ Known(recovering) \subseteq claimed
        /\ \A p \in Looked : part[p] \in {NoOne, take}
ClaimsStand ==
    recovering # NoOne =>
        \A p \in claimed : \/ \E t \in Sessions \ {take} : row[t][p] = "WRITING"
                          \/ (take # NoOne /\ row[take][p] # "none")
IdleMovesNothing == step = "idle" => moving = <<>>
LinkedIsThere ==
    \A p \in Paths :
        moving = <<p>> /\ Linked(p) =>
            Destination(p) = part[p] \/ (part[p] = NoOne /\ Destination(p) = final[p])
RecoveryKeeps == LookedAreGone /\ ClaimsStand /\ IdleMovesNothing /\ LinkedIsThere

StoreInv ==
    /\ SessionsKeep /\ WriterKeeps /\ RecoveryKeeps
    /\ ReadyHasFile /\ ClosedIsSettled /\ PartsHaveRows

\* What the database says never goes back: a closed session keeps its state and a READY or
\* FAILED row its status, and no row of a closed session changes, except that beginSegment
\* may still add one to the session of the take.
NeverGoesBack ==
    /\ \A s \in Closed : session'[s] = session[s]
    /\ \A s \in Sessions, p \in Paths :
          row'[s][p] # row[s][p] =>
              /\ row[s][p] \in {"none", "WRITING"}
              /\ s \in Closed => s = take /\ row[s][p] = "none" /\ row'[s][p] = "WRITING"
RowsMoveForward == [][NeverGoesBack]_vars

-----------------------------------------------------------------------------
(* What the documents say and the code does not do. *)

\* docs/superpowers/specs/2026-07-16-r0-02-project-package-design.md:265 and
\* tests/README.md:27: a later take of a project gets a new session and records.
LaterTakesRecord == \A x \in Sources : writer[x] # "collided"
=============================================================================
