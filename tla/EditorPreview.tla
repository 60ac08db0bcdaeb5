----------------------------- MODULE EditorPreview ----------------------------
(***************************************************************************)
(* The editor page: EditorController on the GUI thread, the durable        *)
(* session on the thread of EditorSessionWorker and the edit engine with   *)
(* its graph on that of EditorEngineWorker.  Calls and answers travel as   *)
(* queued signals.  The controller sends the engine one command at a time  *)
(* from a queue of its own.                                                *)
(*                                                                         *)
(* A timeline is [project, rev, len, clips]: which one, its revision, its  *)
(* length in frames and the kinds of clip on it.  What an edit does to it  *)
(* exactly is the subject of TimelineEditing.                              *)
(***************************************************************************)
EXTENDS Naturals, Sequences, SequencesExt

CONSTANTS
    Length,       \* bound: frames of the longest timeline
    MaxRevision,  \* bound: edits of a project
    MaxOpens,     \* bound: projects opened
    Habits        \* bound: the kinds of user, each a set of what they do

ASSUME EditorAssumption == Length \in Nat \ {0} /\ MaxRevision \in Nat /\ MaxOpens \in Nat

VARIABLES
    habit,    \* what this user does
    disk,     \* the timeline of each project
    service,  \* the project the session worker has open, 0 for none
    calls,    \* calls on their way to the session worker
    answers,  \* its results on their way to the controller
    gui,      \* the controller's members
    graph,    \* the timeline the engine has loaded
    reply,    \* the engine's result on its way to the controller
    heard,    \* history: [at, wanted], the audio block pushed to the sink last
    healthy,  \* history: nothing failed that a correct engine, disk and font cache can do
    outside   \* history: a frame past the last one was asked for

sessionVars == <<habit, disk, service, calls, answers>>
engineVars == <<graph, reply>>
editorVars == <<sessionVars, gui, engineVars, heard, healthy, outside>>

Projects == {1, 2}
NoDoc == [project |-> 0, rev |-> 0, len |-> 0, clips |-> {}]
NoMark == Length + 1
NoImage == [doc |-> NoDoc, pos |-> 0]
NoCommand == [op |-> "none", gen |-> 0, doc |-> NoDoc, pos |-> 0]
NoReply == [ok |-> FALSE, rev |-> 0, op |-> "none"]
CountsAsBusy == {"load", "update", "play", "pause", "seek"}

EditorInit ==
    /\ habit \in Habits
    /\ disk = [p \in Projects |-> [project |-> p, rev |-> 0, len |-> Length, clips |-> {"video"}]]
    /\ service = 0 /\ calls = <<>> /\ answers = <<>>
    /\ gui = [sessionGeneration |-> 0, generation |-> 0, active |-> FALSE, ready |-> FALSE,
              sessionBusy |-> FALSE, derived |-> FALSE, snapshot |-> NoDoc, stale |-> TRUE,
              playing |-> FALSE, ticking |-> FALSE, playhead |-> 0, image |-> NoImage,
              frameInFlight |-> FALSE, audioInFlight |-> FALSE, audioInvalidated |-> FALSE,
              selected |-> "none", rangeIn |-> NoMark, rangeOut |-> NoMark,
              audioPosition |-> 0, queue |-> <<>>, current |-> NoCommand]
    /\ graph = NoDoc /\ reply = NoReply
    /\ heard = [at |-> 0, wanted |-> 0] /\ healthy = TRUE /\ outside = FALSE

----------------------------------------------------------------------------
(* The controller's helpers, as functions of its members g                 *)

Pending(g) == Range(g.queue) \cup {g.current}
Busy(g) == \E c \in Pending(g) : c.op \in CountsAsBusy

DispatchNext(g) ==
    IF g.current # NoCommand \/ g.queue = <<>> THEN g
    ELSE [g EXCEPT !.current = Head(g.queue), !.queue = Tail(@)]

Command(g, op, doc, pos) == [op |-> op, gen |-> g.generation, doc |-> doc, pos |-> pos]
PushBack(g, c) == DispatchNext([g EXCEPT !.queue = Append(@, c)])
PushFront(g, c) == DispatchNext([g EXCEPT !.queue = <<c>> \o @])

QueueFrame(g, pos) ==
    IF g.snapshot = NoDoc \/ g.stale \/ g.frameInFlight THEN g
    ELSE PushBack([g EXCEPT !.frameInFlight = TRUE], Command(g, "frame", g.snapshot, pos))

\* full: the sink has enough to play.
ScheduleAudioPull(g, full) ==
    IF \/ full \/ ~g.playing \/ ~g.ticking \/ g.snapshot = NoDoc \/ g.stale \/ g.audioInFlight
       \/ g.audioPosition >= g.snapshot.len
    THEN g
    ELSE PushFront([g EXCEPT !.audioInFlight = TRUE],
                   Command(g, "audio", g.snapshot, g.audioPosition))

\* Mutant of RestartAudioPull: a pull on its way is not marked as invalid.
RestartAudioPullOnly(g, from, full) == ScheduleAudioPull([g EXCEPT !.audioPosition = from], full)

RestartAudioPull(g, from, full) ==
    ScheduleAudioPull([g EXCEPT !.audioPosition = from,
                                !.audioInvalidated = @ \/ g.audioInFlight], full)

StopPlaying(g) == [g EXCEPT !.playing = FALSE, !.ticking = FALSE]

StartPlaying(g, full) ==
    IF g.playing THEN g
    ELSE RestartAudioPull([g EXCEPT !.playing = TRUE, !.ticking = TRUE], g.playhead, full)

----------------------------------------------------------------------------
(* The user; what may be pressed is in EditorPage.qml                      *)

OpenProject(p) ==
    /\ gui.sessionGeneration < MaxOpens
    /\ gui.sessionGeneration = 0 \/ "reopen" \in habit
    /\ gui' = [StopPlaying(gui) EXCEPT !.sessionGeneration = @ + 1, !.generation = @ + 1,
                  !.active = FALSE, !.ready = FALSE, !.derived = FALSE,
                  !.selected = "none", !.rangeIn = NoMark, !.rangeOut = NoMark,
                  !.image = NoImage, !.stale = TRUE, !.sessionBusy = TRUE]
    /\ calls' = Append(calls, [op |-> "open", gen |-> gui.sessionGeneration + 1,
                               project |-> p, pos |-> 0])
    /\ UNCHANGED <<habit, disk, service, answers, engineVars, heard, healthy, outside>>

EditingReady == gui.snapshot # NoDoc /\ ~Busy(gui) /\ ~gui.sessionBusy

QueueSessionEdit(op) ==
    /\ EditingReady /\ gui.ready
    /\ LET g == IF gui.playing
                THEN PushBack(StopPlaying(gui), Command(gui, "pause", NoDoc, 0)) ELSE gui
       IN  gui' = [g EXCEPT !.active = TRUE, !.sessionBusy = TRUE]
    /\ calls' = Append(calls, [op |-> op, gen |-> gui.sessionGeneration,
                               project |-> 0, pos |-> gui.playhead])
    /\ UNCHANGED <<habit, disk, service, answers, engineVars, heard, healthy, outside>>

SelectClip(kind) ==
    /\ "select" \in habit
    /\ kind \in gui.snapshot.clips /\ gui.selected # kind
    /\ gui' = [gui EXCEPT !.selected = kind]
    /\ UNCHANGED <<sessionVars, engineVars, heard, healthy, outside>>

HasMarkedRange(g) == g.rangeIn # NoMark /\ g.rangeOut # NoMark /\ g.rangeIn < g.rangeOut

MarkRangeIn ==
    /\ "mark" \in habit /\ EditingReady
    /\ gui' = IF gui.rangeOut = NoMark \/ gui.playhead <= gui.rangeOut
              THEN [gui EXCEPT !.rangeIn = gui.playhead]
              ELSE IF HasMarkedRange(gui)
              THEN [gui EXCEPT !.rangeIn = gui.playhead, !.rangeOut = NoMark]
              ELSE [gui EXCEPT !.rangeIn = gui.rangeOut, !.rangeOut = gui.playhead]
    /\ UNCHANGED <<sessionVars, engineVars, heard, healthy, outside>>

MarkRangeOut ==
    /\ "mark" \in habit /\ EditingReady
    /\ gui' = IF gui.rangeIn = NoMark \/ gui.playhead >= gui.rangeIn
              THEN [gui EXCEPT !.rangeOut = gui.playhead]
              ELSE [gui EXCEPT !.rangeOut = gui.rangeIn, !.rangeIn = gui.playhead]
    /\ UNCHANGED <<sessionVars, engineVars, heard, healthy, outside>>

\* Split and both trims, at the playhead.
CutSelected == "trim" \in habit /\ gui.selected # "none" /\ QueueSessionEdit("trim")

DeleteMarkedRange == HasMarkedRange(gui) /\ QueueSessionEdit("delete")

\* Transform, picture-in-picture and their resets; the audio envelope and its reset.
ApplyVisual == "apply" \in habit /\ gui.selected # "none" /\ QueueSessionEdit("apply")
ApplyAudio == "apply" \in habit /\ gui.selected = "video" /\ QueueSessionEdit("apply")

Title(op) ==
    /\ "title" \in habit /\ (op # "addTitle" => gui.selected = "title")
    /\ QueueSessionEdit(op)

\* A cue is added to the selected caption, to the one under the playhead, or to a new one.
Caption(op) ==
    /\ "caption" \in habit /\ (op # "addCaption" => gui.selected = "caption")
    /\ QueueSessionEdit(op)

UndoRedo == "undo" \in habit /\ QueueSessionEdit("undo")
Save == "save" \in habit /\ QueueSessionEdit("save")

PreviewReady == gui.snapshot # NoDoc /\ ~Busy(gui) /\ ~gui.stale

Play ==
    /\ PreviewReady /\ ~gui.playing /\ "play" \in habit
    /\ gui' = PushBack(gui, Command(gui, "play", NoDoc, 0))
    /\ UNCHANGED <<sessionVars, engineVars, heard, healthy, outside>>

Pause ==
    /\ PreviewReady /\ gui.playing
    /\ gui' = PushBack([gui EXCEPT !.ticking = FALSE], Command(gui, "pause", NoDoc, 0))
    /\ UNCHANGED <<sessionVars, engineVars, heard, healthy, outside>>

\* The slider ends at the duration, one past the last frame.
Seek(pos) ==
    /\ PreviewReady /\ "seek" \in habit /\ pos <= gui.snapshot.len
    /\ gui' = PushBack(gui, Command(gui, "seek", NoDoc, pos))
    /\ UNCHANGED <<sessionVars, engineVars, heard, healthy, outside>>

\* requestPlaybackFrame; pos is where the playback clock is.
Tick(pos, full) ==
    /\ gui.ticking
    /\ LET g == ScheduleAudioPull(gui, full)
           last == g.snapshot.len - 1
           Ended(h) == PushBack(StopPlaying(h), Command(h, "pause", NoDoc, 0))
       IN  gui' = IF ~g.playing \/ g.snapshot = NoDoc \/ g.stale \/ g.frameInFlight THEN g
                  ELSE IF pos > last
                       THEN Ended(IF last > g.playhead THEN QueueFrame(g, last) ELSE g)
                  ELSE IF pos > g.playhead THEN QueueFrame(g, pos) ELSE g
    /\ gui' # gui
    /\ UNCHANGED <<sessionVars, engineVars, heard, healthy, outside>>

----------------------------------------------------------------------------
(* EditorSessionWorker                                                     *)

Answer(call, ok, doc, derived, change) ==
    answers' = Append(answers, [op |-> call.op, gen |-> call.gen, ok |-> ok, doc |-> doc,
                                derived |-> derived, change |-> change])

SessionOpens ==
    /\ calls # <<>> /\ Head(calls).op = "open"
    /\ calls' = Tail(calls)
    /\ \/ \E derived \in BOOLEAN :
             /\ service' = Head(calls).project
             /\ Answer(Head(calls), TRUE, disk[Head(calls).project], derived, FALSE)
             /\ healthy' = (healthy /\ ~derived)
       \/ service' = 0 /\ Answer(Head(calls), FALSE, NoDoc, FALSE, FALSE) /\ UNCHANGED healthy
    /\ UNCHANGED <<habit, disk, gui, engineVars, heard, outside>>

\* The command does not fit the timeline, or the store refuses or fails.
SessionRefuses ==
    /\ calls # <<>> /\ Head(calls).op # "open"
    /\ calls' = Tail(calls)
    /\ Answer(Head(calls), FALSE, NoDoc, FALSE, FALSE)
    /\ UNCHANGED <<habit, disk, service, gui, engineVars, heard, healthy, outside>>

SessionSaves ==
    /\ calls # <<>> /\ Head(calls).op = "save" /\ service # 0
    /\ calls' = Tail(calls)
    /\ \E derived \in BOOLEAN :
          /\ Answer(Head(calls), TRUE, disk[service], derived, FALSE)
          /\ healthy' = (healthy /\ ~derived)
    /\ UNCHANGED <<habit, disk, service, gui, engineVars, heard, outside>>

Like(d, lengths, kinds) == [project : {d.project}, rev : {d.rev}, len : lengths, clips : kinds]

\* What an edit may make of timeline d: a trim ends it at the playhead, undo and redo
\* lead anywhere.
After(d, call) ==
    CASE call.op = "trim" -> {[d EXCEPT !.len = n] : n \in {call.pos} \cap 1 .. d.len - 1}
      [] call.op = "delete" -> Like(d, 1 .. d.len, SUBSET d.clips)
      [] call.op = "addTitle" -> {[d EXCEPT !.clips = @ \cup {"title"}]}
      [] call.op = "removeTitle" -> {[d EXCEPT !.clips = @ \ {"title"}]}
      [] call.op = "addCaption" -> {[d EXCEPT !.clips = @ \cup {"caption"}]}
      [] call.op = "removeCue" -> {d, [d EXCEPT !.clips = @ \ {"caption"}]}
      [] call.op = "undo" -> Like(d, 1 .. Length, {{}, d.clips, {"video"}})
      [] OTHER -> {d}

\* The edit is stored.  The overlays of titles and captions may still fail (derived); the
\* rest of the state was validated when the project was opened.
SessionEdits ==
    /\ calls # <<>> /\ Head(calls).op \notin {"open", "save"} /\ service # 0
    /\ disk[service].rev < MaxRevision
    /\ calls' = Tail(calls)
    /\ \E doc \in After(disk[service], Head(calls)), derived \in BOOLEAN :
          /\ disk' = [disk EXCEPT ![service] = [doc EXCEPT !.rev = @ + 1]]
          /\ Answer(Head(calls), TRUE, disk'[service], derived, TRUE)
          /\ healthy' = (healthy /\ ~derived)
    /\ UNCHANGED <<habit, service, gui, engineVars, heard, outside>>

----------------------------------------------------------------------------
(* EditorEngineWorker and the engine                                       *)

Possible(c) ==
    CASE c.op = "load" -> TRUE
      [] c.op = "update" -> graph # NoDoc /\ graph.rev = c.doc.rev - 1
      [] c.op \in {"frame", "audio"} -> graph # NoDoc /\ c.pos < graph.len
      [] OTHER -> graph # NoDoc

EngineRuns ==
    /\ gui.current # NoCommand /\ reply = NoReply
    /\ LET c == gui.current
       IN  /\ Possible(c)
           /\ graph' = IF c.op \in {"load", "update"} THEN c.doc ELSE graph
           /\ reply' = [ok |-> TRUE, rev |-> graph'.rev, op |-> c.op]
    /\ UNCHANGED <<sessionVars, gui, heard, healthy, outside>>

\* Building the graph or decoding may fail whatever is asked; the old graph stays.
EngineFails ==
    /\ gui.current # NoCommand /\ reply = NoReply
    /\ Possible(gui.current) => gui.current.op \in {"load", "update", "frame"}
    /\ reply' = [ok |-> FALSE, rev |-> 0, op |-> gui.current.op]
    /\ healthy' = (healthy /\ ~Possible(gui.current))
    /\ outside' = (outside \/ (gui.current.op = "frame" /\ ~Possible(gui.current)))
    /\ UNCHANGED <<sessionVars, gui, graph, heard>>

----------------------------------------------------------------------------
(* The controller hears of results                                         *)

\* handleSessionOpened and openSession
HandleOpened ==
    /\ answers # <<>> /\ Head(answers).op = "open"
    /\ LET a == Head(answers)
           g == [StopPlaying(gui) EXCEPT !.ready = TRUE, !.generation = @ + 1,
                    !.selected = "none", !.rangeIn = NoMark, !.rangeOut = NoMark,
                    !.snapshot = a.doc, !.playhead = 0, !.image = NoImage, !.stale = TRUE]
       IN  gui' = IF a.gen # gui.sessionGeneration THEN gui
                  ELSE IF ~a.ok THEN [gui EXCEPT !.ready = FALSE, !.sessionBusy = FALSE]
                  ELSE [PushBack(g, Command(g, "load", a.doc, 0))
                           EXCEPT !.derived = a.derived, !.sessionBusy = FALSE]
    /\ answers' = Tail(answers)
    /\ UNCHANGED <<habit, disk, service, calls, engineVars, heard, healthy, outside>>

\* handleSessionEdited
HandleEdited ==
    /\ answers # <<>> /\ Head(answers).op # "open"
    /\ LET a == Head(answers)
           g == [gui EXCEPT !.active = FALSE, !.sessionBusy = FALSE]
           h == [g EXCEPT !.snapshot = a.doc, !.stale = @ \/ a.derived \/ a.change,
                          !.selected = IF @ \in a.doc.clips THEN @ ELSE "none"]
       IN  gui' = IF a.gen # gui.sessionGeneration \/ ~gui.active THEN gui
                  ELSE IF ~a.ok THEN g
                  ELSE IF a.derived
                       THEN PushFront([h EXCEPT !.derived = TRUE], Command(h, "load", a.doc, 0))
                  ELSE IF a.change THEN PushBack(h, Command(h, "update", a.doc, 0))
                  ELSE h
    /\ answers' = Tail(answers)
    /\ UNCHANGED <<habit, disk, service, calls, engineVars, heard, healthy, outside>>

Current == gui.current.gen = gui.generation
Answered == [gui EXCEPT !.current = NoCommand]

\* handleCompleted, when the command is of this generation.
Completed(g, c, full) ==
    CASE c.op \in {"load", "update"} /\ reply.ok /\ (c.op = "load" => ~g.derived) ->
             QueueFrame([g EXCEPT !.stale = FALSE], g.playhead)
      [] c.op = "load" /\ (g.derived \/ ~reply.ok) -> [g EXCEPT !.stale = TRUE, !.derived = FALSE]
      [] c.op = "update" /\ ~reply.ok ->
             PushFront([g EXCEPT !.stale = TRUE], Command(g, "load", g.snapshot, 0))
      [] c.op = "play" /\ reply.ok -> StartPlaying(g, full)
      [] c.op = "pause" /\ reply.ok -> StopPlaying(g)
      [] c.op = "seek" /\ reply.ok ->
             LET h == [g EXCEPT !.playhead = c.pos]
             IN  QueueFrame(IF h.playing THEN RestartAudioPull(h, c.pos, full) ELSE h, c.pos)
      [] OTHER -> g

HandleCompleted(full) ==
    /\ reply # NoReply /\ reply.op \in CountsAsBusy
    /\ gui' = DispatchNext(IF Current THEN Completed(Answered, gui.current, full) ELSE Answered)
    /\ reply' = NoReply
    /\ UNCHANGED <<sessionVars, graph, heard, healthy, outside>>

HandleFrameCompleted ==
    /\ reply # NoReply /\ reply.op = "frame"
    /\ LET c == gui.current
           g == [Answered EXCEPT !.frameInFlight = FALSE]
       IN  gui' = DispatchNext(
                      IF ~Current \/ g.snapshot = NoDoc \/ c.doc.rev # g.snapshot.rev THEN g
                      ELSE IF ~reply.ok \/ reply.rev # c.doc.rev
                           THEN StopPlaying([g EXCEPT !.stale = TRUE])
                      ELSE [g EXCEPT !.image = [doc |-> graph, pos |-> c.pos], !.playhead = c.pos])
    /\ reply' = NoReply
    /\ UNCHANGED <<sessionVars, graph, heard, healthy, outside>>

HandleAudioCompleted(full) ==
    /\ reply # NoReply /\ reply.op = "audio"
    /\ LET c == gui.current
           pushed == Current /\ ~gui.audioInvalidated /\ reply.ok /\ gui.ticking
           g == [Answered EXCEPT !.audioInFlight = FALSE, !.audioInvalidated = FALSE,
                                 !.audioPosition = IF pushed THEN c.pos + 1 ELSE @]
       IN  /\ gui' = DispatchNext(ScheduleAudioPull(g, full))
           /\ heard' = IF pushed THEN [at |-> c.pos, wanted |-> gui.audioPosition] ELSE heard
    /\ reply' = NoReply
    /\ UNCHANGED <<sessionVars, graph, healthy, outside>>

----------------------------------------------------------------------------
Idle == Pending(gui) = {NoCommand} /\ calls = <<>> /\ answers = <<>>

\* The user goes away.
Leave == Idle /\ UNCHANGED editorVars

User ==
    \/ Leave
    \/ \E p \in Projects : OpenProject(p)
    \/ \E kind \in {"video", "title", "caption"} : SelectClip(kind)
    \/ MarkRangeIn \/ MarkRangeOut
    \/ CutSelected \/ DeleteMarkedRange \/ ApplyVisual \/ ApplyAudio \/ UndoRedo \/ Save
    \/ \E op \in {"addTitle", "editTitle", "removeTitle"} : Title(op)
    \/ \E op \in {"addCaption", "editCue", "removeCue"} : Caption(op)
    \/ Play \/ Pause
    \/ \E pos \in 0 .. Length : Seek(pos)

SessionWorker == SessionOpens \/ SessionRefuses \/ SessionSaves \/ SessionEdits
EngineWorker == EngineRuns \/ EngineFails

HandleSession == HandleOpened \/ HandleEdited

HandleEngine ==
    \/ HandleFrameCompleted
    \/ \E full \in BOOLEAN : HandleCompleted(full) \/ HandleAudioCompleted(full)

EditorNext ==
    \/ User
    \/ \E pos \in 0 .. Length, full \in BOOLEAN : Tick(pos, full)
    \/ SessionWorker \/ EngineWorker \/ HandleSession \/ HandleEngine

\* Two worker threads, and a GUI event loop that takes the signals of each in turn.
EditorFairness == WF_editorVars(SessionWorker) /\ WF_editorVars(EngineWorker) /\ WF_editorVars(HandleSession) /\ WF_editorVars(HandleEngine)

EditorSpec == EditorInit /\ [][EditorNext]_editorVars /\ EditorFairness

----------------------------------------------------------------------------
(* Properties                                                              *)

EditorTypeOK ==
    /\ service \in Projects \cup {0}
    /\ gui.snapshot = NoDoc \/ (gui.snapshot.project \in Projects /\ gui.snapshot.len \in 1 .. Length)
    /\ gui.playhead \in 0 .. Length /\ gui.audioPosition \in 0 .. Length
    /\ Len(gui.queue) <= MaxOpens + 3 /\ Len(calls) + Len(answers) <= MaxOpens
    /\ gui.snapshot # NoDoc => gui.snapshot.rev <= disk[gui.snapshot.project].rev

\* A request counted as in flight is in flight, and only one of each kind; a busy session
\* has a call or an answer of its own generation on the way.  Otherwise the picture, the
\* sound or every edit button would stay dead after some order of failures and reopenings.
NothingForgotten ==
    /\ \A op \in {"frame", "audio"} :
           Cardinality({i \in DOMAIN gui.queue : gui.queue[i].op = op})
               + (IF gui.current.op = op THEN 1 ELSE 0)
             = IF (op = "frame" /\ gui.frameInFlight) \/ (op = "audio" /\ gui.audioInFlight) THEN 1 ELSE 0
    /\ gui.sessionBusy =>
           \E m \in Range(calls) \cup Range(answers) : m.gen = gui.sessionGeneration
    /\ gui.active => gui.sessionBusy

\* A preview that is not marked stale is one of the timeline on the page: the engine has
\* that timeline of that project and nothing on the way changes it.
FreshIsCurrent ==
    ~gui.stale =>
        /\ graph = gui.snapshot
        /\ \A c \in Pending(gui) : c.op \notin {"load", "update"} \/ reply.op = c.op

\* Once no frame is on the way either, the picture is the frame at the playhead.
PictureIsAtPlayhead ==
    ~gui.stale /\ ~gui.frameInFlight => gui.image = [doc |-> gui.snapshot, pos |-> gui.playhead]

\* When nothing fails, a stale preview is repaired without the user, unless a frame past
\* the last one was asked for.
StaleIsRepaired == healthy /\ ~outside /\ gui.ready /\ Idle => ~gui.stale

\* The selected clip is on the timeline shown, and a marked range does not run backwards,
\* so that the next cut or deletion is one the user can see.
SelectionIsShown ==
    /\ gui.selected # "none" => gui.selected \in gui.snapshot.clips
    /\ gui.rangeIn # NoMark /\ gui.rangeOut # NoMark => gui.rangeIn <= gui.rangeOut

\* A block of sound pulled before a seek or a new start is never played after it.
SoundFollows == heard.at = heard.wanted

EditorInv ==
    /\ NothingForgotten /\ FreshIsCurrent /\ PictureIsAtPlayhead /\ StaleIsRepaired
    /\ SelectionIsShown /\ SoundFollows

\* The page becomes usable again after every edit, opening and failure.
EditorEnds == (gui.sessionBusy ~> ~gui.sessionBusy) /\ (Busy(gui) ~> ~Busy(gui))

\* 2026-07-17-r1-03-mlt-preview-playback.md:89 "seek requests the exact frame, and engine
\* failures make preview stale": wherever the slider was moved, a working engine's frame is
\* shown in the end.
SeekIsShown == healthy /\ gui.ready /\ Idle => ~gui.stale
=============================================================================
