---------------------------- MODULE TimelineEditing ----------------------------
(***************************************************************************)
(* The timeline of a project package and its two writers:                  *)
(*   - the editor, EditorSessionWorker with a TimelineEditService and an   *)
(*     EditHistory of EditorLimit commands;                                *)
(*   - the importer, RecordingTimelineReconciler on the Studio worker,     *)
(*     which opens a TimelineEditService of its own with ReconcilerLimit,  *)
(*     plans the import of a finished take and commits it.                 *)
(* Both go through SqliteTimelineStore.  A transaction is one step; each   *)
(* session keeps a copy of timeline, history and revision in memory, so    *)
(* the other writer or a crash can come between any two of its steps.      *)
(***************************************************************************)
EXTENDS TimelineRows

CONSTANTS
    EditorLimit,       \* history limit of the editor (100 in the code)
    ReconcilerLimit,   \* history limit of the importer (1000 in the code)
    Takes,             \* the recording sessions of the package
    Marks,             \* times the user puts the playhead at
    TextLen,           \* length of titles and caption clips the user adds
    Users,             \* sets of kinds of edit, one for each user looked at
    MaxRevision        \* bound on the revisions TLC looks at

\* The kinds of edit the editor's worker takes.
Kinds == {"split", "trim", "delete", "audio", "visual", "title", "editTitle", "remove",
          "addCue", "editCue", "dropCue"}

ASSUME EditingAssumption ==
    /\ EditorLimit \in Nat \ {0}
    /\ ReconcilerLimit \in Nat /\ ReconcilerLimit >= EditorLimit
    /\ Takes \subseteq Nat
    /\ Marks \subseteq Nat
    /\ TextLen \in Nat \ {0}
    /\ \A user \in Users : user \subseteq Kinds
    /\ MaxRevision \in Nat

VARIABLES
    store,      \* timelines, media_assets, edit_commands, edit_checkpoints, recording_imports
    editor,     \* the editor's session in memory, or Closed
    importer,   \* an import in progress, or Idle
    takes,      \* state of each recording session
    asks,       \* the kinds of edit this user asks for, one of Users
    past,       \* history variable: the timelines the stored history can go back to
    future,     \* history variable: the timelines it can go forward to
    saved,      \* history variable: the timeline at the last explicit save
    overtaken   \* history variable: a save came between the plan of an import and its commit

trail == <<past, future, saved, overtaken>>
vars == <<store, editor, importer, takes, asks, trail>>

Closed == [open |-> FALSE]
Idle == [planned |-> FALSE]
Finished == {"COMPLETED", "RECOVERED"}

\* defaultTimeline: one empty video and one empty audio track.
DefaultTimeline ==
    [tracks |-> <<[id |-> <<"video", 0>>, kind |-> "video", clips |-> {}],
                  [id |-> <<"audio", 0>>, kind |-> "audio", clips |-> {}]>>,
     markers |-> {}]

EmptyStore ==
    [exists |-> FALSE, tl |-> DefaultTimeline, revision |-> 0, events |-> <<>>,
     count |-> 0, cursor |-> 0, clean |-> {0}, imports |-> {}, assets |-> {}]

----------------------------------------------------------------------------
(* EditHistory: entries [id, cmd, undo], the applied ones before cursor;   *)
(* clean holds the position of the last save, or nothing.                  *)

\* Mutant: an eviction moves the entries but not the checkpoint.
PushedUnshifted(s, limit, id, c, x) ==
    LET kept  == SubSeq(s.history, 1, s.cursor)
        clean == {n \in s.clean : n <= s.cursor}
        all   == Append(kept, [id |-> id, cmd |-> c, undo |-> x.undo])
        over  == Len(all) > limit
    IN  [s EXCEPT !.tl = x.tl,
                  !.history = IF over THEN Tail(all) ELSE all,
                  !.cursor = IF over THEN limit ELSE Len(all),
                  !.clean = IF over THEN clean ELSE clean,
                  !.revision = @ + 1]

\* Execute drops the redo tail and, above the limit, the oldest entry.
Pushed(s, limit, id, c, x) ==
    LET kept  == SubSeq(s.history, 1, s.cursor)
        clean == {n \in s.clean : n <= s.cursor}
        all   == Append(kept, [id |-> id, cmd |-> c, undo |-> x.undo])
        over  == Len(all) > limit
    IN  [s EXCEPT !.tl = x.tl,
                  !.history = IF over THEN Tail(all) ELSE all,
                  !.cursor = IF over THEN limit ELSE Len(all),
                  !.clean = IF over THEN {n - 1 : n \in clean \ {0}} ELSE clean,
                  !.revision = @ + 1]

Executed(s, limit, c) ==
    {Pushed(s, limit, s.revision, c, x) : x \in Execute(s.tl, c)}

Undone(s) ==
    IF s.cursor = 0 THEN {}
    ELSE LET e == s.history[s.cursor]
         IN  {[s EXCEPT !.tl = t, !.cursor = @ - 1, !.revision = @ + 1] : t \in Undo(s.tl, e.cmd, e.undo)}

Redone(s) ==
    IF s.cursor = Len(s.history) THEN {}
    ELSE LET n == s.cursor + 1
         IN  {[s EXCEPT !.tl = x.tl, !.cursor = n, !.history[n].undo = x.undo, !.revision = @ + 1] :
                 x \in Execute(s.tl, s.history[n].cmd)}

----------------------------------------------------------------------------
(* SqliteTimelineStore                                                     *)

\* commitEdit: event, snapshot, revision and checkpoint in one transaction.
Stored(s, kind, entry) ==
    [store EXCEPT !.tl = s.tl,
                  !.revision = @ + 1,
                  !.events = Append(@, [kind |-> kind, entry |-> entry]),
                  !.count = Len(s.history),
                  !.cursor = s.cursor,
                  !.clean = s.clean]

\* Mutant: a session may store over revisions it has not seen.
FreshAlways(s) == s.revision <= store.revision

\* commitEdit and markExplicitSave refuse a session whose revision is not the stored one.
Fresh(s) == s.revision = store.revision

\* decodeHistory, first half: the audit events replayed with the reader's limit.
Replayed(r, event, limit) ==
    CASE event.kind = "APPLY" ->
           LET all == Append(SubSeq(r.entries, 1, r.cursor), event.entry)
               over == Len(all) > limit
           IN  [r EXCEPT !.entries = IF over THEN Tail(all) ELSE all,
                         !.cursor = IF over THEN limit ELSE Len(all)]
      [] event.kind = "UNDO" ->
           IF r.cursor > 0 /\ r.entries[r.cursor].id = event.entry.id
           THEN [r EXCEPT !.cursor = @ - 1] ELSE [r EXCEPT !.sound = FALSE]
      [] event.kind = "REDO" ->
           IF r.cursor < Len(r.entries) /\ r.entries[r.cursor + 1].id = event.entry.id
           THEN [r EXCEPT !.cursor = @ + 1] ELSE [r EXCEPT !.sound = FALSE]

Replay(limit) ==
    FoldLeft(LAMBDA r, e : IF r.sound THEN Replayed(r, e, limit) ELSE r,
             [entries |-> <<>>, cursor |-> 0, sound |-> TRUE], store.events)

\* The timelines after taking back the last n of the entries.
Rewound(tl, entries, n) ==
    FoldLeft(LAMBDA ts, e : UNION {Undo(t, e.cmd, e.undo) : t \in ts},
             {tl}, Reverse(SubSeq(entries, Len(entries) - n + 1, Len(entries))))

\* Executing the entries again must leave the undo state they were stored with.
Forward(tl, entries) ==
    FoldLeft(LAMBDA ts, e : {x.tl : x \in {y \in UNION {Execute(t, e.cmd) : t \in ts} : y.undo = e.undo}},
             {tl}, entries)

\* decodeHistory, second half: decode, undo everything, execute everything, compare.
Verified(tl, entries, cursor) ==
    /\ \A i \in DOMAIN entries : Decodable(entries[i].cmd, entries[i].undo, store.assets)
    /\ \E base \in Rewound(tl, SubSeq(entries, 1, cursor), cursor) :
          /\ Forward(base, entries) # {}
          /\ cursor > 0 => Forward(base, SubSeq(entries, 1, cursor)) = {tl}

\* loadPrimaryTimeline, after the rows: checkpoint and events agree with the revision.
SoundCheckpoint ==
    /\ store.cursor <= store.count
    /\ \A n \in store.clean : n <= store.count
    /\ Len(store.events) = store.revision

\* loadEditSession: one read transaction; store.tl stands for the rows of the timeline.
LoadEditSession(limit) ==
    LET r == Replay(limit)
    IN  {[tl |-> tl, history |-> r.entries, cursor |-> store.cursor,
          clean |-> store.clean, revision |-> store.revision] :
            tl \in {t \in LoadTimeline(SnapshotRows(store.tl), store.assets) :
                       /\ store.exists
                       /\ SoundCheckpoint
                       /\ store.count <= limit
                       /\ r.sound
                       /\ Len(r.entries) = store.count /\ r.cursor = store.cursor
                       /\ Verified(t, r.entries, r.cursor)}}

Init ==
    /\ store = EmptyStore
    /\ editor = Closed
    /\ importer = Idle
    /\ takes = [t \in Takes |-> "RECORDING"]
    /\ asks \in Users
    /\ past = <<>> /\ future = <<>> /\ saved = DefaultTimeline /\ overtaken = FALSE

----------------------------------------------------------------------------
(* The editor                                                              *)

\* openProject: close what is open, create a missing timeline, load; an error closes.
Open ==
    LET loaded == IF store.exists THEN LoadEditSession(EditorLimit)
                  ELSE {[tl |-> DefaultTimeline, history |-> <<>>, cursor |-> 0,
                         clean |-> {0}, revision |-> 0]}
    IN  /\ editor' = IF loaded = {} THEN Closed ELSE CHOOSE s \in loaded : TRUE
        /\ store' = [store EXCEPT !.exists = TRUE]
        /\ UNCHANGED <<importer, takes, asks, trail>>

FreshId(tag, n) == <<tag, editor.revision, n>>
Titles == {1, 2}
NewClip(kind, at, text, cues) ==
    [id |-> FreshId(kind, 0), kind |-> kind, asset |-> NoAsset, at |-> at, len |-> TextLen,
     from |-> 0, env |-> NoEnvelope, look |-> NoLook, text |-> text, cues |-> cues]
NewCue(at, text) == [id |-> FreshId("cue", 0), at |-> at, len |-> 1, text |-> text]
Reworded(cue) == [cue EXCEPT !.text = 2, !.at = 1]

Ranges == {r \in Marks \X Marks : r[1] < r[2]}

\* One identity for each clip that the range cuts in two.
DeleteCommand(from, to, ripple) ==
    LET spanned == {i \in DOMAIN editor.tl.tracks : Spans([from |-> from, to |-> to], editor.tl.tracks[i])}
    IN  [op |-> "delete", from |-> from, to |-> to, ripple |-> ripple,
         rights |-> [n \in 1 .. Cardinality(spanned) |-> FreshId("right", n)]]

Placed == {p \in TrackIds(editor.tl) \X AllClips(editor.tl) : p[2] \in ClipsOf(editor.tl, p[1])}
Captions == ClipsOf(editor.tl, CaptionTrack)

\* editCommand: the command of each request, with fresh identities.
Commands(kind) ==
    CASE kind = "split" ->
           {[op |-> "split", track |-> p[1], clip |-> p[2].id, at |-> m, right |-> FreshId("right", 0)] :
               p \in Placed, m \in Marks}
      [] kind = "trim" ->
           {[op |-> "trim", track |-> p[1], clip |-> p[2].id, at |-> m, leading |-> b] :
               p \in Placed, m \in Marks, b \in BOOLEAN}
      [] kind = "delete" ->
           {DeleteCommand(r[1], r[2], b) : r \in Ranges, b \in BOOLEAN}
      [] kind = "audio" ->
           {[op |-> "set", field |-> "env", track |-> p[1], clip |-> p[2].id, value |-> v, len |-> p[2].len] :
               p \in Placed, v \in {NoEnvelope, TakeLength}}
      [] kind = "visual" ->
           {[op |-> "set", field |-> "look", track |-> p[1], clip |-> p[2].id, value |-> 1] : p \in Placed}
      [] kind = "title" ->
           {[op |-> "title", new |-> NewClip("title", m, 1, {})] : m \in Marks}
      [] kind = "editTitle" ->
           {[op |-> "set", field |-> "text", track |-> p[1], clip |-> p[2].id, value |-> 2] : p \in Placed}
      [] kind = "remove" ->
           {[op |-> "remove", track |-> p[1], clip |-> p[2].id] : p \in Placed}
      [] kind = "addCue" ->
           {[op |-> "addCue", new |-> NewClip("caption", m, NoText, {NewCue(0, 1)})] : m \in Marks}
               \cup {[op |-> "addCue", new |-> [k EXCEPT !.cues = {NewCue(1, 1)}]] : k \in Captions}
      [] kind = "editCue" ->
           {[op |-> "editCue", clip |-> p[1].id, cue |-> Reworded(p[2])] :
               p \in {q \in Captions \X UNION {k.cues : k \in Captions} : q[2] \in q[1].cues}}
      [] kind = "dropCue" ->
           {[op |-> "dropCue", clip |-> p[1].id, cue |-> p[2].id] :
               p \in {q \in Captions \X UNION {k.cues : k \in Captions} : q[2] \in q[1].cues}}

\* The stored history after an edit, an undo and a redo: its length follows the code's.
Remember(s) ==
    /\ past' = LET all == Append(past, store.tl) IN SubSeq(all, Len(all) - s.cursor + 1, Len(all))
    /\ future' = <<>>
    /\ UNCHANGED <<saved, overtaken>>
StepBack ==
    /\ past' = Front(past)
    /\ future' = <<store.tl>> \o future
    /\ UNCHANGED <<saved, overtaken>>
StepForward ==
    /\ past' = Append(past, store.tl)
    /\ future' = Tail(future)
    /\ UNCHANGED <<saved, overtaken>>

\* persist: the transaction first, then memory; a stale session changes nothing.
Persist(s, kind, entry) ==
    /\ store.revision < MaxRevision
    /\ Fresh(editor)
    /\ store' = Stored(s, kind, entry)
    /\ editor' = s
    /\ UNCHANGED <<importer, takes, asks>>

Edit(kind) ==
    /\ editor # Closed
    /\ \E c \in Commands(kind) : \E s \in Executed(editor, EditorLimit, c) :
          /\ Persist(s, "APPLY", s.history[s.cursor])
          /\ Remember(s)

UndoEdit ==
    /\ editor # Closed
    /\ \E s \in Undone(editor) : Persist(s, "UNDO", editor.history[editor.cursor])
    /\ StepBack

RedoEdit ==
    /\ editor # Closed
    /\ \E s \in Redone(editor) : Persist(s, "REDO", editor.history[editor.cursor + 1])
    /\ StepForward

\* markExplicitSave: no event and no new revision.
SaveEdits ==
    /\ editor # Closed
    /\ Fresh(editor)
    /\ store' = [store EXCEPT !.clean = {editor.cursor}]
    /\ editor' = [editor EXCEPT !.clean = {editor.cursor}]
    /\ saved' = store.tl
    /\ overtaken' = (overtaken \/ importer # Idle)
    /\ UNCHANGED <<importer, takes, asks, past, future>>

----------------------------------------------------------------------------
(* Recording and import                                                    *)

FinishTake(t, outcome) ==
    /\ takes[t] = "RECORDING"
    /\ takes' = [takes EXCEPT ![t] = outcome]
    /\ UNCHANGED <<store, editor, importer, asks, trail>>

\* planRecordingImport: a track per source after the end of the timeline, and a marker.
ImportOf(t, tl) ==
    LET base == CHOOSE n \in {End(c) : c \in AllClips(tl)} \cup {0} :
                    \A c \in AllClips(tl) : End(c) <= n
        clip(kind, env) ==
            [id |-> <<kind, t, 0>>, kind |-> kind, asset |-> <<kind, t>>, at |-> base,
             len |-> TakeLength, from |-> 0, env |-> env, look |-> NoLook, text |-> NoText, cues |-> {}]
    IN  [op |-> "import",
         tracks |-> <<[id |-> <<"video", t>>, kind |-> "video", clips |-> {clip("video", NoEnvelope)}],
                      [id |-> <<"audio", t>>, kind |-> "audio", clips |-> {clip("audio", 0)}]>>,
         markers |-> {[id |-> t, at |-> base + 1]}]

AssetsOf(t) ==
    {[id |-> <<kind, t>>, kind |-> kind, len |-> TakeLength, path |-> <<kind, t>>] :
        kind \in {"video", "audio"}}

\* reconcile, up to the plan: nothing to do for a take already imported.
PlanImport(t) ==
    /\ importer = Idle
    /\ t \notin store.imports
    /\ takes[t] \in Finished
    /\ \E s \in LoadEditSession(ReconcilerLimit) :
          importer' = [take |-> t, session |-> s, cmd |-> ImportOf(t, s.tl)]
    /\ UNCHANGED <<store, editor, takes, asks, trail>>

\* executeRecordingImport: timeline, assets and the import record in one transaction.
CommitImport ==
    /\ importer # Idle
    /\ store.revision < MaxRevision
    /\ Fresh(importer.session)
    /\ importer.take \notin store.imports
    /\ takes[importer.take] \in Finished
    /\ \E s \in Executed(importer.session, ReconcilerLimit, importer.cmd),
          assets \in InsertAssets(store.assets, AssetsOf(importer.take)) :
          /\ store' = [Stored(s, "APPLY", s.history[s.cursor]) EXCEPT
                          !.imports = @ \cup {importer.take}, !.assets = assets]
          /\ Remember(s)
    /\ importer' = Idle
    /\ UNCHANGED <<editor, takes, asks>>

\* A stale revision, or a resource validation that finds the media or database replaced.
FailImport ==
    /\ importer # Idle
    /\ importer' = Idle
    /\ UNCHANGED <<store, editor, takes, asks, trail>>

\* The process dies between two transactions, or the project is closed.
Crash ==
    /\ <<editor, importer>> # <<Closed, Idle>>
    /\ editor' = Closed
    /\ importer' = Idle
    /\ UNCHANGED <<store, takes, asks, trail>>

Next ==
    \/ Open
    \/ \E k \in asks : Edit(k)
    \/ UndoEdit
    \/ RedoEdit
    \/ SaveEdits
    \/ \E t \in Takes : FinishTake(t, "COMPLETED") \/ FinishTake(t, "RECOVERED") \/ FinishTake(t, "FAILED")
    \/ \E t \in Takes : PlanImport(t)
    \/ CommitImport
    \/ FailImport
    \/ Crash

Spec == Init /\ [][Next]_vars

----------------------------------------------------------------------------
(* Properties                                                              *)

\* The store's checkpoint is inside its history; the sessions are not ahead of the store.
TypeOK ==
    /\ store.cursor \in 0 .. store.count
    /\ store.clean \subseteq 0 .. store.count /\ Cardinality(store.clean) <= 1
    /\ store.revision \in 0 .. MaxRevision
    /\ store.imports \subseteq Takes
    /\ \A i \in DOMAIN store.tl.tracks : ValidClips(store.tl.tracks[i].kind, store.tl.tracks[i].clips)
    /\ editor = Closed \/ editor.revision <= store.revision
    /\ importer = Idle \/ importer.session.revision <= store.revision
    /\ takes \in [Takes -> {"RECORDING", "FAILED"} \cup Finished]

\* The limit under which the stored history was last written.
WrittenLimit == IF store.count <= EditorLimit THEN EditorLimit ELSE ReconcilerLimit

\* At any moment the stored package reads back as a session, through the rows of its
\* timeline, the codec of its commands and decodeHistory's full verification (undo to the beginning, execute all, compare the undo states),
\* and that session is the one an up-to-date editor holds: a crash loses nothing.
ReopenRestores ==
    store.exists =>
        LET loaded == LoadEditSession(WrittenLimit)
        IN  /\ loaded # {}
            /\ editor # Closed /\ Fresh(editor) => loaded = {editor}

\* A take enters the history by one import event exactly when it is recorded as
\* imported, and only after it ended as COMPLETED or RECOVERED, whichever of editor,
\* crash and retry came between planning and committing.
ImportedOnce ==
    \A t \in Takes :
        /\ Cardinality({i \in DOMAIN store.events :
                           /\ store.events[i].kind = "APPLY"
                           /\ store.events[i].entry.cmd.op = "import"
                           /\ [id |-> t] \in {[id |-> m.id] : m \in store.events[i].entry.cmd.markers}})
             = Cardinality({t} \cap store.imports)
        /\ t \in store.imports => takes[t] \in Finished

\* 2026-07-17-r1-usable-recorder-editor-design.md:205 "crash/reopen does not silently
\* present edited state as saved state": a timeline at the clean position of its history
\* is the one the user saved last.
CleanMeansSaved == store.clean = {store.cursor} => store.tl = saved

\* It holds through edits, dropped redo tails, evictions and restarts as long as no save
\* comes between the plan of an import and its commit.
SavedUnlessOvertaken == overtaken \/ CleanMeansSaved

EditingInv == ReopenRestores /\ ImportedOnce /\ SavedUnlessOvertaken

\* The timeline of the package is a document with bounded undo (EditedDocument): no
\* writer overwrites a document it has not seen, and undo and redo restore exactly the
\* neighbouring document, also after a restart read the history back.
Document == INSTANCE EditedDocument WITH Depth <- EditorLimit, doc <- store.tl
KeepsDocument == Document!Spec

\* 2026-07-17-r1-04-durable-edit-operations-design.md:82 "Reopen restores the exact
\* materialized timeline, revision, history cursor": the editor can open what is stored.
EditorCanReopen == store.exists => LoadEditSession(EditorLimit) # {}
=============================================================================
