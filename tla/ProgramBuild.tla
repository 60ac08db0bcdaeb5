----------------------------- MODULE ProgramBuild -----------------------------
(***************************************************************************)
(* What the editor shows of a recorded take and of the titles put over it: *)
(* the import of the take, the rasters of titles and captions that          *)
(* GeneratedOverlayCache keeps in the package, and the program the engine     *)
(* makes of both.                                                          *)
(*                                                                         *)
(* The session worker brings the cache up to date after every edit, one     *)
(* raster after the other, and hands the snapshot on; the engine's thread   *)
(* loads it while the worker may be at the next one.  The files of the      *)
(* cache live in the package: they outlive the program and are never        *)
(* removed by it, but may be lost or damaged.                              *)
(***************************************************************************)
EXTENDS RenderGraph

CONSTANTS
    Requests,         \* the takes
    Titled,           \* those of them the user goes on to work with
    MaxProgramEvent   \* bound: edits, damages and deaths of the program together

ASSUME ProgramAssumption == MaxProgramEvent \in Nat

VARIABLES
    request,    \* the take
    tracks,     \* its tracks on the timeline, <<>> before the import
    titles,     \* the generated clips, on a track above
    rasters,    \* the files of cache/generated: what each was drawn from, or Damaged
    sync,       \* the worker's synchronization, or NoSync
    handed,     \* the snapshot on its way to the engine, or NoSnapshot
    loaded,     \* the snapshot the program is of, or NoSnapshot
    program,    \* what is seen and heard at each frame
    events      \* how many of MaxProgramEvent there were

programVars == <<request, tracks, titles, rasters, sync, handed, loaded, program, events>>

Damaged == 0
NoSync == [todo |-> <<>>, made |-> {}, failed |-> FALSE, on |-> FALSE, lost |-> FALSE]
NoSnapshot ==
    [tracks |-> <<>>, overlays |-> {}, texts |-> <<>>, reported |-> FALSE, lost |-> FALSE]

\* Two cues of a caption meet inside a frame.
TitleClip(n, at, text) ==
    [id |-> <<"title", n, 1>>, kind |-> "title", at |-> at, len |-> 3, layer |-> 0,
     enabled |-> TRUE, audio |-> FALSE, text |-> text, cues |-> <<>>]
CaptionClip(n, at, text) ==
    [id |-> <<"caption", n, 1>>, kind |-> "caption", at |-> at, len |-> 4, layer |-> 0,
     enabled |-> TRUE, audio |-> FALSE, text |-> text,
     cues |-> <<[id |-> 1, at |-> 0, len |-> 1], [id |-> 2, at |-> 1, len |-> 3]>>]

\* The track of the titles comes last.
Timeline == tracks \o <<[kind |-> "video", enabled |-> TRUE, clips |-> titles]>>

ProgramInit ==
    /\ request \in Requests
    /\ tracks = <<>> /\ titles = <<>> /\ rasters = <<>>
    /\ sync = NoSync /\ handed = NoSnapshot /\ loaded = NoSnapshot /\ program = <<>>
    /\ events = 0

----------------------------------------------------------------------------
(* The raster files                                                        *)

\* The name of a raster, were the text left out of it.
KeyWithoutText(c, range) == c.id \o <<c.at, c.len, range.cue, range.at, range.len, 0>>

\* titleKey() and captionKey(): everything the raster depends on is in its name.
RasterKey(c, range) == c.id \o <<c.at, c.len, range.cue, range.at, range.len, c.text>>

\* The rasters of a timeline: of enabled clips only.
Wanted(clips) ==
    LET shown == {clips[i] : i \in {j \in 1 .. Len(clips) : clips[j].enabled}}
    IN  UNION {{[owner |-> r.owner, cue |-> r.cue, at |-> r.at, len |-> r.len,
                 file |-> RasterKey(c, r), text |-> c.text] : r \in GeneratedRanges(c)} : c \in shown}

Valid(file) == file \in DOMAIN rasters /\ rasters[file] # Damaged

\* ensureRaster(): what is there and can be read is kept; else it is drawn beside and renamed.
Ensured(item) ==
    IF Valid(item.file) THEN rasters
    ELSE [f \in DOMAIN rasters \cup {item.file} |-> IF f = item.file THEN item.text ELSE rasters[f]]

----------------------------------------------------------------------------
(* The session worker                                                      *)

\* currentState(): the snapshot without the rasters, and then the rasters.
Synchronize(clips) ==
    sync' = [todo |-> SetToSeq(Wanted(clips)), made |-> {}, failed |-> FALSE, on |-> TRUE, lost |-> FALSE]

\* RecordingTimelineReconciler, once the take is complete.
ImportTake ==
    /\ tracks = <<>> /\ Plannable(request)
    /\ tracks' = PlanRecordingImport(request)
    /\ Synchronize(titles)
    /\ UNCHANGED <<request, titles, rasters, handed, loaded, program, events>>

\* An edit of the titles, by a command of the editor or by undo.
EditTitles ==
    /\ request \in Titled /\ tracks # <<>> /\ sync = NoSync /\ events < MaxProgramEvent
    /\ \/ titles = <<>> /\ \E t \in {1, 2} : titles' = <<TitleClip(1, 1, t)>>
       \/ Len(titles) = 1 /\ titles' = Append(titles, CaptionClip(2, 4, 1))
       \/ \E i \in DOMAIN titles :
             \/ titles' = [titles EXCEPT ![i].text = 3 - @]
             \/ titles' = [titles EXCEPT ![i].enabled = ~@]
             \/ titles' = [titles EXCEPT ![i].at = (IF i = 1 THEN 1 ELSE 9) - @]
    /\ events' = events + 1
    /\ Synchronize(titles')
    /\ UNCHANGED <<request, tracks, rasters, handed, loaded, program>>

\* The cache cannot be prepared or cleaned: the snapshot goes without rasters, and is said to.
SyncFails ==
    /\ sync.on /\ sync.todo # <<>> /\ sync.made = {} /\ ~sync.failed
    /\ sync' = [sync EXCEPT !.todo = <<>>, !.failed = TRUE]
    /\ UNCHANGED <<request, tracks, titles, rasters, handed, loaded, program, events>>

SyncRaster ==
    /\ sync.todo # <<>>
    /\ LET item == Head(sync.todo)
       IN  \/ /\ rasters' = Ensured(item)
              /\ sync' = [sync EXCEPT !.todo = Tail(@), !.made = @ \cup {item}]
           \/ /\ ~Valid(item.file)                       \* not drawn, encoded or renamed
              /\ sync' = [sync EXCEPT !.todo = Tail(@), !.failed = TRUE]
              /\ UNCHANGED rasters
    /\ UNCHANGED <<request, tracks, titles, handed, loaded, program, events>>

\* The snapshot goes to the engine; one the engine has not loaded yet is overtaken.
HandOn ==
    /\ sync.on /\ sync.todo = <<>>
    /\ handed' = [tracks |-> Timeline,
                  overlays |-> {[owner |-> o.owner, cue |-> o.cue, at |-> o.at, len |-> o.len,
                                 file |-> o.file] : o \in sync.made},
                  texts |-> [i \in DOMAIN titles |-> titles[i].text],
                  reported |-> sync.failed, lost |-> sync.lost]
    /\ sync' = NoSync
    /\ UNCHANGED <<request, tracks, titles, rasters, loaded, program, events>>

----------------------------------------------------------------------------
(* The engine and the world                                                *)

OnDisk == {<<u.role, u.index>> : u \in Units(request)} \cup DOMAIN rasters

SnapshotOf(h) == [tracks |-> h.tracks, overlays |-> h.overlays, onDisk |-> OnDisk]

\* loadSnapshot(): a raster that cannot be read refuses it, and the old program stays.
Load ==
    /\ handed # NoSnapshot
    /\ LET s == SnapshotOf(handed)
           readable == \A o \in handed.overlays : o.file \in DOMAIN rasters => Valid(o.file)
       IN  IF Compiles(s) /\ readable THEN program' = Build(s) /\ loaded' = handed
           ELSE UNCHANGED <<program, loaded>>
    /\ handed' = NoSnapshot
    /\ UNCHANGED <<request, tracks, titles, rasters, sync, events>>

\* Something else loses or damages a raster; "lost" remembers that it was meant for a
\* snapshot not loaded yet.
Damage ==
    /\ events < MaxProgramEvent
    /\ \E f \in DOMAIN rasters :
          rasters' \in {[rasters EXCEPT ![f] = Damaged],
                        [g \in DOMAIN rasters \ {f} |-> rasters[g]]}
    /\ sync' = [sync EXCEPT !.lost = sync.on]
    /\ handed' = [handed EXCEPT !.lost = handed # NoSnapshot]
    /\ events' = events + 1
    /\ UNCHANGED <<request, tracks, titles, loaded, program>>

\* The program dies, at whatever raster the worker is, and the project is opened again.
Reopen ==
    /\ request \in Titled /\ tracks # <<>> /\ events < MaxProgramEvent
    /\ handed' = NoSnapshot /\ loaded' = NoSnapshot /\ program' = <<>>
    /\ events' = events + 1
    /\ Synchronize(titles)
    /\ UNCHANGED <<request, tracks, titles, rasters>>

ProgramNext ==
    ImportTake \/ EditTitles \/ SyncFails \/ SyncRaster \/ HandOn \/ Load \/ Damage \/ Reopen

----------------------------------------------------------------------------
(* Properties                                                              *)

\* The types.
ProgramTypeOK ==
    /\ Len(titles) <= 2 /\ \A i \in DOMAIN titles : titles[i].text \in {1, 2}
    /\ \A f \in DOMAIN rasters : rasters[f] \in {1, 2, Damaged}
    /\ sync.failed \in BOOLEAN /\ sync.on \in BOOLEAN /\ sync.lost \in BOOLEAN
    /\ handed.reported \in BOOLEAN /\ loaded.reported \in BOOLEAN
    /\ events \in 0..MaxProgramEvent

\* Every instant that was recorded is on the timeline once, after what was there, with its
\* own media and as the scene of that instant said; and nothing else is (planRecordingImport).
ImportIsTrue ==
    tracks # <<>> =>
        LET clips == UNION {ClipsOf(tracks[t]) : t \in DOMAIN tracks}
            shown(u, t) ==
                {c \in clips :
                    /\ c.asset = <<u.role, u.index>> /\ c.at <= request.base + t
                    /\ request.base + t < c.at + c.len
                    /\ c.from + request.base + t = c.at + t - u.at}
            state(u, t) == StateAt(request, u.role, t, TRUE)
            total(S, Ticks(_)) == FoldSet(LAMBDA x, n : n + Ticks(x), 0, S)
        IN  /\ \A u \in Units(request) : \A t \in u.at .. UsableEnd(u) - 1 :
                  \E c \in clips :
                      /\ shown(u, t) = {c}
                      /\ c.enabled = state(u, t).enabled /\ c.layer = state(u, t).layer
            /\ total(clips, LAMBDA c : c.len)
                 = total(Units(request), LAMBDA u : UsableEnd(u) - u.at)

\* The instant a frame shows, if it shows one only: nothing is cut inside it.
FirstTick(f) == (f * FrameRate[2] + FrameRate[1] - 1) \div FrameRate[1]   \* frameToTimestamp()
Cuts ==
    {request.base + e.at : e \in request.events}
    \cup UNION {{request.base + u.at, request.base + UsableEnd(u)} : u \in Units(request)}
Quiet(f) == \A x \in Cuts : FrameOf(x) = f => (x * FrameRate[1]) % FrameRate[2] = 0

\* Where a take's media is at a quiet frame, or nothing.
MediaAt(role, f) ==
    LET t == FirstTick(f)
    IN  {u \in Units(request) :
            /\ u.role = role /\ request.base + u.at <= t /\ t < request.base + UsableEnd(u)
            /\ StateAt(request, role, t - request.base, TRUE).enabled}

\* A frame shows of each source the media of its instant, to a frame, and only what the scene
\* shows.  One frame of a piece may be missing, its last: source and place are rounded each
\* for itself (compileMltGraphPlan).
Near(a, b) == a <= b + 1 /\ b <= a + 1
LastOfPiece(f) == \E c \in UNION {ClipsOf(loaded.tracks[t]) : t \in DOMAIN loaded.tracks} :
                     FrameRange(c.at, c.len).first + FrameRange(c.at, c.len).n = f + 1
ShownOf(list, role) == {p \in list : p[1][1] = role}
TrueAt(list, role, f) ==
    /\ \A p \in ShownOf(list, role) : \E u \in MediaAt(role, f) :
          /\ p[1] = <<u.role, u.index>>
          /\ Near(p[2], FrameOf(FirstTick(f) - request.base - u.at))
    /\ MediaAt(role, f) # {} => ShownOf(list, role) # {} \/ LastOfPiece(f)

PictureIsTrue ==
    \A f \in DOMAIN program : Quiet(f) =>
        \A role \in VideoRoles : TrueAt(Range(program[f].seen), role, f)

\* The same of what is heard, unless a sound of the track is shorter than a frame: then it
\* takes a whole one, and what comes after it is late.
Hasty(role) ==
    \E t \in DOMAIN tracks : \E c \in ClipsOf(tracks[t]) :
        c.asset[1] = role /\ FrameOf(c.at) = FrameOf(c.at + c.len)
SoundIsTrue ==
    \A f \in DOMAIN program : Quiet(f) =>
        \A role \in {"microphone", "system"} : ~Hasty(role) => TrueAt(program[f].heard, role, f)

\* A title that is seen is drawn from its present text; and each one of the snapshot is seen,
\* or the user was told, or its file was lost before it could be loaded.
OwnerOf(file) == CHOOSE i \in DOMAIN titles : titles[i].id = SubSeq(file, 1, 3)
TitlesAreTrue ==
    \A f \in DOMAIN program :
        /\ \A p \in Range(program[f].seen) : p[1] \in DOMAIN rasters /\ Valid(p[1]) =>
              rasters[p[1]] = loaded.texts[OwnerOf(p[1])]
        /\ loaded.reported \/ loaded.lost \/
           \A c \in ClipsOf(loaded.tracks[Len(loaded.tracks)]) : \A r \in GeneratedRanges(c) :
               c.enabled /\ FrameRange(r.at, r.len).first = f =>
                   \E p \in Range(program[f].seen) : p[1] = RasterKey(c, r)

\* A higher layer is never below a lower one: the avatar stands before the screen.
LayersAreInOrder ==
    \A f \in DOMAIN program : Quiet(f) =>
        \A i, j \in DOMAIN program[f].seen :
            program[f].seen[i][1][1] = "avatar" /\ j > i => program[f].seen[j][1][1] # "screen"

ProgramInv ==
    ImportIsTrue /\ PictureIsTrue /\ SoundIsTrue /\ TitlesAreTrue /\ LayersAreInOrder
=============================================================================
