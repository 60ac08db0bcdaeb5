------------------------------ MODULE RenderGraph ------------------------------
(***************************************************************************)
(* The picture and the sound of a timeline: what compileMltGraphPlan makes *)
(* of a snapshot and MltEditEngine::Impl::build of the plan, as a function *)
(* from frames to what is seen and heard.                                  *)
(*                                                                         *)
(* Every picture has a playlist of its own, composited from the lowest to  *)
(* the highest; every sound track has one, mixed.  A playlist is the       *)
(* sequence of its frames; the n-th frame is number n - 1.  Transforms,    *)
(* filters and gains are left out: they change how a frame looks or sounds *)
(* and not which one it is.                                                *)
(***************************************************************************)
EXTENDS RecordingImport

CONSTANT FrameRate   \* <<frames, ticks>>: so many frames in so many ticks

Black == <<"black">>

\* timestampToFrame()
FrameOf(t) == (t * FrameRate[1]) \div FrameRate[2]

\* toFrames(): a range shorter than a frame is kept for one.
FrameRange(at, len) ==
    LET end == FrameOf(at + len)
    IN  [first |-> FrameOf(at),
         n |-> IF end <= FrameOf(at) THEN 1 ELSE end - FrameOf(at)]

----------------------------------------------------------------------------
(* The plan                                                                *)

\* An asset's clip: source and timeline are rounded each for itself, and the shorter counts.
AssetFrames(c) ==
    LET source == FrameRange(c.from, c.len)
        place == FrameRange(c.at, c.len)
    IN  [first |-> place.first, from |-> source.first,
         n |-> IF source.n < place.n THEN source.n ELSE place.n]

\* The ranges a title or a caption is drawn for: its own, or those of its cues.
GeneratedRanges(c) ==
    IF c.kind = "title" THEN {[owner |-> c.id, cue |-> 0, at |-> c.at, len |-> c.len]}
    ELSE {[owner |-> c.id, cue |-> c.cues[i].id, at |-> c.at + c.cues[i].at, len |-> c.cues[i].len] :
             i \in 1 .. Len(c.cues)}

\* The raster of a range, if there is one and its file is there.
RasterOf(range, snapshot) ==
    LET found == {o \in snapshot.overlays : o.owner = range.owner /\ o.cue = range.cue}
    IN  IF found = {} THEN Black
        ELSE LET o == CHOOSE o \in found : TRUE
             IN  IF o.file \in snapshot.onDisk THEN o.file ELSE Black

\* A branch for each picture of a video track and for each title and cue.
BranchesOf(snapshot, t, c) ==
    LET track == snapshot.tracks[t]
        shown == track.enabled /\ c.enabled
    IN  IF c.kind = "asset"
        THEN LET f == AssetFrames(c)
             IN  IF track.kind # "video" THEN {}
                 ELSE {[what |-> c.asset, still |-> FALSE, first |-> f.first, from |-> f.from, n |-> f.n,
                        shown |-> shown, order |-> <<c.layer, t, f.first, c.id[2], c.id[3]>>]}
        ELSE {LET f == FrameRange(r.at, r.len)
              IN  [what |-> RasterOf(r, snapshot), still |-> TRUE, first |-> f.first, from |-> 0,
                   n |-> f.n, shown |-> shown /\ RasterOf(r, snapshot) # Black,
                   order |-> <<c.layer, t, f.first, c.id[2], r.cue>>] :
                 r \in GeneratedRanges(c)}

\* By layer, track, start and name.
Below(a, b) ==
    \E i \in 1..5 : a.order[i] < b.order[i] /\ \A j \in 1 .. i - 1 : a.order[j] = b.order[j]

ClipsOf(track) == {track.clips[i] : i \in 1 .. Len(track.clips)}
TracksOf(snapshot) == DOMAIN snapshot.tracks

\* The branches from the lowest to the highest.
BranchSeq(snapshot) ==
    LET branches(t) == UNION {BranchesOf(snapshot, t, c) : c \in ClipsOf(snapshot.tracks[t])}
    IN  InOrder(UNION {branches(t) : t \in TracksOf(snapshot)}, Below)

Duration(snapshot) ==
    Max({1} \cup UNION {{FrameRange(c.at, c.len).first + FrameRange(c.at, c.len).n :
                            c \in ClipsOf(snapshot.tracks[t])} : t \in TracksOf(snapshot)})

\* An overlay whose range is not its owner's refuses the plan, as does a file that is gone.
Compiles(snapshot) ==
    LET clips == UNION {ClipsOf(snapshot.tracks[t]) : t \in TracksOf(snapshot)}
    IN  /\ \A c \in clips : c.kind = "asset" => c.asset \in snapshot.onDisk
        /\ \A o \in snapshot.overlays : \E c \in clips :
              /\ c.kind # "asset"
              /\ [owner |-> o.owner, cue |-> o.cue, at |-> o.at, len |-> o.len] \in GeneratedRanges(c)

----------------------------------------------------------------------------
(* The graph                                                               *)

Blank(n) == [i \in 1..n |-> Black]
Content(b) == [i \in 1 .. b.n |-> <<b.what, IF b.still THEN 0 ELSE b.from + i - 1>>]

\* A picture's playlist: blank, itself, blank.
VisualPlaylist(b, duration) ==
    Blank(b.first) \o (IF b.shown THEN Content(b) ELSE Blank(b.n))
        \o (IF duration > b.first + b.n THEN Blank(duration - b.first - b.n) ELSE <<>>)

\* appendAudioTrack(): the blank before a clip is what the cursor is behind its place, and
\* the cursor follows the places, not what was appended.
AppendSound(list, b) ==
    LET gap == IF b.first > list.cursor THEN Blank(b.first - list.cursor) ELSE <<>>
    IN  [frames |-> list.frames \o gap \o (IF b.shown THEN Content(b) ELSE Blank(b.n)),
         cursor |-> b.first + b.n]

\* The sounds of a track, in order.
Sounds(track) ==
    LET audible == SelectSeq(track.clips, LAMBDA c : c.kind = "asset" /\ c.audio)
        branch(c) ==
            LET f == AssetFrames(c)
            IN  [what |-> c.asset, still |-> FALSE, first |-> f.first, from |-> f.from, n |-> f.n,
                 shown |-> c.enabled]
    IN  [i \in 1 .. Len(audible) |-> branch(audible[i])]

SoundPlaylist(track, duration) ==
    LET list == FoldLeft(AppendSound, [frames |-> <<>>, cursor |-> 0], Sounds(track))
    IN  list.frames \o (IF duration > list.cursor THEN Blank(duration - list.cursor) ELSE <<>>)

\* An audio track mixes in when it is enabled and has something to hear.
Audible(track) ==
    track.enabled /\ \E i \in 1 .. Len(Sounds(track)) : Sounds(track)[i].shown

\* build(): for each frame the pictures from the lowest to the highest, and the sounds.
Build(snapshot) ==
    LET duration == Duration(snapshot)
        pictures == FoldLeft(LAMBDA lists, b : Append(lists, VisualPlaylist(b, duration)), <<>>,
                             BranchSeq(snapshot))
        sounds == {SoundPlaylist(snapshot.tracks[t], duration) :
                      t \in {u \in TracksOf(snapshot) : Audible(snapshot.tracks[u])}}
        at(f) == FoldLeft(LAMBDA seen, list : IF list[f] = Black THEN seen ELSE Append(seen, list[f]),
                          <<>>, pictures)
    IN  [f \in 0 .. duration - 1 |->
            [seen |-> at(f + 1), heard |-> {list[f + 1] : list \in sounds} \ {Black}]]
=============================================================================
