--------------------------- MODULE TimelineCommands ---------------------------
(***************************************************************************)
(* The edit commands of src/src/domain as operators on timelines.          *)
(*                                                                         *)
(* A timeline is a record [tracks, markers]: the tracks in their order,    *)
(* each with the SET of its clips.  Track keeps a vector sorted by start;  *)
(* clips of a track are disjoint and not empty, so the set determines it.  *)
(* Times are small integers for nanoseconds.  A clip is a record           *)
(*   [id, kind, asset, at, len, from, env, look, text, cues]               *)
(* with kind "video" or "audio" for recorded media and "title" or          *)
(* "caption" for generated ones; env is the sum of the fades of its audio  *)
(* envelope or NoEnvelope; look, text and cue texts are opaque values, of  *)
(* which NoLook and NoText stand for none.                                 *)
(* Tracks are never locked: no operation of the editor locks one.          *)
(*                                                                         *)
(* An operation that the code may refuse returns the SET of its results:   *)
(* empty when it is refused.                                               *)
(***************************************************************************)
EXTENDS Integers, FiniteSets, SequencesExt

CONSTANT TakeLength      \* duration of a recorded asset

ASSUME TakeLengthAssumption == TakeLength \in Nat \ {0}

NoEnvelope == -1
NoAsset == <<>>
NoText == 0
NoLook == 0
Looks == {NoLook, 1}     \* none, and a transform VisualTransform::create accepts

\* A track is named by a kind and a number; the generated tracks have fixed names.
TitleTrack == <<"title", 0>>
CaptionTrack == <<"caption", 0>>

Allowed(value, condition) == IF condition THEN {value} ELSE {}

----------------------------------------------------------------------------
(* Timeline                                                                *)

End(c) == c.at + c.len
Generated(c) == c.kind \in {"title", "caption"}
TrackIds(tl) == {tl.tracks[i].id : i \in DOMAIN tl.tracks}
ClipsOf(tl, track) ==
    UNION {tl.tracks[i].clips : i \in {j \in DOMAIN tl.tracks : tl.tracks[j].id = track}}
ClipsWhere(tl, Holds(_)) ==
    UNION {tl.tracks[i].clips : i \in {j \in DOMAIN tl.tracks : Holds(tl.tracks[j])}}
AllClips(tl) == ClipsWhere(tl, LAMBDA t : TRUE)
Found(tl, track, id) == {c \in ClipsOf(tl, track) : c.id = id}
Ids(clips) == {c.id : c \in clips}
CueIds(clips) == {q.id : q \in UNION {c.cues : c \in clips}}

Disjoint(c, d) == End(c) <= d.at \/ End(d) <= c.at

\* Caption cues of one clip: at least one, inside the clip, one identity each.
ValidCues(cues, len) ==
    /\ cues # {}
    /\ \A q \in cues : q.at + q.len <= len
    /\ \A q, r \in cues : q # r => q.id # r.id /\ (q.at + q.len <= r.at \/ r.at + r.len <= q.at)

ValidClips(kind, clips) ==
    /\ \A c \in clips : c.kind = kind
    /\ \A c, d \in clips : c # d => /\ c.id # d.id
                                    /\ Disjoint(c, d)
                                    /\ CueIds({c}) \cap CueIds({d}) = {}

\* Mutant: a track takes clips without validateClips.
PutUnchecked(tl, track, clips) ==
    {[tl EXCEPT !.tracks[i].clips = clips] : i \in {j \in DOMAIN tl.tracks : tl.tracks[j].id = track}}

Put(tl, track, clips) ==
    {[tl EXCEPT !.tracks[i].clips = clips] :
        i \in {j \in DOMAIN tl.tracks : /\ tl.tracks[j].id = track
                                        /\ ValidClips(tl.tracks[j].kind, clips)}}

AddTrack(tl, track) ==
    Allowed([tl EXCEPT !.tracks = Append(@, track)], track.id \notin TrackIds(tl))

\* Only an empty generated track may go.
RemoveTrack(tl, track) ==
    {[tl EXCEPT !.tracks = RemoveAt(@, i)] :
        i \in {j \in DOMAIN tl.tracks : /\ tl.tracks[j].id = track
                                        /\ tl.tracks[j].clips = {}
                                        /\ tl.tracks[j].kind \in {"title", "caption"}}}

\* addMarker refuses a second marker of an identity or a time.
DistinctMarkers(markers) ==
    \A m, n \in markers : m # n => m.id # n.id /\ m.at # n.at

InsertClip(tl, track, clip) ==
    IF clip.id \in Ids(AllClips(tl)) \/ CueIds({clip}) \cap CueIds(AllClips(tl)) # {}
    THEN {} ELSE Put(tl, track, ClipsOf(tl, track) \cup {clip})

ReplaceClip(tl, track, id, clip) ==
    IF \/ clip.id # id \/ Found(tl, track, id) = {}
       \/ CueIds({clip}) \cap CueIds(ClipsWhere(tl, LAMBDA t : t.id # track)) # {}
    THEN {} ELSE Put(tl, track, (ClipsOf(tl, track) \ Found(tl, track, id)) \cup {clip})

RemoveClip(tl, track, id) ==
    IF Found(tl, track, id) = {} THEN {}
    ELSE Put(tl, track, ClipsOf(tl, track) \ Found(tl, track, id))

ReplaceTrackClips(tl, track, clips) ==
    LET others == ClipsWhere(tl, LAMBDA t : t.id # track)
    IN  IF Ids(clips) \cap Ids(others) # {} \/ CueIds(clips) \cap CueIds(others) # {}
        THEN {} ELSE Put(tl, track, clips)

\* Clip::withIdentityAndRanges: media only, inside the asset, and the fades still fit.
Resegment(clip, id, at, from, len) ==
    Allowed([clip EXCEPT !.id = id, !.at = at, !.from = from, !.len = len],
            /\ ~Generated(clip) /\ len > 0
            /\ from + len <= TakeLength
            /\ clip.env <= len)

----------------------------------------------------------------------------
(* Execution.  A command is a record with its op; a result is              *)
(* [tl, undo]: the new timeline and the state that undoes it.              *)

Then(timelines, undo) == {[tl |-> t, undo |-> undo] : t \in timelines}

SplitClip(tl, c) ==
    UNION {Then(UNION {InsertClip(t, c.track, right) :
                    t \in UNION {ReplaceClip(tl, c.track, c.clip, left) :
                            left \in Resegment(o, o.id, o.at, o.from, c.at - o.at)},
                    right \in Resegment(o, c.right, c.at, o.from + (c.at - o.at), End(o) - c.at)},
                [original |-> o])
           : o \in {k \in Found(tl, c.track, c.clip) : k.at < c.at /\ c.at < End(k)}}

TrimClip(tl, c) ==
    UNION {Then(UNION {ReplaceClip(tl, c.track, c.clip, r) :
                    r \in IF c.leading
                          THEN Resegment(o, o.id, c.at, o.from + (c.at - o.at), End(o) - c.at)
                          ELSE Resegment(o, o.id, o.at, o.from, c.at - o.at)},
                [original |-> o])
           : o \in {k \in Found(tl, c.track, c.clip) : k.at < c.at /\ c.at < End(k)}}

\* What DeleteRange leaves of one clip: a set of sets of clips, empty when refused.
Remains(c, clip, right) ==
    LET before == clip.at < c.from
        after  == End(clip) > c.to
        left   == Resegment(clip, clip.id, clip.at, clip.from, c.from - clip.at)
        tail   == Resegment(clip, IF before THEN right ELSE clip.id,
                            IF c.ripple THEN c.from ELSE c.to,
                            clip.from + (c.to - clip.at), End(clip) - c.to)
        moved  == Resegment(clip, clip.id, clip.at - (c.to - c.from), clip.from, clip.len)
    IN  IF End(clip) <= c.from THEN {{clip}}
        ELSE IF clip.at >= c.to THEN IF c.ripple THEN {{m} : m \in moved} ELSE {{clip}}
        ELSE CASE before /\ after -> {{l, r} : l \in left, r \in tail}
               [] before /\ ~after -> {{l} : l \in left}
               [] ~before /\ after -> {{r} : r \in tail}
               [] OTHER -> {{}}

Spans(c, track) == \E k \in track.clips : k.at < c.from /\ End(k) > c.to

\* The clips of track i after the deletion; a spanned clip takes the next right identity.
Replacement(tl, c, i) ==
    LET rank == Cardinality({j \in 1 .. i : Spans(c, tl.tracks[j])})
        right == IF rank \in DOMAIN c.rights THEN c.rights[rank] ELSE <<>>
        parts == [k \in tl.tracks[i].clips |-> Remains(c, k, right)]
    IN  Allowed(UNION UNION {parts[k] : k \in DOMAIN parts}, \A k \in DOMAIN parts : parts[k] # {})

DeleteRange(tl, c) ==
    LET n == Len(tl.tracks)
        spanned == Cardinality({i \in 1 .. n : Spans(c, tl.tracks[i])})
        Step(timelines, i) ==
            UNION {ReplaceTrackClips(t, tl.tracks[i].id, clips) :
                      t \in timelines, clips \in Replacement(tl, c, i)}
        changed == {i \in 1 .. n : Replacement(tl, c, i) # {tl.tracks[i].clips}}
        previous == {[track |-> tl.tracks[i].id, clips |-> tl.tracks[i].clips] : i \in changed}
    IN  IF spanned # Len(c.rights) THEN {}
        ELSE Then(FoldLeft(Step, {tl}, [i \in 1 .. n |-> i]), [previous |-> previous])

ImportRecording(tl, c) ==
    LET clips == UNION {t.clips : t \in ToSet(c.tracks)}
    IN  Then(Allowed([tracks |-> tl.tracks \o c.tracks, markers |-> tl.markers \cup c.markers],
                     /\ {t.id : t \in ToSet(c.tracks)} \cap TrackIds(tl) = {}
                     /\ Ids(clips) \cap Ids(AllClips(tl)) = {}
                     /\ \A m \in c.markers, k \in tl.markers : m.id # k.id /\ m.at # k.at),
             [none |-> TRUE])

\* Clip::with...: a clip with one field changed, if it has that field.
WithVisualTransform(clip, look) == Allowed([clip EXCEPT !.look = look], clip.kind # "audio")
WithAudioEnvelope(clip, env) ==
    Allowed([clip EXCEPT !.env = env], clip.kind = "audio" /\ env <= clip.len)
WithTitlePayload(clip, text) == Allowed([clip EXCEPT !.text = text], clip.kind = "title")

WithField(clip, field, value) ==
    CASE field = "look" -> WithVisualTransform(clip, value)
      [] field = "env"  -> WithAudioEnvelope(clip, value)
      [] field = "text" -> WithTitlePayload(clip, value)

\* SetAudioEnvelope, SetVisualTransform and EditTitle: one field of one clip.
SetField(tl, c) ==
    UNION {Then(UNION {ReplaceClip(tl, c.track, c.clip, k) : k \in WithField(o, c.field, c.value)},
                [previous |-> o[c.field]])
           : o \in Found(tl, c.track, c.clip)}

\* The stable track of generated clips, created by the first clip that needs it.
WithStableTrack(tl, track) ==
    IF track \in TrackIds(tl) THEN {tl}
    ELSE AddTrack(tl, [id |-> track, kind |-> track[1], clips |-> {}])

AddTitle(tl, c) ==
    Then(UNION {InsertClip(t, TitleTrack, c.new) : t \in WithStableTrack(tl, TitleTrack)},
         [createdTrack |-> TitleTrack \notin TrackIds(tl)])

RemoveGenerated(tl, c) ==
    UNION {Then(RemoveClip(tl, c.track, c.clip), [removed |-> o]) :
              o \in {k \in Found(tl, c.track, c.clip) : Generated(k)}}

WithCues(clip, cues) == Allowed([clip EXCEPT !.cues = cues], ValidCues(cues, clip.len))

AddCaptionCue(tl, c) ==
    LET old == Found(tl, CaptionTrack, c.new.id)
        created == CaptionTrack \notin TrackIds(tl)
    IN  Then(UNION {IF old = {}
                    THEN UNION {InsertClip(t, CaptionTrack, k) : k \in WithCues(c.new, c.new.cues)}
                    ELSE UNION {ReplaceClip(t, CaptionTrack, o.id, k) :
                            o \in {p \in old : [p EXCEPT !.cues = {}] = [c.new EXCEPT !.cues = {}]},
                            k \in UNION {WithCues(p, p.cues \cup c.new.cues) :
                                    p \in {r \in old : CueIds({r}) \cap CueIds({c.new}) = {}}}}
                    : t \in WithStableTrack(tl, CaptionTrack)},
             [createdTrack |-> created, createdClip |-> old = {}])

CueOf(clip, id) == {q \in clip.cues : q.id = id}

EditCaptionCue(tl, c) ==
    UNION {UNION {Then(UNION {ReplaceClip(tl, CaptionTrack, c.clip, k) :
                                 k \in WithCues(o, (o.cues \ {q}) \cup {c.cue})},
                       [previous |-> q])
                  : q \in CueOf(o, c.cue.id)}
           : o \in Found(tl, CaptionTrack, c.clip)}

\* The last cue takes its clip with it.
RemoveCaptionCue(tl, c) ==
    UNION {UNION {IF o.cues = {q}
                  THEN Then(RemoveClip(tl, CaptionTrack, c.clip), [previous |-> q, removed |-> {o}])
                  ELSE Then(UNION {ReplaceClip(tl, CaptionTrack, c.clip, k) :
                                      k \in WithCues(o, o.cues \ {q})},
                            [previous |-> q, removed |-> {}])
                  : q \in CueOf(o, c.cue)}
           : o \in Found(tl, CaptionTrack, c.clip)}

Execute(tl, c) ==
    CASE c.op = "split"   -> SplitClip(tl, c)
      [] c.op = "trim"    -> TrimClip(tl, c)
      [] c.op = "delete"  -> DeleteRange(tl, c)
      [] c.op = "import"  -> ImportRecording(tl, c)
      [] c.op = "set"     -> SetField(tl, c)
      [] c.op = "title"   -> AddTitle(tl, c)
      [] c.op = "remove"  -> RemoveGenerated(tl, c)
      [] c.op = "addCue"  -> AddCaptionCue(tl, c)
      [] c.op = "editCue" -> EditCaptionCue(tl, c)
      [] c.op = "dropCue" -> RemoveCaptionCue(tl, c)

----------------------------------------------------------------------------
(* Undo                                                                    *)

UndoSplit(tl, c, u) ==
    UNION {ReplaceClip(t, c.track, c.clip, u.original) : t \in RemoveClip(tl, c.track, c.right)}

UndoTrim(tl, c, u) == ReplaceClip(tl, c.track, c.clip, u.original)

\* The changed tracks are restored in their order; a track appears once.
UndoDelete(tl, c, u) ==
    LET Of(i) == {p \in u.previous : p.track = tl.tracks[i].id}
        Restore(timelines, i) ==
            IF Of(i) = {} THEN timelines
            ELSE UNION {ReplaceTrackClips(t, p.track, p.clips) : t \in timelines, p \in Of(i)}
    IN  FoldLeft(Restore, {tl}, [i \in 1 .. Len(tl.tracks) |-> i])

\* The tracks without the one of an identity.
Erased(tracks, track) ==
    RemoveAt(tracks, CHOOSE i \in DOMAIN tracks : tracks[i].id = track.id)

UndoImport(tl, c, u) ==
    Allowed([tracks |-> FoldLeft(Erased, tl.tracks, c.tracks),
             markers |-> tl.markers \ c.markers],
            ToSet(c.tracks) \subseteq ToSet(tl.tracks) /\ c.markers \subseteq tl.markers)

UndoSetField(tl, c, u) ==
    UNION {ReplaceClip(tl, c.track, c.clip, k) :
              k \in UNION {WithField(o, c.field, u.previous) : o \in Found(tl, c.track, c.clip)}}

UndoTitle(tl, c, u) ==
    UNION {IF u.createdTrack THEN RemoveTrack(t, TitleTrack) ELSE {t} :
              t \in RemoveClip(tl, TitleTrack, c.new.id)}

UndoRemove(tl, c, u) == InsertClip(tl, c.track, u.removed)

UndoAddCue(tl, c, u) ==
    UNION {IF u.createdTrack THEN RemoveTrack(t, CaptionTrack) ELSE {t} :
              t \in IF u.createdClip
                    THEN RemoveClip(tl, CaptionTrack, c.new.id)
                    ELSE UNION {UNION {ReplaceClip(tl, CaptionTrack, o.id, k) :
                                   k \in UNION {WithCues(o, o.cues \ {q}) :
                                            q \in {r \in o.cues : r.id \in CueIds({c.new})}}}
                                : o \in Found(tl, CaptionTrack, c.new.id)}}

UndoEditCue(tl, c, u) ==
    UNION {UNION {ReplaceClip(tl, CaptionTrack, c.clip, k) :
                     k \in UNION {WithCues(o, (o.cues \ {q}) \cup {u.previous}) :
                              q \in CueOf(o, c.cue.id)}}
           : o \in Found(tl, CaptionTrack, c.clip)}

UndoDropCue(tl, c, u) ==
    IF u.removed # {} THEN UNION {InsertClip(tl, CaptionTrack, k) : k \in u.removed}
    ELSE UNION {UNION {ReplaceClip(tl, CaptionTrack, c.clip, k) :
                          k \in WithCues(o, o.cues \cup {u.previous})}
                : o \in Found(tl, CaptionTrack, c.clip)}

Undo(tl, c, u) ==
    CASE c.op = "split"   -> UndoSplit(tl, c, u)
      [] c.op = "trim"    -> UndoTrim(tl, c, u)
      [] c.op = "delete"  -> UndoDelete(tl, c, u)
      [] c.op = "import"  -> UndoImport(tl, c, u)
      [] c.op = "set"     -> UndoSetField(tl, c, u)
      [] c.op = "title"   -> UndoTitle(tl, c, u)
      [] c.op = "remove"  -> UndoRemove(tl, c, u)
      [] c.op = "addCue"  -> UndoAddCue(tl, c, u)
      [] c.op = "editCue" -> UndoEditCue(tl, c, u)
      [] c.op = "dropCue" -> UndoDropCue(tl, c, u)

=============================================================================
