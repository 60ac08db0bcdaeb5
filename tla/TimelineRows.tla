----------------------------- MODULE TimelineRows -----------------------------
(***************************************************************************)
(* SqliteTimelineStore: a timeline as rows of the package's database, and  *)
(* the assets its clips are cut from.                                      *)
(*                                                                         *)
(* writeSnapshot spreads a timeline over tracks, clips, their transforms   *)
(* and envelopes, titles, caption_cues and markers; loadPrimaryTimeline    *)
(* collects the rows, refuses contradictory ones and builds the timeline   *)
(* through the domain's checks.  Foreign keys delete the rows of a track   *)
(* with it, so a snapshot replaces all rows of the timeline.               *)
(***************************************************************************)
EXTENDS EditCommandCodec

\* media_assets, INSERT OR IGNORE: the same asset again is fine, an identity or a
\* package path that belongs to another one is refused.
InsertAssets(assets, new) ==
    Allowed(assets \cup new,
            \A a \in assets \cup new, b \in new : a # b => a.id # b.id /\ a.path # b.path)

Placements(tl) ==
    UNION {{[track |-> t.id, clip |-> k] : k \in t.clips} : t \in ToSet(tl.tracks)}

\* writeSnapshot.  An envelope is stored with the length of its clip.
SnapshotRows(tl) ==
    LET placed == Placements(tl)
        clips  == {p.clip : p \in placed}
    IN  [tracks |-> {[id |-> tl.tracks[i].id, kind |-> tl.tracks[i].kind, position |-> i] :
                        i \in DOMAIN tl.tracks},
         clips |-> {[id |-> p.clip.id, track |-> p.track, at |-> p.clip.at, len |-> p.clip.len,
                     kind |-> IF Generated(p.clip) THEN p.clip.kind ELSE "asset",
                     asset |-> p.clip.asset, from |-> p.clip.from] : p \in placed},
         looks |-> {[clip |-> k.id, look |-> k.look] : k \in {c \in clips : c.look # NoLook}},
         envelopes |-> {[clip |-> k.id, env |-> k.env, len |-> k.len] :
                           k \in {c \in clips : c.env # NoEnvelope}},
         titles |-> {[clip |-> k.id, text |-> k.text] : k \in {c \in clips : c.kind = "title"}},
         cues |-> UNION {{[clip |-> k.id, cue |-> q] : q \in k.cues} : k \in clips},
         markers |-> tl.markers]

\* The rows of a table that belong to a clip.
RowsOf(table, id) == {r \in table : r.clip = id}

LoadVisual(rows, row) ==
    IF RowsOf(rows.looks, row.id) = {} THEN {NoLook}
    ELSE {r.look : r \in {x \in RowsOf(rows.looks, row.id) : ReadableLook(x.look)}}

\* An envelope whose stored length is not the clip's makes the timeline corrupt.
LoadAudioEnvelope(rows, row) ==
    IF RowsOf(rows.envelopes, row.id) = {} THEN {NoEnvelope}
    ELSE {r.env : r \in {x \in RowsOf(rows.envelopes, row.id) :
                            x.len = row.len /\ ReadableEnvelope(x.env, row.len)}}

LoadTitlePayload(rows, row) ==
    {r.text : r \in {x \in RowsOf(rows.titles, row.id) : ReadableTitle(x.text)}}

LoadCaptionCues(rows, row) ==
    LET cues == {r.cue : r \in RowsOf(rows.cues, row.id)}
    IN  Allowed(cues, cues # {} /\ \A q \in cues : ReadableCue(q))

\* hasRowsForClip: payload rows of another kind of clip.
HasPayload(table, row) == RowsOf(table, row.id) # {}

\* The clip of a row: a set, empty when the rows are refused.
LoadClip(rows, row, assets) ==
    LET clip(kind, env, look, text, cues) ==
            [id |-> row.id, kind |-> kind, asset |-> row.asset, at |-> row.at, len |-> row.len,
             from |-> row.from, env |-> env, look |-> look, text |-> text, cues |-> cues]
        generated == row.asset = NoAsset /\ row.from = 0
    IN  CASE row.kind = "asset" ->
               {k \in {clip(a.kind, env, look, NoText, {}) :
                          a \in {b \in assets : b.id = row.asset},
                          env \in LoadAudioEnvelope(rows, row), look \in LoadVisual(rows, row)} :
                   /\ ~HasPayload(rows.titles, row) /\ ~HasPayload(rows.cues, row)
                   /\ ReadableClip(k, assets)}
          [] row.kind = "title" ->
               {clip("title", env, look, text, {}) :
                   env \in LoadAudioEnvelope(rows, row) \cap {NoEnvelope},
                   look \in LoadVisual(rows, row),
                   text \in {t \in LoadTitlePayload(rows, row) :
                                generated /\ ~HasPayload(rows.cues, row)}}
          [] row.kind = "caption" ->
               {clip("caption", env, look, NoText, cues) :
                   env \in LoadAudioEnvelope(rows, row) \cap {NoEnvelope},
                   look \in LoadVisual(rows, row),
                   cues \in {q \in LoadCaptionCues(rows, row) :
                                /\ generated /\ ~HasPayload(rows.titles, row)
                                /\ ValidCues(q, row.len)}}

\* loadPrimaryTimeline: tracks by position, their clips and the markers through the
\* timeline's checks of identities, times and tracks.
LoadTimeline(rows, assets) ==
    LET Clips(track) == UNION {LoadClip(rows, row, assets) : row \in {r \in rows.clips : r.track = track}}
        At(i) == CHOOSE r \in rows.tracks : r.position = i
        tracks == [i \in 1 .. Cardinality(rows.tracks) |->
                      [id |-> At(i).id, kind |-> At(i).kind, clips |-> Clips(At(i).id)]]
        all == UNION {t.clips : t \in ToSet(tracks)}
    IN  Allowed([tracks |-> tracks, markers |-> rows.markers],
                /\ \A row \in rows.clips : LoadClip(rows, row, assets) # {}
                /\ \A r, s \in rows.clips : r # s => r.id # s.id
                /\ \A t \in ToSet(tracks) : ValidClips(t.kind, t.clips)
                /\ \A r, s \in rows.tracks : r # s => r.id # s.id
                /\ \A c, d \in all : c # d => CueIds({c}) \cap CueIds({d}) = {}
                /\ DistinctMarkers(rows.markers))
=============================================================================
