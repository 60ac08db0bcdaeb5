--------------------------- MODULE EditCommandCodec ---------------------------
(***************************************************************************)
(* internal/EditCommandCodec: which stored edit commands can be read back. *)
(*                                                                         *)
(* A command is stored as two JSON texts, its payload and its undo state.  *)
(* Numbers, names and flags survive the JSON exactly; what decode() does   *)
(* besides is to build every part again through the domain's factories and *)
(* to compare payload and undo state.  An operator here says for one kind  *)
(* of value or command when decode() accepts it; the clips of media are    *)
(* built on the assets of the package, the set `assets`.                   *)
(***************************************************************************)
EXTENDS TimelineCommands

\* The values the domain's factories accept: a visual transform, fades, a text, a cue.
ReadableLook(look) == look \in Looks
ReadableEnvelope(env, len) == env = NoEnvelope \/ (env >= 0 /\ env <= len)
ReadableTitle(text) == text # NoText
ReadableCue(q) == q.at >= 0 /\ q.len > 0 /\ q.text # NoText

\* A clip with a clipKind.  It has one length: its source range is the range itself.
ReadableGenerated(clip) ==
    /\ clip.from = 0 /\ clip.at >= 0 /\ clip.len > 0
    /\ ReadableLook(clip.look)
    /\ \A q \in clip.cues : ReadableCue(q)
    /\ \/ clip.kind = "title" /\ clip.cues = {} /\ ReadableTitle(clip.text)
       \/ clip.kind = "caption" /\ clip.text = NoText /\ ValidCues(clip.cues, clip.len)

\* Clip::createAsset: speed unchanged, inside the asset, and only what its streams carry.
AssetClip(clip, asset) ==
    /\ clip.from + clip.len <= asset.len
    /\ asset.kind = "audio" => clip.look = NoLook
    /\ asset.kind # "audio" => clip.env = NoEnvelope

ReadableClip(clip, assets) ==
    IF Generated(clip) THEN ReadableGenerated(clip)
    ELSE /\ clip.from >= 0 /\ clip.at >= 0 /\ clip.len > 0
         /\ \E a \in assets : a.id = clip.asset /\ a.kind = clip.kind /\ AssetClip(clip, a)
         /\ ReadableLook(clip.look)
         /\ ReadableEnvelope(clip.env, clip.len)

ReadableClips(clips, assets) == \A k \in clips : ReadableClip(k, assets)

\* importTracks: into a scratch timeline, so identities are unique over all of them.
ReadableTracks(tracks, assets) ==
    /\ IsInjective([i \in DOMAIN tracks |-> tracks[i].id])
    /\ \A t \in ToSet(tracks) : /\ t.kind \in {"video", "audio"}
                                /\ ValidClips(t.kind, t.clips)
                                /\ ReadableClips(t.clips, assets)
    /\ \A t, other \in ToSet(tracks) : t # other => Ids(t.clips) \cap Ids(other.clips) = {}

ReadableMarkers(markers) ==
    DistinctMarkers(markers) /\ \A m \in markers : m.at >= 0

\* previousTracks, the undo state of a deletion.
ReadablePrevious(previous, assets) ==
    /\ \A p \in previous : ReadableClips(p.clips, assets)
    /\ \A p, other \in previous :
          p # other => p.track # other.track /\ Ids(p.clips) \cap Ids(other.clips) = {}

----------------------------------------------------------------------------
(* One operator per command type: c the payload, u the undo state.         *)

DecodesImport(c, u, assets) ==
    /\ ReadableTracks(c.tracks, assets)
    /\ ReadableMarkers(c.markers)
    /\ c.tracks # <<>> \/ c.markers # {}

DecodesSplit(c, u, assets) ==
    /\ ReadableClip(u.original, assets)
    /\ u.original.id = c.clip /\ c.right # c.clip
    /\ u.original.at < c.at /\ c.at < End(u.original)

DecodesTrim(c, u, assets) ==
    /\ ReadableClip(u.original, assets)
    /\ u.original.id = c.clip
    /\ u.original.at < c.at /\ c.at < End(u.original)

DecodesVisual(c, u) == ReadableLook(c.value) /\ ReadableLook(u.previous)

\* The clip's length at the time of the edit is stored with both envelopes.
DecodesAudio(c, u) ==
    c.len > 0 /\ ReadableEnvelope(c.value, c.len) /\ ReadableEnvelope(u.previous, c.len)

DecodesTitle(c, u) == c.new.kind = "title" /\ ReadableGenerated(c.new)

DecodesEditTitle(c, u) ==
    c.track = TitleTrack /\ ReadableTitle(c.value) /\ ReadableTitle(u.previous)

DecodesRemove(c, u) ==
    /\ ReadableGenerated(u.removed)
    /\ u.removed.id = c.clip
    /\ c.track = IF u.removed.kind = "title" THEN TitleTrack ELSE CaptionTrack

\* The payload carries one cue and the range of its clip.
DecodesAddCue(c, u) ==
    /\ \A q \in c.new.cues : ReadableCue(q) /\ q.at + q.len <= c.new.len
    /\ ReadableLook(c.new.look)
    /\ u.createdTrack => u.createdClip

DecodesEditCue(c, u) ==
    ReadableCue(c.cue) /\ ReadableCue(u.previous) /\ u.previous.id = c.cue.id

DecodesDropCue(c, u) ==
    /\ ReadableCue(u.previous) /\ u.previous.id = c.cue
    /\ \A k \in u.removed : /\ ReadableGenerated(k)
                            /\ k.id = c.clip /\ k.kind = "caption" /\ k.cues = {u.previous}

DecodesDelete(c, u, assets) ==
    /\ c.from < c.to
    /\ IsInjective(c.rights)
    /\ ReadablePrevious(u.previous, assets)
    /\ \A p \in u.previous : Ids(p.clips) \cap ToSet(c.rights) = {}
    /\ Len(c.rights) = Cardinality({p \in u.previous : Spans(c, p)})

\* EditCommandCodec::decode.
Decodable(c, u, assets) ==
    CASE c.op = "import"  -> DecodesImport(c, u, assets)
      [] c.op = "split"   -> DecodesSplit(c, u, assets)
      [] c.op = "trim"    -> DecodesTrim(c, u, assets)
      [] c.op = "delete"  -> DecodesDelete(c, u, assets)
      [] c.op = "set" /\ c.field = "look" -> DecodesVisual(c, u)
      [] c.op = "set" /\ c.field = "env"  -> DecodesAudio(c, u)
      [] c.op = "set" /\ c.field = "text" -> DecodesEditTitle(c, u)
      [] c.op = "title"   -> DecodesTitle(c, u)
      [] c.op = "remove"  -> DecodesRemove(c, u)
      [] c.op = "addCue"  -> DecodesAddCue(c, u)
      [] c.op = "editCue" -> DecodesEditCue(c, u)
      [] c.op = "dropCue" -> DecodesDropCue(c, u)
=============================================================================
