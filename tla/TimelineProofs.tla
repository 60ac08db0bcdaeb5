---------------------------- MODULE TimelineProofs ----------------------------
(***************************************************************************)
(* What the timeline of a project keeps for any number of edits, takes and *)
(* clips and any two history limits (TimelineEditing).                     *)
(*                                                                         *)
(* The two writers hold copies of what is stored, and either can be        *)
(* overtaken; the proof uses that only a session that has seen the stored  *)
(* revision is allowed to write, and says what such a session holds        *)
(* (EditorOK, ImporterOK).  What is stored is described by a history h and *)
(* the timelines D between its entries (HistoryOK): every entry leads from *)
(* one timeline to the next and its undo state back (Linked), the replay   *)
(* of the events under the limit of either reader ends in h (Ends), and    *)
(* past, stored timeline and future are D around the cursor (Around).      *)
(*                                                                         *)
(* Three results about data carry it.  Each of the commands has one result *)
(* on a sound timeline, which is sound, and its undo state takes back to   *)
(* where it came from (CommandWorks).  The rows of a sound timeline are    *)
(* read back as that timeline or refused (LoadTimelineIs).  The replay of  *)
(* one event more follows the history through execute, undo and redo       *)
(* (ApplyEnds, UndoEnds, RedoEnds).                                        *)
(***************************************************************************)
EXTENDS MCTimelineEditing, SequenceTheorems, FiniteSetTheorems, TLAPS

----------------------------------------------------------------------------
(* Lists and timelines                                                     *)

IsList(s) == s \in Seq({s[i] : i \in DOMAIN s})
IsTrack(t) == t = [id |-> t.id, kind |-> t.kind, clips |-> t.clips]

\* A timeline with other clips on one of its tracks.
Swap(tl, i, clips) == [tl EXCEPT !.tracks[i].clips = clips]

Shaped(tl) ==
    /\ tl = [tracks |-> tl.tracks, markers |-> tl.markers]
    /\ IsList(tl.tracks)
    /\ \A i \in DOMAIN tl.tracks : IsTrack(tl.tracks[i])

\* A list is a function on an initial segment of the positive numbers.
LEMMA ListIs ==
    ASSUME NEW s, IsList(s)
    PROVE  /\ Len(s) \in Nat /\ DOMAIN s = 1 .. Len(s)
           /\ s = [i \in 1 .. Len(s) |-> s[i]]
<1> DEFINE S == {s[i] : i \in DOMAIN s}
<1>1. s \in Seq(S)  BY DEF IsList
<1> HIDE DEF S
<1>2. Len(s) \in Nat /\ DOMAIN s = 1 .. Len(s) /\ s \in [1 .. Len(s) -> S]  BY <1>1, LenProperties
<1> QED  BY <1>2

\* A sequence over any set is a list.
LEMMA SeqIsList ==
    ASSUME NEW S, NEW s \in Seq(S)
    PROVE  IsList(s)
<1> DEFINE R == {s[i] : i \in DOMAIN s}
<1>1. Len(s) \in Nat /\ s \in [1 .. Len(s) -> S] /\ DOMAIN s = 1 .. Len(s)  BY LenProperties
<1>2. \A i \in 1 .. Len(s) : s[i] \in R  BY <1>1
<1> HIDE DEF R
<1>3. s \in [1 .. Len(s) -> R]  BY <1>1, <1>2
<1>4. s \in Seq(R)  BY <1>1, <1>3, SeqDef
<1> QED  BY <1>4 DEF IsList, R

\* A function on 1 .. n is a list of length n.
LEMMA FunIsList ==
    ASSUME NEW n \in Nat, NEW s, DOMAIN s = 1 .. n, s = [i \in 1 .. n |-> s[i]]
    PROVE  IsList(s) /\ Len(s) = n
<1> DEFINE R == {s[i] : i \in DOMAIN s}
<1>1. \A i \in 1 .. n : s[i] \in R  OBVIOUS
<1> HIDE DEF R
<1>2. s \in [1 .. n -> R]  BY <1>1
<1>3. s \in Seq(R)  BY <1>2, SeqDef
<1>4. Len(s) \in Nat /\ DOMAIN s = 1 .. Len(s)  BY <1>3, LenProperties
<1>5. 1 .. n = 1 .. Len(s)  BY <1>4
<1>6. Len(s) = n  BY <1>4, <1>5
<1> QED  BY <1>3, <1>6 DEF IsList, R

\* Lists of the same length with the same members are the same.
LEMMA SameList ==
    ASSUME NEW s, NEW t, IsList(s), IsList(t), Len(s) = Len(t),
           \A i \in 1 .. Len(s) : s[i] = t[i]
    PROVE  s = t
  BY ListIs

\* Timelines with the same tracks and markers are the same.
LEMMA SameTimeline ==
    ASSUME NEW t, NEW u, Shaped(t), Shaped(u), t.markers = u.markers,
           Len(t.tracks) = Len(u.tracks),
           \A i \in DOMAIN t.tracks : /\ t.tracks[i].id = u.tracks[i].id
                                      /\ t.tracks[i].kind = u.tracks[i].kind
                                      /\ t.tracks[i].clips = u.tracks[i].clips
    PROVE  t = u
<1>1. IsList(t.tracks) /\ IsList(u.tracks)  BY DEF Shaped
<1>2. DOMAIN t.tracks = 1 .. Len(t.tracks) /\ DOMAIN u.tracks = 1 .. Len(t.tracks)  BY <1>1, ListIs
<1>3. ASSUME NEW i \in 1 .. Len(t.tracks) PROVE t.tracks[i] = u.tracks[i]
  BY <1>2 DEF Shaped, IsTrack
<1>4. t.tracks = u.tracks  BY <1>1, <1>3, SameList
<1>5. t = [tracks |-> t.tracks, markers |-> t.markers] /\ u = [tracks |-> u.tracks, markers |-> u.markers]
  BY DEF Shaped
<1> QED  BY <1>4, <1>5

\* What swapping the clips of a track changes.
LEMMA SwapIs ==
    ASSUME NEW tl, Shaped(tl), NEW i \in DOMAIN tl.tracks, NEW clips, NEW u, u = Swap(tl, i, clips)
    PROVE  /\ Shaped(u) /\ u.markers = tl.markers
           /\ DOMAIN u.tracks = DOMAIN tl.tracks /\ Len(u.tracks) = Len(tl.tracks)
           /\ u.tracks[i].id = tl.tracks[i].id /\ u.tracks[i].kind = tl.tracks[i].kind
           /\ u.tracks[i].clips = clips
           /\ \A j \in DOMAIN tl.tracks : j # i => u.tracks[j] = tl.tracks[j]
<1>1. PICK s : s = tl.tracks  OBVIOUS
<1>2. /\ tl = [tracks |-> s, markers |-> tl.markers] /\ IsList(s) /\ i \in DOMAIN s
      /\ \A j \in DOMAIN s : IsTrack(s[j])
  BY <1>1 DEF Shaped
<1>3. Len(s) \in Nat /\ DOMAIN s = 1 .. Len(s) /\ s = [j \in 1 .. Len(s) |-> s[j]]  BY <1>2, ListIs
<1>4. PICK k : k = [id |-> s[i].id, kind |-> s[i].kind, clips |-> clips]  OBVIOUS
<1>5. s[i] = [id |-> s[i].id, kind |-> s[i].kind, clips |-> s[i].clips]  BY <1>2 DEF IsTrack
<1>6. [s[i] EXCEPT !.clips = clips] = k  BY <1>4, <1>5
<1>7. PICK r : r = [s EXCEPT ![i] = k]  OBVIOUS
<1>8. u = [tracks |-> r, markers |-> tl.markers]  BY <1>1, <1>6, <1>7, <1>2 DEF Swap
<1>9. DOMAIN r = 1 .. Len(s) /\ r = [j \in 1 .. Len(s) |-> r[j]] /\ r[i] = k
      /\ \A j \in DOMAIN s : j # i => r[j] = s[j]
  BY <1>3, <1>7, <1>2
<1>10. IsList(r) /\ Len(r) = Len(s)  BY <1>3, <1>9, FunIsList
<1>11. \A j \in DOMAIN r : IsTrack(r[j])
 <2>1. IsTrack(k)  BY <1>4 DEF IsTrack
 <2> QED  BY <2>1, <1>2, <1>3, <1>9
<1>12. u.tracks = r /\ u.markers = tl.markers  BY <1>8
<1>13. Shaped(u)  BY <1>8, <1>10, <1>11, <1>12 DEF Shaped
<1>14. k.id = s[i].id /\ k.kind = s[i].kind /\ k.clips = clips  BY <1>4
<1>15. /\ DOMAIN u.tracks = DOMAIN s /\ Len(u.tracks) = Len(s)
       /\ u.tracks[i].id = s[i].id /\ u.tracks[i].kind = s[i].kind /\ u.tracks[i].clips = clips
       /\ \A j \in DOMAIN s : j # i => u.tracks[j] = s[j]
  BY <1>3, <1>9, <1>10, <1>12, <1>14
<1> QED  BY <1>1, <1>12, <1>13, <1>15

\* Swapping twice is swapping once.
LEMMA SwapTwice ==
    ASSUME NEW tl, Shaped(tl), NEW i \in DOMAIN tl.tracks, NEW K, NEW L
    PROVE  Swap(Swap(tl, i, K), i, L) = Swap(tl, i, L)
<1>1. PICK u : u = Swap(tl, i, K)  OBVIOUS
<1>2. PICK v : v = Swap(u, i, L)  OBVIOUS
<1>3. PICK w : w = Swap(tl, i, L)  OBVIOUS
<1>4. /\ Shaped(u) /\ u.markers = tl.markers /\ DOMAIN u.tracks = DOMAIN tl.tracks
      /\ Len(u.tracks) = Len(tl.tracks)
      /\ u.tracks[i].id = tl.tracks[i].id /\ u.tracks[i].kind = tl.tracks[i].kind
      /\ \A j \in DOMAIN tl.tracks : j # i => u.tracks[j] = tl.tracks[j]
  BY <1>1, SwapIs
<1>5. /\ Shaped(v) /\ v.markers = u.markers /\ DOMAIN v.tracks = DOMAIN u.tracks
      /\ Len(v.tracks) = Len(u.tracks)
      /\ v.tracks[i].id = u.tracks[i].id /\ v.tracks[i].kind = u.tracks[i].kind
      /\ v.tracks[i].clips = L
      /\ \A j \in DOMAIN u.tracks : j # i => v.tracks[j] = u.tracks[j]
  BY <1>2, <1>4, SwapIs
<1>6. /\ Shaped(w) /\ w.markers = tl.markers /\ DOMAIN w.tracks = DOMAIN tl.tracks
      /\ Len(w.tracks) = Len(tl.tracks)
      /\ w.tracks[i].id = tl.tracks[i].id /\ w.tracks[i].kind = tl.tracks[i].kind
      /\ w.tracks[i].clips = L
      /\ \A j \in DOMAIN tl.tracks : j # i => w.tracks[j] = tl.tracks[j]
  BY <1>3, SwapIs
<1>7. \A j \in DOMAIN v.tracks : /\ v.tracks[j].id = w.tracks[j].id
                                 /\ v.tracks[j].kind = w.tracks[j].kind
                                 /\ v.tracks[j].clips = w.tracks[j].clips
  BY <1>4, <1>5, <1>6
<1>8. v = w  BY <1>4, <1>5, <1>6, <1>7, SameTimeline
<1> QED  BY <1>1, <1>2, <1>3, <1>8

\* Swapping in what is there changes nothing.
LEMMA SwapNothing ==
    ASSUME NEW tl, Shaped(tl), NEW i \in DOMAIN tl.tracks, NEW K, K = tl.tracks[i].clips
    PROVE  Swap(tl, i, K) = tl
<1>1. PICK u : u = Swap(tl, i, K)  OBVIOUS
<1>2. /\ Shaped(u) /\ u.markers = tl.markers /\ DOMAIN u.tracks = DOMAIN tl.tracks
      /\ Len(u.tracks) = Len(tl.tracks)
      /\ u.tracks[i].id = tl.tracks[i].id /\ u.tracks[i].kind = tl.tracks[i].kind
      /\ u.tracks[i].clips = K
      /\ \A j \in DOMAIN tl.tracks : j # i => u.tracks[j] = tl.tracks[j]
  BY <1>1, SwapIs
<1>3. \A j \in DOMAIN u.tracks : /\ u.tracks[j].id = tl.tracks[j].id
                                 /\ u.tracks[j].kind = tl.tracks[j].kind
                                 /\ u.tracks[j].clips = tl.tracks[j].clips
  BY <1>2
<1>4. u = tl  BY <1>2, <1>3, SameTimeline
<1> QED  BY <1>1, <1>4

----------------------------------------------------------------------------
(* Sound timelines                                                         *)

IsClip(c) ==
    c = [id |-> c.id, kind |-> c.kind, asset |-> c.asset, at |-> c.at, len |-> c.len,
         from |-> c.from, env |-> c.env, look |-> c.look, text |-> c.text, cues |-> c.cues]

\* A clip of media is cut from an asset of its kind and has no text; cues are told apart.
Plain(c) ==
    /\ IsClip(c)
    /\ c.kind # "title" => c.text = NoText
    /\ ~Generated(c) => c.asset[1] = c.kind
    /\ \A q, r \in c.cues : q # r => q.id # r.id

Named(tl) ==
    \A i, j \in DOMAIN tl.tracks : tl.tracks[i].id = tl.tracks[j].id => i = j
Filled(tl) ==
    \A i \in DOMAIN tl.tracks : /\ ValidClips(tl.tracks[i].kind, tl.tracks[i].clips)
                                /\ \A c \in tl.tracks[i].clips : Plain(c)
Unshared(tl) ==
    \A i, j \in DOMAIN tl.tracks :
        \A c \in tl.tracks[i].clips, d \in tl.tracks[j].clips : c.id = d.id => i = j

\* What the domain's checks keep of every timeline: identities of tracks and clips are
\* unique, and the clips of a track are its kind's and disjoint.
Sound(tl) == Shaped(tl) /\ Named(tl) /\ Filled(tl) /\ Unshared(tl)

\* Clip c, named id, is on track number i, named track.
Place(tl, track, id, i, c) ==
    /\ i \in DOMAIN tl.tracks /\ tl.tracks[i].id = track
    /\ c \in tl.tracks[i].clips /\ c.id = id

\* The clips of a track besides the one named.
Others(tl, i, id) == {k \in tl.tracks[i].clips : k.id # id}

\* No clip of the timeline is named so.
Unused(tl, id) == \A j \in DOMAIN tl.tracks : \A k \in tl.tracks[j].clips : k.id # id

\* A name has one place.
LEMMA OnePlace ==
    ASSUME NEW tl, Sound(tl), NEW track, NEW id, NEW i, NEW c, Place(tl, track, id, i, c),
           NEW j, NEW d, Place(tl, track, id, j, d)
    PROVE  i = j /\ c = d
<1>1. i = j  BY DEF Place, Sound, Named
<1>2. ValidClips(tl.tracks[i].kind, tl.tracks[i].clips)  BY DEF Place, Sound, Filled
<1> QED  BY <1>1, <1>2 DEF Place, ValidClips

\* The clip of a place and the others are the clips of the track.
LEMMA PlaceIs ==
    ASSUME NEW tl, Sound(tl), NEW track, NEW id, NEW i, NEW c, Place(tl, track, id, i, c)
    PROVE  /\ i \in DOMAIN tl.tracks /\ c \in tl.tracks[i].clips /\ c.id = id /\ Plain(c)
           /\ Others(tl, i, id) \cup {c} = tl.tracks[i].clips
           /\ Others(tl, i, id) = tl.tracks[i].clips \ {c}
  BY DEF Place, Sound, Filled, ValidClips, Others

\* The clips of a track by its name.
LEMMA ClipsAre ==
    ASSUME NEW tl, Sound(tl), NEW i \in DOMAIN tl.tracks
    PROVE  ClipsOf(tl, tl.tracks[i].id) = tl.tracks[i].clips
  BY DEF Sound, Named, ClipsOf

\* A clip found on a track has a place there.
LEMMA FoundIs ==
    ASSUME NEW tl, NEW track, NEW id, NEW c \in Found(tl, track, id)
    PROVE  \E i : Place(tl, track, id, i, c)
<1>1. c \in ClipsOf(tl, track) /\ c.id = id  BY DEF Found
<1>2. PICK i \in DOMAIN tl.tracks : tl.tracks[i].id = track /\ c \in tl.tracks[i].clips
  BY <1>1 DEF ClipsOf
<1> QED  BY <1>1, <1>2 DEF Place

\* All the clips of a timeline.
LEMMA AllClipsAre ==
    ASSUME NEW tl
    PROVE  \A c : c \in AllClips(tl) <=> \E i \in DOMAIN tl.tracks : c \in tl.tracks[i].clips
BY DEF AllClips, ClipsWhere

\* A track gets its clips as a whole.
LEMMA PutIs ==
    ASSUME NEW tl, NEW track, NEW clips, NEW r \in Put(tl, track, clips)
    PROVE  \E i \in DOMAIN tl.tracks : /\ tl.tracks[i].id = track
                                       /\ ValidClips(tl.tracks[i].kind, clips)
                                       /\ r = Swap(tl, i, clips)
BY DEF Put, Swap

\* Clips that are the track's kind, plain and named as no others keep a timeline sound.
LEMMA SwapSound ==
    ASSUME NEW tl, Sound(tl), NEW i \in DOMAIN tl.tracks, NEW clips,
           ValidClips(tl.tracks[i].kind, clips),
           \A c \in clips : Plain(c),
           \A c \in clips : \A j \in DOMAIN tl.tracks :
               j # i => \A d \in tl.tracks[j].clips : d.id # c.id,
           NEW u, u = Swap(tl, i, clips)
    PROVE  Sound(u)
<1>1. /\ Shaped(u) /\ DOMAIN u.tracks = DOMAIN tl.tracks
      /\ u.tracks[i].id = tl.tracks[i].id /\ u.tracks[i].kind = tl.tracks[i].kind
      /\ u.tracks[i].clips = clips
      /\ \A j \in DOMAIN tl.tracks : j # i => u.tracks[j] = tl.tracks[j]
  BY SwapIs DEF Sound
<1>2. Named(u)  BY <1>1 DEF Sound, Named
<1>3. Filled(u)  BY <1>1 DEF Sound, Filled
<1>4. Unshared(u)
 <2> SUFFICES ASSUME NEW j \in DOMAIN u.tracks, NEW k \in DOMAIN u.tracks,
                     NEW c \in u.tracks[j].clips, NEW d \in u.tracks[k].clips, c.id = d.id
              PROVE  j = k
   BY DEF Unshared
 <2>1. CASE j = i /\ k = i  BY <2>1
 <2>2. CASE j = i /\ k # i  BY <2>2, <1>1
 <2>3. CASE j # i /\ k = i  BY <2>3, <1>1
 <2>4. CASE j # i /\ k # i  BY <2>4, <1>1 DEF Sound, Unshared
 <2> QED  BY <2>1, <2>2, <2>3, <2>4
<1> QED  BY <1>1, <1>2, <1>3, <1>4 DEF Sound

----------------------------------------------------------------------------
(* Inserting, replacing and removing a clip                                *)

\* Timeline::insertClip.
LEMMA Inserts ==
    ASSUME NEW tl, Sound(tl), NEW track, NEW clip, NEW r \in InsertClip(tl, track, clip)
    PROVE  \E i \in DOMAIN tl.tracks :
              /\ tl.tracks[i].id = track /\ Unused(tl, clip.id)
              /\ r = Swap(tl, i, tl.tracks[i].clips \cup {clip})
              /\ Plain(clip) => Sound(r)
<1>1. clip.id \notin Ids(AllClips(tl)) /\ r \in Put(tl, track, ClipsOf(tl, track) \cup {clip})
  BY DEF InsertClip
<1>2. PICK i \in DOMAIN tl.tracks : /\ tl.tracks[i].id = track
                                    /\ ValidClips(tl.tracks[i].kind, ClipsOf(tl, track) \cup {clip})
                                    /\ r = Swap(tl, i, ClipsOf(tl, track) \cup {clip})
  BY <1>1, PutIs
<1>3. ClipsOf(tl, track) = tl.tracks[i].clips  BY <1>2, ClipsAre
<1>4. Unused(tl, clip.id)  BY <1>1, AllClipsAre DEF Ids, Unused
<1>5. ASSUME Plain(clip) PROVE Sound(r)
 <2> DEFINE K == tl.tracks[i].clips \cup {clip}
 <2>1. ValidClips(tl.tracks[i].kind, K) /\ r = Swap(tl, i, K)  BY <1>2, <1>3
 <2>2. \A c \in K : Plain(c)  BY <1>5 DEF Sound, Filled
 <2>3. \A c \in K : \A j \in DOMAIN tl.tracks : j # i => \A d \in tl.tracks[j].clips : d.id # c.id
   BY <1>4 DEF Sound, Unshared, Unused
 <2> HIDE DEF K
 <2> QED  BY <2>1, <2>2, <2>3, SwapSound
<1> QED  BY <1>2, <1>3, <1>4, <1>5

\* Timeline::replaceClip.
LEMMA Replaces ==
    ASSUME NEW tl, Sound(tl), NEW track, NEW id, NEW clip, NEW r \in ReplaceClip(tl, track, id, clip)
    PROVE  \E i, o : /\ Place(tl, track, id, i, o) /\ clip.id = id
                     /\ ValidClips(tl.tracks[i].kind, Others(tl, i, id) \cup {clip})
                     /\ r = Swap(tl, i, Others(tl, i, id) \cup {clip})
                     /\ Plain(clip) => Sound(r)
<1>1. /\ clip.id = id /\ Found(tl, track, id) # {}
      /\ r \in Put(tl, track, (ClipsOf(tl, track) \ Found(tl, track, id)) \cup {clip})
  BY DEF ReplaceClip
<1>2. PICK o : o \in Found(tl, track, id)  BY <1>1
<1>3. PICK i : Place(tl, track, id, i, o)  BY <1>2, FoundIs
<1> DEFINE K == Others(tl, i, id) \cup {clip}
<1>4. ClipsOf(tl, track) = tl.tracks[i].clips  BY <1>3, ClipsAre DEF Place
<1>5. (ClipsOf(tl, track) \ Found(tl, track, id)) \cup {clip} = K  BY <1>4 DEF Found, Others
<1>p. r \in Put(tl, track, K)  BY <1>1, <1>5
<1> HIDE DEF K
<1>6. PICK j \in DOMAIN tl.tracks : /\ tl.tracks[j].id = track
                                    /\ ValidClips(tl.tracks[j].kind, K) /\ r = Swap(tl, j, K)
  BY <1>p, PutIs
<1>7. j = i  BY <1>3, <1>6 DEF Place, Sound, Named
<1>8. ASSUME Plain(clip) PROVE Sound(r)
 <2>1. i \in DOMAIN tl.tracks /\ o \in tl.tracks[i].clips /\ o.id = id  BY <1>3 DEF Place
 <2>2. \A c \in K : Plain(c)  BY <1>8, <2>1 DEF Sound, Filled, Others, K
 <2>3. \A c \in K : \E e \in tl.tracks[i].clips : e.id = c.id  BY <1>1, <2>1 DEF Others, K
 <2>4. \A c \in K : \A k \in DOMAIN tl.tracks : k # i => \A d \in tl.tracks[k].clips : d.id # c.id
   BY <2>1, <2>3 DEF Sound, Unshared
 <2> QED  BY <1>6, <1>7, <2>1, <2>2, <2>4, SwapSound
<1>9. ValidClips(tl.tracks[i].kind, K) /\ r = Swap(tl, i, K)  BY <1>6, <1>7
<1> QED  BY <1>1, <1>3, <1>8, <1>9 DEF K

\* Timeline::removeClip.
LEMMA Removes ==
    ASSUME NEW tl, Sound(tl), NEW track, NEW id, NEW r \in RemoveClip(tl, track, id)
    PROVE  \E i, o : Place(tl, track, id, i, o) /\ r = Swap(tl, i, Others(tl, i, id)) /\ Sound(r)
<1>1. /\ Found(tl, track, id) # {}
      /\ r \in Put(tl, track, ClipsOf(tl, track) \ Found(tl, track, id))
  BY DEF RemoveClip
<1>2. PICK o : o \in Found(tl, track, id)  BY <1>1
<1>3. PICK i : Place(tl, track, id, i, o)  BY <1>2, FoundIs
<1> DEFINE K == Others(tl, i, id)
<1>4. ClipsOf(tl, track) = tl.tracks[i].clips  BY <1>3, ClipsAre DEF Place
<1>5. ClipsOf(tl, track) \ Found(tl, track, id) = K  BY <1>4 DEF Found, Others
<1>p. r \in Put(tl, track, K)  BY <1>1, <1>5
<1> HIDE DEF K
<1>6. PICK j \in DOMAIN tl.tracks : /\ tl.tracks[j].id = track
                                    /\ ValidClips(tl.tracks[j].kind, K) /\ r = Swap(tl, j, K)
  BY <1>p, PutIs
<1>7. j = i /\ i \in DOMAIN tl.tracks  BY <1>3, <1>6 DEF Place, Sound, Named
<1>8. K \subseteq tl.tracks[i].clips  BY DEF Others, K
<1>9. \A c \in K : Plain(c)  BY <1>7, <1>8 DEF Sound, Filled
<1>10. \A c \in K : \A k \in DOMAIN tl.tracks : k # i => \A d \in tl.tracks[k].clips : d.id # c.id
  BY <1>7, <1>8 DEF Sound, Unshared
<1>11. ValidClips(tl.tracks[i].kind, K) /\ r = Swap(tl, i, K)  BY <1>6, <1>7
<1>12. Sound(r)  BY <1>7, <1>9, <1>10, <1>11, SwapSound
<1> QED  BY <1>3, <1>11, <1>12 DEF K

\* The same after a swap: the track is the same.
LEMMA SameTrack ==
    ASSUME NEW tl, Sound(tl), NEW i \in DOMAIN tl.tracks, NEW K, NEW u, u = Swap(tl, i, K), Sound(u)
    PROVE  /\ i \in DOMAIN u.tracks /\ u.tracks[i].id = tl.tracks[i].id /\ u.tracks[i].clips = K
           /\ u.tracks[i].kind = tl.tracks[i].kind /\ Shaped(tl) /\ Shaped(u)
           /\ \A j \in DOMAIN u.tracks : u.tracks[j].id = tl.tracks[i].id => j = i
           /\ \A L : Swap(u, i, L) = Swap(tl, i, L)
<1>1. Shaped(tl) /\ Shaped(u)  BY DEF Sound
<1>2. /\ DOMAIN u.tracks = DOMAIN tl.tracks /\ u.tracks[i].id = tl.tracks[i].id
      /\ u.tracks[i].clips = K /\ u.tracks[i].kind = tl.tracks[i].kind
  BY <1>1, SwapIs
<1>3. \A j \in DOMAIN u.tracks : u.tracks[j].id = tl.tracks[i].id => j = i  BY <1>2 DEF Sound, Named
<1>4. ASSUME NEW L PROVE Swap(u, i, L) = Swap(tl, i, L)  BY <1>1, SwapTwice
<1> QED  BY <1>1, <1>2, <1>3, <1>4

\* Removing a clip of a track that was changed.
LEMMA RemoveAfter ==
    ASSUME NEW tl, Sound(tl), NEW i \in DOMAIN tl.tracks, NEW K, NEW u, u = Swap(tl, i, K), Sound(u),
           NEW id, NEW r \in RemoveClip(u, tl.tracks[i].id, id)
    PROVE  r = Swap(tl, i, {k \in K : k.id # id}) /\ Sound(r)
<1>1. PICK j, o : /\ Place(u, tl.tracks[i].id, id, j, o) /\ r = Swap(u, j, Others(u, j, id))
                  /\ Sound(r)
  BY Removes
<1>2. j = i /\ Others(u, i, id) = {k \in K : k.id # id}  BY <1>1, SameTrack DEF Place, Others
<1> QED  BY <1>1, <1>2, SameTrack

\* Replacing one.
LEMMA ReplaceAfter ==
    ASSUME NEW tl, Sound(tl), NEW i \in DOMAIN tl.tracks, NEW K, NEW u, u = Swap(tl, i, K), Sound(u),
           NEW id, NEW clip, NEW r \in ReplaceClip(u, tl.tracks[i].id, id, clip)
    PROVE  r = Swap(tl, i, {k \in K : k.id # id} \cup {clip})
<1>1. PICK j, o : /\ Place(u, tl.tracks[i].id, id, j, o)
                  /\ r = Swap(u, j, Others(u, j, id) \cup {clip})
  BY Replaces
<1>2. j = i /\ Others(u, i, id) = {k \in K : k.id # id}  BY <1>1, SameTrack DEF Place, Others
<1> QED  BY <1>1, <1>2, SameTrack

\* Inserting one.
LEMMA InsertAfter ==
    ASSUME NEW tl, Sound(tl), NEW i \in DOMAIN tl.tracks, NEW K, NEW u, u = Swap(tl, i, K), Sound(u),
           NEW clip, NEW r \in InsertClip(u, tl.tracks[i].id, clip)
    PROVE  /\ r = Swap(tl, i, K \cup {clip}) /\ \A k \in K : k.id # clip.id
           /\ Plain(clip) => Sound(r)
<1>1. PICK j \in DOMAIN u.tracks :
          /\ u.tracks[j].id = tl.tracks[i].id /\ Unused(u, clip.id)
          /\ r = Swap(u, j, u.tracks[j].clips \cup {clip})
          /\ Plain(clip) => Sound(r)
 <2>1. PICK t : t = tl.tracks[i].id  OBVIOUS
 <2>2. \E j \in DOMAIN u.tracks :
          /\ u.tracks[j].id = t /\ Unused(u, clip.id)
          /\ r = Swap(u, j, u.tracks[j].clips \cup {clip})
          /\ Plain(clip) => Sound(r)
   BY <2>1, Inserts
 <2> QED  BY <2>1, <2>2
<1>2. j = i /\ u.tracks[i].clips = K /\ i \in DOMAIN u.tracks  BY <1>1, SameTrack
<1>3. \A k \in K : k.id # clip.id  BY <1>1, <1>2 DEF Unused
<1>4. Swap(u, i, K \cup {clip}) = Swap(tl, i, K \cup {clip})  BY SameTrack
<1> QED  BY <1>1, <1>2, <1>3, <1>4

\* Finding one.
LEMMA FoundAfter ==
    ASSUME NEW tl, Sound(tl), NEW i \in DOMAIN tl.tracks, NEW K, NEW u, u = Swap(tl, i, K), Sound(u),
           NEW id, NEW c \in Found(u, tl.tracks[i].id, id)
    PROVE  c \in K /\ c.id = id /\ Plain(c)
<1>1. PICK j : Place(u, tl.tracks[i].id, id, j, c)  BY FoundIs
<1>2. j = i  BY <1>1, SameTrack DEF Place
<1>3. c \in K /\ c.id = id  BY <1>1, <1>2, SameTrack DEF Place
<1>4. Plain(c)  BY <1>1 DEF Place, Sound, Filled
<1> QED  BY <1>3, <1>4

\* Putting the original clip back gives the timeline from before.
LEMMA Restored ==
    ASSUME NEW tl, Sound(tl), NEW track, NEW id, NEW i, NEW o, Place(tl, track, id, i, o),
           NEW K, NEW u, u = Swap(tl, i, K), Sound(u), {k \in K : k.id # id} = Others(tl, i, id),
           NEW r \in ReplaceClip(u, track, id, o)
    PROVE  r = tl
<1>1. /\ i \in DOMAIN tl.tracks /\ tl.tracks[i].id = track
      /\ Others(tl, i, id) \cup {o} = tl.tracks[i].clips
  BY PlaceIs DEF Place
<1>2. r = Swap(tl, i, {k \in K : k.id # id} \cup {o})  BY <1>1, ReplaceAfter
<1>3. r = Swap(tl, i, tl.tracks[i].clips)  BY <1>1, <1>2
<1> QED  BY <1>1, <1>3, SwapNothing DEF Sound

----------------------------------------------------------------------------
(* Each command has one result, which its undo state takes back            *)

Cut(clip, id, at, from, len) == [clip EXCEPT !.id = id, !.at = at, !.from = from, !.len = len]

\* Clip::withIdentityAndRanges keeps a clip plain.
LEMMA CutIs ==
    ASSUME NEW clip, Plain(clip), NEW id, NEW at, NEW from, NEW len,
           NEW r \in Resegment(clip, id, at, from, len)
    PROVE  r = Cut(clip, id, at, from, len) /\ Plain(r) /\ r.id = id
<1>1. r = Cut(clip, id, at, from, len)  BY DEF Resegment, Allowed, Cut
<1>2. PICK c : c = clip  OBVIOUS
<1>3. r = [id |-> id, kind |-> c.kind, asset |-> c.asset, at |-> at, len |-> len,
           from |-> from, env |-> c.env, look |-> c.look, text |-> c.text, cues |-> c.cues]
  BY <1>1, <1>2 DEF Plain, IsClip, Cut
<1>4. r.id = id /\ r.kind = c.kind /\ r.asset = c.asset /\ r.text = c.text /\ r.cues = c.cues /\ IsClip(r)
  BY <1>3 DEF IsClip
<1>5. Plain(r)  BY <1>2, <1>4 DEF Plain, Generated
<1> QED  BY <1>1, <1>4, <1>5

\* What a split makes.
SplitOf(tl, c, x, i, o, left, right) ==
    /\ Place(tl, c.track, c.clip, i, o)
    /\ left = Cut(o, o.id, o.at, o.from, c.at - o.at) /\ left.id = c.clip
    /\ right = Cut(o, c.right, c.at, o.from + (c.at - o.at), End(o) - c.at) /\ right.id = c.right
    /\ x = [tl |-> Swap(tl, i, (Others(tl, i, c.clip) \cup {left}) \cup {right}),
            undo |-> [original |-> o]]
    /\ Sound(x.tl)
    /\ \A k \in Others(tl, i, c.clip) \cup {left} : k.id # c.right

\* A split has a place and two clips for it.
LEMMA SplitIs ==
    ASSUME NEW tl, Sound(tl), NEW c, NEW x \in SplitClip(tl, c)
    PROVE  \E i, o, left, right : SplitOf(tl, c, x, i, o, left, right)
<1>1. PICK o \in Found(tl, c.track, c.clip) :
        \E t, left, right :
           /\ left \in Resegment(o, o.id, o.at, o.from, c.at - o.at)
           /\ right \in Resegment(o, c.right, c.at, o.from + (c.at - o.at), End(o) - c.at)
           /\ t \in ReplaceClip(tl, c.track, c.clip, left)
           /\ \E r \in InsertClip(t, c.track, right) : x = [tl |-> r, undo |-> [original |-> o]]
  BY DEF SplitClip, Then
<1>2. PICK t, left, right :
           /\ left \in Resegment(o, o.id, o.at, o.from, c.at - o.at)
           /\ right \in Resegment(o, c.right, c.at, o.from + (c.at - o.at), End(o) - c.at)
           /\ t \in ReplaceClip(tl, c.track, c.clip, left)
           /\ \E r \in InsertClip(t, c.track, right) : x = [tl |-> r, undo |-> [original |-> o]]
  BY <1>1
<1>3. PICK r \in InsertClip(t, c.track, right) : x = [tl |-> r, undo |-> [original |-> o]]  BY <1>2
<1>4. PICK i : Place(tl, c.track, c.clip, i, o)  BY FoundIs
<1>5. Plain(o) /\ o.id = c.clip /\ i \in DOMAIN tl.tracks /\ tl.tracks[i].id = c.track
  BY <1>4, PlaceIs DEF Place
<1>6. left = Cut(o, o.id, o.at, o.from, c.at - o.at) /\ Plain(left) /\ left.id = c.clip
  BY <1>2, <1>5, CutIs
<1>7. /\ right = Cut(o, c.right, c.at, o.from + (c.at - o.at), End(o) - c.at)
      /\ Plain(right) /\ right.id = c.right
  BY <1>2, <1>5, CutIs
<1> DEFINE K == Others(tl, i, c.clip) \cup {left}
<1>8. t = Swap(tl, i, K) /\ Sound(t)
 <2>1. PICK j, p : /\ Place(tl, c.track, c.clip, j, p)
                   /\ t = Swap(tl, j, Others(tl, j, c.clip) \cup {left})
                   /\ Plain(left) => Sound(t)
   BY <1>2, Replaces
 <2>2. j = i  BY <1>4, <2>1, OnePlace
 <2> QED  BY <1>6, <2>1, <2>2
<1> HIDE DEF K
<1>9. r = Swap(tl, i, K \cup {right}) /\ (\A k \in K : k.id # c.right) /\ Sound(r)
 <2>1. r \in InsertClip(t, tl.tracks[i].id, right) /\ i \in DOMAIN tl.tracks  BY <1>3, <1>5
 <2>2. r = Swap(tl, i, K \cup {right}) /\ (\A k \in K : k.id # right.id) /\ Sound(r)
  <3>1. Plain(right) /\ t = Swap(tl, i, K) /\ Sound(t)  BY <1>7, <1>8
  <3>2. r = Swap(tl, i, K \cup {right}) /\ (\A k \in K : k.id # right.id) /\ (Plain(right) => Sound(r))
    BY <2>1, <3>1, InsertAfter
  <3> QED  BY <3>1, <3>2
 <2> QED  BY <2>2, <1>7
<1>10. x = [tl |-> Swap(tl, i, K \cup {right}), undo |-> [original |-> o]] /\ Sound(x.tl)
  BY <1>3, <1>9
<1>11. SplitOf(tl, c, x, i, o, left, right)  BY <1>4, <1>6, <1>7, <1>9, <1>10 DEF K, SplitOf
<1> QED  BY <1>11

\* The results of a command are one, and going back from it leads to one timeline.
Linked(d, e, c, u) ==
    /\ Undo(e, c, u) \subseteq {d}
    /\ \A x \in Execute(d, c) : x = [tl |-> e, undo |-> u]

\* Split a clip, and join it again.
LEMMA SplitWorks ==
    ASSUME NEW tl, Sound(tl), NEW c, NEW x \in SplitClip(tl, c)
    PROVE  /\ Sound(x.tl)
           /\ \A y \in SplitClip(tl, c) : y = [tl |-> x.tl, undo |-> x.undo]
           /\ UndoSplit(x.tl, c, x.undo) \subseteq {tl}
<1>p. PICK i, o, left, right : SplitOf(tl, c, x, i, o, left, right)  BY SplitIs
<1>1. /\ Place(tl, c.track, c.clip, i, o)
      /\ left = Cut(o, o.id, o.at, o.from, c.at - o.at) /\ left.id = c.clip
      /\ right = Cut(o, c.right, c.at, o.from + (c.at - o.at), End(o) - c.at) /\ right.id = c.right
      /\ x = [tl |-> Swap(tl, i, (Others(tl, i, c.clip) \cup {left}) \cup {right}),
              undo |-> [original |-> o]]
      /\ Sound(x.tl)
      /\ \A k \in Others(tl, i, c.clip) \cup {left} : k.id # c.right
  BY <1>p DEF SplitOf
<1>2. ASSUME NEW y \in SplitClip(tl, c) PROVE y = [tl |-> x.tl, undo |-> x.undo]
 <2>p. PICK j, p, l, r : SplitOf(tl, c, y, j, p, l, r)  BY SplitIs
 <2>1. /\ Place(tl, c.track, c.clip, j, p)
       /\ l = Cut(p, p.id, p.at, p.from, c.at - p.at)
       /\ r = Cut(p, c.right, c.at, p.from + (c.at - p.at), End(p) - c.at)
       /\ y = [tl |-> Swap(tl, j, (Others(tl, j, c.clip) \cup {l}) \cup {r}),
               undo |-> [original |-> p]]
   BY <2>p DEF SplitOf
 <2>2. j = i /\ p = o  BY <1>1, <2>1, OnePlace
 <2>3. l = left /\ r = right  BY <1>1, <2>1, <2>2
 <2>4. y = x  BY <1>1, <2>1, <2>2, <2>3
 <2> QED  BY <1>1, <2>4
<1>3. ASSUME NEW r \in UndoSplit(x.tl, c, x.undo) PROVE r = tl
 <2>1. PICK t \in RemoveClip(x.tl, c.track, c.right) : r \in ReplaceClip(t, c.track, c.clip, o)
   BY <1>1 DEF UndoSplit
 <2> DEFINE K == (Others(tl, i, c.clip) \cup {left}) \cup {right}
 <2>2. x.tl = Swap(tl, i, K) /\ i \in DOMAIN tl.tracks /\ tl.tracks[i].id = c.track
   BY <1>1 DEF Place
 <2>3. {k \in K : k.id # c.right} = Others(tl, i, c.clip) \cup {left}  BY <1>1
 <2> HIDE DEF K
 <2>4. t = Swap(tl, i, {k \in K : k.id # c.right}) /\ Sound(t)
  <3>1. t \in RemoveClip(x.tl, tl.tracks[i].id, c.right) /\ Sound(x.tl)  BY <1>1, <2>1, <2>2
  <3> QED  BY <3>1, <2>2, RemoveAfter
 <2> DEFINE L == Others(tl, i, c.clip) \cup {left}
 <2>5. t = Swap(tl, i, L)  BY <2>3, <2>4
 <2>6. {k \in L : k.id # c.clip} = Others(tl, i, c.clip)  BY <1>1 DEF Others
 <2> HIDE DEF L
 <2> QED  BY <1>1, <2>1, <2>4, <2>5, <2>6, Restored
<1> QED  BY <1>1, <1>2, <1>3

TrimOf(tl, c, x, i, o, r) ==
    /\ Place(tl, c.track, c.clip, i, o)
    /\ r = IF c.leading THEN Cut(o, o.id, c.at, o.from + (c.at - o.at), End(o) - c.at)
                        ELSE Cut(o, o.id, o.at, o.from, c.at - o.at)
    /\ r.id = c.clip
    /\ x = [tl |-> Swap(tl, i, Others(tl, i, c.clip) \cup {r}), undo |-> [original |-> o]]
    /\ Sound(x.tl)

\* Replacing a clip of a place.
LEMMA ReplacedThere ==
    ASSUME NEW tl, Sound(tl), NEW track, NEW id, NEW i, NEW o, Place(tl, track, id, i, o),
           NEW clip, Plain(clip), NEW r \in ReplaceClip(tl, track, id, clip)
    PROVE  r = Swap(tl, i, Others(tl, i, id) \cup {clip}) /\ Sound(r) /\ clip.id = id
<1>1. PICK j, p : /\ Place(tl, track, id, j, p) /\ clip.id = id
                  /\ r = Swap(tl, j, Others(tl, j, id) \cup {clip})
                  /\ Plain(clip) => Sound(r)
  BY Replaces
<1>2. j = i  BY <1>1, OnePlace
<1>3. r = Swap(tl, i, Others(tl, i, id) \cup {clip})  BY <1>1, <1>2
<1>4. Sound(r) /\ clip.id = id  BY <1>1
<1> QED  BY <1>3, <1>4

\* A trim has a place and a clip for it.
LEMMA TrimIs ==
    ASSUME NEW tl, Sound(tl), NEW c, NEW x \in TrimClip(tl, c)
    PROVE  \E i, o, r : TrimOf(tl, c, x, i, o, r)
<1> DEFINE Shorter(o) ==
               IF c.leading THEN Resegment(o, o.id, c.at, o.from + (c.at - o.at), End(o) - c.at)
                            ELSE Resegment(o, o.id, o.at, o.from, c.at - o.at)
<1>1. PICK o \in Found(tl, c.track, c.clip) :
        \E r \in Shorter(o) : \E t \in ReplaceClip(tl, c.track, c.clip, r) : x = [tl |-> t, undo |-> [original |-> o]]
  BY DEF TrimClip, Then
<1>2. PICK r \in Shorter(o) : \E t \in ReplaceClip(tl, c.track, c.clip, r) : x = [tl |-> t, undo |-> [original |-> o]]
  BY <1>1
<1>3. PICK t \in ReplaceClip(tl, c.track, c.clip, r) : x = [tl |-> t, undo |-> [original |-> o]]
  BY <1>2
<1>4. PICK i : Place(tl, c.track, c.clip, i, o)  BY FoundIs
<1>5. Plain(o) /\ o.id = c.clip  BY <1>4, PlaceIs
<1>6. /\ r = IF c.leading THEN Cut(o, o.id, c.at, o.from + (c.at - o.at), End(o) - c.at)
                          ELSE Cut(o, o.id, o.at, o.from, c.at - o.at)
      /\ Plain(r) /\ r.id = c.clip
  BY <1>2, <1>5, CutIs
<1>7. Plain(r)  BY <1>6
<1>8. t = Swap(tl, i, Others(tl, i, c.clip) \cup {r}) /\ Sound(t)
 <2>1. t \in ReplaceClip(tl, c.track, c.clip, r)  BY <1>3
 <2> QED  BY <2>1, <1>4, <1>7, ReplacedThere
<1>9. TrimOf(tl, c, x, i, o, r)  BY <1>3, <1>4, <1>6, <1>8 DEF TrimOf
<1> QED  BY <1>9

\* Trim a clip, and lengthen it again.
LEMMA TrimWorks ==
    ASSUME NEW tl, Sound(tl), NEW c, NEW x \in TrimClip(tl, c)
    PROVE  /\ Sound(x.tl)
           /\ \A y \in TrimClip(tl, c) : y = [tl |-> x.tl, undo |-> x.undo]
           /\ UndoTrim(x.tl, c, x.undo) \subseteq {tl}
<1>p. PICK i, o, r : TrimOf(tl, c, x, i, o, r)  BY TrimIs
<1>1. /\ Place(tl, c.track, c.clip, i, o) /\ r.id = c.clip
      /\ r = IF c.leading THEN Cut(o, o.id, c.at, o.from + (c.at - o.at), End(o) - c.at)
                          ELSE Cut(o, o.id, o.at, o.from, c.at - o.at)
      /\ x = [tl |-> Swap(tl, i, Others(tl, i, c.clip) \cup {r}), undo |-> [original |-> o]]
      /\ Sound(x.tl)
  BY <1>p DEF TrimOf
<1>2. ASSUME NEW y \in TrimClip(tl, c) PROVE y = [tl |-> x.tl, undo |-> x.undo]
 <2>p. PICK j, p, s : TrimOf(tl, c, y, j, p, s)  BY TrimIs
 <2>1. /\ Place(tl, c.track, c.clip, j, p)
       /\ s = IF c.leading THEN Cut(p, p.id, c.at, p.from + (c.at - p.at), End(p) - c.at)
                           ELSE Cut(p, p.id, p.at, p.from, c.at - p.at)
       /\ y = [tl |-> Swap(tl, j, Others(tl, j, c.clip) \cup {s}), undo |-> [original |-> p]]
   BY <2>p DEF TrimOf
 <2>2. j = i /\ p = o  BY <1>1, <2>1, OnePlace
 <2>3. s = r  BY <1>1, <2>1, <2>2
 <2>4. y = x  BY <1>1, <2>1, <2>2, <2>3
 <2> QED  BY <1>1, <2>4
<1>3. ASSUME NEW t \in UndoTrim(x.tl, c, x.undo) PROVE t = tl
 <2>1. t \in ReplaceClip(x.tl, c.track, c.clip, o)  BY <1>1 DEF UndoTrim
 <2> DEFINE K == Others(tl, i, c.clip) \cup {r}
 <2>2. x.tl = Swap(tl, i, K) /\ Sound(x.tl)  BY <1>1
 <2>3. {k \in K : k.id # c.clip} = Others(tl, i, c.clip)  BY <1>1 DEF Others
 <2> HIDE DEF K
 <2> QED  BY <1>1, <2>1, <2>2, <2>3, Restored
<1> QED  BY <1>1, <1>2, <1>3

----------------------------------------------------------------------------
(* One field of one clip                                                   *)

Fields == {"look", "env", "text"}

\* Clip::withVisualTransform, withAudioEnvelope and withTitlePayload change one field.
LEMMA FieldIs ==
    ASSUME NEW o, Plain(o), NEW f \in Fields, NEW v, NEW k \in WithField(o, f, v)
    PROVE  /\ k = [o EXCEPT ![f] = v] /\ k.id = o.id /\ Plain(k)
           /\ [k EXCEPT ![f] = o[f]] = o
<1>1. PICK c : c = o  OBVIOUS
<1>2. c = [id |-> c.id, kind |-> c.kind, asset |-> c.asset, at |-> c.at, len |-> c.len,
           from |-> c.from, env |-> c.env, look |-> c.look, text |-> c.text, cues |-> c.cues]
  BY <1>1 DEF Plain, IsClip
<1>3. CASE f = "look"
  BY <1>1, <1>3, <1>2 DEF WithField, WithVisualTransform, Allowed, IsClip, Plain, Generated
<1>4. CASE f = "env"
  BY <1>1, <1>4, <1>2 DEF WithField, WithAudioEnvelope, Allowed, IsClip, Plain, Generated
<1>5. CASE f = "text"
  BY <1>1, <1>5, <1>2 DEF WithField, WithTitlePayload, Allowed, IsClip, Plain, Generated
<1> QED  BY <1>3, <1>4, <1>5 DEF Fields

SetOf(tl, c, x, i, o, k) ==
    /\ Place(tl, c.track, c.clip, i, o)
    /\ k = [o EXCEPT ![c.field] = c.value]
    /\ k.id = c.clip /\ Plain(k) /\ [k EXCEPT ![c.field] = o[c.field]] = o
    /\ x = [tl |-> Swap(tl, i, Others(tl, i, c.clip) \cup {k}), undo |-> [previous |-> o[c.field]]]
    /\ Sound(x.tl)

\* A field is set in a place.
LEMMA SetIs ==
    ASSUME NEW tl, Sound(tl), NEW c, c.field \in Fields, NEW x \in SetField(tl, c)
    PROVE  \E i, o, k : SetOf(tl, c, x, i, o, k)
<1>1. PICK o \in Found(tl, c.track, c.clip) :
        \E k \in WithField(o, c.field, c.value) :
            \E t \in ReplaceClip(tl, c.track, c.clip, k) : x = [tl |-> t, undo |-> [previous |-> o[c.field]]]
  BY DEF SetField, Then
<1>2. PICK k \in WithField(o, c.field, c.value) :
            \E t \in ReplaceClip(tl, c.track, c.clip, k) : x = [tl |-> t, undo |-> [previous |-> o[c.field]]]
  BY <1>1
<1>3. PICK t \in ReplaceClip(tl, c.track, c.clip, k) : x = [tl |-> t, undo |-> [previous |-> o[c.field]]]
  BY <1>2
<1>4. PICK i : Place(tl, c.track, c.clip, i, o)  BY FoundIs
<1>5. Plain(o) /\ o.id = c.clip  BY <1>4, PlaceIs
<1>6. /\ k = [o EXCEPT ![c.field] = c.value] /\ k.id = o.id /\ Plain(k)
      /\ [k EXCEPT ![c.field] = o[c.field]] = o
  BY <1>2, <1>5, FieldIs
<1>7. Plain(k)  BY <1>6
<1>8. t = Swap(tl, i, Others(tl, i, c.clip) \cup {k}) /\ Sound(t)
  BY <1>3, <1>4, <1>7, ReplacedThere
<1>9. SetOf(tl, c, x, i, o, k)  BY <1>3, <1>4, <1>5, <1>6, <1>8 DEF SetOf
<1> QED  BY <1>9

\* Set a field, and set it back.
LEMMA SetWorks ==
    ASSUME NEW tl, Sound(tl), NEW c, c.field \in Fields, NEW x \in SetField(tl, c)
    PROVE  /\ Sound(x.tl)
           /\ \A y \in SetField(tl, c) : y = [tl |-> x.tl, undo |-> x.undo]
           /\ UndoSetField(x.tl, c, x.undo) \subseteq {tl}
<1>p. PICK i, o, k : SetOf(tl, c, x, i, o, k)  BY SetIs
<1>1. /\ Place(tl, c.track, c.clip, i, o) /\ k.id = c.clip /\ Plain(k)
      /\ k = [o EXCEPT ![c.field] = c.value] /\ [k EXCEPT ![c.field] = o[c.field]] = o
      /\ x = [tl |-> Swap(tl, i, Others(tl, i, c.clip) \cup {k}), undo |-> [previous |-> o[c.field]]]
      /\ Sound(x.tl)
  BY <1>p DEF SetOf
<1>2. ASSUME NEW y \in SetField(tl, c) PROVE y = [tl |-> x.tl, undo |-> x.undo]
 <2>p. PICK j, p, s : SetOf(tl, c, y, j, p, s)  BY SetIs
 <2>1. /\ Place(tl, c.track, c.clip, j, p) /\ s = [p EXCEPT ![c.field] = c.value]
       /\ y = [tl |-> Swap(tl, j, Others(tl, j, c.clip) \cup {s}), undo |-> [previous |-> p[c.field]]]
   BY <2>p DEF SetOf
 <2>2. j = i /\ p = o  BY <1>1, <2>1, OnePlace
 <2>3. s = k  BY <1>1, <2>1, <2>2
 <2>4. y = x  BY <1>1, <2>1, <2>2, <2>3
 <2> QED  BY <1>1, <2>4
<1>3. ASSUME NEW t \in UndoSetField(x.tl, c, x.undo) PROVE t = tl
 <2> DEFINE K == Others(tl, i, c.clip) \cup {k}
 <2>0. x.undo.previous = o[c.field]  BY <1>1
 <2>1. PICK p \in Found(x.tl, c.track, c.clip) :
         \E s \in WithField(p, c.field, o[c.field]) : t \in ReplaceClip(x.tl, c.track, c.clip, s)
   BY <2>0 DEF UndoSetField
 <2>2. x.tl = Swap(tl, i, K) /\ Sound(x.tl) /\ i \in DOMAIN tl.tracks /\ tl.tracks[i].id = c.track
   BY <1>1 DEF Place
 <2>3. {e \in K : e.id # c.clip} = Others(tl, i, c.clip)  BY <1>1 DEF Others
 <2>4. \A e \in K : e.id = c.clip => e = k  BY <1>1 DEF Others
 <2> HIDE DEF K
 <2>5. p \in K /\ p.id = c.clip
  <3>1. PICK w : w = x.tl  OBVIOUS
  <3>2. p \in Found(w, tl.tracks[i].id, c.clip) /\ i \in DOMAIN tl.tracks  BY <2>1, <2>2, <3>1
  <3>3. w = Swap(tl, i, K) /\ Sound(w)  BY <2>2, <3>1
  <3>4. p \in K /\ p.id = c.clip /\ Plain(p)  BY <3>2, <3>3, FoundAfter
  <3> QED  BY <3>4
 <2>6. p = k  BY <2>4, <2>5
 <2>7. PICK s \in WithField(k, c.field, o[c.field]) : t \in ReplaceClip(x.tl, c.track, c.clip, s)
   BY <2>1, <2>6
 <2>8. Plain(k)  BY <1>1
 <2>9. s = [k EXCEPT ![c.field] = o[c.field]]  BY <2>7, <2>8, FieldIs
 <2>10. t \in ReplaceClip(x.tl, c.track, c.clip, o)  BY <1>1, <2>7, <2>9
 <2> QED  BY <1>1, <2>2, <2>3, <2>10, Restored
<1> QED  BY <1>1, <1>2, <1>3

----------------------------------------------------------------------------
(* Removing a generated clip                                               *)

\* A clip put back where it was removed.
LEMMA Reinserted ==
    ASSUME NEW tl, Sound(tl), NEW track, NEW id, NEW i, NEW o, Place(tl, track, id, i, o),
           NEW u, u = Swap(tl, i, Others(tl, i, id)), Sound(u), NEW r \in InsertClip(u, track, o)
    PROVE  r = tl
<1>1. /\ i \in DOMAIN tl.tracks /\ tl.tracks[i].id = track
      /\ Others(tl, i, id) \cup {o} = tl.tracks[i].clips
  BY PlaceIs DEF Place
<1>2. r \in InsertClip(u, tl.tracks[i].id, o)  BY <1>1
<1>3. r = Swap(tl, i, Others(tl, i, id) \cup {o})
 <2> DEFINE K == Others(tl, i, id)
 <2>1. u = Swap(tl, i, K)  OBVIOUS
 <2> HIDE DEF K
 <2>2. /\ r = Swap(tl, i, K \cup {o}) /\ \A k \in K : k.id # o.id
       /\ Plain(o) => Sound(r)
   BY <1>1, <1>2, <2>1, InsertAfter
 <2> QED  BY <2>2 DEF K
<1>4. r = Swap(tl, i, tl.tracks[i].clips)  BY <1>1, <1>3
<1> QED  BY <1>1, <1>4, SwapNothing DEF Sound

\* Removing the clip of a place.
LEMMA RemovedThere ==
    ASSUME NEW tl, Sound(tl), NEW track, NEW id, NEW i, NEW o, Place(tl, track, id, i, o),
           NEW r \in RemoveClip(tl, track, id)
    PROVE  r = Swap(tl, i, Others(tl, i, id)) /\ Sound(r)
<1>1. PICK j, p : Place(tl, track, id, j, p) /\ r = Swap(tl, j, Others(tl, j, id)) /\ Sound(r)
  BY Removes
<1>2. j = i  BY <1>1, OnePlace
<1> QED  BY <1>1, <1>2

RemoveOf(tl, c, x, i, o) ==
    /\ Place(tl, c.track, c.clip, i, o)
    /\ x = [tl |-> Swap(tl, i, Others(tl, i, c.clip)), undo |-> [removed |-> o]]
    /\ Sound(x.tl)

\* A clip is removed from a place.
LEMMA RemoveIs ==
    ASSUME NEW tl, Sound(tl), NEW c, NEW x \in RemoveGenerated(tl, c)
    PROVE  \E i, o : RemoveOf(tl, c, x, i, o)
<1>1. PICK o \in Found(tl, c.track, c.clip) :
        \E t \in RemoveClip(tl, c.track, c.clip) : x = [tl |-> t, undo |-> [removed |-> o]]
  BY DEF RemoveGenerated, Then
<1>2. PICK t \in RemoveClip(tl, c.track, c.clip) : x = [tl |-> t, undo |-> [removed |-> o]]  BY <1>1
<1>3. PICK i : Place(tl, c.track, c.clip, i, o)  BY FoundIs
<1>4. t = Swap(tl, i, Others(tl, i, c.clip)) /\ Sound(t)  BY <1>2, <1>3, RemovedThere
<1>5. RemoveOf(tl, c, x, i, o)  BY <1>2, <1>3, <1>4 DEF RemoveOf
<1> QED  BY <1>5

\* Remove a generated clip, and insert it again.
LEMMA RemoveWorks ==
    ASSUME NEW tl, Sound(tl), NEW c, NEW x \in RemoveGenerated(tl, c)
    PROVE  /\ Sound(x.tl)
           /\ \A y \in RemoveGenerated(tl, c) : y = [tl |-> x.tl, undo |-> x.undo]
           /\ UndoRemove(x.tl, c, x.undo) \subseteq {tl}
<1>p. PICK i, o : RemoveOf(tl, c, x, i, o)  BY RemoveIs
<1>1. /\ Place(tl, c.track, c.clip, i, o)
      /\ x = [tl |-> Swap(tl, i, Others(tl, i, c.clip)), undo |-> [removed |-> o]]
      /\ Sound(x.tl)
  BY <1>p DEF RemoveOf
<1>2. ASSUME NEW y \in RemoveGenerated(tl, c) PROVE y = [tl |-> x.tl, undo |-> x.undo]
 <2>p. PICK j, p : RemoveOf(tl, c, y, j, p)  BY RemoveIs
 <2>1. /\ Place(tl, c.track, c.clip, j, p)
       /\ y = [tl |-> Swap(tl, j, Others(tl, j, c.clip)), undo |-> [removed |-> p]]
   BY <2>p DEF RemoveOf
 <2>2. j = i /\ p = o  BY <1>1, <2>1, OnePlace
 <2>3. y = x  BY <1>1, <2>1, <2>2
 <2> QED  BY <1>1, <2>3
<1>3. ASSUME NEW t \in UndoRemove(x.tl, c, x.undo) PROVE t = tl  BY <1>1, Reinserted DEF UndoRemove
<1> QED  BY <1>1, <1>2, <1>3

----------------------------------------------------------------------------
(* Captions                                                                *)

\* Clip::withCaptionCues changes the cues and nothing else.
LEMMA CuesAre ==
    ASSUME NEW o, Plain(o), NEW cues, NEW k \in WithCues(o, cues)
    PROVE  /\ k = [o EXCEPT !.cues = cues] /\ k.id = o.id /\ k.cues = cues /\ Plain(k)
           /\ \A v : [k EXCEPT !.cues = v] = [o EXCEPT !.cues = v]
           /\ [o EXCEPT !.cues = o.cues] = o
<1>1. PICK c : c = o  OBVIOUS
<1>2. c = [id |-> c.id, kind |-> c.kind, asset |-> c.asset, at |-> c.at, len |-> c.len,
           from |-> c.from, env |-> c.env, look |-> c.look, text |-> c.text, cues |-> c.cues]
  BY <1>1 DEF Plain, IsClip
<1>3. k = [c EXCEPT !.cues = cues] /\ ValidCues(cues, c.len)  BY <1>1 DEF WithCues, Allowed
<1>4. k = [id |-> c.id, kind |-> c.kind, asset |-> c.asset, at |-> c.at, len |-> c.len,
           from |-> c.from, env |-> c.env, look |-> c.look, text |-> c.text, cues |-> cues]
  BY <1>2, <1>3
<1>5. /\ k.id = c.id /\ k.kind = c.kind /\ k.asset = c.asset /\ k.text = c.text /\ k.cues = cues
      /\ IsClip(k)
  BY <1>4 DEF IsClip
<1>6. \A q, r \in cues : q # r => q.id # r.id  BY <1>3 DEF ValidCues
<1>7. Plain(k)  BY <1>1, <1>5, <1>6 DEF Plain, Generated
<1>8. ASSUME NEW v PROVE [k EXCEPT !.cues = v] = [c EXCEPT !.cues = v]  BY <1>2, <1>4
<1>9. [c EXCEPT !.cues = c.cues] = c  BY <1>2
<1> QED  BY <1>1, <1>3, <1>5, <1>7, <1>8, <1>9

\* A cue of a plain clip is named once.
LEMMA OneCue ==
    ASSUME NEW o, Plain(o), NEW id, NEW q \in CueOf(o, id), NEW r \in CueOf(o, id)
    PROVE  q = r
BY DEF CueOf, Plain

EditCueOf(tl, c, x, i, o, q, k) ==
    /\ Place(tl, CaptionTrack, c.clip, i, o)
    /\ q \in CueOf(o, c.cue.id)
    /\ k \in WithCues(o, (o.cues \ {q}) \cup {c.cue}) /\ k.id = c.clip
    /\ k = [o EXCEPT !.cues = (o.cues \ {q}) \cup {c.cue}]
    /\ x = [tl |-> Swap(tl, i, Others(tl, i, c.clip) \cup {k}), undo |-> [previous |-> q]]
    /\ Sound(x.tl)

\* A cue is edited in a place.
LEMMA EditCueIs ==
    ASSUME NEW tl, Sound(tl), NEW c, NEW x \in EditCaptionCue(tl, c)
    PROVE  \E i, o, q, k : EditCueOf(tl, c, x, i, o, q, k)
<1>1. PICK o \in Found(tl, CaptionTrack, c.clip) :
        \E q \in CueOf(o, c.cue.id) :
            \E k \in WithCues(o, (o.cues \ {q}) \cup {c.cue}) :
                \E t \in ReplaceClip(tl, CaptionTrack, c.clip, k) : x = [tl |-> t, undo |-> [previous |-> q]]
  BY DEF EditCaptionCue, Then
<1>2. PICK q \in CueOf(o, c.cue.id) :
            \E k \in WithCues(o, (o.cues \ {q}) \cup {c.cue}) :
                \E t \in ReplaceClip(tl, CaptionTrack, c.clip, k) : x = [tl |-> t, undo |-> [previous |-> q]]
  BY <1>1
<1>3. PICK k \in WithCues(o, (o.cues \ {q}) \cup {c.cue}) :
                \E t \in ReplaceClip(tl, CaptionTrack, c.clip, k) : x = [tl |-> t, undo |-> [previous |-> q]]
  BY <1>2
<1>4. PICK t \in ReplaceClip(tl, CaptionTrack, c.clip, k) : x = [tl |-> t, undo |-> [previous |-> q]]
  BY <1>3
<1>5. PICK i : Place(tl, CaptionTrack, c.clip, i, o)  BY FoundIs
<1>6. Plain(o) /\ o.id = c.clip  BY <1>5, PlaceIs
<1> DEFINE X == (o.cues \ {q}) \cup {c.cue}
<1>7. k \in WithCues(o, X)  BY <1>3
<1> HIDE DEF X
<1>8. k = [o EXCEPT !.cues = X] /\ k.id = o.id /\ Plain(k)  BY <1>6, <1>7, CuesAre
<1>9. t = Swap(tl, i, Others(tl, i, c.clip) \cup {k}) /\ Sound(t)
 <2>1. t \in ReplaceClip(tl, CaptionTrack, c.clip, k) /\ Plain(k)  BY <1>4, <1>8
 <2> QED  BY <2>1, <1>5, ReplacedThere
<1>10. EditCueOf(tl, c, x, i, o, q, k)  BY <1>2, <1>4, <1>5, <1>6, <1>7, <1>8, <1>9 DEF EditCueOf, X
<1> QED  BY <1>10

\* The clip found where it was put.
LEMMA FoundThere ==
    ASSUME NEW tl, Sound(tl), NEW track, NEW id, NEW i, NEW o, Place(tl, track, id, i, o),
           NEW k, k.id = id, NEW u, u = Swap(tl, i, Others(tl, i, id) \cup {k}), Sound(u),
           NEW p \in Found(u, track, id)
    PROVE  p = k /\ Plain(k)
<1> DEFINE K == Others(tl, i, id) \cup {k}
<1>1. u = Swap(tl, i, K) /\ i \in DOMAIN tl.tracks /\ tl.tracks[i].id = track  BY DEF Place
<1>2. \A e \in K : e.id = id => e = k  BY DEF Others
<1> HIDE DEF K
<1>3. p \in Found(u, tl.tracks[i].id, id)  BY <1>1
<1>4. p \in K /\ p.id = id /\ Plain(p)  BY <1>1, <1>3, FoundAfter
<1> QED  BY <1>2, <1>4

\* The original put back where the clip is.
LEMMA PutBack ==
    ASSUME NEW tl, Sound(tl), NEW track, NEW id, NEW i, NEW o, Place(tl, track, id, i, o),
           NEW k, k.id = id, NEW u, u = Swap(tl, i, Others(tl, i, id) \cup {k}), Sound(u),
           NEW r \in ReplaceClip(u, track, id, o)
    PROVE  r = tl
<1> DEFINE K == Others(tl, i, id) \cup {k}
<1>1. u = Swap(tl, i, K)  OBVIOUS
<1>2. {e \in K : e.id # id} = Others(tl, i, id)  BY DEF Others
<1> HIDE DEF K
<1> QED  BY <1>1, <1>2, Restored

\* Edit a cue, and edit it back.
LEMMA EditCueWorks ==
    ASSUME NEW tl, Sound(tl), NEW c, NEW x \in EditCaptionCue(tl, c)
    PROVE  /\ Sound(x.tl)
           /\ \A y \in EditCaptionCue(tl, c) : y = [tl |-> x.tl, undo |-> x.undo]
           /\ UndoEditCue(x.tl, c, x.undo) \subseteq {tl}
<1>p. PICK i, o, q, k : EditCueOf(tl, c, x, i, o, q, k)  BY EditCueIs
<1> DEFINE X == (o.cues \ {q}) \cup {c.cue}
<1>1. /\ Place(tl, CaptionTrack, c.clip, i, o) /\ q \in CueOf(o, c.cue.id) /\ k.id = c.clip
      /\ k \in WithCues(o, X) /\ k = [o EXCEPT !.cues = X]
      /\ x = [tl |-> Swap(tl, i, Others(tl, i, c.clip) \cup {k}), undo |-> [previous |-> q]]
      /\ Sound(x.tl)
  BY <1>p DEF EditCueOf
<1>2. Plain(o)  BY <1>1, PlaceIs
<1>3. ASSUME NEW y \in EditCaptionCue(tl, c) PROVE y = [tl |-> x.tl, undo |-> x.undo]
 <2>p. PICK j, p, r, s : EditCueOf(tl, c, y, j, p, r, s)  BY EditCueIs
 <2>1. /\ Place(tl, CaptionTrack, c.clip, j, p) /\ r \in CueOf(p, c.cue.id)
       /\ s = [p EXCEPT !.cues = (p.cues \ {r}) \cup {c.cue}]
       /\ y = [tl |-> Swap(tl, j, Others(tl, j, c.clip) \cup {s}), undo |-> [previous |-> r]]
   BY <2>p DEF EditCueOf
 <2>2. j = i /\ p = o  BY <1>1, <2>1, OnePlace
 <2>3. r = q  BY <1>1, <1>2, <2>1, <2>2, OneCue
 <2>4. s = k  BY <1>1, <2>1, <2>2, <2>3
 <2>5. y = x  BY <1>1, <2>1, <2>2, <2>3, <2>4
 <2> QED  BY <1>1, <2>5
<1>4. ASSUME NEW t \in UndoEditCue(x.tl, c, x.undo) PROVE t = tl
 <2>0. x.undo.previous = q  BY <1>1
 <2>1. PICK p \in Found(x.tl, CaptionTrack, c.clip) :
         \E r \in CueOf(p, c.cue.id) : \E s \in WithCues(p, (p.cues \ {r}) \cup {q}) :
             t \in ReplaceClip(x.tl, CaptionTrack, c.clip, s)
   BY <2>0 DEF UndoEditCue
 <2>2. p = k /\ Plain(k)
  <3>1. PICK w : w = x.tl  OBVIOUS
  <3>2. w = Swap(tl, i, Others(tl, i, c.clip) \cup {k}) /\ Sound(w) /\ p \in Found(w, CaptionTrack, c.clip)
    BY <1>1, <2>1, <3>1
  <3>3. Place(tl, CaptionTrack, c.clip, i, o) /\ k.id = c.clip  BY <1>1
  <3>4. p = k /\ Plain(k)  BY <3>2, <3>3, FoundThere
  <3> QED  BY <3>4
 <2>3. PICK r \in CueOf(k, c.cue.id) : \E s \in WithCues(k, (k.cues \ {r}) \cup {q}) :
             t \in ReplaceClip(x.tl, CaptionTrack, c.clip, s)
   BY <2>1, <2>2
 <2>4. PICK s \in WithCues(k, (k.cues \ {r}) \cup {q}) : t \in ReplaceClip(x.tl, CaptionTrack, c.clip, s)
   BY <2>3
 <2>5. k.cues = X /\ (\A v : [k EXCEPT !.cues = v] = [o EXCEPT !.cues = v]) /\ [o EXCEPT !.cues = o.cues] = o
  <3>1. PICK Y : Y = X  OBVIOUS
  <3>2. k \in WithCues(o, Y)  BY <1>1, <3>1
  <3>3. /\ k = [o EXCEPT !.cues = Y] /\ k.id = o.id /\ k.cues = Y /\ Plain(k)
        /\ \A v : [k EXCEPT !.cues = v] = [o EXCEPT !.cues = v]
        /\ [o EXCEPT !.cues = o.cues] = o
    BY <1>2, <3>2, CuesAre
  <3> QED  BY <3>1, <3>3
 <2>6. r = c.cue  BY <2>5, <2>2, <2>3, OneCue DEF CueOf
 <2>7. (k.cues \ {r}) \cup {q} = o.cues  BY <1>1, <1>2, <2>5, <2>6 DEF CueOf, Plain
 <2>8. s \in WithCues(k, o.cues)  BY <2>4, <2>7
 <2>9. s = [k EXCEPT !.cues = o.cues]  BY <2>2, <2>8, CuesAre
 <2>10. s = o  BY <2>5, <2>9
 <2>11. t \in ReplaceClip(x.tl, CaptionTrack, c.clip, o)  BY <2>4, <2>10
 <2> HIDE DEF X
 <2>12. PICK w : w = x.tl  OBVIOUS
 <2>13. w = Swap(tl, i, Others(tl, i, c.clip) \cup {k}) /\ Sound(w) /\ t \in ReplaceClip(w, CaptionTrack, c.clip, o)
   BY <1>1, <2>11, <2>12
 <2>14. Place(tl, CaptionTrack, c.clip, i, o) /\ k.id = c.clip  BY <1>1
 <2> QED  BY <2>13, <2>14, PutBack
<1> QED  BY <1>1, <1>3, <1>4

DropCueOf(tl, c, x, i, o, q) ==
    /\ Place(tl, CaptionTrack, c.clip, i, o)
    /\ q \in CueOf(o, c.cue)
    /\ \/ /\ o.cues = {q}
          /\ x = [tl |-> Swap(tl, i, Others(tl, i, c.clip)), undo |-> [previous |-> q, removed |-> {o}]]
       \/ /\ o.cues # {q}
          /\ \E k \in WithCues(o, o.cues \ {q}) :
                x = [tl |-> Swap(tl, i, Others(tl, i, c.clip) \cup {k}),
                     undo |-> [previous |-> q, removed |-> {}]]
    /\ Sound(x.tl)

\* A cue is dropped in a place.
LEMMA DropCueIs ==
    ASSUME NEW tl, Sound(tl), NEW c, NEW x \in RemoveCaptionCue(tl, c)
    PROVE  \E i, o, q : DropCueOf(tl, c, x, i, o, q)
<1>1. PICK o \in Found(tl, CaptionTrack, c.clip) :
        \E q \in CueOf(o, c.cue) :
            \/ /\ o.cues = {q}
               /\ \E t \in RemoveClip(tl, CaptionTrack, c.clip) :
                      x = [tl |-> t, undo |-> [previous |-> q, removed |-> {o}]]
            \/ /\ o.cues # {q}
               /\ \E k \in WithCues(o, o.cues \ {q}) :
                      \E t \in ReplaceClip(tl, CaptionTrack, c.clip, k) :
                          x = [tl |-> t, undo |-> [previous |-> q, removed |-> {}]]
  BY DEF RemoveCaptionCue, Then
<1>2. PICK q \in CueOf(o, c.cue) :
            \/ /\ o.cues = {q}
               /\ \E t \in RemoveClip(tl, CaptionTrack, c.clip) :
                      x = [tl |-> t, undo |-> [previous |-> q, removed |-> {o}]]
            \/ /\ o.cues # {q}
               /\ \E k \in WithCues(o, o.cues \ {q}) :
                      \E t \in ReplaceClip(tl, CaptionTrack, c.clip, k) :
                          x = [tl |-> t, undo |-> [previous |-> q, removed |-> {}]]
  BY <1>1
<1>3. PICK i : Place(tl, CaptionTrack, c.clip, i, o)  BY FoundIs
<1>4. Plain(o) /\ o.id = c.clip  BY <1>3, PlaceIs
<1>5. CASE o.cues = {q}
 <2>1. PICK t \in RemoveClip(tl, CaptionTrack, c.clip) :
                     x = [tl |-> t, undo |-> [previous |-> q, removed |-> {o}]]
   BY <1>2, <1>5
 <2>2. t = Swap(tl, i, Others(tl, i, c.clip)) /\ Sound(t)  BY <2>1, <1>3, RemovedThere
 <2>3. DropCueOf(tl, c, x, i, o, q)  BY <1>2, <1>3, <1>5, <2>1, <2>2 DEF DropCueOf
 <2> QED  BY <2>3
<1>6. CASE o.cues # {q}
 <2>1. PICK k \in WithCues(o, o.cues \ {q}) :
                     \E t \in ReplaceClip(tl, CaptionTrack, c.clip, k) :
                         x = [tl |-> t, undo |-> [previous |-> q, removed |-> {}]]
   BY <1>2, <1>6
 <2>2. PICK t \in ReplaceClip(tl, CaptionTrack, c.clip, k) :
                         x = [tl |-> t, undo |-> [previous |-> q, removed |-> {}]]
   BY <2>1
 <2>3. Plain(k)
  <3>1. PICK Y : Y = o.cues \ {q}  OBVIOUS
  <3>2. k \in WithCues(o, Y)  BY <2>1, <3>1
  <3>3. k = [o EXCEPT !.cues = Y] /\ k.id = o.id /\ k.cues = Y /\ Plain(k)  BY <1>4, <3>2, CuesAre
  <3> QED  BY <3>3
 <2>4. t = Swap(tl, i, Others(tl, i, c.clip) \cup {k}) /\ Sound(t)
   BY <2>2, <1>3, <2>3, ReplacedThere
 <2>5. DropCueOf(tl, c, x, i, o, q)  BY <1>2, <1>3, <1>6, <2>1, <2>2, <2>4 DEF DropCueOf
 <2> QED  BY <2>5
<1> QED  BY <1>5, <1>6

\* Drop a cue, with its clip if it is the last, and add it again.
LEMMA DropCueWorks ==
    ASSUME NEW tl, Sound(tl), NEW c, NEW x \in RemoveCaptionCue(tl, c)
    PROVE  /\ Sound(x.tl)
           /\ \A y \in RemoveCaptionCue(tl, c) : y = [tl |-> x.tl, undo |-> x.undo]
           /\ UndoDropCue(x.tl, c, x.undo) \subseteq {tl}
<1>p. PICK i, o, q : DropCueOf(tl, c, x, i, o, q)  BY DropCueIs
<1>1. Place(tl, CaptionTrack, c.clip, i, o) /\ q \in CueOf(o, c.cue) /\ Sound(x.tl)
  BY <1>p DEF DropCueOf
<1>2. Plain(o) /\ o.id = c.clip  BY <1>1, PlaceIs
<1>3. q \in o.cues  BY <1>1 DEF CueOf
<1>4. ASSUME NEW y \in RemoveCaptionCue(tl, c)
      PROVE  DropCueOf(tl, c, y, i, o, q)
 <2>1. PICK j, p, r : DropCueOf(tl, c, y, j, p, r)  BY DropCueIs
 <2>2. Place(tl, CaptionTrack, c.clip, j, p) /\ r \in CueOf(p, c.cue)  BY <2>1 DEF DropCueOf
 <2>3. j = i /\ p = o  BY <1>1, <2>2, OnePlace
 <2>4. r = q  BY <1>1, <1>2, <2>2, <2>3, OneCue
 <2> QED  BY <2>1, <2>3, <2>4
<1>5. CASE o.cues = {q}
 <2>1. x = [tl |-> Swap(tl, i, Others(tl, i, c.clip)), undo |-> [previous |-> q, removed |-> {o}]]
   BY <1>p, <1>5 DEF DropCueOf
 <2>2. ASSUME NEW y \in RemoveCaptionCue(tl, c) PROVE y = [tl |-> x.tl, undo |-> x.undo]
   BY <1>4, <1>5, <2>1 DEF DropCueOf
 <2>3. ASSUME NEW t \in UndoDropCue(x.tl, c, x.undo) PROVE t = tl
  <3>1. PICK w : w = x.tl  OBVIOUS
  <3>2. x.undo.removed = {o}  BY <2>1
  <3>3. t \in InsertClip(w, CaptionTrack, o)  BY <3>1, <3>2 DEF UndoDropCue
  <3>4. w = Swap(tl, i, Others(tl, i, c.clip)) /\ Sound(w)  BY <1>1, <2>1, <3>1
  <3> QED  BY <1>1, <3>3, <3>4, Reinserted
 <2> QED  BY <1>1, <2>2, <2>3
<1>6. CASE o.cues # {q}
 <2>1. PICK k \in WithCues(o, o.cues \ {q}) :
               x = [tl |-> Swap(tl, i, Others(tl, i, c.clip) \cup {k}),
                    undo |-> [previous |-> q, removed |-> {}]]
   BY <1>p, <1>6 DEF DropCueOf
 <2>k. /\ k = [o EXCEPT !.cues = o.cues \ {q}] /\ k.id = o.id /\ k.cues = o.cues \ {q} /\ Plain(k)
       /\ (\A v : [k EXCEPT !.cues = v] = [o EXCEPT !.cues = v])
       /\ [o EXCEPT !.cues = o.cues] = o
  <3>1. PICK X : X = o.cues \ {q}  OBVIOUS
  <3>2. k \in WithCues(o, X)  BY <2>1, <3>1
  <3>3. /\ k = [o EXCEPT !.cues = X] /\ k.id = o.id /\ k.cues = X /\ Plain(k)
        /\ (\A v : [k EXCEPT !.cues = v] = [o EXCEPT !.cues = v])
        /\ [o EXCEPT !.cues = o.cues] = o
    BY <1>2, <3>2, CuesAre
  <3> QED  BY <3>1, <3>3
 <2>2. ASSUME NEW y \in RemoveCaptionCue(tl, c) PROVE y = [tl |-> x.tl, undo |-> x.undo]
  <3>1. DropCueOf(tl, c, y, i, o, q)  BY <1>4
  <3>2. PICK s \in WithCues(o, o.cues \ {q}) :
              y = [tl |-> Swap(tl, i, Others(tl, i, c.clip) \cup {s}),
                   undo |-> [previous |-> q, removed |-> {}]]
    BY <1>6, <3>1 DEF DropCueOf
  <3>3. s = k
   <4>1. PICK X : X = o.cues \ {q}  OBVIOUS
   <4>2. s \in WithCues(o, X)  BY <3>2, <4>1
   <4>3. s = [o EXCEPT !.cues = X]  BY <1>2, <4>2, CuesAre
   <4> QED  BY <2>k, <4>1, <4>3
  <3> QED  BY <2>1, <3>2, <3>3
 <2>3. ASSUME NEW t \in UndoDropCue(x.tl, c, x.undo) PROVE t = tl
  <3>1. PICK w : w = x.tl  OBVIOUS
  <3>2. x.undo.removed = {} /\ x.undo.previous = q  BY <2>1
  <3>3. PICK p \in Found(w, CaptionTrack, c.clip) :
           \E s \in WithCues(p, p.cues \cup {q}) : t \in ReplaceClip(w, CaptionTrack, c.clip, s)
    BY <3>1, <3>2 DEF UndoDropCue
  <3>4. w = Swap(tl, i, Others(tl, i, c.clip) \cup {k}) /\ Sound(w) /\ k.id = c.clip
    BY <1>1, <1>2, <2>1, <2>k, <3>1
  <3>5. p = k /\ Plain(k)  BY <1>1, <3>4, <3>3, FoundThere
  <3>6. k.cues \cup {q} = o.cues  BY <1>3, <2>k
  <3>7. PICK s \in WithCues(k, o.cues) : t \in ReplaceClip(w, CaptionTrack, c.clip, s)
    BY <3>3, <3>5, <3>6
  <3>8. s = [k EXCEPT !.cues = o.cues]
   <4>1. PICK Y : Y = o.cues  OBVIOUS
   <4>2. s \in WithCues(k, Y) /\ Plain(k)  BY <2>k, <3>7, <4>1
   <4>3. s = [k EXCEPT !.cues = Y] /\ s.id = k.id /\ s.cues = Y /\ Plain(s)  BY <4>2, CuesAre
   <4> QED  BY <4>1, <4>3
  <3>9. s = o  BY <2>k, <3>8
  <3>10. t \in ReplaceClip(w, CaptionTrack, c.clip, o)  BY <3>7, <3>9
  <3>11. Place(tl, CaptionTrack, c.clip, i, o) /\ k.id = c.clip  BY <1>1, <3>4
  <3> QED  BY <3>4, <3>10, <3>11, PutBack
 <2> QED  BY <1>1, <2>2, <2>3
<1> QED  BY <1>5, <1>6

----------------------------------------------------------------------------
(* Tracks added and taken away                                             *)

\* List r is list s with e at its end.
Longer(s, e, r) ==
    /\ IsList(r) /\ Len(s) \in Nat /\ Len(r) = Len(s) + 1
    /\ DOMAIN s = 1 .. Len(s) /\ DOMAIN r = 1 .. Len(s) + 1
    /\ r[Len(s) + 1] = e /\ \A i \in 1 .. Len(s) : r[i] = s[i]

\* A list with one more member.
LEMMA AppendIs ==
    ASSUME NEW s, IsList(s), NEW e
    PROVE  Longer(s, e, Append(s, e))
<1> DEFINE r == Append(s, e)
<1> DEFINE S == {s[i] : i \in DOMAIN s} \cup {e}
<1>1. s \in Seq({s[i] : i \in DOMAIN s})  BY DEF IsList
<1>2. Len(s) \in Nat /\ DOMAIN s = 1 .. Len(s)  BY ListIs
<1> HIDE DEF S
<1>3. s \in Seq(S) /\ e \in S  BY <1>1 DEF S
<1>4. r \in Seq(S) /\ Len(r) = Len(s) + 1 /\ r[Len(s) + 1] = e /\ \A i \in 1 .. Len(s) : r[i] = s[i]
  BY <1>2, <1>3
<1>5. IsList(r)  BY <1>4, SeqIsList
<1>6. DOMAIN r = 1 .. Len(s) + 1  BY <1>4, <1>5, ListIs
<1> QED  BY <1>2, <1>4, <1>5, <1>6 DEF Longer

\* A list without one of its members.
LEMMA RemoveAtIs ==
    ASSUME NEW s, IsList(s), NEW n \in 1 .. Len(s), NEW r, r = RemoveAt(s, n)
    PROVE  /\ IsList(r) /\ Len(s) \in Nat /\ Len(r) = Len(s) - 1
           /\ \A i \in 1 .. Len(s) - 1 : r[i] = IF i < n THEN s[i] ELSE s[i + 1]
<1> DEFINE S == {s[i] : i \in DOMAIN s}
<1>1. s \in Seq(S)  BY DEF IsList
<1>2. Len(s) \in Nat /\ DOMAIN s = 1 .. Len(s)  BY ListIs
<1> HIDE DEF S
<1>3. PICK p : p = SubSeq(s, 1, n - 1)  OBVIOUS
<1>4. PICK q : q = SubSeq(s, n + 1, Len(s))  OBVIOUS
<1>5. p \in Seq(S) /\ Len(p) = n - 1 /\ \A i \in 1 .. n - 1 : p[i] = s[i]  BY <1>1, <1>2, <1>3
<1>6. q \in Seq(S) /\ Len(q) = Len(s) - n /\ \A i \in 1 .. Len(s) - n : q[i] = s[n + i]
 <2>1. n + 1 \in 1 .. Len(s) + 1 /\ Len(s) \in (n + 1) - 1 .. Len(s)  BY <1>2
 <2>2. /\ q \in Seq(S) /\ Len(q) = Len(s) - (n + 1) + 1
       /\ \A i \in 1 .. Len(s) - (n + 1) + 1 : q[i] = s[(n + 1) + i - 1]
   BY <1>1, <1>4, <2>1, SubSeqProperties
 <2>3. Len(s) - (n + 1) + 1 = Len(s) - n /\ \A i \in 1 .. Len(s) - n : (n + 1) + i - 1 = n + i  BY <1>2
 <2> QED  BY <2>2, <2>3
<1>7. r = p \o q  BY <1>3, <1>4 DEF RemoveAt
<1>8. /\ r \in Seq(S) /\ Len(r) = Len(p) + Len(q)
      /\ \A i \in 1 .. Len(p) + Len(q) : r[i] = IF i <= Len(p) THEN p[i] ELSE q[i - Len(p)]
 <2>1. p \in Seq(S) /\ q \in Seq(S)  BY <1>5, <1>6
 <2>2. /\ p \o q \in Seq(S) /\ Len(p \o q) = Len(p) + Len(q)
       /\ \A i \in 1 .. Len(p) + Len(q) : (p \o q)[i] = IF i <= Len(p) THEN p[i] ELSE q[i - Len(p)]
   BY <2>1, ConcatProperties
 <2> QED  BY <1>7, <2>2
<1>9. /\ \A i \in 1 .. Len(p) : r[i] = p[i]
      /\ \A i \in 1 .. Len(q) : r[Len(p) + i] = q[i]
 <2>1. Len(p) \in Nat /\ Len(q) \in Nat  BY <1>5, <1>6, LenProperties
 <2>2. ASSUME NEW i \in 1 .. Len(p) PROVE r[i] = p[i]  BY <2>1, <1>8
 <2>3. ASSUME NEW i \in 1 .. Len(q) PROVE r[Len(p) + i] = q[i]
  <3>1. Len(p) + i \in 1 .. Len(p) + Len(q) /\ ~(Len(p) + i <= Len(p)) /\ (Len(p) + i) - Len(p) = i  BY <2>1
  <3> QED  BY <1>8, <3>1
 <2> QED  BY <2>2, <2>3
<1>10. Len(r) = Len(s) - 1  BY <1>2, <1>5, <1>6, <1>8
<1>11. ASSUME NEW i \in 1 .. Len(s) - 1 PROVE r[i] = IF i < n THEN s[i] ELSE s[i + 1]
 <2>1. CASE i < n  BY <1>2, <1>5, <1>9, <2>1
 <2>2. CASE ~(i < n)
  <3>1. i - (n - 1) \in 1 .. Len(q) /\ Len(p) + (i - (n - 1)) = i /\ n + (i - (n - 1)) = i + 1
    BY <1>2, <1>5, <1>6, <2>2
  <3>2. r[Len(p) + (i - (n - 1))] = q[i - (n - 1)]  BY <1>9, <3>1
  <3>3. q[i - (n - 1)] = s[n + (i - (n - 1))]  BY <1>6, <3>1
  <3> QED  BY <2>2, <3>1, <3>2, <3>3
 <2> QED  BY <2>1, <2>2
<1>12. IsList(r)  BY <1>8, SeqIsList
<1> QED  BY <1>2, <1>10, <1>11, <1>12

\* A timeline with one more track.
Grow(tl, t) == [tl EXCEPT !.tracks = Append(@, t)]

LEMMA GrowIs ==
    ASSUME NEW tl, Shaped(tl), NEW t, IsTrack(t), NEW u, u = Grow(tl, t)
    PROVE  /\ Shaped(u) /\ u.markers = tl.markers /\ u.tracks = Append(tl.tracks, t)
           /\ Len(tl.tracks) \in Nat /\ Len(u.tracks) = Len(tl.tracks) + 1
           /\ DOMAIN tl.tracks = 1 .. Len(tl.tracks) /\ DOMAIN u.tracks = 1 .. Len(tl.tracks) + 1
           /\ u.tracks[Len(tl.tracks) + 1] = t
           /\ \A i \in 1 .. Len(tl.tracks) : u.tracks[i] = tl.tracks[i]
<1>1. PICK s : s = tl.tracks  OBVIOUS
<1>2. PICK r : r = Append(s, t)  OBVIOUS
<1>3. tl = [tracks |-> s, markers |-> tl.markers] /\ IsList(s) /\ \A i \in DOMAIN s : IsTrack(s[i])
  BY <1>1 DEF Shaped
<1>4. u = [tracks |-> r, markers |-> tl.markers]  BY <1>1, <1>2, <1>3 DEF Grow
<1>5. u.tracks = r /\ u.markers = tl.markers  BY <1>4
<1>6. /\ IsList(r) /\ Len(s) \in Nat /\ Len(r) = Len(s) + 1
      /\ DOMAIN s = 1 .. Len(s) /\ DOMAIN r = 1 .. Len(s) + 1
      /\ r[Len(s) + 1] = t /\ \A i \in 1 .. Len(s) : r[i] = s[i]
  BY <1>3, <1>2, AppendIs DEF Longer
<1>7. \A i \in DOMAIN r : IsTrack(r[i])
 <2> SUFFICES ASSUME NEW i \in 1 .. Len(s) + 1 PROVE IsTrack(r[i])  BY <1>6
 <2>1. CASE i = Len(s) + 1  BY <1>6, <2>1
 <2>2. CASE i \in 1 .. Len(s)  BY <1>3, <1>6, <2>2
 <2> QED  BY <1>6, <2>1, <2>2
<1>8. Shaped(u)  BY <1>4, <1>5, <1>6, <1>7 DEF Shaped
<1> QED  BY <1>1, <1>2, <1>5, <1>6, <1>8

\* An empty track of a new name keeps a timeline sound.
LEMMA GrowSound ==
    ASSUME NEW tl, Sound(tl), NEW t, IsTrack(t), t.clips = {}, t.id \notin TrackIds(tl),
           NEW u, u = Grow(tl, t)
    PROVE  Sound(u)
<1>1. Shaped(tl)  BY DEF Sound
<1>2. /\ Shaped(u) /\ Len(tl.tracks) \in Nat
      /\ DOMAIN tl.tracks = 1 .. Len(tl.tracks) /\ DOMAIN u.tracks = 1 .. Len(tl.tracks) + 1
      /\ u.tracks[Len(tl.tracks) + 1] = t
      /\ \A i \in 1 .. Len(tl.tracks) : u.tracks[i] = tl.tracks[i]
  BY <1>1, GrowIs
<1>3. PICK n : n = Len(tl.tracks)  OBVIOUS
<1>4. /\ n \in Nat /\ DOMAIN tl.tracks = 1 .. n /\ DOMAIN u.tracks = 1 .. n + 1
      /\ u.tracks[n + 1] = t
      /\ \A i \in 1 .. n : u.tracks[i] = tl.tracks[i]
  BY <1>2, <1>3
<1>5. \A i \in DOMAIN u.tracks : i = n + 1 \/ i \in 1 .. n  BY <1>4
<1>6. \A i \in 1 .. n : u.tracks[i].id # t.id  BY <1>4 DEF TrackIds
<1>7. Named(u)  BY <1>4, <1>5, <1>6 DEF Sound, Named
<1>8. Filled(u)
 <2> SUFFICES ASSUME NEW i \in DOMAIN u.tracks
              PROVE  ValidClips(u.tracks[i].kind, u.tracks[i].clips) /\ \A c \in u.tracks[i].clips : Plain(c)
   BY DEF Filled
 <2>1. CASE i = n + 1  BY <1>4, <2>1 DEF ValidClips
 <2>2. CASE i \in 1 .. n  BY <1>4, <2>2 DEF Sound, Filled
 <2> QED  BY <1>5, <2>1, <2>2
<1>9. Unshared(u)
 <2> SUFFICES ASSUME NEW i \in DOMAIN u.tracks, NEW j \in DOMAIN u.tracks,
                     NEW c \in u.tracks[i].clips, NEW d \in u.tracks[j].clips, c.id = d.id
              PROVE  i = j
   BY DEF Unshared
 <2>1. i \in 1 .. n /\ j \in 1 .. n  BY <1>4, <1>5
 <2> QED  BY <1>4, <2>1 DEF Sound, Unshared
<1> QED  BY <1>2, <1>7, <1>8, <1>9 DEF Sound

\* Timeline::removeTrack of the last track.
LEMMA ShrinkIs ==
    ASSUME NEW tl, Sound(tl), NEW t, IsTrack(t), t.id \notin TrackIds(tl),
           NEW u, u = Grow(tl, t), NEW r \in RemoveTrack(u, t.id)
    PROVE  r = tl
<1>1. Shaped(tl)  BY DEF Sound
<1>2. /\ Shaped(u) /\ u.markers = tl.markers
      /\ Len(tl.tracks) \in Nat /\ Len(u.tracks) = Len(tl.tracks) + 1
      /\ DOMAIN tl.tracks = 1 .. Len(tl.tracks) /\ DOMAIN u.tracks = 1 .. Len(tl.tracks) + 1
      /\ \A i \in 1 .. Len(tl.tracks) : u.tracks[i] = tl.tracks[i]
  BY <1>1, GrowIs
<1>3. PICK n : n = Len(tl.tracks)  OBVIOUS
<1>4. PICK i \in DOMAIN u.tracks : u.tracks[i].id = t.id /\ r = [u EXCEPT !.tracks = RemoveAt(u.tracks, i)]
  BY DEF RemoveTrack
<1>5. i = n + 1  BY <1>2, <1>3, <1>4 DEF TrackIds
<1>6. PICK q : q = RemoveAt(u.tracks, n + 1)  OBVIOUS
<1>7. IsList(u.tracks) /\ IsList(tl.tracks)  BY <1>1, <1>2 DEF Shaped
<1>8. /\ IsList(q) /\ Len(q) = n
      /\ \A k \in 1 .. n : q[k] = u.tracks[k]
 <2>1. n + 1 \in 1 .. Len(u.tracks)  BY <1>2, <1>3
 <2>2. /\ IsList(q) /\ Len(u.tracks) \in Nat /\ Len(q) = Len(u.tracks) - 1
       /\ \A k \in 1 .. Len(u.tracks) - 1 : q[k] = IF k < n + 1 THEN u.tracks[k] ELSE u.tracks[k + 1]
  <3>1. PICK w, m : w = u.tracks /\ m = n + 1  OBVIOUS
  <3>2. IsList(w) /\ m \in 1 .. Len(w) /\ q = RemoveAt(w, m)  BY <1>6, <1>7, <2>1, <3>1
  <3>3. /\ IsList(q) /\ Len(w) \in Nat /\ Len(q) = Len(w) - 1
        /\ \A k \in 1 .. Len(w) - 1 : q[k] = IF k < m THEN w[k] ELSE w[k + 1]
    BY <3>2, RemoveAtIs
  <3> QED  BY <3>1, <3>3
 <2>3. Len(u.tracks) - 1 = n  BY <1>2, <1>3
 <2> QED  BY <2>2, <2>3
<1>9. q = tl.tracks  BY <1>2, <1>3, <1>8, <1>7, SameList
<1>10. u = [tracks |-> u.tracks, markers |-> u.markers] /\ tl = [tracks |-> tl.tracks, markers |-> tl.markers]
  BY <1>1, <1>2 DEF Shaped
<1>11. r = [u EXCEPT !.tracks = q]  BY <1>4, <1>5, <1>6
<1>12. r = [tracks |-> q, markers |-> u.markers]  BY <1>10, <1>11
<1> QED  BY <1>2, <1>9, <1>10, <1>12

\* The stable track is there or is added, and goes with the clip that brought it.
LEMMA StableIs ==
    ASSUME NEW tl, Sound(tl), NEW track, NEW g \in WithStableTrack(tl, track)
    PROVE  /\ Sound(g) /\ \A h \in WithStableTrack(tl, track) : h = g
           /\ track \in TrackIds(tl) => g = tl
           /\ track \notin TrackIds(tl) => RemoveTrack(g, track) \subseteq {tl}
<1>1. CASE track \in TrackIds(tl)  BY <1>1 DEF WithStableTrack
<1>2. CASE track \notin TrackIds(tl)
 <2>1. PICK t : t = [id |-> track, kind |-> track[1], clips |-> {}]  OBVIOUS
 <2>2. IsTrack(t) /\ t.id = track /\ t.clips = {}  BY <2>1 DEF IsTrack
 <2>3. \A h \in WithStableTrack(tl, track) : h = Grow(tl, t)
   BY <1>2, <2>1 DEF WithStableTrack, AddTrack, Allowed, Grow
 <2>4. g = Grow(tl, t)  BY <2>3
 <2>5. Sound(g)  BY <1>2, <2>2, <2>4, GrowSound
 <2>6. ASSUME NEW r \in RemoveTrack(g, track) PROVE r = tl  BY <1>2, <2>2, <2>4, ShrinkIs
 <2> QED  BY <1>2, <2>3, <2>4, <2>5, <2>6
<1> QED  BY <1>1, <1>2

\* A clip is inserted in one way, and removing it gives the timeline from before.
LEMMA InsertWorks ==
    ASSUME NEW tl, Sound(tl), NEW track, NEW clip, Plain(clip), NEW r \in InsertClip(tl, track, clip)
    PROVE  /\ Sound(r) /\ \A s \in InsertClip(tl, track, clip) : s = r
           /\ RemoveClip(r, track, clip.id) \subseteq {tl}
<1>1. PICK i \in DOMAIN tl.tracks : /\ tl.tracks[i].id = track /\ Unused(tl, clip.id)
                                    /\ r = Swap(tl, i, tl.tracks[i].clips \cup {clip})
                                    /\ Plain(clip) => Sound(r)
  BY Inserts
<1>2. Sound(r)  BY <1>1
<1>3. ASSUME NEW s \in InsertClip(tl, track, clip) PROVE s = r
 <2>1. PICK j \in DOMAIN tl.tracks : /\ tl.tracks[j].id = track /\ Unused(tl, clip.id)
                                     /\ s = Swap(tl, j, tl.tracks[j].clips \cup {clip})
                                     /\ Plain(clip) => Sound(s)
   BY Inserts
 <2>2. j = i  BY <1>1, <2>1 DEF Sound, Named
 <2> QED  BY <1>1, <2>1, <2>2
<1>4. ASSUME NEW s \in RemoveClip(r, track, clip.id) PROVE s = tl
 <2> DEFINE K == tl.tracks[i].clips \cup {clip}
 <2>1. {k \in K : k.id # clip.id} = tl.tracks[i].clips  BY <1>1 DEF Unused
 <2>2. r = Swap(tl, i, K)  BY <1>1
 <2> HIDE DEF K
 <2>3. s \in RemoveClip(r, tl.tracks[i].id, clip.id)  BY <1>1
 <2>4. s = Swap(tl, i, {k \in K : k.id # clip.id}) /\ Sound(s)
   BY <1>1, <1>2, <2>2, <2>3, RemoveAfter
 <2>5. s = Swap(tl, i, tl.tracks[i].clips) /\ Shaped(tl)  BY <2>1, <2>4 DEF Sound
 <2> QED  BY <2>5, SwapNothing
<1> QED  BY <1>2, <1>3, <1>4

----------------------------------------------------------------------------
(* Adding titles and caption cues                                          *)

TitleOf(tl, c, x, g, b) ==
    /\ g \in WithStableTrack(tl, TitleTrack)
    /\ b = (TitleTrack \notin TrackIds(tl))
    /\ x.tl \in InsertClip(g, TitleTrack, c.new)
    /\ x = [tl |-> x.tl, undo |-> [createdTrack |-> b]]

\* A title is inserted on its track.
LEMMA TitleIs ==
    ASSUME NEW tl, NEW c, NEW x \in AddTitle(tl, c)
    PROVE  \E g, b : TitleOf(tl, c, x, g, b)
<1>1. PICK b : b = (TitleTrack \notin TrackIds(tl))  OBVIOUS
<1>2. PICK u : u = [createdTrack |-> b]  OBVIOUS
<1>3. AddTitle(tl, c) = Then(UNION {InsertClip(t, TitleTrack, c.new) : t \in WithStableTrack(tl, TitleTrack)}, u)
  BY <1>1, <1>2 DEF AddTitle
<1>4. PICK g \in WithStableTrack(tl, TitleTrack) :
         \E r \in InsertClip(g, TitleTrack, c.new) : x = [tl |-> r, undo |-> u]
  BY <1>3 DEF Then
<1>5. PICK r \in InsertClip(g, TitleTrack, c.new) : x = [tl |-> r, undo |-> u]  BY <1>4
<1>6. x.tl = r  BY <1>5
<1>7. TitleOf(tl, c, x, g, b)  BY <1>1, <1>2, <1>4, <1>5, <1>6 DEF TitleOf
<1> QED  BY <1>7

\* Add a title, and take it away with the track it brought.
LEMMA TitleWorks ==
    ASSUME NEW tl, Sound(tl), NEW c, Plain(c.new), NEW x \in AddTitle(tl, c)
    PROVE  /\ Sound(x.tl)
           /\ \A y \in AddTitle(tl, c) : y = [tl |-> x.tl, undo |-> x.undo]
           /\ UndoTitle(x.tl, c, x.undo) \subseteq {tl}
<1>1. PICK g, b : TitleOf(tl, c, x, g, b)  BY TitleIs
<1>2. /\ g \in WithStableTrack(tl, TitleTrack) /\ b = (TitleTrack \notin TrackIds(tl))
      /\ x.tl \in InsertClip(g, TitleTrack, c.new)
      /\ x = [tl |-> x.tl, undo |-> [createdTrack |-> b]]
  BY <1>1 DEF TitleOf
<1>3. /\ Sound(g) /\ \A h \in WithStableTrack(tl, TitleTrack) : h = g
      /\ TitleTrack \in TrackIds(tl) => g = tl
      /\ TitleTrack \notin TrackIds(tl) => RemoveTrack(g, TitleTrack) \subseteq {tl}
  BY <1>2, StableIs
<1>4. /\ Sound(x.tl) /\ \A s \in InsertClip(g, TitleTrack, c.new) : s = x.tl
      /\ RemoveClip(x.tl, TitleTrack, c.new.id) \subseteq {g}
 <2>1. PICK r, k : r = x.tl /\ k = c.new  OBVIOUS
 <2>2. r \in InsertClip(g, TitleTrack, k) /\ Sound(g) /\ Plain(k)  BY <1>2, <1>3, <2>1
 <2>3. /\ Sound(r) /\ \A s \in InsertClip(g, TitleTrack, k) : s = r
       /\ RemoveClip(r, TitleTrack, k.id) \subseteq {g}
   BY <2>2, InsertWorks
 <2> QED  BY <2>1, <2>3
<1>5. ASSUME NEW y \in AddTitle(tl, c) PROVE y = [tl |-> x.tl, undo |-> x.undo]
 <2>1. PICK h, d : TitleOf(tl, c, y, h, d)  BY TitleIs
 <2>2. /\ h \in WithStableTrack(tl, TitleTrack) /\ d = b
       /\ y.tl \in InsertClip(h, TitleTrack, c.new)
       /\ y = [tl |-> y.tl, undo |-> [createdTrack |-> d]]
   BY <1>2, <2>1 DEF TitleOf
 <2>3. h = g  BY <1>3, <2>2
 <2>4. y.tl = x.tl  BY <1>4, <2>2, <2>3
 <2>5. x.undo = [createdTrack |-> b]  BY <1>2
 <2> QED  BY <2>2, <2>4, <2>5
<1>6. ASSUME NEW t \in UndoTitle(x.tl, c, x.undo) PROVE t = tl
 <2>1. x.undo.createdTrack = b  BY <1>2
 <2>2. PICK s \in RemoveClip(x.tl, TitleTrack, c.new.id) : t \in IF b THEN RemoveTrack(s, TitleTrack) ELSE {s}
   BY <2>1 DEF UndoTitle
 <2>3. s = g  BY <1>4, <2>2
 <2>4. CASE TitleTrack \in TrackIds(tl)  BY <1>2, <2>4, <2>2, <2>3, <1>3
 <2>5. CASE TitleTrack \notin TrackIds(tl)  BY <1>2, <2>5, <2>2, <2>3, <1>3
 <2> QED  BY <2>4, <2>5
<1> QED  BY <1>4, <1>5, <1>6

\* What adding a cue does to the timeline.
AddCueOf(tl, c, r) ==
    \E g \in WithStableTrack(tl, CaptionTrack) :
        \/ /\ Found(tl, CaptionTrack, c.new.id) = {}
           /\ \E k \in WithCues(c.new, c.new.cues) : r \in InsertClip(g, CaptionTrack, k)
        \/ \E o \in Found(tl, CaptionTrack, c.new.id) :
               \E k \in UNION {WithCues(p, p.cues \cup c.new.cues) :
                                  p \in {e \in Found(tl, CaptionTrack, c.new.id) :
                                            CueIds({e}) \cap CueIds({c.new}) = {}}} :
                   r \in ReplaceClip(g, CaptionTrack, o.id, k)

\* Its results, and the flags remembered for the undo.
LEMMA AddCueIs ==
    ASSUME NEW tl, NEW c, NEW x \in AddCaptionCue(tl, c)
    PROVE  /\ AddCueOf(tl, c, x.tl)
           /\ x = [tl |-> x.tl, undo |-> [createdTrack |-> x.undo.createdTrack,
                                          createdClip |-> x.undo.createdClip]]
           /\ x.undo.createdTrack = (CaptionTrack \notin TrackIds(tl))
           /\ x.undo.createdClip = (Found(tl, CaptionTrack, c.new.id) = {})
<1>1. PICK old : old = Found(tl, CaptionTrack, c.new.id)  OBVIOUS
<1>2. PICK b, d : b = (CaptionTrack \notin TrackIds(tl)) /\ d = (old = {})  OBVIOUS
<1>3. PICK u : u = [createdTrack |-> b, createdClip |-> d]  OBVIOUS
<1> DEFINE A == {p \in old : [p EXCEPT !.cues = {}] = [c.new EXCEPT !.cues = {}]}
           B == UNION {WithCues(p, p.cues \cup c.new.cues) :
                          p \in {r \in old : CueIds({r}) \cap CueIds({c.new}) = {}}}
           Results(t) ==
               IF old = {}
               THEN UNION {InsertClip(t, CaptionTrack, k) : k \in WithCues(c.new, c.new.cues)}
               ELSE UNION {ReplaceClip(t, CaptionTrack, o.id, k) : o \in A, k \in B}
<1>4. AddCaptionCue(tl, c) = Then(UNION {Results(t) : t \in WithStableTrack(tl, CaptionTrack)}, u)
  BY <1>1, <1>2, <1>3 DEF AddCaptionCue
<1>a. A \subseteq old  OBVIOUS
<1>b. B = UNION {WithCues(p, p.cues \cup c.new.cues) :
                    p \in {e \in Found(tl, CaptionTrack, c.new.id) : CueIds({e}) \cap CueIds({c.new}) = {}}}
  BY <1>1
<1> HIDE DEF Results, A, B
<1>5. PICK g \in WithStableTrack(tl, CaptionTrack) : \E r \in Results(g) : x = [tl |-> r, undo |-> u]
  BY <1>4 DEF Then
<1>6. PICK r \in Results(g) : x = [tl |-> r, undo |-> u]  BY <1>5
<1>7. x.tl = r /\ x.undo = u  BY <1>6
<1>8. u.createdTrack = b /\ u.createdClip = d  BY <1>3
<1>9. AddCueOf(tl, c, r)
 <2>1. CASE old = {}
  <3>1. PICK k \in WithCues(c.new, c.new.cues) : r \in InsertClip(g, CaptionTrack, k)
    BY <1>6, <2>1 DEF Results
  <3> QED  BY <1>1, <1>5, <2>1, <3>1 DEF AddCueOf
 <2>2. CASE old # {}
  <3>1. PICK o \in A, k \in B : r \in ReplaceClip(g, CaptionTrack, o.id, k)
    BY <1>6, <2>2 DEF Results
  <3>2. o \in Found(tl, CaptionTrack, c.new.id)  BY <1>1, <1>a, <3>1
  <3> QED  BY <1>5, <1>b, <3>1, <3>2 DEF AddCueOf
 <2> QED  BY <2>1, <2>2
<1> QED  BY <1>1, <1>2, <1>3, <1>6, <1>7, <1>8, <1>9

\* The cues of a clip renewed without a change.
LEMMA SameCues ==
    ASSUME NEW o, Plain(o), NEW k \in WithCues(o, o.cues)
    PROVE  k = o
<1>1. PICK X : X = o.cues  OBVIOUS
<1>2. k \in WithCues(o, X)  BY <1>1
<1>3. /\ k = [o EXCEPT !.cues = X] /\ k.id = o.id /\ k.cues = X /\ Plain(k)
      /\ \A v : [k EXCEPT !.cues = v] = [o EXCEPT !.cues = v]
      /\ [o EXCEPT !.cues = o.cues] = o
  BY <1>2, CuesAre
<1> QED  BY <1>1, <1>3

\* A cue added to a clip that is there.
NextCueOf(tl, c, r, i, o, k, q) ==
    /\ Place(tl, CaptionTrack, c.new.id, i, o)
    /\ c.new.cues = {q} /\ q.id \notin CueIds({o})
    /\ k \in WithCues(o, o.cues \cup {q})
    /\ r = Swap(tl, i, Others(tl, i, c.new.id) \cup {k}) /\ Sound(r)
    /\ CaptionTrack \in TrackIds(tl)

LEMMA NextCueIs ==
    ASSUME NEW tl, Sound(tl), NEW c, NEW q, c.new.cues = {q}, NEW r, AddCueOf(tl, c, r),
           Found(tl, CaptionTrack, c.new.id) # {}
    PROVE  \E i, o, k : NextCueOf(tl, c, r, i, o, k, q)
<1> DEFINE old == Found(tl, CaptionTrack, c.new.id)
<1>1. PICK g \in WithStableTrack(tl, CaptionTrack) :
         \E o \in old : \E p \in {e \in old : CueIds({e}) \cap CueIds({c.new}) = {}} :
             \E k \in WithCues(p, p.cues \cup c.new.cues) : r \in ReplaceClip(g, CaptionTrack, o.id, k)
  BY DEF AddCueOf
<1>2. PICK o \in old : \E p \in {e \in old : CueIds({e}) \cap CueIds({c.new}) = {}} :
             \E k \in WithCues(p, p.cues \cup c.new.cues) : r \in ReplaceClip(g, CaptionTrack, o.id, k)
  BY <1>1
<1>3. PICK p \in {e \in old : CueIds({e}) \cap CueIds({c.new}) = {}} :
             \E k \in WithCues(p, p.cues \cup c.new.cues) : r \in ReplaceClip(g, CaptionTrack, o.id, k)
  BY <1>2
<1>4. PICK k \in WithCues(p, p.cues \cup c.new.cues) : r \in ReplaceClip(g, CaptionTrack, o.id, k)
  BY <1>3
<1>5. PICK i : Place(tl, CaptionTrack, c.new.id, i, o)  BY FoundIs
<1>6. PICK j : Place(tl, CaptionTrack, c.new.id, j, p)  BY <1>3, FoundIs
<1>7. p = o  BY <1>5, <1>6, OnePlace
<1>8. Plain(o) /\ o.id = c.new.id  BY <1>5, PlaceIs
<1>9. CaptionTrack \in TrackIds(tl)  BY <1>5 DEF Place, TrackIds
<1>10. g = tl  BY <1>1, <1>9, StableIs
<1>11. k \in WithCues(o, o.cues \cup {q})  BY <1>4, <1>7
<1>12. q.id \notin CueIds({o})  BY <1>3, <1>7 DEF CueIds
<1>13. Plain(k)
 <2>1. PICK X : X = o.cues \cup {q}  OBVIOUS
 <2>2. k \in WithCues(o, X)  BY <1>11, <2>1
 <2>3. /\ k = [o EXCEPT !.cues = X] /\ k.id = o.id /\ k.cues = X /\ Plain(k)
       /\ \A v : [k EXCEPT !.cues = v] = [o EXCEPT !.cues = v]
       /\ [o EXCEPT !.cues = o.cues] = o
   BY <1>8, <2>2, CuesAre
 <2> QED  BY <2>3
<1>14. r = Swap(tl, i, Others(tl, i, c.new.id) \cup {k}) /\ Sound(r)
 <2>1. PICK id : id = c.new.id  OBVIOUS
 <2>2. r \in ReplaceClip(tl, CaptionTrack, id, k) /\ Place(tl, CaptionTrack, id, i, o)
   BY <1>4, <1>5, <1>8, <1>10, <2>1
 <2>3. r = Swap(tl, i, Others(tl, i, id) \cup {k}) /\ Sound(r) /\ k.id = id
   BY <1>13, <2>2, ReplacedThere
 <2> QED  BY <2>1, <2>3
<1>15. NextCueOf(tl, c, r, i, o, k, q)  BY <1>5, <1>9, <1>11, <1>12, <1>14 DEF NextCueOf
<1> QED  BY <1>15

\* The first cue of a clip comes with the clip.
LEMMA FirstCueIs ==
    ASSUME NEW tl, Sound(tl), NEW c, Plain(c.new), NEW g \in WithStableTrack(tl, CaptionTrack),
           NEW r, AddCueOf(tl, c, r), Found(tl, CaptionTrack, c.new.id) = {}
    PROVE  r \in InsertClip(g, CaptionTrack, c.new)
<1>1. PICK h \in WithStableTrack(tl, CaptionTrack) :
         \E k \in WithCues(c.new, c.new.cues) : r \in InsertClip(h, CaptionTrack, k)
  BY DEF AddCueOf
<1>2. PICK k \in WithCues(c.new, c.new.cues) : r \in InsertClip(h, CaptionTrack, k)  BY <1>1
<1>3. k = c.new  BY <1>2, SameCues
<1>4. h = g  BY <1>1, StableIs
<1> QED  BY <1>2, <1>3, <1>4

\* Add a cue, and take it away with the clip and the track it brought.
LEMMA AddCueWorks ==
    ASSUME NEW tl, Sound(tl), NEW c, Plain(c.new), NEW q, c.new.cues = {q},
           NEW x \in AddCaptionCue(tl, c)
    PROVE  /\ Sound(x.tl)
           /\ \A y \in AddCaptionCue(tl, c) : y = [tl |-> x.tl, undo |-> x.undo]
           /\ UndoAddCue(x.tl, c, x.undo) \subseteq {tl}
<1> DEFINE old == Found(tl, CaptionTrack, c.new.id)
<1>1. /\ AddCueOf(tl, c, x.tl)
      /\ x = [tl |-> x.tl, undo |-> [createdTrack |-> x.undo.createdTrack,
                                     createdClip |-> x.undo.createdClip]]
      /\ x.undo.createdTrack = (CaptionTrack \notin TrackIds(tl))
      /\ x.undo.createdClip = (Found(tl, CaptionTrack, c.new.id) = {})
  BY AddCueIs
<1>2. ASSUME NEW y \in AddCaptionCue(tl, c), y.tl = x.tl PROVE y = [tl |-> x.tl, undo |-> x.undo]
  BY AddCueIs, <1>1, <1>2
<1>3. PICK d, b : d = x.undo.createdClip /\ b = x.undo.createdTrack  OBVIOUS
<1>4. (d <=> old = {}) /\ (b <=> CaptionTrack \notin TrackIds(tl))  BY <1>1, <1>3, Zenon
<1> DEFINE Removed(t) ==
               IF d THEN RemoveClip(t, CaptionTrack, c.new.id)
               ELSE UNION {UNION {ReplaceClip(t, CaptionTrack, o.id, k) :
                                   k \in UNION {WithCues(o, o.cues \ {s}) :
                                            s \in {r \in o.cues : r.id \in CueIds({c.new})}}}
                                : o \in Found(t, CaptionTrack, c.new.id)}
<1>5. UndoAddCue(x.tl, c, x.undo) =
         UNION {IF b THEN RemoveTrack(t, CaptionTrack) ELSE {t} : t \in Removed(x.tl)}
  BY <1>3 DEF UndoAddCue
<1> HIDE DEF Removed
<1>6. CASE old = {}
 <2>1. PICK g : g \in WithStableTrack(tl, CaptionTrack)  BY <1>1 DEF AddCueOf
 <2>2. /\ Sound(g) /\ \A h \in WithStableTrack(tl, CaptionTrack) : h = g
       /\ CaptionTrack \in TrackIds(tl) => g = tl
       /\ CaptionTrack \notin TrackIds(tl) => RemoveTrack(g, CaptionTrack) \subseteq {tl}
   BY <2>1, StableIs
 <2>3. PICK w, k : w = x.tl /\ k = c.new  OBVIOUS
 <2>4. w \in InsertClip(g, CaptionTrack, k) /\ Plain(k)  BY <1>1, <2>3, <1>6, <2>1, FirstCueIs
 <2>5. /\ Sound(w) /\ \A s \in InsertClip(g, CaptionTrack, k) : s = w
       /\ RemoveClip(w, CaptionTrack, k.id) \subseteq {g}
   BY <2>2, <2>4, InsertWorks
 <2>6. ASSUME NEW y \in AddCaptionCue(tl, c) PROVE y = [tl |-> x.tl, undo |-> x.undo]
  <3>1. AddCueOf(tl, c, y.tl)  BY AddCueIs
  <3>2. PICK v : v = y.tl  OBVIOUS
  <3>3. v \in InsertClip(g, CaptionTrack, c.new)  BY <1>6, <2>1, <3>1, <3>2, FirstCueIs
  <3>4. y.tl = x.tl  BY <2>3, <2>5, <3>2, <3>3
  <3> QED  BY <1>2, <3>4
 <2>7. ASSUME NEW t \in UndoAddCue(x.tl, c, x.undo) PROVE t = tl
  <3>1. PICK s \in Removed(w) : t \in IF b THEN RemoveTrack(s, CaptionTrack) ELSE {s}  BY <1>5, <2>3
  <3>2. s \in RemoveClip(w, CaptionTrack, k.id)  BY <1>4, <1>6, <2>3, <3>1 DEF Removed
  <3>3. s = g  BY <2>5, <3>2
  <3>4. CASE b  BY <1>4, <2>2, <3>1, <3>3, <3>4
  <3>5. CASE ~b  BY <1>4, <2>2, <3>1, <3>3, <3>5
  <3> QED  BY <3>4, <3>5
 <2> QED  BY <2>3, <2>5, <2>6, <2>7
<1>7. CASE old # {}
 <2>1. PICK w, id : w = x.tl /\ id = c.new.id  OBVIOUS
 <2>2. AddCueOf(tl, c, w) /\ Found(tl, CaptionTrack, c.new.id) # {}  BY <1>1, <1>7, <2>1
 <2>3. PICK i, o, k : NextCueOf(tl, c, w, i, o, k, q)  BY <2>2, NextCueIs
 <2>4. /\ Place(tl, CaptionTrack, id, i, o) /\ q.id \notin CueIds({o})
       /\ k \in WithCues(o, o.cues \cup {q})
       /\ w = Swap(tl, i, Others(tl, i, id) \cup {k}) /\ Sound(w)
       /\ CaptionTrack \in TrackIds(tl)
   BY <2>1, <2>3 DEF NextCueOf
 <2>5. Plain(o) /\ o.id = id  BY <2>4, PlaceIs
 <2>k. /\ k = [o EXCEPT !.cues = o.cues \cup {q}] /\ k.id = o.id /\ k.cues = o.cues \cup {q}
       /\ Plain(k)
       /\ \A v : [k EXCEPT !.cues = v] = [o EXCEPT !.cues = v]
       /\ [o EXCEPT !.cues = o.cues] = o
  <3>1. PICK X : X = o.cues \cup {q}  OBVIOUS
  <3>2. k \in WithCues(o, X)  BY <2>4, <3>1
  <3>3. /\ k = [o EXCEPT !.cues = X] /\ k.id = o.id /\ k.cues = X /\ Plain(k)
        /\ \A v : [k EXCEPT !.cues = v] = [o EXCEPT !.cues = v]
        /\ [o EXCEPT !.cues = o.cues] = o
    BY <2>5, <3>2, CuesAre
  <3> QED  BY <3>1, <3>3
 <2>6. ASSUME NEW y \in AddCaptionCue(tl, c) PROVE y = [tl |-> x.tl, undo |-> x.undo]
  <3>1. AddCueOf(tl, c, y.tl)  BY AddCueIs
  <3>2. PICK v : v = y.tl  OBVIOUS
  <3>3. AddCueOf(tl, c, v)  BY <3>1, <3>2
  <3>4. PICK j, p, l : NextCueOf(tl, c, v, j, p, l, q)  BY <2>2, <3>3, NextCueIs
  <3>5. /\ Place(tl, CaptionTrack, id, j, p)
        /\ l \in WithCues(p, p.cues \cup {q})
        /\ v = Swap(tl, j, Others(tl, j, id) \cup {l})
    BY <2>1, <3>4 DEF NextCueOf
  <3>6. j = i /\ p = o  BY <2>4, <3>5, OnePlace
  <3>7. l = [o EXCEPT !.cues = o.cues \cup {q}]
   <4>1. PICK X : X = o.cues \cup {q}  OBVIOUS
   <4>2. l \in WithCues(o, X)  BY <3>5, <3>6, <4>1
   <4>3. l = [o EXCEPT !.cues = X] /\ l.id = o.id /\ l.cues = X /\ Plain(l)  BY <2>5, <4>2, CuesAre
   <4> QED  BY <4>1, <4>3
  <3>8. v = w  BY <2>4, <2>k, <3>5, <3>6, <3>7
  <3>9. y.tl = x.tl  BY <2>1, <3>2, <3>8
  <3> QED  BY <1>2, <3>9
 <2>7. ASSUME NEW t \in UndoAddCue(x.tl, c, x.undo) PROVE t = tl
  <3>1. PICK s \in Removed(w) : t \in IF b THEN RemoveTrack(s, CaptionTrack) ELSE {s}  BY <1>5, <2>1
  <3>2. t = s  BY <1>4, <2>4, <3>1
  <3>3. CueIds({c.new}) = {q.id}  BY DEF CueIds
  <3>d. s \in UNION {UNION {ReplaceClip(w, CaptionTrack, o1.id, k1) :
                                 k1 \in UNION {WithCues(o1, o1.cues \ {s1}) :
                                          s1 \in {r \in o1.cues : r.id \in CueIds({c.new})}}}
                              : o1 \in Found(w, CaptionTrack, id)}
    BY <1>4, <1>7, <2>1, <3>1 DEF Removed
  <3>a. PICK p \in Found(w, CaptionTrack, id) :
           s \in UNION {ReplaceClip(w, CaptionTrack, p.id, k1) :
                            k1 \in UNION {WithCues(p, p.cues \ {s1}) :
                                     s1 \in {r \in p.cues : r.id \in CueIds({c.new})}}}
    BY <3>d
  <3>b. PICK l0 \in UNION {WithCues(p, p.cues \ {s1}) : s1 \in {r \in p.cues : r.id \in CueIds({c.new})}} :
           s \in ReplaceClip(w, CaptionTrack, p.id, l0)
    BY <3>a
  <3>c. PICK e0 \in {r \in p.cues : r.id \in CueIds({c.new})} : l0 \in WithCues(p, p.cues \ {e0})
    BY <3>b
  <3>4. /\ p \in Found(w, CaptionTrack, id) /\ e0 \in p.cues /\ e0.id \in CueIds({c.new})
        /\ l0 \in WithCues(p, p.cues \ {e0}) /\ t \in ReplaceClip(w, CaptionTrack, p.id, l0)
    BY <3>2, <3>a, <3>b, <3>c
  <3>5. p = k /\ Plain(k)
   <4>1. k.id = id  BY <2>5, <2>k
   <4> QED  BY <2>4, <3>4, <4>1, FoundThere
  <3>6. PICK e \in k.cues : /\ e.id = q.id
                            /\ \E l \in WithCues(k, k.cues \ {e}) : t \in ReplaceClip(w, CaptionTrack, id, l)
   <4>1. k.id = id  BY <2>5, <2>k
   <4> QED  BY <3>3, <3>4, <3>5, <4>1
  <3>7. e = q  BY <2>k, <3>6 DEF Plain
  <3>8. k.cues \ {e} = o.cues
   <4>1. q \notin o.cues  BY <2>4 DEF CueIds
   <4> QED  BY <2>k, <3>7, <4>1
  <3>9. PICK l \in WithCues(k, o.cues) : t \in ReplaceClip(w, CaptionTrack, id, l)  BY <3>6, <3>8
  <3>10. l = [k EXCEPT !.cues = o.cues]
   <4>1. PICK X : X = o.cues  OBVIOUS
   <4>2. l \in WithCues(k, X)  BY <3>9, <4>1
   <4>3. l = [k EXCEPT !.cues = X] /\ l.id = k.id /\ l.cues = X /\ Plain(l)  BY <3>5, <4>2, CuesAre
   <4> QED  BY <4>1, <4>3
  <3>11. l = o  BY <2>k, <3>10
  <3>12. t \in ReplaceClip(w, CaptionTrack, id, o) /\ k.id = id  BY <2>5, <2>k, <3>9, <3>11
  <3> QED  BY <2>4, <3>12, PutBack
 <2> QED  BY <2>1, <2>4, <2>6, <2>7
<1> QED  BY <1>6, <1>7

----------------------------------------------------------------------------
(* Folds                                                                   *)

LEMMA LeastOf ==
    ASSUME NEW S, S \subseteq Nat, S # {}
    PROVE  \E d \in S : \A e \in S : d <= e
<1>1. PICK d \in S : \A e \in S : ~(<<e, d>> \in OpToRel(<, Nat))  BY NatLessThanWellFounded, WFMin
<1>2. ASSUME NEW e \in S PROVE d <= e
 <2>1. <<e, d>> \in Nat \X Nat  OBVIOUS
 <2>2. ~(e < d)  BY <1>1, <2>1 DEF OpToRel
 <2> QED  BY <2>2
<1> QED  BY <1>2

\* The last of some positions.
LEMMA MaxIs ==
    ASSUME NEW n \in Nat, NEW t \in SUBSET (1 .. n), t # {}
    PROVE  Max(t) \in t /\ \A y \in t : Max(t) >= y
<1> DEFINE Above == {m \in Nat : \A y \in t : m >= y}
<1>1. n \in Above  OBVIOUS
<1>2. Above \subseteq Nat /\ Above # {}  BY <1>1
<1>3. \A m : m \in Above <=> (m \in Nat /\ \A y \in t : m >= y)  OBVIOUS
<1> HIDE DEF Above
<1>4. PICK m \in Above : \A e \in Above : m <= e  BY <1>2, LeastOf
<1>5. m \in t
 <2> SUFFICES ASSUME m \notin t PROVE FALSE  OBVIOUS
 <2>1. m \in Nat /\ \A y \in t : y \in Nat /\ y < m /\ y >= 1  BY <1>2, <1>3, <1>4
 <2>w. PICK w : w \in t  OBVIOUS
 <2>2. m - 1 \in Nat /\ \A y \in t : m - 1 >= y  BY <2>1, <2>w
 <2>3. m - 1 \in Above  BY <1>3, <2>2
 <2> QED  BY <1>4, <2>1, <2>3
<1>6. \A y \in t : m >= y  BY <1>3, <1>4
<1> QED  BY <1>5, <1>6 DEF Max

\* The last position of a prefix, and the prefix without it.
LEMMA MaxOfPrefix ==
    ASSUME NEW k \in Nat, k >= 1
    PROVE  Max(1 .. k) = k /\ (1 .. k) \ {k} = 1 .. k - 1 /\ 1 .. k # {}
<1>1. PICK t : t = 1 .. k  OBVIOUS
<1>2. t \in SUBSET (1 .. k) /\ k \in t /\ \A y \in t : y \in Nat /\ y <= k  BY <1>1
<1>3. t # {}  BY <1>2
<1>4. Max(t) \in t /\ \A y \in t : Max(t) >= y  BY <1>2, <1>3, MaxIs
<1>5. Max(t) = k
 <2>1. PICK m : m = Max(t)  OBVIOUS
 <2>2. m \in Nat /\ m <= k /\ m >= k  BY <1>2, <1>4, <2>1
 <2> QED  BY <2>1, <2>2
<1>6. (1 .. k) \ {k} = 1 .. k - 1  OBVIOUS
<1> QED  BY <1>1, <1>3, <1>5, <1>6

\* Timelines with the clips that the deletion leaves of track i.
CutStep(tl, c, timelines, i) ==
    UNION {ReplaceTrackClips(t, tl.tracks[i].id, clips) : t \in timelines, clips \in Replacement(tl, c, i)}

\* The tracks that the deletion changes, with their clips.
Previous(tl, c) ==
    {[track |-> tl.tracks[i].id, clips |-> tl.tracks[i].clips] :
        i \in {j \in 1 .. Len(tl.tracks) : Replacement(tl, c, j) # {tl.tracks[j].clips}}}

\* The deletion goes through the tracks in their order.
LEMMA DeleteRuns ==
    ASSUME NEW tl, NEW c, NEW n \in Nat, n = Len(tl.tracks)
    PROVE  \E g : /\ g[0] = {tl}
                  /\ \A k \in 1 .. n : g[k] = CutStep(tl, c, g[k - 1], k)
                  /\ DeleteRange(tl, c) \subseteq Then(g[n], [previous |-> Previous(tl, c)])
<1> DEFINE base == {tl}
           seq == [i \in 1 .. n |-> i]
           Step(v, i) == CutStep(tl, c, v, i)
           Body(f, t) == IF t = {} THEN base ELSE Step(f[t \ {Max(t)}], seq[Max(t)])
           Fun(f, m) == f = [t \in SUBSET (1 .. m) |-> Body(f, t)]
           Result == (CHOOSE f : f = [t \in SUBSET DOMAIN seq |-> Body(f, t)])[DOMAIN seq]
<1>1. DeleteRange(tl, c) \subseteq Then(Result, [previous |-> Previous(tl, c)])
  BY DEF DeleteRange, FoldLeft, MapThenFoldSet, CutStep, Previous
<1>2. DOMAIN seq = 1 .. n /\ \A k \in 1 .. n : seq[k] = k  OBVIOUS
<1> HIDE DEF base, seq, Step
<1>3. \E f : Fun(f, 0)
 <2>1. SUBSET (1 .. 0) = {{}}  OBVIOUS
 <2> DEFINE f == [t \in {{}} |-> base]
 <2>2. \A t \in {{}} : Body(f, t) = base  OBVIOUS
 <2> HIDE DEF Body
 <2>3. f = [t \in {{}} |-> Body(f, t)]  BY <2>2
 <2>4. f = [t \in SUBSET (1 .. 0) |-> Body(f, t)]  BY <2>1, <2>3
 <2> HIDE DEF f
 <2> QED  BY <2>4
<1>4. ASSUME NEW m \in Nat, \E f : Fun(f, m) PROVE \E f : Fun(f, m + 1)
 <2>1. PICK f : Fun(f, m)  BY <1>4
 <2> DEFINE S == SUBSET (1 .. m + 1)
            Prev(t) == t \ {Max(t)}
            h == [t \in S |-> IF t \in SUBSET (1 .. m) THEN f[t]
                              ELSE Step(f[Prev(t)], seq[Max(t)])]
 <2>2. ASSUME NEW t \in S, t # {} PROVE Prev(t) \in SUBSET (1 .. m) /\ Prev(t) \in S
  <3>0. PICK p \in Nat : p = m + 1  OBVIOUS
  <3>p. t \in SUBSET (1 .. p) /\ t # {}  BY <2>2, <3>0
  <3>1. Max(t) \in t /\ \A y \in t : Max(t) >= y  BY <3>p, MaxIs
  <3>2. ASSUME NEW y \in t, y # Max(t) PROVE y \in 1 .. m
   <4>1. PICK x : x = Max(t)  OBVIOUS
   <4>2. x \in 1 .. m + 1 /\ y \in 1 .. m + 1 /\ x >= y /\ y # x  BY <3>1, <3>2, <4>1
   <4> QED  BY <4>2
  <3> QED  BY <3>2
 <2>3. \A t \in SUBSET (1 .. m) : t \in S  OBVIOUS
 <2> HIDE DEF S, Prev
 <2>4. \A t \in SUBSET (1 .. m) : h[t] = f[t]  BY <2>3
 <2>5. \A t \in S : t # {} => h[Prev(t)] = f[Prev(t)]  BY <2>2, <2>4
 <2>6. \A t \in SUBSET (1 .. m) : f[t] = Body(f, t)  BY <2>1
 <2>7. ASSUME NEW t \in S PROVE h[t] = Body(h, t)
  <3>1. CASE t = {}  BY <3>1, <2>4, <2>6
  <3>2. CASE t # {}
   <4>1. Body(h, t) = Step(h[Prev(t)], seq[Max(t)])  BY <3>2 DEF Prev
   <4>2. Body(h, t) = Step(f[Prev(t)], seq[Max(t)])  BY <2>5, <3>2, <4>1
   <4>3. CASE t \in SUBSET (1 .. m)  BY <2>6, <3>2, <4>3, <2>4, <4>2 DEF Prev
   <4>4. CASE t \notin SUBSET (1 .. m)  BY <4>2, <4>4
   <4> QED  BY <4>3, <4>4
  <3> QED  BY <3>1, <3>2
 <2>8. h = [t \in S |-> h[t]]  OBVIOUS
 <2> HIDE DEF h, Body
 <2>9. h = [t \in S |-> Body(h, t)]  BY <2>7, <2>8
 <2> QED  BY <2>9 DEF S
<1> DEFINE Missed == {m \in Nat : ~\E f : Fun(f, m)}
<1>5. Missed = {}
 <2> SUFFICES ASSUME Missed # {} PROVE FALSE  OBVIOUS
 <2>1. Missed \subseteq Nat /\ \A m : m \in Missed <=> (m \in Nat /\ ~\E f : Fun(f, m))  OBVIOUS
 <2> HIDE DEF Missed, Fun
 <2>2. PICK m \in Missed : \A e \in Missed : m <= e  BY <2>1, LeastOf
 <2>3. m \in Nat /\ m # 0  BY <1>3, <2>1, <2>2
 <2>4. m - 1 \in Nat /\ m - 1 \notin Missed  BY <2>2, <2>3
 <2>5. \E f : Fun(f, m - 1)  BY <2>1, <2>4
 <2>6. \E f : Fun(f, (m - 1) + 1)  BY <1>4, <2>4, <2>5
 <2>7. (m - 1) + 1 = m  BY <2>3
 <2> QED  BY <2>1, <2>2, <2>6, <2>7
<1> DEFINE it == CHOOSE f : f = [t \in SUBSET DOMAIN seq |-> Body(f, t)]
<1>6. it = [t \in SUBSET (1 .. n) |-> Body(it, t)]
 <2>1. \E f : Fun(f, n)
  <3> HIDE DEF Fun
  <3>1. n \notin Missed  BY <1>5
  <3> QED  BY <3>1
 <2> HIDE DEF Body
 <2>2. \E f : f = [t \in SUBSET DOMAIN seq |-> Body(f, t)]  BY <1>2, <2>1
 <2>3. it = [t \in SUBSET DOMAIN seq |-> Body(it, t)]  BY <2>2
 <2> QED  BY <1>2, <2>3
<1>7. Result = it[1 .. n]  BY <1>2
<1> HIDE DEF it, Result, Missed
<1> DEFINE g == [k \in 0 .. n |-> it[1 .. k]]
<1>8. g[0] = base  BY <1>6
<1>9. ASSUME NEW k \in 1 .. n PROVE g[k] = Step(g[k - 1], k)
 <2>1. k \in Nat /\ k >= 1 /\ k \in 0 .. n /\ k - 1 \in 0 .. n  OBVIOUS
 <2>2. Max(1 .. k) = k /\ (1 .. k) \ {k} = 1 .. k - 1 /\ 1 .. k # {}  BY <2>1, MaxOfPrefix
 <2>3. PICK t : t = 1 .. k  OBVIOUS
 <2>4. t \in SUBSET (1 .. n) /\ t # {} /\ t \ {Max(t)} = 1 .. k - 1 /\ Max(t) = k  BY <2>2, <2>3
 <2>5. it[t] = Step(it[t \ {Max(t)}], seq[Max(t)])  BY <1>6, <2>4
 <2>6. it[t] = Step(it[1 .. k - 1], k)  BY <1>2, <2>4, <2>5
 <2>7. g[k] = it[1 .. k] /\ g[k - 1] = it[1 .. k - 1]  BY <2>1
 <2> QED  BY <2>3, <2>6, <2>7
<1>10. g[n] = Result  BY <1>7
<1> HIDE DEF g
<1> QED  BY <1>1, <1>8, <1>9, <1>10 DEF base, Step

----------------------------------------------------------------------------
(* Deleting a range                                                        *)

\* The same tracks, with other clips on them.
Alike(t, tl) ==
    /\ Shaped(t) /\ t.markers = tl.markers
    /\ Len(t.tracks) = Len(tl.tracks) /\ DOMAIN t.tracks = DOMAIN tl.tracks
    /\ \A j \in DOMAIN tl.tracks : t.tracks[j].id = tl.tracks[j].id /\ t.tracks[j].kind = tl.tracks[j].kind

\* The clips of track i given as a whole.
Given(t, tl, i, clips, r) ==
    /\ r = Swap(t, i, clips) /\ Alike(r, tl)
    /\ ValidClips(tl.tracks[i].kind, clips)
    /\ r.tracks[i].clips = clips
    /\ \A j \in DOMAIN tl.tracks : j # i => r.tracks[j].clips = t.tracks[j].clips
    /\ \A k \in clips : \A j \in DOMAIN tl.tracks : j # i => \A d \in t.tracks[j].clips : d.id # k.id

\* Timeline::replaceTrackClips.
LEMMA ReplacesTrack ==
    ASSUME NEW tl, Named(tl), NEW t, Alike(t, tl), NEW i \in DOMAIN tl.tracks, NEW clips,
           NEW r \in ReplaceTrackClips(t, tl.tracks[i].id, clips)
    PROVE  Given(t, tl, i, clips, r)
<1>1. PICK track : track = tl.tracks[i].id  OBVIOUS
<1>2. PICK others : others = UNION {t.tracks[m].clips : m \in {j \in DOMAIN t.tracks : t.tracks[j].id # track}}
  OBVIOUS
<1>3. Ids(clips) \cap Ids(others) = {} /\ r \in Put(t, track, clips)
  BY <1>1, <1>2 DEF ReplaceTrackClips, ClipsWhere
<1>4. PICK k \in DOMAIN t.tracks : /\ t.tracks[k].id = track
                                   /\ ValidClips(t.tracks[k].kind, clips)
                                   /\ r = Swap(t, k, clips)
  BY <1>3, PutIs
<1>5. k = i  BY <1>1, <1>4 DEF Alike, Named
<1>6. Shaped(t) /\ i \in DOMAIN t.tracks /\ r = Swap(t, i, clips)  BY <1>4, <1>5 DEF Alike
<1>7. /\ Shaped(r) /\ r.markers = t.markers
      /\ DOMAIN r.tracks = DOMAIN t.tracks /\ Len(r.tracks) = Len(t.tracks)
      /\ r.tracks[i].id = t.tracks[i].id /\ r.tracks[i].kind = t.tracks[i].kind
      /\ r.tracks[i].clips = clips
      /\ \A j \in DOMAIN t.tracks : j # i => r.tracks[j] = t.tracks[j]
  BY <1>6, SwapIs
<1>8. Alike(r, tl)  BY <1>7 DEF Alike
<1>9. ValidClips(tl.tracks[i].kind, clips)  BY <1>4, <1>5 DEF Alike
<1>10. ASSUME NEW c \in clips, NEW j \in DOMAIN tl.tracks, j # i, NEW d \in t.tracks[j].clips
       PROVE  d.id # c.id
 <2>1. j \in DOMAIN t.tracks /\ t.tracks[j].id # track  BY <1>1, <1>10 DEF Alike, Named
 <2>2. d \in others  BY <1>2, <2>1
 <2>3. d.id \in Ids(others) /\ c.id \in Ids(clips)  BY <2>2 DEF Ids
 <2> QED  BY <1>3, <2>3
<1> QED  BY <1>6, <1>7, <1>8, <1>9, <1>10 DEF Alike, Given

\* What a deletion leaves of a plain clip is plain.
LEMMA RemainsArePlain ==
    ASSUME NEW c, NEW clip, Plain(clip), NEW right, NEW rest \in Remains(c, clip, right), NEW k \in rest
    PROVE  Plain(k)
<1>1. PICK left : left = Resegment(clip, clip.id, clip.at, clip.from, c.from - clip.at)  OBVIOUS
<1>2. PICK tail : tail = Resegment(clip, IF clip.at < c.from THEN right ELSE clip.id,
                            IF c.ripple THEN c.from ELSE c.to,
                            clip.from + (c.to - clip.at), End(clip) - c.to)
  OBVIOUS
<1>3. PICK moved : moved = Resegment(clip, clip.id, clip.at - (c.to - c.from), clip.from, clip.len)
  OBVIOUS
<1>4. \/ rest = {clip}
      \/ \E m \in moved : rest = {m}
      \/ \E l \in left, r \in tail : rest = {l, r}
      \/ \E l \in left : rest = {l}
      \/ \E r \in tail : rest = {r}
      \/ rest = {}
  BY <1>3, <1>1, <1>2 DEF Remains
<1>d. k = clip \/ k \in left \/ k \in tail \/ k \in moved  BY <1>4
<1>5. CASE k = clip  BY <1>5
<1>6. CASE k \in left  BY <1>1, <1>6, CutIs
<1>7. CASE k \in tail  BY <1>2, <1>7, CutIs
<1>8. CASE k \in moved  BY <1>3, <1>8, CutIs
<1> QED  BY <1>d, <1>5, <1>6, <1>7, <1>8

\* The clips that replace those of a track are one set, of plain clips.
LEMMA ReplacementIs ==
    ASSUME NEW tl, Sound(tl), NEW c, NEW i \in DOMAIN tl.tracks, NEW clips \in Replacement(tl, c, i)
    PROVE  (\A k \in clips : Plain(k)) /\ Replacement(tl, c, i) = {clips}
<1> DEFINE rank == Cardinality({j \in 1 .. i : Spans(c, tl.tracks[j])})
           right == IF rank \in DOMAIN c.rights THEN c.rights[rank] ELSE <<>>
           parts == [k \in tl.tracks[i].clips |-> Remains(c, k, right)]
           all == UNION UNION {parts[k] : k \in DOMAIN parts}
           fits == \A k \in DOMAIN parts : parts[k] # {}
<1>1. Replacement(tl, c, i) = Allowed(all, fits)  BY DEF Replacement
<1>2. DOMAIN parts = tl.tracks[i].clips /\ \A k \in tl.tracks[i].clips : parts[k] = Remains(c, k, right)
  OBVIOUS
<1> HIDE DEF rank, right, parts
<1>3. ASSUME NEW k \in all PROVE Plain(k)
 <2>1. PICK m \in tl.tracks[i].clips : \E rest \in Remains(c, m, right) : k \in rest  BY <1>2
 <2>2. Plain(m)  BY DEF Sound, Filled
 <2> QED  BY <2>1, <2>2, RemainsArePlain
<1> HIDE DEF all, fits
<1>4. clips = all /\ Replacement(tl, c, i) = {all}  BY <1>1 DEF Allowed
<1> QED  BY <1>3, <1>4

\* The deletion has gone through the first k tracks.
CutTo(t, tl, c, k) ==
    /\ Sound(t) /\ Alike(t, tl)
    /\ \A j \in DOMAIN tl.tracks : IF j <= k THEN Replacement(tl, c, j) = {t.tracks[j].clips}
                                   ELSE t.tracks[j].clips = tl.tracks[j].clips

\* One track more.
LEMMA CutStepWorks ==
    ASSUME NEW tl, Sound(tl), NEW c, NEW i \in DOMAIN tl.tracks, NEW timelines,
           \A t \in timelines : CutTo(t, tl, c, i - 1), NEW r \in CutStep(tl, c, timelines, i)
    PROVE  CutTo(r, tl, c, i)
<1>0. DOMAIN tl.tracks = 1 .. Len(tl.tracks) /\ Len(tl.tracks) \in Nat  BY ListIs DEF Sound, Shaped
<1>1. PICK t \in timelines, clips \in Replacement(tl, c, i) : r \in ReplaceTrackClips(t, tl.tracks[i].id, clips)
  BY DEF CutStep
<1>2. CutTo(t, tl, c, i - 1)  BY <1>1
<1>3. Sound(t) /\ Alike(t, tl) /\ Named(tl)  BY <1>2 DEF CutTo, Sound
<1>4. Given(t, tl, i, clips, r)  BY <1>1, <1>3, ReplacesTrack
<1>5. (\A k \in clips : Plain(k)) /\ Replacement(tl, c, i) = {clips}  BY <1>1, ReplacementIs
<1>6. Sound(r)  BY <1>3, <1>4, <1>5, SwapSound DEF Alike, Given
<1>7. ASSUME NEW j \in DOMAIN tl.tracks
      PROVE  IF j <= i THEN Replacement(tl, c, j) = {r.tracks[j].clips} ELSE r.tracks[j].clips = tl.tracks[j].clips
  BY <1>0, <1>4, <1>5, <1>2 DEF Given, CutTo
<1> QED  BY <1>4, <1>6, <1>7 DEF CutTo, Given

\* All tracks.
LEMMA CutAll ==
    ASSUME NEW tl, Sound(tl), NEW c, NEW x \in DeleteRange(tl, c)
    PROVE  /\ CutTo(x.tl, tl, c, Len(tl.tracks))
           /\ x = [tl |-> x.tl, undo |-> [previous |-> Previous(tl, c)]]
<1>1. PICK n \in Nat : n = Len(tl.tracks)  BY ListIs DEF Sound, Shaped
<1>2. DOMAIN tl.tracks = 1 .. n  BY <1>1, ListIs DEF Sound, Shaped
<1>3. PICK g : /\ g[0] = {tl}
               /\ \A k \in 1 .. n : g[k] = CutStep(tl, c, g[k - 1], k)
               /\ DeleteRange(tl, c) \subseteq Then(g[n], [previous |-> Previous(tl, c)])
  BY <1>1, DeleteRuns
<1> DEFINE Fine(k) == \A t \in g[k] : CutTo(t, tl, c, k)
           Missed == {k \in 0 .. n : ~Fine(k)}
<1>4. Fine(0)  BY <1>2, <1>3 DEF CutTo, Alike, Sound
<1>5. ASSUME NEW k \in 1 .. n, Fine(k - 1) PROVE Fine(k)
 <2>1. ASSUME NEW r \in g[k] PROVE CutTo(r, tl, c, k)  BY <1>3, <1>5, <1>2, CutStepWorks
 <2> QED  BY <2>1
<1>6. Missed = {}
 <2> SUFFICES ASSUME Missed # {} PROVE FALSE  OBVIOUS
 <2>1. Missed \subseteq Nat /\ \A k : k \in Missed <=> (k \in 0 .. n /\ ~Fine(k))  OBVIOUS
 <2> HIDE DEF Missed, Fine
 <2>2. PICK m \in Missed : \A e \in Missed : m <= e  BY <2>1, LeastOf
 <2>3. m \in 1 .. n  BY <1>4, <2>1, <2>2
 <2>4. m - 1 \in 0 .. n /\ m - 1 \notin Missed  BY <2>2, <2>3
 <2>5. Fine(m - 1)  BY <2>1, <2>4
 <2> QED  BY <1>5, <2>1, <2>2, <2>3, <2>5
<1>7. Fine(n)
 <2> HIDE DEF Fine
 <2>1. n \notin Missed /\ n \in 0 .. n  BY <1>6
 <2> QED  BY <2>1
<1> HIDE DEF Missed
<1>8. PICK u : u = [previous |-> Previous(tl, c)]  OBVIOUS
<1>9. PICK t \in g[n] : x = [tl |-> t, undo |-> u]  BY <1>3, <1>8 DEF Then
<1>10. x.tl = t  BY <1>9
<1>11. CutTo(t, tl, c, n)  BY <1>7, <1>9
<1> QED  BY <1>1, <1>8, <1>9, <1>10, <1>11

\* What the undo state says of track i.
RestoredOn(tl, u, i) == {p \in u.previous : p.track = tl.tracks[i].id}

\* Timelines with the clips that track i had.
RestoreStep(tl, u, timelines, i) ==
    IF RestoredOn(tl, u, i) = {} THEN timelines
    ELSE UNION {ReplaceTrackClips(t, p.track, p.clips) : t \in timelines, p \in RestoredOn(tl, u, i)}

RestoreRun(tl, c, u, n, g) ==
    /\ g[0] = {tl}
    /\ \A k \in 1 .. n : g[k] = RestoreStep(tl, u, g[k - 1], k)
    /\ UndoDelete(tl, c, u) = g[n]

\* So does taking it back.
LEMMA RestoreRuns ==
    ASSUME NEW tl, NEW c, NEW u, NEW n \in Nat, n = Len(tl.tracks)
    PROVE  \E g : RestoreRun(tl, c, u, n, g)
<1> DEFINE base == {tl}
           seq == [i \in 1 .. n |-> i]
           Step(v, i) == RestoreStep(tl, u, v, i)
           Body(f, t) == IF t = {} THEN base ELSE Step(f[t \ {Max(t)}], seq[Max(t)])
           Fun(f, m) == f = [t \in SUBSET (1 .. m) |-> Body(f, t)]
           Result == (CHOOSE f : f = [t \in SUBSET DOMAIN seq |-> Body(f, t)])[DOMAIN seq]
<1>1. UndoDelete(tl, c, u) = Result
  BY DEF UndoDelete, FoldLeft, MapThenFoldSet, RestoreStep, RestoredOn
<1>2. DOMAIN seq = 1 .. n /\ \A k \in 1 .. n : seq[k] = k  OBVIOUS
<1> HIDE DEF base, seq, Step
<1>3. \E f : Fun(f, 0)
 <2>1. SUBSET (1 .. 0) = {{}}  OBVIOUS
 <2> DEFINE f == [t \in {{}} |-> base]
 <2>2. \A t \in {{}} : Body(f, t) = base  OBVIOUS
 <2> HIDE DEF Body
 <2>3. f = [t \in {{}} |-> Body(f, t)]  BY <2>2
 <2>4. f = [t \in SUBSET (1 .. 0) |-> Body(f, t)]  BY <2>1, <2>3
 <2> HIDE DEF f
 <2> QED  BY <2>4
<1>4. ASSUME NEW m \in Nat, \E f : Fun(f, m) PROVE \E f : Fun(f, m + 1)
 <2>1. PICK f : Fun(f, m)  BY <1>4
 <2> DEFINE S == SUBSET (1 .. m + 1)
            Prev(t) == t \ {Max(t)}
            h == [t \in S |-> IF t \in SUBSET (1 .. m) THEN f[t]
                              ELSE Step(f[Prev(t)], seq[Max(t)])]
 <2>2. ASSUME NEW t \in S, t # {} PROVE Prev(t) \in SUBSET (1 .. m) /\ Prev(t) \in S
  <3>0. PICK p \in Nat : p = m + 1  OBVIOUS
  <3>p. t \in SUBSET (1 .. p) /\ t # {}  BY <2>2, <3>0
  <3>1. Max(t) \in t /\ \A y \in t : Max(t) >= y  BY <3>p, MaxIs
  <3>2. ASSUME NEW y \in t, y # Max(t) PROVE y \in 1 .. m
   <4>1. PICK x : x = Max(t)  OBVIOUS
   <4>2. x \in 1 .. m + 1 /\ y \in 1 .. m + 1 /\ x >= y /\ y # x  BY <3>1, <3>2, <4>1
   <4> QED  BY <4>2
  <3> QED  BY <3>2
 <2>3. \A t \in SUBSET (1 .. m) : t \in S  OBVIOUS
 <2> HIDE DEF S, Prev
 <2>4. \A t \in SUBSET (1 .. m) : h[t] = f[t]  BY <2>3
 <2>5. \A t \in S : t # {} => h[Prev(t)] = f[Prev(t)]  BY <2>2, <2>4
 <2>6. \A t \in SUBSET (1 .. m) : f[t] = Body(f, t)  BY <2>1
 <2>7. ASSUME NEW t \in S PROVE h[t] = Body(h, t)
  <3>1. CASE t = {}  BY <3>1, <2>4, <2>6
  <3>2. CASE t # {}
   <4>1. Body(h, t) = Step(h[Prev(t)], seq[Max(t)])  BY <3>2 DEF Prev
   <4>2. Body(h, t) = Step(f[Prev(t)], seq[Max(t)])  BY <2>5, <3>2, <4>1
   <4>3. CASE t \in SUBSET (1 .. m)  BY <2>6, <3>2, <4>3, <2>4, <4>2 DEF Prev
   <4>4. CASE t \notin SUBSET (1 .. m)  BY <4>2, <4>4
   <4> QED  BY <4>3, <4>4
  <3> QED  BY <3>1, <3>2
 <2>8. h = [t \in S |-> h[t]]  OBVIOUS
 <2> HIDE DEF h, Body
 <2>9. h = [t \in S |-> Body(h, t)]  BY <2>7, <2>8
 <2> QED  BY <2>9 DEF S
<1> DEFINE Missed == {m \in Nat : ~\E f : Fun(f, m)}
<1>5. Missed = {}
 <2> SUFFICES ASSUME Missed # {} PROVE FALSE  OBVIOUS
 <2>1. Missed \subseteq Nat /\ \A m : m \in Missed <=> (m \in Nat /\ ~\E f : Fun(f, m))  OBVIOUS
 <2> HIDE DEF Missed, Fun
 <2>2. PICK m \in Missed : \A e \in Missed : m <= e  BY <2>1, LeastOf
 <2>3. m \in Nat /\ m # 0  BY <1>3, <2>1, <2>2
 <2>4. m - 1 \in Nat /\ m - 1 \notin Missed  BY <2>2, <2>3
 <2>5. \E f : Fun(f, m - 1)  BY <2>1, <2>4
 <2>6. \E f : Fun(f, (m - 1) + 1)  BY <1>4, <2>4, <2>5
 <2>7. (m - 1) + 1 = m  BY <2>3
 <2> QED  BY <2>1, <2>2, <2>6, <2>7
<1> DEFINE it == CHOOSE f : f = [t \in SUBSET DOMAIN seq |-> Body(f, t)]
<1>6. it = [t \in SUBSET (1 .. n) |-> Body(it, t)]
 <2>1. \E f : Fun(f, n)
  <3> HIDE DEF Fun
  <3>1. n \notin Missed  BY <1>5
  <3> QED  BY <3>1
 <2> HIDE DEF Body
 <2>2. \E f : f = [t \in SUBSET DOMAIN seq |-> Body(f, t)]  BY <1>2, <2>1
 <2>3. it = [t \in SUBSET DOMAIN seq |-> Body(it, t)]  BY <2>2
 <2> QED  BY <1>2, <2>3
<1>7. Result = it[1 .. n]  BY <1>2
<1> HIDE DEF it, Result, Missed
<1> DEFINE g == [k \in 0 .. n |-> it[1 .. k]]
<1>8. g[0] = base  BY <1>6
<1>9. ASSUME NEW k \in 1 .. n PROVE g[k] = Step(g[k - 1], k)
 <2>1. k \in Nat /\ k >= 1 /\ k \in 0 .. n /\ k - 1 \in 0 .. n  OBVIOUS
 <2>2. Max(1 .. k) = k /\ (1 .. k) \ {k} = 1 .. k - 1 /\ 1 .. k # {}  BY <2>1, MaxOfPrefix
 <2>3. PICK t : t = 1 .. k  OBVIOUS
 <2>4. t \in SUBSET (1 .. n) /\ t # {} /\ t \ {Max(t)} = 1 .. k - 1 /\ Max(t) = k  BY <2>2, <2>3
 <2>5. it[t] = Step(it[t \ {Max(t)}], seq[Max(t)])  BY <1>6, <2>4
 <2>6. it[t] = Step(it[1 .. k - 1], k)  BY <1>2, <2>4, <2>5
 <2>7. g[k] = it[1 .. k] /\ g[k - 1] = it[1 .. k - 1]  BY <2>1
 <2> QED  BY <2>3, <2>6, <2>7
<1>10. g[n] = Result  BY <1>7
<1> HIDE DEF g
<1> QED  BY <1>1, <1>8, <1>9, <1>10 DEF base, Step, RestoreRun


\* Timeline e without the clips of d on the first k tracks.
Mended(t, d, e, k) ==
    /\ Alike(t, d)
    /\ \A j \in DOMAIN d.tracks : t.tracks[j].clips = IF j <= k THEN d.tracks[j].clips ELSE e.tracks[j].clips

\* One track more.
LEMMA RestoreStepWorks ==
    ASSUME NEW tl, Sound(tl), NEW c, NEW e, CutTo(e, tl, c, Len(tl.tracks)),
           NEW u, u = [previous |-> Previous(tl, c)],
           NEW i \in DOMAIN tl.tracks, NEW timelines,
           \A t \in timelines : Mended(t, tl, e, i - 1), NEW r \in RestoreStep(e, u, timelines, i)
    PROVE  Mended(r, tl, e, i)
<1>0. DOMAIN tl.tracks = 1 .. Len(tl.tracks) /\ Len(tl.tracks) \in Nat  BY ListIs DEF Sound, Shaped
<1>1. /\ Alike(e, tl) /\ Named(tl) /\ e.tracks[i].id = tl.tracks[i].id
      /\ Replacement(tl, c, i) = {e.tracks[i].clips}
  BY <1>0 DEF CutTo, Sound, Alike
<1>2. \A j \in DOMAIN tl.tracks : j # i => ((j <= i) <=> (j <= i - 1))  BY <1>0
<1>p. u.previous = Previous(tl, c)  OBVIOUS
<1>3. ASSUME NEW p \in RestoredOn(e, u, i)
      PROVE  p.track = tl.tracks[i].id /\ p.clips = tl.tracks[i].clips /\ e.tracks[i].clips # tl.tracks[i].clips
 <2>1. p \in Previous(tl, c) /\ p.track = tl.tracks[i].id  BY <1>1, <1>p DEF RestoredOn
 <2>2. PICK j \in DOMAIN tl.tracks : /\ Replacement(tl, c, j) # {tl.tracks[j].clips}
                                     /\ p = [track |-> tl.tracks[j].id, clips |-> tl.tracks[j].clips]
   BY <1>0, <2>1 DEF Previous
 <2>3. j = i  BY <1>1, <2>1, <2>2 DEF Named
 <2> QED  BY <1>1, <2>1, <2>2, <2>3
<1>4. CASE RestoredOn(e, u, i) = {}
 <2>1. Replacement(tl, c, i) = {tl.tracks[i].clips}
  <3> SUFFICES ASSUME Replacement(tl, c, i) # {tl.tracks[i].clips} PROVE FALSE  OBVIOUS
  <3>1. PICK p : p = [track |-> tl.tracks[i].id, clips |-> tl.tracks[i].clips]  OBVIOUS
  <3>2. p \in Previous(tl, c)  BY <1>0, <3>1 DEF Previous
  <3>3. p \in RestoredOn(e, u, i)  BY <1>1, <1>p, <3>1, <3>2 DEF RestoredOn
  <3> QED  BY <1>4, <3>3
 <2>2. e.tracks[i].clips = tl.tracks[i].clips  BY <1>1, <2>1
 <2>3. Mended(r, tl, e, i - 1)  BY <1>4 DEF RestoreStep
 <2>4. ASSUME NEW j \in DOMAIN tl.tracks
       PROVE  r.tracks[j].clips = IF j <= i THEN tl.tracks[j].clips ELSE e.tracks[j].clips
   BY <2>3, <1>2, <2>2 DEF Mended
 <2> QED  BY <2>3, <2>4 DEF Mended
<1>5. CASE RestoredOn(e, u, i) # {}
 <2>1. PICK t \in timelines, p \in RestoredOn(e, u, i) : r \in ReplaceTrackClips(t, p.track, p.clips)
   BY <1>5 DEF RestoreStep
 <2>2. Mended(t, tl, e, i - 1)  BY <2>1
 <2>3. PICK K : K = tl.tracks[i].clips  OBVIOUS
 <2>4. r \in ReplaceTrackClips(t, tl.tracks[i].id, K) /\ Alike(t, tl)
   BY <1>3, <2>1, <2>2, <2>3 DEF Mended
 <2>5. Given(t, tl, i, K, r)  BY <1>1, <2>4, ReplacesTrack
 <2>6. ASSUME NEW j \in DOMAIN tl.tracks
       PROVE  r.tracks[j].clips = IF j <= i THEN tl.tracks[j].clips ELSE e.tracks[j].clips
   BY <1>0, <2>3, <2>5, <2>2, <1>2 DEF Given, Mended
 <2> QED  BY <2>5, <2>6 DEF Mended, Given
<1> QED  BY <1>4, <1>5

\* Delete a range, and bring it back.
LEMMA DeleteWorks ==
    ASSUME NEW tl, Sound(tl), NEW c, NEW x \in DeleteRange(tl, c)
    PROVE  /\ Sound(x.tl)
           /\ \A y \in DeleteRange(tl, c) : y = [tl |-> x.tl, undo |-> x.undo]
           /\ UndoDelete(x.tl, c, x.undo) \subseteq {tl}
<1>0. PICK n \in Nat : n = Len(tl.tracks)  BY ListIs DEF Sound, Shaped
<1>d. DOMAIN tl.tracks = 1 .. n  BY <1>0, ListIs DEF Sound, Shaped
<1>1. PICK e, u : e = x.tl /\ u = [previous |-> Previous(tl, c)]  OBVIOUS
<1>2. CutTo(e, tl, c, n) /\ x = [tl |-> e, undo |-> u]  BY <1>0, <1>1, CutAll
<1>3. Sound(e) /\ Alike(e, tl) /\ x.undo = u  BY <1>2 DEF CutTo
<1>4. ASSUME NEW y \in DeleteRange(tl, c) PROVE y = [tl |-> x.tl, undo |-> x.undo]
 <2>1. PICK f : f = y.tl  OBVIOUS
 <2>2. CutTo(f, tl, c, n) /\ y = [tl |-> f, undo |-> u]  BY <1>0, <1>1, <2>1, CutAll
 <2>3. \A j \in DOMAIN tl.tracks : e.tracks[j].clips = f.tracks[j].clips
   BY <1>d, <1>2, <2>2 DEF CutTo
 <2>4. f = e  BY <1>2, <2>2, <2>3, SameTimeline DEF CutTo, Alike
 <2> QED  BY <1>1, <1>3, <2>2, <2>4
<1>5. PICK g : /\ g[0] = {e}
               /\ \A k \in 1 .. n : g[k] = RestoreStep(e, u, g[k - 1], k)
               /\ UndoDelete(e, c, u) = g[n]
 <2>1. n = Len(e.tracks)  BY <1>0, <1>3 DEF Alike
 <2>2. PICK g : RestoreRun(e, c, u, n, g)  BY <2>1, RestoreRuns
 <2> QED  BY <2>2 DEF RestoreRun
<1> DEFINE Fine(k) == \A t \in g[k] : Mended(t, tl, e, k)
           Missed == {k \in 0 .. n : ~Fine(k)}
<1>6. Fine(0)  BY <1>d, <1>3, <1>5 DEF Mended
<1>7. ASSUME NEW k \in 1 .. n, Fine(k - 1) PROVE Fine(k)
 <2>1. ASSUME NEW r \in g[k] PROVE Mended(r, tl, e, k)
   BY <1>5, <1>7, <1>0, <1>d, <1>2, <1>1, RestoreStepWorks
 <2> QED  BY <2>1
<1>8. Missed = {}
 <2> SUFFICES ASSUME Missed # {} PROVE FALSE  OBVIOUS
 <2>1. Missed \subseteq Nat /\ \A k : k \in Missed <=> (k \in 0 .. n /\ ~Fine(k))  OBVIOUS
 <2> HIDE DEF Missed, Fine
 <2>2. PICK m \in Missed : \A l \in Missed : m <= l  BY <2>1, LeastOf
 <2>3. m \in 1 .. n  BY <1>6, <2>1, <2>2
 <2>4. m - 1 \in 0 .. n /\ m - 1 \notin Missed  BY <2>2, <2>3
 <2>5. Fine(m - 1)  BY <2>1, <2>4
 <2> QED  BY <1>7, <2>1, <2>2, <2>3, <2>5
<1>9. Fine(n)
 <2> HIDE DEF Fine
 <2>1. n \notin Missed /\ n \in 0 .. n  BY <1>8
 <2> QED  BY <2>1
<1> HIDE DEF Missed
<1>10. ASSUME NEW t \in UndoDelete(e, c, u) PROVE t = tl
  BY <1>5, <1>9, <1>d, SameTimeline DEF Mended, Alike, Sound
<1> QED  BY <1>1, <1>3, <1>4, <1>10

----------------------------------------------------------------------------
(* Importing a recording                                                   *)

\* A track of clips no other track has keeps a timeline sound.
LEMMA GrowFilled ==
    ASSUME NEW tl, Sound(tl), NEW t, IsTrack(t), t.id \notin TrackIds(tl),
           ValidClips(t.kind, t.clips), \A c \in t.clips : Plain(c) /\ Unused(tl, c.id),
           NEW u, u = Grow(tl, t)
    PROVE  Sound(u)
<1>1. Shaped(tl)  BY DEF Sound
<1>2. /\ Shaped(u) /\ Len(tl.tracks) \in Nat
      /\ DOMAIN tl.tracks = 1 .. Len(tl.tracks) /\ DOMAIN u.tracks = 1 .. Len(tl.tracks) + 1
      /\ u.tracks[Len(tl.tracks) + 1] = t
      /\ \A i \in 1 .. Len(tl.tracks) : u.tracks[i] = tl.tracks[i]
  BY <1>1, GrowIs
<1>3. PICK n : n = Len(tl.tracks)  OBVIOUS
<1>4. /\ n \in Nat /\ DOMAIN tl.tracks = 1 .. n /\ DOMAIN u.tracks = 1 .. n + 1
      /\ u.tracks[n + 1] = t
      /\ \A i \in 1 .. n : u.tracks[i] = tl.tracks[i]
  BY <1>2, <1>3
<1>5. \A i \in DOMAIN u.tracks : i = n + 1 \/ i \in 1 .. n  BY <1>4
<1>6. \A i \in 1 .. n : u.tracks[i].id # t.id  BY <1>4 DEF TrackIds
<1>7. Named(u)  BY <1>4, <1>5, <1>6 DEF Sound, Named
<1>8. Filled(u)
 <2> SUFFICES ASSUME NEW i \in DOMAIN u.tracks
              PROVE  ValidClips(u.tracks[i].kind, u.tracks[i].clips) /\ \A c \in u.tracks[i].clips : Plain(c)
   BY DEF Filled
 <2>1. CASE i = n + 1  BY <1>4, <2>1
 <2>2. CASE i \in 1 .. n  BY <1>4, <2>2 DEF Sound, Filled
 <2> QED  BY <1>5, <2>1, <2>2
<1>9. Unshared(u)
 <2> SUFFICES ASSUME NEW i \in DOMAIN u.tracks, NEW j \in DOMAIN u.tracks,
                     NEW c \in u.tracks[i].clips, NEW d \in u.tracks[j].clips, c.id = d.id
              PROVE  i = j
   BY DEF Unshared
 <2>1. CASE i \in 1 .. n /\ j \in 1 .. n  BY <1>4, <2>1 DEF Sound, Unshared
 <2>2. CASE i = n + 1 /\ j \in 1 .. n  BY <1>4, <2>2 DEF Unused
 <2>3. CASE i \in 1 .. n /\ j = n + 1  BY <1>4, <2>3 DEF Unused
 <2>4. CASE i = n + 1 /\ j = n + 1  BY <2>4
 <2> QED  BY <1>5, <2>1, <2>2, <2>3, <2>4
<1> QED  BY <1>2, <1>7, <1>8, <1>9 DEF Sound

\* Two tracks of a take: sound and apart from each other.
Pair(a, b) ==
    /\ IsTrack(a) /\ IsTrack(b) /\ a.id # b.id
    /\ ValidClips(a.kind, a.clips) /\ ValidClips(b.kind, b.clips)
    /\ \A k \in a.clips : Plain(k)
    /\ \A k \in b.clips : Plain(k) /\ \A d \in a.clips : d.id # k.id

\* A list with two more members.
LEMMA TwoMore ==
    ASSUME NEW s, IsList(s), NEW a, NEW b
    PROVE  s \o <<a, b>> = Append(Append(s, a), b)
<1> DEFINE S == {s[i] : i \in DOMAIN s} \cup {a, b}
<1>1. s \in Seq({s[i] : i \in DOMAIN s})  BY DEF IsList
<1> HIDE DEF S
<1>2. s \in Seq(S) /\ a \in S /\ b \in S  BY <1>1 DEF S
<1>3. PICK p : p = s \o <<a, b>>  OBVIOUS
<1>4. PICK q : q = Append(s, a)  OBVIOUS
<1>5. PICK r : r = Append(q, b)  OBVIOUS
<1>6. Longer(s, a, q)  BY <1>4, AppendIs
<1>7. Longer(q, b, r)
 <2>1. IsList(q)  BY <1>6 DEF Longer
 <2> QED  BY <1>5, <2>1, AppendIs
<1>8. <<a, b>> \in Seq(S) /\ Len(<<a, b>>) = 2  BY <1>2
<1>9. /\ s \o <<a, b>> \in Seq(S) /\ Len(s \o <<a, b>>) = Len(s) + Len(<<a, b>>)
      /\ \A i \in 1 .. Len(s) + Len(<<a, b>>) : (s \o <<a, b>>)[i] =
                     IF i <= Len(s) THEN s[i] ELSE <<a, b>>[i - Len(s)]
  BY <1>2, <1>8, ConcatProperties
<1>10. Len(s) \in Nat /\ Len(q) = Len(s) + 1 /\ Len(r) = Len(s) + 2  BY <1>6, <1>7 DEF Longer
<1>11. IsList(p) /\ Len(p) = Len(s) + 2  BY <1>3, <1>8, <1>9, SeqIsList
<1>12. ASSUME NEW i \in 1 .. Len(p) PROVE p[i] = r[i]
  BY <1>3, <1>8, <1>9, <1>11, <1>10, <1>6, <1>7 DEF Longer
<1>13. IsList(r)  BY <1>7 DEF Longer
<1>14. p = r  BY <1>10, <1>11, <1>12, <1>13, SameList
<1> QED  BY <1>3, <1>4, <1>5, <1>14

\* The tracks without the one of an identity.
LEMMA ErasedIs ==
    ASSUME NEW s, NEW n \in DOMAIN s, NEW track, s[n].id = track.id,
           \A m \in DOMAIN s : s[m].id = track.id => m = n
    PROVE  Erased(s, track) = RemoveAt(s, n)
  BY DEF Erased

\* The list r is s without its member n.
Shorter(s, n, r) ==
    /\ IsList(r) /\ Len(s) \in Nat /\ Len(r) = Len(s) - 1
    /\ \A i \in 1 .. Len(s) - 1 : r[i] = IF i < n THEN s[i] ELSE s[i + 1]

\* Taking a member out makes a list shorter.
LEMMA RemovedIsShorter ==
    ASSUME NEW s, IsList(s), NEW n \in 1 .. Len(s), NEW r, r = RemoveAt(s, n)
    PROVE  Shorter(s, n, r)
  BY RemoveAtIs DEF Shorter

\* Two tracks are told apart from each other and from the tracks of a list.
ApartFrom(s, a, b) == a.id # b.id /\ \A i \in DOMAIN s : s[i].id # a.id /\ s[i].id # b.id

\* The tracks of a take are erased one after the other.
ErasedBack(s, a, b) == Erased(Erased(Append(Append(s, a), b), a), b) = s

LEMMA ErasedAgain ==
    ASSUME NEW s, IsList(s), NEW a, NEW b, ApartFrom(s, a, b)
    PROVE  ErasedBack(s, a, b)
<1>a. a.id # b.id /\ \A i \in DOMAIN s : s[i].id # a.id /\ s[i].id # b.id  BY DEF ApartFrom
<1>b. PICK q : q = Append(s, a)  OBVIOUS
<1>c. PICK r : r = Append(q, b)  OBVIOUS
<1>1. Longer(s, a, q)  BY <1>b, AppendIs
<1>2. Longer(q, b, r)
 <2>1. IsList(q)  BY <1>1 DEF Longer
 <2> QED  BY <1>c, <2>1, AppendIs
<1>3. PICK n \in Nat : n = Len(s)  BY <1>1 DEF Longer
<1>4. /\ Len(q) = n + 1 /\ Len(r) = n + 2 /\ DOMAIN s = 1 .. n /\ DOMAIN q = 1 .. n + 1 /\ DOMAIN r = 1 .. n + 2
      /\ q[n + 1] = a /\ \A i \in 1 .. n : q[i] = s[i]
  BY <1>3, <1>1, <1>2 DEF Longer
<1>5. r[n + 2] = b /\ r[n + 1] = a /\ \A i \in 1 .. n : r[i] = s[i]  BY <1>3, <1>4, <1>2 DEF Longer
<1>6. PICK t : t = Erased(r, a)  OBVIOUS
<1>7. t = RemoveAt(r, n + 1)
 <2>1. n + 1 \in DOMAIN r /\ r[n + 1].id = a.id  BY <1>a, <1>3, <1>4, <1>5
 <2>2. \A m \in DOMAIN r : r[m].id = a.id => m = n + 1  BY <1>a, <1>3, <1>4, <1>5
 <2>3. Erased(r, a) = RemoveAt(r, n + 1)  BY <2>1, <2>2, ErasedIs
 <2> QED  BY <1>6, <2>3
<1>8. IsList(t) /\ Len(t) = n + 1 /\ \A i \in 1 .. n + 1 : t[i] = IF i < n + 1 THEN r[i] ELSE r[i + 1]
 <2>1. IsList(r) /\ n + 1 \in 1 .. Len(r)  BY <1>2, <1>3, <1>4 DEF Longer
 <2>2. PICK m : m = n + 1  OBVIOUS
 <2>3. m \in 1 .. Len(r) /\ t = RemoveAt(r, m)  BY <1>7, <2>1, <2>2
 <2>7. IsList(r) /\ m \in 1 .. Len(r) /\ t = RemoveAt(r, m)  BY <2>1, <2>3
 <2>4. /\ IsList(t) /\ Len(r) \in Nat /\ Len(t) = Len(r) - 1
       /\ \A i \in 1 .. Len(r) - 1 : t[i] = IF i < m THEN r[i] ELSE r[i + 1]
   BY <2>7, RemovedIsShorter DEF Shorter
 <2>5. Len(r) - 1 = n + 1  BY <1>3, <1>4
 <2> QED  BY <2>2, <2>4, <2>5
<1>9. DOMAIN t = 1 .. n + 1 /\ t[n + 1] = b /\ \A i \in 1 .. n : t[i] = s[i]
  BY <1>8, ListIs, <1>3, <1>5
<1>10. PICK v : v = Erased(t, b)  OBVIOUS
<1>11. v = RemoveAt(t, n + 1)
 <2>1. n + 1 \in DOMAIN t /\ t[n + 1].id = b.id  BY <1>3, <1>9
 <2>2. \A m \in DOMAIN t : t[m].id = b.id => m = n + 1  BY <1>a, <1>3, <1>4, <1>9
 <2>3. Erased(t, b) = RemoveAt(t, n + 1)  BY <2>1, <2>2, ErasedIs
 <2> QED  BY <1>10, <2>3
<1>12. IsList(v) /\ Len(v) = n /\ \A i \in 1 .. n : v[i] = t[i]
 <2>2. PICK m : m = n + 1  OBVIOUS
 <2>3. m \in 1 .. Len(t) /\ v = RemoveAt(t, m) /\ IsList(t)  BY <1>3, <1>8, <1>11, <2>2
 <2>4. /\ IsList(v) /\ Len(t) \in Nat /\ Len(v) = Len(t) - 1
       /\ \A i \in 1 .. Len(t) - 1 : v[i] = IF i < m THEN t[i] ELSE t[i + 1]
   BY <2>3, RemoveAtIs
 <2>5. Len(t) - 1 = n /\ \A i \in 1 .. n : i < m  BY <1>3, <1>8, <2>2
 <2> QED  BY <2>4, <2>5
<1>13. v = s  BY <1>3, <1>9, <1>12, SameList
<1> QED  BY <1>b, <1>c, <1>6, <1>10, <1>13 DEF ErasedBack

\* ImportRecordingCommand::undo, of two tracks.
LEMMA UndoImportIs ==
    ASSUME NEW tl, NEW c, NEW u, NEW a, NEW b, c.tracks = <<a, b>>,
           NEW r \in UndoImport(tl, c, u)
    PROVE  r = [tracks |-> Erased(Erased(tl.tracks, a), b), markers |-> tl.markers \ c.markers]
<1> DEFINE base == tl.tracks
           seq == <<a, b>>
           Body(f, t) == IF t = {} THEN base ELSE Erased(f[t \ {Max(t)}], seq[Max(t)])
           it == CHOOSE f : f = [t \in SUBSET DOMAIN seq |-> Body(f, t)]
           Result == it[DOMAIN seq]
<1>1. r = [tracks |-> Result, markers |-> tl.markers \ c.markers]
  BY DEF UndoImport, FoldLeft, MapThenFoldSet, Allowed
<1>2. DOMAIN seq = 1 .. 2 /\ seq[1] = a /\ seq[2] = b  OBVIOUS
<1> HIDE DEF base, seq
<1> DEFINE h == [t \in SUBSET (1 .. 2) |->
                    IF t = {} THEN base
                    ELSE IF t = {1} THEN Erased(base, a)
                    ELSE IF t = {2} THEN Erased(base, b)
                    ELSE Erased(Erased(base, a), b)]
<1>3. /\ 1 .. 2 = {1, 2}
      /\ \A t \in SUBSET (1 .. 2) : t = {} \/ t = {1} \/ t = {2} \/ t = {1, 2}
 <2>1. 1 .. 2 = {1, 2}  OBVIOUS
 <2> QED  BY <2>1
<1>4. Max({1}) = 1 /\ Max({2}) = 2 /\ Max({1, 2}) = 2  BY DEF Max
<1>5. ASSUME NEW t \in SUBSET (1 .. 2) PROVE h[t] = Body(h, t)
 <2>1. CASE t = {}  BY <2>1
 <2>2. CASE t = {1}  BY <1>4, <2>2, <1>2
 <2>3. CASE t = {2}  BY <1>4, <2>3, <1>2
 <2>4. CASE t = {1, 2}  BY <1>3, <1>4, <2>4, <1>2
 <2> QED  BY <1>3, <2>1, <2>2, <2>3, <2>4
<1>6. h = [t \in SUBSET (1 .. 2) |-> h[t]]  OBVIOUS
<1> HIDE DEF h, Body
<1>7. h = [t \in SUBSET DOMAIN seq |-> Body(h, t)]  BY <1>2, <1>5, <1>6
<1>8. it = [t \in SUBSET DOMAIN seq |-> Body(it, t)]  BY <1>7
<1> HIDE DEF it
<1>9. \A t \in SUBSET (1 .. 2) : it[t] = Body(it, t)  BY <1>2, <1>8
<1>10. Result = it[{1, 2}]  BY <1>2, <1>3
<1>11. it[{}] = base  BY <1>9 DEF Body
<1>12. it[{1}] = Erased(base, a)  BY <1>3, <1>4, <1>9, <1>2, <1>11 DEF Body
<1>13. it[{1, 2}] = Erased(Erased(base, a), b)
 <2>1. {1, 2} \ {Max({1, 2})} = {1} /\ {1, 2} # {} /\ {1, 2} \in SUBSET (1 .. 2)  BY <1>3, <1>4
 <2>2. it[{1, 2}] = Erased(it[{1}], seq[2])  BY <1>4, <1>9, <2>1 DEF Body
 <2> QED  BY <1>2, <1>12, <2>2
<1> QED  BY <1>1, <1>10, <1>13 DEF base

\* The timeline with the tracks and markers of an import.
Joined(tl, c) == [tracks |-> tl.tracks \o c.tracks, markers |-> tl.markers \cup c.markers]

\* What an import does: nothing of it was there before.
ImportDone(tl, c, a, b, x, u) ==
    /\ x = [tl |-> Joined(tl, c), undo |-> u]
    /\ a.id \notin TrackIds(tl) /\ b.id \notin TrackIds(tl)
    /\ \A k \in a.clips \cup b.clips : Unused(tl, k.id)
    /\ \A m \in c.markers, k \in tl.markers : m.id # k.id

LEMMA ImportIs ==
    ASSUME NEW tl, NEW c, NEW a, NEW b, c.tracks = <<a, b>>,
           NEW u, u = [none |-> TRUE], NEW x \in ImportRecording(tl, c)
    PROVE  ImportDone(tl, c, a, b, x, u)
<1> DEFINE ts == ToSet(c.tracks)
           clips == UNION {t.clips : t \in ts}
           Free == /\ {t.id : t \in ts} \cap TrackIds(tl) = {}
                   /\ Ids(clips) \cap Ids(AllClips(tl)) = {}
                   /\ \A m \in c.markers, k \in tl.markers : m.id # k.id /\ m.at # k.at
<1>1. x \in Then(Allowed(Joined(tl, c), Free), u)  BY Zenon DEF ImportRecording, Joined
<1>2. ts = {a, b}  BY DEF ToSet
<1> HIDE DEF ts, clips, Free
<1>3. PICK t \in Allowed(Joined(tl, c), Free) : x = [tl |-> t, undo |-> u]  BY <1>1, Zenon DEF Then
<1>4. Free /\ t = Joined(tl, c)  BY <1>3 DEF Allowed
<1>5. /\ {t0.id : t0 \in ts} \cap TrackIds(tl) = {}
      /\ Ids(clips) \cap Ids(AllClips(tl)) = {}
      /\ \A m \in c.markers, k \in tl.markers : m.id # k.id
  BY <1>4 DEF Free
<1>6. a.id \notin TrackIds(tl) /\ b.id \notin TrackIds(tl)  BY <1>2, <1>5
<1>7. ASSUME NEW k \in a.clips \cup b.clips PROVE Unused(tl, k.id)
  BY <1>2, <1>5, AllClipsAre DEF clips, Ids, Unused
<1> QED  BY <1>3, <1>4, <1>5, <1>6, <1>7 DEF ImportDone

\* The markers of a timeline do not matter to its soundness.
LEMMA MarkersApart ==
    ASSUME NEW tl, Sound(tl), NEW ms, NEW u, u = [tracks |-> tl.tracks, markers |-> ms]
    PROVE  Sound(u)
  BY DEF Sound, Shaped, Named, Filled, Unshared

\* The tracks of an import are added one after the other.
LEMMA JoinedIs ==
    ASSUME NEW tl, Sound(tl), NEW c, NEW a, NEW b, c.tracks = <<a, b>>
    PROVE  Joined(tl, c) = [tracks |-> Append(Append(tl.tracks, a), b), markers |-> tl.markers \cup c.markers]
<1>1. PICK s : s = tl.tracks  OBVIOUS
<1>2. IsList(s)  BY <1>1 DEF Sound, Shaped
<1>3. s \o <<a, b>> = Append(Append(s, a), b)  BY <1>2, TwoMore
<1> QED  BY <1>1, <1>3 DEF Joined

LEMMA JoinedSound ==
    ASSUME NEW tl, Sound(tl), NEW c, NEW a, NEW b, c.tracks = <<a, b>>, Pair(a, b),
           NEW x, NEW u, ImportDone(tl, c, a, b, x, u)
    PROVE  Sound(Joined(tl, c))
<1>1. PICK g : g = Grow(tl, a)  OBVIOUS
<1>2. PICK h : h = Grow(g, b)  OBVIOUS
<1>3. /\ IsTrack(a) /\ IsTrack(b) /\ a.id # b.id
      /\ ValidClips(a.kind, a.clips) /\ ValidClips(b.kind, b.clips)
      /\ \A k \in a.clips : Plain(k)
      /\ \A k \in b.clips : Plain(k) /\ \A d \in a.clips : d.id # k.id
  BY DEF Pair
<1>4. /\ a.id \notin TrackIds(tl) /\ b.id \notin TrackIds(tl)
      /\ \A k \in a.clips : Unused(tl, k.id)
      /\ \A k \in b.clips : Unused(tl, k.id)
  BY DEF ImportDone
<1>5. Sound(g)  BY <1>3, <1>4, <1>1, GrowFilled
<1>6. /\ g.markers = tl.markers /\ g.tracks = Append(tl.tracks, a)
      /\ Len(tl.tracks) \in Nat
      /\ DOMAIN tl.tracks = 1 .. Len(tl.tracks) /\ DOMAIN g.tracks = 1 .. Len(tl.tracks) + 1
      /\ g.tracks[Len(tl.tracks) + 1] = a
      /\ \A i \in 1 .. Len(tl.tracks) : g.tracks[i] = tl.tracks[i]
 <2>1. Shaped(tl)  BY DEF Sound
 <2> QED  BY <1>1, <1>3, <2>1, GrowIs
<1>7. b.id \notin TrackIds(g) /\ \A k \in b.clips : Plain(k) /\ Unused(g, k.id)
 <2>1. PICK n \in Nat : n = Len(tl.tracks)  BY <1>6
 <2>2. /\ DOMAIN tl.tracks = 1 .. n /\ DOMAIN g.tracks = 1 .. n + 1 /\ g.tracks[n + 1] = a
       /\ \A i \in 1 .. n : g.tracks[i] = tl.tracks[i]
   BY <1>6, <2>1
 <2>3. \A i \in DOMAIN g.tracks : (i \in DOMAIN tl.tracks /\ g.tracks[i] = tl.tracks[i]) \/ g.tracks[i] = a
   BY <2>1, <2>2
 <2>4. b.id \notin TrackIds(g)  BY <1>3, <1>4, <2>3 DEF TrackIds
 <2>5. \A k \in b.clips : Unused(g, k.id)  BY <1>3, <1>4, <2>3 DEF Unused
 <2> QED  BY <1>3, <2>4, <2>5
<1>8. Sound(h)  BY <1>2, <1>3, <1>5, <1>7, GrowFilled
<1>9. h.tracks = Append(g.tracks, b)
 <2>1. Shaped(g)  BY <1>5 DEF Sound
 <2> QED  BY <1>2, <1>3, <2>1, GrowIs
<1>10. Joined(tl, c) = [tracks |-> h.tracks, markers |-> tl.markers \cup c.markers]
  BY <1>6, <1>9, JoinedIs
<1> QED  BY <1>8, <1>10, MarkersApart

\* Import a recording, and take it back.
LEMMA ImportWorks ==
    ASSUME NEW tl, Sound(tl), NEW c, NEW a, NEW b, c.tracks = <<a, b>>, Pair(a, b),
           NEW x \in ImportRecording(tl, c)
    PROVE  /\ Sound(x.tl)
           /\ \A y \in ImportRecording(tl, c) : y = [tl |-> x.tl, undo |-> x.undo]
           /\ UndoImport(x.tl, c, x.undo) \subseteq {tl}
<1>u. PICK u : u = [none |-> TRUE]  OBVIOUS
<1>1. ImportDone(tl, c, a, b, x, u)  BY <1>u, ImportIs
<1>2. PICK z : z = Joined(tl, c)  OBVIOUS
<1>3. x.tl = z /\ x.undo = u  BY <1>1, <1>2 DEF ImportDone
<1>4. Sound(z)  BY <1>1, <1>2, JoinedSound
<1>5. ASSUME NEW y \in ImportRecording(tl, c) PROVE y = [tl |-> x.tl, undo |-> x.undo]
  BY <1>u, ImportIs, <1>2, <1>3 DEF ImportDone
<1>6. ASSUME NEW r \in UndoImport(z, c, u) PROVE r = tl
 <2>1. r = [tracks |-> Erased(Erased(z.tracks, a), b), markers |-> z.markers \ c.markers]
   BY UndoImportIs
 <2>2. PICK s, q, w : s = tl.tracks /\ q = Append(s, a) /\ w = Append(q, b)  OBVIOUS
 <2>3. z = [tracks |-> w, markers |-> tl.markers \cup c.markers]  BY JoinedIs, <1>2, <2>2
 <2>4. Erased(Erased(w, a), b) = s
   BY <2>2, <1>1, ErasedAgain DEF Sound, Shaped, Pair, ImportDone, TrackIds, ApartFrom, ErasedBack
 <2>5. (tl.markers \cup c.markers) \ c.markers = tl.markers  BY <1>1 DEF ImportDone
 <2>6. r = [tracks |-> tl.tracks, markers |-> tl.markers]  BY <2>1, <2>2, <2>3, <2>4, <2>5
 <2> QED  BY <2>6 DEF Sound, Shaped
<1> QED  BY <1>3, <1>4, <1>5, <1>6

----------------------------------------------------------------------------
(* Every command                                                           *)

Ops == {"split", "trim", "delete", "import", "set", "title", "remove", "addCue", "editCue", "dropCue"}

\* What the commands of the editor and of the importer are.
Proper(c) ==
    /\ c.op \in Ops
    /\ c.op \in {"title", "addCue"} => Plain(c.new)
    /\ c.op = "addCue" => \E q : c.new.cues = {q}
    /\ c.op = "set" => c.field \in Fields
    /\ c.op = "import" => \E a, b : c.tracks = <<a, b>> /\ Pair(a, b)

\* A result x of a command: sound, the only one, and taken back to where it came from.
Works(tl, c, x) ==
    /\ Sound(x.tl)
    /\ x = [tl |-> x.tl, undo |-> x.undo]
    /\ Linked(tl, x.tl, c, x.undo)

LEMMA WorksIf ==
    ASSUME NEW tl, NEW c, NEW x, x \in Execute(tl, c), Sound(x.tl),
           \A y \in Execute(tl, c) : y = [tl |-> x.tl, undo |-> x.undo],
           Undo(x.tl, c, x.undo) \subseteq {tl}
    PROVE  Works(tl, c, x)
BY DEF Works, Linked

\* Each command has its own execution and its own undo.
LEMMA Dispatch ==
    ASSUME NEW c, NEW tl
    PROVE  /\ c.op = "split" => Execute(tl, c) = SplitClip(tl, c) /\ \A d, u : Undo(d, c, u) = UndoSplit(d, c, u)
           /\ c.op = "trim" => Execute(tl, c) = TrimClip(tl, c) /\ \A d, u : Undo(d, c, u) = UndoTrim(d, c, u)
           /\ c.op = "delete" => Execute(tl, c) = DeleteRange(tl, c) /\ \A d, u : Undo(d, c, u) = UndoDelete(d, c, u)
           /\ c.op = "import" => Execute(tl, c) = ImportRecording(tl, c) /\ \A d, u : Undo(d, c, u) = UndoImport(d, c, u)
           /\ c.op = "set" => Execute(tl, c) = SetField(tl, c) /\ \A d, u : Undo(d, c, u) = UndoSetField(d, c, u)
           /\ c.op = "title" => Execute(tl, c) = AddTitle(tl, c) /\ \A d, u : Undo(d, c, u) = UndoTitle(d, c, u)
           /\ c.op = "remove" => Execute(tl, c) = RemoveGenerated(tl, c) /\ \A d, u : Undo(d, c, u) = UndoRemove(d, c, u)
           /\ c.op = "addCue" => Execute(tl, c) = AddCaptionCue(tl, c) /\ \A d, u : Undo(d, c, u) = UndoAddCue(d, c, u)
           /\ c.op = "editCue" => Execute(tl, c) = EditCaptionCue(tl, c) /\ \A d, u : Undo(d, c, u) = UndoEditCue(d, c, u)
           /\ c.op = "dropCue" => Execute(tl, c) = RemoveCaptionCue(tl, c) /\ \A d, u : Undo(d, c, u) = UndoDropCue(d, c, u)
<1>1. c.op = "split" => Execute(tl, c) = SplitClip(tl, c) /\ \A d, u : Undo(d, c, u) = UndoSplit(d, c, u)
  BY DEF Execute, Undo
<1>2. c.op = "trim" => Execute(tl, c) = TrimClip(tl, c) /\ \A d, u : Undo(d, c, u) = UndoTrim(d, c, u)
  BY DEF Execute, Undo
<1>3. c.op = "delete" => Execute(tl, c) = DeleteRange(tl, c) /\ \A d, u : Undo(d, c, u) = UndoDelete(d, c, u)
  BY DEF Execute, Undo
<1>4. c.op = "import" => Execute(tl, c) = ImportRecording(tl, c) /\ \A d, u : Undo(d, c, u) = UndoImport(d, c, u)
  BY DEF Execute, Undo
<1>5. c.op = "set" => Execute(tl, c) = SetField(tl, c) /\ \A d, u : Undo(d, c, u) = UndoSetField(d, c, u)
  BY DEF Execute, Undo
<1>6. c.op = "title" => Execute(tl, c) = AddTitle(tl, c) /\ \A d, u : Undo(d, c, u) = UndoTitle(d, c, u)
  BY DEF Execute, Undo
<1>7. c.op = "remove" => Execute(tl, c) = RemoveGenerated(tl, c) /\ \A d, u : Undo(d, c, u) = UndoRemove(d, c, u)
  BY DEF Execute, Undo
<1>8. c.op = "addCue" => Execute(tl, c) = AddCaptionCue(tl, c) /\ \A d, u : Undo(d, c, u) = UndoAddCue(d, c, u)
  BY DEF Execute, Undo
<1>9. c.op = "editCue" => Execute(tl, c) = EditCaptionCue(tl, c) /\ \A d, u : Undo(d, c, u) = UndoEditCue(d, c, u)
  BY DEF Execute, Undo
<1>10. c.op = "dropCue" => Execute(tl, c) = RemoveCaptionCue(tl, c) /\ \A d, u : Undo(d, c, u) = UndoDropCue(d, c, u)
  BY DEF Execute, Undo
<1> QED  BY <1>1, <1>2, <1>3, <1>4, <1>5, <1>6, <1>7, <1>8, <1>9, <1>10

\* Every command keeps a sound timeline sound, has one result, and is undone exactly.
LEMMA CommandWorks ==
    ASSUME NEW tl, Sound(tl), NEW c, Proper(c), NEW x, x \in Execute(tl, c)
    PROVE  Works(tl, c, x)
<1>1. CASE c.op = "split"
 <2>1. Execute(tl, c) = SplitClip(tl, c) /\ \A d, v : Undo(d, c, v) = UndoSplit(d, c, v)
   BY <1>1, Dispatch
 <2>2. x \in SplitClip(tl, c)  BY <2>1
 <2>3. /\ Sound(x.tl)
       /\ \A y \in SplitClip(tl, c) : y = [tl |-> x.tl, undo |-> x.undo]
       /\ UndoSplit(x.tl, c, x.undo) \subseteq {tl}
   BY <2>2, SplitWorks
 <2> QED  BY <2>1, <2>3, WorksIf
<1>2. CASE c.op = "trim"
 <2>1. Execute(tl, c) = TrimClip(tl, c) /\ \A d, v : Undo(d, c, v) = UndoTrim(d, c, v)
   BY <1>2, Dispatch
 <2>2. x \in TrimClip(tl, c)  BY <2>1
 <2>3. /\ Sound(x.tl)
       /\ \A y \in TrimClip(tl, c) : y = [tl |-> x.tl, undo |-> x.undo]
       /\ UndoTrim(x.tl, c, x.undo) \subseteq {tl}
   BY <2>2, TrimWorks
 <2> QED  BY <2>1, <2>3, WorksIf
<1>3. CASE c.op = "delete"
 <2>1. Execute(tl, c) = DeleteRange(tl, c) /\ \A d, v : Undo(d, c, v) = UndoDelete(d, c, v)
   BY <1>3, Dispatch
 <2>2. x \in DeleteRange(tl, c)  BY <2>1
 <2>3. /\ Sound(x.tl)
       /\ \A y \in DeleteRange(tl, c) : y = [tl |-> x.tl, undo |-> x.undo]
       /\ UndoDelete(x.tl, c, x.undo) \subseteq {tl}
   BY <2>2, DeleteWorks
 <2> QED  BY <2>1, <2>3, WorksIf
<1>4. CASE c.op = "import"
 <2>1. Execute(tl, c) = ImportRecording(tl, c) /\ \A d, v : Undo(d, c, v) = UndoImport(d, c, v)
   BY <1>4, Dispatch
 <2>2. x \in ImportRecording(tl, c)  BY <2>1
 <2>3. PICK a, b : c.tracks = <<a, b>> /\ Pair(a, b)  BY <1>4 DEF Proper
 <2>4. /\ Sound(x.tl)
       /\ \A y \in ImportRecording(tl, c) : y = [tl |-> x.tl, undo |-> x.undo]
       /\ UndoImport(x.tl, c, x.undo) \subseteq {tl}
   BY <2>2, <2>3, ImportWorks
 <2> QED  BY <2>1, <2>4, WorksIf
<1>5. CASE c.op = "set"
 <2>1. Execute(tl, c) = SetField(tl, c) /\ \A d, v : Undo(d, c, v) = UndoSetField(d, c, v)
   BY <1>5, Dispatch
 <2>2. x \in SetField(tl, c)  BY <2>1
 <2>3. c.field \in Fields  BY <1>5 DEF Proper
 <2>4. /\ Sound(x.tl)
       /\ \A y \in SetField(tl, c) : y = [tl |-> x.tl, undo |-> x.undo]
       /\ UndoSetField(x.tl, c, x.undo) \subseteq {tl}
   BY <2>2, <2>3, SetWorks
 <2> QED  BY <2>1, <2>4, WorksIf
<1>6. CASE c.op = "title"  BY <1>6, Dispatch, TitleWorks, WorksIf DEF Proper
<1>7. CASE c.op = "remove"
 <2>1. Execute(tl, c) = RemoveGenerated(tl, c) /\ \A d, v : Undo(d, c, v) = UndoRemove(d, c, v)
   BY <1>7, Dispatch
 <2>2. x \in RemoveGenerated(tl, c)  BY <2>1
 <2>3. /\ Sound(x.tl)
       /\ \A y \in RemoveGenerated(tl, c) : y = [tl |-> x.tl, undo |-> x.undo]
       /\ UndoRemove(x.tl, c, x.undo) \subseteq {tl}
   BY <2>2, RemoveWorks
 <2> QED  BY <2>1, <2>3, WorksIf
<1>8. CASE c.op = "addCue"
 <2>1. Execute(tl, c) = AddCaptionCue(tl, c) /\ \A d, v : Undo(d, c, v) = UndoAddCue(d, c, v)
   BY <1>8, Dispatch
 <2>2. x \in AddCaptionCue(tl, c)  BY <2>1
 <2>3. Plain(c.new)  BY <1>8 DEF Proper
 <2>4. PICK q : c.new.cues = {q}  BY <1>8 DEF Proper
 <2>5. /\ Sound(x.tl)
       /\ \A y \in AddCaptionCue(tl, c) : y = [tl |-> x.tl, undo |-> x.undo]
       /\ UndoAddCue(x.tl, c, x.undo) \subseteq {tl}
   BY <2>2, <2>3, <2>4, AddCueWorks
 <2> QED  BY <2>1, <2>5, WorksIf
<1>9. CASE c.op = "editCue"
 <2>1. Execute(tl, c) = EditCaptionCue(tl, c) /\ \A d, v : Undo(d, c, v) = UndoEditCue(d, c, v)
   BY <1>9, Dispatch
 <2>2. x \in EditCaptionCue(tl, c)  BY <2>1
 <2>3. /\ Sound(x.tl)
       /\ \A y \in EditCaptionCue(tl, c) : y = [tl |-> x.tl, undo |-> x.undo]
       /\ UndoEditCue(x.tl, c, x.undo) \subseteq {tl}
   BY <2>2, EditCueWorks
 <2> QED  BY <2>1, <2>3, WorksIf
<1>10. CASE c.op = "dropCue"
 <2>1. Execute(tl, c) = RemoveCaptionCue(tl, c) /\ \A d, v : Undo(d, c, v) = UndoDropCue(d, c, v)
   BY <1>10, Dispatch
 <2>2. x \in RemoveCaptionCue(tl, c)  BY <2>1
 <2>3. /\ Sound(x.tl)
       /\ \A y \in RemoveCaptionCue(tl, c) : y = [tl |-> x.tl, undo |-> x.undo]
       /\ UndoDropCue(x.tl, c, x.undo) \subseteq {tl}
   BY <2>2, DropCueWorks
 <2> QED  BY <2>1, <2>3, WorksIf
<1> QED  BY <1>1, <1>2, <1>3, <1>4, <1>5, <1>6, <1>7, <1>8, <1>9, <1>10 DEF Proper, Ops

----------------------------------------------------------------------------
(* The commands of the editor and of the importer                          *)

\* A new title or caption clip of the editor.
LEMMA NewClipIs ==
    ASSUME NEW kind \in {"title", "caption"}, NEW m, NEW text, NEW cues,
           NEW k, k = NewClip(kind, m, text, cues), kind = "caption" => text = NoText,
           \A q, r \in cues : q # r => q.id # r.id
    PROVE  Plain(k) /\ k.cues = cues
  BY DEF NewClip, IsClip, Generated, Plain

\* A clip with other cues.
LEMMA OtherCues ==
    ASSUME NEW o, Plain(o), NEW cues, NEW k, k = [o EXCEPT !.cues = cues],
           \A q, r \in cues : q # r => q.id # r.id
    PROVE  Plain(k) /\ k.cues = cues
  BY DEF Plain, IsClip, Generated

\* A command that adds nothing is proper by its name.
LEMMA ProperIf ==
    ASSUME NEW c, c.op \in Ops \ {"title", "addCue", "import"}, c.op = "set" => c.field \in Fields
    PROVE  Proper(c)
BY DEF Proper

\* EditorSessionWorker makes proper commands, and none that imports.
LEMMA CommandsAreProper ==
    ASSUME Sound(editor.tl), NEW kind \in Kinds, NEW c \in Commands(kind)
    PROVE  Proper(c) /\ c.op # "import"
<1>1. CASE kind = "split"  BY <1>1, ProperIf DEF Commands, Ops
<1>2. CASE kind = "trim"  BY <1>2, ProperIf DEF Commands, Ops
<1>3. CASE kind = "delete"
 <2>1. c.op = "delete"
  <3>1. PICK r \in Ranges, b \in BOOLEAN : c = DeleteCommand(r[1], r[2], b)  BY <1>3 DEF Commands
  <3> QED  BY <3>1 DEF DeleteCommand
 <2>2. c.op \in Ops \ {"title", "addCue", "import"} /\ c.op # "set"  BY <2>1 DEF Ops
 <2> QED  BY <2>2, ProperIf
<1>4. CASE kind = "audio"  BY <1>4, ProperIf DEF Commands, Ops, Fields
<1>5. CASE kind = "visual"  BY <1>5, ProperIf DEF Commands, Ops, Fields
<1>6. CASE kind = "title"
 <2>1. PICK m \in Marks : c = [op |-> "title", new |-> NewClip("title", m, 1, {})]
   BY <1>6 DEF Commands
 <2>2. PICK k : k = NewClip("title", m, 1, {})  OBVIOUS
 <2>3. Plain(k)  BY <2>2, NewClipIs
 <2> QED  BY <2>1, <2>2, <2>3 DEF Proper, Ops
<1>7. CASE kind = "editTitle"  BY <1>7, ProperIf DEF Commands, Ops, Fields
<1>8. CASE kind = "remove"  BY <1>8, ProperIf DEF Commands, Ops
<1>9. CASE kind = "addCue"
 <2>1. \/ \E m \in Marks : c = [op |-> "addCue", new |-> NewClip("caption", m, NoText, {NewCue(0, 1)})]
       \/ \E k \in Captions : c = [op |-> "addCue", new |-> [k EXCEPT !.cues = {NewCue(1, 1)}]]
   BY <1>9 DEF Commands
 <2>2. CASE \E m \in Marks : c = [op |-> "addCue", new |-> NewClip("caption", m, NoText, {NewCue(0, 1)})]
  <3>1. PICK m \in Marks : c = [op |-> "addCue", new |-> NewClip("caption", m, NoText, {NewCue(0, 1)})]
    BY <2>2
  <3>2. PICK q : q = NewCue(0, 1)  OBVIOUS
  <3>3. PICK k : k = NewClip("caption", m, NoText, {q})  OBVIOUS
  <3>4. Plain(k) /\ k.cues = {q}  BY <3>3, NewClipIs
  <3> QED  BY <3>1, <3>2, <3>3, <3>4 DEF Proper, Ops
 <2>3. CASE \E k \in Captions : c = [op |-> "addCue", new |-> [k EXCEPT !.cues = {NewCue(1, 1)}]]
  <3>1. PICK o \in Captions : c = [op |-> "addCue", new |-> [o EXCEPT !.cues = {NewCue(1, 1)}]]
    BY <2>3
  <3>2. PICK q : q = NewCue(1, 1)  OBVIOUS
  <3>3. PICK k : k = [o EXCEPT !.cues = {q}]  OBVIOUS
  <3>4. Plain(o)  BY <3>1 DEF Captions, ClipsOf, Sound, Filled
  <3>5. Plain(k) /\ k.cues = {q}  BY <3>3, <3>4, OtherCues
  <3> QED  BY <3>1, <3>2, <3>3, <3>5 DEF Proper, Ops
 <2> QED  BY <2>1, <2>2, <2>3
<1>10. CASE kind = "editCue"  BY <1>10, ProperIf DEF Commands, Ops
<1>11. CASE kind = "dropCue"  BY <1>11, ProperIf DEF Commands, Ops
<1> QED  BY <1>1, <1>2, <1>3, <1>4, <1>5, <1>6, <1>7, <1>8, <1>9, <1>10, <1>11 DEF Kinds

\* planRecordingImport makes a proper command.
LEMMA ImportIsProper ==
    ASSUME NEW t \in Takes, NEW tl, NEW c, c = ImportOf(t, tl)
    PROVE  Proper(c) /\ c.op = "import"
<1>1. PICK base : base = CHOOSE n \in {End(k) : k \in AllClips(tl)} \cup {0} :
                              \A k \in AllClips(tl) : End(k) <= n
  OBVIOUS
<1> DEFINE clip(kind, env) ==
               [id |-> <<kind, t, 0>>, kind |-> kind, asset |-> <<kind, t>>, at |-> base,
                len |-> TakeLength, from |-> 0, env |-> env, look |-> NoLook, text |-> NoText, cues |-> {}]
           a == [id |-> <<"video", t>>, kind |-> "video", clips |-> {clip("video", NoEnvelope)}]
           b == [id |-> <<"audio", t>>, kind |-> "audio", clips |-> {clip("audio", 0)}]
<1>2. c.op = "import" /\ c.tracks = <<a, b>>  BY <1>1 DEF ImportOf
<1>3. ASSUME NEW kind \in {"video", "audio"}, NEW env, NEW k, k = clip(kind, env)
      PROVE  Plain(k) /\ k.kind = kind /\ k.id = <<kind, t, 0>>
  BY <1>3 DEF IsClip, Plain
<1>4. PICK v : v = clip("video", NoEnvelope)  OBVIOUS
<1>5. PICK w : w = clip("audio", 0)  OBVIOUS
<1>6. Plain(v) /\ v.kind = "video" /\ v.id = <<"video", t, 0>>  BY <1>3, <1>4
<1>7. Plain(w) /\ w.kind = "audio" /\ w.id = <<"audio", t, 0>>  BY <1>3, <1>5
<1>8. PICK x, y : x = a /\ y = b  OBVIOUS
<1> HIDE DEF clip
<1>9. /\ x = [id |-> <<"video", t>>, kind |-> "video", clips |-> {v}]
      /\ y = [id |-> <<"audio", t>>, kind |-> "audio", clips |-> {w}]
  BY <1>4, <1>5, <1>8
<1> HIDE DEF a, b
<1>10. Pair(x, y)  BY <1>6, <1>7, <1>9 DEF IsTrack, ValidClips, Pair
<1> QED  BY <1>2, <1>8, <1>10 DEF Proper, Ops

----------------------------------------------------------------------------
(* The rows of a timeline                                                  *)

\* Clip k is on track number i.
On(tl, i, k) == i \in DOMAIN tl.tracks /\ k \in tl.tracks[i].clips

\* The identity of a clip tells where it is.
LEMMA OnOne ==
    ASSUME NEW tl, Sound(tl), NEW i, NEW k, On(tl, i, k), NEW j, NEW d, On(tl, j, d), d.id = k.id
    PROVE  j = i /\ d = k
  BY DEF On, Sound, Unshared, Filled, ValidClips

LEMMA PlacementsAre ==
    ASSUME NEW tl
    PROVE  \A p : p \in Placements(tl) <=>
               \E i, k : On(tl, i, k) /\ p = [track |-> tl.tracks[i].id, clip |-> k]
  BY DEF ToSet, Placements, On

\* The row of clip k on a track.
RowFor(track, k) ==
    [id |-> k.id, track |-> track, at |-> k.at, len |-> k.len,
     kind |-> IF Generated(k) THEN k.kind ELSE "asset", asset |-> k.asset, from |-> k.from]

\* The tables of a snapshot, row by row.
LEMMA RowsAre ==
    ASSUME NEW tl, NEW rows, rows = SnapshotRows(tl)
    PROVE  /\ rows.tracks = {[id |-> tl.tracks[i].id, kind |-> tl.tracks[i].kind, position |-> i] :
                                i \in DOMAIN tl.tracks}
           /\ rows.markers = tl.markers
           /\ \A r : r \in rows.clips <=> \E i, k : On(tl, i, k) /\ r = RowFor(tl.tracks[i].id, k)
           /\ \A r : r \in rows.looks <=>
                        \E i, k : On(tl, i, k) /\ k.look # NoLook /\ r = [clip |-> k.id, look |-> k.look]
           /\ \A r : r \in rows.envelopes <=>
                        \E i, k : On(tl, i, k) /\ k.env # NoEnvelope /\ r = [clip |-> k.id, env |-> k.env, len |-> k.len]
           /\ \A r : r \in rows.titles <=>
                        \E i, k : On(tl, i, k) /\ k.kind = "title" /\ r = [clip |-> k.id, text |-> k.text]
           /\ \A r : r \in rows.cues <=>
                        \E i, k : \E q \in k.cues : On(tl, i, k) /\ r = [clip |-> k.id, cue |-> q]
<1>1. PICK placed : placed = Placements(tl)  OBVIOUS
<1>2. PICK clips : clips = {p.clip : p \in placed}  OBVIOUS
<1>3. \A p : p \in placed <=> \E i, k : On(tl, i, k) /\ p = [track |-> tl.tracks[i].id, clip |-> k]
  BY <1>1, PlacementsAre
<1>4. \A k : k \in clips <=> \E i : On(tl, i, k)
 <2>1. ASSUME NEW k \in clips PROVE \E i : On(tl, i, k)
  <3>1. PICK p \in placed : k = p.clip  BY <1>2, <2>1
  <3> QED  BY <1>3, <3>1
 <2>2. ASSUME NEW k, NEW i, On(tl, i, k) PROVE k \in clips
  <3>1. PICK p : p = [track |-> tl.tracks[i].id, clip |-> k]  OBVIOUS
  <3>2. p \in placed /\ p.clip = k  BY <1>3, <2>2, <3>1
  <3> QED  BY <1>2, <3>2
 <2> QED  BY <2>1, <2>2
<1>5. /\ rows.tracks = {[id |-> tl.tracks[i].id, kind |-> tl.tracks[i].kind, position |-> i] :
                                i \in DOMAIN tl.tracks}
      /\ rows.markers = tl.markers
      /\ rows.clips = {RowFor(p.track, p.clip) : p \in placed}
      /\ rows.looks = {[clip |-> k.id, look |-> k.look] : k \in {c \in clips : c.look # NoLook}}
      /\ rows.envelopes = {[clip |-> k.id, env |-> k.env, len |-> k.len] :
                           k \in {c \in clips : c.env # NoEnvelope}}
      /\ rows.titles = {[clip |-> k.id, text |-> k.text] : k \in {c \in clips : c.kind = "title"}}
      /\ rows.cues = UNION {{[clip |-> k.id, cue |-> q] : q \in k.cues} : k \in clips}
  BY <1>1, <1>2 DEF SnapshotRows, RowFor
<1>6. \A r : r \in rows.clips <=> \E i, k : On(tl, i, k) /\ r = RowFor(tl.tracks[i].id, k)
 <2>1. ASSUME NEW r \in rows.clips PROVE \E i, k : On(tl, i, k) /\ r = RowFor(tl.tracks[i].id, k)
  <3>1. PICK p \in placed : r = RowFor(p.track, p.clip)  BY <1>5, <2>1
  <3>2. PICK i, k : On(tl, i, k) /\ p = [track |-> tl.tracks[i].id, clip |-> k]  BY <1>3, <3>1
  <3> QED  BY <3>1, <3>2
 <2>2. ASSUME NEW i, NEW k, On(tl, i, k), NEW r, r = RowFor(tl.tracks[i].id, k) PROVE r \in rows.clips
  <3>1. PICK p : p = [track |-> tl.tracks[i].id, clip |-> k]  OBVIOUS
  <3>2. p \in placed /\ p.track = tl.tracks[i].id /\ p.clip = k  BY <1>3, <2>2, <3>1
  <3>3. r = RowFor(p.track, p.clip)  BY <2>2, <3>2
  <3> QED  BY <1>5, <3>2, <3>3
 <2> QED  BY <2>1, <2>2
<1>7. \A r : r \in rows.looks <=>
                        \E i, k : On(tl, i, k) /\ k.look # NoLook /\ r = [clip |-> k.id, look |-> k.look]
  BY <1>4, <1>5
<1>8. \A r : r \in rows.envelopes <=>
                        \E i, k : On(tl, i, k) /\ k.env # NoEnvelope /\ r = [clip |-> k.id, env |-> k.env, len |-> k.len]
  BY <1>4, <1>5
<1>9. \A r : r \in rows.titles <=>
                        \E i, k : On(tl, i, k) /\ k.kind = "title" /\ r = [clip |-> k.id, text |-> k.text]
  BY <1>4, <1>5
<1>10. \A r : r \in rows.cues <=>
                        \E i, k : \E q \in k.cues : On(tl, i, k) /\ r = [clip |-> k.id, cue |-> q]
  BY <1>4, <1>5
<1> QED  BY <1>5, <1>6, <1>7, <1>8, <1>9, <1>10

\* What the payload rows of a clip give back.
LEMMA PayloadIs ==
    ASSUME NEW tl, Sound(tl), NEW rows, rows = SnapshotRows(tl), NEW i, NEW k, On(tl, i, k),
           NEW row, row.id = k.id
    PROVE  /\ LoadVisual(rows, row) \subseteq {k.look}
           /\ LoadAudioEnvelope(rows, row) \subseteq {k.env}
           /\ LoadTitlePayload(rows, row) \subseteq {k.text}
           /\ LoadCaptionCues(rows, row) \subseteq {k.cues}
           /\ ~HasPayload(rows.cues, row) => k.cues = {}
<1>1. /\ \A r : r \in rows.looks <=>
                   \E j, d : On(tl, j, d) /\ d.look # NoLook /\ r = [clip |-> d.id, look |-> d.look]
      /\ \A r : r \in rows.envelopes <=>
                   \E j, d : On(tl, j, d) /\ d.env # NoEnvelope /\ r = [clip |-> d.id, env |-> d.env, len |-> d.len]
      /\ \A r : r \in rows.titles <=>
                   \E j, d : On(tl, j, d) /\ d.kind = "title" /\ r = [clip |-> d.id, text |-> d.text]
      /\ \A r : r \in rows.cues <=>
                   \E j, d : \E q \in d.cues : On(tl, j, d) /\ r = [clip |-> d.id, cue |-> q]
  BY RowsAre
<1>2. \A j, d : On(tl, j, d) /\ d.id = k.id => d = k  BY OnOne
<1>3. LoadVisual(rows, row) \subseteq {k.look}
 <2>1. \A r \in RowsOf(rows.looks, row.id) : r.look = k.look
  <3> SUFFICES ASSUME NEW r \in RowsOf(rows.looks, row.id) PROVE r.look = k.look  OBVIOUS
  <3>1. r \in rows.looks /\ r.clip = k.id  BY DEF RowsOf
  <3>2. PICK j, d : On(tl, j, d) /\ r = [clip |-> d.id, look |-> d.look]  BY <1>1, <3>1
  <3> QED  BY <1>2, <3>1, <3>2
 <2>2. CASE RowsOf(rows.looks, row.id) = {}
  <3>1. k.look = NoLook
   <4> SUFFICES ASSUME k.look # NoLook PROVE FALSE  OBVIOUS
   <4>1. PICK r : r = [clip |-> k.id, look |-> k.look]  OBVIOUS
   <4>2. r \in rows.looks /\ r.clip = k.id  BY <1>1, <4>1
   <4> QED  BY <2>2, <4>2 DEF RowsOf
  <3> QED  BY <2>2, <3>1 DEF LoadVisual
 <2>3. CASE RowsOf(rows.looks, row.id) # {}  BY <2>1, <2>3 DEF LoadVisual
 <2> QED  BY <2>2, <2>3
<1>4. LoadAudioEnvelope(rows, row) \subseteq {k.env}
 <2>1. \A r \in RowsOf(rows.envelopes, row.id) : r.env = k.env
  <3> SUFFICES ASSUME NEW r \in RowsOf(rows.envelopes, row.id) PROVE r.env = k.env  OBVIOUS
  <3>1. r \in rows.envelopes /\ r.clip = k.id  BY DEF RowsOf
  <3>2. PICK j, d : On(tl, j, d) /\ r = [clip |-> d.id, env |-> d.env, len |-> d.len]  BY <1>1, <3>1
  <3> QED  BY <1>2, <3>1, <3>2
 <2>2. CASE RowsOf(rows.envelopes, row.id) = {}
  <3>1. k.env = NoEnvelope
   <4> SUFFICES ASSUME k.env # NoEnvelope PROVE FALSE  OBVIOUS
   <4>1. PICK r : r = [clip |-> k.id, env |-> k.env, len |-> k.len]  OBVIOUS
   <4>2. r \in rows.envelopes /\ r.clip = k.id  BY <1>1, <4>1
   <4> QED  BY <2>2, <4>2 DEF RowsOf
  <3> QED  BY <2>2, <3>1 DEF LoadAudioEnvelope
 <2>3. CASE RowsOf(rows.envelopes, row.id) # {}  BY <2>1, <2>3 DEF LoadAudioEnvelope
 <2> QED  BY <2>2, <2>3
<1>5. LoadTitlePayload(rows, row) \subseteq {k.text}
 <2>1. \A r \in RowsOf(rows.titles, row.id) : r.text = k.text
  <3> SUFFICES ASSUME NEW r \in RowsOf(rows.titles, row.id) PROVE r.text = k.text  OBVIOUS
  <3>1. r \in rows.titles /\ r.clip = k.id  BY DEF RowsOf
  <3>2. PICK j, d : On(tl, j, d) /\ r = [clip |-> d.id, text |-> d.text]  BY <1>1, <3>1
  <3> QED  BY <1>2, <3>1, <3>2
 <2> QED  BY <2>1 DEF LoadTitlePayload
<1>6. \A q : [clip |-> k.id, cue |-> q] \in rows.cues <=> q \in k.cues
 <2>1. ASSUME NEW q \in k.cues PROVE [clip |-> k.id, cue |-> q] \in rows.cues  BY <1>1, <2>1
 <2>2. ASSUME NEW q, [clip |-> k.id, cue |-> q] \in rows.cues PROVE q \in k.cues
  <3>1. PICK r : r = [clip |-> k.id, cue |-> q]  OBVIOUS
  <3>5. r \in rows.cues  BY <2>2, <3>1
  <3>2. PICK j, d : \E p \in d.cues : On(tl, j, d) /\ r = [clip |-> d.id, cue |-> p]  BY <1>1, <3>5
  <3>3. PICK p \in d.cues : On(tl, j, d) /\ r = [clip |-> d.id, cue |-> p]  BY <3>2
  <3>4. d.id = k.id /\ p = q  BY <3>1, <3>3
  <3> QED  BY <1>2, <3>3, <3>4
 <2> QED  BY <2>1, <2>2
<1>7. {r.cue : r \in RowsOf(rows.cues, row.id)} = k.cues
 <2>1. ASSUME NEW r \in RowsOf(rows.cues, row.id) PROVE r.cue \in k.cues
  <3>1. r \in rows.cues /\ r.clip = k.id  BY <2>1 DEF RowsOf
  <3>2. PICK j, d : \E q \in d.cues : On(tl, j, d) /\ r = [clip |-> d.id, cue |-> q]  BY <1>1, <3>1
  <3>3. PICK q \in d.cues : On(tl, j, d) /\ r = [clip |-> d.id, cue |-> q]  BY <3>2
  <3> QED  BY <1>2, <3>1, <3>3
 <2>2. ASSUME NEW q \in k.cues PROVE \E r \in RowsOf(rows.cues, row.id) : r.cue = q
  <3>1. PICK r : r = [clip |-> k.id, cue |-> q]  OBVIOUS
  <3>2. r \in rows.cues /\ r.clip = row.id /\ r.cue = q  BY <1>6, <2>2, <3>1
  <3> QED  BY <3>2 DEF RowsOf
 <2> QED  BY <2>1, <2>2
<1>8. LoadCaptionCues(rows, row) \subseteq {k.cues}  BY <1>7 DEF LoadCaptionCues, Allowed
<1>9. ~HasPayload(rows.cues, row) => k.cues = {}  BY <1>7 DEF HasPayload
<1> QED  BY <1>3, <1>4, <1>5, <1>8, <1>9

\* Assets are named by their kind.
Cataloged(assets) == \A a \in assets : a.id[1] = a.kind

\* A clip is read back from its row as it was.
LEMMA LoadClipIs ==
    ASSUME NEW tl, Sound(tl), NEW rows, rows = SnapshotRows(tl), NEW i, NEW k, On(tl, i, k),
           NEW track, NEW row, row = RowFor(track, k), NEW assets, Cataloged(assets),
           NEW y \in LoadClip(rows, row, assets)
    PROVE  y = k
<1> DEFINE clip(kind, env, look, text, cues) ==
               [id |-> row.id, kind |-> kind, asset |-> row.asset, at |-> row.at, len |-> row.len,
                from |-> row.from, env |-> env, look |-> look, text |-> text, cues |-> cues]
<1>1. /\ row.id = k.id /\ row.asset = k.asset /\ row.at = k.at /\ row.len = k.len /\ row.from = k.from
      /\ row.kind = IF Generated(k) THEN k.kind ELSE "asset"
  BY DEF RowFor
<1>2. /\ LoadVisual(rows, row) \subseteq {k.look}
      /\ LoadAudioEnvelope(rows, row) \subseteq {k.env}
      /\ LoadTitlePayload(rows, row) \subseteq {k.text}
      /\ LoadCaptionCues(rows, row) \subseteq {k.cues}
      /\ ~HasPayload(rows.cues, row) => k.cues = {}
  BY <1>1, PayloadIs
<1>3. Plain(k)  BY DEF On, Sound, Filled
<1>4. k = clip(k.kind, k.env, k.look, k.text, k.cues)  BY <1>1, <1>3 DEF Plain, IsClip
<1>5. CASE ~Generated(k)
 <2>1. row.kind = "asset"  BY <1>1, <1>5
 <2>2. PICK a \in assets, env \in LoadAudioEnvelope(rows, row), look \in LoadVisual(rows, row) :
           /\ a.id = row.asset
           /\ y = clip(a.kind, env, look, NoText, {})
           /\ ~HasPayload(rows.cues, row)
   BY <2>1 DEF LoadClip
 <2>3. env = k.env /\ look = k.look /\ k.cues = {}  BY <1>2, <2>2
 <2>4. k.text = NoText /\ k.asset[1] = k.kind  BY <1>3, <1>5 DEF Plain, Generated
 <2>5. a.kind = k.kind  BY <1>1, <2>2, <2>4 DEF Cataloged
 <2> QED  BY <1>4, <2>2, <2>3, <2>4, <2>5
<1>6. CASE Generated(k) /\ k.kind = "title"
 <2>1. row.kind = "title"  BY <1>1, <1>6
 <2>2. PICK env \in LoadAudioEnvelope(rows, row), look \in LoadVisual(rows, row),
            text \in LoadTitlePayload(rows, row) :
           y = clip("title", env, look, text, {}) /\ ~HasPayload(rows.cues, row)
   BY <2>1 DEF LoadClip
 <2>3. env = k.env /\ look = k.look /\ text = k.text /\ k.cues = {}  BY <1>2, <2>2
 <2> QED  BY <1>4, <1>6, <2>2, <2>3
<1>7. CASE Generated(k) /\ k.kind = "caption"
 <2>1. row.kind = "caption"  BY <1>1, <1>7
 <2>2. PICK env \in LoadAudioEnvelope(rows, row), look \in LoadVisual(rows, row),
            cues \in LoadCaptionCues(rows, row) :
           y = clip("caption", env, look, NoText, cues)
   BY <2>1 DEF LoadClip
 <2>3. env = k.env /\ look = k.look /\ cues = k.cues  BY <1>2, <2>2
 <2>4. k.text = NoText  BY <1>3, <1>7 DEF Plain
 <2> QED  BY <1>4, <1>7, <2>2, <2>3, <2>4
<1> QED  BY <1>5, <1>6, <1>7 DEF Generated

\* There is one row for each track of a timeline.
LEMMA TrackRows ==
    ASSUME NEW tl, Shaped(tl), NEW R,
           R = {[id |-> tl.tracks[i].id, kind |-> tl.tracks[i].kind, position |-> i] : i \in DOMAIN tl.tracks}
    PROVE  Cardinality(R) = Len(tl.tracks)
<1>1. PICK n \in Nat : n = Len(tl.tracks) /\ DOMAIN tl.tracks = 1 .. n  BY ListIs DEF Shaped
<1>2. PICK f : f = [i \in 1 .. n |-> [id |-> tl.tracks[i].id, kind |-> tl.tracks[i].kind, position |-> i]]
  OBVIOUS
<1>3. DOMAIN f = 1 .. n /\ \A i \in 1 .. n : f[i].position = i  BY <1>2
<1>4. R = {f[i] : i \in 1 .. n} /\ f = [i \in 1 .. n |-> f[i]]  BY <1>1, <1>2
<1>5. f \in Bijection(1 .. n, R)  BY <1>4, <1>3 DEF IsInjective, Bijection, Injection, Surjection
<1>6. ExistsBijection(1 .. n, R)  BY <1>5 DEF ExistsBijection
<1>7. IsFiniteSet(1 .. n) /\ Cardinality(1 .. n) = n  BY FS_Interval
<1> QED  BY <1>1, <1>6, <1>7, FS_Bijection

\* The clips of a track are those its rows are read back as.
LEMMA LoadClips ==
    ASSUME NEW tl, Sound(tl), NEW rows, rows = SnapshotRows(tl), NEW assets, Cataloged(assets),
           \A row \in rows.clips : LoadClip(rows, row, assets) # {},
           NEW i \in DOMAIN tl.tracks
    PROVE  UNION {LoadClip(rows, row, assets) : row \in {r \in rows.clips : r.track = tl.tracks[i].id}}
             = tl.tracks[i].clips
<1> DEFINE U == UNION {LoadClip(rows, row, assets) : row \in {r \in rows.clips : r.track = tl.tracks[i].id}}
<1>1. \A r : r \in rows.clips <=> \E j, k : On(tl, j, k) /\ r = RowFor(tl.tracks[j].id, k)
  BY RowsAre
<1>2. ASSUME NEW y \in U PROVE y \in tl.tracks[i].clips
 <2>1. PICK row \in rows.clips : row.track = tl.tracks[i].id /\ y \in LoadClip(rows, row, assets)
   OBVIOUS
 <2>2. PICK j, k : On(tl, j, k) /\ row = RowFor(tl.tracks[j].id, k)  BY <1>1, <2>1
 <2>3. PICK track : track = tl.tracks[j].id  OBVIOUS
 <2>4. y = k  BY <2>1, <2>2, <2>3, LoadClipIs
 <2>5. row.track = tl.tracks[j].id  BY <2>2 DEF RowFor
 <2>6. j = i  BY <2>1, <2>2, <2>5 DEF On, Sound, Named
 <2> QED  BY <2>2, <2>4, <2>6 DEF On
<1>3. ASSUME NEW k \in tl.tracks[i].clips PROVE k \in U
 <2>1. PICK track : track = tl.tracks[i].id  OBVIOUS
 <2>2. PICK row : row = RowFor(track, k)  OBVIOUS
 <2>3. On(tl, i, k)  BY <1>3 DEF On
 <2>4. row \in rows.clips /\ row.track = track  BY <1>1, <2>1, <2>2, <2>3 DEF RowFor
 <2>5. PICK y : y \in LoadClip(rows, row, assets)  BY <2>4
 <2>6. y = k  BY <2>2, <2>3, <2>5, LoadClipIs
 <2> QED  BY <2>1, <2>4, <2>5, <2>6
<1> HIDE DEF U
<1>4. U = tl.tracks[i].clips  BY <1>2, <1>3
<1> QED  BY <1>4 DEF U

\* loadPrimaryTimeline reads back the timeline that writeSnapshot wrote, or nothing.
LEMMA LoadTimelineIs ==
    ASSUME NEW tl, Sound(tl), NEW assets, Cataloged(assets),
           NEW t \in LoadTimeline(SnapshotRows(tl), assets)
    PROVE  t = tl
<1>1. PICK rows : rows = SnapshotRows(tl)  OBVIOUS
<1> DEFINE Clips(track) == UNION {LoadClip(rows, row, assets) : row \in {r \in rows.clips : r.track = track}}
           At(i) == CHOOSE r \in rows.tracks : r.position = i
           n == Cardinality(rows.tracks)
           tracks == [i \in 1 .. n |-> [id |-> At(i).id, kind |-> At(i).kind, clips |-> Clips(At(i).id)]]
<1>2. /\ t = [tracks |-> tracks, markers |-> rows.markers]
      /\ \A row \in rows.clips : LoadClip(rows, row, assets) # {}
  BY <1>1 DEF LoadTimeline, Allowed
<1>3. /\ rows.tracks = {[id |-> tl.tracks[i].id, kind |-> tl.tracks[i].kind, position |-> i] :
                           i \in DOMAIN tl.tracks}
      /\ rows.markers = tl.markers
  BY <1>1, RowsAre
<1>4. Shaped(tl)  BY DEF Sound
<1>5. n = Len(tl.tracks)
 <2>1. PICK R : R = rows.tracks  OBVIOUS
 <2>2. Cardinality(R) = Len(tl.tracks)  BY <1>3, <1>4, <2>1, TrackRows
 <2> QED  BY <2>1, <2>2
<1>6. DOMAIN tl.tracks = 1 .. n /\ tl.tracks = [i \in 1 .. n |-> tl.tracks[i]]
  BY <1>4, <1>5, ListIs DEF Shaped
<1>7. ASSUME NEW i \in DOMAIN tl.tracks
      PROVE  At(i).id = tl.tracks[i].id /\ At(i).kind = tl.tracks[i].kind
 <2>1. PICK r : r = [id |-> tl.tracks[i].id, kind |-> tl.tracks[i].kind, position |-> i]  OBVIOUS
 <2>2. r \in rows.tracks /\ r.position = i  BY <1>3, <2>1
 <2>3. \A s \in rows.tracks : s.position = i => s = r  BY <1>3, <2>1
 <2>4. At(i) = r  BY <2>2, <2>3
 <2> HIDE DEF At
 <2>5. r.id = tl.tracks[i].id /\ r.kind = tl.tracks[i].kind  BY <2>1
 <2> QED  BY <2>4, <2>5
<1>8. ASSUME NEW i \in DOMAIN tl.tracks PROVE Clips(tl.tracks[i].id) = tl.tracks[i].clips
  BY <1>1, <1>2, LoadClips
<1> HIDE DEF Clips, At, n
<1>9. ASSUME NEW i \in 1 .. n PROVE tracks[i] = tl.tracks[i]
  BY <1>6, <1>7, <1>8, <1>4 DEF Shaped, IsTrack
<1>10. tracks = tl.tracks  BY <1>6, <1>9
<1>11. t = [tracks |-> tl.tracks, markers |-> tl.markers]  BY <1>2, <1>3, <1>10
<1> QED  BY <1>4, <1>11 DEF Shaped

----------------------------------------------------------------------------
(* Replaying the events                                                    *)

NoReplay == [entries |-> <<>>, cursor |-> 0, sound |-> TRUE]

\* One event more.
ReplayStep(limit, r, e) == IF r.sound THEN Replayed(r, e, limit) ELSE r

\* decodeHistory's replay of a list of events.
ReplayOf(limit, events) ==
    FoldLeft(LAMBDA r, e : IF r.sound THEN Replayed(r, e, limit) ELSE r, NoReplay, events)

ReplayRun(limit, events, n, g) ==
    /\ g[0] = NoReplay
    /\ \A k \in 1 .. n : g[k] = ReplayStep(limit, g[k - 1], events[k])
    /\ ReplayOf(limit, events) = g[n]

\* The replay goes through the events in their order.
LEMMA ReplayRuns ==
    ASSUME NEW limit, NEW n \in Nat, NEW events, DOMAIN events = 1 .. n
    PROVE  \E g : ReplayRun(limit, events, n, g)
<1> DEFINE base == NoReplay
           seq == events
           Step(v, e) == ReplayStep(limit, v, e)
           Body(f, t) == IF t = {} THEN base ELSE Step(f[t \ {Max(t)}], seq[Max(t)])
           Fun(f, m) == f = [t \in SUBSET (1 .. m) |-> Body(f, t)]
           Result == (CHOOSE f : f = [t \in SUBSET DOMAIN seq |-> Body(f, t)])[DOMAIN seq]
<1>1. ReplayOf(limit, events) = Result  BY DEF ReplayOf, FoldLeft, MapThenFoldSet, ReplayStep
<1>2. DOMAIN seq = 1 .. n /\ \A k \in 1 .. n : seq[k] = events[k]  OBVIOUS
<1> HIDE DEF base, seq, Step
<1>3. \E f : Fun(f, 0)
 <2>1. SUBSET (1 .. 0) = {{}}  OBVIOUS
 <2> DEFINE f == [t \in {{}} |-> base]
 <2>2. \A t \in {{}} : Body(f, t) = base  OBVIOUS
 <2> HIDE DEF Body
 <2>3. f = [t \in {{}} |-> Body(f, t)]  BY <2>2
 <2>4. f = [t \in SUBSET (1 .. 0) |-> Body(f, t)]  BY <2>1, <2>3
 <2> HIDE DEF f
 <2> QED  BY <2>4
<1>4. ASSUME NEW m \in Nat, \E f : Fun(f, m) PROVE \E f : Fun(f, m + 1)
 <2>1. PICK f : Fun(f, m)  BY <1>4
 <2> DEFINE S == SUBSET (1 .. m + 1)
            Prev(t) == t \ {Max(t)}
            h == [t \in S |-> IF t \in SUBSET (1 .. m) THEN f[t]
                              ELSE Step(f[Prev(t)], seq[Max(t)])]
 <2>2. ASSUME NEW t \in S, t # {} PROVE Prev(t) \in SUBSET (1 .. m) /\ Prev(t) \in S
  <3>0. PICK p \in Nat : p = m + 1  OBVIOUS
  <3>p. t \in SUBSET (1 .. p) /\ t # {}  BY <2>2, <3>0
  <3>1. Max(t) \in t /\ \A y \in t : Max(t) >= y  BY <3>p, MaxIs
  <3>2. ASSUME NEW y \in t, y # Max(t) PROVE y \in 1 .. m
   <4>1. PICK x : x = Max(t)  OBVIOUS
   <4>2. x \in 1 .. m + 1 /\ y \in 1 .. m + 1 /\ x >= y /\ y # x  BY <3>1, <3>2, <4>1
   <4> QED  BY <4>2
  <3> QED  BY <3>2
 <2>3. \A t \in SUBSET (1 .. m) : t \in S  OBVIOUS
 <2> HIDE DEF S, Prev
 <2>4. \A t \in SUBSET (1 .. m) : h[t] = f[t]  BY <2>3
 <2>5. \A t \in S : t # {} => h[Prev(t)] = f[Prev(t)]  BY <2>2, <2>4
 <2>6. \A t \in SUBSET (1 .. m) : f[t] = Body(f, t)  BY <2>1
 <2>7. ASSUME NEW t \in S PROVE h[t] = Body(h, t)
  <3>1. CASE t = {}  BY <3>1, <2>4, <2>6
  <3>2. CASE t # {}
   <4>1. Body(h, t) = Step(h[Prev(t)], seq[Max(t)])  BY <3>2 DEF Prev
   <4>2. Body(h, t) = Step(f[Prev(t)], seq[Max(t)])  BY <2>5, <3>2, <4>1
   <4>3. CASE t \in SUBSET (1 .. m)  BY <2>6, <3>2, <4>3, <2>4, <4>2 DEF Prev
   <4>4. CASE t \notin SUBSET (1 .. m)  BY <4>2, <4>4
   <4> QED  BY <4>3, <4>4
  <3> QED  BY <3>1, <3>2
 <2>8. h = [t \in S |-> h[t]]  OBVIOUS
 <2> HIDE DEF h, Body
 <2>9. h = [t \in S |-> Body(h, t)]  BY <2>7, <2>8
 <2> QED  BY <2>9 DEF S
<1> DEFINE Missed == {m \in Nat : ~\E f : Fun(f, m)}
<1>5. Missed = {}
 <2> SUFFICES ASSUME Missed # {} PROVE FALSE  OBVIOUS
 <2>1. Missed \subseteq Nat /\ \A m : m \in Missed <=> (m \in Nat /\ ~\E f : Fun(f, m))  OBVIOUS
 <2> HIDE DEF Missed, Fun
 <2>2. PICK m \in Missed : \A e \in Missed : m <= e  BY <2>1, LeastOf
 <2>3. m \in Nat /\ m # 0  BY <1>3, <2>1, <2>2
 <2>4. m - 1 \in Nat /\ m - 1 \notin Missed  BY <2>2, <2>3
 <2>5. \E f : Fun(f, m - 1)  BY <2>1, <2>4
 <2>6. \E f : Fun(f, (m - 1) + 1)  BY <1>4, <2>4, <2>5
 <2>7. (m - 1) + 1 = m  BY <2>3
 <2> QED  BY <2>1, <2>2, <2>6, <2>7
<1> DEFINE it == CHOOSE f : f = [t \in SUBSET DOMAIN seq |-> Body(f, t)]
<1>6. it = [t \in SUBSET (1 .. n) |-> Body(it, t)]
 <2>1. \E f : Fun(f, n)
  <3> HIDE DEF Fun
  <3>1. n \notin Missed  BY <1>5
  <3> QED  BY <3>1
 <2> HIDE DEF Body
 <2>2. \E f : f = [t \in SUBSET DOMAIN seq |-> Body(f, t)]  BY <1>2, <2>1
 <2>3. it = [t \in SUBSET DOMAIN seq |-> Body(it, t)]  BY <2>2
 <2> QED  BY <1>2, <2>3
<1>7. Result = it[1 .. n]  BY <1>2
<1> HIDE DEF it, Result, Missed
<1> DEFINE g == [k \in 0 .. n |-> it[1 .. k]]
<1>8. g[0] = base  BY <1>6
<1>9. ASSUME NEW k \in 1 .. n PROVE g[k] = Step(g[k - 1], events[k])
 <2>1. k \in Nat /\ k >= 1 /\ k \in 0 .. n /\ k - 1 \in 0 .. n  OBVIOUS
 <2>2. Max(1 .. k) = k /\ (1 .. k) \ {k} = 1 .. k - 1 /\ 1 .. k # {}  BY <2>1, MaxOfPrefix
 <2>3. PICK t : t = 1 .. k  OBVIOUS
 <2>4. t \in SUBSET (1 .. n) /\ t # {} /\ t \ {Max(t)} = 1 .. k - 1 /\ Max(t) = k  BY <2>2, <2>3
 <2>5. it[t] = Step(it[t \ {Max(t)}], seq[Max(t)])  BY <1>6, <2>4
 <2>6. it[t] = Step(it[1 .. k - 1], events[k])  BY <1>2, <2>4, <2>5
 <2>7. g[k] = it[1 .. k] /\ g[k - 1] = it[1 .. k - 1]  BY <2>1
 <2> QED  BY <2>3, <2>6, <2>7
<1>10. g[n] = Result  BY <1>7
<1> HIDE DEF g
<1> QED  BY <1>1, <1>8, <1>9, <1>10 DEF base, Step, ReplayRun

\* The replay of no event.
LEMMA ReplayNone ==
    ASSUME NEW limit
    PROVE  ReplayOf(limit, <<>>) = NoReplay
<1>1. PICK n, s : n \in Nat /\ n = 0 /\ s = <<>>  OBVIOUS
<1>2. n \in Nat /\ DOMAIN s = 1 .. n  BY <1>1
<1>3. PICK g : ReplayRun(limit, s, n, g)  BY <1>2, ReplayRuns
<1>4. g[0] = NoReplay /\ ReplayOf(limit, s) = g[n]  BY <1>3 DEF ReplayRun
<1> QED  BY <1>1, <1>4

\* The replay of one event more is one step more.
LEMMA ReplayAppend ==
    ASSUME NEW limit, NEW events, IsList(events), NEW e
    PROVE  ReplayOf(limit, Append(events, e)) = ReplayStep(limit, ReplayOf(limit, events), e)
<1>1. PICK all : all = Append(events, e)  OBVIOUS
<1>2. Longer(events, e, all)  BY <1>1, AppendIs
<1>3. PICK n \in Nat : n = Len(events)  BY <1>2 DEF Longer
<1>4. /\ DOMAIN events = 1 .. n /\ DOMAIN all = 1 .. n + 1
      /\ all[n + 1] = e /\ \A i \in 1 .. n : all[i] = events[i]
  BY <1>2, <1>3 DEF Longer
<1>5. PICK m \in Nat : m = n + 1  OBVIOUS
<1>6. PICK f : ReplayRun(limit, events, n, f)  BY <1>4, ReplayRuns
<1>7. PICK g : ReplayRun(limit, all, m, g)  BY <1>4, <1>5, ReplayRuns
<1>8. /\ f[0] = NoReplay /\ g[0] = NoReplay
      /\ \A k \in 1 .. n : f[k] = ReplayStep(limit, f[k - 1], events[k])
      /\ \A k \in 1 .. m : g[k] = ReplayStep(limit, g[k - 1], all[k])
      /\ ReplayOf(limit, events) = f[n] /\ ReplayOf(limit, all) = g[m]
  BY <1>6, <1>7 DEF ReplayRun
<1>9. ASSUME NEW k \in 1 .. n, f[k - 1] = g[k - 1] PROVE f[k] = g[k]
 <2>1. k \in 1 .. m  BY <1>5
 <2> QED  BY <1>4, <1>8, <1>9, <2>1
<1> DEFINE Missed == {k \in 0 .. n : f[k] # g[k]}
<1>10. Missed = {}
 <2> SUFFICES ASSUME Missed # {} PROVE FALSE  OBVIOUS
 <2>1. Missed \subseteq Nat /\ \A k : k \in Missed <=> (k \in 0 .. n /\ f[k] # g[k])  OBVIOUS
 <2> HIDE DEF Missed
 <2>2. PICK k \in Missed : \A l \in Missed : k <= l  BY <2>1, LeastOf
 <2>3. k \in 1 .. n  BY <1>8, <2>1, <2>2
 <2>4. k - 1 \in 0 .. n /\ k - 1 \notin Missed  BY <2>2, <2>3
 <2> QED  BY <1>9, <2>1, <2>2, <2>3, <2>4
<1>11. f[n] = g[n]  BY <1>10
<1>12. g[m] = ReplayStep(limit, g[n], e)  BY <1>5, <1>8, <1>4
<1> QED  BY <1>1, <1>8, <1>11, <1>12

----------------------------------------------------------------------------
(* Pieces of lists                                                         *)

\* The list r is the n members of s after the first a.
Slice(s, a, n, r) ==
    /\ IsList(r) /\ Len(r) = n
    /\ \A i \in 1 .. n : r[i] = s[a + i]

LEMMA SubSeqIs ==
    ASSUME NEW s, IsList(s), NEW a \in Nat, NEW n \in Nat, a + n <= Len(s),
           NEW r, r = SubSeq(s, a + 1, a + n)
    PROVE  Slice(s, a, n, r)
<1> DEFINE S == {s[i] : i \in DOMAIN s}
<1>1. Len(s) \in Nat /\ DOMAIN s = 1 .. Len(s)  BY ListIs
<1>2. PICK b \in Int, c \in Int : b = a + 1 /\ c = a + n  OBVIOUS
<1>3. \A i \in b .. c : s[i] \in S  BY <1>1, <1>2
<1> HIDE DEF S
<1>4. /\ SubSeq(s, b, c) \in Seq(S)
      /\ Len(SubSeq(s, b, c)) = IF b <= c THEN c - b + 1 ELSE 0
      /\ \A i \in 1 .. c - b + 1 : SubSeq(s, b, c)[i] = s[b + i - 1]
  BY <1>3, SubSeqProperties
<1>5. r = SubSeq(s, b, c)  BY <1>2
<1>6. r \in Seq(S) /\ Len(r) = n /\ \A i \in 1 .. n : r[i] = s[b + i - 1]  BY <1>2, <1>4, <1>5
<1>7. \A i \in 1 .. n : b + i - 1 = a + i  BY <1>2
<1>8. IsList(r)  BY <1>6, SeqIsList
<1> QED  BY <1>6, <1>7, <1>8 DEF Slice

LEMMA TailIs ==
    ASSUME NEW s, IsList(s), Len(s) >= 1, NEW r, r = Tail(s)
    PROVE  Slice(s, 1, Len(s) - 1, r)
<1> DEFINE S == {s[i] : i \in DOMAIN s}
<1>1. s \in Seq(S) /\ Len(s) \in Nat  BY ListIs DEF IsList
<1> HIDE DEF S
<1>2. s # <<>>  OBVIOUS
<1>3. Tail(s) \in Seq(S) /\ Len(Tail(s)) = Len(s) - 1 /\ \A i \in 1 .. Len(Tail(s)) : Tail(s)[i] = s[i + 1]
  BY <1>1, <1>2, HeadTailProperties
<1>4. IsList(r)  BY <1>3, SeqIsList
<1>5. \A i \in 1 .. Len(s) - 1 : i + 1 = 1 + i  BY <1>1
<1> QED  BY <1>3, <1>4, <1>5 DEF Slice

\* A list with one more member in front.
InFront(s, e, r) ==
    /\ IsList(r) /\ Len(s) \in Nat /\ Len(r) = Len(s) + 1
    /\ r[1] = e /\ \A i \in 1 .. Len(s) : r[i + 1] = s[i]

LEMMA ConsIs ==
    ASSUME NEW s, IsList(s), NEW e, NEW r, r = <<e>> \o s
    PROVE  InFront(s, e, r)
<1> DEFINE S == {s[i] : i \in DOMAIN s} \cup {e}
<1>1. s \in Seq({s[i] : i \in DOMAIN s}) /\ Len(s) \in Nat  BY ListIs DEF IsList
<1> HIDE DEF S
<1>2. s \in Seq(S) /\ e \in S  BY <1>1 DEF S
<1>3. PICK o : o = <<e>>  OBVIOUS
<1>4. o \in Seq(S) /\ Len(o) = 1 /\ o[1] = e  BY <1>2, <1>3
<1>5. /\ o \o s \in Seq(S) /\ Len(o \o s) = Len(o) + Len(s)
      /\ \A i \in 1 .. Len(o) + Len(s) : (o \o s)[i] = IF i <= Len(o) THEN o[i] ELSE s[i - Len(o)]
  BY <1>2, <1>4, ConcatProperties
<1>6. r \in Seq(S) /\ Len(r) = 1 + Len(s) /\ \A i \in 1 .. 1 + Len(s) : r[i] = IF i <= 1 THEN o[i] ELSE s[i - 1]
  BY <1>3, <1>4, <1>5
<1>7. r[1] = e  BY <1>1, <1>4, <1>6
<1>8. ASSUME NEW i \in 1 .. Len(s) PROVE r[i + 1] = s[i]  BY <1>1, <1>6
<1>9. IsList(r)  BY <1>6, SeqIsList
<1>10. Len(r) = Len(s) + 1  BY <1>1, <1>6
<1> QED  BY <1>1, <1>7, <1>8, <1>9, <1>10 DEF InFront

\* The list r keeps the first n members of s, takes e, and forgets its first beyond the limit.
Excess(n, limit) == IF n + 1 > limit THEN 1 ELSE 0
PushedOn(s, n, e, limit, r) ==
    /\ IsList(r) /\ Len(r) = n + 1 - Excess(n, limit)
    /\ \A i \in 1 .. Len(r) : r[i] = IF i + Excess(n, limit) = n + 1 THEN e ELSE s[i + Excess(n, limit)]

LEMMA PushIs ==
    ASSUME NEW s, IsList(s), NEW n \in Nat, n <= Len(s), NEW e, NEW limit \in Nat,
           NEW all, all = Append(SubSeq(s, 1, n), e),
           NEW r, r = IF Len(all) > limit THEN Tail(all) ELSE all
    PROVE  PushedOn(s, n, e, limit, r) /\ Len(all) = n + 1
<1>0. PICK z \in Nat : z = 0  OBVIOUS
<1>1. PICK k : k = SubSeq(s, 1, n)  OBVIOUS
<1>2. Slice(s, z, n, k)
 <2>1. k = SubSeq(s, z + 1, z + n) /\ z + n <= Len(s)  BY <1>0, <1>1, ListIs
 <2> QED  BY <2>1, SubSeqIs
<1>3. IsList(k) /\ Len(k) = n /\ \A i \in 1 .. n : k[i] = s[i]  BY <1>0, <1>2 DEF Slice
<1>4. Longer(k, e, all)  BY <1>1, <1>3, AppendIs
<1>5. IsList(all) /\ Len(all) = n + 1 /\ all[n + 1] = e /\ \A i \in 1 .. n : all[i] = s[i]
  BY <1>3, <1>4 DEF Longer
<1>6. PICK d : d = Excess(n, limit)  OBVIOUS
<1>7. IsList(r) /\ Len(r) = n + 1 - d /\ \A i \in 1 .. n + 1 - d : r[i] = all[i + d]
 <2>1. CASE n + 1 > limit
  <3>1. r = Tail(all) /\ d = 1 /\ Len(all) >= 1  BY <1>5, <1>6, <2>1 DEF Excess
  <3>2. Slice(all, 1, Len(all) - 1, r)  BY <1>5, <3>1, TailIs
  <3>3. \A i \in 1 .. n + 1 - 1 : 1 + i = i + 1  OBVIOUS
  <3>4. Len(all) - 1 = n + 1 - 1  BY <1>5
  <3> QED  BY <3>1, <3>2, <3>3, <3>4 DEF Slice
 <2>2. CASE ~(n + 1 > limit)  BY <1>5, <1>6, <2>2 DEF Excess
 <2> QED  BY <2>1, <2>2
<1>8. d \in {0, 1}  BY <1>6 DEF Excess
<1>9. ASSUME NEW i \in 1 .. Len(r) PROVE r[i] = IF i + d = n + 1 THEN e ELSE s[i + d]
  BY <1>7, <1>8, <1>5
<1> QED  BY <1>5, <1>6, <1>7, <1>9 DEF PushedOn

----------------------------------------------------------------------------
(* The replay and the stored history                                       *)

\* A replay r with a limit ends in the history h, and its cursor is as far from the end.
Ends(r, limit, h, cur) ==
    /\ DOMAIN r = {"entries", "cursor", "sound"} /\ r.sound
    /\ IsList(r.entries) /\ Len(h) <= Len(r.entries) /\ Len(r.entries) <= limit
    /\ r.cursor = Len(r.entries) - Len(h) + cur
    /\ \A i \in 1 .. Len(h) : r.entries[Len(r.entries) - Len(h) + i] = h[i]

\* EditHistory::undo in the replay.
LEMMA UndoEnds ==
    ASSUME NEW r, NEW limit, NEW h, NEW cur \in Nat, Ends(r, limit, h, cur), IsList(h),
           cur >= 1, cur <= Len(h), NEW e, e.kind = "UNDO", e.entry = h[cur],
           NEW s, s = ReplayStep(limit, r, e)
    PROVE  Ends(s, limit, h, cur - 1)
<1>1. Len(h) \in Nat /\ Len(r.entries) \in Nat  BY ListIs DEF Ends
<1>2. /\ DOMAIN r = {"entries", "cursor", "sound"} /\ r.sound
      /\ IsList(r.entries) /\ Len(h) <= Len(r.entries) /\ Len(r.entries) <= limit
      /\ r.cursor = Len(r.entries) - Len(h) + cur
      /\ \A i \in 1 .. Len(h) : r.entries[Len(r.entries) - Len(h) + i] = h[i]
  BY DEF Ends
<1>3. r.cursor \in Nat /\ r.cursor > 0 /\ cur \in 1 .. Len(h)  BY <1>1, <1>2
<1>4. r.entries[r.cursor] = h[cur]  BY <1>2, <1>3
<1>5. s = [r EXCEPT !.cursor = @ - 1]  BY <1>2, <1>3, <1>4 DEF ReplayStep, Replayed
<1>6. /\ DOMAIN s = {"entries", "cursor", "sound"} /\ s.entries = r.entries
      /\ s.cursor = r.cursor - 1 /\ s.sound = r.sound
  BY <1>2, <1>5
<1>7. s.sound  BY <1>2, <1>6, Zenon
<1>8. s.cursor = Len(s.entries) - Len(h) + (cur - 1)  BY <1>1, <1>2, <1>6
<1> QED  BY <1>2, <1>6, <1>7, <1>8 DEF Ends

\* EditHistory::redo in the replay.
LEMMA RedoEnds ==
    ASSUME NEW r, NEW limit, NEW h, NEW cur \in Nat, Ends(r, limit, h, cur), IsList(h),
           cur + 1 <= Len(h), NEW e, e.kind = "REDO", e.entry = h[cur + 1],
           NEW s, s = ReplayStep(limit, r, e)
    PROVE  Ends(s, limit, h, cur + 1)
<1>1. Len(h) \in Nat /\ Len(r.entries) \in Nat  BY ListIs DEF Ends
<1>2. /\ DOMAIN r = {"entries", "cursor", "sound"} /\ r.sound
      /\ IsList(r.entries) /\ Len(h) <= Len(r.entries) /\ Len(r.entries) <= limit
      /\ r.cursor = Len(r.entries) - Len(h) + cur
      /\ \A i \in 1 .. Len(h) : r.entries[Len(r.entries) - Len(h) + i] = h[i]
  BY DEF Ends
<1>3. r.cursor \in Nat /\ r.cursor < Len(r.entries) /\ cur + 1 \in 1 .. Len(h)  BY <1>1, <1>2
<1>4. r.entries[r.cursor + 1] = h[cur + 1]  BY <1>1, <1>2, <1>3
<1>5. s = [r EXCEPT !.cursor = @ + 1]  BY <1>2, <1>3, <1>4 DEF ReplayStep, Replayed
<1>6. /\ DOMAIN s = {"entries", "cursor", "sound"} /\ s.entries = r.entries
      /\ s.cursor = r.cursor + 1 /\ s.sound = r.sound
  BY <1>2, <1>5
<1>7. s.sound  BY <1>2, <1>6, Zenon
<1>8. s.cursor = Len(s.entries) - Len(h) + (cur + 1)  BY <1>1, <1>2, <1>6
<1> QED  BY <1>2, <1>6, <1>7, <1>8 DEF Ends

\* EditHistory::execute in the replay: what a writer with another limit keeps is still the
\* end of it, if that limit is smaller or did not count.
LEMMA ApplyEnds ==
    ASSUME NEW r, NEW limit \in Nat, NEW h, NEW cur \in Nat, Ends(r, limit, h, cur), IsList(h),
           cur <= Len(h), NEW e, NEW x, e.kind = "APPLY", e.entry = x,
           NEW own \in Nat, NEW k, PushedOn(h, cur, x, own, k), own <= limit \/ Len(k) <= limit,
           NEW s, s = ReplayStep(limit, r, e)
    PROVE  Ends(s, limit, k, Len(k))
<1>1. Len(h) \in Nat /\ Len(r.entries) \in Nat  BY ListIs DEF Ends
<1>2. /\ DOMAIN r = {"entries", "cursor", "sound"} /\ r.sound
      /\ IsList(r.entries) /\ Len(h) <= Len(r.entries) /\ Len(r.entries) <= limit
      /\ r.cursor = Len(r.entries) - Len(h) + cur
      /\ \A i \in 1 .. Len(h) : r.entries[Len(r.entries) - Len(h) + i] = h[i]
  BY DEF Ends
<1>3. PICK n \in Nat, off \in Nat : n = r.cursor /\ off = Len(r.entries) - Len(h)
 <2>1. Len(r.entries) - Len(h) \in Nat  BY <1>1, <1>2
 <2>2. r.cursor \in Nat  BY <1>1, <1>2, <2>1
 <2> QED  BY <2>1, <2>2
<1>4. n = off + cur /\ n <= Len(r.entries) /\ n <= limit  BY <1>1, <1>2, <1>3
<1>5. PICK all : all = Append(SubSeq(r.entries, 1, n), x)  OBVIOUS
<1>6. PICK q : q = IF Len(all) > limit THEN Tail(all) ELSE all  OBVIOUS
<1>7. PICK list : list = r.entries  OBVIOUS
<1>8. PushedOn(list, n, x, limit, q) /\ Len(all) = n + 1
 <2>1. IsList(list) /\ n <= Len(list) /\ all = Append(SubSeq(list, 1, n), x)
   BY <1>2, <1>4, <1>5, <1>7
 <2> QED  BY <1>6, <2>1, PushIs, Zenon
<1>9. s = [r EXCEPT !.entries = q, !.cursor = IF Len(all) > limit THEN limit ELSE Len(all)]
  BY <1>2, <1>3, <1>5, <1>6 DEF ReplayStep, Replayed
<1>10. PICK c : c = IF Len(all) > limit THEN limit ELSE Len(all)  OBVIOUS
<1>11. DOMAIN s = {"entries", "cursor", "sound"} /\ s.entries = q /\ s.cursor = c /\ s.sound = r.sound
  BY <1>9, <1>10, <1>2
<1>12. s.sound  BY <1>2, <1>11, Zenon
<1>13. PICK d \in {0, 1}, g \in {0, 1} : d = Excess(n, limit) /\ g = Excess(cur, own)  BY DEF Excess
<1>14. /\ IsList(q) /\ Len(q) = n + 1 - d
       /\ \A i \in 1 .. Len(q) : q[i] = IF i + d = n + 1 THEN x ELSE r.entries[i + d]
  BY <1>7, <1>8, <1>13 DEF PushedOn
<1>15. /\ IsList(k) /\ Len(k) = cur + 1 - g
       /\ \A i \in 1 .. Len(k) : k[i] = IF i + g = cur + 1 THEN x ELSE h[i + g]
  BY <1>13 DEF PushedOn
<1>16. /\ d = 1 <=> n + 1 > limit
       /\ g = 1 <=> cur + 1 > own
  BY <1>13 DEF Excess
<1>17. off + g >= d  BY <1>4, <1>15, <1>16
<1>18. Len(k) <= Len(q) /\ Len(q) <= limit  BY <1>4, <1>14, <1>15, <1>16, <1>17
<1>19. c = Len(q) - Len(k) + Len(k)  BY <1>4, <1>8, <1>10, <1>14, <1>15, <1>16
<1>20. ASSUME NEW i \in 1 .. Len(k) PROVE q[Len(q) - Len(k) + i] = k[i]
 <2>1. PICK j \in Int : j = Len(q) - Len(k) + i  BY <1>14, <1>15
 <2>2. j \in 1 .. Len(q) /\ j + d = off + (i + g)  BY <1>4, <1>14, <1>15, <1>18, <2>1
 <2>3. q[j] = IF j + d = n + 1 THEN x ELSE r.entries[j + d]  BY <1>14, <2>2
 <2>4. k[i] = IF i + g = cur + 1 THEN x ELSE h[i + g]  BY <1>15
 <2>5. CASE i + g = cur + 1
  <3>1. j + d = n + 1  BY <1>4, <2>2, <2>5
  <3> QED  BY <2>1, <2>3, <2>4, <2>5, <3>1
 <2>6. CASE i + g # cur + 1
  <3>3. i + g <= cur /\ i + g >= 1 /\ i + g \in Int  BY <1>15, <2>6
  <3>4. i + g \in 1 .. Len(h)  BY <1>1, <3>3
  <3>5. j + d # n + 1  BY <1>4, <2>2, <3>3
  <3>1. j + d # n + 1 /\ i + g \in 1 .. Len(h)  BY <3>4, <3>5
  <3>2. r.entries[off + (i + g)] = h[i + g]  BY <1>2, <1>3, <3>1
  <3> QED  BY <2>1, <2>2, <2>3, <2>4, <2>6, <3>1, <3>2
 <2> QED  BY <2>5, <2>6
<1>21. Len(q) - Len(k) + Len(k) = Len(q)  BY <1>14, <1>15
<1> QED  BY <1>11, <1>12, <1>14, <1>18, <1>19, <1>20 DEF Ends

\* A replay of the stored length is the history.
LEMMA SameHistory ==
    ASSUME NEW r, NEW limit, NEW h, NEW cur \in Nat, Ends(r, limit, h, cur), IsList(h),
           Len(r.entries) = Len(h)
    PROVE  r.entries = h /\ r.cursor = cur
<1>1. Len(h) \in Nat /\ IsList(r.entries) /\ r.cursor = Len(r.entries) - Len(h) + cur
  BY ListIs DEF Ends
<1>2. \A i \in 1 .. Len(h) : r.entries[Len(r.entries) - Len(h) + i] = h[i]  BY DEF Ends
<1>3. Len(r.entries) - Len(h) = 0  BY <1>1
<1>4. PICK s : s = r.entries  OBVIOUS
<1>5. IsList(s) /\ Len(s) = Len(h) /\ \A i \in 1 .. Len(s) : s[i] = h[i]  BY <1>1, <1>2, <1>3, <1>4
<1>6. s = h  BY <1>5, SameList
<1> QED  BY <1>1, <1>3, <1>4, <1>6

----------------------------------------------------------------------------
(* The history and its timelines                                           *)

IsEntry(e) == e = [id |-> e.id, cmd |-> e.cmd, undo |-> e.undo]

\* The n entries of a history lead from each of the sound timelines in D to the next.
Chain(h, D, n) ==
    /\ IsList(h) /\ Len(h) = n
    /\ \A i \in 1 .. n + 1 : Sound(D[i])
    /\ \A i \in 1 .. n : IsEntry(h[i]) /\ Linked(D[i], D[i + 1], h[i].cmd, h[i].undo)

\* The timelines before and after the one at the cursor.
Around(D, n, cur, tl, p, f) ==
    /\ tl = D[cur + 1]
    /\ IsList(p) /\ Len(p) = cur /\ \A i \in 1 .. cur : p[i] = D[i]
    /\ IsList(f) /\ Len(f) = n - cur /\ \A i \in 1 .. n - cur : f[i] = D[cur + 1 + i]

\* The timelines after a command executed at the cursor.
Extended(D, cur, limit, tl, n) ==
    [i \in 1 .. n + 1 |-> IF i + Excess(cur, limit) = cur + 2 THEN tl ELSE D[i + Excess(cur, limit)]]

LEMMA ExcessIs ==
    ASSUME NEW cur \in Nat, NEW limit \in Nat \ {0}, cur <= limit
    PROVE  /\ Excess(cur, limit) \in {0, 1} /\ cur + 1 - Excess(cur, limit) \in Nat
           /\ cur + 1 - Excess(cur, limit) >= 1 /\ cur + 1 - Excess(cur, limit) <= limit
           /\ (Excess(cur, limit) = 1 <=> cur = limit)
BY DEF Excess

\* The entries a history has after a command at the cursor.
Left(cur, limit) == cur + 1 - Excess(cur, limit)

\* After a command at the cursor, m entries lead through the timelines E.
Pushes(D, n, cur, limit, m, new, E) ==
    /\ n \in Nat /\ cur \in Nat /\ cur <= n /\ limit \in Nat \ {0} /\ cur <= limit
    /\ m = Left(cur, limit) /\ E = Extended(D, cur, limit, new, m)

\* Executed at the cursor, command c gives x and so the timeline new.
Gives(D, cur, c, x, new) == Works(D[cur + 1], c, x) /\ x.tl = new

MadeOf(e, c, x) == IsEntry(e) /\ e.cmd = c /\ e.undo = x.undo

\* A command executed at the cursor extends the chain.
LEMMA PushChain ==
    ASSUME NEW D, NEW n, NEW cur, NEW limit, NEW m, NEW new, NEW E, Pushes(D, n, cur, limit, m, new, E),
           NEW h, Chain(h, D, n), NEW c, NEW x, Gives(D, cur, c, x, new),
           NEW e, MadeOf(e, c, x), NEW k, PushedOn(h, cur, e, limit, k)
    PROVE  /\ Chain(k, E, m) /\ E[m + 1] = new /\ k[m] = e
           /\ m \in Nat /\ m >= 1 /\ Len(k) = m
<1> USE DEF MadeOf, Gives
<1>0. /\ n \in Nat /\ cur \in Nat /\ cur <= n /\ limit \in Nat \ {0} /\ cur <= limit
      /\ m = Left(cur, limit) /\ E = Extended(D, cur, limit, new, m)
  BY DEF Pushes
<1> USE <1>0
<1>1. PICK d \in {0, 1} : d = Excess(cur, limit)  BY ExcessIs
<1>2. m \in Nat /\ m = cur + 1 - d /\ m >= 1  BY <1>1, ExcessIs DEF Left
<1>3. /\ IsList(k) /\ Len(k) = m
      /\ \A i \in 1 .. m : k[i] = IF i + d = cur + 1 THEN e ELSE h[i + d]
  BY <1>1, <1>2 DEF PushedOn
<1>4. \A i \in 1 .. m + 1 : E[i] = IF i + d = cur + 2 THEN new ELSE D[i + d]  BY <1>1 DEF Extended
<1>5. /\ \A i \in 1 .. n + 1 : Sound(D[i])
      /\ \A i \in 1 .. n : IsEntry(h[i]) /\ Linked(D[i], D[i + 1], h[i].cmd, h[i].undo)
  BY DEF Chain
<1>6. Sound(new) /\ Linked(D[cur + 1], new, c, x.undo)  BY DEF Works
<1>7. ASSUME NEW i \in 1 .. m + 1 PROVE Sound(E[i])  BY <1>4, <1>2, <1>5, <1>6
<1>8. ASSUME NEW i \in 1 .. m
      PROVE  IsEntry(k[i]) /\ Linked(E[i], E[i + 1], k[i].cmd, k[i].undo)
 <2>1. i \in 1 .. m + 1 /\ i + 1 \in 1 .. m + 1 /\ (i + 1) + d = (i + d) + 1  BY <1>2
 <2>2. /\ E[i] = IF i + d = cur + 2 THEN new ELSE D[i + d]
       /\ E[i + 1] = IF (i + d) + 1 = cur + 2 THEN new ELSE D[(i + d) + 1]
   BY <1>4, <2>1
 <2>3. k[i] = IF i + d = cur + 1 THEN e ELSE h[i + d]  BY <1>3
 <2>4. PICK j \in Nat : j = i + d  OBVIOUS
 <2>5. j >= 1 /\ j <= cur + 1  BY <1>2, <2>4
 <2>6. CASE j = cur + 1  BY <2>6, <2>2, <2>3, <2>4, <1>6
 <2>7. CASE j # cur + 1  BY <2>5, <2>7, <2>2, <2>3, <2>4, <1>5
 <2> QED  BY <2>6, <2>7
<1>9. E[m + 1] = new  BY <1>2, <1>4
<1>10. k[m] = e  BY <1>2, <1>3
<1> QED  BY <1>1, <1>2, <1>3, <1>7, <1>8, <1>9, <1>10 DEF Chain, Left

\* The part of the list of replaced timelines that an edit keeps.
KeptPast(p, tl, m) == LET all == Append(p, tl) IN SubSeq(all, Len(all) - m + 1, Len(all))

\* The timelines a command leaves behind.
LEMMA PushAround ==
    ASSUME NEW D, NEW n, NEW cur, NEW limit, NEW m, NEW new, NEW E, Pushes(D, n, cur, limit, m, new, E),
           NEW tl, NEW p, NEW f, Around(D, n, cur, tl, p, f)
    PROVE  /\ Around(E, m, m, new, KeptPast(p, tl, m), <<>>)
           /\ Slice(Append(p, tl), Excess(cur, limit), m, KeptPast(p, tl, m))
<1>0. /\ n \in Nat /\ cur \in Nat /\ cur <= n /\ limit \in Nat \ {0} /\ cur <= limit
      /\ m = Left(cur, limit) /\ E = Extended(D, cur, limit, new, m)
  BY DEF Pushes
<1> USE <1>0
<1>a. PICK all : all = Append(p, tl)  OBVIOUS
<1>b. PICK q : q = KeptPast(p, tl, m)  OBVIOUS
<1>c. q = SubSeq(all, Len(all) - m + 1, Len(all))  BY <1>a, <1>b DEF KeptPast
<1> SUFFICES Around(E, m, m, new, q, <<>>) /\ Slice(all, Excess(cur, limit), m, q)  BY <1>a, <1>b
<1>1. PICK d \in {0, 1} : d = Excess(cur, limit)  BY ExcessIs
<1>2. m \in Nat /\ m = cur + 1 - d /\ m >= 1  BY <1>1, ExcessIs DEF Left
<1>3. tl = D[cur + 1] /\ IsList(p) /\ Len(p) = cur /\ \A i \in 1 .. cur : p[i] = D[i]  BY DEF Around
<1>4. Longer(p, tl, all)  BY <1>3, <1>a, AppendIs
<1>5. IsList(all) /\ Len(all) = cur + 1 /\ all[cur + 1] = tl /\ \A i \in 1 .. cur : all[i] = p[i]
  BY <1>3, <1>4 DEF Longer
<1>6. Slice(all, d, m, q)
 <2>1. Len(all) - m + 1 = d + 1 /\ Len(all) = d + m /\ Len(all) \in Nat  BY <1>2, <1>5
 <2>2. q = SubSeq(all, d + 1, d + m) /\ d \in Nat /\ d + m <= Len(all)  BY <1>5, <1>c, <2>1
 <2> QED  BY <1>2, <1>5, <2>2, SubSeqIs
<1>7. IsList(q) /\ Len(q) = m /\ \A i \in 1 .. m : q[i] = all[d + i]  BY <1>6 DEF Slice
<1>8. \A i \in 1 .. m + 1 : E[i] = IF i + d = cur + 2 THEN new ELSE D[i + d]  BY <1>1 DEF Extended
<1>9. ASSUME NEW i \in 1 .. m PROVE q[i] = E[i]
 <2>1. PICK j \in Nat : j = i + d  OBVIOUS
 <2>2. j >= 1 /\ j <= cur + 1 /\ d + i = j /\ i \in 1 .. m + 1  BY <1>2, <2>1
 <2>3. E[i] = D[j]  BY <2>2, <1>8, <2>1
 <2>4. all[j] = D[j]  BY <2>2, <1>3, <1>5
 <2> QED  BY <1>7, <2>2, <2>3, <2>4
<1>10. new = E[m + 1]  BY <1>2, <1>8
<1>11. IsList(<<>>) /\ Len(<<>>) = 0 /\ m - m = 0
 <2>1. PICK z : z = <<>>  OBVIOUS
 <2>2. z \in Seq({}) /\ Len(z) = 0  BY <2>1
 <2>3. IsList(z)  BY <2>2, SeqIsList
 <2>4. m - m = 0  BY <1>2
 <2> QED  BY <2>1, <2>2, <2>3, <2>4
<1>12. \A i \in 1 .. m - m : FALSE  BY <1>2
<1> QED  BY <1>1, <1>5, <1>6, <1>7, <1>9, <1>10, <1>11, <1>12 DEF Around

\* The position of the last save after a command (EditHistory::execute).
PushedClean(clean, cur, limit) ==
    LET kept == {n \in clean : n <= cur}
    IN  IF cur + 1 > limit THEN {n - 1 : n \in kept \ {0}} ELSE kept

OneAtMost(S) == \A m, n \in S : m = n
CleanIn(clean, n) == clean \subseteq 0 .. n /\ OneAtMost(clean)
SavedAt(clean, D, v) == \A i \in clean : D[i + 1] = v

LEMMA PushClean ==
    ASSUME NEW D, NEW n, NEW cur, NEW limit, NEW m, NEW new, NEW E, Pushes(D, n, cur, limit, m, new, E),
           NEW clean, CleanIn(clean, n)
    PROVE  /\ CleanIn(PushedClean(clean, cur, limit), m)
           /\ \A v : SavedAt(clean, D, v) => SavedAt(PushedClean(clean, cur, limit), E, v)
<1>0. /\ n \in Nat /\ cur \in Nat /\ cur <= n /\ limit \in Nat \ {0} /\ cur <= limit
      /\ m = Left(cur, limit) /\ E = Extended(D, cur, limit, new, m)
      /\ clean \subseteq 0 .. n /\ OneAtMost(clean)
  BY DEF Pushes, CleanIn
<1> USE <1>0
<1>a. PICK s : s = PushedClean(clean, cur, limit)  OBVIOUS
<1> SUFFICES /\ s \subseteq 0 .. m /\ OneAtMost(s)
             /\ \A v : (\A i \in clean : D[i + 1] = v) => \A i \in s : E[i + 1] = v
  BY <1>a DEF CleanIn, SavedAt
<1>1. PICK d \in {0, 1} : d = Excess(cur, limit)  BY ExcessIs
<1>2. m \in Nat /\ m = cur + 1 - d /\ m >= 1  BY <1>1, ExcessIs DEF Left
<1>3. \A i \in 1 .. m + 1 : E[i] = IF i + d = cur + 2 THEN new ELSE D[i + d]  BY <1>1 DEF Extended
<1>4. ASSUME NEW j \in s PROVE j \in 0 .. m /\ j + d \in clean /\ j + d <= cur
 <2>1. CASE cur + 1 > limit
  <3>1. d = 1  BY <1>1, <2>1 DEF Excess
  <3>2. PICK i \in clean : i <= cur /\ i # 0 /\ j = i - 1  BY <2>1, <1>a DEF PushedClean
  <3>3. i \in 0 .. n  BY <3>2
  <3> QED  BY <1>2, <3>1, <3>2, <3>3
 <2>2. CASE ~(cur + 1 > limit)
  <3>1. d = 0  BY <1>1, <2>2 DEF Excess
  <3>2. j \in clean /\ j <= cur  BY <2>2, <1>a DEF PushedClean
  <3>3. j \in 0 .. n  BY <3>2
  <3> QED  BY <1>2, <3>1, <3>2, <3>3
 <2> QED  BY <2>1, <2>2
<1>5. s \subseteq 0 .. m  BY <1>4
<1>6. OneAtMost(s)
 <2> SUFFICES ASSUME NEW i \in s, NEW j \in s PROVE i = j  BY DEF OneAtMost
 <2>1. i + d = j + d  BY <1>4 DEF OneAtMost
 <2>2. i \in Int /\ j \in Int  BY <1>4
 <2> QED  BY <2>1, <2>2
<1>7. ASSUME NEW v, \A i \in clean : D[i + 1] = v, NEW j \in s PROVE E[j + 1] = v
  BY <1>4, <1>2, <1>3, <1>7
<1> QED  BY <1>5, <1>6, <1>7

Below(cur, n) == n \in Nat /\ cur \in Nat /\ cur + 1 <= n
InRange(low, cur, high) == low \in Nat /\ cur \in Nat /\ high \in Nat /\ low <= cur /\ cur <= high

WentBack(D, n, cur, tl, p, f) ==
    Around(D, n, cur - 1, D[cur], Front(p), <<tl>> \o f) /\ p # <<>> /\ p[Len(p)] = D[cur]
WentForward(D, n, cur, tl, p, f) ==
    Around(D, n, cur + 1, D[cur + 2], Append(p, tl), Tail(f)) /\ f # <<>> /\ f[1] = D[cur + 2]

\* Going back by one.
LEMMA UndoAround ==
    ASSUME NEW D, NEW n, NEW cur, InRange(1, cur, n), NEW tl, NEW p, NEW f, Around(D, n, cur, tl, p, f)
    PROVE  WentBack(D, n, cur, tl, p, f)
<1> USE DEF InRange
<1>a. PICK q : q = Front(p)  OBVIOUS
<1>b. PICK g : g = <<tl>> \o f  OBVIOUS
<1> SUFFICES Around(D, n, cur - 1, D[cur], q, g) /\ p # <<>> /\ p[Len(p)] = D[cur]
  BY <1>a, <1>b DEF WentBack
<1>1. /\ tl = D[cur + 1]
      /\ IsList(p) /\ Len(p) = cur /\ \A i \in 1 .. cur : p[i] = D[i]
      /\ IsList(f) /\ Len(f) = n - cur /\ \A i \in 1 .. n - cur : f[i] = D[cur + 1 + i]
  BY DEF Around
<1>2. PICK m \in Nat, z \in Nat : m = cur - 1 /\ z = 0  OBVIOUS
<1>3. Slice(p, z, m, q)
 <2>1. q = SubSeq(p, 1, Len(p) - 1)  BY <1>a DEF Front
 <2>2. q = SubSeq(p, z + 1, z + m) /\ z + m <= Len(p)  BY <1>1, <1>2, <2>1
 <2> QED  BY <1>1, <2>2, SubSeqIs
<1>4. IsList(q) /\ Len(q) = m /\ \A i \in 1 .. m : q[i] = p[i]  BY <1>2, <1>3 DEF Slice
<1>5. \A i \in 1 .. m : q[i] = D[i]  BY <1>2, <1>1, <1>4
<1>6. /\ IsList(g) /\ Len(g) = Len(f) + 1
      /\ g[1] = tl /\ \A i \in 1 .. Len(f) : g[i + 1] = f[i]
 <2>1. IsList(f)  BY <1>1
 <2>2. InFront(f, tl, g)  BY <2>1, <1>b, ConsIs
 <2> QED  BY <2>2 DEF InFront
<1>7. n - m = n - cur + 1 /\ m + 1 = cur  BY <1>2
<1>8. ASSUME NEW i \in 1 .. n - m PROVE g[i] = D[m + 1 + i]
 <2>1. CASE i = 1  BY <1>1, <1>6, <1>7, <2>1
 <2>2. CASE i # 1
  <3>1. PICK j \in 1 .. n - cur : i = j + 1  BY <1>7, <2>2
  <3>2. cur + 1 + j = m + 1 + i  BY <1>7, <3>1
  <3> QED  BY <1>1, <1>6, <3>1, <3>2
 <2> QED  BY <2>1, <2>2
<1>9. Around(D, n, m, D[cur], q, g)  BY <1>1, <1>4, <1>5, <1>6, <1>7, <1>8 DEF Around
<1>10. p # <<>> /\ p[Len(p)] = D[cur]  BY <1>1
<1> QED  BY <1>2, <1>9, <1>10

\* Going forward by one.
LEMMA RedoAround ==
    ASSUME NEW D, NEW n, NEW cur, Below(cur, n), NEW tl, NEW p, NEW f, Around(D, n, cur, tl, p, f)
    PROVE  WentForward(D, n, cur, tl, p, f)
<1>0. n \in Nat /\ cur \in Nat /\ cur + 1 <= n  BY DEF Below
<1> USE <1>0
<1>a. PICK q : q = Append(p, tl)  OBVIOUS
<1>b. PICK g : g = Tail(f)  OBVIOUS
<1> SUFFICES Around(D, n, cur + 1, D[cur + 2], q, g) /\ f # <<>> /\ f[1] = D[cur + 2]
  BY <1>a, <1>b DEF WentForward
<1>1. /\ tl = D[cur + 1]
      /\ IsList(p) /\ Len(p) = cur /\ \A i \in 1 .. cur : p[i] = D[i]
      /\ IsList(f) /\ Len(f) = n - cur /\ \A i \in 1 .. n - cur : f[i] = D[cur + 1 + i]
  BY DEF Around
<1>2. PICK m \in Nat : m = cur + 1  OBVIOUS
<1>3. Longer(p, tl, q)  BY <1>1, <1>a, AppendIs
<1>4. IsList(q) /\ Len(q) = m /\ q[m] = tl /\ \A i \in 1 .. cur : q[i] = p[i]
  BY <1>1, <1>2, <1>3 DEF Longer
<1>5. \A i \in 1 .. m : q[i] = D[i]  BY <1>2, <1>1, <1>4
<1>6. Slice(f, 1, Len(f) - 1, g)
 <2>1. Len(f) >= 1  BY <1>1
 <2> QED  BY <1>1, <1>b, <2>1, TailIs
<1>7. Len(f) - 1 = n - m  BY <1>1, <1>2
<1>8. IsList(g) /\ Len(g) = n - m /\ \A i \in 1 .. n - m : g[i] = f[1 + i]  BY <1>6, <1>7 DEF Slice
<1>9. ASSUME NEW i \in 1 .. n - m PROVE g[i] = D[m + 1 + i]  BY <1>2, <1>1, <1>8
<1>10. D[cur + 2] = D[m + 1]  BY <1>2
<1>11. Around(D, n, m, D[cur + 2], q, g)  BY <1>4, <1>5, <1>8, <1>9, <1>10 DEF Around
<1>12. f # <<>> /\ f[1] = D[cur + 2]  BY <1>1
<1> QED  BY <1>2, <1>11, <1>12

\* The members that are kept and the new one, without the first beyond the limit.
Pushing(s, n, e, limit) ==
    LET all == Append(SubSeq(s, 1, n), e) IN IF Len(all) > limit THEN Tail(all) ELSE all

LEMMA PushingIs ==
    ASSUME NEW s, IsList(s), NEW n \in Nat, n <= Len(s), NEW e, NEW limit \in Nat
    PROVE  PushedOn(s, n, e, limit, Pushing(s, n, e, limit)) /\ Len(Append(SubSeq(s, 1, n), e)) = n + 1
<1>1. PICK all : all = Append(SubSeq(s, 1, n), e)  OBVIOUS
<1>2. PICK r : r = IF Len(all) > limit THEN Tail(all) ELSE all  OBVIOUS
<1>3. PushedOn(s, n, e, limit, r) /\ Len(all) = n + 1  BY <1>1, <1>2, PushIs
<1> QED  BY <1>1, <1>2, <1>3 DEF Pushing

SessionFields == {"tl", "history", "cursor", "clean", "revision"}

\* EditHistory::execute on a session.
PushedSession(s, limit, e, x, r) ==
    /\ DOMAIN r = SessionFields /\ r.tl = x.tl
    /\ PushedOn(s.history, s.cursor, e, limit, r.history)
    /\ r.cursor = Len(r.history)
    /\ r.clean = PushedClean(s.clean, s.cursor, limit)
    /\ r.revision = s.revision + 1

LEMMA PushedIs ==
    ASSUME NEW s, DOMAIN s = SessionFields, IsList(s.history), NEW cur \in Nat, s.cursor = cur,
           cur <= Len(s.history), NEW limit \in Nat \ {0}, cur <= limit,
           NEW id, NEW c, NEW x, NEW e, e = [id |-> id, cmd |-> c, undo |-> x.undo],
           NEW r, r = Pushed(s, limit, id, c, x)
    PROVE  PushedSession(s, limit, e, x, r)
<1>1. PICK h : h = s.history  OBVIOUS
<1>2. PICK all : all = Append(SubSeq(h, 1, cur), e)  OBVIOUS
<1>3. PICK k : k = IF Len(all) > limit THEN Tail(all) ELSE all  OBVIOUS
<1>4. PushedOn(h, cur, e, limit, k) /\ Len(all) = cur + 1
  BY <1>1, PushingIs, <1>2, <1>3 DEF Pushing
<1>5. PICK cl : cl = PushedClean(s.clean, cur, limit)  OBVIOUS
<1>6. PICK m : m = IF Len(all) > limit THEN limit ELSE Len(all)  OBVIOUS
<1>7. r = [s EXCEPT !.tl = x.tl, !.history = k, !.cursor = m, !.clean = cl, !.revision = @ + 1]
  BY <1>4, <1>5, <1>1, <1>2, <1>3, <1>6 DEF PushedClean, Pushed
<1>8. /\ DOMAIN r = SessionFields /\ r.tl = x.tl /\ r.history = k /\ r.cursor = m /\ r.clean = cl
      /\ r.revision = s.revision + 1
  BY <1>7 DEF SessionFields
<1>9. m = Len(k)  BY <1>4, <1>6 DEF PushedOn, Excess
<1> QED  BY <1>1, <1>4, <1>5, <1>8, <1>9 DEF PushedSession

----------------------------------------------------------------------------
(* The inductive invariant                                                 *)

StoreFields == {"exists", "tl", "revision", "events", "count", "cursor", "clean", "imports", "assets"}

\* The types of the store's rows; before the timeline is created they are the empty ones.
StoreOK(st) ==
    /\ DOMAIN st = StoreFields
    /\ st.revision \in Nat /\ st.revision <= MaxRevision
    /\ st.count \in Nat /\ st.cursor \in Nat /\ st.cursor <= st.count
    /\ CleanIn(st.clean, st.count)
    /\ st.imports \subseteq Takes
    /\ IsList(st.events)
    /\ Cataloged(st.assets)

Untouched(st) == st.tl = DefaultTimeline /\ st.count = 0 /\ st.clean = {0} /\ st.revision = 0

\* The stored history is h: its entries lead from each timeline in D to the next, the replay
\* of the events ends in it, and the position of the last save holds the saved timeline.
HistoryOK(st, p, f, sv, ov, h, D) ==
    /\ Chain(h, D, st.count)
    /\ Around(D, st.count, st.cursor, st.tl, p, f)
    /\ st.count <= ReconcilerLimit
    /\ (st.count > EditorLimit => st.cursor = st.count)
    /\ Ends(ReplayOf(ReconcilerLimit, st.events), ReconcilerLimit, h, st.cursor)
    /\ (st.count <= EditorLimit => Ends(ReplayOf(EditorLimit, st.events), EditorLimit, h, st.cursor))
    /\ (ov \/ SavedAt(st.clean, D, sv))

\* A session holds the stored timeline with its history h.
Holds(st, s, h) == DOMAIN s = SessionFields /\ s.tl = st.tl /\ s.history = h /\ s.cursor = st.cursor

NotAhead(st, s) == s.revision \in Nat /\ s.revision <= st.revision

\* Only a session that has seen the stored revision matters: it holds what is stored.
EditorOK(st, ed, h) ==
    \/ ed = Closed
    \/ /\ NotAhead(st, ed)
       /\ ed.revision = st.revision =>
             Holds(st, ed, h) /\ ed.clean = st.clean /\ st.count <= EditorLimit

ImporterOK(st, im, h, ov) ==
    \/ im = Idle
    \/ /\ im.take \in Takes /\ im.cmd = ImportOf(im.take, im.session.tl)
       /\ NotAhead(st, im.session)
       /\ im.session.revision = st.revision =>
             /\ Holds(st, im.session, h)
             /\ CleanIn(im.session.clean, st.count)
             /\ ov \/ im.session.clean = st.clean

\* The import events of a take.
ImportEvents(events, t) ==
    {i \in DOMAIN events :
        /\ events[i].kind = "APPLY"
        /\ events[i].entry.cmd.op = "import"
        /\ [id |-> t] \in {[id |-> m.id] : m \in events[i].entry.cmd.markers}}

Counted(events, imports, t) ==
    /\ t \notin imports => ImportEvents(events, t) = {}
    /\ t \in imports => \E n : ImportEvents(events, t) = {n}

ImportsOK(st, tk) ==
    \A t \in Takes : Counted(st.events, st.imports, t) /\ (t \in st.imports => tk[t] \in Finished)

TakesOK(tk) == tk \in [Takes -> {"RECORDING", "FAILED"} \cup Finished]

IInv ==
    /\ StoreOK(store) /\ TakesOK(takes) /\ asks \in Users /\ overtaken \in BOOLEAN
    /\ ~store.exists => Untouched(store) /\ editor = Closed /\ importer = Idle
    /\ ImportsOK(store, takes)
    /\ \E h, D : /\ HistoryOK(store, past, future, saved, overtaken, h, D)
                 /\ EditorOK(store, editor, h)
                 /\ ImporterOK(store, importer, h, overtaken)

----------------------------------------------------------------------------
(* What a transaction writes                                               *)

Written(st, s, kind, entry, new) ==
    /\ DOMAIN new = StoreFields
    /\ new.exists = st.exists
    /\ new.tl = s.tl /\ new.revision = st.revision + 1
    /\ new.events = Append(st.events, [kind |-> kind, entry |-> entry])
    /\ new.count = Len(s.history) /\ new.cursor = s.cursor /\ new.clean = s.clean

LEMMA StoredIs ==
    ASSUME NEW old, old = store, DOMAIN old = StoreFields, NEW s, NEW kind, NEW entry,
           NEW new, new = Stored(s, kind, entry)
    PROVE  Written(old, s, kind, entry, new) /\ new.imports = old.imports /\ new.assets = old.assets
BY DEF Stored, Written, StoreFields

\* The events of a store after one event more.
LEMMA AppendList ==
    ASSUME NEW s, IsList(s), NEW e, NEW r, r = Append(s, e)
    PROVE  /\ IsList(r) /\ DOMAIN r = DOMAIN s \cup {Len(s) + 1} /\ Len(s) + 1 \notin DOMAIN s
           /\ r[Len(s) + 1] = e /\ \A i \in DOMAIN s : r[i] = s[i]
  BY ListIs, AppendIs DEF Longer

----------------------------------------------------------------------------
(* An edit or an import on the stored history                              *)

\* The document of an edit: what it replaced is remembered, perhaps without the oldest.
Remembered(p, tl, q) == LET all == Append(p, tl) IN q = all \/ (Len(p) >= EditorLimit /\ q = Tail(all))

\* The session after an edit is what is stored.
AfterEdit(new, r, c, q, sv, ov) ==
    /\ new.count \in Nat /\ new.cursor = new.count
    /\ CleanIn(new.clean, new.count)
    /\ r.history[r.cursor].cmd = c
    /\ \E k, E : HistoryOK(new, q, <<>>, sv, ov, k, E) /\ Holds(new, r, k)

\* A fresh session can edit what is stored.
Current(st, s, limit, h, ov) ==
    /\ Holds(st, s, h) /\ s.revision = st.revision
    /\ CleanIn(s.clean, st.count)
    /\ ov \/ s.clean = st.clean
    /\ limit \in {EditorLimit, ReconcilerLimit} /\ (limit = EditorLimit => st.count <= EditorLimit)

LEMMA KeptPastIs ==
    ASSUME NEW p, IsList(p), NEW cur \in Nat, Len(p) = cur, NEW tl, NEW limit \in Nat \ {0}, cur <= limit,
           limit >= EditorLimit, NEW m, m = Left(cur, limit), NEW q, q = KeptPast(p, tl, m),
           Slice(Append(p, tl), Excess(cur, limit), m, q)
    PROVE  Remembered(p, tl, q)
<1>1. PICK all : all = Append(p, tl)  OBVIOUS
<1>2. Longer(p, tl, all)  BY <1>1, AppendIs
<1>3. IsList(all) /\ Len(all) = cur + 1  BY <1>2 DEF Longer
<1>4. Excess(cur, limit) \in {0, 1} /\ (Excess(cur, limit) = 1 <=> cur = limit)  BY ExcessIs
<1>5. q = SubSeq(all, Len(all) - m + 1, Len(all))  BY <1>1 DEF KeptPast
<1>6. CASE cur = limit
 <2>1. m = cur  BY <1>4, <1>6 DEF Left
 <2>3. PICK r : r = Tail(all)  OBVIOUS
 <2>5. Slice(all, 1, Len(all) - 1, r)
  <3>1. Len(all) >= 1  BY <1>3
  <3> QED  BY <3>1, <2>3, <1>3, TailIs
 <2>9. Slice(all, 1, cur, r)  BY <2>5, <1>3
 <2>6. Slice(all, 1, cur, q)  BY <1>1, <1>4, <1>6, <2>1
 <2>7. IsList(q) /\ IsList(r) /\ Len(q) = Len(r) /\ \A i \in 1 .. Len(q) : q[i] = r[i]
   BY <2>9, <2>6 DEF Slice
 <2>8. q = Tail(all)  BY <2>7, <2>3, SameList
 <2>4. Len(p) >= EditorLimit  BY <1>6, EditingAssumption DEF EditingAssumption
 <2> QED  BY <2>8, <2>4, <1>1 DEF Remembered
<1>7. CASE cur # limit
 <2>1. m = cur + 1  BY <1>4, <1>7 DEF Left
 <2>2. Slice(all, 0, cur + 1, q)  BY <1>1, <1>4, <1>7, <2>1
 <2>3. IsList(q) /\ Len(q) = Len(all) /\ \A i \in 1 .. cur + 1 : q[i] = all[i]
   BY <2>2, <1>3 DEF Slice
 <2>4. Len(q) = Len(all) /\ \A i \in 1 .. Len(q) : q[i] = all[i]  BY <2>3, <1>3
 <2>5. q = all  BY <2>4, <2>3, <1>3, SameList
 <2> QED  BY <2>5, <1>1 DEF Remembered
<1> QED  BY <1>6, <1>7

\* A session s executes command c with result x, and the transaction stores it.
EditOf(st, p, s, limit, c, x, r, new, q) ==
    /\ Proper(c) /\ x \in Execute(s.tl, c) /\ r = Pushed(s, limit, s.revision, c, x)
    /\ Written(st, r, "APPLY", r.history[r.cursor], new)
    /\ q = KeptPast(p, st.tl, r.cursor)

EditKept(st, p, limit, r, new, q) ==
    /\ Remembered(p, st.tl, q) /\ r.revision = st.revision + 1
    /\ limit = EditorLimit => new.count <= EditorLimit

LEMMA PushStep ==
    ASSUME NEW st, StoreOK(st), NEW p, NEW f, NEW sv, NEW ov, NEW h, NEW D, HistoryOK(st, p, f, sv, ov, h, D),
           NEW s, NEW limit, Current(st, s, limit, h, ov),
           NEW c, NEW x, NEW r, NEW new, NEW q, EditOf(st, p, s, limit, c, x, r, new, q)
    PROVE  EditKept(st, p, limit, r, new, q) /\ AfterEdit(new, r, c, q, sv, ov)
<1>0. /\ Proper(c) /\ x \in Execute(s.tl, c) /\ r = Pushed(s, limit, s.revision, c, x)
      /\ Written(st, r, "APPLY", r.history[r.cursor], new)
      /\ q = KeptPast(p, st.tl, r.cursor)
  BY DEF EditOf
<1> USE <1>0
<1>1. PICK n \in Nat, cur \in Nat : n = st.count /\ cur = st.cursor /\ cur <= n  BY DEF StoreOK
<1>2. /\ Chain(h, D, n) /\ Around(D, n, cur, st.tl, p, f)
      /\ n <= ReconcilerLimit /\ (n > EditorLimit => cur = n)
      /\ Ends(ReplayOf(ReconcilerLimit, st.events), ReconcilerLimit, h, cur)
      /\ (n <= EditorLimit => Ends(ReplayOf(EditorLimit, st.events), EditorLimit, h, cur))
      /\ (ov \/ SavedAt(st.clean, D, sv))
  BY <1>1 DEF HistoryOK
<1>3. /\ DOMAIN s = SessionFields /\ s.tl = st.tl /\ s.history = h /\ s.cursor = cur
      /\ s.revision = st.revision /\ CleanIn(s.clean, n)
      /\ (ov \/ s.clean = st.clean)
      /\ limit \in {EditorLimit, ReconcilerLimit} /\ (limit = EditorLimit => n <= EditorLimit)
  BY <1>1 DEF Current, Holds
<1>4. EditorLimit \in Nat \ {0} /\ ReconcilerLimit \in Nat /\ ReconcilerLimit >= EditorLimit
  BY EditingAssumption DEF EditingAssumption
<1>5. limit \in Nat \ {0} /\ cur <= limit /\ limit <= ReconcilerLimit /\ limit >= EditorLimit
  BY <1>1, <1>2, <1>3, <1>4
<1>6. IsList(h) /\ Len(h) = n /\ \A i \in 1 .. n + 1 : Sound(D[i])  BY <1>2 DEF Chain
<1>7. PICK e : e = [id |-> s.revision, cmd |-> c, undo |-> x.undo]  OBVIOUS
<1>8. MadeOf(e, c, x)  BY <1>7 DEF IsEntry, MadeOf
<1>9. PushedSession(s, limit, e, x, r)  BY <1>1, <1>3, <1>5, <1>6, <1>7, PushedIs
<1>10. PICK k : k = r.history  OBVIOUS
<1>11. PICK m : m = Len(k)  OBVIOUS
<1>12. /\ DOMAIN r = SessionFields /\ r.tl = x.tl
       /\ PushedOn(h, cur, e, limit, k) /\ r.cursor = m
       /\ r.clean = PushedClean(s.clean, cur, limit) /\ r.revision = s.revision + 1
  BY <1>3, <1>9, <1>10, <1>11 DEF PushedSession
<1>13. Sound(st.tl) /\ st.tl = D[cur + 1]  BY <1>1, <1>2, <1>6 DEF Around
<1>14. Works(D[cur + 1], c, x)  BY <1>3, <1>13, CommandWorks
<1>15. m = Left(cur, limit)  BY <1>11, <1>12 DEF PushedOn, Left
<1>16. PICK E : E = Extended(D, cur, limit, x.tl, m)  OBVIOUS
<1>17. Pushes(D, n, cur, limit, m, x.tl, E)  BY <1>1, <1>5, <1>15, <1>16 DEF Pushes
<1>18. /\ Chain(k, E, m) /\ E[m + 1] = x.tl /\ k[m] = e
       /\ m \in Nat /\ m >= 1
 <2>1. Chain(h, D, n) /\ PushedOn(h, cur, e, limit, k)  BY <1>2, <1>12
 <2>2. PICK y : y = x.tl  OBVIOUS
 <2>3. Gives(D, cur, c, x, y) /\ Pushes(D, n, cur, limit, m, y, E)  BY <2>2, <1>14, <1>17 DEF Gives
 <2>4. Chain(k, E, m) /\ E[m + 1] = y /\ k[m] = e /\ m \in Nat /\ m >= 1 /\ Len(k) = m
   BY <2>1, <2>3, <1>8, PushChain
 <2> QED  BY <2>2, <2>4
<1>19. q = KeptPast(p, st.tl, m) /\ Around(E, m, m, x.tl, q, <<>>) /\ Slice(Append(p, st.tl), Excess(cur, limit), m, q)
  BY <1>12, <1>2, <1>17, PushAround
<1>20. CleanIn(r.clean, m) /\ \A v : SavedAt(s.clean, D, v) => SavedAt(r.clean, E, v)
  BY <1>3, <1>17, PushClean, <1>12
<1>21. ov \/ SavedAt(r.clean, E, sv)  BY <1>2, <1>3, <1>20
<1>22. PICK ev : ev = [kind |-> "APPLY", entry |-> e]  OBVIOUS
<1>23. /\ new.tl = x.tl /\ new.events = Append(st.events, ev) /\ new.count = m /\ new.cursor = m
       /\ new.clean = r.clean
  BY <1>10, <1>11, <1>12, <1>18, <1>22 DEF Written
<1>24. ev.kind = "APPLY" /\ ev.entry = e  BY <1>22
<1>25. IsList(st.events)  BY DEF StoreOK
<1>26. ASSUME NEW L \in Nat, Ends(ReplayOf(L, st.events), L, h, cur), limit <= L \/ m <= L
       PROVE  Ends(ReplayOf(L, new.events), L, k, m)
 <2>1. PICK y : y = ReplayOf(L, st.events)  OBVIOUS
 <2>2. PICK z : z = ReplayStep(L, y, ev)  OBVIOUS
 <2>3. ReplayOf(L, new.events) = z  BY <1>23, <1>25, <2>1, <2>2, ReplayAppend
 <2>4. Ends(y, L, h, cur)  BY <1>26, <2>1
 <2>5. limit <= L \/ Len(k) <= L  BY <1>26, <1>11
 <2>6. Ends(z, L, k, Len(k))  BY <1>1, <1>5, <1>6, <1>12, <1>24, <2>2, <2>4, <2>5, ApplyEnds
 <2> QED  BY <2>3, <2>6, <1>11
<1>27. Ends(ReplayOf(ReconcilerLimit, new.events), ReconcilerLimit, k, m)
  BY <1>2, <1>4, <1>5, <1>26
<1>28. m <= limit /\ m <= cur + 1 /\ (cur <= limit - 1 => m = cur + 1) /\ (cur = limit => m = cur)
  BY <1>1, <1>5, <1>15, ExcessIs DEF Left
<1>29. ASSUME m <= EditorLimit
       PROVE  Ends(ReplayOf(EditorLimit, new.events), EditorLimit, k, m)
  BY <1>1, <1>2, <1>4, <1>5, <1>28, <1>29, <1>26
<1>30. HistoryOK(new, q, <<>>, sv, ov, k, E)
  BY <1>18, <1>19, <1>23, <1>4, <1>5, <1>28, <1>29, <1>27, <1>21 DEF HistoryOK
<1>31. Holds(new, r, k)  BY <1>10, <1>12, <1>23 DEF Holds
<1>32. r.history[r.cursor].cmd = c  BY <1>8, <1>10, <1>12, <1>18 DEF MadeOf
<1>33. AfterEdit(new, r, c, q, sv, ov)  BY <1>18, <1>20, <1>23, <1>30, <1>31, <1>32 DEF AfterEdit
<1>34. IsList(p) /\ Len(p) = cur  BY <1>2 DEF Around
<1>37. Remembered(p, st.tl, q)  BY <1>1, <1>5, <1>15, <1>19, <1>34, KeptPastIs
<1>38. limit = EditorLimit => new.count <= EditorLimit  BY <1>23, <1>28
<1> QED  BY <1>33, <1>37, <1>38, <1>12, <1>3 DEF EditKept

----------------------------------------------------------------------------
(* A session that is loaded, and undo and redo on the stored history       *)

\* loadEditSession gives a session that holds what is stored.
LEMMA LoadHolds ==
    ASSUME StoreOK(store), NEW p, NEW f, NEW sv, NEW ov, NEW h, NEW D, HistoryOK(store, p, f, sv, ov, h, D),
           NEW limit \in {EditorLimit, ReconcilerLimit}, NEW s \in LoadEditSession(limit)
    PROVE  /\ Holds(store, s, h) /\ s.clean = store.clean /\ s.revision = store.revision
           /\ store.exists /\ store.count <= limit
<1>1. PICK n \in Nat, cur \in Nat : n = store.count /\ cur = store.cursor /\ cur <= n /\ Cataloged(store.assets)
  BY DEF StoreOK
<1>2. /\ Chain(h, D, n) /\ Around(D, n, cur, store.tl, p, f)
      /\ Ends(ReplayOf(ReconcilerLimit, store.events), ReconcilerLimit, h, cur)
      /\ (n <= EditorLimit => Ends(ReplayOf(EditorLimit, store.events), EditorLimit, h, cur))
  BY <1>1 DEF HistoryOK
<1>3. IsList(h) /\ Len(h) = n /\ Sound(store.tl)  BY <1>1, <1>2 DEF Chain, Around
<1>4. PICK r : r = Replay(limit)  OBVIOUS
<1>5. r = ReplayOf(limit, store.events)  BY <1>4 DEF Replay, ReplayOf, NoReplay
<1>6. PICK tl : /\ tl \in LoadTimeline(SnapshotRows(store.tl), store.assets)
                /\ store.exists /\ store.count <= limit
                /\ Len(r.entries) = store.count
                /\ s = [tl |-> tl, history |-> r.entries, cursor |-> store.cursor,
                        clean |-> store.clean, revision |-> store.revision]
  BY <1>4 DEF LoadEditSession
<1>7. tl = store.tl  BY <1>1, <1>3, <1>6, LoadTimelineIs
<1>8. Ends(r, limit, h, cur)  BY <1>1, <1>2, <1>5, <1>6
<1>9. Len(r.entries) = Len(h)  BY <1>1, <1>3, <1>6
<1>10. r.entries = h  BY <1>3, <1>8, <1>9, SameHistory
<1> QED  BY <1>6, <1>7, <1>10 DEF Holds, SessionFields

\* One event more in a replay that ends in the history.
LEMMA EndsOn ==
    ASSUME NEW events, IsList(events), NEW L, NEW h, NEW cur, Ends(ReplayOf(L, events), L, h, cur),
           NEW e, NEW k, NEW to,
           \A r : Ends(r, L, h, cur) => Ends(ReplayStep(L, r, e), L, k, to)
    PROVE  Ends(ReplayOf(L, Append(events, e)), L, k, to)
  BY ReplayAppend

\* The session takes back the last command.
UndoneSession(s, D, u) ==
    /\ s.cursor >= 1 /\ DOMAIN u = SessionFields
    /\ u.tl = D[s.cursor] /\ u.history = s.history /\ u.cursor = s.cursor - 1
    /\ u.clean = s.clean /\ u.revision = s.revision + 1

LEMMA UndoneIs ==
    ASSUME NEW s, DOMAIN s = SessionFields, NEW D, NEW n \in Nat, NEW h, Chain(h, D, n), s.history = h,
           NEW cur \in Nat, cur <= n, s.cursor = cur, s.tl = D[cur + 1], NEW u \in Undone(s)
    PROVE  UndoneSession(s, D, u)
<1>1. cur # 0  BY DEF Undone
<1>2. PICK e : e = h[cur]  OBVIOUS
<1>3. PICK t \in Undo(s.tl, e.cmd, e.undo) :
          u = [s EXCEPT !.tl = t, !.cursor = @ - 1, !.revision = @ + 1]
  BY <1>1, <1>2 DEF Undone
<1>4. Linked(D[cur], D[cur + 1], e.cmd, e.undo)  BY <1>1, <1>2 DEF Chain
<1>5. t = D[cur]  BY <1>3, <1>4 DEF Linked
<1> QED  BY <1>1, <1>3, <1>5 DEF UndoneSession, SessionFields

\* What the stored history is after an undo or a redo by an up-to-date editor.
AfterMove(new, u, p, f, sv, ov, h, D) ==
    HistoryOK(new, p, f, sv, ov, h, D) /\ Holds(new, u, h) /\ new.clean = u.clean
    /\ new.count \in Nat /\ new.cursor \in Nat /\ new.cursor <= new.count
    /\ CleanIn(new.clean, new.count) /\ new.count <= EditorLimit

LEMMA UndoStep ==
    ASSUME NEW st, StoreOK(st), NEW p, NEW f, NEW sv, NEW ov, NEW h, NEW D, HistoryOK(st, p, f, sv, ov, h, D),
           NEW s, Holds(st, s, h), s.clean = st.clean, st.count <= EditorLimit,
           NEW u \in Undone(s), NEW new, Written(st, u, "UNDO", s.history[s.cursor], new)
    PROVE  /\ AfterMove(new, u, Front(p), <<st.tl>> \o f, sv, ov, h, D)
           /\ p # <<>> /\ new.tl = p[Len(p)] /\ u.revision = s.revision + 1
<1>1. PICK n \in Nat, cur \in Nat : n = st.count /\ cur = st.cursor /\ cur <= n  BY DEF StoreOK
<1>2. /\ Chain(h, D, n) /\ Around(D, n, cur, st.tl, p, f)
      /\ n <= ReconcilerLimit
      /\ Ends(ReplayOf(ReconcilerLimit, st.events), ReconcilerLimit, h, cur)
      /\ Ends(ReplayOf(EditorLimit, st.events), EditorLimit, h, cur)
      /\ (ov \/ SavedAt(st.clean, D, sv))
  BY <1>1 DEF HistoryOK
<1>3. DOMAIN s = SessionFields /\ s.history = h /\ s.cursor = cur /\ s.tl = D[cur + 1] /\ st.tl = D[cur + 1]
  BY <1>1, <1>2 DEF Holds, Around
<1>4. UndoneSession(s, D, u)  BY <1>1, <1>2, <1>3, UndoneIs
<1>5. /\ cur >= 1 /\ DOMAIN u = SessionFields /\ u.tl = D[cur] /\ u.history = h /\ u.cursor = cur - 1
      /\ u.clean = st.clean /\ u.revision = s.revision + 1
  BY <1>3, <1>4 DEF UndoneSession
<1>6. PICK ev : ev = [kind |-> "UNDO", entry |-> h[cur]]  OBVIOUS
<1>7. IsList(h) /\ Len(h) = n  BY <1>2 DEF Chain
<1>8. /\ new.tl = D[cur] /\ new.events = Append(st.events, ev) /\ new.count = n /\ new.cursor = cur - 1
      /\ new.clean = st.clean
  BY <1>3, <1>5, <1>6, <1>7 DEF Written
<1>9. PICK q, g : q = Front(p) /\ g = <<st.tl>> \o f  OBVIOUS
<1>10. Around(D, n, cur - 1, D[cur], q, g) /\ p # <<>> /\ p[Len(p)] = D[cur]
 <2>1. InRange(1, cur, n) /\ Around(D, n, cur, st.tl, p, f)  BY <1>1, <1>2, <1>5 DEF InRange
 <2>2. WentBack(D, n, cur, st.tl, p, f)  BY <2>1, UndoAround
 <2> QED  BY <2>2, <1>9 DEF WentBack
<1>11. ev.kind = "UNDO" /\ ev.entry = h[cur] /\ IsList(st.events)  BY <1>6 DEF StoreOK
<1>12. ASSUME NEW L, Ends(ReplayOf(L, st.events), L, h, cur)
       PROVE  Ends(ReplayOf(L, new.events), L, h, cur - 1)
 <2>1. ASSUME NEW r, Ends(r, L, h, cur)
       PROVE  Ends(ReplayStep(L, r, ev), L, h, cur - 1)
   BY <1>1, <1>5, <1>7, <1>11, <2>1, UndoEnds
 <2>2. Ends(ReplayOf(L, Append(st.events, ev)), L, h, cur - 1)  BY <1>11, <1>12, <2>1, EndsOn
 <2> QED  BY <2>2, <1>8
<1>13. HistoryOK(new, q, g, sv, ov, h, D)
  BY <1>2, <1>8, <1>10, <1>1, EditingAssumption, <1>12 DEF EditingAssumption, HistoryOK
<1>14. Holds(new, u, h)  BY <1>5, <1>8 DEF Holds
<1>15. CleanIn(new.clean, new.count) /\ new.count \in Nat /\ new.cursor \in Nat /\ new.cursor <= new.count
  BY <1>1, <1>5, <1>8 DEF StoreOK
<1>16. AfterMove(new, u, q, g, sv, ov, h, D)  BY <1>1, <1>5, <1>8, <1>13, <1>14, <1>15 DEF AfterMove
<1> QED  BY <1>5, <1>8, <1>9, <1>10, <1>16

\* The session executes the next command again.
RedoneSession(s, D, u) ==
    /\ s.cursor + 1 <= Len(s.history) /\ DOMAIN u = SessionFields
    /\ u.tl = D[s.cursor + 2] /\ u.history = s.history /\ u.cursor = s.cursor + 1
    /\ u.clean = s.clean /\ u.revision = s.revision + 1

LEMMA RedoneIs ==
    ASSUME NEW s, DOMAIN s = SessionFields, NEW D, NEW n \in Nat, NEW h, Chain(h, D, n), s.history = h,
           NEW cur \in Nat, cur <= n, s.cursor = cur, s.tl = D[cur + 1], NEW u \in Redone(s)
    PROVE  RedoneSession(s, D, u)
<1>1. IsList(h) /\ Len(h) = n /\ DOMAIN h = 1 .. n  BY ListIs DEF Chain
<1>2. cur # n  BY <1>1 DEF Redone
<1>3. PICK i \in 1 .. n : i = cur + 1  BY <1>2
<1>4. PICK x \in Execute(s.tl, h[i].cmd) :
          u = [s EXCEPT !.tl = x.tl, !.cursor = i, !.history[i].undo = x.undo, !.revision = @ + 1]
  BY <1>1, <1>2, <1>3 DEF Redone
<1>5. IsEntry(h[i]) /\ Linked(D[i], D[i + 1], h[i].cmd, h[i].undo)  BY <1>3 DEF Chain
<1>6. s.tl = D[i]  BY <1>3
<1>7. x = [tl |-> D[i + 1], undo |-> h[i].undo]  BY <1>4, <1>5, <1>6 DEF Linked
<1>8. x.tl = D[cur + 2] /\ x.undo = h[i].undo  BY <1>3, <1>7
<1>9. [h EXCEPT ![i].undo = x.undo] = h  BY <1>5, <1>8, <1>1, ListIs DEF IsEntry
<1>10. u.history = [h EXCEPT ![i].undo = x.undo] /\ u.tl = x.tl /\ u.cursor = i
       /\ u.clean = s.clean /\ u.revision = s.revision + 1 /\ DOMAIN u = SessionFields
  BY <1>4 DEF SessionFields
<1> QED  BY <1>1, <1>3, <1>8, <1>9, <1>10 DEF RedoneSession

LEMMA RedoStep ==
    ASSUME NEW st, StoreOK(st), NEW p, NEW f, NEW sv, NEW ov, NEW h, NEW D, HistoryOK(st, p, f, sv, ov, h, D),
           NEW s, Holds(st, s, h), s.clean = st.clean, st.count <= EditorLimit,
           NEW u \in Redone(s), NEW new, Written(st, u, "REDO", s.history[s.cursor + 1], new)
    PROVE  /\ AfterMove(new, u, Append(p, st.tl), Tail(f), sv, ov, h, D)
           /\ f # <<>> /\ new.tl = f[1] /\ u.revision = s.revision + 1
<1>1. PICK n \in Nat, cur \in Nat : n = st.count /\ cur = st.cursor /\ cur <= n  BY DEF StoreOK
<1>2. /\ Chain(h, D, n) /\ Around(D, n, cur, st.tl, p, f)
      /\ n <= ReconcilerLimit
      /\ Ends(ReplayOf(ReconcilerLimit, st.events), ReconcilerLimit, h, cur)
      /\ Ends(ReplayOf(EditorLimit, st.events), EditorLimit, h, cur)
      /\ (ov \/ SavedAt(st.clean, D, sv))
  BY <1>1 DEF HistoryOK
<1>3. DOMAIN s = SessionFields /\ s.history = h /\ s.cursor = cur /\ s.tl = D[cur + 1] /\ st.tl = D[cur + 1]
  BY <1>1, <1>2 DEF Holds, Around
<1>4. RedoneSession(s, D, u)  BY <1>1, <1>2, <1>3, RedoneIs
<1>7. IsList(h) /\ Len(h) = n  BY <1>2 DEF Chain
<1>5. /\ cur + 1 <= n /\ DOMAIN u = SessionFields /\ u.tl = D[cur + 2] /\ u.history = h /\ u.cursor = cur + 1
      /\ u.clean = st.clean /\ u.revision = s.revision + 1
  BY <1>3, <1>4, <1>7 DEF RedoneSession
<1>6. PICK ev : ev = [kind |-> "REDO", entry |-> h[cur + 1]]  OBVIOUS
<1>8. /\ new.tl = D[cur + 2] /\ new.events = Append(st.events, ev) /\ new.count = n /\ new.cursor = cur + 1
      /\ new.clean = st.clean
  BY <1>3, <1>5, <1>6, <1>7 DEF Written
<1>9. PICK q, g : q = Append(p, st.tl) /\ g = Tail(f)  OBVIOUS
<1>10. Around(D, n, cur + 1, D[cur + 2], q, g) /\ f # <<>> /\ f[1] = D[cur + 2]
 <2>1. Below(cur, n) /\ Around(D, n, cur, st.tl, p, f)  BY <1>1, <1>2, <1>5 DEF Below
 <2>2. WentForward(D, n, cur, st.tl, p, f)  BY <2>1, RedoAround
 <2> QED  BY <2>2, <1>9 DEF WentForward
<1>11. ev.kind = "REDO" /\ ev.entry = h[cur + 1] /\ IsList(st.events)  BY <1>6 DEF StoreOK
<1>12. ASSUME NEW L, Ends(ReplayOf(L, st.events), L, h, cur)
       PROVE  Ends(ReplayOf(L, new.events), L, h, cur + 1)
 <2>1. ASSUME NEW r, Ends(r, L, h, cur)
       PROVE  Ends(ReplayStep(L, r, ev), L, h, cur + 1)
   BY <1>1, <1>5, <1>7, <1>11, <2>1, RedoEnds
 <2>2. Ends(ReplayOf(L, Append(st.events, ev)), L, h, cur + 1)  BY <1>11, <1>12, <2>1, EndsOn
 <2> QED  BY <2>2, <1>8
<1>13. HistoryOK(new, q, g, sv, ov, h, D)
  BY <1>2, <1>8, <1>10, <1>1, EditingAssumption, <1>12 DEF EditingAssumption, HistoryOK
<1>14. Holds(new, u, h)  BY <1>5, <1>8 DEF Holds
<1>15. CleanIn(new.clean, new.count) /\ new.count \in Nat /\ new.cursor \in Nat /\ new.cursor <= new.count
  BY <1>1, <1>5, <1>8 DEF StoreOK
<1>16. AfterMove(new, u, q, g, sv, ov, h, D)  BY <1>1, <1>5, <1>8, <1>13, <1>14, <1>15 DEF AfterMove
<1> QED  BY <1>5, <1>8, <1>9, <1>10, <1>16

----------------------------------------------------------------------------
(* The rows that a transaction leaves                                      *)

\* An event that imports take t.
ImportsTake(e, t) ==
    e.kind = "APPLY" /\ e.entry.cmd.op = "import" /\ [id |-> t] \in {[id |-> m.id] : m \in e.entry.cmd.markers}

\* The event is the import of the takes in J, and they were not imported before.
Records(st, e, J, new, tk) ==
    /\ new.events = Append(st.events, e) /\ new.imports = st.imports \cup J
    /\ \A t \in Takes : ImportsTake(e, t) <=> t \in J
    /\ \A t \in J : t \notin st.imports /\ tk[t] \in Finished

LEMMA CountedOn ==
    ASSUME NEW events, IsList(events), NEW imports, NEW t, Counted(events, imports, t),
           NEW e, NEW J, ImportsTake(e, t) <=> t \in J, t \in J => t \notin imports
    PROVE  Counted(Append(events, e), imports \cup J, t)
<1>1. PICK r : r = Append(events, e)  OBVIOUS
<1>2. PICK n : n = Len(events) + 1  OBVIOUS
<1>3. /\ DOMAIN r = DOMAIN events \cup {n} /\ n \notin DOMAIN events
      /\ r[n] = e /\ \A i \in DOMAIN events : r[i] = events[i]
  BY <1>1, <1>2, AppendList
<1>4. \A ev : ImportEvents(ev, t) = {i \in DOMAIN ev : ImportsTake(ev[i], t)}
  BY DEF ImportEvents, ImportsTake
<1>5. ImportEvents(events, t) = {i \in DOMAIN events : ImportsTake(events[i], t)}  BY <1>4
<1>6. ImportEvents(r, t) = {i \in DOMAIN r : ImportsTake(r[i], t)}  BY <1>4
<1>7. CASE t \in J
 <2>1. ImportEvents(r, t) = {n}
  <3>1. {i \in DOMAIN events : ImportsTake(events[i], t)} = {}  BY <1>5, <1>7 DEF Counted
  <3>2. ASSUME NEW i \in DOMAIN r PROVE ImportsTake(r[i], t) <=> i = n  BY <1>3, <3>1, <1>7
  <3>3. n \in DOMAIN r  BY <1>3
  <3> QED  BY <1>6, <3>2, <3>3
 <2> QED  BY <1>1, <1>7, <2>1 DEF Counted
<1>8. CASE t \notin J
 <2>1. ImportEvents(r, t) = ImportEvents(events, t)
  <3>1. ASSUME NEW i PROVE (i \in DOMAIN r /\ ImportsTake(r[i], t)) <=> (i \in DOMAIN events /\ ImportsTake(events[i], t))
    BY <1>3, <1>8
  <3> QED  BY <1>5, <1>6, <3>1
 <2> QED  BY <1>1, <1>8, <2>1 DEF Counted
<1> QED  BY <1>7, <1>8

LEMMA ImportsOn ==
    ASSUME NEW st, StoreOK(st), NEW tk, ImportsOK(st, tk), NEW e, NEW J, NEW new, Records(st, e, J, new, tk)
    PROVE  ImportsOK(new, tk)
<1> SUFFICES ASSUME NEW t \in Takes
             PROVE  Counted(new.events, new.imports, t) /\ (t \in new.imports => tk[t] \in Finished)
  BY DEF ImportsOK
<1>1. IsList(st.events)  BY DEF StoreOK
<1>2. Counted(st.events, st.imports, t) /\ (t \in st.imports => tk[t] \in Finished)
  BY DEF ImportsOK
<1>3. /\ new.events = Append(st.events, e) /\ new.imports = st.imports \cup J
      /\ (ImportsTake(e, t) <=> t \in J) /\ (t \in J => t \notin st.imports /\ tk[t] \in Finished)
  BY DEF Records
<1>4. Counted(Append(st.events, e), st.imports \cup J, t)  BY <1>1, <1>2, <1>3, CountedOn
<1> QED  BY <1>2, <1>3, <1>4

\* The rows keep their types when a transaction stores a session.
LEMMA StoreOn ==
    ASSUME NEW st, StoreOK(st), st.revision < MaxRevision, NEW s, NEW kind, NEW entry, NEW new,
           Written(st, s, kind, entry, new), new.count \in Nat, new.cursor \in Nat, new.cursor <= new.count,
           CleanIn(new.clean, new.count), new.imports \subseteq Takes, Cataloged(new.assets)
    PROVE  StoreOK(new)
<1>1. DOMAIN new = StoreFields /\ new.revision = st.revision + 1
      /\ new.events = Append(st.events, [kind |-> kind, entry |-> entry])
  BY DEF Written
<1>2. st.revision \in Nat /\ IsList(st.events)  BY DEF StoreOK
<1>3. new.revision \in Nat /\ new.revision <= MaxRevision
  BY <1>1, <1>2, EditingAssumption DEF EditingAssumption
<1>4. IsList(new.events)
 <2>1. PICK ev, e : ev = st.events /\ e = [kind |-> kind, entry |-> entry]  OBVIOUS
 <2>2. Longer(ev, e, Append(ev, e))  BY <1>2, <2>1, AppendIs
 <2> QED  BY <1>1, <2>1, <2>2 DEF Longer
<1> QED  BY <1>1, <1>3, <1>4 DEF StoreOK

\* Another writer makes a session stale.
LEMMA Stale ==
    ASSUME NEW st, StoreOK(st), NEW new, new.revision = st.revision + 1, NEW h, NEW k, NEW ov, NEW ow
    PROVE  /\ \A ed : EditorOK(st, ed, h) => EditorOK(new, ed, k)
           /\ \A im : ImporterOK(st, im, h, ov) => ImporterOK(new, im, k, ow)
<1>1. st.revision \in Nat  BY DEF StoreOK
<1>2. ASSUME NEW s, NotAhead(st, s)
      PROVE  NotAhead(new, s) /\ s.revision # new.revision
  BY <1>1, <1>2 DEF NotAhead
<1>3. ASSUME NEW ed, EditorOK(st, ed, h) PROVE EditorOK(new, ed, k)  BY <1>2, <1>3 DEF EditorOK
<1>4. ASSUME NEW im, ImporterOK(st, im, h, ov) PROVE ImporterOK(new, im, k, ow)
  BY <1>2, <1>4 DEF ImporterOK
<1> QED  BY <1>3, <1>4

\* insertAsset for the media of a take.
LEMMA StaysCataloged ==
    ASSUME NEW assets, Cataloged(assets), NEW t, NEW new \in InsertAssets(assets, AssetsOf(t))
    PROVE  Cataloged(new)
  BY DEF InsertAssets, Allowed, AssetsOf, Cataloged

----------------------------------------------------------------------------
(* Each step keeps the invariant and is a step of the edited document      *)

Keeps == IInv' /\ [Document!Next]_(Document!vars)

LEMMA StoredSound ==
    ASSUME NEW st, StoreOK(st), NEW p, NEW f, NEW sv, NEW ov, NEW h, NEW D, HistoryOK(st, p, f, sv, ov, h, D)
    PROVE  Sound(st.tl)
<1>1. PICK n \in Nat, cur \in Nat : n = st.count /\ cur = st.cursor /\ cur <= n  BY DEF StoreOK
<1>2. Chain(h, D, n) /\ Around(D, n, cur, st.tl, p, f)  BY <1>1 DEF HistoryOK
<1>3. cur + 1 \in 1 .. n + 1  BY <1>1
<1> QED  BY <1>2, <1>3 DEF Chain, Around

\* The invariant, from what a step leaves.
LEMMA InvIs ==
    ASSUME StoreOK(store'), TakesOK(takes'), asks' \in Users, overtaken' \in BOOLEAN,
           ~store'.exists => Untouched(store') /\ editor' = Closed /\ importer' = Idle,
           ImportsOK(store', takes'), NEW h, NEW D,
           HistoryOK(store', past', future', saved', overtaken', h, D),
           EditorOK(store', editor', h), ImporterOK(store', importer', h, overtaken')
    PROVE  IInv'
BY DEF IInv

\* A step that leaves timeline, past and future alone.
LEMMA DocumentStays ==
    ASSUME IInv', store'.tl = store.tl, past' = past, future' = future
    PROVE  Keeps
BY DEF Keeps, Document!vars

\* An edit of the document.
LEMMA DocumentEdited ==
    ASSUME IInv', Remembered(past, store.tl, past'), future' = <<>>
    PROVE  Keeps
<1>1. Document!Edit  BY DEF Document!Edit, Remembered
<1> QED  BY <1>1 DEF Keeps, Document!Next

LEMMA EditKeeps ==
    ASSUME IInv, NEW kind \in asks, Edit(kind)
    PROVE  Keeps
<1>1. /\ StoreOK(store) /\ TakesOK(takes) /\ asks \in Users /\ overtaken \in BOOLEAN
      /\ (~store.exists => editor = Closed) /\ ImportsOK(store, takes)
  BY DEF IInv
<1>2. PICK h, D : /\ HistoryOK(store, past, future, saved, overtaken, h, D)
                  /\ EditorOK(store, editor, h) /\ ImporterOK(store, importer, h, overtaken)
  BY DEF IInv
<1>3. PICK c \in Commands(kind) : \E s \in Executed(editor, EditorLimit, c) :
          Persist(s, "APPLY", s.history[s.cursor]) /\ Remember(s)
  BY DEF Edit
<1>4. PICK s \in Executed(editor, EditorLimit, c) : Persist(s, "APPLY", s.history[s.cursor]) /\ Remember(s)
  BY <1>3
<1>5. PICK x \in Execute(editor.tl, c) : s = Pushed(editor, EditorLimit, editor.revision, c, x)
  BY DEF Executed
<1>6. /\ store.revision < MaxRevision /\ editor.revision = store.revision
      /\ store' = Stored(s, "APPLY", s.history[s.cursor]) /\ editor' = s
      /\ importer' = importer /\ takes' = takes /\ asks' = asks
  BY <1>4 DEF Persist, Fresh
<1>7. /\ past' = KeptPast(past, store.tl, s.cursor) /\ future' = <<>>
      /\ saved' = saved /\ overtaken' = overtaken
  BY <1>4 DEF Remember, KeptPast
<1>8. editor # Closed /\ kind \in Kinds  BY <1>1, EditingAssumption DEF Edit, EditingAssumption
<1>9. Holds(store, editor, h) /\ editor.clean = store.clean /\ store.count <= EditorLimit
  BY <1>2, <1>6, <1>8 DEF EditorOK
<1>10. Sound(store.tl) /\ editor.tl = store.tl  BY <1>1, <1>2, <1>9, StoredSound DEF Holds
<1>11. Proper(c) /\ c.op # "import"  BY <1>8, <1>10, CommandsAreProper
<1>12. Current(store, editor, EditorLimit, h, overtaken)  BY <1>1, <1>6, <1>9 DEF Current, StoreOK
<1>13. DOMAIN store = StoreFields /\ store.revision \in Nat  BY <1>1 DEF StoreOK
<1>14. Written(store, s, "APPLY", s.history[s.cursor], store') /\ store'.imports = store.imports
       /\ store'.assets = store.assets
  BY <1>6, <1>13, StoredIs
<1>15. /\ AfterEdit(store', s, c, past', saved, overtaken) /\ Remembered(past, store.tl, past')
       /\ s.revision = store.revision + 1 /\ store'.count <= EditorLimit
 <2>1. EditOf(store, past, editor, EditorLimit, c, x, s, store', past')
   BY <1>5, <1>7, <1>11, <1>14 DEF EditOf
 <2>2. EditKept(store, past, EditorLimit, s, store', past') /\ AfterEdit(store', s, c, past', saved, overtaken)
   BY <1>1, <1>2, <1>12, <2>1, PushStep
 <2> QED  BY <2>2 DEF EditKept
<1>16. PICK k, E : HistoryOK(store', past', <<>>, saved, overtaken, k, E) /\ Holds(store', s, k)
  BY <1>15 DEF AfterEdit
<1>17. /\ store'.count \in Nat /\ store'.cursor = store'.count /\ CleanIn(store'.clean, store'.count)
       /\ s.history[s.cursor].cmd = c
  BY <1>15 DEF AfterEdit
<1>18. StoreOK(store')  BY <1>17, <1>1, <1>14, <1>6, StoreOn DEF StoreOK
<1>19. ImportsOK(store', takes')
 <2>1. PICK e : e = [kind |-> "APPLY", entry |-> s.history[s.cursor]]  OBVIOUS
 <2>2. \A t \in Takes : ~ImportsTake(e, t)  BY <1>11, <1>17, <2>1 DEF ImportsTake
 <2>3. Records(store, e, {}, store', takes)  BY <1>14, <2>1, <2>2 DEF Records, Written
 <2> QED  BY <1>1, <1>6, <2>3, ImportsOn
<1>20. store'.revision = store.revision + 1 /\ store'.exists = store.exists /\ store'.clean = s.clean
  BY <1>14 DEF Written
<1>21. EditorOK(store', editor', k)  BY <1>13, <1>15, <1>20, <1>6, <1>16 DEF NotAhead, EditorOK
<1>22. ImporterOK(store', importer', k, overtaken')  BY <1>1, <1>2, <1>6, <1>20, Stale
<1>23. ~store'.exists => Untouched(store') /\ editor' = Closed /\ importer' = Idle
  BY <1>1, <1>8, <1>20
<1>24. IInv'  BY <1>7, <1>16, <1>1, <1>6, <1>18, <1>19, <1>21, <1>22, <1>23, InvIs
<1> QED  BY <1>7, <1>15, <1>24, DocumentEdited

LEMMA UndoKeeps ==
    ASSUME IInv, UndoEdit
    PROVE  Keeps
<1>1. /\ StoreOK(store) /\ TakesOK(takes) /\ asks \in Users /\ overtaken \in BOOLEAN
      /\ (~store.exists => editor = Closed) /\ ImportsOK(store, takes)
  BY DEF IInv
<1>2. PICK h, D : /\ HistoryOK(store, past, future, saved, overtaken, h, D)
                  /\ EditorOK(store, editor, h) /\ ImporterOK(store, importer, h, overtaken)
  BY DEF IInv
<1>3. PICK s \in Undone(editor) : Persist(s, "UNDO", editor.history[editor.cursor])  BY DEF UndoEdit
<1>4. editor # Closed /\ StepBack  BY DEF UndoEdit
<1>5. PICK old : old = editor.history[editor.cursor]  OBVIOUS
<1>6. /\ store.revision < MaxRevision /\ editor.revision = store.revision
      /\ store' = Stored(s, "UNDO", old) /\ editor' = s
      /\ importer' = importer /\ takes' = takes /\ asks' = asks
  BY <1>3, <1>5 DEF Persist, Fresh
<1>7. /\ past' = Front(past) /\ future' = <<store.tl>> \o future
      /\ saved' = saved /\ overtaken' = overtaken
  BY <1>4 DEF StepBack
<1>9. Holds(store, editor, h) /\ editor.clean = store.clean /\ store.count <= EditorLimit
  BY <1>2, <1>4, <1>6 DEF EditorOK
<1>13. DOMAIN store = StoreFields /\ store.revision \in Nat  BY <1>1 DEF StoreOK
<1>14. Written(store, s, "UNDO", old, store') /\ store'.imports = store.imports
       /\ store'.assets = store.assets
  BY <1>6, <1>13, StoredIs
<1>15. /\ AfterMove(store', s, past', future', saved, overtaken, h, D)
       /\ past # <<>> /\ store'.tl = past[Len(past)] /\ s.revision = editor.revision + 1
  BY <1>5, <1>14, <1>1, <1>2, <1>9, UndoStep, <1>7
<1>16. HistoryOK(store', past', future', saved, overtaken, h, D) /\ Holds(store', s, h) /\ store'.clean = s.clean
  BY <1>15 DEF AfterMove
<1>17. /\ store'.count \in Nat /\ store'.cursor \in Nat /\ store'.cursor <= store'.count
       /\ CleanIn(store'.clean, store'.count) /\ store'.count <= EditorLimit
  BY <1>15 DEF AfterMove
<1>18. StoreOK(store')  BY <1>1, <1>14, <1>6, <1>17, StoreOn DEF StoreOK
<1>19. ImportsOK(store', takes')
 <2>1. PICK e : e = [kind |-> "UNDO", entry |-> old]  OBVIOUS
 <2>2. \A t \in Takes : ~ImportsTake(e, t)  BY <2>1 DEF ImportsTake
 <2>3. Records(store, e, {}, store', takes)  BY <1>14, <2>1, <2>2 DEF Records, Written
 <2> QED  BY <1>1, <1>6, <2>3, ImportsOn
<1>20. store'.revision = store.revision + 1 /\ store'.exists = store.exists  BY <1>14 DEF Written
<1>21. EditorOK(store', editor', h)
  BY <1>6, <1>13, <1>15, <1>20, <1>16, <1>17 DEF NotAhead, EditorOK
<1>22. ImporterOK(store', importer', h, overtaken')  BY <1>1, <1>2, <1>6, <1>20, Stale
<1>23. ~store'.exists => Untouched(store') /\ editor' = Closed /\ importer' = Idle
  BY <1>1, <1>4, <1>20
<1>24. IInv'  BY <1>7, <1>16, <1>1, <1>6, <1>18, <1>19, <1>21, <1>22, <1>23, InvIs
<1>25. Document!Undo  BY <1>7, <1>15 DEF Document!Undo, Front
<1> QED  BY <1>24, <1>25 DEF Keeps, Document!Next

LEMMA RedoKeeps ==
    ASSUME IInv, RedoEdit
    PROVE  Keeps
<1>1. /\ StoreOK(store) /\ TakesOK(takes) /\ asks \in Users /\ overtaken \in BOOLEAN
      /\ (~store.exists => editor = Closed) /\ ImportsOK(store, takes)
  BY DEF IInv
<1>2. PICK h, D : /\ HistoryOK(store, past, future, saved, overtaken, h, D)
                  /\ EditorOK(store, editor, h) /\ ImporterOK(store, importer, h, overtaken)
  BY DEF IInv
<1>3. PICK s \in Redone(editor) : Persist(s, "REDO", editor.history[editor.cursor + 1])
  BY DEF RedoEdit
<1>4. editor # Closed /\ StepForward  BY DEF RedoEdit
<1>5. PICK old : old = editor.history[editor.cursor + 1]  OBVIOUS
<1>6. /\ store.revision < MaxRevision /\ editor.revision = store.revision
      /\ store' = Stored(s, "REDO", old) /\ editor' = s
      /\ importer' = importer /\ takes' = takes /\ asks' = asks
  BY <1>3, <1>5 DEF Persist, Fresh
<1>7. /\ past' = Append(past, store.tl) /\ future' = Tail(future)
      /\ saved' = saved /\ overtaken' = overtaken
  BY <1>4 DEF StepForward
<1>9. Holds(store, editor, h) /\ editor.clean = store.clean /\ store.count <= EditorLimit
  BY <1>2, <1>4, <1>6 DEF EditorOK
<1>13. DOMAIN store = StoreFields /\ store.revision \in Nat  BY <1>1 DEF StoreOK
<1>14. Written(store, s, "REDO", old, store') /\ store'.imports = store.imports
       /\ store'.assets = store.assets
  BY <1>6, <1>13, StoredIs
<1>15. /\ AfterMove(store', s, past', future', saved, overtaken, h, D)
       /\ future # <<>> /\ store'.tl = future[1] /\ s.revision = editor.revision + 1
  BY <1>5, <1>14, <1>1, <1>2, <1>9, RedoStep, <1>7
<1>16. HistoryOK(store', past', future', saved, overtaken, h, D) /\ Holds(store', s, h) /\ store'.clean = s.clean
  BY <1>15 DEF AfterMove
<1>17. /\ store'.count \in Nat /\ store'.cursor \in Nat /\ store'.cursor <= store'.count
       /\ CleanIn(store'.clean, store'.count) /\ store'.count <= EditorLimit
  BY <1>15 DEF AfterMove
<1>18. StoreOK(store')  BY <1>1, <1>14, <1>6, <1>17, StoreOn DEF StoreOK
<1>19. ImportsOK(store', takes')
 <2>1. PICK e : e = [kind |-> "REDO", entry |-> old]  OBVIOUS
 <2>2. \A t \in Takes : ~ImportsTake(e, t)  BY <2>1 DEF ImportsTake
 <2>3. Records(store, e, {}, store', takes)  BY <1>14, <2>1, <2>2 DEF Records, Written
 <2> QED  BY <1>1, <1>6, <2>3, ImportsOn
<1>20. store'.revision = store.revision + 1 /\ store'.exists = store.exists  BY <1>14 DEF Written
<1>21. EditorOK(store', editor', h)
  BY <1>6, <1>13, <1>15, <1>20, <1>16, <1>17 DEF NotAhead, EditorOK
<1>22. ImporterOK(store', importer', h, overtaken')  BY <1>1, <1>2, <1>6, <1>20, Stale
<1>23. ~store'.exists => Untouched(store') /\ editor' = Closed /\ importer' = Idle
  BY <1>1, <1>4, <1>20
<1>24. IInv'  BY <1>7, <1>16, <1>1, <1>6, <1>18, <1>19, <1>21, <1>22, <1>23, InvIs
<1>25. Document!Redo  BY <1>7, <1>15 DEF Document!Redo
<1> QED  BY <1>24, <1>25 DEF Keeps, Document!Next

\* The rows of the timeline and its history are the same.
SameRows(st, new) ==
    /\ DOMAIN new = DOMAIN st
    /\ new.tl = st.tl /\ new.revision = st.revision /\ new.events = st.events
    /\ new.count = st.count /\ new.cursor = st.cursor /\ new.clean = st.clean
    /\ new.imports = st.imports /\ new.assets = st.assets

LEMMA SameRowsKeep ==
    ASSUME NEW st, NEW new, SameRows(st, new)
    PROVE  /\ StoreOK(st) => StoreOK(new)
           /\ \A tk : ImportsOK(st, tk) => ImportsOK(new, tk)
           /\ \A p, f, sv, ov, h, D : HistoryOK(st, p, f, sv, ov, h, D) => HistoryOK(new, p, f, sv, ov, h, D)
           /\ \A s, h : Holds(st, s, h) => Holds(new, s, h)
           /\ \A ed, h : EditorOK(st, ed, h) => EditorOK(new, ed, h)
           /\ \A im, h, ov : ImporterOK(st, im, h, ov) => ImporterOK(new, im, h, ov)
<1> USE DEF SameRows
<1>1. StoreOK(st) => StoreOK(new)  BY DEF StoreOK
<1>2. \A tk : ImportsOK(st, tk) => ImportsOK(new, tk)  BY DEF ImportsOK
<1>3. \A p, f, sv, ov, h, D : HistoryOK(st, p, f, sv, ov, h, D) => HistoryOK(new, p, f, sv, ov, h, D)
  BY DEF HistoryOK
<1>4. \A s, h : Holds(st, s, h) => Holds(new, s, h)  BY DEF Holds
<1>5. \A ed, h : EditorOK(st, ed, h) => EditorOK(new, ed, h)  BY <1>4 DEF EditorOK, NotAhead
<1>6. \A im, h, ov : ImporterOK(st, im, h, ov) => ImporterOK(new, im, h, ov)
  BY <1>4 DEF ImporterOK, NotAhead
<1> QED  BY <1>1, <1>2, <1>3, <1>4, <1>5, <1>6

LEMMA SaveKeeps ==
    ASSUME IInv, SaveEdits
    PROVE  Keeps
<1>1. /\ StoreOK(store) /\ TakesOK(takes) /\ asks \in Users /\ overtaken \in BOOLEAN
      /\ (~store.exists => editor = Closed) /\ ImportsOK(store, takes)
  BY DEF IInv
<1>2. PICK h, D : /\ HistoryOK(store, past, future, saved, overtaken, h, D)
                  /\ EditorOK(store, editor, h) /\ ImporterOK(store, importer, h, overtaken)
  BY DEF IInv
<1>3. PICK at : at = editor.cursor  OBVIOUS
<1>4. /\ editor # Closed /\ editor.revision = store.revision
      /\ store' = [store EXCEPT !.clean = {at}]
      /\ editor' = [editor EXCEPT !.clean = {at}]
      /\ saved' = store.tl /\ overtaken' = (overtaken \/ importer # Idle)
      /\ importer' = importer /\ takes' = takes /\ asks' = asks /\ past' = past /\ future' = future
  BY <1>3 DEF SaveEdits, Fresh
<1>5. Holds(store, editor, h) /\ editor.clean = store.clean /\ store.count <= EditorLimit /\ NotAhead(store, editor)
  BY <1>2, <1>4 DEF EditorOK
<1>6. DOMAIN store = StoreFields /\ DOMAIN editor = SessionFields /\ at = store.cursor
  BY <1>1, <1>3, <1>5 DEF StoreOK, Holds
<1>7. /\ DOMAIN store' = StoreFields /\ store'.clean = {at}
      /\ store'.exists = store.exists
      /\ store'.tl = store.tl /\ store'.revision = store.revision /\ store'.events = store.events
      /\ store'.count = store.count /\ store'.cursor = store.cursor
      /\ store'.imports = store.imports /\ store'.assets = store.assets
  BY <1>4, <1>6 DEF StoreFields
<1>8. /\ DOMAIN editor' = SessionFields /\ editor'.clean = {at}
      /\ editor'.tl = editor.tl /\ editor'.history = editor.history /\ editor'.cursor = editor.cursor
      /\ editor'.revision = editor.revision
  BY <1>4, <1>6 DEF SessionFields
<1>9. CleanIn(store'.clean, store'.count)  BY <1>1, <1>6, <1>7 DEF StoreOK, CleanIn, OneAtMost
<1>10. StoreOK(store') /\ ImportsOK(store', takes')
  BY <1>1, <1>4, <1>7, <1>9 DEF StoreOK, ImportsOK
<1>11. SavedAt(store'.clean, D, saved')  BY <1>2, <1>6, <1>4, <1>7 DEF HistoryOK, Around, SavedAt
<1>12. HistoryOK(store', past', future', saved', overtaken', h, D)
  BY <1>2, <1>4, <1>7, <1>11 DEF HistoryOK
<1>13. EditorOK(store', editor', h)  BY <1>5, <1>7, <1>8 DEF Holds, NotAhead, EditorOK
<1>14. ImporterOK(store', importer', h, overtaken')
  BY <1>4, <1>7, <1>2 DEF ImporterOK, Holds, NotAhead
<1>15. ~store'.exists => Untouched(store') /\ editor' = Closed /\ importer' = Idle
  BY <1>1, <1>4, <1>7
<1>16. IInv'  BY <1>1, <1>4, <1>10, <1>12, <1>13, <1>14, <1>15, InvIs
<1> QED  BY <1>4, <1>7, <1>16, DocumentStays

\* Nothing of the store changes but what openProject creates, and no history variable does.
LEMMA OpenKeeps ==
    ASSUME IInv, Open
    PROVE  Keeps
<1>1. /\ StoreOK(store) /\ TakesOK(takes) /\ asks \in Users /\ overtaken \in BOOLEAN
      /\ (~store.exists => Untouched(store) /\ importer = Idle) /\ ImportsOK(store, takes)
  BY DEF IInv
<1>2. PICK h, D : /\ HistoryOK(store, past, future, saved, overtaken, h, D)
                  /\ EditorOK(store, editor, h) /\ ImporterOK(store, importer, h, overtaken)
  BY DEF IInv
<1>3. PICK empty : empty = [tl |-> DefaultTimeline, history |-> <<>>, cursor |-> 0, clean |-> {0}, revision |-> 0]
  OBVIOUS
<1>4. /\ store' = [store EXCEPT !.exists = TRUE]
      /\ importer' = importer /\ takes' = takes /\ asks' = asks
      /\ past' = past /\ future' = future /\ saved' = saved /\ overtaken' = overtaken
  BY DEF Open, trail
<1>5. DOMAIN store = StoreFields /\ store.revision \in Nat  BY <1>1 DEF StoreOK
<1>6. SameRows(store, store')  BY <1>4, <1>5 DEF SameRows, StoreFields
<1>7. store'.exists  BY <1>4, <1>5, Zenon DEF StoreFields
<1>8. EditorOK(store', editor', h)
 <2>1. CASE ~store.exists
  <3>1. editor' = empty  BY <2>1, <1>3 DEF Open
  <3>2. store.tl = DefaultTimeline /\ store.count = 0 /\ store.clean = {0} /\ store.revision = 0
    BY <1>1, <2>1 DEF Untouched
  <3>3. store.cursor = 0  BY <1>1, <3>2 DEF StoreOK
  <3>4. h = <<>>  BY <1>2, <3>2, EmptySeq DEF HistoryOK, Chain, IsList
  <3>5. Holds(store, empty, h) /\ NotAhead(store, empty) /\ empty.clean = store.clean
    BY <1>3, <3>2, <3>3, <3>4 DEF Holds, NotAhead, SessionFields
  <3>6. store.count <= EditorLimit  BY <3>2, EditingAssumption DEF EditingAssumption
  <3>7. EditorOK(store, empty, h)  BY <3>5, <3>6 DEF EditorOK
  <3> QED  BY <3>1, <3>7, <1>6, SameRowsKeep
 <2>2. CASE store.exists
  <3>1. editor' = IF LoadEditSession(EditorLimit) = {} THEN Closed
                  ELSE CHOOSE s \in LoadEditSession(EditorLimit) : TRUE
    BY <2>2 DEF Open
  <3>2. CASE editor' = Closed  BY <3>2 DEF EditorOK
  <3>3. CASE editor' \in LoadEditSession(EditorLimit)
   <4>1. PICK s \in LoadEditSession(EditorLimit) : s = editor'  BY <3>3
   <4>2. /\ Holds(store, s, h) /\ s.clean = store.clean /\ s.revision = store.revision
         /\ store.exists /\ store.count <= EditorLimit
     BY <1>1, <1>2, LoadHolds
   <4>3. EditorOK(store, s, h)  BY <4>2, <1>5 DEF EditorOK, NotAhead
   <4> QED  BY <4>1, <4>3, <1>6, SameRowsKeep
  <3> QED  BY <3>1, <3>2, <3>3
 <2> QED  BY <2>1, <2>2
<1>9. /\ StoreOK(store') /\ ImportsOK(store', takes')
      /\ HistoryOK(store', past', future', saved', overtaken', h, D)
      /\ ImporterOK(store', importer', h, overtaken')
  BY <1>1, <1>2, <1>4, <1>6, SameRowsKeep
<1>10. IInv'  BY <1>1, <1>4, <1>7, <1>8, <1>9, InvIs
<1> QED  BY <1>4, <1>6, <1>10, DocumentStays DEF SameRows

\* A step that changes sessions and the states of takes only.
LEMMA StoreStays ==
    ASSUME IInv, UNCHANGED <<store, asks, trail>>, TakesOK(takes'),
           ImportsOK(store, takes'),
           ~store.exists => editor' = Closed /\ importer' = Idle,
           \A h, D : HistoryOK(store, past, future, saved, overtaken, h, D)
                        /\ EditorOK(store, editor, h) /\ ImporterOK(store, importer, h, overtaken)
                     => EditorOK(store, editor', h) /\ ImporterOK(store, importer', h, overtaken)
    PROVE  Keeps
<1>1. /\ store' = store /\ asks' = asks
      /\ past' = past /\ future' = future /\ saved' = saved /\ overtaken' = overtaken
  BY DEF trail
<1>2. /\ StoreOK(store) /\ asks \in Users /\ overtaken \in BOOLEAN /\ (~store.exists => Untouched(store))
  BY DEF IInv
<1>3. PICK h, D : /\ HistoryOK(store, past, future, saved, overtaken, h, D)
                  /\ EditorOK(store, editor, h) /\ ImporterOK(store, importer, h, overtaken)
  BY DEF IInv
<1>4. EditorOK(store, editor', h) /\ ImporterOK(store, importer', h, overtaken)  BY <1>3
<1>5. IInv'  BY <1>1, <1>2, <1>3, <1>4, InvIs
<1> QED  BY <1>1, <1>5, DocumentStays

LEMMA FinishKeeps ==
    ASSUME IInv, NEW t \in Takes, NEW outcome \in {"COMPLETED", "RECOVERED", "FAILED"}, FinishTake(t, outcome)
    PROVE  Keeps
  BY StoreStays DEF IInv, FinishTake, TakesOK, Finished, ImportsOK

LEMMA PlanKeeps ==
    ASSUME IInv, NEW t \in Takes, PlanImport(t)
    PROVE  Keeps
<1>1. TakesOK(takes) /\ ImportsOK(store, takes) /\ StoreOK(store)  BY DEF IInv
<1>2. PICK s \in LoadEditSession(ReconcilerLimit) :
          importer' = [take |-> t, session |-> s, cmd |-> ImportOf(t, s.tl)]
  BY DEF PlanImport
<1>3. UNCHANGED <<store, editor, takes, asks, trail>>  BY DEF PlanImport
<1>4. ASSUME NEW h, NEW D, HistoryOK(store, past, future, saved, overtaken, h, D)
      PROVE  ImporterOK(store, importer', h, overtaken) /\ store.exists
  BY <1>1, <1>4, LoadHolds, <1>2 DEF NotAhead, StoreOK, ImporterOK
<1>5. store.exists  BY <1>4 DEF IInv
<1>6. TakesOK(takes') /\ ImportsOK(store, takes')  BY <1>1, <1>3
<1> QED  BY <1>3, <1>4, <1>5, <1>6, StoreStays

LEMMA FailKeeps ==
    ASSUME IInv, FailImport
    PROVE  Keeps
  BY StoreStays DEF IInv, FailImport, ImporterOK

LEMMA CrashKeeps ==
    ASSUME IInv, Crash
    PROVE  Keeps
  BY StoreStays DEF IInv, Crash, EditorOK, ImporterOK

LEMMA CommitKeeps ==
    ASSUME IInv, CommitImport
    PROVE  Keeps
<1>1. /\ StoreOK(store) /\ TakesOK(takes) /\ asks \in Users /\ overtaken \in BOOLEAN
      /\ (~store.exists => editor = Closed /\ importer = Idle) /\ ImportsOK(store, takes)
  BY DEF IInv
<1>2. PICK h, D : /\ HistoryOK(store, past, future, saved, overtaken, h, D)
                  /\ EditorOK(store, editor, h) /\ ImporterOK(store, importer, h, overtaken)
  BY DEF IInv
<1>3. PICK from, t, c : from = importer.session /\ t = importer.take /\ c = importer.cmd  OBVIOUS
<1>4. /\ importer # Idle /\ store.revision < MaxRevision /\ from.revision = store.revision
      /\ t \notin store.imports /\ takes[t] \in Finished
      /\ importer' = Idle /\ editor' = editor /\ takes' = takes /\ asks' = asks
  BY <1>3 DEF CommitImport, Fresh
<1>5. PICK s \in Executed(from, ReconcilerLimit, c), assets \in InsertAssets(store.assets, AssetsOf(t)) :
          /\ store' = [Stored(s, "APPLY", s.history[s.cursor]) EXCEPT
                          !.imports = @ \cup {t}, !.assets = assets]
          /\ Remember(s)
  BY <1>3 DEF CommitImport
<1>6. PICK x \in Execute(from.tl, c) : s = Pushed(from, ReconcilerLimit, from.revision, c, x)
  BY DEF Executed
<1>7. /\ past' = KeptPast(past, store.tl, s.cursor) /\ future' = <<>>
      /\ saved' = saved /\ overtaken' = overtaken
  BY <1>5 DEF Remember, KeptPast
<1>8. t \in Takes /\ c = ImportOf(t, from.tl)  BY <1>2, <1>3, <1>4 DEF ImporterOK
<1>9. /\ Holds(store, from, h) /\ CleanIn(from.clean, store.count)
      /\ (overtaken \/ from.clean = store.clean)
  BY <1>2, <1>3, <1>4 DEF ImporterOK
<1>10. Proper(c) /\ c.op = "import"  BY <1>8, ImportIsProper
<1>11. Current(store, from, ReconcilerLimit, h, overtaken)
  BY <1>2, <1>4, <1>9 DEF HistoryOK, Current
<1>12. DOMAIN store = StoreFields /\ store.revision \in Nat  BY <1>1 DEF StoreOK
<1>13. /\ Written(store, s, "APPLY", s.history[s.cursor], store')
       /\ store'.imports = store.imports \cup {t} /\ store'.assets = assets
 <2>1. PICK y : y = Stored(s, "APPLY", s.history[s.cursor])  OBVIOUS
 <2>2. Written(store, s, "APPLY", s.history[s.cursor], y) /\ y.imports = store.imports
   BY <1>12, <2>1, StoredIs
 <2>3. store' = [y EXCEPT !.imports = @ \cup {t}, !.assets = assets]  BY <1>5, <2>1
 <2>4. Written(store, s, "APPLY", s.history[s.cursor], store')
   BY <2>2, <2>3 DEF Written, StoreFields
 <2>5. store'.imports = y.imports \cup {t} /\ store'.assets = assets
   BY <2>2, <2>3 DEF Written, StoreFields
 <2> QED  BY <2>2, <2>4, <2>5
<1>14. EditOf(store, past, from, ReconcilerLimit, c, x, s, store', past')
  BY <1>6, <1>7, <1>10, <1>13 DEF EditOf
<1>15. EditKept(store, past, ReconcilerLimit, s, store', past') /\ AfterEdit(store', s, c, past', saved, overtaken)
  BY <1>1, <1>2, <1>11, <1>14, PushStep
<1>16. PICK k, E : HistoryOK(store', past', <<>>, saved, overtaken, k, E)  BY <1>15 DEF AfterEdit
<1>17. /\ store'.count \in Nat /\ store'.cursor = store'.count /\ CleanIn(store'.clean, store'.count)
       /\ s.history[s.cursor].cmd = c
  BY <1>15 DEF AfterEdit
<1>18. StoreOK(store')  BY <1>17, <1>1, <1>8, <1>13, StaysCataloged, <1>4, StoreOn DEF StoreOK
<1>19. ImportsOK(store', takes')
 <2>1. PICK e : e = [kind |-> "APPLY", entry |-> s.history[s.cursor]]  OBVIOUS
 <2>2. e.kind = "APPLY" /\ e.entry.cmd = c  BY <2>1, <1>17
 <2>3. PICK m : c.markers = {m} /\ m.id = t
  <3>1. PICK base : base = CHOOSE n \in {End(z) : z \in AllClips(from.tl)} \cup {0} :
                                \A z \in AllClips(from.tl) : End(z) <= n
    OBVIOUS
  <3>2. c.markers = {[id |-> t, at |-> base + 1]}  BY <1>8, <3>1 DEF ImportOf
  <3>3. PICK y : y = [id |-> t, at |-> base + 1]  OBVIOUS
  <3>4. c.markers = {y} /\ y.id = t  BY <3>2, <3>3
  <3> QED  BY <3>4
 <2>4. \A u \in Takes : ImportsTake(e, u) <=> u \in {t}
  <3> SUFFICES ASSUME NEW u \in Takes PROVE ([id |-> u] \in {[id |-> y.id] : y \in {m}}) <=> u = t
    BY <1>10, <2>2, <2>3 DEF ImportsTake
  <3>1. ([id |-> u] \in {[id |-> y.id] : y \in {m}}) <=> [id |-> u] = [id |-> t]  BY <2>3
  <3>2. [id |-> u] = [id |-> t] <=> u = t  OBVIOUS
  <3> QED  BY <3>1, <3>2
 <2>5. Records(store, e, {t}, store', takes)  BY <1>4, <1>13, <2>1, <2>4 DEF Records, Written
 <2> QED  BY <1>1, <1>4, <2>5, ImportsOn
<1>20. store'.revision = store.revision + 1 /\ store'.exists = store.exists  BY <1>13 DEF Written
<1>21. EditorOK(store', editor', k)  BY <1>1, <1>2, <1>4, <1>20, Stale
<1>22. ImporterOK(store', importer', k, overtaken')  BY <1>4 DEF ImporterOK
<1>23. ~store'.exists => Untouched(store') /\ editor' = Closed /\ importer' = Idle
  BY <1>1, <1>4, <1>20
<1>24. IInv'  BY <1>7, <1>16, <1>1, <1>4, <1>18, <1>19, <1>21, <1>22, <1>23, InvIs
<1>25. Remembered(past, store.tl, past')  BY <1>15 DEF EditKept
<1> QED  BY <1>7, <1>24, <1>25, DocumentEdited

\* The timeline that openProject creates.
LEMMA DefaultIsSound ==
    ASSUME NEW tl, tl = DefaultTimeline
    PROVE  Sound(tl)
<1>1. PICK a, b : /\ tl = [tracks |-> <<a, b>>, markers |-> {}]
                  /\ a = [id |-> <<"video", 0>>, kind |-> "video", clips |-> {}]
                  /\ b = [id |-> <<"audio", 0>>, kind |-> "audio", clips |-> {}]
  BY DEF DefaultTimeline
<1>2. PICK ts : ts = <<a, b>>  OBVIOUS
<1>3. ts \in Seq({a, b}) /\ DOMAIN ts = {1, 2} /\ ts[1] = a /\ ts[2] = b  BY <1>2
<1>4. IsList(ts)  BY <1>3, SeqIsList
<1>5. /\ a.id # b.id /\ a.clips = {} /\ b.clips = {} /\ IsTrack(a) /\ IsTrack(b)
  BY <1>1 DEF IsTrack
<1>6. tl.tracks = ts /\ tl.markers = {} /\ tl = [tracks |-> tl.tracks, markers |-> tl.markers]
  BY <1>1, <1>2
<1>7. \A i \in DOMAIN tl.tracks : IsTrack(tl.tracks[i]) /\ tl.tracks[i].clips = {}
  BY <1>3, <1>5, <1>6
<1>8. Shaped(tl)  BY <1>4, <1>6, <1>7 DEF Shaped
<1>9. Named(tl)  BY <1>3, <1>5, <1>6 DEF Named
<1>10. Filled(tl)  BY <1>7 DEF Filled, ValidClips
<1>11. Unshared(tl)  BY <1>7 DEF Unshared
<1> QED  BY <1>8, <1>9, <1>10, <1>11 DEF Sound

LEMMA InitKeeps ==
    ASSUME Init
    PROVE  IInv
<1>1. PICK h : h = <<>>  OBVIOUS
<1>2. PICK D : D = [i \in 1 .. 1 |-> DefaultTimeline]  OBVIOUS
<1>3. h \in Seq({}) /\ Len(h) = 0  BY <1>1
<1>4. IsList(h)  BY <1>3, SeqIsList
<1>5. /\ store = EmptyStore /\ editor = Closed /\ importer = Idle
      /\ takes = [t \in Takes |-> "RECORDING"] /\ asks \in Users
      /\ past = h /\ future = h /\ saved = DefaultTimeline /\ overtaken = FALSE
  BY <1>1 DEF Init
<1>6. /\ DOMAIN store = StoreFields /\ store.tl = DefaultTimeline /\ store.revision = 0 /\ store.events = h
      /\ store.count = 0 /\ store.cursor = 0 /\ store.clean = {0} /\ store.imports = {} /\ store.assets = {}
  BY <1>1, <1>5 DEF EmptyStore, StoreFields
<1>7. StoreOK(store)
  BY <1>4, <1>6, EditingAssumption DEF StoreOK, CleanIn, OneAtMost, Cataloged, EditingAssumption
<1>8. TakesOK(takes)  BY <1>5 DEF TakesOK
<1>9. ImportsOK(store, takes)  BY <1>1, <1>6 DEF ImportEvents, ImportsOK, Counted
<1>10. ASSUME NEW L \in Nat PROVE Ends(ReplayOf(L, store.events), L, h, 0)
 <2>1. PICK r : r = NoReplay  OBVIOUS
 <2>2. ReplayOf(L, store.events) = r  BY <1>1, <1>6, <2>1, ReplayNone
 <2>3. DOMAIN r = {"entries", "cursor", "sound"} /\ r.entries = h /\ r.cursor = 0
   BY <1>1, <2>1 DEF NoReplay
 <2>4. r.sound  BY <2>1, Zenon DEF NoReplay
 <2>5. Ends(r, L, h, 0)  BY <1>3, <1>4, <2>3, <2>4 DEF Ends
 <2> QED  BY <2>2, <2>5
<1>11. D[0 + 1] = DefaultTimeline /\ Sound(DefaultTimeline)  BY <1>2, DefaultIsSound
<1>12. Chain(h, D, 0)  BY <1>2, <1>3, <1>4, <1>11 DEF Chain
<1>13. Around(D, 0, 0, DefaultTimeline, h, h)  BY <1>3, <1>4, <1>11 DEF Around
<1>14. SavedAt({0}, D, DefaultTimeline)  BY <1>11 DEF SavedAt
<1>15. EditorLimit \in Nat /\ ReconcilerLimit \in Nat  BY EditingAssumption DEF EditingAssumption
<1>16. HistoryOK(store, past, future, saved, overtaken, h, D)
  BY <1>5, <1>6, <1>12, <1>13, <1>10, <1>15, <1>14 DEF HistoryOK
<1>17. EditorOK(store, editor, h) /\ ImporterOK(store, importer, h, overtaken)
  BY <1>5 DEF EditorOK, ImporterOK
<1>18. overtaken \in BOOLEAN /\ Untouched(store)  BY <1>5, <1>6 DEF Untouched
<1> QED  BY <1>5, <1>7, <1>8, <1>9, <1>16, <1>17, <1>18 DEF IInv

LEMMA StepKeeps ==
    ASSUME IInv, [Next]_vars
    PROVE  Keeps
<1>1. CASE Open  BY <1>1, OpenKeeps
<1>2. CASE \E k \in asks : Edit(k)  BY <1>2, EditKeeps
<1>3. CASE UndoEdit  BY <1>3, UndoKeeps
<1>4. CASE RedoEdit  BY <1>4, RedoKeeps
<1>5. CASE SaveEdits  BY <1>5, SaveKeeps
<1>6. CASE \E t \in Takes : FinishTake(t, "COMPLETED") \/ FinishTake(t, "RECOVERED") \/ FinishTake(t, "FAILED")
  BY <1>6, FinishKeeps
<1>7. CASE \E t \in Takes : PlanImport(t)  BY <1>7, PlanKeeps
<1>8. CASE CommitImport  BY <1>8, CommitKeeps
<1>9. CASE FailImport  BY <1>9, FailKeeps
<1>10. CASE Crash  BY <1>10, CrashKeeps
<1>11. CASE UNCHANGED vars  BY <1>11, StoreStays DEF vars, IInv
<1> QED  BY <1>1, <1>2, <1>3, <1>4, <1>5, <1>6, <1>7, <1>8, <1>9, <1>10, <1>11 DEF Next

----------------------------------------------------------------------------
(* Theorems                                                                *)

\* A set with one member at most.
LEMMA OneIsFew ==
    ASSUME NEW n \in Nat, NEW S, CleanIn(S, n)
    PROVE  Cardinality(S) <= 1
<1>1. CASE S = {}  BY <1>1, FS_EmptySet
<1>2. CASE S # {}
 <2>1. PICK m : m \in S  BY <1>2
 <2>2. \A i \in S : i = m  BY <2>1 DEF CleanIn, OneAtMost
 <2>3. S = {m}  BY <2>1, <2>2
 <2>4. Cardinality({m}) = 1  BY FS_Singleton
 <2> QED  BY <2>3, <2>4
<1> QED  BY <1>1, <1>2

\* The store's checkpoint stays inside its history, whatever the two writers, their stale
\* sessions and crashes do; the clips of every track are of its kind and disjoint, and no
\* session is ahead of the stored revision (SqliteTimelineStore, EditorSessionWorker,
\* RecordingTimelineReconciler).
THEOREM TimelineTypes == Spec => []TypeOK
<1>1. IInv => TypeOK
 <2> SUFFICES ASSUME IInv PROVE TypeOK  OBVIOUS
 <2>1. StoreOK(store) /\ TakesOK(takes)  BY DEF IInv
 <2>2. PICK h, D : /\ HistoryOK(store, past, future, saved, overtaken, h, D)
                   /\ EditorOK(store, editor, h) /\ ImporterOK(store, importer, h, overtaken)
   BY DEF IInv
 <2>3. store.cursor \in 0 .. store.count /\ store.revision \in 0 .. MaxRevision /\ store.imports \subseteq Takes
   BY <2>1, EditingAssumption DEF StoreOK, EditingAssumption
 <2>4. store.clean \subseteq 0 .. store.count /\ Cardinality(store.clean) <= 1
   BY <2>1, OneIsFew DEF StoreOK, CleanIn
 <2>5. \A i \in DOMAIN store.tl.tracks : ValidClips(store.tl.tracks[i].kind, store.tl.tracks[i].clips)
   BY <2>1, <2>2, StoredSound DEF Sound, Filled
 <2>6. editor = Closed \/ editor.revision <= store.revision  BY <2>2 DEF EditorOK, NotAhead
 <2>7. importer = Idle \/ importer.session.revision <= store.revision
   BY <2>2 DEF ImporterOK, NotAhead
 <2>8. takes \in [Takes -> {"RECORDING", "FAILED"} \cup Finished]  BY <2>1 DEF TakesOK
 <2> QED  BY <2>3, <2>4, <2>5, <2>6, <2>7, <2>8 DEF TypeOK
<1>2. IInv /\ [Next]_vars => IInv'  BY StepKeeps DEF Keeps
<1> QED  BY <1>1, <1>2, InitKeeps, PTL DEF Spec

\* The timeline of the package is a document with bounded undo: a transaction of either
\* writer remembers the document it replaces, and undo and redo restore exactly the
\* neighbouring one, also after the history was read back (TimelineEditService,
\* EditHistory, decodeHistory).
THEOREM DocumentIsKept == Spec => KeepsDocument
<1>1. Init => Document!Init  BY DEF Init, Document!Init
<1>2. IInv /\ [Next]_vars => IInv' /\ [Document!Next]_(Document!vars)  BY StepKeeps DEF Keeps
<1> QED  BY <1>1, <1>2, InitKeeps, PTL DEF Spec, KeepsDocument, Document!Spec

\* A take enters the history by one import event exactly when it is recorded as imported,
\* and only after it ended well; and as long as no save comes between the plan of an import
\* and its commit, a timeline at the clean position of its history is the one that was
\* saved last (executeRecordingImport, markExplicitSave, EditHistory::execute).
THEOREM ImportsAndSaves == Spec => [](ImportedOnce /\ SavedUnlessOvertaken)
<1>1. IInv => ImportedOnce
 <2> SUFFICES ASSUME IInv, NEW t \in Takes
              PROVE  /\ Cardinality(ImportEvents(store.events, t)) = Cardinality({t} \cap store.imports)
                     /\ t \in store.imports => takes[t] \in Finished
   BY DEF ImportedOnce, ImportEvents
 <2>1. Counted(store.events, store.imports, t) /\ (t \in store.imports => takes[t] \in Finished)
   BY DEF IInv, ImportsOK
 <2>2. CASE t \in store.imports
  <3>1. PICK n : ImportEvents(store.events, t) = {n}  BY <2>1, <2>2 DEF Counted
  <3>2. {t} \cap store.imports = {t}  BY <2>2
  <3>3. Cardinality({n}) = 1 /\ Cardinality({t}) = 1  BY FS_Singleton
  <3> QED  BY <2>1, <3>1, <3>2, <3>3
 <2>3. CASE t \notin store.imports  BY <2>1, <2>3 DEF Counted
 <2> QED  BY <2>2, <2>3
<1>2. IInv => SavedUnlessOvertaken
 <2> SUFFICES ASSUME IInv, ~overtaken, store.clean = {store.cursor} PROVE store.tl = saved
   BY DEF SavedUnlessOvertaken, CleanMeansSaved
 <2>1. PICK h, D : HistoryOK(store, past, future, saved, overtaken, h, D)  BY DEF IInv
 <2>2. SavedAt(store.clean, D, saved) /\ store.tl = D[store.cursor + 1]
   BY <2>1 DEF HistoryOK, Around
 <2> QED  BY <2>2 DEF SavedAt
<1>3. IInv /\ [Next]_vars => IInv'  BY StepKeeps DEF Keeps
<1> QED  BY <1>1, <1>2, <1>3, InitKeeps, PTL DEF Spec

SameSession(s, t) ==
    /\ s.tl = t.tl /\ s.history = t.history /\ s.cursor = t.cursor
    /\ s.clean = t.clean /\ s.revision = t.revision

\* Whatever a reader gets back from the store is what an up-to-date editor holds.
ReadsWhatIsHeld ==
    \A limit \in {EditorLimit, ReconcilerLimit} : \A s \in LoadEditSession(limit) :
        editor # Closed /\ Fresh(editor) => SameSession(s, editor)

\* A crash loses no edit and invents none: the session that loadEditSession rebuilds from
\* the rows, the events and the checkpoint, under the limit of either reader, is the one
\* an editor that has seen the stored revision holds in memory.
THEOREM ReopenAgrees == Spec => []ReadsWhatIsHeld
<1>1. IInv => ReadsWhatIsHeld
 <2> SUFFICES ASSUME IInv, NEW limit \in {EditorLimit, ReconcilerLimit}, NEW s \in LoadEditSession(limit),
                     editor # Closed, Fresh(editor)
              PROVE  SameSession(s, editor)
   BY DEF ReadsWhatIsHeld
 <2>1. StoreOK(store)  BY DEF IInv
 <2>2. PICK h, D : HistoryOK(store, past, future, saved, overtaken, h, D) /\ EditorOK(store, editor, h)
   BY DEF IInv
 <2>3. Holds(store, s, h) /\ s.clean = store.clean /\ s.revision = store.revision
   BY <2>1, <2>2, LoadHolds
 <2>4. Holds(store, editor, h) /\ editor.clean = store.clean /\ editor.revision = store.revision
   BY <2>2 DEF EditorOK, Fresh
 <2> QED  BY <2>3, <2>4 DEF Holds, SameSession
<1>2. IInv /\ [Next]_vars => IInv'  BY StepKeeps DEF Keeps
<1> QED  BY <1>1, <1>2, InitKeeps, PTL DEF Spec
=============================================================================
