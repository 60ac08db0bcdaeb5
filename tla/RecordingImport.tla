---------------------------- MODULE RecordingImport ----------------------------
(***************************************************************************)
(* From the rows of a recorded take to clips on the timeline: what          *)
(* RecordingTimelineReconciler joins and planRecordingImport places.        *)
(*                                                                         *)
(* A request holds the take's segments, the role of each source, the scenes *)
(* with what they say of each role, the switches of the scene and the       *)
(* markers.  A source is named by its role and a place on the canvas by its *)
(* layer.  Times are ticks from the start of the take, at least 0.          *)
(***************************************************************************)
EXTENDS Naturals, Sequences, FiniteSets, FiniteSetsExt, SequencesExt

CONSTANT Tolerance   \* ticks a container may be short of its segment: less than a frame of audio

\* The members of a set in the order of Before, std::sort().
InOrder(S, Before(_, _)) ==
    FoldSet(LAMBDA x, list : SelectSeq(list, LAMBDA y : Before(y, x)) \o <<x>>
                             \o SelectSeq(list, LAMBDA y : Before(x, y)), <<>>, S)

Roles == <<"screen", "camera", "microphone", "system", "avatar">>   \* in the order of StudioSourceRole
VideoRoles == {"screen", "camera", "avatar"}

SegmentEnd(s) == s.at + s.len
Ready(request) == {s \in request.segments : s.status = "READY"}

----------------------------------------------------------------------------
(* Joining                                                                 *)

\* buildConcatSources(): every unbroken run becomes one source; its media is what the
\* manifest declares.  A segment that stands alone is its own file.
Units(request) ==
    LET ready == Ready(request)
        heads == {s \in ready : ~\E r \in ready : r.role = s.role /\ SegmentEnd(r) = s.at}
        run(s) ==
            {r \in ready :
                /\ r.role = s.role /\ r.at >= s.at
                /\ ~\E h \in heads : h.role = s.role /\ h.at > s.at /\ h.at <= r.at}
        length(s) == FoldSet(LAMBDA r, n : n + r.len, 0, run(s))
    IN  {[role |-> s.role, index |-> s.index, at |-> s.at, len |-> length(s),
          media |-> IF run(s) = {s} THEN s.media ELSE length(s)] : s \in heads}

----------------------------------------------------------------------------
(* The scene of an instant                                                 *)

\* stateInScene() and the default layout of an upright canvas: the avatar is in no scene.
StateInScene(request, scene, role) ==
    LET listed == role \in DOMAIN scene
        upright == request.portrait /\ role \in VideoRoles
    IN  [enabled |-> IF listed THEN scene[role].enabled ELSE role = "avatar",
         layer |-> IF upright THEN (IF role = "avatar" THEN 20 ELSE 0)
                   ELSE IF listed THEN scene[role].layer
                   ELSE IF role = "avatar" THEN 20 ELSE 0]

\* activeEventAt(): of two switches at one instant the later one counts.
ActiveEvent(request, t, includeEqual) ==
    LET past == {e \in request.events : e.at < t \/ (includeEqual /\ e.at = t)}
    IN  CHOOSE e \in past : \A f \in past : f.at < e.at \/ (f.at = e.at /\ f.seq <= e.seq)

StateAt(request, role, t, includeEqual) ==
    StateInScene(request, request.scenes[ActiveEvent(request, t, includeEqual).scene], role)

\* splitBoundaries(): a picture is cut at every switch, a sound only where it is turned on
\* or off.
Boundaries(request, unit, end) ==
    LET inside == {e \in request.events : e.at > unit.at /\ e.at < end}
        cuts == {e \in inside :
                    unit.role \in VideoRoles
                    \/ StateAt(request, unit.role, e.at, FALSE).enabled
                         # StateAt(request, unit.role, e.at, TRUE).enabled}
    IN  InOrder({unit.at, end} \cup {e.at : e \in cuts}, <)

----------------------------------------------------------------------------
(* The plan                                                                *)

\* makeAsset(), and the clamp of importUnit: a clip never runs past its media.
TooShort(unit) == unit.media + Tolerance < unit.len
UsableEnd(unit) == unit.at + (IF unit.media < unit.len THEN unit.media ELSE unit.len)

\* importUnit(): one clip for each piece.
Pieces(request, unit) ==
    LET cuts == Boundaries(request, unit, UsableEnd(unit))
        piece(i) ==
            LET state == StateAt(request, unit.role, cuts[i], TRUE)
            IN  [id |-> <<unit.role, unit.index, i>>, kind |-> "asset",
                 asset |-> <<unit.role, unit.index>>,
                 at |-> request.base + cuts[i], len |-> cuts[i + 1] - cuts[i],
                 from |-> cuts[i] - unit.at, enabled |-> state.enabled,
                 layer |-> state.layer, audio |-> unit.role \notin VideoRoles, cues |-> <<>>]
    IN  {piece(i) : i \in 1 .. Len(cuts) - 1}

\* plannedSources(), validatedEvents(), makeAsset() and the markers: what the plan is refused for.
Plannable(request) ==
    /\ \A s \in request.segments : s.status # "WRITING" /\ s.len > 0
    /\ \E e \in request.events : e.at = 0
    /\ \A e \in request.events : e.scene \in DOMAIN request.scenes
    /\ \A u \in Units(request) : ~TooShort(u)
    /\ \A m \in request.markers : request.base + m.at \notin request.taken
    /\ \A m, n \in request.markers : m # n => m.at # n.at

ByTime(clips) == InOrder(clips, LAMBDA c, d : c.at < d.at)

\* planRecordingImport(): a track for each source that has a segment, in the order of the roles.
PlanRecordingImport(request) ==
    LET observed == SelectSeq(Roles, LAMBDA r : \E s \in request.segments : s.role = r)
        units == Units(request)
        clips(role) == UNION {Pieces(request, u) : u \in {v \in units : v.role = role}}
    IN  [i \in 1 .. Len(observed) |->
            [kind |-> IF observed[i] \in VideoRoles THEN "video" ELSE "audio",
             enabled |-> TRUE, clips |-> ByTime(clips(observed[i]))]]
=============================================================================
