------------------------------ MODULE AvatarScene ------------------------------
(***************************************************************************)
(* The live avatar: AvatarSceneController with its render thread, the      *)
(* style controls of the renderer, the fan-out to preview and recording,   *)
(* and the style that is kept over restarts.                               *)
(*                                                                         *)
(* A change of the style is a series of stores into the renderer's atomics *)
(* by the window's thread; the render thread loads them one by one.  Of a  *)
(* size and a place only which one it is matters here, and x and y are one *)
(* value.  What a frame is drawn from besides the style is left out.       *)
(***************************************************************************)
EXTENDS Naturals, Sequences

CONSTANTS
    Characters,     \* avatarCharacterCatalog(), 1..n
    Corners,        \* AvatarCorner: names
    MaxAvatarEvent  \* bound: changes of the style, restarts and takes together

ASSUME AvatarAssumption == "right bottom" \in Corners /\ 1 \in Characters /\ MaxAvatarEvent \in Nat

VARIABLES
    renderer,   \* which one main() found: "character", "puppet" or "model"
    style,      \* characterIndex_, placementMode_, corner_, scale_, posX_, posY_; hairColor()
    saved,      \* the same in the settings
    look,       \* the renderer's atomics
    change,     \* the style a setter is about to have, or NoStyle
    todo,       \* the fields it still stores, in order
    enabled,    \* enabled_ and capturing_
    fanout,     \* fanout_ and previewMailbox_ are there
    secondary,  \* the fan-out's second sink: a take, 0 for none
    sink,       \* recordingSink_
    taking,     \* the take that is recorded, 0 for none
    joining,    \* the window's thread is in stopRenderThread()
    thread,     \* "none", "pacing", "loading", "binding" or "pushing"
    loaded,     \* the frame's style, as far as it is loaded
    bound,      \* the second sink the frame goes to
    clean,      \* history: nothing was stored since the frame began
    late,       \* history: frames a take was handed after its sink was taken away
    changes, restarts, takes

styleVars == <<renderer, style, saved, look, change, todo, changes>>
threadVars == <<thread, loaded, bound, clean>>
sinkVars == <<fanout, secondary, sink, taking, late, takes>>
avatarSceneVars == <<styleVars, threadVars, sinkVars, enabled, joining, restarts>>

Renderers == {"character", "puppet", "model"}
Styles == [character : Characters, mode : {"front", "corner"}, corner : Corners,
           scale : {"full", "small", "custom"}, at : Corners \cup {"centre", "free"},
           hair : {"own", "dyed"}]
NoStyle == [character |-> 1, mode |-> "none", corner |-> "right bottom", scale |-> "full",
            at |-> "centre", hair |-> "own"]

Drawn == <<"character", "mode", "scale", "at", "hair">>   \* in the order render() loads them
Look(s) == [f \in {Drawn[i] : i \in 1..Len(Drawn)} |-> s[f]]

----------------------------------------------------------------------------
(* The style                                                               *)

\* The two presets of CharacterAvatarRenderer.
FrontPreset(s) == [s EXCEPT !.scale = "full", !.at = "centre"]
CornerPreset(s) == [s EXCEPT !.scale = "small", !.at = s.corner]

WithCharacter(s, c) == [s EXCEPT !.character = c]
WithMode(s, m) ==
    IF m = s.mode THEN s
    ELSE LET t == [s EXCEPT !.mode = m] IN IF m = "corner" THEN CornerPreset(t) ELSE FrontPreset(t)
WithCorner(s, c) == IF c = s.corner THEN s ELSE CornerPreset([s EXCEPT !.corner = c])
WithScale(s, x) == [s EXCEPT !.scale = x]
WithPlace(s, at) == [s EXCEPT !.at = at]

\* persistStyle(): every field but the colour, which has a write of its own.
persistStyle(s, old) == [s EXCEPT !.hair = old.hair]

\* One setter while the constructor runs: what it changes is written at once, over what
\* is not read yet.
Setting(p, s) == IF s = p.style THEN p ELSE [style |-> s, saved |-> persistStyle(s, p.saved)]

\* The style of a new renderer, and of a controller that has no control of it.
Fresh0 == [character |-> 1, mode |-> "front", corner |-> "right bottom", scale |-> "full",
           at |-> "centre", hair |-> "own"]
FreshOf(r) == IF r = "character" THEN CornerPreset([Fresh0 EXCEPT !.mode = "corner"]) ELSE Fresh0

RestoreTransform(p) ==
    LET q == Setting(p, WithScale(p.style, p.saved.scale)) IN Setting(q, WithPlace(q.style, q.saved.at))

\* The constructor with the settings kept: what the controller has and what they hold now.
Restored(r, kept) ==
    LET p == [style |-> FreshOf(r), saved |-> kept] IN
    CASE r = "character" /\ kept = NoStyle ->
            [style |-> p.style, saved |-> persistStyle(p.style, kept)]
      [] r = "character" /\ kept # NoStyle ->
            LET p1 == Setting(p, WithCharacter(p.style, p.saved.character))
                p2 == Setting(p1, WithMode(p1.style, p1.saved.mode))
                p3 == Setting(p2, WithCorner(p2.style, p2.saved.corner))
                p4 == RestoreTransform(p3)
            IN [p4 EXCEPT !.style.hair = p4.saved.hair]
      [] r = "puppet" -> IF kept = NoStyle THEN p ELSE RestoreTransform(p)
      [] OTHER -> p

Room == changes + restarts + takes < MaxAvatarEvent

\* A setter that has something to change, called by the page.
Begin(s, fields) ==
    /\ change = NoStyle /\ ~joining /\ s # style
    /\ Room /\ changes' = changes + 1
    /\ change' = s /\ todo' = fields
    /\ UNCHANGED <<renderer, style, saved, look, threadVars, sinkVars, enabled, joining,
                   restarts>>

transform == <<"scale", "at">>

setAvatarCharacterIndex(c) == renderer = "character" /\ Begin(WithCharacter(style, c), <<"character">>)
setAvatarPlacementMode(m) == renderer = "character" /\ Begin(WithMode(style, m), <<"mode">> \o transform)
setAvatarCorner(c) ==
    renderer = "character" /\ style.mode = "corner" /\ Begin(WithCorner(style, c), transform)
setAvatarScale == renderer # "model" /\ Begin(WithScale(style, "custom"), <<"scale">>)
setAvatarPosition == renderer # "model" /\ Begin(WithPlace(style, "free"), <<"at">>)
setAvatarHairColor == renderer = "character" /\ Begin([style EXCEPT !.hair = "dyed"], <<"hair">>)

Store ==
    /\ todo # <<>>
    /\ look' = [look EXCEPT ![Head(todo)] = change[Head(todo)]]
    /\ todo' = Tail(todo) /\ clean' = FALSE
    /\ UNCHANGED <<renderer, style, saved, change, changes, thread, loaded, bound, sinkVars,
                   enabled, joining, restarts>>

\* syncTransformFromRenderer(): the members mirror the renderer.
Synced(s) == [s EXCEPT !.scale = look.scale, !.at = look.at]

\* The end of a setter: members, settings, signals.
Persist ==
    /\ change # NoStyle /\ todo = <<>>
    /\ style' = Synced(change)
    /\ saved' = IF change.hair # style.hair THEN [saved EXCEPT !.hair = change.hair]
                ELSE persistStyle(style', saved)
    /\ change' = NoStyle
    /\ UNCHANGED <<renderer, look, todo, changes, threadVars, sinkVars, enabled, joining,
                   restarts>>

----------------------------------------------------------------------------
(* Start, stop and recording, on the window's thread                       *)

window == change = NoStyle /\ ~joining

\* setAvatarEnabled(true), from the button or as the page is entered: the thread starts
\* when the fan-out is there.
Enable ==
    /\ window /\ ~enabled
    /\ enabled' = TRUE /\ fanout' = TRUE /\ secondary' = sink
    /\ thread' = "pacing"
    /\ UNCHANGED <<styleVars, loaded, bound, clean, sink, taking, late, takes, joining,
                   restarts>>

\* setAvatarEnabled(false), from the button or as the page is left with nothing recorded:
\* stop is requested and the thread waited for.
Disable ==
    /\ window /\ enabled
    /\ enabled' = FALSE /\ joining' = TRUE
    /\ UNCHANGED <<styleVars, threadVars, sinkVars, restarts>>

Joined ==
    /\ joining /\ thread = "none"
    /\ joining' = FALSE /\ fanout' = FALSE /\ secondary' = 0
    /\ UNCHANGED <<styleVars, threadVars, sink, taking, late, takes, enabled, restarts>>

\* SetSink, were the fanout of the session that runs left as it is.
SetSinkForNext(s) == sink' = s /\ UNCHANGED secondary

\* setAvatarRecordingSink()
SetSink(s) == sink' = s /\ secondary' = IF fanout THEN s ELSE secondary

\* A recording takes the avatar when it is live as the recording starts.
BeginTake ==
    /\ window /\ taking = 0 /\ Room
    /\ takes' = takes + 1 /\ taking' = takes + 1 /\ late' = 0
    /\ IF enabled THEN SetSink(takes') ELSE UNCHANGED <<sink, secondary>>
    /\ UNCHANGED <<styleVars, threadVars, fanout, enabled, joining, restarts>>

\* detachAll()
EndTake ==
    /\ window /\ taking # 0
    /\ taking' = 0 /\ SetSink(0)
    /\ UNCHANGED <<styleVars, threadVars, fanout, late, takes, enabled, joining, restarts>>

\* The application is closed or dies, and is started again: main() looks which renderer
\* there is, the controller is made and reads the settings.
Relaunch ==
    /\ Room /\ restarts' = restarts + 1
    /\ renderer' \in Renderers
    /\ LET p == Restored(renderer', saved) IN
       style' = p.style /\ saved' = p.saved /\ look' = Look(p.style)
    /\ change' = NoStyle /\ todo' = <<>> /\ enabled' = FALSE /\ joining' = FALSE
    /\ fanout' = FALSE /\ secondary' = 0 /\ sink' = 0 /\ taking' = 0 /\ late' = 0
    /\ thread' = "none" /\ loaded' = look' /\ bound' = 0 /\ clean' = TRUE
    /\ UNCHANGED <<changes, takes>>

----------------------------------------------------------------------------
(* The render thread                                                       *)

threadOnly == <<styleVars, sinkVars, enabled, joining, restarts>>

\* renderLoop(): leaves when stop is requested, else renderOnce().
Pace ==
    /\ thread = "pacing"
    /\ IF joining THEN thread' = "none" /\ UNCHANGED <<loaded, clean>>
       ELSE thread' = "character" /\ clean' = (todo = <<>>) /\ UNCHANGED loaded
    /\ UNCHANGED <<bound, threadOnly>>

\* One load of render(); after the last one the frame is there.  Tracking or drawing may
\* fail: the frame is given up, with a queued word to the window.
NextThing(f) == CASE f = "character" -> "mode" [] f = "mode" -> "scale" [] f = "scale" -> "at"
                  [] f = "at" -> "hair" [] f = "hair" -> "binding"
Load ==
    /\ thread \in DOMAIN look
    /\ loaded' = [loaded EXCEPT ![thread] = look[thread]]
    /\ thread' \in {NextThing(thread), "pacing"}
    /\ UNCHANGED <<bound, clean, threadOnly>>

\* onVideoFrame(): the second sink is looked up once, then both are called.
Bind ==
    /\ thread = "binding"
    /\ thread' = "pushing" /\ bound' = secondary
    /\ UNCHANGED <<loaded, clean, threadOnly>>

Push ==
    /\ thread = "pushing"
    /\ thread' = "pacing"
    /\ late' = IF bound # 0 /\ bound = takes /\ taking = 0 THEN late + 1 ELSE late
    /\ UNCHANGED <<loaded, bound, clean, styleVars, fanout, secondary, sink, taking, takes,
                   enabled, joining, restarts>>

----------------------------------------------------------------------------
AvatarSceneInit ==
    /\ renderer \in Renderers /\ style = Restored(renderer, NoStyle).style
    /\ saved = Restored(renderer, NoStyle).saved /\ look = Look(style)
    /\ change = NoStyle /\ todo = <<>> /\ enabled = FALSE /\ joining = FALSE
    /\ fanout = FALSE /\ secondary = 0 /\ sink = 0 /\ taking = 0 /\ late = 0
    /\ thread = "none" /\ loaded = look /\ bound = 0 /\ clean = TRUE
    /\ changes = 0 /\ restarts = 0 /\ takes = 0

RenderThread == Pace \/ Load \/ Bind \/ Push

AvatarSceneNext ==
    \/ \E c \in Characters : setAvatarCharacterIndex(c)
    \/ \E m \in {"front", "corner"} : setAvatarPlacementMode(m)
    \/ \E c \in Corners : setAvatarCorner(c)
    \/ setAvatarScale \/ setAvatarPosition \/ setAvatarHairColor \/ Store \/ Persist
    \/ Enable \/ Disable \/ Joined \/ BeginTake \/ EndTake \/ Relaunch \/ RenderThread

\* The window's thread goes on with what it began, the render thread runs.
AvatarSceneFairness ==
    /\ WF_avatarSceneVars(Store) /\ WF_avatarSceneVars(Persist) /\ WF_avatarSceneVars(Joined)
    /\ WF_avatarSceneVars(RenderThread)

AvatarSceneSpec == AvatarSceneInit /\ [][AvatarSceneNext]_avatarSceneVars /\ AvatarSceneFairness

----------------------------------------------------------------------------
(* Properties                                                              *)

\* The types.
AvatarSceneTypeOK ==
    /\ renderer \in Renderers /\ style \in Styles /\ saved \in Styles \cup {NoStyle}
    /\ \A g \in {look, loaded} : g = [f \in {Drawn[i] : i \in 1 .. Len(Drawn)} |-> g[f]]
    /\ todo \in Seq(DOMAIN look)
    /\ change \in Styles \cup {NoStyle} /\ {changes, restarts, takes, late} \subseteq 0..MaxAvatarEvent
    /\ thread \in {"none", "pacing", "binding", "pushing"} \cup DOMAIN look
    /\ {secondary, sink, taking, bound} \subseteq 0..MaxAvatarEvent
    /\ {enabled, fanout, joining, clean} \subseteq BOOLEAN

\* The render thread never finds the fan-out gone, although the window's thread drops it
\* (renderOnce(): "reset only after it joins").
FanoutOutlivesThread == thread # "none" => fanout

\* However enabling the avatar and starting a recording follow on each other, the fan-out
\* feeds the take that has the avatar, and no other; without a take there is no sink
\* (setAvatarRecordingSink()).
TakeIsFed == (fanout => secondary = sink) /\ (taking = 0 => sink = 0)

\* A take whose sink was taken away is handed one more frame at most: the one whose push
\* had begun (VideoFrameFanoutSink::onVideoFrame()).
OneLateFrame ==
    /\ late <= 1 /\ (taking # 0 => late = 0)
    /\ late = 1 => ~(thread = "pushing" /\ bound # 0 /\ bound = takes)

\* When no setter runs the page, the renderer and the settings agree on the style
\* (syncTransformFromRenderer(), persistStyle()).
ControlsAreTrue ==
    /\ change = NoStyle => look = Look(style)
    /\ change = NoStyle /\ renderer = "character" => saved = style

\* While a setter runs, what it has still to store is all that the renderer lacks, and the
\* settings are those of before; the colour is changed alone (persistStyle()).
SetterKeeps ==
    IF change = NoStyle THEN todo = <<>>
    ELSE /\ renderer = "character" => saved = style
         /\ change.hair # style.hair => renderer = "character" /\ change = [style EXCEPT !.hair = change.hair]
         /\ \A f \in DOMAIN look : look[f] = change[f] \/ \E i \in 1 .. Len(todo) : todo[i] = f

\* A frame during which nothing was changed shows what the controls say, and not a mix.
SettledFramesAreTrue == thread \in {"binding", "pushing"} /\ clean /\ change = NoStyle => loaded = Look(style)

\* A frame during which nothing was stored has what was loaded so far as the renderer has it.
FrameKeeps ==
    clean => \A i \in 1 .. Len(Drawn) :
        thread \in {"binding", "pushing"} \cup {Drawn[j] : j \in i + 1 .. Len(Drawn)} =>
            loaded[Drawn[i]] = look[Drawn[i]]

\* The render thread runs while the avatar is on, and until it is waited for.
ThreadIsJoined == (joining => ~enabled) /\ (~enabled /\ ~joining => thread = "none")

SceneInv ==
    /\ FanoutOutlivesThread /\ TakeIsFed /\ OneLateFrame /\ ControlsAreTrue /\ SetterKeeps
    /\ SettledFramesAreTrue /\ FrameKeeps /\ ThreadIsJoined

\* Stopping the avatar ends: the thread is not kept by a frame or by the window
\* (stopRenderThread()); and a thread that is not stopped goes on drawing.
SceneEnds ==
    /\ joining ~> ~joining
    /\ [](thread = "pacing" => <>(thread # "pacing"))

\* "Restore the creator's persisted avatar style so character, position and size survive
\* app restarts" (AvatarSceneController.cpp:56-57): what the settings hold is what the
\* next start shows.
StyleSurvivesRestart ==
    [][restarts' # restarts /\ saved # NoStyle /\ renderer' = "character" => style' = saved]_avatarSceneVars
=============================================================================
