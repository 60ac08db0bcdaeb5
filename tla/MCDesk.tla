------------------------------- MODULE MCDesk -------------------------------
(***************************************************************************)
(* What runs behind the Export and the Editor page, for TLC: exports, the  *)
(* editor with its preview, the program the preview shows, and the          *)
(* analyzers that propose edits.  They share no state; the initial state   *)
(* says which of them moves.                                               *)
(***************************************************************************)
EXTENDS RenderExport, EditorPreview, ProgramBuild, EditingAids

VARIABLE part   \* "export", "editor", "program" or "aids"

vars == <<part, renderVars, editorVars, programVars, aidsVars>>

\* A user who edits and opens the project again, one who cuts, players, one who writes
\* titles or captions, and one who marks ranges.
MCHabits == {{"undo", "save", "reopen"}, {"trim", "select", "seek"}, {"play", "seek"}, {"play", "undo"},
             {"play", "reopen"}, {"title", "select", "apply"}, {"caption", "select", "undo"},
             {"mark", "seek"}}

\* One export to a new MP4, one over an existing MKV.
MCExports == {[format |-> "mp4", replace |-> FALSE], [format |-> "mkv", replace |-> TRUE]}

\* Two frames in three ticks: a frame begins at a tick or between two.
MCFrameRate == <<2, 3>>

Segment(role, index, at, len, status, media) ==
    [role |-> role, index |-> index, at |-> at, len |-> len, status |-> status, media |-> media]
Whole(role, index, at, len) == Segment(role, index, at, len, "READY", len)

\* The screen in one piece, in two that meet, late, short of its media within the tolerance
\* and beyond it, with a lost piece, with an unfinished one; the microphone in one piece, in
\* short ones, or none; an avatar or none.
ScreenTakes ==
    {{Whole("screen", 0, 0, 6)}, {Whole("screen", 0, 0, 3), Whole("screen", 1, 3, 3)},
     {Whole("screen", 0, 1, 5)}, {Segment("screen", 0, 0, 6, "READY", 5)},
     {Segment("screen", 0, 0, 6, "READY", 4)},
     {Whole("screen", 0, 0, 2), Segment("screen", 1, 2, 2, "FAILED", 0), Whole("screen", 2, 4, 2)},
     {Whole("screen", 0, 0, 3), Segment("screen", 1, 3, 3, "WRITING", 3)}}
SoundTakes ==
    {{}, {Whole("microphone", 0, 0, 6)}, {Whole("microphone", 0, 1, 2), Whole("microphone", 1, 3, 3)}}
AvatarTakes == {{}, {Whole("avatar", 0, 2, 3)}}

\* As set up; the screen above and the microphone off; the screen off.
Shows(enabled, layer) == [enabled |-> enabled, layer |-> layer]
Scenes == [A |-> [screen |-> Shows(TRUE, 0), microphone |-> Shows(TRUE, 0)],
           B |-> [screen |-> Shows(TRUE, 1), microphone |-> Shows(FALSE, 0)],
           C |-> [screen |-> Shows(FALSE, 0), microphone |-> Shows(TRUE, 0)]]

\* No switch, one at any time, two that may come at one instant; and a take whose first
\* scene is missing.
Switch(seq, at, scene) == [seq |-> seq, at |-> at, scene |-> scene]
Switches ==
    {{Switch(1, 0, "A")}, {Switch(2, 2, "B")}}
    \cup {{Switch(1, 0, "A"), Switch(2, t, s)} : t \in 0..5, s \in {"B", "C"}}
    \cup {{Switch(1, 0, "A"), Switch(2, t, "B"), Switch(3, u, s)} :
             t \in 1..3, u \in {3, 4}, s \in {"A", "C"}}

Take(segments, switched, markers, portrait, base) ==
    [segments |-> segments, events |-> switched, scenes |-> Scenes, markers |-> markers,
     portrait |-> portrait, base |-> base, taken |-> {3}]
Simple == Take({Whole("screen", 0, 0, 6)}, {Switch(1, 0, "A")}, {}, FALSE, 0)

\* A marker may fall on one that is there.
MCRequests ==
    {Simple} \cup {Take(s \cup m \cup a, e, {}, p, IF p THEN 0 ELSE 1) :
        s \in ScreenTakes, m \in SoundTakes, a \in AvatarTakes, e \in Switches, p \in BOOLEAN}
    \cup {Take({Whole("screen", 0, 0, 6)}, {Switch(1, 0, "A")}, {[at |-> t]}, FALSE, b) :
            t \in 1..4, b \in {0, 1}}
MCTitled == {Simple}

\* Two filler phrases; segments of up to two words, surely recognised or not, of which some
\* are refused: out of the segment, out of order, overlapping.
MCFillers == {<<"um">>, <<"you", "know">>}
Word(at, token, sure) == [at |-> at, len |-> 1, token |-> token, sure |-> sure]
MCSpeech ==
    LET spoken(t) ==
            {<<>>} \cup {<<Word(t, a, s)>> : a \in {"um", "you"}, s \in BOOLEAN}
            \cup {<<Word(t + i, a, TRUE), Word(t + j, b, s)>> :
                     i, j \in {0, 1}, a \in {"um", "you"}, b \in {"um", "know"}, s \in BOOLEAN}
    IN  UNION {{[at |-> t, len |-> 2, words |-> w] : w \in spoken(t)} : t \in {0, 2}}

Init ==
    /\ part \in {"export", "editor", "program", "aids"}
    /\ RenderInit /\ EditorInit /\ ProgramInit /\ AidsInit
    /\ part # "export" => dest = NoFile /\ posix
    /\ part # "editor" => habit = {"play", "seek"}
    /\ part # "program" => request = Simple

\* With nothing under way everybody may leave.
Rest == /\ part = "aids" \/ (part = "program" /\ sync = NoSync /\ handed = NoSnapshot)
        /\ UNCHANGED vars

Next ==
    \/ part = "export" /\ RenderNext /\ UNCHANGED <<part, editorVars, programVars, aidsVars>>
    \/ part = "editor" /\ EditorNext /\ UNCHANGED <<part, renderVars, programVars, aidsVars>>
    \/ part = "program" /\ ProgramNext /\ UNCHANGED <<part, renderVars, editorVars, aidsVars>>
    \/ part = "aids" /\ AidsNext /\ UNCHANGED <<part, renderVars, editorVars, programVars>>

Spec == Init /\ [][Next \/ Rest]_vars /\ RenderFairness /\ EditorFairness

----------------------------------------------------------------------------
\* The types of the four.
TypeOK == RenderTypeOK /\ EditorTypeOK /\ ProgramTypeOK /\ AidsTypeOK

\* An export, an edit, an opening and a preview request always end for the user
\* (ExportController, EditorController).
DeskEnds == ExportEnds /\ EditorEnds
=============================================================================
