-------------------------- MODULE MCTimelineEditing --------------------------
(* Values of the constants of TimelineEditing for TLC. *)
EXTENDS TimelineEditing
MCMarks == {1, 2}

\* A user who cuts, one who places titles, one who writes captions, and mixtures: a
\* range deleted over titles, and the fades of a clip that is cut.
MCUsers == {{"split", "visual"}, {"delete"}, {"trim", "audio"}, {"title", "editTitle", "remove"},
            {"title", "delete"}, {"addCue", "editCue", "dropCue"}, {"addCue", "remove"}}
=============================================================================
