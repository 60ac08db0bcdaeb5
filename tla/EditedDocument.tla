---------------------------- MODULE EditedDocument ----------------------------
(***************************************************************************)
(* What the editor of src/src/app promises about a project's timeline: a   *)
(* document with bounded undo.  An edit remembers the document it          *)
(* replaces, undo and redo move exactly one document back and forth.  An   *)
(* edit may forget the oldest document once more than Depth are kept.      *)
(***************************************************************************)
EXTENDS Naturals, Sequences

CONSTANT Depth
VARIABLES doc, past, future
vars == <<doc, past, future>>

Init == past = <<>> /\ future = <<>>

Edit ==
    /\ LET all == Append(past, doc)
       IN  \/ past' = all
           \/ Len(past) >= Depth /\ past' = Tail(all)
    /\ future' = <<>>

Undo ==
    /\ past # <<>>
    /\ doc' = past[Len(past)]
    /\ past' = SubSeq(past, 1, Len(past) - 1)
    /\ future' = <<doc>> \o future

Redo ==
    /\ future # <<>>
    /\ doc' = future[1]
    /\ future' = Tail(future)
    /\ past' = Append(past, doc)

Next == Edit \/ Undo \/ Redo

Spec == Init /\ [][Next]_vars
=============================================================================
