----------------------------- MODULE DeskProofs -----------------------------
(***************************************************************************)
(* What the desk guarantees: the editor page for timelines of any length,  *)
(* any number of edits and of projects opened and every kind of user       *)
(* (EditorPreview), exports in any number and with any choices of the user *)
(* (RenderExport), programs made of any takes (ProgramBuild), and the four *)
(* parts together (MCDesk).                                                *)
(*                                                                         *)
(* The editor: the commands that the engine has not answered are one line, *)
(* the one it runs first (Line).  The proof says once what a line in order *)
(* is (InLine), shows that sending a command keeps it (SentInLine) and so  *)
(* does an answer (AnsweredInLine), and then takes the actions one by one. *)
(***************************************************************************)
EXTENDS MCDesk, SequenceTheorems, FiniteSetTheorems, TLAPS

-----------------------------------------------------------------------------
(* The editor: types *)

Kinds == {"video", "title", "caption"}
Docs == [project : Projects \cup {0}, rev : Nat, len : Nat, clips : SUBSET Kinds]
Timelines == [project : Projects, rev : Nat, len : Nat, clips : SUBSET Kinds]
EngineOps == CountsAsBusy \cup {"frame", "audio"}
Commands == [op : EngineOps, gen : Nat, doc : Docs, pos : Nat]
SessionOps == {"open", "trim", "delete", "apply", "addTitle", "editTitle", "removeTitle",
               "addCaption", "editCue", "removeCue", "undo", "save"}
Calls == [op : SessionOps, gen : Nat, project : Projects \cup {0}, pos : Nat]
Answers == [op : SessionOps, gen : Nat, ok : BOOLEAN, doc : Docs, derived : BOOLEAN, change : BOOLEAN]
Replies == [ok : BOOLEAN, rev : Nat, op : EngineOps]
Images == [doc : Docs, pos : Nat]
Members ==
    [sessionGeneration : Nat, generation : Nat, active : BOOLEAN, ready : BOOLEAN,
     sessionBusy : BOOLEAN, derived : BOOLEAN, snapshot : Docs, stale : BOOLEAN,
     playing : BOOLEAN, ticking : BOOLEAN, playhead : Nat, image : Images,
     frameInFlight : BOOLEAN, audioInFlight : BOOLEAN, audioInvalidated : BOOLEAN,
     selected : Kinds \cup {"none"}, rangeIn : Nat, rangeOut : Nat,
     audioPosition : Nat, queue : Seq(Commands), current : Commands \cup {NoCommand}]

EditorTypes ==
    /\ gui \in Members /\ calls \in Seq(Calls) /\ answers \in Seq(Answers)
    /\ disk \in [Projects -> Timelines] /\ service \in Projects \cup {0}
    /\ graph \in Docs /\ reply \in Replies \cup {NoReply}
    /\ healthy \in BOOLEAN /\ outside \in BOOLEAN
    /\ heard \in [at : Nat, wanted : Nat]

-----------------------------------------------------------------------------
(* The editor: the engine's commands, in the order in which they are run *)

Line(g) == IF g.current = NoCommand THEN g.queue ELSE <<g.current>> \o g.queue
Loads(c) == c.op \in {"load", "update"}

\* Of the commands l of the controller g, a load or an update for the timeline it shows is
\* the last load, and no frame asked for before it waits behind it, unless the repair of
\* derived files has overtaken the frame.
LastLoadCounts(g, l) ==
    /\ \A i \in DOMAIN l : l[i].gen <= g.generation
    /\ \A i \in DOMAIN l : Loads(l[i]) /\ l[i].gen = g.generation =>
          /\ l[i].doc = g.snapshot /\ g.snapshot # NoDoc
          /\ \A j \in DOMAIN l : j > i =>
                /\ ~Loads(l[j])
                /\ l[i].op = "update" \/ ~g.derived => l[j].op # "frame"

\* A preview that is not stale waits for no load, and a frame on the way is one of it.
FreshHasNoLoad(g, l) ==
    ~g.stale =>
       /\ g.snapshot # NoDoc
       /\ \A i \in DOMAIN l : /\ ~Loads(l[i])
                              /\ l[i].op = "frame" => /\ l[i].gen = g.generation
                                                      /\ l[i].doc.rev = g.snapshot.rev

OneOfAKind(l, op, flying) ==
    /\ flying => \E i \in DOMAIN l : l[i].op = op
    /\ \A i \in DOMAIN l : l[i].op = op => flying /\ \A j \in DOMAIN l : l[j].op = op => j = i

SoundIsNext(g, l) ==
    ~g.audioInvalidated => \A i \in DOMAIN l : l[i].op = "audio" => l[i].pos = g.audioPosition

EditWaits(g, l) == g.active => \A i \in DOMAIN l : ~Loads(l[i])

InLine(g, l) ==
    /\ LastLoadCounts(g, l) /\ FreshHasNoLoad(g, l)
    /\ OneOfAKind(l, "frame", g.frameInFlight) /\ OneOfAKind(l, "audio", g.audioInFlight)
    /\ SoundIsNext(g, l) /\ EditWaits(g, l)

NobodyWaits(g) == g.current = NoCommand => g.queue = <<>>

\* h differs from g in its commands at most.
SamePage(g, h) ==
    /\ h.sessionGeneration = g.sessionGeneration /\ h.generation = g.generation
    /\ h.active = g.active /\ h.ready = g.ready /\ h.sessionBusy = g.sessionBusy
    /\ h.derived = g.derived /\ h.snapshot = g.snapshot /\ h.stale = g.stale
    /\ h.playhead = g.playhead /\ h.image = g.image /\ h.selected = g.selected
    /\ h.rangeIn = g.rangeIn /\ h.rangeOut = g.rangeOut
SameFlight(g, h) ==
    /\ h.frameInFlight = g.frameInFlight /\ h.audioInFlight = g.audioInFlight
    /\ h.audioInvalidated = g.audioInvalidated /\ h.audioPosition = g.audioPosition

\* m is l with c after its first k.
Inserted(l, k, c, m) ==
    /\ k \in 0 .. Len(l) /\ Len(m) = Len(l) + 1
    /\ \A i \in 1 .. Len(m) : m[i] = IF i <= k THEN l[i] ELSE IF i = k + 1 THEN c ELSE l[i - 1]

LEMMA Elements == \A S : \A s \in Seq(S) : \A i \in DOMAIN s : s[i] \in S
BY ElementOfSeq

LEMMA CommandIsSome == NoCommand \notin Commands /\ \A c \in Commands : c # NoCommand
  BY DEF Commands, EngineOps, CountsAsBusy, NoCommand

LEMMA LineIs ==
    ASSUME NEW g \in Members
    PROVE  /\ Line(g) \in Seq(Commands)
           /\ g.current = NoCommand => Line(g) = g.queue
           /\ g.current # NoCommand =>
                 /\ g.current \in Commands
                 /\ Len(Line(g)) = Len(g.queue) + 1 /\ Line(g)[1] = g.current
                 /\ \A i \in 1 .. Len(Line(g)) : i = 1 \/ Line(g)[i] = g.queue[i - 1]
<1>1. g.queue \in Seq(Commands) /\ g.current \in Commands \cup {NoCommand}  BY DEF Members
<1>2. ASSUME g.current # NoCommand
      PROVE  /\ Line(g) \in Seq(Commands)
             /\ Len(Line(g)) = Len(g.queue) + 1 /\ Line(g)[1] = g.current
             /\ \A i \in 1 .. Len(Line(g)) : i = 1 \/ Line(g)[i] = g.queue[i - 1]
  BY <1>1, <1>2 DEF Line
<1> QED  BY <1>1, <1>2 DEF Line

LEMMA Dispatched ==
    ASSUME NEW g \in Members
    PROVE  /\ DispatchNext(g) \in Members /\ Line(DispatchNext(g)) = Line(g)
           /\ NobodyWaits(DispatchNext(g))
           /\ SamePage(g, DispatchNext(g)) /\ SameFlight(g, DispatchNext(g))
           /\ DispatchNext(g).playing = g.playing /\ DispatchNext(g).ticking = g.ticking
           /\ g.current # NoCommand => DispatchNext(g) = g
<1>1. CASE g.current # NoCommand \/ g.queue = <<>>
  BY <1>1 DEF DispatchNext, SamePage, SameFlight, NobodyWaits
<1>2. CASE g.current = NoCommand /\ g.queue # <<>>
 <2> DEFINE h == [g EXCEPT !.current = Head(g.queue), !.queue = Tail(@)]
 <2>1. DispatchNext(g) = h  BY <1>2 DEF DispatchNext
 <2>2. g.queue \in Seq(Commands)  BY DEF Members
 <2>3. Head(g.queue) \in Commands /\ Tail(g.queue) \in Seq(Commands)  BY <1>2, <2>2
 <2>4. h \in Members /\ h.current = Head(g.queue) /\ h.queue = Tail(g.queue)  BY <2>3 DEF Members
 <2>5. SamePage(g, h) /\ SameFlight(g, h) /\ h.playing = g.playing /\ h.ticking = g.ticking
   BY DEF Members, SamePage, SameFlight
 <2>6. h.current # NoCommand  BY <2>3, <2>4, CommandIsSome
 <2>7. Line(h) = g.queue  BY <2>4, <2>6, <1>2, <2>2 DEF Line
 <2> QED  BY <1>2, <2>1, <2>4, <2>5, <2>6, <2>7 DEF NobodyWaits, Line
<1> QED  BY <1>1, <1>2

LEMMA PushedBack ==
    ASSUME NEW g \in Members, NEW c \in Commands
    PROVE  /\ PushBack(g, c) \in Members /\ NobodyWaits(PushBack(g, c))
           /\ Inserted(Line(g), Len(Line(g)), c, Line(PushBack(g, c)))
           /\ SamePage(g, PushBack(g, c)) /\ SameFlight(g, PushBack(g, c))
           /\ PushBack(g, c).playing = g.playing /\ PushBack(g, c).ticking = g.ticking
           /\ g.current # NoCommand => PushBack(g, c).current = g.current
<1> DEFINE h == [g EXCEPT !.queue = Append(@, c)]
<1>0. g.queue \in Seq(Commands)  BY DEF Members
<1>1. h \in Members /\ h.queue = Append(g.queue, c) /\ h.current = g.current
 <2>1. Append(g.queue, c) \in Seq(Commands)  BY <1>0
 <2> QED  BY <2>1 DEF Members
<1>2. SamePage(g, h) /\ SameFlight(g, h) /\ h.playing = g.playing /\ h.ticking = g.ticking
  BY DEF Members, SamePage, SameFlight
<1>3. Inserted(Line(g), Len(Line(g)), c, Line(h))
 <2>1. g.queue \in Seq(Commands)  BY DEF Members
 <2>2. CASE g.current = NoCommand  BY <1>1, <2>1, <2>2 DEF Line, Inserted
 <2>3. CASE g.current # NoCommand
  <3>1. /\ Len(Line(g)) = Len(g.queue) + 1 /\ Line(g)[1] = g.current
        /\ \A i \in 1 .. Len(Line(g)) : i = 1 \/ Line(g)[i] = g.queue[i - 1]
    BY <2>3, LineIs
  <3>2. /\ Len(Line(h)) = Len(h.queue) + 1 /\ Line(h)[1] = g.current
        /\ \A i \in 1 .. Len(Line(h)) : i = 1 \/ Line(h)[i] = h.queue[i - 1]
    BY <1>1, <2>3, LineIs
  <3>3. /\ Len(h.queue) = Len(g.queue) + 1 /\ h.queue[Len(g.queue) + 1] = c
        /\ \A i \in 1 .. Len(g.queue) : h.queue[i] = g.queue[i]
    BY <1>1, <2>1
  <3>6. Len(g.queue) \in Nat  BY <2>1
  <3> HIDE DEF h
  <3>7. Inserted(Line(g), Len(Line(g)), c, Line(h))
   <4>1. SUFFICES ASSUME NEW i \in 1 .. Len(Line(h))
                  PROVE  Line(h)[i] = IF i <= Len(Line(g)) THEN Line(g)[i]
                                      ELSE IF i = Len(Line(g)) + 1 THEN c ELSE Line(g)[i - 1]
     BY <3>1, <3>2, <3>3, <3>6 DEF Inserted
   <4>2. CASE i = 1  BY <4>2, <3>1, <3>2, <3>6
   <4>3. CASE i # 1 /\ i <= Len(Line(g))  BY <4>3, <3>1, <3>2, <3>3, <3>6
   <4>4. CASE i = Len(Line(g)) + 1  BY <4>4, <3>1, <3>2, <3>3, <3>6
   <4> QED  BY <4>2, <4>3, <4>4, <3>1, <3>2, <3>3, <3>6
  <3> QED  BY <3>7
 <2> QED  BY <2>2, <2>3
<1>4. PushBack(g, c) = DispatchNext(h)  BY DEF PushBack
<1> HIDE DEF h
<1> QED  BY <1>1, <1>2, <1>3, <1>4, Dispatched DEF SamePage, SameFlight

LEMMA PushedFront ==
    ASSUME NEW g \in Members, NEW c \in Commands
    PROVE  /\ PushFront(g, c) \in Members /\ NobodyWaits(PushFront(g, c))
           /\ Inserted(Line(g), IF g.current = NoCommand THEN 0 ELSE 1, c, Line(PushFront(g, c)))
           /\ SamePage(g, PushFront(g, c)) /\ SameFlight(g, PushFront(g, c))
           /\ PushFront(g, c).playing = g.playing /\ PushFront(g, c).ticking = g.ticking
           /\ g.current # NoCommand => PushFront(g, c).current = g.current
<1> DEFINE h == [g EXCEPT !.queue = <<c>> \o @]
<1>0. g.queue \in Seq(Commands)  BY DEF Members
<1>1. h \in Members /\ h.queue = <<c>> \o g.queue /\ h.current = g.current
 <2>1. <<c>> \o g.queue \in Seq(Commands)  BY <1>0
 <2> QED  BY <2>1 DEF Members
<1>2. SamePage(g, h) /\ SameFlight(g, h) /\ h.playing = g.playing /\ h.ticking = g.ticking
  BY DEF Members, SamePage, SameFlight
<1>q. /\ Len(h.queue) = Len(g.queue) + 1 /\ h.queue[1] = c
      /\ \A i \in 1 .. Len(g.queue) : h.queue[i + 1] = g.queue[i]
  BY <1>0, <1>1
<1>3. Inserted(Line(g), IF g.current = NoCommand THEN 0 ELSE 1, c, Line(h))
 <2>2. CASE g.current = NoCommand  BY <1>1, <1>0, <1>q, <2>2 DEF Line, Inserted
 <2>3. CASE g.current # NoCommand
  <3>1. /\ Len(Line(g)) = Len(g.queue) + 1 /\ Line(g)[1] = g.current
        /\ \A i \in 1 .. Len(Line(g)) : i = 1 \/ Line(g)[i] = g.queue[i - 1]
    BY <2>3, LineIs
  <3>2. /\ Len(Line(h)) = Len(h.queue) + 1 /\ Line(h)[1] = g.current
        /\ \A i \in 1 .. Len(Line(h)) : i = 1 \/ Line(h)[i] = h.queue[i - 1]
    BY <1>1, <2>3, LineIs
  <3>3. Len(h.queue) = Len(g.queue) + 1 /\ h.queue[1] = c  BY <1>q
  <3>4. \A i \in 1 .. Len(h.queue) : i = 1 \/ h.queue[i] = g.queue[i - 1]  BY <1>0, <1>1
  <3>6. Len(g.queue) \in Nat  BY <1>0
  <3> HIDE DEF h
  <3> QED  BY SMTT(40), <2>3, <3>1, <3>2, <3>3, <3>4, <3>6 DEF Inserted
 <2> QED  BY <2>2, <2>3
<1>4. PushFront(g, c) = DispatchNext(h)  BY DEF PushFront
<1> HIDE DEF h
<1> QED  BY <1>1, <1>2, <1>3, <1>4, Dispatched DEF SamePage, SameFlight

\* A command that may be sent: a load for the timeline shown when no other load counts, a
\* frame or a block of sound when none is on the way.
MaySend(g, l, k, c) ==
    /\ c.gen = g.generation
    /\ Loads(c) => /\ c.doc = g.snapshot /\ g.snapshot # NoDoc /\ g.stale /\ ~g.active
                   /\ \A i \in DOMAIN l : Loads(l[i]) => l[i].gen # g.generation /\ i <= k
                   /\ \A i \in DOMAIN l : i > k /\ l[i].op = "frame" => c.op = "load" /\ g.derived
    /\ c.op = "frame" => ~g.stale /\ ~g.frameInFlight /\ c.doc = g.snapshot
    /\ c.op = "audio" => ~g.audioInFlight /\ c.pos = g.audioPosition

\* The controller h has noted that it has sent c.
Noted(g, c, h) ==
    /\ SamePage(g, h)
    /\ h.frameInFlight = (g.frameInFlight \/ c.op = "frame")
    /\ h.audioInFlight = (g.audioInFlight \/ c.op = "audio")
    /\ h.audioInvalidated = g.audioInvalidated /\ h.audioPosition = g.audioPosition

LEMMA InsertedIs ==
    ASSUME NEW l \in Seq(Commands), NEW m \in Seq(Commands), NEW c, NEW k, Inserted(l, k, c, m)
    PROVE  /\ k + 1 \in DOMAIN m /\ m[k + 1] = c
           /\ \A i \in DOMAIN m : i # k + 1 =>
                 \E j \in DOMAIN l : m[i] = l[j] /\ j = IF i <= k THEN i ELSE i - 1
           /\ \A j \in DOMAIN l : \E i \in DOMAIN m : i # k + 1 /\ m[i] = l[j]
<1>0. Len(l) \in Nat /\ DOMAIN l = 1 .. Len(l) /\ DOMAIN m = 1 .. Len(m) /\ k \in 0 .. Len(l) /\ Len(m) = Len(l) + 1
  BY DEF Inserted
<1>1. \A i \in DOMAIN m : m[i] = IF i <= k THEN l[i] ELSE IF i = k + 1 THEN c ELSE l[i - 1]
  BY <1>0 DEF Inserted
<1>2. k + 1 \in DOMAIN m /\ m[k + 1] = c  BY <1>0, <1>1
<1>3. ASSUME NEW i \in DOMAIN m, i # k + 1
      PROVE  \E j \in DOMAIN l : m[i] = l[j] /\ j = IF i <= k THEN i ELSE i - 1
  BY <1>0, <1>1, <1>3
<1>4. ASSUME NEW j \in DOMAIN l PROVE \E i \in DOMAIN m : i # k + 1 /\ m[i] = l[j]
 <2>1. CASE j <= k  BY <2>1, <1>0, <1>1
 <2>2. CASE j > k
  <3>1. j + 1 \in DOMAIN m /\ j + 1 # k + 1 /\ m[j + 1] = l[(j + 1) - 1] /\ (j + 1) - 1 = j
    BY <2>2, <1>0, <1>1
  <3> QED  BY <3>1
 <2> QED  BY <2>1, <2>2, <1>0
<1> QED  BY <1>2, <1>3, <1>4

LEMMA SentInLine ==
    ASSUME NEW g \in Members, NEW h \in Members, NEW l \in Seq(Commands), NEW m \in Seq(Commands),
           NEW c \in Commands, NEW k,
           Inserted(l, k, c, m), InLine(g, l), MaySend(g, l, k, c), Noted(g, c, h)
    PROVE  InLine(h, m)
<1>0. /\ k + 1 \in DOMAIN m /\ m[k + 1] = c /\ k \in Nat /\ DOMAIN m \subseteq Nat /\ DOMAIN l \subseteq Nat
      /\ \A i \in DOMAIN m : i # k + 1 =>
            \E j \in DOMAIN l : m[i] = l[j] /\ j = IF i <= k THEN i ELSE i - 1
      /\ \A j \in DOMAIN l : \E i \in DOMAIN m : i # k + 1 /\ m[i] = l[j]
 <2>1. k \in Nat /\ DOMAIN m \subseteq Nat /\ DOMAIN l \subseteq Nat  BY DEF Inserted
 <2> QED  BY <2>1, InsertedIs
<1>1. LastLoadCounts(h, m)
 <2>1. h.generation = g.generation /\ h.snapshot = g.snapshot /\ h.derived = g.derived
   BY DEF Noted, SamePage
 <2>2. g.generation \in Nat /\ c.gen = g.generation  BY DEF Members, MaySend
 <2>3. ASSUME NEW i \in DOMAIN m PROVE m[i].gen <= g.generation
   BY <1>0, <2>2 DEF InLine, LastLoadCounts
 <2>4. ASSUME NEW i \in DOMAIN m, Loads(m[i]), m[i].gen = g.generation
       PROVE  /\ m[i].doc = g.snapshot /\ g.snapshot # NoDoc
              /\ \A j \in DOMAIN m : j > i =>
                    /\ ~Loads(m[j])
                    /\ m[i].op = "update" \/ ~g.derived => m[j].op # "frame"
  <3>1. CASE i = k + 1
   <4>1. c.doc = g.snapshot /\ g.snapshot # NoDoc /\ Loads(c)  BY <3>1, <1>0, <2>4 DEF MaySend
   <4>2. ASSUME NEW j \in DOMAIN m, j > i
         PROVE  ~Loads(m[j]) /\ (c.op = "update" \/ ~g.derived => m[j].op # "frame")
    <5>1. PICK n \in DOMAIN l : m[j] = l[n] /\ n = j - 1
     <6>1. j \in Nat /\ k \in Nat /\ j > k + 1  BY <1>0, <3>1, <4>2
     <6>2. j # k + 1 /\ ~(j <= k)  BY <6>1
     <6>3. PICK n \in DOMAIN l : m[j] = l[n] /\ n = IF j <= k THEN j ELSE j - 1  BY <1>0, <4>2, <6>2
     <6> QED  BY <6>2, <6>3
    <5>2. n > k  BY <5>1, <4>2, <3>1, <1>0
    <5>3. ~Loads(l[n])  BY <5>2, <4>1, <1>0 DEF MaySend
    <5>4. l[n].op = "frame" => c.op = "load" /\ g.derived  BY <5>2, <4>1 DEF MaySend
    <5> QED  BY <5>1, <5>3, <5>4
   <4> QED  BY <4>1, <4>2, <3>1, <1>0
  <3>2. CASE i # k + 1
   <4>1. PICK n \in DOMAIN l : m[i] = l[n] /\ n = IF i <= k THEN i ELSE i - 1  BY <1>0, <3>2
   <4>2. /\ l[n].doc = g.snapshot /\ g.snapshot # NoDoc
         /\ \A j \in DOMAIN l : j > n => /\ ~Loads(l[j])
                                         /\ l[n].op = "update" \/ ~g.derived => l[j].op # "frame"
     BY <4>1, <2>4 DEF InLine, LastLoadCounts
   <4>3. ASSUME NEW j \in DOMAIN m, j > i
         PROVE  ~Loads(m[j]) /\ (l[n].op = "update" \/ ~g.derived => m[j].op # "frame")
    <5>1. CASE j = k + 1
     <6>1. ~Loads(c)  BY <4>1, <2>4, <2>2 DEF MaySend
     <6>2. c.op # "frame"  BY <4>1, <2>4 DEF MaySend, InLine, FreshHasNoLoad
     <6> QED  BY <5>1, <6>1, <6>2, <1>0
    <5>2. CASE j # k + 1
     <6>1. PICK p \in DOMAIN l : m[j] = l[p] /\ p = IF j <= k THEN j ELSE j - 1  BY <1>0, <5>2
     <6>2. p > n
      <7>1. i \in Nat /\ j \in Nat /\ k \in Nat /\ i # k + 1 /\ j # k + 1 /\ j > i
        BY <4>3, <3>2, <5>2, <1>0
      <7> QED  BY <7>1, <6>1, <4>1
     <6> QED  BY <6>1, <6>2, <4>2
    <5> QED  BY <5>1, <5>2
   <4> QED  BY <4>1, <4>2, <4>3
  <3> QED  BY <3>1, <3>2
 <2> QED  BY <2>1, <2>3, <2>4 DEF LastLoadCounts
<1>2. FreshHasNoLoad(h, m)
 <2>1. h.generation = g.generation /\ h.snapshot = g.snapshot /\ h.stale = g.stale
   BY DEF Noted, SamePage
 <2>2. SUFFICES ASSUME ~h.stale
                PROVE  /\ h.snapshot # NoDoc
                       /\ \A i \in DOMAIN m : /\ ~Loads(m[i])
                                              /\ m[i].op = "frame" => m[i].gen = h.generation /\ m[i].doc.rev = h.snapshot.rev
   BY DEF FreshHasNoLoad
 <2>f. ~g.stale  BY <2>1, <2>2, Zenon
 <2>3. ~Loads(c) /\ c.gen = g.generation /\ (c.op = "frame" => c.doc.rev = g.snapshot.rev)
   BY <2>f DEF MaySend
 <2>4. /\ g.snapshot # NoDoc
       /\ \A i \in DOMAIN l : /\ ~Loads(l[i])
                              /\ l[i].op = "frame" => l[i].gen = g.generation /\ l[i].doc.rev = g.snapshot.rev
   BY <2>f, Zenon DEF InLine, FreshHasNoLoad
 <2>5. \A i \in DOMAIN m : m[i] = c \/ \E j \in DOMAIN l : m[i] = l[j]  BY <1>0
 <2> QED  BY <2>1, <2>3, <2>4, <2>5
<1>a. ASSUME NEW op, NEW a \in BOOLEAN, NEW b \in BOOLEAN, OneOfAKind(l, op, a),
             b = (a \/ c.op = op), c.op = op => ~a
      PROVE  OneOfAKind(m, op, b)
 <2>1. ASSUME b PROVE \E i \in DOMAIN m : m[i].op = op
  <3>1. CASE c.op = op  BY <3>1, <1>0
  <3>2. CASE c.op # op
   <4>1. PICK j \in DOMAIN l : l[j].op = op  BY <3>2, <2>1, <1>a DEF OneOfAKind
   <4> QED  BY <4>1, <1>0
  <3> QED  BY <3>1, <3>2
 <2>2. ASSUME NEW i \in DOMAIN m, m[i].op = op
       PROVE  b /\ \A j \in DOMAIN m : m[j].op = op => j = i
  <3>1. CASE i = k + 1  BY <3>1, <2>2, <1>0, <1>a DEF OneOfAKind
  <3>2. CASE i # k + 1
   <4>1. PICK n \in DOMAIN l : m[i] = l[n] /\ n = IF i <= k THEN i ELSE i - 1  BY <1>0, <3>2
   <4>2. a /\ b /\ c.op # op /\ \A j \in DOMAIN l : l[j].op = op => j = n
     BY <4>1, <2>2, <1>a DEF OneOfAKind
   <4>3. ASSUME NEW j \in DOMAIN m, m[j].op = op PROVE j = i
    <5>1. j # k + 1  BY <4>2, <4>3, <1>0
    <5>2. PICK p \in DOMAIN l : m[j] = l[p] /\ p = IF j <= k THEN j ELSE j - 1  BY <5>1, <1>0
    <5>3. p = n  BY <4>2, <4>3, <5>2
    <5>4. i \in Nat /\ j \in Nat /\ k \in Nat  BY <1>0
    <5> QED  BY <5>1, <5>2, <5>3, <5>4, <4>1, <3>2
   <4> QED  BY <4>2, <4>3
  <3> QED  BY <3>1, <3>2
 <2> QED  BY <2>1, <2>2 DEF OneOfAKind
<1>b. {g.frameInFlight, g.audioInFlight, h.frameInFlight, h.audioInFlight} \subseteq BOOLEAN
  BY DEF Members
<1>3. OneOfAKind(m, "frame", h.frameInFlight)  BY <1>a, <1>b DEF Noted, MaySend, InLine
<1>4. OneOfAKind(m, "audio", h.audioInFlight)  BY <1>a, <1>b DEF Noted, MaySend, InLine
<1>5. SoundIsNext(h, m)
 <2> SUFFICES ASSUME ~h.audioInvalidated, NEW i \in DOMAIN m, m[i].op = "audio"
              PROVE  m[i].pos = h.audioPosition
   BY DEF SoundIsNext
 <2>1. ~g.audioInvalidated /\ h.audioPosition = g.audioPosition  BY DEF Noted
 <2>2. \A j \in DOMAIN l : l[j].op = "audio" => l[j].pos = g.audioPosition
   BY <2>1 DEF InLine, SoundIsNext
 <2>3. m[i] = c \/ \E j \in DOMAIN l : m[i] = l[j]  BY <1>0
 <2>4. c.op = "audio" => c.pos = g.audioPosition  BY DEF MaySend
 <2> QED  BY <2>1, <2>2, <2>3, <2>4
<1>6. EditWaits(h, m)
 <2> SUFFICES ASSUME h.active, NEW i \in DOMAIN m PROVE ~Loads(m[i])  BY DEF EditWaits
 <2>1. g.active  BY DEF Noted, SamePage
 <2>2. \A j \in DOMAIN l : ~Loads(l[j])  BY <2>1 DEF InLine, EditWaits
 <2>3. m[i] = c \/ \E j \in DOMAIN l : m[i] = l[j]  BY <1>0
 <2>4. ~Loads(c)  BY <2>1 DEF MaySend
 <2> QED  BY <2>2, <2>3, <2>4
<1> QED  BY <1>1, <1>2, <1>3, <1>4, <1>5, <1>6 DEF InLine

\* The first command has been answered.
Removed(l, q) == Len(l) = Len(q) + 1 /\ \A i \in 1 .. Len(q) : q[i] = l[i + 1]

LEMMA AnsweredInLine ==
    ASSUME NEW g \in Members, NEW h \in Members, NEW l \in Seq(Commands), NEW q \in Seq(Commands),
           Removed(l, q), InLine(g, l), SamePage(g, h),
           h.frameInFlight = (g.frameInFlight /\ l[1].op # "frame"),
           h.audioInFlight = (g.audioInFlight /\ l[1].op # "audio"),
           l[1].op # "audio" => h.audioInvalidated = g.audioInvalidated /\ h.audioPosition = g.audioPosition
    PROVE  /\ InLine(h, q)
           /\ Loads(l[1]) /\ l[1].gen = g.generation =>
                 \A i \in DOMAIN q : ~Loads(q[i]) /\ (l[1].op = "update" \/ ~g.derived => q[i].op # "frame")
<1>0. /\ 1 \in DOMAIN l /\ DOMAIN q = 1 .. Len(q) /\ DOMAIN l = 1 .. Len(l) /\ Len(q) \in Nat
      /\ \A i \in DOMAIN q : i + 1 \in DOMAIN l /\ q[i] = l[i + 1] /\ i + 1 # 1 /\ i \in Nat
      /\ \A i \in DOMAIN l : i = 1 \/ (i - 1 \in DOMAIN q /\ q[i - 1] = l[i])
 <2>1. DOMAIN q = 1 .. Len(q) /\ DOMAIN l = 1 .. Len(l) /\ Len(q) \in Nat /\ Len(l) = Len(q) + 1
   BY DEF Removed
 <2>2. \A i \in DOMAIN q : i + 1 \in DOMAIN l /\ q[i] = l[i + 1] /\ i + 1 # 1 /\ i \in Nat
   BY <2>1 DEF Removed
 <2>3. ASSUME NEW i \in DOMAIN l, i # 1 PROVE i - 1 \in DOMAIN q /\ q[i - 1] = l[i]
   BY <2>1, <2>3, <2>2
 <2> QED  BY <2>1, <2>2, <2>3
<1>1. LastLoadCounts(h, q)  BY <1>0 DEF SamePage, InLine, LastLoadCounts
<1>2. FreshHasNoLoad(h, q)  BY <1>0 DEF FreshHasNoLoad, InLine, SamePage
<1>3. ASSUME NEW op, NEW a \in BOOLEAN, NEW b \in BOOLEAN, OneOfAKind(l, op, a), b = (a /\ l[1].op # op)
      PROVE  OneOfAKind(q, op, b)
 <2>1. ASSUME b PROVE \E i \in DOMAIN q : q[i].op = op
  <3>1. PICK i \in DOMAIN l : l[i].op = op  BY <2>1, <1>3 DEF OneOfAKind
  <3>2. i # 1  BY <2>1, <1>3, <3>1
  <3> QED  BY <3>1, <3>2, <1>0
 <2>2. ASSUME NEW i \in DOMAIN q, q[i].op = op
       PROVE  b /\ \A j \in DOMAIN q : q[j].op = op => j = i
  <3>1. i + 1 \in DOMAIN l /\ l[i + 1].op = op /\ i + 1 # 1  BY <2>2, <1>0
  <3>2. a /\ \A j \in DOMAIN l : l[j].op = op => j = i + 1  BY <3>1, <1>3 DEF OneOfAKind
  <3>3. l[1].op # op  BY <3>1, <3>2, <1>0
  <3>4. ASSUME NEW j \in DOMAIN q, q[j].op = op PROVE j = i  BY <3>2, <3>4, <1>0
  <3> QED  BY <3>2, <3>3, <3>4, <1>3
 <2> QED  BY <2>1, <2>2 DEF OneOfAKind
<1>4. OneOfAKind(q, "frame", h.frameInFlight) /\ OneOfAKind(q, "audio", h.audioInFlight)
 <2>1. {g.frameInFlight, g.audioInFlight, h.frameInFlight, h.audioInFlight} \subseteq BOOLEAN  BY DEF Members
 <2>2. OneOfAKind(l, "frame", g.frameInFlight) /\ OneOfAKind(l, "audio", g.audioInFlight)  BY DEF InLine
 <2> QED  BY <2>1, <2>2, <1>3
<1>5. SoundIsNext(h, q)
 <2>1. CASE l[1].op = "audio"  BY <2>1, <1>0 DEF InLine, OneOfAKind, SoundIsNext
 <2>2. CASE l[1].op # "audio"  BY <2>2, <1>0 DEF SoundIsNext, InLine
 <2> QED  BY <2>1, <2>2
<1>6. EditWaits(h, q)  BY <1>0 DEF EditWaits, InLine, SamePage
<1>7. Loads(l[1]) /\ l[1].gen = g.generation =>
          \A i \in DOMAIN q : ~Loads(q[i]) /\ (l[1].op = "update" \/ ~g.derived => q[i].op # "frame")
 <2>1. \A i \in DOMAIN q : i + 1 > 1  BY <1>0
 <2> QED  BY <2>1, <1>0 DEF InLine, LastLoadCounts
<1> QED  BY <1>1, <1>2, <1>4, <1>5, <1>6, <1>7 DEF InLine

-----------------------------------------------------------------------------
(* The editor: what the controller's helpers do to its members *)

\* A load for the timeline shown is on the way.
InHand(g) == \E i \in DOMAIN Line(g) : Loads(Line(g)[i]) /\ Line(g)[i].gen = g.generation

\* h is the controller g with commands more, in an order that is as good.
FollowsPage(g, h) ==
    /\ h \in Members /\ InLine(h, Line(h)) /\ SamePage(g, h)
    /\ InHand(g) => InHand(h)
    /\ NobodyWaits(g) => NobodyWaits(h)
    /\ g.current # NoCommand => h.current = g.current
    /\ g.frameInFlight => h.frameInFlight

LEMMA CommandTyped ==
    ASSUME NEW g \in Members, NEW op \in EngineOps, NEW doc \in Docs, NEW pos \in Nat
    PROVE  /\ Command(g, op, doc, pos) \in Commands /\ Command(g, op, doc, pos).op = op
           /\ Command(g, op, doc, pos).gen = g.generation /\ Command(g, op, doc, pos).doc = doc
           /\ Command(g, op, doc, pos).pos = pos
BY DEF Command, Commands, Members

LEMMA FollowsTwice ==
    ASSUME NEW g, NEW h, NEW i, FollowsPage(g, h), FollowsPage(h, i), g.current # NoCommand \/ NobodyWaits(h)
    PROVE  FollowsPage(g, i)
BY DEF FollowsPage, SamePage

LEMMA Sent ==
    ASSUME NEW g \in Members, NEW n \in Members, NEW h \in Members, NEW c \in Commands, NEW k,
           InLine(g, Line(g)), n.queue = g.queue, n.current = g.current,
           MaySend(g, Line(g), k, c), Noted(g, c, n),
           Inserted(Line(n), k, c, Line(h)), SamePage(n, h), SameFlight(n, h),
           NobodyWaits(h), n.current # NoCommand => h.current = n.current
    PROVE  FollowsPage(g, h)
<1>1. Line(n) = Line(g) /\ Line(g) \in Seq(Commands) /\ Line(h) \in Seq(Commands)
  BY LineIs DEF Line
<1>2. Noted(g, c, h)  BY DEF Noted, SamePage, SameFlight
<1>3. InLine(h, Line(h))  BY <1>1, <1>2, SentInLine
<1>4. SamePage(g, h) /\ h.generation = g.generation  BY <1>2 DEF Noted, SamePage
<1>5. \A j \in DOMAIN Line(g) : \E i \in DOMAIN Line(h) : Line(h)[i] = Line(g)[j]
  BY <1>1, InsertedIs
<1>6. InHand(g) => InHand(h)  BY <1>4, <1>5 DEF InHand
<1>7. g.frameInFlight => h.frameInFlight  BY <1>2 DEF Noted
<1> QED  BY <1>3, <1>4, <1>6, <1>7 DEF FollowsPage

\* play, pause and seek
LEMMA ControlSent ==
    ASSUME NEW g \in Members, InLine(g, Line(g)), NEW op \in {"play", "pause", "seek"}, NEW pos \in Nat
    PROVE  FollowsPage(g, PushBack(g, Command(g, op, NoDoc, pos)))
<1>1. PICK c \in Commands : c = Command(g, op, NoDoc, pos) /\ c.op = op /\ c.gen = g.generation
  BY CommandTyped DEF EngineOps, CountsAsBusy, Docs, NoDoc
<1>2. Noted(g, c, g)  BY <1>1, Zenon DEF Noted, SamePage, Members
<1>3. MaySend(g, Line(g), Len(Line(g)), c)  BY <1>1 DEF MaySend, Loads
<1> QED  BY <1>1, <1>2, <1>3, Sent, PushedBack

\* Pausing, and what else is no concern of the commands, changes no order.
LEMMA AsideFollows ==
    ASSUME NEW g \in Members, NEW h \in Members, InLine(g, Line(g)), SamePage(g, h),
           h.queue = g.queue, h.current = g.current,
           h.frameInFlight = g.frameInFlight, h.audioInFlight = g.audioInFlight,
           g.audioInvalidated => h.audioInvalidated,
           h.audioPosition = g.audioPosition \/ h.audioInvalidated \/ ~g.audioInFlight
    PROVE  FollowsPage(g, h)
<1>1. Line(h) = Line(g)  BY DEF Line
<1>2. LastLoadCounts(h, Line(g)) /\ EditWaits(h, Line(g))
  BY DEF InLine, LastLoadCounts, EditWaits, SamePage
<1>3. FreshHasNoLoad(h, Line(g))  BY Zenon DEF InLine, FreshHasNoLoad, SamePage
<1>4. /\ OneOfAKind(Line(g), "frame", h.frameInFlight) /\ OneOfAKind(Line(g), "audio", h.audioInFlight)
  BY DEF InLine
<1>5. SoundIsNext(h, Line(g))  BY DEF SoundIsNext, InLine, OneOfAKind
<1>6. h.generation = g.generation  BY DEF SamePage
<1> QED  BY <1>1, <1>2, <1>3, <1>4, <1>5, <1>6 DEF FollowsPage, InLine, InHand, NobodyWaits

LEMMA FrameQueued ==
    ASSUME NEW g \in Members, InLine(g, Line(g)), NEW pos \in Nat
    PROVE  /\ FollowsPage(g, QueueFrame(g, pos))
           /\ ~g.stale => QueueFrame(g, pos).frameInFlight
<1>0. FollowsPage(g, g)  BY AsideFollows DEF SamePage
<1>1. CASE g.snapshot = NoDoc \/ g.stale \/ g.frameInFlight
  BY <1>1, <1>0 DEF QueueFrame, InLine, FreshHasNoLoad
<1>2. CASE ~(g.snapshot = NoDoc \/ g.stale \/ g.frameInFlight)
 <2>1. PICK n : n = [g EXCEPT !.frameInFlight = TRUE]  OBVIOUS
 <2>2. /\ n \in Members /\ n.queue = g.queue /\ n.current = g.current /\ SamePage(g, n)
       /\ n.audioInFlight = g.audioInFlight
       /\ n.audioInvalidated = g.audioInvalidated /\ n.audioPosition = g.audioPosition
   BY <2>1 DEF Members, SamePage
 <2>f. n.frameInFlight  BY <2>1, Zenon DEF Members
 <2>3. PICK c \in Commands : /\ c = Command(g, "frame", g.snapshot, pos) /\ c.op = "frame"
                             /\ c.gen = g.generation /\ c.doc = g.snapshot
  <3>1. "frame" \in EngineOps /\ g.snapshot \in Docs  BY DEF EngineOps, Members
  <3> QED  BY <3>1, CommandTyped
 <2>4. QueueFrame(g, pos) = PushBack(n, c)  BY <1>2, <2>1, <2>3 DEF QueueFrame
 <2>5. Noted(g, c, n)  BY <2>f, <2>3, <2>2 DEF Members, Noted
 <2>6. MaySend(g, Line(g), Len(Line(g)), c)  BY <1>2, <2>3 DEF MaySend, Loads
 <2>7. Line(n) = Line(g)  BY <2>2 DEF Line
 <2>8. FollowsPage(g, PushBack(n, c)) /\ SameFlight(n, PushBack(n, c))
   BY <2>2, <2>5, <2>6, <2>7, Sent, PushedBack
 <2> QED  BY <2>4, <2>8, <2>f DEF SameFlight
<1> QED  BY <1>1, <1>2

LEMMA AudioPulled ==
    ASSUME NEW g \in Members, InLine(g, Line(g)), NEW full
    PROVE  /\ FollowsPage(g, ScheduleAudioPull(g, full))
           /\ ScheduleAudioPull(g, full).frameInFlight = g.frameInFlight
<1>0. FollowsPage(g, g)  BY AsideFollows DEF SamePage
<1>1. CASE ScheduleAudioPull(g, full) = g  BY <1>0, <1>1
<1>2. CASE ScheduleAudioPull(g, full) # g
 <2>1. PICK n : n = [g EXCEPT !.audioInFlight = TRUE]  OBVIOUS
 <2>0. ~g.audioInFlight  BY <1>2 DEF ScheduleAudioPull
 <2>2. /\ n \in Members /\ n.queue = g.queue /\ n.current = g.current /\ SamePage(g, n)
       /\ n.frameInFlight = g.frameInFlight
       /\ n.audioInvalidated = g.audioInvalidated /\ n.audioPosition = g.audioPosition
   BY <2>1 DEF Members, SamePage
 <2>f. n.audioInFlight  BY <2>1, Zenon DEF Members
 <2>3. PICK c \in Commands : /\ c = Command(g, "audio", g.snapshot, g.audioPosition) /\ c.op = "audio"
                             /\ c.gen = g.generation /\ c.pos = g.audioPosition
  <3>1. "audio" \in EngineOps /\ g.snapshot \in Docs /\ g.audioPosition \in Nat
    BY DEF EngineOps, Members
  <3> QED  BY <3>1, CommandTyped
 <2>4. ScheduleAudioPull(g, full) = PushFront(n, c)  BY <1>2, <2>1, <2>3 DEF ScheduleAudioPull
 <2>5. Noted(g, c, n)  BY <2>f, <2>3, <2>2 DEF Members, Noted
 <2> DEFINE k == IF g.current = NoCommand THEN 0 ELSE 1
 <2>6. MaySend(g, Line(g), k, c)  BY <2>0, <2>3 DEF MaySend, Loads
 <2>7. Inserted(Line(n), k, c, Line(PushFront(n, c)))  BY <2>2, PushedFront
 <2>8. FollowsPage(g, PushFront(n, c)) /\ SameFlight(n, PushFront(n, c))
  <3> HIDE DEF k
  <3> QED  BY <2>2, <2>5, <2>6, <2>7, Sent, PushedFront
 <2> QED  BY <2>2, <2>4, <2>8 DEF SameFlight
<1> QED  BY <1>1, <1>2

LEMMA AudioRestarted ==
    ASSUME NEW g \in Members, InLine(g, Line(g)), NEW from \in Nat, NEW full
    PROVE  /\ FollowsPage(g, RestartAudioPull(g, from, full))
           /\ RestartAudioPull(g, from, full).frameInFlight = g.frameInFlight
<1>1. PICK n : n = [g EXCEPT !.audioPosition = from, !.audioInvalidated = @ \/ g.audioInFlight]
  OBVIOUS
<1>2. /\ n \in Members /\ n.queue = g.queue /\ n.current = g.current /\ SamePage(g, n)
      /\ n.frameInFlight = g.frameInFlight /\ n.audioInFlight = g.audioInFlight
  BY ZenonT(40), <1>1 DEF Members, SamePage
<1>3. n.audioInvalidated = (g.audioInvalidated \/ g.audioInFlight)  BY <1>1, Zenon DEF Members
<1>4. FollowsPage(g, n)  BY <1>2, <1>3, AsideFollows
<1>5. /\ FollowsPage(n, ScheduleAudioPull(n, full))
      /\ ScheduleAudioPull(n, full).frameInFlight = n.frameInFlight
  BY <1>4, AudioPulled DEF FollowsPage
<1>6. RestartAudioPull(g, from, full) = ScheduleAudioPull(n, full)  BY <1>1 DEF RestartAudioPull
<1>7. FollowsPage(g, ScheduleAudioPull(n, full))  BY <1>4, <1>5, <1>2 DEF FollowsPage, SamePage
<1> QED  BY <1>2, <1>5, <1>6, <1>7

LEMMA StopFollows ==
    ASSUME NEW g \in Members, InLine(g, Line(g))
    PROVE  /\ FollowsPage(g, StopPlaying(g)) /\ StopPlaying(g).frameInFlight = g.frameInFlight
           /\ StopPlaying(g).queue = g.queue /\ StopPlaying(g).current = g.current
           /\ SameFlight(g, StopPlaying(g))
<1>1. PICK n : n = [g EXCEPT !.playing = FALSE, !.ticking = FALSE]  OBVIOUS
<1>2. n \in Members /\ n.queue = g.queue /\ n.current = g.current /\ SamePage(g, n) /\ SameFlight(g, n)
  BY <1>1 DEF Members, SamePage, SameFlight
<1>3. FollowsPage(g, n)  BY <1>2, AsideFollows DEF SameFlight
<1> QED  BY <1>1, <1>2, <1>3 DEF StopPlaying, SameFlight

LEMMA StartFollows ==
    ASSUME NEW g \in Members, InLine(g, Line(g)), NEW full
    PROVE  /\ FollowsPage(g, StartPlaying(g, full))
           /\ StartPlaying(g, full).frameInFlight = g.frameInFlight
<1>1. CASE g.playing  BY AsideFollows, <1>1 DEF SamePage, StartPlaying
<1>2. CASE ~g.playing
 <2>1. PICK n : n = [g EXCEPT !.playing = TRUE, !.ticking = TRUE]  OBVIOUS
 <2>2. n \in Members /\ n.queue = g.queue /\ n.current = g.current /\ SamePage(g, n) /\ SameFlight(g, n)
   BY <2>1 DEF Members, SamePage, SameFlight
 <2>3. FollowsPage(g, n)  BY <2>2, AsideFollows DEF SameFlight
 <2>4. g.playhead \in Nat  BY DEF Members
 <2>5. /\ FollowsPage(n, RestartAudioPull(n, g.playhead, full))
       /\ RestartAudioPull(n, g.playhead, full).frameInFlight = n.frameInFlight
   BY <2>3, <2>4, AudioRestarted DEF FollowsPage
 <2>6. StartPlaying(g, full) = RestartAudioPull(n, g.playhead, full)  BY <1>2, <2>1 DEF StartPlaying
 <2> QED  BY <2>2, <2>3, <2>5, <2>6, Zenon DEF FollowsPage, SamePage, SameFlight
<1> QED  BY <1>1, <1>2

-----------------------------------------------------------------------------
(* The editor: what holds all the time *)

\* The engine runs the controller's current command, and its answer is to this command; it
\* has what it was told to load, and it fails for a reason that is noted.
EngineAnswers ==
    reply # NoReply =>
        /\ gui.current # NoCommand /\ reply.op = gui.current.op
        /\ reply.ok => /\ reply.rev = graph.rev
                       /\ Loads(gui.current) => graph = gui.current.doc
        /\ ~reply.ok /\ reply.op = "load" => ~healthy
        /\ ~reply.ok /\ reply.op = "frame" => ~healthy \/ outside

Ours(g, m) == m.gen = g.sessionGeneration

\* Of the messages to and from the session worker at most one is of this opening.
Fits(g, m) ==
    /\ m.gen <= g.sessionGeneration
    /\ Ours(g, m) => /\ g.sessionBusy
                     /\ m.op = "open" => ~g.active /\ ~g.ready
                     /\ m.op # "open" => g.active /\ g.ready
OneRequest ==
    /\ \A i \in DOMAIN calls : Fits(gui, calls[i]) /\ (calls[i].op = "open" => calls[i].project \in Projects)
    /\ \A i \in DOMAIN answers : Fits(gui, answers[i])
    /\ \A i, j \in DOMAIN calls : Ours(gui, calls[i]) /\ Ours(gui, calls[j]) => i = j
    /\ \A i, j \in DOMAIN answers : Ours(gui, answers[i]) /\ Ours(gui, answers[j]) => i = j
    /\ \A i \in DOMAIN calls, j \in DOMAIN answers : ~(Ours(gui, calls[i]) /\ Ours(gui, answers[j]))
    /\ calls # <<>> =>
          Ours(gui, calls[Len(calls)]) /\ (calls[Len(calls)].op = "open" \/ Len(calls) = 1)
    /\ gui.sessionBusy =>
          (\E i \in DOMAIN calls : Ours(gui, calls[i])) \/ \E i \in DOMAIN answers : Ours(gui, answers[i])
    /\ gui.active => gui.sessionBusy

\* The page shows the timeline that is stored, or the answer on the way brings it.
PageIsStored ==
    /\ gui.ready =>
          /\ service \in Projects
          /\ (\A i \in DOMAIN answers : ~(Ours(gui, answers[i]) /\ answers[i].ok)) => gui.snapshot = disk[service]
    /\ \A i \in DOMAIN answers :
          /\ Ours(gui, answers[i]) /\ answers[i].ok =>
                /\ service \in Projects /\ answers[i].doc = disk[service]
                /\ answers[i].op # "open" /\ ~answers[i].change => answers[i].doc = gui.snapshot
          /\ answers[i].derived => ~healthy
    /\ gui.derived => ~healthy

StaleIsInHand == healthy /\ ~outside /\ gui.ready /\ gui.stale => InHand(gui)

FreshIsShown ==
    /\ ~gui.stale => graph = gui.snapshot
    /\ PictureIsAtPlayhead /\ SelectionIsShown /\ SoundFollows

EditorKeeps ==
    /\ EditorTypes /\ NobodyWaits(gui) /\ InLine(gui, Line(gui)) /\ EngineAnswers
    /\ OneRequest /\ PageIsStored /\ StaleIsInHand /\ FreshIsShown

-----------------------------------------------------------------------------
(* The editor: an answer of the engine *)

\* h is the page of g, with another playhead or freshness.
Settled(g, h) ==
    /\ h.sessionGeneration = g.sessionGeneration /\ h.generation = g.generation
    /\ h.active = g.active /\ h.ready = g.ready /\ h.sessionBusy = g.sessionBusy
    /\ h.derived => g.derived
    /\ h.snapshot = g.snapshot /\ h.selected = g.selected
    /\ h.rangeIn = g.rangeIn /\ h.rangeOut = g.rangeOut

LEMMA FirstIsCurrent ==
    ASSUME NEW g \in Members, g.current # NoCommand
    PROVE  Removed(Line(g), g.queue) /\ Line(g)[1] = g.current /\ 1 \in DOMAIN Line(g)
<1>1. g.queue \in Seq(Commands)  BY DEF Members
<1>2. /\ Line(g) \in Seq(Commands) /\ Len(Line(g)) = Len(g.queue) + 1 /\ Line(g)[1] = g.current
      /\ \A i \in 1 .. Len(Line(g)) : i = 1 \/ Line(g)[i] = g.queue[i - 1]
  BY LineIs
<1>3. ASSUME NEW i \in 1 .. Len(g.queue) PROVE g.queue[i] = Line(g)[i + 1]  BY <1>1, <1>2
<1> QED  BY <1>1, <1>2, <1>3 DEF Removed

\* Without its current command, the controller that has noted the answer.
LEMMA AnsweredWell ==
    ASSUME NEW g \in Members, NEW h \in Members, g.current # NoCommand, InLine(g, Line(g)),
           h.current = NoCommand, h.queue = g.queue, SamePage(g, h),
           h.frameInFlight = (g.frameInFlight /\ g.current.op # "frame"),
           h.audioInFlight = (g.audioInFlight /\ g.current.op # "audio"),
           g.current.op # "audio" =>
               h.audioInvalidated = g.audioInvalidated /\ h.audioPosition = g.audioPosition
    PROVE  /\ InLine(h, Line(h))
           /\ InHand(g) => InHand(h) \/ (Loads(g.current) /\ g.current.gen = g.generation)
           /\ Loads(g.current) /\ g.current.gen = g.generation =>
                 /\ g.current.doc = g.snapshot /\ g.snapshot # NoDoc /\ ~g.active
                 /\ \A i \in DOMAIN Line(h) :
                        ~Loads(Line(h)[i]) /\ (g.current.op = "update" \/ ~g.derived => Line(h)[i].op # "frame")
<1>1. Line(h) = g.queue /\ Line(h) \in Seq(Commands) /\ Line(g) \in Seq(Commands)  BY LineIs
<1>2. Removed(Line(g), Line(h)) /\ Line(g)[1] = g.current /\ 1 \in DOMAIN Line(g)
  BY <1>1, FirstIsCurrent
<1>3. /\ InLine(h, Line(h))
      /\ Loads(g.current) /\ g.current.gen = g.generation =>
            \A i \in DOMAIN Line(h) :
                ~Loads(Line(h)[i]) /\ (g.current.op = "update" \/ ~g.derived => Line(h)[i].op # "frame")
  BY <1>1, <1>2, AnsweredInLine
<1>4. Loads(g.current) /\ g.current.gen = g.generation =>
          g.current.doc = g.snapshot /\ g.snapshot # NoDoc /\ ~g.active
  BY <1>2 DEF InLine, LastLoadCounts, EditWaits
<1>5. ASSUME InHand(g), ~(Loads(g.current) /\ g.current.gen = g.generation) PROVE InHand(h)
 <2>1. PICK i \in DOMAIN Line(g) : Loads(Line(g)[i]) /\ Line(g)[i].gen = g.generation
   BY <1>5 DEF InHand
 <2>2. i # 1  BY <2>1, <1>5, <1>2
 <2>3. i - 1 \in DOMAIN Line(h) /\ Line(h)[i - 1] = Line(g)[i]
  <3>1. i - 1 \in 1 .. Len(Line(h)) /\ (i - 1) + 1 = i  BY <2>2, <1>1, <1>2 DEF Removed
  <3> QED  BY <3>1, <1>1, <1>2 DEF Removed
 <2>4. h.generation = g.generation  BY DEF SamePage
 <2> QED  BY <2>1, <2>3, <2>4 DEF InHand
<1> QED  BY <1>3, <1>4, <1>5

\* What an answer may leave.
GoodPage(h) ==
    /\ h \in Members /\ InLine(h, Line(h)) /\ Settled(gui, h)
    /\ ~h.stale => /\ graph = h.snapshot
                   /\ h.frameInFlight \/ h.image = [doc |-> h.snapshot, pos |-> h.playhead]
    /\ healthy /\ ~outside /\ h.ready /\ h.stale => InHand(h)

LEMMA FollowsGood ==
    ASSUME NEW g, NEW h, GoodPage(g), FollowsPage(g, h)
    PROVE  GoodPage(h)
<1>1. Settled(gui, h)  BY DEF GoodPage, FollowsPage, SamePage, Settled
<1>2. ASSUME ~h.stale
      PROVE  graph = h.snapshot /\ (h.frameInFlight \/ h.image = [doc |-> h.snapshot, pos |-> h.playhead])
  BY <1>2 DEF FollowsPage, SamePage, GoodPage
<1>3. ASSUME healthy, ~outside, h.ready, h.stale PROVE InHand(h)
  BY <1>3 DEF FollowsPage, SamePage, GoodPage
<1> QED  BY <1>1, <1>2, <1>3 DEF GoodPage, FollowsPage

LEMMA CompletedGood ==
    ASSUME EditorKeeps, reply # NoReply, reply.op \in CountsAsBusy, NEW full
    PROVE  GoodPage(IF Current THEN Completed(Answered, gui.current, full) ELSE Answered)
<1>t. gui \in Members /\ InLine(gui, Line(gui)) /\ gui.current # NoCommand /\ reply.op = gui.current.op
  BY DEF EditorKeeps, EditorTypes, EngineAnswers
<1>c. PICK c : c = gui.current  OBVIOUS
<1>d. c \in Commands /\ c.op \in CountsAsBusy /\ c.op # "frame" /\ c.op # "audio" /\ c.op = reply.op
  BY <1>t, <1>c DEF Members, CountsAsBusy
<1>g. PICK g : g = Answered  OBVIOUS
<1>1. /\ g \in Members /\ g.current = NoCommand /\ g.queue = gui.queue /\ SamePage(gui, g)
      /\ SameFlight(gui, g)
  BY <1>g, <1>t DEF Answered, Members, SamePage, SameFlight
<1>2. /\ InLine(g, Line(g))
      /\ InHand(gui) => InHand(g) \/ (Loads(c) /\ c.gen = gui.generation)
      /\ Loads(c) /\ c.gen = gui.generation =>
            /\ c.doc = gui.snapshot /\ gui.snapshot # NoDoc /\ ~gui.active
            /\ \A i \in DOMAIN Line(g) :
                   ~Loads(Line(g)[i]) /\ (c.op = "update" \/ ~gui.derived => Line(g)[i].op # "frame")
 <2>1. /\ g.frameInFlight = (gui.frameInFlight /\ c.op # "frame")
       /\ g.audioInFlight = (gui.audioInFlight /\ c.op # "audio")
   BY <1>1, <1>d, <1>t DEF SameFlight, Members
 <2> QED  BY <2>1, <1>1, <1>t, <1>c, <1>d, AnsweredWell DEF SameFlight
<1>3. /\ ~gui.stale => graph = gui.snapshot
      /\ ~gui.stale /\ ~gui.frameInFlight => gui.image = [doc |-> gui.snapshot, pos |-> gui.playhead]
      /\ healthy /\ ~outside /\ gui.ready /\ gui.stale => InHand(gui)
      /\ reply.ok /\ Loads(c) => graph = c.doc
      /\ ~reply.ok /\ c.op = "load" => ~healthy
      /\ gui.derived => ~healthy
  BY <1>c, <1>d DEF EditorKeeps, FreshIsShown, PictureIsAtPlayhead, StaleIsInHand, EngineAnswers, PageIsStored
<1>4. ASSUME ~(Loads(c) /\ Current) PROVE GoodPage(g)
 <2>1. Settled(gui, g)  BY <1>1 DEF SamePage, Settled
 <2>2. InHand(gui) => InHand(g)  BY <1>4, <1>2, <1>c DEF Current
 <2>3. ASSUME ~g.stale
       PROVE  graph = g.snapshot /\ (g.frameInFlight \/ g.image = [doc |-> g.snapshot, pos |-> g.playhead])
   BY <2>3, <1>1, <1>3 DEF SamePage, SameFlight
 <2>4. ASSUME healthy, ~outside, g.ready, g.stale PROVE InHand(g)
   BY <2>4, <1>1, <2>2, <1>3 DEF SamePage
 <2> QED  BY <1>1, <1>2, <2>1, <2>3, <2>4 DEF GoodPage
<1>5. CASE ~Current  BY <1>5, <1>4, <1>g
<1>6. ASSUME Current PROVE GoodPage(Completed(g, c, full))
 <2>g. g.generation = gui.generation /\ c.gen = g.generation
   BY <1>6, <1>1, <1>c DEF Current, SamePage
 <2>h. g.derived = gui.derived /\ g.snapshot = gui.snapshot /\ g.active = gui.active
   BY <1>1 DEF SamePage
 <2>1. CASE Loads(c) /\ reply.ok /\ (c.op = "load" => ~g.derived)
  <3>0. ~gui.derived \/ c.op = "update"  BY <2>1, <2>h, Zenon DEF Loads
  <3>1. PICK n : n = [g EXCEPT !.stale = FALSE]  OBVIOUS
  <3>2. /\ n \in Members /\ n.queue = g.queue /\ n.current = g.current /\ SameFlight(g, n)
        /\ Settled(g, n) /\ n.playhead = g.playhead /\ n.generation = g.generation
        /\ n.derived = g.derived /\ n.snapshot = g.snapshot /\ n.active = g.active
    BY <3>1, <1>1 DEF Members, Settled, SameFlight
  <3>3. ~n.stale  BY <3>1, <1>1, Zenon DEF Members
  <3>4. Line(n) = Line(g)  BY <3>2 DEF Line
  <3>5. \A i \in DOMAIN Line(g) : ~Loads(Line(g)[i]) /\ Line(g)[i].op # "frame"
    BY <2>1, <2>g, <3>0, <1>2
  <3>6. InLine(n, Line(n))
    BY <1>2, <3>2, <3>5, <2>1, <2>g, <2>h, <3>4 DEF InLine, LastLoadCounts, EditWaits, SoundIsNext,
      SameFlight, FreshHasNoLoad
  <3>7. n.playhead \in Nat  BY <3>2 DEF Members
  <3>8. FollowsPage(n, QueueFrame(n, n.playhead)) /\ QueueFrame(n, n.playhead).frameInFlight
    BY <3>2, <3>3, <3>6, <3>7, FrameQueued
  <3>9. Completed(g, c, full) = QueueFrame(n, n.playhead)  BY <2>1, <3>1, <3>2 DEF Completed, Loads
  <3>10. graph = n.snapshot  BY <2>1, <2>g, <2>h, <1>2, <1>3, <3>2
  <3>11. Settled(gui, n)  BY <1>1, <3>2 DEF Settled, SamePage
  <3> HIDE DEF QueueFrame
  <3>12. PICK h : h = QueueFrame(n, n.playhead)  OBVIOUS
  <3>13. h \in Members /\ InLine(h, Line(h)) /\ SamePage(n, h) /\ h.frameInFlight
    BY <3>8, <3>12 DEF FollowsPage
  <3>14. ~h.stale  BY <3>13, <3>3, Zenon DEF SamePage
  <3>15. graph = h.snapshot /\ Settled(gui, h)  BY <3>10, <3>11, <3>13 DEF SamePage, Settled
  <3> QED  BY <3>9, <3>12, <3>13, <3>14, <3>15 DEF GoodPage
 <2>2. CASE c.op = "load" /\ (g.derived \/ ~reply.ok)
  <3>1. PICK n : n = [g EXCEPT !.stale = TRUE, !.derived = FALSE]  OBVIOUS
  <3>2. /\ n \in Members /\ n.queue = g.queue /\ n.current = g.current /\ SameFlight(g, n)
        /\ n.generation = g.generation /\ n.snapshot = g.snapshot /\ n.active = g.active
    BY <3>1, <1>1 DEF Members, SameFlight
  <3>3. n.stale /\ ~n.derived  BY <3>1, <1>1, Zenon DEF Members
  <3>s. Settled(gui, n)  BY <3>1, <3>3, <1>1 DEF Members, Settled, SamePage
  <3>4. Line(n) = Line(g)  BY <3>2 DEF Line
  <3>5. \A i \in DOMAIN Line(g) : ~Loads(Line(g)[i])  BY <2>2, <2>g, <1>2 DEF Loads
  <3>6. InLine(n, Line(n))
    BY <1>2, <3>2, <3>5, <3>3, <3>4 DEF InLine, LastLoadCounts, EditWaits, SoundIsNext, SameFlight,
      FreshHasNoLoad
  <3>7. ~healthy  BY <2>2, <2>h, <1>3
  <3>8. Completed(g, c, full) = n  BY <2>2, <3>1 DEF Completed
  <3> QED  BY <3>2, <3>3, <3>s, <3>6, <3>7, <3>8 DEF GoodPage
 <2>3. CASE c.op = "update" /\ ~reply.ok
  <3>1. PICK n : n = [g EXCEPT !.stale = TRUE]  OBVIOUS
  <3>2. /\ n \in Members /\ n.queue = g.queue /\ n.current = NoCommand /\ SameFlight(g, n)
        /\ n.generation = g.generation /\ n.snapshot = g.snapshot /\ n.active = g.active
        /\ n.derived = g.derived /\ Settled(gui, n)
    BY <3>1, <1>1 DEF Members, SameFlight, Settled, SamePage
  <3>3. n.stale  BY <3>1, <1>1, Zenon DEF Members
  <3>4. Line(n) = Line(g)  BY <3>2, <1>1 DEF Line
  <3>5. \A i \in DOMAIN Line(g) : ~Loads(Line(g)[i]) /\ Line(g)[i].op # "frame"
    BY <2>3, <2>g, <1>2 DEF Loads
  <3>6. InLine(n, Line(n))
    BY <1>2, <3>2, <3>5, <3>3, <3>4 DEF InLine, LastLoadCounts, EditWaits, SoundIsNext, SameFlight,
      FreshHasNoLoad
  <3>7. PICK d \in Commands : /\ d = Command(g, "load", g.snapshot, 0) /\ d.op = "load"
                              /\ d.gen = g.generation /\ d.doc = g.snapshot
    BY <1>1, CommandTyped DEF EngineOps, CountsAsBusy, Members
  <3>8. MaySend(n, Line(n), 0, d)
    BY <2>3, <2>g, <2>h, <1>2, <3>2, <3>3, <3>4, <3>5, <3>7 DEF Loads, MaySend
  <3>9. Noted(n, d, n)  BY <3>2, <3>7 DEF Noted, SamePage, Members
  <3>10. PICK h : h = PushFront(n, d)  OBVIOUS
  <3>11. FollowsPage(n, h)  BY <3>2, <3>10, PushedFront, <3>6, <3>8, <3>9, Sent
  <3>12. InHand(h)
   <4>1. Line(n) \in Seq(Commands) /\ Line(h) \in Seq(Commands) /\ Inserted(Line(n), 0, d, Line(h))
     BY <3>2, <3>10, PushedFront, LineIs DEF FollowsPage
   <4>2. 0 + 1 \in DOMAIN Line(h) /\ Line(h)[0 + 1] = d  BY <4>1, InsertedIs
   <4>3. h.generation = g.generation  BY <3>11, <3>2 DEF FollowsPage, SamePage
   <4> QED  BY <4>2, <4>3, <3>7 DEF InHand, Loads
  <3>13. h.stale /\ Settled(gui, h)  BY <3>3, <3>11, <3>2 DEF FollowsPage, SamePage, Settled
  <3>14. Completed(g, c, full) = h  BY <2>3, <3>1, <3>7, <3>10 DEF Completed
  <3> QED  BY <3>11, <3>12, <3>13, <3>14 DEF GoodPage, FollowsPage
 <2>4. ASSUME ~Loads(c) PROVE GoodPage(g)  BY <2>4, <1>4
 <2>5. CASE c.op = "play" /\ reply.ok
   BY <2>5, <2>4, <1>1, <1>2, StartFollows, FollowsGood DEF Completed, Loads
 <2>6. CASE c.op = "pause" /\ reply.ok
   BY <2>6, <2>4, <1>1, <1>2, StopFollows, FollowsGood DEF Completed, Loads
 <2>7. CASE c.op = "seek" /\ reply.ok
  <3>1. PICK n : n = [g EXCEPT !.playhead = c.pos]  OBVIOUS
  <3>0. c.pos \in Nat  BY <1>d DEF Commands
  <3>2. /\ n \in Members /\ n.queue = g.queue /\ n.current = g.current /\ SameFlight(g, n)
        /\ n.generation = g.generation /\ n.snapshot = g.snapshot /\ n.active = g.active
        /\ n.derived = g.derived /\ n.stale = g.stale /\ n.ready = g.ready /\ Settled(gui, n)
    BY <3>0, <3>1, <1>1 DEF Members, SameFlight, Settled, SamePage
  <3>3. Line(n) = Line(g)  BY <3>2 DEF Line
  <3>4. InLine(n, Line(n))
    BY <1>2, <3>2, <3>3 DEF InLine, LastLoadCounts, EditWaits, SoundIsNext, SameFlight,
      FreshHasNoLoad
  <3>5. PICK r : r = IF n.playing THEN RestartAudioPull(n, c.pos, full) ELSE n  OBVIOUS
  <3>6. FollowsPage(n, r)  BY <3>2, <3>4, AsideFollows, <3>0, AudioRestarted, <3>5 DEF SamePage
  <3>7. PICK h : h = QueueFrame(r, c.pos)  OBVIOUS
  <3>8. FollowsPage(r, h) /\ (~r.stale => h.frameInFlight)
    BY <3>0, <3>6, <3>7, FrameQueued DEF FollowsPage
  <3>9. Completed(g, c, full) = h  BY <2>7, <3>1, <3>5, <3>7, Zenon DEF Completed
  <3>10. GoodPage(g)  BY <2>7, <2>4 DEF Loads
  <3>11. InHand(g) => InHand(n)  BY <3>2, <3>3 DEF InHand
  <3>12. h \in Members /\ InLine(h, Line(h)) /\ Settled(gui, h)
    BY <3>2, <3>6, <3>8 DEF FollowsPage, SamePage, Settled
  <3>13. ASSUME ~h.stale
         PROVE  graph = h.snapshot /\ h.frameInFlight
    BY <3>13, <3>2, <3>6, <3>8, <3>10 DEF FollowsPage, SamePage, GoodPage
  <3>14. ASSUME healthy, ~outside, h.ready, h.stale PROVE InHand(h)
    BY <3>14, <3>2, <3>6, <3>8, <3>10, <3>11 DEF FollowsPage, SamePage, GoodPage
  <3> QED  BY <3>9, <3>12, <3>13, <3>14 DEF GoodPage
 <2>8. CASE ~reply.ok /\ c.op \in {"play", "pause", "seek"}  BY <2>8, <2>4 DEF Completed, Loads
 <2> QED  BY <2>1, <2>2, <2>3, <2>5, <2>6, <2>7, <2>8, <1>d DEF Loads, CountsAsBusy
<1> QED  BY <1>5, <1>6, <1>c, <1>g

LEMMA InLineSame ==
    ASSUME NEW g, NEW h, NEW l, InLine(g, l), SamePage(g, h), SameFlight(g, h)
    PROVE  InLine(h, l)
  BY DEF InLine, LastLoadCounts, SamePage, FreshHasNoLoad, SameFlight, SoundIsNext, EditWaits

\* Requests to the session worker are those of the page of h.
LEMMA RequestsStay ==
    ASSUME OneRequest, calls' = calls, answers' = answers,
           gui'.sessionGeneration = gui.sessionGeneration, gui'.active = gui.active,
           gui'.ready = gui.ready, gui'.sessionBusy = gui.sessionBusy
    PROVE  OneRequest'
<1>1. \A m : Ours(gui', m) <=> Ours(gui, m)  BY DEF Ours
<1>2. ASSUME NEW m, Fits(gui, m) PROVE Fits(gui', m)  BY <1>1, <1>2, Zenon DEF Fits
<1> QED  BY <1>1, <1>2 DEF OneRequest

LEMMA PageStoredStays ==
    ASSUME PageIsStored, answers' = answers, service' = service, disk' = disk, healthy' => healthy,
           gui'.sessionGeneration = gui.sessionGeneration, gui'.ready = gui.ready,
           gui'.snapshot = gui.snapshot, gui'.derived => gui.derived
    PROVE  PageIsStored'
  BY DEF Ours, PageIsStored

LEMMA PageTurned ==
    ASSUME EditorKeeps, NEW h, GoodPage(h), gui' = DispatchNext(h), reply' = NoReply,
           UNCHANGED <<sessionVars, graph, healthy, outside>>,
           heard' \in [at : Nat, wanted : Nat], heard'.at = heard'.wanted
    PROVE  EditorKeeps'
<1>h. h \in Members /\ InLine(h, Line(h)) /\ Settled(gui, h)  BY DEF GoodPage
<1>1. /\ gui' \in Members /\ Line(gui') = Line(h) /\ NobodyWaits(gui')
      /\ SamePage(h, gui') /\ SameFlight(h, gui')
  BY <1>h, Dispatched
<1>2. UNCHANGED <<disk, service, calls, answers, graph, healthy, outside>>  BY DEF sessionVars
<1>3. EditorTypes'  BY <1>1, <1>2 DEF EditorKeeps, EditorTypes
<1>4. InLine(gui', Line(gui'))  BY <1>h, <1>1, InLineSame
<1>5. EngineAnswers'  BY DEF EngineAnswers
<1>s. /\ gui'.sessionGeneration = gui.sessionGeneration /\ gui'.active = gui.active
      /\ gui'.ready = gui.ready /\ gui'.sessionBusy = gui.sessionBusy
      /\ gui'.snapshot = gui.snapshot /\ gui'.selected = gui.selected
      /\ gui'.rangeIn = gui.rangeIn /\ gui'.rangeOut = gui.rangeOut
  BY <1>h, <1>1 DEF Settled, SamePage
<1>d. gui'.derived => gui.derived  BY <1>h, <1>1, Zenon DEF Settled, SamePage
<1>6. OneRequest'  BY <1>2, <1>s, RequestsStay DEF EditorKeeps
<1>7. PageIsStored'  BY <1>2, <1>s, <1>d, PageStoredStays DEF EditorKeeps
<1>8. StaleIsInHand'
 <2>1. SUFFICES ASSUME healthy', ~outside', gui'.ready, gui'.stale PROVE InHand(gui')
   BY DEF StaleIsInHand
 <2>2. healthy /\ ~outside /\ h.ready /\ h.stale  BY <1>2, <2>1, <1>1 DEF SamePage
 <2>3. InHand(h)  BY <2>2 DEF GoodPage
 <2> QED  BY <2>3, <1>1 DEF InHand, SamePage
<1>9. FreshIsShown'
 <2>1. ASSUME ~gui'.stale
       PROVE  /\ graph' = gui'.snapshot
              /\ ~gui'.frameInFlight => gui'.image = [doc |-> gui'.snapshot, pos |-> gui'.playhead]
   BY <2>1, <1>1, <1>2 DEF SamePage, SameFlight, GoodPage
 <2>2. PictureIsAtPlayhead'  BY <2>1 DEF PictureIsAtPlayhead
 <2>3. SelectionIsShown'  BY <1>s DEF EditorKeeps, FreshIsShown, SelectionIsShown
 <2> QED  BY <2>1, <2>2, <2>3 DEF FreshIsShown, SoundFollows
<1> QED  BY <1>1, <1>3, <1>4, <1>5, <1>6, <1>7, <1>8, <1>9 DEF EditorKeeps

\* More commands, and the page as it is.
LEMMA CommandsAdded ==
    ASSUME EditorKeeps, FollowsPage(gui, gui'), UNCHANGED <<sessionVars, engineVars, heard, healthy, outside>>
    PROVE  EditorKeeps'
<1>1. /\ gui' \in Members /\ InLine(gui', Line(gui')) /\ NobodyWaits(gui') /\ SamePage(gui, gui')
      /\ gui.current # NoCommand => gui'.current = gui.current
  BY DEF EditorKeeps, FollowsPage
<1>2. UNCHANGED <<disk, service, calls, answers, graph, reply, heard, healthy, outside>>
  BY DEF sessionVars, engineVars
<1>3. EditorTypes'  BY <1>1, <1>2 DEF EditorKeeps, EditorTypes
<1>5. EngineAnswers'  BY <1>1, <1>2 DEF EditorKeeps, EngineAnswers
<1>s. /\ gui'.sessionGeneration = gui.sessionGeneration /\ gui'.active = gui.active
      /\ gui'.ready = gui.ready /\ gui'.sessionBusy = gui.sessionBusy
      /\ gui'.snapshot = gui.snapshot /\ gui'.selected = gui.selected
      /\ gui'.rangeIn = gui.rangeIn /\ gui'.rangeOut = gui.rangeOut /\ gui'.playhead = gui.playhead
      /\ gui'.image = gui.image /\ gui'.stale = gui.stale
  BY <1>1 DEF SamePage
<1>d. gui'.derived => gui.derived  BY <1>1, Zenon DEF SamePage
<1>6. OneRequest'  BY <1>2, <1>s, RequestsStay DEF EditorKeeps
<1>7. PageIsStored'  BY <1>2, <1>s, <1>d, PageStoredStays DEF EditorKeeps
<1>8. StaleIsInHand'
 <2>1. SUFFICES ASSUME healthy', ~outside', gui'.ready, gui'.stale PROVE InHand(gui')
   BY DEF StaleIsInHand
 <2>2. healthy /\ ~outside /\ gui.ready /\ gui.stale  BY <1>2, <2>1, <1>s
 <2> QED  BY <2>2 DEF EditorKeeps, StaleIsInHand, FollowsPage
<1>9. FreshIsShown'
 <2>1. ASSUME ~gui'.stale
       PROVE  /\ graph' = gui'.snapshot
              /\ ~gui'.frameInFlight => gui'.image = [doc |-> gui'.snapshot, pos |-> gui'.playhead]
   BY <2>1, <1>s, <1>2 DEF FollowsPage, EditorKeeps, FreshIsShown, PictureIsAtPlayhead
 <2>2. PictureIsAtPlayhead'  BY <2>1 DEF PictureIsAtPlayhead
 <2>3. SelectionIsShown'  BY <1>s DEF EditorKeeps, FreshIsShown, SelectionIsShown
 <2> QED  BY <2>1, <2>2, <2>3, <1>2 DEF FreshIsShown, SoundFollows, EditorKeeps
<1> QED  BY <1>1, <1>3, <1>5, <1>6, <1>7, <1>8, <1>9 DEF EditorKeeps

LEMMA HandleCompletedKeeps ==
    ASSUME EditorKeeps, NEW full, HandleCompleted(full)
    PROVE  EditorKeeps'
<1> DEFINE h == IF Current THEN Completed(Answered, gui.current, full) ELSE Answered
<1>1. gui' = DispatchNext(h) /\ reply' = NoReply /\ reply # NoReply /\ reply.op \in CountsAsBusy
      /\ UNCHANGED <<sessionVars, graph, heard, healthy, outside>>
  BY DEF HandleCompleted
<1>2. GoodPage(h)  BY <1>1, CompletedGood
<1>3. heard' \in [at : Nat, wanted : Nat] /\ heard'.at = heard'.wanted
  BY <1>1 DEF EditorKeeps, EditorTypes, FreshIsShown, SoundFollows
<1> HIDE DEF h
<1> QED  BY <1>1, <1>2, <1>3, PageTurned

\* The page with the answer to a frame or a block of sound noted is as good as before.
LEMMA AnsweredGood ==
    ASSUME EditorKeeps, gui.current # NoCommand, NEW g \in Members, ~Loads(gui.current),
           g.current = NoCommand, g.queue = gui.queue, SamePage(gui, g), InLine(g, Line(g)),
           InHand(gui) => InHand(g),
           ~gui.stale => g.frameInFlight = gui.frameInFlight
    PROVE  GoodPage(g)
<1>1. Settled(gui, g)  BY DEF SamePage, Settled
<1>2. ASSUME ~g.stale
      PROVE  graph = g.snapshot /\ (g.frameInFlight \/ g.image = [doc |-> g.snapshot, pos |-> g.playhead])
  BY <1>2 DEF SamePage, EditorKeeps, FreshIsShown, PictureIsAtPlayhead
<1>3. ASSUME healthy, ~outside, g.ready, g.stale PROVE InHand(g)
  BY <1>3 DEF SamePage, EditorKeeps, StaleIsInHand
<1> QED  BY <1>1, <1>2, <1>3 DEF GoodPage

LEMMA HandleFrameCompletedKeeps ==
    ASSUME EditorKeeps, HandleFrameCompleted
    PROVE  EditorKeeps'
<1>t. gui \in Members /\ InLine(gui, Line(gui)) /\ graph \in Docs  BY DEF EditorKeeps, EditorTypes
<1>a. reply # NoReply /\ gui.current # NoCommand /\ gui.current.op = "frame" /\ reply.op = "frame"
  BY DEF HandleFrameCompleted, EditorKeeps, EngineAnswers
<1>c. PICK c \in Commands : c = gui.current /\ c.op = "frame" /\ ~Loads(c) /\ c.pos \in Nat
  BY <1>t, <1>a DEF Members, Commands, Loads
<1>g. PICK g : g = [Answered EXCEPT !.frameInFlight = FALSE]  OBVIOUS
<1>1. /\ g \in Members /\ g.current = NoCommand /\ g.queue = gui.queue /\ SamePage(gui, g)
      /\ g.audioInFlight = gui.audioInFlight /\ g.audioInvalidated = gui.audioInvalidated
      /\ g.audioPosition = gui.audioPosition
  BY <1>g, <1>t DEF Answered, Members, SamePage
<1>f. ~g.frameInFlight  BY <1>g, <1>t, Zenon DEF Answered, Members
<1>2. InLine(g, Line(g)) /\ (InHand(gui) => InHand(g))
 <2>1. /\ g.frameInFlight = (gui.frameInFlight /\ gui.current.op # "frame")
       /\ g.audioInFlight = (gui.audioInFlight /\ gui.current.op # "audio")
   BY <1>1, <1>f, <1>a, <1>t DEF Members
 <2> QED  BY <2>1, <1>1, <1>t, <1>a, <1>c, AnsweredWell
<1>3. ~gui.stale => /\ Current /\ gui.snapshot # NoDoc /\ c.doc.rev = gui.snapshot.rev
                    /\ graph = gui.snapshot
  BY <1>t, <1>a, <1>c, FirstIsCurrent DEF InLine, FreshHasNoLoad, Current, EditorKeeps, FreshIsShown
<1>s. g.stale = gui.stale /\ g.snapshot = gui.snapshot /\ g.ready = gui.ready  BY <1>1 DEF SamePage
<1>h. PICK h : /\ gui' = DispatchNext(h)
               /\ h = IF ~Current \/ g.snapshot = NoDoc \/ c.doc.rev # g.snapshot.rev THEN g
                      ELSE IF ~reply.ok \/ reply.rev # c.doc.rev
                           THEN StopPlaying([g EXCEPT !.stale = TRUE])
                      ELSE [g EXCEPT !.image = [doc |-> graph, pos |-> c.pos], !.playhead = c.pos]
  BY <1>g, <1>c DEF HandleFrameCompleted
<1>4. GoodPage(h)
 <2>1. CASE h = g /\ (~Current \/ g.snapshot = NoDoc \/ c.doc.rev # g.snapshot.rev)
   BY <2>1, <1>3, <1>s, <1>1, <1>2, <1>a, <1>c, AnsweredGood
 <2>2. CASE h = StopPlaying([g EXCEPT !.stale = TRUE]) /\ Current /\ (~reply.ok \/ reply.rev # c.doc.rev)
  <3>1. PICK n : n = [g EXCEPT !.stale = TRUE]  OBVIOUS
  <3>2. /\ n \in Members /\ n.queue = g.queue /\ n.current = g.current /\ SameFlight(g, n)
        /\ n.generation = g.generation /\ n.snapshot = g.snapshot /\ n.active = g.active
        /\ n.derived = g.derived /\ n.ready = g.ready /\ Settled(gui, n)
    BY <3>1, <1>1 DEF Members, SameFlight, Settled, SamePage
  <3>3. n.stale  BY <3>1, <1>1, Zenon DEF Members
  <3>4. Line(n) = Line(g)  BY <3>2 DEF Line
  <3>5. InLine(n, Line(n))
    BY <1>2, <3>2, <3>3, <3>4 DEF InLine, LastLoadCounts, EditWaits, SoundIsNext, SameFlight,
      FreshHasNoLoad
  <3>6. ASSUME healthy, ~outside, n.ready PROVE InHand(n)
    BY <3>6, <1>a, <2>2, <1>3, <3>2, <1>s, <1>2, <3>4 DEF EditorKeeps, EngineAnswers, StaleIsInHand,
      InHand
  <3>7. GoodPage(n)  BY <3>2, <3>3, <3>5, <3>6 DEF GoodPage
  <3>8. FollowsPage(n, StopPlaying(n))  BY <3>2, <3>5, StopFollows
  <3> QED  BY <3>1, <3>7, <3>8, <2>2, FollowsGood
 <2>3. CASE h = [g EXCEPT !.image = [doc |-> graph, pos |-> c.pos], !.playhead = c.pos]
  <3>1. [doc |-> graph, pos |-> c.pos] \in Images  BY <1>t, <1>c DEF Images
  <3>2. /\ h \in Members /\ h.queue = g.queue /\ h.current = g.current /\ SameFlight(g, h)
        /\ h.generation = g.generation /\ h.snapshot = g.snapshot /\ h.active = g.active
        /\ h.derived = g.derived /\ h.ready = g.ready /\ h.stale = g.stale /\ Settled(gui, h)
        /\ h.image = [doc |-> graph, pos |-> c.pos] /\ h.playhead = c.pos
    BY ZenonT(40), <3>1, <2>3, <1>c, <1>1 DEF Members, SameFlight, Settled, SamePage
  <3>3. Line(h) = Line(g)  BY <3>2 DEF Line
  <3>4. InLine(h, Line(h))
    BY <1>2, <3>2, <3>3 DEF InLine, LastLoadCounts, EditWaits, SoundIsNext, SameFlight,
      FreshHasNoLoad
  <3>5. ASSUME ~h.stale
        PROVE  graph = h.snapshot /\ h.image = [doc |-> h.snapshot, pos |-> h.playhead]
    BY <3>5, <3>2, <1>s, <1>3
  <3>6. ASSUME healthy, ~outside, h.ready, h.stale PROVE InHand(h)
    BY <3>6, <3>2, <1>s, <1>2, <3>3 DEF EditorKeeps, StaleIsInHand, InHand
  <3> QED  BY <3>2, <3>4, <3>5, <3>6 DEF GoodPage
 <2> QED  BY <2>1, <2>2, <2>3, <1>h
<1>5. heard' \in [at : Nat, wanted : Nat] /\ heard'.at = heard'.wanted
  BY DEF HandleFrameCompleted, EditorKeeps, EditorTypes, FreshIsShown, SoundFollows
<1>6. reply' = NoReply /\ UNCHANGED <<sessionVars, graph, healthy, outside>>
  BY DEF HandleFrameCompleted
<1> QED  BY <1>h, <1>4, <1>5, <1>6, PageTurned

LEMMA HandleAudioCompletedKeeps ==
    ASSUME EditorKeeps, NEW full, HandleAudioCompleted(full)
    PROVE  EditorKeeps'
<1>t. gui \in Members /\ InLine(gui, Line(gui))  BY DEF EditorKeeps, EditorTypes
<1>a. reply # NoReply /\ gui.current # NoCommand /\ gui.current.op = "audio" /\ reply.op = "audio"
  BY DEF HandleAudioCompleted, EditorKeeps, EngineAnswers
<1>c. PICK c \in Commands : c = gui.current /\ c.op = "audio" /\ ~Loads(c) /\ c.pos \in Nat
  BY <1>t, <1>a DEF Members, Commands, Loads
<1>p. PICK pushed \in BOOLEAN : pushed = (Current /\ ~gui.audioInvalidated /\ reply.ok /\ gui.ticking)
  OBVIOUS
<1>g. PICK g : g = [Answered EXCEPT !.audioInFlight = FALSE, !.audioInvalidated = FALSE,
                                    !.audioPosition = IF pushed THEN c.pos + 1 ELSE @]
  OBVIOUS
<1>1. /\ g \in Members /\ g.current = NoCommand /\ g.queue = gui.queue /\ SamePage(gui, g)
      /\ g.frameInFlight = gui.frameInFlight
 <2>1. c.pos + 1 \in Nat /\ gui.audioPosition \in Nat  BY <1>c, <1>t DEF Members
 <2> QED  BY ZenonT(40), <2>1, <1>g, <1>t DEF Answered, Members, SamePage
<1>f. ~g.audioInFlight  BY <1>g, <1>t, Zenon DEF Answered, Members
<1>2. InLine(g, Line(g)) /\ (InHand(gui) => InHand(g))
 <2>1. /\ g.frameInFlight = (gui.frameInFlight /\ gui.current.op # "frame")
       /\ g.audioInFlight = (gui.audioInFlight /\ gui.current.op # "audio")
   BY <1>1, <1>f, <1>a, <1>t DEF Members
 <2> QED  BY <2>1, <1>1, <1>t, <1>a, <1>c, AnsweredWell
<1>3. GoodPage(g)  BY <1>1, <1>2, <1>a, <1>c, AnsweredGood
<1>4. GoodPage(ScheduleAudioPull(g, full))  BY <1>1, <1>2, <1>3, AudioPulled, FollowsGood
<1>5. gui' = DispatchNext(ScheduleAudioPull(g, full))  BY <1>g, <1>p, <1>c DEF HandleAudioCompleted
<1>6. heard' \in [at : Nat, wanted : Nat] /\ heard'.at = heard'.wanted
  BY <1>p, <1>c, <1>t, <1>a, FirstIsCurrent DEF HandleAudioCompleted, InLine, SoundIsNext,
    EditorKeeps, EditorTypes, FreshIsShown, SoundFollows
<1>7. reply' = NoReply /\ UNCHANGED <<sessionVars, graph, healthy, outside>>
  BY DEF HandleAudioCompleted
<1> QED  BY <1>4, <1>5, <1>6, <1>7, PageTurned

-----------------------------------------------------------------------------
(* The editor: the engine, and what the user does to the page alone *)

LEMMA EngineRunsKeeps ==
    ASSUME EditorKeeps, EngineRuns
    PROVE  EditorKeeps'
<1>t. /\ gui \in Members /\ InLine(gui, Line(gui)) /\ graph \in Docs
      /\ gui.current # NoCommand /\ reply = NoReply
  BY DEF EditorKeeps, EditorTypes, EngineRuns
<1>c. PICK c \in Commands : c = gui.current /\ c.op \in EngineOps /\ c.doc \in Docs
  BY <1>t DEF Members, Commands
<1>u. UNCHANGED <<habit, disk, service, calls, answers, gui, heard, healthy, outside>>
  BY DEF EngineRuns, sessionVars
<1>1. /\ graph' = IF c.op \in {"load", "update"} THEN c.doc ELSE graph
      /\ reply' = [ok |-> TRUE, rev |-> graph'.rev, op |-> c.op]
  BY <1>c DEF EngineRuns
<1>2. graph' \in Docs  BY <1>1, <1>c, <1>t
<1>3. reply' \in Replies /\ reply'.ok /\ reply'.rev = graph'.rev /\ reply'.op = c.op
  BY <1>1, <1>2, <1>c DEF Replies, Docs
<1>4. EditorTypes'  BY <1>u, <1>2, <1>3 DEF EditorKeeps, EditorTypes
<1>5. EngineAnswers'  BY <1>u, <1>1, <1>3, <1>c, <1>t DEF EngineAnswers, Loads
<1>6. ~gui.stale => graph' = graph
  BY <1>t, <1>c, FirstIsCurrent, <1>1 DEF InLine, FreshHasNoLoad, Loads
<1>7. FreshIsShown'
  BY <1>6, <1>u DEF EditorKeeps, FreshIsShown, PictureIsAtPlayhead, SelectionIsShown, SoundFollows
<1>8. OneRequest' /\ PageIsStored'  BY <1>u DEF EditorKeeps, OneRequest, PageIsStored
<1>9. StaleIsInHand'  BY <1>u DEF EditorKeeps, StaleIsInHand
<1> QED  BY <1>t, <1>u, <1>4, <1>5, <1>7, <1>8, <1>9 DEF EditorKeeps

LEMMA EngineFailsKeeps ==
    ASSUME EditorKeeps, EngineFails
    PROVE  EditorKeeps'
<1>t. /\ gui \in Members /\ InLine(gui, Line(gui))
      /\ gui.current # NoCommand /\ reply = NoReply
  BY DEF EditorKeeps, EditorTypes, EngineFails
<1>c. PICK c \in Commands : c = gui.current /\ c.op \in EngineOps  BY <1>t DEF Members, Commands
<1>u. UNCHANGED <<habit, disk, service, calls, answers, gui, graph, heard>>
  BY DEF EngineFails, sessionVars
<1>1. reply' = [ok |-> FALSE, rev |-> 0, op |-> c.op]  BY <1>c DEF EngineFails
<1>2. /\ healthy' = (healthy /\ ~Possible(c))
      /\ outside' = (outside \/ (c.op = "frame" /\ ~Possible(c)))
  BY <1>c DEF EngineFails
<1>3. reply' \in Replies /\ ~reply'.ok /\ reply'.op = c.op  BY <1>1, <1>c DEF Replies
<1>4. EditorTypes'  BY <1>u, <1>2, <1>3 DEF EditorKeeps, EditorTypes
<1>5. EngineAnswers'  BY <1>2, <1>u, <1>1, <1>3, <1>c, <1>t DEF Possible, EngineAnswers
<1>6. (healthy' => healthy) /\ (outside => outside')  BY <1>2
<1>7. FreshIsShown'
  BY <1>u DEF EditorKeeps, FreshIsShown, PictureIsAtPlayhead, SelectionIsShown, SoundFollows
<1>8. OneRequest'  BY <1>u DEF EditorKeeps, OneRequest
<1>9. PageIsStored'  BY <1>u, <1>6, PageStoredStays DEF EditorKeeps
<1>10. StaleIsInHand'  BY <1>u, <1>6 DEF EditorKeeps, StaleIsInHand
<1> QED  BY <1>t, <1>u, <1>4, <1>5, <1>7, <1>8, <1>9, <1>10 DEF EditorKeeps

\* play, pause, seek and the timer add commands.
LEMMA ControlKeeps ==
    ASSUME EditorKeeps, Play \/ Pause \/ \E pos \in 0 .. Length : Seek(pos)
    PROVE  EditorKeeps'
<1>t. gui \in Members /\ InLine(gui, Line(gui))  BY DEF EditorKeeps, EditorTypes
<1>u. UNCHANGED <<sessionVars, engineVars, heard, healthy, outside>>  BY DEF Play, Pause, Seek
<1>1. CASE Play  BY <1>1, <1>t, <1>u, ControlSent, CommandsAdded DEF Play
<1>2. CASE Pause
 <2>1. PICK n : n = [gui EXCEPT !.ticking = FALSE]  OBVIOUS
 <2>2. /\ n \in Members /\ n.queue = gui.queue /\ n.current = gui.current
       /\ SamePage(gui, n) /\ SameFlight(gui, n)
   BY <2>1, <1>t DEF Members, SamePage, SameFlight
 <2>3. FollowsPage(gui, n)  BY <2>2, <1>t, AsideFollows DEF SameFlight
 <2>4. Command(gui, "pause", NoDoc, 0) = Command(n, "pause", NoDoc, 0)
   BY <2>2 DEF Command, SamePage
 <2>5. FollowsPage(n, PushBack(n, Command(n, "pause", NoDoc, 0)))
   BY <2>3, ControlSent DEF FollowsPage
 <2>6. gui' = PushBack(n, Command(n, "pause", NoDoc, 0))  BY <1>2, <2>1, <2>4 DEF Pause
 <2>7. NobodyWaits(n)  BY <2>3 DEF FollowsPage, EditorKeeps
 <2> QED  BY <2>3, <2>5, <2>6, <2>7, <1>u, FollowsTwice, CommandsAdded
<1>3. CASE \E pos \in 0 .. Length : Seek(pos)
 <2>1. PICK pos \in 0 .. Length : gui' = PushBack(gui, Command(gui, "seek", NoDoc, pos))
   BY <1>3 DEF Seek
 <2>2. pos \in Nat  BY EditorAssumption DEF EditorAssumption
 <2> QED  BY <2>1, <2>2, <1>t, <1>u, ControlSent, CommandsAdded
<1> QED  BY <1>1, <1>2, <1>3

LEMMA TickKeeps ==
    ASSUME EditorKeeps, NEW pos \in Nat, NEW full, Tick(pos, full)
    PROVE  EditorKeeps'
<1>t. gui \in Members /\ InLine(gui, Line(gui)) /\ NobodyWaits(gui)  BY DEF EditorKeeps, EditorTypes
<1>u. UNCHANGED <<sessionVars, engineVars, heard, healthy, outside>>  BY DEF Tick
<1>g. PICK g : g = ScheduleAudioPull(gui, full)  OBVIOUS
<1>1. FollowsPage(gui, g)  BY <1>t, <1>g, AudioPulled
<1>2. PICK last : last = g.snapshot.len - 1  OBVIOUS
<1>3. last \in Int /\ g.playhead \in Nat  BY <1>1, <1>2 DEF FollowsPage, Members, Docs
<1>4. ASSUME NEW h, FollowsPage(gui, h)
      PROVE  FollowsPage(gui, PushBack(StopPlaying(h), Command(h, "pause", NoDoc, 0)))
 <2>1. PICK n : n = StopPlaying(h)  OBVIOUS
 <2>2. FollowsPage(h, n)  BY <2>1, <1>4, StopFollows DEF FollowsPage
 <2>3. Command(h, "pause", NoDoc, 0) = Command(n, "pause", NoDoc, 0)
   BY <2>2 DEF Command, FollowsPage, SamePage
 <2>4. FollowsPage(n, PushBack(n, Command(n, "pause", NoDoc, 0)))
   BY <2>2, ControlSent DEF FollowsPage
 <2>5. NobodyWaits(h) /\ NobodyWaits(n)  BY <1>4, <1>t, <2>2 DEF FollowsPage
 <2> QED  BY <1>4, <2>1, <2>2, <2>3, <2>4, <2>5, FollowsTwice
<1>5. ASSUME NEW p \in Nat PROVE FollowsPage(gui, QueueFrame(g, p))
  BY <1>1, FrameQueued, <1>t, FollowsTwice DEF FollowsPage
<1>6. FollowsPage(gui, gui')  BY <1>g, <1>2, <1>3, <1>1, <1>4, <1>5 DEF Tick
<1> QED  BY <1>6, <1>u, CommandsAdded

LEMMA MarkedKeeps ==
    ASSUME EditorKeeps, UNCHANGED <<sessionVars, engineVars, heard, healthy, outside>>,
           NEW s \in Kinds \cup {"none"}, NEW i \in Nat, NEW o \in Nat,
           gui' = [gui EXCEPT !.selected = s, !.rangeIn = i, !.rangeOut = o],
           s # "none" => s \in gui.snapshot.clips,
           i # NoMark /\ o # NoMark => i <= o
    PROVE  EditorKeeps'
<1>t. gui \in Members /\ InLine(gui, Line(gui)) /\ NobodyWaits(gui)  BY DEF EditorKeeps, EditorTypes
<1>u. UNCHANGED <<disk, service, calls, answers, graph, reply, heard, healthy, outside>>
  BY DEF sessionVars, engineVars
<1>1. /\ gui' \in Members /\ gui'.queue = gui.queue /\ gui'.current = gui.current
      /\ SameFlight(gui, gui')
      /\ gui'.sessionGeneration = gui.sessionGeneration /\ gui'.generation = gui.generation
      /\ gui'.active = gui.active /\ gui'.ready = gui.ready /\ gui'.sessionBusy = gui.sessionBusy
      /\ gui'.derived = gui.derived /\ gui'.snapshot = gui.snapshot /\ gui'.stale = gui.stale
      /\ gui'.playhead = gui.playhead /\ gui'.image = gui.image
      /\ gui'.selected = s /\ gui'.rangeIn = i /\ gui'.rangeOut = o
  BY <1>t DEF Members, SameFlight
<1>2. Line(gui') = Line(gui)  BY <1>1 DEF Line
<1>3. InLine(gui', Line(gui'))
  BY <1>t, <1>1, <1>2 DEF InLine, LastLoadCounts, EditWaits, SoundIsNext, SameFlight, FreshHasNoLoad
<1>4. EditorTypes' /\ EngineAnswers' /\ NobodyWaits(gui')
  BY <1>t, <1>u, <1>1 DEF EditorKeeps, EditorTypes, EngineAnswers, NobodyWaits
<1>5. OneRequest'  BY <1>u, <1>1, RequestsStay DEF EditorKeeps
<1>6. PageIsStored'  BY <1>u, <1>1, PageStoredStays DEF EditorKeeps
<1>7. StaleIsInHand'  BY <1>u, <1>1, <1>2 DEF EditorKeeps, StaleIsInHand, InHand
<1>8. FreshIsShown'
  BY <1>u, <1>1 DEF EditorKeeps, FreshIsShown, PictureIsAtPlayhead, SameFlight, SelectionIsShown,
    SoundFollows
<1> QED  BY <1>3, <1>4, <1>5, <1>6, <1>7, <1>8 DEF EditorKeeps

LEMMA PageActionsKeep ==
    ASSUME EditorKeeps,
           (\E kind \in {"video", "title", "caption"} : SelectClip(kind)) \/ MarkRangeIn \/ MarkRangeOut
    PROVE  EditorKeeps'
<1>t. /\ gui \in Members /\ gui.selected \in Kinds \cup {"none"} /\ gui.rangeIn \in Nat
      /\ gui.rangeOut \in Nat /\ gui.playhead \in Nat /\ NoMark \in Nat
  BY EditorAssumption DEF EditorAssumption, EditorKeeps, EditorTypes, Members, NoMark
<1>s. SelectionIsShown  BY DEF EditorKeeps, FreshIsShown
<1>u. UNCHANGED <<sessionVars, engineVars, heard, healthy, outside>>
  BY DEF SelectClip, MarkRangeIn, MarkRangeOut
<1>e. \A s, i, o : [gui EXCEPT !.selected = s, !.rangeIn = i, !.rangeOut = o]
                       = [[[gui EXCEPT !.selected = s] EXCEPT !.rangeIn = i] EXCEPT !.rangeOut = o]
  OBVIOUS
<1>1. ASSUME NEW kind \in {"video", "title", "caption"}, SelectClip(kind) PROVE EditorKeeps'
 <2>1. gui' = [gui EXCEPT !.selected = kind, !.rangeIn = gui.rangeIn, !.rangeOut = gui.rangeOut]
   BY <1>1, <1>t DEF SelectClip, Members
 <2> QED  BY <2>1, <1>1, <1>t, <1>s, <1>u, MarkedKeeps DEF SelectClip, Kinds, SelectionIsShown
<1>2. CASE MarkRangeIn
 <2>1. CASE gui.rangeOut = NoMark \/ gui.playhead <= gui.rangeOut
  <3>1. gui' = [gui EXCEPT !.selected = gui.selected, !.rangeIn = gui.playhead, !.rangeOut = gui.rangeOut]
    BY <1>2, <2>1, <1>t DEF MarkRangeIn, Members
  <3> QED  BY <3>1, <2>1, <1>t, <1>s, <1>u, MarkedKeeps DEF SelectionIsShown
 <2>2. CASE ~(gui.rangeOut = NoMark \/ gui.playhead <= gui.rangeOut) /\ HasMarkedRange(gui)
  <3>1. gui' = [gui EXCEPT !.selected = gui.selected, !.rangeIn = gui.playhead, !.rangeOut = NoMark]
    BY <1>2, <2>2, <1>t DEF MarkRangeIn, Members
  <3> QED  BY <3>1, <1>t, <1>s, <1>u, MarkedKeeps DEF SelectionIsShown
 <2>3. CASE ~(gui.rangeOut = NoMark \/ gui.playhead <= gui.rangeOut) /\ ~HasMarkedRange(gui)
  <3>1. gui' = [gui EXCEPT !.selected = gui.selected, !.rangeIn = gui.rangeOut, !.rangeOut = gui.playhead]
    BY <1>2, <2>3, <1>t DEF MarkRangeIn, Members
  <3> QED
   <4>1. gui.rangeOut <= gui.playhead  BY <2>3, <1>t
   <4> QED  BY <3>1, <4>1, <1>t, <1>s, <1>u, MarkedKeeps DEF SelectionIsShown
 <2> QED  BY <2>1, <2>2, <2>3
<1>3. CASE MarkRangeOut
 <2>1. CASE gui.rangeIn = NoMark \/ gui.playhead >= gui.rangeIn
  <3>1. gui' = [gui EXCEPT !.selected = gui.selected, !.rangeIn = gui.rangeIn, !.rangeOut = gui.playhead]
    BY <1>3, <2>1, <1>t DEF MarkRangeOut, Members
  <3> QED  BY <3>1, <2>1, <1>t, <1>s, <1>u, MarkedKeeps DEF SelectionIsShown
 <2>2. CASE ~(gui.rangeIn = NoMark \/ gui.playhead >= gui.rangeIn)
  <3>1. gui' = [gui EXCEPT !.selected = gui.selected, !.rangeIn = gui.playhead, !.rangeOut = gui.rangeIn]
    BY <1>3, <2>2, <1>t DEF MarkRangeOut, Members
  <3> QED
   <4>1. gui.playhead <= gui.rangeIn  BY <2>2, <1>t
   <4> QED  BY <3>1, <4>1, <1>t, <1>s, <1>u, MarkedKeeps DEF SelectionIsShown
 <2> QED  BY <2>1, <2>2
<1> QED  BY <1>1, <1>2, <1>3

-----------------------------------------------------------------------------
(* The editor: requests to the session worker *)

LEMMA OpenProjectKeeps ==
    ASSUME EditorKeeps, NEW p \in Projects, OpenProject(p)
    PROVE  EditorKeeps'
<1>t. gui \in Members /\ InLine(gui, Line(gui)) /\ NobodyWaits(gui) /\ calls \in Seq(Calls)
  BY DEF EditorKeeps, EditorTypes
<1>m. NoMark \in Nat /\ NoImage \in Images
  BY EditorAssumption DEF EditorAssumption, NoMark, NoImage, Images, NoDoc, Docs
<1>u. UNCHANGED <<disk, service, answers, graph, reply, heard, healthy, outside>>
  BY DEF OpenProject, engineVars
<1>g. PICK g : g = StopPlaying(gui)  OBVIOUS
<1>h. g \in Members /\ SamePage(gui, g) /\ SameFlight(gui, g) /\ g.queue = gui.queue /\ g.current = gui.current
  BY <1>t, <1>g, StopFollows DEF FollowsPage
<1>1. gui' = [g EXCEPT !.sessionGeneration = @ + 1, !.generation = @ + 1,
                  !.active = FALSE, !.ready = FALSE, !.derived = FALSE,
                  !.selected = "none", !.rangeIn = NoMark, !.rangeOut = NoMark,
                  !.image = NoImage, !.stale = TRUE, !.sessionBusy = TRUE]
  BY <1>g DEF OpenProject
<1>2. /\ gui' \in Members /\ gui'.queue = gui.queue /\ gui'.current = gui.current
      /\ SameFlight(gui, gui')
      /\ gui'.sessionGeneration = gui.sessionGeneration + 1 /\ gui'.generation = gui.generation + 1
      /\ gui'.snapshot = gui.snapshot
      /\ gui'.selected = "none" /\ gui'.rangeIn = NoMark /\ gui'.rangeOut = NoMark
 <2>1. /\ g.sessionGeneration + 1 \in Nat /\ g.generation + 1 \in Nat
       /\ g.sessionGeneration = gui.sessionGeneration /\ g.generation = gui.generation
       /\ g.snapshot = gui.snapshot
   BY <1>h DEF Members, SamePage
 <2>2. gui' \in Members  BY ZenonT(40), <1>1, <1>h, <1>m, <2>1 DEF Members
 <2>3. /\ gui'.queue = g.queue /\ gui'.current = g.current /\ SameFlight(g, gui')
       /\ gui'.sessionGeneration = g.sessionGeneration + 1 /\ gui'.generation = g.generation + 1
       /\ gui'.snapshot = g.snapshot
       /\ gui'.selected = "none" /\ gui'.rangeIn = NoMark /\ gui'.rangeOut = NoMark
   BY <1>1, <1>h DEF Members, SameFlight
 <2> QED  BY <1>h, <2>1, <2>2, <2>3 DEF SameFlight
<1>3. ~gui'.active /\ ~gui'.ready /\ ~gui'.derived /\ gui'.stale /\ gui'.sessionBusy
  BY <1>1, <1>h, Zenon DEF Members
<1>4. Line(gui') = Line(gui) /\ Line(gui) \in Seq(Commands)  BY <1>t, <1>2, LineIs DEF Line
<1>5. InLine(gui', Line(gui'))
 <2>1. gui.generation \in Nat /\ \A i \in DOMAIN Line(gui) : Line(gui)[i].gen \in Nat
  <3>1. \A i \in DOMAIN Line(gui) : Line(gui)[i] \in Commands  BY <1>4, Elements
  <3> QED  BY <3>1, <1>t DEF Members, Commands
 <2>2. LastLoadCounts(gui', Line(gui))  BY <1>t, <2>1, <1>2 DEF InLine, LastLoadCounts
 <2>3. FreshHasNoLoad(gui', Line(gui)) /\ EditWaits(gui', Line(gui))
   BY <1>3 DEF FreshHasNoLoad, EditWaits
 <2>4. SoundIsNext(gui', Line(gui))  BY <1>t, <1>2, Zenon DEF InLine, SoundIsNext, SameFlight
 <2>5. /\ OneOfAKind(Line(gui), "frame", gui'.frameInFlight)
       /\ OneOfAKind(Line(gui), "audio", gui'.audioInFlight)
   BY <1>t, <1>2 DEF InLine, SameFlight
 <2> QED  BY <1>4, <2>2, <2>3, <2>4, <2>5 DEF InLine
<1>c. PICK m : m = [op |-> "open", gen |-> gui.sessionGeneration + 1, project |-> p, pos |-> 0]
  OBVIOUS
<1>6. calls' = Append(calls, m) /\ m \in Calls /\ m.op = "open" /\ m.gen = gui'.sessionGeneration /\ m.project \in Projects
  BY <1>c, <1>t, <1>2 DEF OpenProject, Calls, SessionOps, Members
<1>7. /\ DOMAIN calls' = 1 .. Len(calls) + 1 /\ Len(calls') = Len(calls) + 1 /\ Len(calls) \in Nat
      /\ DOMAIN calls = 1 .. Len(calls) /\ calls'[Len(calls) + 1] = m
      /\ \A i \in DOMAIN calls : calls'[i] = calls[i]
      /\ calls' \in Seq(Calls)
  BY <1>6, <1>t
<1>8. EditorTypes' /\ NobodyWaits(gui') /\ EngineAnswers'
  BY <1>t, <1>u, <1>2, <1>7 DEF EditorKeeps, EditorTypes, NobodyWaits, EngineAnswers
<1>b. (\A i \in DOMAIN calls : calls[i] \in Calls) /\ \A i \in DOMAIN answers : answers[i] \in Answers
  BY Elements DEF EditorKeeps, EditorTypes
<1>9. /\ \A i \in DOMAIN calls : calls[i].gen < gui'.sessionGeneration /\ ~Ours(gui', calls[i])
                                 /\ (calls[i].op = "open" => calls[i].project \in Projects)
      /\ \A i \in DOMAIN answers : answers[i].gen < gui'.sessionGeneration /\ ~Ours(gui', answers[i])
 <2>1. \A i \in DOMAIN calls : calls[i].gen \in Nat /\ calls[i].gen <= gui.sessionGeneration
                               /\ (calls[i].op = "open" => calls[i].project \in Projects)
   BY <1>b DEF EditorKeeps, OneRequest, Fits, Calls
 <2>2. \A i \in DOMAIN answers : answers[i].gen \in Nat /\ answers[i].gen <= gui.sessionGeneration
   BY <1>b DEF EditorKeeps, OneRequest, Fits, Answers
 <2>3. gui.sessionGeneration \in Nat  BY <1>t DEF Members
 <2> QED  BY <2>1, <2>2, <2>3, <1>2 DEF Ours
<1>10. OneRequest'
 <2>1. \A i \in DOMAIN calls' : Fits(gui', calls'[i]) /\ (calls'[i].op = "open" => calls'[i].project \in Projects)
  <3>1. Fits(gui', m)  BY <1>3, <1>6, <1>2 DEF Fits, Members
  <3>2. ASSUME NEW i \in DOMAIN calls PROVE Fits(gui', calls[i])
    BY <1>9, <1>b, <1>2 DEF Calls, Fits, Members
  <3>3. ASSUME NEW i \in DOMAIN calls'
        PROVE  Fits(gui', calls'[i]) /\ (calls'[i].op = "open" => calls'[i].project \in Projects)
    BY <1>7, <3>1, <3>2, <1>6, <1>9
  <3> QED  BY <3>3
 <2>2. \A i \in DOMAIN answers : Fits(gui', answers[i])
  <3>1. ASSUME NEW i \in DOMAIN answers PROVE Fits(gui', answers[i])
    BY <1>9, <1>b, <1>2 DEF Answers, Fits, Members
  <3> QED  BY <3>1
 <2>3. \A i \in DOMAIN calls' : Ours(gui', calls'[i]) <=> i = Len(calls) + 1
  <3>1. ASSUME NEW i \in DOMAIN calls' PROVE Ours(gui', calls'[i]) <=> i = Len(calls) + 1
    BY <1>7, <1>6, <1>9 DEF Ours
  <3> QED  BY <3>1
 <2>4. Len(calls) + 1 \in DOMAIN calls'  BY <1>7
 <2> QED  BY <2>1, <2>2, <2>3, <2>4, <1>u, <1>3, <1>6, <1>7, <1>9 DEF OneRequest
<1>11. PageIsStored'  BY <1>3, <1>9, <1>u DEF EditorKeeps, PageIsStored
<1>12. StaleIsInHand' /\ FreshIsShown'
  BY <1>2, <1>3, <1>u DEF EditorKeeps, StaleIsInHand, FreshIsShown, PictureIsAtPlayhead, SelectionIsShown, SoundFollows
<1> QED  BY <1>5, <1>8, <1>10, <1>11, <1>12 DEF EditorKeeps

\* No command on the way is a load, an update or a control while the page is not busy.
LEMMA NotBusy ==
    ASSUME NEW g \in Members, ~Busy(g)
    PROVE  \A i \in DOMAIN Line(g) : ~Loads(Line(g)[i])
<1>1. g.queue \in Seq(Commands)  BY DEF Members
<1>2. \A c \in Range(g.queue) \cup {g.current} : ~Loads(c)
  BY DEF Busy, Pending, Loads, CountsAsBusy
<1>3. \A i \in DOMAIN g.queue : ~Loads(g.queue[i])  BY <1>2 DEF Range
<1>4. CASE g.current = NoCommand  BY <1>3, <1>4, LineIs
<1>5. CASE g.current # NoCommand
 <2>1. /\ Line(g) \in Seq(Commands) /\ Len(Line(g)) = Len(g.queue) + 1 /\ Line(g)[1] = g.current
       /\ \A i \in 1 .. Len(Line(g)) : i = 1 \/ Line(g)[i] = g.queue[i - 1]
   BY <1>5, LineIs
 <2>2. ASSUME NEW i \in DOMAIN Line(g), i # 1 PROVE ~Loads(Line(g)[i])  BY <1>1, <2>1, <2>2, <1>3
 <2> QED  BY <2>1, <2>2, <1>2
<1> QED  BY <1>4, <1>5

LEMMA SessionEditKeeps ==
    ASSUME EditorKeeps, NEW op \in SessionOps \ {"open"}, QueueSessionEdit(op)
    PROVE  EditorKeeps'
<1>t. gui \in Members /\ InLine(gui, Line(gui)) /\ NobodyWaits(gui) /\ calls \in Seq(Calls)
  BY DEF EditorKeeps, EditorTypes
<1>r. ~Busy(gui) /\ ~gui.sessionBusy /\ gui.ready  BY DEF QueueSessionEdit, EditingReady
<1>u. UNCHANGED <<disk, service, answers, graph, reply, heard, healthy, outside>>
  BY DEF QueueSessionEdit, engineVars
<1>g. PICK g : g = IF gui.playing
                   THEN PushBack(StopPlaying(gui), Command(gui, "pause", NoDoc, 0)) ELSE gui
  OBVIOUS
<1>1. gui' = [g EXCEPT !.active = TRUE, !.sessionBusy = TRUE]  BY <1>g DEF QueueSessionEdit
<1>2. FollowsPage(gui, g) /\ \A i \in DOMAIN Line(g) : ~Loads(Line(g)[i])
 <2>1. \A i \in DOMAIN Line(gui) : ~Loads(Line(gui)[i])  BY <1>t, <1>r, NotBusy
 <2>2. CASE ~gui.playing  BY <1>t, AsideFollows, <2>1, <2>2, <1>g DEF SamePage
 <2>3. CASE gui.playing
  <3>1. PICK n : n = StopPlaying(gui)  OBVIOUS
  <3>2. FollowsPage(gui, n) /\ n.queue = gui.queue /\ n.current = gui.current /\ n \in Members
    BY <3>1, <1>t, StopFollows DEF FollowsPage
  <3>3. Command(gui, "pause", NoDoc, 0) = Command(n, "pause", NoDoc, 0)
    BY <3>2 DEF Command, FollowsPage, SamePage
  <3>4. PICK c \in Commands : c = Command(n, "pause", NoDoc, 0) /\ c.op = "pause"
    BY <3>2, CommandTyped DEF EngineOps, CountsAsBusy, Docs, NoDoc
  <3>5. g = PushBack(n, c)  BY <2>3, <1>g, <3>1, <3>3, <3>4
  <3>6. FollowsPage(n, g)  BY <3>2, <3>4, <3>5, ControlSent DEF FollowsPage
  <3>7. Line(n) = Line(gui)  BY <3>2 DEF Line
  <3>8. Line(n) \in Seq(Commands) /\ Line(g) \in Seq(Commands) /\ Inserted(Line(n), Len(Line(n)), c, Line(g))
    BY <3>2, <3>5, PushedBack, LineIs
  <3>9. \A i \in DOMAIN Line(g) : Line(g)[i] = c \/ \E j \in DOMAIN Line(n) : Line(g)[i] = Line(n)[j]
    BY <3>8, InsertedIs
  <3>10. NobodyWaits(n)  BY <3>2, <1>t DEF FollowsPage
  <3>11. FollowsPage(gui, g)  BY <3>2, <3>6, <3>10, FollowsTwice
  <3> QED  BY <3>11, <3>9, <3>7, <3>4, <2>1 DEF Loads
 <2> QED  BY <2>2, <2>3
<1>h. g \in Members /\ SamePage(gui, g) /\ InLine(g, Line(g)) /\ NobodyWaits(g)
  BY <1>2, <1>t DEF FollowsPage
<1>3. /\ gui' \in Members /\ gui'.queue = g.queue /\ gui'.current = g.current /\ SameFlight(g, gui')
      /\ gui'.generation = g.generation /\ gui'.derived = g.derived /\ gui'.snapshot = g.snapshot
      /\ gui'.stale = g.stale
  BY <1>1, <1>h DEF Members, SameFlight
<1>4. gui'.active /\ gui'.sessionBusy  BY <1>1, <1>h, Zenon DEF Members
<1>5. Line(gui') = Line(g)  BY <1>3 DEF Line
<1>6. InLine(gui', Line(gui'))
  BY <1>2, <1>h, <1>3, <1>5 DEF InLine, LastLoadCounts, EditWaits, SoundIsNext, SameFlight,
    FreshHasNoLoad
<1>s. /\ gui'.sessionGeneration = gui.sessionGeneration /\ gui'.ready = gui.ready
      /\ gui'.snapshot = gui.snapshot /\ gui'.derived = gui.derived /\ gui'.generation = gui.generation
      /\ gui'.stale = gui.stale /\ gui'.playhead = gui.playhead /\ gui'.image = gui.image
      /\ gui'.selected = gui.selected /\ gui'.rangeIn = gui.rangeIn /\ gui'.rangeOut = gui.rangeOut
      /\ gui.current # NoCommand => gui'.current = gui.current
  BY <1>1, <1>2, <1>h, <1>3 DEF Members, SamePage, FollowsPage
<1>c. PICK m : m = [op |-> op, gen |-> gui.sessionGeneration, project |-> 0, pos |-> gui.playhead]
  OBVIOUS
<1>7. /\ calls' = Append(calls, m) /\ m \in Calls /\ m.op # "open" /\ m.gen = gui.sessionGeneration
  BY <1>c, <1>t DEF QueueSessionEdit, Calls, Members
<1>8. calls = <<>> /\ \A i \in DOMAIN answers : ~Ours(gui, answers[i])
 <2>1. \A i \in DOMAIN answers : ~Ours(gui, answers[i])  BY <1>r DEF EditorKeeps, OneRequest, Fits
 <2>2. ASSUME calls # <<>> PROVE FALSE  BY <2>2, <1>t, <1>r DEF EditorKeeps, OneRequest, Fits
 <2> QED  BY <2>1, <2>2
<1>9. calls' \in Seq(Calls) /\ Len(calls') = 1 /\ DOMAIN calls' = {1} /\ calls'[1] = m /\ calls' # <<>>
  BY <1>7, <1>8, <1>t
<1>10. EditorTypes' /\ EngineAnswers' /\ NobodyWaits(gui')
  BY <1>3, <1>h, <1>u, <1>s, <1>9 DEF NobodyWaits, EditorKeeps, EditorTypes, EngineAnswers
<1>11. OneRequest'
  BY <1>s, <1>4, <1>7, <1>r, <1>t, <1>8, <1>u, <1>9 DEF Ours, Fits, Members, EditorKeeps, OneRequest
<1>12. PageIsStored'  BY <1>s, <1>u, PageStoredStays DEF EditorKeeps
<1>13. StaleIsInHand'
 <2>1. SUFFICES ASSUME healthy, ~outside, gui'.ready, gui'.stale PROVE InHand(gui')
   BY <1>u DEF StaleIsInHand
 <2>2. gui.stale /\ gui.ready  BY <2>1, <1>s, Zenon
 <2>3. InHand(g)  BY <2>1, <2>2, <1>2 DEF EditorKeeps, StaleIsInHand, FollowsPage
 <2> QED  BY <2>3, <1>3, <1>5 DEF InHand
<1>14. FreshIsShown'
  BY <1>2, <1>3, <1>s, <1>u DEF FollowsPage, SameFlight, EditorKeeps, FreshIsShown,
    PictureIsAtPlayhead, SelectionIsShown, SoundFollows
<1> QED  BY <1>6, <1>10, <1>11, <1>12, <1>13, <1>14 DEF EditorKeeps

LEMMA EditsKeep ==
    ASSUME EditorKeeps,
           \/ CutSelected \/ DeleteMarkedRange \/ ApplyVisual \/ ApplyAudio \/ UndoRedo \/ Save
           \/ \E op \in {"addTitle", "editTitle", "removeTitle"} : Title(op)
           \/ \E op \in {"addCaption", "editCue", "removeCue"} : Caption(op)
    PROVE  EditorKeeps'
  BY SessionEditKeeps DEF CutSelected, DeleteMarkedRange, ApplyVisual, ApplyAudio, UndoRedo, Save,
    Title, Caption, SessionOps

-----------------------------------------------------------------------------
(* The editor: the session worker *)

\* A call is answered.
LEMMA MessageMoves ==
    ASSUME OneRequest, calls \in Seq(Calls), answers \in Seq(Answers), calls # <<>>,
           NEW m, calls' = Tail(calls), answers' = Append(answers, m), gui' = gui,
           m.op = Head(calls).op, m.gen = Head(calls).gen
    PROVE  /\ OneRequest'
           /\ DOMAIN answers' = DOMAIN answers \cup {Len(answers) + 1}
           /\ answers'[Len(answers) + 1] = m
           /\ \A i \in DOMAIN answers : answers'[i] = answers[i] /\ i # Len(answers) + 1
           /\ \A i \in DOMAIN answers : Ours(gui, answers[i]) => FALSE
           /\ ~Ours(gui, m) => ~gui.ready
           /\ m.op = "open" /\ Ours(gui, m) => ~gui.ready
           /\ m.op # "open" /\ gui.ready => Ours(gui, m)
<1>1. /\ DOMAIN answers' = DOMAIN answers \cup {Len(answers) + 1}
      /\ answers'[Len(answers) + 1] = m
      /\ \A i \in DOMAIN answers : answers'[i] = answers[i] /\ i # Len(answers) + 1
  BY DEF Answers
<1>2. /\ 1 \in DOMAIN calls /\ Head(calls) = calls[1] /\ Len(calls) \in DOMAIN calls /\ Len(calls) \in Nat
      /\ DOMAIN calls' = 1 .. Len(calls) - 1 /\ Len(calls') = Len(calls) - 1
      /\ DOMAIN calls = 1 .. Len(calls)
      /\ \A i \in DOMAIN calls' : calls'[i] = calls[i + 1] /\ i + 1 \in DOMAIN calls /\ i + 1 # 1
  OBVIOUS
<1>3. Ours(gui, calls[Len(calls)]) /\ (calls[Len(calls)].op = "open" \/ Len(calls) = 1)
  BY DEF OneRequest
<1>4. \A i \in DOMAIN answers : ~Ours(gui, answers[i])  BY <1>2, <1>3 DEF OneRequest
<1>5. Fits(gui, m) /\ (Ours(gui, m) <=> Ours(gui, calls[1])) /\ (Ours(gui, m) => Len(calls) = 1)
  BY <1>2, <1>3 DEF OneRequest, Fits, Ours
<1>6. ~Ours(gui, m) => ~gui.ready
 <2>1. SUFFICES ASSUME ~Ours(gui, m) PROVE ~gui.ready  OBVIOUS
 <2>2. Len(calls) # 1  BY <2>1, <1>3, <1>5
 <2> QED  BY <2>2, <1>2, <1>3 DEF OneRequest, Fits
<1>7. OneRequest'
 <2>1. \A i \in DOMAIN calls' : Fits(gui, calls'[i]) /\ (calls'[i].op = "open" => calls'[i].project \in Projects)
   BY <1>2 DEF OneRequest
 <2>2. \A i \in DOMAIN answers' : Fits(gui, answers'[i])  BY <1>1, <1>5 DEF OneRequest
 <2>3. \A i, j \in DOMAIN calls' : Ours(gui, calls'[i]) /\ Ours(gui, calls'[j]) => i = j
  <3>1. ASSUME NEW i \in DOMAIN calls', NEW j \in DOMAIN calls', Ours(gui, calls'[i]), Ours(gui, calls'[j])
        PROVE  i = j
    BY <3>1, <1>2 DEF OneRequest
  <3> QED  BY <3>1
 <2>4. \A i, j \in DOMAIN answers' : Ours(gui, answers'[i]) /\ Ours(gui, answers'[j]) => i = j
   BY <1>1, <1>4
 <2>5. \A i \in DOMAIN calls', j \in DOMAIN answers' : ~(Ours(gui, calls'[i]) /\ Ours(gui, answers'[j]))
  <3>1. ASSUME Ours(gui, m) PROVE DOMAIN calls' = {}  BY <3>1, <1>5, <1>2
  <3> QED  BY <3>1, <1>1, <1>4
 <2>6. calls' # <<>> =>
           Ours(gui, calls'[Len(calls')]) /\ (calls'[Len(calls')].op = "open" \/ Len(calls') = 1)
  <3>1. SUFFICES ASSUME calls' # <<>>
                 PROVE  Ours(gui, calls'[Len(calls')]) /\ calls'[Len(calls')].op = "open"
    OBVIOUS
  <3>2. calls' \in Seq(Calls)  OBVIOUS
  <3>3. Len(calls') \in DOMAIN calls' /\ Len(calls') + 1 = Len(calls) /\ Len(calls) # 1
    BY <3>1, <3>2, <1>2
  <3> QED  BY <3>3, <1>2, <1>3
 <2>7. gui.sessionBusy =>
           (\E i \in DOMAIN calls' : Ours(gui, calls'[i])) \/ \E i \in DOMAIN answers' : Ours(gui, answers'[i])
  <3>1. CASE Len(calls) = 1  BY <3>1, <1>1, <1>3, <1>5
  <3>2. CASE Len(calls) # 1
   <4>1. Len(calls) - 1 \in DOMAIN calls' /\ (Len(calls) - 1) + 1 = Len(calls)  BY <3>2, <1>2
   <4> QED  BY <4>1, <1>2, <1>3
  <3> QED  BY <3>1, <3>2
 <2> QED  BY <2>1, <2>2, <2>3, <2>4, <2>5, <2>6, <2>7 DEF OneRequest
<1>8. m.op = "open" /\ Ours(gui, m) => ~gui.ready  BY <1>5 DEF Fits
<1> QED  BY <1>1, <1>4, <1>6, <1>7, <1>8

LEMMA AfterTyped ==
    ASSUME NEW d \in Timelines, NEW call \in Calls, NEW doc \in After(d, call)
    PROVE  doc \in Timelines /\ [doc EXCEPT !.rev = @ + 1] \in Timelines
<1>1. \A n \in Nat : 1 .. n \subseteq Nat  OBVIOUS
<1>2. d.len \in Nat /\ d.clips \in SUBSET Kinds /\ call.pos \in Nat /\ d.len - 1 \in Int /\ Length \in Nat
  BY EditorAssumption DEF EditorAssumption, Timelines, Calls
<1>3. doc \in Timelines
 <2>1. \A n \in Nat : [d EXCEPT !.len = n] \in Timelines  BY DEF Timelines
 <2>2. \A c \in SUBSET Kinds : [d EXCEPT !.clips = c] \in Timelines  BY DEF Timelines
 <2>3. \A n \in Nat, c \in SUBSET Kinds : [d EXCEPT !.len = n, !.clips = c] \in Timelines
   BY DEF Timelines
 <2>4. CASE call.op = "trim"  BY <2>1, <2>4, <1>2 DEF After
 <2>5. CASE call.op = "delete"  BY <2>5, <1>1, <1>2 DEF After, Like, Timelines
 <2>6. CASE call.op \in {"addTitle", "removeTitle", "addCaption", "removeCue"}
   BY <1>2, <2>6, <2>2 DEF Kinds, After
 <2>7. CASE call.op = "undo"  BY <2>7, <1>1, <1>2 DEF Kinds, After, Like, Timelines
 <2>8. CASE call.op \in {"open", "apply", "editTitle", "editCue", "save"}  BY <2>8 DEF After
 <2> QED  BY <2>4, <2>5, <2>6, <2>7, <2>8 DEF Calls, SessionOps
<1>4. doc.rev + 1 \in Nat  BY <1>3 DEF Timelines
<1> QED  BY <1>3, <1>4 DEF Timelines

\* What the worker does leaves the page and the engine alone.
LEMMA WorkerAlone ==
    ASSUME EditorKeeps, gui' = gui, UNCHANGED <<graph, reply, heard, outside>>, healthy' => healthy
    PROVE  /\ InLine(gui', Line(gui')) /\ NobodyWaits(gui') /\ EngineAnswers' /\ StaleIsInHand'
           /\ FreshIsShown' /\ gui' \in Members /\ reply' \in Replies \cup {NoReply} /\ graph' \in Docs
           /\ outside' \in BOOLEAN /\ heard' \in [at : Nat, wanted : Nat]
  BY DEF EditorKeeps, EngineAnswers, StaleIsInHand, FreshIsShown, PictureIsAtPlayhead,
    SelectionIsShown, SoundFollows, EditorTypes

\* One more answer is true to the disk.
LEMMA AnswerStored ==
    ASSUME EditorKeeps, gui' = gui, healthy' => healthy, NEW m, NEW ok \in BOOLEAN,
           DOMAIN answers' = DOMAIN answers \cup {Len(answers) + 1},
           answers'[Len(answers) + 1] = m, m.ok = ok,
           \A i \in DOMAIN answers : answers'[i] = answers[i],
           \A i \in DOMAIN answers : ~Ours(gui, answers[i]),
           m.derived => ~healthy',
           Ours(gui, m) /\ ok => /\ service' \in Projects /\ m.doc = disk'[service']
                                 /\ m.op # "open" /\ ~m.change => m.doc = gui.snapshot,
           gui.ready => /\ service' \in Projects
                        /\ ~(Ours(gui, m) /\ ok) => disk'[service'] = disk[service]
    PROVE  PageIsStored'
<1>1. gui.ready => /\ service' \in Projects
                   /\ (\A i \in DOMAIN answers' : ~(Ours(gui, answers'[i]) /\ answers'[i].ok))
                          => gui.snapshot = disk'[service']
 <2>1. SUFFICES ASSUME gui.ready, \A i \in DOMAIN answers' : ~(Ours(gui, answers'[i]) /\ answers'[i].ok)
                PROVE  gui.snapshot = disk'[service']
   OBVIOUS
 <2>2. ~(Ours(gui, m) /\ ok)  BY <2>1
 <2>3. gui.snapshot = disk[service]  BY <2>1 DEF EditorKeeps, PageIsStored
 <2> QED  BY <2>1, <2>2, <2>3
<1>2. \A i \in DOMAIN answers' :
          /\ Ours(gui, answers'[i]) /\ answers'[i].ok =>
                /\ service' \in Projects /\ answers'[i].doc = disk'[service']
                /\ answers'[i].op # "open" /\ ~answers'[i].change => answers'[i].doc = gui.snapshot
          /\ answers'[i].derived => ~healthy'
  BY DEF EditorKeeps, PageIsStored
<1>3. gui.derived => ~healthy'  BY DEF EditorKeeps, PageIsStored
<1> QED  BY <1>1, <1>2, <1>3 DEF PageIsStored

LEMMA SessionWorkerKeeps ==
    ASSUME EditorKeeps, SessionWorker
    PROVE  EditorKeeps'
<1>t. /\ calls \in Seq(Calls) /\ answers \in Seq(Answers) /\ disk \in [Projects -> Timelines]
      /\ service \in Projects \cup {0} /\ healthy \in BOOLEAN
  BY DEF EditorKeeps, EditorTypes
<1>u. calls # <<>> /\ calls' = Tail(calls) /\ gui' = gui /\ UNCHANGED <<graph, reply, heard, outside>>
  BY DEF SessionWorker, SessionOpens, SessionRefuses, SessionSaves, SessionEdits, engineVars
<1>c. PICK call \in Calls : call = Head(calls)  BY <1>t, <1>u
<1>f. /\ call.gen \in Nat /\ call.op \in SessionOps /\ call.pos \in Nat
      /\ call.op = "open" => call.project \in Projects
  BY <1>t, <1>u, <1>c DEF Calls, EditorKeeps, OneRequest
<1>d. \A p \in Projects : disk[p] \in Timelines /\ disk[p] \in Docs  BY <1>t DEF Timelines, Docs
<1>n. NoDoc \in Docs  BY DEF NoDoc, Docs
\* With an answer m, true to the disk, the step is done.
<1>m. ASSUME NEW ok \in BOOLEAN, NEW doc \in Docs, NEW derived \in BOOLEAN, NEW change \in BOOLEAN,
             Answer(call, ok, doc, derived, change),
             disk' \in [Projects -> Timelines], service' \in Projects \cup {0}, healthy' \in BOOLEAN,
             healthy' => healthy, derived => ~healthy',
             Ours(gui, call) /\ ok => /\ service' \in Projects /\ doc = disk'[service']
                                      /\ call.op # "open" /\ ~change /\ gui.ready => doc = disk[service],
             gui.ready /\ call.op # "open" =>
                 service' = service /\ (~ok => disk'[service'] = disk[service])
      PROVE  EditorKeeps'
 <2>1. PICK m : m = [op |-> call.op, gen |-> call.gen, ok |-> ok, doc |-> doc,
                     derived |-> derived, change |-> change]
   OBVIOUS
 <2>2. /\ m \in Answers /\ m.op = call.op /\ m.gen = call.gen /\ m.doc = doc /\ answers' = Append(answers, m)
       /\ m.ok = ok
   BY <2>1, <1>m, <1>f DEF Answers, Answer
 <2>3. m.derived = derived /\ m.change = change  BY <2>1
 <2>4. /\ OneRequest'
       /\ DOMAIN answers' = DOMAIN answers \cup {Len(answers) + 1}
       /\ answers'[Len(answers) + 1] = m
       /\ \A i \in DOMAIN answers : answers'[i] = answers[i] /\ i # Len(answers) + 1
       /\ \A i \in DOMAIN answers : ~Ours(gui, answers[i])
       /\ ~Ours(gui, m) => ~gui.ready
       /\ m.op = "open" /\ Ours(gui, m) => ~gui.ready
       /\ m.op # "open" /\ gui.ready => Ours(gui, m)
  <3>1. OneRequest  BY DEF EditorKeeps
  <3> QED  BY <3>1, <1>t, <1>u, <1>c, <2>2, MessageMoves
 <2>5. Ours(gui, m) <=> Ours(gui, call)  BY <2>2 DEF Ours
 <2>6. gui.ready => service \in Projects /\ gui.snapshot = disk[service] /\ call.op # "open"
  <3>1. SUFFICES ASSUME gui.ready PROVE service \in Projects /\ gui.snapshot = disk[service] /\ call.op # "open"
    OBVIOUS
  <3> QED  BY <3>1, <2>2, <2>4 DEF EditorKeeps, PageIsStored
 <2>7. Ours(gui, m) /\ m.op # "open" => gui.ready  BY <2>4, <1>u DEF OneRequest, Fits
 <2>8. Ours(gui, m) /\ ok => /\ service' \in Projects /\ m.doc = disk'[service']
                             /\ m.op # "open" /\ ~m.change => m.doc = gui.snapshot
  <3>1. SUFFICES ASSUME Ours(gui, m), ok
                 PROVE  /\ service' \in Projects /\ doc = disk'[service']
                        /\ m.op # "open" /\ ~change => doc = gui.snapshot
    BY <2>2, <2>3
  <3>2. service' \in Projects /\ doc = disk'[service']  BY <3>1, <2>5, <1>m
  <3>3. ASSUME m.op # "open", ~change PROVE doc = gui.snapshot
    BY <3>1, <3>3, <2>7, <2>2, <2>5, <1>m, <2>6
  <3> QED  BY <3>2, <3>3
 <2>9. gui.ready => /\ service' \in Projects
                    /\ ~(Ours(gui, m) /\ ok) => disk'[service'] = disk[service]
  <3>1. SUFFICES ASSUME gui.ready
                 PROVE  service' \in Projects /\ (~(Ours(gui, m) /\ ok) => disk'[service'] = disk[service])
    OBVIOUS
  <3>2. Ours(gui, m) /\ call.op # "open" /\ service \in Projects  BY <3>1, <2>4, <2>6
  <3> QED  BY <3>1, <3>2, <1>m
 <2>10. PageIsStored'  BY <1>u, <1>m, <2>2, <2>3, <2>4, <2>8, <2>9, AnswerStored
 <2>11. answers' \in Seq(Answers) /\ calls' \in Seq(Calls)  BY <1>t, <1>u, <2>2
 <2>12. /\ InLine(gui', Line(gui')) /\ NobodyWaits(gui') /\ EngineAnswers' /\ StaleIsInHand'
        /\ FreshIsShown' /\ gui' \in Members /\ reply' \in Replies \cup {NoReply} /\ graph' \in Docs
        /\ outside' \in BOOLEAN /\ heard' \in [at : Nat, wanted : Nat]
   BY <1>u, <1>m, WorkerAlone
 <2>13. EditorTypes'  BY <1>m, <2>11, <2>12 DEF EditorTypes
 <2> QED  BY <2>4, <2>10, <2>12, <2>13 DEF EditorKeeps
<1>1. CASE SessionOpens
 <2>0. call.op = "open" /\ disk' = disk  BY <1>1, <1>c DEF SessionOpens
 <2>1. ASSUME NEW derived \in BOOLEAN, service' = call.project,
              Answer(call, TRUE, disk[call.project], derived, FALSE), healthy' = (healthy /\ ~derived)
       PROVE  EditorKeeps'
   BY <2>0, <1>f, <1>d, <2>1, <1>t, <1>m
 <2>2. ASSUME service' = 0, Answer(call, FALSE, NoDoc, FALSE, FALSE), healthy' = healthy
       PROVE  EditorKeeps'
   BY <2>0, <2>2, <1>n, <1>t, <1>m
 <2> QED  BY <1>1, <1>c, <2>1, <2>2 DEF SessionOpens
<1>2. CASE SessionRefuses  BY <1>2, <1>c, <1>n, <1>t, <1>m DEF SessionRefuses
<1>3. CASE SessionSaves  BY <1>3, <1>c, <1>t, <1>d, <1>m DEF SessionSaves
<1>4. CASE SessionEdits
 <2>1. service \in Projects /\ service' = service  BY <1>4, <1>t DEF SessionEdits
 <2>2. PICK doc \in After(disk[service], call), derived \in BOOLEAN :
           /\ disk' = [disk EXCEPT ![service] = [doc EXCEPT !.rev = @ + 1]]
           /\ Answer(call, TRUE, disk'[service], derived, TRUE)
           /\ healthy' = (healthy /\ ~derived)
   BY <1>4, <1>c DEF SessionEdits
 <2>3. [doc EXCEPT !.rev = @ + 1] \in Timelines  BY <2>1, <1>d, AfterTyped
 <2>4. disk' \in [Projects -> Timelines] /\ disk'[service] \in Docs
   BY <2>1, <2>2, <2>3, <1>t DEF Timelines, Docs
 <2> QED  BY <2>1, <2>2, <2>4, <1>t, <1>m
<1> QED  BY <1>1, <1>2, <1>3, <1>4 DEF SessionWorker

-----------------------------------------------------------------------------
(* The editor: an answer of the session worker *)

LEMMA AnswersLeft ==
    ASSUME EditorKeeps, answers # <<>>, answers' = Tail(answers)
    PROVE  /\ Head(answers) \in Answers /\ Fits(gui, Head(answers)) /\ 1 \in DOMAIN answers
           /\ Head(answers) = answers[1] /\ answers' \in Seq(Answers)
           /\ \A i \in DOMAIN answers' :
                 i + 1 \in DOMAIN answers /\ i + 1 # 1 /\ answers'[i] = answers[i + 1]
           /\ \A i \in DOMAIN answers :
                 i # 1 => i - 1 \in DOMAIN answers' /\ answers'[i - 1] = answers[i]
           /\ Ours(gui, Head(answers)) =>
                 calls = <<>> /\ \A i \in DOMAIN answers' : ~Ours(gui, answers'[i])
           /\ \A i \in DOMAIN answers' : answers'[i].derived => ~healthy
<1>1. answers \in Seq(Answers) /\ calls \in Seq(Calls) /\ OneRequest
  BY DEF EditorKeeps, EditorTypes
<1>2. /\ Head(answers) \in Answers /\ 1 \in DOMAIN answers /\ Head(answers) = answers[1]
      /\ answers' \in Seq(Answers)
      /\ \A i \in DOMAIN answers' :
            i + 1 \in DOMAIN answers /\ i + 1 # 1 /\ answers'[i] = answers[i + 1]
      /\ \A i \in DOMAIN answers :
            i # 1 => i - 1 \in DOMAIN answers' /\ answers'[i - 1] = answers[i]
  BY <1>1
<1>3. Fits(gui, Head(answers))  BY <1>1, <1>2 DEF OneRequest
<1>4. ASSUME Ours(gui, Head(answers))
      PROVE  calls = <<>> /\ \A i \in DOMAIN answers' : ~Ours(gui, answers'[i])
  BY <1>1, <1>2, <1>4 DEF OneRequest
<1>5. \A i \in DOMAIN answers' : answers'[i].derived => ~healthy
  BY <1>2 DEF EditorKeeps, PageIsStored
<1> QED  BY <1>2, <1>3, <1>4, <1>5

\* An answer to an opening that is over.
LEMMA AnswerDropped ==
    ASSUME EditorKeeps, answers # <<>>, answers' = Tail(answers), ~Ours(gui, Head(answers)), gui' = gui,
           UNCHANGED <<disk, service, calls, graph, reply, heard, healthy, outside>>
    PROVE  EditorKeeps'
<1>1. /\ Head(answers) = answers[1] /\ answers' \in Seq(Answers)
      /\ \A i \in DOMAIN answers' :
            i + 1 \in DOMAIN answers /\ i + 1 # 1 /\ answers'[i] = answers[i + 1]
      /\ \A i \in DOMAIN answers :
            i # 1 => i - 1 \in DOMAIN answers' /\ answers'[i - 1] = answers[i]
  BY AnswersLeft
<1>2. /\ InLine(gui', Line(gui')) /\ NobodyWaits(gui') /\ EngineAnswers' /\ StaleIsInHand'
      /\ FreshIsShown' /\ gui' \in Members /\ reply' \in Replies \cup {NoReply} /\ graph' \in Docs
      /\ outside' \in BOOLEAN /\ heard' \in [at : Nat, wanted : Nat]
  BY WorkerAlone
<1>3. EditorTypes'  BY <1>1, <1>2 DEF EditorKeeps, EditorTypes
<1>4. OneRequest'
 <2>1. \A i \in DOMAIN answers : Ours(gui, answers[i]) => i - 1 \in DOMAIN answers' /\ answers'[i - 1] = answers[i]
   BY <1>1
 <2>2. OneRequest  BY DEF EditorKeeps
 <2>3. \A i, j \in DOMAIN answers' : Ours(gui, answers'[i]) /\ Ours(gui, answers'[j]) => i = j
  <3>1. ASSUME NEW i \in DOMAIN answers', NEW j \in DOMAIN answers', Ours(gui, answers'[i]), Ours(gui, answers'[j])
        PROVE  i = j
    BY <3>1, <2>2, <1>1 DEF OneRequest
  <3> QED  BY <3>1
 <2>4. gui.sessionBusy =>
           (\E i \in DOMAIN calls : Ours(gui, calls[i])) \/ \E i \in DOMAIN answers' : Ours(gui, answers'[i])
   BY <2>1, <2>2 DEF OneRequest
 <2>5. \A i \in DOMAIN answers' : Fits(gui, answers'[i])  BY <2>2, <1>1 DEF OneRequest
 <2>6. \A i \in DOMAIN calls, j \in DOMAIN answers' : ~(Ours(gui, calls[i]) /\ Ours(gui, answers'[j]))
   BY <2>2, <1>1 DEF OneRequest
 <2>7. /\ \A i \in DOMAIN calls : Fits(gui, calls[i]) /\ (calls[i].op = "open" => calls[i].project \in Projects)
       /\ \A i, j \in DOMAIN calls : Ours(gui, calls[i]) /\ Ours(gui, calls[j]) => i = j
       /\ calls # <<>> =>
             Ours(gui, calls[Len(calls)]) /\ (calls[Len(calls)].op = "open" \/ Len(calls) = 1)
       /\ gui.active => gui.sessionBusy
   BY <2>2 DEF OneRequest
 <2> QED  BY <2>3, <2>4, <2>5, <2>6, <2>7 DEF OneRequest
<1>5. PageIsStored'
 <2>1. PageIsStored  BY DEF EditorKeeps
 <2>2. ASSUME gui.ready, \A i \in DOMAIN answers' : ~(Ours(gui, answers'[i]) /\ answers'[i].ok)
       PROVE  gui.snapshot = disk[service]
  <3>1. \A i \in DOMAIN answers : ~(Ours(gui, answers[i]) /\ answers[i].ok)  BY <2>2, <1>1
  <3> QED  BY <3>1, <2>1, <2>2 DEF PageIsStored
 <2>3. \A i \in DOMAIN answers' :
         /\ Ours(gui, answers'[i]) /\ answers'[i].ok =>
               /\ service \in Projects /\ answers'[i].doc = disk[service]
               /\ answers'[i].op # "open" /\ ~answers'[i].change => answers'[i].doc = gui.snapshot
         /\ answers'[i].derived => ~healthy
   BY <2>1, <1>1 DEF PageIsStored
 <2>4. (gui.ready => service \in Projects) /\ (gui.derived => ~healthy)  BY <2>1 DEF PageIsStored
 <2> QED  BY <2>2, <2>3, <2>4 DEF PageIsStored
<1> QED  BY <1>2, <1>3, <1>4, <1>5 DEF EditorKeeps

\* The answer that the page waited for.
LEMMA AnswerTaken ==
    ASSUME EditorKeeps, answers # <<>>, answers' = Tail(answers), Ours(gui, Head(answers)),
           gui'.sessionGeneration = gui.sessionGeneration, ~gui'.sessionBusy, ~gui'.active,
           gui'.ready => service \in Projects /\ gui'.snapshot = disk[service],
           gui'.derived => ~healthy, UNCHANGED <<disk, service, calls, healthy>>
    PROVE  OneRequest' /\ PageIsStored'
  BY AnswersLeft DEF Ours, EditorKeeps, OneRequest, Fits, PageIsStored

\* What InLine says depends on these members only.
LEMMA InLineLike ==
    ASSUME NEW g, NEW h, NEW l, InLine(g, l), SameFlight(g, h),
           h.generation = g.generation, h.derived = g.derived, h.snapshot = g.snapshot,
           h.stale = g.stale, h.active => g.active
    PROVE  InLine(h, l)
  BY DEF InLine, LastLoadCounts, SoundIsNext, SameFlight, FreshHasNoLoad, EditWaits

LEMMA HandleOpenedKeeps ==
    ASSUME EditorKeeps, HandleOpened
    PROVE  EditorKeeps'
<1>t. gui \in Members /\ InLine(gui, Line(gui)) /\ NobodyWaits(gui)  BY DEF EditorKeeps, EditorTypes
<1>m. NoMark \in Nat /\ NoImage \in Images
  BY EditorAssumption DEF EditorAssumption, NoMark, NoImage, Images, NoDoc, Docs
<1>u. /\ UNCHANGED <<disk, service, calls, graph, reply, heard, healthy, outside>>
      /\ answers # <<>> /\ answers' = Tail(answers)
  BY DEF HandleOpened, engineVars
<1>a. PICK a : a = Head(answers)  OBVIOUS
<1>b. a \in Answers /\ Fits(gui, a) /\ a.op = "open" /\ answers' \in Seq(Answers) /\ 1 \in DOMAIN answers /\ a = answers[1]
  BY <1>a, <1>u, AnswersLeft DEF HandleOpened
<1>1. CASE ~Ours(gui, a)  BY <1>1, <1>a, <1>u, AnswerDropped DEF HandleOpened, Ours
<1>2. CASE Ours(gui, a) /\ ~a.ok
 <2>1. gui' = [gui EXCEPT !.ready = FALSE, !.sessionBusy = FALSE]
   BY <1>2, <1>a DEF HandleOpened, Ours
 <2>2. ~gui.active  BY <1>2, <1>b DEF Fits
 <2>3. ~gui'.ready /\ ~gui'.sessionBusy  BY <2>1, <1>t, Zenon DEF Members
 <2>4. /\ gui' \in Members /\ gui'.queue = gui.queue /\ gui'.current = gui.current /\ SameFlight(gui, gui')
       /\ gui'.generation = gui.generation /\ gui'.derived = gui.derived /\ gui'.snapshot = gui.snapshot
       /\ gui'.stale = gui.stale /\ gui'.active = gui.active
       /\ gui'.sessionGeneration = gui.sessionGeneration /\ gui'.playhead = gui.playhead
       /\ gui'.image = gui.image /\ gui'.selected = gui.selected
       /\ gui'.rangeIn = gui.rangeIn /\ gui'.rangeOut = gui.rangeOut
   BY <2>1, <1>t DEF Members, SameFlight
 <2>5. Line(gui') = Line(gui) /\ NobodyWaits(gui')  BY <2>4, <1>t DEF Line, NobodyWaits
 <2>6. InLine(gui', Line(gui'))  BY <2>4, <1>t, <2>5, InLineLike
 <2>7. EditorTypes' /\ EngineAnswers'
   BY <1>b, <1>u, <2>4 DEF EditorKeeps, EditorTypes, EngineAnswers
 <2>8. OneRequest' /\ PageIsStored'
   BY <2>4, <2>2, <1>2, <1>a, <1>u, <2>3, AnswerTaken DEF EditorKeeps, PageIsStored
 <2>9. StaleIsInHand'  BY <2>3 DEF StaleIsInHand
 <2>10. FreshIsShown'
   BY <2>4, <1>u DEF SameFlight, EditorKeeps, FreshIsShown, PictureIsAtPlayhead, SelectionIsShown,
     SoundFollows
 <2> QED  BY <2>5, <2>6, <2>7, <2>8, <2>9, <2>10 DEF EditorKeeps
<1>3. CASE Ours(gui, a) /\ a.ok
 <2>g. PICK g : g = [StopPlaying(gui) EXCEPT !.ready = TRUE, !.generation = @ + 1,
                        !.selected = "none", !.rangeIn = NoMark, !.rangeOut = NoMark,
                        !.snapshot = a.doc, !.playhead = 0, !.image = NoImage, !.stale = TRUE]
   OBVIOUS
 <2>c. PICK c : c = Command(g, "load", a.doc, 0)  OBVIOUS
 <2>p. PICK p : p = PushBack(g, c)  OBVIOUS
 <2>1. gui' = [p EXCEPT !.derived = a.derived, !.sessionBusy = FALSE]
   BY <1>3, <1>a, <2>g, <2>c, <2>p DEF HandleOpened, Ours
 <2>s. PICK s : s = StopPlaying(gui)  OBVIOUS
 <2>2. s \in Members /\ SamePage(gui, s) /\ SameFlight(gui, s) /\ s.queue = gui.queue /\ s.current = gui.current
   BY <1>t, <2>s, StopFollows DEF FollowsPage
 <2>3. g = [s EXCEPT !.ready = TRUE, !.generation = @ + 1,
                        !.selected = "none", !.rangeIn = NoMark, !.rangeOut = NoMark,
                        !.snapshot = a.doc, !.playhead = 0, !.image = NoImage, !.stale = TRUE]
   BY <2>g, <2>s
 <2>4. /\ service \in Projects /\ a.doc = disk[service] /\ a.doc \in Docs /\ (a.derived => ~healthy)
       /\ a.doc # NoDoc /\ a.derived \in BOOLEAN
   BY <1>3, <1>b DEF EditorKeeps, PageIsStored, EditorTypes, Timelines, NoDoc, Projects, Answers
 <2>5. ~gui.active /\ ~gui.ready  BY <1>3, <1>b DEF Fits
 <2>6. /\ g \in Members /\ g.queue = gui.queue /\ g.current = gui.current /\ SameFlight(gui, g)
       /\ g.generation = gui.generation + 1 /\ g.snapshot = a.doc
       /\ g.active = gui.active /\ g.sessionGeneration = gui.sessionGeneration
       /\ g.selected = "none" /\ g.rangeIn = NoMark /\ g.rangeOut = NoMark
  <3>1. s.generation + 1 \in Nat  BY <2>2 DEF Members
  <3>2. g \in Members  BY <2>2, <2>3, <2>4, <3>1, <1>m DEF Members
  <3>3. /\ g.queue = s.queue /\ g.current = s.current /\ SameFlight(s, g)
        /\ g.generation = s.generation + 1 /\ g.snapshot = a.doc
        /\ g.active = s.active /\ g.sessionGeneration = s.sessionGeneration
        /\ g.selected = "none" /\ g.rangeIn = NoMark /\ g.rangeOut = NoMark
    BY <2>2, <2>3 DEF Members, SameFlight
  <3> QED  BY <2>2, <3>2, <3>3 DEF SamePage, SameFlight
 <2>7. g.ready /\ g.stale /\ ~g.active  BY <2>2, <2>3, <2>5, <2>6 DEF Members
 <2>8. c \in Commands /\ c.op = "load" /\ c.gen = g.generation /\ c.doc = g.snapshot
   BY <2>c, <2>4, <2>6, CommandTyped DEF EngineOps, CountsAsBusy
 <2>9. /\ p \in Members /\ NobodyWaits(p) /\ Inserted(Line(g), Len(Line(g)), c, Line(p))
       /\ SamePage(g, p) /\ SameFlight(g, p) /\ (g.current # NoCommand => p.current = g.current)
   BY <2>6, <2>8, <2>p, PushedBack
 <2>10. /\ gui' \in Members /\ gui'.queue = p.queue /\ gui'.current = p.current /\ SameFlight(p, gui')
        /\ gui'.generation = p.generation /\ gui'.snapshot = p.snapshot /\ gui'.derived = a.derived
        /\ gui'.stale = p.stale /\ gui'.active = p.active /\ gui'.ready = p.ready
        /\ gui'.sessionGeneration = p.sessionGeneration /\ gui'.selected = p.selected
        /\ gui'.rangeIn = p.rangeIn /\ gui'.rangeOut = p.rangeOut
   BY ZenonT(40), <2>1, <2>4, <2>9 DEF Members, SameFlight
 <2>11. ~gui'.sessionBusy  BY <2>1, <2>9, Zenon DEF Members
 <2>12. /\ SameFlight(gui, gui') /\ gui'.generation = gui.generation + 1 /\ gui'.snapshot = a.doc
        /\ gui'.sessionGeneration = gui.sessionGeneration
        /\ gui'.selected = "none" /\ gui'.rangeIn = NoMark /\ gui'.rangeOut = NoMark
        /\ gui.current # NoCommand => gui'.current = gui.current
   BY <2>6, <2>9, <2>10 DEF SamePage, SameFlight
 <2>13. gui'.ready /\ gui'.stale /\ ~gui'.active  BY <2>9, <2>10, <2>7 DEF SamePage
 <2>14. Line(gui') = Line(p) /\ Line(g) = Line(gui) /\ NobodyWaits(gui')
   BY <2>6, <2>9, <2>10 DEF Line, NobodyWaits
 <2>15. Line(gui) \in Seq(Commands) /\ Line(gui') \in Seq(Commands)  BY <1>t, <2>9, <2>14, LineIs
 <2>16. \A i \in DOMAIN Line(gui) : Line(gui)[i].gen <= g.generation /\ Line(gui)[i].gen # g.generation
  <3>1. \A i \in DOMAIN Line(gui) : Line(gui)[i] \in Commands  BY <2>15, Elements
  <3>2. \A i \in DOMAIN Line(gui) : Line(gui)[i].gen \in Nat /\ Line(gui)[i].gen <= gui.generation
    BY <3>1, <1>t DEF InLine, LastLoadCounts, Commands
  <3>3. gui.generation \in Nat  BY <1>t DEF Members
  <3> QED  BY <3>2, <3>3, <2>6
 <2>n. PICK n : n = [g EXCEPT !.derived = a.derived]  OBVIOUS
 <2>17. /\ n \in Members /\ n.generation = g.generation /\ n.derived = a.derived /\ n.snapshot = g.snapshot
        /\ n.stale = g.stale /\ n.active = g.active /\ n.playhead = g.playhead /\ SameFlight(g, n)
   BY <2>n, <2>4, <2>6 DEF Members, SameFlight
 <2>18. n.stale /\ ~n.active  BY <2>17, <2>7, Zenon
 <2>19. InLine(n, Line(gui))
   BY <2>16, <2>17, <2>18, <1>t, <2>6 DEF LastLoadCounts, FreshHasNoLoad, EditWaits, InLine,
     SoundIsNext, SameFlight
 <2>20. InLine(n, Line(gui'))
  <3>1. MaySend(n, Line(gui), Len(Line(gui)), c)
    BY <2>15, <2>4, <2>6, <2>8, <2>16, <2>17, <2>18 DEF MaySend, Loads
  <3>2. Noted(n, c, n)  BY <2>8, <2>17, Zenon DEF Noted, SamePage, Members
  <3> QED  BY <2>8, <2>9, <2>14, <2>15, <2>17, <2>19, <3>1, <3>2, SentInLine
 <2>21. InLine(gui', Line(gui'))
  <3>1. /\ gui'.generation = n.generation /\ gui'.derived = n.derived /\ gui'.snapshot = n.snapshot
        /\ gui'.stale = n.stale /\ SameFlight(n, gui')
    BY <2>9, <2>10, <2>17 DEF SamePage, SameFlight
  <3> QED  BY <2>13, <2>20, <3>1, InLineLike
 <2>22. InHand(gui')  BY <2>9, <2>14, <2>15, InsertedIs, <2>6, <2>8, <2>12 DEF InHand, Loads
 <2>23. OneRequest' /\ PageIsStored'
   BY <2>4, <2>10, <1>3, <1>a, <1>u, <2>11, <2>12, <2>13, AnswerTaken
 <2>24. EditorTypes' /\ EngineAnswers'
   BY <1>b, <1>u, <2>10, <2>12 DEF EditorKeeps, EditorTypes, EngineAnswers
 <2>25. StaleIsInHand' /\ FreshIsShown'
   BY <2>12, <2>13, <2>22, <1>u DEF EditorKeeps, StaleIsInHand, FreshIsShown, PictureIsAtPlayhead, SelectionIsShown, SoundFollows
 <2> QED  BY <2>14, <2>21, <2>23, <2>24, <2>25 DEF EditorKeeps
<1> QED  BY <1>1, <1>2, <1>3

LEMMA HandleEditedKeeps ==
    ASSUME EditorKeeps, HandleEdited
    PROVE  EditorKeeps'
<1>t. gui \in Members /\ InLine(gui, Line(gui)) /\ NobodyWaits(gui)  BY DEF EditorKeeps, EditorTypes
<1>u. /\ UNCHANGED <<disk, service, calls, graph, reply, heard, healthy, outside>>
      /\ answers # <<>> /\ answers' = Tail(answers)
  BY DEF HandleEdited, engineVars
<1>a. PICK a : a = Head(answers)  OBVIOUS
<1>b. a \in Answers /\ Fits(gui, a) /\ a.op # "open" /\ answers' \in Seq(Answers) /\ 1 \in DOMAIN answers /\ a = answers[1]
  BY <1>a, <1>u, AnswersLeft DEF HandleEdited
<1>g. PICK g : g = [gui EXCEPT !.active = FALSE, !.sessionBusy = FALSE]  OBVIOUS
<1>h. PICK h : h = [g EXCEPT !.snapshot = a.doc, !.stale = @ \/ a.derived \/ a.change,
                             !.selected = IF @ \in a.doc.clips THEN @ ELSE "none"]
  OBVIOUS
<1>0. gui' = IF a.gen # gui.sessionGeneration \/ ~gui.active THEN gui
             ELSE IF ~a.ok THEN g
             ELSE IF a.derived
                  THEN PushFront([h EXCEPT !.derived = TRUE], Command(h, "load", a.doc, 0))
             ELSE IF a.change THEN PushBack(h, Command(h, "update", a.doc, 0))
             ELSE h
  BY <1>a, <1>g, <1>h DEF HandleEdited
<1>1. CASE ~Ours(gui, a)  BY <1>0, <1>1, <1>a, <1>u, AnswerDropped DEF Ours
<1>o. SUFFICES ASSUME Ours(gui, a) PROVE EditorKeeps'  BY <1>1
<1>2. gui.active /\ gui.ready  BY <1>b, <1>o DEF Fits
<1>3. gui' = IF ~a.ok THEN g
             ELSE IF a.derived
                  THEN PushFront([h EXCEPT !.derived = TRUE], Command(h, "load", a.doc, 0))
             ELSE IF a.change THEN PushBack(h, Command(h, "update", a.doc, 0))
             ELSE h
  BY <1>0, <1>2, <1>o DEF Ours
<1>4. /\ g \in Members /\ g.queue = gui.queue /\ g.current = gui.current /\ SameFlight(gui, g)
      /\ g.generation = gui.generation /\ g.derived = gui.derived /\ g.snapshot = gui.snapshot
      /\ g.stale = gui.stale /\ g.ready = gui.ready
      /\ g.sessionGeneration = gui.sessionGeneration /\ g.playhead = gui.playhead
      /\ g.image = gui.image /\ g.selected = gui.selected
      /\ g.rangeIn = gui.rangeIn /\ g.rangeOut = gui.rangeOut
  BY <1>g, <1>t DEF Members, SameFlight
<1>5. ~g.active /\ ~g.sessionBusy  BY <1>g, <1>t, Zenon DEF Members
<1>6. Line(g) = Line(gui) /\ NobodyWaits(g) /\ InLine(g, Line(gui))
  BY <1>4, <1>5, <1>t, InLineLike DEF Line, NobodyWaits
<1>7. \A i \in DOMAIN Line(gui) : ~Loads(Line(gui)[i])  BY <1>2, <1>t DEF InLine, EditWaits
\* The page g, when it is still that of the disk.
<1>8. ASSUME a.ok => ~a.derived /\ ~a.change, NEW kind \in Kinds \cup {"none"},
             kind # "none" => kind \in gui.snapshot.clips,
             gui' = g \/ gui' = [g EXCEPT !.selected = kind]
      PROVE  EditorKeeps'
 <2>1. service \in Projects /\ gui.snapshot = disk[service] /\ (gui.derived => ~healthy)
   BY <1>8, <1>b, <1>o, <1>2 DEF EditorKeeps, PageIsStored, OneRequest
 <2>2. /\ gui' \in Members /\ gui'.queue = g.queue /\ gui'.current = g.current /\ SameFlight(g, gui')
       /\ gui'.generation = g.generation /\ gui'.derived = g.derived /\ gui'.snapshot = g.snapshot
       /\ gui'.stale = g.stale /\ gui'.ready = g.ready
       /\ gui'.sessionGeneration = g.sessionGeneration /\ gui'.playhead = g.playhead
       /\ gui'.image = g.image /\ gui'.rangeIn = g.rangeIn /\ gui'.rangeOut = g.rangeOut
       /\ gui'.active = g.active /\ gui'.sessionBusy = g.sessionBusy
       /\ gui'.selected = g.selected \/ gui'.selected = kind
   BY <1>4, <1>8 DEF SameFlight, Members
 <2>3. ~gui'.active /\ ~gui'.sessionBusy  BY <2>2, <1>5, Zenon
 <2>4. Line(gui') = Line(gui) /\ NobodyWaits(gui')  BY <2>2, <1>6 DEF Line, NobodyWaits
 <2>5. InLine(gui', Line(gui'))  BY <2>2, <2>3, <2>4, <1>6, InLineLike
 <2>6. EditorTypes' /\ EngineAnswers'
   BY <2>2, <1>4, <1>b, <1>u DEF EditorKeeps, EditorTypes, EngineAnswers
 <2>7. OneRequest' /\ PageIsStored'  BY <2>1, <2>2, <1>4, <2>3, <1>a, <1>o, <1>u, AnswerTaken
 <2>8. StaleIsInHand'
  <3>1. SUFFICES ASSUME healthy, ~outside, gui'.ready, gui'.stale PROVE InHand(gui')
    BY <1>u DEF StaleIsInHand
  <3>2. gui.stale /\ gui.ready  BY <3>1, <2>2, <1>4, Zenon
  <3> QED  BY <3>1, <3>2, <2>2, <2>4, <1>4 DEF EditorKeeps, StaleIsInHand, InHand
 <2>9. FreshIsShown'
   BY <2>2, <1>4, <1>8, <1>u DEF SameFlight, EditorKeeps, FreshIsShown, PictureIsAtPlayhead,
     SelectionIsShown, SoundFollows
 <2> QED  BY <2>4, <2>5, <2>6, <2>7, <2>8, <2>9 DEF EditorKeeps
<1>9. CASE ~a.ok  BY <1>3, <1>8, <1>9
<1>10. ASSUME a.ok
       PROVE  /\ service \in Projects /\ a.doc = disk[service] /\ a.doc \in Docs /\ a.doc # NoDoc
              /\ (a.derived => ~healthy) /\ (~a.change => a.doc = gui.snapshot)
              /\ a.doc.clips \in SUBSET Kinds
  BY <1>10, <1>b, <1>o DEF EditorKeeps, PageIsStored, EditorTypes, Timelines, NoDoc, Projects,
    Answers
<1>11. ASSUME a.ok
       PROVE  /\ h \in Members /\ h.queue = g.queue /\ h.current = g.current /\ SameFlight(g, h)
              /\ h.generation = g.generation /\ h.derived = g.derived /\ h.snapshot = a.doc
              /\ h.ready = g.ready /\ h.active = g.active /\ h.sessionBusy = g.sessionBusy
              /\ h.sessionGeneration = g.sessionGeneration
              /\ h.rangeIn = g.rangeIn /\ h.rangeOut = g.rangeOut
              /\ h.selected = IF g.selected \in a.doc.clips THEN g.selected ELSE "none"
 <2>1. (g.stale \/ a.derived \/ a.change) \in BOOLEAN  OBVIOUS
 <2>2. (IF g.selected \in a.doc.clips THEN g.selected ELSE "none") \in Kinds \cup {"none"}
   BY <1>4 DEF Members
 <2>3. h \in Members  BY ZenonT(40), <2>1, <2>2, <1>4, <1>h, <1>10, <1>11 DEF Members
 <2> QED  BY <2>3, <1>4, <1>h DEF Members, SameFlight
<1>12. CASE a.ok /\ ~a.derived /\ ~a.change
 <2>1. a.doc = gui.snapshot  BY <1>10, <1>12
 <2>2. PICK kind \in Kinds \cup {"none"} : kind = IF gui.selected \in gui.snapshot.clips THEN gui.selected ELSE "none"
   BY <1>t DEF Members
 <2>3. gui' = h  BY <1>3, <1>12
 <2>4. (g.stale \/ a.derived \/ a.change) = g.stale  BY <1>4, <1>12 DEF Members
 <2>5. h = [g EXCEPT !.snapshot = g.snapshot, !.stale = g.stale, !.selected = kind]
   BY <2>1, <2>2, <2>4, <1>4, <1>h
 <2>6. h = [g EXCEPT !.selected = kind]  BY <2>5, <1>4, Zenon DEF Members
 <2> QED  BY <1>8, <1>12, <2>2, <2>3, <2>6
\* The page h with a load or an update.
<1>13. ASSUME a.ok, a.derived \/ a.change, NEW n \in Members, NEW c \in Commands, NEW k,
              n.queue = h.queue, n.current = h.current, SameFlight(h, n),
              n.generation = h.generation, n.snapshot = h.snapshot, n.stale = h.stale,
              n.ready = h.ready, n.active = h.active, n.sessionBusy = h.sessionBusy,
              n.sessionGeneration = h.sessionGeneration, n.rangeIn = h.rangeIn,
              n.rangeOut = h.rangeOut, n.selected = h.selected, n.derived => ~healthy,
              c.gen = n.generation, c.doc = n.snapshot,
              (c.op = "load" /\ n.derived) \/ (c.op = "update" /\ k = Len(Line(n))),
              gui' \in Members, Inserted(Line(n), k, c, Line(gui')), SamePage(n, gui'),
              SameFlight(n, gui'), NobodyWaits(gui'),
              n.current # NoCommand => gui'.current = n.current
       PROVE  EditorKeeps'
 <2>1. /\ Line(n) = Line(gui) /\ Line(gui) \in Seq(Commands) /\ NobodyWaits(n)
       /\ Line(gui') \in Seq(Commands) /\ SameFlight(gui, n)
       /\ n.generation = gui.generation /\ n.sessionGeneration = gui.sessionGeneration
   BY <1>4, <1>6, <1>11, <1>13, <1>t, LineIs DEF Line, NobodyWaits, SameFlight
 <2>2. h.stale  BY <1>13, <1>h, <1>4, Zenon DEF Members
 <2>3. n.stale /\ ~n.active /\ ~n.sessionBusy /\ n.ready
   BY <2>2, <1>13, <1>11, <1>2, <1>4, <1>5, Zenon
 <2>4. InLine(n, Line(n))
   BY <1>7, <1>t, <2>1, <2>3 DEF InLine, LastLoadCounts, FreshHasNoLoad, EditWaits, SoundIsNext,
     SameFlight
 <2>5. MaySend(n, Line(n), k, c)  BY <2>1, <1>10, <1>11, <1>13, <1>7, <2>3 DEF MaySend, Loads
 <2>6. Noted(n, c, n)  BY <1>13, Zenon DEF Noted, SamePage, Members
 <2>7. FollowsPage(n, gui')  BY <1>13, <2>4, <2>5, <2>6, Sent
 <2>8. /\ InLine(gui', Line(gui')) /\ gui'.generation = n.generation /\ gui'.snapshot = a.doc
       /\ gui'.sessionGeneration = gui.sessionGeneration /\ gui'.selected = h.selected
       /\ gui'.rangeIn = gui.rangeIn /\ gui'.rangeOut = gui.rangeOut
       /\ gui.current # NoCommand => gui'.current = gui.current
   BY <2>1, <2>7, <1>4, <1>11, <1>13 DEF FollowsPage, SamePage
 <2>9. gui'.stale /\ ~gui'.active /\ ~gui'.sessionBusy  BY <2>3, <1>13, Zenon DEF SamePage
 <2>10. InHand(gui')  BY <1>13, <2>1, InsertedIs, <2>8 DEF InHand, Loads
 <2>11. EditorTypes' /\ EngineAnswers'
   BY <1>13, <1>b, <1>u, <2>8 DEF EditorKeeps, EditorTypes, EngineAnswers
 <2>12. OneRequest' /\ PageIsStored'
   BY <1>13, <1>10, <1>a, <1>o, <1>u, <2>8, <2>9, AnswerTaken DEF SamePage
 <2>13. FreshIsShown'
   BY <2>9, <2>8, <1>11, <1>13, <1>u DEF PictureIsAtPlayhead, EditorKeeps, FreshIsShown,
     SelectionIsShown, SoundFollows
 <2>14. StaleIsInHand'  BY <2>10 DEF StaleIsInHand
 <2> QED  BY <1>13, <2>8, <2>11, <2>12, <2>13, <2>14 DEF EditorKeeps
<1>14. CASE a.ok /\ a.derived
 <2>1. PICK n : n = [h EXCEPT !.derived = TRUE]  OBVIOUS
 <2>2. PICK c : c = Command(h, "load", a.doc, 0)  OBVIOUS
 <2>3. /\ n \in Members /\ n.queue = h.queue /\ n.current = h.current /\ SameFlight(h, n)
       /\ n.generation = h.generation /\ n.snapshot = h.snapshot /\ n.stale = h.stale
       /\ n.ready = h.ready /\ n.active = h.active /\ n.sessionBusy = h.sessionBusy
       /\ n.sessionGeneration = h.sessionGeneration /\ n.rangeIn = h.rangeIn
       /\ n.rangeOut = h.rangeOut /\ n.selected = h.selected
   BY <2>1, <1>11, <1>14 DEF Members, SameFlight
 <2>4. n.derived  BY <2>1, <1>11, <1>14, Zenon DEF Members
 <2>5. c \in Commands /\ c.op = "load" /\ c.gen = n.generation /\ c.doc = n.snapshot
   BY <2>2, <2>3, <1>10, <1>11, <1>14, CommandTyped DEF EngineOps, CountsAsBusy
 <2>6. gui' = PushFront(n, c)  BY <1>3, <1>14, <2>1, <2>2
 <2>7. PICK k : k = IF n.current = NoCommand THEN 0 ELSE 1  OBVIOUS
 <2>8. /\ gui' \in Members /\ Inserted(Line(n), k, c, Line(gui')) /\ SamePage(n, gui')
       /\ SameFlight(n, gui') /\ NobodyWaits(gui')
       /\ n.current # NoCommand => gui'.current = n.current
   BY <2>3, <2>5, <2>6, <2>7, PushedFront
 <2>9. n.derived => ~healthy  BY <1>10, <1>14
 <2>10. (c.op = "load" /\ n.derived) \/ (c.op = "update" /\ k = Len(Line(n)))  BY <2>4, <2>5
 <2>11. a.ok /\ (a.derived \/ a.change)  BY <1>14
 <2> QED  BY <1>13, <2>3, <2>5, <2>8, <2>9, <2>10, <2>11
<1>15. CASE a.ok /\ ~a.derived /\ a.change
 <2>1. PICK c : c = Command(h, "update", a.doc, 0)  OBVIOUS
 <2>2. h \in Members /\ h.snapshot = a.doc /\ SameFlight(h, h)  BY <1>11, <1>15 DEF SameFlight
 <2>3. c \in Commands /\ c.op = "update" /\ c.gen = h.generation /\ c.doc = h.snapshot
   BY <2>1, <2>2, <1>10, <1>15, CommandTyped DEF EngineOps, CountsAsBusy
 <2>4. gui' = PushBack(h, c)  BY <1>3, <1>15, <2>1
 <2>5. /\ gui' \in Members /\ Inserted(Line(h), Len(Line(h)), c, Line(gui')) /\ SamePage(h, gui')
       /\ SameFlight(h, gui') /\ NobodyWaits(gui')
       /\ h.current # NoCommand => gui'.current = h.current
   BY <2>2, <2>3, <2>4, PushedBack
 <2>6. h.derived => ~healthy  BY <1>4, <1>11, <1>15 DEF EditorKeeps, PageIsStored
 <2> QED  BY <1>13, <1>15, <2>2, <2>3, <2>5, <2>6
<1> QED  BY <1>9, <1>12, <1>14, <1>15

-----------------------------------------------------------------------------
(* The editor: the theorem *)

LEMMA EditorStarts ==
    ASSUME EditorInit
    PROVE  EditorKeeps
<1>1. NoMark \in Nat /\ NoDoc \in Docs /\ NoImage \in Images /\ Length \in Nat
  BY EditorAssumption DEF EditorAssumption, NoMark, NoImage, Images, NoDoc, Docs
<1>2. /\ gui = [sessionGeneration |-> 0, generation |-> 0, active |-> FALSE, ready |-> FALSE,
                sessionBusy |-> FALSE, derived |-> FALSE, snapshot |-> NoDoc, stale |-> TRUE,
                playing |-> FALSE, ticking |-> FALSE, playhead |-> 0, image |-> NoImage,
                frameInFlight |-> FALSE, audioInFlight |-> FALSE, audioInvalidated |-> FALSE,
                selected |-> "none", rangeIn |-> NoMark, rangeOut |-> NoMark,
                audioPosition |-> 0, queue |-> <<>>, current |-> NoCommand]
      /\ disk = [p \in Projects |-> [project |-> p, rev |-> 0, len |-> Length, clips |-> {"video"}]]
      /\ service = 0 /\ calls = <<>> /\ answers = <<>> /\ graph = NoDoc /\ reply = NoReply
      /\ heard = [at |-> 0, wanted |-> 0] /\ healthy = TRUE /\ outside = FALSE
  BY DEF EditorInit
<1>3. /\ ~gui.active /\ ~gui.ready /\ ~gui.sessionBusy /\ ~gui.derived /\ gui.stale
      /\ ~gui.frameInFlight /\ ~gui.audioInFlight
  BY <1>2, Zenon
<1>4. gui \in Members  BY <1>1, <1>2 DEF Members
<1>5. disk \in [Projects -> Timelines]  BY <1>1, <1>2 DEF Timelines, Kinds
<1>6. EditorTypes
 <2>1. calls \in Seq(Calls) /\ answers \in Seq(Answers) /\ heard \in [at : Nat, wanted : Nat]
   BY <1>2
 <2>2. healthy \in BOOLEAN /\ outside \in BOOLEAN  BY <1>2
 <2> QED  BY <1>1, <1>2, <1>4, <1>5, <2>1, <2>2 DEF EditorTypes
<1>7. gui.queue = <<>> /\ gui.current = NoCommand /\ Line(gui) = <<>> /\ DOMAIN Line(gui) = {}
  BY <1>2 DEF Line
<1>8. NobodyWaits(gui) /\ InLine(gui, Line(gui))
  BY <1>3, <1>7 DEF NobodyWaits, InLine, LastLoadCounts, FreshHasNoLoad, OneOfAKind, SoundIsNext, EditWaits
<1>9. EngineAnswers /\ OneRequest /\ PageIsStored /\ StaleIsInHand
  BY <1>2, <1>3 DEF EngineAnswers, OneRequest, PageIsStored, StaleIsInHand
<1>10. FreshIsShown
  BY <1>2, <1>3 DEF FreshIsShown, PictureIsAtPlayhead, SelectionIsShown, SoundFollows
<1> QED  BY <1>6, <1>8, <1>9, <1>10 DEF EditorKeeps

LEMMA EditorStutters ==
    ASSUME EditorKeeps, UNCHANGED editorVars
    PROVE  EditorKeeps'
BY DEF EditorKeeps, editorVars, sessionVars, engineVars, EditorTypes, EngineAnswers, OneRequest,
       PageIsStored, StaleIsInHand, FreshIsShown, PictureIsAtPlayhead, SelectionIsShown, SoundFollows

LEMMA EditorSteps ==
    ASSUME EditorKeeps, [EditorNext]_editorVars
    PROVE  EditorKeeps'
<1>1. \A pos \in 0 .. Length : pos \in Nat  OBVIOUS
<1>2. CASE User
  BY EditorStutters, OpenProjectKeeps, PageActionsKeep, EditsKeep, <1>1, ControlKeeps, <1>2 DEF
    Leave, Kinds, User
<1>3. CASE \E pos \in 0 .. Length, full \in BOOLEAN : Tick(pos, full)  BY <1>1, <1>3, TickKeeps
<1>4. CASE SessionWorker \/ EngineWorker
  BY <1>4, SessionWorkerKeeps, EngineRunsKeeps, EngineFailsKeeps DEF EngineWorker
<1>5. CASE HandleSession  BY <1>5, HandleOpenedKeeps, HandleEditedKeeps DEF HandleSession
<1>6. CASE HandleEngine
  BY <1>6, HandleFrameCompletedKeeps, HandleCompletedKeeps, HandleAudioCompletedKeeps DEF HandleEngine
<1> QED  BY <1>2, <1>3, <1>4, <1>5, <1>6, EditorStutters DEF EditorNext

\* As many requests of a kind are on the way as the page counts.
LEMMA OneIsCounted ==
    ASSUME NEW g \in Members, NEW op \in {"frame", "audio"}, NEW flying \in BOOLEAN,
           OneOfAKind(Line(g), op, flying)
    PROVE  Cardinality({i \in DOMAIN g.queue : g.queue[i].op = op})
               + (IF g.current.op = op THEN 1 ELSE 0) = IF flying THEN 1 ELSE 0
<1>q. PICK Q : Q = {i \in DOMAIN g.queue : g.queue[i].op = op}  OBVIOUS
<1>0. g.queue \in Seq(Commands) /\ NoCommand.op # op  BY DEF Members, NoCommand
<1>1. ASSUME g.current = NoCommand
      PROVE  Cardinality(Q) = IF flying THEN 1 ELSE 0
 <2>1. Line(g) = g.queue  BY <1>1, LineIs
 <2>2. CASE ~flying
  <3>1. Q = {}  BY <1>q, <2>1, <2>2 DEF OneOfAKind
  <3> QED  BY <2>2, <3>1, FS_EmptySet
 <2>3. CASE flying
  <3>1. PICK i \in DOMAIN g.queue : g.queue[i].op = op  BY <2>1, <2>3 DEF OneOfAKind
  <3>2. Q = {i}  BY <1>q, <2>1, <3>1 DEF OneOfAKind
  <3> QED  BY <2>3, <3>2, FS_Singleton
 <2> QED  BY <2>2, <2>3
<1>2. ASSUME g.current # NoCommand
      PROVE  Cardinality(Q) = IF flying /\ g.current.op # op THEN 1 ELSE 0
 <2>1. Removed(Line(g), g.queue) /\ Line(g)[1] = g.current /\ 1 \in DOMAIN Line(g)
   BY <1>2, FirstIsCurrent
 <2>2. \A i \in DOMAIN g.queue : i + 1 \in DOMAIN Line(g) /\ Line(g)[i + 1] = g.queue[i] /\ i + 1 # 1 /\ i \in Nat
   BY <2>1, <1>0, LineIs DEF Removed
 <2>3. CASE ~flying \/ g.current.op = op
  <3>1. Q = {}  BY <1>q, <2>1, <2>2, <2>3 DEF OneOfAKind
  <3> QED  BY <2>3, <3>1, FS_EmptySet
 <2>4. CASE flying /\ g.current.op # op
  <3>1. PICK k \in DOMAIN Line(g) : Line(g)[k].op = op  BY <2>4 DEF OneOfAKind
  <3>2. PICK i \in DOMAIN g.queue : i + 1 = k
   <4>1. k # 1 /\ k \in 1 .. Len(g.queue) + 1  BY LineIs, <2>1, <2>4, <3>1 DEF Removed
   <4>2. k - 1 \in DOMAIN g.queue /\ (k - 1) + 1 = k  BY <4>1, <1>0
   <4> QED  BY <4>2
  <3>3. g.queue[i].op = op  BY <2>2, <3>1, <3>2
  <3>4. ASSUME NEW j \in Q PROVE j = i  BY <1>q, <2>2, <3>1, <3>2, <3>4 DEF OneOfAKind
  <3>5. Q = {i}  BY <1>q, <3>3, <3>4
  <3> QED  BY <2>4, <3>5, FS_Singleton
 <2> QED  BY <2>3, <2>4
<1>3. g.current # NoCommand /\ g.current.op = op => flying
 <2>1. SUFFICES ASSUME g.current # NoCommand, g.current.op = op PROVE flying  OBVIOUS
 <2>2. Line(g)[1].op = op /\ 1 \in DOMAIN Line(g)  BY <2>1, FirstIsCurrent
 <2> QED  BY <2>2 DEF OneOfAKind
<1> QED  BY <1>q, <1>0, <1>1, <1>2, <1>3

\* Without its first command a line is the rest of it (DispatchNext).
LEMMA RestIsThere ==
    ASSUME NEW l \in Seq(Commands), NEW q \in Seq(Commands), Removed(l, q)
    PROVE  \A i \in DOMAIN q : i + 1 \in DOMAIN l /\ l[i + 1] = q[i]
<1>1. SUFFICES ASSUME NEW i \in DOMAIN q PROVE i + 1 \in DOMAIN l /\ l[i + 1] = q[i]  OBVIOUS
<1>2. Len(q) \in Nat /\ DOMAIN q = 1 .. Len(q) /\ DOMAIN l = 1 .. Len(l)  OBVIOUS
<1>3. i \in 1 .. Len(q) /\ Len(l) = Len(q) + 1  BY <1>1, <1>2 DEF Removed
<1>4. i + 1 \in 1 .. Len(l)  BY <1>2, <1>3
<1>5. q[i] = l[i + 1]  BY <1>3 DEF Removed
<1> QED  BY <1>2, <1>4, <1>5

\* What the editor page promises follows.
LEMMA EditorPromises ==
    ASSUME EditorKeeps
    PROVE  EditorInv
<1>t. gui \in Members /\ InLine(gui, Line(gui)) /\ Line(gui) \in Seq(Commands) /\ gui.queue \in Seq(Commands)
  BY LineIs DEF EditorKeeps, EditorTypes, Members
<1>n. NoCommand.op = "none"  BY DEF NoCommand
<1>p. \A c \in Pending(gui) : c = NoCommand \/ \E i \in DOMAIN Line(gui) : Line(gui)[i] = c
 <2>1. SUFFICES ASSUME NEW c \in Pending(gui), c # NoCommand PROVE \E i \in DOMAIN Line(gui) : Line(gui)[i] = c
   OBVIOUS
 <2>2. CASE gui.current = NoCommand  BY <2>1, <2>2, <1>t, LineIs DEF Pending, Range
 <2>3. CASE gui.current # NoCommand
  <3>1. Removed(Line(gui), gui.queue) /\ Line(gui)[1] = gui.current /\ 1 \in DOMAIN Line(gui)
    BY <2>3, <1>t, FirstIsCurrent
  <3>2. \A i \in DOMAIN gui.queue : i + 1 \in DOMAIN Line(gui) /\ Line(gui)[i + 1] = gui.queue[i]
    BY <3>1, <1>t, RestIsThere
  <3> QED  BY <3>1, <3>2 DEF Pending, Range
 <2> QED  BY <2>2, <2>3
<1>1. NothingForgotten
 <2>1. OneOfAKind(Line(gui), "frame", gui.frameInFlight) /\ OneOfAKind(Line(gui), "audio", gui.audioInFlight)
   BY <1>t DEF InLine
 <2>2. gui.frameInFlight \in BOOLEAN /\ gui.audioInFlight \in BOOLEAN  BY <1>t DEF Members
 <2>3. Cardinality({i \in DOMAIN gui.queue : gui.queue[i].op = "frame"})
           + (IF gui.current.op = "frame" THEN 1 ELSE 0) = IF gui.frameInFlight THEN 1 ELSE 0
   BY <2>1, <2>2, <1>t, OneIsCounted
 <2>4. Cardinality({i \in DOMAIN gui.queue : gui.queue[i].op = "audio"})
           + (IF gui.current.op = "audio" THEN 1 ELSE 0) = IF gui.audioInFlight THEN 1 ELSE 0
   BY <2>1, <2>2, <1>t, OneIsCounted
 <2>5. gui.sessionBusy =>
           \E m \in Range(calls) \cup Range(answers) : m.gen = gui.sessionGeneration
   BY DEF EditorKeeps, OneRequest, Ours, Range
 <2>6. gui.active => gui.sessionBusy  BY DEF EditorKeeps, OneRequest
 <2> QED  BY <2>3, <2>4, <2>5, <2>6 DEF NothingForgotten
<1>2. FreshIsCurrent
 <2>1. SUFFICES ASSUME ~gui.stale
                PROVE  graph = gui.snapshot /\ \A c \in Pending(gui) : ~Loads(c)
   BY DEF FreshIsCurrent, Loads
 <2>2. \A i \in DOMAIN Line(gui) : ~Loads(Line(gui)[i])  BY <2>1, <1>t DEF InLine, FreshHasNoLoad
 <2> QED  BY <2>1, <2>2, <1>p, <1>n DEF EditorKeeps, FreshIsShown, Loads
<1>3. StaleIsRepaired
 <2>1. SUFFICES ASSUME healthy, ~outside, gui.ready, Idle, gui.stale PROVE FALSE
   BY DEF StaleIsRepaired
 <2>2. PICK i \in DOMAIN Line(gui) : Loads(Line(gui)[i])
   BY <2>1 DEF EditorKeeps, StaleIsInHand, InHand
 <2>3. gui.current = NoCommand /\ \A j \in DOMAIN gui.queue : gui.queue[j] = NoCommand
   BY <2>1 DEF Idle, Pending, Range
 <2>4. Line(gui)[i] = NoCommand  BY <2>3, <1>t, LineIs
 <2> QED  BY <2>2, <2>4, <1>n DEF Loads
<1> QED  BY <1>1, <1>2, <1>3 DEF EditorKeeps, FreshIsShown, EditorInv

\* Whatever the user does while the session worker and the engine answer late, fail or are
\* asked again: no request is forgotten, a preview that is not marked stale is one of the
\* timeline on the page, its picture is the frame at the playhead, a stale one is repaired
\* when nothing fails, the selection is on the timeline, and no sound from before a seek is
\* played (EditorController).
THEOREM EditorCorrect == EditorSpec => []EditorInv
<1>1. EditorInit => EditorKeeps  BY EditorStarts
<1>2. EditorKeeps /\ [EditorNext]_editorVars => EditorKeeps'  BY EditorSteps
<1>3. EditorKeeps => EditorInv  BY EditorPromises
<1> QED  BY <1>1, <1>2, <1>3, PTL DEF EditorSpec

-----------------------------------------------------------------------------
(* The editor: how much is under way at most *)

\* How many of the commands l the user has to wait for.
Work(l) == Cardinality({i \in DOMAIN l : l[i].op \in CountsAsBusy})

\* No position on the page g or in its commands lies beyond the longest timeline.
WithinLength(g) ==
    /\ g.playhead <= Length /\ g.audioPosition <= Length
    /\ \A i \in DOMAIN Line(g) : Line(g)[i].pos <= Length /\ Line(g)[i].doc.len <= Length

\* Commands of this generation are sent from a page that is open.
SentWhenReady(g) ==
    /\ ~g.stale => g.ready
    /\ g.ticking => g.ready
    /\ g.ready => g.sessionGeneration >= 1
    /\ \A i \in DOMAIN Line(g) : Line(g)[i].gen = g.generation => g.ready

\* What a page may still send without the user: the clock a pause, an edit its load.
Due(g) == (IF g.ticking THEN 1 ELSE 0) + (IF g.active THEN 1 ELSE 0)
Ceiling(g) == g.sessionGeneration + (IF g.ready THEN 2 ELSE 1)

PageFits(g) == WithinLength(g) /\ SentWhenReady(g) /\ Work(Line(g)) + Due(g) <= Ceiling(g)
Spare(g) == Work(Line(g)) + Due(g) + 1 <= Ceiling(g)

Known(d) == d.project \in Projects /\ d.len \in 1 .. Length /\ d.rev <= disk[d.project].rev

DocumentsAreKnown ==
    /\ \A p \in Projects : disk[p].project = p /\ disk[p].len \in 1 .. Length
    /\ gui.snapshot = NoDoc \/ Known(gui.snapshot)
    /\ \A i \in DOMAIN answers : answers[i].ok => Known(answers[i].doc)
    /\ graph.len <= Length
    /\ reply # NoReply /\ reply.ok /\ reply.op = "audio" => gui.current.pos < graph.len

\* No two messages to or from the session worker are of one opening.
MessagesDiffer ==
    /\ gui.sessionGeneration <= MaxOpens
    /\ \A i \in DOMAIN calls : calls[i].gen >= 1
    /\ \A i \in DOMAIN answers : answers[i].gen >= 1
    /\ \A i, j \in DOMAIN calls : calls[i].gen = calls[j].gen => i = j
    /\ \A i, j \in DOMAIN answers : answers[i].gen = answers[j].gen => i = j
    /\ \A i \in DOMAIN calls, j \in DOMAIN answers : calls[i].gen # answers[j].gen

EditorFits == PageFits(gui) /\ DocumentsAreKnown /\ MessagesDiffer

-----------------------------------------------------------------------------
(* The editor: how many commands wait *)

Waiting(l) == {i \in DOMAIN l : l[i].op \in CountsAsBusy}
OfKind(l, op) == {i \in DOMAIN l : l[i].op = op}

\* The commands the user waits for can be counted (isBusyCommand in EditorController).
LEMMA WorkIsNat ==
    ASSUME NEW l \in Seq(Commands)
    PROVE  Work(l) \in Nat /\ IsFiniteSet(Waiting(l)) /\ Work(l) = Cardinality(Waiting(l))
<1>1. Len(l) \in Nat /\ DOMAIN l = 1 .. Len(l)  OBVIOUS
<1>2. IsFiniteSet(1 .. Len(l))  BY <1>1, FS_Interval
<1>3. Waiting(l) \subseteq 1 .. Len(l)  BY <1>1 DEF Waiting
<1>4. IsFiniteSet(Waiting(l))  BY <1>2, <1>3, FS_Subset
<1> QED  BY <1>4, FS_CardinalityType DEF Work, Waiting

\* A command more, at whatever place, counts one if the user waits for it.
LEMMA InsertedWork ==
    ASSUME NEW l \in Seq(Commands), NEW m \in Seq(Commands), NEW k, NEW c, Inserted(l, k, c, m)
    PROVE  Work(m) = Work(l) + IF c.op \in CountsAsBusy THEN 1 ELSE 0
<1>0. /\ Len(l) \in Nat /\ DOMAIN l = 1 .. Len(l) /\ DOMAIN m = 1 .. Len(m)
      /\ k \in 0 .. Len(l) /\ Len(m) = Len(l) + 1
      /\ \A i \in 1 .. Len(m) : m[i] = IF i <= k THEN l[i] ELSE IF i = k + 1 THEN c ELSE l[i - 1]
  BY DEF Inserted
<1>1. PICK f : f = [i \in Waiting(l) |-> IF i <= k THEN i ELSE i + 1]  OBVIOUS
<1>2. PICK T : T = Waiting(m) \ {k + 1}  OBVIOUS
<1>3. \A i \in Waiting(l) : i \in 1 .. Len(l) /\ l[i].op \in CountsAsBusy  BY <1>0 DEF Waiting
<1>4. \A i \in Waiting(m) : i \in 1 .. Len(l) + 1 /\ m[i].op \in CountsAsBusy  BY <1>0 DEF Waiting
<1>5. f \in [Waiting(l) -> T]
 <2>1. SUFFICES ASSUME NEW i \in Waiting(l) PROVE (IF i <= k THEN i ELSE i + 1) \in T  BY <1>1
 <2>2. CASE i <= k  BY <2>1, <2>2, <1>0, <1>3, <1>2 DEF Waiting
 <2>3. CASE i > k  BY <2>1, <2>3, <1>0, <1>3, <1>2 DEF Waiting
 <2> QED  BY <2>1, <2>2, <2>3, <1>0, <1>3
<1>6. \A i, j \in Waiting(l) : f[i] = f[j] => i = j  BY <1>0, <1>1, <1>3
<1>7. \A j \in T : \E i \in Waiting(l) : f[i] = j
 <2>1. SUFFICES ASSUME NEW j \in T PROVE \E i \in Waiting(l) : f[i] = j  OBVIOUS
 <2>2. j \in 1 .. Len(l) + 1 /\ m[j].op \in CountsAsBusy /\ j # k + 1  BY <2>1, <1>2, <1>4
 <2>3. CASE j <= k  BY <2>2, <2>3, <1>0, <1>1 DEF Waiting
 <2>4. CASE j > k
  <3>1. j - 1 \in DOMAIN l /\ l[j - 1] = m[j] /\ ~(j - 1 <= k) /\ (j - 1) + 1 = j
    BY <2>2, <2>4, <1>0
  <3>2. j - 1 \in Waiting(l)  BY <3>1, <2>2 DEF Waiting
  <3> QED  BY <3>1, <3>2, <1>1
 <2> QED  BY <2>2, <2>3, <2>4, <1>0
<1>8. IsFiniteSet(T) /\ Cardinality(T) = Work(l)
  BY <1>5, <1>6, <1>7, WorkIsNat, FS_Bijection DEF IsInjective, Bijection, Injection, Surjection,
    ExistsBijection
<1>9. k + 1 \in Waiting(m) <=> c.op \in CountsAsBusy  BY <1>0 DEF Waiting
<1>10. CASE c.op \in CountsAsBusy
 <2>1. Waiting(m) = T \cup {k + 1} /\ k + 1 \notin T  BY <1>2, <1>9, <1>10
 <2> QED  BY <2>1, <1>8, <1>10, WorkIsNat, FS_AddElement
<1>11. CASE c.op \notin CountsAsBusy
 <2>1. Waiting(m) = T  BY <1>2, <1>9, <1>11
 <2> QED  BY <2>1, <1>8, <1>11, WorkIsNat
<1> QED  BY <1>10, <1>11

\* The controller without its current command has one less to wait for.
LEMMA AnsweredWork ==
    ASSUME NEW g \in Members, g.current # NoCommand
    PROVE  /\ g.queue \in Seq(Commands) /\ Line(g) \in Seq(Commands)
           /\ Work(Line(g)) = Work(g.queue) + IF g.current.op \in CountsAsBusy THEN 1 ELSE 0
           /\ 1 \in DOMAIN Line(g) /\ Line(g)[1] = g.current
           /\ \A i \in DOMAIN g.queue : \E j \in DOMAIN Line(g) : g.queue[i] = Line(g)[j]
<1>1. g.queue \in Seq(Commands) /\ Line(g) \in Seq(Commands)  BY LineIs DEF Members
<1>2. /\ Len(Line(g)) = Len(g.queue) + 1 /\ Line(g)[1] = g.current
      /\ \A i \in 1 .. Len(Line(g)) : i = 1 \/ Line(g)[i] = g.queue[i - 1]
  BY LineIs
<1>3. Inserted(g.queue, 0, g.current, Line(g))
 <2>1. Len(g.queue) \in Nat  BY <1>1
 <2>2. ASSUME NEW i \in 1 .. Len(Line(g))
       PROVE  Line(g)[i] = IF i <= 0 THEN g.queue[i] ELSE IF i = 0 + 1 THEN g.current ELSE g.queue[i - 1]
   BY <1>2, <2>1, <2>2
 <2> QED  BY <1>2, <2>1, <2>2 DEF Inserted
<1>4. Work(Line(g)) = Work(g.queue) + IF g.current.op \in CountsAsBusy THEN 1 ELSE 0
  BY <1>1, <1>3, InsertedWork
<1>5. 1 \in DOMAIN Line(g) /\ \A i \in DOMAIN g.queue : \E j \in DOMAIN Line(g) : g.queue[i] = Line(g)[j]
 <2>1. DOMAIN g.queue = 1 .. Len(g.queue) /\ DOMAIN Line(g) = 1 .. Len(g.queue) + 1 /\ Len(g.queue) \in Nat
   BY <1>1, <1>2
 <2>2. ASSUME NEW i \in DOMAIN g.queue PROVE i + 1 \in DOMAIN Line(g) /\ g.queue[i] = Line(g)[i + 1]
   BY <2>1, <2>2, <1>2
 <2> QED  BY <2>1, <2>2
<1> QED  BY <1>1, <1>2, <1>4, <1>5

\* A page that is not busy has none of them (EditorController::busy).
LEMMA NothingWaits ==
    ASSUME NEW g \in Members, ~Busy(g)
    PROVE  Work(Line(g)) = 0
<1>1. g.queue \in Seq(Commands) /\ Line(g) \in Seq(Commands)  BY LineIs DEF Members
<1>2. g.current.op \notin CountsAsBusy  BY DEF Busy, Pending
<1>3. \A i \in DOMAIN g.queue : g.queue[i].op \notin CountsAsBusy  BY DEF Busy, Pending, Range
<1>4. Waiting(g.queue) = {}  BY <1>3 DEF Waiting
<1>5. Work(g.queue) = 0  BY <1>1, <1>4, WorkIsNat, FS_EmptySet
<1>6. CASE g.current = NoCommand  BY <1>5, <1>6, LineIs
<1>7. CASE g.current # NoCommand  BY <1>2, <1>5, <1>7, AnsweredWork
<1> QED  BY <1>6, <1>7

\* Beside them at most one frame and one block of sound are on the way.
LEMMA LineIsShort ==
    ASSUME NEW g \in Members, InLine(g, Line(g))
    PROVE  Len(Line(g)) <= Work(Line(g)) + 2
<1>0. PICK l : l = Line(g)  OBVIOUS
<1>1. l \in Seq(Commands)  BY <1>0, LineIs
<1>2. Len(l) \in Nat /\ DOMAIN l = 1 .. Len(l) /\ \A i \in DOMAIN l : l[i] \in Commands  BY <1>1
<1>3. ASSUME NEW op, NEW a, OneOfAKind(l, op, a)
      PROVE  IsFiniteSet(OfKind(l, op)) /\ Cardinality(OfKind(l, op)) \in {0, 1}
 <2>1. CASE OfKind(l, op) = {}  BY <2>1, FS_EmptySet
 <2>2. CASE OfKind(l, op) # {}
  <3>1. PICK i \in OfKind(l, op) : TRUE  BY <2>2
  <3>2. OfKind(l, op) = {i}  BY <3>1, <1>3 DEF OneOfAKind, OfKind
  <3> QED  BY <3>2, FS_Singleton
 <2> QED  BY <2>1, <2>2
<1>4. OneOfAKind(l, "frame", g.frameInFlight) /\ OneOfAKind(l, "audio", g.audioInFlight)
  BY <1>0 DEF InLine
<1>5. PICK F, A : F = OfKind(l, "frame") /\ A = OfKind(l, "audio")  OBVIOUS
<1>6. /\ IsFiniteSet(F) /\ Cardinality(F) \in {0, 1} /\ IsFiniteSet(A) /\ Cardinality(A) \in {0, 1}
  BY <1>3, <1>4, <1>5
<1>7. 1 .. Len(l) = Waiting(l) \cup (F \cup A)
  BY <1>2, <1>5 DEF Waiting, OfKind, Commands, EngineOps
<1>8. IsFiniteSet(F \cup A) /\ Cardinality(F \cup A) <= 2
 <2>1. /\ IsFiniteSet(F \cup A)
       /\ Cardinality(F \cup A) = Cardinality(F) + Cardinality(A) - Cardinality(F \cap A)
   BY <1>6, FS_Union
 <2>2. IsFiniteSet(F \cap A)  BY <1>6, FS_Subset
 <2>3. Cardinality(F \cap A) \in Nat  BY <2>2, FS_CardinalityType
 <2> QED  BY <1>6, <2>1, <2>3
<1>9. Cardinality(1 .. Len(l)) <= Work(l) + 2
 <2>1. Cardinality(1 .. Len(l)) = Work(l) + Cardinality(F \cup A) - Cardinality(Waiting(l) \cap (F \cup A))
  <3>1. PICK W, B : W = Waiting(l) /\ B = F \cup A  OBVIOUS
  <3>2. IsFiniteSet(W) /\ Work(l) = Cardinality(W)  BY <1>1, <3>1, WorkIsNat DEF Work
  <3>3. Cardinality(W \cup B) = Cardinality(W) + Cardinality(B) - Cardinality(W \cap B)
    BY <1>8, <3>1, <3>2, FS_Union
  <3> QED  BY <1>7, <3>1, <3>2, <3>3
 <2>2. IsFiniteSet(Waiting(l) \cap (F \cup A))  BY <1>8, FS_Subset
 <2>3. Cardinality(Waiting(l) \cap (F \cup A)) \in Nat /\ Cardinality(F \cup A) \in Nat
   BY <2>2, <1>8, FS_CardinalityType
 <2> QED  BY <2>1, <2>3, <1>1, <1>8, WorkIsNat
<1>10. Cardinality(1 .. Len(l)) = Len(l)  BY <1>2, FS_Interval
<1> QED  BY <1>0, <1>9, <1>10

-----------------------------------------------------------------------------
(* The editor: what the controller's helpers do to the bounds *)

NumbersOf(g) ==
    /\ Length \in Nat /\ Work(Line(g)) \in Nat /\ g.sessionGeneration \in Nat
    /\ Due(g) \in 0 .. 2 /\ Ceiling(g) \in Nat

\* The counts of a page can be compared (EditorController).
LEMMA NumbersAre == ASSUME NEW g \in Members PROVE NumbersOf(g)
<1>1. Line(g) \in Seq(Commands)  BY LineIs
<1>2. Work(Line(g)) \in Nat /\ g.sessionGeneration \in Nat /\ Length \in Nat
  BY <1>1, WorkIsNat, EditorAssumption DEF Members, EditorAssumption
<1>3. Due(g) \in 0 .. 2  BY DEF Due
<1>4. Ceiling(g) \in Nat  BY <1>2 DEF Ceiling
<1> QED  BY <1>2, <1>3, <1>4 DEF NumbersOf

\* h is in the state of g, but for the clock, and counts as g does.
SameState(g, h) ==
    /\ h.sessionGeneration = g.sessionGeneration /\ h.generation = g.generation
    /\ h.active = g.active /\ h.ready = g.ready /\ h.stale = g.stale
    /\ h.snapshot = g.snapshot /\ h.playhead = g.playhead
    /\ g.current # NoCommand => h.current = g.current
SameCount(g, h) == SameState(g, h) /\ h.playing = g.playing /\ h.ticking = g.ticking

\* What leaves the flags and the generation alone leaves the counts (EditorController).
LEMMA SameCountIs ==
    ASSUME NEW g \in Members, NEW h \in Members, SameCount(g, h)
    PROVE  Due(h) = Due(g) /\ Ceiling(h) = Ceiling(g)
BY DEF SameCount, SameState, Due, Ceiling

\* A command within the bounds that is sent from a page that is open.
LEMMA BoundedSent ==
    ASSUME NEW n \in Members, NEW h \in Members, NEW c \in Commands, NEW k,
           Inserted(Line(n), k, c, Line(h)), SameCount(n, h), SameFlight(n, h),
           PageFits(n), n.ready, c.pos <= Length, c.doc.len <= Length,
           c.op \in CountsAsBusy => Spare(n)
    PROVE  PageFits(h)
<1>1. Line(n) \in Seq(Commands) /\ Line(h) \in Seq(Commands)  BY LineIs
<1>2. Work(Line(h)) = Work(Line(n)) + IF c.op \in CountsAsBusy THEN 1 ELSE 0  BY <1>1, InsertedWork
<1>3. Due(h) = Due(n) /\ Ceiling(h) = Ceiling(n)  BY SameCountIs
<1>4. \A i \in DOMAIN Line(h) : Line(h)[i] = c \/ \E j \in DOMAIN Line(n) : Line(h)[i] = Line(n)[j]
  BY <1>1, InsertedIs
<1>5. WithinLength(h)  BY <1>4 DEF PageFits, WithinLength, SameCount, SameState, SameFlight
<1>6. SentWhenReady(h)  BY DEF SameCount, SameState, PageFits, SentWhenReady
<1>7. Work(Line(h)) + Due(h) <= Ceiling(h)
 <2>1. NumbersOf(n)  BY NumbersAre
 <2> QED  BY <1>2, <1>3, <2>1 DEF PageFits, Spare, NumbersOf
<1> QED  BY <1>5, <1>6, <1>7 DEF PageFits

\* A command put at the back or the front of the queue (EditorController::queueLoad,
\* queueFrame): one the user waits for needs a spare place.
LEMMA PushedFits ==
    ASSUME NEW n \in Members, NEW c \in Commands, PageFits(n), n.ready,
           c.pos <= Length, c.doc.len <= Length, c.op \in CountsAsBusy => Spare(n)
    PROVE  /\ PushBack(n, c) \in Members /\ PageFits(PushBack(n, c)) /\ SameCount(n, PushBack(n, c))
           /\ PushFront(n, c) \in Members /\ PageFits(PushFront(n, c)) /\ SameCount(n, PushFront(n, c))
<1>1. /\ PushBack(n, c) \in Members /\ Inserted(Line(n), Len(Line(n)), c, Line(PushBack(n, c)))
      /\ SameCount(n, PushBack(n, c)) /\ SameFlight(n, PushBack(n, c))
  BY PushedBack DEF SameCount, SameState, SamePage
<1>2. PICK k : k = IF n.current = NoCommand THEN 0 ELSE 1  OBVIOUS
<1>3. /\ PushFront(n, c) \in Members /\ Inserted(Line(n), k, c, Line(PushFront(n, c)))
      /\ SameCount(n, PushFront(n, c)) /\ SameFlight(n, PushFront(n, c))
  BY <1>2, PushedFront DEF SameCount, SameState, SamePage
<1>4. PageFits(PushBack(n, c))  BY <1>1, BoundedSent
<1>5. PageFits(PushFront(n, c))  BY <1>3, BoundedSent
<1> QED  BY <1>1, <1>3, <1>4, <1>5

\* What changes neither commands nor counts keeps the bounds.
LEMMA AsideFits ==
    ASSUME NEW g \in Members, NEW h \in Members, PageFits(g),
           h.queue = g.queue, h.current = g.current, SameCount(g, h), h.audioPosition <= Length
    PROVE  PageFits(h) /\ (Spare(g) => Spare(h))
  BY SameCountIs DEF Line, PageFits, WithinLength, SameCount, SameState, SentWhenReady, Spare

\* A frame is asked for within the timeline (EditorController::queueFrame).
LEMMA FrameFits ==
    ASSUME NEW g \in Members, PageFits(g), g.snapshot.len <= Length, NEW pos \in Nat, pos <= Length
    PROVE  /\ QueueFrame(g, pos) \in Members /\ PageFits(QueueFrame(g, pos))
           /\ SameCount(g, QueueFrame(g, pos))
<1>1. CASE g.snapshot = NoDoc \/ g.stale \/ g.frameInFlight
  BY <1>1 DEF QueueFrame, SameCount, SameState
<1>2. CASE ~(g.snapshot = NoDoc \/ g.stale \/ g.frameInFlight)
 <2>1. PICK n : n = [g EXCEPT !.frameInFlight = TRUE]  OBVIOUS
 <2>2. /\ n \in Members /\ n.queue = g.queue /\ n.current = g.current /\ SameCount(g, n)
       /\ n.audioPosition = g.audioPosition
   BY <2>1 DEF Members, SameState, SameCount
 <2>3. PageFits(n)  BY <2>2, AsideFits DEF PageFits, WithinLength
 <2>4. PICK c \in Commands : c = Command(g, "frame", g.snapshot, pos) /\ c.op = "frame"
                             /\ c.doc = g.snapshot /\ c.pos = pos
  <3>1. "frame" \in EngineOps /\ g.snapshot \in Docs  BY DEF EngineOps, Members
  <3> QED  BY <3>1, CommandTyped
 <2>5. QueueFrame(g, pos) = PushBack(n, c)  BY <1>2, <2>1, <2>4 DEF QueueFrame
 <2>6. n.ready  BY <1>2, <2>2 DEF PageFits, SentWhenReady, SameCount, SameState
 <2>7. PushBack(n, c) \in Members /\ PageFits(PushBack(n, c)) /\ SameCount(n, PushBack(n, c))
   BY <2>2, <2>3, <2>4, <2>6, PushedFits DEF CountsAsBusy
 <2> QED  BY <2>2, <2>5, <2>7 DEF SameCount, SameState
<1> QED  BY <1>1, <1>2

\* Sound is asked for within the timeline (EditorController::scheduleAudioPull).
LEMMA PullFits ==
    ASSUME NEW g \in Members, PageFits(g), g.snapshot.len <= Length, NEW full
    PROVE  /\ ScheduleAudioPull(g, full) \in Members /\ PageFits(ScheduleAudioPull(g, full))
           /\ SameCount(g, ScheduleAudioPull(g, full))
<1>1. CASE ScheduleAudioPull(g, full) = g  BY <1>1 DEF SameCount, SameState
<1>2. CASE ScheduleAudioPull(g, full) # g
 <2>0. g.ticking  BY <1>2 DEF ScheduleAudioPull
 <2>1. PICK n : n = [g EXCEPT !.audioInFlight = TRUE]  OBVIOUS
 <2>2. /\ n \in Members /\ n.queue = g.queue /\ n.current = g.current /\ SameCount(g, n)
       /\ n.audioPosition = g.audioPosition
   BY <2>1 DEF Members, SameState, SameCount
 <2>p. g.audioPosition \in Nat /\ g.audioPosition <= Length  BY DEF Members, PageFits, WithinLength
 <2>3. PageFits(n)  BY <2>2, <2>p, AsideFits
 <2>4. PICK c \in Commands : c = Command(g, "audio", g.snapshot, g.audioPosition) /\ c.op = "audio"
                             /\ c.doc = g.snapshot /\ c.pos = g.audioPosition
  <3>1. "audio" \in EngineOps /\ g.snapshot \in Docs  BY DEF EngineOps, Members
  <3> QED  BY <3>1, <2>p, CommandTyped
 <2>5. ScheduleAudioPull(g, full) = PushFront(n, c)  BY <1>2, <2>1, <2>4 DEF ScheduleAudioPull
 <2>6. n.ready  BY <2>0, <2>2 DEF PageFits, SentWhenReady, SameCount, SameState
 <2>7. PushFront(n, c) \in Members /\ PageFits(PushFront(n, c)) /\ SameCount(n, PushFront(n, c))
   BY <2>2, <2>3, <2>4, <2>6, <2>p, PushedFits DEF CountsAsBusy
 <2> QED  BY <2>2, <2>5, <2>7 DEF SameCount, SameState
<1> QED  BY <1>1, <1>2

\* A seek within the timeline restarts the sound within it (restartAudioPull).
LEMMA RestartFits ==
    ASSUME NEW g \in Members, PageFits(g), g.snapshot.len <= Length, NEW from \in Nat, from <= Length, NEW full
    PROVE  /\ RestartAudioPull(g, from, full) \in Members /\ PageFits(RestartAudioPull(g, from, full))
           /\ SameCount(g, RestartAudioPull(g, from, full))
<1>1. PICK n : n = [g EXCEPT !.audioPosition = from, !.audioInvalidated = @ \/ g.audioInFlight]
  OBVIOUS
<1>2. /\ n \in Members /\ n.queue = g.queue /\ n.current = g.current /\ SameCount(g, n)
      /\ n.audioPosition = from /\ n.snapshot = g.snapshot
  BY ZenonT(40), <1>1 DEF Members, SameState, SameCount
<1>3. PageFits(n)  BY <1>2, AsideFits
<1>4. RestartAudioPull(g, from, full) = ScheduleAudioPull(n, full)  BY <1>1 DEF RestartAudioPull
<1>5. /\ ScheduleAudioPull(n, full) \in Members /\ PageFits(ScheduleAudioPull(n, full))
      /\ SameCount(n, ScheduleAudioPull(n, full))
  BY <1>2, <1>3, PullFits
<1> QED  BY <1>2, <1>4, <1>5 DEF SameCount, SameState

\* Without the clock.
LEMMA ClockStops ==
    ASSUME NEW g \in Members, NEW n \in Members, PageFits(g), SameState(g, n), ~n.ticking,
           n.queue = g.queue, n.current = g.current, n.audioPosition = g.audioPosition
    PROVE  PageFits(n) /\ (g.ticking \/ Spare(g) => Spare(n))
<1>4. Line(n) = Line(g)  BY DEF Line
<1>5. Ceiling(n) = Ceiling(g) /\ Due(n) + (IF g.ticking THEN 1 ELSE 0) = Due(g)
  BY DEF Ceiling, Due, SameState
<1>6. WithinLength(n)  BY <1>4 DEF PageFits, WithinLength, SameState
<1>7. SentWhenReady(n)  BY <1>4 DEF SameState, PageFits, SentWhenReady
<1>8. NumbersOf(g) /\ NumbersOf(n)  BY NumbersAre
<1>9. Work(Line(n)) + Due(n) <= Ceiling(n) /\ (g.ticking \/ Spare(g) => Spare(n))
  BY <1>4, <1>5, <1>8 DEF PageFits, Spare, NumbersOf
<1> QED  BY <1>6, <1>7, <1>9 DEF PageFits

\* Stopping the playback stops the clock (EditorController::setPlaying).
LEMMA StopFits ==
    ASSUME NEW g \in Members, PageFits(g)
    PROVE  /\ StopPlaying(g) \in Members /\ PageFits(StopPlaying(g)) /\ SameState(g, StopPlaying(g))
           /\ ~StopPlaying(g).ticking
           /\ StopPlaying(g).queue = g.queue /\ StopPlaying(g).current = g.current
           /\ g.ticking \/ Spare(g) => Spare(StopPlaying(g))
<1>1. PICK n : n = StopPlaying(g)  OBVIOUS
<1>2. /\ n \in Members /\ n.queue = g.queue /\ n.current = g.current
      /\ n.audioPosition = g.audioPosition /\ SameState(g, n)
  BY <1>1 DEF StopPlaying, Members, SameState
<1>3. ~n.ticking  BY <1>1, Zenon DEF StopPlaying, Members
<1>4. PageFits(n) /\ (g.ticking \/ Spare(g) => Spare(n))  BY <1>2, <1>3, ClockStops
<1> QED  BY <1>1, <1>2, <1>3, <1>4

\* Starting it with a place to spare leaves the place the pause will need (setPlaying).
LEMMA StartFits ==
    ASSUME NEW g \in Members, PageFits(g), Spare(g), g.ready, g.snapshot.len <= Length, NEW full
    PROVE  /\ StartPlaying(g, full) \in Members /\ PageFits(StartPlaying(g, full))
           /\ SameState(g, StartPlaying(g, full))
<1>1. CASE g.playing  BY <1>1 DEF StartPlaying, SameState
<1>2. CASE ~g.playing
 <2>1. PICK n : n = [g EXCEPT !.playing = TRUE, !.ticking = TRUE]  OBVIOUS
 <2>2. /\ n \in Members /\ n.queue = g.queue /\ n.current = g.current
       /\ n.audioPosition = g.audioPosition /\ SameState(g, n)
   BY <2>1 DEF Members, SameState
 <2>3. Line(n) = Line(g)  BY <2>2 DEF Line
 <2>4. Ceiling(n) = Ceiling(g) /\ Due(n) <= Due(g) + 1 /\ Due(n) \in 0 .. 2
   BY <2>2 DEF Ceiling, Due, SameState
 <2>5. NumbersOf(g)  BY NumbersAre
 <2>6. Work(Line(n)) + Due(n) <= Ceiling(n)  BY <2>3, <2>4, <2>5 DEF Spare, NumbersOf
 <2>7. WithinLength(n)  BY <2>2, <2>3 DEF PageFits, WithinLength, SameState
 <2>8. SentWhenReady(n)  BY <2>2 DEF SameState, SentWhenReady, PageFits
 <2>9. PageFits(n)  BY <2>6, <2>7, <2>8 DEF PageFits
 <2>10. g.playhead \in Nat /\ g.playhead <= Length /\ n.snapshot = g.snapshot
   BY <2>2 DEF Members, PageFits, WithinLength, SameState
 <2>11. StartPlaying(g, full) = RestartAudioPull(n, g.playhead, full)
   BY <1>2, <2>1 DEF StartPlaying
 <2>12. /\ RestartAudioPull(n, g.playhead, full) \in Members
        /\ PageFits(RestartAudioPull(n, g.playhead, full))
        /\ SameCount(n, RestartAudioPull(n, g.playhead, full))
   BY <2>2, <2>9, <2>10, RestartFits
 <2> QED  BY <2>2, <2>11, <2>12 DEF SameCount, SameState
<1> QED  BY <1>1, <1>2

\* play, pause and seek
LEMMA ControlFits ==
    ASSUME NEW n \in Members, PageFits(n), Spare(n), n.ready,
           NEW op \in {"play", "pause", "seek"}, NEW pos \in Nat, pos <= Length
    PROVE  /\ PushBack(n, Command(n, op, NoDoc, pos)) \in Members
           /\ PageFits(PushBack(n, Command(n, op, NoDoc, pos)))
           /\ SameCount(n, PushBack(n, Command(n, op, NoDoc, pos)))
<1>1. PICK c \in Commands : c = Command(n, op, NoDoc, pos) /\ c.pos = pos /\ c.doc = NoDoc
  BY CommandTyped DEF EngineOps, CountsAsBusy, Docs, NoDoc
<1>2. c.doc.len <= Length  BY <1>1, EditorAssumption DEF NoDoc, EditorAssumption
<1> QED  BY <1>1, <1>2, PushedFits

\* The next command leaves the queue and becomes the current one (dispatchNext).
LEMMA DispatchFits ==
    ASSUME NEW g \in Members, PageFits(g)
    PROVE  DispatchNext(g) \in Members /\ PageFits(DispatchNext(g)) /\ SameCount(g, DispatchNext(g))
<1>1. PICK h : h = DispatchNext(g)  OBVIOUS
<1>2. /\ h \in Members /\ Line(h) = Line(g) /\ SameCount(g, h) /\ SameFlight(g, h)
  BY <1>1, Dispatched DEF SameCount, SameState, SamePage
<1>3. Due(h) = Due(g) /\ Ceiling(h) = Ceiling(g)  BY <1>2, SameCountIs
<1>4. WithinLength(h)  BY <1>2 DEF PageFits, WithinLength, SameCount, SameState, SameFlight
<1>5. SentWhenReady(h)  BY <1>2 DEF SameCount, SameState, PageFits, SentWhenReady
<1> QED  BY <1>1, <1>2, <1>3, <1>4, <1>5 DEF PageFits

-----------------------------------------------------------------------------
(* The editor: the page's actions keep the bounds *)

\* A page that is not busy has a place to spare (EditorController::busy).
LEMMA FreeIsSpare ==
    ASSUME NEW g \in Members, PageFits(g), g.ready, ~Busy(g)
    PROVE  Spare(g)
<1>1. Work(Line(g)) = 0 /\ NumbersOf(g)  BY NothingWaits, NumbersAre
<1>2. Ceiling(g) >= 3  BY <1>1 DEF PageFits, SentWhenReady, Ceiling, NumbersOf
<1> QED  BY <1>1, <1>2 DEF Spare, NumbersOf

\* The timeline on the page is no longer than the longest (EditorController).
LEMMA SnapshotIsShort ==
    ASSUME EditorKeeps, EditorFits
    PROVE  /\ gui \in Members /\ PageFits(gui) /\ Length \in Nat
           /\ gui.snapshot.len \in Nat /\ gui.snapshot.len <= Length
<1>1. gui \in Members /\ PageFits(gui) /\ Length \in Nat
  BY EditorAssumption DEF EditorAssumption, EditorKeeps, EditorTypes, EditorFits
<1>2. gui.snapshot \in Docs  BY <1>1 DEF Members
<1> QED  BY <1>1, <1>2 DEF EditorFits, DocumentsAreKnown, Known, NoDoc, Docs

\* The page moves and nothing else does.
LEMMA PageMoves ==
    ASSUME EditorKeeps, EditorFits, UNCHANGED <<sessionVars, engineVars>>,
           SameState(gui, gui') \/ (gui'.snapshot = gui.snapshot /\ gui'.sessionGeneration = gui.sessionGeneration
                                    /\ (gui.current # NoCommand => gui'.current = gui.current)),
           PageFits(gui')
    PROVE  EditorFits'
  BY DEF sessionVars, engineVars, SameState, EditorKeeps, EngineAnswers, EditorFits,
    DocumentsAreKnown, Known, MessagesDiffer

\* Play, Pause and Seek keep the bounds (EditorController::play, pause, seek).
LEMMA ControlActionsFit ==
    ASSUME EditorKeeps, EditorFits, Play \/ Pause \/ \E pos \in 0 .. Length : Seek(pos)
    PROVE  EditorFits'
<1>t. gui \in Members /\ PageFits(gui) /\ Length \in Nat  BY SnapshotIsShort
<1>u. UNCHANGED <<sessionVars, engineVars>> /\ PreviewReady  BY DEF Play, Pause, Seek
<1>r. gui.ready /\ ~Busy(gui) /\ Spare(gui)
  BY <1>u, <1>t, FreeIsSpare DEF PreviewReady, PageFits, SentWhenReady
<1>1. CASE Play  BY <1>1, <1>t, <1>r, ControlFits, <1>u, PageMoves DEF Play, SameCount
<1>2. CASE Pause
 <2>1. PICK n : n = [gui EXCEPT !.ticking = FALSE]  OBVIOUS
 <2>2. /\ n \in Members /\ n.queue = gui.queue /\ n.current = gui.current
       /\ n.audioPosition = gui.audioPosition /\ SameState(gui, n)
   BY <2>1, <1>t DEF Members, SameState
 <2>3. ~n.ticking  BY <2>1, <1>t, Zenon DEF Members
 <2>4. PageFits(n) /\ Spare(n)  BY <2>2, <2>3, <1>t, <1>r, ClockStops
 <2>5. Command(gui, "pause", NoDoc, 0) = Command(n, "pause", NoDoc, 0)
   BY <2>2 DEF Command, SameState
 <2>6. gui' = PushBack(n, Command(n, "pause", NoDoc, 0))  BY <1>2, <2>1, <2>5 DEF Pause
 <2>7. n.ready  BY <2>2, <1>r, Zenon DEF SameState
 <2>8. PageFits(gui') /\ SameCount(n, gui')  BY <2>2, <2>4, <2>6, <2>7, <1>t, ControlFits
 <2>9. SameState(gui, gui')  BY <2>2, <2>8 DEF SameCount, SameState
 <2> QED  BY <2>8, <2>9, <1>u, PageMoves
<1>3. CASE \E pos \in 0 .. Length : Seek(pos)
 <2>1. PICK pos \in 0 .. Length : gui' = PushBack(gui, Command(gui, "seek", NoDoc, pos))
   BY <1>3 DEF Seek
 <2>2. pos \in Nat /\ pos <= Length  BY <1>t
 <2>3. PageFits(gui') /\ SameCount(gui, gui')  BY <2>1, <2>2, <1>t, <1>r, ControlFits
 <2> QED  BY <2>3, <1>u, PageMoves DEF SameCount
<1> QED  BY <1>1, <1>2, <1>3

\* A tick of the playback clock keeps the bounds (requestPlaybackFrame).
LEMMA TickFits ==
    ASSUME EditorKeeps, EditorFits, NEW pos \in 0 .. Length, NEW full, Tick(pos, full)
    PROVE  EditorFits'
<1>t. /\ gui \in Members /\ PageFits(gui) /\ Length \in Nat
      /\ gui.snapshot.len \in Nat /\ gui.snapshot.len <= Length
  BY SnapshotIsShort
<1>u. UNCHANGED <<sessionVars, engineVars>> /\ gui.ticking  BY DEF Tick
<1>g. PICK g : g = ScheduleAudioPull(gui, full)  OBVIOUS
<1>1. g \in Members /\ PageFits(g) /\ SameCount(gui, g)  BY <1>g, <1>t, PullFits
<1>2. PICK last : last = g.snapshot.len - 1  OBVIOUS
<1>3. /\ g.snapshot.len \in Nat /\ g.snapshot.len <= Length /\ last \in Int /\ last <= Length
      /\ g.playhead \in Nat
  BY SMTT(40), <1>1, <1>2, <1>t DEF SameCount, SameState, Members
<1>4. ASSUME NEW h \in Members, PageFits(h), SameCount(gui, h)
      PROVE  /\ PageFits(PushBack(StopPlaying(h), Command(h, "pause", NoDoc, 0)))
             /\ SameState(gui, PushBack(StopPlaying(h), Command(h, "pause", NoDoc, 0)))
 <2>1. PICK n : n = StopPlaying(h)  OBVIOUS
 <2>2. h.ticking /\ h.ready  BY <1>4, <1>u DEF SameCount, PageFits, SentWhenReady
 <2>3. n \in Members /\ PageFits(n) /\ SameState(h, n) /\ Spare(n)  BY <2>1, <2>2, <1>4, StopFits
 <2>4. Command(h, "pause", NoDoc, 0) = Command(n, "pause", NoDoc, 0)  BY <2>3 DEF Command, SameState
 <2>5. n.ready  BY <2>2, <2>3, Zenon DEF SameState
 <2>6. /\ PageFits(PushBack(n, Command(n, "pause", NoDoc, 0)))
       /\ SameCount(n, PushBack(n, Command(n, "pause", NoDoc, 0)))
   BY <2>3, <2>5, <1>t, ControlFits
 <2>7. SameState(gui, PushBack(n, Command(n, "pause", NoDoc, 0)))
   BY <1>4, <2>3, <2>6 DEF SameCount, SameState
 <2> QED  BY <2>1, <2>4, <2>6, <2>7
<1>5. ASSUME NEW p \in Nat, p <= Length
      PROVE  /\ QueueFrame(g, p) \in Members /\ PageFits(QueueFrame(g, p))
             /\ SameCount(gui, QueueFrame(g, p))
  BY <1>1, <1>3, <1>5, FrameFits DEF SameCount, SameState
<1>6. PageFits(gui') /\ SameState(gui, gui')
 <2>1. \/ gui' = g
       \/ \E h : /\ gui' = PushBack(StopPlaying(h), Command(h, "pause", NoDoc, 0))
                 /\ h = IF last > g.playhead THEN QueueFrame(g, last) ELSE g
       \/ gui' = QueueFrame(g, pos)
   BY <1>g, <1>2 DEF Tick
 <2>2. (last > g.playhead => last \in Nat) /\ pos \in Nat /\ pos <= Length  BY <1>3, <1>t
 <2>3. CASE gui' = g  BY <2>3, <1>1 DEF SameCount
 <2>4. CASE gui' = QueueFrame(g, pos)  BY <2>2, <2>4, <1>5 DEF SameCount
 <2>5. CASE \E h : /\ gui' = PushBack(StopPlaying(h), Command(h, "pause", NoDoc, 0))
                   /\ h = IF last > g.playhead THEN QueueFrame(g, last) ELSE g
  <3>1. PICK h : /\ gui' = PushBack(StopPlaying(h), Command(h, "pause", NoDoc, 0))
                 /\ h = IF last > g.playhead THEN QueueFrame(g, last) ELSE g
    BY <2>5
  <3>2. h \in Members /\ PageFits(h) /\ SameCount(gui, h)  BY <3>1, <2>2, <1>1, <1>3, <1>5
  <3> QED  BY <3>1, <3>2, <1>4
 <2> QED  BY <2>1, <2>3, <2>4, <2>5
<1> QED  BY <1>6, <1>u, PageMoves

\* Selecting and marking keep the bounds (EditorController::selectClip, markRangeIn, markRangeOut).
LEMMA PageActionsFit ==
    ASSUME EditorKeeps, EditorFits, gui' \in Members,
           (\E kind \in {"video", "title", "caption"} : SelectClip(kind)) \/ MarkRangeIn \/ MarkRangeOut
    PROVE  EditorFits'
<1>t. gui \in Members /\ PageFits(gui)  BY SnapshotIsShort
<1>u. UNCHANGED <<sessionVars, engineVars>>  BY DEF SelectClip, MarkRangeIn, MarkRangeOut
<1>1. /\ gui'.queue = gui.queue /\ gui'.current = gui.current
      /\ gui'.audioPosition = gui.audioPosition /\ SameCount(gui, gui')
 <2>1. CASE \E kind \in {"video", "title", "caption"} : SelectClip(kind)
   BY <2>1, <1>t DEF SelectClip, Members, SameCount, SameState
 <2>2. CASE MarkRangeIn  BY <2>2, <1>t DEF MarkRangeIn, Members, SameCount, SameState
 <2>3. CASE MarkRangeOut  BY <2>3, <1>t DEF MarkRangeOut, Members, SameCount, SameState
 <2> QED  BY <2>1, <2>2, <2>3
<1>2. gui'.audioPosition <= Length  BY <1>1, <1>t DEF PageFits, WithinLength
<1>3. PageFits(gui')  BY <1>1, <1>2, <1>t, AsideFits
<1> QED  BY <1>1, <1>3, <1>u, PageMoves DEF SameCount

-----------------------------------------------------------------------------
(* The editor: requests to the session worker and its answers *)

\* Opening a project is one opening more, and room for one load more (openProject).
LEMMA OpenProjectFits ==
    ASSUME EditorKeeps, EditorFits, gui' \in Members, NEW p \in Projects, OpenProject(p)
    PROVE  EditorFits'
<1>t. gui \in Members /\ PageFits(gui) /\ calls \in Seq(Calls) /\ answers \in Seq(Answers) /\ OneRequest
  BY SnapshotIsShort DEF EditorKeeps, EditorTypes
<1>u. UNCHANGED <<disk, answers, graph, reply>>  BY DEF OpenProject, engineVars
<1>1. PICK n : n = StopPlaying(gui)  OBVIOUS
<1>2. n \in Members /\ PageFits(n) /\ SameState(gui, n) /\ n.queue = gui.queue /\ n.current = gui.current
  BY <1>1, <1>t, StopFits
<1>n. ~n.ticking  BY <1>1, <1>t, StopFits
<1>3. gui' = [n EXCEPT !.sessionGeneration = @ + 1, !.generation = @ + 1,
                  !.active = FALSE, !.ready = FALSE, !.derived = FALSE,
                  !.selected = "none", !.rangeIn = NoMark, !.rangeOut = NoMark,
                  !.image = NoImage, !.stale = TRUE, !.sessionBusy = TRUE]
  BY <1>1 DEF OpenProject
<1>4. /\ gui'.sessionGeneration = n.sessionGeneration + 1 /\ gui'.generation = n.generation + 1
      /\ gui'.queue = n.queue /\ gui'.current = n.current /\ gui'.playhead = n.playhead
      /\ gui'.audioPosition = n.audioPosition /\ gui'.snapshot = n.snapshot
      /\ gui'.ticking = n.ticking
  BY ZenonT(40), <1>2, <1>3 DEF Members
<1>5. ~gui'.active /\ ~gui'.ready /\ gui'.stale /\ ~gui'.ticking
 <2>1. ~gui'.active /\ ~gui'.ready /\ gui'.stale  BY <1>2, <1>3, ZenonT(40) DEF Members
 <2> QED  BY <2>1, <1>4, <1>n, Zenon
<1>6. Line(gui') = Line(gui) /\ Line(n) = Line(gui)  BY <1>2, <1>4 DEF Line
<1>7. gui'.sessionGeneration = gui.sessionGeneration + 1 /\ gui'.generation = gui.generation + 1
      /\ gui.sessionGeneration \in Nat /\ gui.generation \in Nat /\ gui'.snapshot = gui.snapshot
      /\ gui'.current = gui.current
  BY <1>2, <1>4, <1>t DEF SameState, Members
<1>8. PageFits(gui')
 <2>1. WithinLength(gui')  BY <1>2, <1>4, <1>6 DEF PageFits, WithinLength
 <2>2. \A i \in DOMAIN Line(gui) : Line(gui)[i].gen <= gui.generation /\ Line(gui)[i].gen \in Nat
  <3>1. Line(gui) \in Seq(Commands)  BY <1>t, LineIs
  <3>2. \A i \in DOMAIN Line(gui) : Line(gui)[i].gen <= gui.generation
    BY DEF EditorKeeps, InLine, LastLoadCounts
  <3> QED
   <4>1. \A i \in DOMAIN Line(gui) : Line(gui)[i] \in Commands  BY <3>1, Elements
   <4> QED  BY <3>2, <4>1 DEF Commands
 <2>3. SentWhenReady(gui')  BY <2>2, <1>5, <1>6, <1>7 DEF SentWhenReady
 <2>4. Due(gui') = 0 /\ Ceiling(gui') = gui.sessionGeneration + 2  BY <1>5, <1>7 DEF Due, Ceiling
 <2>5. NumbersOf(gui) /\ Work(Line(gui)) + Due(gui) <= Ceiling(gui) /\ Ceiling(gui) <= gui.sessionGeneration + 2
   BY <1>t, <1>7, NumbersAre DEF PageFits, Ceiling
 <2>6. Work(Line(gui')) + Due(gui') <= Ceiling(gui')  BY <2>4, <2>5, <1>6, <1>7 DEF NumbersOf
 <2> QED  BY <2>1, <2>3, <2>6 DEF PageFits
<1>9. DocumentsAreKnown'  BY <1>u, <1>7 DEF EditorFits, DocumentsAreKnown, Known
<1>10. MessagesDiffer'
 <2>1. PICK m : /\ calls' = Append(calls, m) /\ m.gen = gui.sessionGeneration + 1
   BY DEF OpenProject
 <2>2. /\ DOMAIN calls' = DOMAIN calls \cup {Len(calls) + 1}
       /\ \A i \in DOMAIN calls : calls'[i] = calls[i] /\ i # Len(calls) + 1
       /\ calls'[Len(calls) + 1] = m
   BY <2>1, <1>t
 <2>3. /\ \A i \in DOMAIN calls : calls[i].gen # m.gen
       /\ \A i \in DOMAIN answers : answers[i].gen # m.gen
  <3>1. /\ \A i \in DOMAIN calls : calls[i].gen \in Nat /\ calls[i].gen <= gui.sessionGeneration
        /\ \A i \in DOMAIN answers : answers[i].gen \in Nat /\ answers[i].gen <= gui.sessionGeneration
   <4>1. (\A i \in DOMAIN calls : calls[i] \in Calls) /\ \A i \in DOMAIN answers : answers[i] \in Answers
     BY <1>t, Elements
   <4> QED  BY <1>t, <4>1 DEF OneRequest, Fits, Calls, Answers
  <3> QED  BY <3>1, <2>1, <1>7
 <2>4. gui.sessionGeneration + 1 <= MaxOpens /\ m.gen >= 1
   BY <2>1, <1>7, EditorAssumption DEF OpenProject, EditorAssumption
 <2> QED  BY <2>2, <2>3, <2>4, <1>7, <1>u DEF EditorFits, MessagesDiffer
<1> QED  BY <1>8, <1>9, <1>10 DEF EditorFits

\* An edit is sent when no other is under way (EditorController::queueSessionEdit).
LEMMA SessionEditFits ==
    ASSUME EditorKeeps, EditorFits, gui' \in Members, NEW op, QueueSessionEdit(op)
    PROVE  EditorFits'
<1>t. /\ gui \in Members /\ PageFits(gui) /\ calls \in Seq(Calls) /\ answers \in Seq(Answers) /\ OneRequest
      /\ Length \in Nat
  BY SnapshotIsShort DEF EditorKeeps, EditorTypes
<1>u. UNCHANGED <<disk, answers, graph, reply>>  BY DEF QueueSessionEdit, engineVars
<1>r. gui.ready /\ ~Busy(gui) /\ ~gui.sessionBusy /\ Spare(gui) /\ ~gui.active
  BY <1>t, FreeIsSpare DEF QueueSessionEdit, EditingReady, OneRequest
<1>1. PICK g : /\ g = IF gui.playing
                      THEN PushBack(StopPlaying(gui), Command(gui, "pause", NoDoc, 0)) ELSE gui
               /\ gui' = [g EXCEPT !.active = TRUE, !.sessionBusy = TRUE]
  BY DEF QueueSessionEdit
<1>2. g \in Members /\ PageFits(g) /\ SameState(gui, g) /\ Work(Line(g)) + (IF g.ticking THEN 1 ELSE 0) <= 1
 <2>0. Work(Line(gui)) = 0  BY <1>t, <1>r, NothingWaits
 <2>1. CASE ~gui.playing  BY <2>0, <2>1, <1>1, <1>t DEF SameState
 <2>2. CASE gui.playing
  <3>1. PICK n : n = StopPlaying(gui)  OBVIOUS
  <3>2. n \in Members /\ PageFits(n) /\ SameState(gui, n) /\ Spare(n) /\ n.queue = gui.queue /\ n.current = gui.current
    BY <3>1, <1>t, <1>r, StopFits
  <3>n. ~n.ticking  BY <3>1, <1>t, StopFits
  <3>3. Command(gui, "pause", NoDoc, 0) = Command(n, "pause", NoDoc, 0)
    BY <3>2 DEF Command, SameState
  <3>4. g = PushBack(n, Command(n, "pause", NoDoc, 0))  BY <1>1, <2>2, <3>1, <3>3
  <3>5. n.ready  BY <3>2, <1>r, Zenon DEF SameState
  <3>6. g \in Members /\ PageFits(g) /\ SameCount(n, g)  BY <3>2, <3>4, <3>5, <1>t, ControlFits
  <3>7. PICK c \in Commands : c = Command(n, "pause", NoDoc, 0)
    BY <3>2, CommandTyped DEF EngineOps, CountsAsBusy, Docs, NoDoc
  <3>8. Work(Line(g)) <= Work(Line(n)) + 1
   <4>1. Inserted(Line(n), Len(Line(n)), c, Line(g))  BY <3>2, <3>4, <3>7, PushedBack
   <4>2. Line(n) \in Seq(Commands) /\ Line(g) \in Seq(Commands)  BY <3>2, <3>6, LineIs
   <4>3. Work(Line(g)) = Work(Line(n)) + IF c.op \in CountsAsBusy THEN 1 ELSE 0
     BY <4>1, <4>2, InsertedWork
   <4>4. Work(Line(n)) \in Nat  BY <4>2, WorkIsNat
   <4> QED  BY <4>3, <4>4
  <3>9. Work(Line(n)) = 0  BY <3>2, <2>0 DEF Line
  <3>10. ~g.ticking  BY <3>6, <3>n, Zenon DEF SameCount
  <3>11. SameState(gui, g)  BY <3>2, <3>6 DEF SameCount, SameState
  <3>12. Work(Line(g)) \in Nat  BY <3>6, LineIs, WorkIsNat
  <3> QED  BY <3>6, <3>8, <3>9, <3>10, <3>11, <3>12
 <2> QED  BY <2>1, <2>2
<1>3. /\ gui'.sessionGeneration = g.sessionGeneration /\ gui'.generation = g.generation
      /\ gui'.queue = g.queue /\ gui'.current = g.current /\ gui'.playhead = g.playhead
      /\ gui'.audioPosition = g.audioPosition /\ gui'.snapshot = g.snapshot
      /\ gui'.ticking = g.ticking /\ gui'.ready = g.ready /\ gui'.stale = g.stale
  BY <1>1, <1>2 DEF Members
<1>4. Line(gui') = Line(g)  BY <1>3 DEF Line
<1>5. gui'.ready /\ gui.sessionGeneration >= 1 /\ gui'.sessionGeneration = gui.sessionGeneration
      /\ gui.sessionGeneration \in Nat
  BY <1>2, <1>3, <1>r, <1>t DEF SameState, PageFits, SentWhenReady, Members
<1>6. PageFits(gui')
  BY <1>2, <1>3, <1>4, <1>5, NumbersAre DEF PageFits, WithinLength, SentWhenReady, Ceiling, Due,
    NumbersOf
<1>7. DocumentsAreKnown'
  BY <1>2, <1>3, <1>u DEF SameState, EditorKeeps, EngineAnswers, EditorFits, DocumentsAreKnown,
    Known
<1>8. MessagesDiffer'
 <2>1. PICK m : calls' = Append(calls, m) /\ m.gen = gui.sessionGeneration  BY DEF QueueSessionEdit
 <2>2. /\ DOMAIN calls' = DOMAIN calls \cup {Len(calls) + 1}
       /\ \A i \in DOMAIN calls : calls'[i] = calls[i] /\ i # Len(calls) + 1
       /\ calls'[Len(calls) + 1] = m
   BY <2>1, <1>t
 <2>3. /\ \A i \in DOMAIN calls : calls[i].gen # m.gen
       /\ \A i \in DOMAIN answers : answers[i].gen # m.gen
   BY <2>1, <1>t, <1>r DEF OneRequest, Fits, Ours
 <2> QED  BY <2>1, <2>2, <2>3, <1>5, <1>u DEF EditorFits, MessagesDiffer
<1> QED  BY <1>6, <1>7, <1>8 DEF EditorFits

\* So every edit of the page keeps the bounds (EditorController).
LEMMA EditsFit ==
    ASSUME EditorKeeps, EditorFits, gui' \in Members,
           \/ CutSelected \/ DeleteMarkedRange \/ ApplyVisual \/ ApplyAudio \/ UndoRedo \/ Save
           \/ \E op \in {"addTitle", "editTitle", "removeTitle"} : Title(op)
           \/ \E op \in {"addCaption", "editCue", "removeCue"} : Caption(op)
    PROVE  EditorFits'
  BY SessionEditFits DEF CutSelected, DeleteMarkedRange, ApplyVisual, ApplyAudio, UndoRedo, Save,
    Title, Caption

\* The worker answers the first call: its opening is now that of the answer.
LEMMA MessageDiffers ==
    ASSUME MessagesDiffer, calls \in Seq(Calls), answers \in Seq(Answers), calls # <<>>,
           NEW m, calls' = Tail(calls), answers' = Append(answers, m), m.gen = Head(calls).gen, gui' = gui
    PROVE  /\ MessagesDiffer'
           /\ \A i \in DOMAIN answers' : answers'[i] = m \/ \E j \in DOMAIN answers : answers'[i] = answers[j]
<1>1. /\ DOMAIN answers' = DOMAIN answers \cup {Len(answers) + 1}
      /\ answers'[Len(answers) + 1] = m
      /\ \A i \in DOMAIN answers : answers'[i] = answers[i] /\ i # Len(answers) + 1
  BY DEF Answers
<1>2. /\ 1 \in DOMAIN calls /\ Head(calls) = calls[1]
      /\ \A i \in DOMAIN calls' : calls'[i] = calls[i + 1] /\ i + 1 \in DOMAIN calls /\ i + 1 # 1 /\ i \in Nat
  OBVIOUS
<1>3. \A i \in DOMAIN calls' : calls'[i].gen >= 1 /\ calls'[i].gen # m.gen
  BY <1>2 DEF MessagesDiffer
<1>4. \A i, j \in DOMAIN calls' : calls'[i].gen = calls'[j].gen => i = j
 <2>1. SUFFICES ASSUME NEW i \in DOMAIN calls', NEW j \in DOMAIN calls', calls'[i].gen = calls'[j].gen
                PROVE  i = j
   OBVIOUS
 <2>2. i + 1 = j + 1  BY <2>1, <1>2 DEF MessagesDiffer
 <2> QED  BY <2>1, <2>2, <1>2
<1>5. \A i \in DOMAIN answers' : answers'[i].gen >= 1  BY <1>1, <1>2 DEF MessagesDiffer
<1>6. \A i, j \in DOMAIN answers' : answers'[i].gen = answers'[j].gen => i = j
  BY <1>1, <1>2 DEF MessagesDiffer
<1>7. \A i \in DOMAIN calls', j \in DOMAIN answers' : calls'[i].gen # answers'[j].gen
  BY <1>1, <1>2, <1>3 DEF MessagesDiffer
<1> QED  BY <1>1, <1>3, <1>4, <1>5, <1>6, <1>7 DEF MessagesDiffer

\* d will be known.
WillBeKnown(d) == d.project \in Projects /\ d.len \in 1 .. Length /\ d.rev <= disk'[d.project].rev

\* Revisions only grow.
LEMMA KnownStays ==
    ASSUME disk \in [Projects -> Timelines], disk' \in [Projects -> Timelines],
           \A p \in Projects : disk[p].rev <= disk'[p].rev, NEW d, d.rev \in Nat, Known(d)
    PROVE  WillBeKnown(d)
  BY DEF Known, Timelines, WillBeKnown

\* An edit keeps the project and the revision and makes nothing too long.
LEMMA AfterIsKnown ==
    ASSUME NEW d \in Timelines, d.len \in 1 .. Length, NEW call \in Calls, NEW doc \in After(d, call)
    PROVE  doc.project = d.project /\ doc.rev = d.rev /\ doc.len \in 1 .. Length
<1>1. d.len \in Nat /\ Length \in Nat /\ call.pos \in Nat /\ call.op \in SessionOps
  BY EditorAssumption DEF EditorAssumption, Timelines, Calls
<1>2. \A n : LET e == [d EXCEPT !.len = n] IN e.project = d.project /\ e.rev = d.rev /\ e.len = n
  BY DEF Timelines
<1>3. \A c : LET e == [d EXCEPT !.clips = c] IN e.project = d.project /\ e.rev = d.rev /\ e.len = d.len
  BY DEF Timelines
<1>4. \A lengths, kinds : \A e \in Like(d, lengths, kinds) :
          e.project = d.project /\ e.rev = d.rev /\ e.len \in lengths
  BY DEF Like
<1>5. CASE call.op = "trim"
 <2>1. PICK n \in {call.pos} \cap 1 .. d.len - 1 : doc = [d EXCEPT !.len = n]  BY <1>5 DEF After
 <2>2. n \in 1 .. Length  BY <2>1, <1>1
 <2> QED  BY <2>1, <2>2, <1>2
<1>6. CASE call.op = "delete"  BY <1>6, <1>4, <1>1 DEF After
<1>7. CASE call.op = "undo"  BY <1>7, <1>4 DEF After
<1>8. CASE call.op \in SessionOps \ {"trim", "delete", "undo"}
 <2>1. doc = d \/ \E c : doc = [d EXCEPT !.clips = c]
  <3>1. CASE call.op = "addTitle"  BY <3>1 DEF After
  <3>2. CASE call.op = "removeTitle"  BY <3>2 DEF After
  <3>3. CASE call.op = "addCaption"  BY <3>3 DEF After
  <3>4. CASE call.op = "removeCue"  BY <3>4 DEF After
  <3>5. CASE call.op = "open"  BY <3>5 DEF After
  <3>6. CASE call.op = "apply"  BY <3>6 DEF After
  <3>7. CASE call.op = "editTitle"  BY <3>7 DEF After
  <3>8. CASE call.op = "editCue"  BY <3>8 DEF After
  <3>9. CASE call.op = "save"  BY <3>9 DEF After
  <3> QED  BY <1>8, <3>1, <3>2, <3>3, <3>4, <3>5, <3>6, <3>7, <3>8, <3>9 DEF SessionOps
 <2> QED  BY <2>1, <1>3
<1> QED  BY <1>1, <1>5, <1>6, <1>7, <1>8

\* The worker: what is on the disk only grows in revisions, and its answers are of the disk.
LEMMA SessionWorkerFits ==
    ASSUME EditorKeeps, EditorFits, EditorTypes', SessionWorker
    PROVE  EditorFits'
<1>t. /\ gui \in Members /\ calls \in Seq(Calls) /\ answers \in Seq(Answers)
      /\ disk \in [Projects -> Timelines] /\ disk' \in [Projects -> Timelines]
      /\ service \in Projects \cup {0}
  BY DEF EditorKeeps, EditorTypes
<1>u. calls # <<>> /\ calls' = Tail(calls) /\ gui' = gui /\ UNCHANGED <<graph, reply>>
  BY DEF SessionWorker, SessionOpens, SessionRefuses, SessionSaves, SessionEdits, engineVars
<1>c. Head(calls) \in Calls  BY <1>t, <1>u
<1>k. /\ \A p \in Projects : disk[p].project = p /\ disk[p].len \in 1 .. Length
      /\ gui.snapshot = NoDoc \/ Known(gui.snapshot)
      /\ \A i \in DOMAIN answers : answers[i].ok => Known(answers[i].doc)
  BY DEF EditorFits, DocumentsAreKnown
<1>r. \A p \in Projects : disk[p] \in Timelines /\ disk[p].rev \in Nat /\ disk'[p] \in Timelines
  BY <1>t DEF Timelines
\* With the answer m the step is done.
<1>m. ASSUME NEW ok, NEW doc, NEW derived, NEW change, Answer(Head(calls), ok, doc, derived, change),
             \A p \in Projects : disk'[p].project = p /\ disk'[p].len \in 1 .. Length /\ disk[p].rev <= disk'[p].rev,
             ok => WillBeKnown(doc)
      PROVE  EditorFits'
 <2>1. PICK m : m = [op |-> Head(calls).op, gen |-> Head(calls).gen, ok |-> ok, doc |-> doc,
                     derived |-> derived, change |-> change]
   OBVIOUS
 <2>2. answers' = Append(answers, m) /\ m.gen = Head(calls).gen /\ m.ok = ok /\ m.doc = doc
   BY <2>1, <1>m DEF Answer
 <2>3. /\ MessagesDiffer'
       /\ \A i \in DOMAIN answers' : answers'[i] = m \/ \E j \in DOMAIN answers : answers'[i] = answers[j]
   BY <2>2, <1>t, <1>u, MessageDiffers DEF EditorFits
 <2>4. gui.snapshot.rev \in Nat /\ \A i \in DOMAIN answers : answers[i].doc.rev \in Nat
  <3>1. \A i \in DOMAIN answers : answers[i] \in Answers  BY <1>t, Elements
  <3> QED  BY <1>t, <3>1 DEF Members, Answers, Docs
 <2>5. gui'.snapshot = NoDoc \/ WillBeKnown(gui.snapshot)
   BY <1>m, <1>t, <1>k, <1>u, <2>4, KnownStays
 <2>6. \A i \in DOMAIN answers : answers[i].ok => WillBeKnown(answers[i].doc)
  <3>1. SUFFICES ASSUME NEW d, d.rev \in Nat, Known(d) PROVE WillBeKnown(d)  BY <1>k, <2>4
  <3> QED  BY <3>1, <1>m, <1>t, KnownStays
 <2>7. \A i \in DOMAIN answers' : answers'[i].ok => WillBeKnown(answers'[i].doc)
   BY <1>m, <2>2, <2>3, <2>6
 <2>8. DocumentsAreKnown'
   BY <1>m, <1>u, <2>5, <2>7 DEF EditorFits, DocumentsAreKnown, Known, WillBeKnown
 <2> QED  BY <2>3, <2>8, <1>u DEF EditorFits
\* As long as the disk stays as it is.
<1>d. ASSUME disk' = disk
      PROVE  /\ \A p \in Projects : /\ disk'[p].project = p /\ disk'[p].len \in 1 .. Length
                                    /\ disk[p].rev <= disk'[p].rev
             /\ \A p \in Projects : WillBeKnown(disk[p])
  BY <1>d, <1>k, <1>r DEF WillBeKnown
<1>1. CASE SessionOpens
 <2>1. disk' = disk /\ Head(calls).op = "open"  BY <1>1 DEF SessionOpens
 <2>2. Head(calls).project \in Projects  BY <1>t, <1>u, <2>1 DEF EditorKeeps, OneRequest
 <2>3. \/ \E derived \in BOOLEAN : Answer(Head(calls), TRUE, disk[Head(calls).project], derived, FALSE)
       \/ Answer(Head(calls), FALSE, NoDoc, FALSE, FALSE)
   BY <1>1 DEF SessionOpens
 <2>4. WillBeKnown(disk[Head(calls).project])  BY <2>1, <2>2, <1>d
 <2> QED  BY <2>1, <2>3, <2>4, <1>d, <1>m
<1>2. CASE SessionRefuses  BY <1>2, <1>d, <1>m DEF SessionRefuses
<1>3. CASE SessionSaves  BY <1>3, <1>t, <1>d, <1>m DEF SessionSaves
<1>4. CASE SessionEdits
 <2>1. PICK doc \in After(disk[service], Head(calls)), derived \in BOOLEAN :
           /\ disk' = [disk EXCEPT ![service] = [doc EXCEPT !.rev = @ + 1]]
           /\ Answer(Head(calls), TRUE, disk'[service], derived, TRUE)
   BY <1>4 DEF SessionEdits
 <2>2. service \in Projects  BY <1>4, <1>t DEF SessionEdits
 <2>3. /\ doc \in Timelines /\ doc.project = service /\ doc.rev = disk[service].rev
       /\ doc.len \in 1 .. Length
   BY <2>1, <2>2, <1>c, <1>k, <1>r, AfterTyped, AfterIsKnown
 <2>4. /\ disk'[service] = [doc EXCEPT !.rev = @ + 1]
       /\ \A p \in Projects : p # service => disk'[p] = disk[p]
   BY <2>1, <2>2, <1>t
 <2>5. /\ disk'[service].project = service /\ disk'[service].len \in 1 .. Length
       /\ disk'[service].rev = disk[service].rev + 1
   BY <2>3, <2>4 DEF Timelines
 <2>6. \A p \in Projects : /\ disk'[p].project = p /\ disk'[p].len \in 1 .. Length
                           /\ disk[p].rev <= disk'[p].rev /\ disk'[p].rev <= disk'[p].rev
  <3>1. SUFFICES ASSUME NEW p \in Projects
                 PROVE  /\ disk'[p].project = p /\ disk'[p].len \in 1 .. Length
                        /\ disk[p].rev <= disk'[p].rev /\ disk'[p].rev <= disk'[p].rev
    OBVIOUS
  <3>2. disk[p].rev \in Nat /\ disk'[p].rev \in Nat  BY <3>1, <1>r DEF Timelines
  <3>3. CASE p = service  BY <3>2, <3>3, <2>5
  <3>4. CASE p # service  BY <3>1, <3>2, <3>4, <2>4, <1>k
  <3> QED  BY <3>3, <3>4
 <2>7. WillBeKnown(disk'[service])  BY <2>2, <2>5, <2>6 DEF WillBeKnown
 <2> QED  BY <2>1, <2>6, <2>7, <1>m
<1> QED  BY <1>1, <1>2, <1>3, <1>4 DEF SessionWorker

-----------------------------------------------------------------------------
(* The editor: the engine and its answers *)

\* The engine worker answers and sends nothing (EditorEngineWorker).
LEMMA EngineFits ==
    ASSUME EditorKeeps, EditorFits, EngineWorker
    PROVE  EditorFits'
<1>t. gui \in Members /\ PageFits(gui)  BY SnapshotIsShort
<1>u. UNCHANGED sessionVars /\ gui' = gui /\ UNCHANGED <<disk, calls, answers>> /\ gui.current # NoCommand
  BY DEF EngineWorker, EngineRuns, EngineFails, sessionVars
<1>1. gui.current.doc.len <= Length  BY <1>t, <1>u, AnsweredWork DEF PageFits, WithinLength
<1>2. graph'.len <= Length
  BY <1>1 DEF EngineWorker, EngineRuns, EngineFails, EditorFits, DocumentsAreKnown
<1>3. reply'.ok /\ reply'.op = "audio" => gui.current.pos < graph'.len
 <2>1. CASE EngineRuns
  <3>1. ASSUME reply'.op = "audio" PROVE gui.current.pos < graph'.len
    BY <2>1, <3>1 DEF EngineRuns, Possible
  <3> QED  BY <3>1
 <2>2. CASE EngineFails  BY <2>2 DEF EngineFails
 <2> QED  BY <2>1, <2>2 DEF EngineWorker
<1>4. DocumentsAreKnown'  BY <1>2, <1>3, <1>u DEF EditorFits, DocumentsAreKnown, Known
<1>5. MessagesDiffer'  BY <1>u DEF EditorFits, MessagesDiffer
<1> QED  BY <1>4, <1>5, <1>t, <1>u DEF EditorFits

\* h has the commands of g and another playhead or freshness.
LEMMA TurnedFits ==
    ASSUME NEW g \in Members, NEW h \in Members, PageFits(g), h.queue = g.queue, h.current = g.current,
           h.sessionGeneration = g.sessionGeneration, h.generation = g.generation,
           h.active = g.active, h.ready = g.ready, h.ticking = g.ticking,
           h.playhead <= Length, h.audioPosition <= Length, ~h.stale => h.ready
    PROVE  PageFits(h) /\ (Spare(g) => Spare(h))
  BY DEF Line, Due, Ceiling, PageFits, WithinLength, SentWhenReady, Spare

\* Without its current command.
LEMMA AnsweredFits ==
    ASSUME NEW g \in Members, NEW h \in Members, PageFits(g), g.current # NoCommand,
           h.queue = g.queue, h.current = NoCommand, SamePage(g, h), h.ticking = g.ticking,
           h.audioPosition <= Length
    PROVE  /\ PageFits(h) /\ (g.current.op \in CountsAsBusy => Spare(h))
           /\ g.current.pos <= Length /\ g.current.doc.len <= Length
           /\ g.current.gen = g.generation => h.ready
<1>1. /\ g.queue \in Seq(Commands)
      /\ Work(Line(g)) = Work(g.queue) + IF g.current.op \in CountsAsBusy THEN 1 ELSE 0
      /\ 1 \in DOMAIN Line(g) /\ Line(g)[1] = g.current
      /\ \A i \in DOMAIN g.queue : \E j \in DOMAIN Line(g) : g.queue[i] = Line(g)[j]
  BY AnsweredWork
<1>2. Line(h) = g.queue  BY LineIs
<1>3. Due(h) = Due(g) /\ Ceiling(h) = Ceiling(g)  BY DEF Due, Ceiling, SamePage
<1>4. WithinLength(h)  BY <1>1, <1>2 DEF PageFits, WithinLength, SamePage
<1>5. SentWhenReady(h)  BY <1>1, <1>2 DEF SamePage, PageFits, SentWhenReady
<1>6. NumbersOf(g) /\ Work(g.queue) \in Nat  BY <1>1, NumbersAre, WorkIsNat
<1>7. Work(Line(h)) + Due(h) <= Ceiling(h) /\ (g.current.op \in CountsAsBusy => Spare(h))
  BY <1>1, <1>2, <1>3, <1>6 DEF PageFits, Spare, NumbersOf
<1>8. g.current.pos <= Length /\ g.current.doc.len <= Length  BY <1>1 DEF PageFits, WithinLength
<1>9. g.current.gen = g.generation => h.ready  BY <1>1 DEF PageFits, SentWhenReady, SamePage
<1> QED  BY <1>4, <1>5, <1>7, <1>8, <1>9 DEF PageFits

\* h is a page with the timeline and the opening of g.
FitsAsWell(g, h) ==
    h \in Members /\ PageFits(h) /\ h.snapshot = g.snapshot /\ h.sessionGeneration = g.sessionGeneration

\* When an answer has been taken from the engine the next command starts (handleCompleted).
LEMMA AnswerHandled ==
    ASSUME EditorKeeps, EditorFits, reply' = NoReply, UNCHANGED <<sessionVars, graph>>,
           NEW h, FitsAsWell(gui, h), gui' = DispatchNext(h)
    PROVE  EditorFits'
  BY DispatchFits DEF FitsAsWell, SameCount, SameState, sessionVars, EditorFits, DocumentsAreKnown,
    Known, MessagesDiffer

\* The engine answers the current command (EditorController::currentCommand_).
LEMMA ReplyIsCurrent ==
    ASSUME EditorKeeps, EditorFits, reply # NoReply
    PROVE  gui.current # NoCommand /\ gui.current \in Commands /\ reply.op = gui.current.op
  BY DEF EditorKeeps, EditorTypes, EngineAnswers, Members

\* A frame that has come keeps the bounds (EditorController::handleFrameCompleted).
LEMMA HandleFrameFits ==
    ASSUME EditorKeeps, EditorFits, HandleFrameCompleted
    PROVE  EditorFits'
<1>t. gui \in Members /\ PageFits(gui) /\ Length \in Nat /\ gui.audioPosition <= Length /\ graph \in Docs
  BY SnapshotIsShort DEF PageFits, WithinLength, EditorKeeps, EditorTypes
<1>u. UNCHANGED <<sessionVars, graph>> /\ reply # NoReply /\ reply' = NoReply
  BY DEF HandleFrameCompleted
<1>c. PICK c \in Commands : c = gui.current /\ gui.current # NoCommand /\ c.pos \in Nat
  BY <1>u, ReplyIsCurrent DEF Commands
<1>g. PICK g : g = [Answered EXCEPT !.frameInFlight = FALSE]  OBVIOUS
<1>1. /\ g \in Members /\ g.queue = gui.queue /\ g.current = NoCommand /\ SamePage(gui, g)
      /\ g.ticking = gui.ticking /\ g.audioPosition = gui.audioPosition
  BY <1>g, <1>t DEF Answered, Members, SamePage
<1>2. PageFits(g) /\ c.pos <= Length /\ (Current => g.ready)
  BY <1>1, <1>t, <1>c, AnsweredFits DEF Current
<1>3. FitsAsWell(gui, g)  BY <1>1, <1>2 DEF FitsAsWell, SamePage
<1>4. g.playhead <= Length  BY <1>2 DEF PageFits, WithinLength
<1>5. PICK h : /\ gui' = DispatchNext(h)
               /\ \/ h = g
                  \/ h = StopPlaying([g EXCEPT !.stale = TRUE])
                  \/ Current /\ h = [g EXCEPT !.image = [doc |-> graph, pos |-> c.pos], !.playhead = c.pos]
  BY <1>c, <1>g DEF HandleFrameCompleted
<1>6. CASE h = StopPlaying([g EXCEPT !.stale = TRUE])
 <2>1. PICK n : n = [g EXCEPT !.stale = TRUE]  OBVIOUS
 <2>2. /\ n \in Members /\ n.queue = g.queue /\ n.current = g.current
       /\ n.sessionGeneration = g.sessionGeneration /\ n.generation = g.generation
       /\ n.active = g.active /\ n.ready = g.ready /\ n.ticking = g.ticking
       /\ n.playhead = g.playhead /\ n.audioPosition = g.audioPosition /\ n.snapshot = g.snapshot
   BY <2>1, <1>1 DEF Members
 <2>3. n.stale  BY <2>1, <1>1, Zenon DEF Members
 <2>4. PageFits(n)  BY <2>2, <2>3, <1>1, <1>2, <1>4, <1>t, TurnedFits
 <2>5. h \in Members /\ PageFits(h) /\ SameState(n, h)  BY <2>1, <2>2, <2>4, <1>6, StopFits
 <2>6. FitsAsWell(gui, h)  BY <2>2, <2>5, <1>3 DEF FitsAsWell, SameState
 <2> QED  BY <2>6, <1>5, <1>u, AnswerHandled
<1>7. CASE Current /\ h = [g EXCEPT !.image = [doc |-> graph, pos |-> c.pos], !.playhead = c.pos]
 <2>1. [doc |-> graph, pos |-> c.pos] \in Images  BY <1>t, <1>c DEF Images
 <2>2. /\ h \in Members /\ h.queue = g.queue /\ h.current = g.current
       /\ h.sessionGeneration = g.sessionGeneration /\ h.generation = g.generation
       /\ h.active = g.active /\ h.ready = g.ready /\ h.ticking = g.ticking
       /\ h.playhead = c.pos /\ h.audioPosition = g.audioPosition /\ h.snapshot = g.snapshot
   BY <2>1, <1>1, <1>7, <1>c DEF Members
 <2>3. h.ready  BY <2>2, <1>2, <1>7, Zenon
 <2>4. PageFits(h)  BY <2>2, <2>3, <1>1, <1>2, <1>t, TurnedFits
 <2>5. FitsAsWell(gui, h)  BY <2>2, <2>4, <1>3 DEF FitsAsWell
 <2> QED  BY <2>5, <1>5, <1>u, AnswerHandled
<1> QED  BY <1>3, <1>5, <1>6, <1>7, <1>u, AnswerHandled

\* A block of sound that has come keeps the bounds, and the next one begins within the
\* timeline (handleAudioCompleted).
LEMMA HandleAudioFits ==
    ASSUME EditorKeeps, EditorFits, NEW full, HandleAudioCompleted(full)
    PROVE  EditorFits'
<1>t. /\ gui \in Members /\ PageFits(gui) /\ Length \in Nat /\ gui.audioPosition \in Nat
      /\ gui.audioPosition <= Length /\ gui.snapshot.len <= Length /\ graph.len \in Nat /\ graph.len <= Length
  BY SnapshotIsShort DEF EditorKeeps, EditorTypes, EditorFits, DocumentsAreKnown, PageFits,
    WithinLength, Members, Docs
<1>u. UNCHANGED <<sessionVars, graph>> /\ reply # NoReply /\ reply' = NoReply /\ reply.op = "audio"
  BY DEF HandleAudioCompleted
<1>c. PICK c \in Commands : c = gui.current /\ gui.current # NoCommand /\ c.pos \in Nat
  BY <1>u, ReplyIsCurrent DEF Commands
<1>g. PICK pushed, g :
          /\ pushed => reply.ok
          /\ g = [Answered EXCEPT !.audioInFlight = FALSE, !.audioInvalidated = FALSE,
                                  !.audioPosition = IF pushed THEN c.pos + 1 ELSE @]
          /\ gui' = DispatchNext(ScheduleAudioPull(g, full))
  BY <1>c DEF HandleAudioCompleted
<1>p. pushed => c.pos + 1 <= Length  BY <1>u, <1>c, <1>t, <1>g DEF EditorFits, DocumentsAreKnown
<1>a. PICK at \in Nat : at = (IF pushed THEN c.pos + 1 ELSE gui.audioPosition) /\ at <= Length
  BY <1>p, <1>t, <1>c
<1>b. g = [Answered EXCEPT !.audioInFlight = FALSE, !.audioInvalidated = FALSE, !.audioPosition = at]
  BY <1>a, <1>g DEF Answered
<1>1. /\ g \in Members /\ g.queue = gui.queue /\ g.current = NoCommand /\ SamePage(gui, g)
      /\ g.ticking = gui.ticking /\ g.audioPosition = at
  BY <1>b, <1>t DEF Answered, Members, SamePage
<1>2. PageFits(g) /\ g.snapshot.len <= Length  BY <1>1, <1>a, <1>t, <1>c, AnsweredFits DEF SamePage
<1>3. FitsAsWell(gui, ScheduleAudioPull(g, full))
  BY <1>1, <1>2, PullFits DEF FitsAsWell, SamePage, SameCount, SameState
<1> QED  BY <1>3, <1>g, <1>u, AnswerHandled

\* Any other completion keeps the bounds: a load sends at most one frame and one block of
\* sound, a failure at most one load (EditorController::handleCompleted).
LEMMA HandleCompletedFits ==
    ASSUME EditorKeeps, EditorFits, NEW full, HandleCompleted(full)
    PROVE  EditorFits'
<1>t. /\ gui \in Members /\ PageFits(gui) /\ Length \in Nat /\ gui.audioPosition <= Length
      /\ gui.snapshot.len <= Length
  BY SnapshotIsShort DEF PageFits, WithinLength
<1>u. UNCHANGED <<sessionVars, graph>> /\ reply # NoReply /\ reply' = NoReply /\ reply.op \in CountsAsBusy
  BY DEF HandleCompleted
<1>c. PICK c \in Commands : /\ c = gui.current /\ gui.current # NoCommand /\ c.pos \in Nat
                            /\ c.op \in CountsAsBusy
  BY <1>u, ReplyIsCurrent DEF Commands
<1>g. PICK g : g = Answered  OBVIOUS
<1>1. /\ g \in Members /\ g.queue = gui.queue /\ g.current = NoCommand /\ SamePage(gui, g)
      /\ g.ticking = gui.ticking /\ g.audioPosition = gui.audioPosition
  BY <1>g, <1>t DEF Answered, Members, SamePage
<1>2. PageFits(g) /\ Spare(g) /\ c.pos <= Length /\ (Current => g.ready)
  BY <1>1, <1>t, <1>c, AnsweredFits DEF Current
<1>3. /\ FitsAsWell(gui, g) /\ g.snapshot.len <= Length /\ g.playhead \in Nat /\ g.playhead <= Length
      /\ g.snapshot \in Docs
  BY <1>1, <1>2, <1>t DEF FitsAsWell, SamePage, Members, PageFits, WithinLength
\* The page that is stale or not.
<1>s. ASSUME NEW n \in Members, n.queue = g.queue, n.current = g.current,
             n.sessionGeneration = g.sessionGeneration, n.generation = g.generation,
             n.active = g.active, n.ready = g.ready, n.ticking = g.ticking,
             n.playhead = g.playhead, n.audioPosition = g.audioPosition, n.snapshot = g.snapshot,
             ~n.stale => n.ready
      PROVE  PageFits(n) /\ Spare(n) /\ FitsAsWell(gui, n)
  BY <1>s, <1>1, <1>2, <1>3, <1>t, TurnedFits DEF FitsAsWell
<1>4. ASSUME Current PROVE FitsAsWell(gui, Completed(g, c, full))
 <2>r. g.ready  BY <1>2, <1>4
 <2>1. CASE c.op \in {"load", "update"} /\ reply.ok /\ (c.op = "load" => ~g.derived)
  <3>1. PICK n : n = [g EXCEPT !.stale = FALSE]  OBVIOUS
  <3>2. Completed(g, c, full) = QueueFrame(n, g.playhead)  BY <2>1, <3>1 DEF Completed
  <3>3. /\ n \in Members /\ n.queue = g.queue /\ n.current = g.current
        /\ n.sessionGeneration = g.sessionGeneration /\ n.generation = g.generation
        /\ n.active = g.active /\ n.ready = g.ready /\ n.ticking = g.ticking
        /\ n.playhead = g.playhead /\ n.audioPosition = g.audioPosition /\ n.snapshot = g.snapshot
    BY ZenonT(40), <3>1, <1>1 DEF Members
  <3>4. n.ready  BY <3>3, <2>r, Zenon
  <3>5. FitsAsWell(gui, n)  BY <3>3, <3>4, <1>s
  <3>6. FitsAsWell(gui, QueueFrame(n, g.playhead))
    BY <3>3, <3>5, <1>3, FrameFits DEF FitsAsWell, SameCount, SameState
  <3> QED  BY <3>2, <3>6
 <2>2. CASE c.op = "load" /\ (g.derived \/ ~reply.ok)
  <3>1. PICK n : n = [g EXCEPT !.stale = TRUE, !.derived = FALSE]  OBVIOUS
  <3>2. Completed(g, c, full) = n  BY <2>2, <3>1 DEF Completed
  <3>3. /\ n \in Members /\ n.queue = g.queue /\ n.current = g.current
        /\ n.sessionGeneration = g.sessionGeneration /\ n.generation = g.generation
        /\ n.active = g.active /\ n.ready = g.ready /\ n.ticking = g.ticking
        /\ n.playhead = g.playhead /\ n.audioPosition = g.audioPosition /\ n.snapshot = g.snapshot
    BY <3>1, <1>1 DEF Members
  <3>4. n.ready  BY <3>3, <2>r, Zenon
  <3> QED  BY <3>2, <3>3, <3>4, <1>s
 <2>3. CASE c.op = "update" /\ ~reply.ok
  <3>1. PICK n : n = [g EXCEPT !.stale = TRUE]  OBVIOUS
  <3>3. /\ n \in Members /\ n.queue = g.queue /\ n.current = g.current
        /\ n.sessionGeneration = g.sessionGeneration /\ n.generation = g.generation
        /\ n.active = g.active /\ n.ready = g.ready /\ n.ticking = g.ticking
        /\ n.playhead = g.playhead /\ n.audioPosition = g.audioPosition /\ n.snapshot = g.snapshot
    BY <3>1, <1>1 DEF Members
  <3>4. n.ready  BY <3>3, <2>r, Zenon
  <3>5. FitsAsWell(gui, n) /\ PageFits(n) /\ Spare(n)  BY <3>3, <3>4, <1>s
  <3>6. PICK d \in Commands : d = Command(g, "load", g.snapshot, 0) /\ d.doc = g.snapshot /\ d.pos = 0
    BY <1>1, <1>3, CommandTyped DEF EngineOps, CountsAsBusy
  <3>7. Completed(g, c, full) = PushFront(n, d)  BY <2>3, <3>1, <3>6 DEF Completed
  <3>8. PushFront(n, d) \in Members /\ PageFits(PushFront(n, d)) /\ SameCount(n, PushFront(n, d))
    BY <3>3, <3>4, <3>5, <3>6, <1>3, <1>t, PushedFits
  <3> QED  BY <3>5, <3>7, <3>8 DEF FitsAsWell, SameCount, SameState
 <2>4. CASE c.op = "play" /\ reply.ok
   BY <2>4, <2>r, <1>1, <1>2, <1>3, StartFits DEF Completed, FitsAsWell, SameState
 <2>5. CASE c.op = "pause" /\ reply.ok
   BY <2>5, <1>1, <1>2, <1>3, StopFits DEF Completed, FitsAsWell, SameState
 <2>6. CASE c.op = "seek" /\ reply.ok
  <3>1. PICK h : h = [g EXCEPT !.playhead = c.pos]  OBVIOUS
  <3>2. PICK k : k = IF h.playing THEN RestartAudioPull(h, c.pos, full) ELSE h  OBVIOUS
  <3>3. Completed(g, c, full) = QueueFrame(k, c.pos)  BY <2>6, <3>1, <3>2 DEF Completed
  <3>4. /\ h \in Members /\ h.queue = g.queue /\ h.current = g.current
        /\ h.sessionGeneration = g.sessionGeneration /\ h.generation = g.generation
        /\ h.active = g.active /\ h.ready = g.ready /\ h.ticking = g.ticking
        /\ h.playhead = c.pos /\ h.audioPosition = g.audioPosition /\ h.snapshot = g.snapshot
    BY <3>1, <1>1, <1>c DEF Members
  <3>5. h.ready  BY <3>4, <2>r, Zenon
  <3>6. PageFits(h)  BY <3>4, <3>5, <1>1, <1>2, <1>t, TurnedFits
  <3>7. k \in Members /\ PageFits(k) /\ SameCount(h, k)
    BY <3>2, <3>4, <3>6, <1>2, <1>3, <1>c, RestartFits DEF SameCount, SameState
  <3>8. FitsAsWell(gui, k) /\ k.snapshot.len <= Length
    BY <3>4, <3>7, <1>3 DEF FitsAsWell, SameCount, SameState
  <3>9. FitsAsWell(gui, QueueFrame(k, c.pos))
    BY <3>7, <3>8, <1>2, <1>c, FrameFits DEF FitsAsWell, SameCount, SameState
  <3> QED  BY <3>3, <3>9
 <2>7. CASE c.op \in {"play", "pause", "seek"} /\ ~reply.ok  BY <2>7, <1>3 DEF Completed
 <2> QED  BY <1>c, <2>1, <2>2, <2>3, <2>4, <2>5, <2>6, <2>7 DEF CountsAsBusy
<1>5. gui' = DispatchNext(IF Current THEN Completed(g, c, full) ELSE g)
  BY <1>c, <1>g DEF HandleCompleted
<1> QED  BY <1>3, <1>4, <1>5, <1>u, AnswerHandled

-----------------------------------------------------------------------------
(* The editor: an answer of the session worker *)

\* An answer has been taken, and the page has its timeline or the one it had.
LEMMA AnswerTakenFits ==
    ASSUME EditorKeeps, EditorFits, answers # <<>>, answers' = Tail(answers),
           UNCHANGED <<disk, calls, graph, reply>>, gui' \in Members, PageFits(gui'),
           gui'.sessionGeneration = gui.sessionGeneration,
           gui.current # NoCommand => gui'.current = gui.current,
           gui'.snapshot = gui.snapshot \/ (Head(answers).ok /\ gui'.snapshot = Head(answers).doc)
    PROVE  EditorFits'
<1>1. /\ 1 \in DOMAIN answers /\ Head(answers) = answers[1]
      /\ \A i \in DOMAIN answers' : i + 1 \in DOMAIN answers /\ i \in Nat /\ answers'[i] = answers[i + 1]
  BY DEF EditorKeeps, EditorTypes
<1>2. gui'.snapshot = NoDoc \/ Known(gui'.snapshot)  BY <1>1 DEF EditorFits, DocumentsAreKnown
<1>3. \A i \in DOMAIN answers' : answers'[i].ok => Known(answers'[i].doc)
  BY <1>1 DEF EditorFits, DocumentsAreKnown
<1>4. reply # NoReply => gui.current # NoCommand  BY DEF EditorKeeps, EngineAnswers
<1>5. DocumentsAreKnown'  BY <1>2, <1>3, <1>4 DEF EditorFits, DocumentsAreKnown, Known
<1>6. MessagesDiffer'
 <2>1. \A i, j \in DOMAIN answers' : answers'[i].gen = answers'[j].gen => i = j
  <3>1. SUFFICES ASSUME NEW i \in DOMAIN answers', NEW j \in DOMAIN answers', answers'[i].gen = answers'[j].gen
                 PROVE  i = j
    OBVIOUS
  <3>2. i + 1 = j + 1  BY <3>1, <1>1 DEF EditorFits, MessagesDiffer
  <3> QED  BY <3>1, <3>2, <1>1
 <2>2. /\ \A i \in DOMAIN answers' : answers'[i].gen >= 1
       /\ \A i \in DOMAIN calls, j \in DOMAIN answers' : calls[i].gen # answers'[j].gen
   BY <1>1 DEF EditorFits, MessagesDiffer
 <2> QED  BY <2>1, <2>2 DEF EditorFits, MessagesDiffer
<1> QED  BY <1>5, <1>6 DEF EditorFits

\* An opening that is answered sends its load (EditorController::handleSessionOpened).
LEMMA HandleOpenedFits ==
    ASSUME EditorKeeps, EditorFits, gui' \in Members, HandleOpened
    PROVE  EditorFits'
<1>t. gui \in Members /\ PageFits(gui) /\ Length \in Nat  BY SnapshotIsShort
<1>u. answers # <<>> /\ answers' = Tail(answers) /\ UNCHANGED <<disk, calls, graph, reply>>
  BY DEF HandleOpened, engineVars
<1>a. PICK a \in Answers : a = Head(answers) /\ a.op = "open" /\ Fits(gui, a)
                           /\ (a.ok => Known(a.doc)) /\ a.gen >= 1
  BY <1>u, AnswersLeft DEF HandleOpened, EditorFits, DocumentsAreKnown, MessagesDiffer
<1>1. CASE a.gen # gui.sessionGeneration
 <2>1. gui' = gui  BY <1>1, <1>a DEF HandleOpened
 <2> QED  BY <2>1, <1>t, <1>u, AnswerTakenFits
<1>2. CASE a.gen = gui.sessionGeneration /\ ~a.ok
 <2>1. gui' = [gui EXCEPT !.ready = FALSE, !.sessionBusy = FALSE]  BY <1>2, <1>a DEF HandleOpened
 <2>2. ~gui.ready  BY <1>2, <1>a DEF Fits, Ours
 <2>3. ~gui'.ready  BY <2>1, <1>t, Zenon DEF Members
 <2>4. /\ gui'.queue = gui.queue /\ gui'.current = gui.current
       /\ gui'.sessionGeneration = gui.sessionGeneration /\ gui'.generation = gui.generation
       /\ gui'.active = gui.active /\ gui'.ticking = gui.ticking /\ gui'.stale = gui.stale
       /\ gui'.playhead = gui.playhead /\ gui'.audioPosition = gui.audioPosition
       /\ gui'.snapshot = gui.snapshot
   BY <2>1, <1>t DEF Members
 <2>5. gui'.ready = gui.ready  BY <2>2, <2>3, <1>t, Zenon DEF Members
 <2>6. PageFits(gui')
   BY <2>2, <2>4, <1>t, <2>5, TurnedFits DEF PageFits, SentWhenReady, WithinLength
 <2> QED  BY <2>4, <2>6, <1>t, <1>u, AnswerTakenFits
<1>3. CASE a.gen = gui.sessionGeneration /\ a.ok
 <2>1. PICK n : n = StopPlaying(gui)  OBVIOUS
 <2>2. /\ n \in Members /\ PageFits(n) /\ SameState(gui, n) /\ n.queue = gui.queue /\ n.current = gui.current
   BY <2>1, <1>t, StopFits
 <2>n. ~n.ticking  BY <2>1, <1>t, StopFits
 <2>3. PICK g : g = [n EXCEPT !.ready = TRUE, !.generation = @ + 1,
                     !.selected = "none", !.rangeIn = NoMark, !.rangeOut = NoMark,
                     !.snapshot = a.doc, !.playhead = 0, !.image = NoImage, !.stale = TRUE]
   OBVIOUS
 <2>4. g \in Members
  <3>1. NoMark \in Nat /\ NoImage \in Images /\ a.doc \in Docs
    BY <1>t DEF NoMark, NoImage, Images, Docs, NoDoc, Answers
  <3>2. n.generation + 1 \in Nat /\ 0 \in Nat /\ "none" \in Kinds \cup {"none"}  BY <2>2 DEF Members
  <3>3. TRUE \in BOOLEAN  OBVIOUS
  <3>4. PICK k \in Nat : k = n.generation + 1  BY <3>2
  <3>5. g = [n EXCEPT !.ready = TRUE, !.generation = k,
                    !.selected = "none", !.rangeIn = NoMark, !.rangeOut = NoMark,
                    !.snapshot = a.doc, !.playhead = 0, !.image = NoImage, !.stale = TRUE]
    BY <2>3, <3>4
  <3> QED  BY <2>2, <3>1, <3>2, <3>3, <3>4, <3>5, ZenonT(40) DEF Members
 <2>5. /\ g.queue = n.queue /\ g.current = n.current /\ g.sessionGeneration = n.sessionGeneration
       /\ g.generation = n.generation + 1 /\ g.active = n.active /\ g.ticking = n.ticking
       /\ g.playhead = 0 /\ g.audioPosition = n.audioPosition /\ g.snapshot = a.doc
   BY <2>2, <2>3 DEF Members
 <2>6. g.ready  BY <2>2, <2>3, Zenon DEF Members
 <2>7. ~gui.active /\ ~gui.ready  BY <1>3, <1>a DEF Fits, Ours
 <2>8. /\ Line(g) = Line(gui) /\ g.sessionGeneration = gui.sessionGeneration /\ gui.sessionGeneration >= 1
       /\ g.generation = gui.generation + 1 /\ gui.generation \in Nat
   BY SMTT(40), <2>2, <2>5, <1>a, <1>3, <1>t DEF Line, SameState, Members
 <2>9. PageFits(g) /\ Spare(g)
  <3>1. WithinLength(g)  BY <2>2, <2>5, <2>8, <1>t DEF PageFits, WithinLength
  <3>2. \A i \in DOMAIN Line(gui) : Line(gui)[i].gen # g.generation
    BY <1>t, LineIs, Elements, <2>8 DEF EditorKeeps, InLine, LastLoadCounts, Commands
  <3>3. SentWhenReady(g)  BY <2>6, <2>8, <3>2 DEF SentWhenReady
  <3>4. Due(g) = 0 /\ Ceiling(g) = gui.sessionGeneration + 2
    BY <2>2, <2>5, <2>7, <2>n, <2>6, <2>8 DEF SameState, Due, Ceiling
  <3>5. Ceiling(gui) = gui.sessionGeneration + 1 /\ NumbersOf(gui)
    BY <2>7, <1>t, NumbersAre DEF Ceiling
  <3>6. Work(Line(g)) + Due(g) + 1 <= Ceiling(g) /\ Work(Line(g)) + Due(g) <= Ceiling(g)
    BY <3>4, <3>5, <2>8, <1>t DEF PageFits, NumbersOf
  <3> QED  BY <3>1, <3>3, <3>6 DEF PageFits, Spare
 <2>10. PICK c \in Commands : c = Command(g, "load", a.doc, 0) /\ c.doc = a.doc /\ c.pos = 0
   BY <2>4, CommandTyped DEF EngineOps, CountsAsBusy, Answers
 <2>11. c.doc.len <= Length  BY <2>10, <1>a, <1>3, <1>t DEF Known
 <2>12. PICK h : h = PushBack(g, c)  OBVIOUS
 <2>13. h \in Members /\ PageFits(h) /\ SameCount(g, h)
   BY <2>4, <2>6, <2>9, <2>10, <2>11, <2>12, <1>t, PushedFits
 <2>14. gui' = [h EXCEPT !.derived = a.derived, !.sessionBusy = FALSE]
   BY <2>1, <2>3, <2>10, <2>12, <1>a, <1>3 DEF HandleOpened
 <2>15. /\ gui'.queue = h.queue /\ gui'.current = h.current /\ gui'.audioPosition = h.audioPosition
        /\ SameCount(h, gui')
   BY <2>13, <2>14 DEF Members, SameCount, SameState
 <2>16. PageFits(gui')  BY <2>13, <2>15, AsideFits DEF PageFits, WithinLength
 <2>17. /\ gui'.sessionGeneration = gui.sessionGeneration /\ gui'.snapshot = a.doc
        /\ gui.current # NoCommand => gui'.current = gui.current
   BY <2>2, <2>5, <2>8, <2>13, <2>15 DEF SameCount, SameState
 <2> QED  BY <2>16, <2>17, <1>a, <1>3, <1>u, AnswerTakenFits
<1> QED  BY <1>1, <1>2, <1>3

\* An edit that is answered sends its load, in the place kept for it (handleSessionEdited).
LEMMA HandleEditedFits ==
    ASSUME EditorKeeps, EditorFits, gui' \in Members, HandleEdited
    PROVE  EditorFits'
<1>t. gui \in Members /\ PageFits(gui) /\ Length \in Nat  BY SnapshotIsShort
<1>u. answers # <<>> /\ answers' = Tail(answers) /\ UNCHANGED <<disk, calls, graph, reply>>
  BY DEF HandleEdited, engineVars
<1>a. PICK a \in Answers : a = Head(answers) /\ a.op # "open" /\ Fits(gui, a)
                           /\ (a.ok => Known(a.doc))
  BY <1>u, AnswersLeft DEF HandleEdited, EditorFits, DocumentsAreKnown
<1>1. CASE a.gen # gui.sessionGeneration \/ ~gui.active
 <2>1. gui' = gui  BY <1>1, <1>a DEF HandleEdited
 <2> QED  BY <2>1, <1>t, <1>u, AnswerTakenFits
<1>2. CASE a.gen = gui.sessionGeneration /\ gui.active
 <2>r. gui.ready  BY <1>2, <1>a DEF Fits, Ours
\* A page that is free of the edit.
 <2>g. ASSUME NEW n \in Members, n.queue = gui.queue, n.current = gui.current,
              n.sessionGeneration = gui.sessionGeneration, n.generation = gui.generation,
              ~n.active, n.ready = gui.ready, n.ticking = gui.ticking,
              n.playhead = gui.playhead, n.audioPosition = gui.audioPosition
       PROVE  PageFits(n) /\ Spare(n) /\ n.ready
   BY <2>g, <2>r, <1>2, <1>t, NumbersAre DEF Line, Due, Ceiling, PageFits, WithinLength,
     SentWhenReady, Spare, NumbersOf
 <2>1. PICK g : g = [gui EXCEPT !.active = FALSE, !.sessionBusy = FALSE]  OBVIOUS
 <2>2. /\ g \in Members /\ g.queue = gui.queue /\ g.current = gui.current
       /\ g.sessionGeneration = gui.sessionGeneration /\ g.generation = gui.generation
       /\ g.ready = gui.ready /\ g.ticking = gui.ticking
       /\ g.playhead = gui.playhead /\ g.audioPosition = gui.audioPosition /\ g.snapshot = gui.snapshot
       /\ g.selected = gui.selected
   BY <2>1, <1>t DEF Members
 <2>3. ~g.active  BY <2>1, <1>t, Zenon DEF Members
 <2>4. PageFits(g)  BY <2>2, <2>3, <2>g
 <2>5. CASE ~a.ok
  <3>1. gui' = g  BY <2>1, <2>5, <1>2, <1>a DEF HandleEdited
  <3> QED  BY <3>1, <2>2, <2>4, <1>u, AnswerTakenFits
 <2>6. CASE a.ok
  <3>1. PICK h : h = [g EXCEPT !.snapshot = a.doc, !.stale = @ \/ a.derived \/ a.change,
                               !.selected = IF @ \in a.doc.clips THEN @ ELSE "none"]
    OBVIOUS
  <3>d. a.doc \in Docs /\ a.doc.len <= Length  BY <1>a, <1>t, <2>6 DEF Answers, Known
  <3>2. h \in Members /\ h.queue = g.queue /\ h.current = g.current
        /\ h.sessionGeneration = g.sessionGeneration /\ h.generation = g.generation
        /\ h.active = g.active /\ h.ready = g.ready /\ h.ticking = g.ticking
        /\ h.playhead = g.playhead /\ h.audioPosition = g.audioPosition /\ h.snapshot = a.doc
   <4>1. PICK s, t : /\ s = (g.stale \/ a.derived \/ a.change)
                     /\ t = (IF g.selected \in a.doc.clips THEN g.selected ELSE "none")
     OBVIOUS
   <4>2. s \in BOOLEAN /\ t \in Kinds \cup {"none"}  BY <4>1, <2>2 DEF Members, Answers
   <4>3. h = [g EXCEPT !.snapshot = a.doc, !.stale = s, !.selected = t]  BY <3>1, <4>1
   <4> QED  BY ZenonT(40), <4>2, <4>3, <3>d, <2>2 DEF Members
  <3>3. ~h.active  BY <3>2, <2>3, Zenon
  <3>4. PageFits(h) /\ Spare(h) /\ h.ready  BY <3>2, <3>3, <2>2, <2>g
  <3>5. CASE a.derived
   <4>1. PICK n : n = [h EXCEPT !.derived = TRUE]  OBVIOUS
   <4>2. /\ n \in Members /\ n.queue = h.queue /\ n.current = h.current
         /\ n.sessionGeneration = h.sessionGeneration /\ n.generation = h.generation
         /\ n.active = h.active /\ n.ready = h.ready /\ n.ticking = h.ticking
         /\ n.playhead = h.playhead /\ n.audioPosition = h.audioPosition /\ n.snapshot = h.snapshot
     BY <4>1, <3>2 DEF Members
   <4>3. ~n.active  BY <4>2, <3>3, Zenon
   <4>4. PageFits(n) /\ Spare(n) /\ n.ready  BY <4>2, <4>3, <3>2, <2>2, <2>g
   <4>5. PICK c \in Commands : c = Command(h, "load", a.doc, 0) /\ c.doc = a.doc /\ c.pos = 0
     BY <3>2, <3>d, CommandTyped DEF EngineOps, CountsAsBusy
   <4>6. gui' = PushFront(n, c)  BY <4>1, <4>5, <3>1, <3>5, <2>1, <2>6, <1>2, <1>a DEF HandleEdited
   <4>7. PageFits(gui') /\ SameCount(n, gui')  BY <4>2, <4>4, <4>5, <4>6, <3>d, <1>t, PushedFits
   <4>8. /\ gui'.sessionGeneration = gui.sessionGeneration /\ gui'.snapshot = a.doc
         /\ gui.current # NoCommand => gui'.current = gui.current
     BY <4>2, <4>7, <3>2, <2>2 DEF SameCount, SameState
   <4> QED  BY <4>7, <4>8, <2>6, <1>a, <1>u, AnswerTakenFits
  <3>6. CASE ~a.derived /\ a.change
   <4>5. PICK c \in Commands : c = Command(h, "update", a.doc, 0) /\ c.doc = a.doc /\ c.pos = 0
     BY <3>2, <3>d, CommandTyped DEF EngineOps, CountsAsBusy
   <4>6. gui' = PushBack(h, c)  BY <4>5, <3>1, <3>6, <2>1, <2>6, <1>2, <1>a DEF HandleEdited
   <4>7. PageFits(gui') /\ SameCount(h, gui')  BY <3>2, <3>4, <4>5, <4>6, <3>d, <1>t, PushedFits
   <4>8. /\ gui'.sessionGeneration = gui.sessionGeneration /\ gui'.snapshot = a.doc
         /\ gui.current # NoCommand => gui'.current = gui.current
     BY <4>7, <3>2, <2>2 DEF SameCount, SameState
   <4> QED  BY <4>7, <4>8, <2>6, <1>a, <1>u, AnswerTakenFits
  <3>7. CASE ~a.derived /\ ~a.change
    BY <3>1, <3>7, <2>1, <2>6, <1>2, <1>a, <3>2, <2>2, <3>4, <1>u, AnswerTakenFits DEF HandleEdited
  <3> QED  BY <3>5, <3>6, <3>7
 <2> QED  BY <2>5, <2>6
<1> QED  BY <1>1, <1>2

-----------------------------------------------------------------------------
(* The editor: together *)

\* A new page has sent nothing (EditorController::EditorController).
LEMMA EditorFitsAtFirst == EditorInit => EditorFits
<1> SUFFICES ASSUME EditorInit PROVE EditorFits  OBVIOUS
<1>1. /\ gui \in Members /\ gui.queue = <<>> /\ gui.current = NoCommand /\ gui.sessionGeneration = 0
      /\ gui.playhead = 0 /\ gui.audioPosition = 0 /\ gui.snapshot = NoDoc
  BY EditorStarts DEF EditorKeeps, EditorTypes, EditorInit
<1>2. gui.stale /\ ~gui.ready /\ ~gui.ticking /\ ~gui.active  BY Zenon DEF EditorInit
<1>3. Line(gui) = <<>>  BY <1>1 DEF Line
<1>l. Length \in Nat \ {0} /\ MaxOpens \in Nat  BY EditorAssumption DEF EditorAssumption
<1>4. Work(Line(gui)) = 0
 <2>1. Line(gui) \in Seq(Commands) /\ Waiting(Line(gui)) = {}  BY <1>3 DEF Waiting
 <2> QED  BY <2>1, WorkIsNat, FS_EmptySet
<1>5. PageFits(gui)
  BY <1>1, <1>2, <1>3, <1>4, <1>l DEF Due, Ceiling, PageFits, WithinLength, SentWhenReady
<1>6. DocumentsAreKnown  BY <1>1, <1>l DEF EditorInit, NoDoc, DocumentsAreKnown
<1>7. MessagesDiffer  BY <1>1, <1>l DEF EditorInit, MessagesDiffer
<1> QED  BY <1>5, <1>6, <1>7 DEF EditorFits

\* Every step of the page, of its two workers and of the disk keeps the bounds (EditorController,
\* EditorSessionWorker, EditorEngineWorker).
LEMMA EditorFitsAlways ==
    ASSUME EditorKeeps, EditorFits, [EditorNext]_editorVars
    PROVE  EditorFits'
<1>k. gui' \in Members /\ EditorTypes'
 <2>1. EditorKeeps'  BY EditorSteps
 <2> QED  BY <2>1 DEF EditorKeeps, EditorTypes
<1>1. CASE UNCHANGED editorVars
  BY <1>1 DEF editorVars, sessionVars, engineVars, EditorFits, DocumentsAreKnown, MessagesDiffer, Known
<1>2. CASE User
  BY <1>1, <1>k, OpenProjectFits, PageActionsFit, EditsFit, ControlActionsFit, <1>2 DEF Leave, User
<1>3. CASE \E pos \in 0 .. Length, full \in BOOLEAN : Tick(pos, full)  BY <1>3, TickFits
<1>4. CASE SessionWorker \/ EngineWorker  BY <1>4, <1>k, SessionWorkerFits, EngineFits
<1>5. CASE HandleSession  BY <1>5, <1>k, HandleOpenedFits, HandleEditedFits DEF HandleSession
<1>6. CASE HandleEngine
  BY <1>6, HandleFrameFits, HandleCompletedFits, HandleAudioFits DEF HandleEngine
<1> QED  BY <1>1, <1>2, <1>3, <1>4, <1>5, <1>6 DEF EditorNext

\* As many openings as there are messages.
LEMMA MessagesAreFew ==
    ASSUME EditorKeeps, EditorFits
    PROVE  Len(calls) + Len(answers) <= MaxOpens
<1>t. calls \in Seq(Calls) /\ answers \in Seq(Answers) /\ OneRequest /\ gui \in Members
  BY DEF EditorKeeps, EditorTypes
<1>n. /\ Len(calls) \in Nat /\ DOMAIN calls = 1 .. Len(calls) /\ MaxOpens \in Nat
      /\ Len(answers) \in Nat /\ DOMAIN answers = 1 .. Len(answers) /\ gui.sessionGeneration \in Nat
  BY <1>t, EditorAssumption DEF EditorAssumption, Members
<1>1. PICK C, A : C = {calls[i].gen : i \in DOMAIN calls} /\ A = {answers[i].gen : i \in DOMAIN answers}
  OBVIOUS
<1>2. \A s, G : \A n \in Nat : /\ DOMAIN s = 1 .. n /\ G = {s[i].gen : i \in DOMAIN s}
                               /\ \A i, j \in DOMAIN s : s[i].gen = s[j].gen => i = j
                               => IsFiniteSet(G) /\ Cardinality(G) = n
 <2>1. SUFFICES ASSUME NEW s, NEW n \in Nat, NEW G, DOMAIN s = 1 .. n, G = {s[i].gen : i \in DOMAIN s},
                       \A i, j \in DOMAIN s : s[i].gen = s[j].gen => i = j
                PROVE  IsFiniteSet(G) /\ Cardinality(G) = n
   OBVIOUS
 <2>2. PICK f : f = [i \in 1 .. n |-> s[i].gen]  OBVIOUS
 <2>3. f \in Bijection(1 .. n, G)  BY <2>1, <2>2 DEF IsInjective, Bijection, Injection, Surjection
 <2>4. ExistsBijection(1 .. n, G)  BY <2>3 DEF ExistsBijection
 <2>5. IsFiniteSet(1 .. n) /\ Cardinality(1 .. n) = n  BY <2>1, FS_Interval
 <2> QED  BY <2>4, <2>5, FS_Bijection
<1>3. IsFiniteSet(C) /\ Cardinality(C) = Len(calls)
  BY <1>1, <1>2, <1>n DEF EditorFits, MessagesDiffer
<1>4. IsFiniteSet(A) /\ Cardinality(A) = Len(answers)
  BY <1>1, <1>2, <1>n DEF EditorFits, MessagesDiffer
<1>5. C \cap A = {}  BY <1>1 DEF EditorFits, MessagesDiffer
<1>6. C \cup A \subseteq 1 .. MaxOpens
 <2>1. (\A i \in DOMAIN calls : calls[i] \in Calls) /\ \A i \in DOMAIN answers : answers[i] \in Answers
   BY <1>t, Elements
 <2>2. /\ \A i \in DOMAIN calls : calls[i].gen \in Nat /\ calls[i].gen <= gui.sessionGeneration
       /\ \A i \in DOMAIN answers : answers[i].gen \in Nat /\ answers[i].gen <= gui.sessionGeneration
   BY <2>1, <1>t DEF OneRequest, Fits, Calls, Answers
 <2> QED  BY <2>2, <1>1, <1>n DEF EditorFits, MessagesDiffer
<1>7. Cardinality(C \cup A) = Len(calls) + Len(answers)
 <2>1. Cardinality(C \cup A) = Cardinality(C) + Cardinality(A) - Cardinality(C \cap A)
   BY <1>3, <1>4, FS_Union
 <2>2. Cardinality(C \cap A) = 0  BY <1>5, FS_EmptySet
 <2>3. Len(calls) \in Nat /\ Len(answers) \in Nat  BY <1>n
 <2> QED  BY <2>1, <2>2, <2>3, <1>3, <1>4
<1>8. IsFiniteSet(1 .. MaxOpens) /\ Cardinality(1 .. MaxOpens) = MaxOpens
 <2>1. MaxOpens \in Nat  BY <1>n
 <2>2. 1 \in Int /\ MaxOpens \in Int  BY <2>1
 <2>3. IsFiniteSet(1 .. MaxOpens) /\ Cardinality(1 .. MaxOpens) = IF 1 > MaxOpens THEN 0 ELSE MaxOpens - 1 + 1
   BY <2>2, FS_Interval
 <2> QED  BY <2>1, <2>3
<1> QED  BY <1>6, <1>7, <1>8, FS_Subset

\* So the queue of the controller and the messages of the session worker stay within what the
\* openings allow (EditorController).
LEMMA EditorTyped ==
    ASSUME EditorKeeps, EditorFits
    PROVE  EditorTypeOK
<1>t. /\ gui \in Members /\ PageFits(gui) /\ Length \in Nat /\ MaxOpens \in Nat
      /\ disk \in [Projects -> Timelines] /\ service \in Projects \cup {0}
  BY SnapshotIsShort, EditorAssumption DEF EditorAssumption, EditorKeeps, EditorTypes
<1>1. gui.snapshot = NoDoc \/ Known(gui.snapshot)  BY DEF EditorFits, DocumentsAreKnown
<1>2. gui.playhead \in 0 .. Length /\ gui.audioPosition \in 0 .. Length
  BY <1>t DEF PageFits, WithinLength, Members
<1>3. Len(gui.queue) <= MaxOpens + 3
 <2>1. gui.queue \in Seq(Commands)  BY <1>t DEF Members
 <2>2. CASE gui.current = NoCommand  BY <2>2, <1>t DEF EditorKeeps, NobodyWaits
 <2>3. CASE gui.current # NoCommand
  <3>1. Len(Line(gui)) = Len(gui.queue) + 1  BY <2>3, <1>t, LineIs
  <3>2. Len(Line(gui)) <= Work(Line(gui)) + 2  BY <1>t, LineIsShort DEF EditorKeeps
  <3>3. NumbersOf(gui) /\ Ceiling(gui) <= gui.sessionGeneration + 2 /\ gui.sessionGeneration <= MaxOpens
    BY <1>t, NumbersAre DEF Ceiling, EditorFits, MessagesDiffer, Members
  <3>4. Len(gui.queue) \in Nat  BY <2>1
  <3> QED  BY <3>1, <3>2, <3>3, <3>4, <1>t DEF PageFits, NumbersOf
 <2> QED  BY <2>2, <2>3
<1>4. Len(calls) + Len(answers) <= MaxOpens  BY MessagesAreFew
<1> QED  BY <1>1, <1>2, <1>3, <1>4, <1>t DEF EditorTypeOK, Known

\* However long the user plays, seeks, edits and opens projects: the queue of the controller
\* holds at most one command for every opening and three more, no message of the session worker
\* is lost sight of, and no position on the page is beyond a timeline (EditorController).
THEOREM EditorIsBounded == EditorSpec => []EditorTypeOK
<1>1. EditorInit => EditorKeeps /\ EditorFits  BY EditorStarts, EditorFitsAtFirst
<1>2. EditorKeeps /\ EditorFits /\ [EditorNext]_editorVars => EditorKeeps' /\ EditorFits'
  BY EditorSteps, EditorFitsAlways
<1>3. EditorKeeps /\ EditorFits => EditorTypeOK  BY EditorTyped
<1> QED  BY <1>1, <1>2, <1>3, PTL DEF EditorSpec

-----------------------------------------------------------------------------
(* Exports: the names of the types *)

States == Stale \cup Terminal
ExportChoices == [format : {"mp4", "mkv"}, replace : BOOLEAN]
Signals == [state : States, last : BOOLEAN]
Rows == [state : States \cup {"none"}, evidence : RenderFiles \cup {NoFile}]

-----------------------------------------------------------------------------
(* Exports: types *)

\* RenderTypeOK with names for the sets it is made of; that published evidence is a file
\* follows from EvidenceIsOwn.
RenderTypes ==
    /\ job \in 0 .. Jobs /\ wanted \in [JobIds -> ExportChoices]
    /\ busy \in BOOLEAN /\ cancelFlag \in BOOLEAN /\ sent \in BOOLEAN /\ stop \in BOOLEAN
    /\ worker \in {"idle", "called", "renaming", "recovered", "polling"}
    /\ pc \in {"none", "start", "running", "preflight", "encode", "encoded", "prepare",
               "publish", "rename", "cleanup", "finish", "ended"}
    /\ mem \in States /\ shown \in States /\ result \in {"ok", "error"}
    /\ signals \in Seq(Signals)
    /\ row \in [JobIds -> Rows]
    /\ told \in [JobIds -> States \cup {"nothing"}]
    /\ tmp \subseteq RenderFiles /\ dest \in RenderFiles \cup {NoFile, Foreign}
    /\ published \in [JobIds -> RenderFiles \cup {NoFile}]
DestTypes == late \in BOOLEAN /\ posix \in BOOLEAN

LEMMA RenderTypesNamed ==
    /\ RenderTypeOK => RenderTypes /\ DestTypes
    /\ RenderTypes /\ DestTypes /\ EvidenceIsOwn => RenderTypeOK
    /\ RenderTypes' /\ DestTypes' /\ EvidenceIsOwn' => RenderTypeOK'
<1> USE DEF DestTypes
<1>1. RenderTypeOK => RenderTypes /\ DestTypes
  BY DEF RenderTypeOK, RenderTypes, ExportChoices, States, Signals, Rows
<1>e. \A j \in JobIds : <<j, "mkv">> \in RenderFiles  BY DEF RenderFiles
<1>2. RenderTypes /\ DestTypes /\ EvidenceIsOwn => RenderTypeOK
 <2> SUFFICES ASSUME RenderTypes, DestTypes, EvidenceIsOwn PROVE RenderTypeOK  OBVIOUS
 <2>1. \A j \in JobIds : row[j].state = "PUBLISHING" => row[j].evidence \in RenderFiles
   BY <1>e DEF EvidenceIsOwn
 <2> QED  BY <2>1 DEF RenderTypeOK, RenderTypes, ExportChoices, States, Signals, Rows
<1>3. RenderTypes' /\ DestTypes' /\ EvidenceIsOwn' => RenderTypeOK'
 <2> SUFFICES ASSUME RenderTypes', DestTypes', EvidenceIsOwn' PROVE RenderTypeOK'  OBVIOUS
 <2>1. \A j \in JobIds : row'[j].state = "PUBLISHING" => row'[j].evidence \in RenderFiles
   BY <1>e DEF EvidenceIsOwn
 <2> QED  BY <2>1 DEF RenderTypeOK, RenderTypes, ExportChoices, States, Signals, Rows
<1> QED  BY <1>1, <1>2, <1>3

LEMMA StatesAre ==
    /\ Terminal \subseteq States /\ Stale \subseteq States
    /\ {"PENDING", "RUNNING", "PUBLISHING", "CANCELLING", "COMPLETED", "FAILED", "CANCELLED"} = States
BY DEF States, Terminal, Stale

LEMMA RenderTypesInit == RenderInit => RenderTypes
<1> SUFFICES ASSUME RenderInit PROVE RenderTypes  OBVIOUS
<1> USE RenderAssumption DEF RenderAssumption, RenderInit
<1>1. NoRow \in Rows  BY DEF NoRow, Rows
<1>2. row \in [JobIds -> Rows]  BY <1>1
<1>3. wanted \in [JobIds -> ExportChoices]  BY DEF ExportChoices
<1>4. signals \in Seq(Signals)  OBVIOUS
<1>5. told \in [JobIds -> States \cup {"nothing"}] /\ published \in [JobIds -> RenderFiles \cup {NoFile}]
  OBVIOUS
<1>6. job \in 0 .. Jobs  OBVIOUS
<1>7. mem \in States /\ shown \in States /\ tmp \subseteq RenderFiles /\ dest \in RenderFiles \cup {NoFile, Foreign}
  BY StatesAre
<1> HIDE DEF RenderInit
<1> QED  BY <1>2, <1>3, <1>4, <1>5, <1>6, <1>7 DEF RenderTypes, RenderInit

LEMMA OutputIsFile ==
    ASSUME RenderTypes, job \in JobIds
    PROVE  Output \in RenderFiles /\ <<job, "mkv">> \in RenderFiles
BY DEF RenderTypes, ExportChoices, Output, RenderFiles

LEMMA RenderTypesStep == RenderTypes /\ OneExport /\ [RenderNext]_renderVars => RenderTypes'
<1> SUFFICES ASSUME RenderTypes, OneExport, [RenderNext]_renderVars PROVE RenderTypes'  OBVIOUS
<1> USE RenderAssumption, StatesAre DEF RenderAssumption, guiVars, threadVars, fileVars, destVars
<1>j. job \in 0 .. Jobs /\ (job \in JobIds => Output \in RenderFiles /\ <<job, "mkv">> \in RenderFiles)
  BY OutputIsFile DEF RenderTypes
<1>1. ASSUME NEW c \in Exports, Export(c.format, c.replace) PROVE RenderTypes'
 <2>1. [format |-> c.format, replace |-> c.replace] \in ExportChoices  BY DEF ExportChoices
 <2>2. job' \in 0 .. Jobs /\ wanted' \in [JobIds -> ExportChoices]
   BY <1>1, <2>1 DEF Export, RenderTypes, JobIds
 <2> QED  BY <1>1, <2>2 DEF Export, RenderTypes
<1>2. CASE Cancel \/ Quit  BY ZenonT(40), <1>2 DEF Cancel, Quit, RenderTypes
<1>3. CASE Deliver
 <2>1. signals \in Seq(Signals) /\ signals # <<>>  BY <1>3 DEF Deliver, RenderTypes
 <2>2. Head(signals) \in Signals /\ Tail(signals) \in Seq(Signals)  BY <2>1
 <2>3. Head(signals).state \in States /\ Head(signals).last \in BOOLEAN  BY <2>2 DEF Signals
 <2>4. told' \in [JobIds -> States \cup {"nothing"}]  BY <1>3, <2>3 DEF Deliver, RenderTypes
 <2>5. busy' \in BOOLEAN /\ shown' \in States /\ signals' \in Seq(Signals)
   BY <1>3, <2>2, <2>3 DEF Deliver, RenderTypes
 <2> QED  BY <1>3, <2>4, <2>5 DEF Deliver, RenderTypes
<1>4. ASSUME NEW state \in States, NEW last \in BOOLEAN, Say(state, last)
      PROVE  signals' \in Seq(Signals)
  BY <1>4 DEF Signals, Say, RenderTypes
<1>5. CASE RenderRefused  BY ZenonT(40), <1>4, <1>5 DEF RenderRefused, RenderTypes
<1>6. CASE Poll  BY ZenonT(40), <1>4, <1>6 DEF Poll, RenderTypes
<1>7. ASSUME NEW j \in JobIds, NEW s \in States, row' = [row EXCEPT ![j].state = s]
      PROVE  row' \in [JobIds -> Rows]
  BY <1>7 DEF RenderTypes, Rows
<1>8. CASE Recovered  BY <1>8 DEF Recovered, RenderTypes
<1>9. CASE Begin  BY <1>7, <1>9 DEF Begin, OneExport, RenderTypes
<1>10. CASE SendCancel  BY <1>10 DEF SendCancel, RenderTypes
<1>11. ASSUME NEW j \in JobIds, RecoverLook(j) \/ RecoverPublish(j) PROVE RenderTypes'
  BY <1>11 DEF RecoverLook, RecoverPublish, RenderTypes
<1>12. ASSUME NEW j \in JobIds, RecoverSettle(j) PROVE RenderTypes'
 <2>1. PICK s \in States : row' = [row EXCEPT ![j].state = s]
   BY <1>12 DEF RecoverSettle, RenderTypes
 <2>2. row' \in [JobIds -> Rows]  BY <1>7, <2>1
 <2> QED  BY <1>12, <2>2 DEF RecoverSettle, RenderTypes
<1>13. CASE Thread
 <2> USE <1>13 DEF OtherVars
 <2>1. pc # "none" => job \in JobIds  BY DEF OneExport
 <2>2. CASE ThreadStarts  BY <2>2 DEF ThreadStarts, RenderTypes
 <2>3. CASE Preflight  BY ZenonT(40), <2>3 DEF Preflight, RenderTypes
 <2>4. CASE Boundary  BY <2>4 DEF Boundary, RenderTypes
 <2>5. CASE Cleanup  BY <2>5 DEF Cleanup, Step, RenderTypes
 <2>6. CASE ThreadEnds  BY <2>6 DEF ThreadEnds, Step, RenderTypes
 <2>7. ASSUME NEW state \in States, NEW evidence \in RenderFiles \cup {NoFile},
              Advanced(state, evidence), pc # "none"
       PROVE  row' \in [JobIds -> Rows]
   BY <2>1, <2>7 DEF Rows, Advanced, RenderTypes
 <2>8. CASE RowRunning  BY <2>7, <2>8 DEF RowRunning, RenderTypes
 <2>9. CASE Prepare  BY <1>j, <2>1, <2>7, <2>9 DEF Prepare, RenderTypes
 <2>10. CASE Encode  BY <1>j, <2>1, <2>10 DEF Encode, RenderTypes
 <2>11. CASE Remux  BY <1>j, <2>1, <2>11 DEF Remux, RenderTypes
 <2>12. CASE Publish  BY <1>j, <2>1, <2>12 DEF Publish, RenderTypes
 <2>14. CASE LookAtDestination  BY <2>14 DEF LookAtDestination, RenderTypes
 <2>13. CASE Finish  BY <2>1, <2>13, <2>7 DEF Finish, Step, RenderTypes, Rows
 <2> QED  BY <2>2, <2>3, <2>4, <2>5, <2>6, <2>8, <2>9, <2>10, <2>11, <2>12, <2>13, <2>14 DEF Thread
<1>14. CASE ForeignFile  BY <1>14 DEF ForeignFile, RenderTypes
<1>15. CASE Crash
 <2>1. mem' \in States /\ shown' \in States /\ signals' \in Seq(Signals)  BY <1>15 DEF Crash
 <2> QED  BY <1>15, <2>1 DEF Crash, RenderTypes
<1>16. CASE UNCHANGED renderVars  BY <1>16 DEF renderVars, RenderTypes
<1> QED
  BY <1>1, <1>2, <1>3, <1>5, <1>6, <1>8, <1>9, <1>10, <1>11, <1>12, <1>13, <1>14, <1>15, <1>16 DEF
   RenderNext, Worker, NoMore

\* The look at the destination and the build (LookAtDestination, RecoverLook).
LEMMA DestTypesKeep ==
    /\ RenderInit => DestTypes
    /\ DestTypes /\ [RenderNext]_renderVars => DestTypes'
<1>1. RenderInit => DestTypes  BY DEF RenderInit, DestTypes
<1>2. ASSUME DestTypes, [RenderNext]_renderVars PROVE DestTypes'
 <2>1. posix' = posix /\ (late' = late \/ late' = TRUE \/ late' = FALSE)
   BY <1>2 DEF RenderNext, Worker, Thread, Export, Cancel, Quit, Deliver, RenderRefused, Recovered,
    Begin, SendCancel, Poll, RecoverLook, RecoverPublish, RecoverSettle, ThreadStarts, RowRunning,
    Preflight, Encode, Boundary, Prepare, Remux, LookAtDestination, Publish, Cleanup, Finish,
    ThreadEnds, ForeignFile, Crash, NoMore, renderVars, fileVars, destVars, OtherVars
 <2> QED  BY <1>2, <2>1 DEF DestTypes
<1> QED  BY <1>1, <1>2

-----------------------------------------------------------------------------
(* Exports: the inductive invariant.  One lemma for each part. *)

LEMMA RenderInvInit == RenderInit => RenderInv
<1> SUFFICES ASSUME RenderInit PROVE RenderInv  OBVIOUS
<1> USE RenderAssumption DEF RenderAssumption, RenderInit, JobIds
<1>1. OneExport /\ NothingBefore  BY DEF OneExport, NothingBefore, NotBegun, BeforeBegin
<1>2. ToldIsTrue /\ CompletedIsPublished /\ AnswerIsTrue
  BY DEF ToldIsTrue, TruthOf, CompletedIsPublished, AnswerIsTrue, NoRow
<1>3. NoPartialLeft /\ RowFollowsThread /\ ThreadKeeps
  BY DEF NoPartialLeft, RowFollowsThread, ThreadKeeps
<1>4. EvidenceIsOwn /\ Looked  BY DEF EvidenceIsOwn, RenderFiles, NoFile, Foreign, NoRow, Looked
<1> QED  BY <1>1, <1>2, <1>3, <1>4 DEF RenderInv

LEMMA FilesAre ==
    ASSUME NEW f \in RenderFiles
    PROVE  f[1] \in JobIds /\ f # NoFile /\ f # Foreign
BY DEF RenderFiles, NoFile, Foreign, JobIds

LEMMA TailIs ==
    ASSUME NEW S, NEW s \in Seq(S), s # <<>>
    PROVE  /\ Head(s) = s[1] /\ Len(s) \in Nat \ {0} /\ Tail(s) \in Seq(S) /\ Len(Tail(s)) = Len(s) - 1
           /\ \A i \in 1 .. Len(Tail(s)) : i + 1 \in 1 .. Len(s) /\ Tail(s)[i] = s[i + 1]
           /\ Tail(s) = <<>> <=> Len(s) = 1
<1>1. Len(s) \in Nat \ {0} /\ Tail(s) \in Seq(S) /\ Len(Tail(s)) = Len(s) - 1  OBVIOUS
<1>2. \A t \in Seq(S) : t = <<>> <=> Len(t) = 0  OBVIOUS
<1>3. Head(s) = s[1] /\ \A i \in 1 .. Len(Tail(s)) : Tail(s)[i] = s[i + 1]  OBVIOUS
<1>4. Tail(s) = <<>> <=> Len(s) = 1
 <2>1. Tail(s) = <<>> <=> Len(Tail(s)) = 0  BY <1>1, <1>2, Zenon
 <2>2. Len(Tail(s)) = 0 <=> Len(s) = 1  BY <1>1
 <2> QED  BY <2>1, <2>2, Zenon
<1>5. \A i \in 1 .. Len(Tail(s)) : i + 1 \in 1 .. Len(s)  BY <1>1
<1> QED  BY <1>1, <1>3, <1>4, <1>5

LEMMA OneExportStep ==
    RenderTypes /\ OneExport /\ [RenderNext]_renderVars => OneExport'
<1> SUFFICES ASSUME RenderTypes, OneExport, [RenderNext]_renderVars PROVE OneExport'  OBVIOUS
<1> USE RenderAssumption DEF RenderAssumption, guiVars, threadVars, fileVars, destVars, BeforeBegin,
     OneExport, JobIds
<1>t. job \in 0 .. Jobs /\ signals \in Seq(Signals) /\ busy \in BOOLEAN  BY DEF RenderTypes
<1>1. ASSUME NEW c \in Exports, Export(c.format, c.replace) PROVE OneExport'
  BY <1>1, <1>t DEF Export
<1>2. CASE Deliver
 <2> DEFINE n == Len(signals)
 <2>1. /\ signals # <<>> /\ signals' = Tail(signals) /\ worker' = worker /\ pc' = pc /\ job' = job
       /\ busy' = (busy /\ ~Head(signals).last)
   BY <1>2 DEF Deliver
 <2>2. /\ Head(signals) = signals[1] /\ n \in Nat \ {0} /\ Len(signals') = n - 1
       /\ \A i \in 1 .. Len(signals') : i + 1 \in 1 .. n /\ signals'[i] = signals[i + 1]
       /\ signals' = <<>> <=> n = 1
   BY <1>t, <2>1, TailIs
 <2>3. \A i \in 1 .. n : signals[i].last <=> worker = "idle" /\ i = n  OBVIOUS
 <2>4. ASSUME NEW i \in 1 .. Len(signals')
       PROVE  signals'[i].last <=> worker' = "idle" /\ i = Len(signals')
  <3>1. signals[i + 1].last <=> worker = "idle" /\ i + 1 = n  BY <2>2, <2>3
  <3>2. i + 1 = n <=> i = Len(signals')  BY <2>2
  <3> QED  BY <2>1, <2>2, <3>1, <3>2
 <2>5. Head(signals).last <=> worker = "idle" /\ n = 1  BY <2>2, <2>3
 <2>6. busy' <=> busy /\ ~(worker = "idle" /\ n = 1)  BY <2>1, <2>5
 <2> HIDE DEF n
 <2> QED  BY <2>1, <2>2, <2>4, <2>6
<1>3. CASE RenderRefused  BY <1>3, <1>t DEF RenderRefused, Say
<1>4. CASE Poll  BY SMTT(40), <1>4, <1>t DEF Poll, Say
<1>5. CASE Recovered \/ Begin \/ SendCancel  BY <1>5 DEF Recovered, Begin, SendCancel
<1>6. ASSUME NEW j \in JobIds, RecoverLook(j) \/ RecoverPublish(j) \/ RecoverSettle(j) PROVE OneExport'
  BY <1>6 DEF RecoverLook, RecoverPublish, RecoverSettle
<1>7. CASE Thread
  BY <1>7 DEF Thread, OtherVars, ThreadStarts, RowRunning, Preflight, Encode, Boundary, Prepare,
   Remux, LookAtDestination, Publish, Cleanup, Finish, ThreadEnds, Step
<1>8. CASE Cancel \/ Quit \/ ForeignFile  BY <1>8 DEF Cancel, Quit, ForeignFile
<1>9. CASE Crash  BY <1>9 DEF Crash
<1>10. CASE UNCHANGED renderVars  BY <1>10 DEF renderVars
<1> QED
  BY <1>1, <1>2, <1>3, <1>4, <1>5, <1>6, <1>7, <1>8, <1>9, <1>10 DEF RenderNext, Worker, NoMore

LEMMA NothingBeforeStep ==
    RenderTypes /\ OneExport /\ NothingBefore /\ [RenderNext]_renderVars => NothingBefore'
<1> SUFFICES ASSUME RenderTypes, OneExport, NothingBefore, [RenderNext]_renderVars PROVE NothingBefore'
  OBVIOUS
<1> USE RenderAssumption DEF RenderAssumption, guiVars, threadVars, fileVars, destVars, BeforeBegin,
     NothingBefore, NotBegun
<1>t. /\ job \in 0 .. Jobs /\ signals \in Seq(Signals) /\ row \in [JobIds -> Rows]
      /\ told \in [JobIds -> States \cup {"nothing"}] /\ published \in [JobIds -> RenderFiles \cup {NoFile}]
      /\ \A f \in tmp : f[1] \in JobIds
  BY FilesAre DEF RenderTypes
<1>1. ASSUME NEW c \in Exports, Export(c.format, c.replace) PROVE NothingBefore'
  BY <1>1, <1>t DEF Export, OneExport, JobIds
<1>2. CASE Deliver
 <2>1. /\ signals # <<>> /\ worker' = worker /\ job' = job /\ row' = row /\ published' = published /\ tmp' = tmp
       /\ busy' = (busy /\ ~Head(signals).last)
       /\ told' = IF Head(signals).last THEN [told EXCEPT ![job] = Head(signals).state] ELSE told
   BY <1>2 DEF Deliver
 <2>2. worker \notin BeforeBegin  BY <2>1 DEF OneExport
 <2>3. \A j \in JobIds : j > job => NotBegun(j)'  BY <1>t, <2>1 DEF JobIds
 <2> QED  BY <2>1, <2>2, <2>3
<1>3. CASE RenderRefused \/ Poll  BY <1>3 DEF RenderRefused, Poll, Say
<1>10. CASE Recovered \/ SendCancel  BY <1>10 DEF Recovered, SendCancel
<1>4. CASE Begin  BY <1>4, <1>t DEF Begin, OneExport, JobIds
<1>5. ASSUME NEW j \in JobIds, RecoverLook(j) \/ RecoverPublish(j) PROVE NothingBefore'
  BY <1>5, <1>t DEF RecoverLook, RecoverPublish, NoRow, JobIds
<1>6. ASSUME NEW j \in JobIds, RecoverSettle(j) PROVE NothingBefore'
  BY <1>6, <1>t DEF RecoverSettle, Stale, NoRow, JobIds
<1>7. CASE Thread
 <2> USE DEF OtherVars
 <2>1. worker = "polling" /\ job \in JobIds
   BY <1>7 DEF OneExport, Thread, ThreadStarts, RowRunning, Preflight, Encode, Boundary, Prepare,
    Remux, LookAtDestination, Publish, Cleanup, Finish, ThreadEnds, Step
 <2>2. ASSUME NEW j \in JobIds, j > job PROVE NotBegun(j)'
   BY <1>7, <1>t, <2>1, <2>2 DEF Thread, ThreadStarts, RowRunning, Preflight, Encode, Boundary,
    Prepare, Remux, LookAtDestination, Publish, Cleanup, Finish, ThreadEnds, Step, Advanced, JobIds
 <2>3. tmp' \subseteq tmp \cup {<<job, "mkv">>, Output}
   BY <1>7 DEF Thread, ThreadStarts, RowRunning, Preflight, Encode, Boundary, Prepare, Remux,
    LookAtDestination, Publish, Cleanup, Finish, ThreadEnds, Step
 <2>4. worker' = worker /\ job' = job /\ busy' = busy /\ told' = told
   BY <1>7 DEF Thread, ThreadStarts, RowRunning, Preflight, Encode, Boundary, Prepare, Remux,
    LookAtDestination, Publish, Cleanup, Finish, ThreadEnds, Step
 <2>5. \A f \in tmp' : f[1] <= job  BY <1>t, <2>3 DEF Output, JobIds
 <2> QED  BY <2>1, <2>2, <2>4, <2>5
<1>8. CASE Cancel \/ Quit \/ ForeignFile \/ Crash  BY <1>8 DEF Cancel, Quit, ForeignFile, Crash
<1>9. CASE UNCHANGED renderVars  BY <1>9 DEF renderVars
<1> QED
  BY <1>1, <1>2, <1>3, <1>4, <1>5, <1>6, <1>7, <1>8, <1>9, <1>10 DEF RenderNext, Worker, NoMore

\* What a step of the render thread leaves alone and which row and files it may touch.
LEMMA ThreadFrame ==
    ASSUME RenderTypes, OneExport, Thread
    PROVE  /\ worker = "polling" /\ pc # "none" /\ job \in JobIds
           /\ UNCHANGED <<guiVars, cancelFlag, signals, worker, sent, crashed, posix, stop>>
           /\ \A j \in JobIds : j # job => row'[j] = row[j] /\ published'[j] = published[j]
<1> USE DEF OtherVars, guiVars, threadVars, fileVars, destVars
<1>1. pc # "none" /\ UNCHANGED <<guiVars, cancelFlag, signals, worker, sent, crashed, posix, stop>>
  BY DEF Thread, ThreadStarts, RowRunning, Preflight, Encode, Boundary, Prepare, Remux, LookAtDestination, Publish,
   Cleanup, Finish, ThreadEnds, Step
<1>2. row' = row \/ \E r \in {row'[job]} : row' = [row EXCEPT ![job] = r]
  BY DEF Thread, ThreadStarts, RowRunning, Preflight, Encode, Boundary, Prepare, Remux, LookAtDestination, Publish,
   Cleanup, Finish, ThreadEnds, Step, Advanced, RenderTypes
<1>3. published' = published \/ published' = [published EXCEPT ![job] = Output]
  BY DEF Thread, ThreadStarts, RowRunning, Preflight, Encode, Boundary, Prepare, Remux, LookAtDestination, Publish,
   Cleanup, Finish, ThreadEnds, Step
<1> QED  BY <1>1, <1>2, <1>3 DEF OneExport, RenderTypes

LEMMA ThreadKeepsStep ==
    RenderTypes /\ RenderInv /\ [RenderNext]_renderVars => ThreadKeeps'
<1> SUFFICES ASSUME RenderTypes, RenderInv, [RenderNext]_renderVars, worker' = "polling"
             PROVE  ThreadKeeps'
  BY DEF ThreadKeeps
<1> USE DEF guiVars, threadVars, fileVars, destVars, BeforeBegin
<1>i. OneExport /\ NothingBefore /\ ThreadKeeps  BY DEF RenderInv
<1>t. /\ row \in [JobIds -> Rows] /\ published \in [JobIds -> RenderFiles \cup {NoFile}]
      /\ stop \in BOOLEAN /\ mem \in States /\ result \in {"ok", "error"}
      /\ pc \in {"none", "start", "running", "preflight", "encode", "encoded", "prepare",
                 "publish", "rename", "cleanup", "finish", "ended"}
  BY DEF RenderTypes
<1>1. CASE Cancel \/ Quit \/ Deliver \/ ForeignFile \/ UNCHANGED renderVars
  BY <1>1, <1>i DEF Cancel, Quit, Deliver, ForeignFile, renderVars, ThreadKeeps, TruthOf, Output
<1>2. CASE Begin
  BY <1>2, <1>i, <1>t DEF Begin, ThreadKeeps, OneExport, NothingBefore, NotBegun, NoRow, Terminal
<1>3. CASE SendCancel  BY <1>3, <1>i, <1>t DEF SendCancel, ThreadKeeps, Terminal, TruthOf, Output
<1>4. CASE Poll  BY <1>4, <1>i, <1>t DEF Poll, ThreadKeeps, TruthOf, Output
<1>5. CASE Thread
 <2>1. worker = "polling" /\ job \in JobIds /\ stop' = stop /\ job' = job /\ wanted' = wanted /\ Output' = Output
   BY <1>5, <1>i, ThreadFrame DEF Output
 <2>k. /\ stop <=> mem \in {"CANCELLING", "CANCELLED"}
       /\ pc = "none" <=> mem \in Terminal
       /\ row[job].state = "PUBLISHING" \/ published[job] # NoFile =>
              mem \in {"PUBLISHING", "COMPLETED", "FAILED"}
       /\ pc \in {"prepare", "publish", "rename"} => mem = "PUBLISHING"
       /\ mem = "PUBLISHING" => pc \in {"prepare", "publish", "rename", "cleanup", "finish", "ended"}
       /\ pc \in {"publish", "rename"} => row[job].state = "PUBLISHING"
       /\ pc \in {"cleanup", "finish"} /\ result = "ok" =>
              row[job].state = "PUBLISHING" /\ published[job] = Output
       /\ pc = "ended" /\ result = "ok" => TruthOf(job, "COMPLETED")
       /\ pc = "none" => TruthOf(job, mem)
       /\ pc \in {"start", "running", "preflight", "encode", "finish", "ended"} =>
              \A f \in tmp : f[1] # job
   BY <1>i, <2>1 DEF ThreadKeeps
 <2> USE <1>t, <2>1, <2>k DEF OtherVars, ThreadKeeps
 <2>2. CASE ThreadStarts  BY <2>2 DEF ThreadStarts, TruthOf, Terminal
 <2>3. CASE RowRunning  BY <2>3 DEF RowRunning, Advanced, TruthOf, Terminal
 <2>4. CASE Preflight  BY <2>4 DEF Preflight
 <2>5. CASE Encode  BY <2>5 DEF Encode
 <2>6. CASE Boundary  BY <2>6 DEF Boundary, Terminal
 <2>7. CASE Prepare  BY <2>7 DEF Prepare, Advanced, Terminal
 <2>8. CASE Remux  BY <2>8 DEF Remux
 <2>9. CASE Publish  BY <2>9 DEF Publish
 <2>13. CASE LookAtDestination  BY <2>13 DEF LookAtDestination
 <2>10. CASE Cleanup  BY <2>10 DEF Cleanup, Step
 <2>11. CASE Finish  BY <2>11 DEF Finish, Step, Output, Advanced, TruthOf
 <2>12. CASE ThreadEnds  BY <2>12 DEF ThreadEnds, Step, TruthOf, Terminal
 <2> QED  BY <1>5, <2>2, <2>3, <2>4, <2>5, <2>6, <2>7, <2>8, <2>9, <2>10, <2>11, <2>12, <2>13 DEF Thread
<1>6. ASSUME NEW j \in JobIds, RecoverLook(j) \/ RecoverPublish(j) \/ RecoverSettle(j) PROVE FALSE
  BY <1>6 DEF RecoverLook, RecoverPublish, RecoverSettle
<1>7. ASSUME NEW c \in Exports, Export(c.format, c.replace) PROVE FALSE  BY <1>7 DEF Export
<1> QED
  BY <1>1, <1>2, <1>3, <1>4, <1>5, <1>6, <1>7 DEF RenderNext, Worker, NoMore, RenderRefused, Recovered, Crash

LEMMA FilesStep ==
    RenderTypes /\ RenderInv /\ [RenderNext]_renderVars =>
        NoPartialLeft' /\ CompletedIsPublished' /\ EvidenceIsOwn'
<1> SUFFICES ASSUME RenderTypes, RenderInv, [RenderNext]_renderVars
             PROVE  NoPartialLeft' /\ CompletedIsPublished' /\ EvidenceIsOwn'
  OBVIOUS
<1> USE DEF guiVars, threadVars, fileVars, destVars, BeforeBegin
<1>i. OneExport /\ NothingBefore /\ ThreadKeeps /\ NoPartialLeft /\ CompletedIsPublished /\ EvidenceIsOwn
  BY DEF RenderInv
<1>t. /\ row \in [JobIds -> Rows] /\ published \in [JobIds -> RenderFiles \cup {NoFile}]
      /\ tmp \subseteq RenderFiles /\ dest \in RenderFiles \cup {NoFile, Foreign}
  BY DEF RenderTypes
<1>1. ASSUME NEW c \in Exports, Export(c.format, c.replace) PROVE NoPartialLeft'
  BY <1>1, <1>i DEF Export, OneExport, NoPartialLeft
<1>2. ASSUME NEW c \in Exports, Export(c.format, c.replace) PROVE CompletedIsPublished' /\ EvidenceIsOwn'
  BY <1>2, <1>i DEF Export, CompletedIsPublished, EvidenceIsOwn
<1>3. CASE Cancel \/ Quit \/ Deliver \/ RenderRefused \/ Poll \/ Recovered \/ SendCancel \/ UNCHANGED renderVars
  BY <1>3, <1>i DEF Cancel, Quit, Deliver, RenderRefused, Poll, Recovered, SendCancel, renderVars,
   NoPartialLeft, CompletedIsPublished, EvidenceIsOwn
<1>4. CASE Begin
  BY <1>4, <1>i, <1>t DEF Begin, OneExport, NothingBefore, NoPartialLeft, CompletedIsPublished, EvidenceIsOwn
<1>5. ASSUME NEW j \in JobIds, RecoverLook(j) \/ RecoverPublish(j)
      PROVE  NoPartialLeft' /\ CompletedIsPublished' /\ EvidenceIsOwn'
  BY <1>5, <1>i, <1>t, FilesAre DEF RecoverLook, RecoverPublish, EvidenceIsOwn, NoPartialLeft,
    CompletedIsPublished
<1>6. ASSUME NEW j \in JobIds, RecoverSettle(j) PROVE NoPartialLeft' /\ CompletedIsPublished' /\ EvidenceIsOwn'
 <2>1. row[j].state = "PUBLISHING" => <<j, "mkv">> \in RenderFiles /\ row[j].evidence = <<j, "mkv">>
   BY <1>i DEF EvidenceIsOwn, RenderFiles
 <2>2. row'[j].state \in Terminal /\ (row'[j].state = "COMPLETED" => published[j] # NoFile)
   BY <1>6, <1>i, <1>t, <2>1 DEF RecoverSettle, EvidenceIsOwn, Terminal
 <2>3. \A k \in JobIds : k # j => row'[k] = row[k]  BY <1>6, <1>t DEF RecoverSettle
 <2> QED
   BY <1>6, <1>i, <2>2, <2>3 DEF RecoverSettle, NoPartialLeft, CompletedIsPublished, EvidenceIsOwn, Terminal
<1>7. CASE ForeignFile
  BY FilesAre, <1>7, <1>i DEF ForeignFile, NoPartialLeft, CompletedIsPublished, EvidenceIsOwn
<1>8. CASE Crash  BY <1>8, <1>i DEF Crash, NoPartialLeft, CompletedIsPublished, EvidenceIsOwn
<1>9. CASE Thread
 <2> USE DEF OtherVars
 <2>f. /\ worker = "polling" /\ pc # "none" /\ job \in JobIds
       /\ job' = job /\ crashed' = crashed /\ Output' = Output
       /\ \A j \in JobIds : j # job => row'[j] = row[j] /\ published'[j] = published[j]
   BY <1>9, <1>i, ThreadFrame DEF Output
 <2>o. Output \in RenderFiles /\ Output[1] = job /\ Output # NoFile
   BY <2>f, OutputIsFile, FilesAre DEF Output
 <2>1. NoPartialLeft'
  <3>1. CASE pc' = "none"
   <4>1. ThreadStarts \/ ThreadEnds
     BY <1>9, <2>f, <3>1 DEF Thread, ThreadStarts, RowRunning, Preflight, Encode, Boundary, Prepare,
      Remux, LookAtDestination, Publish, Cleanup, Finish, ThreadEnds, Step
   <4>2. tmp' = tmp /\ \A f \in tmp : f[1] # job
     BY <1>i, <2>f, <4>1 DEF ThreadStarts, ThreadEnds, Step, ThreadKeeps
   <4> QED  BY <1>i, <2>f, <4>2 DEF NoPartialLeft
  <3>2. tmp' \subseteq tmp \cup {<<job, "mkv">>, Output}
    BY <1>9 DEF Thread, ThreadStarts, RowRunning, Preflight, Encode, Boundary, Prepare, Remux,
     LookAtDestination, Publish, Cleanup, Finish, ThreadEnds, Step
  <3> QED  BY <1>i, <2>f, <2>o, <3>1, <3>2 DEF NoPartialLeft
 <2>2. CompletedIsPublished'
  <3>1. row'[job].state = "COMPLETED" => published'[job] # NoFile
    BY <1>9, <1>i, <1>t, <2>f, <2>o DEF Thread, ThreadStarts, RowRunning, Preflight, Encode,
     Boundary, Prepare, Remux, LookAtDestination, Publish, Cleanup, Finish, ThreadEnds, Step, Advanced, ThreadKeeps,
     CompletedIsPublished
  <3> QED  BY <1>i, <2>f, <3>1 DEF CompletedIsPublished
 <2>3. EvidenceIsOwn'
  <3>1. row'[job].state = "PUBLISHING" => row'[job].evidence = <<job, "mkv">>
    BY <1>9, <1>i, <1>t, <2>f DEF Thread, ThreadStarts, RowRunning, Preflight, Encode, Boundary,
     Prepare, Remux, LookAtDestination, Publish, Cleanup, Finish, ThreadEnds, Step, Advanced, EvidenceIsOwn
  <3>2. \A j \in JobIds : published[j] # NoFile => published'[j] # NoFile
    BY <1>9, <1>t, <2>f, <2>o DEF Thread, ThreadStarts, RowRunning, Preflight, Encode, Boundary,
     Prepare, Remux, LookAtDestination, Publish, Cleanup, Finish, ThreadEnds, Step
  <3>3. dest' = dest \/ (dest' = Output /\ published'[job] = Output)
    BY <1>9, <1>t, <2>f DEF Thread, ThreadStarts, RowRunning, Preflight, Encode, Boundary, Prepare,
     Remux, LookAtDestination, Publish, Cleanup, Finish, ThreadEnds, Step
  <3>4. dest \in RenderFiles => dest[1] \in JobIds  BY FilesAre
  <3> QED  BY <1>i, <2>f, <2>o, <3>1, <3>2, <3>3, <3>4 DEF EvidenceIsOwn
 <2> QED  BY <2>1, <2>2, <2>3
<1> QED  BY <1>1, <1>2, <1>3, <1>4, <1>5, <1>6, <1>7, <1>8, <1>9 DEF RenderNext, Worker, NoMore

\* What the user was told stays true: nothing a later export, a recovery or a crash does
\* takes the row or the file back.
LEMMA ToldIsTrueStep ==
    RenderTypes /\ RenderInv /\ [RenderNext]_renderVars => ToldIsTrue'
<1> SUFFICES ASSUME RenderTypes, RenderInv, [RenderNext]_renderVars, NEW j \in JobIds
             PROVE  TruthOf(j, told[j])'
  BY DEF ToldIsTrue
<1> USE DEF guiVars, threadVars, fileVars, destVars, TruthOf
<1>i. OneExport /\ NothingBefore /\ AnswerIsTrue /\ TruthOf(j, told[j])
  BY DEF RenderInv, ToldIsTrue
<1>t. /\ row \in [JobIds -> Rows] /\ published \in [JobIds -> RenderFiles \cup {NoFile}]
      /\ wanted \in [JobIds -> ExportChoices] /\ told \in [JobIds -> States \cup {"nothing"}]
      /\ signals \in Seq(Signals) /\ job \in 0 .. Jobs
  BY DEF RenderTypes
<1>1. ASSUME NEW c \in Exports, Export(c.format, c.replace) PROVE TruthOf(j, told[j])'
  BY <1>i, <1>t, <1>1 DEF NothingBefore, NotBegun, JobIds, Export
<1>2. CASE Deliver  BY <1>2, <1>t, TailIs, <1>i DEF Deliver, OneExport, AnswerIsTrue
<1>3. CASE Cancel \/ Quit \/ RenderRefused \/ Poll \/ Recovered \/ SendCancel \/ ForeignFile \/ Crash
           \/ UNCHANGED renderVars
  BY <1>3, <1>i DEF Cancel, Quit, RenderRefused, Poll, Recovered, SendCancel, ForeignFile, Crash, renderVars
<1>4. CASE Begin \/ Thread  BY <1>4, <1>i, ThreadFrame, <1>t DEF Begin, OneExport, NothingBefore
<1>5. ASSUME NEW k \in JobIds, RecoverLook(k) \/ RecoverPublish(k) \/ RecoverSettle(k) PROVE TruthOf(j, told[j])'
 <2>1. told' = told /\ wanted' = wanted  BY <1>5 DEF RecoverLook, RecoverPublish, RecoverSettle
 <2>2. CASE RecoverPublish(k)  BY <1>i, <1>t, <2>1, <2>2 DEF RecoverPublish
 <2>4. CASE RecoverLook(k)  BY <1>i, <2>1, <2>4 DEF RecoverLook
 <2>3. CASE RecoverSettle(k)  BY <1>t, <2>3, <1>i, <2>1 DEF RecoverSettle, Terminal, Stale
 <2> QED  BY <1>5, <2>2, <2>3, <2>4
<1> QED  BY <1>1, <1>2, <1>3, <1>4, <1>5 DEF RenderNext, Worker, NoMore

\* The last signal of the worker is true when it is sent and still when it is delivered.
LEMMA AnswerIsTrueStep ==
    RenderTypes /\ RenderInv /\ [RenderNext]_renderVars => AnswerIsTrue'
<1> SUFFICES ASSUME RenderTypes, RenderInv, [RenderNext]_renderVars, worker' = "idle", busy'
             PROVE  TruthOf(job, signals[Len(signals)].state)'
  BY DEF AnswerIsTrue
<1> USE DEF guiVars, threadVars, fileVars, destVars, BeforeBegin
<1>i. OneExport /\ ThreadKeeps /\ AnswerIsTrue  BY DEF RenderInv
<1>t. signals \in Seq(Signals) /\ busy \in BOOLEAN  BY DEF RenderTypes
<1>1. CASE Deliver
 <2>1. /\ signals # <<>> /\ signals' = Tail(signals) /\ UNCHANGED <<job, wanted, row, published, worker>>
       /\ busy /\ ~Head(signals).last
   BY <1>1 DEF Deliver
 <2>2. Head(signals) = signals[1] /\ Len(signals) \in Nat \ {0} /\ 1 \in 1 .. Len(signals)
   BY <1>t, <2>1, TailIs
 <2>3. Len(signals) # 1  BY <1>i, <2>1, <2>2 DEF OneExport
 <2>4. Len(signals') \in 1 .. Len(signals') /\ Len(signals') + 1 = Len(signals)
   BY <1>t, <2>1, <2>2, <2>3, TailIs
 <2>5. signals'[Len(signals')] = signals[Len(signals)]  BY <1>t, <2>1, <2>4, TailIs
 <2> QED  BY <1>i, <2>1, <2>5 DEF AnswerIsTrue, TruthOf
<1>2. CASE RenderRefused \/ Poll
 <2>1. PICK state \in {"FAILED", mem} :
           /\ signals' = Append(signals, [state |-> state, last |-> TRUE])
           /\ TruthOf(job, state)
   BY <1>2, <1>i DEF RenderRefused, Poll, Say, OneExport, ThreadKeeps, TruthOf
 <2>2. signals'[Len(signals')].state = state
  <3> DEFINE m == [state |-> state, last |-> TRUE]
  <3>1. Append(signals, m)[Len(Append(signals, m))] = m  BY <1>t
  <3> QED  BY <2>1, <3>1
 <2> QED  BY <1>2, <2>1, <2>2 DEF RenderRefused, Poll, TruthOf
<1>3. CASE Cancel \/ Quit \/ ForeignFile \/ UNCHANGED renderVars
  BY <1>3, <1>i DEF Cancel, Quit, ForeignFile, renderVars, AnswerIsTrue, TruthOf
<1>4. CASE Recovered \/ Begin \/ SendCancel \/ Thread \/ Crash
  BY <1>4, <1>i, ThreadFrame DEF Recovered, Begin, SendCancel, Crash
<1>5. ASSUME NEW k \in JobIds, RecoverLook(k) \/ RecoverPublish(k) \/ RecoverSettle(k) PROVE FALSE
  BY <1>5 DEF RecoverLook, RecoverPublish, RecoverSettle
<1>6. ASSUME NEW c \in Exports, Export(c.format, c.replace) PROVE FALSE  BY <1>6 DEF Export
<1> QED  BY <1>1, <1>2, <1>3, <1>4, <1>5, <1>6 DEF RenderNext, Worker, NoMore

\* Between the look at the destination and the rename only the user's file can come.
LEMMA LookedStep ==
    RenderTypes /\ RenderInv /\ [RenderNext]_renderVars => Looked'
<1> SUFFICES ASSUME RenderTypes, RenderInv, [RenderNext]_renderVars PROVE Looked'  OBVIOUS
<1> USE DEF guiVars, threadVars, fileVars, destVars
<1>i. OneExport /\ Looked  BY DEF RenderInv
<1>1. CASE Thread
 <2>1. worker = "polling" /\ worker' = worker /\ job' = job /\ wanted' = wanted /\ posix' = posix
   BY <1>1, <1>i, ThreadFrame
 <2>2. CASE pc' = "rename"
  <3>1. LookAtDestination
    BY <1>1, <2>2 DEF Thread, ThreadStarts, RowRunning, Preflight, Encode, Boundary, Prepare, Remux,
     Publish, Cleanup, Finish, ThreadEnds, Step
  <3> QED  BY <2>1, <3>1 DEF LookAtDestination, Looked
 <2> QED  BY <2>1, <2>2 DEF Looked
<1>2. ASSUME NEW c \in Exports, Export(c.format, c.replace) PROVE Looked'
  BY <1>2, <1>i DEF Export, OneExport, Looked
<1>3. ASSUME NEW j \in JobIds, RecoverLook(j) \/ RecoverPublish(j) \/ RecoverSettle(j) PROVE Looked'
  BY <1>3, <1>i DEF RecoverLook, RecoverPublish, RecoverSettle, Publishable, OneExport, Looked
<1>4. CASE Cancel \/ Quit \/ Deliver \/ RenderRefused \/ Recovered \/ SendCancel \/ Poll \/ UNCHANGED renderVars
  BY <1>4, <1>i DEF Cancel, Quit, Deliver, RenderRefused, Recovered, SendCancel, Poll, renderVars, Looked
<1>5. CASE Begin \/ Crash  BY <1>5, <1>i DEF Begin, Crash, Looked
<1>6. CASE ForeignFile  BY <1>6, <1>i DEF ForeignFile, Looked
<1> QED  BY <1>1, <1>2, <1>3, <1>4, <1>5, <1>6 DEF RenderNext, Worker, NoMore

LEMMA RenderInvStep ==
    RenderTypeOK /\ RenderInv /\ [RenderNext]_renderVars => RenderTypeOK' /\ RenderInv'
<1> SUFFICES ASSUME RenderTypeOK, RenderInv, [RenderNext]_renderVars PROVE RenderTypeOK' /\ RenderInv'
  OBVIOUS
<1>1. RenderTypes /\ DestTypes /\ OneExport /\ NothingBefore  BY RenderTypesNamed DEF RenderInv
<1>2. RenderTypes'  BY <1>1, RenderTypesStep
<1>3. OneExport' /\ NothingBefore'  BY <1>1, OneExportStep, NothingBeforeStep
<1>4. ThreadKeeps' /\ NoPartialLeft' /\ CompletedIsPublished' /\ EvidenceIsOwn'
  BY <1>1, ThreadKeepsStep, FilesStep
<1>5. ToldIsTrue' /\ AnswerIsTrue'  BY <1>1, ToldIsTrueStep, AnswerIsTrueStep
<1>8. Looked'  BY <1>1, LookedStep
<1>6. RowFollowsThread'  BY <1>3, <1>4 DEF RowFollowsThread, OneExport, ThreadKeeps, Terminal
<1>7. RenderTypeOK'  BY <1>1, <1>2, <1>4, DestTypesKeep, RenderTypesNamed
<1> QED  BY <1>3, <1>4, <1>5, <1>6, <1>7, <1>8 DEF RenderInv

\* However many exports there are: one at a time, what the user is told agrees with the row
\* and with the destination, partial files are removed, and the publication boundary holds.
THEOREM RenderCorrect == RenderSpec => [](RenderTypeOK /\ RenderInv)
<1>1. RenderInit => RenderTypeOK /\ RenderInv
  BY RenderTypesInit, DestTypesKeep, RenderInvInit, RenderTypesNamed DEF RenderInv
<1> QED  BY <1>1, RenderInvStep, PTL DEF RenderSpec

\* A file that is at the destination gives way only to the output of a job that was told to
\* replace it, or, on POSIX, when it came between the look at the destination and the rename:
\* what was there when the destination was looked at is never lost, and no export loses the
\* file of another unasked.
THEOREM RenderKeepsDestination == RenderSpec => KeepsDestination
<1>1. RenderTypeOK /\ RenderInv /\ [RenderNext]_renderVars =>
          (dest # NoFile /\ dest' # dest =>
              /\ dest'[1] \in JobIds
              /\ wanted[dest'[1]].replace \/ (posix /\ late /\ dest = Foreign))
          \/ UNCHANGED renderVars
 <2> SUFFICES ASSUME RenderTypeOK, RenderInv, [RenderNext]_renderVars, dest # NoFile, dest' # dest
              PROVE  /\ dest'[1] \in JobIds
                     /\ wanted[dest'[1]].replace \/ (posix /\ late /\ dest = Foreign)
   OBVIOUS
 <2> USE DEF guiVars, threadVars, fileVars, destVars, OtherVars
 <2>1. Publish \/ \E j \in JobIds : RecoverPublish(j)
   BY DEF RenderNext, Worker, Thread, Export, Cancel, Quit, Deliver, RenderRefused, Recovered,
    Begin, SendCancel, Poll, RecoverLook, RecoverSettle, ThreadStarts, RowRunning, Preflight,
    Encode, Boundary, Prepare, Remux, LookAtDestination, Cleanup, Finish, ThreadEnds, ForeignFile,
    Crash, NoMore, renderVars
 <2>2. Looked /\ OneExport /\ EvidenceIsOwn  BY DEF RenderInv
 <2>3. CASE Publish
  <3>1. job \in JobIds /\ dest' = Output  BY <2>2, <2>3 DEF Publish, OneExport
  <3>2. dest'[1] = job  BY <3>1 DEF Output
  <3>3. wanted[job].replace \/ (posix /\ pc = "rename") \/ ~posix  BY <2>3 DEF Publish, Looked
  <3> QED  BY <2>2, <2>3, <3>1, <3>2, <3>3 DEF Publish, Looked
 <2>4. ASSUME NEW j \in JobIds, RecoverPublish(j)
       PROVE  dest'[1] \in JobIds /\ posix /\ late /\ dest = Foreign
  <3>1. dest' = <<j, "mkv">>  BY <2>2, <2>4 DEF RecoverPublish, EvidenceIsOwn
  <3> QED  BY <2>2, <2>4, <3>1 DEF RecoverPublish, Looked
 <2> QED  BY <2>1, <2>3, <2>4
<1> QED  BY <1>1, RenderCorrect, PTL DEF RenderSpec, KeepsDestination

-----------------------------------------------------------------------------
(* The program and the analyzers: types *)

Cues == {<<>>, <<[id |-> 1, at |-> 0, len |-> 1], [id |-> 2, at |-> 1, len |-> 3]>>}
Texts == {1, 2}
GeneratedClips ==
    [id : {<<"title", 1, 1>>, <<"caption", 2, 1>>}, kind : {"title", "caption"}, at : Int, len : {3, 4},
     layer : {0}, enabled : BOOLEAN, audio : {FALSE}, text : Texts, cues : Cues]

ProgramTypes ==
    /\ titles \in Seq(GeneratedClips) /\ Len(titles) <= 2
    /\ \A f \in DOMAIN rasters : rasters[f] \in {1, 2, Damaged}
    /\ \E items : sync \in [todo : Seq(items), made : SUBSET items, failed : BOOLEAN, on : BOOLEAN, lost : BOOLEAN]
                  /\ \A i \in items : i.text \in Texts
    /\ DOMAIN handed = {"tracks", "overlays", "texts", "reported", "lost"}
    /\ handed.reported \in BOOLEAN /\ loaded.reported \in BOOLEAN
    /\ events \in 0 .. MaxProgramEvent

\* The program begins with these types (GeneratedOverlayCache, MltEditEngine).
LEMMA ProgramStarts == ProgramInit => ProgramTypes
<1> SUFFICES ASSUME ProgramInit PROVE ProgramTypes  OBVIOUS
<1>1. titles \in Seq(GeneratedClips) /\ Len(titles) <= 2  BY DEF ProgramInit
<1>2. \A f \in DOMAIN rasters : rasters[f] \in {1, 2, Damaged}  BY DEF ProgramInit
<1>3. /\ sync \in [todo : Seq({}), made : SUBSET {}, failed : BOOLEAN, on : BOOLEAN, lost : BOOLEAN]
      /\ \A i \in {} : i.text \in Texts
  BY DEF ProgramInit, NoSync
<1>4. DOMAIN handed = {"tracks", "overlays", "texts", "reported", "lost"}
  BY DEF ProgramInit, NoSnapshot
<1>5. handed.reported \in BOOLEAN /\ loaded.reported \in BOOLEAN  BY DEF NoSnapshot, ProgramInit
<1>6. events \in 0 .. MaxProgramEvent  BY ProgramAssumption DEF ProgramAssumption, ProgramInit
<1> QED  BY <1>1, <1>2, <1>3, <1>4, <1>5, <1>6 DEF ProgramTypes

\* A function takes finitely many values on a finite set (used of the rasters of a timeline).
LEMMA ImageIsFinite ==
    ASSUME NEW f, IsFiniteSet(DOMAIN f)
    PROVE  IsFiniteSet({f[x] : x \in DOMAIN f})
<1>1. PICK T : T = {f[x] : x \in DOMAIN f}  OBVIOUS
<1>2. PICK g : g = [x \in DOMAIN f |-> f[x]]  OBVIOUS
<1>3. g \in Surjection(DOMAIN f, T)  BY <1>1, <1>2 DEF Surjection
<1> QED  BY <1>1, <1>3, FS_Surjection

\* The clips of a track are finitely many (GeneratedOverlayCache::synchronize).
LEMMA UpToIsFinite == \A n \in Nat : IsFiniteSet(1 .. n)
  BY FS_Interval

\* The rasters of a timeline are finitely many, and each has the text of its clip.
LEMMA WantedAre ==
    ASSUME NEW clips \in Seq(GeneratedClips)
    PROVE  IsFiniteSet(Wanted(clips)) /\ \A r \in Wanted(clips) : r.text \in Texts
<1> DEFINE ItemsIn(c) == {[owner |-> r.owner, cue |-> r.cue, at |-> r.at, len |-> r.len,
                           file |-> RasterKey(c, r), text |-> c.text] : r \in GeneratedRanges(c)}
<1>1. PICK visible : visible = {clips[i] : i \in {j \in 1 .. Len(clips) : clips[j].enabled}}
  OBVIOUS
<1>2. Wanted(clips) = UNION {ItemsIn(c) : c \in visible}  BY <1>1, Zenon DEF Wanted
<1>3. visible \subseteq GeneratedClips  BY <1>1
<1>4. IsFiniteSet(visible)
 <2>1. PICK D, f : D = {j \in 1 .. Len(clips) : clips[j].enabled} /\ f = [i \in D |-> clips[i]]
   OBVIOUS
 <2>2. IsFiniteSet(D)  BY <2>1, UpToIsFinite, FS_Subset
 <2>3. DOMAIN f = D /\ visible = {f[i] : i \in DOMAIN f}  BY <2>1, <1>1
 <2> QED  BY <2>2, <2>3, ImageIsFinite
<1>5. ASSUME NEW c \in visible PROVE IsFiniteSet(ItemsIn(c))
 <2>1. c.kind \in {"title", "caption"} /\ c.cues \in Cues  BY <1>3, <1>5 DEF GeneratedClips
 <2>2. IsFiniteSet(GeneratedRanges(c))
  <3>1. CASE c.kind = "title"  BY <3>1, FS_Singleton DEF GeneratedRanges
  <3>2. CASE c.kind # "title"
   <4>1. PICK f : f = [i \in 1 .. Len(c.cues) |->
             [owner |-> c.id, cue |-> c.cues[i].id, at |-> c.at + c.cues[i].at, len |-> c.cues[i].len]]
     OBVIOUS
   <4>2. Len(c.cues) \in Nat  BY <2>1 DEF Cues
   <4>3. GeneratedRanges(c) = {f[i] : i \in DOMAIN f} /\ DOMAIN f = 1 .. Len(c.cues)
     BY <3>2, <4>1 DEF GeneratedRanges
   <4> QED  BY <4>2, <4>3, UpToIsFinite, ImageIsFinite
  <3> QED  BY <3>1, <3>2
 <2>3. PICK f : f = [r \in GeneratedRanges(c) |->
           [owner |-> r.owner, cue |-> r.cue, at |-> r.at, len |-> r.len,
            file |-> RasterKey(c, r), text |-> c.text]]
   OBVIOUS
 <2>4. ItemsIn(c) = {f[r] : r \in DOMAIN f} /\ DOMAIN f = GeneratedRanges(c)  BY <2>3
 <2> QED  BY <2>2, <2>4, ImageIsFinite
<1>h. \A c \in visible : \A r \in ItemsIn(c) : r.text = c.text  OBVIOUS
<1> HIDE DEF ItemsIn
<1>6. IsFiniteSet({ItemsIn(c) : c \in visible})
 <2>1. PICK f : f = [c \in visible |-> ItemsIn(c)]  OBVIOUS
 <2>2. {ItemsIn(c) : c \in visible} = {f[c] : c \in DOMAIN f} /\ DOMAIN f = visible  BY <2>1
 <2> QED  BY <2>2, <1>4, ImageIsFinite
<1>7. IsFiniteSet(Wanted(clips))  BY <1>2, <1>5, <1>6, FS_UNION
<1>8. ASSUME NEW r \in Wanted(clips) PROVE r.text \in Texts
 <2>1. PICK c \in visible : r \in ItemsIn(c)  BY <1>2, <1>8
 <2>2. r.text = c.text  BY <1>h, <2>1
 <2> QED  BY <2>1, <2>2, <1>3 DEF GeneratedClips
<1> QED  BY <1>7, <1>8

\* A finite set of rasters can be drawn in an order (GeneratedOverlayCache::synchronize).
LEMMA OrderedIs ==
    ASSUME NEW S, IsFiniteSet(S)
    PROVE  SetToSeq(S) \in Seq(S)
<1>1. Cardinality(S) \in Nat /\ ExistsBijection(1 .. Cardinality(S), S)  BY FS_CardinalityType
<1>2. PICK f \in Bijection(1 .. Cardinality(S), S) : TRUE  BY <1>1 DEF ExistsBijection
<1>3. f \in [1 .. Cardinality(S) -> S] /\ IsInjective(f)  BY <1>2 DEF Bijection, Injection
<1>4. SetToSeq(S) \in [1 .. Cardinality(S) -> S]  BY <1>3 DEF SetToSeq
<1> QED  BY <1>1, <1>4, SeqDef

\* A synchronisation begins with the rasters of the timeline (GeneratedOverlayCache::synchronize).
LEMMA SynchronizeTyped ==
    ASSUME NEW clips \in Seq(GeneratedClips), Synchronize(clips)
    PROVE  \E items : /\ sync' \in [todo : Seq(items), made : SUBSET items, failed : BOOLEAN, on : BOOLEAN,
                                    lost : BOOLEAN]
                      /\ \A i \in items : i.text \in Texts
<1>1. PICK items, todo : items = Wanted(clips) /\ todo = SetToSeq(items)  OBVIOUS
<1>2. todo \in Seq(items) /\ \A i \in items : i.text \in Texts  BY <1>1, WantedAre, OrderedIs
<1>3. sync' = [todo |-> todo, made |-> {}, failed |-> FALSE, on |-> TRUE, lost |-> FALSE]
  BY <1>1 DEF Synchronize
<1>4. {} \in SUBSET items /\ FALSE \in BOOLEAN /\ TRUE \in BOOLEAN  OBVIOUS
<1>5. sync' \in [todo : Seq(items), made : SUBSET items, failed : BOOLEAN, on : BOOLEAN, lost : BOOLEAN]
  BY <1>2, <1>3, <1>4, Zenon
<1> QED  BY <1>2, <1>5

\* A title the user adds stands at the end of the track (TimelineCommands::addGeneratedClip).
LEMMA AddedAtTheEnd ==
    ASSUME NEW S, NEW s \in Seq(S), NEW e \in S
    PROVE  Append(s, e) \in Seq(S) /\ Len(Append(s, e)) = Len(s) + 1
OBVIOUS

\* An edit of the titles leaves titles and captions, two at most (EditTitles).
LEMMA EditedTitles ==
    ASSUME ProgramTypes, EditTitles
    PROVE  titles' \in Seq(GeneratedClips) /\ Len(titles') <= 2
<1>t. titles \in Seq(GeneratedClips) /\ Len(titles) <= 2  BY DEF ProgramTypes
<1>1. ASSUME NEW t \in {1, 2}, titles' = <<TitleClip(1, 1, t)>>
      PROVE  titles' \in Seq(GeneratedClips) /\ Len(titles') <= 2
  BY <1>1 DEF TitleClip, GeneratedClips, Texts, Cues
<1>2. CASE Len(titles) = 1 /\ titles' = Append(titles, CaptionClip(2, 4, 1))
 <2>1. CaptionClip(2, 4, 1) \in GeneratedClips  BY DEF CaptionClip, GeneratedClips, Texts, Cues
 <2>2. PICK c \in GeneratedClips : c = CaptionClip(2, 4, 1)  BY <2>1
 <2>3. titles' = Append(titles, c) /\ Len(titles) = 1  BY <1>2, <2>2
 <2>4. PICK T : T = GeneratedClips  OBVIOUS
 <2>5. titles \in Seq(T) /\ c \in T  BY <1>t, <2>2, <2>4
 <2>6. Append(titles, c) \in Seq(T) /\ Len(Append(titles, c)) = Len(titles) + 1
   BY <2>5, AddedAtTheEnd
 <2>7. titles' \in Seq(T) /\ Len(titles') = 1 + 1  BY <2>3, <2>6
 <2> QED  BY <2>4, <2>7
<1>3. ASSUME NEW i \in DOMAIN titles, NEW c \in GeneratedClips, titles' = [titles EXCEPT ![i] = c]
      PROVE  titles' \in Seq(GeneratedClips) /\ Len(titles') <= 2
  BY <1>t, <1>3
<1>4. ASSUME NEW i \in DOMAIN titles
      PROVE  /\ [titles[i] EXCEPT !.text = 3 - @] \in GeneratedClips
             /\ [titles[i] EXCEPT !.enabled = ~@] \in GeneratedClips
             /\ [titles[i] EXCEPT !.at = (IF i = 1 THEN 1 ELSE 9) - @] \in GeneratedClips
 <2>1. PICK c \in GeneratedClips : c = titles[i]  BY <1>t, <1>4, Elements
 <2>2. 3 - c.text \in Texts /\ (IF i = 1 THEN 1 ELSE 9) - c.at \in Int
   BY <2>1 DEF GeneratedClips, Texts
 <2>3. \A t \in Texts : [c EXCEPT !.text = t] \in GeneratedClips  BY <2>1 DEF GeneratedClips
 <2>4. \A t \in Int : [c EXCEPT !.at = t] \in GeneratedClips  BY <2>1 DEF GeneratedClips
 <2>5. [c EXCEPT !.enabled = ~@] \in GeneratedClips  BY <2>1, Zenon DEF GeneratedClips
 <2> QED  BY <2>1, <2>2, <2>3, <2>4, <2>5
<1>5. \/ \E t \in {1, 2} : titles' = <<TitleClip(1, 1, t)>>
      \/ Len(titles) = 1 /\ titles' = Append(titles, CaptionClip(2, 4, 1))
      \/ \E i \in DOMAIN titles :
            \/ titles' = [titles EXCEPT ![i] = [titles[i] EXCEPT !.text = 3 - @]]
            \/ titles' = [titles EXCEPT ![i] = [titles[i] EXCEPT !.enabled = ~@]]
            \/ titles' = [titles EXCEPT ![i] = [titles[i] EXCEPT !.at = (IF i = 1 THEN 1 ELSE 9) - @]]
  BY DEF EditTitles
<1> QED  BY <1>1, <1>2, <1>3, <1>4, <1>5

\* Every step of the cache, the worker and the engine keeps the types, whatever file is lost or
\* damaged (GeneratedOverlayCache, EditorSessionWorker, MltEditEngine).
LEMMA ProgramTypesStep ==
    ASSUME ProgramTypes, [ProgramNext]_programVars
    PROVE  ProgramTypes'
<1>t. /\ titles \in Seq(GeneratedClips) /\ Len(titles) <= 2
      /\ \A f \in DOMAIN rasters : rasters[f] \in {1, 2, Damaged}
      /\ DOMAIN handed = {"tracks", "overlays", "texts", "reported", "lost"}
      /\ handed.reported \in BOOLEAN /\ loaded.reported \in BOOLEAN
      /\ events \in 0 .. MaxProgramEvent /\ MaxProgramEvent \in Nat
  BY ProgramAssumption DEF ProgramAssumption, ProgramTypes
<1> DEFINE Syncs(items) == [todo : Seq(items), made : SUBSET items, failed : BOOLEAN, on : BOOLEAN, lost : BOOLEAN]
<1>s. PICK items : sync \in Syncs(items) /\ \A i \in items : i.text \in Texts  BY DEF ProgramTypes
<1>y. sync.todo \in Seq(items) /\ sync.made \in SUBSET items /\ sync.failed \in BOOLEAN  BY <1>s
<1>e. \A S : sync' \in Syncs(S) /\ (\A i \in S : i.text \in Texts) =>
          \E T : /\ sync' \in [todo : Seq(T), made : SUBSET T, failed : BOOLEAN, on : BOOLEAN, lost : BOOLEAN]
                 /\ \A i \in T : i.text \in Texts
  OBVIOUS
<1>n. NoSnapshot.reported \in BOOLEAN /\ DOMAIN NoSnapshot = {"tracks", "overlays", "texts", "reported", "lost"}
  BY DEF NoSnapshot
<1>0. CASE UNCHANGED programVars  BY <1>0 DEF programVars, ProgramTypes
<1>1. CASE ImportTake  BY <1>1, <1>t, SynchronizeTyped DEF ImportTake, ProgramTypes
<1>2. CASE EditTitles
 <2>1. UNCHANGED <<rasters, handed, loaded>> /\ events' \in 0 .. MaxProgramEvent /\ Synchronize(titles')
   BY <1>2, <1>t DEF EditTitles
 <2>2. titles' \in Seq(GeneratedClips) /\ Len(titles') <= 2  BY <1>2, EditedTitles
 <2>3. \E S : sync' \in Syncs(S) /\ \A i \in S : i.text \in Texts  BY <2>1, <2>2, SynchronizeTyped
 <2> QED  BY <2>1, <2>2, <2>3, <1>e, <1>t DEF ProgramTypes
<1>3. CASE SyncFails
 <2>1. UNCHANGED <<titles, rasters, handed, loaded, events>> /\ sync' = [sync EXCEPT !.todo = <<>>, !.failed = TRUE]
   BY <1>3 DEF SyncFails
 <2>2. <<>> \in Seq(items) /\ TRUE \in BOOLEAN  OBVIOUS
 <2>3. sync' \in Syncs(items)  BY <2>1, <2>2, <1>s, Zenon
 <2> QED  BY <2>1, <2>3, <1>s, <1>e, <1>t DEF ProgramTypes
<1>4. CASE SyncRaster
 <2>1. PICK item \in items : item = Head(sync.todo) /\ Tail(sync.todo) \in Seq(items)
   BY <1>4, <1>y DEF SyncRaster
 <2>2. UNCHANGED <<titles, handed, loaded, events>>  BY <1>4 DEF SyncRaster
 <2>3. \/ rasters' = Ensured(item) /\ sync' = [sync EXCEPT !.todo = Tail(@), !.made = @ \cup {item}]
       \/ rasters' = rasters /\ sync' = [sync EXCEPT !.todo = Tail(@), !.failed = TRUE]
   BY <1>4, <2>1 DEF SyncRaster
 <2>4. \A f \in DOMAIN rasters' : rasters'[f] \in {1, 2, Damaged}
   BY <2>1, <1>s, <1>t, <2>3 DEF Ensured, Texts
 <2>5. sync' \in Syncs(items)
  <3>1. PICK todo, made : todo = Tail(sync.todo) /\ made = sync.made \cup {item}  OBVIOUS
  <3>2. todo \in Seq(items) /\ made \in SUBSET items /\ TRUE \in BOOLEAN  BY <3>1, <2>1, <1>y
  <3>3. sync' = [sync EXCEPT !.todo = todo, !.made = made] \/ sync' = [sync EXCEPT !.todo = todo, !.failed = TRUE]
    BY <2>3, <3>1
  <3> QED  BY <3>2, <3>3, <1>s, Zenon
 <2> QED  BY <2>2, <2>4, <2>5, <1>s, <1>e, <1>t DEF ProgramTypes
<1>5. CASE HandOn
 <2>1. UNCHANGED <<titles, rasters, loaded, events>> /\ sync' = NoSync  BY <1>5 DEF HandOn
 <2>2. /\ DOMAIN handed' = {"tracks", "overlays", "texts", "reported", "lost"} /\ handed'.reported = sync.failed
  <3>1. PICK overlays, texts : handed' = [tracks |-> Timeline, overlays |-> overlays, texts |-> texts,
                                          reported |-> sync.failed, lost |-> sync.lost]
    BY <1>5 DEF HandOn
  <3> QED  BY <3>1
 <2>3. handed'.reported \in BOOLEAN  BY <2>2, <1>y, Zenon
 <2>4. sync' \in Syncs({})  BY <2>1 DEF NoSync
 <2>5. \A i \in {} : i.text \in Texts  OBVIOUS
 <2> QED  BY <2>1, <2>2, <2>3, <2>4, <2>5, <1>e, <1>t DEF ProgramTypes
<1>6. CASE Load  BY <1>6, <1>t, <1>n, <1>s, <1>e DEF Load, ProgramTypes
<1>7. CASE Damage
 <2>1. /\ UNCHANGED <<titles, loaded>> /\ events < MaxProgramEvent /\ events' = events + 1
       /\ \E f \in DOMAIN rasters : rasters' \in {[rasters EXCEPT ![f] = Damaged],
                                                  [g \in DOMAIN rasters \ {f} |-> rasters[g]]}
   BY <1>7 DEF Damage
 <2>e. events' \in 0 .. MaxProgramEvent  BY <2>1, <1>t
 <2>2. \A f \in DOMAIN rasters' : rasters'[f] \in {1, 2, Damaged}  BY <2>1, <1>t
 <2>3. sync' \in Syncs(items)  BY <1>7, <1>s DEF Damage
 <2>4. DOMAIN handed' = DOMAIN handed /\ handed'.reported = handed.reported
  <3>1. PICK lost : handed' = [handed EXCEPT !.lost = lost]  BY <1>7 DEF Damage
  <3>2. "reported" \in DOMAIN handed /\ "reported" # "lost"  BY <1>t
  <3> QED  BY <3>1, <3>2
 <2>5. handed'.reported \in BOOLEAN  BY <2>4, <1>t, Zenon
 <2> QED  BY <2>1, <2>2, <2>3, <2>4, <2>5, <2>e, <1>s, <1>e, <1>t DEF ProgramTypes
<1>8. CASE Reopen  BY <1>8, <1>t, <1>n, SynchronizeTyped DEF Reopen, ProgramTypes
<1> QED  BY <1>0, <1>1, <1>2, <1>3, <1>4, <1>5, <1>6, <1>7, <1>8 DEF ProgramNext

\* These types are the program's (GeneratedOverlayCache).
LEMMA ProgramTyped == ProgramTypes => ProgramTypeOK
<1> SUFFICES ASSUME ProgramTypes PROVE ProgramTypeOK  OBVIOUS
<1>1. \A i \in DOMAIN titles : titles[i].text \in {1, 2}
 <2>1. \A i \in DOMAIN titles : titles[i] \in GeneratedClips  BY Elements DEF ProgramTypes
 <2> QED  BY <2>1 DEF GeneratedClips, Texts
<1>2. sync.failed \in BOOLEAN /\ sync.on \in BOOLEAN /\ sync.lost \in BOOLEAN  BY DEF ProgramTypes
<1> QED  BY <1>1, <1>2 DEF ProgramTypes, ProgramTypeOK

\* Nothing has been recorded for the analyzers (CursorEventPump).
LEMMA AidsTypesStart == AidsInit => AidsTypeOK
BY DEF AidsInit, AidsTypeOK

\* What is recorded for the analyzers keeps its types (CursorEventPump, Transcript).
LEMMA AidsTypesStep == AidsTypeOK /\ [AidsNext]_aidsVars => AidsTypeOK'
<1> SUFFICES ASSUME AidsTypeOK, [AidsNext]_aidsVars PROVE AidsTypeOK'  OBVIOUS
<1>1. CASE Sample
 <2>1. PICK t \in Times, x \in Positions : moves' = Append(moves, [at |-> t, x |-> x])
   BY <1>1 DEF Sample
 <2>2. [at |-> t, x |-> x] \in [at : Times, x : Positions]  OBVIOUS
 <2> QED  BY <1>1, <2>1, <2>2 DEF Sample, AidsTypeOK
<1>2. CASE Click  BY <1>2 DEF Click, AidsTypeOK
<1>3. CASE Hear  BY <1>3 DEF Hear, AidsTypeOK
<1>4. CASE Transcribe
 <2>e. <<>> \in Seq(Speech)  OBVIOUS
 <2>1. transcript \in Seq(Speech)  BY <2>e DEF AidsTypeOK
 <2> QED  BY <1>4, <2>1 DEF Transcribe, AidsTypeOK
<1>5. CASE UNCHANGED aidsVars  BY <1>5 DEF aidsVars, AidsTypeOK
<1> QED  BY <1>1, <1>2, <1>3, <1>4, <1>5 DEF AidsNext

-----------------------------------------------------------------------------
(* The desk: the four together *)

DeskKeeps ==
    /\ RenderTypeOK /\ RenderInv
    /\ EditorKeeps /\ EditorFits
    /\ ProgramTypes
    /\ AidsTypeOK

\* Each part begins as it does alone (main, which makes the controllers of the pages).
LEMMA DeskStarts == Init => DeskKeeps
<1> SUFFICES ASSUME Init PROVE DeskKeeps  OBVIOUS
<1>1. RenderTypeOK /\ RenderInv
  BY RenderTypesInit, DestTypesKeep, RenderInvInit, RenderTypesNamed DEF RenderInv, Init
<1>2. EditorKeeps /\ EditorFits  BY EditorStarts, EditorFitsAtFirst DEF Init
<1>3. ProgramTypes /\ AidsTypeOK  BY ProgramStarts, AidsTypesStart DEF Init
<1> QED  BY <1>1, <1>2, <1>3 DEF DeskKeeps

\* A step of one part is none of the others (MCDesk's Next; the parts share no state).
LEMMA DeskSteps ==
    ASSUME DeskKeeps, [Next \/ Rest]_vars
    PROVE  DeskKeeps'
  BY RenderInvStep, EditorSteps, EditorFitsAlways, ProgramTypesStep, AidsTypesStep DEF Next, Rest,
    vars, DeskKeeps

\* Whatever is exported, edited, previewed and analyzed: every variable of the desk keeps its
\* type; with the types go the bounds that are not obvious, on the controller's queue of
\* commands, on the messages of its session worker and on the positions of the page
\* (ExportController, EditorController, GeneratedOverlayCache, CursorEventPump).
THEOREM DeskTypes == Spec => []TypeOK
<1>1. DeskKeeps => TypeOK  BY EditorTyped, ProgramTyped DEF DeskKeeps, TypeOK
<1> QED  BY <1>1, DeskStarts, DeskSteps, PTL DEF Spec
=============================================================================
