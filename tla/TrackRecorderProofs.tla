-------------------------- MODULE TrackRecorderProofs --------------------------
(***************************************************************************)
(* A recorded track, for queues, segments and takes of any size and any    *)
(* number of callers: no medium that was accepted is lost without a word,  *)
(* what is READY partitions the time of the recording on the grid of its   *)
(* segments, rows and files agree, and everybody is told the same result.  *)
(***************************************************************************)
EXTENDS TrackRecorder, TLAPS, FiniteSetTheorems, WellFoundedInduction

-----------------------------------------------------------------------------
(* Arithmetic of ticks and segments *)

\* A set of ticks has a last one, which the router goes on from.
LEMMA Largest ==
    ASSUME NEW S, S \subseteq Indices, S # {}
    PROVE  LET x == CHOOSE t \in S : \A u \in S : u <= t IN x \in S /\ \A u \in S : u <= x
<1> DEFINE Dual == {Horizon - t : t \in S}
<1>h. Horizon \in Nat /\ \A t \in S : t \in Nat /\ t <= Horizon
  BY RecorderAssumption DEF RecorderAssumption, Indices
<1>1. Dual \subseteq Nat /\ Dual # {}  BY <1>h
<1>2. PICK d \in Dual : \A e \in Dual : ~(<<e, d>> \in OpToRel(<, Nat))
  BY <1>1, NatLessThanWellFounded, WFMin
<1>3. PICK t \in S : d = Horizon - t  BY <1>2
<1>4. ASSUME NEW u \in S PROVE u <= t
 <2>1. Horizon - u \in Dual /\ <<Horizon - u, d>> \in Nat \X Nat  BY <1>1, <1>2
 <2>2. ~(Horizon - u < d)  BY <1>2, <2>1 DEF OpToRel
 <2> QED  BY <1>3, <1>h, <2>2
<1> QED  BY <1>4

\* Segments begin on a grid: a tick lies in the bucket that begins last before it.
LEMMA Grid ==
    /\ \A t \in Nat : Bucket(t) \in Nat /\ Bucket(t) <= t /\ t < Bucket(t) + SegmentDuration /\ OnGrid(Bucket(t))
    /\ OnGrid(0)
    /\ \A s, t \in Nat : OnGrid(s) /\ s <= t => s <= Bucket(t)
    /\ \A s \in Nat : OnGrid(s) => OnGrid(s + SegmentDuration)
<1> DEFINE D == SegmentDuration
<1>d. D \in Nat \ {0}  BY RecorderAssumption DEF RecorderAssumption
<1> HIDE DEF D
<1>1. \A t \in Nat : /\ t \div D \in Nat /\ D * (t \div D) \in Nat
                     /\ D * (t \div D) <= t /\ t < D * (t \div D) + D
  BY <1>d
<1>m. \A x, y \in Nat : x < y => D * x + D <= D * y
 <2> TAKE x \in Nat, y \in Nat
 <2> HAVE x < y
 <2>1. D * y = D * (x + 1) + D * (y - x - 1)  BY <1>d
 <2>2. y - x - 1 \in Nat /\ D * (y - x - 1) \in Nat  BY <1>d
 <2>3. D * (x + 1) = D * x + D  BY <1>d
 <2> QED  BY <1>d, <2>1, <2>2, <2>3
\* A multiple is its own bucket.
<1>2. \A q \in Nat : (D * q) \div D = q
 <2> TAKE q \in Nat
 <2> DEFINE r == (D * q) \div D
 <2>1. D * q \in Nat  BY <1>d
 <2>2. r \in Nat /\ D * r <= D * q /\ D * q < D * r + D /\ D * r \in Nat  BY <1>1, <2>1
 <2> HIDE DEF r
 <2>3. ~(r < q) /\ ~(q < r)  BY <1>d, <1>m, <2>1, <2>2
 <2> QED  BY <2>2, <2>3 DEF r
<1>3. \A t \in Nat : Bucket(t) = D * (t \div D)  BY DEF Bucket, D
<1>4. \A t \in Nat : OnGrid(t) <=> D * (t \div D) = t  BY <1>3 DEF OnGrid
<1>5. \A q \in Nat : OnGrid(D * q)
 <2> TAKE q \in Nat
 <2>1. D * q \in Nat  BY <1>d
 <2> QED  BY <1>2, <1>4, <2>1
<1>6. \A t \in Nat : Bucket(t) \in Nat /\ Bucket(t) <= t /\ t < Bucket(t) + D /\ OnGrid(Bucket(t))
  BY <1>1, <1>3, <1>5
<1>7. OnGrid(0)
 <2>1. D * 0 = 0  BY <1>d
 <2> QED  BY <1>5, <2>1
<1>8. ASSUME NEW s \in Nat, NEW t \in Nat, OnGrid(s), s <= t PROVE s <= Bucket(t)
 <2> DEFINE q == s \div D
            r == t \div D
 <2>1. q \in Nat /\ r \in Nat /\ D * q = s /\ D * r \in Nat /\ t < D * r + D  BY <1>1, <1>4, <1>8
 <2>2. Bucket(t) = D * r  BY <1>3
 <2> HIDE DEF q, r
 <2>3. ~(r < q)  BY <1>8, <1>d, <1>m, <2>1
 <2>4. r = q \/ q < r  BY <2>1, <2>3
 <2> QED  BY <1>d, <1>m, <2>1, <2>2, <2>4
<1>9. ASSUME NEW s \in Nat, OnGrid(s) PROVE OnGrid(s + D)
 <2> DEFINE q == s \div D
 <2>1. q \in Nat /\ D * q = s  BY <1>1, <1>4, <1>9
 <2> HIDE DEF q
 <2>2. s + D = D * (q + 1) /\ q + 1 \in Nat  BY <1>d, <2>1
 <2> QED  BY <1>5, <2>2
<1> QED  BY <1>6, <1>7, <1>8, <1>9 DEF D

-----------------------------------------------------------------------------
(* Types, with names for what changes together *)

Media == [at : Indices, frames : {1} \cup BlockSizes]
Current == [at : 0 .. Horizon, frames : 0 .. Horizon + 1]
Statuses == {"none", "WRITING", "READY", "FAILED"}
Places == {"none", "wait", "process", "fail", "finish", "complete", "notify", "reply", "exited"}
Verdicts == {"none", "ok", "overflow", "failed"}
Spans == [Indices -> [start : Nat, end : Nat]]
Rows == [Indices -> Statuses]
Contents == [Indices -> SUBSET Indices]

ControlPart ==
    /\ kind \in Kinds /\ state \in {"Idle", "Running", "Stopping", "Stopped"} /\ stopRequested \in BOOLEAN
    /\ requestedEnd \in Indices /\ inputError \in {"none", "overflow", "failed"} /\ destroyed \in BOOLEAN
QueuePart == queue \in Seq(Media) /\ taken \subseteq Indices /\ displaced \subseteq Indices
WorkPart == pc \in Places /\ verdict \in Verdicts /\ current \in Current
SegmentPart ==
    /\ segmentOpen \in BOOLEAN /\ pending \in BOOLEAN /\ segmentStart \in Indices
    /\ nextIndex \in 0 .. Horizon + 1 /\ lastMediaEnd \in 0 .. Horizon + 1
RowPart == row \in Rows /\ finalFile \subseteq Indices /\ span \in Spans /\ content \in Contents
ReplyPart ==
    /\ finalResult \in Verdicts /\ observer \in BOOLEAN /\ registered \in BOOLEAN
    /\ waiting \subseteq Callers /\ calls \subseteq Callers
    /\ answer \in [Callers -> {"none"} \cup Results] /\ observed \in Seq(Results)
Parts == ControlPart /\ QueuePart /\ WorkPart /\ SegmentPart /\ RowPart /\ ReplyPart

LEMMA TypesAre == (TypeOK <=> Parts) /\ (TypeOK' <=> Parts')
BY DEF TypeOK, Parts, ControlPart, QueuePart, WorkPart, SegmentPart, RowPart, ReplyPart, Media, Current, Statuses, Places,
       Verdicts, Spans, Rows, Contents

LEMMA Numbers == Horizon \in Nat /\ SegmentDuration \in Nat \ {0} /\ Capacity \in Nat \ {0} /\ BlockSizes \subseteq Nat \ {0}
BY RecorderAssumption DEF RecorderAssumption

-----------------------------------------------------------------------------
(* The queue and the places of media *)

QueueTicks(q) == UNION {Ticks(q[k]) : k \in 1 .. Len(q)}
\* A queue in order, of media within the bounds.
Fits(m) == MediumEnd(m) <= Horizon + 1 /\ (kind = "video" => m.frames = 1)
Ordered(q) ==
    \A k \in 1 .. Len(q) :
        /\ MediumEnd(q[k]) <= Horizon + 1 /\ (kind = "video" => q[k].frames = 1)
        /\ \A l \in 1 .. Len(q) : k < l => MediumEnd(q[k]) <= q[l].at
\* Nothing of it before a tick.
From(x, q) == \A k \in 1 .. Len(q) : x <= q[k].at

LEMMA MediaAre ==
    \A m \in Media : /\ m.at \in Nat /\ m.frames \in Nat \ {0} /\ MediumEnd(m) \in Nat /\ m.at < MediumEnd(m)
                     /\ Ticks(m) = m.at .. MediumEnd(m) - 1 /\ m.at \in Ticks(m) /\ MediumEnd(m) - 1 \in Ticks(m)
<1>1. \A m \in Media : m.at \in Nat /\ m.frames \in Nat \ {0}
 <2>1. Indices \subseteq Nat  BY Numbers DEF Indices
 <2>2. \A f \in {1} \cup BlockSizes : f \in Nat \ {0}  BY Numbers
 <2>3. \A m \in Media : m.at \in Indices /\ m.frames \in {1} \cup BlockSizes  BY DEF Media
 <2> QED  BY <2>1, <2>2, <2>3, Zenon
<1> QED  BY <1>1 DEF MediumEnd, Ticks

LEMMA Appended ==
    ASSUME NEW q \in Seq(Media), NEW m \in Media
    PROVE  /\ Append(q, m) \in Seq(Media)
           /\ QueueTicks(Append(q, m)) = QueueTicks(q) \cup Ticks(m)
           /\ \A x : From(x, q) /\ x <= m.at => From(x, Append(q, m))
           /\ Ordered(q) /\ Fits(m) /\ (\A k \in 1 .. Len(q) : MediumEnd(q[k]) <= m.at) => Ordered(Append(q, m))
<1> DEFINE r == Append(q, m)
<1>1. /\ r \in Seq(Media) /\ Len(q) \in Nat /\ Len(r) = Len(q) + 1 /\ r[Len(q) + 1] = m
      /\ \A k \in 1 .. Len(q) : r[k] = q[k]
  OBVIOUS
<1> HIDE DEF r
<1>2. \A k \in 1 .. Len(r) : k \in 1 .. Len(q) \/ (k = Len(q) + 1 /\ r[k] = m)  BY <1>1
<1>3. 1 .. Len(q) \subseteq 1 .. Len(r) /\ Len(q) + 1 \in 1 .. Len(r)  BY <1>1
<1>4. QueueTicks(r) = QueueTicks(q) \cup Ticks(m)  BY <1>1, <1>2, <1>3 DEF QueueTicks
<1>5. \A x : From(x, q) /\ x <= m.at => From(x, r)  BY <1>1, <1>2 DEF From
<1>6. ASSUME Ordered(q), Fits(m), \A k \in 1 .. Len(q) : MediumEnd(q[k]) <= m.at PROVE Ordered(r)
 <2> SUFFICES ASSUME NEW k \in 1 .. Len(r)
              PROVE  /\ MediumEnd(r[k]) <= Horizon + 1 /\ (kind = "video" => r[k].frames = 1)
                     /\ \A l \in 1 .. Len(r) : k < l => MediumEnd(r[k]) <= r[l].at
   BY DEF Ordered
 <2>1. CASE k \in 1 .. Len(q)  BY <1>1, <1>2, <1>6, <2>1 DEF Ordered
 <2>2. CASE k = Len(q) + 1  BY <1>1, <1>6, <2>2 DEF Fits
 <2> QED  BY <1>2, <2>1, <2>2
<1> QED  BY <1>1, <1>4, <1>5, <1>6 DEF r

LEMMA Popped ==
    ASSUME NEW q \in Seq(Media), q # <<>>
    PROVE  /\ Tail(q) \in Seq(Media) /\ Head(q) \in Media
           /\ QueueTicks(q) = Ticks(Head(q)) \cup QueueTicks(Tail(q))
           /\ \A x : From(x, q) => From(x, Tail(q)) /\ x <= Head(q).at
           /\ Ordered(q) => Ordered(Tail(q)) /\ Fits(Head(q)) /\ From(MediumEnd(Head(q)), Tail(q))
<1> DEFINE r == Tail(q)
           m == Head(q)
<1>1. /\ r \in Seq(Media) /\ m \in Media /\ Len(q) \in Nat /\ Len(q) >= 1 /\ Len(r) = Len(q) - 1 /\ m = q[1]
      /\ \A k \in 1 .. Len(r) : r[k] = q[k + 1]
  OBVIOUS
<1> HIDE DEF r, m
<1>2. /\ 1 \in 1 .. Len(q) /\ \A k \in 1 .. Len(r) : k + 1 \in 1 .. Len(q) /\ 1 < k + 1
      /\ \A k \in 1 .. Len(q) : k = 1 \/ (k - 1 \in 1 .. Len(r) /\ r[k - 1] = q[k])
  BY <1>1
<1>3. QueueTicks(q) = Ticks(m) \cup QueueTicks(r)
 <2>1. QueueTicks(r) \subseteq QueueTicks(q) /\ Ticks(m) \subseteq QueueTicks(q)
   BY <1>1, <1>2 DEF QueueTicks
 <2>2. ASSUME NEW t \in QueueTicks(q) PROVE t \in Ticks(m) \cup QueueTicks(r)
  <3>1. PICK k \in 1 .. Len(q) : t \in Ticks(q[k])  BY <2>2 DEF QueueTicks
  <3>2. CASE k = 1  BY <1>1, <3>1, <3>2
  <3>3. CASE k # 1  BY <1>2, <3>1, <3>3 DEF QueueTicks
  <3> QED  BY <3>2, <3>3
 <2> QED  BY <2>1, <2>2
<1>4. \A x : From(x, q) => From(x, r) /\ x <= m.at  BY <1>1, <1>2 DEF From
<1>5. ASSUME Ordered(q) PROVE Ordered(r) /\ Fits(m) /\ From(MediumEnd(m), r)
  BY <1>1, <1>2, <1>5 DEF Ordered, Fits, From
<1> QED  BY <1>1, <1>3, <1>4, <1>5 DEF r, m

\* What a router offers lies after all that was taken.
LEMMA OffersAre ==
    ASSUME QueuePart, NEW m \in Offers
    PROVE  m \in Media /\ Fits(m) /\ \A t \in taken : t < m.at
<1> DEFINE last == CHOOSE t \in taken : \A u \in taken : u <= t
           earliest == IF taken = {} THEN 0 ELSE 1 + last
           sizes == IF kind = "video" THEN {1} ELSE BlockSizes
<1>1. taken \subseteq Nat  BY Numbers DEF QueuePart, Indices
<1>2. earliest \in Nat /\ \A t \in taken : t < earliest
 <2>1. CASE taken = {}  BY <2>1
 <2>2. CASE taken # {}
  <3>1. last \in taken /\ \A u \in taken : u <= last  BY <2>2, Largest DEF QueuePart
  <3> HIDE DEF last
  <3> QED  BY <1>1, <2>2, <3>1
 <2> QED  BY <2>1, <2>2
<1>3. Offers = {o \in [at : earliest .. Horizon, frames : sizes] : MediumEnd(o) <= Horizon + 1}
  BY DEF Offers
<1> HIDE DEF earliest
<1>4. m \in [at : earliest .. Horizon, frames : sizes] /\ MediumEnd(m) <= Horizon + 1  BY <1>3
<1>5. m.at \in earliest .. Horizon /\ m.frames \in sizes /\ m = [at |-> m.at, frames |-> m.frames]
  BY <1>4
<1>6. m \in Media  BY <1>2, <1>5, Numbers DEF Indices, Media
<1> QED  BY <1>1, <1>2, <1>4, <1>5, <1>6, Numbers DEF Fits

-----------------------------------------------------------------------------
(* The inductive invariant *)

Encoded == UNION {content[i] : i \in Indices}

\* MediaInOrder, by the places of media.
Displaced == \A t \in displaced : From(t + 1, queue)
Processed == current.frames > 0 => From(MediumEnd(current), queue) /\ Fits(current) /\ lastMediaEnd <= current.at
OrderInv ==
    /\ Ordered(queue) /\ From(lastMediaEnd, queue) /\ Displaced /\ Processed
    /\ displaced \cap (Ticks(current) \cup Encoded) = {}
    /\ \A t \in Encoded : t < lastMediaEnd
    /\ lastMediaEnd = 0 \/ lastMediaEnd - 1 \in taken
    /\ displaced \cup QueueTicks(queue) \cup Ticks(current) \cup Encoded \subseteq taken

\* The first half of MediaAccounted.
Accounted ==
    pc # "fail" /\ verdict # "failed" => taken = displaced \cup QueueTicks(queue) \cup Ticks(current) \cup Encoded

\* The other half of OneVerdict.
Told ==
    /\ Len(observed) <= 1 /\ \A k \in 1 .. Len(observed) : observed[k] = finalResult
    /\ \A c \in Callers : answer[c] \notin {"none", "unstarted"} => answer[c] = finalResult

SegInv == SegmentsPartitionTime /\ RowsMatchFiles /\ SegmentGrows

IInv == Parts /\ WorkerPlace /\ Told /\ OrderInv /\ Accounted /\ SegInv

LEMMA VerdictIs == OneVerdict <=> WorkerPlace /\ Told
BY DEF OneVerdict, Told

\* One slice of a medium lies within the medium and within the open segment.
LEMMA Slices ==
    ASSUME Parts, OrderInv, current.frames > 0, segmentOpen, ~Due
    PROVE  SliceFrames \in Nat /\ 1 <= SliceFrames /\ SliceFrames <= current.frames
           /\ current.at + SliceFrames <= SegmentEnd
  BY Numbers DEF Parts, WorkPart, Current, SegmentPart, Indices, Due, SegmentEnd, SliceFrames,
    OrderInv, Processed, Fits, Smaller, Larger

\* The next segment has an index while there is a tick for it to begin at.
LEMMA NextIndexFits ==
    ASSUME Parts, SegInv, pc = "process", current.frames > 0
    PROVE  nextIndex \in Indices /\ (~segmentOpen => nextIndex <= Bucket(current.at))
<1>1. current.at \in Nat /\ current.at <= Horizon /\ nextIndex \in Nat /\ segmentStart \in Indices
  BY Numbers DEF Parts, WorkPart, Current, SegmentPart
<1>2. CASE segmentOpen  BY <1>2, <1>1, Numbers DEF SegInv, SegmentGrows, Indices
<1>3. CASE ~segmentOpen /\ nextIndex = 0  BY <1>1, Grid, <1>3, Numbers DEF Indices
<1>4. CASE ~segmentOpen /\ nextIndex # 0
 <2> DEFINE i == nextIndex - 1
            e == span[i].end
 <2>1. i \in Indices /\ i < nextIndex  BY <1>1, <1>4, Numbers DEF Parts, SegmentPart, Indices
 <2>2. i \in Ready  BY <2>1 DEF SegInv, RowsMatchFiles, Ready
 <2>3. e \in Nat  BY <2>1 DEF Parts, RowPart, Spans
 <2>4. OnGrid(e) /\ e <= current.at /\ i < e  BY <1>4, <2>2 DEF SegInv, SegmentGrows
 <2>5. nextIndex <= e  BY <1>1, <1>4, <2>3, <2>4
 <2> HIDE DEF e
 <2>6. e <= Bucket(current.at) /\ Bucket(current.at) \in Nat  BY <1>1, <2>3, <2>4, Grid
 <2> QED  BY <1>1, <2>3, <2>4, <2>5, <2>6, Numbers DEF Indices
<1> QED  BY <1>2, <1>3, <1>4

-----------------------------------------------------------------------------
(* Everybody is told the same *)

LEMMA VerdictStep == IInv /\ [Next]_vars => (WorkerPlace /\ Told)'
<1> SUFFICES ASSUME IInv, [Next]_vars PROVE WorkerPlace' /\ Told'  OBVIOUS
<1>i. Parts /\ WorkerPlace /\ Told /\ OrderInv /\ ControlPart /\ WorkPart /\ ReplyPart
  BY DEF IInv, Parts
<1> USE DEF replyVars
\* Nothing but the clients' half of the state moves.
<1>t. ASSUME UNCHANGED <<finalResult, observed, answer>> PROVE Told'  BY <1>i, <1>t DEF Told
<1>w. ASSUME UNCHANGED <<controlVars, replyVars, pc, verdict, current>>, queue = <<>> /\ stopRequested => queue' = <<>>
      PROVE  WorkerPlace' /\ Told'
  BY <1>i, <1>w, <1>t DEF controlVars, WorkerPlace
<1>1. CASE Start
 <2>1. /\ state = "Idle" /\ state' = "Running" /\ pc' = "wait"
       /\ UNCHANGED <<stopRequested, inputError, queue, replyVars, verdict, current>>
   BY <1>1 DEF Start, queueVars
 <2> QED  BY <1>i, <1>t, <2>1 DEF WorkerPlace
<1>2. ASSUME NEW m, AcceptVideo(m) PROVE WorkerPlace' /\ Told'
 <2>1. state = "Running" /\ UNCHANGED <<controlVars, replyVars, pc, verdict, current>>
   BY <1>2 DEF AcceptVideo
 <2> QED  BY <1>i, <1>w, <2>1 DEF WorkerPlace
<1>3. ASSUME NEW m, AcceptAudio(m) PROVE WorkerPlace' /\ Told'
 <2>1. state = "Running" /\ UNCHANGED <<replyVars, pc, verdict, current>>  BY <1>3 DEF AcceptAudio
 <2>2. CASE UNCHANGED controlVars  BY <1>i, <1>w, <2>1, <2>2 DEF WorkerPlace
 <2>3. CASE inputError' = "overflow" /\ state' = "Stopping" /\ stopRequested' = TRUE /\ UNCHANGED <<kind, queueVars>>
   BY <1>i, <1>t, <2>1, <2>3 DEF WorkerPlace
 <2> QED  BY <1>3, <2>2, <2>3 DEF AcceptAudio, controlVars
\* A request to stop, of a recorder that runs or stops already.
<1>4. ASSUME state \in {"Running", "Stopping"}, NEW end, RequestStop(end), queue' = queue,
             UNCHANGED <<finalResult, observer, registered, observed, pc, verdict, current>>
      PROVE  WorkerPlace'
  BY <1>i, <1>4 DEF RequestStop, WorkerPlace
<1>5. ASSUME NEW c \in Callers, NEW end, StopAsync(c, end) PROVE WorkerPlace' /\ Told'
 <2>1. UNCHANGED <<queue, finalResult, observer, registered, observed, pc, verdict, current>>
   BY <1>5 DEF StopAsync, queueVars
 <2>2. WorkerPlace'
  <3>1. CASE UNCHANGED controlVars  BY <1>i, <2>1, <3>1 DEF WorkerPlace, controlVars
  <3>2. CASE state \in {"Running", "Stopping"} /\ RequestStop(end)  BY <1>4, <2>1, <3>2
  <3> QED  BY <1>5, <3>1, <3>2 DEF StopAsync
 <2>3. answer' = answer \/ \E a \in {"unstarted", finalResult} : answer' = [answer EXCEPT ![c] = a]
   BY <1>5 DEF StopAsync
 <2>4. Told'  BY <1>i, <2>1, <2>3 DEF Told, ReplyPart
 <2> QED  BY <2>2, <2>4
<1>6. CASE Observe
 <2>1. /\ ~registered /\ registered' = TRUE /\ observer' = TRUE
       /\ observed' = IF state = "Stopped" THEN Append(observed, finalResult) ELSE observed
       /\ UNCHANGED <<controlVars, queue, finalResult, answer, pc, verdict, current>>
   BY <1>6 DEF Observe, queueVars
 <2>2. observed = <<>> /\ pc # "notify"  BY <1>i, <2>1 DEF WorkerPlace
 <2>3. observed' = <<>> \/ (state = "Stopped" /\ observed' = <<finalResult>>)  BY <2>1, <2>2
 <2>4. WorkerPlace'  BY <1>i, <2>1, <2>2, <2>3 DEF WorkerPlace, controlVars
 <2>5. Len(observed') <= 1 /\ \A k \in 1 .. Len(observed') : observed'[k] = finalResult
  <3>1. CASE observed' = <<>>  BY <3>1
  <3>2. CASE observed' = <<finalResult>>  BY <3>2
  <3> QED  BY <2>3, <3>1, <3>2
 <2> QED  BY <1>i, <2>1, <2>4, <2>5 DEF Told
<1>7. CASE Unobserve
 <2>1. observer' = FALSE /\ UNCHANGED <<controlVars, queue, finalResult, registered, answer, observed, pc, verdict, current>>
   BY <1>7 DEF Unobserve, queueVars
 <2> QED  BY <1>i, <1>t, <2>1 DEF WorkerPlace, controlVars
<1>8. CASE Destroy
 <2>1. UNCHANGED <<queue, replyVars, pc, verdict, current>>  BY <1>8 DEF Destroy, queueVars
 <2>2. CASE state \in {"Running", "Stopping"} /\ RequestStop(0)  BY <1>4, <1>t, <2>1, <2>2
 <2>3. CASE UNCHANGED controlVars  BY <1>w, <2>1, <2>3
 <2> QED  BY <1>8, <2>2, <2>3 DEF Destroy
<1>9. CASE Dequeue
 <2>1. /\ queue # <<>> /\ pc = "wait" /\ pc' = "process" /\ current' = Head(queue)
       /\ UNCHANGED <<controlVars, replyVars, verdict>>
   BY <1>9 DEF Dequeue
 <2>2. current'.frames > 0
  <3>1. current' \in Media  BY <1>i, <2>1, Popped DEF Parts, QueuePart
  <3> QED  BY <3>1, MediaAre
 <2>3. verdict = "none" /\ verdict' = "none"  BY <1>i, <2>1 DEF WorkerPlace
 <2>4. WorkerPlace'  BY <1>i, <2>1, <2>2, <2>3 DEF WorkerPlace, controlVars
 <2> QED  BY <1>t, <2>1, <2>4
<1>10. CASE DrainFinished
 <2>1. pc = "wait" /\ pc' = "finish" /\ queue = <<>> /\ stopRequested
       /\ UNCHANGED <<controlVars, queue, replyVars, verdict, current>>
   BY <1>10 DEF DrainFinished, queueVars
 <2>2. /\ verdict = "none" /\ state = "Stopping" /\ current = NoMedium /\ stopRequested = TRUE
       /\ inputError # "failed" /\ (observer => registered) /\ observed = <<>> /\ finalResult = "none"
   BY <1>i, <2>1 DEF WorkerPlace, ControlPart
 <2>4. /\ verdict' = "none" /\ state' = "Stopping" /\ current' = NoMedium /\ stopRequested' = TRUE /\ queue' = <<>>
       /\ inputError' # "failed" /\ (observer' => registered') /\ observed' = <<>> /\ finalResult' = "none" /\ pc' = "finish"
   BY <2>1, <2>2 DEF controlVars
 <2>5. ((state = "Idle") = (pc = "none") /\ (state = "Stopped") = (pc \in {"notify", "reply", "exited"}))'
   BY <2>4
 <2>8. (stopRequested = (state \in {"Stopping", "Stopped"}))'  BY <2>4
 <2>9. ((verdict # "none") = (pc \in {"complete", "notify", "reply", "exited"}))'  BY <2>4
 <2>6. (/\ pc = "finish" \/ verdict \in {"ok", "overflow"} => stopRequested /\ queue = <<>>
        /\ finalResult = IF state = "Stopped" THEN verdict ELSE "none"
        /\ pc = "process" => current.frames > 0
        /\ pc \notin {"process", "fail"} => current = NoMedium)'
   BY <2>4
 <2>7. (/\ inputError = "failed" => verdict = "failed"
        /\ observer => registered
        /\ observed # <<>> => registered /\ state = "Stopped" /\ pc # "notify"
        /\ pc = "notify" => registered)'
   BY <2>4
 <2>3. WorkerPlace'  BY <2>5, <2>6, <2>7, <2>8, <2>9 DEF WorkerPlace
 <2> QED  BY <1>t, <2>1, <2>3
<1>11. CASE Rotate \/ OpenSegment \/ EncodeFails
 <2>1. pc = "process" /\ pc' \in {"process", "fail"} /\ UNCHANGED <<controlVars, queue, replyVars, verdict, current>>
   BY <1>11 DEF Rotate, OpenSegment, EncodeFails, queueVars
 <2> QED  BY <1>i, <1>t, <2>1 DEF WorkerPlace, controlVars
<1>12. CASE Encode
 <2>1. /\ pc = "process" /\ current.frames > 0 /\ segmentOpen /\ ~Due
       /\ UNCHANGED <<controlVars, queue, replyVars, verdict>>
       /\ LET left == current.frames - SliceFrames IN
          IF left = 0 THEN current' = NoMedium /\ pc' = "wait" ELSE current'.frames = left /\ pc' = "process"
   BY <1>12 DEF Encode, queueVars
 <2>2. current.frames \in Nat  BY <1>i DEF WorkPart, Current
 <2>3. \/ current' = NoMedium /\ pc' = "wait"
       \/ current'.frames > 0 /\ pc' = "process"
   BY <1>i, <2>1, <2>2, Slices
 <2> QED  BY <1>i, <1>t, <2>1, <2>3 DEF WorkerPlace, controlVars
<1>13. CASE LatchProcessError
 <2>1. /\ pc = "fail" /\ inputError' = "failed" /\ current' = NoMedium /\ verdict' = "failed" /\ pc' = "complete"
       /\ UNCHANGED <<state, stopRequested, replyVars>>
   BY <1>13 DEF LatchProcessError
 <2> QED  BY <1>i, <1>t, <2>1 DEF WorkerPlace
<1>14. CASE FinishTail
 <2>1. /\ pc = "finish" /\ pc' = "complete" /\ UNCHANGED <<controlVars, queue, replyVars, current>>
       /\ verdict' \in {IF inputError = "none" THEN "ok" ELSE inputError, "failed"}
   BY <1>14 DEF FinishTail, queueVars
 <2>2. verdict' \in {"ok", "overflow", "failed"}  BY <1>i, <2>1 DEF ControlPart, WorkerPlace
 <2>3. inputError # "failed"  BY <1>i, <2>1 DEF WorkerPlace
 <2> QED  BY <1>i, <1>t, <2>1, <2>2, <2>3 DEF WorkerPlace, controlVars
<1>15. CASE Complete
 <2>1. /\ pc = "complete" /\ state' = "Stopped" /\ stopRequested' = TRUE /\ finalResult' = verdict
       /\ pc' = IF observer THEN "notify" ELSE "reply"
       /\ observer' = FALSE /\ UNCHANGED <<inputError, queue, registered, answer, observed, current, verdict>>
   BY <1>15 DEF Complete, queueVars
 <2>2. state # "Stopped" /\ finalResult = "none" /\ observed = <<>>  BY <1>i, <2>1 DEF WorkerPlace
 <2>3. WorkerPlace'  BY <1>i, <2>1, <2>2 DEF WorkerPlace
 <2>4. Told'  BY <1>i, <2>1, <2>2 DEF Told
 <2> QED  BY <2>3, <2>4
<1>16. CASE NotifyObserver
 <2>1. /\ pc = "notify" /\ pc' = "reply" /\ observed' = Append(observed, finalResult)
       /\ UNCHANGED <<controlVars, queue, finalResult, observer, registered, answer, verdict, current>>
   BY <1>16 DEF NotifyObserver, queueVars
 <2>2. observed = <<>>  BY <1>i, <2>1 DEF WorkerPlace
 <2>0. observed' = <<finalResult>>  BY <2>1, <2>2
 <2>3. WorkerPlace'  BY <1>i, <2>1, <2>2 DEF WorkerPlace, controlVars
 <2>4. Len(observed') <= 1 /\ \A k \in 1 .. Len(observed') : observed'[k] = finalResult  BY <2>0
 <2> QED  BY <1>i, <2>1, <2>3, <2>4 DEF Told
<1>17. ASSUME NEW c \in Callers, CallCompletion(c) PROVE WorkerPlace' /\ Told'
 <2>1. /\ answer' = [answer EXCEPT ![c] = finalResult]
       /\ UNCHANGED <<controlVars, queue, finalResult, observer, registered, observed, pc, verdict, current>>
   BY <1>17 DEF CallCompletion, queueVars
 <2>2. WorkerPlace'  BY <1>i, <2>1 DEF WorkerPlace, controlVars
 <2>3. Told'  BY <1>i, <2>1 DEF Told, ReplyPart
 <2> QED  BY <2>2, <2>3
<1>18. CASE WorkerExit
 <2>1. pc = "reply" /\ pc' = "exited" /\ UNCHANGED <<controlVars, queue, replyVars, verdict, current>>
   BY <1>18 DEF WorkerExit, queueVars
 <2> QED  BY <1>i, <1>t, <2>1 DEF WorkerPlace, controlVars
<1>19. CASE Terminated \/ UNCHANGED vars  BY <1>19, <1>w DEF Terminated, vars, queueVars
<1> QED
  BY <1>1, <1>2, <1>3, <1>5, <1>6, <1>7, <1>8, <1>9, <1>10, <1>11, <1>12, <1>13, <1>14, <1>15,
   <1>16, <1>17, <1>18, <1>19 DEF Next, Worker, Clients
-----------------------------------------------------------------------------
(* Every step keeps the types *)

\* What the next segment's row and file become.
LEMMA RowTypes ==
    ASSUME Parts, SegInv
    PROVE  /\ segmentOpen => nextIndex \in Indices /\ SegmentEnd \in Nat
           /\ \A end \in Nat : segmentOpen /\ FinishReady(end) => SegmentPart' /\ RowPart'
           /\ segmentOpen /\ (FinishUnpublished \/ FinishUnindexed) => SegmentPart' /\ RowPart'
<1>i. SegmentPart /\ RowPart  BY DEF Parts
<1>1. ASSUME segmentOpen PROVE nextIndex \in Indices /\ SegmentEnd \in Nat
  BY <1>i, <1>1, Numbers DEF SegInv, SegmentGrows, SegmentPart, Indices, SegmentEnd
<1>2. ASSUME NEW end \in Nat, segmentOpen, FinishReady(end) PROVE SegmentPart' /\ RowPart'
 <2>1. nextIndex + 1 \in 0 .. Horizon + 1 /\ nextIndex \in Indices /\ segmentStart \in Nat
   BY <1>i, <1>1, <1>2, Numbers DEF Indices, SegmentPart
 <2>2. SegmentPart'  BY <1>i, <1>2, <2>1 DEF FinishReady, SegmentPart
 <2>3. /\ row' = [row EXCEPT ![nextIndex] = "READY"] /\ finalFile' = finalFile \cup {nextIndex} /\ content' = content
       /\ span' = [span EXCEPT ![nextIndex] = [start |-> segmentStart, end |-> end]]
   BY <1>2 DEF FinishReady
 <2>4. row' \in Rows /\ span' \in Spans  BY <1>i, <2>1, <2>3 DEF RowPart, Rows, Spans, Statuses
 <2> QED  BY <1>i, <2>1, <2>2, <2>3, <2>4 DEF RowPart
<1>3. ASSUME segmentOpen, FinishUnpublished \/ FinishUnindexed PROVE SegmentPart' /\ RowPart'
  BY <1>3, <1>i, <1>1 DEF FinishUnpublished, FinishUnindexed, FailPending, RowPart, Rows, Statuses,
    SegmentPart
<1> QED  BY <1>1, <1>2, <1>3

\* What lies within the bounds is a medium the worker can hold.
LEMMA FitsCurrent == \A m \in Media : Fits(m) => m \in Current
<1> SUFFICES ASSUME NEW m \in Media, Fits(m) PROVE m \in Current  OBVIOUS
<1>1. m.at \in 0 .. Horizon /\ m.frames \in 0 .. Horizon + 1
  BY MediaAre, Numbers DEF Fits, MediumEnd
<1>2. m = [at |-> m.at, frames |-> m.frames]  BY DEF Media
<1> QED  BY <1>1, <1>2 DEF Current

LEMMA OfferTicks == ASSUME NEW m \in Media, Fits(m) PROVE Ticks(m) \subseteq Indices
BY MediaAre, Numbers DEF Fits, Indices

LEMMA TypesStep == IInv /\ [Next]_vars => Parts'
<1> SUFFICES ASSUME IInv, [Next]_vars PROVE Parts'  OBVIOUS
<1>i. Parts /\ WorkerPlace /\ OrderInv /\ SegInv /\ ControlPart /\ QueuePart /\ WorkPart /\ SegmentPart /\ RowPart /\ ReplyPart
  BY DEF IInv, Parts
<1>n. 0 \in Indices /\ Horizon \in Indices /\ NoMedium \in Current
  BY Numbers DEF Indices, NoMedium, Current
\* What a step does not touch keeps its type.
<1>c. ASSUME UNCHANGED <<controlVars, destroyed>> PROVE ControlPart'
  BY <1>i, <1>c DEF ControlPart, controlVars
<1>b. ASSUME UNCHANGED queueVars PROVE QueuePart'  BY <1>i, <1>b DEF QueuePart, queueVars
<1>k. ASSUME UNCHANGED <<pc, verdict, current>> PROVE WorkPart'  BY <1>i, <1>k DEF WorkPart
<1>s. ASSUME UNCHANGED segmentVars PROVE SegmentPart' /\ RowPart'
  BY <1>i, <1>s DEF SegmentPart, RowPart, segmentVars
<1>r. ASSUME UNCHANGED replyVars PROVE ReplyPart'  BY <1>i, <1>r DEF ReplyPart, replyVars
<1>q. ASSUME ControlPart', QueuePart', WorkPart', SegmentPart', RowPart', ReplyPart' PROVE Parts'
  BY <1>q DEF Parts
<1>1. CASE Start
 <2>1. /\ state' = "Running" /\ pc' = "wait" /\ UNCHANGED <<kind, stopRequested, requestedEnd, inputError, verdict, current, destroyed>>
       /\ UNCHANGED <<queueVars, segmentVars, replyVars>>
   BY <1>1 DEF Start
 <2>2. ControlPart' /\ WorkPart'  BY <1>i, <2>1 DEF ControlPart, WorkPart, Places
 <2> QED  BY <1>b, <1>s, <1>r, <1>q, <2>1, <2>2
<1>2. ASSUME NEW m \in Offers, AcceptVideo(m) PROVE Parts'
 <2>1. /\ UNCHANGED <<controlVars, destroyed, pc, verdict, current, segmentVars, replyVars>> /\ taken' = taken \cup Ticks(m)
       /\ \/ queue' = Append(queue, m) /\ displaced' = displaced
          \/ Len(queue) = Capacity /\ queue' = Append(Tail(queue), m) /\ displaced' = displaced \cup Ticks(Head(queue))
   BY <1>2 DEF AcceptVideo
 <2>2. m \in Media /\ Ticks(m) \subseteq Indices  BY <1>i, OffersAre, OfferTicks
 <2>3. ASSUME queue' = Append(queue, m), displaced' = displaced PROVE QueuePart'
   BY <1>i, <2>1, <2>2, <2>3, Appended DEF QueuePart
 <2>4. ASSUME Len(queue) = Capacity, queue' = Append(Tail(queue), m), displaced' = displaced \cup Ticks(Head(queue))
       PROVE  QueuePart'
  <3>1. queue # <<>> /\ queue \in Seq(Media)  BY <1>i, <2>4, Numbers DEF QueuePart
  <3>2. Tail(queue) \in Seq(Media) /\ Ticks(Head(queue)) \subseteq QueueTicks(queue)
    BY <3>1, Popped
  <3>3. Append(Tail(queue), m) \in Seq(Media)  BY <2>2, <3>2, Appended
  <3>4. Ticks(Head(queue)) \subseteq Indices  BY <1>i, <3>2 DEF OrderInv, QueuePart
  <3> QED  BY <1>i, <2>1, <2>2, <2>4, <3>3, <3>4 DEF QueuePart
 <2>5. QueuePart'  BY <2>1, <2>3, <2>4
 <2> QED  BY <1>c, <1>k, <1>s, <1>r, <1>q, <2>1, <2>5
<1>3. ASSUME NEW m \in Offers, AcceptAudio(m) PROVE Parts'
 <2>1. UNCHANGED <<destroyed, pc, verdict, current, segmentVars, replyVars>>
   BY <1>3 DEF AcceptAudio
 <2>2. m \in Media /\ Ticks(m) \subseteq Indices /\ m.at \in Indices
   BY <1>i, OffersAre, OfferTicks DEF Media
 <2>3. CASE UNCHANGED <<controlVars, displaced>> /\ queue' = Append(queue, m) /\ taken' = taken \cup Ticks(m)
  <3>1. QueuePart'  BY <1>i, <2>2, <2>3, Appended DEF QueuePart
  <3> QED  BY <1>c, <1>k, <1>s, <1>r, <1>q, <2>1, <2>3, <3>1
 <2>4. CASE /\ inputError' = "overflow" /\ state' = "Stopping" /\ stopRequested' = TRUE
            /\ requestedEnd' = Larger(requestedEnd, m.at) /\ UNCHANGED <<kind, queueVars>>
  <3>1. ControlPart'  BY <1>i, <2>1, <2>2, <2>4 DEF ControlPart, Larger
  <3> QED  BY <1>b, <1>k, <1>s, <1>r, <1>q, <2>1, <2>4, <3>1
 <2> QED  BY <1>3, <2>3, <2>4 DEF AcceptAudio
<1>4. ASSUME NEW end \in Indices, RequestStop(end), destroyed' \in BOOLEAN PROVE ControlPart'
  BY <1>i, <1>4 DEF RequestStop, ControlPart, Larger
<1>5. ASSUME NEW c \in Callers, NEW end \in {0, Horizon}, StopAsync(c, end) PROVE Parts'
 <2>1. UNCHANGED <<queueVars, segmentVars, finalResult, observer, registered, calls, observed, pc, verdict, current, destroyed>>
   BY <1>5 DEF StopAsync
 <2>2. UNCHANGED controlVars \/ RequestStop(end)  BY <1>5 DEF StopAsync
 <2>3. ControlPart'  BY <1>i, <1>n, <1>c, <1>4, <2>1, <2>2 DEF ControlPart
 <2>4. waiting' \subseteq Callers  BY <1>i, <1>5 DEF StopAsync, ReplyPart
 <2>5. finalResult \in {"none"} \cup Results  BY <1>i DEF ReplyPart, Verdicts, Results
 <2>6. answer' = answer \/ answer' = [answer EXCEPT ![c] = "unstarted"] \/ answer' = [answer EXCEPT ![c] = finalResult]
   BY <1>5 DEF StopAsync
 <2>7. answer' \in [Callers -> {"none"} \cup Results]  BY <1>i, <2>5, <2>6 DEF ReplyPart, Results
 <2>8. ReplyPart'  BY <1>i, <2>1, <2>4, <2>7 DEF ReplyPart
 <2> QED  BY <1>b, <1>k, <1>s, <1>q, <2>1, <2>3, <2>8
<1>6. CASE Observe
 <2>1. /\ UNCHANGED <<controlVars, queueVars, segmentVars, finalResult, waiting, calls, answer, pc, verdict, current, destroyed>>
       /\ registered' = TRUE /\ observer' = TRUE
       /\ observed' = observed \/ (state = "Stopped" /\ observed' = Append(observed, finalResult))
   BY <1>6 DEF Observe
 <2>2. state = "Stopped" => finalResult \in Results
   BY <1>i DEF WorkerPlace, WorkPart, Verdicts, Results
 <2>3. observed' \in Seq(Results)  BY <1>i, <2>1, <2>2 DEF ReplyPart
 <2>4. ReplyPart'  BY <1>i, <2>1, <2>3 DEF ReplyPart
 <2> QED  BY <1>c, <1>b, <1>k, <1>s, <1>q, <2>1, <2>4
<1>7. CASE Unobserve
 <2>1. /\ UNCHANGED <<controlVars, queueVars, segmentVars, pc, verdict, current, destroyed>>
       /\ observer' = FALSE /\ UNCHANGED <<finalResult, registered, waiting, calls, answer, observed>>
   BY <1>7 DEF Unobserve
 <2>2. ReplyPart'  BY <1>i, <2>1 DEF ReplyPart
 <2> QED  BY <1>c, <1>b, <1>k, <1>s, <1>q, <2>1, <2>2
<1>8. CASE Destroy
 <2>1. UNCHANGED <<queueVars, segmentVars, replyVars, pc, verdict, current>> /\ destroyed' = TRUE
   BY <1>8 DEF Destroy
 <2>2. UNCHANGED controlVars \/ RequestStop(0)  BY <1>8 DEF Destroy
 <2>3. ControlPart'
  <3>1. CASE UNCHANGED controlVars  BY <1>i, <2>1, <3>1 DEF ControlPart, controlVars
  <3>2. CASE RequestStop(0)  BY <1>n, <1>4, <2>1, <3>2
  <3> QED  BY <2>2, <3>1, <3>2
 <2> QED  BY <1>b, <1>k, <1>s, <1>r, <1>q, <2>1, <2>3
<1>9. CASE Dequeue
 <2>1. /\ UNCHANGED <<controlVars, taken, displaced, segmentVars, replyVars, verdict, destroyed>>
       /\ queue # <<>> /\ current' = Head(queue) /\ queue' = Tail(queue) /\ pc' = "process"
   BY <1>9 DEF Dequeue
 <2>2. queue \in Seq(Media)  BY <1>i DEF QueuePart
 <2>3. Tail(queue) \in Seq(Media) /\ Head(queue) \in Media /\ Fits(Head(queue))
   BY <1>i, <2>1, <2>2, Popped DEF OrderInv
 <2>4. current' \in Current  BY <2>1, <2>3, FitsCurrent
 <2>5. QueuePart' /\ WorkPart'  BY <1>i, <2>1, <2>3, <2>4 DEF QueuePart, WorkPart, Places
 <2> QED  BY <1>c, <1>s, <1>r, <1>q, <2>1, <2>5
<1>10. CASE DrainFinished
 <2>1. UNCHANGED <<controlVars, queueVars, segmentVars, replyVars, verdict, current, destroyed>> /\ pc' = "finish"
   BY <1>10 DEF DrainFinished
 <2>2. WorkPart'  BY <1>i, <2>1 DEF WorkPart, Places
 <2> QED  BY <1>c, <1>b, <1>s, <1>r, <1>q, <2>1, <2>2
<1>11. CASE Rotate
 <2>1. /\ UNCHANGED <<controlVars, queueVars, replyVars, verdict, current, destroyed>> /\ pc' \in {pc, "fail"} /\ segmentOpen
       /\ FinishReady(SegmentEnd) \/ FinishUnpublished \/ FinishUnindexed
   BY <1>11 DEF Rotate, Due
 <2>2. WorkPart'  BY <1>i, <2>1 DEF WorkPart, Places
 <2>3. SegmentPart' /\ RowPart'  BY <1>i, <2>1, RowTypes
 <2> QED  BY <1>c, <1>b, <1>r, <1>q, <2>1, <2>2, <2>3
<1>12. CASE OpenSegment
 <2>1. /\ UNCHANGED <<controlVars, queueVars, replyVars, verdict, current, destroyed>>
       /\ UNCHANGED <<nextIndex, lastMediaEnd, finalFile, span, content>>
       /\ pc' \in {pc, "fail"} /\ pc = "process" /\ current.frames > 0
       /\ segmentOpen' \in {TRUE, segmentOpen} /\ pending' \in {TRUE, pending} /\ segmentStart' \in {Bucket(current.at), segmentStart}
   BY <1>12 DEF OpenSegment
 <2>2. \E status \in Statuses : row' = row \/ row' = [row EXCEPT ![nextIndex] = status]
   BY <1>12 DEF OpenSegment, Statuses
 <2>3. WorkPart'  BY <1>i, <2>1 DEF WorkPart, Places
 <2>4. Bucket(current.at) \in Indices
  <3>1. current.at \in Nat /\ current.at <= Horizon  BY <1>i, Numbers DEF WorkPart, Current
  <3> QED  BY <3>1, Grid, Numbers DEF Indices
 <2>5. SegmentPart'  BY <1>i, <2>1, <2>4 DEF SegmentPart
 <2>6. RowPart'  BY <1>i, <2>1, <2>2 DEF RowPart, Rows
 <2> QED  BY <1>c, <1>b, <1>r, <1>q, <2>1, <2>3, <2>5, <2>6
<1>13. CASE Encode
 <2> DEFINE slice == [at |-> current.at, frames |-> SliceFrames]
            left == current.frames - SliceFrames
 <2>1. /\ UNCHANGED <<controlVars, queueVars, replyVars, verdict, destroyed>>
       /\ UNCHANGED <<segmentOpen, segmentStart, nextIndex, pending, row, finalFile, span>>
       /\ pc = "process" /\ current.frames > 0 /\ segmentOpen /\ ~Due /\ pc' \in {"wait", "process"}
       /\ content' = [content EXCEPT ![nextIndex] = @ \cup Ticks(slice)]
       /\ lastMediaEnd' = Larger(lastMediaEnd, MediumEnd(slice))
       /\ current' = IF left = 0 THEN NoMedium ELSE [at |-> MediumEnd(slice), frames |-> left]
   BY <1>13 DEF Encode
 <2>2. /\ SliceFrames \in Nat /\ 1 <= SliceFrames /\ SliceFrames <= current.frames /\ current.at \in Nat /\ current.frames \in Nat
       /\ current.at + current.frames <= Horizon + 1
   BY <1>i, <2>1, Slices, Numbers DEF WorkPart, Current, OrderInv, Processed, Fits, MediumEnd
 <2>3. MediumEnd(slice) = current.at + SliceFrames /\ Ticks(slice) = current.at .. (current.at + SliceFrames - 1)
   BY DEF MediumEnd, Ticks
 <2>4. nextIndex \in Indices  BY <1>i, <2>1, RowTypes
 <2> HIDE DEF slice, left
 <2>5. Ticks(slice) \subseteq Indices  BY <2>2, <2>3, Numbers DEF Indices
 <2>6. content' \in Contents  BY <1>i, <2>1, <2>4, <2>5 DEF RowPart, Contents
 <2>7. RowPart'  BY <1>i, <2>1, <2>6 DEF RowPart
 <2>8. SegmentPart'  BY <1>i, <2>1, <2>2, <2>3, Numbers DEF SegmentPart, Larger
 <2>9. current' \in Current
  <3>1. left = 0 \/ (left \in 0 .. Horizon + 1 /\ MediumEnd(slice) \in 0 .. Horizon)
    BY <2>2, <2>3, Numbers DEF left
  <3> QED  BY <1>n, <2>1, <3>1 DEF Current
 <2>10. WorkPart'  BY <1>i, <2>1, <2>9 DEF WorkPart, Places
 <2> QED  BY <1>c, <1>b, <1>r, <1>q, <2>1, <2>7, <2>8, <2>10
<1>14. CASE EncodeFails
 <2>1. /\ UNCHANGED <<controlVars, queueVars, replyVars, verdict, current, destroyed>> /\ pc' = "fail" /\ segmentOpen
       /\ FinishUnpublished
   BY <1>14 DEF EncodeFails, FinishUnpublished
 <2>2. WorkPart'  BY <1>i, <2>1 DEF WorkPart, Places
 <2>3. SegmentPart' /\ RowPart'  BY <1>i, <2>1, RowTypes
 <2> QED  BY <1>c, <1>b, <1>r, <1>q, <2>1, <2>2, <2>3
<1>15. CASE LatchProcessError
 <2>1. /\ UNCHANGED <<kind, state, stopRequested, requestedEnd, taken, displaced, destroyed, segmentVars, replyVars>>
       /\ inputError' = "failed" /\ queue' = <<>> /\ current' = NoMedium /\ verdict' = "failed" /\ pc' = "complete"
   BY <1>15 DEF LatchProcessError
 <2>2. ControlPart' /\ QueuePart' /\ WorkPart'
   BY <1>i, <1>n, <2>1 DEF ControlPart, QueuePart, WorkPart, Places, Verdicts
 <2> QED  BY <1>s, <1>r, <1>q, <2>1, <2>2
<1>16. CASE FinishTail
 <2> DEFINE end == Smaller(Larger(requestedEnd, lastMediaEnd), SegmentEnd)
 <2>1. /\ UNCHANGED <<controlVars, queueVars, replyVars, current, destroyed>> /\ pc' = "complete"
       /\ verdict' \in {"ok", inputError, "failed"}
       /\ UNCHANGED segmentVars \/ (segmentOpen /\ (FinishReady(end) \/ FinishUnpublished \/ FinishUnindexed))
   BY <1>16 DEF FinishTail
 <2>2. WorkPart'  BY <1>i, <2>1 DEF WorkPart, Places, Verdicts, ControlPart
 <2>3. end \in Nat
   BY <1>i, Numbers DEF ControlPart, SegmentPart, Indices, SegmentEnd, Larger, Smaller
 <2> HIDE DEF end
 <2>4. SegmentPart' /\ RowPart'  BY <1>i, <1>s, <2>1, <2>3, RowTypes
 <2> QED  BY <1>c, <1>b, <1>r, <1>q, <2>1, <2>2, <2>4
<1>17. CASE Complete
 <2>1. /\ UNCHANGED <<kind, requestedEnd, inputError, destroyed, queueVars, segmentVars, current, verdict, registered, answer, observed>>
       /\ state' = "Stopped" /\ stopRequested' = TRUE /\ finalResult' = verdict /\ calls' = waiting /\ waiting' = {}
       /\ pc' \in {"notify", "reply"} /\ observer' = FALSE
   BY <1>17 DEF Complete
 <2>2. ControlPart' /\ WorkPart' /\ ReplyPart'
   BY <1>i, <2>1 DEF ControlPart, WorkPart, ReplyPart, Places
 <2> QED  BY <1>b, <1>s, <1>q, <2>1, <2>2
<1>18. CASE NotifyObserver
 <2>1. /\ UNCHANGED <<controlVars, queueVars, segmentVars, finalResult, observer, registered, waiting, calls, answer, verdict, current, destroyed>>
       /\ pc = "notify" /\ observed' = Append(observed, finalResult) /\ pc' = "reply"
   BY <1>18 DEF NotifyObserver
 <2>2. finalResult \in Results  BY <1>i, <2>1 DEF WorkerPlace, WorkPart, Verdicts, Results
 <2>3. WorkPart' /\ ReplyPart'  BY <1>i, <2>1, <2>2 DEF WorkPart, ReplyPart, Places
 <2> QED  BY <1>c, <1>b, <1>s, <1>q, <2>1, <2>3
<1>19. ASSUME NEW c \in Callers, CallCompletion(c) PROVE Parts'
 <2>1. /\ UNCHANGED <<controlVars, queueVars, segmentVars, finalResult, observer, registered, waiting, observed, pc, verdict, current, destroyed>>
       /\ calls' = calls \ {c} /\ answer' = [answer EXCEPT ![c] = finalResult]
   BY <1>19 DEF CallCompletion
 <2>2. finalResult \in {"none"} \cup Results  BY <1>i DEF ReplyPart, Verdicts, Results
 <2>3. ReplyPart'  BY <1>i, <2>1, <2>2 DEF ReplyPart
 <2> QED  BY <1>c, <1>b, <1>k, <1>s, <1>q, <2>1, <2>3
<1>20. CASE WorkerExit
 <2>1. UNCHANGED <<controlVars, queueVars, segmentVars, replyVars, verdict, current, destroyed>> /\ pc' = "exited"
   BY <1>20 DEF WorkerExit
 <2>2. WorkPart'  BY <1>i, <2>1 DEF WorkPart, Places
 <2> QED  BY <1>c, <1>b, <1>s, <1>r, <1>q, <2>1, <2>2
<1>21. CASE Terminated \/ UNCHANGED vars
 <2>1. UNCHANGED <<controlVars, queueVars, segmentVars, replyVars, pc, current, verdict, destroyed>>
   BY <1>21 DEF Terminated, vars
 <2> QED  BY <1>c, <1>b, <1>k, <1>s, <1>r, <1>q, <2>1
<1> QED
  BY <1>1, <1>2, <1>3, <1>5, <1>6, <1>7, <1>8, <1>9, <1>10, <1>11, <1>12, <1>13, <1>14, <1>15,
   <1>16, <1>17, <1>18, <1>19, <1>20, <1>21 DEF Next, Worker, Clients
-----------------------------------------------------------------------------
(* Media keep their order and are somewhere *)

\* From is monotone, and what joins the queue comes after all that was taken.
LEMMA Joined ==
    ASSUME QueuePart, NEW q \in Seq(Media), NEW m \in Media, Fits(m), Ordered(q), QueueTicks(q) \subseteq taken,
           \A t \in taken : t < m.at
    PROVE  /\ Ordered(Append(q, m))
           /\ \A x \in Nat : From(x, q) /\ (x = 0 \/ x - 1 \in taken) => From(x, Append(q, m))
<1>1. m.at \in Nat  BY MediaAre
<1>2. \A k \in 1 .. Len(q) : MediumEnd(q[k]) <= m.at
 <2> TAKE k \in 1 .. Len(q)
 <2>1. q[k] \in Media  OBVIOUS
 <2>2. MediumEnd(q[k]) - 1 \in Ticks(q[k]) /\ MediumEnd(q[k]) \in Nat  BY <2>1, MediaAre
 <2>3. MediumEnd(q[k]) - 1 \in taken  BY <2>2 DEF QueueTicks
 <2> QED  BY <1>1, <2>2, <2>3
<1>3. Ordered(Append(q, m))  BY <1>2, Appended
<1>4. ASSUME NEW x \in Nat, From(x, q), x = 0 \/ x - 1 \in taken PROVE From(x, Append(q, m))
  BY <1>1, <1>4, Appended
<1> QED  BY <1>3, <1>4

LEMMA Earlier ==
    ASSUME NEW q \in Seq(Media), NEW x \in Nat, NEW y \in Nat, x <= y, From(y, q)
    PROVE  From(x, q)
<1> SUFFICES ASSUME NEW k \in 1 .. Len(q) PROVE x <= q[k].at  BY DEF From
<1>1. q[k] \in Media  OBVIOUS
<1>2. q[k].at \in Nat /\ y <= q[k].at  BY <1>1, MediaAre DEF From
<1> QED  BY <1>2

\* The slice the worker encodes next, and what is left of the medium.
Slice == [at |-> current.at, frames |-> SliceFrames]

\* The ticks of what is left of a medium when a part of it is encoded.
LEMMA Remainder ==
    ASSUME NEW m, NEW r, m.at \in Nat, m.frames \in Nat, NEW n \in Nat, n <= m.frames, r.at = m.at + n, r.frames = m.frames - n
    PROVE  MediumEnd(r) = MediumEnd(m) /\ Ticks(r) = (m.at + n) .. (m.at + m.frames - 1)
  BY DEF Ticks, MediumEnd

LEMMA Sliced ==
    ASSUME IInv, Encode
    PROVE  /\ current.at \in Nat /\ MediumEnd(current) \in Nat /\ MediumEnd(Slice) \in Nat /\ nextIndex \in Indices
           /\ current.at < MediumEnd(Slice) /\ MediumEnd(Slice) <= MediumEnd(current) /\ MediumEnd(Slice) <= SegmentEnd
           /\ Ticks(Slice) = current.at .. MediumEnd(Slice) - 1
           /\ Ticks(current) = Ticks(Slice) \cup Ticks(current')
           /\ lastMediaEnd' = MediumEnd(Slice) /\ content' = [content EXCEPT ![nextIndex] = @ \cup Ticks(Slice)]
           /\ Encoded' = Encoded \cup Ticks(Slice)
           /\ \/ current' = NoMedium /\ pc' = "wait"
              \/ /\ current'.frames > 0 /\ current'.at = MediumEnd(Slice) /\ MediumEnd(current') = MediumEnd(current)
                 /\ kind # "video" /\ pc' = "process"
<1>i. Parts /\ OrderInv /\ SegInv /\ WorkPart /\ SegmentPart /\ RowPart  BY DEF IInv, Parts
<1> DEFINE left == current.frames - SliceFrames
<1>1. /\ pc = "process" /\ current.frames > 0 /\ segmentOpen /\ ~Due
      /\ content' = [content EXCEPT ![nextIndex] = @ \cup Ticks(Slice)]
      /\ lastMediaEnd' = Larger(lastMediaEnd, MediumEnd(Slice))
      /\ current' = IF left = 0 THEN NoMedium ELSE [at |-> MediumEnd(Slice), frames |-> left]
      /\ pc' = IF left = 0 THEN "wait" ELSE "process"
  BY DEF Encode, Slice
<1>2. /\ SliceFrames \in Nat /\ 1 <= SliceFrames /\ SliceFrames <= current.frames /\ current.at \in Nat /\ current.frames \in Nat
      /\ current.at + SliceFrames <= SegmentEnd /\ lastMediaEnd \in Nat /\ lastMediaEnd <= current.at
  BY <1>i, <1>1, Slices, Numbers DEF WorkPart, Current, OrderInv, Processed, SegmentPart
<1>3. /\ MediumEnd(Slice) = current.at + SliceFrames /\ Ticks(Slice) = current.at .. (current.at + SliceFrames - 1)
      /\ MediumEnd(current) = current.at + current.frames /\ Ticks(current) = current.at .. (current.at + current.frames - 1)
  BY DEF MediumEnd, Ticks, Slice
<1>4. nextIndex \in Indices  BY <1>i, <1>1, RowTypes
<1>5. lastMediaEnd' = MediumEnd(Slice)  BY <1>1, <1>2, <1>3 DEF Larger
<1>6. CASE left = 0
 <2>1. current' = NoMedium /\ pc' = "wait" /\ Ticks(current') = {} /\ SliceFrames = current.frames
   BY <1>1, <1>2, <1>6 DEF NoMedium, Ticks
 <2>2. Ticks(current) = Ticks(Slice) \cup Ticks(current')  BY <1>3, <2>1
 <2>3. Encoded' = Encoded \cup Ticks(Slice)  BY <1>1, <1>4, <1>i DEF Encoded, RowPart, Contents
 <2> QED  BY <1>1, <1>2, <1>3, <1>4, <1>5, <2>1, <2>2, <2>3
<1>7. CASE left # 0
 <2>1. /\ current'.at = MediumEnd(Slice) /\ current'.frames = current.frames - SliceFrames /\ pc' = "process"
       /\ left \in Nat /\ left > 0
   BY <1>1, <1>2, <1>7
 <2>2. kind # "video"  BY <1>2, <1>7 DEF SliceFrames
 <2>3. /\ MediumEnd(current') = MediumEnd(current)
       /\ Ticks(current') = (current.at + SliceFrames) .. (current.at + current.frames - 1)
   BY <1>3, <2>1, <1>2, Remainder
 <2>4. Ticks(current) = Ticks(Slice) \cup Ticks(current')  BY SMTT(40), <1>2, <1>3, <2>1, <2>3
 <2>5. Encoded' = Encoded \cup Ticks(Slice)  BY <1>1, <1>4, <1>i DEF Encoded, RowPart, Contents
 <2> QED  BY <1>1, <1>2, <1>3, <1>4, <1>5, <2>1, <2>2, <2>3, <2>4, <2>5
<1> QED  BY <1>6, <1>7
LEMMA PlacesStep == IInv /\ [Next]_vars => (OrderInv /\ Accounted)'
<1> SUFFICES ASSUME IInv, [Next]_vars PROVE OrderInv' /\ Accounted'  OBVIOUS
<1>i. Parts /\ WorkerPlace /\ OrderInv /\ Accounted /\ QueuePart /\ WorkPart /\ SegmentPart
  BY DEF IInv, Parts
<1>j. /\ queue \in Seq(Media) /\ taken \subseteq Nat /\ displaced \subseteq taken /\ QueueTicks(queue) \subseteq taken
      /\ Ticks(current) \subseteq taken /\ Encoded \subseteq taken /\ lastMediaEnd \in Nat
      /\ Ordered(queue) /\ From(lastMediaEnd, queue) /\ Displaced /\ Processed
      /\ displaced \cap (Ticks(current) \cup Encoded) = {} /\ \A t \in Encoded : t < lastMediaEnd
      /\ lastMediaEnd = 0 \/ lastMediaEnd - 1 \in taken
  BY <1>i, Numbers DEF OrderInv, QueuePart, SegmentPart, Indices
<1>u. ASSUME UNCHANGED <<kind, queueVars, current, lastMediaEnd, content>>,
             pc' # "fail" /\ verdict' # "failed" => pc # "fail" /\ verdict # "failed"
      PROVE  OrderInv' /\ Accounted'
  BY <1>u, <1>j, <1>i DEF queueVars, Encoded, QueueTicks, Ordered, Ticks, MediumEnd, Displaced,
    Processed, From, Fits, OrderInv, Accounted
\* A medium joins the queue, which may have given up its oldest one.
<1>a. ASSUME NEW m \in Offers, NEW q \in Seq(Media), queue' = Append(q, m), taken' = taken \cup Ticks(m),
             UNCHANGED <<kind, current, lastMediaEnd, content, pc, verdict>>, displaced \subseteq displaced',
             Ordered(q), QueueTicks(queue) \cup displaced = QueueTicks(q) \cup displaced', From(lastMediaEnd, q),
             \A t \in displaced' : From(t + 1, q), current.frames > 0 => From(MediumEnd(current), q),
             displaced' \cap (Ticks(current) \cup Encoded) = {}
      PROVE  OrderInv' /\ Accounted'
 <2>1. m \in Media /\ Fits(m) /\ \A t \in taken : t < m.at  BY <1>i, OffersAre
 <2>2. QueueTicks(q) \subseteq taken /\ displaced' \subseteq taken  BY <1>a, <1>j
 <2>3. Ordered(Append(q, m)) /\ \A x \in Nat : From(x, q) /\ (x = 0 \/ x - 1 \in taken) => From(x, Append(q, m))
   BY <1>i, <1>a, <2>1, <2>2, Joined
 <2>4. QueueTicks(queue') = QueueTicks(q) \cup Ticks(m)  BY <1>a, <2>1, Appended
 <2>5. Encoded' = Encoded /\ Ticks(current') = Ticks(current) /\ MediumEnd(current') = MediumEnd(current)
   BY <1>a DEF Encoded
 <2>6. From(lastMediaEnd', queue')  BY <1>a, <1>j, <2>3
 <2>7. \A t \in displaced' : From(t + 1, queue')
  <3> TAKE t \in displaced'
  <3>1. t \in Nat /\ t + 1 \in Nat /\ (t + 1) - 1 = t /\ t \in taken  BY <1>j, <2>2
  <3>2. From(t + 1, q)  BY <1>a
  <3> QED  BY <1>a, <2>3, <3>1, <3>2
 <2>8. ASSUME current.frames > 0 PROVE From(MediumEnd(current), queue')
  <3>1. MediumEnd(current) \in Nat /\ MediumEnd(current) - 1 \in Ticks(current)
    BY <1>i, <2>8, Numbers DEF WorkPart, Current, MediumEnd, Ticks
  <3>2. MediumEnd(current) - 1 \in taken  BY <1>j, <3>1
  <3> QED  BY <1>a, <2>3, <2>8, <3>1, <3>2
 <2>9. Ordered(queue)'
  <3>1. Ordered(queue')  BY <1>a, <2>3
  <3> QED  BY <1>a, <3>1 DEF Ordered
 <2>10. Displaced' /\ Processed' /\ From(lastMediaEnd, queue)' /\ QueueTicks(queue)' = QueueTicks(queue')
   BY <1>a, <1>j, <2>5, <2>6, <2>7, <2>8 DEF Displaced, Processed, From, Fits, QueueTicks
 <2>11. OrderInv'  BY <1>a, <1>j, <2>2, <2>4, <2>5, <2>9, <2>10 DEF OrderInv
 <2>12. Accounted'  BY <1>a, <1>i, <2>4, <2>5, <2>10 DEF Accounted
 <2> QED  BY <2>11, <2>12
<1>1. CASE Start \/ Destroy \/ Observe \/ Unobserve \/ WorkerExit \/ DrainFinished
 <2>1. UNCHANGED <<kind, queueVars, current, lastMediaEnd, content, verdict>>
  <3>1. CASE Start \/ WorkerExit \/ DrainFinished
    BY <3>1 DEF Start, WorkerExit, DrainFinished, segmentVars, controlVars
  <3>2. CASE Destroy \/ Observe \/ Unobserve
    BY <3>2 DEF Destroy, Observe, Unobserve, segmentVars, controlVars, RequestStop
  <3> QED  BY <1>1, <3>1, <3>2
 <2>2. pc' = pc \/ pc # "fail"
  <3>1. CASE Start  BY <1>i, <3>1 DEF Start, WorkerPlace
  <3>2. CASE WorkerExit \/ DrainFinished \/ Destroy \/ Observe \/ Unobserve
    BY <3>2 DEF WorkerExit, DrainFinished, Destroy, Observe, Unobserve
  <3> QED  BY <1>1, <3>1, <3>2
 <2> QED  BY <1>u, <2>1, <2>2
<1>2. ASSUME NEW m \in Offers, AcceptVideo(m) PROVE OrderInv' /\ Accounted'
 <2>1. /\ UNCHANGED <<kind, current, lastMediaEnd, content, pc, verdict>> /\ taken' = taken \cup Ticks(m)
       /\ \/ queue' = Append(queue, m) /\ displaced' = displaced
          \/ Len(queue) = Capacity /\ queue' = Append(Tail(queue), m) /\ displaced' = displaced \cup Ticks(Head(queue))
   BY <1>2 DEF AcceptVideo, controlVars, segmentVars
 <2>2. CASE queue' = Append(queue, m) /\ displaced' = displaced
  <3>1. \A t \in displaced' : From(t + 1, queue)  BY <1>j, <2>2 DEF Displaced
  <3> QED  BY <1>a, <1>j, <2>1, <2>2, <3>1 DEF Processed
 <2>3. CASE Len(queue) = Capacity /\ queue' = Append(Tail(queue), m) /\ displaced' = displaced \cup Ticks(Head(queue))
  <3> DEFINE h == Head(queue)
             q == Tail(queue)
  <3>1. queue # <<>>  BY <1>j, <2>3, Numbers
  <3>2. /\ q \in Seq(Media) /\ h \in Media /\ QueueTicks(queue) = Ticks(h) \cup QueueTicks(q)
        /\ Ordered(q) /\ From(MediumEnd(h), q) /\ \A x : From(x, queue) => From(x, q) /\ x <= h.at
    BY <1>j, <3>1, Popped
  <3>3. h.at \in Nat /\ MediumEnd(h) \in Nat /\ Ticks(h) = h.at .. MediumEnd(h) - 1
    BY <3>2, MediaAre
  <3> HIDE DEF h, q
  <3>4. \A t \in displaced' : From(t + 1, q)
   <4>1. \A t \in displaced : From(t + 1, q)  BY <1>j, <3>2 DEF Displaced
   <4>2. ASSUME NEW t \in Ticks(h) PROVE From(t + 1, q)
    <5>1. t + 1 \in Nat /\ t + 1 <= MediumEnd(h)  BY <3>3
    <5> QED  BY <3>2, <3>3, <5>1, Earlier
   <4> QED  BY <2>3, <4>1, <4>2 DEF h
  <3>5. Ticks(h) \cap (Ticks(current) \cup Encoded) = {}
   <4>1. \A t \in Ticks(h) : t \in Nat /\ h.at <= t  BY <3>3
   <4>2. \A t \in Encoded : t < h.at  BY <1>j, <3>2, <3>3
   <4>3. \A t \in Ticks(current) : t \in Nat /\ t < h.at
    <5>1. current.at \in Nat /\ current.frames \in Nat  BY <1>i DEF WorkPart, Current
    <5>2. current.frames > 0 => MediumEnd(current) <= h.at  BY <1>j, <3>2 DEF Processed
    <5> QED  BY <3>3, <5>1, <5>2 DEF Ticks, MediumEnd
   <4> QED  BY <1>j, <3>3, <4>1, <4>2, <4>3
  <3>6. From(lastMediaEnd, q) /\ (current.frames > 0 => From(MediumEnd(current), q))
    BY <1>j, <3>2 DEF Processed
  <3>7. queue' = Append(q, m) /\ displaced' = displaced \cup Ticks(h)  BY <2>3 DEF q, h
  <3>8. displaced' \cap (Ticks(current) \cup Encoded) = {}  BY <1>j, <3>5, <3>7
  <3>9. displaced \subseteq displaced' /\ QueueTicks(queue) \cup displaced = QueueTicks(q) \cup displaced'
    BY <3>2, <3>7
  <3> QED  BY <1>a, <2>1, <3>2, <3>4, <3>6, <3>7, <3>8, <3>9
 <2> QED  BY <2>1, <2>2, <2>3
<1>3. ASSUME NEW m \in Offers, AcceptAudio(m) PROVE OrderInv' /\ Accounted'
 <2>1. UNCHANGED <<kind, current, lastMediaEnd, content, pc, verdict>>
   BY <1>3 DEF AcceptAudio, controlVars, segmentVars
 <2>2. CASE UNCHANGED queueVars  BY <1>u, <2>1, <2>2
 <2>3. CASE queue' = Append(queue, m) /\ taken' = taken \cup Ticks(m) /\ displaced' = displaced
  <3>1. \A t \in displaced' : From(t + 1, queue)  BY <1>j, <2>3 DEF Displaced
  <3> QED  BY <1>a, <1>j, <2>1, <2>3, <3>1 DEF Processed
 <2> QED  BY <1>3, <2>2, <2>3 DEF AcceptAudio
<1>4. ASSUME NEW c \in Callers, NEW end, StopAsync(c, end) PROVE OrderInv' /\ Accounted'
 <2>1. UNCHANGED <<kind, queueVars, current, lastMediaEnd, content, pc, verdict>>
   BY <1>4 DEF StopAsync, segmentVars, controlVars, RequestStop
 <2> QED  BY <1>u, <2>1
<1>5. CASE Dequeue
 <2> DEFINE h == Head(queue)
            q == Tail(queue)
 <2>1. /\ queue # <<>> /\ pc = "wait" /\ current' = h /\ queue' = q /\ pc' = "process"
       /\ UNCHANGED <<kind, taken, displaced, lastMediaEnd, content, verdict>>
   BY <1>5 DEF Dequeue, controlVars, segmentVars
 <2>2. /\ q \in Seq(Media) /\ h \in Media /\ QueueTicks(queue) = Ticks(h) \cup QueueTicks(q) /\ Fits(h)
       /\ Ordered(q) /\ From(MediumEnd(h), q) /\ \A x : From(x, queue) => From(x, q) /\ x <= h.at
   BY <1>j, <2>1, Popped
 <2>3. Ticks(current) = {}  BY <1>i, <2>1 DEF WorkerPlace, NoMedium, Ticks
 <2>4. h.at \in Nat /\ MediumEnd(h) \in Nat /\ Ticks(h) = h.at .. MediumEnd(h) - 1
   BY <2>2, MediaAre
 <2>5. Encoded' = Encoded /\ Ticks(current') = Ticks(h) /\ QueueTicks(queue)' = QueueTicks(q)
   BY <2>1 DEF Encoded, QueueTicks
 <2> HIDE DEF h, q
 <2>6. displaced \cap Ticks(h) = {}
  <3>1. \A t \in displaced : t \in Nat /\ t + 1 <= h.at  BY <1>j, <2>2 DEF Displaced
  <3> QED  BY <2>4, <3>1
 <2>7. Ordered(queue)' /\ From(lastMediaEnd, queue)' /\ Displaced'
  <3>1. Ordered(q) /\ From(lastMediaEnd, q) /\ \A t \in displaced : From(t + 1, q)
    BY <1>j, <2>2 DEF Displaced
  <3> QED  BY <2>1, <3>1 DEF Ordered, From, Displaced
 <2>8. Processed'
  <3>1. From(MediumEnd(h), q) /\ Fits(h) /\ lastMediaEnd <= h.at  BY <1>j, <2>2
  <3> QED  BY <2>1, <3>1 DEF Processed, From, Fits
 <2>9. OrderInv'  BY <1>j, <2>1, <2>2, <2>5, <2>6, <2>7, <2>8 DEF OrderInv
 <2>10. Accounted'  BY <1>i, <2>1, <2>2, <2>3, <2>5 DEF Accounted
 <2> QED  BY <2>9, <2>10
<1>6. CASE Rotate \/ OpenSegment \/ EncodeFails
 <2>1. UNCHANGED <<kind, queueVars, current, lastMediaEnd, content, verdict>> /\ pc = "process"
   BY <1>6 DEF Rotate, OpenSegment, EncodeFails, controlVars, FinishReady, FinishUnpublished, FinishUnindexed
 <2> QED  BY <1>u, <2>1
<1>7. CASE Encode
 <2>1. UNCHANGED <<kind, queue, taken, displaced, verdict>> /\ pc = "process"
   BY <1>7 DEF Encode, controlVars, queueVars
 <2>2. /\ current.at \in Nat /\ MediumEnd(current) \in Nat /\ MediumEnd(Slice) \in Nat
       /\ current.at < MediumEnd(Slice) /\ MediumEnd(Slice) <= MediumEnd(current)
       /\ Ticks(Slice) = current.at .. MediumEnd(Slice) - 1 /\ Ticks(current) = Ticks(Slice) \cup Ticks(current')
       /\ lastMediaEnd' = MediumEnd(Slice) /\ Encoded' = Encoded \cup Ticks(Slice)
       /\ \/ current' = NoMedium
          \/ current'.frames > 0 /\ current'.at = MediumEnd(Slice) /\ MediumEnd(current') = MediumEnd(current) /\ kind # "video"
   BY <1>7, Sliced
 <2>3. current.frames > 0 /\ From(MediumEnd(current), queue) /\ Fits(current) /\ lastMediaEnd <= current.at
   BY <1>i, <1>j, <2>1 DEF WorkerPlace, Processed
 <2>4. From(lastMediaEnd', queue)  BY <1>j, <2>2, <2>3, Earlier
 <2>5. Processed'
  <3>1. current' = NoMedium => ~(current'.frames > 0)  BY DEF NoMedium
  <3>2. ASSUME current'.frames > 0 PROVE From(MediumEnd(current'), queue') /\ Fits(current)' /\ lastMediaEnd' <= current'.at
    BY <2>1, <2>2, <2>3, <3>1, <3>2 DEF Fits
  <3> QED  BY <3>2 DEF Processed, From
 <2>6. Ordered(queue)' /\ From(lastMediaEnd, queue)' /\ Displaced'
   BY <1>j, <2>1, <2>4 DEF Ordered, From, Displaced
 <2>7. \A t \in Encoded' : t < lastMediaEnd'
  <3>1. \A t \in Encoded : t \in Nat  BY <1>j
  <3> QED  BY <1>j, <2>2, <2>3, <3>1
 <2>8. lastMediaEnd' - 1 \in taken  BY <1>j, <2>2
 <2>9. QueueTicks(queue)' = QueueTicks(queue) /\ Ticks(current)' = Ticks(current')
   BY <2>1 DEF QueueTicks
 <2>10. OrderInv'  BY <1>j, <2>1, <2>2, <2>5, <2>6, <2>7, <2>8, <2>9 DEF OrderInv
 <2>11. Accounted'  BY <1>i, <2>1, <2>2, <2>9 DEF Accounted
 <2> QED  BY <2>10, <2>11
<1>8. CASE LatchProcessError
 <2>1. UNCHANGED <<kind, taken, displaced, lastMediaEnd, content>> /\ queue' = <<>> /\ current' = NoMedium /\ verdict' = "failed"
   BY <1>8 DEF LatchProcessError, segmentVars
 <2>2. Encoded' = Encoded /\ Ticks(current)' = {} /\ QueueTicks(queue)' = {}
   BY <2>1 DEF Encoded, Ticks, NoMedium, QueueTicks
 <2>3. Ordered(queue)' /\ From(lastMediaEnd, queue)' /\ Displaced' /\ Processed'
   BY <2>1 DEF Ordered, From, Displaced, Processed, NoMedium
 <2>4. OrderInv'  BY <1>j, <2>1, <2>2, <2>3 DEF OrderInv
 <2>5. Accounted'  BY <2>1 DEF Accounted
 <2> QED  BY <2>4, <2>5
<1>9. CASE FinishTail
 <2>1. UNCHANGED <<kind, queueVars, current, lastMediaEnd, content>> /\ pc = "finish"
   BY <1>9 DEF FinishTail, controlVars, segmentVars, FinishReady, FinishUnpublished, FinishUnindexed
 <2>2. verdict = "none"  BY <1>i, <2>1 DEF WorkerPlace
 <2> QED  BY <1>u, <2>1, <2>2
<1>10. CASE Complete \/ NotifyObserver
 <2>1. UNCHANGED <<kind, queueVars, current, lastMediaEnd, content, verdict>> /\ pc # "fail"
   BY <1>10 DEF Complete, NotifyObserver, controlVars, segmentVars
 <2> QED  BY <1>u, <2>1
<1>11. ASSUME NEW c \in Callers, CallCompletion(c) PROVE OrderInv' /\ Accounted'
 <2>1. UNCHANGED <<kind, queueVars, current, lastMediaEnd, content, pc, verdict>>
   BY <1>11 DEF CallCompletion, segmentVars, controlVars
 <2> QED  BY <1>u, <2>1
<1>12. CASE Terminated \/ UNCHANGED vars
 <2>1. UNCHANGED <<kind, queueVars, current, lastMediaEnd, content, pc, verdict>>
   BY <1>12 DEF Terminated, vars, segmentVars, controlVars
 <2> QED  BY <1>u, <2>1
<1> QED
  BY <1>1, <1>2, <1>3, <1>4, <1>5, <1>6, <1>7, <1>8, <1>9, <1>10, <1>11, <1>12 DEF Next, Worker, Clients
-----------------------------------------------------------------------------
(* Segments, rows and files *)

\* What the invariants say of the segment under way, one segment at a time.
LEMMA Newest ==
    ASSUME Parts, WorkerPlace, SegInv
    PROVE  /\ Ready \subseteq Indices /\ Indices \subseteq Nat /\ nextIndex \in Nat /\ segmentStart \in Nat /\ SegmentEnd \in Nat
           /\ \A i \in Ready : i < nextIndex /\ span[i].start \in Nat /\ span[i].end \in Nat /\ row[i] = "READY"
           /\ nextIndex \in Indices => row[nextIndex] # "READY"
           /\ segmentOpen => /\ nextIndex \in Indices /\ verdict = "none" /\ finalResult = "none"
                             /\ row[nextIndex] = "WRITING" /\ nextIndex \notin finalFile
           /\ pc = "process" /\ nextIndex \in Indices => /\ verdict = "none" /\ finalResult = "none" /\ nextIndex \notin finalFile
                                                         /\ ~segmentOpen => row[nextIndex] = "none" /\ content[nextIndex] = {}
<1>i. WorkPart /\ SegmentPart /\ RowPart /\ SegmentsPartitionTime /\ RowsMatchFiles /\ SegmentGrows
  BY DEF Parts, SegInv
<1>1. Ready \subseteq Indices /\ Indices \subseteq Nat /\ nextIndex \in Nat /\ segmentStart \in Nat /\ SegmentEnd \in Nat
  BY <1>i, Numbers DEF Ready, Indices, SegmentPart, SegmentEnd
<1>2. ASSUME NEW i \in Ready PROVE i < nextIndex /\ span[i].start \in Nat /\ span[i].end \in Nat /\ row[i] = "READY"
 <2>1. i \in Indices /\ i \in Nat /\ row[i] = "READY"  BY <1>1 DEF Ready
 <2>2. ~(i > nextIndex) /\ i # nextIndex  BY <1>i, <2>1 DEF RowsMatchFiles, SegmentGrows
 <2>3. span[i] \in [start : Nat, end : Nat]  BY <1>i, <2>1 DEF RowPart, Spans
 <2> QED  BY <1>1, <2>1, <2>2, <2>3
<1>3. nextIndex \in Indices => row[nextIndex] # "READY"  BY <1>i DEF SegmentGrows
<1>4. ASSUME nextIndex \in Indices, pc # "fail", verdict = "none" PROVE nextIndex \notin finalFile
  BY <1>i, <1>3, <1>4 DEF RowsMatchFiles
<1>5. ASSUME segmentOpen
      PROVE  /\ nextIndex \in Indices /\ verdict = "none" /\ finalResult = "none"
             /\ row[nextIndex] = "WRITING" /\ nextIndex \notin finalFile
  BY <1>i, <1>5, RowTypes, <1>4 DEF SegmentGrows, WorkerPlace
<1>6. ASSUME pc = "process", nextIndex \in Indices
      PROVE  /\ verdict = "none" /\ finalResult = "none" /\ nextIndex \notin finalFile
             /\ ~segmentOpen => row[nextIndex] = "none" /\ content[nextIndex] = {}
  BY <1>6, <1>4, <1>i DEF WorkerPlace, SegmentGrows
<1> QED  BY <1>1, <1>2, <1>3, <1>5, <1>6

\* A step that leaves the segments alone.
LEMMA Quiet ==
    ASSUME Parts, SegInv, WorkerPlace, UNCHANGED segmentVars, segmentOpen => pc' \in {"wait", "process", "finish"},
           pc = "process" /\ pc' # "fail" => pc' = "process" /\ current'.at = current.at,
           pc' \in {"none", "wait", "process"} => pc \in {"none", "wait", "process"},
           pc = "fail" \/ verdict = "failed" => pc' = "fail" \/ verdict' = "failed",
           finalResult' = finalResult \/ (pc = "complete" /\ finalResult' = verdict)
    PROVE  SegInv'
<1>i. RowPart /\ SegmentsPartitionTime /\ RowsMatchFiles /\ SegmentGrows  BY DEF Parts, SegInv
<1>u. UNCHANGED <<segmentOpen, segmentStart, nextIndex, pending, row, finalFile, span, content>>
  BY DEF segmentVars
<1>1. Ready' = Ready /\ SegmentEnd' = SegmentEnd  BY <1>u DEF Ready, SegmentEnd
<1>2. SegmentsPartitionTime'  BY <1>i, <1>u, <1>1 DEF SegmentsPartitionTime
<1>3. RowsMatchFiles'
 <2> SUFFICES ASSUME NEW i \in Indices, finalResult' # "none", row[i] \notin {"none", "READY"} PROVE finalResult' = "failed"
   BY <1>i, <1>u DEF RowsMatchFiles
 <2>1. CASE finalResult' = finalResult  BY <1>i, <2>1 DEF RowsMatchFiles
 <2>2. CASE pc = "complete" /\ finalResult' = verdict
   BY <1>i, Newest, <2>2 DEF RowsMatchFiles, SegmentGrows
 <2> QED  BY <2>1, <2>2
<1>4. SegmentGrows'
 <2>1. ASSUME segmentOpen, content[nextIndex] = {} PROVE pc' = "process" /\ current'.at \in segmentStart .. SegmentEnd - 1
   BY <1>i, <2>1 DEF SegmentGrows
 <2>2. ASSUME pc' \in {"none", "wait", "process"}, NEW i \in Ready
       PROVE  OnGrid(span[i].end) /\ (~segmentOpen => pc' = "process" /\ span[i].end <= current'.at)
   BY <1>i, <2>2 DEF SegmentGrows
 <2>3. ASSUME NEW i \in Indices, i = nextIndex, row[i] # "none" \/ content[i] # {}
       PROVE  segmentOpen \/ pc' = "fail" \/ verdict' = "failed"
   BY <1>i, <2>3 DEF SegmentGrows
 <2>4. /\ pending' = segmentOpen'
       /\ (segmentOpen =>
            /\ pc \in {"wait", "process", "finish"}
            /\ OnGrid(segmentStart) /\ nextIndex <= segmentStart /\ row[nextIndex] = "WRITING"
            /\ content[nextIndex] \subseteq segmentStart .. SegmentEnd - 1
            /\ content[nextIndex] = {} => pc = "process" /\ current.at \in segmentStart .. SegmentEnd - 1
            /\ \A i \in Ready : span[i].end <= segmentStart)'
   BY <1>i, <1>u, <1>1, <2>1 DEF SegmentGrows, OnGrid, Bucket
 <2>5. (pc \in {"none", "wait", "process"} =>
           \A i \in Ready : OnGrid(span[i].end) /\ (~segmentOpen => pc = "process" /\ span[i].end <= current.at))'
   BY <1>u, <1>1, <2>2 DEF OnGrid, Bucket
 <2>6. (/\ \A i \in Ready : i < span[i].end
        /\ \A i \in Indices :
             /\ i > nextIndex => content[i] = {} /\ i \notin finalFile
             /\ i = nextIndex => /\ row[i] # "READY"
                                 /\ row[i] # "none" \/ content[i] # {} => segmentOpen \/ pc = "fail" \/ verdict = "failed")'
   BY <1>i, <1>u, <1>1, <2>3 DEF SegmentGrows
 <2> QED  BY <2>4, <2>5, <2>6 DEF SegmentGrows
<1> QED  BY <1>2, <1>3, <1>4 DEF SegInv
\* The segment under way becomes READY.
LEMMA SegmentReady ==
    ASSUME Parts, SegInv, WorkerPlace, segmentOpen, NEW end \in Nat, FinishReady(end), current'.at \in Nat, content[nextIndex] # {},
           segmentStart < end, end <= SegmentEnd, content[nextIndex] \subseteq segmentStart .. end - 1, finalResult' = finalResult,
           pc' \in {"none", "wait", "process"} => pc = "process" /\ pc' = "process" /\ OnGrid(end) /\ end <= current'.at
    PROVE  SegInv'
<1>i. RowPart /\ SegmentsPartitionTime /\ RowsMatchFiles /\ SegmentGrows  BY DEF Parts, SegInv
<1> DEFINE n == nextIndex
<1>n. /\ Ready \subseteq Indices /\ Indices \subseteq Nat /\ n \in Nat /\ segmentStart \in Nat /\ SegmentEnd \in Nat /\ n \in Indices
      /\ \A i \in Ready : i < n /\ span[i].start \in Nat /\ span[i].end \in Nat /\ row[i] = "READY"
      /\ finalResult = "none" /\ row[n] = "WRITING" /\ n \notin finalFile /\ SegmentEnd = segmentStart + SegmentDuration
  BY Newest DEF SegmentEnd
<1>1. /\ segmentOpen' = FALSE /\ pending' = FALSE /\ finalFile' = finalFile \cup {n} /\ content' = content
      /\ row' = [row EXCEPT ![n] = "READY"] /\ span' = [span EXCEPT ![n] = [start |-> segmentStart, end |-> end]]
      /\ nextIndex' = n + 1
  BY DEF FinishReady
<1> HIDE DEF n
<1>2. /\ row \in Rows /\ span \in Spans  BY <1>i DEF RowPart
<1>3. /\ \A i \in Indices : row'[i] = IF i = n THEN "READY" ELSE row[i]
      /\ \A i \in Indices : i # n => span'[i] = span[i]
      /\ span'[n].start = segmentStart /\ span'[n].end = end
  BY <1>1, <1>2, <1>n DEF Rows, Spans
<1>4. Ready' = Ready \cup {n}  BY <1>3, <1>n DEF Ready
<1>5. \A i \in Ready : i # n /\ i \in Indices /\ i \in Nat  BY <1>n
<1>g. /\ \A i \in Ready : span[i].end <= segmentStart
      /\ n <= segmentStart /\ \A i \in Ready : i < span[i].end
  BY <1>i DEF SegmentGrows, n
<1>6. SegmentsPartitionTime'
 <2>1. ASSUME NEW i \in Ready
       PROVE  /\ content[i] # {} /\ content[i] \subseteq span[i].start .. (span[i].end - 1)
              /\ span[i].end - span[i].start \in 1 .. SegmentDuration
              /\ \A j \in Ready : i < j => span[i].end <= span[j].start
   BY <1>i DEF SegmentsPartitionTime
 <2>2. ASSUME NEW i \in Ready
       PROVE  /\ content'[i] # {} /\ content'[i] \subseteq span'[i].start .. (span'[i].end - 1)
              /\ span'[i].end - span'[i].start \in 1 .. SegmentDuration
   BY <1>1, <1>3, <1>5, <2>1
 <2>3. /\ content'[n] # {} /\ content'[n] \subseteq span'[n].start .. (span'[n].end - 1)
       /\ span'[n].end - span'[n].start \in 1 .. SegmentDuration
   BY <1>n, Numbers, <1>1, <1>3 DEF n
 <2>4. ASSUME NEW i \in Ready \cup {n}, NEW j \in Ready \cup {n}, i < j PROVE span'[i].end <= span'[j].start
  <3>1. CASE i \in Ready /\ j \in Ready  BY <1>3, <1>5, <2>1, <2>4, <3>1
  <3>2. CASE i \in Ready /\ j = n  BY <1>3, <1>5, <1>g, <3>2
  <3>3. CASE i = n
   <4>1. ~(n < j)  BY <1>n
   <4> QED  BY <2>4, <3>3, <4>1
  <3> QED  BY <3>1, <3>2, <3>3
 <2> QED  BY <1>4, <2>2, <2>3, <2>4 DEF SegmentsPartitionTime
<1>7. RowsMatchFiles'
 <2>1. ASSUME NEW i \in Indices
       PROVE  /\ row[i] = "READY" => i \in finalFile
              /\ row[i] = "FAILED" => i \notin finalFile
              /\ i < n => row[i] = "READY"
              /\ i > n => row[i] = "none"
              /\ (i \in finalFile /\ row[i] # "READY") => i = n
   BY <1>i DEF RowsMatchFiles, n
 <2>2. ASSUME NEW i \in Indices, i # n
       PROVE  /\ row'[i] = "READY" => i \in finalFile'
              /\ row'[i] = "FAILED" => i \notin finalFile'
              /\ i < n + 1 => row'[i] = "READY"
              /\ i > n + 1 => row'[i] = "none"
              /\ ~(i \in finalFile' /\ row'[i] # "READY")
   BY <1>n, <1>1, <1>3, <2>2, <2>1
 <2>3. row'[n] = "READY" /\ n \in finalFile' /\ ~(n > n + 1)  BY <1>1, <1>3, <1>n
 <2> QED  BY <1>1, <1>n, <2>2, <2>3 DEF RowsMatchFiles
<1>8. SegmentGrows'
 <2>1. ASSUME pc' \in {"none", "wait", "process"}, NEW i \in Ready \cup {n}
       PROVE  OnGrid(span'[i].end) /\ pc' = "process" /\ span'[i].end <= current'.at
  <3>1. pc = "process" /\ pc' = "process" /\ OnGrid(end) /\ end <= current'.at  BY <2>1
  <3>2. CASE i = n  BY <1>3, <3>1, <3>2
  <3>3. CASE i # n
   <4>1. i \in Ready /\ span'[i] = span[i]  BY <1>3, <1>5, <2>1, <3>3
   <4>2. OnGrid(span[i].end)  BY <1>i, <3>1, <4>1 DEF SegmentGrows
   <4>3. span[i].end <= segmentStart /\ span[i].end \in Nat  BY <1>g, <1>n, <4>1
   <4>4. segmentStart <= current'.at  BY <3>1, <1>n
   <4> QED  BY <1>n, <3>1, <4>1, <4>2, <4>3, <4>4
  <3> QED  BY <3>2, <3>3
 <2>2. \A i \in Ready \cup {n} : i < span'[i].end  BY <1>3, <1>5, <1>g, <1>n
 <2>3. ASSUME NEW i \in Indices
       PROVE  /\ i > n + 1 => content'[i] = {} /\ i \notin finalFile'
              /\ i = n + 1 => row'[i] = "none" /\ content'[i] = {}
   BY <1>i, <1>n, <1>1, <1>3 DEF SegmentGrows, RowsMatchFiles, n
 <2> QED  BY <1>1, <1>4, <2>1, <2>2, <2>3 DEF SegmentGrows
<1> QED  BY <1>6, <1>7, <1>8 DEF SegInv
\* The segment under way, or the one that was to begin, fails: its row says so, if the store
\* lets it, and the worker stops with that.
LEMMA SegmentFails ==
    ASSUME Parts, SegInv, WorkerPlace, nextIndex \in Indices, segmentOpen \/ pc = "process",
           segmentOpen' = FALSE, pending' = FALSE, UNCHANGED <<nextIndex, span, content, finalResult>>,
           \/ /\ finalFile' = finalFile
              /\ \E status \in {"WRITING", "FAILED", row[nextIndex]} : row' = [row EXCEPT ![nextIndex] = status]
           \/ row' = row /\ row[nextIndex] = "WRITING" /\ finalFile' = finalFile \cup {nextIndex},
           pc' \in {"fail", "complete"}, pc' = "fail" \/ verdict' = "failed"
    PROVE  SegInv'
<1>i. RowPart /\ SegmentsPartitionTime /\ RowsMatchFiles /\ SegmentGrows  BY DEF Parts, SegInv
<1> DEFINE n == nextIndex
<1>n. /\ Ready \subseteq Indices /\ Indices \subseteq Nat /\ n \in Nat /\ n \in Indices
      /\ \A i \in Ready : i < n /\ span[i].start \in Nat /\ span[i].end \in Nat /\ row[i] = "READY"
      /\ finalResult = "none" /\ row[n] # "READY" /\ n \notin finalFile
  BY Newest
<1>1. /\ finalFile' \subseteq finalFile \cup {n} /\ finalFile \subseteq finalFile'
      /\ \A i \in Indices : i # n => row'[i] = row[i]
      /\ row'[n] # "READY" /\ (n \in finalFile' => row'[n] = "WRITING")
  BY <1>i, <1>n DEF RowPart, Rows
<1>u. UNCHANGED <<span, content, finalResult>> /\ nextIndex' = n /\ nextIndex = n  OBVIOUS
<1> HIDE DEF n
<1>2. Ready' = Ready  BY <1>1, <1>n DEF Ready
<1>3. SegmentsPartitionTime'  BY <1>i, <1>u, <1>2 DEF SegmentsPartitionTime
<1>4. RowsMatchFiles'
 <2>1. ASSUME NEW i \in Indices
       PROVE  /\ row[i] = "READY" => i \in finalFile
              /\ row[i] = "FAILED" => i \notin finalFile
              /\ i < n => row[i] = "READY"
              /\ i > n => row[i] = "none"
              /\ (i \in finalFile /\ row[i] # "READY") => i = n
   BY <1>i, <1>u DEF RowsMatchFiles
 <2>2. ASSUME NEW i \in Indices, i # n
       PROVE  /\ row'[i] = "READY" => i \in finalFile'
              /\ row'[i] = "FAILED" => i \notin finalFile'
              /\ i < n => row'[i] = "READY"
              /\ i > n => row'[i] = "none"
              /\ ~(i \in finalFile' /\ row'[i] # "READY")
   BY <1>1, <2>2, <2>1
 <2>3. ~(n < n) /\ ~(n > n) /\ row'[n] # "READY" /\ (row'[n] = "FAILED" => n \notin finalFile')
       /\ (n \in finalFile' => row'[n] = "WRITING" /\ (pc' = "fail" \/ verdict' = "failed"))
   BY <1>1, <1>n
 <2> QED  BY <1>u, <1>n, <2>2, <2>3 DEF RowsMatchFiles
<1>5. SegmentGrows'
 <2>1. ASSUME NEW i \in Indices
       PROVE  /\ i > n => content[i] = {} /\ i \notin finalFile'
              /\ i = n => row'[i] # "READY"
   BY <1>i, <1>u, <1>n, <1>1 DEF SegmentGrows
 <2>2. \A i \in Ready : i < span[i].end  BY <1>i DEF SegmentGrows
 <2>3. pc' \notin {"none", "wait", "process"}  OBVIOUS
 <2> QED  BY <1>u, <1>2, <2>1, <2>2, <2>3 DEF SegmentGrows
<1> QED  BY <1>3, <1>4, <1>5 DEF SegInv

LEMMA SegmentStep == IInv /\ [Next]_vars => SegInv'
<1> SUFFICES ASSUME IInv, [Next]_vars PROVE SegInv'  OBVIOUS
<1>i. /\ Parts /\ WorkerPlace /\ OrderInv /\ SegInv /\ ControlPart /\ WorkPart /\ SegmentPart /\ RowPart
      /\ SegmentsPartitionTime /\ RowsMatchFiles /\ SegmentGrows
  BY DEF IInv, Parts, SegInv
<1>n. /\ Ready \subseteq Indices /\ Indices \subseteq Nat /\ nextIndex \in Nat /\ segmentStart \in Nat /\ SegmentEnd \in Nat
      /\ \A i \in Ready : i < nextIndex /\ span[i].start \in Nat /\ span[i].end \in Nat /\ row[i] = "READY"
      /\ segmentOpen => nextIndex \in Indices /\ finalResult = "none" /\ row[nextIndex] = "WRITING" /\ nextIndex \notin finalFile
      /\ pc = "process" /\ nextIndex \in Indices => /\ nextIndex \notin finalFile
                                                    /\ ~segmentOpen => row[nextIndex] = "none" /\ content[nextIndex] = {}
  BY <1>i, Newest
<1>o. ASSUME segmentOpen
      PROVE  /\ pc \in {"wait", "process", "finish"} /\ nextIndex <= segmentStart /\ OnGrid(segmentStart)
             /\ content[nextIndex] \subseteq segmentStart .. SegmentEnd - 1
             /\ content[nextIndex] = {} => pc = "process" /\ current.at \in segmentStart .. SegmentEnd - 1
             /\ content[nextIndex] \subseteq Encoded /\ \A t \in content[nextIndex] : t \in Nat /\ segmentStart <= t /\ t < lastMediaEnd
  BY <1>n, <1>o, <1>i DEF Encoded, SegmentGrows, OrderInv
\* Steps that leave the segments alone.
<1>1. CASE Start
 <2>1. pc = "none" /\ pc' = "wait" /\ UNCHANGED <<segmentVars, verdict, finalResult>>
   BY <1>1, <1>i DEF Start, WorkerPlace, replyVars
 <2> QED  BY <1>i, <1>o, <2>1, Quiet
<1>2. ASSUME UNCHANGED <<segmentVars, pc, verdict, finalResult, current>> PROVE SegInv'
  BY <1>i, <1>o, <1>2, Quiet
<1>3. CASE (\E m \in Offers : AcceptVideo(m) \/ AcceptAudio(m)) \/ (\E c \in Callers, end \in {0, Horizon} : StopAsync(c, end))
 <2>1. CASE \E m \in Offers : AcceptVideo(m) \/ AcceptAudio(m)
   BY <1>2, <2>1 DEF AcceptVideo, AcceptAudio, replyVars
 <2>2. CASE \E c \in Callers, end \in {0, Horizon} : StopAsync(c, end)  BY <1>2, <2>2 DEF StopAsync
 <2> QED  BY <1>3, <2>1, <2>2
<1>4. CASE Observe \/ Unobserve \/ Destroy  BY <1>2, <1>4 DEF Observe, Unobserve, Destroy, replyVars
<1>5. CASE \E c \in Callers : CallCompletion(c)  BY <1>2, <1>5 DEF CallCompletion
<1>6. CASE Dequeue \/ DrainFinished
 <2>1. pc = "wait" /\ pc' \in {"process", "finish"} /\ UNCHANGED <<segmentVars, verdict, finalResult>>
   BY <1>6 DEF Dequeue, DrainFinished, replyVars
 <2> QED  BY <1>i, <1>o, <2>1, Quiet
<1>7. CASE LatchProcessError
 <2>1. pc = "fail" /\ pc' = "complete" /\ verdict' = "failed" /\ UNCHANGED <<segmentVars, finalResult>>
   BY <1>7 DEF LatchProcessError, replyVars
 <2> QED  BY <1>i, <1>o, <2>1, Quiet
<1>8. CASE Complete
 <2>1. pc = "complete" /\ pc' \in {"notify", "reply"} /\ finalResult' = verdict /\ UNCHANGED <<segmentVars, verdict>>
   BY <1>8 DEF Complete
 <2> QED  BY <1>i, <1>o, <2>1, Quiet
<1>9. CASE NotifyObserver \/ WorkerExit
 <2>1. pc \in {"notify", "reply"} /\ pc' \in {"reply", "exited"} /\ UNCHANGED <<segmentVars, verdict, finalResult>>
   BY <1>9 DEF NotifyObserver, WorkerExit, replyVars
 <2> QED  BY <1>i, <1>o, <2>1, Quiet
<1>10. CASE Terminated \/ UNCHANGED vars  BY <1>2, <1>10 DEF Terminated, vars, replyVars
\* A failure of the segment under way.
<1>f. ASSUME segmentOpen, FinishUnpublished \/ FinishUnindexed, pc' \in {"fail", "complete"}, pc' = "fail" \/ verdict' = "failed",
                UNCHANGED finalResult
         PROVE  SegInv'
 <2>1. segmentOpen' = FALSE /\ pending' = FALSE /\ UNCHANGED <<nextIndex, span, content>>
   BY <1>f DEF FinishUnpublished, FinishUnindexed, FailPending
 <2>2. row = [row EXCEPT ![nextIndex] = row[nextIndex]]  BY <1>i, <1>n, <1>f DEF RowPart, Rows
 <2>3. \/ /\ finalFile' = finalFile
          /\ \E status \in {"WRITING", "FAILED", row[nextIndex]} : row' = [row EXCEPT ![nextIndex] = status]
       \/ row' = row /\ row[nextIndex] = "WRITING" /\ finalFile' = finalFile \cup {nextIndex}
  <3>1. CASE FinishUnpublished  BY <2>2, <3>1 DEF FinishUnpublished, FailPending
  <3>2. CASE FinishUnindexed  BY <1>n, <1>f, <3>2 DEF FinishUnindexed
  <3> QED  BY <1>f, <3>1, <3>2
 <2> QED  BY <1>i, <1>n, <1>f, <2>1, <2>3, SegmentFails
\* The end of a segment.
<1>11. CASE Rotate
 <2>1. /\ pc = "process" /\ segmentOpen /\ current.at >= SegmentEnd /\ UNCHANGED <<finalResult, verdict, current>>
       /\ (FinishReady(SegmentEnd) /\ pc' = pc) \/ ((FinishUnpublished \/ FinishUnindexed) /\ pc' = "fail")
   BY <1>11 DEF Rotate, Due, replyVars
 <2>2. current.at \in Nat  BY <1>i, Numbers DEF WorkPart, Current
 <2>3. content[nextIndex] # {}  BY <1>n, <1>o, <2>1, <2>2
 <2>4. OnGrid(SegmentEnd) /\ segmentStart < SegmentEnd
   BY <1>n, <1>o, <2>1, Grid, Numbers DEF SegmentEnd
 <2>5. CASE FinishReady(SegmentEnd) /\ pc' = pc
   BY <1>i, <1>n, <1>o, <2>1, <2>2, <2>3, <2>4, <2>5, SegmentReady
 <2>6. CASE (FinishUnpublished \/ FinishUnindexed) /\ pc' = "fail"  BY <1>f, <2>1, <2>6
 <2> QED  BY <2>1, <2>5, <2>6
<1>12. CASE EncodeFails
 <2>1. segmentOpen /\ FinishUnpublished /\ pc' = "fail" /\ UNCHANGED finalResult
   BY <1>12 DEF EncodeFails, FinishUnpublished, replyVars
 <2> QED  BY <1>f, <2>1
<1>13. CASE FinishTail
 <2> DEFINE end == Smaller(Larger(requestedEnd, lastMediaEnd), SegmentEnd)
 <2>1. /\ pc = "finish" /\ pc' = "complete" /\ UNCHANGED <<finalResult, current>>
       /\ \/ ~segmentOpen /\ UNCHANGED segmentVars
          \/ segmentOpen /\ FinishReady(end)
          \/ segmentOpen /\ (FinishUnpublished \/ FinishUnindexed) /\ verdict' = "failed"
   BY <1>13 DEF FinishTail, replyVars
 <2>2. CASE ~segmentOpen /\ UNCHANGED segmentVars
  <3>1. verdict # "failed"  BY <1>i, <2>1 DEF WorkerPlace
  <3> QED  BY <1>i, <2>1, <2>2, <3>1, Quiet
 <2>3. CASE segmentOpen /\ FinishReady(end)
  <3>1. content[nextIndex] # {}  BY <1>o, <2>1, <2>3
  <3>2. lastMediaEnd \in Nat /\ requestedEnd \in Nat
    BY <1>i, Numbers DEF SegmentPart, ControlPart, Indices
  <3>3. end \in Nat /\ end <= SegmentEnd /\ \A t \in Nat : t < lastMediaEnd /\ t < SegmentEnd => t < end
    BY <1>n, <3>2 DEF Smaller, Larger
  <3> HIDE DEF end
  <3>4. \A t \in content[nextIndex] : t \in Nat /\ segmentStart <= t /\ t < end
    BY <1>n, <1>o, <2>3, <3>3
  <3>5. segmentStart < end /\ content[nextIndex] \subseteq segmentStart .. end - 1
    BY <1>n, <3>1, <3>3, <3>4
  <3>6. current'.at \in Nat  BY <1>i, <2>1, Numbers DEF WorkPart, Current
  <3> QED  BY <1>i, <2>1, <2>3, <3>1, <3>3, <3>5, <3>6, SegmentReady
 <2>4. CASE segmentOpen /\ (FinishUnpublished \/ FinishUnindexed) /\ verdict' = "failed"
   BY <1>f, <2>1, <2>4
 <2> QED  BY <2>1, <2>2, <2>3, <2>4
\* The beginning of a segment.
<1>14. CASE OpenSegment
 <2>1. pc = "process" /\ current.frames > 0 /\ ~segmentOpen /\ UNCHANGED <<verdict, current, finalResult, nextIndex, lastMediaEnd, finalFile, span, content>>
   BY <1>14 DEF OpenSegment, replyVars
 <2>2. nextIndex \in Indices /\ nextIndex <= Bucket(current.at)  BY <1>i, <2>1, NextIndexFits
 <2>3. pending = FALSE /\ row \in Rows  BY <1>i, <2>1 DEF SegmentGrows, SegmentPart, RowPart
 <2>4. CASE pc' = "fail" /\ UNCHANGED <<segmentOpen, pending, segmentStart, row>>
  <3>1. UNCHANGED segmentVars  BY <2>1, <2>4 DEF segmentVars
  <3> QED  BY <1>i, <2>1, <2>4, <3>1, Quiet
 <2>5. CASE /\ pc' = "fail" /\ UNCHANGED <<segmentOpen, pending>>
            /\ \E status \in {"FAILED", "WRITING"} : row' = [row EXCEPT ![nextIndex] = status]
  <3>1. segmentOpen' = FALSE /\ pending' = FALSE  BY <1>i, <2>1, <2>3, <2>5 DEF SegmentPart
  <3> QED  BY <1>i, <2>1, <2>2, <2>5, <3>1, SegmentFails
 <2>6. CASE /\ segmentOpen' = TRUE /\ pending' = TRUE /\ segmentStart' = Bucket(current.at)
            /\ row' = [row EXCEPT ![nextIndex] = "WRITING"] /\ pc' = pc
  <3> DEFINE n == nextIndex
             b == Bucket(current.at)
  <3>1. current.at \in Nat  BY <1>i, Numbers DEF WorkPart, Current
  <3>2. b \in Nat /\ b <= current.at /\ current.at < b + SegmentDuration /\ OnGrid(b)  BY <3>1, Grid
  <3>3. /\ \A i \in Indices : i # n => row'[i] = row[i]
        /\ row'[n] = "WRITING" /\ row[n] = "none" /\ content[n] = {} /\ n \notin finalFile
    BY <1>n, <2>1, <2>2, <2>3, <2>6 DEF Rows
  <3>4. UNCHANGED <<nextIndex, finalFile, span, content, verdict, finalResult, current>> /\ n \in Indices /\ n <= b /\ n = nextIndex
    BY <2>1, <2>2
  <3>5. /\ segmentOpen' = TRUE /\ pending' = TRUE /\ segmentStart' = b /\ pc' = "process" /\ SegmentEnd' = b + SegmentDuration
    BY <2>1, <2>6 DEF SegmentEnd
  <3> HIDE DEF n, b
  <3>6. Ready' = Ready  BY <1>n, <3>3 DEF Ready
  <3>7. \A i \in Ready : OnGrid(span[i].end) /\ span[i].end <= b
   <4> TAKE i \in Ready
   <4>1. OnGrid(span[i].end) /\ span[i].end <= current.at /\ span[i].end \in Nat
     BY <1>i, <1>n, <2>1 DEF SegmentGrows
   <4> QED  BY <3>1, <4>1, Grid DEF b
  <3>8. SegmentsPartitionTime'  BY <1>i, <3>4, <3>6 DEF SegmentsPartitionTime
  <3>9. RowsMatchFiles'
   <4>1. ASSUME NEW i \in Indices, i # n
         PROVE  /\ row'[i] = "READY" => i \in finalFile
                /\ row'[i] = "FAILED" => i \notin finalFile
                /\ i < n => row'[i] = "READY"
                /\ i > n => row'[i] = "none"
                /\ ~(i \in finalFile /\ row'[i] # "READY")
     BY <1>i, <3>3, <3>4, <4>1 DEF RowsMatchFiles
   <4>2. ~(n < n) /\ ~(n > n) /\ finalResult = "none"  BY <1>n, <1>i, <2>1, <3>4 DEF WorkerPlace
   <4> QED  BY <3>3, <3>4, <4>1, <4>2 DEF RowsMatchFiles
  <3>10. SegmentGrows'
   <4>1. ASSUME NEW i \in Indices, i > n PROVE content[i] = {} /\ i \notin finalFile
     BY <1>i, <3>4, <4>1 DEF SegmentGrows
   <4>2. \A i \in Ready : i < span[i].end  BY <1>i DEF SegmentGrows
   <4>3. current.at \in b .. (b + SegmentDuration) - 1  BY <3>1, <3>2, Numbers
   <4> QED  BY <3>2, <3>3, <3>4, <3>5, <3>6, <3>7, <4>1, <4>2, <4>3 DEF SegmentGrows
  <3> QED  BY <3>8, <3>9, <3>10 DEF SegInv
 <2> QED  BY <1>14, <2>4, <2>5, <2>6 DEF OpenSegment
<1>15. CASE Encode
 <2> DEFINE n == nextIndex
            e == MediumEnd(Slice)
 <2>1. /\ pc = "process" /\ segmentOpen /\ current.frames > 0
       /\ UNCHANGED <<verdict, finalResult, segmentOpen, segmentStart, nextIndex, pending, row, finalFile, span>>
   BY <1>15 DEF Encode, replyVars
 <2>2. /\ current.at \in Nat /\ e \in Nat /\ n \in Indices /\ current.at < e /\ e <= SegmentEnd
       /\ Ticks(Slice) = current.at .. e - 1 /\ content' = [content EXCEPT ![n] = @ \cup Ticks(Slice)]
       /\ pc' \in {"wait", "process"}
   BY <1>15, Sliced
 <2>3. /\ \A i \in Indices : i # n => content'[i] = content[i]
       /\ content'[n] = content[n] \cup (current.at .. e - 1)
   BY <1>i, <2>2 DEF RowPart, Contents
 <2>4. segmentStart <= current.at
  <3>1. lastMediaEnd <= current.at /\ lastMediaEnd \in Nat
    BY <1>i, <2>1, Numbers DEF OrderInv, Processed, SegmentPart
  <3>2. CASE content[n] = {}  BY <1>n, <1>o, <2>1, <2>2, <3>2
  <3>3. CASE content[n] # {}  BY <1>n, <1>o, <2>1, <2>2, <3>1, <3>3
  <3> QED  BY <3>2, <3>3
 <2>5. content'[n] # {} /\ content'[n] \subseteq segmentStart .. SegmentEnd - 1
  <3>1. (current.at .. e - 1) \subseteq segmentStart .. SegmentEnd - 1 /\ current.at \in current.at .. e - 1
    BY <1>n, <2>2, <2>4
  <3> HIDE DEF e
  <3> QED  BY <1>o, <2>1, <2>3, <3>1
 <2> HIDE DEF n, e
 <2>6. Ready' = Ready /\ SegmentEnd' = SegmentEnd /\ \A i \in Ready : i # n
   BY <1>n, <2>1 DEF Ready, SegmentEnd, n
 <2>7. SegmentsPartitionTime'  BY <1>i, <1>n, <2>1, <2>3, <2>6 DEF SegmentsPartitionTime
 <2>8. RowsMatchFiles'
  <3>1. verdict # "failed"  BY <1>i, <2>1 DEF WorkerPlace
  <3>2. \A i \in Indices : ~(i \in finalFile /\ row[i] # "READY")
    BY <1>i, <2>1, <3>1 DEF RowsMatchFiles
  <3> QED  BY <1>i, <2>1, <3>2 DEF RowsMatchFiles
 <2>9. SegmentGrows'
  <3>1. ASSUME NEW i \in Indices, i > n PROVE content'[i] = {} /\ i \notin finalFile
   <4>1. i # n /\ content[i] = {} /\ i \notin finalFile  BY <1>i, <1>n, <3>1 DEF SegmentGrows, n
   <4> QED  BY <2>3, <4>1
  <3>2. \A i \in Ready : i < span[i].end /\ OnGrid(span[i].end) /\ span[i].end <= segmentStart
    BY <1>i, <2>1 DEF SegmentGrows
  <3>3. OnGrid(segmentStart) /\ n <= segmentStart /\ row[n] = "WRITING" /\ pending = segmentOpen
    BY <1>i, <2>1 DEF SegmentGrows, n
  <3>4. n = nextIndex  BY DEF n
  <3> QED  BY <2>1, <2>2, <2>5, <2>6, <3>1, <3>2, <3>3, <3>4 DEF SegmentGrows
 <2> QED  BY <2>7, <2>8, <2>9 DEF SegInv
<1> QED
  BY <1>1, <1>3, <1>4, <1>5, <1>6, <1>7, <1>8, <1>9, <1>10, <1>11, <1>12, <1>13, <1>14, <1>15 DEF Next, Worker, Clients
-----------------------------------------------------------------------------
(* What the invariants say of a state *)

LEMMA InOrder == Parts /\ OrderInv => MediaInOrder
<1> SUFFICES ASSUME Parts, OrderInv PROVE MediaInOrder  OBVIOUS
<1>1. QueuedTicks = QueueTicks(queue) /\ Encoded = UNION {content[i] : i \in Indices}
  BY DEF QueuedTicks, QueueTicks, Encoded
<1>2. ASSUME NEW k \in 1 .. Len(queue)
      PROVE  /\ MediumEnd(queue[k]) <= Horizon + 1 /\ lastMediaEnd <= queue[k].at /\ (kind = "video" => queue[k].frames = 1)
             /\ \A t \in displaced : t < queue[k].at
             /\ current.frames > 0 => MediumEnd(current) <= queue[k].at
             /\ \A l \in 1 .. Len(queue) : k < l => MediumEnd(queue[k]) <= queue[l].at
 <2>1. queue[k] \in Media /\ displaced \subseteq Nat  BY Numbers DEF Parts, QueuePart, Indices
 <2>2. queue[k].at \in Nat  BY <2>1, MediaAre
 <2>3. \A t \in displaced : t + 1 <= queue[k].at  BY DEF OrderInv, Displaced, From
 <2> QED  BY <2>1, <2>2, <2>3 DEF OrderInv, Ordered, From, Processed
<1>3. current.frames > 0 => /\ MediumEnd(current) <= Horizon + 1 /\ lastMediaEnd <= current.at
                            /\ kind = "video" => current.frames = 1
  BY DEF OrderInv, Processed, Fits
<1>4. /\ displaced \cap (Ticks(current) \cup Encoded) = {} /\ \A t \in Encoded : t < lastMediaEnd
      /\ lastMediaEnd = 0 \/ lastMediaEnd - 1 \in taken
      /\ displaced \cup QueueTicks(queue) \cup Ticks(current) \cup Encoded \subseteq taken
  BY DEF OrderInv
<1> QED  BY <1>1, <1>2, <1>3, <1>4 DEF MediaInOrder

LEMMA Disjoint ==
    ASSUME NEW S, NEW T, IsFiniteSet(S), IsFiniteSet(T), S \cap T = {}
    PROVE  IsFiniteSet(S \cup T) /\ Cardinality(S \cup T) = Cardinality(S) + Cardinality(T)
<1>1. Cardinality(S) \in Nat /\ Cardinality(T) \in Nat  BY FS_CardinalityType
<1>2. IsFiniteSet(S \cup T) /\ Cardinality(S \cup T) = Cardinality(S) + Cardinality(T) - Cardinality(S \cap T)
  BY FS_Union
<1>3. Cardinality(S \cap T) = 0  BY FS_EmptySet
<1> QED  BY <1>1, <1>2, <1>3

\* No tick is in two places, so that what was taken can be counted.
LEMMA Counted == Parts /\ OrderInv /\ Accounted => MediaAccounted
<1> SUFFICES ASSUME Parts, OrderInv, Accounted, pc # "fail", verdict # "failed"
             PROVE  /\ taken = displaced \cup QueuedTicks \cup Ticks(current) \cup Encoded
                    /\ Cardinality(taken) = Cardinality(displaced) + Cardinality(QueuedTicks)
                                            + Cardinality(Ticks(current)) + Cardinality(Encoded)
  BY DEF MediaAccounted, Encoded
<1> DEFINE D == displaced
           Q == QueueTicks(queue)
           C == Ticks(current)
           E == Encoded
<1>1. QueuedTicks = Q  BY DEF QueuedTicks, QueueTicks
<1>2. taken = D \cup Q \cup C \cup E  BY DEF Accounted
<1>3. IsFiniteSet(taken) /\ taken \subseteq Nat
 <2>1. IsFiniteSet(Indices) /\ taken \subseteq Indices /\ Indices \subseteq Nat
   BY FS_Interval, Numbers DEF Indices, Parts, QueuePart
 <2> QED  BY <2>1, FS_Subset
<1>4. IsFiniteSet(D) /\ IsFiniteSet(Q) /\ IsFiniteSet(C) /\ IsFiniteSet(E)  BY <1>2, <1>3, FS_Subset
<1>5. \A t \in Q : \E k \in 1 .. Len(queue) : queue[k].at \in Nat /\ queue[k].at <= t
 <2> TAKE t \in Q
 <2>1. PICK k \in 1 .. Len(queue) : t \in Ticks(queue[k])  BY DEF QueueTicks
 <2>2. queue[k] \in Media  BY DEF Parts, QueuePart
 <2>3. queue[k].at \in Nat /\ MediumEnd(queue[k]) \in Nat /\ t \in queue[k].at .. MediumEnd(queue[k]) - 1
   BY <2>1, <2>2, MediaAre
 <2> QED  BY <2>3
<1>6. /\ current.at \in Nat /\ current.frames \in Nat /\ MediumEnd(current) \in Nat /\ lastMediaEnd \in Nat
      /\ \A t \in C : current.frames > 0 /\ t \in Nat /\ current.at <= t /\ t < MediumEnd(current)
  BY Numbers DEF Parts, WorkPart, Current, SegmentPart, MediumEnd, Ticks
<1>7. D \cap Q = {}  BY <1>2, <1>3, <1>5 DEF OrderInv, Displaced, From
<1>8. (D \cup Q) \cap C = {}  BY <1>6, <1>2, <1>3, <1>5 DEF OrderInv, Processed, From
<1>9. (D \cup Q \cup C) \cap E = {}  BY <1>2, <1>3, <1>5, <1>6 DEF OrderInv, From, Processed
<1> HIDE DEF D, Q, C, E
<1>11. IsFiniteSet(D \cup Q) /\ Cardinality(D \cup Q) = Cardinality(D) + Cardinality(Q)
  BY <1>4, <1>7, Disjoint
<1>12. IsFiniteSet(D \cup Q \cup C) /\ Cardinality(D \cup Q \cup C) = Cardinality(D) + Cardinality(Q) + Cardinality(C)
  BY <1>4, <1>8, <1>11, Disjoint
<1>13. Cardinality(D \cup Q \cup C \cup E) = Cardinality(D) + Cardinality(Q) + Cardinality(C) + Cardinality(E)
  BY <1>4, <1>9, <1>12, Disjoint
<1> QED  BY <1>1, <1>2, <1>13 DEF D, Q, C, E

LEMMA Drained == IInv => DrainedBeforeReport
<1> SUFFICES ASSUME IInv, finalResult \in {"ok", "overflow"} PROVE Published = taken \ displaced
  BY DEF DrainedBeforeReport
<1>1. /\ verdict \in {"ok", "overflow"} /\ queue = <<>> /\ current = NoMedium /\ pc \in {"notify", "reply", "exited"}
  BY DEF IInv, WorkerPlace
<1>2. QueueTicks(queue) = {} /\ Ticks(current) = {}  BY <1>1 DEF QueueTicks, Ticks, NoMedium
<1>3. taken = displaced \cup Encoded /\ displaced \cap Encoded = {}
  BY <1>1, <1>2 DEF IInv, Accounted, OrderInv
<1>4. \A i \in Indices : content[i] # {} => i \in Ready
 <2> SUFFICES ASSUME NEW i \in Indices, content[i] # {} PROVE row[i] = "READY"  BY DEF Ready
 <2>1. Parts /\ WorkerPlace /\ SegInv /\ RowsMatchFiles /\ SegmentGrows  BY DEF IInv, SegInv
 <2>2. ~segmentOpen  BY <1>1, <2>1 DEF SegmentGrows
 <2>3. i # nextIndex /\ ~(i > nextIndex)  BY <1>1, <2>1, <2>2 DEF SegmentGrows
 <2>4. i \in Nat /\ nextIndex \in Nat  BY <2>1, Newest
 <2>5. i < nextIndex  BY <2>3, <2>4
 <2> QED  BY <2>1, <2>5 DEF RowsMatchFiles
<1>5. Published = Encoded  BY <1>4 DEF Published, Encoded, Ready
<1> QED  BY <1>3, <1>5

-----------------------------------------------------------------------------

LEMMA InitInv == Init => IInv
<1> SUFFICES ASSUME Init PROVE IInv  OBVIOUS
<1>1. Horizon \in Nat /\ Indices \subseteq Nat /\ 0 \in Indices  BY Numbers DEF Indices
<1>2. Parts
  BY <1>1 DEF Init, ControlPart, QueuePart, ReplyPart, Verdicts, WorkPart, SegmentPart, Places,
    Current, NoMedium, RowPart, Rows, Statuses, Spans, Contents, Parts
<1>3. WorkerPlace /\ Told
 <2>1. /\ state = "Idle" /\ pc = "none" /\ stopRequested = FALSE /\ verdict = "none" /\ finalResult = "none" /\ current = NoMedium
       /\ inputError = "none" /\ observer = FALSE /\ observed = <<>> /\ answer = [c \in Callers |-> "none"]
   BY DEF Init
 <2>2. Told  BY <2>1 DEF Told
 <2>3. ((state = "Idle") = (pc = "none")) /\ ((state = "Stopped") = (pc \in {"notify", "reply", "exited"}))
   BY <2>1
 <2>4. stopRequested = (state \in {"Stopping", "Stopped"})
  <3>1. (state \in {"Stopping", "Stopped"}) = FALSE  BY <2>1
  <3> QED  BY <2>1, <3>1, Zenon
 <2>5. (verdict # "none") = (pc \in {"complete", "notify", "reply", "exited"})  BY <2>1
 <2>6. /\ pc = "finish" \/ verdict \in {"ok", "overflow"} => stopRequested /\ queue = <<>>
       /\ finalResult = IF state = "Stopped" THEN verdict ELSE "none"
       /\ pc = "process" => current.frames > 0
       /\ pc \notin {"process", "fail"} => current = NoMedium
   BY <2>1
 <2>7. /\ inputError = "failed" => verdict = "failed"
       /\ observer => registered
       /\ observed # <<>> => registered /\ state = "Stopped" /\ pc # "notify"
       /\ pc = "notify" => registered
   BY <2>1
 <2> QED  BY <2>2, <2>3, <2>4, <2>5, <2>6, <2>7 DEF WorkerPlace
<1>4. Encoded = {} /\ QueueTicks(queue) = {} /\ Ticks(current) = {} /\ Ready = {}
  BY DEF Init, Encoded, QueueTicks, Ticks, NoMedium, Ready
<1>5. OrderInv /\ Accounted
  BY <1>4 DEF Init, OrderInv, Accounted, Ordered, From, Displaced, Processed, NoMedium
<1>6. SegInv  BY <1>1, <1>4 DEF Init, SegInv, SegmentsPartitionTime, RowsMatchFiles, SegmentGrows
<1> QED  BY <1>2, <1>3, <1>5, <1>6 DEF IInv

\* The inductive invariant: the types, where the worker is and what was told, the order of
\* media and where they are, and the segments; each step preserves each of the four, with
\* the help of the others.
LEMMA Inductive == Spec => []IInv
<1>1. IInv /\ [Next]_vars => IInv'  BY TypesStep, VerdictStep, PlacesStep, SegmentStep DEF IInv
<1> QED  BY InitInv, <1>1, PTL DEF Spec

\* Every variable of a recorder keeps its type; in particular there is an index for every
\* segment that is begun (SegmentName and the tables of AsyncTrackRecorder and
\* DurableSegmentPublisher).
THEOREM TrackTypes == Spec => []TypeOK
<1>1. IInv => TypeOK  BY TypesAre DEF IInv
<1> QED  BY Inductive, <1>1, PTL

\* Media that accept() took are never lost silently, whatever the capacity, the blocks and
\* the callers: until something fails every tick is displaced, queued, being processed or
\* encoded, in one place and in order; and a recorder that reports success has published
\* all of it (push, run and complete of AsyncTrackRecorder).
THEOREM NothingIsLost == Spec => []MediaKept
<1>1. IInv => MediaKept  BY InOrder, Counted, Drained DEF IInv, MediaKept
<1> QED  BY Inductive, <1>1, PTL

\* What is READY partitions the time of the recording on the grid of the segments, and rows
\* and files tell the same story whatever failed (ensureSegment, finishSegment and
\* DurableSegmentPublisher).
THEOREM SegmentsCorrect == Spec => []SegmentsInv
<1>1. IInv => SegmentsInv  BY DEF IInv, SegInv, SegmentsInv
<1> QED  BY Inductive, <1>1, PTL

\* Every caller of stopAsync and the observer are told the same result, the observer once
\* (complete() and its callbacks outside the lock).
THEOREM ToldTheSame == Spec => []OneVerdict
<1>1. IInv => OneVerdict  BY VerdictIs DEF IInv
<1> QED  BY Inductive, <1>1, PTL
=============================================================================
