------------------------------ MODULE EditingAids ------------------------------
(***************************************************************************)
(* The analyzers that propose edits from recorded material:                *)
(*   autozoom        where to zoom in, from cursor moves and clicks;       *)
(*   cursor_emphasis which clicks to mark and when to hide an idle cursor; *)
(*   cut_suggest     silences of the sound and filler words of a           *)
(*                   transcript, merged into one list of cuts.             *)
(* They are pure: the state is the material recorded so far, and what they *)
(* answer are operators of it.  Times are ticks; a cursor position is one  *)
(* coordinate; a frame of sound is its amplitude; a word is a token that   *)
(* was recognised surely or not.                                           *)
(***************************************************************************)
EXTENDS Integers, FiniteSetsExt, SequencesExt

CONSTANTS
    Times, Positions,      \* of cursor samples
    ClickTimes,            \* of clicks
    MaxMoves, MaxClicks,   \* bounds on the cursor streams
    FocusRadius, MinDwell, ZoomGap,   \* AutoZoomParameters
    MoveRadius, IdleTime,  \* EmphasisPlanParameters
    Amplitudes,            \* of frames of sound
    WindowFrames, MinSilence, Loudness,   \* silence: window, shortest run, threshold squared
    Fillers,               \* the lexicon: sequences of tokens
    Speech,                \* segments of transcripts [at, len, words]
    MaxSound               \* bound on frames and segments together, a segment counting double

ASSUME AidsAssumption ==
    /\ {MaxMoves, MaxClicks, ZoomGap, MoveRadius, Loudness, MaxSound} \subseteq Nat
    /\ {FocusRadius, MinDwell, IdleTime, WindowFrames, MinSilence} \subseteq Nat \ {0}

VARIABLES
    moves,     \* cursor samples [at, x], in the order they came
    clicks,    \* times of clicks
    frames,    \* amplitudes of the sound
    transcript   \* the transcript

aidsVars == <<moves, clicks, frames, transcript>>

Sorted(times) == \A i \in 2 .. Len(times) : times[i - 1] <= times[i]
MoveTimes == [i \in DOMAIN moves |-> moves[i].at]
Far(a, b) == IF a < b THEN b - a ELSE a - b

\* Both sweeps over the samples cut them into runs: a run ends before the first sample
\* that leaves it.  Leaves(f, i): sample i leaves the run that begins with sample f.
Runs(Leaves(_, _)) ==
    LET n == Len(moves)
        starts == FoldLeft(LAMBDA s, i : IF i > 1 /\ Leaves(Last(s), i) THEN Append(s, i) ELSE s,
                           <<1>>, [i \in 1 .. n |-> i])
    IN  IF n = 0 THEN <<>>
        ELSE [k \in DOMAIN starts |->
                 [first |-> starts[k], last |-> IF k < Len(starts) THEN starts[k + 1] - 1 ELSE n]]
From(run) == moves[run.first].at
To(run) == moves[run.last].at

----------------------------------------------------------------------------
(* AutoZoomAnalyzer                                                        *)

\* Sums instead of centroids: x is compared with Sum / count by comparing x * count.
SumOf(first, last) == MapThenSumSet(LAMBDA i : moves[i].x, first .. last)
Roams(first, i) ==
    Far(moves[i].x * (i - first), SumOf(first, i - 1)) > FocusRadius * (i - first)
Dwells == Runs(Roams)

ClicksIn(d) == Cardinality({k \in DOMAIN clicks : clicks[k] >= From(d) /\ clicks[k] <= To(d)})
Qualifies(d) ==
    To(d) > From(d) /\ (To(d) - From(d) >= MinDwell \/ ClicksIn(d) >= 2)

\* How closely the samples keep to the centroid, as a fraction.
Tightness(d) ==
    LET count == d.last - d.first + 1
        spread == Max({Far(moves[i].x * count, SumOf(d.first, d.last)) : i \in d.first .. d.last})
    IN  [num |-> Max({0, FocusRadius * count - spread}), den |-> FocusRadius * count]

\* Half for the length, three tenths for the tightness, two tenths for clicks of 0.15 each.
Score(d) ==
    LET long == Min({To(d) - From(d), 2 * MinDwell})
        tight == Tightness(d)
    IN  [num |-> 100 * long * tight.den + 60 * tight.num * 2 * MinDwell
                   + 2 * Min({20, 3 * ClicksIn(d)}) * 2 * MinDwell * tight.den,
         den |-> 200 * 2 * MinDwell * tight.den]
NotBelow(a, b) == a.num * b.den >= b.num * a.den

\* Mutant: candidates exactly ZoomGap apart are merged too.
MergeWithin(zooms, d) ==
    LET last == Last(zooms)
        stronger == IF NotBelow(Score(d), last.score) THEN d ELSE last.region
        one == [from |-> From(d), to |-> To(d), region |-> d, score |-> Score(d)]
    IN  IF zooms # <<>> /\ From(d) - last.to <= ZoomGap
        THEN Append(Front(zooms), [from |-> last.from, to |-> To(d), region |-> stronger,
                                   score |-> Score(stronger)])
        ELSE Append(zooms, one)

\* Candidates closer than ZoomGap become one with the stronger region, the later of equals.
Merge(zooms, d) ==
    LET last == Last(zooms)
        stronger == IF NotBelow(Score(d), last.score) THEN d ELSE last.region
        one == [from |-> From(d), to |-> To(d), region |-> d, score |-> Score(d)]
    IN  IF zooms # <<>> /\ From(d) - last.to < ZoomGap
        THEN Append(Front(zooms), [from |-> last.from, to |-> To(d), region |-> stronger,
                                   score |-> Score(stronger)])
        ELSE Append(zooms, one)

\* analyze: a set, empty when a stream is refused as not sorted.
Zooms ==
    IF Sorted(MoveTimes) /\ Sorted(clicks)
    THEN {FoldLeft(Merge, <<>>, SelectSeq(Dwells, Qualifies))} ELSE {}

----------------------------------------------------------------------------
(* EmphasisPlanner                                                         *)

Moved(first, i) == Far(moves[i].x, moves[first].x) > MoveRadius
IdleRuns == SelectSeq(Runs(Moved), LAMBDA r : To(r) - From(r) >= IdleTime)

\* EmphasisPlan::create: marks in order, hide spans that do not overlap.
AcceptedPlan(marks, hidden) ==
    Sorted(marks) /\ \A k \in 2 .. Len(hidden) : From(hidden[k]) >= To(hidden[k - 1])

EmphasisPlans ==
    IF Sorted(MoveTimes) /\ Sorted(clicks) /\ AcceptedPlan(clicks, IdleRuns)
    THEN {[marks |-> clicks, hidden |-> IdleRuns]} ELSE {}

----------------------------------------------------------------------------
(* SilenceDetector                                                         *)

WindowCount == (Len(frames) + WindowFrames - 1) \div WindowFrames
WindowEnd(w) == Min({w * WindowFrames, Len(frames)})
Window(w) == ((w - 1) * WindowFrames + 1) .. WindowEnd(w)

\* The mean square of the window is below the threshold's.
Silent(w) ==
    MapThenSumSet(LAMBDA i : frames[i] * frames[i], Window(w)) < Loudness * Cardinality(Window(w))

\* One silent run is open at most; it is kept if it is long enough when it ends.
Flush(s) ==
    [open |-> <<>>,
     found |-> IF s.open # <<>> /\ s.open[2] - s.open[1] >= MinSilence
               THEN Append(s.found, [at |-> s.open[1], end |-> s.open[2], reason |-> "silence"])
               ELSE s.found]
Sweep(s, w) ==
    IF ~Silent(w) THEN Flush(s)
    ELSE [s EXCEPT !.open = <<IF @ = <<>> THEN (w - 1) * WindowFrames ELSE @[1], WindowEnd(w)>>]
Silences ==
    Flush(FoldLeft(Sweep, [open |-> <<>>, found |-> <<>>], [w \in 1 .. WindowCount |-> w])).found

----------------------------------------------------------------------------
(* Transcript and FillerDetector                                           *)

\* TranscriptSegment::create: words inside the segment, in order, without overlap.
SoundSegment(s) ==
    \A i \in DOMAIN s.words :
        /\ s.words[i].at >= s.at /\ s.words[i].at + s.words[i].len <= s.at + s.len
        /\ i > 1 => s.words[i].at >= s.words[i - 1].at + s.words[i - 1].len

\* Transcript::create: segments in order without overlap.
Follows(s) == transcript # <<>> => s.at >= Last(transcript).at + Last(transcript).len

Words == FlattenSeq([i \in DOMAIN transcript |-> transcript[i].words])

\* The longest sure phrase of the lexicon that begins with word i, 0 if there is none.
PhraseAt(words, i) ==
    Max({0} \cup {n \in 1 .. Len(words) - i + 1 :
                     /\ [k \in 1 .. n |-> words[i + k - 1].token] \in Fillers
                     /\ \A k \in 1 .. n : words[i + k - 1].sure})

TakePhrase(words, s, i) ==
    LET n == PhraseAt(words, i)
    IN  IF i < s.next \/ n = 0 THEN s
        ELSE [next |-> i + n,
              found |-> Append(s.found, [at |-> words[i].at, first |-> i, last |-> i + n - 1,
                                         end |-> words[i + n - 1].at + words[i + n - 1].len,
                                         reason |-> "filler"])]

\* detect: a set, empty when the words are refused as not sorted.
FillersIn(words) ==
    IF Sorted([i \in DOMAIN words |-> words[i].at])
    THEN {FoldLeft(LAMBDA s, i : TakePhrase(words, s, i), [next |-> 1, found |-> <<>>],
                   [i \in DOMAIN words |-> i]).found}
    ELSE {}

----------------------------------------------------------------------------
(* CutSuggestionAnalyzer: one stable sort by start, fillers first.         *)

Earlier(a, b) == a.at < b.at \/ (a.at = b.at /\ a.reason = "filler" /\ b.reason = "silence")
InsertCut(list, c) ==
    LET n == Cardinality({i \in DOMAIN list : ~Earlier(c, list[i])})
    IN  SubSeq(list, 1, n) \o <<c>> \o SubSeq(list, n + 1, Len(list))
CutSuggestions == {FoldLeft(InsertCut, <<>>, Silences \o f) : f \in FillersIn(Words)}

----------------------------------------------------------------------------
(* The material: one more sample, click, frame or segment.                 *)

AidsInit == moves = <<>> /\ clicks = <<>> /\ frames = <<>> /\ transcript = <<>>

NoSound == frames = <<>> /\ transcript = <<>>
Sample ==
    /\ NoSound /\ Len(moves) < MaxMoves /\ Sorted(MoveTimes)
    /\ \E t \in Times, x \in Positions : moves' = Append(moves, [at |-> t, x |-> x])
    /\ UNCHANGED <<clicks, frames, transcript>>
Click ==
    /\ NoSound /\ Len(clicks) < MaxClicks
    /\ \E t \in ClickTimes : clicks' = Append(clicks, t)
    /\ UNCHANGED <<moves, frames, transcript>>

Still == moves = <<>> /\ clicks = <<>>
Room == MaxSound - Len(frames) - 2 * Len(transcript)
Hear ==
    /\ Still /\ Room >= 1
    /\ \E a \in Amplitudes : frames' = Append(frames, a)
    /\ UNCHANGED <<moves, clicks, transcript>>
Transcribe ==
    /\ Still /\ Room >= 2
    /\ \E s \in Speech : /\ SoundSegment(s) /\ Follows(s)
                         /\ transcript' = Append(transcript, s)
    /\ UNCHANGED <<moves, clicks, frames>>

AidsNext == Sample \/ Click \/ Hear \/ Transcribe

----------------------------------------------------------------------------
(* Properties                                                              *)

AidsTypeOK ==
    /\ moves \in Seq([at : Times, x : Positions]) /\ clicks \in Seq(ClickTimes)
    /\ frames \in Seq(Amplitudes) /\ (transcript = <<>> \/ transcript \in Seq(Speech))

\* AutoZoomAnalyzer.h: zooms are "always ordered and strictly non-overlapping" and never
\* closer than the gap; a dwell that is long enough or clicked is in one of them, and each is
\* such dwells without a larger gap, shown by the best of them.
ZoomsAreApart ==
    \A zooms \in Zooms :
        LET good == {d \in ToSet(Dwells) : Qualifies(d)}
            inside(z) == {d \in good : z.from <= From(d) /\ To(d) <= z.to}
        IN  /\ \A k \in 2 .. Len(zooms) : zooms[k].from - zooms[k - 1].to >= ZoomGap
            /\ \A d \in good : Cardinality({k \in DOMAIN zooms : d \in inside(zooms[k])}) = 1
            /\ \A z \in ToSet(zooms) :
                  /\ z.region \in inside(z)
                  /\ \A d \in inside(z) : NotBelow(Score(z.region), Score(d))
                  /\ z.from = Min({From(d) : d \in inside(z)}) /\ z.to = Max({To(d) : d \in inside(z)})
                  /\ \A d \in inside(z) :
                        To(d) < z.to => \E e \in inside(z) : From(e) >= To(d) /\ From(e) - To(d) < ZoomGap

\* EmphasisPlanner: no plan is refused whose streams are sorted, and while the cursor is
\* hidden no sample is further than the radius from where it came to rest.
HiddenMeansStill ==
    /\ Sorted(MoveTimes) /\ Sorted(clicks) => EmphasisPlans # {}
    /\ \A plan \in EmphasisPlans : \A r \in ToSet(plan.hidden) : \A i \in DOMAIN moves :
          From(r) < moves[i].at /\ moves[i].at < To(r) => Far(moves[i].x, moves[r.first].x) <= MoveRadius

\* SilenceDetector: the silences are exactly the longest runs of silent windows that last.
SilencesAreMaximal ==
    LET quiet(a, b) == /\ \A w \in a .. b : Silent(w)
                       /\ (a > 1 => ~Silent(a - 1)) /\ (b < WindowCount => ~Silent(b + 1))
        runs == {p \in (1 .. WindowCount) \X (1 .. WindowCount) : p[1] <= p[2] /\ quiet(p[1], p[2])}
        spans == {<<(p[1] - 1) * WindowFrames, WindowEnd(p[2])>> : p \in runs}
    IN  {<<s.at, s.end>> : s \in ToSet(Silences)} = {p \in spans : p[2] - p[1] >= MinSilence}

\* FillerDetector: the words of an accepted transcript are never refused; no word is in two
\* fillers, and no sure phrase of the lexicon is left that touches none of them.
FillersAreMaximal ==
    /\ FillersIn(Words) # {}
    /\ \A found \in FillersIn(Words) :
          /\ \A k \in 2 .. Len(found) : found[k].first > found[k - 1].last
          /\ \A i \in DOMAIN Words : \A n \in 1 .. Len(Words) - i + 1 :
                /\ [k \in 1 .. n |-> Words[i + k - 1].token] \in Fillers
                /\ \A k \in 1 .. n : Words[i + k - 1].sure
                => \E f \in ToSet(found) : f.first <= i + n - 1 /\ i <= f.last

\* CutSuggestionAnalyzer: all silences and fillers and nothing else, by start, and cuts of
\* one reason never overlap.
CutsAreOrdered ==
    \A cuts \in CutSuggestions : \A found \in FillersIn(Words) :
        /\ ToSet(cuts) = ToSet(Silences) \cup ToSet(found)
        /\ Len(cuts) = Len(Silences) + Len(found)
        /\ \A i, j \in DOMAIN cuts : i < j =>
              /\ ~Earlier(cuts[j], cuts[i])
              /\ cuts[i].reason = cuts[j].reason => cuts[i].end <= cuts[j].at

\* What the analyzers propose can be edited: nothing is proposed twice, nothing is missed.
AidsInv ==
    ZoomsAreApart /\ HiddenMeansStill /\ SilencesAreMaximal /\ FillersAreMaximal /\ CutsAreOrdered
=============================================================================
