---------------------------- MODULE SpeechGroups ----------------------------
(***************************************************************************)
(* interval.go: InvertAndExpand, which turns the silences of a recording   *)
(* into padded speech intervals, and GroupIntervalsByMaxSpan, which packs  *)
(* these into groups of bounded span, as SplitWAVBySilenceGroups calls     *)
(* them one after the other.  One step is one iteration of a loop.  Time   *)
(* is counted in ticks; Eps is the microsecond of tolerance.               *)
(***************************************************************************)
EXTENDS Integers, Sequences, FiniteSets

CONSTANTS
  Inputs,            \* the inputs to consider: see InputsAssumption
  Eps,               \* eps of GroupIntervalsByMaxSpan
  DefaultMinSpeech,  \* 20 milliseconds
  DefaultMaxLength   \* DefaultMaxSegmentLength

Intervals == [start : Nat, end : Nat]

\* Silences come sorted from the sort at interval.go:37, in any order among
\* those that start together.
SortedByStart(s) == \A j, k \in DOMAIN s : j < k => s[j].start <= s[k].start

ASSUME InputsAssumption ==
  /\ Eps \in Nat
  /\ DefaultMinSpeech \in Nat \ {0} /\ DefaultMaxLength \in Nat \ {0}
  /\ Inputs \subseteq [silences : Seq(Intervals), duration : Int, padding : Nat,
                       minSpeech : Int, maxLength : Int]
  /\ \A in \in Inputs : SortedByStart(in.silences)

VARIABLES
  input,        \* the arguments
  phase,        \* the loop that runs
  at,           \* its index
  prev,         \* where the last silence ended
  nonSilent,    \* the gaps between silences
  expanded,     \* the gaps, padded and merged
  filtered,     \* those that are long enough: the result of InvertAndExpand
  cur,          \* the group being filled
  segmentStart, \* where it starts
  pieceStart,   \* start of the loop that splits a long interval
  groups        \* the result of GroupIntervalsByMaxSpan

vars == <<input, phase, at, prev, nonSilent, expanded, filtered, cur, segmentStart,
          pieceStart, groups>>

Smaller(a, b) == IF a < b THEN a ELSE b
Larger(a, b)  == IF a > b THEN a ELSE b

\* Interval.Duration
Duration(iv) == IF iv.end <= iv.start THEN 0 ELSE iv.end - iv.start
Last(s) == s[Len(s)]

MinSpeech == IF input.minSpeech <= 0 THEN DefaultMinSpeech ELSE input.minSpeech
MaxLength == IF input.maxLength <= 0 THEN DefaultMaxLength ELSE input.maxLength

Init ==
  /\ input \in Inputs
  /\ phase = "invert"
  /\ at = 1
  /\ prev = 0
  /\ nonSilent = <<>> /\ expanded = <<>> /\ filtered = <<>>
  /\ cur = <<>> /\ segmentStart = 0 /\ pieceStart = 0
  /\ groups = <<>>

\* The next iteration of the loop over s, or the loop p after its last one.
NextOf(s) == at <= Len(s) /\ at' = at + 1 /\ UNCHANGED phase
Continue(s, p) == at > Len(s) /\ at' = 1 /\ phase' = p

-----------------------------------------------------------------------------
(***************************************************************************)
(* InvertAndExpand.                                                        *)
(***************************************************************************)
\* A recording without a positive duration has no intervals.
NoDuration ==
  /\ phase = "invert" /\ input.duration <= 0
  /\ phase' = "group"
  /\ UNCHANGED <<input, at, prev, nonSilent, expanded, filtered, cur, segmentStart,
                 pieceStart, groups>>

Gap(end) == IF end > prev THEN Append(nonSilent, [start |-> prev, end |-> end])
                          ELSE nonSilent

\* A faulty variant: a silence inside an earlier one moves prev back.
AfterSilenceBack(silence) == silence.end

AfterSilence(silence) == Larger(prev, silence.end)

Invert ==
  /\ phase = "invert" /\ input.duration > 0
  /\ NextOf(input.silences)
  /\ LET silence == input.silences[at]
     IN  nonSilent' = Gap(silence.start) /\ prev' = AfterSilence(silence)
  /\ UNCHANGED <<input, expanded, filtered, cur, segmentStart, pieceStart, groups>>

\* What follows the last silence.
InvertEnd ==
  /\ phase = "invert" /\ input.duration > 0
  /\ Continue(input.silences, "expand")
  /\ nonSilent' = Gap(input.duration)
  /\ UNCHANGED <<input, prev, expanded, filtered, cur, segmentStart, pieceStart, groups>>

\* The interval that overlaps or touches iv extends to the end of iv.
Joined(iv) == [expanded EXCEPT ![Len(expanded)].end = Larger(@, iv.end)]

\* A faulty variant: the end is not clipped to the recording.
PaddedPastEnd(gap) == [start |-> Larger(0, gap.start - input.padding),
                       end   |-> gap.end + input.padding]

Padded(gap) == [start |-> Larger(0, gap.start - input.padding),
                end   |-> Smaller(input.duration, gap.end + input.padding)]

Expand ==
  /\ phase = "expand"
  /\ NextOf(nonSilent)
  /\ LET padded == Padded(nonSilent[at])
     IN  expanded' = IF expanded = <<>> \/ padded.start > Last(expanded).end
                     THEN Append(expanded, padded)
                     ELSE Joined(padded)
  /\ UNCHANGED <<input, prev, nonSilent, filtered, cur, segmentStart, pieceStart, groups>>

ExpandEnd ==
  /\ phase = "expand"
  /\ Continue(nonSilent, "filter")
  /\ UNCHANGED <<input, prev, nonSilent, expanded, filtered, cur, segmentStart,
                 pieceStart, groups>>

Filter ==
  /\ phase = "filter"
  /\ NextOf(expanded)
  /\ filtered' = IF Duration(expanded[at]) >= MinSpeech
                 THEN Append(filtered, expanded[at]) ELSE filtered
  /\ UNCHANGED <<input, prev, nonSilent, expanded, cur, segmentStart, pieceStart, groups>>

FilterEnd ==
  /\ phase = "filter"
  /\ Continue(expanded, "group")
  /\ UNCHANGED <<input, prev, nonSilent, expanded, filtered, cur, segmentStart,
                 pieceStart, groups>>

-----------------------------------------------------------------------------
(***************************************************************************)
(* GroupIntervalsByMaxSpan.                                                *)
(***************************************************************************)
Grouping == phase = "group" /\ at <= Len(filtered)
iv == filtered[at]

Limit == MaxLength + Eps

\* groups after flush().
Flushed == IF cur = <<>> THEN groups ELSE Append(groups, cur)

\* An interval that exceeds the limit by itself: flush, then cut it up.
SplitBegin ==
  /\ Grouping /\ Duration(iv) > Limit
  /\ groups' = Flushed
  /\ cur' = <<>> /\ segmentStart' = (IF cur = <<>> THEN segmentStart ELSE 0)
  /\ pieceStart' = iv.start
  /\ phase' = "split"
  /\ UNCHANGED <<input, at, prev, nonSilent, expanded, filtered>>

PieceStep == MaxLength

\* A faulty variant: the tolerance is as large as a piece.
PieceLeftCoarse == pieceStart + MaxLength <= iv.end

PieceLeft == pieceStart < iv.end - Eps

SplitPiece ==
  /\ phase = "split" /\ PieceLeft
  /\ groups' = Append(groups, <<[start |-> pieceStart,
                                 end   |-> Smaller(pieceStart + MaxLength, iv.end)]>>)
  /\ pieceStart' = pieceStart + PieceStep
  /\ UNCHANGED <<input, phase, at, prev, nonSilent, expanded, filtered, cur,
                 segmentStart>>

SplitEnd ==
  /\ phase = "split" /\ ~ PieceLeft
  /\ phase' = "group" /\ at' = at + 1
  /\ UNCHANGED <<input, prev, nonSilent, expanded, filtered, cur, segmentStart,
                 pieceStart, groups>>

\* Faulty variants: the span is measured from the end of the group; there is no
\* tolerance.
JoinsLast == iv.end - Last(cur).end <= Limit
JoinsExactly == iv.end - segmentStart <= MaxLength

Joins == iv.end - segmentStart <= Limit

\* An empty interval is skipped; another joins the group, or flushes it and
\* begins the next one.
Group ==
  /\ Grouping /\ Duration(iv) <= Limit
  /\ CASE iv.end <= iv.start  -> UNCHANGED <<cur, segmentStart, groups>>
       [] cur # <<>> /\ Joins  -> cur' = Append(cur, iv) /\ UNCHANGED <<segmentStart, groups>>
       [] OTHER -> cur' = <<iv>> /\ segmentStart' = iv.start /\ groups' = Flushed
  /\ at' = at + 1
  /\ UNCHANGED <<input, phase, prev, nonSilent, expanded, filtered, pieceStart>>

GroupEnd ==
  /\ phase = "group" /\ at > Len(filtered)
  /\ groups' = Flushed
  /\ cur' = <<>> /\ segmentStart' = (IF cur = <<>> THEN segmentStart ELSE 0)
  /\ phase' = "done"
  /\ UNCHANGED <<input, at, prev, nonSilent, expanded, filtered, pieceStart>>

Finished == phase = "done" /\ UNCHANGED vars

Next ==
  \/ NoDuration \/ Invert \/ InvertEnd \/ Expand \/ ExpandEnd \/ Filter \/ FilterEnd
  \/ SplitBegin \/ SplitPiece \/ SplitEnd \/ Group \/ GroupEnd
  \/ Finished

Spec == Init /\ [][Next]_vars

-----------------------------------------------------------------------------
(***************************************************************************)
(* Properties.                                                             *)
(***************************************************************************)
\* Tick t is the time from t to t + 1.
Ticks(v) == v.start .. v.end - 1
Covered(s) == UNION {Ticks(s[k]) : k \in DOMAIN s}
\* A silence may start after the end of the recording; the time before it then
\* counts as speech, and its padding may reach back.
Horizon == (UNION {0 .. input.silences[k].start - 1 : k \in DOMAIN input.silences})
             \cup (0 .. input.duration - 1)
Speech == Horizon \ Covered(input.silences)
Recording == 0 .. input.duration - 1

\* However the silences overlap, the expanded intervals cover the ticks within
\* the padding of a tick that is not silent, and no others.
ExpandedExact ==
  phase = "filter" =>
    Covered(expanded) =
      {t \in Recording : \E s \in Speech :
         s - input.padding <= t /\ t <= s + input.padding}

Apart(s) == \A j, k \in DOMAIN s : j < k => s[j].end < s[k].start

\* The intervals are in order, do not touch, lie in the recording, and none is
\* shorter than the minimum, although they are clipped at both ends.
IntervalsUsable ==
  /\ Apart(filtered)
  /\ \A k \in DOMAIN filtered : /\ Ticks(filtered[k]) \subseteq Recording
                                /\ Duration(filtered[k]) >= MinSpeech

Span(g) == Last(g).end - g[1].start

\* No group spans more than the maximum length, plus the tolerance, and none is
\* empty: every piece takes the loop that splits an interval forward.
SpansBounded ==
  \A k \in DOMAIN groups :
    groups[k] # <<>> /\ 0 < Span(groups[k]) /\ Span(groups[k]) <= Limit

InGroups == UNION {Covered(groups[k]) : k \in DOMAIN groups}

\* No audio is sent twice: the groups come in order and do not overlap, pieces
\* of split intervals included.  And none is lost but the tail of a split
\* interval, and that only when it is within the tolerance.
GroupsCover ==
  /\ \A j, k \in DOMAIN groups : j < k => Last(groups[j]).end <= groups[k][1].start
  /\ phase = "done" =>
       \A k \in DOMAIN filtered :
         Ticks(filtered[k]) \ InGroups \subseteq
           IF Duration(filtered[k]) > Limit
           THEN filtered[k].end - Eps .. filtered[k].end - 1 ELSE {}

\* Ways to cut the intervals into runs that fit the limit; a cut after k is k.
Fits(cuts) ==
  \A j, k \in 1 .. Len(filtered) :
    j <= k /\ (\A c \in cuts : ~ (j <= c /\ c < k)) =>
      filtered[k].end - filtered[j].start <= Limit

\* Taking intervals as long as they fit is optimal: no other way to cut the
\* intervals into groups within the limit needs fewer groups.
FewestGroups ==
  phase = "done" /\ (\A k \in DOMAIN filtered : Duration(filtered[k]) <= Limit) =>
    \A cuts \in SUBSET (1 .. Len(filtered) - 1) :
      Fits(cuts) => Len(groups) <= Cardinality(cuts) + 1
=============================================================================
