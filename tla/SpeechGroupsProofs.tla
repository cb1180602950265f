------------------------- MODULE SpeechGroupsProofs -------------------------
(***************************************************************************)
(* Proofs about SpeechGroups, for any recording, any number of silences,   *)
(* any padding, tolerance and maximum length.  The invariant has one part  *)
(* per loop; what a loop has done is stated tick by tick.                  *)
(***************************************************************************)
EXTENDS SpeechGroups, FiniteSetTheorems, SequenceTheorems, TLAPS

Lies(t, v) == v.start <= t /\ t < v.end
In(t, s)   == \E k \in DOMAIN s : Lies(t, s[k])

Rising(s)    == \A j, k \in DOMAIN s : j <= k => s[j].start <= s[k].start
Real(s)      == \A k \in DOMAIN s : s[k].start < s[k].end
Within(s, d) == \A k \in DOMAIN s : s[k].end <= d

Phases == {"invert", "expand", "filter", "group", "split", "done"}

TypeInv ==
  /\ input \in Inputs /\ phase \in Phases /\ at \in Nat \ {0}
  /\ prev \in Nat /\ segmentStart \in Nat /\ pieceStart \in Nat
  /\ nonSilent \in Seq(Intervals) /\ expanded \in Seq(Intervals)
  /\ filtered \in Seq(Intervals) /\ cur \in Seq(Intervals)
  /\ groups \in Seq(Seq(Intervals))

\* No silence before the n-th holds t, and one of them begins after it.
Heard(t, n) ==
  /\ \E i \in DOMAIN input.silences : i < n /\ t < input.silences[i].start
  /\ \A i \in DOMAIN input.silences : i < n => ~ Lies(t, input.silences[i])

NoGroups == cur = <<>> /\ groups = <<>>

InvertInv ==
  phase = "invert" =>
    /\ NoGroups /\ expanded = <<>> /\ filtered = <<>>
    /\ Rising(nonSilent) /\ Real(nonSilent)
    /\ \A k \in DOMAIN nonSilent : nonSilent[k].start <= prev
    /\ \A i \in DOMAIN input.silences : i < at => input.silences[i].end <= prev
    /\ prev = 0 \/ \E i \in DOMAIN input.silences : i < at /\ input.silences[i].end = prev
    /\ \A t \in Nat : In(t, nonSilent) <=> Heard(t, at)

ExpandInv ==
  phase = "expand" =>
    /\ NoGroups /\ filtered = <<>> /\ input.duration > 0
    /\ Rising(nonSilent) /\ Real(nonSilent)
    /\ \A t \in Nat : In(t, nonSilent) <=> t \in Speech
    /\ Within(expanded, input.duration) /\ Rising(expanded) /\ Apart(expanded)
    /\ \A k \in DOMAIN expanded, m \in DOMAIN nonSilent :
         m >= at => expanded[k].start <= Padded(nonSilent[m]).start
    /\ \A t \in Nat : In(t, expanded) <=>
         \E m \in DOMAIN nonSilent : m < at /\ Lies(t, Padded(nonSilent[m]))

FilterInv ==
  phase = "filter" =>
    /\ NoGroups /\ input.duration > 0
    /\ Within(expanded, input.duration) /\ Apart(expanded)
    /\ \A k \in DOMAIN filtered, m \in DOMAIN expanded :
         m >= at => filtered[k].end < expanded[m].start

\* The result of InvertAndExpand, as far as it is there.
FilteredInv ==
  /\ Apart(filtered) /\ Within(filtered, input.duration)
  /\ \A k \in DOMAIN filtered : filtered[k].end - filtered[k].start >= MinSpeech

\* Full groups, in order; one that lies before x; and a tick that one of them holds.
GroupOK(g)   == g # <<>> /\ 0 < Span(g) /\ Span(g) <= Limit
Ordered(gs)  == /\ \A k \in DOMAIN gs : GroupOK(gs[k])
                /\ \A j, k \in DOMAIN gs : j < k => Last(gs[j]).end <= gs[k][1].start
Before(gs, x) == \A k \in DOMAIN gs : Last(gs[k]).end <= x
Sent(t, gs)   == \E k \in DOMAIN gs : In(t, gs[k])

\* The group being filled lies after the full ones and before what is left.
CurInv ==
  cur # <<>> => /\ segmentStart = cur[1].start
                /\ GroupOK(cur)
                /\ Before(groups, segmentStart)
                /\ \A m \in DOMAIN filtered : m >= at => Last(cur).end <= filtered[m].start

NextInv ==
  \A m \in DOMAIN filtered :
    m > at \/ (m = at /\ phase = "group") => Before(groups, filtered[m].start)

SplitInv ==
  phase = "split" =>
    /\ cur = <<>> /\ at \in DOMAIN filtered /\ Duration(iv) > Limit
    /\ Before(groups, pieceStart) /\ Before(groups, iv.end)
    /\ \A t \in Nat : Lies(t, iv) /\ t < pieceStart => Sent(t, groups)

\* The only ticks that no group has are in the tail of a long interval.
InTail(t, v) == Duration(v) > Limit /\ v.end - Eps <= t

CoverInv ==
  \A m \in DOMAIN filtered : m < at =>
    \A t \in Nat : Lies(t, filtered[m]) =>
      Sent(t, groups) \/ In(t, cur) \/ InTail(t, filtered[m])

\* Two groups that follow each other do not fit into one.
Exceeds(g, h) ==
  \E i, j \in DOMAIN filtered :
    /\ g[1] = filtered[i] /\ h[1] = filtered[j]
    /\ filtered[j].end - filtered[i].start > Limit
Chain(gs) == \A k \in DOMAIN gs : k + 1 \in DOMAIN gs => Exceeds(gs[k], gs[k + 1])

AllFit == \A k \in DOMAIN filtered : Duration(filtered[k]) <= Limit

GreedyInv ==
  AllFit =>
    /\ Chain(groups)
    /\ cur # <<>> => /\ \E j \in DOMAIN filtered : cur[1] = filtered[j]
                     /\ groups # <<>> => Exceeds(Last(groups), cur)
    /\ cur = <<>> /\ phase = "group" => groups = <<>>

GroupInv ==
  phase \in {"group", "split", "done"} =>
    /\ Ordered(groups) /\ CurInv /\ NextInv /\ SplitInv /\ CoverInv /\ GreedyInv
    /\ phase = "done" => cur = <<>> /\ at > Len(filtered)

IInv == /\ TypeInv /\ InvertInv /\ ExpandInv /\ FilterInv /\ FilteredInv /\ GroupInv
        /\ ExpandedExact

-----------------------------------------------------------------------------
(***************************************************************************)
(* Sequences of intervals.                                                 *)
(***************************************************************************)
\* The fields of an interval.
LEMMA IntervalParts ==
  ASSUME NEW v \in Intervals
  PROVE  v.start \in Nat /\ v.end \in Nat
BY DEF Intervals

\* The indices and the elements of a sequence.
LEMMA SeqParts ==
  ASSUME NEW S, NEW s \in Seq(S)
  PROVE  /\ Len(s) \in Nat
         /\ DOMAIN s = 1 .. Len(s)
         /\ \A k \in DOMAIN s : k \in Nat \ {0} /\ k <= Len(s) /\ s[k] \in S
<1>1. Len(s) \in Nat /\ DOMAIN s = 1 .. Len(s)
  BY LenProperties
<1> QED
  BY <1>1, ElementOfSeq

\* A sequence that grew by one element.
LEMMA Grown ==
  ASSUME NEW S, NEW s \in Seq(S), NEW e \in S
  PROVE  /\ Append(s, e) \in Seq(S)
         /\ Append(s, e) # <<>>
         /\ DOMAIN Append(s, e) = DOMAIN s \cup {Len(s) + 1}
         /\ \A k \in DOMAIN s : Append(s, e)[k] = s[k] /\ k < Len(s) + 1
         /\ Append(s, e)[Len(s) + 1] = e
         /\ Last(Append(s, e)) = e
         /\ s # <<>> => 1 \in DOMAIN s /\ Append(s, e)[1] = s[1]
<1>1. Len(s) \in Nat /\ DOMAIN s = 1 .. Len(s)
  BY LenProperties
<1>2. /\ Append(s, e) \in Seq(S)
      /\ Len(Append(s, e)) = Len(s) + 1
      /\ \A k \in 1 .. Len(s) : Append(s, e)[k] = s[k]
      /\ Append(s, e)[Len(s) + 1] = e
  BY AppendProperties
<1>3. DOMAIN Append(s, e) = 1 .. Len(s) + 1
  BY <1>2, LenProperties
<1>4. s # <<>> => Len(s) # 0
  BY EmptySeq
<1>5. Append(s, e) # <<>>
  BY <1>1, <1>2, EmptySeq
<1>6. Last(Append(s, e)) = e
  BY <1>2 DEF Last
<1> QED
  BY <1>1, <1>2, <1>3, <1>4, <1>5, <1>6

\* The first and the last element of a sequence that has some.
LEMMA LastOf ==
  ASSUME NEW S, NEW s \in Seq(S), s # <<>>
  PROVE  /\ Len(s) \in DOMAIN s /\ 1 \in DOMAIN s /\ Last(s) = s[Len(s)] /\ Last(s) \in S
         /\ s[1] \in S
         /\ \A k \in DOMAIN s : k <= Len(s)
<1>1. Len(s) \in Nat \ {0}
  BY EmptySeq
<1> QED
  BY <1>1, SeqParts DEF Last

\* The empty sequence has no index.
LEMMA EmptyParts == DOMAIN <<>> = {} /\ Len(<<>>) = 0
OBVIOUS

\* A sequence of one element.
LEMMA OneParts ==
  ASSUME NEW S, NEW v \in S
  PROVE  /\ <<v>> \in Seq(S) /\ <<v>> # <<>> /\ DOMAIN <<v>> = {1} /\ <<v>>[1] = v
         /\ Last(<<v>>) = v
BY DEF Last

\* What holds of a grown sequence, if it holds of the old one and of the element.
LEMMA InGrown ==
  ASSUME NEW s \in Seq(Intervals), NEW e \in Intervals, NEW t
  PROVE  In(t, Append(s, e)) <=> In(t, s) \/ Lies(t, e)
<1> DEFINE a == Append(s, e)
           n == Len(s) + 1
<1>1. /\ DOMAIN a = DOMAIN s \cup {n} /\ a[n] = e
      /\ \A k \in DOMAIN s : a[k] = s[k]
  BY Grown
<1> HIDE DEF a, n
<1>2. In(t, a) <=> In(t, s) \/ Lies(t, e)
  BY <1>1 DEF In
<1> QED
  BY <1>2 DEF a

\* An element that starts no earlier than the others keeps the starts in order.
LEMMA RisingGrown ==
  ASSUME NEW s \in Seq(Intervals), NEW e \in Intervals, Rising(s),
         \A k \in DOMAIN s : s[k].start <= e.start
  PROVE  Rising(Append(s, e))
<1> DEFINE a == Append(s, e)
           n == Len(s) + 1
<1>1. /\ DOMAIN a = DOMAIN s \cup {n} /\ a[n] = e
      /\ \A k \in DOMAIN s : a[k] = s[k] /\ k < n
  BY Grown
<1>2. n \in Nat /\ \A k \in DOMAIN s : k \in Nat
  BY SeqParts
<1>3. e.start <= e.start
  BY IntervalParts
<1> HIDE DEF a, n
<1>4. \A j, k \in DOMAIN a : j <= k => a[j].start <= a[k].start
  BY <1>1, <1>2, <1>3 DEF Rising
<1> QED
  BY <1>4 DEF Rising, a

\* An element that starts after the others end keeps them apart.
LEMMA ApartGrown ==
  ASSUME NEW s \in Seq(Intervals), NEW e \in Intervals, Apart(s),
         \A k \in DOMAIN s : s[k].end < e.start
  PROVE  Apart(Append(s, e))
<1> DEFINE a == Append(s, e)
           n == Len(s) + 1
<1>1. /\ DOMAIN a = DOMAIN s \cup {n} /\ a[n] = e
      /\ \A k \in DOMAIN s : a[k] = s[k] /\ k < n
  BY Grown
<1>2. n \in Nat /\ \A k \in DOMAIN s : k \in Nat
  BY SeqParts
<1> HIDE DEF a, n
<1>4. \A j, k \in DOMAIN a : j < k => a[j].end < a[k].start
  BY <1>1, <1>2 DEF Apart
<1> QED
  BY <1>4 DEF Apart, a

\* Something that holds of each element.
LEMMA RealGrown ==
  ASSUME NEW s \in Seq(Intervals), NEW e \in Intervals, Real(s), e.start < e.end
  PROVE  Real(Append(s, e))
<1> DEFINE a == Append(s, e)
           n == Len(s) + 1
<1>1. /\ DOMAIN a = DOMAIN s \cup {n} /\ a[n] = e
      /\ \A k \in DOMAIN s : a[k] = s[k]
  BY Grown
<1> HIDE DEF a, n
<1>2. \A k \in DOMAIN a : a[k].start < a[k].end
  BY <1>1 DEF Real
<1> QED
  BY <1>2 DEF Real, a

\* An element that ends in the recording keeps all of them in it.
LEMMA WithinGrown ==
  ASSUME NEW s \in Seq(Intervals), NEW e \in Intervals, NEW d, Within(s, d), e.end <= d
  PROVE  Within(Append(s, e), d)
<1> DEFINE a == Append(s, e)
           n == Len(s) + 1
<1>1. /\ DOMAIN a = DOMAIN s \cup {n} /\ a[n] = e
      /\ \A k \in DOMAIN s : a[k] = s[k]
  BY Grown
<1> HIDE DEF a, n
<1>2. \A k \in DOMAIN a : a[k].end <= d
  BY <1>1 DEF Within
<1> QED
  BY <1>2 DEF Within, a

\* An empty sequence is in order, and no tick lies in it.
LEMMA EmptyIsAll ==
  ASSUME NEW d
  PROVE  /\ Rising(<<>>) /\ Real(<<>>) /\ Within(<<>>, d) /\ Apart(<<>>)
         /\ \A t : ~ In(t, <<>>)
BY EmptyParts, Zenon DEF Rising, Real, Within, Apart, In

\* Covered, as the properties write it, and In, as the invariant does.
LEMMA CoveredIsIn ==
  ASSUME NEW s \in Seq(Intervals), NEW t \in Int
  PROVE  t \in Covered(s) <=> In(t, s)
<1>1. ASSUME NEW k \in DOMAIN s PROVE t \in Ticks(s[k]) <=> Lies(t, s[k])
  <2>1. s[k].start \in Nat /\ s[k].end \in Nat
    BY SeqParts, IntervalParts
  <2> QED
    BY <2>1 DEF Ticks, Lies
<1> QED
  BY <1>1 DEF Covered, In

\* The arguments.
LEMMA InputParts ==
  ASSUME input \in Inputs
  PROVE  /\ input.silences \in Seq(Intervals) /\ SortedByStart(input.silences)
         /\ input.duration \in Int /\ input.padding \in Nat
         /\ Eps \in Nat
         /\ MinSpeech \in Nat \ {0} /\ MaxLength \in Nat \ {0} /\ Limit \in Nat \ {0}
<1>1. /\ input.silences \in Seq(Intervals) /\ SortedByStart(input.silences)
      /\ input.duration \in Int /\ input.padding \in Nat /\ input.minSpeech \in Int
      /\ input.maxLength \in Int
      /\ Eps \in Nat /\ DefaultMinSpeech \in Nat \ {0} /\ DefaultMaxLength \in Nat \ {0}
  BY InputsAssumption
<1>2. MinSpeech \in Nat \ {0} /\ MaxLength \in Nat \ {0}
  BY <1>1 DEF MinSpeech, MaxLength
<1>3. Limit \in Nat \ {0}
  BY <1>1, <1>2 DEF Limit
<1> QED
  BY <1>1, <1>2, <1>3

-----------------------------------------------------------------------------
(***************************************************************************)
(* What one iteration of each loop of InvertAndExpand does.                *)
(***************************************************************************)
\* The gap before e adds the ticks from prev to e, and keeps the gaps in order.
LEMMA GapKeeps ==
  ASSUME prev \in Nat, nonSilent \in Seq(Intervals), Rising(nonSilent), Real(nonSilent),
         \A k \in DOMAIN nonSilent : nonSilent[k].start <= prev, NEW e \in Nat
  PROVE  /\ Gap(e) \in Seq(Intervals) /\ Rising(Gap(e)) /\ Real(Gap(e))
         /\ \A k \in DOMAIN Gap(e) : Gap(e)[k].start <= prev
         /\ \A t \in Nat : In(t, Gap(e)) <=> In(t, nonSilent) \/ (prev <= t /\ t < e)
<1>1. CASE e > prev
  <2> DEFINE v == [start |-> prev, end |-> e]
  <2>1. Gap(e) = Append(nonSilent, v)
    BY <1>1 DEF Gap
  <2>2. v \in Intervals /\ v.start = prev /\ v.end = e /\ v.start < v.end
    BY <1>1 DEF Intervals
  <2> HIDE DEF v
  <2>3. Gap(e) \in Seq(Intervals) /\ Rising(Gap(e)) /\ Real(Gap(e))
    BY <2>1, <2>2, Grown, RisingGrown, RealGrown
  <2>4. \A k \in DOMAIN Gap(e) : Gap(e)[k].start <= prev
    <3>1. /\ DOMAIN Gap(e) = DOMAIN nonSilent \cup {Len(nonSilent) + 1}
          /\ \A k \in DOMAIN nonSilent : Gap(e)[k] = nonSilent[k]
          /\ Gap(e)[Len(nonSilent) + 1] = v
      BY <2>1, <2>2, Grown
    <3> QED
      BY <2>2, <3>1
  <2>5. \A t \in Nat : In(t, Gap(e)) <=> In(t, nonSilent) \/ Lies(t, v)
    BY <2>1, <2>2, InGrown
  <2>6. \A t : Lies(t, v) <=> prev <= t /\ t < e
    BY <2>2, Zenon DEF Lies
  <2> QED
    BY <2>3, <2>4, <2>5, <2>6
<1>2. CASE ~ (e > prev)
  BY <1>2 DEF Gap
<1> QED
  BY <1>1, <1>2

\* The time before the next silence is what the loop adds.
LEMMA HeardNext ==
  ASSUME TypeInv, InvertInv, phase = "invert", at \in DOMAIN input.silences, NEW t \in Nat
  PROVE  Heard(t, at + 1) <=>
           Heard(t, at) \/ (prev <= t /\ t < input.silences[at].start)
<1> DEFINE S == input.silences
<1>1. /\ S \in Seq(Intervals) /\ SortedByStart(S)
      /\ at \in Nat /\ prev \in Nat
  BY InputParts DEF TypeInv
<1>2. /\ at \in DOMAIN S
      /\ \A i \in DOMAIN S : i \in Nat /\ S[i].start \in Nat /\ S[i].end \in Nat
  BY <1>1, SeqParts, IntervalParts
<1>3. \A i \in DOMAIN S : i < at => S[i].start <= S[at].start
  BY <1>1 DEF SortedByStart
<1>4. /\ \A i \in DOMAIN S : i < at => S[i].end <= prev
      /\ prev = 0 \/ \E i \in DOMAIN S : i < at /\ S[i].end = prev
  BY DEF InvertInv
<1>h. \A n : Heard(t, n) <=> /\ \E i \in DOMAIN S : i < n /\ t < S[i].start
                             /\ \A i \in DOMAIN S : i < n => ~ Lies(t, S[i])
  BY DEF Heard
<1> HIDE DEF S
<1>5. ASSUME Heard(t, at + 1), ~ Heard(t, at)
      PROVE  prev <= t /\ t < S[at].start
  <2>1. \A i \in DOMAIN S : i < at => ~ Lies(t, S[i]) /\ i < at + 1
    BY <1>1, <1>2, <1>5, <1>h
  <2>2. \A i \in DOMAIN S : i < at => ~ (t < S[i].start)
    BY <1>5, <1>h, <2>1
  <2>3. \A i \in DOMAIN S : i < at => S[i].end <= t
    BY <1>2, <2>1, <2>2 DEF Lies
  <2>4. PICK i \in DOMAIN S : i < at + 1 /\ t < S[i].start
    BY <1>5, <1>h
  <2>5. i = at
    BY <1>1, <1>2, <2>2, <2>4
  <2> QED
    BY <1>1, <1>4, <2>3, <2>4, <2>5
<1>6. ASSUME Heard(t, at) PROVE Heard(t, at + 1)
  <2>1. PICK i \in DOMAIN S : i < at /\ t < S[i].start
    BY <1>6, <1>h
  <2>2. ~ Lies(t, S[at])
    <3>1. S[i].start <= S[at].start /\ S[i].start \in Nat /\ S[at].start \in Nat
      BY <1>2, <1>3, <2>1
    <3> QED
      BY <2>1, <3>1 DEF Lies
  <2>3. \A j \in DOMAIN S : j < at + 1 => j < at \/ j = at
    BY <1>1, <1>2
  <2>4. i < at + 1
    BY <1>1, <1>2, <2>1
  <2> QED
    BY <1>6, <1>h, <2>1, <2>2, <2>3, <2>4
<1>7. ASSUME prev <= t, t < S[at].start PROVE Heard(t, at + 1)
  <2>1. \A j \in DOMAIN S : j < at + 1 => ~ Lies(t, S[j])
    BY <1>1, <1>2, <1>4, <1>7 DEF Lies
  <2>2. at \in DOMAIN S /\ at < at + 1
    BY <1>1 DEF S
  <2> QED
    BY <1>7, <1>h, <2>1, <2>2
<1> QED
  BY <1>5, <1>6, <1>7 DEF S

\* After the last silence there is the rest of the recording.
LEMMA HeardAll ==
  ASSUME TypeInv, InvertInv, phase = "invert", at > Len(input.silences), NEW t \in Nat
  PROVE  t \in Speech <=> Heard(t, at) \/ (prev <= t /\ t < input.duration)
<1> DEFINE S == input.silences
<1>1. /\ S \in Seq(Intervals) /\ input.duration \in Int
      /\ at \in Nat /\ prev \in Nat
  BY InputParts DEF TypeInv
<1>2. \A i \in DOMAIN S : i < at /\ i \in Nat /\ S[i].start \in Nat /\ S[i].end \in Nat
  BY <1>1, SeqParts, IntervalParts
<1>4. /\ \A i \in DOMAIN S : i < at => S[i].end <= prev
      /\ prev = 0 \/ \E i \in DOMAIN S : i < at /\ S[i].end = prev
  BY DEF InvertInv
<1>h. Heard(t, at) <=> /\ \E i \in DOMAIN S : t < S[i].start
                       /\ \A i \in DOMAIN S : ~ Lies(t, S[i])
  BY <1>2 DEF Heard
<1>s. t \in Speech <=> t \in Horizon /\ ~ In(t, S)
  BY <1>1, CoveredIsIn DEF Speech
<1>z. t \in Horizon <=> (\E i \in DOMAIN S : t < S[i].start) \/ t < input.duration
  <2>1. t \in 0 .. input.duration - 1 <=> t < input.duration
    BY <1>1
  <2>2. \A i \in DOMAIN S : t \in 0 .. S[i].start - 1 <=> t < S[i].start
    BY <1>2
  <2> QED
    BY <2>1, <2>2 DEF Horizon
<1>i. In(t, S) <=> \E i \in DOMAIN S : Lies(t, S[i])
  BY DEF In
<1> HIDE DEF S
<1>5. ASSUME t \in Speech, ~ Heard(t, at) PROVE prev <= t /\ t < input.duration
  <2>1. \A i \in DOMAIN S : ~ Lies(t, S[i]) /\ ~ (t < S[i].start)
    BY <1>5, <1>h, <1>s, <1>i
  <2>2. \A i \in DOMAIN S : S[i].end <= t
    BY <1>2, <2>1 DEF Lies
  <2> QED
    BY <1>1, <1>4, <1>5, <1>s, <1>z, <2>1, <2>2
<1>6. ASSUME Heard(t, at) PROVE t \in Speech
  BY <1>6, <1>h, <1>i, <1>s, <1>z
<1>7. ASSUME prev <= t, t < input.duration PROVE t \in Speech
  <2>1. \A i \in DOMAIN S : ~ Lies(t, S[i])
    BY <1>1, <1>2, <1>4, <1>7 DEF Lies
  <2> QED
    BY <1>7, <1>i, <1>s, <1>z, <2>1
<1> QED
  BY <1>5, <1>6, <1>7

\* Ticks are natural numbers.
LEMMA SpeechIsNat ==
  ASSUME input \in Inputs
  PROVE  Speech \subseteq Nat
<1>1. /\ \A i \in DOMAIN input.silences : input.silences[i].start \in Nat
      /\ input.duration \in Int
  BY InputParts, SeqParts, IntervalParts
<1> QED
  BY <1>1 DEF Speech, Horizon

\* A padded gap is an interval that ends in the recording.
LEMMA PaddedParts ==
  ASSUME input \in Inputs, input.duration > 0, NEW gap \in Intervals
  PROVE  /\ Padded(gap) \in Intervals
         /\ Padded(gap).end <= input.duration
         /\ Padded(gap).start = Larger(0, gap.start - input.padding)
         /\ Padded(gap).end = Smaller(input.duration, gap.end + input.padding)
<1>1. input.duration \in Nat /\ input.padding \in Nat
  BY InputParts
<1>2. gap.start \in Nat /\ gap.end \in Nat
  BY IntervalParts
<1>3. /\ Larger(0, gap.start - input.padding) \in Nat
      /\ Smaller(input.duration, gap.end + input.padding) \in Nat
      /\ Smaller(input.duration, gap.end + input.padding) <= input.duration
  BY <1>1, <1>2 DEF Larger, Smaller
<1>4. /\ Padded(gap).start = Larger(0, gap.start - input.padding)
      /\ Padded(gap).end = Smaller(input.duration, gap.end + input.padding)
      /\ Padded(gap) = [start |-> Larger(0, gap.start - input.padding),
                        end |-> Smaller(input.duration, gap.end + input.padding)]
  BY DEF Padded
<1>5. Padded(gap) \in Intervals
  BY <1>3, <1>4, Zenon DEF Intervals
<1> QED
  BY <1>3, <1>4, <1>5

\* Padding keeps the order of the starts, although it clips them at 0.
LEMMA PaddedRises ==
  ASSUME input \in Inputs, input.duration > 0, NEW g \in Intervals, NEW h \in Intervals,
         g.start <= h.start
  PROVE  Padded(g).start <= Padded(h).start
<1>1. g.start \in Nat /\ h.start \in Nat /\ input.padding \in Nat
  BY IntervalParts, InputParts
<1>2. Larger(0, g.start - input.padding) <= Larger(0, h.start - input.padding)
  BY <1>1 DEF Larger
<1> QED
  BY <1>2, PaddedParts

\* A padded gap holds what is within the padding of one of its ticks.
LEMMA PaddedLies ==
  ASSUME input \in Inputs, input.duration > 0, NEW gap \in Intervals, gap.start < gap.end,
         NEW t \in Int
  PROVE  Lies(t, Padded(gap)) <=>
           /\ t \in Recording
           /\ \E s \in Nat : Lies(s, gap) /\ s - input.padding <= t /\ t <= s + input.padding
<1> DEFINE a == gap.start
           b == gap.end
           p == input.padding
           d == input.duration
<1>1. a \in Nat /\ b \in Nat /\ p \in Nat /\ d \in Nat /\ a < b
  BY IntervalParts, InputParts
<1>2. Lies(t, Padded(gap)) <=> Larger(0, a - p) <= t /\ t < Smaller(d, b + p)
  BY PaddedParts DEF Lies
<1>3. t \in Recording <=> 0 <= t /\ t < d
  BY <1>1 DEF Recording
<1>l. \A s : Lies(s, gap) <=> a <= s /\ s < b
  BY DEF Lies
<1> HIDE DEF a, b, p, d
<1>4. Lies(t, Padded(gap)) <=> 0 <= t /\ t < d /\ a - p <= t /\ t < b + p
  BY <1>1, <1>2 DEF Larger, Smaller
<1>5. (\E s \in Nat : a <= s /\ s < b /\ s - p <= t /\ t <= s + p) <=> a - p <= t /\ t < b + p
  <2>1. ASSUME a - p <= t, t < b + p
        PROVE  \E s \in Nat : a <= s /\ s < b /\ s - p <= t /\ t <= s + p
    <3>1. CASE t < a
      BY <1>1, <2>1, <3>1
    <3>2. CASE a <= t /\ t < b
      BY <1>1, <2>1, <3>2
    <3>3. CASE t >= b
      <4>1. b - 1 \in Nat /\ a <= b - 1 /\ b - 1 < b /\ b - 1 - p <= t /\ t <= b - 1 + p
        BY <1>1, <2>1, <3>3
      <4> QED
        BY <4>1
    <3> QED
      BY <1>1, <3>1, <3>2, <3>3
  <2>2. ASSUME NEW s \in Nat, a <= s, s < b, s - p <= t, t <= s + p
        PROVE  a - p <= t /\ t < b + p
    BY <1>1, <2>2
  <2> QED
    BY <2>1, <2>2
<1>6. (\E s \in Nat : Lies(s, gap) /\ s - p <= t /\ t <= s + p) <=>
        (\E s \in Nat : a <= s /\ s < b /\ s - p <= t /\ t <= s + p)
  BY <1>l
<1> QED
  BY <1>3, <1>4, <1>5, <1>6 DEF p

\* Joining extends the last interval by what v adds to it.
LEMMA JoinedKeeps ==
  ASSUME expanded \in Seq(Intervals), expanded # <<>>, NEW d \in Int, NEW v \in Intervals,
         Within(expanded, d), Rising(expanded), Apart(expanded), v.end <= d,
         Last(expanded).start <= v.start, v.start <= Last(expanded).end
  PROVE  /\ Joined(v) \in Seq(Intervals) /\ DOMAIN Joined(v) = DOMAIN expanded
         /\ \A k \in DOMAIN expanded : Joined(v)[k].start = expanded[k].start
         /\ Within(Joined(v), d) /\ Rising(Joined(v)) /\ Apart(Joined(v))
         /\ \A t \in Nat : In(t, Joined(v)) <=> In(t, expanded) \/ Lies(t, v)
<1> DEFINE n == Len(expanded)
           j == Joined(v)
           e == Larger(expanded[n].end, v.end)
           w == [expanded[n] EXCEPT !.end = e]
<1>1. /\ n \in DOMAIN expanded /\ n \in Nat \ {0} /\ Last(expanded) = expanded[n]
      /\ DOMAIN expanded = 1 .. n
      /\ \A k \in DOMAIN expanded : k <= n /\ k \in Nat
  BY LastOf, SeqParts
<1>2. /\ expanded[n] \in Intervals /\ expanded[n].start \in Nat /\ expanded[n].end \in Nat
      /\ v.start \in Nat /\ v.end \in Nat
  BY <1>1, SeqParts, IntervalParts
<1>3. /\ e \in Nat /\ e >= expanded[n].end /\ e >= v.end
      /\ e = expanded[n].end \/ e = v.end
  BY <1>2 DEF Larger
<1>4. w \in Intervals /\ w.start = expanded[n].start /\ w.end = e
  BY <1>2, <1>3 DEF Intervals
<1>5. j = [expanded EXCEPT ![n] = w]
  BY DEF Joined
<1>6. j \in Seq(Intervals) /\ Len(j) = n
  BY <1>1, <1>4, <1>5, ExceptSeq
<1>7. DOMAIN j = DOMAIN expanded
  BY <1>1, <1>6, LenProperties
<1>8. j[n] = w /\ \A k \in DOMAIN expanded : k # n => j[k] = expanded[k]
  BY <1>1, <1>5
<1> HIDE DEF n, j, e, w
<1>9. \A k \in DOMAIN expanded : j[k].start = expanded[k].start
  BY <1>4, <1>8
<1>10. Within(j, d)
  BY <1>1, <1>3, <1>4, <1>7, <1>8 DEF Within
<1>11. Rising(j)
  BY <1>7, <1>9 DEF Rising
<1>12. Apart(j)
  <2>1. ASSUME NEW i \in DOMAIN expanded, NEW k \in DOMAIN expanded, i < k
        PROVE  j[i].end < j[k].start
    <3>1. i # n
      BY <1>1, <2>1
    <3> QED
      BY <1>8, <1>9, <2>1, <3>1 DEF Apart
  <2> QED
    BY <1>7, <2>1 DEF Apart
<1>13. ASSUME NEW t \in Nat
       PROVE  In(t, j) <=> In(t, expanded) \/ Lies(t, v)
  <2>1. Lies(t, w) <=> Lies(t, expanded[n]) \/ Lies(t, v)
    BY <1>1, <1>2, <1>3, <1>4 DEF Lies
  <2>2. In(t, j) => In(t, expanded) \/ Lies(t, v)
    BY <1>1, <1>7, <1>8, <2>1 DEF In
  <2>3. In(t, expanded) => In(t, j)
    BY <1>1, <1>7, <1>8, <2>1 DEF In
  <2>4. Lies(t, v) => In(t, j)
    BY <1>1, <1>7, <1>8, <2>1 DEF In
  <2> QED
    BY <2>2, <2>3, <2>4
<1> QED
  BY <1>6, <1>7, <1>9, <1>10, <1>11, <1>12, <1>13 DEF j

-----------------------------------------------------------------------------
(***************************************************************************)
(* The steps of InvertAndExpand.                                           *)
(***************************************************************************)
\* The parts of the type invariant that the steps cite.
LEMMA TypeParts ==
  ASSUME TypeInv
  PROVE  /\ input \in Inputs /\ at \in Nat /\ at # 0 /\ prev \in Nat
         /\ input.silences \in Seq(Intervals) /\ nonSilent \in Seq(Intervals)
         /\ expanded \in Seq(Intervals) /\ filtered \in Seq(Intervals)
         /\ cur \in Seq(Intervals) /\ groups \in Seq(Seq(Intervals))
         /\ segmentStart \in Nat /\ pieceStart \in Nat
BY InputParts DEF TypeInv

\* The empty sequence is a sequence of intervals, and one of groups.
LEMMA EmptyTypes == <<>> \in Seq(Intervals) /\ <<>> \in Seq(Seq(Intervals))
OBVIOUS

\* A loop that begins where there is nothing grouped.
LEMMA GroupBegins ==
  ASSUME phase' = "group", cur' = <<>>, groups' = <<>>, at' \in Nat,
         \A m \in DOMAIN filtered' : m \in Nat /\ ~ (m < at')
  PROVE  GroupInv'
<1>1. Ordered(groups)'
  BY EmptyParts DEF Ordered
<1>2. CurInv'
  BY DEF CurInv
<1>3. NextInv'
  BY EmptyParts DEF NextInv, Before
<1>4. SplitInv'
  BY DEF SplitInv
<1>5. CoverInv'
  BY DEF CoverInv
<1>6. GreedyInv'
  BY EmptyParts DEF GreedyInv, Chain
<1> QED
  BY <1>1, <1>2, <1>3, <1>4, <1>5, <1>6 DEF GroupInv

\* No silence has been read.
LEMMA InitOK == Init => IInv
<1> SUFFICES ASSUME Init PROVE IInv
  OBVIOUS
<1>1. /\ input \in Inputs /\ phase = "invert" /\ at = 1 /\ prev = 0
      /\ nonSilent = <<>> /\ expanded = <<>> /\ filtered = <<>>
      /\ cur = <<>> /\ segmentStart = 0 /\ pieceStart = 0 /\ groups = <<>>
  BY DEF Init
<1>2. TypeInv
  BY <1>1, EmptyTypes DEF TypeInv, Phases
<1>3. InvertInv
  <2>1. \A i \in DOMAIN input.silences : ~ (i < at)
    BY <1>1, InputParts, SeqParts
  <2>2. \A t \in Nat : ~ Heard(t, at)
    BY <2>1 DEF Heard
  <2>3. \A t \in Nat : ~ In(t, nonSilent)
    BY <1>1, EmptyIsAll
  <2>4. Rising(nonSilent) /\ Real(nonSilent) /\ DOMAIN nonSilent = {}
    BY <1>1, EmptyIsAll, EmptyParts
  <2> QED
    BY <1>1, <2>1, <2>2, <2>3, <2>4 DEF InvertInv, NoGroups
<1>4. FilteredInv
  <2>1. Apart(filtered) /\ Within(filtered, input.duration) /\ DOMAIN filtered = {}
    BY <1>1, EmptyIsAll, EmptyParts
  <2> QED
    BY <2>1 DEF FilteredInv
<1> QED
  BY <1>1, <1>2, <1>3, <1>4 DEF IInv, ExpandInv, FilterInv, GroupInv, ExpandedExact

\* An empty recording goes to the grouping with nothing to group.
LEMMA NoDurationOK == IInv /\ NoDuration => IInv'
<1> SUFFICES ASSUME IInv, NoDuration PROVE IInv'
  OBVIOUS
<1>1. /\ phase = "invert" /\ phase' = "group"
      /\ input' = input /\ at' = at /\ prev' = prev /\ nonSilent' = nonSilent
      /\ expanded' = expanded /\ filtered' = filtered /\ cur' = cur
      /\ segmentStart' = segmentStart /\ pieceStart' = pieceStart /\ groups' = groups
  BY DEF NoDuration
<1>2. TypeInv /\ InvertInv /\ FilteredInv
  BY DEF IInv
<1>3. cur = <<>> /\ groups = <<>> /\ filtered = <<>>
  BY <1>1, <1>2 DEF InvertInv, NoGroups
<1>4. TypeInv'
  BY <1>1, <1>2 DEF TypeInv, Phases
<1>5. FilteredInv'
  BY <1>1, <1>2 DEF FilteredInv, MinSpeech
<1>6. GroupInv'
  BY <1>1, <1>3, EmptyParts, TypeParts, <1>2, GroupBegins
<1> QED
  BY <1>1, <1>4, <1>5, <1>6 DEF IInv, InvertInv, ExpandInv, FilterInv, ExpandedExact

\* A silence adds the gap before it: what HeardNext says.
LEMMA InvertOK == IInv /\ Invert => IInv'
<1> SUFFICES ASSUME IInv, Invert PROVE IInv'
  OBVIOUS
<1> DEFINE S == input.silences
           v == input.silences[at]
<1>1. /\ phase = "invert" /\ phase' = phase /\ at <= Len(input.silences) /\ at' = at + 1
      /\ input' = input /\ nonSilent' = Gap(v.start) /\ prev' = Larger(prev, v.end)
      /\ expanded' = expanded /\ filtered' = filtered /\ cur' = cur
      /\ segmentStart' = segmentStart /\ pieceStart' = pieceStart /\ groups' = groups
  BY DEF Invert, NextOf, AfterSilence
<1>2. TypeInv /\ InvertInv /\ FilteredInv
  BY DEF IInv
<1>3. /\ at \in DOMAIN S /\ S \in Seq(Intervals) /\ at \in Nat /\ prev \in Nat
      /\ v.start \in Nat /\ v.end \in Nat
      /\ \A i \in DOMAIN S : i \in Nat /\ S[i].end \in Nat
  BY <1>1, <1>2, TypeParts, SeqParts, IntervalParts
<1>4. /\ nonSilent \in Seq(Intervals) /\ Rising(nonSilent) /\ Real(nonSilent)
      /\ \A k \in DOMAIN nonSilent : nonSilent[k].start <= prev
      /\ \A i \in DOMAIN S : i < at => S[i].end <= prev
      /\ prev = 0 \/ \E i \in DOMAIN S : i < at /\ S[i].end = prev
      /\ \A t \in Nat : In(t, nonSilent) <=> Heard(t, at)
      /\ NoGroups /\ expanded = <<>> /\ filtered = <<>>
  BY <1>1, <1>2, TypeParts DEF InvertInv
<1>5. /\ Larger(prev, v.end) \in Nat /\ prev <= Larger(prev, v.end)
      /\ v.end <= Larger(prev, v.end)
      /\ Larger(prev, v.end) = prev \/ Larger(prev, v.end) = v.end
  BY <1>3 DEF Larger
<1>6. /\ Gap(v.start) \in Seq(Intervals) /\ Rising(Gap(v.start)) /\ Real(Gap(v.start))
      /\ \A k \in DOMAIN Gap(v.start) : Gap(v.start)[k].start <= prev
      /\ \A t \in Nat : In(t, Gap(v.start)) <=>
                          In(t, nonSilent) \/ (prev <= t /\ t < v.start)
  BY <1>3, <1>4, GapKeeps
<1>7. TypeInv'
  BY <1>1, <1>2, <1>3, <1>5, <1>6 DEF TypeInv
<1>8. \A t \in Nat : In(t, Gap(v.start)) <=> Heard(t, at + 1)
  BY <1>1, <1>2, <1>3, <1>4, <1>6, HeardNext
<1>9. InvertInv'
  <2>1. \A k \in DOMAIN Gap(v.start) : Gap(v.start)[k].start <= Larger(prev, v.end)
    <3> DEFINE g == Gap(v.start)
               x == Larger(prev, v.end)
    <3>1. \A k \in DOMAIN g : g[k].start \in Nat
      BY <1>6, SeqParts, IntervalParts
    <3>2. g = Gap(v.start) /\ x = Larger(prev, v.end)
      OBVIOUS
    <3> HIDE DEF g, x
    <3>3. \A k \in DOMAIN g : g[k].start <= prev
      BY <1>6, <3>2
    <3>4. x \in Nat /\ prev <= x
      BY <1>5, <3>2
    <3>5. \A k \in DOMAIN g : g[k].start <= x
      BY <1>3, <3>1, <3>3, <3>4
    <3> QED
      BY <3>2, <3>5
  <2>2. \A i \in DOMAIN S : i < at + 1 => S[i].end <= Larger(prev, v.end)
    <3> SUFFICES ASSUME NEW i \in DOMAIN S, i < at + 1
                 PROVE  S[i].end <= Larger(prev, v.end)
      OBVIOUS
    <3>1. i < at \/ i = at
      BY <1>3
    <3> QED
      BY <1>3, <1>4, <1>5, <3>1
  <2>3. Larger(prev, v.end) = 0 \/
          \E i \in DOMAIN S : i < at + 1 /\ S[i].end = Larger(prev, v.end)
    <3>1. CASE Larger(prev, v.end) = prev
      BY <1>3, <1>4, <3>1
    <3>2. CASE Larger(prev, v.end) = v.end
      <4>1. at \in DOMAIN S /\ at < at + 1 /\ S[at].end = v.end
        BY <1>3
      <4> QED
        BY <3>2, <4>1
    <3> QED
      BY <1>5, <3>1, <3>2
  <2>4. \A t : Heard(t, at)' <=> Heard(t, at + 1)
    BY <1>1 DEF Heard
  <2>5. NoGroups'
    BY <1>1, <1>4 DEF NoGroups
  <2> HIDE DEF v
  <2>6. /\ Rising(nonSilent)' /\ Real(nonSilent)'
        /\ \A k \in DOMAIN nonSilent' : nonSilent'[k].start <= prev'
        /\ \A i \in DOMAIN input'.silences : i < at' => input'.silences[i].end <= prev'
        /\ prev' = 0 \/ \E i \in DOMAIN input'.silences :
                          i < at' /\ input'.silences[i].end = prev'
    BY <1>1, <1>6, <2>1, <2>2, <2>3
  <2>7. \A t \in Nat : In(t, nonSilent') <=> Heard(t, at)'
    BY <1>1, <1>8, <2>4
  <2> QED
    BY <1>1, <1>4, <2>5, <2>6, <2>7 DEF InvertInv
<1>10. FilteredInv'
  BY <1>1, <1>2 DEF FilteredInv, MinSpeech
<1> QED
  BY <1>1, <1>7, <1>9, <1>10 DEF IInv, ExpandInv, FilterInv, GroupInv, ExpandedExact

\* The rest of the recording completes the speech: what HeardAll says.
LEMMA InvertEndOK == IInv /\ InvertEnd => IInv'
<1> SUFFICES ASSUME IInv, InvertEnd PROVE IInv'
  OBVIOUS
<1> DEFINE d == input.duration
<1>1. /\ phase = "invert" /\ phase' = "expand" /\ at > Len(input.silences) /\ at' = 1
      /\ d > 0 /\ input' = input /\ nonSilent' = Gap(d) /\ prev' = prev
      /\ expanded' = expanded /\ filtered' = filtered /\ cur' = cur
      /\ segmentStart' = segmentStart /\ pieceStart' = pieceStart /\ groups' = groups
  BY DEF InvertEnd, Continue
<1>2. TypeInv /\ InvertInv /\ FilteredInv
  BY DEF IInv
<1>3. d \in Nat /\ d \in Int
  BY <1>1, <1>2, InputParts, TypeParts
<1>4. /\ nonSilent \in Seq(Intervals) /\ Rising(nonSilent) /\ Real(nonSilent) /\ prev \in Nat
      /\ \A k \in DOMAIN nonSilent : nonSilent[k].start <= prev
      /\ \A t \in Nat : In(t, nonSilent) <=> Heard(t, at)
      /\ NoGroups /\ expanded = <<>> /\ filtered = <<>>
  BY <1>1, <1>2, TypeParts DEF InvertInv
<1>5. /\ Gap(d) \in Seq(Intervals) /\ Rising(Gap(d)) /\ Real(Gap(d))
      /\ \A t \in Nat : In(t, Gap(d)) <=> In(t, nonSilent) \/ (prev <= t /\ t < d)
  BY <1>3, <1>4, GapKeeps
<1>6. TypeInv'
  BY <1>1, <1>2, <1>5 DEF TypeInv, Phases
<1>7. \A t \in Nat : In(t, Gap(d)) <=> t \in Speech
  BY <1>1, <1>2, <1>4, <1>5, HeardAll
<1>8. ExpandInv'
  <2>1. Speech' = Speech
    BY <1>1 DEF Speech, Horizon
  <2>2. NoGroups'
    BY <1>1, <1>4 DEF NoGroups
  <2>3. DOMAIN expanded' = {} /\ expanded' = <<>>
    BY <1>1, <1>4, EmptyParts
  <2>4. \A m \in DOMAIN nonSilent' : ~ (m < at')
    BY <1>1, <1>5, SeqParts
  <2>5. \A t \in Nat : ~ In(t, expanded')
    BY <2>3 DEF In
  <2>6. Within(expanded, d)' /\ Rising(expanded)' /\ Apart(expanded)'
    BY <2>3 DEF Within, Rising, Apart
  <2>7. Rising(nonSilent)' /\ Real(nonSilent)' /\ input'.duration > 0
    BY <1>1, <1>5
  <2>8. \A t \in Nat : In(t, nonSilent') <=> t \in Speech'
    BY <1>1, <1>7, <2>1
  <2>9. filtered' = <<>>
    BY <1>1, <1>4
  <2>10. \A k \in DOMAIN expanded', m \in DOMAIN nonSilent' :
           m >= at' => expanded'[k].start <= Padded(nonSilent[m])'.start
    BY <2>3
  <2>11. \A t \in Nat : In(t, expanded') <=>
           \E m \in DOMAIN nonSilent' : m < at' /\ Lies(t, Padded(nonSilent[m])')
    BY <2>4, <2>5
  <2> QED
    BY <2>2, <2>6, <2>7, <2>8, <2>9, <2>10, <2>11 DEF ExpandInv
<1>9. FilteredInv'
  BY <1>1, <1>2 DEF FilteredInv, MinSpeech
<1> QED
  BY <1>1, <1>6, <1>8, <1>9 DEF IInv, InvertInv, FilterInv, GroupInv, ExpandedExact

\* The next padded gap begins no earlier than the last expanded interval.
LEMMA ExpandKeeps ==
  ASSUME TypeInv, ExpandInv, phase = "expand", at \in DOMAIN nonSilent, NEW x,
         x = IF expanded = <<>> \/ Padded(nonSilent[at]).start > Last(expanded).end
             THEN Append(expanded, Padded(nonSilent[at])) ELSE Joined(Padded(nonSilent[at]))
  PROVE  /\ x \in Seq(Intervals)
         /\ Within(x, input.duration) /\ Rising(x) /\ Apart(x)
         /\ \A k \in DOMAIN x, m \in DOMAIN nonSilent :
              m >= at + 1 => x[k].start <= Padded(nonSilent[m]).start
         /\ \A t \in Nat : In(t, x) <=> In(t, expanded) \/ Lies(t, Padded(nonSilent[at]))
<1> DEFINE v == Padded(nonSilent[at])
           d == input.duration
<1>1. /\ expanded \in Seq(Intervals) /\ nonSilent \in Seq(Intervals) /\ input \in Inputs
      /\ at \in Nat /\ d \in Int /\ d > 0
      /\ Within(expanded, d) /\ Rising(expanded) /\ Apart(expanded) /\ Rising(nonSilent)
      /\ \A k \in DOMAIN expanded, m \in DOMAIN nonSilent :
           m >= at => expanded[k].start <= Padded(nonSilent[m]).start
  BY TypeParts, InputParts DEF ExpandInv
<1>2. \A m \in DOMAIN nonSilent : nonSilent[m] \in Intervals /\ m \in Nat
  BY <1>1, SeqParts
<1>3. v \in Intervals /\ v.end <= d /\ v.start \in Nat /\ v.end \in Nat
  BY <1>1, <1>2, PaddedParts, IntervalParts
<1>4. \A k \in DOMAIN expanded : expanded[k].start <= v.start
  BY <1>1
<1>5. ASSUME NEW m \in DOMAIN nonSilent, m >= at + 1
      PROVE  /\ v.start <= Padded(nonSilent[m]).start
             /\ \A k \in DOMAIN expanded : expanded[k].start <= Padded(nonSilent[m]).start
  <2>1. at <= m /\ m >= at
    BY <1>1, <1>2, <1>5
  <2>2. nonSilent[at].start <= nonSilent[m].start
    BY <1>1, <2>1 DEF Rising
  <2> QED
    BY <1>1, <1>2, <2>1, <2>2, PaddedRises
<1>6. CASE expanded = <<>> \/ v.start > Last(expanded).end
  <2>1. x = Append(expanded, v)
    BY <1>6
  <2>2. \A k \in DOMAIN expanded : expanded[k].end < v.start
    <3>1. CASE expanded = <<>>
      BY <3>1, EmptyParts
    <3>2. CASE expanded # <<>> /\ v.start > Last(expanded).end
      <4>1. /\ Len(expanded) \in DOMAIN expanded /\ Last(expanded) = expanded[Len(expanded)]
            /\ \A k \in DOMAIN expanded : k <= Len(expanded) /\ k \in Nat
            /\ Len(expanded) \in Nat
        BY <1>1, <3>2, LastOf, SeqParts
      <4> SUFFICES ASSUME NEW k \in DOMAIN expanded PROVE expanded[k].end < v.start
        OBVIOUS
      <4>2. /\ expanded[k].end \in Nat /\ Last(expanded).end \in Nat
            /\ Last(expanded).start \in Nat
        BY <1>1, <4>1, SeqParts, IntervalParts
      <4>3. CASE k = Len(expanded)
        BY <1>3, <3>2, <4>1, <4>2, <4>3
      <4>4. CASE k # Len(expanded)
        <5>1. k < Len(expanded)
          BY <4>1, <4>4
        <5>2. expanded[k].end < Last(expanded).start
          BY <1>1, <4>1, <5>1 DEF Apart
        <5>3. Last(expanded).start <= v.start
          BY <1>4, <4>1
        <5> QED
          BY <1>3, <4>2, <5>2, <5>3
      <4> QED
        BY <4>3, <4>4
    <3> QED
      BY <1>6, <3>1, <3>2
  <2>3. Within(x, d) /\ Rising(x) /\ Apart(x) /\ x \in Seq(Intervals)
    <3> HIDE DEF v, d
    <3>1. Append(expanded, v) \in Seq(Intervals)
      BY <1>1, <1>3, Grown
    <3>2. Within(Append(expanded, v), d)
      BY <1>1, <1>3, WithinGrown
    <3>3. Rising(Append(expanded, v))
      BY <1>1, <1>3, <1>4, RisingGrown
    <3>4. Apart(Append(expanded, v))
      BY <1>1, <1>3, <2>2, ApartGrown
    <3> QED
      BY <2>1, <3>1, <3>2, <3>3, <3>4
  <2>4. \A t \in Nat : In(t, x) <=> In(t, expanded) \/ Lies(t, v)
    BY <1>1, <1>3, <2>1, InGrown
  <2>5. /\ DOMAIN x = DOMAIN expanded \cup {Len(expanded) + 1}
        /\ \A k \in DOMAIN expanded : x[k] = expanded[k]
        /\ x[Len(expanded) + 1] = v
    BY <1>1, <1>3, <2>1, Grown
  <2>6. \A k \in DOMAIN x, m \in DOMAIN nonSilent :
          m >= at + 1 => x[k].start <= Padded(nonSilent[m]).start
    BY <1>5, <2>5
  <2> QED
    BY <2>3, <2>4, <2>6
<1>7. CASE ~ (expanded = <<>> \/ v.start > Last(expanded).end)
  <2>1. x = Joined(v) /\ expanded # <<>>
    BY <1>7
  <2>2. /\ Last(expanded) \in Intervals /\ Len(expanded) \in DOMAIN expanded
        /\ Last(expanded) = expanded[Len(expanded)]
    BY <1>1, <2>1, LastOf
  <2>3. Last(expanded).start <= v.start
    BY <1>4, <2>2
  <2>4. v.start <= Last(expanded).end
    BY <1>3, <1>7, <2>2, IntervalParts
  <2>5. /\ Joined(v) \in Seq(Intervals) /\ DOMAIN Joined(v) = DOMAIN expanded
        /\ \A k \in DOMAIN expanded : Joined(v)[k].start = expanded[k].start
        /\ Within(Joined(v), d) /\ Rising(Joined(v)) /\ Apart(Joined(v))
        /\ \A t \in Nat : In(t, Joined(v)) <=> In(t, expanded) \/ Lies(t, v)
    BY <1>1, <1>3, <2>1, <2>3, <2>4, JoinedKeeps
  <2>6. \A k \in DOMAIN x, m \in DOMAIN nonSilent :
          m >= at + 1 => x[k].start <= Padded(nonSilent[m]).start
    BY <1>5, <2>1, <2>5
  <2> QED
    BY <2>1, <2>5, <2>6
<1> QED
  BY <1>6, <1>7

\* A padded gap is appended or joined; the next one starts no earlier.
LEMMA ExpandOK == IInv /\ Expand => IInv'
<1> SUFFICES ASSUME IInv, Expand PROVE IInv'
  OBVIOUS
<1>1. /\ phase = "expand" /\ phase' = "expand" /\ at <= Len(nonSilent) /\ at' = at + 1
      /\ input' = input /\ nonSilent' = nonSilent /\ prev' = prev
      /\ expanded' = IF expanded = <<>> \/ Padded(nonSilent[at]).start > Last(expanded).end
                     THEN Append(expanded, Padded(nonSilent[at]))
                     ELSE Joined(Padded(nonSilent[at]))
      /\ filtered' = filtered /\ cur' = cur
      /\ segmentStart' = segmentStart /\ pieceStart' = pieceStart /\ groups' = groups
  BY DEF Expand, NextOf
<1>2. TypeInv /\ ExpandInv /\ FilteredInv
  BY DEF IInv
<1>3. at \in Nat /\ at \in DOMAIN nonSilent /\ \A m \in DOMAIN nonSilent : m \in Nat
  BY <1>1, <1>2, TypeParts, SeqParts
<1>4. /\ expanded' \in Seq(Intervals)
      /\ Within(expanded', input.duration) /\ Rising(expanded') /\ Apart(expanded')
      /\ \A k \in DOMAIN expanded', m \in DOMAIN nonSilent :
           m >= at + 1 => expanded'[k].start <= Padded(nonSilent[m]).start
      /\ \A t \in Nat : In(t, expanded') <=> In(t, expanded) \/ Lies(t, Padded(nonSilent[at]))
  <2> DEFINE x == expanded'
  <2>1. x = IF expanded = <<>> \/ Padded(nonSilent[at]).start > Last(expanded).end
            THEN Append(expanded, Padded(nonSilent[at])) ELSE Joined(Padded(nonSilent[at]))
    BY <1>1
  <2> HIDE DEF x
  <2>2. /\ x \in Seq(Intervals)
        /\ Within(x, input.duration) /\ Rising(x) /\ Apart(x)
        /\ \A k \in DOMAIN x, m \in DOMAIN nonSilent :
             m >= at + 1 => x[k].start <= Padded(nonSilent[m]).start
        /\ \A t \in Nat : In(t, x) <=> In(t, expanded) \/ Lies(t, Padded(nonSilent[at]))
    BY <1>1, <1>2, <1>3, <2>1, ExpandKeeps
  <2> QED
    BY <2>2 DEF x
<1>5. TypeInv'
  BY <1>1, <1>2, <1>3, <1>4 DEF TypeInv
<1>6. ExpandInv'
  <2>1. /\ NoGroups /\ filtered = <<>> /\ input.duration > 0
        /\ Rising(nonSilent) /\ Real(nonSilent)
        /\ \A t \in Nat : In(t, nonSilent) <=> t \in Speech
        /\ \A t \in Nat : In(t, expanded) <=>
             \E m \in DOMAIN nonSilent : m < at /\ Lies(t, Padded(nonSilent[m]))
    BY <1>1, <1>2 DEF ExpandInv
  <2>2. NoGroups' /\ Speech' = Speech
    BY <1>1, <2>1 DEF NoGroups, Speech, Horizon
  <2>3. \A g : Padded(g)' = Padded(g)
    BY <1>1 DEF Padded
  <2>4. \A t \in Nat : In(t, expanded') <=>
          \E m \in DOMAIN nonSilent : m < at + 1 /\ Lies(t, Padded(nonSilent[m]))
    <3>1. \A m \in DOMAIN nonSilent : m < at + 1 <=> m < at \/ m = at
      BY <1>3
    <3> QED
      BY <1>3, <1>4, <2>1, <3>1, Zenon
  <2>5. \A m : Padded(nonSilent[m])' = Padded(nonSilent[m])
    BY <1>1 DEF Padded
  <2>6. \A t : Speech' = Speech /\ \A m : Lies(t, Padded(nonSilent[m]))' <=>
                                           Lies(t, Padded(nonSilent[m]))
    BY <2>2, <2>5 DEF Lies
  <2>7. /\ Rising(nonSilent)' /\ Real(nonSilent)' /\ Within(expanded, input.duration)'
        /\ Rising(expanded)' /\ Apart(expanded)' /\ filtered' = <<>> /\ input'.duration > 0
    BY <1>1, <1>4, <2>1 DEF Rising, Real, Within, Apart
  <2>8. \A k \in DOMAIN expanded', m \in DOMAIN nonSilent' :
          m >= at' => expanded'[k].start <= Padded(nonSilent[m])'.start
    BY <1>1, <1>4, <2>5
  <2>9. \A t \in Nat : In(t, nonSilent)' <=> t \in Speech'
    BY <1>1, <2>1, <2>2 DEF In
  <2>10. \A t \in Nat : In(t, expanded)' <=>
          \E m \in DOMAIN nonSilent' : m < at' /\ Lies(t, Padded(nonSilent[m]))'
    BY <1>1, <2>4, <2>6
  <2> QED
    BY <2>2, <2>7, <2>8, <2>9, <2>10 DEF ExpandInv
<1>7. FilteredInv'
  BY <1>1, <1>2 DEF FilteredInv, MinSpeech
<1> QED
  BY <1>1, <1>5, <1>6, <1>7 DEF IInv, InvertInv, FilterInv, GroupInv, ExpandedExact

\* The gaps hold what is speech, and a padded gap what is near one of its ticks.
LEMMA ExpandedNear ==
  ASSUME TypeInv, ExpandInv, phase = "expand", at > Len(nonSilent)
  PROVE  Covered(expanded) =
           {t \in Recording : \E s \in Speech :
              s - input.padding <= t /\ t <= s + input.padding}
<1> DEFINE p == input.padding
           Near(t) == \E s \in Speech : s - p <= t /\ t <= s + p
<1>1. /\ input \in Inputs /\ input.duration > 0 /\ input.duration \in Int /\ p \in Nat
      /\ nonSilent \in Seq(Intervals) /\ expanded \in Seq(Intervals)
      /\ Real(nonSilent) /\ Speech \subseteq Nat
      /\ \A t \in Nat : In(t, nonSilent) <=> t \in Speech
      /\ \A t \in Nat : In(t, expanded) <=>
           \E m \in DOMAIN nonSilent : m < at /\ Lies(t, Padded(nonSilent[m]))
  BY TypeParts, InputParts, SpeechIsNat DEF ExpandInv
<1>2. \A m \in DOMAIN nonSilent : m < at /\ nonSilent[m] \in Intervals
                                   /\ nonSilent[m].start < nonSilent[m].end
  BY <1>1, SeqParts, TypeParts DEF Real
<1>3. ASSUME NEW t \in Nat
      PROVE  In(t, expanded) <=> t \in Recording /\ Near(t)
  <2>1. ASSUME NEW m \in DOMAIN nonSilent
        PROVE  Lies(t, Padded(nonSilent[m])) <=>
                 /\ t \in Recording
                 /\ \E s \in Nat : Lies(s, nonSilent[m]) /\ s - p <= t /\ t <= s + p
    BY <1>1, <1>2, PaddedLies
  <2>2. ASSUME In(t, expanded) PROVE t \in Recording /\ Near(t)
    <3>1. PICK m \in DOMAIN nonSilent : Lies(t, Padded(nonSilent[m]))
      BY <1>1, <2>2
    <3>2. PICK s \in Nat : Lies(s, nonSilent[m]) /\ s - p <= t /\ t <= s + p
      BY <2>1, <3>1
    <3>3. s \in Speech
      BY <1>1, <3>2 DEF In
    <3> QED
      BY <2>1, <3>1, <3>2, <3>3
  <2>3. ASSUME t \in Recording, Near(t) PROVE In(t, expanded)
    <3>1. PICK s \in Speech : s - p <= t /\ t <= s + p
      BY <2>3
    <3>2. s \in Nat
      BY <1>1
    <3>3. PICK m \in DOMAIN nonSilent : Lies(s, nonSilent[m])
      BY <1>1, <3>2 DEF In
    <3>4. Lies(t, Padded(nonSilent[m]))
      BY <2>1, <2>3, <3>1, <3>2, <3>3
    <3> QED
      BY <1>1, <1>2, <3>4
  <2> QED
    BY <2>2, <2>3
<1>4. Recording \subseteq Nat
  BY <1>1 DEF Recording
<1>5. ASSUME NEW t \in Covered(expanded) PROVE t \in Nat
  <2>1. PICK k \in DOMAIN expanded : t \in Ticks(expanded[k])
    BY <1>5 DEF Covered
  <2>2. expanded[k].start \in Nat /\ expanded[k].end \in Nat
    BY <1>1, SeqParts, IntervalParts
  <2> QED
    BY <2>1, <2>2 DEF Ticks
<1>6. \A t \in Nat : t \in Covered(expanded) <=> t \in Recording /\ Near(t)
  BY <1>1, <1>3, CoveredIsIn
<1> HIDE DEF Near
<1>7. Covered(expanded) = {t \in Recording : Near(t)}
  BY <1>4, <1>5, <1>6
<1> QED
  BY <1>7 DEF Near

\* All gaps are padded: ExpandedExact is established here.
LEMMA ExpandEndOK == IInv /\ ExpandEnd => IInv'
<1> SUFFICES ASSUME IInv, ExpandEnd PROVE IInv'
  OBVIOUS
<1>1. /\ phase = "expand" /\ phase' = "filter" /\ at > Len(nonSilent) /\ at' = 1
      /\ input' = input /\ nonSilent' = nonSilent /\ prev' = prev
      /\ expanded' = expanded /\ filtered' = filtered /\ cur' = cur
      /\ segmentStart' = segmentStart /\ pieceStart' = pieceStart /\ groups' = groups
  BY DEF ExpandEnd, Continue
<1>2. TypeInv /\ ExpandInv /\ FilteredInv
  BY DEF IInv
<1>3. TypeInv'
  BY <1>1, <1>2 DEF TypeInv, Phases
<1>4. /\ NoGroups /\ filtered = <<>> /\ input.duration > 0
      /\ Within(expanded, input.duration) /\ Apart(expanded)
  BY <1>1, <1>2 DEF ExpandInv
<1>5. FilterInv'
  BY <1>1, <1>4, EmptyParts DEF FilterInv, NoGroups
<1>6. FilteredInv'
  BY <1>1, <1>2 DEF FilteredInv, MinSpeech
<1>7. ExpandedExact'
  <2>1. Speech' = Speech /\ Recording' = Recording
    BY <1>1 DEF Speech, Horizon, Recording
  <2> HIDE DEF Speech, Recording
  <2>2. Covered(expanded) =
           {t \in Recording : \E s \in Speech :
              s - input.padding <= t /\ t <= s + input.padding}
    BY <1>1, <1>2, ExpandedNear
  <2> QED
    BY <1>1, <2>1, <2>2 DEF ExpandedExact
<1> QED
  BY <1>1, <1>3, <1>5, <1>6, <1>7 DEF IInv, InvertInv, ExpandInv, GroupInv

\* What is long enough is kept, in order and apart.
LEMMA FilterOK == IInv /\ Filter => IInv'
<1> SUFFICES ASSUME IInv, Filter PROVE IInv'
  OBVIOUS
<1> DEFINE e == expanded[at]
           d == input.duration
<1>1. /\ phase = "filter" /\ phase' = "filter" /\ at <= Len(expanded) /\ at' = at + 1
      /\ input' = input /\ nonSilent' = nonSilent /\ prev' = prev
      /\ expanded' = expanded /\ cur' = cur
      /\ filtered' = IF Duration(e) >= MinSpeech THEN Append(filtered, e) ELSE filtered
      /\ segmentStart' = segmentStart /\ pieceStart' = pieceStart /\ groups' = groups
  BY DEF Filter, NextOf
<1>2. TypeInv /\ FilterInv /\ FilteredInv /\ ExpandedExact
  BY DEF IInv
<1>3. /\ at \in Nat /\ at \in DOMAIN expanded /\ e \in Intervals /\ filtered \in Seq(Intervals)
      /\ e.start \in Nat /\ e.end \in Nat
      /\ \A m \in DOMAIN expanded : m \in Nat /\ expanded[m].start \in Nat
                                    /\ expanded[m].end \in Nat
      /\ \A k \in DOMAIN filtered : filtered[k].end \in Nat
  BY <1>1, <1>2, TypeParts, SeqParts, IntervalParts
<1>4. /\ NoGroups /\ d > 0 /\ Within(expanded, d) /\ Apart(expanded)
      /\ \A k \in DOMAIN filtered, m \in DOMAIN expanded :
           m >= at => filtered[k].end < expanded[m].start
      /\ Apart(filtered) /\ Within(filtered, d) /\ MinSpeech \in Nat \ {0}
      /\ \A k \in DOMAIN filtered : filtered[k].end - filtered[k].start >= MinSpeech
  BY <1>1, <1>2, InputParts, TypeParts DEF FilterInv, FilteredInv
<1>5. /\ filtered' \in Seq(Intervals) /\ Apart(filtered') /\ Within(filtered', d)
      /\ \A k \in DOMAIN filtered' : filtered'[k].end - filtered'[k].start >= MinSpeech
      /\ \A k \in DOMAIN filtered', m \in DOMAIN expanded :
           m >= at + 1 => filtered'[k].end < expanded[m].start
  <2>1. CASE Duration(e) >= MinSpeech
    <3> HIDE DEF e, d
    <3>1. filtered' = Append(filtered, e)
      BY <1>1, <2>1
    <3>2. e.end - e.start >= MinSpeech
      BY <1>3, <1>4, <2>1 DEF Duration
    <3>3. /\ DOMAIN Append(filtered, e) = DOMAIN filtered \cup {Len(filtered) + 1}
          /\ \A k \in DOMAIN filtered : Append(filtered, e)[k] = filtered[k]
          /\ Append(filtered, e)[Len(filtered) + 1] = e
          /\ Append(filtered, e) \in Seq(Intervals)
      BY <1>3, Grown
    <3>4. \A k \in DOMAIN filtered : filtered[k].end < e.start
      <4>1. at >= at
        BY <1>3
      <4> QED
        BY <1>3, <1>4, <4>1 DEF e
    <3>5. Apart(Append(filtered, e))
      BY <1>3, <1>4, <3>4, ApartGrown
    <3>6. e.end <= d
      BY <1>3, <1>4 DEF Within, e
    <3>7. Within(Append(filtered, e), d)
      BY <1>3, <1>4, <3>6, WithinGrown
    <3>8. \A k \in DOMAIN Append(filtered, e) :
             Append(filtered, e)[k].end - Append(filtered, e)[k].start >= MinSpeech
      BY <1>4, <3>2, <3>3
    <3>9. \A k \in DOMAIN Append(filtered, e), m \in DOMAIN expanded :
             m >= at + 1 => Append(filtered, e)[k].end < expanded[m].start
      <4> SUFFICES ASSUME NEW m \in DOMAIN expanded, m >= at + 1
                   PROVE  /\ \A k \in DOMAIN filtered : filtered[k].end < expanded[m].start
                          /\ e.end < expanded[m].start
        BY <3>3
      <4>1. at < m /\ m >= at
        BY <1>3
      <4> QED
        BY <1>3, <1>4, <4>1 DEF Apart, e
    <3> QED
      BY <3>1, <3>3, <3>5, <3>7, <3>8, <3>9
  <2>2. CASE ~ (Duration(e) >= MinSpeech)
    <3>1. filtered' = filtered
      BY <1>1, <2>2
    <3>2. \A m \in DOMAIN expanded : m >= at + 1 => m >= at
      BY <1>3
    <3> QED
      BY <1>3, <1>4, <3>1, <3>2
  <2> QED
    BY <2>1, <2>2
<1>6. TypeInv'
  BY <1>1, <1>2, <1>3, <1>5 DEF TypeInv
<1>7. FilterInv'
  BY <1>1, <1>4, <1>5 DEF FilterInv, NoGroups
<1>8. FilteredInv'
  BY <1>1, <1>5 DEF FilteredInv, MinSpeech
<1>9. ExpandedExact'
  <2>1. Speech' = Speech /\ Recording' = Recording
    BY <1>1 DEF Speech, Horizon, Recording
  <2> HIDE DEF Speech, Recording
  <2> QED
    BY <1>1, <1>2, <2>1 DEF ExpandedExact
<1> QED
  BY <1>1, <1>6, <1>7, <1>8, <1>9 DEF IInv, InvertInv, ExpandInv, GroupInv

\* The intervals are complete, and nothing is grouped yet.
LEMMA FilterEndOK == IInv /\ FilterEnd => IInv'
<1> SUFFICES ASSUME IInv, FilterEnd PROVE IInv'
  OBVIOUS
<1>1. /\ phase = "filter" /\ phase' = "group" /\ at' = 1
      /\ input' = input /\ nonSilent' = nonSilent /\ prev' = prev
      /\ expanded' = expanded /\ filtered' = filtered /\ cur' = cur
      /\ segmentStart' = segmentStart /\ pieceStart' = pieceStart /\ groups' = groups
  BY DEF FilterEnd, Continue
<1>2. TypeInv /\ FilterInv /\ FilteredInv
  BY DEF IInv
<1>3. cur = <<>> /\ groups = <<>>
  BY <1>1, <1>2 DEF FilterInv, NoGroups
<1>4. TypeInv'
  BY <1>1, <1>2 DEF TypeInv, Phases
<1>5. FilteredInv'
  BY <1>1, <1>2 DEF FilteredInv, MinSpeech
<1>6. \A m \in DOMAIN filtered' : m \in Nat /\ ~ (m < at')
  BY <1>1, <1>2, TypeParts, SeqParts
<1>7. GroupInv'
  BY <1>1, <1>3, <1>6, GroupBegins
<1> QED
  BY <1>1, <1>4, <1>5, <1>7 DEF IInv, InvertInv, ExpandInv, FilterInv, ExpandedExact

-----------------------------------------------------------------------------
(***************************************************************************)
(* Groups.                                                                 *)
(***************************************************************************)
\* A group that begins where the others have ended keeps them ordered.
LEMMA GroupsGrown ==
  ASSUME NEW gs \in Seq(Seq(Intervals)), NEW g \in Seq(Intervals), Ordered(gs), GroupOK(g),
         Before(gs, g[1].start)
  PROVE  /\ Append(gs, g) \in Seq(Seq(Intervals)) /\ Ordered(Append(gs, g))
         /\ Append(gs, g) # <<>> /\ Last(Append(gs, g)) = g
         /\ \A x : Before(Append(gs, g), x) <=> Before(gs, x) /\ Last(g).end <= x
         /\ \A t : Sent(t, Append(gs, g)) <=> Sent(t, gs) \/ In(t, g)
<1> DEFINE a == Append(gs, g)
           n == Len(gs) + 1
<1>1. /\ DOMAIN a = DOMAIN gs \cup {n} /\ a[n] = g
      /\ \A k \in DOMAIN gs : a[k] = gs[k] /\ k < n
      /\ a \in Seq(Seq(Intervals)) /\ a # <<>> /\ Last(a) = g
  BY Grown
<1>2. n \in Nat /\ \A k \in DOMAIN gs : k \in Nat
  BY SeqParts
<1> HIDE DEF a, n
<1>3. \A k \in DOMAIN a : GroupOK(a[k])
  BY <1>1 DEF Ordered
<1>4. ASSUME NEW j \in DOMAIN a, NEW k \in DOMAIN a, j < k
      PROVE  Last(a[j]).end <= a[k][1].start
  <2>1. j \in DOMAIN gs
    BY <1>1, <1>2, <1>4
  <2>2. CASE k \in DOMAIN gs
    BY <1>1, <1>4, <2>1, <2>2 DEF Ordered
  <2>3. CASE k = n
    BY <1>1, <2>1, <2>3 DEF Before
  <2> QED
    BY <1>1, <2>2, <2>3
<1>5. \A x : Before(a, x) <=> Before(gs, x) /\ Last(g).end <= x
  BY <1>1 DEF Before
<1>6. \A t : Sent(t, a) <=> Sent(t, gs) \/ In(t, g)
  BY <1>1 DEF Sent
<1>7. Ordered(a)
  BY <1>3, <1>4 DEF Ordered
<1> QED
  BY <1>1, <1>5, <1>6, <1>7 DEF a

\* A group that did not fit into the last one extends the chain.
LEMMA ChainGrown ==
  ASSUME NEW gs \in Seq(Seq(Intervals)), NEW g \in Seq(Intervals), Chain(gs),
         gs # <<>> => Exceeds(Last(gs), g)
  PROVE  Chain(Append(gs, g))
<1> DEFINE a == Append(gs, g)
           n == Len(gs) + 1
<1>1. /\ DOMAIN a = DOMAIN gs \cup {n} /\ a[n] = g
      /\ \A k \in DOMAIN gs : a[k] = gs[k] /\ k < n
  BY Grown
<1>2. n \in Nat /\ \A k \in DOMAIN gs : k \in Nat
  BY SeqParts
<1>n. n = Len(gs) + 1 /\ Len(gs) \in Nat
  BY SeqParts
<1> HIDE DEF a, n
<1>3. ASSUME NEW k \in DOMAIN a, k + 1 \in DOMAIN a
      PROVE  Exceeds(a[k], a[k + 1])
  <2>1. k \in DOMAIN gs
    BY <1>1, <1>2, <1>3
  <2>2. CASE k + 1 \in DOMAIN gs
    BY <1>1, <2>1, <2>2 DEF Chain
  <2>3. CASE k + 1 = n
    <3>1. gs # <<>> /\ k = Len(gs)
      BY <1>2, <1>n, <2>1, <2>3, EmptyParts
    <3>2. Last(gs) = gs[k]
      BY <3>1 DEF Last
    <3> QED
      BY <1>1, <2>1, <2>3, <3>1, <3>2
  <2> QED
    BY <1>1, <1>3, <2>2, <2>3
<1> QED
  BY <1>3 DEF Chain, a

\* What holds of filtered, of its element at, and of the state as a whole.
LEMMA FilteredParts ==
  ASSUME TypeInv, FilteredInv
  PROVE  /\ filtered \in Seq(Intervals) /\ at \in Nat /\ Apart(filtered)
         /\ MaxLength \in Nat \ {0} /\ Limit \in Nat \ {0} /\ Eps \in Nat
         /\ Limit = MaxLength + Eps
         /\ \A k \in DOMAIN filtered :
              /\ k \in Nat /\ k # 0 /\ k <= Len(filtered) /\ filtered[k] \in Intervals
              /\ filtered[k].start \in Nat /\ filtered[k].end \in Nat
              /\ filtered[k].start < filtered[k].end
              /\ Duration(filtered[k]) = filtered[k].end - filtered[k].start
         /\ at <= Len(filtered) => at \in DOMAIN filtered
<1>1. /\ filtered \in Seq(Intervals) /\ at \in Nat \ {0} /\ Apart(filtered)
      /\ MaxLength \in Nat \ {0} /\ Limit \in Nat \ {0} /\ MinSpeech \in Nat \ {0}
      /\ \A k \in DOMAIN filtered : filtered[k].end - filtered[k].start >= MinSpeech
  BY InputParts DEF TypeInv, FilteredInv
<1>2. ASSUME NEW k \in DOMAIN filtered
      PROVE  /\ k \in Nat /\ k # 0 /\ k <= Len(filtered) /\ filtered[k] \in Intervals
             /\ filtered[k].start \in Nat /\ filtered[k].end \in Nat
             /\ filtered[k].start < filtered[k].end
             /\ Duration(filtered[k]) = filtered[k].end - filtered[k].start
  <2>1. /\ k \in Nat /\ k # 0 /\ k <= Len(filtered) /\ filtered[k] \in Intervals
        /\ filtered[k].start \in Nat /\ filtered[k].end \in Nat
    BY <1>1, SeqParts, IntervalParts
  <2>2. filtered[k].start < filtered[k].end
    BY <1>1, <2>1
  <2> QED
    BY <2>1, <2>2 DEF Duration
<1>3. at <= Len(filtered) => at \in DOMAIN filtered
  BY <1>1, SeqParts
<1>4. Eps \in Nat /\ Limit = MaxLength + Eps
  BY InputsAssumption DEF Limit
<1> QED
  BY <1>1, <1>2, <1>3, <1>4

\* flush() sends the group being filled and nothing else.
LEMMA FlushKeeps ==
  ASSUME TypeInv, FilteredInv, GroupInv, phase = "group"
  PROVE  /\ Flushed \in Seq(Seq(Intervals)) /\ Ordered(Flushed)
         /\ \A m \in DOMAIN filtered : m >= at => Before(Flushed, filtered[m].start)
         /\ \A t : Sent(t, Flushed) <=> Sent(t, groups) \/ In(t, cur)
         /\ AllFit => Chain(Flushed)
         /\ cur # <<>> => Last(Flushed) = cur
         /\ AllFit /\ cur = <<>> => Flushed = <<>>
<1>1. /\ Ordered(groups) /\ CurInv /\ NextInv /\ GreedyInv
      /\ groups \in Seq(Seq(Intervals)) /\ cur \in Seq(Intervals) /\ at \in Nat
      /\ \A m \in DOMAIN filtered : m \in Nat
  BY TypeParts, FilteredParts DEF GroupInv
<1>2. \A m \in DOMAIN filtered : m >= at => Before(groups, filtered[m].start)
  BY <1>1 DEF NextInv
<1>3. CASE cur = <<>>
  <2>1. Flushed = groups
    BY <1>3 DEF Flushed
  <2>2. \A t : ~ In(t, cur)
    BY <1>3, EmptyIsAll
  <2> QED
    BY <1>1, <1>2, <1>3, <2>1, <2>2 DEF GreedyInv
<1>4. CASE cur # <<>>
  <2>1. Flushed = Append(groups, cur)
    BY <1>4 DEF Flushed
  <2>2. /\ GroupOK(cur) /\ Before(groups, cur[1].start)
        /\ \A m \in DOMAIN filtered : m >= at => Last(cur).end <= filtered[m].start
    BY <1>1, <1>4 DEF CurInv
  <2>3. /\ Append(groups, cur) \in Seq(Seq(Intervals)) /\ Ordered(Append(groups, cur))
        /\ Last(Append(groups, cur)) = cur
        /\ \A x : Before(Append(groups, cur), x) <=> Before(groups, x) /\ Last(cur).end <= x
        /\ \A t : Sent(t, Append(groups, cur)) <=> Sent(t, groups) \/ In(t, cur)
    BY <1>1, <2>2, GroupsGrown
  <2>4. AllFit => Chain(Append(groups, cur))
    BY <1>1, <1>4, ChainGrown DEF GreedyInv
  <2> QED
    BY <1>2, <1>4, <2>1, <2>2, <2>3, <2>4
<1> QED
  BY <1>3, <1>4

-----------------------------------------------------------------------------
(***************************************************************************)
(* The steps of GroupIntervalsByMaxSpan.                                   *)
(***************************************************************************)
\* What is said of groups does not depend on what grouping leaves alone.
LEMMA GroupFrame ==
  ASSUME NEW gs, groups' = gs, input' = input, filtered' = filtered
  PROVE  /\ Ordered(gs) => Ordered(groups)'
         /\ Chain(gs) => Chain(groups)'
         /\ AllFit' <=> AllFit
         /\ Limit' = Limit
         /\ FilteredInv => FilteredInv'
<1>1. Limit' = Limit
  BY DEF Limit, MaxLength
<1>4. Ordered(gs) => Ordered(groups)'
  BY <1>1 DEF Ordered, GroupOK
<1>5. Chain(gs) => Chain(groups)'
  BY <1>1 DEF Chain, Exceeds
<1>6. AllFit' <=> AllFit
  BY <1>1 DEF AllFit
<1>7. FilteredInv => FilteredInv'
  BY DEF FilteredInv, MinSpeech
<1> QED
  BY <1>1, <1>4, <1>5, <1>6, <1>7

\* While an interval is cut up, not all of them fit.
LEMMA LongNeverFits ==
  ASSUME TypeInv, FilteredInv, at \in DOMAIN filtered, Duration(iv) > Limit
  PROVE  ~ AllFit
<1>1. /\ Limit \in Nat /\ iv = filtered[at]
      /\ Duration(filtered[at]) = filtered[at].end - filtered[at].start
      /\ filtered[at].end \in Nat /\ filtered[at].start \in Nat
  BY FilteredParts DEF iv
<1>2. ASSUME AllFit PROVE FALSE
  <2>1. Duration(filtered[at]) <= Limit /\ Duration(filtered[at]) > Limit
    BY <1>1, <1>2 DEF AllFit
  <2> QED
    BY <1>1, <2>1
<1> QED
  BY <1>2

\* The group being filled is sent before an interval is cut up.
LEMMA SplitBeginOK == IInv /\ SplitBegin => IInv'
<1> SUFFICES ASSUME IInv, SplitBegin PROVE IInv'
  OBVIOUS
<1>1. /\ phase = "group" /\ phase' = "split" /\ at <= Len(filtered) /\ Duration(iv) > Limit
      /\ groups' = Flushed /\ cur' = <<>>
      /\ segmentStart' = (IF cur = <<>> THEN segmentStart ELSE 0) /\ pieceStart' = iv.start
      /\ input' = input /\ at' = at /\ prev' = prev /\ nonSilent' = nonSilent
      /\ expanded' = expanded /\ filtered' = filtered
  BY DEF SplitBegin, Grouping
<1>2. TypeInv /\ FilteredInv /\ GroupInv
  BY DEF IInv
<1>3. /\ at \in DOMAIN filtered /\ at \in Nat
      /\ iv.start \in Nat /\ iv.end \in Nat /\ iv.start < iv.end /\ iv = filtered[at]
      /\ \A m \in DOMAIN filtered : m \in Nat
  BY <1>1, <1>2, FilteredParts DEF iv
<1>4. /\ Flushed \in Seq(Seq(Intervals)) /\ Ordered(Flushed)
      /\ \A m \in DOMAIN filtered : m >= at => Before(Flushed, filtered[m].start)
      /\ \A t : Sent(t, Flushed) <=> Sent(t, groups) \/ In(t, cur)
  BY <1>1, <1>2, FlushKeeps
<1>5. /\ Ordered(groups)' /\ Limit' = Limit /\ FilteredInv' /\ (AllFit' <=> AllFit)
  BY <1>1, <1>2, <1>4, GroupFrame
<1>6. TypeInv'
  <2>1. /\ input' \in Inputs /\ at' \in Nat \ {0} /\ prev' \in Nat
        /\ nonSilent' \in Seq(Intervals)
        /\ expanded' \in Seq(Intervals) /\ filtered' \in Seq(Intervals)
        /\ segmentStart' \in Nat
    BY <1>1, <1>2 DEF TypeInv
  <2> QED
    BY <1>1, <1>3, <1>4, <2>1, EmptyTypes DEF TypeInv, Phases
<1>7. iv' = iv
  BY <1>1 DEF iv
<1>8. NextInv'
  <2>1. \A m \in DOMAIN filtered : m > at => Before(Flushed, filtered[m].start)
    BY <1>3, <1>4
  <2> QED
    BY <1>1, <2>1 DEF NextInv
<1>9. SplitInv'
  <2>1. Before(Flushed, iv.start)
    BY <1>3, <1>4
  <2>2. Before(Flushed, iv.end)
    <3> SUFFICES ASSUME NEW k \in DOMAIN Flushed PROVE Last(Flushed[k]).end <= iv.end
      BY DEF Before
    <3>1. Flushed[k] \in Seq(Intervals) /\ Flushed[k] # <<>>
      BY <1>4, SeqParts DEF Ordered, GroupOK
    <3>2. Last(Flushed[k]).end \in Nat
      BY <3>1, LastOf, IntervalParts
    <3> QED
      BY <1>3, <2>1, <3>2 DEF Before
  <2>3. \A t \in Nat : ~ (Lies(t, iv) /\ t < iv.start)
    BY <1>3 DEF Lies
  <2>4. at \in DOMAIN filtered' /\ Duration(iv) > Limit'
    BY <1>1, <1>3, <1>5
  <2>5. Before(groups', pieceStart') /\ Before(groups', iv'.end) /\ cur' = <<>>
        /\ at' \in DOMAIN filtered' /\ Duration(iv') > Limit'
    BY <1>1, <1>7, <2>1, <2>2, <2>4
  <2>6. \A t \in Nat : ~ (Lies(t, iv') /\ t < pieceStart')
    BY <1>1, <1>7, <2>3
  <2> QED
    BY <2>5, <2>6 DEF SplitInv
<1>10. CoverInv'
  <2>1. CoverInv
    BY <1>1, <1>2 DEF GroupInv
  <2>2. \A t : Sent(t, groups') <=> Sent(t, groups) \/ In(t, cur)
    BY <1>1, <1>4
  <2>3. \A t, v : InTail(t, v)' <=> InTail(t, v)
    BY <1>5 DEF InTail
  <2>4. ASSUME NEW m \in DOMAIN filtered, m < at, NEW t \in Nat, Lies(t, filtered[m])
        PROVE  Sent(t, groups') \/ (Duration(filtered[m]) > Limit /\ filtered[m].end - Eps <= t)
    BY <2>1, <2>2, <2>4 DEF CoverInv, InTail
  <2> QED
    BY <1>1, <1>5, <2>4 DEF CoverInv, InTail
<1>11. GreedyInv'
  <2>1. ~ AllFit
    BY <1>1, <1>2, <1>3, LongNeverFits
  <2> QED
    BY <1>5, <2>1 DEF GreedyInv
<1>12. CurInv'
  BY <1>1 DEF CurInv
<1>13. GroupInv'
  BY <1>1, <1>5, <1>8, <1>9, <1>10, <1>11, <1>12 DEF GroupInv
<1> QED
  BY <1>1, <1>5, <1>6, <1>13 DEF IInv, InvertInv, ExpandInv, FilterInv, ExpandedExact

\* A piece begins where the last one ended and is no longer than the maximum.
LEMMA SplitPieceOK == IInv /\ SplitPiece => IInv'
<1> SUFFICES ASSUME IInv, SplitPiece PROVE IInv'
  OBVIOUS
<1> DEFINE x == Smaller(pieceStart + MaxLength, iv.end)
           v == [start |-> pieceStart, end |-> x]
<1>1. /\ phase = "split" /\ phase' = "split" /\ pieceStart < iv.end - Eps
      /\ groups' = Append(groups, <<v>>) /\ cur' = cur
      /\ segmentStart' = segmentStart /\ pieceStart' = pieceStart + MaxLength
      /\ input' = input /\ at' = at /\ prev' = prev /\ nonSilent' = nonSilent
      /\ expanded' = expanded /\ filtered' = filtered
  BY DEF SplitPiece, PieceLeft, PieceStep
<1>2. TypeInv /\ FilteredInv /\ GroupInv
  BY DEF IInv
<1>3. /\ Ordered(groups) /\ NextInv /\ SplitInv /\ CoverInv
      /\ cur = <<>> /\ at \in DOMAIN filtered /\ Duration(iv) > Limit
      /\ Before(groups, pieceStart) /\ Before(groups, iv.end)
      /\ \A t \in Nat : Lies(t, iv) /\ t < pieceStart => Sent(t, groups)
  BY <1>1, <1>2 DEF GroupInv, SplitInv
<1>4. /\ at \in Nat /\ pieceStart \in Nat /\ MaxLength \in Nat \ {0} /\ Eps \in Nat
      /\ Limit = MaxLength + Eps /\ groups \in Seq(Seq(Intervals))
      /\ iv.start \in Nat /\ iv.end \in Nat /\ iv = filtered[at]
      /\ \A m \in DOMAIN filtered : m \in Nat /\ filtered[m].start \in Nat
      /\ Apart(filtered)
  BY <1>2, <1>3, FilteredParts, TypeParts DEF iv
<1>5. /\ x \in Nat /\ pieceStart < x /\ x <= pieceStart + MaxLength /\ x <= iv.end
      /\ x = pieceStart + MaxLength \/ x = iv.end
  BY <1>1, <1>4 DEF Smaller
<1>6. v \in Intervals /\ v.start = pieceStart /\ v.end = x
  BY <1>4, <1>5 DEF Intervals
<1> HIDE DEF v, x
<1>7. /\ <<v>> \in Seq(Intervals) /\ <<v>> # <<>> /\ <<v>>[1] = v /\ Last(<<v>>) = v
      /\ DOMAIN <<v>> = {1}
  BY <1>6, OneParts
<1>8. GroupOK(<<v>>)
  <2>1. Span(<<v>>) = x - pieceStart
    BY <1>6, <1>7 DEF Span
  <2>2. 0 < x - pieceStart /\ x - pieceStart <= Limit
    BY <1>4, <1>5
  <2> QED
    BY <1>7, <2>1, <2>2 DEF GroupOK
<1>9. /\ groups' \in Seq(Seq(Intervals)) /\ Ordered(Append(groups, <<v>>))
      /\ \A y : Before(groups', y) <=> Before(groups, y) /\ x <= y
      /\ \A t : Sent(t, groups') <=> Sent(t, groups) \/ In(t, <<v>>)
  BY <1>1, <1>3, <1>4, <1>6, <1>7, <1>8, GroupsGrown
<1>10. \A t : In(t, <<v>>) <=> pieceStart <= t /\ t < x
  BY <1>6, <1>7 DEF In, Lies
<1>11. /\ Ordered(groups)' /\ Limit' = Limit /\ FilteredInv' /\ (AllFit' <=> AllFit)
  BY <1>1, <1>2, <1>9, GroupFrame
<1>12. TypeInv'
  <2>1. /\ input' \in Inputs /\ at' \in Nat \ {0} /\ prev' \in Nat
        /\ nonSilent' \in Seq(Intervals)
        /\ expanded' \in Seq(Intervals) /\ filtered' \in Seq(Intervals)
        /\ segmentStart' \in Nat /\ cur' \in Seq(Intervals) /\ phase' \in Phases
    BY <1>1, <1>2 DEF TypeInv, Phases
  <2>2. pieceStart' \in Nat
    BY <1>1, <1>4
  <2> QED
    BY <1>9, <2>1, <2>2 DEF TypeInv
<1>13. iv' = iv
  BY <1>1 DEF iv
<1>14. NextInv'
  <2>1. ASSUME NEW m \in DOMAIN filtered, m > at
        PROVE  Before(groups', filtered[m].start)
    <3>1. Before(groups, filtered[m].start)
      BY <1>3, <2>1 DEF NextInv
    <3>2. iv.end < filtered[m].start
      BY <1>3, <1>4, <2>1 DEF Apart
    <3>3. x <= filtered[m].start
      BY <1>4, <1>5, <3>2
    <3> QED
      BY <1>9, <3>1, <3>3
  <2> QED
    BY <1>1, <2>1 DEF NextInv
<1>15. SplitInv'
  <2>1. Before(groups', pieceStart + MaxLength)
    <3> SUFFICES Before(groups, pieceStart + MaxLength)
      BY <1>5, <1>9
    <3> SUFFICES ASSUME NEW k \in DOMAIN groups
                 PROVE  Last(groups[k]).end <= pieceStart + MaxLength
      BY DEF Before
    <3>1. groups[k] \in Seq(Intervals) /\ groups[k] # <<>>
      BY <1>3, <1>4, SeqParts DEF Ordered, GroupOK
    <3>2. Last(groups[k]).end \in Nat
      BY <3>1, LastOf, IntervalParts
    <3>3. Last(groups[k]).end <= pieceStart
      BY <1>3 DEF Before
    <3> QED
      BY <1>4, <3>2, <3>3
  <2>2. Before(groups', iv.end)
    BY <1>3, <1>5, <1>9
  <2>3. ASSUME NEW t \in Nat, Lies(t, iv), t < pieceStart + MaxLength
        PROVE  Sent(t, groups')
    <3>1. CASE t < pieceStart
      BY <1>3, <1>9, <2>3, <3>1
    <3>2. CASE ~ (t < pieceStart)
      <4>1. t < iv.end
        BY <2>3 DEF Lies
      <4>2. pieceStart <= t /\ t < x
        BY <1>4, <1>5, <2>3, <3>2, <4>1
      <4> QED
        BY <1>9, <1>10, <4>2
    <3> QED
      BY <3>1, <3>2
  <2>4. /\ Before(groups', pieceStart') /\ Before(groups', iv'.end) /\ cur' = <<>>
        /\ at' \in DOMAIN filtered' /\ Duration(iv') > Limit'
    BY <1>1, <1>3, <1>11, <1>13, <2>1, <2>2
  <2>5. \A t \in Nat : Lies(t, iv') /\ t < pieceStart' => Sent(t, groups')
    BY <1>1, <1>13, <2>3
  <2> QED
    BY <2>4, <2>5 DEF SplitInv
<1>16. CoverInv'
  <2>1. ASSUME NEW m \in DOMAIN filtered, m < at, NEW t \in Nat, Lies(t, filtered[m])
        PROVE  \/ Sent(t, groups') \/ In(t, cur)
               \/ Duration(filtered[m]) > Limit /\ filtered[m].end - Eps <= t
    BY <1>3, <1>9, <2>1 DEF CoverInv, InTail
  <2> QED
    BY <1>1, <1>11, <2>1 DEF CoverInv, InTail
<1>17. GreedyInv'
  <2>1. ~ AllFit
    BY <1>2, <1>3, <1>4, LongNeverFits
  <2> QED
    BY <1>11, <2>1 DEF GreedyInv
<1>18. CurInv'
  BY <1>1, <1>3 DEF CurInv
<1>19. GroupInv'
  BY <1>1, <1>11, <1>14, <1>15, <1>16, <1>17, <1>18 DEF GroupInv
<1> QED
  BY <1>1, <1>11, <1>12, <1>19 DEF IInv, InvertInv, ExpandInv, FilterInv, ExpandedExact

\* What is left of the interval is within the tolerance.
LEMMA SplitEndOK == IInv /\ SplitEnd => IInv'
<1> SUFFICES ASSUME IInv, SplitEnd PROVE IInv'
  OBVIOUS
<1>1. /\ phase = "split" /\ phase' = "group" /\ ~ (pieceStart < iv.end - Eps)
      /\ at' = at + 1 /\ groups' = groups /\ cur' = cur
      /\ segmentStart' = segmentStart /\ pieceStart' = pieceStart
      /\ input' = input /\ prev' = prev /\ nonSilent' = nonSilent
      /\ expanded' = expanded /\ filtered' = filtered
  BY DEF SplitEnd, PieceLeft
<1>2. TypeInv /\ FilteredInv /\ GroupInv
  BY DEF IInv
<1>3. /\ Ordered(groups) /\ NextInv /\ SplitInv /\ CoverInv
      /\ cur = <<>> /\ at \in DOMAIN filtered /\ Duration(iv) > Limit
      /\ \A t \in Nat : Lies(t, iv) /\ t < pieceStart => Sent(t, groups)
  BY <1>1, <1>2 DEF GroupInv, SplitInv
<1>4. /\ at \in Nat /\ pieceStart \in Nat /\ Eps \in Nat /\ iv.end \in Nat /\ iv = filtered[at]
      /\ \A m \in DOMAIN filtered : m \in Nat
  BY <1>2, <1>3, FilteredParts, TypeParts DEF iv
<1>5. /\ Ordered(groups)' /\ Limit' = Limit /\ FilteredInv' /\ (AllFit' <=> AllFit)
  BY <1>1, <1>2, <1>3, GroupFrame
<1>6. TypeInv'
  BY <1>1, <1>2, <1>4 DEF TypeInv, Phases
<1>7. NextInv'
  <2>1. \A m \in DOMAIN filtered : m > at + 1 \/ m = at + 1 => m > at
    BY <1>4
  <2> QED
    BY <1>1, <1>3, <2>1 DEF NextInv
<1>8. CoverInv'
  <2>1. ASSUME NEW m \in DOMAIN filtered, m < at + 1, NEW t \in Nat, Lies(t, filtered[m])
        PROVE  \/ Sent(t, groups) \/ In(t, cur)
               \/ Duration(filtered[m]) > Limit /\ filtered[m].end - Eps <= t
    <3>1. m < at \/ m = at
      BY <1>4, <2>1
    <3>2. CASE m < at
      BY <1>3, <2>1, <3>2 DEF CoverInv, InTail
    <3>3. CASE m = at
      <4>1. CASE t < pieceStart
        BY <1>3, <1>4, <2>1, <3>3, <4>1
      <4>2. CASE ~ (t < pieceStart)
        <5>1. iv.end - Eps <= t
          BY <1>1, <1>4, <4>2
        <5> QED
          BY <1>3, <1>4, <3>3, <5>1
      <4> QED
        BY <4>1, <4>2
    <3> QED
      BY <3>1, <3>2, <3>3
  <2> QED
    BY <1>1, <1>5, <2>1 DEF CoverInv, InTail
<1>9. GreedyInv'
  <2>1. ~ AllFit
    BY <1>2, <1>3, <1>4, LongNeverFits
  <2> QED
    BY <1>5, <2>1 DEF GreedyInv
<1>10. CurInv'
  BY <1>1, <1>3 DEF CurInv
<1>11. GroupInv'
  BY <1>1, <1>5, <1>7, <1>8, <1>9, <1>10 DEF GroupInv, SplitInv
<1> QED
  BY <1>1, <1>5, <1>6, <1>11 DEF IInv, InvertInv, ExpandInv, FilterInv, ExpandedExact

\* The last group is sent; then no group is being filled.
LEMMA GroupEndOK == IInv /\ GroupEnd => IInv'
<1> SUFFICES ASSUME IInv, GroupEnd PROVE IInv'
  OBVIOUS
<1>1. /\ phase = "group" /\ phase' = "done" /\ at > Len(filtered)
      /\ groups' = Flushed /\ cur' = <<>>
      /\ segmentStart' = (IF cur = <<>> THEN segmentStart ELSE 0) /\ pieceStart' = pieceStart
      /\ input' = input /\ at' = at /\ prev' = prev /\ nonSilent' = nonSilent
      /\ expanded' = expanded /\ filtered' = filtered
  BY DEF GroupEnd
<1>2. TypeInv /\ FilteredInv /\ GroupInv
  BY DEF IInv
<1>3. \A m \in DOMAIN filtered : m \in Nat /\ m < at
  BY <1>1, <1>2, FilteredParts, SeqParts
<1>4. /\ Flushed \in Seq(Seq(Intervals)) /\ Ordered(Flushed)
      /\ \A t : Sent(t, Flushed) <=> Sent(t, groups) \/ In(t, cur)
      /\ AllFit => Chain(Flushed)
  BY <1>1, <1>2, FlushKeeps
<1>5. /\ Ordered(groups)' /\ Limit' = Limit /\ FilteredInv' /\ (AllFit' <=> AllFit)
      /\ AllFit => Chain(groups)'
  BY <1>1, <1>2, <1>4, GroupFrame
<1>6. TypeInv'
  <2>1. /\ input' \in Inputs /\ at' \in Nat \ {0} /\ prev' \in Nat
        /\ nonSilent' \in Seq(Intervals)
        /\ expanded' \in Seq(Intervals) /\ filtered' \in Seq(Intervals)
        /\ segmentStart' \in Nat /\ pieceStart' \in Nat
    BY <1>1, <1>2 DEF TypeInv
  <2> QED
    BY <1>1, <1>4, <2>1, EmptyTypes DEF TypeInv, Phases
<1>7. NextInv'
  <2>1. \A m \in DOMAIN filtered : ~ (m > at)
    BY <1>2, <1>3, FilteredParts
  <2> QED
    BY <1>1, <2>1 DEF NextInv
<1>8. CoverInv'
  <2>1. CoverInv
    BY <1>1, <1>2 DEF GroupInv
  <2>2. ASSUME NEW m \in DOMAIN filtered, m < at, NEW t \in Nat, Lies(t, filtered[m])
        PROVE  Sent(t, groups') \/ (Duration(filtered[m]) > Limit /\ filtered[m].end - Eps <= t)
    BY <1>1, <1>4, <2>1, <2>2 DEF CoverInv, InTail
  <2> QED
    BY <1>1, <1>5, <2>2 DEF CoverInv, InTail
<1>9. GreedyInv' /\ CurInv'
  BY <1>1, <1>5 DEF GreedyInv, CurInv
<1>10. GroupInv'
  BY <1>1, <1>5, <1>7, <1>8, <1>9 DEF GroupInv, SplitInv
<1> QED
  BY <1>1, <1>5, <1>6, <1>10 DEF IInv, InvertInv, ExpandInv, FilterInv, ExpandedExact

\* The interval that joins the group extends its span to its own end.
LEMMA JoinKeeps ==
  ASSUME TypeInv, FilteredInv, GroupInv, phase = "group", at \in DOMAIN filtered,
         cur # <<>>, Joins
  PROVE  /\ Append(cur, iv) \in Seq(Intervals) /\ Append(cur, iv) # <<>>
         /\ GroupOK(Append(cur, iv)) /\ Append(cur, iv)[1] = cur[1]
         /\ Last(Append(cur, iv)) = iv
<1>1. /\ cur \in Seq(Intervals) /\ at \in Nat /\ iv = filtered[at] /\ iv \in Intervals
      /\ iv.start \in Nat /\ iv.end \in Nat /\ iv.start < iv.end /\ Limit \in Nat
  BY TypeParts, FilteredParts DEF iv
<1>2. /\ segmentStart = cur[1].start /\ GroupOK(cur)
      /\ Last(cur).end <= iv.start
  BY <1>1 DEF GroupInv, CurInv
<1>3. /\ cur[1].start \in Nat /\ Last(cur).end \in Nat
  BY <1>1, LastOf, IntervalParts
<1>4. 0 < Last(cur).end - cur[1].start
  BY <1>2 DEF GroupOK, Span
<1>5. iv.end - cur[1].start <= Limit
  BY <1>2 DEF Joins
<1>6. /\ Append(cur, iv) \in Seq(Intervals) /\ Append(cur, iv) # <<>>
      /\ Append(cur, iv)[1] = cur[1] /\ Last(Append(cur, iv)) = iv
  BY <1>1, Grown
<1>7. 0 < iv.end - cur[1].start
  BY <1>1, <1>2, <1>3, <1>4
<1>8. Span(Append(cur, iv)) = iv.end - cur[1].start
  BY <1>6 DEF Span
<1> QED
  BY <1>5, <1>6, <1>7, <1>8 DEF GroupOK

\* The interval joins the group or begins the next one; it is never empty here.
LEMMA GroupOKStep == IInv /\ Group => IInv'
<1> SUFFICES ASSUME IInv, Group PROVE IInv'
  OBVIOUS
<1>1. /\ phase = "group" /\ phase' = "group" /\ at <= Len(filtered) /\ at' = at + 1
      /\ Duration(iv) <= Limit /\ pieceStart' = pieceStart
      /\ input' = input /\ prev' = prev /\ nonSilent' = nonSilent
      /\ expanded' = expanded /\ filtered' = filtered
  BY DEF Group, Grouping
<1>2. TypeInv /\ FilteredInv /\ GroupInv
  BY DEF IInv
<1>3. /\ at \in DOMAIN filtered /\ at \in Nat /\ iv = filtered[at] /\ iv \in Intervals
      /\ iv.start \in Nat /\ iv.end \in Nat /\ iv.start < iv.end
      /\ Duration(iv) = iv.end - iv.start /\ Limit \in Nat
      /\ \A m \in DOMAIN filtered : m \in Nat /\ filtered[m].start \in Nat
      /\ Apart(filtered) /\ cur \in Seq(Intervals) /\ groups \in Seq(Seq(Intervals))
      /\ segmentStart \in Nat
  BY <1>1, <1>2, FilteredParts, TypeParts DEF iv
<1>4. /\ Ordered(groups) /\ CurInv /\ NextInv /\ CoverInv /\ GreedyInv
  BY <1>1, <1>2 DEF GroupInv
<1>5. ASSUME NEW m \in DOMAIN filtered, m >= at + 1
      PROVE  m > at /\ m >= at /\ iv.end <= filtered[m].start /\ iv.start <= filtered[m].start
  <2>1. m > at /\ m >= at
    BY <1>3, <1>5
  <2>2. iv.end < filtered[m].start
    BY <1>3, <2>1 DEF Apart
  <2> QED
    BY <1>3, <2>1, <2>2
<1>6. /\ FilteredInv' /\ (AllFit' <=> AllFit) /\ Limit' = Limit
  <2>1. \E gs : gs = groups'
    OBVIOUS
  <2> QED
    BY <1>1, <1>2, <2>1, GroupFrame
\* What the new state has to satisfy, whichever way the interval went.
<1> DEFINE
  Good(c, s, gs) ==
    /\ c \in Seq(Intervals) /\ s \in Nat /\ gs \in Seq(Seq(Intervals))
    /\ Ordered(gs) /\ GroupOK(c) /\ s = c[1].start /\ Before(gs, s)
    /\ Last(c).end = iv.end
    /\ \A m \in DOMAIN filtered : m >= at + 1 => Before(gs, filtered[m].start)
    /\ \A t : Sent(t, groups) \/ In(t, cur) \/ Lies(t, iv) => Sent(t, gs) \/ In(t, c)
    /\ AllFit => /\ Chain(gs) /\ \E j \in DOMAIN filtered : c[1] = filtered[j]
                 /\ gs # <<>> => Exceeds(Last(gs), c)
<1>7. ASSUME Good(cur', segmentStart', groups') PROVE IInv'
  <2>1. /\ cur' \in Seq(Intervals) /\ segmentStart' \in Nat /\ groups' \in Seq(Seq(Intervals))
        /\ Ordered(groups') /\ GroupOK(cur') /\ segmentStart' = cur'[1].start
        /\ Before(groups', segmentStart') /\ Last(cur').end = iv.end
        /\ \A m \in DOMAIN filtered : m >= at + 1 => Before(groups', filtered[m].start)
        /\ \A t : Sent(t, groups) \/ In(t, cur) \/ Lies(t, iv) =>
                  Sent(t, groups') \/ In(t, cur')
    BY <1>7
  <2>2. AllFit => /\ Chain(groups')
                  /\ \E j \in DOMAIN filtered : cur'[1] = filtered[j]
                  /\ groups' # <<>> => Exceeds(Last(groups'), cur')
    BY <1>7
  <2> HIDE DEF Good
  <2>3. Ordered(groups)' /\ (AllFit => Chain(groups)')
    <3> DEFINE gs == groups'
    <3>1. Ordered(gs) /\ (AllFit => Chain(gs)) /\ groups' = gs
      BY <2>1, <2>2
    <3> HIDE DEF gs
    <3> QED
      BY <1>1, <3>1, GroupFrame
  <2>4. TypeInv'
    BY <1>1, <1>2, <1>3, <2>1 DEF TypeInv
  <2>5. CurInv'
    <3>1. GroupOK(cur)'
      BY <1>6, <2>1 DEF GroupOK
    <3>2. \A m \in DOMAIN filtered' : m >= at' => Last(cur').end <= filtered'[m].start
      BY <1>1, <1>5, <2>1
    <3> QED
      BY <2>1, <3>1, <3>2 DEF CurInv
  <2>6. NextInv'
    <3>1. \A m \in DOMAIN filtered : m > at + 1 \/ m = at + 1 => m >= at + 1
      BY <1>3
    <3> QED
      BY <1>1, <2>1, <3>1 DEF NextInv
  <2>7. CoverInv'
    <3>1. ASSUME NEW m \in DOMAIN filtered, m < at + 1, NEW t \in Nat, Lies(t, filtered[m])
          PROVE  \/ Sent(t, groups') \/ In(t, cur')
                 \/ Duration(filtered[m]) > Limit /\ filtered[m].end - Eps <= t
      <4>1. m < at \/ m = at
        BY <1>3, <3>1
      <4>2. CASE m < at
        BY <1>4, <2>1, <3>1, <4>2 DEF CoverInv, InTail
      <4>3. CASE m = at
        BY <1>3, <2>1, <3>1, <4>3
      <4> QED
        BY <4>1, <4>2, <4>3
    <3> QED
      BY <1>1, <1>6, <3>1 DEF CoverInv, InTail
  <2>8. GreedyInv'
    <3>1. AllFit /\ groups' # <<>> => Exceeds(Last(groups), cur)'
      BY <1>1, <1>6, <2>2 DEF Exceeds
    <3>2. cur' # <<>>
      BY <2>1 DEF GroupOK
    <3> QED
      BY <1>1, <1>6, <2>2, <2>3, <3>1, <3>2 DEF GreedyInv
  <2>9. GroupInv'
    BY <1>1, <2>3, <2>5, <2>6, <2>7, <2>8 DEF GroupInv, SplitInv
  <2> QED
    BY <1>1, <1>6, <2>4, <2>9 DEF IInv, InvertInv, ExpandInv, FilterInv, ExpandedExact
<1>8. CASE cur # <<>> /\ Joins
  <2>1. cur' = Append(cur, iv) /\ segmentStart' = segmentStart /\ groups' = groups
    <3>1. ~ (iv.end <= iv.start)
      BY <1>3
    <3> QED
      BY <1>8, <3>1 DEF Group
  <2>2. /\ Append(cur, iv) \in Seq(Intervals) /\ Append(cur, iv) # <<>>
        /\ GroupOK(Append(cur, iv)) /\ Append(cur, iv)[1] = cur[1]
        /\ Last(Append(cur, iv)) = iv
    BY <1>1, <1>2, <1>3, <1>8, JoinKeeps
  <2>3. /\ segmentStart = cur[1].start /\ Before(groups, segmentStart)
    BY <1>4, <1>8 DEF CurInv
  <2>4. \A m \in DOMAIN filtered : m >= at + 1 => Before(groups, filtered[m].start)
    BY <1>4, <1>5 DEF NextInv
  <2>5. \A t : In(t, Append(cur, iv)) <=> In(t, cur) \/ Lies(t, iv)
    BY <1>3, InGrown
  <2>6. AllFit => /\ Chain(groups) /\ \E j \in DOMAIN filtered : cur[1] = filtered[j]
                  /\ groups # <<>> => Exceeds(Last(groups), cur)
    BY <1>4, <1>8 DEF GreedyInv
  <2>7. Exceeds(Last(groups), cur) => Exceeds(Last(groups), Append(cur, iv))
    BY <2>2 DEF Exceeds
  <2>8. Good(Append(cur, iv), segmentStart, groups)
    BY <1>3, <1>4, <2>2, <2>3, <2>4, <2>5, <2>6, <2>7
  <2> QED
    BY <1>7, <2>1, <2>8
<1>9. CASE ~ (cur # <<>> /\ Joins)
  <2>1. cur' = <<iv>> /\ segmentStart' = iv.start /\ groups' = Flushed
    <3>1. ~ (iv.end <= iv.start)
      BY <1>3
    <3> QED
      BY <1>9, <3>1 DEF Group
  <2>2. /\ Flushed \in Seq(Seq(Intervals)) /\ Ordered(Flushed)
        /\ \A m \in DOMAIN filtered : m >= at => Before(Flushed, filtered[m].start)
        /\ \A t : Sent(t, Flushed) <=> Sent(t, groups) \/ In(t, cur)
        /\ AllFit => Chain(Flushed)
        /\ cur # <<>> => Last(Flushed) = cur
        /\ AllFit /\ cur = <<>> => Flushed = <<>>
    BY <1>1, <1>2, FlushKeeps
  <2>3. /\ <<iv>> \in Seq(Intervals) /\ <<iv>> # <<>> /\ DOMAIN <<iv>> = {1}
        /\ <<iv>>[1] = iv /\ Last(<<iv>>) = iv
    BY <1>3, OneParts
  <2>4. GroupOK(<<iv>>)
    <3>1. Span(<<iv>>) = iv.end - iv.start
      BY <2>3 DEF Span
    <3>2. 0 < iv.end - iv.start /\ iv.end - iv.start <= Limit
      BY <1>1, <1>3
    <3> QED
      BY <2>3, <3>1, <3>2 DEF GroupOK
  <2>5. Before(Flushed, iv.start)
    <3>1. at >= at
      BY <1>3
    <3> QED
      BY <1>3, <2>2, <3>1
  <2>6. \A m \in DOMAIN filtered : m >= at + 1 => Before(Flushed, filtered[m].start)
    BY <1>5, <2>2
  <2>7. \A t : In(t, <<iv>>) <=> Lies(t, iv)
    BY <2>3 DEF In
  <2>8. ASSUME AllFit, Flushed # <<>> PROVE Exceeds(Last(Flushed), <<iv>>)
    <3>1. cur # <<>> /\ ~ Joins /\ Last(Flushed) = cur
      BY <1>9, <2>2, <2>8
    <3>2. PICK i \in DOMAIN filtered : cur[1] = filtered[i]
      BY <1>4, <2>8, <3>1 DEF GreedyInv
    <3>3. segmentStart = filtered[i].start
      BY <1>4, <3>1, <3>2 DEF CurInv
    <3>4. filtered[at].end - filtered[i].start > Limit
      BY <1>3, <3>1, <3>3 DEF Joins
    <3> QED
      BY <1>3, <2>3, <3>1, <3>2, <3>4 DEF Exceeds
  <2>9. Good(<<iv>>, iv.start, Flushed)
    <3>1. AllFit => /\ Chain(Flushed) /\ \E j \in DOMAIN filtered : <<iv>>[1] = filtered[j]
                    /\ Flushed # <<>> => Exceeds(Last(Flushed), <<iv>>)
      BY <1>3, <2>2, <2>3, <2>8
    <3> QED
      BY <1>3, <2>2, <2>3, <2>4, <2>5, <2>6, <2>7, <3>1
  <2> QED
    BY <1>7, <2>1, <2>9
<1> QED
  BY <1>8, <1>9

-----------------------------------------------------------------------------
(***************************************************************************)
(* The invariant, and what it says of the results.                         *)
(***************************************************************************)
\* Every step preserves the invariant.
LEMMA StepOK == IInv /\ [Next]_vars => IInv'
<1> SUFFICES ASSUME IInv, [Next]_vars PROVE IInv'
  OBVIOUS
<1>1. CASE UNCHANGED vars
  <2>1. /\ input' = input /\ phase' = phase /\ at' = at /\ prev' = prev
        /\ nonSilent' = nonSilent /\ expanded' = expanded /\ filtered' = filtered
        /\ cur' = cur /\ segmentStart' = segmentStart /\ pieceStart' = pieceStart
        /\ groups' = groups
    BY <1>1 DEF vars
  <2>2. /\ Speech' = Speech /\ Recording' = Recording /\ Limit' = Limit
        /\ MinSpeech' = MinSpeech /\ iv' = iv
    BY <2>1 DEF Speech, Horizon, Recording, Limit, MaxLength, MinSpeech, iv
  <2>3. TypeInv' /\ FilterInv'
    BY <2>1 DEF IInv, TypeInv, FilterInv, NoGroups
  <2>4. InvertInv'
    BY <2>1 DEF IInv, InvertInv, NoGroups, Heard
  <2>5. ExpandInv'
    BY <2>1, <2>2 DEF IInv, ExpandInv, NoGroups, Padded
  <2>6. FilteredInv' /\ ExpandedExact'
    BY <2>1, <2>2 DEF IInv, FilteredInv, ExpandedExact
  <2>7. GroupInv'
    <3>1. GroupInv
      BY DEF IInv
    <3>2. /\ CurInv => CurInv'
          /\ NextInv => NextInv'
          /\ SplitInv => SplitInv'
          /\ CoverInv => CoverInv'
          /\ GreedyInv => GreedyInv'
          /\ Ordered(groups) => Ordered(groups)'
      BY <2>1, <2>2 DEF CurInv, NextInv, SplitInv, CoverInv, GreedyInv, Ordered, GroupOK,
                        InTail, AllFit, Chain, Exceeds
    <3> QED
      BY <2>1, <3>1, <3>2 DEF GroupInv
  <2> QED
    BY <2>3, <2>4, <2>5, <2>6, <2>7 DEF IInv
<1>2. CASE Next
  BY <1>1, <1>2, NoDurationOK, InvertOK, InvertEndOK, ExpandOK, ExpandEndOK, FilterOK,
     FilterEndOK, SplitBeginOK, SplitPieceOK, SplitEndOK, GroupOKStep, GroupEndOK
     DEF Next, Finished
<1> QED
  BY <1>1, <1>2

\* The invariant holds in every state of every behaviour.
LEMMA Invariant == Spec => []IInv
BY InitOK, StepOK, PTL DEF Spec

\* InvertAndExpand, for any silences and any padding: the expanded intervals cover
\* the ticks of the recording within the padding of speech, and no others.
THEOREM PaddingIsExact == Spec => []ExpandedExact
<1>1. IInv => ExpandedExact
  BY DEF IInv
<1> QED
  BY <1>1, Invariant, PTL

\* Ticks, as the properties write them, and Lies, as the invariant does.
LEMMA TicksAreLies ==
  ASSUME NEW v \in Intervals, NEW t
  PROVE  t \in Ticks(v) <=> t \in Nat /\ Lies(t, v)
<1>1. v.start \in Nat /\ v.end \in Nat
  BY IntervalParts
<1> QED
  BY <1>1 DEF Ticks, Lies

\* InvertAndExpand, for any silences, padding and minimum: its intervals are in order,
\* do not touch, lie in the recording, and none is shorter than the minimum.
THEOREM IntervalsOfSpeech == Spec => []IntervalsUsable
<1>1. ASSUME IInv PROVE IntervalsUsable
  <2>1. /\ TypeInv /\ FilteredInv /\ Apart(filtered)
        /\ \A k \in DOMAIN filtered : filtered[k].end <= input.duration
        /\ \A k \in DOMAIN filtered : filtered[k].end - filtered[k].start >= MinSpeech
        /\ input.duration \in Int
    BY <1>1, InputParts DEF IInv, FilteredInv, Within, TypeInv
  <2>2. ASSUME NEW k \in DOMAIN filtered
        PROVE  /\ Ticks(filtered[k]) \subseteq Recording
               /\ Duration(filtered[k]) >= MinSpeech
    <3>1. /\ filtered[k].start \in Nat /\ filtered[k].end \in Nat
          /\ Duration(filtered[k]) = filtered[k].end - filtered[k].start
      BY <2>1, FilteredParts
    <3>2. Ticks(filtered[k]) \subseteq Recording
      BY <2>1, <3>1 DEF Ticks, Recording
    <3> QED
      BY <2>1, <3>1, <3>2
  <2> QED
    BY <2>1, <2>2 DEF IntervalsUsable
<1> QED
  BY <1>1, Invariant, PTL

\* Before there are groups, there is nothing to say of them.
LEMMA GroupsInOrder == ASSUME IInv PROVE Ordered(groups)
<1>1. CASE phase \in {"group", "split", "done"}
  BY <1>1 DEF IInv, GroupInv
<1>2. CASE phase \in {"invert", "expand", "filter"}
  <2>1. groups = <<>>
    BY <1>2 DEF IInv, InvertInv, ExpandInv, FilterInv, NoGroups
  <2> QED
    BY <2>1, EmptyParts DEF Ordered
<1> QED
  BY <1>1, <1>2 DEF IInv, TypeInv, Phases

\* GroupIntervalsByMaxSpan, for any maximum and tolerance: every group has a positive
\* span of at most their sum, the pieces of an interval that is cut up included.
THEOREM GroupsFitTheLimit == Spec => []SpansBounded
<1>1. IInv => SpansBounded
  BY GroupsInOrder DEF SpansBounded, Ordered, GroupOK
<1> QED
  BY <1>1, Invariant, PTL

\* GroupIntervalsByMaxSpan sends no audio twice, and loses none but the tail of an
\* interval it cuts up, which is at most the tolerance long.
THEOREM NothingTwiceNothingLost == Spec => []GroupsCover
<1>1. ASSUME IInv PROVE GroupsCover
  <2>1. TypeInv /\ FilteredInv /\ GroupInv /\ Ordered(groups)
    BY <1>1, GroupsInOrder DEF IInv
  <2>2. /\ groups \in Seq(Seq(Intervals)) /\ Eps \in Nat
        /\ \A k \in DOMAIN groups : groups[k] \in Seq(Intervals)
    BY <2>1, TypeParts, FilteredParts, SeqParts
  <2>3. ASSUME phase = "done", NEW k \in DOMAIN filtered, NEW t \in Ticks(filtered[k]),
               t \notin InGroups
        PROVE  t \in IF Duration(filtered[k]) > Limit
                     THEN filtered[k].end - Eps .. filtered[k].end - 1 ELSE {}
    <3>1. /\ k \in Nat /\ k <= Len(filtered) /\ at \in Nat /\ filtered[k] \in Intervals
          /\ filtered[k].start \in Nat /\ filtered[k].end \in Nat
          /\ Len(filtered) \in Nat
      BY <2>1, FilteredParts, SeqParts
    <3>2. cur = <<>> /\ k < at /\ CoverInv
      BY <2>1, <2>3, <3>1 DEF GroupInv
    <3>3. t \in Nat /\ t \in Int /\ Lies(t, filtered[k])
      BY <3>1, TicksAreLies
    <3>4. ~ In(t, cur)
      BY <3>2, EmptyIsAll
    <3>5. ~ Sent(t, groups)
      <4>1. ASSUME NEW j \in DOMAIN groups, In(t, groups[j]) PROVE FALSE
        <5>1. t \in Covered(groups[j])
          BY <2>2, <3>3, <4>1, CoveredIsIn
        <5> QED
          BY <2>3, <5>1 DEF InGroups
      <4> QED
        BY <4>1 DEF Sent
    <3>6. InTail(t, filtered[k])
      BY <3>2, <3>3, <3>4, <3>5 DEF CoverInv
    <3>7. Duration(filtered[k]) > Limit /\ filtered[k].end - Eps <= t
      BY <3>6 DEF InTail
    <3>8. t < filtered[k].end
      BY <3>3 DEF Lies
    <3>9. t \in filtered[k].end - Eps .. filtered[k].end - 1
      BY <2>2, <3>1, <3>3, <3>7, <3>8
    <3> QED
      BY <3>7, <3>9
  <2>4. \A j, k \in DOMAIN groups : j < k => Last(groups[j]).end <= groups[k][1].start
    BY <2>1 DEF Ordered
  <2> QED
    BY <2>3, <2>4 DEF GroupsCover
<1> QED
  BY <1>1, Invariant, PTL

-----------------------------------------------------------------------------
(***************************************************************************)
(* Greedy grouping is optimal: between the beginnings of two groups that   *)
(* follow each other any other way has to cut, and no cut serves twice.    *)
(***************************************************************************)
\* Intervals in order are ordered as their indices are.
LEMMA IndexOrder ==
  ASSUME TypeInv, FilteredInv, NEW i \in DOMAIN filtered, NEW j \in DOMAIN filtered
  PROVE  /\ filtered[i].start <= filtered[j].start => i <= j
         /\ filtered[j].end - filtered[i].start > Limit => i <= j
<1>1. /\ Apart(filtered) /\ i \in Nat /\ j \in Nat /\ Limit \in Nat
      /\ filtered[i].start \in Nat /\ filtered[i].end \in Nat
      /\ filtered[i].start < filtered[i].end
      /\ filtered[j].start \in Nat /\ filtered[j].end \in Nat
      /\ filtered[j].start < filtered[j].end
  BY FilteredParts
<1>2. CASE j < i
  <2>1. filtered[j].end < filtered[i].start
    BY <1>1, <1>2 DEF Apart
  <2> QED
    BY <1>1, <2>1
<1>3. CASE ~ (j < i)
  BY <1>1, <1>3
<1> QED
  BY <1>2, <1>3

\* Where the groups before the last one begin and what does not fit into them.
LEMMA GroupStarts ==
  ASSUME TypeInv, Ordered(groups), NEW k \in DOMAIN groups, NEW l \in DOMAIN groups, k <= l
  PROVE  groups[k][1].start <= groups[l][1].start
<1>1. /\ groups \in Seq(Seq(Intervals)) /\ k \in Nat /\ l \in Nat
      /\ groups[k] \in Seq(Intervals) /\ groups[l] \in Seq(Intervals)
  BY TypeParts, SeqParts
<1>2. groups[k] # <<>> /\ groups[l] # <<>> /\ 0 < Span(groups[k])
  BY DEF Ordered, GroupOK
<1>3. /\ groups[k][1].start \in Nat /\ groups[l][1].start \in Nat /\ Last(groups[k]).end \in Nat
  BY <1>1, <1>2, LastOf, IntervalParts
<1>4. CASE k < l
  <2>1. Last(groups[k]).end <= groups[l][1].start
    BY <1>4 DEF Ordered
  <2> QED
    BY <1>2, <1>3, <2>1 DEF Span
<1>5. CASE k = l
  BY <1>3, <1>5
<1> QED
  BY <1>1, <1>4, <1>5

\* GroupIntervalsByMaxSpan, when no interval has to be cut up: no way to cut the
\* intervals into groups within the limit has fewer groups.
THEOREM GreedyIsOptimal == Spec => []FewestGroups
<1>1. ASSUME IInv, phase = "done", AllFit, NEW cuts \in SUBSET (1 .. Len(filtered) - 1),
             Fits(cuts)
      PROVE  Len(groups) <= Cardinality(cuts) + 1
  <2> DEFINE n == Len(groups)
  <2>1. /\ TypeInv /\ FilteredInv /\ Ordered(groups) /\ Chain(groups)
    BY <1>1, GroupsInOrder DEF IInv, GroupInv, GreedyInv
  <2>2. /\ groups \in Seq(Seq(Intervals)) /\ n \in Nat /\ DOMAIN groups = 1 .. n
        /\ filtered \in Seq(Intervals) /\ DOMAIN filtered = 1 .. Len(filtered)
        /\ Len(filtered) \in Nat
    BY <2>1, TypeParts, SeqParts
  <2>3. IsFiniteSet(cuts) /\ Cardinality(cuts) \in Nat
    <3>1. IsFiniteSet(1 .. Len(filtered) - 1)
      BY <2>2, FS_Interval
    <3>2. cuts \subseteq 1 .. Len(filtered) - 1
      OBVIOUS
    <3> QED
      BY <3>1, <3>2, FS_Subset, FS_CardinalityType
  \* The cut between the beginnings of the k-th group and of the next.
  <2> DEFINE Between(k, c) == \E i, j \in DOMAIN filtered :
                                /\ groups[k][1] = filtered[i]
                                /\ groups[k + 1][1] = filtered[j]
                                /\ i <= c /\ c < j
  <2>4. ASSUME NEW k \in 1 .. n - 1
        PROVE  \E c \in cuts : Between(k, c)
    <3>1. k \in DOMAIN groups /\ k + 1 \in DOMAIN groups
      BY <2>2
    <3>2. PICK i, j \in DOMAIN filtered :
                 /\ groups[k][1] = filtered[i] /\ groups[k + 1][1] = filtered[j]
                 /\ filtered[j].end - filtered[i].start > Limit
      BY <2>1, <3>1 DEF Chain, Exceeds
    <3>3. i <= j /\ i \in 1 .. Len(filtered) /\ j \in 1 .. Len(filtered)
      BY <2>1, <2>2, <3>2, IndexOrder
    <3>4. ~ (filtered[j].end - filtered[i].start <= Limit)
      <4>1. filtered[j].end \in Nat /\ filtered[i].start \in Nat /\ Limit \in Nat
        BY <2>1, FilteredParts
      <4> QED
        BY <3>2, <4>1
    <3>5. \E c \in cuts : i <= c /\ c < j
      BY <1>1, <3>3, <3>4 DEF Fits
    <3> QED
      BY <3>2, <3>5
  <2> DEFINE f == [k \in 1 .. n - 1 |-> CHOOSE c \in cuts : Between(k, c)]
  <2>5. \A k \in 1 .. n - 1 : f[k] \in cuts /\ f[k] \in Nat /\ Between(k, f[k])
    <3>1. cuts \subseteq 1 .. Len(filtered) - 1
      OBVIOUS
    <3>2. cuts \subseteq Nat
      BY <2>2, <3>1
    <3> HIDE DEF Between
    <3> QED
      BY <2>4, <3>2
  <2>6. ASSUME NEW k \in 1 .. n - 1, NEW l \in 1 .. n - 1, k < l
        PROVE  f[k] < f[l]
    <3> HIDE DEF f
    <3>1. PICK i, j \in DOMAIN filtered :
                 /\ groups[k + 1][1] = filtered[j] /\ f[k] < j
      BY <2>5
    <3>2. PICK h, m \in DOMAIN filtered :
                 /\ groups[l][1] = filtered[h] /\ h <= f[l]
      BY <2>5
    <3>3. k + 1 \in DOMAIN groups /\ l \in DOMAIN groups /\ k + 1 <= l
      BY <2>2, <2>6
    <3>4. groups[k + 1][1].start <= groups[l][1].start
      BY <2>1, <3>3, GroupStarts
    <3>5. j <= h
      BY <2>1, <3>1, <3>2, <3>4, IndexOrder
    <3>6. f[k] \in Nat /\ f[l] \in Nat /\ j \in Nat /\ h \in Nat
      <4> HIDE DEF Between
      <4> QED
        BY <2>2, <2>5
    <3> QED
      BY <3>1, <3>2, <3>5, <3>6
  <2>7. f \in Injection(1 .. n - 1, cuts)
    <3>1. f \in [1 .. n - 1 -> cuts]
      BY <2>5
    <3> HIDE DEF f, Between
    <3>2. ASSUME NEW k \in 1 .. n - 1, NEW l \in 1 .. n - 1, f[k] = f[l] PROVE k = l
      <4>1. f[k] \in Nat /\ f[l] \in Nat
        BY <2>5
      <4>2. ~ (f[k] < f[l]) /\ ~ (f[l] < f[k])
        BY <3>2, <4>1
      <4>3. ~ (k < l) /\ ~ (l < k)
        BY <2>6, <4>2
      <4> QED
        BY <2>2, <4>3
    <3> QED
      BY <3>1, <3>2 DEF Injection, IsInjective
  <2>8. CASE n = 0
    BY <2>3, <2>8
  <2>9. CASE n # 0
    <3>1. Cardinality(1 .. n - 1) = n - 1
      <4>1. n - 1 \in Int /\ 1 \in Int /\ (IF 1 > n - 1 THEN 0 ELSE n - 1 - 1 + 1) = n - 1
        BY <2>2, <2>9
      <4> QED
        BY <4>1, FS_Interval
    <3>2. Cardinality(1 .. n - 1) <= Cardinality(cuts)
      BY <2>3, <2>7, FS_Injection
    <3> QED
      BY <2>2, <2>3, <3>1, <3>2
  <2> QED
    BY <2>8, <2>9
<1>2. IInv => FewestGroups
  BY <1>1 DEF FewestGroups, AllFit
<1> QED
  BY <1>2, Invariant, PTL
=============================================================================
