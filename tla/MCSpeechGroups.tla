--------------------------- MODULE MCSpeechGroups ---------------------------
(***************************************************************************)
(* The instance of SpeechGroups for TLC: a recording of seven ticks with up  *)
(* to three silences, which may overlap, nest, touch, start together and   *)
(* reach beyond the recording; and one without a duration.                 *)
(***************************************************************************)
EXTENDS SpeechGroups

Silences == {s \in [start : 0 .. 6, end : 1 .. 8] : s.start < s.end}

\* The third silence takes one tick, as do those before it.
ThinSilences == {s \in Silences : s.end = s.start + 1}

Sequences ==
  {<<>>} \cup {<<a>> : a \in Silences}
    \cup {s \in Silences \X Silences : SortedByStart(s)}
    \cup {s \in ThinSilences \X ThinSilences \X ThinSilences : SortedByStart(s)}

SmallInputs ==
  [silences : Sequences, duration : {7}, padding : {0, 1}, minSpeech : {0, 1},
   maxLength : 0 .. 3]
  \cup
  [silences : {<<>>}, duration : {0}, padding : {0}, minSpeech : {0}, maxLength : {0}]
=============================================================================
