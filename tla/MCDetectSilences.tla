-------------------------- MODULE MCDetectSilences --------------------------
(***************************************************************************)
(* The instance of DetectSilences for TLC: up to three frames of up to two *)
(* samples, or two frames of up to three, empty frames included, at three  *)
(* levels, of which -6 dB makes the automatic thresholds -24 to -16 dB;    *)
(* and quiet recordings, with a maximum just above and below the floor.    *)
(***************************************************************************)
EXTENDS DetectSilences

FramesUpTo(n, levels) == UNION {[1 .. k -> levels] : k \in 0 .. n}

Loud  == {Zero, -21, -6}
Quiet == {-70, -63, -47}

ShortTakes == UNION {[1 .. n -> FramesUpTo(2, Loud)] : n \in 0 .. 3}
                \cup [1 .. 2 -> FramesUpTo(3, Loud)] \cup [1 .. 2 -> FramesUpTo(2, Quiet)]

Set(f, v) == [field |-> f, value |-> v]

Listed == [Default EXCEPT !.MinSilence = 0, !.Thresholds = <<-15, -30, -80, -90>>,
                          !.CodecThreads = 2]
Fixed  == [Default EXCEPT !.MinSilence = 33, !.ThresholdDB = <<-5>>]

SomeOptions ==
  {<<Set("MinSilence", 33)>>,
   <<Set("ThresholdFloor", -18), Set("ThresholdCeil", -22), Set("MinSilence", 33)>>,
   <<Set("Config", Listed), Set("MinSilence", -1), Set("FixedWorkers", 0)>>,
   <<Set("SegmentWorkers", -1), Set("MaxLength", 0), Set("CodecThreads", 3),
     Set("Config", Fixed), Set("CodecThreads", -1)>>}
=============================================================================
