----------------------------- MODULE SilenceScan -----------------------------
(***************************************************************************)
(* One scan of the silence detector of smartaudio_libav.c:                *)
(* sa_silence_sample_cb is called with one frame of mono samples after the *)
(* other and keeps a pending silence between calls;                        *)
(* sa_close_pending_silence ends it.  A sample is abstracted to whether it *)
(* is silent (not NaN, and within the noise threshold).  Time is in ticks  *)
(* (microseconds), Base of them in the time of Rate samples; av_rescale_q  *)
(* rounds to the nearest tick, and the rounded duration of every frame is  *)
(* added up.  DetectSilences begins the scans, one per threshold.          *)
(***************************************************************************)
EXTENDS Integers, Sequences

CONSTANTS
  LeastSilence,  \* 1000 microseconds
  Rate, Base

ASSUME ScanAssumption ==
  /\ LeastSilence \in Nat \ {0} /\ Rate \in Nat \ {0} /\ Base \in Nat \ {0}

VARIABLES
  recording,   \* the frames, each a sequence of BOOLEAN: silent?
  requested,   \* min_silence_us as it was passed
  phase,       \* idle, between frames, inside one, or done
  frame,       \* the number of the frame
  i,           \* the number of the sample in it
  frameStart,  \* frame_start_us
  nextSample,  \* next_sample_us, which is also last_frame_end_us
  pending,     \* has_pending_silence, pending_start_us, pending_reported
  intervals    \* items

scanVars == <<recording, requested, phase, frame, i, frameStart, nextSample, pending,
              intervals>>

\* A faulty variant: the division truncates.
RescaleDown(k) == (k * Base) \div Rate

\* av_rescale_q(k, 1/Rate, 1/Base): to the nearest, halves up.
Rescale(k) == (2 * k * Base + Rate) \div (2 * Rate)

MinSilence == IF requested < LeastSilence THEN LeastSilence ELSE requested

NoSilence == [on |-> FALSE, start |-> 0, reported |-> FALSE]

ScanInit ==
  /\ recording = <<>> /\ requested = 0
  /\ phase = "idle" /\ frame = 1 /\ i = 1
  /\ frameStart = 0 /\ nextSample = 0
  /\ pending = NoSilence
  /\ intervals = <<>>

\* sa_silence_detect begins with a cleared sa_silence_capture.
BeginScan(frames, minSilence) ==
  /\ recording' = frames /\ requested' = minSilence
  /\ phase' = "between" /\ frame' = 1 /\ i' = 1
  /\ frameStart' = 0 /\ nextSample' = 0
  /\ pending' = NoSilence
  /\ intervals' = <<>>

\* A faulty variant: a silence ends with its frame.
CarriedNot == NoSilence

\* What a call inherits from the one before.
Carried == pending

\* sa_silence_sample_cb is called; a frame without samples is ignored.
BeginFrame ==
  /\ phase = "between" /\ frame <= Len(recording)
  /\ IF recording[frame] = <<>>
     THEN frame' = frame + 1 /\ UNCHANGED <<phase, frameStart, nextSample, pending>>
     ELSE /\ phase' = "inside" /\ UNCHANGED frame
          /\ frameStart' = nextSample
          /\ nextSample' = nextSample + Rescale(Len(recording[frame]))
          /\ pending' = Carried
  /\ i' = 1
  /\ UNCHANGED <<recording, requested, intervals>>

\* ts_us
Now == frameStart + Rescale(i - 1)

SilenceFrom(ts) == ts

LongEnough(ts) == pending.reported \/ ts - pending.start >= MinSilence

\* A silent sample begins a silence, or makes the pending one long enough.
SilentSample ==
  /\ phase = "inside" /\ i <= Len(recording[frame]) /\ recording[frame][i]
  /\ pending' = IF pending.on
                THEN [pending EXCEPT !.reported = LongEnough(Now)]
                ELSE [on |-> TRUE, start |-> SilenceFrom(Now), reported |-> FALSE]
  /\ i' = i + 1
  /\ UNCHANGED <<recording, requested, phase, frame, frameStart, nextSample, intervals>>

\* sa_push_interval, when the silence that ends at ts was long enough.
Pushed(ts) ==
  IF pending.on /\ LongEnough(ts)
  THEN Append(intervals, [start |-> pending.start, end |-> ts])
  ELSE intervals

\* Any other sample ends the pending silence.
LoudSample ==
  /\ phase = "inside" /\ i <= Len(recording[frame]) /\ ~ recording[frame][i]
  /\ intervals' = Pushed(Now)
  /\ pending' = NoSilence
  /\ i' = i + 1
  /\ UNCHANGED <<recording, requested, phase, frame, frameStart, nextSample>>

EndFrame ==
  /\ phase = "inside" /\ i > Len(recording[frame])
  /\ phase' = "between" /\ frame' = frame + 1
  /\ UNCHANGED <<recording, requested, i, frameStart, nextSample, pending, intervals>>

\* sa_close_pending_silence, after the last frame.
ClosePending ==
  /\ phase = "between" /\ frame > Len(recording)
  /\ intervals' = IF nextSample > pending.start THEN Pushed(nextSample) ELSE intervals
  /\ pending' = NoSilence
  /\ phase' = "done"
  /\ UNCHANGED <<recording, requested, frame, i, frameStart, nextSample>>

ScanStep == BeginFrame \/ SilentSample \/ LoudSample \/ EndFrame \/ ClosePending

-----------------------------------------------------------------------------
(***************************************************************************)
(* Properties.                                                             *)
(***************************************************************************)
\* The samples of the first f frames, the frames forgotten, for every f.
UpTo(frames) ==
  LET upTo[f \in 0 .. Len(frames)] ==
        IF f = 0 THEN <<>> ELSE upTo[f - 1] \o frames[f]
  IN  upTo

Flat(frames) == UpTo(frames)[Len(frames)]

Samples == Flat(recording)

Maximal(s, r) ==
  /\ r.from <= r.to
  /\ \A k \in r.from .. r.to : s[k]
  /\ r.from > 1 => ~ s[r.from - 1]
  /\ r.to < Len(s) => ~ s[r.to + 1]

\* The longest runs of silent samples.
Runs == LET s == Samples
        IN  {r \in [from : DOMAIN s, to : DOMAIN s] : Maximal(s, r)}

\* In units of 1 / Rate ticks, so that the time of a sample is a whole number.
From(r) == (r.from - 1) * Base
To(r)   == r.to * Base

\* Half a tick for each rounding: every frame before, and the place in a frame.
Slack == Rate * Len(recording)

Within(x, y) == 2 * (x - y) <= Slack /\ 2 * (y - x) <= Slack

Matches(iv, r) == Within(iv.start * Rate, From(r)) /\ Within(iv.end * Rate, To(r))

\* Whatever the frames, a longest run of silent samples that is clearly long
\* enough is found, at its place, with an error of at most half a tick for
\* every frame of the recording ...
LongRunsFound ==
  phase = "done" =>
    \A r \in Runs : To(r) - From(r) >= MinSilence * Rate + Slack =>
      \E k \in DOMAIN intervals : Matches(intervals[k], r)

\* ... and everything found is such a run, as long as was asked for, in order
\* and apart from the others, which is what the interval arithmetic starts from.
OnlyRunsFound ==
  phase = "done" =>
    LET runs == Runs
    IN  /\ \A k \in DOMAIN intervals :
             /\ intervals[k].end - intervals[k].start >= MinSilence
             /\ \E r \in runs : Matches(intervals[k], r)
        /\ \A j, k \in DOMAIN intervals : j < k => intervals[j].end < intervals[k].start
=============================================================================
