--------------------------- MODULE DetectSilences ---------------------------
(***************************************************************************)
(* From NewProcessor to the silences of a recording: the options make the  *)
(* configuration, and Processor.detectSilences (processor.go) measures the *)
(* volume, builds the thresholds (interval.go) and scans the recording     *)
(* with one after the other until one of them finds a silence.             *)
(*                                                                         *)
(* A sample is its level in dB, finite or that of a sample of zero; the    *)
(* scans are those of SilenceScan, on the levels compared with the         *)
(* threshold.  Volumes are those of the libav backend, which always has    *)
(* both, or of one that has the mean only, or none.  MinSilence is in the  *)
(* ticks of SilenceScan.                                                   *)
(***************************************************************************)
EXTENDS AudioConfig, SilenceScan

CONSTANTS
  OptionLists,  \* sequences of options given to NewProcessor
  Takes,        \* recordings: sequences of frames, each a sequence of levels
  Volumes       \* what backends measure: subset of {"both", "mean", "none"}

ASSUME DetectAssumption ==
  /\ Takes \subseteq Seq(Seq(Int))
  /\ Volumes \subseteq {"both", "mean", "none"}

\* The level of a sample of zero: minus infinity.
Zero == -1000

\* What a field may be given: the part that the scans depend on.  A bound is a
\* finite level, and at most one threshold is fixed.
Legal(f, v) ==
  /\ f \in Positive \cup NonNegative \cup NonZero => v \in Int
  /\ f \in NonZero => v > Zero
  /\ f \in {"ThresholdDB", "Thresholds"} => v \in Seq(Int)
  /\ f = "ThresholdDB" => Len(v) <= 1

IsConfig(c) == DOMAIN c = Fields /\ \A f \in Fields : Legal(f, c[f])

IsOption(o) ==
  IF o.field = "Config" THEN IsConfig(o.value) ELSE o.field \in Fields /\ Legal(o.field, o.value)

ASSUME OptionsAssumption ==
  \A list \in OptionLists :
    /\ Len(list) \in Nat /\ list = [k \in 1 .. Len(list) |-> list[k]]
    /\ \A k \in 1 .. Len(list) : IsOption(list[k])

VARIABLES
  options,     \* the options left to apply
  cfg,         \* p.cfg
  threads,     \* codecThreads of the backend
  step,        \* the statement detectSilences is at
  take,        \* the recording
  volume,      \* what the backend measured
  thresholds,  \* BuildThresholds
  tried,       \* how many of them were scanned with
  found        \* the silences returned

detectVars == <<options, cfg, threads, step, take, volume, thresholds, tried, found>>
allVars == <<detectVars, scanVars>>

Levels(t) == UNION {{t[f][j] : j \in DOMAIN t[f]} : f \in DOMAIN t}

\* max_db and mean_db; the mean is somewhat below the maximum.
MaxDB(t) == CHOOSE l \in Levels(t) : \A m \in Levels(t) : m <= l
MeanDB(t) == IF MaxDB(t) = Zero THEN Zero ELSE MaxDB(t) - 6

DetectInit ==
  /\ options \in OptionLists /\ cfg = Default /\ threads = 0
  /\ step = "options" /\ take = <<>> /\ volume = "none"
  /\ thresholds = <<>> /\ tried = 0 /\ found = <<>>
  /\ ScanInit

-----------------------------------------------------------------------------
(***************************************************************************)
(* NewProcessor.                                                           *)
(***************************************************************************)
\* The loop over opts.
ApplyOption ==
  /\ step = "options" /\ options # <<>>
  /\ cfg' = Option(cfg, Head(options))
  /\ options' = Tail(options)
  /\ UNCHANGED <<threads, step, take, volume, thresholds, tried, found, scanVars>>

\* backend.withConfig, once all options are applied.
ConfigureBackend ==
  /\ step = "options" /\ options = <<>>
  /\ threads' = cfg.CodecThreads
  /\ step' = "volume"
  /\ UNCHANGED <<options, cfg, take, volume, thresholds, tried, found, scanVars>>

-----------------------------------------------------------------------------
(***************************************************************************)
(* BuildThresholds.                                                        *)
(***************************************************************************)
\* thresholdFloor and thresholdCeil: 0 is not a bound, also when no
\* normalization has replaced it.
Floor == IF cfg.ThresholdFloor = 0 THEN -60 ELSE cfg.ThresholdFloor
Ceil  == IF cfg.ThresholdCeil = 0 THEN -10 ELSE cfg.ThresholdCeil

Clamp(v) == IF v < Floor THEN Floor ELSE IF v > Ceil THEN Ceil ELSE v

\* The first occurrence of every value; both loops with their map `seen`.
FirstOnly(s) ==
  LET keep[k \in 0 .. Len(s)] ==
        IF k = 0 THEN <<>>
        ELSE IF \E j \in 1 .. k - 1 : s[j] = s[k] THEN keep[k - 1]
        ELSE Append(keep[k - 1], s[k])
  IN  keep[Len(s)]

\* A faulty variant: the offsets are added.
Above(level, offsets) == [k \in DOMAIN offsets |-> level + offsets[k]]

Below(level, offsets) == [k \in DOMAIN offsets |-> level - offsets[k]]

\* raw
Automatic(t, vol) ==
  CASE vol = "both" /\ MaxDB(t) # Zero -> Below(MaxDB(t), <<18, 16, 14, 12, 10>>)
    [] vol = "mean" /\ MeanDB(t) # Zero -> Below(MeanDB(t), <<8, 2, -4>>)
    [] OTHER -> <<-35, -30, -25, -20>>

\* A faulty variant: the values are not clamped.
InRangeNot(s) == FirstOnly(s)

InRange(s) == FirstOnly([k \in DOMAIN s |-> Clamp(s[k])])

BuildThresholds(t, vol) ==
  IF cfg.ThresholdDB # <<>> THEN cfg.ThresholdDB
  ELSE InRange(IF cfg.Thresholds # <<>> THEN cfg.Thresholds ELSE Automatic(t, vol))

-----------------------------------------------------------------------------
(***************************************************************************)
(* detectSilences.                                                         *)
(***************************************************************************)
Return(silences) == step' = "returned" /\ found' = silences

\* A backend operation fails: the call returns no silence and the error.
ReturnError == step' = "failed" /\ UNCHANGED found

\* VolumeDetect, which fails for a recording without samples.
DetectVolume ==
  /\ step = "volume"
  /\ \E t \in Takes, vol \in Volumes :
       /\ take' = t /\ volume' = vol
       /\ IF Levels(t) = {} THEN ReturnError /\ UNCHANGED thresholds
          ELSE /\ thresholds' = BuildThresholds(t, vol)
               /\ step' = "next" /\ UNCHANGED found
  /\ UNCHANGED <<options, cfg, threads, tried, scanVars>>

SilentAt(threshold) ==
  [f \in DOMAIN take |-> [j \in DOMAIN take[f] |-> take[f][j] <= threshold]]

\* Never less than a millisecond.
MinSilenceFloored == IF cfg.MinSilence < LeastSilence THEN LeastSilence ELSE cfg.MinSilence

\* SilenceDetect with the next threshold, or the end of the loop.
NextThreshold ==
  /\ step = "next"
  /\ IF tried < Len(thresholds)
     THEN /\ BeginScan(SilentAt(thresholds[tried + 1]), MinSilenceFloored)
          /\ tried' = tried + 1 /\ step' = "scan" /\ UNCHANGED found
     ELSE Return(<<>>) /\ UNCHANGED <<scanVars, tried>>
  /\ UNCHANGED <<options, cfg, threads, take, volume, thresholds>>

Scan ==
  /\ step = "scan" /\ ScanStep
  /\ UNCHANGED detectVars

\* Decoding fails within the scan, whose intervals are freed.
ScanFails ==
  /\ step = "scan" /\ phase = "between"
  /\ ReturnError
  /\ UNCHANGED <<options, cfg, threads, take, volume, thresholds, tried, scanVars>>

\* A faulty variant: the loop goes on and keeps what the last scan found.
EnoughLater == intervals # <<>> /\ tried = Len(thresholds)

\* len(intervals) > 0
Enough == intervals # <<>>

EndScan ==
  /\ step = "scan" /\ phase = "done"
  /\ IF Enough THEN Return(intervals) ELSE step' = "next" /\ UNCHANGED found
  /\ UNCHANGED <<options, cfg, threads, take, volume, thresholds, tried, scanVars>>

Finished == step \in {"returned", "failed"} /\ UNCHANGED allVars

Next == \/ ApplyOption \/ ConfigureBackend \/ DetectVolume \/ NextThreshold
        \/ Scan \/ ScanFails \/ EndScan \/ Finished

Spec == DetectInit /\ [][Next]_allVars

-----------------------------------------------------------------------------
(***************************************************************************)
(* Properties.                                                             *)
(***************************************************************************)
\* Runs of samples at most as loud as the threshold, clearly long enough.
LongSilence(threshold) ==
  LET samples == Flat(SilentAt(threshold))
  IN  \E r \in [from : DOMAIN samples, to : DOMAIN samples] :
        /\ Maximal(samples, r)
        /\ To(r) - From(r) >= MinSilence * Rate + Slack

\* The silences returned are those of the first threshold in the list that has
\* any: with the ones before it there is no silence that is clearly long enough,
\* and "no silence" means that there is none with any of them.
FirstThresholdWins ==
  step = "returned" =>
    \A k \in DOMAIN thresholds :
      (found = <<>> \/ k < tried) => ~ LongSilence(thresholds[k])

\* With thresholds from the measured maximum, the loudest sample of a recording
\* is never silent unless the whole recording is below the floor: trimming does
\* not take a quiet recording for silence.
LoudestIsSpeech ==
  /\ step = "scan" /\ volume = "both" /\ Floor <= Ceil
  /\ cfg.ThresholdDB = <<>> /\ cfg.Thresholds = <<>>
  /\ MaxDB(take) > Floor
  => \E f \in DOMAIN take : \E j \in DOMAIN take[f] :
       take[f][j] = MaxDB(take) /\ ~ recording[f][j]

\* Whatever options were given, in whatever order, what the loops work with is
\* usable: a positive worker count, maximum length and minimum of every scan.
\* There is always a threshold to scan with, none twice.  Unless the floor is
\* above the ceiling, which nothing excludes, those that are configured as a list
\* or measured lie between the two, and those that are measured go from the
\* quietest to the loudest.
SettingsUsable ==
  /\ step # "options" => cfg.FixedWorkers > 0 /\ cfg.MaxLength > 0 /\ threads >= 0
  /\ step = "scan" => requested >= LeastSilence
  /\ step = "next" =>
       /\ thresholds # <<>>
       /\ \A j, k \in DOMAIN thresholds : j # k => thresholds[j] # thresholds[k]
       /\ cfg.ThresholdDB = <<>> /\ Floor <= Ceil =>
            \A k \in DOMAIN thresholds : thresholds[k] \in Floor .. Ceil
       /\ cfg.ThresholdDB = <<>> /\ cfg.Thresholds = <<>> /\ Floor <= Ceil =>
            \A j, k \in DOMAIN thresholds : j < k => thresholds[j] < thresholds[k]
=============================================================================
