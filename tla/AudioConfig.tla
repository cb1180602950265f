---------------------------- MODULE AudioConfig ----------------------------
(***************************************************************************)
(* The configuration (types.go) and the options of NewProcessor            *)
(* (backend.go), as operators: Config.normalized, the options, and the     *)
(* output that a SegmentConfig stands for.                                 *)
(*                                                                         *)
(* A Config is one record, its four parts side by side; FixedWorkers and   *)
(* SegmentWorkers are FixedTrim.Workers and Segments.Workers.  A pointer   *)
(* or a list is a sequence, nil the empty one.  A name is written as       *)
(* strings.TrimSpace and ToLower leave it, so those two do nothing here.   *)
(* Of a duration only its sign and its order matter: a module that uses    *)
(* one chooses the unit.                                                   *)
(***************************************************************************)
EXTENDS Integers

Default ==
  [MinSilence |-> 700, Padding |-> 100, ThresholdDB |-> <<>>, Window |-> 20,
   MinSpeech |-> 20, Thresholds |-> <<>>, ThresholdFloor |-> -60, ThresholdCeil |-> -10,
   SliceLength |-> 5000, FixedWorkers |-> 16, MinSegmentLength |-> 10, TempDir |-> "",
   MaxLength |-> 175000, SegmentWorkers |-> 0, OutputSampleRate |-> 16000,
   OutputFormat |-> "ogg", OutputCodec |-> "libopus", OutputBitrate |-> "32k",
   OutputSampleFormat |-> "s16", OutDir |-> "", KeepTempWAV |-> <<TRUE>>,
   PreserveInternalSilence |-> <<TRUE>>, CodecThreads |-> 0]

Fields == DOMAIN Default

Positive    == {"MinSilence", "Padding", "Window", "MinSpeech", "SliceLength",
                "FixedWorkers", "MinSegmentLength", "MaxLength", "OutputSampleRate"}
NonNegative == {"SegmentWorkers", "CodecThreads"}
NonZero     == {"ThresholdFloor", "ThresholdCeil"}
Optional    == {"ThresholdDB", "Thresholds", "KeepTempWAV", "PreserveInternalSilence"}
Text        == {"TempDir", "OutputFormat", "OutputCodec", "OutputBitrate",
                "OutputSampleFormat", "OutDir"}

-----------------------------------------------------------------------------
(***************************************************************************)
(* Names and their aliases.                                                *)
(***************************************************************************)
\* strings.TrimPrefix takes one dot only.
StripDot(f) == CASE f = ".m4a" -> "m4a" [] f = "..m4a" -> ".m4a" [] OTHER -> f

\* normalizeAudioFormat
NormalFormat(f) ==
  LET name == StripDot(f)
  IN  CASE name = "aac" -> "adts" [] name = "m4a" -> "mp4" [] name = "opus" -> "ogg"
        [] OTHER -> name

\* normalizeAudioSampleFormat
NormalSampleFormat(s) ==
  CASE s \in {"16", "16bit", "int16", "pcm_s16le"} -> "s16"
    [] s \in {"24", "24bit", "int24", "pcm_s24le"} -> "s24"
    [] s \in {"32", "32bit", "int32", "pcm_s32le"} -> "s32"
    [] s \in {"float", "float32", "f32", "flt", "pcm_f32le"} -> "f32"
    [] OTHER -> s

\* codecForWAVSampleFormat
WavCodec(s) ==
  LET name == NormalSampleFormat(s)
  IN  CASE name = "s24" -> "pcm_s24le" [] name = "s32" -> "pcm_s32le"
        [] name = "f32" -> "pcm_f32le" [] OTHER -> "pcm_s16le"

\* defaultCodecForFormat
DefaultCodec(f) ==
  LET name == NormalFormat(f)
  IN  CASE name = "wav" -> "pcm_s16le" [] name = "flac" -> "flac"
        [] name \in {"adts", "mp4"} -> "aac" [] OTHER -> Default.OutputCodec

\* extensionForFormat
Extension(f) ==
  LET name == NormalFormat(f)
  IN  CASE name = "adts" -> "aac" [] name = "mp4" -> "m4a"
        [] name = "" -> Default.OutputFormat [] OTHER -> name

\* codecUsesBitrate
UsesBitrate(codec) == codec \in {"libopus", "opus", "aac"}

-----------------------------------------------------------------------------
(***************************************************************************)
(* Normalization and the options.                                          *)
(***************************************************************************)
\* The value of a field counts as configured.
Configured(f, v) ==
  \/ f \in Positive /\ v > 0
  \/ f \in NonNegative /\ v >= 0
  \/ f \in NonZero /\ v # 0
  \/ f \in Optional /\ v # <<>>
  \/ f \in Text /\ v # ""

Cleaned(f, v) == CASE f = "OutputFormat" -> NormalFormat(v)
                   [] f = "OutputSampleFormat" -> NormalSampleFormat(v)
                   [] OTHER -> v

\* Config.normalized
Normalized(c) ==
  [f \in Fields |-> IF Configured(f, c[f]) THEN Cleaned(f, c[f]) ELSE Default[f]]

\* The options that look at their argument, and what they refuse.
Refused(f, v) == \/ f \in {"FixedWorkers", "MaxLength"} /\ v <= 0
                 \/ f \in NonNegative /\ v < 0

\* An option is the field it sets and its argument; WithConfig sets them all.
Option(c, o) ==
  CASE o.field = "Config" -> Normalized(o.value)
    [] o.field # "Config" /\ Refused(o.field, o.value) -> c
    [] OTHER -> [c EXCEPT ![o.field] = o.value]

-----------------------------------------------------------------------------
(***************************************************************************)
(* What is encoded.                                                        *)
(***************************************************************************)
OrDefault(f, v) == IF v = "" THEN Default[f] ELSE v

\* A faulty variant: every codec that is named is taken.
CodecAsGiven(c, format) ==
  IF c.OutputCodec = "" THEN DefaultCodec(format) ELSE c.OutputCodec

\* Whatever was asked for, libopus stands for "not configured" outside ogg.
CodecFor(c, format) ==
  IF c.OutputCodec = "" \/ (format # Default.OutputFormat /\ c.OutputCodec = Default.OutputCodec)
  THEN DefaultCodec(format) ELSE c.OutputCodec

\* SegmentConfig.audioOutput
AudioOutput(c) ==
  LET format == OrDefault("OutputFormat", NormalFormat(c.OutputFormat))
      sample == OrDefault("OutputSampleFormat", NormalSampleFormat(c.OutputSampleFormat))
      codec  == IF format = "wav" /\ CodecFor(c, format) = "pcm_s16le"
                THEN WavCodec(sample) ELSE CodecFor(c, format)
  IN  [Format |-> format, Codec |-> codec, SampleFormat |-> sample,
       Bitrate |-> IF UsesBitrate(codec) THEN OrDefault("OutputBitrate", c.OutputBitrate)
                   ELSE "",
       Extension |-> Extension(format)]

\* A faulty variant: any Opus in ogg may fall back.
AllowFallbackForOpus(c, output) ==
  output.Format = Default.OutputFormat /\ output.Codec = Default.OutputCodec

\* allowEncodeFallbackToWAV
AllowFallback(c, output) ==
  /\ output.Format = Default.OutputFormat
  /\ output.Codec = Default.OutputCodec
  /\ output.Bitrate = Default.OutputBitrate
  /\ output.SampleFormat = Default.OutputSampleFormat
  /\ c.OutputBitrate = Default.OutputBitrate
=============================================================================
