---------------------------- MODULE CliRunProofs ----------------------------
(***************************************************************************)
(* Proofs about CliRun, for every set of commands.  The first part is      *)
(* about the operators of AudioConfig, the second about the command.       *)
(***************************************************************************)
EXTENDS CliRun, TLAPS

-----------------------------------------------------------------------------
(***************************************************************************)
(* Normalization.                                                          *)
(***************************************************************************)
LEMMA SampleFormatSettles ==
  ASSUME NEW s
  PROVE  /\ NormalSampleFormat(NormalSampleFormat(s)) = NormalSampleFormat(s)
         /\ s # "" => NormalSampleFormat(s) # ""
BY DEF NormalSampleFormat

\* One normalization may leave a name that the next one changes (two dots);
\* after two nothing changes.
LEMMA FormatSettles ==
  ASSUME NEW f \in FormatNames
  PROVE  /\ NormalFormat(NormalFormat(NormalFormat(f))) = NormalFormat(NormalFormat(f))
         /\ f # "" => NormalFormat(f) # "" /\ NormalFormat(NormalFormat(f)) # ""
         /\ NormalFormat(f) \in FormatNames
BY DEF NormalFormat, StripDot, FormatNames

\* A field is what was configured, or the default.
LEMMA NormalizedField ==
  ASSUME NEW c, NEW f \in Fields
  PROVE  Normalized(c)[f] = IF Configured(f, c[f]) THEN Cleaned(f, c[f]) ELSE Default[f]
BY DEF Normalized

\* Normalizing twice changes no field but the format.
LEMMA NormalizedTwice ==
  ASSUME NEW c, NEW f \in Fields, f # "OutputFormat"
  PROVE  Normalized(Normalized(c))[f] = Normalized(c)[f]
<1> DEFINE v == Normalized(c)[f]
<1>1. v = IF Configured(f, c[f]) THEN Cleaned(f, c[f]) ELSE Default[f]
  BY NormalizedField
<1>2. Normalized(Normalized(c))[f] = IF Configured(f, v) THEN Cleaned(f, v) ELSE Default[f]
  BY NormalizedField
<1> SUFFICES Normalized(Normalized(c))[f] = v
  OBVIOUS
<1> HIDE DEF v
<1>3. CASE f # "OutputSampleFormat"
  <2>1. \A u : Cleaned(f, u) = u
    BY <1>3 DEF Cleaned
  <2> QED
    BY <1>1, <1>2, <2>1
<1>4. CASE f = "OutputSampleFormat"
  <2>1. \A u : Cleaned(f, u) = NormalSampleFormat(u)
    BY <1>4 DEF Cleaned
  <2>2. \A u : Configured(f, u) <=> u # ""
    BY <1>4 DEF Configured, Positive, NonNegative, NonZero, Optional, Text
  <2>3. Default[f] = "s16"
    BY <1>4 DEF Default
  <2>4. NormalSampleFormat("s16") = "s16"
    BY DEF NormalSampleFormat
  <2> QED
    BY <1>1, <1>2, <2>1, <2>2, <2>3, <2>4, SampleFormatSettles
<1> QED
  BY <1>3, <1>4

\* The configuration of the first Processor, ...
First == Normalized(BuiltConfig(opts))

\* ... and that of the one that splits.
Second ==
  IF First.OutDir # "" THEN First
  ELSE Normalized([First EXCEPT !.OutDir =
         IF opts.mode = "split" THEN "out_segments" ELSE "stem_segments"])

\* The fields that the lemmas name.
LEMMA FieldNames ==
  {"OutDir", "OutputFormat", "OutputCodec", "OutputBitrate", "OutputSampleFormat",
   "OutputSampleRate"} \subseteq Fields
BY DEF Fields, Default

\* A text field is kept, or cleaned, if it is not empty.
LEMMA TextField ==
  ASSUME NEW c, NEW f \in {"OutDir", "OutputFormat", "OutputCodec", "OutputBitrate",
                           "OutputSampleFormat"}
  PROVE  /\ c[f] # "" => Normalized(c)[f] = Cleaned(f, c[f])
         /\ c[f] = "" => Normalized(c)[f] = Default[f]
<1>1. Configured(f, c[f]) <=> c[f] # ""
  BY DEF Configured, Positive, NonNegative, NonZero, Optional, Text
<1> QED
  BY <1>1, NormalizedField, FieldNames

\* What the flags make of the fields that the properties read.
LEMMA FirstOutDir ==
  ASSUME opts \in Commands
  PROVE  First.OutDir = opts.outDir
<1> DEFINE B == BuiltConfig(opts)
<1>1. B["OutDir"] = opts.outDir
  BY DEF BuiltConfig, Default
<1>2. Default["OutDir"] = "" /\ Cleaned("OutDir", B["OutDir"]) = B["OutDir"]
  BY DEF Default, Cleaned
<1> HIDE DEF B
<1> QED
  BY <1>1, <1>2, TextField, Zenon DEF First, B

LEMMA FirstCodec ==
  ASSUME opts \in Commands
  PROVE  /\ opts.codec # "" => First.OutputCodec = opts.codec
         /\ opts.codec = "" => First.OutputCodec = "libopus"
<1> DEFINE B == BuiltConfig(opts)
<1>1. B["OutputCodec"] = opts.codec
  BY DEF BuiltConfig, Default
<1>2. /\ Default["OutputCodec"] = "libopus"
      /\ Cleaned("OutputCodec", B["OutputCodec"]) = B["OutputCodec"]
  BY DEF Default, Cleaned
<1> HIDE DEF B
<1> QED
  BY <1>1, <1>2, TextField, Zenon DEF First, B

LEMMA FirstBitrate ==
  ASSUME opts \in Commands
  PROVE  /\ opts.bitrate # "" => First.OutputBitrate = opts.bitrate
         /\ opts.bitrate = "" => First.OutputBitrate = "32k"
<1> DEFINE B == BuiltConfig(opts)
<1>1. B["OutputBitrate"] = opts.bitrate
  BY DEF BuiltConfig, Default
<1>2. /\ Default["OutputBitrate"] = "32k"
      /\ Cleaned("OutputBitrate", B["OutputBitrate"]) = B["OutputBitrate"]
  BY DEF Default, Cleaned
<1> HIDE DEF B
<1> QED
  BY <1>1, <1>2, TextField, Zenon DEF First, B

LEMMA FirstFormat ==
  ASSUME opts \in Commands
  PROVE  /\ opts.format # "" => First.OutputFormat = NormalFormat(opts.format)
         /\ opts.format = "" => First.OutputFormat = "ogg"
<1> DEFINE B == BuiltConfig(opts)
<1>1. B["OutputFormat"] = opts.format
  BY DEF BuiltConfig, Default
<1>2. /\ Default["OutputFormat"] = "ogg"
      /\ Cleaned("OutputFormat", B["OutputFormat"]) = NormalFormat(B["OutputFormat"])
  BY DEF Default, Cleaned
<1> HIDE DEF B
<1> QED
  BY <1>1, <1>2, TextField, Zenon DEF First, B

LEMMA FirstSampleFormat ==
  ASSUME opts \in Commands
  PROVE  /\ opts.sampleFormat # "" =>
              First.OutputSampleFormat = NormalSampleFormat(opts.sampleFormat)
         /\ opts.sampleFormat = "" => First.OutputSampleFormat = "s16"
<1> DEFINE B == BuiltConfig(opts)
<1>1. B["OutputSampleFormat"] = opts.sampleFormat
  BY DEF BuiltConfig, Default
<1>2. /\ Default["OutputSampleFormat"] = "s16"
      /\ Cleaned("OutputSampleFormat", B["OutputSampleFormat"])
           = NormalSampleFormat(B["OutputSampleFormat"])
  BY DEF Default, Cleaned
<1> HIDE DEF B
<1> QED
  BY <1>1, <1>2, TextField, Zenon DEF First, B

LEMMA FirstRate ==
  ASSUME opts \in Commands
  PROVE  First.OutputSampleRate = IF opts.rate > 0 THEN opts.rate ELSE 16000
<1> DEFINE B == BuiltConfig(opts)
<1>1. B["OutputSampleRate"] = opts.rate
  BY DEF BuiltConfig, Default
<1>2. Default["OutputSampleRate"] = 16000
  BY DEF Default
<1>3. \A v : Cleaned("OutputSampleRate", v) = v
  BY DEF Cleaned
<1>4. \A v : Configured("OutputSampleRate", v) <=> v > 0
  BY DEF Configured, Positive, NonNegative, NonZero, Optional, Text
<1> HIDE DEF B
<1>5. First["OutputSampleRate"] =
        IF Configured("OutputSampleRate", B["OutputSampleRate"])
        THEN Cleaned("OutputSampleRate", B["OutputSampleRate"])
        ELSE Default["OutputSampleRate"]
  BY NormalizedField, FieldNames DEF First, B
<1> QED
  BY <1>1, <1>2, <1>3, <1>4, <1>5

\* Names that normalization makes equal stand for one output.
LEMMA OutputFrame ==
  ASSUME NEW c, NEW d, NormalFormat(c.OutputFormat) = NormalFormat(d.OutputFormat),
         c.OutputSampleFormat = d.OutputSampleFormat, c.OutputCodec = d.OutputCodec,
         c.OutputBitrate = d.OutputBitrate
  PROVE  AudioOutput(c) = AudioOutput(d)
BY DEF AudioOutput, CodecFor

\* The second configuration names a directory and is else like the first.
LEMMA SecondFields ==
  ASSUME opts \in Commands
  PROVE  /\ Second.OutDir \in {"--out-dir", "out_segments", "stem_segments"}
         /\ \A f \in Preserved : Second[f] = First[f]
         /\ opts.outDir # "" => Second = First
         /\ AudioOutput(Second) = AudioOutput(First)
<1>o. opts.outDir \in {"", "--out-dir"} /\ opts.format \in FormatNames
  BY CliAssumption
<1>d. First.OutDir = opts.outDir
  BY FirstOutDir
<1>1. CASE First.OutDir # ""
  <2>1. Second = First
    BY <1>1 DEF Second
  <2> QED
    BY <1>o, <1>d, <1>1, <2>1
<1>2. CASE First.OutDir = ""
  <2> DEFINE dir == IF opts.mode = "split" THEN "out_segments" ELSE "stem_segments"
             X == [First EXCEPT !.OutDir = dir]
  <2>1. Second = Normalized(X)
    BY <1>2 DEF Second
  <2>2. dir \in {"out_segments", "stem_segments"}
    OBVIOUS
  <2> HIDE DEF dir
  <2>3. DOMAIN First = Fields
    BY DEF First, Normalized
  <2>4. X["OutDir"] = dir /\ \A f \in Fields : f # "OutDir" => X[f] = First[f]
    BY <2>3, FieldNames
  <2> HIDE DEF X
  <2>5. ASSUME NEW f \in Fields, f # "OutDir", f # "OutputFormat"
        PROVE  Second[f] = First[f]
    <3>1. Normalized(X)[f] = IF Configured(f, X[f]) THEN Cleaned(f, X[f]) ELSE Default[f]
      BY NormalizedField
    <3>2. Normalized(First)[f] =
            IF Configured(f, First[f]) THEN Cleaned(f, First[f]) ELSE Default[f]
      BY NormalizedField
    <3>3. X[f] = First[f]
      BY <2>4, <2>5
    <3>4. Normalized(X)[f] = Normalized(First)[f]
      BY <3>1, <3>2, <3>3
    <3>5. Normalized(First)[f] = First[f]
      BY <2>5, NormalizedTwice DEF First
    <3> QED
      BY <2>1, <3>4, <3>5
  <2>6. Second["OutDir"] = dir
    <3>1. X["OutDir"] # "" /\ Cleaned("OutDir", X["OutDir"]) = X["OutDir"]
      BY <2>2, <2>4 DEF Cleaned
    <3> QED
      BY <2>1, <2>4, <3>1, TextField, Zenon
  <2>7. NormalFormat(Second.OutputFormat) = NormalFormat(First.OutputFormat)
    <3>1. /\ First["OutputFormat"] # ""
          /\ NormalFormat(NormalFormat(First["OutputFormat"]))
               = NormalFormat(First["OutputFormat"])
      <4>1. CASE opts.format = ""
        <5>1. First["OutputFormat"] = "ogg"
          BY <4>1, FirstFormat
        <5> QED
          BY <5>1 DEF NormalFormat, StripDot
      <4>2. CASE opts.format # ""
        <5>1. First["OutputFormat"] = NormalFormat(opts.format)
          BY <4>2, FirstFormat
        <5> QED
          BY <1>o, <4>2, <5>1, FormatSettles, Zenon
      <4> QED
        BY <4>1, <4>2
    <3>2. X["OutputFormat"] = First["OutputFormat"]
      BY <2>4, FieldNames
    <3>3. Cleaned("OutputFormat", X["OutputFormat"]) = NormalFormat(X["OutputFormat"])
      BY DEF Cleaned
    <3>4. Second["OutputFormat"] = NormalFormat(First["OutputFormat"])
      BY <2>1, <3>1, <3>2, <3>3, TextField, Zenon
    <3> QED
      BY <3>1, <3>4, Zenon
  <2>8. /\ Second.OutputSampleFormat = First.OutputSampleFormat
        /\ Second.OutputCodec = First.OutputCodec
        /\ Second.OutputBitrate = First.OutputBitrate
    BY <2>5, FieldNames
  <2>9. AudioOutput(Second) = AudioOutput(First)
    BY <2>7, <2>8, OutputFrame
  <2>10. \A f \in Preserved : Second[f] = First[f]
    BY <2>5 DEF Preserved
  <2> QED
    BY <1>2, <1>d, <2>2, <2>6, <2>9, <2>10
<1> QED
  BY <1>1, <1>2

\* The output that the flags stand for.
LEMMA OutputNames ==
  ASSUME opts \in Commands
  PROVE  LET output == AudioOutput(First)
         IN  /\ output.Format = IF opts.format = "" THEN "ogg"
                                ELSE NormalFormat(NormalFormat(opts.format))
             /\ output.SampleFormat = First.OutputSampleFormat
             /\ output.Codec = IF /\ output.Format = "wav"
                                  /\ CodecFor(First, output.Format) = "pcm_s16le"
                               THEN WavCodec(output.SampleFormat)
                               ELSE CodecFor(First, output.Format)
             /\ output.Bitrate = IF UsesBitrate(output.Codec) THEN First.OutputBitrate ELSE ""
             /\ output.Extension = Extension(output.Format)
             /\ First.OutputBitrate # ""
<1> DEFINE output == AudioOutput(First)
           format == OrDefault("OutputFormat", NormalFormat(First.OutputFormat))
           sample == OrDefault("OutputSampleFormat",
                               NormalSampleFormat(First.OutputSampleFormat))
           bitrate == OrDefault("OutputBitrate", First.OutputBitrate)
<1>o. opts.format \in FormatNames
  BY CliAssumption
<1>1. format = IF opts.format = "" THEN "ogg" ELSE NormalFormat(NormalFormat(opts.format))
  <2>1. CASE opts.format = ""
    <3>1. NormalFormat("ogg") = "ogg"
      BY DEF NormalFormat, StripDot
    <3> QED
      BY <2>1, <3>1, FirstFormat DEF OrDefault
  <2>2. CASE opts.format # ""
    <3>1. NormalFormat(NormalFormat(opts.format)) # ""
      BY <1>o, <2>2, FormatSettles
    <3> QED
      BY <2>2, <3>1, FirstFormat DEF OrDefault
  <2> QED
    BY <2>1, <2>2
<1>2. sample = First.OutputSampleFormat
  <2>1. CASE opts.sampleFormat = ""
    <3>1. NormalSampleFormat("s16") = "s16"
      BY DEF NormalSampleFormat
    <3> QED
      BY <2>1, <3>1, FirstSampleFormat DEF OrDefault
  <2>2. CASE opts.sampleFormat # ""
    BY <2>2, FirstSampleFormat, SampleFormatSettles DEF OrDefault
  <2> QED
    BY <2>1, <2>2
<1>3. bitrate = First.OutputBitrate /\ First.OutputBitrate # ""
  BY FirstBitrate DEF OrDefault
<1>4. output.Format = format /\ output.SampleFormat = sample
  BY DEF AudioOutput
<1>e. output.Extension = Extension(output.Format)
  BY DEF AudioOutput
<1>5. output.Codec = IF format = "wav" /\ CodecFor(First, format) = "pcm_s16le"
                     THEN WavCodec(sample) ELSE CodecFor(First, format)
  BY DEF AudioOutput
<1>6. output.Bitrate = IF UsesBitrate(output.Codec) THEN bitrate ELSE ""
  BY DEF AudioOutput
<1> HIDE DEF output, format, sample, bitrate
<1>7. /\ output.Format = IF opts.format = "" THEN "ogg"
                         ELSE NormalFormat(NormalFormat(opts.format))
      /\ output.SampleFormat = First.OutputSampleFormat
  BY <1>1, <1>2, <1>4, Zenon
<1>8. output.Codec = IF output.Format = "wav" /\ CodecFor(First, output.Format) = "pcm_s16le"
                     THEN WavCodec(output.SampleFormat) ELSE CodecFor(First, output.Format)
  BY <1>4, <1>5, Zenon
<1>9. output.Bitrate = IF UsesBitrate(output.Codec) THEN First.OutputBitrate ELSE ""
  BY <1>3, <1>6, Zenon
<1> QED
  BY <1>3, <1>7, <1>8, <1>9, <1>e, Zenon DEF output


\* What normalization makes of each name, and the names it leaves.
LEMMA NormalNames ==
  /\ \A f \in {"ogg", "opus"} : NormalFormat(f) = "ogg"
  /\ \A f \in {"aac", "adts"} : NormalFormat(f) = "adts"
  /\ \A f \in {"m4a", "mp4", ".m4a"} : NormalFormat(f) = "mp4"
  /\ \A f \in {"wav", "flac", "", "mkv"} : NormalFormat(f) = f
  /\ NormalFormat("..m4a") = ".m4a"
BY DEF NormalFormat, StripDot

\* The codec and the extension of a name that normalization leaves.
LEMMA NamesOfCodecs ==
  /\ Extension("ogg") = "ogg" /\ DefaultCodec("ogg") = "libopus"
  /\ Extension("wav") = "wav" /\ DefaultCodec("wav") = "pcm_s16le"
  /\ Extension("flac") = "flac" /\ DefaultCodec("flac") = "flac"
  /\ Extension("adts") = "aac" /\ DefaultCodec("adts") = "aac"
  /\ Extension("mp4") = "m4a" /\ DefaultCodec("mp4") = "aac"
<1>1. Default.OutputCodec = "libopus"
  BY DEF Default
<1>2. \A f \in {"ogg", "wav", "flac", "adts", "mp4"} : NormalFormat(f) = f
  BY NormalNames
<1>3. /\ Extension("ogg") = "ogg" /\ Extension("wav") = "wav" /\ Extension("flac") = "flac"
      /\ Extension("adts") = "aac" /\ Extension("mp4") = "m4a"
  BY <1>2 DEF Extension
<1>4. /\ DefaultCodec("ogg") = "libopus" /\ DefaultCodec("wav") = "pcm_s16le"
      /\ DefaultCodec("flac") = "flac" /\ DefaultCodec("adts") = "aac"
      /\ DefaultCodec("mp4") = "aac"
  BY <1>1, <1>2 DEF DefaultCodec
<1> QED
  BY <1>3, <1>4

\* The names of the table, after two normalizations.
LEMMA TableNames ==
  ASSUME NEW f \in FormatNames, StripDot(f) \in TableFormats
  PROVE  LET name == NormalFormat(NormalFormat(f))
             promised == PromisedCodec(StripDot(f))
         IN  /\ f # ""
             /\ Extension(name) = promised.extension
             /\ name = "ogg" => promised.codec = "libopus"
             /\ name = "wav" => promised.codec = WavCodec(opts.sampleFormat)
             /\ name = "wav" => DefaultCodec(name) = "pcm_s16le"
             /\ name \notin {"ogg", "wav"} => promised.codec = DefaultCodec(name)
<1> DEFINE name == NormalFormat(NormalFormat(f))
           promised == PromisedCodec(StripDot(f))
<1>1. ASSUME f \in {"ogg", "opus"}
     PROVE  /\ name = "ogg" /\ promised = [codec |-> "libopus", extension |-> "ogg"]
            /\ Extension(name) = promised.extension
  <2>1. name = "ogg"
    BY <1>1, NormalNames
  <2>2. StripDot(f) \in {"ogg", "opus"}
    BY <1>1 DEF StripDot
  <2>3. promised = [codec |-> "libopus", extension |-> "ogg"]
    BY <2>2 DEF PromisedCodec
  <2>4. Extension(name) = "ogg"
    BY <2>1, NamesOfCodecs, Zenon
  <2> HIDE DEF name, promised
  <2>5. promised.extension = "ogg"
    BY <2>3
  <2> QED
    BY <2>1, <2>3, <2>4, <2>5, Zenon
<1>2. ASSUME f \in {"wav"}
     PROVE  /\ name = "wav"
            /\ promised = [codec |-> WavCodec(opts.sampleFormat), extension |-> "wav"]
            /\ Extension(name) = promised.extension
  <2>1. name = "wav"
    BY <1>2, NormalNames
  <2>2. StripDot(f) \in {"wav"}
    BY <1>2 DEF StripDot
  <2>3. promised = [codec |-> WavCodec(opts.sampleFormat), extension |-> "wav"]
    BY <2>2 DEF PromisedCodec
  <2>4. Extension(name) = "wav"
    BY <2>1, NamesOfCodecs, Zenon
  <2> HIDE DEF name, promised
  <2>5. promised.extension = "wav"
    BY <2>3
  <2> QED
    BY <2>1, <2>3, <2>4, <2>5, Zenon
<1>3. ASSUME f \in {"flac"}
     PROVE  /\ name = "flac" /\ promised = [codec |-> "flac", extension |-> "flac"]
            /\ Extension(name) = promised.extension
  <2>1. name = "flac"
    BY <1>3, NormalNames
  <2>2. StripDot(f) \in {"flac"}
    BY <1>3 DEF StripDot
  <2>3. promised = [codec |-> "flac", extension |-> "flac"]
    BY <2>2 DEF PromisedCodec
  <2>4. Extension(name) = "flac"
    BY <2>1, NamesOfCodecs, Zenon
  <2> HIDE DEF name, promised
  <2>5. promised.extension = "flac"
    BY <2>3
  <2> QED
    BY <2>1, <2>3, <2>4, <2>5, Zenon
<1>4. ASSUME f \in {"aac", "adts"}
     PROVE  /\ name = "adts" /\ promised = [codec |-> "aac", extension |-> "aac"]
            /\ Extension(name) = promised.extension
  <2>1. name = "adts"
    BY <1>4, NormalNames
  <2>2. StripDot(f) \in {"aac", "adts"}
    BY <1>4 DEF StripDot
  <2>3. promised = [codec |-> "aac", extension |-> "aac"]
    BY <2>2 DEF PromisedCodec
  <2>4. Extension(name) = "aac"
    BY <2>1, NamesOfCodecs, Zenon
  <2> HIDE DEF name, promised
  <2>5. promised.extension = "aac"
    BY <2>3
  <2> QED
    BY <2>1, <2>3, <2>4, <2>5, Zenon
<1>5. ASSUME f \in {"m4a", "mp4", ".m4a"}
     PROVE  /\ name = "mp4" /\ promised = [codec |-> "aac", extension |-> "m4a"]
            /\ Extension(name) = promised.extension
  <2>1. name = "mp4"
    BY <1>5, NormalNames
  <2>2. StripDot(f) \in {"m4a", "mp4"}
    BY <1>5 DEF StripDot
  <2>3. promised = [codec |-> "aac", extension |-> "m4a"]
    BY <2>2 DEF PromisedCodec
  <2>4. Extension(name) = "m4a"
    BY <2>1, NamesOfCodecs, Zenon
  <2> HIDE DEF name, promised
  <2>5. promised.extension = "m4a"
    BY <2>3
  <2> QED
    BY <2>1, <2>3, <2>4, <2>5, Zenon
<1>6. f \in {"ogg", "opus", "wav", "flac", "aac", "adts", "m4a", "mp4", ".m4a"}
  BY DEF FormatNames, StripDot, TableFormats
<1> HIDE DEF name, promised
<1>7. f # ""
  BY <1>6
<1>8. Extension(name) = promised.extension
  <2>1. \/ f \in {"ogg", "opus"} \/ f \in {"wav"} \/ f \in {"flac"} \/ f \in {"aac", "adts"}
        \/ f \in {"m4a", "mp4", ".m4a"}
    BY <1>6
  <2> QED
    BY <1>1, <1>2, <1>3, <1>4, <1>5, <2>1, Zenon
<1>9. name = "ogg" => promised.codec = "libopus"
  BY <1>1, <1>2, <1>3, <1>4, <1>5, <1>6
<1>10. name = "wav" => /\ promised.codec = WavCodec(opts.sampleFormat)
                       /\ DefaultCodec(name) = "pcm_s16le"
  BY <1>1, <1>2, <1>3, <1>4, <1>5, <1>6, NamesOfCodecs
<1>11. name \notin {"ogg", "wav"} => promised.codec = DefaultCodec(name)
  BY <1>1, <1>2, <1>3, <1>4, <1>5, <1>6, NamesOfCodecs
<1> QED
  BY <1>7, <1>8, <1>9, <1>10, <1>11 DEF name, promised

\* Normalizing the name of a sample format does not change its PCM codec.
LEMMA WavCodecSettles ==
  ASSUME opts \in Commands
  PROVE  WavCodec(First.OutputSampleFormat) = WavCodec(opts.sampleFormat)
<1>1. CASE opts.sampleFormat = ""
  <2>1. WavCodec("s16") = WavCodec("")
    BY DEF WavCodec, NormalSampleFormat
  <2> QED
    BY <1>1, <2>1, FirstSampleFormat
<1>2. CASE opts.sampleFormat # ""
  <2>1. WavCodec(NormalSampleFormat(opts.sampleFormat)) = WavCodec(opts.sampleFormat)
    BY SampleFormatSettles DEF WavCodec
  <2> QED
    BY <1>2, <2>1, FirstSampleFormat
<1> QED
  BY <1>1, <1>2

\* The codec that the first configuration stands for.
LEMMA FirstCodecFor ==
  ASSUME opts \in Commands, NEW format
  PROVE  /\ opts.codec \in {"", "libopus"} =>
              CodecFor(First, format) = IF format = "ogg" THEN "libopus"
                                        ELSE DefaultCodec(format)
         /\ opts.codec \notin {"", "libopus"} => CodecFor(First, format) = opts.codec
<1>1. Default.OutputFormat = "ogg" /\ Default.OutputCodec = "libopus"
  BY DEF Default
<1>2. opts.codec \in {"", "libopus"} => First.OutputCodec = "libopus"
  BY FirstCodec
<1>3. opts.codec \notin {"", "libopus"} => First.OutputCodec = opts.codec
  BY FirstCodec
<1> QED
  BY <1>1, <1>2, <1>3, Zenon DEF CodecFor

\* The configuration that splits keeps the promises of the table.
LEMMA SecondIsOfTable ==
  ASSUME opts \in Commands, StripDot(opts.format) \in TableFormats
  PROVE  LET output == AudioOutput(Second)
             promised == PromisedCodec(StripDot(opts.format))
         IN  /\ output.Extension = promised.extension
             /\ opts.codec \in {"", "libopus"} => output.Codec = promised.codec
             /\ opts.codec \notin {"", "libopus", "pcm_s16le"} => output.Codec = opts.codec
             /\ (output.Bitrate # "") = UsesBitrate(output.Codec)
<1> DEFINE output == AudioOutput(First)
           promised == PromisedCodec(StripDot(opts.format))
           name == NormalFormat(NormalFormat(opts.format))
<1>o. opts.format \in FormatNames
  BY CliAssumption
<1>n. /\ opts.format # ""
      /\ Extension(name) = promised.extension
      /\ name = "ogg" => promised.codec = "libopus"
      /\ name = "wav" => promised.codec = WavCodec(opts.sampleFormat)
      /\ name = "wav" => DefaultCodec(name) = "pcm_s16le"
      /\ name \notin {"ogg", "wav"} => promised.codec = DefaultCodec(name)
  BY <1>o, TableNames, Zenon
<1>2. /\ output.Format = IF opts.format = "" THEN "ogg" ELSE name
      /\ output.SampleFormat = First.OutputSampleFormat
      /\ output.Codec = IF output.Format = "wav" /\ CodecFor(First, output.Format) = "pcm_s16le"
                        THEN WavCodec(output.SampleFormat) ELSE CodecFor(First, output.Format)
      /\ output.Bitrate = IF UsesBitrate(output.Codec) THEN First.OutputBitrate ELSE ""
      /\ output.Extension = Extension(output.Format)
      /\ First.OutputBitrate # ""
  BY OutputNames, Zenon
<1>3. AudioOutput(Second) = output
  BY SecondFields
<1>w. WavCodec(First.OutputSampleFormat) = WavCodec(opts.sampleFormat)
  BY WavCodecSettles
<1>c. /\ opts.codec \in {"", "libopus"} =>
           CodecFor(First, name) = IF name = "ogg" THEN "libopus" ELSE DefaultCodec(name)
      /\ opts.codec \notin {"", "libopus"} => CodecFor(First, name) = opts.codec
  BY FirstCodecFor, Zenon
<1> SUFFICES /\ output.Extension = promised.extension
             /\ opts.codec \in {"", "libopus"} => output.Codec = promised.codec
             /\ opts.codec \notin {"", "libopus", "pcm_s16le"} => output.Codec = opts.codec
             /\ (output.Bitrate # "") = UsesBitrate(output.Codec)
  BY <1>3, Zenon
<1> HIDE DEF output, promised, name
<1>4. output.Format = name
  BY <1>n, <1>2, Zenon
<1>5. output.Extension = promised.extension
  BY <1>n, <1>2, <1>4, Zenon
<1>6. ASSUME opts.codec \in {"", "libopus"} PROVE output.Codec = promised.codec
  <2>1. CASE name = "ogg"
    BY <1>6, <1>n, <1>2, <1>4, <1>c, <2>1
  <2>2. CASE name = "wav"
    BY <1>6, <1>n, <1>2, <1>4, <1>c, <1>w, <2>2
  <2>3. CASE name \notin {"ogg", "wav"}
    BY <1>6, <1>n, <1>2, <1>4, <1>c, <2>3
  <2> QED
    BY <2>1, <2>2, <2>3
<1>7. ASSUME opts.codec \notin {"", "libopus", "pcm_s16le"} PROVE output.Codec = opts.codec
  BY <1>7, <1>2, <1>4, <1>c
<1>8. (output.Bitrate # "") = UsesBitrate(output.Codec)
  <2>1. UsesBitrate(output.Codec) \in BOOLEAN
    BY DEF UsesBitrate
  <2>2. CASE UsesBitrate(output.Codec)
    BY <1>2, <2>2, Zenon
  <2>3. CASE ~ UsesBitrate(output.Codec)
    <3>1. output.Bitrate = ""
      BY <1>2, <2>3, Zenon
    <3>2. UsesBitrate(output.Codec) = FALSE
      BY <2>1, <2>3, Zenon
    <3>3. (output.Bitrate # "") = FALSE
      BY <3>1, Zenon
    <3> QED
      BY <3>2, <3>3, Zenon
  <2> QED
    BY <2>1, <2>2, <2>3, Zenon
<1> QED
  BY <1>5, <1>6, <1>7, <1>8, Zenon

\* A configuration that may fall back is one that was asked to be the default.
LEMMA FallbackAsked ==
  ASSUME opts \in Commands, AllowFallback(Second, AudioOutput(Second))
  PROVE  AsksForDefault
<1> DEFINE output == AudioOutput(First)
<1>o. opts.format \in FormatNames
  BY CliAssumption
<1>d. /\ Default.OutputFormat = "ogg" /\ Default.OutputCodec = "libopus"
      /\ Default.OutputBitrate = "32k" /\ Default.OutputSampleFormat = "s16"
  BY DEF Default
<1>s. AudioOutput(Second) = output
  BY SecondFields
<1>1. /\ output.Format = "ogg" /\ output.Codec = "libopus"
      /\ output.Bitrate = "32k" /\ output.SampleFormat = "s16"
  BY <1>d, <1>s, Zenon DEF AllowFallback
<1>2. /\ output.Format = IF opts.format = "" THEN "ogg"
                         ELSE NormalFormat(NormalFormat(opts.format))
      /\ output.SampleFormat = First.OutputSampleFormat
      /\ output.Codec = IF output.Format = "wav" /\ CodecFor(First, output.Format) = "pcm_s16le"
                        THEN WavCodec(output.SampleFormat) ELSE CodecFor(First, output.Format)
      /\ output.Bitrate = IF UsesBitrate(output.Codec) THEN First.OutputBitrate ELSE ""
  BY OutputNames, Zenon
<1> HIDE DEF output
<1>3. opts.format \in {"", "ogg", "opus"}
  <2>1. opts.format # "" => NormalFormat(NormalFormat(opts.format)) = "ogg"
    BY <1>1, <1>2, Zenon
  <2> QED
    BY <1>o, <2>1, NormalNames DEF FormatNames
<1>4. opts.codec \in {"", "libopus"}
  <2>1. CodecFor(First, "ogg") = "libopus"
    BY <1>1, <1>2
  <2> QED
    BY <2>1, FirstCodecFor, Zenon
<1>5. opts.bitrate \in {"", "32k"}
  <2>1. UsesBitrate("libopus")
    BY DEF UsesBitrate
  <2>2. First.OutputBitrate = "32k"
    BY <1>1, <1>2, <2>1, Zenon
  <2> QED
    BY <2>2, FirstBitrate
<1>6. NormalSampleFormat(opts.sampleFormat) \in {"", "s16"}
  <2>1. First.OutputSampleFormat = "s16"
    BY <1>1, <1>2, Zenon
  <2>2. NormalSampleFormat("") = ""
    BY DEF NormalSampleFormat
  <2> QED
    BY <2>1, <2>2, FirstSampleFormat
<1> QED
  BY <1>3, <1>4, <1>5, <1>6 DEF AsksForDefault
-----------------------------------------------------------------------------
(***************************************************************************)
(* The invariant of the command.                                           *)
(***************************************************************************)
Labels == {"start", "workdir", "renew", "preconvert", "trim", "fixed-trim", "split",
           "write", "written", "failed", "exited", "killed"}

States == {"absent", "bad", "complete"}

TypeInv ==
  /\ opts \in Commands
  /\ pc \in Labels
  /\ files \in [Files -> States]
  /\ answer \in {"none", "json", "error"}

Splits == opts.mode \in {"split", "process"}

\* The directory a command has once it has prepared one.
OwnDir == IF ~ Splits THEN "none" ELSE IF opts.workDir # "" THEN "given" ELSE "temporary"

\* Which mode is where, with which configuration.
ModeInv ==
  /\ pc \in {"workdir", "renew"} => Splits /\ cfg = First
  /\ pc = "preconvert" => Splits \/ (opts.mode = "preconvert" /\ opts.output # "")
  /\ pc = "trim" => opts.mode = "trim"
  /\ pc = "fixed-trim" => opts.mode \in {"fixed-trim", "process"}
  /\ pc = "split" => Splits
  /\ (pc \in {"preconvert", "fixed-trim", "split"} /\ Splits) => cfg = Second

WorkInv ==
  /\ pc \in {"start", "workdir"} => work = "none"
  /\ pc \in {"renew", "preconvert", "trim", "fixed-trim", "split", "write", "written"} =>
       work = OwnDir
  /\ work \in {"none", OwnDir}
  /\ pc = "exited" => work # "temporary"

\* What the split finds: its source, at the rate that was asked for, and the
\* counts of the slices.
SourceInv ==
  /\ trimInfo \in [count : Nat, succeeded : Nat, skipped : Nat]
  /\ trimInfo.succeeded + trimInfo.skipped = trimInfo.count
  /\ ((pc = "fixed-trim" /\ opts.mode = "process") \/ pc = "split") =>
       wavRate = IF opts.rate <= 0 THEN Second.OutputSampleRate ELSE opts.rate
  /\ pc = "split" => /\ files[SplitSource] = "complete"
                     /\ opts.mode = "process" => trimInfo.succeeded > 0

Remapped == opts.mode = "split" /\ TemporaryWAV

SegmentOK(s) ==
  /\ Splits
  /\ s.file \in {"part", "segment wav"} /\ s.tempWAV \in {"", "segment wav"}
  /\ s.sourceWAV = IF Remapped THEN "" ELSE SplitSource
  /\ s.sourcePath = IF Remapped THEN "input" ELSE SplitSource
  /\ s.file = "segment wav" => AsksForDefault
  /\ files[s.file] = "complete"
  /\ s.tempWAV # "" => files[s.tempWAV] = "complete"

Counted(r) ==
  /\ r.slices.succeeded + r.slices.skipped = r.slices.count
  /\ r.groups.segments + r.groups.skipped = r.groups.groups
  /\ r.segments # <<>> <=> r.groups.segments > 0
  /\ opts.mode = "process" /\ r.path # "" => r.slices.succeeded > 0
  /\ Splits /\ r.path = "" => r.groups.groups = 0

\* A result that is or will be written, and the files it names.
ResultInv ==
  (pc \in {"write", "written"} \/ answer = "json") =>
    /\ Counted(result)
    /\ result.path \notin WorkFiles
    /\ result.path \in Files => files[result.path] = "complete"
    /\ \A k \in DOMAIN result.segments : SegmentOK(result.segments[k])
    /\ (opts.mode = "split" \/ result.segments # <<>>) =>
         \/ files[SplitSource] = "complete"
         \/ (pc = "exited" /\ opts.workDir = "" /\ SplitSource \in WorkFiles)

AnswerInv == /\ answer = "json" => pc \in {"written", "exited", "killed"}
             /\ pc = "written" => answer = "json"
             /\ pc \notin {"written", "exited", "killed"} => answer = "none"

\* A result has segments only once the split has made it.
NoSegmentsYet ==
  pc \in {"start", "workdir", "renew", "preconvert", "trim", "fixed-trim", "split"} =>
    result = NoResult

IInv == /\ TypeInv /\ ModeInv /\ WorkInv /\ SourceInv /\ ResultInv /\ AnswerInv
        /\ NoSegmentsYet /\ FallbackOnlyForDefault

\* The paths and the values that the flags allow.
LEMMA CommandTypes ==
  ASSUME opts \in Commands
  PROVE  /\ opts.output \in {"", "--output"} /\ opts.wav \in {"", "--wav"}
         /\ opts.workDir \in {"", "--work-dir"} /\ opts.rate \in Int
         /\ WavPath \in {"work wav", "--wav"} /\ MergedPath \in {"work merged", "--output"}
         /\ (WavPath = "work wav") <=> (opts.wav = "")
         /\ (MergedPath = "work merged") <=> (opts.output = "")
         /\ SplitSource \in Files \ {"part", "segment wav"}
         /\ Or(opts.output, "beside input") \in {"--output", "beside input"}
         /\ Second.OutDir \notin Files /\ Second.OutDir # ""
<1>1. /\ opts.output \in {"", "--output"} /\ opts.wav \in {"", "--wav"}
      /\ opts.workDir \in {"", "--work-dir"} /\ opts.rate \in Int
  BY CliAssumption
<1>2. /\ WavPath \in {"work wav", "--wav"} /\ MergedPath \in {"work merged", "--output"}
      /\ (WavPath = "work wav") <=> (opts.wav = "")
      /\ (MergedPath = "work merged") <=> (opts.output = "")
      /\ Or(opts.output, "beside input") \in {"--output", "beside input"}
  BY <1>1 DEF WavPath, MergedPath, Or
<1>3. SplitSource \in Files \ {"part", "segment wav"}
  BY <1>2 DEF SplitSource, Files, WorkFiles
<1>4. Second.OutDir \notin Files /\ Second.OutDir # ""
  BY SecondFields DEF Files, WorkFiles
<1> QED
  BY <1>1, <1>2, <1>3, <1>4

\* What is computed from the flags alone stays as it is.
LEMMA OptsFrame ==
  ASSUME opts' = opts
  PROVE  /\ First' = First /\ Second' = Second /\ (Splits' <=> Splits) /\ OwnDir' = OwnDir
         /\ SplitSource' = SplitSource /\ (Remapped' <=> Remapped)
         /\ (AsksForDefault' <=> AsksForDefault)
<1>1. First' = First
  BY DEF First, BuiltConfig
<1>2. Second' = Second
  BY <1>1 DEF Second
<1>3. Splits' <=> Splits
  BY DEF Splits
<1>4. OwnDir' = OwnDir
  BY <1>3 DEF OwnDir
<1>5. SplitSource' = SplitSource
  BY DEF SplitSource, MergedPath, WavPath, Or
<1>6. Remapped' <=> Remapped
  BY DEF Remapped, TemporaryWAV
<1>7. AsksForDefault' <=> AsksForDefault
  BY DEF AsksForDefault
<1> QED
  BY <1>1, <1>2, <1>3, <1>4, <1>5, <1>6, <1>7

\* Segments stay justified while flags and result stay.
LEMMA FallbackFrame ==
  ASSUME opts' = opts, result' = result, FallbackOnlyForDefault
  PROVE  FallbackOnlyForDefault'
<1>1. AsksForDefault' <=> AsksForDefault
  BY OptsFrame
<1> QED
  BY <1>1, Zenon DEF FallbackOnlyForDefault

\* A step that returns an error has answered nothing.
LEMMA FailingStep ==
  ASSUME IInv, opts' = opts, pc' = "failed", result' = result, answer' = answer,
         pc \notin {"written", "exited", "killed"},
         work' \in {"none", OwnDir}, files' \in [Files -> States], trimInfo' = trimInfo
  PROVE  IInv'
<1>1. answer = "none"
  BY DEF IInv, AnswerInv
<1>2. TypeInv'
  BY <1>1 DEF IInv, TypeInv, Labels, States
<1>3. ModeInv'
  BY DEF ModeInv
<1>4. WorkInv'
  BY OptsFrame DEF WorkInv
<1>5. SourceInv'
  BY DEF IInv, SourceInv
<1>6. ResultInv'
  BY <1>1 DEF ResultInv
<1>7. AnswerInv'
  BY <1>1 DEF AnswerInv
<1>8. NoSegmentsYet' /\ FallbackOnlyForDefault'
  BY FallbackFrame DEF IInv, NoSegmentsYet
<1> QED
  BY <1>2, <1>3, <1>4, <1>5, <1>6, <1>7, <1>8 DEF IInv

\* A step to the next method has answered nothing, either.
LEMMA MovingStep ==
  ASSUME IInv, opts' = opts, result' = result, answer' = answer,
         pc \in {"start", "workdir", "renew", "preconvert", "trim", "fixed-trim", "split"},
         pc' \in {"workdir", "renew", "preconvert", "trim", "fixed-trim", "split"},
         files' \in [Files -> States], ModeInv', WorkInv', SourceInv'
  PROVE  IInv'
<1>1. answer = "none" /\ result = NoResult
  BY DEF IInv, AnswerInv, NoSegmentsYet
<1>2. TypeInv'
  BY <1>1 DEF IInv, TypeInv, Labels, States
<1>6. ResultInv'
  BY <1>1 DEF ResultInv
<1>7. AnswerInv'
  BY <1>1 DEF AnswerInv
<1>8. NoSegmentsYet' /\ FallbackOnlyForDefault'
  <2>1. NoResult' = NoResult
    BY DEF NoResult, NoSlices, NoGroups
  <2> QED
    BY <1>1, <2>1, FallbackFrame DEF IInv, NoSegmentsYet
<1> QED
  BY <1>2, <1>6, <1>7, <1>8 DEF IInv

\* Facts about sequences, records and counts that the steps below need.
LEMMA EmptyDomain == DOMAIN <<>> = {}
OBVIOUS

\* A result without segments.
LEMMA AnsweringStep ==
  ASSUME IInv, opts' = opts, answer' = answer,
         pc \in {"preconvert", "trim", "fixed-trim"}, pc' = "write",
         files' \in [Files -> States], work' = work, trimInfo' \in
           [count : Nat, succeeded : Nat, skipped : Nat],
         trimInfo'.succeeded + trimInfo'.skipped = trimInfo'.count,
         NEW p, NEW slices, result'.path = p, result'.segments = <<>>,
         result'.slices = slices, result'.groups = NoGroups,
         slices.succeeded + slices.skipped = slices.count,
         p \notin WorkFiles, p \in Files => files'[p] = "complete",
         opts.mode # "split", opts.mode = "process" => p = ""
  PROVE  IInv'
<1>1. answer = "none"
  BY DEF IInv, AnswerInv
<1>2. TypeInv'
  BY <1>1 DEF IInv, TypeInv, Labels, States
<1>3. ModeInv'
  BY DEF ModeInv
<1>4. WorkInv'
  BY OptsFrame DEF IInv, WorkInv
<1>5. SourceInv'
  BY DEF SourceInv
<1>r. /\ result'.path = p /\ result'.segments = <<>> /\ result'.slices = slices
      /\ result'.groups = NoGroups
  OBVIOUS
<1>g. NoGroups.groups = 0 /\ NoGroups.segments = 0 /\ NoGroups.skipped = 0
  BY DEF NoGroups
<1>d. DOMAIN <<>> = {}
  BY EmptyDomain
<1>6. ResultInv'
  <2>m. opts'.mode # "split" /\ (opts'.mode = "process" => p = "")
    OBVIOUS
  <2>a. slices.succeeded + slices.skipped = slices.count
    OBVIOUS
  <2>b. result'.slices.succeeded + result'.slices.skipped = result'.slices.count
    BY <1>r, <2>a, Zenon
  <2>c. result'.groups.segments + result'.groups.skipped = result'.groups.groups
    BY ONLY <1>r, <1>g
  <2>d. (result'.segments # <<>> <=> result'.groups.segments > 0)
    BY ONLY <1>r, <1>g
  <2>e. (opts'.mode = "process" /\ result'.path # "" => result'.slices.succeeded > 0)
    BY ONLY <1>r, <2>m
  <2>f. result'.groups.groups = 0
    BY ONLY <1>r, <1>g
  <2>1. Counted(result)'
    BY ONLY <2>b, <2>c, <2>d, <2>e, <2>f DEF Counted
  <2>2. \A k \in DOMAIN result'.segments : SegmentOK(result.segments[k])'
    BY <1>r, <1>d
  <2> QED
    BY <2>1, <2>2, <1>r DEF ResultInv, WorkFiles, Files
<1>7. AnswerInv'
  BY <1>1 DEF AnswerInv
<1>8. NoSegmentsYet' /\ FallbackOnlyForDefault'
  BY <1>r, <1>d DEF NoSegmentsYet, FallbackOnlyForDefault
<1> QED
  BY <1>2, <1>3, <1>4, <1>5, <1>6, <1>7, <1>8 DEF IInv

\* What is said of a result depends on the flags and the files only.
LEMMA CountedFrame ==
  ASSUME opts' = opts, result' = result, Counted(result)
  PROVE  Counted(result)'
<1>1. Splits' <=> Splits
  BY OptsFrame
<1> QED
  BY <1>1, Zenon DEF Counted

LEMMA ResultFrame ==
  ASSUME ResultInv, pc \in {"write", "written"}, opts' = opts, files' = files,
         result' = result
  PROVE  ResultInv'
<1>1. /\ Counted(result)
      /\ result.path \notin WorkFiles
      /\ result.path \in Files => files[result.path] = "complete"
      /\ \A k \in DOMAIN result.segments : SegmentOK(result.segments[k])
      /\ (opts.mode = "split" \/ result.segments # <<>>) => files[SplitSource] = "complete"
  BY DEF ResultInv
<1>2. Counted(result)'
  BY <1>1, CountedFrame
<1>3. SplitSource' = SplitSource
  BY OptsFrame
<1>4. \A k \in DOMAIN result.segments : SegmentOK(result.segments[k])'
  <2> SUFFICES ASSUME NEW k \in DOMAIN result.segments
               PROVE  SegmentOK(result.segments[k])'
    OBVIOUS
  <2>1. SegmentOK(result.segments[k])
    BY <1>1
  <2>2. /\ Splits' <=> Splits
        /\ AsksForDefault' <=> AsksForDefault
        /\ Remapped' <=> Remapped
    BY OptsFrame
  <2> QED
    BY <1>3, <2>1, <2>2, Zenon DEF SegmentOK
<1> QED
  BY <1>1, <1>2, <1>3, <1>4 DEF ResultInv

\* The fields of a result without segments.
LEMMA NoResultIs ==
  NoResult = [path |-> "", segments |-> <<>>, slices |-> NoSlices, groups |-> NoGroups]
BY DEF NoResult

LEMMA AnswerFields ==
  ASSUME NEW p, NEW r, r = [NoResult EXCEPT !.path = p]
  PROVE  /\ r.path = p /\ r.segments = <<>> /\ r.slices = NoSlices /\ r.groups = NoGroups
         /\ NoSlices.succeeded + NoSlices.skipped = NoSlices.count
<1>1. NoSlices.succeeded + NoSlices.skipped = NoSlices.count
  BY DEF NoSlices
<1> QED
  BY <1>1, NoResultIs

\* The counts of the slices.
LEMMA SliceCounts ==
  ASSUME NEW N \in Nat, NEW n \in 0 .. N, NEW valid \in 0 .. n
  PROVE  LET info == [count |-> n, succeeded |-> valid, skipped |-> n - valid]
         IN  /\ info \in [count : Nat, succeeded : Nat, skipped : Nat]
             /\ info.succeeded + info.skipped = info.count
             /\ info.succeeded = valid
OBVIOUS

-----------------------------------------------------------------------------
(***************************************************************************)
(* Every action keeps the invariant.                                       *)
(***************************************************************************)
LEMMA InitEstablishes == Init => IInv
<1> SUFFICES ASSUME Init PROVE IInv
  OBVIOUS
<1>1. TypeInv
  BY DEF Init, TypeInv, Labels, States
<1>2. ModeInv
  BY DEF Init, ModeInv
<1>3. WorkInv
  BY DEF Init, WorkInv
<1>4. SourceInv
  BY DEF Init, SourceInv, NoSlices
<1>5. ResultInv /\ AnswerInv /\ NoSegmentsYet
  BY DEF Init, ResultInv, AnswerInv, NoSegmentsYet
<1>6. FallbackOnlyForDefault
  <2>1. result.segments = <<>>
    BY DEF Init, NoResult
  <2> QED
    BY <2>1, EmptyDomain DEF FallbackOnlyForDefault
<1> QED
  BY <1>1, <1>2, <1>3, <1>4, <1>5, <1>6 DEF IInv

LEMMA StartPreserves == IInv /\ Start => IInv'
<1> SUFFICES ASSUME IInv, Start PROVE IInv'
  OBVIOUS
<1>1. /\ pc = "start" /\ opts' = opts /\ work' = work /\ files' = files /\ wavRate' = wavRate
      /\ trimInfo' = trimInfo /\ answer' = answer
  BY DEF Start, At
<1>2. files' \in [Files -> States] /\ work \in {"none", OwnDir}
  BY <1>1 DEF IInv, TypeInv, WorkInv, States
<1>3. CASE ~ Accepted
  <2>1. pc' = "failed" /\ result' = result
    BY <1>3 DEF Start, ReturnError, Goto
  <2> QED
    BY <1>1, <1>2, <2>1, FailingStep
<1>4. CASE Accepted
  <2>1. cfg' = First /\ result' = result
    BY <1>4 DEF Start, First
  <2>2. pc' = IF opts.mode \in {"split", "process"} THEN "workdir" ELSE opts.mode
    BY <1>4 DEF Start, Goto
  <2>3. opts.mode \in Modes /\ (opts.mode = "preconvert" => opts.output # "")
    BY <1>4 DEF Accepted
  <2>4. work = "none"
    BY <1>1 DEF IInv, WorkInv
  <2>5. ModeInv'
    BY <1>1, <2>1, <2>2, <2>3, OptsFrame DEF ModeInv, Splits, Modes
  <2>6. WorkInv'
    BY <1>1, <2>2, <2>3, <2>4, OptsFrame DEF WorkInv, OwnDir, Splits, Modes
  <2>7. SourceInv'
    BY <1>1, <2>2, <2>3 DEF IInv, SourceInv, Modes
  <2>8. pc' \in {"workdir", "preconvert", "trim", "fixed-trim"}
    BY <2>2, <2>3 DEF Modes
  <2> QED
    BY <1>1, <1>2, <2>1, <2>5, <2>6, <2>7, <2>8, MovingStep
<1> QED
  BY <1>3, <1>4

LEMMA PrepareWorkDirPreserves == IInv /\ PrepareWorkDir => IInv'
<1> SUFFICES ASSUME IInv, PrepareWorkDir PROVE IInv'
  OBVIOUS
<1>1. /\ pc = "workdir" /\ opts' = opts /\ files' = files /\ cfg' = cfg /\ wavRate' = wavRate
      /\ trimInfo' = trimInfo /\ answer' = answer /\ result' = result
  BY DEF PrepareWorkDir, At, ReturnError
<1>2. files' \in [Files -> States] /\ work \in {"none", OwnDir}
  BY <1>1 DEF IInv, TypeInv, WorkInv, States
<1>3. CASE pc' = "failed" /\ work' = work
  BY <1>1, <1>2, <1>3, FailingStep
<1>4. CASE /\ work' = (IF opts.workDir # "" THEN "given" ELSE "temporary")
           /\ pc' = "renew"
  <2>1. Splits /\ cfg = First
    BY <1>1 DEF IInv, ModeInv
  <2>2. work' = OwnDir
    BY <1>4, <2>1, Zenon DEF OwnDir
  <2>5. ModeInv'
    BY <1>1, <1>4, <2>1, OptsFrame DEF ModeInv
  <2>6. WorkInv'
    BY <1>1, <1>4, <2>2, OptsFrame DEF WorkInv
  <2>7. SourceInv'
    BY <1>1, <1>4 DEF IInv, SourceInv
  <2> QED
    BY <1>1, <1>2, <1>4, <2>5, <2>6, <2>7, MovingStep
<1> QED
  BY <1>3, <1>4 DEF PrepareWorkDir, ReturnError, Goto

LEMMA RenewPreserves == IInv /\ Renew => IInv'
<1> SUFFICES ASSUME IInv, Renew PROVE IInv'
  OBVIOUS
<1>1. /\ pc = "renew" /\ opts' = opts /\ files' = files /\ wavRate' = wavRate
      /\ trimInfo' = trimInfo /\ answer' = answer /\ result' = result /\ work' = work
      /\ pc' = "preconvert"
  BY DEF Renew, At, Goto
<1>2. files' \in [Files -> States]
  BY <1>1 DEF IInv, TypeInv, States
<1>3. Splits /\ cfg = First /\ work = OwnDir
  BY <1>1 DEF IInv, ModeInv, WorkInv
<1>4. cfg' = Second
  <2>1. CASE First.OutDir # ""
    BY <1>3, <2>1 DEF Renew, Second
  <2>2. CASE First.OutDir = ""
    BY <1>3, <2>2 DEF Renew, Renewed, Second
  <2> QED
    BY <2>1, <2>2
<1>5. ModeInv'
  BY <1>1, <1>3, <1>4, OptsFrame DEF ModeInv
<1>6. WorkInv'
  BY <1>1, <1>3, OptsFrame DEF WorkInv
<1>7. SourceInv'
  BY <1>1 DEF IInv, SourceInv
<1> QED
  BY <1>1, <1>2, <1>5, <1>6, <1>7, MovingStep

LEMMA PreconvertPreserves == IInv /\ Preconvert => IInv'
<1> SUFFICES ASSUME IInv, Preconvert PROVE IInv'
  OBVIOUS
<1> DEFINE target == IF opts.mode = "preconvert" THEN opts.output ELSE WavPath
<1>1. /\ pc = "preconvert" /\ opts' = opts /\ cfg' = cfg /\ work' = work
      /\ trimInfo' = trimInfo /\ answer' = answer
  BY DEF Preconvert, At
<1>2. /\ opts \in Commands /\ files \in [Files -> States] /\ work = OwnDir
      /\ Splits \/ (opts.mode = "preconvert" /\ opts.output # "")
      /\ Splits => cfg = Second
      /\ result = NoResult
  BY <1>1 DEF IInv, TypeInv, ModeInv, WorkInv, States, NoSegmentsYet
<1>3. /\ target \in Files /\ (opts.mode = "preconvert" => target = "--output")
      /\ (opts.mode # "preconvert" => target = WavPath)
  <2>1. /\ opts.output \in {"", "--output"} /\ WavPath \in {"work wav", "--wav"}
    BY <1>2, CommandTypes
  <2>2. CASE opts.mode = "preconvert"
    <3>1. ~ Splits
      BY <2>2 DEF Splits
    <3> QED
      BY <1>2, <2>1, <2>2, <3>1 DEF Files
  <2>3. CASE opts.mode # "preconvert"
    BY <2>1, <2>3 DEF Files, WorkFiles
  <2> QED
    BY <2>2, <2>3
<1> HIDE DEF target
<1>4. CASE pc' = "failed" /\ result' = result /\ files' = files
  BY <1>1, <1>2, <1>4, FailingStep
<1>5. CASE pc' = "failed" /\ result' = result /\ files' = [files EXCEPT ![target] = "bad"]
  <2>1. files' \in [Files -> States]
    BY <1>2, <1>5 DEF States
  <2> QED
    BY <1>1, <1>2, <1>5, <2>1, FailingStep
<1>6. CASE /\ files' = [files EXCEPT ![target] = "complete"]
           /\ wavRate' = PreconvertRate
           /\ CASE opts.mode = "preconvert" -> Result([NoResult EXCEPT !.path = target])
                [] opts.mode = "split" -> Goto("split") /\ UNCHANGED result
                [] opts.mode = "process" -> Goto("fixed-trim") /\ UNCHANGED result
  <2>1. files' \in [Files -> States] /\ files'[target] = "complete"
    BY <1>2, <1>3, <1>6 DEF States
  <2>s. /\ trimInfo \in [count : Nat, succeeded : Nat, skipped : Nat]
        /\ trimInfo.succeeded + trimInfo.skipped = trimInfo.count
    BY DEF IInv, SourceInv
  <2>2. CASE opts.mode = "preconvert"
    <3>1. Result([NoResult EXCEPT !.path = target])
      BY <1>6, <2>2
    <3>2. pc' = "write" /\ result' = [NoResult EXCEPT !.path = target]
      BY <3>1 DEF Result, Goto
    <3>3. /\ result'.path = target /\ result'.segments = <<>>
          /\ result'.slices = NoSlices /\ result'.groups = NoGroups
          /\ NoSlices.succeeded + NoSlices.skipped = NoSlices.count
      BY <3>2, AnswerFields, Zenon
    <3>4. target \notin WorkFiles
      BY <1>3, <2>2 DEF WorkFiles
    <3> QED
      BY <1>1, <2>1, <2>2, <2>s, <3>2, <3>3, <3>4, AnsweringStep
  <2>3. CASE opts.mode \in {"split", "process"}
    <3>1. /\ pc' = IF opts.mode = "split" THEN "split" ELSE "fixed-trim"
          /\ result' = result
      <4>1. CASE opts.mode = "split"
        BY <1>6, <4>1 DEF Goto
      <4>2. CASE opts.mode = "process"
        BY <1>6, <4>2 DEF Goto
      <4> QED
        BY <2>3, <4>1, <4>2
    <3>2. Splits /\ cfg = Second
      BY <1>2, <2>3 DEF Splits
    <3>3. wavRate' = IF opts.rate <= 0 THEN Second.OutputSampleRate ELSE opts.rate
      BY <1>6, <3>2 DEF PreconvertRate
    <3>4. ModeInv'
      BY <1>1, <2>3, <3>1, <3>2, OptsFrame DEF ModeInv
    <3>5. WorkInv'
      BY <1>1, <1>2, <2>3, <3>1, OptsFrame DEF WorkInv
    <3>6. SourceInv'
      <4>1. (pc' = "split") => files'[SplitSource] = "complete" /\ opts.mode # "process"
        BY <1>3, <2>1, <3>1, <2>3 DEF SplitSource
      <4>2. SplitSource' = SplitSource /\ Second' = Second
        BY <1>1, OptsFrame
      <4> QED
        BY <1>1, <2>s, <3>3, <4>1, <4>2 DEF SourceInv
    <3>7. pc' \in {"split", "fixed-trim"}
      BY <3>1
    <3> QED
      BY <1>1, <2>1, <3>1, <3>4, <3>5, <3>6, <3>7, MovingStep
  <2> QED
    BY <1>2, <2>2, <2>3 DEF Splits
<1> QED
  BY <1>4, <1>5, <1>6 DEF Preconvert, ReturnError, Goto, target

LEMMA TrimPreserves == IInv /\ Trim => IInv'
<1> SUFFICES ASSUME IInv, Trim PROVE IInv'
  OBVIOUS
<1> DEFINE target == Or(opts.output, "beside input")
<1>1. /\ pc = "trim" /\ opts' = opts /\ work' = work /\ trimInfo' = trimInfo
      /\ answer' = answer
  BY DEF Trim, At
<1>2. /\ opts \in Commands /\ files \in [Files -> States] /\ work = OwnDir
      /\ opts.mode = "trim"
      /\ trimInfo \in [count : Nat, succeeded : Nat, skipped : Nat]
      /\ trimInfo.succeeded + trimInfo.skipped = trimInfo.count
  BY <1>1 DEF IInv, TypeInv, ModeInv, WorkInv, SourceInv, States
<1>3. target \in Files /\ target \notin WorkFiles
  <2>1. target \in {"--output", "beside input"}
    BY <1>2, CommandTypes
  <2> QED
    BY <2>1 DEF Files, WorkFiles
<1> HIDE DEF target
<1>4. CASE pc' = "failed" /\ result' = result /\ files' = files
  BY <1>1, <1>2, <1>4, FailingStep
<1>5. CASE pc' = "failed" /\ result' = result /\ files' = [files EXCEPT ![target] = "bad"]
  <2>1. files' \in [Files -> States]
    BY <1>2, <1>5 DEF States
  <2> QED
    BY <1>1, <1>2, <1>5, <2>1, FailingStep
<1>6. CASE /\ \E p \in {"input", ""} : Result([NoResult EXCEPT !.path = p])
           /\ files' = files
  <2>1. PICK p \in {"input", ""} : Result([NoResult EXCEPT !.path = p])
    BY <1>6
  <2>2. pc' = "write" /\ result' = [NoResult EXCEPT !.path = p]
    BY <2>1 DEF Result, Goto
  <2>3. p \notin Files /\ p \notin WorkFiles
    BY DEF Files, WorkFiles
  <2>4. /\ result'.path = p /\ result'.segments = <<>>
        /\ result'.slices = NoSlices /\ result'.groups = NoGroups
        /\ NoSlices.succeeded + NoSlices.skipped = NoSlices.count
    BY <2>2, AnswerFields, Zenon
  <2> QED
    BY <1>1, <1>2, <1>6, <2>2, <2>3, <2>4, AnsweringStep
<1>7. CASE /\ files' = [files EXCEPT ![target] = "complete"]
           /\ Result([NoResult EXCEPT !.path = target])
  <2>1. files' \in [Files -> States] /\ files'[target] = "complete"
    BY <1>2, <1>3, <1>7 DEF States
  <2>2. pc' = "write" /\ result' = [NoResult EXCEPT !.path = target]
    BY <1>7 DEF Result, Goto
  <2>4. /\ result'.path = target /\ result'.segments = <<>>
        /\ result'.slices = NoSlices /\ result'.groups = NoGroups
        /\ NoSlices.succeeded + NoSlices.skipped = NoSlices.count
    BY <2>2, AnswerFields, Zenon
  <2> QED
    BY <1>1, <1>2, <1>3, <2>1, <2>2, <2>4, AnsweringStep
<1> QED
  BY <1>4, <1>5, <1>6, <1>7 DEF Trim, ReturnError, Goto, target

LEMMA FixedTrimPreserves == IInv /\ FixedTrim => IInv'
<1> SUFFICES ASSUME IInv, FixedTrim PROVE IInv'
  OBVIOUS
<1> DEFINE target == IF opts.mode = "process" THEN MergedPath
                     ELSE Or(opts.output, "beside input")
<1>1. /\ pc = "fixed-trim" /\ opts' = opts /\ cfg' = cfg /\ work' = work
      /\ wavRate' = wavRate /\ answer' = answer
  BY DEF FixedTrim, At
<1>2. /\ opts \in Commands /\ files \in [Files -> States] /\ work = OwnDir
      /\ opts.mode \in {"fixed-trim", "process"}
      /\ opts.mode = "process" => /\ cfg = Second
                                  /\ wavRate = IF opts.rate <= 0 THEN Second.OutputSampleRate
                                               ELSE opts.rate
      /\ result = NoResult
  BY <1>1 DEF IInv, TypeInv, ModeInv, WorkInv, SourceInv, States, NoSegmentsYet, Splits
<1>3. /\ target \in Files
      /\ opts.mode = "process" => target = SplitSource
      /\ opts.mode # "process" => target \notin WorkFiles
  <2>1. CASE opts.mode = "process"
    <3>1. target = MergedPath /\ target = SplitSource
      BY <2>1 DEF SplitSource
    <3> QED
      BY <1>2, <2>1, <3>1, CommandTypes DEF Files, WorkFiles
  <2>2. CASE opts.mode # "process"
    <3>1. target = Or(opts.output, "beside input")
      BY <2>2
    <3>2. target \in {"--output", "beside input"}
      BY <1>2, <3>1, CommandTypes
    <3> QED
      BY <2>2, <3>2 DEF Files, WorkFiles
  <2> QED
    BY <2>1, <2>2
<1> HIDE DEF target
<1>4. CASE pc' = "failed" /\ result' = result /\ files' = files /\ trimInfo' = trimInfo
  BY <1>1, <1>2, <1>4, FailingStep
<1>5. CASE /\ pc' = "failed" /\ result' = result /\ trimInfo' = trimInfo
           /\ files' = [files EXCEPT ![target] = "bad"]
  <2>1. files' \in [Files -> States]
    BY <1>2, <1>5 DEF States
  <2> QED
    BY <1>1, <1>2, <1>5, <2>1, FailingStep
<1>6. ASSUME NEW n \in 0 .. MaxParts, NEW valid \in 0 .. n,
             trimInfo' = [count |-> n, succeeded |-> valid, skipped |-> n - valid],
             files' = IF valid = 0 THEN files ELSE [files EXCEPT ![target] = "complete"],
             IF opts.mode = "process" /\ SplitIf(IF valid = 0 THEN "" ELSE target)
             THEN Goto("split") /\ UNCHANGED result
             ELSE Result([NoResult EXCEPT !.path = IF valid = 0 THEN "" ELSE target,
                                          !.slices = trimInfo'])
      PROVE  IInv'
  <2> DEFINE info == [count |-> n, succeeded |-> valid, skipped |-> n - valid]
  <2>1. /\ info \in [count : Nat, succeeded : Nat, skipped : Nat]
        /\ info.succeeded + info.skipped = info.count
        /\ info.succeeded = valid
    BY CliAssumption, SliceCounts
  <2>2. trimInfo' = info
    BY <1>6
  <2> HIDE DEF info
  <2>3. target # ""
    BY <1>3 DEF Files, WorkFiles
  <2>4. CASE valid = 0
    <3>1. Result([NoResult EXCEPT !.path = "", !.slices = info])
      BY <1>6, <2>2, <2>4 DEF SplitIf
    <3>2. pc' = "write" /\ result' = [NoResult EXCEPT !.path = "", !.slices = info]
      BY <3>1 DEF Result, Goto
    <3>3. "" \notin Files /\ "" \notin WorkFiles
      BY DEF Files, WorkFiles
    <3>4. files' \in [Files -> States]
      BY <1>2, <1>6, <2>4
    <3>5. /\ result'.path = "" /\ result'.segments = <<>>
          /\ result'.slices = info /\ result'.groups = NoGroups
      BY ONLY <3>2, NoResultIs
    <3> QED
      BY <1>1, <1>2, <2>1, <2>2, <3>2, <3>3, <3>4, <3>5, AnsweringStep
  <2>5. CASE valid # 0
    <3>1. files' = [files EXCEPT ![target] = "complete"]
      BY <1>6, <2>5
    <3>2. files' \in [Files -> States] /\ files'[target] = "complete"
      BY <1>2, <1>3, <3>1 DEF States
    <3>3. CASE opts.mode # "process"
      <4>1. Result([NoResult EXCEPT !.path = target, !.slices = info])
        BY <1>6, <2>2, <2>5, <3>3
      <4>2. pc' = "write" /\ result' = [NoResult EXCEPT !.path = target, !.slices = info]
        BY <4>1 DEF Result, Goto
      <4>3. /\ result'.path = target /\ result'.segments = <<>>
            /\ result'.slices = info /\ result'.groups = NoGroups
        BY ONLY <4>2, NoResultIs
      <4> QED
        BY <1>1, <1>2, <1>3, <2>1, <2>2, <3>2, <3>3, <4>2, <4>3, AnsweringStep
    <3>4. CASE opts.mode = "process"
      <4>1. pc' = "split" /\ result' = result
        BY <1>6, <2>3, <2>5, <3>4 DEF SplitIf, Goto
      <4>2. ModeInv'
        BY <1>1, <1>2, <3>4, <4>1, OptsFrame DEF ModeInv, Splits
      <4>3. WorkInv'
        BY <1>1, <1>2, <4>1, OptsFrame DEF WorkInv
      <4>4. SourceInv'
        <5>1. valid > 0
          BY <2>5
        <5>2. files'[SplitSource] = "complete" /\ trimInfo'.succeeded > 0
          BY <1>3, <2>1, <2>2, <3>2, <3>4, <5>1
        <5>3. SplitSource' = SplitSource /\ Second' = Second
          BY <1>1, OptsFrame
        <5> QED
          BY <1>1, <1>2, <2>1, <2>2, <3>4, <5>2, <5>3 DEF SourceInv
      <4> QED
        BY <1>1, <3>2, <4>1, <4>2, <4>3, <4>4, MovingStep
    <3> QED
      BY <3>3, <3>4
  <2> QED
    BY <2>4, <2>5
<1> QED
  BY <1>4, <1>5, <1>6 DEF FixedTrim, ReturnError, Goto, target

\* A result with segments, or one that has none for want of speech.
SplitAnswer(segments, n, made) ==
  [path |-> IF n = 0 THEN "" ELSE cfg.OutDir, segments |-> segments, slices |-> trimInfo,
   groups |-> [groups |-> n, segments |-> made, skipped |-> n - made]]

\* The counts of a result of the split.
LEMMA GroupCounts ==
  ASSUME NEW N \in Nat, NEW n \in 0 .. N, NEW made \in 0 .. n
  PROVE  LET groups == [groups |-> n, segments |-> made, skipped |-> n - made]
         IN  /\ groups.segments + groups.skipped = groups.groups
             /\ groups.segments = made /\ groups.groups = n
             /\ made > 0 => n # 0
             /\ made # 0 => made > 0
OBVIOUS

\* The list of one segment, which stands for them all.
LEMMA OneSegment ==
  ASSUME NEW s
  PROVE  <<s>> # <<>> /\ DOMAIN <<s>> = {1} /\ <<s>>[1] = s
OBVIOUS

\* The split answers with the counts of its groups, and with segments whose files
\* are complete.
LEMMA SplittingStep ==
  ASSUME IInv, pc = "split", pc' = "write", opts' = opts, answer' = answer, cfg' = cfg,
         work' = work, trimInfo' = trimInfo, files' \in [Files -> States],
         files'[SplitSource] = files[SplitSource],
         NEW n \in 0 .. MaxParts, NEW made \in 0 .. n, NEW segments,
         result' = SplitAnswer(segments, n, made),
         segments # <<>> <=> made > 0,
         \A k \in DOMAIN segments : SegmentOK(result.segments[k])',
         FallbackOnlyForDefault'
  PROVE  IInv'
<1>1. answer = "none" /\ opts \in Commands /\ Splits
  BY DEF IInv, AnswerInv, TypeInv, ModeInv
<1>s. /\ trimInfo \in [count : Nat, succeeded : Nat, skipped : Nat]
      /\ trimInfo.succeeded + trimInfo.skipped = trimInfo.count
      /\ files[SplitSource] = "complete"
      /\ opts.mode = "process" => trimInfo.succeeded > 0
      /\ cfg = Second
  BY <1>1 DEF IInv, SourceInv, ModeInv
<1>2. TypeInv'
  BY <1>1 DEF IInv, TypeInv, Labels, States
<1>3. ModeInv'
  BY DEF ModeInv
<1>4. WorkInv'
  BY OptsFrame DEF IInv, WorkInv
<1>5. SourceInv'
  BY <1>s DEF SourceInv
<1> DEFINE groups == [groups |-> n, segments |-> made, skipped |-> n - made]
<1>g. /\ groups.segments + groups.skipped = groups.groups
      /\ groups.segments = made /\ groups.groups = n
  BY CliAssumption, GroupCounts
<1> DEFINE path == IF n = 0 THEN "" ELSE cfg.OutDir
<1>r. /\ result'.path = path /\ result'.segments = segments /\ result'.slices = trimInfo
      /\ result'.groups = groups
  BY DEF SplitAnswer
<1>p. path \notin Files /\ (path = "" => n = 0)
  <2>1. Second.OutDir \notin Files /\ Second.OutDir # "" /\ "" \notin Files
    BY <1>1, CommandTypes DEF Files, WorkFiles
  <2> QED
    BY <1>s, <2>1
<1> HIDE DEF groups, path
<1>6. ResultInv'
  <2>b. result'.slices.succeeded + result'.slices.skipped = result'.slices.count
    BY <1>r, <1>s, Zenon
  <2>c. result'.groups.segments + result'.groups.skipped = result'.groups.groups
    BY <1>r, <1>g, Zenon
  <2>d. (result'.segments # <<>> <=> result'.groups.segments > 0)
    BY <1>r, <1>g, Zenon
  <2>e. (opts'.mode = "process" /\ result'.path # "" => result'.slices.succeeded > 0)
    BY <1>r, <1>s, Zenon
  <2>f. result'.path = "" => result'.groups.groups = 0
    BY <1>r, <1>g, <1>p, Zenon
  <2>1. Counted(result)'
    BY ONLY <2>b, <2>c, <2>d, <2>e, <2>f DEF Counted
  <2>2. \A k \in DOMAIN result'.segments : SegmentOK(result.segments[k])'
    BY <1>r
  <2>3. result'.path \notin Files /\ result'.path \notin WorkFiles
    BY <1>r, <1>p DEF Files
  <2>4. files'[SplitSource'] = "complete"
    BY <1>s, OptsFrame
  <2> QED
    BY <2>1, <2>2, <2>3, <2>4 DEF ResultInv
<1>7. AnswerInv'
  BY <1>1 DEF AnswerInv
<1>8. NoSegmentsYet'
  BY DEF NoSegmentsYet
<1> QED
  BY <1>2, <1>3, <1>4, <1>5, <1>6, <1>7, <1>8 DEF IInv

LEMMA SplitPreserves == IInv /\ Split => IInv'
<1> SUFFICES ASSUME IInv, Split PROVE IInv'
  OBVIOUS
<1>1. /\ pc = "split" /\ opts' = opts /\ cfg' = cfg /\ work' = work /\ wavRate' = wavRate
      /\ trimInfo' = trimInfo /\ answer' = answer
  BY DEF Split, At
<1>2. /\ opts \in Commands /\ files \in [Files -> States] /\ work = OwnDir
      /\ Splits /\ cfg = Second
      /\ result = NoResult
  BY <1>1 DEF IInv, TypeInv, ModeInv, WorkInv, States, NoSegmentsYet
<1>3. /\ SplitSource \in Files /\ SplitSource \notin {"part", "segment wav"}
      /\ {"part", "segment wav"} \subseteq Files
  BY <1>2, CommandTypes DEF Files
<1>4. CASE pc' = "failed" /\ result' = result /\ files' = files
  BY <1>1, <1>2, <1>4, FailingStep
<1>5. CASE /\ pc' = "failed" /\ result' = result
           /\ files' = [files EXCEPT !["part"] = "bad", !["segment wav"] = "bad"]
  <2>1. files' \in [Files -> States]
    BY <1>2, <1>5 DEF States
  <2> QED
    BY <1>1, <1>2, <1>5, <2>1, FailingStep
<1>6. ASSUME NEW n \in 0 .. MaxParts, NEW made \in 0 .. n,
             splitInfo' = [groups |-> n, segments |-> made, skipped |-> n - made],
             made = 0,
             Result(SplitResult(<<>>, splitInfo')),
             files' = IF n = 0 THEN files ELSE [files EXCEPT !["segment wav"] = "bad"]
      PROVE  IInv'
  <2>1. pc' = "write" /\ result' = SplitResult(<<>>, splitInfo')
    BY <1>6 DEF Result, Goto
  <2>2. result' = SplitAnswer(<<>>, n, made)
    BY <1>6, <2>1 DEF SplitResult, SplitAnswer, Combined
  <2>3. files' \in [Files -> States] /\ files'[SplitSource] = files[SplitSource]
    BY <1>2, <1>3, <1>6 DEF States
  <2>4. result'.segments = <<>>
    BY <2>2 DEF SplitAnswer
  <2>5. FallbackOnlyForDefault'
    BY <2>4, EmptyDomain DEF FallbackOnlyForDefault
  <2>6. (<<>> # <<>>) <=> made > 0
    <3>1. made = 0
      BY <1>6, Zenon
    <3>2. ~ (made > 0)
      BY ONLY <3>1
    <3> QED
      BY <3>2, Zenon
  <2>7. \A k \in DOMAIN <<>> : SegmentOK(result.segments[k])'
    BY EmptyDomain
  <2> QED
    BY <1>1, <2>1, <2>2, <2>3, <2>5, <2>6, <2>7, SplittingStep
<1>7. ASSUME NEW n \in 0 .. MaxParts, NEW made \in 0 .. n,
             splitInfo' = [groups |-> n, segments |-> made, skipped |-> n - made],
             made # 0, NEW encoded \in {TRUE, ~ MayFallBack},
             files' = [files EXCEPT !["segment wav"] = "complete",
                                    !["part"] = IF encoded THEN "complete" ELSE "bad"],
             Result(SplitResult(<<SegmentOf(encoded)>>, splitInfo'))
      PROVE  IInv'
  <2> DEFINE s == SegmentOf(encoded)
  <2>1. pc' = "write" /\ result' = SplitResult(<<s>>, splitInfo')
    BY <1>7 DEF Result, Goto
  <2>2. result' = SplitAnswer(<<s>>, n, made)
    BY <1>7, <2>1 DEF SplitResult, SplitAnswer, Combined
  <2>3. /\ files' \in [Files -> States] /\ files'[SplitSource] = files[SplitSource]
        /\ files'["segment wav"] = "complete"
        /\ encoded => files'["part"] = "complete"
    BY <1>2, <1>3, <1>7 DEF States
  <2>4. result'.segments = <<s>>
    BY <2>2 DEF SplitAnswer
  <2>5. ~ encoded => AsksForDefault
    <3>1. ~ encoded => MayFallBack
      BY <1>7
    <3> QED
      BY <1>2, <3>1, FallbackAsked, Zenon DEF MayFallBack
  <2>6. /\ s.file = SegmentFile(encoded)
        /\ s.tempWAV \in {"", "segment wav"}
        /\ s.sourceWAV = IF Remapped THEN "" ELSE SplitSource
        /\ s.sourcePath = IF Remapped THEN "input" ELSE SplitSource
    BY DEF SegmentOf, Remapped
  <2>7. /\ s.file \in {"part", "segment wav"} /\ files'[s.file] = "complete"
        /\ s.file = "segment wav" => ~ encoded
    BY <1>7, <2>3, <2>6 DEF SegmentFile
  <2> HIDE DEF s
  <2>8. <<s>> # <<>> /\ DOMAIN <<s>> = {1} /\ <<s>>[1] = s
    BY OneSegment
  <2>9. SegmentOK(result.segments[1])'
    <3>1. result'.segments[1] = s
      BY <2>4, <2>8
    <3>2. Splits' /\ (AsksForDefault' <=> AsksForDefault) /\ (Remapped' <=> Remapped)
          /\ SplitSource' = SplitSource
      BY <1>1, <1>2, OptsFrame
    <3>3. s.tempWAV # "" => files'[s.tempWAV] = "complete"
      BY <2>3, <2>6
    <3>4. s.file = "segment wav" => AsksForDefault'
      BY <2>5, <2>7, <3>2
    <3>5. /\ s.sourceWAV = IF Remapped' THEN "" ELSE SplitSource'
          /\ s.sourcePath = IF Remapped' THEN "input" ELSE SplitSource'
      BY <2>6, <3>2, Zenon
    <3> QED
      BY <2>6, <2>7, <3>1, <3>2, <3>3, <3>4, <3>5, Zenon DEF SegmentOK
  <2>10. \A k \in DOMAIN <<s>> : SegmentOK(result.segments[k])'
    <3>1. \A k \in DOMAIN <<s>> : k = 1
      BY <2>8
    <3> QED
      BY <2>9, <3>1, Zenon
  <2>11. FallbackOnlyForDefault'
    <3>1. DOMAIN result'.segments = {1} /\ result'.segments[1] = s
      BY <2>4, <2>8
    <3>2. s.file = "segment wav" => AsksForDefault'
      BY <1>1, <2>5, <2>7, OptsFrame, Zenon
    <3> QED
      BY <3>1, <3>2 DEF FallbackOnlyForDefault
  <2>12. (<<s>> # <<>>) <=> made > 0
    <3>1. made # 0
      BY <1>7, Zenon
    <3>2. made > 0
      BY <3>1, GroupCounts, CliAssumption
    <3> QED
      BY <2>8, <3>2, Zenon
  <2> QED
    BY <1>1, <2>1, <2>2, <2>3, <2>10, <2>11, <2>12, SplittingStep
<1> QED
  BY <1>4, <1>5, <1>6, <1>7 DEF Split, ReturnError, Goto

LEMMA WriteJSONPreserves == IInv /\ WriteJSON => IInv'
<1> SUFFICES ASSUME IInv, WriteJSON PROVE IInv'
  OBVIOUS
<1>1. /\ pc = "write" /\ opts' = opts /\ cfg' = cfg /\ work' = work /\ files' = files
      /\ trimInfo' = trimInfo /\ result' = result
  BY DEF WriteJSON, At
<1>2. files' \in [Files -> States] /\ work = OwnDir /\ answer = "none"
  BY <1>1 DEF IInv, TypeInv, WorkInv, States, AnswerInv
<1>3. CASE pc' = "failed" /\ answer' = answer
  BY <1>1, <1>2, <1>3, FailingStep
<1>4. CASE pc' = "written" /\ answer' = "json"
  <2>1. TypeInv' /\ ModeInv' /\ AnswerInv' /\ NoSegmentsYet'
    BY <1>1, <1>2, <1>4 DEF IInv, TypeInv, Labels, States, ModeInv, AnswerInv, NoSegmentsYet
  <2>2. WorkInv'
    BY <1>1, <1>2, <1>4, OptsFrame DEF WorkInv
  <2>3. SourceInv'
    BY <1>1, <1>4 DEF IInv, SourceInv
  <2>4. ResultInv'
    BY <1>1, <1>4, ResultFrame DEF IInv
  <2>5. FallbackOnlyForDefault'
    BY <1>1, FallbackFrame DEF IInv
  <2> QED
    BY <2>1, <2>2, <2>3, <2>4, <2>5 DEF IInv
<1> QED
  BY <1>3, <1>4 DEF WriteJSON, Goto

LEMMA KilledPreserves == IInv /\ Killed => IInv'
<1> SUFFICES ASSUME IInv, Killed PROVE IInv'
  OBVIOUS
<1>1. /\ pc \notin {"exited", "killed"} /\ pc' = "killed" /\ opts' = opts /\ cfg' = cfg
      /\ work' = work /\ files' = files /\ trimInfo' = trimInfo /\ result' = result
      /\ answer' = answer
  BY DEF Killed, Goto
<1>2. TypeInv' /\ ModeInv' /\ AnswerInv' /\ NoSegmentsYet'
  BY <1>1 DEF IInv, TypeInv, Labels, ModeInv, AnswerInv, NoSegmentsYet
<1>3. WorkInv'
  BY <1>1, OptsFrame DEF IInv, WorkInv
<1>4. SourceInv'
  BY <1>1 DEF IInv, SourceInv
<1>5. ResultInv'
  <2>1. CASE answer = "json"
    <3>1. pc = "written"
      BY <1>1, <2>1 DEF IInv, AnswerInv
    <3> QED
      BY <1>1, <3>1, ResultFrame DEF IInv
  <2>2. CASE answer # "json"
    BY <1>1, <2>2 DEF ResultInv
  <2> QED
    BY <2>1, <2>2
<1>6. FallbackOnlyForDefault'
  BY <1>1, FallbackFrame DEF IInv
<1> QED
  BY <1>2, <1>3, <1>4, <1>5, <1>6 DEF IInv

LEMMA ExitPreserves == IInv /\ Exit => IInv'
<1> SUFFICES ASSUME IInv, Exit PROVE IInv'
  OBVIOUS
<1>1. /\ pc \in {"written", "failed"} /\ pc' = "exited" /\ opts' = opts /\ cfg' = cfg
      /\ trimInfo' = trimInfo /\ result' = result
      /\ answer' = IF pc = "failed" THEN "error" ELSE answer
  BY DEF Exit, Goto, At
<1>2. /\ opts \in Commands /\ files \in [Files -> States] /\ work \in {"none", OwnDir}
      /\ answer \in {"none", "json", "error"}
  BY DEF IInv, TypeInv, WorkInv, States
<1>3. /\ work' \in {"none", OwnDir} /\ work' # "temporary"
      /\ files' \in [Files -> States]
      /\ \A f \in Files : f \notin WorkFiles => files'[f] = files[f]
      /\ work # "temporary" => files' = files
  <2>1. CASE CleansUp
    BY <1>2, <2>1 DEF Exit, CleansUp, States
  <2>2. CASE ~ CleansUp
    BY <1>2, <2>2 DEF Exit, CleansUp
  <2> QED
    BY <2>1, <2>2
<1>4. TypeInv' /\ ModeInv' /\ NoSegmentsYet'
  BY <1>1, <1>2, <1>3 DEF TypeInv, Labels, States, ModeInv, NoSegmentsYet
<1>5. AnswerInv'
  BY <1>1 DEF IInv, AnswerInv
<1>6. WorkInv'
  BY <1>1, <1>3, OptsFrame DEF WorkInv
<1>7. SourceInv'
  BY <1>1 DEF IInv, SourceInv
<1>8. FallbackOnlyForDefault'
  BY <1>1, FallbackFrame DEF IInv
<1>9. ResultInv'
  <2>1. CASE answer' # "json"
    BY <1>1, <2>1 DEF ResultInv
  <2>2. CASE answer' = "json"
    <3>1. pc = "written" /\ work = OwnDir
      BY <1>1, <1>2, <2>2 DEF IInv, WorkInv
    <3>2. /\ Counted(result)
          /\ result.path \notin WorkFiles
          /\ result.path \in Files => files[result.path] = "complete"
          /\ \A k \in DOMAIN result.segments : SegmentOK(result.segments[k])
          /\ (opts.mode = "split" \/ result.segments # <<>>) =>
               files[SplitSource] = "complete"
      BY <3>1 DEF IInv, ResultInv
    <3>3. Counted(result)'
      BY <1>1, <3>2, CountedFrame
    <3>4. result.path \in Files => files'[result.path] = "complete"
      BY <1>3, <3>2
    <3>5. \A k \in DOMAIN result.segments : SegmentOK(result.segments[k])'
      <4> SUFFICES ASSUME NEW k \in DOMAIN result.segments
                   PROVE  SegmentOK(result.segments[k])'
        BY <1>1
      <4> DEFINE s == result.segments[k]
      <4>1. SegmentOK(s)
        BY <3>2
      <4>2. \A f \in {"part", "segment wav"} : files'[f] = files[f]
        BY <1>3 DEF Files, WorkFiles
      <4>3. /\ Splits' <=> Splits
            /\ AsksForDefault' <=> AsksForDefault
            /\ Remapped' <=> Remapped
            /\ SplitSource' = SplitSource
            /\ result'.segments[k] = s
        BY <1>1, OptsFrame
      <4> QED
        BY <4>1, <4>2, <4>3, Zenon DEF SegmentOK
    <3>6. (opts.mode = "split" \/ result.segments # <<>>) =>
            \/ files'[SplitSource] = "complete"
            \/ (opts.workDir = "" /\ SplitSource \in WorkFiles)
      <4>1. SplitSource \in Files
        BY <1>2, CommandTypes
      <4>2. SplitSource \notin WorkFiles => files'[SplitSource] = files[SplitSource]
        BY <1>3, <4>1
      <4>3. work # "temporary" => files'[SplitSource] = files[SplitSource]
        BY <1>3
      <4>4. work = "temporary" => opts.workDir = ""
        BY <3>1 DEF OwnDir
      <4> QED
        BY <3>2, <4>2, <4>3, <4>4
    <3>7. SplitSource' = SplitSource
      BY <1>1, OptsFrame
    <3> QED
      BY <1>1, <3>2, <3>3, <3>4, <3>5, <3>6, <3>7 DEF ResultInv
  <2> QED
    BY <2>1, <2>2
<1> QED
  BY <1>4, <1>5, <1>6, <1>7, <1>8, <1>9 DEF IInv

LEMMA StutterPreserves == IInv /\ UNCHANGED vars => IInv'
<1> SUFFICES ASSUME IInv, UNCHANGED vars PROVE IInv'
  OBVIOUS
<1>1. /\ opts' = opts /\ pc' = pc /\ cfg' = cfg /\ work' = work /\ files' = files
      /\ wavRate' = wavRate /\ trimInfo' = trimInfo /\ result' = result /\ answer' = answer
  BY DEF vars
<1>2. /\ Second' = Second /\ First' = First /\ OwnDir' = OwnDir /\ SplitSource' = SplitSource
      /\ Splits' <=> Splits
      /\ Remapped' <=> Remapped
      /\ AsksForDefault' <=> AsksForDefault
  BY <1>1, OptsFrame
<1>3. TypeInv'
  BY <1>1 DEF IInv, TypeInv
<1>4. ModeInv'
  BY <1>1, <1>2, Zenon DEF IInv, ModeInv
<1>5. WorkInv'
  BY <1>1, <1>2, Zenon DEF IInv, WorkInv
<1>6. SourceInv'
  BY <1>1, <1>2, Zenon DEF IInv, SourceInv
<1>7. ResultInv'
  <2>1. Counted(result) => Counted(result)'
    BY <1>1, CountedFrame
  <2>2. \A k : SegmentOK(result.segments[k]) => SegmentOK(result.segments[k])'
    BY <1>1, <1>2, Zenon DEF SegmentOK
  <2> QED
    BY <1>1, <1>2, <2>1, <2>2 DEF IInv, ResultInv
<1>8. AnswerInv' /\ NoSegmentsYet'
  BY <1>1 DEF IInv, AnswerInv, NoSegmentsYet
<1>9. FallbackOnlyForDefault'
  BY <1>1, FallbackFrame DEF IInv
<1> QED
  BY <1>3, <1>4, <1>5, <1>6, <1>7, <1>8, <1>9 DEF IInv

\* The invariant holds in every state of every behaviour.
LEMMA Invariance == Spec => []IInv
<1>1. IInv /\ [Next]_vars => IInv'
  BY StartPreserves, PrepareWorkDirPreserves, RenewPreserves, PreconvertPreserves,
     TrimPreserves, FixedTrimPreserves, SplitPreserves, WriteJSONPreserves,
     ExitPreserves, KilledPreserves, StutterPreserves, Zenon DEF Next, Finished
<1> QED
  BY <1>1, InitEstablishes, PTL DEF Spec

-----------------------------------------------------------------------------
(***************************************************************************)
(* The theorems.                                                           *)
(***************************************************************************)
\* Every file that a written result names is complete and stays so, also after
\* the command has removed its work directory or was killed.
THEOREM AnswersNameFiles == Spec => []NamedFilesExist
<1>1. IInv => NamedFilesExist
  <2> SUFFICES ASSUME IInv, answer = "json" PROVE NamedFilesExist
    BY DEF NamedFilesExist
  <2>1. /\ result.path \in Files => files[result.path] = "complete"
        /\ \A k \in DOMAIN result.segments : SegmentOK(result.segments[k])
        /\ result.segments # <<>> =>
             \/ files[SplitSource] = "complete"
             \/ (pc = "exited" /\ opts.workDir = "" /\ SplitSource \in WorkFiles)
    BY DEF IInv, ResultInv
  <2>c. opts \in Commands
    BY DEF IInv, TypeInv
  <2>2. ASSUME NEW k \in DOMAIN result.segments
        PROVE  LET s == result.segments[k]
               IN  /\ \A f \in {s.file, s.tempWAV} \ {""} : files[f] = "complete"
                   /\ SourcesStay =>
                        \A f \in {s.sourceWAV, s.sourcePath} \ {"", "input"} :
                          files[f] = "complete"
                   /\ opts.wav # "" \/ opts.workDir # "" => s.sourceWAV = SplitSource
    <3> DEFINE s == result.segments[k]
    <3>1. SegmentOK(s)
      BY <2>1, <2>2
    <3> HIDE DEF s
    <3>2. /\ files[s.file] = "complete"
          /\ s.tempWAV # "" => files[s.tempWAV] = "complete"
          /\ Splits
      BY <3>1 DEF SegmentOK
    <3>3. CASE Remapped
      <4>1. s.sourceWAV = "" /\ s.sourcePath = "input"
        BY <3>1, <3>3 DEF SegmentOK
      <4>2. opts.wav = "" /\ opts.workDir = ""
        BY <3>3 DEF Remapped, TemporaryWAV
      <4>3. SourcesStay =>
              \A f \in {s.sourceWAV, s.sourcePath} \ {"", "input"} : files[f] = "complete"
        BY <4>1
      <4> QED
        BY <3>2, <4>2, <4>3 DEF s
    <3>4. CASE ~ Remapped
      <4>1. s.sourceWAV = SplitSource /\ s.sourcePath = SplitSource
        BY <3>1, <3>4 DEF SegmentOK
      <4>2. SourcesStay => ~ (opts.workDir = "" /\ SplitSource \in WorkFiles)
        <5>1. CASE opts.mode = "process"
          <6>1. SplitSource = MergedPath /\ MergedPath \in {"work merged", "--output"}
                /\ (MergedPath = "work merged" <=> opts.output = "")
            BY <2>c, <5>1, CommandTypes DEF SplitSource
          <6> QED
            BY <5>1, <6>1 DEF SourcesStay, WorkFiles
        <5>2. CASE opts.mode = "split"
          <6>1. SplitSource = WavPath /\ WavPath \in {"work wav", "--wav"}
                /\ (WavPath = "work wav" <=> opts.wav = "")
            BY <2>c, <5>2, CommandTypes DEF SplitSource
          <6> QED
            BY <3>4, <5>2, <6>1 DEF Remapped, TemporaryWAV, WorkFiles
        <5> QED
          BY <3>2, <5>1, <5>2 DEF Splits
      <4>3. result.segments # <<>>
        BY <2>2, EmptyDomain
      <4>4. SourcesStay => files[SplitSource] = "complete"
        BY <2>1, <4>2, <4>3
      <4>5. SourcesStay =>
              \A f \in {s.sourceWAV, s.sourcePath} \ {"", "input"} : files[f] = "complete"
        BY <4>1, <4>4
      <4> QED
        BY <3>2, <4>1, <4>5 DEF s
    <3> QED
      BY <3>3, <3>4
  <2> QED
    BY <2>1, <2>2 DEF NamedFilesExist
<1> QED
  BY <1>1, Invariance, PTL

\* The temporary work directory is there while it is used and gone in the end.
THEOREM WorkDirLivesAsLong == Spec => []WorkDirLife
<1>1. IInv => WorkDirLife
  <2> SUFFICES ASSUME IInv PROVE WorkDirLife
    OBVIOUS
  <2>1. OwnDir # "none" <=> Splits
    BY DEF OwnDir
  <2>2. pc \in {"preconvert", "fixed-trim", "split", "write"} => work = OwnDir
    BY DEF IInv, WorkInv
  <2>3. pc = "exited" => work # "temporary"
    BY DEF IInv, WorkInv
  <2>4. pc = "exited" /\ answer = "json" /\ opts.workDir # "" /\ opts.mode = "split"
          => files[WavPath] = "complete"
    BY DEF IInv, ResultInv, SplitSource
  <2> QED
    BY <2>1, <2>2, <2>3, <2>4 DEF WorkDirLife, At, Splits
<1> QED
  BY <1>1, Invariance, PTL

\* The counts of a result add up, and one without an output has no segments.
THEOREM CountsOfAnswers == Spec => []CountsAddUp
<1>1. IInv => CountsAddUp
  <2> SUFFICES ASSUME IInv, answer = "json" PROVE CountsAddUp
    BY DEF CountsAddUp
  <2>1. Counted(result)
    BY DEF IInv, ResultInv
  <2> QED
    BY <2>1 DEF Counted, Splits, CountsAddUp
<1> QED
  BY <1>1, Invariance, PTL

\* A WAV stands in for a segment only if the flags asked for the default output.
THEOREM FallbackIsForDefault == Spec => []FallbackOnlyForDefault
<1>1. IInv => FallbackOnlyForDefault
  BY DEF IInv
<1> QED
  BY <1>1, Invariance, PTL

\* The second Processor works like the first, and the WAV that it splits has the
\* sample rate of its segments.
THEOREM ChoicesReachTheSplit == Spec => []ChoicesSurvive
<1>1. IInv => ChoicesSurvive
  <2> SUFFICES ASSUME IInv, pc = "split" PROVE ChoicesSurvive
    BY DEF ChoicesSurvive, At
  <2>1. /\ opts \in Commands /\ cfg = Second
        /\ wavRate = IF opts.rate <= 0 THEN Second.OutputSampleRate ELSE opts.rate
    BY DEF IInv, TypeInv, ModeInv, SourceInv, Splits
  <2>2. /\ AudioOutput(cfg) = AudioOutput(First)
        /\ \A f \in Preserved : cfg[f] = First[f]
        /\ opts.outDir # "" => cfg = First
    BY <2>1, SecondFields, Zenon
  <2>3. cfg.OutputSampleRate = First.OutputSampleRate
    <3>1. "OutputSampleRate" \in Preserved
      BY FieldNames DEF Preserved
    <3> QED
      BY <2>2, <3>1
  <2>4. First.OutputSampleRate = IF opts.rate > 0 THEN opts.rate ELSE 16000
    BY <2>1, FirstRate
  <2>5. opts.rate \in Int
    BY <2>1, CommandTypes
  <2>6. wavRate > 0 /\ wavRate = cfg.OutputSampleRate
    BY <2>1, <2>3, <2>4, <2>5
  <2> QED
    BY <2>2, <2>6, Zenon DEF ChoicesSurvive, First
<1> QED
  BY <1>1, Invariance, PTL

\* The codec and the extension are those that the table promises.
THEOREM CodecIsOfTable == Spec => []CodecOfTable
<1>1. IInv => CodecOfTable
  <2> SUFFICES ASSUME IInv, pc = "split", StripDot(opts.format) \in TableFormats
               PROVE  CodecOfTable
    BY DEF CodecOfTable, At
  <2>1. opts \in Commands /\ cfg = Second
    BY DEF IInv, TypeInv, ModeInv, Splits
  <2> QED
    BY <2>1, SecondIsOfTable, Zenon DEF CodecOfTable
<1> QED
  BY <1>1, Invariance, PTL
=============================================================================
