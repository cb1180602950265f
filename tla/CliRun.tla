------------------------------- MODULE CliRun -------------------------------
(***************************************************************************)
(* One run of the command, cmd/smartaudio/main.go: the flags become a      *)
(* configuration, a mode calls one to three methods of the Processor, one  *)
(* after the other, on files it names, and the result is written as JSON   *)
(* before the temporary work directory is removed.                         *)
(*                                                                         *)
(* A method is one action here, with every outcome that processor.go gives *)
(* it; SplitSegments and FixedTrim model what happens inside two of them.  *)
(* The context is context.Background(), so nothing is cancelled, but the   *)
(* process may be killed between any two steps.  The segments of a result  *)
(* differ in their index only, so one record stands for them all.          *)
(***************************************************************************)
EXTENDS AudioConfig, Sequences

CONSTANTS
  Commands,  \* sets of flags, as records
  MaxParts   \* bound on the slices, and on the groups, of a recording

\* The names of formats that AudioConfig tells apart; "mkv" stands for the others.
FormatNames == {"", "ogg", "opus", "wav", "flac", "aac", "adts", "m4a", "mp4", ".m4a",
                "..m4a", "mkv"}

ASSUME CliAssumption ==
  /\ MaxParts \in Nat
  /\ Commands \subseteq
       [mode : STRING, input : BOOLEAN, output : {"", "--output"}, wav : {"", "--wav"},
        workDir : {"", "--work-dir"}, outDir : {"", "--out-dir"}, keep : STRING,
        padding : Int, rate : Int, format : FormatNames, codec : STRING,
        bitrate : STRING, sampleFormat : STRING]

VARIABLES
  opts,     \* cliOptions: rigid
  backend,  \* built with -tags libav: rigid
  pc,       \* the statement the command is at
  cfg,      \* the Processor's configuration
  work,     \* the work directory: "none", "given" or "temporary"
  files,    \* the state of every file the command may write
  wavRate,  \* the sample rate of the intermediate WAV
  trimInfo, splitInfo,  \* what the methods count
  result,   \* cliResult, as far as it names files and counts
  answer    \* what was written: "none", "json" or "error"

vars == <<opts, backend, pc, cfg, work, files, wavRate, trimInfo, splitInfo, result, answer>>

WorkFiles == {"work wav", "work merged"}
Files == WorkFiles \cup {"--wav", "--output", "beside input", "part", "segment wav"}

NoSlices == [count |-> 0, succeeded |-> 0, skipped |-> 0]
NoGroups == [groups |-> 0, segments |-> 0, skipped |-> 0]
NoResult == [path |-> "", segments |-> <<>>, slices |-> NoSlices, groups |-> NoGroups]

Init ==
  /\ opts \in Commands /\ backend \in BOOLEAN
  /\ pc = "start" /\ cfg = Default /\ work = "none"
  /\ files = [f \in Files |-> "absent"] /\ wavRate = 0
  /\ trimInfo = NoSlices /\ splitInfo = NoGroups
  /\ result = NoResult /\ answer = "none"

\* A step goes to the next statement, or the command returns an error.
At(p) == pc = p
Goto(p) == pc' = p
ReturnError == Goto("failed") /\ UNCHANGED result

\* The command returns what it writes: writeJSON is the operand of `return`.
Result(r) == result' = r /\ Goto("write")

Or(given, otherwise) == IF given = "" THEN otherwise ELSE given

\* filepath.Join(workDir, base+".wav"), and the merged WAV of process mode.
WavPath    == Or(opts.wav, "work wav")
MergedPath == Or(opts.output, "work merged")

-----------------------------------------------------------------------------
(***************************************************************************)
(* Flags, configuration and work directory.                                *)
(***************************************************************************)
\* buildConfig; the flags of one kind are represented by one of them, here
\* --silence-padding and --keep-temp-wav, whose text may be no Boolean.
BuiltConfig(o) ==
  [Default EXCEPT !.Padding = o.padding, !.OutputSampleRate = o.rate,
                  !.OutputFormat = o.format, !.OutputCodec = o.codec,
                  !.OutputBitrate = o.bitrate, !.OutputSampleFormat = o.sampleFormat,
                  !.OutDir = o.outDir, !.TempDir = o.workDir,
                  !.KeepTempWAV = IF o.keep = "" THEN @ ELSE <<o.keep = "true">>]

Modes == {"preconvert", "trim", "fixed-trim", "split", "process"}

Accepted == /\ opts.input
            /\ opts.keep \in {"", "true", "false"}
            /\ backend
            /\ opts.mode \in Modes
            /\ opts.mode = "preconvert" => opts.output # ""

\* run, up to the call that does the work.
Start ==
  /\ At("start")
  /\ IF Accepted
     THEN /\ cfg' = Normalized(BuiltConfig(opts))
          /\ Goto(IF opts.mode \in {"split", "process"} THEN "workdir" ELSE opts.mode)
          /\ UNCHANGED result
     ELSE ReturnError /\ UNCHANGED cfg
  /\ UNCHANGED <<opts, backend, work, files, wavRate, trimInfo, splitInfo, answer>>

\* prepareCLIWorkDir; on an error nothing of it is left.
PrepareWorkDir ==
  /\ At("workdir")
  /\ \/ ReturnError /\ UNCHANGED work
     \/ /\ work' = IF opts.workDir # "" THEN "given" ELSE "temporary"
        /\ Goto("renew") /\ UNCHANGED result
  /\ UNCHANGED <<opts, backend, cfg, files, wavRate, trimInfo, splitInfo, answer>>

\* Faulty variant: the second Processor is built from the defaults.
RenewedFromDefault(dir) == Normalized([Default EXCEPT !.OutDir = dir])

\* The configuration of a second Processor, which differs in its OutDir.
Renewed(dir) == Normalized([cfg EXCEPT !.OutDir = dir])

Renew ==
  /\ At("renew")
  /\ cfg' = IF cfg.OutDir # "" THEN cfg
            ELSE Renewed(IF opts.mode = "split" THEN "out_segments" ELSE "stem_segments")
  /\ Goto("preconvert")
  /\ UNCHANGED <<opts, backend, work, files, wavRate, trimInfo, splitInfo, result, answer>>

-----------------------------------------------------------------------------
(***************************************************************************)
(* The methods of the Processor.                                           *)
(***************************************************************************)
\* PreconvertToWAV, given --output-sample-rate.
PreconvertRate == IF opts.rate <= 0 THEN cfg.OutputSampleRate ELSE opts.rate

\* PreconvertToWAV.  A probe that fails leaves the file alone, a transcoding
\* that fails does not.
Preconvert ==
  /\ At("preconvert")
  /\ LET target == IF opts.mode = "preconvert" THEN opts.output ELSE WavPath
     IN  \/ ReturnError /\ UNCHANGED <<files, wavRate>>
         \/ ReturnError /\ files' = [files EXCEPT ![target] = "bad"] /\ UNCHANGED wavRate
         \/ /\ files' = [files EXCEPT ![target] = "complete"]
            /\ wavRate' = PreconvertRate
            /\ CASE opts.mode = "preconvert" -> Result([NoResult EXCEPT !.path = target])
                 [] opts.mode = "split" -> Goto("split") /\ UNCHANGED result
                 [] opts.mode = "process" -> Goto("fixed-trim") /\ UNCHANGED result
  /\ UNCHANGED <<opts, backend, cfg, work, trimInfo, splitInfo, answer>>

\* TrimLongSilencesFromWAV: without silence and speech its input is the result,
\* with silence only nothing is.
Trim ==
  /\ At("trim")
  /\ LET target == Or(opts.output, "beside input")
     IN  \/ ReturnError /\ UNCHANGED files
         \/ ReturnError /\ files' = [files EXCEPT ![target] = "bad"]
         \/ \E p \in {"input", ""} : Result([NoResult EXCEPT !.path = p]) /\ UNCHANGED files
         \/ /\ files' = [files EXCEPT ![target] = "complete"]
            /\ Result([NoResult EXCEPT !.path = target])
  /\ UNCHANGED <<opts, backend, cfg, work, wavRate, trimInfo, splitInfo, answer>>

SplitIf(path) == path # ""

\* RemoveSilenceByFixedSlicesAndMerge, and the branch merged == "" after it.
FixedTrim ==
  /\ At("fixed-trim")
  /\ LET target == IF opts.mode = "process" THEN MergedPath ELSE Or(opts.output, "beside input")
     IN  \/ ReturnError /\ UNCHANGED <<files, trimInfo>>
         \/ ReturnError /\ files' = [files EXCEPT ![target] = "bad"] /\ UNCHANGED trimInfo
         \/ \E n \in 0 .. MaxParts : \E valid \in 0 .. n :
              LET path == IF valid = 0 THEN "" ELSE target
                  info == [count |-> n, succeeded |-> valid, skipped |-> n - valid]
              IN  /\ trimInfo' = info
                  /\ files' = IF valid = 0 THEN files ELSE [files EXCEPT ![target] = "complete"]
                  /\ IF opts.mode = "process" /\ SplitIf(path)
                     THEN Goto("split") /\ UNCHANGED result
                     ELSE Result([NoResult EXCEPT !.path = path, !.slices = info])
  /\ UNCHANGED <<opts, backend, cfg, work, wavRate, splitInfo, answer>>

\* The path that is given to SplitWAVBySilenceGroups.
SplitSource == IF opts.mode = "process" THEN MergedPath ELSE WavPath

\* temporaryWAV
TemporaryWAV == opts.wav = "" /\ opts.workDir = ""

\* Faulty variant: the file is the encoder's, whether or not it was encoded.
FileOfEncoder(encoded) == "part"

SegmentFile(encoded) == IF encoded THEN "part" ELSE "segment wav"

\* Segment, after remapTemporarySplitSources in split mode.
SegmentOf(encoded) ==
  LET remapped == opts.mode = "split" /\ TemporaryWAV
  IN  [file |-> SegmentFile(encoded),
       tempWAV |-> IF cfg.KeepTempWAV = <<TRUE>> THEN "segment wav" ELSE "",
       sourceWAV |-> IF remapped THEN "" ELSE SplitSource,
       sourcePath |-> IF remapped THEN "input" ELSE SplitSource]

\* Faulty variant: the counts of the slices and of the groups change places.
CombinedSwapped(slices, groups) ==
  [slices |-> [count |-> slices.count, succeeded |-> groups.segments,
               skipped |-> groups.skipped],
   groups |-> groups]

\* combineProcessInfo
Combined(slices, groups) == [slices |-> slices, groups |-> groups]

\* The answer of split and process mode; without a group there is no OutputPath.
SplitResult(segments, groups) ==
  [path |-> IF groups.groups = 0 THEN "" ELSE cfg.OutDir, segments |-> segments,
   slices |-> Combined(trimInfo, groups).slices, groups |-> Combined(trimInfo, groups).groups]

\* The encoding of a segment has failed: its WAV takes its place, or the call
\* fails.
MayFallBack == AllowFallback(cfg, AudioOutput(cfg))

\* SplitWAVBySilenceGroups
Split ==
  /\ At("split")
  /\ \/ ReturnError /\ UNCHANGED <<files, splitInfo>>
     \/ /\ ReturnError /\ UNCHANGED splitInfo
        /\ files' = [files EXCEPT !["part"] = "bad", !["segment wav"] = "bad"]
     \/ \E n \in 0 .. MaxParts : \E made \in 0 .. n :
          /\ splitInfo' = [groups |-> n, segments |-> made, skipped |-> n - made]
          /\ IF made = 0
             THEN /\ Result(SplitResult(<<>>, splitInfo'))
                  /\ files' = IF n = 0 THEN files ELSE [files EXCEPT !["segment wav"] = "bad"]
             ELSE \E encoded \in {TRUE, ~ MayFallBack} :
                    /\ files' = [files EXCEPT !["segment wav"] = "complete",
                                              !["part"] = IF encoded THEN "complete" ELSE "bad"]
                    /\ Result(SplitResult(<<SegmentOf(encoded)>>, splitInfo'))
  /\ UNCHANGED <<opts, backend, cfg, work, wavRate, trimInfo, answer>>

-----------------------------------------------------------------------------
(***************************************************************************)
(* The end.                                                                *)
(***************************************************************************)
\* writeJSON, which fails when stdout does.
WriteJSON ==
  /\ At("write")
  /\ \/ Goto("written") /\ answer' = "json"
     \/ Goto("failed") /\ UNCHANGED answer
  /\ UNCHANGED <<opts, backend, cfg, work, files, wavRate, trimInfo, splitInfo, result>>

\* Faulty variant: the directory is removed after success only.
CleansUpOnSuccess == work = "temporary" /\ At("written")

\* cleanupWorkDir removes the directory that the command created.
CleansUp == work = "temporary"

\* The deferred call of runSplit and runProcess, then main.
Exit ==
  /\ pc \in {"written", "failed"}
  /\ IF CleansUp
     THEN /\ work' = "none"
          /\ files' = [f \in Files |-> IF f \in WorkFiles THEN "absent" ELSE files[f]]
     ELSE UNCHANGED <<work, files>>
  /\ answer' = IF At("failed") THEN "error" ELSE answer
  /\ Goto("exited")
  /\ UNCHANGED <<opts, backend, cfg, wavRate, trimInfo, splitInfo, result>>

\* A signal ends the process; the command installs no handler.
Killed ==
  /\ pc \notin {"exited", "killed"}
  /\ Goto("killed")
  /\ UNCHANGED <<opts, backend, cfg, work, files, wavRate, trimInfo, splitInfo, result, answer>>

Finished == pc \in {"exited", "killed"} /\ UNCHANGED vars

Next == \/ Start \/ PrepareWorkDir \/ Renew \/ Preconvert \/ Trim \/ FixedTrim \/ Split
        \/ WriteJSON \/ Exit \/ Killed \/ Finished

Spec == Init /\ [][Next]_vars

-----------------------------------------------------------------------------
(***************************************************************************)
(* Properties.                                                             *)
(***************************************************************************)
\* Every file that the written result names has been written completely: the
\* output, and each segment's file and WAV.  It is still there when the command
\* has ended and its work directory is gone, or when it was killed meanwhile.
\* The sources that a segment names outlive the command, too: always in split
\* mode, which replaces those in the temporary directory by the input, and in
\* process mode if the merged WAV was given a place to stay.  A WAV that stays
\* is named (main_test.go:149).
SourcesStay == opts.mode = "process" => opts.output # "" \/ opts.workDir # ""

NamedFilesExist ==
  answer = "json" =>
    /\ result.path \in Files => files[result.path] = "complete"
    /\ \A k \in DOMAIN result.segments :
         LET s == result.segments[k]
         IN  /\ \A f \in {s.file, s.tempWAV} \ {""} : files[f] = "complete"
             /\ SourcesStay =>
                  \A f \in {s.sourceWAV, s.sourcePath} \ {"", "input"} :
                    files[f] = "complete"
             /\ opts.wav # "" \/ opts.workDir # "" => s.sourceWAV = SplitSource

\* The temporary work directory is there for every step that uses it and is
\* gone when the command has ended by itself, whichever step failed; one that
\* was given stays, with what is in it.
WorkDirLife ==
  /\ pc \in {"preconvert", "fixed-trim", "split", "write"} =>
       (opts.mode \in {"split", "process"} <=> work # "none")
  /\ At("exited") => work # "temporary"
  /\ At("exited") /\ answer = "json" /\ opts.workDir # "" /\ opts.mode = "split"
       => files[WavPath] = "complete"

\* The second Processor, which exists only because no --out-dir was given, works
\* like the first: normalizing twice changes no output and no other field.  And
\* the WAV that is split has the rate of the segments cut from it, although one
\* comes from the flag and the other through the configurations.
Preserved == Fields \ {"OutDir", "OutputFormat"}

ChoicesSurvive ==
  At("split") =>
    LET first == Normalized(BuiltConfig(opts))
    IN  /\ AudioOutput(cfg) = AudioOutput(first)
        /\ \A f \in Preserved : cfg[f] = first[f]
        /\ opts.outDir # "" => cfg = first
        /\ wavRate > 0 /\ wavRate = cfg.OutputSampleRate

\* A WAV stands in for a segment that could not be encoded only if every flag
\* asked for what the default is, in whatever spelling: README.md:165.
AsksForDefault ==
  /\ opts.format \in {"", "ogg", "opus"}
  /\ opts.codec \in {"", "libopus"}
  /\ opts.bitrate \in {"", "32k"}
  /\ NormalSampleFormat(opts.sampleFormat) \in {"", "s16"}

FallbackOnlyForDefault ==
  \A k \in DOMAIN result.segments :
    result.segments[k].file = "segment wav" => AsksForDefault

\* With a format of its table and the codec left alone, README.md:217 promises
\* codec and extension, and the sample format its PCM codec; a codec that was
\* chosen for ogg or wav is kept.
PromisedCodec(format) ==
  CASE format \in {"ogg", "opus"} -> [codec |-> "libopus", extension |-> "ogg"]
    [] format = "wav" -> [codec |-> WavCodec(opts.sampleFormat), extension |-> "wav"]
    [] format = "flac" -> [codec |-> "flac", extension |-> "flac"]
    [] format \in {"aac", "adts"} -> [codec |-> "aac", extension |-> "aac"]
    [] format \in {"m4a", "mp4"} -> [codec |-> "aac", extension |-> "m4a"]

TableFormats == {"ogg", "opus", "wav", "flac", "aac", "adts", "m4a", "mp4"}

CodecOfTable ==
  At("split") /\ StripDot(opts.format) \in TableFormats =>
    LET output == AudioOutput(cfg)
        promised == PromisedCodec(StripDot(opts.format))
    IN  /\ output.Extension = promised.extension
        /\ opts.codec \in {"", "libopus"} => output.Codec = promised.codec
        /\ opts.codec \notin {"", "libopus", "pcm_s16le"} => output.Codec = opts.codec
        /\ (output.Bitrate # "") = UsesBitrate(output.Codec)

\* The counts of a result add up, each taken from the step that counted it; a
\* result without an output path is one without speech, and has no segments.
CountsAddUp ==
  answer = "json" =>
    /\ result.slices.succeeded + result.slices.skipped = result.slices.count
    /\ result.groups.segments + result.groups.skipped = result.groups.groups
    /\ result.segments # <<>> <=> result.groups.segments > 0
    /\ opts.mode = "process" /\ result.path # "" => result.slices.succeeded > 0
    /\ opts.mode \in {"split", "process"} /\ result.path = "" => result.groups.groups = 0
=============================================================================
