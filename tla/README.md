# ASR-Audio-Preprocess in TLA+

Models, model checks and proofs of the Go library and command that prepare audio
for speech recognition: convert it to WAV, remove long silences, cut it into
segments, encode these. The source is `src/`; `PROJECT.json` gives, for each
definition, the lines it models.

## The system

| Component | State | Operations | Hard behaviour | What makes it correct |
|---|---|---|---|---|
| Worker pool, `concurrency.go` | two channels, wait group, derived context, `out` | `MapOrdered`, `MapSettledOrdered`, `MapSettledOrderedUntilError` | dispatcher, workers, closer and caller interleave; errors and cancellations end the dispatcher early | each item mapped at most once, its result in its slot; no error lost; no goroutine left; the call returns |
| Splitting, `processor.go:119` | files of each segment, results | `SplitWAVBySilenceGroups` | some segments fail, some are cut short, some never start | complete files in order; success hides no cancellation and no unwanted fallback |
| Fixed-slice trimming, `processor.go:251` | temporary directories, slices | `RemoveSilenceByFixedSlicesAndMerge`, with `TrimLongSilencesFromWAV` as its fn | its mapping calls have no error to return | the merged file lacks no slice without a reason; directories removed |
| Interval arithmetic, `interval.go` | loop variables | `InvertAndExpand`, `GroupIntervalsByMaxSpan` | overlaps, clipping, tolerance, remainders | no speech lost or doubled; spans bounded |
| Thresholds, `interval.go:128`, `processor.go:369` | none | `BuildThresholds`, `detectSilences` | clamping, duplicates, an early end of the loop | in range, none twice, quietest first; the first that finds a silence wins |
| Configuration, `types.go` | `Config` | `normalized`, `audioOutput`, `allowEncodeFallbackToWAV` | defaults against explicit values | a second normalization changes no output; codec fits container; what the loops use is positive |
| Go side of the shim, `libavshim.go` | cancel handles, locked thread | one wrapper per operation | error text is thread-local, handles die with the call | the error is that of this call; a context that is done always shows |
| C side of the shim, `smartaudio_libav.c` | decoder, filter graph, FIFO, silence scan | probe, detect, render, encode, slice, concatenate | frame boundaries, flushing, copy then re-encode | same samples out as in; intervals independent of frames |
| Command, `cmd/smartaudio` | work directory | `preconvert`, `trim`, `fixed-trim`, `split`, `process` | several steps, one directory | directory removed; result names files that exist |

Interaction: the command calls the processor; the processor calls the backend (the
shim) and, for splitting and fixed-slice trimming, the worker pool, whose `fn` calls
the backend from several goroutines. One context reaches all of them. The pool
derives its own, which an error of `fn` cancels. There is no shared state other than
files, each written by one worker.

## Modules

| Module | Models | Uses |
|---|---|---|
| `OrderedMap` | what a caller may rely on: the contract of the three mapping functions | |
| `WorkerPool` | `concurrency.go`, every goroutine and channel operation | `OrderedMap` as `Contract` |
| `WorkerPoolProofs` | theorems about `WorkerPool` | extends it |
| `SplitSegments` | `SplitWAVBySilenceGroups` on the pool, step by step | `WorkerPool` as `Pool` |
| `SliceNames` | numbers in names, and names in order | |
| `FixedTrim` | `RemoveSilenceByFixedSlicesAndMerge` on the contract | `OrderedMap` as `Map`, extends `SliceNames` |
| `SpeechGroups` | `interval.go` | |
| `RenderPipeline` | one rendering: decode, filter, FIFO, encode, write | |
| `SilenceScan` | the scan for silences over frames of samples | |
| `AudioConfig` | `types.go` and the options of `NewProcessor`, as operators | |
| `DetectSilences` | options, volume, thresholds, one scan per threshold | extends `AudioConfig`, `SilenceScan` |
| `ShimCalls` | concurrent calls of the shim: threads, error texts, concatenation and its retry | |
| `CliRun` | one run of the command | extends `AudioConfig` |
| `ShimCallsProofs`, `RenderPipelineProofs`, `FixedTrimProofs`, `SpeechGroupsProofs`, `CliRunProofs` | theorems about the module of that name | extend it |
| `SplitSegmentsProofs` | theorems about `SplitSegments` | extends it, `WorkerPoolProofs` as `Proved` |
| `DetectSilencesProofs` | theorems about `DetectSilences` and, in it, `SilenceScan` | extends `DetectSilences` |
| `MC*` | instances for TLC | |

**WorkerPool.** A worker's `pc` is `range` (at `for j := range jobs`), `fn`, `cancel`
(about to call `cancel()`), `send` (at `results <-`) or `exit`. `jobs` is unbuffered,
so a send and a receive are one action, `Dispatch(w)`: the dispatcher takes it only if
a worker is at `range`. `select` takes either ready case, so `Dispatch` and `CloseJobs`
are both enabled when the context is done and a worker waits. Cancelling the caller's
context and its arrival at the derived one are two actions. A value is the index of its
item, so that a result in a wrong slot shows. `failed` is the only history variable.

**SplitSegments.** The pool's actions are conjoined with what happens in `fn`: an export
and an encoding, each of which fails by itself, or because the pool's context is done.
The backend is the libav one, whose wrappers check the context after the C call: an
operation that ends after a cancellation fails even if it has done its work. A file is
`absent`, `complete` or `bad` (whatever a failed operation has left). `fallback` is the
value of `allowEncodeFallbackToWAV(output)`. Groups come as a number: what they contain
is the subject of `SpeechGroups`.

**FixedTrim.** The two calls of `MapSettledOrdered` are used by contract; that is what
`PoolImplementsContract` permits. For each slice, `stage` says where
`TrimLongSilencesFromWAV` is, `outcome` what trimming made of it and `verdict` what the
check made of it. The slices come from the C code in the order of their names:
`SliceNames` defines `%04d` for any radix and width, and `ByName(n)`, the numbers of `n`
slices as `glob` and `qsort` return them.

**SpeechGroups.** One step is one iteration. Time is in ticks, of which the tolerance
(one microsecond in the code) is one, so that a recording of a few ticks meets every
comparison at, below and above equality.

**RenderPipeline.** The demuxer, decoder, filter, FIFO, encoder and file are counters
of the samples they hold: FFmpeg keeps their order, and each may keep samples back until
it is flushed. `phase` is the loop the C code is in; `callback` the loop to which
`sa_write_frame_cb` returns. Any external call may fail (`Fail`), and so does one that
finds the context done (`Interrupted`). This module justifies what `SplitSegments` and `FixedTrim` take
for granted: a rendering without an error has left a complete file. Its one exception is
in the code: an error of the decoder during its flush ends the loop at
`smartaudio_libav.c:471`, and line 486 overwrites it (`FlushError`).

**ShimCalls.** `on` is the thread a call is locked to, `text` the `sa_error` of each
thread, as the call whose failure it tells of. A failure is loud (it sets the text) or
quiet (`av_packet_alloc` and the like set none: `quiet`). What one operation does inside is
left to `RenderPipeline`; a concatenation is modelled with both attempts, input by input.
A thread is free for the next call once the wrapper has returned. Cancel handles need no
state: a handle lives as long as the call of its wrapper.

**SilenceScan.** One step is one sample. The clock is the code's: rounded frame durations
added up. The properties measure it against exact time. It is a component of
`DetectSilences` and has no run of its own.

**AudioConfig.** A `Config` is one record of its fields, with pointers and lists as
sequences. `Configured` says per field which values count as set, so that `Normalized` is
one line; `Option` is what an option does to the configuration. Names are written as
`TrimSpace` and `ToLower` leave them.

**DetectSilences.** One action per option applied, then `VolumeDetect` with
`BuildThresholds`, then scans until one finds a silence. A sample is its level in dB; a
scan is that of `SilenceScan` on the levels compared with the threshold. A level of
`Zero` stands for minus infinity.

**CliRun.** One action per method of the processor, with the outcomes that method has;
what happens inside is the subject of `SplitSegments` and `FixedTrim`. A file is `absent`,
`complete` or `bad`. `work` is the directory for intermediate files, `answer` what was
written to stdout or stderr. Each segment of a result is like the others but for its
index, so one stands for all. The context of the command is `context.Background()`, so
no step is cancelled; the process may be killed between any two (`Killed`).

## Runs

| Run | Instance | Shows |
|---|---|---|
| `worker_pool` | 3 functions, 0..3 items, worker arguments -1, 1, 2, 3, 2 CPUs | all properties of the pool, the contract, termination |
| `stops_after_error` (violated) | one worker, 1..2 items | an item is handed out after a failure has cancelled the context |
| `split_segments` | 0..3 groups, 1 and 2 workers | all properties of splitting |
| `encoding_failure_returned` (violated) | 2 groups, 2 workers | a cancellation is returned in place of the encoder's failure |
| `fixed_trim` | 0..3 slices, one digit in base 3 | all properties of fixed-slice trimming |
| `original_order` (violated) | 4 slices, one digit in base 3 | slices come back in the order of their names |
| `speech_groups` | 7 ticks, up to 3 silences, padding 0..1, maximum 0..3 | the interval loops against their definition |
| `render_pipeline` | 0..3 packets of 0..3 samples (0: another stream's), frame size 0, 2, 3, filter limit 0, 4, 9 | no sample lost, frame sizes, termination |
| `detect_silences` | four lists of options; up to 3 frames of up to 2 samples or 2 of up to 3, three levels; 50 ticks for 3 samples | the intervals are the silent runs, the first threshold that has one wins, the loudest sample is speech, settings are usable |
| `shim_calls` | 3 calls, 2 threads, 2 inputs, symmetric calls and threads | errors tell of their own call, cancellations are named, concatenation is whole |
| `inputs_closed` (violated) | 1 call, 1 input | a concatenation that fails may leave its first input open |
| `cli_run` | every mode, with every choice of paths, and with every choice of output | named files exist, the directory is removed, choices survive, counts add up |

Bounds. Three items on two workers are the least with an item that is done, one that
runs and one that was never handed out; `MapOrdered`, which ignores the CPUs, also runs
three workers. The pool compares items only for equality and with the
count, and the theorems hold for any number. `fixed_trim` does not bound workers: by the
contract any number of slices may run at once. In `speech_groups` a silence may nest in,
touch, overlap or start with another and end beyond the recording; three silences (one tick each) leave
up to four intervals, with which grouping has a choice to make. A maximum of zero takes
the default, here four ticks. In `render_pipeline` a limit of 0, 4 or 9 ends the filter
before, within and with the recording. In `detect_silences` a sample takes 16 2/3 ticks, so that
every frame rounds, while a wrong sample (50 units of a third) is well outside
the tolerance (half a tick, 1.5 units, per frame). One requested minimum lies below the
floor (15 ticks, in the code a millisecond), the other just below two samples. Levels of -6
and -21 dB lie above and between the automatic thresholds (-24 to -16 dB); the quiet
recordings have a maximum just above or below the threshold floor. The lists of options put
a `WithConfig` first and last, with values that an option refuses, that it takes and that
normalization replaces; one list has a threshold floor above the ceiling. `fixed_trim` has as many slices as one digit in base 3 can number,
as the code has up to 10000 of them; `original_order` has one more. `cli_run` crosses every
mode, an unknown one included, with every path given or not, and `split` and `process` with
formats, codecs, bitrates and sample formats that are empty, the default, an alias, of the
table and of no table; up to two slices and groups tell none, some and all apart. In `shim_calls` three
calls on two threads leave one thread with a text from before, and let two calls run at
once; with two inputs a copy can stop half way. No run has a state constraint.

Fairness. Every goroutine that can run does (`WF` per dispatcher, worker, closer,
caller): the Go scheduler is preemptive. `fn` and the backend's operations end: inputs
are finite files, and the shim polls the context. Cancellation by the caller is never
assumed; that it reaches the derived context is. In `RenderPipeline` no call has to fail,
so `Fail` is outside the fairness. No strong fairness is used. `FixedTrim`, `SpeechGroups`,
`DetectSilences`, `ShimCalls` and `CliRun` have safety properties only and state none; each
stutters only where it has ended (`Finished`), so a call that gets stuck is a deadlock.

### What the violated runs show

*An item after a failure.* After a failing `fn` has called `cancel()` and sent its
result, its worker is back at `range jobs` while the dispatcher's `select` sees a done
context and a ready receiver. Go picks one at random. `processor_test.go:558` expects
the failing segment to be the only one encoded; it may fail.

*A failure behind a cancellation.* Segment 2 fails to encode, which cancels the context
under which segment 1 is being encoded. The loop at `processor.go:216` returns the first
error in the order of the segments: `encode segment 1 ...: context canceled`. The error
that `MapSettledOrderedUntilError` saw first, in `segmentErr`, is not used. `README.md:165`
promises the encoding failure.

*An order that is not the original one.* Slices are named `%04d`
(`smartaudio_libav.c:1116`) and collected in the order of their names, in which `10000`
comes between `1000` and `1001`. From the 10001st slice on (14 hours at the default of
five seconds, 17 minutes at slices of 100 ms) the merged file is not in the order of the
recording. `README.md:14` promises "original order". Up to that number it is, which
`MergedInOrder` checks.

*An input that stays open.* The re-encode of a concatenation opens its first input to learn
the sample rate (`smartaudio_libav.c:1318`) and closes it only if that succeeded. Other
callers of `sa_open_audio_input_with_threads_ctx` close it when it failed, too, because it
returns with `in->fmt` open once `avformat_open_input` has succeeded. So a first input
without a usable audio stream costs a file descriptor and its memory.
`CONTRACT.md:19` gives the C layer the lifetimes of FFmpeg's objects.

### Behaviour that is right but worth knowing

- `ErrorIsOwn` has an exception, `quiet`: a failure that sets no text is reported with the
  text an earlier call left on the thread. Only concatenation clears the text, and only
  before its retry. Slicing sets a text of last resort, but not over an older one
  (`smartaudio_libav.c:1140`).
- A copy that a cancellation stopped is retried as a re-encode all the same; that one
  finds the context done, after it has truncated the output.
- `SkippedWereTried`: the branch at `processor.go:221-222`, which counts a slot without
  result as skipped, is never reached: such a slot comes after the error that ends the
  loop, or with a context that is done.
- `MergedIsWhole` holds only because `ConcatWAV` looks at the context: everything before
  it forgives a cancelled slice. When no slice is left there is no `ConcatWAV`, and a
  cancelled call may answer "no speech" without an error (`processor.go:347-349`);
  `NoSpeechIsTrue` is therefore stated for calls that were not cancelled.
- A configured `FixedTrim.TempDir` keeps its `run-*` directories, on every return.
- A value that was given but equals the default counts as not given: with
  `--output-codec libopus` or `--output-format opus` an encoding that fails may still leave
  a WAV in its place, and libopus for another container than ogg is replaced by that
  container's codec. `FallbackOnlyForDefault` and `CodecOfTable` state what does hold.
- Normalization replaces a padding or minimum of zero by its default; an option can set
  it, unless `WithConfig` comes later. A format with two dots (`..m4a`) loses one per
  normalization; `audioOutput` takes the second, so the output is the same.
- In process mode without `--output`, `--wav` and `--work-dir` the sources that segments
  name are in the temporary directory and gone when the JSON is read. Only split mode
  replaces them by the input (`SourcesStay` of `CliRun`).
- A signal leaves the temporary directory: the command has no handler (`Killed`).
- Nothing keeps `ThresholdFloor` below `ThresholdCeil`. With the floor above, `clamp`
  (`interval.go:187`) makes a threshold below the floor the floor and every other one the
  ceiling, so the thresholds may go from the louder to the quieter. `SettingsUsable` (in what
  it says of thresholds) and `LoudestIsSpeech` are stated for a floor at or below the ceiling.
- At more than a million samples a second two silences could begin and end in the same
  microsecond, so that they would not lie apart; `OnlySilencesAreFound` assumes a sample
  that lasts at least a tick.
- A recording without silence is returned as it is by `TrimLongSilencesFromWAV` only if it
  is shorter than the minimum of speech; otherwise it is rendered as one interval.
- A silence that starts after the end of the recording makes the time up to it count as
  speech; its padding may reach back into the recording (`ExpandedExact`).

## Proofs

`WorkerPoolProofs` proves, from `CallsAssumption` and `WorkersAssumption` only
(`Calls` any set of calls with any number of items and any worker argument), the
theorems listed in `PROJECT.json`.

`ExactlyOnePlace` and the others are not inductive as they stand. The invariant
`IInv == TypeInv /\ PlaceInv /\ EndInv` adds to the types

- `PlaceInv`: what was handed out is with one worker, in `results`, or in `out`, never in
  two of them, and `out[i]` is 0 or `i`; a result carries its item's index as its value.
  The send and the receive move an item from one place to the next, which the lemmas
  `DispatchPlaceInv`, `SendPlaceInv` and `ReceivePlaceInv` show.
- `EndInv`: the order in which things close (jobs before the last worker exits, all
  workers before `results`, `results` drained before the return), why the derived context
  can be done (the caller, a failure, or the return), where the error of each failed item
  is (with its worker, in `results`, or in `firstErr`), and what the call returned.

Completeness then follows: a nil return means no failure and a context that is not
done, so the dispatcher ended at the last item, and with every worker gone and the
channel empty every item is in `out`. `SendsNeverBlock` is a counting argument: the
results in the channel and those in `out` have distinct items other than the worker's
own, so there are fewer than `n`. The contract is shown by mapping each action to an
action of `OrderedMap` or to a stutter; `Finish` is where `EndInv` is needed. The last
step of each theorem combines initiality and inductiveness with PTL.

`ShimCallsProofs` proves `ErrorIsOwn`, `CancellationNamed` and `ConcatWhole` of `ShimCalls`
from `ShimAssumption` only: any set of calls, any set of threads, any positive number of
inputs. Its `IInv` adds

- `ThreadInv`: a call in the C code has a thread, and no other call has the same one. That
  is what `runtime.LockOSThread` is for: without it nothing else in the invariant holds.
- `TextInv`: between a failure and the answer the text of the thread is the call's own,
  unless the failure was quiet; in the second attempt of a concatenation it is its own or
  empty, because `Again` cleared it.
- `CancelInv`: a call that was interrupted has a context that is done, which stays so.
- `OutputInv`: while an attempt runs, the output is the inputs taken so far, in order.

`FailureEffect` says once what any of the three kinds of failure does to the texts, and
every step that fails is shown through it.

`RenderPipelineProofs`, for any packets, any filter limit and any frame size: `SamplesInv`
accounts for every sample (what has left the decoder has come to the filter, what this let
through is in one later stage or written), `EmptyInv` says which stages are empty for good at
which statement, so that at the trailer all of it is written, and `FrameInv` says that the
FIFO holds less than a frame outside the callback. `SamplesMove` states once for all stages
that a step moves samples and neither makes nor loses one.

`SplitSegmentsProofs` takes over the invariant of the pool. `Proved == INSTANCE
WorkerPoolProofs` gives the pool's lemmas under the variables of the splitting, `SameSteps`
identifies its actions with those of `Pool`, and `PoolStep` shows that a step of the splitting
is one of the pool or leaves it alone, so that the pool's `IInv` is kept without a second
proof. `GroupsInv` adds what `fn` made of each group and its files, `ReturnInv` what a nil
error says about the groups, `LoopInv` where the loop over the results is.
`UndoneMeansCancelled` is the fact behind `SkippedWereTried`: the loop comes to a slot without
a result only if the caller cancelled, for the groups that failed come before those that
never started.

`FixedTrimProofs`, for any number of slices: `SliceInv` relates what trimming and checking
made of a slice to the mapping call that runs and to the cancellation; `MergedInv` says that
a merged file was made with every slice `Untouched` by a cancellation. `MergedInOrder` needs
the order of names. `ByNameIsByNumber` proves, for any radix and width, that sorting `%04d`
names sorts the numbers as long as they have no more digits than the width, and so names the
bound beyond which `original_order` finds the order lost: `DivOrder` and `FirstDifference`
compare two numbers digit by digit.

`CliRunProofs`, for any set of commands: the first half is about configurations. Each output
field settles (`FirstCodec`, `FirstFormat`, ...), normalization twice is normalization once
(`NormalizedTwice`, up to the dots of a format), so the second processor of `process` and
`split` has the first one's output (`SecondFields`), and its codec is of the container's
table (`SecondIsOfTable`). In the second half `ModeInv` says which mode is at which step,
`WorkInv` which directory it has, and `ResultInv` that every file a result names is complete
or, in a temporary directory, was before the exit. One lemma per action.

`SpeechGroupsProofs`, for any silences sorted by start, has a part of the invariant per loop,
stated tick by tick: a tick is in a gap iff no silence up to here holds it and one begins
after it (`InvertInv`, `Heard`); a tick is in an expanded interval iff a padded gap up to here
holds it (`ExpandInv`); the groups made so far are in order and within the limit, lie before
what is left, and hold every tick of the intervals passed except the tails that the tolerance
drops (`Ordered`, `CurInv`, `CoverInv`). `GreedyInv` says that two groups that follow each
other do not fit into one. From it `GreedyIsOptimal` shows that no other partition has fewer
groups, by an injection from the boundaries between groups to the cuts of that partition.

`DetectSilencesProofs`, for any recordings, any rate and any options: `ClockInv` bounds the
clock's distance from exact time by half a tick per frame (`Near`), `PendingInv` takes the
pending silence back to the sample before it, `FoundInv` says that the intervals are the long
runs that have ended, and `ApartInv` that the clock moves with every sample. Around the scan,
`Settings` is what every option and normalization keep, `ThresholdsInv` what `BuildThresholds`
makes, and `TriedInv` that no threshold passed has a long silence. The attempt to prove
`SettingsUsable` showed that the order of thresholds needs a floor at or below the ceiling;
the run has a list of options with the floor above since.

Assumptions. The theorems rest on those of the modules, which say what the values are and
bound no number: `CallsAssumption`, `WorkersAssumption`, `SplitCallsAssumption` (the mapping
call is the one `SplitWAVBySilenceGroups` makes), `ShimAssumption`, `RenderAssumption`,
`SlicesAssumption`, `NamesAssumption`, `CliAssumption` (the paths a command may be given),
`InputsAssumption` (silences sorted by start, a padding that is not negative, defaults
that are positive), `ScanAssumption`, `DetectAssumption` and `OptionsAssumption` (the types of
what options are given). Two theorems state a hypothesis of their own: `OnlySilencesAreFound`
(above) and `ByNameIsByNumber`. Loops over data that the models write as recursive functions
(`Paths`, `Digits`, `FirstOnly`, `UpTo`) are defined by a lemma each that the function exists,
and an induction on a set of counterexamples, whose least member (`LeastMember`) comes from the
well-foundedness of strict inclusion: `SetInduction` takes a set where the library's theorem
takes an operator.

Only model-checked: `Terminates` of `WorkerPool` and `RenderPipeline` and `SplitTerminates`.
Liveness under fairness is out of the prover's reach. Every other property of the passing
runs is stated by a theorem.

## Not modelled

- FFmpeg and the operating system: external; a call into them succeeds or fails.
- The names of work files (`workname.go`): twelve random bytes, whose uniqueness is a
  matter of probability.
- The text of a filter graph and its 8192 bytes (`smartaudio_libav.c:1032`): a segment of
  about a hundred intervals or more fails there, which to the models is a failing rendering.
- Conversions of arguments and results between Go and C, the durations in
  `ProcessingInfo`, the text of flags and the layout of the JSON.
- Volumes no backend here reports (NaN, an infinite mean beside a finite maximum), blanks
  and capitals in names, flags that name one file twice.
- Panics in `fn`, a caller's own backend with other habits about the context.
- Build scripts and workflows, which are not part of the running program.

## Plan

Every component above has its module, and every safety property its theorem. What could
follow:

1. The refinement of `RenderPipeline` by the renderings that `SplitSegments` and `FixedTrim`
   take as one action, which today is an argument in this file (a rendering without an error
   has left a complete file, `WholeOutput`).
2. The same for `FixedTrim` as the step that `CliRun` makes of it.
3. Freedom from deadlock in `WorkerPool`, the safety part of its termination: in every state
   that is not final some step of a goroutine can be taken, stated by guards, not by ENABLED.
