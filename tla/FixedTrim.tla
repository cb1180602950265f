----------------------------- MODULE FixedTrim -----------------------------
(***************************************************************************)
(* Processor.RemoveSilenceByFixedSlicesAndMerge (processor.go): cuts a WAV *)
(* into slices of a fixed length, trims the silence of every slice, checks *)
(* every result, and concatenates the valid ones.  Trimming and checking   *)
(* are two calls of MapSettledOrdered, used here by the contract that      *)
(* WorkerPool is proved to implement, OrderedMap.  fn has no error to      *)
(* return: a slice that fails is a slice that is skipped.                  *)
(*                                                                         *)
(* The backend is LibavBackend: an operation whose context is done by its  *)
(* end fails with the context's error.  Durations are abstracted to what   *)
(* the code asks of them: none, too short, long enough.                    *)
(***************************************************************************)
EXTENDS Naturals, Sequences, SliceNames

CONSTANT MaxSlices  \* bound on the slices of one call

ASSUME SlicesAssumption == MaxSlices \in Nat

VARIABLES
  \* The variables of the mapping call that runs; call.n is the slice count.
  call, cancelled, started, running, failed, slots, done, err,
  \* The variables of this call.
  configured,  \* FixedTrim.TempDir is configured
  phase,       \* the statement the call is at
  rootDir,     \* tempRoot exists
  runDir,      \* runDir, with the slices and the trimmed slices, exists
  stage,       \* per slice: the statement TrimLongSilencesFromWAV is at
  trimmedWAV,  \* per slice: the trimmed file
  outcome,     \* per slice: what trimming made of it
  verdict,     \* per slice: what the check made of it
  merged,      \* outMergedWAV: its state, and the slices concatenated in it
  ret          \* what the call returned

mapVars  == <<call, cancelled, started, running, failed, slots, done, err>>
dirVars  == <<rootDir, runDir>>
itemVars == <<stage, trimmedWAV, outcome, verdict>>
trimVars == <<mapVars, configured, phase, dirVars, itemVars, merged, ret>>

Map == INSTANCE OrderedMap

\* The places in slicePaths; the slice at a place is ByName(call.n)[place].
Slices == Map!MapItems

\* "none" is the zero value: the slice was never started.  A slice has failed
\* by itself or by a cancellation, is silent, or has a path: that of its
\* trimmed file, or its own when the slice has neither silence nor speech.
WithPath == {"trimmed", "whole"}
Outcomes == {"none", "failedOwn", "failedCtx", "silent"} \cup WithPath
Verdicts == {"none", "noPath", "failedOwn", "failedCtx", "short", "valid"}

TrimInit ==
  /\ call \in [op : {"MapSettledOrdered"}, n : 0 .. MaxSlices]
  /\ Map!MapInit
  /\ configured \in BOOLEAN
  /\ phase = "probe"
  /\ rootDir = FALSE /\ runDir = FALSE
  /\ stage = [i \in Slices |-> "detect"]
  /\ trimmedWAV = [i \in Slices |-> "absent"]
  /\ outcome = [i \in Slices |-> "none"]
  /\ verdict = [i \in Slices |-> "none"]
  /\ merged = [state |-> "absent", slices |-> <<>>]
  /\ ret = [path |-> "none", err |-> "nil"]

-----------------------------------------------------------------------------
(***************************************************************************)
(* Returning.  The deferred RemoveAll calls run on every return, and only  *)
(* for a temporary root that the call created.                             *)
(***************************************************************************)
\* A faulty variant: only an error-free return cleans up.
KeptOnError(dir, e) == dir /\ (configured \/ e # "nil")

Kept(dir, e) == dir /\ configured

Leave(path, e) ==
  /\ phase' = "returned"
  /\ ret' = [path |-> path, err |-> e]
  /\ rootDir' = Kept(rootDir, e)
  /\ runDir' = Kept(runDir, e)

GoOn(p) == phase' = p /\ UNCHANGED <<ret, dirVars>>

\* A backend operation on the caller's context.
BackendErrors == IF cancelled THEN {"ctx"} ELSE {"nil", "own"}
Cause == IF cancelled THEN "failedCtx" ELSE "failedOwn"

-----------------------------------------------------------------------------
(***************************************************************************)
(* Before the mapping calls.                                               *)
(***************************************************************************)
Probe ==
  /\ phase = "probe"
  /\ \E e \in BackendErrors : IF e = "nil" THEN GoOn("root") ELSE Leave("input", e)
  /\ UNCHANGED <<mapVars, configured, itemVars, merged>>

\* os.MkdirTemp, or os.MkdirAll of the configured directory.
MakeRoot ==
  /\ phase = "root"
  /\ \/ Leave("input", "own")
     \/ phase' = "run" /\ rootDir' = TRUE /\ UNCHANGED <<runDir, ret>>
  /\ UNCHANGED <<mapVars, configured, itemVars, merged>>

\* os.MkdirTemp(tempRoot, "run-*")
MakeRunDir ==
  /\ phase = "run"
  /\ \/ Leave("input", "own")
     \/ phase' = "dirs" /\ runDir' = TRUE /\ UNCHANGED <<rootDir, ret>>
  /\ UNCHANGED <<mapVars, configured, itemVars, merged>>

\* os.MkdirAll of the two directories in runDir.
MakeSliceDirs ==
  /\ phase = "dirs"
  /\ Leave("input", "own") \/ GoOn("split")
  /\ UNCHANGED <<mapVars, configured, itemVars, merged>>

\* SplitWAVFixed; with no slice the call returns "", info, nil.
Split ==
  /\ phase = "split"
  /\ \E e \in BackendErrors :
       IF e # "nil" THEN Leave("input", e)
       ELSE IF call.n = 0 THEN Leave("", "nil") ELSE GoOn("trim")
  /\ UNCHANGED <<mapVars, configured, itemVars, merged>>

-----------------------------------------------------------------------------
(***************************************************************************)
(* The mapping calls: what they do on their own.                           *)
(***************************************************************************)
InMap == phase \in {"trim", "validate"}

others == <<configured, phase, dirVars, itemVars, merged, ret>>

CancelCall == phase # "returned" /\ ~ cancelled /\ Map!Cancel /\ UNCHANGED others

StartSlice == InMap /\ Map!Start /\ UNCHANGED others

SettleSlice(i) == InMap /\ Map!Settle(i) /\ UNCHANGED others

\* The first call returns; the second starts, on all its results, the zero
\* values of the slices that were never started included.
FinishTrim ==
  /\ phase = "trim"
  /\ Map!MayFinish("nil")
  /\ phase' = "validate"
  /\ started' = 0
  /\ slots' = [i \in Slices |-> 0]
  /\ UNCHANGED <<call, cancelled, running, failed, done, err, configured, dirVars,
                 itemVars, merged, ret>>

FinishValidate ==
  /\ phase = "validate"
  /\ Map!Finish("nil")
  /\ GoOn("gather")
  /\ UNCHANGED <<configured, itemVars, merged>>

-----------------------------------------------------------------------------
(***************************************************************************)
(* fn of the first call: TrimLongSilencesFromWAV on one slice.             *)
(***************************************************************************)
Trimming(i, s) == phase = "trim" /\ i \in running /\ stage[i] = s

EndTrim(i, o) ==
  /\ Map!End(i, "nil")
  /\ outcome' = [outcome EXCEPT ![i] = o]
  /\ stage' = [stage EXCEPT ![i] = "done"]

\* ProbeDuration, detectSilences and InvertAndExpand.
TrimDetect(i) ==
  /\ Trimming(i, "detect")
  /\ \/ EndTrim(i, Cause)
     \/ ~ cancelled /\ \E o \in {"silent", "whole"} : EndTrim(i, o)
     \/ /\ ~ cancelled
        /\ stage' = [stage EXCEPT ![i] = "render"]
        /\ UNCHANGED <<mapVars, outcome>>
  /\ UNCHANGED <<configured, phase, dirVars, trimmedWAV, verdict, merged, ret>>

\* RenderIntervalsToWAV into the slice's own file.
TrimRender(i) ==
  /\ Trimming(i, "render")
  /\ \/ /\ EndTrim(i, Cause)
        /\ trimmedWAV' = [trimmedWAV EXCEPT ![i] = "bad"]
     \/ /\ ~ cancelled
        /\ trimmedWAV' = [trimmedWAV EXCEPT ![i] = "complete"]
        /\ stage' = [stage EXCEPT ![i] = "probe"]
        /\ UNCHANGED <<mapVars, outcome>>
  /\ UNCHANGED <<configured, phase, dirVars, verdict, merged, ret>>

\* ProbeDuration of the trimmed file: when it fails the duration that was
\* rendered stands for it; a duration of 0 makes the slice a silent one.
TrimProbe(i) ==
  /\ Trimming(i, "probe")
  /\ EndTrim(i, "trimmed") \/ (~ cancelled /\ EndTrim(i, "silent"))
  /\ UNCHANGED <<configured, phase, dirVars, trimmedWAV, verdict, merged, ret>>

(***************************************************************************)
(* fn of the second call: a slice with a path is probed again.             *)
(***************************************************************************)
\* A faulty variant: a slice that was not trimmed has no path.
CheckedIfTrimmed(i) ==
  IF outcome[i] # "trimmed" THEN {"noPath"}
  ELSE IF cancelled THEN {"failedCtx"} ELSE {"failedOwn", "short", "valid"}

Checked(i) ==
  IF outcome[i] \notin WithPath THEN {"noPath"}
  ELSE IF cancelled THEN {"failedCtx"} ELSE {"failedOwn", "short", "valid"}

Validate(i) ==
  /\ phase = "validate" /\ i \in running
  /\ Map!End(i, "nil")
  /\ \E v \in Checked(i) : verdict' = [verdict EXCEPT ![i] = v]
  /\ UNCHANGED <<configured, phase, dirVars, stage, trimmedWAV, outcome, merged, ret>>

-----------------------------------------------------------------------------
(***************************************************************************)
(* After the mapping calls.                                                *)
(***************************************************************************)
\* A faulty variant: a slice that has a path is taken without its check.
ValidUnchecked(i) == outcome[i] \in WithPath

Valid(i) == verdict[i] = "valid"

\* paths, as the loop over validated appends them.
Paths ==
  LET upTo[i \in 0 .. call.n] ==
        IF i = 0 THEN <<>>
        ELSE IF Valid(i) THEN Append(upTo[i - 1], i)
        ELSE upTo[i - 1]
  IN  upTo[call.n]

\* The loop over validated; with no path the call returns "", info, nil.
Gather ==
  /\ phase = "gather"
  /\ IF Paths = <<>> THEN Leave("", "nil") ELSE GoOn("concat")
  /\ UNCHANGED <<mapVars, configured, itemVars, merged>>

\* A faulty variant: concatenation does not look at the context.
ConcatMaySucceedAnyway == TRUE

ConcatMaySucceed == ~ cancelled

\* ConcatWAV.  Whatever is left after a failure is in outMergedWAV.
Concat ==
  /\ phase = "concat"
  /\ \/ /\ ConcatMaySucceed
        /\ merged' = [state |-> "complete", slices |-> Paths]
        /\ GoOn("report")
     \/ /\ merged' = [state |-> "bad", slices |-> <<>>]
        /\ Leave("input", IF cancelled THEN "ctx" ELSE "own")
  /\ UNCHANGED <<mapVars, configured, itemVars>>

\* ProbeDuration of the merged file, whose error is forgiven.
Report ==
  /\ phase = "report"
  /\ Leave("merged", "nil")
  /\ UNCHANGED <<mapVars, configured, itemVars, merged>>

TrimFinished == phase = "returned" /\ UNCHANGED trimVars

-----------------------------------------------------------------------------
SliceStep(i) == \/ TrimDetect(i) \/ TrimRender(i) \/ TrimProbe(i) \/ Validate(i)
                \/ SettleSlice(i)

CallStep == \/ Probe \/ MakeRoot \/ MakeRunDir \/ MakeSliceDirs \/ Split
            \/ StartSlice \/ FinishTrim \/ FinishValidate
            \/ Gather \/ Concat \/ Report

TrimNext ==
  \/ CancelCall
  \/ CallStep
  \/ \E i \in Slices : SliceStep(i)
  \/ TrimFinished

TrimSpec == TrimInit /\ [][TrimNext]_trimVars

-----------------------------------------------------------------------------
(***************************************************************************)
(* Properties.                                                             *)
(***************************************************************************)
Returned == phase = "returned"

\* A merged file that the call returns is complete, and a cancellation has
\* taken no slice out of it, although every step before the concatenation
\* forgives a cancelled slice: each was started, trimmed and checked, and is
\* missing only when it is silent, short, or failed by itself.
MergedIsWhole ==
  Returned /\ ret.path = "merged" =>
    /\ merged.state = "complete"
    /\ \A i \in Slices :
         /\ outcome[i] \notin {"none", "failedCtx"}
         /\ verdict[i] \notin {"none", "failedCtx"}

\* The call works through the slices in the order of the recording.
OriginalOrder ==
  phase \notin {"probe", "root", "run", "dirs", "split", "returned"} =>
    \A j, k \in Slices : j < k => ByName(call.n)[j] < ByName(call.n)[k]

\* As long as the numbers of the slices fit the width of their names, the merged
\* file has them in the order of the recording, each at most once, and only
\* slices whose file is complete and long enough.
MergedInOrder ==
  /\ (\A k \in 0 .. call.n - 1 : Len(Name(k)) = Width) =>
       \A j, k \in DOMAIN merged.slices :
         j < k => ByName(call.n)[merged.slices[j]] < ByName(call.n)[merged.slices[k]]
  /\ \A k \in DOMAIN merged.slices :
       LET i == merged.slices[k]
       IN  verdict[i] = "valid" /\ (outcome[i] = "trimmed" => trimmedWAV[i] = "complete")

\* "No speech", an empty path without an error, is the answer of a call that
\* was not cancelled only if no slice had speech to give: each was silent, too
\* short, or failed by itself.  (A call that was cancelled may answer it too.)
NoSpeechIsTrue ==
  Returned /\ ret.path = "" /\ ~ cancelled =>
    \A i \in Slices : \/ outcome[i] \in {"silent", "failedOwn"}
                      \/ verdict[i] \in {"short", "failedOwn"}

\* The temporary directory outlives the goroutines that write to it, and does
\* not outlive the call, whichever statement returned.
TempDirLife ==
  /\ running # {} => rootDir /\ runDir
  /\ Returned /\ ~ configured => ~ rootDir /\ ~ runDir
=============================================================================
