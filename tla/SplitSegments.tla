--------------------------- MODULE SplitSegments ---------------------------
(***************************************************************************)
(* Processor.SplitWAVBySilenceGroups (processor.go): the call that cuts a  *)
(* WAV into groups of speech intervals, exports and encodes each group on  *)
(* the worker pool, and collects the segments in order.  The pool is the   *)
(* module WorkerPool, step by step; this module gives its fn a body and    *)
(* its caller a caller.  The backend is LibavBackend: an operation whose   *)
(* context is done by its end returns the context's error, whatever it has *)
(* achieved (the contextErr at the end of each function of libavshim.go).  *)
(*                                                                         *)
(* Errors: "own" is a failure of a backend operation or of MkdirAll that   *)
(* no cancellation caused, "encode" such a failure of EncodeAudio, wrapped *)
(* with the segment's number, "ctx" a context's error, wrapped or not.     *)
(***************************************************************************)
EXTENDS Integers, Sequences, FiniteSets

CONSTANTS Calls, NumCPU, MaxWorkers

VARIABLES
  \* The variables of the pool.  call.n is the number of groups.
  call, parentCancelled, derivedCancelled, next, jobsClosed, worker, results,
  resultsClosed, out, firstErr, received, failed, ret,
  \* The variables of this call.
  fallback,  \* allowEncodeFallbackToWAV(output): nothing was configured
  phase,     \* the statement the call is at
  stage,     \* per worker: the backend operation its fn is in
  segWAV,    \* per group: the intermediate WAV on disk
  outAudio,  \* per group: the encoded file on disk
  outcome,   \* per group: the segmentResult that its fn returned
  at,        \* the index of the loop over results
  segments,  \* the segments of the result, oldest first
  skipped,   \* info.SegmentSkipped
  splitErr   \* the error the call returns

poolVars  == <<call, parentCancelled, derivedCancelled, next, jobsClosed, worker,
               results, resultsClosed, out, firstErr, received, failed, ret>>
splitVars == <<fallback, phase, stage, segWAV, outAudio, outcome, at, segments,
               skipped, splitErr>>
allVars   == <<poolVars, splitVars>>

Pool == INSTANCE WorkerPool

ASSUME SplitCallsAssumption ==
  /\ Calls \subseteq [op : {"MapSettledOrderedUntilError"}, n : Nat, workers : Int]
  /\ NumCPU \in Nat /\ MaxWorkers \in Nat
  /\ \A c \in Calls : Pool!WorkerCount(c) <= MaxWorkers

Groups == Pool!Items

\* A file is absent, complete, or whatever a failed operation has left.
FileStates == {"absent", "bad", "complete"}

\* What fn made of a group: nothing yet; skipped, because its export failed by
\* itself or was cut short; a segment whose File is the encoded file, or the
\* WAV after the encoder failed by itself or was cut short; or an error.
Skips    == {"skippedOwn", "skippedCtx"}
Products == {"encoded", "wavOwn", "wavCtx"}
Errs     == {"encode", "ctx"}
Outcomes == {"none"} \cup Skips \cup Products \cup Errs

SplitInit ==
  /\ Pool!Init
  /\ fallback \in BOOLEAN
  /\ phase = "probe"
  /\ stage = [w \in Pool!Workers |-> "export"]
  /\ segWAV = [g \in Groups |-> "absent"]
  /\ outAudio = [g \in Groups |-> "absent"]
  /\ outcome = [g \in Groups |-> "none"]
  /\ at = 1
  /\ segments = <<>>
  /\ skipped = 0
  /\ splitErr = "nil"

-----------------------------------------------------------------------------
(***************************************************************************)
(* Before the pool.                                                        *)
(***************************************************************************)
SplitReturn(e) == phase' = "returned" /\ splitErr' = e

\* A backend operation on the caller's context succeeds only if that context
\* is not done when it ends.
BackendErrors == IF parentCancelled THEN {"ctx"} ELSE {"nil", "own"}

\* duration, err := ProbeDuration(...); if err != nil return
Probe ==
  /\ phase = "probe"
  /\ \E e \in BackendErrors :
       IF e = "nil" THEN phase' = "detect" /\ UNCHANGED splitErr ELSE SplitReturn(e)
  /\ UNCHANGED <<poolVars, fallback, stage, segWAV, outAudio, outcome, at, segments,
                 skipped>>

\* detectSilences, then InvertAndExpand and GroupIntervalsByMaxSpan: with no
\* interval, or no group, the call returns nil, info, nil.
Detect ==
  /\ phase = "detect"
  /\ \E e \in BackendErrors :
       IF e = "nil" /\ call.n > 0
       THEN phase' = "mkdir" /\ UNCHANGED splitErr
       ELSE SplitReturn(e)
  /\ UNCHANGED <<poolVars, fallback, stage, segWAV, outAudio, outcome, at, segments,
                 skipped>>

\* os.MkdirAll(outDir), which knows no context; then WithCancel of a parent
\* that may be done already.
MakeOutDir ==
  /\ phase = "mkdir"
  /\ \/ SplitReturn("own") /\ UNCHANGED poolVars
     \/ /\ phase' = "pool" /\ UNCHANGED splitErr
        /\ IF parentCancelled THEN Pool!PropagateCancel ELSE UNCHANGED poolVars
  /\ UNCHANGED <<fallback, stage, segWAV, outAudio, outcome, at, segments, skipped>>

-----------------------------------------------------------------------------
(***************************************************************************)
(* fn.  It runs under the pool's derived context.                          *)
(***************************************************************************)
Running(w, s) == w \in Pool!Workers /\ worker[w].pc = "fn" /\ stage[w] = s

Cause == IF Pool!CtxDone THEN "ctx" ELSE "own"

\* ExportWAV or RenderIntervalsToWAV succeeds.
ExportDone(w) ==
  /\ Running(w, "export") /\ ~ Pool!CtxDone
  /\ segWAV' = [segWAV EXCEPT ![worker[w].job] = "complete"]
  /\ stage' = [stage EXCEPT ![w] = "encode"]
  /\ UNCHANGED <<poolVars, fallback, phase, outAudio, outcome, at, segments, skipped,
                 splitErr>>

\* It fails: the group is skipped, and fn returns no error.
ExportFails(w) ==
  /\ Running(w, "export")
  /\ segWAV' = [segWAV EXCEPT ![worker[w].job] = "bad"]
  /\ outcome' = [outcome EXCEPT ![worker[w].job] =
                   IF Cause = "ctx" THEN "skippedCtx" ELSE "skippedOwn"]
  /\ Pool!FnReturn(w, "nil")
  /\ UNCHANGED <<fallback, phase, stage, outAudio, at, segments, skipped, splitErr>>

\* EncodeAudio succeeds: fn returns the segment with the encoded file.
EncodeDone(w) ==
  /\ Running(w, "encode") /\ ~ Pool!CtxDone
  /\ outAudio' = [outAudio EXCEPT ![worker[w].job] = "complete"]
  /\ outcome' = [outcome EXCEPT ![worker[w].job] = "encoded"]
  /\ stage' = [stage EXCEPT ![w] = "export"]
  /\ Pool!FnReturn(w, "nil")
  /\ UNCHANGED <<fallback, phase, segWAV, at, segments, skipped, splitErr>>

\* A faulty variant: a failing encoder always falls back to the WAV.
AfterEncodeErrorFallback ==
  [outcome |-> IF Cause = "ctx" THEN "wavCtx" ELSE "wavOwn", err |-> "nil"]

\* What fn returns when EncodeAudio fails: with fallback the segment whose
\* File is the WAV, else the wrapped error.
AfterEncodeError ==
  IF fallback
  THEN [outcome |-> IF Cause = "ctx" THEN "wavCtx" ELSE "wavOwn", err |-> "nil"]
  ELSE IF Cause = "ctx" THEN [outcome |-> "ctx", err |-> "ctx"]
                        ELSE [outcome |-> "encode", err |-> "fn"]

EncodeFails(w) ==
  /\ Running(w, "encode")
  /\ outAudio' = [outAudio EXCEPT ![worker[w].job] = "bad"]
  /\ outcome' = [outcome EXCEPT ![worker[w].job] = AfterEncodeError.outcome]
  /\ stage' = [stage EXCEPT ![w] = "export"]
  /\ Pool!FnReturn(w, AfterEncodeError.err)
  /\ UNCHANGED <<fallback, phase, segWAV, at, segments, skipped, splitErr>>

FnStep(w) == ExportDone(w) \/ ExportFails(w) \/ EncodeDone(w) \/ EncodeFails(w)

\* The other steps of the pool, as they are.  Once the pool has started, its
\* goroutines are bound by their own state only, not by the caller's.
PoolDispatcher ==
  phase = "pool" /\ Pool!Dispatcher /\ UNCHANGED splitVars

PoolWorker(w) ==
  /\ Pool!CancelOnError(w) \/ Pool!SendResult(w) \/ Pool!ExitWorker(w)
  /\ UNCHANGED splitVars

PoolCloser == Pool!CloseResults /\ UNCHANGED splitVars

PoolCaller ==
  /\ phase = "pool"
  /\ Pool!Receive \/ Pool!Return
  /\ phase' = IF ret'.done THEN "collect" ELSE phase
  /\ UNCHANGED <<fallback, stage, segWAV, outAudio, outcome, at, segments, skipped,
                 splitErr>>

\* The context is the caller's: it may be cancelled before, during and after
\* the pool.  Derived contexts exist while the pool runs.
CancelCall == phase # "returned" /\ Pool!CancelParent /\ UNCHANGED splitVars

CancelPool == phase = "pool" /\ Pool!PropagateCancel /\ UNCHANGED splitVars

-----------------------------------------------------------------------------
(***************************************************************************)
(* After the pool: `for _, r := range results`.  Slot i of the slice holds *)
(* the result of group i or the zero value, whose Done is false.           *)
(***************************************************************************)
Collecting == phase = "collect" /\ at <= call.n

Done(g) == ret.slice[g] # 0

\* A faulty variant: a slot without a result always counts as skipped.
CollectUndoneUnchecked == FALSE

\* if err := ctx.Err(); err != nil, on the context of the caller.
CollectUndoneReturns == parentCancelled

CollectUndone ==
  /\ Collecting /\ ~ Done(at)
  /\ IF CollectUndoneReturns
     THEN SplitReturn("ctx") /\ UNCHANGED <<at, skipped>>
     ELSE at' = at + 1 /\ skipped' = skipped + 1 /\ UNCHANGED <<phase, splitErr>>
  /\ UNCHANGED <<poolVars, fallback, stage, segWAV, outAudio, outcome, segments>>

CollectErr ==
  /\ Collecting /\ Done(at) /\ outcome[at] \in Errs
  /\ SplitReturn(outcome[at])
  /\ UNCHANGED <<poolVars, fallback, stage, segWAV, outAudio, outcome, at, segments,
                 skipped>>

CollectSkipped ==
  /\ Collecting /\ Done(at) /\ outcome[at] \in Skips
  /\ at' = at + 1 /\ skipped' = skipped + 1
  /\ UNCHANGED <<poolVars, fallback, phase, stage, segWAV, outAudio, outcome,
                 segments, splitErr>>

\* A faulty variant: File is always the name of the encoded file.
FileEncoded(o) == "audio"

\* Segment.File: the encoded file, or the WAV after a fallback.
File(o) == IF o = "encoded" THEN "audio" ELSE "wav"

CollectSegment ==
  /\ Collecting /\ Done(at) /\ outcome[at] \in Products
  /\ at' = at + 1
  /\ segments' = Append(segments, [index |-> at, file |-> File(outcome[at])])
  /\ UNCHANGED <<poolVars, fallback, phase, stage, segWAV, outAudio, outcome,
                 skipped, splitErr>>

\* A faulty variant: the error of the pool is dropped after the loop.
SegmentErrDropped == "nil"

\* segmentErr, the error MapSettledOrderedUntilError returned.
SegmentErr == CASE ret.err = "fn" -> "encode" [] OTHER -> ret.err

CollectEnd ==
  /\ phase = "collect" /\ at > call.n
  /\ SplitReturn(SegmentErr)
  /\ UNCHANGED <<poolVars, fallback, stage, segWAV, outAudio, outcome, at, segments,
                 skipped>>

SplitFinished == phase = "returned" /\ UNCHANGED allVars

-----------------------------------------------------------------------------
Sequential == \/ Probe \/ Detect \/ MakeOutDir \/ PoolCaller
              \/ CollectUndone \/ CollectErr \/ CollectSkipped \/ CollectSegment
              \/ CollectEnd

SplitNext ==
  \/ CancelCall \/ CancelPool
  \/ Sequential
  \/ PoolDispatcher \/ PoolCloser
  \/ \E w \in Pool!Workers : FnStep(w) \/ PoolWorker(w)
  \/ SplitFinished

\* As in WorkerPool; a backend operation ends, in one way or the other.
SplitFairness ==
  /\ WF_allVars(CancelPool)
  /\ WF_allVars(Sequential)
  /\ WF_allVars(PoolDispatcher)
  /\ WF_allVars(PoolCloser)
  /\ \A w \in 1 .. MaxWorkers :
        WF_allVars(w \in Pool!Workers /\ (FnStep(w) \/ PoolWorker(w)))

SplitSpec == SplitInit /\ [][SplitNext]_allVars /\ SplitFairness

-----------------------------------------------------------------------------
(***************************************************************************)
(* Properties.                                                             *)
(***************************************************************************)
Returned == phase = "returned"
Succeeded == Returned /\ splitErr = "nil"
Names(s) == IF s.file = "audio" THEN outAudio[s.index] ELSE segWAV[s.index]

\* The branch of the loop that counts a group nobody worked on as skipped
\* (processor.go:220-221) is never taken: a hole in the slice comes with a
\* cancellation of the caller or behind the error of a lower segment, and
\* both end the loop first.  info.SegmentSkipped counts failed exports only.
SkippedWereTried ==
  skipped = Cardinality({g \in 1 .. at - 1 : outcome[g] \in Skips})

\* A call that succeeds was not touched by a cancellation: every group was
\* worked on, none was skipped and no File is a WAV because a context ended an
\* operation.  The errors that fn keeps from the pool never hide a cancellation.
NoSilentCancellation ==
  Succeeded => \A g \in Groups : outcome[g] \notin {"none", "skippedCtx", "wavCtx"}

\* The segments a call returns, with or without an error, are in the order of
\* the groups and name files that are complete, whatever failed or was
\* cancelled around them.
SegmentsUsable ==
  Returned =>
    /\ \A k \in DOMAIN segments : Names(segments[k]) = "complete"
    /\ \A j, k \in DOMAIN segments : j < k => segments[j].index < segments[k].index

\* With an output that was configured, a failing encoder makes the call fail
\* even when other segments succeed, and no segment names the WAV.
NoSilentFallback ==
  Returned /\ ~ fallback =>
    /\ \A k \in DOMAIN segments : segments[k].file = "audio"
    /\ (\E g \in Groups : outcome[g] \in Errs) => splitErr # "nil"

\* The call returns, whatever fails and whenever the caller gives up.
SplitTerminates == <>Returned

\* README.md:165: "When the output format, codec, or bitrate is explicitly
\* configured, encoding failures are returned".  So when a segment failed to
\* encode and nobody cancelled the call, its failure is the error returned.
EncodingFailureReturned ==
  Returned /\ ~ parentCancelled /\ (\E g \in Groups : outcome[g] = "encode")
    => splitErr = "encode"
=============================================================================
