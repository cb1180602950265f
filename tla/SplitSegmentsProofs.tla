------------------------ MODULE SplitSegmentsProofs ------------------------
(***************************************************************************)
(* Proofs about SplitSegments, for every number of groups and of workers.  *)
(* Each of its steps is a step of the pool or leaves the pool alone, so    *)
(* the invariant proved of the pool holds in it; what is added here is     *)
(* what the pool does not know: the files, the outcomes and the loop.      *)
(***************************************************************************)
EXTENDS SplitSegments, FiniteSetTheorems, SequenceTheorems, TLAPS

\* The pool again, with its theorems.
Proved == INSTANCE WorkerPoolProofs

-----------------------------------------------------------------------------
(***************************************************************************)
(* The two instances of the pool are the same.                             *)
(***************************************************************************)
LEMMA SameWorkers ==
  /\ \A c \in Calls : Pool!WorkerCount(c) = Proved!WorkerCount(c)
  /\ Pool!Workers = Proved!Workers
BY DEF Pool!Workers, Proved!Workers, Pool!WorkerCount, Proved!WorkerCount,
       Pool!effectiveWorkerCount, Proved!effectiveWorkerCount,
       Pool!explicitWorkerCount, Proved!explicitWorkerCount,
       Pool!AtMost, Proved!AtMost

LEMMA SameContext ==
  /\ Groups = Proved!Items
  /\ Pool!Items = Proved!Items
  /\ Pool!HasDerived <=> Proved!HasDerived
  /\ Pool!CtxDone <=> Proved!CtxDone
BY DEF Groups, Pool!Items, Proved!Items, Pool!HasDerived, Proved!HasDerived,
       Pool!CtxDone, Proved!CtxDone

\* What the theorems of the pool assume.
LEMMA PoolAssumptions ==
  /\ Calls \subseteq [op : Proved!Ops, n : Nat, workers : Int]
  /\ NumCPU \in Nat
  /\ MaxWorkers \in Nat
  /\ \A c \in Calls : Proved!WorkerCount(c) <= MaxWorkers
BY SplitCallsAssumption, SameWorkers DEF Proved!Ops

LEMMA SameInit == Pool!Init <=> Proved!Init
<1>1. ASSUME NEW c PROVE Pool!InitOf(c) <=> Proved!InitOf(c)
  BY SameWorkers, SameContext
  DEF Pool!InitOf, Proved!InitOf, Pool!Idle, Proved!Idle, Pool!NoReturn, Proved!NoReturn
<1> QED
  BY <1>1 DEF Pool!Init, Proved!Init

LEMMA SameSteps ==
  /\ Pool!CancelParent <=> Proved!CancelParent
  /\ Pool!PropagateCancel <=> Proved!PropagateCancel
  /\ \A w : Pool!Dispatch(w) <=> Proved!Dispatch(w)
  /\ Pool!CloseJobs <=> Proved!CloseJobs
  /\ \A w, e : Pool!FnReturn(w, e) <=> Proved!FnReturn(w, e)
  /\ \A w : Pool!CancelOnError(w) <=> Proved!CancelOnError(w)
  /\ \A w : Pool!SendResult(w) <=> Proved!SendResult(w)
  /\ \A w : Pool!ExitWorker(w) <=> Proved!ExitWorker(w)
  /\ Pool!CloseResults <=> Proved!CloseResults
  /\ Pool!Receive <=> Proved!Receive
  /\ Pool!Return <=> Proved!Return
<1>1. /\ Pool!CancelParent <=> Proved!CancelParent
      /\ Pool!PropagateCancel <=> Proved!PropagateCancel
  BY SameContext
  DEF Pool!CancelParent, Proved!CancelParent, Pool!PropagateCancel, Proved!PropagateCancel
<1>2. ASSUME NEW w PROVE Pool!Dispatch(w) <=> Proved!Dispatch(w)
  BY SameWorkers, SameContext
  DEF Pool!Dispatch, Proved!Dispatch, Pool!OnOffer, Proved!OnOffer
<1>3. Pool!CloseJobs <=> Proved!CloseJobs
  BY SameContext
  DEF Pool!CloseJobs, Proved!CloseJobs, Pool!DispatcherMayEnd, Proved!DispatcherMayEnd
<1>4. ASSUME NEW w, NEW e PROVE Pool!FnReturn(w, e) <=> Proved!FnReturn(w, e)
  <2>1. Pool!FnErrors = Proved!FnErrors
    BY SameContext DEF Pool!FnErrors, Proved!FnErrors
  <2> QED
    BY <2>1, SameWorkers DEF Pool!FnReturn, Proved!FnReturn
<1>5. ASSUME NEW w PROVE Pool!CancelOnError(w) <=> Proved!CancelOnError(w)
  BY SameWorkers DEF Pool!CancelOnError, Proved!CancelOnError
<1>6. ASSUME NEW w PROVE Pool!SendResult(w) <=> Proved!SendResult(w)
  BY SameWorkers
  DEF Pool!SendResult, Proved!SendResult, Pool!AfterSend, Proved!AfterSend,
      Pool!ResultOf, Proved!ResultOf, Pool!ResultsCapacity, Proved!ResultsCapacity,
      Pool!Idle, Proved!Idle
<1>7. ASSUME NEW w PROVE Pool!ExitWorker(w) <=> Proved!ExitWorker(w)
  BY SameWorkers DEF Pool!ExitWorker, Proved!ExitWorker
<1>8. Pool!CloseResults <=> Proved!CloseResults
  BY SameWorkers DEF Pool!CloseResults, Proved!CloseResults, Pool!Waited, Proved!Waited
<1>9. Pool!Receive <=> Proved!Receive
  BY DEF Pool!Receive, Proved!Receive, Pool!SlotOf, Proved!SlotOf
<1>10. Pool!Return <=> Proved!Return
  <2>1. /\ Pool!MapOrderedReturn = Proved!MapOrderedReturn
        /\ Pool!MapSettledOrderedReturn = Proved!MapSettledOrderedReturn
        /\ Pool!MapSettledOrderedUntilErrorReturn
             = Proved!MapSettledOrderedUntilErrorReturn
    BY SameContext
    DEF Pool!MapOrderedReturn, Proved!MapOrderedReturn, Pool!CtxErr, Proved!CtxErr,
        Pool!MapSettledOrderedReturn, Proved!MapSettledOrderedReturn,
        Pool!MapSettledOrderedUntilErrorReturn, Proved!MapSettledOrderedUntilErrorReturn,
        Pool!Returned, Proved!Returned
  <2> QED
    BY <2>1, SameContext DEF Pool!Return, Proved!Return
<1> QED
  BY <1>1, <1>2, <1>3, <1>4, <1>5, <1>6, <1>7, <1>8, <1>9, <1>10

-----------------------------------------------------------------------------
(***************************************************************************)
(* The invariant.                                                          *)
(***************************************************************************)
Phases == {"probe", "detect", "mkdir", "pool", "collect", "returned"}

SplitTypes ==
  /\ fallback \in BOOLEAN
  /\ phase \in Phases
  /\ stage \in [Proved!Workers -> {"export", "encode"}]
  /\ segWAV \in [Proved!Items -> FileStates]
  /\ outAudio \in [Proved!Items -> FileStates]
  /\ outcome \in [Proved!Items -> Outcomes]
  /\ at \in 1 .. call.n + 1
  /\ segments \in Seq([index : Proved!Items, file : {"audio", "wav"}])
  /\ skipped \in Nat
  /\ splitErr \in {"nil", "own", "ctx", "encode"}

\* Some worker is in fn on group g.
InFn(g) == \E w \in Proved!Workers : worker[w].pc = "fn" /\ worker[w].job = g

\* What a group's outcome tells of the pool and of its files.  A group has an
\* outcome once it was handed out and its fn has ended.
GroupOK(g) ==
  /\ outcome[g] = "none" <=> g >= next \/ InFn(g)
  /\ g \in failed <=> outcome[g] \in Errs
  /\ outcome[g] \in {"skippedCtx", "wavCtx"} => derivedCancelled
  /\ outcome[g] \in {"wavOwn", "wavCtx"} => fallback
  /\ outcome[g] \in Products => segWAV[g] = "complete"
  /\ outcome[g] = "encoded" => outAudio[g] = "complete"

\* An fn that encodes has exported; the next one starts with the export.
StageOK(w) ==
  /\ worker[w].pc # "fn" => stage[w] = "export"
  /\ worker[w].pc = "fn" /\ stage[w] = "encode" => segWAV[worker[w].job] = "complete"

GroupsInv ==
  /\ \A g \in Proved!Items : GroupOK(g)
  /\ \A w \in Proved!Workers : StageOK(w)

\* What the pool returned: its slots, and an error for a reason; no error only
\* if no group was left out or cut short.
ReturnInv ==
  ret.done =>
    /\ ret.slice = out
    /\ ret.err # "nil" => parentCancelled \/ failed # {}
    /\ ret.err = "nil" =>
         \A g \in Proved!Items : outcome[g] \notin {"none", "skippedCtx", "wavCtx"}

\* The loop has passed no group without a result and none that failed.
SegmentOK(s) == /\ s.index < at
                /\ outcome[s.index] \in Products
                /\ s.file = File(outcome[s.index])

LoopInv ==
  /\ phase = "collect" => ret.done
  /\ ~ ret.done => at = 1 /\ segments = <<>> /\ skipped = 0
  /\ \A g \in 1 .. at - 1 : g < next /\ g \notin failed
  /\ skipped = Cardinality({g \in 1 .. at - 1 : outcome[g] \in Skips})
  /\ \A k \in DOMAIN segments : SegmentOK(segments[k])
  /\ \A j, k \in DOMAIN segments : j < k => segments[j].index < segments[k].index

SuccessInv ==
  Succeeded => call.n = 0 \/ (ret.done /\ ret.err = "nil")

SplitInv == GroupsInv /\ ReturnInv /\ LoopInv /\ SuccessInv

IInv == Proved!IInv /\ SplitTypes /\ SplitInv

-----------------------------------------------------------------------------
(***************************************************************************)
(* Steps.                                                                  *)
(***************************************************************************)
\* A step of the pool other than the end of an fn.
QuietPool ==
  \/ UNCHANGED poolVars
  \/ Proved!CancelParent
  \/ Proved!PropagateCancel
  \/ \E w \in Proved!Workers : Proved!Dispatch(w)
  \/ Proved!CloseJobs
  \/ \E w \in Proved!Workers :
       Proved!CancelOnError(w) \/ Proved!SendResult(w) \/ Proved!ExitWorker(w)
  \/ Proved!CloseResults
  \/ Proved!Receive
  \/ Proved!Return

LoopStep == CollectUndone \/ CollectErr \/ CollectSkipped \/ CollectSegment \/ CollectEnd

\* A step that is not one of fn leaves the files and the outcomes alone.
LEMMA QuietStep ==
  ASSUME [SplitNext]_allVars
  PROVE  \/ \E w \in Proved!Workers : FnStep(w)
         \/ UNCHANGED <<fallback, stage, segWAV, outAudio, outcome>> /\ QuietPool
<1> SUFFICES ASSUME ~ \E w \in Proved!Workers : FnStep(w)
             PROVE  UNCHANGED <<fallback, stage, segWAV, outAudio, outcome>> /\ QuietPool
  OBVIOUS
<1> DEFINE Same == UNCHANGED <<fallback, stage, segWAV, outAudio, outcome>>
<1>1. CASE CancelCall \/ CancelPool
  BY <1>1, SameSteps DEF CancelCall, CancelPool, splitVars, QuietPool
<1>2. CASE Probe \/ Detect
  BY <1>2 DEF Probe, Detect, QuietPool
<1>3. CASE MakeOutDir
  <2>1. UNCHANGED poolVars \/ Pool!PropagateCancel
    BY <1>3 DEF MakeOutDir
  <2> QED
    BY <1>3, <2>1, SameSteps DEF MakeOutDir, QuietPool
<1>4. CASE PoolCaller
  BY <1>4, SameSteps DEF PoolCaller, QuietPool
<1>5. CASE LoopStep
  BY <1>5 DEF LoopStep, CollectUndone, CollectErr, CollectSkipped, CollectSegment,
              CollectEnd, QuietPool
<1>6. CASE PoolDispatcher
  <2>1. (\E w \in Proved!Workers : Proved!Dispatch(w)) \/ Proved!CloseJobs
    BY <1>6, SameSteps, SameWorkers DEF PoolDispatcher, Pool!Dispatcher
  <2> QED
    BY <1>6, <2>1 DEF PoolDispatcher, splitVars, QuietPool
<1>7. CASE PoolCloser
  BY <1>7, SameSteps DEF PoolCloser, splitVars, QuietPool
<1>8. ASSUME NEW w \in Proved!Workers, PoolWorker(w) PROVE Same /\ QuietPool
  BY <1>8, SameSteps DEF PoolWorker, splitVars, QuietPool
<1>9. CASE UNCHANGED allVars
  BY <1>9 DEF allVars, splitVars, QuietPool
<1> QED
  BY <1>1, <1>2, <1>3, <1>4, <1>5, <1>6, <1>7, <1>8, <1>9, SameWorkers
  DEF SplitNext, Sequential, LoopStep, SplitFinished

\* How a step of fn changes the pool and the groups.
LEMMA FnShape ==
  ASSUME NEW w \in Proved!Workers, FnStep(w)
  PROVE  /\ worker[w].pc = "fn"
         /\ UNCHANGED <<fallback, phase, at, segments, skipped, splitErr>>
         /\ \/ ExportDone(w) /\ UNCHANGED poolVars
            \/ ExportFails(w) /\ Proved!FnReturn(w, "nil")
            \/ EncodeDone(w) /\ Proved!FnReturn(w, "nil")
            \/ EncodeFails(w) /\ Proved!FnReturn(w, AfterEncodeError.err)
BY SameSteps DEF FnStep, ExportDone, ExportFails, EncodeDone, EncodeFails, Running

LEMMA PoolStep == [SplitNext]_allVars => [Proved!Next]_(Proved!vars)
<1> SUFFICES ASSUME [SplitNext]_allVars PROVE [Proved!Next]_(Proved!vars)
  OBVIOUS
<1>1. poolVars = Proved!vars /\ (UNCHANGED poolVars <=> UNCHANGED Proved!vars)
  BY DEF poolVars, Proved!vars
<1>2. ASSUME NEW w \in Proved!Workers, FnStep(w) PROVE [Proved!Next]_(Proved!vars)
  <2>1. UNCHANGED poolVars \/ \E e \in Proved!FnErrors : Proved!FnReturn(w, e)
    BY <1>2, FnShape DEF Proved!FnReturn
  <2> QED
    BY <1>1, <2>1 DEF Proved!Next, Proved!WorkerStep
<1>3. CASE QuietPool
  BY <1>1, <1>3 DEF QuietPool, Proved!Next, Proved!Dispatcher, Proved!WorkerStep,
                    Proved!Caller
<1> QED
  BY <1>2, <1>3, QuietStep

LEMMA PoolInvariance == Proved!IInv /\ [SplitNext]_allVars => Proved!IInv'
<1> SUFFICES ASSUME Proved!IInv, [SplitNext]_allVars PROVE Proved!IInv'
  OBVIOUS
<1>1. [Proved!Next]_(Proved!vars)
  BY PoolStep
<1> USE PoolAssumptions
<1>2. Proved!TypeInv'
  BY <1>1, Proved!NextTypeInv DEF Proved!IInv
<1>3. Proved!PlaceInv'
  BY <1>1, Proved!NextPlaceInv DEF Proved!IInv
<1>4. Proved!ClosedInOrder' /\ Proved!ErrorsTracked' /\ Proved!CancelledForReason'
  BY <1>1, Proved!NextClosedInOrder, Proved!NextErrorsTracked,
     Proved!NextCancelledForReason DEF Proved!IInv, Proved!EndInv
<1>5. Proved!ReturnedRight'
  BY <1>1, Proved!NextReturnedRight DEF Proved!IInv
<1> QED
  BY <1>2, <1>3, <1>4, <1>5 DEF Proved!IInv, Proved!EndInv

\* How a step outside the loop changes the call: it goes on to the next
\* statement, returns an error, returns for want of groups, or ends the pool.
LEMMA OtherStep ==
  ASSUME [SplitNext]_allVars
  PROVE  \/ LoopStep
         \/ /\ UNCHANGED <<at, segments, skipped>>
            /\ \/ UNCHANGED <<phase, splitErr>>
               \/ phase' \in {"detect", "mkdir", "pool"} /\ splitErr' = splitErr
               \/ phase' = "returned" /\ splitErr' \in {"own", "ctx"}
               \/ phase' = "returned" /\ splitErr' = "nil" /\ ~ (call.n > 0)
               \/ phase' = "collect" /\ ret'.done /\ splitErr' = splitErr
<1>1. CASE CancelCall \/ CancelPool \/ PoolDispatcher \/ PoolCloser
  BY <1>1 DEF CancelCall, CancelPool, PoolDispatcher, PoolCloser, splitVars
<1>2. CASE Probe
  BY <1>2 DEF Probe, SplitReturn, BackendErrors
<1>3. CASE Detect
  BY <1>3 DEF Detect, SplitReturn, BackendErrors
<1>4. CASE MakeOutDir
  BY <1>4 DEF MakeOutDir, SplitReturn
<1>5. CASE PoolCaller
  BY <1>5 DEF PoolCaller
<1>6. ASSUME NEW w \in Proved!Workers, FnStep(w)
      PROVE  UNCHANGED <<at, segments, skipped, phase, splitErr>>
  BY <1>6, FnShape
<1>7. ASSUME NEW w \in Proved!Workers, PoolWorker(w)
      PROVE  UNCHANGED <<at, segments, skipped, phase, splitErr>>
  BY <1>7 DEF PoolWorker, splitVars
<1>8. CASE UNCHANGED allVars
  BY <1>8 DEF allVars, splitVars
<1> QED
  BY <1>1, <1>2, <1>3, <1>4, <1>5, <1>6, <1>7, <1>8, SameWorkers
  DEF SplitNext, Sequential, LoopStep, SplitFinished

-----------------------------------------------------------------------------
(***************************************************************************)
(* Types.                                                                  *)
(***************************************************************************)
LEMMA CallTypes ==
  ASSUME Proved!TypeInv
  PROVE  /\ call \in Calls /\ call.n \in Nat
         /\ call.op = "MapSettledOrderedUntilError"
         /\ Proved!HasDerived /\ (Proved!CtxDone <=> derivedCancelled)
         /\ \A i : i \in Proved!Items <=> i \in Nat /\ 1 <= i /\ i <= call.n
<1>1. call \in Calls /\ call.n \in Nat /\ call.op = "MapSettledOrderedUntilError"
  BY SplitCallsAssumption DEF Proved!TypeInv, Proved!TypeOK
<1> QED
  BY <1>1 DEF Proved!HasDerived, Proved!CtxDone, Proved!Items

LEMMA SplitCallFrame ==
  ASSUME [SplitNext]_allVars
  PROVE  call' = call /\ Proved!Items' = Proved!Items /\ Proved!Workers' = Proved!Workers
<1>1. call' = call
  BY PoolStep, PoolAssumptions, Proved!CallIsConstant
<1> QED
  BY <1>1, PoolAssumptions, Proved!CallFrame

LEMMA InitSplitTypes == SplitInit => SplitTypes
<1> SUFFICES ASSUME SplitInit PROVE SplitTypes
  OBVIOUS
<1>1. Proved!TypeInv
  BY SameInit, PoolAssumptions, Proved!InitTypeInv DEF SplitInit
<1>2. call.n \in Nat
  BY <1>1, CallTypes
<1>3. at \in 1 .. call.n + 1 /\ skipped \in Nat
  BY <1>2 DEF SplitInit
<1>4. segments \in Seq([index : Proved!Items, file : {"audio", "wav"}])
  BY DEF SplitInit
<1> QED
  BY <1>3, <1>4, SameContext, SameWorkers
  DEF SplitInit, SplitTypes, Phases, FileStates, Outcomes

LEMMA NextSplitTypes ==
  ASSUME Proved!TypeInv, SplitTypes, [SplitNext]_allVars
  PROVE  SplitTypes'
<1>c. /\ call' = call /\ Proved!Items' = Proved!Items /\ Proved!Workers' = Proved!Workers
      /\ call.n \in Nat
  BY SplitCallFrame, CallTypes
<1> USE DEF SplitTypes
<1> DEFINE GroupTypes ==
      /\ fallback \in BOOLEAN
      /\ stage \in [Proved!Workers -> {"export", "encode"}]
      /\ segWAV \in [Proved!Items -> FileStates]
      /\ outAudio \in [Proved!Items -> FileStates]
      /\ outcome \in [Proved!Items -> Outcomes]
<1>1. GroupTypes'
  <2>1. ASSUME NEW w \in Proved!Workers, FnStep(w) PROVE GroupTypes'
    <3>1. CASE ExportDone(w)
      BY <1>c, <3>1 DEF ExportDone, FileStates
    <3>2. CASE ExportFails(w)
      BY <1>c, <3>2 DEF ExportFails, FileStates, Outcomes, Skips
    <3>3. CASE EncodeDone(w)
      BY <1>c, <3>3 DEF EncodeDone, FileStates, Outcomes, Products
    <3>4. CASE EncodeFails(w)
      <4>1. AfterEncodeError.outcome \in Outcomes
        BY DEF AfterEncodeError, Outcomes, Products, Errs
      <4> QED
        BY <1>c, <3>4, <4>1 DEF EncodeFails, FileStates
    <3> QED
      BY <2>1, <3>1, <3>2, <3>3, <3>4 DEF FnStep
  <2>2. CASE UNCHANGED <<fallback, stage, segWAV, outAudio, outcome>>
    BY <1>c, <2>2
  <2> QED
    BY <2>1, <2>2, QuietStep
<1>2. /\ at' \in 1 .. call.n + 1
      /\ segments' \in Seq([index : Proved!Items, file : {"audio", "wav"}])
      /\ skipped' \in Nat
      /\ phase' \in Phases
      /\ splitErr' \in {"nil", "own", "ctx", "encode"}
  <2>i. Collecting => at \in Proved!Items /\ at + 1 \in 1 .. call.n + 1
    BY <1>c, CallTypes DEF Collecting
  <2>1. CASE CollectUndone
    BY <2>1, <2>i DEF CollectUndone, SplitReturn, Phases
  <2>2. CASE CollectErr
    BY <2>2 DEF CollectErr, SplitReturn, Phases, Errs
  <2>3. CASE CollectSkipped
    BY <2>3, <2>i DEF CollectSkipped
  <2>4. CASE CollectSegment
    <3>1. [index |-> at, file |-> File(outcome[at])]
            \in [index : Proved!Items, file : {"audio", "wav"}]
      BY <2>4, <2>i DEF CollectSegment, File
    <3>2. segments' \in Seq([index : Proved!Items, file : {"audio", "wav"}])
      BY <2>4, <3>1, AppendProperties DEF CollectSegment
    <3> QED
      BY <2>4, <2>i, <3>2 DEF CollectSegment
  <2>5. CASE CollectEnd
    <3>1. SegmentErr \in {"nil", "encode", "ctx"}
      BY DEF SegmentErr, Proved!TypeInv, Proved!TypeOK, Proved!Errors
    <3> QED
      BY <2>5, <3>1 DEF CollectEnd, SplitReturn, Phases
  <2>6. CASE ~ LoopStep
    BY <2>6, OtherStep DEF Phases
  <2> QED
    BY <2>1, <2>2, <2>3, <2>4, <2>5, <2>6 DEF LoopStep
<1> QED
  BY <1>c, <1>1, <1>2

-----------------------------------------------------------------------------
(***************************************************************************)
(* The groups.                                                             *)
(***************************************************************************)
\* What the pool's invariant says of a worker that runs fn.
LEMMA RunningFacts ==
  ASSUME Proved!IInv, NEW w \in Proved!Workers, worker[w].pc = "fn"
  PROVE  /\ worker[w].job \in Proved!Items
         /\ worker[w].job < next
         /\ \A v \in Proved!Workers :
              worker[v].pc = "fn" /\ worker[v].job = worker[w].job => v = w
         /\ ~ ret.done
<1> USE DEF Proved!IInv
<1>1. Proved!HeldBy(w)
  BY DEF Proved!HeldBy, Proved!Busy
<1>2. worker[w].job \in Proved!Items
  BY <1>1 DEF Proved!TypeInv, Proved!JobsInRange
<1>3. worker[w].job \in Proved!Held
  BY <1>1 DEF Proved!Held
<1>4. worker[w].job \in 1 .. next - 1
  BY <1>3 DEF Proved!PlaceInv, Proved!ExactlyOnePlace
<1>5. next \in Int
  BY CallTypes DEF Proved!TypeInv, Proved!TypeOK
<1>6. \A v \in Proved!Workers : worker[v].pc = "fn" => Proved!HeldBy(v)
  BY DEF Proved!HeldBy, Proved!Busy
<1>7. \A v \in Proved!Workers :
        worker[v].pc = "fn" /\ worker[v].job = worker[w].job => v = w
  BY <1>1, <1>6 DEF Proved!PlaceInv, Proved!ExactlyOnePlace
<1>8. ret.done => FALSE
  BY DEF Proved!EndInv, Proved!ClosedInOrder, Proved!Waited
<1> QED
  BY <1>2, <1>4, <1>5, <1>7, <1>8

LEMMA InitGroupsInv == SplitInit => GroupsInv
<1> SUFFICES ASSUME SplitInit PROVE GroupsInv
  OBVIOUS
<1>1. PICK c \in Calls : Proved!InitOf(c)
  BY SameInit DEF SplitInit, Proved!Init
<1>2. /\ next = 1 /\ failed = {}
      /\ \A w \in Proved!Workers : worker[w].pc = "range"
  BY <1>1 DEF Proved!InitOf, Proved!Idle
<1>3. ASSUME NEW g \in Proved!Items PROVE GroupOK(g)
  <2>1. outcome[g] = "none" /\ ~ InFn(g)
    BY <1>2, SameContext DEF SplitInit, InFn
  <2>2. g >= next
    BY <1>2 DEF Proved!Items
  <2> QED
    BY <1>2, <2>1, <2>2 DEF GroupOK, Errs, Products
<1>4. ASSUME NEW w \in Proved!Workers PROVE StageOK(w)
  BY <1>2, SameWorkers DEF SplitInit, StageOK
<1> QED
  BY <1>3, <1>4 DEF GroupsInv

\* GroupsInv reads, of the pool, who runs fn on what, what was handed out, who
\* failed and whether the context is done.
LEMMA GroupsFrame ==
  ASSUME GroupsInv, [SplitNext]_allVars,
         UNCHANGED <<fallback, stage, segWAV, outAudio, outcome, next, failed>>,
         derivedCancelled => derivedCancelled',
         \A w \in Proved!Workers :
           /\ worker'[w].pc = "fn" <=> worker[w].pc = "fn"
           /\ worker[w].pc = "fn" => worker'[w].job = worker[w].job
  PROVE  GroupsInv'
<1>c. Proved!Items' = Proved!Items /\ Proved!Workers' = Proved!Workers
  BY SplitCallFrame
<1>1. ASSUME NEW g \in Proved!Items PROVE GroupOK(g)'
  <2>1. InFn(g)' <=> InFn(g)
    BY <1>c DEF InFn
  <2> QED
    BY <2>1 DEF GroupsInv, GroupOK
<1>2. ASSUME NEW w \in Proved!Workers PROVE StageOK(w)'
  BY DEF GroupsInv, StageOK
<1> QED
  BY <1>c, <1>1, <1>2 DEF GroupsInv

\* The effect of the end of an fn on the pool.
LEMMA FnReturnEffect ==
  ASSUME Proved!TypeInv, NEW w \in Proved!Workers, NEW e, Proved!FnReturn(w, e)
  PROVE  /\ worker'[w].pc # "fn"
         /\ \A v \in Proved!Workers : v # w => worker'[v] = worker[v]
         /\ failed' = IF e = "nil" THEN failed ELSE failed \cup {worker[w].job}
         /\ UNCHANGED <<next, derivedCancelled, ret>>
<1>1. worker \in [Proved!Workers -> Proved!WorkerStates]
  BY DEF Proved!TypeInv, Proved!TypeOK
<1> QED
  BY <1>1 DEF Proved!FnReturn, Proved!WorkerStates

\* One group ends: what is left to show is that its own entries fit.
LEMMA GroupEnds ==
  ASSUME Proved!IInv, SplitTypes, GroupsInv, [SplitNext]_allVars,
         NEW w \in Proved!Workers, worker[w].pc = "fn",
         NEW e, Proved!FnReturn(w, e), fallback' = fallback,
         stage'[w] = "export",
         \A v \in Proved!Workers : v # w => stage'[v] = stage[v],
         \A g \in Proved!Items : g # worker[w].job =>
           /\ outcome'[g] = outcome[g]
           /\ segWAV'[g] = segWAV[g] /\ outAudio'[g] = outAudio[g],
         NEW o, o = outcome'[worker[w].job],
         o # "none",
         e # "nil" <=> o \in Errs,
         o \in {"skippedCtx", "wavCtx"} => derivedCancelled,
         o \in {"wavOwn", "wavCtx"} => fallback,
         o \in Products => segWAV'[worker[w].job] = "complete",
         o = "encoded" => outAudio'[worker[w].job] = "complete"
  PROVE  GroupsInv'
<1>c. Proved!Items' = Proved!Items /\ Proved!Workers' = Proved!Workers
  BY SplitCallFrame
<1>t. Proved!TypeInv
  BY DEF Proved!IInv
<1>e. /\ worker'[w].pc # "fn"
      /\ \A v \in Proved!Workers : v # w => worker'[v] = worker[v]
      /\ failed' = IF e = "nil" THEN failed ELSE failed \cup {worker[w].job}
      /\ next' = next /\ derivedCancelled' = derivedCancelled
  BY <1>t, FnReturnEffect
<1>j. /\ worker[w].job \in Proved!Items
      /\ worker[w].job < next
      /\ \A v \in Proved!Workers :
           worker[v].pc = "fn" /\ worker[v].job = worker[w].job => v = w
  BY RunningFacts
<1>n. next \in Int /\ \A g \in Proved!Items : g \in Int
  BY <1>t, CallTypes DEF Proved!TypeInv, Proved!TypeOK
<1>1. ASSUME NEW g \in Proved!Items PROVE GroupOK(g)'
  <2>1. CASE g = worker[w].job
    <3>1. ~ InFn(g)'
      BY <1>c, <1>e, <1>j, <2>1 DEF InFn
    <3>2. ~ (g >= next)
      BY <1>j, <1>n, <2>1
    <3>3. InFn(g)
      BY <2>1 DEF InFn
    <3>4. g \notin failed
      BY <3>3 DEF GroupsInv, GroupOK, Errs
    <3>5. g \in failed' <=> o \in Errs
      BY <1>e, <2>1, <3>4
    <3> QED
      BY <1>e, <2>1, <3>1, <3>2, <3>5 DEF GroupOK
  <2>2. CASE g # worker[w].job
    <3>1. InFn(g)' <=> InFn(g)
      BY <1>c, <1>e, <2>2 DEF InFn
    <3>2. g \in failed' <=> g \in failed
      BY <1>e, <2>2
    <3> QED
      BY <1>e, <2>2, <3>1, <3>2 DEF GroupsInv, GroupOK
  <2> QED
    BY <2>1, <2>2
<1>2. ASSUME NEW v \in Proved!Workers PROVE StageOK(v)'
  <2>1. CASE v = w
    BY <1>e, <2>1 DEF StageOK
  <2>2. CASE v # w
    <3>1. worker'[v] = worker[v] /\ stage'[v] = stage[v]
      BY <1>e, <2>2
    <3>2. worker[v].pc = "fn" =>
            worker[v].job \in Proved!Items /\ worker[v].job # worker[w].job
      BY <1>j, <2>2, RunningFacts
    <3> QED
      BY <3>1, <3>2 DEF GroupsInv, StageOK
  <2> QED
    BY <2>1, <2>2
<1> QED
  BY <1>c, <1>1, <1>2 DEF GroupsInv

LEMMA NextGroupsInv ==
  ASSUME Proved!IInv, SplitTypes, GroupsInv, [SplitNext]_allVars
  PROVE  GroupsInv'
<1>c. Proved!Items' = Proved!Items /\ Proved!Workers' = Proved!Workers
  BY SplitCallFrame
<1>t. Proved!TypeInv
  BY DEF Proved!IInv
<1>d. Pool!CtxDone <=> derivedCancelled
  BY <1>t, CallTypes, SameContext
<1>m. derivedCancelled => derivedCancelled'
  <2>1. Proved!CtxDone => Proved!CtxDone'
    BY <1>t, PoolStep, PoolAssumptions, Proved!MayEndIsStable
  <2>2. Proved!HasDerived /\ Proved!HasDerived'
    BY <1>t, CallTypes, SplitCallFrame DEF Proved!HasDerived
  <2> QED
    BY <2>1, <2>2 DEF Proved!CtxDone
<1>w. worker \in [Proved!Workers -> Proved!WorkerStates]
  BY <1>t DEF Proved!TypeInv, Proved!TypeOK
<1>1. ASSUME NEW w \in Proved!Workers, FnStep(w) PROVE GroupsInv'
  <2>1. worker[w].pc = "fn" /\ fallback' = fallback
    BY <1>1, FnShape
  <2>2. worker[w].job \in Proved!Items
    BY <2>1, RunningFacts
  <2>3. CASE ExportDone(w) /\ UNCHANGED poolVars
    <3>1. /\ segWAV' = [segWAV EXCEPT ![worker[w].job] = "complete"]
          /\ stage' = [stage EXCEPT ![w] = "encode"]
          /\ UNCHANGED <<outAudio, outcome, fallback>>
      BY <2>3 DEF ExportDone
    <3>2. UNCHANGED <<worker, next, failed, derivedCancelled>>
      BY <2>3 DEF poolVars
    <3>3. ASSUME NEW g \in Proved!Items PROVE GroupOK(g)'
      <4>1. InFn(g)' <=> InFn(g)
        BY <1>c, <3>2 DEF InFn
      <4>2. segWAV'[g] = segWAV[g] \/ segWAV'[g] = "complete"
        BY <3>1 DEF SplitTypes
      <4> QED
        BY <3>1, <3>2, <4>1, <4>2 DEF GroupsInv, GroupOK
    <3>4. ASSUME NEW v \in Proved!Workers PROVE StageOK(v)'
      <4>1. worker[v].pc = "fn" => worker[v].job \in Proved!Items
        BY RunningFacts
      <4>2. worker[v].pc = "fn" =>
              \/ segWAV'[worker[v].job] = segWAV[worker[v].job]
              \/ segWAV'[worker[v].job] = "complete"
        BY <3>1, <4>1 DEF SplitTypes
      <4>3. CASE v = w
        BY <2>1, <2>2, <3>1, <3>2, <4>3 DEF SplitTypes, StageOK
      <4>4. CASE v # w
        BY <3>1, <3>2, <4>2, <4>4 DEF SplitTypes, GroupsInv, StageOK
      <4> QED
        BY <4>3, <4>4
    <3> QED
      BY <1>c, <3>3, <3>4 DEF GroupsInv
  <2>4. CASE ExportFails(w) /\ Proved!FnReturn(w, "nil")
    <3> DEFINE o == IF Cause = "ctx" THEN "skippedCtx" ELSE "skippedOwn"
    <3>1. /\ segWAV' = [segWAV EXCEPT ![worker[w].job] = "bad"]
          /\ outcome' = [outcome EXCEPT ![worker[w].job] = o]
          /\ UNCHANGED <<stage, outAudio>> /\ stage[w] = "export"
      BY <2>4 DEF ExportFails, Running
    <3>2. /\ outcome'[worker[w].job] = o
          /\ \A g \in Proved!Items : g # worker[w].job =>
               outcome'[g] = outcome[g] /\ segWAV'[g] = segWAV[g]
      BY <2>2, <3>1 DEF SplitTypes
    <3>3. /\ o # "none" /\ o \notin Errs /\ o \notin Products
          /\ o \notin {"wavOwn", "wavCtx"} /\ o # "encoded"
          /\ o \in {"skippedCtx", "wavCtx"} => derivedCancelled
      BY <1>d DEF Cause, Errs, Products
    <3> HIDE DEF o
    <3> QED
      BY <2>1, <2>4, <3>1, <3>2, <3>3, GroupEnds
  <2>5. CASE EncodeDone(w) /\ Proved!FnReturn(w, "nil")
    <3>1. /\ outAudio' = [outAudio EXCEPT ![worker[w].job] = "complete"]
          /\ outcome' = [outcome EXCEPT ![worker[w].job] = "encoded"]
          /\ stage' = [stage EXCEPT ![w] = "export"]
          /\ segWAV' = segWAV /\ stage[w] = "encode"
      BY <2>5 DEF EncodeDone, Running
    <3>2. /\ outcome'[worker[w].job] = "encoded"
          /\ outAudio'[worker[w].job] = "complete"
          /\ \A g \in Proved!Items : g # worker[w].job =>
               outcome'[g] = outcome[g] /\ outAudio'[g] = outAudio[g]
          /\ stage'[w] = "export"
          /\ \A v \in Proved!Workers : v # w => stage'[v] = stage[v]
      BY <2>2, <3>1 DEF SplitTypes
    <3>3. segWAV'[worker[w].job] = "complete"
      BY <2>1, <3>1 DEF GroupsInv, StageOK
    <3>4. "encoded" \notin Errs
      BY DEF Errs
    <3> QED
      BY <2>1, <2>5, <3>1, <3>2, <3>3, <3>4, GroupEnds
  <2>6. CASE EncodeFails(w) /\ Proved!FnReturn(w, AfterEncodeError.err)
    <3> DEFINE o == AfterEncodeError.outcome
               e == AfterEncodeError.err
    <3>1. /\ outAudio' = [outAudio EXCEPT ![worker[w].job] = "bad"]
          /\ outcome' = [outcome EXCEPT ![worker[w].job] = o]
          /\ stage' = [stage EXCEPT ![w] = "export"]
          /\ segWAV' = segWAV /\ stage[w] = "encode"
      BY <2>6 DEF EncodeFails, Running
    <3>2. /\ outcome'[worker[w].job] = o
          /\ \A g \in Proved!Items : g # worker[w].job =>
               outcome'[g] = outcome[g] /\ outAudio'[g] = outAudio[g]
          /\ stage'[w] = "export"
          /\ \A v \in Proved!Workers : v # w => stage'[v] = stage[v]
      BY <2>2, <3>1 DEF SplitTypes
    <3>3. segWAV'[worker[w].job] = "complete"
      BY <2>1, <3>1 DEF GroupsInv, StageOK
    <3>4. /\ o # "none" /\ o # "encoded"
          /\ e # "nil" <=> o \in Errs
          /\ o \in {"wavOwn", "wavCtx"} => fallback
          /\ o \in {"skippedCtx", "wavCtx"} => derivedCancelled
      BY <1>d DEF AfterEncodeError, Cause, Errs
    <3>5. Proved!FnReturn(w, e)
      BY <2>6
    <3> HIDE DEF o, e
    <3> QED
      BY <2>1, <3>1, <3>2, <3>3, <3>4, <3>5, GroupEnds
  <2> QED
    BY <1>1, <2>3, <2>4, <2>5, <2>6, FnShape
<1>2. ASSUME UNCHANGED <<fallback, stage, segWAV, outAudio, outcome>>,
             NEW w \in Proved!Workers, Proved!Dispatch(w)
      PROVE  GroupsInv'
  <2>1. /\ next \in Proved!Items /\ next \in Int /\ next' = next + 1
        /\ UNCHANGED <<failed, derivedCancelled>>
        /\ worker[w].pc = "range"
        /\ worker'[w].pc = "fn" /\ worker'[w].job = next
        /\ \A v \in Proved!Workers : v # w => worker'[v] = worker[v]
    BY <1>2, <1>t, <1>w, CallTypes DEF Proved!Dispatch, Proved!OnOffer
  <2>2. ASSUME NEW g \in Proved!Items PROVE GroupOK(g)'
    <3>1. g \in Int
      BY <1>t, CallTypes
    <3>2. g >= next' \/ InFn(g)' <=> g >= next \/ InFn(g)
      <4>1. CASE g = next
        <5>1. InFn(g)'
          BY <1>c, <2>1, <4>1 DEF InFn
        <5> QED
          BY <2>1, <4>1, <5>1
      <4>2. CASE g # next
        <5>1. InFn(g)' <=> InFn(g)
          BY <1>c, <2>1, <4>2 DEF InFn
        <5>2. g >= next + 1 <=> g >= next
          BY <2>1, <3>1, <4>2
        <5> QED
          BY <2>1, <5>1, <5>2
      <4> QED
        BY <4>1, <4>2
    <3> QED
      BY <1>2, <2>1, <3>2 DEF GroupsInv, GroupOK
  <2>3. ASSUME NEW v \in Proved!Workers PROVE StageOK(v)'
    <3>1. CASE v = w
      BY <1>2, <2>1, <3>1 DEF GroupsInv, StageOK
    <3>2. CASE v # w
      BY <1>2, <2>1, <3>2 DEF GroupsInv, StageOK
    <3> QED
      BY <3>1, <3>2
  <2> QED
    BY <1>c, <2>2, <2>3 DEF GroupsInv
<1>3. ASSUME UNCHANGED <<fallback, stage, segWAV, outAudio, outcome>>, QuietPool,
             ~ \E w \in Proved!Workers : Proved!Dispatch(w)
      PROVE  GroupsInv'
  <2> DEFINE SameFns ==
        \A v \in Proved!Workers :
          /\ worker'[v].pc = "fn" <=> worker[v].pc = "fn"
          /\ worker[v].pc = "fn" => worker'[v].job = worker[v].job
  <2>1. UNCHANGED <<next, failed>> /\ SameFns
    <3>1. ASSUME NEW w \in Proved!Workers,
                 \/ Proved!CancelOnError(w) \/ Proved!SendResult(w)
                 \/ Proved!ExitWorker(w)
          PROVE  UNCHANGED <<next, failed>> /\ SameFns
      <4>1. /\ worker[w].pc # "fn" /\ worker'[w].pc # "fn"
            /\ \A v \in Proved!Workers : v # w => worker'[v] = worker[v]
            /\ UNCHANGED <<next, failed>>
        BY <1>w, <3>1 DEF Proved!CancelOnError, Proved!SendResult, Proved!ExitWorker,
                          Proved!Idle, Proved!WorkerStates
      <4> QED
        BY <4>1
    <3>2. CASE UNCHANGED <<worker, next, failed>>
      BY <3>2
    <3>3. \/ UNCHANGED <<worker, next, failed>>
          \/ \E w \in Proved!Workers :
               Proved!CancelOnError(w) \/ Proved!SendResult(w) \/ Proved!ExitWorker(w)
      BY <1>3 DEF QuietPool, poolVars, Proved!CancelParent, Proved!PropagateCancel,
                  Proved!CloseJobs, Proved!CloseResults, Proved!Receive, Proved!Return
    <3> QED
      BY <3>1, <3>2, <3>3
  <2> QED
    BY <1>3, <1>m, <2>1, GroupsFrame
<1> QED
  BY <1>1, <1>2, <1>3, QuietStep

-----------------------------------------------------------------------------
(***************************************************************************)
(* What the pool returned, and the loop over it.                           *)
(***************************************************************************)
LEMMA InitRest == SplitInit => ReturnInv /\ LoopInv /\ SuccessInv
<1> SUFFICES ASSUME SplitInit PROVE ReturnInv /\ LoopInv /\ SuccessInv
  OBVIOUS
<1>1. ret.done = FALSE
  BY SameInit DEF SplitInit, Proved!Init, Proved!InitOf, Proved!NoReturn
<1>2. at = 1 /\ segments = <<>> /\ skipped = 0 /\ phase = "probe"
  BY DEF SplitInit
<1>3. {g \in 1 .. at - 1 : outcome[g] \in Skips} = {}
  BY <1>2
<1>4. skipped = Cardinality({g \in 1 .. at - 1 : outcome[g] \in Skips})
  BY <1>2, <1>3, FS_EmptySet
<1>5. LoopInv
  BY <1>1, <1>2, <1>4 DEF LoopInv
<1> QED
  BY <1>1, <1>2, <1>5 DEF ReturnInv, SuccessInv, Succeeded, Returned

\* Once the pool has returned, nothing the loop reads changes.
LEMMA AfterPool ==
  ASSUME Proved!IInv, [SplitNext]_allVars, ret.done
  PROVE  /\ UNCHANGED <<ret, failed, out, outcome, next>>
         /\ parentCancelled => parentCancelled'
<1>t. Proved!TypeInv /\ Proved!ClosedInOrder
  BY DEF Proved!IInv, Proved!EndInv
<1>s. [Proved!Next]_(Proved!vars)
  BY PoolStep
<1>1. UNCHANGED <<ret, failed, out>> /\ (parentCancelled => parentCancelled')
  BY <1>s, <1>t, PoolAssumptions, Proved!AfterReturn, Proved!MayEndIsStable
<1>2. ~ \E w \in Proved!Workers : FnStep(w)
  BY RunningFacts, FnShape
<1>3. outcome' = outcome /\ QuietPool
  BY <1>2, QuietStep
<1>4. resultsClosed /\ jobsClosed
  BY <1>t, PoolAssumptions, Proved!ClosedMeansOver DEF Proved!ClosedInOrder
<1>5. next' = next
  BY <1>3, <1>4
  DEF QuietPool, poolVars, Proved!CancelParent, Proved!PropagateCancel, Proved!Dispatch,
      Proved!CloseJobs, Proved!CancelOnError, Proved!SendResult, Proved!ExitWorker,
      Proved!CloseResults, Proved!Receive, Proved!Return
<1> QED
  BY <1>1, <1>3, <1>5

LEMMA NextReturnInv ==
  ASSUME Proved!IInv, GroupsInv, ReturnInv, [SplitNext]_allVars
  PROVE  ReturnInv'
<1> SUFFICES ASSUME ret'.done PROVE ReturnInv'
  BY DEF ReturnInv
<1>c. Proved!Items' = Proved!Items
  BY SplitCallFrame
<1>t. /\ Proved!TypeInv /\ Proved!PlaceInv /\ Proved!ClosedInOrder
      /\ Proved!ErrorsTracked /\ Proved!CancelledForReason
  BY DEF Proved!IInv, Proved!EndInv
<1>1. CASE ret.done
  <2>1. /\ UNCHANGED <<ret, failed, out, outcome>>
        /\ parentCancelled => parentCancelled'
    BY <1>1, AfterPool
  <2> QED
    BY <1>1, <1>c, <2>1 DEF ReturnInv
<1>2. CASE ~ ret.done
  <2>1. Proved!Return
    <3>1. ret' # ret
      BY <1>2
    <3> QED
      BY <3>1, PoolStep
      DEF Proved!Next, Proved!vars, Proved!CancelParent, Proved!PropagateCancel,
          Proved!Dispatcher, Proved!Dispatch, Proved!CloseJobs, Proved!WorkerStep,
          Proved!FnReturn, Proved!CancelOnError, Proved!SendResult, Proved!ExitWorker,
          Proved!CloseResults, Proved!Caller, Proved!Receive, Proved!Finished
  <2>2. ~ \E w \in Proved!Workers : FnStep(w)
    <3>1. \A w \in Proved!Workers : worker[w].pc # "fn"
      BY <1>t, <2>1, PoolAssumptions, Proved!ClosedMeansOver DEF Proved!Return
    <3> QED
      BY <3>1, FnShape
  <2>3. outcome' = outcome
    BY <2>2, QuietStep
  <2>4. UNCHANGED <<out, failed, parentCancelled>>
    BY <2>1 DEF Proved!Return
  <2>5. ret' = Proved!MapSettledOrderedUntilErrorReturn
    BY <1>t, <2>1, CallTypes DEF Proved!Return
  <2>6. /\ Proved!Collected = 1 .. next - 1
        /\ Proved!CtxDone \/ Proved!Collected = Proved!Items
        /\ failed # {} => firstErr # "nil"
    BY <1>t, <2>1, PoolAssumptions, Proved!DrainedFacts DEF Proved!Return
  <2>7. firstErr # "nil" => failed # {}
    BY <1>t DEF Proved!ErrorsTracked
  <2>8. Proved!CtxDone => parentCancelled \/ failed # {}
    BY <1>2, <1>t DEF Proved!CancelledForReason
  <2>9. /\ ret'.slice = out
        /\ ret'.err = IF firstErr # "nil" THEN firstErr
                      ELSE IF Proved!CtxDone THEN "ctx" ELSE "nil"
    BY <2>5 DEF Proved!MapSettledOrderedUntilErrorReturn, Proved!Returned, Proved!CtxErr
  <2>10. ASSUME ret'.err = "nil", NEW g \in Proved!Items
         PROVE  outcome[g] \notin {"none", "skippedCtx", "wavCtx"}
    <3>1. ~ Proved!CtxDone /\ Proved!Collected = Proved!Items
      BY <2>6, <2>9, <2>10
    <3>2. ~ derivedCancelled
      BY <1>t, <3>1, CallTypes
    <3>3. g \in 1 .. next - 1 /\ next \in Int
      BY <1>t, <2>6, <3>1, CallTypes DEF Proved!TypeInv, Proved!TypeOK
    <3>4. ~ InFn(g)
      BY <1>t, <2>1, PoolAssumptions, Proved!ClosedMeansOver DEF InFn, Proved!Return
    <3>5. ~ (g >= next)
      BY <3>3
    <3> QED
      BY <3>2, <3>4, <3>5 DEF GroupsInv, GroupOK
  <2> QED
    BY <1>c, <2>3, <2>4, <2>7, <2>8, <2>9, <2>10 DEF ReturnInv
<1> QED
  BY <1>1, <1>2

\* A slot is empty exactly if its item was never handed out.
LEMMA SlotFacts ==
  ASSUME Proved!IInv, ReturnInv, ret.done, NEW g \in Proved!Items
  PROVE  Done(g) <=> g < next
<1>t. /\ Proved!TypeInv /\ Proved!PlaceInv /\ Proved!ClosedInOrder
      /\ Proved!ErrorsTracked
  BY DEF Proved!IInv, Proved!EndInv
<1>1. Proved!Collected = 1 .. next - 1
  BY <1>t, PoolAssumptions, Proved!DrainedFacts DEF Proved!ClosedInOrder
<1>2. g \in Nat /\ 1 <= g /\ next \in Int
  BY <1>t, CallTypes DEF Proved!TypeInv, Proved!TypeOK
<1>3. g \in Proved!Collected <=> out[g] # 0
  BY DEF Proved!Collected
<1>4. g \in 1 .. next - 1 <=> g < next
  BY <1>2
<1> QED
  BY <1>1, <1>3, <1>4 DEF Done, ReturnInv

LEMMA SegmentTyped ==
  ASSUME SplitTypes, NEW k \in DOMAIN segments
  PROVE  segments[k].index \in Proved!Items
<1> DEFINE S == [index : Proved!Items, file : {"audio", "wav"}]
<1>1. segments \in Seq(S)
  BY DEF SplitTypes
<1> HIDE DEF S
<1>2. k \in 1 .. Len(segments)
  BY <1>1, LenProperties
<1>3. segments[k] \in S
  BY <1>1, <1>2, ElementOfSeq
<1> QED
  BY <1>3 DEF S

\* The loop meets no empty slot unless the caller gave up: behind the last
\* group that was handed out there is an error in a slot it has passed.
LEMMA UndoneMeansCancelled ==
  ASSUME Proved!IInv, SplitTypes, GroupsInv, ReturnInv, LoopInv, CollectUndone
  PROVE  parentCancelled
<1> SUFFICES ASSUME ~ parentCancelled PROVE FALSE
  OBVIOUS
<1>1. /\ ret.done /\ at \in Proved!Items /\ ~ Done(at)
      /\ Proved!TypeInv
  <2>1. Proved!TypeInv
    BY DEF Proved!IInv
  <2>2. phase = "collect" /\ at <= call.n /\ ~ Done(at)
    BY DEF CollectUndone, Collecting
  <2>3. at \in Nat /\ 1 <= at
    BY <2>1, CallTypes DEF SplitTypes
  <2> QED
    BY <2>1, <2>2, <2>3, CallTypes DEF LoopInv
<1>2. at \in Int /\ next \in Int /\ ~ (at < next)
  BY <1>1, SlotFacts, CallTypes DEF Proved!TypeInv, Proved!TypeOK
<1>3. outcome[at] = "none"
  BY <1>1, <1>2 DEF GroupsInv, GroupOK
<1>4. failed # {}
  BY <1>1, <1>3 DEF ReturnInv
<1>5. PICK j \in failed : j \in Proved!Items
  BY <1>1, <1>4 DEF Proved!TypeInv, Proved!TypeOK
<1>6. outcome[j] # "none"
  BY <1>5 DEF GroupsInv, GroupOK, Errs
<1>7. j \in Nat /\ 1 <= j /\ ~ (j >= next)
  BY <1>1, <1>5, <1>6, CallTypes DEF GroupsInv, GroupOK
<1>8. j \in 1 .. at - 1
  BY <1>2, <1>7
<1> QED
  BY <1>5, <1>8 DEF LoopInv

LEMMA NextLoopInv ==
  ASSUME Proved!IInv, SplitTypes, GroupsInv, ReturnInv, LoopInv, [SplitNext]_allVars
  PROVE  LoopInv'
<1>t. Proved!TypeInv
  BY DEF Proved!IInv
<1>i. at \in Nat /\ 1 <= at /\ next \in Int
  BY <1>t, CallTypes DEF SplitTypes, Proved!TypeInv, Proved!TypeOK
<1> DEFINE Passed(n) == {g \in 1 .. n : outcome[g] \in Skips}
<1>1. CASE ~ LoopStep
  <2>1. UNCHANGED <<at, segments, skipped>>
    BY <1>1, OtherStep
  <2>2. phase' = "collect" => ret'.done
    <3>1. phase' = "collect" => phase = "collect" \/ ret'.done
      BY <1>1, OtherStep
    <3>2. ret.done => ret'.done
      BY AfterPool
    <3> QED
      BY <3>1, <3>2 DEF LoopInv
  <2>3. CASE ret.done
    <3>1. UNCHANGED <<ret, failed, outcome, next>>
      BY <2>3, AfterPool
    <3> QED
      BY <2>1, <2>2, <2>3, <3>1 DEF LoopInv, SegmentOK, File
  <2>4. CASE ~ ret.done
    <3>1. at' = 1 /\ segments' = <<>> /\ skipped' = 0
      BY <2>1, <2>4 DEF LoopInv
    <3>2. {g \in 1 .. at - 1 : outcome[g] \in Skips}' = {}
      BY <3>1
    <3>3. skipped' = Cardinality({g \in 1 .. at - 1 : outcome[g] \in Skips}')
      BY <3>1, <3>2, FS_EmptySet
    <3> QED
      BY <2>2, <3>1, <3>3 DEF LoopInv
  <2> QED
    BY <2>3, <2>4
<1>2. CASE LoopStep
  <2>f. UNCHANGED <<ret, failed, outcome, next>>
    BY <1>2 DEF LoopStep, CollectUndone, CollectErr, CollectSkipped, CollectSegment,
                CollectEnd, poolVars
  <2>d. ret.done /\ ret'.done
    BY <1>2, <2>f DEF LoopStep, CollectUndone, CollectErr, CollectSkipped,
                      CollectSegment, CollectEnd, Collecting, LoopInv
  <2>1. CASE UNCHANGED <<at, segments, skipped>>
    BY <2>1, <2>f, <2>d DEF LoopInv, SegmentOK, File
  <2>2. CASE CollectSkipped \/ CollectSegment
    <3>1. at \in Proved!Items /\ Done(at) /\ at' = at + 1
      BY <2>2, <1>t, <1>i, CallTypes DEF CollectSkipped, CollectSegment, Collecting
    <3>2. at < next
      BY <2>d, <3>1, SlotFacts
    <3>3. at \notin failed
      <4>1. outcome[at] \notin Errs
        BY <2>2 DEF CollectSkipped, CollectSegment, Skips, Products, Errs
      <4> QED
        BY <3>1, <4>1 DEF GroupsInv, GroupOK
    <3>4. \A g \in 1 .. at : g < next /\ g \notin failed
      <4>1. \A g \in 1 .. at : g = at \/ g \in 1 .. at - 1
        BY <1>i
      <4> QED
        BY <3>2, <3>3, <4>1 DEF LoopInv
    <3>5. at' - 1 = at
      BY <1>i, <3>1
    <3>6. skipped = Cardinality(Passed(at - 1))
      BY DEF LoopInv
    <3>7. {g \in 1 .. at - 1 : outcome[g] \in Skips}' = Passed(at)
      BY <2>f, <3>5
    <3>8. \A g : g \in Passed(at) <=>
                   g \in Passed(at - 1) \/ (g = at /\ outcome[at] \in Skips)
      BY <1>i
    <3>9. \A k \in DOMAIN segments :
             segments[k].index \in Nat /\ segments[k].index < at
      BY <1>t, CallTypes, SegmentTyped DEF LoopInv, SegmentOK
    <3>10. CASE CollectSkipped
      <4>1. outcome[at] \in Skips /\ skipped' = skipped + 1 /\ segments' = segments
        BY <3>10 DEF CollectSkipped
      <4>2. IsFiniteSet(Passed(at - 1)) /\ at \notin Passed(at - 1)
        <5>1. IsFiniteSet(1 .. at - 1)
          BY <1>i, FS_Interval
        <5> QED
          BY <1>i, <5>1, FS_Subset
      <4>3. Passed(at) = Passed(at - 1) \cup {at}
        BY <3>8, <4>1
      <4>4. Cardinality(Passed(at)) = Cardinality(Passed(at - 1)) + 1
        BY <4>2, <4>3, FS_AddElement
      <4>5. skipped' = Cardinality({g \in 1 .. at - 1 : outcome[g] \in Skips}')
        BY <3>6, <3>7, <4>1, <4>4
      <4>6. \A k \in DOMAIN segments' : SegmentOK(segments[k])'
        BY <1>i, <2>f, <3>1, <3>9, <4>1 DEF LoopInv, SegmentOK, File
      <4>7. \A j, k \in DOMAIN segments' :
              j < k => segments'[j].index < segments'[k].index
        BY <4>1 DEF LoopInv
      <4> QED
        BY <2>d, <2>f, <3>4, <3>5, <4>5, <4>6, <4>7 DEF LoopInv
    <3>11. CASE CollectSegment
      <4> DEFINE s == [index |-> at, file |-> File(outcome[at])]
      <4>1. outcome[at] \in Products /\ skipped' = skipped /\ segments' = Append(segments, s)
        BY <3>11 DEF CollectSegment
      <4>2. Passed(at) = Passed(at - 1)
        BY <3>8, <4>1 DEF Products, Skips
      <4>3. skipped' = Cardinality({g \in 1 .. at - 1 : outcome[g] \in Skips}')
        BY <3>6, <3>7, <4>1, <4>2
      <4>4. /\ s.index = at /\ s.file = File(outcome[at])
            /\ segments \in Seq([index : Proved!Items, file : {"audio", "wav"}])
            /\ s \in [index : Proved!Items, file : {"audio", "wav"}]
        BY <3>1 DEF SplitTypes, File
      <4>5. /\ Len(segments) \in Nat
            /\ DOMAIN segments = 1 .. Len(segments)
            /\ DOMAIN segments' = 1 .. Len(segments) + 1
            /\ \A k \in 1 .. Len(segments) : segments'[k] = segments[k]
            /\ segments'[Len(segments) + 1] = s
        <5> HIDE DEF s
        <5> QED
          BY <4>1, <4>4, AppendProperties, LenProperties
      <4> HIDE DEF s
      <4>6. ASSUME NEW k \in DOMAIN segments' PROVE SegmentOK(segments[k])'
        <5>1. CASE k \in DOMAIN segments
          <6>1. segments'[k] = segments[k]
            BY <4>5, <5>1
          <6> QED
            BY <1>i, <2>f, <3>1, <3>9, <5>1, <6>1 DEF LoopInv, SegmentOK, File
        <5>2. CASE k = Len(segments) + 1
          BY <1>i, <2>f, <3>1, <4>1, <4>4, <4>5, <5>2 DEF SegmentOK, File
        <5> QED
          BY <4>5, <5>1, <5>2
      <4>7. ASSUME NEW j \in DOMAIN segments', NEW k \in DOMAIN segments', j < k
            PROVE  segments'[j].index < segments'[k].index
        <5>1. j \in DOMAIN segments
          BY <4>5, <4>7
        <5>2. CASE k \in DOMAIN segments
          BY <4>5, <4>7, <5>1, <5>2 DEF LoopInv
        <5>3. CASE k = Len(segments) + 1
          BY <3>9, <4>4, <4>5, <5>1, <5>3
        <5> QED
          BY <4>5, <5>2, <5>3
      <4> QED
        BY <2>d, <2>f, <3>4, <3>5, <4>3, <4>6, <4>7 DEF LoopInv
    <3> QED
      BY <2>2, <3>10, <3>11
  <2>3. CASE CollectUndone
    <3>1. UNCHANGED <<at, segments, skipped>>
      BY <2>3, UndoneMeansCancelled DEF CollectUndone, CollectUndoneReturns
    <3> QED
      BY <2>1, <3>1
  <2>4. CASE CollectErr \/ CollectEnd
    <3>1. UNCHANGED <<at, segments, skipped>>
      BY <2>4 DEF CollectErr, CollectEnd
    <3> QED
      BY <2>1, <3>1
  <2> QED
    BY <1>2, <2>2, <2>3, <2>4 DEF LoopStep
<1> QED
  BY <1>1, <1>2

LEMMA NextSuccessInv ==
  ASSUME Proved!IInv, SplitTypes, LoopInv, SuccessInv, [SplitNext]_allVars
  PROVE  SuccessInv'
<1> SUFFICES ASSUME phase' = "returned", splitErr' = "nil"
             PROVE  call'.n = 0 \/ (ret'.done /\ ret'.err = "nil")
  BY DEF SuccessInv, Succeeded, Returned
<1>c. call' = call /\ call.n \in Nat
  BY SplitCallFrame, CallTypes DEF Proved!IInv
<1>r. ret.done => ret' = ret
  BY AfterPool
<1>1. CASE UNCHANGED <<phase, splitErr>>
  <2>1. call.n = 0 \/ (ret.done /\ ret.err = "nil")
    BY <1>1 DEF SuccessInv, Succeeded, Returned
  <2> QED
    BY <1>c, <1>r, <2>1
<1>2. CASE ~ LoopStep /\ ~ UNCHANGED <<phase, splitErr>>
  <2>1. ~ (call.n > 0)
    BY <1>2, OtherStep
  <2> QED
    BY <1>c, <2>1
<1>3. CASE CollectEnd
  <2>1. phase = "collect" /\ ret.done /\ SegmentErr = "nil"
    BY <1>3 DEF CollectEnd, SplitReturn, LoopInv
  <2>2. ret.err = "nil"
    BY <2>1 DEF SegmentErr
  <2> QED
    BY <1>r, <2>1, <2>2
<1>4. CASE CollectErr
  BY <1>4 DEF CollectErr, SplitReturn, Errs
<1>5. CASE CollectUndone /\ ~ UNCHANGED <<phase, splitErr>>
  BY <1>5 DEF CollectUndone, SplitReturn
<1>6. CASE CollectSkipped \/ CollectSegment
  <2>1. UNCHANGED <<phase, splitErr>>
    BY <1>6 DEF CollectSkipped, CollectSegment
  <2> QED
    BY <1>1, <2>1
<1> QED
  BY <1>1, <1>2, <1>3, <1>4, <1>5, <1>6 DEF LoopStep

-----------------------------------------------------------------------------
(***************************************************************************)
(* The theorems.                                                           *)
(***************************************************************************)
LEMMA SplitInvariance == SplitInit /\ [][SplitNext]_allVars => []IInv
<1>1. SplitInit => IInv
  <2> SUFFICES ASSUME SplitInit PROVE IInv
    OBVIOUS
  <2>1. Proved!Init
    BY SameInit DEF SplitInit
  <2>2. Proved!IInv
    BY <2>1, PoolAssumptions, Proved!InitTypeInv, Proved!InitPlaceInv,
       Proved!InitEndInv DEF Proved!IInv
  <2> QED
    BY <2>2, InitSplitTypes, InitGroupsInv, InitRest DEF IInv, SplitInv
<1>2. IInv /\ [SplitNext]_allVars => IInv'
  <2> SUFFICES ASSUME IInv, [SplitNext]_allVars PROVE IInv'
    OBVIOUS
  <2>1. Proved!IInv /\ Proved!TypeInv /\ SplitTypes /\ GroupsInv /\ ReturnInv
        /\ LoopInv /\ SuccessInv
    BY DEF IInv, SplitInv, Proved!IInv
  <2> QED
    BY <2>1, PoolInvariance, NextSplitTypes, NextGroupsInv, NextReturnInv, NextLoopInv,
       NextSuccessInv DEF IInv, SplitInv
<1> QED
  BY <1>1, <1>2, PTL

\* No group that nobody worked on is counted as skipped.
THEOREM SkippedAreFailedExports == SplitSpec => []SkippedWereTried
<1>1. IInv => SkippedWereTried
  BY DEF IInv, SplitInv, LoopInv, SkippedWereTried
<1> QED
  BY <1>1, SplitInvariance, PTL DEF SplitSpec

\* A nil error is returned only by a call that no cancellation touched.
THEOREM SuccessIsWhole == SplitSpec => []NoSilentCancellation
<1>1. IInv => NoSilentCancellation
  <2> SUFFICES ASSUME IInv, Succeeded, NEW g \in Groups
               PROVE  outcome[g] \notin {"none", "skippedCtx", "wavCtx"}
    BY DEF NoSilentCancellation
  <2>1. g \in Proved!Items /\ call.n # 0
    BY SameContext, CallTypes DEF IInv, Proved!IInv
  <2> QED
    BY <2>1 DEF IInv, SplitInv, SuccessInv, ReturnInv
<1> QED
  BY <1>1, SplitInvariance, PTL DEF SplitSpec

\* What a call returns names complete files, in the order of the groups.
THEOREM SegmentsNameFiles == SplitSpec => []SegmentsUsable
<1>1. IInv => SegmentsUsable
  <2> SUFFICES ASSUME IInv PROVE SegmentsUsable
    OBVIOUS
  <2>1. ASSUME NEW k \in DOMAIN segments PROVE Names(segments[k]) = "complete"
    <3>1. segments[k].index \in Proved!Items /\ SegmentOK(segments[k])
      BY SegmentTyped DEF IInv, SplitInv, LoopInv
    <3> DEFINE g == segments[k].index
    <3>2. GroupOK(g)
      BY <3>1 DEF IInv, SplitInv, GroupsInv
    <3>3. outcome[g] \in Products /\ segments[k].file = File(outcome[g])
      BY <3>1 DEF SegmentOK
    <3>4. segWAV[g] = "complete" /\ (outcome[g] = "encoded" => outAudio[g] = "complete")
      BY <3>2, <3>3 DEF GroupOK
    <3> QED
      BY <3>3, <3>4 DEF Names, File
  <2>2. \A j, k \in DOMAIN segments : j < k => segments[j].index < segments[k].index
    BY DEF IInv, SplitInv, LoopInv
  <2> QED
    BY <2>1, <2>2 DEF SegmentsUsable
<1> QED
  BY <1>1, SplitInvariance, PTL DEF SplitSpec

\* With a configured output no segment names a WAV and no encoding failure is
\* left without an error.
THEOREM FallbackOnlyIfAllowed == SplitSpec => []NoSilentFallback
<1>1. IInv => NoSilentFallback
  <2> SUFFICES ASSUME IInv, Returned, ~ fallback PROVE NoSilentFallback
    BY DEF NoSilentFallback
  <2>1. ASSUME NEW k \in DOMAIN segments PROVE segments[k].file = "audio"
    <3>1. segments[k].index \in Proved!Items /\ SegmentOK(segments[k])
      BY SegmentTyped DEF IInv, SplitInv, LoopInv
    <3>2. outcome[segments[k].index] = "encoded"
      BY <3>1 DEF IInv, SplitInv, GroupsInv, GroupOK, SegmentOK, Products
    <3> QED
      BY <3>1, <3>2 DEF SegmentOK, File
  <2>2. ASSUME NEW g \in Groups, outcome[g] \in Errs, splitErr = "nil" PROVE FALSE
    <3>1. g \in Proved!Items /\ call.n # 0
      BY SameContext, CallTypes DEF IInv, Proved!IInv
    <3>2. ret.done /\ ret.err = "nil"
      BY <2>2, <3>1 DEF IInv, SplitInv, SuccessInv, Succeeded
    <3>3. failed # {}
      BY <2>2, <3>1 DEF IInv, SplitInv, GroupsInv, GroupOK
    <3>4. Proved!FailureReported
      BY DEF IInv, Proved!IInv, Proved!EndInv, Proved!ReturnedRight
    <3> QED
      BY <3>2, <3>3, <3>4 DEF Proved!FailureReported
  <2> QED
    BY <2>1, <2>2 DEF NoSilentFallback
<1> QED
  BY <1>1, SplitInvariance, PTL DEF SplitSpec
=============================================================================
