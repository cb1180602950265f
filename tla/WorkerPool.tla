----------------------------- MODULE WorkerPool -----------------------------
(***************************************************************************)
(* concurrency.go: MapOrdered, MapSettledOrdered and                       *)
(* MapSettledOrderedUntilError.  One behaviour is one call.  The           *)
(* goroutines of a call are a dispatcher, which offers the items on the    *)
(* unbuffered channel jobs; the workers, which run fn and send to the      *)
(* buffered channel results; a closer, which closes results once every     *)
(* worker has exited; and the caller, which collects.  The three functions *)
(* share this structure; they differ in the worker count, in the context   *)
(* fn runs under, and in what they return.                                 *)
(*                                                                         *)
(* A value is abstracted to the index of the item it was computed from: it *)
(* shows in which slot each result ends.  0 is the zero value of R.  An    *)
(* error is "fn" (fn failed by itself) or "ctx" (a context's error: fn was *)
(* cut short by a cancellation, or ctx.Err() itself was returned).         *)
(***************************************************************************)
EXTENDS Integers, Sequences, FiniteSets

CONSTANTS
  Calls,      \* the calls to consider: function, item count, worker argument
  NumCPU,     \* runtime.NumCPU()
  MaxWorkers  \* bound on the workers of one call; only fairness uses it

Ops == {"MapOrdered", "MapSettledOrdered", "MapSettledOrderedUntilError"}

ASSUME CallsAssumption ==
  /\ Calls \subseteq [op : Ops, n : Nat, workers : Int]
  /\ NumCPU \in Nat
  /\ MaxWorkers \in Nat

VARIABLES
  call,             \* the call this behaviour executes; it never changes
  parentCancelled,  \* the caller's context is done
  derivedCancelled, \* the context of context.WithCancel(ctx) is done
  next,             \* the next item the dispatcher offers
  jobsClosed,       \* the dispatcher has returned and closed jobs
  worker,           \* per worker: where it is, its job, what fn returned
  results,          \* the content of the channel results, oldest first
  resultsClosed,    \* the closer has closed results
  out,              \* the slice out of the caller
  firstErr,         \* firstErr of the caller
  received,         \* received of the caller
  failed,           \* history: the items whose fn returned an error
  ret               \* what the call returned

vars == <<call, parentCancelled, derivedCancelled, next, jobsClosed, worker,
          results, resultsClosed, out, firstErr, received, failed, ret>>

-----------------------------------------------------------------------------
(***************************************************************************)
(* How many workers a call starts.                                         *)
(***************************************************************************)
AtMost(k, bound) == IF k > bound THEN bound ELSE k

\* A faulty variant: the argument is taken as it is, 0 and less included.
effectiveWorkerCountNoDefault(itemCount, workers) ==
  AtMost(AtMost(workers, NumCPU), itemCount)

\* Zero or less means the machine's CPUs; never more than these, or than items.
effectiveWorkerCount(itemCount, workers) ==
  LET wanted == IF workers <= 0 THEN NumCPU ELSE workers
      onCPUs == AtMost(IF wanted <= 0 THEN 1 ELSE wanted, NumCPU)
      fitted == AtMost(onCPUs, itemCount)
  IN  IF itemCount <= 0 \/ fitted <= 0 THEN 1 ELSE fitted

explicitWorkerCount(itemCount, workers) ==
  LET wanted == IF workers <= 0 THEN 1 ELSE workers
  IN  IF itemCount > 0 THEN AtMost(wanted, itemCount) ELSE wanted

WorkerCount(c) == IF c.op = "MapOrdered"
                  THEN explicitWorkerCount(c.n, c.workers)
                  ELSE effectiveWorkerCount(c.n, c.workers)

ASSUME WorkersAssumption == \A c \in Calls : WorkerCount(c) <= MaxWorkers

Workers == 1 .. WorkerCount(call)
Items   == 1 .. call.n

-----------------------------------------------------------------------------
Idle == [pc |-> "range", job |-> 0, err |-> "nil"]

NoReturn == [done |-> FALSE, slice |-> <<>>, err |-> "nil"]

\* The context that the dispatcher selects on and that fn runs under.
HasDerived == call.op # "MapSettledOrdered"
CtxDone    == IF HasDerived THEN derivedCancelled ELSE parentCancelled

InitOf(c) ==
  /\ call = c
  /\ parentCancelled = FALSE
  /\ derivedCancelled = FALSE
  /\ next = 1
  /\ jobsClosed = FALSE
  /\ worker = [w \in Workers |-> Idle]
  /\ results = <<>>
  /\ resultsClosed = FALSE
  /\ out = [i \in Items |-> 0]
  /\ firstErr = "nil"
  /\ received = 0
  /\ failed = {}
  /\ ret = NoReturn

Init == \E c \in Calls : InitOf(c)

-----------------------------------------------------------------------------
(***************************************************************************)
(* The contexts.  Cancelling the parent, which the caller may do at any    *)
(* time, marks it done first and reaches its children afterwards.          *)
(***************************************************************************)
CancelParent ==
  /\ ~ parentCancelled
  /\ parentCancelled' = TRUE
  /\ UNCHANGED <<call, derivedCancelled, next, jobsClosed, worker, results,
                 resultsClosed, out, firstErr, received, failed, ret>>

PropagateCancel ==
  /\ HasDerived /\ parentCancelled /\ ~ derivedCancelled
  /\ derivedCancelled' = TRUE
  /\ UNCHANGED <<call, parentCancelled, next, jobsClosed, worker, results,
                 resultsClosed, out, firstErr, received, failed, ret>>

(***************************************************************************)
(* The dispatcher.  A context that is done does not keep it from handing   *)
(* out an item: it may reach its select only after the cancellation, and   *)
(* when a worker receives by then, both cases are ready and the runtime    *)
(* takes either.                                                           *)
(***************************************************************************)
\* A faulty variant: the range over the items runs one item too far.
OnOfferPastEnd == next <= call.n + 1

OnOffer == next \in Items

Dispatch(w) ==
  /\ ~ jobsClosed
  /\ OnOffer
  /\ w \in Workers /\ worker[w].pc = "range"
  /\ worker' = [worker EXCEPT ![w] = [pc |-> "fn", job |-> next, err |-> "nil"]]
  /\ next' = next + 1
  /\ UNCHANGED <<call, parentCancelled, derivedCancelled, jobsClosed, results,
                 resultsClosed, out, firstErr, received, failed, ret>>

DispatcherMayEnd == CtxDone \/ next > call.n

\* The dispatcher returns: the deferred close(jobs).
CloseJobs ==
  /\ ~ jobsClosed
  /\ DispatcherMayEnd
  /\ jobsClosed' = TRUE
  /\ UNCHANGED <<call, parentCancelled, derivedCancelled, next, worker, results,
                 resultsClosed, out, firstErr, received, failed, ret>>

-----------------------------------------------------------------------------
(***************************************************************************)
(* A worker.  fn may take any number of steps of the others; it fails by   *)
(* itself at any time, and with the context's error once this is done.     *)
(* MapSettledOrdered's fn returns no error.                                *)
(***************************************************************************)
FnErrors == IF HasDerived
            THEN {"nil", "fn"} \cup (IF CtxDone THEN {"ctx"} ELSE {})
            ELSE {"nil"}

\* fn returns; with an error the worker goes on to cancel(), else to the send.
FnReturn(w, e) ==
  /\ w \in Workers /\ worker[w].pc = "fn"
  /\ e \in FnErrors
  /\ worker' = [worker EXCEPT ![w].pc = IF e = "nil" THEN "send" ELSE "cancel",
                              ![w].err = e]
  /\ failed' = IF e = "nil" THEN failed ELSE failed \cup {worker[w].job}
  /\ UNCHANGED <<call, parentCancelled, derivedCancelled, next, jobsClosed,
                 results, resultsClosed, out, firstErr, received, ret>>

CancelOnError(w) ==
  /\ w \in Workers /\ worker[w].pc = "cancel"
  /\ derivedCancelled' = TRUE
  /\ worker' = [worker EXCEPT ![w].pc = "send"]
  /\ UNCHANGED <<call, parentCancelled, next, jobsClosed, results,
                 resultsClosed, out, firstErr, received, failed, ret>>

\* A faulty variant: make(chan result, len(items)-1).
ResultsCapacityOneShort == call.n - 1

\* make(chan result, len(items))
ResultsCapacity == call.n

ResultOf(w) ==
  [index |-> worker[w].job, value |-> worker[w].job, err |-> worker[w].err]

\* A faulty variant: a worker whose context is done gives up its send.
AfterSendUnlessDone(w) == IF CtxDone THEN results ELSE Append(results, ResultOf(w))

AfterSend(w) == Append(results, ResultOf(w))

\* results <- result{...}: blocks while the buffer is full.
SendResult(w) ==
  /\ w \in Workers /\ worker[w].pc = "send"
  /\ Len(results) < ResultsCapacity
  /\ results' = AfterSend(w)
  /\ worker' = [worker EXCEPT ![w] = Idle]
  /\ UNCHANGED <<call, parentCancelled, derivedCancelled, next, jobsClosed,
                 resultsClosed, out, firstErr, received, failed, ret>>

\* The range over jobs ends: wg.Done().
ExitWorker(w) ==
  /\ w \in Workers /\ worker[w].pc = "range"
  /\ jobsClosed
  /\ worker' = [worker EXCEPT ![w].pc = "exit"]
  /\ UNCHANGED <<call, parentCancelled, derivedCancelled, next, jobsClosed, results,
                 resultsClosed, out, firstErr, received, failed, ret>>

\* Faulty variants: the closer waits for the dispatcher, not for the workers; it
\* waits for as many workers as were asked for, not for those that were started.
WaitedForDispatcher == jobsClosed
WaitedForRequested ==
  call.workers <= WorkerCount(call) /\ \A w \in Workers : worker[w].pc = "exit"

\* wg.Wait()
Waited == \A w \in Workers : worker[w].pc = "exit"

\* wg.Wait(); close(results)
CloseResults ==
  /\ ~ resultsClosed
  /\ Waited
  /\ resultsClosed' = TRUE
  /\ UNCHANGED <<call, parentCancelled, derivedCancelled, next, jobsClosed, worker,
                 results, out, firstErr, received, failed, ret>>

-----------------------------------------------------------------------------
(***************************************************************************)
(* The caller: `for r := range results`, then the return of each function. *)
(***************************************************************************)
\* A faulty variant: results are stored in the order they arrive.
SlotOfInArrivalOrder(r) == received + 1

SlotOf(r) == r.index

Receive ==
  /\ ~ ret.done
  /\ results # <<>>
  /\ LET r == Head(results)
     IN  /\ out' = [out EXCEPT ![SlotOf(r)] = r.value]
         /\ firstErr' = IF firstErr = "nil" THEN r.err ELSE firstErr
  /\ received' = received + 1
  /\ results' = Tail(results)
  /\ UNCHANGED <<call, parentCancelled, derivedCancelled, next, jobsClosed, worker,
                 resultsClosed, failed, ret>>

CtxErr == IF CtxDone THEN "ctx" ELSE "nil"

Returned(slice, e) == [done |-> TRUE, slice |-> slice, err |-> e]

\* MapOrdered drops the slice with an error; a context that is done counts
\* only when a result is missing.
MapOrderedReturn ==
  IF firstErr # "nil" THEN Returned(<<>>, firstErr)
  ELSE IF received # call.n /\ CtxErr # "nil" THEN Returned(<<>>, CtxErr)
  ELSE Returned(out, "nil")

MapSettledOrderedReturn == Returned(out, "nil")

\* A faulty variant: the context is not consulted when no fn failed.
UntilErrorReturnNoCtx == Returned(out, firstErr)

\* A faulty variant: the errors of fn are left to the caller's own records.
UntilErrorReturnNoError ==
  Returned(out, IF firstErr # "nil" THEN "nil" ELSE CtxErr)

MapSettledOrderedUntilErrorReturn ==
  Returned(out, IF firstErr # "nil" THEN firstErr ELSE CtxErr)

\* results is closed and drained; the deferred cancel() runs after the
\* returned values are fixed.
Return ==
  /\ ~ ret.done
  /\ resultsClosed /\ results = <<>>
  /\ ret' = CASE call.op = "MapOrdered" -> MapOrderedReturn
              [] call.op = "MapSettledOrdered" -> MapSettledOrderedReturn
              [] OTHER -> MapSettledOrderedUntilErrorReturn
  /\ derivedCancelled' = (derivedCancelled \/ HasDerived)
  /\ UNCHANGED <<call, parentCancelled, next, jobsClosed, worker, results,
                 resultsClosed, out, firstErr, received, failed>>

\* The call is over.
Finished == ret.done /\ UNCHANGED vars

-----------------------------------------------------------------------------
Dispatcher == (\E w \in Workers : Dispatch(w)) \/ CloseJobs

WorkerStep(w) == \/ \E e \in FnErrors : FnReturn(w, e)
                 \/ CancelOnError(w)
                 \/ SendResult(w)
                 \/ ExitWorker(w)

Caller == Receive \/ Return

Next ==
  \/ CancelParent
  \/ PropagateCancel
  \/ Dispatcher
  \/ \E w \in Workers : WorkerStep(w)
  \/ CloseResults
  \/ Caller
  \/ Finished

(***************************************************************************)
(* The Go scheduler runs every goroutine that can run, and fn is taken to  *)
(* return (the shim polls the context and every input is finite).  Nothing *)
(* is assumed about a cancellation by the caller.                          *)
(***************************************************************************)
Fairness ==
  /\ WF_vars(PropagateCancel)
  /\ WF_vars(Dispatcher)
  /\ \A w \in 1 .. MaxWorkers : WF_vars(WorkerStep(w))
  /\ WF_vars(CloseResults)
  /\ WF_vars(Caller)

SafetySpec == Init /\ [][Next]_vars

Spec == SafetySpec /\ Fairness

-----------------------------------------------------------------------------
(***************************************************************************)
(* Properties.                                                             *)
(***************************************************************************)
Busy == {"fn", "cancel", "send"}
Errors == {"nil", "fn", "ctx"}

WorkerStates == [pc : {"range", "exit"} \cup Busy, job : Nat, err : Errors]
ResultRecords == [index : Items, value : Items, err : Errors]

\* The type of every variable.
TypeOK ==
  /\ call \in Calls
  /\ parentCancelled \in BOOLEAN
  /\ derivedCancelled \in BOOLEAN
  /\ next \in 1 .. call.n + 1
  /\ jobsClosed \in BOOLEAN
  /\ worker \in [Workers -> WorkerStates]
  /\ results \in Seq(ResultRecords)
  /\ resultsClosed \in BOOLEAN
  /\ out \in [Items -> 0 .. call.n]
  /\ firstErr \in Errors
  /\ received \in Nat
  /\ failed \subseteq Items
  /\ ret.done \in BOOLEAN /\ ret.err \in Errors

HeldBy(w)  == worker[w].pc \in Busy
Sent       == {results[k].index : k \in DOMAIN results}
Held       == {worker[w].job : w \in {v \in Workers : HeldBy(v)}}
Collected  == {i \in Items : out[i] # 0}

\* An item that was handed out is in exactly one place until the end of the
\* call: with one worker, once in the channel results, or in its slot of out.
\* Nothing is mapped twice and no result is lost between the goroutines.
ExactlyOnePlace ==
  /\ Held \cup Sent \cup Collected = 1 .. next - 1
  /\ Held \cap Sent = {} /\ Held \cap Collected = {} /\ Sent \cap Collected = {}
  /\ \A v, w \in Workers :
        HeldBy(v) /\ HeldBy(w) /\ worker[v].job = worker[w].job => v = w
  /\ \A j, k \in DOMAIN results : results[j].index = results[k].index => j = k

\* However the workers finish, slot i of out never holds the result of
\* another item: `out[r.index] = r.value` restores the order of the items.
ResultInOwnSlot == \A i \in Items : out[i] \in {0, i}

\* A worker that has a result sends it at once: make(chan result, len(items))
\* has room for it whatever the caller does, and the closer has not closed
\* the channel under it, which would panic.
SendSucceedsAtOnce ==
  \A w \in Workers : HeldBy(w) =>
    Len(results) < ResultsCapacity /\ ~ resultsClosed

\* When the call returns, no goroutine of it is left behind and none of its
\* results is left in the channel: fn never runs after the return.
NothingOutlivesCall ==
  ret.done => /\ jobsClosed /\ resultsClosed /\ results = <<>>
              /\ \A w \in Workers : worker[w].pc = "exit"

\* A call that returns without an error has mapped every item, although the
\* dispatcher stops early on a cancellation.  MapSettledOrdered, which returns
\* no error, leaves a slot empty only when the caller's context was cancelled.
CompleteUnlessInterrupted ==
  ret.done /\ ret.err = "nil" =>
    \/ \A i \in Items : ret.slice[i] = i
    \/ call.op = "MapSettledOrdered" /\ parentCancelled

\* An error of fn is never swallowed: the call whose fn failed returns one.
FailureReported == ret.done /\ failed # {} => ret.err # "nil"

\* The items that fn is running on.
RunningItems == {worker[w].job : w \in {v \in Workers : worker[v].pc = "fn"}}

\* Every call implements the contract of OrderedMap: fn starts once per item,
\* in order, and the call returns when none is running and all are settled.
Contract == INSTANCE OrderedMap WITH
              cancelled <- parentCancelled, started <- next - 1,
              running <- RunningItems, slots <- out,
              done <- ret.done, err <- ret.err
ImplementsContract == Contract!MapSpec

\* Every call returns: no goroutine waits for another for ever, with or
\* without cancellation, errors, and with any number of workers.
Terminates == <>(ret.done)

\* processor_test.go:542-559 expects, with one worker, that a failing item
\* is the last one mapped: "want only the failing first segment".  So no
\* item is handed out once an error of fn has cancelled the derived context.
StopsAfterError ==
  [][ failed # {} /\ derivedCancelled => next' = next ]_vars
=============================================================================
