-------------------------- MODULE WorkerPoolProofs --------------------------
(***************************************************************************)
(* Proofs about WorkerPool, for every set of calls, every number of items  *)
(* and workers and every number of CPUs.                                   *)
(***************************************************************************)
EXTENDS WorkerPool, FiniteSetTheorems, SequenceTheorems, TLAPS

-----------------------------------------------------------------------------
(***************************************************************************)
(* The number of workers, and what depends on the call alone.              *)
(***************************************************************************)

\* Both functions of concurrency.go:189-219 return at least 1, for any number
\* of items, any argument and any machine: some worker receives every item.
THEOREM WorkerCountPositive ==
  ASSUME NEW c \in Calls
  PROVE  WorkerCount(c) \in Nat \ {0}
<1>1. c.n \in Nat /\ c.workers \in Int /\ NumCPU \in Nat
  BY CallsAssumption
<1>2. effectiveWorkerCount(c.n, c.workers) \in Nat \ {0}
  BY <1>1, SMT DEF effectiveWorkerCount, AtMost
<1>3. explicitWorkerCount(c.n, c.workers) \in Nat \ {0}
  BY <1>1, SMT DEF explicitWorkerCount, AtMost
<1> QED
  BY <1>2, <1>3 DEF WorkerCount

\* A step does not change the call, and with it its items and its workers.
LEMMA CallFrame ==
  ASSUME call' = call
  PROVE  Items' = Items /\ Workers' = Workers /\ HasDerived' = HasDerived
BY DEF Items, Workers, HasDerived

LEMMA CallIsConstant == [Next]_vars => call' = call
BY DEF Next, vars, CancelParent, PropagateCancel, Dispatcher, Dispatch, CloseJobs,
       WorkerStep, FnReturn, CancelOnError, SendResult, ExitWorker, CloseResults,
       Caller, Receive, Return, Finished

\* An interval that starts at 1 has as many members as its bound.
LEMMA CountTo ==
  ASSUME NEW n \in Nat
  PROVE  IsFiniteSet(1 .. n) /\ Cardinality(1 .. n) = n
<1>1. /\ IsFiniteSet(1 .. n)
      /\ Cardinality(1 .. n) = IF 1 > n THEN 0 ELSE n - 1 + 1
  BY FS_Interval
<1> QED
  BY <1>1

-----------------------------------------------------------------------------
(***************************************************************************)
(* Types.  A busy worker's job is an item: without it the type of results  *)
(* is not preserved by SendResult.                                         *)
(***************************************************************************)
JobsInRange == \A w \in Workers : HeldBy(w) => worker[w].job \in Items

TypeInv == TypeOK /\ JobsInRange

LEMMA InitTypeInv == Init => TypeInv
<1> SUFFICES ASSUME NEW c \in Calls, InitOf(c) PROVE TypeInv
  BY DEF Init
<1>1. call.n \in Nat
  BY CallsAssumption DEF InitOf
<1>2. worker \in [Workers -> WorkerStates] /\ JobsInRange
  BY DEF InitOf, Idle, WorkerStates, JobsInRange, HeldBy, Busy, Errors
<1>3. out \in [Items -> 0 .. call.n] /\ next \in 1 .. call.n + 1
  BY <1>1 DEF InitOf, Items
<1>4. results \in Seq(ResultRecords)
  BY DEF InitOf
<1> QED
  BY <1>2, <1>3, <1>4 DEF TypeInv, TypeOK, InitOf, NoReturn, Errors

LEMMA NextTypeInv == TypeInv /\ [Next]_vars => TypeInv'
<1> SUFFICES ASSUME TypeInv, [Next]_vars PROVE TypeInv'
  OBVIOUS
<1>c. call' = call /\ Items' = Items /\ Workers' = Workers
  BY CallIsConstant, CallFrame
<1>r. ResultRecords' = ResultRecords
  BY <1>c DEF ResultRecords
<1>n. call.n \in Nat
  BY CallsAssumption DEF TypeInv, TypeOK
<1> USE DEF TypeInv, TypeOK, JobsInRange, HeldBy
<1>1. CASE CancelParent
  BY <1>1, <1>c, <1>r DEF CancelParent
<1>2. CASE PropagateCancel
  BY <1>2, <1>c, <1>r DEF PropagateCancel
<1>3. ASSUME NEW w \in Workers, Dispatch(w) PROVE TypeInv'
  <2>1. next \in Items /\ next \in Nat /\ next' \in 1 .. call.n + 1
    BY <1>3, <1>n DEF Dispatch, OnOffer, Items
  <2>2. worker' \in [Workers -> WorkerStates]
    BY <1>3, <2>1 DEF Dispatch, WorkerStates, Busy, Errors
  <2> QED
    BY <1>3, <1>c, <1>r, <2>1, <2>2 DEF Dispatch
<1>4. CASE CloseJobs
  BY <1>4, <1>c, <1>r DEF CloseJobs
<1>5. ASSUME NEW w \in Workers, NEW e \in FnErrors, FnReturn(w, e) PROVE TypeInv'
  <2>1. e \in Errors
    BY DEF FnErrors, Errors
  <2>2. worker[w].job \in Items /\ failed' \subseteq Items
    BY <1>5 DEF FnReturn, Busy
  <2>3. worker' \in [Workers -> WorkerStates]
    BY <1>5, <2>1 DEF FnReturn, WorkerStates, Busy
  <2>4. JobsInRange'
    BY <1>5, <1>c, <2>2 DEF FnReturn, WorkerStates
  <2> QED
    BY <1>5, <1>c, <1>r, <2>2, <2>3, <2>4 DEF FnReturn
<1>6. ASSUME NEW w \in Workers, CancelOnError(w) PROVE TypeInv'
  <2>1. worker' \in [Workers -> WorkerStates]
    BY <1>6 DEF CancelOnError, WorkerStates, Busy
  <2>2. JobsInRange'
    BY <1>6, <1>c DEF CancelOnError, WorkerStates, Busy
  <2> QED
    BY <1>6, <1>c, <1>r, <2>1, <2>2 DEF CancelOnError
<1>7. ASSUME NEW w \in Workers, SendResult(w) PROVE TypeInv'
  <2>1. ResultOf(w) \in ResultRecords
    BY <1>7 DEF SendResult, ResultOf, ResultRecords, WorkerStates, Busy
  <2>2. results' \in Seq(ResultRecords)
    BY <1>7, <2>1, AppendProperties DEF SendResult, AfterSend
  <2>3. worker' \in [Workers -> WorkerStates]
    BY <1>7 DEF SendResult, Idle, WorkerStates, Errors
  <2>4. JobsInRange'
    BY <1>7, <1>c DEF SendResult, Idle, WorkerStates, Busy
  <2> QED
    BY <1>7, <1>c, <1>r, <2>2, <2>3, <2>4 DEF SendResult
<1>8. ASSUME NEW w \in Workers, ExitWorker(w) PROVE TypeInv'
  <2>1. worker' \in [Workers -> WorkerStates]
    BY <1>8 DEF ExitWorker, WorkerStates
  <2>2. JobsInRange'
    BY <1>8, <1>c DEF ExitWorker, WorkerStates, Busy
  <2> QED
    BY <1>8, <1>c, <1>r, <2>1, <2>2 DEF ExitWorker
<1>9. CASE CloseResults
  BY <1>9, <1>c, <1>r DEF CloseResults
<1>10. CASE Receive
  <2>1. Head(results) \in ResultRecords /\ results' \in Seq(ResultRecords)
    BY <1>10, HeadTailProperties DEF Receive
  <2>2. out' \in [Items -> 0 .. call.n]
    BY <1>10, <1>n, <2>1 DEF Receive, SlotOf, ResultRecords, Items
  <2>3. firstErr' \in Errors
    BY <1>10, <2>1 DEF Receive, ResultRecords
  <2>4. received' \in Nat
    BY <1>10 DEF Receive
  <2> QED
    BY <1>10, <1>c, <1>r, <2>1, <2>2, <2>3, <2>4 DEF Receive
<1>11. CASE Return
  <2>1. ret'.done \in BOOLEAN /\ ret'.err \in Errors
    BY <1>11 DEF Return, MapOrderedReturn, MapSettledOrderedReturn,
                 MapSettledOrderedUntilErrorReturn, Returned, CtxErr, Errors
  <2>2. derivedCancelled' \in BOOLEAN
    BY <1>11 DEF Return, HasDerived
  <2> QED
    BY <1>11, <1>c, <1>r, <2>1, <2>2 DEF Return
<1>12. CASE UNCHANGED vars
  BY <1>12, <1>c, <1>r DEF vars
<1> QED
  BY <1>1, <1>2, <1>3, <1>4, <1>5, <1>6, <1>7, <1>8, <1>9, <1>10, <1>11, <1>12
  DEF Next, Dispatcher, WorkerStep, Caller, Finished, Dispatch, FnReturn,
      CancelOnError, SendResult, ExitWorker

\* Every variable keeps its type: in particular no result carries an index
\* outside out, and no worker an item that does not exist.
THEOREM TypeCorrect == SafetySpec => []TypeOK
<1>1. SafetySpec => []TypeInv
  BY InitTypeInv, NextTypeInv, PTL DEF SafetySpec
<1>2. TypeInv => TypeOK
  BY DEF TypeInv
<1> QED
  BY <1>1, <1>2, PTL

-----------------------------------------------------------------------------
(***************************************************************************)
(* Placement: where an item that was handed out is.  ExactlyOnePlace is    *)
(* inductive together with the two facts below.                            *)
(***************************************************************************)

\* A result carries the value of the item whose index it carries.
OwnValues == \A k \in DOMAIN results : results[k].value = results[k].index

\* The caller has counted the results that it stored.
Counted == received = Cardinality(Collected)

PlaceInv == ExactlyOnePlace /\ ResultInOwnSlot /\ OwnValues /\ Counted

LEMMA InitPlaceInv == Init => PlaceInv
<1> SUFFICES ASSUME NEW c \in Calls, InitOf(c) PROVE PlaceInv
  BY DEF Init
<1>1. Held = {} /\ Sent = {} /\ Collected = {}
  BY DEF InitOf, Held, HeldBy, Busy, Idle, Sent, Collected
<1>2. ExactlyOnePlace
  BY <1>1 DEF InitOf, ExactlyOnePlace, HeldBy, Busy, Idle
<1>3. Counted
  BY <1>1, FS_EmptySet DEF Counted, InitOf
<1>4. ResultInOwnSlot /\ OwnValues
  BY DEF InitOf, ResultInOwnSlot, OwnValues
<1> QED
  BY <1>2, <1>3, <1>4 DEF PlaceInv

\* PlaceInv reads the workers, the channel, out and two counters.
LEMMA PlaceFrame ==
  ASSUME PlaceInv, call' = call, worker' = worker, results' = results, out' = out,
         next' = next, received' = received
  PROVE  PlaceInv'
<1>1. Items' = Items /\ Workers' = Workers
  BY CallFrame
<1> QED
  BY <1>1 DEF PlaceInv, ExactlyOnePlace, ResultInOwnSlot, OwnValues, Counted, Held,
              HeldBy, Sent, Collected

\* Nor does it tell how far a busy worker has come.
LEMMA PlaceWorkerFrame ==
  ASSUME PlaceInv, call' = call, results' = results, out' = out, next' = next,
         received' = received,
         \A v \in Workers : /\ (worker'[v].pc \in Busy) <=> (worker[v].pc \in Busy)
                            /\ worker'[v].job = worker[v].job
  PROVE  PlaceInv'
<1>1. Items' = Items /\ Workers' = Workers
  BY CallFrame
<1>2. Held' = Held /\ Sent' = Sent /\ Collected' = Collected
  BY <1>1 DEF Held, HeldBy, Sent, Collected
<1> QED
  BY <1>1, <1>2 DEF PlaceInv, ExactlyOnePlace, ResultInOwnSlot, OwnValues, Counted,
                    HeldBy

LEMMA DispatchPlaceInv ==
  ASSUME TypeInv, PlaceInv, NEW w \in Workers, Dispatch(w), call' = call
  PROVE  PlaceInv'
<1>c. Items' = Items /\ Workers' = Workers
  BY CallFrame
<1>0. next \in Nat \ {0} /\ next' = next + 1
  BY DEF Dispatch, OnOffer, Items
<1>1. /\ ~ HeldBy(w) /\ HeldBy(w)' /\ worker'[w].job = next
      /\ \A v \in Workers \ {w} : worker'[v] = worker[v]
  BY DEF Dispatch, HeldBy, Busy, TypeInv, TypeOK
<1>2. Held' = Held \cup {next}
  BY <1>1, <1>c DEF Held, HeldBy
<1>3. Sent' = Sent /\ Collected' = Collected
  BY <1>c DEF Dispatch, Sent, Collected
<1>4. next \notin Held \cup Sent \cup Collected
  BY <1>0 DEF PlaceInv, ExactlyOnePlace
<1>5. \A v \in Workers : HeldBy(v) => worker[v].job # next
  BY <1>4 DEF Held
<1>6. ExactlyOnePlace'
  <2>1. (Held \cup Sent \cup Collected = 1 .. next - 1)'
    BY <1>0, <1>2, <1>3 DEF PlaceInv, ExactlyOnePlace
  <2>2. (Held \cap Sent = {} /\ Held \cap Collected = {} /\ Sent \cap Collected = {})'
    BY <1>2, <1>3, <1>4 DEF PlaceInv, ExactlyOnePlace
  <2>3. (\A u, v \in Workers :
           HeldBy(u) /\ HeldBy(v) /\ worker[u].job = worker[v].job => u = v)'
    BY <1>1, <1>5, <1>c DEF PlaceInv, ExactlyOnePlace, HeldBy
  <2>4. (\A j, k \in DOMAIN results : results[j].index = results[k].index => j = k)'
    BY DEF PlaceInv, ExactlyOnePlace, Dispatch
  <2> QED
    BY <2>1, <2>2, <2>3, <2>4 DEF ExactlyOnePlace
<1> QED
  BY <1>3, <1>6, <1>c DEF PlaceInv, ResultInOwnSlot, OwnValues, Counted, Dispatch

LEMMA SendPlaceInv ==
  ASSUME TypeInv, PlaceInv, NEW w \in Workers, SendResult(w), call' = call
  PROVE  PlaceInv'
<1>c. Items' = Items /\ Workers' = Workers
  BY CallFrame
<1> DEFINE i == worker[w].job
<1>1. HeldBy(w) /\ i \in Held
  BY DEF SendResult, HeldBy, Busy, Held
<1>2. ~ HeldBy(w)' /\ \A v \in Workers \ {w} : worker'[v] = worker[v]
  BY DEF SendResult, HeldBy, Busy, Idle, TypeInv, TypeOK
<1>3. Held' = Held \ {i}
  <2>1. \A v \in Workers \ {w} : HeldBy(v) => worker[v].job # i
    BY <1>1 DEF PlaceInv, ExactlyOnePlace
  <2> QED
    BY <1>1, <1>2, <1>c, <2>1 DEF Held, HeldBy
<1>4. /\ results \in Seq(ResultRecords)
      /\ ResultOf(w) \in ResultRecords
      /\ results' = Append(results, ResultOf(w))
  BY DEF SendResult, AfterSend, TypeInv, TypeOK, ResultOf, ResultRecords,
         JobsInRange, WorkerStates, HeldBy, Busy
<1>5. /\ Len(results) \in Nat /\ Len(results') = Len(results) + 1
      /\ DOMAIN results = 1 .. Len(results) /\ DOMAIN results' = 1 .. Len(results')
      /\ \A k \in 1 .. Len(results) : results'[k] = results[k]
      /\ results'[Len(results) + 1] = ResultOf(w)
  BY <1>4, AppendProperties, LenProperties
<1>6. ResultOf(w).index = i /\ ResultOf(w).value = i
  BY DEF ResultOf
<1>7. Sent' = Sent \cup {i}
  BY <1>5, <1>6 DEF Sent
<1>8. Collected' = Collected
  BY <1>c DEF SendResult, Collected
<1>9. i \notin Sent /\ i \notin Collected
  BY <1>1 DEF PlaceInv, ExactlyOnePlace
<1>10. \A k \in DOMAIN results : results[k].index # i
  BY <1>9 DEF Sent
<1>11. ExactlyOnePlace'
  <2>1. (Held \cup Sent \cup Collected = 1 .. next - 1)'
    BY <1>1, <1>3, <1>7, <1>8 DEF PlaceInv, ExactlyOnePlace, SendResult
  <2>2. (Held \cap Sent = {} /\ Held \cap Collected = {} /\ Sent \cap Collected = {})'
    BY <1>3, <1>7, <1>8, <1>9 DEF PlaceInv, ExactlyOnePlace
  <2>3. (\A u, v \in Workers :
           HeldBy(u) /\ HeldBy(v) /\ worker[u].job = worker[v].job => u = v)'
    BY <1>2, <1>c DEF PlaceInv, ExactlyOnePlace, HeldBy
  <2>4. (\A j, k \in DOMAIN results : results[j].index = results[k].index => j = k)'
    BY <1>5, <1>6, <1>10 DEF PlaceInv, ExactlyOnePlace
  <2> QED
    BY <2>1, <2>2, <2>3, <2>4 DEF ExactlyOnePlace
<1>12. OwnValues'
  BY <1>5, <1>6 DEF PlaceInv, OwnValues
<1> QED
  BY <1>8, <1>11, <1>12, <1>c DEF PlaceInv, ResultInOwnSlot, Counted, SendResult

LEMMA ReceivePlaceInv ==
  ASSUME TypeInv, PlaceInv, Receive, call' = call
  PROVE  PlaceInv'
<1>c. Items' = Items /\ Workers' = Workers
  BY CallFrame
<1> DEFINE i == results[1].index
<1>1. /\ results \in Seq(ResultRecords) /\ results # <<>>
      /\ results' = Tail(results) /\ Head(results) = results[1]
  BY DEF Receive, TypeInv, TypeOK
<1>2. /\ Len(results) \in Nat \ {0} /\ Len(results') = Len(results) - 1
      /\ DOMAIN results = 1 .. Len(results) /\ DOMAIN results' = 1 .. Len(results')
      /\ \A k \in 1 .. Len(results') : results'[k] = results[k + 1]
  BY <1>1, HeadTailProperties, LenProperties, EmptySeq
<1>3. i \in Sent /\ i \in Items /\ results[1].value = i
  <2>1. 1 \in DOMAIN results /\ results[1] \in ResultRecords
    BY <1>1, <1>2, ElementOfSeq
  <2> QED
    BY <2>1 DEF Sent, ResultRecords, PlaceInv, OwnValues
<1>4. out' = [out EXCEPT ![i] = i] /\ out \in [Items -> 0 .. call.n] /\ i # 0
  <2>1. out' = [out EXCEPT ![SlotOf(Head(results))] = Head(results).value]
    BY DEF Receive
  <2>2. SlotOf(Head(results)) = i /\ Head(results).value = i
    BY <1>1, <1>3 DEF SlotOf
  <2>3. i # 0
    <3>1. call.n \in Nat
      BY CallsAssumption DEF TypeInv, TypeOK
    <3> QED
      BY <1>3, <3>1 DEF Items
  <2>4. out \in [Items -> 0 .. call.n]
    BY DEF TypeInv, TypeOK
  <2> QED
    BY <2>1, <2>2, <2>3, <2>4
<1>5. \A k \in DOMAIN results : k # 1 => results[k].index # i
  BY <1>2 DEF PlaceInv, ExactlyOnePlace
<1>6. Sent' = Sent \ {i}
  <2>1. ASSUME NEW k \in DOMAIN results' PROVE results'[k].index \in Sent \ {i}
    <3>1. k + 1 \in DOMAIN results /\ k + 1 # 1 /\ results'[k] = results[k + 1]
      BY <1>2
    <3> QED
      BY <1>5, <3>1 DEF Sent
  <2>2. ASSUME NEW k \in DOMAIN results, results[k].index # i
        PROVE  results[k].index \in Sent'
    <3>1. k - 1 \in DOMAIN results' /\ results'[k - 1] = results[(k - 1) + 1]
      BY <1>2, <2>2
    <3>2. (k - 1) + 1 = k
      BY <1>2
    <3> QED
      BY <3>1, <3>2 DEF Sent
  <2> QED
    BY <2>1, <2>2 DEF Sent
<1>7. Collected' = Collected \cup {i}
  BY <1>3, <1>4, <1>c DEF Collected
<1>8. Held' = Held
  BY <1>c DEF Receive, Held, HeldBy
<1>9. i \notin Held /\ i \notin Collected
  BY <1>3 DEF PlaceInv, ExactlyOnePlace
<1>10. ExactlyOnePlace'
  <2>1. (Held \cup Sent \cup Collected = 1 .. next - 1)'
    BY <1>3, <1>6, <1>7, <1>8 DEF PlaceInv, ExactlyOnePlace, Receive
  <2>2. (Held \cap Sent = {} /\ Held \cap Collected = {} /\ Sent \cap Collected = {})'
    BY <1>6, <1>7, <1>8, <1>9 DEF PlaceInv, ExactlyOnePlace
  <2>3. (\A u, v \in Workers :
           HeldBy(u) /\ HeldBy(v) /\ worker[u].job = worker[v].job => u = v)'
    BY <1>c DEF PlaceInv, ExactlyOnePlace, HeldBy, Receive
  <2>4. (\A j, k \in DOMAIN results : results[j].index = results[k].index => j = k)'
    BY <1>2 DEF PlaceInv, ExactlyOnePlace
  <2> QED
    BY <2>1, <2>2, <2>3, <2>4 DEF ExactlyOnePlace
<1>11. Counted'
  <2>1. IsFiniteSet(Items)
    BY CallsAssumption, FS_Interval DEF Items, TypeInv, TypeOK
  <2>2. IsFiniteSet(Collected)
    BY <2>1, FS_Subset DEF Collected
  <2>3. Cardinality(Collected') = Cardinality(Collected) + 1
    BY <1>7, <1>9, <2>2, FS_AddElement
  <2> QED
    BY <2>3 DEF Counted, PlaceInv, Receive
<1>12. ResultInOwnSlot'
  BY <1>4, <1>c DEF ResultInOwnSlot, PlaceInv
<1>13. OwnValues'
  BY <1>2 DEF OwnValues, PlaceInv
<1> QED
  BY <1>10, <1>11, <1>12, <1>13 DEF PlaceInv

LEMMA NextPlaceInv == TypeInv /\ PlaceInv /\ [Next]_vars => PlaceInv'
<1> SUFFICES ASSUME TypeInv, PlaceInv, [Next]_vars PROVE PlaceInv'
  OBVIOUS
<1>c. call' = call
  BY CallIsConstant
<1>t. worker \in [Workers -> WorkerStates]
  BY DEF TypeInv, TypeOK
<1>1. CASE CancelParent
  BY <1>1, PlaceFrame DEF CancelParent
<1>2. CASE PropagateCancel
  BY <1>2, PlaceFrame DEF PropagateCancel
<1>3. ASSUME NEW w \in Workers, Dispatch(w) PROVE PlaceInv'
  BY <1>3, <1>c, DispatchPlaceInv
<1>4. CASE CloseJobs
  BY <1>4, PlaceFrame DEF CloseJobs
<1>5. ASSUME NEW w \in Workers, NEW e \in FnErrors, FnReturn(w, e) PROVE PlaceInv'
  <2>1. \A v \in Workers : /\ (worker'[v].pc \in Busy) <=> (worker[v].pc \in Busy)
                           /\ worker'[v].job = worker[v].job
    BY <1>5, <1>t DEF FnReturn, Busy, WorkerStates
  <2> QED
    BY <1>5, <2>1, PlaceWorkerFrame DEF FnReturn
<1>6. ASSUME NEW w \in Workers, CancelOnError(w) PROVE PlaceInv'
  <2>1. \A v \in Workers : /\ (worker'[v].pc \in Busy) <=> (worker[v].pc \in Busy)
                           /\ worker'[v].job = worker[v].job
    BY <1>6, <1>t DEF CancelOnError, Busy, WorkerStates
  <2> QED
    BY <1>6, <2>1, PlaceWorkerFrame DEF CancelOnError
<1>7. ASSUME NEW w \in Workers, SendResult(w) PROVE PlaceInv'
  BY <1>7, <1>c, SendPlaceInv
<1>8. ASSUME NEW w \in Workers, ExitWorker(w) PROVE PlaceInv'
  <2>1. \A v \in Workers : /\ (worker'[v].pc \in Busy) <=> (worker[v].pc \in Busy)
                           /\ worker'[v].job = worker[v].job
    BY <1>8, <1>t DEF ExitWorker, Busy, WorkerStates
  <2> QED
    BY <1>8, <2>1, PlaceWorkerFrame DEF ExitWorker
<1>9. CASE CloseResults
  BY <1>9, PlaceFrame DEF CloseResults
<1>10. CASE Receive
  BY <1>10, <1>c, ReceivePlaceInv
<1>11. CASE Return
  BY <1>11, PlaceFrame DEF Return
<1>12. CASE UNCHANGED vars
  BY <1>12, PlaceFrame DEF vars
<1> QED
  BY <1>1, <1>2, <1>3, <1>4, <1>5, <1>6, <1>7, <1>8, <1>9, <1>10, <1>11, <1>12
  DEF Next, Dispatcher, WorkerStep, Caller, Finished, Dispatch, FnReturn,
      CancelOnError, SendResult, ExitWorker

\* Every item handed out is in one place and one place only: no item is mapped
\* twice and no result is lost, in any interleaving.
THEOREM PlacedOnce == SafetySpec => []ExactlyOnePlace
<1>1. SafetySpec => [](TypeInv /\ PlaceInv)
  BY InitTypeInv, InitPlaceInv, NextTypeInv, NextPlaceInv, PTL DEF SafetySpec
<1>2. PlaceInv => ExactlyOnePlace
  BY DEF PlaceInv
<1> QED
  BY <1>1, <1>2, PTL

\* Slot i of out is empty or holds the result of item i.
THEOREM OrderRestored == SafetySpec => []ResultInOwnSlot
<1>1. SafetySpec => [](TypeInv /\ PlaceInv)
  BY InitTypeInv, InitPlaceInv, NextTypeInv, NextPlaceInv, PTL DEF SafetySpec
<1>2. PlaceInv => ResultInOwnSlot
  BY DEF PlaceInv
<1> QED
  BY <1>1, <1>2, PTL

-----------------------------------------------------------------------------
(***************************************************************************)
(* Shutdown: who ends before whom, and where an error may be.              *)
(***************************************************************************)
ClosedInOrder ==
  /\ jobsClosed => DispatcherMayEnd
  /\ \A w \in Workers : worker[w].pc = "exit" => jobsClosed
  /\ resultsClosed => Waited
  /\ ret.done => resultsClosed /\ results = <<>>

\* An error of fn is with a worker, in the channel, or in firstErr ...
ErrorHeld(i) == \E w \in Workers :
                  HeldBy(w) /\ worker[w].job = i /\ worker[w].err # "nil"
ErrorSent(i) == \E k \in DOMAIN results :
                  results[k].index = i /\ results[k].err # "nil"

\* ... and comes from an fn that failed.
ErrorsTracked ==
  /\ \A i \in failed : ErrorHeld(i) \/ ErrorSent(i) \/ firstErr # "nil"
  /\ failed = {} => /\ \A w \in Workers : worker[w].err = "nil" /\ worker[w].pc # "cancel"
                    /\ \A k \in DOMAIN results : results[k].err = "nil"
                    /\ firstErr = "nil"
  /\ \A w \in Workers : worker[w].pc = "fn" => worker[w].err = "nil"
  /\ ~ HasDerived => failed = {}

\* The pool's context ends for a reason.
CancelledForReason == CtxDone /\ ~ ret.done => parentCancelled \/ failed # {}

ReturnedRight == CompleteUnlessInterrupted /\ FailureReported

EndInv == ClosedInOrder /\ ErrorsTracked /\ CancelledForReason /\ ReturnedRight

LEMMA InitEndInv == Init => EndInv
<1> SUFFICES ASSUME NEW c \in Calls, InitOf(c) PROVE EndInv
  BY DEF Init
<1>1. ClosedInOrder
  BY DEF InitOf, ClosedInOrder, Idle, NoReturn
<1>2. ErrorsTracked
  BY DEF InitOf, ErrorsTracked, Idle
<1>3. CancelledForReason
  BY DEF InitOf, CancelledForReason, CtxDone
<1>4. ReturnedRight
  BY DEF InitOf, ReturnedRight, CompleteUnlessInterrupted, FailureReported, NoReturn
<1> QED
  BY <1>1, <1>2, <1>3, <1>4 DEF EndInv

\* Some worker has to exit before results is closed, and it exits after
\* close(jobs): a closed channel results means that no goroutine runs.
LEMMA ClosedMeansOver ==
  ASSUME TypeInv, ClosedInOrder, resultsClosed
  PROVE  jobsClosed /\ \A w \in Workers : worker[w].pc = "exit"
<1>1. \A w \in Workers : worker[w].pc = "exit"
  BY DEF ClosedInOrder, Waited
<1>2. 1 \in Workers
  BY WorkerCountPositive DEF TypeInv, TypeOK, Workers
<1> QED
  BY <1>1, <1>2 DEF ClosedInOrder

\* No step revokes a cancellation, or lets the dispatcher go on.
LEMMA MayEndIsStable ==
  ASSUME TypeInv, [Next]_vars
  PROVE  /\ parentCancelled => parentCancelled'
         /\ CtxDone => CtxDone'
         /\ DispatcherMayEnd => DispatcherMayEnd'
<1>1. call' = call /\ HasDerived' = HasDerived
  BY CallIsConstant, CallFrame
<1>2. \/ UNCHANGED <<parentCancelled, derivedCancelled>>
      \/ parentCancelled' = TRUE /\ UNCHANGED derivedCancelled
      \/ derivedCancelled' = TRUE /\ UNCHANGED parentCancelled
      \/ Return
  BY DEF Next, vars, CancelParent, PropagateCancel, Dispatcher, Dispatch, CloseJobs,
         WorkerStep, FnReturn, CancelOnError, SendResult, ExitWorker, CloseResults,
         Caller, Receive, Finished
<1>6. (parentCancelled => parentCancelled') /\ (derivedCancelled => derivedCancelled')
  <2>1. Return => /\ parentCancelled' = parentCancelled
                  /\ derivedCancelled' = (derivedCancelled \/ HasDerived)
    BY DEF Return
  <2> QED
    BY <1>2, <2>1 DEF TypeInv, TypeOK
<1>3. next' = next \/ next' = next + 1
  BY DEF Next, vars, CancelParent, PropagateCancel, Dispatcher, Dispatch, CloseJobs,
         WorkerStep, FnReturn, CancelOnError, SendResult, ExitWorker, CloseResults,
         Caller, Receive, Return, Finished
<1>4. CtxDone => CtxDone'
  BY <1>1, <1>6 DEF CtxDone
<1>5. next > call.n => next' > call'.n
  <2>1. next \in Int /\ call.n \in Nat
    BY CallsAssumption DEF TypeInv, TypeOK
  <2> QED
    BY <1>1, <1>3, <2>1
<1> QED
  BY <1>4, <1>5, <1>6 DEF DispatcherMayEnd

LEMMA NextClosedInOrder == TypeInv /\ ClosedInOrder /\ [Next]_vars => ClosedInOrder'
<1> SUFFICES ASSUME TypeInv, ClosedInOrder, [Next]_vars PROVE ClosedInOrder'
  OBVIOUS
<1>c. call' = call /\ Workers' = Workers
  BY CallIsConstant, CallFrame
<1>t. worker \in [Workers -> WorkerStates]
  BY DEF TypeInv, TypeOK
<1>m. DispatcherMayEnd => DispatcherMayEnd'
  BY MayEndIsStable
<1>x. resultsClosed => \A w \in Workers : worker[w].pc = "exit"
  BY ClosedMeansOver
<1>1. CASE CancelParent
  BY <1>1, <1>c, <1>m DEF CancelParent, ClosedInOrder, Waited
<1>2. CASE PropagateCancel
  BY <1>2, <1>c, <1>m DEF PropagateCancel, ClosedInOrder, Waited
<1>3. ASSUME NEW w \in Workers, Dispatch(w) PROVE ClosedInOrder'
  <2>1. ~ resultsClosed
    BY <1>3, <1>x DEF Dispatch
  <2> QED
    BY <1>3, <1>c, <1>t, <1>m, <2>1 DEF Dispatch, ClosedInOrder
<1>4. CASE CloseJobs
  BY <1>4, <1>c, <1>m DEF CloseJobs, ClosedInOrder, Waited
<1>5. ASSUME NEW w \in Workers, NEW e \in FnErrors, FnReturn(w, e) PROVE ClosedInOrder'
  <2>1. ~ resultsClosed
    BY <1>5, <1>x DEF FnReturn
  <2>2. \A v \in Workers : worker'[v].pc = "exit" => worker[v].pc = "exit"
    BY <1>5, <1>t DEF FnReturn, WorkerStates
  <2> QED
    BY <1>5, <1>c, <1>m, <2>1, <2>2 DEF FnReturn, ClosedInOrder
<1>6. ASSUME NEW w \in Workers, CancelOnError(w) PROVE ClosedInOrder'
  <2>1. ~ resultsClosed
    BY <1>6, <1>x DEF CancelOnError
  <2>2. \A v \in Workers : worker'[v].pc = "exit" => worker[v].pc = "exit"
    BY <1>6, <1>t DEF CancelOnError, WorkerStates
  <2> QED
    BY <1>6, <1>c, <1>m, <2>1, <2>2 DEF CancelOnError, ClosedInOrder
<1>7. ASSUME NEW w \in Workers, SendResult(w) PROVE ClosedInOrder'
  <2>1. ~ resultsClosed
    BY <1>7, <1>x DEF SendResult
  <2>2. \A v \in Workers : worker'[v].pc = "exit" => worker[v].pc = "exit"
    BY <1>7, <1>t DEF SendResult, Idle
  <2> QED
    BY <1>7, <1>c, <1>m, <2>1, <2>2 DEF SendResult, ClosedInOrder
<1>8. ASSUME NEW w \in Workers, ExitWorker(w) PROVE ClosedInOrder'
  <2>1. ~ resultsClosed
    BY <1>8, <1>x DEF ExitWorker
  <2> QED
    BY <1>8, <1>c, <1>m, <2>1 DEF ExitWorker, ClosedInOrder
<1>9. CASE CloseResults
  BY <1>9, <1>c, <1>m DEF CloseResults, ClosedInOrder, Waited
<1>10. CASE Receive
  BY <1>10, <1>c, <1>m DEF Receive, ClosedInOrder, Waited
<1>11. CASE Return
  BY <1>11, <1>c, <1>m DEF Return, ClosedInOrder, Waited
<1>12. CASE UNCHANGED vars
  BY <1>12, <1>c, <1>m DEF vars, ClosedInOrder, Waited
<1> QED
  BY <1>1, <1>2, <1>3, <1>4, <1>5, <1>6, <1>7, <1>8, <1>9, <1>10, <1>11, <1>12
  DEF Next, Dispatcher, WorkerStep, Caller, Finished, Dispatch, FnReturn,
      CancelOnError, SendResult, ExitWorker

\* ErrorsTracked reads the workers, the channel, firstErr and failed.
LEMMA ErrorsFrame ==
  ASSUME ErrorsTracked, call' = call, worker' = worker, results' = results,
         firstErr' = firstErr, failed' = failed
  PROVE  ErrorsTracked'
<1>1. Workers' = Workers /\ HasDerived' = HasDerived
  BY CallFrame
<1> QED
  BY <1>1 DEF ErrorsTracked, ErrorHeld, HeldBy, ErrorSent

LEMMA NextErrorsTracked == TypeInv /\ ErrorsTracked /\ [Next]_vars => ErrorsTracked'
<1> SUFFICES ASSUME TypeInv, ErrorsTracked, [Next]_vars PROVE ErrorsTracked'
  OBVIOUS
<1>c. call' = call /\ Workers' = Workers /\ HasDerived' = HasDerived
  BY CallIsConstant, CallFrame
<1>t. worker \in [Workers -> WorkerStates]
  BY DEF TypeInv, TypeOK
<1>1. CASE CancelParent
  BY <1>1, ErrorsFrame DEF CancelParent
<1>2. CASE PropagateCancel
  BY <1>2, ErrorsFrame DEF PropagateCancel
<1>3. ASSUME NEW w \in Workers, Dispatch(w) PROVE ErrorsTracked'
  <2>1. /\ ~ HeldBy(w) /\ worker'[w] = [pc |-> "fn", job |-> next, err |-> "nil"]
        /\ \A v \in Workers \ {w} : worker'[v] = worker[v]
    BY <1>3, <1>t DEF Dispatch, HeldBy, Busy
  <2>2. \A i \in failed : ErrorHeld(i) => ErrorHeld(i)'
    BY <1>c, <2>1 DEF ErrorHeld, HeldBy
  <2>3. \A i \in failed : ErrorSent(i) => ErrorSent(i)'
    BY <1>3 DEF ErrorSent, Dispatch
  <2>4. \A v \in Workers : worker[v].err = "nil" /\ worker[v].pc # "cancel" =>
                           worker'[v].err = "nil" /\ worker'[v].pc # "cancel"
    BY <2>1
  <2>5. \A v \in Workers : worker'[v].pc = "fn" => worker'[v].err = "nil"
    BY <2>1 DEF ErrorsTracked
  <2> QED
    BY <1>3, <1>c, <2>2, <2>3, <2>4, <2>5 DEF ErrorsTracked, Dispatch
<1>4. CASE CloseJobs
  BY <1>4, ErrorsFrame DEF CloseJobs
<1>5. ASSUME NEW w \in Workers, NEW e \in FnErrors, FnReturn(w, e) PROVE ErrorsTracked'
  <2>1. /\ worker'[w].pc = (IF e = "nil" THEN "send" ELSE "cancel")
        /\ worker'[w].err = e /\ worker'[w].job = worker[w].job
        /\ \A v \in Workers \ {w} : worker'[v] = worker[v]
        /\ worker[w].pc = "fn" /\ worker[w].err = "nil"
    BY <1>5, <1>t DEF FnReturn, WorkerStates, ErrorsTracked
  <2>2. \A i \in failed : ErrorHeld(i) => ErrorHeld(i)'
    BY <1>c, <2>1 DEF ErrorHeld, HeldBy
  <2>3. \A i \in failed : ErrorSent(i) => ErrorSent(i)'
    BY <1>5 DEF ErrorSent, FnReturn
  <2>4. \A i \in failed' : i = worker[w].job /\ e # "nil" => ErrorHeld(i)'
    BY <1>c, <2>1 DEF ErrorHeld, HeldBy, Busy
  <2>5. ~ HasDerived => e = "nil"
    BY DEF FnErrors
  <2>6. failed' = IF e = "nil" THEN failed ELSE failed \cup {worker[w].job}
    BY <1>5 DEF FnReturn
  <2>7. \A v \in Workers : worker'[v].pc = "fn" => worker'[v].err = "nil"
    BY <2>1 DEF ErrorsTracked
  <2>8. e = "nil" => \A v \in Workers :
          worker[v].err = "nil" /\ worker[v].pc # "cancel" =>
          worker'[v].err = "nil" /\ worker'[v].pc # "cancel"
    BY <2>1
  <2>9. \A i \in failed' : ErrorHeld(i)' \/ ErrorSent(i)' \/ firstErr' # "nil"
    <3>1. firstErr' = firstErr
      BY <1>5 DEF FnReturn
    <3>2. ASSUME NEW i \in failed
          PROVE  ErrorHeld(i)' \/ ErrorSent(i)' \/ firstErr' # "nil"
      BY <2>2, <2>3, <3>1 DEF ErrorsTracked
    <3>3. ASSUME NEW i \in failed', i \notin failed
          PROVE  ErrorHeld(i)' \/ ErrorSent(i)' \/ firstErr' # "nil"
      <4>1. e # "nil" /\ i = worker[w].job
        BY <2>6, <3>3
      <4> QED
        BY <2>4, <3>3, <4>1
    <3> QED
      BY <3>2, <3>3
  <2> QED
    BY <1>5, <1>c, <2>5, <2>6, <2>7, <2>8, <2>9 DEF ErrorsTracked, FnReturn
<1>6. ASSUME NEW w \in Workers, CancelOnError(w) PROVE ErrorsTracked'
  <2>1. /\ worker'[w].pc = "send" /\ worker'[w].err = worker[w].err
        /\ worker'[w].job = worker[w].job /\ worker[w].pc = "cancel"
        /\ \A v \in Workers \ {w} : worker'[v] = worker[v]
    BY <1>6, <1>t DEF CancelOnError, WorkerStates
  <2>2. \A i \in failed : ErrorHeld(i) => ErrorHeld(i)'
    BY <1>c, <2>1 DEF ErrorHeld, HeldBy, Busy
  <2>3. \A i \in failed : ErrorSent(i) => ErrorSent(i)'
    BY <1>6 DEF ErrorSent, CancelOnError
  <2>4. failed # {}
    BY <2>1 DEF ErrorsTracked
  <2>5. \A v \in Workers : worker'[v].pc = "fn" => worker'[v].err = "nil"
    BY <2>1 DEF ErrorsTracked
  <2> QED
    BY <1>6, <1>c, <2>2, <2>3, <2>4, <2>5 DEF ErrorsTracked, CancelOnError
<1>7. ASSUME NEW w \in Workers, SendResult(w) PROVE ErrorsTracked'
  <2>1. worker'[w] = Idle /\ \A v \in Workers \ {w} : worker'[v] = worker[v]
    BY <1>7, <1>t DEF SendResult
  <2>2. /\ results \in Seq(ResultRecords)
        /\ results' = Append(results, ResultOf(w))
        /\ ResultOf(w) \in ResultRecords
    BY <1>7 DEF SendResult, AfterSend, TypeInv, TypeOK, ResultOf, ResultRecords,
                JobsInRange, WorkerStates, HeldBy, Busy
  <2>3. /\ Len(results) \in Nat /\ DOMAIN results = 1 .. Len(results)
        /\ DOMAIN results' = 1 .. Len(results) + 1
        /\ \A k \in 1 .. Len(results) : results'[k] = results[k]
        /\ results'[Len(results) + 1] = ResultOf(w)
    BY <2>2, AppendProperties, LenProperties
  <2>4. \A i \in failed : ErrorSent(i) => ErrorSent(i)'
    BY <2>3 DEF ErrorSent
  <2>5. \A i \in failed : ErrorHeld(i) => ErrorHeld(i)' \/ ErrorSent(i)'
    <3> SUFFICES ASSUME NEW i \in failed, NEW v \in Workers, HeldBy(v),
                        worker[v].job = i, worker[v].err # "nil"
                 PROVE  ErrorHeld(i)' \/ ErrorSent(i)'
      BY DEF ErrorHeld
    <3>1. CASE v = w
      <4>1. ResultOf(w).index = i /\ ResultOf(w).err # "nil"
        BY <3>1 DEF ResultOf
      <4>2. Len(results) + 1 \in DOMAIN results'
        BY <2>3
      <4> QED
        BY <2>3, <4>1, <4>2 DEF ErrorSent
    <3>2. CASE v # w
      BY <1>c, <2>1, <3>2 DEF ErrorHeld, HeldBy
    <3> QED
      BY <3>1, <3>2
  <2>6. \A v \in Workers : worker'[v].pc = "fn" => worker'[v].err = "nil"
    BY <2>1 DEF ErrorsTracked, Idle
  <2>7. failed = {} => /\ \A v \in Workers : worker'[v].err = "nil"
                                             /\ worker'[v].pc # "cancel"
                       /\ \A k \in DOMAIN results' : results'[k].err = "nil"
    BY <2>1, <2>3 DEF ErrorsTracked, Idle, ResultOf
  <2> QED
    BY <1>7, <1>c, <2>4, <2>5, <2>6, <2>7 DEF ErrorsTracked, SendResult
<1>8. ASSUME NEW w \in Workers, ExitWorker(w) PROVE ErrorsTracked'
  <2>1. /\ worker'[w].pc = "exit" /\ worker'[w].err = worker[w].err
        /\ worker[w].pc = "range"
        /\ \A v \in Workers \ {w} : worker'[v] = worker[v]
    BY <1>8, <1>t DEF ExitWorker, WorkerStates
  <2>2. \A i \in failed : ErrorHeld(i) => ErrorHeld(i)'
    BY <1>c, <2>1 DEF ErrorHeld, HeldBy, Busy
  <2>3. \A i \in failed : ErrorSent(i) => ErrorSent(i)'
    BY <1>8 DEF ErrorSent, ExitWorker
  <2>4. \A v \in Workers : /\ worker'[v].err = worker[v].err
                           /\ worker'[v].pc = "fn" => worker[v].pc = "fn"
                           /\ worker'[v].pc = "cancel" => worker[v].pc = "cancel"
    BY <2>1
  <2> QED
    BY <1>8, <1>c, <2>2, <2>3, <2>4 DEF ErrorsTracked, ExitWorker
<1>9. CASE CloseResults
  BY <1>9, ErrorsFrame DEF CloseResults
<1>10. CASE Receive
  <2>1. /\ results \in Seq(ResultRecords) /\ results # <<>>
        /\ results' = Tail(results) /\ Head(results) = results[1]
    BY <1>10 DEF Receive, TypeInv, TypeOK
  <2>2. /\ Len(results) \in Nat \ {0} /\ Len(results') = Len(results) - 1
        /\ DOMAIN results = 1 .. Len(results) /\ DOMAIN results' = 1 .. Len(results')
        /\ \A k \in 1 .. Len(results') : results'[k] = results[k + 1]
    BY <2>1, HeadTailProperties, LenProperties, EmptySeq
  <2>3. firstErr' = IF firstErr = "nil" THEN results[1].err ELSE firstErr
    BY <1>10, <2>1 DEF Receive
  <2>4. \A i \in failed : ErrorHeld(i) => ErrorHeld(i)'
    BY <1>10, <1>c DEF ErrorHeld, HeldBy, Receive
  <2>5. \A i \in failed : ErrorSent(i) => ErrorSent(i)' \/ firstErr' # "nil"
    <3> SUFFICES ASSUME NEW i \in failed, NEW k \in DOMAIN results,
                        results[k].index = i, results[k].err # "nil"
                 PROVE  ErrorSent(i)' \/ firstErr' # "nil"
      BY DEF ErrorSent
    <3>1. CASE k = 1
      BY <2>3, <3>1
    <3>2. CASE k # 1
      <4>1. k - 1 \in DOMAIN results' /\ results'[k - 1] = results[k]
        <5>1. k - 1 \in 1 .. Len(results') /\ (k - 1) + 1 = k
          BY <2>2, <3>2
        <5> QED
          BY <2>2, <5>1
      <4> QED
        BY <4>1 DEF ErrorSent
    <3> QED
      BY <3>1, <3>2
  <2>6. failed = {} => /\ \A k \in DOMAIN results' : results'[k].err = "nil"
                       /\ firstErr' = "nil"
    <3>1. \A k \in DOMAIN results' : k + 1 \in DOMAIN results
      BY <2>2
    <3>2. 1 \in DOMAIN results
      BY <2>2
    <3> QED
      BY <2>2, <2>3, <3>1, <3>2 DEF ErrorsTracked
  <2>7. \A i \in failed : firstErr # "nil" => firstErr' # "nil"
    BY <2>3
  <2> QED
    BY <1>10, <1>c, <2>4, <2>5, <2>6, <2>7 DEF ErrorsTracked, Receive
<1>11. CASE Return
  BY <1>11, ErrorsFrame DEF Return
<1>12. CASE UNCHANGED vars
  BY <1>12, ErrorsFrame DEF vars
<1> QED
  BY <1>1, <1>2, <1>3, <1>4, <1>5, <1>6, <1>7, <1>8, <1>9, <1>10, <1>11, <1>12
  DEF Next, Dispatcher, WorkerStep, Caller, Finished, Dispatch, FnReturn,
      CancelOnError, SendResult, ExitWorker

LEMMA NextCancelledForReason ==
  TypeInv /\ ErrorsTracked /\ CancelledForReason /\ [Next]_vars => CancelledForReason'
<1> SUFFICES ASSUME TypeInv, ErrorsTracked, CancelledForReason, [Next]_vars,
                    CtxDone', ~ ret'.done
             PROVE  parentCancelled' \/ failed' # {}
  BY DEF CancelledForReason
<1>c. call' = call /\ HasDerived' = HasDerived
  BY CallIsConstant, CallFrame
<1>1. CASE CancelParent
  BY <1>1 DEF CancelParent
<1>2. CASE PropagateCancel
  BY <1>2 DEF PropagateCancel
<1>3. ASSUME NEW w \in Workers, CancelOnError(w) PROVE failed' # {}
  BY <1>3 DEF CancelOnError, ErrorsTracked
<1>4. CASE Return
  BY <1>4 DEF Return, MapOrderedReturn, MapSettledOrderedReturn,
              MapSettledOrderedUntilErrorReturn, Returned
<1>5. CASE /\ UNCHANGED <<parentCancelled, derivedCancelled, ret>>
           /\ failed \subseteq failed'
  BY <1>5, <1>c DEF CancelledForReason, CtxDone
<1>6. \/ CancelParent \/ PropagateCancel \/ (\E w \in Workers : CancelOnError(w))
      \/ Return
      \/ /\ UNCHANGED <<parentCancelled, derivedCancelled, ret>>
         /\ failed \subseteq failed'
  BY DEF Next, vars, Dispatcher, Dispatch, CloseJobs, WorkerStep, FnReturn, SendResult,
         ExitWorker, CloseResults, Caller, Receive, Finished
<1> QED
  BY <1>1, <1>2, <1>3, <1>4, <1>5, <1>6

\* What holds when the caller has drained a closed channel.
LEMMA DrainedFacts ==
  ASSUME TypeInv, PlaceInv, ClosedInOrder, ErrorsTracked, resultsClosed, results = <<>>
  PROVE  /\ Collected = 1 .. next - 1
         /\ CtxDone \/ Collected = Items
         /\ received = call.n => Collected = Items
         /\ failed # {} => HasDerived /\ firstErr # "nil"
<1>1. jobsClosed /\ \A w \in Workers : worker[w].pc = "exit"
  BY ClosedMeansOver
<1>2. Held = {} /\ Sent = {}
  BY <1>1 DEF Held, HeldBy, Busy, Sent
<1>3. Collected = 1 .. next - 1
  BY <1>2 DEF PlaceInv, ExactlyOnePlace
<1>4. call.n \in Nat /\ next \in 1 .. call.n + 1
  BY CallsAssumption DEF TypeInv, TypeOK
<1>5. next > call.n => Collected = Items
  BY <1>3, <1>4 DEF Items
<1>6. CtxDone \/ Collected = Items
  BY <1>1, <1>5 DEF ClosedInOrder, DispatcherMayEnd
<1>7. received = call.n => Collected = Items
  <2>1. IsFiniteSet(Items) /\ Cardinality(Items) = call.n
    BY <1>4, CountTo DEF Items
  <2>2. Collected \subseteq Items
    BY DEF Collected
  <2>3. received = Cardinality(Collected)
    BY DEF PlaceInv, Counted
  <2> QED
    BY <2>1, <2>2, <2>3, FS_Subset
<1>8. failed # {} => HasDerived /\ firstErr # "nil"
  <2>1. \A i \in failed : ~ ErrorHeld(i) /\ ~ ErrorSent(i)
    BY <1>1 DEF ErrorHeld, HeldBy, Busy, ErrorSent
  <2> QED
    BY <2>1 DEF ErrorsTracked
<1> QED
  BY <1>3, <1>6, <1>7, <1>8

\* The three ways in which a call returns.
LEMMA ReturnCases ==
  ASSUME TypeInv, PlaceInv, ClosedInOrder, ErrorsTracked, Return
  PROVE  /\ ret'.done = TRUE
         /\ ret'.err = "nil" =>
              \/ ret'.slice = out /\ Collected = Items
              \/ call.op = "MapSettledOrdered" /\ parentCancelled
         /\ failed # {} => ret'.err # "nil"
         /\ ret'.err = "fn" => firstErr # "nil"
         /\ ret'.err = "ctx" => firstErr # "nil" \/ CtxDone
<1>1. /\ CtxDone \/ Collected = Items
      /\ received = call.n => Collected = Items
      /\ failed # {} => HasDerived /\ firstErr # "nil"
  BY DrainedFacts DEF Return
<1>2. call.op \in Ops
  BY CallsAssumption DEF TypeInv, TypeOK
<1>3. CASE call.op = "MapOrdered"
  <2>1. ret' = MapOrderedReturn
    BY <1>3 DEF Return
  <2> QED
    BY <1>1, <1>3, <2>1 DEF MapOrderedReturn, Returned, CtxErr
<1>4. CASE call.op = "MapSettledOrdered"
  <2>1. ret' = MapSettledOrderedReturn
    BY <1>4 DEF Return
  <2>2. ~ HasDerived /\ CtxDone = parentCancelled
    BY <1>4 DEF HasDerived, CtxDone
  <2> QED
    BY <1>1, <1>4, <2>1, <2>2 DEF MapSettledOrderedReturn, Returned
<1>5. CASE call.op = "MapSettledOrderedUntilError"
  <2>1. ret' = MapSettledOrderedUntilErrorReturn
    BY <1>5 DEF Return
  <2> QED
    BY <1>1, <1>5, <2>1 DEF MapSettledOrderedUntilErrorReturn, Returned, CtxErr
<1> QED
  BY <1>2, <1>3, <1>4, <1>5 DEF Ops

\* Nothing that the caller was told changes afterwards.
LEMMA AfterReturn ==
  ASSUME TypeInv, ClosedInOrder, [Next]_vars, ret.done
  PROVE  UNCHANGED <<ret, failed, out>>
<1>1. results = <<>> /\ \A w \in Workers : worker[w].pc = "exit"
  BY ClosedMeansOver DEF ClosedInOrder
<1> QED
  BY <1>1 DEF Next, vars, CancelParent, PropagateCancel, Dispatcher, Dispatch, CloseJobs,
         WorkerStep, FnReturn, CancelOnError, SendResult, ExitWorker, CloseResults,
         Caller, Receive, Return, Finished

LEMMA NextReturnedRight ==
  TypeInv /\ PlaceInv /\ EndInv /\ [Next]_vars => ReturnedRight'
<1> SUFFICES ASSUME TypeInv, PlaceInv, EndInv, [Next]_vars PROVE ReturnedRight'
  OBVIOUS
<1>c. call' = call /\ Items' = Items /\ (parentCancelled => parentCancelled')
  BY CallIsConstant, CallFrame, MayEndIsStable
<1>1. CASE ret.done
  <2>1. UNCHANGED <<ret, failed, out>>
    BY <1>1, AfterReturn DEF EndInv
  <2> QED
    BY <1>1, <1>c, <2>1 DEF EndInv, ReturnedRight, CompleteUnlessInterrupted,
                            FailureReported
<1>2. CASE Return
  <2>1. /\ ret'.done = TRUE
        /\ ret'.err = "nil" =>
             \/ ret'.slice = out /\ Collected = Items
             \/ call.op = "MapSettledOrdered" /\ parentCancelled
        /\ failed # {} => ret'.err # "nil"
    BY <1>2, ReturnCases DEF EndInv
  <2>2. Collected = Items => \A i \in Items : out[i] = i
    BY DEF Collected, PlaceInv, ResultInOwnSlot
  <2>3. failed' = failed
    BY <1>2 DEF Return
  <2>4. CompleteUnlessInterrupted'
    BY <1>c, <2>1, <2>2 DEF CompleteUnlessInterrupted
  <2> QED
    BY <2>1, <2>3, <2>4 DEF ReturnedRight, FailureReported
<1>3. CASE ~ ret.done /\ ret' = ret
  BY <1>3 DEF ReturnedRight, CompleteUnlessInterrupted, FailureReported
<1>4. ret' = ret \/ Return
  BY DEF Next, vars, CancelParent, PropagateCancel, Dispatcher, Dispatch, CloseJobs,
         WorkerStep, FnReturn, CancelOnError, SendResult, ExitWorker, CloseResults,
         Caller, Receive, Finished
<1> QED
  BY <1>1, <1>2, <1>3, <1>4

-----------------------------------------------------------------------------
(***************************************************************************)
(* The inductive invariant, and what follows from it.                      *)
(***************************************************************************)
IInv == TypeInv /\ PlaceInv /\ EndInv

LEMMA Invariance == SafetySpec => []IInv
<1>1. Init => IInv
  BY InitTypeInv, InitPlaceInv, InitEndInv DEF IInv
<1>2. IInv /\ [Next]_vars => IInv'
  BY NextTypeInv, NextPlaceInv, NextClosedInOrder, NextErrorsTracked,
     NextCancelledForReason, NextReturnedRight DEF IInv, EndInv
<1> QED
  BY <1>1, <1>2, PTL DEF SafetySpec

\* A call that returns without an error has mapped every item; only
\* MapSettledOrdered may leave slots empty, after a cancellation.
THEOREM Complete == SafetySpec => []CompleteUnlessInterrupted
<1>1. IInv => CompleteUnlessInterrupted
  BY DEF IInv, EndInv, ReturnedRight
<1> QED
  BY <1>1, Invariance, PTL

\* An error of fn always reaches the caller as an error.
THEOREM FailureReachesCaller == SafetySpec => []FailureReported
<1>1. IInv => FailureReported
  BY DEF IInv, EndInv, ReturnedRight
<1> QED
  BY <1>1, Invariance, PTL

\* A call leaves no goroutine and no result behind.
THEOREM NoLeak == SafetySpec => []NothingOutlivesCall
<1>1. IInv => NothingOutlivesCall
  <2> SUFFICES ASSUME IInv, ret.done PROVE NothingOutlivesCall
    BY DEF NothingOutlivesCall
  <2>1. resultsClosed /\ results = <<>>
    BY DEF IInv, EndInv, ClosedInOrder
  <2>2. jobsClosed /\ \A w \in Workers : worker[w].pc = "exit"
    BY <2>1, ClosedMeansOver DEF IInv, EndInv
  <2> QED
    BY <2>1, <2>2 DEF NothingOutlivesCall
<1> QED
  BY <1>1, Invariance, PTL

\* The items in the channel are distinct and differ from the one a worker
\* holds: the channel is never full when a worker sends, nor is it closed.
THEOREM SendsNeverBlock == SafetySpec => []SendSucceedsAtOnce
<1>1. IInv => SendSucceedsAtOnce
  <2> SUFFICES ASSUME IInv, NEW w \in Workers, HeldBy(w)
               PROVE  Len(results) < ResultsCapacity /\ ~ resultsClosed
    BY DEF SendSucceedsAtOnce
  <2> DEFINE i == worker[w].job
             Others == Items \ {i}
             index == [k \in 1 .. Len(results) |-> results[k].index]
  <2>1. call.n \in Nat /\ results \in Seq(ResultRecords) /\ i \in Items
    BY CallsAssumption DEF IInv, TypeInv, TypeOK, JobsInRange
  <2>2. Len(results) \in Nat /\ DOMAIN results = 1 .. Len(results)
    BY <2>1, LenProperties
  <2>3. i \in Held /\ i \notin Sent
    BY DEF Held, IInv, PlaceInv, ExactlyOnePlace
  <2>4. index \in [1 .. Len(results) -> Others]
    <3> SUFFICES ASSUME NEW k \in 1 .. Len(results)
                 PROVE  results[k].index \in Others
      OBVIOUS
    <3>1. results[k] \in ResultRecords
      BY <2>1, ElementOfSeq
    <3>2. results[k].index \in Sent
      BY <2>2 DEF Sent
    <3> QED
      BY <2>3, <3>1, <3>2 DEF ResultRecords
  <2>5. \A j, k \in 1 .. Len(results) : index[j] = index[k] => j = k
    BY <2>2 DEF IInv, PlaceInv, ExactlyOnePlace
  <2>6. index \in Injection(1 .. Len(results), Others)
    <3>1. IsInjective(index)
      BY <2>5 DEF IsInjective
    <3> HIDE DEF index, Others
    <3> QED
      BY <2>4, <3>1 DEF Injection
  <2>7. IsFiniteSet(Items) /\ Cardinality(Items) = call.n
    BY <2>1, CountTo DEF Items
  <2>8. IsFiniteSet(Others) /\ Cardinality(Others) = call.n - 1
    <3>1. /\ IsFiniteSet(Items \ {i})
          /\ Cardinality(Items \ {i}) =
               IF i \in Items THEN Cardinality(Items) - 1 ELSE Cardinality(Items)
      BY <2>7, FS_RemoveElement
    <3> QED
      BY <2>1, <2>7, <3>1
  <2>9. Cardinality(1 .. Len(results)) = Len(results)
    BY <2>2, CountTo
  <2>10. Cardinality(1 .. Len(results)) <= Cardinality(Others)
    BY <2>6, <2>8, FS_Injection
  <2>11. ~ resultsClosed
    BY ClosedMeansOver DEF IInv, EndInv, HeldBy, Busy
  <2> QED
    BY <2>1, <2>2, <2>8, <2>9, <2>10, <2>11 DEF ResultsCapacity
<1> QED
  BY <1>1, Invariance, PTL

-----------------------------------------------------------------------------
(***************************************************************************)
(* The refinement: every step of the goroutines is a step of the contract, *)
(* or none.                                                                *)
(***************************************************************************)
LEMMA InitContract == Init => Contract!MapInit
<1> SUFFICES ASSUME NEW c \in Calls, InitOf(c) PROVE Contract!MapInit
  BY DEF Init
<1>1. RunningItems = {}
  BY DEF InitOf, Idle, RunningItems
<1>2. next - 1 = 0
  BY DEF InitOf
<1> QED
  BY <1>1, <1>2 DEF InitOf, Contract!MapInit, Contract!MapItems, Items, NoReturn

\* An item that fn is running on is held by its worker.
LEMMA RunningIsHeld == RunningItems \subseteq Held
BY DEF RunningItems, Held, HeldBy, Busy

\* Which steps change the items fn is running on.
LEMMA RunningFrame ==
  ASSUME call' = call,
         \A v \in Workers : /\ (worker'[v].pc = "fn") <=> (worker[v].pc = "fn")
                            /\ worker[v].pc = "fn" => worker'[v].job = worker[v].job
  PROVE  RunningItems' = RunningItems
<1>1. Workers' = Workers
  BY CallFrame
<1> QED
  BY <1>1 DEF RunningItems

LEMMA StepContract == IInv /\ [Next]_vars => [Contract!MapNext]_(Contract!mapVars)
<1> SUFFICES ASSUME IInv, [Next]_vars
             PROVE  Contract!MapNext \/ UNCHANGED Contract!mapVars
  OBVIOUS
<1> USE DEF Contract!mapVars
<1>i. Contract!MapItems = Items
  BY DEF Contract!MapItems, Items
<1>s. Contract!Silent <=> ~ HasDerived
  BY DEF Contract!Silent, HasDerived
<1>c. call' = call /\ Workers' = Workers
  BY CallIsConstant, CallFrame
<1>t. /\ worker \in [Workers -> WorkerStates]
      /\ call.n \in Nat /\ next \in 1 .. call.n + 1
  BY CallsAssumption DEF IInv, TypeInv, TypeOK
<1>d. resultsClosed \/ ret.done => \A w \in Workers : worker[w].pc = "exit"
  BY ClosedMeansOver DEF IInv, EndInv, ClosedInOrder
<1>1. CASE CancelParent
  <2>1. UNCHANGED <<next, RunningItems>>
    BY <1>1, <1>c, RunningFrame DEF CancelParent
  <2> QED
    BY <1>1, <2>1 DEF CancelParent, Contract!MapNext, Contract!Cancel
<1>2. ASSUME NEW w \in Workers, Dispatch(w)
      PROVE  Contract!MapNext \/ UNCHANGED Contract!mapVars
  <2>1. /\ worker[w].pc = "range" /\ worker'[w].pc = "fn" /\ worker'[w].job = next
        /\ \A v \in Workers \ {w} : worker'[v] = worker[v]
    BY <1>2, <1>t DEF Dispatch
  <2>2. RunningItems' = RunningItems \cup {next}
    BY <1>c, <2>1 DEF RunningItems
  <2>3. next - 1 < call.n /\ next' - 1 = (next - 1) + 1 /\ next = (next - 1) + 1
    BY <1>2, <1>t DEF Dispatch, OnOffer, Items
  <2>4. ~ ret.done
    BY <1>d, <2>1
  <2>5. Contract!Start
    BY <1>2, <2>2, <2>3, <2>4 DEF Dispatch, Contract!Start, Contract!ItemsLeft
  <2> QED
    BY <2>5 DEF Contract!MapNext
<1>3. ASSUME NEW w \in Workers, NEW e \in FnErrors, FnReturn(w, e)
      PROVE  Contract!MapNext \/ UNCHANGED Contract!mapVars
  <2> DEFINE i == worker[w].job
  <2>1. /\ worker[w].pc = "fn" /\ worker'[w].pc # "fn"
        /\ \A v \in Workers \ {w} : worker'[v] = worker[v]
    BY <1>3, <1>t DEF FnReturn, WorkerStates
  <2>2. HeldBy(w) /\ i \in RunningItems /\ i \in Items
    BY <2>1 DEF HeldBy, Busy, RunningItems, IInv, TypeInv, JobsInRange
  <2>3. \A v \in Workers \ {w} : worker[v].pc = "fn" => worker[v].job # i
    BY <2>2 DEF HeldBy, Busy, IInv, PlaceInv, ExactlyOnePlace
  <2>4. RunningItems' = RunningItems \ {i}
    BY <1>c, <2>1, <2>3 DEF RunningItems
  <2>5. ~ ret.done
    BY <1>d, <2>1
  <2>6. e = "ctx" => parentCancelled \/ failed # {}
    BY <2>5 DEF FnErrors, IInv, EndInv, CancelledForReason
  <2>7. Contract!Silent => e = "nil"
    BY <1>s DEF FnErrors
  <2>8. Contract!End(i, e)
    BY <1>3, <2>2, <2>4, <2>5, <2>6, <2>7 DEF FnReturn, Contract!End
  <2>9. e \in {"nil", "fn", "ctx"}
    BY DEF FnErrors
  <2> QED
    BY <1>i, <2>2, <2>8, <2>9 DEF Contract!MapNext
<1>4. CASE Receive
  <2> DEFINE i == results[1].index
  <2>1. /\ results \in Seq(ResultRecords) /\ results # <<>>
        /\ Head(results) = results[1]
    BY <1>4 DEF Receive, IInv, TypeInv, TypeOK
  <2>2. 1 \in 1 .. Len(results) /\ DOMAIN results = 1 .. Len(results)
    BY <2>1, EmptySeq, LenProperties
  <2>3. results[1] \in ResultRecords
    BY <2>1, <2>2, ElementOfSeq
  <2>4. i \in Items /\ results[1].value = i
    BY <2>2, <2>3 DEF ResultRecords, IInv, PlaceInv, OwnValues
  <2>5. i \in Sent
    BY <2>2 DEF Sent
  <2>6. out[i] = 0
    BY <2>4, <2>5 DEF IInv, PlaceInv, ExactlyOnePlace, Collected
  <2>7. i <= next - 1
    BY <1>t, <2>5 DEF IInv, PlaceInv, ExactlyOnePlace
  <2>8. i \notin RunningItems
    BY <2>5, RunningIsHeld DEF IInv, PlaceInv, ExactlyOnePlace
  <2>9. out' = [out EXCEPT ![i] = i]
    <3>1. out' = [out EXCEPT ![SlotOf(Head(results))] = Head(results).value]
      BY <1>4 DEF Receive
    <3>2. SlotOf(Head(results)) = i /\ Head(results).value = i
      BY <2>1, <2>4 DEF SlotOf
    <3> QED
      BY <3>1, <3>2
  <2>10. RunningItems' = RunningItems
    BY <1>4, <1>c, RunningFrame DEF Receive
  <2>11. Contract!Settle(i)
    BY <1>4, <2>6, <2>7, <2>8, <2>9, <2>10 DEF Receive, Contract!Settle
  <2> QED
    BY <1>i, <2>4, <2>11 DEF Contract!MapNext
<1>5. CASE Return
  <2>1. /\ ret'.done = TRUE
        /\ ret'.err = "nil" =>
             \/ ret'.slice = out /\ Collected = Items
             \/ call.op = "MapSettledOrdered" /\ parentCancelled
        /\ failed # {} => ret'.err # "nil"
        /\ ret'.err = "fn" => firstErr # "nil"
        /\ ret'.err = "ctx" => firstErr # "nil" \/ CtxDone
    BY <1>5, ReturnCases DEF IInv, EndInv
  <2>2. firstErr # "nil" => failed # {}
    BY DEF IInv, EndInv, ErrorsTracked
  <2>3. CtxDone => parentCancelled \/ failed # {}
    BY <1>5 DEF Return, IInv, EndInv, CancelledForReason
  <2>4. Collected = 1 .. next - 1
    BY <1>5, DrainedFacts DEF Return, IInv, EndInv
  <2>5. Collected = Items => next - 1 = call.n
    BY <1>t, <2>4 DEF Items
  <2>6. \A i \in 1 .. next - 1 : out[i] = i
    BY <2>4 DEF Collected, IInv, PlaceInv, ResultInOwnSlot
  <2>7. RunningItems = {} /\ RunningItems' = RunningItems
    BY <1>5, <1>c, <1>d, RunningFrame DEF Return, RunningItems
  <2>8. call.op = "MapSettledOrdered" => Contract!Silent
    BY DEF Contract!Silent
  <2>9. UNCHANGED <<call, parentCancelled, next, failed, out>> /\ ~ ret.done
    BY <1>5 DEF Return
  <2>10. Contract!Finish(ret'.err)
    BY <2>1, <2>2, <2>3, <2>5, <2>6, <2>7, <2>8, <2>9 DEF Contract!Finish, Contract!MayFinish
  <2>11. ret'.err \in {"nil", "fn", "ctx"}
    BY NextTypeInv DEF IInv, TypeInv, TypeOK, Errors
  <2> QED
    BY <2>10, <2>11 DEF Contract!MapNext
<1>6. CASE /\ UNCHANGED <<call, parentCancelled, next, failed, out, ret>>
           /\ \A v \in Workers :
                /\ (worker'[v].pc = "fn") <=> (worker[v].pc = "fn")
                /\ worker[v].pc = "fn" => worker'[v].job = worker[v].job
  BY <1>6, RunningFrame
<1>7. CASE PropagateCancel \/ CloseJobs \/ CloseResults \/ UNCHANGED vars
  BY <1>6, <1>7 DEF PropagateCancel, CloseJobs, CloseResults, vars
<1>8. ASSUME NEW w \in Workers, CancelOnError(w) \/ SendResult(w) \/ ExitWorker(w)
      PROVE  Contract!MapNext \/ UNCHANGED Contract!mapVars
  <2>1. UNCHANGED <<call, parentCancelled, next, failed, out, ret>>
    BY <1>8 DEF CancelOnError, SendResult, ExitWorker
  <2>2. worker[w].pc # "fn" /\ worker'[w].pc # "fn"
    BY <1>8, <1>t DEF CancelOnError, SendResult, ExitWorker, Idle, WorkerStates
  <2>3. \A v \in Workers \ {w} : worker'[v] = worker[v]
    BY <1>8, <1>t DEF CancelOnError, SendResult, ExitWorker
  <2> QED
    BY <1>6, <2>1, <2>2, <2>3
<1> QED
  BY <1>1, <1>2, <1>3, <1>4, <1>5, <1>7, <1>8
  DEF Next, Dispatcher, WorkerStep, Caller, Finished, Dispatch, FnReturn,
      CancelOnError, SendResult, ExitWorker

\* The goroutines and channels of concurrency.go keep the contract that the
\* callers of the mapping functions rely on.
THEOREM PoolImplementsContract == SafetySpec => ImplementsContract
<1>1. Init => Contract!MapInit
  BY InitContract
<1>2. IInv /\ [Next]_vars => [Contract!MapNext]_(Contract!mapVars)
  BY StepContract
<1> QED
  BY <1>1, <1>2, Invariance, PTL DEF SafetySpec, ImplementsContract, Contract!MapSpec
=============================================================================
