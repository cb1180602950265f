----------------------------- MODULE OrderedMap -----------------------------
(***************************************************************************)
(* What a caller of the three mapping functions of concurrency.go may rely *)
(* on, with no goroutine and no channel in sight.  A call maps the items   *)
(* 1..n: it starts fn on them in their order and ends in any order; slot i *)
(* of the returned slice is either still the zero value (0) or the result  *)
(* of item i.  WorkerPool implements this module.                          *)
(***************************************************************************)
EXTENDS Naturals

VARIABLES
  call,       \* the call: which function, how many items, how many workers
  cancelled,  \* the context the caller passed has been cancelled
  started,    \* fn was started on the items 1..started
  running,    \* the items fn is running on
  failed,     \* the items whose fn returned an error
  slots,      \* slot i of the slice: 0, or i for "the result of item i"
  done,       \* the call has returned
  err         \* the error it returned: "nil", "fn" or "ctx"

mapVars == <<call, cancelled, started, running, failed, slots, done, err>>

MapItems == 1 .. call.n

\* MapSettledOrdered has no error to return, from fn or to its caller.
Silent == call.op = "MapSettledOrdered"

MapInit ==
  /\ cancelled = FALSE
  /\ started = 0
  /\ running = {}
  /\ failed = {}
  /\ slots = [i \in MapItems |-> 0]
  /\ done = FALSE
  /\ err = "nil"

\* The caller, or whoever shares its context, gives up.
Cancel ==
  /\ cancelled' = TRUE
  /\ UNCHANGED <<call, started, running, failed, slots, done, err>>

ItemsLeft == started < call.n

\* fn starts on the next item.
Start ==
  /\ ~ done
  /\ ItemsLeft
  /\ started' = started + 1
  /\ running' = running \cup {started + 1}
  /\ UNCHANGED <<call, cancelled, failed, slots, done, err>>

\* fn returns, with an error of its own, or with the error of a context that
\* was cancelled by the caller or on behalf of an earlier failure.
End(i, e) ==
  /\ ~ done
  /\ i \in running
  /\ running' = running \ {i}
  /\ Silent => e = "nil"
  /\ e = "ctx" => cancelled \/ failed # {}
  /\ failed' = IF e = "nil" THEN failed ELSE failed \cup {i}
  /\ UNCHANGED <<call, cancelled, started, slots, done, err>>

\* The result of item i reaches its slot, once.
Settle(i) ==
  /\ ~ done
  /\ i <= started /\ i \notin running
  /\ slots[i] = 0
  /\ slots' = [slots EXCEPT ![i] = i]
  /\ UNCHANGED <<call, cancelled, started, running, failed, done, err>>

\* The call may return when fn runs on no item and every item it was started
\* on is settled: without an error only when that is every item and none failed,
\* with an error only when an item failed or the caller gave up.
MayFinish(e) ==
  /\ ~ done
  /\ running = {}
  /\ \A i \in 1 .. started : slots[i] = i
  /\ e = "nil" => failed = {} /\ (started = call.n \/ (Silent /\ cancelled))
  /\ e = "fn"  => failed # {}
  /\ e = "ctx" => failed # {} \/ cancelled

Finish(e) ==
  /\ MayFinish(e)
  /\ done' = TRUE
  /\ err' = e
  /\ UNCHANGED <<call, cancelled, started, running, failed, slots>>

MapNext ==
  \/ Cancel
  \/ Start
  \/ \E i \in MapItems : Settle(i) \/ \E e \in {"nil", "fn", "ctx"} : End(i, e)
  \/ \E e \in {"nil", "fn", "ctx"} : Finish(e)

MapSpec == MapInit /\ [][MapNext]_mapVars

=============================================================================
