-------------------------- MODULE ShimCallsProofs --------------------------
(***************************************************************************)
(* Proofs about ShimCalls, for any number of calls, threads and inputs.    *)
(***************************************************************************)
EXTENDS ShimCalls, SequenceTheorems, TLAPS

Inside == {"run", "list", "copyOpen", "copy", "again", "peek", "reopen", "encode",
           "failed", "succeeded", "text"}

TypeInv ==
  /\ kind \in [Calls -> Kinds] /\ done \in [Calls -> BOOLEAN]
  /\ pc \in [Calls -> Inside \cup {"idle", "returned"}]
  /\ on \in [Calls -> Threads \cup {"none"}]
  /\ text \in [Threads -> Calls \cup {"none"}]
  /\ quiet \in [Calls -> BOOLEAN] /\ interrupted \in [Calls -> BOOLEAN]
  /\ out \in [Calls -> Seq(Nat)] /\ taken \in [Calls -> 0 .. Inputs]
  /\ list \in [Calls -> BOOLEAN] /\ open \in [Calls -> BOOLEAN]
  /\ ret \in [Calls -> Calls \cup {"none", "unknown", "nil", "ctx"}]

\* A call in the C code is on a thread of its own.
ThreadInv ==
  \A c \in Calls :
    /\ pc[c] \in Inside => on[c] \in Threads
    /\ pc[c] \notin Inside => on[c] = "none"
    /\ \A d \in Calls : on[c] = on[d] /\ on[c] # "none" => c = d

\* Where the text of a failure is on its way from sa_error to the caller; the
\* second attempt of a concatenation starts without the texts of others.
Second == {"peek", "reopen", "encode", "failed", "text"}

TextInv ==
  \A c \in Calls :
    /\ kind[c] = "concat" => pc[c] # "run"
    /\ pc[c] \in {"failed", "text"} /\ ~ quiet[c] => text[on[c]] = c
    /\ kind[c] = "concat" /\ pc[c] \in Second => text[on[c]] \in {c, "none"}
    /\ pc[c] # "returned" => ret[c] = "none"

\* A call was interrupted only if its context is done, and then takes no text.
CancelInv ==
  \A c \in Calls :
    interrupted[c] => /\ done[c] /\ pc[c] # "text"
                      /\ ret[c] \in {"none", "ctx"}

\* What a concatenation has in its output while it works, and its list file.
UpTo(n) == [i \in 1 .. n |-> i]

OutputOf(c) ==
  /\ kind[c] = "single" => pc[c] \in {"idle", "run", "failed", "succeeded", "text",
                                      "returned"}
  /\ pc[c] \in {"copy", "encode"} => out[c] = UpTo(taken[c])
  /\ kind[c] = "concat" /\ pc[c] = "succeeded" => out[c] = UpTo(Inputs)
  /\ kind[c] = "concat" /\ ret[c] = "nil" => out[c] = UpTo(Inputs)
  /\ pc[c] \notin {"copyOpen", "copy"} => ~ list[c]

OutputInv == \A c \in Calls : OutputOf(c)

IInv == TypeInv /\ ThreadInv /\ TextInv /\ CancelInv /\ OutputInv /\ ErrorIsOwn

-----------------------------------------------------------------------------
(***************************************************************************)
(* What the steps have in common.                                          *)
(***************************************************************************)
\* The answers that are not calls.
LEMMA Answers ==
  /\ \A c \in Calls : c # "none" /\ c # "unknown" /\ c # "nil" /\ c # "ctx"
  /\ \A t \in Threads : t # "none"
  /\ Inputs \in Nat
BY ShimAssumption

\* A failure in the C code, however it comes about.
Fails(c) == Interrupted(c) \/ FailsLoudly(c) \/ FailsQuietly(c)

\* It concerns the call and its thread only; unless it is quiet, it leaves the
\* text of the call on the thread.
LEMMA FailureEffect ==
  ASSUME TypeInv, NEW c \in Calls, on[c] \in Threads, Fails(c)
  PROVE  /\ text' \in [Threads -> Calls \cup {"none"}]
         /\ quiet' \in [Calls -> BOOLEAN] /\ interrupted' \in [Calls -> BOOLEAN]
         /\ \A d \in Calls \ {c} : quiet'[d] = quiet[d] /\ interrupted'[d] = interrupted[d]
         /\ \A t \in Threads \ {on[c]} : text'[t] = text[t]
         /\ text'[on[c]] \in {c, text[on[c]]}
         /\ ~ quiet'[c] => text'[on[c]] = c
         /\ interrupted'[c] => interrupted[c] \/ done[c]
<1>1. CASE Interrupted(c)
  BY <1>1 DEF Interrupted, SetText, TypeInv
<1>2. CASE FailsLoudly(c)
  BY <1>2 DEF FailsLoudly, SetText, TypeInv
<1>3. CASE FailsQuietly(c)
  BY <1>3 DEF FailsQuietly, NoText, TypeInv
<1> QED
  BY <1>1, <1>2, <1>3 DEF Fails

\* The three steps that fail.
Failing(c) == RunFails(c) \/ CopyFails(c) \/ EncodeFails(c)

LEMMA FailingEffect ==
  ASSUME NEW c \in Calls, Failing(c)
  PROVE  /\ Fails(c)
         /\ pc[c] \in Inside \ {"succeeded", "failed", "text"}
         /\ pc' = [pc EXCEPT ![c] = IF pc[c] \in {"list", "copyOpen", "copy"}
                                     THEN "again" ELSE "failed"]
         /\ list' = IF pc[c] \in {"list", "copyOpen", "copy"}
                     THEN [list EXCEPT ![c] = FALSE] ELSE list
         /\ UNCHANGED <<kind, done, on, out, taken, open, ret>>
BY DEF Failing, RunFails, CopyFails, EncodeFails, Fails, At, Goto, files, Inside

\* The steps, for the case analyses below.
Step(c) ==
  \/ Cancel(c) \/ Enter(c) \/ Check(c) \/ TakeText(c)
  \/ RunSucceeds(c)
  \/ WriteList(c) \/ CopyOpen(c) \/ CopyInput(c) \/ CopySucceeds(c)
  \/ Again(c) \/ Peek(c) \/ Reopen(c)
  \/ EncodeInput(c) \/ EncodeSucceeds(c)

LEMMA Steps ==
  ASSUME [Next]_vars
  PROVE  (\E c \in Calls : Step(c) \/ Failing(c)) \/ UNCHANGED vars
BY DEF Next, Step, Failing, Finished

-----------------------------------------------------------------------------
(***************************************************************************)
(* Types and threads.                                                      *)
(***************************************************************************)
LEMMA InitTypeInv == Init => TypeInv
BY ShimAssumption DEF Init, TypeInv, Kinds

LEMMA NextTypeInv == TypeInv /\ ThreadInv /\ [Next]_vars => TypeInv'
<1> SUFFICES ASSUME TypeInv, ThreadInv, [Next]_vars PROVE TypeInv'
  OBVIOUS
<1> USE DEF TypeInv, Inside, At, Goto, Answer
<1>1. ASSUME NEW c \in Calls, Cancel(c) PROVE TypeInv'
  BY <1>1 DEF Cancel, outcome, files
<1>2. ASSUME NEW c \in Calls, Enter(c) PROVE TypeInv'
  <2>1. UNCHANGED <<kind, done, outcome, files>>
    BY <1>2 DEF Enter
  <2>2. \E p \in Inside \cup {"returned"} : pc' = [pc EXCEPT ![c] = p]
    BY <1>2 DEF Enter
  <2>3. on' \in [Calls -> Threads \cup {"none"}]
    BY <1>2 DEF Enter, Free
  <2>4. ret' \in [Calls -> Calls \cup {"none", "unknown", "nil", "ctx"}]
    BY <1>2 DEF Enter
  <2>5. pc' \in [Calls -> Inside \cup {"idle", "returned"}]
    BY <2>2
  <2> QED
    BY <2>1, <2>5, <2>3, <2>4 DEF outcome, files
<1>3. ASSUME NEW c \in Calls, Check(c) PROVE TypeInv'
  <2>1. UNCHANGED <<kind, done, outcome, files>>
    BY <1>3 DEF Check
  <2>2. \E p \in Inside \cup {"returned"} : pc' = [pc EXCEPT ![c] = p]
    BY <1>3 DEF Check
  <2>3. on' \in [Calls -> Threads \cup {"none"}]
    BY <1>3 DEF Check
  <2>4. ret' \in [Calls -> Calls \cup {"none", "unknown", "nil", "ctx"}]
    BY <1>3 DEF Check
  <2>5. pc' \in [Calls -> Inside \cup {"idle", "returned"}]
    BY <2>2
  <2> QED
    BY <2>1, <2>5, <2>3, <2>4 DEF outcome, files
<1>4. ASSUME NEW c \in Calls, TakeText(c) PROVE TypeInv'
  <2>1. on[c] \in Threads
    BY <1>4 DEF TakeText, ThreadInv
  <2>2. UNCHANGED <<kind, done, outcome, files>>
    BY <1>4 DEF TakeText
  <2>3. pc' \in [Calls -> Inside \cup {"idle", "returned"}]
    BY <1>4 DEF TakeText
  <2>4. on' \in [Calls -> Threads \cup {"none"}]
    BY <1>4 DEF TakeText
  <2>5. ret' \in [Calls -> Calls \cup {"none", "unknown", "nil", "ctx"}]
    BY <1>4, <2>1 DEF TakeText, MayRunOn
  <2> QED
    BY <2>2, <2>3, <2>4, <2>5 DEF outcome, files
<1>5. ASSUME NEW c \in Calls, RunSucceeds(c) \/ EncodeSucceeds(c) PROVE TypeInv'
  BY <1>5 DEF RunSucceeds, EncodeSucceeds, outcome, files
<1>6. ASSUME NEW c \in Calls, WriteList(c) \/ CopySucceeds(c) PROVE TypeInv'
  BY <1>6 DEF WriteList, CopySucceeds, outcome
<1>7. ASSUME NEW c \in Calls, CopyOpen(c) \/ Reopen(c) PROVE TypeInv'
  <2>1. <<>> \in Seq(Nat) /\ 0 \in 0 .. Inputs
    BY Answers
  <2>2. out' = [out EXCEPT ![c] = <<>>] /\ taken' = [taken EXCEPT ![c] = 0]
    BY <1>7 DEF CopyOpen, Reopen, Reopened
  <2>3. out' \in [Calls -> Seq(Nat)] /\ taken' \in [Calls -> 0 .. Inputs]
    BY <2>1, <2>2
  <2> QED
    BY <1>7, <2>3 DEF CopyOpen, Reopen, outcome
<1>8. ASSUME NEW c \in Calls, CopyInput(c) \/ EncodeInput(c) PROVE TypeInv'
  <2>1. TakeInput(c) /\ taken[c] < Inputs /\ taken[c] \in Nat
    BY <1>8, Answers DEF CopyInput, EncodeInput
  <2>2. Append(out[c], taken[c] + 1) \in Seq(Nat)
    BY <2>1, AppendProperties
  <2>3. out' \in [Calls -> Seq(Nat)]
    BY <2>1, <2>2 DEF TakeInput
  <2>4. taken' \in [Calls -> 0 .. Inputs]
    BY <2>1, Answers DEF TakeInput
  <2> QED
    BY <1>8, <2>3, <2>4 DEF CopyInput, EncodeInput, outcome
<1>9. ASSUME NEW c \in Calls, Again(c) PROVE TypeInv'
  <2>1. text' \in [Threads -> Calls \cup {"none"}]
    BY <1>9 DEF Again
  <2>2. pc' \in [Calls -> Inside \cup {"idle", "returned"}]
    BY <1>9 DEF Again
  <2> QED
    BY <1>9, <2>1, <2>2 DEF Again, files
<1>10. ASSUME NEW c \in Calls, Peek(c) PROVE TypeInv'
  <2>1. text' \in [Threads -> Calls \cup {"none"}] /\ quiet' \in [Calls -> BOOLEAN]
    BY <1>10 DEF Peek, SetText
  <2>2. open' \in [Calls -> BOOLEAN]
    BY <1>10 DEF Peek
  <2>3. pc' \in [Calls -> Inside \cup {"idle", "returned"}]
    BY <1>10 DEF Peek
  <2> QED
    BY <1>10, <2>1, <2>2, <2>3 DEF Peek
<1>11. ASSUME NEW c \in Calls, Failing(c) PROVE TypeInv'
  <2>1. on[c] \in Threads
    BY <1>11, FailingEffect DEF ThreadInv
  <2>2. /\ text' \in [Threads -> Calls \cup {"none"}]
        /\ quiet' \in [Calls -> BOOLEAN] /\ interrupted' \in [Calls -> BOOLEAN]
    BY <1>11, <2>1, FailingEffect, FailureEffect
  <2>3. pc' = [pc EXCEPT ![c] = "again"] \/ pc' = [pc EXCEPT ![c] = "failed"]
    BY <1>11, FailingEffect
  <2>4. list' = [list EXCEPT ![c] = FALSE] \/ list' = list
    BY <1>11, FailingEffect
  <2> QED
    BY <1>11, <2>2, <2>3, <2>4, FailingEffect
<1>12. CASE UNCHANGED vars
  BY <1>12 DEF vars
<1> QED
  BY <1>1, <1>2, <1>3, <1>4, <1>5, <1>6, <1>7, <1>8, <1>9, <1>10, <1>11, <1>12, Steps
     DEF Step

LEMMA InitThreadInv == Init => ThreadInv
BY DEF Init, ThreadInv, Inside

\* Enter takes a free thread, and a call leaves it when it returns.
LEMMA NextThreadInv == TypeInv /\ ThreadInv /\ [Next]_vars => ThreadInv'
<1> SUFFICES ASSUME TypeInv, ThreadInv, [Next]_vars PROVE ThreadInv'
  OBVIOUS
<1> USE DEF TypeInv, ThreadInv, Inside, At, Goto
<1>1. ASSUME NEW c \in Calls, on' = on,
             pc' = pc \/ \E p \in Inside : pc' = [pc EXCEPT ![c] = p], pc[c] \in Inside
      PROVE  ThreadInv'
  BY <1>1
<1>2. ASSUME NEW c \in Calls, on' = [on EXCEPT ![c] = "none"], pc' = [pc EXCEPT ![c] = "returned"]
      PROVE  ThreadInv'
  BY <1>2
<1>3. ASSUME NEW c \in Calls, Enter(c) PROVE ThreadInv'
  <2>1. CASE done[c]
    <3>1. on' = on /\ pc' = [pc EXCEPT ![c] = "returned"] /\ pc[c] = "idle"
      BY <1>3, <2>1 DEF Enter
    <3> QED
      BY <3>1
  <2>2. CASE ~ done[c]
    <3>1. PICK t \in Free : on' = [on EXCEPT ![c] = t]
      BY <1>3, <2>2 DEF Enter
    <3>2. PICK p \in Inside : pc' = [pc EXCEPT ![c] = p]
      BY <1>3, <2>2 DEF Enter
    <3>3. t \in Threads /\ \A d \in Calls : on[d] # t
      BY DEF Free
    <3> QED
      BY <3>1, <3>2, <3>3, Answers
  <2> QED
    BY <2>1, <2>2
<1>4. ASSUME NEW c \in Calls, Check(c) PROVE ThreadInv'
  <2>1. CASE TakesText(c)
    <3>1. on' = on /\ pc' = [pc EXCEPT ![c] = "text"] /\ pc[c] \in Inside
      BY <1>4, <2>1 DEF Check
    <3> QED
      BY <1>1, <3>1
  <2>2. CASE ~ TakesText(c)
    BY <1>2, <1>4, <2>2 DEF Check
  <2> QED
    BY <2>1, <2>2
<1>5. ASSUME NEW c \in Calls, TakeText(c) PROVE ThreadInv'
  BY <1>2, <1>5 DEF TakeText
<1>6. ASSUME NEW c \in Calls, Cancel(c) PROVE ThreadInv'
  BY <1>6 DEF Cancel
<1>7. ASSUME NEW c \in Calls, Step(c), ~ Enter(c), ~ Check(c), ~ TakeText(c), ~ Cancel(c)
      PROVE  ThreadInv'
  <2>1. on' = on /\ pc[c] \in Inside
    BY <1>7 DEF Step, RunSucceeds, WriteList, CopyOpen, CopyInput, CopySucceeds, Again, Peek,
                Reopen, EncodeInput, EncodeSucceeds
  <2>2. pc' = pc \/ \E p \in Inside : pc' = [pc EXCEPT ![c] = p]
    BY <1>7 DEF Step, RunSucceeds, WriteList, CopyOpen, CopyInput, CopySucceeds, Again, Peek,
                Reopen, EncodeInput, EncodeSucceeds
  <2> QED
    BY <1>1, <2>1, <2>2
<1>8. ASSUME NEW c \in Calls, Failing(c) PROVE ThreadInv'
  BY <1>1, <1>8, FailingEffect
<1>9. CASE UNCHANGED vars
  BY <1>9 DEF vars
<1> QED
  BY <1>3, <1>4, <1>5, <1>6, <1>7, <1>8, <1>9, Steps

-----------------------------------------------------------------------------
(***************************************************************************)
(* The text of a failure.                                                  *)
(***************************************************************************)
LEMMA InitTextInv == Init => TextInv /\ ErrorIsOwn
<1> SUFFICES ASSUME Init PROVE TextInv /\ ErrorIsOwn
  OBVIOUS
<1>1. TextInv
  BY DEF Init, TextInv, Second
<1>2. \A c \in Calls : ~ Failed(c)
  BY Answers DEF Init, Failed
<1> QED
  BY <1>1, <1>2 DEF ErrorIsOwn

\* No step but Again, Peek and the failures changes a text, each that of its own
\* thread, and there is no other call on that thread.
LEMMA NextTextInv == TypeInv /\ ThreadInv /\ TextInv /\ [Next]_vars => TextInv'
<1> SUFFICES ASSUME TypeInv, ThreadInv, TextInv, [Next]_vars PROVE TextInv'
  OBVIOUS
<1> USE DEF TypeInv, ThreadInv, TextInv, Inside, Second, Kinds, At, Goto, Answer
<1>1. ASSUME NEW c \in Calls, Cancel(c) PROVE TextInv'
  BY <1>1 DEF Cancel, outcome
<1>2. ASSUME NEW c \in Calls, Enter(c) PROVE TextInv'
  BY <1>2 DEF Enter, outcome
<1>3. ASSUME NEW c \in Calls, Check(c) PROVE TextInv'
  <2>1. CASE TakesText(c)
    BY <1>3, <2>1 DEF Check, TakesText, outcome
  <2>2. CASE ~ TakesText(c)
    <3>1. /\ pc' = [pc EXCEPT ![c] = "returned"] /\ on' = [on EXCEPT ![c] = "none"]
          /\ kind' = kind /\ quiet' = quiet /\ text' = text
      BY <1>3, <2>2 DEF Check, outcome
    <3>2. \A d \in Calls \ {c} : ret'[d] = ret[d]
      BY <1>3, <2>2 DEF Check
    <3> QED
      BY <3>1, <3>2
  <2> QED
    BY <2>1, <2>2
<1>4. ASSUME NEW c \in Calls, TakeText(c) PROVE TextInv'
  BY <1>4 DEF TakeText, outcome
<1>5. ASSUME NEW c \in Calls,
             RunSucceeds(c) \/ WriteList(c) \/ CopyOpen(c) \/ CopyInput(c) \/ CopySucceeds(c)
      PROVE  TextInv'
  BY <1>5 DEF RunSucceeds, WriteList, CopyOpen, CopyInput, CopySucceeds, outcome
<1>6. ASSUME NEW c \in Calls, Reopen(c) \/ EncodeInput(c) \/ EncodeSucceeds(c) PROVE TextInv'
  BY <1>6 DEF Reopen, EncodeInput, EncodeSucceeds, outcome
<1>7. ASSUME NEW c \in Calls, Again(c) PROVE TextInv'
  BY <1>7, Answers DEF Again
<1>8. ASSUME NEW c \in Calls, Peek(c) PROVE TextInv'
  BY <1>8, Answers DEF Peek, SetText
<1>9. ASSUME NEW c \in Calls, Failing(c) PROVE TextInv'
  <2>1. on[c] \in Threads
    BY <1>9, FailingEffect
  <2>2. /\ UNCHANGED <<kind, on, ret>>
        /\ pc[c] \in Inside \ {"succeeded", "failed", "text"}
        /\ pc' = [pc EXCEPT ![c] = IF pc[c] \in {"list", "copyOpen", "copy"}
                                   THEN "again" ELSE "failed"]
    BY <1>9, FailingEffect
  <2>3. /\ \A d \in Calls \ {c} : quiet'[d] = quiet[d]
        /\ \A t \in Threads \ {on[c]} : text'[t] = text[t]
        /\ text'[on[c]] \in {c, text[on[c]]}
        /\ ~ quiet'[c] => text'[on[c]] = c
    BY <1>9, <2>1, FailingEffect, FailureEffect
  <2>4. ASSUME NEW d \in Calls, d # c
        PROVE  /\ pc'[d] = pc[d] /\ quiet'[d] = quiet[d] /\ ret'[d] = ret[d]
               /\ on[d] \in Threads => text'[on[d]] = text[on[d]]
    BY <2>1, <2>2, <2>3, <2>4, Answers
  <2>5. pc'[c] = (IF pc[c] \in {"list", "copyOpen", "copy"} THEN "again" ELSE "failed")
    BY <2>2
  <2>6. kind[c] = "concat" /\ pc'[c] = "failed" => text'[on[c]] \in {c, "none"}
    <3>1. kind[c] = "concat" /\ pc'[c] = "failed" => pc[c] \in {"peek", "reopen", "encode", "again"}
      BY <2>2, <2>5
    <3>2. pc[c] # "again"
      BY <1>9 DEF Failing, RunFails, CopyFails, EncodeFails
    <3> QED
      BY <2>3, <3>1, <3>2
  <2>7. ASSUME NEW d \in Calls
        PROVE  /\ kind[d] = "concat" => pc'[d] # "run"
               /\ pc'[d] \in {"failed", "text"} /\ ~ quiet'[d] => text'[on[d]] = d
               /\ kind[d] = "concat" /\ pc'[d] \in Second => text'[on[d]] \in {d, "none"}
               /\ pc'[d] # "returned" => ret'[d] = "none"
    <3>1. CASE d = c
      BY <2>2, <2>3, <2>5, <2>6, <3>1
    <3>2. CASE d # c
      BY <2>4, <3>2
    <3> QED
      BY <3>1, <3>2
  <2> QED
    BY <2>2, <2>7
<1>10. CASE UNCHANGED vars
  BY <1>10 DEF vars
<1> QED
  BY <1>1, <1>2, <1>3, <1>4, <1>5, <1>6, <1>7, <1>8, <1>9, <1>10, Steps DEF Step

\* A call answers with a text only in TakeText, on the thread where it failed.
LEMMA NextErrorIsOwn ==
  TypeInv /\ ThreadInv /\ TextInv /\ ErrorIsOwn /\ [Next]_vars => ErrorIsOwn'
<1> SUFFICES ASSUME TypeInv, ThreadInv, TextInv, ErrorIsOwn, [Next]_vars PROVE ErrorIsOwn'
  OBVIOUS
<1> USE DEF TypeInv, TextInv, ErrorIsOwn, Failed
<1>1. ASSUME NEW c \in Calls, kind' = kind, ret' = ret, pc[c] # "returned",
             \A d \in Calls \ {c} : quiet'[d] = quiet[d]
      PROVE  ErrorIsOwn'
  <2>1. ret[c] = "none" /\ ~ Failed(c)
    BY <1>1, Answers
  <2>2. ASSUME NEW d \in Calls, Failed(d)'
        PROVE  Failed(d) /\ quiet'[d] = quiet[d] /\ kind'[d] = kind[d] /\ ret'[d] = ret[d]
    BY <1>1, <2>1, <2>2
  <2> QED
    BY <2>2
<1>2. ASSUME NEW c \in Calls, kind' = kind, quiet' = quiet,
             ret' = [ret EXCEPT ![c] = "ctx"] \/ ret' = [ret EXCEPT ![c] = "nil"] \/ ret' = ret
      PROVE  ErrorIsOwn'
  <2>1. ASSUME NEW d \in Calls, Failed(d)'
        PROVE  ret'[d] = ret[d]
    BY <1>2, <2>1, Answers
  <2> QED
    BY <1>2, <2>1
<1>3. ASSUME NEW c \in Calls, Enter(c) \/ Check(c) PROVE ErrorIsOwn'
  BY <1>2, <1>3 DEF Enter, Check, Answer, outcome
<1>4. ASSUME NEW c \in Calls, TakeText(c) PROVE ErrorIsOwn'
  <2>1. on[c] \in Threads /\ pc[c] = "text"
    BY <1>4 DEF TakeText, At, ThreadInv, Inside
  <2>2. ret' = [ret EXCEPT ![c] = IF text[on[c]] = "none" THEN "unknown" ELSE text[on[c]]]
    BY <1>4 DEF TakeText, MayRunOn, Answer
  <2>3. ~ quiet[c] => ret'[c] = c
    BY <2>1, <2>2, Answers
  <2>4. kind[c] = "concat" => ret'[c] \in {c, "unknown"}
    BY <2>1, <2>2 DEF Second
  <2> QED
    BY <1>4, <2>2, <2>3, <2>4 DEF TakeText, outcome
<1>5. ASSUME NEW c \in Calls, Step(c), ~ Enter(c), ~ Check(c), ~ TakeText(c)
      PROVE  ErrorIsOwn'
  <2>1. kind' = kind /\ ret' = ret /\ pc[c] # "returned"
    BY <1>5 DEF Step, Cancel, RunSucceeds, WriteList, CopyOpen, CopyInput, CopySucceeds, Again,
                Peek, Reopen, EncodeInput, EncodeSucceeds, At
  <2>2. \A d \in Calls \ {c} : quiet'[d] = quiet[d]
    BY <1>5 DEF Step, Cancel, RunSucceeds, WriteList, CopyOpen, CopyInput, CopySucceeds, Again,
                Peek, SetText, Reopen, EncodeInput, EncodeSucceeds, outcome
  <2> QED
    BY <1>1, <2>1, <2>2
<1>6. ASSUME NEW c \in Calls, Failing(c) PROVE ErrorIsOwn'
  <2>1. on[c] \in Threads /\ pc[c] # "returned"
    BY <1>6, FailingEffect DEF ThreadInv, Inside
  <2>2. \A d \in Calls \ {c} : quiet'[d] = quiet[d]
    BY <1>6, <2>1, FailingEffect, FailureEffect
  <2> QED
    BY <1>1, <1>6, <2>1, <2>2, FailingEffect
<1>7. CASE UNCHANGED vars
  BY <1>7 DEF vars
<1> QED
  BY <1>3, <1>4, <1>5, <1>6, <1>7, Steps

-----------------------------------------------------------------------------
(***************************************************************************)
(* Cancellations.                                                          *)
(***************************************************************************)
LEMMA InitCancelInv == Init => CancelInv
BY DEF Init, CancelInv

\* A context that is done stays done, so a call that saw it answers with it.
LEMMA NextCancelInv ==
  TypeInv /\ ThreadInv /\ TextInv /\ CancelInv /\ [Next]_vars => CancelInv'
<1> SUFFICES ASSUME TypeInv, ThreadInv, TextInv, CancelInv, [Next]_vars PROVE CancelInv'
  OBVIOUS
<1> USE DEF TypeInv, CancelInv, At, Goto, Answer
<1>1. ASSUME NEW c \in Calls, Cancel(c) PROVE CancelInv'
  BY <1>1 DEF Cancel, outcome
<1>2. ASSUME NEW c \in Calls, Enter(c) PROVE CancelInv'
  <2>1. \E p \in {"run", "list", "returned"} : pc' = [pc EXCEPT ![c] = p]
    BY <1>2 DEF Enter
  <2>2. ret' = ret \/ ret' = [ret EXCEPT ![c] = "ctx"]
    BY <1>2 DEF Enter
  <2>3. done' = done /\ interrupted' = interrupted
    BY <1>2 DEF Enter, outcome
  <2> QED
    BY <2>1, <2>2, <2>3
<1>3. ASSUME NEW c \in Calls, Check(c) PROVE CancelInv'
  BY <1>3 DEF Check, TakesText, outcome
<1>4. ASSUME NEW c \in Calls, TakeText(c) PROVE CancelInv'
  BY <1>4 DEF TakeText, outcome
<1>5. ASSUME NEW c \in Calls, Step(c), ~ Cancel(c), ~ Enter(c), ~ Check(c), ~ TakeText(c)
      PROVE  CancelInv'
  <2>1. done' = done /\ interrupted' = interrupted /\ ret' = ret
    BY <1>5 DEF Step, RunSucceeds, WriteList, CopyOpen, CopyInput, CopySucceeds, Again, Peek,
                Reopen, EncodeInput, EncodeSucceeds, outcome
  <2>2. pc' = pc \/ \E p \in Inside \ {"text"} : pc' = [pc EXCEPT ![c] = p]
    BY <1>5 DEF Step, RunSucceeds, WriteList, CopyOpen, CopyInput, CopySucceeds, Again, Peek,
                Reopen, EncodeInput, EncodeSucceeds, Inside
  <2> QED
    BY <2>1, <2>2
<1>6. ASSUME NEW c \in Calls, Failing(c) PROVE CancelInv'
  <2>1. on[c] \in Threads /\ ret[c] = "none"
    BY <1>6, FailingEffect DEF ThreadInv, TextInv, Inside
  <2>2. /\ \A d \in Calls \ {c} : interrupted'[d] = interrupted[d]
        /\ interrupted'[c] => done[c]
    BY <1>6, <2>1, FailingEffect, FailureEffect
  <2>3. pc' = [pc EXCEPT ![c] = "again"] \/ pc' = [pc EXCEPT ![c] = "failed"]
    BY <1>6, FailingEffect
  <2>4. done' = done /\ ret' = ret
    BY <1>6, FailingEffect
  <2>5. ASSUME NEW d \in Calls, interrupted'[d]
        PROVE  done'[d] /\ pc'[d] # "text" /\ ret'[d] \in {"none", "ctx"}
    <3>1. CASE d = c
      BY <2>1, <2>2, <2>3, <2>4, <2>5, <3>1
    <3>2. CASE d # c
      BY <2>2, <2>3, <2>4, <2>5, <3>2
    <3> QED
      BY <3>1, <3>2
  <2> QED
    BY <2>5
<1>7. CASE UNCHANGED vars
  BY <1>7 DEF vars
<1> QED
  BY <1>1, <1>2, <1>3, <1>4, <1>5, <1>6, <1>7, Steps

-----------------------------------------------------------------------------
(***************************************************************************)
(* The output of a concatenation.                                          *)
(***************************************************************************)
\* One input more, and none yet.
LEMMA UpToNext == ASSUME NEW n \in Nat PROVE Append(UpTo(n), n + 1) = UpTo(n + 1)
<1>1. UpTo(n) \in Seq(Nat) /\ Len(UpTo(n)) = n
  BY DEF UpTo
<1>2. /\ Append(UpTo(n), n + 1) \in Seq(Nat)
      /\ Len(Append(UpTo(n), n + 1)) = n + 1
      /\ \A i \in 1 .. n : Append(UpTo(n), n + 1)[i] = i
      /\ Append(UpTo(n), n + 1)[n + 1] = n + 1
  BY <1>1, AppendProperties DEF UpTo
<1>3. UpTo(n + 1) \in Seq(Nat) /\ Len(UpTo(n + 1)) = n + 1
  BY DEF UpTo
<1>4. \A i \in 1 .. n + 1 : Append(UpTo(n), n + 1)[i] = UpTo(n + 1)[i]
  BY <1>2 DEF UpTo
<1> QED
  BY <1>2, <1>3, <1>4, SeqEqual

LEMMA UpToZero == UpTo(0) = <<>>
BY DEF UpTo

LEMMA InitOutputInv == Init => OutputInv
BY Answers DEF Init, OutputInv, OutputOf, Kinds

\* Both attempts start from an empty output and append; what has answered takes
\* no further step.
LEMMA NextOutputInv ==
  TypeInv /\ ThreadInv /\ TextInv /\ OutputInv /\ [Next]_vars => OutputInv'
<1> SUFFICES ASSUME TypeInv, ThreadInv, TextInv, OutputInv, [Next]_vars PROVE OutputInv'
  OBVIOUS
<1> USE DEF TypeInv, Kinds, Inside, At, Goto, Answer, OutputOf
<1>1. ASSUME NEW c \in Calls, kind' = kind, OutputOf(c)',
             \A d \in Calls \ {c} : /\ pc'[d] = pc[d] /\ out'[d] = out[d] /\ taken'[d] = taken[d]
                                    /\ list'[d] = list[d] /\ ret'[d] = ret[d]
      PROVE  OutputInv'
  <2>1. ASSUME NEW d \in Calls PROVE OutputOf(d)'
    <3>1. CASE d = c
      BY <1>1, <3>1
    <3>2. CASE d # c
      BY <1>1, <3>2 DEF OutputInv
    <3> QED
      BY <3>1, <3>2
  <2> QED
    BY <2>1 DEF OutputInv
<1>2. \A c \in Calls : OutputOf(c) /\ (pc[c] # "returned" => ret[c] = "none")
  BY DEF OutputInv, TextInv
<1>3. ASSUME NEW c \in Calls, Cancel(c) PROVE OutputInv'
  BY <1>2, <1>3 DEF Cancel, files, OutputInv
<1>4. ASSUME NEW c \in Calls, Enter(c) PROVE OutputInv'
  <2>1. kind' = kind /\ UNCHANGED files
    BY <1>4 DEF Enter
  <2>2. OutputOf(c)'
    BY <1>2, <1>4, <2>1 DEF Enter, files
  <2>3. \A d \in Calls \ {c} : pc'[d] = pc[d] /\ ret'[d] = ret[d]
    BY <1>4 DEF Enter
  <2> QED
    BY <1>1, <2>1, <2>2, <2>3 DEF files
<1>5. ASSUME NEW c \in Calls, Check(c) PROVE OutputInv'
  <2>1. kind' = kind /\ UNCHANGED files
    BY <1>5 DEF Check
  <2>2. CASE TakesText(c)
    <3>1. pc' = [pc EXCEPT ![c] = "text"] /\ pc[c] = "failed" /\ ret' = ret
      BY <1>5, <2>2 DEF Check, TakesText
    <3>2. OutputOf(c)'
      BY <1>2, <2>1, <3>1 DEF files
    <3> QED
      BY <1>1, <2>1, <3>1, <3>2 DEF files
  <2>3. CASE ~ TakesText(c)
    <3>1. pc' = [pc EXCEPT ![c] = "returned"] /\ pc[c] \in {"failed", "succeeded"}
      BY <1>5, <2>3 DEF Check
    <3>2. ret' = [ret EXCEPT ![c] = IF done[c] THEN "ctx" ELSE "nil"]
      BY <1>5, <2>3 DEF Check
    <3>3. pc[c] = "failed" => done[c]
      BY <2>3 DEF TakesText
    <3>4. OutputOf(c)'
      BY <1>2, <2>1, <3>1, <3>2, <3>3 DEF files
    <3> QED
      BY <1>1, <2>1, <3>1, <3>2, <3>4 DEF files
  <2> QED
    BY <2>2, <2>3
<1>6. ASSUME NEW c \in Calls, TakeText(c) PROVE OutputInv'
  <2>1. on[c] \in Threads
    BY <1>6 DEF TakeText, ThreadInv
  <2> DEFINE answer == IF text[on[c]] = "none" THEN "unknown" ELSE text[on[c]]
  <2>2. ret' = [ret EXCEPT ![c] = answer] /\ answer \in Calls \cup {"unknown"}
    BY <1>6, <2>1 DEF TakeText, MayRunOn
  <2>3. ret'[c] # "nil" /\ \A d \in Calls \ {c} : ret'[d] = ret[d]
    BY <2>2, Answers
  <2>4. kind' = kind /\ UNCHANGED files /\ pc[c] = "text"
        /\ pc' = [pc EXCEPT ![c] = "returned"]
    BY <1>6 DEF TakeText
  <2>5. OutputOf(c)'
    BY <1>2, <2>3, <2>4 DEF files
  <2> QED
    BY <1>1, <2>3, <2>4, <2>5 DEF files
<1>7. ASSUME NEW c \in Calls, RunSucceeds(c) PROVE OutputInv'
  BY <1>1, <1>2, <1>7 DEF RunSucceeds, TextInv, files
<1>8. ASSUME NEW c \in Calls, WriteList(c) PROVE OutputInv'
  BY <1>1, <1>2, <1>8 DEF WriteList
<1>9. ASSUME NEW c \in Calls, CopyOpen(c) PROVE OutputInv'
  <2>1. OutputOf(c)'
    BY <1>2, <1>9, UpToZero DEF CopyOpen
  <2> QED
    BY <1>1, <1>9, <2>1 DEF CopyOpen
<1>10. ASSUME NEW c \in Calls, CopyInput(c) \/ EncodeInput(c) PROVE OutputInv'
  <2>1. /\ pc[c] \in {"copy", "encode"} /\ UNCHANGED <<kind, pc, list, ret>> /\ TakeInput(c)
    BY <1>10 DEF CopyInput, EncodeInput
  <2>2. out[c] = UpTo(taken[c]) /\ taken[c] \in Nat /\ ret[c] = "none"
    BY <1>2, <2>1, Answers
  <2>3. taken'[c] = taken[c] + 1 /\ out'[c] = Append(out[c], taken[c] + 1)
    BY <2>1 DEF TakeInput
  <2>4. out'[c] = UpTo(taken'[c])
    BY <2>2, <2>3, UpToNext
  <2>5. OutputOf(c)'
    BY <1>2, <2>1, <2>2, <2>4
  <2> QED
    BY <1>1, <2>1, <2>5 DEF TakeInput
<1>11. ASSUME NEW c \in Calls, CopySucceeds(c) \/ EncodeSucceeds(c) PROVE OutputInv'
  <2>1. /\ pc[c] \in {"copy", "encode"} /\ UNCHANGED <<kind, out, taken, ret>>
        /\ taken[c] = Inputs /\ pc' = [pc EXCEPT ![c] = "succeeded"]
        /\ list' = IF pc[c] = "copy" THEN [list EXCEPT ![c] = FALSE] ELSE list
    BY <1>11 DEF CopySucceeds, EncodeSucceeds, files
  <2>2. OutputOf(c)'
    BY <1>2, <2>1
  <2> QED
    BY <1>1, <2>1, <2>2
<1>12. ASSUME NEW c \in Calls, Again(c) PROVE OutputInv'
  BY <1>1, <1>2, <1>12 DEF Again, files
<1>13. ASSUME NEW c \in Calls, Peek(c) PROVE OutputInv'
  BY <1>1, <1>2, <1>13 DEF Peek
<1>14. ASSUME NEW c \in Calls, Reopen(c) PROVE OutputInv'
  <2>1. OutputOf(c)'
    BY <1>2, <1>14, UpToZero DEF Reopen, Reopened
  <2> QED
    BY <1>1, <1>14, <2>1 DEF Reopen
<1>15. ASSUME NEW c \in Calls, Failing(c) PROVE OutputInv'
  <2>1. /\ UNCHANGED <<kind, out, taken, ret>>
        /\ pc[c] \in Inside \ {"succeeded", "failed", "text"}
        /\ pc' = [pc EXCEPT ![c] = IF pc[c] \in {"list", "copyOpen", "copy"}
                                   THEN "again" ELSE "failed"]
        /\ list' = IF pc[c] \in {"list", "copyOpen", "copy"}
                   THEN [list EXCEPT ![c] = FALSE] ELSE list
    BY <1>15, FailingEffect
  <2>2. OutputOf(c)'
    BY <1>2, <2>1
  <2> QED
    BY <1>1, <2>1, <2>2
<1>16. CASE UNCHANGED vars
  BY <1>16 DEF vars, OutputInv
<1> QED
  BY <1>3, <1>4, <1>5, <1>6, <1>7, <1>8, <1>9, <1>10, <1>11, <1>12, <1>13, <1>14, <1>15, <1>16,
     Steps DEF Step

-----------------------------------------------------------------------------
(***************************************************************************)
(* The invariant, and what follows from it.                                *)
(***************************************************************************)
LEMMA InitIInv == Init => IInv
BY InitTypeInv, InitThreadInv, InitTextInv, InitCancelInv, InitOutputInv DEF IInv

LEMMA NextIInv == IInv /\ [Next]_vars => IInv'
BY NextTypeInv, NextThreadInv, NextTextInv, NextCancelInv, NextOutputInv, NextErrorIsOwn
   DEF IInv

LEMMA Invariance == Spec => []IInv
BY InitIInv, NextIInv, PTL DEF Spec

\* However many calls run on however many threads, what a call answers with is
\* the text of its own failure, unless that failure set none; a concatenation
\* never answers with another call's (cError and runtime.LockOSThread).
THEOREM ErrorsTellTheirOwn == Spec => []ErrorIsOwn
<1>1. IInv => ErrorIsOwn
  BY DEF IInv
<1> QED
  BY <1>1, Invariance, PTL

\* A call that failed because its context was done answers with the context's
\* error (contextErr before cError).
THEOREM CancellationsNamed == Spec => []CancellationNamed
<1>1. IInv => CancellationNamed
  BY DEF IInv, CancelInv, CancellationNamed
<1> QED
  BY <1>1, Invariance, PTL

\* A concatenation of any number of inputs that answers nil has them all in its
\* output, in order, and leaves no list file (smartaudio_libav.c: both attempts).
THEOREM ConcatenationWhole == Spec => []ConcatWhole
<1>1. IInv => ConcatWhole
  BY DEF IInv, OutputInv, OutputOf, UpTo, ConcatWhole, At
<1> QED
  BY <1>1, Invariance, PTL
=============================================================================
