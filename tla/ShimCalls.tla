------------------------------ MODULE ShimCalls ------------------------------
(***************************************************************************)
(* Concurrent calls of the libav shim: the wrappers of libavshim.go and,   *)
(* of smartaudio_libav.c, what the calls share and what concatenation does *)
(* with its two attempts.                                                  *)
(*                                                                         *)
(* The workers of the library call the shim at the same time.  A call is   *)
(* bound to one thread from its entry to the C code until it has returned  *)
(* its error, because C leaves the text of a failure in a variable of the  *)
(* thread (sa_error) which outlives the call.  What happens inside one     *)
(* rendering is the subject of RenderPipeline; here it runs, and succeeds, *)
(* fails, or finds its context done.  A failure is quiet when the code     *)
(* sets no text for it (av_packet_alloc, av_calloc, av_realloc_array, and  *)
(* av_write_trailer of the slicing).                                       *)
(***************************************************************************)
EXTENDS Naturals, Sequences

CONSTANTS
  Calls,   \* the calls of the shim, by goroutines of any number
  Threads, \* of the operating system
  Inputs   \* how many files a concatenation has

ASSUME ShimAssumption ==
  /\ Inputs \in Nat \ {0}
  /\ Calls \cap {"none", "unknown", "nil", "ctx"} = {}
  /\ "none" \notin Threads

Kinds == {"single", "concat"}

VARIABLES
  kind,        \* any operation in a single attempt, or a concatenation: rigid
  done,        \* its context is done
  pc,          \* the statement it is at
  on,          \* the thread it is on, or "none" outside of the C code
  text,        \* per thread, the call of whose failure sa_error tells, or "none"
  quiet,       \* the call's last failure set no text
  interrupted, \* the call failed because it found its context done
  out,         \* the inputs in the output of a concatenation
  taken,       \* how many inputs the present attempt has taken
  list,        \* its list file is there
  open,        \* the call holds an input that nobody will close
  ret          \* "none", or what the wrapper returned

vars == <<kind, done, pc, on, text, quiet, interrupted, out, taken, list, open, ret>>
outcome == <<text, quiet, interrupted>>
files == <<out, taken, list, open>>

Init ==
  /\ kind \in [Calls -> Kinds]
  /\ done = [c \in Calls |-> FALSE]
  /\ pc = [c \in Calls |-> "idle"]
  /\ on = [c \in Calls |-> "none"]
  /\ text = [t \in Threads |-> "none"]
  /\ quiet = [c \in Calls |-> FALSE]
  /\ interrupted = [c \in Calls |-> FALSE]
  /\ out = [c \in Calls |-> <<>>]
  /\ taken = [c \in Calls |-> 0]
  /\ list = [c \in Calls |-> FALSE]
  /\ open = [c \in Calls |-> FALSE]
  /\ ret = [c \in Calls |-> "none"]

At(c, p) == pc[c] = p
Goto(c, p) == pc' = [pc EXCEPT ![c] = p]
Answer(c, a) == ret' = [ret EXCEPT ![c] = a]

\* A context may be done at any time; those of two calls are not related here.
Cancel(c) ==
  /\ ~ done[c] /\ ~ At(c, "returned")
  /\ done' = [done EXCEPT ![c] = TRUE]
  /\ UNCHANGED <<kind, pc, on, outcome, files, ret>>

Free == {t \in Threads : \A c \in Calls : on[c] # t}

-----------------------------------------------------------------------------
(***************************************************************************)
(* The wrapper, before and after the C code.                               *)
(***************************************************************************)
\* LibavBackend looks at the context first; then runtime.LockOSThread and C.
Enter(c) ==
  /\ At(c, "idle")
  /\ \/ /\ done[c] /\ Answer(c, "ctx") /\ Goto(c, "returned")
        /\ UNCHANGED on
     \/ /\ ~ done[c] /\ Goto(c, IF kind[c] = "concat" THEN "list" ELSE "run")
        /\ \E t \in Free : on' = [on EXCEPT ![c] = t]
        /\ UNCHANGED ret
  /\ UNCHANGED <<kind, done, outcome, files>>

\* Faulty variants: the goroutine may go on elsewhere; a text is taken first.
MayRunOnAny(c) == Free \cup {on[c]}
TakesTextAlways(c) == At(c, "failed")

\* The thread is locked until the wrapper returns.
MayRunOn(c) == {on[c]}

\* contextErr precedes cError and precedes success.
TakesText(c) == At(c, "failed") /\ ~ done[c]

\* The wrapper sees the result of the C code.
Check(c) ==
  /\ pc[c] \in {"failed", "succeeded"}
  /\ \/ /\ TakesText(c) /\ Goto(c, "text")
        /\ UNCHANGED <<on, ret>>
     \/ /\ ~ TakesText(c)
        /\ Answer(c, IF done[c] THEN "ctx" ELSE "nil") /\ Goto(c, "returned")
        /\ on' = [on EXCEPT ![c] = "none"]
  /\ UNCHANGED <<kind, done, outcome, files>>

\* cError, on the thread on which the goroutine is by now.
TakeText(c) ==
  /\ At(c, "text")
  /\ \E t \in MayRunOn(c) :
       Answer(c, IF text[t] = "none" THEN "unknown" ELSE text[t])
  /\ on' = [on EXCEPT ![c] = "none"]
  /\ Goto(c, "returned")
  /\ UNCHANGED <<kind, done, outcome, files>>

-----------------------------------------------------------------------------
(***************************************************************************)
(* Failures in the C code.                                                 *)
(***************************************************************************)
SetText(c) == /\ text' = [text EXCEPT ![on[c]] = c]
              /\ quiet' = [quiet EXCEPT ![c] = FALSE]
NoText(c) == quiet' = [quiet EXCEPT ![c] = TRUE] /\ UNCHANGED text

\* sa_cancelled
Interrupted(c) == /\ done[c]
                  /\ interrupted' = [interrupted EXCEPT ![c] = TRUE]
                  /\ SetText(c)

FailsLoudly(c) == SetText(c) /\ UNCHANGED interrupted
FailsQuietly(c) == NoText(c) /\ UNCHANGED interrupted

\* Any operation but a concatenation.  Slicing sets a text of last resort where
\* it would fail quietly, but only if the thread has no text: either way this
\* is one of the failures below.
RunSucceeds(c) ==
  /\ At(c, "run")
  /\ Goto(c, "succeeded")
  /\ UNCHANGED <<kind, done, on, outcome, files, ret>>

RunFails(c) ==
  /\ At(c, "run")
  /\ Interrupted(c) \/ FailsLoudly(c) \/ FailsQuietly(c)
  /\ Goto(c, "failed")
  /\ UNCHANGED <<kind, done, on, files, ret>>

-----------------------------------------------------------------------------
(***************************************************************************)
(* sa_concat_wav_copy_ctx: the first attempt of a concatenation.           *)
(***************************************************************************)
WriteList(c) ==
  /\ At(c, "list")
  /\ list' = [list EXCEPT ![c] = TRUE]
  /\ Goto(c, "copyOpen")
  /\ UNCHANGED <<kind, done, on, outcome, out, taken, open, ret>>

\* The output is opened after the list, and is empty.
CopyOpen(c) ==
  /\ At(c, "copyOpen") /\ ~ done[c]
  /\ out' = [out EXCEPT ![c] = <<>>] /\ taken' = [taken EXCEPT ![c] = 0]
  /\ Goto(c, "copy")
  /\ UNCHANGED <<kind, done, on, outcome, list, open, ret>>

\* The next input goes to the output, behind what is there.
TakeInput(c) ==
  /\ taken' = [taken EXCEPT ![c] = @ + 1]
  /\ out' = [out EXCEPT ![c] = Append(@, taken[c] + 1)]

CopyInput(c) ==
  /\ At(c, "copy") /\ taken[c] < Inputs /\ ~ done[c]
  /\ TakeInput(c)
  /\ UNCHANGED <<kind, done, pc, on, outcome, list, open, ret>>

CopySucceeds(c) ==
  /\ At(c, "copy") /\ taken[c] = Inputs
  /\ list' = [list EXCEPT ![c] = FALSE]
  /\ Goto(c, "succeeded")
  /\ UNCHANGED <<kind, done, on, outcome, out, taken, open, ret>>

\* Writing the list, opening and copying fail here; `done:` removes the list.
CopyFails(c) ==
  /\ pc[c] \in {"list", "copyOpen", "copy"}
  /\ \/ FailsLoudly(c)
     \/ ~ At(c, "list") /\ Interrupted(c)
     \/ At(c, "copyOpen") /\ FailsQuietly(c)
  /\ list' = [list EXCEPT ![c] = FALSE]
  /\ Goto(c, "again")
  /\ UNCHANGED <<kind, done, on, out, taken, open, ret>>

-----------------------------------------------------------------------------
(***************************************************************************)
(* sa_concat_wav_reencode_with_threads_ctx: the second, after any failure  *)
(* of the first.                                                           *)
(***************************************************************************)
\* sa_error[0] = '\0'
Again(c) ==
  /\ At(c, "again")
  /\ text' = [text EXCEPT ![on[c]] = "none"]
  /\ Goto(c, "peek")
  /\ UNCHANGED <<kind, done, on, quiet, interrupted, files, ret>>

\* The first input is opened to learn its sample rate.  Failing is no error
\* here, but sets a text; what was opened before the failure stays open.
Peek(c) ==
  /\ At(c, "peek")
  /\ \/ ~ done[c] /\ UNCHANGED <<text, quiet, open>>
     \/ SetText(c) /\ \E half \in BOOLEAN : open' = [open EXCEPT ![c] = half]
  /\ Goto(c, "reopen")
  /\ UNCHANGED <<kind, done, on, interrupted, out, taken, list, ret>>

\* Faulty variant: the second attempt goes on in the file of the first.
ReopenedKept(c) == out[c]

\* avio_open(AVIO_FLAG_WRITE) truncates.
Reopened(c) == <<>>

Reopen(c) ==
  /\ At(c, "reopen")
  /\ out' = [out EXCEPT ![c] = Reopened(c)] /\ taken' = [taken EXCEPT ![c] = 0]
  /\ Goto(c, "encode")
  /\ UNCHANGED <<kind, done, on, outcome, list, open, ret>>

EncodeInput(c) ==
  /\ At(c, "encode") /\ taken[c] < Inputs /\ ~ done[c]
  /\ TakeInput(c)
  /\ UNCHANGED <<kind, done, pc, on, outcome, list, open, ret>>

EncodeSucceeds(c) ==
  /\ At(c, "encode") /\ taken[c] = Inputs /\ ~ done[c]
  /\ Goto(c, "succeeded")
  /\ UNCHANGED <<kind, done, on, outcome, files, ret>>

EncodeFails(c) ==
  /\ \/ At(c, "reopen") /\ FailsLoudly(c)
     \/ At(c, "encode") /\ (Interrupted(c) \/ FailsLoudly(c) \/ FailsQuietly(c))
  /\ Goto(c, "failed")
  /\ UNCHANGED <<kind, done, on, files, ret>>

Finished == (\A c \in Calls : At(c, "returned")) /\ UNCHANGED vars

-----------------------------------------------------------------------------
Next ==
  \/ \E c \in Calls :
       \/ Cancel(c) \/ Enter(c) \/ Check(c) \/ TakeText(c)
       \/ RunSucceeds(c) \/ RunFails(c)
       \/ WriteList(c) \/ CopyOpen(c) \/ CopyInput(c) \/ CopySucceeds(c) \/ CopyFails(c)
       \/ Again(c) \/ Peek(c) \/ Reopen(c)
       \/ EncodeInput(c) \/ EncodeSucceeds(c) \/ EncodeFails(c)
  \/ Finished

Spec == Init /\ [][Next]_vars

-----------------------------------------------------------------------------
(***************************************************************************)
(* Properties.                                                             *)
(***************************************************************************)
Failed(c) == ret[c] \in Calls \cup {"unknown"}

\* The text with which a call fails tells of its own failure, whatever ran at
\* the same time or before on the thread; a concatenation's text tells of no
\* other call even when its failure set none.
ErrorIsOwn ==
  \A c \in Calls : Failed(c) =>
    /\ ~ quiet[c] => ret[c] = c
    /\ kind[c] = "concat" => ret[c] \in {c, "unknown"}

\* A call that found its context done fails with the context's error and
\* never with a text; what the retry of a concatenation then does neither
\* hides that nor turns it into success.
CancellationNamed ==
  \A c \in Calls : interrupted[c] => ret[c] \in {"none", "ctx"}

\* A concatenation that returns no error has put every input into its output
\* once and in order, whichever attempt did it and wherever the other stopped,
\* and it leaves no list file in either case.
ConcatWhole ==
  \A c \in Calls :
    /\ kind[c] = "concat" /\ ret[c] = "nil" => out[c] = [i \in 1 .. Inputs |-> i]
    /\ At(c, "returned") => ~ list[c]

\* No call leaves an input open (CONTRACT.md: "The C layer owns FFmpeg object
\* lifetimes").
InputsClosed == \A c \in Calls : At(c, "returned") => ~ open[c]
=============================================================================
