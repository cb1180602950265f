--------------------------- MODULE RenderPipeline ---------------------------
(***************************************************************************)
(* What one rendering operation of the libav backend does with the samples *)
(* of a recording: sa_render_filter_to_output and sa_decode_filter_run of  *)
(* smartaudio_libav.c, under its wrapper in libavshim.go (TranscodeToWAV,  *)
(* ExportWAV, RenderIntervalsToWAV and EncodeAudio are this operation with *)
(* different filters and encoders).  Samples travel from the demuxer       *)
(* through decoder, filter, FIFO and encoder to the file.                  *)
(*                                                                         *)
(* Each stage is external and keeps the order of its samples, so it is     *)
(* abstracted to how many it holds: it gives them out in portions of its   *)
(* choice, and may keep any of them until it is flushed.  What is modelled *)
(* is the code's part: who is fed when, which loop ends when, and what     *)
(* each outcome leads to.  The filter lets `room` samples through and then *)
(* reports its end (atrim); those it drops at the start are not counted.   *)
(***************************************************************************)
EXTENDS Naturals, Sequences

CONSTANTS
  Recordings,  \* sequences of packets: samples in it, 0 for another stream's
  Rooms,       \* samples the filter may let through
  FrameSizes   \* of the encoder; 0 for one that takes frames of any size

ASSUME RenderAssumption ==
  /\ Recordings \subseteq Seq(Nat)
  /\ Rooms \subseteq Nat
  /\ FrameSizes \subseteq Nat

VARIABLES
  frameSize,  \* out->enc->frame_size, or 0: rigid
  cancelled,  \* the context is done
  phase,      \* the loop or statement the operation is at
  callback,   \* the loop that called sa_write_frame_cb
  packets,    \* what the demuxer has left
  limit,      \* samples the filter lets through: rigid
  room,       \* those of them that it has not yet let through
  fed,        \* samples sent to the decoder
  decoder, filter, fifo, encoder,  \* samples held by each stage
  written,    \* samples in the file
  lastFrame,  \* size of the last frame sent to the encoder
  uneven,     \* a frame before it was not of frameSize
  swallowed,  \* an error of the decoder at its flush was overwritten
  file,       \* the output: absent, partial or complete
  ret         \* "none", or what the wrapper returned

stages == <<fed, decoder, filter, fifo, encoder, written>>
frames == <<lastFrame, uneven>>
vars == <<frameSize, cancelled, phase, callback, packets, limit, room, stages, frames,
          swallowed, file, ret>>

AtMost(k, bound) == IF k < bound THEN k ELSE bound

\* A faulty variant: the FIFO is used whatever the frame size.
UsesFifoAlways == TRUE

\* ctx->fifo && ctx->frame_size > 0
UsesFifo == frameSize > 0

Init ==
  /\ frameSize \in FrameSizes
  /\ cancelled = FALSE
  /\ phase = "begin" /\ callback = "none"
  /\ packets \in Recordings
  /\ limit \in Rooms /\ room = limit
  /\ fed = 0 /\ written = 0
  /\ decoder = 0 /\ filter = 0 /\ fifo = 0 /\ encoder = 0
  /\ lastFrame = 0 /\ uneven = FALSE
  /\ swallowed = FALSE
  /\ file = "absent"
  /\ ret = "none"

At(p) == phase = p
Goto(p) == phase' = p

\* The context may be done at any time.
Cancel ==
  /\ ret = "none" /\ ~ cancelled
  /\ cancelled' = TRUE
  /\ UNCHANGED <<frameSize, phase, callback, packets, limit, room, stages, frames,
                 swallowed, file, ret>>

\* The checks of the context in the loops: sa_cancelled.
Goes == ~ cancelled

-----------------------------------------------------------------------------
(***************************************************************************)
(* The start: the wrapper and sa_render_filter_to_output.                  *)
(***************************************************************************)
\* LibavBackend returns the context's error before the shim is called.
Begin ==
  /\ At("begin")
  /\ IF cancelled THEN ret' = "ctx" /\ Goto("returned")
                  ELSE Goto("open") /\ UNCHANGED ret
  /\ UNCHANGED <<frameSize, cancelled, callback, packets, limit, room, stages, frames,
                 swallowed, file>>

\* The output is opened first, then the input, decoder and filter.
Open ==
  /\ At("open") /\ Goes
  /\ file' = "partial" /\ Goto("read")
  /\ UNCHANGED <<frameSize, cancelled, callback, packets, limit, room, stages, frames,
                 swallowed, ret>>

\* The call that the code makes next fails: every stage is closed, and whatever
\* is in the file stays there.
Working == phase \notin {"begin", "returned", "failed", "written"}

Fail ==
  /\ Working
  /\ Goto("failed")
  /\ \/ file' = file
     \/ At("open") /\ file' = "partial"
  /\ UNCHANGED <<frameSize, cancelled, callback, packets, limit, room, stages, frames,
                 swallowed, ret>>

\* The context is done, and a check or the interrupt callback sees it.
Interrupted == cancelled /\ Fail

-----------------------------------------------------------------------------
(***************************************************************************)
(* sa_decode_filter_run.                                                   *)
(***************************************************************************)
\* av_read_frame: a packet of another stream is dropped, one of the audio
\* stream goes to the decoder.
ReadPacket ==
  /\ At("read") /\ packets # <<>> /\ Goes
  /\ packets' = Tail(packets)
  /\ decoder' = decoder + Head(packets) /\ fed' = fed + Head(packets)
  /\ Goto(IF Head(packets) = 0 THEN "read" ELSE "decode")
  /\ UNCHANGED <<frameSize, cancelled, callback, limit, room, filter, fifo, encoder,
                 written, frames, swallowed, file, ret>>

\* The end of the input: the decoder is flushed.
ReadEnd ==
  /\ At("read") /\ packets = <<>>
  /\ Goto("flush")
  /\ UNCHANGED <<frameSize, cancelled, callback, packets, limit, room, stages, frames,
                 swallowed, file, ret>>

\* A frame of n samples goes from the decoder to the filter, which takes what
\* it has room for, or has reported its end: then the rest of the recording
\* is not read.
Feed(n, next) ==
  /\ decoder' = decoder - n
  /\ filter' = filter + AtMost(n, room)
  /\ room' = room - AtMost(n, room)
  /\ \/ Goto(next)
     \/ room = 0 /\ Goto("drain")

DecodeFrame ==
  /\ At("decode") /\ Goes
  /\ \E n \in 1 .. decoder : Feed(n, "sink")
  /\ UNCHANGED <<frameSize, cancelled, callback, packets, limit, fed, fifo, encoder,
                 written, frames, swallowed, file, ret>>

\* EAGAIN: the decoder wants another packet.
DecodeAgain ==
  /\ At("decode")
  /\ Goto("read")
  /\ UNCHANGED <<frameSize, cancelled, callback, packets, limit, room, stages, frames,
                 swallowed, file, ret>>

\* The flush of the decoder does not visit the sink in between.
FlushFrame ==
  /\ At("flush") /\ Goes
  /\ \E n \in 1 .. decoder : Feed(n, "flush")
  /\ UNCHANGED <<frameSize, cancelled, callback, packets, limit, fed, fifo, encoder,
                 written, frames, swallowed, file, ret>>

FlushEnd ==
  /\ At("flush") /\ decoder = 0
  /\ Goto("drain")
  /\ UNCHANGED <<frameSize, cancelled, callback, packets, limit, room, stages, frames,
                 swallowed, file, ret>>

\* The loop also ends with an error of avcodec_receive_frame, and ret is
\* assigned again at once.
FlushError ==
  /\ At("flush") /\ decoder > 0
  /\ swallowed' = TRUE
  /\ Goto("drain")
  /\ UNCHANGED <<frameSize, cancelled, callback, packets, limit, room, stages, frames,
                 file, ret>>

\* av_buffersrc_add_frame_flags(NULL)
Drain ==
  /\ At("drain")
  /\ Goto("drained")
  /\ UNCHANGED <<frameSize, cancelled, callback, packets, limit, room, stages, frames,
                 swallowed, file, ret>>

\* EAGAIN, or the end of the filter.
SinkAgain ==
  /\ At("sink")
  /\ Goto("decode")
  /\ UNCHANGED <<frameSize, cancelled, callback, packets, limit, room, stages, frames,
                 swallowed, file, ret>>

\* A faulty variant: the filter is asked once when it is drained.
DrainedAny == TRUE

\* The loop takes all that a drained filter has.
Drained == filter = 0

DrainEnd ==
  /\ At("drained") /\ Drained
  /\ Goto("flushFifo")
  /\ UNCHANGED <<frameSize, cancelled, callback, packets, limit, room, stages, frames,
                 swallowed, file, ret>>

-----------------------------------------------------------------------------
(***************************************************************************)
(* sa_write_frame_cb, sa_encode_fifo_frame and sa_encode_frame.            *)
(***************************************************************************)
\* A frame of n samples goes to the encoder; packets come out, or not yet.
Encode(n) ==
  /\ Goes
  /\ \E kept \in 0 .. encoder + n :
       encoder' = kept /\ written' = written + encoder + n - kept
  /\ uneven' = (uneven \/ lastFrame \notin {0, frameSize})
  /\ lastFrame' = n

\* A frame of n samples comes from the sink, in either loop.
SinkFrame ==
  /\ phase \in {"sink", "drained"} /\ Goes
  /\ \E n \in 1 .. filter :
       /\ filter' = filter - n
       /\ IF UsesFifo
          THEN /\ fifo' = fifo + n /\ callback' = phase /\ Goto("callback")
               /\ UNCHANGED <<encoder, written, frames>>
          ELSE Encode(n) /\ UNCHANGED <<fifo, callback, phase>>
  /\ UNCHANGED <<frameSize, cancelled, packets, limit, room, fed, decoder, swallowed,
                 file, ret>>

\* A faulty variant: an `if` in place of the `while`.
AfterFullFrameLeave == callback

AfterFullFrame == phase

\* while (av_audio_fifo_size(ctx->fifo) >= ctx->frame_size)
FullFrame ==
  /\ At("callback") /\ fifo >= frameSize
  /\ Encode(frameSize)
  /\ fifo' = fifo - frameSize
  /\ Goto(AfterFullFrame)
  /\ UNCHANGED <<frameSize, cancelled, callback, packets, limit, room, fed, decoder,
                 filter, swallowed, file, ret>>

CallbackEnd ==
  /\ At("callback") /\ fifo < frameSize
  /\ Goto(callback) /\ callback' = "none"
  /\ UNCHANGED <<frameSize, cancelled, packets, limit, room, stages, frames, swallowed,
                 file, ret>>

-----------------------------------------------------------------------------
(***************************************************************************)
(* The end: sa_write_ctx_flush, the trailer, the wrapper.                  *)
(***************************************************************************)
\* av_audio_fifo_size(ctx->fifo)
Remaining == fifo

FlushFifo ==
  /\ At("flushFifo")
  /\ IF Remaining > 0
     THEN Encode(Remaining) /\ fifo' = fifo - Remaining
     ELSE UNCHANGED <<fifo, encoder, written, frames>>
  /\ Goto("flushEncoder")
  /\ UNCHANGED <<frameSize, cancelled, callback, packets, limit, room, fed, decoder,
                 filter, swallowed, file, ret>>

\* sa_encode_frame(NULL): the encoder gives out all it has.
FlushEncoder ==
  /\ At("flushEncoder") /\ Goes
  /\ encoder' = 0 /\ written' = written + encoder
  /\ Goto("trailer")
  /\ UNCHANGED <<frameSize, cancelled, callback, packets, limit, room, fed, decoder,
                 filter, fifo, frames, swallowed, file, ret>>

WriteTrailer ==
  /\ At("trailer")
  /\ file' = "complete"
  /\ Goto("written")
  /\ UNCHANGED <<frameSize, cancelled, callback, packets, limit, room, stages, frames,
                 swallowed, ret>>

\* The wrapper: a context that is done takes precedence over both outcomes.
Return ==
  /\ phase \in {"failed", "written"}
  /\ ret' = CASE cancelled -> "ctx" [] phase = "failed" -> "own" [] OTHER -> "nil"
  /\ Goto("returned")
  /\ UNCHANGED <<frameSize, cancelled, callback, packets, limit, room, stages, frames,
                 swallowed, file>>

Finished == At("returned") /\ UNCHANGED vars

-----------------------------------------------------------------------------
Step == \/ Begin \/ Open \/ Interrupted
        \/ ReadPacket \/ ReadEnd \/ DecodeFrame \/ DecodeAgain \/ SinkFrame \/ SinkAgain
        \/ FlushFrame \/ FlushEnd \/ FlushError \/ Drain \/ DrainEnd
        \/ FullFrame \/ CallbackEnd
        \/ FlushFifo \/ FlushEncoder \/ WriteTrailer \/ Return

Next == Cancel \/ Fail \/ Step \/ Finished

\* One thread runs the operation, and the libraries' calls return; none of them
\* has to fail, so Fail is not under fairness.
Spec == Init /\ [][Next]_vars /\ WF_vars(Step)

-----------------------------------------------------------------------------
(***************************************************************************)
(* Properties.                                                             *)
(***************************************************************************)
\* An operation that returns no error has written a complete file with every
\* sample of the recording that the filter lets through, however the stages
\* held them back, and stopped reading early only when the filter was full.
\* The one exception in the code is a decoder that fails while it is flushed.
WholeOutput ==
  ret = "nil" =>
    /\ file = "complete"
    /\ swallowed \/ written = AtMost(fed, limit)
    /\ packets # <<>> => written = limit

\* An encoder of a fixed frame size gets full frames only, except for the last
\* one, which is not larger; between two reads the FIFO holds
\* less than a frame.
FramesFit ==
  frameSize > 0 =>
    /\ ~ uneven /\ lastFrame <= frameSize
    /\ phase \notin {"callback", "failed", "returned"} => fifo < frameSize

\* The operation returns, with or without cancellation.
Terminates == <>(At("returned"))
=============================================================================
