------------------------ MODULE RenderPipelineProofs ------------------------
(***************************************************************************)
(* Proofs about RenderPipeline, for recordings of any number of packets of *)
(* any size, filters that let any number of samples through, and encoders  *)
(* of any frame size.                                                      *)
(***************************************************************************)
EXTENDS RenderPipeline, SequenceTheorems, TLAPS

Phases == {"begin", "open", "read", "decode", "sink", "callback", "flush", "drain",
           "drained", "flushFifo", "flushEncoder", "trailer", "written", "failed",
           "returned"}

TypeInv ==
  /\ frameSize \in Nat /\ cancelled \in BOOLEAN
  /\ phase \in Phases /\ callback \in {"none", "sink", "drained"}
  /\ packets \in Seq(Nat) /\ limit \in Nat /\ room \in Nat
  /\ fed \in Nat /\ decoder \in Nat /\ filter \in Nat /\ fifo \in Nat
  /\ encoder \in Nat /\ written \in Nat
  /\ lastFrame \in Nat /\ uneven \in BOOLEAN /\ swallowed \in BOOLEAN
  /\ file \in {"absent", "partial", "complete"}
  /\ ret \in {"none", "nil", "own", "ctx"}

\* No sample is lost or made on the way: what has left the decoder has come to
\* the filter, and what this has let through is in one of the stages after it.
LetThrough == filter + fifo + encoder + written

SamplesInv ==
  /\ decoder <= fed
  /\ room + AtMost(fed - decoder, limit) = limit
  /\ room + LetThrough = limit

\* Nothing is missing that could still come to the filter, unless the decoder
\* has failed at its flush.
InputOver == room = 0 \/ (packets = <<>> /\ (decoder = 0 \/ swallowed))

\* The operation is at one of the phases P, or has returned success.
AtOrDone(P) == phase \in P \/ ret = "nil"

\* Which stages are empty, and for good, at which phase.
EmptyInv ==
  /\ phase = "flush" => packets = <<>>
  /\ AtOrDone({"drain", "drained", "flushFifo", "flushEncoder", "trailer", "written"})
       => InputOver
  /\ phase = "callback" => /\ frameSize > 0 /\ callback \in {"sink", "drained"}
                           /\ callback = "drained" => InputOver
  /\ AtOrDone({"flushFifo", "flushEncoder", "trailer", "written"}) => filter = 0
  /\ AtOrDone({"flushEncoder", "trailer", "written"}) => fifo = 0
  /\ AtOrDone({"trailer", "written"}) => encoder = 0
  /\ AtOrDone({"written"}) => file = "complete"
  /\ ret # "none" => phase = "returned"

\* Until the FIFO is flushed every frame was a full one, and the loop of the
\* callback has left less than a frame.
FrameInv ==
  /\ frameSize = 0 => fifo = 0
  /\ frameSize > 0 =>
       /\ ~ uneven /\ lastFrame <= frameSize
       /\ phase \notin {"callback", "failed", "returned"} => fifo < frameSize
       /\ phase \notin {"flushEncoder", "trailer", "written", "failed", "returned"} =>
            lastFrame \in {0, frameSize}

IInv == TypeInv /\ SamplesInv /\ EmptyInv /\ FrameInv

-----------------------------------------------------------------------------
(***************************************************************************)
(* Steps.                                                                  *)
(***************************************************************************)
LEMMA Steps ==
  ASSUME [Next]_vars
  PROVE  \/ Cancel \/ Fail \/ Begin \/ Open
         \/ ReadPacket \/ ReadEnd \/ DecodeFrame \/ DecodeAgain \/ SinkFrame \/ SinkAgain
         \/ FlushFrame \/ FlushEnd \/ FlushError \/ Drain \/ DrainEnd
         \/ FullFrame \/ CallbackEnd
         \/ FlushFifo \/ FlushEncoder \/ WriteTrailer \/ Return
         \/ UNCHANGED vars
BY DEF Next, Step, Interrupted, Finished

\* Most steps leave the samples where they are.
Quiet == \/ Cancel \/ Fail \/ Begin \/ Open \/ ReadEnd \/ DecodeAgain \/ SinkAgain
         \/ FlushEnd \/ FlushError \/ Drain \/ DrainEnd \/ CallbackEnd \/ WriteTrailer
         \/ Return

LEMMA QuietFrame ==
  ASSUME Quiet
  PROVE  UNCHANGED <<frameSize, packets, limit, room, fed, decoder, filter, fifo, encoder,
                     written, lastFrame, uneven>>
BY DEF Quiet, Cancel, Fail, Begin, Open, ReadEnd, DecodeAgain, SinkAgain, FlushEnd,
       FlushError, Drain, DrainEnd, CallbackEnd, WriteTrailer, Return, stages, frames

\* A frame that goes to the encoder is in it or, with others, in the file.
LEMMA EncodeEffect ==
  ASSUME TypeInv, NEW n \in Nat, Encode(n)
  PROVE  /\ \E kept \in Nat :
              /\ encoder' = kept /\ kept <= encoder + n
              /\ written' = written + encoder + n - kept
         /\ encoder' \in Nat /\ written' \in Nat
         /\ lastFrame' = n
         /\ uneven' = (uneven \/ lastFrame \notin {0, frameSize})
<1>1. PICK kept \in 0 .. encoder + n :
        encoder' = kept /\ written' = written + encoder + n - kept
  BY DEF Encode
<1>2. kept \in Nat /\ kept <= encoder + n
  BY <1>1 DEF TypeInv
<1> QED
  BY <1>1, <1>2 DEF Encode, TypeInv

\* Two portions are let through as one would be.
LEMMA AtMostAdds ==
  ASSUME NEW j \in Nat, NEW k \in Nat, NEW bound \in Nat
  PROVE  AtMost(j + k, bound) = AtMost(j, bound) + AtMost(k, bound - AtMost(j, bound))
BY DEF AtMost

\* Samples that move on behind the filter.
LEMMA SamplesMove ==
  ASSUME TypeInv, SamplesInv, UNCHANGED <<limit, room, fed, decoder>>,
         LetThrough' = LetThrough
  PROVE  SamplesInv'
BY DEF SamplesInv, AtMost

\* What leaves the decoder enters the filter, as far as this has room for it.
LEMMA FeedEffect ==
  ASSUME TypeInv, SamplesInv, NEW n \in 1 .. decoder, NEW p, Feed(n, p),
         UNCHANGED <<limit, fed, fifo, encoder, written>>
  PROVE  /\ decoder' \in Nat /\ filter' \in Nat /\ room' \in Nat
         /\ SamplesInv'
<1>1. n \in Nat /\ n >= 1 /\ n <= decoder
  BY DEF TypeInv
<1>2. /\ decoder' = decoder - n
      /\ filter' = filter + AtMost(n, room)
      /\ room' = room - AtMost(n, room)
  BY DEF Feed
<1>3. AtMost(n, room) \in Nat /\ AtMost(n, room) <= room
  BY <1>1 DEF TypeInv, AtMost
<1>4. /\ fed - decoder \in Nat /\ limit \in Nat
      /\ room = limit - AtMost(fed - decoder, limit)
      /\ AtMost(fed - decoder, limit) \in Nat
  BY DEF TypeInv, SamplesInv, AtMost
<1>5. AtMost((fed - decoder) + n, limit) = AtMost(fed - decoder, limit) + AtMost(n, room)
  BY <1>1, <1>4, AtMostAdds
<1>6. fed' - decoder' = (fed - decoder) + n /\ decoder' <= fed'
  BY <1>1, <1>2 DEF TypeInv, SamplesInv
<1>7. room' + AtMost(fed' - decoder', limit') = limit'
  BY <1>2, <1>3, <1>4, <1>5, <1>6 DEF TypeInv, AtMost
<1>8. LetThrough \in Nat /\ LetThrough' = LetThrough + AtMost(n, room)
  BY <1>2, <1>3 DEF TypeInv, LetThrough
<1>9. room' + LetThrough' = limit'
  <2>1. PICK m \in Nat, l \in Nat, r \in Nat : m = AtMost(n, room) /\ l = LetThrough /\ r = room
    BY <1>3, <1>8 DEF TypeInv
  <2>2. r + l = limit
    BY <2>1 DEF SamplesInv
  <2>3. (r - m) + (l + m) = limit
    BY <2>2
  <2> QED
    BY <1>2, <1>8, <2>1, <2>3
<1> QED
  BY <1>1, <1>2, <1>3, <1>6, <1>7, <1>9 DEF TypeInv, SamplesInv, AtMost

-----------------------------------------------------------------------------
(***************************************************************************)
(* Types and samples.                                                      *)
(***************************************************************************)
LEMMA InitTypeInv == Init => TypeInv
<1> SUFFICES ASSUME Init PROVE TypeInv
  OBVIOUS
<1>1. frameSize \in Nat /\ packets \in Seq(Nat) /\ limit \in Nat /\ room \in Nat
  BY RenderAssumption DEF Init
<1> QED
  BY <1>1 DEF Init, TypeInv, Phases

LEMMA InitSamplesInv == Init => SamplesInv
BY RenderAssumption DEF Init, SamplesInv, LetThrough, AtMost

\* The two together: what a stage holds is no negative number because it is no
\* more than came to it.
LEMMA NextSamplesInv ==
  TypeInv /\ SamplesInv /\ EmptyInv /\ [Next]_vars => TypeInv' /\ SamplesInv'
<1> SUFFICES ASSUME TypeInv, SamplesInv, EmptyInv, [Next]_vars PROVE TypeInv' /\ SamplesInv'
  OBVIOUS
<1> USE DEF At, Goto, Phases
<1>1. CASE Quiet
  <2>1. SamplesInv'
    BY <1>1, QuietFrame DEF SamplesInv, LetThrough, AtMost
  <2>2. UNCHANGED <<frameSize, packets, limit, room, fed, decoder, filter, fifo, encoder,
                    written, lastFrame, uneven>>
    BY <1>1, QuietFrame
  <2>3. phase' \in Phases /\ callback' \in {"none", "sink", "drained"}
    BY <1>1 DEF Quiet, Cancel, Fail, Begin, Open, ReadEnd, DecodeAgain, SinkAgain, FlushEnd,
       FlushError, Drain, DrainEnd, CallbackEnd, WriteTrailer, Return, TypeInv, EmptyInv
  <2>4. cancelled' \in BOOLEAN /\ swallowed' \in BOOLEAN
    BY <1>1 DEF Quiet, Cancel, Fail, Begin, Open, ReadEnd, DecodeAgain, SinkAgain, FlushEnd,
       FlushError, Drain, DrainEnd, CallbackEnd, WriteTrailer, Return, TypeInv
  <2>5. /\ file' \in {"absent", "partial", "complete"}
        /\ ret' \in {"none", "nil", "own", "ctx"}
    BY <1>1 DEF Quiet, Cancel, Fail, Begin, Open, ReadEnd, DecodeAgain, SinkAgain, FlushEnd,
       FlushError, Drain, DrainEnd, CallbackEnd, WriteTrailer, Return, TypeInv
  <2> QED
    BY <2>1, <2>2, <2>3, <2>4, <2>5 DEF TypeInv
<1>2. CASE ReadPacket
  <2>1. Head(packets) \in Nat /\ Tail(packets) \in Seq(Nat)
    BY <1>2, HeadTailProperties DEF ReadPacket, TypeInv
  <2>2. TypeInv'
    BY <1>2, <2>1 DEF ReadPacket, TypeInv, frames
  <2>3. fed' - decoder' = fed - decoder /\ decoder' <= fed'
    BY <1>2, <2>1 DEF ReadPacket, TypeInv, SamplesInv
  <2>4. UNCHANGED <<limit, room, filter, fifo, encoder, written>>
    BY <1>2 DEF ReadPacket
  <2> QED
    BY <2>2, <2>3, <2>4 DEF SamplesInv, LetThrough, AtMost
<1>3. CASE DecodeFrame \/ FlushFrame
  <2>1. PICK n \in 1 .. decoder, p \in {"sink", "flush"} : Feed(n, p)
    BY <1>3 DEF DecodeFrame, FlushFrame
  <2>2. UNCHANGED <<frameSize, cancelled, callback, packets, limit, fed, fifo, encoder,
                    written, frames, swallowed, file, ret>>
    BY <1>3 DEF DecodeFrame, FlushFrame
  <2>3. phase' \in Phases
    BY <2>1 DEF Feed
  <2>4. /\ decoder' \in Nat /\ filter' \in Nat /\ room' \in Nat
        /\ SamplesInv'
    BY <2>1, <2>2, FeedEffect
  <2> QED
    BY <2>2, <2>3, <2>4 DEF TypeInv, frames
<1>4. CASE SinkFrame
  <2>1. PICK n \in 1 .. filter :
          /\ filter' = filter - n
          /\ IF UsesFifo
             THEN /\ fifo' = fifo + n /\ callback' = phase /\ Goto("callback")
                  /\ UNCHANGED <<encoder, written, frames>>
             ELSE Encode(n) /\ UNCHANGED <<fifo, callback, phase>>
    BY <1>4 DEF SinkFrame
  <2>2. /\ UNCHANGED <<frameSize, cancelled, packets, limit, room, fed, decoder, swallowed,
                       file, ret>>
        /\ phase \in {"sink", "drained"}
    BY <1>4 DEF SinkFrame
  <2>3. n \in Nat /\ n >= 1 /\ n <= filter
    BY DEF TypeInv
  <2>4. CASE UsesFifo
    <3>1. LetThrough' = LetThrough
      BY <2>1, <2>2, <2>3, <2>4 DEF TypeInv, LetThrough
    <3>2. SamplesInv'
      BY <2>2, <3>1, SamplesMove
    <3> QED
      BY <2>1, <2>2, <2>3, <2>4, <3>2 DEF TypeInv, frames
  <2>5. CASE ~ UsesFifo
    <3>1. Encode(n) /\ UNCHANGED <<fifo, callback, phase>>
      BY <2>1, <2>5
    <3>2. /\ encoder' \in Nat /\ written' \in Nat
          /\ lastFrame' = n /\ uneven' \in BOOLEAN
      BY <2>3, <3>1, EncodeEffect DEF TypeInv
    <3>3. LetThrough' = LetThrough
      <4>1. PICK kept \in Nat : encoder' = kept /\ written' = written + encoder + n - kept
        BY <2>3, <3>1, EncodeEffect
      <4> QED
        BY <2>1, <2>3, <3>1, <4>1 DEF TypeInv, LetThrough
    <3>4. SamplesInv'
      BY <2>2, <3>3, SamplesMove
    <3> QED
      BY <2>1, <2>2, <2>3, <3>1, <3>2, <3>4 DEF TypeInv
  <2> QED
    BY <2>4, <2>5
<1>5. CASE FullFrame
  <2>1. /\ fifo >= frameSize /\ Encode(frameSize) /\ fifo' = fifo - frameSize
        /\ phase' = phase
        /\ UNCHANGED <<frameSize, cancelled, callback, packets, limit, room, fed, decoder,
                       filter, swallowed, file, ret>>
    BY <1>5 DEF FullFrame, AfterFullFrame
  <2>2. /\ encoder' \in Nat /\ written' \in Nat
        /\ lastFrame' = frameSize /\ uneven' \in BOOLEAN
    BY <2>1, EncodeEffect DEF TypeInv
  <2>3. LetThrough' = LetThrough
    <3>1. PICK kept \in Nat :
            encoder' = kept /\ written' = written + encoder + frameSize - kept
      BY <2>1, EncodeEffect DEF TypeInv
    <3> QED
      BY <2>1, <3>1 DEF TypeInv, LetThrough
  <2>4. SamplesInv'
    BY <2>1, <2>3, SamplesMove
  <2> QED
    BY <2>1, <2>2, <2>4 DEF TypeInv
<1>6. CASE FlushFifo
  <2>1. /\ phase' = "flushEncoder"
        /\ UNCHANGED <<frameSize, cancelled, callback, packets, limit, room, fed, decoder,
                       filter, swallowed, file, ret>>
    BY <1>6 DEF FlushFifo
  <2>2. CASE fifo > 0
    <3>1. Encode(fifo) /\ fifo' = fifo - fifo
      BY <1>6, <2>2 DEF FlushFifo, Remaining
    <3>2. /\ encoder' \in Nat /\ written' \in Nat
          /\ lastFrame' = fifo /\ uneven' \in BOOLEAN
      BY <3>1, EncodeEffect DEF TypeInv
    <3>3. LetThrough' = LetThrough
      <4>1. PICK kept \in Nat : encoder' = kept /\ written' = written + encoder + fifo - kept
        BY <3>1, EncodeEffect DEF TypeInv
      <4> QED
        BY <2>1, <3>1, <4>1 DEF TypeInv, LetThrough
    <3>4. SamplesInv'
      BY <2>1, <3>3, SamplesMove
    <3> QED
      BY <2>1, <3>1, <3>2, <3>4 DEF TypeInv
  <2>3. CASE ~ fifo > 0
    BY <1>6, <2>1, <2>3 DEF FlushFifo, Remaining, TypeInv, SamplesInv, LetThrough, AtMost, frames
  <2> QED
    BY <2>2, <2>3
<1>7. CASE FlushEncoder
  BY <1>7 DEF FlushEncoder, TypeInv, SamplesInv, LetThrough, AtMost, frames
<1>8. CASE UNCHANGED vars
  BY <1>8 DEF vars, stages, frames, TypeInv, SamplesInv, LetThrough, AtMost
<1> QED
  BY <1>1, <1>2, <1>3, <1>4, <1>5, <1>6, <1>7, <1>8, Steps DEF Quiet

-----------------------------------------------------------------------------
(***************************************************************************)
(* Empty stages.                                                           *)
(***************************************************************************)
LEMMA InitEmptyInv == Init => EmptyInv
BY DEF Init, EmptyInv, AtOrDone

\* A stage is left when it is empty, and nothing comes to it afterwards.
LEMMA NextEmptyInv ==
  TypeInv /\ EmptyInv /\ FrameInv /\ [Next]_vars => EmptyInv'
<1> SUFFICES ASSUME TypeInv, EmptyInv, FrameInv, [Next]_vars PROVE EmptyInv'
  OBVIOUS
<1> USE DEF EmptyInv, AtOrDone, InputOver, At, Goto
<1>1. ASSUME Cancel \/ Begin \/ Open \/ Fail PROVE EmptyInv'
  BY <1>1 DEF Cancel, Begin, Open, Fail, Working, stages, frames
<1>2. ASSUME ReadEnd \/ DecodeAgain \/ SinkAgain \/ FlushEnd \/ Drain \/ DrainEnd
      PROVE  EmptyInv'
  BY <1>2 DEF ReadEnd, DecodeAgain, SinkAgain, FlushEnd, Drain, DrainEnd, Drained, stages,
              frames
<1>3. ASSUME FlushError \/ CallbackEnd \/ WriteTrailer \/ Return PROVE EmptyInv'
  BY <1>3 DEF FlushError, CallbackEnd, WriteTrailer, Return, stages, frames, TypeInv
<1>4. ASSUME ReadPacket PROVE EmptyInv'
  BY <1>4 DEF ReadPacket
<1>5. ASSUME DecodeFrame \/ FlushFrame PROVE EmptyInv'
  <2>1. PICK n \in 1 .. decoder :
          Feed(n, IF phase = "decode" THEN "sink" ELSE "flush")
    BY <1>5 DEF DecodeFrame, FlushFrame
  <2>2. /\ phase \in {"decode", "flush"}
        /\ UNCHANGED <<frameSize, packets, limit, fed, fifo, encoder, swallowed, file, ret>>
    BY <1>5 DEF DecodeFrame, FlushFrame
  <2>3. phase' = "drain" => room = 0 /\ room' = 0
    BY <2>1, <2>2 DEF Feed, AtMost, TypeInv
  <2>4. phase' \in {"sink", "flush", "drain"} /\ (phase' = "flush" => phase = "flush")
    BY <2>1, <2>2 DEF Feed
  <2> QED
    BY <2>2, <2>3, <2>4 DEF TypeInv
<1>6. ASSUME SinkFrame PROVE EmptyInv'
  <2>1. /\ UNCHANGED <<frameSize, packets, room, decoder, swallowed, file, ret>>
        /\ phase \in {"sink", "drained"}
    BY <1>6 DEF SinkFrame
  <2>2. \/ UsesFifo /\ callback' = phase /\ phase' = "callback"
        \/ UNCHANGED <<callback, phase>>
    BY <1>6 DEF SinkFrame
  <2> QED
    BY <2>1, <2>2 DEF UsesFifo
<1>7. ASSUME FullFrame PROVE EmptyInv'
  BY <1>7 DEF FullFrame, AfterFullFrame
<1>8. ASSUME FlushFifo PROVE EmptyInv'
  <2>1. fifo' = 0
    BY <1>8 DEF FlushFifo, Remaining, TypeInv
  <2> QED
    BY <1>8, <2>1 DEF FlushFifo
<1>9. ASSUME FlushEncoder PROVE EmptyInv'
  BY <1>9 DEF FlushEncoder
<1>10. CASE UNCHANGED vars
  BY <1>10 DEF vars, stages, frames
<1> QED
  BY <1>1, <1>2, <1>3, <1>4, <1>5, <1>6, <1>7, <1>8, <1>9, <1>10, Steps

-----------------------------------------------------------------------------
(***************************************************************************)
(* Frame sizes.                                                            *)
(***************************************************************************)
LEMMA InitFrameInv == Init => FrameInv
BY RenderAssumption DEF Init, FrameInv

\* Only the last frame may be short, because only the flush of the FIFO sends
\* one that is not of the encoder's size.
LEMMA NextFrameInv ==
  TypeInv /\ EmptyInv /\ FrameInv /\ [Next]_vars => FrameInv'
<1> SUFFICES ASSUME TypeInv, EmptyInv, FrameInv, [Next]_vars PROVE FrameInv'
  OBVIOUS
<1> USE DEF FrameInv, At, Goto
<1>1. ASSUME Quiet PROVE FrameInv'
  <2>1. UNCHANGED <<frameSize, fifo, lastFrame, uneven>>
    BY <1>1, QuietFrame
  <2>2. phase' = "callback" => phase = "callback"
    BY <1>1 DEF Quiet, Cancel, Fail, Begin, Open, ReadEnd, DecodeAgain, SinkAgain, FlushEnd,
       FlushError, Drain, DrainEnd, CallbackEnd, WriteTrailer, Return, EmptyInv
  <2>3. phase \in {"failed", "returned"} => phase' \in {"failed", "returned"}
    BY <1>1 DEF Quiet, Cancel, Fail, Working, Begin, Open, ReadEnd, DecodeAgain, SinkAgain,
       FlushEnd, FlushError, Drain, DrainEnd, CallbackEnd, WriteTrailer, Return
  <2>4. phase \in {"flushEncoder", "trailer", "written", "failed", "returned"} =>
          phase' \in {"flushEncoder", "trailer", "written", "failed", "returned"}
    BY <1>1 DEF Quiet, Cancel, Fail, Working, Begin, Open, ReadEnd, DecodeAgain, SinkAgain,
       FlushEnd, FlushError, Drain, DrainEnd, CallbackEnd, WriteTrailer, Return
  <2>5. phase = "callback" /\ phase' \notin {"callback", "failed"} => fifo < frameSize
    BY <1>1 DEF Quiet, Cancel, Fail, Begin, Open, ReadEnd, DecodeAgain, SinkAgain, FlushEnd,
       FlushError, Drain, DrainEnd, CallbackEnd, WriteTrailer, Return
  <2> QED
    BY <2>1, <2>2, <2>3, <2>4, <2>5
<1>2. ASSUME ReadPacket \/ DecodeFrame \/ FlushFrame PROVE FrameInv'
  <2>1. UNCHANGED <<frameSize, fifo, lastFrame, uneven>>
    BY <1>2 DEF ReadPacket, DecodeFrame, FlushFrame, frames
  <2>2. phase \in {"read", "decode", "flush"} /\ phase' \in {"read", "decode", "sink", "flush", "drain"}
    BY <1>2 DEF ReadPacket, DecodeFrame, FlushFrame, Feed
  <2> QED
    BY <2>1, <2>2
<1>3. ASSUME SinkFrame PROVE FrameInv'
  <2>1. /\ UNCHANGED frameSize /\ phase \in {"sink", "drained"}
    BY <1>3 DEF SinkFrame
  <2>2. CASE UsesFifo
    BY <1>3, <2>1, <2>2 DEF SinkFrame, UsesFifo, frames
  <2>3. CASE ~ UsesFifo
    BY <1>3, <2>1, <2>3 DEF SinkFrame, UsesFifo, TypeInv
  <2> QED
    BY <2>2, <2>3
<1>4. ASSUME FullFrame PROVE FrameInv'
  <2>1. /\ Encode(frameSize) /\ phase = "callback"
        /\ UNCHANGED <<phase, frameSize>>
    BY <1>4 DEF FullFrame, AfterFullFrame
  <2>2. lastFrame' = frameSize /\ uneven' = (uneven \/ lastFrame \notin {0, frameSize})
    BY <2>1, EncodeEffect DEF TypeInv
  <2>3. frameSize > 0
    BY <2>1 DEF EmptyInv
  <2> QED
    BY <2>1, <2>2, <2>3 DEF TypeInv
<1>5. ASSUME FlushFifo PROVE FrameInv'
  <2>1. /\ phase = "flushFifo" /\ phase' = "flushEncoder" /\ UNCHANGED frameSize
    BY <1>5 DEF FlushFifo
  <2>2. CASE fifo > 0
    <3>1. Encode(fifo) /\ fifo' = fifo - fifo
      BY <1>5, <2>2 DEF FlushFifo, Remaining
    <3>2. lastFrame' = fifo /\ uneven' = (uneven \/ lastFrame \notin {0, frameSize})
      BY <3>1, EncodeEffect DEF TypeInv
    <3>3. fifo' = 0
      BY <3>1 DEF TypeInv
    <3> QED
      BY <2>1, <2>2, <3>2, <3>3 DEF TypeInv
  <2>3. CASE ~ fifo > 0
    BY <1>5, <2>1, <2>3 DEF FlushFifo, Remaining, frames
  <2> QED
    BY <2>2, <2>3
<1>6. ASSUME FlushEncoder PROVE FrameInv'
  BY <1>6 DEF FlushEncoder, frames
<1>7. CASE UNCHANGED vars
  BY <1>7 DEF vars, stages, frames
<1> QED
  BY <1>1, <1>2, <1>3, <1>4, <1>5, <1>6, <1>7, Steps DEF Quiet

-----------------------------------------------------------------------------
(***************************************************************************)
(* The invariant, and what follows from it.                                *)
(***************************************************************************)
LEMMA Invariance == Spec => []IInv
<1>1. Init => IInv
  BY InitTypeInv, InitSamplesInv, InitEmptyInv, InitFrameInv DEF IInv
<1>2. IInv /\ [Next]_vars => IInv'
  BY NextSamplesInv, NextEmptyInv, NextFrameInv DEF IInv
<1> QED
  BY <1>1, <1>2, PTL DEF Spec

\* An operation that returns no error has every sample in its file that the
\* filter lets through, for any recording, filter and encoder, however the
\* stages held samples back (sa_decode_filter_run, sa_write_ctx_flush).
THEOREM OutputIsWhole == Spec => []WholeOutput
<1>1. IInv => WholeOutput
  <2> SUFFICES ASSUME IInv, ret = "nil"
               PROVE  /\ file = "complete"
                      /\ swallowed \/ written = AtMost(fed, limit)
                      /\ packets # <<>> => written = limit
    BY DEF WholeOutput
  <2> USE DEF IInv, TypeInv
  <2>1. /\ file = "complete" /\ filter = 0 /\ fifo = 0 /\ encoder = 0
        /\ room = 0 \/ (packets = <<>> /\ (decoder = 0 \/ swallowed))
    BY DEF EmptyInv, AtOrDone, InputOver
  <2>2. LetThrough = written
    BY <2>1 DEF LetThrough
  <2>3. room + written = limit /\ room + AtMost(fed - decoder, limit) = limit
    BY <2>2 DEF SamplesInv
  <2>4. decoder <= fed
    BY DEF SamplesInv
  <2>5. CASE room = 0
    <3>1. written = limit
      BY <2>3, <2>5
    <3>2. limit <= fed
      BY <2>3, <2>4, <2>5 DEF AtMost
    <3> QED
      BY <2>1, <3>1, <3>2 DEF AtMost
  <2>6. CASE packets = <<>> /\ decoder = 0
    BY <2>1, <2>3, <2>6 DEF AtMost
  <2>7. CASE packets = <<>> /\ swallowed
    BY <2>1, <2>7
  <2> QED
    BY <2>1, <2>5, <2>6, <2>7
<1> QED
  BY <1>1, Invariance, PTL

\* An encoder of a fixed frame size gets frames of that size and a last one that
\* is no larger (sa_write_frame_cb, sa_write_ctx_flush).
THEOREM FramesAlwaysFit == Spec => []FramesFit
<1>1. IInv => FramesFit
  BY DEF IInv, FrameInv, FramesFit
<1> QED
  BY <1>1, Invariance, PTL

=============================================================================
