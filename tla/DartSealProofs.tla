--------------------------- MODULE DartSealProofs ---------------------------
(***************************************************************************)
(* Proofs about DartSeal for every chunk size and every source: the type   *)
(* invariant, the wire format, and that a completed stream is the framing  *)
(* of what the source delivered; then, of SealBuffers, that the generator  *)
(* with its memory behaves like the one without, so that all of this holds *)
(* for it, and seals no frame from bytes that the source overwrote.        *)
(***************************************************************************)
EXTENDS SealBuffers, StreamProofs

(* Frames sealed and held back, when pending is still to go out.           *)
Held == IF pending = NULL THEN 0 ELSE 1

(* Where the bytes after the held-back chunk start.                        *)
Frontier == Base(counter + Held)

(* Before the stream is done every frame is a full one, and the counter    *)
(* counts them as long as the generator runs.                              *)
OutInv ==
    /\ phase # "done" => FullFrames(out, Len(out))
    /\ phase \in Running \union {"start"} => counter = Len(out)

(* The chunk held back is the one after the frames that went out; without  *)
(* one nothing has gone out yet.                                           *)
PendingInv ==
    phase \in {"start", "await", "loop", "flush"} =>
        IF pending = NULL THEN counter = 0
        ELSE pending = Run(Base(counter), ChunkSize)

(* Between events carry is what follows the held-back chunk, up to the     *)
(* last byte delivered; during one, combined holds it from offset on.      *)
CarryInv ==
    /\ phase \in {"start", "await", "flush"} =>
         carry = Run(Frontier, Len(carry)) /\ Frontier + Len(carry) = consumed
    /\ phase = "tail" =>
         /\ carry # << >>
         /\ carry = Run(Base(counter), Len(carry))
         /\ Base(counter) + Len(carry) = consumed
    /\ phase = "loop" =>
         /\ offset <= Frontier
         /\ combined = Run(Frontier - offset, Len(combined))
         /\ Frontier + Remaining = consumed

(* What a completed stream looks like: full frames, then a flagged one     *)
(* with the rest, empty only when it is alone.                             *)
DoneInv ==
    phase = "done" =>
        \E n \in 0..ChunkSize :
            /\ EndsWith(out, n)
            /\ Base(Len(out) - 1) + n = consumed
            /\ n = 0 => Len(out) = 1

(* The final frame is only reached through the end of the source.          *)
EndedInv == phase \in {"flush", "tail", "done"} => ended

IInv == TypeOK /\ OutInv /\ PendingInv /\ CarryInv /\ DoneInv /\ EndedInv

-----------------------------------------------------------------------------
(* The locals of the generator keep their types and their bounds.          *)
LEMMA TypeInit == Init => TypeOK
<1> SUFFICES ASSUME Init PROVE TypeOK
  OBVIOUS
<1>1. /\ << >> \in Seq(Byte) /\ << >> \in Seq(Frame)
      /\ Len(<< >>) = 0 /\ 0 < ChunkSize
  BY ChunkSizePositive
<1>2. phase = "start" /\ counter = 0 /\ offset = 0 /\ consumed = 0 /\ ended = FALSE
  BY DEF Init
<1>3. pending = << >> /\ carry = << >> /\ combined = << >> /\ out = << >>
  BY DEF Init, NULL
<1>4. phase \in {"start"} \union Running \union Terminal
  BY <1>2
<1>5. offset \in 0..Len(combined) /\ Len(carry) < ChunkSize
  BY <1>1, <1>2, <1>3
<1>6. pending \in Chunk /\ carry \in Chunk /\ combined \in Chunk /\ out \in Seq(Frame)
  BY <1>1, <1>3, Zenon DEF Chunk
<1>7. counter \in Nat /\ consumed \in Nat /\ ended \in BOOLEAN /\ pending = NULL
  BY <1>2, <1>3 DEF NULL
<1>8. QED
  BY <1>4, <1>5, <1>6, <1>7, Zenon DEF TypeOK

LEMMA TypeNext == TypeOK /\ [Next]_vars => TypeOK'
<1> SUFFICES ASSUME TypeOK, [Next]_vars PROVE TypeOK'
  OBVIOUS
<1> USE ChunkSizePositive DEF TypeOK, Chunk, NULL, Running, Terminal
<1>1. CASE Refuse
  BY <1>1 DEF Refuse
<1>2. CASE Listen
  BY <1>2 DEF Listen
<1>3. ASSUME NEW n \in 0..MaxEvent, Event(n) PROVE TypeOK'
  <2>1. n \in Nat
    BY SourceBounds
  <2>2. Run(consumed, n) \in Seq(Byte)
    BY <2>1, RunIsSeq
  <2>3. combined' \in Seq(Byte) /\ Len(combined') \in Nat
    BY <1>3, <2>2, ConcatProperties DEF Event
  <2>4. QED
    BY <1>3, <2>1, <2>3 DEF Event
<1>4. CASE TakeChunk
  <2>1. /\ SubSeq(combined, offset + 1, offset + ChunkSize) \in Seq(Byte)
        /\ Len(SubSeq(combined, offset + 1, offset + ChunkSize)) = ChunkSize
    BY <1>4 DEF TakeChunk, FillsChunk, Remaining
  <2>2. offset + ChunkSize \in 0..Len(combined)
    BY <1>4 DEF TakeChunk, FillsChunk, Remaining
  <2>3. counter' \in Nat /\ out' \in Seq(Frame)
    <3>1. CASE pending = NULL
      BY <1>4, <3>1 DEF TakeChunk
    <3>2. CASE pending # NULL
      <4>1. Inner(pending, counter) \in Frame
        BY SealIsFrame
      <4>2. out' = Append(out, Inner(pending, counter)) /\ counter' = counter + 1
        BY <1>4, <3>2 DEF TakeChunk, YieldFrame, Inner, Seal
      <4>3. QED
        BY <4>1, <4>2, AppendFrame
    <3>3. QED
      BY <3>1, <3>2
  <2>4. QED
    BY <1>4, <2>1, <2>2, <2>3 DEF TakeChunk
<1>5. CASE EndEvent
  <2>1. /\ SubSeq(combined, offset + 1, Len(combined)) \in Seq(Byte)
        /\ Len(SubSeq(combined, offset + 1, Len(combined))) < ChunkSize
    BY <1>5 DEF EndEvent, FillsChunk, Remaining
  <2>2. QED
    BY <1>5, <2>1 DEF EndEvent
<1>6. CASE SourceEnds
  BY <1>6 DEF SourceEnds
<1>7. CASE SourceFails
  BY <1>7 DEF SourceFails
<1>8. CASE FlushPending
  BY <1>8 DEF FlushPending, YieldFrame, Seal, Frame
<1>9. CASE FinalCarry
  BY <1>9 DEF FinalCarry, YieldFrame, Seal, Frame
<1>10. CASE FinalPending
  BY <1>10 DEF FinalPending, YieldFrame, Seal, Frame
<1>11. CASE FinalEmpty
  BY <1>11 DEF FinalEmpty, YieldFrame, Seal, Frame
<1>12. CASE SealThrows
  BY <1>12 DEF SealThrows
<1>13. CASE Cancel
  BY <1>13 DEF Cancel
<1>14. CASE UNCHANGED vars
  BY <1>14 DEF vars
<1>15. QED
  BY <1>1, <1>2, <1>3, <1>4, <1>5, <1>6, <1>7, <1>8, <1>9, <1>10, <1>11, <1>12,
     <1>13, <1>14 DEF Next, Step

(* In every behaviour the leftover is shorter than a chunk, what is held   *)
(* back is a whole one, and the slices taken stay inside the event.        *)
THEOREM TypeCorrect == Spec => []TypeOK
BY TypeInit, TypeNext, PTL DEF Spec

-----------------------------------------------------------------------------
(* The frame that a yield appends, in the terms of the lemmas.             *)
LEMMA YieldInner ==
    ASSUME pending = Run(Base(counter), ChunkSize), counter = Len(out),
           YieldFrame(pending, FALSE)
    PROVE  out' = Append(out, FullAt(Len(out))) /\ counter' = counter + 1
BY DEF YieldFrame, FullAt, Inner, Seal

LEMMA YieldLast ==
    ASSUME NEW n \in Nat, NEW chunk, chunk = Run(Base(counter), n), counter = Len(out),
           YieldFrame(chunk, TRUE)
    PROVE  out' = Append(out, LastAt(Len(out), n)) /\ counter' = counter + 1
BY DEF YieldFrame, LastAt, Final, Seal

(* Where the bytes after the held-back chunk start.                        *)
LEMMA FrontierIs ==
    ASSUME TypeOK
    PROVE  /\ Frontier \in Nat
           /\ pending = NULL => Frontier = Base(counter)
           /\ pending # NULL => Frontier = Base(counter + 1)
           /\ Frontier = Base(counter) \/ Frontier = Base(counter) + ChunkSize
<1>1. counter \in Nat /\ counter + 1 \in Nat /\ counter + 0 = counter
  BY DEF TypeOK
<1>2. CASE pending = NULL
  <2>1. counter + Held = counter
    BY <1>1, <1>2 DEF Held
  <2>2. Frontier = Base(counter)
    BY <2>1, Zenon DEF Frontier
  <2>3. QED
    BY <1>1, <1>2, <2>2, BaseStep
<1>3. CASE pending # NULL
  <2>1. counter + Held = counter + 1
    BY <1>1, <1>3 DEF Held
  <2>2. Frontier = Base(counter + 1)
    BY <2>1, Zenon DEF Frontier
  <2>3. Base(counter + 1) \in Nat /\ Base(counter + 1) = Base(counter) + ChunkSize
    BY <1>1, BaseStep
  <2>4. QED
    BY <1>3, <2>2, <2>3
<1>4. QED
  BY <1>2, <1>3

LEMMA FrontierStays == UNCHANGED <<counter, pending>> => Frontier' = Frontier
<1>1. ASSUME UNCHANGED <<counter, pending>> PROVE Frontier' = Frontier
  <2>1. counter' = counter /\ Held' = Held
    BY <1>1 DEF Held
  <2>2. QED
    BY <2>1, Zenon DEF Frontier
<1>2. QED
  BY <1>1

LEMMA IInvInit == Init => IInv
<1> SUFFICES ASSUME Init PROVE IInv
  OBVIOUS
<1> USE DEF Init
<1>1. TypeOK
  BY TypeInit
<1>2. OutInv
  BY DEF OutInv, FullFrames
<1>3. PendingInv
  BY DEF PendingInv
<1>4. CarryInv
  <2>1. Frontier = 0
    BY BaseStep DEF Frontier, Held
  <2>2. Run(0, 0) = << >>
    BY RunEmpty
  <2>3. QED
    BY <2>1, <2>2 DEF CarryInv
<1>5. DoneInv /\ EndedInv
  BY DEF DoneInv, EndedInv
<1>6. QED
  BY <1>1, <1>2, <1>3, <1>4, <1>5 DEF IInv

(* Listening, the end of the source, and everything that ends the          *)
(* generator without a frame leave the data alone.                         *)
LEMMA IInvQuiet ==
    ASSUME IInv, TypeOK',
           UNCHANGED <<pending, carry, combined, offset, consumed, out>>,
           \/ phase' \in {"failed", "cancelled"} /\ phase # "done"
           \/ phase = "start" /\ phase' = "await" /\ UNCHANGED counter
           \/ phase = "await" /\ phase' = "flush" /\ ended' /\ UNCHANGED counter
           \/ UNCHANGED vars
    PROVE  IInv'
<1> USE DEF IInv, OutInv, PendingInv, CarryInv, DoneInv, EndedInv, Running
<1>1. CASE phase' \in {"failed", "cancelled"} /\ phase # "done"
  BY <1>1
<1>2. CASE phase = "start" /\ phase' = "await" /\ UNCHANGED counter
  BY <1>2 DEF Frontier, Held
<1>3. CASE phase = "await" /\ phase' = "flush" /\ ended' /\ UNCHANGED counter
  BY <1>3 DEF Frontier, Held
<1>4. CASE UNCHANGED vars
  BY <1>4 DEF vars, Frontier, Held, Remaining
<1>5. QED
  BY <1>1, <1>2, <1>3, <1>4

LEMMA IInvEvent ==
    ASSUME IInv, TypeOK', NEW n \in 0..MaxEvent, Event(n)
    PROVE  IInv'
<1>1. /\ n \in Nat /\ phase = "await" /\ phase' = "loop" /\ offset' = 0
      /\ consumed' = consumed + n
      /\ combined' = carry \o Run(consumed, n)
      /\ UNCHANGED <<counter, pending, carry, ended, out>>
  BY SourceBounds DEF Event
<1>2. Frontier \in Nat /\ Frontier' = Frontier
  BY <1>1, FrontierIs, FrontierStays DEF IInv
<1>3. /\ Len(carry) \in Nat /\ carry = Run(Frontier, Len(carry))
      /\ Frontier + Len(carry) = consumed
  BY <1>1 DEF IInv, TypeOK, CarryInv, Chunk
<1>4. combined' = Run(Frontier, Len(carry) + n)
  <2>1. Run(Frontier, Len(carry)) \o Run(Frontier + Len(carry), n) = Run(Frontier, Len(carry) + n)
    BY <1>1, <1>2, <1>3, RunConcat
  <2>2. QED
    BY <1>1, <1>3, <2>1, Zenon
<1>5. Len(combined') = Len(carry) + n
  BY <1>1, <1>2, <1>3, <1>4, RunIsSeq
<1>6. CarryInv'
  BY <1>1, <1>2, <1>3, <1>4, <1>5 DEF CarryInv, Remaining
<1>7. OutInv' /\ PendingInv' /\ DoneInv' /\ EndedInv'
  BY <1>1 DEF IInv, OutInv, PendingInv, DoneInv, EndedInv, Running
<1>8. QED
  BY <1>6, <1>7 DEF IInv

LEMMA IInvEndEvent ==
    ASSUME IInv, TypeOK', EndEvent
    PROVE  IInv'
<1>1. /\ phase = "loop" /\ phase' = "await"
      /\ carry' = SubSeq(combined, offset + 1, Len(combined))
      /\ UNCHANGED <<counter, pending, combined, offset, consumed, ended, out>>
  BY DEF EndEvent
<1>2. Frontier \in Nat /\ Frontier' = Frontier
  BY <1>1, FrontierIs, FrontierStays DEF IInv
<1>3. /\ offset \in Nat /\ Len(combined) \in Nat /\ offset <= Len(combined)
      /\ offset <= Frontier
      /\ combined = Run(Frontier - offset, Len(combined))
      /\ Frontier + (Len(combined) - offset) = consumed
  BY <1>1 DEF IInv, TypeOK, CarryInv, Chunk, Remaining
<1> DEFINE r == Len(combined) - offset
<1>4. r \in Nat /\ Frontier - offset \in Nat /\ offset + r = Len(combined)
      /\ (Frontier - offset) + offset = Frontier
  BY <1>2, <1>3
<1>5. carry' = Run(Frontier, r)
  <2> HIDE DEF r
  <2>1. SubSeq(Run(Frontier - offset, Len(combined)), offset + 1, offset + r)
          = Run((Frontier - offset) + offset, r)
    BY <1>3, <1>4, RunSub
  <2>2. QED
    BY <1>1, <1>3, <1>4, <2>1
<1>6. Len(carry') = r
  BY <1>2, <1>4, <1>5, RunIsSeq
<1>7. CarryInv'
  BY <1>1, <1>2, <1>3, <1>5, <1>6 DEF CarryInv
<1>8. OutInv' /\ PendingInv' /\ DoneInv' /\ EndedInv'
  BY <1>1 DEF IInv, OutInv, PendingInv, DoneInv, EndedInv, Running
<1>9. QED
  BY <1>7, <1>8 DEF IInv

LEMMA IInvTakeChunk ==
    ASSUME IInv, TypeOK', TakeChunk
    PROVE  IInv'
<1>1. /\ phase = "loop" /\ phase' = "loop"
      /\ Len(combined) - offset >= ChunkSize
      /\ pending' = SubSeq(combined, offset + 1, offset + ChunkSize)
      /\ offset' = offset + ChunkSize
      /\ UNCHANGED <<carry, combined, consumed, ended>>
  BY DEF TakeChunk, FillsChunk, Remaining
<1>2. /\ Frontier \in Nat /\ ChunkSize \in Nat /\ ChunkSize > 0
      /\ counter \in Nat /\ counter = Len(out) /\ out \in Seq(Frame)
  BY <1>1, FrontierIs, ChunkSizePositive DEF IInv, TypeOK, OutInv, Running
<1>3. /\ offset \in Nat /\ Len(combined) \in Nat /\ offset <= Frontier
      /\ combined = Run(Frontier - offset, Len(combined))
      /\ Frontier + (Len(combined) - offset) = consumed
  BY <1>1 DEF IInv, TypeOK, CarryInv, Chunk, Remaining
<1>4. /\ Frontier - offset \in Nat /\ (Frontier - offset) + offset = Frontier
      /\ offset + ChunkSize <= Len(combined)
  BY <1>1, <1>2, <1>3
<1>5. pending' = Run(Frontier, ChunkSize)
  <2>1. SubSeq(Run(Frontier - offset, Len(combined)), offset + 1, offset + ChunkSize)
          = Run((Frontier - offset) + offset, ChunkSize)
    <3>1. /\ Frontier - offset \in Nat /\ Len(combined) \in Nat /\ offset \in Nat
          /\ ChunkSize \in Nat /\ offset + ChunkSize <= Len(combined)
      BY <1>2, <1>3, <1>4
    <3>2. QED
      BY <3>1, RunSub
  <2>2. QED
    BY <1>1, <1>3, <1>4, <2>1
<1>6. pending' # NULL /\ Len(pending') = ChunkSize
  BY <1>2, <1>5, RunIsSeq DEF NULL
(* The chunk taken becomes the held-back one, after the one before it.     *)
<1>7. /\ Frontier = Base(counter')
      /\ counter' = Len(out')
      /\ FullFrames(out', Len(out'))
  <2>1. CASE pending = NULL
    <3>1. UNCHANGED <<out, counter>>
      BY <2>1 DEF TakeChunk
    <3>2. Frontier = Base(counter)
      BY <2>1, FrontierIs DEF IInv
    <3>3. FullFrames(out, Len(out))
      BY <1>1 DEF IInv, OutInv
    <3>4. QED
      BY <1>2, <3>1, <3>2, <3>3
  <2>2. CASE pending # NULL
    <3>1. YieldFrame(pending, FALSE)
      BY <2>2 DEF TakeChunk
    <3>2. pending = Run(Base(counter), ChunkSize)
      BY <1>1, <2>2 DEF IInv, PendingInv
    <3>3. out' = Append(out, FullAt(Len(out))) /\ counter' = counter + 1
      BY <1>2, <3>1, <3>2, YieldInner
    <3>4. FullFrames(out, Len(out))
      BY <1>1 DEF IInv, OutInv
    <3>5. FullFrames(out', Len(out'))
      BY <1>2, <3>3, <3>4, AppendFull
    <3>6. Len(out') = Len(out) + 1
      BY <1>2, <3>3, NextIsFrame, AppendFrame
    <3>7. Frontier = Base(counter')
      BY <2>2, <3>3, FrontierIs DEF IInv
    <3>8. QED
      BY <1>2, <3>3, <3>5, <3>6, <3>7
  <2>3. QED
    BY <2>1, <2>2
<1>8. Frontier' = Frontier + ChunkSize
  <2>1. Frontier' = Base(counter' + 1) /\ counter' \in Nat
    <3>1. Held' = 1 /\ counter' \in Nat
      BY <1>6 DEF Held, NULL, TypeOK
    <3>2. QED
      BY <3>1, Zenon DEF Frontier
  <2>2. Base(counter' + 1) = Base(counter') + ChunkSize
    BY <2>1, BaseStep
  <2>3. QED
    BY <1>7, <2>1, <2>2
<1>9. OutInv'
  BY <1>1, <1>7 DEF OutInv, Running
<1>10. PendingInv'
  BY <1>1, <1>5, <1>6, <1>7 DEF PendingInv, NULL
<1>11. CarryInv'
  <2>1. Frontier' - offset' = Frontier - offset /\ offset' <= Frontier'
    BY <1>1, <1>2, <1>3, <1>8
  <2>2. Frontier' + (Len(combined') - offset') = consumed'
    BY <1>1, <1>2, <1>3, <1>8
  <2>3. combined' = Run(Frontier' - offset', Len(combined'))
    BY <1>1, <1>3, <2>1
  <2>4. QED
    BY <1>1, <2>1, <2>2, <2>3 DEF CarryInv, Remaining
<1>12. DoneInv' /\ EndedInv'
  BY <1>1 DEF DoneInv, EndedInv
<1>13. QED
  BY <1>9, <1>10, <1>11, <1>12 DEF IInv

LEMMA IInvFlushPending ==
    ASSUME IInv, TypeOK', FlushPending
    PROVE  IInv'
<1>1. /\ phase = "flush" /\ phase' = "tail" /\ carry # << >> /\ pending # NULL
      /\ YieldFrame(pending, FALSE)
      /\ UNCHANGED <<pending, carry, combined, offset, consumed, ended>>
  BY DEF FlushPending
<1>2. /\ pending = Run(Base(counter), ChunkSize)
      /\ counter = Len(out) /\ FullFrames(out, Len(out)) /\ out \in Seq(Frame)
      /\ ended
  BY <1>1 DEF IInv, TypeOK, PendingInv, OutInv, EndedInv, Running
<1>3. out' = Append(out, FullAt(Len(out))) /\ counter' = counter + 1
  BY <1>1, <1>2, YieldInner
<1>4. FullFrames(out', Len(out')) /\ Len(out') = Len(out) + 1
  BY <1>2, <1>3, AppendFull, NextIsFrame, AppendFrame
<1>5. OutInv'
  BY <1>1, <1>2, <1>3, <1>4 DEF OutInv, Running
<1>6. CarryInv'
  <2>1. Frontier = Base(counter')
    BY <1>1, <1>3, FrontierIs DEF IInv
  <2>2. carry = Run(Frontier, Len(carry)) /\ Frontier + Len(carry) = consumed
    BY <1>1 DEF IInv, CarryInv
  <2>3. QED
    BY <1>1, <2>1, <2>2 DEF CarryInv
<1>7. PendingInv' /\ DoneInv' /\ EndedInv'
  BY <1>1, <1>2 DEF PendingInv, DoneInv, EndedInv
<1>8. QED
  BY <1>5, <1>6, <1>7 DEF IInv

(* What the three final yields have in common: the rest of the bytes goes  *)
(* out as the flagged frame.                                               *)
LEMMA IInvFinal ==
    ASSUME IInv, TypeOK', NEW chunk, NEW n \in 0..ChunkSize,
           phase \in {"flush", "tail"}, phase' = "done",
           UNCHANGED <<consumed, ended>>,
           YieldFrame(chunk, TRUE),
           chunk = Run(Base(counter), n), Base(counter) + n = consumed,
           n = 0 => counter = 0
    PROVE  IInv'
<1>1. /\ counter = Len(out) /\ FullFrames(out, Len(out)) /\ out \in Seq(Frame)
      /\ ended /\ n \in Nat
  BY ChunkSizePositive DEF IInv, TypeOK, OutInv, EndedInv, Running
<1>2. out' = Append(out, LastAt(Len(out), n))
  BY <1>1, YieldLast
<1>3. EndsWith(out', n) /\ Len(out') - 1 = Len(out)
  BY <1>1, <1>2, AppendLast
<1>4. Base(Len(out') - 1) + n = consumed'
  BY <1>1, <1>3
<1>5. n = 0 => Len(out') = 1
  BY <1>1, <1>3 DEF EndsWith
<1>6. DoneInv'
  BY <1>3, <1>4, <1>5 DEF DoneInv
<1>7. OutInv' /\ PendingInv' /\ CarryInv' /\ EndedInv'
  BY <1>1 DEF OutInv, PendingInv, CarryInv, EndedInv, Running
<1>8. QED
  BY <1>6, <1>7 DEF IInv

(* When carry is about to go out flagged, it is the rest of the bytes.     *)
LEMMA RestIsRun ==
    ASSUME IInv, phase \in {"flush", "tail"},
           phase = "flush" => carry # << >> /\ pending = NULL
    PROVE  carry # << >> /\ carry = Run(Base(counter), Len(carry))
           /\ Base(counter) + Len(carry) = consumed
<1>1. CASE phase = "tail"
  BY <1>1 DEF IInv, CarryInv
<1>2. CASE phase = "flush"
  <2>1. Frontier = Base(counter)
    BY <1>2, FrontierIs DEF IInv
  <2>2. QED
    BY <1>2, <2>1 DEF IInv, CarryInv
<1>3. QED
  BY <1>1, <1>2

LEMMA IInvFinalCarry ==
    ASSUME IInv, TypeOK', FinalCarry
    PROVE  IInv'
<1>1. /\ phase \in {"flush", "tail"} /\ phase' = "done"
      /\ YieldFrame(carry, TRUE) /\ UNCHANGED <<consumed, ended>>
      /\ phase = "flush" => carry # << >> /\ pending = NULL
  BY DEF FinalCarry
<1>2. carry # << >> /\ carry = Run(Base(counter), Len(carry))
      /\ Base(counter) + Len(carry) = consumed
  BY <1>1, RestIsRun
<1>3. Len(carry) \in 0..ChunkSize /\ Len(carry) # 0
  BY <1>2, ChunkSizePositive, EmptySeq DEF IInv, TypeOK, Chunk
<1>4. QED
  BY <1>1, <1>2, <1>3, IInvFinal

LEMMA IInvFinalPending ==
    ASSUME IInv, TypeOK', FinalPending
    PROVE  IInv'
<1>1. /\ phase = "flush" /\ phase' = "done" /\ carry = << >> /\ pending # NULL
      /\ YieldFrame(pending, TRUE) /\ UNCHANGED <<consumed, ended>>
  BY DEF FinalPending
<1>2. pending = Run(Base(counter), ChunkSize)
  BY <1>1 DEF IInv, PendingInv
<1>3. Base(counter) + ChunkSize = consumed
  <2>1. Frontier = Base(counter + 1) /\ Base(counter + 1) = Base(counter) + ChunkSize
    BY <1>1, FrontierIs, BaseStep DEF IInv, TypeOK
  <2>2. Frontier + 0 = consumed /\ Frontier \in Nat
    BY <1>1, FrontierIs DEF IInv, CarryInv
  <2>3. QED
    BY <2>1, <2>2
<1>4. ChunkSize \in 0..ChunkSize /\ ChunkSize # 0
  BY ChunkSizePositive
<1>5. QED
  BY <1>1, <1>2, <1>3, <1>4, IInvFinal

LEMMA IInvFinalEmpty ==
    ASSUME IInv, TypeOK', FinalEmpty
    PROVE  IInv'
<1>1. /\ phase = "flush" /\ phase' = "done" /\ carry = << >> /\ pending = NULL
      /\ YieldFrame(<< >>, TRUE) /\ UNCHANGED <<consumed, ended>>
  BY DEF FinalEmpty
<1>2. counter = 0 /\ Base(counter) = 0
  BY <1>1, BaseStep DEF IInv, PendingInv
<1>3. Base(counter) + 0 = consumed
  <2>1. Frontier = Base(counter) /\ Frontier + 0 = consumed
    BY <1>1, FrontierIs DEF IInv, CarryInv
  <2>2. QED
    BY <2>1
<1>4. << >> = Run(Base(counter), 0) /\ 0 \in 0..ChunkSize
  BY <1>2, RunEmpty, ChunkSizePositive
<1>5. QED
  BY <1>1, <1>2, <1>3, <1>4, IInvFinal

LEMMA IInvNext == IInv /\ [Next]_vars => IInv'
<1> SUFFICES ASSUME IInv, [Next]_vars PROVE IInv'
  OBVIOUS
<1> TypeOK'
  BY TypeNext DEF IInv
<1>1. CASE Refuse
  BY <1>1, IInvQuiet DEF Refuse
<1>2. CASE Listen
  BY <1>2, IInvQuiet DEF Listen
<1>3. ASSUME NEW n \in 0..MaxEvent, Event(n) PROVE IInv'
  BY <1>3, IInvEvent
<1>4. CASE TakeChunk
  BY <1>4, IInvTakeChunk
<1>5. CASE EndEvent
  BY <1>5, IInvEndEvent
<1>6. CASE SourceEnds
  BY <1>6, IInvQuiet DEF SourceEnds
<1>7. CASE SourceFails
  BY <1>7, IInvQuiet DEF SourceFails
<1>8. CASE FlushPending
  BY <1>8, IInvFlushPending
<1>9. CASE FinalCarry
  BY <1>9, IInvFinalCarry
<1>10. CASE FinalPending
  BY <1>10, IInvFinalPending
<1>11. CASE FinalEmpty
  BY <1>11, IInvFinalEmpty
<1>12. CASE SealThrows
  BY <1>12, IInvQuiet DEF SealThrows
<1>13. CASE Cancel
  BY <1>13, IInvQuiet DEF Cancel, Running
<1>14. CASE UNCHANGED vars
  BY <1>14, IInvQuiet DEF vars
<1>15. QED
  BY <1>1, <1>2, <1>3, <1>4, <1>5, <1>6, <1>7, <1>8, <1>9, <1>10, <1>11, <1>12,
     <1>13, <1>14 DEF Next, Step

LEMMA Invariance == Spec => []IInv
BY IInvInit, IInvNext, PTL DEF Spec

-----------------------------------------------------------------------------
(* Whatever the events, a stream that completes is the framing of exactly  *)
(* the bytes the source delivered.                                         *)
THEOREM SealsWhole == Spec => []SealedWhole
<1>1. IInv => SealedWhole
  <2> SUFFICES ASSUME IInv, phase = "done" PROVE out = Framing(consumed)
    BY DEF SealedWhole
  <2>1. PICK n \in 0..ChunkSize :
            /\ EndsWith(out, n)
            /\ Base(Len(out) - 1) + n = consumed
            /\ n = 0 => Len(out) = 1
    BY DEF IInv, DoneInv
  <2>2. out \in Seq(Frame)
    BY DEF IInv, TypeOK
  <2>3. QED
    BY <2>1, <2>2, EndsWithIsFraming
<1>2. QED
  BY <1>1, Invariance, PTL

(* A stream that completes is one that the openers can be given: what they *)
(* assume of the streams that were sealed (StreamsSealed) is what this     *)
(* sealer makes, whatever its chunk size.                                  *)
THEOREM SealsStreams == Spec => [](phase = "done" => IsStream(out))
<1>1. TypeOK /\ SealedWhole => (phase = "done" => IsStream(out))
  BY FramingIsStream DEF SealedWhole, TypeOK
<1>2. QED
  BY <1>1, TypeCorrect, SealsWhole, PTL

(* While the generator waits for the source it holds back fewer than two   *)
(* chunks of what was delivered.                                           *)
THEOREM LagIsBounded == Spec => []LagBounded
<1>1. IInv => LagBounded
  <2> SUFFICES ASSUME IInv, phase = "await"
               PROVE  consumed - Base(Len(out)) < 2 * ChunkSize
    BY DEF LagBounded
  <2>1. Frontier + Len(carry) = consumed /\ counter = Len(out) /\ counter \in Nat
        /\ Len(carry) \in Nat /\ Len(carry) < ChunkSize
    BY DEF IInv, TypeOK, CarryInv, OutInv, Running, Chunk
  <2>2. /\ Frontier \in Nat /\ Base(counter) \in Nat
        /\ Frontier = Base(counter) \/ Frontier = Base(counter) + ChunkSize
    BY <2>1, FrontierIs, BaseStep DEF IInv
  <2>3. QED
    BY <2>1, <2>2, ChunkSizePositive
<1>2. QED
  BY <1>1, Invariance, PTL

(* No frame is flagged as the last before the source has reported its end: *)
(* a stream cut short by an error or by the consumer stays open.           *)
THEOREM NeverClosedEarly == Spec => []ClosedOnlyAtEnd
<1>1. IInv => ClosedOnlyAtEnd
  <2> SUFFICES ASSUME IInv, NEW i \in DOMAIN out, out[i].last PROVE ended
    BY DEF ClosedOnlyAtEnd
  <2>1. CASE phase = "done"
    BY <2>1 DEF IInv, EndedInv
  <2>2. CASE phase # "done"
    <3>1. i \in 1..Len(out)
      BY DEF IInv, TypeOK
    <3>2. out[i] = FullAt(i - 1)
      BY <2>2, <3>1, Zenon DEF IInv, OutInv, FullFrames
    <3>3. ~out[i].last
      BY <3>2 DEF FullAt, Inner, Seal
    <3>4. QED
      BY <3>3
  <2>3. QED
    BY <2>1, <2>2
<1>2. QED
  BY <1>1, Invariance, PTL

-----------------------------------------------------------------------------
(* Full frames never look like a closed stream.                            *)
LEMMA FullIsOpen ==
    ASSUME out \in Seq(Frame), FullFrames(out, Len(out))
    PROVE  ~Format!Closed
<1>1. CASE out = << >>
  BY <1>1 DEF Format!Closed
<1>2. CASE out # << >>
  <2>1. Len(out) \in 1..Len(out)
    BY <1>2, EmptySeq
  <2>2. out[Len(out)] = FullAt(Len(out) - 1)
    BY <2>1, Zenon DEF FullFrames
  <2>3. ~out[Len(out)].last
    BY <2>2 DEF FullAt, Inner, Seal
  <2>4. QED
    BY <2>3 DEF Format!Closed
<1>3. QED
  BY <1>1, <1>2

(* A yield of the held-back chunk, followed by more, is an EmitFull.       *)
LEMMA InnerIsEmitFull ==
    ASSUME IInv, phase \in {"loop", "flush"}, pending # NULL, YieldFrame(pending, FALSE)
    PROVE  Format!Next
<1>1. /\ counter = Len(out) /\ FullFrames(out, Len(out)) /\ out \in Seq(Frame)
      /\ pending = Run(Base(counter), ChunkSize)
  BY DEF IInv, TypeOK, OutInv, PendingInv, Running
<1>2. out' = Append(out, FullAt(Len(out)))
  BY <1>1, YieldInner
<1>3. ~Format!Closed
  BY <1>1, FullIsOpen
<1>4. Format!EmitFull
  BY <1>2, <1>3 DEF Format!EmitFull, Format!Seal, Format!Run, Format!Base,
                    FullAt, Inner, Seal, Run, Base
<1>5. QED
  BY <1>4 DEF Format!Next

(* A final yield is an EmitLast.                                           *)
LEMMA FinalIsEmitLast ==
    ASSUME IInv, phase \in {"flush", "tail"}, NEW chunk, NEW n \in 0..ChunkSize,
           YieldFrame(chunk, TRUE), chunk = Run(Base(counter), n),
           n = 0 => counter = 0
    PROVE  Format!Next
<1>1. counter = Len(out) /\ FullFrames(out, Len(out)) /\ out \in Seq(Frame) /\ n \in Nat
  BY ChunkSizePositive DEF IInv, TypeOK, OutInv, Running
<1>2. out' = Append(out, LastAt(Len(out), n))
  BY <1>1, YieldLast
<1>3. ~Format!Closed
  BY <1>1, FullIsOpen
<1>4. n = 0 => out = << >>
  BY <1>1, EmptySeq
<1>5. Format!EmitLast
  BY <1>2, <1>3, <1>4 DEF Format!EmitLast, Format!Seal, Format!Run, Format!Base,
                          LastAt, Final, Seal, Run, Base
<1>6. QED
  BY <1>5 DEF Format!Next

LEMMA FormatInit == Init => Format!Init
BY DEF Init, Format!Init

(* Every step of the generator is a step of the wire format or leaves the  *)
(* output as it is.                                                        *)
LEMMA FormatNext == IInv /\ [Next]_vars => [Format!Next]_out
<1> SUFFICES ASSUME IInv, [Next]_vars PROVE Format!Next \/ UNCHANGED out
  OBVIOUS
<1>1. CASE TakeChunk
  <2>1. CASE pending = NULL
    BY <1>1, <2>1 DEF TakeChunk
  <2>2. CASE pending # NULL
    <3>1. phase \in {"loop", "flush"} /\ YieldFrame(pending, FALSE)
      BY <1>1, <2>2 DEF TakeChunk
    <3>2. QED
      BY <2>2, <3>1, InnerIsEmitFull
  <2>3. QED
    BY <2>1, <2>2
<1>2. CASE FlushPending
  <2>1. phase \in {"loop", "flush"} /\ pending # NULL /\ YieldFrame(pending, FALSE)
    BY <1>2 DEF FlushPending
  <2>2. QED
    BY <2>1, InnerIsEmitFull
<1>3. CASE FinalCarry
  <2>1. /\ phase \in {"flush", "tail"} /\ YieldFrame(carry, TRUE)
        /\ phase = "flush" => carry # << >> /\ pending = NULL
    BY <1>3 DEF FinalCarry
  <2>2. carry # << >> /\ carry = Run(Base(counter), Len(carry))
    BY <2>1, RestIsRun
  <2>3. Len(carry) \in 0..ChunkSize /\ Len(carry) # 0
    BY <2>2, ChunkSizePositive, EmptySeq DEF IInv, TypeOK, Chunk
  <2>4. QED
    BY <2>1, <2>2, <2>3, FinalIsEmitLast
<1>4. CASE FinalPending
  <2>1. /\ phase \in {"flush", "tail"} /\ YieldFrame(pending, TRUE)
        /\ pending = Run(Base(counter), ChunkSize)
    BY <1>4 DEF FinalPending, IInv, PendingInv
  <2>2. ChunkSize \in 0..ChunkSize /\ ChunkSize # 0
    BY ChunkSizePositive
  <2>3. QED
    BY <2>1, <2>2, FinalIsEmitLast
<1>5. CASE FinalEmpty
  <2>1. /\ phase \in {"flush", "tail"} /\ YieldFrame(<< >>, TRUE)
        /\ counter = 0 /\ Base(counter) = 0
    BY <1>5, BaseStep DEF FinalEmpty, IInv, PendingInv
  <2>2. << >> = Run(Base(counter), 0) /\ 0 \in 0..ChunkSize
    BY <2>1, RunEmpty, ChunkSizePositive
  <2>3. QED
    BY <2>1, <2>2, FinalIsEmitLast
<1>6. CASE Refuse \/ Listen \/ (\E n \in 0..MaxEvent : Event(n)) \/ EndEvent
           \/ SourceEnds \/ SourceFails \/ SealThrows \/ Cancel \/ UNCHANGED vars
  BY <1>6 DEF Refuse, Listen, Event, EndEvent, SourceEnds, SourceFails, SealThrows,
              Cancel, vars
<1>7. QED
  BY <1>1, <1>2, <1>3, <1>4, <1>5, <1>6 DEF Next, Step

(* At every moment what the generator has yielded is a prefix of a         *)
(* well-formed stream: it implements StreamFormat, for every chunk size    *)
(* and every way the source is cut into events.                            *)
THEOREM Implements == Spec => WireFormat
<1>1. Spec => Format!Init /\ [][Format!Next]_out
  BY FormatInit, FormatNext, Invariance, PTL DEF Spec
<1>2. QED
  BY <1>1 DEF WireFormat, Format!Spec

-----------------------------------------------------------------------------
(* Only combined may lie in the source's memory, and it is not looked at   *)
(* any more once the source may refill it.                                 *)
MemInv ==
    /\ shared \subseteq {"combined"}
    /\ damaged \subseteq {"combined"}
    /\ phase = "loop" => damaged = {}
    /\ ~spoiled

(* The memory only observes the generator.                                 *)
LEMMA MemNextIsNext == [MemNext]_allVars => [Next]_vars
BY DEF MemNext, allVars, MemEvent, MemStep, MemTakeChunk, MemEndEvent, MemFlush, Quiet,
       Refill, Next, Step

LEMMA MemInvInit == MemInit => MemInv
BY DEF MemInit, MemInv, Init

LEMMA MemInvNext == MemInv /\ [MemNext]_allVars => MemInv'
<1> SUFFICES ASSUME MemInv, [MemNext]_allVars PROVE MemInv'
  OBVIOUS
<1>1. ASSUME NEW n \in 0..MaxEvent, MemEvent(n) PROVE MemInv'
  <2>1. /\ shared' \in {shared \union {"combined"}, shared \ {"combined"}}
        /\ damaged' = damaged \ {"combined"}
        /\ UNCHANGED spoiled
    BY <1>1 DEF MemEvent, Concat, Mark, MemInv
  <2>2. QED
    BY <2>1 DEF MemInv
<1>2. CASE MemTakeChunk
  <2>1. phase = "loop" /\ damaged = {}
    BY <1>2 DEF MemTakeChunk, TakeChunk, MemInv
  <2>2. shared' = shared \ {"pending"} /\ damaged' = {}
    BY <1>2, <2>1 DEF MemTakeChunk, KeepCopy, Mark
  <2>3. ~spoiled'
    BY <1>2, <2>1 DEF MemTakeChunk, Sealing, MemInv
  <2>4. QED
    BY <2>2, <2>3 DEF MemInv
<1>3. CASE MemEndEvent
  <2>1. phase = "loop" /\ damaged = {}
    BY <1>3 DEF MemEndEvent, EndEvent, MemInv
  <2>2. shared' = shared \ {"carry"} /\ damaged' = {} /\ spoiled' = spoiled
    BY <1>3, <2>1 DEF MemEndEvent, KeepCopy, Mark
  <2>3. QED
    BY <2>2 DEF MemInv
<1>4. CASE MemFlush
  <2>1. phase' \in {"tail", "done"} /\ UNCHANGED <<shared, damaged>>
    BY <1>4 DEF MemFlush, FlushPending, FinalPending, FinalCarry, FinalEmpty
  <2>2. ~spoiled'
    BY <1>4 DEF MemFlush, Sealing, MemInv
  <2>3. QED
    BY <2>1, <2>2 DEF MemInv
<1>5. CASE Quiet /\ UNCHANGED memVars
  BY <1>5 DEF Quiet, Refuse, Listen, SourceEnds, SourceFails, SealThrows, Cancel, memVars,
              MemInv
<1>6. CASE Refill
  <2>1. phase' = "await" /\ damaged' = damaged \union shared /\ UNCHANGED <<shared, spoiled>>
    BY <1>6 DEF Refill, vars
  <2>2. QED
    BY <2>1 DEF MemInv
<1>7. CASE UNCHANGED allVars
  BY <1>7 DEF allVars, vars, memVars, MemInv
<1>8. QED
  BY <1>1, <1>2, <1>3, <1>4, <1>5, <1>6, <1>7 DEF MemNext, MemStep

(* A source may reuse its buffer: no frame is sealed from bytes that were  *)
(* overwritten after the generator was given them.                         *)
THEOREM SealsOwnBytes == MemSpec => []BuffersReturned
<1>1. MemInv => BuffersReturned
  BY DEF MemInv, BuffersReturned
<1>2. QED
  BY <1>1, MemInvInit, MemInvNext, PTL DEF MemSpec

(* The generator with its memory is a generator: the theorems about Spec   *)
(* hold for the specification that the runs check.                         *)
THEOREM MemImplements == MemSpec => Spec
<1>1. MemInit => Init
  BY DEF MemInit
<1>2. QED
  BY <1>1, MemNextIsNext, PTL DEF MemSpec, Spec

(* With its memory, too, a stream that completes is the framing of what    *)
(* the source delivered, in the wire format at every moment.               *)
THEOREM MemSealsWhole == MemSpec => []SealedWhole /\ WireFormat
BY MemImplements, SealsWhole, Implements, PTL
=============================================================================
