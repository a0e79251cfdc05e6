--------------------------- MODULE FileOpenProofs ---------------------------
(***************************************************************************)
(* Proofs about FileOpen for every chunk size, tag length, counter width,  *)
(* input file and pattern of short reads: the type invariant, that Ok      *)
(* means an intact stream also when the file grows, that the verdict is    *)
(* the one of the Dart generator, and that the output file is written in   *)
(* order.                                                                  *)
(***************************************************************************)
EXTENDS FileOpen, StreamProofs

Early == {"check", "first", "next", "frame"}

(* The file holds a part of the wire from its start.                       *)
InputInv ==
    /\ Len(input) <= Len(wire)
    /\ input = Part(wire, 0, Len(input))

(* Where the block that is being collected starts.                         *)
Ahead == pos - Len(buf)

(* The held block starts where the opened frames end, the next one where   *)
(* the held one ends.                                                      *)
BlockInv ==
    /\ pc \in {"check", "first"} => counter = 0 /\ Ahead = 0 /\ buf = Part(wire, 0, pos)
    /\ pc \in {"next", "frame"} =>
         /\ Start(counter) < Ahead
         /\ held = Part(wire, Start(counter), Ahead)
         /\ buf = Part(wire, Ahead, pos)
    /\ pc = "frame" => Len(held) >= TagLen

(* While the file stays as it is, a block shorter than a frame is the last *)
(* there is.                                                               *)
SteadyInv ==
    ~grown =>
      /\ pc \in {"next", "frame"} /\ Len(held) < CipherChunk => buf = << >> /\ pos = Len(input)
      /\ pc = "frame" /\ Len(buf) < CipherChunk => pos = Len(input)

OpenedInv == pc \in Early => Opened(wire, counter)

WrittenInv ==
    /\ Len(written) \in 0..Len(sealed)
    /\ written = Prefix(Len(written))
    /\ pc \in Early => Len(written) = counter
    /\ pc = "flush" => Len(written) = Len(sealed)

StatusInv == pc = "returned" <=> status # NONE

(* Past the final frame the bytes that were read are the sealed stream.    *)
IntactInv == pc = "flush" \/ status = "Ok" => IsIntact(Part(wire, 0, pos))

VerdictInv ==
    ~grown /\ input = wire =>
      /\ pc = "flush" => Verdict = "Ok"
      /\ status \in {"Ok", "AuthFailed", "InvalidCiphertext"} => status = Verdict

IInv ==
    /\ WireType
    /\ TypeOK
    /\ InputInv
    /\ BlockInv
    /\ SteadyInv
    /\ OpenedInv
    /\ WrittenInv
    /\ StatusInv
    /\ IntactInv
    /\ VerdictInv

-----------------------------------------------------------------------------
(* Each step of the call, taken apart.                                     *)
QuietSteps ==
    \/ Check
    \/ ReadSome(CipherChunk)
    \/ NextRead(CipherChunk) /\ Len(held) >= TagLen
    \/ FirstHeld(CipherChunk)
    \/ OpenEmpty
    \/ TooShort
    \/ Flush
    \/ Fails

LEMMA Steps ==
    [Next]_vars =>
      \/ UNCHANGED wireVars /\ UNCHANGED written /\ QuietSteps
      \/ UNCHANGED wireVars /\ OpenFrame
      \/ UNCHANGED wireVars /\ Grow
      \/ UNCHANGED vars
BY Zenon DEF Next, Step, Quiet, QuietSteps, NextRead

LEMMA WireNext == WireType /\ [Next]_vars => WireType' /\ UNCHANGED wireVars
<1>1. [Next]_vars => UNCHANGED wireVars
  BY Steps DEF vars
<1>2. QED
  BY <1>1 DEF WireType, wireVars

LEMMA WireSame ==
    ASSUME UNCHANGED wireVars
    PROVE  /\ Verdict' = Verdict
           /\ UNCHANGED pos => (IsIntact(Part(wire, 0, pos))' <=> IsIntact(Part(wire, 0, pos)))
           /\ UNCHANGED counter => (Opened(wire, counter)' <=> Opened(wire, counter))
BY DEF wireVars, IsIntact, Part, Opened, Sent, Start, FrameBytes, Verdict, Piece, PieceCount,
       Authentic

(* What a request that fails a check returns.                              *)
LEMMA FirstCheck ==
    ASSUME failing \in SUBSET DOMAIN Checks, failing # {}
    PROVE  Checks[FirstFailing] \in {"InvalidKey", "NullArgument", "Unaligned", "Io"}
<1>1. DOMAIN Checks = 1..7
  BY DEF Checks
<1>2. \E i \in failing : \A j \in failing : i <= j
  BY <1>1
<1>3. FirstFailing \in 1..7
  BY <1>1, <1>2 DEF FirstFailing
<1>4. \A i \in 1..7 : Checks[i] \in {"InvalidKey", "NullArgument", "Unaligned", "Io"}
  BY DEF Checks
<1>5. QED
  BY <1>3, <1>4

(* The counter never wraps: the call gives up first.                       *)
LEMMA CounterSteps ==
    ASSUME counter \in 0..MaxCounter, ~Overflows
    PROVE  /\ counter + 1 \in 0..MaxCounter
           /\ (counter + 1) % (MaxCounter + 1) = counter + 1
BY CounterWidth DEF Overflows

-----------------------------------------------------------------------------
LEMMA InvInit == Init => IInv
<1> SUFFICES ASSUME Init PROVE IInv
  OBVIOUS
<1>1. WireType
  BY WireInitType DEF Init
<1>2. /\ pc = "check" /\ failing \in Requests /\ grown = FALSE /\ pos = 0
      /\ buf = << >> /\ held = << >> /\ counter = 0 /\ status = NONE /\ written = << >>
  BY DEF Init, PipelineInit
<1>3. wire \in Seq(Cell) /\ Len(wire) \in Nat
  BY <1>1 DEF WireType
<1>4. PICK k \in 0..Len(wire) : input = Part(wire, 0, k)
  <2>1. PICK k \in (IF Growing THEN 0 ELSE Len(wire))..Len(wire) : input = SubSeq(wire, 1, k)
    BY DEF Init, PipelineInit
  <2>2. k \in 0..Len(wire)
    BY <1>3, <2>1, GrowingBoolean
  <2>3. QED
    BY <2>1, <2>2 DEF Part
<1>5. input \in Seq(Cell) /\ Len(input) = k
  <2>1. k \in Nat /\ 0 \in Nat /\ 0 <= k /\ k <= Len(wire) /\ k - 0 = k
    BY <1>3
  <2>2. Part(wire, 0, k) \in Seq(Cell) /\ Len(Part(wire, 0, k)) = k - 0
    BY <1>3, <2>1, PartIsSeq, Zenon
  <2>3. QED
    BY <1>4, <2>1, <2>2
<1>6. InputInv
  BY <1>3, <1>4, <1>5 DEF InputInv
<1>7. TypeOK
  <2>1. failing \in SUBSET DOMAIN Checks
    BY <1>2, RequestsFailChecks
  <2>2. << >> \in Seq(Cell) /\ << >> \in Seq(Seq(Byte)) /\ Len(<< >>) = 0
    OBVIOUS
  <2>3. 0 \in 0..Len(input) /\ 0 <= CipherChunk /\ 0 \in 0..MaxCounter
    BY <1>5, ChunksPositive, CounterWidth
  <2>4. QED
    BY <1>2, <1>5, <2>1, <2>2, <2>3 DEF TypeOK, Places
<1>8. BlockInv
  <2>1. Part(wire, 0, 0) = << >> /\ Len(<< >>) = 0
    BY SubSeqEmpty DEF Part
  <2>2. Ahead = 0
    <3>1. pos = 0 /\ Len(buf) = 0
      BY <1>2, <2>1, Zenon
    <3>2. QED
      BY <3>1 DEF Ahead
  <2>3. QED
    BY <1>2, <2>1, <2>2 DEF BlockInv
<1>9. SteadyInv /\ StatusInv /\ IntactInv /\ VerdictInv
  BY <1>2 DEF SteadyInv, StatusInv, IntactInv, VerdictInv, NONE
<1>10. OpenedInv
  BY <1>2, OpenedNone DEF OpenedInv
<1>11. WrittenInv
  <2>1. Prefix(0) = << >> /\ Len(<< >>) = 0 /\ 0 \in 0..Len(sealed)
    BY <1>1, SealedCount DEF Prefix
  <2>2. QED
    BY <1>2, <2>1 DEF WrittenInv
<1>12. QED
  BY <1>1, <1>6, <1>7, <1>8, <1>9, <1>10, <1>11 DEF IInv

(* What a frame that opens adds to the output.                             *)
LEMMA WriteType ==
    ASSUME WireType, written \in Seq(Seq(Byte)), NEW block, NEW last,
           Authentic(block, counter, last)
    PROVE  Append(written, Plaintext(counter)) \in Seq(Seq(Byte))
<1>1. counter + 1 \in DOMAIN sealed
  BY DEF Authentic
<1>2. sealed[counter + 1] \in Frame
  BY <1>1, StreamFacts, ElementOfSeq
<1>3. Plaintext(counter) \in Seq(Byte)
  BY <1>2 DEF Frame, Plaintext
<1>4. QED
  BY <1>3, AppendProperties

(* What is read is the next piece of the file, which is one of the wire.   *)
LEMMA ReadFacts ==
    ASSUME WireType, TypeOK, InputInv, NEW n \in 1..Room(CipherChunk), pos + n <= Len(input)
    PROVE  /\ n \in Nat /\ pos + n \in Nat /\ pos + n <= Len(wire)
           /\ SubSeq(input, pos + 1, pos + n) = Part(wire, pos, pos + n)
           /\ Part(wire, pos, pos + n) \in Seq(Cell)
           /\ Len(buf) + n <= CipherChunk
           /\ buf \o Part(wire, pos, pos + n) \in Seq(Cell)
           /\ Len(buf \o Part(wire, pos, pos + n)) = Len(buf) + n
<1>1. /\ n \in Nat /\ pos \in Nat /\ Len(buf) \in Nat /\ n <= CipherChunk - Len(buf)
      /\ Len(wire) \in Nat /\ wire \in Seq(Cell) /\ buf \in Seq(Cell) /\ CipherChunk \in Nat
  BY ChunksPositive DEF TypeOK, WireType, Room
<1>2. PICK m \in Nat : m = Len(input) /\ m <= Len(wire) /\ input = Part(wire, 0, m)
  BY DEF TypeOK, InputInv
<1>3. PICK e \in Nat : e = pos + n /\ pos <= e /\ e <= m /\ e <= Len(wire) /\ e - pos = n
  BY <1>1, <1>2
<1>4. SubSeq(input, pos + 1, e) = Part(wire, pos, e)
  <2>1. Within(wire, 0, pos, e, m)
    BY <1>1, <1>2, <1>3 DEF Within
  <2>2. Part(input, pos - 0, e - 0) = Part(wire, pos, e)
    BY <1>2, <2>1, PartOfPart
  <2>3. pos - 0 = pos /\ e - 0 = e
    BY <1>1
  <2>4. QED
    BY <2>2, <2>3 DEF Part
<1>5. Part(wire, pos, e) \in Seq(Cell) /\ Len(Part(wire, pos, e)) = e - pos
  BY <1>1, <1>3, PartIsSeq, Zenon
<1>6. PICK p \in Seq(Cell) : p = Part(wire, pos, e) /\ Len(p) = n
  BY <1>3, <1>5
<1>7. buf \o p \in Seq(Cell) /\ Len(buf \o p) = Len(buf) + n
  BY <1>1, <1>6, ConcatProperties
<1>8. Len(buf) + n <= CipherChunk
  BY <1>1
<1>9. QED
  BY <1>1, <1>3, <1>4, <1>6, <1>7, <1>8

LEMMA TypeNext == IInv /\ [Next]_vars => TypeOK'
<1> SUFFICES ASSUME IInv, [Next]_vars PROVE TypeOK'
  OBVIOUS
<1>1. WireType /\ TypeOK /\ InputInv /\ UNCHANGED wireVars
  BY WireNext DEF IInv
<1> USE DEF TypeOK, Places
<1>2. << >> \in Seq(Cell) /\ Len(<< >>) = 0 /\ 0 <= CipherChunk /\ CipherChunk \in Nat
  BY ChunksPositive
<1>3. CASE Check /\ UNCHANGED written
  BY <1>1, <1>3, FirstCheck DEF Check, Return
<1>4. CASE ReadSome(CipherChunk) /\ UNCHANGED written
  <2>1. PICK n \in 1..Room(CipherChunk) :
          /\ pos + n <= Len(input)
          /\ buf' = buf \o SubSeq(input, pos + 1, pos + n)
          /\ pos' = pos + n
    BY <1>4 DEF ReadSome
  <2>2. buf' \in Seq(Cell) /\ Len(buf') <= CipherChunk /\ pos' \in Nat /\ pos' <= Len(input)
    BY <1>1, <2>1, ReadFacts
  <2>3. Len(input) \in Nat /\ pos' \in 0..Len(input)
    BY <1>1, <2>2
  <2>4. QED
    BY <1>1, <1>4, <2>2, <2>3 DEF ReadSome
<1>5. CASE NextRead(CipherChunk) /\ UNCHANGED written
  BY <1>1, <1>5 DEF NextRead
<1>6. CASE FirstHeld(CipherChunk) /\ UNCHANGED written
  BY <1>1, <1>2, <1>6 DEF FirstHeld, FreshBlock
<1>7. CASE (OpenEmpty \/ TooShort \/ Flush \/ Fails) /\ UNCHANGED written
  BY <1>1, <1>7 DEF OpenEmpty, TooShort, Flush, Fails, Return
<1>8. CASE OpenFrame
  <2>1. written' \in Seq(Seq(Byte))
    <3>1. CASE Authentic(held, counter, IsLast)
      <4>1. written' = Append(written, Plaintext(counter))
        BY <1>8, <3>1 DEF OpenFrame
      <4>2. QED
        BY <1>1, <3>1, <4>1, WriteType
    <3>2. CASE ~Authentic(held, counter, IsLast)
      BY <1>1, <1>8, <3>2 DEF OpenFrame
    <3>3. QED
      BY <3>1, <3>2
  <2>2. counter' \in 0..MaxCounter
    BY <1>1, <1>8, CounterSteps DEF OpenFrame, Reject, Advance, Return
  <2>3. /\ held' \in {held, buf} /\ buf' \in {buf, << >>}
        /\ pc' \in {"returned", "flush", "next"}
        /\ status' \in {status, "AuthFailed", "InvalidCiphertext", "Internal"}
        /\ UNCHANGED <<failing, input, grown, pos>>
    BY <1>8 DEF OpenFrame, Reject, Advance, Return, FreshBlock
  <2>4. QED
    BY <1>1, <1>2, <2>1, <2>2, <2>3
<1>9. CASE Grow
  <2>1. PICK k \in (Len(input) + 1)..Len(wire) : input' = Part(wire, 0, k)
    BY <1>9 DEF Grow, Part
  <2>2. Len(input) \in Nat /\ Len(wire) \in Nat /\ wire \in Seq(Cell)
    BY <1>1 DEF WireType
  <2>3. k \in Nat /\ 0 \in Nat /\ 0 <= k /\ k <= Len(wire) /\ k - 0 = k /\ Len(input) <= k
    BY <2>1, <2>2
  <2>4. Part(wire, 0, k) \in Seq(Cell) /\ Len(Part(wire, 0, k)) = k - 0
    BY <2>2, <2>3, PartIsSeq, Zenon
  <2>5. input' \in Seq(Cell) /\ pos \in 0..Len(input')
    BY <1>1, <2>1, <2>2, <2>3, <2>4
  <2>6. QED
    BY <1>1, <1>9, <2>5 DEF Grow
<1>10. CASE UNCHANGED vars
  BY <1>1, <1>10 DEF vars, pipelineVars
<1>11. QED
  BY <1>3, <1>4, <1>5, <1>6, <1>7, <1>8, <1>9, <1>10, Steps DEF QuietSteps

(* The file only ever grows along the wire.                                *)
LEMMA InputNext == IInv /\ [Next]_vars => InputInv'
<1> SUFFICES ASSUME IInv, [Next]_vars PROVE InputInv'
  OBVIOUS
<1>1. WireType /\ InputInv /\ wire' = wire /\ wire \in Seq(Cell) /\ Len(wire) \in Nat
      /\ input \in Seq(Cell) /\ Len(input) \in Nat
  BY WireNext DEF IInv, wireVars, TypeOK, WireType
<1>2. CASE Grow
  <2>1. PICK k \in (Len(input) + 1)..Len(wire) : input' = Part(wire, 0, k)
    BY <1>2 DEF Grow, Part
  <2>2. k \in Nat /\ 0 \in Nat /\ 0 <= k /\ k <= Len(wire) /\ k - 0 = k
    BY <1>1, <2>1
  <2>3. Len(Part(wire, 0, k)) = k - 0
    BY <1>1, <2>2, PartIsSeq, Zenon
  <2>4. QED
    BY <1>1, <2>1, <2>2, <2>3 DEF InputInv, Part
<1>3. CASE UNCHANGED input
  BY <1>1, <1>3 DEF InputInv, Part
<1>4. QED
  BY <1>2, <1>3, Steps
     DEF QuietSteps, Check, ReadSome, NextRead, FirstHeld, OpenEmpty, TooShort, Flush,
         Fails, OpenFrame, vars, pipelineVars

(* The held block, when bytes are known to follow it and when none do.     *)
LEMMA HeldFacts ==
    ASSUME WireType, TypeOK, InputInv, BlockInv, pc = "frame"
    PROVE  /\ held = Part(wire, Start(counter), Ahead)
           /\ pos \in Nat /\ pos <= Len(wire) /\ Ahead \in Nat /\ Ahead <= pos
           /\ Start(counter) \in Nat /\ Start(counter) < Ahead
           /\ Ahead <= Start(counter + 1) /\ Ahead - Start(counter) >= TagLen
           /\ buf = << >> => Ahead = pos
           /\ buf # << >> => Ahead < pos
           /\ ~IsLast => Ahead = Start(counter + 1)
<1>1. /\ wire \in Seq(Cell) /\ Len(wire) \in Nat /\ pos \in Nat /\ pos <= Len(wire)
      /\ Len(buf) \in Nat /\ counter \in Nat
  BY CounterWidth DEF WireType, TypeOK, InputInv
<1>2. Start(counter) \in Nat
  BY <1>1, StartType, Zenon
<1>3. /\ Start(counter + 1) = Start(counter) + CipherChunk
      /\ CipherChunk \in Nat /\ TagLen \in Nat
  BY <1>1, StartStep, ChunksPositive
<1>4. /\ Start(counter) < Ahead /\ held = Part(wire, Start(counter), Ahead)
      /\ Len(held) >= TagLen
  BY DEF BlockInv
<1>5. Ahead \in Nat /\ Ahead <= pos /\ Ahead <= Len(wire) /\ Start(counter) <= Ahead
  BY <1>1, <1>2, <1>4 DEF Ahead
<1>6. Len(held) = Ahead - Start(counter)
  BY <1>1, <1>2, <1>4, <1>5, PartIsSeq, Zenon
<1>7. Ahead <= Start(counter + 1)
  <2>1. Len(held) <= CipherChunk
    BY DEF TypeOK
  <2>2. QED
    BY <1>2, <1>3, <1>5, <1>6, <2>1
<1>8. ASSUME buf = << >> PROVE Ahead = pos
  <2>1. Len(buf) = 0
    BY <1>8
  <2>2. QED
    BY <1>1, <2>1 DEF Ahead
<1>9. ASSUME buf # << >> PROVE Ahead < pos
  <2>1. Len(buf) # 0
    BY <1>9, EmptySeq DEF TypeOK
  <2>2. QED
    BY <1>1, <2>1 DEF Ahead
<1>10. ASSUME ~IsLast PROVE Ahead = Start(counter + 1)
  <2>1. ~(Len(held) < CipherChunk)
    BY <1>10 DEF IsLast
  <2>2. QED
    BY <1>2, <1>3, <1>5, <1>6, <1>7, <2>1
<1>11. QED
  BY <1>1, <1>2, <1>4, <1>5, <1>6, <1>7, <1>8, <1>9, <1>10

(* What is held and what is collected stay adjacent pieces of the wire.    *)
LEMMA BlockNext == IInv /\ [Next]_vars => BlockInv'
<1> SUFFICES ASSUME IInv, [Next]_vars PROVE BlockInv'
  OBVIOUS
<1>1. /\ WireType /\ TypeOK /\ InputInv /\ BlockInv /\ wire' = wire
      /\ wire \in Seq(Cell) /\ Len(wire) \in Nat
      /\ pos \in Nat /\ pos <= Len(wire) /\ Len(buf) \in Nat /\ counter \in Nat
  BY WireNext, CounterWidth DEF IInv, wireVars, WireType, TypeOK, InputInv
<1>2. Start(counter) \in Nat
  BY <1>1, StartType, Zenon
<1>3. CASE pc' \notin Early
  BY <1>3 DEF BlockInv, Early
<1>4. CASE UNCHANGED <<pos, buf, held, counter>> /\ (pc' = pc \/ pc \in Early)
           /\ (pc' # pc => \/ pc = "check" /\ pc' = "first"
                           \/ pc = "next" /\ pc' = "frame" /\ Len(held) >= TagLen)
  BY <1>1, <1>4 DEF BlockInv, Ahead, Part, Start
<1>5. CASE ReadSome(CipherChunk)
  <2>1. PICK n \in 1..Room(CipherChunk) :
          /\ pos + n <= Len(input)
          /\ buf' = buf \o SubSeq(input, pos + 1, pos + n)
          /\ pos' = pos + n
    BY <1>5 DEF ReadSome
  <2>2. /\ pc \in {"first", "next"} /\ pc' = pc /\ UNCHANGED <<held, counter>>
    BY <1>5 DEF ReadSome
  <2>3. /\ n \in Nat /\ pos + n \in Nat /\ pos + n <= Len(wire)
        /\ buf' = buf \o Part(wire, pos, pos + n) /\ Len(buf') = Len(buf) + n
    BY <1>1, <2>1, ReadFacts
  <2>4. PICK b \in Nat : b = Ahead /\ b <= pos /\ buf = Part(wire, b, pos)
    <3>1. CASE pc = "first"
      BY <1>1, <3>1 DEF BlockInv
    <3>2. CASE pc = "next"
      <4>1. Start(counter) < Ahead /\ buf = Part(wire, Ahead, pos)
        BY <1>1, <3>2 DEF BlockInv
      <4>2. Ahead \in Nat /\ Ahead <= pos
        BY <1>1, <1>2, <4>1 DEF Ahead
      <4>3. QED
        BY <4>1, <4>2
    <3>3. QED
      BY <2>2, <3>1, <3>2
  <2>5. buf' = Part(wire, b, pos')
    <3>1. PICK e \in Nat : e = pos + n /\ e <= Len(wire) /\ pos <= e
      BY <1>1, <2>3
    <3>2. Part(wire, b, pos) \o Part(wire, pos, e) = Part(wire, b, e)
      <4>1. wire \in Seq(Cell) /\ pos \in Nat /\ b <= pos
        BY <1>1, <2>4
      <4>2. QED
        BY <3>1, <4>1, PartConcat
    <3>3. QED
      BY <2>1, <2>3, <2>4, <3>1, <3>2
  <2>6. Ahead' = Ahead
    BY <1>1, <2>1, <2>3 DEF Ahead
  <2>7. Part(wire, 0, pos)' = Part(wire, 0, pos') /\ Part(wire, Ahead, pos)' = Part(wire, b, pos')
        /\ Part(wire, Start(counter), Ahead)' = Part(wire, Start(counter), Ahead)
        /\ Start(counter)' = Start(counter)
    BY <1>1, <2>2, <2>4, <2>6 DEF Part, Start
  <2>8. QED
    BY <1>1, <2>2, <2>4, <2>5, <2>6, <2>7 DEF BlockInv
<1>6. CASE FirstHeld(CipherChunk)
  <2>1. /\ pc = "first" /\ pc' = "next" /\ buf # << >> /\ held' = buf /\ buf' = << >>
        /\ UNCHANGED <<counter, pos>>
    BY <1>6 DEF FirstHeld, FreshBlock
  <2>2. counter = 0 /\ Ahead = 0 /\ buf = Part(wire, 0, pos) /\ Start(0) = 0
    BY <1>1, <2>1, StartStep DEF BlockInv
  <2>3. pos > 0
    <3>1. Len(buf) # 0
      BY <1>1, <2>1, EmptySeq DEF TypeOK
    <3>2. QED
      BY <1>1, <2>2, <3>1 DEF Ahead
  <2>4. Ahead' = pos /\ Part(wire, pos, pos) = << >>
    <3>1. Len(buf') = 0
      BY <2>1
    <3>2. Ahead' = pos
      BY <1>1, <2>1, <3>1 DEF Ahead
    <3>3. QED
      BY <1>1, <3>2, SubSeqEmpty DEF Part
  <2>5. Part(wire, Start(counter), Ahead)' = Part(wire, 0, pos)
        /\ Part(wire, Ahead, pos)' = Part(wire, pos, pos) /\ Start(counter)' = 0
    BY <1>1, <2>1, <2>2, <2>4 DEF Part, Start
  <2>6. QED
    BY <2>1, <2>2, <2>3, <2>4, <2>5 DEF BlockInv
<1>7. CASE OpenFrame /\ pc' = "next"
  <2>1. /\ pc = "frame" /\ ~IsLast /\ held' = buf /\ buf' = << >> /\ pos' = pos
        /\ counter' = counter + 1
    <3>1. pc = "frame" /\ Advance(IsLast) /\ ~Overflows /\ pos' = pos
      BY <1>7 DEF OpenFrame, Reject, Return, Advance
    <3>2. ~IsLast /\ held' = buf /\ buf' = << >> /\ counter' = (counter + 1) % (MaxCounter + 1)
      BY <1>7, <3>1 DEF Advance, FreshBlock
    <3>3. QED
      BY <1>1, <3>1, <3>2, CounterSteps DEF TypeOK
  <2>2. buf = Part(wire, Ahead, pos) /\ buf # << >>
    BY <1>1, <2>1 DEF BlockInv, IsLast
  <2>3. Ahead = Start(counter + 1) /\ Ahead < pos
    BY <1>1, <2>1, <2>2, HeldFacts
  <2>4. Ahead' = pos /\ Part(wire, pos, pos) = << >>
    <3>1. Len(buf') = 0
      BY <2>1
    <3>2. Ahead' = pos
      BY <1>1, <2>1, <3>1 DEF Ahead
    <3>3. QED
      BY <1>1, <3>2, SubSeqEmpty DEF Part
  <2>5. Start(counter)' = Ahead /\ Part(wire, Start(counter), Ahead)' = Part(wire, Ahead, pos)
        /\ Part(wire, Ahead, pos)' = Part(wire, pos, pos)
    BY <1>1, <2>1, <2>3, <2>4 DEF Part, Start
  <2>6. QED
    BY <1>7, <2>1, <2>2, <2>3, <2>4, <2>5 DEF BlockInv
<1>8. ASSUME OpenFrame, pc' # "next" PROVE pc' \notin Early
  BY <1>8 DEF OpenFrame, Reject, Advance, Return, Early
<1>9. ASSUME OpenEmpty \/ TooShort \/ Flush \/ Fails PROVE pc' \notin Early
  BY <1>9 DEF OpenEmpty, TooShort, Flush, Fails, Return, Early
<1>10. CASE Check
  BY <1>3, <1>4, <1>10 DEF Check, Return, Early
<1>11. CASE NextRead(CipherChunk) /\ Len(held) >= TagLen
  BY <1>4, <1>11 DEF NextRead, Early
<1>12. CASE Grow \/ UNCHANGED vars
  BY <1>4, <1>12 DEF Grow, vars, pipelineVars
<1>13. QED
  BY <1>3, <1>5, <1>6, <1>7, <1>8, <1>9, <1>10, <1>11, <1>12, Steps DEF QuietSteps

(* A short block of a file that stays as it is ends at its end.            *)
LEMMA SteadyNext == IInv /\ [Next]_vars => SteadyInv'
<1> SUFFICES ASSUME IInv, [Next]_vars, ~grown' PROVE SteadyInv'
  BY DEF SteadyInv
<1>1. /\ TypeOK /\ SteadyInv /\ BlockInv /\ CipherChunk \in Nat \ {0}
      /\ pos \in Nat /\ Len(input) \in Nat /\ pos <= Len(input)
  BY ChunksPositive DEF IInv, TypeOK
<1>2. CASE pc' \notin {"next", "frame"}
  BY <1>2 DEF SteadyInv
<1>3. CASE ReadSome(CipherChunk)
  <2>1. PICK n \in 1..Room(CipherChunk) : pos + n <= Len(input)
    BY <1>3 DEF ReadSome
  <2>2. n \in Nat \ {0} /\ pos # Len(input)
    BY <1>1, <2>1
  <2>3. /\ pc' = pc /\ pc \in {"first", "next"} /\ grown' = grown /\ held' = held
    BY <1>3 DEF ReadSome
  <2>4. pc = "next" => ~(Len(held) < CipherChunk)
    BY <1>1, <2>2, <2>3 DEF SteadyInv
  <2>5. QED
    BY <2>3, <2>4 DEF SteadyInv
<1>4. CASE NextRead(CipherChunk)
  <2>1. /\ pc = "next" /\ pc' = "frame" /\ UNCHANGED <<grown, held, buf, pos, input>>
        /\ Len(buf) = CipherChunk \/ pos = Len(input)
    BY <1>4 DEF NextRead, BlockEnds
  <2>2. Len(buf) < CipherChunk => pos = Len(input)
    BY <1>1, <2>1
  <2>3. QED
    BY <1>1, <2>1, <2>2 DEF SteadyInv
<1>5. CASE FirstHeld(CipherChunk)
  <2>1. /\ pc' = "next" /\ UNCHANGED <<grown, pos, input>> /\ buf' = << >> /\ held' = buf
        /\ Len(buf) = CipherChunk \/ pos = Len(input)
    BY <1>5 DEF FirstHeld, FreshBlock, BlockEnds
  <2>2. Len(buf) < CipherChunk => pos = Len(input)
    BY <1>1, <2>1
  <2>3. QED
    BY <1>1, <2>1, <2>2 DEF SteadyInv
<1>6. CASE OpenFrame /\ pc' \in {"next", "frame"}
  <2>1. pc = "frame" /\ Advance(IsLast) /\ pc' # "returned" /\ UNCHANGED <<grown, pos, input>>
    BY <1>6 DEF OpenFrame, Reject, Return
  <2>2. ~IsLast /\ pc' = "next" /\ held' = buf /\ buf' = << >>
    BY <1>6, <2>1 DEF Advance, Return, FreshBlock
  <2>3. Len(buf) < CipherChunk => pos = Len(input)
    BY <1>1, <2>1, <2>2 DEF SteadyInv, IsLast
  <2>4. QED
    BY <2>1, <2>2, <2>3 DEF SteadyInv
<1>7. CASE UNCHANGED vars
  BY <1>1, <1>7 DEF SteadyInv, vars, pipelineVars
<1>8. ~Grow
  BY DEF Grow
<1>9. ASSUME Check \/ OpenEmpty \/ TooShort \/ Flush \/ Fails
      PROVE  pc' \notin {"next", "frame"}
  BY <1>9 DEF Check, OpenEmpty, TooShort, Flush, Fails, Return
<1>10. QED
  BY <1>2, <1>3, <1>4, <1>5, <1>6, <1>7, <1>8, <1>9, Steps DEF QuietSteps

(* A frame that opens with bytes after it is the next sealed one.          *)
LEMMA OpenedInvNext == IInv /\ [Next]_vars => OpenedInv'
<1> SUFFICES ASSUME IInv, [Next]_vars, pc' \in Early PROVE Opened(wire, counter)'
  BY DEF OpenedInv
<1>1. /\ WireType /\ TypeOK /\ InputInv /\ BlockInv /\ OpenedInv /\ UNCHANGED wireVars
      /\ counter \in Nat
  BY WireNext, CounterWidth DEF IInv, TypeOK
<1>2. CASE OpenFrame
  <2>1. /\ pc = "frame" /\ Authentic(held, counter, IsLast) /\ Advance(IsLast)
        /\ pc' # "returned"
    BY <1>2 DEF OpenFrame, Reject, Return, Early
  <2>2. ~IsLast /\ ~Overflows /\ counter' = (counter + 1) % (MaxCounter + 1)
    BY <2>1 DEF Advance, Return, Early
  <2>3. counter' = counter + 1
    BY <1>1, <2>2, CounterSteps DEF TypeOK
  <2>4. Authentic(Part(wire, Start(counter), Start(counter + 1)), counter, FALSE)
    <3>1. held = Part(wire, Start(counter), Start(counter + 1))
      BY <1>1, <2>1, <2>2, HeldFacts
    <3>2. IsLast = FALSE
      BY <2>2 DEF IsLast
    <3>3. QED
      BY <2>1, <3>1, <3>2
  <2>5. Opened(wire, counter)
    BY <1>1, <2>1 DEF OpenedInv, Early
  <2>6. Opened(wire, counter + 1)
    BY <1>1, <2>4, <2>5, OpenedNext
  <2>7. Opened(wire, counter)' = Opened(wire, counter')
    BY <1>1 DEF wireVars, Opened, Part, Sent, FrameBytes
  <2>8. QED
    BY <2>3, <2>6, <2>7
<1>3. CASE ~OpenFrame
  <2>1. pc \in Early /\ counter' = counter
    BY <1>3, Steps
       DEF QuietSteps, Check, ReadSome, NextRead, FirstHeld, OpenEmpty, TooShort, Flush,
           Fails, Grow, Return, Early, vars, pipelineVars
  <2>2. Opened(wire, counter)
    BY <1>1, <2>1 DEF OpenedInv
  <2>3. QED
    BY <1>1, <2>1, <2>2, WireSame
<1>4. QED
  BY <1>2, <1>3

(* What has been written is the beginning of what was sealed.              *)
LEMMA WrittenNext == IInv /\ [Next]_vars => WrittenInv'
<1> SUFFICES ASSUME IInv, [Next]_vars PROVE WrittenInv'
  OBVIOUS
<1>1. /\ WireType /\ TypeOK /\ WrittenInv /\ sealed' = sealed
      /\ counter \in Nat /\ Len(sealed) \in Nat
  BY WireNext, CounterWidth, SealedCount DEF IInv, TypeOK, wireVars
<1>2. CASE UNCHANGED written /\ (pc' \in Early => pc \in Early /\ counter' = counter)
           /\ (pc' = "flush" => pc = "flush")
  BY <1>1, <1>2 DEF WrittenInv, Prefix
<1>3. CASE OpenFrame /\ Authentic(held, counter, IsLast)
  <2>1. written' = Append(written, Plaintext(counter)) /\ pc = "frame"
    BY <1>3 DEF OpenFrame
  <2>2. /\ counter + 1 \in 1..Len(sealed) /\ (IsLast <=> counter + 1 = Len(sealed))
    <3>1. IsLast \in BOOLEAN
      BY DEF IsLast
    <3>2. QED
      BY <1>1, <1>3, <3>1, AuthenticIs
  <2>3. written = Prefix(counter)
    BY <1>1, <2>1 DEF WrittenInv, Early
  <2>4. counter + 1 \in 0..Len(sealed)
    BY <1>1, <2>2
  <2>5. written' = Prefix(counter + 1) /\ Len(Prefix(counter + 1)) = counter + 1
    BY <1>1, <2>1, <2>2, <2>3, <2>4, PrefixFacts
  <2>6. /\ pc' \in Early => counter' = counter + 1
        /\ pc' = "flush" => IsLast
    BY <1>1, <1>3, CounterSteps DEF OpenFrame, Reject, Advance, Return, Early, TypeOK
  <2>7. Prefix(Len(written))' = Prefix(counter + 1)
    BY <1>1, <2>5 DEF Prefix
  <2>8. QED
    BY <1>1, <2>2, <2>4, <2>5, <2>6, <2>7 DEF WrittenInv
<1>4. ASSUME OpenFrame, ~Authentic(held, counter, IsLast)
      PROVE  UNCHANGED written /\ pc' = "returned"
  BY <1>4 DEF OpenFrame, Reject, Return
<1>5. ASSUME ~OpenFrame
      PROVE  /\ UNCHANGED written
             /\ pc' \in Early => pc \in Early /\ counter' = counter
             /\ pc' = "flush" => pc = "flush"
  BY <1>5, Steps
     DEF QuietSteps, Check, ReadSome, NextRead, FirstHeld, OpenEmpty, TooShort, Flush,
         Fails, Grow, Return, Early, vars, pipelineVars
<1>6. QED
  BY <1>2, <1>3, <1>4, <1>5 DEF Early

(* A status is given exactly when the call returns.                        *)
LEMMA StatusNext == IInv /\ [Next]_vars => StatusInv'
<1> SUFFICES ASSUME IInv, [Next]_vars PROVE StatusInv'
  OBVIOUS
<1>1. TypeOK /\ StatusInv
  BY DEF IInv
<1>2. ASSUME Check PROVE StatusInv'
  BY <1>1, <1>2, FirstCheck DEF Check, Return, StatusInv, NONE, TypeOK
<1>3. ASSUME ~Check PROVE StatusInv'
  BY <1>1, <1>3, Steps
     DEF StatusInv, NONE, QuietSteps, ReadSome, NextRead, FirstHeld, OpenEmpty, TooShort,
         Flush, Fails, Grow, OpenFrame, Reject, Advance, Return, vars, pipelineVars
<1>4. QED
  BY <1>2, <1>3

(* What was read up to the end of a last frame is the sealed stream.       *)
LEMMA LastIsIntact ==
    ASSUME IInv, pc = "frame", Authentic(held, counter, IsLast), IsLast, buf = << >>
    PROVE  IsIntact(Part(wire, 0, pos))
<1>1. /\ WireType /\ TypeOK /\ InputInv /\ BlockInv /\ counter \in Nat
      /\ wire \in Seq(Cell) /\ Opened(wire, counter)
  BY CounterWidth DEF IInv, TypeOK, OpenedInv, Early, WireType
<1>2. /\ held = Part(wire, Start(counter), pos)
      /\ pos \in Nat /\ pos <= Len(wire) /\ pos <= pos /\ pos - 0 = pos
      /\ Start(counter) \in Nat /\ Start(counter) <= pos /\ pos <= Start(counter + 1)
  BY <1>1, HeldFacts
<1>3. Part(wire, 0, pos) \in Seq(Cell) /\ Len(Part(wire, 0, pos)) = pos
  <2>1. 0 \in Nat /\ 0 <= pos
    BY <1>2
  <2>2. QED
    BY <1>1, <1>2, <2>1, PartIsSeq, Zenon
<1>4. PICK w \in Seq(Cell) : w = Part(wire, 0, pos) /\ Len(w) = pos
  BY <1>3
<1>5. Opened(w, counter)
  BY <1>1, <1>2, <1>4, OpenedPart
<1>6. Part(w, Start(counter), pos) = held
  BY <1>1, <1>2, <1>4, PartOfStart
<1>7. Authentic(Part(w, Start(counter), Len(w)), counter, TRUE)
  <2>1. IsLast = TRUE
    BY DEF IsLast
  <2>2. QED
    BY <1>4, <1>6, <2>1
<1>8. QED
  BY <1>1, <1>2, <1>4, <1>5, <1>7, AcceptedIsIntact

LEMMA IntactNext == IInv /\ [Next]_vars => IntactInv'
<1> SUFFICES ASSUME IInv, [Next]_vars PROVE IntactInv'
  OBVIOUS
<1>1. IntactInv /\ TypeOK /\ UNCHANGED wireVars
  BY WireNext DEF IInv
<1>2. CASE OpenFrame /\ Authentic(held, counter, IsLast) /\ pc' = "flush"
  <2>1. pc = "frame" /\ IsLast /\ ~DataAfterLast /\ UNCHANGED pos
    BY <1>2 DEF OpenFrame, Advance, Return
  <2>2. buf = << >>
    BY <2>1 DEF DataAfterLast
  <2>3. IsIntact(Part(wire, 0, pos))
    BY <1>2, <2>1, <2>2, LastIsIntact
  <2>4. QED
    BY <1>1, <2>1, <2>3, WireSame DEF IntactInv
<1>3. CASE pc = "flush" /\ UNCHANGED pos
  BY <1>1, <1>3, WireSame DEF IntactInv
<1>4. CASE UNCHANGED <<pc, pos, status>>
  BY <1>1, <1>4, WireSame DEF IntactInv
<1>5. CASE pc' # "flush" /\ status' # "Ok"
  BY <1>5 DEF IntactInv
<1>6. CASE OpenFrame
  <2>1. status # "Ok"
    BY <1>6 DEF IInv, StatusInv, OpenFrame, NONE
  <2>2. QED
    BY <1>2, <1>5, <1>6, <2>1 DEF OpenFrame, Reject, Advance, Return
<1>7. CASE Check
  <2>1. status # "Ok"
    BY <1>7 DEF IInv, StatusInv, Check, NONE
  <2>2. pc' # "flush" /\ status' # "Ok"
    BY <1>1, <1>7, <2>1, FirstCheck DEF Check, Return, TypeOK
  <2>3. QED
    BY <1>5, <2>2
<1>8. CASE ReadSome(CipherChunk) \/ NextRead(CipherChunk) \/ FirstHeld(CipherChunk)
  <2>1. status # "Ok"
    BY <1>8 DEF IInv, StatusInv, ReadSome, NextRead, FirstHeld, NONE
  <2>2. QED
    BY <1>5, <1>8, <2>1 DEF ReadSome, NextRead, FirstHeld
<1>9. CASE OpenEmpty \/ TooShort \/ Fails
  BY <1>5, <1>9 DEF OpenEmpty, TooShort, Fails, Return
<1>10. CASE Flush
  BY <1>3, <1>10 DEF Flush
<1>11. CASE Grow \/ UNCHANGED vars
  BY <1>4, <1>11 DEF Grow, vars, pipelineVars
<1>12. QED
  BY <1>6, <1>7, <1>8, <1>9, <1>10, <1>11, Steps DEF QuietSteps

(* On a file that stays as it is the last block ends where the wire does.  *)
LEMMA LastIsFinal ==
    ASSUME IInv, ~grown, input = wire, pc = "frame", IsLast
    PROVE  /\ buf = << >>
           /\ held = Part(wire, Start(counter), Len(wire))
           /\ Start(counter) < Len(wire) /\ Len(wire) <= Start(counter + 1)
           /\ ~(Len(wire) - Start(counter) < TagLen)
<1>1. /\ WireType /\ TypeOK /\ InputInv /\ BlockInv /\ SteadyInv
  BY DEF IInv
<1>2. buf = << >> /\ pos = Len(wire)
  <2>1. CASE Len(held) < CipherChunk
    BY <1>1, <2>1 DEF SteadyInv
  <2>2. CASE buf = << >>
    <3>1. Len(buf) < CipherChunk
      BY <2>2, ChunksPositive
    <3>2. QED
      BY <1>1, <2>2, <3>1 DEF SteadyInv
  <2>3. QED
    BY <2>1, <2>2 DEF IsLast
<1>3. /\ held = Part(wire, Start(counter), Ahead) /\ Ahead = pos
      /\ Start(counter) \in Nat /\ Start(counter) < Ahead
      /\ Ahead <= Start(counter + 1) /\ Ahead - Start(counter) >= TagLen
  BY <1>1, <1>2, HeldFacts
<1>4. ~(Ahead - Start(counter) < TagLen)
  BY <1>1, <1>2, <1>3, ChunksPositive DEF WireType
<1>5. QED
  BY <1>2, <1>3, <1>4

(* The status of a failed frame, of a short one and of an empty file is    *)
(* the reference's.                                                        *)
LEMMA VerdictNext == IInv /\ [Next]_vars => VerdictInv'
<1> SUFFICES ASSUME IInv, [Next]_vars, ~grown', input' = wire' PROVE VerdictInv'
  BY DEF VerdictInv
<1>1. /\ WireType /\ TypeOK /\ InputInv /\ BlockInv /\ SteadyInv /\ OpenedInv /\ StatusInv
      /\ VerdictInv /\ UNCHANGED wireVars /\ Verdict' = Verdict
      /\ counter \in Nat /\ pos \in Nat /\ Len(wire) \in Nat /\ wire \in Seq(Cell)
  BY WireNext, WireSame, CounterWidth DEF IInv, TypeOK, WireType
<1>2. ~grown /\ input = wire
  BY <1>1, Steps
     DEF QuietSteps, Check, ReadSome, NextRead, FirstHeld, OpenEmpty, TooShort, Flush,
         Fails, Grow, OpenFrame, vars, pipelineVars, wireVars
<1>3. CASE OpenFrame
  <2>1. pc = "frame" /\ Opened(wire, counter) /\ status = NONE
    BY <1>1, <1>3 DEF OpenFrame, OpenedInv, Early, StatusInv
  <2>2. CASE IsLast
    <3>1. /\ buf = << >> /\ held = Part(wire, Start(counter), Len(wire))
          /\ Start(counter) < Len(wire) /\ Len(wire) <= Start(counter + 1)
          /\ ~(Len(wire) - Start(counter) < TagLen)
      BY <1>2, <2>1, <2>2, LastIsFinal
    <3>2. Verdict = IF Authentic(held, counter, TRUE) THEN "Ok" ELSE "AuthFailed"
      BY <1>1, <2>1, <3>1, VerdictFinal
    <3>3. IsLast = TRUE /\ ~DataAfterLast
      BY <2>2, <3>1 DEF IsLast, DataAfterLast
    <3>4. CASE Authentic(held, counter, TRUE)
      <4>1. Advance(TRUE)
        BY <1>3, <3>3, <3>4 DEF OpenFrame
      <4>2. \/ pc' = "flush" /\ status' = NONE
            \/ pc' = "returned" /\ status' = "Internal"
        BY <2>1, <4>1 DEF Advance, Return
      <4>3. QED
        BY <1>1, <3>2, <3>4, <4>2 DEF VerdictInv, NONE
    <3>5. CASE ~Authentic(held, counter, TRUE)
      <4>1. pc' = "returned" /\ status' = "AuthFailed"
        BY <1>3, <3>3, <3>5 DEF OpenFrame, Reject, Return
      <4>2. QED
        BY <1>1, <3>2, <3>5, <4>1 DEF VerdictInv
    <3>6. QED
      BY <3>4, <3>5
  <2>3. CASE ~IsLast
    <3>1. IsLast = FALSE /\ buf # << >> /\ ~DataAfterLast
      BY <2>3 DEF IsLast, DataAfterLast
    <3>2. /\ held = Part(wire, Start(counter), Start(counter + 1))
          /\ Start(counter + 1) < pos /\ pos <= Len(wire) /\ Start(counter + 1) \in Nat
      BY <1>1, <2>1, <2>3, <3>1, HeldFacts
    <3>3. Start(counter + 1) < Len(wire)
      BY <1>1, <3>2
    <3>4. CASE Authentic(held, counter, FALSE)
      <4>1. Advance(FALSE)
        BY <1>3, <3>1, <3>4 DEF OpenFrame
      <4>2. \/ pc' = "next" /\ status' = NONE
            \/ pc' = "returned" /\ status' = "Internal"
        BY <2>1, <4>1 DEF Advance, Return
      <4>3. QED
        BY <4>2 DEF VerdictInv, NONE
    <3>5. CASE ~Authentic(held, counter, FALSE)
      <4>1. pc' = "returned" /\ status' = "AuthFailed"
        BY <1>3, <3>1, <3>5 DEF OpenFrame, Reject, Return
      <4>2. Verdict = "AuthFailed"
        BY <1>1, <3>2, <3>3, <3>5, VerdictInner
      <4>3. QED
        BY <1>1, <4>1, <4>2 DEF VerdictInv
    <3>6. QED
      BY <3>4, <3>5
  <2>4. QED
    BY <2>2, <2>3
<1>4. CASE OpenEmpty
  <2>1. pc = "first" /\ Len(buf) = 0 /\ pos = Len(wire) /\ counter = 0
    BY <1>1, <1>2, <1>4, ChunksPositive DEF OpenEmpty, BlockEnds, BlockInv
  <2>2. Len(wire) = 0
    BY <1>1, <2>1 DEF BlockInv, Ahead
  <2>3. Len(wire) - Start(0) < TagLen /\ Len(wire) <= Start(0 + 1) /\ 0 \in Nat
    BY <2>2, StartStep, ChunksPositive
  <2>4. Verdict = "InvalidCiphertext"
    BY <1>1, <2>3, OpenedNone, VerdictFinal
  <2>5. QED
    BY <1>1, <1>4, <2>4 DEF OpenEmpty, Return, VerdictInv
<1>5. CASE TooShort
  <2>1. pc = "next" /\ Len(held) < TagLen /\ Opened(wire, counter)
    BY <1>1, <1>5 DEF TooShort, OpenedInv, Early
  <2>2. Len(held) < CipherChunk
    BY <1>1, <2>1, ChunksPositive DEF TypeOK
  <2>3. buf = << >> /\ pos = Len(wire)
    BY <1>1, <1>2, <2>1, <2>2 DEF SteadyInv
  <2>4. Start(counter) < Len(wire) /\ held = Part(wire, Start(counter), Len(wire))
    <3>1. Len(buf) = 0
      BY <2>3
    <3>2. Ahead = Len(wire)
      BY <1>1, <2>3, <3>1 DEF Ahead
    <3>3. QED
      BY <1>1, <2>1, <3>2 DEF BlockInv
  <2>5. Start(counter) \in Nat
    BY <1>1, StartType, Zenon
  <2>6. Len(held) = Len(wire) - Start(counter)
    <3>1. Start(counter) <= Len(wire) /\ Len(wire) <= Len(wire)
      BY <1>1, <2>4, <2>5
    <3>2. QED
      BY <1>1, <2>4, <2>5, <3>1, PartIsSeq, Zenon
  <2>7. Len(wire) <= Start(counter + 1) /\ Len(wire) - Start(counter) < TagLen
    <3>1. Start(counter + 1) = Start(counter) + CipherChunk /\ CipherChunk \in Nat
      BY <1>1, StartStep, ChunksPositive
    <3>2. QED
      BY <1>1, <2>1, <2>2, <2>5, <2>6, <3>1
  <2>8. Verdict = "InvalidCiphertext"
    BY <1>1, <2>1, <2>4, <2>7, VerdictFinal
  <2>9. QED
    BY <1>1, <1>5, <2>8 DEF TooShort, Return, VerdictInv
<1>6. CASE Flush
  BY <1>1, <1>2, <1>6 DEF Flush, Return, VerdictInv
<1>7. CASE UNCHANGED <<pc, status>>
  BY <1>1, <1>2, <1>7 DEF VerdictInv
<1>8. CASE Fails
  BY <1>8 DEF Fails, Return, VerdictInv
<1>9. CASE Check
  BY <1>1, <1>9, FirstCheck DEF Check, Return, VerdictInv, StatusInv, TypeOK, NONE
<1>10. CASE NextRead(CipherChunk) \/ FirstHeld(CipherChunk)
  BY <1>1, <1>10 DEF NextRead, FirstHeld, VerdictInv, StatusInv, NONE
<1>11. CASE ReadSome(CipherChunk) \/ Grow \/ UNCHANGED vars
  BY <1>7, <1>11 DEF ReadSome, Grow, vars, pipelineVars
<1>12. QED
  BY <1>3, <1>4, <1>5, <1>6, <1>8, <1>9, <1>10, <1>11, Steps DEF QuietSteps

LEMMA InvNext == IInv /\ [Next]_vars => IInv'
<1> SUFFICES ASSUME IInv, [Next]_vars PROVE IInv'
  OBVIOUS
<1>1. WireType'
  BY WireNext DEF IInv
<1>2. QED
  BY <1>1, TypeNext, InputNext, BlockNext, SteadyNext, OpenedInvNext, WrittenNext,
     StatusNext, IntactNext, VerdictNext DEF IInv

LEMMA Invariance == Spec => []IInv
BY InvInit, InvNext, PTL DEF Spec

(* The call keeps its types: no block is longer than a sealed frame and    *)
(* the counter stays within its width.                                     *)
THEOREM TypeCorrect == Spec => []TypeOK
<1>1. IInv => TypeOK
  BY DEF IInv
<1>2. QED
  BY <1>1, Invariance, PTL

(* The call reports Ok only when what it read is the sealed stream, also   *)
(* when the file is extended under it.                                     *)
THEOREM AcceptsWhole == Spec => []AcceptedWhole
<1>1. ASSUME IInv PROVE AcceptedWhole
  <2>1. /\ input = Part(wire, 0, Len(input)) /\ Len(input) \in Nat /\ Len(input) <= Len(wire)
        /\ pos \in Nat /\ pos <= Len(input) /\ wire \in Seq(Cell)
    BY <1>1 DEF IInv, InputInv, TypeOK, WireType
  <2>2. 0 \in Nat /\ 0 <= pos
    BY <2>1
  <2>3. Part(Part(wire, 0, Len(input)), 0, pos) = Part(wire, 0, pos)
    BY <2>1, <2>2, PartOfStart
  <2>4. SubSeq(input, 1, pos) = Part(wire, 0, pos)
    BY <2>1, <2>3 DEF Part
  <2>5. QED
    BY <1>1, <2>4 DEF IInv, IntactInv, AcceptedWhole
<1>2. QED
  BY <1>1, Invariance, PTL

(* On a file that stays as it is the status is the one of the whole wire,  *)
(* the same that the Dart generator gives.                                 *)
THEOREM VerdictIsOfWire == Spec => []VerdictOfWire
<1>1. IInv => VerdictOfWire
  BY DEF IInv, VerdictInv, VerdictOfWire
<1>2. QED
  BY <1>1, Invariance, PTL

-----------------------------------------------------------------------------
LEMMA OpeningInit == Init => Opening!Init
BY DEF Init, PipelineInit, Opening!Init, Outcome, NONE

(* Every step writes the next chunk or none, and Ok comes only after the   *)
(* last.                                                                   *)
LEMMA OpeningNext ==
    IInv /\ [Next]_vars =>
      [Opening!Next]_<<SealedChunks, written, Outcome>>
<1> SUFFICES ASSUME IInv, [Next]_vars
             PROVE  Opening!Next \/ UNCHANGED <<SealedChunks, written, Outcome>>
  OBVIOUS
<1>1. /\ WireType /\ TypeOK /\ WrittenInv /\ StatusInv /\ UNCHANGED wireVars
      /\ counter \in Nat /\ sealed' = sealed
  BY WireNext, CounterWidth DEF IInv, TypeOK, wireVars
<1>2. SealedChunks' = SealedChunks
  BY <1>1 DEF SealedChunks
<1>3. SealedChunks = Prefix(Len(sealed)) /\ Len(SealedChunks) = Len(sealed)
  <2>1. Len(sealed) \in 0..Len(sealed)
    BY <1>1, SealedCount
  <2>2. SealedChunks = Prefix(Len(sealed))
    BY <1>1, StreamFacts, Zenon DEF Prefix, SealedChunks
  <2>3. QED
    BY <1>1, <2>1, <2>2, PrefixFacts
<1>4. ASSUME OpenFrame, Authentic(held, counter, IsLast) PROVE Opening!Next
  <2>1. pc = "frame" /\ status = NONE /\ written' = Append(written, Plaintext(counter))
    BY <1>1, <1>4 DEF OpenFrame, StatusInv
  <2>2. counter + 1 \in 1..Len(sealed)
    <3>1. IsLast \in BOOLEAN
      BY DEF IsLast
    <3>2. QED
      BY <1>1, <1>4, <3>1, AuthenticIs
  <2>3. Len(written) = counter /\ counter < Len(SealedChunks)
    <3>1. counter < Len(sealed)
      BY <1>1, <2>2, SealedCount
    <3>2. QED
      BY <1>1, <1>3, <2>1, <3>1 DEF WrittenInv, Early
  <2>4. Plaintext(counter) = SealedChunks[Len(written) + 1]
    BY <1>1, <2>2, <2>3, StreamFacts DEF Plaintext, SealedChunks
  <2>5. Outcome = "open" /\ Outcome' \in {"open", "failed"}
    <3>1. status' \in {NONE, "InvalidCiphertext", "Internal"}
      BY <1>4, <2>1 DEF OpenFrame, Advance, Return
    <3>2. QED
      BY <2>1, <3>1 DEF Outcome, NONE
  <2>6. QED
    BY <1>2, <2>1, <2>3, <2>4, <2>5 DEF Opening!Next, Opening!Release
<1>5. CASE Flush
  <2>1. written = SealedChunks /\ status = NONE /\ status' = "Ok" /\ UNCHANGED written
    BY <1>1, <1>3, <1>5, Steps
       DEF Flush, Return, WrittenInv, StatusInv, OpenFrame, Grow, vars, pipelineVars
  <2>2. QED
    BY <1>2, <2>1 DEF Opening!Next, Outcome, NONE
<1>6. ASSUME UNCHANGED written, status = NONE, status' # "Ok" PROVE Opening!Next
  BY <1>2, <1>6 DEF Opening!Next, Outcome, NONE
<1>7. CASE UNCHANGED <<written, status>>
  BY <1>2, <1>7 DEF Outcome
<1>8. CASE OpenFrame /\ ~Authentic(held, counter, IsLast)
  BY <1>1, <1>6, <1>8 DEF OpenFrame, Reject, Return, StatusInv
<1>9. CASE Check /\ UNCHANGED written
  <2>1. status = NONE
    BY <1>1, <1>9 DEF Check, StatusInv
  <2>2. status' # "Ok"
    BY <1>1, <1>9, <2>1, FirstCheck DEF Check, Return, TypeOK, NONE
  <2>3. QED
    BY <1>6, <1>9, <2>1, <2>2
<1>10. CASE (OpenEmpty \/ TooShort \/ Fails) /\ UNCHANGED written
  BY <1>1, <1>6, <1>10 DEF OpenEmpty, TooShort, Fails, Return, StatusInv
<1>11. CASE (ReadSome(CipherChunk) \/ NextRead(CipherChunk) \/ FirstHeld(CipherChunk))
            /\ UNCHANGED written
  BY <1>7, <1>11 DEF ReadSome, NextRead, FirstHeld
<1>12. CASE Grow \/ UNCHANGED vars
  BY <1>7, <1>12 DEF Grow, vars, pipelineVars
<1>13. QED
  BY <1>4, <1>5, <1>8, <1>9, <1>10, <1>11, <1>12, Steps DEF QuietSteps

(* The call implements an opener of streams: the output file grows by the  *)
(* sealed chunks in order, and Ok means that all of them are there.        *)
THEOREM Implements == Spec => ReleasesInOrder
<1>1. Spec => Opening!Init /\ [][Opening!Next]_<<SealedChunks, written, Outcome>>
  BY OpeningInit, OpeningNext, Invariance, PTL DEF Spec
<1>2. QED
  BY <1>1 DEF ReleasesInOrder, Opening!Spec
=============================================================================
