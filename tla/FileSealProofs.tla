--------------------------- MODULE FileSealProofs ---------------------------
(***************************************************************************)
(* Proofs about FileSeal for every chunk size, counter width, input file   *)
(* and pattern of short reads: the type invariant, that the chunks written *)
(* are consecutive pieces of the file also when it grows, and that on a    *)
(* file that stays as it is the output follows the wire format and Ok      *)
(* means the framing of all of it; and that the nonces are those of the    *)
(* Dart side, each used once.                                              *)
(***************************************************************************)
EXTENDS FileSeal, StreamProofs, FiniteSetTheorems, FunctionTheorems

Early == {"check", "first", "next", "frame"}

(* The position of the last byte sealed in the first k frames.             *)
EndOf(fs, k) ==
    IF k = 0 \/ fs[k].chunk = << >> THEN 0 ELSE fs[k].chunk[Len(fs[k].chunk)]

(* Where the held block starts.                                            *)
From == pos - Len(buf) - Len(held)

InputInv == input = Run(0, Len(input))

(* The blocks read are adjacent pieces of the file, from where the frames  *)
(* written end.                                                            *)
BlockInv ==
    /\ pc \in {"check", "first"} => out = << >> /\ counter = 0 /\ buf = Run(0, pos)
    /\ pc \in {"next", "frame"} =>
         /\ held # << >>
         /\ From \in Nat /\ From = EndOf(out, Len(out))
         /\ held = Run(From, Len(held))
         /\ buf = Run(From + Len(held), Len(buf))
    /\ pc \in Early => counter = Len(out)

(* While the file stays as it is, only its last block is short, all frames *)
(* before it are full ones, and after it the output is complete.           *)
SteadyInv ==
    ~grown =>
      /\ pc \in {"next", "frame"} =>
           /\ From = Base(counter)
           /\ Len(held) < ChunkSize => buf = << >> /\ pos = Len(input)
      /\ pc = "frame" /\ Len(buf) < ChunkSize => pos = Len(input)
      /\ pc \in Early => FullFrames(out, Len(out))
      /\ pc = "flush" \/ status = "Ok" => out = Framing(Len(input))

StatusInv == pc = "returned" <=> status # NONE

IInv ==
    /\ TypeOK
    /\ InputInv
    /\ BlockInv
    /\ SteadyInv
    /\ StatusInv
    /\ SealedInOrder

-----------------------------------------------------------------------------
(* Each step of the call, taken apart.                                     *)
QuietSteps ==
    \/ Check
    \/ ReadSome(ChunkSize)
    \/ FirstHeld(ChunkSize)
    \/ NextRead(ChunkSize)
    \/ Flush
    \/ Fails

LEMMA Steps ==
    [Next]_vars =>
      \/ SealEmpty
      \/ SealFrame
      \/ UNCHANGED out /\ QuietSteps
      \/ Grow
      \/ UNCHANGED vars
BY Zenon DEF Next, Step, QuietSteps

(* What a request that fails a check returns.                              *)
LEMMA FirstCheck ==
    ASSUME failing \in SUBSET DOMAIN Checks, failing # {}
    PROVE  Checks[FirstFailing] \in {"InvalidKey", "NullArgument", "Unaligned", "Io"}
<1>1. DOMAIN Checks = 1..7
  BY DEF Checks
<1>2. \E i \in failing : \A j \in failing : i <= j
  BY <1>1
<1>3. FirstFailing \in 1..7
  BY <1>1, <1>2 DEF FirstFailing
<1>4. \A i \in 1..7 : Checks[i] \in {"InvalidKey", "NullArgument", "Unaligned", "Io"}
  BY DEF Checks
<1>5. QED
  BY <1>3, <1>4

(* The counter never wraps: the call gives up first.                       *)
LEMMA CounterSteps ==
    ASSUME counter \in 0..MaxCounter, ~Overflows
    PROVE  /\ counter + 1 \in 0..MaxCounter
           /\ (counter + 1) % (MaxCounter + 1) = counter + 1
BY CounterWidth DEF Overflows

(* The lengths and places the lemmas below calculate with.                 *)
LEMMA Numbers ==
    ASSUME TypeOK
    PROVE  /\ pos \in Nat /\ Len(input) \in Nat /\ pos <= Len(input)
           /\ Len(buf) \in Nat /\ Len(held) \in Nat /\ Len(out) \in Nat
           /\ Len(buf) <= ChunkSize /\ Len(held) <= ChunkSize
           /\ counter \in Nat /\ ChunkSize \in Nat /\ ChunkSize > 0
BY ChunkSizePositive, CounterWidth DEF TypeOK

-----------------------------------------------------------------------------
(* A piece of the file, and adjacent ones joined.                          *)
LEMMA RunPiece ==
    \A m, p, n \in Nat : p + n <= m => SubSeq(Run(0, m), p + 1, p + n) = Run(p, n)
BY DEF Run

LEMMA RunJoin == \A p, n \in Nat : Run(0, p) \o Run(p, n) = Run(0, p + n)
BY DEF Run

(* A sealed frame shows the chunk and the counter that went in.            *)
LEMMA SealFacts ==
    \A chunk \in Seq(Byte), k \in Nat, last \in BOOLEAN :
      /\ Seal(chunk, k, last) \in Frame
      /\ Seal(chunk, k, last).chunk = chunk
      /\ Seal(chunk, k, last).counter = k
BY DEF Seal, Frame

(* What is read is the next piece of the file.                             *)
LEMMA ReadFacts ==
    ASSUME TypeOK, InputInv, NEW n \in 1..Room(ChunkSize), pos + n <= Len(input)
    PROVE  /\ n \in Nat /\ pos + n \in Nat
           /\ SubSeq(input, pos + 1, pos + n) = Run(pos, n)
           /\ Len(buf) + n <= ChunkSize
           /\ buf \o Run(pos, n) \in Seq(Byte)
           /\ Len(buf \o Run(pos, n)) = Len(buf) + n
<1>1. /\ n \in Nat /\ Len(buf) + n <= ChunkSize /\ pos + n \in Nat
      /\ pos \in Nat /\ Len(input) \in Nat /\ Len(buf) \in Nat 
  BY Numbers DEF Room
<1>2. SubSeq(input, pos + 1, pos + n) = Run(pos, n)
  <2>1. PICK m \in Nat : m = Len(input) /\ input = Run(0, m) /\ pos + n <= m
    BY <1>1 DEF InputInv
  <2>2. SubSeq(Run(0, m), pos + 1, pos + n) = Run(pos, n)
    BY <1>1, <2>1, RunPiece
  <2>3. QED
    BY <1>1, <2>1, <2>2
<1>3. PICK p \in Seq(Byte) : p = Run(pos, n) /\ Len(p) = n
  BY <1>1, RunIsSeq
<1>4. buf \in Seq(Byte)
  BY DEF TypeOK
<1>5. buf \o p \in Seq(Byte) /\ Len(buf \o p) = Len(buf) + n
  <2>1. buf \o p \in Seq(Byte) /\ Len(buf \o p) = Len(buf) + Len(p)
    BY <1>4, ConcatProperties
  <2>2. QED
    BY <1>3, <2>1
<1>6. QED
  BY <1>1, <1>2, <1>3, <1>5

LEMMA InvInit == Init => IInv
<1> SUFFICES ASSUME Init PROVE IInv
  OBVIOUS
<1>1. /\ pc = "check" /\ failing \in Requests /\ grown = FALSE /\ pos = 0
      /\ buf = << >> /\ held = << >> /\ counter = 0 /\ status = NONE /\ out = << >>
  BY DEF Init, PipelineInit
<1>2. PICK n \in Nat : input = Run(0, n) /\ input \in Seq(Byte) /\ Len(input) = n
  <2>1. PICK n \in 0..MaxBytes : input = Run(0, n)
    BY DEF Init, PipelineInit
  <2>2. n \in Nat
    BY FileBounds
  <2>3. QED
    BY <2>1, <2>2, RunIsSeq
<1>3. TypeOK
  <2>1. failing \in SUBSET DOMAIN Checks
    BY <1>1, RequestsFailChecks
  <2>2. << >> \in Seq(Byte) /\ << >> \in Seq(Frame) /\ Len(<< >>) = 0
    OBVIOUS
  <2>3. 0 \in 0..Len(input) /\ 0 <= ChunkSize /\ 0 \in 0..MaxCounter
    BY <1>2, ChunkSizePositive, CounterWidth
  <2>4. QED
    BY <1>1, <1>2, <2>1, <2>2, <2>3 DEF TypeOK, Places
<1>4. InputInv
  BY <1>2 DEF InputInv
<1>5. BlockInv /\ StatusInv
  BY <1>1, RunEmpty DEF BlockInv, StatusInv, Early
<1>6. SteadyInv
  BY <1>1 DEF SteadyInv, FullFrames, NONE
<1>7. SealedInOrder
  BY <1>1 DEF SealedInOrder
<1>8. QED
  BY <1>3, <1>4, <1>5, <1>6, <1>7 DEF IInv

(* A frame that is written has the held block and the flag in it.          *)
LEMMA OutType ==
    ASSUME TypeOK, NEW chunk \in Seq(Byte), NEW last \in BOOLEAN
    PROVE  Append(out, Seal(chunk, counter, last)) \in Seq(Frame)
<1>1. Seal(chunk, counter, last) \in Frame
  BY Numbers DEF Seal, Frame
<1>2. out \in Seq(Frame)
  BY DEF TypeOK
<1>3. QED
  BY <1>1, <1>2, AppendProperties

LEMMA TypeNext == IInv /\ [Next]_vars => TypeOK'
<1> SUFFICES ASSUME IInv, [Next]_vars PROVE TypeOK'
  OBVIOUS
<1>1. TypeOK /\ InputInv
  BY DEF IInv
<1>2. ChunkSize \in Nat /\ << >> \in Seq(Byte) /\ Len(<< >>) = 0 /\ 0 <= ChunkSize
  BY ChunkSizePositive
<1>3. CASE Check /\ UNCHANGED out
  BY <1>1, <1>3, FirstCheck DEF Check, Return, TypeOK, Places
<1>4. CASE ReadSome(ChunkSize) /\ UNCHANGED out
  <2>1. PICK n \in 1..Room(ChunkSize) :
          /\ pos + n <= Len(input)
          /\ buf' = buf \o SubSeq(input, pos + 1, pos + n)
          /\ pos' = pos + n
    BY <1>4 DEF ReadSome
  <2>2. /\ buf' \in Seq(Byte) /\ Len(buf') <= ChunkSize /\ pos' \in 0..Len(input)
    <3>1. /\ n \in Nat /\ pos + n \in Nat /\ buf' = buf \o Run(pos, n)
          /\ buf \o Run(pos, n) \in Seq(Byte)
          /\ Len(buf \o Run(pos, n)) = Len(buf) + n /\ Len(buf) + n <= ChunkSize
      BY <1>1, <2>1, ReadFacts
    <3>2. buf' \in Seq(Byte) /\ Len(buf') <= ChunkSize
      BY <1>1, <3>1, Numbers
    <3>3. pos' \in 0..Len(input)
      BY <1>1, <2>1, <3>1, Numbers
    <3>4. QED
      BY <3>2, <3>3
  <2>3. QED
    BY <1>1, <1>4, <2>2 DEF ReadSome, TypeOK
<1>5. CASE FirstHeld(ChunkSize) /\ UNCHANGED out
  BY <1>1, <1>2, <1>5 DEF FirstHeld, FreshBlock, TypeOK, Places
<1>6. CASE (NextRead(ChunkSize) \/ Flush \/ Fails) /\ UNCHANGED out
  BY <1>1, <1>6 DEF NextRead, Flush, Fails, Return, TypeOK, Places
<1>7. CASE SealEmpty
  <2>1. out' \in Seq(Frame)
    BY <1>1, <1>2, <1>7, OutType DEF SealEmpty
  <2>2. QED
    BY <1>1, <1>7, <2>1 DEF SealEmpty, TypeOK, Places
<1>8. CASE SealFrame
  <2>1. out' \in Seq(Frame)
    BY <1>1, <1>8, OutType DEF SealFrame, IsLast, TypeOK
  <2>2. /\ pc' \in Places /\ counter' \in 0..MaxCounter
        /\ status' \in {status, "Internal"}
        /\ held' \in {held, buf} /\ buf' \in {buf, << >>}
    BY <1>1, <1>8, CounterSteps DEF SealFrame, Advance, Return, FreshBlock, TypeOK, Places
  <2>3. QED
    BY <1>1, <1>2, <1>8, <2>1, <2>2 DEF SealFrame, TypeOK
<1>9. CASE Grow
  <2>1. PICK n \in 1..MaxGrowth : input' = input \o Run(Len(input), n)
    BY <1>9 DEF Grow
  <2>2. PICK p \in Seq(Byte) : p = Run(Len(input), n) /\ Len(p) = n
    BY <1>1, <2>1, Numbers, FileBounds, RunIsSeq
  <2>3. input \in Seq(Byte) /\ n \in Nat
    BY <1>1, FileBounds DEF TypeOK
  <2>4. input' \in Seq(Byte) /\ Len(input') = Len(input) + n
    BY <2>1, <2>2, <2>3, ConcatProperties
  <2>5. pos' \in 0..Len(input')
    BY <1>1, <1>9, <2>3, <2>4, Numbers DEF Grow
  <2>6. QED
    BY <1>1, <1>9, <2>4, <2>5 DEF Grow, TypeOK
<1>10. CASE UNCHANGED vars
  BY <1>1, <1>10 DEF vars, pipelineVars, TypeOK
<1>11. QED
  BY <1>3, <1>4, <1>5, <1>6, <1>7, <1>8, <1>9, <1>10, Steps DEF QuietSteps

(* The input file is extended, never rewritten.                            *)
LEMMA InputNext == IInv /\ [Next]_vars => InputInv'
<1> SUFFICES ASSUME IInv, [Next]_vars PROVE InputInv'
  OBVIOUS
<1>1. TypeOK /\ InputInv
  BY DEF IInv
<1>2. CASE Grow
  <2>1. PICK n \in 1..MaxGrowth : input' = input \o Run(Len(input), n)
    BY <1>2 DEF Grow
  <2>2. PICK m \in Nat : m = Len(input) /\ input = Run(0, m) /\ 0 + m = m /\ 0 \in Nat
    BY <1>1, Numbers DEF InputInv
  <2>3. n \in Nat /\ m + n \in Nat
    BY <2>2, FileBounds
  <2>4. Run(0, m) \o Run(0 + m, n) = Run(0, m + n)
    BY <2>2, <2>3, RunConcat
  <2>5. input' = Run(0, m + n) /\ Len(input') = m + n
    <3>1. input' = Run(0, m + n)
      BY <2>1, <2>2, <2>4, Zenon
    <3>2. Len(Run(0, m + n)) = m + n
      BY <2>2, <2>3, RunIsSeq, Zenon
    <3>3. QED
      BY <3>1, <3>2, Zenon
  <2>6. QED
    BY <2>5 DEF InputInv
<1>3. CASE UNCHANGED input
  BY <1>1, <1>3 DEF InputInv
<1>4. QED
  BY <1>2, <1>3, Steps
     DEF QuietSteps, Check, ReadSome, NextRead, FirstHeld, SealEmpty, SealFrame, Flush,
         Fails, vars, pipelineVars

(* A status is given exactly when the call returns.                        *)
LEMMA StatusNext == IInv /\ [Next]_vars => StatusInv'
<1> SUFFICES ASSUME IInv, [Next]_vars PROVE StatusInv'
  OBVIOUS
<1>1. TypeOK /\ StatusInv
  BY DEF IInv
<1>2. ASSUME Check PROVE StatusInv'
  BY <1>1, <1>2, FirstCheck DEF Check, Return, StatusInv, NONE, TypeOK
<1>3. ASSUME ~Check PROVE StatusInv'
  BY <1>1, <1>3, Steps
     DEF StatusInv, NONE, QuietSteps, ReadSome, NextRead, FirstHeld, SealEmpty, SealFrame,
         Flush, Fails, Grow, Advance, Return, vars, pipelineVars
<1>4. QED
  BY <1>2, <1>3


(* Appending a frame leaves the ends of those before it.                   *)
LEMMA AppendEnds ==
    ASSUME TypeOK, NEW f \in Frame
    PROVE  /\ \A k \in 0..Len(out) : EndOf(Append(out, f), k) = EndOf(out, k)
           /\ Len(Append(out, f)) = Len(out) + 1
           /\ Append(out, f)[Len(out) + 1] = f
           /\ \A i \in 1..Len(out) : Append(out, f)[i] = out[i]
<1>1. /\ Len(out) \in Nat
      /\ Len(Append(out, f)) = Len(out) + 1
      /\ Append(out, f)[Len(out) + 1] = f
      /\ \A i \in 1..Len(out) : Append(out, f)[i] = out[i]
  <2>1. out \in Seq(Frame)
    BY DEF TypeOK
  <2>2. QED
    BY <2>1, AppendFrame
<1>2. ASSUME NEW k \in 0..Len(out) PROVE EndOf(Append(out, f), k) = EndOf(out, k)
  <2>1. CASE k = 0
    BY <2>1 DEF EndOf
  <2>2. CASE k # 0
    <3>1. k \in 1..Len(out)
      BY <1>1, <2>2
    <3>2. Append(out, f)[k] = out[k]
      BY <1>1, <3>1
    <3>3. QED
      BY <3>2, Zenon DEF EndOf
  <2>3. QED
    BY <2>1, <2>2
<1>3. QED
  BY <1>1, <1>2

(* The held block ends where what was read after it begins.                *)
LEMMA HeldFacts ==
    ASSUME IInv, pc = "frame"
    PROVE  /\ Len(held) \in Nat \ {0} /\ held \in Seq(Byte)
           /\ From \in Nat /\ From + Len(held) \in Nat
           /\ From + Len(held) = pos - Len(buf)
           /\ held = Run(From, Len(held))
           /\ held[Len(held)] = From + Len(held)
           /\ counter = Len(out)
<1>1. TypeOK /\ BlockInv
  BY DEF IInv
<1>2. /\ held # << >> /\ From \in Nat /\ held = Run(From, Len(held)) /\ counter = Len(out)
      /\ held \in Seq(Byte) /\ Len(held) \in Nat /\ Len(buf) \in Nat /\ pos \in Nat
  BY <1>1, Numbers DEF BlockInv, Early, TypeOK
<1>3. Len(held) # 0
  BY <1>2, EmptySeq
<1>4. PICK h \in Nat \ {0} : h = Len(held) /\ h \in 1..h
  BY <1>2, <1>3
<1>5. Run(From, h)[h] = From + h
  BY <1>2, <1>4, RunIsSeq
<1>6. From + h = pos - Len(buf)
  BY <1>2, <1>4 DEF From
<1>7. QED
  BY <1>2, <1>4, <1>5, <1>6

(* The frame that is written goes on where the one before it ended.        *)
LEMMA OrderNext == IInv /\ [Next]_vars => SealedInOrder'
<1> SUFFICES ASSUME IInv, [Next]_vars PROVE SealedInOrder'
  OBVIOUS
<1>1. /\ TypeOK /\ BlockInv /\ out \in Seq(Frame) /\ Len(out) \in Nat /\ counter \in Nat
      /\ \A i \in 1..Len(out) : out[i].chunk = Run(EndOf(out, i - 1), Len(out[i].chunk))
  <2>1. TypeOK /\ BlockInv /\ SealedInOrder
    BY DEF IInv
  <2>2. out \in Seq(Frame) /\ Len(out) \in Nat /\ counter \in Nat
    BY <2>1, Numbers DEF TypeOK
  <2>3. DOMAIN out = 1..Len(out)
    BY <2>2
  <2>4. QED
    BY <2>1, <2>2, <2>3, Zenon DEF SealedInOrder, EndOf
<1>2. ASSUME NEW chunk \in Seq(Byte), NEW last \in BOOLEAN,
             out' = Append(out, Seal(chunk, counter, last)),
             chunk = Run(EndOf(out, Len(out)), Len(chunk))
      PROVE  SealedInOrder'
  <2>1. PICK f \in Frame : f = Seal(chunk, counter, last) /\ f.chunk = chunk
    BY <1>1, SealFacts
  <2>2. /\ \A k \in 0..Len(out) : EndOf(out', k) = EndOf(out, k)
        /\ Len(out') = Len(out) + 1 /\ out'[Len(out) + 1] = f
        /\ \A i \in 1..Len(out) : out'[i] = out[i]
        /\ out' \in Seq(Frame)
    BY <1>1, <1>2, <2>1, AppendEnds, AppendProperties
  <2>3. ASSUME NEW i \in 1..Len(out')
        PROVE  out'[i].chunk = Run(EndOf(out', i - 1), Len(out'[i].chunk))
    <3>1. i - 1 \in 0..Len(out)
      BY <1>1, <2>2
    <3>2. EndOf(out', i - 1) = EndOf(out, i - 1)
      BY <2>2, <3>1
    <3>3. CASE i = Len(out) + 1
      <4>1. i - 1 = Len(out)
        BY <1>1, <3>3
      <4>2. out'[i].chunk = chunk
        BY <2>1, <2>2, <3>3
      <4>3. QED
        BY <1>2, <3>2, <4>1, <4>2
    <3>4. CASE i # Len(out) + 1
      <4>1. i \in 1..Len(out)
        BY <1>1, <2>2, <3>4
      <4>2. QED
        BY <1>1, <2>2, <3>2, <4>1
    <3>5. QED
      BY <3>3, <3>4
  <2>4. DOMAIN out' = 1..Len(out')
    BY <2>2
  <2>5. QED
    BY <2>3, <2>4, Zenon DEF SealedInOrder, EndOf
<1>3. CASE SealEmpty
  <2>1. out = << >> /\ out' = Append(out, Seal(<< >>, counter, TRUE))
    BY <1>1, <1>3 DEF SealEmpty, BlockInv
  <2>2. << >> \in Seq(Byte) /\ Len(<< >>) = 0 /\ Len(out) = 0
    BY <2>1
  <2>3. EndOf(out, Len(out)) = 0 /\ Run(0, 0) = << >>
    BY <2>2, RunEmpty DEF EndOf
  <2>4. QED
    BY <1>2, <2>1, <2>2, <2>3
<1>4. CASE SealFrame
  <2>1. pc = "frame" /\ out' = Append(out, Seal(held, counter, IsLast)) /\ IsLast \in BOOLEAN
    BY <1>4 DEF SealFrame, IsLast
  <2>2. held \in Seq(Byte) /\ held = Run(From, Len(held)) /\ From = EndOf(out, Len(out))
    BY <1>1, <2>1, HeldFacts DEF BlockInv
  <2>3. QED
    BY <1>2, <2>1, <2>2
<1>5. CASE UNCHANGED out
  BY <1>5 DEF IInv, SealedInOrder
<1>6. QED
  BY <1>3, <1>4, <1>5, Steps DEF Grow, vars

(* What is held and what is collected stay adjacent pieces of the file.    *)
LEMMA BlockNext == IInv /\ [Next]_vars => BlockInv'
<1> SUFFICES ASSUME IInv, [Next]_vars PROVE BlockInv'
  OBVIOUS
<1>1. TypeOK /\ InputInv /\ BlockInv
  BY DEF IInv
<1>2. /\ pos \in Nat /\ Len(buf) \in Nat /\ Len(held) \in Nat /\ Len(out) \in Nat
      /\ buf \in Seq(Byte) /\ held \in Seq(Byte) /\ counter \in Nat /\ ChunkSize \in Nat
  BY <1>1, Numbers DEF TypeOK
<1>3. CASE pc' \notin Early
  BY <1>3 DEF BlockInv, Early
<1>4. CASE UNCHANGED <<pos, buf, held, counter, out>>
           /\ \/ pc' = pc
              \/ pc = "check" /\ pc' = "first"
              \/ pc = "next" /\ pc' = "frame"
  BY <1>1, <1>4 DEF BlockInv, From, Early, EndOf
<1>5. CASE ReadSome(ChunkSize) /\ UNCHANGED out
  <2>1. PICK n \in 1..Room(ChunkSize) :
          /\ pos + n <= Len(input)
          /\ buf' = buf \o SubSeq(input, pos + 1, pos + n)
          /\ pos' = pos + n
    BY <1>5 DEF ReadSome
  <2>2. pc \in {"first", "next"} /\ pc' = pc /\ UNCHANGED <<held, counter>>
    BY <1>5 DEF ReadSome
  <2>3. /\ n \in Nat /\ pos + n \in Nat
        /\ buf' = buf \o Run(pos, n) /\ Len(buf') = Len(buf) + n
    BY <1>1, <2>1, ReadFacts
  <2>4. CASE pc = "first"
    <3>1. buf = Run(0, pos) /\ out = << >> /\ counter = 0
      BY <1>1, <2>4 DEF BlockInv
    <3>2. Run(0, pos) \o Run(pos, n) = Run(0, pos + n)
      BY <1>2, <2>3, RunJoin
    <3>3. QED
      BY <1>1, <1>5, <2>1, <2>2, <2>3, <2>4, <3>1, <3>2 DEF BlockInv, Early
  <2>5. CASE pc = "next"
    <3>1. /\ held # << >> /\ From \in Nat /\ From = EndOf(out, Len(out))
          /\ held = Run(From, Len(held)) /\ buf = Run(From + Len(held), Len(buf))
          /\ counter = Len(out)
      BY <1>1, <2>5 DEF BlockInv, Early
    <3>2. PICK b \in Nat : b = From + Len(held) /\ b + Len(buf) = pos
      BY <1>2, <3>1 DEF From
    <3>3. PICK m \in Nat : m = Len(buf) /\ Len(buf') = m + n /\ b + m = pos
      BY <1>2, <2>3, <3>2
    <3>4. buf' = Run(b, Len(buf'))
      <4>1. n \in Nat
        BY <2>3
      <4>2. Run(b, m) \o Run(b + m, n) = Run(b, m + n)
        BY <4>1, RunConcat
      <4>3. buf' = Run(b, m) \o Run(b + m, n)
        BY <2>3, <3>1, <3>2, <3>3
      <4>4. QED
        BY <3>3, <4>2, <4>3
    <3>5. From' = From
      BY <1>2, <2>1, <2>2, <2>3 DEF From
    <3>6. QED
      BY <1>5, <2>2, <2>5, <3>1, <3>2, <3>4, <3>5 DEF BlockInv, Early, EndOf
  <2>6. QED
    BY <2>2, <2>4, <2>5
<1>6. CASE FirstHeld(ChunkSize) /\ UNCHANGED out
  <2>1. /\ pc = "first" /\ pc' = "next" /\ buf # << >> /\ held' = buf /\ buf' = << >>
        /\ UNCHANGED <<counter, pos>>
    BY <1>6 DEF FirstHeld, FreshBlock
  <2>2. counter = 0 /\ out = << >> /\ buf = Run(0, pos) /\ Len(out) = 0
    BY <1>1, <2>1 DEF BlockInv
  <2>3. Len(buf) = pos /\ Len(buf') = 0
    BY <1>2, <2>1, <2>2, RunIsSeq
  <2>4. From' = 0
    BY <1>2, <2>1, <2>3 DEF From
  <2>5. EndOf(out, Len(out))' = 0
    BY <1>6, <2>2 DEF EndOf
  <2>6. buf' = Run(0 + pos, Len(buf'))
    BY <1>2, <2>1, <2>3, RunEmpty
  <2>7. QED
    BY <1>6, <2>1, <2>2, <2>3, <2>4, <2>5, <2>6 DEF BlockInv, Early
<1>7. CASE SealFrame /\ pc' = "next"
  <2>1. /\ pc = "frame" /\ ~IsLast /\ held' = buf /\ buf' = << >> /\ pos' = pos
        /\ counter' = counter + 1 /\ out' = Append(out, Seal(held, counter, FALSE))
    <3>1. pc = "frame" /\ Advance(IsLast) /\ ~Overflows /\ pos' = pos
      BY <1>7 DEF SealFrame, Return, Advance
    <3>2. ~IsLast /\ held' = buf /\ buf' = << >> /\ counter' = (counter + 1) % (MaxCounter + 1)
      BY <1>7, <3>1 DEF Advance, FreshBlock
    <3>3. IsLast = FALSE
      BY <3>2 DEF IsLast
    <3>4. QED
      BY <1>1, <1>7, <3>1, <3>2, <3>3, CounterSteps DEF SealFrame, TypeOK
  <2>2. buf # << >> /\ counter = Len(out) /\ buf = Run(From + Len(held), Len(buf))
    BY <1>1, <2>1 DEF BlockInv, IsLast, Early
  <2>3. /\ Len(held) \in Nat \ {0} /\ From + Len(held) = pos - Len(buf)
        /\ From + Len(held) \in Nat /\ held[Len(held)] = From + Len(held)
    BY <2>1, HeldFacts
  <2>4. PICK f \in Frame : f = Seal(held, counter, FALSE) /\ f.chunk = held
    BY <1>2, SealFacts
  <2>5. Len(out') = Len(out) + 1 /\ out'[Len(out) + 1] = f
    BY <1>1, <2>1, <2>4, AppendEnds
  <2>6. EndOf(out', Len(out')) = From + Len(held)
    <3>1. Len(out') # 0 /\ held # << >> /\ out'[Len(out')].chunk = held
      <4>1. Len(held) \in Nat /\ Len(held) # 0
        BY <2>3
      <4>2. held # << >>
        BY <1>2, <4>1
      <4>3. Len(out') # 0
        BY <1>2, <2>5
      <4>4. QED
        BY <2>4, <2>5, <4>2, <4>3, Zenon
    <3>2. QED
      BY <2>3, <3>1, Zenon DEF EndOf
  <2>7. Len(buf') = 0 /\ From' = From + Len(held)
    <3>1. Len(buf') = 0
      BY <2>1
    <3>2. From' = pos - 0 - Len(buf)
      BY <2>1, <3>1 DEF From
    <3>3. QED
      BY <1>2, <2>3, <3>1, <3>2
  <2>8. From' + Len(held') = pos /\ buf' = Run(pos, Len(buf'))
    BY <1>2, <2>1, <2>3, <2>7, RunEmpty
  <2>9. EndOf(out, Len(out))' = From'
    BY <2>6, <2>7 DEF EndOf
  <2>10. QED
    BY <1>7, <2>1, <2>2, <2>3, <2>5, <2>7, <2>8, <2>9 DEF BlockInv, Early
<1>8. ASSUME SealFrame, pc' # "next" PROVE pc' \notin Early
  BY <1>8 DEF SealFrame, Advance, Return, Early
<1>9. ASSUME SealEmpty \/ Flush \/ Fails PROVE pc' \notin Early
  BY <1>9 DEF SealEmpty, Flush, Fails, Return, Early
<1>10. CASE Check /\ UNCHANGED out
  BY <1>3, <1>4, <1>10 DEF Check, Return, Early
<1>11. CASE NextRead(ChunkSize) /\ UNCHANGED out
  BY <1>4, <1>11 DEF NextRead
<1>12. CASE Grow \/ UNCHANGED vars
  BY <1>4, <1>12 DEF Grow, vars, pipelineVars
<1>13. QED
  BY <1>3, <1>5, <1>6, <1>7, <1>8, <1>9, <1>10, <1>11, <1>12, Steps DEF QuietSteps


(* A short block of a file that stays as it is is the last one: the frames *)
(* before it are full, and with it they are the framing of the file.       *)
LEMMA LastIsFraming ==
    ASSUME IInv, pc = "frame", ~grown, IsLast,
           out' = Append(out, Seal(held, counter, IsLast))
    PROVE  out' = Framing(Len(input))
<1>1. /\ TypeOK /\ SteadyInv /\ out \in Seq(Frame) /\ Len(out) \in Nat /\ ChunkSize \in Nat
      /\ FullFrames(out, Len(out)) /\ From = Base(counter) /\ pos \in Nat
  BY Numbers DEF IInv, TypeOK, SteadyInv, Early
<1>2. /\ Len(held) \in Nat \ {0} /\ held = Run(From, Len(held)) /\ counter = Len(out)
      /\ From + Len(held) = pos - Len(buf) /\ From \in Nat
  BY HeldFacts
<1>3. pos = Len(input) /\ Len(buf) = 0
  <2>1. buf = << >>
    BY DEF IsLast
  <2>2. Len(buf) = 0 /\ Len(buf) < ChunkSize
    BY <2>1, ChunkSizePositive
  <2>3. QED
    BY <1>1, <2>2 DEF SteadyInv
<1>4. PICK n \in 0..ChunkSize : n = Len(held) /\ n \in Nat /\ n # 0
  BY <1>1, <1>2, Numbers
<1>5. out' = Append(out, LastAt(Len(out), n))
  <2>1. IsLast = TRUE
    BY DEF IsLast
  <2>2. Seal(held, counter, IsLast) = LastAt(Len(out), n)
    BY <1>1, <1>2, <1>4, <2>1, Zenon DEF LastAt, Final
  <2>3. QED
    BY <2>2
<1>6. EndsWith(out', n) /\ Len(out') - 1 = Len(out) /\ out' \in Seq(Frame)
  <2>1. EndsWith(Append(out, LastAt(Len(out), n)), n)
        /\ Len(Append(out, LastAt(Len(out), n))) - 1 = Len(out)
    BY <1>1, <1>4, AppendLast
  <2>2. Append(out, LastAt(Len(out), n)) \in Seq(Frame)
    BY <1>1, <1>4, NextIsFrame, AppendProperties
  <2>3. QED
    BY <1>5, <2>1, <2>2
<1>7. out' = Framing(Base(Len(out') - 1) + n)
  BY <1>4, <1>6, EndsWithIsFraming
<1>8. Base(Len(out') - 1) + n = Len(input)
  <2>1. Base(Len(out') - 1) = From
    BY <1>1, <1>2, <1>6
  <2>2. QED
    BY <1>1, <1>2, <1>3, <1>4, <2>1
<1>9. QED
  BY <1>7, <1>8

(* A frame that another follows is a full one.                             *)
LEMMA InnerIsFull ==
    ASSUME IInv, pc = "frame", ~grown, ~IsLast,
           out' = Append(out, Seal(held, counter, IsLast))
    PROVE  out' = Append(out, FullAt(Len(out))) /\ Len(held) = ChunkSize
<1>1. /\ TypeOK /\ SteadyInv /\ From = Base(counter)
      /\ Len(held) < ChunkSize => buf = << >>
  BY DEF IInv, SteadyInv
<1>2. Len(held) = ChunkSize
  <2>1. ~(Len(held) < ChunkSize)
    BY <1>1 DEF IsLast
  <2>2. QED
    BY <1>1, <2>1, Numbers
<1>3. held = Run(From, Len(held)) /\ counter = Len(out)
  BY HeldFacts
<1>4. IsLast = FALSE
  BY DEF IsLast
<1>5. Seal(held, counter, IsLast) = FullAt(Len(out))
  BY <1>1, <1>2, <1>3, <1>4, Zenon DEF FullAt, Inner
<1>6. QED
  BY <1>2, <1>5

(* The single frame of an empty file.                                      *)
LEMMA EmptyIsFraming ==
    ASSUME IInv, SealEmpty
    PROVE  /\ out = << >> /\ out' = Append(out, LastAt(Len(out), 0))
           /\ pos = 0 /\ out' = Framing(0) /\ pos = Len(input)
<1>1. /\ TypeOK /\ out = << >> /\ counter = 0 /\ buf = Run(0, pos) /\ buf = << >>
      /\ BlockEnds(ChunkSize) /\ out' = Append(out, Seal(<< >>, counter, TRUE))
  BY DEF IInv, BlockInv, SealEmpty
<1>2. pos = 0 /\ pos = Len(input)
  <2>1. Len(buf) = 0
    BY <1>1
  <2>2. Len(buf) = pos
    BY <1>1, Numbers, RunIsSeq
  <2>3. QED
    BY <1>1, <2>1, <2>2, ChunkSizePositive DEF BlockEnds
<1>3. Len(out) = 0 /\ out \in Seq(Frame) /\ 0 \in Nat /\ 0 \in 0..ChunkSize
  BY <1>1, ChunkSizePositive DEF TypeOK
<1>4. out' = Append(out, LastAt(Len(out), 0))
  <2>1. Run(Base(0), 0) = << >>
    BY BaseStep, RunEmpty
  <2>2. QED
    BY <1>1, <1>3, <2>1, Zenon DEF LastAt, Final
<1>5. FullFrames(out, Len(out))
  BY <1>3 DEF FullFrames
<1>6. EndsWith(out', 0) /\ Len(out') - 1 = 0 /\ out' \in Seq(Frame)
  <2>1. EndsWith(Append(out, LastAt(Len(out), 0)), 0)
        /\ Len(Append(out, LastAt(Len(out), 0))) - 1 = Len(out)
    BY <1>3, <1>5, AppendLast
  <2>2. Append(out, LastAt(Len(out), 0)) \in Seq(Frame)
    BY <1>3, NextIsFrame, AppendProperties
  <2>3. QED
    BY <1>3, <1>4, <2>1, <2>2
<1>7. Len(out') = 1
  BY <1>6
<1>8. out' = Framing(Base(Len(out') - 1) + 0)
  BY <1>3, <1>6, <1>7, EndsWithIsFraming
<1>9. Base(Len(out') - 1) + 0 = 0
  <2>1. Base(Len(out') - 1) = 0
    BY <1>6, BaseStep, Zenon
  <2>2. QED
    BY <2>1
<1>10. QED
  BY <1>1, <1>2, <1>4, <1>8, <1>9

LEMMA SteadyNext == IInv /\ [Next]_vars => SteadyInv'
<1> SUFFICES ASSUME IInv, [Next]_vars, ~grown' PROVE SteadyInv'
  BY DEF SteadyInv
<1>1. /\ TypeOK /\ InputInv /\ BlockInv /\ SteadyInv /\ StatusInv
      /\ pos \in Nat /\ Len(input) \in Nat /\ pos <= Len(input) /\ Len(buf) \in Nat
      /\ Len(held) \in Nat /\ Len(out) \in Nat /\ counter \in Nat /\ ChunkSize \in Nat
      /\ ChunkSize > 0 /\ out \in Seq(Frame)
  BY Numbers DEF IInv, TypeOK
<1>2. CASE pc' = "returned" /\ status' # "Ok"
  BY <1>2 DEF SteadyInv, Early
<1>3. CASE Check /\ UNCHANGED out
  <2>1. status = NONE
    BY <1>1, <1>3 DEF Check, StatusInv
  <2>2. \/ pc' = "returned" /\ status' # "Ok"
        \/ pc' = "first" /\ status' = NONE
    BY <1>1, <1>3, <2>1, FirstCheck DEF Check, Return, TypeOK
  <2>3. QED
    BY <1>1, <1>2, <1>3, <2>2 DEF SteadyInv, Early, Check, NONE, FullFrames
<1>4. CASE ReadSome(ChunkSize) /\ UNCHANGED out
  <2>1. PICK n \in 1..Room(ChunkSize) :
          /\ pos + n <= Len(input)
          /\ buf' = buf \o SubSeq(input, pos + 1, pos + n)
          /\ pos' = pos + n
    BY <1>4 DEF ReadSome
  <2>2. n \in Nat /\ n >= 1 /\ Len(buf') = Len(buf) + n
    BY <1>1, <2>1, ReadFacts
  <2>3. /\ pc' = pc /\ pc \in {"first", "next"}
        /\ UNCHANGED <<grown, held, counter, input, status>>
    BY <1>4 DEF ReadSome
  <2>4. pc = "next" => ~(Len(held) < ChunkSize)
    BY <1>1, <2>1, <2>2, <2>3 DEF SteadyInv
  <2>5. From' = From
    BY <1>1, <2>1, <2>2, <2>3 DEF From
  <2>6. Base(counter)' = Base(counter) /\ FullFrames(out, Len(out))' = FullFrames(out, Len(out))
    BY <1>4, <2>3 DEF Base, FullFrames
  <2>7. status' # "Ok"
    BY <1>1, <2>3 DEF StatusInv, NONE
  <2>8. QED
    BY <1>1, <2>3, <2>4, <2>5, <2>6, <2>7 DEF SteadyInv, Early
<1>5. CASE NextRead(ChunkSize) /\ UNCHANGED out
  <2>1. /\ pc = "next" /\ pc' = "frame"
        /\ UNCHANGED <<grown, held, buf, pos, input, counter, status>>
        /\ Len(buf) = ChunkSize \/ pos = Len(input)
    BY <1>5 DEF NextRead, BlockEnds
  <2>2. Len(buf) < ChunkSize => pos = Len(input)
    BY <1>1, <2>1
  <2>3. From' = From /\ Base(counter)' = Base(counter)
        /\ FullFrames(out, Len(out))' = FullFrames(out, Len(out))
    BY <1>5, <2>1 DEF From, Base, FullFrames
  <2>4. status' # "Ok"
    BY <1>1, <2>1 DEF StatusInv, NONE
  <2>5. QED
    BY <1>1, <2>1, <2>2, <2>3, <2>4 DEF SteadyInv, Early
<1>6. CASE FirstHeld(ChunkSize) /\ UNCHANGED out
  <2>1. /\ pc = "first" /\ pc' = "next" /\ buf' = << >> /\ held' = buf
        /\ UNCHANGED <<grown, pos, input, counter, status>>
        /\ Len(buf) = ChunkSize \/ pos = Len(input)
    BY <1>6 DEF FirstHeld, FreshBlock, BlockEnds
  <2>2. Len(buf) < ChunkSize => pos = Len(input)
    BY <1>1, <2>1
  <2>3. counter = 0 /\ out = << >> /\ buf = Run(0, pos)
    BY <1>1, <2>1 DEF BlockInv
  <2>4. From' = 0
    <3>1. Len(buf') = 0 /\ Len(buf) = pos
      BY <1>1, <2>1, <2>3, RunIsSeq
    <3>2. QED
      BY <1>1, <2>1, <3>1 DEF From
  <2>5. Base(counter)' = 0 /\ FullFrames(out, Len(out))'
    BY <1>6, <2>1, <2>3, BaseStep DEF Base, FullFrames
  <2>6. status' # "Ok"
    BY <1>1, <2>1 DEF StatusInv, NONE
  <2>7. QED
    BY <2>1, <2>2, <2>4, <2>5, <2>6 DEF SteadyInv, Early
<1>7. CASE SealEmpty
  <2>1. out' = Framing(0) /\ Len(input) = 0
    BY <1>7, EmptyIsFraming
  <2>2. pc' = "flush" /\ input' = input
    BY <1>7 DEF SealEmpty
  <2>3. Framing(Len(input))' = Framing(0)
    BY <2>1, <2>2 DEF Framing, FrameCount, Seal, Run, Base, ChunkLength
  <2>4. QED
    BY <2>1, <2>2, <2>3 DEF SteadyInv, Early
<1>8. CASE SealFrame
  <2>1. /\ pc = "frame" /\ ~grown /\ out' = Append(out, Seal(held, counter, IsLast))
        /\ UNCHANGED <<grown, pos, input>> /\ Advance(IsLast) /\ status # "Ok"
    BY <1>1, <1>8 DEF SealFrame, StatusInv, NONE
  <2>2. CASE Overflows
    BY <1>2, <2>1, <2>2 DEF Advance, Return
  <2>3. CASE ~Overflows /\ IsLast
    <3>1. out' = Framing(Len(input))
      BY <2>1, <2>3, LastIsFraming
    <3>2. pc' = "flush"
      BY <2>1, <2>3 DEF Advance
    <3>3. Framing(Len(input))' = Framing(Len(input))
      BY <2>1 DEF Framing, FrameCount, Seal, Run, Base, ChunkLength
    <3>4. QED
      BY <3>1, <3>2, <3>3 DEF SteadyInv, Early
  <2>4. CASE ~Overflows /\ ~IsLast
    <3>1. out' = Append(out, FullAt(Len(out))) /\ Len(held) = ChunkSize
      BY <2>1, <2>4, InnerIsFull
    <3>2. /\ pc' = "next" /\ held' = buf /\ buf' = << >> /\ counter' = counter + 1
          /\ status' # "Ok"
      BY <1>1, <2>1, <2>4, CounterSteps DEF Advance, FreshBlock, TypeOK
    <3>3. FullFrames(out', Len(out'))
      <4>1. FullFrames(out, Len(out))
        BY <1>1, <2>1 DEF SteadyInv, Early
      <4>2. FullFrames(Append(out, FullAt(Len(out))), Len(Append(out, FullAt(Len(out)))))
        BY <1>1, <4>1, AppendFull
      <4>3. QED
        BY <3>1, <4>2
    <3>4. From' = From + Len(held)
      <4>1. Len(buf') = 0
        BY <3>2
      <4>2. From' = pos - 0 - Len(buf)
        BY <2>1, <3>2, <4>1 DEF From
      <4>3. From + Len(held) = pos - Len(buf)
        BY <2>1, HeldFacts
      <4>4. QED
        BY <1>1, <4>2, <4>3
    <3>5. From' = Base(counter + 1)
      <4>1. From = Base(counter)
        BY <1>1, <2>1 DEF SteadyInv
      <4>2. QED
        BY <1>1, <3>1, <3>4, <4>1, BaseStep
    <3>6. Len(buf) < ChunkSize => pos = Len(input)
      BY <1>1, <2>1 DEF SteadyInv
    <3>7. Base(counter)' = Base(counter + 1) /\ FullFrames(out, Len(out))'
      BY <3>2, <3>3 DEF Base, FullFrames
    <3>8. QED
      BY <2>1, <3>2, <3>5, <3>6, <3>7 DEF SteadyInv
  <2>5. QED
    BY <2>2, <2>3, <2>4
<1>9. CASE Flush /\ UNCHANGED out
  <2>1. out = Framing(Len(input)) /\ UNCHANGED <<out, input>> /\ pc' = "returned"
    BY <1>1, <1>9 DEF Flush, Return, SteadyInv
  <2>2. Framing(Len(input))' = Framing(Len(input))
    BY <2>1 DEF Framing, FrameCount, Seal, Run, Base, ChunkLength
  <2>3. QED
    BY <2>1, <2>2 DEF SteadyInv, Early
<1>10. CASE Fails
  BY <1>2, <1>10 DEF Fails, Return
<1>11. CASE UNCHANGED vars
  BY <1>1, <1>11
     DEF vars, pipelineVars, SteadyInv, From, Base, FullFrames, Framing, FrameCount, Seal,
         Run, ChunkLength
<1>12. ~Grow
  BY DEF Grow
<1>13. QED
  BY <1>3, <1>4, <1>5, <1>6, <1>7, <1>8, <1>9, <1>10, <1>11, <1>12, Steps DEF QuietSteps

LEMMA InvNext == IInv /\ [Next]_vars => IInv'
BY TypeNext, InputNext, BlockNext, SteadyNext, StatusNext, OrderNext DEF IInv

LEMMA Invariance == Spec => []IInv
BY InvInit, InvNext, PTL DEF Spec

(* The call keeps its types: no block is longer than a chunk and the       *)
(* counter stays within its width.                                         *)
THEOREM TypeCorrect == Spec => []TypeOK
<1>1. IInv => TypeOK
  BY DEF IInv
<1>2. QED
  BY <1>1, Invariance, PTL

(* Also when the file grows while it is sealed, no byte of it is skipped   *)
(* or sealed twice.                                                        *)
THEOREM SealsInOrder == Spec => []SealedInOrder
<1>1. IInv => SealedInOrder
  BY DEF IInv
<1>2. QED
  BY <1>1, Invariance, PTL

(* On a file that stays as it is, Ok means the framing of all of it,       *)
(* however the reads were cut short.                                       *)
THEOREM SealsWhole == Spec => []SealedWhole
<1>1. IInv => SealedWhole
  BY DEF IInv, SteadyInv, SealedWhole
<1>2. QED
  BY <1>1, Invariance, PTL

(* A file sealed while it stays as it is gives a stream that the openers   *)
(* can be given: what they assume of the streams that were sealed          *)
(* (StreamsSealed) is what this sealer makes.                              *)
THEOREM SealsStreams == Spec => [](status = "Ok" /\ ~grown => IsStream(out))
<1>1. TypeOK /\ SealedWhole => (status = "Ok" /\ ~grown => IsStream(out))
  <2>1. TypeOK => Len(input) \in Nat
    BY DEF TypeOK
  <2>2. QED
    BY <2>1, FramingIsStream DEF SealedWhole
<1>2. QED
  BY <1>1, TypeCorrect, SealsWhole, PTL

-----------------------------------------------------------------------------
LEMMA FormatInit == Init => Format!Init
BY DEF Init, Format!Init

(* Full frames never look like a closed stream.                            *)
LEMMA FullIsOpen ==
    ASSUME out \in Seq(Frame), FullFrames(out, Len(out))
    PROVE  ~Format!Closed
<1>1. CASE out = << >>
  BY <1>1 DEF Format!Closed
<1>2. CASE out # << >>
  <2>1. Len(out) \in 1..Len(out)
    BY <1>2, EmptySeq
  <2>2. out[Len(out)] = FullAt(Len(out) - 1)
    BY <2>1, Zenon DEF FullFrames
  <2>3. ~out[Len(out)].last
    BY <2>2 DEF FullAt, Inner, Seal
  <2>4. QED
    BY <2>3 DEF Format!Closed
<1>3. QED
  BY <1>1, <1>2

(* While the file stays as it is, a frame is written where the format asks *)
(* for one.                                                                *)
LEMMA FormatNext == IInv /\ [Next]_vars => [grown \/ Format!Next]_out
<1> SUFFICES ASSUME IInv, [Next]_vars, ~grown PROVE Format!Next \/ UNCHANGED out
  OBVIOUS
<1>1. TypeOK /\ SteadyInv /\ out \in Seq(Frame)
  BY DEF IInv, TypeOK
<1>2. CASE SealEmpty
  <2>1. out = << >> /\ out' = Append(out, LastAt(Len(out), 0))
    BY <1>2, EmptyIsFraming
  <2>2. ~Format!Closed
    BY <2>1 DEF Format!Closed
  <2>3. 0 \in 0..ChunkSize
    BY ChunkSizePositive
  <2>4. Format!EmitLast
    BY <2>1, <2>2, <2>3 DEF Format!EmitLast, Format!Seal, Format!Run, Format!Base,
                            LastAt, Final, Seal, Run, Base
  <2>5. QED
    BY <2>4 DEF Format!Next
<1>3. CASE SealFrame
  <2>1. pc = "frame" /\ out' = Append(out, Seal(held, counter, IsLast))
    BY <1>3 DEF SealFrame
  <2>2. ~Format!Closed
    BY <1>1, <2>1, FullIsOpen DEF SteadyInv, Early
  <2>3. CASE ~IsLast
    <3>1. out' = Append(out, FullAt(Len(out)))
      BY <2>1, <2>3, InnerIsFull
    <3>2. Format!EmitFull
      BY <2>2, <3>1 DEF Format!EmitFull, Format!Seal, Format!Run, Format!Base,
                        FullAt, Inner, Seal, Run, Base
    <3>3. QED
      BY <3>2 DEF Format!Next
  <2>4. CASE IsLast
    <3>1. /\ held = Run(From, Len(held)) /\ counter = Len(out) /\ From = Base(counter)
          /\ Len(held) # 0 /\ IsLast = TRUE
      BY <1>1, <2>1, <2>4, HeldFacts DEF SteadyInv, IsLast
    <3>2. PICK n \in 0..ChunkSize : n = Len(held) /\ n # 0
      BY <1>1, <3>1, Numbers
    <3>3. out' = Append(out, LastAt(Len(out), n))
      BY <2>1, <3>1, <3>2, Zenon DEF LastAt, Final
    <3>4. Format!EmitLast
      BY <2>2, <3>2, <3>3 DEF Format!EmitLast, Format!Seal, Format!Run, Format!Base,
                              LastAt, Final, Seal, Run, Base
    <3>5. QED
      BY <3>4 DEF Format!Next
  <2>5. QED
    BY <2>3, <2>4
<1>4. CASE UNCHANGED out
  BY <1>4
<1>5. QED
  BY <1>2, <1>3, <1>4, Steps DEF Grow, vars

(* While the file stays as it is, what has been written is at every moment *)
(* a prefix of a well-formed stream, the same format the Dart generator    *)
(* writes.                                                                 *)
THEOREM Implements == Spec => WireFormat
<1>1. Spec => Format!Init /\ [][grown \/ Format!Next]_out
  BY FormatInit, FormatNext, Invariance, PTL DEF Spec
<1>2. QED
  BY <1>1 DEF WireFormat

-----------------------------------------------------------------------------
(* The counters of the frames written count them, and fit their width.     *)
CounterInv == \A i \in DOMAIN out : out[i].counter = i - 1 /\ out[i].counter \in 0..MaxCounter

LEMMA CounterNext == IInv /\ CounterInv /\ [Next]_vars => CounterInv'
<1> SUFFICES ASSUME IInv, CounterInv, [Next]_vars PROVE CounterInv'
  OBVIOUS
<1>1. /\ TypeOK /\ out \in Seq(Frame) /\ Len(out) \in Nat /\ counter \in 0..MaxCounter
      /\ DOMAIN out = 1..Len(out)
  BY Numbers DEF IInv, TypeOK
<1>2. ASSUME NEW chunk \in Seq(Byte), NEW last \in BOOLEAN, counter = Len(out),
             out' = Append(out, Seal(chunk, counter, last))
      PROVE  CounterInv'
  <2>1. PICK f \in Frame : f = Seal(chunk, counter, last) /\ f.counter = counter
    BY <1>1, Numbers, SealFacts
  <2>2. /\ Len(out') = Len(out) + 1 /\ out'[Len(out) + 1] = f
        /\ \A i \in 1..Len(out) : out'[i] = out[i]
        /\ DOMAIN out' = 1..Len(out')
    BY <1>1, <1>2, <2>1, AppendFrame
  <2>3. ASSUME NEW i \in 1..Len(out')
        PROVE  out'[i].counter = i - 1 /\ out'[i].counter \in 0..MaxCounter
    <3>1. CASE i = Len(out) + 1
      BY <1>1, <1>2, <2>1, <2>2, <3>1
    <3>2. CASE i # Len(out) + 1
      <4>1. i \in 1..Len(out)
        BY <1>1, <2>2, <3>2
      <4>2. QED
        BY <1>1, <2>2, <4>1 DEF CounterInv
    <3>3. QED
      BY <3>1, <3>2
  <2>4. QED
    BY <2>2, <2>3 DEF CounterInv
<1>3. CASE SealEmpty
  <2>1. counter = Len(out) /\ << >> \in Seq(Byte)
    BY <1>3 DEF IInv, BlockInv, Early, SealEmpty
  <2>2. QED
    BY <1>2, <1>3, <2>1 DEF SealEmpty
<1>4. CASE SealFrame
  <2>1. counter = Len(out) /\ held \in Seq(Byte) /\ IsLast \in BOOLEAN
    BY <1>4, HeldFacts DEF SealFrame, IsLast
  <2>2. QED
    BY <1>2, <1>4, <2>1 DEF SealFrame
<1>5. CASE UNCHANGED out
  BY <1>5 DEF CounterInv
<1>6. QED
  BY <1>3, <1>4, <1>5, Steps DEF Grow, vars

-----------------------------------------------------------------------------
(* Induction: what holds of 0 and of each successor holds of all numbers.  *)
(* Otherwise the numbers up to n with the property would be a finite set   *)
(* that the successor maps into itself, and so onto itself, 0 included.    *)
LEMMA Induction ==
    ASSUME NEW S \in SUBSET Nat, 0 \in S, \A n \in S : n + 1 \in S
    PROVE  S = Nat
<1> SUFFICES ASSUME NEW n \in Nat, n \notin S PROVE FALSE
  OBVIOUS
<1> DEFINE A == S \intersect (0..n)
           next == [k \in A |-> k + 1]
<1>1. IsFiniteSet(A)
  <2>1. IsFiniteSet(0..n)
    BY FS_Interval
  <2>2. QED
    BY <2>1, FS_Intersection
<1>2. next \in Injection(A, A)
  <2>1. \A k \in A : k + 1 \in A
    OBVIOUS
  <2>2. QED
    BY <2>1 DEF Injection, IsInjective
<1>3. next \in Surjection(A, A)
  BY <1>1, <1>2, FS_Injection
<1>4. 0 \in A
  OBVIOUS
<1>5. PICK k \in A : next[k] = 0
  BY <1>3, <1>4 DEF Surjection
<1>6. QED
  BY <1>5

(* A function can be iterated any number of times.                         *)
LEMMA Iterates ==
    ASSUME NEW g \in [Nat -> Nat], NEW x \in Nat
    PROVE  \A n \in Nat : \E f \in [0..n -> Nat] :
             f[0] = x /\ \A k \in 1..n : f[k] = g[f[k - 1]]
<1> DEFINE S == {n \in Nat : \E f \in [0..n -> Nat] :
                   f[0] = x /\ \A k \in 1..n : f[k] = g[f[k - 1]]}
<1>1. 0 \in S
  <2>1. [k \in 0..0 |-> x] \in [0..0 -> Nat] /\ [k \in 0..0 |-> x][0] = x
    OBVIOUS
  <2>2. 1..0 = {}
    OBVIOUS
  <2>3. QED
    BY <2>1, <2>2
<1>2. ASSUME NEW n \in S PROVE n + 1 \in S
  <2>1. PICK f \in [0..n -> Nat] : f[0] = x /\ \A k \in 1..n : f[k] = g[f[k - 1]]
    OBVIOUS
  <2> DEFINE h == [k \in 0..(n + 1) |-> IF k = n + 1 THEN g[f[n]] ELSE f[k]]
  <2>2. n \in Nat /\ f[n] \in Nat
    OBVIOUS
  <2>3. h \in [0..(n + 1) -> Nat] /\ h[0] = x
    <3>1. g[f[n]] \in Nat /\ 0 \in 0..(n + 1) /\ 0 # n + 1
      BY <2>2
    <3>2. \A k \in 0..(n + 1) : k # n + 1 => k \in 0..n
      BY <2>2
    <3>3. QED
      BY <2>1, <3>1, <3>2
  <2>4. \A k \in 0..n : h[k] = f[k]
    BY <2>2
  <2>5. h[n + 1] = g[h[n]]
    BY <2>2, <2>4
  <2>6. ASSUME NEW k \in 1..(n + 1) PROVE h[k] = g[h[k - 1]]
    <3>1. CASE k = n + 1
      BY <2>2, <2>5, <3>1
    <3>2. CASE k # n + 1
      <4>1. k \in 1..n /\ k \in 0..n /\ k - 1 \in 0..n
        BY <2>2, <3>2
      <4>2. QED
        BY <2>1, <2>4, <4>1
    <3>3. QED
      BY <3>1, <3>2
  <2> HIDE DEF h
  <2>7. n + 1 \in Nat
    BY <2>2
  <2>8. QED
    BY <2>3, <2>6, <2>7
<1> HIDE DEF S
<1>3. S = Nat
  <2>1. S \in SUBSET Nat
    BY DEF S
  <2>2. QED
    BY <1>1, <1>2, <2>1, Induction
<1>4. QED
  BY <1>3 DEF S

(* Induction up to a bound.                                                *)
LEMMA InductionUpTo ==
    ASSUME NEW m \in Nat, NEW S, 0 \in S, \A k \in 1..m : k - 1 \in S => k \in S
    PROVE  \A k \in 0..m : k \in S
<1> DEFINE T == {k \in Nat : k <= m => k \in S}
<1>1. 0 \in T
  OBVIOUS
<1>2. ASSUME NEW n \in T PROVE n + 1 \in T
  <2>1. n \in Nat /\ n + 1 \in Nat /\ n + 1 - 1 = n
    OBVIOUS
  <2>2. ASSUME n + 1 <= m PROVE n + 1 \in S
    <3>1. n + 1 \in 1..m /\ n \in S
      BY <2>1, <2>2
    <3>2. QED
      BY <2>1, <3>1
  <2>3. QED
    BY <2>1, <2>2
<1> HIDE DEF T
<1>3. T = Nat
  <2>1. T \in SUBSET Nat
    BY DEF T
  <2>2. QED
    BY <1>1, <1>2, <2>1, Induction
<1>4. QED
  BY <1>3 DEF T

(* The powers of the radix, as their definition unrolls.                   *)
LEMMA Powers ==
    /\ Power[0] = 1
    /\ \A k \in 0..CounterBytes : Power[k] \in Nat \ {0}
    /\ \A k \in 1..CounterBytes : Power[k] = Radix * Power[k - 1]
<1> DEFINE g == [n \in Nat |-> Radix * n]
<1>1. g \in [Nat -> Nat] /\ CounterBytes \in Nat /\ 1 \in Nat
  BY NonceLayout
<1>2. \A n \in Nat : \E f \in [0..n -> Nat] :
        f[0] = 1 /\ \A k \in 1..n : f[k] = g[f[k - 1]]
  BY <1>1, Iterates
<1>3. PICK f \in [0..CounterBytes -> Nat] :
        f[0] = 1 /\ \A k \in 1..CounterBytes : f[k] = g[f[k - 1]]
  BY <1>1, <1>2
<1>4. f = [k \in 0..CounterBytes |-> IF k = 0 THEN 1 ELSE Radix * f[k - 1]]
  <2>1. ASSUME NEW k \in 1..CounterBytes PROVE f[k] = Radix * f[k - 1]
    <3>1. k - 1 \in 0..CounterBytes
      BY <1>1
    <3>2. f[k - 1] \in Nat
      BY <3>1
    <3>3. QED
      BY <1>3, <3>2
  <2> HIDE DEF g
  <2>2. ASSUME NEW k \in 0..CounterBytes
        PROVE  f[k] = IF k = 0 THEN 1 ELSE Radix * f[k - 1]
    BY <1>1, <1>3, <2>1
  <2>3. QED
    BY <2>2
<1>5. Power = [k \in 0..CounterBytes |-> IF k = 0 THEN 1 ELSE Radix * Power[k - 1]]
  BY <1>4, Zenon DEF Power
<1> HIDE DEF g
<1>6. Power[0] = 1 /\ \A k \in 1..CounterBytes : Power[k] = Radix * Power[k - 1]
  <2> DEFINE r == [k \in 0..CounterBytes |-> IF k = 0 THEN 1 ELSE Radix * Power[k - 1]]
  <2>1. \A k \in 0..CounterBytes : r[k] = IF k = 0 THEN 1 ELSE Radix * Power[k - 1]
    OBVIOUS
  <2>2. Power = r
    BY <1>5
  <2> HIDE DEF r
  <2>3. \A k \in 0..CounterBytes : Power[k] = IF k = 0 THEN 1 ELSE Radix * Power[k - 1]
    BY <2>1, <2>2, Zenon
  <2>4. 0 \in 0..CounterBytes /\ \A k \in 1..CounterBytes : k \in 0..CounterBytes /\ k # 0
    BY <1>1
  <2>5. QED
    BY <2>3, <2>4, Zenon
<1>7. \A k \in 0..CounterBytes : Power[k] \in Nat \ {0}
  <2> DEFINE S == {k \in 0..CounterBytes : Power[k] \in Nat \ {0}}
  <2>1. 0 \in S
    <3>1. 0 \in 0..CounterBytes /\ 1 \in Nat \ {0}
      BY <1>1
    <3>2. QED
      BY <1>6, <3>1, Zenon
  <2>2. ASSUME NEW k \in 1..CounterBytes, k - 1 \in S PROVE k \in S
    <3>1. Power[k - 1] \in Nat \ {0} /\ Radix \in Nat \ {0} /\ k \in 0..CounterBytes
      BY <1>1, <2>2, NonceLayout
    <3>2. Radix * Power[k - 1] \in Nat \ {0}
      BY <3>1
    <3>3. QED
      BY <1>6, <3>1, <3>2, Zenon
  <2> HIDE DEF S
  <2>3. \A k \in 0..CounterBytes : k \in S
    BY <1>1, <2>1, <2>2, InductionUpTo
  <2>4. QED
    BY <2>3 DEF S
<1>8. QED
  BY <1>6, <1>7

(* A counter that is not too large is itself as an int of Dart.            *)
LEMMA IntIs ==
    ASSUME NEW n \in 0..maxInt
    PROVE  n \in Nat /\ int(n) = n /\ n \in 0..MaxCounter
<1>1. CounterBytes \in 0..CounterBytes
  BY NonceLayout
<1>2. PICK p \in Nat \ {0} : p = Power[CounterBytes]
  BY <1>1, Powers
<1>3. maxInt = p \div 2 - 1 /\ MaxCounter = p - 1
  BY <1>2, CounterFits DEF maxInt
<1>4. n \in Nat /\ n <= p \div 2 - 1 /\ n < p
  BY <1>3
<1>5. n % p = n
  BY <1>4
<1>6. int(n) = n
  BY <1>2, <1>3, <1>4, <1>5 DEF int
<1>7. QED
  BY <1>3, <1>4, <1>6

(* The counter after each shift, as the definition unrolls.                *)
LEMMA Shifts ==
    ASSUME NEW n \in 0..maxInt
    PROVE  /\ Shifted(n)[0] = n
           /\ \A k \in 0..NonceBytes : Shifted(n)[k] \in Nat
           /\ \A k \in 1..NonceBytes : Shifted(n)[k] = Shifted(n)[k - 1] \div Radix
<1> DEFINE g == [m \in Nat |-> m \div Radix]
<1>1. g \in [Nat -> Nat] /\ NonceBytes \in Nat /\ n \in Nat /\ int(n) = n
  BY NonceLayout, IntIs
<1>2. \A m \in Nat : \E f \in [0..m -> Nat] :
        f[0] = n /\ \A k \in 1..m : f[k] = g[f[k - 1]]
  BY <1>1, Iterates
<1>3. PICK f \in [0..NonceBytes -> Nat] :
        f[0] = n /\ \A k \in 1..NonceBytes : f[k] = g[f[k - 1]]
  BY <1>1, <1>2
<1>4. f = [k \in 0..NonceBytes |->
            IF k = 0 THEN int(n)
            ELSE IF f[k - 1] > 0 THEN f[k - 1] \div Radix
            ELSE f[k - 1]]
  <2>1. ASSUME NEW k \in 1..NonceBytes
        PROVE  f[k] = IF f[k - 1] > 0 THEN f[k - 1] \div Radix ELSE f[k - 1]
    <3>1. k - 1 \in 0..NonceBytes
      BY <1>1
    <3>2. PICK m \in Nat : m = f[k - 1]
      BY <3>1
    <3>3. f[k] = m \div Radix
      BY <1>3, <3>2
    <3>4. m \div Radix = IF m > 0 THEN m \div Radix ELSE m
      <4>1. 0 \div Radix = 0
        BY NonceLayout
      <4>2. QED
        BY <4>1
    <3>5. QED
      BY <3>2, <3>3, <3>4
  <2> HIDE DEF g
  <2>2. ASSUME NEW k \in 0..NonceBytes
        PROVE  f[k] = IF k = 0 THEN int(n)
                      ELSE IF f[k - 1] > 0 THEN f[k - 1] \div Radix
                      ELSE f[k - 1]
    <3>1. CASE k = 0
      BY <1>1, <1>3, <3>1, Zenon
    <3>2. CASE k # 0
      <4>1. k \in 1..NonceBytes
        BY <1>1, <3>2
      <4>2. QED
        BY <2>1, <3>2, <4>1, Zenon
    <3>3. QED
      BY <3>1, <3>2
  <2>3. QED
    BY <2>2
<1>5. Shifted(n) = [k \in 0..NonceBytes |->
                     IF k = 0 THEN int(n)
                     ELSE IF Shifted(n)[k - 1] > 0 THEN Shifted(n)[k - 1] \div Radix
                     ELSE Shifted(n)[k - 1]]
  BY <1>4, Zenon DEF Shifted
<1> HIDE DEF g
<1>6. PICK c : c = Shifted(n)
  OBVIOUS
<1>7. c[0] = n /\ \A k \in 1..NonceBytes :
        c[k] = IF c[k - 1] > 0 THEN c[k - 1] \div Radix ELSE c[k - 1]
  <2> DEFINE r == [k \in 0..NonceBytes |->
                     IF k = 0 THEN int(n)
                     ELSE IF c[k - 1] > 0 THEN c[k - 1] \div Radix
                     ELSE c[k - 1]]
  <2>1. \A k \in 0..NonceBytes :
          r[k] = IF k = 0 THEN int(n)
                 ELSE IF c[k - 1] > 0 THEN c[k - 1] \div Radix
                 ELSE c[k - 1]
    OBVIOUS
  <2>2. c = r
    BY <1>5, <1>6, Zenon
  <2> HIDE DEF r
  <2>3. \A k \in 0..NonceBytes :
          c[k] = IF k = 0 THEN int(n)
                 ELSE IF c[k - 1] > 0 THEN c[k - 1] \div Radix
                 ELSE c[k - 1]
    BY <2>1, <2>2, Zenon
  <2>4. 0 \in 0..NonceBytes /\ \A k \in 1..NonceBytes : k \in 0..NonceBytes /\ k # 0
    BY <1>1
  <2>5. QED
    BY <1>1, <2>3, <2>4, Zenon
<1>8. \A k \in 0..NonceBytes : c[k] \in Nat
  <2> DEFINE S == {k \in 0..NonceBytes : c[k] \in Nat}
  <2>1. 0 \in S
    <3>1. 0 \in 0..NonceBytes
      BY <1>1
    <3>2. QED
      BY <1>1, <1>7, <3>1, Zenon
  <2>2. ASSUME NEW k \in 1..NonceBytes, k - 1 \in S PROVE k \in S
    <3>1. c[k - 1] \in Nat /\ Radix \in Nat \ {0} /\ k \in 0..NonceBytes
      BY <1>1, <2>2, NonceLayout
    <3>2. c[k - 1] \div Radix \in Nat
      BY <3>1
    <3>3. QED
      BY <1>7, <3>1, <3>2
  <2> HIDE DEF S
  <2>3. \A k \in 0..NonceBytes : k \in S
    BY <1>1, <2>1, <2>2, InductionUpTo
  <2>4. QED
    BY <2>3 DEF S
<1>9. ASSUME NEW k \in 1..NonceBytes PROVE c[k] = c[k - 1] \div Radix
  <2>1. k - 1 \in 0..NonceBytes
    BY <1>1
  <2>2. PICK m \in Nat : m = c[k - 1]
    BY <1>8, <2>1
  <2>3. m \div Radix = IF m > 0 THEN m \div Radix ELSE m
    <3>1. 0 \div Radix = 0
      BY NonceLayout
    <3>2. QED
      BY <3>1
  <2>4. QED
    BY <1>7, <2>2, <2>3, Zenon
<1>10. QED
  BY <1>6, <1>7, <1>8, <1>9

(* Products and order, without the provers' own multiplication.            *)
LEMMA Products ==
    \A a, b, c \in Nat : /\ a * b \in Nat
                        /\ a <= b => a * c <= b * c
                        /\ (a * b) * c = a * (b * c)
                        /\ a * b = b * a
                        /\ (a + 1) * c = a * c + c
<1>1. ASSUME NEW a \in Nat, NEW b \in Nat, NEW c \in Nat, a <= b PROVE a * c <= b * c
  <2>1. PICK d \in Nat : b = a + d
    BY <1>1
  <2>2. b * c = a * c + d * c /\ d * c >= 0 /\ a * c \in Int /\ d * c \in Int
    BY <2>1
  <2>3. QED
    BY <2>2
<1>2. QED
  BY <1>1

(* A quotient is the only number between whose multiples the dividend is.  *)
LEMMA Quotient ==
    ASSUME NEW a \in Nat, NEW b \in Nat \ {0}
    PROVE  /\ a \div b \in Nat /\ (a \div b) * b <= a /\ a < (a \div b + 1) * b
           /\ a = b * (a \div b) + (a % b) /\ a % b \in 0..(b - 1)
           /\ \A q \in Nat : q * b <= a /\ a < (q + 1) * b => q = a \div b
<1>1. PICK p \in Nat : p = a \div b
  OBVIOUS
<1>2. p * b <= a /\ a < (p + 1) * b /\ a = b * p + (a % b) /\ a % b \in 0..(b - 1)
  BY <1>1
<1>3. ASSUME NEW q \in Nat, q * b <= a, a < (q + 1) * b PROVE q = p
  <2>1. ASSUME NEW x \in Nat, NEW y \in Nat, x * b <= a, a < (y + 1) * b PROVE ~(y + 1 <= x)
    <3>1. y + 1 <= x => (y + 1) * b <= x * b
      BY Products
    <3>2. (y + 1) * b \in Nat /\ x * b \in Nat
      BY Products
    <3>3. QED
      BY <2>1, <3>1, <3>2
  <2>2. ~(p + 1 <= q) /\ ~(q + 1 <= p)
    BY <1>2, <1>3, <2>1
  <2>3. QED
    BY <2>2
<1>4. QED
  BY <1>1, <1>2, <1>3

(* Dividing twice is dividing by the product.                              *)
LEMMA DivideTwice ==
    ASSUME NEW a \in Nat, NEW b \in Nat \ {0}, NEW c \in Nat \ {0}
    PROVE  (a \div b) \div c = a \div (c * b)
<1>1. PICK q \in Nat : q = a \div b /\ q * b <= a /\ a < (q + 1) * b
  BY Quotient
<1>2. PICK t \in Nat : t = q \div c /\ t * c <= q /\ q < (t + 1) * c
  BY Quotient
<1>3. q + 1 <= (t + 1) * c
  <2>1. (t + 1) * c \in Nat
    BY Products
  <2>2. QED
    BY <1>2, <2>1
<1>4. PICK u \in Nat, v \in Nat : u = t * c /\ v = (t + 1) * c
  BY Products
<1>5. u * b <= q * b /\ (q + 1) * b <= v * b
  BY <1>2, <1>3, <1>4, Products
<1>6. u * b = t * (c * b) /\ v * b = (t + 1) * (c * b)
  BY <1>4, Products
<1>7. u * b \in Nat /\ v * b \in Nat /\ q * b \in Nat /\ (q + 1) * b \in Nat
  BY Products
<1>8. t * (c * b) <= a /\ a < (t + 1) * (c * b)
  BY <1>1, <1>5, <1>6, <1>7
<1>9. c * b \in Nat \ {0}
  OBVIOUS
<1>10. t = a \div (c * b)
  BY <1>8, <1>9, Quotient
<1>11. QED
  BY <1>1, <1>2, <1>10

(* What Dart has left after k shifts is what Rust divides by a power: the  *)
(* higher bytes, none beyond the width of the counter.                     *)
LEMMA ShiftsDivide ==
    ASSUME NEW n \in 0..maxInt
    PROVE  /\ \A k \in 0..CounterBytes : Shifted(n)[k] = n \div Power[k]
           /\ \A k \in CounterBytes..NonceBytes : Shifted(n)[k] = 0
<1>1. /\ CounterBytes \in Nat \ {0} /\ NonceBytes \in Nat /\ CounterBytes < NonceBytes
      /\ Radix \in Nat \ {0} /\ n \in Nat /\ n \in 0..MaxCounter
  BY NonceLayout, IntIs
<1>2. \A k \in 0..CounterBytes : Shifted(n)[k] = n \div Power[k]
  <2> DEFINE S == {k \in 0..CounterBytes : Shifted(n)[k] = n \div Power[k]}
  <2>1. 0 \in S
    <3>1. n \div 1 = n /\ 0 \in 0..CounterBytes
      BY <1>1
    <3>2. QED
      BY <1>1, <3>1, Powers, Shifts
  <2>2. ASSUME NEW k \in 1..CounterBytes, k - 1 \in S PROVE k \in S
    <3>1. PICK p \in Nat \ {0} : p = Power[k - 1] /\ Power[k] = Radix * p
      <4>1. k - 1 \in 0..CounterBytes
        BY <1>1
      <4>2. QED
        BY <4>1, Powers
    <3>2. Shifted(n)[k] = (n \div p) \div Radix
      <4>1. k \in 1..NonceBytes
        BY <1>1
      <4>2. Shifted(n)[k - 1] = n \div p
        BY <2>2, <3>1
      <4>3. Shifted(n)[k] = Shifted(n)[k - 1] \div Radix
        BY <1>1, <4>1, Shifts
      <4>4. QED
        BY <4>2, <4>3, Zenon
    <3>3. (n \div p) \div Radix = n \div (Radix * p)
      BY <1>1, DivideTwice
    <3>4. k \in 0..CounterBytes
      BY <1>1
    <3>5. QED
      BY <3>1, <3>2, <3>3, <3>4
  <2> HIDE DEF S
  <2>3. \A k \in 0..CounterBytes : k \in S
    BY <1>1, <2>1, <2>2, InductionUpTo
  <2>4. QED
    BY <2>3 DEF S
<1>3. Shifted(n)[CounterBytes] = 0
  <2>1. PICK p \in Nat \ {0} : p = Power[CounterBytes] /\ n < p
    BY <1>1, Powers, CounterFits, CounterWidth
  <2>2. n \div p = 0
    BY <1>1, <2>1
  <2>3. QED
    BY <1>1, <1>2, <2>1, <2>2
<1>4. \A k \in CounterBytes..NonceBytes : Shifted(n)[k] = 0
  <2> DEFINE S == {k \in Nat : k \in CounterBytes..NonceBytes => Shifted(n)[k] = 0}
  <2>1. 0 \in S
    BY <1>1
  <2>2. ASSUME NEW k \in 1..NonceBytes, k - 1 \in S PROVE k \in S
    <3>1. SUFFICES ASSUME k \in CounterBytes..NonceBytes PROVE Shifted(n)[k] = 0
      BY <1>1
    <3>2. CASE k = CounterBytes
      BY <1>3, <3>2
    <3>3. CASE k # CounterBytes
      <4>1. k - 1 \in CounterBytes..NonceBytes
        BY <1>1, <3>1, <3>3
      <4>2. Shifted(n)[k - 1] = 0
        BY <2>2, <4>1
      <4>3. 0 \div Radix = 0
        BY <1>1
      <4>4. QED
        <5>1. Shifted(n)[k] = Shifted(n)[k - 1] \div Radix
          BY <1>1, Shifts
        <5>2. QED
          BY <4>2, <4>3, <5>1, Zenon
    <3>4. QED
      BY <3>2, <3>3
  <2> HIDE DEF S
  <2>3. \A k \in 0..NonceBytes : k \in S
    BY <1>1, <2>1, <2>2, InductionUpTo
  <2>4. QED
    BY <1>1, <2>3 DEF S
<1>5. QED
  BY <1>2, <1>4

(* Both sides compute the same nonce for every counter that Dart's int     *)
(* holds.                                                                  *)
LEMMA NoncesAgree ==
    ASSUME NEW n \in 0..maxInt, NEW last
    PROVE  stream_nonce(n, last) = _nonce(n, last)
<1>1. /\ CounterBytes \in Nat \ {0} /\ NonceBytes \in Nat /\ CounterBytes < NonceBytes
      /\ Radix \in Nat \ {0}
  BY NonceLayout
<1> DEFINE c(i) == Shifted(n)[NonceBytes - 1 - i]
<1>2. ASSUME NEW i \in 1..NonceBytes, i # NonceBytes
      PROVE  (IF i < NonceBytes - CounterBytes THEN 0
              ELSE BigEndian(n, i - (NonceBytes - CounterBytes) + 1))
               = IF c(i) > 0 THEN c(i) % Radix ELSE 0
  <2>1. CASE i < NonceBytes - CounterBytes
    <3>1. NonceBytes - 1 - i \in CounterBytes..NonceBytes
      BY <1>1, <2>1
    <3>2. c(i) = 0
      BY <3>1, ShiftsDivide
    <3>3. QED
      BY <2>1, <3>2
  <2>2. CASE ~(i < NonceBytes - CounterBytes)
    <3>1. PICK k \in 0..CounterBytes :
            /\ k = NonceBytes - 1 - i
            /\ k = CounterBytes - (i - (NonceBytes - CounterBytes) + 1)
            /\ k \in 0..NonceBytes
      BY <1>1, <1>2, <2>2
    <3>2. PICK m \in Nat : m = Shifted(n)[k]
      BY <3>1, Shifts
    <3>3. m = n \div Power[k]
      BY <3>2, ShiftsDivide
    <3>4. BigEndian(n, i - (NonceBytes - CounterBytes) + 1) = m % Radix
      BY <3>1, <3>3 DEF BigEndian
    <3>5. m % Radix = IF m > 0 THEN m % Radix ELSE 0
      <4>1. 0 % Radix = 0
        BY <1>1
      <4>2. QED
        BY <4>1
    <3>6. QED
      BY <2>2, <3>1, <3>2, <3>4, <3>5
  <2>3. QED
    BY <2>1, <2>2
<1>3. QED
  BY <1>2 DEF stream_nonce, _nonce

(* Different counters that fit have different nonces: from the highest     *)
(* digit down, equal digits give equal quotients.                          *)
LEMMA NoncesDiffer ==
    ASSUME NEW m \in 0..MaxCounter, NEW n \in 0..MaxCounter, NEW last, NEW other,
           stream_nonce(m, last) = stream_nonce(n, other)
    PROVE  m = n
<1>1. /\ CounterBytes \in Nat \ {0} /\ NonceBytes \in Nat /\ CounterBytes < NonceBytes
      /\ Radix \in Nat \ {0} /\ m \in Nat /\ n \in Nat
  BY NonceLayout, CounterWidth
<1>2. ASSUME NEW k \in 0..(CounterBytes - 1)
      PROVE  (m \div Power[k]) % Radix = (n \div Power[k]) % Radix
  <2>1. PICK i \in 1..NonceBytes :
          /\ i # NonceBytes /\ ~(i < NonceBytes - CounterBytes)
          /\ k = CounterBytes - (i - (NonceBytes - CounterBytes) + 1)
    <3>1. NonceBytes - 1 - k \in 1..NonceBytes
      BY <1>1
    <3>2. QED
      BY <1>1, <3>1
  <2>2. /\ stream_nonce(m, last)[i] = BigEndian(m, i - (NonceBytes - CounterBytes) + 1)
        /\ stream_nonce(n, other)[i] = BigEndian(n, i - (NonceBytes - CounterBytes) + 1)
    BY <2>1 DEF stream_nonce
  <2>3. QED
    BY <2>1, <2>2 DEF BigEndian
<1> DEFINE S == {j \in 0..CounterBytes :
                   m \div Power[CounterBytes - j] = n \div Power[CounterBytes - j]}
<1>3. 0 \in S
  <2>1. PICK p \in Nat \ {0} : p = Power[CounterBytes] /\ m < p /\ n < p
    BY <1>1, Powers, CounterFits
  <2>2. m \div p = 0 /\ n \div p = 0
    BY <1>1, <2>1
  <2>3. CounterBytes - 0 = CounterBytes /\ 0 \in 0..CounterBytes
    BY <1>1
  <2>4. QED
    BY <2>1, <2>2, <2>3
<1>4. ASSUME NEW j \in 1..CounterBytes, j - 1 \in S PROVE j \in S
  <2>1. PICK k \in 0..(CounterBytes - 1) :
          k = CounterBytes - j /\ k + 1 = CounterBytes - (j - 1) /\ k + 1 \in 1..CounterBytes
    BY <1>1
  <2>2. PICK p \in Nat \ {0} : p = Power[k] /\ Power[k + 1] = Radix * p
    <3>1. k \in 0..CounterBytes /\ k + 1 - 1 = k
      BY <1>1
    <3>2. QED
      BY <2>1, <3>1, Powers
  <2>3. m \div (Radix * p) = n \div (Radix * p)
    BY <1>4, <2>1, <2>2
  <2>4. (m \div p) \div Radix = (n \div p) \div Radix
    BY <1>1, <2>3, DivideTwice
  <2>5. (m \div p) % Radix = (n \div p) % Radix
    BY <1>2, <2>2
  <2>6. m \div p \in Nat /\ n \div p \in Nat
    BY <1>1, Quotient
  <2>7. \A a \in Nat : a = Radix * (a \div Radix) + (a % Radix)
    BY <1>1, Quotient
  <2>8. m \div p = n \div p
    BY <2>4, <2>5, <2>6, <2>7, Zenon
  <2>9. j \in 0..CounterBytes
    BY <1>1
  <2>10. QED
    BY <2>1, <2>2, <2>8, <2>9
<1> HIDE DEF S
<1>5. \A j \in 0..CounterBytes : j \in S
  BY <1>1, <1>3, <1>4, InductionUpTo
<1>6. m \div Power[0] = n \div Power[0]
  <2>1. CounterBytes \in 0..CounterBytes /\ CounterBytes - CounterBytes = 0
    BY <1>1
  <2>2. CounterBytes \in S
    BY <1>5, <2>1
  <2>3. QED
    BY <2>1, <2>2 DEF S
<1>7. m \div 1 = m /\ n \div 1 = n
  BY <1>1
<1>8. QED
  BY <1>6, <1>7, Powers

(* A counter beyond Dart's int is negative as one: no round of the loop    *)
(* runs, and the counter field stays zero, as that of the first frame is.  *)
LEMMA BeyondInt ==
    ASSUME NEW n \in 0..MaxCounter, n > maxInt
    PROVE  int(n) \in Int /\ int(n) < 0 /\ n # 0
<1>1. CounterBytes \in 0..CounterBytes /\ CounterBytes \in 1..CounterBytes
      /\ CounterBytes - 1 \in 0..CounterBytes /\ Radix \in Nat \ {0, 1}
  BY NonceLayout
<1>2. PICK p \in Nat \ {0}, q \in Nat \ {0} :
        p = Power[CounterBytes] /\ q = Power[CounterBytes - 1] /\ p = Radix * q
  BY <1>1, Powers
<1>3. p >= 2
  <2>1. PICK s \in Nat : Radix = 2 + s
    <3>1. Radix - 2 \in Nat /\ Radix = 2 + (Radix - 2)
      BY <1>1
    <3>2. QED
      BY <3>1
  <2>2. p = 2 * q + s * q /\ s * q \in Nat
    BY <1>2, <2>1
  <2>3. QED
    BY <1>2, <2>2
<1>4. maxInt = p \div 2 - 1 /\ MaxCounter = p - 1
  BY <1>2, CounterFits DEF maxInt
<1>5. n \in Nat /\ n < p /\ n % p = n
  BY <1>2, <1>4
<1>6. int(n) = n - p
  BY <1>2, <1>4, <1>5 DEF int
<1>7. QED
  BY <1>2, <1>3, <1>4, <1>5, <1>6

LEMMA LoopEnds ==
    ASSUME NEW n \in 0..MaxCounter, n > maxInt
    PROVE  \A k \in 0..NonceBytes : Shifted(n)[k] = int(n)
<1>1. int(n) \in Int /\ int(n) < 0 /\ NonceBytes \in Nat
  BY BeyondInt, NonceLayout
<1>2. PICK z \in Int : z = int(n) /\ ~(z > 0)
  BY <1>1
<1> DEFINE f == [k \in 0..NonceBytes |-> z]
<1>3. f = [k \in 0..NonceBytes |->
            IF k = 0 THEN int(n)
            ELSE IF f[k - 1] > 0 THEN f[k - 1] \div Radix
            ELSE f[k - 1]]
  <2>1. ASSUME NEW k \in 0..NonceBytes
        PROVE  f[k] = IF k = 0 THEN int(n)
                      ELSE IF f[k - 1] > 0 THEN f[k - 1] \div Radix
                      ELSE f[k - 1]
    <3>1. CASE k = 0
      BY <1>2, <3>1
    <3>2. CASE k # 0
      <4>1. k - 1 \in 0..NonceBytes
        BY <1>1, <3>2
      <4>2. f[k - 1] = z /\ f[k] = z
        BY <4>1
      <4>3. QED
        BY <1>2, <3>2, <4>2
    <3>3. QED
      BY <3>1, <3>2
  <2>2. QED
    BY <2>1
<1> HIDE DEF f
<1>4. Shifted(n) = [k \in 0..NonceBytes |->
                     IF k = 0 THEN int(n)
                     ELSE IF Shifted(n)[k - 1] > 0 THEN Shifted(n)[k - 1] \div Radix
                     ELSE Shifted(n)[k - 1]]
  BY <1>3, Zenon DEF Shifted
<1>5. PICK c : c = Shifted(n)
  OBVIOUS
<1>6. \A k \in 0..NonceBytes :
        c[k] = IF k = 0 THEN int(n)
               ELSE IF c[k - 1] > 0 THEN c[k - 1] \div Radix
               ELSE c[k - 1]
  <2> DEFINE r == [k \in 0..NonceBytes |->
                     IF k = 0 THEN int(n)
                     ELSE IF c[k - 1] > 0 THEN c[k - 1] \div Radix
                     ELSE c[k - 1]]
  <2>1. \A k \in 0..NonceBytes :
          r[k] = IF k = 0 THEN int(n)
                 ELSE IF c[k - 1] > 0 THEN c[k - 1] \div Radix
                 ELSE c[k - 1]
    OBVIOUS
  <2>2. c = r
    BY <1>4, <1>5, Zenon
  <2> HIDE DEF r
  <2>3. QED
    BY <2>1, <2>2, Zenon
<1> DEFINE S == {k \in 0..NonceBytes : c[k] = z}
<1>7. 0 \in S
  <2>1. 0 \in 0..NonceBytes
    BY <1>1
  <2>2. QED
    BY <1>2, <1>6, <2>1
<1>8. ASSUME NEW k \in 1..NonceBytes, k - 1 \in S PROVE k \in S
  <2>1. k \in 0..NonceBytes /\ k # 0
    BY <1>1
  <2>2. c[k - 1] = z
    BY <1>8
  <2>3. QED
    BY <1>2, <1>6, <2>1, <2>2
<1> HIDE DEF S
<1>9. \A k \in 0..NonceBytes : k \in S
  BY <1>1, <1>7, <1>8, InductionUpTo
<1>10. QED
  BY <1>2, <1>5, <1>9 DEF S

LEMMA NoncesPart ==
    ASSUME NEW n \in 0..MaxCounter, n > maxInt, NEW last
    PROVE  stream_nonce(n, last) # _nonce(n, last)
<1>1. /\ CounterBytes \in Nat \ {0} /\ NonceBytes \in Nat /\ CounterBytes < NonceBytes
      /\ Radix \in Nat \ {0}
  BY NonceLayout
<1>2. _nonce(n, last) = stream_nonce(0, last)
  <2> DEFINE c(i) == Shifted(n)[NonceBytes - 1 - i]
  <2>1. ASSUME NEW i \in 1..NonceBytes, i # NonceBytes
        PROVE  /\ (IF c(i) > 0 THEN c(i) % Radix ELSE 0) = 0
               /\ BigEndian(0, i - (NonceBytes - CounterBytes) + 1) = 0
                    \/ i < NonceBytes - CounterBytes
    <3>1. NonceBytes - 1 - i \in 0..NonceBytes
      BY <1>1, <2>1
    <3>2. PICK z \in Int : z = c(i) /\ z < 0
      BY <3>1, BeyondInt, LoopEnds
    <3>3. ASSUME ~(i < NonceBytes - CounterBytes)
          PROVE  BigEndian(0, i - (NonceBytes - CounterBytes) + 1) = 0
      <4>1. PICK k \in 0..CounterBytes :
              k = CounterBytes - (i - (NonceBytes - CounterBytes) + 1)
        BY <1>1, <2>1, <3>3
      <4>2. PICK p \in Nat \ {0} : p = Power[k]
        BY <4>1, Powers
      <4>3. 0 \div p = 0 /\ 0 % Radix = 0
        BY <1>1
      <4>4. QED
        BY <4>1, <4>2, <4>3 DEF BigEndian
    <3>4. QED
      BY <3>2, <3>3
  <2>2. QED
    BY <2>1 DEF stream_nonce, _nonce
<1>3. 0 \in 0..MaxCounter /\ n # 0
  BY BeyondInt, CounterWidth
<1>4. QED
  BY <1>2, <1>3, NoncesDiffer

(* No counter is used for two frames of a file, nor one that its bytes in  *)
(* the nonce cannot hold.                                                  *)
THEOREM CountersOnce == Spec => []CounterInv
<1>1. Init => CounterInv
  BY DEF Init, CounterInv
<1>2. QED
  BY <1>1, CounterNext, Invariance, PTL DEF Spec

(* No nonce is used for two frames of a file: frames have different        *)
(* counters, none beyond its width, and the layout keeps them apart.       *)
THEOREM NoncesOnce == Spec => []NonceOnce
<1>1. CounterInv /\ TypeOK => NonceOnce
  <2> SUFFICES ASSUME CounterInv, TypeOK, NEW i \in DOMAIN out, NEW j \in DOMAIN out,
                      NonceOf(out[i]) = NonceOf(out[j])
               PROVE  i = j
    BY DEF NonceOnce
  <2>1. /\ out[i].counter = i - 1 /\ out[i].counter \in 0..MaxCounter
        /\ out[j].counter = j - 1 /\ out[j].counter \in 0..MaxCounter
    BY DEF CounterInv
  <2>2. out[i].counter = out[j].counter
    BY <2>1, NoncesDiffer DEF NonceOf
  <2>3. i \in Int /\ j \in Int
    BY DEF TypeOK
  <2>4. QED
    BY <2>1, <2>2, <2>3
<1>2. QED
  BY <1>1, CountersOnce, TypeCorrect, PTL

(* Every nonce is the one that the Dart side gives the frame at that       *)
(* place, byte for byte, exactly as long as Dart's int holds the counter,  *)
(* whatever the radix and the widths.                                      *)
THEOREM NoncesMatch == Spec => []NonceAgrees
<1>1. CounterInv /\ TypeOK => NonceAgrees
  <2> SUFFICES ASSUME CounterInv, TypeOK, NEW i \in DOMAIN out
               PROVE  NonceOf(out[i]) = _nonce(i - 1, out[i].last) <=> i - 1 <= maxInt
    BY DEF NonceAgrees
  <2>1. out[i].counter = i - 1 /\ i - 1 \in Nat /\ i - 1 \in 0..MaxCounter
    BY CounterWidth DEF CounterInv
  <2>2. maxInt \in Int
    <3>1. CounterBytes \in 0..CounterBytes
      BY NonceLayout
    <3>2. QED
      BY <3>1, Powers DEF maxInt
  <2>3. CASE i - 1 <= maxInt
    <3>1. i - 1 \in 0..maxInt
      BY <2>1, <2>2, <2>3
    <3>2. stream_nonce(i - 1, out[i].last) = _nonce(i - 1, out[i].last)
      BY <3>1, NoncesAgree
    <3>3. QED
      BY <2>1, <2>3, <3>2 DEF NonceOf
  <2>4. CASE ~(i - 1 <= maxInt)
    <3>1. i - 1 > maxInt
      BY <2>1, <2>2, <2>4
    <3>2. stream_nonce(i - 1, out[i].last) # _nonce(i - 1, out[i].last)
      BY <2>1, <3>1, NoncesPart
    <3>3. QED
      BY <2>1, <2>4, <3>2 DEF NonceOf
  <2>5. QED
    BY <2>3, <2>4
<1>2. QED
  BY <1>1, CountersOnce, TypeCorrect, PTL

(* As long as its int holds the counters, the Dart side too gives frames   *)
(* with different counters different nonces.                               *)
THEOREM DartNoncesOnce ==
    ASSUME NEW m \in 0..maxInt, NEW n \in 0..maxInt, NEW last, NEW other,
           _nonce(m, last) = _nonce(n, other)
    PROVE  m = n
<1>1. stream_nonce(m, last) = stream_nonce(n, other)
  BY NoncesAgree
<1>2. m \in 0..MaxCounter /\ n \in 0..MaxCounter
  BY IntIs
<1>3. QED
  BY <1>1, <1>2, NoncesDiffer
=============================================================================
