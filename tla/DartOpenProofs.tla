--------------------------- MODULE DartOpenProofs ---------------------------
(***************************************************************************)
(* Proofs about DartOpen for every chunk size, every tag length and every  *)
(* wire: the type invariant, that the stream is accepted exactly when it   *)
(* is intact, that the way it is cut into events does not matter, and that *)
(* the chunks come out in order.                                           *)
(***************************************************************************)
EXTENDS DartOpen, StreamProofs

Running == {"start", "await", "loop", "final"}

(* Where the bytes not yet opened start, and where the generator holds     *)
(* them: in carry between events, in combined from offset on during one.   *)
(* After a first frame at least one byte is left for the final one.        *)
PlaceInv ==
    /\ phase \in {"start", "await", "final"} =>
         Start(counter) <= taken /\ carry = Part(wire, Start(counter), taken)
    /\ phase = "loop" =>
         /\ offset <= Start(counter) /\ Start(counter) <= taken
         /\ combined = Part(wire, Start(counter) - offset, taken)
    /\ phase \in Running => counter = 0 \/ Start(counter) < taken
    /\ phase \in Running => (sawAnyByte <=> taken > 0)
    /\ phase = "final" => taken = Len(wire)

(* As long as the generator runs every frame opened was a sealed one.      *)
OpenedInv == phase \in Running => Opened(wire, counter)

(* What has come out is the chunks of the first frames.                     *)
ReleasedInv ==
    /\ Len(released) \in 0..Len(sealed)
    /\ released = Prefix(Len(released))
    /\ phase \in Running => Len(released) = counter

IInv ==
    /\ WireType
    /\ TypeOK
    /\ PlaceInv
    /\ OpenedInv
    /\ ReleasedInv
    /\ AcceptedIffIntact
    /\ VerdictOfWire

-----------------------------------------------------------------------------
(* What arrives and what was sealed do not change.                         *)
LEMMA WireNext == WireType /\ [Next]_vars => WireType' /\ UNCHANGED wireVars
<1> SUFFICES ASSUME WireType, [Next]_vars PROVE WireType' /\ UNCHANGED wireVars
  OBVIOUS
<1>1. UNCHANGED wireVars
  BY DEF Next, vars, Deliver, Step, Refuse, Listen, Event, SourceEnds, OpenNext,
         EndEvent, OpenFinal, SourceFails, BackendThrows, Cancel
<1>2. QED
  BY <1>1 DEF WireType, wireVars

LEMMA WireSame ==
    ASSUME UNCHANGED wireVars
    PROVE  (IsIntact(wire)' <=> IsIntact(wire)) /\ Verdict' = Verdict
BY DEF wireVars, IsIntact, FrameBytes, Verdict, Piece, PieceCount, Authentic

-----------------------------------------------------------------------------
(* The block the loop opens and the bytes it leaves, as pieces of the wire.*)
LEMMA LoopFacts ==
    ASSUME WireType, TypeOK, PlaceInv, phase = "loop"
    PROVE  /\ Len(combined) - offset = taken - Start(counter)
           /\ Rest = Part(wire, Start(counter), taken)
           /\ MoreFollows =>
                /\ Start(counter + 1) < taken
                /\ Block = Part(wire, Start(counter), Start(counter + 1))
           /\ ~MoreFollows => taken <= Start(counter + 1)
<1> DEFINE s == Start(counter)
<1>1. /\ counter \in Nat /\ taken \in Nat /\ taken <= Len(wire) /\ offset \in Nat
      /\ wire \in Seq(Cell) /\ Len(wire) \in Nat
  BY DEF TypeOK, WireType
<1>2. s \in Nat /\ Start(counter + 1) = s + CipherChunk /\ CipherChunk \in Nat
  BY <1>1, StartStep, ChunksPositive, Zenon
<1>3. offset <= s /\ s <= taken /\ combined = Part(wire, s - offset, taken)
  BY DEF PlaceInv
<1>4. PICK b \in Nat : b = s - offset /\ b <= taken
  BY <1>1, <1>2, <1>3
<1>5. Len(combined) = taken - b
  BY <1>1, <1>3, <1>4, PartIsSeq, Zenon
<1>6. Len(combined) - offset = taken - s
  BY <1>1, <1>2, <1>4, <1>5
<1>7. Rest = Part(wire, s, taken)
  <2>1. Within(wire, b, s, taken, taken)
    BY <1>1, <1>2, <1>3, <1>4 DEF Within
  <2>2. Part(combined, s - b, taken - b) = Part(wire, s, taken)
    BY <1>3, <1>4, <2>1, PartOfPart
  <2>3. s - b = offset
    BY <1>1, <1>2, <1>4
  <2>4. QED
    BY <1>5, <2>2, <2>3 DEF Rest, Part
<1>8. ASSUME MoreFollows
      PROVE  Start(counter + 1) < taken /\ Block = Part(wire, s, Start(counter + 1))
  <2>1. taken - s > CipherChunk
    BY <1>6, <1>8, Zenon DEF MoreFollows
  <2>2. PICK n \in Nat : n = s + CipherChunk /\ n < taken /\ s <= n /\ n <= taken
    BY <1>1, <1>2, <2>1
  <2>3. Within(wire, b, s, n, taken)
    BY <1>1, <1>2, <1>3, <1>4, <2>2 DEF Within
  <2>4. Part(combined, s - b, n - b) = Part(wire, s, n)
    BY <1>3, <1>4, <2>3, PartOfPart
  <2>5. s - b = offset /\ n - b = offset + CipherChunk
    BY <1>1, <1>2, <1>4, <2>2
  <2>6. QED
    BY <1>2, <2>2, <2>4, <2>5 DEF Block, Part
<1>9. ASSUME ~MoreFollows PROVE taken <= Start(counter + 1)
  <2>1. ~(taken - s > CipherChunk)
    BY <1>6, <1>9, Zenon DEF MoreFollows
  <2>2. QED
    BY <1>1, <1>2, <2>1
<1>10. QED
  BY <1>6, <1>7, <1>8, <1>9

(* What is left when the source has ended.                                 *)
LEMMA FinalFacts ==
    ASSUME WireType, TypeOK, PlaceInv, phase = "final"
    PROVE  /\ carry = Part(wire, Start(counter), Len(wire))
           /\ Len(carry) = Len(wire) - Start(counter)
           /\ Start(counter) <= Len(wire) /\ Len(wire) <= Start(counter + 1)
           /\ counter = 0 \/ Start(counter) < Len(wire)
           /\ TailMissing <=> Len(wire) - Start(counter) < TagLen
<1>1. /\ counter \in Nat /\ taken = Len(wire) /\ wire \in Seq(Cell) /\ Len(wire) \in Nat
      /\ Len(carry) <= CipherChunk
  BY DEF TypeOK, WireType, PlaceInv
<1>2. /\ Start(counter) \in Nat /\ Start(counter + 1) = Start(counter) + CipherChunk
      /\ CipherChunk \in Nat /\ Start(0) = 0
  BY <1>1, StartStep, ChunksPositive, Zenon
<1>3. /\ Start(counter) <= taken /\ carry = Part(wire, Start(counter), taken)
      /\ counter = 0 \/ Start(counter) < taken
      /\ sawAnyByte <=> taken > 0
  BY DEF PlaceInv, Running
<1>4. Len(carry) = Len(wire) - Start(counter)
  <2>1. Len(wire) <= Len(wire)
    BY <1>1
  <2>2. QED
    BY <1>1, <1>2, <1>3, <2>1, PartIsSeq, Zenon
<1>5. Len(wire) <= Start(counter + 1)
  BY <1>1, <1>2, <1>4
<1>6. TailMissing <=> Len(wire) - Start(counter) < TagLen
  <2>1. TailMissing <=> ~(Len(wire) > 0) \/ Len(wire) - Start(counter) < TagLen
    BY <1>1, <1>3, <1>4, Zenon DEF TailMissing
  <2>2. ~(Len(wire) > 0) => Len(wire) - Start(counter) < TagLen
    BY <1>1, <1>2, ChunksPositive
  <2>3. QED
    BY <2>1, <2>2
<1>7. QED
  BY <1>1, <1>3, <1>4, <1>5, <1>6

-----------------------------------------------------------------------------
LEMMA InvInit == Init => IInv
<1> SUFFICES ASSUME Init PROVE IInv
  OBVIOUS
<1>1. WireType
  BY WireInitType DEF Init
<1>2. /\ phase = "start" /\ taken = 0 /\ counter = 0 /\ offset = 0
      /\ carry = << >> /\ combined = << >> /\ released = << >> /\ sawAnyByte = FALSE
  BY DEF Init
<1>3. Len(wire) \in Nat /\ Len(sealed) \in Nat /\ CipherChunk \in Nat
  BY <1>1, SealedCount, ChunksPositive DEF WireType
<1>4. TypeOK
  <2>1. /\ << >> \in Seq(Cell) /\ << >> \in Seq(Seq(Byte)) /\ Len(<< >>) = 0
        /\ 0 \in 0..0 /\ 0 \in 0..Len(wire) /\ 0 <= CipherChunk
    BY <1>3
  <2>2. QED
    BY <1>2, <2>1 DEF TypeOK
<1>5. PlaceInv
  <2>1. Part(wire, 0, 0) = << >> /\ Start(0) = 0
    BY SubSeqEmpty, StartStep DEF Part
  <2>2. QED
    BY <1>2, <2>1 DEF PlaceInv, Running
<1>6. OpenedInv
  BY <1>2, OpenedNone DEF OpenedInv
<1>7. ReleasedInv
  BY <1>2, <1>3 DEF ReleasedInv, Prefix
<1>8. AcceptedIffIntact /\ VerdictOfWire
  BY <1>2 DEF AcceptedIffIntact, VerdictOfWire, Verdicts
<1>9. QED
  BY <1>1, <1>4, <1>5, <1>6, <1>7, <1>8 DEF IInv

(* What a block that opens adds to the output.                             *)
LEMMA ReleaseType ==
    ASSUME WireType, released \in Seq(Seq(Byte)), NEW block, NEW last, Opens(block, last)
    PROVE  Append(released, Plaintext(counter)) \in Seq(Seq(Byte))
<1>1. counter + 1 \in DOMAIN sealed
  BY DEF Opens, Authentic
<1>2. sealed[counter + 1] \in Frame
  BY <1>1, StreamFacts, ElementOfSeq
<1>3. Plaintext(counter) \in Seq(Byte)
  BY <1>2 DEF Frame, Plaintext
<1>4. QED
  BY <1>3, AppendProperties

(* The locals of the generator keep their types, and what is held back is  *)
(* never more than a frame.                                                *)
LEMMA TypeNext == IInv /\ [Next]_vars => TypeOK'
<1> SUFFICES ASSUME IInv, [Next]_vars PROVE TypeOK'
  OBVIOUS
<1>1. WireType /\ TypeOK /\ PlaceInv /\ ReleasedInv /\ UNCHANGED wireVars
  BY WireNext DEF IInv
<1>2. wire' = wire /\ wire \in Seq(Cell) /\ Len(wire) \in Nat
  BY <1>1 DEF wireVars, WireType
<1> USE <1>2 DEF TypeOK, Terminal, Thrown
<1>3. CASE Refuse
  BY <1>1, <1>3 DEF Refuse, End
<1>4. CASE Listen
  BY <1>1, <1>4 DEF Listen
<1>5. ASSUME NEW n \in 0..Len(wire), Event(n) PROVE TypeOK'
  <2>1. /\ taken \in Nat /\ taken + n \in Nat /\ taken <= taken + n
        /\ taken + n <= Len(wire)
    BY <1>1, <1>5 DEF Event
  <2>2. Part(wire, taken, taken + n) \in Seq(Cell)
    BY <2>1, PartIsSeq, Zenon
  <2>3. combined' \in Seq(Cell) /\ Len(combined') \in Nat
    <3>1. combined' = carry \o Part(wire, taken, taken + n)
      BY <1>5 DEF Event, Part
    <3>2. QED
      BY <1>1, <2>2, <3>1
  <2>4. QED
    BY <1>1, <1>5, <2>1, <2>3 DEF Event
<1>6. CASE SourceEnds
  BY <1>1, <1>6 DEF SourceEnds
<1>7. CASE OpenNext
  <2>1. /\ phase = "loop" /\ MoreFollows /\ counter' = counter + 1
        /\ IF Opens(Block, FALSE)
             THEN released' = Append(released, Plaintext(counter))
             ELSE UNCHANGED released
        /\ UNCHANGED <<taken, carry, combined, sawAnyByte>>
        /\ phase' \in {"loop", "AuthFailed"}
        /\ offset' \in {offset, offset + CipherChunk}
    BY <1>7 DEF OpenNext, Open, GoOn, End
  <2>2. released' \in Seq(Seq(Byte))
    <3>1. CASE Opens(Block, FALSE)
      BY <1>1, <2>1, <3>1, ReleaseType
    <3>2. CASE ~Opens(Block, FALSE)
      BY <1>1, <2>1, <3>2
    <3>3. QED
      BY <3>1, <3>2
  <2>3. offset' \in 0..Len(combined)
    BY <1>1, <2>1, ChunksPositive DEF MoreFollows
  <2>4. QED
    BY <1>1, <2>1, <2>2, <2>3
<1>8. CASE EndEvent
  <2>1. carry' = Part(wire, Start(counter), taken) /\ taken <= Start(counter + 1)
    BY <1>1, <1>8, LoopFacts DEF EndEvent
  <2>2. /\ Start(counter) \in Nat /\ Start(counter + 1) = Start(counter) + CipherChunk
        /\ Start(counter) <= taken /\ taken \in Nat /\ taken <= Len(wire)
        /\ CipherChunk \in Nat
    BY <1>1, <1>8, StartStep, ChunksPositive DEF EndEvent, PlaceInv
  <2>3. carry' \in Seq(Cell) /\ Len(carry') = taken - Start(counter)
    BY <2>1, <2>2, PartIsSeq, Zenon
  <2>4. Len(carry') <= CipherChunk
    BY <2>1, <2>2, <2>3
  <2>5. QED
    BY <1>1, <1>8, <2>3, <2>4 DEF EndEvent
<1>9. CASE OpenFinal
  <2>1. /\ UNCHANGED <<taken, carry, combined, offset, sawAnyByte>>
        /\ phase' \in {"InvalidCiphertext", "Ok", "AuthFailed"}
        /\ counter' \in {counter, counter + 1}
        /\ \/ UNCHANGED released
           \/ /\ Opens(carry, TRUE)
              /\ released' = Append(released, Plaintext(counter))
    BY <1>9 DEF OpenFinal, End, Open
  <2>2. released' \in Seq(Seq(Byte))
    <3>1. CASE Opens(carry, TRUE) /\ released' = Append(released, Plaintext(counter))
      BY <1>1, <3>1, ReleaseType
    <3>2. CASE UNCHANGED released
      BY <1>1, <3>2
    <3>3. QED
      BY <2>1, <3>1, <3>2
  <2>3. QED
    BY <1>1, <2>1, <2>2
<1>10. CASE SourceFails
  BY <1>1, <1>10 DEF SourceFails, End
<1>11. CASE BackendThrows
  BY <1>1, <1>11 DEF BackendThrows, End
<1>12. CASE Cancel
  BY <1>1, <1>12 DEF Cancel, End
<1>13. CASE UNCHANGED vars
  BY <1>1, <1>13 DEF vars, genVars
<1>14. QED
  BY <1>3, <1>4, <1>5, <1>6, <1>7, <1>8, <1>9, <1>10, <1>11, <1>12, <1>13
     DEF Next, Deliver, Step

(* The bytes not yet opened stay where the invariant says.                 *)
LEMMA PlaceNext == IInv /\ [Next]_vars => PlaceInv'
<1> SUFFICES ASSUME IInv, [Next]_vars PROVE PlaceInv'
  OBVIOUS
<1>1. WireType /\ TypeOK /\ PlaceInv /\ UNCHANGED wireVars
  BY WireNext DEF IInv
<1>2. /\ wire' = wire /\ wire \in Seq(Cell) /\ Len(wire) \in Nat
      /\ taken \in Nat /\ taken <= Len(wire) /\ counter \in Nat /\ sawAnyByte \in BOOLEAN
      /\ Start(counter) \in Nat
  <2>1. /\ wire' = wire /\ wire \in Seq(Cell) /\ Len(wire) \in Nat
        /\ taken \in Nat /\ taken <= Len(wire) /\ counter \in Nat /\ sawAnyByte \in BOOLEAN
    BY <1>1 DEF wireVars, WireType, TypeOK
  <2>2. QED
    BY <2>1, StartType, Zenon
<1>3. Part(wire, Start(counter), taken)' = Part(wire, Start(counter)', taken')
  BY <1>2 DEF Part
<1>4. CASE phase' \in Terminal
  BY <1>4 DEF PlaceInv, Running, Terminal, Thrown
<1>5. CASE Listen
  BY <1>1, <1>2, <1>5 DEF Listen, PlaceInv, Running, Part, Start
<1>6. ASSUME NEW n \in 0..Len(wire), Event(n) PROVE PlaceInv'
  <2>1. /\ phase = "await" /\ phase' = "loop" /\ offset' = 0 /\ taken' = taken + n
        /\ taken + n <= Len(wire) /\ counter' = counter
        /\ combined' = carry \o Part(wire, taken, taken + n)
        /\ sawAnyByte' = (sawAnyByte \/ n > 0)
    BY <1>6 DEF Event, Part
  <2>2. /\ Start(counter) <= taken /\ carry = Part(wire, Start(counter), taken)
        /\ counter = 0 \/ Start(counter) < taken
        /\ sawAnyByte <=> taken > 0
    BY <1>1, <2>1 DEF PlaceInv, Running
  <2>3. taken + n \in Nat /\ taken <= taken + n
    BY <1>2
  <2>4. combined' = Part(wire, Start(counter), taken + n)
    BY <1>2, <2>1, <2>2, <2>3, PartConcat
  <2>5. /\ 0 <= Start(counter) /\ Start(counter) - 0 = Start(counter)
        /\ Start(counter) <= taken + n
        /\ counter = 0 \/ Start(counter) < taken + n
        /\ sawAnyByte' <=> taken + n > 0
    <3>1. n \in Nat /\ (n > 0 \/ n = 0)
      OBVIOUS
    <3>2. taken > 0 \/ n > 0 <=> taken + n > 0
      BY <1>2, <3>1
    <3>3. sawAnyByte' <=> taken + n > 0
      BY <2>1, <2>2, <3>2, Zenon
    <3>4. QED
      BY <1>2, <2>2, <3>1, <3>3
  <2>6. Start(counter)' = Start(counter)
    BY <2>1 DEF Start
  <2>7. Part(wire, Start(counter) - offset, taken)' = Part(wire, Start(counter), taken + n)
    BY <1>2, <2>1, <2>5, <2>6 DEF Part
  <2>8. QED
    BY <2>1, <2>4, <2>5, <2>6, <2>7 DEF PlaceInv, Running
<1>7. CASE SourceEnds
  BY <1>1, <1>2, <1>7 DEF SourceEnds, PlaceInv, Running, Part, Start
<1>8. CASE OpenNext /\ phase' = "loop"
  <2>1. /\ phase = "loop" /\ MoreFollows /\ counter' = counter + 1
        /\ offset' = offset + CipherChunk
        /\ UNCHANGED <<taken, carry, combined, sawAnyByte>>
    BY <1>8 DEF OpenNext, GoOn, End
  <2>2. /\ offset <= Start(counter) /\ Start(counter) <= taken
        /\ combined = Part(wire, Start(counter) - offset, taken)
        /\ sawAnyByte <=> taken > 0
    BY <1>1, <2>1 DEF PlaceInv, Running
  <2>3. Start(counter + 1) < taken
    BY <1>1, <2>1, LoopFacts
  <2>4. /\ Start(counter + 1) = Start(counter) + CipherChunk
        /\ CipherChunk \in Nat /\ offset \in Nat
    BY <1>1, <1>2, StartStep, ChunksPositive DEF TypeOK
  <2>5. /\ Start(counter + 1) - offset' = Start(counter) - offset
        /\ offset' <= Start(counter + 1) /\ Start(counter + 1) <= taken
    BY <1>2, <2>1, <2>2, <2>3, <2>4
  <2>6. Start(counter)' = Start(counter + 1)
    BY <2>1 DEF Start
  <2>7. Part(wire, Start(counter) - offset, taken)'
          = Part(wire, Start(counter + 1) - offset', taken)
    BY <1>2, <2>1, <2>6 DEF Part
  <2>8. QED
    BY <1>8, <2>1, <2>2, <2>3, <2>5, <2>6, <2>7 DEF PlaceInv, Running
<1>9. CASE EndEvent
  <2>1. /\ phase = "loop" /\ phase' = "await" /\ carry' = Rest
        /\ UNCHANGED <<taken, counter, sawAnyByte>>
    BY <1>9 DEF EndEvent
  <2>2. Rest = Part(wire, Start(counter), taken)
    BY <1>1, <2>1, LoopFacts
  <2>3. /\ Start(counter)' = Start(counter)
        /\ Part(wire, Start(counter), taken)' = Part(wire, Start(counter), taken)
    BY <1>2, <2>1 DEF Start, Part
  <2>4. QED
    BY <1>1, <2>1, <2>2, <2>3 DEF PlaceInv, Running
<1>10. CASE UNCHANGED vars
  BY <1>1, <1>2, <1>10 DEF vars, genVars, PlaceInv, Running, Part, Start
<1>11. ASSUME Refuse \/ SourceFails \/ BackendThrows \/ Cancel \/ OpenFinal
              \/ (OpenNext /\ phase' # "loop")
       PROVE  phase' \in Terminal
  BY <1>11 DEF Refuse, SourceFails, BackendThrows, Cancel, OpenFinal, OpenNext, GoOn,
               End, Terminal, Thrown
<1>12. QED
  BY <1>4, <1>5, <1>6, <1>7, <1>8, <1>9, <1>10, <1>11 DEF Next, Deliver, Step

(* Frames are opened one by one and each is the next sealed one.           *)
LEMMA OpenedInvNext == IInv /\ [Next]_vars => OpenedInv'
<1> SUFFICES ASSUME IInv, [Next]_vars, phase' \in Running PROVE Opened(wire, counter)'
  BY DEF OpenedInv
<1>1. WireType /\ TypeOK /\ PlaceInv /\ OpenedInv /\ UNCHANGED wireVars
  BY WireNext DEF IInv
<1>2. Opened(wire, counter)' = Opened(wire, counter')
  BY <1>1 DEF wireVars, Opened, Part, Sent, FrameBytes
<1>3. CASE OpenNext
  <2>1. /\ phase = "loop" /\ MoreFollows /\ counter' = counter + 1
        /\ Opens(Block, FALSE)
    BY <1>3 DEF OpenNext, GoOn, End, Running
  <2>2. Authentic(Part(wire, Start(counter), Start(counter + 1)), counter, FALSE)
    BY <1>1, <2>1, LoopFacts DEF Opens
  <2>3. Opened(wire, counter) /\ counter \in Nat
    BY <1>1, <2>1 DEF OpenedInv, TypeOK, Running
  <2>4. QED
    BY <1>1, <1>2, <2>1, <2>2, <2>3, OpenedNext
<1>4. CASE ~OpenNext
  <2>1. counter' = counter /\ phase \in Running
    BY <1>4 DEF Next, vars, genVars, Deliver, Step, Refuse, Listen, Event, SourceEnds,
                EndEvent, OpenFinal, SourceFails, BackendThrows, Cancel, End, Running
  <2>2. QED
    BY <1>1, <1>2, <2>1 DEF OpenedInv
<1>5. QED
  BY <1>3, <1>4

(* What a block that opens is: the next sealed chunk, and the final one    *)
(* only under the flag.                                                    *)
LEMMA ReleaseNext ==
    ASSUME WireType, ReleasedInv, phase \in Running, NEW block, NEW last \in BOOLEAN,
           Opens(block, last), counter \in Nat
    PROVE  /\ counter + 1 \in 1..Len(sealed)
           /\ last <=> counter + 1 = Len(sealed)
           /\ Append(released, Plaintext(counter)) = Prefix(counter + 1)
           /\ released = Prefix(counter) /\ Len(released) = counter
           /\ Len(Prefix(counter + 1)) = counter + 1
<1>1. counter + 1 \in 1..Len(sealed) /\ (last <=> counter + 1 = Len(sealed))
  BY AuthenticIs DEF Opens
<1>2. released = Prefix(counter) /\ Len(released) = counter
  BY DEF ReleasedInv
<1>3. counter + 1 \in 0..Len(sealed)
  BY <1>1, SealedCount
<1>4. Append(Prefix(counter), Plaintext(counter)) = Prefix(counter + 1)
  BY <1>1, PrefixFacts
<1>5. Len(Prefix(counter + 1)) = counter + 1
  BY <1>3, PrefixFacts
<1>6. QED
  BY <1>1, <1>2, <1>4, <1>5

(* What has come out is the beginning of what was sealed.                  *)
LEMMA ReleasedNext == IInv /\ [Next]_vars => ReleasedInv'
<1> SUFFICES ASSUME IInv, [Next]_vars PROVE ReleasedInv'
  OBVIOUS
<1>1. WireType /\ TypeOK /\ ReleasedInv /\ UNCHANGED wireVars /\ counter \in Nat
  BY WireNext DEF IInv, TypeOK
<1>2. sealed' = sealed
  BY <1>1 DEF wireVars
<1>3. ASSUME NEW block, NEW last \in BOOLEAN, Opens(block, last), phase \in Running,
             released' = Append(released, Plaintext(counter)), counter' = counter + 1
      PROVE  ReleasedInv'
  <2>1. /\ counter + 1 \in 1..Len(sealed)
        /\ released' = Prefix(counter + 1) /\ Len(Prefix(counter + 1)) = counter + 1
    BY <1>1, <1>3, ReleaseNext
  <2>2. counter + 1 \in 0..Len(sealed)
    BY <2>1, <1>1, SealedCount
  <2>3. Prefix(Len(released))' = Prefix(counter + 1)
    BY <1>2, <2>1 DEF Prefix
  <2>4. QED
    BY <1>2, <1>3, <2>1, <2>2, <2>3 DEF ReleasedInv
<1>4. ASSUME UNCHANGED released, phase' \in Running => phase \in Running /\ counter' = counter
      PROVE  ReleasedInv'
  BY <1>1, <1>2, <1>4 DEF ReleasedInv, Prefix
<1>5. CASE OpenNext
  <2>1. CASE Opens(Block, FALSE)
    <3>1. phase \in Running /\ released' = Append(released, Plaintext(counter))
          /\ counter' = counter + 1
      BY <1>5, <2>1 DEF OpenNext, Open, Running
    <3>2. QED
      BY <1>3, <2>1, <3>1
  <2>2. CASE ~Opens(Block, FALSE)
    <3>1. UNCHANGED released /\ phase' \notin Running
      BY <1>5, <2>2 DEF OpenNext, Open, GoOn, End, Running
    <3>2. QED
      BY <1>4, <3>1
  <2>3. QED
    BY <2>1, <2>2
<1>6. CASE OpenFinal
  <2>1. CASE Opens(carry, TRUE) /\ ~TailMissing
    <3>1. phase \in Running /\ released' = Append(released, Plaintext(counter))
          /\ counter' = counter + 1
      BY <1>6, <2>1 DEF OpenFinal, Open, Running
    <3>2. QED
      BY <1>3, <2>1, <3>1
  <2>2. CASE TailMissing \/ ~Opens(carry, TRUE)
    <3>1. UNCHANGED released /\ phase' \notin Running
      BY <1>6, <2>2 DEF OpenFinal, Open, End, Running
    <3>2. QED
      BY <1>4, <3>1
  <2>3. QED
    BY <2>1, <2>2
<1>7. CASE ~OpenNext /\ ~OpenFinal
  <2>1. UNCHANGED released /\ (phase' \in Running => phase \in Running /\ counter' = counter)
    BY <1>7 DEF Next, vars, genVars, Deliver, Step, Refuse, Listen, Event, SourceEnds,
                EndEvent, SourceFails, BackendThrows, Cancel, End, Running
  <2>2. QED
    BY <1>4, <2>1
<1>8. QED
  BY <1>5, <1>6, <1>7

(* The verdict is the right one: in the loop because a frame that bytes    *)
(* follow must open, at the end because what is left must be the flagged   *)
(* frame.                                                                  *)
LEMMA VerdictNext == IInv /\ [Next]_vars => AcceptedIffIntact' /\ VerdictOfWire'
<1> SUFFICES ASSUME IInv, [Next]_vars, phase' \in Verdicts
             PROVE  (phase' = "Ok" <=> IsIntact(wire)) /\ phase' = Verdict
  BY WireNext, WireSame DEF IInv, AcceptedIffIntact, VerdictOfWire, Verdicts
<1>1. /\ WireType /\ TypeOK /\ PlaceInv /\ OpenedInv
      /\ counter \in Nat /\ wire \in Seq(Cell) /\ Len(wire) \in Nat
  BY DEF IInv, TypeOK, WireType
<1>2. Start(counter) \in Nat
  BY <1>1, StartType, Zenon
<1>3. CASE OpenNext
  <2>1. /\ phase = "loop" /\ MoreFollows /\ phase' = "AuthFailed" /\ ~Opens(Block, FALSE)
    BY <1>3 DEF OpenNext, GoOn, End, Verdicts
  <2>2. /\ ~Authentic(Part(wire, Start(counter), Start(counter + 1)), counter, FALSE)
        /\ Start(counter + 1) < taken
    BY <1>1, <2>1, LoopFacts DEF Opens
  <2>3. Start(counter + 1) < Len(wire)
    <3>1. taken <= Len(wire) /\ taken \in Nat
      BY <1>1 DEF TypeOK
    <3>2. Start(counter + 1) \in Nat
      BY <1>1, StartType
    <3>3. QED
      BY <1>1, <2>2, <3>1, <3>2
  <2>4. Verdict = "AuthFailed"
    BY <1>1, <2>2, <2>3, VerdictInner, Zenon
  <2>5. ~IsIntact(wire)
    BY <1>1, <2>2, <2>3, IntactInner, Zenon
  <2>6. QED
    BY <2>1, <2>4, <2>5
<1>4. CASE OpenFinal
  <2> DEFINE tail == Part(wire, Start(counter), Len(wire))
  <2>1. /\ phase = "final"
        /\ phase' = IF TailMissing THEN "InvalidCiphertext"
                    ELSE IF Opens(carry, TRUE) THEN "Ok" ELSE "AuthFailed"
    BY <1>4 DEF OpenFinal, End
  <2>2. /\ carry = tail
        /\ Start(counter) <= Len(wire) /\ Len(wire) <= Start(counter + 1)
        /\ counter = 0 \/ Start(counter) < Len(wire)
        /\ TailMissing <=> Len(wire) - Start(counter) < TagLen
    BY <1>1, <2>1, FinalFacts, Zenon
  <2>3. Opened(wire, counter)
    BY <1>1, <2>1 DEF OpenedInv, Running
  <2>4. phase' = Verdict
    <3>1. Verdict = IF Len(wire) - Start(counter) < TagLen THEN "InvalidCiphertext"
                    ELSE IF Authentic(tail, counter, TRUE) THEN "Ok" ELSE "AuthFailed"
      BY <1>1, <2>2, <2>3, VerdictFinal, Zenon
    <3>2. QED
      BY <2>1, <2>2, <3>1, Zenon DEF Opens
  <2>5. ASSUME phase' = "Ok" PROVE IsIntact(wire)
    <3>1. Authentic(tail, counter, TRUE)
      BY <2>1, <2>2, <2>5 DEF Opens
    <3>2. QED
      BY <1>1, <2>2, <2>3, <3>1, AcceptedIsIntact, Zenon
  <2>6. ASSUME IsIntact(wire) PROVE phase' = "Ok"
    <3>1. Start(counter) + TagLen <= Len(wire) /\ Authentic(tail, counter, TRUE)
      BY <1>1, <2>2, <2>6, IntactFinal, Zenon
    <3>2. ~(Len(wire) - Start(counter) < TagLen)
      BY <1>1, <1>2, <3>1, TagLenPositive
    <3>3. QED
      BY <2>1, <2>2, <3>1, <3>2, Zenon DEF Opens
  <2>7. QED
    BY <2>4, <2>5, <2>6
<1>5. CASE ~OpenNext /\ ~OpenFinal
  <2>1. UNCHANGED phase
    BY <1>5 DEF Next, vars, genVars, Deliver, Step, Refuse, Listen, Event, SourceEnds,
                EndEvent, SourceFails, BackendThrows, Cancel, End, Verdicts
  <2>2. QED
    BY <2>1 DEF IInv, AcceptedIffIntact, VerdictOfWire
<1>6. QED
  BY <1>3, <1>4, <1>5

LEMMA InvNext == IInv /\ [Next]_vars => IInv'
BY WireNext, TypeNext, PlaceNext, OpenedInvNext, ReleasedNext, VerdictNext DEF IInv

LEMMA Invariance == Spec => []IInv
BY InvInit, InvNext, PTL DEF Spec

(* The generator keeps its types; what it holds back between events is at  *)
(* most one frame.                                                         *)
THEOREM TypeCorrect == Spec => []TypeOK
<1>1. IInv => TypeOK
  BY DEF IInv
<1>2. QED
  BY <1>1, Invariance, PTL

(* A stream is accepted exactly when the bytes that arrived are, unchanged,*)
(* what a sealer of this chunk size wrote.                                 *)
THEOREM AcceptsIntact == Spec => []AcceptedIffIntact
<1>1. IInv => AcceptedIffIntact
  BY DEF IInv
<1>2. QED
  BY <1>1, Invariance, PTL

(* The verdict is the one of the whole wire, however it was cut.           *)
THEOREM VerdictIsOfWire == Spec => []VerdictOfWire
<1>1. IInv => VerdictOfWire
  BY DEF IInv
<1>2. QED
  BY <1>1, Invariance, PTL

-----------------------------------------------------------------------------
LEMMA OpeningInit == Init => Opening!Init
BY DEF Init, Opening!Init, Outcome, Terminal, Thrown

(* Every step releases the next chunk or none, and completes only with the *)
(* last.                                                                   *)
LEMMA OpeningNext ==
    IInv /\ [Next]_vars =>
      [Opening!Next]_<<SealedChunks, released, Outcome>>
<1> SUFFICES ASSUME IInv, [Next]_vars
             PROVE  Opening!Next \/ UNCHANGED <<SealedChunks, released, Outcome>>
  OBVIOUS
<1>1. WireType /\ ReleasedInv /\ UNCHANGED wireVars /\ counter \in Nat /\ sealed' = sealed
  BY WireNext DEF IInv, TypeOK, wireVars
<1>2. SealedChunks' = SealedChunks
  BY <1>1 DEF SealedChunks
<1>3. SealedChunks = Prefix(Len(sealed)) /\ Len(SealedChunks) = Len(sealed)
  <2>1. Len(sealed) \in 0..Len(sealed)
    BY <1>1, SealedCount
  <2>2. SealedChunks = Prefix(Len(sealed))
    BY <1>1, StreamFacts, Zenon DEF Prefix, SealedChunks
  <2>3. QED
    BY <1>1, <2>1, <2>2, PrefixFacts
<1>4. ASSUME NEW block, NEW last \in BOOLEAN, Opens(block, last), phase \in Running,
             released' = Append(released, Plaintext(counter)),
             phase' = (IF last THEN "Ok" ELSE "loop")
      PROVE  Opening!Next
  <2>1. /\ counter + 1 \in 1..Len(sealed) /\ (last <=> counter + 1 = Len(sealed))
        /\ released' = Prefix(counter + 1) /\ Len(released) = counter
    BY <1>1, <1>4, ReleaseNext
  <2>2. Len(released) < Len(SealedChunks)
    <3>1. counter < Len(sealed)
      BY <1>1, <2>1, SealedCount
    <3>2. QED
      BY <1>3, <2>1, <3>1, Zenon
  <2>3. Plaintext(counter) = SealedChunks[Len(released) + 1]
    BY <1>1, <2>1, StreamFacts DEF Plaintext, SealedChunks
  <2>4. Outcome = "open" /\ Outcome' = IF last THEN "complete" ELSE "open"
    BY <1>4 DEF Outcome, Running, Terminal, Thrown
  <2>5. last => released' = SealedChunks
    BY <1>3, <2>1
  <2>6. QED
    BY <1>2, <1>4, <2>2, <2>3, <2>4, <2>5 DEF Opening!Next, Opening!Release
<1>5. ASSUME UNCHANGED released, phase \in Running, phase' # "Ok"
      PROVE  Opening!Next \/ UNCHANGED <<SealedChunks, released, Outcome>>
  <2>1. Outcome = "open" /\ Outcome' \in {"open", "failed"}
    BY <1>5 DEF Outcome, Running, Terminal, Thrown
  <2>2. QED
    BY <1>2, <1>5, <2>1 DEF Opening!Next
<1>6. CASE OpenNext
  <2>1. CASE Opens(Block, FALSE)
    BY <1>4, <1>6, <2>1 DEF OpenNext, Open, GoOn, Running
  <2>2. CASE ~Opens(Block, FALSE)
    BY <1>5, <1>6, <2>2 DEF OpenNext, Open, GoOn, End, Running
  <2>3. QED
    BY <2>1, <2>2
<1>7. CASE OpenFinal
  <2>1. CASE Opens(carry, TRUE) /\ ~TailMissing
    BY <1>4, <1>7, <2>1 DEF OpenFinal, Open, End, Running
  <2>2. CASE TailMissing \/ ~Opens(carry, TRUE)
    BY <1>5, <1>7, <2>2 DEF OpenFinal, Open, End, Running
  <2>3. QED
    BY <2>1, <2>2
<1>8. CASE UNCHANGED vars
  BY <1>2, <1>8 DEF vars, genVars, Outcome
<1>9. CASE ~OpenNext /\ ~OpenFinal /\ Next
  BY <1>5, <1>9 DEF Next, Deliver, Step, Refuse, Listen, Event, SourceEnds, EndEvent,
                    SourceFails, BackendThrows, Cancel, End, Running
<1>10. QED
  BY <1>6, <1>7, <1>8, <1>9

(* The generator implements an opener of streams: whatever arrives, chunks *)
(* of the sealed plaintext come out in order, and normal completion means  *)
(* that all of them did.                                                   *)
THEOREM Implements == Spec => ReleasesInOrder
<1>1. Spec => Opening!Init /\ [][Opening!Next]_<<SealedChunks, released, Outcome>>
  BY OpeningInit, OpeningNext, Invariance, PTL DEF Spec
<1>2. QED
  BY <1>1 DEF ReleasesInOrder, Opening!Spec
=============================================================================
