------------------------------ MODULE FileOpen ------------------------------
(***************************************************************************)
(* pqforge_stream_open_file: opens a sealed file frame by frame, reading   *)
(* one block ahead to know whether the held one is the last.  The input    *)
(* file holds the wire, of which a part may only be appended while the     *)
(* call runs.                                                              *)
(***************************************************************************)
EXTENDS FilePipeline, StreamWire

CONSTANT Growing            \* whether the input may be extended

ASSUME GrowingBoolean == Growing \in BOOLEAN

VARIABLE written            \* the chunks written to the output

vars == <<wireVars, pipelineVars, written>>

Init ==
    /\ WireInit
    /\ PipelineInit({SubSeq(wire, 1, k) : k \in (IF Growing THEN 0 ELSE Len(wire))..Len(wire)})
    /\ written = << >>

OpenEmpty ==
    /\ pc = "first"
    /\ BlockEnds(CipherChunk)
    /\ buf = << >>
    /\ Return("InvalidCiphertext")
    /\ UNCHANGED <<failing, input, grown, pos, buf, held, counter>>

(* A held block shorter than a tag is refused before the next read.        *)
TooShort ==
    /\ pc = "next"
    /\ Len(held) < TagLen
    /\ Return("InvalidCiphertext")
    /\ UNCHANGED <<failing, input, grown, pos, buf, held, counter>>

(* mutant: a frame is the last one when it is short, and only then         *)
IsLastByLength == Len(held) < CipherChunk

IsLast == Len(held) < CipherChunk \/ buf = << >>

(* mutant: bytes after the final frame are ignored                         *)
DataAfterLastIgnored == FALSE

DataAfterLast == IsLast /\ buf # << >>

(* mutant: a frame that fails is skipped and the next one opened           *)
RejectSkips == Advance(IsLast)

Reject == Return("AuthFailed") /\ UNCHANGED <<counter, held, buf>>

(* open_frame, next_counter, and the test for data after the final frame.  *)
OpenFrame ==
    /\ pc = "frame"
    /\ IF ~Authentic(held, counter, IsLast)
         THEN Reject /\ UNCHANGED written
         ELSE /\ written' = Append(written, Plaintext(counter))
              /\ IF DataAfterLast /\ ~Overflows
                   THEN /\ Return("InvalidCiphertext")
                        /\ counter' = counter + 1
                        /\ UNCHANGED <<held, buf>>
                   ELSE Advance(IsLast)
    /\ UNCHANGED <<failing, input, grown, pos>>

(* More of the wire is appended to the file.                               *)
Grow ==
    /\ pc \notin {"check", "returned"}
    /\ \E k \in (Len(input) + 1)..Len(wire) : input' = SubSeq(wire, 1, k)
    /\ grown' = TRUE
    /\ UNCHANGED <<pc, failing, pos, buf, held, counter, status, written>>

Quiet ==
    \/ Check
    \/ /\ pc = "next" => Len(held) >= TagLen
       /\ ReadSome(CipherChunk) \/ NextRead(CipherChunk)
    \/ FirstHeld(CipherChunk)
    \/ OpenEmpty
    \/ TooShort
    \/ Flush

Step ==
    /\ OpenFrame \/ (Quiet /\ UNCHANGED written)
    /\ UNCHANGED wireVars

Next ==
    \/ Step
    \/ Fails /\ UNCHANGED <<written, wireVars>>
    \/ Grow /\ UNCHANGED wireVars

(* The call is synchronous: its thread keeps running until it returns.     *)
Spec == Init /\ [][Next]_vars /\ WF_vars(Step)

-----------------------------------------------------------------------------
(* Type correctness: no block is longer than a sealed frame.               *)
TypeOK ==
    /\ pc \in Places
    /\ failing \in SUBSET DOMAIN Checks
    /\ input \in Seq(Cell)
    /\ grown \in BOOLEAN
    /\ pos \in 0..Len(input)
    /\ buf \in Seq(Cell) /\ Len(buf) <= CipherChunk
    /\ held \in Seq(Cell) /\ Len(held) <= CipherChunk
    /\ counter \in 0..MaxCounter
    /\ status \in {NONE, "Ok", "InvalidKey", "NullArgument", "Unaligned", "Io",
                   "Internal", "AuthFailed", "InvalidCiphertext"}
    /\ written \in Seq(Seq(Byte))

(* Whatever the file holds, the output file holds chunks of the sealed     *)
(* plaintext from its start, a prefix when the call fails, and the whole   *)
(* of it when the call reports Ok; nothing is written after that.          *)
Outcome ==
    IF status = "Ok" THEN "complete" ELSE IF status = NONE THEN "open" ELSE "failed"
Opening == INSTANCE StreamOpening WITH
    chunks <- SealedChunks, released <- written, verdict <- Outcome
ReleasesInOrder == Opening!Spec

(* Ok means that all that was read is the sealed stream, also when the     *)
(* input is extended while it is read: bytes that show up after the final  *)
(* frame are an error.                                                     *)
AcceptedWhole == status = "Ok" => IsIntact(SubSeq(input, 1, pos))

(* On a file that stays as it is, the call reports what the reference says *)
(* of its bytes, unless it fails for another reason: with the same         *)
(* property of the Dart generator, the two openers agree on every input.   *)
VerdictOfWire ==
    failing = {} /\ ~grown /\ input = wire
        /\ status \in {"Ok", "AuthFailed", "InvalidCiphertext"} => status = Verdict

(* The call returns.                                                       *)
Returns == <>(pc = "returned")
=============================================================================
