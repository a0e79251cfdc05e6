------------------------------ MODULE FileSeal ------------------------------
(***************************************************************************)
(* pqforge_stream_seal_file: seals an input file frame by frame, reading   *)
(* one block ahead so that the final frame can be flagged.                 *)
(***************************************************************************)
EXTENDS FilePipeline, StreamNonce

CONSTANTS MaxBytes,         \* bound: length of the input file when opened
          MaxGrowth         \* bound: bytes appended to it during the call

ASSUME FileBounds == MaxBytes \in Nat /\ MaxGrowth \in Nat
ASSUME CounterFits == MaxCounter = Power[CounterBytes] - 1

VARIABLE out                \* the frames written

vars == <<pipelineVars, out>>

Init ==
    /\ PipelineInit({Run(0, n) : n \in 0..MaxBytes})
    /\ out = << >>

(* Empty input: a single empty final frame.                                *)
SealEmpty ==
    /\ pc = "first"
    /\ BlockEnds(ChunkSize)
    /\ buf = << >>
    /\ out' = Append(out, Seal(<< >>, counter, TRUE))
    /\ pc' = "flush"
    /\ UNCHANGED <<failing, input, grown, pos, buf, held, counter, status>>

(* mutant: a short block is taken for the last one, whatever follows       *)
IsLastByLength == Len(held) < ChunkSize \/ Len(buf) < ChunkSize

(* The held block is the last one iff nothing was read after it.           *)
IsLast == buf = << >>

SealFrame ==
    /\ pc = "frame"
    /\ out' = Append(out, Seal(held, counter, IsLast))
    /\ Advance(IsLast)
    /\ UNCHANGED <<failing, input, grown, pos>>

(* Another process appends to the input file.                              *)
Grow ==
    /\ pc \notin {"check", "returned"}
    /\ \E n \in 1..MaxGrowth :
         /\ Len(input) + n <= MaxBytes + MaxGrowth
         /\ input' = input \o Run(Len(input), n)
    /\ grown' = TRUE
    /\ UNCHANGED <<pc, failing, pos, buf, held, counter, status, out>>

Step ==
    \/ SealEmpty
    \/ SealFrame
    \/ /\ \/ Check
          \/ ReadSome(ChunkSize)
          \/ FirstHeld(ChunkSize)
          \/ NextRead(ChunkSize)
          \/ Flush
       /\ UNCHANGED out

Next ==
    \/ Step
    \/ Fails /\ UNCHANGED out
    \/ Grow

(* The call is synchronous: its thread keeps running until it returns.     *)
Spec == Init /\ [][Next]_vars /\ WF_vars(Step)

-----------------------------------------------------------------------------
(* Type correctness: no block is longer than a chunk and the counter       *)
(* keeps its width.                                                        *)
TypeOK ==
    /\ pc \in Places
    /\ failing \in SUBSET DOMAIN Checks
    /\ input \in Seq(Byte)
    /\ grown \in BOOLEAN
    /\ pos \in 0..Len(input)
    /\ buf \in Seq(Byte) /\ Len(buf) <= ChunkSize
    /\ held \in Seq(Byte) /\ Len(held) <= ChunkSize
    /\ counter \in 0..MaxCounter
    /\ status \in {NONE, "Ok", "InvalidKey", "NullArgument", "Unaligned", "Io", "Internal"}
    /\ out \in Seq(Frame)

(* A call that reports Ok has written the framing of the whole file, for   *)
(* every way the reads were cut short.                                     *)
SealedWhole == status = "Ok" /\ ~grown => out = Framing(Len(input))

(* As long as the input does not change under it, the native sealer        *)
(* implements the same wire format as the Dart generator.                  *)
Format == INSTANCE StreamFormat WITH frames <- out
WireFormat == Format!Init /\ [][grown \/ Format!Next]_out

NonceOf(frame) == stream_nonce(frame.counter, frame.last)

(* No nonce is used twice under the key of the file, even when the input   *)
(* grows during the call and up to the last counter there is.              *)
NonceOnce == \A i, j \in DOMAIN out : NonceOf(out[i]) = NonceOf(out[j]) => i = j

(* "Byte-identical to the Dart nonce": exactly as long as Dart's int holds *)
(* the counter.  Up to there each frame gets the nonce that the Dart side  *)
(* would use for the frame at its place, so that the two sides open each   *)
(* other's streams; past it Dart's loop leaves the counter field empty.    *)
NonceAgrees ==
    \A i \in DOMAIN out :
        NonceOf(out[i]) = _nonce(i - 1, out[i].last) <=> i - 1 <= maxInt

(* Also when the input grows, the chunks written are consecutive pieces of *)
(* the file from its start: no byte is skipped or sealed twice.            *)
SealedInOrder ==
    \A i \in DOMAIN out :
        LET end(k) == IF k = 0 \/ out[k].chunk = << >> THEN 0
                      ELSE out[k].chunk[Len(out[k].chunk)]
        IN  out[i].chunk = Run(end(i - 1), Len(out[i].chunk))

(* What the class comment of PqForgeFileCipher says of every file sealed   *)
(* here, "a file sealed here opens with the streaming layer": a sealed     *)
(* file is the framing of some plaintext.                                  *)
SealedFileOpens ==
    status = "Ok" => \E n \in 0..Len(input) : out = Framing(n)

(* The call returns.                                                       *)
Returns == <>(pc = "returned")
=============================================================================
