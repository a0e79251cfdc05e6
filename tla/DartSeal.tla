------------------------------ MODULE DartSeal ------------------------------
(***************************************************************************)
(* PqForgeStream.seal: the async* generator that cuts a source of byte     *)
(* events, of whatever sizes, into frames.  It learns that a chunk is the  *)
(* last one only when the source ends, so a full chunk is held back in     *)
(* `pending' and what does not fill a chunk is kept in `carry'.            *)
(*                                                                         *)
(* The environment is the source (events of any size, an error, the end),  *)
(* the consumer (who may cancel) and the backend (whose aeadSeal may       *)
(* throw).  The generator is suspended on the source in phase "await"; the *)
(* other phases are places in its body.                                    *)
(***************************************************************************)
EXTENDS StreamFrames

CONSTANTS MaxBytes,         \* bound: bytes the source delivers in all
          MaxEvent          \* bound: bytes of one event

ASSUME SourceBounds == MaxBytes \in Nat /\ MaxEvent \in Nat

VARIABLES phase,            \* where the generator is
          counter,          \* frames sealed
          pending,          \* the full chunk held back, or NULL
          carry,            \* leftover, shorter than a chunk
          combined,         \* carry followed by the current event
          offset,           \* bytes of combined already taken
          consumed,         \* bytes the source has delivered
          ended,            \* the source reported its end
          out               \* the frames yielded

vars == <<phase, counter, pending, carry, combined, offset, consumed, ended, out>>

(* A chunk has ChunkSize > 0 bytes, so the empty one can stand for null.   *)
NULL == << >>

Running  == {"await", "loop", "flush", "tail"}
Terminal == {"done", "failed", "cancelled"}

Init ==
    /\ phase = "start"
    /\ counter = 0
    /\ pending = NULL
    /\ carry = << >>
    /\ combined = << >>
    /\ offset = 0
    /\ consumed = 0
    /\ ended = FALSE
    /\ out = << >>

-----------------------------------------------------------------------------
(* The caller listens: a chunkSize that is not positive is refused before  *)
(* the source is touched.                                                  *)
Refuse ==
    /\ phase = "start"
    /\ phase' = "failed"
    /\ UNCHANGED <<counter, pending, carry, combined, offset, consumed, ended, out>>

Listen ==
    /\ phase = "start"
    /\ phase' = "await"
    /\ UNCHANGED <<counter, pending, carry, combined, offset, consumed, ended, out>>

(* One event of n bytes, none included.                                    *)
Event(n) ==
    /\ phase = "await"
    /\ consumed + n <= MaxBytes
    /\ combined' = carry \o Run(consumed, n)
    /\ offset' = 0
    /\ consumed' = consumed + n
    /\ phase' = "loop"
    /\ UNCHANGED <<counter, pending, carry, ended, out>>

Remaining == Len(combined) - offset

YieldFrame(chunk, last) ==
    /\ out' = Append(out, Seal(chunk, counter, last))
    /\ counter' = counter + 1

(* mutant: the loop leaves a whole chunk in carry                          *)
FillsChunkStrictly == Remaining > ChunkSize

FillsChunk == Remaining >= ChunkSize

(* One round of the while loop: the chunk held back so far is not the      *)
(* last, since another one follows it.                                     *)
TakeChunk ==
    /\ phase = "loop"
    /\ FillsChunk
    /\ IF pending = NULL
         THEN UNCHANGED <<out, counter>>
         ELSE YieldFrame(pending, FALSE)
    /\ pending' = SubSeq(combined, offset + 1, offset + ChunkSize)
    /\ offset' = offset + ChunkSize
    /\ UNCHANGED <<phase, carry, combined, consumed, ended>>

(* mutant: what the previous event left over is not replaced               *)
EndEventStaleCarry ==
    /\ phase = "loop"
    /\ ~FillsChunk
    /\ phase' = "await"
    /\ UNCHANGED <<carry, counter, pending, combined, offset, consumed, ended, out>>

EndEvent ==
    /\ phase = "loop"
    /\ ~FillsChunk
    /\ carry' = SubSeq(combined, offset + 1, Len(combined))
    /\ phase' = "await"
    /\ UNCHANGED <<counter, pending, combined, offset, consumed, ended, out>>

SourceEnds ==
    /\ phase = "await"
    /\ ended' = TRUE
    /\ phase' = "flush"
    /\ UNCHANGED <<counter, pending, carry, combined, offset, consumed, out>>

(* mutant: an error of the source is taken for its end                     *)
SourceFailsAsEnd ==
    /\ phase = "await"
    /\ phase' = "flush"
    /\ UNCHANGED <<counter, pending, carry, combined, offset, consumed, ended, out>>

(* `await for' rethrows what the source reports: no frame follows.         *)
SourceFails ==
    /\ phase = "await"
    /\ phase' = "failed"
    /\ UNCHANGED <<counter, pending, carry, combined, offset, consumed, ended, out>>

-----------------------------------------------------------------------------
(* After the loop: what is left goes out, its final frame flagged.         *)

(* mutant: the held chunk is flagged although carry follows it             *)
FlushPendingFlagged ==
    /\ phase = "flush"
    /\ carry # << >>
    /\ pending # NULL
    /\ YieldFrame(pending, TRUE)
    /\ phase' = "tail"
    /\ UNCHANGED <<pending, carry, combined, offset, consumed, ended>>

(* carry is not empty and a chunk is held back: the chunk is not the last. *)
FlushPending ==
    /\ phase = "flush"
    /\ carry # << >>
    /\ pending # NULL
    /\ YieldFrame(pending, FALSE)
    /\ phase' = "tail"
    /\ UNCHANGED <<pending, carry, combined, offset, consumed, ended>>

FinalCarry ==
    /\ \/ phase = "flush" /\ carry # << >> /\ pending = NULL
       \/ phase = "tail"
    /\ YieldFrame(carry, TRUE)
    /\ phase' = "done"
    /\ UNCHANGED <<pending, carry, combined, offset, consumed, ended>>

FinalPending ==
    /\ phase = "flush"
    /\ carry = << >>
    /\ pending # NULL
    /\ YieldFrame(pending, TRUE)
    /\ phase' = "done"
    /\ UNCHANGED <<pending, carry, combined, offset, consumed, ended>>

(* Empty input: a single empty final frame.                                *)
FinalEmpty ==
    /\ phase = "flush"
    /\ carry = << >>
    /\ pending = NULL
    /\ YieldFrame(<< >>, TRUE)
    /\ phase' = "done"
    /\ UNCHANGED <<pending, carry, combined, offset, consumed, ended>>

-----------------------------------------------------------------------------
(* The backend throws out of a yield: counter++ has been evaluated, the    *)
(* frame does not go out and the generator ends with the error.            *)
SealThrows ==
    /\ \/ phase = "loop" /\ FillsChunk /\ pending # NULL
       \/ phase \in {"flush", "tail"}
    /\ counter' = counter + 1
    /\ phase' = "failed"
    /\ UNCHANGED <<pending, carry, combined, offset, consumed, ended, out>>

(* The consumer cancels; the generator ends at its next yield and nothing  *)
(* it does until then is observed, so the model ends it here.              *)
Cancel ==
    /\ phase \in Running
    /\ phase' = "cancelled"
    /\ UNCHANGED <<counter, pending, carry, combined, offset, consumed, ended, out>>

Step == TakeChunk \/ EndEvent \/ FlushPending \/ FinalCarry \/ FinalPending \/ FinalEmpty

Next ==
    \/ Refuse
    \/ Listen
    \/ \E n \in 0..MaxEvent : Event(n)
    \/ Step
    \/ SourceEnds
    \/ SourceFails
    \/ SealThrows
    \/ Cancel

Spec == Init /\ [][Next]_vars

-----------------------------------------------------------------------------
Chunk == Seq(Byte)

(* Type correctness of the generator's locals, with the two bounds the     *)
(* declarations' comments state: what is held back is a whole chunk, and   *)
(* the leftover is shorter than one.                                       *)
TypeOK ==
    /\ phase \in {"start"} \union Running \union Terminal
    /\ counter \in Nat
    /\ pending \in Chunk /\ (pending = NULL \/ Len(pending) = ChunkSize)
    /\ carry \in Chunk /\ Len(carry) < ChunkSize
    /\ combined \in Chunk
    /\ offset \in 0..Len(combined)
    /\ consumed \in Nat
    /\ ended \in BOOLEAN
    /\ out \in Seq(Frame)

(* A stream that completes holds the framing of exactly the bytes the      *)
(* source delivered, however they were cut into events: none lost, doubled *)
(* or reordered, counters consecutive, only the final frame flagged.       *)
SealedWhole == phase = "done" => out = Framing(consumed)

(* A final frame is only written for a source that reported its end: a     *)
(* source that fails, or a consumer that leaves, never produces a stream   *)
(* that a reader would take for complete.                                  *)
ClosedOnlyAtEnd == \A i \in DOMAIN out : out[i].last => ended

(* The generator streams: when it waits for the source it holds back fewer *)
(* than two chunks, so at any time output lags input by less than that.    *)
LagBounded == phase = "await" => consumed - Base(Len(out)) < 2 * ChunkSize

(* At every moment, not only on completion, what was yielded is a prefix   *)
(* of a well-formed stream: the generator implements the wire format.      *)
Format == INSTANCE StreamFormat WITH frames <- out
WireFormat == Format!Spec
=============================================================================
