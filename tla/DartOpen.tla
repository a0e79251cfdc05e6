------------------------------ MODULE DartOpen ------------------------------
(***************************************************************************)
(* PqForgeStream.open: the async* generator that turns events of           *)
(* ciphertext, of whatever sizes, back into plaintext chunks.  A frame is  *)
(* opened as not-last only when bytes are known to follow it; the trailing *)
(* CipherChunk bytes are held back as the possible final frame.            *)
(***************************************************************************)
EXTENDS StreamWire

VARIABLES phase,            \* where the generator is
          taken,            \* bytes of the wire delivered by the source
          counter,          \* frames opened
          carry,            \* bytes held back between events
          combined,         \* carry followed by the current event
          offset,           \* bytes of combined already opened
          sawAnyByte,       \* some event was not empty
          released          \* the chunks yielded to the consumer

genVars == <<phase, taken, counter, carry, combined, offset, sawAnyByte, released>>
vars == <<wireVars, genVars>>

(* The phases that end the generator are named by what the consumer sees.  *)
Thrown   == {"AuthFailed", "InvalidCiphertext", "BackendError", "SourceError",
             "ArgumentError"}
Terminal == Thrown \union {"Ok", "cancelled"}

(* Those that are a verdict on the bytes received.                         *)
Verdicts == {"Ok", "AuthFailed", "InvalidCiphertext"}

Init ==
    /\ WireInit
    /\ phase = "start"
    /\ taken = 0
    /\ counter = 0
    /\ carry = << >>
    /\ combined = << >>
    /\ offset = 0
    /\ sawAnyByte = FALSE
    /\ released = << >>

End(verdict) ==
    /\ phase' = verdict
    /\ UNCHANGED <<taken, carry, combined, offset, sawAnyByte>>

(* A chunkSize that is not positive is refused first.                      *)
Refuse ==
    /\ phase = "start"
    /\ End("ArgumentError")
    /\ UNCHANGED <<counter, released, wireVars>>

Listen ==
    /\ phase = "start"
    /\ phase' = "await"
    /\ UNCHANGED <<taken, counter, carry, combined, offset, sawAnyByte, released, wireVars>>

(* One event of n bytes, none included.                                    *)
Event(n) ==
    /\ phase = "await"
    /\ taken + n <= Len(wire)
    /\ combined' = carry \o SubSeq(wire, taken + 1, taken + n)
    /\ offset' = 0
    /\ taken' = taken + n
    /\ sawAnyByte' = (sawAnyByte \/ n > 0)
    /\ phase' = "loop"
    /\ UNCHANGED <<counter, carry, released, wireVars>>

(* mutant: a frame is not last as soon as it is complete                   *)
MoreFollowsNonStrict == Len(combined) - offset >= CipherChunk

MoreFollows == Len(combined) - offset > CipherChunk

Block == SubSeq(combined, offset + 1, offset + CipherChunk)

(* mutant: the last flag is not bound to the final frame                   *)
OpensAnyFlag(block, last) ==
    Authentic(block, counter, TRUE) \/ Authentic(block, counter, FALSE)

Opens(block, last) == Authentic(block, counter, last)

(* aeadOpen throws on a block that does not authenticate; nothing of it is *)
(* yielded.                                                                *)
Open(block, last) ==
    IF Opens(block, last)
      THEN released' = Append(released, Plaintext(counter))
      ELSE UNCHANGED released

(* mutant: a block that fails is skipped and the next one opened           *)
GoOnAnyway(opened) ==
    /\ offset' = offset + CipherChunk
    /\ UNCHANGED <<phase, taken, carry, combined, sawAnyByte>>

(* The exception of a block that fails ends the generator.                 *)
GoOn(opened) ==
    IF opened
      THEN /\ offset' = offset + CipherChunk
           /\ UNCHANGED <<phase, taken, carry, combined, sawAnyByte>>
      ELSE End("AuthFailed")

(* One round of the while loop.                                            *)
OpenNext ==
    /\ phase = "loop"
    /\ MoreFollows
    /\ counter' = counter + 1
    /\ Open(Block, FALSE)
    /\ GoOn(Opens(Block, FALSE))
    /\ UNCHANGED wireVars

(* mutant: carry keeps the blocks that were opened                         *)
RestWithOpened == combined

Rest == SubSeq(combined, offset + 1, Len(combined))

EndEvent ==
    /\ phase = "loop"
    /\ ~MoreFollows
    /\ carry' = Rest
    /\ phase' = "await"
    /\ UNCHANGED <<taken, counter, combined, offset, sawAnyByte, released, wireVars>>

(* The source ends where the wire ends, or reports an error at any time.   *)
SourceEnds ==
    /\ phase = "await"
    /\ taken = Len(wire)
    /\ phase' = "final"
    /\ UNCHANGED <<taken, counter, carry, combined, offset, sawAnyByte, released, wireVars>>

SourceFails ==
    /\ phase = "await"
    /\ End("SourceError")
    /\ UNCHANGED <<counter, released, wireVars>>

(* mutant: the tail is opened without looking at its length                *)
TailMissingIfEmpty == ~sawAnyByte

TailMissing == ~sawAnyByte \/ Len(carry) < TagLen

(* What is left is the final frame.                                        *)
OpenFinal ==
    /\ phase = "final"
    /\ IF TailMissing
         THEN End("InvalidCiphertext") /\ UNCHANGED <<counter, released>>
         ELSE /\ counter' = counter + 1
              /\ Open(carry, TRUE)
              /\ End(IF Opens(carry, TRUE) THEN "Ok" ELSE "AuthFailed")
    /\ UNCHANGED wireVars

(* aeadOpen throws something else (a key of the wrong length, an internal  *)
(* error): no chunk is yielded.                                            *)
BackendThrows ==
    /\ \/ phase = "loop" /\ MoreFollows
       \/ phase = "final" /\ ~TailMissing
    /\ counter' = counter + 1
    /\ End("BackendError")
    /\ UNCHANGED <<released, wireVars>>

Cancel ==
    /\ phase \in {"await", "loop", "final"}
    /\ End("cancelled")
    /\ UNCHANGED <<counter, released, wireVars>>

Step == OpenNext \/ EndEvent \/ OpenFinal

Deliver == (\E n \in 0..Len(wire) : Event(n)) \/ SourceEnds

Next ==
    \/ Refuse
    \/ Listen
    \/ Deliver
    \/ Step
    \/ SourceFails
    \/ BackendThrows
    \/ Cancel

Spec == Init /\ [][Next]_vars

-----------------------------------------------------------------------------
(* Type correctness; between events no more than one frame is held back.   *)
TypeOK ==
    /\ phase \in {"start", "await", "loop", "final"} \union Terminal
    /\ taken \in 0..Len(wire)
    /\ counter \in Nat
    /\ carry \in Seq(Cell) /\ Len(carry) <= CipherChunk
    /\ combined \in Seq(Cell)
    /\ offset \in 0..Len(combined)
    /\ sawAnyByte \in BOOLEAN
    /\ released \in Seq(Seq(Byte))

(* The consumer only ever sees chunks of the sealed plaintext, in order    *)
(* and from its start, whatever arrives and at every moment, also when the *)
(* stream later fails to authenticate; and it sees the stream end normally *)
(* only after the whole of it, with nothing after that.                    *)
Outcome ==
    IF phase = "Ok" THEN "complete" ELSE IF phase \in Terminal THEN "failed" ELSE "open"
Opening == INSTANCE StreamOpening WITH chunks <- SealedChunks, verdict <- Outcome
ReleasesInOrder == Opening!Spec

(* A verdict on the bytes is right for every byte of them: the stream ends *)
(* normally exactly when the wire is what a sealer of the same chunkSize   *)
(* wrote.  Truncated, extended, reordered or altered, it always ends in an *)
(* exception; delivered unchanged, it never does, however it is cut into   *)
(* events.                                                                 *)
AcceptedIffIntact ==
    phase \in Verdicts => (phase = "Ok" <=> IsIntact(wire))

(* How the wire is cut into events does not matter: the generator ends the *)
(* way the reference says for the whole wire.                              *)
VerdictOfWire == phase \in Verdicts => phase = Verdict
=============================================================================
