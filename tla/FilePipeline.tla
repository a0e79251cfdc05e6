---------------------------- MODULE FilePipeline ----------------------------
(***************************************************************************)
(* What pqforge_stream_seal_file and pqforge_stream_open_file share: the   *)
(* checks on the request, read_block over a reader that may return short   *)
(* counts, the frame counter of fixed width, and the status handed back    *)
(* through finish(guard(..)).                                              *)
(*                                                                         *)
(* The input file is a sequence of bytes that another process may extend   *)
(* while it is read: read() returning 0 says that there is nothing more    *)
(* now, not that there never will be.                                      *)
(***************************************************************************)
EXTENDS StreamFrames

CONSTANTS MaxCounter,       \* the largest u64
          Requests          \* the sets of checks that a request may fail

ASSUME CounterWidth == MaxCounter \in Nat

VARIABLES pc,               \* place in the handler
          failing,          \* the checks this request does not pass
          input,            \* contents of the input file
          grown,            \* the input was extended during the call
          pos,              \* how much of it the reader has returned
          buf,              \* what the current read_block has collected
          held,             \* the block read before it
          counter,          \* frame counter
          status            \* what the call returned, NONE before

pipelineVars == <<pc, failing, input, grown, pos, buf, held, counter, status>>

NONE == "none"

Places == {"check", "first", "next", "frame", "flush", "returned"}

(* The handler's checks in their order and what each returns: algorithm    *)
(* id, null pointers, chunk size, UTF-8 of the paths, key length, opening  *)
(* the input; creating (and truncating) the output comes last.             *)
Checks == << "InvalidKey", "NullArgument", "Unaligned", "Io", "InvalidKey",
             "Io", "Io" >>

ASSUME RequestsFailChecks == Requests \subseteq SUBSET DOMAIN Checks

FirstFailing == CHOOSE i \in failing : \A j \in failing : i <= j

PipelineInit(files) ==
    /\ pc = "check"
    /\ failing \in Requests
    /\ input \in files
    /\ grown = FALSE
    /\ pos = 0
    /\ buf = << >>
    /\ held = << >>
    /\ counter = 0
    /\ status = NONE

Return(code) == pc' = "returned" /\ status' = code

Check ==
    /\ pc = "check"
    /\ IF failing # {}
         THEN Return(Checks[FirstFailing])
         ELSE pc' = "first" /\ UNCHANGED status
    /\ UNCHANGED <<failing, input, grown, pos, buf, held, counter>>

-----------------------------------------------------------------------------
(* read_block(reader, size): read until size bytes are there or a read     *)
(* returns 0.  The block is None when it is empty.                         *)

(* mutant: a short count is taken for the end of the file                  *)
BlockEndsShort(size) == buf # << >> \/ pos = Len(input)

(* mutant: a read of 0 bytes does not leave the loop                       *)
BlockEndsFull(size) == Len(buf) = size

BlockEnds(size) == Len(buf) = size \/ pos = Len(input)

(* mutant: the slice handed to read is one byte too long                   *)
RoomOver(size) == size - Len(buf) + 1

Room(size) == size - Len(buf)

ReadSome(size) ==
    /\ pc \in {"first", "next"}
    /\ Len(buf) < size
    /\ \E n \in 1..Room(size) :
         /\ pos + n <= Len(input)
         /\ buf' = buf \o SubSeq(input, pos + 1, pos + n)
         /\ pos' = pos + n
    /\ UNCHANGED <<pc, failing, input, grown, held, counter, status>>

(* mutant: the next block is not collected in a buffer of its own          *)
UsedBlock == buf

FreshBlock == << >>

(* The first block becomes the held one and the next is asked for.         *)
FirstHeld(size) ==
    /\ pc = "first"
    /\ BlockEnds(size)
    /\ buf # << >>
    /\ held' = buf
    /\ buf' = FreshBlock
    /\ pc' = "next"
    /\ UNCHANGED <<failing, input, grown, pos, counter, status>>

NextRead(size) ==
    /\ pc = "next"
    /\ BlockEnds(size)
    /\ pc' = "frame"
    /\ UNCHANGED <<failing, input, grown, pos, buf, held, counter, status>>

(* mutant: the counter wraps                                               *)
OverflowsNever == FALSE

Overflows == counter = MaxCounter

(* After a frame: the counter moves on or the call gives up, and the block *)
(* read ahead is held unless the frame was the last one.                   *)
Advance(last) ==
    IF Overflows
      THEN Return("Internal") /\ UNCHANGED <<counter, held, buf>>
      ELSE /\ counter' = (counter + 1) % (MaxCounter + 1)
           /\ held' = IF last THEN held ELSE buf
           /\ buf' = FreshBlock
           /\ pc' = IF last THEN "flush" ELSE "next"
           /\ UNCHANGED status

(* read, write_all or flush reports an error; or the body panics (a block  *)
(* too large to allocate) or the AEAD fails, which guard and finish make   *)
(* Internal.                                                               *)
Fails ==
    /\ pc \in {"first", "next", "frame", "flush"}
    /\ \E code \in {"Io", "Internal"} : Return(code)
    /\ UNCHANGED <<failing, input, grown, pos, buf, held, counter>>

Flush ==
    /\ pc = "flush"
    /\ Return("Ok")
    /\ UNCHANGED <<failing, input, grown, pos, buf, held, counter>>
=============================================================================
