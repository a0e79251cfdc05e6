---------------------------- MODULE StreamFrames ----------------------------
(***************************************************************************)
(* The data of the STREAM construction shared by every sealer and opener.  *)
(*                                                                         *)
(* A plaintext byte is the position it has in the source (1, 2, 3, ...),   *)
(* so the bytes of a chunk say where they come from.  A sealed frame is    *)
(* the record of what went into the AEAD: the chunk and the two parts of   *)
(* the nonce, the frame counter and the last flag.  Key, algorithm and     *)
(* associated data are the same for every frame of a stream.               *)
(***************************************************************************)
EXTENDS Integers, Sequences

CONSTANT ChunkSize          \* plaintext bytes of a full frame

ASSUME ChunkSizePositive == ChunkSize \in Nat \ {0}

Byte == Nat

Frame == [chunk : Seq(Byte), counter : Nat, last : BOOLEAN]

Seal(chunk, counter, last) ==
    [chunk |-> chunk, counter |-> counter, last |-> last]

(* The n source bytes that follow the first base ones.                     *)
Run(base, n) == [j \in 1..n |-> base + j]

(* Where the plaintext of the frame with this counter starts.              *)
Base(counter) == counter * ChunkSize

-----------------------------------------------------------------------------
(* The reference: the frames of a whole plaintext of n bytes.              *)

FrameCount(n) == IF n = 0 THEN 1 ELSE (n + ChunkSize - 1) \div ChunkSize

ChunkLength(n, counter) ==
    IF n - Base(counter) < ChunkSize THEN n - Base(counter) ELSE ChunkSize

Framing(n) ==
    [i \in 1..FrameCount(n) |->
        Seal(Run(Base(i - 1), ChunkLength(n, i - 1)), i - 1, i = FrameCount(n))]

(* A sealed stream: consecutive counters, only the final frame flagged,    *)
(* and that one empty only if it is alone.                                 *)
IsStream(fs) ==
    /\ fs \in Seq(Frame)
    /\ fs # << >>
    /\ \A i \in DOMAIN fs : fs[i].counter = i - 1 /\ (fs[i].last <=> i = Len(fs))
    /\ fs[Len(fs)].chunk = << >> => Len(fs) = 1
=============================================================================
