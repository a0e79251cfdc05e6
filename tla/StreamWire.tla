----------------------------- MODULE StreamWire -----------------------------
(***************************************************************************)
(* What an opener receives.  One stream has been sealed under the key (a   *)
(* key is used for one stream only); the bytes that arrive are whatever    *)
(* the channel or the disk made of it: cut, extended, reordered, repeated  *)
(* or altered.                                                             *)
(*                                                                         *)
(* A received byte is named by the sealed frame it comes from and its      *)
(* place in that frame; the AEAD is ideal: a block opens under a nonce     *)
(* only if it is, byte for byte, the frame sealed under that nonce, and    *)
(* nothing opens when key, algorithm or associated data differ.            *)
(***************************************************************************)
EXTENDS StreamFrames

CONSTANTS TagLen,           \* bytes the AEAD adds to a chunk
          Streams,          \* the streams a sealer may have produced
          Received(_)       \* the wires that may arrive for a stream

Cell == Nat \X Nat
Foreign == <<0, 0>>         \* a byte the sealer did not write

ASSUME TagLenPositive == TagLen \in Nat \ {0}
ASSUME StreamsSealed == \A fs \in Streams : IsStream(fs)
ASSUME WiresAreCells == \A fs \in Streams : Received(fs) \subseteq Seq(Cell)

VARIABLES sealed,           \* the stream that was sealed
          sameKey,          \* key, algorithm and aad are the sealer's
          wire              \* the bytes that arrive

wireVars == <<sealed, sameKey, wire>>

CipherChunk == ChunkSize + TagLen

FrameBytes(fs, i) == [p \in 1..(Len(fs[i].chunk) + TagLen) |-> <<i, p>>]

WireInit ==
    /\ sealed \in Streams
    /\ sameKey \in BOOLEAN
    /\ wire \in Received(sealed)

(* open_in_place under the nonce (counter, last) accepts block.            *)
Authentic(block, counter, last) ==
    /\ sameKey
    /\ counter + 1 \in DOMAIN sealed
    /\ sealed[counter + 1].last = last
    /\ block = FrameBytes(sealed, counter + 1)

Plaintext(counter) == sealed[counter + 1].chunk

SealedChunks == [i \in DOMAIN sealed |-> sealed[i].chunk]

-----------------------------------------------------------------------------
(* The reference both openers are compared with: cut the whole wire into   *)
(* pieces of CipherChunk bytes, the last one perhaps shorter.              *)

PieceCount == (Len(wire) + CipherChunk - 1) \div CipherChunk

Piece(i) ==
    SubSeq(wire, (i - 1) * CipherChunk + 1,
           IF i = PieceCount THEN Len(wire) ELSE i * CipherChunk)

Verdict ==
    LET long == {i \in 1..PieceCount : Len(Piece(i)) >= TagLen}
    IN  IF \E i \in long : ~Authentic(Piece(i), i - 1, i = PieceCount)
          THEN "AuthFailed"
        ELSE IF PieceCount \in long THEN "Ok" ELSE "InvalidCiphertext"

(* The bytes w are, unchanged, what a sealer with this chunkSize wrote.    *)
IsIntact(w) ==
    LET n == Len(sealed)
        size(i) == Len(sealed[i].chunk) + TagLen
    IN  /\ sameKey
        /\ \A i \in 1..(n - 1) : size(i) = CipherChunk
        /\ size(n) <= CipherChunk
        /\ Len(w) = (n - 1) * CipherChunk + size(n)
        /\ \A i \in 1..n :
             SubSeq(w, (i - 1) * CipherChunk + 1, (i - 1) * CipherChunk + size(i))
               = FrameBytes(sealed, i)
=============================================================================
