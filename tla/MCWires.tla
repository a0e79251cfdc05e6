------------------------------ MODULE MCWires ------------------------------
(* The streams and the wires TLC opens.  Every wire is a sequence of       *)
(* frames of the stream in any order, with repetitions and omissions, cut  *)
(* short anywhere, followed by foreign bytes or with one byte altered.     *)
EXTENDS Naturals, Sequences, SequencesExt

CONSTANTS Sizes,            \* plaintext lengths
          SealChunks,       \* chunk sizes the sealer may have used
          MaxPieces,        \* frames in a tampered wire
          MaxForeign,       \* foreign bytes appended
          Tag               \* tag length

F(c) == INSTANCE StreamFrames WITH ChunkSize <- c

MCStreams == {F(c)!Framing(n) : c \in SealChunks, n \in Sizes}

Cells(fs, i) == [p \in 1..(Len(fs[i].chunk) + Tag) |-> <<i, p>>]

Joined(fs, order) == FlattenSeq([k \in DOMAIN order |-> Cells(fs, order[k])])

Rearranged(fs) ==
    {Joined(fs, order) : order \in UNION {[1..m -> DOMAIN fs] : m \in 0..MaxPieces}}

Cut(w) == {SubSeq(w, 1, k) : k \in 0..Len(w)}

Extended(w) == {w \o [p \in 1..k |-> <<0, 0>>] : k \in 1..MaxForeign}

Altered(w) == {[w EXCEPT ![k] = <<0, 0>>] : k \in DOMAIN w}

MCReceived(fs) ==
    LET whole == Joined(fs, [i \in DOMAIN fs |-> i])
    IN  {whole} \union UNION {Cut(w) : w \in Rearranged(fs)}
          \union Extended(whole) \union Altered(whole)
          \union UNION {Extended(w) : w \in Cut(whole)}
=============================================================================
