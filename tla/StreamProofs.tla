---------------------------- MODULE StreamProofs ----------------------------
(***************************************************************************)
(* Lemmas about the data of a stream: the frames of StreamFrames, cited by *)
(* the proofs about the two sealers, and the wires of StreamWire, cited by *)
(* the proofs about the two openers (pieces of a wire, and what frames     *)
(* opened one by one say of the whole).                                    *)
(***************************************************************************)
EXTENDS StreamWire, SequenceTheorems, TLAPS

(* Base counts whole chunks: it starts at 0 and grows by one chunk, which  *)
(* is how the offset of the next frame moves.                              *)
LEMMA BaseStep ==
    /\ Base(0) = 0
    /\ \A n \in Nat : Base(n) \in Nat /\ Base(n + 1) = Base(n) + ChunkSize
<1>1. Base(0) = 0
  BY ChunkSizePositive DEF Base
<1>2. ASSUME NEW n \in Nat
      PROVE  Base(n) \in Nat /\ Base(n + 1) = Base(n) + ChunkSize
  BY ChunkSizePositive DEF Base
<1>3. QED
  BY <1>1, <1>2

LEMMA BasePrevious ==
    \A n \in Nat \ {0} :
        n - 1 \in Nat /\ Base(n - 1) \in Nat /\ Base(n) = Base(n - 1) + ChunkSize
<1>1. ASSUME NEW n \in Nat \ {0}
      PROVE  n - 1 \in Nat /\ Base(n - 1) \in Nat /\ Base(n) = Base(n - 1) + ChunkSize
  BY ChunkSizePositive DEF Base
<1>2. QED
  BY <1>1

LEMMA BaseMonotonic ==
    ASSUME NEW m \in Nat, NEW n \in Nat, m <= n
    PROVE  Base(m) <= Base(n)
<1>1. (n - m) * ChunkSize >= 0
  BY ChunkSizePositive
<1>2. n * ChunkSize = m * ChunkSize + (n - m) * ChunkSize
  BY ChunkSizePositive
<1>3. QED
  BY <1>1, <1>2, ChunkSizePositive DEF Base

(* A run of n bytes is a sequence of length n.                             *)
LEMMA RunIsSeq ==
    ASSUME NEW b \in Nat, NEW n \in Nat
    PROVE  Run(b, n) \in Seq(Byte) /\ Len(Run(b, n)) = n
           /\ \A j \in 1..n : Run(b, n)[j] = b + j
BY DEF Run, Byte

(* Consecutive runs join into one, as _concat of carry and an event does.  *)
LEMMA RunConcat ==
    ASSUME NEW b \in Nat, NEW m \in Nat, NEW n \in Nat
    PROVE  Run(b, m) \o Run(b + m, n) = Run(b, m + n)
BY DEF Run

(* A piece of a run is a run, as sublistView of combined is.               *)
LEMMA RunSub ==
    ASSUME NEW b \in Nat, NEW n \in Nat, NEW k \in Nat, NEW m \in Nat, k + m <= n
    PROVE  SubSeq(Run(b, n), k + 1, k + m) = Run(b + k, m)
BY DEF Run

(* The empty run is the empty sequence.                                    *)
LEMMA RunEmpty == \A b \in Nat : Run(b, 0) = << >>
BY DEF Run

-----------------------------------------------------------------------------
(* The two kinds of frame, and the one a well-formed stream has at k.      *)
Inner(chunk, k) == Seal(chunk, k, FALSE)
Final(chunk, k) == Seal(chunk, k, TRUE)
FullAt(k) == Inner(Run(Base(k), ChunkSize), k)
LastAt(k, n) == Final(Run(Base(k), n), k)

(* The first n frames of fs are full ones with consecutive counters.       *)
FullFrames(fs, n) == \A i \in 1..n : fs[i] = FullAt(i - 1)

(* fs is full frames followed by a flagged frame of n bytes.               *)
EndsWith(fs, n) ==
    /\ Len(fs) \in Nat \ {0}
    /\ FullFrames(fs, Len(fs) - 1)
    /\ fs[Len(fs)] = LastAt(Len(fs) - 1, n)

(* Sealing a chunk gives a frame.                                          *)
LEMMA SealIsFrame ==
    ASSUME NEW chunk \in Seq(Byte), NEW k \in Nat
    PROVE  Inner(chunk, k) \in Frame /\ Final(chunk, k) \in Frame
BY DEF Inner, Final, Seal, Frame

LEMMA NextIsFrame ==
    ASSUME NEW k \in Nat, NEW n \in Nat
    PROVE  FullAt(k) \in Frame /\ LastAt(k, n) \in Frame
BY BaseStep, RunIsSeq, SealIsFrame, ChunkSizePositive DEF FullAt, LastAt

(* Appending a frame: where it is, and what was there before.              *)
LEMMA AppendFrame ==
    ASSUME NEW fs \in Seq(Frame), NEW f \in Frame
    PROVE  /\ Append(fs, f) \in Seq(Frame)
           /\ Len(fs) \in Nat
           /\ Len(Append(fs, f)) = Len(fs) + 1
           /\ Append(fs, f)[Len(fs) + 1] = f
           /\ \A i \in 1..Len(fs) : Append(fs, f)[i] = fs[i]
BY AppendProperties

(* Appending the next full frame to full frames leaves full frames.        *)
LEMMA AppendFull ==
    ASSUME NEW fs \in Seq(Frame), FullFrames(fs, Len(fs))
    PROVE  LET gs == Append(fs, FullAt(Len(fs)))
           IN  FullFrames(gs, Len(gs))
<1> DEFINE gs == Append(fs, FullAt(Len(fs)))
<1>1. /\ Len(fs) \in Nat
      /\ Len(gs) = Len(fs) + 1
      /\ gs[Len(fs) + 1] = FullAt(Len(fs))
      /\ \A i \in 1..Len(fs) : gs[i] = fs[i]
  BY NextIsFrame, AppendFrame
<1>2. ASSUME NEW i \in 1..Len(gs)
      PROVE  gs[i] = FullAt(i - 1)
  <2>1. CASE i = Len(fs) + 1
    <3>1. i - 1 = Len(fs)
      BY <1>1, <2>1
    <3>2. QED
      BY <1>1, <2>1, <3>1, Zenon
  <2>2. CASE i # Len(fs) + 1
    <3>1. i \in 1..Len(fs)
      BY <1>1, <2>2
    <3>2. QED
      BY <1>1, <3>1, Zenon DEF FullFrames
  <2>3. QED
    BY <2>1, <2>2
<1>3. QED
  BY <1>2, Zenon DEF FullFrames

(* Appending a flagged frame to full frames ends the stream.               *)
LEMMA AppendLast ==
    ASSUME NEW fs \in Seq(Frame), FullFrames(fs, Len(fs)), NEW n \in Nat
    PROVE  LET gs == Append(fs, LastAt(Len(fs), n))
           IN  EndsWith(gs, n) /\ Len(gs) - 1 = Len(fs)
<1> DEFINE gs == Append(fs, LastAt(Len(fs), n))
<1>1. /\ Len(fs) \in Nat
      /\ Len(gs) = Len(fs) + 1
      /\ gs[Len(fs) + 1] = LastAt(Len(fs), n)
      /\ \A i \in 1..Len(fs) : gs[i] = fs[i]
  BY NextIsFrame, AppendFrame
<1>2. Len(gs) \in Nat \ {0} /\ Len(gs) - 1 = Len(fs)
  BY <1>1
<1>3. FullFrames(gs, Len(gs) - 1)
  BY <1>1, <1>2, Zenon DEF FullFrames
<1>4. gs[Len(gs)] = LastAt(Len(gs) - 1, n)
  BY <1>1, <1>2, Zenon
<1>5. QED
  BY <1>3, <1>2, <1>4 DEF EndsWith

(* The reference definition, read backwards: k frames whose last one is    *)
(* not empty (or is the only one) and ends at byte n are all the frames of *)
(* a plaintext of n bytes.                                                 *)
LEMMA FrameCountIs ==
    ASSUME NEW k \in Nat \ {0}, NEW n \in Nat,
           n <= Base(k), Base(k - 1) < n \/ (n = 0 /\ k = 1)
    PROVE  FrameCount(n) = k
<1>1. CASE n = 0
  <2>1. k = 1
    BY <1>1, BaseStep
  <2>2. QED
    BY <1>1, <2>1 DEF FrameCount
<1>2. CASE n # 0
  <2> DEFINE q == (n + ChunkSize - 1) \div ChunkSize
             m == n + ChunkSize - 1
  <2>1. q \in Int /\ q * ChunkSize <= m /\ m < (q + 1) * ChunkSize
    BY ChunkSizePositive
  <2>2. k * ChunkSize <= m /\ m < (k + 1) * ChunkSize
    BY <1>2, ChunkSizePositive DEF Base
  <2>3. q < k + 1 /\ k < q + 1
    BY <2>1, <2>2, ChunkSizePositive
  <2>4. QED
    BY <1>2, <2>1, <2>3 DEF FrameCount
<1>3. QED
  BY <1>1, <1>2

(* Full frames followed by the flagged rest are the framing of all their   *)
(* bytes.                                                                  *)
LEMMA EndsWithIsFraming ==
    ASSUME NEW fs \in Seq(Frame), NEW n \in 0..ChunkSize, EndsWith(fs, n),
           n = 0 => Len(fs) = 1
    PROVE  fs = Framing(Base(Len(fs) - 1) + n)
<1> DEFINE k == Len(fs)
           N == Base(k - 1) + n
<1>1. /\ k \in Nat \ {0} /\ k - 1 \in Nat
      /\ FullFrames(fs, k - 1)
      /\ fs[k] = LastAt(k - 1, n)
  BY DEF EndsWith
<1>2. Base(k - 1) \in Nat /\ Base(k) = Base(k - 1) + ChunkSize
  BY <1>1, BasePrevious
<1>3. n \in Nat /\ n <= ChunkSize /\ N \in Nat
  BY <1>2, ChunkSizePositive
<1>4. FrameCount(N) = k
  <2>1. N <= Base(k)
    BY <1>2, <1>3, ChunkSizePositive
  <2>2. Base(k - 1) < N \/ (N = 0 /\ k = 1)
    <3>1. CASE n = 0
      <4>1. k = 1 /\ k - 1 = 0
        BY <3>1
      <4>2. Base(k - 1) = 0
        BY <4>1, BaseStep, Zenon
      <4>3. QED
        BY <3>1, <4>1, <4>2
    <3>2. CASE n # 0
      BY <1>2, <1>3, <3>2
    <3>3. QED
      BY <3>1, <3>2
  <2>3. QED
    BY <1>1, <1>3, <2>1, <2>2, FrameCountIs
<1>5. ASSUME NEW i \in 1..k
      PROVE  fs[i] = Seal(Run(Base(i - 1), ChunkLength(N, i - 1)), i - 1, i = k)
  <2>1. CASE i = k
    <3>1. ChunkLength(N, k - 1) = n
      <4>1. N - Base(k - 1) = n /\ (n < ChunkSize \/ n = ChunkSize)
        BY <1>2, <1>3, ChunkSizePositive
      <4>2. QED
        BY <4>1, Zenon DEF ChunkLength
    <3>2. QED
      BY <1>1, <2>1, <3>1 DEF LastAt, Final, Seal
  <2>2. CASE i # k
    <3>1. i \in Nat \ {0} /\ i <= k - 1
      BY <1>1, <2>2
    <3>2. Base(i - 1) \in Nat /\ Base(i) = Base(i - 1) + ChunkSize
      BY <3>1, BasePrevious
    <3>3. ChunkLength(N, i - 1) = ChunkSize
      <4>1. Base(i) <= Base(k - 1)
        BY <1>1, <3>1, BaseMonotonic
      <4>2. ~(N - Base(i - 1) < ChunkSize)
        BY <1>2, <1>3, <3>2, <4>1, ChunkSizePositive
      <4>3. QED
        BY <4>2, Zenon DEF ChunkLength
    <3>4. fs[i] = FullAt(i - 1)
      BY <1>1, <3>1 DEF FullFrames
    <3>5. QED
      BY <2>2, <3>3, <3>4 DEF FullAt, Inner, Seal
  <2>3. QED
    BY <2>1, <2>2
<1>6. fs = [i \in 1..k |-> fs[i]]
  OBVIOUS
<1>7. QED
  BY <1>4, <1>5, <1>6 DEF Framing, Seal

(* Rounding a quotient up.                                                 *)
LEMMA RoundUp ==
    ASSUME NEW n \in Nat \ {0}, NEW c \in Nat \ {0}
    PROVE  LET q == (n + c - 1) \div c
           IN  q \in Nat \ {0} /\ (q - 1) * c < n /\ n <= q * c
<1>1. PICK q \in Int : q = (n + c - 1) \div c
  OBVIOUS
<1>2. q * c <= n + c - 1 /\ n + c - 1 < (q + 1) * c
  BY <1>1
<1>3. (q + 1) * c = q * c + c /\ (q - 1) * c = q * c - c /\ q * c \in Int
  OBVIOUS
<1>4. (q - 1) * c < n /\ n <= q * c
  BY <1>2, <1>3
<1>5. q > 0
  <2>1. ASSUME q <= 0 PROVE q * c <= 0
    BY <2>1
  <2>2. QED
    BY <1>3, <1>4, <2>1
<1>6. QED
  BY <1>1, <1>4, <1>5

(* The frames of n bytes are as many as are needed.                        *)
LEMMA FrameCountFits ==
    ASSUME NEW n \in Nat
    PROVE  /\ FrameCount(n) \in Nat \ {0}
           /\ n <= Base(FrameCount(n))
           /\ Base(FrameCount(n) - 1) < n \/ (n = 0 /\ FrameCount(n) = 1)
<1>1. CASE n = 0
  <2>1. FrameCount(n) = 1
    BY <1>1 DEF FrameCount
  <2>2. Base(1) \in Nat
    BY BaseStep
  <2>3. QED
    BY <1>1, <2>1, <2>2
<1>2. CASE n # 0
  <2>1. PICK q \in Nat \ {0} :
          /\ q = (n + ChunkSize - 1) \div ChunkSize
          /\ (q - 1) * ChunkSize < n /\ n <= q * ChunkSize
    BY <1>2, RoundUp, ChunkSizePositive
  <2>2. FrameCount(n) = q
    BY <1>2, <2>1 DEF FrameCount
  <2>3. QED
    BY <2>1, <2>2 DEF Base
<1>3. QED
  BY <1>1, <1>2

(* The framing of a plaintext is a stream as the openers expect it.        *)
LEMMA FramingIsStream ==
    ASSUME NEW n \in Nat
    PROVE  IsStream(Framing(n))
<1>1. PICK k \in Nat \ {0} :
        /\ k = FrameCount(n) /\ n <= Base(k)
        /\ Base(k - 1) < n \/ (n = 0 /\ k = 1)
  BY FrameCountFits
<1>2. PICK fs : fs = Framing(n)
  OBVIOUS
<1>3. fs = [i \in 1..k |->
              Seal(Run(Base(i - 1), ChunkLength(n, i - 1)), i - 1, i = k)]
  BY <1>1, <1>2 DEF Framing
<1>4. ASSUME NEW i \in 1..k
      PROVE  /\ ChunkLength(n, i - 1) \in Nat
             /\ Base(i - 1) \in Nat /\ i - 1 \in Nat
  <2>1. i - 1 \in Nat /\ k - 1 \in Nat /\ i - 1 <= k - 1
    BY <1>1
  <2>2. Base(i - 1) \in Nat /\ Base(i - 1) <= Base(k - 1) /\ Base(k - 1) \in Nat
    BY <2>1, BaseStep, BaseMonotonic
  <2>3. Base(i - 1) <= n
    <3>1. CASE Base(k - 1) < n
      BY <2>2, <3>1
    <3>2. CASE n = 0 /\ k = 1
      <4>1. i - 1 = 0 /\ Base(0) = 0
        BY <3>2, BaseStep
      <4>2. QED
        BY <3>2, <4>1
    <3>3. QED
      BY <1>1, <3>1, <3>2
  <2>4. QED
    BY <2>1, <2>2, <2>3, ChunkSizePositive DEF ChunkLength
<1>5. ASSUME NEW i \in 1..k
      PROVE  /\ fs[i] = Seal(Run(Base(i - 1), ChunkLength(n, i - 1)), i - 1, i = k)
             /\ fs[i] \in Frame
  <2>1. fs[i] = Seal(Run(Base(i - 1), ChunkLength(n, i - 1)), i - 1, i = k)
    BY <1>3
  <2>2. Run(Base(i - 1), ChunkLength(n, i - 1)) \in Seq(Byte)
    BY <1>4, RunIsSeq
  <2>3. i - 1 \in Nat /\ (i = k) \in BOOLEAN
    BY <1>4
  <2>4. QED
    BY <2>1, <2>2, <2>3 DEF Seal, Frame
<1>6. fs \in Seq(Frame) /\ Len(fs) = k /\ DOMAIN fs = 1..k /\ fs # << >>
  BY <1>3, <1>5
<1>7. ASSUME NEW i \in 1..k
      PROVE  fs[i].counter = i - 1 /\ fs[i].last = (i = k)
  <2>1. PICK c : fs[i] = Seal(c, i - 1, i = k)
    BY <1>5
  <2>2. QED
    BY <2>1 DEF Seal
<1>8. ASSUME fs[k].chunk = << >> PROVE k = 1
  <2>1. k \in 1..k
    OBVIOUS
  <2>2. Run(Base(k - 1), ChunkLength(n, k - 1)) = << >>
    <3>1. fs[k] = Seal(Run(Base(k - 1), ChunkLength(n, k - 1)), k - 1, k = k)
      BY <1>5, <2>1, Zenon
    <3>2. fs[k].chunk = Run(Base(k - 1), ChunkLength(n, k - 1))
      <4>1. PICK c : c = Run(Base(k - 1), ChunkLength(n, k - 1))
        OBVIOUS
      <4>2. fs[k] = Seal(c, k - 1, k = k)
        BY <3>1, <4>1, Zenon
      <4>3. QED
        BY <4>1, <4>2 DEF Seal
    <3>3. QED
      BY <1>8, <3>2
  <2>3. ChunkLength(n, k - 1) = 0
    <3>1. Len(Run(Base(k - 1), ChunkLength(n, k - 1))) = ChunkLength(n, k - 1)
      BY <1>4, <2>1, RunIsSeq
    <3>2. QED
      BY <2>2, <3>1
  <2>4. n = Base(k - 1)
    BY <1>4, <2>1, <2>3, ChunkSizePositive DEF ChunkLength
  <2>5. QED
    BY <1>1, <1>4, <2>1, <2>4
<1>9. QED
  BY <1>2, <1>6, <1>7, <1>8 DEF IsStream

-----------------------------------------------------------------------------
(* The wire is one that may arrive for a stream that was sealed.           *)
WireType == sealed \in Streams /\ sameKey \in BOOLEAN /\ wire \in Seq(Cell)

LEMMA WireInitType == WireInit => WireType
BY WiresAreCells DEF WireInit, WireType

(* Where the sealed frame with this counter starts, on a wire of full ones.*)
Start(counter) == counter * CipherChunk

(* The bytes of w after the first k, up to the m-th.                       *)
Part(w, k, m) == SubSeq(w, k + 1, m)

LEMMA ChunksPositive ==
    /\ ChunkSize \in Nat \ {0} /\ TagLen \in Nat \ {0}
    /\ CipherChunk \in Nat \ {0} /\ CipherChunk = ChunkSize + TagLen
BY ChunkSizePositive, TagLenPositive DEF CipherChunk

(* Start counts whole frames.                                              *)
LEMMA StartStep ==
    /\ Start(0) = 0
    /\ \A k \in Nat : Start(k) \in Nat /\ Start(k + 1) = Start(k) + CipherChunk
<1>1. Start(0) = 0
  BY ChunksPositive DEF Start
<1>2. ASSUME NEW k \in Nat
      PROVE  Start(k) \in Nat /\ Start(k + 1) = Start(k) + CipherChunk
  BY ChunksPositive DEF Start
<1>3. QED
  BY <1>1, <1>2

LEMMA StartType == \A k \in Nat : Start(k) \in Nat
BY StartStep, Zenon

LEMMA StartMonotonic ==
    ASSUME NEW m \in Nat, NEW n \in Nat, m <= n
    PROVE  Start(m) <= Start(n)
<1>1. (n - m) * CipherChunk >= 0
  BY ChunksPositive
<1>2. n * CipherChunk = m * CipherChunk + (n - m) * CipherChunk
  BY ChunksPositive
<1>3. QED
  BY <1>1, <1>2, ChunksPositive DEF Start

(* A number of bytes lies in one frame only.                               *)
LEMMA StartUnique ==
    ASSUME NEW j \in Nat, NEW k \in Nat, NEW n \in Nat,
           Start(j) < n, n <= Start(j + 1), Start(k) < n, n <= Start(k + 1)
    PROVE  j = k
<1> USE StartStep
<1>1. ~(j < k)
  <2>1. SUFFICES ASSUME j < k PROVE FALSE
    OBVIOUS
  <2>2. j + 1 \in Nat /\ j + 1 <= k
    BY <2>1
  <2>3. Start(j + 1) <= Start(k)
    BY <2>2, StartMonotonic
  <2>4. QED
    BY <2>2, <2>3
<1>2. ~(k < j)
  <2>1. SUFFICES ASSUME k < j PROVE FALSE
    OBVIOUS
  <2>2. k + 1 \in Nat /\ k + 1 <= j
    BY <2>1
  <2>3. Start(k + 1) <= Start(j)
    BY <2>2, StartMonotonic
  <2>4. QED
    BY <2>2, <2>3
<1>3. QED
  BY <1>1, <1>2

LEMMA PartIsSeq ==
    ASSUME NEW w \in Seq(Cell), NEW k \in Nat, NEW m \in Nat, k <= m, m <= Len(w)
    PROVE  Part(w, k, m) \in Seq(Cell) /\ Len(Part(w, k, m)) = m - k
<1>1. \A i \in (k + 1)..m : w[i] \in Cell
  BY ElementOfSeq
<1>2. QED
  BY <1>1, SubSeqProperties DEF Part

(* Adjacent pieces join into one, as carry and the next event do.          *)
LEMMA PartConcat ==
    ASSUME NEW w \in Seq(Cell), NEW k \in Nat, NEW m \in Nat, NEW n \in Nat,
           k <= m, m <= n, n <= Len(w)
    PROVE  Part(w, k, m) \o Part(w, m, n) = Part(w, k, n)
BY ConcatAdjacentSubSeq DEF Part

(* The bytes from j to n lie among those from k to m.                      *)
Within(w, k, j, n, m) ==
    /\ w \in Seq(Cell) /\ k \in Nat /\ j \in Nat /\ n \in Nat /\ m \in Nat
    /\ k <= j /\ j <= n /\ n <= m /\ m <= Len(w)

(* A piece of a piece is one.                                              *)
LEMMA PartOfPart ==
    ASSUME NEW w, NEW k, NEW j, NEW n, NEW m, Within(w, k, j, n, m)
    PROVE  Part(Part(w, k, m), j - k, n - k) = Part(w, j, n)
<1>1. PICK a \in Nat, b \in Nat :
        a = j - k /\ b = n - k /\ k + a = j /\ k + b = n
  BY DEF Within
<1>2. SubSeq(SubSeq(w, k + 1, m), a + 1, b) = SubSeq(w, j + 1, n)
  <2>1. CASE j = n
    BY <1>1, <2>1, SubSeqEmpty DEF Within
  <2>2. CASE j # n
    <3>1. /\ k + 1 \in 1..Len(w) /\ m \in 1..Len(w)
          /\ a + 1 \in 1..(m - (k + 1) + 1) /\ b \in 1..(m - (k + 1) + 1)
      BY <1>1, <2>2 DEF Within
    <3>2. SubSeq(SubSeq(w, k + 1, m), a + 1, b)
            = SubSeq(w, k + 1 + (a + 1) - 1, k + 1 + b - 1)
      BY <3>1, SubSeqOfSubSeq DEF Within
    <3>3. k + 1 + (a + 1) - 1 = j + 1 /\ k + 1 + b - 1 = n
      BY <1>1 DEF Within
    <3>4. QED
      BY <3>2, <3>3
  <2>3. QED
    BY <2>1, <2>2
<1>3. QED
  BY <1>1, <1>2 DEF Part

-----------------------------------------------------------------------------
(* The bytes of the frame sealed with this counter, and its size.          *)
Sent(i) == FrameBytes(sealed, i)
Size(i) == Len(sealed[i].chunk) + TagLen

LEMMA SentSize ==
    ASSUME WireType, NEW i \in 1..Len(sealed)
    PROVE  /\ Size(i) \in Nat \ {0} /\ TagLen <= Size(i)
           /\ Sent(i) \in Seq(Cell) /\ Len(Sent(i)) = Size(i)
<1>1. sealed \in Seq(Frame)
  BY StreamsSealed DEF WireType, IsStream
<1>2. sealed[i].chunk \in Seq(Byte)
  <2>1. sealed[i] \in Frame
    BY <1>1, ElementOfSeq
  <2>2. QED
    BY <2>1 DEF Frame
<1>3. Size(i) \in Nat \ {0} /\ TagLen <= Size(i)
  BY <1>2, TagLenPositive, LenProperties DEF Size
<1>4. Sent(i) = [p \in 1..Size(i) |-> <<i, p>>]
  BY DEF Sent, Size, FrameBytes
<1>5. \A p \in 1..Size(i) : <<i, p>> \in Cell
  BY <1>3 DEF Cell
<1>6. QED
  BY <1>3, <1>4, <1>5

(* Facts of a sealed stream, frame by frame.                               *)
LEMMA StreamFacts ==
    ASSUME WireType
    PROVE  /\ sealed \in Seq(Frame)
           /\ Len(sealed) \in Nat \ {0} /\ DOMAIN sealed = 1..Len(sealed)
           /\ \A i \in 1..Len(sealed) : sealed[i].last <=> i = Len(sealed)
           /\ \A i \in 1..Len(sealed) : sealed[i].last \in BOOLEAN
           /\ Size(Len(sealed)) = TagLen => Len(sealed) = 1
<1>1. IsStream(sealed)
  BY StreamsSealed DEF WireType
<1>2. /\ sealed \in Seq(Frame)
      /\ Len(sealed) \in Nat \ {0} /\ DOMAIN sealed = 1..Len(sealed)
  BY <1>1, EmptySeq, LenProperties DEF IsStream
<1>3. \A i \in 1..Len(sealed) : sealed[i] \in Frame
  BY <1>2, ElementOfSeq
<1>4. \A i \in 1..Len(sealed) : sealed[i].last \in BOOLEAN
  BY <1>3 DEF Frame
<1>5. sealed[Len(sealed)].chunk \in Seq(Byte)
  BY <1>2, <1>3 DEF Frame
<1>6. Size(Len(sealed)) = TagLen => sealed[Len(sealed)].chunk = << >>
  BY <1>5, TagLenPositive, EmptySeq, LenProperties DEF Size
<1>7. QED
  BY <1>1, <1>2, <1>4, <1>6 DEF IsStream

LEMMA SealedCount == ASSUME WireType PROVE Len(sealed) \in Nat \ {0}
BY StreamFacts

(* What it means that a block opened.                                      *)
LEMMA AuthenticIs ==
    ASSUME WireType, NEW block, NEW k \in Nat, NEW last \in BOOLEAN
    PROVE  Authentic(block, k, last) <=>
             /\ sameKey
             /\ k + 1 \in 1..Len(sealed)
             /\ last <=> k + 1 = Len(sealed)
             /\ block = Sent(k + 1)
BY StreamFacts DEF Authentic, Sent

(* The first k frames of w are the first k sealed ones, none of them last. *)
Opened(w, k) ==
    /\ k > 0 => sameKey
    /\ \A i \in 1..k :
         /\ i < Len(sealed)
         /\ Part(w, Start(i - 1), Start(i)) = Sent(i)

LEMMA OpenedNone == ASSUME NEW w PROVE Opened(w, 0)
BY DEF Opened

LEMMA OpenedNext ==
    ASSUME WireType, NEW w, NEW k \in Nat, Opened(w, k),
           Authentic(Part(w, Start(k), Start(k + 1)), k, FALSE)
    PROVE  Opened(w, k + 1)
<1>1. /\ sameKey
      /\ k + 1 \in 1..Len(sealed) /\ k + 1 # Len(sealed)
      /\ Part(w, Start(k), Start(k + 1)) = Sent(k + 1)
  BY AuthenticIs
<1>2. ASSUME NEW i \in 1..(k + 1)
      PROVE  i < Len(sealed) /\ Part(w, Start(i - 1), Start(i)) = Sent(i)
  <2>1. CASE i = k + 1
    <3>1. i - 1 = k
      BY <2>1
    <3>2. i < Len(sealed)
      BY <1>1, <2>1, SealedCount
    <3>3. QED
      BY <1>1, <2>1, <3>1, <3>2, Zenon
  <2>2. CASE i # k + 1
    <3>1. i \in 1..k
      BY <2>2
    <3>2. QED
      BY <3>1 DEF Opened
  <2>3. QED
    BY <2>1, <2>2
<1>3. QED
  BY <1>1, <1>2 DEF Opened

(* Frames opened on a wire are opened on every part of it that holds them. *)
LEMMA PartOfStart ==
    ASSUME NEW w \in Seq(Cell), NEW m \in Nat, m <= Len(w),
           NEW j \in Nat, NEW n \in Nat, j <= n, n <= m
    PROVE  Part(Part(w, 0, m), j, n) = Part(w, j, n)
<1>1. Within(w, 0, j, n, m)
  BY DEF Within
<1>2. j - 0 = j /\ n - 0 = n
  OBVIOUS
<1>3. Part(Part(w, 0, m), j - 0, n - 0) = Part(w, j, n)
  BY <1>1, PartOfPart
<1>4. QED
  BY <1>2, <1>3

LEMMA OpenedPart ==
    ASSUME WireType, NEW w \in Seq(Cell), NEW k \in Nat, Opened(w, k),
           NEW m \in Nat, Start(k) <= m, m <= Len(w)
    PROVE  Opened(Part(w, 0, m), k)
<1>1. ASSUME NEW i \in 1..k
      PROVE  /\ i < Len(sealed)
             /\ Part(Part(w, 0, m), Start(i - 1), Start(i)) = Sent(i)
  <2>1. i < Len(sealed) /\ Part(w, Start(i - 1), Start(i)) = Sent(i)
    BY DEF Opened
  <2>2. i \in Nat /\ i - 1 \in Nat /\ i - 1 <= i /\ i <= k
    OBVIOUS
  <2>3. Start(i - 1) \in Nat /\ Start(i) \in Nat /\ Start(k) \in Nat
    BY <2>2, StartType, Zenon
  <2>4. Start(i - 1) <= Start(i) /\ Start(i) <= Start(k)
    BY <2>2, StartMonotonic, Zenon
  <2>5. PICK a \in Nat, b \in Nat : a = Start(i - 1) /\ b = Start(i) /\ a <= b /\ b <= m
    BY <2>3, <2>4
  <2>6. Part(Part(w, 0, m), a, b) = Part(w, a, b)
    BY <2>5, PartOfStart
  <2>7. QED
    BY <2>1, <2>5, <2>6
<1>2. QED
  BY <1>1 DEF Opened

(* On opened frames the sizes are those of full ones.                      *)
LEMMA OpenedSizes ==
    ASSUME WireType, NEW w \in Seq(Cell), NEW k \in Nat, Opened(w, k),
           Start(k) <= Len(w)
    PROVE  \A i \in 1..k : i \in 1..Len(sealed) /\ Size(i) = CipherChunk
<1> TAKE i \in 1..k
<1>1. i - 1 \in Nat /\ i \in Nat /\ i <= k
  OBVIOUS
<1>2. i < Len(sealed) /\ Part(w, Start(i - 1), Start(i)) = Sent(i)
  BY DEF Opened
<1>3. i \in 1..Len(sealed)
  BY <1>1, <1>2, SealedCount
<1>4. /\ Start(i - 1) \in Nat /\ Start(i) \in Nat
      /\ Start(i) = Start(i - 1) + CipherChunk
  <2>1. i - 1 + 1 = i
    BY <1>1
  <2>2. QED
    BY <1>1, <2>1, StartStep
<1>5. Start(i) <= Start(k)
  BY <1>1, StartMonotonic
<1>6. Len(Part(w, Start(i - 1), Start(i))) = CipherChunk
  <2>1. Start(k) \in Nat /\ Len(w) \in Nat
    BY StartStep
  <2>2. Start(i) <= Len(w) /\ Start(i - 1) <= Start(i)
    BY <1>4, <1>5, <2>1, ChunksPositive
  <2>3. Len(Part(w, Start(i - 1), Start(i))) = Start(i) - Start(i - 1)
    BY <1>4, <2>2, PartIsSeq, Zenon
  <2>4. QED
    BY <1>4, <2>3, ChunksPositive
<1>7. QED
  BY <1>2, <1>3, <1>6, SentSize

(* The last step of an acceptance: full frames, then the flagged one with  *)
(* the bytes that are left, are the whole of a sealed stream.              *)
LEMMA AcceptedIsIntact ==
    ASSUME WireType, NEW w \in Seq(Cell), NEW k \in Nat, Opened(w, k),
           Start(k) <= Len(w), Len(w) <= Start(k + 1),
           Authentic(Part(w, Start(k), Len(w)), k, TRUE)
    PROVE  IsIntact(w)
<1> DEFINE n == Len(sealed)
<1>0. /\ Start(k) \in Nat /\ Start(k + 1) = Start(k) + CipherChunk
      /\ Len(w) \in Nat /\ Len(w) <= Len(w)
      /\ Start(k) <= Len(w) /\ Len(w) <= Start(k + 1)
  BY StartStep
<1>1. sameKey /\ k + 1 = n /\ Part(w, Start(k), Len(w)) = Sent(n)
  BY AuthenticIs
<1>2. n \in 1..n /\ n - 1 = k
  BY <1>1, SealedCount
<1>3. \A i \in 1..(n - 1) : Size(i) = CipherChunk
  BY <1>2, OpenedSizes
<1>4. Size(n) = Len(w) - Start(k)
  <2>1. Len(Part(w, Start(k), Len(w))) = Len(w) - Start(k)
    BY <1>0, PartIsSeq, Zenon
  <2>2. QED
    BY <1>1, <1>2, <2>1, SentSize, Zenon
<1>5. Size(n) <= CipherChunk
  BY <1>0, <1>4, ChunksPositive
<1>6. Len(w) = Start(n - 1) + Size(n)
  BY <1>0, <1>2, <1>4
<1>7. ASSUME NEW i \in 1..n
      PROVE  Part(w, Start(i - 1), Start(i - 1) + Size(i)) = Sent(i)
  <2>1. CASE i = n
    BY <1>1, <1>2, <1>6, <2>1
  <2>2. CASE i # n
    <3>1. i \in 1..k /\ i - 1 \in Nat /\ i - 1 + 1 = i
      BY <1>2, <2>2
    <3>2. Start(i) = Start(i - 1) + Size(i)
      BY <1>2, <1>3, <3>1, StartStep
    <3>3. QED
      BY <3>1, <3>2 DEF Opened
  <2>3. QED
    BY <2>1, <2>2
<1>8. QED
  BY <1>1, <1>3, <1>5, <1>6, <1>7 DEF IsIntact, Size, Start, Part, Sent

(* An intact wire, said with the operators of this module.                 *)
LEMMA IntactIs ==
    ASSUME WireType, NEW w \in Seq(Cell), IsIntact(w)
    PROVE  \E n \in Nat \ {0} :
             /\ n = Len(sealed) /\ n - 1 \in Nat /\ n - 1 + 1 = n
             /\ sameKey
             /\ \A i \in 1..(n - 1) : Size(i) = CipherChunk
             /\ Size(n) \in Nat \ {0} /\ TagLen <= Size(n) /\ Size(n) <= CipherChunk
             /\ Len(w) = Start(n - 1) + Size(n)
             /\ Start(n - 1) < Len(w) /\ Len(w) <= Start(n)
             /\ \A i \in 1..n : Part(w, Start(i - 1), Start(i - 1) + Size(i)) = Sent(i)
<1>1. PICK n \in Nat \ {0} : n = Len(sealed)
  BY SealedCount
<1>2. n \in 1..n /\ n - 1 \in Nat /\ n - 1 + 1 = n
  OBVIOUS
<1>3. /\ sameKey
      /\ \A i \in 1..(n - 1) : Size(i) = CipherChunk
      /\ Size(n) <= CipherChunk
      /\ Len(w) = Start(n - 1) + Size(n)
      /\ \A i \in 1..n : Part(w, Start(i - 1), Start(i - 1) + Size(i)) = Sent(i)
  BY <1>1 DEF IsIntact, Size, Start, Part, Sent
<1>4. Size(n) \in Nat \ {0} /\ TagLen <= Size(n)
  BY <1>1, <1>2, SentSize
<1>5. Start(n - 1) \in Nat /\ Start(n) = Start(n - 1) + CipherChunk
  <2>1. Start(n - 1) \in Nat /\ Start(n - 1 + 1) = Start(n - 1) + CipherChunk
    BY <1>2, StartStep
  <2>2. QED
    BY <1>2, <2>1
<1>6. Start(n - 1) < Len(w) /\ Len(w) <= Start(n)
  BY <1>3, <1>4, <1>5, ChunksPositive
<1>7. QED
  BY <1>1, <1>2, <1>3, <1>4, <1>6

(* On an intact wire every frame with bytes after it opens.                *)
LEMMA IntactInner ==
    ASSUME WireType, NEW w \in Seq(Cell), NEW k \in Nat, IsIntact(w),
           Start(k + 1) < Len(w)
    PROVE  Authentic(Part(w, Start(k), Start(k + 1)), k, FALSE)
<1>1. PICK n \in Nat \ {0} :
        /\ n = Len(sealed)
        /\ sameKey
        /\ \A i \in 1..(n - 1) : Size(i) = CipherChunk
        /\ Len(w) <= Start(n)
        /\ \A i \in 1..n : Part(w, Start(i - 1), Start(i - 1) + Size(i)) = Sent(i)
  BY IntactIs, Zenon
<1>2. k + 1 \in Nat /\ k + 1 - 1 = k /\ Start(n) \in Nat /\ Start(k + 1) \in Nat
  BY StartType
<1>3. ~(n <= k + 1)
  <2>1. n <= k + 1 => Start(n) <= Start(k + 1)
    BY <1>2, StartMonotonic
  <2>2. Len(w) \in Nat
    OBVIOUS
  <2>3. QED
    BY <1>1, <1>2, <2>1, <2>2
<1>4. k + 1 \in 1..(n - 1) /\ k + 1 \in 1..n /\ k + 1 # n
  BY <1>3
<1>5. Start(k + 1) = Start(k) + Size(k + 1)
  BY <1>1, <1>4, StartStep
<1>6. Part(w, Start(k), Start(k + 1)) = Sent(k + 1)
  <2>1. Part(w, Start(k + 1 - 1), Start(k + 1 - 1) + Size(k + 1)) = Sent(k + 1)
    BY <1>1, <1>4
  <2>2. QED
    BY <1>2, <1>5, <2>1, Zenon
<1>7. k + 1 \in 1..Len(sealed) /\ ~(k + 1 = Len(sealed))
  BY <1>1, <1>4, Zenon
<1>8. QED
  BY <1>1, <1>6, <1>7, AuthenticIs, Zenon

(* And so does what is left for the final frame.                           *)
LEMMA IntactFinal ==
    ASSUME WireType, NEW w \in Seq(Cell), NEW k \in Nat, IsIntact(w),
           k = 0 \/ Start(k) < Len(w), Len(w) <= Start(k + 1)
    PROVE  /\ Start(k) + TagLen <= Len(w)
           /\ Authentic(Part(w, Start(k), Len(w)), k, TRUE)
<1>1. PICK n \in Nat \ {0} :
        /\ n = Len(sealed) /\ n - 1 \in Nat /\ n - 1 + 1 = n
        /\ sameKey
        /\ Size(n) \in Nat \ {0} /\ TagLen <= Size(n)
        /\ Len(w) = Start(n - 1) + Size(n)
        /\ Start(n - 1) < Len(w) /\ Len(w) <= Start(n)
        /\ \A i \in 1..n : Part(w, Start(i - 1), Start(i - 1) + Size(i)) = Sent(i)
  BY IntactIs, Zenon
<1>2. Len(w) \in Nat /\ Start(k) \in Nat /\ Start(n - 1) \in Nat
  <2>1. Len(w) \in Nat
    OBVIOUS
  <2>2. QED
    BY <1>1, <2>1, StartType, Zenon
<1>3. Start(k) < Len(w)
  BY <1>1, <1>2, StartStep
<1>4. Start(n - 1 + 1) = Start(n)
  BY <1>1
<1>5. n - 1 = k
  BY <1>1, <1>2, <1>3, <1>4, StartUnique, Zenon
<1>6. n \in 1..n /\ k + 1 = n /\ TagLen \in Nat
  BY <1>5, TagLenPositive
<1>7. Start(k) + TagLen <= Len(w)
  BY <1>1, <1>2, <1>5, <1>6
<1>8. Part(w, Start(k), Len(w)) = Sent(k + 1)
  BY <1>1, <1>5, <1>6, Zenon
<1>9. k + 1 \in 1..Len(sealed) /\ k + 1 = Len(sealed)
  BY <1>1, <1>6, Zenon
<1>10. QED
  BY <1>1, <1>7, <1>8, <1>9, AuthenticIs, Zenon

-----------------------------------------------------------------------------
(* The chunks of the first k sealed frames.                                *)
Prefix(k) == [i \in 1..k |-> sealed[i].chunk]

(* The chunks of sealed frames, one more at a time.                        *)
LEMMA PrefixFacts ==
    ASSUME WireType
    PROVE  /\ \A k \in 0..Len(sealed) : Prefix(k) \in Seq(Seq(Byte)) /\ Len(Prefix(k)) = k
           /\ \A k \in Nat : k + 1 \in 1..Len(sealed) =>
                Append(Prefix(k), Plaintext(k)) = Prefix(k + 1)
<1>1. ASSUME NEW i \in 1..Len(sealed) PROVE sealed[i].chunk \in Seq(Byte)
  <2>1. sealed[i] \in Frame
    BY StreamFacts, ElementOfSeq
  <2>2. QED
    BY <2>1 DEF Frame
<1>2. Len(sealed) \in Nat
  BY SealedCount
<1>3. ASSUME NEW k \in 0..Len(sealed)
      PROVE  Prefix(k) \in Seq(Seq(Byte)) /\ Len(Prefix(k)) = k
  <2>1. k \in Nat /\ \A i \in 1..k : i \in 1..Len(sealed)
    BY <1>2
  <2>2. \A i \in 1..k : sealed[i].chunk \in Seq(Byte)
    BY <1>1, <2>1, Zenon
  <2>3. QED
    BY <2>1, <2>2 DEF Prefix
<1>4. ASSUME NEW k \in Nat, k + 1 \in 1..Len(sealed)
      PROVE  Append(Prefix(k), Plaintext(k)) = Prefix(k + 1)
  <2>1. k \in 0..Len(sealed) /\ k + 1 \in 0..Len(sealed)
    BY <1>2, <1>4
  <2>2. /\ Prefix(k) \in Seq(Seq(Byte)) /\ Len(Prefix(k)) = k
        /\ Prefix(k + 1) \in Seq(Seq(Byte)) /\ Len(Prefix(k + 1)) = k + 1
        /\ Plaintext(k) \in Seq(Byte)
    BY <1>1, <1>3, <1>4, <2>1, Zenon DEF Plaintext
  <2>3. /\ Append(Prefix(k), Plaintext(k)) \in Seq(Seq(Byte))
        /\ Len(Append(Prefix(k), Plaintext(k))) = k + 1
        /\ Append(Prefix(k), Plaintext(k))[k + 1] = Plaintext(k)
        /\ \A i \in 1..k : Append(Prefix(k), Plaintext(k))[i] = Prefix(k)[i]
    BY <2>2, AppendProperties
  <2>4. \A i \in 1..(k + 1) :
          Append(Prefix(k), Plaintext(k))[i] = Prefix(k + 1)[i]
    BY <2>3 DEF Prefix, Plaintext
  <2>5. QED
    BY <2>2, <2>3, <2>4, SeqEqual
<1>5. QED
  BY <1>3, <1>4

-----------------------------------------------------------------------------
(* The reference verdict, read off the frames opened one by one.           *)

(* Every number of bytes ends in some frame, ...                           *)
LEMMA PieceCountType ==
    ASSUME WireType, Len(wire) # 0
    PROVE  /\ PieceCount \in Nat \ {0}
           /\ Start(PieceCount - 1) < Len(wire) /\ Len(wire) <= Start(PieceCount)
<1>1. Len(wire) \in Nat \ {0} /\ CipherChunk \in Nat \ {0}
  BY ChunksPositive DEF WireType
<1>2. QED
  BY <1>1, RoundUp, Zenon DEF PieceCount, Start

LEMMA PieceCountZero ==
    ASSUME WireType, Len(wire) = 0
    PROVE  PieceCount = 0
<1>1. (0 + CipherChunk - 1) \div CipherChunk = 0
  BY ChunksPositive
<1>2. QED
  BY <1>1 DEF PieceCount

(* ... and in only one.                                                    *)
LEMMA PieceCountIs ==
    ASSUME WireType, NEW k \in Nat, Start(k) < Len(wire), Len(wire) <= Start(k + 1)
    PROVE  PieceCount = k + 1
<1>1. Len(wire) \in Nat /\ Start(k) \in Nat
  BY StartType DEF WireType
<1>2. Len(wire) # 0
  BY <1>1
<1>3. PICK p \in Nat \ {0} :
        p = PieceCount /\ Start(p - 1) < Len(wire) /\ Len(wire) <= Start(p)
  BY <1>2, PieceCountType, Zenon
<1>4. p - 1 \in Nat /\ p - 1 + 1 = p
  OBVIOUS
<1>5. p - 1 = k
  BY <1>1, <1>3, <1>4, StartUnique, Zenon
<1>6. QED
  BY <1>3, <1>5

(* The pieces of the reference are the pieces the openers look at.         *)
LEMMA PieceInner ==
    ASSUME WireType, NEW i \in 1..PieceCount, i # PieceCount
    PROVE  /\ Piece(i) = Part(wire, Start(i - 1), Start(i))
           /\ Start(i) < Len(wire) => Len(Piece(i)) = CipherChunk
<1>1. Piece(i) = Part(wire, Start(i - 1), Start(i))
  BY Zenon DEF Piece, Part, Start
<1>2. ASSUME Start(i) < Len(wire) PROVE Len(Piece(i)) = CipherChunk
  <2>1. i \in Nat /\ i - 1 \in Nat /\ i - 1 + 1 = i
    OBVIOUS
  <2>2. /\ Start(i - 1) \in Nat /\ Start(i) \in Nat
        /\ Start(i) = Start(i - 1) + CipherChunk
    <3>1. Start(i - 1) \in Nat /\ Start(i - 1 + 1) = Start(i - 1) + CipherChunk
      BY <2>1, StartStep, Zenon
    <3>2. QED
      BY <2>1, <3>1, StartType, Zenon
  <2>3. wire \in Seq(Cell) /\ Len(wire) \in Nat
    BY DEF WireType
  <2>4. Start(i - 1) <= Start(i) /\ Start(i) <= Len(wire)
    BY <1>2, <2>2, <2>3, ChunksPositive
  <2>5. Len(Part(wire, Start(i - 1), Start(i))) = Start(i) - Start(i - 1)
    BY <2>2, <2>3, <2>4, PartIsSeq, Zenon
  <2>6. QED
    BY <1>1, <2>2, <2>5, ChunksPositive
<1>3. QED
  BY <1>1, <1>2

(* One long piece that does not open decides the verdict, ...              *)
LEMMA VerdictBad ==
    ASSUME NEW i \in 1..PieceCount, Len(Piece(i)) >= TagLen,
           ~Authentic(Piece(i), i - 1, i = PieceCount)
    PROVE  Verdict = "AuthFailed"
BY Zenon DEF Verdict

(* ... and without one only the length of the last piece matters.          *)
LEMMA VerdictGood ==
    ASSUME \A i \in 1..PieceCount :
             Len(Piece(i)) >= TagLen => Authentic(Piece(i), i - 1, i = PieceCount)
    PROVE  Verdict = IF PieceCount \in 1..PieceCount /\ Len(Piece(PieceCount)) >= TagLen
                       THEN "Ok" ELSE "InvalidCiphertext"
BY Zenon DEF Verdict

(* A frame that bytes follow and that does not open makes it AuthFailed.   *)
LEMMA VerdictInner ==
    ASSUME WireType, NEW k \in Nat, Start(k + 1) < Len(wire),
           ~Authentic(Part(wire, Start(k), Start(k + 1)), k, FALSE)
    PROVE  Verdict = "AuthFailed"
<1>1. Len(wire) \in Nat /\ k + 1 \in Nat /\ Start(k + 1) \in Nat /\ k + 1 - 1 = k
  BY StartType DEF WireType
<1>2. Len(wire) # 0
  BY <1>1
<1>3. PICK p \in Nat \ {0} : p = PieceCount /\ Len(wire) <= Start(p)
  BY <1>2, PieceCountType, Zenon
<1>4. ~(p <= k + 1)
  <2>1. p <= k + 1 => Start(p) <= Start(k + 1)
    BY <1>1, StartMonotonic, Zenon
  <2>2. Start(p) \in Nat
    BY StartType, Zenon
  <2>3. QED
    BY <1>1, <1>3, <2>1, <2>2
<1>5. PICK i \in 1..PieceCount : i = k + 1 /\ i # PieceCount /\ i - 1 = k
  BY <1>1, <1>3, <1>4
<1>6. /\ Piece(i) = Part(wire, Start(i - 1), Start(i))
      /\ Start(i) < Len(wire) => Len(Piece(i)) = CipherChunk
  BY <1>5, PieceInner, Zenon
<1>7. Piece(i) = Part(wire, Start(k), Start(k + 1)) /\ Len(Piece(i)) = CipherChunk
  BY <1>5, <1>6, Zenon
<1>8. Len(Piece(i)) >= TagLen
  BY <1>7, ChunksPositive
<1>9. (i = PieceCount) = FALSE
  BY <1>5, Zenon
<1>10. ~Authentic(Piece(i), i - 1, i = PieceCount)
  BY <1>5, <1>7, <1>9, Zenon
<1>11. QED
  BY <1>8, <1>10, VerdictBad, Zenon

(* After frames that opened, what is left for the final one decides.       *)
LEMMA VerdictFinal ==
    ASSUME WireType, NEW k \in Nat, Opened(wire, k),
           k = 0 \/ Start(k) < Len(wire), Len(wire) <= Start(k + 1)
    PROVE  Verdict = IF Len(wire) - Start(k) < TagLen THEN "InvalidCiphertext"
                     ELSE IF Authentic(Part(wire, Start(k), Len(wire)), k, TRUE)
                       THEN "Ok" ELSE "AuthFailed"
<1>1. Len(wire) \in Nat /\ Start(k) \in Nat /\ k - 1 + 1 = k
  BY StartType DEF WireType
<1>2. CASE Len(wire) = 0
  <2>1. PieceCount = 0 /\ Start(k) = 0
    <3>1. k = 0
      BY <1>1, <1>2
    <3>2. QED
      BY <1>2, <3>1, PieceCountZero, StartStep, Zenon
  <2>2. Verdict = "InvalidCiphertext"
    <3>1. 1..PieceCount = {}
      BY <2>1
    <3>2. QED
      BY <3>1, VerdictGood, Zenon
  <2>3. QED
    BY <1>2, <2>1, <2>2, ChunksPositive
<1>3. CASE Len(wire) # 0
  <2>1. Start(k) < Len(wire)
    BY <1>1, <1>3, StartStep
  <2>2. PieceCount = k + 1 /\ PieceCount \in 1..PieceCount /\ PieceCount - 1 = k
    BY <2>1, PieceCountIs
  <2>3. Piece(PieceCount) = Part(wire, Start(k), Len(wire))
    BY <2>2, Zenon DEF Piece, Part, Start
  <2>4. Len(Piece(PieceCount)) = Len(wire) - Start(k)
    <3>1. Start(k) <= Len(wire) /\ Len(wire) <= Len(wire) /\ wire \in Seq(Cell)
      BY <1>1, <2>1 DEF WireType
    <3>2. QED
      BY <1>1, <2>3, <3>1, PartIsSeq, Zenon
  <2>5. ASSUME NEW i \in 1..PieceCount, i # PieceCount
        PROVE  Authentic(Piece(i), i - 1, FALSE)
    <3>1. PICK j \in Nat : j = i - 1 /\ j + 1 = i
      OBVIOUS
    <3>2. i \in 1..k
      BY <2>2, <2>5
    <3>3. sameKey /\ i < Len(sealed) /\ Part(wire, Start(i - 1), Start(i)) = Sent(i)
      BY <3>2 DEF Opened
    <3>4. i \in 1..Len(sealed) /\ ~(i = Len(sealed))
      BY <3>2, <3>3, SealedCount
    <3>5. Piece(i) = Sent(i)
      BY <2>5, <3>3, PieceInner, Zenon
    <3>6. Authentic(Piece(i), j, FALSE)
      BY <3>1, <3>3, <3>4, <3>5, AuthenticIs, Zenon
    <3>7. QED
      BY <3>1, <3>6, Zenon
  <2>6. ASSUME Len(wire) - Start(k) >= TagLen,
               ~Authentic(Part(wire, Start(k), Len(wire)), k, TRUE)
        PROVE  Verdict = "AuthFailed"
    BY <2>2, <2>3, <2>4, <2>6, VerdictBad, Zenon
  <2>7. ASSUME Len(wire) - Start(k) >= TagLen =>
                 Authentic(Part(wire, Start(k), Len(wire)), k, TRUE)
        PROVE  Verdict = IF Len(wire) - Start(k) >= TagLen THEN "Ok" ELSE "InvalidCiphertext"
    <3>1. ASSUME NEW i \in 1..PieceCount, Len(Piece(i)) >= TagLen
          PROVE  Authentic(Piece(i), i - 1, i = PieceCount)
      <4>1. CASE i = PieceCount
        BY <2>2, <2>3, <2>4, <2>7, <3>1, <4>1, Zenon
      <4>2. CASE i # PieceCount
        <5>1. (i = PieceCount) = FALSE
          BY <4>2, Zenon
        <5>2. QED
          BY <2>5, <4>2, <5>1, Zenon
      <4>3. QED
        BY <4>1, <4>2
    <3>2. QED
      BY <2>2, <2>4, <3>1, VerdictGood, Zenon
  <2>8. Len(wire) - Start(k) < TagLen <=> ~(Len(wire) - Start(k) >= TagLen)
    BY <1>1, ChunksPositive
  <2>9. QED
    BY <2>6, <2>7, <2>8, Zenon
<1>4. QED
  BY <1>2, <1>3
=============================================================================
