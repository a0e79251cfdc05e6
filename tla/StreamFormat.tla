---------------------------- MODULE StreamFormat ----------------------------
(***************************************************************************)
(* The STREAM wire format that PqForgeStream (Dart) and the native file    *)
(* pipeline (Rust) both promise to write, as a machine that appends one    *)
(* frame at a time: what a reader of the ciphertext may rely on, with no   *)
(* mention of how a sealer gets there.                                     *)
(***************************************************************************)
EXTENDS StreamFrames

VARIABLE frames

Closed == frames # << >> /\ frames[Len(frames)].last

Init == frames = << >>

(* A frame that is not the last carries exactly ChunkSize bytes.           *)
EmitFull ==
    /\ ~Closed
    /\ frames' = Append(frames,
                   Seal(Run(Base(Len(frames)), ChunkSize), Len(frames), FALSE))

(* The last frame carries what is left: at most ChunkSize bytes, and none  *)
(* only when the whole plaintext is empty.                                 *)
EmitLast ==
    /\ ~Closed
    /\ \E n \in 0..ChunkSize :
         /\ n = 0 => frames = << >>
         /\ frames' = Append(frames,
                        Seal(Run(Base(Len(frames)), n), Len(frames), TRUE))

Next == EmitFull \/ EmitLast

Spec == Init /\ [][Next]_frames
=============================================================================
