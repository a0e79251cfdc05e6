---------------------------- MODULE StreamOpening ----------------------------
(***************************************************************************)
(* What an opener of a stream promises to whoever reads its output, with   *)
(* no mention of what arrives or how it is read: chunks come out in the    *)
(* order they were sealed, none missing in between; the opener completes   *)
(* only when all of them are out, and says nothing after its verdict.      *)
(***************************************************************************)
EXTENDS Naturals, Sequences

VARIABLES chunks,           \* the chunks that were sealed
          released,         \* the chunks that have come out
          verdict           \* "open", "complete" or "failed"

Init ==
    /\ released = << >>
    /\ verdict = "open"

Release ==
    /\ Len(released) < Len(chunks)
    /\ released' = Append(released, chunks[Len(released) + 1])

(* A failure may come at any time, also with the last chunk released.      *)
Next ==
    /\ verdict = "open"
    /\ Release \/ UNCHANGED released
    /\ \/ verdict' \in {"open", "failed"}
       \/ verdict' = "complete" /\ released' = chunks
    /\ UNCHANGED chunks

Spec == Init /\ [][Next]_<<chunks, released, verdict>>
=============================================================================
