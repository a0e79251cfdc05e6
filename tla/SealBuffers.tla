---------------------------- MODULE SealBuffers ----------------------------
(***************************************************************************)
(* Whose memory PqForgeStream.seal works in.  _concat returns the event    *)
(* itself, uncopied, when nothing is carried and the event is a Uint8List, *)
(* and what the generator keeps of it is cut out as views.  A source that  *)
(* is asked for its next event may refill the buffer of the last one.      *)
(*                                                                         *)
(* The variables only observe DartSeal: each action of this module is one  *)
(* of DartSeal's with its effect on memory, and Refill is the source's.    *)
(***************************************************************************)
EXTENDS DartSeal

VARIABLES shared,           \* locals lying in memory the source owns
          damaged,          \* locals whose bytes were overwritten
          spoiled           \* a frame was sealed from overwritten bytes

memVars == <<shared, damaged, spoiled>>
allVars == <<vars, memVars>>

Locals == {"combined", "pending", "carry"}

MemInit ==
    /\ Init
    /\ shared = {}
    /\ damaged = {}
    /\ spoiled = FALSE

Mark(set, local, holds) == IF holds THEN set \union {local} ELSE set \ {local}

(* _concat: the event's own buffer, or a copy of carry and event.          *)
Concat(uncopied) ==
    /\ shared' = Mark(shared, "combined", carry = << >> /\ uncopied)
    /\ damaged' = Mark(damaged, "combined", carry # << >> /\ "carry" \in damaged)
    /\ UNCHANGED spoiled

(* mutant: the view is kept, not a copy of what it shows                   *)
KeepView(local) ==
    /\ shared' = Mark(shared, local, "combined" \in shared)
    /\ damaged' = Mark(damaged, local, "combined" \in damaged)

(* Uint8List.fromList(Uint8List.sublistView(combined, ...)).               *)
KeepCopy(local) ==
    /\ shared' = Mark(shared, local, FALSE)
    /\ damaged' = Mark(damaged, local, "combined" \in damaged)

Sealing(local) == spoiled' = (spoiled \/ local \in damaged)

MemEvent(n) == Event(n) /\ \E uncopied \in BOOLEAN : Concat(uncopied)

MemTakeChunk ==
    /\ TakeChunk
    /\ KeepCopy("pending")
    /\ IF pending = NULL THEN UNCHANGED spoiled ELSE Sealing("pending")

MemEndEvent == EndEvent /\ KeepCopy("carry") /\ UNCHANGED spoiled

MemFlush ==
    /\ \/ (FlushPending \/ FinalPending) /\ Sealing("pending")
       \/ FinalCarry /\ Sealing("carry")
       \/ FinalEmpty /\ UNCHANGED spoiled
    /\ UNCHANGED <<shared, damaged>>

(* The generator waits in `await for', which has resumed the subscription: *)
(* the source reads its next event into the buffer it gave before.         *)
Refill ==
    /\ phase = "await"
    /\ damaged' = damaged \union shared
    /\ UNCHANGED <<vars, shared, spoiled>>

MemStep == MemTakeChunk \/ MemEndEvent \/ MemFlush

Quiet == Refuse \/ Listen \/ SourceEnds \/ SourceFails \/ SealThrows \/ Cancel

MemNext ==
    \/ \E n \in 0..MaxEvent : MemEvent(n)
    \/ MemStep
    \/ Quiet /\ UNCHANGED memVars
    \/ Refill

MemSpec == MemInit /\ [][MemNext]_allVars

-----------------------------------------------------------------------------
(* A source may reuse its buffer as soon as it is asked for more: no frame *)
(* is ever sealed from bytes that were overwritten after they were         *)
(* delivered.  What the generator holds while it waits (the whole chunk in *)
(* `pending', the rest in `carry') is its own.                             *)
BuffersReturned == ~spoiled
=============================================================================
