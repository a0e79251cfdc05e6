-------------------------- MODULE NativeCallProofs --------------------------
(***************************************************************************)
(* Proofs about NativeCall for any number of isolates, any heap, any       *)
(* allocator and any pages: types and ownership of memory, whole results,  *)
(* nothing left behind; keys locked until wiped, when no two of them share *)
(* a page; and when, with one self-test at a time, a panic can go          *)
(* unreported.                                                             *)
(***************************************************************************)
EXTENDS NativeCall, TLAPS

(* What a native function writes is what its caller allocates outputs for, *)
(* and Ok is no refusal.                                                   *)
Sound(native, outs) ==
    /\ native.writes = outs
    /\ native.refusals \subseteq DOMAIN PqForgeStatus \ {"Ok"}

WellFormed(o) == o.ins \in 0..4 /\ o.outs \in 0..2 /\ Sound(o.native, o.outs)

LEMMA NativeSound ==
    ASSUME NEW outs, NEW refusals \in SUBSET (DOMAIN PqForgeStatus \ {"Ok"})
    PROVE  Sound(Native(refusals, outs), outs)
BY DEF Sound, Native

LEMMA MarshalWellFormed ==
    ASSUME NEW natives, NEW ins \in SUBSET (0..4), NEW outs \in 0..2,
           \A n \in natives : Sound(n, outs)
    PROVE  \A o \in Marshal(natives, ins, outs) : WellFormed(o)
BY DEF Marshal, WellFormed

(* Only Ok is 0, and every code is in the table.                           *)
LEMMA StatusNumbers ==
    \A status \in DOMAIN PqForgeStatus :
        /\ PqForgeStatus[status] \in 0..11
        /\ PqForgeStatus[status] = PqForgeStatus["Ok"] => status = "Ok"
BY DEF PqForgeStatus

LEMMA Refusals ==
    {"Internal", "InvalidKey", "InvalidCiphertext", "AuthFailed", "Io"}
        \subseteq DOMAIN PqForgeStatus \ {"Ok"}
BY DEF PqForgeStatus

(* Every operation is well-formed, and so is the one of an idle call.      *)
LEMMA OperationsWellFormed == \A o \in Operations \union {NoOp} : WellFormed(o)
<1>1. \A o \in _keygen : WellFormed(o)
  <2>1. \A n \in {pqforge_mlkem_keygen, pqforge_mldsa_keygen} : Sound(n, 2)
    BY NativeSound, Refusals DEF pqforge_mlkem_keygen, pqforge_mldsa_keygen
  <2>2. {0} \in SUBSET (0..4) /\ 2 \in 0..2
    OBVIOUS
  <2>3. QED
    BY <2>1, <2>2, MarshalWellFormed DEF _keygen
<1>2. \A o \in kemEncapsulate : WellFormed(o)
  <2>1. \A n \in {pqforge_mlkem_encapsulate} : Sound(n, 2)
    BY NativeSound, Refusals DEF pqforge_mlkem_encapsulate
  <2>2. {1} \in SUBSET (0..4) /\ 2 \in 0..2
    OBVIOUS
  <2>3. QED
    BY <2>1, <2>2, MarshalWellFormed DEF kemEncapsulate
<1>3. \A o \in signGenerateFromSeed : WellFormed(o)
  <2>1. \A n \in {pqforge_mldsa_keygen_from_seed} : Sound(n, 2)
    BY NativeSound, Refusals DEF pqforge_mldsa_keygen_from_seed
  <2>2. {1} \in SUBSET (0..4) /\ 2 \in 0..2
    OBVIOUS
  <2>3. QED
    BY <2>1, <2>2, MarshalWellFormed DEF signGenerateFromSeed
<1>4. \A o \in _twoInOneOut : WellFormed(o)
  <2>1. \A n \in {pqforge_mlkem_decapsulate, pqforge_mldsa_sign} : Sound(n, 1)
    BY NativeSound, Refusals DEF pqforge_mlkem_decapsulate, pqforge_mldsa_sign
  <2>2. {2} \in SUBSET (0..4) /\ 1 \in 0..2
    OBVIOUS
  <2>3. QED
    BY <2>1, <2>2, MarshalWellFormed DEF _twoInOneOut
<1>5. \A o \in _aead : WellFormed(o)
  <2>1. \A n \in {pqforge_aead_seal, pqforge_aead_open} : Sound(n, 1)
    BY NativeSound, Refusals DEF pqforge_aead_seal, pqforge_aead_open
  <2>2. {4} \in SUBSET (0..4) /\ 1 \in 0..2
    OBVIOUS
  <2>3. QED
    BY <2>1, <2>2, MarshalWellFormed DEF _aead
<1>6. \A o \in _classicalKeygen : WellFormed(o)
  <2>1. \A n \in {pqforge_x25519_keygen, pqforge_ed25519_keygen} : Sound(n, 2)
    BY NativeSound, Refusals DEF pqforge_x25519_keygen, pqforge_ed25519_keygen
  <2>2. {0, 1} \in SUBSET (0..4) /\ 2 \in 0..2
    OBVIOUS
  <2>3. QED
    BY <2>1, <2>2, MarshalWellFormed DEF _classicalKeygen
<1>7. \A o \in _classicalTwoInOneOut : WellFormed(o)
  <2>1. \A n \in {pqforge_x25519_ecdh, pqforge_ed25519_sign} : Sound(n, 1)
    BY NativeSound, Refusals DEF pqforge_x25519_ecdh, pqforge_ed25519_sign
  <2>2. {2} \in SUBSET (0..4) /\ 1 \in 0..2
    OBVIOUS
  <2>3. QED
    BY <2>1, <2>2, MarshalWellFormed DEF _classicalTwoInOneOut
<1>8. \A o \in ed25519PublicFromSeed : WellFormed(o)
  <2>1. \A n \in {pqforge_ed25519_public_from_seed} : Sound(n, 1)
    BY NativeSound, Refusals DEF pqforge_ed25519_public_from_seed
  <2>2. {1} \in SUBSET (0..4) /\ 1 \in 0..2
    OBVIOUS
  <2>3. QED
    BY <2>1, <2>2, MarshalWellFormed DEF ed25519PublicFromSeed
<1>9. \A o \in verify : WellFormed(o)
  <2>1. \A n \in {pqforge_mldsa_verify} : Sound(n, 0)
    BY NativeSound, Refusals DEF pqforge_mldsa_verify
  <2>2. {3} \in SUBSET (0..4) /\ 0 \in 0..2
    OBVIOUS
  <2>3. QED
    BY <2>1, <2>2, MarshalWellFormed DEF verify
<1>10. \A o \in ed25519Verify : WellFormed(o)
  <2>1. \A n \in {pqforge_ed25519_verify} : Sound(n, 0)
    BY NativeSound, Refusals DEF pqforge_ed25519_verify
  <2>2. {3} \in SUBSET (0..4) /\ 0 \in 0..2
    OBVIOUS
  <2>3. QED
    BY <2>1, <2>2, MarshalWellFormed DEF ed25519Verify
<1>11. \A o \in _run : WellFormed(o)
  <2>1. \A n \in FileFunctions : Sound(n, 0)
    BY NativeSound, Refusals DEF pqforge_stream_seal_file, pqforge_stream_open_file, FileFunctions
  <2>2. {4} \in SUBSET (0..4) /\ 0 \in 0..2
    OBVIOUS
  <2>3. QED
    BY <2>1, <2>2, MarshalWellFormed DEF _run
<1>12. WellFormed(NoOp)
  <2>1. Sound(Native({}, 0), 0)
    BY NativeSound
  <2>2. QED
    BY <2>1 DEF WellFormed, NoOp
<1>13. QED
  BY <1>1, <1>2, <1>3, <1>4, <1>5, <1>6, <1>7, <1>8, <1>9, <1>10, <1>11, <1>12 DEF Operations

(* Between the allocation and the end of the finally block.                *)
Active(c) == pc[c] \in {"native", "drop", "back", "finally"}

Blocks == UNION {[1..n -> Heap] : n \in Nat}

(* The types, and the domains of what holds values of any kind.            *)
Types ==
    /\ pc \in [Calls -> {"idle", "native", "drop", "back", "finally", "leaked"}]
    /\ op \in [Calls -> Operations \union {NoOp}]
    /\ blocks \in [Calls -> Blocks]
    /\ owner \in [Heap -> Calls \union {Nobody}]
    /\ cell \in [Heap -> Contents]
    /\ rc \in [Calls -> -1..11]
    /\ written \in [Calls -> 0..2]
    /\ result = [c \in Calls |-> result[c]]
    /\ secret \in [Calls -> Secret]
    /\ resident \in SUBSET Pages

(* What a call lists is what it owns, each block once; while it is active  *)
(* it has all the blocks of its operation.                                 *)
OwnInv ==
    \A c \in Calls :
        /\ {blocks[c][i] : i \in DOMAIN blocks[c]} = {a \in Heap : owner[a] = c}
        /\ \A i, j \in DOMAIN blocks[c] : blocks[c][i] = blocks[c][j] => i = j
        /\ pc[c] = "idle" => blocks[c] = << >> /\ op[c] = NoOp /\ written[c] = 0
        /\ pc[c] = "leaked" => op[c] = NoOp /\ written[c] = 0
        /\ Active(c) => op[c] \in Operations /\ blocks[c] \in [1..Needed(op[c]) -> Heap]

(* The outputs written so far are in place, each with its length; a call   *)
(* that returned Ok has written all of them, and keeps them for the copy.  *)
InPlace(c, k) ==
    /\ cell[OutBlock(c, k)] = << "out", c, k >>
    /\ cell[LenBlock(c, k)] = << "len", Capacity >>

Written(c) ==
    /\ written[c] <= op[c].native.writes
    /\ pc[c] \in {"native", "drop", "back"} => \A k \in 1..written[c] : InPlace(c, k)
    /\ pc[c] \in {"drop", "back", "finally"} /\ Ok(c) =>
         written[c] = op[c].native.writes
    /\ pc[c] = "finally" /\ Ok(c) /\ op[c].outs > 0 =>
         result[c] = [k \in 1..op[c].native.writes |->
                         << << "out", c, k >>, << "len", Capacity >> >>]

WrittenInv == \A c \in Calls : Written(c)

(* The secret keeps its page locked: locked, and not unlocked since.       *)
Keeps(s, page) == s.locked /\ s.page = page /\ s.stage # "unlocked"

(* A key is held by native code only, is wiped before its drop gets any    *)
(* further, and every locked page is the page of a key that keeps it.      *)
SecretInv ==
    /\ \A c \in Calls : Holds(c) => pc[c] \in {"native", "drop"}
    /\ \A c \in Calls : secret[c].stage # "live" => secret[c].bytes = "zero"
    /\ \A page \in resident : \E c \in Calls : Keeps(secret[c], page)

CallInv == Types /\ OwnInv /\ WrittenInv /\ SecretInv

LEMMA NothingAllocated == << >> \in Blocks
<1>1. << >> \in [1..0 -> Heap] /\ 0 \in Nat
  OBVIOUS
<1>2. QED
  BY <1>1 DEF Blocks

LEMMA TypesInit == Init => Types
<1>1. NoSecret \in Secret
  BY DEF Secret
<1>2. QED
  BY <1>1, NothingAllocated DEF Init, SecretInit, Types, Contents

(* What taking the blocks s for a call changes, and that they were free.   *)
Taken(c, o, n, s) ==
    /\ \A i \in 1..n : owner[s[i]] = Nobody
    /\ \A i, j \in 1..n : s[i] = s[j] => i = j
    /\ blocks' = [blocks EXCEPT ![c] = s]
    /\ owner' = [a \in Heap |-> IF \E i \in 1..n : s[i] = a THEN c ELSE owner[a]]
    /\ cell' = [a \in Heap |->
         IF \E i \in 1..n : i <= o.ins /\ s[i] = a THEN Input ELSE cell[a]]

(* A call takes blocks that were free, each once, and holds nothing else.  *)
LEMMA TakeIsSound ==
    ASSUME NEW c \in Calls, NEW o, NEW n \in Nat, Take(c, o, n), Types
    PROVE  \E s \in [1..n -> Heap] : Taken(c, o, n, s)
<1>1. n \in 0..Addresses
  BY AddressesFinite DEF Take
<1>2. Free \in SUBSET Heap
  BY DEF Free
<1>3. PICK s \in Allocations(Free, n) :
        /\ blocks' = [blocks EXCEPT ![c] = s]
        /\ owner' = [a \in Heap |-> IF \E i \in 1..n : s[i] = a THEN c ELSE owner[a]]
        /\ cell' = [a \in Heap |->
             IF \E i \in 1..n : i <= o.ins /\ s[i] = a THEN Input ELSE cell[a]]
  BY DEF Take
<1>4. s \in [1..n -> Free] /\ \A i, j \in 1..n : s[i] = s[j] => i = j
  BY <1>1, <1>2, <1>3, AllocatorSound
<1>5. s \in [1..n -> Heap] /\ \A i \in 1..n : owner[s[i]] = Nobody
  BY <1>4 DEF Free
<1>6. Taken(c, o, n, s)
  BY <1>3, <1>4, <1>5 DEF Taken
<1>7. QED
  BY <1>5, <1>6

LEMMA TakeTypes ==
    ASSUME NEW c \in Calls, NEW o, NEW n \in Nat, Take(c, o, n), Types
    PROVE  /\ blocks' \in [Calls -> Blocks]
           /\ owner' \in [Heap -> Calls \union {Nobody}]
           /\ cell' \in [Heap -> Contents]
<1>1. PICK s \in [1..n -> Heap] : Taken(c, o, n, s)
  BY TakeIsSound
<1>2. s \in Blocks
  BY DEF Blocks
<1>3. Input \in Contents
  BY DEF Contents
<1>4. QED
  BY <1>1, <1>2, <1>3 DEF Types, Taken

(* Every status is a code.                                                 *)
LEMMA FinishTypes ==
    ASSUME NEW c \in Calls, NEW status \in DOMAIN PqForgeStatus, Finish(c, status), Types
    PROVE  /\ rc' \in [Calls -> -1..11]
           /\ pc' \in [Calls -> {"idle", "native", "drop", "back", "finally", "leaked"}]
           /\ UNCHANGED <<secret, resident>>
<1>1. PqForgeStatus[status] \in -1..11
  BY StatusNumbers
<1>2. QED
  BY <1>1 DEF Finish, Types, Goto, secretVars

LEMMA TypesNext == Types /\ [Next]_vars => Types'
<1> SUFFICES ASSUME Types, [Next]_vars PROVE Types'
  OBVIOUS
<1>1. ASSUME NEW c \in Calls, Begin(c) PROVE Types'
  <2>1. PICK o \in Operations : op' = [op EXCEPT ![c] = o] /\ Take(c, o, Needed(o))
    BY <1>1 DEF Begin
  <2>2. Needed(o) \in Nat
    BY OperationsWellFormed DEF WellFormed, Needed
  <2>3. /\ blocks' \in [Calls -> Blocks]
        /\ owner' \in [Heap -> Calls \union {Nobody}]
        /\ cell' \in [Heap -> Contents]
    BY <2>1, <2>2, TakeTypes
  <2>4. QED
    BY <1>1, <2>1, <2>3 DEF Types, Begin, Goto, secretVars
<1>2. ASSUME NEW c \in Calls, AllocFails(c) PROVE Types'
  <2>1. PICK o \in Operations : \E n \in 0..(Needed(o) - 1) : Take(c, o, n)
    BY <1>2 DEF AllocFails
  <2>2. PICK n \in 0..(Needed(o) - 1) : Take(c, o, n)
    BY <2>1
  <2>3. /\ blocks' \in [Calls -> Blocks]
        /\ owner' \in [Heap -> Calls \union {Nobody}]
        /\ cell' \in [Heap -> Contents]
    BY <2>1, <2>2, TakeTypes
  <2>4. QED
    BY <1>2, <2>3 DEF Types, AllocFails, Goto, secretVars
<1>3. ASSUME NEW c \in Calls,
             PinKey(c) \/ DropWipes(c) \/ DropUnlocks(c) \/ DropFrees(c)
      PROVE  Types'
  <2>1. secret' \in [Calls -> Secret] /\ resident' \in SUBSET Pages
    <3>1. CASE PinKey(c)
      BY <3>1 DEF PinKey, from_slice, Types, Secret
    <3>2. CASE DropWipes(c)
      BY <3>2 DEF DropWipes, Zeroize, Types, Secret, Holds
    <3>3. CASE DropUnlocks(c)
      BY <3>3 DEF DropUnlocks, Unlock, Types, Secret, NoSecret
    <3>4. CASE DropFrees(c)
      BY <3>4 DEF DropFrees, Dealloc, Types, Secret
    <3>5. QED
      BY <1>3, <3>1, <3>2, <3>3, <3>4
  <2>2. \/ UNCHANGED callVars
        \/ /\ UNCHANGED <<op, blocks, owner, cell, rc, written, result, panic>>
           /\ Goto(c, "back")
    BY <1>3 DEF PinKey, DropWipes, DropUnlocks, DropFrees
  <2>3. QED
    BY <2>1, <2>2 DEF Types, callVars, Goto
<1>4. ASSUME NEW c \in Calls, Refuse(c) \/ Panics(c) \/ NativeOk(c) PROVE Types'
  <2>1. PICK status \in DOMAIN PqForgeStatus : Finish(c, status)
    <3>1. CASE Refuse(c)
      <4>1. op[c].native.refusals \subseteq DOMAIN PqForgeStatus
        BY OperationsWellFormed DEF Types, WellFormed, Sound
      <4>2. QED
        BY <3>1, <4>1 DEF Refuse
    <3>2. CASE Panics(c)
      BY <3>2, Refusals DEF Panics
    <3>3. CASE NativeOk(c)
      BY <3>3 DEF NativeOk, PqForgeStatus
    <3>4. QED
      BY <1>4, <3>1, <3>2, <3>3
  <2>2. UNCHANGED <<op, blocks, owner, cell, written, result>>
    BY <1>4 DEF Refuse, Panics, NativeOk
  <2>3. QED
    BY <2>1, <2>2, FinishTypes DEF Types
<1>5. ASSUME NEW c \in Calls, WriteOut(c) PROVE Types'
  <2> DEFINE k == written[c] + 1
  <2>1. k \in {1, 2}
    <3>1. op[c].native.writes \in 0..2
      BY OperationsWellFormed DEF Types, WellFormed, Sound
    <3>2. written[c] \in 0..2
      BY DEF Types
    <3>3. QED
      BY <1>5, <3>1, <3>2 DEF WriteOut
  <2>2. PICK need \in {Capacity, Capacity + 1} :
          /\ cell' = [a \in Heap |->
               CASE a = LenBlock(c, k) -> << "len", need >>
                 [] a = OutBlock(c, k) /\ need <= Capacity -> << "out", c, k >>
                 [] OTHER -> cell[a]]
          /\ Wrote(c, k, need)
    BY <1>5 DEF WriteOut
  <2>3. << "len", need >> \in Contents /\ << "out", c, k >> \in Contents
    BY <2>1 DEF Contents
  <2>4. cell' \in [Heap -> Contents]
    BY <2>2, <2>3 DEF Types
  <2>5. \/ written' = [written EXCEPT ![c] = k] /\ UNCHANGED <<pc, rc, secret, resident>>
        \/ Finish(c, "BufferTooSmall") /\ UNCHANGED written
    BY <2>2 DEF Wrote, secretVars
  <2>6. UNCHANGED <<op, blocks, owner, result>>
    BY <1>5 DEF WriteOut
  <2>7. CASE written' = [written EXCEPT ![c] = k] /\ UNCHANGED <<pc, rc, secret, resident>>
    BY <2>1, <2>4, <2>6, <2>7 DEF Types
  <2>8. CASE Finish(c, "BufferTooSmall") /\ UNCHANGED written
    <3>1. "BufferTooSmall" \in DOMAIN PqForgeStatus
      BY DEF PqForgeStatus
    <3>2. QED
      BY <2>4, <2>6, <2>8, <3>1, FinishTypes DEF Types
  <2>9. QED
    BY <2>5, <2>7, <2>8
<1>6. ASSUME NEW c \in Calls, Verdict(c) \/ Throw(c) \/ CopyBack(c) PROVE Types'
  BY <1>6 DEF Verdict, Throw, CopyBack, Goto, Types, secretVars
<1>7. ASSUME NEW c \in Calls, Finally(c) PROVE Types'
  <2>1. /\ cell' = [a \in Heap |-> IF a \in Freed(c) THEN Zero ELSE cell[a]]
        /\ owner' = [a \in Heap |-> IF a \in Freed(c) THEN Nobody ELSE owner[a]]
        /\ blocks' = [blocks EXCEPT ![c] = << >>]
    BY <1>7 DEF Finally, Release
  <2>2. /\ cell' \in [Heap -> Contents]
        /\ owner' \in [Heap -> Calls \union {Nobody}]
        /\ blocks' \in [Calls -> Blocks]
    <3>1. Zero \in Contents
      BY DEF Contents
    <3>2. QED
      BY <2>1, <3>1, NothingAllocated DEF Types
  <2>3. /\ pc' = [pc EXCEPT ![c] = "idle"]
        /\ op' = [op EXCEPT ![c] = NoOp]
        /\ rc' = [rc EXCEPT ![c] = -1]
        /\ written' = [written EXCEPT ![c] = 0]
        /\ result' = [result EXCEPT ![c] = << >>]
        /\ UNCHANGED <<secret, resident>>
    BY <1>7 DEF Finally, Returned, Goto, secretVars
  <2>4. result' = [d \in Calls |-> result'[d]]
    BY <2>3 DEF Types
  <2>5. /\ pc' \in [Calls -> {"idle", "native", "drop", "back", "finally", "leaked"}]
        /\ op' \in [Calls -> Operations \union {NoOp}]
        /\ rc' \in [Calls -> -1..11]
        /\ written' \in [Calls -> 0..2]
    BY <2>3 DEF Types
  <2>6. QED
    BY <2>2, <2>3, <2>4, <2>5 DEF Types
<1>8. CASE SelfTest /\ UNCHANGED <<callVars, secretVars>>
  BY <1>8 DEF callVars, secretVars, Types
<1>9. CASE UNCHANGED vars
  BY <1>9 DEF vars, callVars, secretVars, Types
<1>10. QED
  BY <1>1, <1>2, <1>3, <1>4, <1>5, <1>6, <1>7, <1>8, <1>9 DEF Next, Step

-----------------------------------------------------------------------------
(* The steps between the allocation and the finally block.                 *)
Inner(c) ==
    \/ PinKey(c) \/ Refuse(c) \/ Panics(c) \/ WriteOut(c) \/ NativeOk(c)
    \/ DropWipes(c) \/ DropUnlocks(c) \/ DropFrees(c)
    \/ Verdict(c) \/ Throw(c) \/ CopyBack(c)

LEMMA NextCases ==
    ASSUME [Next]_vars
    PROVE  \/ \E c \in Calls : Begin(c) \/ AllocFails(c) \/ Inner(c) \/ Finally(c)
           \/ UNCHANGED <<callVars, secretVars>>
BY DEF Next, Step, Inner, vars

(* A step of one call is no step of another.                               *)
Apart(c) ==
    \A d \in Calls \ {c} :
        /\ pc'[d] = pc[d]
        /\ op'[d] = op[d]
        /\ blocks'[d] = blocks[d]
        /\ rc'[d] = rc[d]
        /\ written'[d] = written[d]
        /\ result'[d] = result[d]
        /\ secret'[d] = secret[d]

LEMMA FinishSteps ==
    ASSUME NEW c \in Calls, NEW status, Finish(c, status), Types
    PROVE  /\ pc'[c] = IF Holds(c) THEN "drop" ELSE "back"
           /\ rc'[c] = PqForgeStatus[status]
           /\ \A d \in Calls \ {c} : pc'[d] = pc[d] /\ rc'[d] = rc[d]
           /\ UNCHANGED <<secret, resident>>
BY DEF Finish, Goto, Types, secretVars

LEMMA InnerSteps ==
    ASSUME NEW c \in Calls, Inner(c), Types
    PROVE  /\ Active(c) /\ Active(c)'
           /\ UNCHANGED <<op, blocks, owner>>
           /\ Apart(c)
<1>1. CASE PinKey(c)
  BY <1>1 DEF PinKey, from_slice, Types, callVars, Apart, Active
<1>2. CASE Refuse(c)
  <2>1. PICK status : Finish(c, status)
    BY <1>2 DEF Refuse
  <2>2. QED
    BY <1>2, <2>1, FinishSteps DEF Refuse, Ready, Apart, Active
<1>3. CASE Panics(c)
  BY <1>3, FinishSteps DEF Panics, Ready, Apart, Active
<1>4. CASE WriteOut(c)
  <2>1. UNCHANGED <<op, blocks, owner, result>> /\ pc[c] = "native"
    BY <1>4 DEF WriteOut, Ready
  <2>2. \/ /\ written' = [written EXCEPT ![c] = written[c] + 1]
           /\ UNCHANGED <<pc, rc, secret, resident>>
        \/ Finish(c, "BufferTooSmall") /\ UNCHANGED written
    BY <1>4 DEF WriteOut, Wrote, secretVars
  <2>3. QED
    BY <2>1, <2>2, FinishSteps DEF Apart, Active, Types
<1>5. CASE NativeOk(c)
  BY <1>5, FinishSteps DEF NativeOk, Ready, Apart, Active
<1>6. CASE DropWipes(c)
  BY <1>6 DEF DropWipes, Zeroize, Types, callVars, Apart, Active
<1>7. CASE DropUnlocks(c)
  BY <1>7 DEF DropUnlocks, Unlock, Types, callVars, Apart, Active
<1>8. CASE DropFrees(c)
  BY <1>8 DEF DropFrees, Dealloc, Goto, Types, Apart, Active
<1>9. CASE Verdict(c) \/ Throw(c) \/ CopyBack(c)
  BY <1>9 DEF Verdict, Throw, CopyBack, Goto, Types, secretVars, Apart, Active
<1>10. QED
  BY <1>1, <1>2, <1>3, <1>4, <1>5, <1>6, <1>7, <1>8, <1>9 DEF Inner

LEMMA BeginSteps ==
    ASSUME NEW c \in Calls, Begin(c) \/ AllocFails(c), Types
    PROVE  /\ pc[c] = "idle" /\ pc'[c] \in {"native", "leaked"}
           /\ Apart(c)
           /\ rc' = rc /\ written' = written /\ UNCHANGED <<secret, resident>>
<1>1. \E s : blocks' = [blocks EXCEPT ![c] = s]
  BY DEF Begin, AllocFails, Take
<1>2. /\ pc[c] = "idle"
      /\ \/ pc' = [pc EXCEPT ![c] = "native"]
         \/ pc' = [pc EXCEPT ![c] = "leaked"]
      /\ op' = op \/ \E o : op' = [op EXCEPT ![c] = o]
      /\ result' = result \/ \E r : result' = [result EXCEPT ![c] = r]
      /\ UNCHANGED <<rc, written, secret, resident>>
  BY DEF Begin, AllocFails, Goto, secretVars
<1>3. QED
  BY <1>1, <1>2 DEF Apart, Types

LEMMA FinallySteps ==
    ASSUME NEW c \in Calls, Finally(c), Types
    PROVE  /\ pc[c] = "finally" /\ pc'[c] = "idle" /\ op'[c] = NoOp
           /\ blocks'[c] = << >> /\ written'[c] = 0
           /\ Apart(c)
           /\ UNCHANGED <<secret, resident>>
BY DEF Finally, Release, Returned, Goto, Types, Apart, secretVars

-----------------------------------------------------------------------------
LEMMA OwnInit == Init => OwnInv
BY NobodyIsNoCall DEF Init, OwnInv, Active

LEMMA TakeOwns ==
    ASSUME NEW c \in Calls, NEW o, NEW n \in Nat, Take(c, o, n), Types, OwnInv,
           pc[c] = "idle"
    PROVE  /\ blocks'[c] \in [1..n -> Heap]
           /\ \A d \in Calls :
                /\ {blocks'[d][i] : i \in DOMAIN blocks'[d]} = {a \in Heap : owner'[a] = d}
                /\ \A i, j \in DOMAIN blocks'[d] : blocks'[d][i] = blocks'[d][j] => i = j
<1>1. PICK s \in [1..n -> Heap] : Taken(c, o, n, s)
  BY TakeIsSound
<1>2. blocks'[c] = s /\ \A d \in Calls \ {c} : blocks'[d] = blocks[d]
  BY <1>1 DEF Types, Taken
<1>3. \A a \in Heap : owner[a] # c
  <2>1. {a \in Heap : owner[a] = c} = {blocks[c][i] : i \in DOMAIN blocks[c]}
    BY DEF OwnInv
  <2>2. DOMAIN blocks[c] = {}
    BY DEF OwnInv
  <2>3. QED
    BY <2>1, <2>2
<1>4. {s[i] : i \in DOMAIN s} = {a \in Heap : owner'[a] = c}
  BY <1>1, <1>3 DEF Taken
<1>5. ASSUME NEW d \in Calls \ {c}
      PROVE  {blocks[d][i] : i \in DOMAIN blocks[d]} = {a \in Heap : owner'[a] = d}
  <2>1. {blocks[d][i] : i \in DOMAIN blocks[d]} = {a \in Heap : owner[a] = d}
    BY DEF OwnInv
  <2>2. \A a \in Heap : owner'[a] = d <=> owner[a] = d
    BY <1>1, NobodyIsNoCall DEF Taken
  <2>3. QED
    BY <2>1, <2>2
<1>6. ASSUME NEW d \in Calls
      PROVE  /\ {blocks'[d][i] : i \in DOMAIN blocks'[d]} = {a \in Heap : owner'[a] = d}
             /\ \A i, j \in DOMAIN blocks'[d] : blocks'[d][i] = blocks'[d][j] => i = j
  <2>1. CASE d = c
    <3>1. \A i, j \in DOMAIN s : s[i] = s[j] => i = j
      BY <1>1 DEF Taken
    <3>2. QED
      BY <1>2, <1>4, <2>1, <3>1
  <2>2. CASE d # c
    <3>1. blocks'[d] = blocks[d]
      BY <1>2, <2>2
    <3>2. QED
      BY <1>5, <2>2, <3>1 DEF OwnInv
  <2>3. QED
    BY <2>1, <2>2
<1>7. QED
  BY <1>2, <1>6

LEMMA OwnNext == Types /\ OwnInv /\ [Next]_vars => OwnInv'
<1> SUFFICES ASSUME Types, OwnInv, [Next]_vars PROVE OwnInv'
  OBVIOUS
<1>1. ASSUME NEW c \in Calls, Begin(c) PROVE OwnInv'
  <2>1. PICK o \in Operations : op' = [op EXCEPT ![c] = o] /\ Take(c, o, Needed(o))
    BY <1>1 DEF Begin
  <2>2. Needed(o) \in Nat /\ pc[c] = "idle"
    BY <1>1, OperationsWellFormed DEF WellFormed, Needed, Begin
  <2>3. /\ blocks'[c] \in [1..Needed(o) -> Heap]
        /\ \A d \in Calls :
             /\ {blocks'[d][i] : i \in DOMAIN blocks'[d]} = {a \in Heap : owner'[a] = d}
             /\ \A i, j \in DOMAIN blocks'[d] : blocks'[d][i] = blocks'[d][j] => i = j
    BY <2>1, <2>2, TakeOwns
  <2>4. op'[c] = o /\ pc'[c] = "native" /\ Apart(c)
    BY <1>1, <2>1, BeginSteps DEF Types, Begin, Goto
  <2>5. QED
    BY <2>3, <2>4 DEF OwnInv, Active, Apart
<1>2. ASSUME NEW c \in Calls, AllocFails(c) PROVE OwnInv'
  <2>1. PICK o \in Operations : \E n \in 0..(Needed(o) - 1) : Take(c, o, n)
    BY <1>2 DEF AllocFails
  <2>2. PICK n \in 0..(Needed(o) - 1) : Take(c, o, n)
    BY <2>1
  <2>3. \A d \in Calls :
          /\ {blocks'[d][i] : i \in DOMAIN blocks'[d]} = {a \in Heap : owner'[a] = d}
          /\ \A i, j \in DOMAIN blocks'[d] : blocks'[d][i] = blocks'[d][j] => i = j
    BY <1>2, <2>2, TakeOwns DEF AllocFails
  <2>4. op' = op /\ written' = written /\ pc[c] = "idle" /\ pc'[c] = "leaked" /\ Apart(c)
    BY <1>2, BeginSteps DEF Types, AllocFails, Goto
  <2>5. QED
    BY <2>3, <2>4 DEF OwnInv, Active, Apart
<1>3. ASSUME NEW c \in Calls, Inner(c) PROVE OwnInv'
  BY <1>3, InnerSteps DEF OwnInv, Active, Apart
<1>4. ASSUME NEW c \in Calls, Finally(c) PROVE OwnInv'
  <2>1. owner' = [a \in Heap |-> IF a \in Freed(c) THEN Nobody ELSE owner[a]]
    BY <1>4 DEF Finally, Release
  <2>2. Freed(c) = {a \in Heap : owner[a] = c}
    BY DEF OwnInv, Freed
  <2>3. {a \in Heap : owner'[a] = c} = {}
    BY <2>1, <2>2, NobodyIsNoCall
  <2>4. ASSUME NEW d \in Calls \ {c}
        PROVE  {a \in Heap : owner'[a] = d} = {a \in Heap : owner[a] = d}
    BY <2>1, <2>2, NobodyIsNoCall
  <2>5. /\ DOMAIN blocks'[c] = {} /\ blocks'[c] = << >> /\ pc'[c] = "idle"
        /\ op'[c] = NoOp /\ written'[c] = 0 /\ Apart(c)
    BY <1>4, FinallySteps
  <2>6. QED
    BY <2>3, <2>4, <2>5 DEF OwnInv, Active, Apart
<1>5. CASE UNCHANGED <<callVars, secretVars>>
  BY <1>5 DEF callVars, OwnInv, Active
<1>6. QED
  BY <1>1, <1>2, <1>3, <1>4, <1>5, NextCases

-----------------------------------------------------------------------------
LEMMA WrittenInit == Init => WrittenInv
BY OperationsWellFormed DEF Init, WrittenInv, Written, WellFormed, Sound

(* An active call owns the blocks of its outputs, and they are all         *)
(* different.                                                              *)
LEMMA Places ==
    ASSUME Types, OwnInv, NEW c \in Calls, Active(c)
    PROVE  /\ op[c].native.writes = op[c].outs
           /\ \A k \in 1..op[c].outs :
                /\ OutBlock(c, k) \in Heap /\ owner[OutBlock(c, k)] = c
                /\ LenBlock(c, k) \in Heap /\ owner[LenBlock(c, k)] = c
                /\ \A j \in 1..op[c].outs :
                     /\ OutBlock(c, k) # LenBlock(c, j)
                     /\ OutBlock(c, k) = OutBlock(c, j) => k = j
                     /\ LenBlock(c, k) = LenBlock(c, j) => k = j
<1>1. WellFormed(op[c])
  BY OperationsWellFormed DEF Types
<1>2. PICK ins \in Nat, outs \in Nat : op[c].ins = ins /\ op[c].outs = outs
  BY <1>1 DEF WellFormed
<1>3. blocks[c] \in [1..(ins + 2 * outs) -> Heap]
  BY <1>2 DEF OwnInv, Needed
<1>4. \A i, j \in 1..(ins + 2 * outs) : blocks[c][i] = blocks[c][j] => i = j
  BY <1>3 DEF OwnInv
<1>5. \A i \in 1..(ins + 2 * outs) : blocks[c][i] \in Heap /\ owner[blocks[c][i]] = c
  <2>1. {blocks[c][i] : i \in DOMAIN blocks[c]} = {a \in Heap : owner[a] = c}
    BY DEF OwnInv
  <2>2. DOMAIN blocks[c] = 1..(ins + 2 * outs)
    BY <1>3
  <2>3. QED
    BY <2>1, <2>2
<1>6. ASSUME NEW k \in 1..outs
      PROVE  /\ ins + k \in 1..(ins + 2 * outs) /\ ins + outs + k \in 1..(ins + 2 * outs)
             /\ \A j \in 1..outs : /\ ins + k # ins + outs + j
                                   /\ ins + k = ins + j => k = j
                                   /\ ins + outs + k = ins + outs + j => k = j
  OBVIOUS
<1>7. op[c].native.writes = op[c].outs
  BY <1>1 DEF WellFormed, Sound
<1>8. ASSUME NEW k \in 1..outs
      PROVE  /\ OutBlock(c, k) \in Heap /\ owner[OutBlock(c, k)] = c
             /\ LenBlock(c, k) \in Heap /\ owner[LenBlock(c, k)] = c
             /\ \A j \in 1..outs : /\ OutBlock(c, k) # LenBlock(c, j)
                                   /\ OutBlock(c, k) = OutBlock(c, j) => k = j
                                   /\ LenBlock(c, k) = LenBlock(c, j) => k = j
  <2>1. OutBlock(c, k) = blocks[c][ins + k] /\ LenBlock(c, k) = blocks[c][ins + outs + k]
    BY <1>2 DEF OutBlock, LenBlock
  <2>2. \A j \in 1..outs : /\ OutBlock(c, j) = blocks[c][ins + j]
                            /\ LenBlock(c, j) = blocks[c][ins + outs + j]
    BY <1>2 DEF OutBlock, LenBlock
  <2>3. QED
    BY <1>4, <1>5, <1>6, <2>1, <2>2
<1>9. QED
  BY <1>2, <1>7, <1>8

(* What a call has in place stays there as long as nobody else touches     *)
(* memory that it owns.                                                    *)
LEMMA OthersKeep ==
    ASSUME Types, OwnInv, WrittenInv, NEW c \in Calls, Apart(c),
           \A a \in Heap : owner[a] \in Calls \ {c} => cell'[a] = cell[a]
    PROVE  \A d \in Calls \ {c} : Written(d)'
<1> SUFFICES ASSUME NEW d \in Calls \ {c} PROVE Written(d)'
  OBVIOUS
<1>1. /\ pc'[d] = pc[d] /\ op'[d] = op[d] /\ blocks'[d] = blocks[d] /\ rc'[d] = rc[d]
      /\ written'[d] = written[d] /\ result'[d] = result[d]
  BY DEF Apart
<1>2. Written(d)
  BY DEF WrittenInv
<1>3. ASSUME pc[d] \in {"native", "drop", "back"}, NEW k \in 1..written[d]
      PROVE  InPlace(d, k)'
  <2>1. k \in 1..op[d].outs
    <3>1. written[d] <= op[d].outs /\ written[d] \in 0..2
      BY <1>2, <1>3, Places DEF Written, Active, Types
    <3>2. op[d].outs \in 0..2
      BY OperationsWellFormed DEF Types, WellFormed
    <3>3. QED
      BY <3>1, <3>2
  <2>2. /\ OutBlock(d, k) \in Heap /\ owner[OutBlock(d, k)] = d
        /\ LenBlock(d, k) \in Heap /\ owner[LenBlock(d, k)] = d
    BY <1>3, <2>1, Places DEF Active
  <2>3. /\ cell'[OutBlock(d, k)] = cell[OutBlock(d, k)]
        /\ cell'[LenBlock(d, k)] = cell[LenBlock(d, k)]
    BY <2>2
  <2>4. OutBlock(d, k)' = OutBlock(d, k) /\ LenBlock(d, k)' = LenBlock(d, k)
    BY <1>1 DEF OutBlock, LenBlock
  <2>5. InPlace(d, k)
    BY <1>2, <1>3 DEF Written
  <2>6. QED
    BY <2>3, <2>4, <2>5 DEF InPlace
<1>4. Written(d)' <=>
        /\ written'[d] <= op'[d].native.writes
        /\ pc'[d] \in {"native", "drop", "back"} => \A k \in 1..written'[d] : InPlace(d, k)'
        /\ pc'[d] \in {"drop", "back", "finally"} /\ Ok(d)' =>
             written'[d] = op'[d].native.writes
        /\ pc'[d] = "finally" /\ Ok(d)' /\ op'[d].outs > 0 =>
             result'[d] = [k \in 1..op'[d].native.writes |->
                             << << "out", d, k >>, << "len", Capacity >> >>]
  BY DEF Written, Capacity
<1>5. Ok(d)' <=> Ok(d)
  BY <1>1 DEF Ok
<1>6. QED
  BY <1>1, <1>2, <1>3, <1>4, <1>5 DEF Written

(* What Written(c) says after a step, unfolded.                            *)
LEMMA WrittenAfter ==
    ASSUME NEW c \in Calls,
           written'[c] <= op'[c].native.writes,
           pc'[c] \in {"native", "drop", "back"} => \A k \in 1..written'[c] : InPlace(c, k)',
           pc'[c] \in {"drop", "back", "finally"} /\ rc'[c] = PqForgeStatus["Ok"] =>
             written'[c] = op'[c].native.writes,
           pc'[c] = "finally" /\ rc'[c] = PqForgeStatus["Ok"] /\ op'[c].outs > 0 =>
             result'[c] = [k \in 1..op'[c].native.writes |->
                             << << "out", c, k >>, << "len", Capacity >> >>]
    PROVE  Written(c)'
BY DEF Written, Ok, Capacity, PqForgeStatus

LEMMA InPlaceKept ==
    ASSUME NEW c \in Calls, NEW k, InPlace(c, k), UNCHANGED <<op, blocks, cell>>
    PROVE  InPlace(c, k)'
BY DEF InPlace, OutBlock, LenBlock, Capacity

(* The end of a native function leaves what was written.                   *)
LEMMA FinishWritten ==
    ASSUME NEW c \in Calls, NEW status \in DOMAIN PqForgeStatus, Finish(c, status),
           UNCHANGED <<op, blocks, cell, written, result>>, Types, Written(c), Ready(c),
           status = "Ok" => written[c] = op[c].native.writes
    PROVE  Written(c)'
<1>1. /\ pc'[c] \in {"drop", "back"}
      /\ rc'[c] = PqForgeStatus["Ok"] => status = "Ok"
  BY FinishSteps, StatusNumbers
<1>2. \A k \in 1..written'[c] : InPlace(c, k)'
  BY InPlaceKept DEF Written, Ready
<1>3. QED
  BY <1>1, <1>2, WrittenAfter DEF Written

LEMMA InnerWritten ==
    ASSUME Types, OwnInv, NEW c \in Calls, Written(c), Inner(c)
    PROVE  /\ Written(c)'
           /\ \A a \in Heap : owner[a] \in Calls \ {c} => cell'[a] = cell[a]
<1> USE DEF Written
<1>1. CASE PinKey(c) \/ DropWipes(c) \/ DropUnlocks(c)
  <2>1. UNCHANGED callVars
    BY <1>1 DEF PinKey, DropWipes, DropUnlocks
  <2>2. QED
    BY <2>1 DEF callVars, InPlace, OutBlock, LenBlock, Ok
<1>2. CASE DropFrees(c)
  <2>1. /\ UNCHANGED <<op, blocks, cell, rc, written, result>>
        /\ pc[c] = "drop" /\ pc'[c] = "back"
    BY <1>2 DEF DropFrees, Goto, Types
  <2>2. \A k \in 1..written'[c] : InPlace(c, k)'
    BY <2>1, InPlaceKept
  <2>3. QED
    BY <2>1, <2>2, WrittenAfter DEF Ok
<1>3. CASE Refuse(c)
  <2>1. op[c].native.refusals \subseteq DOMAIN PqForgeStatus \ {"Ok"}
    BY OperationsWellFormed DEF Types, WellFormed, Sound
  <2>2. PICK status \in DOMAIN PqForgeStatus \ {"Ok"} : Finish(c, status)
    BY <1>3, <2>1 DEF Refuse
  <2>3. UNCHANGED <<op, blocks, cell, written, result>> /\ Ready(c)
    BY <1>3 DEF Refuse
  <2>4. Written(c)'
    BY <2>2, <2>3, FinishWritten
  <2>5. QED
    BY <2>3, <2>4
<1>4. CASE Panics(c)
  <2>1. /\ UNCHANGED <<op, blocks, cell, written, result>> /\ Ready(c)
        /\ Finish(c, "Internal") /\ "Internal" \in DOMAIN PqForgeStatus \ {"Ok"}
    BY <1>4, Refusals DEF Panics
  <2>2. Written(c)'
    BY <2>1, FinishWritten
  <2>3. QED
    BY <2>1, <2>2
<1>5. CASE NativeOk(c)
  <2>1. /\ UNCHANGED <<op, blocks, cell, written, result>> /\ Ready(c)
        /\ Finish(c, "Ok") /\ written[c] = op[c].native.writes
    BY <1>5 DEF NativeOk
  <2>2. "Ok" \in DOMAIN PqForgeStatus
    BY DEF PqForgeStatus
  <2>3. Written(c)'
    BY <2>1, <2>2, FinishWritten
  <2>4. QED
    BY <2>1, <2>3
<1>6. CASE Verdict(c) \/ Throw(c)
  <2>1. /\ UNCHANGED <<op, cell, rc, written>> /\ pc[c] = "back" /\ pc'[c] = "finally"
        /\ ~Ok(c) \/ op[c].outs = 0
    BY <1>6 DEF Verdict, Throw, IsVerify, Goto, Types
  <2>2. QED
    BY <2>1, WrittenAfter DEF Ok
<1>7. CASE CopyBack(c)
  <2>1. /\ UNCHANGED <<op, cell, rc, written>> /\ pc[c] = "back" /\ pc'[c] = "finally"
        /\ Ok(c) /\ result'[c] = [k \in 1..op[c].outs |-> Copied(c, k)]
    BY <1>7 DEF CopyBack, Goto, Types
  <2>2. written[c] = op[c].native.writes /\ op[c].native.writes = op[c].outs
    BY <2>1, Places DEF Active
  <2>3. \A k \in 1..op[c].outs : Copied(c, k) = << << "out", c, k >>, << "len", Capacity >> >>
    BY <2>1, <2>2 DEF Copied, InPlace
  <2>4. result'[c] = [k \in 1..op[c].native.writes |->
                       << << "out", c, k >>, << "len", Capacity >> >>]
    BY <2>1, <2>2, <2>3
  <2>5. QED
    BY <2>1, <2>2, <2>4, WrittenAfter
<1>8. CASE WriteOut(c)
  <2>1. PICK k \in Nat : k = written[c] + 1
    BY DEF Types
  <2>2. PICK need \in {Capacity, Capacity + 1} :
          /\ cell' = [a \in Heap |->
               CASE a = LenBlock(c, k) -> << "len", need >>
                 [] a = OutBlock(c, k) /\ need <= Capacity -> << "out", c, k >>
                 [] OTHER -> cell[a]]
          /\ Wrote(c, k, need)
    BY <1>8, <2>1 DEF WriteOut
  <2>3. /\ UNCHANGED <<op, blocks, owner, result>> /\ Active(c) /\ pc[c] = "native"
        /\ Ready(c) /\ k <= op[c].native.writes /\ written[c] \in Nat
        /\ op[c].native.writes \in 0..2
    BY <1>8, <2>1, OperationsWellFormed DEF WriteOut, Ready, Active, Types, WellFormed, Sound
  <2>4. /\ k \in 1..op[c].outs /\ op[c].outs = op[c].native.writes
        /\ \A j \in 1..written[c] : j \in 1..op[c].outs /\ j # k
    BY <2>1, <2>3, Places
  <2>5. /\ OutBlock(c, k) \in Heap /\ owner[OutBlock(c, k)] = c
        /\ LenBlock(c, k) \in Heap /\ owner[LenBlock(c, k)] = c
        /\ OutBlock(c, k) # LenBlock(c, k)
    BY <2>3, <2>4, Places
  <2>6. \A j \in 1..written[c] :
          /\ OutBlock(c, j) \in Heap /\ LenBlock(c, j) \in Heap
          /\ OutBlock(c, j) \notin {OutBlock(c, k), LenBlock(c, k)}
          /\ LenBlock(c, j) \notin {OutBlock(c, k), LenBlock(c, k)}
    BY <2>3, <2>4, Places
  <2>7. \A j \in 1..written[c] : InPlace(c, j)
    BY <2>3
  <2>8. \A a \in Heap \ {OutBlock(c, k), LenBlock(c, k)} : cell'[a] = cell[a]
    BY <2>2
  <2>9. \A j : OutBlock(c, j)' = OutBlock(c, j) /\ LenBlock(c, j)' = LenBlock(c, j)
    BY <2>3 DEF OutBlock, LenBlock
  <2>10. \A j \in 1..written[c] : InPlace(c, j)'
    BY <2>6, <2>7, <2>8, <2>9 DEF InPlace, Capacity
  <2>11. CASE need = Capacity
    <3>1. cell'[OutBlock(c, k)] = << "out", c, k >> /\ cell'[LenBlock(c, k)] = << "len", Capacity >>
      BY <2>2, <2>5, <2>11 DEF Capacity
    <3>2. InPlace(c, k)'
      BY <2>9, <3>1 DEF InPlace, Capacity
    <3>3. written' = [written EXCEPT ![c] = k] /\ UNCHANGED <<pc, rc>>
      BY <2>2, <2>11 DEF Wrote, Capacity
    <3>4. written'[c] = k /\ k = written[c] + 1
      BY <2>1, <3>3 DEF Types
    <3>5. \A j \in 1..written'[c] : InPlace(c, j)'
      BY <2>3, <2>10, <3>2, <3>4
    <3>6. Written(c)'
      BY <2>3, <3>3, <3>4, <3>5, WrittenAfter
    <3>7. QED
      BY <2>5, <2>8, <3>6
  <2>12. CASE need = Capacity + 1
    <3>1. Finish(c, "BufferTooSmall") /\ UNCHANGED written
      BY <2>2, <2>12 DEF Wrote, Capacity
    <3>2. "BufferTooSmall" \in DOMAIN PqForgeStatus
      BY DEF PqForgeStatus
    <3>3. pc'[c] \in {"drop", "back"} /\ rc'[c] # PqForgeStatus["Ok"]
      BY <3>1, <3>2, FinishSteps, StatusNumbers
    <3>4. Written(c)'
      BY <2>3, <2>10, <3>1, <3>3, WrittenAfter
    <3>5. QED
      BY <2>5, <2>8, <3>4
  <2>13. QED
    BY <2>2, <2>11, <2>12
<1>9. QED
  BY <1>1, <1>2, <1>3, <1>4, <1>5, <1>6, <1>7, <1>8 DEF Inner

LEMMA WrittenNext == Types /\ OwnInv /\ WrittenInv /\ [Next]_vars => WrittenInv'
<1> SUFFICES ASSUME Types, OwnInv, WrittenInv, [Next]_vars PROVE WrittenInv'
  OBVIOUS
<1>1. ASSUME NEW c \in Calls, written'[c] = 0, op'[c] \in Operations \union {NoOp},
             pc'[c] \in {"idle", "native", "leaked"}
      PROVE  Written(c)'
  <2>1. written'[c] <= op'[c].native.writes
    BY <1>1, OperationsWellFormed DEF WellFormed, Sound
  <2>2. 1..written'[c] = {}
    BY <1>1
  <2>3. QED
    BY <1>1, <2>1, <2>2, WrittenAfter
<1>2. ASSUME NEW c \in Calls, Begin(c) \/ AllocFails(c) PROVE WrittenInv'
  <2>1. /\ pc[c] = "idle" /\ pc'[c] \in {"native", "leaked"} /\ Apart(c)
        /\ written'[c] = 0
    BY <1>2, BeginSteps DEF OwnInv
  <2>2. op'[c] \in Operations \union {NoOp}
    BY <1>2, TypesNext DEF Types
  <2>3. Written(c)'
    BY <1>1, <2>1, <2>2
  <2>4. PICK o \in Operations, n \in Nat : Take(c, o, n)
    <3>1. \A o \in Operations : Needed(o) \in Nat
      BY OperationsWellFormed DEF WellFormed, Needed
    <3>2. QED
      BY <1>2, <3>1 DEF Begin, AllocFails
  <2>5. PICK s \in [1..n -> Heap] : Taken(c, o, n, s)
    BY <2>4, TakeIsSound
  <2>6. \A a \in Heap : owner[a] \in Calls \ {c} => cell'[a] = cell[a]
    BY <2>5, NobodyIsNoCall DEF Taken
  <2>7. \A d \in Calls \ {c} : Written(d)'
    BY <2>1, <2>6, OthersKeep
  <2>8. QED
    BY <2>3, <2>7 DEF WrittenInv
<1>3. ASSUME NEW c \in Calls, Inner(c) PROVE WrittenInv'
  <2>1. Written(c)
    BY DEF WrittenInv
  <2>2. /\ Written(c)'
        /\ \A a \in Heap : owner[a] \in Calls \ {c} => cell'[a] = cell[a]
    BY <1>3, <2>1, InnerWritten
  <2>3. \A d \in Calls \ {c} : Written(d)'
    BY <1>3, <2>2, InnerSteps, OthersKeep
  <2>4. QED
    BY <2>2, <2>3 DEF WrittenInv
<1>4. ASSUME NEW c \in Calls, Finally(c) PROVE WrittenInv'
  <2>1. pc'[c] = "idle" /\ op'[c] = NoOp /\ written'[c] = 0 /\ Apart(c)
    BY <1>4, FinallySteps
  <2>2. Written(c)'
    BY <1>1, <2>1
  <2>3. Freed(c) = {a \in Heap : owner[a] = c}
    BY DEF OwnInv, Freed
  <2>4. \A a \in Heap : owner[a] \in Calls \ {c} => cell'[a] = cell[a]
    BY <1>4, <2>3 DEF Finally, Release
  <2>5. \A d \in Calls \ {c} : Written(d)'
    BY <2>1, <2>4, OthersKeep
  <2>6. QED
    BY <2>2, <2>5 DEF WrittenInv
<1>5. CASE UNCHANGED <<callVars, secretVars>>
  BY <1>5 DEF callVars, WrittenInv, Written, InPlace, OutBlock, LenBlock, Ok
<1>6. QED
  BY <1>2, <1>3, <1>4, <1>5, NextCases

-----------------------------------------------------------------------------
LEMMA SecretsInit == Init => SecretInv
BY DEF Init, SecretInit, SecretInv, Holds, NoSecret

SecretSteps(c) == PinKey(c) \/ DropWipes(c) \/ DropUnlocks(c) \/ DropFrees(c)

(* Only the four steps of a secret change secrets or locks; every other    *)
(* step ends the native part only when no secret is held.                  *)
LEMMA OtherSteps ==
    ASSUME NEW c \in Calls, Inner(c), Types, SecretInv
    PROVE  \/ SecretSteps(c)
           \/ /\ UNCHANGED <<secret, resident>>
              /\ Holds(c) => pc'[c] \in {"native", "drop"}
<1>1. CASE Refuse(c) \/ Panics(c) \/ NativeOk(c)
  <2>1. PICK status : Finish(c, status)
    BY <1>1 DEF Refuse, Panics, NativeOk
  <2>2. QED
    BY <2>1, FinishSteps
<1>2. CASE WriteOut(c)
  <2>1. \/ UNCHANGED <<pc, secret, resident>> /\ pc[c] = "native"
        \/ Finish(c, "BufferTooSmall")
    BY <1>2 DEF WriteOut, Wrote, Ready, secretVars
  <2>2. QED
    BY <2>1, FinishSteps
<1>3. CASE Verdict(c) \/ Throw(c) \/ CopyBack(c)
  BY <1>3 DEF Verdict, Throw, CopyBack, SecretInv, secretVars
<1>4. QED
  BY <1>1, <1>2, <1>3 DEF Inner, SecretSteps

(* The four steps, each as what it makes of the call's own secret.         *)
LEMMA Pinned ==
    ASSUME NEW c \in Calls, PinKey(c), Types
    PROVE  /\ secret[c] = NoSecret /\ pc' = pc /\ pc[c] = "native"
           /\ \E page \in Pages, locked \in BOOLEAN :
                /\ SharedPages \/ \A d \in Calls : Holds(d) => secret[d].page # page
                /\ secret'[c] = [bytes |-> "key", locked |-> locked, page |-> page,
                                 stage |-> "live"]
                /\ resident' = IF locked THEN resident \union {page} ELSE resident
           /\ \A d \in Calls \ {c} : secret'[d] = secret[d]
BY DEF PinKey, from_slice, Holds, callVars, Types

LEMMA Dropped ==
    ASSUME NEW c \in Calls, DropWipes(c) \/ DropUnlocks(c), Types
    PROVE  /\ secret[c] # NoSecret
           /\ secret'[c].page = secret[c].page /\ secret'[c].locked = secret[c].locked
           /\ pc' = pc /\ pc[c] = "drop"
           /\ \/ /\ secret[c].stage = "live" /\ secret'[c].stage = "wiped"
                 /\ secret'[c].bytes = "zero" /\ resident' = resident
              \/ /\ secret[c].stage = "wiped" /\ secret'[c].stage = "unlocked"
                 /\ secret'[c].bytes = secret[c].bytes
                 /\ resident' = IF secret[c].locked THEN resident \ {secret[c].page}
                                                    ELSE resident
           /\ \A d \in Calls \ {c} : secret'[d] = secret[d]
<1>1. secret[c] \in Secret /\ secret \in [Calls -> Secret]
  BY DEF Types
<1>2. secret[c] # NoSecret
  BY DEF DropWipes, Zeroize, Holds, DropUnlocks, Unlock, NoSecret
<1>3. PICK bytes, locked, page, stage :
        secret[c] = [bytes |-> bytes, locked |-> locked, page |-> page, stage |-> stage]
  BY <1>1, <1>2 DEF Secret
<1>4. CASE DropWipes(c)
  <2>1. /\ secret' = [secret EXCEPT ![c].bytes = "zero", ![c].stage = "wiped"]
        /\ secret[c].stage = "live" /\ resident' = resident
        /\ pc' = pc /\ pc[c] = "drop"
    BY <1>4 DEF DropWipes, Zeroize, callVars
  <2>2. secret'[c] = [bytes |-> "zero", locked |-> locked, page |-> page, stage |-> "wiped"]
    BY <1>1, <1>3, <2>1
  <2>3. QED
    BY <1>1, <1>2, <1>3, <2>1, <2>2
<1>5. CASE DropUnlocks(c)
  <2>1. /\ secret' = [secret EXCEPT ![c].stage = "unlocked"]
        /\ secret[c].stage = "wiped"
        /\ resident' = IF secret[c].locked THEN resident \ {secret[c].page} ELSE resident
        /\ pc' = pc /\ pc[c] = "drop"
    BY <1>5 DEF DropUnlocks, Unlock, callVars
  <2>2. secret'[c] = [bytes |-> bytes, locked |-> locked, page |-> page,
                      stage |-> "unlocked"]
    BY <1>1, <1>3, <2>1
  <2>3. QED
    BY <1>1, <1>2, <1>3, <2>1, <2>2
<1>6. QED
  BY <1>4, <1>5

LEMMA DroppedLast ==
    ASSUME NEW c \in Calls, DropFrees(c), Types
    PROVE  /\ secret[c].stage = "unlocked" /\ secret'[c] = NoSecret
           /\ resident' = resident
           /\ \A d \in Calls \ {c} : secret'[d] = secret[d] /\ pc'[d] = pc[d]
BY DEF DropFrees, Dealloc, Goto, Types

LEMMA SecretNext == Types /\ SecretInv /\ [Next]_vars => SecretInv'
<1> SUFFICES ASSUME Types, SecretInv, [Next]_vars PROVE SecretInv'
  OBVIOUS
<1>1. SecretInv' <=>
        /\ \A c \in Calls : secret'[c] # NoSecret => pc'[c] \in {"native", "drop"}
        /\ \A c \in Calls : secret'[c].stage # "live" => secret'[c].bytes = "zero"
        /\ \A page \in resident' : \E c \in Calls : Keeps(secret'[c], page)
  BY DEF SecretInv, Holds, Keeps
<1>2. ASSUME NEW c \in Calls, PinKey(c) PROVE SecretInv'
  <2>1. PICK page \in Pages, locked \in BOOLEAN :
          /\ secret'[c] = [bytes |-> "key", locked |-> locked, page |-> page,
                           stage |-> "live"]
          /\ resident' = IF locked THEN resident \union {page} ELSE resident
    BY <1>2, Pinned
  <2>2. /\ secret[c] = NoSecret /\ pc' = pc /\ pc[c] = "native"
        /\ \A d \in Calls \ {c} : secret'[d] = secret[d]
    BY <1>2, Pinned
  <2>3. \A d \in Calls : secret'[d] # NoSecret => pc'[d] \in {"native", "drop"}
    BY <2>2 DEF SecretInv, Holds
  <2>4. \A d \in Calls : secret'[d].stage # "live" => secret'[d].bytes = "zero"
    BY <2>1, <2>2 DEF SecretInv
  <2>5. ASSUME NEW q \in resident PROVE \E d \in Calls : Keeps(secret'[d], q)
    <3>1. PICK d \in Calls : Keeps(secret[d], q)
      BY DEF SecretInv
    <3>2. d # c
      BY <2>2, <3>1 DEF NoSecret, Keeps
    <3>3. QED
      BY <2>2, <3>1, <3>2
  <2>6. locked => Keeps(secret'[c], page)
    BY <2>1 DEF Keeps
  <2>7. QED
    BY <1>1, <2>1, <2>3, <2>4, <2>5, <2>6
<1>3. ASSUME NEW c \in Calls, DropWipes(c) \/ DropUnlocks(c) PROVE SecretInv'
  <2>1. /\ pc' = pc /\ pc[c] = "drop"
        /\ \A d \in Calls \ {c} : secret'[d] = secret[d]
    BY <1>3, Dropped
  <2>2. \A d \in Calls : secret'[d] # NoSecret => pc'[d] \in {"native", "drop"}
    BY <2>1 DEF SecretInv, Holds
  <2>3. secret'[c].bytes = "zero"
    BY <1>3, Dropped DEF SecretInv
  <2>4. ASSUME NEW q \in resident' PROVE \E d \in Calls : Keeps(secret'[d], q)
    <3>1. q \in resident
      BY <1>3, Dropped
    <3>2. PICK d \in Calls : Keeps(secret[d], q)
      BY <3>1 DEF SecretInv
    <3>3. CASE d # c
      BY <2>1, <3>2, <3>3
    <3>4. CASE d = c
      BY <1>3, <3>2, <3>4, Dropped DEF Keeps
    <3>5. QED
      BY <3>3, <3>4
  <2>5. QED
    BY <1>1, <2>1, <2>2, <2>3, <2>4 DEF SecretInv
<1>4. ASSUME NEW c \in Calls, DropFrees(c) PROVE SecretInv'
  <2>1. /\ secret[c].stage = "unlocked" /\ secret'[c] = NoSecret
        /\ resident' = resident
        /\ \A d \in Calls \ {c} : secret'[d] = secret[d] /\ pc'[d] = pc[d]
    BY <1>4, DroppedLast
  <2>2. ASSUME NEW q \in resident PROVE \E d \in Calls : Keeps(secret'[d], q)
    <3>1. PICK d \in Calls : Keeps(secret[d], q)
      BY DEF SecretInv
    <3>2. d # c
      BY <2>1, <3>1 DEF Keeps
    <3>3. QED
      BY <2>1, <3>1, <3>2
  <2>3. secret'[c].stage = "live"
    BY <2>1 DEF NoSecret
  <2>4. QED
    BY <1>1, <2>1, <2>2, <2>3 DEF SecretInv, Holds
<1>5. ASSUME NEW c \in Calls, Inner(c), UNCHANGED <<secret, resident>>,
             Holds(c) => pc'[c] \in {"native", "drop"}
      PROVE  SecretInv'
  BY <1>1, <1>5, InnerSteps DEF SecretInv, Holds, Apart
<1>6. ASSUME NEW c \in Calls, Begin(c) \/ AllocFails(c) \/ Finally(c) PROVE SecretInv'
  <2>1. /\ pc[c] \in {"idle", "finally"} /\ Apart(c) /\ UNCHANGED <<secret, resident>>
    BY <1>6, BeginSteps, FinallySteps
  <2>2. QED
    BY <1>1, <2>1 DEF SecretInv, Holds, Apart
<1>7. CASE UNCHANGED <<callVars, secretVars>>
  BY <1>1, <1>7 DEF callVars, secretVars, SecretInv, Holds
<1>8. QED
  BY <1>2, <1>3, <1>4, <1>5, <1>6, <1>7, NextCases, OtherSteps DEF SecretSteps

(* No two secrets on a page; and a page is locked from the mlock of its    *)
(* secret to that secret's own munlock.                                    *)
PinInv ==
    /\ \A c, d \in Calls :
         Holds(c) /\ Holds(d) /\ secret[c].page = secret[d].page => c = d
    /\ \A c \in Calls :
         secret[c].locked /\ secret[c].stage # "unlocked" => secret[c].page \in resident

LEMMA PinInit == Init => PinInv
BY DEF Init, SecretInit, PinInv, Holds, NoSecret

LEMMA PinNext ==
    ASSUME SharedPages = FALSE, Types, SecretInv, PinInv, [Next]_vars
    PROVE  PinInv'
<1>1. PinInv' <=>
        /\ \A c, d \in Calls :
             secret'[c] # NoSecret /\ secret'[d] # NoSecret
                 /\ secret'[c].page = secret'[d].page => c = d
        /\ \A c \in Calls :
             secret'[c].locked /\ secret'[c].stage # "unlocked" =>
               secret'[c].page \in resident'
  BY DEF PinInv, Holds
<1>2. ASSUME NEW c \in Calls, PinKey(c) PROVE PinInv'
  <2>1. PICK page \in Pages, locked \in BOOLEAN :
          /\ \A d \in Calls : secret[d] # NoSecret => secret[d].page # page
          /\ secret'[c] = [bytes |-> "key", locked |-> locked, page |-> page,
                           stage |-> "live"]
          /\ resident' = IF locked THEN resident \union {page} ELSE resident
    BY <1>2, Pinned DEF Holds
  <2>2. \A d \in Calls \ {c} : secret'[d] = secret[d]
    BY <1>2, Pinned
  <2>3. secret'[c].page = page /\ secret'[c].locked = locked
    BY <2>1
  <2>4. ASSUME NEW d \in Calls, NEW e \in Calls, secret'[d] # NoSecret,
               secret'[e] # NoSecret, secret'[d].page = secret'[e].page
        PROVE  d = e
    BY <2>1, <2>2, <2>3, <2>4 DEF PinInv, Holds
  <2>5. ASSUME NEW d \in Calls, secret'[d].locked, secret'[d].stage # "unlocked"
        PROVE  secret'[d].page \in resident'
    <3>1. CASE d = c
      BY <2>1, <2>3, <2>5, <3>1
    <3>2. CASE d # c
      BY <2>1, <2>2, <2>5, <3>2 DEF PinInv
    <3>3. QED
      BY <3>1, <3>2
  <2>6. QED
    BY <1>1, <2>4, <2>5
<1>3. ASSUME NEW c \in Calls, DropWipes(c) \/ DropUnlocks(c) PROVE PinInv'
  <2>1. \A d \in Calls \ {c} : secret'[d] = secret[d]
    BY <1>3, Dropped
  <2>2. /\ secret[c] # NoSecret /\ secret'[c].page = secret[c].page
        /\ secret'[c].locked = secret[c].locked
    BY <1>3, Dropped
  <2>3. ASSUME NEW d \in Calls, NEW e \in Calls, secret'[d] # NoSecret,
               secret'[e] # NoSecret, secret'[d].page = secret'[e].page
        PROVE  d = e
    BY <2>1, <2>2, <2>3 DEF PinInv, Holds
  <2>4. ASSUME NEW d \in Calls, secret'[d].locked, secret'[d].stage # "unlocked"
        PROVE  secret'[d].page \in resident'
    <3>1. CASE d = c
      BY <1>3, <2>2, <2>4, <3>1, Dropped DEF PinInv
    <3>2. CASE d # c
      <4>1. secret'[d] = secret[d] /\ secret[d].page \in resident /\ secret[d].locked
        BY <2>1, <2>4, <3>2 DEF PinInv
      <4>2. secret[d] # NoSecret
        BY <4>1 DEF NoSecret
      <4>3. secret[d].page # secret[c].page
        BY <2>2, <3>2, <4>2 DEF PinInv, Holds
      <4>4. QED
        BY <1>3, <4>1, <4>3, Dropped
    <3>3. QED
      BY <3>1, <3>2
  <2>5. QED
    BY <1>1, <2>3, <2>4
<1>4. ASSUME NEW c \in Calls, DropFrees(c) PROVE PinInv'
  <2>1. /\ secret'[c] = NoSecret /\ resident' = resident
        /\ \A d \in Calls \ {c} : secret'[d] = secret[d]
    BY <1>4, DroppedLast
  <2>2. ~secret'[c].locked
    BY <2>1 DEF NoSecret
  <2>3. QED
    BY <1>1, <2>1, <2>2 DEF PinInv, Holds
<1>5. CASE UNCHANGED <<secret, resident>>
  BY <1>1, <1>5 DEF PinInv, Holds
<1>6. QED
  BY <1>2, <1>3, <1>4, <1>5, NextCases, OtherSteps, BeginSteps, FinallySteps
     DEF SecretSteps, secretVars

-----------------------------------------------------------------------------
HookTypes ==
    /\ hook \in Hooks
    /\ at \in [Tests -> {"idle", "taken", "silenced", "caught", "returned"}]
    /\ previous \in [Tests -> Hooks]
    /\ panic \in [Calls -> Hooks \union {"none"}]

LEMMA HookTypesInit == Init => HookTypes
BY DEF Init, HookInit, HookTypes, Hooks

(* The hook that reports a panic is noted when it happens, and forgotten   *)
(* when the call is over.                                                  *)
LEMMA PanicSteps ==
    ASSUME HookTypes, NEW c \in Calls, Step(c)
    PROVE  \/ UNCHANGED panic
           \/ panic' = [panic EXCEPT ![c] = hook]
           \/ panic' = [panic EXCEPT ![c] = "none"]
BY DEF Step, Begin, AllocFails, PinKey, Refuse, Panics, WriteOut, NativeOk, DropWipes,
       DropUnlocks, DropFrees, Verdict, Throw, CopyBack, Finally, Returned, callVars

LEMMA HookTypesNext == HookTypes /\ [Next]_vars => HookTypes'
<1> SUFFICES ASSUME HookTypes, [Next]_vars PROVE HookTypes'
  OBVIOUS
<1>1. ASSUME NEW c \in Calls, Step(c), UNCHANGED hookVars PROVE HookTypes'
  BY <1>1, PanicSteps DEF HookTypes, hookVars
<1>2. ASSUME NEW t \in Tests, TakeHook(t) \/ Silence(t) \/ PanicCaught(t) \/ Restore(t),
             UNCHANGED callVars
      PROVE  HookTypes'
  BY <1>2 DEF TakeHook, Silence, PanicCaught, Restore, HookTypes, Hooks, callVars
<1>3. CASE UNCHANGED vars
  BY <1>3 DEF vars, callVars, hookVars, HookTypes
<1>4. QED
  BY <1>1, <1>2, <1>3 DEF Next, SelfTest

UnderWay(t) == at[t] \notin {"idle", "returned"}

(* No two self-tests at once.                                              *)
OneAtATime == \A t, u \in Tests : UnderWay(t) /\ UnderWay(u) => t = u

(* The host's hook is installed, or it is what the self-test under way     *)
(* will put back.                                                          *)
HookInv ==
    /\ ~Testing => hook = "host"
    /\ \A t \in Tests : UnderWay(t) => previous[t] = "host"

LEMMA HookInvInit == Init => HookInv
BY DEF Init, HookInit, HookInv, UnderWay, Testing

LEMMA HookInvNext == HookTypes /\ HookInv /\ OneAtATime' /\ [Next]_vars => HookInv'
<1> SUFFICES ASSUME HookTypes, HookInv, OneAtATime', [Next]_vars PROVE HookInv'
  OBVIOUS
<1>1. CASE UNCHANGED hookVars
  BY <1>1 DEF HookInv, hookVars, Testing, UnderWay
<1>2. ASSUME NEW t \in Tests, TakeHook(t) PROVE HookInv'
  <2>1. /\ previous' = [previous EXCEPT ![t] = hook]
        /\ at' = [at EXCEPT ![t] = "taken"] /\ at[t] = "idle"
    BY <1>2 DEF TakeHook
  <2>2. \A u \in Tests \ {t} : at'[u] = at[u]
    BY <2>1 DEF HookTypes
  <2>3. UnderWay(t)'
    BY <2>1 DEF UnderWay, HookTypes
  <2>4. \A u \in Tests : ~UnderWay(u)
    BY <2>1, <2>2, <2>3 DEF OneAtATime, UnderWay
  <2>5. ~Testing
    BY <2>4 DEF Testing, UnderWay
  <2>6. hook = "host" /\ previous'[t] = "host"
    BY <2>1, <2>5 DEF HookInv, HookTypes
  <2>7. \A u \in Tests : UnderWay(u)' => u = t
    BY <2>3 DEF OneAtATime
  <2>8. Testing'
    BY <2>3 DEF Testing, UnderWay
  <2>9. QED
    BY <2>6, <2>7, <2>8 DEF HookInv, UnderWay
<1>3. ASSUME NEW t \in Tests, Silence(t) \/ PanicCaught(t) PROVE HookInv'
  <2>1. at[t] \in {"taken", "silenced"} /\ UNCHANGED previous
        /\ (at' = [at EXCEPT ![t] = "silenced"] \/ at' = [at EXCEPT ![t] = "caught"])
    BY <1>3 DEF Silence, PanicCaught
  <2>2. \A u \in Tests : UnderWay(u)' <=> UnderWay(u)
    BY <2>1 DEF UnderWay, HookTypes
  <2>3. Testing'
    BY <2>1, <2>2 DEF Testing, UnderWay
  <2>4. QED
    BY <2>1, <2>2, <2>3 DEF HookInv, UnderWay
<1>4. ASSUME NEW t \in Tests, Restore(t) PROVE HookInv'
  <2>1. /\ hook' = previous[t] /\ UNCHANGED previous
        /\ at' = [at EXCEPT ![t] = "returned"] /\ at[t] = "caught"
    BY <1>4 DEF Restore
  <2>2. hook' = "host"
    BY <2>1 DEF HookInv, UnderWay
  <2>3. \A u \in Tests : UnderWay(u)' => UnderWay(u)
    BY <2>1 DEF UnderWay, HookTypes
  <2>4. QED
    BY <2>1, <2>2, <2>3 DEF HookInv, UnderWay
<1>5. QED
  BY <1>1, <1>2, <1>3, <1>4 DEF Next, SelfTest, vars

-----------------------------------------------------------------------------
LEMMA CallInvariant == Spec => []CallInv
<1>1. Init => CallInv
  BY TypesInit, OwnInit, WrittenInit, SecretsInit DEF CallInv
<1>2. CallInv /\ [Next]_vars => CallInv'
  BY TypesNext, OwnNext, WrittenNext, SecretNext DEF CallInv
<1>3. QED
  BY <1>1, <1>2, PTL DEF Spec

LEMMA HookTypesInvariant == Spec => []HookTypes
BY HookTypesInit, HookTypesNext, PTL DEF Spec

(* What a call lists as its blocks is what it owns, whichever blocks the   *)
(* allocator gives out and whoever else frees and allocates.               *)
THEOREM TypeCorrect == Spec => []TypeOK
<1>1. CallInv /\ HookTypes => TypeOK
  <2> SUFFICES ASSUME CallInv, HookTypes PROVE TypeOK
    OBVIOUS
  <2>1. \A c \in Calls : written[c] \in 0..op[c].native.writes
    <3>1. ASSUME NEW c \in Calls PROVE written[c] \in 0..op[c].native.writes
      <4>1. op[c].native.writes \in 0..2 /\ written[c] \in 0..2
        BY OperationsWellFormed DEF CallInv, Types, WellFormed, Sound
      <4>2. written[c] <= op[c].native.writes
        BY DEF CallInv, WrittenInv, Written
      <4>3. QED
        BY <4>1, <4>2
    <3>2. QED
      BY <3>1
  <2>2. \A c \in Calls : {blocks[c][i] : i \in DOMAIN blocks[c]} = {a \in Heap : owner[a] = c}
    BY DEF CallInv, OwnInv
  <2>3. QED
    BY <2>1, <2>2 DEF TypeOK, CallInv, Types, HookTypes
<1>2. QED
  BY <1>1, CallInvariant, HookTypesInvariant, PTL

(* "No method returns a partially formed key or secret": what a caller     *)
(* gets is what the native side wrote for this very call, all of it.       *)
THEOREM ResultsAreWhole == Spec => []WholeResult
<1>1. CallInv => WholeResult
  BY DEF CallInv, WrittenInv, Written, WholeResult
<1>2. QED
  BY <1>1, CallInvariant, PTL

(* However calls end, an idle isolate holds no block and no key, a key is  *)
(* wiped before its memory is given back, and every locked page belongs to *)
(* a key that still keeps it.                                              *)
THEOREM NothingIsLeft == Spec => []NothingLeaks
<1>1. CallInv => NothingLeaks
  <2> SUFFICES ASSUME CallInv PROVE NothingLeaks
    OBVIOUS
  <2>1. ASSUME NEW c \in Calls, pc[c] = "idle" PROVE ~Holds(c) /\ \A a \in Heap : owner[a] # c
    <3>1. ~Holds(c)
      BY <2>1 DEF CallInv, SecretInv
    <3>2. {a \in Heap : owner[a] = c} = {blocks[c][i] : i \in DOMAIN blocks[c]}
      BY DEF CallInv, OwnInv
    <3>3. DOMAIN blocks[c] = {}
      BY <2>1 DEF CallInv, OwnInv
    <3>4. QED
      BY <3>1, <3>2, <3>3
  <2>2. \A c \in Calls : secret[c].stage = "unlocked" => secret[c].bytes = "zero"
    BY DEF CallInv, SecretInv
  <2>3. \A page \in resident :
          \E c \in Calls :
            secret[c].locked /\ secret[c].page = page /\ secret[c].stage # "unlocked"
    BY DEF CallInv, SecretInv, Keeps
  <2>4. QED
    BY <2>1, <2>2, <2>3 DEF NothingLeaks
<1>2. QED
  BY <1>1, CallInvariant, PTL

(* "mlock keeps it out of swap", for any number of calls and pages, when   *)
(* no two secrets lie on one page: the page of a locked key stays in       *)
(* memory until the key is wiped.  Nothing in the code keeps two secrets   *)
(* off one page, so the premise is the whole of what is missing.           *)
THEOREM KeysStayPinned == SharedPages = FALSE => (Spec => []KeysPinned)
<1> SUFFICES ASSUME SharedPages = FALSE PROVE Spec => []KeysPinned
  OBVIOUS
<1>1. CallInv /\ PinInv => KeysPinned
  BY DEF CallInv, SecretInv, PinInv, KeysPinned
<1>2. CallInv /\ PinInv /\ [Next]_vars => PinInv'
  BY PinNext DEF CallInv
<1>3. QED
  BY <1>1, <1>2, PinInit, CallInvariant, PTL DEF Spec

(* As long as no two self-tests run at once, the silence of a self-test    *)
(* ends with it: a panic that misses the host's hook happens while one is  *)
(* under way, and never because one has been.                              *)
THEOREM SilenceEndsWithTheTest == Spec /\ []OneAtATime => SilencedOnlyInSelfTest
<1> DEFINE Heard == \A c \in Calls :
                      panic'[c] # panic[c] => panic'[c] \in {"none", "host"} \/ Testing
<1>1. HookTypes /\ HookInv /\ [Next]_vars => Heard
  <2> SUFFICES ASSUME HookTypes, HookInv, [Next]_vars,
                      NEW c \in Calls, panic'[c] # panic[c]
               PROVE  panic'[c] \in {"none", "host"} \/ Testing
    OBVIOUS
  <2>1. ASSUME NEW d \in Calls, Step(d) PROVE panic'[c] \in {"none", "host"} \/ Testing
    <3>1. panic'[c] \in {"none", hook}
      BY <2>1, PanicSteps DEF HookTypes
    <3>2. QED
      BY <3>1 DEF HookInv
  <2>2. CASE UNCHANGED panic
    BY <2>2
  <2>3. QED
    BY <2>1, <2>2 DEF Next, vars, callVars
<1>2. Spec /\ []OneAtATime => [][Heard]_panic
  BY <1>1, HookInvInit, HookInvNext, HookTypesInvariant, PTL DEF Spec
<1>3. QED
  BY <1>2 DEF SilencedOnlyInSelfTest
=============================================================================
