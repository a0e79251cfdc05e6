----------------------------- MODULE NativeCall -----------------------------
(***************************************************************************)
(* A call of NativeBackend through the C boundary, on several isolates at  *)
(* once.  Dart copies the inputs into native memory, allocates a buffer    *)
(* and a length cell for each output, calls; the native side writes its    *)
(* outputs one after the other with write_out, or returns an error code,   *)
(* or panics; Dart copies the outputs back or throws, and frees in a       *)
(* finally block.  The file functions write files instead of outputs and   *)
(* hold the stream's key in a PinnedSecret.  The isolates share the native *)
(* heap, the locked pages and the panic hook.                              *)
(***************************************************************************)
EXTENDS Integers, PanicHook, PinnedSecret

CONSTANTS Addresses,        \* bound: blocks the native heap has
          Allocations(_, _) \* the allocator: of the free blocks, n in a row

Heap == 1..Addresses
Nobody == "nobody"

ASSUME AddressesFinite == Addresses \in Nat

ASSUME NobodyIsNoCall == Nobody \notin Calls

(* What calloc returns is free, and no block is returned twice.            *)
ASSUME AllocatorSound ==
    \A free \in SUBSET Heap, n \in 0..Addresses :
        \A s \in Allocations(free, n) :
            s \in [1..n -> free] /\ \A i, j \in 1..n : s[i] = s[j] => i = j

-----------------------------------------------------------------------------
(* What each native function may refuse its arguments with, and how many   *)
(* outputs it writes otherwise.  The marshalling passes no null pointer    *)
(* and no unknown algorithm, so those two refusals do not occur.           *)
Native(refusals, writes) == [refusals |-> refusals, writes |-> writes]

pqforge_mlkem_keygen             == Native({"Internal"}, 2)
pqforge_mlkem_encapsulate        == Native({"InvalidKey", "Internal"}, 2)
pqforge_mlkem_decapsulate        == Native({"InvalidKey", "InvalidCiphertext"}, 1)
pqforge_mldsa_keygen             == Native({"Internal"}, 2)
pqforge_mldsa_keygen_from_seed   == Native({"InvalidKey", "Internal"}, 2)
pqforge_mldsa_sign               == Native({"InvalidKey", "Internal"}, 1)
pqforge_mldsa_verify             == Native({"AuthFailed"}, 0)
pqforge_aead_seal                == Native({"InvalidKey", "Internal"}, 1)
pqforge_aead_open                == Native({"InvalidKey", "InvalidCiphertext", "AuthFailed"}, 1)
pqforge_x25519_keygen            == Native({"InvalidKey", "Internal"}, 2)
pqforge_x25519_ecdh              == Native({"InvalidKey"}, 1)
pqforge_ed25519_keygen           == Native({"InvalidKey", "Internal"}, 2)
pqforge_ed25519_public_from_seed == Native({"InvalidKey"}, 1)
pqforge_ed25519_sign             == Native({"InvalidKey"}, 1)
pqforge_ed25519_verify           == Native({"AuthFailed"}, 0)
pqforge_stream_seal_file         == Native({"InvalidKey", "Io", "Internal"}, 0)
pqforge_stream_open_file         ==
    Native({"InvalidKey", "InvalidCiphertext", "AuthFailed", "Io", "Internal"}, 0)

FileFunctions == {pqforge_stream_seal_file, pqforge_stream_open_file}

(* What each marshalling helper passes: blocks for inputs and for outputs. *)
Marshal(natives, ins, outs) ==
    {[native |-> n, ins |-> i, outs |-> outs] : n \in natives, i \in ins}

_keygen == Marshal({pqforge_mlkem_keygen, pqforge_mldsa_keygen}, {0}, 2)
kemEncapsulate == Marshal({pqforge_mlkem_encapsulate}, {1}, 2)
signGenerateFromSeed == Marshal({pqforge_mldsa_keygen_from_seed}, {1}, 2)
_twoInOneOut == Marshal({pqforge_mlkem_decapsulate, pqforge_mldsa_sign}, {2}, 1)
_aead == Marshal({pqforge_aead_seal, pqforge_aead_open}, {4}, 1)
_classicalKeygen == Marshal({pqforge_x25519_keygen, pqforge_ed25519_keygen}, {0, 1}, 2)
_classicalTwoInOneOut == Marshal({pqforge_x25519_ecdh, pqforge_ed25519_sign}, {2}, 1)
ed25519PublicFromSeed == Marshal({pqforge_ed25519_public_from_seed}, {1}, 1)
verify == Marshal({pqforge_mldsa_verify}, {3}, 0)
ed25519Verify == Marshal({pqforge_ed25519_verify}, {3}, 0)
_run == Marshal(FileFunctions, {4}, 0)

Operations ==
    _keygen \union kemEncapsulate \union signGenerateFromSeed \union _twoInOneOut
      \union _aead \union _classicalKeygen \union _classicalTwoInOneOut
      \union ed25519PublicFromSeed \union verify \union ed25519Verify \union _run

-----------------------------------------------------------------------------
(* The status codes, by the table of each side.                            *)
PqForgeStatus ==
    [Ok |-> 0, InvalidKey |-> 1, InvalidCiphertext |-> 2, AuthFailed |-> 3,
     Unaligned |-> 4, Io |-> 5, Device |-> 6, Anchor |-> 7, Unsupported |-> 8,
     Internal |-> 9, NullArgument |-> 10, BufferTooSmall |-> 11]

PqForgeErrorCode ==
    << "ok", "invalidKey", "invalidCiphertext", "authFailed", "unaligned", "io",
       "device", "anchor", "unsupported", "internal", "nullArgument",
       "bufferTooSmall" >>

fromValue(rc) ==
    IF rc + 1 \in DOMAIN PqForgeErrorCode THEN PqForgeErrorCode[rc + 1] ELSE "internal"

(* What Dart throws for an error code.                                     *)
_throwStatus(rc) ==
    LET code == fromValue(rc) IN
    CASE code = "invalidKey" -> "InvalidKeyException"
      [] code = "invalidCiphertext" -> "InvalidCiphertextException"
      [] code = "authFailed" -> "VerificationFailedException"
      [] code = "unsupported" -> "UnsupportedBackendException"
      [] OTHER -> "InternalCryptoException"

-----------------------------------------------------------------------------
VARIABLES pc,               \* where each call is
          op,               \* the operation it makes
          blocks,           \* the addresses it holds, in the order allocated
          owner,            \* who holds each address
          cell,             \* what is stored there
          rc,               \* the code the native side returned
          written,          \* outputs written so far
          result,           \* what the caller gets
          panic             \* the hook that reported the call's panic

callVars == <<pc, op, blocks, owner, cell, rc, written, result, panic>>
vars == <<callVars, hookVars, secretVars>>

Zero == <<"zero">>
Input == <<"input">>
Capacity == 1               \* size of an output buffer, in its own unit

NoOp == [native |-> Native({}, 0), ins |-> 0, outs |-> 0]

Init ==
    /\ HookInit
    /\ SecretInit
    /\ pc = [c \in Calls |-> "idle"]
    /\ op = [c \in Calls |-> NoOp]
    /\ blocks = [c \in Calls |-> << >>]
    /\ owner = [a \in Heap |-> Nobody]
    /\ cell = [a \in Heap |-> Zero]
    /\ rc = [c \in Calls |-> -1]
    /\ written = [c \in Calls |-> 0]
    /\ result = [c \in Calls |-> << >>]
    /\ panic = [c \in Calls |-> "none"]

Goto(c, place) == pc' = [pc EXCEPT ![c] = place]

(* Inputs first, then output buffers, then length cells.                   *)
Needed(o) == o.ins + 2 * o.outs
OutBlock(c, k) == blocks[c][op[c].ins + k]
LenBlock(c, k) == blocks[c][op[c].ins + op[c].outs + k]

Free == {a \in Heap : owner[a] = Nobody}

(* calloc of n blocks; the inputs are copied in as they are allocated.     *)
Take(c, o, n) ==
    /\ n <= Addresses
    /\ \E s \in Allocations(Free, n) :
         /\ blocks' = [blocks EXCEPT ![c] = s]
         /\ owner' = [a \in Heap |-> IF \E i \in 1..n : s[i] = a THEN c ELSE owner[a]]
         /\ cell' = [a \in Heap |->
              IF \E i \in 1..n : i <= o.ins /\ s[i] = a THEN Input ELSE cell[a]]

(* The allocations of a call need nothing from other isolates but blocks   *)
(* that are free, so they are one step with the native call that follows.  *)
Begin(c) ==
    /\ pc[c] = "idle"
    /\ \E o \in Operations :
         /\ op' = [op EXCEPT ![c] = o]
         /\ Take(c, o, Needed(o))
    /\ Goto(c, "native")
    /\ UNCHANGED <<rc, written, result, panic, secretVars>>

(* calloc throws: the blocks held so far are not in a try block yet.       *)
AllocFails(c) ==
    /\ pc[c] = "idle"
    /\ \E o \in Operations : \E n \in 0..(Needed(o) - 1) :
         Take(c, o, n)
    /\ result' = [result EXCEPT ![c] = << "ArgumentError" >>]
    /\ Goto(c, "leaked")
    /\ UNCHANGED <<op, rc, written, panic, secretVars>>

(* The file functions copy the key before they look at anything else that  *)
(* the marshalling could get wrong.                                        *)
Pins(c) == op[c].native \in FileFunctions

PinKey(c) ==
    /\ pc[c] = "native"
    /\ Pins(c)
    /\ from_slice(c)
    /\ UNCHANGED callVars

Ready(c) == pc[c] = "native" /\ (Pins(c) => Holds(c))

(* However the body ends, by a return, an error or an unwinding panic, the *)
(* secret is dropped before finish hands the code to Dart.                 *)
Finish(c, status) ==
    /\ rc' = [rc EXCEPT ![c] = PqForgeStatus[status]]
    /\ Goto(c, IF Holds(c) THEN "drop" ELSE "back")
    /\ UNCHANGED secretVars

DropWipes(c) ==
    /\ pc[c] = "drop"
    /\ Zeroize(c)
    /\ UNCHANGED callVars

DropUnlocks(c) ==
    /\ pc[c] = "drop"
    /\ Unlock(c)
    /\ UNCHANGED callVars

DropFrees(c) ==
    /\ pc[c] = "drop"
    /\ Dealloc(c)
    /\ Goto(c, "back")
    /\ UNCHANGED <<op, blocks, owner, cell, rc, written, result, panic>>

Refuse(c) ==
    /\ Ready(c)
    /\ written[c] = 0
    /\ \E status \in op[c].native.refusals : Finish(c, status)
    /\ UNCHANGED <<op, blocks, owner, cell, written, result, panic>>

(* A panic runs the hook that is installed at that moment, then guard      *)
(* turns it into Internal.                                                 *)
Panics(c) ==
    /\ Ready(c)
    /\ panic' = [panic EXCEPT ![c] = hook]
    /\ Finish(c, "Internal")
    /\ UNCHANGED <<op, blocks, owner, cell, written, result>>

(* mutant: an output that does not fit is skipped and the next one written *)
WroteOrSkipped(c, k, need) ==
    written' = [written EXCEPT ![c] = k] /\ UNCHANGED <<pc, rc, secretVars>>

Wrote(c, k, need) ==
    IF need <= Capacity
      THEN written' = [written EXCEPT ![c] = k] /\ UNCHANGED <<pc, rc, secretVars>>
      ELSE Finish(c, "BufferTooSmall") /\ UNCHANGED written

(* write_out of the next output: the length cell is always set; a library  *)
(* of the same ABI version may need more than Dart's size table gave.      *)
WriteOut(c) ==
    LET k == written[c] + 1 IN
    /\ Ready(c)
    /\ k <= op[c].native.writes
    /\ \E need \in {Capacity, Capacity + 1} :
         /\ cell' = [a \in Heap |->
              CASE a = LenBlock(c, k) -> << "len", need >>
                [] a = OutBlock(c, k) /\ need <= Capacity -> << "out", c, k >>
                [] OTHER -> cell[a]]
         /\ Wrote(c, k, need)
    /\ UNCHANGED <<op, blocks, owner, result, panic>>

NativeOk(c) ==
    /\ Ready(c)
    /\ written[c] = op[c].native.writes
    /\ Finish(c, "Ok")
    /\ UNCHANGED <<op, blocks, owner, cell, written, result, panic>>

Ok(c) == rc[c] = PqForgeStatus["Ok"]

(* verify never throws: every code but Ok is "not verified".               *)
IsVerify(c) == op[c].outs = 0 /\ ~Pins(c)

Verdict(c) ==
    /\ pc[c] = "back"
    /\ IsVerify(c)
    /\ result' = [result EXCEPT ![c] = << Ok(c) >>]
    /\ Goto(c, "finally")
    /\ UNCHANGED <<op, blocks, owner, cell, rc, written, panic, secretVars>>

(* The file wrapper throws after its finally block, the backend before:    *)
(* what is thrown depends on the code only.                                *)
Throw(c) ==
    /\ pc[c] = "back"
    /\ ~IsVerify(c)
    /\ ~Ok(c)
    /\ result' = [result EXCEPT ![c] = << _throwStatus(rc[c]) >>]
    /\ Goto(c, "finally")
    /\ UNCHANGED <<op, blocks, owner, cell, rc, written, panic, secretVars>>

(* Each output is copied to the length its cell gives.                     *)
Copied(c, k) == << cell[OutBlock(c, k)], cell[LenBlock(c, k)] >>

CopyBack(c) ==
    /\ pc[c] = "back"
    /\ ~IsVerify(c)
    /\ Ok(c)
    /\ result' = [result EXCEPT ![c] = [k \in 1..op[c].outs |-> Copied(c, k)]]
    /\ Goto(c, "finally")
    /\ UNCHANGED <<op, blocks, owner, cell, rc, written, panic, secretVars>>

(* mutant: the buffers are only freed when the call succeeded              *)
FreedOnSuccess(c) == IF Ok(c) THEN {a \in Heap : owner[a] = c} ELSE {}

(* mutant: the length cells are not among what is freed                    *)
FreedButLengths(c) == {blocks[c][i] : i \in 1..(op[c].ins + op[c].outs)}

(* The finally block frees every block the call allocated.                 *)
Freed(c) == {blocks[c][i] : i \in DOMAIN blocks[c]}

(* A freed block has no contents worth keeping: calloc zeroes it again.    *)
Release(c) ==
    /\ cell' = [a \in Heap |-> IF a \in Freed(c) THEN Zero ELSE cell[a]]
    /\ owner' = [a \in Heap |-> IF a \in Freed(c) THEN Nobody ELSE owner[a]]
    /\ blocks' = [blocks EXCEPT ![c] = << >>]

(* The caller has its result; the isolate may call again.                  *)
Returned(c) ==
    /\ Goto(c, "idle")
    /\ op' = [op EXCEPT ![c] = NoOp]
    /\ rc' = [rc EXCEPT ![c] = -1]
    /\ written' = [written EXCEPT ![c] = 0]
    /\ result' = [result EXCEPT ![c] = << >>]
    /\ panic' = [panic EXCEPT ![c] = "none"]

Finally(c) ==
    /\ pc[c] = "finally"
    /\ Release(c)
    /\ Returned(c)
    /\ UNCHANGED secretVars

Step(c) ==
    \/ Begin(c)
    \/ AllocFails(c)
    \/ PinKey(c)
    \/ Refuse(c)
    \/ Panics(c)
    \/ WriteOut(c)
    \/ NativeOk(c)
    \/ DropWipes(c)
    \/ DropUnlocks(c)
    \/ DropFrees(c)
    \/ Verdict(c)
    \/ Throw(c)
    \/ CopyBack(c)
    \/ Finally(c)

Next ==
    \/ (\E c \in Calls : Step(c)) /\ UNCHANGED hookVars
    \/ SelfTest /\ UNCHANGED <<callVars, secretVars>>

Spec == Init /\ [][Next]_vars

-----------------------------------------------------------------------------
Contents == {Zero, Input} \union ({"len"} \X {Capacity, Capacity + 1})
              \union ({"out"} \X Calls \X {1, 2})

(* Type correctness; what a call lists as its blocks is what it owns.      *)
TypeOK ==
    /\ pc \in [Calls -> {"idle", "native", "drop", "back", "finally", "leaked"}]
    /\ op \in [Calls -> Operations \union {NoOp}]
    /\ owner \in [Heap -> Calls \union {Nobody}]
    /\ \A c \in Calls : {blocks[c][i] : i \in DOMAIN blocks[c]} = {a \in Heap : owner[a] = c}
    /\ cell \in [Heap -> Contents]
    /\ rc \in [Calls -> -1..11]
    /\ \A c \in Calls : written[c] \in 0..op[c].native.writes
    /\ panic \in [Calls -> Hooks \union {"none"}]
    /\ hook \in Hooks
    /\ secret \in [Calls -> Secret]
    /\ resident \in SUBSET Pages

(* "No method returns a partially formed key or secret": what a caller     *)
(* gets is complete, and is what the native side wrote for this call,      *)
(* although other isolates reuse the memory as soon as it is freed.        *)
WholeResult ==
    \A c \in Calls :
        pc[c] = "finally" /\ Ok(c) /\ op[c].outs > 0 =>
            result[c] = [k \in 1..op[c].native.writes |->
                            << << "out", c, k >>, << "len", Capacity >> >>]

(* Between calls an isolate holds no native memory and no copy of a key,   *)
(* however the last call ended (a failed allocation, which precedes the    *)
(* try block, excepted); a key's memory is wiped when it is given back;    *)
(* and no page stays locked for a secret that has been unlocked.           *)
NothingLeaks ==
    /\ \A c \in Calls :
         pc[c] = "idle" => ~Holds(c) /\ \A a \in Heap : owner[a] # c
    /\ \A c \in Calls : secret[c].stage = "unlocked" => secret[c].bytes = "zero"
    /\ \A page \in resident :
         \E c \in Calls :
           secret[c].locked /\ secret[c].page = page /\ secret[c].stage # "unlocked"

(* A panic may miss the host's hook only while a self-test is under way:   *)
(* as soon as it has returned, panics of every isolate are reported as     *)
(* they were before.                                                       *)
SilencedOnlyInSelfTest ==
    [][\A c \in Calls :
         panic'[c] # panic[c] => panic'[c] \in {"none", "host"} \/ Testing]_panic
=============================================================================
