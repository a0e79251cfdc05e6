------------------------------ MODULE Envelope ------------------------------
(***************************************************************************)
(* The single-shot KEM-DEM envelope over the two backends.  Senders seal   *)
(* to one recipient with either backend; an envelope arrives as it was     *)
(* sent or damaged: fields exchanged with those of another envelope or     *)
(* overwritten, the end cut off or more bytes after it.  The recipient     *)
(* opens it with both backends.                                            *)
(*                                                                         *)
(* Keys, salts, nonces and ciphertexts are named after the seal they come  *)
(* from, and lengths are counted in units of one authentication tag.       *)
(***************************************************************************)
EXTENDS Naturals, Sequences, FiniteSets

CONSTANTS Seals,            \* the envelopes sealed, numbered from 1
          CiphertextUnits,  \* KEM ciphertext length of each algorithm, by id + 1
          Aads,             \* associated data callers use, sequences of units
          MaxDamaged        \* bound: fields overwritten in one envelope

NoAad == << >>

ASSUME EnvelopeAssumption ==
    /\ Seals \subseteq Nat \ {0}
    /\ CiphertextUnits \in Seq(Nat \ {0})
    /\ CiphertextUnits # << >>
    /\ NoAad \in Aads
    /\ \A aad \in Aads : aad \in Seq({aad[i] : i \in DOMAIN aad})
    /\ MaxDamaged \in Nat

Backends == {"native", "fallback"}
KemIds == 0..(Len(CiphertextUnits) - 1)
ciphertextBytes(id) == CiphertextUnits[id + 1]

Magic == "PFE1"
Version == 1
Aes256Gcm == 0
TagUnits == 1
Garbage == << "garbage" >>

-----------------------------------------------------------------------------
(* The primitives.  Decapsulation rejects implicitly: whatever is not the  *)
(* ciphertext of a seal yields a secret of its own.  A key of another      *)
(* algorithm is refused, by the native side as an invalid key, by pqforge  *)
(* with an error that _guard maps to one of two.                           *)
KemCiphertext(n, id) == [i \in 1..ciphertextBytes(id) |-> << "ct", n, id, i >>]

DecapsulateErrors(b) ==
    IF b = "native" THEN {"InvalidKey"} ELSE {"InvalidKey", "InvalidCiphertext"}

(* HKDF over the shared secret with the salt; info is a constant.          *)
hkdfSha256(secret, salt) == << secret, salt >>

AeadSealed(n) == << <<"data", n>>, <<"tag", n>> >>

(* mutant: only the header is authenticated                                *)
_authDataHeader(header, aad) == header

(* An empty aad is no aad; otherwise it follows the header.                *)
_authData(header, aad) == [header EXCEPT !.tail = @ \o aad]

(* mutant: the length field counts the sealed part too                     *)
_encodeHeaderAll(id, n, kemCt) ==
    [magic |-> Magic, version |-> Version, kem |-> id, aead |-> Aes256Gcm,
     salt |-> n, nonce |-> n, kemCtLen |-> Len(kemCt) + Len(AeadSealed(n)),
     tail |-> kemCt]

_encodeHeader(id, n, kemCt) ==
    [magic |-> Magic, version |-> Version, kem |-> id, aead |-> Aes256Gcm,
     salt |-> n, nonce |-> n, kemCtLen |-> Len(kemCt), tail |-> kemCt]

-----------------------------------------------------------------------------
VARIABLES sent,             \* what each seal made, None before
          arrived,          \* the envelope the recipient has, None before
          given,            \* the aad the recipient opens it with
          outcome           \* what each backend said

vars == <<sent, arrived, given, outcome>>

None == [none |-> TRUE]
Pending == << "pending" >>

Init ==
    /\ sent = [n \in Seals |-> None]
    /\ arrived = None
    /\ given = NoAad
    /\ outcome = [b \in Backends |-> Pending]

(* Salt and nonce are fresh; the envelope is the header and what the AEAD  *)
(* made of the plaintext under the header and the aad.  Sealing is the     *)
(* same function on both backends.                                         *)
seal(n, id, mine, aad) ==
    LET kemCt == KemCiphertext(n, id)
        header == _encodeHeader(id, n, kemCt)
    IN [envelope |-> [header EXCEPT !.tail = @ \o AeadSealed(n)],
        key |-> hkdfSha256(n, n),
        authData |-> _authData(header, aad),
        aad |-> aad, mine |-> mine]

(* The recipient's key pair is of the algorithm with the highest id; other *)
(* envelopes are sealed to keys the recipient has not.                     *)
RecipientId == Len(CiphertextUnits) - 1

Seal(n) ==
    /\ arrived = None
    /\ sent[n] = None
    /\ \E id \in KemIds, mine \in BOOLEAN, aad \in Aads :
         /\ mine => id = RecipientId
         /\ sent' = [sent EXCEPT ![n] = seal(n, id, mine, aad)]
    /\ UNCHANGED <<arrived, given, outcome>>

-----------------------------------------------------------------------------
(* What may arrive in place of a sent envelope.                            *)
Fields == {"magic", "version", "kem", "aead", "salt", "nonce", "kemCtLen"}

Sealed == {n \in Seals : sent[n] # None}

FieldValues(f) ==
    {sent[m].envelope[f] : m \in Sealed} \union
    CASE f = "magic" -> {"other"}
      [] f = "kem" -> 0..Len(CiphertextUnits)
      [] f \in {"version", "aead"} -> {2}
      [] f \in {"salt", "nonce"} -> {0}
      [] f = "kemCtLen" -> 0..(ciphertextBytes(Len(CiphertextUnits) - 1) + 1)

OneOverwritten(e) ==
    UNION {{[e EXCEPT ![f] = v] : v \in FieldValues(f)} : f \in Fields}

Overwritten(e) ==
    {e}
      \union (IF MaxDamaged > 0 THEN OneOverwritten(e) ELSE {})
      \union (IF MaxDamaged > 1
                THEN UNION {OneOverwritten(d) : d \in OneOverwritten(e)} ELSE {})

(* The end cut off, more bytes after it, one unit overwritten, or the end  *)
(* of one envelope after the beginning of another.                         *)
Tails(t) ==
    {SubSeq(t, 1, k) : k \in 0..Len(t)}
      \union {Append(t, Garbage)}
      \union {[t EXCEPT ![k] = Garbage] : k \in DOMAIN t}
      \union {SubSeq(t, 1, Len(t) - 2) \o AeadSealed(m) : m \in Sealed}
      \union {sent[m].envelope.tail : m \in Sealed}

TooShort == [short |-> TRUE]

Arrive(n) ==
    /\ arrived = None
    /\ sent[n] # None
    /\ \/ arrived' = TooShort
       \/ \E e \in Overwritten(sent[n].envelope) : arrived' = e
       \/ \E t \in Tails(sent[n].envelope.tail) :
             arrived' = [sent[n].envelope EXCEPT !.tail = t]
    /\ given' \in Aads
    /\ UNCHANGED <<sent, outcome>>

-----------------------------------------------------------------------------
(* mutant: the AEAD id is not looked at                                    *)
AeadAny(e) == TRUE

AeadKnown(e) == e.aead = Aes256Gcm

(* The checks of _decode, all of them refusals as an invalid ciphertext.   *)
(* After them a KEM ciphertext of the header's algorithm is present.       *)
_decodes(e) ==
    /\ e # TooShort
    /\ e.magic = Magic
    /\ e.version = Version
    /\ e.kem \in KemIds
    /\ AeadKnown(e)
    /\ e.kemCtLen = ciphertextBytes(e.kem)
    /\ e.kemCtLen <= Len(e.tail)

kemCiphertext(e) == SubSeq(e.tail, 1, e.kemCtLen)
header(e) == [e EXCEPT !.tail = kemCiphertext(e)]
sealed(e) == SubSeq(e.tail, e.kemCtLen + 1, Len(e.tail))

Rejected == 0

Secret(e) ==
    LET from == {n \in Sealed : /\ sent[n].mine
                                /\ kemCiphertext(e) = KemCiphertext(n, RecipientId)}
    IN IF from = {} THEN Rejected ELSE CHOOSE n \in from : TRUE

(* The AEAD accepts what it made, under the same key, nonce and data.      *)
AuthenticFor(e, aad) ==
    {n \in Sealed :
        /\ sealed(e) = AeadSealed(n)
        /\ hkdfSha256(Secret(e), e.salt) = sent[n].key
        /\ e.nonce = sent[n].envelope.nonce
        /\ _authData(header(e), aad) = sent[n].authData}

(* Sealed bytes shorter than a tag: the native side has a code for it; the *)
(* fallback turns every AES-GCM failure into one of two others.            *)
ShortErrors(b) ==
    IF b = "native" THEN {"InvalidCiphertext"} ELSE {"VerificationFailed", "InvalidKey"}

open(b, e, aad) ==
    CASE ~_decodes(e) -> {<<"InvalidCiphertext">>}
      [] _decodes(e) /\ e.kem # RecipientId -> {<<x>> : x \in DecapsulateErrors(b)}
      [] _decodes(e) /\ e.kem = RecipientId /\ Len(sealed(e)) < TagUnits ->
            {<<x>> : x \in ShortErrors(b)}
      [] OTHER ->
            IF AuthenticFor(e, aad) = {} THEN {<<"VerificationFailed">>}
            ELSE {<<"plaintext", n>> : n \in AuthenticFor(e, aad)}

Open(b) ==
    /\ arrived # None
    /\ outcome[b] = Pending
    /\ \E o \in open(b, arrived, given) : outcome' = [outcome EXCEPT ![b] = o]
    /\ UNCHANGED <<sent, arrived, given>>

Next ==
    \/ \E n \in Seals : Seal(n) \/ Arrive(n)
    \/ \E b \in Backends : Open(b)

Spec == Init /\ [][Next]_vars

-----------------------------------------------------------------------------
Errors == {<<"InvalidCiphertext">>, <<"InvalidKey">>, <<"VerificationFailed">>}

(* Type correctness: no envelope carries a field another stage made.       *)
TypeOK ==
    /\ \A n \in Sealed :
         /\ sent[n].envelope.kemCtLen + Len(AeadSealed(n)) = Len(sent[n].envelope.tail)
         /\ sent[n].authData = _authData(header(sent[n].envelope), sent[n].aad)
    /\ given \in Aads
    /\ outcome \in [Backends -> {Pending} \union Errors \union ({"plaintext"} \X Seals)]

(* The recipient gets a plaintext exactly when what arrived is, field for  *)
(* field, an envelope sealed to it with the aad it gives, and then that    *)
(* envelope's own plaintext, whichever backends sealed and opened it.      *)
OpenedIffIntact ==
    \A b \in Backends : outcome[b] # Pending =>
        \A n \in Seals :
            outcome[b] = <<"plaintext", n>> <=>
                /\ n \in Sealed
                /\ arrived = sent[n].envelope
                /\ sent[n].mine
                /\ given = sent[n].aad

(* What seal could have made for some algorithm, as far as shape goes.     *)
Wellformed(e) ==
    /\ e # TooShort
    /\ \E id \in KemIds :
         LET made == _encodeHeader(id, e.salt, KemCiphertext(0, id)) IN
         /\ [e EXCEPT !.nonce = e.salt, !.tail = made.tail] = made
         /\ Len(made.tail) <= Len(e.tail)

(* "Throws an InvalidCiphertextException if the envelope is malformed, or  *)
(* a VerificationFailedException if authentication fails", on either       *)
(* backend, when the key is of the envelope's algorithm and at least a     *)
(* tag follows the header: there both give the same error.  What is        *)
(* shorter than a tag is malformed to the native backend alone.            *)
ErrorFollowsShape ==
    \A b \in Backends : outcome[b] \in Errors =>
        /\ ~Wellformed(arrived) => outcome[b] = <<"InvalidCiphertext">>
        /\ Wellformed(arrived) /\ arrived.kem = RecipientId =>
             IF Len(sealed(arrived)) < TagUnits
               THEN outcome[b] = <<"InvalidCiphertext">> <=> b = "native"
               ELSE outcome[b] = <<"VerificationFailed">>
=============================================================================
