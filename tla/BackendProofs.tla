--------------------------- MODULE BackendProofs ----------------------------
(***************************************************************************)
(* Proofs about what the two backends promise together: the selector and   *)
(* the providers of Providers, and the envelope of Envelope.  The two      *)
(* components share no state.                                              *)
(***************************************************************************)
EXTENDS Providers, Envelope, FiniteSetTheorems, SequenceTheorems, TLAPS

-----------------------------------------------------------------------------
(* The envelope: its data.                                                 *)

(* Every unit an envelope or an aad can be made of.                        *)
Unit == {<< "ct", n, id, i >> : n \in Nat, id \in KemIds, i \in Nat}
          \union {<< "data", n >> : n \in Nat}
          \union {<< "tag", n >> : n \in Nat}
          \union {Garbage}
          \union UNION {{aad[i] : i \in DOMAIN aad} : aad \in Aads}

(* What can arrive, as far as each field goes.                             *)
EnvelopeShape ==
    [magic : {Magic, "other"}, version : {Version, 2}, kem : Nat,
     aead : {Aes256Gcm, 2}, salt : Nat, nonce : Nat, kemCtLen : Nat,
     tail : Seq(Unit)]

(* An aad is a sequence of units.                                          *)
LEMMA AadIsSeq ==
    ASSUME NEW aad \in Aads
    PROVE  aad \in Seq(Unit)
<1>1. {aad[i] : i \in DOMAIN aad} \subseteq Unit
  BY DEF Unit
<1>2. aad \in Seq({aad[i] : i \in DOMAIN aad})
  BY EnvelopeAssumption
<1>3. QED
  BY <1>1, <1>2, SeqMonotonic

(* The algorithms and their lengths.                                       *)
LEMMA KemFacts ==
    /\ RecipientId \in KemIds
    /\ KemIds \subseteq Nat
    /\ \A id \in KemIds : ciphertextBytes(id) \in Nat \ {0}
BY EnvelopeAssumption DEF RecipientId, KemIds, ciphertextBytes

(* A KEM ciphertext has its algorithm's length, and names its seal.        *)
LEMMA CiphertextIsSeq ==
    ASSUME NEW n \in Nat, NEW id \in KemIds
    PROVE  /\ KemCiphertext(n, id) \in Seq(Unit)
           /\ Len(KemCiphertext(n, id)) = ciphertextBytes(id)
           /\ KemCiphertext(n, id)[1] = << "ct", n, id, 1 >>
<1>1. PICK len \in Nat \ {0} : len = ciphertextBytes(id)
  BY KemFacts
<1>2. PICK ct : ct = KemCiphertext(n, id)
  OBVIOUS
<1>3. ct = [i \in 1..len |-> << "ct", n, id, i >>]
  BY <1>1, <1>2 DEF KemCiphertext
<1>4. \A i \in 1..len : << "ct", n, id, i >> \in Unit
  BY DEF Unit
<1>5. ct \in Seq(Unit) /\ Len(ct) = len
  BY <1>3, <1>4
<1>6. ct[1] = << "ct", n, id, 1 >>
  BY <1>3
<1>7. QED
  BY <1>1, <1>2, <1>5, <1>6

LEMMA CiphertextNames ==
    ASSUME NEW n \in Nat, NEW m \in Nat, NEW id \in KemIds,
           KemCiphertext(n, id) = KemCiphertext(m, id)
    PROVE  n = m
<1>1. << "ct", n, id, 1 >> = << "ct", m, id, 1 >>
  BY CiphertextIsSeq
<1>2. QED
  BY <1>1

(* What the AEAD made names its seal too.                                  *)
LEMMA SealedIsSeq ==
    ASSUME NEW n \in Nat
    PROVE  /\ AeadSealed(n) \in Seq(Unit)
           /\ Len(AeadSealed(n)) = 2
           /\ AeadSealed(n)[1] = << "data", n >>
<1>1. <<"data", n>> \in Unit /\ <<"tag", n>> \in Unit
  BY DEF Unit
<1>2. QED
  BY <1>1 DEF AeadSealed

LEMMA SealedNames ==
    ASSUME NEW n \in Nat, NEW m \in Nat, AeadSealed(n) = AeadSealed(m)
    PROVE  n = m
<1>1. << "data", n >> = << "data", m >>
  BY SealedIsSeq
<1>2. QED
  BY <1>1

(* Cutting a concatenation where it was joined.                            *)
LEMMA CutConcat ==
    ASSUME NEW s \in Seq(Unit), NEW t \in Seq(Unit)
    PROVE  /\ SubSeq(s \o t, 1, Len(s)) = s
           /\ SubSeq(s \o t, Len(s) + 1, Len(s \o t)) = t
<1>1. PICK u : u = s \o t
  OBVIOUS
<1>2. /\ u \in Seq(Unit) /\ Len(u) = Len(s) + Len(t)
      /\ \A i \in 1 .. Len(s) + Len(t) :
            u[i] = IF i <= Len(s) THEN s[i] ELSE t[i - Len(s)]
  BY <1>1, ConcatProperties
<1>3. Len(s) \in Nat /\ Len(t) \in Nat
  BY LenProperties
<1>4. PICK front : front = SubSeq(u, 1, Len(s))
  OBVIOUS
<1>5. /\ front \in Seq(Unit) /\ Len(front) = Len(s)
      /\ \A i \in 1 .. Len(s) : front[i] = s[i]
  <2>1. \A i \in 1 .. Len(s) : u[i] \in Unit
    BY <1>2, <1>3, ElementOfSeq
  <2>2. /\ SubSeq(u, 1, Len(s)) \in Seq(Unit)
        /\ Len(SubSeq(u, 1, Len(s))) = IF 1 <= Len(s) THEN Len(s) - 1 + 1 ELSE 0
        /\ \A i \in 1 .. Len(s) - 1 + 1 : SubSeq(u, 1, Len(s))[i] = u[1 + i - 1]
    BY <1>3, <2>1, SubSeqProperties
  <2>3. QED
    BY <1>2, <1>3, <1>4, <2>2
<1>6. PICK back : back = SubSeq(u, Len(s) + 1, Len(u))
  OBVIOUS
<1>7. /\ back \in Seq(Unit) /\ Len(back) = Len(t)
      /\ \A i \in 1 .. Len(t) : back[i] = t[i]
  <2>1. \A i \in Len(s) + 1 .. Len(u) : u[i] \in Unit
    BY <1>2, <1>3, ElementOfSeq
  <2>2. Len(s) + 1 \in Int /\ Len(u) \in Int /\ Len(u) = Len(s) + Len(t)
    BY <1>2, <1>3
  <2>3. /\ back \in Seq(Unit)
        /\ Len(back) = IF Len(s) + 1 <= Len(u) THEN Len(u) - (Len(s) + 1) + 1 ELSE 0
        /\ \A i \in 1 .. Len(u) - (Len(s) + 1) + 1 : back[i] = u[Len(s) + 1 + i - 1]
    BY <1>6, <2>1, <2>2, SubSeqProperties
  <2>4. PICK p \in Nat, q \in Nat : p = Len(s) /\ q = Len(t)
    BY <1>3
  <2>5. Len(back) = q
    BY <1>2, <2>3, <2>4
  <2>6. ASSUME NEW i \in 1..q PROVE back[i] = t[i]
    <3>1. i \in 1 .. Len(u) - (Len(s) + 1) + 1 /\ Len(s) + 1 + i - 1 = p + i
      BY <1>2, <2>4
    <3>2. back[i] = u[p + i]
      BY <2>3, <3>1
    <3>3. p + i \in 1 .. Len(s) + Len(t) /\ ~(p + i <= Len(s)) /\ p + i - Len(s) = i
      BY <2>4
    <3>4. QED
      BY <1>2, <3>2, <3>3
  <2>7. QED
    BY <2>3, <2>4, <2>5, <2>6
<1>8. front = s /\ back = t
  BY <1>5, <1>7, SeqEqual
<1>9. QED
  BY <1>1, <1>4, <1>6, <1>8

(* The envelope of a seal.                                                 *)
EnvelopeOf(n, id) ==
    [_encodeHeader(id, n, KemCiphertext(n, id)) EXCEPT
        !.tail = KemCiphertext(n, id) \o AeadSealed(n)]

(* What a seal made, field by field.                                       *)
LEMMA SealFields ==
    ASSUME NEW n \in Nat, NEW id \in KemIds, NEW mine, NEW aad,
           NEW x, x = seal(n, id, mine, aad)
    PROVE  /\ x.envelope = EnvelopeOf(n, id)
           /\ x.key = << n, n >>
           /\ x.authData = _authData(_encodeHeader(id, n, KemCiphertext(n, id)), aad)
           /\ x.aad = aad
           /\ x.mine = mine
<1>1. PICK h : h = _encodeHeader(id, n, KemCiphertext(n, id))
  OBVIOUS
<1>2. h.tail = KemCiphertext(n, id)
  BY <1>1 DEF _encodeHeader
<1>3. x = [envelope |-> [h EXCEPT !.tail = h.tail \o AeadSealed(n)],
           key |-> hkdfSha256(n, n), authData |-> _authData(h, aad),
           aad |-> aad, mine |-> mine]
  BY <1>1 DEF seal
<1>4. QED
  BY <1>1, <1>2, <1>3 DEF hkdfSha256, EnvelopeOf

(* An envelope with these fields, and what another tail makes of it.       *)
Fielded(magic, version, kem, aead, salt, nonce, len, tail) ==
    [magic |-> magic, version |-> version, kem |-> kem, aead |-> aead,
     salt |-> salt, nonce |-> nonce, kemCtLen |-> len, tail |-> tail]

Retailed(e, tail) == [e EXCEPT !.tail = tail]

LEMMA WithTail ==
    \A a, b, c, d, f, g, h, s, t :
        Retailed(Fielded(a, b, c, d, f, g, h, s), t) = Fielded(a, b, c, d, f, g, h, t)
BY DEF Fielded, Retailed

(* The envelope of a seal reads back as it was written.                    *)
LEMMA SealedEnvelope ==
    ASSUME NEW n \in Nat, NEW id \in KemIds, NEW e, e = EnvelopeOf(n, id)
    PROVE  /\ e \in EnvelopeShape
           /\ e = Fielded(Magic, Version, id, Aes256Gcm, n, n, ciphertextBytes(id),
                         KemCiphertext(n, id) \o AeadSealed(n))
           /\ Len(e.tail) = ciphertextBytes(id) + 2
           /\ kemCiphertext(e) = KemCiphertext(n, id)
           /\ sealed(e) = AeadSealed(n)
           /\ header(e) = _encodeHeader(id, n, KemCiphertext(n, id))
<1>1. PICK ct \in Seq(Unit), s \in Seq(Unit) :
        ct = KemCiphertext(n, id) /\ s = AeadSealed(n)
  BY CiphertextIsSeq, SealedIsSeq
<1>2. PICK len \in Nat \ {0} :
        len = ciphertextBytes(id) /\ Len(ct) = len /\ Len(s) = 2
  BY <1>1, CiphertextIsSeq, SealedIsSeq, KemFacts
<1>3. ct \o s \in Seq(Unit) /\ Len(ct \o s) = len + 2
  <2>1. ct \o s \in Seq(Unit) /\ Len(ct \o s) = Len(ct) + Len(s)
    BY ConcatProperties
  <2>2. QED
    BY <1>2, <2>1
<1>4. /\ e = Fielded(Magic, Version, id, Aes256Gcm, n, n, len, ct \o s)
      /\ _encodeHeader(id, n, ct) = Fielded(Magic, Version, id, Aes256Gcm, n, n, len, ct)
  <2>1. e = Retailed(_encodeHeader(id, n, ct), ct \o s)
    BY <1>1 DEF EnvelopeOf, Retailed
  <2>2. _encodeHeader(id, n, ct) = Fielded(Magic, Version, id, Aes256Gcm, n, n, len, ct)
    BY <1>2 DEF _encodeHeader, Fielded
  <2>3. QED
    BY <2>1, <2>2, WithTail
<1>5. id \in Nat
  BY KemFacts
<1>6. e \in EnvelopeShape
  BY <1>3, <1>4, <1>5 DEF EnvelopeShape, Fielded
<1>7. e.tail = ct \o s /\ e.kemCtLen = Len(ct)
  BY <1>2, <1>4 DEF Fielded
<1>8. kemCiphertext(e) = ct /\ sealed(e) = s
  BY <1>7, CutConcat DEF kemCiphertext, sealed
<1>9. header(e) = _encodeHeader(id, n, ct)
  <2>1. header(e) = Retailed(e, ct)
    BY <1>8 DEF header, Retailed
  <2>2. QED
    BY <1>4, <2>1, WithTail
<1>10. QED
  BY <1>1, <1>2, <1>3, <1>4, <1>6, <1>7, <1>8, <1>9

(* No envelope is the mark of one too short or of none; the three marks    *)
(* differ.                                                                 *)
LEMMA MarksDiffer ==
    /\ None # TooShort
    /\ \A e \in EnvelopeShape : e # None /\ e # TooShort
    /\ \A n, id, mine, aad : seal(n, id, mine, aad) # None
<1>1. DOMAIN None = {"none"} /\ DOMAIN TooShort = {"short"}
  BY DEF None, TooShort
<1>2. \A e \in EnvelopeShape : "magic" \in DOMAIN e
  BY DEF EnvelopeShape
<1>3. ASSUME NEW n, NEW id, NEW mine, NEW aad
      PROVE  "key" \in DOMAIN seal(n, id, mine, aad)
  BY DEF seal
<1>4. QED
  BY <1>1, <1>2, <1>3

-----------------------------------------------------------------------------
(* The envelope: its inductive invariant.                                  *)

(* What seal makes, for some algorithm.                                    *)
MadeBy(n, x) ==
    \E id \in KemIds :
        /\ x.envelope = EnvelopeOf(n, id)
        /\ x.key = << n, n >>
        /\ x.authData = _authData(_encodeHeader(id, n, KemCiphertext(n, id)), x.aad)
        /\ x.aad \in Aads
        /\ x.mine \in BOOLEAN
        /\ x.mine => id = RecipientId

SentInv ==
    /\ DOMAIN sent = Seals
    /\ \A n \in Seals : sent[n] = None \/ MadeBy(n, sent[n])

ArrivedInv ==
    /\ arrived \in {None, TooShort} \union EnvelopeShape
    /\ given \in Aads
    /\ outcome \in [Backends -> {Pending} \union Errors \union ({"plaintext"} \X Seals)]
    /\ arrived = None => \A b \in Backends : outcome[b] = Pending

LEMMA SealedFacts ==
    ASSUME SentInv, NEW n \in Sealed
    PROVE  n \in Seals /\ n \in Nat \ {0} /\ sent[n] # None /\ MadeBy(n, sent[n])
BY EnvelopeAssumption DEF SentInv, Sealed

(* What a decoded envelope splits into.                                    *)
LEMMA Decoded ==
    ASSUME NEW e \in EnvelopeShape, _decodes(e)
    PROVE  /\ e.kem \in KemIds
           /\ e = Fielded(Magic, Version, e.kem, Aes256Gcm, e.salt, e.nonce,
                          ciphertextBytes(e.kem), e.tail)
           /\ kemCiphertext(e) \in Seq(Unit)
           /\ sealed(e) \in Seq(Unit)
           /\ e.tail = kemCiphertext(e) \o sealed(e)
<1>1. /\ e.magic = Magic /\ e.version = Version /\ e.kem \in KemIds
      /\ e.aead = Aes256Gcm /\ e.kemCtLen = ciphertextBytes(e.kem)
      /\ e.kemCtLen <= Len(e.tail)
  BY DEF _decodes, AeadKnown
<1>2. e = Fielded(e.magic, e.version, e.kem, e.aead, e.salt, e.nonce, e.kemCtLen, e.tail)
  BY DEF EnvelopeShape, Fielded
<1>3. e = Fielded(Magic, Version, e.kem, Aes256Gcm, e.salt, e.nonce,
                  ciphertextBytes(e.kem), e.tail)
  BY <1>1, <1>2
<1>4. PICK t \in Seq(Unit), k \in Nat, len \in Nat :
        t = e.tail /\ k = e.kemCtLen /\ len = Len(t)
  BY LenProperties DEF EnvelopeShape
<1>5. k <= len
  BY <1>1, <1>4
<1>6. \A i \in 1..len : t[i] \in Unit
  BY <1>4, ElementOfSeq
<1>7. SubSeq(t, 1, k) \in Seq(Unit)
  <2>1. \A i \in 1..k : t[i] \in Unit
    BY <1>5, <1>6
  <2>2. QED
    BY <2>1, SubSeqProperties
<1>8. SubSeq(t, k + 1, len) \in Seq(Unit)
  <2>1. \A i \in k + 1 .. len : t[i] \in Unit
    BY <1>5, <1>6
  <2>2. k + 1 \in Int /\ len \in Int
    OBVIOUS
  <2>3. QED
    BY <2>1, <2>2, SubSeqProperties
<1>9. SubSeq(t, 1, k) \o SubSeq(t, k + 1, len) = t
  <2>1. /\ 1 \in 1 .. Len(t) + 1 /\ k \in 1 - 1 .. Len(t) /\ len \in k .. Len(t)
    BY <1>4, <1>5
  <2>2. SubSeq(t, 1, k) \o SubSeq(t, k + 1, len) = SubSeq(t, 1, len)
    BY <2>1, ConcatAdjacentSubSeq
  <2>3. SubSeq(t, 1, len) = t
    BY <1>4, SubSeqFull
  <2>4. QED
    BY <2>2, <2>3
<1>10. QED
  BY <1>1, <1>3, <1>4, <1>7, <1>8, <1>9 DEF kemCiphertext, sealed

(* The secret is a seal's own only for that seal's ciphertext.             *)
LEMMA SecretNames ==
    ASSUME SentInv, NEW e, NEW n \in Sealed, Secret(e) = n
    PROVE  sent[n].mine /\ kemCiphertext(e) = KemCiphertext(n, RecipientId)
<1>1. n # Rejected
  BY SealedFacts DEF Rejected
<1>2. PICK from : from = {m \in Sealed : /\ sent[m].mine
                               /\ kemCiphertext(e) = KemCiphertext(m, RecipientId)}
  OBVIOUS
<1>3. Secret(e) = IF from = {} THEN Rejected ELSE CHOOSE m \in from : TRUE
  BY <1>2 DEF Secret
<1>4. n \in from
  BY <1>1, <1>3
<1>5. QED
  BY <1>2, <1>4

LEMMA SecretOf ==
    ASSUME SentInv, NEW e, NEW n \in Sealed, sent[n].mine,
           kemCiphertext(e) = KemCiphertext(n, RecipientId)
    PROVE  Secret(e) = n
<1>1. PICK from : from = {m \in Sealed : /\ sent[m].mine
                               /\ kemCiphertext(e) = KemCiphertext(m, RecipientId)}
  OBVIOUS
<1>2. n \in from
  BY <1>1
<1>3. \A m \in from : m = n
  BY <1>1, SealedFacts, KemFacts, CiphertextNames
<1>4. Secret(e) = IF from = {} THEN Rejected ELSE CHOOSE m \in from : TRUE
  BY <1>1 DEF Secret
<1>5. QED
  BY <1>2, <1>3, <1>4

LEMMA CancelLeft ==
    ASSUME NEW s \in Seq(Unit), NEW t \in Seq(Unit), NEW v \in Seq(Unit),
           s \o t = s \o v
    PROVE  t = v
<1>1. \A S : \A a, b, c \in Seq(S) : a \o b = a \o c => b = c
  BY ConcatSimplifications, Zenon
<1>2. QED
  BY <1>1

(* What is authenticated ends in the KEM ciphertext and the aad.           *)
LEMMA AuthTail ==
    \A a, b, c, d, f, g, h, s, aad :
        _authData(Fielded(a, b, c, d, f, g, h, s), aad).tail = s \o aad
BY DEF Fielded, _authData

(* What a seal made is opened with its aad, and yields that seal alone.    *)
LEMMA IntactOpens ==
    ASSUME SentInv, NEW n \in Sealed, sent[n].mine,
           NEW e, e = sent[n].envelope, NEW aad, aad = sent[n].aad
    PROVE  /\ e \in EnvelopeShape
           /\ _decodes(e)
           /\ e.kem = RecipientId
           /\ ~(Len(sealed(e)) < TagUnits)
           /\ AuthenticFor(e, aad) = {n}
<1>1. PICK id \in KemIds :
        /\ e = EnvelopeOf(n, id)
        /\ sent[n].key = << n, n >>
        /\ sent[n].authData = _authData(_encodeHeader(id, n, KemCiphertext(n, id)), aad)
        /\ id = RecipientId
  BY SealedFacts DEF MadeBy
<1>2. n \in Nat \ {0} /\ n \in Nat
  BY SealedFacts
<1>3. /\ e \in EnvelopeShape
      /\ e = Fielded(Magic, Version, id, Aes256Gcm, n, n, ciphertextBytes(id),
                     KemCiphertext(n, id) \o AeadSealed(n))
      /\ Len(e.tail) = ciphertextBytes(id) + 2
      /\ kemCiphertext(e) = KemCiphertext(n, id)
      /\ sealed(e) = AeadSealed(n)
      /\ header(e) = _encodeHeader(id, n, KemCiphertext(n, id))
  BY <1>1, <1>2, SealedEnvelope
<1>4. /\ e.magic = Magic /\ e.version = Version /\ e.kem = id
      /\ e.aead = Aes256Gcm /\ e.salt = n /\ e.nonce = n
      /\ e.kemCtLen = ciphertextBytes(id)
  BY <1>3 DEF Fielded
<1>5. _decodes(e)
  <2>1. e # TooShort
    BY <1>3, MarksDiffer
  <2>2. e.kemCtLen <= Len(e.tail)
    BY <1>3, <1>4, KemFacts
  <2>3. QED
    BY <1>4, <2>1, <2>2 DEF _decodes, AeadKnown
<1>6. ~(Len(sealed(e)) < TagUnits)
  BY <1>2, <1>3, SealedIsSeq DEF TagUnits
<1>7. Secret(e) = n
  BY <1>1, <1>3, SecretOf
<1>8. n \in AuthenticFor(e, aad)
  <2>1. hkdfSha256(Secret(e), e.salt) = sent[n].key
    BY <1>1, <1>4, <1>7 DEF hkdfSha256
  <2>2. e.nonce = sent[n].envelope.nonce
    OBVIOUS
  <2>3. _authData(header(e), aad) = sent[n].authData
    BY <1>1, <1>3
  <2>4. QED
    BY <1>3, <2>1, <2>2, <2>3 DEF AuthenticFor
<1>9. ASSUME NEW m \in AuthenticFor(e, aad) PROVE m = n
  <2>1. m \in Sealed /\ sealed(e) = AeadSealed(m)
    BY DEF AuthenticFor
  <2>2. m \in Nat
    BY <2>1, SealedFacts
  <2>3. QED
    BY <1>2, <1>3, <2>1, <2>2, SealedNames
<1>10. AuthenticFor(e, aad) = {n}
  BY <1>8, <1>9
<1>11. QED
  BY <1>1, <1>3, <1>4, <1>5, <1>6, <1>10

(* Whatever authenticates is what a seal made, to the last field.          *)
LEMMA AuthenticIsIntact ==
    ASSUME SentInv, NEW e \in EnvelopeShape, NEW aad \in Aads, _decodes(e),
           e.kem = RecipientId, NEW n \in AuthenticFor(e, aad)
    PROVE  /\ n \in Sealed
           /\ e = sent[n].envelope
           /\ sent[n].mine
           /\ aad = sent[n].aad
<1>1. /\ n \in Sealed
      /\ sealed(e) = AeadSealed(n)
      /\ hkdfSha256(Secret(e), e.salt) = sent[n].key
      /\ e.nonce = sent[n].envelope.nonce
      /\ _authData(header(e), aad) = sent[n].authData
  BY DEF AuthenticFor
<1>2. n \in Nat
  BY <1>1, SealedFacts
<1>3. PICK id \in KemIds :
        /\ sent[n].envelope = EnvelopeOf(n, id)
        /\ sent[n].key = << n, n >>
        /\ sent[n].authData
             = _authData(_encodeHeader(id, n, KemCiphertext(n, id)), sent[n].aad)
        /\ sent[n].aad \in Aads
        /\ sent[n].mine => id = RecipientId
  BY <1>1, SealedFacts DEF MadeBy
<1>4. Secret(e) = n /\ e.salt = n
  BY <1>1, <1>3 DEF hkdfSha256
<1>5. sent[n].mine /\ kemCiphertext(e) = KemCiphertext(n, RecipientId)
  BY <1>1, <1>4, SecretNames
<1>6. id = RecipientId
  BY <1>3, <1>5
<1>7. PICK d : d = sent[n].envelope
  OBVIOUS
<1>8. PICK ct \in Seq(Unit), s \in Seq(Unit), len \in Nat :
        ct = KemCiphertext(n, id) /\ s = AeadSealed(n) /\ len = ciphertextBytes(id)
  BY <1>2, CiphertextIsSeq, SealedIsSeq, KemFacts
<1>9. /\ d = Fielded(Magic, Version, id, Aes256Gcm, n, n, len, ct \o s)
      /\ header(d) = _encodeHeader(id, n, ct)
  BY <1>2, <1>3, <1>7, <1>8, SealedEnvelope
<1>10. d.nonce = n
  BY <1>9 DEF Fielded
<1>11. e = Fielded(Magic, Version, id, Aes256Gcm, n, n, len, ct \o s)
  <2>1. /\ e = Fielded(Magic, Version, e.kem, Aes256Gcm, e.salt, e.nonce,
                       ciphertextBytes(e.kem), e.tail)
        /\ e.tail = kemCiphertext(e) \o sealed(e)
    BY Decoded
  <2>2. e.tail = ct \o s
    BY <1>1, <1>5, <1>6, <1>8, <2>1
  <2>3. e.kem = id /\ e.salt = n /\ e.nonce = n /\ ciphertextBytes(e.kem) = len
    BY <1>1, <1>4, <1>6, <1>7, <1>8, <1>10
  <2>4. QED
    BY <2>1, <2>2, <2>3
<1>12. aad = sent[n].aad
  <2>1. PICK h : h = Fielded(Magic, Version, id, Aes256Gcm, n, n, len, ct)
    OBVIOUS
  <2>2. header(e) = h
    BY <1>5, <1>6, <1>8, <1>11, <2>1, WithTail DEF header, Retailed
  <2>3. _encodeHeader(id, n, ct) = h
    BY <1>2, <1>8, <2>1, CiphertextIsSeq DEF _encodeHeader, Fielded
  <2>4. _authData(h, aad) = _authData(h, sent[n].aad)
    BY <1>1, <1>3, <1>8, <2>2, <2>3
  <2>5. ct \o aad = ct \o sent[n].aad
    <3>1. \A a : _authData(h, a).tail = ct \o a
      BY <2>1, AuthTail
    <3>2. QED
      BY <2>4, <3>1
  <2>6. aad \in Seq(Unit) /\ sent[n].aad \in Seq(Unit)
    BY <1>3, AadIsSeq
  <2>7. QED
    BY <2>5, <2>6, CancelLeft
<1>13. QED
  BY <1>1, <1>5, <1>7, <1>9, <1>11, <1>12

(* Decoding succeeds exactly on envelopes a seal could have shaped.        *)
Renonced(e, nonce, tail) == [e EXCEPT !.nonce = nonce, !.tail = tail]

LEMMA WithNonceAndTail ==
    \A a, b, c, d, f, g, h, s, m, t :
        Renonced(Fielded(a, b, c, d, f, g, h, s), m, t) = Fielded(a, b, c, d, f, m, h, t)
<1>1. ASSUME NEW a, NEW b, NEW c, NEW d, NEW f, NEW g, NEW h, NEW s, NEW m
      PROVE  [Fielded(a, b, c, d, f, g, h, s) EXCEPT !.nonce = m]
               = Fielded(a, b, c, d, f, m, h, s)
  BY DEF Fielded
<1>2. ASSUME NEW e, NEW m, NEW t
      PROVE  Renonced(e, m, t) = Retailed([e EXCEPT !.nonce = m], t)
  BY DEF Renonced, Retailed
<1>3. QED
  BY <1>1, <1>2, WithTail

LEMMA WellformedDecodes ==
    ASSUME NEW e \in EnvelopeShape
    PROVE  Wellformed(e) <=> _decodes(e)
<1>1. PICK magic, version, kem, aead, salt, nonce, len, tail :
        /\ kem \in Nat /\ tail \in Seq(Unit)
        /\ e = Fielded(magic, version, kem, aead, salt, nonce, len, tail)
        /\ e.magic = magic /\ e.version = version /\ e.kem = kem /\ e.aead = aead
        /\ e.salt = salt /\ e.kemCtLen = len /\ e.tail = tail
  <2>1. e = Fielded(e.magic, e.version, e.kem, e.aead, e.salt, e.nonce, e.kemCtLen, e.tail)
    BY DEF EnvelopeShape, Fielded
  <2>2. e.kem \in Nat /\ e.tail \in Seq(Unit)
    BY DEF EnvelopeShape
  <2>3. QED
    BY <2>1, <2>2
<1>2. e # TooShort
  BY MarksDiffer
<1>3. ASSUME NEW id \in KemIds
      PROVE  LET model == _encodeHeader(id, e.salt, KemCiphertext(0, id)) IN
             ([e EXCEPT !.nonce = e.salt, !.tail = model.tail] = model
                /\ Len(model.tail) <= Len(e.tail))
             <=> /\ magic = Magic /\ version = Version /\ kem = id
                 /\ aead = Aes256Gcm /\ len = ciphertextBytes(id)
                 /\ ciphertextBytes(id) <= Len(tail)
  <2>1. PICK ct : ct = KemCiphertext(0, id) /\ Len(ct) = ciphertextBytes(id)
    BY CiphertextIsSeq
  <2>2. PICK model : model = _encodeHeader(id, e.salt, KemCiphertext(0, id))
    OBVIOUS
  <2>3. model = Fielded(Magic, Version, id, Aes256Gcm, salt, salt, ciphertextBytes(id), ct)
    BY <1>1, <2>1, <2>2 DEF _encodeHeader, Fielded
  <2>4. model.tail = ct
    BY <2>3 DEF Fielded
  <2>5. Renonced(e, salt, ct) = Fielded(magic, version, kem, aead, salt, salt, len, ct)
    BY <1>1, WithNonceAndTail
  <2>6. (Renonced(e, salt, ct) = model)
          <=> (/\ magic = Magic /\ version = Version /\ kem = id
               /\ aead = Aes256Gcm /\ len = ciphertextBytes(id))
    BY <2>3, <2>5 DEF Fielded
  <2>7. [e EXCEPT !.nonce = e.salt, !.tail = model.tail] = Renonced(e, salt, ct)
    BY <1>1, <2>4 DEF Renonced
  <2>8. QED
    BY <1>1, <2>1, <2>2, <2>4, <2>6, <2>7
<1>4. ASSUME _decodes(e) PROVE Wellformed(e)
  <2>1. /\ kem \in KemIds /\ magic = Magic /\ version = Version /\ aead = Aes256Gcm
        /\ len = ciphertextBytes(kem) /\ ciphertextBytes(kem) <= Len(tail)
    BY <1>1, <1>4 DEF _decodes, AeadKnown
  <2>2. QED
    BY <1>2, <1>3, <2>1 DEF Wellformed
<1>5. ASSUME Wellformed(e) PROVE _decodes(e)
  <2>1. PICK id \in KemIds :
          /\ magic = Magic /\ version = Version /\ kem = id
          /\ aead = Aes256Gcm /\ len = ciphertextBytes(id)
          /\ ciphertextBytes(id) <= Len(tail)
    BY <1>3, <1>5 DEF Wellformed
  <2>2. QED
    BY <1>1, <1>2, <2>1 DEF _decodes, AeadKnown
<1>6. QED
  BY <1>4, <1>5

(* Refusals are no plaintexts.                                             *)
LEMMA RefusalsDiffer ==
    /\ \A x, n : << x >> # << "plaintext", n >>
    /\ \A o \in Errors : \A n : o # << "plaintext", n >>
    /\ \A m, n : << "plaintext", m >> = << "plaintext", n >> => m = n
    /\ \A o \in Errors \union ({"plaintext"} \X Seals) : o # Pending
<1>1. \A x, n : << x >> # << "plaintext", n >>
  <2>1. \A x, n : Len(<< x >>) = 1 /\ Len(<< "plaintext", n >>) = 2
    OBVIOUS
  <2>2. QED
    BY <2>1
<1>2. \A o \in Errors : \A n : o # << "plaintext", n >>
  BY <1>1 DEF Errors
<1>3. \A m, n : << "plaintext", m >> = << "plaintext", n >> => m = n
  OBVIOUS
<1>4. \A o \in Errors : o # Pending
  BY DEF Errors, Pending
<1>5. \A n \in Seals : << "plaintext", n >> # Pending
  BY <1>1 DEF Pending
<1>6. QED
  BY <1>1, <1>2, <1>3, <1>4, <1>5

Intact(n, e, aad) ==
    /\ n \in Sealed
    /\ e = sent[n].envelope
    /\ sent[n].mine
    /\ aad = sent[n].aad

(* What open answers.                                                      *)
LEMMA OpenOutcome ==
    ASSUME SentInv, NEW e \in {TooShort} \union EnvelopeShape, NEW aad \in Aads,
           NEW b \in Backends, NEW o \in open(b, e, aad)
    PROVE  /\ o \in Errors \union ({"plaintext"} \X Seals)
           /\ \A n \in Seals : o = << "plaintext", n >> <=> Intact(n, e, aad)
           /\ o \in Errors =>
                /\ ~Wellformed(e) => o = << "InvalidCiphertext" >>
                /\ Wellformed(e) /\ e.kem = RecipientId =>
                     IF Len(sealed(e)) < TagUnits
                       THEN o = << "InvalidCiphertext" >> <=> b = "native"
                       ELSE o = << "VerificationFailed" >>
<1>1. Wellformed(e) <=> _decodes(e)
  BY WellformedDecodes DEF Wellformed, _decodes
<1>2. _decodes(e) => e \in EnvelopeShape
  BY DEF _decodes
<1>3. ASSUME NEW n, Intact(n, e, aad)
      PROVE  /\ _decodes(e)
             /\ e.kem = RecipientId
             /\ ~(Len(sealed(e)) < TagUnits)
             /\ AuthenticFor(e, aad) = {n}
  BY <1>3, IntactOpens DEF Intact
<1>4. CASE ~_decodes(e)
  <2>1. open(b, e, aad) = {<< "InvalidCiphertext" >>}
    BY <1>4 DEF open
  <2>2. o = << "InvalidCiphertext" >> /\ o \in Errors
    BY <2>1 DEF Errors
  <2>3. QED
    BY <1>1, <1>3, <1>4, <2>2, RefusalsDiffer
<1>5. CASE _decodes(e) /\ e.kem # RecipientId
  <2>1. open(b, e, aad) = {<< x >> : x \in DecapsulateErrors(b)}
    BY <1>5 DEF open
  <2>2. o \in Errors
    BY <2>1 DEF Errors, DecapsulateErrors
  <2>3. QED
    BY <1>1, <1>3, <1>5, <2>2, RefusalsDiffer
<1>6. CASE _decodes(e) /\ e.kem = RecipientId /\ Len(sealed(e)) < TagUnits
  <2>1. open(b, e, aad) = {<< x >> : x \in ShortErrors(b)}
    BY <1>6 DEF open
  <2>2. o \in Errors /\ (o = << "InvalidCiphertext" >> <=> b = "native")
    BY <2>1 DEF Errors, ShortErrors
  <2>3. QED
    BY <1>1, <1>3, <1>6, <2>2, RefusalsDiffer
<1>7. CASE _decodes(e) /\ e.kem = RecipientId /\ ~(Len(sealed(e)) < TagUnits)
  <2>1. open(b, e, aad) = IF AuthenticFor(e, aad) = {} THEN {<< "VerificationFailed" >>}
                          ELSE {<< "plaintext", n >> : n \in AuthenticFor(e, aad)}
    BY <1>7 DEF open
  <2>2. CASE AuthenticFor(e, aad) = {}
    <3>1. o = << "VerificationFailed" >> /\ o \in Errors
      BY <2>1, <2>2 DEF Errors
    <3>2. QED
      BY <1>1, <1>3, <1>7, <2>2, <3>1, RefusalsDiffer
  <2>3. CASE AuthenticFor(e, aad) # {}
    <3>1. PICK n \in AuthenticFor(e, aad) : o = << "plaintext", n >>
      BY <2>1, <2>3
    <3>2. Intact(n, e, aad)
      BY <1>2, <1>7, AuthenticIsIntact DEF Intact
    <3>3. n \in Seals
      BY <3>2, SealedFacts DEF Intact
    <3>4. \A m : Intact(m, e, aad) => m = n
      BY <1>3, <3>2
    <3>5. o \notin Errors
      BY <3>1, RefusalsDiffer
    <3>6. QED
      BY <3>1, <3>2, <3>3, <3>4, <3>5, RefusalsDiffer
  <2>4. QED
    BY <2>2, <2>3
<1>8. QED
  BY <1>4, <1>5, <1>6, <1>7

(* What arrives has the shape of an envelope, however it was damaged.      *)
LEMMA SentShape ==
    ASSUME SentInv, NEW n \in Sealed
    PROVE  sent[n].envelope \in EnvelopeShape
BY SealedFacts, SealedEnvelope DEF MadeBy

LEMMA OverwrittenShape ==
    ASSUME SentInv, NEW e \in EnvelopeShape, NEW d \in OneOverwritten(e)
    PROVE  d \in EnvelopeShape
<1>1. PICK f, v : f \in Fields /\ v \in FieldValues(f) /\ d = [e EXCEPT ![f] = v]
  BY DEF OneOverwritten
<1>2. \A m \in Sealed :
        /\ sent[m].envelope.magic \in {Magic, "other"}
        /\ sent[m].envelope.version \in {Version, 2}
        /\ sent[m].envelope.kem \in Nat
        /\ sent[m].envelope.aead \in {Aes256Gcm, 2}
        /\ sent[m].envelope.salt \in Nat
        /\ sent[m].envelope.nonce \in Nat
        /\ sent[m].envelope.kemCtLen \in Nat
  BY SentShape DEF EnvelopeShape
<1>3. CASE f = "magic"
  <2>1. v \in {Magic, "other"}
    BY <1>1, <1>2, <1>3 DEF FieldValues
  <2>2. QED
    BY <1>1, <1>3, <2>1 DEF EnvelopeShape
<1>4. CASE f = "version"
  <2>1. v \in {Version, 2}
    BY <1>1, <1>2, <1>4 DEF FieldValues
  <2>2. QED
    BY <1>1, <1>4, <2>1 DEF EnvelopeShape
<1>5. CASE f = "kem"
  <2>1. v \in Nat
    BY <1>1, <1>2, <1>5 DEF FieldValues
  <2>2. QED
    BY <1>1, <1>5, <2>1 DEF EnvelopeShape
<1>6. CASE f = "aead"
  <2>1. v \in {Aes256Gcm, 2}
    BY <1>1, <1>2, <1>6 DEF FieldValues
  <2>2. QED
    BY <1>1, <1>6, <2>1 DEF EnvelopeShape
<1>7. CASE f = "salt"
  <2>1. v \in Nat
    BY <1>1, <1>2, <1>7 DEF FieldValues
  <2>2. QED
    BY <1>1, <1>7, <2>1 DEF EnvelopeShape
<1>8. CASE f = "nonce"
  <2>1. v \in Nat
    BY <1>1, <1>2, <1>8 DEF FieldValues
  <2>2. QED
    BY <1>1, <1>8, <2>1 DEF EnvelopeShape
<1>9. CASE f = "kemCtLen"
  <2>1. v \in Nat
    BY <1>1, <1>2, <1>9 DEF FieldValues
  <2>2. QED
    BY <1>1, <1>9, <2>1 DEF EnvelopeShape
<1>10. QED
  BY <1>1, <1>3, <1>4, <1>5, <1>6, <1>7, <1>8, <1>9 DEF Fields

LEMMA TailShape ==
    ASSUME SentInv, NEW t \in Seq(Unit), NEW s \in Tails(t)
    PROVE  s \in Seq(Unit)
<1>1. Garbage \in Unit
  BY DEF Unit
<1>2. Len(t) \in Nat
  BY LenProperties
<1>3. \A i \in 1..Len(t) : t[i] \in Unit
  BY ElementOfSeq
<1>4. \A k \in Int : k <= Len(t) => SubSeq(t, 1, k) \in Seq(Unit)
  <2>1. ASSUME NEW k \in Int, k <= Len(t) PROVE SubSeq(t, 1, k) \in Seq(Unit)
    <3>1. \A i \in 1..k : t[i] \in Unit
      BY <1>2, <1>3, <2>1
    <3>2. QED
      BY <3>1, SubSeqProperties
  <2>2. QED
    BY <2>1
<1>5. CASE \E k \in 0..Len(t) : s = SubSeq(t, 1, k)
  BY <1>2, <1>4, <1>5
<1>6. CASE s = Append(t, Garbage)
  BY <1>1, <1>6, AppendProperties
<1>7. CASE \E k \in DOMAIN t : s = [t EXCEPT ![k] = Garbage]
  <2>1. DOMAIN t = 1..Len(t)
    BY LenProperties
  <2>2. QED
    BY <1>1, <1>7, <2>1, ExceptSeq
<1>8. CASE \E m \in Sealed : s = SubSeq(t, 1, Len(t) - 2) \o AeadSealed(m)
  <2>1. PICK m \in Sealed : s = SubSeq(t, 1, Len(t) - 2) \o AeadSealed(m)
    BY <1>8
  <2>2. SubSeq(t, 1, Len(t) - 2) \in Seq(Unit)
    BY <1>2, <1>4
  <2>3. AeadSealed(m) \in Seq(Unit)
    BY SealedFacts, SealedIsSeq
  <2>4. QED
    BY <2>1, <2>2, <2>3, ConcatProperties
<1>9. CASE \E m \in Sealed : s = sent[m].envelope.tail
  BY <1>9, SentShape DEF EnvelopeShape
<1>10. QED
  BY <1>5, <1>6, <1>7, <1>8, <1>9 DEF Tails

LEMMA ArrivedShape ==
    ASSUME SentInv, NEW n \in Seals, Arrive(n)
    PROVE  arrived' \in {TooShort} \union EnvelopeShape
<1>1. n \in Sealed
  BY DEF Sealed, Arrive
<1>2. PICK e \in EnvelopeShape : e = sent[n].envelope
  BY <1>1, SentShape
<1>3. CASE arrived' = TooShort
  BY <1>3
<1>4. CASE arrived' \in Overwritten(e)
  <2>1. \/ arrived' = e
        \/ arrived' \in OneOverwritten(e)
        \/ \E d \in OneOverwritten(e) : arrived' \in OneOverwritten(d)
    BY <1>4 DEF Overwritten
  <2>2. QED
    BY <2>1, OverwrittenShape
<1>5. CASE \E t \in Tails(e.tail) : arrived' = [e EXCEPT !.tail = t]
  <2>1. PICK t \in Tails(e.tail) : arrived' = [e EXCEPT !.tail = t]
    BY <1>5
  <2>2. e.tail \in Seq(Unit)
    BY DEF EnvelopeShape
  <2>3. t \in Seq(Unit)
    BY <2>2, TailShape
  <2>4. QED
    BY <2>1, <2>3 DEF EnvelopeShape
<1>6. QED
  BY <1>2, <1>3, <1>4, <1>5 DEF Arrive

(* The inductive invariant: what was sent was made by a seal, what arrived *)
(* has an envelope's shape, and every outcome is already what the two      *)
(* properties say; nothing an outcome depends on changes after it.         *)
EnvelopeInv == SentInv /\ ArrivedInv /\ OpenedIffIntact /\ ErrorFollowsShape

LEMMA EnvelopeInit == Init => EnvelopeInv
<1>1. SUFFICES ASSUME Init PROVE EnvelopeInv
  OBVIOUS
<1>2. \A b \in Backends : outcome[b] = Pending
  BY <1>1 DEF Init
<1>3. SentInv
  BY <1>1 DEF Init, SentInv
<1>4. ArrivedInv
  BY <1>1, <1>2, EnvelopeAssumption DEF Init, ArrivedInv
<1>5. OpenedIffIntact
  BY <1>2 DEF OpenedIffIntact
<1>6. ErrorFollowsShape
  BY <1>2, RefusalsDiffer DEF ErrorFollowsShape
<1>7. QED
  BY <1>3, <1>4, <1>5, <1>6 DEF EnvelopeInv

LEMMA SealKeeps ==
    ASSUME EnvelopeInv, NEW n \in Seals, Seal(n)
    PROVE  EnvelopeInv'
<1>1. SentInv /\ ArrivedInv
  BY DEF EnvelopeInv
<1>2. PICK id \in KemIds, mine \in BOOLEAN, aad \in Aads :
        /\ mine => id = RecipientId
        /\ sent' = [sent EXCEPT ![n] = seal(n, id, mine, aad)]
  BY DEF Seal
<1>3. arrived = None /\ arrived' = arrived /\ given' = given /\ outcome' = outcome
  BY DEF Seal
<1>4. PICK x : x = seal(n, id, mine, aad)
  OBVIOUS
<1>5. MadeBy(n, x)
  <2>1. n \in Nat
    BY EnvelopeAssumption
  <2>2. QED
    BY <1>2, <1>4, <2>1, SealFields DEF MadeBy
<1>6. SentInv'
  BY <1>1, <1>2, <1>4, <1>5 DEF SentInv
<1>7. \A b \in Backends : outcome'[b] = Pending
  BY <1>1, <1>3 DEF ArrivedInv
<1>8. ArrivedInv'
  BY <1>1, <1>3 DEF ArrivedInv
<1>9. OpenedIffIntact'
  BY <1>7 DEF OpenedIffIntact
<1>10. ErrorFollowsShape'
  BY <1>7, RefusalsDiffer DEF ErrorFollowsShape
<1>11. QED
  BY <1>6, <1>8, <1>9, <1>10 DEF EnvelopeInv

LEMMA ArriveKeeps ==
    ASSUME EnvelopeInv, NEW n \in Seals, Arrive(n)
    PROVE  EnvelopeInv'
<1>1. SentInv /\ ArrivedInv
  BY DEF EnvelopeInv
<1>2. arrived = None /\ given' \in Aads /\ sent' = sent /\ outcome' = outcome
  BY DEF Arrive
<1>3. arrived' \in {TooShort} \union EnvelopeShape
  BY <1>1, ArrivedShape
<1>4. SentInv'
  BY <1>1, <1>2 DEF SentInv
<1>5. \A b \in Backends : outcome'[b] = Pending
  BY <1>1, <1>2 DEF ArrivedInv
<1>6. ArrivedInv'
  BY <1>1, <1>2, <1>3, <1>5 DEF ArrivedInv
<1>7. OpenedIffIntact'
  BY <1>5 DEF OpenedIffIntact
<1>8. ErrorFollowsShape'
  BY <1>5, RefusalsDiffer DEF ErrorFollowsShape
<1>9. QED
  BY <1>4, <1>6, <1>7, <1>8 DEF EnvelopeInv

LEMMA OpenKeeps ==
    ASSUME EnvelopeInv, NEW b \in Backends, Open(b)
    PROVE  EnvelopeInv'
<1>1. SentInv /\ ArrivedInv /\ OpenedIffIntact /\ ErrorFollowsShape
  BY DEF EnvelopeInv
<1>2. PICK o \in open(b, arrived, given) : outcome' = [outcome EXCEPT ![b] = o]
  BY DEF Open
<1>3. arrived # None /\ sent' = sent /\ arrived' = arrived /\ given' = given
  BY DEF Open
<1>4. arrived \in {TooShort} \union EnvelopeShape /\ given \in Aads
  BY <1>1, <1>3 DEF ArrivedInv
<1>5. /\ o \in Errors \union ({"plaintext"} \X Seals)
      /\ \A n \in Seals : o = << "plaintext", n >> <=> Intact(n, arrived, given)
      /\ o \in Errors =>
           /\ ~Wellformed(arrived) => o = << "InvalidCiphertext" >>
           /\ Wellformed(arrived) /\ arrived.kem = RecipientId =>
                IF Len(sealed(arrived)) < TagUnits
                  THEN o = << "InvalidCiphertext" >> <=> b = "native"
                  ELSE o = << "VerificationFailed" >>
  BY <1>1, <1>4, OpenOutcome
<1>6. \A c \in Backends : outcome'[c] = IF c = b THEN o ELSE outcome[c]
  BY <1>1, <1>2 DEF ArrivedInv
<1>7. SentInv'
  BY <1>1, <1>3 DEF SentInv
<1>8. ArrivedInv'
  BY <1>1, <1>2, <1>3, <1>5 DEF ArrivedInv
<1>9. OpenedIffIntact'
  <2>1. SUFFICES ASSUME NEW c \in Backends, outcome'[c] # Pending, NEW n \in Seals
                 PROVE  outcome'[c] = << "plaintext", n >> <=>
                            /\ n \in Sealed'
                            /\ arrived' = sent'[n].envelope
                            /\ sent'[n].mine
                            /\ given' = sent'[n].aad
    BY DEF OpenedIffIntact
  <2>2. Intact(n, arrived, given) <=>
            /\ n \in Sealed'
            /\ arrived' = sent'[n].envelope
            /\ sent'[n].mine
            /\ given' = sent'[n].aad
    BY <1>3 DEF Intact, Sealed
  <2>3. outcome'[c] = << "plaintext", n >> <=> Intact(n, arrived, given)
    <3>1. CASE c = b
      BY <1>5, <1>6, <3>1
    <3>2. CASE c # b
      <4>1. outcome'[c] = outcome[c]
        BY <1>6, <3>2
      <4>2. outcome[c] = << "plaintext", n >> <=> Intact(n, arrived, given)
        BY <1>1, <2>1, <4>1 DEF OpenedIffIntact, Intact
      <4>3. QED
        BY <4>1, <4>2
    <3>3. QED
      BY <3>1, <3>2
  <2>4. QED
    BY <2>2, <2>3
<1>10. ErrorFollowsShape'
  <2>1. ASSUME NEW c \in Backends, outcome'[c] \in Errors
        PROVE  /\ ~Wellformed(arrived) => outcome'[c] = << "InvalidCiphertext" >>
               /\ Wellformed(arrived) /\ arrived.kem = RecipientId =>
                    IF Len(sealed(arrived)) < TagUnits
                      THEN outcome'[c] = << "InvalidCiphertext" >> <=> c = "native"
                      ELSE outcome'[c] = << "VerificationFailed" >>
    <3>1. CASE c = b
      BY <1>5, <1>6, <2>1, <3>1
    <3>2. CASE c # b
      <4>1. outcome'[c] = outcome[c]
        BY <1>6, <3>2
      <4>2. QED
        BY <1>1, <2>1, <4>1 DEF ErrorFollowsShape
    <3>3. QED
      BY <3>1, <3>2
  <2>2. QED
    BY <1>3, <2>1 DEF ErrorFollowsShape
<1>11. QED
  BY <1>7, <1>8, <1>9, <1>10 DEF EnvelopeInv

LEMMA EnvelopeStep == EnvelopeInv /\ [Next]_vars => EnvelopeInv'
<1>1. SUFFICES ASSUME EnvelopeInv, [Next]_vars PROVE EnvelopeInv'
  OBVIOUS
<1>2. ASSUME NEW n \in Seals, Seal(n) PROVE EnvelopeInv'
  BY <1>1, <1>2, SealKeeps
<1>3. ASSUME NEW n \in Seals, Arrive(n) PROVE EnvelopeInv'
  BY <1>1, <1>3, ArriveKeeps
<1>4. ASSUME NEW b \in Backends, Open(b) PROVE EnvelopeInv'
  BY <1>1, <1>4, OpenKeeps
<1>5. CASE UNCHANGED vars
  BY <1>1, <1>5 DEF vars, EnvelopeInv, SentInv, ArrivedInv, OpenedIffIntact,
                    ErrorFollowsShape, Sealed
<1>6. QED
  BY <1>1, <1>2, <1>3, <1>4, <1>5 DEF Next

LEMMA EnvelopeInvariant == Spec => []EnvelopeInv
BY EnvelopeInit, EnvelopeStep, PTL DEF Spec

-----------------------------------------------------------------------------
(* The envelope: its theorems.                                             *)

(* Type correctness: an envelope's length field counts its KEM ciphertext, *)
(* what was authenticated is header and aad, and open answers a plaintext  *)
(* or one of the three errors.                                             *)
THEOREM EnvelopeTypeCorrect == Spec => []TypeOK
<1>1. ASSUME EnvelopeInv PROVE TypeOK
  <2>1. SentInv /\ ArrivedInv
    BY <1>1 DEF EnvelopeInv
  <2>2. ASSUME NEW n \in Sealed
        PROVE  /\ sent[n].envelope.kemCtLen + Len(AeadSealed(n))
                    = Len(sent[n].envelope.tail)
               /\ sent[n].authData = _authData(header(sent[n].envelope), sent[n].aad)
    <3>1. n \in Nat
      BY <2>1, SealedFacts
    <3>2. PICK id \in KemIds :
            /\ sent[n].envelope = EnvelopeOf(n, id)
            /\ sent[n].authData
                 = _authData(_encodeHeader(id, n, KemCiphertext(n, id)), sent[n].aad)
      BY <2>1, SealedFacts DEF MadeBy
    <3>3. PICK e : e = sent[n].envelope
      OBVIOUS
    <3>4. /\ e = Fielded(Magic, Version, id, Aes256Gcm, n, n, ciphertextBytes(id),
                         KemCiphertext(n, id) \o AeadSealed(n))
          /\ Len(e.tail) = ciphertextBytes(id) + 2
          /\ header(e) = _encodeHeader(id, n, KemCiphertext(n, id))
      BY <3>1, <3>2, <3>3, SealedEnvelope
    <3>5. e.kemCtLen = ciphertextBytes(id)
      BY <3>4 DEF Fielded
    <3>6. Len(AeadSealed(n)) = 2
      BY <3>1, SealedIsSeq
    <3>7. QED
      BY <3>2, <3>3, <3>4, <3>5, <3>6
  <2>3. QED
    BY <2>1, <2>2 DEF TypeOK, ArrivedInv
<1>2. QED
  BY <1>1, EnvelopeInvariant, PTL

(* Whichever backends seal and open, and whatever arrives: a plaintext     *)
(* comes out exactly when the envelope is, field for field, one sealed to  *)
(* the recipient with the aad it gives, and it is that envelope's own.     *)
THEOREM OpensOnlyIntact == Spec => []OpenedIffIntact
<1>1. EnvelopeInv => OpenedIffIntact
  BY DEF EnvelopeInv
<1>2. QED
  BY <1>1, EnvelopeInvariant, PTL

(* A malformed envelope is an invalid ciphertext, a well-formed one of the *)
(* recipient's algorithm with at least a tag fails verification, and one   *)
(* with less is an invalid ciphertext to the native backend alone.         *)
THEOREM ErrorsFollowShape == Spec => []ErrorFollowsShape
<1>1. EnvelopeInv => ErrorFollowsShape
  BY DEF EnvelopeInv
<1>2. QED
  BY <1>1, EnvelopeInvariant, PTL

-----------------------------------------------------------------------------
(* The selector and the providers: their inductive invariant.              *)

(* What a resolved singleton is.                                           *)
Resolutions == {Fallback} \union {Native(path) : path \in Paths}

HandleType == [isolate : Isolates, backend : Resolutions, epoch : Nat]

(* Handles of an isolate's current epoch hold its singleton as it is.      *)
HandleInv ==
    /\ handles \in Seq(HandleType)
    /\ \A i \in DOMAIN handles :
         /\ handles[i].epoch <= epoch[handles[i].isolate]
         /\ handles[i].epoch = epoch[handles[i].isolate] =>
              handles[i].backend = _instance[handles[i].isolate]

SelectorInv ==
    /\ library \in [Paths -> Conditions]
    /\ _instance \in [Isolates -> {Unresolved} \union Resolutions]
    /\ epoch \in [Isolates -> 0..MaxEpochs]
    /\ HandleInv
    /\ ResolvedOnce

(* Random outputs are numbered below the number of outputs made.           *)
MadeInv ==
    /\ IsFiniteSet(made)
    /\ \A x \in made :
         /\ << x.op, x.seed >> \in Requests
         /\ x.seed = Omitted =>
              \E i \in Nat : i < Cardinality(made) /\ x.output = << "random", i >>
         /\ x.seed = Seed => x.output = << "from", Seed >>
    /\ SeedsAreHonoured

SignatureInv ==
    /\ lattice \in Providers
    /\ classical \in Providers
    /\ signature = NoSignature \/ signature \in [asked : Messages, over : Messages]
    /\ signature.over = signature.asked
    /\ SignaturesCarryOver

ProvidersInv == SelectorInv /\ MadeInv /\ SignatureInv

LEMMA UnresolvedIsNone == Unresolved \notin Resolutions
<1>1. Unresolved.kind = "unresolved" /\ Fallback.kind = "fallback"
  BY DEF Unresolved, Fallback
<1>2. \A path : Native(path).kind = "native"
  BY DEF Native
<1>3. QED
  BY <1>1, <1>2 DEF Resolutions

LEMMA ResolvedResolves ==
    ASSUME SelectorInv, NEW isolate \in Isolates, NEW preferNative \in BOOLEAN,
           NEW path \in Paths \union {NoPath}
    PROVE  /\ Resolved(isolate, preferNative, path) \in Resolutions
           /\ _instance[isolate] # Unresolved =>
                Resolved(isolate, preferNative, path) = _instance[isolate]
BY DEF SelectorInv, Resolved, _resolveBackend, Resolutions

(* A client is given what the isolate's singleton now is: in a new epoch,  *)
(* or in the epoch that goes on, with the singleton that was there if any. *)
LEMMA HoldKeeps ==
    ASSUME SelectorInv, NEW isolate \in Isolates, NEW r \in Resolutions,
           NEW now \in 0..MaxEpochs, Hold(isolate, r, now), library' = library,
           _instance' = [_instance EXCEPT ![isolate] = r],
           epoch' = [epoch EXCEPT ![isolate] = now],
           \/ now > epoch[isolate]
           \/ now = epoch[isolate] /\ (_instance[isolate] # Unresolved => r = _instance[isolate])
    PROVE  SelectorInv'
<1>1. PICK h : h = [isolate |-> isolate, backend |-> r, epoch |-> now]
  OBVIOUS
<1>2. h \in HandleType
  BY <1>1 DEF HandleType
<1>3. handles' = Append(handles, h)
  BY <1>1 DEF Hold
<1>4. PICK hs \in Seq(HandleType), n \in Nat :
        /\ hs = handles /\ n = Len(hs) /\ DOMAIN hs = 1..n
        /\ \A i \in 1..n :
             /\ hs[i].epoch <= epoch[hs[i].isolate]
             /\ hs[i].epoch = epoch[hs[i].isolate] => hs[i].backend = _instance[hs[i].isolate]
        /\ \A i, j \in 1..n :
             hs[i].isolate = hs[j].isolate /\ hs[i].epoch = hs[j].epoch =>
               hs[i].backend = hs[j].backend
  <2>1. handles \in Seq(HandleType)
    BY DEF SelectorInv, HandleInv
  <2>2. PICK n \in Nat : n = Len(handles) /\ DOMAIN handles = 1..n
    BY <2>1, LenProperties
  <2>3. \A i \in 1..n :
          /\ handles[i].epoch <= epoch[handles[i].isolate]
          /\ handles[i].epoch = epoch[handles[i].isolate] =>
               handles[i].backend = _instance[handles[i].isolate]
    BY <2>2, Zenon DEF SelectorInv, HandleInv
  <2>4. \A i, j \in 1..n :
          handles[i].isolate = handles[j].isolate /\ handles[i].epoch = handles[j].epoch =>
            handles[i].backend = handles[j].backend
    BY <2>2, Zenon DEF SelectorInv, ResolvedOnce
  <2>5. QED
    BY <2>1, <2>2, <2>3, <2>4, Zenon
<1>5. \A i \in 1..n : hs[i].isolate \in Isolates /\ hs[i].backend \in Resolutions
                      /\ hs[i].epoch \in Nat
  <2>1. ASSUME NEW i \in 1..n PROVE hs[i] \in HandleType
    BY <1>4, ElementOfSeq
  <2>2. QED
    BY <2>1 DEF HandleType
<1>6. /\ _instance'[isolate] = r /\ epoch'[isolate] = now
      /\ \A k \in Isolates \ {isolate} :
           _instance'[k] = _instance[k] /\ epoch'[k] = epoch[k]
      /\ \A k \in Isolates : epoch[k] \in 0..MaxEpochs /\ epoch[k] <= epoch'[k]
  BY SelectorAssumption DEF SelectorInv
<1>7. ASSUME NEW i \in 1..n
      PROVE  /\ hs[i].epoch <= epoch'[hs[i].isolate]
             /\ hs[i].epoch = epoch'[hs[i].isolate] =>
                  hs[i].backend = _instance'[hs[i].isolate]
  <2>1. PICK k \in Isolates, e \in Nat, was \in Nat, is \in Nat :
          /\ k = hs[i].isolate /\ e = hs[i].epoch /\ was = epoch[k] /\ is = epoch'[k]
          /\ e <= was /\ was <= is
    <3>1. \A k \in Isolates : epoch[k] \in Nat /\ epoch'[k] \in Nat
      BY <1>6, SelectorAssumption
    <3>2. hs[i].isolate \in Isolates /\ hs[i].epoch \in Nat
      BY <1>5
    <3>3. hs[i].epoch <= epoch[hs[i].isolate]
      BY <1>4, Zenon
    <3>4. epoch[hs[i].isolate] <= epoch'[hs[i].isolate]
      BY <1>6, <3>2, Zenon
    <3>5. QED
      BY <3>1, <3>2, <3>3, <3>4
  <2>2. CASE k # isolate
    BY <1>4, <1>6, <2>1, <2>2
  <2>3. CASE k = isolate /\ now > was
    BY <1>6, <2>1, <2>3
  <2>4. CASE k = isolate /\ ~(now > was)
    <3>1. now = was /\ (_instance[k] # Unresolved => r = _instance[k])
      BY <2>1, <2>4
    <3>2. ASSUME e = was PROVE hs[i].backend = r
      <4>1. hs[i].backend = _instance[k]
        <5>1. hs[i].epoch = epoch[hs[i].isolate] => hs[i].backend = _instance[hs[i].isolate]
          BY <1>4
        <5>2. QED
          BY <2>1, <3>2, <5>1
      <4>2. _instance[k] # Unresolved
        BY <1>5, <4>1, UnresolvedIsNone
      <4>3. QED
        BY <3>1, <4>1, <4>2
    <3>3. QED
      BY <1>6, <2>1, <2>4, <3>1, <3>2
  <2>5. QED
    BY <2>2, <2>3, <2>4
<1>8. PICK hs2 : hs2 = Append(hs, h)
  OBVIOUS
<1>9. /\ hs2 \in Seq(HandleType)
      /\ DOMAIN hs2 = 1..(n + 1)
      /\ \A i \in 1..n : hs2[i] = hs[i]
      /\ hs2[n + 1] = h
      /\ handles' = hs2
  BY <1>2, <1>3, <1>4, <1>8, AppendProperties
<1>10. h.isolate = isolate /\ h.epoch = now /\ h.backend = r
  BY <1>1
<1>11. \A i \in 1..(n + 1) :
         /\ hs2[i].epoch <= epoch'[hs2[i].isolate]
         /\ hs2[i].epoch = epoch'[hs2[i].isolate] =>
              hs2[i].backend = _instance'[hs2[i].isolate]
  BY <1>6, <1>7, <1>9, <1>10
<1>12. HandleInv'
  BY <1>9, <1>11 DEF HandleInv, HandleType, Resolutions, Fallback, Native
<1>13. ASSUME NEW i \in 1..(n + 1), NEW j \in 1..(n + 1),
              hs2[i].isolate = hs2[j].isolate, hs2[i].epoch = hs2[j].epoch
       PROVE  hs2[i].backend = hs2[j].backend
  <2>1. CASE i \in 1..n /\ j \in 1..n
    BY <1>4, <1>9, <1>13, <2>1
  <2>2. CASE i = n + 1 \/ j = n + 1
    <3>1. /\ hs2[i].isolate = isolate /\ hs2[j].isolate = isolate
          /\ hs2[i].epoch = now /\ hs2[j].epoch = now
      BY <1>9, <1>10, <1>13, <2>2
    <3>2. QED
      BY <1>6, <1>11, <3>1
  <2>3. QED
    BY <2>1, <2>2
<1>14. ResolvedOnce'
  <2>1. ResolvedOnce' <=>
          \A i, j \in DOMAIN hs2 :
            hs2[i].isolate = hs2[j].isolate /\ hs2[i].epoch = hs2[j].epoch =>
              hs2[i].backend = hs2[j].backend
    BY <1>9 DEF ResolvedOnce
  <2>2. QED
    BY <1>9, <1>13, <2>1
<1>15. /\ _instance' \in [Isolates -> {Unresolved} \union Resolutions]
       /\ epoch' \in [Isolates -> 0..MaxEpochs]
       /\ library' \in [Paths -> Conditions]
  BY DEF SelectorInv
<1>16. QED
  BY <1>12, <1>14, <1>15 DEF SelectorInv, Resolutions, Fallback, Native, Conditions,
                             Unresolved

LEMMA ResetKeeps ==
    ASSUME SelectorInv, NEW isolate \in Isolates, reset(isolate)
    PROVE  SelectorInv'
<1>1. /\ epoch[isolate] < MaxEpochs
      /\ _instance' = [_instance EXCEPT ![isolate] = Unresolved]
      /\ epoch' = [epoch EXCEPT ![isolate] = epoch[isolate] + 1]
      /\ library' = library /\ handles' = handles
  BY DEF reset
<1>2. PICK was \in Nat : was = epoch[isolate] /\ was + 1 \in 0..MaxEpochs
  BY <1>1, SelectorAssumption DEF SelectorInv
<1>3. /\ _instance' \in [Isolates -> {Unresolved} \union Resolutions]
      /\ epoch' \in [Isolates -> 0..MaxEpochs]
  BY <1>1, <1>2 DEF SelectorInv
<1>4. /\ epoch'[isolate] = was + 1
      /\ \A k \in Isolates \ {isolate} :
           _instance'[k] = _instance[k] /\ epoch'[k] = epoch[k]
  BY <1>1, <1>2 DEF SelectorInv
<1>5. ASSUME NEW i \in DOMAIN handles
      PROVE  /\ handles[i].epoch <= epoch'[handles[i].isolate]
             /\ handles[i].epoch = epoch'[handles[i].isolate] =>
                  handles[i].backend = _instance'[handles[i].isolate]
  <2>1. DOMAIN handles = 1..Len(handles)
    BY LenProperties DEF SelectorInv, HandleInv
  <2>2. handles[i] \in HandleType
    BY <2>1, ElementOfSeq DEF SelectorInv, HandleInv
  <2>3. PICK k \in Isolates, e \in Nat : k = handles[i].isolate /\ e = handles[i].epoch
    BY <2>2 DEF HandleType
  <2>4. e <= epoch[k] /\ (e = epoch[k] => handles[i].backend = _instance[k])
    BY <2>3 DEF SelectorInv, HandleInv
  <2>5. CASE k = isolate
    BY <1>2, <1>4, <2>3, <2>4, <2>5
  <2>6. CASE k # isolate
    BY <1>4, <2>3, <2>4, <2>6
  <2>7. QED
    BY <2>5, <2>6
<1>6. HandleInv'
  BY <1>1, <1>5 DEF SelectorInv, HandleInv, HandleType, Resolutions, Fallback, Native
<1>7. ResolvedOnce'
  BY <1>1 DEF SelectorInv, ResolvedOnce
<1>8. QED
  BY <1>1, <1>3, <1>6, <1>7 DEF SelectorInv, Resolutions, Fallback, Native, Conditions,
                                Unresolved

LEMMA SelectorStep == SelectorInv /\ [SelectorNext]_selectorVars => SelectorInv'
<1>1. SUFFICES ASSUME SelectorInv, [SelectorNext]_selectorVars PROVE SelectorInv'
  OBVIOUS
<1>2. ASSUME NEW isolate \in Isolates, NEW preferNative \in BOOLEAN,
             NEW path \in Paths \union {NoPath}, instance(isolate, preferNative, path)
      PROVE  SelectorInv'
  <2>1. PICK r \in Resolutions :
          /\ r = Resolved(isolate, preferNative, path)
          /\ _instance[isolate] # Unresolved => r = _instance[isolate]
    BY <1>1, ResolvedResolves
  <2>2. /\ _instance' = [_instance EXCEPT ![isolate] = r]
        /\ Hold(isolate, r, epoch[isolate])
        /\ library' = library /\ epoch' = epoch
    BY <1>2, <2>1 DEF instance
  <2>3. epoch[isolate] \in 0..MaxEpochs /\ epoch' = [epoch EXCEPT ![isolate] = epoch[isolate]]
    BY <1>1, <2>2 DEF SelectorInv
  <2>4. QED
    BY <1>1, <2>1, <2>2, <2>3, HoldKeeps
<1>3. ASSUME NEW isolate \in Isolates, NEW r \in Resolutions, withBackend(isolate, r)
      PROVE  SelectorInv'
  <2>1. PICK now \in 0..MaxEpochs : now = epoch[isolate] + 1 /\ now > epoch[isolate]
    BY <1>1, <1>3, SelectorAssumption DEF withBackend, SelectorInv
  <2>2. /\ _instance' = [_instance EXCEPT ![isolate] = r]
        /\ epoch' = [epoch EXCEPT ![isolate] = now]
        /\ Hold(isolate, r, now) /\ library' = library
    BY <1>3, <2>1 DEF withBackend
  <2>3. QED
    BY <1>1, <2>1, <2>2, HoldKeeps
<1>4. ASSUME NEW isolate \in Isolates, reset(isolate) PROVE SelectorInv'
  BY <1>1, <1>4, ResetKeeps
<1>5. ASSUME NEW path \in Paths, LibraryChanges(path) PROVE SelectorInv'
  <2>1. PICK c \in Conditions : library' = [library EXCEPT ![path] = c]
    BY <1>5 DEF LibraryChanges
  <2>2. library' \in [Paths -> Conditions]
    BY <1>1, <2>1 DEF SelectorInv
  <2>3. _instance' = _instance /\ handles' = handles /\ epoch' = epoch
    BY <1>5 DEF LibraryChanges
  <2>4. HandleInv'
    BY <1>1, <2>3 DEF SelectorInv, HandleInv
  <2>5. ResolvedOnce'
    BY <1>1, <2>3 DEF SelectorInv, ResolvedOnce
  <2>6. QED
    BY <1>1, <2>2, <2>3, <2>4, <2>5 DEF SelectorInv
<1>6. CASE UNCHANGED selectorVars
  BY <1>1, <1>6 DEF selectorVars, SelectorInv, HandleInv, ResolvedOnce
<1>7. QED
  BY <1>1, <1>2, <1>3, <1>4, <1>5, <1>6 DEF SelectorNext, Resolutions

LEMMA SelectorStart == SelectorInit => SelectorInv
<1>1. SUFFICES ASSUME SelectorInit PROVE SelectorInv
  OBVIOUS
<1>2. handles = << >> /\ DOMAIN handles = {}
  BY <1>1 DEF SelectorInit
<1>3. HandleInv
  BY <1>2, EmptySeq DEF HandleInv
<1>4. ResolvedOnce
  BY <1>2 DEF ResolvedOnce
<1>5. QED
  BY <1>1, <1>3, <1>4, SelectorAssumption DEF SelectorInit, SelectorInv

LEMMA SelectorInvariant == SelectorSpec => []SelectorInv
BY SelectorStart, SelectorStep, PTL DEF SelectorSpec

(* The providers: what a request makes.                                    *)
LEMMA OutputOf ==
    ASSUME NEW r \in Requests
    PROVE  /\ r[1] \in Operations
           /\ r[2] \in {Omitted, Seed}
           /\ r = << r[1], r[2] >>
           /\ Output(r[1], r[2]) = IF r[2] = Omitted THEN Random ELSE << "from", Seed >>
<1>1. PICK op \in Operations, seed \in {Omitted, Seed} :
        /\ r = << op, seed >> /\ r[1] = op /\ r[2] = seed
        /\ op = "dsaGenerateKeyPair" => seed = Omitted
        /\ op = "dsaGenerateKeyPairSeeded" => seed = Seed
  BY DEF Requests
<1>2. Omitted # Seed
  BY DEF Omitted, Seed
<1>3. Deterministic(seed) = IF seed = Omitted THEN Random ELSE << "from", Seed >>
  BY <1>1 DEF Deterministic
<1>4. Output(op, seed) = IF seed = Omitted THEN Random ELSE << "from", Seed >>
  <2>1. CASE op = "kemGenerateKeyPair"
    BY <1>3, <2>1 DEF Output, kemGenerateKeyPair
  <2>2. CASE op = "kemEncapsulate"
    BY <1>3, <2>2 DEF Output, kemEncapsulate
  <2>3. CASE op = "dsaGenerateKeyPair"
    BY <1>1, <2>3 DEF Output, dsaGenerateKeyPair
  <2>4. CASE op = "dsaGenerateKeyPairSeeded"
    BY <1>3, <2>4 DEF Output, dsaGenerateKeyPairSeeded
  <2>5. CASE op = "x25519GenerateKeyPair"
    BY <1>3, <2>5 DEF Output, x25519GenerateKeyPair
  <2>6. CASE op = "ed25519GenerateKeyPair"
    BY <1>3, <2>6 DEF Output, ed25519GenerateKeyPair
  <2>7. CASE op = "nistGenerateKeyPair"
    BY <1>3, <2>7 DEF Output, nistGenerateKeyPair
  <2>8. QED
    BY <1>1, <2>1, <2>2, <2>3, <2>4, <2>5, <2>6, <2>7 DEF Operations
<1>5. QED
  BY <1>1, <1>4

(* A random output is no seeded one, and names its number.                 *)
LEMMA OutputsDiffer ==
    /\ \A i : << "random", i >> # << "from", Seed >>
    /\ \A i, j : << "random", i >> = << "random", j >> => i = j
    /\ Omitted # Seed
BY DEF Omitted, Seed

LEMMA MakeKeeps ==
    ASSUME MadeInv, Make
    PROVE  MadeInv'
<1>1. PICK r \in Requests :
        made' = made \union {[op |-> r[1], seed |-> r[2], output |-> Output(r[1], r[2])]}
  BY DEF Make
<1>2. PICK x : x = [op |-> r[1], seed |-> r[2], output |-> Output(r[1], r[2])]
  OBVIOUS
<1>3. PICK n \in Nat : n = Cardinality(made)
  BY FS_CardinalityType DEF MadeInv
<1>4. /\ x.seed \in {Omitted, Seed}
      /\ << x.op, x.seed >> \in Requests
      /\ x.seed = Omitted => x.output = << "random", n >>
      /\ x.seed = Seed => x.output = << "from", Seed >>
  BY <1>2, <1>3, OutputOf, OutputsDiffer DEF Random
<1>5. made' = made \union {x}
  BY <1>1, <1>2
<1>6. \A y \in made :
        /\ << y.op, y.seed >> \in Requests
        /\ y.seed \in {Omitted, Seed}
        /\ y.seed = Omitted => \E i \in Nat : i < n /\ y.output = << "random", i >>
        /\ y.seed = Seed => y.output = << "from", Seed >>
  BY <1>3 DEF MadeInv, Requests
<1>7. /\ IsFiniteSet(made')
      /\ Cardinality(made') = IF x \in made THEN n ELSE n + 1
  BY <1>3, <1>5, FS_AddElement DEF MadeInv
<1>8. x.seed = Omitted => x \notin made
  BY <1>4, <1>6, OutputsDiffer
<1>9. ASSUME NEW y \in made'
      PROVE  /\ << y.op, y.seed >> \in Requests
             /\ y.seed = Omitted =>
                  \E i \in Nat : i < Cardinality(made') /\ y.output = << "random", i >>
             /\ y.seed = Seed => y.output = << "from", Seed >>
  <2>1. CASE y \in made
    BY <1>6, <1>7, <2>1
  <2>2. CASE y = x
    BY <1>4, <1>7, <1>8, <2>2
  <2>3. QED
    BY <1>5, <2>1, <2>2
<1>10. ASSUME NEW y \in made, y.op = x.op
       PROVE  y.output = x.output <=> y.seed = x.seed /\ (y.seed = Seed \/ y = x)
  <2>1. CASE x.seed = Omitted
    <3>1. x.output = << "random", n >> /\ y # x
      BY <1>4, <1>8, <2>1
    <3>2. y.output # x.output
      <4>1. CASE y.seed = Seed
        BY <1>6, <3>1, <4>1, OutputsDiffer
      <4>2. CASE y.seed = Omitted
        <5>1. PICK i \in Nat : i < n /\ y.output = << "random", i >>
          BY <1>6, <4>2
        <5>2. i # n
          BY <5>1
        <5>3. QED
          BY <3>1, <5>1, <5>2, OutputsDiffer
      <4>3. QED
        BY <1>6, <4>1, <4>2
    <3>3. QED
      BY <2>1, <3>1, <3>2, OutputsDiffer
  <2>2. CASE x.seed = Seed
    <3>1. x.output = << "from", Seed >>
      BY <1>4, <2>2
    <3>2. CASE y.seed = Seed
      BY <1>6, <2>2, <3>1, <3>2
    <3>3. CASE y.seed = Omitted
      BY <1>6, <2>2, <3>1, <3>3, OutputsDiffer
    <3>4. QED
      BY <1>6, <3>2, <3>3
  <2>3. QED
    BY <1>4, <2>1, <2>2
<1>11. SeedsAreHonoured'
  <2>1. SUFFICES ASSUME NEW y \in made', NEW z \in made', y.op = z.op
                 PROVE  y.output = z.output <=> y.seed = z.seed /\ (y.seed = Seed \/ y = z)
    BY DEF SeedsAreHonoured
  <2>2. CASE y \in made /\ z \in made
    BY <2>1, <2>2 DEF MadeInv, SeedsAreHonoured
  <2>3. CASE y = x /\ z = x
    BY <2>3
  <2>4. CASE y \in made /\ z = x
    BY <1>10, <2>1, <2>4
  <2>5. CASE y = x /\ z \in made
    BY <1>10, <2>1, <2>5
  <2>6. QED
    BY <1>5, <2>2, <2>3, <2>4, <2>5
<1>12. QED
  BY <1>7, <1>9, <1>11 DEF MadeInv

(* Whichever provider takes it, what is signed and what a signature is     *)
(* checked against is what the caller asked for.                           *)
LEMMA RoutedAsAsked ==
    \A context \in {Omitted, Empty, Context}, preHash \in BOOLEAN :
        /\ SignedMessage(context, preHash) = Message(context, preHash)
        /\ CheckedMessage(context, preHash) = Message(context, preHash)
        /\ Message(context, preHash) \in Messages
BY DEF SignedMessage, CheckedMessage, NativeMessage, Message, Messages, Omitted, Empty,
       Context

LEMMA SignatureStep ==
    ASSUME SignatureInv, [ProvidersNext]_providersVars
    PROVE  SignatureInv'
<1>1. ASSUME NEW context \in {Omitted, Empty, Context}, NEW preHash \in BOOLEAN,
             dsaSign(context, preHash)
      PROVE  SignatureInv'
  <2>1. PICK m \in Messages : signature' = [asked |-> m, over |-> m]
    BY <1>1, RoutedAsAsked DEF dsaSign
  <2>2. verdict' = NoVerdict /\ lattice' = lattice /\ classical' = classical
    BY <1>1 DEF dsaSign
  <2>3. /\ signature' \in [asked : Messages, over : Messages]
        /\ signature'.over = signature'.asked
    BY <2>1
  <2>4. QED
    BY <2>2, <2>3 DEF SignatureInv, SignaturesCarryOver
<1>2. ASSUME NEW context \in {Omitted, Empty, Context}, NEW preHash \in BOOLEAN,
             dsaVerify(context, preHash)
      PROVE  SignatureInv'
  <2>1. PICK asked : asked = Message(context, preHash)
    OBVIOUS
  <2>2. verdict' = [asked |-> asked, is |-> asked = signature.over]
    BY <1>2, <2>1, RoutedAsAsked DEF dsaVerify
  <2>3. verdict'.asked = asked /\ (verdict'.is <=> asked = signature.asked)
    BY <2>2 DEF SignatureInv
  <2>4. signature' = signature /\ lattice' = lattice /\ classical' = classical
    BY <1>2 DEF dsaVerify
  <2>5. QED
    BY <2>3, <2>4 DEF SignatureInv, SignaturesCarryOver
<1>3. CASE UNCHANGED << lattice, classical, signature, verdict >>
  BY <1>3 DEF SignatureInv, SignaturesCarryOver
<1>4. CASE /\ lattice' \in Providers /\ classical' \in Providers
           /\ UNCHANGED << signature, verdict >>
  BY <1>4 DEF SignatureInv, SignaturesCarryOver
<1>5. CASE RegisterLattice \/ RegisterClassical \/ UseDefault
  <2>1. /\ lattice' \in Providers /\ classical' \in Providers
        /\ UNCHANGED << signature, verdict >>
    BY <1>5 DEF RegisterLattice, RegisterClassical, UseDefault, Providers, SignatureInv
  <2>2. QED
    BY <1>4, <2>1
<1>6. CASE Make
  BY <1>3, <1>6 DEF Make
<1>7. CASE UNCHANGED providerVars
  BY <1>3, <1>7 DEF providerVars
<1>8. QED
  BY <1>1, <1>2, <1>5, <1>6, <1>7 DEF ProvidersNext, providersVars

LEMMA ProvidersStart == ProvidersInit => ProvidersInv
<1>1. SUFFICES ASSUME ProvidersInit PROVE ProvidersInv
  OBVIOUS
<1>2. SelectorInv
  BY <1>1, SelectorStart DEF ProvidersInit
<1>3. MadeInv
  BY <1>1, FS_EmptySet DEF ProvidersInit, MadeInv, SeedsAreHonoured
<1>4. SignatureInv
  BY <1>1 DEF ProvidersInit, SignatureInv, SignaturesCarryOver, Providers, NoSignature
<1>5. QED
  BY <1>2, <1>3, <1>4 DEF ProvidersInv

LEMMA SelectorAlone == [ProvidersNext]_providersVars => [SelectorNext]_selectorVars
BY DEF ProvidersNext, providersVars, RegisterLattice, RegisterClassical,
       UseDefault, Make, dsaSign, dsaVerify

LEMMA ProvidersStep == ProvidersInv /\ [ProvidersNext]_providersVars => ProvidersInv'
<1>1. SUFFICES ASSUME ProvidersInv, [ProvidersNext]_providersVars PROVE ProvidersInv'
  OBVIOUS
<1>2. SelectorInv'
  BY <1>1, SelectorAlone, SelectorStep DEF ProvidersInv
<1>3. MadeInv'
  <2>1. CASE Make
    BY <1>1, <2>1, MakeKeeps DEF ProvidersInv
  <2>2. CASE ~Make
    <3>1. made' = made
      BY <1>1, <2>2 DEF ProvidersNext, providersVars, providerVars, RegisterLattice,
                        RegisterClassical, UseDefault, dsaSign, dsaVerify
    <3>2. QED
      BY <1>1, <3>1 DEF ProvidersInv, MadeInv, SeedsAreHonoured
  <2>3. QED
    BY <2>1, <2>2
<1>4. SignatureInv'
  BY <1>1, SignatureStep DEF ProvidersInv
<1>5. QED
  BY <1>2, <1>3, <1>4 DEF ProvidersInv

LEMMA ProvidersInvariant == ProvidersSpec => []ProvidersInv
BY ProvidersStart, ProvidersStep, PTL DEF ProvidersSpec

-----------------------------------------------------------------------------
(* The selector and the providers: their theorems.                         *)

(* Type correctness; no client holds an unresolved backend, nor one of a   *)
(* later epoch than its isolate's.                                         *)
THEOREM SelectorTypeCorrect == SelectorSpec => []SelectorTypeOK
<1>1. ASSUME SelectorInv PROVE SelectorTypeOK
  <2>1. ASSUME NEW i \in DOMAIN handles
        PROVE  /\ handles[i].backend # Unresolved
               /\ handles[i].epoch \in 0..epoch[handles[i].isolate]
    <3>1. DOMAIN handles = 1..Len(handles)
      BY <1>1, LenProperties DEF SelectorInv, HandleInv
    <3>2. handles[i] \in HandleType
      BY <1>1, <3>1, ElementOfSeq DEF SelectorInv, HandleInv
    <3>3. PICK k \in Isolates, e \in Nat :
            k = handles[i].isolate /\ e = handles[i].epoch /\ handles[i].backend \in Resolutions
      BY <3>2 DEF HandleType
    <3>4. e <= epoch[k] /\ epoch[k] \in Nat
      BY <1>1, <3>3, SelectorAssumption DEF SelectorInv, HandleInv
    <3>5. QED
      BY <3>3, <3>4, UnresolvedIsNone
  <2>2. _instance \in
          [Isolates -> {Unresolved, Fallback} \union {Native(path) : path \in Paths}]
    <3>1. {Unresolved} \union Resolutions =
            {Unresolved, Fallback} \union {Native(path) : path \in Paths}
      BY DEF Resolutions
    <3>2. QED
      BY <1>1, <3>1 DEF SelectorInv
  <2>3. QED
    BY <1>1, <2>1, <2>2 DEF SelectorTypeOK, SelectorInv
<1>2. QED
  BY <1>1, SelectorInvariant, PTL

(* "Resolves the best available backend exactly once": two objects that    *)
(* clients of one isolate were given between the same two resets are the   *)
(* same backend, whatever became of the libraries meanwhile and whatever   *)
(* any number of other isolates did.                                       *)
THEOREM BackendResolvedOnce == SelectorSpec => []ResolvedOnce
<1>1. SelectorInv => ResolvedOnce
  BY DEF SelectorInv
<1>2. QED
  BY <1>1, SelectorInvariant, PTL

(* The providers look at the libraries and leave the selector alone: what  *)
(* is proved of SelectorSpec holds next to them.                           *)
THEOREM ProvidersKeepSelector == ProvidersSpec => SelectorSpec
<1>1. ProvidersInit => SelectorInit
  BY DEF ProvidersInit
<1>2. QED
  BY <1>1, SelectorAlone, PTL DEF ProvidersSpec, SelectorSpec

(* Type correctness; what is made was asked for, and comes from a seed of  *)
(* the caller's or from the random number generator.                       *)
THEOREM ProvidersTypeCorrect == ProvidersSpec => []ProvidersTypeOK
<1>1. ASSUME ProvidersInv PROVE ProvidersTypeOK
  <2>1. ASSUME NEW x \in made
        PROVE  /\ << x.op, x.seed >> \in Requests
               /\ x.output = << "from", Seed >> \/ x.output[1] = "random"
    <3>1. << x.op, x.seed >> \in Requests
      BY <1>1 DEF ProvidersInv, MadeInv
    <3>2. x.seed \in {Omitted, Seed}
      BY <3>1 DEF Requests
    <3>3. x.seed = Omitted => \E i \in Nat : x.output = << "random", i >>
      BY <1>1 DEF ProvidersInv, MadeInv
    <3>4. x.seed = Seed => x.output = << "from", Seed >>
      BY <1>1 DEF ProvidersInv, MadeInv
    <3>5. QED
      BY <3>1, <3>2, <3>3, <3>4
  <2>2. QED
    BY <1>1, <2>1 DEF ProvidersTypeOK, ProvidersInv, SignatureInv
<1>2. QED
  BY <1>1, ProvidersInvariant, PTL

(* A request that names its seed or nonce has one answer under every       *)
(* provider, and one that names none is never answered twice the same.     *)
THEOREM SeedsHonoured == ProvidersSpec => []SeedsAreHonoured
<1>1. ProvidersInv => SeedsAreHonoured
  BY DEF ProvidersInv, MadeInv
<1>2. QED
  BY <1>1, ProvidersInvariant, PTL

(* A signature verifies exactly under the context and pre-hash its signer  *)
(* was asked for, whichever providers made it and verify it.               *)
THEOREM SignaturesCarry == ProvidersSpec => []SignaturesCarryOver
<1>1. ProvidersInv => SignaturesCarryOver
  BY DEF ProvidersInv, SignatureInv
<1>2. QED
  BY <1>1, ProvidersInvariant, PTL
=============================================================================
