----------------------------- MODULE Providers ------------------------------
(***************************************************************************)
(* The native providers behind pqforge's two seams, PqLattice.provider and *)
(* PqClassical.provider, next to the selector in one process.  A program   *)
(* may register the native provider or the default at any time, so a key,  *)
(* a ciphertext or a signature made under one provider is used under the   *)
(* other, be it in the isolate that made it or in another one that has     *)
(* registered otherwise.  aws-lc-rs draws its own randomness in ML-KEM and *)
(* signs neither with a context nor with a pre-hash: such requests go to   *)
(* the fallback.                                                           *)
(***************************************************************************)
EXTENDS Selector, FiniteSets

CONSTANT MaxMade            \* bound: keys, ciphertexts and signatures kept

ASSUME ProvidersAssumption == MaxMade \in Nat

VARIABLES lattice,          \* PqLattice.provider
          classical,        \* PqClassical.provider
          made,             \* the keys and ciphertexts made
          signature,        \* an ML-DSA signature, NoSignature before
          verdict           \* what dsaVerify said of it

providerVars == <<lattice, classical, made, signature, verdict>>
providersVars == <<selectorVars, providerVars>>

Omitted == "none"
Seed == "seed"              \* a seed or nonce the caller supplies
Empty == "empty"
Context == "context"
Providers == {"native", "dart"}
Nothing == [context |-> Omitted, preHash |-> FALSE]
NoSignature == [asked |-> Nothing, over |-> Nothing]
NoVerdict == [asked |-> Nothing, is |-> FALSE]

-----------------------------------------------------------------------------
(* What the engines make of a seed: the pure-Dart providers and the native *)
(* X25519, Ed25519 and ML-DSA key generation follow it; native ML-KEM      *)
(* takes none.                                                             *)
Random == << "random", Cardinality(made) >>
Deterministic(seed) == IF seed = Omitted THEN Random ELSE << "from", seed >>

(* mutant: the seed is dropped                                             *)
kemGenerateKeyPairNative(provider, seed) ==
    IF provider = "native" THEN Random ELSE Deterministic(seed)

kemGenerateKeyPair(provider, seed) ==
    IF provider = "native" /\ seed = Omitted THEN Random ELSE Deterministic(seed)

(* mutant: a nonce that is left out is passed on like one that is given    *)
kemEncapsulateAlways(provider, nonce) == << "from", nonce >>

kemEncapsulate(provider, nonce) ==
    IF provider = "native" /\ nonce = Omitted THEN Random ELSE Deterministic(nonce)

dsaGenerateKeyPair(provider, seed) == Random
dsaGenerateKeyPairSeeded(provider, seed) == Deterministic(seed)
x25519GenerateKeyPair(provider, seed) == Deterministic(seed)
ed25519GenerateKeyPair(provider, seed) == Deterministic(seed)

(* P-256 and P-384 are delegated whichever provider is registered.         *)
nistGenerateKeyPair(provider, seed) == Deterministic(seed)

Output(op, seed) ==
    CASE op = "kemGenerateKeyPair" -> kemGenerateKeyPair(lattice, seed)
      [] op = "kemEncapsulate" -> kemEncapsulate(lattice, seed)
      [] op = "dsaGenerateKeyPair" -> dsaGenerateKeyPair(lattice, seed)
      [] op = "dsaGenerateKeyPairSeeded" -> dsaGenerateKeyPairSeeded(lattice, seed)
      [] op = "x25519GenerateKeyPair" -> x25519GenerateKeyPair(classical, seed)
      [] op = "ed25519GenerateKeyPair" -> ed25519GenerateKeyPair(classical, seed)
      [] op = "nistGenerateKeyPair" -> nistGenerateKeyPair(classical, seed)

Operations ==
    {"kemGenerateKeyPair", "kemEncapsulate", "dsaGenerateKeyPair",
     "dsaGenerateKeyPairSeeded", "x25519GenerateKeyPair", "ed25519GenerateKeyPair",
     "nistGenerateKeyPair"}

Requests ==
    {r \in Operations \X {Omitted, Seed} :
        /\ r[1] = "dsaGenerateKeyPair" => r[2] = Omitted
        /\ r[1] = "dsaGenerateKeyPairSeeded" => r[2] = Seed}

-----------------------------------------------------------------------------
ProvidersInit ==
    /\ SelectorInit
    /\ lattice = "dart"
    /\ classical = "dart"
    /\ made = {}
    /\ signature = NoSignature
    /\ verdict = NoVerdict

(* open throws when a check fails: unlike the selector, a provider never   *)
(* degrades, and the one registered before stays.                          *)
RegisterLattice ==
    /\ \E path \in Paths : opens(path)
    /\ lattice' = "native"
    /\ UNCHANGED <<selectorVars, classical, made, signature, verdict>>

RegisterClassical ==
    /\ \E path \in Paths : opens(path)
    /\ classical' = "native"
    /\ UNCHANGED <<selectorVars, lattice, made, signature, verdict>>

UseDefault ==
    /\ \/ lattice' = "dart" /\ UNCHANGED classical
       \/ classical' = "dart" /\ UNCHANGED lattice
    /\ UNCHANGED <<selectorVars, made, signature, verdict>>

Make ==
    /\ Cardinality(made) + (IF signature = NoSignature THEN 0 ELSE 1) < MaxMade
    /\ \E r \in Requests :
         made' = made \union {[op |-> r[1], seed |-> r[2], output |-> Output(r[1], r[2])]}
    /\ UNCHANGED <<selectorVars, lattice, classical, signature, verdict>>

(* The FIPS 204 message of a context and a pre-hash flag: no context and   *)
(* an empty one are the same message.                                      *)
Message(context, preHash) ==
    [context |-> IF context = Omitted THEN Empty ELSE context, preHash |-> preHash]

(* The native sign and verify take neither.                                *)
NativeMessage == Message(Empty, FALSE)

(* mutant: the native side signs whatever the context is                   *)
SignedWithoutContext(context, preHash) ==
    IF lattice = "native" /\ ~preHash THEN NativeMessage ELSE Message(context, preHash)

(* What is in fact signed: the test of dsaSign routes a flag or a context  *)
(* to the fallback.                                                        *)
SignedMessage(context, preHash) ==
    IF lattice = "native" /\ ~(preHash \/ context \notin {Omitted, Empty})
      THEN NativeMessage
      ELSE Message(context, preHash)

(* mutant: the native side verifies whatever the flag is                   *)
CheckedWithoutFlag(context, preHash) ==
    IF lattice = "native" /\ context \in {Omitted, Empty}
      THEN NativeMessage
      ELSE Message(context, preHash)

(* What a signature is checked against, by the test of dsaVerify.          *)
CheckedMessage(context, preHash) ==
    IF lattice = "native" /\ ~(preHash \/ context \notin {Omitted, Empty})
      THEN NativeMessage
      ELSE Message(context, preHash)

(* The signature keeps what its caller asked for next to what was signed.  *)
dsaSign(context, preHash) ==
    /\ Cardinality(made) < MaxMade
    /\ signature' = [asked |-> Message(context, preHash),
                     over |-> SignedMessage(context, preHash)]
    /\ verdict' = NoVerdict
    /\ UNCHANGED <<selectorVars, lattice, classical, made>>

dsaVerify(context, preHash) ==
    /\ signature # NoSignature
    /\ verdict' = [asked |-> Message(context, preHash),
                   is |-> CheckedMessage(context, preHash) = signature.over]
    /\ UNCHANGED <<selectorVars, lattice, classical, made, signature>>

ProvidersNext ==
    \/ SelectorNext /\ UNCHANGED providerVars
    \/ RegisterLattice
    \/ RegisterClassical
    \/ UseDefault
    \/ Make
    \/ \E context \in {Omitted, Empty, Context}, preHash \in BOOLEAN :
          dsaSign(context, preHash) \/ dsaVerify(context, preHash)

ProvidersSpec == ProvidersInit /\ [][ProvidersNext]_providersVars

-----------------------------------------------------------------------------
(* Falling through keeps "the full contract and conformance": a signature  *)
(* verifies exactly under the context and pre-hash that the caller of      *)
(* dsaSign asked for, whichever provider was registered when it was made   *)
(* and when it is verified.                                                *)
SignaturesCarryOver ==
    verdict # NoVerdict => (verdict.is <=> verdict.asked = signature.asked)

(* A request that names its seed or nonce has one answer, whichever        *)
(* providers were registered; one that names none is never answered twice  *)
(* the same.                                                               *)
SeedsAreHonoured ==
    \A x, y \in made : x.op = y.op =>
        (x.output = y.output <=> x.seed = y.seed /\ (x.seed = Seed \/ x = y))

Messages == [context : {Empty, Context}, preHash : BOOLEAN]

(* Type correctness; what is made was asked for, and comes from a seed of  *)
(* the caller's or from the random number generator.                       *)
ProvidersTypeOK ==
    /\ lattice \in Providers
    /\ classical \in Providers
    /\ \A x \in made :
         /\ <<x.op, x.seed>> \in Requests
         /\ x.output = << "from", Seed >> \/ x.output[1] = "random"
    /\ signature = NoSignature \/ signature \in [asked : Messages, over : Messages]
=============================================================================
