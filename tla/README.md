# A TLA+ verification of pqforge_ffi

`pqforge_ffi` is a Dart package that runs post-quantum and symmetric
cryptography either in a native Rust library (`pqforge_core`, over AWS-LC) or in
pure Dart. This directory models the parts of it that have control of their own:
streaming encryption, the native file pipeline, the publication of its output,
the FFI boundary, the envelope and the choice of a backend. The cryptography
itself is taken as ideal. TLC checks the models on small instances; TLAPS proves
every safety property that a passing run checks, and the refinements, for every
value of the constants.

## The system

| Part | State it keeps | Operations | What makes it correct |
|---|---|---|---|
| `PqForgeStream.seal` (`stream.dart`) | counter, held chunk, leftover, current event, some of it in memory that belongs to the source | one `async*` generator driven by source events; may fail, end, be cancelled | the output is the framing of the input whatever the event boundaries and whatever the source does with its buffers; only a source that ended is closed |
| `PqForgeStream.open` | counter, leftover | the same, in reverse | chunks come out in order from the first, a normal end only after all; a wire is accepted exactly when it is unchanged |
| native file pipeline (`stream_file.rs`) | held block, block being read, u64 counter | seal and open a file, reading one block ahead | the same wire format and verdicts as Dart, for every pattern of short reads |
| `PqForgeFileCipher` (`file_cipher.dart`) | `<output>.pqforge-tmp` on disk | native call, rename, delete on failure | output appears whole or not at all; nothing is left behind |
| FFI boundary (`native_backend.dart`, `error.rs`) | native memory, status code, panic hook | allocate, call, copy back or throw, free | complete results, no leak, no panic across |
| envelope (`envelope.dart`) | none between calls | seal, decode, open | opens exactly as sealed, on either backend |
| fallback backend (`fallback_backend.dart`) | none | the same operations in Dart | the same results and errors |
| selector (`selector.dart`) | the cached `PqForge` instance, one per isolate | `instance`, `withBackend`, `reset` | resolved once; native only after its checks |
| providers (`integration/`) | pqforge's registered providers | register, use default, route a request | what the caller asks for is honoured whichever provider is registered |
| panic self-test (`lib.rs`) | the process-wide panic hook | silence, panic, restore | the host's hook is back when it returns |
| pinned secret (`secret.rs`) | a copy of the key, the lock on its page | copy and `mlock`; wipe, `munlock`, free | locked until wiped; nothing left of the key after a call, however it ends |

They interact by calls: the selector hands its backend to streams and envelopes;
`NativeBackend` and `PqForgeFileCipher` call Rust through C functions; the file
functions hold their key in a pinned secret; streams and the file pipeline
exchange data through the wire format. They share six things: the wire format,
the file system (where libraries come and go too), the native heap, the locked
pages, the event buffers of a source, and the panic hook of the process. Dart's
statics, the singleton and the registered providers, exist once in every isolate.

The hard parts are event boundaries and short reads (the cut of the data must
not matter), reading ahead to know which frame is last while the file may
change, errors between any two steps, concurrent isolates sharing heap, pages and
files, memory that is refilled while views of it may be alive, and two implementations that must agree byte for byte and error for
error, integers of different signedness included. `PROJECT.json` lists each hazard at its line with the properties for it.

## Modules

Each module `EXTENDS` or instantiates the ones named after "on"; an MC module gives
TLC its instance.

| Component | Modules | Proofs |
|---|---|---|
| frames, and the reference `Framing(n)` | `StreamFrames` | lemmas in `StreamProofs` |
| the wire format as an abstract machine | `StreamFormat` | |
| what an opener promises, as an abstract machine | `StreamOpening` | |
| Dart sealer | `DartSeal` | `DartSealProofs` |
| the memory it shares with its source | `SealBuffers` (on `DartSeal`), `MCDartSeal` | `DartSealProofs` |
| nonce layout of both sides | `StreamNonce` | `FileSealProofs` |
| native reading, checks, counter | `FilePipeline` | |
| native sealer | `FileSeal` (on `FilePipeline`, `StreamNonce`, `StreamFormat`), `MCFileSeal` | `FileSealProofs` |
| what an opener receives, ideal AEAD, the reference verdict | `StreamWire`; wires for TLC in `MCWires` | lemmas in `StreamProofs` |
| Dart opener | `DartOpen` (on `StreamWire`, `StreamOpening`), `MCDartOpen` | `DartOpenProofs` |
| native opener | `FileOpen` (on `FilePipeline`, `StreamWire`, `StreamOpening`), `MCFileOpen` | `FileOpenProofs` |
| publication of a file | `FileCipher`, `MCFileCipher` | `FileCipherProofs` |
| FFI call, panic hook, pinned key | `NativeCall` (on `PanicHook`, `PinnedSecret`), `MCNativeCall` | `NativeCallProofs` |
| envelope on two backends | `Envelope`, `MCEnvelope` | `BackendProofs` |
| selector | `Selector` | `BackendProofs` |
| providers, beside the selector | `Providers` (on `Selector`), `MCProviders` | `BackendProofs` |

How the state corresponds to the code:

* **Frames.** A plaintext byte is its position in the source, so a lost,
  doubled or moved byte shows. A frame records chunk, counter and last flag,
  what goes into the AEAD.
* **`DartSeal`, `DartOpen`.** The variables are the generator's locals; `phase`
  is the place in its body. Each round of the `while` loop, each `yield`
  and each event is a step; the source may fail and the consumer may
  cancel between any two. A backend exception is an action (`SealThrows`,
  `BackendThrows`).
* **`SealBuffers`.** Each action of `DartSeal` with its effect on memory:
  `_concat` returns the event uncopied when nothing is carried and the event is a
  `Uint8List`, and what the generator keeps (`pending`, `carry`) is copied out of it
  with `Uint8List.fromList`. `shared` says which locals lie in the source's memory,
  `damaged` which of them have been overwritten. `Refill` is the source reading its
  next event into the same buffer, once the `await for` has asked for it.
* **`StreamNonce`.** Both layouts byte by byte, over any even radix and widths. Rust's
  counter is unsigned; Dart's is a signed int of as many bytes (`int`), and its
  shifting loop ends as soon as what is left is not positive (`Shifted`), which a
  negative counter is from the start. `FileSeal` runs the counter to its last value.
  `DartSeal` counts without a bound: a counter that leaves Dart's int would take
  2^63 chunks.
* **`StreamOpening`.** Three variables: the sealed chunks, those that have come
  out, and a verdict. Both openers implement it: what comes out is
  `released` in `DartOpen` and the chunks in the output file, `written`, in
  `FileOpen`; the phase or the status is the verdict.
* **`StreamWire`.** A received byte is named by the sealed frame and place it
  comes from. A block opens under a nonce only if it is byte for byte the frame
  sealed under it, with the same key, algorithm and aad.
* **`FilePipeline`.** A read returns any count from one byte up to what was
  asked, and 0 at the current end. `failing` is the set of argument checks a request
  does not pass; the first in the code's order decides. Another process may
  append to the input (`Grow`). Between the checks and the return any step may fail
  (`Fails`) with an I/O error or, by a panic that `guard` catches, with `Internal`.
* **`FileCipher`.** Directory entries name inodes; `File::create` truncates what
  the temporary name refers to, a rename moves the inode and a running write
  keeps its inode. Native failure, rename failure, delete failure and death of
  the process may come at any step.
* **`NativeCall`.** Blocks of a shared heap carry their contents; `write_out` is
  one step per output. A native function is the set of codes it may refuse
  with and the number of outputs it writes, read off its body; a marshalling
  helper is how many blocks it allocates. The file functions are among the
  operations: they write no outputs but copy the key into a secret first
  (`PinKey`) and drop it on every way out. A panic may come at any step and is
  recorded with the hook that was installed at that moment, whoever installed it.
  An isolate makes one call after another; a call whose allocation fails leaks, as the code does, and the isolate
  stops there. The allocations of one call are one step: they need nothing from other
  isolates but free blocks. The allocator is a constant, `Allocations(free, n)`: all
  that is assumed of it (`AllocatorSound`) is that what it gives are n different free
  addresses. TLC gets the one that takes the lowest.
* **`PinnedSecret`.** The copy of a key per call, and the set of locked pages.
  `mlock` may be refused. The drop is three steps, wipe, unlock and free, between
  which other calls go on. `munlock` unlocks the whole page, whoever else has a key
  on it: `SharedPages` says whether the allocator may put two keys on one page, and
  `KeysPinned` holds when it may not and fails when it may.
* **`Envelope`.** Header fields plus a tail of units (KEM ciphertext, then
  sealed bytes); secrets, salts and nonces are named after the seal they come
  from. What arrives is a sealed envelope with up to two fields overwritten or
  exchanged, its tail cut, extended, altered or spliced.
* **`Selector`.** The library at a path may change condition at any time. Each
  isolate has its singleton and its epoch, the number of times it was cleared or
  replaced; `handles` are the objects handed out, by `instance` and by `withBackend`,
  each with its isolate and epoch. `ResolvedOnce` is about the clients of one
  isolate, which is all the code can promise.
* **`Providers`.** An output is "from the seed" or a fresh random value. A signature
  keeps the context and pre-hash its caller asked for next to those of the message
  that was in fact signed. The tests that route `dsaSign` and `dsaVerify` are two
  definitions, as in the code. Which provider is registered is one variable for each
  of the two seams: registering may happen before any request, so a value made in
  one isolate and used in another that has registered otherwise is a behaviour of it
  too.

## Runs

| Run | Question | Bounds |
|---|---|---|
| `dart_seal` | Is the output the framing of the input (`SealedWhole`), at every moment a prefix of a well-formed stream (`WireFormat`), closed only for a source that ended, and sealed from bytes that nobody overwrote (`BuffersReturned`)? | chunk 3, up to 16 bytes in events of 0 to 8: several chunks in one event, a chunk over several events, exact multiples, empty input; refills at any wait |
| `file_seal` | The same of the native sealer; are its nonces unique to the last counter (`NonceOnce`) and equal to Dart's exactly as long as Dart's int holds the counter (`NonceAgrees`), and does it return? | chunk 2; a counter of three bits, so that carry, the sign of Dart's int (after the fourth frame) and overflow (after the eighth) are reached; files of up to 16 bytes that grow by up to two |
| `file_seal_opens` | *violated*: does every sealed file open? | short files that grow |
| `dart_open` | Does the opener implement `StreamOpening` (`ReleasesInOrder`), is acceptance exact (`AcceptedIffIntact`), and is the verdict independent of the events (`VerdictOfWire`)? | sealed with chunk 1, 2 or 3, opened with 2; rearrangements of up to three frames, every cut, foreign bytes, one altered byte; any event boundaries |
| `file_open` | The same natively, with short reads and a growing input; does it return? | the same wires on a smaller set of lengths |
| `file_cipher` | Is publication atomic and clean, and does every call return? | three calls, two paths, every fault, a leftover temporary file at the start |
| `file_cipher_overlap` | *violated*: the same when calls for one path overlap | the same |
| `native_call` | Whole results; no leak of memory, keys or locks; a key that was locked stays locked until it is wiped (`KeysPinned`); is a panic after the self-test reported as before (`SilencedOnlyInSelfTest`)? | two isolates, all operations, a heap of eight blocks (the largest call needs six), two pages, no two keys on one page, one self-test |
| `panic_hook` | *violated*: the hook after two self-tests | the same with two |
| `key_pages_shared` | *violated*: `KeysPinned` when keys may share a page | the same without self-tests |
| `envelope` | Opens iff intact, error follows shape | two seals, two KEM lengths, two overwritten fields |
| `providers` | One backend for all clients of an isolate between two resets (`ResolvedOnce`)? Are seeds honoured, and do signatures verify exactly as they were asked for? | two isolates, one library, one reset each, two clients, two outputs or an output and a signature, any changes of provider |

The bounds are small because the control depends on comparisons of lengths: with
a chunk of two or three bytes every relation of event, leftover, chunk and end
of input occurs, and three frames suffice for a first, a middle and a last one.
Two seals suffice for splicing, two isolates for reuse of memory and for a shared
page, two outputs for equality. Each property has a mutant of the code's model that breaks it
(`PROJECT.json`); mutants are named after what they do and precede the
definition they change.

`CHECK_DEADLOCK FALSE` is set where the system really stops: calls return, generators
end, isolates run out of memory. The run `providers` checks for deadlock.

### Fairness

* `FileSeal`, `FileOpen`: weak fairness of `Step`. The call is synchronous and
  its thread keeps running. The input may grow by a bounded amount only.
* `FileCipher`: weak fairness of each call's progress. A crashed call owes nothing.

All other specifications are checked for safety only. The two generators are among
them: a consumer may leave them suspended at a `yield` for ever, so the code
promises no end.

### What the violated runs show

1. `file_seal_opens`: an input appended to during a seal gives, with status Ok, a
   short frame that is not the last (`stream_file.rs:132`).
2. `file_cipher_overlap`: overlapping calls for one path share one temporary
   file (`file_cipher.dart:126`).
3. `panic_hook`: two overlapping self-tests leave the silent hook installed
   (`lib.rs:39`).
4. `key_pages_shared`: the drop of one key unlocks the page of another that is in
   use (`secret.rs:58`).

### What the passing properties except

Four properties stop short of what a comment says, because the code does:

* `NonceAgrees` is an equivalence: from the first counter that Dart's signed int does
  not hold, 2^63, Dart's loop leaves the counter field empty while Rust goes on
  (`stream.dart:162`). No stream is that long, but "byte-identical"
  (`stream_file.rs:39`) and "an 88-bit counter space" (`stream.dart:158`) are wider
  than the code.
* `SilencedOnlyInSelfTest` allows a panic to go unreported during a self-test: a panic of
  a call on another isolate then meets the silent hook (`lib.rs:40`), against "real
  panics keep their normal reporting" (`lib.rs:38`). The model records which hook it met.
* `ResolvedOnce` is about one isolate: two isolates resolve for themselves and may hold
  different backends, against "the process singleton" (`selector.dart:22`).
* `ErrorFollowsShape` says of sealed bytes shorter than a tag that they are
  `InvalidCiphertext` natively (`aead.rs:136`) and never that on the fallback
  (`fallback_backend.dart:118`), against "a failure means the same thing whichever
  backend produced it" (`errors.dart:6`).

## Proofs

Every theorem is for all values of the constants, under the assumptions named in
the modules: the chunk size is positive, the bounds are numbers, the radix is even, a
counter holds what its bytes hold, calls write one path each, an allocator gives free addresses,
an aad is a sequence.

| Module | Theorem | States |
|---|---|---|
| `DartSealProofs` | `TypeCorrect`, `SealsWhole`, `LagIsBounded`, `NeverClosedEarly` | `Spec => []` of `TypeOK`, `SealedWhole`, `LagBounded`, `ClosedOnlyAtEnd` |
| | `Implements` | `Spec => WireFormat`: `DartSeal` implements `StreamFormat` |
| | `SealsOwnBytes` | `MemSpec => []BuffersReturned` |
| | `MemImplements`, `MemSealsWhole` | `MemSpec => Spec`, and so the theorems above hold of `MemSpec`, which TLC runs |
| `FileSealProofs` | `TypeCorrect`, `SealsInOrder`, `SealsWhole` | `Spec => []` of `TypeOK`, `SealedInOrder`, `SealedWhole` |
| | `Implements` | `Spec => WireFormat`: `FileSeal` implements `StreamFormat` while its input stays as it is |
| | `CountersOnce` | frame `i` has counter `i - 1`, at most `MaxCounter` |
| | `NoncesOnce`, `NoncesMatch` | `Spec => []` of `NonceOnce`, `NonceAgrees` |
| | `DartNoncesOnce` | counters up to `maxInt` with equal nonces of Dart's are equal |
| both sealers' modules | `SealsStreams` | what a sealer has made when it is done is a stream (`IsStream`) |
| `DartOpenProofs` | `TypeCorrect`, `AcceptsIntact`, `VerdictIsOfWire` | `Spec => []` of `TypeOK`, `AcceptedIffIntact`, `VerdictOfWire` |
| | `Implements` | `Spec => ReleasesInOrder`: `DartOpen` implements `StreamOpening` |
| `FileOpenProofs` | `TypeCorrect`, `AcceptsWhole`, `VerdictIsOfWire` | `Spec => []` of `TypeOK`, `AcceptedWhole`, `VerdictOfWire` |
| | `Implements` | `Spec => ReleasesInOrder`: `FileOpen` implements `StreamOpening` |
| `FileCipherProofs` | `TypeCorrect`, `CleansUp` | `Spec => []TypeOK`, `Spec => NoLitter`, overlap or not |
| | `PublishesWhole`, `PublishesAtomically` | `PublishedWhole` and `PublishedAtomically` when calls keep apart (`Overlap = FALSE`) |
| `NativeCallProofs` | `TypeCorrect`, `ResultsAreWhole`, `NothingIsLeft` | `Spec => []` of `TypeOK`, `WholeResult`, `NothingLeaks` |
| | `KeysStayPinned` | `Spec => []KeysPinned` when `SharedPages = FALSE` |
| | `SilenceEndsWithTheTest` | `Spec /\ []OneAtATime => SilencedOnlyInSelfTest`: while self-tests do not overlap |
| `BackendProofs` | `EnvelopeTypeCorrect`, `OpensOnlyIntact`, `ErrorsFollowShape` | `Spec => []` of `TypeOK`, `OpenedIffIntact`, `ErrorFollowsShape` of `Envelope` |
| | `SelectorTypeCorrect`, `BackendResolvedOnce` | `SelectorSpec => []` of `SelectorTypeOK`, `ResolvedOnce` |
| | `ProvidersKeepSelector` | `ProvidersSpec => SelectorSpec`, and so both hold of `ProvidersSpec`, which TLC runs |
| | `ProvidersTypeCorrect`, `SeedsHonoured`, `SignaturesCarry` | `ProvidersSpec => []` of `ProvidersTypeOK`, `SeedsAreHonoured`, `SignaturesCarryOver` |

Together, for every chunk size, length and cut: the two sealers implement one wire
format, the two openers one abstract opener, and both openers' verdicts are the
same function (`Verdict`) of the bytes that arrive; and the two sides lay out every
nonce alike whose counter is an int of Dart, and no other. `OneAtATime` (at most one self-test under
way) is what the run `native_call` has by its bound and `panic_hook` gives up;
`SharedPages = FALSE` is what `native_call` has and `key_pages_shared` gives up.

None of these properties is inductive. The arguments are:

* **Sealers.** The strengthening says where every byte is. In `DartSealProofs` the
  frames yielded are full, unflagged and consecutive; the held chunk is the run of
  bytes after them; and the leftover, or the unread part of the current event, is
  the run after that, up to what the source has delivered. Each action moves one
  boundary of this partition, and when the source has ended the parts together are
  `Framing(consumed)`. In `FileSealProofs`, `BlockInv` says the same of `held` and
  `buf`, also when the file grows; `SteadyInv` adds what holds only while it does
  not: the held block starts at a chunk boundary, and a short block means that
  everything was read. The refinements need these: a frame is an `EmitFull` because
  the held chunk is the right run of full length, an `EmitLast` because what is
  flagged is all that is left. `CounterInv` rests on `counter = Len(out)`.
* **Source buffers.** `MemInv`: only `combined` may lie in the source's memory, and
  nothing is damaged while the loop that cuts frames from it runs. Refinement is by
  projection: every step is one of `DartSeal` or leaves it alone.
* **Openers.** `PlaceInv` (`BlockInv` in `FileOpenProofs`) says which part of the wire
  the generator or the call holds, in terms of the counter; `OpenedInv` that as long
  as it runs, every earlier frame was authentic at its place; `ReleasedInv`
  (`WrittenInv`) that what came out is the first chunks. A failure then gives a
  piece of the wire at which the reference fails too, and an acceptance gives
  that all pieces are the sealed frames in order, which is `IsIntact`. `FileOpen`
  needs two more: `SteadyInv` as in the sealer, and `IntactInv`, which keeps the fact
  about the bytes read between the final frame and the return. `StreamProofs`
  has the lemmas about cutting wires, kept apart from multiplication and
  division, for which the provers get the few facts that are needed by name.
* **Publication.** `NamesInv` and `WritersInv` say who owns each inode: the two names
  of a path refer to inodes of that path and never both to one, the inode of a call
  that has not created its file is unused, and a writer writes what the temporary
  name refers to and has written its first `wrote[c]` blocks. `ApartInv` is where
  `Overlap = FALSE` is used. So no write reaches a published inode, and a rename
  publishes a finished one.
* **Nonces.** Counters differ by `CounterInv`, so it remains that different counters
  have different digits (`NoncesDiffer`): digits and remainder are taken off from the
  highest digit down, `MaxCounter` being the largest number the counter's bytes hold.
  That Dart's shifting and Rust's `to_be_bytes` give the same digits up to `maxInt`
  (`NoncesAgree`) is that such a counter is its own int, that as long as something is
  left dividing by the radix k times is dividing by its power (`ShiftsDivide`), and
  that where the loop has ended the digits are zero. With `NoncesDiffer` it follows
  that Dart's nonces too are different there (`DartNoncesOnce`). Beyond `maxInt` the int
  is negative and no round runs (`LoopEnds`), which gives the field of counter 0 and so
  not Rust's (`NoncesPart`).
  The induction over the number of digits is over an operator in the library and so out of reach;
  `Induction` states it for a set of numbers and derives it from the
  fact that an injection of a finite set into itself is onto.
* **FFI calls.** `OwnInv` says who owns each block: the addresses of a call are
  different and are its own, an isolate between calls has none. `WrittenInv` says what the
  cells hold at each place of the call: inputs until it ends, the outputs written
  so far whole, the others untouched, the result read from them. Two calls cannot disturb each other
  because their addresses differ, which is all that `AllocatorSound` gives.
  `SecretInv` says the same of key copies: only a file function holds one, what is
  past the wipe is zero, a resident page belongs to a locked secret. `PinInv` adds,
  when no page is shared, that two secrets lie on different pages, so no `munlock` meets
  another's key. `HookInv` says that the host's hook is installed whenever no
  self-test is under way, and is what one under way has taken.
* **Envelope.** `SentInv` says that what was sent was made by a seal, `ArrivedInv`
  that what arrives has an envelope's fields, whatever was done to them. What is
  opened is decided when it arrives, so the two properties hold of an outcome from
  the step that makes it (`OpenOutcome`). An authentic envelope names its seal by
  its sealed part; the derived key gives salt and secret, the secret the KEM
  ciphertext, the decoded length splits header from tail, and what is authenticated then
  leaves only one aad (`AuthenticIsIntact`).
* **Selector and providers.** `HandleInv`: in each isolate, handles of the current epoch
  hold its singleton as it is, so none exists while it is unresolved. `MadeInv`: random
  outputs are numbered below the number of outputs made. `SignatureInv`: what was
  signed is what was asked for, since both routing tests send natively only what
  the native side can express (`RoutedAsAsked`).

`StreamWire` assumes of the streams that arrive (`StreamsSealed`, `WiresAreCells`)
that they are framed as a sealer frames them: consecutive counters, the flag on the
last frame alone, a final frame without bytes only as the single frame of an empty
plaintext. `SealsStreams` proves that of both sealers, for every chunk size, the native
one if its input stays as it is. A wire is any sequence of cells.

Only model-checked: `Returns` and `CallReturns`, since liveness under
fairness is out of the prover's reach, and what the violated runs show, since the
counterexample is the proof.

## Not modelled

* The cryptography, the operating system's page cache and durability (the code
  does not sync; the documents name that as a later milestone).
* A source that refills a buffer while the generator is suspended at a `yield`: it
  has not been asked for more, so it would break the contract of a stream.
  The opener has the same `_concat`; it keeps only `carry`, by the same kind of copy.
* A caller that changes the key or the aad of a stream it has started: the code
  makes no copy and promises nothing.
* A pinned key that straddles two pages; zeroization of buffers other than the
  pinned key; the random number generators.
* `pqforge_status_echo` and `pqforge_status_message`, table lookups without state.
* The order in which the file wrapper throws and frees: it throws after its
  `finally`, the backend before. The caller sees the same.
* ChaCha20-Poly1305 in the fallback: the envelope always uses AES-256-GCM, and the
  single-shot functions keep no state between calls. This is why the two
  components that hold them are listed as partly modelled.
* The capacity check of outputs whose size the caller computes exactly; the model
  has it for a library that needs more than Dart's table gives.
* Block devices, anchors and other designs of the documents that no code has.

## Plan

In order of importance; the first five stages exist.

1. Streams and files: `StreamFrames`, `StreamFormat`, `DartSeal`, `StreamWire`,
   `DartOpen`, `StreamNonce`, `FilePipeline`, `FileSeal`, `FileOpen`, `FileCipher`.
2. The boundary and the rest: `PanicHook`, `NativeCall`, `Envelope`, `Selector`,
   `Providers`.
3. Memory: `SealBuffers`, `PinnedSecret`, the file functions in `NativeCall`. The
   abstract opener `StreamOpening`.
4. Proofs: both sealers and both openers against their abstract machines, the
   source buffers, the publication of files.
5. Proofs of the FFI call, the nonces, the envelope, the selector and the providers.
6. A theorem that joins a seal and an open: what either sealer made, either opener
   gives back. A model of the single-shot AEAD on both backends with both algorithms.
