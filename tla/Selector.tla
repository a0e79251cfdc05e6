------------------------------ MODULE Selector ------------------------------
(***************************************************************************)
(* PqForge.instance and its seams: one cached backend per isolate, native  *)
(* when the library at the given path passes every check at that moment,   *)
(* pure Dart otherwise.  A static of Dart exists once in every isolate;    *)
(* the library file exists once, and may be installed, replaced or removed *)
(* while the process runs.  Clients keep the objects they were given.      *)
(***************************************************************************)
EXTENDS Naturals, Sequences

CONSTANTS Isolates,         \* the isolates of the process
          Paths,            \* paths of native libraries
          MaxEpochs,        \* bound: times a singleton is cleared or installed
          MaxHandles        \* bound: objects clients hold

ASSUME SelectorAssumption == MaxEpochs \in Nat /\ MaxHandles \in Nat

VARIABLES library,          \* what is at each path
          _instance,        \* the singleton of each isolate
          handles,          \* the objects clients hold, in the order given
          epoch             \* how often each singleton was cleared or installed

selectorVars == <<library, _instance, handles, epoch>>

(* The first of its checks that a library fails, or "good".                *)
Conditions == {"missing", "symbolMissing", "otherAbi", "selftestFails", "good"}

NoPath == "no path"
Unresolved == [kind |-> "unresolved"]
Fallback == [kind |-> "fallback"]
Native(path) == [kind |-> "native", path |-> path]

SelectorInit ==
    /\ library \in [Paths -> Conditions]
    /\ _instance = [i \in Isolates |-> Unresolved]
    /\ handles = << >>
    /\ epoch = [i \in Isolates |-> 0]

(* NativeBackend.open returns, or throws a NativeBindingException.         *)
opens(path) ==
    /\ library[path] # "missing"
    /\ library[path] # "symbolMissing"
    /\ library[path] # "otherAbi"
    /\ library[path] # "selftestFails"

_resolveBackend(preferNative, path) ==
    IF preferNative /\ path # NoPath /\ opens(path) THEN Native(path) ELSE Fallback

(* mutant: the value from before the assignment is returned                *)
HoldOld(isolate, backend, now) ==
    /\ Len(handles) < MaxHandles
    /\ handles' = Append(handles,
         [isolate |-> isolate, backend |-> _instance[isolate], epoch |-> now])

Hold(isolate, backend, now) ==
    /\ Len(handles) < MaxHandles
    /\ handles' = Append(handles,
         [isolate |-> isolate, backend |-> backend, epoch |-> now])

(* mutant: every call resolves again                                       *)
ResolvedAgain(isolate, preferNative, path) == _resolveBackend(preferNative, path)

Resolved(isolate, preferNative, path) ==
    IF _instance[isolate] = Unresolved
      THEN _resolveBackend(preferNative, path)
      ELSE _instance[isolate]

(* The isolate's singleton if there is one, whatever this call prefers.    *)
instance(isolate, preferNative, path) ==
    LET backend == Resolved(isolate, preferNative, path) IN
    /\ _instance' = [_instance EXCEPT ![isolate] = backend]
    /\ Hold(isolate, backend, epoch[isolate])
    /\ UNCHANGED <<library, epoch>>

withBackend(isolate, backend) ==
    LET now == epoch[isolate] + 1 IN
    /\ now <= MaxEpochs
    /\ _instance' = [_instance EXCEPT ![isolate] = backend]
    /\ epoch' = [epoch EXCEPT ![isolate] = now]
    /\ Hold(isolate, backend, now)
    /\ UNCHANGED library

reset(isolate) ==
    /\ epoch[isolate] < MaxEpochs
    /\ _instance' = [_instance EXCEPT ![isolate] = Unresolved]
    /\ epoch' = [epoch EXCEPT ![isolate] = epoch[isolate] + 1]
    /\ UNCHANGED <<library, handles>>

(* An installer replaces the file; a library already loaded is not         *)
(* affected.                                                               *)
LibraryChanges(path) ==
    /\ \E condition \in Conditions \ {library[path]} :
         library' = [library EXCEPT ![path] = condition]
    /\ UNCHANGED <<_instance, handles, epoch>>

SelectorNext ==
    \/ \E isolate \in Isolates :
         \/ \E preferNative \in BOOLEAN, path \in Paths \union {NoPath} :
              instance(isolate, preferNative, path)
         \/ withBackend(isolate, Fallback)
         \/ \E path \in Paths : opens(path) /\ withBackend(isolate, Native(path))
         \/ reset(isolate)
    \/ \E path \in Paths : LibraryChanges(path)

SelectorSpec == SelectorInit /\ [][SelectorNext]_selectorVars

-----------------------------------------------------------------------------
(* Type correctness; no client holds an unresolved backend, nor one of a   *)
(* later epoch than its isolate's.                                         *)
SelectorTypeOK ==
    /\ library \in [Paths -> Conditions]
    /\ _instance \in
         [Isolates -> {Unresolved, Fallback} \union {Native(path) : path \in Paths}]
    /\ epoch \in [Isolates -> 0..MaxEpochs]
    /\ \A i \in DOMAIN handles :
         handles[i].backend # Unresolved /\ handles[i].epoch \in 0..epoch[handles[i].isolate]

(* "Resolves the best available backend exactly once": until an isolate's  *)
(* singleton is cleared or replaced, whoever asks there gets the same      *)
(* backend (after withBackend, the one it installed and returned),         *)
(* whatever they prefer, whatever becomes of the library meanwhile, and    *)
(* whatever other isolates resolve, clear or install.                      *)
ResolvedOnce ==
    \A i, j \in DOMAIN handles :
        handles[i].isolate = handles[j].isolate /\ handles[i].epoch = handles[j].epoch =>
          handles[i].backend = handles[j].backend
=============================================================================
