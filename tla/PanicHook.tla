----------------------------- MODULE PanicHook -----------------------------
(***************************************************************************)
(* The panic hook is one variable of the process: whatever runs when a     *)
(* thread panics.  pqforge_selftest_panic silences it for a panic of its   *)
(* own and puts back what it found; the exported function may be called    *)
(* from any thread.                                                        *)
(***************************************************************************)
CONSTANT Tests              \* the calls of pqforge_selftest_panic

VARIABLES hook,             \* the installed hook
          at,               \* where each self-test is
          previous          \* the hook each self-test took

hookVars == <<hook, at, previous>>

Hooks == {"host", "default", "silent"}

HookInit ==
    /\ hook = "host"
    /\ at = [t \in Tests |-> "idle"]
    /\ previous = [t \in Tests |-> "default"]

Testing == \E t \in Tests : at[t] \notin {"idle", "returned"}

(* take_hook leaves the default hook installed.                            *)
TakeHook(t) ==
    /\ at[t] = "idle"
    /\ previous' = [previous EXCEPT ![t] = hook]
    /\ hook' = "default"
    /\ at' = [at EXCEPT ![t] = "taken"]

Silence(t) ==
    /\ at[t] = "taken"
    /\ hook' = "silent"
    /\ at' = [at EXCEPT ![t] = "silenced"]
    /\ UNCHANGED previous

(* The closure panics and guard catches it.                                *)
PanicCaught(t) ==
    /\ at[t] = "silenced"
    /\ at' = [at EXCEPT ![t] = "caught"]
    /\ UNCHANGED <<hook, previous>>

(* mutant: the hook that was taken is dropped                              *)
RestoreNothing(t) ==
    /\ at[t] = "caught"
    /\ at' = [at EXCEPT ![t] = "returned"]
    /\ UNCHANGED <<hook, previous>>

Restore(t) ==
    /\ at[t] = "caught"
    /\ hook' = previous[t]
    /\ at' = [at EXCEPT ![t] = "returned"]
    /\ UNCHANGED previous

SelfTest == \E t \in Tests : TakeHook(t) \/ Silence(t) \/ PanicCaught(t) \/ Restore(t)
=============================================================================
