---------------------------- MODULE MCNativeCall ----------------------------
(* TLC instances of NativeCall: two isolates, a heap too small for both of *)
(* them at their largest, two pages for their secrets (the same one or     *)
(* not), and one self-test or two.  The members of each set are            *)
(* interchangeable.  The allocator gives out the lowest blocks first.      *)
EXTENDS NativeCall, FiniteSets, TLC

CONSTANTS c1, c2, p1, p2, t1, t2

MCAllocations(free, n) ==
    IF n > Cardinality(free) THEN {}
    ELSE {[i \in 1..n |-> CHOOSE a \in free : Cardinality({b \in free : b < a}) = i - 1]}

Symmetry ==
    Permutations(Calls) \union Permutations(Pages) \union Permutations(Tests)
=============================================================================
