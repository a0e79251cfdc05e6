---------------------------- MODULE StreamNonce ----------------------------
(***************************************************************************)
(* The nonce of a frame, as each side lays it out: bytes 1 to NonceBytes,  *)
(* the last flag in the final one, the counter big-endian before it.  The  *)
(* two sides compute it differently and have to agree on every byte.       *)
(***************************************************************************)
EXTENDS Integers, Sequences

CONSTANTS Radix,            \* values of a byte (256)
          CounterBytes,     \* bytes of a counter (8: Rust's u64, Dart's int)
          NonceBytes        \* bytes of a nonce (12)

ASSUME NonceLayout ==
    /\ Radix \in Nat \ {0, 1}
    /\ Radix % 2 = 0
    /\ CounterBytes \in Nat \ {0}
    /\ NonceBytes \in Nat
    /\ NonceBytes > CounterBytes

Flag(last) == IF last THEN 1 ELSE 0

(* Radix to the power k.                                                   *)
Power[k \in 0..CounterBytes] == IF k = 0 THEN 1 ELSE Radix * Power[k - 1]

(* Byte i of counter.to_be_bytes().                                        *)
BigEndian(counter, i) == (counter \div Power[CounterBytes - i]) % Radix

(* mutant: to_le_bytes                                                     *)
stream_nonce_le(counter, last) ==
    [i \in 1..NonceBytes |->
        IF i = NonceBytes THEN Flag(last)
        ELSE IF i < NonceBytes - CounterBytes THEN 0
        ELSE BigEndian(counter, NonceBytes - i)]

(* Rust: the counter's bytes are copied in front of the flag, what is      *)
(* before them stays zero.                                                 *)
stream_nonce(counter, last) ==
    [i \in 1..NonceBytes |->
        IF i = NonceBytes THEN Flag(last)
        ELSE IF i < NonceBytes - CounterBytes THEN 0
        ELSE BigEndian(counter, i - (NonceBytes - CounterBytes) + 1)]

(* Dart's int is signed: past maxInt, counter++ goes on from the smallest. *)
maxInt == Power[CounterBytes] \div 2 - 1

int(counter) ==
    LET bits == counter % Power[CounterBytes] IN
    IF bits <= maxInt THEN bits ELSE bits - Power[CounterBytes]

(* `c' after k rounds of the loop, which a c that is not positive ends.    *)
Shifted(counter) ==
    LET c[k \in 0..NonceBytes] ==
            IF k = 0 THEN int(counter)
            ELSE IF c[k - 1] > 0 THEN c[k - 1] \div Radix
            ELSE c[k - 1]
    IN  c

(* Dart: the counter is shifted out byte by byte, from the byte before the *)
(* flag to the front; what a loop that has ended leaves is zero.           *)
_nonce(counter, last) ==
    [i \in 1..NonceBytes |->
        IF i = NonceBytes THEN Flag(last)
        ELSE LET c == Shifted(counter)[NonceBytes - 1 - i]
             IN  IF c > 0 THEN c % Radix ELSE 0]
=============================================================================
