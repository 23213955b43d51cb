----------------------------- MODULE MCReadLoop -----------------------------
(* Sources of eight addresses for TLC: one that is all there, the last       *)
(* address included, one with a hole, and one that holds other bytes and     *)
(* ends early; each at the beginning and at the very end of the address      *)
(* space.                                                                    *)
EXTENDS ReadLoop

CONSTANTS A, B      \* two values

(* Neighbouring addresses hold different values; first is that of address 0. *)
MCSource(present, first) ==
    [a \in U64 |-> IF a \notin present THEN Missing
                   ELSE IF a % 2 = 0 THEN first ELSE CHOOSE v \in {A, B} : v # first]

(* From base 0 only a custom source has a byte at the last address.          *)
MCSourcesOf ==
    [b \in Bases |->
        IF b = 0
        THEN { MCSource(U64, A),
               MCSource((0..(U64Max - 1)) \ {4}, A),
               MCSource(0..3, B) }
        ELSE { MCSource(U64, A), MCSource(U64 \ {5}, A), MCSource(U64 \ {U64Max}, B) }]

MCRequests == [offset : {0, 2, 5, U64Max}, length : 0..4]

=============================================================================
