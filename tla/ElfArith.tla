------------------------------ MODULE ElfArith ------------------------------
(* The 64-bit arithmetic the layout code is built from: the saturating       *)
(* additions and subtractions of u64 and the two rounding functions of       *)
(* src/src/elf.rs and src/src/elf/build.rs.                                  *)
EXTENDS Integers

CONSTANT U64Max            \* the largest u64 (2^64 - 1; small for TLC)

ASSUME U64MaxAssumption == U64Max \in Nat

U64 == 0..U64Max

(* u64::saturating_add and u64::saturating_sub.                              *)
SatAdd(a, b) == IF a + b > U64Max THEN U64Max ELSE a + b
SatSub(a, b) == IF a < b THEN 0 ELSE a - b

(* A fault for the runs to find: rounds to the multiple below.               *)
AlignDown(value, alignment) ==
    IF alignment <= 1 THEN value ELSE value - (value % alignment)

(* align_up: the smallest multiple of alignment at or above value.           *)
AlignUp(value, alignment) ==
    IF alignment <= 1 \/ value % alignment = 0
    THEN value
    ELSE SatAdd(value, alignment - (value % alignment))

(* A fault: moves to the wanted remainder in either direction.               *)
CongruentEitherWay(cursor, vaddr, alignment) ==
    IF alignment <= 1 THEN cursor
    ELSE cursor + (vaddr % alignment) - (cursor % alignment)

(* congruent: the first offset at or after cursor with vaddr's remainder.    *)
Congruent(cursor, vaddr, alignment) ==
    LET target  == vaddr % alignment
        current == cursor % alignment
    IN  IF alignment <= 1 \/ current = target THEN cursor
        ELSE IF current < target
             THEN SatAdd(cursor, target - current)
             ELSE SatAdd(cursor, alignment - (current - target))

=============================================================================
