---------------------------- MODULE LoadedMemory ----------------------------
(* What editing an image through image-relative offsets promises: a memory   *)
(* of bytes at virtual addresses, divided into extents (the file bytes of    *)
(* the loadable segments). A write that lies in one extent replaces exactly  *)
(* its range; any other write is refused and changes nothing.                *)
EXTENDS Integers, Sequences

CONSTANTS Address, Payload

VARIABLES mem, extents, reply

vars == <<mem, extents, reply>>

Range(a, bytes) == a..(a + Len(bytes) - 1)

Init == DOMAIN mem = UNION extents /\ reply = "none"

Write(a, bytes) ==
    /\ \E e \in extents : Range(a, bytes) \subseteq e
    /\ mem' = [x \in DOMAIN mem |->
                  IF x \in Range(a, bytes) THEN bytes[x - a + 1] ELSE mem[x]]
    /\ reply' = "some"
    /\ UNCHANGED extents

(* An empty write may be refused wherever it points.                         *)
Refuse(a, bytes) ==
    /\ bytes = <<>> \/ \A e \in extents : ~(Range(a, bytes) \subseteq e)
    /\ reply' = "none"
    /\ UNCHANGED <<mem, extents>>

Next == \E a \in Address, bytes \in Payload : Write(a, bytes) \/ Refuse(a, bytes)

Spec == Init /\ [][Next]_vars

=============================================================================
