----------------------------- MODULE NoteWalk -------------------------------
(* Note::parse_all (src/src/notes.rs): one call walks a run of note records, *)
(* each a header of three 32-bit numbers, a name and a descriptor, both      *)
(* padded to four bytes; and the builder's serialize_note, which writes such *)
(* records (src/src/builder.rs). The sizes are the file's to claim, and a    *)
(* file may end anywhere.                                                    *)
EXTENDS Integers, Sequences

CONSTANTS
    Radix,       \* the number of values of a byte (256)
    Text,        \* the bytes text is made of; any other is not UTF-8
    Written,     \* the lists of notes a builder writes
    Foreign      \* runs of bytes from elsewhere

Byte == 0..(Radix - 1)

(* A note as Note and NoteSpec hold it.                                      *)
Note == [name : Seq(Byte), type : Nat, descriptor : Seq(Byte)]

ASSUME NoteAssumption ==
    /\ Radix \in Nat \ {0, 1}
    /\ Text \subseteq Byte \ {0}
    /\ Written \subseteq Seq([name : Seq(Text), type : Byte, descriptor : Seq(Byte)])
    /\ Foreign \subseteq Seq(Byte)

HeaderSize == 12

(* A fault: four more bytes after what is aligned already.                   *)
AlwaysPads(length) == 4 - (length % 4)
Padding4(length) == (4 - (length % 4)) % 4

-----------------------------------------------------------------------------
(* serialize_note. A size needs one byte here, the other three are zero.     *)

ZeroBytes(n) == [k \in 1..n |-> 0]
U32(n)       == <<n, 0, 0, 0>>

SerializeNote(note) ==
    LET named == note.name \o <<0>>
    IN  U32(Len(named)) \o U32(Len(note.descriptor)) \o U32(note.type)
        \o named \o ZeroBytes(Padding4(Len(named)))
        \o note.descriptor \o ZeroBytes(Padding4(Len(note.descriptor)))

Serialized(list) ==
    LET upTo[i \in 0..Len(list)] ==
            IF i = 0 THEN <<>> ELSE upTo[i - 1] \o SerializeNote(list[i])
    IN  upTo[Len(list)]

(* The records written are bytes. (An induction over the list.)              *)
ASSUME SerializedAssumption == \A list \in Written : Serialized(list) \in Seq(Byte)

-----------------------------------------------------------------------------
VARIABLES
    specs,       \* what the builder wrote into data, <<>> for foreign bytes
    data,        \* the argument data
    offset,      \* the local offset
    notes,       \* the notes read so far
    result       \* "walking" until the call returns or panics

vars == <<specs, data, offset, notes, result>>

(* Whole runs, runs that end anywhere, and bytes from elsewhere.             *)
Init ==
    /\ \/ /\ specs \in Written
          /\ \E cut \in 0..Len(Serialized(specs)) :
                 data = SubSeq(Serialized(specs), 1, cut)
       \/ specs = <<>> /\ data \in Foreign
    /\ offset = 0 /\ notes = <<>> /\ result = "walking"

Word(at) == data[at + 1] + (Radix * (data[at + 2]
                + (Radix * (data[at + 3] + (Radix * data[at + 4])))))

NameLen   == Word(offset)
DescLen   == Word(offset + 4)
NameEnd   == offset + HeaderSize + NameLen
DescStart == NameEnd + Padding4(NameLen)
DescEnd   == DescStart + DescLen

(* The name without one final zero.                                          *)
KeepsZero(bytes) == bytes                \* a fault
Trimmed(bytes) ==
    IF bytes # <<>> /\ bytes[Len(bytes)] = 0
    THEN SubSeq(bytes, 1, Len(bytes) - 1) ELSE bytes

Name == Trimmed(SubSeq(data, NameEnd - NameLen + 1, NameEnd))
IsUtf8(bytes) == \A k \in 1..Len(bytes) : bytes[k] \in Text \cup {0}

HeaderFits == result = "walking" /\ Len(data) - offset >= HeaderSize

FitsBefore(end) == end < Len(data)       \* a fault: refuses the last byte
Fits(end) == end <= Len(data)

Return(r) == result' = r /\ UNCHANGED <<specs, data, offset, notes>>

-----------------------------------------------------------------------------
TakeNote ==
    /\ HeaderFits /\ Fits(DescEnd) /\ IsUtf8(Name)
    /\ notes' = Append(notes,
           [name       |-> Name,
            type       |-> Word(offset + 8),
            descriptor |-> SubSeq(data, DescStart + 1, DescEnd)])
    /\ offset' = DescEnd + Padding4(DescLen)
    /\ UNCHANGED <<specs, data, result>>

BadName  == HeaderFits /\ Fits(DescEnd) /\ ~IsUtf8(Name) /\ Return("error")
NoRoom   == HeaderFits /\ ~Fits(DescEnd) /\ Return("ok")
AtTheEnd ==
    /\ result = "walking"
    /\ Len(data) - offset \in 0..(HeaderSize - 1)
    /\ Return("ok")

(* The last descriptor ended without its padding: data.len() - offset        *)
(* underflows, which panics in a build with overflow checks; in one without, *)
(* the huge difference passes for room and reading the header fails.         *)
PastTheEnd ==
    /\ result = "walking" /\ offset > Len(data)
    /\ \E r \in {"panic", "error"} : Return(r)

Returned == result # "walking" /\ UNCHANGED vars

Next == TakeNote \/ BadName \/ NoRoom \/ AtTheEnd \/ PastTheEnd \/ Returned

Spec == Init /\ [][Next]_vars

-----------------------------------------------------------------------------
TypeOK ==
    /\ data \in Seq(Byte)
    /\ offset \in Nat
    /\ notes \in Seq(Note)
    /\ result \in {"walking", "ok", "error", "panic"}

(* The cursor stays on a multiple of four, passes the end by padding only,   *)
(* and moves at least a header's length with every note: so the walk ends,   *)
(* whatever sizes the file claims (notes.rs:69-96).                          *)
CursorInv ==
    /\ offset % 4 = 0
    /\ offset <= Len(data) + 3
    /\ HeaderSize * Len(notes) <= offset

(* The data is what the builder wrote, or the beginning of it.               *)
IsTruncated ==
    /\ Len(data) <= Len(Serialized(specs))
    /\ data = SubSeq(Serialized(specs), 1, Len(data))

(* The end of note i's descriptor, before its padding.                       *)
NoteEnd(i) ==
    Len(Serialized(SubSeq(specs, 1, i))) - Padding4(Len(specs[i].descriptor))

(* What a call that succeeds returns: the notes that are complete in the     *)
(* data, all of them, in order and as they were written, wherever the data   *)
(* ends (notes.rs:57-61, builder.rs:336-354).                                *)
CompleteNotesRead ==
    result = "ok" /\ IsTruncated =>
        /\ Len(notes) <= Len(specs)
        /\ \A i \in 1..Len(specs) :
               IF NoteEnd(i) <= Len(data)
               THEN i <= Len(notes) /\ notes[i] = specs[i] ELSE i > Len(notes)

(* The walk reads back all that the builder writes, and never fails on it.   *)
WrittenNotesRead ==
    result # "walking" /\ IsTruncated /\ Len(data) = Len(Serialized(specs)) =>
        result = "ok" /\ notes = specs

(* "Parses every complete note in data. ... Parsing stops at the first       *)
(* record that does not fit the remaining bytes" (notes.rs:57-61): however a *)
(* run of notes ends, the call returns its complete notes.                   *)
StopsAtTheEnd == IsTruncated => result \in {"walking", "ok"}

=============================================================================
