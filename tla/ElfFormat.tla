----------------------------- MODULE ElfFormat ------------------------------
(* The objects elfex serializes and parses: headers, segments, sections and  *)
(* the bytes of a file. A file is a sequence of bytes, the byte at file      *)
(* offset o being file[o + 1]. A raw byte is a 1-tuple <<d>>; byte k of a    *)
(* serialized record r is the pair <<r, k>>, so a table entry can only be    *)
(* decoded from all of its bytes in their order, and any partial overwrite   *)
(* destroys it.                                                              *)
EXTENDS ElfArith, Sequences

CONSTANTS
    EhSize,      \* ElfHeader::size: bytes of the ELF header
    PhEntSize,   \* ProgramHeader::size: bytes of one program header
    ShEntSize,   \* SectionHeader::size: bytes of one section header
    MaxImage,    \* MAX_IMAGE: the largest file or mapped image, in bytes
    U16Max,      \* the largest u16: e_phnum and e_shnum are 16 bits wide
    Datum,       \* the values of a raw byte, zero among them
    Names,       \* the section names
    NameBytes,   \* the bytes of each name, none of them zero
    Shstrtab     \* the name ".shstrtab"

SegmentTypes == {"NULL", "LOAD", "DYNAMIC", "NOTE", "TLS"}
SectionTypes == {"NULL", "PROGBITS", "NOBITS", "STRTAB", "RELA", "REL", "DYNAMIC",
                 "NOTE", "DYNSYM"}

RawByte == {<<d>> : d \in Datum}
Zero    == <<0>>

ASSUME FormatAssumption ==
    /\ EhSize \in Nat \ {0} /\ PhEntSize \in Nat \ {0} /\ ShEntSize \in Nat \ {0}
    /\ U16Max \in Nat
    /\ MaxImage \in Nat /\ EhSize <= MaxImage /\ MaxImage < U64Max
    /\ 0 \in Datum
    /\ NameBytes \in [Names -> Seq(RawByte \ {Zero})]
    /\ Shstrtab \in Names

(* The parts of each record that the code below reads or assigns. Flags,     *)
(* p_paddr, sh_link, sh_info and sh_entsize are carried along unread.        *)
Phdr == [type : SegmentTypes, offset : U64, vaddr : U64,
         filesz : U64, memsz : U64, align : U64]

Shdr == [nameIndex : Nat, type : SectionTypes, alloc : BOOLEAN, addr : U64,
         offset : U64, size : Nat, addralign : U64]

ElfHeader == [entry : U64, phoff : Nat, shoff : U64, phnum : 0..U16Max,
              shnum : 0..U16Max, shstrndx : Nat]

Byte == RawByte \cup (ElfHeader \X Nat) \cup (Phdr \X Nat) \cup (Shdr \X Nat)

Segment == [header : Phdr, data : Seq(Byte)]
Section == [name : Names, header : Shdr, data : Seq(Byte)]

(* The model under edit: ElfImage without its constant identification.       *)
ElfImage == [header : ElfHeader, segments : Seq(Segment), sections : Seq(Section)]

IsNobits(section) == section.header.type = "NOBITS"
IsLoad(segment)   == segment.header.type = "LOAD"

(* Segment::contains_vaddr and Section::contains_vaddr.                      *)
SegmentContains(segment, vaddr) ==
    /\ vaddr >= segment.header.vaddr
    /\ vaddr < SatAdd(segment.header.vaddr, segment.header.memsz)
SectionContains(section, vaddr) ==
    /\ section.header.alloc
    /\ vaddr >= section.header.addr
    /\ vaddr < SatAdd(section.header.addr, section.header.size)

Minimum(a, b) == IF a < b THEN a ELSE b
Maximum(a, b) == IF a < b THEN b ELSE a

Zeros(n) == [p \in 1..n |-> Zero]

(* The elements of a sequence of sequences, and those at some indices.       *)
Joined(parts) ==
    LET upTo[i \in 0..Len(parts)] ==
            IF i = 0 THEN <<>> ELSE upTo[i - 1] \o parts[i]
    IN  upTo[Len(parts)]

Chosen(list, indices) ==
    Joined([i \in 1..Len(list) |-> IF i \in indices THEN <<list[i]>> ELSE <<>>])

(* One record serialized to size bytes, and a table of records.              *)
Encoded(record, size) == [k \in 1..size |-> <<record, k>>]
EncodedTable(records, size) ==
    [p \in 1..(size * Len(records)) |->
        <<records[((p - 1) \div size) + 1], ((p - 1) % size) + 1>>]

(* The bytes file[offset .. offset + bytes) equal the given ones.            *)
HoldsAt(file, offset, bytes) ==
    /\ offset + Len(bytes) <= Len(file)
    /\ \A k \in 1..Len(bytes) : file[offset + k] = bytes[k]

(* write_at, once its bounds are checked: grow with zeros, then copy.        *)
StartFits(offset, bytes) == offset <= MaxImage          \* a fault: forgets the end
Fits(offset, bytes) == offset + Len(bytes) <= MaxImage
WriteAt(file, offset, bytes) ==
    [p \in 1..Maximum(Len(file), offset + Len(bytes)) |->
        IF offset < p /\ p <= offset + Len(bytes) THEN bytes[p - offset]
        ELSE IF p <= Len(file) THEN file[p] ELSE Zero]

(* StringTable::get: the bytes from offset up to the next zero, or the end.  *)
StringAt(bytes, offset, string) ==
    /\ HoldsAt(bytes, offset, string)
    /\ \/ offset + Len(string) = Len(bytes)
       \/ bytes[offset + Len(string) + 1] = Zero

=============================================================================
