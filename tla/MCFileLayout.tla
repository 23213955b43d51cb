---------------------------- MODULE MCFileLayout ----------------------------
(* Small images for TLC: up to two segments and two sections, and some with  *)
(* more table entries than their u16 counts admit. Sizes are scaled down: a  *)
(* header of 2 bytes, table entries of 1 and 2, files of at most 32 bytes,   *)
(* u64 up to 63. Addresses and alignments are chosen so that padding,        *)
(* saturation and the size limit all occur.                                  *)
EXTENDS FileLayout

CONSTANTS Dup      \* a second section name

MCNameBytes == [n \in {Shstrtab, Dup} |-> IF n = Dup THEN <<<<2>>>> ELSE <<<<1>>, <<2>>>>]

MCSegment(type, vaddr, align, filesz, data) ==
    [header |-> [type |-> type, offset |-> 3, vaddr |-> vaddr, filesz |-> filesz,
                 memsz |-> filesz, align |-> align],
     data |-> data]

(* File-backed, truncated by p_filesz, bss only, unaligned, saturating.      *)
MCSegments ==
    { MCSegment("LOAD", 1, 4, 2, <<<<1>>, <<2>>>>),
      MCSegment("LOAD", 6, 4, 1, <<<<2>>, <<1>>>>),
      MCSegment("LOAD", 5, 4, 3, <<>>),
      MCSegment("LOAD", 0, 0, 3, <<<<2>>, <<2>>, <<1>>>>),
      MCSegment("LOAD", 62, 63, 1, <<<<1>>>>),
      MCSegment("NOTE", 1, 4, 2, <<<<1>>, <<1>>>>),
      MCSegment("NULL", 0, 0, 0, <<<<2>>>>) }

MCSection(name, type, addralign, size, data) ==
    [name |-> name, data |-> data,
     header |-> [nameIndex |-> 0, type |-> type, alloc |-> FALSE, addr |-> 0,
                 offset |-> 5, size |-> size, addralign |-> addralign]]

MCSections ==
    { MCSection(Dup, "PROGBITS", 4, 2, <<<<2>>, <<1>>>>),
      MCSection(Dup, "PROGBITS", 0, 2, <<>>),
      MCSection(Dup, "NOBITS", 4, 4, <<>>),
      MCSection(Dup, "STRTAB", 3, 1, <<<<1>>>>),
      MCSection(Shstrtab, "STRTAB", 1, 2, <<<<2>>, <<2>>>>),
      MCSection(Shstrtab, "PROGBITS", 2, 1, <<<<2>>>>) }

UpTo(n, S) == UNION {[1..k -> S] : k \in 0..n}

MCHeader == [entry |-> 0, phoff |-> 9, shoff |-> 0, phnum |-> 0, shnum |-> 0,
             shstrndx |-> 0]

MCImages == {[header |-> MCHeader, segments |-> segs, sections |-> secs] :
                segs \in UpTo(2, MCSegments), secs \in UpTo(2, MCSections)}
    \cup {[header |-> MCHeader, segments |-> [i \in 1..4 |-> seg], sections |-> <<>>] :
             seg \in MCSegments}
    \cup {[header |-> MCHeader, segments |-> <<>>, sections |-> [i \in 1..3 |-> sec]] :
             sec \in MCSections}

=============================================================================
