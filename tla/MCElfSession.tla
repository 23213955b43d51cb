---------------------------- MODULE MCElfSession ----------------------------
(* Small sessions for TLC: images of up to two segments and one section, or  *)
(* one segment and two sections, and a file as a linker lays it out, where   *)
(* the bytes of a section are also those of the segment around it.           *)
EXTENDS ElfSession

CONSTANTS Text, NoName    \* the names ".text" and ""

MCNameBytes ==
    [n \in {Shstrtab, Text, NoName} |->
        IF n = Text THEN <<<<2>>>> ELSE IF n = NoName THEN <<>> ELSE <<<<1>>, <<2>>>>]

MCSegment(type, vaddr, align, filesz, data) ==
    [header |-> [type |-> type, offset |-> 3, vaddr |-> vaddr, filesz |-> filesz,
                 memsz |-> filesz, align |-> align],
     data |-> data]

MCSegments ==
    { MCSegment("LOAD", 1, 4, 3, <<<<1>>, <<2>>, <<0>>>>),
      MCSegment("LOAD", 6, 4, 1, <<<<2>>, <<1>>>>),
      MCSegment("LOAD", 5, 4, 1, <<>>),
      MCSegment("LOAD", 2, 0, 2, <<<<2>>, <<2>>>>),
      MCSegment("NOTE", 1, 4, 2, <<<<1>>, <<1>>>>),
      MCSegment("NULL", 0, 0, 1, <<<<2>>>>) }

MCSection(name, type, alloc, addr, addralign, size, data) ==
    [name |-> name, data |-> data,
     header |-> [nameIndex |-> 0, type |-> type, alloc |-> alloc, addr |-> addr,
                 offset |-> 5, size |-> size, addralign |-> addralign]]

MCSections ==
    { MCSection(Text, "PROGBITS", TRUE, 2, 4, 2, <<<<2>>, <<0>>>>),
      MCSection(Text, "PROGBITS", FALSE, 0, 1, 1, <<<<1>>>>),
      MCSection(NoName, "NULL", FALSE, 0, 0, 0, <<>>),
      MCSection(Text, "NOBITS", TRUE, 6, 4, 4, <<>>),
      MCSection(Shstrtab, "STRTAB", FALSE, 0, 1, 2, <<<<2>>, <<2>>>>),
      MCSection(Shstrtab, "STRTAB", TRUE, 2, 1, 2, <<<<2>>, <<2>>>>) }

UpTo(n, S) == UNION {[1..k -> S] : k \in 0..n}

MCHeader == [entry |-> 0, phoff |-> 9, shoff |-> 0, phnum |-> 0, shnum |-> 0,
             shstrndx |-> 0]

MCImages ==
    [header : {MCHeader}, segments : UpTo(2, MCSegments), sections : UpTo(1, MCSections)]
    \cup [header : {MCHeader}, segments : UpTo(1, MCSegments), sections : UpTo(2, MCSections)]

(* A linker's file: header, program header, three bytes that are both a      *)
(* loadable segment and ".text", the name table, the section headers.        *)
MCLinkedPhdr ==
    [type |-> "LOAD", offset |-> 3, vaddr |-> 3, filesz |-> 3, memsz |-> 3, align |-> 4]
MCLinkedShdrs ==
    << [nameIndex |-> 1, type |-> "PROGBITS", alloc |-> TRUE, addr |-> 3, offset |-> 3,
        size |-> 3, addralign |-> 1],
       [nameIndex |-> 3, type |-> "STRTAB", alloc |-> FALSE, addr |-> 0, offset |-> 6,
        size |-> 6, addralign |-> 1] >>
MCLinkedFile ==
    Encoded([entry |-> 0, phoff |-> 2, shoff |-> 12, phnum |-> 1, shnum |-> 2,
             shstrndx |-> 1], EhSize)
    \o Encoded(MCLinkedPhdr, PhEntSize)
    \o <<<<1>>, <<2>>, <<1>>>>
    \o <<Zero, <<2>>, Zero, <<1>>, <<2>>, Zero>>
    \o EncodedTable(MCLinkedShdrs, ShEntSize)

MCLinkedFiles == {MCLinkedFile}

MCPayload   == {<<<<1>>>>, <<<<0>>, <<1>>>>}
MCTrailings == {<<>>, <<<<2>>>>}

=============================================================================
