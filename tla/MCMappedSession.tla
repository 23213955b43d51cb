-------------------------- MODULE MCMappedSession ---------------------------
(* Small images for TLC: two-digit addresses in base nine, pages of four     *)
(* bytes, up to two segments and two relocation tables without a section     *)
(* table in memory; and an image as a linker lays it out, one segment that   *)
(* holds the whole file.                                                     *)
EXTENDS MappedSession

CONSTANTS Text, Debug      \* the names ".text" and ".debug_info"

MCNames == {Text, Debug, Dynsym, Dynstr, Shstrtab}
MCNameBytes ==
    [n \in MCNames |->
        CASE n = Text -> <<<<1>>>> [] n = Debug -> <<<<2>>>> [] n = Dynsym -> <<<<3>>>>
          [] n = Dynstr -> <<<<4>>>> [] OTHER -> <<>>]

MCSegment(type, vaddr, memsz, data) ==
    [header |-> [type |-> type, offset |-> 0, vaddr |-> vaddr, filesz |-> Len(data),
                 memsz |-> memsz, align |-> 1],
     data |-> data]

MCSegments ==
    { MCSegment("LOAD", 4, 4, <<<<1>>, <<2>>, <<3>>, <<8>>>>),
      MCSegment("LOAD", 7, 4, <<<<8>>, <<1>>>>),
      MCSegment("LOAD", 8, 3, <<<<1>>, <<2>>, <<3>>, <<2>>>>),
      MCSegment("LOAD", 60, 2, <<>>),
      MCSegment("LOAD", 2, 0, <<>>),
      MCSegment("LOAD", 75, 0, <<>>),
      MCSegment("LOAD", 0, 4, <<<<2>>, <<1>>>>),
      MCSegment("NOTE", 8, 2, <<<<1>>>>) }

MCWord(n)    == Digits(n, 2, "Little")
MCEntry(n, type) == MCWord(n) \o MCWord(9 + type)

MCSection(name, type, alloc, addr, offset, data) ==
    [name |-> name, data |-> data,
     header |-> [nameIndex |-> 0, type |-> type, alloc |-> alloc, addr |-> addr,
                 offset |-> offset, size |-> Len(data), addralign |-> 1]]

(* Relative relocations of the words at 7, 8 and 9, one below every image,   *)
(* one past its end, one whose end overflows; one of another type.           *)
MCTable(type, data) == MCSection(Shstrtab, type, TRUE, 0, 0, data)
MCTables ==
    { MCTable("REL", MCEntry(7, 1)),
      MCTable("REL", MCEntry(8, 1) \o MCEntry(10, 1)),
      MCTable("REL", MCEntry(9, 2)),
      MCTable("REL", MCEntry(0, 2) \o MCEntry(13, 1)),
      MCTable("REL", MCEntry(80, 1)),
      MCTable("REL", MCWord(8)),
      MCTable("RELA", MCEntry(8, 1) \o MCWord(3)),
      MCTable("RELA", MCEntry(3, 1) \o MCWord(3)),
      MCTable("PROGBITS", MCEntry(8, 1)) }

UpTo(n, S) == UNION {[1..k -> S] : k \in 0..n}

MCHeader == [entry |-> 0, phoff |-> 9, shoff |-> 5, phnum |-> 1, shnum |-> 2,
             shstrndx |-> 0]

MCLoose ==
    [header : {MCHeader}, segments : UpTo(2, MCSegments), sections : UpTo(1, MCTables)]
    \cup [header : {MCHeader}, segments : UpTo(1, MCSegments), sections : UpTo(2, MCTables)]

(* The linked file: headers, a pointer, its relocation, a symbol with its    *)
(* string, the section names, the section headers. The image base is 4.      *)
MCSymbol == MCWord(1) \o MCWord(6) \o MCWord(2) \o <<<<4>>, <<0>>>> \o <<<<1>>>>
MCStrings == <<Zero, <<5>>, Zero>>
MCNameTable == <<Zero, <<1>>, Zero, <<2>>, Zero, <<3>>, Zero, <<4>>, Zero>>

MCNamed(section, nameIndex) == [section EXCEPT !.header.nameIndex = nameIndex]

(* With a section that is too large, and the type of the relocation.         *)
MCLinkedSections(large, kind) ==
    << MCNamed(MCSection(Text, "PROGBITS", TRUE, 6, 2, MCWord(7)), 1),
       large,
       MCNamed(MCSection(Shstrtab, "REL", TRUE, 8, 4, MCEntry(6, kind)), 0),
       MCNamed(MCSection(Dynsym, "DYNSYM", TRUE, 12, 8, MCSymbol), 5),
       MCNamed(MCSection(Dynstr, "STRTAB", TRUE, 21, 17, MCStrings), 7),
       MCSection(Shstrtab, "STRTAB", FALSE, 0, 20, MCNameTable) >>

MCLarge    == MCNamed(MCSection(Debug, "PROGBITS", FALSE, 0, 35, Zeros(42)), 3)
MCLargeRel == MCNamed(MCSection(Debug, "REL", FALSE, 0, 35, MCEntry(6, 1) \o Zeros(40)), 3)

MCLinked(shoff, sections) ==
    [header   |-> [MCHeader EXCEPT !.shoff = shoff, !.shnum = 6, !.shstrndx = 5],
     segments |-> <<MCSegment("LOAD", 4, 38,
                        Zeros(2) \o MCWord(7) \o sections[3].data \o MCSymbol \o MCStrings
                            \o MCNameTable \o [i \in 1..6 |-> <<sections[i].header, 1>>])>>,
     sections |-> sections]

(* Also one whose pointer is named by the relocations too large to be read,  *)
(* and one whose table is not where its header says, but zeros are.          *)
MCMapped ==
    LET plain == MCLinkedSections(MCLarge, 1)
    IN  MCLoose \cup {MCLinked(29, plain), MCLinked(29, MCLinkedSections(MCLargeRel, 2)),
                      [MCLinked(36, plain) EXCEPT !.header.shnum = 2]}

MCGuesses ==
    { [nameIndex |-> 1, type |-> "PROGBITS", alloc |-> TRUE, addr |-> 5, offset |-> 1,
       size |-> 3, addralign |-> 1],
      [nameIndex |-> 0, type |-> "DYNSYM", alloc |-> FALSE, addr |-> 0, offset |-> 2,
       size |-> 5, addralign |-> 1] }

MCGnu == <<<<7>>>>

MCPayload == {<<<<6>>>>, <<<<0>>, <<6>>>>}

=============================================================================
