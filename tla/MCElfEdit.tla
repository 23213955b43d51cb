----------------------------- MODULE MCElfEdit ------------------------------
(* Small images for TLC: two adjacent loadable segments, the first with a    *)
(* zero-filled tail, a note segment over them, and sections that tile them,  *)
(* overlap, cross from one to the other, or only look as if they covered an  *)
(* address. The page size is 4, so that the image base is below the first    *)
(* address.                                                                  *)
EXTENDS ElfEdit

MCNameBytes == [n \in Names |-> <<<<1>>>>]

MCPhdr(type, vaddr, filesz, memsz) ==
    [type |-> type, offset |-> vaddr - 2, vaddr |-> vaddr, filesz |-> filesz,
     memsz |-> memsz, align |-> 4]

Blank(n) == [k \in 1..n |-> Zero]

MCText == [header |-> MCPhdr("LOAD", 5, 3, 4), data |-> Blank(3)]
MCData == [header |-> MCPhdr("LOAD", 9, 2, 2), data |-> Blank(2)]
MCNote == [header |-> MCPhdr("NOTE", 6, 2, 2), data |-> Blank(2)]

(* As parsing a mapped image leaves the first one: bytes for its whole       *)
(* memory size.                                                              *)
MCTextMapped == [MCText EXCEPT !.data = Blank(4)]

MCSection(type, alloc, addr, size, data) ==
    [name |-> Shstrtab, data |-> data,
     header |-> [nameIndex |-> 0, type |-> type, alloc |-> alloc, addr |-> addr,
                 offset |-> 0, size |-> size, addralign |-> 1]]

MCSections ==
    << MCSection("PROGBITS", TRUE, 5, 2, Blank(2)),
       MCSection("PROGBITS", TRUE, 7, 1, Blank(1)),
       MCSection("PROGBITS", TRUE, 6, 4, Blank(4)),
       MCSection("PROGBITS", TRUE, 9, 2, Blank(2)),
       MCSection("PROGBITS", FALSE, 5, 2, <<<<1>>, <<1>>>>),
       MCSection("NOBITS", TRUE, 8, 1, <<>>) >>

(* Each pair in one order, and each section twice: a write treats each       *)
(* section by itself.                                                        *)
MCSectionTables ==
    UNION {{<<MCSections[i], MCSections[j]>> : j \in i..Len(MCSections)} :
               i \in 1..Len(MCSections)}

MCFileImages   == [segments : {<<MCText, MCData, MCNote>>}, sections : MCSectionTables]
MCMappedImages == [segments : {<<MCTextMapped, MCData>>}, sections : MCSectionTables]
MCImages       == MCFileImages \cup MCMappedImages

(* As linkers write it: the note segment comes before the loadable ones.     *)
MCNoteFirst == [segments : {<<MCNote, MCText, MCData>>}, sections : {<<>>}]

MCPayload == {<<>>, <<<<1>>>>, <<<<1>>, <<0>>>>, <<<<1>>, <<1>>, <<1>>>>}

=============================================================================
