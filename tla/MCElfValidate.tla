--------------------------- MODULE MCElfValidate ----------------------------
(* Small images for TLC: three segments whose ranges touch, overlap, nest,   *)
(* are empty, or run past the last address, in any order.                    *)
EXTENDS ElfValidate

MCPhdr(type, offset, vaddr, filesz, memsz, align) ==
    [type |-> type, offset |-> offset, vaddr |-> vaddr, filesz |-> filesz,
     memsz |-> memsz, align |-> align]

MCHeaders ==
    { MCPhdr("LOAD", 0, v, f, m, 1) : v \in {2, 4, 13}, f \in {0, 3}, m \in {0, 2, 5} }
    \cup { MCPhdr("LOAD", o, 6, 1, 1, 4) : o \in {2, 3} }
    \cup { MCPhdr("NOTE", 0, 2, 5, 5, 1) }

MCSegments == {[header |-> h, data |-> Zeros(h.filesz)] : h \in MCHeaders}

MCSection(type) ==
    [name |-> Shstrtab, data |-> <<>>,
     header |-> [nameIndex |-> 0, type |-> type, alloc |-> FALSE, addr |-> 0,
                 offset |-> 0, size |-> 0, addralign |-> 1]]

MCHeader(entry, shnum, shstrndx) ==
    [entry |-> entry, phoff |-> 0, shoff |-> 0, phnum |-> 0, shnum |-> shnum,
     shstrndx |-> shstrndx]

UpTo(n, S) == UNION {[1..k -> S] : k \in 0..n}

MCNameBytes == [n \in {Shstrtab} |-> <<<<1>>>>]

MCChecked ==
    [header : {MCHeader(0, 0, 0)}, segments : UpTo(3, MCSegments), sections : {<<>>}]
    \cup [header   : {MCHeader(e, n, x) : e \in {3, 8, 15}, n \in {0, 1}, x \in {0, 1}},
          segments : UpTo(1, MCSegments),
          sections : {<<>>, <<MCSection("STRTAB")>>, <<MCSection("NULL")>>}]

=============================================================================
