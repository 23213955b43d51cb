----------------------------- MODULE ElfTables ------------------------------
(* The tables inside an image and their bytes: numbers in either byte order  *)
(* (src/src/ident.rs), strings (strtab.rs), dynamic tables (dynamic.rs),     *)
(* relocations (reloc.rs), symbols (symbol.rs) and notes (notes.rs), as the  *)
(* accessors of src/src/elf/inspect.rs decode them. An Option is a set of at *)
(* most one element; text is any bytes.                                      *)
EXTENDS ElfFormat

CONSTANTS
    Nibble,      \* the number of values of half a byte (16)
    Half,        \* the bytes of a u16 (2)
    Gnu          \* the bytes of the name "GNU"

Radix == Nibble * Nibble     \* the number of values of a byte
Word  == 2 * Half            \* the bytes of a u32

ASSUME TablesAssumption ==
    /\ Nibble \in Nat \ {0, 1} /\ Half \in Nat \ {0}
    /\ Datum = 0..(Radix - 1)
    \* What exponentiation is, which the prover does not know.
    /\ Radix^0 = 1
    /\ \A k \in 1..(2 * Word) : Radix^k = Radix * Radix^(k - 1)
    /\ \A k \in 0..(2 * Word) : Radix^k \in Nat \ {0}
    /\ Gnu \in Seq(RawByte)

Classes == {"Elf32", "Elf64"}
Orders  == {"Little", "Big"}

(* The bytes of an address or a size in the class's tables.                  *)
NativeSize(class) == IF class = "Elf64" THEN 2 * Word ELSE Word

-----------------------------------------------------------------------------
(* Numbers: Endian::u32_bytes, u64_bytes and i64_bytes, and back. Digits     *)
(* that do not fit are cut off (low32), also those of a negative number.     *)

Place(k, size, order) == Radix^(IF order = "Little" THEN k - 1 ELSE size - k)

Uncut(n, size, order) ==                 \* a fault: the digits are not cut off
    [k \in 1..size |-> <<n \div Place(k, size, order)>>]
Digits(n, size, order) ==
    [k \in 1..size |-> <<(n \div Place(k, size, order)) % Radix>>]

(* The value of a byte; that of a byte of a header is not said.              *)
Value(byte) == IF byte \in RawByte THEN byte[1] ELSE CHOOSE d \in Datum : TRUE

NumberAt(data, offset, size, order) ==
    LET upTo[k \in 0..size] ==
            IF k = 0 THEN 0
            ELSE upTo[k - 1] + (Value(data[offset + k]) * Place(k, size, order))
    IN  upTo[size]

Signed(n, size) == IF 2 * n < Radix^size THEN n ELSE n - Radix^size

-----------------------------------------------------------------------------
(* StringTable::get.                                                         *)

StringEnd(bytes, offset) ==
    CHOOSE end \in offset..Len(bytes) :
        /\ \A p \in (offset + 1)..end : bytes[p] # Zero
        /\ end = Len(bytes) \/ bytes[end + 1] = Zero

StringFrom(bytes, offset) == SubSeq(bytes, offset + 1, StringEnd(bytes, offset))

-----------------------------------------------------------------------------
(* DynamicTable::parse and needed.                                           *)

DtNull   == 0
DtNeeded == 1
DtStrtab == 5
DtStrsz  == 10

DynamicRows(data, class, order) ==
    LET size == NativeSize(class)
    IN  [i \in 1..(Len(data) \div (2 * size)) |->
            [tag   |-> NumberAt(data, 2 * size * (i - 1), size, order),
             value |-> NumberAt(data, (2 * size * (i - 1)) + size, size, order)]]

(* The entries before the first DT_NULL.                                     *)
BeforeNull(rows) ==
    SubSeq(rows, 1, CHOOSE n \in 0..Len(rows) :
                        /\ \A i \in 1..n : rows[i].tag # DtNull
                        /\ n = Len(rows) \/ rows[n + 1].tag = DtNull)

(* Entries that point outside the string table are passed over.              *)
Needed(entries, strings) ==
    LET named == Chosen(entries, {i \in 1..Len(entries) : /\ entries[i].tag = DtNeeded
                                                          /\ entries[i].value <= Len(strings)})
    IN  [i \in 1..Len(named) |-> StringFrom(strings, named[i].value)]

-----------------------------------------------------------------------------
(* RelocationSection::parse. The info word has the symbol above the type.    *)

TypeSpan(class) == IF class = "Elf64" THEN Radix^Word ELSE Radix

RelocationSize(class, isRela) == NativeSize(class) * (IF isRela THEN 3 ELSE 2)

RelocationAt(data, at, isRela, class, order) ==
    LET size == NativeSize(class)
        info == NumberAt(data, at + size, size, order)
    IN  [offset |-> NumberAt(data, at, size, order),
         symbol |-> (info \div TypeSpan(class)) % Radix^Word,
         type   |-> info % TypeSpan(class),
         addend |-> IF isRela
                    THEN {Signed(NumberAt(data, at + (2 * size), size, order), size)}
                    ELSE {}]

RelocationEntries(data, isRela, class, order) ==
    LET size == RelocationSize(class, isRela)
    IN  [i \in 1..(Len(data) \div size) |->
            RelocationAt(data, size * (i - 1), isRela, class, order)]

-----------------------------------------------------------------------------
(* SymbolTable::parse and ElfImage::exports.                                 *)

SymbolSize(class) == Word + 2 + Half + (2 * NativeSize(class))

SymbolAt(data, at, strings, class, order) ==
    LET size  == NativeSize(class)
        wide  == class = "Elf64"
        bits  == at + Word + (IF wide THEN 0 ELSE 2 * size)
        value == at + Word + (IF wide THEN 2 + Half ELSE 0)
        name  == NumberAt(data, at, Word, order)
    IN  [name  |-> IF name <= Len(strings) THEN StringFrom(strings, name) ELSE <<>>,
         value |-> NumberAt(data, value, size, order),
         size  |-> NumberAt(data, value + size, size, order),
         bind  |-> Value(data[bits + 1]) \div Nibble,
         type  |-> Value(data[bits + 1]) % Nibble,
         visibility |-> Value(data[bits + 2]) % 4,
         shndx |-> NumberAt(data, bits + 2, Half, order)]

Symbols(data, strings, class, order) ==
    [i \in 1..(Len(data) \div SymbolSize(class)) |->
        SymbolAt(data, SymbolSize(class) * (i - 1), strings, class, order)]

(* Defined, and global or weak.                                              *)
IsExported(symbol) == symbol.shndx # 0 /\ symbol.bind \in {1, 2}

-----------------------------------------------------------------------------
(* Note::parse_all, of runs that end with their padding. (NoteWalk has the   *)
(* walk step by step, and runs that end anywhere.)                           *)

GnuBuildId == 3

Padding(length) == (Word - (length % Word)) % Word

Trimmed(bytes) ==
    IF bytes # <<>> /\ bytes[Len(bytes)] = Zero
    THEN SubSeq(bytes, 1, Len(bytes) - 1) ELSE bytes

NotesIn(data, order) ==
    LET word(at, k) == NumberAt(data, at + (k * Word), Word, order)
        nameEnd(at) == at + (3 * Word) + word(at, 0)
        start(at)   == nameEnd(at) + Padding(word(at, 0))
        end(at)     == start(at) + word(at, 1)
        note(at)    == [name       |-> Trimmed(SubSeq(data, at + (3 * Word) + 1, nameEnd(at))),
                        type       |-> word(at, 2),
                        descriptor |-> SubSeq(data, start(at) + 1, end(at))]
        from[at \in 0..(Len(data) + Word)] ==
            IF at + (3 * Word) > Len(data) \/ end(at) > Len(data) THEN <<>>
            ELSE <<note(at)>> \o from[end(at) + Padding(word(at, 1))]
    IN  from[0]

-----------------------------------------------------------------------------
(* The accessors: the first segment of a type, the first section of a name,  *)
(* and what they hold.                                                       *)

FirstSegment(im, type) ==
    {im.segments[i] : i \in {j \in 1..Len(im.segments) :
        /\ im.segments[j].header.type = type
        /\ \A k \in 1..(j - 1) : im.segments[k].header.type # type}}

SectionByName(im, name) ==
    {im.sections[i] : i \in {j \in 1..Len(im.sections) :
        im.sections[j].name = name /\ \A k \in 1..(j - 1) : im.sections[k].name # name}}

(* The bytes of the section of that name; none without one.                  *)
DataOf(im, name) ==
    IF SectionByName(im, name) = {} THEN <<>>
    ELSE (CHOOSE s \in SectionByName(im, name) : TRUE).data

OfType(list, type) == Chosen(list, {i \in 1..Len(list) : list[i].header.type = type})

(* dynamic, needed_libraries: an error is the empty set.                     *)
NeededLibraries(im, dynstr, class, order) ==
    LET table == FirstSegment(im, "DYNAMIC")
    IN  IF table = {} THEN {<<>>}
        ELSE {Needed(BeforeNull(DynamicRows(s.data, class, order)), DataOf(im, dynstr)) :
                 s \in {t \in table : Len(t.data) % (2 * NativeSize(class)) = 0}}

(* relocations: one table for each section, in order, or an error.           *)
IsTable(section) == section.header.type \in {"REL", "RELA"}
IsRela(section)  == section.header.type = "RELA"

Malformed(section, class) ==
    Len(section.data) % RelocationSize(class, IsRela(section)) # 0

RelocationTables(im, class, order) ==
    LET tables == Chosen(im.sections, {i \in 1..Len(im.sections) : IsTable(im.sections[i])})
    IN  IF \E i \in 1..Len(tables) : Malformed(tables[i], class) THEN {}
        ELSE {[i \in 1..Len(tables) |->
                  RelocationEntries(tables[i].data, IsRela(tables[i]), class, order)]}

(* notes: those of the NOTE segments or, when there is none, of the NOTE     *)
(* sections.                                                                 *)
SegmentsAndSections(im) ==               \* a fault: reads both
    OfType(im.segments, "NOTE") \o OfType(im.sections, "NOTE")
NoteRuns(im) ==
    LET mapped == OfType(im.segments, "NOTE")
    IN  IF mapped # <<>> THEN mapped ELSE OfType(im.sections, "NOTE")

Notes(im, order) ==
    LET runs == NoteRuns(im)
    IN  Joined([i \in 1..Len(runs) |-> NotesIn(runs[i].data, order)])

BuildId(im, order) ==
    LET list == Notes(im, order)
        ids  == {i \in 1..Len(list) : list[i].name = Gnu /\ list[i].type = GnuBuildId}
    IN  {list[i].descriptor : i \in {j \in ids : \A k \in ids : j <= k}}

(* tls.                                                                      *)
Tls(im) ==
    {[vaddr |-> s.header.vaddr, filesz |-> s.header.filesz, memsz |-> s.header.memsz,
      align |-> s.header.align] : s \in FirstSegment(im, "TLS")}

(* exports: of the table in one section, with the strings in another.        *)
Exports(im, dynsym, dynstr, class, order) ==
    IF Len(DataOf(im, dynsym)) % SymbolSize(class) # 0 THEN {}
    ELSE LET symbols == Symbols(DataOf(im, dynsym), DataOf(im, dynstr), class, order)
         IN  {Chosen(symbols, {i \in 1..Len(symbols) : IsExported(symbols[i])})}

=============================================================================
