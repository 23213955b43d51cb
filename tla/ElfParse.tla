----------------------------- MODULE ElfParse -------------------------------
(* Reading an image back from the bytes of a file: ElfHeaders::read_from,    *)
(* ElfImage::parse in file layout (src/src/elf/parse.rs) and the section     *)
(* names.                                                                    *)
EXTENDS ElfFormat

(* The names a file can spell, the empty one among them.                     *)
ASSUME NamesAssumption ==
    /\ \E n \in Names : NameBytes[n] = <<>>
    /\ \A m, n \in Names : NameBytes[m] = NameBytes[n] => m = n

(* checked_len and ReadAt::read_bytes_at: no more bytes than the limit, and  *)
(* all of them in the file.                                                  *)
Readable(file, offset, n) == n <= MaxImage /\ offset + n <= Len(file)
BytesAt(file, offset, n)  == SubSeq(file, offset + 1, offset + n)

(* A record decoded from size bytes of the file. (Only bytes that a record   *)
(* was encoded to decode here.)                                              *)
Decodes(file, offset, size) ==
    /\ Readable(file, offset, size)
    /\ HoldsAt(file, offset, Encoded(file[offset + 1][1], size))
DecodedAt(file, offset) == file[offset + 1][1]

DecodesTable(file, offset, count, size) ==
    \A i \in 1..count : Decodes(file, offset + (i - 1) * size, size)
TableAt(file, offset, count, size) ==
    [i \in 1..count |-> DecodedAt(file, offset + (i - 1) * size)]

-----------------------------------------------------------------------------
(* Segments: a NULL entry and an entry with no file bytes have no data.      *)

SegmentEmpty(h) == h.type = "NULL" \/ h.filesz = 0

ReadSegment(file, h) ==
    [header |-> h,
     data   |-> IF SegmentEmpty(h) THEN <<>> ELSE BytesAt(file, h.offset, h.filesz)]

-----------------------------------------------------------------------------
(* Section names: section_names. Without a usable table every name is empty. *)

Empty == CHOOSE n \in Names : NameBytes[n] = <<>>

NameAt(table, offset) ==
    IF \E n \in Names : StringAt(table, offset, NameBytes[n])
    THEN CHOOSE n \in Names : StringAt(table, offset, NameBytes[n])
    ELSE Empty

NameTable(file, ehdr, headers) ==
    LET i == ehdr.shstrndx + 1
    IN  IF /\ i <= Len(headers) /\ headers[i].type = "STRTAB"
           /\ Readable(file, headers[i].offset, headers[i].size)
        THEN BytesAt(file, headers[i].offset, headers[i].size)
        ELSE <<>>

SectionEmpty(h) == h.type = "NOBITS" \/ h.size = 0

ReadSection(file, h, names) ==
    [name   |-> NameAt(names, h.nameIndex),
     header |-> h,
     data   |-> IF SectionEmpty(h) THEN <<>> ELSE BytesAt(file, h.offset, h.size)]

-----------------------------------------------------------------------------
(* read_file_layout and read_file_sections.                                  *)

Ehdr(file)             == DecodedAt(file, 0)
ProgramHeaders(file)   == TableAt(file, Ehdr(file).phoff, Ehdr(file).phnum, PhEntSize)
HasSections(file)      == Ehdr(file).shoff # 0 /\ Ehdr(file).shnum # 0
RawSectionHeaders(file) ==
    IF HasSections(file)
    THEN TableAt(file, Ehdr(file).shoff, Ehdr(file).shnum, ShEntSize) ELSE <<>>

SegmentsReadable(file) ==
    /\ DecodesTable(file, Ehdr(file).phoff, Ehdr(file).phnum, PhEntSize)
    /\ \A i \in 1..Ehdr(file).phnum :
           LET h == ProgramHeaders(file)[i]
           IN  SegmentEmpty(h) \/ Readable(file, h.offset, h.filesz)

SectionsReadable(file) ==
    HasSections(file) =>
        /\ DecodesTable(file, Ehdr(file).shoff, Ehdr(file).shnum, ShEntSize)
        /\ \A i \in 1..Ehdr(file).shnum :
               LET h == RawSectionHeaders(file)[i]
               IN  SectionEmpty(h) \/ Readable(file, h.offset, h.size)

(* ElfImage::parse returns an image, and which.                              *)
Parses(file) ==
    Decodes(file, 0, EhSize) /\ SegmentsReadable(file) /\ SectionsReadable(file)

Parsed(file) ==
    LET phs   == ProgramHeaders(file)
        shs   == RawSectionHeaders(file)
        names == NameTable(file, Ehdr(file), shs)
    IN  [header   |-> Ehdr(file),
         segments |-> [i \in 1..Len(phs) |-> ReadSegment(file, phs[i])],
         sections |-> [i \in 1..Len(shs) |-> ReadSection(file, shs[i], names)]]

=============================================================================
