----------------------------- MODULE FileLayout -----------------------------
(* ElfImage::try_build (src/src/elf/build.rs): one call serializes an image  *)
(* to file layout. Each iteration of its loops, and each piece of straight   *)
(* code between them, is one action. The call reads `image` and leaves it    *)
(* alone; it works on copies of the program headers and of the sections.     *)
EXTENDS ElfFormat

CONSTANT Images            \* the images a call may be given

ASSUME ImagesAssumption == Images \subseteq ElfImage

VARIABLES
    image,      \* self
    pc,         \* the loop or statement the call is at; "done" or "error" at its end
    index,      \* the loop variable, counted from 1
    cursor,     \* the first file offset not yet given out
    out,        \* the bytes written so far
    phdrs,      \* the program headers to write
    sections,   \* the working copy of the sections
    shstrndx,   \* the index of the section-name string table
    blob,       \* the section-name strings collected so far
    offsets,    \* the offset in blob of each section's name
    header      \* the ELF header to write

layout == <<cursor, out>>
names  == <<blob, offsets>>
vars   == <<image, pc, index, layout, phdrs, sections, shstrndx, names, header>>

(* Where the ELF header and the program header table end.                    *)
TablesEnd == EhSize + PhEntSize * Len(image.segments)

(* The program headers as the image has them.                                *)
ImageHeaders == [i \in 1..Len(image.segments) |-> image.segments[i].header]

Begin ==
    /\ pc = "segments" /\ index = 1
    /\ cursor = TablesEnd
    /\ out = Zeros(EhSize)
    /\ phdrs = ImageHeaders
    /\ sections = image.sections
    /\ shstrndx = 0
    /\ blob = <<>> /\ offsets = <<>>
    /\ header = image.header

Init == image \in Images /\ Begin

(* Another call, on another image.                                           *)
Restart(im) ==
    /\ image' = im
    /\ pc' = "segments" /\ index' = 1
    /\ cursor' = EhSize + PhEntSize * Len(im.segments)
    /\ out' = Zeros(EhSize)
    /\ phdrs' = [i \in 1..Len(im.segments) |-> im.segments[i].header]
    /\ sections' = im.sections
    /\ shstrndx' = 0
    /\ blob' = <<>> /\ offsets' = <<>>
    /\ header' = im.header

-----------------------------------------------------------------------------
(* Segments.                                                                 *)

(* The part of a segment's data that its p_filesz admits to the file.        *)
Writable(segment) == Minimum(segment.header.filesz, Len(segment.data))

SegmentBytes(segment) == SubSeq(segment.data, 1, Writable(segment))

(* A fault: aligns the offset and forgets the address.                       *)
AlignedOffset(c, segment) == AlignUp(c, Maximum(segment.header.align, 1))

(* The file offset a segment gets when the cursor is at c.                   *)
SegmentOffset(c, segment) ==
    Congruent(c, segment.header.vaddr,
              IF IsLoad(segment) THEN Maximum(segment.header.align, 1) ELSE 1)

(* A program header moved to where its bytes were written.                   *)
PhdrAt(phdr, offset, filesz) == [phdr EXCEPT !.offset = offset, !.filesz = filesz]

(* A write_at past the limit, or a count past u16, ends the call.            *)
Fail == /\ pc' = "error"
        /\ UNCHANGED <<image, index, layout, phdrs, sections, shstrndx, names, header>>

SkipSegment ==
    /\ pc = "segments" /\ index <= Len(image.segments)
    /\ Writable(image.segments[index]) = 0
    /\ phdrs' = [phdrs EXCEPT ![index] = PhdrAt(phdrs[index], 0, 0)]
    /\ index' = index + 1
    /\ UNCHANGED <<image, pc, layout, sections, shstrndx, names, header>>

PlaceSegment ==
    /\ pc = "segments" /\ index <= Len(image.segments)
    /\ LET segment == image.segments[index]
           offset  == SegmentOffset(cursor, segment)
           bytes   == SegmentBytes(segment)
       IN  /\ bytes # <<>>
           /\ IF Fits(offset, bytes)
              THEN /\ phdrs' = [phdrs EXCEPT ![index] =
                                    PhdrAt(phdrs[index], offset, Len(bytes))]
                   /\ out' = WriteAt(out, offset, bytes)
                   /\ cursor' = offset + Len(bytes)
                   /\ index' = index + 1
                   /\ UNCHANGED <<image, pc, sections, shstrndx, names, header>>
              ELSE Fail

-----------------------------------------------------------------------------
(* Section names: ensure_shstrtab, then assign_name_offsets.                 *)

IsShstrtab(section) ==
    section.name = Shstrtab /\ section.header.type = "STRTAB"

NewShstrtab ==
    [name   |-> Shstrtab, data |-> <<>>,
     header |-> [nameIndex |-> 0, type |-> "STRTAB", alloc |-> FALSE, addr |-> 0,
                 offset |-> 0, size |-> 0, addralign |-> 1]]

IsFirstShstrtab(i) ==
    IsShstrtab(sections[i]) /\ \A j \in 1..(i - 1) : ~IsShstrtab(sections[j])

AppendedAt(at) ==                        \* a fault: does not look for one
    at = Len(sections) + 1 /\ sections' = Append(sections, NewShstrtab)

(* The first .shstrtab, or one appended to a non-empty table.                *)
ShstrtabAt(at) ==
    \/ /\ at \in 1..Len(sections) /\ IsFirstShstrtab(at)
       /\ UNCHANGED sections
    \/ /\ at = Len(sections) + 1 /\ \A i \in 1..Len(sections) : ~IsShstrtab(sections[i])
       /\ sections' = Append(sections, NewShstrtab)

EnsureShstrtab ==
    /\ pc = "segments" /\ index > Len(image.segments)
    /\ index' = 1
    /\ \/ /\ sections = <<>>
          /\ pc' = "phdrs"
          /\ UNCHANGED <<sections, shstrndx>>
       \/ /\ sections # <<>>
          /\ pc' = "names"
          /\ \E at \in 1..(Len(sections) + 1) :
                 /\ ShstrtabAt(at)
                 /\ shstrndx' = IF at - 1 <= U16Max THEN at - 1 ELSE 0
    /\ blob' = <<Zero>> /\ offsets' = <<>>
    /\ UNCHANGED <<image, layout, phdrs, header>>

CollectName ==
    /\ pc = "names" /\ index <= Len(sections)
    /\ offsets' = Append(offsets, Len(blob))
    /\ blob' = Append(blob \o NameBytes[sections[index].name], Zero)
    /\ index' = index + 1
    /\ UNCHANGED <<image, pc, layout, phdrs, sections, shstrndx, header>>

(* A fault: gives the name table its size and not its bytes.                 *)
NamedWithoutBlob(section, offset) ==
    [section EXCEPT !.header.nameIndex = offset, !.header.size = Len(blob)]

Named(section, offset) ==
    IF IsShstrtab(section)
    THEN [section EXCEPT !.header.nameIndex = offset, !.header.size = Len(blob),
                         !.data = blob]
    ELSE [section EXCEPT !.header.nameIndex = offset]

AssignNames ==
    /\ pc = "names" /\ index > Len(sections)
    /\ sections' = [i \in 1..Len(sections) |-> Named(sections[i], offsets[i])]
    /\ pc' = "sections" /\ index' = 1
    /\ UNCHANGED <<image, layout, phdrs, shstrndx, names, header>>

-----------------------------------------------------------------------------
(* Section data.                                                             *)

MovedOnly(section, offset) ==           \* a fault: leaves sh_size as it was
    [section EXCEPT !.header.offset = offset]

SectionAt(section, offset) ==
    [section EXCEPT !.header.offset = offset, !.header.size = Len(section.data)]

SkipSection ==
    /\ pc = "sections" /\ index <= Len(sections)
    /\ \/ /\ IsNobits(sections[index])
          /\ UNCHANGED sections
       \/ /\ ~IsNobits(sections[index]) /\ sections[index].data = <<>>
          /\ sections' = [sections EXCEPT ![index] =
                             SectionAt(sections[index], sections[index].header.offset)]
    /\ index' = index + 1
    /\ UNCHANGED <<image, pc, layout, phdrs, shstrndx, names, header>>

PlaceSection ==
    /\ pc = "sections" /\ index <= Len(sections)
    /\ LET section == sections[index]
           offset  == AlignUp(cursor, Maximum(section.header.addralign, 1))
       IN  /\ ~IsNobits(section) /\ section.data # <<>>
           /\ IF Fits(offset, section.data)
              THEN /\ sections' = [sections EXCEPT ![index] = SectionAt(section, offset)]
                   /\ out' = WriteAt(out, offset, section.data)
                   /\ cursor' = offset + Len(section.data)
                   /\ index' = index + 1
                   /\ UNCHANGED <<image, pc, phdrs, shstrndx, names, header>>
              ELSE Fail

SectionsPlaced ==
    /\ pc = "sections" /\ index > Len(sections)
    /\ pc' = "phdrs"
    /\ UNCHANGED <<image, index, layout, phdrs, sections, shstrndx, names, header>>

-----------------------------------------------------------------------------
(* The three headers.                                                        *)

WriteProgramHeaders ==
    /\ pc = "phdrs"
    /\ LET table == EncodedTable(phdrs, PhEntSize)
       IN  IF Fits(EhSize, table)
           THEN /\ out' = WriteAt(out, EhSize, table)
                /\ pc' = "header"
                /\ UNCHANGED <<image, index, cursor, phdrs, sections, shstrndx,
                               names, header>>
           ELSE Fail

ShdrTableOffset == AlignUp(cursor, 8)

AnyCount  == TRUE                       \* a fault: the counts wrap
CountsFit == Len(phdrs) <= U16Max /\ Len(sections) <= U16Max

(* A fault: e_shoff is the cursor, the table is written where it aligns.     *)
FilledUnaligned ==
    [header EXCEPT !.phoff = EhSize, !.phnum = Len(phdrs), !.shnum = Len(sections),
                   !.shstrndx = shstrndx,
                   !.shoff = IF sections = <<>> THEN 0 ELSE cursor]

Filled ==
    [header EXCEPT !.phoff = EhSize, !.phnum = Len(phdrs), !.shnum = Len(sections),
                   !.shstrndx = shstrndx,
                   !.shoff = IF sections = <<>> THEN 0 ELSE ShdrTableOffset]

FillHeader ==
    /\ pc = "header"
    /\ IF CountsFit
       THEN /\ header' = Filled
            /\ pc' = "shdrs"
            /\ UNCHANGED <<image, index, layout, phdrs, sections, shstrndx, names>>
       ELSE Fail

SectionHeaders == [i \in 1..Len(sections) |-> sections[i].header]

WriteSectionHeaders ==
    /\ pc = "shdrs"
    /\ LET table == EncodedTable(SectionHeaders, ShEntSize)
       IN  \/ /\ sections = <<>>
              /\ pc' = "ehdr"
              /\ UNCHANGED <<image, index, layout, phdrs, sections, shstrndx, names, header>>
           \/ /\ sections # <<>>
              /\ IF Fits(ShdrTableOffset, table)
                 THEN /\ out' = WriteAt(out, ShdrTableOffset, table)
                      /\ pc' = "ehdr"
                      /\ UNCHANGED <<image, index, cursor, phdrs, sections, shstrndx,
                                     names, header>>
                 ELSE Fail

WriteHeader ==
    /\ pc = "ehdr"
    /\ out' = WriteAt(out, 0, Encoded(header, EhSize))
    /\ pc' = "done"
    /\ UNCHANGED <<image, index, cursor, phdrs, sections, shstrndx, names, header>>

Returned == pc \in {"done", "error"} /\ UNCHANGED vars

Next ==
    \/ SkipSegment \/ PlaceSegment
    \/ EnsureShstrtab \/ CollectName \/ AssignNames
    \/ SkipSection \/ PlaceSection \/ SectionsPlaced
    \/ WriteProgramHeaders \/ FillHeader \/ WriteSectionHeaders \/ WriteHeader
    \/ Returned

Spec == Init /\ [][Next]_vars

-----------------------------------------------------------------------------
(* What a finished call promises.                                            *)

TypeOK ==
    /\ image \in ElfImage
    /\ pc \in {"segments", "names", "sections", "phdrs", "header", "shdrs", "ehdr",
               "done", "error"}
    /\ index \in Nat \ {0} /\ cursor \in Nat
    /\ out \in Seq(Byte)
    /\ phdrs \in Seq(Phdr) /\ Len(phdrs) = Len(image.segments)
    /\ sections \in Seq(Section)
    /\ shstrndx \in 0..U16Max
    /\ blob \in Seq(RawByte) /\ offsets \in Seq(Nat)
    /\ header \in ElfHeader

(* Every segment's file bytes are in the file at the p_offset its program    *)
(* header gives, and p_filesz counts exactly them: no later segment, section *)
(* or header table has overwritten one (try_build, build.rs:45-63).          *)
SegmentsStored ==
    pc = "done" =>
        \A i \in 1..Len(image.segments) :
            LET bytes == SegmentBytes(image.segments[i])
            IN  /\ phdrs[i].filesz = Len(bytes)
                /\ bytes # <<>> => HoldsAt(out, phdrs[i].offset, bytes)

(* Every section of the image that occupies file bytes is in the file at the *)
(* sh_offset its section header gives, and sh_size counts exactly them; only *)
(* the section-name table is replaced (try_build, build.rs:65-83).           *)
SectionsStored ==
    pc = "done" =>
        \A i \in 1..Len(image.sections) :
            LET section == image.sections[i]
            IN  ~IsNobits(section) /\ ~IsShstrtab(section) =>
                    /\ sections[i].header.size = Len(section.data)
                    /\ section.data # <<>> =>
                           HoldsAt(out, sections[i].header.offset, section.data)

(* A reader that starts at offset 0 finds the final ELF header, and through  *)
(* e_phoff and e_shoff the two complete tables, although both tables were    *)
(* filled in while their area was shared with the data around them           *)
(* (try_build, build.rs:85-118).                                             *)
TablesStored ==
    pc = "done" =>
        /\ HoldsAt(out, 0, Encoded(header, EhSize))
        /\ header.phnum = Len(phdrs) /\ header.shnum = Len(sections)
        /\ HoldsAt(out, header.phoff, EncodedTable(phdrs, PhEntSize))
        /\ sections # <<>> =>
               HoldsAt(out, header.shoff, EncodedTable(SectionHeaders, ShEntSize))

(* A loader can map every file-backed loadable segment: its file offset and  *)
(* its address agree modulo its alignment (try_build's doc, build.rs:22-24). *)
(* One without file bytes has p_offset 0 and nothing to map.                 *)
LoadsCongruent ==
    pc = "done" =>
        \A i \in 1..Len(phdrs) :
            phdrs[i].type = "LOAD" /\ phdrs[i].filesz > 0 /\ phdrs[i].align > 1 =>
                phdrs[i].offset % phdrs[i].align = phdrs[i].vaddr % phdrs[i].align

(* The file never grows past the limit, whatever addresses, alignments and   *)
(* sizes the image claims, and also when their sums saturate (write_at,      *)
(* build.rs:305-320).                                                        *)
LimitRespected == Len(out) <= MaxImage

(* Once written behind the header tables, a byte of the file never changes:  *)
(* the cursor hands out each offset at most once (build.rs:58-62, 77-81).    *)
BytesAreFinal ==
    [][\A p \in (TablesEnd + 1)..Len(out) : p <= Len(out') /\ out'[p] = out[p]]_vars

(* Every section's sh_name resolves, through the string table e_shstrndx     *)
(* names, to that section's own name, also when the table was just added or  *)
(* is there twice (ensure_shstrtab, assign_name_offsets, build.rs:260-303).  *)
NamesResolve ==
    pc = "done" =>
        \A i \in 1..Len(sections) :
            /\ IsShstrtab(sections[header.shstrndx + 1])
            /\ StringAt(sections[header.shstrndx + 1].data,
                        sections[i].header.nameIndex, NameBytes[sections[i].name])

(* A fault: forgets that a section can be the last structure.                *)
EndsWithoutSections(ehdr, segmentHeaders, sectionHeaders) ==
    {EhSize, ehdr.phoff + ehdr.phnum * PhEntSize}
    \cup {h.offset + h.filesz : h \in segmentHeaders}

(* last_structure_end (src/src/elf_file.rs): one past the last byte the      *)
(* headers account for; an end past u64 is left out.                         *)
StructureEnds(ehdr, segmentHeaders, sectionHeaders) ==
    {EhSize}
    \cup {ehdr.phoff + ehdr.phnum * PhEntSize, ehdr.shoff + ehdr.shnum * ShEntSize}
    \cup {h.offset + h.filesz : h \in {g \in segmentHeaders : g.filesz > 0}}
    \cup {h.offset + h.size :
             h \in {g \in sectionHeaders : g.type # "NOBITS" /\ g.size > 0}}

IsLastStructureEnd(end, ends) ==
    end \in ends \cap U64 /\ \A other \in ends \cap U64 : other <= end

(* The file ends exactly where its own headers say the last structure ends,  *)
(* so that bytes appended after it are the trailing bytes ElfFile finds when *)
(* it reads the file back (elf_file.rs:104-108 and 126-172).                 *)
EndsAtLastStructure ==
    pc = "done" =>
        IsLastStructureEnd(Len(out),
            StructureEnds(header, {phdrs[i] : i \in 1..Len(phdrs)},
                          {sections[i].header : i \in 1..Len(sections)}))

-----------------------------------------------------------------------------
(* Why it holds: the strengthening of the promises to every step of a call.  *)

ShdrsWritten  == pc \in {"ehdr", "done"}
HeaderFilled  == pc = "shdrs" \/ ShdrsWritten
PhdrsWritten  == pc = "header" \/ HeaderFilled
SectionsBegun == pc \in {"sections", "phdrs"} \/ PhdrsWritten

(* Everything handed out so far lies between the tables and the cursor.      *)
CursorInv ==
    /\ EhSize <= Len(out)
    /\ cursor <= TablesEnd \/ cursor <= Len(out)
    /\ pc \in {"segments", "names", "sections", "phdrs", "header", "shdrs"} =>
           TablesEnd <= cursor /\ Len(out) <= cursor
    /\ pc = "segments" => index <= Len(image.segments) + 1
    /\ pc = "sections" => index <= Len(sections) + 1

SegmentsDone == IF pc = "segments" THEN index - 1 ELSE Len(image.segments)

SegmentPlaced(i) ==
    LET bytes == SegmentBytes(image.segments[i])
        ph    == phdrs[i]
    IN  /\ ph.filesz = Len(bytes)
        /\ bytes # <<>> =>
               /\ TablesEnd <= ph.offset
               /\ HoldsAt(out, ph.offset, bytes)
               /\ ph.type = "LOAD" /\ ph.align > 1 =>
                      ph.offset % ph.align = ph.vaddr % ph.align

SegmentsInv ==
    /\ \A i \in 1..Len(image.segments) :
           /\ phdrs[i].type  = image.segments[i].header.type
           /\ phdrs[i].vaddr = image.segments[i].header.vaddr
           /\ phdrs[i].align = image.segments[i].header.align
    /\ pc # "error" => \A i \in 1..SegmentsDone : SegmentPlaced(i)

(* The working copy: the image's sections, a table appended at most, and     *)
(* nothing but the name tables given other bytes.                            *)
SectionsKept ==
    /\ Len(image.sections) <= Len(sections)
    /\ \A i \in 1..Len(image.sections) :
           /\ sections[i].name = image.sections[i].name
           /\ sections[i].header.type = image.sections[i].header.type
           /\ ~IsShstrtab(image.sections[i]) => sections[i].data = image.sections[i].data
    /\ pc = "names" => Len(offsets) = index - 1 /\ index <= Len(sections) + 1

SectionsDone == IF pc = "sections" THEN index - 1 ELSE Len(sections)

SectionPlaced(i) ==
    LET section == sections[i]
    IN  ~IsNobits(section) =>
            /\ section.header.size = Len(section.data)
            /\ section.data # <<>> =>
                   /\ TablesEnd <= section.header.offset
                   /\ HoldsAt(out, section.header.offset, section.data)

SectionsInv ==
    /\ SectionsKept
    /\ SectionsBegun => \A i \in 1..SectionsDone : SectionPlaced(i)

TablesInv ==
    /\ PhdrsWritten => HoldsAt(out, EhSize, EncodedTable(phdrs, PhEntSize))
    /\ HeaderFilled =>
           /\ header.phoff = EhSize
           /\ header.phnum = Len(phdrs) /\ header.shnum = Len(sections)
           /\ sections # <<>> => header.shoff = ShdrTableOffset
    /\ ShdrsWritten /\ sections # <<>> =>
           /\ TablesEnd <= header.shoff
           /\ HoldsAt(out, header.shoff, EncodedTable(SectionHeaders, ShEntSize))
    /\ pc = "done" => HoldsAt(out, 0, Encoded(header, EhSize))

LayoutInv ==
    LimitRespected /\ CursorInv /\ SegmentsInv /\ SectionsInv /\ TablesInv

=============================================================================
