---------------------------- MODULE MappedImage -----------------------------
(* ElfImage::to_mapped_image_at (src/src/elf/build.rs): one call serializes  *)
(* an image as the memory a loader would make of it at a base, segment by    *)
(* segment and relocation by relocation; and ElfImage::parse_mapped, which   *)
(* reads such memory back (src/src/elf/parse.rs).                            *)
EXTENDS ElfParse, ElfGeometry, ElfTables

CONSTANTS
    Mapped,      \* the images a call may be given
    Bases,       \* the bases it may be given
    Class, Order, \* the images' class and byte order
    Width,       \* relocation_width: the bytes of a relocated pointer (4 or 8)
    Relative     \* the relocation types of kind Relative on the images' machine

Entries(section) == RelocationEntries(section.data, IsRela(section), Class, Order)

RelativeEntries(im) ==
    UNION {{<<i, e>> : e \in {k \in 1..Len(Entries(im.sections[i])) :
                                 Entries(im.sections[i])[k].type \in Relative}} :
              i \in {j \in 1..Len(im.sections) : IsTable(im.sections[j])}}

OffsetOf(im, entry) == Entries(im.sections[entry[1]])[entry[2]].offset

(* Where the headers end in the mapped image.                                *)
HeadersEnd(im) == EhSize + (PhEntSize * Len(im.segments))

ASSUME MappedAssumption ==
    /\ Mapped \subseteq ElfImage
    /\ Bases \subseteq U64
    /\ Class \in Classes /\ Order \in Orders
    /\ Width \in 1..(2 * Word)
    /\ Relative \subseteq Nat

VARIABLES
    image,      \* self
    base,       \* the base asked for
    pc,         \* the loop or statement the call is at, or how it ended
    index,      \* the loop variable: a segment, or an entry of the table
    table,      \* the section whose relocations are being applied
    mem         \* the mapped image

vars == <<image, base, pc, index, table, mem>>

Preferred == ImageBase(image.segments)

Init ==
    /\ image \in Mapped /\ base \in Bases \cup {Preferred}
    /\ pc = "allocate" /\ index = 1 /\ table = 1
    /\ mem = <<>>

-----------------------------------------------------------------------------
(* Segments and headers.                                                     *)

Allocate ==
    /\ pc = "allocate"
    /\ IF ImageSpan(image.segments) > MaxImage
       THEN pc' = "error" /\ UNCHANGED mem
       ELSE pc' = "segments" /\ mem' = Zeros(ImageSpan(image.segments))
    /\ UNCHANGED <<image, base, index, table>>

(* A fault: counts from the lowest segment, not from its page.               *)
UnroundedDestination(segment) ==
    segment.header.vaddr
        - Least({segment.header.vaddr} \cup {h.vaddr : h \in LoadRecords(image.segments)})

Destination(segment) == segment.header.vaddr - Preferred

SkipSegment ==
    /\ pc = "segments" /\ index <= Len(image.segments)
    /\ \/ ~IsLoad(image.segments[index])
       \/ Destination(image.segments[index]) < 0
    /\ index' = index + 1
    /\ UNCHANGED <<image, base, pc, table, mem>>

(* What of a segment is placed: its data, also behind p_filesz.              *)
FileBytes(segment) ==                    \* a fault
    SubSeq(segment.data, 1, Minimum(segment.header.filesz, Len(segment.data)))
PlacedBytes(segment) == segment.data

(* The bytes that fit behind start, copied over what is there.               *)
Overlaid(m, start, bytes) ==
    [p \in 1..Len(m) |->
        IF p \in start + 1..start + Len(bytes) THEN bytes[p - start] ELSE m[p]]

PlaceSegment ==
    /\ pc = "segments" /\ index <= Len(image.segments)
    /\ LET segment == image.segments[index]
           start   == Destination(segment)
       IN  /\ IsLoad(segment) /\ start >= 0
           /\ IF start <= Len(mem)
              THEN /\ mem' = Overlaid(mem, start, PlacedBytes(segment))
                   /\ index' = index + 1
                   /\ UNCHANGED pc
              ELSE /\ pc' = "panic"      \* image[start..start] is out of range
                   /\ UNCHANGED <<index, mem>>
    /\ UNCHANGED <<image, base, table>>

StaleHeader(im) == im.header             \* a fault: keeps the old table's place
MappedHeader(im) ==
    [im.header EXCEPT !.phoff = EhSize,
                      !.phnum = IF Len(im.segments) <= U16Max THEN Len(im.segments) ELSE 0]

HeaderBytes(im) ==
    Encoded(MappedHeader(im), EhSize)
    \o EncodedTable([i \in 1..Len(im.segments) |-> im.segments[i].header], PhEntSize)

WriteHeaders ==
    /\ pc = "segments" /\ index > Len(image.segments)
    /\ mem' = Overlaid(mem, 0, HeaderBytes(image))
    /\ pc' = IF base = Preferred THEN "done" ELSE "tables"
    /\ UNCHANGED <<image, base, index, table>>

-----------------------------------------------------------------------------
(* apply_relative_relocations.                                               *)

ParseTables ==
    /\ pc = "tables"
    /\ pc' = IF \E i \in 1..Len(image.sections) :
                    IsTable(image.sections[i]) /\ Malformed(image.sections[i], Class)
             THEN "error" ELSE "relocate"
    /\ index' = 1
    /\ UNCHANGED <<image, base, table, mem>>

AtEntry ==
    /\ pc = "relocate" /\ table <= Len(image.sections)
    /\ IsTable(image.sections[table])
    /\ index <= Len(Entries(image.sections[table]))

Entry == Entries(image.sections[table])[index]
Start == Entry.offset - Preferred

SkipEntry ==
    /\ AtEntry
    /\ \/ Entry.type \notin Relative
       \/ Start < 0
       \/ Start + Width <= U64Max /\ Start + Width > Len(mem)
    /\ index' = index + 1
    /\ UNCHANGED <<image, base, pc, table, mem>>

OverflowingEntry ==                      \* start + width overflows
    /\ AtEntry
    /\ Entry.type \in Relative /\ Start >= 0
    /\ Start + Width > U64Max
    /\ pc' = "panic"
    /\ UNCHANGED <<image, base, index, table, mem>>

Rebiased(stored) == stored + Preferred - base      \* a fault: the wrong way
Relocated(stored) == stored + base - Preferred     \* wraps at the word's width

ApplyEntry ==
    /\ AtEntry
    /\ Entry.type \in Relative
    /\ Start >= 0 /\ Start + Width <= Len(mem)
    /\ mem' = Overlaid(mem, Start,
                  Digits(Relocated(NumberAt(mem, Start, Width, Order)), Width, Order))
    /\ index' = index + 1
    /\ UNCHANGED <<image, base, pc, table>>

NextTable ==
    /\ pc = "relocate" /\ table <= Len(image.sections)
    /\ ~AtEntry
    /\ table' = table + 1 /\ index' = 1
    /\ UNCHANGED <<image, base, pc, mem>>

Finish ==
    /\ pc = "relocate" /\ table > Len(image.sections)
    /\ pc' = "done"
    /\ UNCHANGED <<image, base, index, table, mem>>

Returned == pc \in {"done", "error", "panic"} /\ UNCHANGED vars

Next ==
    \/ Allocate \/ SkipSegment \/ PlaceSegment \/ WriteHeaders
    \/ ParseTables \/ SkipEntry \/ OverflowingEntry \/ ApplyEntry \/ NextTable \/ Finish
    \/ Returned

Spec == Init /\ [][Next]_vars

-----------------------------------------------------------------------------
(* read_mapped_layout: a loadable segment is read to its memory size, zeros  *)
(* where the memory ends.                                                    *)

MappedLength(h) == IF h.type = "LOAD" THEN h.memsz ELSE h.filesz
MappedEmpty(h)  == h.type = "NULL" \/ MappedLength(h) = 0

Lenient(m, start, n) ==
    [k \in 1..n |-> IF start + k <= Len(m) THEN m[start + k] ELSE Zero]

ReadMappedSegment(m, h, from) ==
    [header |-> h,
     data   |-> IF MappedEmpty(h) THEN <<>>
                ELSE Lenient(m, SatSub(h.vaddr, from), MappedLength(h))]

MappedParses(m) ==
    /\ Decodes(m, 0, EhSize)
    /\ DecodesTable(m, Ehdr(m).phoff, Ehdr(m).phnum, PhEntSize)
    /\ \A i \in 1..Ehdr(m).phnum :
           LET h == ProgramHeaders(m)[i]
           IN  MappedEmpty(h) \/ MappedLength(h) <= Minimum(Len(m), MaxImage)

(* read_mapped_sections, from the headers found in the memory.               *)

(* A fault: takes the address for a position.                                *)
AddressStart(h, from) == IF h.alloc THEN h.addr ELSE h.offset
MappedStart(h, from) == IF h.alloc THEN SatSub(h.addr, from) ELSE h.offset

(* checked_alloc refuses the size: the section is passed over.               *)
Refused(m, h) == h.type # "NOBITS" /\ h.size > Minimum(Len(m), MaxImage)

MappedNames(m, headers, from) ==
    LET i == Ehdr(m).shstrndx + 1
    IN  IF i <= Len(headers) /\ headers[i].type = "STRTAB" /\ ~Refused(m, headers[i])
        THEN Lenient(m, MappedStart(headers[i], from), headers[i].size)
        ELSE <<>>

(* The headers not refused, in order.                                        *)
KeptHeaders(m, headers) ==
    Chosen(headers, {i \in 1..Len(headers) : ~Refused(m, headers[i])})

ReadMappedSections(m, headers, from) ==
    LET kept == KeptHeaders(m, headers)
    IN  [i \in 1..Len(kept) |->
            [name   |-> NameAt(MappedNames(m, headers, from), kept[i].nameIndex),
             header |-> kept[i],
             data   |-> Lenient(m, MappedStart(kept[i], from),
                                IF kept[i].type = "NOBITS" THEN 0 ELSE kept[i].size)]]

LowestAddress(m) ==                      \* a fault: not rounded to a page
    Least({0} \cup {ProgramHeaders(m)[i].vaddr : i \in 1..Ehdr(m).phnum})
MappedBase(m) ==
    Base({h \in {ProgramHeaders(m)[i] : i \in 1..Ehdr(m).phnum} :
              h.type = "LOAD" /\ h.memsz # 0})

ParsedMapped(m, headers) ==
    [header   |-> Ehdr(m),
     segments |-> [i \in 1..Ehdr(m).phnum |->
                      ReadMappedSegment(m, ProgramHeaders(m)[i], MappedBase(m))],
     sections |-> ReadMappedSections(m, headers, MappedBase(m))]

-----------------------------------------------------------------------------
(* What the memory of a mapped image is, address by address.                 *)

(* The loadable segments that put a byte at position p.                      *)
PlacedAt(im, p) ==
    {i \in 1..Len(im.segments) :
        LET start == im.segments[i].header.vaddr - ImageBase(im.segments)
        IN  /\ IsLoad(im.segments[i])
            /\ start >= 0 /\ start < p /\ p <= start + Len(im.segments[i].data)}

(* Headers first, then the last segment in the table that has the byte.      *)
Loaded(im) ==
    [p \in 1..ImageSpan(im.segments) |->
        IF p <= Len(HeaderBytes(im)) THEN HeaderBytes(im)[p]
        ELSE IF PlacedAt(im, p) = {} THEN Zero
        ELSE LET s == im.segments[Greatest(PlacedAt(im, p))]
             IN  s.data[p - (s.header.vaddr - ImageBase(im.segments))]]

(* At the preferred base the result is the memory a loader would make: every *)
(* byte of a loadable segment at its address, zeros up to its memory size,   *)
(* except where the headers or another segment lie (build.rs:141-191).       *)
LoadsInMemory ==
    pc = "done" /\ base = Preferred =>
        \A i \in 1..Len(image.segments) :
            LET s     == image.segments[i]
                start == s.header.vaddr - Preferred
            IN  IsLoad(s) /\ start >= 0 =>
                    \A k \in 1..s.header.memsz :
                        /\ start + k \in HeadersEnd(image) + 1..Len(mem)
                        /\ PlacedAt(image, start + k) \subseteq {i}
                        => mem[start + k] = IF k <= Len(s.data) THEN s.data[k] ELSE Zero

(* The words the relative relocations name, as positions in the memory.      *)
WordAt(im, entry) ==
    LET start == OffsetOf(im, entry) - ImageBase(im.segments)
    IN  IF start >= 0 /\ start + Width <= Len(mem)
        THEN start + 1..start + Width ELSE {}

(* Rebasing adds the base change to every stored pointer, once: a word named *)
(* by one relative relocation moves by exactly the change, carries included, *)
(* and a byte that no relative relocation names keeps the value it has at    *)
(* the preferred base, whatever the order of tables and entries              *)
(* (build.rs:203-240, features.rs:1071-1138).                                *)
PointersShiftOnce ==
    pc = "done" =>
        LET was   == Loaded(image)
            words == RelativeEntries(image)
        IN  /\ \A p \in 1..Len(mem) :
                   base = Preferred \/ (\A w \in words : p \notin WordAt(image, w)) =>
                       mem[p] = was[p]
            /\ base # Preferred =>
                   \A w \in words :
                       LET start == OffsetOf(image, w) - Preferred
                       IN  /\ WordAt(image, w) # {}
                           /\ \A v \in words \ {w} : WordAt(image, v) \cap WordAt(image, w) = {}
                           => (NumberAt(mem, start, Width, Order) + Preferred - base
                                   - NumberAt(was, start, Width, Order))
                                  % Radix^Width = 0

(* The positions are all in the memory of loadable segments.                 *)
InSegments(im, positions) ==
    \A p \in positions : \E i \in 1..Len(im.segments) :
        LET s     == im.segments[i]
            start == s.header.vaddr - ImageBase(im.segments)
        IN  IsLoad(s) /\ start < p /\ p <= start + s.header.memsz

Mappable(im) ==
    /\ HeadersEnd(im) <= ImageSpan(im.segments)
    /\ Len(im.segments) <= U16Max
    /\ \A i \in 1..Len(im.segments) :
           LET s == im.segments[i]
           IN  /\ IsLoad(s) => Len(s.data) <= s.header.memsz
               /\ MappedLength(s.header) <= ImageSpan(im.segments)
    /\ \A entry \in RelativeEntries(im) :
           /\ InSegments(im, WordAt(im, entry))
           /\ WordAt(im, entry) \cap 1..HeadersEnd(im) = {}

(* A mapped image, rebased or not, can be read back as one, and mapping what *)
(* was read again gives the same memory: nothing is lost or moved between    *)
(* to_mapped_image_at and parse_mapped, when the headers fit, no segment has *)
(* more bytes than memory and none is longer than the image, and pointers    *)
(* are relocated only in segments and not in the headers.                    *)
MappingIsStable ==
    pc = "done" /\ Mappable(image) =>
        MappedParses(mem) /\ Loaded(ParsedMapped(mem, <<>>)) = mem

(* "Returns Error when the mapped layout cannot be formed" (build.rs:147-149)*)
(* is all the documentation says of failure: the call returns.               *)
NeverPanics == pc # "panic"

=============================================================================
