--------------------------- MODULE MappedSession ----------------------------
(* An image in memory: serialized by to_mapped_image_at as MappedImage has   *)
(* it, read back by parse_mapped, edited by write_at_ioff, and mapped again, *)
(* at the same or another base. No section header is written to memory, so   *)
(* the section table found at e_shoff is whatever the segments have there.   *)
EXTENDS MappedImage, ElfAccess, FiniteSets

CONSTANTS
    Guesses,     \* what bytes that are no section header may decode to
    Offsets,     \* where the user writes
    Payload,     \* what the user writes
    MaxRounds,   \* bound: how often an image is mapped
    Dynsym, Dynstr \* the names ".dynsym" and ".dynstr"

ASSUME SessionAssumption ==
    /\ Guesses \subseteq Shdr
    /\ \A h \in Guesses : h.type \notin {"REL", "RELA"}
    /\ Offsets \subseteq U64 /\ Payload \subseteq Seq(RawByte)

VARIABLES
    origin,      \* the image of the first round (a history, like those below)
    before,      \* the memory the image was read from; <<>> in the first round
    edit,        \* what the user has written since: addresses and bytes
    written,     \* of that, what when the image was last read
    shifts,      \* by how much the rounds before moved every pointer, in all
    round

history == <<origin, before, edit, written, shifts, round>>
allVars == <<vars, history>>

SessionInit ==
    /\ Init
    /\ origin = image /\ before = <<>> /\ edit = {} /\ written = {}
    /\ shifts = 0 /\ round = 1

Map == Next /\ UNCHANGED history

-----------------------------------------------------------------------------
(* Reading the memory back. Zeros decode to a header of type NULL; a header  *)
(* that is not all in the memory makes the table unreadable, as if empty.    *)

NullHeader == [nameIndex |-> 0, type |-> "NULL", alloc |-> FALSE, addr |-> 0,
               offset |-> 0, size |-> 0, addralign |-> 0]

HeadersAt(m, at) ==
    IF Decodes(m, at, ShEntSize) /\ DecodedAt(m, at) \in Shdr THEN {DecodedAt(m, at)}
    ELSE IF HoldsAt(m, at, Zeros(ShEntSize)) THEN {NullHeader}
    ELSE Guesses

TableStart(m, i) == Ehdr(m).shoff + ((i - 1) * ShEntSize)
TableEnd(m)      == TableStart(m, Ehdr(m).shnum + 1)

SectionTables(m) ==
    IF TableEnd(m) > Len(m) THEN {<<>>}
    ELSE {t \in [1..Ehdr(m).shnum -> Guesses \cup {NullHeader}
                     \cup UNION {HeadersAt(m, TableStart(m, i)) : i \in 1..Ehdr(m).shnum}] :
             \A i \in 1..Ehdr(m).shnum : t[i] \in HeadersAt(m, TableStart(m, i))}

Unchanged(im) == image' = im /\ written' = {} /\ UNCHANGED edit

Overwritten(im) ==
    \E ioff \in Offsets, bytes \in Payload, i \in 1..Len(im.segments) :
        LET vaddr == ImageBase(im.segments) + ioff
        IN  /\ Writes(im.segments, i, vaddr, bytes)
            /\ image' = [im EXCEPT !.segments = SegmentsWith(@, i, vaddr, bytes),
                                   !.sections = SectionsWith(@, vaddr, bytes)]
            /\ written' = {<<vaddr + k - 1, bytes[k]>> : k \in 1..Len(bytes)}
            /\ edit' = written'
                        \cup {w \in edit : w[1] \notin vaddr..vaddr + Len(bytes) - 1}

ReadBack ==
    /\ pc = "done" /\ round < MaxRounds
    /\ MappedParses(mem)
    /\ \E headers \in SectionTables(mem) :
           LET im == ParsedMapped(mem, headers) IN Unchanged(im) \/ Overwritten(im)
    /\ base' \in Bases \cup {Preferred}
    /\ pc' = "allocate" /\ index' = 1 /\ table' = 1 /\ mem' = <<>>
    /\ before' = mem
    /\ shifts' = shifts + base - Preferred
    /\ round' = round + 1
    /\ UNCHANGED origin

SessionNext == Map \/ ReadBack

SessionSpec == SessionInit /\ [][SessionNext]_allVars

-----------------------------------------------------------------------------
(* Images whose memory has their section table and sections where the        *)
(* headers say, as when a linker has a segment hold the file from its start. *)

SectionHeader(im, i) == im.sections[i].header
OriginHeaders == [i \in 1..Len(origin.sections) |-> SectionHeader(origin, i)]

(* Where the bytes of section i should be: its address if it has one.        *)
Home(im, i) ==
    IF SectionHeader(im, i).alloc
    THEN SectionHeader(im, i).addr - ImageBase(im.segments)
    ELSE SectionHeader(im, i).offset

Stored(im, i) ==
    Home(im, i) >= 0 /\ HoldsAt(Loaded(im), Home(im, i), im.sections[i].data)

Kept(im) ==
    {i \in 1..Len(im.sections) : ~Refused(Loaded(im), SectionHeader(im, i))}

(* The name table, where e_shstrndx finds one.                               *)
NamesOf(im) ==
    LET i == im.header.shstrndx + 1
    IN  IF i \in Kept(im) /\ SectionHeader(im, i).type = "STRTAB"
        THEN im.sections[i].data ELSE <<>>

Linked(im) ==
    /\ im.header.shnum = Len(im.sections) /\ ImageSpan(im.segments) <= MaxImage
    /\ HoldsAt(Loaded(im), im.header.shoff,
               EncodedTable([i \in 1..Len(im.sections) |-> SectionHeader(im, i)], ShEntSize))
    /\ \A i \in Kept(im) :
           /\ im.sections[i].name = NameAt(NamesOf(im), SectionHeader(im, i).nameIndex)
           /\ IF IsNobits(im.sections[i]) THEN im.sections[i].data = <<>>
              ELSE Stored(im, i) /\ Len(im.sections[i].data) = SectionHeader(im, i).size

(* The positions of the section table, and of a section's bytes.             *)
TablePositions(im) ==
    im.header.shoff + 1..im.header.shoff + (ShEntSize * Len(im.sections))
Positions(im, i) == Home(im, i) + 1..Home(im, i) + Len(im.sections[i].data)

(* The positions a relocation or the user has changed.                       *)
Changed ==
    (UNION {{OffsetOf(origin, e) - Preferred + k : k \in 1..Width} :
                e \in RelativeEntries(origin)})
    \cup {w[1] - Preferred + 1 : w \in edit}

Describing(i) ==
    \/ origin.sections[i].header.type # "PROGBITS"
    \/ origin.sections[i].name \in {Dynsym, Dynstr}

(* Neither has touched what describes the image.                             *)
Apart ==
    /\ Changed \cap TablePositions(origin) = {}
    /\ \A i \in Kept(origin) : Describing(i) => Changed \cap Positions(origin, i) = {}

(* Through any number of mappings, rebasings and edits, such an image keeps  *)
(* its sections: those of refused size are left out and nothing else, and    *)
(* the ones behind them, a place further up, have their own names and bytes; *)
(* the exports are the same, unless the tables they are read from are left   *)
(* out (parse.rs:195-243, inspect.rs:275-307).                               *)
SectionsSurvive ==
    pc = "done" /\ Linked(origin) /\ Apart /\ Mappable(origin) =>
        /\ MappedParses(mem)
        /\ \A headers \in SectionTables(mem) :
               LET im   == ParsedMapped(mem, headers)
                   kept == [i \in 1..Len(origin.sections) |-> i]
                   list == Chosen(kept, Kept(origin))
               IN  /\ Len(im.sections) = Len(list)
                   /\ \A i \in 1..Len(list) :
                          /\ im.sections[i].name = origin.sections[list[i]].name
                          /\ Describing(list[i]) => im.sections[i] = origin.sections[list[i]]
                   /\ (\A i \in 1..Len(origin.sections) :
                           origin.sections[i].name \in {Dynsym, Dynstr} => i \in Kept(origin))
                      => Exports(im, Dynsym, Dynstr, Class, Order)
                             = Exports(origin, Dynsym, Dynstr, Class, Order)

(* Mapping at base after base adds up: in such an image every pointer has    *)
(* moved by the sum of all the distances between a base asked for and the    *)
(* preferred one, which reading the memory back does not change, and every   *)
(* other byte is where it was. An image read from rebased memory is          *)
(* therefore at its preferred base only if it is not asked to move again. A  *)
(* table of refused size moves its pointers once, and then it is left out    *)
(* (build.rs:151-153, 196-240, parse.rs:131-160, 219-223).                   *)
ShiftsAddUp ==
    pc = "done" /\ Linked(origin) /\ Apart /\ Mappable(origin) =>
        LET was   == Loaded(origin)
            words == RelativeEntries(origin)
            moved == shifts + base - Preferred
        IN  /\ \A p \in (1..Len(mem)) \ Changed : mem[p] = was[p]
            /\ \A w \in words :
                   LET start == OffsetOf(origin, w) - Preferred
                   IN  /\ WordAt(origin, w) # {} /\ w[1] \in Kept(origin)
                       /\ \A v \in words \ {w} : WordAt(origin, v) \cap WordAt(origin, w) = {}
                       /\ \A e \in edit : e[1] - Preferred + 1 \notin WordAt(origin, w)
                       => (NumberAt(mem, start, Width, Order) - moved
                               - NumberAt(was, start, Width, Order)) % Radix^Width = 0

(* What the user writes to an image read from memory is in the memory it is  *)
(* mapped to next, also behind p_filesz, where the data of such an image     *)
(* reaches and that of a file's does not, unless segments overlap there; and *)
(* every other byte of a segment is what was read. Only the headers and      *)
(* relocated pointers are not (edit.rs:14-40, parse.rs:131-160,              *)
(* build.rs:163-178).                                                        *)
Written(p) == {w \in written : p = w[1] - Preferred + 1}

EditsPersist ==
    pc = "done" /\ round > 1 =>
        \A p \in HeadersEnd(image) + 1..Len(mem) :
            (\A entry \in RelativeEntries(image) : p \notin WordAt(image, entry)) =>
                /\ \A w \in Written(p) :
                       (\E i \in PlacedAt(image, p) : PlacedAt(image, p) = {i}) => mem[p] = w[2]
                /\ InSegments(image, {p}) /\ Written(p) = {} => mem[p] = before[p]

(* The memory m has no section table: e_shoff, which to_mapped_image_at      *)
(* leaves as it was, points past its end or to zeros.                        *)
TableLost(m) ==
    \/ TableEnd(m) > Len(m)
    \/ \A p \in TableStart(m, 1) + 1..TableEnd(m) : m[p] = Zero

(* Then nothing is left to relocate by: mapping it at whatever base gives    *)
(* the same memory, headers and all, but for what the user wrote, and zeros  *)
(* where no segment lies; pointers keep the base they were mapped at         *)
(* (build.rs:184-194, parse.rs:195-203).                                     *)
LostTableMovesNothing ==
    pc = "done" /\ round > 1 /\ TableLost(before) =>
        \A p \in 1..Len(mem) :
            /\ p <= HeadersEnd(image) \/ InSegments(image, {p}) \/ before[p] = Zero
            /\ p <= HeadersEnd(image) \/ Written(p) = {}
            => mem[p] = before[p]

=============================================================================
