------------------------------ MODULE ElfEdit -------------------------------
(* Byte-level editing of an image (src/src/elf/edit.rs) and the reads that   *)
(* see it (src/src/elf/inspect.rs): a sequence of write_at_ioff calls. The   *)
(* loadable segments and the sections hold separate copies of the same       *)
(* bytes; a write changes one segment and then the sections that cover the   *)
(* address.                                                                  *)
EXTENDS ElfAccess

CONSTANTS
    Images,      \* the images under edit
    Offsets,     \* the image-relative offsets written and read
    Payload      \* the replacement bytes

(* Loadable segments as the ELF specification has them: none overlaps        *)
(* another, and none has more bytes than memory.                             *)
WellLoaded(segs) ==
    \A i \in 1..Len(segs) : IsLoad(segs[i]) =>
        LET h == segs[i].header
        IN  /\ h.vaddr + h.memsz <= U64Max
            /\ Len(segs[i].data) <= h.memsz
            /\ \A j \in 1..Len(segs) : j # i /\ IsLoad(segs[j]) =>
                   LET g == segs[j].header
                   IN  h.vaddr + h.memsz <= g.vaddr \/ g.vaddr + g.memsz <= h.vaddr

(* Sections as parsing leaves them: their bytes are those the loadable       *)
(* segments have at the same addresses.                                      *)
InSync(section, segment) ==
    section.header.alloc /\ ~IsNobits(section) /\ IsLoad(segment) =>
        \A p \in 1..Len(section.data), q \in 1..Len(segment.data) :
            section.header.addr + p = segment.header.vaddr + q =>
                section.data[p] = segment.data[q]

Measured(section) ==
    /\ ~IsNobits(section) => section.header.size = Len(section.data)
    /\ section.header.addr + Len(section.data) <= U64Max

ASSUME EditAssumption ==
    /\ Images \subseteq [segments : Seq(Segment), sections : Seq(Section)]
    /\ \A image \in Images :
           /\ WellLoaded(image.segments)
           /\ \A i \in 1..Len(image.sections) :
                  /\ Measured(image.sections[i])
                  /\ \A j \in 1..Len(image.segments) :
                         InSync(image.sections[i], image.segments[j])
    /\ Offsets \subseteq U64
    /\ Payload \subseteq Seq(RawByte)

VARIABLES
    segments,    \* self.segments
    sections,    \* self.sections
    reply,       \* what the last write returned: "some" or "none"
    torn         \* the section bytes <<i, a>> a write has left behind (a history)

vars == <<segments, sections, reply, torn>>

-----------------------------------------------------------------------------
(* Which section bytes a write leaves behind: those in its range, in         *)
(* sections that do not hold all of it.                                      *)
SectionAddresses(i) ==
    IF sections[i].header.alloc /\ ~IsNobits(sections[i])
    THEN sections[i].header.addr..(sections[i].header.addr + Len(sections[i].data) - 1)
    ELSE {}

TornBy(written) ==
    {t \in torn : t[2] \notin written}
    \cup UNION {{i} \X (SectionAddresses(i) \cap written) :
                   i \in {k \in 1..Len(sections) : ~(written \subseteq SectionAddresses(k))}}

(* write_at_ioff.                                                            *)
WriteAtIoff(ioff, bytes) ==
    LET vaddr == ImageBase(segments) + ioff
    IN  \/ \E i \in 1..Len(segments) :
               /\ Writes(segments, i, vaddr, bytes)
               /\ segments' = SegmentsWith(segments, i, vaddr, bytes)
               /\ sections' = SectionsWith(sections, vaddr, bytes)
               /\ torn' = TornBy(vaddr..(vaddr + Len(bytes) - 1))
               /\ reply' = "some"
        \/ /\ \A i \in 1..Len(segments) : ~Writes(segments, i, vaddr, bytes)
           /\ reply' = "none"
           /\ UNCHANGED <<segments, sections, torn>>

Init ==
    /\ \E image \in Images : segments = image.segments /\ sections = image.sections
    /\ reply = "none"
    /\ torn = {}

Next == \E ioff \in Offsets, bytes \in Payload : WriteAtIoff(ioff, bytes)

Spec == Init /\ [][Next]_vars

-----------------------------------------------------------------------------
(* The memory the loadable segments present.                                 *)

Extent(i) ==
    IF IsLoad(segments[i])
    THEN segments[i].header.vaddr..(segments[i].header.vaddr + Len(segments[i].data) - 1)
    ELSE {}

Extents == {Extent(i) : i \in 1..Len(segments)}

ByteAt(a) ==
    LET i == CHOOSE j \in 1..Len(segments) : a \in Extent(j)
    IN  segments[i].data[a - segments[i].header.vaddr + 1]

Memory == INSTANCE LoadedMemory WITH
    mem     <- [a \in UNION Extents |-> ByteAt(a)],
    extents <- Extents,
    Address <- 0..(2 * U64Max)

TypeOK ==
    /\ segments \in Seq(Segment) /\ WellLoaded(segments)
    /\ sections \in Seq(Section)
    /\ \A i \in 1..Len(sections) : Measured(sections[i])
    /\ reply \in {"some", "none"}
    /\ torn \subseteq (1..Len(sections)) \X Nat

(* An edit is a memory write: a successful write_at_ioff changes exactly the *)
(* addressed bytes of loadable memory, a refused one changes nothing, and a  *)
(* write succeeds exactly when one segment has all of its bytes (edit.rs).   *)
MemorySpec == Memory!Spec

(* The two copies of a byte agree: every allocated section has the bytes of  *)
(* the loadable segments at its addresses, after any sequence of writes, but *)
(* for the bytes that a write running over the section's edge left behind    *)
(* and no later write has replaced (edit.rs:25-38).                          *)
InStep(i, a) ==
    a \in UNION Extents =>
        sections[i].data[a - sections[i].header.addr + 1] = ByteAt(a)

ViewsAgree ==
    \A i \in 1..Len(sections) : \A a \in SectionAddresses(i) :
        <<i, a>> \notin torn => InStep(i, a)

(* A read returns what the last writes left in loadable memory, for as long  *)
(* as it stays in the extent it began in and no other segment of the image   *)
(* covers its first byte before the loadable one does (inspect.rs:94-110,    *)
(* 315-327).                                                                 *)
ReadsSeeMemory ==
    \A ioff \in Offsets, i \in 1..Len(segments) :
        LET vaddr == ImageBase(segments) + ioff
        IN  vaddr <= U64Max /\ IsFirstSegment(segments, i, vaddr) /\ IsLoad(segments[i]) =>
                \A a \in Extent(i) :
                    a >= vaddr => \A r \in ReadIoff(segments, ioff, a - vaddr + 1) :
                                      r[a - vaddr + 1] = ByteAt(a)

(* A read straight after a successful write returns what was written.        *)
ReadBack ==
    [][\A ioff \in Offsets, bytes \in Payload :
           WriteAtIoff(ioff, bytes) /\ reply' = "some" /\ bytes # <<>> =>
               ReadIoff(segments, ioff, Len(bytes))' = {bytes}]_vars

=============================================================================
