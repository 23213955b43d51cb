----------------------------- MODULE ElfAccess ------------------------------
(* What an image's own methods make of an image-relative offset: the segment *)
(* and the sections that cover it, the bytes a read returns, the bytes a     *)
(* write replaces, and the file offset (src/src/elf/inspect.rs and           *)
(* src/src/elf/edit.rs). The image is given by its segments and sections.    *)
EXTENDS ElfGeometry

(* The first segment, loadable or not, that covers the address.              *)
IsFirstSegment(segments, i, vaddr) ==
    /\ SegmentContains(segments[i], vaddr)
    /\ \A j \in 1..(i - 1) : ~SegmentContains(segments[j], vaddr)

(* The first loadable segment that covers the address.                       *)
CoversLoaded(segment, vaddr) == IsLoad(segment) /\ SegmentContains(segment, vaddr)
IsFirstLoad(segments, i, vaddr) ==
    /\ CoversLoaded(segments[i], vaddr)
    /\ \A j \in 1..(i - 1) : ~CoversLoaded(segments[j], vaddr)

(* slice::get_mut(start..start + n) finds the range.                         *)
StartInData(data, start, n) == start >= 0 /\ start <= Len(data)   \* a fault
InData(data, start, n) == start >= 0 /\ start + n <= Len(data)

(* copy_from_slice into data[start..].                                       *)
Copied(data, start, bytes) ==
    [p \in 1..Len(data) |->
        IF start < p /\ p <= start + Len(bytes) THEN bytes[p - start] ELSE data[p]]

-----------------------------------------------------------------------------
(* write_at_ioff.                                                            *)

(* The write goes to segment i.                                              *)
Writes(segments, i, vaddr, bytes) ==
    /\ vaddr <= U64Max
    /\ IsFirstLoad(segments, i, vaddr)
    /\ InData(segments[i].data, vaddr - segments[i].header.vaddr, Len(bytes))

WithBytes(segment, vaddr, bytes) ==
    [segment EXCEPT !.data = Copied(@, vaddr - segment.header.vaddr, bytes)]

SegmentsWith(segments, i, vaddr, bytes) ==
    [segments EXCEPT ![i] = WithBytes(segments[i], vaddr, bytes)]

(* A section takes the write only when it covers the address and its data    *)
(* the whole replacement.                                                    *)
Takes(section, vaddr, bytes) ==
    /\ SectionContains(section, vaddr) /\ ~IsNobits(section)
    /\ InData(section.data, vaddr - section.header.addr, Len(bytes))

Untouched(section, vaddr, bytes) == section             \* a fault: segments only
Updated(section, vaddr, bytes) ==
    IF Takes(section, vaddr, bytes)
    THEN [section EXCEPT !.data = Copied(@, vaddr - section.header.addr, bytes)]
    ELSE section

SectionsWith(sections, vaddr, bytes) ==
    [k \in 1..Len(sections) |-> Updated(sections[k], vaddr, bytes)]

-----------------------------------------------------------------------------
(* Reads and conversions; an Option is a set of at most one element.         *)

(* read_at_vaddr: the covering segment's bytes, then zeros up to len.        *)
FromNextByte(segment, start, len) ==     \* a fault: off by one
    [k \in 1..len |-> IF start + k < Len(segment.data)
                      THEN segment.data[start + k + 1] ELSE Zero]
BytesFrom(segment, start, len) ==
    [k \in 1..len |-> IF start + k <= Len(segment.data)
                      THEN segment.data[start + k] ELSE Zero]

ReadIoff(segments, ioff, len) ==
    LET vaddr == ImageBase(segments) + ioff
    IN  {BytesFrom(segments[i], vaddr - segments[i].header.vaddr, len) :
            i \in {j \in 1..Len(segments) :
                      vaddr <= U64Max /\ IsFirstSegment(segments, j, vaddr)}}

(* ioff_to_offset: through the first loadable segment whose file bytes cover *)
(* the address.                                                              *)
FileBacked(segment, vaddr) ==
    /\ IsLoad(segment)
    /\ vaddr >= segment.header.vaddr
    /\ vaddr < SatAdd(segment.header.vaddr, segment.header.filesz)

IsFirstBacking(segments, i, vaddr) ==
    /\ FileBacked(segments[i], vaddr)
    /\ \A j \in 1..(i - 1) : ~FileBacked(segments[j], vaddr)

IoffToOffset(segments, ioff) ==
    LET vaddr == ImageBase(segments) + ioff
    IN  {segments[i].header.offset + (vaddr - segments[i].header.vaddr) :
            i \in {j \in 1..Len(segments) :
                      vaddr <= U64Max /\ IsFirstBacking(segments, j, vaddr)}}
        \cap U64

=============================================================================
