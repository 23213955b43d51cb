---------------------------- MODULE ElfGeometry -----------------------------
(* geometry (src/src/elf.rs): the preferred base, the page and the mapped    *)
(* span that the loadable segments of an image give it, and the conversions  *)
(* between image-relative offsets, addresses and file offsets.               *)
EXTENDS ElfFormat

CONSTANT MinPage           \* the smallest page size (0x1000)

ASSUME MinPageAssumption == MinPage \in Nat \ {0} /\ MinPage <= U64Max

Least(S)    == CHOOSE x \in S : \A y \in S : x <= y
Greatest(S) == CHOOSE x \in S : \A y \in S : y <= x

(* The program headers of the segments that take part: load_records.         *)
LoadRecords(segments) ==
    {segments[i].header : i \in {j \in 1..Len(segments) :
                                   IsLoad(segments[j]) /\ segments[j].header.memsz # 0}}

Page(loads) == Greatest({MinPage} \cup {l.align : l \in loads})

Base(loads) ==
    IF loads = {} THEN 0
    ELSE LET lowest == Least({l.vaddr : l \in loads})
         IN  lowest - (lowest % Page(loads))

Span(loads) ==
    IF loads = {} THEN 0
    ELSE LET end == Greatest({SatAdd(l.vaddr, l.memsz) : l \in loads})
         IN  SatSub(AlignUp(end, Page(loads)), Base(loads))

ImageBase(segments) == Base(LoadRecords(segments))
ImageSpan(segments) == Span(LoadRecords(segments))

=============================================================================
