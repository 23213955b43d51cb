---------------------------- MODULE ElfValidate -----------------------------
(* ElfImage::validate (src/src/elf/validate.rs): one call, check by check.   *)
(* The overlap check sorts the loadable ranges and compares each with the    *)
(* next one only; the other checks look at one segment or header at a time.  *)
EXTENDS ElfAccess

CONSTANT Checked           \* the images a call may be given

ASSUME CheckedAssumption == Checked \subseteq ElfImage

VARIABLES
    image,      \* self
    pc,         \* the check the call is at; "done" at its end
    order,      \* the loadable segments' positions, sorted by address range
    index,      \* the loop variable
    issues      \* the codes reported so far

vars == <<image, pc, order, index, issues>>

Loads == {i \in 1..Len(image.segments) : IsLoad(image.segments[i])}

RangeStart(i) == image.segments[i].header.vaddr
RangeEnd(i)   == SatAdd(image.segments[i].header.vaddr, image.segments[i].header.memsz)

Report(code, wrong) == issues' = issues \cup {c \in {code} : wrong}

Init ==
    /\ image \in Checked
    /\ pc = "loads"
    /\ order = <<>>
    /\ index = 1
    /\ issues = {}

-----------------------------------------------------------------------------
CheckLoads ==
    /\ pc = "loads"
    /\ Report("NoLoadSegments", Loads = {})
    /\ pc' = "entry"
    /\ UNCHANGED <<image, order, index>>

EntryOutside ==
    LET base == ImageBase(image.segments)
        end  == base + ImageSpan(image.segments)
    IN  /\ image.header.entry # 0
        /\ end > U64Max \/ image.header.entry < base \/ image.header.entry >= end

CheckEntry ==
    /\ pc = "entry"
    /\ Report("EntryPointOutOfImage", EntryOutside)
    /\ pc' = "sort"
    /\ UNCHANGED <<image, order, index>>

(* sort_unstable on (start, end, index), which are all different.            *)
Before(i, j) ==
    \/ RangeStart(i) < RangeStart(j)
    \/ /\ RangeStart(i) = RangeStart(j)
       /\ RangeEnd(i) < RangeEnd(j) \/ (RangeEnd(i) = RangeEnd(j) /\ i < j)

InFileOrder(o) == \A a, b \in DOMAIN o : a < b => o[a] < o[b]  \* a fault: unsorted
Sorted(o) == \A a, b \in DOMAIN o : a < b => Before(o[a], o[b])

SortRanges ==
    /\ pc = "sort"
    /\ \E n \in 0..Len(image.segments) : \E o \in [1..n -> Loads] :
           /\ \A i \in Loads : \E a \in 1..n : o[a] = i
           /\ Sorted(o)
           /\ order' = o
    /\ pc' = "windows" /\ index' = 1
    /\ UNCHANGED <<image, issues>>

(* One pair of ranges.windows(2).                                            *)
OverlapAt(a) == RangeEnd(order[a]) > RangeStart(order[a + 1])

CheckChunk ==                            \* a fault: chunks(2) for windows(2)
    /\ pc = "windows" /\ index < Len(order)
    /\ Report("OverlappingSegments", OverlapAt(index))
    /\ index' = index + 2
    /\ UNCHANGED <<image, pc, order>>
CheckWindow ==
    /\ pc = "windows" /\ index < Len(order)
    /\ Report("OverlappingSegments", OverlapAt(index))
    /\ index' = index + 1
    /\ UNCHANGED <<image, pc, order>>

WindowsChecked ==
    /\ pc = "windows" /\ index >= Len(order)
    /\ pc' = "segments" /\ index' = 1
    /\ UNCHANGED <<image, order, issues>>

AnyFileSize(i) == FALSE                  \* a fault: forgets the comparison
FileExceedsMemory(i) ==
    image.segments[i].header.filesz > image.segments[i].header.memsz

Misaligned(i) ==
    LET h == image.segments[i].header
    IN  /\ h.align > 1 /\ h.filesz > 0
        /\ h.offset % h.align # h.vaddr % h.align

CheckSegment ==
    /\ pc = "segments" /\ index <= Len(image.segments)
    /\ issues' = issues
           \cup {c \in {"SegmentFileRangeOutOfBounds"} :
                    index \in Loads /\ FileExceedsMemory(index)}
           \cup {c \in {"SegmentVaddrMisaligned"} : index \in Loads /\ Misaligned(index)}
    /\ index' = index + 1
    /\ UNCHANGED <<image, pc, order>>

BadNameTable ==
    /\ image.header.shnum # 0
    /\ \/ image.header.shstrndx >= Len(image.sections)
       \/ image.sections[image.header.shstrndx + 1].header.type # "STRTAB"

CheckNameTable ==
    /\ pc = "segments" /\ index > Len(image.segments)
    /\ Report("InvalidStringTableIndex", BadNameTable)
    /\ pc' = "done"
    /\ UNCHANGED <<image, order, index>>

Returned == pc = "done" /\ UNCHANGED vars

Next ==
    \/ CheckLoads \/ CheckEntry \/ SortRanges \/ CheckWindow \/ WindowsChecked
    \/ CheckSegment \/ CheckNameTable \/ Returned

Spec == Init /\ [][Next]_vars

(* ValidationResult::has_errors: the two codes of severity error.            *)
HasErrors == issues \cap {"OverlappingSegments", "SegmentFileRangeOutOfBounds"} # {}

-----------------------------------------------------------------------------
Codes == {"NoLoadSegments", "EntryPointOutOfImage", "OverlappingSegments",
          "SegmentFileRangeOutOfBounds", "SegmentVaddrMisaligned",
          "InvalidStringTableIndex"}

TypeOK ==
    /\ image \in Checked
    /\ pc \in {"loads", "entry", "sort", "windows", "segments", "done"}
    /\ order \in Seq(Nat) /\ \A a \in 1..Len(order) : order[a] \in Loads
    /\ index \in Nat \ {0}
    /\ issues \subseteq Codes

(* Some address is in two loadable segments.                                 *)
Shared(i, j) ==
    /\ RangeStart(i) < RangeEnd(j) /\ RangeStart(j) < RangeEnd(i)
    /\ RangeStart(i) < RangeEnd(i) /\ RangeStart(j) < RangeEnd(j)

(* Comparing neighbours finds every overlap: when no error is reported, no   *)
(* address is in two loadable segments, however far apart they are in the    *)
(* table and in the sorted order (validate.rs:54-78).                        *)
OverlapsFound ==
    pc = "done" /\ "OverlappingSegments" \notin issues =>
        \A i, j \in Loads : i # j => ~Shared(i, j)

(* A segment begins within another, and not at its first address.            *)
StartsInside(i, j) == RangeStart(j) < RangeStart(i) /\ RangeStart(i) < RangeEnd(j)

RealOverlap ==
    \E i, j \in Loads : i # j /\ (Shared(i, j) \/ StartsInside(i, j))

(* And it finds nothing else, but one: a segment without memory that starts  *)
(* within another shares no address with it and is reported all the same.    *)
(* Segments that only touch, and segments without memory at the first        *)
(* address of another, behind it or together, are not (validate.rs:66-78).   *)
OverlapsReal == pc = "done" /\ "OverlappingSegments" \in issues => RealOverlap

(* In an image without errors a write and a file-offset conversion never     *)
(* disagree: the loadable segment whose file bytes ioff_to_offset uses is    *)
(* the one write_at_ioff writes to (inspect.rs:80-91, edit.rs:15-24).        *)
CleanMeansOneSegment ==
    pc = "done" /\ ~HasErrors =>
        \A i, j \in Loads : \A vaddr \in RangeStart(i)..RangeEnd(i) :
            /\ IsFirstBacking(image.segments, i, vaddr)
            /\ IsFirstLoad(image.segments, j, vaddr)
            => i = j

(* Why: the pairs of ranges compared so far, and all those between them.     *)
NoOverlapBelow(n) ==
    \A a, b \in 1..n : a < b => RangeEnd(order[a]) <= RangeStart(order[b])

WindowsInv ==
    /\ TypeOK
    /\ pc \in {"windows", "segments", "done"} =>
           Sorted(order) /\ \A i \in Loads : \E a \in 1..Len(order) : order[a] = i
    /\ pc = "windows" /\ "OverlappingSegments" \notin issues =>
           NoOverlapBelow(Minimum(index, Len(order)))
    /\ pc \in {"segments", "done"} /\ "OverlappingSegments" \notin issues =>
           NoOverlapBelow(Len(order))

(* And the sizes compared so far.                                            *)
SizesInv ==
    \A i \in Loads :
        pc = "done" \/ (pc = "segments" /\ i < index) =>
            (FileExceedsMemory(i) => "SegmentFileRangeOutOfBounds" \in issues)

(* And the overlaps reported so far.                                         *)
ReportsReal == "OverlappingSegments" \in issues => RealOverlap

ValidateInv == WindowsInv /\ SizesInv

=============================================================================
