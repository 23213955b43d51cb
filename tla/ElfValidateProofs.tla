------------------------- MODULE ElfValidateProofs --------------------------
(* Proofs about ElfImage::validate: comparing each range with the next one   *)
(* in sorted order finds every overlap, for images of any size.              *)
EXTENDS ElfValidate, TLAPS

(* A function on 1..n is a sequence of length n.                             *)
LEMMA FunctionIsSequence ==
    ASSUME NEW S, NEW n \in Nat, NEW f \in [1..n -> S]
    PROVE  f \in Seq(S) /\ Len(f) = n
<1>1. f = [k \in 1..n |-> f[k]]  BY Zenon
<1>2. \A k \in 1..n : f[k] \in S  OBVIOUS
<1>3. [k \in 1..n |-> f[k]] \in Seq(S) /\ Len([k \in 1..n |-> f[k]]) = n
  BY <1>2
<1> QED  BY <1>1, <1>3, Zenon

(* An image's segments have 64-bit addresses and sizes.                      *)
LEMMA RangesAreNumbers ==
    ASSUME TypeOK, NEW i \in Loads
    PROVE  /\ i \in 1..Len(image.segments)
           /\ RangeStart(i) \in Int /\ RangeEnd(i) \in Int
           /\ RangeStart(i) <= RangeEnd(i)
<1>1. i \in 1..Len(image.segments)  BY DEF Loads
<1>2. image \in ElfImage  BY CheckedAssumption DEF TypeOK
<1>3. image.segments \in Seq(Segment)  BY <1>2 DEF ElfImage
<1>4. image.segments[i] \in Segment  BY <1>1, <1>3
<1>5. image.segments[i].header \in Phdr  BY <1>4 DEF Segment
<1>6. /\ image.segments[i].header.vaddr \in 0..U64Max
      /\ image.segments[i].header.memsz \in 0..U64Max
  BY <1>5 DEF Phdr, U64
<1> QED  BY <1>1, <1>6, U64MaxAssumption DEF RangeStart, RangeEnd, SatAdd

(* One more range that does not overlap its neighbour overlaps none of the   *)
(* ranges before it: the sorted order passes the fact on.                    *)
LEMMA NextRangeIsClear ==
    ASSUME TypeOK, Sorted(order), NEW n \in 1..Len(order),
           NoOverlapBelow(n), n < Len(order), ~OverlapAt(n)
    PROVE  NoOverlapBelow(n + 1)
<1> SUFFICES ASSUME NEW a \in 1..(n + 1), NEW b \in 1..(n + 1), a < b
             PROVE  RangeEnd(order[a]) <= RangeStart(order[b])
  BY DEF NoOverlapBelow
<1>1. order \in Seq(Nat)  BY DEF TypeOK
<1>2. Len(order) \in Nat /\ DOMAIN order = 1..Len(order)  BY <1>1
<1>3. /\ a \in 1..Len(order) /\ b \in 1..Len(order)
      /\ n \in 1..Len(order) /\ n + 1 \in 1..Len(order)
  BY <1>2
<1>4. /\ order[a] \in Loads /\ order[b] \in Loads
      /\ order[n] \in Loads /\ order[n + 1] \in Loads
  BY <1>3 DEF TypeOK
<1>5. /\ RangeEnd(order[a]) \in Int /\ RangeStart(order[b]) \in Int
      /\ RangeStart(order[n]) \in Int /\ RangeEnd(order[n]) \in Int
      /\ RangeStart(order[n + 1]) \in Int
  BY <1>4, RangesAreNumbers
<1>6. RangeEnd(order[n]) <= RangeStart(order[n + 1])  BY <1>5 DEF OverlapAt
<1>7. Before(order[n], order[n + 1])  BY <1>2, <1>3 DEF Sorted
<1>8. RangeStart(order[n]) <= RangeStart(order[n + 1])  BY <1>5, <1>7 DEF Before
<1>9. ASSUME b # n + 1 PROVE RangeEnd(order[a]) <= RangeStart(order[b])
  <2>1. a \in 1..n /\ b \in 1..n  BY <1>2, <1>9
  <2> QED  BY <2>1 DEF NoOverlapBelow
<1>10. ASSUME b = n + 1, a # n PROVE RangeEnd(order[a]) <= RangeStart(order[b])
  <2>1. a \in 1..n /\ n \in 1..n /\ a < n  BY <1>2, <1>10
  <2>2. RangeEnd(order[a]) <= RangeStart(order[n])  BY <2>1 DEF NoOverlapBelow
  <2> QED  BY <1>5, <1>8, <1>10, <2>2
<1> QED  BY <1>6, <1>9, <1>10

-----------------------------------------------------------------------------
(* The type invariant is inductive: every position in the order is that of a *)
(* loadable segment.                                                         *)
LEMMA TypeInit == Init => TypeOK
<1> SUFFICES ASSUME Init PROVE TypeOK  OBVIOUS
<1>1. order = <<>> /\ issues = {} /\ index = 1 /\ pc = "loads" /\ image \in Checked
  BY DEF Init
<1>2. order \in Seq(Nat) /\ \A a \in 1..Len(order) : order[a] \in Loads
  BY <1>1
<1>3. index \in Nat \ {0}  BY <1>1
<1> QED  BY <1>1, <1>2, <1>3 DEF TypeOK, Codes

(* Every check keeps the state within its types.                             *)
LEMMA TypeStep == TypeOK /\ [Next]_vars => TypeOK'
<1> SUFFICES ASSUME TypeOK, [Next]_vars PROVE TypeOK'  OBVIOUS
<1> USE DEF TypeOK, Codes
<1>1. CASE CheckLoads  BY <1>1 DEF CheckLoads, Report, Loads
<1>2. CASE CheckEntry  BY <1>2 DEF CheckEntry, Report, Loads
<1>3. CASE SortRanges
  <2>1. PICK n \in 0..Len(image.segments) : \E o \in [1..n -> Loads] : order' = o
    BY <1>3 DEF SortRanges
  <2>2. n \in Nat /\ order' \in [1..n -> Loads]  BY <2>1
  <2>3. Loads \subseteq Nat  BY DEF Loads
  <2>4. order' \in Seq(Nat) /\ Len(order') = n
    <3>1. order' \in [1..n -> Nat]  BY <2>2, <2>3
    <3> QED  BY <2>2, <3>1, FunctionIsSequence, Zenon
  <2>5. \A a \in 1..Len(order') : order'[a] \in Loads  BY <2>2, <2>4
  <2>6. Loads' = Loads  BY <1>3 DEF SortRanges, Loads
  <2>7. image' = image /\ issues' = issues /\ pc' = "windows" /\ index' = 1
    BY <1>3 DEF SortRanges
  <2> QED  BY <2>4, <2>5, <2>6, <2>7
<1>4. CASE CheckWindow
  <2>1. /\ pc' = pc /\ index' = index + 1 /\ image' = image /\ order' = order
        /\ issues' \subseteq issues \cup {"OverlappingSegments"}
    BY <1>4 DEF CheckWindow, Report
  <2>2. Loads' = Loads  BY <2>1 DEF Loads
  <2> QED  BY <2>1, <2>2
<1>5. CASE WindowsChecked
  <2>1. /\ pc' = "segments" /\ index' = 1 /\ image' = image /\ order' = order
        /\ issues' = issues
    BY <1>5 DEF WindowsChecked
  <2>2. Loads' = Loads  BY <2>1 DEF Loads
  <2> QED  BY <2>1, <2>2
<1>6. CASE CheckSegment
  <2>1. /\ pc' = pc /\ index' = index + 1 /\ image' = image /\ order' = order
        /\ issues' \subseteq issues \cup
              {"SegmentFileRangeOutOfBounds", "SegmentVaddrMisaligned"}
    BY <1>6 DEF CheckSegment
  <2>2. Loads' = Loads  BY <2>1 DEF Loads
  <2> QED  BY <2>1, <2>2
<1>7. CASE CheckNameTable  BY <1>7 DEF CheckNameTable, Report, Loads
<1>8. CASE UNCHANGED vars  BY <1>8 DEF vars, Loads
<1> QED
  BY <1>1, <1>2, <1>3, <1>4, <1>5, <1>6, <1>7, <1>8 DEF Next, Returned

(* The windows compared so far have settled every pair of ranges up to them. *)
LEMMA WindowsInit == Init => WindowsInv
<1> SUFFICES ASSUME Init PROVE WindowsInv  OBVIOUS
<1>1. TypeOK  BY TypeInit
<1>2. pc = "loads"  BY DEF Init
<1> QED  BY <1>1, <1>2 DEF WindowsInv

(* Sorting establishes the order that the windows are looked at in.          *)
LEMMA SortRangesStep == WindowsInv /\ SortRanges => WindowsInv'
<1> SUFFICES ASSUME WindowsInv, SortRanges PROVE WindowsInv'  OBVIOUS
<1>1. TypeOK'  BY TypeStep DEF WindowsInv, Next
<1>2. PICK n \in 0..Len(image.segments) : \E o \in [1..n -> Loads] :
         (\A i \in Loads : \E a \in 1..n : o[a] = i) /\ Sorted(o) /\ order' = o
  BY DEF SortRanges
<1>3. /\ n \in Nat /\ order' \in [1..n -> Loads]
      /\ \A i \in Loads : \E a \in 1..n : order'[a] = i
      /\ Sorted(order')
  BY <1>2
<1>4. Loads \subseteq Nat  BY DEF Loads
<1>5. Len(order') = n  BY <1>3, <1>4
<1>6. /\ pc' = "windows" /\ index' = 1 /\ issues' = issues /\ image' = image
  BY DEF SortRanges
<1>7. Loads' = Loads  BY <1>6 DEF Loads
<1>8. Sorted(order)'  BY <1>3, <1>6 DEF Sorted, Before, RangeStart, RangeEnd
<1>9. (\A i \in Loads : \E a \in 1..Len(order) : order[a] = i)'  BY <1>3, <1>5, <1>7
<1>10. NoOverlapBelow(Minimum(index, Len(order)))'
  BY <1>3, <1>5, <1>6 DEF NoOverlapBelow, Minimum
<1> QED  BY <1>1, <1>6, <1>8, <1>9, <1>10 DEF WindowsInv

(* A window without an overlap joins its second range to those before it:    *)
(* their ends are no later than its start.                                   *)
LEMMA CheckWindowStep == WindowsInv /\ CheckWindow => WindowsInv'
<1> SUFFICES ASSUME WindowsInv, CheckWindow PROVE WindowsInv'  OBVIOUS
<1>1. TypeOK' /\ TypeOK  BY TypeStep DEF WindowsInv, Next
<1>2. /\ pc = "windows" /\ index < Len(order) /\ index' = index + 1
      /\ image' = image /\ order' = order /\ pc' = pc
      /\ issues' = issues \cup {c \in {"OverlappingSegments"} : OverlapAt(index)}
  BY DEF CheckWindow, Report
<1>3. Sorted(order) /\ \A i \in Loads : \E a \in 1..Len(order) : order[a] = i
  BY <1>2 DEF WindowsInv
<1>4. Sorted(order)' /\ (\A i \in Loads : \E a \in 1..Len(order) : order[a] = i)'
  BY <1>2, <1>3 DEF Sorted, Before, RangeStart, RangeEnd, Loads
<1>5. index \in Nat \ {0} /\ Len(order) \in Nat  BY <1>1 DEF TypeOK
<1>6. ASSUME "OverlappingSegments" \notin issues'
      PROVE  NoOverlapBelow(Minimum(index, Len(order)))'
  <2>1. ~OverlapAt(index) /\ "OverlappingSegments" \notin issues  BY <1>2, <1>6
  <2>2. Minimum(index, Len(order)) = index  BY <1>2, <1>5 DEF Minimum
  <2>3. NoOverlapBelow(index)  BY <1>2, <2>1, <2>2 DEF WindowsInv
  <2>4. index \in 1..Len(order)  BY <1>2, <1>5
  <2>5. NoOverlapBelow(index + 1)  BY <1>1, <1>2, <1>3, <2>1, <2>3, <2>4, NextRangeIsClear
  <2>6. Minimum(index, Len(order))' = index + 1  BY <1>2, <1>5 DEF Minimum
  <2>7. \A a, b \in 1..(index + 1) : a < b => (RangeEnd(order[a]) <= RangeStart(order[b]))'
    BY <1>2, <2>5 DEF NoOverlapBelow, RangeStart, RangeEnd
  <2> QED  BY <2>6, <2>7 DEF NoOverlapBelow
<1> QED  BY <1>1, <1>2, <1>4, <1>6 DEF WindowsInv

(* The steps that leave the order and the overlap report alone.              *)
LEMMA QuietStep ==
    ASSUME WindowsInv, TypeOK', image' = image, order' = order,
           "OverlappingSegments" \in issues => "OverlappingSegments" \in issues'
    PROVE  /\ pc' \in {"entry", "sort"} => WindowsInv'
           /\ pc \in {"segments", "done"} /\ pc' \in {"segments", "done"} => WindowsInv'
<1>1. pc \in {"windows", "segments", "done"} =>
          Sorted(order)' /\ (\A i \in Loads : \E a \in 1..Len(order) : order[a] = i)'
  BY DEF WindowsInv, Sorted, Before, RangeStart, RangeEnd, Loads
<1>2. NoOverlapBelow(Len(order)) => NoOverlapBelow(Len(order))'
  BY DEF NoOverlapBelow, RangeStart, RangeEnd
<1> QED  BY <1>1, <1>2 DEF WindowsInv

(* Every check keeps what the windows have shown so far.                     *)
LEMMA WindowsStep == WindowsInv /\ [Next]_vars => WindowsInv'
<1> SUFFICES ASSUME WindowsInv, [Next]_vars PROVE WindowsInv'  OBVIOUS
<1>0. TypeOK' /\ TypeOK  BY TypeStep DEF WindowsInv
<1>1. CASE CheckLoads  BY <1>0, <1>1, QuietStep DEF CheckLoads, Report
<1>2. CASE CheckEntry  BY <1>0, <1>2, QuietStep DEF CheckEntry, Report
<1>3. CASE SortRanges  BY <1>3, SortRangesStep
<1>4. CASE CheckWindow  BY <1>4, CheckWindowStep
<1>5. CASE WindowsChecked
  <2>1. /\ pc = "windows" /\ index >= Len(order) /\ pc' = "segments"
        /\ image' = image /\ order' = order /\ issues' = issues
    BY <1>5 DEF WindowsChecked
  <2>2. index \in Nat /\ Len(order) \in Nat  BY <1>0 DEF TypeOK
  <2>3. Minimum(index, Len(order)) = Len(order)  BY <2>1, <2>2 DEF Minimum
  <2>4. "OverlappingSegments" \notin issues => NoOverlapBelow(Len(order))
    BY <2>1, <2>3 DEF WindowsInv
  <2>5. "OverlappingSegments" \notin issues => NoOverlapBelow(Len(order))'
    BY <2>1, <2>4 DEF NoOverlapBelow, RangeStart, RangeEnd
  <2>6. Sorted(order)' /\ (\A i \in Loads : \E a \in 1..Len(order) : order[a] = i)'
    BY <2>1 DEF WindowsInv, Sorted, Before, RangeStart, RangeEnd, Loads
  <2> QED  BY <1>0, <2>1, <2>5, <2>6 DEF WindowsInv
<1>6. CASE CheckSegment
  <2>1. /\ pc = "segments" /\ pc' = pc /\ image' = image /\ order' = order
        /\ issues \subseteq issues'
    BY <1>6 DEF CheckSegment
  <2> QED  BY <1>0, <2>1, QuietStep
<1>7. CASE CheckNameTable
  <2>1. /\ pc = "segments" /\ pc' = "done" /\ image' = image /\ order' = order
        /\ issues \subseteq issues'
    BY <1>7 DEF CheckNameTable, Report
  <2> QED  BY <1>0, <2>1, QuietStep
<1>8. CASE UNCHANGED vars
  <2>1. UNCHANGED <<image, pc, order, index, issues>>  BY <1>8 DEF vars
  <2> QED
    BY <1>0, <2>1 DEF WindowsInv, NoOverlapBelow, Sorted, Before, RangeStart, RangeEnd,
                      Loads, Minimum
<1> QED
  BY <1>1, <1>2, <1>3, <1>4, <1>5, <1>6, <1>7, <1>8 DEF Next, Returned

(* Every loadable segment looked at so far has been compared with its memory *)
(* size, and no code is ever taken back.                                     *)
LEMMA SizesInit == Init => SizesInv
BY DEF Init, SizesInv

(* Every check keeps what the sizes have shown so far.                       *)
LEMMA SizesStep == WindowsInv /\ SizesInv /\ [Next]_vars => SizesInv'
<1> SUFFICES ASSUME WindowsInv, SizesInv, [Next]_vars PROVE SizesInv'  OBVIOUS
<1>0. TypeOK  BY DEF WindowsInv
<1>1. ASSUME image' = image, issues \subseteq issues', pc' \notin {"segments", "done"}
      PROVE  SizesInv'
  BY <1>1 DEF SizesInv
<1>2. CASE CheckLoads  BY <1>1, <1>2 DEF CheckLoads, Report
<1>3. CASE CheckEntry  BY <1>1, <1>3 DEF CheckEntry, Report
<1>4. CASE SortRanges  BY <1>1, <1>4 DEF SortRanges
<1>5. CASE CheckWindow  BY <1>1, <1>5 DEF CheckWindow, Report
<1>6. CASE WindowsChecked
  <2>1. pc' = "segments" /\ index' = 1 /\ image' = image  BY <1>6 DEF WindowsChecked
  <2>2. \A i \in Loads' : i \in 1..Len(image'.segments)  BY DEF Loads
  <2>3. \A i \in Loads' : ~(i < index')  BY <2>1, <2>2
  <2> QED  BY <2>1, <2>3 DEF SizesInv
<1>7. CASE CheckSegment
  <2>1. /\ pc = "segments" /\ pc' = "segments" /\ index' = index + 1
        /\ image' = image /\ issues \subseteq issues'
        /\ index \in Loads /\ FileExceedsMemory(index) =>
               "SegmentFileRangeOutOfBounds" \in issues'
    BY <1>7 DEF CheckSegment
  <2>2. index \in Nat /\ \A i \in Loads : i \in Nat  BY <1>0 DEF TypeOK, Loads
  <2>3. \A i \in Loads : i < index' => i < index \/ i = index  BY <2>1, <2>2
  <2>4. Loads' = Loads /\ \A i \in Loads : FileExceedsMemory(i)' = FileExceedsMemory(i)
    BY <2>1 DEF Loads, FileExceedsMemory
  <2> QED  BY <2>1, <2>3, <2>4 DEF SizesInv
<1>8. CASE CheckNameTable
  <2>1. /\ pc = "segments" /\ index > Len(image.segments) /\ pc' = "done"
        /\ image' = image /\ issues \subseteq issues'
    BY <1>8 DEF CheckNameTable, Report
  <2>2. image \in ElfImage  BY <1>0, CheckedAssumption DEF TypeOK
  <2>3. Len(image.segments) \in Nat  BY <2>2 DEF ElfImage
  <2>4. \A i \in Loads : i < index  BY <1>0, <2>1, <2>3 DEF Loads, TypeOK
  <2> QED  BY <2>1, <2>4 DEF SizesInv, Loads, FileExceedsMemory
<1>9. CASE UNCHANGED vars
  BY <1>9 DEF vars, SizesInv, Loads, FileExceedsMemory
<1> QED
  BY <1>2, <1>3, <1>4, <1>5, <1>6, <1>7, <1>8, <1>9 DEF Next, Returned

-----------------------------------------------------------------------------
(* The inductive invariant holds in every state of every call.               *)
THEOREM Invariance == Spec => []ValidateInv
<1>1. Init => ValidateInv  BY WindowsInit, SizesInit DEF ValidateInv
<1>2. ValidateInv /\ [Next]_vars => ValidateInv'
  BY WindowsStep, SizesStep DEF ValidateInv
<1> QED  BY <1>1, <1>2, PTL DEF Spec

(* The order keeps naming loadable segments, and only the known codes are    *)
(* reported.                                                                 *)
THEOREM TypeCorrect == Spec => []TypeOK
<1>1. ValidateInv => TypeOK  BY DEF ValidateInv, WindowsInv
<1> QED  BY Invariance, <1>1, PTL

(* Comparing neighbours finds every overlap: an image for which validate     *)
(* reports none has no address in two loadable segments (validate.rs:54-78). *)
THEOREM EveryOverlapIsFound == Spec => []OverlapsFound
<1>1. ValidateInv => OverlapsFound
  <2> SUFFICES ASSUME WindowsInv, pc = "done", "OverlappingSegments" \notin issues,
                      NEW i \in Loads, NEW j \in Loads, i # j
               PROVE  ~Shared(i, j)
    BY DEF OverlapsFound, ValidateInv
  <2>1. PICK a \in 1..Len(order), b \in 1..Len(order) : order[a] = i /\ order[b] = j
    BY DEF WindowsInv
  <2>2. TypeOK /\ NoOverlapBelow(Len(order))  BY DEF WindowsInv
  <2>3. /\ RangeStart(i) \in Int /\ RangeEnd(i) \in Int
        /\ RangeStart(j) \in Int /\ RangeEnd(j) \in Int
    BY <2>2, RangesAreNumbers
  <2>4. a < b \/ b < a  BY <2>1
  <2>5. RangeEnd(i) <= RangeStart(j) \/ RangeEnd(j) <= RangeStart(i)
    BY <2>1, <2>2, <2>4 DEF NoOverlapBelow
  <2> QED  BY <2>3, <2>5 DEF Shared
<1> QED  BY Invariance, <1>1, PTL

(* A report is of two neighbours in the sorted order, which are different    *)
(* segments: the second starts within the first, or they start together and  *)
(* share the addresses of the first.                                         *)
LEMMA NeighboursShare ==
    ASSUME TypeOK, Sorted(order), NEW a \in 1..Len(order), a < Len(order), OverlapAt(a)
    PROVE  RealOverlap
<1>1. order \in Seq(Nat)  BY DEF TypeOK
<1>2. Len(order) \in Nat /\ DOMAIN order = 1..Len(order)  BY <1>1
<1>3. a \in 1..Len(order) /\ a + 1 \in 1..Len(order) /\ a < a + 1  BY <1>2
<1>4. order[a] \in Loads /\ order[a + 1] \in Loads  BY <1>3 DEF TypeOK
<1>5. /\ RangeStart(order[a]) \in Int /\ RangeStart(order[a + 1]) \in Int
      /\ RangeEnd(order[a]) \in Int /\ RangeEnd(order[a + 1]) \in Int
      /\ RangeStart(order[a]) <= RangeEnd(order[a])
      /\ RangeStart(order[a + 1]) <= RangeEnd(order[a + 1])
  BY <1>4, RangesAreNumbers
<1>6. order[a] \in Nat /\ order[a + 1] \in Nat  BY <1>4 DEF Loads
<1>7. Before(order[a], order[a + 1])  BY <1>2, <1>3 DEF Sorted
<1>8. order[a] # order[a + 1] /\ RangeStart(order[a]) <= RangeStart(order[a + 1])
  BY <1>5, <1>6, <1>7 DEF Before
<1>9. RangeStart(order[a + 1]) < RangeEnd(order[a])  BY <1>5 DEF OverlapAt
<1>10. CASE RangeStart(order[a]) < RangeStart(order[a + 1])
  <2>1. StartsInside(order[a + 1], order[a])  BY <1>9, <1>10 DEF StartsInside
  <2> QED  BY <1>4, <1>8, <2>1, Zenon DEF RealOverlap
<1>11. CASE RangeStart(order[a]) = RangeStart(order[a + 1])
  <2>1. RangeEnd(order[a]) <= RangeEnd(order[a + 1])
    BY <1>5, <1>7, <1>11 DEF Before
  <2>2. Shared(order[a], order[a + 1])  BY <1>5, <1>9, <1>11, <2>1 DEF Shared
  <2> QED  BY <1>4, <1>8, <2>2, Zenon DEF RealOverlap
<1> QED  BY <1>5, <1>8, <1>10, <1>11

(* Only the window check reports an overlap, and no step changes the image.  *)
LEMMA ReportsStep == WindowsInv /\ ReportsReal /\ [Next]_vars => ReportsReal'
<1> SUFFICES ASSUME WindowsInv, ReportsReal, [Next]_vars PROVE ReportsReal'  OBVIOUS
<1>1. image' = image
  BY DEF Next, vars, CheckLoads, CheckEntry, SortRanges, CheckWindow, WindowsChecked,
         CheckSegment, CheckNameTable, Returned
<1>2. RealOverlap => RealOverlap'
  BY <1>1 DEF RealOverlap, Loads, Shared, StartsInside, RangeStart, RangeEnd
<1>3. CASE CheckWindow
  <2>1. /\ pc = "windows" /\ index < Len(order)
        /\ issues' = issues \cup {c \in {"OverlappingSegments"} : OverlapAt(index)}
    BY <1>3 DEF CheckWindow, Report
  <2>2. TypeOK /\ Sorted(order)  BY <2>1 DEF WindowsInv
  <2>3. index \in Nat \ {0} /\ Len(order) \in Nat  BY <2>2 DEF TypeOK
  <2>4. index \in 1..Len(order)  BY <2>1, <2>3
  <2>5. OverlapAt(index) => RealOverlap  BY <2>1, <2>2, <2>4, NeighboursShare
  <2> QED  BY <1>2, <2>1, <2>5 DEF ReportsReal
<1>4. CASE ~CheckWindow
  <2>1. "OverlappingSegments" \in issues' => "OverlappingSegments" \in issues
    BY <1>4 DEF Next, vars, CheckLoads, CheckEntry, SortRanges, WindowsChecked,
                CheckSegment, CheckNameTable, Returned, Report
  <2> QED  BY <1>2, <2>1 DEF ReportsReal
<1> QED  BY <1>3, <1>4

(* And it finds nothing else: a report means that an address is in two       *)
(* loadable segments, or that one starts within another (validate.rs:66-78). *)
THEOREM EveryReportIsReal == Spec => []OverlapsReal
<1>1. Init => ReportsReal  BY DEF Init, ReportsReal
<1>2. ValidateInv /\ ReportsReal /\ [Next]_vars => ReportsReal'
  BY ReportsStep DEF ValidateInv
<1>3. ReportsReal => OverlapsReal  BY DEF ReportsReal, OverlapsReal
<1> QED  BY Invariance, <1>1, <1>2, <1>3, PTL DEF Spec

(* In an image without errors the segment that ioff_to_offset converts with  *)
(* is the one that write_at_ioff writes to: a range's file bytes lie within  *)
(* its memory, and no other range shares it.                                 *)
THEOREM CleanImagesAgree == Spec => []CleanMeansOneSegment
<1>1. ValidateInv /\ OverlapsFound => CleanMeansOneSegment
  <2> SUFFICES ASSUME ValidateInv, OverlapsFound, pc = "done", ~HasErrors,
                      NEW i \in Loads, NEW j \in Loads,
                      NEW vaddr \in RangeStart(i)..RangeEnd(i),
                      IsFirstBacking(image.segments, i, vaddr),
                      IsFirstLoad(image.segments, j, vaddr)
               PROVE  i = j
    BY DEF CleanMeansOneSegment
  <2>1. TypeOK  BY DEF ValidateInv, WindowsInv
  <2>2. /\ RangeStart(i) \in Int /\ RangeEnd(i) \in Int
        /\ RangeStart(j) \in Int /\ RangeEnd(j) \in Int
    BY <2>1, RangesAreNumbers
  <2>3. ~Shared(i, j) \/ i = j  BY DEF OverlapsFound, HasErrors
  <2>4. RangeStart(j) <= vaddr /\ vaddr < RangeEnd(j)
    BY DEF IsFirstLoad, CoversLoaded, SegmentContains, RangeStart, RangeEnd
  <2>5. ~FileExceedsMemory(i)  BY DEF ValidateInv, SizesInv, HasErrors
  <2>6. image.segments[i].header \in Phdr
    <3>1. i \in 1..Len(image.segments)  BY DEF Loads
    <3>2. image \in ElfImage  BY <2>1, CheckedAssumption DEF TypeOK
    <3>3. image.segments \in Seq(Segment)  BY <3>2 DEF ElfImage
    <3>4. image.segments[i] \in Segment  BY <3>1, <3>3
    <3> QED  BY <3>4 DEF Segment
  <2>7. /\ image.segments[i].header.vaddr \in Nat
        /\ image.segments[i].header.filesz \in Nat
        /\ image.segments[i].header.memsz \in Nat
    BY <2>6, U64MaxAssumption DEF Phdr, U64
  <2>8. SatAdd(image.segments[i].header.vaddr, image.segments[i].header.filesz)
            <= RangeEnd(i)
    BY <2>5, <2>7, U64MaxAssumption DEF FileExceedsMemory, SatAdd, RangeEnd
  <2>9. /\ image.segments[i].header.vaddr <= vaddr
        /\ vaddr < SatAdd(image.segments[i].header.vaddr, image.segments[i].header.filesz)
    BY DEF IsFirstBacking, FileBacked
  <2>10. SatAdd(image.segments[i].header.vaddr, image.segments[i].header.filesz) \in Int
    BY <2>7, U64MaxAssumption DEF SatAdd
  <2>11. RangeStart(i) <= vaddr /\ vaddr < RangeEnd(i)
    BY <2>2, <2>7, <2>8, <2>9, <2>10 DEF RangeStart
  <2> QED  BY <2>2, <2>3, <2>4, <2>11 DEF Shared
<1> QED  BY Invariance, EveryOverlapIsFound, <1>1, PTL

=============================================================================
