-------------------------- MODULE FileLayoutProofs --------------------------
(* TypeOK and LayoutInv together are inductive, so the promises of           *)
(* FileLayout hold for every image and every size of the format. The proof   *)
(* has one lemma per action. What readers of a finished file rely on rests   *)
(* on it: that bytes behind the tables are final, that names resolve, and    *)
(* that the file ends with the last structure its headers name. The last     *)
(* parts are about ElfSession: what reading a saved file gives, that saving  *)
(* that makes the same file, and that an edit changes its bytes alone.       *)
EXTENDS ElfSession, ElfFormatProofs

IInv == TypeOK /\ LayoutInv

-----------------------------------------------------------------------------
(* What the parts of an image are.                                           *)

(* Values of u64 are natural numbers, zero among them.                       *)
LEMMA U64Nat == U64 \subseteq Nat /\ 0 \in U64
BY U64MaxAssumption DEF U64

(* What the fields of a segment are.                                         *)
LEMMA SegmentFacts ==
    ASSUME NEW segment \in Segment
    PROVE  /\ segment.header \in Phdr
           /\ segment.header.filesz \in U64
           /\ segment.header.vaddr \in Nat /\ segment.header.align \in Nat
           /\ segment.data \in Seq(Byte) /\ Len(segment.data) \in Nat
<1>1. segment.header \in Phdr /\ segment.data \in Seq(Byte)
  BY DEF Segment
<1>2. segment.header.filesz \in U64 /\ segment.header.vaddr \in U64
      /\ segment.header.align \in U64
  BY <1>1 DEF Phdr
<1>3. segment.header.vaddr \in Nat /\ segment.header.align \in Nat
  BY <1>2, U64Nat
<1>4. Len(segment.data) \in Nat
  BY <1>1
<1> QED
  BY <1>1, <1>2, <1>3, <1>4

(* What the fields of a section are.                                         *)
LEMMA SectionFacts ==
    ASSUME NEW section \in Section
    PROVE  /\ section.header \in Shdr
           /\ section.header.addralign \in Nat
           /\ section.data \in Seq(Byte) /\ Len(section.data) \in Nat
<1>1. section.header \in Shdr /\ section.data \in Seq(Byte)
  BY DEF Section
<1>2. section.data \in Seq(Byte) /\ Len(section.data) \in Nat
  BY <1>1 DEF Byte
<1> QED
  BY <1>1, <1>2, U64Nat DEF Shdr

(* Moving a program header changes its offset and file size only.            *)
LEMMA PhdrAtFacts ==
    ASSUME NEW phdr \in Phdr, NEW offset \in U64, NEW filesz \in U64
    PROVE  LET moved == PhdrAt(phdr, offset, filesz)
           IN  /\ moved \in Phdr
               /\ moved.offset = offset /\ moved.filesz = filesz
               /\ moved.type = phdr.type /\ moved.vaddr = phdr.vaddr
               /\ moved.align = phdr.align
BY DEF PhdrAt, Phdr

(* Moving a section changes its offset and size only.                        *)
LEMMA SectionAtFacts ==
    ASSUME NEW section \in Section, NEW offset \in U64
    PROVE  LET moved == SectionAt(section, offset)
           IN  /\ moved \in Section
               /\ moved.name = section.name /\ moved.data = section.data
               /\ moved.header.type = section.header.type
               /\ moved.header.offset = offset
               /\ moved.header.size = Len(section.data)
BY SectionFacts DEF SectionAt, Section, Shdr

(* A sequence with one element replaced.                                     *)
LEMMA Replaced ==
    ASSUME NEW S, NEW seq \in Seq(S), NEW i \in 1..Len(seq), NEW x \in S
    PROVE  LET new == [seq EXCEPT ![i] = x]
           IN  /\ new \in Seq(S) /\ Len(new) = Len(seq)
               /\ new[i] = x
               /\ \A j \in 1..Len(seq) : j # i => new[j] = seq[j]
OBVIOUS

(* A sequence with one element appended.                                     *)
LEMMA Appended ==
    ASSUME NEW S, NEW seq \in Seq(S), NEW x \in S
    PROVE  /\ Append(seq, x) \in Seq(S) /\ Len(Append(seq, x)) = Len(seq) + 1
           /\ \A j \in 1..Len(seq) : Append(seq, x)[j] = seq[j]
OBVIOUS

(* What the parts of the image are during a call.                            *)
LEMMA ImageFacts ==
    ASSUME TypeOK
    PROVE  /\ image \in ElfImage
           /\ image.segments \in Seq(Segment) /\ image.sections \in Seq(Section)
           /\ Len(image.segments) \in Nat /\ Len(image.sections) \in Nat
           /\ TablesEnd \in Nat /\ EhSize <= TablesEnd
           /\ TablesEnd = EhSize + Len(EncodedTable(phdrs, PhEntSize))
<1>1. image \in ElfImage
  BY DEF TypeOK
<1>2. image.segments \in Seq(Segment) /\ image.sections \in Seq(Section)
  BY <1>1 DEF ElfImage
<1>3. /\ PhEntSize * Len(phdrs) \in Nat
      /\ Len(EncodedTable(phdrs, PhEntSize)) = PhEntSize * Len(phdrs)
  BY EncodedTableBytes, FormatAssumption DEF TypeOK
<1>4. TablesEnd = EhSize + (PhEntSize * Len(phdrs))
  BY DEF TypeOK, TablesEnd
<1> DEFINE n == PhEntSize * Len(phdrs)
<1>5. n \in Nat /\ TablesEnd = EhSize + n
  BY <1>3, <1>4
<1>6. TablesEnd \in Nat /\ EhSize <= TablesEnd
  <2> HIDE DEF n
  <2> QED
    BY <1>5, FormatAssumption
<1>7. Len(image.segments) \in Nat /\ Len(image.sections) \in Nat
  BY <1>2
<1>8. TablesEnd = EhSize + Len(EncodedTable(phdrs, PhEntSize))
  BY <1>3, <1>4
<1> QED
  BY <1>1, <1>2, <1>6, <1>7, <1>8

(* The bytes of a segment that reach the file.                               *)
LEMMA SegmentBytesFacts ==
    ASSUME NEW segment \in Segment
    PROVE  /\ Writable(segment) \in U64
           /\ SegmentBytes(segment) \in Seq(Byte)
           /\ Len(SegmentBytes(segment)) = Writable(segment)
           /\ SegmentBytes(segment) = <<>> <=> Writable(segment) = 0
<1> DEFINE f == segment.header.filesz
           n == Len(segment.data)
<1>1. f \in U64 /\ f \in 0..U64Max /\ n \in Nat /\ Writable(segment) = Minimum(f, n)
  BY SegmentFacts DEF Writable, U64
<1>2. Writable(segment) \in U64 /\ Writable(segment) \in 0..n
  <2> HIDE DEF f, n
  <2> QED
    BY <1>1, U64MaxAssumption DEF Minimum, U64
<1>3. /\ SegmentBytes(segment) \in Seq(Byte)
      /\ Len(SegmentBytes(segment)) = Writable(segment)
  <2> DEFINE w == Writable(segment)
             data == segment.data
  <2>1. w \in 0..Len(data) /\ data \in Seq(Byte)
    BY <1>2, SegmentFacts
  <2> HIDE DEF w, data
  <2>2. SubSeq(data, 1, w) \in Seq(Byte) /\ Len(SubSeq(data, 1, w)) = w
    BY <2>1
  <2> QED
    BY <2>2 DEF SegmentBytes, w, data
<1>4. SegmentBytes(segment) \in Seq(Byte)
  BY <1>3 DEF Byte
<1>5. SegmentBytes(segment) = <<>> <=> Writable(segment) = 0
  <2> DEFINE bytes == SegmentBytes(segment)
  <2> HIDE DEF bytes
  <2>1. bytes \in Seq(Byte) => (bytes = <<>> <=> Len(bytes) = 0)
    OBVIOUS
  <2> QED
    BY <1>3, <2>1 DEF bytes
<1> QED
  BY <1>2, <1>3, <1>4, <1>5

(* The offset a segment gets, unless it is past every admissible file.       *)
LEMMA SegmentOffsetFacts ==
    ASSUME NEW segment \in Segment, NEW c \in Nat
    PROVE  LET offset == SegmentOffset(c, segment)
               align  == segment.header.align
           IN  /\ offset \in Nat
               /\ offset < U64Max => c <= offset
               /\ offset < U64Max /\ IsLoad(segment) /\ align > 1 =>
                      offset % align = segment.header.vaddr % align
<1> DEFINE align == segment.header.align
           vaddr == segment.header.vaddr
           alignment == IF IsLoad(segment) THEN Maximum(align, 1) ELSE 1
           offset == Congruent(c, vaddr, alignment)
<1>1. vaddr \in Nat /\ align \in Nat
  BY SegmentFacts
<1>2. alignment \in Nat /\ (IsLoad(segment) /\ align > 1 => alignment = align)
  <2> HIDE DEF align
  <2> QED
    BY <1>1 DEF Maximum
<1>3. /\ offset \in Nat
      /\ offset < U64Max => c <= offset
      /\ alignment > 1 /\ offset < U64Max => offset % alignment = vaddr % alignment
  <2> HIDE DEF vaddr, alignment
  <2> QED
    BY <1>1, <1>2, CongruentFacts
<1>4. SegmentOffset(c, segment) = offset
  BY DEF SegmentOffset
<1> HIDE DEF offset, alignment, align, vaddr
<1>5. /\ offset \in Nat
      /\ offset < U64Max => c <= offset
      /\ offset < U64Max /\ IsLoad(segment) /\ align > 1 =>
             offset % align = vaddr % align
  BY <1>2, <1>3
<1> QED
  BY <1>4, <1>5 DEF align, vaddr

-----------------------------------------------------------------------------
(* The initial states.                                                       *)

(* A call starts with nothing handed out and nothing finished.               *)
LEMMA BeginInv == image \in ElfImage /\ Begin => IInv
<1> SUFFICES ASSUME image \in ElfImage, Begin PROVE IInv
  OBVIOUS
<1>2. /\ image.segments \in Seq(Segment) /\ image.sections \in Seq(Section)
      /\ image.header \in ElfHeader
  BY DEF ElfImage
<1>3. /\ phdrs \in Seq(Phdr) /\ Len(phdrs) = Len(image.segments)
      /\ \A i \in 1..Len(image.segments) : phdrs[i] = image.segments[i].header
  <2>1. ASSUME NEW i \in 1..Len(image.segments)
        PROVE  image.segments[i].header \in Phdr
    <3>1. image.segments[i] \in Segment
      BY <1>2
    <3> QED
      BY <3>1, SegmentFacts
  <2>2. phdrs \in [1..Len(image.segments) -> Phdr]
    BY <2>1 DEF Begin, ImageHeaders
  <2> QED
    BY <1>2, <2>2 DEF Begin, ImageHeaders
<1>4. out \in Seq(Byte) /\ Len(out) = EhSize
  <2>1. Zero \in Byte
    BY FormatAssumption DEF Zero, Byte, RawByte
  <2>2. out \in [1..EhSize -> Byte]
    BY <2>1 DEF Begin, ImageHeaders, Zeros
  <2> QED
    BY <2>2, FormatAssumption
<1>5. TypeOK
  <2>1. cursor \in Nat
    <3>1. \A m, n \in Nat : m * n \in Nat
      BY SMTT(30)
    <3>2. PhEntSize * Len(image.segments) \in Nat
      BY <1>2, <3>1, FormatAssumption
    <3> DEFINE tables == PhEntSize * Len(image.segments)
    <3>3. cursor = EhSize + tables
      BY DEF Begin, ImageHeaders, TablesEnd
    <3>4. EhSize \in Nat
      BY FormatAssumption
    <3> HIDE DEF tables
    <3> QED
      BY <3>2, <3>3, <3>4 DEF tables
  <2>2. blob \in Seq(RawByte) /\ offsets \in Seq(Nat)
    BY DEF Begin, ImageHeaders
  <2> QED
    BY <1>2, <1>3, <1>4, <2>1, <2>2, FormatAssumption DEF Begin, ImageHeaders, TypeOK
<1>6. LimitRespected /\ CursorInv
  BY <1>2, <1>4, <1>5, ImageFacts, FormatAssumption
  DEF Begin, ImageHeaders, LimitRespected, CursorInv
<1>7. SegmentsInv
  BY <1>2, <1>3 DEF Begin, ImageHeaders, SegmentsInv, SegmentsDone
<1>8. SectionsInv
  BY <1>2 DEF Begin, ImageHeaders, SectionsInv, SectionsKept, SectionsBegun, PhdrsWritten,
              HeaderFilled, ShdrsWritten
<1>9. TablesInv
  BY DEF Begin, ImageHeaders, TablesInv, PhdrsWritten, HeaderFilled, ShdrsWritten
<1> QED
  BY <1>5, <1>6, <1>7, <1>8, <1>9 DEF IInv, LayoutInv

(* So does the first one.                                                    *)
LEMMA InitInv == Init => IInv
BY BeginInv, ImagesAssumption DEF Init

-----------------------------------------------------------------------------
(* The actions.                                                              *)

(* A call that fails leaves everything as it is; nothing is promised of it   *)
(* but the limit.                                                            *)
LEMMA FailInv == IInv /\ Fail => IInv'
<1> SUFFICES ASSUME IInv, Fail PROVE IInv'
  OBVIOUS
<1> USE DEF IInv, LayoutInv
<1>1. TypeOK'
  BY DEF TypeOK, Fail, layout, names
<1>2. LimitRespected' /\ CursorInv'
  BY DEF LimitRespected, CursorInv, Fail, layout, TablesEnd
<1>3. SegmentsInv'
  BY DEF SegmentsInv, Fail
<1>4. SectionsInv'
  BY DEF SectionsInv, SectionsKept, SectionsBegun, PhdrsWritten, HeaderFilled, ShdrsWritten, Fail
<1>5. TablesInv'
  BY DEF TablesInv, SectionsBegun, PhdrsWritten, HeaderFilled, ShdrsWritten, Fail
<1> QED
  BY <1>1, <1>2, <1>3, <1>4, <1>5

(* A segment without file bytes gets a header without file bytes.            *)
LEMMA SkipSegmentInv == IInv /\ SkipSegment => IInv'
<1> SUFFICES ASSUME IInv, SkipSegment PROVE IInv'
  OBVIOUS
<1> USE DEF IInv, LayoutInv
<1>0. /\ pc = "segments" /\ pc' = "segments" /\ index' = index + 1
      /\ index \in 1..Len(image.segments) /\ Len(image.segments) \in Nat
      /\ Writable(image.segments[index]) = 0
      /\ image' = image /\ out' = out /\ cursor' = cursor /\ sections' = sections
      /\ image.segments[index] \in Segment
  BY ImageFacts DEF SkipSegment, TypeOK, layout
<1>1. /\ phdrs' \in Seq(Phdr) /\ Len(phdrs') = Len(phdrs)
      /\ \A i \in 1..Len(phdrs) : i # index => phdrs'[i] = phdrs[i]
      /\ phdrs'[index] = PhdrAt(phdrs[index], 0, 0)
      /\ phdrs[index] \in Phdr
  <2>1. phdrs \in Seq(Phdr) /\ index \in 1..Len(phdrs)
    BY <1>0 DEF TypeOK
  <2>2. phdrs[index] \in Phdr /\ PhdrAt(phdrs[index], 0, 0) \in Phdr
    BY <2>1, PhdrAtFacts, U64Nat
  <2> QED
    BY <2>1, <2>2, Replaced DEF SkipSegment
<1>2. TypeOK'
  BY <1>0, <1>1 DEF TypeOK, SkipSegment, names
<1>3. LimitRespected' /\ CursorInv'
  BY <1>0 DEF LimitRespected, CursorInv, TablesEnd
<1>4. SegmentsInv'
  <2>1. /\ phdrs'[index].type = phdrs[index].type
        /\ phdrs'[index].vaddr = phdrs[index].vaddr
        /\ phdrs'[index].align = phdrs[index].align
        /\ phdrs'[index].filesz = 0
    BY <1>1, PhdrAtFacts, U64Nat
  <2>2. ASSUME NEW i \in 1..index, i = index PROVE SegmentPlaced(i)'
    <3>1. /\ SegmentBytes(image.segments[i]) = <<>>
          /\ Len(SegmentBytes(image.segments[i])) = 0
      BY <1>0, <2>2, SegmentBytesFacts
    <3> QED
      BY <1>0, <2>1, <2>2, <3>1 DEF SegmentPlaced
  <2>3. ASSUME NEW i \in 1..index, i # index PROVE SegmentPlaced(i)'
    <3>1. i \in 1..(index - 1) /\ i \in 1..Len(phdrs)
      BY <1>0, <2>3 DEF TypeOK
    <3>2. SegmentPlaced(i)
      BY <1>0, <3>1 DEF SegmentsInv, SegmentsDone
    <3>3. phdrs'[i] = phdrs[i]
      BY <1>1, <2>3, <3>1
    <3> QED
      BY <1>0, <3>2, <3>3 DEF SegmentPlaced, TablesEnd
  <2>4. \A i \in 1..index : SegmentPlaced(i)'
    BY <2>2, <2>3
  <2>5. SegmentsDone' = index
    BY <1>0 DEF SegmentsDone
  <2>6. \A i \in 1..Len(image.segments) :
            /\ phdrs'[i].type  = image.segments[i].header.type
            /\ phdrs'[i].vaddr = image.segments[i].header.vaddr
            /\ phdrs'[i].align = image.segments[i].header.align
    BY <1>0, <1>1, <2>1 DEF SegmentsInv, TypeOK
  <2> QED
    BY <1>0, <2>4, <2>5, <2>6 DEF SegmentsInv
<1>5. SectionsInv' /\ TablesInv'
  BY <1>0 DEF SectionsInv, SectionsKept, TablesInv, SectionsBegun, PhdrsWritten, HeaderFilled, ShdrsWritten
<1> QED
  BY <1>2, <1>3, <1>4, <1>5

(* What is written at or after the cursor leaves what is held before it.     *)
LEMMA WritingAhead ==
    ASSUME TypeOK, Len(out) <= cursor, NEW offset \in Nat, cursor <= offset,
           NEW bytes \in Seq(Byte), NEW at \in Nat, NEW kept \in Seq(Byte),
           HoldsAt(out, at, kept)
    PROVE  HoldsAt(WriteAt(out, offset, bytes), at, kept)
<1>1. at + Len(kept) <= Len(out) /\ Len(out) \in Nat /\ cursor \in Nat
  BY DEF HoldsAt, TypeOK
<1>2. at + Len(kept) <= offset
  BY <1>1
<1>3. out \in Seq(Byte)
  BY DEF TypeOK
<1> QED
  BY <1>2, <1>3, WriteAtKeeps

(* The file after a write at or after the cursor.                            *)
LEMMA GrownFile ==
    ASSUME TypeOK, LimitRespected, Len(out) <= cursor, EhSize <= Len(out),
           NEW offset \in Nat, cursor <= offset, NEW bytes \in Seq(Byte),
           Fits(offset, bytes)
    PROVE  LET new == WriteAt(out, offset, bytes)
           IN  /\ new \in Seq(Byte) /\ Len(new) = offset + Len(bytes)
               /\ Len(new) <= MaxImage /\ EhSize <= Len(new)
               /\ HoldsAt(new, offset, bytes)
<1>1. out \in Seq(Byte) /\ cursor \in Nat /\ Len(out) \in Nat /\ Len(bytes) \in Nat
  BY DEF TypeOK
<1>2. Maximum(Len(out), offset + Len(bytes)) = offset + Len(bytes)
  BY <1>1 DEF Maximum
<1>3. EhSize <= offset + Len(bytes)
  BY <1>1, FormatAssumption
<1> QED
  BY <1>1, <1>2, <1>3, WriteAtFile, WriteAtHolds DEF Fits

(* A segment placed at or after the cursor overwrites none that is placed,   *)
(* and its header says where it is.                                          *)
LEMMA PlaceSegmentInv == IInv /\ PlaceSegment => IInv'
<1> SUFFICES ASSUME IInv, PlaceSegment PROVE IInv'
  OBVIOUS
<1> USE DEF IInv, LayoutInv
<1> DEFINE segment == image.segments[index]
           offset  == SegmentOffset(cursor, segment)
           bytes   == SegmentBytes(segment)
<1>1. CASE Fail
  BY <1>1, FailInv
<1>2. CASE ~Fail
  <2>0. /\ pc = "segments" /\ pc' = "segments" /\ index' = index + 1
        /\ index \in 1..Len(image.segments) /\ Len(image.segments) \in Nat
        /\ index \in 1..Len(phdrs) /\ Len(phdrs) = Len(image.segments)
        /\ image' = image /\ sections' = sections
        /\ Fits(offset, bytes)
        /\ out' = WriteAt(out, offset, bytes) /\ cursor' = offset + Len(bytes)
        /\ phdrs' = [phdrs EXCEPT ![index] = PhdrAt(phdrs[index], offset, Len(bytes))]
        /\ segment \in Segment
    BY <1>2, ImageFacts DEF PlaceSegment, TypeOK
  <2>1. /\ bytes \in Seq(Byte) /\ Len(bytes) \in U64 /\ Len(bytes) \in Nat
        /\ cursor \in Nat
    BY <2>0, SegmentBytesFacts, U64Nat DEF TypeOK
  <2>2. offset \in Nat /\ offset <= MaxImage /\ offset < U64Max /\ offset \in U64
    <3>1. offset \in Nat
      BY <2>0, <2>1, SegmentOffsetFacts
    <3> QED
      BY <2>0, <2>1, <3>1, FormatAssumption, U64MaxAssumption DEF Fits, U64
  <2>3. cursor <= offset /\ TablesEnd <= cursor /\ Len(out) <= cursor
        /\ EhSize <= Len(out) /\ TablesEnd <= offset
    <3>1. cursor <= offset
      BY <2>0, <2>1, <2>2, SegmentOffsetFacts
    <3>2. TablesEnd <= cursor /\ Len(out) <= cursor /\ EhSize <= Len(out)
      BY <2>0 DEF CursorInv
    <3>3. TablesEnd \in Nat
      BY ImageFacts
    <3> HIDE DEF offset
    <3>4. TablesEnd <= offset
      BY <2>1, <2>2, <3>1, <3>2, <3>3
    <3> QED
      BY <3>1, <3>2, <3>4
  <2>4. /\ out' \in Seq(Byte) /\ Len(out') = offset + Len(bytes)
        /\ Len(out') <= MaxImage /\ EhSize <= Len(out')
        /\ HoldsAt(out', offset, bytes)
    BY <2>0, <2>1, <2>2, <2>3, GrownFile
  <2>5. /\ phdrs' \in Seq(Phdr) /\ Len(phdrs') = Len(phdrs)
        /\ \A i \in 1..Len(phdrs) : i # index => phdrs'[i] = phdrs[i]
        /\ phdrs'[index] = PhdrAt(phdrs[index], offset, Len(bytes))
        /\ phdrs[index] \in Phdr
    <3>1. phdrs \in Seq(Phdr) /\ index \in 1..Len(phdrs)
      BY <2>0 DEF TypeOK
    <3>2. phdrs[index] \in Phdr /\ PhdrAt(phdrs[index], offset, Len(bytes)) \in Phdr
      BY <2>1, <2>2, <3>1, PhdrAtFacts
    <3> HIDE DEF offset, bytes
    <3> QED
      BY <2>0, <3>1, <3>2, Replaced
  <2>6. /\ phdrs'[index].offset = offset /\ phdrs'[index].filesz = Len(bytes)
        /\ phdrs'[index].type = phdrs[index].type
        /\ phdrs'[index].vaddr = phdrs[index].vaddr
        /\ phdrs'[index].align = phdrs[index].align
    BY <2>1, <2>2, <2>5, PhdrAtFacts
  <2>7. \A i \in 1..Len(image.segments) :
            /\ phdrs'[i].type  = image.segments[i].header.type
            /\ phdrs'[i].vaddr = image.segments[i].header.vaddr
            /\ phdrs'[i].align = image.segments[i].header.align
    BY <2>0, <2>5, <2>6 DEF SegmentsInv
  <2>8. ASSUME NEW i \in 1..index, i # index PROVE SegmentPlaced(i)'
    <3>1. i \in 1..(index - 1) /\ i \in 1..Len(phdrs) /\ image.segments[i] \in Segment
      BY <2>0, <2>8, ImageFacts
    <3>2. SegmentPlaced(i) /\ phdrs'[i] = phdrs[i] /\ phdrs[i] \in Phdr
      BY <2>0, <2>5, <2>8, <3>1 DEF SegmentsInv, SegmentsDone, TypeOK
    <3> DEFINE kept == SegmentBytes(image.segments[i])
               at   == phdrs[i].offset
    <3>3. kept \in Seq(Byte) /\ at \in Nat
      BY <3>1, <3>2, SegmentBytesFacts, U64Nat DEF Phdr
    <3>4. kept # <<>> => HoldsAt(out', at, kept)
      <4>1. kept # <<>> => HoldsAt(out, at, kept)
        BY <3>2 DEF SegmentPlaced
      <4> HIDE DEF kept, at, offset, bytes
      <4> QED
        BY <2>0, <2>1, <2>2, <2>3, <3>3, <4>1, WritingAhead
    <3> QED
      BY <2>0, <3>2, <3>4 DEF SegmentPlaced, TablesEnd
  <2>9. ASSUME NEW i \in 1..index, i = index PROVE SegmentPlaced(i)'
    <3>1. TablesEnd' = TablesEnd /\ SegmentBytes(image'.segments[i]) = bytes
      BY <2>0, <2>9 DEF TablesEnd
    <3>2. phdrs'[i].type = "LOAD" /\ phdrs'[i].align > 1 =>
              phdrs'[i].offset % phdrs'[i].align = phdrs'[i].vaddr % phdrs'[i].align
      <4>1. /\ phdrs'[i].type = segment.header.type
            /\ phdrs'[i].vaddr = segment.header.vaddr
            /\ phdrs'[i].align = segment.header.align
        BY <2>0, <2>7, <2>9
      <4>2. segment.header.type = "LOAD" /\ segment.header.align > 1 =>
                offset % segment.header.align = segment.header.vaddr % segment.header.align
        BY <2>0, <2>1, <2>2, SegmentOffsetFacts DEF IsLoad
      <4>3. phdrs'[i].offset = offset
        BY <2>6, <2>9
      <4> HIDE DEF segment, offset
      <4> QED
        BY <4>1, <4>2, <4>3, Zenon
    <3> HIDE DEF offset, bytes
    <3> QED
      BY <2>3, <2>4, <2>6, <2>9, <3>1, <3>2 DEF SegmentPlaced
  <2>10. SegmentsInv'
    <3>1. \A i \in 1..index : SegmentPlaced(i)'
      BY <2>8, <2>9
    <3>2. SegmentsDone' = index
      BY <2>0 DEF SegmentsDone
    <3> QED
      BY <2>0, <2>7, <3>1, <3>2 DEF SegmentsInv
  <2>11. TypeOK'
    <3>1. shstrndx' = shstrndx /\ blob' = blob /\ offsets' = offsets /\ header' = header
      BY <1>2 DEF PlaceSegment, names
    <3> HIDE DEF offset, bytes
    <3> QED
      BY <2>0, <2>1, <2>2, <2>4, <2>5, <3>1 DEF TypeOK
  <2>12. LimitRespected' /\ CursorInv'
    <3>1. TablesEnd' = TablesEnd /\ TablesEnd \in Nat
      BY <2>0, ImageFacts DEF TablesEnd
    <3> HIDE DEF offset, bytes
    <3> QED
      BY <2>0, <2>1, <2>2, <2>3, <2>4, <3>1 DEF LimitRespected, CursorInv
  <2>13. SectionsInv' /\ TablesInv'
    BY <2>0 DEF SectionsInv, SectionsKept, TablesInv,
                SectionsBegun, PhdrsWritten, HeaderFilled, ShdrsWritten
  <2> QED
    BY <2>10, <2>11, <2>12, <2>13
<1> QED
  BY <1>1, <1>2

-----------------------------------------------------------------------------
(* What a step that moves no segment and no section keeps of them.           *)

(* The step keeps whatever the file holds behind the header tables.          *)
KeepsData ==
    \A at \in Nat : \A kept \in Seq(Byte) :
        TablesEnd <= at /\ HoldsAt(out, at, kept) => HoldsAt(out', at, kept)

(* Writing at or after the cursor keeps all data behind the tables.          *)
LEMMA KeepsAhead ==
    ASSUME TypeOK, Len(out) <= cursor, NEW offset \in Nat, cursor <= offset,
           NEW bytes \in Seq(Byte), out' = WriteAt(out, offset, bytes)
    PROVE  KeepsData
BY WritingAhead DEF KeepsData

(* Writing into the area reserved for the tables keeps all data behind it.   *)
LEMMA KeepsBehind ==
    ASSUME TypeOK, NEW offset \in Nat, NEW bytes \in Seq(Byte),
           offset + Len(bytes) <= TablesEnd, out' = WriteAt(out, offset, bytes)
    PROVE  KeepsData
<1> SUFFICES ASSUME NEW at \in Nat, NEW kept \in Seq(Byte),
                    TablesEnd <= at, HoldsAt(out, at, kept)
             PROVE  HoldsAt(out', at, kept)
  BY DEF KeepsData
<1>1. out \in Seq(Byte) /\ TablesEnd \in Nat /\ Len(bytes) \in Nat
  BY ImageFacts DEF TypeOK
<1>2. offset + Len(bytes) <= at
  BY <1>1
<1> QED
  BY <1>1, <1>2, WriteAtKeeps

(* A step that keeps the data and the program headers keeps every placed     *)
(* segment.                                                                  *)
LEMMA SegmentsStay ==
    ASSUME IInv, KeepsData, image' = image, phdrs' = phdrs,
           pc # "error", pc' # "segments",
           pc = "segments" => index > Len(image.segments)
    PROVE  SegmentsInv'
<1> USE DEF IInv, LayoutInv
<1>0. Len(image.segments) \in Nat /\ index \in Nat
  BY ImageFacts DEF TypeOK
<1>1. ASSUME NEW i \in 1..Len(image.segments) PROVE SegmentPlaced(i)'
  <2>1. i \in 1..SegmentsDone
    BY <1>0 DEF SegmentsDone
  <2>2. SegmentPlaced(i) /\ phdrs[i] \in Phdr /\ image.segments[i] \in Segment
    BY <2>1, ImageFacts DEF SegmentsInv, TypeOK
  <2> DEFINE kept == SegmentBytes(image.segments[i])
             at   == phdrs[i].offset
  <2>3. kept \in Seq(Byte) /\ at \in Nat
    BY <2>2, SegmentBytesFacts, U64Nat DEF Phdr
  <2>4. kept # <<>> => TablesEnd <= at /\ HoldsAt(out, at, kept)
    BY <2>2 DEF SegmentPlaced
  <2>5. kept # <<>> => HoldsAt(out', at, kept)
    <3> HIDE DEF kept, at
    <3> QED
      BY <2>3, <2>4 DEF KeepsData
  <2> QED
    BY <2>2, <2>5 DEF SegmentPlaced, TablesEnd
<1>2. SegmentsDone' = Len(image.segments)
  BY DEF SegmentsDone
<1> QED
  BY <1>1, <1>2 DEF SegmentsInv

(* A step that keeps the data and one section keeps that section placed.     *)
LEMMA SectionStays ==
    ASSUME TypeOK, KeepsData, image' = image, NEW i \in 1..Len(sections),
           sections'[i] = sections[i], SectionPlaced(i)
    PROVE  SectionPlaced(i)'
<1>1. sections[i] \in Section
  BY DEF TypeOK
<1> DEFINE kept == sections[i].data
           at   == sections[i].header.offset
<1>2. kept \in Seq(Byte) /\ at \in Nat
  <2>1. sections[i].header \in Shdr
    BY <1>1, SectionFacts
  <2>2. at \in U64
    BY <2>1 DEF Shdr
  <2> QED
    BY <1>1, <2>2, SectionFacts, U64Nat
<1>3. ~IsNobits(sections[i]) /\ kept # <<>> => TablesEnd <= at /\ HoldsAt(out, at, kept)
  BY DEF SectionPlaced
<1>4. ~IsNobits(sections[i]) /\ kept # <<>> => HoldsAt(out', at, kept)
  <2> HIDE DEF kept, at
  <2> QED
    BY <1>2, <1>3 DEF KeepsData
<1> QED
  BY <1>4 DEF SectionPlaced, TablesEnd

(* Once every section is placed, a step that leaves them alone keeps them.   *)
LEMMA SectionsStay ==
    ASSUME IInv, KeepsData, image' = image, sections' = sections,
           pc \in {"sections", "phdrs", "header", "shdrs", "ehdr"},
           pc' \in {"phdrs", "header", "shdrs", "ehdr", "done"},
           pc = "sections" => index > Len(sections)
    PROVE  SectionsInv'
<1> USE DEF IInv, LayoutInv
<1>0. Len(sections) \in Nat /\ index \in Nat
  BY DEF TypeOK
<1>1. SectionsBegun
  BY DEF SectionsBegun, PhdrsWritten, HeaderFilled, ShdrsWritten
<1>2. ASSUME NEW i \in 1..Len(sections) PROVE SectionPlaced(i)'
  <2>1. i \in 1..SectionsDone
    BY <1>0 DEF SectionsDone
  <2>2. SectionPlaced(i)
    BY <1>1, <2>1 DEF SectionsInv
  <2> QED
    BY <2>2, SectionStays
<1>3. SectionsDone' = Len(sections)
  BY DEF SectionsDone
<1>4. SectionsKept'
  BY DEF SectionsInv, SectionsKept
<1> QED
  BY <1>2, <1>3, <1>4 DEF SectionsInv

-----------------------------------------------------------------------------
(* Section names.                                                            *)

(* The appended name table is a section.                                     *)
LEMMA NewShstrtabType == NewShstrtab \in Section
<1>1. 0 \in U64 /\ 1 \in U64
  BY FormatAssumption, U64MaxAssumption DEF U64
<1>2. NewShstrtab.header \in Shdr
  BY <1>1 DEF NewShstrtab, Shdr, SectionTypes
<1>3. NewShstrtab.name \in Names /\ NewShstrtab.data \in Seq(Byte)
  BY FormatAssumption DEF NewShstrtab
<1> QED
  BY <1>2, <1>3 DEF Section, NewShstrtab

(* Finding or appending the name table moves no section of the image.        *)
LEMMA EnsureShstrtabInv == IInv /\ EnsureShstrtab => IInv'
<1> SUFFICES ASSUME IInv, EnsureShstrtab PROVE IInv'
  OBVIOUS
<1> USE DEF IInv, LayoutInv
<1>0. /\ pc = "segments" /\ index > Len(image.segments) /\ index' = 1
      /\ image' = image /\ out' = out /\ cursor' = cursor /\ phdrs' = phdrs
      /\ header' = header /\ blob' = <<Zero>> /\ offsets' = <<>>
      /\ pc' \in {"names", "phdrs"}
      /\ sections \in Seq(Section) /\ Len(sections) \in Nat
      /\ Len(image.segments) \in Nat /\ Len(image.sections) \in Nat
  BY ImageFacts DEF EnsureShstrtab, layout, TypeOK
<1>1. /\ sections' \in Seq(Section) /\ Len(sections') \in Nat
      /\ Len(sections) <= Len(sections')
      /\ \A i \in 1..Len(sections) : sections'[i] = sections[i]
      /\ pc' = "phdrs" => sections' = sections /\ sections = <<>>
      /\ shstrndx' \in 0..U16Max
  <2>1. CASE sections = <<>>
    BY <1>0, <2>1 DEF EnsureShstrtab, TypeOK
  <2>2. CASE sections # <<>>
    <3>0. PICK at \in 1..(Len(sections) + 1) :
              ShstrtabAt(at) /\ shstrndx' = IF at - 1 <= U16Max THEN at - 1 ELSE 0
      BY <2>2 DEF EnsureShstrtab
    <3>1. sections' = sections \/ sections' = Append(sections, NewShstrtab)
      BY <3>0 DEF ShstrtabAt
    <3>2. shstrndx' \in 0..U16Max
      BY <1>0, <3>0, FormatAssumption
    <3>3. pc' = "names"
      BY <2>2 DEF EnsureShstrtab
    <3>4. CASE sections' = sections
      BY <1>0, <3>2, <3>3, <3>4
    <3>5. CASE sections' = Append(sections, NewShstrtab)
      BY <1>0, <3>2, <3>3, <3>5, NewShstrtabType, Appended
    <3> QED
      BY <3>1, <3>4, <3>5
  <2> QED
    BY <2>1, <2>2
<1>2. TypeOK'
  <2>1. blob' \in Seq(RawByte) /\ offsets' \in Seq(Nat)
    <3>1. Zero \in RawByte
      BY FormatAssumption DEF Zero, RawByte
    <3> QED
      BY <1>0, <3>1
  <2> QED
    BY <1>0, <1>1, <2>1 DEF TypeOK
<1>3. LimitRespected' /\ CursorInv'
  BY <1>0 DEF LimitRespected, CursorInv, TablesEnd
<1>4. SegmentsInv'
  <2>1. KeepsData
    BY <1>0 DEF KeepsData
  <2> QED
    BY <1>0, <2>1, SegmentsStay
<1>5. SectionsInv'
  <2>1. SectionsKept'
    <3>1. Len(image.sections) <= Len(sections)
      BY DEF SectionsInv, SectionsKept
    <3>2. ASSUME NEW i \in 1..Len(image.sections)
          PROVE  /\ sections'[i].name = image.sections[i].name
                 /\ sections'[i].header.type = image.sections[i].header.type
                 /\ ~IsShstrtab(image.sections[i]) =>
                        sections'[i].data = image.sections[i].data
      <4>1. sections'[i] = sections[i]
        BY <1>0, <1>1, <3>1
      <4> QED
        BY <4>1 DEF SectionsInv, SectionsKept
    <3> QED
      BY <1>0, <1>1, <3>1, <3>2 DEF SectionsKept
  <2>2. SectionsBegun' => \A i \in 1..SectionsDone' : SectionPlaced(i)'
    BY <1>0, <1>1 DEF SectionsBegun, PhdrsWritten, HeaderFilled, ShdrsWritten,
                      SectionsDone
  <2> QED
    BY <2>1, <2>2 DEF SectionsInv
<1>6. TablesInv'
  BY <1>0 DEF TablesInv, PhdrsWritten, HeaderFilled, ShdrsWritten
<1> QED
  BY <1>2, <1>3, <1>4, <1>5, <1>6

(* Collecting a name adds one offset and touches no section.                 *)
LEMMA CollectNameInv == IInv /\ CollectName => IInv'
<1> SUFFICES ASSUME IInv, CollectName PROVE IInv'
  OBVIOUS
<1> USE DEF IInv, LayoutInv
<1>0. /\ pc = "names" /\ pc' = "names" /\ index' = index + 1
      /\ index \in 1..Len(sections) /\ Len(sections) \in Nat
      /\ image' = image /\ out' = out /\ cursor' = cursor /\ phdrs' = phdrs
      /\ sections' = sections /\ shstrndx' = shstrndx /\ header' = header
      /\ blob \in Seq(RawByte) /\ offsets \in Seq(Nat) /\ Len(blob) \in Nat
  BY DEF CollectName, layout, TypeOK
<1>1. /\ blob' \in Seq(RawByte)
      /\ offsets' \in Seq(Nat) /\ Len(offsets') = Len(offsets) + 1
  <2>1. Zero \in RawByte
    BY FormatAssumption DEF Zero, RawByte
  <2>2. NameBytes[sections[index].name] \in Seq(RawByte)
    <3>1. sections[index] \in Section
      BY <1>0 DEF TypeOK
    <3>2. sections[index].name \in Names
      BY <3>1 DEF Section
    <3>3. NameBytes[sections[index].name] \in Seq(RawByte \ {Zero})
      BY <3>2, FormatAssumption
    <3> QED
      BY <3>3
  <2> QED
    BY <1>0, <2>1, <2>2 DEF CollectName
<1>2. TypeOK'
  BY <1>0, <1>1 DEF TypeOK
<1>3. LimitRespected' /\ CursorInv'
  BY <1>0 DEF LimitRespected, CursorInv, TablesEnd
<1>4. SegmentsInv'
  <2>1. KeepsData
    BY <1>0 DEF KeepsData
  <2> QED
    BY <1>0, <2>1, SegmentsStay
<1>5. SectionsInv' /\ TablesInv'
  BY <1>0, <1>1 DEF SectionsInv, SectionsKept, TablesInv, SectionsBegun, PhdrsWritten,
                    HeaderFilled, ShdrsWritten
<1> QED
  BY <1>2, <1>3, <1>4, <1>5

(* Naming a section changes the data of name tables only.                    *)
LEMMA NamedFacts ==
    ASSUME TypeOK, NEW section \in Section, NEW offset \in Nat
    PROVE  LET new == Named(section, offset)
           IN  /\ new \in Section
               /\ new.name = section.name
               /\ new.header.type = section.header.type
               /\ ~IsShstrtab(section) => new.data = section.data
<1>0. blob \in Seq(Byte) /\ Len(blob) \in Nat
  <2>1. blob \in Seq(RawByte)
    BY DEF TypeOK
  <2>2. RawByte \subseteq Byte
    BY DEF Byte
  <2> QED
    BY <2>1, <2>2
<1>1. CASE IsShstrtab(section)
  BY <1>0, <1>1 DEF Named, Section, Shdr
<1>2. CASE ~IsShstrtab(section)
  BY <1>2 DEF Named, Section, Shdr
<1> QED
  BY <1>1, <1>2

(* Assigning the names keeps the sections those of the image.                *)
LEMMA AssignNamesInv == IInv /\ AssignNames => IInv'
<1> SUFFICES ASSUME IInv, AssignNames PROVE IInv'
  OBVIOUS
<1> USE DEF IInv, LayoutInv
<1>0. /\ pc = "names" /\ pc' = "sections" /\ index' = 1
      /\ index > Len(sections) /\ index \in Nat /\ Len(sections) \in Nat
      /\ image' = image /\ out' = out /\ cursor' = cursor /\ phdrs' = phdrs
      /\ shstrndx' = shstrndx /\ blob' = blob /\ offsets' = offsets
      /\ header' = header
      /\ sections \in Seq(Section) /\ offsets \in Seq(Nat)
  BY DEF AssignNames, layout, names, TypeOK
<1>1. Len(offsets) = Len(sections)
  BY <1>0 DEF SectionsInv, SectionsKept
<1>2. ASSUME NEW i \in 1..Len(sections)
      PROVE  /\ Named(sections[i], offsets[i]) \in Section
             /\ Named(sections[i], offsets[i]).name = sections[i].name
             /\ Named(sections[i], offsets[i]).header.type = sections[i].header.type
             /\ ~IsShstrtab(sections[i]) =>
                    Named(sections[i], offsets[i]).data = sections[i].data
  <2>1. sections[i] \in Section /\ offsets[i] \in Nat
    BY <1>0, <1>1
  <2> QED
    BY <2>1, NamedFacts
<1>3. sections' = [i \in 1..Len(sections) |-> Named(sections[i], offsets[i])]
  BY DEF AssignNames
<1>4. sections' \in Seq(Section) /\ Len(sections') = Len(sections)
  <2>1. sections' \in [1..Len(sections) -> Section]
    BY <1>2, <1>3
  <2> QED
    BY <1>0, <1>3, <2>1
<1>5. TypeOK'
  BY <1>0, <1>4 DEF TypeOK
<1>6. LimitRespected' /\ CursorInv'
  BY <1>0, <1>4 DEF LimitRespected, CursorInv, TablesEnd
<1>7. SegmentsInv'
  <2>1. KeepsData
    BY <1>0 DEF KeepsData
  <2> QED
    BY <1>0, <2>1, SegmentsStay
<1>8. SectionsInv'
  <2>1. SectionsKept'
    <3>1. Len(image.sections) <= Len(sections) /\ Len(image.sections) \in Nat
      BY ImageFacts DEF SectionsInv, SectionsKept
    <3>2. ASSUME NEW i \in 1..Len(image.sections)
          PROVE  /\ sections'[i].name = image.sections[i].name
                 /\ sections'[i].header.type = image.sections[i].header.type
                 /\ ~IsShstrtab(image.sections[i]) =>
                        sections'[i].data = image.sections[i].data
      <4>1. i \in 1..Len(sections)
        BY <1>0, <3>1
      <4>2. /\ sections[i].name = image.sections[i].name
            /\ sections[i].header.type = image.sections[i].header.type
            /\ ~IsShstrtab(image.sections[i]) => sections[i].data = image.sections[i].data
        BY DEF SectionsInv, SectionsKept
      <4>3. sections'[i] = Named(sections[i], offsets[i])
        BY <1>3, <4>1
      <4>4. IsShstrtab(sections[i]) <=> IsShstrtab(image.sections[i])
        BY <4>2 DEF IsShstrtab
      <4> QED
        BY <1>2, <4>1, <4>2, <4>3, <4>4
    <3> QED
      BY <1>0, <1>4, <3>1, <3>2 DEF SectionsKept
  <2>2. SectionsDone' = 0
    BY <1>0 DEF SectionsDone
  <2> QED
    BY <2>1, <2>2 DEF SectionsInv
<1>9. TablesInv'
  BY <1>0 DEF TablesInv, PhdrsWritten, HeaderFilled, ShdrsWritten
<1> QED
  BY <1>5, <1>6, <1>7, <1>8, <1>9

-----------------------------------------------------------------------------
(* Section data.                                                             *)

(* One section moved to `offset`: what that keeps, and what is left to show  *)
(* of a step that has placed one section more.                               *)
LEMMA SectionMoved ==
    ASSUME IInv, KeepsData, pc = "sections", pc' = "sections",
           NEW i \in 1..Len(sections), i = index, index' = index + 1,
           image' = image, NEW offset \in U64,
           sections' = [sections EXCEPT ![i] = SectionAt(sections[i], offset)],
           SectionPlaced(i)'
    PROVE  /\ sections' \in Seq(Section) /\ Len(sections') = Len(sections)
           /\ SectionsInv'
<1> USE DEF IInv, LayoutInv
<1>0. /\ sections \in Seq(Section) /\ Len(sections) \in Nat
      /\ sections[i] \in Section /\ SectionAt(sections[i], offset) \in Section
      /\ Len(image.sections) \in Nat
  BY SectionAtFacts, ImageFacts DEF TypeOK
<1>1. /\ sections' \in Seq(Section) /\ Len(sections') = Len(sections)
      /\ sections'[i] = SectionAt(sections[i], offset)
      /\ \A j \in 1..Len(sections) : j # i => sections'[j] = sections[j]
  BY <1>0, Replaced
<1>2. ASSUME NEW j \in 1..Len(sections)
      PROVE  /\ sections'[j].name = sections[j].name
             /\ sections'[j].data = sections[j].data
             /\ sections'[j].header.type = sections[j].header.type
  <2>1. CASE j = i
    BY <1>0, <1>1, <2>1, SectionAtFacts
  <2>2. CASE j # i
    BY <1>1, <2>2
  <2> QED
    BY <2>1, <2>2
<1>3. SectionsKept'
  <2>1. Len(image.sections) <= Len(sections)
    BY DEF SectionsInv, SectionsKept
  <2>2. ASSUME NEW j \in 1..Len(image.sections)
        PROVE  /\ sections'[j].name = image.sections[j].name
               /\ sections'[j].header.type = image.sections[j].header.type
               /\ ~IsShstrtab(image.sections[j]) =>
                      sections'[j].data = image.sections[j].data
    <3>1. j \in 1..Len(sections)
      BY <1>0, <2>1
    <3> QED
      BY <1>2, <3>1 DEF SectionsInv, SectionsKept
  <2> QED
    BY <1>1, <2>1, <2>2 DEF SectionsKept
<1>4. ASSUME NEW j \in 1..i PROVE SectionPlaced(j)'
  <2>1. CASE j = i
    BY <2>1
  <2>2. CASE j # i
    <3>1. j \in 1..(index - 1) /\ j \in 1..Len(sections)
      BY <1>0, <2>2
    <3>2. SectionPlaced(j) /\ sections'[j] = sections[j]
      BY <1>1, <2>2, <3>1 DEF SectionsInv, SectionsDone, SectionsBegun
    <3> QED
      BY <3>1, <3>2, SectionStays
  <2> QED
    BY <2>1, <2>2
<1>5. SectionsDone' = i
  BY DEF SectionsDone
<1> QED
  BY <1>1, <1>3, <1>4, <1>5 DEF SectionsInv

(* A section without file bytes gets size zero or is left alone.             *)
LEMMA SkipSectionInv == IInv /\ SkipSection => IInv'
<1> SUFFICES ASSUME IInv, SkipSection PROVE IInv'
  OBVIOUS
<1> USE DEF IInv, LayoutInv
<1>0. /\ pc = "sections" /\ pc' = "sections" /\ index' = index + 1
      /\ index \in 1..Len(sections) /\ Len(sections) \in Nat
      /\ image' = image /\ out' = out /\ cursor' = cursor /\ phdrs' = phdrs
      /\ shstrndx' = shstrndx /\ blob' = blob /\ offsets' = offsets
      /\ header' = header /\ sections \in Seq(Section)
      /\ sections[index] \in Section
  BY DEF SkipSection, layout, names, TypeOK
<1>1. KeepsData
  BY <1>0 DEF KeepsData
<1>2. sections' \in Seq(Section) /\ Len(sections') = Len(sections) /\ SectionsInv'
  <2>1. CASE IsNobits(sections[index]) /\ sections' = sections
    <3>1. ASSUME NEW j \in 1..index PROVE SectionPlaced(j)'
      <4>1. CASE j = index
        BY <1>0, <2>1, <4>1 DEF SectionPlaced
      <4>2. CASE j # index
        <5>1. j \in 1..(index - 1) /\ j \in 1..Len(sections)
          BY <1>0, <4>2
        <5>2. SectionPlaced(j)
          BY <1>0, <5>1 DEF SectionsInv, SectionsDone, SectionsBegun
        <5> QED
          BY <1>0, <1>1, <2>1, <5>1, <5>2, SectionStays
      <4> QED
        BY <4>1, <4>2
    <3>2. SectionsDone' = index
      BY <1>0 DEF SectionsDone
    <3>3. SectionsKept'
      BY <1>0, <2>1 DEF SectionsInv, SectionsKept
    <3> QED
      BY <1>0, <2>1, <3>1, <3>2, <3>3 DEF SectionsInv
  <2>2. CASE ~IsNobits(sections[index]) /\ sections[index].data = <<>>
    <3> DEFINE offset == sections[index].header.offset
    <3>1. offset \in U64
      <4>1. sections[index].header \in Shdr
        BY <1>0, SectionFacts
      <4> QED
        BY <4>1 DEF Shdr
    <3>2. sections' = [sections EXCEPT ![index] = SectionAt(sections[index], offset)]
      BY <2>2 DEF SkipSection
    <3>3. ASSUME NEW i \in 1..Len(sections), i = index PROVE SectionPlaced(i)'
      <4>1. sections'[i] = SectionAt(sections[i], offset)
        BY <1>0, <3>2, <3>3
      <4>2. sections'[i].data = <<>> /\ sections'[i].header.size = Len(sections'[i].data)
        <5> HIDE DEF offset
        <5> QED
          BY <1>0, <2>2, <3>1, <3>3, <4>1, SectionAtFacts
      <4> QED
        BY <4>2 DEF SectionPlaced
    <3>4. PICK i \in 1..Len(sections) : i = index
      BY <1>0
    <3> HIDE DEF offset
    <3>5. sections' = [sections EXCEPT ![i] = SectionAt(sections[i], offset)]
      BY <3>2, <3>4
    <3> QED
      BY <1>0, <1>1, <3>1, <3>3, <3>4, <3>5, SectionMoved
  <2> QED
    BY <2>1, <2>2 DEF SkipSection
<1>3. TypeOK'
  BY <1>0, <1>2 DEF TypeOK
<1>4. LimitRespected' /\ CursorInv'
  BY <1>0, <1>2 DEF LimitRespected, CursorInv, TablesEnd
<1>5. SegmentsInv'
  BY <1>0, <1>1, SegmentsStay
<1>6. TablesInv'
  BY <1>0 DEF TablesInv, PhdrsWritten, HeaderFilled, ShdrsWritten
<1> QED
  BY <1>2, <1>3, <1>4, <1>5, <1>6

(* A section placed at or after the cursor overwrites nothing, and its       *)
(* header says where it is.                                                  *)
LEMMA PlaceSectionInv == IInv /\ PlaceSection => IInv'
<1> SUFFICES ASSUME IInv, PlaceSection PROVE IInv'
  OBVIOUS
<1> USE DEF IInv, LayoutInv
<1> DEFINE section == sections[index]
           align   == Maximum(section.header.addralign, 1)
           offset  == AlignUp(cursor, align)
           bytes   == section.data
<1>1. CASE Fail
  BY <1>1, FailInv
<1>2. CASE ~Fail
  <2>0. /\ pc = "sections" /\ pc' = "sections" /\ index' = index + 1
        /\ index \in 1..Len(sections) /\ Len(sections) \in Nat
        /\ image' = image /\ phdrs' = phdrs
        /\ Fits(offset, bytes)
        /\ out' = WriteAt(out, offset, bytes) /\ cursor' = offset + Len(bytes)
        /\ sections' = [sections EXCEPT ![index] = SectionAt(section, offset)]
        /\ section \in Section
    BY <1>2 DEF PlaceSection, TypeOK
  <2>1. bytes \in Seq(Byte) /\ Len(bytes) \in Nat /\ cursor \in Nat /\ align \in Nat
    BY <2>0, SectionFacts DEF TypeOK, Maximum
  <2>2. offset \in Nat /\ offset <= MaxImage /\ offset < U64Max /\ offset \in U64
    <3>1. offset \in Nat
      <4> HIDE DEF align
      <4> QED
        BY <2>1, AlignUpFacts
    <3> HIDE DEF bytes
    <3> QED
      BY <2>0, <2>1, <3>1, FormatAssumption, U64MaxAssumption DEF Fits, U64
  <2>3. cursor <= offset /\ TablesEnd <= cursor /\ Len(out) <= cursor
        /\ EhSize <= Len(out) /\ TablesEnd <= offset
    <3>1. cursor <= offset
      <4> HIDE DEF align
      <4> QED
        BY <2>1, <2>2, AlignUpFacts
    <3>2. TablesEnd <= cursor /\ Len(out) <= cursor /\ EhSize <= Len(out)
      BY <2>0 DEF CursorInv
    <3>3. TablesEnd \in Nat
      BY ImageFacts
    <3> HIDE DEF offset
    <3>4. TablesEnd <= offset
      BY <2>1, <2>2, <3>1, <3>2, <3>3
    <3> QED
      BY <3>1, <3>2, <3>4
  <2> HIDE DEF offset
  <2>4. /\ out' \in Seq(Byte) /\ Len(out') = offset + Len(bytes)
        /\ Len(out') <= MaxImage /\ EhSize <= Len(out')
        /\ HoldsAt(out', offset, bytes)
    BY <2>0, <2>1, <2>2, <2>3, GrownFile
  <2>5. KeepsData
    BY <2>0, <2>1, <2>2, <2>3, KeepsAhead
  <2>6. PICK i \in 1..Len(sections) : i = index
    BY <2>0
  <2>7. sections' = [sections EXCEPT ![i] = SectionAt(sections[i], offset)]
    BY <2>0, <2>6
  <2>8. SectionPlaced(i)'
    <3>1. sections'[i] = SectionAt(section, offset)
      BY <2>0, <2>6
    <3>2. /\ sections'[i].data = bytes
          /\ sections'[i].header.offset = offset
          /\ sections'[i].header.size = Len(bytes)
      <4> HIDE DEF section
      <4> QED
        BY <2>0, <2>2, <3>1, SectionAtFacts DEF bytes
    <3>3. TablesEnd' = TablesEnd
      BY <2>0 DEF TablesEnd
    <3> HIDE DEF bytes
    <3> QED
      BY <2>3, <2>4, <3>2, <3>3 DEF SectionPlaced
  <2>9. sections' \in Seq(Section) /\ Len(sections') = Len(sections) /\ SectionsInv'
    BY <2>0, <2>2, <2>5, <2>6, <2>7, <2>8, SectionMoved
  <2>10. TypeOK'
    <3>1. shstrndx' = shstrndx /\ blob' = blob /\ offsets' = offsets /\ header' = header
      BY <1>2 DEF PlaceSection, names
    <3> HIDE DEF bytes
    <3> QED
      BY <2>0, <2>1, <2>2, <2>4, <2>9, <3>1 DEF TypeOK
  <2>11. LimitRespected' /\ CursorInv'
    <3>1. TablesEnd' = TablesEnd /\ TablesEnd \in Nat
      BY <2>0, ImageFacts DEF TablesEnd
    <3> HIDE DEF bytes
    <3> QED
      BY <2>0, <2>1, <2>2, <2>3, <2>4, <2>9, <3>1 DEF LimitRespected, CursorInv
  <2>12. SegmentsInv'
    BY <2>0, <2>5, SegmentsStay
  <2>13. TablesInv'
    BY <2>0 DEF TablesInv, PhdrsWritten, HeaderFilled, ShdrsWritten
  <2> QED
    BY <2>9, <2>10, <2>11, <2>12, <2>13
<1> QED
  BY <1>1, <1>2

(* After the last section all of them are placed.                            *)
LEMMA SectionsPlacedInv == IInv /\ SectionsPlaced => IInv'
<1> SUFFICES ASSUME IInv, SectionsPlaced PROVE IInv'
  OBVIOUS
<1> USE DEF IInv, LayoutInv
<1>0. /\ pc = "sections" /\ pc' = "phdrs" /\ index > Len(sections)
      /\ image' = image /\ index' = index /\ out' = out /\ cursor' = cursor
      /\ phdrs' = phdrs /\ sections' = sections /\ shstrndx' = shstrndx
      /\ blob' = blob /\ offsets' = offsets /\ header' = header
  BY DEF SectionsPlaced, layout, names
<1>1. KeepsData
  BY <1>0 DEF KeepsData
<1>2. TypeOK'
  BY <1>0 DEF TypeOK
<1>3. LimitRespected' /\ CursorInv'
  BY <1>0 DEF LimitRespected, CursorInv, TablesEnd
<1>4. SegmentsInv' /\ SectionsInv'
  BY <1>0, <1>1, SegmentsStay, SectionsStay
<1>5. TablesInv'
  BY <1>0 DEF TablesInv, PhdrsWritten, HeaderFilled, ShdrsWritten
<1> QED
  BY <1>2, <1>3, <1>4, <1>5

-----------------------------------------------------------------------------
(* The three headers.                                                        *)

(* The program header table fills the area reserved for it and no more.      *)
LEMMA WriteProgramHeadersInv == IInv /\ WriteProgramHeaders => IInv'
<1> SUFFICES ASSUME IInv, WriteProgramHeaders PROVE IInv'
  OBVIOUS
<1> USE DEF IInv, LayoutInv
<1> DEFINE table == EncodedTable(phdrs, PhEntSize)
<1>1. CASE Fail
  BY <1>1, FailInv
<1>2. CASE ~Fail
  <2>0. /\ pc = "phdrs" /\ pc' = "header" /\ Fits(EhSize, table)
        /\ out' = WriteAt(out, EhSize, table)
        /\ image' = image /\ index' = index /\ cursor' = cursor
        /\ phdrs' = phdrs /\ sections' = sections /\ shstrndx' = shstrndx
        /\ blob' = blob /\ offsets' = offsets /\ header' = header
    BY <1>2 DEF WriteProgramHeaders, names
  <2>1. /\ table \in Seq(Byte) /\ Len(table) \in Nat /\ EhSize \in Nat
        /\ TablesEnd \in Nat /\ TablesEnd = EhSize + Len(table)
        /\ out \in Seq(Byte) /\ Len(out) \in Nat /\ cursor \in Nat
        /\ EhSize <= Len(out) /\ Len(out) <= cursor /\ TablesEnd <= cursor
        /\ Len(out) <= MaxImage
    <3>1. table \in Seq(Byte)
      BY EncodedTableBytes, FormatAssumption DEF TypeOK
    <3> QED
      BY <2>0, <3>1, ImageFacts, FormatAssumption DEF TypeOK, CursorInv, LimitRespected
  <2> HIDE DEF table
  <2>2. /\ out' \in Seq(Byte) /\ Len(out') = Maximum(Len(out), TablesEnd)
        /\ HoldsAt(out', EhSize, table)
    BY <2>0, <2>1, WriteAtFile, WriteAtHolds
  <2>3. KeepsData
    BY <2>0, <2>1, KeepsBehind
  <2>4. TypeOK'
    BY <2>0, <2>2 DEF TypeOK
  <2>5. LimitRespected' /\ CursorInv'
    <3>1. Len(out') <= cursor /\ Len(out) <= Len(out') /\ Len(out') <= MaxImage
      BY <2>0, <2>1, <2>2 DEF Maximum, Fits
    <3> QED
      BY <2>0, <2>1, <2>2, <3>1, FormatAssumption
      DEF LimitRespected, CursorInv, TablesEnd, Maximum
  <2>6. SegmentsInv' /\ SectionsInv'
    BY <2>0, <2>3, SegmentsStay, SectionsStay
  <2>7. TablesInv'
    BY <2>0, <2>2 DEF TablesInv, PhdrsWritten, HeaderFilled, ShdrsWritten, table
  <2> QED
    BY <2>4, <2>5, <2>6, <2>7
<1> QED
  BY <1>1, <1>2

(* Once the program headers are in the file, so is the cursor.               *)
LEMMA CursorInFile ==
    ASSUME IInv, PhdrsWritten
    PROVE  cursor \in Nat /\ cursor <= Len(out) /\ cursor <= MaxImage
<1> USE DEF IInv, LayoutInv
<1>1. HoldsAt(out, EhSize, EncodedTable(phdrs, PhEntSize))
  BY DEF TablesInv
<1>2. TablesEnd <= Len(out)
  BY <1>1, ImageFacts DEF HoldsAt
<1>3. Len(out) <= MaxImage /\ Len(out) \in Nat /\ cursor \in Nat
  BY DEF LimitRespected, TypeOK
<1>4. TablesEnd \in Nat /\ MaxImage \in Nat
  BY ImageFacts, FormatAssumption
<1> QED
  BY <1>2, <1>3, <1>4 DEF CursorInv

(* The section header table lies at or after the cursor, unless its offset   *)
(* saturates.                                                                *)
LEMMA ShdrTableOffsetFacts ==
    ASSUME IInv, PhdrsWritten
    PROVE  /\ ShdrTableOffset \in U64 /\ ShdrTableOffset \in Nat
           /\ ShdrTableOffset < U64Max => cursor <= ShdrTableOffset
<1>1. cursor \in Nat /\ cursor <= U64Max
  BY CursorInFile, FormatAssumption, U64MaxAssumption
<1>2. /\ ShdrTableOffset \in Nat /\ ShdrTableOffset <= U64Max
      /\ ShdrTableOffset < U64Max => cursor <= ShdrTableOffset
  BY <1>1, AlignUpFacts DEF ShdrTableOffset
<1> QED
  BY <1>2, U64MaxAssumption DEF U64

(* The header names the tables as they are, and its counts fit.              *)
LEMMA FillHeaderInv == IInv /\ FillHeader => IInv'
<1> SUFFICES ASSUME IInv, FillHeader PROVE IInv'
  OBVIOUS
<1> USE DEF IInv, LayoutInv
<1> DEFINE shoff == IF sections = <<>> THEN 0 ELSE ShdrTableOffset
<1>1. CASE Fail
  BY <1>1, FailInv
<1>2. CASE ~Fail
  <2>0. /\ pc = "header" /\ pc' = "shdrs"
        /\ Len(phdrs) <= U16Max /\ Len(sections) <= U16Max
        /\ header' = [header EXCEPT !.phoff = EhSize, !.phnum = Len(phdrs),
                          !.shnum = Len(sections), !.shstrndx = shstrndx,
                          !.shoff = shoff]
        /\ image' = image /\ index' = index /\ cursor' = cursor /\ out' = out
        /\ phdrs' = phdrs /\ sections' = sections /\ shstrndx' = shstrndx
        /\ blob' = blob /\ offsets' = offsets
    BY <1>2 DEF FillHeader, Filled, CountsFit, layout, names
  <2>1. /\ Len(phdrs) \in 0..U16Max /\ Len(sections) \in 0..U16Max
        /\ shstrndx \in Nat /\ EhSize \in U64
    BY <2>0, FormatAssumption, U64MaxAssumption DEF TypeOK, U64
  <2>2. shoff \in U64
    BY <2>0, ShdrTableOffsetFacts, U64Nat DEF PhdrsWritten
  <2>3. /\ header' \in ElfHeader
        /\ header'.phoff = EhSize /\ header'.phnum = Len(phdrs)
        /\ header'.shnum = Len(sections) /\ header'.shoff = shoff
    <3>1. header \in ElfHeader
      BY DEF TypeOK
    <3> HIDE DEF shoff
    <3> QED
      BY <2>0, <2>1, <2>2, <3>1, FormatAssumption DEF ElfHeader
  <2>4. KeepsData
    BY <2>0 DEF KeepsData
  <2>5. TypeOK'
    BY <2>0, <2>3 DEF TypeOK
  <2>6. LimitRespected' /\ CursorInv'
    BY <2>0 DEF LimitRespected, CursorInv, TablesEnd
  <2>7. SegmentsInv' /\ SectionsInv'
    BY <2>0, <2>4, SegmentsStay, SectionsStay
  <2>8. TablesInv'
    BY <2>0, <2>3
    DEF TablesInv, PhdrsWritten, HeaderFilled, ShdrsWritten, ShdrTableOffset
  <2> QED
    BY <2>5, <2>6, <2>7, <2>8
<1> QED
  BY <1>1, <1>2

(* The section headers and their table are well typed.                       *)
LEMMA SectionHeadersType ==
    ASSUME TypeOK
    PROVE  /\ SectionHeaders \in Seq(Shdr) /\ Len(SectionHeaders) = Len(sections)
           /\ EncodedTable(SectionHeaders, ShEntSize) \in Seq(Byte)
<1>1. sections \in Seq(Section) /\ Len(sections) \in Nat
  BY DEF TypeOK
<1>2. ASSUME NEW i \in 1..Len(sections) PROVE sections[i].header \in Shdr
  <2>1. sections[i] \in Section
    BY <1>1
  <2> QED
    BY <2>1, SectionFacts
<1>3. SectionHeaders \in [1..Len(sections) -> Shdr]
  BY <1>2 DEF SectionHeaders
<1>4. SectionHeaders \in Seq(Shdr) /\ Len(SectionHeaders) = Len(sections)
  BY <1>1, <1>3 DEF SectionHeaders
<1> QED
  BY <1>4, EncodedTableBytes, FormatAssumption

(* The section header table is written behind everything else.               *)
LEMMA WriteSectionHeadersInv == IInv /\ WriteSectionHeaders => IInv'
<1> SUFFICES ASSUME IInv, WriteSectionHeaders PROVE IInv'
  OBVIOUS
<1> USE DEF IInv, LayoutInv
<1> DEFINE table  == EncodedTable(SectionHeaders, ShEntSize)
           offset == ShdrTableOffset
<1>1. CASE Fail
  BY <1>1, FailInv
<1>2. CASE sections = <<>>
  <2>0. /\ pc = "shdrs" /\ pc' = "ehdr" /\ out' = out
        /\ image' = image /\ index' = index /\ cursor' = cursor
        /\ phdrs' = phdrs /\ sections' = sections /\ shstrndx' = shstrndx
        /\ blob' = blob /\ offsets' = offsets /\ header' = header
    BY <1>2 DEF WriteSectionHeaders, layout, names
  <2>1. KeepsData
    BY <2>0 DEF KeepsData
  <2>2. TypeOK' /\ LimitRespected' /\ CursorInv'
    BY <2>0 DEF TypeOK, LimitRespected, CursorInv, TablesEnd
  <2>3. SegmentsInv' /\ SectionsInv'
    BY <2>0, <2>1, SegmentsStay, SectionsStay
  <2>4. TablesInv'
    BY <1>2, <2>0 DEF TablesInv, PhdrsWritten, HeaderFilled, ShdrsWritten
  <2> QED
    BY <2>2, <2>3, <2>4
<1>3. CASE ~Fail /\ sections # <<>>
  <2>0. /\ pc = "shdrs" /\ pc' = "ehdr" /\ Fits(offset, table)
        /\ out' = WriteAt(out, offset, table)
        /\ image' = image /\ index' = index /\ cursor' = cursor
        /\ phdrs' = phdrs /\ sections' = sections /\ shstrndx' = shstrndx
        /\ blob' = blob /\ offsets' = offsets /\ header' = header
    BY <1>3 DEF WriteSectionHeaders, names
  <2>1. PhdrsWritten /\ HeaderFilled
    BY <2>0 DEF PhdrsWritten, HeaderFilled
  <2>2. table \in Seq(Byte) /\ Len(table) \in Nat
    BY SectionHeadersType
  <2>3. offset \in Nat /\ offset < U64Max /\ cursor <= offset
    <3>1. offset \in Nat
      BY <2>1, ShdrTableOffsetFacts
    <3>2. offset < U64Max
      <4> HIDE DEF offset, table
      <4> QED
        BY <2>0, <2>2, <3>1, FormatAssumption, U64MaxAssumption DEF Fits
    <3> QED
      BY <2>1, <3>1, <3>2, ShdrTableOffsetFacts
  <2>4. /\ EhSize <= Len(out) /\ Len(out) <= cursor /\ TablesEnd <= cursor
        /\ cursor \in Nat /\ TablesEnd \in Nat
    BY <2>0, ImageFacts DEF CursorInv, TypeOK
  <2> HIDE DEF offset, table
  <2>5. /\ out' \in Seq(Byte) /\ Len(out') = offset + Len(table)
        /\ Len(out') <= MaxImage /\ EhSize <= Len(out')
        /\ HoldsAt(out', offset, table)
    BY <2>0, <2>2, <2>3, <2>4, GrownFile
  <2>6. KeepsData
    BY <2>0, <2>2, <2>3, <2>4, KeepsAhead
  <2>7. TypeOK'
    BY <2>0, <2>5 DEF TypeOK
  <2>8. LimitRespected' /\ CursorInv'
    <3>1. TablesEnd' = TablesEnd
      BY <2>0 DEF TablesEnd
    <3> QED
      BY <2>0, <2>2, <2>3, <2>4, <2>5, <3>1 DEF LimitRespected, CursorInv
  <2>9. SegmentsInv' /\ SectionsInv'
    BY <2>0, <2>6, SegmentsStay, SectionsStay
  <2>10. HoldsAt(out', EhSize, EncodedTable(phdrs, PhEntSize))
    <3>1. HoldsAt(out, EhSize, EncodedTable(phdrs, PhEntSize))
      BY <2>1 DEF TablesInv
    <3>2. EncodedTable(phdrs, PhEntSize) \in Seq(Byte) /\ EhSize \in Nat
      BY EncodedTableBytes, FormatAssumption DEF TypeOK
    <3> QED
      BY <2>0, <2>2, <2>3, <2>4, <3>1, <3>2, WritingAhead
  <2>11. /\ header.phoff = EhSize /\ header.phnum = Len(phdrs)
         /\ header.shnum = Len(sections) /\ header.shoff = offset
    BY <1>3, <2>1 DEF TablesInv, offset
  <2>12. TablesEnd' <= header'.shoff /\ ShdrTableOffset' = offset
    <3>1. TablesEnd <= offset
      BY <2>3, <2>4
    <3> QED
      BY <2>0, <2>11, <3>1 DEF TablesEnd, ShdrTableOffset, offset
  <2>13. HoldsAt(out', header'.shoff, EncodedTable(SectionHeaders', ShEntSize))
    BY <2>0, <2>5, <2>11 DEF SectionHeaders, table
  <2>14. TablesInv'
    BY <2>0, <2>10, <2>11, <2>12, <2>13
    DEF TablesInv, PhdrsWritten, HeaderFilled, ShdrsWritten
  <2> QED
    BY <2>7, <2>8, <2>9, <2>14
<1> QED
  BY <1>1, <1>2, <1>3

(* The ELF header fills its own bytes and no more.                           *)
LEMMA WriteHeaderInv == IInv /\ WriteHeader => IInv'
<1> SUFFICES ASSUME IInv, WriteHeader PROVE IInv'
  OBVIOUS
<1> USE DEF IInv, LayoutInv
<1> DEFINE bytes == Encoded(header, EhSize)
<1>0. /\ pc = "ehdr" /\ pc' = "done" /\ out' = WriteAt(out, 0, bytes)
      /\ image' = image /\ index' = index /\ cursor' = cursor
      /\ phdrs' = phdrs /\ sections' = sections /\ shstrndx' = shstrndx
      /\ blob' = blob /\ offsets' = offsets /\ header' = header
  BY DEF WriteHeader, names
<1>1. /\ bytes \in Seq(Byte) /\ Len(bytes) = EhSize /\ EhSize \in Nat
      /\ out \in Seq(Byte) /\ Len(out) \in Nat /\ EhSize <= Len(out)
      /\ TablesEnd \in Nat /\ EhSize <= TablesEnd
  BY EncodedBytes, ImageFacts, FormatAssumption DEF TypeOK, CursorInv
<1> HIDE DEF bytes
<1>2. out' \in Seq(Byte) /\ Len(out') = Len(out) /\ HoldsAt(out', 0, bytes)
  <2>1. Maximum(Len(out), 0 + Len(bytes)) = Len(out)
    BY <1>1 DEF Maximum
  <2> QED
    BY <1>0, <1>1, <2>1, WriteAtFile, WriteAtHolds
<1>3. KeepsData
  BY <1>0, <1>1, KeepsBehind
<1>4. TypeOK' /\ LimitRespected' /\ CursorInv'
  BY <1>0, <1>2 DEF TypeOK, LimitRespected, CursorInv, TablesEnd
<1>5. SegmentsInv' /\ SectionsInv'
  BY <1>0, <1>3, SegmentsStay, SectionsStay
<1>6. HoldsAt(out', EhSize, EncodedTable(phdrs, PhEntSize))
  <2>1. HoldsAt(out, EhSize, EncodedTable(phdrs, PhEntSize))
    BY <1>0 DEF TablesInv, PhdrsWritten, HeaderFilled, ShdrsWritten
  <2>2. EncodedTable(phdrs, PhEntSize) \in Seq(Byte)
    BY EncodedTableBytes, FormatAssumption DEF TypeOK
  <2> QED
    BY <1>0, <1>1, <2>1, <2>2, WriteAtKeeps
<1>7. sections # <<>> =>
          /\ TablesEnd <= header.shoff
          /\ HoldsAt(out', header.shoff, EncodedTable(SectionHeaders, ShEntSize))
  <2>1. ShdrsWritten
    BY <1>0 DEF ShdrsWritten
  <2>2. header.shoff \in Nat /\ EncodedTable(SectionHeaders, ShEntSize) \in Seq(Byte)
    <3>1. header.shoff \in U64
      BY DEF TypeOK, ElfHeader
    <3> QED
      BY <3>1, SectionHeadersType, U64Nat
  <2> QED
    BY <1>3, <2>1, <2>2 DEF TablesInv, KeepsData
<1>8. TablesInv'
  <2>1. HeaderFilled
    BY <1>0 DEF HeaderFilled, ShdrsWritten
  <2> QED
    BY <1>0, <1>2, <1>6, <1>7, <2>1
    DEF TablesInv, TablesEnd, SectionHeaders, ShdrTableOffset, bytes,
        PhdrsWritten, HeaderFilled, ShdrsWritten
<1> QED
  BY <1>4, <1>5, <1>8

-----------------------------------------------------------------------------
(* The theorems about where things are.                                      *)

(* Every step of a call keeps the invariant.                                 *)
LEMMA StepInv == IInv /\ [Next]_vars => IInv'
<1> SUFFICES ASSUME IInv, [Next]_vars PROVE IInv'
  OBVIOUS
<1>1. CASE UNCHANGED vars
  <2>1. /\ image' = image /\ pc' = pc /\ index' = index /\ cursor' = cursor
        /\ out' = out /\ phdrs' = phdrs /\ sections' = sections
        /\ shstrndx' = shstrndx /\ blob' = blob /\ offsets' = offsets
        /\ header' = header
    BY <1>1 DEF vars, layout, names
  <2> QED
    BY <2>1 DEF IInv, LayoutInv, TypeOK, LimitRespected, CursorInv, TablesEnd,
                SegmentsInv, SegmentsDone, SegmentPlaced, SectionsInv, SectionsKept,
                SectionsDone, SectionPlaced, TablesInv, ShdrTableOffset, SectionHeaders,
                SectionsBegun, PhdrsWritten, HeaderFilled, ShdrsWritten
<1>2. CASE Next
  BY <1>1, <1>2, SkipSegmentInv, PlaceSegmentInv, EnsureShstrtabInv, CollectNameInv,
     AssignNamesInv, SkipSectionInv, PlaceSectionInv, SectionsPlacedInv,
     WriteProgramHeadersInv, FillHeaderInv, WriteSectionHeadersInv, WriteHeaderInv
  DEF Next, Returned
<1> QED
  BY <1>1, <1>2

(* The invariant holds throughout every call.                                *)
THEOREM Invariance == Spec => []IInv
BY InitInv, StepInv, PTL DEF Spec

(* Throughout a call, for any image: what has been handed out lies between   *)
(* the tables and the cursor, and what each pass has finished is where its   *)
(* header says (build.rs:29-119).                                            *)
THEOREM LayoutHolds == Spec => []LayoutInv
<1>1. IInv => LayoutInv
  BY DEF IInv
<1> QED
  BY <1>1, Invariance, PTL

(* Every reachable state of a call has the types the code gives it.          *)
THEOREM TypeCorrect == Spec => []TypeOK
<1>1. IInv => TypeOK
  BY DEF IInv
<1> QED
  BY <1>1, Invariance, PTL

(* However large the claimed sizes, addresses and alignments, the file stays *)
(* within MAX_IMAGE (write_at, build.rs:305-320).                            *)
THEOREM LimitHolds == Spec => []LimitRespected
<1>1. IInv => LimitRespected
  BY DEF IInv, LayoutInv
<1> QED
  BY <1>1, Invariance, PTL

(* A finished file holds every segment's bytes where its program header says *)
(* (build.rs:45-63).                                                         *)
THEOREM SegmentsAreStored == Spec => []SegmentsStored
<1>1. IInv => SegmentsStored
  BY ImageFacts
  DEF IInv, LayoutInv, SegmentsInv, SegmentsDone, SegmentPlaced, SegmentsStored
<1> QED
  BY <1>1, Invariance, PTL

(* A finished file holds every section's bytes where its section header says *)
(* (build.rs:65-83).                                                         *)
THEOREM SectionsAreStored == Spec => []SectionsStored
<1>1. ASSUME IInv, pc = "done", NEW i \in 1..Len(image.sections),
             ~IsNobits(image.sections[i]), ~IsShstrtab(image.sections[i])
      PROVE  /\ sections[i].header.size = Len(image.sections[i].data)
             /\ image.sections[i].data # <<>> =>
                    HoldsAt(out, sections[i].header.offset, image.sections[i].data)
  <2>1. i \in 1..Len(sections)
    BY <1>1, ImageFacts DEF IInv, LayoutInv, TypeOK, SectionsInv, SectionsKept
  <2>2. /\ sections[i].header.type = image.sections[i].header.type
        /\ sections[i].data = image.sections[i].data
    BY <1>1 DEF IInv, LayoutInv, SectionsInv, SectionsKept
  <2>3. SectionPlaced(i)
    BY <1>1, <2>1 DEF IInv, LayoutInv, SectionsInv, SectionsDone, SectionsBegun,
                      PhdrsWritten, HeaderFilled, ShdrsWritten
  <2> QED
    BY <1>1, <2>2, <2>3 DEF SectionPlaced, IsNobits
<1>2. IInv => SectionsStored
  BY <1>1 DEF SectionsStored
<1> QED
  BY <1>2, Invariance, PTL

(* A finished file holds its ELF header and both tables, complete, where a   *)
(* reader looks for them (build.rs:85-118).                                  *)
THEOREM TablesAreStored == Spec => []TablesStored
<1>1. IInv => TablesStored
  BY DEF IInv, LayoutInv, TablesInv, TablesStored, PhdrsWritten, HeaderFilled,
         ShdrsWritten
<1> QED
  BY <1>1, Invariance, PTL

(* A finished file lets a loader map every file-backed loadable segment: no  *)
(* alignment, saturating or not, breaks the congruence (build.rs:22-24).     *)
THEOREM LoadsAreCongruent == Spec => []LoadsCongruent
<1>1. ASSUME IInv, pc = "done", NEW i \in 1..Len(phdrs),
             phdrs[i].type = "LOAD", phdrs[i].filesz > 0, phdrs[i].align > 1
      PROVE  phdrs[i].offset % phdrs[i].align = phdrs[i].vaddr % phdrs[i].align
  <2>1. SegmentPlaced(i) /\ i \in 1..Len(image.segments)
    BY <1>1 DEF IInv, LayoutInv, TypeOK, SegmentsInv, SegmentsDone
  <2>2. SegmentBytes(image.segments[i]) # <<>>
    <3>1. image.segments[i] \in Segment
      BY <1>1, <2>1, ImageFacts DEF IInv
    <3>2. phdrs[i].filesz = Len(SegmentBytes(image.segments[i]))
      BY <2>1 DEF SegmentPlaced
    <3>3. Len(SegmentBytes(image.segments[i])) # 0
      BY <1>1, <3>2
    <3> QED
      BY <3>1, <3>3, SegmentBytesFacts
  <2> QED
    BY <1>1, <2>1, <2>2 DEF SegmentPlaced
<1>2. IInv => LoadsCongruent
  BY <1>1 DEF LoadsCongruent
<1> QED
  BY <1>2, Invariance, PTL

-----------------------------------------------------------------------------
(* Where a step writes.                                                      *)

(* The file keeps its bytes behind the header tables over the step.          *)
KeepsBytes ==
    \A p \in (TablesEnd + 1)..Len(out) : p <= Len(out') /\ out'[p] = out[p]

(* A write past the end of the file, or into the area reserved for the       *)
(* tables, keeps every byte behind the tables.                               *)
LEMMA WriteKeepsBytes ==
    ASSUME TypeOK, NEW offset \in Nat, NEW bytes \in Seq(Byte),
           out' = WriteAt(out, offset, bytes),
           Len(out) <= offset \/ offset + Len(bytes) <= TablesEnd
    PROVE  KeepsBytes
<1>1. out \in Seq(Byte) /\ TablesEnd \in Nat /\ Len(out) \in Nat /\ Len(bytes) \in Nat
  BY ImageFacts DEF TypeOK
<1>2. Len(out') = Maximum(Len(out), offset + Len(bytes))
  BY <1>1, WriteAtFile
<1> SUFFICES ASSUME NEW p \in (TablesEnd + 1)..Len(out)
             PROVE  p <= Len(out') /\ out'[p] = out[p]
  BY DEF KeepsBytes
<1>3. p <= Len(out') /\ p \in 1..Len(out)
  BY <1>1, <1>2 DEF Maximum
<1>4. p <= offset \/ offset + Len(bytes) < p
  BY <1>1
<1>5. WriteAt(out, offset, bytes)[p] = out[p]
  BY <1>1, <1>3, <1>4, WriteAtKeepsByte
<1> QED
  BY <1>3, <1>5

(* A write that leaves the limit in reach starts below u64::MAX.             *)
LEMMA FittingOffset ==
    ASSUME NEW offset \in Nat, NEW bytes \in Seq(Byte), Fits(offset, bytes)
    PROVE  offset < U64Max /\ offset \in U64 /\ offset + Len(bytes) \in U64
<1>1. Len(bytes) \in Nat
  OBVIOUS
<1> QED
  BY <1>1, FormatAssumption, U64MaxAssumption DEF Fits, U64

(* A segment is written at or after the cursor, so past the end of the file. *)
LEMMA SegmentWritten ==
    ASSUME IInv, PlaceSegment, ~Fail
    PROVE  LET segment == image.segments[index]
               offset  == SegmentOffset(cursor, segment)
               bytes   == SegmentBytes(segment)
           IN  /\ bytes \in Seq(Byte) /\ bytes # <<>>
               /\ offset \in U64 /\ cursor <= offset /\ Len(out) <= offset
               /\ Fits(offset, bytes)
               /\ out' = WriteAt(out, offset, bytes) /\ cursor' = offset + Len(bytes)
               /\ index \in 1..Len(phdrs)
               /\ phdrs' = [phdrs EXCEPT ![index] =
                                PhdrAt(phdrs[index], offset, Len(bytes))]
<1> DEFINE segment == image.segments[index]
           offset  == SegmentOffset(cursor, segment)
           bytes   == SegmentBytes(segment)
<1>1. /\ pc = "segments" /\ bytes # <<>> /\ Fits(offset, bytes)
      /\ out' = WriteAt(out, offset, bytes) /\ cursor' = offset + Len(bytes)
      /\ phdrs' = [phdrs EXCEPT ![index] = PhdrAt(phdrs[index], offset, Len(bytes))]
  BY DEF PlaceSegment
<1>2. index \in 1..Len(image.segments) /\ cursor \in Nat /\ Len(out) \in Nat
  BY ImageFacts DEF PlaceSegment, IInv, TypeOK
<1>3. segment \in Segment /\ index \in 1..Len(phdrs)
  BY <1>2, ImageFacts DEF IInv, TypeOK
<1>4. bytes \in Seq(Byte) /\ offset \in Nat
  BY <1>2, <1>3, SegmentBytesFacts, SegmentOffsetFacts
<1>5. offset < U64Max /\ offset \in U64
  BY <1>1, <1>4, FittingOffset
<1>6. cursor <= offset
  BY <1>2, <1>3, <1>5, SegmentOffsetFacts
<1>7. Len(out) <= cursor
  BY <1>1 DEF IInv, LayoutInv, CursorInv
<1> HIDE DEF offset, bytes
<1>8. Len(out) <= offset
  BY <1>2, <1>4, <1>6, <1>7
<1> QED
  BY <1>1, <1>3, <1>4, <1>5, <1>6, <1>8 DEF offset, bytes

(* So is a section.                                                          *)
LEMMA SectionWritten ==
    ASSUME IInv, PlaceSection, ~Fail
    PROVE  LET section == sections[index]
               offset  == AlignUp(cursor, Maximum(section.header.addralign, 1))
           IN  /\ section \in Section /\ ~IsNobits(section) /\ section.data # <<>>
               /\ offset \in U64 /\ cursor <= offset /\ Len(out) <= offset
               /\ Fits(offset, section.data)
               /\ out' = WriteAt(out, offset, section.data)
               /\ cursor' = offset + Len(section.data)
               /\ index \in 1..Len(sections)
               /\ sections' = [sections EXCEPT ![index] = SectionAt(section, offset)]
<1> DEFINE section == sections[index]
           align   == Maximum(section.header.addralign, 1)
           offset  == AlignUp(cursor, align)
<1>1. /\ pc = "sections" /\ ~IsNobits(section) /\ section.data # <<>>
      /\ Fits(offset, section.data)
      /\ out' = WriteAt(out, offset, section.data)
      /\ cursor' = offset + Len(section.data)
      /\ sections' = [sections EXCEPT ![index] = SectionAt(section, offset)]
  BY DEF PlaceSection
<1>2. index \in 1..Len(sections) /\ cursor \in Nat /\ Len(out) \in Nat
  BY DEF PlaceSection, IInv, TypeOK
<1>3. section \in Section
  BY <1>2 DEF IInv, TypeOK
<1>4. section.data \in Seq(Byte) /\ align \in Nat
  <2> DEFINE a == section.header.addralign
  <2>1. a \in Nat /\ section.data \in Seq(Byte)
    BY <1>3, SectionFacts
  <2> HIDE DEF a
  <2>2. Maximum(a, 1) \in Nat
    BY <2>1 DEF Maximum
  <2> QED
    BY <2>1, <2>2 DEF a
<1>5. offset \in Nat /\ (offset < U64Max => cursor <= offset)
  <2> HIDE DEF align
  <2>1. cursor <= U64Max \/ ~(cursor <= U64Max)
    OBVIOUS
  <2> QED
    BY <1>2, <1>4, AlignUpFacts
<1>6. offset < U64Max /\ offset \in U64
  <2> HIDE DEF offset, section
  <2> QED
    BY <1>1, <1>4, <1>5, FittingOffset
<1>7. Len(out) <= cursor
  BY <1>1 DEF IInv, LayoutInv, CursorInv
<1> HIDE DEF offset
<1>8. Len(out) <= offset
  BY <1>2, <1>5, <1>6, <1>7
<1> QED
  BY <1>1, <1>2, <1>3, <1>5, <1>6, <1>8 DEF offset, section, align

(* The program header table is written between the ELF header and the end of *)
(* the area reserved for it.                                                 *)
LEMMA PhdrsWrittenAt ==
    ASSUME IInv, WriteProgramHeaders, ~Fail
    PROVE  LET table == EncodedTable(phdrs, PhEntSize)
           IN  /\ table \in Seq(Byte) /\ EhSize + Len(table) = TablesEnd
               /\ out' = WriteAt(out, EhSize, table)
<1>1. EncodedTable(phdrs, PhEntSize) \in Seq(Byte)
  BY EncodedTableBytes, FormatAssumption DEF IInv, TypeOK
<1> QED
  BY <1>1, ImageFacts DEF IInv, WriteProgramHeaders

(* The section header table is written past the end of the file.             *)
LEMMA ShdrsWrittenAt ==
    ASSUME IInv, WriteSectionHeaders, ~Fail, sections # <<>>
    PROVE  LET table == EncodedTable(SectionHeaders, ShEntSize)
           IN  /\ table \in Seq(Byte)
               /\ ShdrTableOffset \in Nat /\ Len(out) <= ShdrTableOffset
               /\ Fits(ShdrTableOffset, table)
               /\ out' = WriteAt(out, ShdrTableOffset, table)
<1> DEFINE table  == EncodedTable(SectionHeaders, ShEntSize)
           offset == ShdrTableOffset
<1>1. /\ pc = "shdrs" /\ Fits(offset, table) /\ out' = WriteAt(out, offset, table)
  BY DEF WriteSectionHeaders
<1>2. table \in Seq(Byte) /\ cursor \in Nat /\ Len(out) \in Nat
  BY SectionHeadersType DEF IInv, TypeOK
<1>3. PhdrsWritten /\ Len(out) <= cursor
  BY <1>1 DEF PhdrsWritten, HeaderFilled, IInv, LayoutInv, CursorInv
<1>4. offset \in Nat /\ (offset < U64Max => cursor <= offset)
  BY <1>3, ShdrTableOffsetFacts
<1> HIDE DEF offset, table
<1>5. offset < U64Max
  BY <1>1, <1>2, <1>4, FittingOffset
<1>6. Len(out) <= offset
  BY <1>2, <1>3, <1>4, <1>5
<1> QED
  BY <1>1, <1>2, <1>4, <1>6 DEF offset, table

-----------------------------------------------------------------------------
(* Final bytes.                                                              *)

(* Every step keeps the bytes behind the header tables.                      *)
LEMMA StepKeepsBytes == IInv /\ [Next]_vars => KeepsBytes
<1> SUFFICES ASSUME IInv, [Next]_vars PROVE KeepsBytes
  OBVIOUS
<1>0. out' = out => KeepsBytes
  BY ImageFacts DEF KeepsBytes, IInv, TypeOK
<1>1. Fail => KeepsBytes
  BY <1>0 DEF Fail, layout
<1>2. PlaceSegment => KeepsBytes
  <2> DEFINE offset == SegmentOffset(cursor, image.segments[index])
             bytes  == SegmentBytes(image.segments[index])
  <2>1. PlaceSegment /\ ~Fail =>
            /\ bytes \in Seq(Byte) /\ offset \in U64 /\ Len(out) <= offset
            /\ out' = WriteAt(out, offset, bytes)
    BY SegmentWritten
  <2> HIDE DEF offset, bytes
  <2> QED
    BY <1>1, <2>1, U64Nat, WriteKeepsBytes DEF IInv
<1>3. PlaceSection => KeepsBytes
  <2> DEFINE bytes  == sections[index].data
             offset == AlignUp(cursor, Maximum(sections[index].header.addralign, 1))
  <2>1. PlaceSection /\ ~Fail =>
            /\ sections[index] \in Section /\ offset \in U64 /\ Len(out) <= offset
            /\ out' = WriteAt(out, offset, bytes)
    BY SectionWritten
  <2>2. sections[index] \in Section => bytes \in Seq(Byte)
    BY SectionFacts
  <2> HIDE DEF offset, bytes
  <2> QED
    BY <1>1, <2>1, <2>2, U64Nat, WriteKeepsBytes DEF IInv
<1>4. WriteProgramHeaders => KeepsBytes
  <2> DEFINE table == EncodedTable(phdrs, PhEntSize)
  <2>1. WriteProgramHeaders /\ ~Fail =>
            /\ table \in Seq(Byte) /\ EhSize + Len(table) = TablesEnd
            /\ out' = WriteAt(out, EhSize, table)
    BY PhdrsWrittenAt
  <2>2. EhSize \in Nat /\ TablesEnd \in Nat
    BY ImageFacts, FormatAssumption DEF IInv
  <2> HIDE DEF table
  <2>3. EhSize + Len(table) = TablesEnd => EhSize + Len(table) <= TablesEnd
    BY <2>2
  <2> QED
    BY <1>1, <2>1, <2>2, <2>3, WriteKeepsBytes DEF IInv
<1>5. WriteSectionHeaders => KeepsBytes
  <2> DEFINE table  == EncodedTable(SectionHeaders, ShEntSize)
             offset == ShdrTableOffset
  <2>1. WriteSectionHeaders /\ sections = <<>> => KeepsBytes
    BY <1>0, <1>1 DEF WriteSectionHeaders, layout
  <2>2. WriteSectionHeaders /\ ~Fail /\ sections # <<>> =>
            /\ table \in Seq(Byte) /\ offset \in Nat /\ Len(out) <= offset
            /\ out' = WriteAt(out, offset, table)
    BY ShdrsWrittenAt
  <2> HIDE DEF table, offset
  <2> QED
    BY <1>1, <2>1, <2>2, WriteKeepsBytes DEF IInv
<1>6. WriteHeader => KeepsBytes
  <2> DEFINE bytes == Encoded(header, EhSize)
  <2>1. WriteHeader => out' = WriteAt(out, 0, bytes)
    BY DEF WriteHeader
  <2>2. bytes \in Seq(Byte) /\ Len(bytes) = EhSize
    BY EncodedBytes, FormatAssumption DEF IInv, TypeOK
  <2>3. 0 + Len(bytes) <= TablesEnd
    BY <2>2, ImageFacts, FormatAssumption DEF IInv
  <2> HIDE DEF bytes
  <2> QED
    BY <2>1, <2>2, <2>3, WriteKeepsBytes DEF IInv
<1>7. ASSUME SkipSegment \/ EnsureShstrtab \/ CollectName \/ AssignNames \/ SkipSection
             \/ SectionsPlaced \/ FillHeader \/ Returned \/ UNCHANGED vars
      PROVE  out' = out
  BY <1>7 DEF SkipSegment, EnsureShstrtab, CollectName, AssignNames, SkipSection,
              SectionsPlaced, FillHeader, Returned, Fail, layout, vars
<1> QED
  BY <1>0, <1>2, <1>3, <1>4, <1>5, <1>6, <1>7 DEF Next

(* However a call goes on, also when it fails half way: a byte written       *)
(* behind the header tables stays what it is (build.rs:58-62, 77-81).        *)
THEOREM WrittenBytesAreFinal == Spec => BytesAreFinal
<1>1. IInv /\ [Next]_vars =>
          [\A p \in (TablesEnd + 1)..Len(out) : p <= Len(out') /\ out'[p] = out[p]]_vars
  BY StepKeepsBytes DEF KeepsBytes
<1> QED
  BY <1>1, Invariance, PTL DEF Spec, BytesAreFinal

-----------------------------------------------------------------------------
(* Section names.                                                            *)

(* A name as the table stores it, and the table with one name more.          *)
Terminated(name)  == Append(name, Zero)
WithName(b, name) == Append(b \o name, Zero)

(* The terminated name of every section that has an offset is at it.         *)
NamesCollected ==
    \A i \in 1..Len(offsets) :
        HoldsAt(blob, offsets[i], Terminated(NameBytes[sections[i].name]))

(* shstrndx names a name table, unless the index of that table is past u16.  *)
TableFound ==
    pc # "segments" /\ sections # <<>> /\ Len(sections) <= U16Max =>
        shstrndx + 1 \in 1..Len(sections) /\ IsShstrtab(sections[shstrndx + 1])

NamesAssigned ==
    SectionsBegun =>
        /\ Len(offsets) = Len(sections)
        /\ \A i \in 1..Len(sections) :
               /\ sections[i].header.nameIndex = offsets[i]
               /\ IsShstrtab(sections[i]) => sections[i].data = blob

NamesInv ==
    pc # "error" =>
        /\ NamesCollected /\ TableFound /\ NamesAssigned
        /\ HeaderFilled => header.shstrndx = shstrndx

(* One name more leaves what the table holds, and is held at the old end.    *)
LEMMA NameAdded ==
    ASSUME NEW b \in Seq(RawByte), NEW name \in Seq(RawByte)
    PROVE  /\ HoldsAt(WithName(b, name), Len(b), Terminated(name))
           /\ \A at \in Nat : \A kept \in Seq(RawByte) :
                  HoldsAt(b, at, kept) => HoldsAt(WithName(b, name), at, kept)
<1> DEFINE new == Append(b \o name, Zero)
           more == Append(name, Zero)
<1>0. Zero \in RawByte
  BY FormatAssumption DEF Zero, RawByte
<1>1. /\ Len(new) = Len(b) + Len(name) + 1 /\ Len(more) = Len(name) + 1
      /\ Len(b) \in Nat /\ Len(name) \in Nat
  BY <1>0
<1>2. \A k \in 1..Len(b) : new[k] = b[k]
  BY <1>0
<1>3. ASSUME NEW k \in 1..Len(more) PROVE new[Len(b) + k] = more[k]
  <2>1. CASE k \in 1..Len(name)
    BY <1>0, <2>1
  <2>2. CASE k = Len(name) + 1
    BY <1>0, <2>2
  <2> QED
    BY <1>1, <2>1, <2>2
<1> HIDE DEF new, more
<1>4. HoldsAt(new, Len(b), more)
  BY <1>1, <1>3 DEF HoldsAt
<1>5. ASSUME NEW at \in Nat, NEW kept \in Seq(RawByte), HoldsAt(b, at, kept)
      PROVE  HoldsAt(new, at, kept)
  <2>1. /\ at + Len(kept) <= Len(b) /\ Len(kept) \in Nat
        /\ \A k \in 1..Len(kept) : b[at + k] = kept[k]
    BY <1>5 DEF HoldsAt
  <2>2. ASSUME NEW k \in 1..Len(kept) PROVE new[at + k] = kept[k]
    <3>1. at + k \in 1..Len(b)
      BY <1>1, <2>1
    <3> QED
      BY <1>2, <2>1, <3>1
  <2>3. at + Len(kept) <= Len(new)
    BY <1>1, <2>1
  <2> QED
    BY <2>2, <2>3 DEF HoldsAt
<1> QED
  BY <1>4, <1>5 DEF new, more, WithName, Terminated

(* A step that renames nothing keeps the names.                              *)
LEMMA NamesStay ==
    ASSUME IInv, IInv', NamesInv, pc # "error",
           blob' = blob, offsets' = offsets, shstrndx' = shstrndx,
           Len(sections') = Len(sections),
           \A i \in 1..Len(sections) :
               /\ sections'[i].name = sections[i].name
               /\ sections'[i].header.type = sections[i].header.type
               /\ sections'[i].header.nameIndex = sections[i].header.nameIndex
               /\ sections'[i].data = sections[i].data,
           SectionsBegun' => SectionsBegun,
           pc = "segments" => pc' = "segments" /\ Len(offsets) = 0,
           HeaderFilled' => header'.shstrndx = shstrndx
    PROVE  NamesInv'
<1>1. /\ sections \in Seq(Section) /\ sections' \in Seq(Section)
      /\ Len(sections) \in Nat /\ Len(offsets) \in Nat
  BY DEF IInv, TypeOK
<1>2. sections' # <<>> <=> sections # <<>>
  BY <1>1
<1>3. pc # "segments" => Len(offsets) <= Len(sections)
  <2>1. pc \in {"names", "sections", "phdrs", "header", "shdrs", "ehdr", "done", "segments"}
    BY DEF IInv, TypeOK
  <2>2. SectionsBegun => Len(offsets) = Len(sections)
    BY DEF NamesInv, NamesAssigned
  <2>3. pc = "names" => Len(offsets) <= Len(sections)
    BY <1>1 DEF IInv, LayoutInv, SectionsInv, SectionsKept, TypeOK
  <2> QED
    BY <1>1, <2>1, <2>2, <2>3
    DEF SectionsBegun, PhdrsWritten, HeaderFilled, ShdrsWritten
<1>4. NamesCollected'
  <2>1. ASSUME NEW i \in 1..Len(offsets)
        PROVE  HoldsAt(blob, offsets[i], Terminated(NameBytes[sections'[i].name]))
    <3>1. i \in 1..Len(sections)
      BY <1>1, <1>3
    <3> QED
      BY <3>1 DEF NamesInv, NamesCollected
  <2> QED
    BY <2>1 DEF NamesCollected
<1>5. TableFound'
  BY <1>1, <1>2 DEF NamesInv, TableFound, IsShstrtab
<1>6. NamesAssigned'
  BY DEF NamesInv, NamesAssigned, IsShstrtab
<1> QED
  BY <1>4, <1>5, <1>6 DEF NamesInv

(* ensure_shstrtab leaves shstrndx at a name table.                          *)
LEMMA EnsureShstrtabNames ==
    ASSUME IInv, IInv', EnsureShstrtab
    PROVE  NamesInv'
<1>1. /\ sections \in Seq(Section) /\ Len(sections) \in Nat
      /\ offsets' = <<>> /\ pc' \in {"phdrs", "names"}
      /\ pc' = "phdrs" => sections' = <<>>
  BY DEF IInv, TypeOK, EnsureShstrtab
<1>2. NamesCollected'
  BY <1>1 DEF NamesCollected
<1>3. NamesAssigned'
  BY <1>1 DEF NamesAssigned, SectionsBegun, PhdrsWritten, HeaderFilled, ShdrsWritten
<1>4. TableFound'
  <2>1. CASE sections = <<>>
    BY <2>1 DEF EnsureShstrtab, TableFound
  <2>2. CASE sections # <<>>
    <3>1. PICK at \in 1..(Len(sections) + 1) :
              ShstrtabAt(at) /\ shstrndx' = IF at - 1 <= U16Max THEN at - 1 ELSE 0
      BY <2>2 DEF EnsureShstrtab
    <3>2. at \in 1..Len(sections') /\ IsShstrtab(sections'[at]) /\ Len(sections') \in Nat
      <4>1. CASE at \in 1..Len(sections) /\ IsFirstShstrtab(at) /\ UNCHANGED sections
        BY <1>1, <4>1 DEF IsFirstShstrtab
      <4>2. CASE at = Len(sections) + 1 /\ sections' = Append(sections, NewShstrtab)
        <5>1. sections'[at] = NewShstrtab /\ Len(sections') = Len(sections) + 1
          BY <1>1, <4>2, NewShstrtabType
        <5> QED
          BY <1>1, <4>2, <5>1 DEF IsShstrtab, NewShstrtab
      <4> QED
        BY <3>1, <4>1, <4>2 DEF ShstrtabAt
    <3>3. Len(sections') <= U16Max => shstrndx' = at - 1
      BY <1>1, <3>1, <3>2, FormatAssumption
    <3>4. Len(sections') <= U16Max => shstrndx' + 1 = at
      BY <3>2, <3>3
    <3> QED
      BY <3>2, <3>4 DEF TableFound, IsShstrtab
  <2> QED
    BY <2>1, <2>2
<1> QED
  BY <1>1, <1>2, <1>3, <1>4 DEF NamesInv, HeaderFilled, ShdrsWritten

(* Collecting a name keeps the ones collected before and adds its own.       *)
LEMMA CollectNameNames ==
    ASSUME IInv, IInv', NamesInv, CollectName
    PROVE  NamesInv'
<1> DEFINE name == NameBytes[sections[index].name]
<1>1. /\ pc = "names" /\ pc' = "names" /\ index \in 1..Len(sections)
      /\ sections' = sections /\ shstrndx' = shstrndx
      /\ offsets' = Append(offsets, Len(blob))
      /\ blob' = WithName(blob, name)
      /\ blob \in Seq(RawByte) /\ offsets \in Seq(Nat) /\ Len(offsets) = index - 1
      /\ index \in Nat /\ Len(sections) \in Nat
  BY DEF CollectName, WithName, IInv, TypeOK, LayoutInv, SectionsInv, SectionsKept
<1>2. ASSUME NEW i \in 1..Len(sections)
      PROVE  /\ NameBytes[sections[i].name] \in Seq(RawByte)
             /\ Terminated(NameBytes[sections[i].name]) \in Seq(RawByte)
  <2>1. sections[i] \in Section
    BY DEF IInv, TypeOK
  <2>2. NameBytes[sections[i].name] \in Seq(RawByte \ {Zero})
    BY <2>1, FormatAssumption DEF Section
  <2>3. NameBytes[sections[i].name] \in Seq(RawByte) /\ Zero \in RawByte
    BY <2>2, FormatAssumption DEF Zero, RawByte
  <2> QED
    BY <2>3 DEF Terminated
<1>3. name \in Seq(RawByte)
  BY <1>1, <1>2
<1>5. ASSUME NEW i \in 1..Len(offsets')
      PROVE  HoldsAt(blob', offsets'[i], Terminated(NameBytes[sections'[i].name]))
  <2>1. CASE i = index
    <3>1. offsets'[i] = Len(blob) /\ sections'[i] = sections[index]
      BY <1>1, <2>1
    <3>2. HoldsAt(blob', Len(blob), Terminated(name))
      <4> HIDE DEF name
      <4> QED
        BY <1>1, <1>3, NameAdded
    <3> QED
      BY <3>1, <3>2
  <2>2. CASE i # index
    <3>1. i \in 1..Len(offsets) /\ i \in 1..Len(sections)
      BY <1>1, <2>2
    <3> DEFINE kept == Terminated(NameBytes[sections[i].name])
               at   == offsets[i]
    <3>2. HoldsAt(blob, at, kept) /\ at \in Nat /\ kept \in Seq(RawByte)
      <4>1. kept \in Seq(RawByte)
        BY <1>2, <3>1
      <4>2. at \in Nat
        BY <1>1, <3>1
      <4>3. HoldsAt(blob, at, kept)
        BY <1>1, <3>1 DEF NamesInv, NamesCollected
      <4> QED
        BY <4>1, <4>2, <4>3
    <3>3. HoldsAt(blob', at, kept)
      <4> HIDE DEF name, kept, at
      <4> QED
        BY <1>1, <1>3, <3>2, NameAdded
    <3>4. offsets'[i] = offsets[i]
      BY <1>1, <3>1
    <3> QED
      BY <1>1, <3>3, <3>4
  <2> QED
    BY <2>1, <2>2
<1>6. NamesCollected'
  BY <1>5 DEF NamesCollected
<1>7. TableFound'
  BY <1>1 DEF NamesInv, TableFound, IsShstrtab
<1> QED
  BY <1>1, <1>6, <1>7 DEF NamesInv, NamesAssigned, SectionsBegun, PhdrsWritten,
                          HeaderFilled, ShdrsWritten

(* assign_name_offsets gives every section its offset, and every name table  *)
(* the strings.                                                              *)
LEMMA AssignNamesNames ==
    ASSUME IInv, IInv', NamesInv, AssignNames
    PROVE  NamesInv'
<1>1. /\ pc = "names" /\ pc' = "sections"
      /\ sections' = [i \in 1..Len(sections) |-> Named(sections[i], offsets[i])]
      /\ shstrndx' = shstrndx /\ blob' = blob /\ offsets' = offsets
      /\ sections \in Seq(Section) /\ Len(sections) \in Nat
      /\ Len(offsets) = Len(sections)
  BY DEF AssignNames, names, IInv, TypeOK, LayoutInv, SectionsInv, SectionsKept
<1>2. Len(sections') = Len(sections)
  BY <1>1
<1>3. ASSUME NEW i \in 1..Len(sections)
      PROVE  /\ sections'[i].name = sections[i].name
             /\ sections'[i].header.type = sections[i].header.type
             /\ sections'[i].header.nameIndex = offsets[i]
             /\ IsShstrtab(sections[i]) => sections'[i].data = blob
  <2>1. sections'[i] = Named(sections[i], offsets[i]) /\ sections[i] \in Section
    BY <1>1
  <2> QED
    BY <2>1 DEF Named, Section, Shdr
<1>4. NamesCollected'
  BY <1>1, <1>3 DEF NamesInv, NamesCollected
<1>5. TableFound'
  <2>1. sections' # <<>> => sections # <<>>
    BY <1>1, <1>2
  <2> QED
    BY <1>1, <1>2, <1>3, <2>1 DEF NamesInv, TableFound, IsShstrtab
<1>6. NamesAssigned'
  BY <1>1, <1>2, <1>3 DEF NamesAssigned, IsShstrtab
<1> QED
  BY <1>1, <1>4, <1>5, <1>6 DEF NamesInv, HeaderFilled, ShdrsWritten

(* Moving a section renames nothing.                                         *)
LEMMA MovedIsNamed ==
    ASSUME NEW section \in Section, NEW offset \in Nat
    PROVE  LET moved == SectionAt(section, offset)
           IN  /\ moved.name = section.name /\ moved.data = section.data
               /\ moved.header.type = section.header.type
               /\ moved.header.nameIndex = section.header.nameIndex
BY DEF SectionAt, Section, Shdr

(* Every step of a call keeps the names.                                     *)
LEMMA StepNames == IInv /\ NamesInv /\ [Next]_vars => NamesInv'
<1> SUFFICES ASSUME IInv, NamesInv, [Next]_vars PROVE NamesInv'
  OBVIOUS
<1>1. IInv'
  BY StepInv
<1>2. Fail \/ (Returned /\ pc = "error") => NamesInv'
  BY DEF Fail, Returned, vars, NamesInv
<1>3. sections \in Seq(Section) /\ Len(sections) \in Nat
  BY DEF IInv, TypeOK
<1>4. ASSUME UNCHANGED vars PROVE NamesInv'
  BY <1>4 DEF vars, names, layout, NamesInv, NamesCollected, TableFound, NamesAssigned,
              SectionsBegun, PhdrsWritten, HeaderFilled, ShdrsWritten, IsShstrtab
<1>5. ASSUME SkipSegment \/ PlaceSegment, ~Fail PROVE NamesInv'
  <2>1. /\ pc = "segments" /\ pc' = "segments" /\ sections' = sections
        /\ blob' = blob /\ offsets' = offsets
    BY <1>5 DEF SkipSegment, PlaceSegment, names
  <2> QED
    BY <2>1 DEF NamesInv, NamesCollected, TableFound, NamesAssigned, SectionsBegun,
                PhdrsWritten, HeaderFilled, ShdrsWritten
<1>6. ASSUME SkipSection \/ PlaceSection, ~Fail PROVE NamesInv'
  <2>1. /\ pc = "sections" /\ pc' = "sections" /\ index \in 1..Len(sections)
        /\ blob' = blob /\ offsets' = offsets /\ shstrndx' = shstrndx
    BY <1>6 DEF SkipSection, PlaceSection, names, IInv, TypeOK
  <2>2. \/ sections' = sections
        \/ \E offset \in Nat :
               sections' = [sections EXCEPT ![index] = SectionAt(sections[index], offset)]
    <3>1. SkipSection => \/ sections' = sections
                         \/ sections' = [sections EXCEPT ![index] =
                                SectionAt(sections[index], sections[index].header.offset)]
      BY DEF SkipSection
    <3>2. sections[index] \in Section
      BY <1>3, <2>1
    <3>3. sections[index].header.offset \in Nat
      BY <3>2, U64Nat DEF Section, Shdr
    <3> DEFINE offset == AlignUp(cursor, Maximum(sections[index].header.addralign, 1))
    <3>4. PlaceSection => offset \in Nat
              /\ sections' = [sections EXCEPT ![index] = SectionAt(sections[index], offset)]
      BY <1>6, SectionWritten, U64Nat
    <3> HIDE DEF offset
    <3> QED
      BY <1>6, <3>1, <3>3, <3>4
  <2>3. Len(sections') = Len(sections)
    BY <1>3, <2>2
  <2>4. ASSUME NEW i \in 1..Len(sections)
        PROVE  /\ sections'[i].name = sections[i].name
               /\ sections'[i].header.type = sections[i].header.type
               /\ sections'[i].header.nameIndex = sections[i].header.nameIndex
               /\ sections'[i].data = sections[i].data
    <3>1. sections[i] \in Section
      BY <1>3
    <3>2. \/ sections'[i] = sections[i]
          \/ \E offset \in Nat : sections'[i] = SectionAt(sections[i], offset)
      BY <1>3, <2>1, <2>2
    <3> QED
      BY <3>1, <3>2, MovedIsNamed
  <2>5. SectionsBegun /\ ~HeaderFilled'
    BY <2>1 DEF SectionsBegun, HeaderFilled, ShdrsWritten
  <2> QED
    BY <1>1, <2>1, <2>3, <2>4, <2>5, NamesStay
<1>7. ASSUME SectionsPlaced \/ WriteProgramHeaders \/ WriteSectionHeaders \/ WriteHeader,
             ~Fail
      PROVE  NamesInv'
  <2>1. /\ sections' = sections /\ blob' = blob /\ offsets' = offsets
        /\ shstrndx' = shstrndx /\ header' = header
        /\ pc \in {"sections", "phdrs", "shdrs", "ehdr"}
        /\ HeaderFilled' => HeaderFilled
    BY <1>7 DEF SectionsPlaced, WriteProgramHeaders, WriteSectionHeaders, WriteHeader,
                names, layout, HeaderFilled, ShdrsWritten
  <2>2. SectionsBegun
    BY <2>1 DEF SectionsBegun, PhdrsWritten, HeaderFilled, ShdrsWritten
  <2>3. HeaderFilled' => header'.shstrndx = shstrndx
    BY <2>1 DEF NamesInv
  <2> QED
    BY <1>1, <2>1, <2>2, <2>3, NamesStay
<1>8. ASSUME FillHeader, ~Fail PROVE NamesInv'
  <2>1. /\ sections' = sections /\ blob' = blob /\ offsets' = offsets
        /\ shstrndx' = shstrndx /\ pc = "header" /\ pc' = "shdrs" /\ header' = Filled
    BY <1>8 DEF FillHeader, names, layout
  <2>2. SectionsBegun
    BY <2>1 DEF SectionsBegun, PhdrsWritten
  <2>3. header'.shstrndx = shstrndx
    BY <2>1 DEF Filled, IInv, TypeOK, ElfHeader
  <2> QED
    BY <1>1, <2>1, <2>2, <2>3, NamesStay
<1>9. ASSUME EnsureShstrtab \/ CollectName \/ AssignNames PROVE NamesInv'
  BY <1>1, <1>9, EnsureShstrtabNames, CollectNameNames, AssignNamesNames
<1> QED
  BY <1>2, <1>4, <1>5, <1>6, <1>7, <1>8, <1>9 DEF Next, Returned

(* A call starts with no names.                                              *)
LEMMA BeginNames == Begin => NamesInv
BY DEF Begin, NamesInv, NamesCollected, TableFound, NamesAssigned, SectionsBegun,
       PhdrsWritten, HeaderFilled, ShdrsWritten

(* With the invariant, the names of a finished file resolve.                 *)
LEMMA NamesResolved == IInv /\ NamesInv => NamesResolve
<1>1. ASSUME IInv, NamesInv, pc = "done", NEW i \in 1..Len(sections)
      PROVE  /\ IsShstrtab(sections[header.shstrndx + 1])
             /\ StringAt(sections[header.shstrndx + 1].data,
                         sections[i].header.nameIndex, NameBytes[sections[i].name])
  <2>1. /\ header.shstrndx = shstrndx /\ sections # <<>> /\ Len(sections) <= U16Max
        /\ sections[i] \in Section /\ SectionsBegun
    <3>1. HeaderFilled /\ SectionsBegun
      BY <1>1 DEF HeaderFilled, ShdrsWritten, SectionsBegun, PhdrsWritten
    <3>2. header.shnum = Len(sections) /\ header.shnum \in 0..U16Max
      BY <1>1, <3>1 DEF IInv, LayoutInv, TablesInv, TypeOK, ElfHeader
    <3> QED
      BY <1>1, <3>1, <3>2, FormatAssumption DEF NamesInv, IInv, TypeOK
  <2>2. shstrndx + 1 \in 1..Len(sections) /\ IsShstrtab(sections[shstrndx + 1])
    BY <1>1, <2>1 DEF NamesInv, TableFound
  <2>3. /\ sections[shstrndx + 1].data = blob
        /\ sections[i].header.nameIndex = offsets[i] /\ i \in 1..Len(offsets)
    BY <1>1, <2>1, <2>2 DEF NamesInv, NamesAssigned
  <2> DEFINE name == NameBytes[sections[i].name]
             at   == offsets[i]
  <2>4. name \in Seq(RawByte \ {Zero}) /\ at \in Nat /\ blob \in Seq(RawByte)
    <3>1. offsets \in Seq(Nat) /\ blob \in Seq(RawByte)
      BY <1>1 DEF IInv, TypeOK
    <3>2. at \in Nat
      BY <2>3, <3>1
    <3>3. sections[i].name \in Names
      BY <2>1 DEF Section
    <3>4. name \in Seq(RawByte \ {Zero})
      BY <3>3, FormatAssumption
    <3> QED
      BY <3>1, <3>2, <3>4
  <2>5. HoldsAt(blob, at, Append(name, Zero))
    BY <1>1, <2>3 DEF NamesInv, NamesCollected, Terminated
  <2> HIDE DEF name, at
  <2>6. StringAt(blob, at, name)
    <3>1. /\ Len(Append(name, Zero)) = Len(name) + 1 /\ Len(name) \in Nat
          /\ Append(name, Zero)[Len(name) + 1] = Zero
          /\ \A k \in 1..Len(name) : Append(name, Zero)[k] = name[k]
      BY <2>4
    <3>2. HoldsAt(blob, at, name)
      BY <2>4, <2>5, <3>1 DEF HoldsAt
    <3>3. blob[at + Len(name) + 1] = Zero
      BY <2>4, <2>5, <3>1 DEF HoldsAt
    <3> QED
      BY <3>2, <3>3 DEF StringAt
  <2> QED
    BY <2>1, <2>2, <2>3, <2>6 DEF name, at
<1> QED
  BY <1>1 DEF NamesResolve

(* For every image, with a name table, with two, or with none: the name a    *)
(* reader of the finished file finds for a section is the section's name     *)
(* (ensure_shstrtab, assign_name_offsets, build.rs:260-303).                 *)
THEOREM NamesAreResolved == Spec => []NamesResolve
<1>1. Init => NamesInv
  BY BeginNames DEF Init
<1> QED
  BY <1>1, NamesResolved, StepNames, Invariance, PTL DEF Spec

-----------------------------------------------------------------------------
(* The end of the file.                                                      *)

SegmentEnds(end) ==
    \E i \in 1..SegmentsDone :
        phdrs[i].filesz > 0 /\ end = phdrs[i].offset + phdrs[i].filesz

SectionEnds(end) ==
    /\ SectionsBegun
    /\ \E i \in 1..SectionsDone :
           /\ ~IsNobits(sections[i]) /\ sections[i].header.size > 0
           /\ end = sections[i].header.offset + sections[i].header.size

TableEnds(end) ==
    \/ PhdrsWritten /\ end = TablesEnd
    \/ ShdrsWritten /\ sections # <<>> /\ end = header.shoff + ShEntSize * Len(sections)

(* The file always ends with a structure that is finished: its own header's  *)
(* area, a segment, a section or a table.                                    *)
EndInv ==
    pc # "error" =>
        /\ \/ Len(out) = EhSize
           \/ SegmentEnds(Len(out)) \/ SectionEnds(Len(out)) \/ TableEnds(Len(out))
        /\ HeaderFilled /\ sections = <<>> => header.shoff = 0

(* The file still ends with what it ended with, when a step finishes more.   *)
LEMMA EndStays ==
    ASSUME EndInv, pc # "error", Len(out') = Len(out), image' = image,
           SegmentsDone \in Nat, SegmentsDone' \in Nat, SegmentsDone <= SegmentsDone',
           \A i \in 1..SegmentsDone : phdrs'[i] = phdrs[i],
           SectionsBegun =>
               /\ SectionsBegun' /\ SectionsDone \in Nat /\ SectionsDone' \in Nat
               /\ SectionsDone <= SectionsDone'
               /\ \A i \in 1..SectionsDone : sections'[i] = sections[i],
           PhdrsWritten => PhdrsWritten',
           ShdrsWritten => ShdrsWritten' /\ sections' = sections /\ header' = header,
           HeaderFilled' /\ sections' = <<>> => header'.shoff = 0
    PROVE  EndInv'
<1>1. SegmentEnds(Len(out)) => SegmentEnds(Len(out))'
  <2>1. ASSUME NEW i \in 1..SegmentsDone
        PROVE  i \in 1..SegmentsDone' /\ phdrs'[i] = phdrs[i]
    OBVIOUS
  <2> QED
    BY <2>1 DEF SegmentEnds
<1>2. SectionEnds(Len(out)) => SectionEnds(Len(out))'
  <2>1. ASSUME SectionsBegun, NEW i \in 1..SectionsDone
        PROVE  i \in 1..SectionsDone' /\ sections'[i] = sections[i]
    BY <2>1
  <2> QED
    BY <2>1 DEF SectionEnds, IsNobits
<1>3. TableEnds(Len(out)) => TableEnds(Len(out))'
  BY DEF TableEnds, TablesEnd
<1> QED
  BY <1>1, <1>2, <1>3 DEF EndInv

(* The progress of a call, in numbers.                                       *)
LEMMA Progress ==
    ASSUME IInv
    PROVE  /\ SegmentsDone \in 0..Len(phdrs) /\ Len(phdrs) \in Nat
           /\ SectionsDone \in 0..Len(sections) /\ Len(sections) \in Nat
           /\ Len(out) \in Nat /\ TablesEnd \in Nat
           /\ Len(phdrs) = Len(image.segments)
<1>1. /\ Len(phdrs) \in Nat /\ Len(sections) \in Nat /\ Len(out) \in Nat
      /\ index \in Nat \ {0} /\ Len(phdrs) = Len(image.segments) /\ TablesEnd \in Nat
  BY ImageFacts DEF IInv, TypeOK
<1>2. /\ pc = "segments" => index <= Len(phdrs) + 1
      /\ pc = "sections" => index <= Len(sections) + 1
  BY <1>1 DEF IInv, LayoutInv, CursorInv
<1> QED
  BY <1>1, <1>2 DEF SegmentsDone, SectionsDone

(* A segment just placed ends the file.                                      *)
LEMMA PlaceSegmentEnd ==
    ASSUME IInv, IInv', EndInv, PlaceSegment, ~Fail
    PROVE  EndInv'
<1> DEFINE segment == image.segments[index]
           offset  == SegmentOffset(cursor, segment)
           bytes   == SegmentBytes(segment)
           moved   == PhdrAt(phdrs[index], offset, Len(bytes))
<1>1. /\ bytes \in Seq(Byte) /\ bytes # <<>> /\ offset \in Nat /\ offset \in U64
      /\ Len(out) <= offset /\ Fits(offset, bytes)
      /\ out' = WriteAt(out, offset, bytes) /\ index \in 1..Len(phdrs)
      /\ phdrs' = [phdrs EXCEPT ![index] = moved]
  BY SegmentWritten, U64Nat
<1>2. /\ pc = "segments" /\ pc' = "segments" /\ index' = index + 1 /\ out \in Seq(Byte)
      /\ phdrs \in Seq(Phdr)
  BY DEF PlaceSegment, IInv, TypeOK
<1> HIDE DEF offset, bytes
<1>3. Len(bytes) \in Nat /\ Len(bytes) > 0 /\ Len(bytes) \in U64
  BY <1>1, FormatAssumption, U64MaxAssumption DEF Fits, U64
<1>4. Len(out') = offset + Len(bytes)
  <2>1. Len(out') = Maximum(Len(out), offset + Len(bytes))
    BY <1>1, <1>2, WriteAtFile
  <2> QED
    BY <1>1, <1>3, <2>1, Progress DEF Maximum
<1>5. phdrs'[index].offset = offset /\ phdrs'[index].filesz = Len(bytes)
  <2>1. phdrs[index] \in Phdr /\ phdrs'[index] = moved
    BY <1>1, <1>2
  <2> QED
    BY <1>1, <1>3, <2>1, PhdrAtFacts
<1>6. SegmentsDone' = index
  BY <1>1, <1>2 DEF SegmentsDone
<1>7. SegmentEnds(Len(out))'
  <2>1. index \in 1..SegmentsDone'
    BY <1>1, <1>6, Progress
  <2>2. phdrs'[index].filesz > 0 /\ Len(out') = phdrs'[index].offset + phdrs'[index].filesz
    BY <1>3, <1>4, <1>5
  <2> QED
    BY <2>1, <2>2 DEF SegmentEnds
<1> QED
  BY <1>2, <1>7 DEF EndInv, HeaderFilled, ShdrsWritten

(* So does a section just placed.                                            *)
LEMMA PlaceSectionEnd ==
    ASSUME IInv, IInv', EndInv, PlaceSection, ~Fail
    PROVE  EndInv'
<1> DEFINE section == sections[index]
           offset  == AlignUp(cursor, Maximum(section.header.addralign, 1))
           bytes   == section.data
<1>1. /\ section \in Section /\ ~IsNobits(section) /\ bytes # <<>>
      /\ offset \in Nat /\ offset \in U64 /\ Len(out) <= offset
      /\ out' = WriteAt(out, offset, bytes) /\ index \in 1..Len(sections)
      /\ sections' = [sections EXCEPT ![index] = SectionAt(section, offset)]
  BY SectionWritten, U64Nat
<1>2. /\ pc = "sections" /\ pc' = "sections" /\ index' = index + 1 /\ out \in Seq(Byte)
      /\ sections \in Seq(Section)
  BY DEF PlaceSection, IInv, TypeOK
<1> HIDE DEF offset
<1>3. bytes \in Seq(Byte) /\ Len(bytes) \in Nat /\ Len(bytes) > 0
  <2>1. bytes \in Seq(Byte)
    BY <1>1, SectionFacts
  <2> HIDE DEF bytes
  <2> QED
    BY <1>1, <2>1
<1>4. Len(out') = offset + Len(bytes)
  <2> HIDE DEF bytes
  <2>1. Len(out') = Maximum(Len(out), offset + Len(bytes))
    BY <1>1, <1>2, <1>3, WriteAtFile
  <2> QED
    BY <1>1, <1>3, <2>1, Progress DEF Maximum
<1>5. /\ ~IsNobits(sections'[index]) /\ sections'[index].header.offset = offset
      /\ sections'[index].header.size = Len(bytes)
  <2>1. sections'[index] = SectionAt(section, offset)
    BY <1>1, <1>2
  <2> HIDE DEF section
  <2> QED
    BY <1>1, <2>1, SectionAtFacts DEF IsNobits, bytes
<1>6. SectionsDone' = index /\ SectionsBegun'
  BY <1>1, <1>2 DEF SectionsDone, SectionsBegun
<1>7. SectionEnds(Len(out))'
  <2> HIDE DEF bytes
  <2>1. sections'[index].header.size > 0
    BY <1>3, <1>5
  <2> QED
    <3>1. index \in 1..SectionsDone'
      BY <1>1, <1>6, Progress
    <3>2. Len(out') = sections'[index].header.offset + sections'[index].header.size
      BY <1>4, <1>5
    <3> QED
      BY <1>5, <1>6, <2>1, <3>1, <3>2 DEF SectionEnds, IsNobits
<1> QED
  BY <1>2, <1>7 DEF EndInv, HeaderFilled, ShdrsWritten

(* The program header table ends the file, or it lies in the area the file   *)
(* already has.                                                              *)
LEMMA WriteProgramHeadersEnd ==
    ASSUME IInv, IInv', EndInv, WriteProgramHeaders, ~Fail
    PROVE  EndInv'
<1> DEFINE table == EncodedTable(phdrs, PhEntSize)
<1>1. /\ table \in Seq(Byte) /\ EhSize + Len(table) = TablesEnd
      /\ out' = WriteAt(out, EhSize, table)
  BY PhdrsWrittenAt
<1>2. /\ pc = "phdrs" /\ pc' = "header" /\ image' = image /\ phdrs' = phdrs
      /\ sections' = sections /\ header' = header /\ out \in Seq(Byte)
      /\ EhSize \in Nat
  BY FormatAssumption DEF WriteProgramHeaders, names, IInv, TypeOK
<1> HIDE DEF table
<1>3. Len(out') = Maximum(Len(out), TablesEnd)
  BY <1>1, <1>2, WriteAtFile
<1>4. ~HeaderFilled' /\ PhdrsWritten'
  BY <1>2 DEF PhdrsWritten, HeaderFilled, ShdrsWritten
<1>5. CASE Len(out') = Len(out)
  <2>1. /\ SegmentsDone' = SegmentsDone /\ SectionsDone' = SectionsDone
        /\ SectionsBegun' /\ ~ShdrsWritten
    BY <1>2, <1>4 DEF SegmentsDone, SectionsDone, SectionsBegun, ShdrsWritten
  <2> QED
    BY <1>2, <1>4, <1>5, <2>1, Progress, EndStays
<1>6. CASE Len(out') # Len(out)
  <2>1. Len(out') = TablesEnd /\ TablesEnd' = TablesEnd
    BY <1>2, <1>3, <1>6, Progress DEF Maximum, TablesEnd
  <2> QED
    BY <1>4, <2>1 DEF EndInv, TableEnds
<1> QED
  BY <1>5, <1>6

(* The section header table ends the file.                                   *)
LEMMA WriteSectionHeadersEnd ==
    ASSUME IInv, IInv', EndInv, WriteSectionHeaders, ~Fail
    PROVE  EndInv'
<1>1. /\ pc = "shdrs" /\ pc' = "ehdr" /\ image' = image /\ phdrs' = phdrs
      /\ sections' = sections /\ header' = header
  BY DEF WriteSectionHeaders, names, layout
<1>2. HeaderFilled /\ ShdrsWritten' /\ ~ShdrsWritten /\ SectionsBegun' /\ PhdrsWritten'
  BY <1>1 DEF HeaderFilled, ShdrsWritten, SectionsBegun, PhdrsWritten
<1>3. CASE sections = <<>>
  <2>1. out' = out
    BY <1>3 DEF WriteSectionHeaders, layout
  <2>2. SegmentsDone' = SegmentsDone /\ SectionsDone' = SectionsDone
    BY <1>1 DEF SegmentsDone, SectionsDone
  <2>3. header'.shoff = 0
    BY <1>1, <1>2, <1>3 DEF EndInv
  <2> QED
    BY <1>1, <1>2, <2>1, <2>2, <2>3, Progress, EndStays
<1>4. CASE sections # <<>>
  <2> DEFINE table  == EncodedTable(SectionHeaders, ShEntSize)
             n      == ShEntSize * Len(sections)
             offset == ShdrTableOffset
  <2>1. /\ table \in Seq(Byte) /\ offset \in Nat /\ Len(out) <= offset
        /\ out' = WriteAt(out, offset, table) /\ out \in Seq(Byte)
    BY <1>4, ShdrsWrittenAt DEF IInv, TypeOK
  <2>2. Len(table) = n
    BY SectionHeadersType, EncodedTableBytes, FormatAssumption DEF IInv
  <2>3. Len(table) \in Nat
    BY <2>1
  <2> HIDE DEF table, offset
  <2>4. Len(out') = Maximum(Len(out), offset + Len(table))
    BY <2>1, WriteAtFile
  <2>5. Len(out') = offset + Len(table)
    BY <2>1, <2>3, <2>4, Progress DEF Maximum
  <2>6. header'.shoff = offset
    BY <1>1, <1>2, <1>4 DEF IInv, LayoutInv, TablesInv, offset
  <2>7. Len(out') = header'.shoff + ShEntSize * Len(sections')
    BY <1>1, <2>2, <2>5, <2>6
  <2>8. sections' # <<>>
    BY <1>1, <1>4
  <2> QED
    BY <1>2, <2>7, <2>8 DEF EndInv, TableEnds
<1> QED
  BY <1>3, <1>4

(* Every step of a call leaves the file ending with a finished structure.    *)
LEMMA StepEnd == IInv /\ EndInv /\ [Next]_vars => EndInv'
<1> SUFFICES ASSUME IInv, EndInv, [Next]_vars PROVE EndInv'
  OBVIOUS
<1>1. IInv'
  BY StepInv
<1>2. Fail \/ (Returned /\ pc = "error") => EndInv'
  BY DEF Fail, Returned, vars, EndInv
<1>3. ASSUME UNCHANGED vars PROVE EndInv'
  BY <1>3 DEF vars, layout, EndInv, SegmentEnds, SectionEnds, TableEnds, TablesEnd,
              SegmentsDone, SectionsDone, SectionsBegun, PhdrsWritten, HeaderFilled,
              ShdrsWritten, IsNobits
<1>4. ASSUME SkipSegment PROVE EndInv'
  <2>1. /\ pc = "segments" /\ pc' = "segments" /\ index' = index + 1 /\ out' = out
        /\ image' = image
        /\ phdrs' = [phdrs EXCEPT ![index] = PhdrAt(phdrs[index], 0, 0)]
    BY <1>4 DEF SkipSegment, layout
  <2>2. /\ SegmentsDone = index - 1 /\ SegmentsDone' = index /\ index \in Nat \ {0}
        /\ phdrs \in Seq(Phdr)
    BY <2>1 DEF SegmentsDone, IInv, TypeOK
  <2>3. \A i \in 1..SegmentsDone : phdrs'[i] = phdrs[i]
    BY <2>1, <2>2, Progress
  <2>4. ~SectionsBegun /\ ~PhdrsWritten /\ ~ShdrsWritten /\ ~HeaderFilled'
    BY <2>1 DEF SectionsBegun, PhdrsWritten, HeaderFilled, ShdrsWritten
  <2> QED
    BY <2>1, <2>2, <2>3, <2>4, EndStays
<1>5. ASSUME PlaceSegment \/ PlaceSection \/ WriteProgramHeaders \/ WriteSectionHeaders,
             ~Fail
      PROVE  EndInv'
  BY <1>1, <1>5, PlaceSegmentEnd, PlaceSectionEnd, WriteProgramHeadersEnd,
     WriteSectionHeadersEnd
<1>6. ASSUME EnsureShstrtab \/ CollectName \/ AssignNames PROVE EndInv'
  <2>1. /\ pc \in {"segments", "names"} /\ pc' \in {"names", "phdrs", "sections"}
        /\ out' = out /\ image' = image /\ phdrs' = phdrs
    BY <1>6 DEF EnsureShstrtab, CollectName, AssignNames, layout
  <2>2. SegmentsDone' = Len(image.segments)
    BY <2>1 DEF SegmentsDone
  <2>3. ~SectionsBegun /\ ~PhdrsWritten /\ ~ShdrsWritten /\ ~HeaderFilled'
    BY <2>1 DEF SectionsBegun, PhdrsWritten, HeaderFilled, ShdrsWritten
  <2> QED
    BY <2>1, <2>2, <2>3, Progress, EndStays
<1>7. ASSUME SkipSection PROVE EndInv'
  <2>1. /\ pc = "sections" /\ pc' = "sections" /\ index' = index + 1 /\ out' = out
        /\ image' = image /\ phdrs' = phdrs /\ index \in 1..Len(sections)
        /\ \/ sections' = sections
           \/ sections' = [sections EXCEPT ![index] =
                              SectionAt(sections[index], sections[index].header.offset)]
        /\ sections \in Seq(Section)
    BY <1>7 DEF SkipSection, layout, IInv, TypeOK
  <2>2. /\ SectionsDone = index - 1 /\ SectionsDone' = index
        /\ SegmentsDone' = SegmentsDone /\ Len(sections') = Len(sections)
    BY <2>1 DEF SegmentsDone, SectionsDone
  <2>3. \A i \in 1..SectionsDone : sections'[i] = sections[i]
    BY <2>1, <2>2, Progress
  <2>4. SectionsBegun' /\ ~PhdrsWritten /\ ~ShdrsWritten /\ ~HeaderFilled'
    BY <2>1 DEF SectionsBegun, PhdrsWritten, HeaderFilled, ShdrsWritten
  <2>5. SectionsDone \in Nat /\ SectionsDone' \in Nat /\ SectionsDone <= SectionsDone'
    BY <2>1, <2>2, Progress
  <2> QED
    BY <2>1, <2>2, <2>3, <2>4, <2>5, Progress, EndStays
<1>8. ASSUME SectionsPlaced \/ FillHeader, ~Fail PROVE EndInv'
  <2>1. /\ pc \in {"sections", "header"} /\ pc' \in {"phdrs", "shdrs"} /\ out' = out
        /\ pc' = "phdrs" <=> pc = "sections"
        /\ image' = image /\ phdrs' = phdrs /\ sections' = sections
        /\ pc' = "shdrs" => header' = Filled
    BY <1>8 DEF SectionsPlaced, FillHeader, layout
  <2>2. /\ SegmentsDone' = SegmentsDone /\ SectionsDone' = Len(sections)
        /\ ~ShdrsWritten /\ SectionsBegun' /\ (PhdrsWritten => PhdrsWritten')
    BY <2>1 DEF SegmentsDone, SectionsDone, SectionsBegun, PhdrsWritten, HeaderFilled,
                ShdrsWritten
  <2>3. HeaderFilled' /\ sections' = <<>> => header'.shoff = 0
    <3>1. HeaderFilled' => header' = Filled
      BY <2>1 DEF HeaderFilled, ShdrsWritten
    <3> QED
      BY <2>1, <3>1 DEF Filled, IInv, TypeOK, ElfHeader
  <2> QED
    BY <2>1, <2>2, <2>3, Progress, EndStays
<1>9. ASSUME WriteHeader PROVE EndInv'
  <2> DEFINE bytes == Encoded(header, EhSize)
  <2>1. /\ pc = "ehdr" /\ pc' = "done" /\ out' = WriteAt(out, 0, bytes)
        /\ image' = image /\ phdrs' = phdrs /\ sections' = sections /\ header' = header
        /\ out \in Seq(Byte)
    BY <1>9 DEF WriteHeader, names, IInv, TypeOK
  <2>2. bytes \in Seq(Byte) /\ Len(bytes) = EhSize
    BY EncodedBytes, FormatAssumption DEF IInv, TypeOK
  <2> HIDE DEF bytes
  <2>3. Len(out') = Maximum(Len(out), 0 + Len(bytes))
    BY <2>1, <2>2, WriteAtFile
  <2>4. EhSize <= Len(out) /\ EhSize \in Nat
    BY FormatAssumption DEF IInv, LayoutInv, CursorInv
  <2>5. Len(out') = Len(out)
    BY <2>2, <2>3, <2>4, Progress DEF Maximum
  <2>6. /\ SegmentsDone' = SegmentsDone /\ SectionsDone' = SectionsDone
        /\ SectionsBegun' /\ PhdrsWritten' /\ ShdrsWritten' /\ HeaderFilled
    BY <2>1 DEF SegmentsDone, SectionsDone, SectionsBegun, PhdrsWritten, HeaderFilled,
                ShdrsWritten
  <2>7. sections' = <<>> => header'.shoff = 0
    BY <2>1, <2>6 DEF EndInv
  <2> QED
    BY <2>1, <2>5, <2>6, <2>7, Progress, EndStays
<1> QED
  BY <1>2, <1>3, <1>4, <1>5, <1>6, <1>7, <1>8, <1>9 DEF Next, Returned

(* No structure the headers of a finished file name ends behind the file.    *)
LEMMA NothingBehindTheEnd ==
    ASSUME IInv, EndInv, pc = "done",
           NEW end \in StructureEnds(header, {phdrs[i] : i \in 1..Len(phdrs)},
                                     {sections[i].header : i \in 1..Len(sections)})
    PROVE  end <= Len(out)
<1>1. /\ HoldsAt(out, header.phoff, EncodedTable(phdrs, PhEntSize))
      /\ sections # <<>> =>
             HoldsAt(out, header.shoff, EncodedTable(SectionHeaders, ShEntSize))
      /\ header.phnum = Len(phdrs) /\ header.shnum = Len(sections)
      /\ HeaderFilled /\ SectionsBegun
  BY DEF IInv, LayoutInv, TablesInv, PhdrsWritten, HeaderFilled, ShdrsWritten,
         SectionsBegun
<1>2. EhSize <= Len(out) /\ Len(out) \in Nat /\ EhSize \in Nat
  BY Progress, FormatAssumption DEF IInv, LayoutInv, CursorInv
<1>3. CASE end = EhSize
  BY <1>2, <1>3
<1>4. CASE end = header.phoff + header.phnum * PhEntSize
  <2>1. Len(EncodedTable(phdrs, PhEntSize)) = PhEntSize * Len(phdrs)
    BY EncodedTableBytes, FormatAssumption DEF IInv, TypeOK
  <2>2. PhEntSize * Len(phdrs) = header.phnum * PhEntSize
    BY <1>1, Progress, FormatAssumption
  <2> QED
    BY <1>1, <1>4, <2>1, <2>2 DEF HoldsAt
<1>5. CASE end = header.shoff + header.shnum * ShEntSize
  <2>1. CASE sections = <<>>
    <3>1. header.shoff = 0 /\ header.shnum = 0
      BY <1>1, <2>1 DEF EndInv
    <3>2. end = 0
      BY <1>5, <3>1, FormatAssumption
    <3> QED
      BY <1>2, <3>2
  <2>2. CASE sections # <<>>
    <3>1. Len(EncodedTable(SectionHeaders, ShEntSize)) = ShEntSize * Len(sections)
      BY SectionHeadersType, EncodedTableBytes, FormatAssumption DEF IInv
    <3>2. ShEntSize * Len(sections) = header.shnum * ShEntSize
      BY <1>1, Progress, FormatAssumption
    <3> QED
      BY <1>1, <1>5, <2>2, <3>1, <3>2 DEF HoldsAt
  <2> QED
    BY <2>1, <2>2
<1>6. ASSUME NEW i \in 1..Len(phdrs), phdrs[i].filesz > 0,
             end = phdrs[i].offset + phdrs[i].filesz
      PROVE  end <= Len(out)
  <2>1. i \in 1..Len(image.segments) /\ SegmentPlaced(i)
    BY Progress DEF IInv, LayoutInv, SegmentsInv, SegmentsDone
  <2> DEFINE bytes == SegmentBytes(image.segments[i])
  <2>2. bytes \in Seq(Byte)
    BY <2>1, ImageFacts, SegmentBytesFacts DEF IInv
  <2> HIDE DEF bytes
  <2>3. phdrs[i].filesz = Len(bytes) /\ (bytes # <<>> => HoldsAt(out, phdrs[i].offset, bytes))
    BY <2>1 DEF SegmentPlaced, bytes
  <2>4. bytes # <<>>
    BY <1>6, <2>2, <2>3
  <2> QED
    BY <1>6, <2>3, <2>4 DEF HoldsAt
<1>7. ASSUME NEW i \in 1..Len(sections), sections[i].header.type # "NOBITS",
             sections[i].header.size > 0,
             end = sections[i].header.offset + sections[i].header.size
      PROVE  end <= Len(out)
  <2>1. SectionPlaced(i) /\ ~IsNobits(sections[i])
    BY <1>1, <1>7 DEF IInv, LayoutInv, SectionsInv, SectionsDone, IsNobits
  <2> DEFINE bytes == sections[i].data
  <2>2. bytes \in Seq(Byte)
    <3>1. sections[i] \in Section
      BY DEF IInv, TypeOK
    <3> QED
      BY <3>1, SectionFacts
  <2> HIDE DEF bytes
  <2>3. /\ sections[i].header.size = Len(bytes)
        /\ bytes # <<>> => HoldsAt(out, sections[i].header.offset, bytes)
    BY <2>1 DEF SectionPlaced, bytes
  <2>4. bytes # <<>>
    BY <1>7, <2>2, <2>3
  <2> QED
    BY <1>7, <2>3, <2>4 DEF HoldsAt
<1> QED
  BY <1>3, <1>4, <1>5, <1>6, <1>7 DEF StructureEnds

(* Some structure the headers of a finished file name ends with the file.    *)
LEMMA SomethingAtTheEnd ==
    ASSUME IInv, EndInv, pc = "done"
    PROVE  Len(out) \in StructureEnds(header, {phdrs[i] : i \in 1..Len(phdrs)},
                                      {sections[i].header : i \in 1..Len(sections)})
<1> DEFINE segmentHeaders == {phdrs[i] : i \in 1..Len(phdrs)}
           sectionHeaders == {sections[i].header : i \in 1..Len(sections)}
<1>1. /\ header.phoff = EhSize
      /\ header.phnum = Len(phdrs) /\ header.shnum = Len(sections)
  BY DEF IInv, LayoutInv, TablesInv, HeaderFilled, ShdrsWritten
<1>2. CASE Len(out) = EhSize
  BY <1>2 DEF StructureEnds
<1>3. CASE SegmentEnds(Len(out))
  <2>1. PICK i \in 1..SegmentsDone :
            phdrs[i].filesz > 0 /\ Len(out) = phdrs[i].offset + phdrs[i].filesz
    BY <1>3 DEF SegmentEnds
  <2>2. i \in 1..Len(phdrs)
    BY Progress
  <2>3. phdrs[i] \in {g \in segmentHeaders : g.filesz > 0}
    BY <2>1, <2>2
  <2> HIDE DEF segmentHeaders, sectionHeaders
  <2>4. Len(out) \in StructureEnds(header, segmentHeaders, sectionHeaders)
    BY <2>1, <2>3 DEF StructureEnds
  <2> QED
    BY <2>4 DEF segmentHeaders, sectionHeaders
<1>4. CASE SectionEnds(Len(out))
  <2>1. PICK i \in 1..SectionsDone :
            /\ ~IsNobits(sections[i]) /\ sections[i].header.size > 0
            /\ Len(out) = sections[i].header.offset + sections[i].header.size
    BY <1>4 DEF SectionEnds
  <2>2. i \in 1..Len(sections)
    BY Progress
  <2>3. sections[i].header \in {g \in sectionHeaders : g.type # "NOBITS" /\ g.size > 0}
    BY <2>1, <2>2 DEF IsNobits
  <2> HIDE DEF segmentHeaders, sectionHeaders
  <2>4. Len(out) \in StructureEnds(header, segmentHeaders, sectionHeaders)
    BY <2>1, <2>3 DEF StructureEnds
  <2> QED
    BY <2>4 DEF segmentHeaders, sectionHeaders
<1>5. CASE TableEnds(Len(out))
  <2>1. CASE Len(out) = TablesEnd
    <3>0. PhEntSize * Len(image.segments) = PhEntSize * Len(phdrs)
      BY Progress
    <3>1. PhEntSize * Len(image.segments) = header.phnum * PhEntSize
      <4>1. PhEntSize * Len(phdrs) = header.phnum * PhEntSize
        BY <1>1, Progress, FormatAssumption
      <4> QED
        BY <3>0, <4>1
    <3>2. Len(out) = header.phoff + header.phnum * PhEntSize
      BY <1>1, <2>1, <3>1 DEF TablesEnd
    <3> QED
      BY <3>2 DEF StructureEnds
  <2>2. CASE Len(out) = header.shoff + ShEntSize * Len(sections)
    <3>1. ShEntSize * Len(sections) = header.shnum * ShEntSize
      BY <1>1, Progress, FormatAssumption
    <3>2. Len(out) = header.shoff + header.shnum * ShEntSize
      BY <2>2, <3>1
    <3> QED
      BY <3>2 DEF StructureEnds
  <2> QED
    BY <1>5, <2>1, <2>2 DEF TableEnds
<1> QED
  BY <1>2, <1>3, <1>4, <1>5 DEF EndInv

(* A call starts with the area of the ELF header.                            *)
LEMMA BeginEnd == Begin => EndInv
<1>1. Begin => Len(out) = EhSize
  <2>1. Begin => out = Zeros(EhSize)
    BY DEF Begin
  <2>2. Len(Zeros(EhSize)) = EhSize
    BY FormatAssumption DEF Zeros
  <2> QED
    BY <2>1, <2>2
<1> QED
  BY <1>1 DEF Begin, EndInv, HeaderFilled, ShdrsWritten

(* With the invariant, a finished file ends with its last structure.         *)
LEMMA EndFound == IInv /\ EndInv => EndsAtLastStructure
<1>1. ASSUME IInv, EndInv, pc = "done"
      PROVE  IsLastStructureEnd(Len(out),
                 StructureEnds(header, {phdrs[i] : i \in 1..Len(phdrs)},
                               {sections[i].header : i \in 1..Len(sections)}))
  <2> DEFINE ends == StructureEnds(header, {phdrs[i] : i \in 1..Len(phdrs)},
                                   {sections[i].header : i \in 1..Len(sections)})
  <2>1. Len(out) \in U64
    BY <1>1, Progress, FormatAssumption, U64MaxAssumption
    DEF IInv, LayoutInv, LimitRespected, U64
  <2>2. Len(out) \in ends
    BY <1>1, SomethingAtTheEnd
  <2>3. \A end \in ends : end <= Len(out)
    BY <1>1, NothingBehindTheEnd
  <2> HIDE DEF ends
  <2>4. IsLastStructureEnd(Len(out), ends)
    BY <2>1, <2>2, <2>3 DEF IsLastStructureEnd
  <2> QED
    BY <2>4 DEF ends
<1> QED
  BY <1>1 DEF EndsAtLastStructure

(* However the segments and sections overlap or leave gaps, a finished file  *)
(* ends where its headers say its last structure ends, so that ElfFile finds *)
(* no trailing bytes in it (elf_file.rs:126-172).                            *)
THEOREM FileEndsWithItsStructures == Spec => []EndsAtLastStructure
<1>1. Init => EndInv
  BY BeginEnd DEF Init
<1> QED
  BY <1>1, EndFound, StepEnd, Invariance, PTL DEF Spec

-----------------------------------------------------------------------------
(* What a call carries over from the image.                                  *)

(* The program headers are the image's but for place and file size, and the  *)
(* sections keep their addresses.                                            *)
CarriedInv ==
    /\ \A i \in 1..Len(image.segments) :
           phdrs[i] = PhdrAt(image.segments[i].header, phdrs[i].offset, phdrs[i].filesz)
    /\ \A i \in 1..Len(image.sections) :
           sections[i].header.addr = image.sections[i].header.addr

(* Moving a program header twice is moving it once.                          *)
LEMMA MovedTwice ==
    ASSUME NEW was \in Phdr, NEW is \in Phdr, NEW offset, NEW filesz,
           is = PhdrAt(was, is.offset, is.filesz)
    PROVE  LET moved == PhdrAt(is, offset, filesz)
           IN  moved = PhdrAt(was, moved.offset, moved.filesz)
BY DEF PhdrAt, Phdr

(* A call starts with the image's headers.                                   *)
LEMMA BeginCarried == image \in ElfImage /\ Begin => CarriedInv
<1> SUFFICES ASSUME image \in ElfImage, Begin PROVE CarriedInv
  OBVIOUS
<1>1. image.segments \in Seq(Segment)
  BY DEF ElfImage
<1>2. ASSUME NEW i \in 1..Len(image.segments)
      PROVE  phdrs[i] = PhdrAt(image.segments[i].header, phdrs[i].offset, phdrs[i].filesz)
  <2>1. image.segments[i] \in Segment
    BY <1>1
  <2>2. image.segments[i].header \in Phdr
    BY <2>1, SegmentFacts
  <2>3. phdrs[i] = image.segments[i].header
    BY DEF Begin, ImageHeaders
  <2> QED
    BY <2>2, <2>3 DEF PhdrAt, Phdr
<1> QED
  BY <1>2 DEF CarriedInv, Begin

(* A step that moves one program header carries the rest over.               *)
LEMMA PhdrMoved ==
    ASSUME IInv, CarriedInv, NEW offset \in U64, NEW filesz \in U64, NEW at \in 1..Len(phdrs),
           phdrs' = [phdrs EXCEPT ![at] = PhdrAt(phdrs[at], offset, filesz)],
           image' = image, sections' = sections
    PROVE  CarriedInv'
<1>1. phdrs \in Seq(Phdr) /\ Len(phdrs) = Len(image.segments)
      /\ image.segments \in Seq(Segment)
  BY ImageFacts DEF IInv, TypeOK
<1>2. ASSUME NEW i \in 1..Len(image.segments)
      PROVE  phdrs'[i] = PhdrAt(image.segments[i].header, phdrs'[i].offset, phdrs'[i].filesz)
  <2>1. phdrs[i] \in Phdr /\ i \in 1..Len(phdrs)
    BY <1>1
  <2>2. phdrs[i] = PhdrAt(image.segments[i].header, phdrs[i].offset, phdrs[i].filesz)
    BY DEF CarriedInv
  <2>3. CASE i = at
    <3>1. phdrs'[i] = PhdrAt(phdrs[i], offset, filesz)
      BY <1>1, <2>1, <2>3
    <3>2. image.segments[i] \in Segment
      BY <1>1
    <3>3. image.segments[i].header \in Phdr
      BY <3>2, SegmentFacts
    <3> QED
      BY <2>1, <2>2, <3>1, <3>3, MovedTwice
  <2>4. CASE i # at
    BY <1>1, <2>1, <2>2, <2>4
  <2> QED
    BY <2>3, <2>4
<1> QED
  BY <1>2 DEF CarriedInv

(* A step that keeps the addresses of the sections carries them over.        *)
LEMMA SectionsCarried ==
    ASSUME CarriedInv, image' = image, phdrs' = phdrs,
           \A i \in 1..Len(image.sections) :
               sections'[i].header.addr = sections[i].header.addr
    PROVE  CarriedInv'
BY DEF CarriedInv

(* Every step of a call carries the headers over.                            *)
LEMMA StepCarried == IInv /\ CarriedInv /\ [Next]_vars => CarriedInv'
<1> SUFFICES ASSUME IInv, CarriedInv, [Next]_vars PROVE CarriedInv'
  OBVIOUS
<1>1. /\ sections \in Seq(Section) /\ Len(sections) \in Nat
      /\ Len(image.sections) \in Nat /\ Len(image.sections) <= Len(sections)
      /\ Len(phdrs) = Len(image.segments) /\ Len(phdrs) \in Nat
  BY ImageFacts, Progress DEF IInv, TypeOK, LayoutInv, SectionsInv, SectionsKept
<1>2. ASSUME NEW i \in 1..Len(image.sections)
      PROVE  sections[i] \in Section /\ i \in 1..Len(sections)
  BY <1>1
<1>3. ASSUME Fail \/ UNCHANGED vars \/ SectionsPlaced \/ WriteProgramHeaders \/ FillHeader
             \/ WriteSectionHeaders \/ WriteHeader \/ CollectName
      PROVE  CarriedInv'
  <2>1. image' = image /\ phdrs' = phdrs /\ sections' = sections
    BY <1>3 DEF Fail, vars, SectionsPlaced, WriteProgramHeaders, FillHeader,
                WriteSectionHeaders, WriteHeader, CollectName
  <2> QED
    BY <2>1, SectionsCarried
<1>4. ASSUME SkipSegment PROVE CarriedInv'
  <2>1. /\ index \in 1..Len(phdrs) /\ image' = image /\ sections' = sections
        /\ phdrs' = [phdrs EXCEPT ![index] = PhdrAt(phdrs[index], 0, 0)]
    BY <1>1, <1>4 DEF SkipSegment, IInv, TypeOK
  <2> QED
    BY <2>1, PhdrMoved, U64Nat
<1>5. ASSUME PlaceSegment, ~Fail PROVE CarriedInv'
  <2> DEFINE segment == image.segments[index]
             offset  == SegmentOffset(cursor, segment)
             bytes   == SegmentBytes(segment)
  <2>1. /\ offset \in U64 /\ index \in 1..Len(phdrs) /\ bytes \in Seq(Byte)
        /\ Fits(offset, bytes)
        /\ phdrs' = [phdrs EXCEPT ![index] = PhdrAt(phdrs[index], offset, Len(bytes))]
    BY <1>5, SegmentWritten
  <2>2. image' = image /\ sections' = sections
    BY <1>5 DEF PlaceSegment
  <2> HIDE DEF offset, bytes
  <2>3. Len(bytes) \in U64
    BY <2>1, U64Nat, FormatAssumption, U64MaxAssumption DEF Fits, U64
  <2> QED
    BY <2>1, <2>2, <2>3, PhdrMoved
<1>6. ASSUME EnsureShstrtab PROVE CarriedInv'
  <2>1. image' = image /\ phdrs' = phdrs
        /\ (sections' = sections \/ sections' = Append(sections, NewShstrtab))
    BY <1>6 DEF EnsureShstrtab, ShstrtabAt, layout
  <2>2. \A i \in 1..Len(image.sections) : sections'[i] = sections[i]
    BY <1>1, <1>2, <2>1, NewShstrtabType
  <2> QED
    BY <2>1, <2>2, SectionsCarried
<1>7. ASSUME AssignNames PROVE CarriedInv'
  <2>1. image' = image /\ phdrs' = phdrs
        /\ sections' = [i \in 1..Len(sections) |-> Named(sections[i], offsets[i])]
    BY <1>7 DEF AssignNames
  <2>2. ASSUME NEW i \in 1..Len(image.sections)
        PROVE  sections'[i].header.addr = sections[i].header.addr
    <3>1. sections'[i] = Named(sections[i], offsets[i])
      BY <1>2, <2>1
    <3> QED
      BY <1>2, <3>1 DEF Named, Section, Shdr
  <2> QED
    BY <2>1, <2>2, SectionsCarried
<1>8. ASSUME SkipSection \/ PlaceSection, ~Fail PROVE CarriedInv'
  <2>1. image' = image /\ phdrs' = phdrs
        /\ \/ sections' = sections
           \/ \E offset : sections' = [sections EXCEPT ![index] =
                                          SectionAt(sections[index], offset)]
    BY <1>8 DEF SkipSection, PlaceSection
  <2>2. ASSUME NEW i \in 1..Len(image.sections)
        PROVE  sections'[i].header.addr = sections[i].header.addr
    <3>1. \/ sections'[i] = sections[i]
          \/ \E offset : sections'[i] = SectionAt(sections[i], offset)
      BY <1>1, <1>2, <2>1
    <3> QED
      BY <1>2, <3>1 DEF SectionAt, Section, Shdr
  <2> QED
    BY <2>1, <2>2, SectionsCarried
<1> QED
  BY <1>3, <1>4, <1>5, <1>6, <1>7, <1>8 DEF Next, Returned

-----------------------------------------------------------------------------
(* Reading what a file holds, whatever bytes follow it.                      *)

(* What a file holds, it holds with bytes appended.                          *)
LEMMA HoldsBefore ==
    ASSUME NEW f \in Seq(Byte), NEW t \in Seq(Byte), NEW at \in Nat,
           NEW bytes \in Seq(Byte), HoldsAt(f, at, bytes)
    PROVE  HoldsAt(f \o t, at, bytes)
<1>1. /\ Len(f \o t) = Len(f) + Len(t) /\ Len(bytes) \in Nat
      /\ at + Len(bytes) <= Len(f)
  BY DEF HoldsAt
<1>2. ASSUME NEW k \in 1..Len(bytes) PROVE (f \o t)[at + k] = bytes[k]
  <2>1. at + k \in 1..Len(f) /\ f[at + k] = bytes[k]
    BY <1>1 DEF HoldsAt
  <2> QED
    BY <2>1
<1> QED
  BY <1>1, <1>2 DEF HoldsAt

(* Bytes that are held are read.                                             *)
LEMMA ReadsHeld ==
    ASSUME NEW f \in Seq(Byte), NEW at \in Nat, NEW bytes \in Seq(Byte), HoldsAt(f, at, bytes)
    PROVE  BytesAt(f, at, Len(bytes)) = bytes
<1> DEFINE n == Len(bytes)
<1>1. /\ n \in Nat /\ at + n <= Len(f)
      /\ \A k \in 1..n : f[at + k] = bytes[k]
  BY DEF HoldsAt
<1>2. /\ Len(SubSeq(f, at + 1, at + n)) = n
      /\ SubSeq(f, at + 1, at + n) \in Seq(Byte)
      /\ \A k \in 1..n : SubSeq(f, at + 1, at + n)[k] = f[at + k]
  <2> HIDE DEF n
  <2> QED
    BY <1>1
<1> DEFINE r == SubSeq(f, at + 1, at + n)
<1>3. r \in Seq(Byte) /\ Len(r) = Len(bytes) /\ \A k \in 1..Len(bytes) : r[k] = bytes[k]
  BY <1>1, <1>2
<1>4. r = bytes
  <2> HIDE DEF r
  <2> QED
    BY <1>3
<1> QED
  BY <1>4 DEF BytesAt

(* The string at an offset of a table is one only: it ends at the first zero.*)
LEMMA OneString ==
    ASSUME NEW table \in Seq(RawByte), NEW at \in Nat,
           NEW s \in Seq(RawByte \ {Zero}), NEW t \in Seq(RawByte \ {Zero}),
           StringAt(table, at, s), StringAt(table, at, t)
    PROVE  s = t
<1>1. ASSUME NEW a \in Seq(RawByte \ {Zero}), NEW b \in Seq(RawByte \ {Zero}),
             StringAt(table, at, a), StringAt(table, at, b)
      PROVE  Len(b) <= Len(a)
  <2>1. /\ Len(a) \in Nat /\ Len(b) \in Nat /\ Len(table) \in Nat
        /\ at + Len(b) <= Len(table)
        /\ at + Len(a) = Len(table) \/ table[at + Len(a) + 1] = Zero
    BY <1>1 DEF StringAt, HoldsAt
  <2>2. SUFFICES ASSUME Len(a) < Len(b) PROVE FALSE
    BY <2>1
  <2>3. Len(a) + 1 \in 1..Len(b)
    BY <2>1, <2>2
  <2>4. table[at + (Len(a) + 1)] = b[Len(a) + 1]
    BY <1>1, <2>3 DEF StringAt, HoldsAt
  <2>5. b[Len(a) + 1] # Zero
    BY <2>3
  <2>6. at + (Len(a) + 1) = at + Len(a) + 1
    BY <2>1
  <2> QED
    BY <2>1, <2>2, <2>4, <2>5, <2>6
<1>2. Len(s) = Len(t) /\ Len(s) \in Nat
  BY <1>1
<1>3. \A k \in 1..Len(s) : s[k] = t[k]
  BY <1>2 DEF StringAt, HoldsAt
<1> QED
  BY <1>2, <1>3

(* So the name a reader finds there is that of the section.                  *)
LEMMA NameFound ==
    ASSUME NEW table \in Seq(RawByte), NEW at \in Nat, NEW n \in Names,
           StringAt(table, at, NameBytes[n])
    PROVE  NameAt(table, at) = n
<1>1. \A m \in Names : NameBytes[m] \in Seq(RawByte \ {Zero})
  BY FormatAssumption
<1>2. ASSUME NEW m \in Names, StringAt(table, at, NameBytes[m]) PROVE m = n
  <2>1. NameBytes[m] = NameBytes[n]
    BY <1>1, <1>2, OneString
  <2> QED
    BY <2>1, NamesAssumption
<1> QED
  BY <1>2 DEF NameAt

-----------------------------------------------------------------------------
(* The saved file, read.                                                     *)

(* The segments and sections that reading finds in a saved file.             *)
SavedSegments ==
    [i \in 1..Len(phdrs) |->
        [header |-> phdrs[i],
         data   |-> IF phdrs[i].type = "NULL" THEN <<>> ELSE SegmentBytes(image.segments[i])]]
SavedSections ==
    [i \in 1..Len(sections) |->
        [name   |-> sections[i].name,
         header |-> sections[i].header,
         data   |-> IF IsNobits(sections[i]) THEN <<>> ELSE sections[i].data]]

Finished == IInv /\ NamesInv /\ pc = "done" /\ trailing \in Seq(Byte)

(* What a finished call knows of its file, in numbers.                       *)
LEMMA FinishedFacts ==
    ASSUME Finished
    PROVE  /\ out \in Seq(Byte) /\ trailing \in Seq(Byte) /\ Saved \in Seq(Byte)
           /\ Len(out) \in Nat /\ Len(out) <= MaxImage
           /\ phdrs \in Seq(Phdr) /\ Len(phdrs) \in Nat /\ Len(phdrs) = Len(image.segments)
           /\ sections \in Seq(Section) /\ Len(sections) \in Nat
           /\ header \in ElfHeader /\ header.phoff = EhSize
           /\ header.phnum = Len(phdrs) /\ header.shnum = Len(sections)
           /\ ShdrsWritten /\ HeaderFilled /\ PhdrsWritten /\ SectionsBegun
<1>1. /\ out \in Seq(Byte) /\ trailing \in Seq(Byte) /\ phdrs \in Seq(Phdr)
      /\ sections \in Seq(Section) /\ header \in ElfHeader
      /\ Len(phdrs) = Len(image.segments)
  BY DEF Finished, IInv, TypeOK
<1>2. Saved \in Seq(Byte) /\ Len(out) \in Nat /\ Len(phdrs) \in Nat /\ Len(sections) \in Nat
  BY <1>1 DEF Saved
<1>3. ShdrsWritten /\ HeaderFilled /\ PhdrsWritten /\ SectionsBegun
  BY DEF Finished, ShdrsWritten, HeaderFilled, PhdrsWritten, SectionsBegun
<1> QED
  BY <1>1, <1>2, <1>3 DEF Finished, IInv, LayoutInv, TablesInv, LimitRespected

(* A range of the serialized image can be read from the saved file.          *)
LEMMA SavedRange ==
    ASSUME Finished, NEW at \in Nat, NEW bytes \in Seq(Byte), HoldsAt(out, at, bytes)
    PROVE  /\ HoldsAt(Saved, at, bytes)
           /\ Readable(Saved, at, Len(bytes)) /\ BytesAt(Saved, at, Len(bytes)) = bytes
           /\ Len(bytes) <= MaxImage
<1>1. HoldsAt(Saved, at, bytes) /\ Saved \in Seq(Byte)
  BY FinishedFacts, HoldsBefore DEF Saved
<1>2. BytesAt(Saved, at, Len(bytes)) = bytes
  BY <1>1, ReadsHeld
<1>3. Len(bytes) \in Nat /\ Len(bytes) <= MaxImage
  BY FinishedFacts, FormatAssumption DEF HoldsAt
<1>4. at + Len(bytes) <= Len(Saved)
  BY <1>1 DEF HoldsAt
<1> QED
  BY <1>1, <1>2, <1>3, <1>4 DEF Readable

(* A table of the serialized image can be decoded from the saved file.       *)
LEMMA SavedTable ==
    ASSUME Finished, NEW at \in Nat, NEW size \in Nat \ {0},
           NEW records, records \in Seq(Phdr) \/ records \in Seq(Shdr),
           HoldsAt(out, at, EncodedTable(records, size))
    PROVE  /\ DecodesTable(Saved, at, Len(records), size)
           /\ TableAt(Saved, at, Len(records), size) = records
<1> DEFINE table == EncodedTable(records, size)
<1>1. table \in Seq(Byte) /\ Len(table) = size * Len(records)
  BY EncodedTableBytes
<1>2. HoldsAt(Saved, at, table) /\ Len(table) <= MaxImage
  <2> HIDE DEF table
  <2> QED
    BY <1>1, SavedRange DEF table
<1>3. records # <<>> => size <= MaxImage
  <2>1. SUFFICES ASSUME records # <<>> PROVE size <= MaxImage
    OBVIOUS
  <2>2. PICK d \in Nat : Len(records) = d + 1
    <3>1. Len(records) \in Nat \ {0}
      BY <2>1
    <3>2. Len(records) - 1 \in Nat /\ Len(records) = (Len(records) - 1) + 1
      BY <3>1
    <3> QED
      BY <3>2
  <2>3. size * (d + 1) = size + size * d /\ size * d \in Nat
    BY <2>2, SMTT(30)
  <2>4. Len(table) = size + size * d
    BY <1>1, <2>2, <2>3
  <2> DEFINE more == size * d
  <2>5. more \in Nat /\ size + more <= MaxImage
    BY <1>2, <2>3, <2>4
  <2> HIDE DEF more
  <2> QED
    BY <2>5, FormatAssumption
<1>4. Saved \in Seq(Byte)
  BY FinishedFacts
<1> QED
  BY <1>2, <1>3, <1>4, TableHeld

(* The three headers are read back.                                          *)
LEMMA SavedHeaders ==
    ASSUME Finished
    PROVE  /\ Decodes(Saved, 0, EhSize) /\ Ehdr(Saved) = header
           /\ DecodesTable(Saved, header.phoff, header.phnum, PhEntSize)
           /\ ProgramHeaders(Saved) = phdrs
           /\ HasSections(Saved) <=> sections # <<>>
           /\ sections # <<>> => DecodesTable(Saved, header.shoff, header.shnum, ShEntSize)
           /\ RawSectionHeaders(Saved) = SectionHeaders
<1>1. /\ HoldsAt(out, 0, Encoded(header, EhSize))
      /\ HoldsAt(out, EhSize, EncodedTable(phdrs, PhEntSize))
      /\ sections # <<>> =>
             /\ TablesEnd <= header.shoff
             /\ HoldsAt(out, header.shoff, EncodedTable(SectionHeaders, ShEntSize))
  BY FinishedFacts DEF Finished, IInv, LayoutInv, TablesInv
<1>2. Decodes(Saved, 0, EhSize) /\ DecodedAt(Saved, 0) = header
  <2>1. header \in ElfHeader \cup Phdr \cup Shdr /\ Saved \in Seq(Byte)
    BY FinishedFacts
  <2> DEFINE bytes == Encoded(header, EhSize)
  <2>2. bytes \in Seq(Byte)
    BY <2>1, EncodedBytes, FormatAssumption
  <2>3. PICK at \in {0} : at = 0
    OBVIOUS
  <2>4. at \in Nat /\ HoldsAt(out, at, bytes)
    BY <1>1, <2>3
  <2> HIDE DEF bytes
  <2>5. HoldsAt(Saved, at, bytes)
    BY <2>2, <2>4, SavedRange
  <2>6. Decodes(Saved, at, EhSize) /\ DecodedAt(Saved, at) = header
    BY <2>1, <2>4, <2>5, DecodesHeld, FormatAssumption DEF bytes
  <2> QED
    BY <2>3, <2>6
<1>3. Ehdr(Saved) = header
  BY <1>2 DEF Ehdr
<1>4. /\ DecodesTable(Saved, header.phoff, header.phnum, PhEntSize)
      /\ ProgramHeaders(Saved) = phdrs
  BY <1>1, <1>3, FinishedFacts, SavedTable, FormatAssumption DEF ProgramHeaders
<1>5. SectionHeaders \in Seq(Shdr) /\ Len(SectionHeaders) = Len(sections)
  BY SectionHeadersType DEF Finished, IInv
<1>6. CASE sections = <<>>
  <2>1. header.shnum = 0
    BY <1>6, FinishedFacts
  <2>2. ~HasSections(Saved)
    BY <1>3, <2>1 DEF HasSections
  <2>3. SectionHeaders = <<>>
    BY <1>5, <1>6
  <2> QED
    BY <1>2, <1>3, <1>4, <1>6, <2>2, <2>3 DEF RawSectionHeaders
<1>7. CASE sections # <<>>
  <2>1. header.shnum # 0 /\ header.shoff # 0 /\ header.shoff \in Nat
    <3>1. Len(sections) # 0
      BY <1>7, FinishedFacts
    <3>2. header.shoff \in Nat
      BY FinishedFacts, U64Nat DEF ElfHeader
    <3>3. TablesEnd \in Nat /\ EhSize <= TablesEnd
      BY ImageFacts DEF Finished, IInv
    <3> QED
      BY <1>1, <1>7, <3>1, <3>2, <3>3, FinishedFacts, FormatAssumption
  <2>2. HasSections(Saved)
    BY <1>3, <2>1 DEF HasSections
  <2>3. /\ DecodesTable(Saved, header.shoff, Len(SectionHeaders), ShEntSize)
        /\ TableAt(Saved, header.shoff, Len(SectionHeaders), ShEntSize) = SectionHeaders
    BY <1>1, <1>5, <1>7, <2>1, SavedTable, FormatAssumption
  <2>4. Len(SectionHeaders) = header.shnum
    BY <1>5, FinishedFacts
  <2> QED
    BY <1>2, <1>3, <1>4, <1>7, <2>2, <2>3, <2>4 DEF RawSectionHeaders
<1> QED
  BY <1>6, <1>7

(* A segment is read back with the bytes that were written of it.            *)
LEMMA SavedSegment ==
    ASSUME Finished, NEW i \in 1..Len(phdrs)
    PROVE  /\ SegmentEmpty(phdrs[i]) \/ Readable(Saved, phdrs[i].offset, phdrs[i].filesz)
           /\ ReadSegment(Saved, phdrs[i]) = SavedSegments[i]
           /\ SavedSegments[i] \in Segment
<1> DEFINE bytes == SegmentBytes(image.segments[i])
           h     == phdrs[i]
<1>1. /\ i \in 1..Len(image.segments) /\ SegmentPlaced(i)
  BY FinishedFacts DEF Finished, IInv, LayoutInv, SegmentsInv, SegmentsDone
<1>2. bytes \in Seq(Byte) /\ h \in Phdr
  <2>1. image.segments[i] \in Segment
    BY <1>1, ImageFacts DEF Finished, IInv
  <2> QED
    BY <2>1, SegmentBytesFacts, FinishedFacts
<1> HIDE DEF bytes, h
<1>3. h.filesz = Len(bytes) /\ (bytes # <<>> => HoldsAt(out, h.offset, bytes))
  BY <1>1 DEF SegmentPlaced, bytes, h
<1>4. h.offset \in Nat /\ (bytes = <<>> <=> h.filesz = 0)
  <2>1. h.offset \in U64
    BY <1>2 DEF Phdr
  <2>2. bytes = <<>> <=> Len(bytes) = 0
    BY <1>2
  <2> QED
    BY <1>3, <2>1, <2>2, U64Nat
<1>5. bytes # <<>> => Readable(Saved, h.offset, h.filesz)
                      /\ BytesAt(Saved, h.offset, h.filesz) = bytes
  BY <1>2, <1>3, <1>4, SavedRange
<1>6. SavedSegments[i] = [header |-> h, data |-> IF h.type = "NULL" THEN <<>> ELSE bytes]
  BY DEF SavedSegments, h, bytes
<1>7. SegmentEmpty(h) \/ Readable(Saved, h.offset, h.filesz)
  BY <1>4, <1>5 DEF SegmentEmpty
<1>8. ReadSegment(Saved, h) = SavedSegments[i]
  <2>1. CASE SegmentEmpty(h)
    BY <1>4, <1>6, <2>1 DEF SegmentEmpty, ReadSegment
  <2>2. CASE ~SegmentEmpty(h)
    BY <1>4, <1>5, <1>6, <2>2 DEF SegmentEmpty, ReadSegment
  <2> QED
    BY <2>1, <2>2
<1>9. SavedSegments[i] \in Segment
  BY <1>2, <1>6 DEF Segment
<1> QED
  BY <1>7, <1>8, <1>9 DEF h

(* The name table is read back.                                              *)
LEMMA SavedNames ==
    ASSUME Finished, sections # <<>>
    PROVE  /\ NameTable(Saved, header, SectionHeaders) = blob
           /\ \A i \in 1..Len(sections) :
                  NameAt(blob, sections[i].header.nameIndex) = sections[i].name
<1> DEFINE n == header.shstrndx + 1
<1>1. header.shstrndx = shstrndx /\ Len(sections) <= U16Max /\ 1 \in 1..Len(sections)
  <2>1. header.shnum \in 0..U16Max
    BY FinishedFacts DEF ElfHeader
  <2>2. Len(sections) # 0
    BY FinishedFacts
  <2> QED
    BY <2>1, <2>2, FinishedFacts DEF Finished, NamesInv
<1>2. n \in 1..Len(sections) /\ IsShstrtab(sections[n]) /\ sections[n].data = blob
  BY <1>1, FinishedFacts DEF Finished, NamesInv, TableFound, NamesAssigned
<1>3. /\ \A i \in 1..Len(sections) :
             StringAt(blob, sections[i].header.nameIndex, NameBytes[sections[i].name])
      /\ blob \in Seq(RawByte) /\ blob \in Seq(Byte)
  <2>1. NamesResolve /\ blob \in Seq(RawByte)
    BY NamesResolved DEF Finished, IInv, TypeOK
  <2>2. blob \in Seq(Byte)
    BY <2>1 DEF Byte
  <2> QED
    BY <1>2, <2>1, <2>2 DEF Finished, NamesResolve
<1>4. blob # <<>>
  <2>1. /\ HoldsAt(blob, offsets[1], Terminated(NameBytes[sections[1].name]))
        /\ 1 \in 1..Len(offsets) /\ offsets \in Seq(Nat)
    BY <1>1, FinishedFacts DEF Finished, NamesInv, NamesCollected, NamesAssigned,
                               IInv, TypeOK
  <2>2. offsets[1] \in Nat
    BY <2>1
  <2> DEFINE name == NameBytes[sections[1].name]
  <2>3. name \in Seq(RawByte \ {Zero})
    <3>1. sections[1] \in Section
      BY <1>1, FinishedFacts
    <3> QED
      BY <3>1, FormatAssumption DEF Section
  <2>4. Len(Terminated(name)) \in Nat \ {0}
    <3> HIDE DEF name
    <3> QED
      BY <2>3 DEF Terminated
  <2>5. offsets[1] + Len(Terminated(name)) <= Len(blob)
    BY <2>1 DEF HoldsAt
  <2> HIDE DEF name
  <2> QED
    BY <1>3, <2>2, <2>4, <2>5
<1>5. SectionPlaced(n) /\ ~IsNobits(sections[n]) /\ sections[n] \in Section
  <2>1. SectionPlaced(n)
    BY <1>2, FinishedFacts DEF Finished, IInv, LayoutInv, SectionsInv, SectionsDone
  <2> QED
    BY <1>2, <2>1, FinishedFacts DEF IsShstrtab, IsNobits
<1> DEFINE h == sections[n].header
<1>6. /\ h.size = Len(blob) /\ HoldsAt(out, h.offset, blob) /\ h.type = "STRTAB"
  BY <1>2, <1>4, <1>5 DEF SectionPlaced, IsShstrtab
<1>7. h.offset \in Nat
  BY <1>5, U64Nat DEF Section, Shdr
<1>8. SectionHeaders[n] = h /\ Len(SectionHeaders) = Len(sections)
  BY <1>2, SectionHeadersType DEF Finished, IInv, SectionHeaders
<1> HIDE DEF h
<1>9. Readable(Saved, h.offset, h.size) /\ BytesAt(Saved, h.offset, h.size) = blob
  BY <1>3, <1>6, <1>7, SavedRange
<1>10. NameTable(Saved, header, SectionHeaders) = blob
  <2>1. n <= Len(SectionHeaders)
    BY <1>2, <1>8
  <2> HIDE DEF n
  <2>2. (IF /\ n <= Len(SectionHeaders) /\ SectionHeaders[n].type = "STRTAB"
            /\ Readable(Saved, SectionHeaders[n].offset, SectionHeaders[n].size)
         THEN BytesAt(Saved, SectionHeaders[n].offset, SectionHeaders[n].size)
         ELSE <<>>) = blob
    BY <1>6, <1>8, <1>9, <2>1
  <2> QED
    BY <2>2 DEF NameTable, n
<1>11. ASSUME NEW i \in 1..Len(sections)
       PROVE  NameAt(blob, sections[i].header.nameIndex) = sections[i].name
  <2>1. sections[i] \in Section
    BY FinishedFacts
  <2>2. sections[i].header.nameIndex \in Nat /\ sections[i].name \in Names
    BY <2>1 DEF Section, Shdr
  <2> QED
    BY <1>3, <2>2, NameFound
<1> QED
  BY <1>10, <1>11

(* A section is read back under its name, with its bytes.                    *)
LEMMA SavedSection ==
    ASSUME Finished, NEW i \in 1..Len(sections)
    PROVE  LET h == SectionHeaders[i]
           IN  /\ SectionEmpty(h) \/ Readable(Saved, h.offset, h.size)
               /\ ReadSection(Saved, h, NameTable(Saved, header, SectionHeaders))
                      = SavedSections[i]
               /\ SavedSections[i] \in Section
<1> DEFINE section == sections[i]
           h       == SectionHeaders[i]
           bytes   == section.data
<1>1. section \in Section /\ h = section.header /\ sections # <<>>
  BY FinishedFacts DEF SectionHeaders
<1>2. /\ h \in Shdr /\ bytes \in Seq(Byte) /\ h.offset \in Nat /\ section.name \in Names
      /\ Len(bytes) \in Nat
  BY <1>1, U64Nat, SectionFacts DEF Section, Shdr
<1>3. h.type # "NOBITS" =>
          h.size = Len(bytes) /\ (bytes # <<>> => HoldsAt(out, h.offset, bytes))
  <2>1. SectionPlaced(i)
    BY FinishedFacts DEF Finished, IInv, LayoutInv, SectionsInv, SectionsDone
  <2> QED
    BY <1>1, <2>1 DEF SectionPlaced, IsNobits
<1>4. NameAt(NameTable(Saved, header, SectionHeaders), h.nameIndex) = section.name
  BY <1>1, SavedNames
<1>5. SavedSections[i] = [name |-> section.name, header |-> h,
                          data |-> IF h.type = "NOBITS" THEN <<>> ELSE bytes]
  BY <1>1 DEF SavedSections, IsNobits
<1> HIDE DEF section, h, bytes
<1>6. h.type # "NOBITS" /\ bytes # <<>> =>
          Readable(Saved, h.offset, h.size) /\ BytesAt(Saved, h.offset, h.size) = bytes
  BY <1>2, <1>3, SavedRange
<1>7. h.type # "NOBITS" => (bytes = <<>> <=> h.size = 0)
  BY <1>2, <1>3
<1>8. SectionEmpty(h) \/ Readable(Saved, h.offset, h.size)
  BY <1>6, <1>7 DEF SectionEmpty
<1>9. ReadSection(Saved, h, NameTable(Saved, header, SectionHeaders)) = SavedSections[i]
  <2>1. CASE SectionEmpty(h)
    BY <1>4, <1>5, <1>7, <2>1 DEF SectionEmpty, ReadSection
  <2>2. CASE ~SectionEmpty(h)
    BY <1>4, <1>5, <1>6, <1>7, <2>2 DEF SectionEmpty, ReadSection
  <2> QED
    BY <2>1, <2>2
<1>10. SavedSections[i] \in Section
  BY <1>2, <1>5 DEF Section
<1> QED
  BY <1>8, <1>9, <1>10 DEF h

(* The image read from a saved file.                                         *)
LEMMA SavedImage ==
    ASSUME Finished
    PROVE  /\ Parses(Saved)
           /\ Parsed(Saved) = [header   |-> header,
                               segments |-> SavedSegments, sections |-> SavedSections]
           /\ SavedSegments \in Seq(Segment) /\ Len(SavedSegments) = Len(phdrs)
           /\ SavedSections \in Seq(Section) /\ Len(SavedSections) = Len(sections)
           /\ Parsed(Saved) \in ElfImage
<1>1. /\ Ehdr(Saved) = header /\ ProgramHeaders(Saved) = phdrs
      /\ RawSectionHeaders(Saved) = SectionHeaders
      /\ Len(SectionHeaders) = Len(sections)
  BY SavedHeaders, SectionHeadersType DEF Finished, IInv
<1>2. [i \in 1..Len(phdrs) |-> ReadSegment(Saved, phdrs[i])] = SavedSegments
  <2>1. \A i \in 1..Len(phdrs) : ReadSegment(Saved, phdrs[i]) = SavedSegments[i]
    BY SavedSegment
  <2> QED
    BY <2>1 DEF SavedSegments
<1> DEFINE read(i) == ReadSection(Saved, SectionHeaders[i],
                                  NameTable(Saved, header, SectionHeaders))
<1>3. [i \in 1..Len(sections) |-> read(i)] = SavedSections
  <2>1. \A i \in 1..Len(sections) : read(i) = SavedSections[i]
    BY SavedSection
  <2> HIDE DEF read
  <2> QED
    BY <2>1 DEF SavedSections
<1>4. Parsed(Saved) = [header   |-> header,
                       segments |-> SavedSegments, sections |-> SavedSections]
  BY <1>1, <1>2, <1>3 DEF Parsed
<1>0. \A n \in Nat : \A s \in [1..n -> Segment] : s \in Seq(Segment) /\ Len(s) = n
  OBVIOUS
<1>5. SavedSegments \in Seq(Segment) /\ Len(SavedSegments) = Len(phdrs)
  <2>1. SavedSegments \in [1..Len(phdrs) -> Segment]
    <3>1. \A i \in 1..Len(phdrs) : SavedSegments[i] \in Segment
      BY SavedSegment
    <3> QED
      BY <3>1 DEF SavedSegments
  <2> QED
    BY <1>0, <2>1, FinishedFacts, Zenon
<1>6. SavedSections \in Seq(Section) /\ Len(SavedSections) = Len(sections)
  <2>1. SavedSections \in [1..Len(sections) -> Section]
    <3>1. \A i \in 1..Len(sections) : SavedSections[i] \in Section
      BY SavedSection
    <3> QED
      BY <3>1 DEF SavedSections
  <2> QED
    BY <2>1, FinishedFacts
<1>7. Parsed(Saved) \in ElfImage
  BY <1>4, <1>5, <1>6, FinishedFacts DEF ElfImage
<1>8. SegmentsReadable(Saved)
  <2>1. \A i \in 1..Len(phdrs) :
            SegmentEmpty(phdrs[i]) \/ Readable(Saved, phdrs[i].offset, phdrs[i].filesz)
    BY SavedSegment
  <2>2. header.phnum = Len(phdrs)
    BY FinishedFacts
  <2> QED
    BY <1>1, <2>1, <2>2, SavedHeaders DEF SegmentsReadable
<1>9. SectionsReadable(Saved)
  <2>1. \A i \in 1..Len(sections) :
            SectionEmpty(SectionHeaders[i])
            \/ Readable(Saved, SectionHeaders[i].offset, SectionHeaders[i].size)
    BY SavedSection
  <2>2. header.shnum = Len(sections)
    BY FinishedFacts
  <2> QED
    BY <1>1, <2>1, <2>2, SavedHeaders DEF SectionsReadable
<1>10. Parses(Saved)
  BY <1>8, <1>9, SavedHeaders DEF Parses
<1> QED
  BY <1>4, <1>5, <1>6, <1>7, <1>10

-----------------------------------------------------------------------------
(* The session.                                                              *)

(* A call has kept what it was given, and what is appended is bytes.         *)
SessionInv == IInv /\ NamesInv /\ EndInv /\ CarriedInv /\ trailing \in Seq(Byte)

(* What is read is what was saved.                                           *)
LEMMA ReadsWhatWasSaved == SessionInv => ReadsBack
<1> SUFFICES ASSUME SessionInv, pc = "done" PROVE ReadsBack
  BY DEF ReadsBack
<1> DEFINE im == Parsed(Saved)
<1>1. Finished
  BY DEF Finished, SessionInv
<1>2. /\ Parses(Saved) /\ im.segments = SavedSegments /\ im.sections = SavedSections
      /\ Len(SavedSegments) = Len(phdrs)
  BY <1>1, SavedImage
<1>3. /\ Len(phdrs) = Len(image.segments) /\ Len(phdrs) \in Nat
      /\ Len(sections) \in Nat /\ SectionsBegun
  BY <1>1, FinishedFacts
<1>4. SegmentsInv /\ SectionsKept /\ CarriedInv
  BY DEF SessionInv, IInv, LayoutInv, SectionsInv
<1>5. ASSUME NEW i \in 1..Len(image.segments)
      PROVE  LET was == image.segments[i]
                 is  == SavedSegments[i]
             IN  /\ is.data = IF was.header.type = "NULL" THEN <<>> ELSE SegmentBytes(was)
                 /\ is.header = PhdrAt(was.header, is.header.offset, is.header.filesz)
  <2>1. SavedSegments[i] =
            [header |-> phdrs[i],
             data   |-> IF phdrs[i].type = "NULL" THEN <<>>
                        ELSE SegmentBytes(image.segments[i])]
    BY <1>3 DEF SavedSegments
  <2>2. phdrs[i].type = image.segments[i].header.type
    BY <1>4 DEF SegmentsInv
  <2>3. phdrs[i] = PhdrAt(image.segments[i].header, phdrs[i].offset, phdrs[i].filesz)
    BY <1>4 DEF CarriedInv
  <2> QED
    BY <2>1, <2>2, <2>3
<1>6. ASSUME NEW i \in 1..Len(image.sections)
      PROVE  LET was == image.sections[i]
                 is  == SavedSections[i]
             IN  /\ is.name = was.name /\ is.header.type = was.header.type
                 /\ is.header.addr = was.header.addr
                 /\ ~IsNobits(was) /\ ~IsShstrtab(was) => is.data = was.data
  <2>1. i \in 1..Len(sections)
    <3>1. Len(image.sections) <= Len(sections) /\ Len(image.sections) \in Nat
      BY <1>4, ImageFacts DEF SectionsKept, SessionInv, IInv
    <3> QED
      BY <1>3, <3>1
  <2>2. SavedSections[i] =
            [name |-> sections[i].name, header |-> sections[i].header,
             data |-> IF IsNobits(sections[i]) THEN <<>> ELSE sections[i].data]
    BY <2>1 DEF SavedSections
  <2> QED
    BY <1>4, <2>2 DEF SectionsKept, CarriedInv, IsNobits
<1> QED
  BY <1>2, <1>3, <1>5, <1>6 DEF ReadsBack

(* The last structure of an image is somewhere.                              *)
LEMMA StructureEndFound ==
    ASSUME NEW im
    PROVE  StructureEnd(im) \in Nat
<1> DEFINE ends == StructureEnds(im.header,
                       {im.segments[i].header : i \in 1..Len(im.segments)},
                       {im.sections[i].header : i \in 1..Len(im.sections)})
<1>1. EhSize \in ends \cap U64
  BY FormatAssumption, U64MaxAssumption DEF StructureEnds, U64
<1> DEFINE some == ends \cap U64
<1>2. some \in SUBSET U64 /\ some # {}
  BY <1>1
<1>3. Greatest(some) \in some /\ \A y \in some : y <= Greatest(some)
  <2> HIDE DEF some
  <2> QED
    BY <1>2, GreatestOfSet
<1>4. \E end \in ends : IsLastStructureEnd(end, ends)
  <2> HIDE DEF ends
  <2> QED
    BY <1>3 DEF IsLastStructureEnd
<1>5. \A end : IsLastStructureEnd(end, ends) => end \in U64
  BY DEF IsLastStructureEnd
<1> HIDE DEF ends
<1>6. (CHOOSE end \in ends : IsLastStructureEnd(end, ends)) \in U64
  BY <1>4, <1>5
<1> QED
  BY <1>6, U64Nat DEF StructureEnd, ends

(* So what follows it are bytes.                                             *)
LEMMA TrailingIsBytes ==
    ASSUME NEW bytes \in Seq(Byte)
    PROVE  TrailingOf(bytes) \in Seq(Byte)
<1> DEFINE end == StructureEnd(Parsed(bytes))
<1>1. end \in Nat
  BY StructureEndFound
<1> HIDE DEF end
<1>2. SubSeq(bytes, end + 1, Len(bytes)) \in Seq(Byte)
  BY <1>1
<1> QED
  BY <1>2 DEF TrailingOf, end

(* What is found behind the last structure is what was appended.             *)
LEMMA TrailingIsFound == SessionInv => TrailingKept
<1> SUFFICES ASSUME SessionInv, pc = "done" PROVE TrailingOf(Saved) = trailing
  BY DEF TrailingKept
<1> DEFINE im   == Parsed(Saved)
           ends == StructureEnds(header, {phdrs[i] : i \in 1..Len(phdrs)},
                                 {sections[i].header : i \in 1..Len(sections)})
<1>1. Finished
  BY DEF Finished, SessionInv
<1>2. /\ im.header = header /\ im.segments = SavedSegments /\ im.sections = SavedSections
      /\ Len(SavedSegments) = Len(phdrs) /\ Len(SavedSections) = Len(sections)
  BY <1>1, SavedImage
<1>3. {im.segments[i].header : i \in 1..Len(im.segments)} = {phdrs[i] : i \in 1..Len(phdrs)}
  <2>1. \A i \in 1..Len(phdrs) : SavedSegments[i].header = phdrs[i]
    BY DEF SavedSegments
  <2> QED
    BY <1>2, <2>1
<1>4. {im.sections[i].header : i \in 1..Len(im.sections)}
          = {sections[i].header : i \in 1..Len(sections)}
  <2>1. \A i \in 1..Len(sections) : SavedSections[i].header = sections[i].header
    BY DEF SavedSections
  <2> QED
    BY <1>2, <2>1
<1>5. StructureEnd(im) = CHOOSE end \in ends : IsLastStructureEnd(end, ends)
  BY <1>2, <1>3, <1>4 DEF StructureEnd
<1>6. IsLastStructureEnd(Len(out), ends)
  BY EndFound DEF SessionInv, EndsAtLastStructure
<1> HIDE DEF ends
<1>7. \A end \in ends : IsLastStructureEnd(end, ends) => end = Len(out)
  BY <1>6, U64Nat, U64MaxAssumption DEF IsLastStructureEnd, U64
<1>8. StructureEnd(im) = Len(out)
  <2>1. Len(out) \in ends
    BY <1>6 DEF IsLastStructureEnd
  <2> QED
    BY <1>5, <1>6, <1>7, <2>1
<1>9. /\ out \in Seq(Byte) /\ trailing \in Seq(Byte)
  BY <1>1, FinishedFacts
<1>10. SubSeq(out \o trailing, Len(out) + 1, Len(out \o trailing)) = trailing
  <2> DEFINE rest == SubSeq(out \o trailing, Len(out) + 1, Len(out \o trailing))
  <2>1. /\ Len(out \o trailing) = Len(out) + Len(trailing)
        /\ Len(out) \in Nat /\ Len(trailing) \in Nat /\ out \o trailing \in Seq(Byte)
    BY <1>9
  <2>2. rest \in Seq(Byte) /\ Len(rest) = Len(trailing)
    BY <2>1
  <2>3. ASSUME NEW k \in 1..Len(trailing) PROVE rest[k] = trailing[k]
    <3>1. rest[k] = (out \o trailing)[Len(out) + k]
      BY <2>1
    <3> QED
      BY <1>9, <3>1
  <2> HIDE DEF rest
  <2>4. rest = trailing
    BY <1>9, <2>2, <2>3
  <2> QED
    BY <2>4 DEF rest
<1> QED
  BY <1>8, <1>10 DEF TrailingOf, Saved

(* The user's bytes leave an image an image.                                 *)
LEMMA EditedIsImage ==
    ASSUME NEW im \in ElfImage, NEW vaddr \in Nat, NEW bytes \in Seq(RawByte),
           NEW i \in 1..Len(im.segments)
    PROVE  Edited(im, i, vaddr, bytes) \in ElfImage
<1> DEFINE segs == im.segments
           secs == im.sections
<1>1. /\ segs \in Seq(Segment) /\ secs \in Seq(Section) /\ im.header \in ElfHeader
      /\ i \in 1..Len(segs)
  BY DEF ElfImage
<1>2. Edited(im, i, vaddr, bytes) =
          [im EXCEPT !.segments = SegmentsWith(segs, i, vaddr, bytes),
                     !.sections = SectionsWith(secs, vaddr, bytes)]
  BY DEF Edited
<1> HIDE DEF segs, secs
<1>3. SegmentsWith(segs, i, vaddr, bytes) \in Seq(Segment)
  <2> DEFINE segment == segs[i]
  <2>1. segment \in Segment
    BY <1>1
  <2> HIDE DEF segment
  <2>2. segment.data \in Seq(Byte) /\ vaddr - segment.header.vaddr \in Int
    BY <2>1, SegmentFacts
  <2>3. Copied(segment.data, vaddr - segment.header.vaddr, bytes) \in Seq(Byte)
    BY <2>2, CopiedBytes
  <2>4. WithBytes(segment, vaddr, bytes) \in Segment
    BY <2>1, <2>3 DEF WithBytes, Segment
  <2> QED
    BY <1>1, <2>4 DEF SegmentsWith, segment
<1>4. SectionsWith(secs, vaddr, bytes) \in Seq(Section)
  <2>1. ASSUME NEW k \in 1..Len(secs) PROVE Updated(secs[k], vaddr, bytes) \in Section
    <3> DEFINE section == secs[k]
    <3>1. section \in Section
      BY <1>1
    <3> HIDE DEF section
    <3>2. section.data \in Seq(Byte) /\ section.header.addr \in U64
      BY <3>1, SectionFacts DEF Section, Shdr
    <3>3. vaddr - section.header.addr \in Int
      <4>1. section.header.addr \in Nat
        BY <3>2, U64Nat
      <4> QED
        BY <4>1
    <3>4. Copied(section.data, vaddr - section.header.addr, bytes) \in Seq(Byte)
      BY <3>2, <3>3, CopiedBytes
    <3>5. Updated(section, vaddr, bytes) \in Section
      BY <3>1, <3>4 DEF Updated, Section
    <3> QED
      BY <3>5 DEF section
  <2>2. Len(secs) \in Nat
    BY <1>1
  <2> QED
    BY <2>1, <2>2 DEF SectionsWith
<1>5. [im EXCEPT !.segments = SegmentsWith(segs, i, vaddr, bytes),
                 !.sections = SectionsWith(secs, vaddr, bytes)] \in ElfImage
  BY <1>3, <1>4 DEF ElfImage
<1> QED
  BY <1>2, <1>5

(* The first call of a session, and every later one, starts the invariant.   *)
LEMMA FirstCall == image \in ElfImage /\ Begin => IInv /\ NamesInv /\ EndInv /\ CarriedInv
BY BeginInv, BeginNames, BeginEnd, BeginCarried

(* The same of a call that begins in the next state.                         *)
LEMMA NextCall ==
    (image \in ElfImage /\ Begin)' => (IInv /\ NamesInv /\ EndInv /\ CarriedInv)'
BY FirstCall, PTL

(* A call begun on another image starts as the first one does.               *)
LEMMA RestartBegins ==
    ASSUME NEW im \in ElfImage, Restart(im)
    PROVE  image' \in ElfImage /\ Begin'
BY DEF Restart, Begin, TablesEnd, ImageHeaders

(* A session starts with an image and bytes.                                 *)
LEMMA SessionStarts == SessionInit => SessionInv
<1> SUFFICES ASSUME SessionInit PROVE SessionInv
  OBVIOUS
<1>1. Begin
  BY DEF SessionInit
<1>2. CASE image \in Images /\ trailing \in Trailings
  BY <1>1, <1>2, FirstCall, ImagesAssumption, SessionAssumption DEF SessionInv
<1>3. CASE \E f \in LinkedFiles, t \in Trailings :
               /\ file = f \o t /\ opens = 1
               /\ image = Parsed(file) /\ trailing = TrailingOf(file)
  <2>1. file \in Seq(Byte) /\ image \in ElfImage /\ trailing = TrailingOf(file)
    BY <1>3, SessionAssumption
  <2>2. trailing \in Seq(Byte)
    BY <2>1, TrailingIsBytes
  <2> QED
    BY <1>1, <2>1, <2>2, FirstCall DEF SessionInv
<1> QED
  BY <1>2, <1>3 DEF SessionInit

(* Opening a saved file starts a call on the image it gives, or on an edit.  *)
LEMMA ReopenBegins == SessionInv /\ Reopen => (image \in ElfImage /\ Begin)'
<1> SUFFICES ASSUME SessionInv, Reopen PROVE (image \in ElfImage /\ Begin)'
  OBVIOUS
<1> DEFINE im == Parsed(Saved)
<1>1. Finished
  BY DEF Reopen, Finished, SessionInv
<1>2. im \in ElfImage
  BY <1>1, SavedImage
<1>3. CASE OpenUnchanged(im)
  BY <1>2, <1>3, RestartBegins DEF OpenUnchanged
<1>4. CASE OpenAndEdit(im)
  <2>1. PICK ioff \in Offsets, bytes \in Payload, i \in 1..Len(im.segments) :
            Restart(Edited(im, i, ImageBase(im.segments) + ioff, bytes))
    BY <1>4 DEF OpenAndEdit
  <2>2. im.segments \in Seq(Segment) /\ bytes \in Seq(RawByte) /\ ioff \in Nat
    BY <1>2, SessionAssumption DEF ElfImage
  <2> DEFINE vaddr == ImageBase(im.segments) + ioff
  <2>3. vaddr \in Nat
    <3>1. ImageBase(im.segments) \in Nat
      BY <2>2, BaseIsAddress, U64Nat
    <3> QED
      BY <2>2, <3>1
  <2> HIDE DEF vaddr, im
  <2>4. Edited(im, i, vaddr, bytes) \in ElfImage
    BY <1>2, <2>2, <2>3, EditedIsImage
  <2>5. Restart(Edited(im, i, vaddr, bytes))
    BY <2>1 DEF vaddr
  <2> QED
    BY <2>4, <2>5, RestartBegins
<1> QED
  BY <1>3, <1>4 DEF Reopen

(* Every step of a session keeps its invariant.                              *)
LEMMA SessionSteps == SessionInv /\ [SessionNext]_allVars => SessionInv'
<1> SUFFICES ASSUME SessionInv, [SessionNext]_allVars PROVE SessionInv'
  OBVIOUS
<1>1. CASE Save \/ UNCHANGED allVars
  <2>1. [Next]_vars /\ trailing' = trailing
    BY <1>1 DEF Save, allVars, session
  <2> QED
    BY <2>1, StepInv, StepNames, StepEnd, StepCarried DEF SessionInv
<1>2. CASE Reopen
  <2>1. Finished /\ trailing' = TrailingOf(Saved)
    BY <1>2 DEF Reopen, Finished, SessionInv
  <2>2. Saved \in Seq(Byte)
    BY <2>1, FinishedFacts
  <2>3. trailing' \in Seq(Byte)
    BY <2>1, <2>2, TrailingIsBytes
  <2>4. (image \in ElfImage /\ Begin)'
    BY <1>2, ReopenBegins
  <2> QED
    BY <2>3, <2>4, NextCall DEF SessionInv
<1> QED
  BY <1>1, <1>2 DEF SessionNext

(* However often a file is opened, edited and saved: reading a saved file    *)
(* gives the image that was saved, its segments with their file bytes and    *)
(* its sections under their names with theirs (elf_file.rs, parse.rs,        *)
(* build.rs).                                                                *)
THEOREM SavedFilesReadBack == SessionSpec => []ReadsBack
BY SessionStarts, SessionSteps, ReadsWhatWasSaved, PTL DEF SessionSpec

(* And it finds exactly the trailing bytes that were appended, after each of *)
(* the saves (elf_file.rs:3-5 and 104-172).                                  *)
THEOREM TrailingBytesSurvive == SessionSpec => []TrailingKept
BY SessionStarts, SessionSteps, TrailingIsFound, PTL DEF SessionSpec

-----------------------------------------------------------------------------
(* What try_build makes of an image, without its steps: c gives the cursor   *)
(* before each segment and, after them, before each section; b the name      *)
(* strings collected before each section's; named the sections with their    *)
(* names assigned.                                                           *)

ZerosBetween(f, from, to) == \A p \in (from + 1)..to : f[p] = Zero

(* The bytes are in f at the offset, at or after the cursor, with zeros      *)
(* before them, and next is where they end.                                  *)
Laid(f, c, offset, bytes, next) ==
    /\ c <= offset /\ next = offset + Len(bytes)
    /\ HoldsAt(f, offset, bytes) /\ ZerosBetween(f, c, offset)

SegmentLaid(f, segment, phdr, c, next) ==
    \/ /\ Writable(segment) = 0
       /\ phdr = PhdrAt(segment.header, 0, 0) /\ next = c
    \/ /\ Writable(segment) # 0
       /\ phdr = PhdrAt(segment.header, SegmentOffset(c, segment), Len(SegmentBytes(segment)))
       /\ Laid(f, c, SegmentOffset(c, segment), SegmentBytes(segment), next)

SectionOffset(c, section) == AlignUp(c, Maximum(section.header.addralign, 1))

SectionLaid(f, was, is, c, next) ==
    \/ IsNobits(was) /\ is = was /\ next = c
    \/ /\ ~IsNobits(was) /\ was.data = <<>>
       /\ is = SectionAt(was, was.header.offset) /\ next = c
    \/ /\ ~IsNobits(was) /\ was.data # <<>>
       /\ is = SectionAt(was, SectionOffset(c, was))
       /\ Laid(f, c, SectionOffset(c, was), was.data, next)

WithTable(list) ==
    IF list = <<>> \/ \E i \in 1..Len(list) : IsShstrtab(list[i])
    THEN list ELSE Append(list, NewShstrtab)

IsTableIndex(list, k) ==
    \/ list = <<>> /\ k = 0
    \/ \E at \in 1..Len(list) :
           /\ IsShstrtab(list[at]) /\ \A j \in 1..(at - 1) : ~IsShstrtab(list[j])
           /\ k = IF at - 1 <= U16Max THEN at - 1 ELSE 0

Collected(list, b, n) ==
    /\ b[1] = <<Zero>>
    /\ \A i \in 1..n : b[i + 1] = Append(b[i] \o NameBytes[list[i].name], Zero)

NamedWith(section, offset, names_) ==
    IF IsShstrtab(section)
    THEN [section EXCEPT !.header.nameIndex = offset, !.header.size = Len(names_),
                         !.data = names_]
    ELSE [section EXCEPT !.header.nameIndex = offset]

NamesGiven(list, b, named) ==
    /\ Collected(list, b, Len(list))
    /\ Len(named) = Len(list)
    /\ \A i \in 1..Len(list) :
           named[i] = NamedWith(list[i], Len(b[i]), b[Len(list) + 1])

FilledWith(h, phs, secs, k, end) ==
    [h EXCEPT !.phoff = EhSize, !.phnum = Len(phs), !.shnum = Len(secs), !.shstrndx = k,
              !.shoff = IF secs = <<>> THEN 0 ELSE AlignUp(end, 8)]

HeadersOf(list) == [i \in 1..Len(list) |-> list[i].header]

(* The section header table ends the file, or whatever ended before it.      *)
TableLaid(f, secs, hdr, end) ==
    IF secs = <<>> THEN Len(f) = end
    ELSE Laid(f, end, hdr.shoff, EncodedTable(HeadersOf(secs), ShEntSize), Len(f))

SegmentsLaid(f, im, phs, c) ==
    /\ c \in [Nat -> Nat] /\ c[1] = EhSize + PhEntSize * Len(im.segments)
    /\ \A i \in 1..Len(im.segments) :
           SegmentLaid(f, im.segments[i], phs[i], c[i], c[i + 1])

SectionsLaid(f, im, named, secs, c) ==
    \A i \in 1..Len(named) :
        SectionLaid(f, named[i], secs[i], c[Len(im.segments) + i],
                    c[Len(im.segments) + i + 1])

EndOf(im, named, c) == c[Len(im.segments) + Len(named) + 1]

BuiltWith(im, f, phs, secs, hdr, c, b, named) ==
    /\ b \in [Nat -> Seq(RawByte)] /\ named \in Seq(Section)
    /\ SegmentsLaid(f, im, phs, c)
    /\ NamesGiven(WithTable(im.sections), b, named)
    /\ Len(secs) = Len(named) /\ SectionsLaid(f, im, named, secs, c)
    /\ \E k : /\ IsTableIndex(WithTable(im.sections), k)
              /\ hdr = FilledWith(im.header, phs, secs, k, EndOf(im, named, c))
    /\ TableLaid(f, secs, hdr, EndOf(im, named, c))
    /\ HoldsAt(f, EhSize, EncodedTable(phs, PhEntSize))
    /\ HoldsAt(f, 0, Encoded(hdr, EhSize))

(* f is the file that try_build makes of the image im, with these program    *)
(* headers, sections and header.                                             *)
BuiltFrom(im, f, phs, secs, hdr) ==
    /\ phs \in Seq(Phdr) /\ Len(phs) = Len(im.segments)
    /\ secs \in Seq(Section) /\ hdr \in ElfHeader /\ f \in Seq(Byte)
    /\ \E c, b, named : BuiltWith(im, f, phs, secs, hdr, c, b, named)

-----------------------------------------------------------------------------
(* A call makes it so, segment by segment and section by section.            *)

PlacedSections == IF SectionsBegun THEN SectionsDone ELSE 0

LaidSegments(c) ==
    /\ c \in [Nat -> Nat] /\ c[1] = TablesEnd
    /\ \A i \in 1..SegmentsDone :
           /\ TablesEnd <= c[i]
           /\ SegmentLaid(out, image.segments[i], phdrs[i], c[i], c[i + 1])
    /\ \A i \in (SegmentsDone + 1)..Len(phdrs) : phdrs[i] = image.segments[i].header

LaidNames(b, named) ==
    /\ b \in [Nat -> Seq(RawByte)] /\ named \in Seq(Section)
    /\ pc = "segments" => sections = image.sections
    /\ pc = "names" =>
           /\ sections = WithTable(image.sections)
           /\ Collected(sections, b, index - 1) /\ blob = b[index]
           /\ \A i \in 1..(index - 1) : offsets[i] = Len(b[i])
    /\ SectionsBegun =>
           NamesGiven(WithTable(image.sections), b, named) /\ Len(sections) = Len(named)

LaidSections(c, named) ==
    SectionsBegun =>
        /\ \A i \in 1..SectionsDone :
               /\ TablesEnd <= c[Len(phdrs) + i]
               /\ SectionLaid(out, named[i], sections[i], c[Len(phdrs) + i],
                              c[Len(phdrs) + i + 1])
        /\ \A i \in (SectionsDone + 1)..Len(sections) : sections[i] = named[i]

LaidHeader ==
    /\ pc = "segments" => shstrndx = 0
    /\ pc # "segments" => IsTableIndex(WithTable(image.sections), shstrndx)
    /\ ~HeaderFilled => header = image.header
    /\ HeaderFilled => header = FilledWith(image.header, phdrs, sections, shstrndx, cursor)
    /\ ShdrsWritten => TablesEnd <= cursor /\ TableLaid(out, sections, header, cursor)

LaidWith(c, b, named) ==
    /\ LaidSegments(c) /\ LaidNames(b, named) /\ LaidSections(c, named)
    /\ cursor = c[SegmentsDone + PlacedSections + 1]

(* At each step the file is laid out so far, from a cursor to the next.      *)
LaidInv == pc # "error" => LaidHeader /\ \E c, b, named : LaidWith(c, b, named)

(* An element of a sequence.                                                 *)
LEMMA Element ==
    ASSUME NEW S, NEW list \in Seq(S), NEW i \in 1..Len(list)
    PROVE  list[i] \in S
OBVIOUS

(* The last element of a longer sequence, and the others.                    *)
LEMMA AppendedLast ==
    ASSUME NEW S, NEW list \in Seq(S), NEW x \in S
    PROVE  /\ Append(list, x)[Len(list) + 1] = x
           /\ \A i \in 1..Len(list) : Append(list, x)[i] = list[i]
OBVIOUS

(* Another element in one place.                                             *)
LEMMA ReplacedAt ==
    ASSUME NEW S, NEW list \in Seq(S), NEW at \in 1..Len(list), NEW x
    PROVE  LET new == [list EXCEPT ![at] = x]
           IN  new[at] = x /\ \A i \in 1..Len(list) : i # at => new[i] = list[i]
OBVIOUS

(* Another value at one number.                                              *)
LEMMA Reassigned ==
    ASSUME NEW S, NEW c \in [Nat -> S], NEW at \in Nat, NEW x \in S
    PROVE  LET d == [c EXCEPT ![at] = x]
           IN  /\ d \in [Nat -> S] /\ d[at] = x
               /\ \A i \in Nat : i # at => d[i] = c[i]
OBVIOUS

(* What is laid behind the tables stays laid over a step.                    *)
LEMMA LaidStays ==
    ASSUME TypeOK, KeepsBytes, Len(out') \in Nat, NEW a \in Nat, TablesEnd <= a,
           NEW offset \in Nat, NEW bytes \in Seq(Byte), bytes # <<>>, NEW next,
           Laid(out, a, offset, bytes, next)
    PROVE  Laid(out', a, offset, bytes, next)
<1>1. TablesEnd \in Nat /\ Len(out) \in Nat /\ Len(bytes) \in Nat \ {0}
  BY ImageFacts DEF TypeOK
<1>2. /\ a <= offset /\ offset + Len(bytes) <= Len(out)
      /\ \A k \in 1..Len(bytes) : out[offset + k] = bytes[k]
      /\ \A p \in (a + 1)..offset : out[p] = Zero
  BY DEF Laid, HoldsAt, ZerosBetween
<1>3. ASSUME NEW p \in (a + 1)..(offset + Len(bytes))
      PROVE  p <= Len(out') /\ out'[p] = out[p]
  <2>1. p \in (TablesEnd + 1)..Len(out)
    BY <1>1, <1>2
  <2> QED
    BY <2>1 DEF KeepsBytes
<1>4. offset + Len(bytes) <= Len(out')
  <2>1. offset + Len(bytes) \in (a + 1)..(offset + Len(bytes))
    BY <1>1, <1>2
  <2> QED
    BY <1>3, <2>1
<1>5. ASSUME NEW k \in 1..Len(bytes) PROVE out'[offset + k] = bytes[k]
  <2>1. offset + k \in (a + 1)..(offset + Len(bytes))
    BY <1>1, <1>2
  <2> QED
    BY <1>2, <1>3, <2>1
<1>6. ASSUME NEW p \in (a + 1)..offset PROVE out'[p] = Zero
  <2>1. p \in (a + 1)..(offset + Len(bytes))
    BY <1>1
  <2> QED
    BY <1>2, <1>3, <2>1
<1>7. HoldsAt(out', offset, bytes) /\ ZerosBetween(out', a, offset)
  BY <1>4, <1>5, <1>6 DEF HoldsAt, ZerosBetween
<1> QED
  BY <1>7 DEF Laid

(* Where a section goes is a number.                                         *)
LEMMA SectionOffsetFacts ==
    ASSUME NEW section \in Section, NEW c \in Nat
    PROVE  SectionOffset(c, section) \in Nat
<1> DEFINE align == Maximum(section.header.addralign, 1)
<1>1. align \in Nat
  BY SectionFacts DEF Maximum
<1> HIDE DEF align
<1>2. AlignUp(c, align) \in Nat
  BY <1>1, AlignUpFacts
<1> QED
  BY <1>2 DEF SectionOffset, align

(* So a segment laid before a step is laid after it,                         *)
LEMMA SegmentLaidStays ==
    ASSUME TypeOK, KeepsBytes, Len(out') \in Nat, NEW a \in Nat, TablesEnd <= a,
           NEW segment \in Segment, NEW phdr, NEW next,
           SegmentLaid(out, segment, phdr, a, next)
    PROVE  SegmentLaid(out', segment, phdr, a, next)
<1> DEFINE offset == SegmentOffset(a, segment)
           bytes  == SegmentBytes(segment)
<1>1. CASE Writable(segment) = 0
  BY <1>1 DEF SegmentLaid
<1>2. CASE Writable(segment) # 0
  <2>1. offset \in Nat /\ bytes \in Seq(Byte) /\ bytes # <<>>
    BY <1>2, SegmentBytesFacts, SegmentOffsetFacts
  <2>2. /\ phdr = PhdrAt(segment.header, offset, Len(bytes))
        /\ Laid(out, a, offset, bytes, next)
    BY <1>2 DEF SegmentLaid
  <2> HIDE DEF offset, bytes
  <2>3. Laid(out', a, offset, bytes, next)
    BY <2>1, <2>2, LaidStays
  <2> QED
    BY <1>2, <2>2, <2>3 DEF SegmentLaid, offset, bytes
<1> QED
  BY <1>1, <1>2

(* and a section.                                                            *)
LEMMA SectionLaidStays ==
    ASSUME TypeOK, KeepsBytes, Len(out') \in Nat, NEW a \in Nat, TablesEnd <= a,
           NEW was \in Section, NEW is, NEW next, SectionLaid(out, was, is, a, next)
    PROVE  SectionLaid(out', was, is, a, next)
<1> DEFINE offset == SectionOffset(a, was)
           bytes  == was.data
<1>1. CASE IsNobits(was) \/ was.data = <<>>
  BY <1>1 DEF SectionLaid
<1>2. CASE ~IsNobits(was) /\ was.data # <<>>
  <2>1. offset \in Nat /\ bytes \in Seq(Byte) /\ bytes # <<>>
    BY <1>2, SectionFacts, SectionOffsetFacts
  <2>2. is = SectionAt(was, offset) /\ Laid(out, a, offset, bytes, next)
    BY <1>2 DEF SectionLaid
  <2> HIDE DEF offset, bytes
  <2>3. Laid(out', a, offset, bytes, next)
    BY <2>1, <2>2, LaidStays
  <2> QED
    BY <1>2, <2>2, <2>3 DEF SectionLaid, offset, bytes
<1> QED
  BY <1>1, <1>2

(* The segments laid so far stay laid, from the same cursors.                *)
LEMMA LaidSegmentsStay ==
    ASSUME IInv, KeepsBytes, Len(out') \in Nat, NEW c, LaidSegments(c),
           NEW d \in [Nat -> Nat], \A i \in 1..(SegmentsDone + 1) : d[i] = c[i]
    PROVE  /\ d[1] = TablesEnd
           /\ \A i \in 1..SegmentsDone :
                  /\ TablesEnd <= d[i]
                  /\ SegmentLaid(out', image.segments[i], phdrs[i], d[i], d[i + 1])
<1>0. /\ SegmentsDone \in 0..Len(phdrs) /\ Len(phdrs) \in Nat
      /\ Len(phdrs) = Len(image.segments) /\ TypeOK
  BY Progress DEF IInv
<1>1. SegmentsDone \in Nat /\ SegmentsDone <= Len(image.segments) /\ TypeOK
  BY <1>0
<1>2. d[1] = TablesEnd
  <2>1. 1 \in 1..(SegmentsDone + 1)
    BY <1>1
  <2>2. c[1] = TablesEnd
    BY DEF LaidSegments
  <2> QED
    BY <2>1, <2>2
<1>3. ASSUME NEW i \in 1..SegmentsDone
      PROVE  /\ TablesEnd <= d[i]
             /\ SegmentLaid(out', image.segments[i], phdrs[i], d[i], d[i + 1])
  <2>1. i \in 1..(SegmentsDone + 1) /\ i + 1 \in 1..(SegmentsDone + 1)
        /\ i \in 1..Len(image.segments) /\ i \in Nat
    BY <1>0, <1>1
  <2>2. image.segments[i] \in Segment
    <3>1. image.segments \in Seq(Segment)
      BY <1>1, ImageFacts
    <3> QED
      BY <2>1, <3>1, Element
  <2>3. d[i] = c[i] /\ d[i + 1] = c[i + 1] /\ d[i] \in Nat
    BY <2>1
  <2>4. /\ TablesEnd <= c[i]
        /\ SegmentLaid(out, image.segments[i], phdrs[i], c[i], c[i + 1])
    BY DEF LaidSegments
  <2>5. /\ TablesEnd <= d[i]
        /\ SegmentLaid(out, image.segments[i], phdrs[i], d[i], d[i + 1])
    BY <2>3, <2>4
  <2> QED
    BY <1>1, <2>2, <2>3, <2>5, SegmentLaidStays
<1> QED
  BY <1>2, <1>3

(* So do the sections.                                                       *)
LEMMA LaidSectionsStay ==
    ASSUME IInv, KeepsBytes, Len(out') \in Nat, NEW c, NEW b, NEW named, LaidNames(b, named),
           LaidSections(c, named), SectionsBegun, NEW d \in [Nat -> Nat],
           \A i \in 1..(Len(phdrs) + SectionsDone + 1) : d[i] = c[i]
    PROVE  \A i \in 1..SectionsDone :
               /\ TablesEnd <= d[Len(phdrs) + i]
               /\ SectionLaid(out', named[i], sections[i], d[Len(phdrs) + i],
                              d[Len(phdrs) + i + 1])
<1> DEFINE n == Len(phdrs)
<1>1. SectionsDone \in Nat /\ SectionsDone <= Len(sections) /\ TypeOK /\ n \in Nat
  BY Progress DEF IInv
<1>2. named \in Seq(Section) /\ Len(sections) = Len(named)
  BY DEF LaidNames
<1> HIDE DEF n
<1>3. ASSUME NEW i \in 1..SectionsDone
      PROVE  /\ TablesEnd <= d[n + i]
             /\ SectionLaid(out', named[i], sections[i], d[n + i], d[n + i + 1])
  <2>1. /\ n + i \in 1..(n + SectionsDone + 1) /\ n + i + 1 \in 1..(n + SectionsDone + 1)
        /\ i \in 1..Len(named) /\ n + i \in Nat
    BY <1>1, <1>2
  <2>2. named[i] \in Section
    BY <1>2, <2>1
  <2>3. d[n + i] = c[n + i] /\ d[n + i + 1] = c[n + i + 1]
    BY <2>1 DEF n
  <2>4. d[n + i] \in Nat
    BY <2>1
  <2>5. /\ TablesEnd <= c[n + i]
        /\ SectionLaid(out, named[i], sections[i], c[n + i], c[n + i + 1])
    BY DEF LaidSections, n
  <2>6. /\ TablesEnd <= d[n + i]
        /\ SectionLaid(out, named[i], sections[i], d[n + i], d[n + i + 1])
    BY <2>3, <2>5
  <2> QED
    BY <1>1, <2>2, <2>4, <2>6, SectionLaidStays
<1> QED
  BY <1>3 DEF n

(* A call begins with nothing laid.                                          *)
LEMMA BeginLaid == image \in ElfImage /\ Begin => LaidInv
<1> SUFFICES ASSUME image \in ElfImage, Begin PROVE LaidInv
  OBVIOUS
<1>1. IInv
  BY BeginInv
<1> DEFINE c == [i \in Nat |-> TablesEnd]
           b == [i \in Nat |-> <<>>]
<1>2. /\ pc = "segments" /\ index = 1 /\ cursor = TablesEnd /\ phdrs = ImageHeaders
      /\ sections = image.sections /\ shstrndx = 0 /\ header = image.header
  BY DEF Begin
<1>3. ~SectionsBegun /\ ~HeaderFilled /\ ~ShdrsWritten /\ SegmentsDone = 0
  BY <1>2 DEF SectionsBegun, PhdrsWritten, HeaderFilled, ShdrsWritten, SegmentsDone
<1>4. TablesEnd \in Nat /\ Len(image.segments) \in Nat /\ Len(phdrs) = Len(image.segments)
  BY <1>1, ImageFacts DEF IInv, TypeOK
<1>5. LaidSegments(c)
  <2>1. c \in [Nat -> Nat] /\ c[1] = TablesEnd
    BY <1>4
  <2>2. \A i \in 1..Len(phdrs) : phdrs[i] = image.segments[i].header
    BY <1>2, <1>4 DEF ImageHeaders
  <2> HIDE DEF c
  <2> QED
    BY <1>3, <2>1, <2>2 DEF LaidSegments
<1>6. LaidNames(b, <<>>)
  <2>1. b \in [Nat -> Seq(RawByte)]
    OBVIOUS
  <2> QED
    BY <1>2, <1>3, <2>1 DEF LaidNames
<1>7. LaidSections(c, <<>>)
  BY <1>3 DEF LaidSections
<1>8. cursor = c[SegmentsDone + PlacedSections + 1]
  BY <1>2, <1>3 DEF PlacedSections
<1>9. LaidHeader
  BY <1>2, <1>3 DEF LaidHeader
<1> HIDE DEF c, b
<1>10. LaidWith(c, b, <<>>)
  BY <1>5, <1>6, <1>7, <1>8 DEF LaidWith
<1> QED
  BY <1>9, <1>10 DEF LaidInv

(* One more segment laid.                                                    *)
LEMMA SegmentAdded ==
    ASSUME IInv, IInv', KeepsBytes, LaidHeader, NEW c, NEW b, NEW named,
           LaidWith(c, b, named), pc = "segments", pc' = "segments",
           index \in 1..Len(image.segments), index' = index + 1, image' = image,
           NEW phdr, phdrs' = [phdrs EXCEPT ![index] = phdr],
           SegmentLaid(out', image.segments[index], phdr, cursor, cursor'),
           UNCHANGED <<sections, shstrndx, header>>
    PROVE  LaidInv'
<1>1. /\ index \in Nat \ {0} /\ cursor \in Nat /\ cursor' \in Nat /\ Len(out') \in Nat
      /\ Len(phdrs) = Len(image.segments) /\ Len(phdrs') = Len(phdrs)
      /\ TablesEnd \in Nat /\ Len(phdrs) \in Nat
  BY ImageFacts DEF IInv, TypeOK
<1>0. index <= Len(phdrs) /\ index \in Nat /\ Len(phdrs) \in Nat
  BY <1>1
<1>2. /\ SegmentsDone = index - 1 /\ SegmentsDone' = index
      /\ ~SectionsBegun /\ ~SectionsBegun' /\ PlacedSections = 0 /\ PlacedSections' = 0
      /\ ~HeaderFilled' /\ ~ShdrsWritten' /\ ~HeaderFilled
  BY <1>1 DEF SegmentsDone, SectionsBegun, PhdrsWritten, HeaderFilled, ShdrsWritten,
              PlacedSections
<1>3. LaidSegments(c) /\ LaidNames(b, named) /\ cursor = c[index]
  BY <1>1, <1>2 DEF LaidWith
<1>4. PICK d \in [Nat -> Nat] :
          d[index + 1] = cursor' /\ \A i \in 1..(SegmentsDone + 1) : d[i] = c[i]
  <2> DEFINE e == [c EXCEPT ![index + 1] = cursor']
  <2>1. c \in [Nat -> Nat]
    BY <1>3 DEF LaidSegments
  <2>2. index + 1 \in Nat
    BY <1>1
  <2>3. /\ e \in [Nat -> Nat] /\ e[index + 1] = cursor'
        /\ \A i \in Nat : i # index + 1 => e[i] = c[i]
    BY <1>1, <2>1, <2>2, Reassigned
  <2> HIDE DEF e
  <2>4. \A i \in 1..(SegmentsDone + 1) : i \in Nat /\ i # index + 1
    BY <1>1, <1>2
  <2> QED
    BY <2>3, <2>4
<1>5. /\ d[1] = TablesEnd
      /\ \A i \in 1..(index - 1) :
             /\ TablesEnd <= d[i]
             /\ SegmentLaid(out', image.segments[i], phdrs[i], d[i], d[i + 1])
  BY <1>1, <1>2, <1>3, <1>4, LaidSegmentsStay
<1>6. TablesEnd' = TablesEnd /\ TablesEnd <= cursor
  BY DEF TablesEnd, IInv, LayoutInv, CursorInv
<1>7. phdrs'[index] = phdr /\ \A i \in 1..Len(phdrs) : i # index => phdrs'[i] = phdrs[i]
  <2>1. phdrs \in Seq(Phdr)
    BY DEF IInv, TypeOK
  <2>2. index \in 1..Len(phdrs)
    BY <1>1
  <2> QED
    BY <2>1, <2>2, ReplacedAt
<1>8. ASSUME NEW i \in 1..index
      PROVE  /\ TablesEnd' <= d[i]
             /\ SegmentLaid(out', image'.segments[i], phdrs'[i], d[i], d[i + 1])
  <2>1. CASE i = index
    <3>1. index \in 1..(SegmentsDone + 1)
      BY <1>1, <1>2
    <3>2. d[index] = cursor
      BY <1>3, <1>4, <3>1
    <3> QED
      BY <1>4, <1>6, <1>7, <2>1, <3>2
  <2>2. CASE i # index
    <3>1. i \in 1..(index - 1) /\ i \in 1..Len(phdrs)
      <4>1. i \in 1..(index - 1)
        BY <1>1, <2>2
      <4> QED
        BY <1>0, <4>1
    <3> QED
      BY <1>5, <1>6, <1>7, <2>2, <3>1
  <2> QED
    BY <2>1, <2>2
<1>9. ASSUME NEW i \in (index + 1)..Len(phdrs') PROVE phdrs'[i] = image'.segments[i].header
  <2>0. i \in (index + 1)..Len(phdrs)
    BY <1>1
  <2>1. i \in (SegmentsDone + 1)..Len(phdrs) /\ i \in 1..Len(phdrs) /\ i # index
    BY <1>1, <1>2, <2>0
  <2> QED
    BY <1>3, <1>7, <2>1 DEF LaidSegments
<1>10. LaidSegments(d)'
  BY <1>1, <1>2, <1>4, <1>5, <1>6, <1>8, <1>9 DEF LaidSegments
<1>11. LaidNames(b, named)' /\ LaidSections(d, named)' /\ LaidHeader'
  BY <1>2, <1>3 DEF LaidNames, LaidSections, LaidHeader
<1>12. (cursor = d[SegmentsDone + PlacedSections + 1])'
  <2>1. SegmentsDone' + PlacedSections' + 1 = index + 1
    BY <1>1, <1>2
  <2> QED
    BY <1>4, <2>1
<1>13. LaidWith(d, b, named)'
  BY <1>10, <1>11, <1>12 DEF LaidWith
<1> QED
  BY <1>11, <1>13 DEF LaidInv

(* A segment without bytes takes no room.                                    *)
LEMMA SkipSegmentLaid == IInv /\ IInv' /\ LaidInv /\ SkipSegment => LaidInv'
<1> SUFFICES ASSUME IInv, IInv', LaidInv, SkipSegment PROVE LaidInv'
  OBVIOUS
<1>1. /\ pc = "segments" /\ pc' = "segments" /\ index' = index + 1 /\ image' = image
      /\ phdrs' = [phdrs EXCEPT ![index] = PhdrAt(phdrs[index], 0, 0)]
      /\ UNCHANGED <<out, cursor, sections, shstrndx, header>>
      /\ Writable(image.segments[index]) = 0
  BY DEF SkipSegment, layout
<1>2. index \in 1..Len(image.segments)
  BY ImageFacts DEF SkipSegment, IInv, TypeOK
<1>3. PICK c, b, named : LaidWith(c, b, named)
  BY <1>1 DEF LaidInv
<1>4. KeepsBytes /\ LaidHeader
  BY <1>1, StepKeepsBytes DEF Next, LaidInv
<1>5. phdrs[index] = image.segments[index].header
  <2>1. SegmentsDone = index - 1 /\ Len(phdrs) = Len(image.segments)
    BY <1>1 DEF SegmentsDone, IInv, TypeOK
  <2>2. index \in (SegmentsDone + 1)..Len(phdrs)
    BY <1>2, <2>1
  <2> QED
    BY <1>3, <2>2 DEF LaidWith, LaidSegments
<1>6. SegmentLaid(out', image.segments[index], PhdrAt(phdrs[index], 0, 0), cursor, cursor')
  BY <1>1, <1>5 DEF SegmentLaid
<1> QED
  BY <1>1, <1>2, <1>3, <1>4, <1>6, SegmentAdded

(* A write past the end of the file lays its bytes from the cursor on.       *)
LEMMA WriteLays ==
    ASSUME IInv, IInv', Len(out) <= cursor, NEW offset \in Nat, cursor <= offset,
           NEW bytes \in Seq(Byte), out' = WriteAt(out, offset, bytes)
    PROVE  /\ Laid(out', cursor, offset, bytes, offset + Len(bytes))
           /\ Len(out') = offset + Len(bytes)
<1>1. out \in Seq(Byte) /\ cursor \in Nat /\ Len(out) \in Nat /\ Len(bytes) \in Nat
  BY DEF IInv, TypeOK
<1>2. HoldsAt(out', offset, bytes)
  BY <1>1, WriteAtHolds
<1>3. Len(out') = offset + Len(bytes)
  <2>1. Len(out') = Maximum(Len(out), offset + Len(bytes))
    BY <1>1, WriteAtFile
  <2> QED
    BY <1>1, <2>1 DEF Maximum
<1>4. ASSUME NEW p \in (cursor + 1)..offset PROVE out'[p] = Zero
  <2>1. /\ p \in 1..Maximum(Len(out), offset + Len(bytes))
        /\ ~(offset < p) /\ ~(p <= Len(out))
    BY <1>1 DEF Maximum
  <2> QED
    BY <2>1 DEF WriteAt
<1> QED
  BY <1>2, <1>3, <1>4 DEF Laid, ZerosBetween

(* One with bytes takes what the cursor gives it.                            *)
LEMMA PlaceSegmentLaid == IInv /\ IInv' /\ LaidInv /\ PlaceSegment => LaidInv'
<1> SUFFICES ASSUME IInv, IInv', LaidInv, PlaceSegment PROVE LaidInv'
  OBVIOUS
<1> DEFINE segment == image.segments[index]
           offset  == SegmentOffset(cursor, segment)
           bytes   == SegmentBytes(segment)
<1>1. CASE Fail
  BY <1>1 DEF Fail, LaidInv
<1>2. CASE ~Fail
  <2>1. /\ bytes \in Seq(Byte) /\ bytes # <<>>
        /\ offset \in U64 /\ cursor <= offset
        /\ out' = WriteAt(out, offset, bytes) /\ cursor' = offset + Len(bytes)
        /\ phdrs' = [phdrs EXCEPT ![index] = PhdrAt(phdrs[index], offset, Len(bytes))]
    BY <1>2, SegmentWritten
  <2>2. /\ pc = "segments" /\ pc' = "segments" /\ index' = index + 1 /\ image' = image
        /\ UNCHANGED <<sections, shstrndx, header>>
    BY <1>2 DEF PlaceSegment
  <2>3. index \in 1..Len(image.segments) /\ image.segments \in Seq(Segment)
    BY ImageFacts DEF PlaceSegment, IInv, TypeOK
  <2>4. segment \in Segment
    BY <2>3
  <2>5. PICK c, b, named : LaidWith(c, b, named)
    BY <2>2 DEF LaidInv
  <2>6. KeepsBytes /\ LaidHeader
    BY <2>2, StepKeepsBytes DEF Next, LaidInv
  <2>7. phdrs[index] = segment.header
    <3>1. SegmentsDone = index - 1 /\ Len(phdrs) = Len(image.segments)
      BY <2>2 DEF SegmentsDone, IInv, TypeOK
    <3>2. index \in (SegmentsDone + 1)..Len(phdrs)
      BY <2>3, <3>1
    <3> QED
      BY <2>5, <3>2 DEF LaidWith, LaidSegments
  <2>8. Len(out) <= cursor /\ offset \in Nat
    BY <2>1, <2>2, U64Nat DEF IInv, LayoutInv, CursorInv
  <2>9. Writable(segment) # 0
    BY <2>1, <2>4, SegmentBytesFacts
  <2> HIDE DEF offset, bytes
  <2>10. Laid(out', cursor, offset, bytes, cursor')
    BY <2>1, <2>8, WriteLays
  <2>11. SegmentLaid(out', segment, PhdrAt(phdrs[index], offset, Len(bytes)), cursor, cursor')
    BY <2>7, <2>9, <2>10 DEF SegmentLaid, offset, bytes
  <2> QED
    BY <2>1, <2>2, <2>3, <2>5, <2>6, <2>11, SegmentAdded
<1> QED
  BY <1>1, <1>2

(* A step that leaves the segments alone.                                    *)
LEMMA LaidSegmentsCarried ==
    ASSUME IInv, IInv', KeepsBytes, image' = image, phdrs' = phdrs,
           SegmentsDone' = SegmentsDone, NEW c, LaidSegments(c)
    PROVE  LaidSegments(c)'
<1>0. Len(out') \in Nat
  BY DEF IInv, TypeOK
<1>1. Len(out') \in Nat /\ c \in [Nat -> Nat]
  BY <1>0 DEF LaidSegments
<1>2. /\ c[1] = TablesEnd
      /\ \A i \in 1..SegmentsDone :
             /\ TablesEnd <= c[i]
             /\ SegmentLaid(out', image.segments[i], phdrs[i], c[i], c[i + 1])
  BY <1>1, LaidSegmentsStay
<1>3. \A i \in (SegmentsDone + 1)..Len(phdrs) : phdrs[i] = image.segments[i].header
  BY DEF LaidSegments
<1>4. TablesEnd' = TablesEnd
  BY DEF TablesEnd
<1> QED
  BY <1>1, <1>2, <1>3, <1>4 DEF LaidSegments

(* A step that leaves the sections alone.                                    *)
LEMMA LaidSectionsCarried ==
    ASSUME IInv, IInv', KeepsBytes, image' = image, phdrs' = phdrs, sections' = sections,
           SectionsBegun, SectionsDone' = SectionsDone,
           NEW c \in [Nat -> Nat], NEW b, NEW named, LaidNames(b, named),
           LaidSections(c, named)
    PROVE  LaidSections(c, named)'
<1>1. Len(out') \in Nat
  BY DEF IInv, TypeOK
<1>2. \A i \in 1..SectionsDone :
          /\ TablesEnd <= c[Len(phdrs) + i]
          /\ SectionLaid(out', named[i], sections[i], c[Len(phdrs) + i],
                         c[Len(phdrs) + i + 1])
  BY <1>1, LaidSectionsStay
<1>3. \A i \in (SectionsDone + 1)..Len(sections) : sections[i] = named[i]
  BY DEF LaidSections
<1>4. TablesEnd' = TablesEnd
  BY DEF TablesEnd
<1> QED
  BY <1>2, <1>3, <1>4 DEF LaidSections

(* ensure_shstrtab gives the sections their name table and its index.        *)
LEMMA TableEnsured ==
    ASSUME sections \in Seq(Section), sections # <<>>, NEW at \in 1..(Len(sections) + 1),
           ShstrtabAt(at), shstrndx' = IF at - 1 <= U16Max THEN at - 1 ELSE 0
    PROVE  sections' = WithTable(sections) /\ IsTableIndex(sections', shstrndx')
<1>0. Len(sections) \in Nat
  OBVIOUS
<1>1. CASE at \in 1..Len(sections) /\ IsFirstShstrtab(at) /\ sections' = sections
  <2>1. WithTable(sections) = sections
    BY <1>1 DEF WithTable, IsFirstShstrtab
  <2> QED
    BY <1>1, <2>1 DEF IsTableIndex, IsFirstShstrtab
<1>2. CASE /\ at = Len(sections) + 1 /\ \A i \in 1..Len(sections) : ~IsShstrtab(sections[i])
           /\ sections' = Append(sections, NewShstrtab)
  <2>1. WithTable(sections) = Append(sections, NewShstrtab)
    BY <1>2 DEF WithTable
  <2> DEFINE new == Append(sections, NewShstrtab)
  <2>2. /\ Len(new) = Len(sections) + 1 /\ new[at] = NewShstrtab
        /\ \A j \in 1..Len(sections) : new[j] = sections[j]
    <3>1. NewShstrtab \in Section
      BY NewShstrtabType
    <3> QED
      BY <1>2, <3>1
  <2> HIDE DEF new
  <2>3. IsShstrtab(new[at])
    BY <2>2 DEF IsShstrtab, NewShstrtab
  <2>4. \A j \in 1..(at - 1) : ~IsShstrtab(new[j])
    BY <1>0, <1>2, <2>2
  <2>5. at \in 1..Len(new)
    BY <1>0, <1>2, <2>2
  <2>6. IsTableIndex(new, shstrndx')
    BY <2>3, <2>4, <2>5 DEF IsTableIndex
  <2> QED
    BY <1>2, <2>1, <2>6 DEF new
<1> QED
  BY <1>1, <1>2 DEF ShstrtabAt

(* The name table is there when the names are collected.                     *)
LEMMA EnsureShstrtabLaid == IInv /\ IInv' /\ LaidInv /\ EnsureShstrtab => LaidInv'
<1> SUFFICES ASSUME IInv, IInv', LaidInv, EnsureShstrtab PROVE LaidInv'
  OBVIOUS
<1>1. /\ pc = "segments" /\ index > Len(image.segments) /\ index' = 1
      /\ blob' = <<Zero>> /\ UNCHANGED <<image, cursor, out, phdrs, header>>
  BY DEF EnsureShstrtab, layout
<1>2. PICK c, b, named : LaidWith(c, b, named)
  BY <1>1 DEF LaidInv
<1>3. KeepsBytes /\ LaidHeader
  BY <1>1, StepKeepsBytes DEF Next, LaidInv
<1>4. LaidSegments(c) /\ LaidNames(b, named) /\ cursor = c[SegmentsDone + PlacedSections + 1]
  BY <1>2 DEF LaidWith
<1>5. sections = image.sections /\ shstrndx = 0 /\ header = image.header /\ c \in [Nat -> Nat]
  BY <1>1, <1>3, <1>4 DEF LaidNames, LaidHeader, LaidSegments, HeaderFilled, ShdrsWritten
<1>6. PICK e \in [Nat -> Seq(RawByte)] : e[1] = <<Zero>>
  <2> DEFINE e == [i \in Nat |-> <<Zero>>]
  <2>1. <<Zero>> \in Seq(RawByte)
    BY FormatAssumption DEF RawByte, Zero
  <2>2. e \in [Nat -> Seq(RawByte)] /\ e[1] = <<Zero>>
    BY <2>1
  <2> QED
    BY <2>2
<1>7. SegmentsDone = Len(image.segments) /\ PlacedSections = 0
  <2>1. index \in Nat /\ index <= Len(image.segments) + 1 /\ Len(image.segments) \in Nat
    BY <1>1, ImageFacts DEF IInv, TypeOK, LayoutInv, CursorInv
  <2> QED
    BY <1>1, <2>1 DEF SegmentsDone, PlacedSections, SectionsBegun, PhdrsWritten,
                      HeaderFilled, ShdrsWritten
<1>8. CASE sections = <<>> /\ pc' = "phdrs" /\ sections' = sections /\ shstrndx' = shstrndx
  <2>1. /\ SegmentsDone' = SegmentsDone /\ SectionsDone' = 0 /\ PlacedSections' = 0
        /\ SectionsBegun' /\ ~HeaderFilled' /\ ~ShdrsWritten'
    BY <1>1, <1>7, <1>8 DEF SegmentsDone, PlacedSections, SectionsBegun, PhdrsWritten,
                            HeaderFilled, ShdrsWritten, SectionsDone
  <2>2. LaidSegments(c)'
    BY <1>1, <1>3, <1>4, <2>1, LaidSegmentsCarried
  <2>3. WithTable(image.sections) = <<>> /\ IsTableIndex(<<>>, 0)
    BY <1>5, <1>8 DEF WithTable, IsTableIndex
  <2>4. NamesGiven(<<>>, e, <<>>)
    BY <1>6 DEF NamesGiven, Collected
  <2>5. LaidNames(e, <<>>)'
    BY <1>1, <1>5, <1>6, <1>8, <2>3, <2>4 DEF LaidNames
  <2>6. LaidSections(c, <<>>)'
    BY <1>8, <2>1 DEF LaidSections
  <2>7. LaidHeader'
    BY <1>1, <1>5, <1>8, <2>1, <2>3 DEF LaidHeader
  <2>8. (cursor = c[SegmentsDone + PlacedSections + 1])'
    BY <1>1, <1>4, <1>7, <2>1
  <2>9. LaidWith(c, e, <<>>)'
    BY <2>2, <2>5, <2>6, <2>8 DEF LaidWith
  <2> QED
    BY <2>7, <2>9 DEF LaidInv
<1>9. ASSUME sections # <<>>, pc' = "names", NEW at \in 1..(Len(sections) + 1),
             ShstrtabAt(at), shstrndx' = IF at - 1 <= U16Max THEN at - 1 ELSE 0
      PROVE  LaidInv'
  <2>1. /\ SegmentsDone' = SegmentsDone /\ PlacedSections' = 0
        /\ ~SectionsBegun' /\ ~HeaderFilled' /\ ~ShdrsWritten'
    BY <1>1, <1>7, <1>9 DEF SegmentsDone, PlacedSections, SectionsBegun, PhdrsWritten,
                            HeaderFilled, ShdrsWritten
  <2>2. LaidSegments(c)'
    BY <1>1, <1>3, <1>4, <2>1, LaidSegmentsCarried
  <2>3. sections' = WithTable(image.sections) /\ IsTableIndex(sections', shstrndx')
    <3>1. sections \in Seq(Section)
      BY DEF IInv, TypeOK
    <3>2. sections' = WithTable(sections) /\ IsTableIndex(sections', shstrndx')
      BY <1>9, <3>1, TableEnsured
    <3> QED
      BY <1>5, <3>2
  <2>4. LaidNames(e, <<>>)'
    <3>1. Collected(sections', e, 0)
      BY <1>6 DEF Collected
    <3> QED
      BY <1>1, <1>6, <1>9, <2>1, <2>3, <3>1 DEF LaidNames
  <2>5. LaidSections(c, <<>>)'
    BY <2>1 DEF LaidSections
  <2>6. LaidHeader'
    BY <1>1, <1>5, <1>9, <2>1, <2>3 DEF LaidHeader
  <2>7. (cursor = c[SegmentsDone + PlacedSections + 1])'
    BY <1>1, <1>4, <1>7, <2>1
  <2>8. LaidWith(c, e, <<>>)'
    BY <2>2, <2>4, <2>5, <2>7 DEF LaidWith
  <2> QED
    BY <2>6, <2>8 DEF LaidInv
<1> QED
  BY <1>8, <1>9 DEF EnsureShstrtab

(* A name goes behind those collected.                                       *)
LEMMA CollectNameLaid == IInv /\ IInv' /\ LaidInv /\ CollectName => LaidInv'
<1> SUFFICES ASSUME IInv, IInv', LaidInv, CollectName PROVE LaidInv'
  OBVIOUS
<1>1. /\ pc = "names" /\ pc' = "names" /\ index <= Len(sections) /\ index' = index + 1
      /\ offsets' = Append(offsets, Len(blob))
      /\ blob' = Append(blob \o NameBytes[sections[index].name], Zero)
      /\ UNCHANGED <<image, cursor, out, phdrs, sections, shstrndx, header>>
  BY DEF CollectName, layout
<1>2. PICK c, b, named : LaidWith(c, b, named)
  BY <1>1 DEF LaidInv
<1>3. KeepsBytes /\ LaidHeader
  BY <1>1, StepKeepsBytes DEF Next, LaidInv
<1>4. /\ LaidSegments(c) /\ LaidNames(b, named)
      /\ cursor = c[SegmentsDone + PlacedSections + 1]
  BY <1>2 DEF LaidWith
<1>5. /\ SegmentsDone' = SegmentsDone /\ ~SectionsBegun /\ ~SectionsBegun'
      /\ PlacedSections = 0 /\ PlacedSections' = 0
      /\ ~HeaderFilled /\ ~HeaderFilled' /\ ~ShdrsWritten'
  BY <1>1 DEF SegmentsDone, PlacedSections, SectionsBegun, PhdrsWritten, HeaderFilled,
              ShdrsWritten
<1>6. /\ index \in Nat \ {0} /\ blob' \in Seq(RawByte) /\ offsets \in Seq(Nat)
      /\ Len(offsets) = index - 1 /\ Len(blob) \in Nat
  BY <1>1 DEF IInv, TypeOK, LayoutInv, SectionsInv, SectionsKept
<1>7. /\ b \in [Nat -> Seq(RawByte)] /\ named \in Seq(Section)
      /\ sections = WithTable(image.sections)
      /\ Collected(sections, b, index - 1) /\ blob = b[index]
      /\ \A i \in 1..(index - 1) : offsets[i] = Len(b[i])
  BY <1>1, <1>4 DEF LaidNames
<1>8. PICK e \in [Nat -> Seq(RawByte)] :
          e[index + 1] = blob' /\ \A i \in 1..index : e[i] = b[i]
  <2> DEFINE f == [b EXCEPT ![index + 1] = blob']
  <2>1. index + 1 \in Nat
    BY <1>6
  <2>2. /\ f \in [Nat -> Seq(RawByte)] /\ f[index + 1] = blob'
        /\ \A i \in Nat : i # index + 1 => f[i] = b[i]
    BY <1>6, <1>7, <2>1, Reassigned
  <2> HIDE DEF f
  <2>3. \A i \in 1..index : i \in Nat /\ i # index + 1
    BY <1>6
  <2> QED
    BY <2>2, <2>3
<1>9. Collected(sections', e, index' - 1)
  <2>1. e[1] = <<Zero>>
    <3>1. b[1] = <<Zero>>
      BY <1>7 DEF Collected
    <3>2. 1 \in 1..index
      BY <1>6
    <3> QED
      BY <1>8, <3>1, <3>2
  <2>2. ASSUME NEW i \in 1..index
        PROVE  e[i + 1] = Append(e[i] \o NameBytes[sections[i].name], Zero)
    <3>1. CASE i = index
      BY <1>1, <1>7, <1>8, <3>1
    <3>2. CASE i # index
      <4>1. i \in 1..(index - 1) /\ i + 1 \in 1..index
        BY <1>6, <3>2
      <4> QED
        BY <1>7, <1>8, <4>1 DEF Collected
    <3> QED
      BY <3>1, <3>2
  <2>3. index' - 1 = index
    BY <1>1, <1>6
  <2> QED
    BY <1>1, <2>1, <2>2, <2>3 DEF Collected
<1>10. \A i \in 1..(index' - 1) : offsets'[i] = Len(e[i])
  <2>1. /\ offsets'[index] = Len(blob)
        /\ \A i \in 1..(index - 1) : offsets'[i] = offsets[i]
    <3> DEFINE x == Len(blob)
    <3>1. x \in Nat /\ offsets' = Append(offsets, x)
      BY <1>1, <1>6
    <3> HIDE DEF x
    <3>2. /\ Append(offsets, x)[Len(offsets) + 1] = x
          /\ \A i \in 1..Len(offsets) : Append(offsets, x)[i] = offsets[i]
      <4>1. offsets \in Seq(Nat)
        BY <1>6
      <4> QED
        BY <3>1, <4>1, AppendedLast
    <3>3. Len(offsets) + 1 = index
      BY <1>6
    <3> QED
      BY <1>6, <3>1, <3>2, <3>3 DEF x
  <2>2. ASSUME NEW i \in 1..index PROVE offsets'[i] = Len(e[i])
    <3>1. CASE i = index
      BY <1>7, <1>8, <2>1, <3>1
    <3>2. CASE i # index
      <4>1. i \in 1..(index - 1)
        BY <1>6, <3>2
      <4> QED
        BY <1>7, <1>8, <2>1, <4>1
    <3> QED
      BY <3>1, <3>2
  <2>3. index' - 1 = index
    BY <1>1, <1>6
  <2> QED
    BY <2>2, <2>3
<1>11. LaidNames(e, named)'
  BY <1>1, <1>5, <1>7, <1>8, <1>9, <1>10 DEF LaidNames
<1>12. LaidSegments(c)' /\ LaidSections(c, named)' /\ LaidHeader'
  <2>1. LaidSegments(c)'
    BY <1>1, <1>3, <1>4, <1>5, LaidSegmentsCarried
  <2> QED
    BY <1>1, <1>3, <1>5, <2>1 DEF LaidSections, LaidHeader
<1>13. LaidWith(c, e, named)'
  BY <1>1, <1>4, <1>5, <1>11, <1>12 DEF LaidWith
<1> QED
  BY <1>12, <1>13 DEF LaidInv

(* Each section gets the offset of its name, the table all of the names.     *)
LEMMA AssignNamesLaid == IInv /\ IInv' /\ LaidInv /\ AssignNames => LaidInv'
<1> SUFFICES ASSUME IInv, IInv', LaidInv, AssignNames PROVE LaidInv'
  OBVIOUS
<1>1. /\ pc = "names" /\ pc' = "sections" /\ index > Len(sections) /\ index' = 1
      /\ sections' = [i \in 1..Len(sections) |-> Named(sections[i], offsets[i])]
      /\ UNCHANGED <<image, cursor, out, phdrs, shstrndx, header>>
  BY DEF AssignNames, layout
<1>2. PICK c, b, named : LaidWith(c, b, named)
  BY <1>1 DEF LaidInv
<1>3. KeepsBytes /\ LaidHeader
  BY <1>1, StepKeepsBytes DEF Next, LaidInv
<1>4. /\ LaidSegments(c) /\ LaidNames(b, named)
      /\ cursor = c[SegmentsDone + PlacedSections + 1]
  BY <1>2 DEF LaidWith
<1>5. /\ SegmentsDone' = SegmentsDone /\ ~SectionsBegun /\ SectionsBegun'
      /\ SectionsDone' = 0 /\ PlacedSections = 0 /\ PlacedSections' = 0
      /\ ~HeaderFilled /\ ~HeaderFilled' /\ ~ShdrsWritten'
  BY <1>1 DEF SegmentsDone, PlacedSections, SectionsBegun, PhdrsWritten, HeaderFilled,
              ShdrsWritten, SectionsDone
<1>6. index - 1 = Len(sections) /\ index = Len(sections) + 1 /\ Len(sections) \in Nat
  BY <1>1 DEF IInv, TypeOK, LayoutInv, SectionsInv, SectionsKept
<1>7. /\ b \in [Nat -> Seq(RawByte)]
      /\ sections = WithTable(image.sections)
      /\ Collected(sections, b, Len(sections)) /\ blob = b[Len(sections) + 1]
      /\ \A i \in 1..Len(sections) : offsets[i] = Len(b[i])
  BY <1>1, <1>4, <1>6 DEF LaidNames
<1>8. sections' \in Seq(Section)
  BY DEF IInv, TypeOK
<1>9. PICK new : new = sections'
  OBVIOUS
<1>10. Len(new) = Len(sections)
  <2>1. new \in Seq(Section) /\ DOMAIN new = 1..Len(sections)
    BY <1>1, <1>8, <1>9
  <2> QED
    BY <1>6, <2>1
<1>11. NamesGiven(sections, b, new)
  <2>1. ASSUME NEW i \in 1..Len(sections)
        PROVE  new[i] = NamedWith(sections[i], Len(b[i]), b[Len(sections) + 1])
    <3>1. new[i] = Named(sections[i], offsets[i])
      BY <1>1, <1>9
    <3> QED
      BY <1>7, <3>1 DEF Named, NamedWith
  <2> QED
    BY <1>7, <1>10, <2>1 DEF NamesGiven
<1>12. LaidNames(b, new)'
  BY <1>1, <1>7, <1>8, <1>9, <1>11 DEF LaidNames
<1>13. LaidSegments(c)'
  BY <1>1, <1>3, <1>4, <1>5, LaidSegmentsCarried
<1>14. LaidSections(c, new)'
  BY <1>5, <1>9 DEF LaidSections
<1>15. LaidHeader'
  BY <1>1, <1>3, <1>5 DEF LaidHeader
<1>16. LaidWith(c, b, new)'
  BY <1>1, <1>4, <1>5, <1>12, <1>13, <1>14 DEF LaidWith
<1> QED
  BY <1>15, <1>16 DEF LaidInv

(* One more section laid.                                                    *)
LEMMA SectionAdded ==
    ASSUME IInv, IInv', KeepsBytes, LaidHeader, NEW c, NEW b, NEW named,
           LaidWith(c, b, named), pc = "sections", pc' = "sections",
           index \in 1..Len(sections), index' = index + 1,
           UNCHANGED <<image, phdrs, shstrndx, header>>,
           Len(sections') = Len(sections),
           \A i \in 1..Len(sections) : i # index => sections'[i] = sections[i],
           SectionLaid(out', sections[index], sections'[index], cursor, cursor')
    PROVE  LaidInv'
<1> DEFINE n == Len(phdrs)
<1>0. /\ index \in Nat \ {0} /\ cursor' \in Nat /\ Len(out') \in Nat /\ n \in Nat
      /\ Len(phdrs) = Len(image.segments) /\ TablesEnd \in Nat /\ Len(sections) \in Nat
  BY ImageFacts DEF IInv, TypeOK
<1>1. index <= Len(sections) /\ index \in Nat /\ index - 1 \in Nat
  BY <1>0
<1>2. /\ SectionsDone = index - 1 /\ SectionsDone' = index
      /\ SegmentsDone = n /\ SegmentsDone' = n
      /\ SectionsBegun /\ SectionsBegun'
      /\ ~HeaderFilled' /\ ~ShdrsWritten' /\ ~HeaderFilled
  BY <1>0 DEF SegmentsDone, SectionsBegun, PhdrsWritten, HeaderFilled, ShdrsWritten,
              SectionsDone
<1>3. PlacedSections = index - 1 /\ PlacedSections' = index
  BY <1>2 DEF PlacedSections
<1>4. /\ LaidSegments(c) /\ LaidNames(b, named) /\ LaidSections(c, named)
      /\ cursor = c[SegmentsDone + PlacedSections + 1] /\ c \in [Nat -> Nat]
  BY DEF LaidWith, LaidSegments
<1> HIDE DEF n
<1>5. cursor = c[n + index]
  <2>1. SegmentsDone + PlacedSections + 1 = n + index
    BY <1>0, <1>1, <1>2, <1>3
  <2> QED
    BY <1>4, <2>1
<1>6. PICK d \in [Nat -> Nat] :
          d[n + index + 1] = cursor' /\ \A i \in 1..(n + index) : d[i] = c[i]
  <2> DEFINE e == [c EXCEPT ![n + index + 1] = cursor']
  <2>1. n + index + 1 \in Nat
    BY <1>0, <1>1
  <2>2. /\ e \in [Nat -> Nat] /\ e[n + index + 1] = cursor'
        /\ \A i \in Nat : i # n + index + 1 => e[i] = c[i]
    BY <1>0, <1>4, <2>1, Reassigned
  <2> HIDE DEF e
  <2>3. \A i \in 1..(n + index) : i \in Nat /\ i # n + index + 1
    BY <1>0, <1>1
  <2> QED
    BY <2>2, <2>3
<1>7. LaidSegments(d)'
  <2>1. \A i \in 1..(SegmentsDone + 1) : d[i] = c[i]
    <3>1. \A i \in 1..(SegmentsDone + 1) : i \in 1..(n + index)
      BY <1>0, <1>1, <1>2
    <3> QED
      BY <1>6, <3>1
  <2>2. /\ d[1] = TablesEnd
        /\ \A i \in 1..SegmentsDone :
               /\ TablesEnd <= d[i]
               /\ SegmentLaid(out', image.segments[i], phdrs[i], d[i], d[i + 1])
    BY <1>0, <1>4, <2>1, LaidSegmentsStay
  <2>3. \A i \in (SegmentsDone + 1)..Len(phdrs) : phdrs[i] = image.segments[i].header
    BY <1>4 DEF LaidSegments
  <2>4. TablesEnd' = TablesEnd
    BY DEF TablesEnd
  <2>5. SegmentsDone' = SegmentsDone
    BY <1>2
  <2> QED
    BY <2>2, <2>3, <2>4, <2>5 DEF LaidSegments
<1>8. \A i \in 1..(index - 1) :
          /\ TablesEnd <= d[n + i]
          /\ SectionLaid(out', named[i], sections[i], d[n + i], d[n + i + 1])
  <2>1. \A i \in 1..(Len(phdrs) + SectionsDone + 1) : d[i] = c[i]
    <3>1. Len(phdrs) + SectionsDone + 1 = n + index
      BY <1>0, <1>1, <1>2 DEF n
    <3> QED
      BY <1>6, <3>1
  <2>2. \A i \in 1..SectionsDone :
            /\ TablesEnd <= d[Len(phdrs) + i]
            /\ SectionLaid(out', named[i], sections[i], d[Len(phdrs) + i],
                           d[Len(phdrs) + i + 1])
    BY <1>0, <1>2, <1>4, <2>1, LaidSectionsStay
  <2> QED
    BY <1>2, <2>2 DEF n
<1>9. TablesEnd' = TablesEnd /\ TablesEnd <= cursor
  BY DEF TablesEnd, IInv, LayoutInv, CursorInv
<1>10. \A i \in index..Len(sections) : sections[i] = named[i]
  <2>1. (SectionsDone + 1) = index
    BY <1>1, <1>2
  <2> QED
    BY <1>2, <1>4, <2>1 DEF LaidSections
<1>11. ASSUME NEW i \in 1..index
       PROVE  /\ TablesEnd <= d[n + i]
              /\ SectionLaid(out', named[i], sections'[i], d[n + i], d[n + i + 1])
  <2>1. CASE i = index
    <3>1. d[n + index] = cursor
      <4>1. n + index \in 1..(n + index)
        BY <1>0, <1>1
      <4> QED
        BY <1>5, <1>6, <4>1
    <3>2. named[index] = sections[index]
      <4>1. index \in index..Len(sections)
        BY <1>0, <1>1
      <4> QED
        BY <1>10, <4>1
    <3> QED
      BY <1>6, <1>9, <2>1, <3>1, <3>2
  <2>2. CASE i # index
    <3>1. i \in 1..(index - 1)
      BY <1>1, <2>2
    <3>2. i \in 1..Len(sections)
      BY <1>0, <1>1, <3>1
    <3> QED
      BY <1>8, <2>2, <3>1, <3>2
  <2> QED
    BY <2>1, <2>2
<1>12. ASSUME NEW i \in (index + 1)..Len(sections) PROVE sections'[i] = named[i]
  <2>1. i \in index..Len(sections) /\ i \in 1..Len(sections) /\ i # index
    BY <1>0, <1>1
  <2> QED
    BY <1>10, <2>1
<1>13. LaidSections(d, named)'
  <2>1. Len(phdrs)' = n
    BY DEF n
  <2> QED
    BY <1>2, <1>9, <1>11, <1>12, <2>1 DEF LaidSections
<1>14. LaidNames(b, named)' /\ LaidHeader'
  BY <1>2, <1>4 DEF LaidNames, LaidHeader
<1>15. (cursor = d[SegmentsDone + PlacedSections + 1])'
  <2>1. SegmentsDone' + PlacedSections' + 1 = n + index + 1
    BY <1>0, <1>1, <1>2, <1>3
  <2> QED
    BY <1>6, <2>1
<1>16. LaidWith(d, b, named)'
  BY <1>7, <1>13, <1>14, <1>15 DEF LaidWith
<1> QED
  BY <1>14, <1>16 DEF LaidInv

(* A section without bytes takes no room.                                    *)
LEMMA SkipSectionLaid == IInv /\ IInv' /\ LaidInv /\ SkipSection => LaidInv'
<1> SUFFICES ASSUME IInv, IInv', LaidInv, SkipSection PROVE LaidInv'
  OBVIOUS
<1>1. /\ pc = "sections" /\ pc' = "sections" /\ index' = index + 1
      /\ UNCHANGED <<image, out, cursor, phdrs, shstrndx, header>>
  BY DEF SkipSection, layout
<1>2. index \in 1..Len(sections) /\ sections \in Seq(Section)
  BY DEF SkipSection, IInv, TypeOK
<1>3. PICK c, b, named : LaidWith(c, b, named)
  BY <1>1 DEF LaidInv
<1>4. KeepsBytes /\ LaidHeader
  BY <1>1, StepKeepsBytes DEF Next, LaidInv
<1>5. CASE IsNobits(sections[index]) /\ sections' = sections
  <2>1. SectionLaid(out', sections[index], sections'[index], cursor, cursor')
    BY <1>1, <1>5 DEF SectionLaid
  <2> QED
    BY <1>1, <1>2, <1>3, <1>4, <1>5, <2>1, SectionAdded
<1>6. CASE /\ ~IsNobits(sections[index]) /\ sections[index].data = <<>>
           /\ sections' = [sections EXCEPT ![index] =
                              SectionAt(sections[index], sections[index].header.offset)]
  <2> DEFINE new == SectionAt(sections[index], sections[index].header.offset)
  <2>1. /\ sections'[index] = new
        /\ \A i \in 1..Len(sections) : i # index => sections'[i] = sections[i]
    <3> HIDE DEF new
    <3> QED
      BY <1>2, <1>6, ReplacedAt DEF new
  <2>2. SectionLaid(out', sections[index], sections'[index], cursor, cursor')
    BY <1>1, <1>6, <2>1 DEF SectionLaid
  <2>3. Len(sections') = Len(sections)
    BY <1>2, <1>6
  <2> QED
    BY <1>1, <1>2, <1>3, <1>4, <2>1, <2>2, <2>3, SectionAdded
<1> QED
  BY <1>5, <1>6 DEF SkipSection

(* One with bytes takes what the cursor gives it.                            *)
LEMMA PlaceSectionLaid == IInv /\ IInv' /\ LaidInv /\ PlaceSection => LaidInv'
<1> SUFFICES ASSUME IInv, IInv', LaidInv, PlaceSection PROVE LaidInv'
  OBVIOUS
<1> DEFINE section == sections[index]
           offset  == SectionOffset(cursor, section)
           new     == SectionAt(section, offset)
<1>1. CASE Fail
  BY <1>1 DEF Fail, LaidInv
<1>2. CASE ~Fail
  <2>1. /\ section \in Section /\ ~IsNobits(section) /\ section.data # <<>>
        /\ offset \in U64 /\ cursor <= offset
        /\ out' = WriteAt(out, offset, section.data)
        /\ cursor' = offset + Len(section.data)
        /\ index \in 1..Len(sections)
        /\ sections' = [sections EXCEPT ![index] = new]
    BY <1>2, SectionWritten DEF SectionOffset
  <2>2. /\ pc = "sections" /\ pc' = "sections" /\ index' = index + 1
        /\ UNCHANGED <<image, phdrs, shstrndx, header>>
    BY <1>2 DEF PlaceSection
  <2>3. PICK c, b, named : LaidWith(c, b, named)
    BY <2>2 DEF LaidInv
  <2>4. KeepsBytes /\ LaidHeader
    BY <2>2, StepKeepsBytes DEF Next, LaidInv
  <2>5. Len(out) <= cursor /\ offset \in Nat /\ section.data \in Seq(Byte)
    BY <2>1, <2>2, U64Nat, SectionFacts DEF IInv, LayoutInv, CursorInv
  <2>6. sections \in Seq(Section)
    BY DEF IInv, TypeOK
  <2> HIDE DEF offset
  <2>7. Laid(out', cursor, offset, section.data, cursor')
    BY <2>1, <2>5, WriteLays
  <2> HIDE DEF new
  <2>8. /\ sections'[index] = new
        /\ \A i \in 1..Len(sections) : i # index => sections'[i] = sections[i]
    BY <2>1, <2>6, ReplacedAt
  <2>9. SectionLaid(out', section, sections'[index], cursor, cursor')
    BY <2>1, <2>7, <2>8 DEF SectionLaid, offset, new
  <2>10. Len(sections') = Len(sections)
    BY <2>1, <2>6
  <2> QED
    BY <2>1, <2>2, <2>3, <2>4, <2>8, <2>9, <2>10, SectionAdded
<1> QED
  BY <1>1, <1>2

(* The steps after the last section leave segments and sections alone.       *)
LEMMA LaidCarried ==
    ASSUME IInv, IInv', KeepsBytes, NEW c, NEW b, NEW named, LaidWith(c, b, named),
           UNCHANGED <<image, cursor, phdrs, sections>>,
           pc \in {"sections", "phdrs", "header", "shdrs", "ehdr"},
           pc' \in {"phdrs", "header", "shdrs", "ehdr", "done"},
           pc = "sections" => index > Len(sections)
    PROVE  LaidWith(c, b, named)'
<1>1. /\ SegmentsDone' = SegmentsDone /\ SectionsBegun /\ SectionsBegun'
  BY DEF SegmentsDone, SectionsBegun, PhdrsWritten, HeaderFilled, ShdrsWritten
<1>2. SectionsDone' = SectionsDone
  <2>1. pc = "sections" => index - 1 = Len(sections)
    <3>1. pc = "sections" => index <= Len(sections) + 1
      BY DEF IInv, LayoutInv, CursorInv
    <3>2. index \in Nat /\ Len(sections) \in Nat
      BY DEF IInv, TypeOK
    <3> QED
      BY <3>1, <3>2
  <2> QED
    BY <2>1 DEF SectionsDone
<1>3. /\ LaidSegments(c) /\ LaidNames(b, named) /\ LaidSections(c, named)
      /\ cursor = c[SegmentsDone + PlacedSections + 1] /\ c \in [Nat -> Nat]
  BY DEF LaidWith, LaidSegments
<1>4. LaidSegments(c)'
  BY <1>1, <1>3, LaidSegmentsCarried
<1>5. LaidSections(c, named)'
  BY <1>1, <1>2, <1>3, LaidSectionsCarried
<1>6. LaidNames(b, named)'
  BY <1>1, <1>3 DEF LaidNames
<1>7. PlacedSections' = PlacedSections
  BY <1>1, <1>2 DEF PlacedSections
<1> QED
  BY <1>1, <1>3, <1>4, <1>5, <1>6, <1>7 DEF LaidWith

(* What a call with sections has at its end.                                 *)
LEMMA TablePastCursor ==
    ASSUME IInv, pc = "shdrs"
    PROVE  /\ cursor \in Nat /\ Len(out) = cursor /\ TablesEnd <= cursor
           /\ TablesEnd \in Nat
<1>1. Len(out) <= cursor /\ TablesEnd <= cursor
  BY DEF IInv, LayoutInv, CursorInv
<1>2. PhdrsWritten
  BY DEF PhdrsWritten, HeaderFilled
<1>3. cursor \in Nat /\ cursor <= Len(out)
  BY <1>2, CursorInFile
<1>4. Len(out) \in Nat /\ TablesEnd \in Nat
  BY ImageFacts DEF IInv, TypeOK
<1> QED
  BY <1>1, <1>3, <1>4

(* The headers are written where no segment and no section is.               *)
LEMMA TailLaid ==
    ASSUME IInv, IInv', LaidInv, [Next]_vars, UNCHANGED <<image, cursor, phdrs, sections>>,
           pc \in {"sections", "phdrs", "header", "shdrs", "ehdr"},
           pc' \in {"phdrs", "header", "shdrs", "ehdr", "done"},
           pc = "sections" => index > Len(sections), LaidHeader => LaidHeader'
    PROVE  LaidInv'
<1>1. KeepsBytes /\ LaidHeader
  BY StepKeepsBytes DEF LaidInv
<1>2. PICK c, b, named : LaidWith(c, b, named)
  BY DEF LaidInv
<1>3. LaidWith(c, b, named)'
  BY <1>1, <1>2, LaidCarried
<1> QED
  BY <1>1, <1>3 DEF LaidInv

(* So every step lays the file.                                              *)
LEMMA StepLaid == IInv /\ LaidInv /\ [Next]_vars => LaidInv'
<1> SUFFICES ASSUME IInv, LaidInv, [Next]_vars PROVE LaidInv'
  OBVIOUS
<1>0. IInv'
  BY StepInv
<1>1. CASE SkipSegment
  BY <1>0, <1>1, SkipSegmentLaid
<1>2. CASE PlaceSegment
  BY <1>0, <1>2, PlaceSegmentLaid
<1>3. CASE EnsureShstrtab
  BY <1>0, <1>3, EnsureShstrtabLaid
<1>4. CASE CollectName
  BY <1>0, <1>4, CollectNameLaid
<1>5. CASE AssignNames
  BY <1>0, <1>5, AssignNamesLaid
<1>6. CASE SkipSection
  BY <1>0, <1>6, SkipSectionLaid
<1>7. CASE PlaceSection
  BY <1>0, <1>7, PlaceSectionLaid
<1>8. ASSUME Fail PROVE LaidInv'
  BY <1>8 DEF Fail, LaidInv
<1>9. CASE SectionsPlaced
  <2>1. /\ pc = "sections" /\ pc' = "phdrs" /\ index > Len(sections)
        /\ UNCHANGED <<image, cursor, out, phdrs, sections, shstrndx, header>>
    BY <1>9 DEF SectionsPlaced, layout
  <2>2. LaidHeader => LaidHeader'
    BY <2>1 DEF LaidHeader, HeaderFilled, ShdrsWritten
  <2> QED
    BY <1>0, <2>1, <2>2, TailLaid
<1>10. CASE WriteProgramHeaders /\ ~Fail
  <2>1. /\ pc = "phdrs" /\ pc' = "header"
        /\ UNCHANGED <<image, cursor, phdrs, sections, shstrndx, header>>
    BY <1>10 DEF WriteProgramHeaders
  <2>2. LaidHeader => LaidHeader'
    BY <2>1 DEF LaidHeader, HeaderFilled, ShdrsWritten
  <2> QED
    BY <1>0, <2>1, <2>2, TailLaid
<1>11. CASE FillHeader /\ ~Fail
  <2>1. /\ pc = "header" /\ pc' = "shdrs" /\ header' = Filled
        /\ UNCHANGED <<image, cursor, phdrs, sections, shstrndx>>
    BY <1>11 DEF FillHeader, layout
  <2>2. LaidHeader => LaidHeader'
    <3>1. SUFFICES ASSUME LaidHeader PROVE LaidHeader'
      OBVIOUS
    <3>2. header = image.header /\ IsTableIndex(WithTable(image.sections), shstrndx)
      BY <2>1, <3>1 DEF LaidHeader, HeaderFilled, ShdrsWritten
    <3>3. header' = FilledWith(image.header, phdrs, sections, shstrndx, cursor)
      BY <2>1, <3>2 DEF Filled, FilledWith, ShdrTableOffset
    <3> QED
      BY <2>1, <3>2, <3>3 DEF LaidHeader, HeaderFilled, ShdrsWritten
  <2> QED
    BY <1>0, <2>1, <2>2, TailLaid
<1>12. CASE WriteSectionHeaders /\ ~Fail
  <2>1. /\ pc = "shdrs" /\ pc' = "ehdr"
        /\ UNCHANGED <<image, cursor, phdrs, sections, shstrndx, header>>
    BY <1>12 DEF WriteSectionHeaders, layout
  <2>2. /\ cursor \in Nat /\ Len(out) = cursor /\ TablesEnd <= cursor
    BY <2>1, TablePastCursor
  <2>3. TableLaid(out', sections, header, cursor)
    <3>1. CASE sections = <<>>
      <4>1. out' = out
        BY <1>12, <3>1 DEF WriteSectionHeaders, layout
      <4> QED
        BY <2>2, <3>1, <4>1 DEF TableLaid
    <3>2. CASE sections # <<>>
      <4> DEFINE table == EncodedTable(SectionHeaders, ShEntSize)
                 at    == ShdrTableOffset
      <4>1. /\ table \in Seq(Byte) /\ at \in Nat /\ Len(out) <= at
            /\ out' = WriteAt(out, at, table)
        BY <1>12, <3>2, ShdrsWrittenAt
      <4>2. header.shoff = at
        BY <2>1, <3>2 DEF IInv, LayoutInv, TablesInv, HeaderFilled
      <4> HIDE DEF table, at
      <4>3. cursor <= at /\ Len(out) <= cursor
        BY <2>2, <4>1
      <4>4. Laid(out', cursor, at, table, at + Len(table)) /\ Len(out') = at + Len(table)
        BY <1>0, <4>1, <4>3, WriteLays
      <4>5. Laid(out', cursor, at, table, Len(out'))
        BY <4>4
      <4>6. table = EncodedTable(HeadersOf(sections), ShEntSize)
        BY DEF table, SectionHeaders, HeadersOf
      <4> QED
        BY <3>2, <4>2, <4>5, <4>6 DEF TableLaid
    <3> QED
      BY <3>1, <3>2
  <2>4. TablesEnd' = TablesEnd
    BY <2>1 DEF TablesEnd
  <2>5. LaidHeader => LaidHeader'
    BY <2>1, <2>2, <2>3, <2>4 DEF LaidHeader, HeaderFilled, ShdrsWritten
  <2> QED
    BY <1>0, <2>1, <2>5, TailLaid
<1>13. CASE WriteHeader
  <2>1. /\ pc = "ehdr" /\ pc' = "done"
        /\ UNCHANGED <<image, cursor, phdrs, sections, shstrndx, header>>
        /\ out' = WriteAt(out, 0, Encoded(header, EhSize))
    BY <1>13 DEF WriteHeader
  <2>2. LaidHeader => LaidHeader'
    <3>1. SUFFICES ASSUME LaidHeader PROVE LaidHeader'
      OBVIOUS
    <3>2. TablesEnd <= cursor /\ TableLaid(out, sections, header, cursor)
      BY <2>1, <3>1 DEF LaidHeader, ShdrsWritten
    <3>3. Len(out') = Len(out)
      <4> DEFINE bytes == Encoded(header, EhSize)
      <4>1. bytes \in Seq(Byte) /\ Len(bytes) = EhSize /\ out \in Seq(Byte)
        BY EncodedBytes, FormatAssumption DEF IInv, TypeOK
      <4> HIDE DEF bytes
      <4>2. Len(out') = Maximum(Len(out), 0 + Len(bytes))
        BY <2>1, <4>1, WriteAtFile DEF bytes
      <4>3. EhSize <= Len(out)
        BY DEF IInv, LayoutInv, CursorInv
      <4> QED
        BY <4>1, <4>2, <4>3, FormatAssumption DEF Maximum
    <3>4. TableLaid(out', sections, header, cursor)
      <4>1. CASE sections = <<>>
        BY <3>2, <3>3, <4>1 DEF TableLaid
      <4>2. CASE sections # <<>>
        <5> DEFINE table == EncodedTable(HeadersOf(sections), ShEntSize)
        <5>1. Laid(out, cursor, header.shoff, table, Len(out))
          BY <3>2, <4>2 DEF TableLaid
        <5>2. /\ table \in Seq(Byte) /\ Len(table) = ShEntSize * Len(sections)
              /\ Len(sections) \in Nat \ {0}
          <6>1. SectionHeaders \in Seq(Shdr) /\ Len(SectionHeaders) = Len(sections)
            BY SectionHeadersType DEF IInv
          <6>2. HeadersOf(sections) = SectionHeaders
            BY DEF HeadersOf, SectionHeaders
          <6>3. sections \in Seq(Section)
            BY DEF IInv, TypeOK
          <6>4. Len(sections) \in Nat \ {0}
            BY <4>2, <6>3
          <6> QED
            BY <6>1, <6>2, <6>4, EncodedTableBytes, FormatAssumption
        <5>3. table # <<>>
          <6>1. ShEntSize * Len(sections) # 0
            BY <5>2, FormatAssumption, SMTT(30)
          <6> QED
            BY <5>2, <6>1
        <5>4. cursor \in Nat /\ Len(out') \in Nat /\ TypeOK
          BY <1>0 DEF IInv, TypeOK
        <5>5. header.shoff \in Nat
          <6>1. header \in ElfHeader
            BY DEF IInv, TypeOK
          <6> QED
            BY <6>1, U64Nat DEF ElfHeader
        <5> HIDE DEF table
        <5>6. Laid(out', cursor, header.shoff, table, Len(out))
          BY <3>2, <5>1, <5>2, <5>3, <5>4, <5>5, StepKeepsBytes, LaidStays
        <5> QED
          BY <3>3, <4>2, <5>6 DEF TableLaid, table
      <4> QED
        BY <4>1, <4>2
    <3>5. TablesEnd' = TablesEnd
      BY <2>1 DEF TablesEnd
    <3> QED
      BY <2>1, <3>1, <3>2, <3>4, <3>5 DEF LaidHeader, HeaderFilled, ShdrsWritten
  <2> QED
    BY <1>0, <2>1, <2>2, TailLaid
<1>14. CASE Returned \/ UNCHANGED vars
  <2>1. UNCHANGED vars
    BY <1>14 DEF Returned
  <2>2. UNCHANGED <<image, pc, index, cursor, out, phdrs, sections, shstrndx, blob, offsets, header>>
    BY <2>1 DEF vars, layout, names
  <2>3. /\ SegmentsDone' = SegmentsDone /\ SectionsDone' = SectionsDone
        /\ PlacedSections' = PlacedSections /\ TablesEnd' = TablesEnd
        /\ SectionsBegun' = SectionsBegun /\ HeaderFilled' = HeaderFilled
        /\ ShdrsWritten' = ShdrsWritten
    BY <2>2 DEF SegmentsDone, SectionsDone, PlacedSections, SectionsBegun, PhdrsWritten,
                HeaderFilled, ShdrsWritten, TablesEnd
  <2>4. LaidHeader => LaidHeader'
    BY <2>2, <2>3 DEF LaidHeader
  <2>5. ASSUME NEW c, NEW b, NEW named, LaidWith(c, b, named) PROVE LaidWith(c, b, named)'
    <3>1. LaidSegments(c)'
      BY <2>2, <2>3, <2>5 DEF LaidWith, LaidSegments
    <3>2. LaidNames(b, named)'
      BY <2>2, <2>3, <2>5 DEF LaidWith, LaidNames
    <3>3. LaidSections(c, named)'
      BY <2>2, <2>3, <2>5 DEF LaidWith, LaidSections
    <3> QED
      BY <2>2, <2>3, <2>5, <3>1, <3>2, <3>3 DEF LaidWith
  <2> QED
    BY <2>2, <2>4, <2>5 DEF LaidInv
<1>15. CASE Next
  BY <1>1, <1>2, <1>3, <1>4, <1>5, <1>6, <1>7, <1>8, <1>9, <1>10, <1>11, <1>12, <1>13,
     <1>14, <1>15 DEF Next
<1> QED
  BY <1>14, <1>15

(* The file of a finished call is the one made of its image.                 *)
LEMMA BuiltAtEnd ==
    ASSUME IInv, LaidInv, pc = "done"
    PROVE  BuiltFrom(image, out, phdrs, sections, header)
<1>1. /\ phdrs \in Seq(Phdr) /\ Len(phdrs) = Len(image.segments)
      /\ sections \in Seq(Section) /\ header \in ElfHeader /\ out \in Seq(Byte)
      /\ Len(phdrs) \in Nat /\ Len(sections) \in Nat
  BY ImageFacts DEF IInv, TypeOK
<1>2. /\ ShdrsWritten /\ HeaderFilled /\ PhdrsWritten /\ SectionsBegun
      /\ SegmentsDone = Len(phdrs) /\ SectionsDone = Len(sections)
  BY <1>1 DEF ShdrsWritten, HeaderFilled, PhdrsWritten, SectionsBegun, SegmentsDone,
              SectionsDone
<1>3. PlacedSections = Len(sections)
  BY <1>2 DEF PlacedSections
<1>4. PICK c, b, named : LaidWith(c, b, named)
  BY DEF LaidInv
<1>5. LaidHeader
  BY DEF LaidInv
<1>6. /\ LaidSegments(c) /\ LaidNames(b, named) /\ LaidSections(c, named)
      /\ cursor = c[Len(phdrs) + Len(sections) + 1]
  BY <1>2, <1>3, <1>4 DEF LaidWith
<1>7. /\ NamesGiven(WithTable(image.sections), b, named) /\ Len(sections) = Len(named)
      /\ b \in [Nat -> Seq(RawByte)] /\ named \in Seq(Section)
  BY <1>2, <1>6 DEF LaidNames
<1>8. SegmentsLaid(out, image, phdrs, c)
  BY <1>1, <1>2, <1>6 DEF LaidSegments, SegmentsLaid, TablesEnd
<1>9. SectionsLaid(out, image, named, sections, c)
  BY <1>1, <1>2, <1>6, <1>7 DEF LaidSections, SectionsLaid
<1>10. cursor = EndOf(image, named, c)
  BY <1>1, <1>6, <1>7 DEF EndOf
<1>11. /\ IsTableIndex(WithTable(image.sections), shstrndx)
       /\ header = FilledWith(image.header, phdrs, sections, shstrndx, cursor)
       /\ TableLaid(out, sections, header, cursor)
  BY <1>2, <1>5 DEF LaidHeader
<1>12. /\ HoldsAt(out, EhSize, EncodedTable(phdrs, PhEntSize))
       /\ HoldsAt(out, 0, Encoded(header, EhSize))
  BY <1>2 DEF IInv, LayoutInv, TablesInv
<1>13. BuiltWith(image, out, phdrs, sections, header, c, b, named)
  BY <1>7, <1>8, <1>9, <1>10, <1>11, <1>12 DEF BuiltWith
<1> QED
  BY <1>1, <1>13 DEF BuiltFrom

-----------------------------------------------------------------------------
(* There is one such file.                                                   *)

AgreeBetween(f, g, from, to) == \A p \in (from + 1)..to : f[p] = g[p]

(* Two files with the same bytes laid from the same cursor agree so far.     *)
LEMMA LaidAlike ==
    ASSUME NEW f, NEW g, NEW c \in Nat, NEW offset \in Nat, NEW bytes \in Seq(Byte),
           NEW next, NEW after, Laid(f, c, offset, bytes, next),
           Laid(g, c, offset, bytes, after)
    PROVE  /\ next \in Nat /\ next = after /\ c <= next
           /\ AgreeBetween(f, g, c, next)
<1>1. /\ c <= offset /\ next = offset + Len(bytes) /\ after = next /\ Len(bytes) \in Nat
      /\ \A k \in 1..Len(bytes) : f[offset + k] = bytes[k] /\ g[offset + k] = bytes[k]
      /\ \A p \in (c + 1)..offset : f[p] = Zero /\ g[p] = Zero
  BY DEF Laid, HoldsAt, ZerosBetween
<1>2. ASSUME NEW p \in (c + 1)..next PROVE f[p] = g[p]
  <2>1. CASE p <= offset
    <3>1. p \in (c + 1)..offset
      BY <1>1, <2>1
    <3> QED
      BY <1>1, <3>1
  <2>2. CASE offset < p
    <3>1. p - offset \in 1..Len(bytes) /\ p = offset + (p - offset)
      BY <1>1, <2>2
    <3> QED
      BY <1>1, <3>1
  <2> QED
    BY <1>1, <2>1, <2>2
<1> QED
  BY <1>1, <1>2 DEF AgreeBetween

(* A segment of an image goes to one place.                                  *)
LEMMA SegmentAlike ==
    ASSUME NEW f, NEW g, NEW segment \in Segment, NEW c \in Nat, NEW ph, NEW qh,
           NEW next, NEW after, SegmentLaid(f, segment, ph, c, next),
           SegmentLaid(g, segment, qh, c, after)
    PROVE  /\ next \in Nat /\ next = after /\ c <= next /\ ph = qh
           /\ AgreeBetween(f, g, c, next)
<1>1. CASE Writable(segment) = 0
  BY <1>1 DEF SegmentLaid, AgreeBetween
<1>2. CASE Writable(segment) # 0
  <2> DEFINE offset == SegmentOffset(c, segment)
             bytes  == SegmentBytes(segment)
  <2>1. offset \in Nat /\ bytes \in Seq(Byte)
    BY SegmentBytesFacts, SegmentOffsetFacts
  <2>2. /\ ph = qh
        /\ Laid(f, c, offset, bytes, next) /\ Laid(g, c, offset, bytes, after)
    BY <1>2 DEF SegmentLaid
  <2> HIDE DEF offset, bytes
  <2> QED
    BY <2>1, <2>2, LaidAlike
<1> QED
  BY <1>1, <1>2

(* A section does, too.                                                      *)
LEMMA SectionAlike ==
    ASSUME NEW f, NEW g, NEW was \in Section, NEW c \in Nat, NEW is, NEW js,
           NEW next, NEW after, SectionLaid(f, was, is, c, next),
           SectionLaid(g, was, js, c, after)
    PROVE  /\ next \in Nat /\ next = after /\ c <= next /\ is = js
           /\ AgreeBetween(f, g, c, next)
<1>1. CASE IsNobits(was) \/ was.data = <<>>
  <2>1. next = c /\ after = c /\ is = js
    BY <1>1 DEF SectionLaid
  <2> QED
    BY <2>1 DEF AgreeBetween
<1>2. CASE ~IsNobits(was) /\ was.data # <<>>
  <2> DEFINE offset == SectionOffset(c, was)
  <2>1. offset \in Nat /\ was.data \in Seq(Byte)
    BY SectionFacts, SectionOffsetFacts
  <2>2. /\ is = js
        /\ Laid(f, c, offset, was.data, next) /\ Laid(g, c, offset, was.data, after)
    BY <1>2 DEF SectionLaid
  <2> HIDE DEF offset
  <2> QED
    BY <2>1, <2>2, LaidAlike
<1> QED
  BY <1>1, <1>2

(* From cursor to cursor, in step.                                           *)
InStep(f, g, c, d, i) ==
    c[i] = d[i] =>
        /\ c[i + 1] \in Nat /\ c[i + 1] = d[i + 1] /\ c[i] <= c[i + 1]
        /\ AgreeBetween(f, g, c[i], c[i + 1])

(* Two files laid in step have the same cursors and the same bytes.          *)
LEMMA Marching ==
    ASSUME NEW f, NEW g, NEW c, NEW d, c[1] \in Nat, c[1] = d[1], NEW N \in Nat,
           \A i \in 1..N : InStep(f, g, c, d, i)
    PROVE  \A i \in 1..(N + 1) :
               /\ c[i] \in Nat /\ c[i] = d[i] /\ c[1] <= c[i]
               /\ AgreeBetween(f, g, c[1], c[i])
<1> DEFINE Good(i) == /\ c[i] \in Nat /\ c[i] = d[i] /\ c[1] <= c[i]
                      /\ AgreeBetween(f, g, c[1], c[i])
           S == {k \in Nat : k <= N => Good(k + 1)}
<1>1. 0 \in S
  BY DEF AgreeBetween
<1>2. ASSUME NEW k \in S PROVE k + 1 \in S
  <2>1. SUFFICES ASSUME k + 1 <= N PROVE Good(k + 2)
    OBVIOUS
  <2>2. Good(k + 1) /\ k + 1 \in 1..N
    BY <2>1
  <2>3. InStep(f, g, c, d, k + 1)
    BY <2>2
  <2>4. /\ c[k + 2] \in Nat /\ c[k + 2] = d[k + 2] /\ c[k + 1] <= c[k + 2]
        /\ AgreeBetween(f, g, c[k + 1], c[k + 2])
    <3>1. k + 1 + 1 = k + 2
      OBVIOUS
    <3> QED
      BY <2>2, <2>3, <3>1 DEF InStep
  <2>5. ASSUME NEW p \in (c[1] + 1)..c[k + 2] PROVE f[p] = g[p]
    <3>1. CASE p <= c[k + 1]
      <4>1. p \in (c[1] + 1)..c[k + 1]
        BY <2>2, <3>1
      <4> QED
        BY <2>2, <4>1 DEF AgreeBetween
    <3>2. CASE c[k + 1] < p
      <4>1. p \in (c[k + 1] + 1)..c[k + 2]
        BY <2>2, <2>4, <3>2
      <4> QED
        BY <2>4, <4>1 DEF AgreeBetween
    <3> QED
      BY <2>2, <3>1, <3>2
  <2>6. AgreeBetween(f, g, c[1], c[k + 2]) /\ c[1] <= c[k + 2]
    BY <2>2, <2>4, <2>5 DEF AgreeBetween
  <2> QED
    BY <2>4, <2>6
<1>3. S = Nat
  <2> HIDE DEF S
  <2>1. S \in SUBSET Nat
    BY DEF S
  <2> QED
    BY <1>1, <1>2, <2>1, SetInduction
<1>4. ASSUME NEW i \in 1..(N + 1) PROVE Good(i)
  <2>1. i - 1 \in Nat /\ i - 1 <= N /\ (i - 1) + 1 = i
    OBVIOUS
  <2>2. i - 1 \in S
    BY <1>3, <2>1
  <2> HIDE DEF Good
  <2>3. Good((i - 1) + 1)
    BY <2>1, <2>2
  <2> QED
    BY <2>1, <2>3
<1> QED
  BY <1>4

(* The names are collected into one table.                                   *)
LEMMA NamesAlike ==
    ASSUME NEW list \in Seq(Section), NEW b, NEW named, NEW e, NEW given,
           NamesGiven(list, b, named), NamesGiven(list, e, given)
    PROVE  Len(named) = Len(given) /\ \A i \in 1..Len(named) : named[i] = given[i]
<1> DEFINE n == Len(list)
           S == {k \in Nat : k <= n => b[k + 1] = e[k + 1]}
<1>0. n \in Nat
  OBVIOUS
<1>1. /\ b[1] = <<Zero>> /\ e[1] = <<Zero>>
      /\ \A i \in 1..n : b[i + 1] = Append(b[i] \o NameBytes[list[i].name], Zero)
      /\ \A i \in 1..n : e[i + 1] = Append(e[i] \o NameBytes[list[i].name], Zero)
  BY DEF NamesGiven, Collected
<1> HIDE DEF n
<1>2. 0 \in S
  BY <1>1
<1>3. ASSUME NEW k \in S PROVE k + 1 \in S
  <2>1. SUFFICES ASSUME k + 1 <= n PROVE b[k + 2] = e[k + 2]
    OBVIOUS
  <2>2. k + 1 \in 1..n /\ b[k + 1] = e[k + 1]
    BY <1>0, <2>1
  <2>3. (k + 1) + 1 = k + 2
    OBVIOUS
  <2> QED
    BY <1>1, <2>2, <2>3
<1>4. S = Nat
  <2>1. S \in SUBSET Nat
    OBVIOUS
  <2> HIDE DEF S
  <2> QED
    BY <1>2, <1>3, <2>1, SetInduction
<1>5. \A i \in 1..(n + 1) : b[i] = e[i]
  <2>1. ASSUME NEW i \in 1..(n + 1) PROVE b[i] = e[i]
    <3>1. i - 1 \in Nat /\ i - 1 <= n /\ (i - 1) + 1 = i
      BY <1>0
    <3>2. i - 1 \in S
      BY <1>4, <3>1
    <3> QED
      BY <3>1, <3>2
  <2> QED
    BY <2>1
<1>6. /\ Len(named) = n /\ Len(given) = n
      /\ \A i \in 1..n : named[i] = NamedWith(list[i], Len(b[i]), b[n + 1])
      /\ \A i \in 1..n : given[i] = NamedWith(list[i], Len(e[i]), e[n + 1])
  BY DEF NamesGiven, n
<1>7. n + 1 \in 1..(n + 1) /\ \A i \in 1..n : i \in 1..(n + 1)
  BY <1>0
<1> QED
  BY <1>5, <1>6, <1>7

(* And its index is one.                                                     *)
LEMMA IndexAlike ==
    ASSUME NEW list, Len(list) \in Nat, NEW k, NEW l, IsTableIndex(list, k),
           IsTableIndex(list, l), list = <<>> => Len(list) = 0
    PROVE  k = l
<1> DEFINE First(at) == /\ at \in 1..Len(list) /\ IsShstrtab(list[at])
                        /\ \A j \in 1..(at - 1) : ~IsShstrtab(list[j])
<1>1. ASSUME NEW i, NEW j, First(i), First(j) PROVE i = j
  <2>1. i \in Nat /\ j \in Nat
    BY <1>1
  <2>2. i < j \/ j < i \/ i = j
    BY <2>1
  <2>3. CASE i < j
    <3>1. i \in 1..(j - 1)
      BY <1>1, <2>3
    <3> QED
      BY <1>1, <3>1
  <2>4. CASE j < i
    <3>1. j \in 1..(i - 1)
      BY <1>1, <2>4
    <3> QED
      BY <1>1, <3>1
  <2> QED
    BY <2>2, <2>3, <2>4
<1>2. CASE list = <<>>
  BY <1>2 DEF IsTableIndex
<1>3. CASE list # <<>>
  <2>1. PICK i : First(i) /\ k = IF i - 1 <= U16Max THEN i - 1 ELSE 0
    BY <1>3 DEF IsTableIndex
  <2>2. PICK j : First(j) /\ l = IF j - 1 <= U16Max THEN j - 1 ELSE 0
    BY <1>3 DEF IsTableIndex
  <2> HIDE DEF First
  <2> QED
    BY <1>1, <2>1, <2>2
<1> QED
  BY <1>2, <1>3

(* With its name table a list of sections is one still.                      *)
LEMMA WithTableType ==
    ASSUME NEW list \in Seq(Section)
    PROVE  WithTable(list) \in Seq(Section)
BY NewShstrtabType DEF WithTable

(* The tables, the data and their order are all there is to a file.          *)
LEMMA FilesAlike ==
    ASSUME NEW f \in Seq(Byte), NEW g \in Seq(Byte), NEW hdr \in ElfHeader,
           NEW phs \in Seq(Phdr), NEW end \in Nat,
           EhSize + PhEntSize * Len(phs) <= end,
           AgreeBetween(f, g, EhSize + PhEntSize * Len(phs), end),
           HoldsAt(f, EhSize, EncodedTable(phs, PhEntSize)),
           HoldsAt(g, EhSize, EncodedTable(phs, PhEntSize)),
           HoldsAt(f, 0, Encoded(hdr, EhSize)), HoldsAt(g, 0, Encoded(hdr, EhSize)),
           Len(f) = Len(g), end <= Len(f), AgreeBetween(f, g, end, Len(f))
    PROVE  f = g
<1> DEFINE ehdr  == Encoded(hdr, EhSize)
           table == EncodedTable(phs, PhEntSize)
           t     == EhSize + PhEntSize * Len(phs)
<1>1. /\ ehdr \in Seq(Byte) /\ Len(ehdr) = EhSize
      /\ table \in Seq(Byte) /\ EhSize + Len(table) = t /\ t \in Nat /\ Len(table) \in Nat
  <2>1. ehdr \in Seq(Byte) /\ Len(ehdr) = EhSize
    BY EncodedBytes, FormatAssumption
  <2>2. /\ table \in Seq(Byte) /\ Len(table) = PhEntSize * Len(phs)
        /\ PhEntSize * Len(phs) \in Nat
    BY EncodedTableBytes, FormatAssumption
  <2> DEFINE size == PhEntSize * Len(phs)
  <2>3. table \in Seq(Byte) /\ Len(table) = size /\ size \in Nat /\ t = EhSize + size
    BY <2>2
  <2> HIDE DEF size, t, table
  <2> QED
    BY <2>1, <2>3, FormatAssumption
<1>2. /\ EhSize \in Nat /\ Len(f) \in Nat /\ t <= end
  BY FormatAssumption
<1>3. /\ HoldsAt(f, 0, ehdr) /\ HoldsAt(g, 0, ehdr)
      /\ HoldsAt(f, EhSize, table) /\ HoldsAt(g, EhSize, table)
      /\ AgreeBetween(f, g, t, end)
  OBVIOUS
<1> HIDE DEF ehdr, table, t
<1>4. ASSUME NEW p \in 1..Len(f) PROVE f[p] = g[p]
  <2>1. CASE p <= EhSize
    <3>1. p \in 1..Len(ehdr) /\ 0 + p = p
      BY <1>1, <2>1
    <3> QED
      BY <1>3, <3>1 DEF HoldsAt
  <2>2. CASE EhSize < p /\ p <= t
    <3>1. p - EhSize \in 1..Len(table) /\ EhSize + (p - EhSize) = p
      BY <1>1, <1>2, <2>2
    <3> QED
      BY <1>3, <3>1 DEF HoldsAt
  <2>3. CASE t < p /\ p <= end
    <3>1. p \in (t + 1)..end
      BY <1>1, <2>3
    <3> QED
      BY <1>3, <3>1 DEF AgreeBetween
  <2>4. CASE end < p
    <3>1. p \in (end + 1)..Len(f)
      BY <2>4
    <3> QED
      BY <3>1 DEF AgreeBetween
  <2> QED
    BY <1>1, <1>2, <2>1, <2>2, <2>3, <2>4
<1> QED
  BY <1>4

(* try_build makes one file of an image, whatever else there is in the       *)
(* program: the same headers, the same sections, the same bytes.             *)
LEMMA OneFile ==
    ASSUME NEW im \in ElfImage,
           NEW f, NEW phs, NEW secs, NEW hdr, BuiltFrom(im, f, phs, secs, hdr),
           NEW g, NEW qhs, NEW tecs, NEW gdr, BuiltFrom(im, g, qhs, tecs, gdr)
    PROVE  f = g
<1> DEFINE list == WithTable(im.sections)
           n == Len(im.segments)
           m == Len(list)
           t == EhSize + PhEntSize * n
<1>1. /\ im.segments \in Seq(Segment) /\ im.sections \in Seq(Section)
      /\ n \in Nat /\ list \in Seq(Section) /\ m \in Nat
  <2>1. im.segments \in Seq(Segment) /\ im.sections \in Seq(Section)
    BY DEF ElfImage
  <2>2. list \in Seq(Section)
    BY <2>1, WithTableType
  <2> HIDE DEF list
  <2> QED
    BY <2>1, <2>2
<1>2. PICK c, b, named : BuiltWith(im, f, phs, secs, hdr, c, b, named)
  BY DEF BuiltFrom
<1>3. PICK d, e, given : BuiltWith(im, g, qhs, tecs, gdr, d, e, given)
  BY DEF BuiltFrom
<1>4. /\ phs \in Seq(Phdr) /\ Len(phs) = n /\ qhs \in Seq(Phdr) /\ Len(qhs) = n
      /\ secs \in Seq(Section) /\ tecs \in Seq(Section)
      /\ hdr \in ElfHeader /\ f \in Seq(Byte) /\ g \in Seq(Byte)
  BY DEF BuiltFrom
<1>5. /\ c \in [Nat -> Nat] /\ d \in [Nat -> Nat] /\ c[1] = t /\ d[1] = t
      /\ \A i \in 1..n : SegmentLaid(f, im.segments[i], phs[i], c[i], c[i + 1])
      /\ \A i \in 1..n : SegmentLaid(g, im.segments[i], qhs[i], d[i], d[i + 1])
  BY <1>2, <1>3 DEF BuiltWith, SegmentsLaid
<1>6. /\ NamesGiven(list, b, named) /\ NamesGiven(list, e, given)
      /\ named \in Seq(Section) /\ given \in Seq(Section)
      /\ Len(secs) = Len(named) /\ Len(tecs) = Len(given)
      /\ SectionsLaid(f, im, named, secs, c) /\ SectionsLaid(g, im, given, tecs, d)
  BY <1>2, <1>3 DEF BuiltWith
<1>7. Len(named) = m /\ Len(given) = m /\ \A i \in 1..m : named[i] = given[i]
  <2>1. Len(named) = m
    BY <1>6 DEF NamesGiven
  <2> HIDE DEF list, m
  <2> QED
    BY <1>1, <1>6, <2>1, NamesAlike
<1>8. \A i \in 1..m :
          /\ named[i] \in Section
          /\ SectionLaid(f, named[i], secs[i], c[n + i], c[n + i + 1])
          /\ SectionLaid(g, named[i], tecs[i], d[n + i], d[n + i + 1])
  <2>1. \A i \in 1..m : named[i] \in Section
    BY <1>6, <1>7
  <2> QED
    BY <1>6, <1>7, <2>1 DEF SectionsLaid
<1> HIDE DEF list, m, n, t
<1>9. \A i \in 1..(n + m) : InStep(f, g, c, d, i)
  <2>1. SUFFICES ASSUME NEW i \in 1..(n + m), c[i] = d[i] PROVE InStep(f, g, c, d, i)
    BY DEF InStep
  <2>2. c[i] \in Nat /\ d[i + 1] \in Nat /\ c[i + 1] \in Nat
    <3>1. i \in Nat /\ i + 1 \in Nat
      BY <1>1
    <3>2. c \in [Nat -> Nat] /\ d \in [Nat -> Nat]
      BY <1>5
    <3> QED
      BY <3>1, <3>2
  <2>3. CASE i <= n
    <3>1. i \in 1..n
      BY <1>1, <2>3
    <3>2. im.segments[i] \in Segment
      BY <1>1, <3>1 DEF n
    <3>3. /\ SegmentLaid(f, im.segments[i], phs[i], c[i], c[i + 1])
          /\ SegmentLaid(g, im.segments[i], qhs[i], c[i], d[i + 1])
      BY <1>5, <2>1, <3>1
    <3> QED
      BY <2>2, <3>2, <3>3, SegmentAlike DEF InStep
  <2>4. CASE n < i
    <3>1. PICK j \in 1..m : i = n + j
      <4>1. i - n \in 1..m /\ i = n + (i - n)
        BY <1>1, <2>4
      <4> QED
        BY <4>1
    <3>2. /\ named[j] \in Section
          /\ SectionLaid(f, named[j], secs[j], c[i], c[i + 1])
          /\ SectionLaid(g, named[j], tecs[j], c[i], d[i + 1])
      BY <1>8, <2>1, <3>1
    <3> QED
      BY <2>2, <3>2, SectionAlike DEF InStep
  <2> QED
    BY <1>1, <2>3, <2>4
<1>10. t \in Nat /\ c[1] \in Nat /\ c[1] = d[1] /\ n + m \in Nat
  <2>1. c \in [Nat -> Nat] /\ c[1] = t /\ d[1] = t
    BY <1>5
  <2>2. c[1] \in Nat
    BY <2>1
  <2> QED
    BY <1>1, <2>1, <2>2
<1>11. \A i \in 1..(n + m + 1) :
           /\ c[i] \in Nat /\ c[i] = d[i] /\ t <= c[i]
           /\ AgreeBetween(f, g, t, c[i])
  <2>1. \A i \in 1..(n + m + 1) :
           /\ c[i] \in Nat /\ c[i] = d[i] /\ c[1] <= c[i]
           /\ AgreeBetween(f, g, c[1], c[i])
    BY <1>9, <1>10, Marching
  <2> QED
    BY <1>5, <2>1
<1>12. phs = qhs
  <2>1. ASSUME NEW i \in 1..n PROVE phs[i] = qhs[i]
    <3>1. i \in 1..(n + m + 1)
      BY <1>1
    <3>2. c[i] \in Nat /\ c[i] = d[i]
      BY <1>11, <3>1
    <3>3. im.segments[i] \in Segment
      BY <1>1 DEF n
    <3>4. /\ SegmentLaid(f, im.segments[i], phs[i], c[i], c[i + 1])
          /\ SegmentLaid(g, im.segments[i], qhs[i], c[i], d[i + 1])
      BY <1>5, <3>2
    <3> QED
      BY <3>2, <3>3, <3>4, SegmentAlike
  <2> QED
    BY <1>4, <2>1
<1>13. secs = tecs
  <2>1. ASSUME NEW i \in 1..m PROVE secs[i] = tecs[i]
    <3>1. n + i \in 1..(n + m + 1)
      BY <1>1
    <3>2. c[n + i] \in Nat /\ c[n + i] = d[n + i]
      BY <1>11, <3>1
    <3>3. /\ named[i] \in Section
          /\ SectionLaid(f, named[i], secs[i], c[n + i], c[n + i + 1])
          /\ SectionLaid(g, named[i], tecs[i], c[n + i], d[n + i + 1])
      BY <1>8, <3>2
    <3> QED
      BY <3>2, <3>3, SectionAlike
  <2> QED
    BY <1>4, <1>6, <1>7, <2>1
<1> DEFINE end == c[n + m + 1]
<1>14. /\ end \in Nat /\ end = d[n + m + 1] /\ t <= end /\ AgreeBetween(f, g, t, end)
  <2>1. n + m + 1 \in 1..(n + m + 1)
    BY <1>1
  <2> QED
    BY <1>11, <2>1
<1>15. EndOf(im, named, c) = end /\ EndOf(im, given, d) = end
  BY <1>7, <1>14 DEF EndOf, n
<1> HIDE DEF end
<1>16. hdr = gdr
  <2>1. PICK k : IsTableIndex(list, k) /\ hdr = FilledWith(im.header, phs, secs, k, end)
    BY <1>2, <1>15 DEF BuiltWith, list
  <2>2. PICK l : IsTableIndex(list, l) /\ gdr = FilledWith(im.header, qhs, tecs, l, end)
    BY <1>3, <1>15 DEF BuiltWith, list
  <2>3. k = l
    <3>1. Len(list) \in Nat /\ (list = <<>> => Len(list) = 0)
      BY <1>1
    <3> QED
      BY <2>1, <2>2, <3>1, IndexAlike
  <2> QED
    BY <1>12, <1>13, <2>1, <2>2, <2>3
<1>17. TableLaid(f, secs, hdr, end) /\ TableLaid(g, secs, hdr, end)
  BY <1>2, <1>3, <1>13, <1>15, <1>16 DEF BuiltWith
<1>18. Len(f) = Len(g) /\ end <= Len(f) /\ AgreeBetween(f, g, end, Len(f))
  <2>1. CASE secs = <<>>
    BY <1>14, <1>17, <2>1 DEF TableLaid, AgreeBetween
  <2>2. CASE secs # <<>>
    <3> DEFINE table == EncodedTable(HeadersOf(secs), ShEntSize)
               at    == hdr.shoff
    <3>1. Laid(f, end, at, table, Len(f)) /\ Laid(g, end, at, table, Len(g))
      BY <1>17, <2>2 DEF TableLaid
    <3>2. at \in Nat
      BY <1>4, U64Nat DEF ElfHeader
    <3>3. table \in Seq(Byte)
      <4>1. HeadersOf(secs) \in Seq(Shdr)
        <5>1. ASSUME NEW i \in 1..Len(secs) PROVE secs[i].header \in Shdr
          <6>1. secs[i] \in Section
            BY <1>4, Element
          <6> QED
            BY <6>1, SectionFacts
        <5> QED
          BY <1>4, <5>1 DEF HeadersOf
      <4> QED
        BY <4>1, EncodedTableBytes, FormatAssumption
    <3> HIDE DEF table, at
    <3> QED
      BY <1>14, <3>1, <3>2, <3>3, LaidAlike
  <2> QED
    BY <2>1, <2>2
<1>19. /\ HoldsAt(f, EhSize, EncodedTable(phs, PhEntSize))
       /\ HoldsAt(g, EhSize, EncodedTable(phs, PhEntSize))
       /\ HoldsAt(f, 0, Encoded(hdr, EhSize)) /\ HoldsAt(g, 0, Encoded(hdr, EhSize))
  BY <1>2, <1>3, <1>12, <1>16 DEF BuiltWith
<1>20. /\ EhSize + PhEntSize * Len(phs) <= end
       /\ AgreeBetween(f, g, EhSize + PhEntSize * Len(phs), end)
  BY <1>4, <1>14 DEF t
<1> QED
  BY <1>4, <1>14, <1>18, <1>19, <1>20, FilesAlike


-----------------------------------------------------------------------------
(* Reading that file and making it again.                                    *)

(* The image read from a file made of the image im.                          *)
SegmentRead(segment, phdr) ==
    [header |-> phdr,
     data   |-> IF phdr.type = "NULL" THEN <<>> ELSE SegmentBytes(segment)]
SectionRead(section) ==
    [name |-> section.name, header |-> section.header,
     data |-> IF IsNobits(section) THEN <<>> ELSE section.data]

ImageRead(im, phs, secs, hdr) ==
    [header   |-> hdr,
     segments |-> [i \in 1..Len(phs) |-> SegmentRead(im.segments[i], phs[i])],
     sections |-> [i \in 1..Len(secs) |-> SectionRead(secs[i])]]

(* A segment that was read is laid where the one it was made of was.         *)
LEMMA SegmentLaidAgain ==
    ASSUME NEW f, NEW segment \in Segment, NEW phdr, NEW c \in Nat, NEW next,
           segment.header.type = "NULL" => segment.data = <<>>,
           SegmentLaid(f, segment, phdr, c, next)
    PROVE  LET read == SegmentRead(segment, phdr)
           IN  SegmentLaid(f, read, phdr, c, next) /\ SegmentBytes(read) = read.data
<1> DEFINE bytes == SegmentBytes(segment)
           read  == SegmentRead(segment, phdr)
           n     == Writable(segment)
<1>1. /\ segment.header \in Phdr /\ segment.data \in Seq(Byte)
      /\ n \in U64 /\ n \in Nat /\ bytes \in Seq(Byte) /\ Len(bytes) = n
      /\ bytes = <<>> <=> n = 0
  BY SegmentFacts, SegmentBytesFacts, U64Nat
<1>2. phdr.type = segment.header.type /\ phdr.filesz = n
      /\ phdr.vaddr = segment.header.vaddr /\ phdr.align = segment.header.align
  <2>1. CASE n = 0
    <3>1. phdr = PhdrAt(segment.header, 0, 0)
      BY <1>1, <2>1 DEF SegmentLaid
    <3> QED
      BY <1>1, <2>1, <3>1 DEF PhdrAt, Phdr
  <2>2. CASE n # 0
    <3>1. phdr = PhdrAt(segment.header, SegmentOffset(c, segment), n)
      BY <1>1, <2>2 DEF SegmentLaid
    <3> QED
      BY <1>1, <3>1 DEF PhdrAt, Phdr
  <2> QED
    BY <2>1, <2>2
<1>3. segment.header.type = "NULL" => n = 0
  <2>1. segment.data = <<>> => bytes = <<>>
    BY DEF SegmentBytes
  <2> QED
    BY <1>1, <2>1
<1>4. read = [header |-> phdr, data |-> bytes]
  BY <1>1, <1>2, <1>3 DEF SegmentRead
<1>5. Writable(read) = n
  <2>1. Writable(read) = Minimum(n, Len(bytes))
    BY <1>2, <1>4 DEF Writable
  <2> HIDE DEF n, bytes
  <2> QED
    BY <1>1, <2>1 DEF Minimum
<1>6. SegmentBytes(read) = bytes
  <2> HIDE DEF n, bytes, read
  <2>1. SegmentBytes(read) = SubSeq(bytes, 1, n)
    BY <1>4, <1>5 DEF SegmentBytes
  <2>2. SubSeq(bytes, 1, n) = bytes
    BY <1>1
  <2> QED
    BY <2>1, <2>2
<1>7. SegmentOffset(c, read) = SegmentOffset(c, segment)
  BY <1>2, <1>4 DEF SegmentOffset, IsLoad
<1>8. ASSUME n = 0 PROVE SegmentLaid(f, read, phdr, c, next)
  <2>1. phdr = PhdrAt(segment.header, 0, 0) /\ next = c
    BY <1>1, <1>8 DEF SegmentLaid
  <2>2. PhdrAt(phdr, 0, 0) = phdr
    BY <1>1, <2>1 DEF PhdrAt, Phdr
  <2>3. Writable(read) = 0 /\ phdr = PhdrAt(read.header, 0, 0) /\ next = c
    <3>1. read.header = phdr
      BY <1>4
    <3> HIDE DEF read, n
    <3> QED
      BY <1>5, <1>8, <2>1, <2>2, <3>1
  <2> HIDE DEF read
  <2> QED
    BY <2>3, Zenon DEF SegmentLaid
<1>9. ASSUME n # 0 PROVE SegmentLaid(f, read, phdr, c, next)
  <2> DEFINE offset == SegmentOffset(c, segment)
  <2>1. phdr = PhdrAt(segment.header, offset, n) /\ Laid(f, c, offset, bytes, next)
    BY <1>1, <1>9 DEF SegmentLaid
  <2>2. PhdrAt(phdr, offset, n) = phdr
    BY <1>1, <2>1 DEF PhdrAt, Phdr
  <2>3. /\ Writable(read) # 0
        /\ phdr = PhdrAt(read.header, SegmentOffset(c, read), Len(SegmentBytes(read)))
        /\ Laid(f, c, SegmentOffset(c, read), SegmentBytes(read), next)
    <3>1. read.header = phdr
      BY <1>4
    <3> HIDE DEF read, n, bytes, offset
    <3>2. Writable(read) # 0
      BY <1>5, <1>9
    <3>3. phdr = PhdrAt(read.header, SegmentOffset(c, read), Len(SegmentBytes(read)))
      BY <1>1, <1>6, <1>7, <2>2, <3>1 DEF offset
    <3>4. Laid(f, c, SegmentOffset(c, read), SegmentBytes(read), next)
      BY <1>6, <1>7, <2>1 DEF offset
    <3> QED
      BY <3>2, <3>3, <3>4
  <2> HIDE DEF read
  <2> QED
    BY <2>3, Zenon DEF SegmentLaid
<1>10. SegmentBytes(read) = read.data
  <2>1. read.data = bytes
    BY <1>4
  <2> QED
    BY <1>6, <2>1
<1>11. SegmentLaid(f, read, phdr, c, next)
  <2> HIDE DEF read, n
  <2> QED
    BY <1>8, <1>9
<1> HIDE DEF read
<1>12. SegmentLaid(f, read, phdr, c, next) /\ SegmentBytes(read) = read.data
  BY <1>10, <1>11
<1> QED
  BY <1>12 DEF read

(* Moving a section to where it is changes nothing.                          *)
LEMMA MovedNowhere ==
    ASSUME NEW section \in Section, NEW offset, NEW is, is = SectionAt(section, offset)
    PROVE  SectionAt(is, offset) = is
<1> DEFINE n == section.name
           h == section.header
           d == section.data
           i == [h EXCEPT !.offset = offset, !.size = Len(d)]
           moved == [name |-> n, header |-> i, data |-> d]
           other == [moved EXCEPT !.header.offset = offset]
<1>1. h \in Shdr /\ section = [name |-> n, header |-> h, data |-> d]
  BY DEF Section
<1>2. is = moved
  BY <1>1 DEF SectionAt
<1> HIDE DEF n, h, d
<1>3. i = [i EXCEPT !.offset = offset] /\ i = [i EXCEPT !.size = Len(d)]
  BY <1>1 DEF Shdr
<1> HIDE DEF i
<1>4. other = moved
  BY <1>3
<1>5. [other EXCEPT !.header.size = Len(d)] = moved
  BY <1>3, <1>4
<1>6. SectionAt(moved, offset) = [other EXCEPT !.header.size = Len(d)]
  BY DEF SectionAt
<1> QED
  BY <1>2, <1>5, <1>6

(* So is a section: its name is the one it has.                              *)
LEMMA SectionLaidAgain ==
    ASSUME NEW f, NEW section \in Section, NEW is, NEW c \in Nat, NEW next,
           SectionLaid(f, section, is, c, next)
    PROVE  SectionLaid(f, SectionRead(is), SectionRead(is), c, next)
<1> DEFINE read == SectionRead(is)
<1>1. section.header \in Shdr /\ section.data \in Seq(Byte)
      /\ section = [name |-> section.name, header |-> section.header,
                    data |-> section.data]
  BY DEF Section
<1>2. CASE IsNobits(section)
  <2>1. is = section /\ next = c
    BY <1>2 DEF SectionLaid
  <2>2. IsNobits(read)
    BY <1>2, <2>1 DEF IsNobits, SectionRead
  <2> QED
    BY <2>1, <2>2 DEF SectionLaid
<1>3. CASE ~IsNobits(section) /\ section.data = <<>>
  <2>1. is = SectionAt(section, section.header.offset) /\ next = c
    BY <1>3 DEF SectionLaid
  <2>2. /\ is.name = section.name /\ is.data = section.data
        /\ is.header = [section.header EXCEPT !.offset = section.header.offset,
                                              !.size = Len(section.data)]
    BY <1>1, <2>1 DEF SectionAt
  <2>3. ~IsNobits(is)
    BY <1>1, <1>3, <2>2 DEF IsNobits, Shdr
  <2>4. read = [name |-> section.name, header |-> is.header, data |-> section.data]
    BY <2>2, <2>3 DEF SectionRead
  <2>5. ~IsNobits(read) /\ read.data = <<>>
    BY <1>3, <2>3, <2>4 DEF IsNobits
  <2>6. read = SectionAt(read, read.header.offset)
    <3>1. section.header.offset = is.header.offset
      BY <1>1, <2>2 DEF Shdr
    <3>2. SectionAt(is, section.header.offset) = is
      BY <2>1, MovedNowhere
    <3>3. read = is
      <4>1. is = [name |-> section.name, header |-> is.header, data |-> section.data]
        BY <1>1, <2>1 DEF SectionAt
      <4> QED
        BY <2>4, <4>1
    <3> HIDE DEF read
    <3> QED
      BY <3>1, <3>2, <3>3
  <2> QED
    BY <2>1, <2>5, <2>6 DEF SectionLaid
<1>4. CASE ~IsNobits(section) /\ section.data # <<>>
  <2> DEFINE offset == SectionOffset(c, section)
  <2>1. is = SectionAt(section, offset) /\ Laid(f, c, offset, section.data, next)
    BY <1>4 DEF SectionLaid
  <2>2. /\ is.name = section.name /\ is.data = section.data
        /\ is.header = [section.header EXCEPT !.offset = offset,
                                              !.size = Len(section.data)]
    BY <1>1, <2>1 DEF SectionAt
  <2>3. ~IsNobits(is)
    BY <1>1, <1>4, <2>2 DEF IsNobits, Shdr
  <2>4. read = [name |-> section.name, header |-> is.header, data |-> section.data]
    BY <2>2, <2>3 DEF SectionRead
  <2>5. ~IsNobits(read) /\ read.data # <<>>
    BY <1>4, <2>3, <2>4 DEF IsNobits
  <2>6. SectionOffset(c, read) = offset
    <3>1. is.header.addralign = section.header.addralign
      BY <1>1, <2>2 DEF Shdr
    <3>2. read.header.addralign = section.header.addralign
      BY <2>4, <3>1
    <3> QED
      BY <3>2 DEF SectionOffset
  <2>7. read = SectionAt(read, offset)
    <3>1. SectionAt(is, offset) = is
      BY <2>1, MovedNowhere
    <3>2. read = is
      <4>1. is = [name |-> section.name, header |-> is.header, data |-> section.data]
        BY <1>1, <2>1 DEF SectionAt
      <4> QED
        BY <2>4, <4>1
    <3> HIDE DEF read, offset
    <3> QED
      BY <3>1, <3>2
  <2>8. Laid(f, c, SectionOffset(c, read), read.data, next)
    BY <2>1, <2>4, <2>6
  <2> QED
    BY <2>5, <2>6, <2>7, <2>8 DEF SectionLaid
<1> QED
  BY <1>2, <1>3, <1>4

(* A section read has the name and the kind of the one that was laid.        *)
LEMMA SectionReadFacts ==
    ASSUME NEW f, NEW section \in Section, NEW is, NEW c, NEW next,
           SectionLaid(f, section, is, c, next)
    PROVE  /\ SectionRead(is).name = section.name
           /\ SectionRead(is).header.type = section.header.type
           /\ SectionRead(is).header.nameIndex = section.header.nameIndex
           /\ IsNobits(section) => is = section
           /\ ~IsNobits(section) =>
                  /\ SectionRead(is).data = section.data
                  /\ SectionRead(is).header.size = Len(section.data)
<1>1. section.header \in Shdr
  BY DEF Section
<1>2. CASE IsNobits(section)
  BY <1>2 DEF SectionLaid, SectionRead
<1>3. CASE ~IsNobits(section)
  <2>1. PICK offset : is = SectionAt(section, offset)
    BY <1>3 DEF SectionLaid
  <2>2. /\ is.name = section.name /\ is.data = section.data
        /\ is.header = [section.header EXCEPT !.offset = offset,
                                              !.size = Len(section.data)]
    BY <2>1 DEF SectionAt, Section
  <2>3. /\ is.header.type = section.header.type
        /\ is.header.nameIndex = section.header.nameIndex
        /\ is.header.size = Len(section.data)
    BY <1>1, <2>2 DEF Shdr
  <2>4. ~IsNobits(is)
    BY <1>3, <2>3 DEF IsNobits
  <2> QED
    BY <1>3, <2>2, <2>3, <2>4 DEF SectionRead
<1> QED
  BY <1>2, <1>3

(* The name table of an image is found where it was, by its name and kind.   *)
LEMMA IndexRead ==
    ASSUME NEW list, NEW read, Len(read) = Len(list), Len(list) \in Nat,
           list = <<>> <=> read = <<>>,
           \A i \in 1..Len(list) : IsShstrtab(read[i]) <=> IsShstrtab(list[i]),
           NEW k, IsTableIndex(list, k)
    PROVE  IsTableIndex(read, k)
<1>1. CASE list = <<>> /\ k = 0
  BY <1>1 DEF IsTableIndex
<1>2. CASE \E at \in 1..Len(list) :
               /\ IsShstrtab(list[at]) /\ \A j \in 1..(at - 1) : ~IsShstrtab(list[j])
               /\ k = IF at - 1 <= U16Max THEN at - 1 ELSE 0
  <2>1. PICK at \in 1..Len(list) :
               /\ IsShstrtab(list[at]) /\ \A j \in 1..(at - 1) : ~IsShstrtab(list[j])
               /\ k = IF at - 1 <= U16Max THEN at - 1 ELSE 0
    BY <1>2
  <2>2. \A j \in 1..(at - 1) : j \in 1..Len(list)
    OBVIOUS
  <2>3. IsShstrtab(read[at]) /\ \A j \in 1..(at - 1) : ~IsShstrtab(read[j])
    BY <2>1, <2>2
  <2> QED
    BY <2>1, <2>3 DEF IsTableIndex
<1> QED
  BY <1>1, <1>2 DEF IsTableIndex

(* A header filled in twice is filled in once.                               *)
LEMMA FilledOnce ==
    ASSUME NEW h \in ElfHeader, NEW phs, NEW secs, NEW read, NEW k, NEW end,
           Len(read) = Len(secs), read = <<>> <=> secs = <<>>
    PROVE  LET hdr == FilledWith(h, phs, secs, k, end)
           IN  FilledWith(hdr, phs, read, k, end) = hdr
<1> DEFINE shoff == IF secs = <<>> THEN 0 ELSE AlignUp(end, 8)
           hdr   == FilledWith(h, phs, secs, k, end)
           np    == Len(phs)
           ns    == Len(secs)
<1>1. hdr = [h EXCEPT !.phoff = EhSize, !.phnum = np, !.shnum = ns, !.shstrndx = k,
                      !.shoff = shoff]
  BY DEF FilledWith
<1>2. FilledWith(hdr, phs, read, k, end) =
          [hdr EXCEPT !.phoff = EhSize, !.phnum = np, !.shnum = ns, !.shstrndx = k,
                      !.shoff = shoff]
  BY DEF FilledWith
<1> HIDE DEF shoff, hdr, np, ns
<1>3. hdr = [hdr EXCEPT !.phoff = EhSize, !.phnum = np, !.shnum = ns, !.shstrndx = k,
                        !.shoff = shoff]
  <2>1. h = [entry |-> h.entry, phoff |-> h.phoff, shoff |-> h.shoff, phnum |-> h.phnum,
             shnum |-> h.shnum, shstrndx |-> h.shstrndx]
    BY DEF ElfHeader
  <2>2. hdr = [entry |-> h.entry, phoff |-> EhSize, shoff |-> shoff, phnum |-> np,
               shnum |-> ns, shstrndx |-> k]
    BY <1>1, <2>1
  <2>3. /\ [hdr EXCEPT !.phoff = EhSize] = hdr /\ [hdr EXCEPT !.phnum = np] = hdr
        /\ [hdr EXCEPT !.shnum = ns] = hdr /\ [hdr EXCEPT !.shstrndx = k] = hdr
        /\ [hdr EXCEPT !.shoff = shoff] = hdr
    BY <2>2
  <2> QED
    BY <2>3
<1> QED
  BY <1>2, <1>3 DEF hdr

(* f is made of the image im, and im is what is read from it: its headers    *)
(* are those of the file and its data is all in there.                       *)
MadeAsIs(im, f, phs, c, b) ==
    /\ phs \in Seq(Phdr) /\ Len(phs) = Len(im.segments) /\ f \in Seq(Byte)
    /\ im.sections \in Seq(Section) /\ im.header \in ElfHeader
    /\ \A i \in 1..Len(im.segments) :
           /\ im.segments[i].header = phs[i]
           /\ SegmentBytes(im.segments[i]) = im.segments[i].data
    /\ WithTable(im.sections) = im.sections
    /\ BuiltWith(im, f, phs, im.sections, im.header, c, b, im.sections)

(* try_build makes the same file of the image read from it, as long as no    *)
(* NULL segment has data, which is written and not read.                     *)
LEMMA MadeAgain ==
    ASSUME NEW im \in ElfImage, ReadsBackWhole(im),
           NEW f, NEW phs, NEW secs, NEW hdr, BuiltFrom(im, f, phs, secs, hdr)
    PROVE  \E c, b : MadeAsIs(ImageRead(im, phs, secs, hdr), f, phs, c, b)
<1> DEFINE im2  == ImageRead(im, phs, secs, hdr)
           list == WithTable(im.sections)
           read == [i \in 1..Len(secs) |-> SectionRead(secs[i])]
           n    == Len(im.segments)
           m    == Len(list)
<1>1. /\ im.segments \in Seq(Segment) /\ im.sections \in Seq(Section)
      /\ n \in Nat /\ list \in Seq(Section) /\ m \in Nat /\ im.header \in ElfHeader
  <2>1. im.segments \in Seq(Segment) /\ im.sections \in Seq(Section)
        /\ im.header \in ElfHeader
    BY DEF ElfImage
  <2>2. list \in Seq(Section)
    BY <2>1, WithTableType
  <2> HIDE DEF list
  <2> QED
    BY <2>1, <2>2
<1>2. PICK c, b, named : BuiltWith(im, f, phs, secs, hdr, c, b, named)
  BY DEF BuiltFrom
<1>3. /\ phs \in Seq(Phdr) /\ Len(phs) = n /\ secs \in Seq(Section)
      /\ hdr \in ElfHeader /\ f \in Seq(Byte)
  BY DEF BuiltFrom
<1>4. /\ b \in [Nat -> Seq(RawByte)] /\ named \in Seq(Section)
      /\ NamesGiven(list, b, named) /\ Len(secs) = Len(named)
      /\ SegmentsLaid(f, im, phs, c) /\ SectionsLaid(f, im, named, secs, c)
      /\ TableLaid(f, secs, hdr, EndOf(im, named, c))
      /\ HoldsAt(f, EhSize, EncodedTable(phs, PhEntSize))
      /\ HoldsAt(f, 0, Encoded(hdr, EhSize))
      /\ \E k : /\ IsTableIndex(list, k)
                /\ hdr = FilledWith(im.header, phs, secs, k, EndOf(im, named, c))
  BY <1>2 DEF BuiltWith
<1>5. Len(named) = m /\ Len(secs) = m
  BY <1>4 DEF NamesGiven
<1>6. /\ im2.segments = [i \in 1..n |-> SegmentRead(im.segments[i], phs[i])]
      /\ im2.header = hdr /\ im2.sections = read
  BY <1>3 DEF ImageRead
<1>7. c \in [Nat -> Nat]
  BY <1>4 DEF SegmentsLaid
<1>8. \A i \in 1..m : named[i] \in Section /\ list[i] \in Section
  <2>1. \A i \in 1..m : named[i] \in Section
    BY <1>4, <1>5, Element
  <2>2. \A i \in 1..m : list[i] \in Section
    <3> HIDE DEF list
    <3> QED
      BY <1>1, Element
  <2> QED
    BY <2>1, <2>2
<1>9. \A i \in 1..m : SectionLaid(f, named[i], secs[i], c[n + i], c[n + i + 1])
  BY <1>4, <1>5 DEF SectionsLaid
<1>10. \A i \in 1..m : named[i] = NamedWith(list[i], Len(b[i]), b[m + 1])
  BY <1>4 DEF NamesGiven
<1> HIDE DEF im2, list, read, n, m
<1>11. Len(im2.segments) = n
  BY <1>1, <1>6
<1>12. /\ \A i \in 1..m : read[i] = SectionRead(secs[i])
       /\ Len(read) = m /\ (read = <<>> <=> secs = <<>>) /\ (read = <<>> <=> list = <<>>)
  <2>1. read = [i \in 1..m |-> SectionRead(secs[i])]
    BY <1>5 DEF read
  <2>2. Len(read) = m
    BY <1>1, <2>1
  <2>3. read = <<>> <=> m = 0
    <3>1. \A T : \A s \in [1..m -> T] : s \in Seq(T)
      BY <1>1
    <3>2. read \in [1..m -> {SectionRead(secs[i]) : i \in 1..m}]
      BY <2>1
    <3> DEFINE T == {SectionRead(secs[i]) : i \in 1..m}
    <3>3. read \in Seq(T)
      BY <3>1, <3>2
    <3> HIDE DEF T
    <3> QED
      BY <2>2, <3>3
  <2>4. (secs = <<>> <=> m = 0) /\ (list = <<>> <=> m = 0)
    BY <1>1, <1>3, <1>5 DEF m
  <2> QED
    BY <2>1, <2>2, <2>3, <2>4
<1>13. ASSUME NEW i \in 1..m
       PROVE  /\ read[i] \in Section /\ read[i].name = list[i].name
              /\ IsShstrtab(read[i]) <=> IsShstrtab(list[i])
              /\ read[i] = NamedWith(read[i], Len(b[i]), b[m + 1])
  <2> DEFINE was   == list[i]
             given == named[i]
             is    == secs[i]
             found == read[i]
             blob_ == b[m + 1]
             at    == Len(b[i])
  <2>1. was \in Section /\ given \in Section /\ is \in Section
    <3>1. is \in Section
      BY <1>3, <1>5
    <3> QED
      BY <1>8, <3>1
  <2>2. given = NamedWith(was, at, blob_) /\ found = SectionRead(is)
    BY <1>10, <1>12
  <2>3. PICK x, y : SectionLaid(f, given, is, x, y)
    BY <1>9
  <2> HIDE DEF was, given, is, found, blob_, at
  <2>4. /\ found.name = given.name /\ found.header.type = given.header.type
        /\ found.header.nameIndex = given.header.nameIndex
        /\ ~IsNobits(given) => found.data = given.data
                               /\ found.header.size = Len(given.data)
    BY <2>1, <2>2, <2>3, SectionReadFacts
  <2>5. /\ given.name = was.name /\ given.header.type = was.header.type
        /\ given.header.nameIndex = at
        /\ IsShstrtab(was) => given.data = blob_
    BY <2>1, <2>2 DEF NamedWith, Section, Shdr
  <2>6. IsShstrtab(found) <=> IsShstrtab(was)
    BY <2>4, <2>5 DEF IsShstrtab
  <2>7. found \in Section
    <3>1. found = [name |-> is.name, header |-> is.header,
                   data |-> IF IsNobits(is) THEN <<>> ELSE is.data]
      BY <2>2 DEF SectionRead
    <3>2. <<>> \in Seq(Byte)
      OBVIOUS
    <3> QED
      BY <2>1, <3>1, <3>2 DEF Section
  <2>8. found = [found EXCEPT !.header.nameIndex = at]
    <3>1. found.header.nameIndex = at
      BY <2>4, <2>5
    <3> QED
      BY <2>7, <3>1 DEF Section, Shdr
  <2>9. found = NamedWith(found, at, blob_)
    <3>1. CASE ~IsShstrtab(found)
      BY <2>8, <3>1 DEF NamedWith
    <3>2. CASE IsShstrtab(found)
      <4>1. ~IsNobits(given) /\ IsShstrtab(was)
        BY <2>4, <2>6, <3>2 DEF IsNobits, IsShstrtab
      <4>2. found.data = blob_ /\ found.header.size = Len(blob_)
        BY <2>4, <2>5, <4>1
      <4>3. [found EXCEPT !.header.size = Len(blob_)] = found
        BY <2>7, <4>2 DEF Section, Shdr
      <4>4. [found EXCEPT !.data = blob_] = found
        BY <2>7, <4>2 DEF Section
      <4>5. NamedWith(found, at, blob_) =
                [[[found EXCEPT !.header.nameIndex = at] EXCEPT !.header.size = Len(blob_)]
                     EXCEPT !.data = blob_]
        BY <3>2 DEF NamedWith
      <4> QED
        BY <2>8, <4>3, <4>4, <4>5
    <3> QED
      BY <3>1, <3>2
  <2>10. found.name = was.name
    BY <2>4, <2>5
  <2> QED
    BY <2>6, <2>7, <2>9, <2>10 DEF was, found, blob_, at
<1>14. read \in Seq(Section)
  <2>1. read = [i \in 1..m |-> read[i]]
    BY <1>5, <1>12 DEF read
  <2>2. \A s \in [1..m -> Section] : s \in Seq(Section)
    BY <1>1
  <2>3. read \in [1..m -> Section]
    BY <1>13, <2>1
  <2> QED
    BY <2>2, <2>3
<1>15. WithTable(read) = read
  <2>1. list # <<>> => \E i \in 1..m : IsShstrtab(list[i])
    <3> DEFINE secs_ == im.sections
    <3>1. Len(secs_) \in Nat /\ IsShstrtab(NewShstrtab)
      BY <1>1 DEF NewShstrtab, IsShstrtab
    <3>2. CASE secs_ = <<>> \/ \E i \in 1..Len(secs_) : IsShstrtab(secs_[i])
      BY <3>2 DEF WithTable, list, m
    <3>3. CASE ~(secs_ = <<>> \/ \E i \in 1..Len(secs_) : IsShstrtab(secs_[i]))
      <4>1. list = Append(secs_, NewShstrtab)
        BY <3>3 DEF WithTable, list
      <4> HIDE DEF secs_
      <4>2. m = Len(secs_) + 1 /\ list[m] = NewShstrtab
        <5>1. secs_ \in Seq(Section) /\ NewShstrtab \in Section
          BY <1>1, NewShstrtabType DEF secs_
        <5> QED
          BY <4>1, <5>1, Appended, AppendedLast DEF m
      <4>3. m \in 1..m
        BY <1>1, <3>1, <4>2
      <4> QED
        BY <3>1, <4>2, <4>3
    <3> QED
      BY <3>2, <3>3
  <2>2. read # <<>> => \E i \in 1..Len(read) : IsShstrtab(read[i])
    BY <1>12, <1>13, <2>1
  <2> QED
    BY <2>2 DEF WithTable
<1>16. NamesGiven(read, b, read)
  <2>1. Collected(list, b, m)
    BY <1>4 DEF NamesGiven, m
  <2>2. Collected(read, b, m)
    BY <1>13, <2>1 DEF Collected
  <2> QED
    BY <1>12, <1>13, <2>2 DEF NamesGiven
<1>17. /\ SegmentsLaid(f, im2, phs, c)
       /\ \A i \in 1..n : SegmentBytes(im2.segments[i]) = im2.segments[i].data
  <2>1. ASSUME NEW i \in 1..n
        PROVE  /\ SegmentLaid(f, im2.segments[i], phs[i], c[i], c[i + 1])
               /\ SegmentBytes(im2.segments[i]) = im2.segments[i].data
    <3>1. im2.segments[i] = SegmentRead(im.segments[i], phs[i])
      BY <1>6
    <3>2. SegmentLaid(f, im.segments[i], phs[i], c[i], c[i + 1])
      BY <1>4 DEF SegmentsLaid, n
    <3>3. im.segments[i] \in Segment
      BY <1>1 DEF n
    <3>4. c[i] \in Nat
      BY <1>1, <1>7
    <3>5. im.segments[i].header.type = "NULL" => im.segments[i].data = <<>>
      BY DEF ReadsBackWhole, n
    <3> QED
      BY <3>1, <3>2, <3>3, <3>4, <3>5, SegmentLaidAgain
  <2> QED
    BY <1>4, <1>7, <1>11, <2>1 DEF SegmentsLaid, n
<1>18. SectionsLaid(f, im2, read, read, c)
  <2>1. ASSUME NEW i \in 1..m
        PROVE  SectionLaid(f, read[i], read[i], c[n + i], c[n + i + 1])
    <3>1. c[n + i] \in Nat
      BY <1>1, <1>7
    <3> QED
      BY <1>8, <1>9, <1>12, <3>1, SectionLaidAgain
  <2> QED
    BY <1>11, <1>12, <2>1 DEF SectionsLaid
<1> DEFINE end == EndOf(im, named, c)
<1>19. EndOf(im2, read, c) = end
  BY <1>5, <1>11, <1>12 DEF EndOf, n
<1>20. \E k : IsTableIndex(read, k) /\ hdr = FilledWith(hdr, phs, read, k, end)
  <2>1. PICK k : IsTableIndex(list, k) /\ hdr = FilledWith(im.header, phs, secs, k, end)
    BY <1>4
  <2>2. IsTableIndex(read, k)
    <3>1. Len(read) = Len(list) /\ Len(list) \in Nat /\ Len(list) = m
      BY <1>1, <1>12 DEF m
    <3> QED
      BY <1>12, <1>13, <2>1, <3>1, IndexRead
  <2> HIDE DEF end
  <2>3. FilledWith(hdr, phs, read, k, end) = hdr
    BY <1>1, <1>5, <1>12, <2>1, FilledOnce
  <2> QED
    BY <2>2, <2>3
<1>21. TableLaid(f, read, hdr, end)
  <2>1. HeadersOf(read) = HeadersOf(secs)
    <3>1. \A i \in 1..m : read[i].header = secs[i].header
      BY <1>12 DEF SectionRead
    <3> QED
      BY <1>5, <1>12, <3>1 DEF HeadersOf
  <2> HIDE DEF end
  <2> QED
    BY <1>4, <1>12, <2>1 DEF TableLaid, end
<1>22. BuiltWith(im2, f, phs, read, hdr, c, b, read)
  BY <1>4, <1>6, <1>14, <1>15, <1>16, <1>17, <1>18, <1>19, <1>20, <1>21 DEF BuiltWith
<1>23. ASSUME NEW i \in 1..n PROVE im2.segments[i].header = phs[i]
  BY <1>6 DEF SegmentRead
<1>24. MadeAsIs(im2, f, phs, c, b)
  BY <1>3, <1>6, <1>11, <1>14, <1>15, <1>17, <1>22, <1>23 DEF MadeAsIs
<1> QED
  BY <1>24 DEF im2

(* A call begun in the next state has laid nothing yet.                      *)
LEMMA NextLaid == (image \in ElfImage /\ Begin)' => LaidInv'
BY BeginLaid, PTL

(* What is read from a saved file is what was laid in it.                    *)
LEMMA SavedIsRead ==
    ASSUME Finished
    PROVE  Parsed(Saved) = ImageRead(image, phdrs, sections, header)
BY SavedImage DEF ImageRead, SegmentRead, SectionRead, SavedSegments, SavedSections

(* What is made as it is, is made.                                           *)
LEMMA AsIsIsBuilt ==
    ASSUME NEW im, NEW f, NEW phs, NEW c, NEW b, MadeAsIs(im, f, phs, c, b)
    PROVE  BuiltFrom(im, f, phs, im.sections, im.header)
BY DEF MadeAsIs, BuiltFrom

(* What was read from a saved file makes it as it is,                        *)
LEMMA SavedAsIs ==
    ASSUME Finished, LaidInv, ReadsBackWhole(image)
    PROVE  \E phs, c, b : MadeAsIs(Parsed(Saved), out, phs, c, b)
<1> DEFINE im == ImageRead(image, phdrs, sections, header)
<1>1. BuiltFrom(image, out, phdrs, sections, header) /\ image \in ElfImage
  BY BuiltAtEnd, ImageFacts DEF Finished, IInv
<1>2. \E c, b : MadeAsIs(im, out, phdrs, c, b)
  BY <1>1, MadeAgain
<1> HIDE DEF im
<1>3. \E phs, c, b : MadeAsIs(im, out, phs, c, b)
  BY <1>2
<1> QED
  BY <1>3, SavedIsRead DEF im

(* and so saving it makes the file again.                                    *)
LEMMA SavedIsMadeAgain ==
    ASSUME Finished, LaidInv, ReadsBackWhole(image)
    PROVE  LET im == Parsed(Saved)
           IN  \E phs : BuiltFrom(im, out, phs, im.sections, im.header)
<1> DEFINE im == Parsed(Saved)
<1>1. PICK phs, c, b : MadeAsIs(im, out, phs, c, b)
  BY SavedAsIs
<1> HIDE DEF im
<1>2. BuiltFrom(im, out, phs, im.sections, im.header)
  BY <1>1, AsIsIsBuilt
<1> QED
  BY <1>2 DEF im
-----------------------------------------------------------------------------
(* A file with some of its data replaced. The data lies in slots, the        *)
(* segments and then the sections, one behind the other.                     *)

SlotLaid(f, c, z, offset, bytes) ==
    \/ bytes = <<>> /\ c[z + 1] = c[z]
    \/ bytes # <<>> /\ Laid(f, c[z], offset, bytes, c[z + 1])

(* From each cursor on, the later ones are no lower.                         *)
LEMMA CursorsRise ==
    ASSUME NEW N \in Nat, NEW c \in [Nat -> Nat],
           \A z \in 1..N : c[z] <= c[z + 1],
           NEW y \in 1..(N + 1), NEW z \in 1..(N + 1), y <= z
    PROVE  c[y] <= c[z]
<1> DEFINE S == {k \in Nat : y + k <= N + 1 => c[y] <= c[y + k]}
<1>1. 0 \in S
  BY DEF S
<1>2. ASSUME NEW k \in S PROVE k + 1 \in S
  <2>1. SUFFICES ASSUME y + (k + 1) <= N + 1 PROVE c[y] <= c[y + (k + 1)]
    OBVIOUS
  <2>2. c[y] <= c[y + k]
    BY <2>1
  <2>3. y + k \in 1..N /\ (y + k) + 1 = y + (k + 1)
    BY <2>1
  <2>4. c[y + k] <= c[y + (k + 1)]
    BY <2>3
  <2>5. c[y] \in Nat /\ c[y + k] \in Nat /\ c[y + (k + 1)] \in Nat
    BY <2>3
  <2> QED
    BY <2>2, <2>4, <2>5
<1>3. S = Nat
  <2>1. S \in SUBSET Nat
    OBVIOUS
  <2> HIDE DEF S
  <2> QED
    BY <1>1, <1>2, <2>1, SetInduction
<1>4. z - y \in S /\ y + (z - y) = z
  <2>1. z - y \in Nat /\ y + (z - y) = z
    OBVIOUS
  <2> QED
    BY <1>3, <2>1
<1> QED
  BY <1>4 DEF S

(* A cursor and the next.                                                    *)
LEMMA CursorsAreNumbers ==
    ASSUME NEW c \in [Nat -> Nat], NEW z \in Nat
    PROVE  c[z] \in Nat /\ c[z + 1] \in Nat
OBVIOUS

(* Where a slot that is not empty lies.                                      *)
LEMMA SlotPlace ==
    ASSUME NEW f, NEW c \in [Nat -> Nat], NEW z \in Nat, NEW offset \in Nat,
           NEW bytes \in Seq(Byte), SlotLaid(f, c, z, offset, bytes), bytes # <<>>
    PROVE  c[z] <= offset /\ c[z + 1] = offset + Len(bytes)
BY DEF SlotLaid, Laid

(* A slot ends no lower than it begins.                                      *)
LEMMA SlotRises ==
    ASSUME NEW f, NEW c \in [Nat -> Nat], NEW z \in Nat, NEW offset \in Nat,
           NEW bytes \in Seq(Byte), SlotLaid(f, c, z, offset, bytes)
    PROVE  c[z] <= c[z + 1]
<1>1. c[z] \in Nat /\ c[z + 1] \in Nat
  BY CursorsAreNumbers, Zenon
<1>2. bytes = <<>> => c[z + 1] = c[z]
  BY DEF SlotLaid
<1>3. bytes # <<>> => c[z] <= offset /\ c[z + 1] = offset + Len(bytes)
  BY DEF SlotLaid, Laid
<1>4. Len(bytes) \in Nat
  OBVIOUS
<1> DEFINE m == Len(bytes)
           x == c[z]
           y == c[z + 1]
<1>5. m \in Nat /\ x \in Nat /\ y \in Nat
  BY <1>1, <1>4, Zenon
<1>6. y = x \/ (x <= offset /\ y = offset + m)
  BY <1>2, <1>3, Zenon
<1> HIDE DEF m, x, y
<1>7. x <= y
  BY <1>5, <1>6
<1> QED
  BY <1>7 DEF x, y

(* The slots of a file, what is in them and what replaces it: edits to       *)
(* bytes of the new data, at least to those that differ from the old.        *)
Slots(f, N, c, O, D, E) ==
    /\ N \in Nat /\ c \in [Nat -> Nat] /\ O \in [1..N -> Nat]
    /\ D \in [1..N -> Seq(Byte)] /\ E \in [1..N -> Seq(Byte)]
    /\ f \in Seq(Byte)
    /\ \A z \in 1..N : Len(E[z]) = Len(D[z]) /\ SlotLaid(f, c, z, O[z], D[z])

SlotEdits(N, O, D, E, edits) ==
    /\ \A e \in edits : \E z \in 1..N : \E k \in 1..Len(E[z]) :
           e = <<O[z] + k - 1, E[z][k]>>
    /\ \A z \in 1..N : \A k \in 1..Len(E[z]) :
           E[z][k] # D[z][k] => <<O[z] + k - 1, E[z][k]>> \in edits

(* What a slot is.                                                           *)
LEMMA SlotFacts ==
    ASSUME NEW f, NEW N, NEW c, NEW O, NEW D, NEW E, Slots(f, N, c, O, D, E),
           NEW z \in 1..N
    PROVE  /\ N \in Nat /\ c \in [Nat -> Nat] /\ f \in Seq(Byte) /\ z \in Nat
           /\ O[z] \in Nat /\ D[z] \in Seq(Byte) /\ E[z] \in Seq(Byte)
           /\ Len(E[z]) = Len(D[z]) /\ SlotLaid(f, c, z, O[z], D[z])
<1>1. /\ N \in Nat /\ c \in [Nat -> Nat] /\ f \in Seq(Byte)
      /\ Len(E[z]) = Len(D[z]) /\ SlotLaid(f, c, z, O[z], D[z])
  BY DEF Slots
<1>2. O \in [1..N -> Nat] /\ D \in [1..N -> Seq(Byte)] /\ E \in [1..N -> Seq(Byte)]
  BY DEF Slots
<1>3. O[z] \in Nat /\ D[z] \in Seq(Byte) /\ E[z] \in Seq(Byte)
  BY <1>2, Zenon
<1>4. z \in Nat
  BY <1>1
<1> QED
  BY <1>1, <1>3, <1>4, Zenon

(* Slots do not overlap: a position in one is in no other, and not before    *)
(* the first or behind the last.                                             *)
LEMMA SlotsApart ==
    ASSUME NEW f, NEW N, NEW c, NEW O, NEW D, NEW E, Slots(f, N, c, O, D, E),
           NEW z \in 1..N, NEW k \in 1..Len(E[z])
    PROVE  /\ c[1] <= c[z] /\ c[z] < O[z] + k /\ O[z] + k <= c[z + 1] /\ c[z + 1] <= c[N + 1]
           /\ c[z] <= O[z]
           /\ \A y \in 1..N : /\ y < z => c[y + 1] <= c[z]
                              /\ z < y => c[z + 1] <= c[y]
<1>1. /\ N \in Nat /\ c \in [Nat -> Nat] /\ f \in Seq(Byte) /\ z \in Nat
      /\ O[z] \in Nat /\ D[z] \in Seq(Byte) /\ E[z] \in Seq(Byte)
      /\ Len(E[z]) = Len(D[z]) /\ SlotLaid(f, c, z, O[z], D[z])
  BY SlotFacts, Zenon
<1>2. Len(D[z]) \in Nat /\ k \in Nat /\ D[z] # <<>>
  <2> DEFINE d == D[z]
  <2>1. d \in Seq(Byte)
    BY <1>1
  <2> HIDE DEF d
  <2>2. Len(d) \in Nat /\ (d = <<>> => Len(d) = 0)
    BY <2>1
  <2>3. Len(E[z]) = Len(d)
    BY <1>1 DEF d
  <2> QED
    BY <2>2, <2>3 DEF d
<1>3. /\ c[z] \in Nat /\ c[z + 1] \in Nat /\ c[z] <= O[z]
      /\ c[z + 1] = O[z] + Len(D[z])
  <2>1. c[z] \in Nat /\ c[z + 1] \in Nat
    BY <1>1, CursorsAreNumbers, Zenon
  <2>2. c[z] <= O[z] /\ c[z + 1] = O[z] + Len(D[z])
    <3> DEFINE d == D[z]
               o == O[z]
    <3>1. /\ c \in [Nat -> Nat] /\ z \in Nat /\ o \in Nat /\ d \in Seq(Byte)
          /\ SlotLaid(f, c, z, o, d) /\ d # <<>>
      BY <1>1, <1>2, Zenon
    <3> HIDE DEF d, o
    <3>2. c[z] <= o /\ c[z + 1] = o + Len(d)
      BY <3>1, SlotPlace, Zenon
    <3> QED
      BY <3>2 DEF d, o
  <2> QED
    BY <2>1, <2>2, Zenon
<1>4. ASSUME NEW y \in 1..N PROVE c[y] <= c[y + 1]
  <2>1. O[y] \in Nat /\ D[y] \in Seq(Byte) /\ SlotLaid(f, c, y, O[y], D[y]) /\ y \in Nat
    BY SlotFacts, Zenon
  <2> QED
    BY <1>1, <2>1, SlotRises, Zenon
<1>5. \A x, y \in 1..(N + 1) : x <= y => c[x] <= c[y]
  BY <1>1, <1>4, CursorsRise
<1>6. c[1] <= c[z] /\ c[z + 1] <= c[N + 1]
  <2>1. 1 \in 1..(N + 1) /\ z \in 1..(N + 1) /\ z + 1 \in 1..(N + 1) /\ N + 1 \in 1..(N + 1)
    BY <1>1
  <2> QED
    BY <1>1, <1>5, <2>1
<1>7. ASSUME NEW y \in 1..N
      PROVE  (y < z => c[y + 1] <= c[z]) /\ (z < y => c[z + 1] <= c[y])
  <2>1. /\ y + 1 \in 1..(N + 1) /\ z + 1 \in 1..(N + 1)
        /\ y \in 1..(N + 1) /\ z \in 1..(N + 1)
    BY <1>1
  <2>2. (y < z => y + 1 <= z) /\ (z < y => z + 1 <= y)
    OBVIOUS
  <2> QED
    BY <1>5, <2>1, <2>2
<1>8. c[z] < O[z] + k /\ O[z] + k <= c[z + 1]
  <2> DEFINE m == Len(D[z])
             o == O[z]
             x == c[z]
             y == c[z + 1]
  <2>1. k \in 1..m /\ m \in Nat /\ o \in Nat /\ x \in Nat /\ x <= o /\ y = o + m
    BY <1>1, <1>2, <1>3, Zenon
  <2> HIDE DEF m, o, x, y
  <2>2. x < o + k /\ o + k <= y
    BY <2>1
  <2> QED
    BY <2>2 DEF o, x, y
<1> QED
  BY <1>3, <1>6, <1>7, <1>8

(* Offsets count from zero, positions from one.                              *)
LEMMA PositionOf ==
    ASSUME NEW o \in Nat, NEW k \in Nat, NEW p \in Nat
    PROVE  /\ p - 1 = o + k - 1 => p = o + k
           /\ p = o + k => p - 1 = o + k - 1
OBVIOUS

(* A position is a number.                                                   *)
LEMMA PositionIsNat ==
    ASSUME NEW n, NEW p \in 1..n
    PROVE  p \in Nat
OBVIOUS

(* A position between two cursors is not between two others.                 *)
LEMMA NotInBoth ==
    ASSUME NEW p \in Nat, NEW a \in Nat, NEW b \in Nat, NEW x \in Nat, NEW y \in Nat,
           a < p, p <= b, x < p, p <= y, b <= x \/ y <= a
    PROVE  FALSE
OBVIOUS

(* Nor before the first of them or behind the last.                          *)
LEMMA WithinAll ==
    ASSUME NEW p \in Nat, NEW a \in Nat, NEW b \in Nat, NEW x \in Nat, NEW y \in Nat,
           a < p, p <= b, x <= a, b <= y
    PROVE  ~(p <= x \/ y < p)
OBVIOUS

(* Behind its offset is not before it.                                       *)
LEMMA NotBefore ==
    ASSUME NEW o \in Nat, NEW l \in Nat, l > 0
    PROVE  ~(o + l <= o)
OBVIOUS

(* Transitivity.                                                             *)
LEMMA NoHigher ==
    ASSUME NEW p \in Nat, NEW o \in Nat, NEW b \in Nat, p <= o, o <= b
    PROVE  p <= b
OBVIOUS

(* Two numbers are the same, or one is less.                                 *)
LEMMA Comparable ==
    ASSUME NEW x \in Nat, NEW y \in Nat, x # y
    PROVE  x < y \/ y < x
OBVIOUS

(* A slot's end.                                                             *)
LEMMA SlotEnds ==
    ASSUME NEW f, NEW c \in [Nat -> Nat], NEW z \in Nat, NEW offset \in Nat,
           NEW bytes \in Seq(Byte), SlotLaid(f, c, z, offset, bytes), bytes # <<>>
    PROVE  offset <= c[z + 1]
<1>1. c[z + 1] = offset + Len(bytes)
  BY SlotPlace, Zenon
<1> DEFINE m == Len(bytes)
           y == c[z + 1]
<1>2. m \in Nat
  OBVIOUS
<1> HIDE DEF m
<1>3. offset <= offset + m
  BY <1>2
<1> QED
  BY <1>1, <1>3, Zenon DEF m

(* An edit within a slot is the new byte there.                              *)
LEMMA EditInSlot ==
    ASSUME NEW f, NEW N, NEW c, NEW O, NEW D, NEW E, Slots(f, N, c, O, D, E),
           NEW edits, SlotEdits(N, O, D, E, edits),
           NEW z \in 1..N, NEW k \in 1..Len(E[z]),
           NEW e \in edits, e[1] = O[z] + k - 1
    PROVE  e[2] = E[z][k]
<1>1. PICK y \in 1..N : \E l \in 1..Len(E[y]) : e = <<O[y] + l - 1, E[y][l]>>
  BY DEF SlotEdits
<1>2. PICK l \in 1..Len(E[y]) : e = <<O[y] + l - 1, E[y][l]>>
  BY <1>1
<1>3. O[z] \in Nat /\ O[y] \in Nat /\ k \in Nat /\ l \in Nat /\ z \in Nat /\ y \in Nat
  <2>1. O[z] \in Nat /\ O[y] \in Nat /\ z \in Nat /\ y \in Nat
    BY SlotFacts, Zenon
  <2>2. k \in Nat /\ l \in Nat
    BY <1>2
  <2> QED
    BY <2>1, <2>2
<1>4. O[z] + k = O[y] + l
  <2>1. e[1] = O[y] + l - 1
    BY <1>2
  <2> QED
    BY <1>3, <2>1
<1>5. /\ c[z] < O[z] + k /\ O[z] + k <= c[z + 1]
      /\ (y < z => c[y + 1] <= c[z]) /\ (z < y => c[z + 1] <= c[y])
  BY SlotsApart, Zenon
<1>6. c[y] < O[y] + l /\ O[y] + l <= c[y + 1]
  BY <1>2, SlotsApart, Zenon
<1>7. c[z] \in Nat /\ c[z + 1] \in Nat /\ c[y] \in Nat /\ c[y + 1] \in Nat
  <2>1. c \in [Nat -> Nat]
    BY DEF Slots
  <2> QED
    BY <1>3, <2>1, CursorsAreNumbers, Zenon
<1>8. y = z
  <2>1. ~(y < z)
    BY <1>3, <1>4, <1>5, <1>6, <1>7
  <2>2. ~(z < y)
    BY <1>3, <1>4, <1>5, <1>6, <1>7
  <2> QED
    BY <1>3, <2>1, <2>2
<1>9. l = k
  BY <1>3, <1>4, <1>8
<1> QED
  BY <1>2, <1>8, <1>9

(* A position of the patched file that no edit is for,                       *)
LEMMA NotPatched ==
    ASSUME NEW f \in Seq(Byte), NEW edits, NEW p \in 1..Len(f),
           \A e \in edits : e[1] # p - 1
    PROVE  Patched(f, edits)[p] = f[p]
<1>1. Patched(f, edits)[p] = IF \E e \in edits : e[1] = p - 1
                             THEN (CHOOSE e \in edits : e[1] = p - 1)[2] ELSE f[p]
  BY DEF Patched
<1> QED
  BY <1>1, Zenon

(* and one that all edits for it agree on.                                   *)
LEMMA PatchedTo ==
    ASSUME NEW f \in Seq(Byte), NEW edits, NEW p \in 1..Len(f), NEW x,
           \E e \in edits : e[1] = p - 1, \A e \in edits : e[1] = p - 1 => e[2] = x
    PROVE  Patched(f, edits)[p] = x
<1>1. Patched(f, edits)[p] = IF \E e \in edits : e[1] = p - 1
                             THEN (CHOOSE e \in edits : e[1] = p - 1)[2] ELSE f[p]
  BY DEF Patched
<1> DEFINE chosen == CHOOSE e \in edits : e[1] = p - 1
<1>2. chosen \in edits /\ chosen[1] = p - 1
  BY Zenon
<1>3. chosen[2] = x
  BY <1>2, Zenon
<1> QED
  BY <1>1, <1>3, Zenon

(* The same, of whether the position holds the byte.                         *)
PatchedIs(f, edits, p, x) == Patched(f, edits)[p] = x

(* It holds the byte all its edits name.                                     *)
LEMMA PatchedHolds ==
    ASSUME NEW f \in Seq(Byte), NEW edits, NEW p \in 1..Len(f), NEW x,
           \E e \in edits : e[1] = p - 1, \A e \in edits : e[1] = p - 1 => e[2] = x
    PROVE  PatchedIs(f, edits, p, x)
BY PatchedTo DEF PatchedIs

(* The new data is in its slots,                                             *)
LEMMA PatchedSlot ==
    ASSUME NEW f, NEW N, NEW c, NEW O, NEW D, NEW E, Slots(f, N, c, O, D, E),
           NEW edits, SlotEdits(N, O, D, E, edits),
           NEW z \in 1..N, NEW k \in 1..Len(E[z])
    PROVE  O[z] + k \in 1..Len(f) /\ Patched(f, edits)[O[z] + k] = E[z][k]
<1>1. /\ N \in Nat /\ c \in [Nat -> Nat] /\ f \in Seq(Byte) /\ z \in Nat
      /\ O[z] \in Nat /\ D[z] \in Seq(Byte) /\ E[z] \in Seq(Byte)
      /\ Len(E[z]) = Len(D[z]) /\ SlotLaid(f, c, z, O[z], D[z])
  BY SlotFacts, Zenon
<1>2. D[z] # <<>> /\ k \in 1..Len(D[z]) /\ k \in Nat
  <2> DEFINE d == D[z]
  <2>1. k \in 1..Len(d) /\ d \in Seq(Byte)
    BY <1>1
  <2> HIDE DEF d
  <2>2. d # <<>> /\ k \in Nat
    BY <2>1
  <2> QED
    BY <2>1, <2>2 DEF d
<1>3. HoldsAt(f, O[z], D[z])
  BY <1>1, <1>2, Zenon DEF SlotLaid, Laid
<1>4. O[z] + k \in 1..Len(f) /\ f[O[z] + k] = D[z][k]
  <2>1. O[z] + Len(D[z]) <= Len(f) /\ f[O[z] + k] = D[z][k]
    BY <1>2, <1>3, Zenon DEF HoldsAt
  <2>2. Len(f) \in Nat /\ Len(D[z]) \in Nat
    <3>1. Len(f) \in Nat
      BY <1>1
    <3> DEFINE d == D[z]
    <3>2. d \in Seq(Byte)
      BY <1>1
    <3> HIDE DEF d
    <3>3. Len(d) \in Nat
      BY <3>2
    <3> QED
      BY <3>1, <3>3 DEF d
  <2> DEFINE m == Len(D[z])
             o == O[z]
             n == Len(f)
  <2>3. m \in Nat /\ o \in Nat /\ n \in Nat /\ o + m <= n /\ k \in 1..m
    BY <1>1, <1>2, <2>1, <2>2, Zenon
  <2> HIDE DEF m, o, n
  <2>4. o + k \in 1..n
    BY <2>3
  <2> QED
    BY <2>1, <2>4, Zenon DEF o, n
<1> DEFINE p == O[z] + k
<1>5. p - 1 = O[z] + k - 1 /\ p \in 1..Len(f)
  <2>1. p \in 1..Len(f)
    BY <1>4
  <2>2. p \in Nat /\ O[z] \in Nat /\ k \in Nat
    BY <1>1, <1>2, <2>1, PositionIsNat, Zenon
  <2>3. p = O[z] + k
    OBVIOUS
  <2> HIDE DEF p
  <2>4. p - 1 = O[z] + k - 1
    BY <2>2, <2>3, PositionOf, Zenon
  <2> QED
    BY <2>1, <2>4, Zenon
<1>6. p = O[z] + k
  OBVIOUS
<1> HIDE DEF p
<1>7. \A e \in edits : e[1] = p - 1 => e[2] = E[z][k]
  <2>1. ASSUME NEW e \in edits, e[1] = p - 1 PROVE e[2] = E[z][k]
    <3>1. e[1] = O[z] + k - 1
      BY <1>5, <2>1, Zenon
    <3> QED
      BY <3>1, EditInSlot, SMT
  <2> QED
    BY <2>1, Zenon
<1>8. CASE \E e \in edits : e[1] = p - 1
  <2> DEFINE x == E[z][k]
  <2>1. \A e \in edits : e[1] = p - 1 => e[2] = x
    BY <1>7, Zenon
  <2> HIDE DEF x
  <2>2. Patched(f, edits)[p] = x
    <3>1. f \in Seq(Byte) /\ p \in 1..Len(f) /\ \E e \in edits : e[1] = p - 1
      BY <1>1, <1>5, <1>8, Zenon
    <3>2. PatchedIs(f, edits, p, x)
      BY <2>1, <3>1, PatchedHolds, Zenon
    <3> QED
      BY <3>2, Zenon DEF PatchedIs
  <2> QED
    BY <1>4, <1>6, <2>2, Zenon DEF x
<1>9. CASE \A e \in edits : e[1] # p - 1
  <2>1. Patched(f, edits)[p] = f[p]
    BY <1>1, <1>5, <1>9, NotPatched, SMT
  <2>2. <<O[z] + k - 1, E[z][k]>> \notin edits
    <3> DEFINE e == <<O[z] + k - 1, E[z][k]>>
    <3>1. e[1] = p - 1
      BY <1>5, Zenon
    <3> HIDE DEF e
    <3>2. e \notin edits
      BY <1>9, <3>1, Zenon
    <3> QED
      BY <3>2 DEF e
  <2>3. E[z][k] = D[z][k]
    BY <2>2, Zenon DEF SlotEdits
  <2> QED
    BY <1>4, <1>6, <2>1, <2>3, Zenon
<1> QED
  BY <1>8, <1>9, Zenon

(* and what is in no slot is as it was: before the first, behind the last,   *)
(* and the zeros between a cursor and the slot.                              *)
LEMMA PatchedElsewhere ==
    ASSUME NEW f, NEW N, NEW c, NEW O, NEW D, NEW E, Slots(f, N, c, O, D, E),
           NEW edits, SlotEdits(N, O, D, E, edits), NEW p \in 1..Len(f),
           \/ p <= c[1] \/ c[N + 1] < p
           \/ \E z \in 1..N : D[z] # <<>> /\ c[z] < p /\ p <= O[z]
    PROVE  Patched(f, edits)[p] = f[p]
<1>1. f \in Seq(Byte) /\ N \in Nat /\ c \in [Nat -> Nat]
  BY Zenon DEF Slots
<1>2. p \in Nat
  BY PositionIsNat, Zenon
<1>3. ASSUME NEW e \in edits, e[1] = p - 1 PROVE FALSE
  <2>1. PICK y \in 1..N : \E l \in 1..Len(E[y]) : e = <<O[y] + l - 1, E[y][l]>>
    BY Zenon DEF SlotEdits
  <2>2. PICK l \in 1..Len(E[y]) : e = <<O[y] + l - 1, E[y][l]>>
    BY <2>1, Zenon
  <2>3. O[y] \in Nat /\ y \in Nat
    BY SlotFacts, Zenon
  <2>4. l \in Nat
    BY PositionIsNat, Zenon
  <2>5. p = O[y] + l
    <3>1. e[1] = O[y] + l - 1
      BY <2>2, Zenon
    <3>2. p - 1 = O[y] + l - 1
      BY <1>3, <3>1, Zenon
    <3> QED
      BY <1>2, <2>3, <2>4, <3>2, PositionOf, SMT
  <2>6. /\ c[1] <= c[y] /\ c[y] < p /\ p <= c[y + 1] /\ c[y + 1] <= c[N + 1]
        /\ \A x \in 1..N : /\ x < y => c[x + 1] <= c[y]
                           /\ y < x => c[y + 1] <= c[x]
    BY <2>5, SlotsApart, Zenon
  <2>7. /\ c[1] \in Nat /\ c[y] \in Nat /\ c[y + 1] \in Nat /\ c[N + 1] \in Nat
    <3>1. 1 \in Nat
      OBVIOUS
    <3> QED
      BY <1>1, <2>3, <3>1, CursorsAreNumbers, Zenon
  <2>8. ~(p <= c[1] \/ c[N + 1] < p)
    BY <1>2, <2>6, <2>7, WithinAll, Zenon
  <2>9. PICK z \in 1..N : D[z] # <<>> /\ c[z] < p /\ p <= O[z]
    BY <2>8, Zenon
  <2>10. /\ O[z] \in Nat /\ z \in Nat /\ c[z] \in Nat /\ c[z + 1] \in Nat /\ O[z] <= c[z + 1]
    <3>1. /\ N \in Nat /\ c \in [Nat -> Nat] /\ f \in Seq(Byte) /\ z \in Nat
          /\ O[z] \in Nat /\ D[z] \in Seq(Byte) /\ E[z] \in Seq(Byte)
          /\ Len(E[z]) = Len(D[z]) /\ SlotLaid(f, c, z, O[z], D[z])
      BY SlotFacts, Zenon
    <3>2. c[z] \in Nat /\ c[z + 1] \in Nat
      BY <3>1, CursorsAreNumbers, Zenon
    <3>3. O[z] <= c[z + 1]
      <4> DEFINE d == D[z]
                 o == O[z]
      <4>1. /\ c \in [Nat -> Nat] /\ z \in Nat /\ o \in Nat /\ d \in Seq(Byte)
            /\ SlotLaid(f, c, z, o, d) /\ d # <<>>
        BY <2>9, <3>1, Zenon
      <4> HIDE DEF d, o
      <4> QED
        BY <4>1, SlotEnds, Zenon DEF o
    <3> QED
      BY <3>1, <3>2, <3>3, Zenon
  <2>11. p <= c[z + 1]
    BY <1>2, <2>9, <2>10, NoHigher, Zenon
  <2>12. z # y
    <3>1. SUFFICES ASSUME z = y PROVE FALSE
      OBVIOUS
    <3>2. O[y] + l <= O[y]
      BY <2>5, <2>9, <3>1, Zenon
    <3>3. l > 0
      BY <2>2, <2>4
    <3> QED
      BY <2>3, <2>4, <3>2, <3>3, NotBefore, Zenon
  <2>13. z < y \/ y < z
    BY <2>3, <2>10, <2>12, Comparable, Zenon
  <2>14. c[z + 1] <= c[y] \/ c[y + 1] <= c[z]
    BY <2>6, <2>13, Zenon
  <2> QED
    BY <1>2, <2>6, <2>7, <2>9, <2>10, <2>11, <2>14, NotInBoth, Zenon
<1> QED
  <2>1. \A e \in edits : e[1] # p - 1
    BY <1>3, Zenon
  <2> QED
    BY <1>1, <2>1, NotPatched, SMT

(* What is written is bytes, so a patched file is one, of the same length.   *)
LEMMA PatchedIsFile ==
    ASSUME NEW f, NEW N, NEW c, NEW O, NEW D, NEW E, Slots(f, N, c, O, D, E),
           NEW edits, SlotEdits(N, O, D, E, edits)
    PROVE  Patched(f, edits) \in Seq(Byte) /\ Len(Patched(f, edits)) = Len(f)
<1> DEFINE g(p) == Patched(f, edits)[p]
           n == Len(f)
<1>1. f \in Seq(Byte) /\ N \in Nat /\ n \in Nat
  BY DEF Slots
<1>2. ASSUME NEW p \in 1..n PROVE g(p) \in Byte
  <2>1. CASE \A e \in edits : e[1] # p - 1
    <3>1. g(p) = f[p]
      BY <1>1, <1>2, <2>1, NotPatched, SMT
    <3>2. f[p] \in Byte
      BY <1>1
    <3> QED
      BY <3>1, <3>2
  <2>2. CASE \E e \in edits : e[1] = p - 1
    <3>1. PICK e \in edits : e[1] = p - 1
      BY <2>2
    <3>2. PICK y \in 1..N : \E l \in 1..Len(E[y]) : e = <<O[y] + l - 1, E[y][l]>>
      BY DEF SlotEdits
    <3>3. PICK l \in 1..Len(E[y]) : e = <<O[y] + l - 1, E[y][l]>>
      BY <3>2
    <3>4. O[y] \in Nat /\ E[y] \in Seq(Byte)
      BY SlotFacts, Zenon
    <3>5. p = O[y] + l
      <4>1. e[1] = O[y] + l - 1
        BY <3>3, Zenon
      <4>2. p \in Nat /\ l \in Nat
        BY PositionIsNat, Zenon
      <4> QED
        BY <3>1, <3>4, <4>1, <4>2, PositionOf, SMT
    <3>6. g(p) = E[y][l]
      BY <3>3, <3>5, PatchedSlot, SMT
    <3>7. E[y][l] \in Byte
      BY <3>3, <3>4
    <3> QED
      BY <3>6, <3>7
  <2> QED
    BY <2>1, <2>2, Zenon
<1>3. Patched(f, edits) = [p \in 1..n |-> g(p)]
  <2>1. \A p \in 1..n : Patched(f, edits)[p] = g(p)
    OBVIOUS
  <2>2. Patched(f, edits) = [p \in 1..n |->
            IF \E e \in edits : e[1] = p - 1
            THEN (CHOOSE e \in edits : e[1] = p - 1)[2] ELSE f[p]]
    BY DEF Patched
  <2> QED
    BY <2>2, Zenon
<1> HIDE DEF g, n
<1>4. [p \in 1..n |-> g(p)] \in Seq(Byte) /\ Len([p \in 1..n |-> g(p)]) = n
  BY <1>1, <1>2
<1> QED
  BY <1>3, <1>4 DEF n

(* The zeros before bytes of a file are in the file.                         *)
LEMMA WithinFile ==
    ASSUME NEW a \in Nat, NEW o \in Nat, NEW l \in Nat, NEW n \in Nat, o + l <= n,
           NEW p \in (a + 1)..o
    PROVE  p \in 1..n /\ a < p /\ p <= o
OBVIOUS

(* The slots of the patched file: the new data is in them, with the zeros    *)
(* before it, and around them is what was there.                             *)
LEMMA SlotsPatched ==
    ASSUME NEW f, NEW N, NEW c, NEW O, NEW D, NEW E, Slots(f, N, c, O, D, E),
           NEW edits, SlotEdits(N, O, D, E, edits)
    PROVE  /\ Patched(f, edits) \in Seq(Byte) /\ Len(Patched(f, edits)) = Len(f)
           /\ \A p \in 1..Len(f) : p <= c[1] \/ c[N + 1] < p => Patched(f, edits)[p] = f[p]
           /\ \A z \in 1..N : SlotLaid(Patched(f, edits), c, z, O[z], E[z])
<1> DEFINE g == Patched(f, edits)
<1>1. g \in Seq(Byte) /\ Len(g) = Len(f)
  BY PatchedIsFile, SMT
<1>2. ASSUME NEW p \in 1..Len(f), p <= c[1] \/ c[N + 1] < p PROVE g[p] = f[p]
  BY <1>2, PatchedElsewhere, SMT
<1>3. ASSUME NEW z \in 1..N PROVE SlotLaid(g, c, z, O[z], E[z])
  <2> DEFINE d == D[z]
             e == E[z]
             o == O[z]
  <2>1. /\ N \in Nat /\ c \in [Nat -> Nat] /\ f \in Seq(Byte) /\ z \in Nat
        /\ o \in Nat /\ d \in Seq(Byte) /\ e \in Seq(Byte)
        /\ Len(e) = Len(d) /\ SlotLaid(f, c, z, o, d)
    BY SlotFacts, Zenon
  <2>2. \A k \in 1..Len(e) : o + k \in 1..Len(f) /\ g[o + k] = e[k]
    <3>1. ASSUME NEW k \in 1..Len(E[z])
          PROVE  O[z] + k \in 1..Len(f) /\ g[O[z] + k] = E[z][k]
      BY PatchedSlot, SMT
    <3> QED
      BY <3>1, Zenon
  <2>3. ASSUME d # <<>>, NEW p \in 1..Len(f), c[z] < p, p <= o
        PROVE  g[p] = f[p]
    <3>1. \E y \in 1..N : D[y] # <<>> /\ c[y] < p /\ p <= O[y]
      BY <2>3, Zenon
    <3> QED
      BY <3>1, PatchedElsewhere, SMT
  <2> HIDE DEF d, e, o, g
  <2>4. CASE e = <<>>
    <3>1. d = <<>>
      BY <2>1, <2>4
    <3>2. c[z + 1] = c[z]
      BY <2>1, <3>1, Zenon DEF SlotLaid, Laid
    <3>3. SlotLaid(g, c, z, o, e)
      BY <2>4, <3>2, Zenon DEF SlotLaid
    <3> QED
      BY <3>3 DEF o, e
  <2>5. CASE e # <<>>
    <3>1. d # <<>>
      BY <2>1, <2>5
    <3>2. Laid(f, c[z], o, d, c[z + 1])
      BY <2>1, <3>1, Zenon DEF SlotLaid
    <3>3. /\ c[z] <= o /\ c[z + 1] = o + Len(e) /\ o + Len(e) <= Len(g)
          /\ \A p \in (c[z] + 1)..o : f[p] = Zero
      BY <1>1, <2>1, <3>2 DEF Laid, HoldsAt, ZerosBetween
    <3>4. ASSUME NEW p \in (c[z] + 1)..o PROVE g[p] = Zero
      <4>1. c[z] \in Nat
        BY <2>1, CursorsAreNumbers, Zenon
      <4>2. Len(f) \in Nat /\ Len(e) \in Nat /\ o + Len(e) <= Len(f)
        BY <1>1, <2>1, <3>3
      <4>3. p \in 1..Len(f) /\ c[z] < p /\ p <= o
        BY <2>1, <3>3, <4>1, <4>2, WithinFile, Zenon
      <4>4. g[p] = f[p]
        BY <2>3, <3>1, <4>3, Zenon
      <4> QED
        BY <3>3, <4>4, Zenon
    <3>5. HoldsAt(g, o, e)
      BY <2>2, <3>3, Zenon DEF HoldsAt
    <3>6. ZerosBetween(g, c[z], o)
      BY <3>4, Zenon DEF ZerosBetween
    <3>7. Laid(g, c[z], o, e, c[z + 1])
      BY <3>3, <3>5, <3>6, Zenon DEF Laid
    <3>8. SlotLaid(g, c, z, o, e)
      BY <2>5, <3>7, Zenon DEF SlotLaid
    <3> QED
      BY <3>8 DEF o, e
  <2> QED
    BY <2>4, <2>5, Zenon
<1> QED
  BY <1>1, <1>2, <1>3, Zenon

(* A segment that was read is a slot,                                        *)
LEMMA SegmentIsSlot ==
    ASSUME NEW f, NEW segment \in Segment, NEW c \in [Nat -> Nat], NEW z \in Nat,
           SegmentLaid(f, segment, segment.header, c[z], c[z + 1]),
           SegmentBytes(segment) = segment.data
    PROVE  /\ SlotLaid(f, c, z, segment.header.offset, segment.data)
           /\ segment.header.filesz = Len(segment.data)
<1> DEFINE h == segment.header
           d == segment.data
<1>1. /\ h \in Phdr /\ d \in Seq(Byte) /\ Len(d) \in Nat /\ h.filesz \in Nat
  BY SegmentFacts, U64Nat
<1>2. Len(SegmentBytes(segment)) = Writable(segment)
  BY SegmentBytesFacts
<1>3. Writable(segment) = Len(d)
  BY <1>2
<1>4. CASE Writable(segment) = 0
  <2>1. h = PhdrAt(h, 0, 0) /\ c[z + 1] = c[z]
    BY <1>4 DEF SegmentLaid
  <2>2. h.filesz = 0
    BY <1>1, <2>1, PhdrAtFacts, U64Nat
  <2>3. d = <<>>
    <3>1. d \in Seq(Byte) /\ Len(d) = 0
      BY <1>1, <1>3, <1>4
    <3> HIDE DEF d
    <3> QED
      BY <3>1
  <2> QED
    BY <1>3, <1>4, <2>1, <2>2, <2>3 DEF SlotLaid
<1>5. CASE Writable(segment) # 0
  <2> DEFINE o == SegmentOffset(c[z], segment)
  <2>1. h = PhdrAt(h, o, Len(d)) /\ Laid(f, c[z], o, d, c[z + 1])
    BY <1>5 DEF SegmentLaid
  <2>2. h.offset = o /\ h.filesz = Len(d)
    <3>1. PhdrAt(h, o, Len(d)).offset = o /\ PhdrAt(h, o, Len(d)).filesz = Len(d)
      BY <1>1 DEF PhdrAt, Phdr
    <3> QED
      BY <2>1, <3>1
  <2>3. d # <<>>
    BY <1>1, <1>3, <1>5
  <2> QED
    BY <2>1, <2>2, <2>3 DEF SlotLaid
<1> QED
  BY <1>4, <1>5

(* and with other data of the same length in the slot it is laid again.      *)
LEMMA SlotIsSegment ==
    ASSUME NEW f, NEW segment \in Segment, NEW c \in [Nat -> Nat], NEW z \in Nat,
           SegmentLaid(f, segment, segment.header, c[z], c[z + 1]),
           SegmentBytes(segment) = segment.data,
           NEW g, NEW other \in Segment, other.header = segment.header,
           Len(other.data) = Len(segment.data),
           SlotLaid(g, c, z, segment.header.offset, other.data)
    PROVE  /\ SegmentLaid(g, other, segment.header, c[z], c[z + 1])
           /\ SegmentBytes(other) = other.data
<1> DEFINE h == segment.header
           d == segment.data
           e == other.data
<1>1. /\ h \in Phdr /\ d \in Seq(Byte) /\ e \in Seq(Byte) /\ Len(d) \in Nat /\ h.filesz \in Nat
  BY SegmentFacts, U64Nat
<1>2. Writable(segment) = Len(d) /\ h.filesz = Len(d)
  BY SegmentBytesFacts, SegmentIsSlot
<1>3. Writable(other) = Len(e) /\ Writable(other) = Writable(segment)
  BY <1>1, <1>2 DEF Writable, Minimum
<1>4. SegmentBytes(other) = e
  <2>1. SegmentBytes(other) = SubSeq(e, 1, Len(e))
    BY <1>3 DEF SegmentBytes
  <2> HIDE DEF e
  <2> QED
    BY <1>1, <2>1
<1>5. CASE Writable(segment) = 0
  BY <1>3, <1>4, <1>5 DEF SegmentLaid
<1>6. CASE Writable(segment) # 0
  <2>1. SegmentOffset(c[z], other) = SegmentOffset(c[z], segment)
    BY DEF SegmentOffset, IsLoad
  <2> DEFINE o == SegmentOffset(c[z], segment)
  <2>2. h = PhdrAt(h, o, Len(d))
    BY <1>6 DEF SegmentLaid
  <2>3. h.offset = o
    <3>1. PhdrAt(h, o, Len(d)).offset = o
      BY <1>1 DEF PhdrAt, Phdr
    <3> QED
      BY <2>2, <3>1
  <2>4. e # <<>>
    BY <1>1, <1>3, <1>6
  <2>5. Laid(g, c[z], o, e, c[z + 1])
    BY <2>3, <2>4 DEF SlotLaid
  <2> QED
    BY <1>3, <1>4, <1>6, <2>1, <2>2, <2>5 DEF SegmentLaid
<1> QED
  BY <1>4, <1>5, <1>6

(* Sequences of the same length are both empty or neither.                   *)
LEMMA EmptyAlike ==
    ASSUME NEW S, NEW d \in Seq(S), NEW e \in Seq(S), Len(d) = Len(e)
    PROVE  d = <<>> <=> e = <<>>
<1>1. d = <<>> <=> Len(d) = 0
  OBVIOUS
<1>2. e = <<>> <=> Len(e) = 0
  OBVIOUS
<1> QED
  BY <1>1, <1>2

(* The bytes of a section that are in the file.                              *)
FileBytes(section) == IF IsNobits(section) THEN <<>> ELSE section.data

(* A section that was read is a slot too,                                    *)
LEMMA SectionIsSlot ==
    ASSUME NEW f, NEW section \in Section, NEW c \in [Nat -> Nat], NEW z \in Nat,
           SectionLaid(f, section, section, c[z], c[z + 1])
    PROVE  SlotLaid(f, c, z, section.header.offset, FileBytes(section))
<1> DEFINE h == section.header
           d == section.data
           o == SectionOffset(c[z], section)
<1>1. CASE IsNobits(section)
  BY <1>1 DEF SectionLaid, FileBytes, SlotLaid
<1>2. CASE ~IsNobits(section) /\ d = <<>>
  BY <1>2 DEF SectionLaid, FileBytes, SlotLaid
<1>3. CASE ~IsNobits(section) /\ d # <<>>
  <2>1. section = SectionAt(section, o) /\ Laid(f, c[z], o, d, c[z + 1])
    BY <1>3 DEF SectionLaid
  <2>2. h.offset = o
    <3>1. SectionAt(section, o).header.offset = o
      BY DEF SectionAt, Section, Shdr
    <3> QED
      BY <2>1, <3>1
  <2> QED
    BY <1>3, <2>1, <2>2 DEF FileBytes, SlotLaid
<1> QED
  BY <1>1, <1>2, <1>3

(* and with other data of the same length in the slot it is laid again.      *)
LEMMA SlotIsSection ==
    ASSUME NEW f, NEW section \in Section, NEW c \in [Nat -> Nat], NEW z \in Nat,
           SectionLaid(f, section, section, c[z], c[z + 1]),
           NEW g, NEW other \in Section, other.header = section.header,
           other.name = section.name,
           Len(other.data) = Len(section.data), IsNobits(section) => other = section,
           SlotLaid(g, c, z, section.header.offset, FileBytes(other))
    PROVE  SectionLaid(g, other, other, c[z], c[z + 1])
<1> DEFINE h == section.header
           d == section.data
           e == other.data
           o == SectionOffset(c[z], section)
<1>1. IsNobits(other) <=> IsNobits(section)
  BY DEF IsNobits
<1>2. h \in Shdr /\ d \in Seq(Byte) /\ e \in Seq(Byte)
  BY SectionFacts
<1>3. d = <<>> <=> e = <<>>
  <2>1. d \in Seq(Byte) /\ e \in Seq(Byte) /\ Len(d) = Len(e)
    BY <1>2
  <2> QED
    BY <2>1, EmptyAlike, Zenon
<1>4. CASE IsNobits(section)
  BY <1>1, <1>4 DEF SectionLaid
<1>5. CASE ~IsNobits(section) /\ d = <<>>
  <2>1. c[z + 1] = c[z] /\ section = SectionAt(section, h.offset)
    BY <1>5 DEF SectionLaid
  <2>2. h = [h EXCEPT !.offset = h.offset, !.size = Len(d)]
    BY <2>1 DEF SectionAt, Section
  <2>3. other = SectionAt(other, h.offset)
    BY <2>2 DEF SectionAt, Section
  <2> QED
    BY <1>1, <1>3, <1>5, <2>1, <2>3 DEF SectionLaid
<1>6. CASE ~IsNobits(section) /\ d # <<>>
  <2>1. section = SectionAt(section, o)
    BY <1>6 DEF SectionLaid
  <2>2. h = [h EXCEPT !.offset = o, !.size = Len(d)]
    BY <2>1 DEF SectionAt, Section
  <2>3. h.offset = o
    <3>1. [h EXCEPT !.offset = o, !.size = Len(d)].offset = o
      BY <1>2 DEF Shdr
    <3> QED
      BY <2>2, <3>1
  <2>4. SectionOffset(c[z], other) = o
    BY DEF SectionOffset
  <2>5. other = SectionAt(other, o)
    BY <2>2 DEF SectionAt, Section
  <2>6. FileBytes(other) = e /\ e # <<>>
    BY <1>1, <1>3, <1>6 DEF FileBytes
  <2>7. Laid(g, c[z], o, e, c[z + 1])
    BY <2>3, <2>6 DEF SlotLaid
  <2> QED
    BY <1>1, <1>3, <1>6, <2>4, <2>5, <2>7 DEF SectionLaid
<1> QED
  BY <1>4, <1>5, <1>6

(* The slots of an image that was read: its segments and its sections.       *)
SlotOffsets(im) ==
    [z \in 1..(Len(im.segments) + Len(im.sections)) |->
        IF z <= Len(im.segments) THEN im.segments[z].header.offset
        ELSE im.sections[z - Len(im.segments)].header.offset]
SlotData(im) ==
    [z \in 1..(Len(im.segments) + Len(im.sections)) |->
        IF z <= Len(im.segments) THEN im.segments[z].data
        ELSE FileBytes(im.sections[z - Len(im.segments)])]

(* An image and one with other data in its place. The name table is the      *)
(* same.                                                                     *)
SameShape(im, other) ==
    /\ other.header = im.header
    /\ Len(other.segments) = Len(im.segments) /\ Len(other.sections) = Len(im.sections)
    /\ \A i \in 1..Len(im.segments) :
           /\ other.segments[i].header = im.segments[i].header
           /\ Len(other.segments[i].data) = Len(im.segments[i].data)
    /\ \A i \in 1..Len(im.sections) :
           /\ other.sections[i].header = im.sections[i].header
           /\ other.sections[i].name = im.sections[i].name
           /\ Len(other.sections[i].data) = Len(im.sections[i].data)
           /\ IsNobits(im.sections[i]) \/ IsShstrtab(im.sections[i]) =>
                  other.sections[i] = im.sections[i]

(* A slot of an image is a segment or a section.                             *)
LEMMA SlotKinds ==
    ASSUME NEW n \in Nat, NEW m \in Nat, NEW z \in 1..(n + m)
    PROVE  z \in Nat /\ (z <= n => z \in 1..n)
           /\ (~(z <= n) => z - n \in 1..m /\ z = n + (z - n) /\ z + 1 = n + (z - n) + 1)
OBVIOUS

(* The slot of a section is behind those of the segments,                    *)
LEMMA SectionSlot ==
    ASSUME NEW n \in Nat, NEW m \in Nat, NEW i \in 1..m
    PROVE  n + i \in 1..(n + m) /\ n + i \in Nat /\ ~(n + i <= n) /\ (n + i) - n = i
OBVIOUS

(* and that of a segment has the number of the segment.                      *)
LEMMA SegmentSlot ==
    ASSUME NEW n \in Nat, NEW m \in Nat, NEW i \in 1..n
    PROVE  i \in 1..(n + m) /\ i \in Nat /\ i <= n
OBVIOUS

(* An image that was read has slots.                                         *)
LEMMA ImageSlots ==
    ASSUME NEW im \in ElfImage, NEW f, NEW phs, NEW c, NEW b, MadeAsIs(im, f, phs, c, b),
           NEW other \in ElfImage, SameShape(im, other)
    PROVE  Slots(f, Len(im.segments) + Len(im.sections), c, SlotOffsets(im),
                 SlotData(im), SlotData(other))
<1> DEFINE n == Len(im.segments)
           m == Len(im.sections)
           O == SlotOffsets(im)
           D == SlotData(im)
           E == SlotData(other)
<1>1. /\ im.segments \in Seq(Segment) /\ im.sections \in Seq(Section)
      /\ other.segments \in Seq(Segment) /\ other.sections \in Seq(Section)
      /\ n \in Nat /\ m \in Nat
  BY DEF ElfImage
<1>2. f \in Seq(Byte) /\ c \in [Nat -> Nat]
  BY DEF MadeAsIs, BuiltWith, SegmentsLaid
<1>3. /\ \A z \in 1..(n + m) :
             /\ O[z] = IF z <= n THEN im.segments[z].header.offset
                       ELSE im.sections[z - n].header.offset
             /\ D[z] = IF z <= n THEN im.segments[z].data
                       ELSE FileBytes(im.sections[z - n])
             /\ E[z] = IF z <= n THEN other.segments[z].data
                       ELSE FileBytes(other.sections[z - n])
  BY DEF SlotOffsets, SlotData, SameShape
<1>4. DOMAIN O = 1..(n + m) /\ DOMAIN D = 1..(n + m) /\ DOMAIN E = 1..(n + m)
  BY DEF SlotOffsets, SlotData, SameShape
<1>5. O = [z \in 1..(n + m) |-> O[z]] /\ D = [z \in 1..(n + m) |-> D[z]]
      /\ E = [z \in 1..(n + m) |-> E[z]]
  BY DEF SlotOffsets, SlotData, SameShape
<1> HIDE DEF O, D, E
<1>6. ASSUME NEW z \in 1..(n + m)
      PROVE  /\ O[z] \in Nat /\ D[z] \in Seq(Byte) /\ E[z] \in Seq(Byte)
             /\ Len(E[z]) = Len(D[z]) /\ SlotLaid(f, c, z, O[z], D[z])
  <2>1. CASE z <= n
    <3> DEFINE was == im.segments[z]
               is  == other.segments[z]
    <3>1. z \in 1..n /\ z \in Nat
      BY <1>1, <2>1, SlotKinds, Zenon
    <3>2. z \in 1..Len(other.segments)
      BY <3>1, Zenon DEF SameShape
    <3>3. was \in Segment /\ is \in Segment
      BY <1>1, <3>1, <3>2, Element, Zenon
    <3>4. O[z] = was.header.offset /\ D[z] = was.data /\ E[z] = is.data
      BY <1>3, <2>1
    <3>5. Len(is.data) = Len(was.data)
      BY <3>1 DEF SameShape
    <3>6. /\ SegmentLaid(f, was, was.header, c[z], c[z + 1])
          /\ SegmentBytes(was) = was.data
      BY <3>1 DEF MadeAsIs, BuiltWith, SegmentsLaid
    <3> HIDE DEF was, is
    <3>7. was.header.offset \in Nat /\ was.data \in Seq(Byte) /\ is.data \in Seq(Byte)
      <4>1. was.header.offset \in U64
        BY <3>3, SegmentFacts DEF Phdr
      <4> QED
        BY <3>3, <4>1, SegmentFacts, U64Nat
    <3>8. SlotLaid(f, c, z, was.header.offset, was.data)
      BY <1>2, <3>1, <3>3, <3>6, SegmentIsSlot, Zenon
    <3> QED
      BY <3>4, <3>5, <3>7, <3>8
  <2>2. CASE ~(z <= n)
    <3> DEFINE i == z - n
               was == im.sections[i]
               is  == other.sections[i]
    <3>1. i \in 1..m /\ z \in Nat /\ z = n + i /\ z + 1 = n + i + 1
      BY <1>1, <2>2, SlotKinds, Zenon
    <3>2. i \in 1..Len(other.sections)
      BY <3>1, Zenon DEF SameShape
    <3>3. was \in Section /\ is \in Section
      BY <1>1, <3>1, <3>2, Element, Zenon
    <3>4. O[z] = was.header.offset /\ D[z] = FileBytes(was) /\ E[z] = FileBytes(is)
      BY <1>3, <2>2
    <3>5. Len(is.data) = Len(was.data) /\ is.header = was.header
      BY <3>1 DEF SameShape
    <3>6. SectionLaid(f, was, was, c[z], c[z + 1])
      <4>1. SectionLaid(f, was, was, c[n + i], c[n + i + 1])
        BY <3>1 DEF MadeAsIs, BuiltWith, SectionsLaid
      <4> QED
        BY <3>1, <4>1, Zenon
    <3> HIDE DEF was, is, i
    <3>7. was.header.offset \in Nat /\ was.data \in Seq(Byte) /\ is.data \in Seq(Byte)
      <4>1. was.header.offset \in U64
        BY <3>3, SectionFacts DEF Shdr
      <4> QED
        BY <3>3, <4>1, SectionFacts, U64Nat
    <3>8. SlotLaid(f, c, z, was.header.offset, FileBytes(was))
      BY <1>2, <3>1, <3>3, <3>6, SectionIsSlot, Zenon
    <3>9. /\ FileBytes(was) \in Seq(Byte) /\ FileBytes(is) \in Seq(Byte)
          /\ Len(FileBytes(is)) = Len(FileBytes(was))
      BY <3>5, <3>7 DEF FileBytes, IsNobits
    <3> QED
      BY <3>4, <3>7, <3>8, <3>9
  <2> QED
    BY <2>1, <2>2
<1>7. O \in [1..(n + m) -> Nat] /\ D \in [1..(n + m) -> Seq(Byte)]
      /\ E \in [1..(n + m) -> Seq(Byte)]
  BY <1>5, <1>6
<1>8. n + m \in Nat
  <2>1. n \in Nat /\ m \in Nat
    BY <1>1, Zenon
  <2> HIDE DEF n, m
  <2> QED
    BY <2>1
<1> QED
  BY <1>2, <1>6, <1>7, <1>8 DEF Slots, O, D, E

(* Bytes held where two files agree.                                         *)
LEMMA HoldsAlike ==
    ASSUME NEW f \in Seq(Byte), NEW g, Len(g) = Len(f), NEW o \in Nat,
           NEW bytes \in Seq(Byte), HoldsAt(f, o, bytes),
           \A p \in 1..Len(f) : o < p /\ p <= o + Len(bytes) => g[p] = f[p]
    PROVE  HoldsAt(g, o, bytes)
<1>1. Len(f) \in Nat /\ Len(bytes) \in Nat
  OBVIOUS
<1>2. o + Len(bytes) <= Len(f) /\ \A k \in 1..Len(bytes) : f[o + k] = bytes[k]
  BY DEF HoldsAt
<1>3. ASSUME NEW k \in 1..Len(bytes) PROVE g[o + k] = bytes[k]
  <2>1. o + k \in 1..Len(f) /\ o < o + k /\ o + k <= o + Len(bytes)
    BY <1>1, <1>2
  <2> QED
    BY <1>2, <2>1
<1> QED
  BY <1>2, <1>3 DEF HoldsAt

(* The section header table, where two files agree behind the data.          *)
LEMMA TableAlike ==
    ASSUME NEW f \in Seq(Byte), NEW g, Len(g) = Len(f), NEW secs \in Seq(Section),
           NEW hdr \in ElfHeader, NEW end \in Nat, TableLaid(f, secs, hdr, end),
           \A p \in 1..Len(f) : end < p => g[p] = f[p],
           NEW tecs, HeadersOf(tecs) = HeadersOf(secs), tecs = <<>> <=> secs = <<>>
    PROVE  TableLaid(g, tecs, hdr, end)
<1>1. CASE secs = <<>>
  BY <1>1 DEF TableLaid
<1>2. CASE secs # <<>>
  <2> DEFINE table == EncodedTable(HeadersOf(secs), ShEntSize)
             at    == hdr.shoff
  <2>1. Laid(f, end, at, table, Len(f))
    BY <1>2 DEF TableLaid
  <2>2. at \in Nat
    BY U64Nat DEF ElfHeader
  <2>3. table \in Seq(Byte)
    <3>1. ASSUME NEW i \in 1..Len(secs) PROVE secs[i].header \in Shdr
      <4>1. secs[i] \in Section
        BY Element
      <4> QED
        BY <4>1, SectionFacts
    <3>2. HeadersOf(secs) \in Seq(Shdr)
      BY <3>1 DEF HeadersOf
    <3> QED
      BY <3>2, EncodedTableBytes, FormatAssumption
  <2> HIDE DEF table, at
  <2>4. /\ end <= at /\ Len(f) = at + Len(table) /\ HoldsAt(f, at, table)
        /\ \A p \in (end + 1)..at : f[p] = Zero
    BY <2>1 DEF Laid, ZerosBetween
  <2>5. HoldsAt(g, at, table)
    <3>1. \A p \in 1..Len(f) : at < p => g[p] = f[p]
      BY <2>2, <2>4
    <3> QED
      BY <2>2, <2>3, <2>4, <3>1, HoldsAlike
  <2>6. ASSUME NEW p \in (end + 1)..at PROVE g[p] = Zero
    <3>1. p \in 1..Len(f) /\ end < p
      BY <2>2, <2>3, <2>4
    <3> QED
      BY <2>4, <3>1
  <2>7. Laid(g, end, at, table, Len(g))
    BY <2>4, <2>5, <2>6 DEF Laid, ZerosBetween
  <2> QED
    BY <1>2, <2>7 DEF TableLaid, table, at
<1> QED
  BY <1>1, <1>2

(* The data of an image replaced, in it and in its file: still the file that *)
(* try_build makes of it.                                                    *)
LEMMA MadeOfEdited ==
    ASSUME NEW im \in ElfImage, NEW f, NEW phs, NEW c, NEW b, MadeAsIs(im, f, phs, c, b),
           NEW other \in ElfImage, SameShape(im, other), NEW edits,
           SlotEdits(Len(im.segments) + Len(im.sections), SlotOffsets(im),
                     SlotData(im), SlotData(other), edits)
    PROVE  MadeAsIs(other, Patched(f, edits), phs, c, b)
<1> DEFINE n == Len(im.segments)
           m == Len(im.sections)
           O == SlotOffsets(im)
           E == SlotData(other)
           g == Patched(f, edits)
           segs == im.segments
           secs == im.sections
           qegs == other.segments
           tecs == other.sections
           hdr  == im.header
           end  == c[n + m + 1]
<1>1. /\ segs \in Seq(Segment) /\ secs \in Seq(Section)
      /\ qegs \in Seq(Segment) /\ tecs \in Seq(Section)
      /\ n \in Nat /\ m \in Nat /\ Len(qegs) = n /\ Len(tecs) = m
      /\ other.header = hdr /\ hdr \in ElfHeader
  <2>1. /\ segs \in Seq(Segment) /\ secs \in Seq(Section)
        /\ qegs \in Seq(Segment) /\ tecs \in Seq(Section) /\ hdr \in ElfHeader
    BY DEF ElfImage
  <2>2. Len(qegs) = n /\ Len(tecs) = m /\ other.header = hdr
    BY DEF SameShape
  <2> QED
    BY <2>1, <2>2
<1>2. /\ phs \in Seq(Phdr) /\ Len(phs) = n /\ f \in Seq(Byte)
      /\ \A i \in 1..n : segs[i].header = phs[i] /\ SegmentBytes(segs[i]) = segs[i].data
      /\ WithTable(secs) = secs
      /\ BuiltWith(im, f, phs, secs, hdr, c, b, secs)
  BY DEF MadeAsIs
<1>3. /\ c \in [Nat -> Nat] /\ c[1] = EhSize + PhEntSize * n
      /\ \A i \in 1..n : SegmentLaid(f, segs[i], phs[i], c[i], c[i + 1])
  BY <1>2 DEF BuiltWith, SegmentsLaid
<1>4. \A i \in 1..m : SectionLaid(f, secs[i], secs[i], c[n + i], c[n + i + 1])
  BY <1>2 DEF BuiltWith, SectionsLaid
<1>5. Slots(f, n + m, c, O, SlotData(im), E)
  BY ImageSlots
<1>6. /\ g \in Seq(Byte) /\ Len(g) = Len(f)
      /\ \A p \in 1..Len(f) : p <= c[1] \/ end < p => g[p] = f[p]
      /\ \A z \in 1..(n + m) : SlotLaid(g, c, z, O[z], E[z])
  <2> DEFINE N == n + m
             D == SlotData(im)
  <2>1. Slots(f, N, c, O, D, E) /\ SlotEdits(N, O, D, E, edits)
    BY <1>5, Zenon
  <2> HIDE DEF N, O, D, E
  <2>2. /\ Patched(f, edits) \in Seq(Byte) /\ Len(Patched(f, edits)) = Len(f)
        /\ \A p \in 1..Len(f) : p <= c[1] \/ c[N + 1] < p => Patched(f, edits)[p] = f[p]
        /\ \A z \in 1..N : SlotLaid(Patched(f, edits), c, z, O[z], E[z])
    BY <2>1, SlotsPatched, SMT
  <2> QED
    BY <2>2, Zenon DEF N, O, E
<1>7. \A i \in 1..n : qegs[i].header = segs[i].header /\ Len(qegs[i].data) = Len(segs[i].data)
  BY DEF SameShape
<1>8. \A i \in 1..m :
          /\ tecs[i].header = secs[i].header /\ tecs[i].name = secs[i].name
          /\ Len(tecs[i].data) = Len(secs[i].data)
          /\ IsNobits(secs[i]) \/ IsShstrtab(secs[i]) => tecs[i] = secs[i]
  BY DEF SameShape
<1>9. /\ \A i \in 1..n : i \in 1..(n + m) /\ O[i] = segs[i].header.offset /\ E[i] = qegs[i].data
      /\ \A i \in 1..m : /\ n + i \in 1..(n + m) /\ O[n + i] = secs[i].header.offset
                         /\ E[n + i] = FileBytes(tecs[i])
  <2>1. \A z \in 1..(n + m) :
            /\ O[z] = IF z <= n THEN segs[z].header.offset ELSE secs[z - n].header.offset
            /\ E[z] = IF z <= n THEN qegs[z].data ELSE FileBytes(tecs[z - n])
    BY <1>1 DEF SlotOffsets, SlotData
  <2> HIDE DEF n, m, O, E, segs, secs, qegs, tecs
  <2>2. ASSUME NEW i \in 1..n
        PROVE  i \in 1..(n + m) /\ O[i] = segs[i].header.offset /\ E[i] = qegs[i].data
    <3>1. i \in 1..(n + m) /\ i <= n
      BY <1>1, SegmentSlot
    <3> QED
      BY <2>1, <3>1
  <2>3. ASSUME NEW i \in 1..m
        PROVE  /\ n + i \in 1..(n + m) /\ O[n + i] = secs[i].header.offset
               /\ E[n + i] = FileBytes(tecs[i])
    <3>1. n + i \in 1..(n + m) /\ ~(n + i <= n) /\ (n + i) - n = i
      BY <1>1, SectionSlot
    <3> QED
      BY <2>1, <3>1
  <2> QED
    BY <2>2, <2>3
<1> HIDE DEF n, m, O, E, g, segs, secs, qegs, tecs, hdr, end
<1>10. ASSUME NEW i \in 1..n
       PROVE  /\ SegmentLaid(g, qegs[i], phs[i], c[i], c[i + 1])
              /\ qegs[i].header = phs[i] /\ SegmentBytes(qegs[i]) = qegs[i].data
  <2> DEFINE was == segs[i]
             is  == qegs[i]
  <2>1. was \in Segment /\ is \in Segment /\ i \in Nat
    <3>1. i \in 1..Len(segs) /\ i \in 1..Len(qegs)
      BY <1>1 DEF n, segs
    <3> QED
      BY <1>1, <3>1, Element
  <2>2. /\ SegmentLaid(f, was, was.header, c[i], c[i + 1]) /\ SegmentBytes(was) = was.data
        /\ is.header = was.header /\ Len(is.data) = Len(was.data) /\ was.header = phs[i]
    BY <1>2, <1>3, <1>7
  <2>3. SlotLaid(g, c, i, was.header.offset, is.data)
    <3>1. SlotLaid(g, c, i, O[i], E[i])
      BY <1>6, <1>9, Zenon
    <3> QED
      BY <1>9, <3>1
  <2> HIDE DEF was, is
  <2>4. /\ SegmentLaid(g, is, was.header, c[i], c[i + 1])
        /\ SegmentBytes(is) = is.data
    BY <1>3, <2>1, <2>2, <2>3, SlotIsSegment, Zenon
  <2> QED
    BY <2>2, <2>4 DEF was, is
<1>11. ASSUME NEW i \in 1..m
       PROVE  SectionLaid(g, tecs[i], tecs[i], c[n + i], c[n + i + 1])
  <2> DEFINE was == secs[i]
             is  == tecs[i]
             z   == n + i
  <2>1. was \in Section /\ is \in Section /\ z \in Nat
    <3>1. i \in 1..Len(secs) /\ i \in 1..Len(tecs)
      BY <1>1 DEF m, secs
    <3>2. z \in Nat
      BY <1>1
    <3> QED
      BY <1>1, <3>1, <3>2, Element
  <2>2. /\ SectionLaid(f, was, was, c[z], c[z + 1])
        /\ is.header = was.header /\ is.name = was.name /\ Len(is.data) = Len(was.data)
        /\ IsNobits(was) => is = was
    BY <1>4, <1>8
  <2>3. SlotLaid(g, c, z, was.header.offset, FileBytes(is))
    <3>1. SlotLaid(g, c, z, O[z], E[z])
      BY <1>6, <1>9, Zenon
    <3> QED
      BY <1>9, <3>1
  <2> HIDE DEF was, is, z
  <2>4. SectionLaid(g, is, is, c[z], c[z + 1])
    BY <1>3, <2>1, <2>2, <2>3, SlotIsSection, Zenon
  <2> QED
    BY <2>4 DEF is, z
<1>12. tecs = <<>> <=> secs = <<>>
  <2>1. Len(tecs) = Len(secs)
    BY <1>1 DEF m, secs
  <2> QED
    BY <1>1, <2>1, EmptyAlike, Zenon
<1>13. \A i \in 1..m : IsShstrtab(tecs[i]) <=> IsShstrtab(secs[i])
  BY <1>8 DEF IsShstrtab
<1>14. WithTable(tecs) = tecs
  <2>1. secs = <<>> \/ \E i \in 1..m : IsShstrtab(secs[i])
    <3>1. SUFFICES ASSUME ~(secs = <<>> \/ \E i \in 1..m : IsShstrtab(secs[i]))
                   PROVE  FALSE
      OBVIOUS
    <3>2. secs = Append(secs, NewShstrtab)
      BY <1>2, <3>1 DEF WithTable, m, secs
    <3>3. Len(Append(secs, NewShstrtab)) = Len(secs) + 1 /\ Len(secs) \in Nat
      BY <1>1
    <3> QED
      BY <3>2, <3>3
  <2> QED
    BY <1>1, <1>12, <1>13, <2>1 DEF WithTable
<1>15. NamesGiven(tecs, b, tecs) /\ b \in [Nat -> Seq(RawByte)]
  <2>1. NamesGiven(secs, b, secs) /\ b \in [Nat -> Seq(RawByte)]
    BY <1>2 DEF BuiltWith, secs
  <2>2. /\ b[1] = <<Zero>>
        /\ \A i \in 1..m : b[i + 1] = Append(b[i] \o NameBytes[secs[i].name], Zero)
        /\ \A i \in 1..m : secs[i] = NamedWith(secs[i], Len(b[i]), b[m + 1])
    BY <2>1 DEF NamesGiven, Collected, m, secs
  <2>3. \A i \in 1..m : b[i + 1] = Append(b[i] \o NameBytes[tecs[i].name], Zero)
    BY <1>8, <2>2
  <2>4. ASSUME NEW i \in 1..m
        PROVE  tecs[i] = NamedWith(tecs[i], Len(b[i]), b[m + 1])
    <3>1. CASE IsShstrtab(secs[i])
      BY <1>8, <2>2, <3>1
    <3>2. CASE ~IsShstrtab(secs[i])
      <4> DEFINE was == secs[i]
                 is  == tecs[i]
                 o   == Len(b[i])
      <4>1. was \in Section /\ is \in Section
        <5>1. i \in 1..Len(secs) /\ i \in 1..Len(tecs)
          BY <1>1 DEF m, secs
        <5> QED
          BY <1>1, <5>1, Element
      <4>2. is.header = was.header /\ ~IsShstrtab(is)
        BY <1>8, <1>13, <3>2
      <4>3. was = [was EXCEPT !.header.nameIndex = o]
        BY <2>2, <3>2 DEF NamedWith
      <4> HIDE DEF was, is, o
      <4>4. was.header = [was.header EXCEPT !.nameIndex = o]
        BY <4>1, <4>3 DEF Section
      <4>5. is = [is EXCEPT !.header.nameIndex = o]
        BY <4>1, <4>2, <4>4 DEF Section
      <4>6. is = NamedWith(is, o, b[m + 1])
        BY <4>2, <4>5 DEF NamedWith
      <4> QED
        BY <4>6 DEF is, o
    <3> QED
      BY <3>1, <3>2
  <2> QED
    BY <1>1, <2>1, <2>2, <2>3, <2>4 DEF NamesGiven, Collected
<1>16. \E k : IsTableIndex(tecs, k) /\ hdr = FilledWith(hdr, phs, tecs, k, end)
  <2>1. \E k : IsTableIndex(secs, k) /\ hdr = FilledWith(hdr, phs, secs, k, end)
    BY <1>2 DEF BuiltWith, EndOf, secs, hdr, end, m, n
  <2>2. PICK k : IsTableIndex(secs, k) /\ hdr = FilledWith(hdr, phs, secs, k, end)
    BY <2>1
  <2>3. Len(secs) = m
    BY DEF m, secs
  <2>4. IsTableIndex(tecs, k)
    BY <1>1, <1>12, <1>13, <2>2, <2>3, IndexRead
  <2>5. FilledWith(hdr, phs, tecs, k, end) = FilledWith(hdr, phs, secs, k, end)
    BY <1>1, <1>12, <2>3 DEF FilledWith
  <2> QED
    BY <2>2, <2>4, <2>5
<1>17. TableLaid(g, tecs, hdr, end)
  <2>1. TableLaid(f, secs, hdr, end)
    BY <1>2 DEF BuiltWith, EndOf, secs, hdr, end, m, n
  <2>2. HeadersOf(tecs) = HeadersOf(secs)
    <3>1. Len(secs) = m
      BY DEF m, secs
    <3> QED
      BY <1>1, <1>8, <3>1 DEF HeadersOf
  <2>3. end \in Nat
    <3>1. n + m \in Nat
      BY <1>1
    <3> QED
      BY <1>3, <3>1, CursorsAreNumbers, Zenon DEF end
  <2>4. \A p \in 1..Len(f) : end < p => g[p] = f[p]
    BY <1>6
  <2> QED
    BY <1>1, <1>2, <1>6, <1>12, <2>1, <2>2, <2>3, <2>4, TableAlike
<1>18. HoldsAt(g, EhSize, EncodedTable(phs, PhEntSize))
  <2> DEFINE table == EncodedTable(phs, PhEntSize)
  <2>1. HoldsAt(f, EhSize, table)
    BY <1>2 DEF BuiltWith
  <2>2. table \in Seq(Byte) /\ Len(table) = PhEntSize * n /\ EhSize \in Nat
    BY <1>2, EncodedTableBytes, FormatAssumption
  <2> HIDE DEF table
  <2>3. \A p \in 1..Len(f) : EhSize < p /\ p <= EhSize + Len(table) => g[p] = f[p]
    BY <1>3, <1>6, <2>2
  <2>4. HoldsAt(g, EhSize, table)
    BY <1>2, <1>6, <2>1, <2>2, <2>3, HoldsAlike
  <2> QED
    BY <2>4 DEF table
<1>19. HoldsAt(g, 0, Encoded(hdr, EhSize))
  <2> DEFINE record == Encoded(hdr, EhSize)
  <2>1. HoldsAt(f, 0, record)
    BY <1>2 DEF BuiltWith
  <2>2. record \in Seq(Byte) /\ Len(record) = EhSize /\ EhSize \in Nat
    BY <1>1, EncodedBytes, FormatAssumption
  <2> HIDE DEF record
  <2>3. EhSize <= c[1]
    <3>1. PhEntSize * n \in Nat
      <4>1. PhEntSize * Len(phs) \in Nat
        BY <1>2, EncodedTableBytes, FormatAssumption
      <4> QED
        BY <1>2, <4>1
    <3> QED
      BY <1>3, <2>2, <3>1
  <2>4. c[1] \in Nat
    BY <1>3
  <2>5. \A p \in 1..Len(f) : 0 < p /\ p <= 0 + Len(record) => g[p] = f[p]
    BY <1>6, <2>2, <2>3, <2>4
  <2>6. HoldsAt(g, 0, record)
    BY <1>2, <1>6, <2>1, <2>2, <2>5, HoldsAlike
  <2> QED
    BY <2>6 DEF record
<1>20. /\ SegmentsLaid(g, other, phs, c) /\ SectionsLaid(g, other, tecs, tecs, c)
       /\ EndOf(other, tecs, c) = end
  BY <1>1, <1>3, <1>10, <1>11 DEF SegmentsLaid, SectionsLaid, EndOf, end, qegs, tecs
<1>21. BuiltWith(other, g, phs, tecs, other.header, c, b, tecs)
  <2>1. other.sections = tecs
    BY DEF tecs
  <2> QED
    BY <1>1, <1>14, <1>15, <1>16, <1>17, <1>18, <1>19, <1>20, <2>1 DEF BuiltWith
<1>22. \A i \in 1..Len(other.segments) :
           /\ other.segments[i].header = phs[i]
           /\ SegmentBytes(other.segments[i]) = other.segments[i].data
  BY <1>1, <1>10 DEF qegs
<1> QED
  BY <1>1, <1>2, <1>6, <1>14, <1>21, <1>22 DEF MadeAsIs, qegs, tecs, g

(* What write_at_ioff leaves of an image: its headers, its names and the     *)
(* lengths of its data.                                                      *)
SameHeaders(im, other) ==
    /\ other.header = im.header
    /\ Len(other.segments) = Len(im.segments) /\ Len(other.sections) = Len(im.sections)
    /\ \A i \in 1..Len(im.segments) :
           /\ other.segments[i].header = im.segments[i].header
           /\ Len(other.segments[i].data) = Len(im.segments[i].data)
    /\ \A i \in 1..Len(im.sections) :
           /\ other.sections[i].header = im.sections[i].header
           /\ other.sections[i].name = im.sections[i].name
           /\ Len(other.sections[i].data) = Len(im.sections[i].data)

(* A write keeps all of that.                                                *)
LEMMA EditKeepsHeaders ==
    ASSUME NEW im \in ElfImage, NEW vaddr \in Nat,
           NEW bytes \in Seq(RawByte), NEW i \in 1..Len(im.segments)
    PROVE  SameHeaders(im, Edited(im, i, vaddr, bytes))
<1> DEFINE segs == im.segments
           secs == im.sections
           other == Edited(im, i, vaddr, bytes)
           qegs == SegmentsWith(segs, i, vaddr, bytes)
           tecs == SectionsWith(secs, vaddr, bytes)
<1>1. segs \in Seq(Segment) /\ secs \in Seq(Section) /\ i \in 1..Len(segs)
  BY DEF ElfImage
<1>2. other.header = im.header /\ other.segments = qegs /\ other.sections = tecs
  <2>1. other = [im EXCEPT !.segments = qegs, !.sections = tecs]
    BY DEF Edited
  <2> HIDE DEF other, qegs, tecs
  <2> QED
    BY <2>1 DEF ElfImage
<1> HIDE DEF segs, secs, other
<1>4. Len(qegs) = Len(segs) /\ qegs[i] = WithBytes(segs[i], vaddr, bytes)
      /\ \A j \in 1..Len(segs) : j # i => qegs[j] = segs[j]
  BY <1>1 DEF SegmentsWith
<1>5. /\ Len(tecs) = Len(secs)
      /\ \A j \in 1..Len(secs) : tecs[j] = Updated(secs[j], vaddr, bytes)
  BY <1>1 DEF SectionsWith
<1> HIDE DEF qegs, tecs
<1>6. ASSUME NEW j \in 1..Len(segs)
      PROVE  qegs[j].header = segs[j].header /\ Len(qegs[j].data) = Len(segs[j].data)
  <2>1. CASE j = i
    <3> DEFINE segment == segs[i]
               start == vaddr - segment.header.vaddr
    <3>1. segment \in Segment
      BY <1>1, Element
    <3> HIDE DEF segment
    <3>2. segment.data \in Seq(Byte) /\ start \in Int
      BY <3>1, SegmentFacts
    <3>3. Len(Copied(segment.data, start, bytes)) = Len(segment.data)
      <4> HIDE DEF start
      <4> QED
        BY <3>2, CopiedBytes
    <3>4. WithBytes(segment, vaddr, bytes) =
              [segment EXCEPT !.data = Copied(segment.data, start, bytes)]
      BY DEF WithBytes
    <3> HIDE DEF start
    <3>5. /\ WithBytes(segment, vaddr, bytes).header = segment.header
          /\ WithBytes(segment, vaddr, bytes).data = Copied(segment.data, start, bytes)
      BY <3>1, <3>4 DEF Segment
    <3> QED
      BY <1>4, <2>1, <3>3, <3>5 DEF segment
  <2>2. CASE j # i
    BY <1>4, <2>2
  <2> QED
    BY <2>1, <2>2
<1>7. ASSUME NEW j \in 1..Len(secs)
      PROVE  /\ tecs[j].header = secs[j].header /\ tecs[j].name = secs[j].name
             /\ Len(tecs[j].data) = Len(secs[j].data)
  <2> DEFINE section == secs[j]
             start == vaddr - section.header.addr
  <2>1. section \in Section /\ tecs[j] = Updated(section, vaddr, bytes)
    BY <1>1, <1>5, Element
  <2> HIDE DEF section
  <2>3. CASE Takes(section, vaddr, bytes)
    <3>1. section.data \in Seq(Byte) /\ start \in Int
      <4>1. section.header.addr \in U64 /\ section.data \in Seq(Byte)
        BY <2>1, SectionFacts DEF Shdr
      <4>2. section.header.addr \in Nat
        BY <4>1, U64Nat
      <4> QED
        BY <4>1, <4>2
    <3>2. Len(Copied(section.data, start, bytes)) = Len(section.data)
      <4> HIDE DEF start
      <4> QED
        BY <3>1, CopiedBytes
    <3>3. Updated(section, vaddr, bytes) =
              [section EXCEPT !.data = Copied(section.data, start, bytes)]
      BY <2>3 DEF Updated
    <3> HIDE DEF start
    <3>5. LET new == Updated(section, vaddr, bytes)
          IN  /\ new.header = section.header /\ new.name = section.name
              /\ new.data = Copied(section.data, start, bytes)
      BY <2>1, <3>3 DEF Section
    <3> QED
      BY <2>1, <3>2, <3>5 DEF section
  <2>4. CASE ~Takes(section, vaddr, bytes)
    BY <2>1, <2>4 DEF Updated, section
  <2> QED
    BY <2>3, <2>4
<1> QED
  BY <1>2, <1>4, <1>5, <1>6, <1>7 DEF SameHeaders, segs, secs, other

(* An end is a number.                                                       *)
LEMMA FileEndIsNumber ==
    ASSUME NEW segment \in Segment
    PROVE  FileEnd(segment) \in Nat
<1>1. segment.header.vaddr \in Nat /\ Len(segment.data) \in Nat
  BY SegmentFacts
<1> QED
  BY <1>1 DEF FileEnd

(* Where the file bytes of a loadable segment are in memory,                 *)
LEMMA Backing ==
    ASSUME NEW segment \in Segment, segment.header.filesz = Len(segment.data),
           FileEnd(segment) <= U64Max, NEW a \in Nat
    PROVE  FileBacked(segment, a) <=>
               IsLoad(segment) /\ segment.header.vaddr <= a /\ a < FileEnd(segment)
<1>1. segment.header.vaddr \in Nat /\ Len(segment.data) \in Nat /\ U64Max \in Nat
  BY SegmentFacts, U64MaxAssumption
<1>2. SatAdd(segment.header.vaddr, segment.header.filesz) = FileEnd(segment)
  BY <1>1 DEF SatAdd, FileEnd
<1> QED
  BY <1>1, <1>2 DEF FileBacked

(* which the segment covers.                                                 *)
LEMMA FileBytesCovered ==
    ASSUME NEW segment \in Segment, IsLoad(segment), NEW a \in Nat,
           FileEnd(segment) <= U64Max, Len(segment.data) <= segment.header.memsz,
           segment.header.vaddr <= a, a < FileEnd(segment)
    PROVE  CoversLoaded(segment, a)
<1>1. /\ segment.header.vaddr \in Nat /\ Len(segment.data) \in Nat /\ U64Max \in Nat
      /\ segment.header.memsz \in Nat
  <2>1. segment.header.memsz \in U64
    BY SegmentFacts DEF Phdr
  <2> QED
    BY <2>1, SegmentFacts, U64MaxAssumption, U64Nat
<1>2. a < SatAdd(segment.header.vaddr, segment.header.memsz)
  BY <1>1 DEF SatAdd, FileEnd
<1> QED
  BY <1>2 DEF CoversLoaded, SegmentContains

(* The segment a write goes to is the one ioff_to_offset takes for each of   *)
(* its bytes.                                                                *)
LEMMA BackedWhereWritten ==
    ASSUME NEW im \in ElfImage, InOrder(im),
           \A j \in 1..Len(im.segments) :
               im.segments[j].header.filesz = Len(im.segments[j].data),
           NEW vaddr \in Nat, NEW bytes \in Seq(RawByte), NEW i \in 1..Len(im.segments),
           Writes(im.segments, i, vaddr, bytes), NEW k \in 1..Len(bytes)
    PROVE  /\ vaddr + k - 1 \in Nat /\ vaddr + k - 1 <= U64Max
           /\ \A j \in 1..Len(im.segments) :
                  IsFirstBacking(im.segments, j, vaddr + k - 1) <=> j = i
<1> DEFINE segs == im.segments
           a    == vaddr + k - 1
           here == segs[i]
<1>1. segs \in Seq(Segment) /\ Len(segs) \in Nat
  BY DEF ElfImage
<1>2. \A j \in 1..Len(segs) :
          IsLoad(segs[j]) =>
              /\ FileEnd(segs[j]) <= U64Max /\ Len(segs[j].data) <= segs[j].header.memsz
              /\ \A l \in 1..(j - 1) :
                     IsLoad(segs[l]) =>
                         \/ segs[l].header.vaddr <= segs[j].header.vaddr
                         \/ segs[l].header.vaddr >= FileEnd(segs[j])
  BY DEF InOrder
<1>3. \A j \in 1..Len(segs) : segs[j].header.filesz = Len(segs[j].data)
  OBVIOUS
<1>4. /\ IsFirstLoad(segs, i, vaddr)
      /\ InData(here.data, vaddr - here.header.vaddr, Len(bytes))
  BY DEF Writes
<1> HIDE DEF segs
<1>5. \A j \in 1..Len(segs) : segs[j] \in Segment
  BY <1>1, Element
<1>6. i \in 1..Len(segs) /\ i \in Nat
  BY <1>1 DEF segs
<1>7. /\ here.header.vaddr \in Nat /\ Len(here.data) \in Nat /\ Len(bytes) \in Nat
      /\ k \in Nat /\ U64Max \in Nat
  BY <1>5, <1>6, SegmentFacts, U64MaxAssumption
<1>8. IsLoad(here) /\ FileEnd(here) <= U64Max
  BY <1>2, <1>4, <1>6 DEF IsFirstLoad, CoversLoaded
<1>9. /\ here.header.vaddr <= vaddr /\ vaddr <= a /\ a < FileEnd(here) /\ a \in Nat
      /\ a <= U64Max
  <2>1. vaddr >= here.header.vaddr /\ vaddr + Len(bytes) <= here.header.vaddr + Len(here.data)
    BY <1>4, <1>7 DEF InData
  <2>2. FileEnd(here) = here.header.vaddr + Len(here.data)
    BY DEF FileEnd
  <2> HIDE DEF here
  <2> QED
    BY <1>7, <1>8, <2>1, <2>2
<1>10. FileBacked(here, a)
  <2>1. here \in Segment /\ here.header.filesz = Len(here.data)
    BY <1>3, <1>5, <1>6
  <2>2. here.header.vaddr <= a
    <3> HIDE DEF here, a
    <3>1. here.header.vaddr \in Nat
      BY <1>7
    <3> QED
      BY <1>9, <3>1
  <2> HIDE DEF here, a
  <2> QED
    BY <1>8, <1>9, <2>1, <2>2, Backing
<1>11. ASSUME NEW j \in 1..Len(segs), j < i, FileBacked(segs[j], a) PROVE FALSE
  <2> DEFINE there == segs[j]
  <2>1. there \in Segment /\ there.header.filesz = Len(there.data) /\ IsLoad(there)
    BY <1>3, <1>5, <1>11 DEF FileBacked
  <2>2. /\ FileEnd(there) <= U64Max /\ Len(there.data) <= there.header.memsz
        /\ \/ there.header.vaddr <= here.header.vaddr
           \/ there.header.vaddr >= FileEnd(here)
    <3>1. j \in 1..(i - 1)
      BY <1>6, <1>11
    <3> QED
      BY <1>2, <1>6, <1>8, <2>1, <3>1
  <2>3. ~CoversLoaded(there, vaddr)
    <3>1. j \in 1..(i - 1)
      BY <1>6, <1>11
    <3> QED
      BY <1>4, <3>1 DEF IsFirstLoad
  <2> HIDE DEF there, here, a
  <2>4. there.header.vaddr <= a /\ a < FileEnd(there)
    <3>1. FileBacked(there, a)
      BY <1>11 DEF there
    <3> QED
      BY <1>9, <2>1, <2>2, <3>1, Backing
  <2>5. /\ there.header.vaddr \in Nat /\ FileEnd(there) \in Nat /\ FileEnd(here) \in Nat
        /\ here.header.vaddr \in Nat
    <3>1. here \in Segment
      BY <1>5, <1>6 DEF here
    <3> QED
      BY <2>1, <3>1, SegmentFacts, FileEndIsNumber
  <2>6. there.header.vaddr <= here.header.vaddr
    BY <1>9, <2>2, <2>4, <2>5
  <2>7. there.header.vaddr <= vaddr /\ vaddr < FileEnd(there)
    BY <1>9, <2>4, <2>5, <2>6
  <2>8. CoversLoaded(there, vaddr)
    BY <2>1, <2>2, <2>7, FileBytesCovered
  <2> QED
    BY <2>3, <2>8
<1>12. IsFirstBacking(segs, i, a)
  <2>1. ASSUME NEW j \in 1..(i - 1) PROVE ~FileBacked(segs[j], a)
    <3>1. j \in 1..Len(segs) /\ j < i
      BY <1>1, <1>6
    <3> QED
      BY <1>11, <3>1
  <2> QED
    BY <1>10, <2>1 DEF IsFirstBacking
<1>13. ASSUME NEW j \in 1..Len(segs), IsFirstBacking(segs, j, a) PROVE j = i
  <2>1. FileBacked(segs[j], a)
    BY <1>13 DEF IsFirstBacking
  <2>2. ~(j < i)
    BY <1>11, <2>1
  <2>3. ~(i < j)
    <3>1. SUFFICES ASSUME i < j PROVE FALSE
      OBVIOUS
    <3>2. i \in 1..(j - 1)
      BY <1>6, <3>1
    <3>3. ~FileBacked(segs[i], a)
      BY <1>13, <3>2 DEF IsFirstBacking
    <3> QED
      BY <1>10, <3>3
  <2> QED
    BY <1>6, <2>2, <2>3
<1> QED
  BY <1>9, <1>12, <1>13 DEF segs

(* Bytes copied into data.                                                   *)
LEMMA CopiedWhere ==
    ASSUME NEW data \in Seq(Byte), NEW start \in Int, NEW bytes \in Seq(RawByte),
           InData(data, start, Len(bytes))
    PROVE  /\ \A k \in 1..Len(bytes) : /\ start + k \in 1..Len(data)
                                       /\ start + k \in 1..Len(Copied(data, start, bytes))
                                       /\ Copied(data, start, bytes)[start + k] = bytes[k]
           /\ \A p \in 1..Len(data) :
                  \/ Copied(data, start, bytes)[p] = data[p]
                  \/ \E k \in 1..Len(bytes) : p = start + k
<1> DEFINE new == Copied(data, start, bytes)
<1>1. /\ Len(data) \in Nat /\ Len(bytes) \in Nat
      /\ start >= 0 /\ start + Len(bytes) <= Len(data)
  BY DEF InData
<1>2. \A p \in 1..Len(data) :
          Copied(data, start, bytes)[p] =
              IF start < p /\ p <= start + Len(bytes) THEN bytes[p - start] ELSE data[p]
  BY CopiedBytes
<1>3. ASSUME NEW k \in 1..Len(bytes)
      PROVE  /\ start + k \in 1..Len(data)
             /\ Copied(data, start, bytes)[start + k] = bytes[k]
  <2>1. /\ start + k \in 1..Len(data) /\ start < start + k /\ start + k <= start + Len(bytes)
        /\ (start + k) - start = k
    BY <1>1
  <2> QED
    BY <1>2, <2>1
<1>4. ASSUME NEW p \in 1..Len(data),
             Copied(data, start, bytes)[p] # data[p]
      PROVE  \E k \in 1..Len(bytes) : p = start + k
  <2>1. start < p /\ p <= start + Len(bytes)
    BY <1>2, <1>4
  <2>2. p - start \in 1..Len(bytes) /\ p = start + (p - start)
    BY <1>1, <2>1
  <2> QED
    BY <2>2
<1>5. Len(new) = Len(data)
  BY CopiedBytes
<1> HIDE DEF new
<1>6. \A k \in 1..Len(bytes) : start + k \in 1..Len(new)
  BY <1>3, <1>5
<1> QED
  BY <1>3, <1>4, <1>6 DEF new

(* A length is a number.                                                     *)
LEMMA LengthIsNat ==
    ASSUME NEW S, NEW list \in Seq(S)
    PROVE  Len(list) \in Nat
OBVIOUS

(* A byte in a slot is in the file.                                          *)
LEMMA SlotInFile ==
    ASSUME NEW f \in Seq(Byte), NEW c \in [Nat -> Nat], NEW z \in Nat, NEW offset \in Nat,
           NEW bytes \in Seq(Byte), SlotLaid(f, c, z, offset, bytes),
           NEW k \in 1..Len(bytes), Len(f) <= MaxImage
    PROVE  offset + k - 1 \in U64
<1>1. Len(bytes) \in Nat /\ Len(f) \in Nat
  BY LengthIsNat, Zenon
<1>2. bytes # <<>>
  BY <1>1
<1>3. offset + Len(bytes) <= Len(f)
  BY <1>2 DEF SlotLaid, Laid, HoldsAt
<1>4. MaxImage \in Nat /\ MaxImage < U64Max /\ U64Max \in Nat
  BY FormatAssumption, U64MaxAssumption
<1>5. offset + k - 1 \in 0..U64Max
  <2> DEFINE m == Len(bytes)
             n == Len(f)
  <2>1. /\ m \in Nat /\ n \in Nat /\ k \in 1..m /\ offset + m <= n
        /\ n <= MaxImage /\ MaxImage \in Nat /\ MaxImage < U64Max /\ U64Max \in Nat
    BY <1>1, <1>3, <1>4, Zenon
  <2> HIDE DEF m, n
  <2> QED
    BY <2>1
<1> QED
  BY <1>5 DEF U64

(* The same sum.                                                             *)
LEMMA OffsetSum ==
    ASSUME NEW o \in Nat, NEW v \in Nat, NEW y \in Nat, NEW k \in Nat, NEW a,
           a = y + k - 1, NEW x, x = o + (y - v) + k - 1
    PROVE  x = o + (a - v)
OBVIOUS

(* Segments as they are read, with all the bytes p_filesz says.              *)
FileSized(im) ==
    \A j \in 1..Len(im.segments) : im.segments[j].header.filesz = Len(im.segments[j].data)

(* Where byte k of a write at vaddr is in the file, by a segment's header,   *)
(* and that it is the one offset that ioff_to_offset gives.                  *)
ByteOffset(segment, vaddr, k) ==
    segment.header.offset + (vaddr - segment.header.vaddr) + k - 1
OnlyOffset(segs, ioff, k, x) == IoffToOffset(segs, ioff + k - 1) = {x}

(* ioff_to_offset gives one file offset for each byte of a write: where the  *)
(* segment that takes it has that byte.                                      *)
LEMMA OffsetWhereWritten ==
    ASSUME NEW im \in ElfImage, InOrder(im), FileSized(im),
           NEW ioff \in Nat, NEW vaddr, vaddr = ImageBase(im.segments) + ioff,
           NEW bytes \in Seq(RawByte), NEW i \in 1..Len(im.segments),
           Writes(im.segments, i, vaddr, bytes),
           NEW k \in 1..Len(bytes), ByteOffset(im.segments[i], vaddr, k) \in U64
    PROVE  OnlyOffset(im.segments, ioff, k, ByteOffset(im.segments[i], vaddr, k))
<1> DEFINE segs  == im.segments
           base  == ImageBase(segs)
           a     == base + (ioff + k - 1)
           x     == ByteOffset(segs[i], vaddr, k)
<1>1. segs \in Seq(Segment) /\ Len(segs) \in Nat /\ i \in 1..Len(segs)
  BY DEF ElfImage
<1>2. base \in Nat
  <2>1. base \in U64
    BY <1>1, BaseIsAddress
  <2> QED
    BY <2>1, U64Nat
<1>3. k \in Nat /\ vaddr \in Nat /\ a = vaddr + k - 1
  <2>1. vaddr = base + ioff
    OBVIOUS
  <2> HIDE DEF base
  <2>2. k \in Nat
    BY PositionIsNat, Zenon
  <2> QED
    BY <1>2, <2>1, <2>2
<1>4. /\ a <= U64Max
      /\ \A j \in 1..Len(segs) : IsFirstBacking(segs, j, a) <=> j = i
  <2> HIDE DEF a
  <2>1. /\ vaddr + k - 1 <= U64Max
        /\ \A j \in 1..Len(im.segments) :
               IsFirstBacking(im.segments, j, vaddr + k - 1) <=> j = i
    BY <1>3, BackedWhereWritten DEF FileSized
  <2> QED
    BY <1>3, <2>1
<1>5. x = segs[i].header.offset + (a - segs[i].header.vaddr)
  <2> DEFINE o == segs[i].header.offset
             v == segs[i].header.vaddr
  <2>1. o \in Nat /\ v \in Nat
    <3>1. segs[i] \in Segment
      BY <1>1, Element
    <3>2. segs[i].header.offset \in U64 /\ segs[i].header.vaddr \in U64
      BY <3>1, SegmentFacts DEF Phdr
    <3> QED
      BY <3>2, U64Nat
  <2>2. x = o + (vaddr - v) + k - 1
    BY DEF ByteOffset
  <2> HIDE DEF o, v, a, x
  <2>3. x = o + (a - v)
    BY <1>3, <2>1, <2>2, OffsetSum, SMT
  <2> QED
    BY <2>3 DEF o, v
<1>6. IoffToOffset(segs, ioff + k - 1) =
          {segs[j].header.offset + (a - segs[j].header.vaddr) :
              j \in {l \in 1..Len(segs) : a <= U64Max /\ IsFirstBacking(segs, l, a)}} \cap U64
  BY DEF IoffToOffset
<1> HIDE DEF segs, a, x
<1>7. {l \in 1..Len(segs) : a <= U64Max /\ IsFirstBacking(segs, l, a)} = {i}
  BY <1>1, <1>4
<1>8. IoffToOffset(segs, ioff + k - 1) =
          {segs[j].header.offset + (a - segs[j].header.vaddr) : j \in {i}} \cap U64
  BY <1>6, <1>7
<1>9. IoffToOffset(segs, ioff + k - 1) = {x} \cap U64
  BY <1>5, <1>8
<1>10. x \in U64
  BY DEF x, segs
<1> QED
  BY <1>9, <1>10 DEF segs, x, OnlyOffset

(* The edits of a write, in the segment and in the sections.                 *)
SegmentEdits(im, ioff, bytes) ==
    UNION {{<<o, bytes[k]>> : o \in IoffToOffset(im.segments, ioff + k - 1)} :
              k \in 1..Len(bytes)}
SectionEdits(im, vaddr, bytes) ==
    {<<s.header.offset + (vaddr - s.header.addr) + k - 1, bytes[k]>> :
        s \in {t \in {im.sections[i] : i \in 1..Len(im.sections)} :
                  Takes(t, vaddr, bytes)},
        k \in 1..Len(bytes)}

(* Where byte k of a write at vaddr is, by a section's header; and what the  *)
(* edits of a write are: those of the segment and those of the sections.     *)
SectionByteOffset(section, vaddr, k) ==
    section.header.offset + (vaddr - section.header.addr) + k - 1

EditedAt(im, ioff, vaddr, bytes, e) ==
    \/ \E k \in 1..Len(bytes) :
           \E o \in IoffToOffset(im.segments, ioff + k - 1) : e = <<o, bytes[k]>>
    \/ \E j \in 1..Len(im.sections) :
           /\ Takes(im.sections[j], vaddr, bytes)
           /\ \E k \in 1..Len(bytes) :
                  e = <<SectionByteOffset(im.sections[j], vaddr, k), bytes[k]>>

(* Those are the bytes a write stands for.                                   *)
LEMMA InPatch ==
    ASSUME NEW im, NEW ioff, NEW bytes, NEW vaddr, vaddr = ImageBase(im.segments) + ioff,
           NEW e
    PROVE  e \in PatchOf(im, ioff, bytes) <=> EditedAt(im, ioff, vaddr, bytes, e)
<1> DEFINE Taking == {t \in {im.sections[j] : j \in 1..Len(im.sections)} :
                         Takes(t, vaddr, bytes)}
           Place(s, k) == SectionByteOffset(s, vaddr, k)
           InSegments == SegmentEdits(im, ioff, bytes)
           InSections == {<<Place(s, k), bytes[k]>> : s \in Taking, k \in 1..Len(bytes)}
<1>1. PatchOf(im, ioff, bytes) = InSegments \cup InSections
  <2>1. PatchOf(im, ioff, bytes) =
            SegmentEdits(im, ioff, bytes)
            \cup SectionEdits(im, ImageBase(im.segments) + ioff, bytes)
    BY DEF PatchOf, SegmentEdits, SectionEdits
  <2>2. SectionEdits(im, vaddr, bytes) = InSections
    BY DEF SectionEdits, SectionByteOffset
  <2> HIDE DEF InSections
  <2> QED
    BY <2>1, <2>2
<1>2. e \in InSegments <=>
          \E k \in 1..Len(bytes) :
              \E o \in IoffToOffset(im.segments, ioff + k - 1) : e = <<o, bytes[k]>>
  BY DEF SegmentEdits
<1>3. \A s : s \in Taking <=>
          \E j \in 1..Len(im.sections) : s = im.sections[j] /\ Takes(im.sections[j], vaddr, bytes)
  BY Zenon
<1> HIDE DEF InSegments, Taking, Place
<1>4. e \in InSections <=>
          \E s \in Taking : \E k \in 1..Len(bytes) : e = <<Place(s, k), bytes[k]>>
  OBVIOUS
<1> HIDE DEF InSections
<1>5. e \in InSections <=>
          \E j \in 1..Len(im.sections) :
              /\ Takes(im.sections[j], vaddr, bytes)
              /\ \E k \in 1..Len(bytes) : e = <<Place(im.sections[j], k), bytes[k]>>
  <2>1. ASSUME NEW s \in Taking, NEW k \in 1..Len(bytes), e = <<Place(s, k), bytes[k]>>
        PROVE  \E j \in 1..Len(im.sections) :
                   /\ Takes(im.sections[j], vaddr, bytes)
                   /\ \E l \in 1..Len(bytes) : e = <<Place(im.sections[j], l), bytes[l]>>
    <3>1. PICK j \in 1..Len(im.sections) :
              s = im.sections[j] /\ Takes(im.sections[j], vaddr, bytes)
      BY <1>3, Zenon
    <3>2. e = <<Place(im.sections[j], k), bytes[k]>>
      BY <2>1, <3>1
    <3> QED
      BY <3>1, <3>2, Zenon
  <2>2. ASSUME NEW j \in 1..Len(im.sections), Takes(im.sections[j], vaddr, bytes),
               NEW k \in 1..Len(bytes), e = <<Place(im.sections[j], k), bytes[k]>>
        PROVE  \E s \in Taking : \E l \in 1..Len(bytes) : e = <<Place(s, l), bytes[l]>>
    <3>1. im.sections[j] \in Taking
      BY <1>3, <2>2, Zenon
    <3> QED
      BY <2>2, <3>1, Zenon
  <2> QED
    BY <1>4, <2>1, <2>2, Zenon
<1> QED
  BY <1>1, <1>2, <1>5, Zenon DEF Place, EditedAt

(* The data of the slots of an edited image.                                 *)
LEMMA EditedData ==
    ASSUME NEW im \in ElfImage, NEW vaddr \in Nat, NEW bytes \in Seq(RawByte),
           NEW i \in 1..Len(im.segments)
    PROVE  LET other == Edited(im, i, vaddr, bytes)
           IN  /\ Len(other.segments) = Len(im.segments)
               /\ Len(other.sections) = Len(im.sections)
               /\ other.segments[i].data =
                      Copied(im.segments[i].data, vaddr - im.segments[i].header.vaddr, bytes)
               /\ \A j \in 1..Len(im.segments) :
                      j # i => other.segments[j] = im.segments[j]
               /\ \A j \in 1..Len(im.sections) :
                      \/ other.sections[j] = im.sections[j]
                      \/ /\ Takes(im.sections[j], vaddr, bytes)
                         /\ FileBytes(im.sections[j]) = im.sections[j].data
                         /\ FileBytes(other.sections[j]) =
                                Copied(im.sections[j].data,
                                       vaddr - im.sections[j].header.addr, bytes)
<1> DEFINE segs == im.segments
           secs == im.sections
           other == Edited(im, i, vaddr, bytes)
           qegs == SegmentsWith(segs, i, vaddr, bytes)
           tecs == SectionsWith(secs, vaddr, bytes)
<1>1. segs \in Seq(Segment) /\ secs \in Seq(Section) /\ i \in 1..Len(segs)
  BY DEF ElfImage
<1>2. other.segments = qegs /\ other.sections = tecs
  <2>1. other = [im EXCEPT !.segments = qegs, !.sections = tecs]
    BY DEF Edited
  <2> HIDE DEF other, qegs, tecs
  <2> QED
    BY <2>1 DEF ElfImage
<1> HIDE DEF segs, secs, other
<1>3. Len(qegs) = Len(segs) /\ qegs[i] = WithBytes(segs[i], vaddr, bytes)
      /\ \A j \in 1..Len(segs) : j # i => qegs[j] = segs[j]
  BY <1>1 DEF SegmentsWith
<1>4. /\ Len(tecs) = Len(secs)
      /\ \A j \in 1..Len(secs) : tecs[j] = Updated(secs[j], vaddr, bytes)
  BY <1>1 DEF SectionsWith
<1> HIDE DEF qegs, tecs
<1>5. qegs[i].data = Copied(segs[i].data, vaddr - segs[i].header.vaddr, bytes)
  <2> DEFINE segment == segs[i]
             new == Copied(segment.data, vaddr - segment.header.vaddr, bytes)
  <2>1. segment \in Segment
    BY <1>1, Element
  <2>2. WithBytes(segment, vaddr, bytes) = [segment EXCEPT !.data = new]
    BY DEF WithBytes
  <2> HIDE DEF segment, new
  <2>3. WithBytes(segment, vaddr, bytes).data = new
    BY <2>1, <2>2 DEF Segment
  <2> QED
    BY <1>3, <2>3 DEF segment, new
<1>6. ASSUME NEW j \in 1..Len(secs)
      PROVE  \/ tecs[j] = secs[j]
             \/ /\ Takes(secs[j], vaddr, bytes) /\ FileBytes(secs[j]) = secs[j].data
                /\ FileBytes(tecs[j]) =
                       Copied(secs[j].data, vaddr - secs[j].header.addr, bytes)
  <2> DEFINE section == secs[j]
             new == Copied(section.data, vaddr - section.header.addr, bytes)
  <2>1. section \in Section /\ tecs[j] = Updated(section, vaddr, bytes)
    BY <1>1, <1>4, Element
  <2>2. CASE ~Takes(section, vaddr, bytes)
    BY <2>1, <2>2 DEF Updated
  <2>3. CASE Takes(section, vaddr, bytes)
    <3>1. tecs[j] = [section EXCEPT !.data = new]
      BY <2>1, <2>3 DEF Updated
    <3>2. ~IsNobits(section)
      BY <2>3 DEF Takes
    <3> HIDE DEF section, new
    <3>3. tecs[j].data = new /\ tecs[j].header = section.header
      BY <2>1, <3>1 DEF Section
    <3>4. FileBytes(tecs[j]) = new /\ FileBytes(section) = section.data
      BY <3>2, <3>3 DEF FileBytes, IsNobits
    <3> QED
      BY <2>3, <3>4 DEF section, new
  <2> QED
    BY <2>2, <2>3
<1> QED
  BY <1>2, <1>3, <1>4, <1>5, <1>6 DEF segs, secs, other

(* and the data that makes an image again, if no name table is edited.       *)
LEMMA EditKeepsShape ==
    ASSUME NEW im \in ElfImage, NamesNotLoaded(im), NEW vaddr \in Nat,
           NEW bytes \in Seq(RawByte), NEW i \in 1..Len(im.segments)
    PROVE  SameShape(im, Edited(im, i, vaddr, bytes))
<1> DEFINE other == Edited(im, i, vaddr, bytes)
<1>1. SameHeaders(im, other)
  BY EditKeepsHeaders
<1>2. ASSUME NEW j \in 1..Len(im.sections),
             IsNobits(im.sections[j]) \/ IsShstrtab(im.sections[j])
      PROVE  other.sections[j] = im.sections[j]
  <2>1. ~Takes(im.sections[j], vaddr, bytes)
    BY <1>2 DEF NamesNotLoaded, Takes, SectionContains
  <2> QED
    BY <2>1, EditedData
<1> HIDE DEF other
<1>3. SameShape(im, other)
  BY <1>1, <1>2 DEF SameHeaders, SameShape
<1> QED
  BY <1>3 DEF other

(* Where a byte of a write lands in a slot.                                  *)
CopyLands(o, start, data, bytes, k) ==
    /\ start + k \in 1..Len(Copied(data, start, bytes))
    /\ Copied(data, start, bytes)[start + k] = bytes[k]
    /\ o + start + k - 1 = o + (start + k) - 1
    /\ o + start + k - 1 \in U64

(* Each byte of a write that the data takes lands in the data's slot.        *)
LEMMA CopyInSlot ==
    ASSUME NEW f \in Seq(Byte), Len(f) <= MaxImage, NEW c \in [Nat -> Nat], NEW z \in Nat,
           NEW o \in Nat, NEW data \in Seq(Byte), SlotLaid(f, c, z, o, data),
           NEW start \in Int, NEW bytes \in Seq(RawByte),
           InData(data, start, Len(bytes)), NEW k \in 1..Len(bytes)
    PROVE  CopyLands(o, start, data, bytes, k)
<1>1. /\ start + k \in 1..Len(data)
      /\ start + k \in 1..Len(Copied(data, start, bytes))
      /\ Copied(data, start, bytes)[start + k] = bytes[k]
  BY CopiedWhere, Zenon
<1>3. k \in Nat
  BY PositionIsNat, Zenon
<1>4. o + start + k - 1 = o + (start + k) - 1
  BY <1>3
<1>5. o + (start + k) - 1 \in U64
  BY <1>1, SlotInFile, Zenon
<1> QED
  BY <1>1, <1>4, <1>5 DEF CopyLands

(* A write edits bytes of the slots, and all those it changes.               *)
LEMMA EditIsOfSlots ==
    ASSUME NEW im \in ElfImage, NEW f, NEW phs, NEW c, NEW b, MadeAsIs(im, f, phs, c, b),
           Len(f) <= MaxImage, InOrder(im), NamesNotLoaded(im),
           NEW ioff \in Nat, NEW vaddr \in Nat, vaddr = ImageBase(im.segments) + ioff,
           NEW bytes \in Seq(RawByte), NEW i \in 1..Len(im.segments),
           Writes(im.segments, i, vaddr, bytes)
    PROVE  SlotEdits(Len(im.segments) + Len(im.sections), SlotOffsets(im), SlotData(im),
                     SlotData(Edited(im, i, vaddr, bytes)), PatchOf(im, ioff, bytes))
<1> DEFINE segs == im.segments
           secs == im.sections
           n == Len(segs)
           m == Len(secs)
           N == n + m
           other == Edited(im, i, vaddr, bytes)
           O == SlotOffsets(im)
           D == SlotData(im)
           E == SlotData(other)
           edits == PatchOf(im, ioff, bytes)
<1>1. /\ segs \in Seq(Segment) /\ secs \in Seq(Section) /\ n \in Nat /\ m \in Nat
      /\ i \in 1..n /\ f \in Seq(Byte) /\ c \in [Nat -> Nat]
  <2>1. segs \in Seq(Segment) /\ secs \in Seq(Section)
    BY DEF ElfImage
  <2>2. n \in Nat /\ m \in Nat
    BY <2>1, LengthIsNat, Zenon
  <2>3. f \in Seq(Byte) /\ c \in [Nat -> Nat]
    BY DEF MadeAsIs, BuiltWith, SegmentsLaid
  <2> QED
    BY <2>1, <2>2, <2>3, Zenon
<1>2. other \in ElfImage /\ SameShape(im, other)
  BY EditedIsImage, EditKeepsShape
<1>3. Slots(f, N, c, O, D, E)
  BY <1>2, ImageSlots
<1>4. \A j \in 1..n : segs[j].header.filesz = Len(segs[j].data)
  <2>1. ASSUME NEW j \in 1..n PROVE segs[j].header.filesz = Len(segs[j].data)
    <3>1. j \in Nat /\ segs[j] \in Segment
      BY <1>1, Element, PositionIsNat, Zenon
    <3>2. /\ SegmentLaid(f, segs[j], segs[j].header, c[j], c[j + 1])
          /\ SegmentBytes(segs[j]) = segs[j].data
      BY DEF MadeAsIs, BuiltWith, SegmentsLaid
    <3> QED
      BY <1>1, <3>1, <3>2, SegmentIsSlot
  <2> QED
    BY <2>1
<1>5. /\ Len(other.segments) = n /\ Len(other.sections) = m
      /\ other.segments[i].data = Copied(segs[i].data, vaddr - segs[i].header.vaddr, bytes)
      /\ \A j \in 1..n : j # i => other.segments[j] = segs[j]
      /\ \A j \in 1..m :
             \/ other.sections[j] = secs[j]
             \/ /\ Takes(secs[j], vaddr, bytes) /\ FileBytes(secs[j]) = secs[j].data
                /\ FileBytes(other.sections[j]) =
                       Copied(secs[j].data, vaddr - secs[j].header.addr, bytes)
  BY EditedData
<1>6. \A z \in 1..N :
          /\ O[z] = IF z <= n THEN segs[z].header.offset ELSE secs[z - n].header.offset
          /\ D[z] = IF z <= n THEN segs[z].data ELSE FileBytes(secs[z - n])
          /\ E[z] = IF z <= n THEN other.segments[z].data ELSE FileBytes(other.sections[z - n])
  BY <1>5 DEF SlotOffsets, SlotData
<1>7. \A e : e \in edits <=> EditedAt(im, ioff, vaddr, bytes, e)
  BY InPatch, Zenon
<1>8. InData(segs[i].data, vaddr - segs[i].header.vaddr, Len(bytes))
  BY DEF Writes
<1>9. \A j \in 1..m :
          Takes(secs[j], vaddr, bytes) =>
              /\ InData(secs[j].data, vaddr - secs[j].header.addr, Len(bytes))
              /\ FileBytes(secs[j]) = secs[j].data
              /\ FileBytes(other.sections[j]) =
                     Copied(secs[j].data, vaddr - secs[j].header.addr, bytes)
  <2>1. ASSUME NEW j \in 1..m, Takes(secs[j], vaddr, bytes)
        PROVE  /\ InData(secs[j].data, vaddr - secs[j].header.addr, Len(bytes))
               /\ ~IsNobits(secs[j])
               /\ other.sections[j].data =
                      Copied(secs[j].data, vaddr - secs[j].header.addr, bytes)
               /\ other.sections[j].header = secs[j].header
    <3>1. /\ InData(secs[j].data, vaddr - secs[j].header.addr, Len(bytes))
          /\ ~IsNobits(secs[j])
      BY <2>1 DEF Takes
    <3>2. other.sections[j] = Updated(secs[j], vaddr, bytes)
      BY DEF Edited, ElfImage, SectionsWith
    <3> DEFINE section == secs[j]
               new == Copied(section.data, vaddr - section.header.addr, bytes)
    <3>3. section \in Section /\ other.sections[j] = [section EXCEPT !.data = new]
      BY <1>1, <2>1, <3>2, Element DEF Updated
    <3> HIDE DEF section, new, other
    <3>4. other.sections[j].data = new /\ other.sections[j].header = section.header
      BY <3>3 DEF Section
    <3> QED
      BY <3>1, <3>4 DEF section, new
  <2> QED
    BY <2>1 DEF FileBytes, IsNobits
<1>10. \A k \in 1..Len(bytes) :
           ByteOffset(segs[i], vaddr, k) \in U64 =>
               OnlyOffset(segs, ioff, k, ByteOffset(segs[i], vaddr, k))
  <2>1. FileSized(im)
    BY <1>4 DEF FileSized
  <2> QED
    BY <2>1, OffsetWhereWritten, Zenon
<1>11. /\ \A j \in 1..n : segs[j] \in Segment
       /\ \A j \in 1..m : secs[j] \in Section
  BY <1>1, Element
<1>12. \A j \in 1..n : j \in 1..N /\ j <= n
  <2> HIDE DEF n, m
  <2> QED
    BY <1>1, SegmentSlot
<1>13. \A j \in 1..m : n + j \in 1..N /\ ~(n + j <= n) /\ (n + j) - n = j
  <2> HIDE DEF n, m
  <2> QED
    BY <1>1, SectionSlot
<1>14. \A z \in 1..N : z \in Nat /\ (z <= n => z \in 1..n) /\ (~(z <= n) => z - n \in 1..m)
  <2> HIDE DEF n, m
  <2> QED
    BY <1>1, SlotKinds
<1> HIDE DEF segs, secs, n, m, N, other, O, D, E, edits
<1>15. ASSUME NEW k \in 1..Len(bytes)
       PROVE  LET p == (vaddr - segs[i].header.vaddr) + k
              IN  /\ p \in 1..Len(E[i]) /\ E[i][p] = bytes[k]
                  /\ ByteOffset(segs[i], vaddr, k) = O[i] + p - 1
                  /\ ByteOffset(segs[i], vaddr, k) \in U64
  <2> DEFINE start == vaddr - segs[i].header.vaddr
             data == segs[i].data
             o == segs[i].header.offset
  <2>1. O[i] = o /\ D[i] = data /\ E[i] = Copied(data, start, bytes)
    BY <1>1, <1>5, <1>6, <1>12
  <2>2. /\ o \in Nat /\ data \in Seq(Byte) /\ i \in Nat /\ SlotLaid(f, c, i, o, data)
    <3>1. /\ O[i] \in Nat /\ D[i] \in Seq(Byte) /\ SlotLaid(f, c, i, O[i], D[i])
          /\ i \in Nat
      BY <1>1, <1>3, <1>12, SlotFacts, Zenon
    <3> QED
      BY <2>1, <3>1
  <2>3. start \in Int
    <3>1. segs[i].header.vaddr \in Nat
      BY <1>1, <1>11, SegmentFacts
    <3> QED
      BY <3>1
  <2>4. InData(data, start, Len(bytes))
    BY <1>8
  <2>5. ByteOffset(segs[i], vaddr, k) = o + start + k - 1
    BY DEF ByteOffset
  <2> HIDE DEF start, data, o
  <2>6. CopyLands(o, start, data, bytes, k)
    BY <1>1, <2>2, <2>3, <2>4, CopyInSlot, Zenon
  <2> QED
    BY <2>1, <2>5, <2>6 DEF start, CopyLands
<1>16. ASSUME NEW j \in 1..m, Takes(secs[j], vaddr, bytes), NEW k \in 1..Len(bytes)
       PROVE  LET p == (vaddr - secs[j].header.addr) + k
              IN  /\ p \in 1..Len(E[n + j]) /\ E[n + j][p] = bytes[k]
                  /\ SectionByteOffset(secs[j], vaddr, k) = O[n + j] + p - 1
  <2> DEFINE start == vaddr - secs[j].header.addr
             data == secs[j].data
             o == secs[j].header.offset
             z == n + j
  <2>1. O[z] = o /\ D[z] = data /\ E[z] = Copied(data, start, bytes)
    BY <1>6, <1>9, <1>13, <1>16
  <2>2. /\ o \in Nat /\ data \in Seq(Byte) /\ z \in Nat /\ SlotLaid(f, c, z, o, data)
    <3>1. /\ O[z] \in Nat /\ D[z] \in Seq(Byte) /\ SlotLaid(f, c, z, O[z], D[z])
          /\ z \in Nat
      BY <1>1, <1>3, <1>13, SlotFacts, Zenon
    <3> QED
      BY <2>1, <3>1
  <2>3. start \in Int
    <3>1. secs[j].header.addr \in U64
      BY <1>11, SectionFacts DEF Shdr
    <3>2. secs[j].header.addr \in Nat
      BY <3>1, U64Nat
    <3> QED
      BY <3>2
  <2>4. InData(data, start, Len(bytes))
    BY <1>9, <1>16
  <2>5. SectionByteOffset(secs[j], vaddr, k) = o + start + k - 1
    BY DEF SectionByteOffset
  <2> HIDE DEF start, data, o, z
  <2>6. CopyLands(o, start, data, bytes, k)
    BY <1>1, <2>2, <2>3, <2>4, CopyInSlot, Zenon
  <2> QED
    BY <2>1, <2>5, <2>6 DEF start, z, CopyLands
<1>17. ASSUME NEW e \in edits
       PROVE  \E z \in 1..N : \E p \in 1..Len(E[z]) : e = <<O[z] + p - 1, E[z][p]>>
  <2>1. EditedAt(im, ioff, vaddr, bytes, e)
    BY <1>7
  <2>2. CASE \E k \in 1..Len(bytes) :
                 \E o \in IoffToOffset(segs, ioff + k - 1) : e = <<o, bytes[k]>>
    <3>1. PICK k \in 1..Len(bytes) :
              \E o \in IoffToOffset(segs, ioff + k - 1) : e = <<o, bytes[k]>>
      BY <2>2
    <3> DEFINE p == (vaddr - segs[i].header.vaddr) + k
    <3>2. /\ p \in 1..Len(E[i]) /\ E[i][p] = bytes[k]
          /\ ByteOffset(segs[i], vaddr, k) = O[i] + p - 1
          /\ ByteOffset(segs[i], vaddr, k) \in U64
      BY <1>15
    <3>3. OnlyOffset(segs, ioff, k, ByteOffset(segs[i], vaddr, k))
      BY <1>10, <3>2
    <3> HIDE DEF p
    <3>4. e = <<O[i] + p - 1, E[i][p]>>
      BY <3>1, <3>2, <3>3 DEF OnlyOffset
    <3> QED
      BY <1>1, <1>12, <3>2, <3>4
  <2>3. CASE \E j \in 1..m :
                 /\ Takes(secs[j], vaddr, bytes)
                 /\ \E k \in 1..Len(bytes) :
                        e = <<SectionByteOffset(secs[j], vaddr, k), bytes[k]>>
    <3>1. PICK j \in 1..m :
                 /\ Takes(secs[j], vaddr, bytes)
                 /\ \E k \in 1..Len(bytes) :
                        e = <<SectionByteOffset(secs[j], vaddr, k), bytes[k]>>
      BY <2>3
    <3>2. PICK k \in 1..Len(bytes) :
              e = <<SectionByteOffset(secs[j], vaddr, k), bytes[k]>>
      BY <3>1
    <3> DEFINE p == (vaddr - secs[j].header.addr) + k
               z == n + j
    <3>3. /\ p \in 1..Len(E[z]) /\ E[z][p] = bytes[k]
          /\ SectionByteOffset(secs[j], vaddr, k) = O[z] + p - 1
      BY <1>16, <3>1
    <3>4. z \in 1..N
      BY <1>13
    <3> HIDE DEF p, z
    <3>5. e = <<O[z] + p - 1, E[z][p]>>
      BY <3>2, <3>3
    <3> QED
      BY <3>3, <3>4, <3>5
  <2> QED
    BY <2>1, <2>2, <2>3 DEF EditedAt, segs, secs, m
<1>18. ASSUME NEW z \in 1..N, NEW p \in 1..Len(E[z]), E[z][p] # D[z][p]
       PROVE  <<O[z] + p - 1, E[z][p]>> \in edits
  <2> DEFINE e == <<O[z] + p - 1, E[z][p]>>
  <2>1. CASE z <= n
    <3>1. z \in 1..n /\ D[z] = segs[z].data /\ E[z] = other.segments[z].data
      BY <1>6, <1>14, <2>1
    <3>2. z = i
      BY <1>5, <1>18, <3>1
    <3> DEFINE start == vaddr - segs[i].header.vaddr
               data == segs[i].data
    <3>3. E[z] = Copied(data, start, bytes) /\ D[z] = data
      BY <1>5, <3>1, <3>2
    <3>4. data \in Seq(Byte) /\ start \in Int /\ InData(data, start, Len(bytes))
      <4>1. segs[i].header.vaddr \in Nat /\ segs[i].data \in Seq(Byte)
        BY <1>1, <1>11, SegmentFacts
      <4> QED
        BY <1>8, <4>1
    <3> HIDE DEF start, data, e
    <3>5. p \in 1..Len(data) /\ Copied(data, start, bytes)[p] # data[p]
      <4>1. Len(Copied(data, start, bytes)) = Len(data)
        BY <3>4, CopiedBytes, SMT
      <4> QED
        BY <1>18, <3>3, <4>1
    <3>6. PICK k \in 1..Len(bytes) : p = start + k
      BY <3>4, <3>5, CopiedWhere, SMT
    <3>7. /\ E[i][p] = bytes[k] /\ ByteOffset(segs[i], vaddr, k) = O[i] + p - 1
          /\ ByteOffset(segs[i], vaddr, k) \in U64
      BY <1>15, <3>6 DEF start
    <3>8. OnlyOffset(segs, ioff, k, ByteOffset(segs[i], vaddr, k))
      BY <1>10, <3>7
    <3>9. ByteOffset(segs[i], vaddr, k) \in IoffToOffset(segs, ioff + k - 1)
      BY <3>8 DEF OnlyOffset
    <3>10. e = <<ByteOffset(segs[i], vaddr, k), bytes[k]>>
      BY <3>2, <3>7 DEF e
    <3>11. EditedAt(im, ioff, vaddr, bytes, e)
      BY <3>9, <3>10, Zenon DEF EditedAt, segs
    <3> QED
      BY <1>7, <3>11 DEF e
  <2>2. CASE ~(z <= n)
    <3> DEFINE j == z - n
    <3>1. /\ j \in 1..m /\ D[z] = FileBytes(secs[j])
          /\ E[z] = FileBytes(other.sections[j])
      BY <1>6, <1>14, <2>2
    <3>2. n + j = z
      BY <1>1, <1>14
    <3> HIDE DEF j
    <3> DEFINE start == vaddr - secs[j].header.addr
               data == secs[j].data
    <3>3. /\ Takes(secs[j], vaddr, bytes)
          /\ E[z] = Copied(data, start, bytes) /\ D[z] = data
      BY <1>5, <1>18, <3>1
    <3>4. data \in Seq(Byte) /\ start \in Int /\ InData(data, start, Len(bytes))
      <4>1. secs[j].header.addr \in U64 /\ secs[j].data \in Seq(Byte)
        BY <1>11, <3>1, SectionFacts DEF Shdr
      <4>2. secs[j].header.addr \in Nat
        BY <4>1, U64Nat
      <4> QED
        BY <1>9, <3>1, <3>3, <4>1, <4>2
    <3> HIDE DEF start, data, e
    <3>5. p \in 1..Len(data) /\ Copied(data, start, bytes)[p] # data[p]
      <4>1. Len(Copied(data, start, bytes)) = Len(data)
        BY <3>4, CopiedBytes, SMT
      <4> QED
        BY <1>18, <3>3, <4>1
    <3>6. PICK k \in 1..Len(bytes) : p = start + k
      BY <3>4, <3>5, CopiedWhere, SMT
    <3>7. E[z][p] = bytes[k] /\ SectionByteOffset(secs[j], vaddr, k) = O[z] + p - 1
      BY <1>16, <3>1, <3>2, <3>3, <3>6 DEF start
    <3>8. e = <<SectionByteOffset(secs[j], vaddr, k), bytes[k]>>
      BY <3>7 DEF e
    <3>9. EditedAt(im, ioff, vaddr, bytes, e)
      BY <3>1, <3>3, <3>8, Zenon DEF EditedAt, secs, m
    <3> QED
      BY <1>7, <3>9 DEF e
  <2> QED
    BY <2>1, <2>2
<1>19. SlotEdits(N, O, D, E, edits)
  BY <1>17, <1>18, Zenon DEF SlotEdits
<1> QED
  BY <1>19, Zenon DEF N, n, m, segs, secs, O, D, E, edits, other

(* A file with nothing replaced, and one with more behind it.                *)
LEMMA NothingPatched ==
    ASSUME NEW f \in Seq(Byte)
    PROVE  Patched(f, {}) = f
<1>1. \A p \in 1..Len(f) : Patched(f, {})[p] = f[p]
  BY NotPatched
<1>2. Patched(f, {}) = [p \in 1..Len(f) |-> f[p]]
  BY DEF Patched
<1> QED
  BY <1>2

(* One sequence behind another.                                              *)
LEMMA JoinedBytes ==
    ASSUME NEW g \in Seq(Byte), NEW t \in Seq(Byte), NEW n \in Nat, n = Len(g)
    PROVE  /\ g \o t \in Seq(Byte) /\ Len(g \o t) = n + Len(t)
           /\ \A p \in 1..n : (g \o t)[p] = g[p]
           /\ \A p \in (n + 1)..(n + Len(t)) : (g \o t)[p] = t[p - n]
  OBVIOUS

(* A sequence is the function that gives its elements.                       *)
LEMMA AsFunction ==
    ASSUME NEW S, NEW s \in Seq(S), NEW n, n = Len(s)
    PROVE  s = [p \in 1..n |-> s[p]]
  OBVIOUS

(* Edits of a file leave alone what is behind it.                            *)
LEMMA PatchedInFront ==
    ASSUME NEW f \in Seq(Byte), NEW t \in Seq(Byte), NEW edits,
           \A e \in edits : \E p \in 1..Len(f) : e[1] = p - 1,
           Patched(f, edits) \in Seq(Byte), Len(Patched(f, edits)) = Len(f)
    PROVE  Patched(f \o t, edits) = Patched(f, edits) \o t
<1> DEFINE g == Patched(f, edits)
           whole == f \o t
<1>1. /\ Len(f) \in Nat /\ Len(t) \in Nat /\ g \in Seq(Byte) /\ Len(g) = Len(f)
      /\ whole \in Seq(Byte) /\ Len(whole) = Len(f) + Len(t)
      /\ \A p \in 1..Len(f) : whole[p] = f[p]
      /\ \A p \in (Len(f) + 1)..Len(whole) : whole[p] = t[p - Len(f)]
  OBVIOUS
<1> DEFINE new(p) == IF \E e \in edits : e[1] = p - 1
                     THEN (CHOOSE e \in edits : e[1] = p - 1)[2] ELSE whole[p]
<1>2. Patched(whole, edits) = [p \in 1..Len(whole) |-> new(p)]
  BY DEF Patched
<1>3. ASSUME NEW p \in 1..Len(f) PROVE new(p) = g[p]
  <2>1. g[p] = IF \E e \in edits : e[1] = p - 1
               THEN (CHOOSE e \in edits : e[1] = p - 1)[2] ELSE f[p]
    BY DEF Patched
  <2>2. whole[p] = f[p]
    BY <1>1
  <2> HIDE DEF g, whole
  <2> QED
    BY <2>1, <2>2, Zenon
<1>4. ASSUME NEW p \in (Len(f) + 1)..Len(whole) PROVE new(p) = t[p - Len(f)]
  <2>1. ASSUME NEW e \in edits, e[1] = p - 1 PROVE FALSE
    <3>1. PICK q \in 1..Len(f) : e[1] = q - 1
      BY <2>1
    <3>2. p \in Nat /\ q \in Nat /\ Len(f) < p /\ q <= Len(f)
      BY <1>1
    <3> QED
      BY <1>1, <2>1, <3>1, <3>2
  <2>2. new(p) = whole[p]
    BY <2>1, Zenon
  <2> QED
    BY <1>1, <2>2
<1> HIDE DEF new, g
<1>5. /\ g \o t \in Seq(Byte) /\ Len(g \o t) = Len(whole)
      /\ \A p \in 1..Len(f) : (g \o t)[p] = g[p]
      /\ \A p \in (Len(f) + 1)..Len(whole) : (g \o t)[p] = t[p - Len(f)]
  <2>1. /\ g \in Seq(Byte) /\ Len(f) \in Nat /\ Len(f) = Len(g)
        /\ Len(whole) = Len(f) + Len(t)
    BY <1>1
  <2>2. /\ g \o t \in Seq(Byte) /\ Len(g \o t) = Len(f) + Len(t)
        /\ \A p \in 1..Len(f) : (g \o t)[p] = g[p]
        /\ \A p \in (Len(f) + 1)..(Len(f) + Len(t)) : (g \o t)[p] = t[p - Len(f)]
    BY <2>1, JoinedBytes, Zenon
  <2> HIDE DEF whole
  <2> QED
    BY <2>1, <2>2
<1> HIDE DEF whole
<1>6. ASSUME NEW p \in 1..Len(whole) PROVE new(p) = (g \o t)[p]
  <2>1. p \in 1..Len(f) \/ p \in (Len(f) + 1)..Len(whole)
    BY <1>1
  <2> QED
    BY <1>3, <1>4, <1>5, <2>1
<1>7. g \o t = [p \in 1..Len(whole) |-> (g \o t)[p]]
  <2>1. g \o t \in Seq(Byte) /\ Len(whole) = Len(g \o t)
    BY <1>5
  <2> DEFINE h == g \o t
  <2>2. h \in Seq(Byte) /\ Len(whole) = Len(h)
    BY <2>1
  <2> HIDE DEF h
  <2>3. h = [p \in 1..Len(whole) |-> h[p]]
    BY <2>2, AsFunction
  <2> QED
    BY <2>3 DEF h
<1>8. Patched(whole, edits) = g \o t
  BY <1>2, <1>6, <1>7
<1> QED
  BY <1>8 DEF g, whole

OfByte(f, e) == \E p \in 1..Len(f) : e[1] = p - 1

(* The edits of a write are of bytes of the file.                            *)
LEMMA EditsInFile ==
    ASSUME NEW f, NEW N, NEW c, NEW O, NEW D, NEW E, Slots(f, N, c, O, D, E),
           NEW edits, SlotEdits(N, O, D, E, edits), NEW e \in edits
    PROVE  OfByte(f, e)
<1>1. PICK y \in 1..N : \E l \in 1..Len(E[y]) : e = <<O[y] + l - 1, E[y][l]>>
  BY Zenon DEF SlotEdits
<1>2. PICK l \in 1..Len(E[y]) : e = <<O[y] + l - 1, E[y][l]>>
  BY <1>1, Zenon
<1>3. O[y] \in Nat /\ l \in Nat
  BY SlotFacts, PositionIsNat, Zenon
<1>4. O[y] + l \in 1..Len(f)
  BY PatchedSlot, Zenon
<1> DEFINE p == O[y] + l
<1>5. p \in 1..Len(f)
  BY <1>4
<1>6. e[1] = p - 1
  <2>1. e[1] = O[y] + l - 1
    BY <1>2
  <2> QED
    BY <1>3, <2>1
<1> HIDE DEF p
<1> QED
  BY <1>5, <1>6, Zenon DEF OfByte

(* What PatchedInFront asks of edits, of those of a write.                   *)
EditsFit(f, edits) ==
    /\ \A e \in edits : OfByte(f, e)
    /\ Patched(f, edits) \in Seq(Byte) /\ Len(Patched(f, edits)) = Len(f)

(* The edits of slots fit the file,                                          *)
LEMMA SlotEditsFit ==
    ASSUME NEW f, NEW N, NEW c, NEW O, NEW D, NEW E, Slots(f, N, c, O, D, E),
           NEW edits, SlotEdits(N, O, D, E, edits)
    PROVE  EditsFit(f, edits)
<1>1. \A e \in edits : OfByte(f, e)
  <2>1. SUFFICES ASSUME NEW e \in edits PROVE OfByte(f, e)
    OBVIOUS
  <2> QED
    BY EditsInFile, Zenon
<1>2. Patched(f, edits) \in Seq(Byte) /\ Len(Patched(f, edits)) = Len(f)
  BY PatchedIsFile, SMT
<1> QED
  BY <1>1, <1>2 DEF EditsFit

(* and so leave alone what is behind it.                                     *)
LEMMA FittingInFront ==
    ASSUME NEW f \in Seq(Byte), NEW t \in Seq(Byte), NEW edits, EditsFit(f, edits)
    PROVE  Patched(f \o t, edits) = Patched(f, edits) \o t
<1>1. /\ \A e \in edits : \E p \in 1..Len(f) : e[1] = p - 1
      /\ Patched(f, edits) \in Seq(Byte) /\ Len(Patched(f, edits)) = Len(f)
  BY DEF EditsFit, OfByte
<1> QED
  BY <1>1, PatchedInFront

-----------------------------------------------------------------------------
(* A session that opened a file try_build wrote: it is made of the image     *)
(* that was read, and the image is that one or an edit of it.                *)
EditedBy(im, ioff, bytes, i, other, edits) ==
    LET vaddr == ImageBase(im.segments) + ioff
    IN  /\ Writes(im.segments, i, vaddr, bytes)
        /\ other = Edited(im, i, vaddr, bytes)
        /\ edits = PatchOf(im, ioff, bytes)

EditOf(im, other, edits) ==
    \/ other = im /\ edits = {}
    \/ \E ioff \in Offsets, bytes \in Payload, i \in 1..Len(im.segments) :
           EditedBy(im, ioff, bytes, i, other, edits)

OpenedFrom(im, f, phs, c, b) ==
    /\ im \in ElfImage /\ f \in Seq(Byte) /\ Len(f) <= MaxImage
    /\ MadeAsIs(im, f, phs, c, b)
    /\ file = f \o trailing /\ EditOf(im, image, patch)

OpenedInv == settled => \E im, f, phs, c, b : OpenedFrom(im, f, phs, c, b)

PatchInv == SessionInv /\ LaidInv /\ OpenedInv

(* The conditions of an edited image are those of the image it was.          *)
LEMMA ConditionsCarried ==
    ASSUME NEW im, NEW other, SameHeaders(im, other), InOrder(other), NamesNotLoaded(other)
    PROVE  InOrder(im) /\ NamesNotLoaded(im)
<1>1. \A j \in 1..Len(im.segments) : IsLoad(other.segments[j]) <=> IsLoad(im.segments[j])
  BY DEF SameHeaders, IsLoad
<1>2. \A j \in 1..Len(im.segments) : FileEnd(other.segments[j]) = FileEnd(im.segments[j])
  BY DEF SameHeaders, FileEnd
<1>3. InOrder(im)
  <2>1. SUFFICES ASSUME NEW l \in 1..Len(im.segments), IsLoad(im.segments[l])
                 PROVE  /\ FileEnd(im.segments[l]) <= U64Max
                        /\ Len(im.segments[l].data) <= im.segments[l].header.memsz
                        /\ \A j \in 1..(l - 1) :
                               IsLoad(im.segments[j]) =>
                                   \/ im.segments[j].header.vaddr <= im.segments[l].header.vaddr
                                   \/ im.segments[j].header.vaddr >= FileEnd(im.segments[l])
    BY DEF InOrder
  <2>2. /\ FileEnd(other.segments[l]) <= U64Max
        /\ Len(other.segments[l].data) <= other.segments[l].header.memsz
        /\ \A j \in 1..(l - 1) :
               IsLoad(other.segments[j]) =>
                   \/ other.segments[j].header.vaddr <= other.segments[l].header.vaddr
                   \/ other.segments[j].header.vaddr >= FileEnd(other.segments[l])
    BY <1>1, <2>1 DEF InOrder, SameHeaders
  <2>3. /\ other.segments[l].header = im.segments[l].header
        /\ Len(other.segments[l].data) = Len(im.segments[l].data)
    BY DEF SameHeaders
  <2>4. ASSUME NEW j \in 1..(l - 1), IsLoad(im.segments[j])
        PROVE  \/ im.segments[j].header.vaddr <= im.segments[l].header.vaddr
               \/ im.segments[j].header.vaddr >= FileEnd(im.segments[l])
    <3>1. j \in 1..Len(im.segments)
      OBVIOUS
    <3>2. other.segments[j].header = im.segments[j].header /\ IsLoad(other.segments[j])
      BY <1>1, <2>4, <3>1 DEF SameHeaders
    <3> QED
      BY <1>2, <2>2, <2>3, <3>2
  <2> QED
    BY <1>2, <2>2, <2>3, <2>4
<1>4. NamesNotLoaded(im)
  BY DEF NamesNotLoaded, SameHeaders, IsShstrtab
<1> QED
  BY <1>3, <1>4

(* The file of an edited image is the old one with the edits made.           *)
LEMMA PatchedIsMade ==
    ASSUME NEW im \in ElfImage, NEW f \in Seq(Byte), NEW phs, NEW c, NEW b,
           MadeAsIs(im, f, phs, c, b), Len(f) <= MaxImage, NEW t \in Seq(Byte),
           NEW ioff \in Nat, NEW bytes \in Seq(RawByte), NEW i \in 1..Len(im.segments),
           NEW other, NEW edits, EditedBy(im, ioff, bytes, i, other, edits),
           InOrder(other), NamesNotLoaded(other)
    PROVE  /\ other \in ElfImage
           /\ MadeAsIs(other, Patched(f, edits), phs, c, b)
           /\ Patched(f \o t, edits) = Patched(f, edits) \o t
<1> DEFINE N == Len(im.segments) + Len(im.sections)
           vaddr == ImageBase(im.segments) + ioff
<1>1. /\ vaddr \in Nat /\ vaddr = ImageBase(im.segments) + ioff
      /\ Writes(im.segments, i, vaddr, bytes)
      /\ other = Edited(im, i, vaddr, bytes) /\ edits = PatchOf(im, ioff, bytes)
  <2>1. ImageBase(im.segments) \in Nat
    <3>1. im.segments \in Seq(Segment)
      BY DEF ElfImage
    <3> QED
      BY <3>1, BaseIsAddress, U64Nat
  <2> QED
    BY <2>1 DEF EditedBy
<1> HIDE DEF vaddr
<1>2. other \in ElfImage /\ SameHeaders(im, other)
  <2>1. Edited(im, i, vaddr, bytes) \in ElfImage
        /\ SameHeaders(im, Edited(im, i, vaddr, bytes))
    BY <1>1, EditedIsImage, EditKeepsHeaders, Zenon
  <2> QED
    BY <1>1, <2>1
<1>3. InOrder(im) /\ NamesNotLoaded(im)
  BY <1>2, ConditionsCarried, Zenon
<1>4. SameShape(im, other)
  <2>1. SameShape(im, Edited(im, i, vaddr, bytes))
    BY <1>1, <1>3, EditKeepsShape, Zenon
  <2> QED
    BY <1>1, <2>1
<1>5. SlotEdits(N, SlotOffsets(im), SlotData(im), SlotData(other), edits)
  <2>1. SlotEdits(N, SlotOffsets(im), SlotData(im),
                  SlotData(Edited(im, i, vaddr, bytes)), PatchOf(im, ioff, bytes))
    BY <1>1, <1>3, EditIsOfSlots, Zenon
  <2> QED
    BY <1>1, <2>1
<1>6. Slots(f, N, c, SlotOffsets(im), SlotData(im), SlotData(other))
  BY <1>2, <1>4, ImageSlots, Zenon
<1>7. MadeAsIs(other, Patched(f, edits), phs, c, b)
  BY <1>2, <1>4, <1>5, MadeOfEdited, Zenon
<1> DEFINE O == SlotOffsets(im)
           D == SlotData(im)
           E == SlotData(other)
<1>8. Slots(f, N, c, O, D, E) /\ SlotEdits(N, O, D, E, edits)
  BY <1>5, <1>6, Zenon
<1> HIDE DEF N, O, D, E
<1>9. EditsFit(f, edits)
  BY <1>8, SlotEditsFit, Zenon
<1>10. Patched(f \o t, edits) = Patched(f, edits) \o t
  BY <1>9, FittingInFront, SMT
<1> QED
  BY <1>2, <1>7, <1>10, Zenon

(* A session opens no file before its first call ends.                       *)
LEMMA PatchStarts == SessionInit => PatchInv
<1> SUFFICES ASSUME SessionInit PROVE PatchInv
  OBVIOUS
<1>1. SessionInv
  BY SessionStarts
<1>2. image \in ElfImage /\ Begin /\ ~settled
  BY <1>1, ImageFacts DEF SessionInv, IInv, SessionInit
<1> QED
  BY <1>1, <1>2, BeginLaid DEF PatchInv, OpenedInv

(* What a file that was just saved is opened as, or as an edit of it.        *)
LEMMA OpenedAs ==
    ASSUME NEW im, im = Parsed(Saved), Reopen
    PROVE  EditOf(im, image', patch')
<1>1. CASE OpenUnchanged(im)
  BY <1>1 DEF OpenUnchanged, Restart, EditOf
<1>2. CASE OpenAndEdit(im)
  <2>1. PICK ioff \in Offsets, bytes \in Payload, i \in 1..Len(im.segments) :
            LET vaddr == ImageBase(im.segments) + ioff
            IN  /\ Writes(im.segments, i, vaddr, bytes)
                /\ Restart(Edited(im, i, vaddr, bytes))
                /\ patch' = PatchOf(im, ioff, bytes)
    BY <1>2 DEF OpenAndEdit
  <2>2. EditedBy(im, ioff, bytes, i, image', patch')
    BY <2>1 DEF EditedBy, Restart
  <2> QED
    BY <2>2 DEF EditOf
<1> QED
  BY <1>1, <1>2 DEF Reopen

(* Opening a file that try_build wrote.                                      *)
LEMMA OpensWhatWasSaved ==
    ASSUME PatchInv, Reopen
    PROVE  OpenedInv'
<1> DEFINE im == Parsed(Saved)
<1>1. /\ Finished /\ trailing' = TrailingOf(Saved) /\ file' = Saved
      /\ settled' = ReadsBackWhole(image)
  BY DEF Reopen, Finished, PatchInv, SessionInv
<1>2. /\ im \in ElfImage /\ out \in Seq(Byte) /\ Len(out) <= MaxImage
  BY <1>1, SavedImage, FinishedFacts
<1>3. trailing' = trailing
  BY <1>1, TrailingIsFound DEF PatchInv, TrailingKept, Finished
<1>4. file' = out \o trailing'
  BY <1>1, <1>3 DEF Saved
<1>5. EditOf(im, image', patch')
  BY OpenedAs
<1>6. ASSUME settled'
      PROVE  \E phs, c, b : MadeAsIs(im, out, phs, c, b)
  BY <1>1, <1>6, SavedAsIs DEF PatchInv
<1> HIDE DEF im
<1>7. ASSUME settled'
      PROVE  (\E y, f, phs, c, b : OpenedFrom(y, f, phs, c, b))'
  <2>1. PICK phs, c, b : MadeAsIs(im, out, phs, c, b)
    BY <1>6, <1>7
  <2>2. \E y, f, p, d, e :
           /\ y \in ElfImage /\ f \in Seq(Byte) /\ Len(f) <= MaxImage
           /\ MadeAsIs(y, f, p, d, e)
           /\ file' = f \o trailing' /\ EditOf(y, image', patch')
    BY <1>2, <1>4, <1>5, <2>1, Zenon
  <2> QED
    BY <2>2, Zenon DEF OpenedFrom
<1> QED
  BY <1>7 DEF OpenedInv

(* A call leaves the image it was given alone.                               *)
LEMMA ImageIsGiven == [Next]_vars => image' = image
BY DEF Next, SkipSegment, PlaceSegment, EnsureShstrtab, CollectName, AssignNames, SkipSection,
       PlaceSection, SectionsPlaced, WriteProgramHeaders, FillHeader, WriteSectionHeaders,
       WriteHeader, Returned, Fail, vars

(* Every step of a session keeps it.                                         *)
LEMMA PatchSteps == PatchInv /\ [SessionNext]_allVars => PatchInv'
<1> SUFFICES ASSUME PatchInv, [SessionNext]_allVars PROVE PatchInv'
  OBVIOUS
<1>1. SessionInv'
  BY SessionSteps DEF PatchInv
<1>2. CASE Save \/ UNCHANGED allVars
  <2>1. [Next]_vars /\ UNCHANGED session
    BY <1>2 DEF Save, allVars
  <2>2. LaidInv'
    BY <2>1, StepLaid DEF PatchInv, SessionInv
  <2>3. UNCHANGED <<image, trailing, file, patch, settled>>
    BY <2>1, ImageIsGiven DEF session
  <2>4. OpenedInv'
    BY <2>3 DEF PatchInv, OpenedInv, OpenedFrom
  <2> QED
    BY <1>1, <2>2, <2>4 DEF PatchInv
<1>3. CASE Reopen
  <2>1. (image \in ElfImage /\ Begin)'
    BY <1>3, ReopenBegins DEF PatchInv
  <2>2. LaidInv'
    BY <2>1, NextLaid
  <2>3. OpenedInv'
    BY <1>3, OpensWhatWasSaved
  <2> QED
    BY <1>1, <2>2, <2>3 DEF PatchInv
<1> QED
  BY <1>2, <1>3 DEF SessionNext

(* A file saved without edits is the file that was opened, and one saved     *)
(* after an edit is that file with the edited bytes.                         *)
LEMMA SavesWhatWasOpened == PatchInv => PatchIsExact
<1> SUFFICES ASSUME PatchInv, pc = "done", settled, InOrder(image), NamesNotLoaded(image)
             PROVE  out \o trailing = Patched(file, patch)
  BY DEF PatchIsExact, Saved
<1>1. /\ BuiltFrom(image, out, phdrs, sections, header) /\ image \in ElfImage
      /\ trailing \in Seq(Byte)
  BY BuiltAtEnd, ImageFacts DEF PatchInv, SessionInv, IInv
<1>2. PICK im, f, phs, c, b : OpenedFrom(im, f, phs, c, b)
  BY DEF PatchInv, OpenedInv
<1>3. /\ im \in ElfImage /\ f \in Seq(Byte) /\ Len(f) <= MaxImage
      /\ MadeAsIs(im, f, phs, c, b)
      /\ file = f \o trailing /\ EditOf(im, image, patch)
  BY <1>2 DEF OpenedFrom
<1>4. CASE image = im /\ patch = {}
  <2>1. BuiltFrom(image, f, phs, im.sections, im.header)
    BY <1>3, <1>4, AsIsIsBuilt
  <2>2. out = f
    BY <1>1, <2>1, OneFile
  <2>3. file \in Seq(Byte)
    BY <1>1, <1>3
  <2> QED
    BY <1>3, <1>4, <2>2, <2>3, NothingPatched
<1>5. ASSUME NEW ioff \in Offsets, NEW bytes \in Payload, NEW i \in 1..Len(im.segments),
             EditedBy(im, ioff, bytes, i, image, patch)
      PROVE  out \o trailing = Patched(file, patch)
  <2>1. ioff \in Nat /\ bytes \in Seq(RawByte)
    BY SessionAssumption
  <2>2. /\ image \in ElfImage
        /\ MadeAsIs(image, Patched(f, patch), phs, c, b)
        /\ Patched(f \o trailing, patch) = Patched(f, patch) \o trailing
    BY <1>1, <1>3, <1>5, <2>1, PatchedIsMade, SMT
  <2>3. BuiltFrom(image, Patched(f, patch), phs, image.sections, image.header)
    BY <2>2, AsIsIsBuilt
  <2>4. out = Patched(f, patch)
    BY <1>1, <2>3, OneFile
  <2> QED
    BY <1>3, <2>2, <2>4
<1> QED
  BY <1>3, <1>4, <1>5 DEF EditOf

(* However often a file is opened, edited and saved: a file that try_build   *)
(* wrote, opened, edited with write_at_ioff and saved is that file with the  *)
(* edited bytes replaced and no other; opened and saved, it is itself        *)
(* (elf_file.rs:104-172, edit.rs:14-40, inspect.rs:135-152).                 *)
THEOREM EditsPatchTheFile == SessionSpec => []PatchIsExact
BY PatchStarts, PatchSteps, SavesWhatWasOpened, PTL DEF SessionSpec

=============================================================================
