--------------------------- MODULE ElfEditProofs ----------------------------
(* Proofs about write_at_ioff and read_at_ioff, for images of any size and   *)
(* any sequence of writes: editing implements the memory of LoadedMemory,    *)
(* the sections keep step with the segments, and a read sees the memory.     *)
EXTENDS ElfEdit, ElfFormatProofs

-----------------------------------------------------------------------------
(* The memory that the loadable segments present.                            *)

(* The numbers of a segment's header.                                        *)
LEMMA SegmentFacts ==
    ASSUME TypeOK, NEW i \in 1..Len(segments)
    PROVE  /\ segments[i] \in Segment
           /\ segments[i].header.vaddr \in Nat /\ segments[i].header.memsz \in Nat
           /\ segments[i].data \in Seq(Byte) /\ Len(segments[i].data) \in Nat
           /\ segments[i].header.vaddr <= U64Max
<1>1. segments \in Seq(Segment)  BY DEF TypeOK
<1>2. segments[i] \in Segment  BY <1>1
<1>3. segments[i].header \in Phdr /\ segments[i].data \in Seq(Byte)
  BY <1>2 DEF Segment
<1>4. segments[i].header.vaddr \in 0..U64Max /\ segments[i].header.memsz \in 0..U64Max
  BY <1>3 DEF Phdr, U64
<1> QED  BY <1>2, <1>3, <1>4, U64MaxAssumption

(* A loadable segment covers its own bytes, and no other one does.           *)
LEMMA CoveredOnce ==
    ASSUME TypeOK, NEW i \in 1..Len(segments), NEW a \in Extent(i)
    PROVE  /\ IsLoad(segments[i])
           /\ a \in Nat /\ a < U64Max /\ segments[i].header.vaddr <= a
           /\ a < segments[i].header.vaddr + Len(segments[i].data)
           /\ CoversLoaded(segments[i], a)
           /\ \A j \in 1..Len(segments) : CoversLoaded(segments[j], a) => j = i
<1> DEFINE h(k) == segments[k].header
<1>1. IsLoad(segments[i])  BY DEF Extent
<1>2. \A k \in 1..Len(segments) : h(k).vaddr \in Nat /\ h(k).memsz \in Nat
  BY SegmentFacts
<1>3. Len(segments[i].data) \in Nat /\ U64Max \in Nat  BY SegmentFacts, U64MaxAssumption
<1>4. a \in h(i).vaddr..(h(i).vaddr + Len(segments[i].data) - 1)
  BY <1>1 DEF Extent
<1>5. /\ h(i).vaddr + h(i).memsz <= U64Max /\ Len(segments[i].data) <= h(i).memsz
      /\ \A j \in 1..Len(segments) : j # i /\ IsLoad(segments[j]) =>
             \/ h(i).vaddr + h(i).memsz <= h(j).vaddr
             \/ h(j).vaddr + h(j).memsz <= h(i).vaddr
  BY <1>1 DEF TypeOK, WellLoaded
<1> HIDE DEF h
<1>6. /\ a \in Nat /\ h(i).vaddr <= a /\ a < h(i).vaddr + Len(segments[i].data)
      /\ a < h(i).vaddr + h(i).memsz /\ a < U64Max
  BY <1>2, <1>3, <1>4, <1>5
<1>7. CoversLoaded(segments[i], a)
  <2>1. SatAdd(h(i).vaddr, h(i).memsz) = h(i).vaddr + h(i).memsz
    BY <1>2, <1>3, <1>5 DEF SatAdd
  <2> QED  BY <1>1, <1>6, <2>1 DEF CoversLoaded, SegmentContains, h
<1>8. ASSUME NEW j \in 1..Len(segments), CoversLoaded(segments[j], a), j # i
      PROVE  FALSE
  <2>1. IsLoad(segments[j]) /\ h(j).vaddr <= a /\ a < SatAdd(h(j).vaddr, h(j).memsz)
    BY <1>8 DEF CoversLoaded, SegmentContains, h
  <2>2. SatAdd(h(j).vaddr, h(j).memsz) <= h(j).vaddr + h(j).memsz
    BY <1>2, <1>3 DEF SatAdd
  <2>3. SatAdd(h(j).vaddr, h(j).memsz) \in Nat  BY <1>2, <1>3 DEF SatAdd
  <2>4. /\ a \in Nat /\ h(j).vaddr \in Nat /\ h(j).memsz \in Nat
        /\ a < h(j).vaddr + h(j).memsz
    BY <1>2, <1>6, <2>1, <2>2, <2>3
  <2>5. h(i).vaddr \in Nat /\ h(i).memsz \in Nat  BY <1>2
  <2>6. /\ h(i).vaddr <= a /\ a < h(i).vaddr + h(i).memsz
        /\ h(j).vaddr <= a
    BY <1>6, <2>1
  <2>7. \/ h(i).vaddr + h(i).memsz <= h(j).vaddr
        \/ h(j).vaddr + h(j).memsz <= h(i).vaddr
    BY <1>5, <1>8, <2>1
  <2> QED  BY <2>4, <2>5, <2>6, <2>7
<1> QED  BY <1>1, <1>6, <1>7, <1>8 DEF h

(* The byte of memory at an address is the byte of the one segment there.    *)
LEMMA ByteOfSegment ==
    ASSUME TypeOK, NEW i \in 1..Len(segments), NEW a \in Extent(i)
    PROVE  ByteAt(a) = segments[i].data[a - segments[i].header.vaddr + 1]
<1>1. ASSUME NEW j \in 1..Len(segments), a \in Extent(j) PROVE j = i
  <2>1. CoversLoaded(segments[j], a)  BY <1>1, CoveredOnce
  <2> QED  BY <2>1, CoveredOnce
<1>2. i = CHOOSE j \in 1..Len(segments) : a \in Extent(j)  BY <1>1
<1> QED  BY <1>2 DEF ByteAt

-----------------------------------------------------------------------------
(* A write, in the segment and in the sections.                              *)

(* A write keeps the headers and the sizes of the segments, lies in one, and *)
(* changes its bytes only.                                                   *)
LEMMA SegmentWrite ==
    ASSUME TypeOK, NEW vaddr \in Nat, NEW bytes \in Seq(RawByte),
           NEW i \in 1..Len(segments), Writes(segments, i, vaddr, bytes),
           segments' = SegmentsWith(segments, i, vaddr, bytes)
    PROVE  /\ segments' \in Seq(Segment) /\ Len(segments') = Len(segments)
           /\ \A j \in 1..Len(segments) :
                  /\ segments'[j].header = segments[j].header
                  /\ Len(segments'[j].data) = Len(segments[j].data)
           /\ vaddr..(vaddr + Len(bytes) - 1) \subseteq Extent(i)
           /\ \A j \in 1..Len(segments) : \A p \in 1..Len(segments[j].data) :
                  LET a == segments[j].header.vaddr + p - 1
                  IN  segments'[j].data[p] =
                          IF j = i /\ a \in vaddr..(vaddr + Len(bytes) - 1)
                          THEN bytes[a - vaddr + 1] ELSE segments[j].data[p]
<1> DEFINE base  == segments[i].header.vaddr
           data  == segments[i].data
           start == vaddr - base
           new   == Copied(data, start, bytes)
<1>1. /\ segments \in Seq(Segment) /\ segments[i] \in Segment
      /\ base \in Nat /\ data \in Seq(Byte) /\ Len(data) \in Nat
  BY SegmentFacts DEF TypeOK
<1>2. /\ vaddr <= U64Max /\ CoversLoaded(segments[i], vaddr)
      /\ start >= 0 /\ start + Len(bytes) <= Len(data)
  BY DEF Writes, IsFirstLoad, InData
<1>3. IsLoad(segments[i])  BY <1>2 DEF CoversLoaded
<1>4. Len(bytes) \in Nat /\ start \in Int  BY <1>1
<1>5. segments' = [segments EXCEPT ![i] = [segments[i] EXCEPT !.data = new]]
  BY DEF SegmentsWith, WithBytes
<1>6. /\ new \in Seq(Byte) /\ Len(new) = Len(data)
      /\ \A p \in 1..Len(data) :
             new[p] = IF start < p /\ p <= start + Len(bytes) THEN bytes[p - start]
                      ELSE data[p]
  <2> HIDE DEF data, start
  <2> QED  BY <1>1, <1>4, CopiedBytes
<1> HIDE DEF new
<1>7. [segments[i] EXCEPT !.data = new] \in Segment  BY <1>1, <1>6 DEF Segment
<1>8. segments' \in Seq(Segment) /\ Len(segments') = Len(segments)
  BY <1>1, <1>5, <1>7
<1>9. \A j \in 1..Len(segments) : j # i => segments'[j] = segments[j]
  BY <1>1, <1>5
<1>10. segments'[i].header = segments[i].header /\ segments'[i].data = new
  BY <1>1, <1>5 DEF Segment
<1>11. vaddr..(vaddr + Len(bytes) - 1) \subseteq Extent(i)
  <2>1. Extent(i) = base..(base + Len(data) - 1)  BY <1>3 DEF Extent
  <2>2. vaddr >= base /\ vaddr + Len(bytes) <= base + Len(data)
    BY <1>1, <1>2, <1>4
  <2> HIDE DEF base, data
  <2> QED  BY <1>1, <1>4, <2>1, <2>2
<1>12. ASSUME NEW p \in 1..Len(data)
       PROVE  LET a == base + p - 1
              IN  new[p] = IF a \in vaddr..(vaddr + Len(bytes) - 1)
                           THEN bytes[a - vaddr + 1] ELSE data[p]
  <2>1. (base + p - 1) - vaddr + 1 = p - start  BY <1>1
  <2>2. base + p - 1 \in vaddr..(vaddr + Len(bytes) - 1) <=>
            start < p /\ p <= start + Len(bytes)
    <3>1. p \in Nat /\ p >= 1  BY <1>1
    <3> HIDE DEF base, data
    <3> QED  BY <1>1, <1>4, <3>1
  <2>3. new[p] = IF start < p /\ p <= start + Len(bytes) THEN bytes[p - start]
                 ELSE data[p]
    BY <1>6
  <2> HIDE DEF data, start, base
  <2> QED  BY <2>1, <2>2, <2>3
<1>13. ASSUME NEW j \in 1..Len(segments)
       PROVE  /\ segments'[j].header = segments[j].header
              /\ Len(segments'[j].data) = Len(segments[j].data)
  BY <1>6, <1>9, <1>10
<1>14. ASSUME NEW j \in 1..Len(segments), NEW p \in 1..Len(segments[j].data)
       PROVE  LET a == segments[j].header.vaddr + p - 1
              IN  segments'[j].data[p] =
                      IF j = i /\ a \in vaddr..(vaddr + Len(bytes) - 1)
                      THEN bytes[a - vaddr + 1] ELSE segments[j].data[p]
  <2>1. CASE j = i  BY <1>10, <1>12, <2>1
  <2>2. CASE j # i  BY <1>9, <2>2
  <2> QED  BY <2>1, <2>2
<1> QED  BY <1>8, <1>11, <1>13, <1>14

(* A write keeps the memory's extents and replaces its range of it.          *)
LEMMA MemoryWrite ==
    ASSUME TypeOK, TypeOK', NEW vaddr \in Nat, NEW bytes \in Seq(RawByte),
           NEW i \in 1..Len(segments), Writes(segments, i, vaddr, bytes),
           segments' = SegmentsWith(segments, i, vaddr, bytes)
    PROVE  /\ Extents' = Extents
           /\ \A a \in UNION Extents :
                  ByteAt(a)' = IF a \in vaddr..(vaddr + Len(bytes) - 1)
                               THEN bytes[a - vaddr + 1] ELSE ByteAt(a)
<1> DEFINE W == vaddr..(vaddr + Len(bytes) - 1)
<1>1. /\ segments' \in Seq(Segment) /\ Len(segments') = Len(segments)
      /\ \A j \in 1..Len(segments) :
             /\ segments'[j].header = segments[j].header
             /\ Len(segments'[j].data) = Len(segments[j].data)
      /\ W \subseteq Extent(i)
      /\ \A j \in 1..Len(segments) : \A p \in 1..Len(segments[j].data) :
             LET a == segments[j].header.vaddr + p - 1
             IN  segments'[j].data[p] =
                     IF j = i /\ a \in W THEN bytes[a - vaddr + 1]
                     ELSE segments[j].data[p]
  BY SegmentWrite, Zenon
<1>2. \A j \in 1..Len(segments) : Extent(j)' = Extent(j)
  BY <1>1 DEF Extent, IsLoad
<1>3. Extents' = Extents  BY <1>1, <1>2 DEF Extents
<1> HIDE DEF W
<1>4. ASSUME NEW a \in UNION Extents
      PROVE  ByteAt(a)' = IF a \in W THEN bytes[a - vaddr + 1] ELSE ByteAt(a)
  <2>1. PICK j \in 1..Len(segments) : a \in Extent(j)  BY DEF Extents
  <2>2. a \in Extent(j)' /\ j \in 1..Len(segments')  BY <1>1, <1>2, <2>1
  <2> DEFINE p == a - segments[j].header.vaddr + 1
  <2>3. ByteAt(a) = segments[j].data[p]  BY <2>1, ByteOfSegment
  <2>4. ByteAt(a)' = segments'[j].data[p]
    <3>1. ByteAt(a)' = segments'[j].data[a - segments'[j].header.vaddr + 1]
      <4>1. ASSUME NEW k \in 1..Len(segments'), a \in Extent(k)' PROVE k = j
        <5>1. a \in Extent(k)  BY <1>1, <1>2, <4>1
        <5>2. CoversLoaded(segments[k], a)  BY <1>1, <5>1, CoveredOnce
        <5> QED  BY <1>1, <2>1, <5>2, CoveredOnce
      <4>2. j = CHOOSE k \in 1..Len(segments') : a \in Extent(k)'  BY <2>2, <4>1
      <4> QED  BY <4>2 DEF ByteAt
    <3> QED  BY <1>1, <3>1
  <2>5. /\ a \in Nat /\ segments[j].header.vaddr \in Nat
        /\ segments[j].header.vaddr <= a
        /\ a < segments[j].header.vaddr + Len(segments[j].data)
        /\ Len(segments[j].data) \in Nat
    BY <2>1, CoveredOnce, SegmentFacts
  <2>6. p \in 1..Len(segments[j].data) /\ segments[j].header.vaddr + p - 1 = a
    BY <2>5
  <2>7. segments'[j].data[p] =
            IF j = i /\ a \in W THEN bytes[a - vaddr + 1] ELSE segments[j].data[p]
    <3> HIDE DEF p
    <3> QED  BY <1>1, <2>6
  <2>8. a \in W => j = i
    <3>1. a \in W => CoversLoaded(segments[i], a)  BY <1>1, CoveredOnce
    <3> QED  BY <2>1, <3>1, CoveredOnce
  <2> QED  BY <2>3, <2>4, <2>7, <2>8
<1> QED  BY <1>3, <1>4 DEF W

(* A write keeps a section's header and size, and changes the bytes in its   *)
(* range if the section takes it.                                            *)
LEMMA SectionWrite ==
    ASSUME NEW section \in Section, Measured(section),
           NEW vaddr \in Nat, NEW bytes \in Seq(RawByte)
    PROVE  LET new == Updated(section, vaddr, bytes)
           IN  /\ new \in Section /\ new.header = section.header
               /\ Len(new.data) = Len(section.data) /\ Measured(new)
               /\ \A p \in 1..Len(section.data) :
                      LET a == section.header.addr + p - 1
                      IN  new.data[p] =
                              IF /\ Takes(section, vaddr, bytes)
                                 /\ a \in vaddr..(vaddr + Len(bytes) - 1)
                              THEN bytes[a - vaddr + 1] ELSE section.data[p]
<1> DEFINE data  == section.data
           addr  == section.header.addr
           start == vaddr - addr
           new   == Updated(section, vaddr, bytes)
           copy  == Copied(data, start, bytes)
<1>1. section.header \in Shdr /\ data \in Seq(Byte)  BY DEF Section
<1>2. addr \in Nat /\ U64Max \in Nat  BY <1>1, U64MaxAssumption DEF Shdr, U64
<1>3. Len(data) \in Nat /\ Len(bytes) \in Nat /\ start \in Int  BY <1>1, <1>2
<1>4. CASE ~Takes(section, vaddr, bytes)  BY <1>4 DEF Updated
<1>5. CASE Takes(section, vaddr, bytes)
  <2>1. new = [section EXCEPT !.data = copy]  BY <1>5 DEF Updated
  <2>2. /\ copy \in Seq(Byte) /\ Len(copy) = Len(data)
        /\ \A p \in 1..Len(data) :
               copy[p] = IF start < p /\ p <= start + Len(bytes) THEN bytes[p - start]
                         ELSE data[p]
    <3> HIDE DEF data, start
    <3> QED  BY <1>1, <1>3, CopiedBytes
  <2> HIDE DEF copy, new
  <2>3. new \in Section /\ new.header = section.header /\ new.data = copy
    BY <2>1, <2>2 DEF Section
  <2>4. Measured(new)  BY <2>2, <2>3 DEF Measured, IsNobits
  <2>5. ASSUME NEW p \in 1..Len(data)
        PROVE  LET a == addr + p - 1
               IN  new.data[p] = IF a \in vaddr..(vaddr + Len(bytes) - 1)
                                 THEN bytes[a - vaddr + 1] ELSE data[p]
    <3>1. (addr + p - 1) - vaddr + 1 = p - start  BY <1>2
    <3>2. addr + p - 1 \in vaddr..(vaddr + Len(bytes) - 1) <=>
              start < p /\ p <= start + Len(bytes)
      <4>1. p \in Nat  BY <1>3
      <4> HIDE DEF data, addr
      <4> QED  BY <1>2, <1>3, <4>1
    <3>3. new.data[p] = IF start < p /\ p <= start + Len(bytes) THEN bytes[p - start]
                        ELSE data[p]
      BY <2>2, <2>3
    <3> HIDE DEF data, start, addr
    <3> QED  BY <3>1, <3>2, <3>3
  <2> QED  BY <1>5, <2>2, <2>3, <2>4, <2>5 DEF new
<1> QED  BY <1>4, <1>5

-----------------------------------------------------------------------------
(* The type invariant.                                                       *)

(* What a successful call does.                                              *)
Written(vaddr, bytes, i) ==
    /\ Writes(segments, i, vaddr, bytes)
    /\ segments' = SegmentsWith(segments, i, vaddr, bytes)
    /\ sections' = SectionsWith(sections, vaddr, bytes)
    /\ torn' = TornBy(vaddr..(vaddr + Len(bytes) - 1))
    /\ reply' = "some"

(* Every step is a successful call, a refused one, or none.                  *)
LEMMA Steps ==
    ASSUME TypeOK, [Next]_vars
    PROVE  \/ \E vaddr \in 0..(2 * U64Max), bytes \in Payload, i \in 1..Len(segments) :
                  Written(vaddr, bytes, i)
           \/ /\ \E vaddr \in 0..(2 * U64Max), bytes \in Payload :
                     \A i \in 1..Len(segments) : ~Writes(segments, i, vaddr, bytes)
              /\ reply' = "none" /\ UNCHANGED <<segments, sections, torn>>
           \/ UNCHANGED vars
<1>1. CASE UNCHANGED vars  BY <1>1
<1>2. ASSUME NEW ioff \in Offsets, NEW bytes \in Payload, WriteAtIoff(ioff, bytes)
      PROVE  \/ \E vaddr \in 0..(2 * U64Max), i \in 1..Len(segments) :
                    Written(vaddr, bytes, i)
             \/ /\ \E vaddr \in 0..(2 * U64Max) :
                       \A i \in 1..Len(segments) : ~Writes(segments, i, vaddr, bytes)
                /\ reply' = "none" /\ UNCHANGED <<segments, sections, torn>>
  <2> DEFINE vaddr == ImageBase(segments) + ioff
  <2>1. segments \in Seq(Segment)  BY DEF TypeOK
  <2>2. ImageBase(segments) \in U64 /\ ioff \in U64
    BY <2>1, BaseIsAddress, EditAssumption
  <2>3. vaddr \in 0..(2 * U64Max)  BY <2>2, U64MaxAssumption DEF U64
  <2>4. \/ \E i \in 1..Len(segments) : Written(vaddr, bytes, i)
        \/ /\ \A i \in 1..Len(segments) : ~Writes(segments, i, vaddr, bytes)
           /\ reply' = "none" /\ UNCHANGED <<segments, sections, torn>>
    BY <1>2 DEF WriteAtIoff, Written
  <2> HIDE DEF vaddr
  <2> QED  BY <2>3, <2>4
<1> QED  BY <1>1, <1>2 DEF Next

(* The images under edit are well formed to begin with.                      *)
LEMMA TypeInit == Init => TypeOK
<1> SUFFICES ASSUME Init PROVE TypeOK  OBVIOUS
<1>1. PICK image \in Images : segments = image.segments /\ sections = image.sections
  BY DEF Init
<1>2. /\ image \in [segments : Seq(Segment), sections : Seq(Section)]
      /\ WellLoaded(image.segments)
      /\ \A i \in 1..Len(image.sections) : Measured(image.sections[i])
  BY EditAssumption
<1>3. reply = "none" /\ torn = {}  BY DEF Init
<1> QED  BY <1>1, <1>2, <1>3 DEF TypeOK

(* A successful call keeps every size and address.                           *)
LEMMA WrittenType ==
    ASSUME TypeOK, NEW vaddr \in Nat, NEW bytes \in Seq(RawByte),
           NEW i \in 1..Len(segments), Written(vaddr, bytes, i)
    PROVE  TypeOK'
<1>1. /\ segments' \in Seq(Segment) /\ Len(segments') = Len(segments)
      /\ \A j \in 1..Len(segments) :
             /\ segments'[j].header = segments[j].header
             /\ Len(segments'[j].data) = Len(segments[j].data)
  BY SegmentWrite DEF Written
<1>2. WellLoaded(segments')
  BY <1>1 DEF TypeOK, WellLoaded, IsLoad
<1>3. sections \in Seq(Section) /\ Len(sections) \in Nat  BY DEF TypeOK
<1>4. \A k \in 1..Len(sections) : sections[k] \in Section /\ Measured(sections[k])
  BY <1>3 DEF TypeOK
<1>5. \A k \in 1..Len(sections) :
         /\ Updated(sections[k], vaddr, bytes) \in Section
         /\ Measured(Updated(sections[k], vaddr, bytes))
  BY <1>4, SectionWrite
<1> DEFINE new(k) == Updated(sections[k], vaddr, bytes)
<1>6. sections' = [k \in 1..Len(sections) |-> new(k)]  BY DEF Written, SectionsWith
<1>7. \A k \in 1..Len(sections) : new(k) \in Section /\ Measured(new(k))  BY <1>5
<1> HIDE DEF new
<1>8. sections' \in Seq(Section) /\ Len(sections') = Len(sections)
  BY <1>3, <1>6, <1>7
<1>9. \A k \in 1..Len(sections') : Measured(sections'[k])  BY <1>6, <1>7, <1>8
<1>10. torn' \subseteq (1..Len(sections)) \X Nat
  <2> DEFINE W == vaddr..(vaddr + Len(bytes) - 1)
  <2>1. W \subseteq Nat  OBVIOUS
  <2>2. torn \subseteq (1..Len(sections)) \X Nat  BY DEF TypeOK
  <2>3. torn' = TornBy(W)  BY DEF Written
  <2> HIDE DEF W
  <2>4. \A k \in 1..Len(sections) :
            {k} \X (SectionAddresses(k) \cap W) \subseteq (1..Len(sections)) \X Nat
    BY <2>1
  <2> QED  BY <2>2, <2>3, <2>4 DEF TornBy
<1> QED  BY <1>1, <1>2, <1>8, <1>9, <1>10 DEF TypeOK, Written

(* And a refused one keeps everything.                                       *)
LEMMA TypeStep == TypeOK /\ [Next]_vars => TypeOK'
<1> SUFFICES ASSUME TypeOK, [Next]_vars PROVE TypeOK'  OBVIOUS
<1>1. ASSUME NEW vaddr \in 0..(2 * U64Max), NEW bytes \in Payload,
             NEW i \in 1..Len(segments), Written(vaddr, bytes, i)
      PROVE  TypeOK'
  <2>1. vaddr \in Nat /\ bytes \in Seq(RawByte)  BY U64MaxAssumption, EditAssumption
  <2> QED  BY <1>1, <2>1, WrittenType
<1>2. CASE UNCHANGED <<segments, sections, torn>> /\ reply' \in {"some", "none"}
  BY <1>2 DEF TypeOK
<1>3. CASE UNCHANGED vars  BY <1>3 DEF vars, TypeOK
<1> QED  BY <1>1, <1>2, <1>3, Steps

-----------------------------------------------------------------------------
(* The two copies of a byte.                                                 *)

(* The bytes of an allocated section and their addresses.                    *)
LEMMA SectionFacts ==
    ASSUME TypeOK, NEW k \in 1..Len(sections), NEW a \in SectionAddresses(k)
    PROVE  LET p == a - sections[k].header.addr + 1
           IN  /\ sections[k].header.alloc /\ ~IsNobits(sections[k])
               /\ sections[k].header.addr \in Nat /\ a \in Nat
               /\ Len(sections[k].data) \in Nat
               /\ sections[k].header.size = Len(sections[k].data)
               /\ sections[k].header.addr + Len(sections[k].data) <= U64Max
               /\ p \in 1..Len(sections[k].data)
               /\ sections[k].header.addr + p - 1 = a
<1> DEFINE addr == sections[k].header.addr
           n    == Len(sections[k].data)
<1>1. sections[k] \in Section /\ Measured(sections[k])  BY DEF TypeOK
<1>2. sections[k].header \in Shdr /\ sections[k].data \in Seq(Byte)
  BY <1>1 DEF Section
<1>3. addr \in Nat /\ n \in Nat  BY <1>2, U64MaxAssumption DEF Shdr, U64
<1>4. /\ sections[k].header.alloc /\ ~IsNobits(sections[k])
      /\ a \in addr..(addr + n - 1)
  BY DEF SectionAddresses
<1>5. sections[k].header.size = n /\ addr + n <= U64Max  BY <1>1, <1>4 DEF Measured
<1> HIDE DEF addr, n
<1>6. a \in Nat /\ a - addr + 1 \in 1..n /\ addr + (a - addr + 1) - 1 = a
  BY <1>3, <1>4
<1> QED  BY <1>3, <1>4, <1>5, <1>6 DEF addr, n

(* As parsed, the sections have the bytes of the segments.                   *)
LEMMA ViewsInit == Init => ViewsAgree
<1> SUFFICES ASSUME Init, NEW k \in 1..Len(sections), NEW a \in SectionAddresses(k),
                    a \in UNION Extents
             PROVE  sections[k].data[a - sections[k].header.addr + 1] = ByteAt(a)
  BY DEF ViewsAgree, InStep
<1>0. TypeOK  BY TypeInit
<1>1. PICK j \in 1..Len(segments) : a \in Extent(j)  BY DEF Extents
<1>2. InSync(sections[k], segments[j])
  <2>1. PICK image \in Images : segments = image.segments /\ sections = image.sections
    BY DEF Init
  <2> QED  BY <2>1, EditAssumption
<1> DEFINE p == a - sections[k].header.addr + 1
           q == a - segments[j].header.vaddr + 1
<1>3. /\ sections[k].header.alloc /\ ~IsNobits(sections[k])
      /\ p \in 1..Len(sections[k].data)
      /\ sections[k].header.addr \in Nat /\ a \in Nat
  BY <1>0, SectionFacts
<1>4. /\ IsLoad(segments[j]) /\ segments[j].header.vaddr \in Nat
      /\ Len(segments[j].data) \in Nat
      /\ segments[j].header.vaddr <= a
      /\ a < segments[j].header.vaddr + Len(segments[j].data)
  BY <1>0, <1>1, CoveredOnce, SegmentFacts
<1>5. q \in 1..Len(segments[j].data)  BY <1>3, <1>4
<1>6. sections[k].header.addr + p = segments[j].header.vaddr + q
  <2>1. \A x, y, z \in Nat : x + (z - x + 1) = y + (z - y + 1)  OBVIOUS
  <2> QED  BY <1>3, <1>4, <2>1, Zenon
<1>7. ByteAt(a) = segments[j].data[q]  BY <1>0, <1>1, ByteOfSegment
<1> HIDE DEF p, q
<1>8. sections[k].data[p] = segments[j].data[q]  BY <1>2, <1>3, <1>4, <1>5, <1>6 DEF InSync
<1> QED  BY <1>7, <1>8 DEF p

(* A section that has all of a write's range takes the write.                *)
LEMMA HoldsAllTakes ==
    ASSUME TypeOK, NEW vaddr \in Nat, NEW bytes \in Seq(RawByte),
           NEW k \in 1..Len(sections), bytes # <<>>,
           vaddr..(vaddr + Len(bytes) - 1) \subseteq SectionAddresses(k)
    PROVE  Takes(sections[k], vaddr, bytes)
<1> DEFINE addr == sections[k].header.addr
           n    == Len(sections[k].data)
           last == vaddr + Len(bytes) - 1
<1>1. Len(bytes) \in Nat /\ Len(bytes) > 0  OBVIOUS
<1>2. vaddr \in SectionAddresses(k) /\ last \in SectionAddresses(k)  BY <1>1
<1>3. /\ sections[k].header.alloc /\ ~IsNobits(sections[k])
      /\ addr \in Nat /\ n \in Nat /\ sections[k].header.size = n
      /\ addr + n <= U64Max
  BY <1>2, SectionFacts
<1>4. /\ vaddr - addr + 1 \in 1..n /\ last - addr + 1 \in 1..n
  BY <1>2, SectionFacts
<1>5. SatAdd(addr, n) = addr + n
  <2> HIDE DEF addr, n
  <2> QED  BY <1>3, U64MaxAssumption DEF SatAdd
<1> HIDE DEF addr, n
<1>6. vaddr >= addr /\ vaddr < addr + n  BY <1>3, <1>4
<1>7. vaddr - addr >= 0 /\ (vaddr - addr) + Len(bytes) <= n
  BY <1>1, <1>3, <1>4
<1> QED  BY <1>3, <1>5, <1>6, <1>7 DEF Takes, SectionContains, InData, addr, n

(* A successful call brings the sections that hold all of its range into     *)
(* step there, disturbs nothing else, and records what it leaves behind.     *)
LEMMA WrittenViews ==
    ASSUME TypeOK, ViewsAgree, NEW vaddr \in Nat, NEW bytes \in Seq(RawByte),
           NEW i \in 1..Len(segments), Written(vaddr, bytes, i)
    PROVE  ViewsAgree'
<1> DEFINE W == vaddr..(vaddr + Len(bytes) - 1)
           new(k) == Updated(sections[k], vaddr, bytes)
<1>1. TypeOK'  BY WrittenType
<1>2. /\ Extents' = Extents
      /\ \A a \in UNION Extents :
             ByteAt(a)' = IF a \in W THEN bytes[a - vaddr + 1] ELSE ByteAt(a)
  BY <1>1, MemoryWrite DEF Written
<1>3. sections' = [k \in 1..Len(sections) |-> new(k)] /\ torn' = TornBy(W)
  BY DEF Written, SectionsWith
<1>4. sections \in Seq(Section) /\ Len(sections) \in Nat /\ Len(sections') = Len(sections)
  BY <1>3 DEF TypeOK
<1>5. \A k \in 1..Len(sections) : sections[k] \in Section /\ Measured(sections[k])
  BY <1>4 DEF TypeOK
<1>6. SUFFICES ASSUME NEW k \in 1..Len(sections), NEW a \in SectionAddresses(k)',
                      <<k, a>> \notin torn', a \in UNION Extents
               PROVE  sections'[k].data[a - sections'[k].header.addr + 1] = ByteAt(a)'
  BY <1>2, <1>4 DEF ViewsAgree, InStep
<1>7. /\ sections'[k].header = sections[k].header
      /\ Len(sections'[k].data) = Len(sections[k].data)
      /\ \A p \in 1..Len(sections[k].data) :
             LET x == sections[k].header.addr + p - 1
             IN  sections'[k].data[p] =
                     IF Takes(sections[k], vaddr, bytes) /\ x \in W
                     THEN bytes[x - vaddr + 1] ELSE sections[k].data[p]
  <2> DEFINE u == Updated(sections[k], vaddr, bytes)
  <2>1. sections[k] \in Section /\ Measured(sections[k])  BY <1>5
  <2>2. /\ u.header = sections[k].header
        /\ Len(u.data) = Len(sections[k].data)
        /\ \A p \in 1..Len(sections[k].data) :
               LET x == sections[k].header.addr + p - 1
               IN  u.data[p] =
                       IF Takes(sections[k], vaddr, bytes) /\ x \in W
                       THEN bytes[x - vaddr + 1] ELSE sections[k].data[p]
    BY <2>1, SectionWrite, Zenon
  <2>3. sections'[k] = u  BY <1>3
  <2> HIDE DEF u, W
  <2> QED  BY <2>2, <2>3
<1>8. a \in SectionAddresses(k)
  BY <1>6, <1>7 DEF SectionAddresses, IsNobits
<1> DEFINE p == a - sections[k].header.addr + 1
<1>9. p \in 1..Len(sections[k].data) /\ sections[k].header.addr + p - 1 = a
  BY <1>8, SectionFacts
<1>10. sections'[k].data[p] =
          IF Takes(sections[k], vaddr, bytes) /\ a \in W
          THEN bytes[a - vaddr + 1] ELSE sections[k].data[p]
  <2> HIDE DEF p, W
  <2> QED  BY <1>7, <1>9
<1>11. CASE a \in W
  <2>1. W \subseteq SectionAddresses(k)
    <3> SUFFICES ASSUME ~(W \subseteq SectionAddresses(k)) PROVE FALSE  OBVIOUS
    <3> HIDE DEF W
    <3>1. <<k, a>> \in {k} \X (SectionAddresses(k) \cap W)  BY <1>8, <1>11
    <3>2. <<k, a>> \in TornBy(W)  BY <3>1 DEF TornBy
    <3> QED  BY <1>3, <1>6, <3>2
  <2>2. bytes # <<>>  BY <1>11
  <2>3. Takes(sections[k], vaddr, bytes)  BY <2>1, <2>2, HoldsAllTakes
  <2> HIDE DEF p, W
  <2> QED  BY <1>2, <1>6, <1>7, <1>10, <1>11, <2>3 DEF p
<1>12. CASE a \notin W
  <2> HIDE DEF W
  <2>1. <<k, a>> \notin torn  BY <1>3, <1>6, <1>12 DEF TornBy
  <2>2. sections[k].data[p] = ByteAt(a)  BY <1>6, <1>8, <2>1 DEF ViewsAgree, InStep
  <2> HIDE DEF p
  <2> QED  BY <1>2, <1>6, <1>7, <1>10, <1>12, <2>2 DEF p
<1> QED  BY <1>11, <1>12

(* A refused call disturbs nothing.                                          *)
LEMMA ViewsStep == TypeOK /\ ViewsAgree /\ [Next]_vars => ViewsAgree'
<1> SUFFICES ASSUME TypeOK, ViewsAgree, [Next]_vars PROVE ViewsAgree'  OBVIOUS
<1>1. ASSUME NEW vaddr \in 0..(2 * U64Max), NEW bytes \in Payload,
             NEW i \in 1..Len(segments), Written(vaddr, bytes, i)
      PROVE  ViewsAgree'
  <2>1. vaddr \in Nat /\ bytes \in Seq(RawByte)  BY U64MaxAssumption, EditAssumption
  <2> QED  BY <1>1, <2>1, WrittenViews
<1>2. ASSUME UNCHANGED <<segments, sections, torn>> PROVE ViewsAgree'
  <2>1. \A j : Extent(j)' = Extent(j)  BY <1>2 DEF Extent, IsLoad
  <2>2. \A k : SectionAddresses(k)' = SectionAddresses(k)
    BY <1>2 DEF SectionAddresses, IsNobits
  <2>3. Extents' = Extents  BY <1>2, <2>1 DEF Extents
  <2>4. \A a : ByteAt(a)' = ByteAt(a)  BY <1>2, <2>1 DEF ByteAt
  <2> QED  BY <1>2, <2>2, <2>3, <2>4 DEF ViewsAgree, InStep
<1>3. CASE UNCHANGED vars  BY <1>2, <1>3 DEF vars
<1> QED  BY <1>1, <1>2, <1>3, Steps

-----------------------------------------------------------------------------
(* The theorems.                                                             *)

(* The loadable segments stay apart and as long as they were, and so do the  *)
(* sections.                                                                 *)
THEOREM TypeCorrect == Spec => []TypeOK
<1> QED  BY TypeInit, TypeStep, PTL DEF Spec

(* The two copies of a byte agree, after any sequence of writes, but for the *)
(* bytes that a write running over a section's edge left behind              *)
(* (edit.rs:25-38).                                                          *)
THEOREM CopiesAgree == Spec => []ViewsAgree
<1> QED  BY TypeInit, TypeStep, ViewsInit, ViewsStep, PTL DEF Spec

(* A read sees what the writes left in loadable memory (inspect.rs:94-110).  *)
THEOREM ReadsAreOfMemory == Spec => []ReadsSeeMemory
<1>1. TypeOK => ReadsSeeMemory
  <2> SUFFICES ASSUME TypeOK, NEW ioff \in Offsets, NEW i \in 1..Len(segments),
                      ImageBase(segments) + ioff <= U64Max,
                      IsFirstSegment(segments, i, ImageBase(segments) + ioff),
                      IsLoad(segments[i]), NEW a \in Extent(i),
                      a >= ImageBase(segments) + ioff,
                      NEW r \in ReadIoff(segments, ioff, a - (ImageBase(segments) + ioff) + 1)
               PROVE  r[a - (ImageBase(segments) + ioff) + 1] = ByteAt(a)
    BY DEF ReadsSeeMemory
  <2> DEFINE vaddr == ImageBase(segments) + ioff
             len   == a - vaddr + 1
             start == vaddr - segments[i].header.vaddr
  <2>1. vaddr \in Nat
    <3>1. ImageBase(segments) \in U64 /\ ioff \in U64
      BY BaseIsAddress, EditAssumption DEF TypeOK
    <3> QED  BY <3>1, U64MaxAssumption DEF U64
  <2>2. PICK j \in 1..Len(segments) :
           /\ IsFirstSegment(segments, j, vaddr)
           /\ r = BytesFrom(segments[j], vaddr - segments[j].header.vaddr, len)
    BY DEF ReadIoff
  <2>3. i \in Nat /\ j \in Nat /\ j = i
    <3>1. i \in Nat /\ j \in Nat  OBVIOUS
    <3>2. ~(j < i) /\ ~(i < j)  BY <2>2, <3>1 DEF IsFirstSegment
    <3> QED  BY <3>1, <3>2
  <2>4. /\ a \in Nat /\ segments[i].header.vaddr \in Nat
        /\ a < segments[i].header.vaddr + Len(segments[i].data)
        /\ Len(segments[i].data) \in Nat
    BY CoveredOnce, SegmentFacts
  <2>5. segments[i].header.vaddr <= vaddr
    BY <2>2, <2>3 DEF IsFirstSegment, SegmentContains
  <2>6. len \in Nat /\ len \in 1..len /\ start + len <= Len(segments[i].data)
        /\ start + len = a - segments[i].header.vaddr + 1
    <3>1. a >= vaddr  OBVIOUS
    <3> HIDE DEF vaddr
    <3> QED  BY <2>1, <2>4, <2>5, <3>1
  <2>7. r = BytesFrom(segments[i], start, len)  BY <2>2, <2>3
  <2> HIDE DEF vaddr, len, start
  <2>8. r[len] = segments[i].data[start + len]  BY <2>6, <2>7 DEF BytesFrom
  <2>9. ByteAt(a) = segments[i].data[a - segments[i].header.vaddr + 1]  BY ByteOfSegment
  <2>10. r[len] = ByteAt(a)  BY <2>6, <2>8, <2>9
  <2> QED  BY <2>10 DEF len, vaddr
<1> QED  BY <1>1, TypeCorrect, PTL

(* A call that writes is a write of the memory.                              *)
LEMMA WriteRefines ==
    ASSUME TypeOK, TypeOK', NEW vaddr \in Nat, NEW bytes \in Seq(RawByte),
           NEW i \in 1..Len(segments), Written(vaddr, bytes, i)
    PROVE  Memory!Write(vaddr, bytes)
<1>1. /\ Extents' = Extents
      /\ \A a \in UNION Extents :
             ByteAt(a)' = IF a \in vaddr..(vaddr + Len(bytes) - 1)
                          THEN bytes[a - vaddr + 1] ELSE ByteAt(a)
  BY MemoryWrite DEF Written
<1>2. vaddr..(vaddr + Len(bytes) - 1) \subseteq Extent(i)  BY SegmentWrite DEF Written
<1>3. Extent(i) \in Extents  BY DEF Extents
<1>4. [a \in UNION Extents |-> ByteAt(a)]' =
         [x \in UNION Extents |->
             IF x \in vaddr..(vaddr + Len(bytes) - 1) THEN bytes[x - vaddr + 1]
             ELSE ByteAt(x)]
  BY <1>1
<1>5. reply' = "some"  BY DEF Written
<1> QED  BY <1>1, <1>2, <1>3, <1>4, <1>5 DEF Memory!Write, Memory!Range

(* A call that is refused is one that no extent has room for, or an empty    *)
(* one: if an extent had all of the range, its segment would take the write. *)
LEMMA RefusalRefines ==
    ASSUME TypeOK, NEW vaddr \in Nat, NEW bytes \in Seq(RawByte),
           \A i \in 1..Len(segments) : ~Writes(segments, i, vaddr, bytes),
           reply' = "none", UNCHANGED <<segments, sections, torn>>
    PROVE  Memory!Refuse(vaddr, bytes)
<1> DEFINE W == vaddr..(vaddr + Len(bytes) - 1)
<1>1. ASSUME bytes # <<>>, NEW i \in 1..Len(segments), W \subseteq Extent(i)
      PROVE  FALSE
  <2>1. Len(bytes) \in Nat /\ Len(bytes) > 0  BY <1>1
  <2>2. vaddr \in Extent(i) /\ vaddr + Len(bytes) - 1 \in Extent(i)  BY <1>1, <2>1
  <2>3. /\ IsLoad(segments[i]) /\ vaddr < U64Max
        /\ segments[i].header.vaddr <= vaddr
        /\ CoversLoaded(segments[i], vaddr)
        /\ \A j \in 1..Len(segments) : CoversLoaded(segments[j], vaddr) => j = i
    BY <2>2, CoveredOnce
  <2>4. vaddr + Len(bytes) - 1 < segments[i].header.vaddr + Len(segments[i].data)
    BY <2>2, CoveredOnce
  <2>5. segments[i].header.vaddr \in Nat /\ Len(segments[i].data) \in Nat
    BY SegmentFacts
  <2>6. InData(segments[i].data, vaddr - segments[i].header.vaddr, Len(bytes))
    BY <2>1, <2>3, <2>4, <2>5 DEF InData
  <2>7. IsFirstLoad(segments, i, vaddr)
    <3>1. Len(segments) \in Nat  BY DEF TypeOK
    <3>2. \A j \in 1..(i - 1) : j \in 1..Len(segments) /\ j # i  BY <3>1
    <3> QED  BY <2>3, <3>2 DEF IsFirstLoad
  <2>8. vaddr <= U64Max  BY <2>3, U64MaxAssumption
  <2> QED  BY <2>6, <2>7, <2>8 DEF Writes
<1>2. bytes = <<>> \/ \A e \in Extents : ~(W \subseteq e)
  <2> HIDE DEF W
  <2> QED  BY <1>1 DEF Extents
<1>3. Extents' = Extents /\ \A a : ByteAt(a)' = ByteAt(a)
  <2>1. \A j : Extent(j)' = Extent(j)  BY DEF Extent, IsLoad
  <2> QED  BY <2>1 DEF Extents, ByteAt
<1>4. [a \in UNION Extents |-> ByteAt(a)]' = [a \in UNION Extents |-> ByteAt(a)]
  BY <1>3
<1> QED  BY <1>2, <1>3, <1>4 DEF Memory!Refuse, Memory!Range

(* Editing an image implements writing to memory: every call replaces        *)
(* exactly its range of one extent, or nothing (edit.rs:15-40).              *)
THEOREM EditIsMemoryWrite == Spec => MemorySpec
<1>1. Init => Memory!Init
  <2>1. DOMAIN [a \in UNION Extents |-> ByteAt(a)] = UNION Extents  OBVIOUS
  <2> QED  BY <2>1 DEF Init, Memory!Init
<1>2. TypeOK /\ TypeOK' /\ [Next]_vars => [Memory!Next]_(Memory!vars)
  <2> SUFFICES ASSUME TypeOK, TypeOK', [Next]_vars
               PROVE  [Memory!Next]_(Memory!vars)
    OBVIOUS
  <2>0. /\ \A vaddr \in 0..(2 * U64Max) : vaddr \in Nat
        /\ \A bytes \in Payload : bytes \in Seq(RawByte)
    BY U64MaxAssumption, EditAssumption
  <2>1. ASSUME NEW vaddr \in 0..(2 * U64Max), NEW bytes \in Payload,
               NEW i \in 1..Len(segments), Written(vaddr, bytes, i)
        PROVE  Memory!Next
    BY <2>0, <2>1, WriteRefines DEF Memory!Next
  <2>2. ASSUME NEW vaddr \in 0..(2 * U64Max), NEW bytes \in Payload,
               \A i \in 1..Len(segments) : ~Writes(segments, i, vaddr, bytes),
               reply' = "none", UNCHANGED <<segments, sections, torn>>
        PROVE  Memory!Next
    BY <2>0, <2>2, RefusalRefines DEF Memory!Next
  <2>3. CASE UNCHANGED vars
    <3>1. \A j : Extent(j)' = Extent(j)  BY <2>3 DEF vars, Extent, IsLoad
    <3>2. Extents' = Extents /\ \A a : ByteAt(a)' = ByteAt(a)
      BY <2>3, <3>1 DEF vars, Extents, ByteAt
    <3>3. [a \in UNION Extents |-> ByteAt(a)]' = [a \in UNION Extents |-> ByteAt(a)]
      BY <3>2
    <3> QED  BY <2>3, <3>2, <3>3 DEF vars, Memory!vars
  <2> QED  BY <2>1, <2>2, <2>3, Steps
<1> QED  BY <1>1, <1>2, TypeCorrect, PTL DEF Spec, MemorySpec, Memory!Spec

=============================================================================
