------------------------- MODULE MappedImageProofs --------------------------
(* What to_mapped_image_at puts in memory, for every image, base and value   *)
(* of the constants: the bytes of the loadable segments at their addresses,  *)
(* under the headers, and nothing else but what relative relocations name,   *)
(* which they move by the distance between the bases. And what the memory    *)
(* is read back as, written to and mapped again, through any number of       *)
(* rounds.                                                                   *)
(*                                                                           *)
(* The memory after n segments is a function of the image: each byte is that *)
(* of the last segment placed there so far. That is the invariant of the     *)
(* loop; the headers then go over it, and each relocation touches only the   *)
(* word it names. An image that was read is what its memory held, byte by    *)
(* byte, but for what the user wrote; that is the invariant of a session.    *)
EXTENDS MappedSession, ElfFormatProofs

-----------------------------------------------------------------------------
(* The invariant.                                                            *)

(* The segments before n that put a byte at position p.                      *)
PlacedBefore(im, n, p) == {i \in PlacedAt(im, p) : i < n}

(* The byte of segment i at position p, and of the last of some segments.    *)
ByteOf(im, i, p) ==
    im.segments[i].data[p - (im.segments[i].header.vaddr - ImageBase(im.segments))]
LastByte(im, placed, p) ==
    IF placed = {} THEN Zero ELSE ByteOf(im, Greatest(placed), p)

(* No relocation that is applied names position p.                           *)
Unnamed(p) ==
    base = Preferred \/ \A w \in RelativeEntries(image) : p \notin WordAt(image, w)

(* The parts of the call that have memory to work on.                        *)
Filling == pc \in {"segments", "tables", "relocate", "done"}
Filled  == pc \in {"tables", "relocate", "done"}

(* What the steps need of an image.                                          *)
Placeable(im) ==
    /\ Len(im.segments) \in Nat /\ Len(im.sections) \in Nat
    /\ im.header \in ElfHeader
    /\ \A i \in 1..Len(im.segments) :
           im.segments[i].header \in Phdr /\ Len(im.segments[i].data) \in Nat
    /\ \A i \in 1..Len(im.sections) : Len(im.sections[i].data) \in Nat

TypeInv ==
    /\ Placeable(image)
    /\ base \in Nat
    /\ index \in Nat \ {0} /\ table \in Nat \ {0}
    /\ pc \in {"allocate", "segments", "tables"} => table = 1
    /\ pc \in {"allocate", "segments", "tables", "relocate", "done", "error", "panic"}
    /\ pc = "allocate" => index = 1
    /\ base = Preferred => pc \notin {"tables", "relocate"}
    /\ Filling => /\ Len(mem) = ImageSpan(image.segments)
                  /\ ImageSpan(image.segments) <= MaxImage

SegmentsInv ==
    pc = "segments" =>
        \A p \in 1..ImageSpan(image.segments) :
            mem[p] = LastByte(image, PlacedBefore(image, index, p), p)

(* Every byte that no applied relocation names is what the segments and      *)
(* headers make it.                                                          *)
RestIsLoaded ==
    Filled =>
        \A p \in 1..ImageSpan(image.segments) : Unnamed(p) => mem[p] = Loaded(image)[p]

IInv == TypeInv /\ SegmentsInv /\ RestIsLoaded

-----------------------------------------------------------------------------
(* The operators.                                                            *)

(* What the proofs use of an image.                                          *)
LEMMA ImageFacts ==
    ASSUME NEW im, Placeable(im)
    PROVE  /\ im.header \in ElfHeader
           /\ Len(im.segments) \in Nat /\ Len(im.sections) \in Nat
           /\ ImageBase(im.segments) \in Nat /\ ImageSpan(im.segments) \in Nat
           /\ \A l \in LoadRecords(im.segments) :
                  l.vaddr \in Nat /\ ImageBase(im.segments) <= l.vaddr
           /\ \A i \in 1..Len(im.segments) :
                  /\ im.segments[i].header \in Phdr
                  /\ im.segments[i].header.vaddr \in Nat
                  /\ im.segments[i].header.memsz \in Nat
                  /\ im.segments[i].header.filesz \in Nat
                  /\ Len(im.segments[i].data) \in Nat
<1>1. \A i \in 1..Len(im.segments) : im.segments[i].header \in Phdr
  BY DEF Placeable
<1>2. /\ ImageBase(im.segments) \in Nat /\ ImageSpan(im.segments) \in Nat
      /\ \A l \in LoadRecords(im.segments) :
             l.vaddr \in Nat /\ ImageBase(im.segments) <= l.vaddr
  BY <1>1, BaseOfHeaders, SpanOfHeaders, U64MaxAssumption DEF U64
<1>3. \A h \in Phdr : h.vaddr \in Nat /\ h.memsz \in Nat /\ h.filesz \in Nat
  BY U64MaxAssumption DEF Phdr, U64
<1> QED
  BY <1>1, <1>2, <1>3 DEF Placeable

(* The images a call may be given are such.                                  *)
LEMMA MappedPlaceable == \A im \in Mapped : Placeable(im)
<1> SUFFICES ASSUME NEW im \in Mapped PROVE Placeable(im)
  OBVIOUS
<1>1. im \in ElfImage
  BY MappedAssumption
<1>2. im.segments \in Seq(Segment) /\ im.sections \in Seq(Section) /\ im.header \in ElfHeader
  BY <1>1 DEF ElfImage
<1>3. \A i \in 1..Len(im.segments) : im.segments[i] \in Segment
  BY <1>2
<1>4. \A s \in Segment : s.header \in Phdr /\ Len(s.data) \in Nat
  BY DEF Segment
<1>5. Len(im.segments) \in Nat /\ Len(im.sections) \in Nat
  BY <1>2
<1>6. \A i \in 1..Len(im.sections) : im.sections[i] \in Section
  BY <1>2
<1>7. \A x \in Section : Len(x.data) \in Nat
  BY DEF Section
<1> QED
  BY <1>2, <1>3, <1>4, <1>5, <1>6, <1>7 DEF Placeable

(* A sequence made over 1..n has length n and the elements given.            *)
LEMMA MadeSequence ==
    ASSUME NEW n \in Nat, NEW f, f = [p \in 1..n |-> f[p]]
    PROVE  Len(f) = n
<1>1. f \in [1..n -> {f[p] : p \in 1..n}]
  OBVIOUS
<1> QED
  BY <1>1

(* Copying over memory keeps its length and what lies beside the copy.       *)
LEMMA OverlaidFacts ==
    ASSUME NEW m, NEW n \in Nat, Len(m) = n, NEW start, NEW bytes
    PROVE  /\ Len(Overlaid(m, start, bytes)) = n
           /\ \A p \in 1..n :
                  Overlaid(m, start, bytes)[p] =
                      IF p \in start + 1..start + Len(bytes) THEN bytes[p - start] ELSE m[p]
<1> DEFINE new == Overlaid(m, start, bytes)
<1>1. \A p \in 1..n : new[p] =
          IF p \in start + 1..start + Len(bytes) THEN bytes[p - start] ELSE m[p]
  BY DEF Overlaid
<1>2. new = [p \in 1..n |-> new[p]]
  BY DEF Overlaid
<1> HIDE DEF new
<1>3. Len(new) = n
  BY <1>2, MadeSequence
<1> QED
  BY <1>1, <1>3 DEF new

(* The headers are the ELF header and one record for each segment.           *)
LEMMA HeaderParts ==
    ASSUME NEW im, Placeable(im)
    PROVE  LET records == [i \in 1..Len(im.segments) |-> im.segments[i].header]
               first   == Encoded(MappedHeader(im), EhSize)
               rest    == EncodedTable(records, PhEntSize)
           IN  /\ HeaderBytes(im) = first \o rest
               /\ Len(records) = Len(im.segments)
               /\ first \in Seq(Byte) /\ Len(first) = EhSize
               /\ rest \in Seq(Byte) /\ Len(rest) = PhEntSize * Len(im.segments)
               /\ PhEntSize * Len(im.segments) \in Nat
<1> DEFINE n == Len(im.segments)
           records == [i \in 1..n |-> im.segments[i].header]
           first == Encoded(MappedHeader(im), EhSize)
           rest  == EncodedTable(records, PhEntSize)
<1>1. n \in Nat /\ \A i \in 1..n : im.segments[i].header \in Phdr
  BY ImageFacts
<1>2. records \in [1..n -> Phdr]
  BY <1>1
<1>3. records \in Seq(Phdr) /\ Len(records) = n
  <2> HIDE DEF records
  <2> QED
    BY <1>1, <1>2
<1>4. MappedHeader(im) \in ElfHeader
  <2> DEFINE m == IF n <= U16Max THEN n ELSE 0
  <2>1. im.header \in ElfHeader
    BY ImageFacts
  <2>2. m \in 0..U16Max /\ EhSize \in Nat
    BY <1>1, FormatAssumption
  <2>3. MappedHeader(im) = [im.header EXCEPT !.phoff = EhSize, !.phnum = m]
    BY DEF MappedHeader
  <2> HIDE DEF m
  <2> QED
    BY <2>1, <2>2, <2>3 DEF ElfHeader
<1>5. first \in Seq(Byte) /\ Len(first) = EhSize
  BY <1>4, EncodedBytes, FormatAssumption
<1>6. rest \in Seq(Byte) /\ Len(rest) = PhEntSize * n /\ PhEntSize * n \in Nat
  <2> HIDE DEF records, n
  <2> QED
    BY <1>3, EncodedTableBytes, FormatAssumption
<1>7. HeaderBytes(im) = first \o rest
  BY DEF HeaderBytes
<1> QED
  BY <1>3, <1>5, <1>6, <1>7

(* The headers are as long as HeadersEnd says.                               *)
LEMMA HeaderLength ==
    ASSUME NEW im, Placeable(im)
    PROVE  Len(HeaderBytes(im)) = HeadersEnd(im) /\ HeadersEnd(im) \in Nat
<1> DEFINE first == Encoded(MappedHeader(im), EhSize)
           rest  == EncodedTable([i \in 1..Len(im.segments) |-> im.segments[i].header],
                                 PhEntSize)
           t     == PhEntSize * Len(im.segments)
<1>1. /\ HeaderBytes(im) = first \o rest
      /\ first \in Seq(Byte) /\ Len(first) = EhSize /\ EhSize \in Nat
      /\ rest \in Seq(Byte) /\ Len(rest) = t /\ t \in Nat
      /\ HeadersEnd(im) = EhSize + t
  BY HeaderParts, FormatAssumption DEF HeadersEnd
<1> HIDE DEF first, rest, t
<1>2. first \in Seq(Byte) /\ rest \in Seq(Byte)
  BY <1>1
<1>3. Len(HeaderBytes(im)) = Len(first) + Len(rest)
  <2>1. HeaderBytes(im) = first \o rest
    BY <1>1
  <2> QED
    BY <1>2, <2>1
<1> QED
  BY <1>1, <1>3

(* A set of numbers with an element that no other exceeds.                   *)
LEMMA GreatestIs ==
    ASSUME NEW S \in SUBSET Nat, NEW x \in S, \A y \in S : y <= x
    PROVE  Greatest(S) = x
<1>1. Greatest(S) \in S /\ \A y \in S : y <= Greatest(S)
  BY DEF Greatest
<1>2. Greatest(S) <= x /\ x <= Greatest(S) /\ Greatest(S) \in Nat /\ x \in Nat
  BY <1>1
<1> HIDE DEF Greatest
<1> QED
  BY <1>2

(* What segment n adds to the bytes placed before it.                        *)
LEMMA PlacedNext ==
    ASSUME NEW im, NEW n \in Nat \ {0}, NEW p
    PROVE  /\ n \in PlacedAt(im, p) =>
                  LastByte(im, PlacedBefore(im, n + 1, p), p) = ByteOf(im, n, p)
           /\ n \notin PlacedAt(im, p) =>
                  PlacedBefore(im, n + 1, p) = PlacedBefore(im, n, p)
<1>1. PlacedAt(im, p) \subseteq Nat
  BY DEF PlacedAt
<1>2. ASSUME n \in PlacedAt(im, p)
      PROVE  LastByte(im, PlacedBefore(im, n + 1, p), p) = ByteOf(im, n, p)
  <2> DEFINE S == PlacedBefore(im, n + 1, p)
  <2>1. S \in SUBSET Nat /\ n \in S /\ \A y \in S : y <= n
    BY <1>1, <1>2 DEF PlacedBefore
  <2> HIDE DEF S
  <2>2. Greatest(S) = n
    BY <2>1, GreatestIs
  <2> QED
    BY <2>1, <2>2 DEF LastByte, S
<1>3. ASSUME n \notin PlacedAt(im, p)
      PROVE  PlacedBefore(im, n + 1, p) = PlacedBefore(im, n, p)
  BY <1>1, <1>3 DEF PlacedBefore
<1> QED
  BY <1>2, <1>3

(* What a call has copied before its first segment is nothing.               *)
LEMMA NothingPlaced ==
    ASSUME NEW im, NEW p
    PROVE  PlacedBefore(im, 1, p) = {}
BY DEF PlacedBefore, PlacedAt

(* And when the table is done, all that is to be placed.                     *)
LEMMA AllPlaced ==
    ASSUME NEW im, Placeable(im), NEW n \in Nat, Len(im.segments) < n, NEW p
    PROVE  PlacedBefore(im, n, p) = PlacedAt(im, p)
<1>1. Len(im.segments) \in Nat
  BY ImageFacts
<1> QED
  BY <1>1 DEF PlacedBefore, PlacedAt

-----------------------------------------------------------------------------
(* The actions.                                                              *)

(* A call has no memory yet.                                                 *)
LEMMA InitInv == Init => IInv
<1> SUFFICES ASSUME Init PROVE IInv
  OBVIOUS
<1>1. Placeable(image)
  BY MappedPlaceable DEF Init
<1>2. base \in Nat
  BY <1>1, ImageFacts, MappedAssumption, U64MaxAssumption DEF Init, Preferred, U64
<1> QED
  BY <1>1, <1>2 DEF Init, IInv, TypeInv, SegmentsInv, RestIsLoaded, Filling, Filled

(* The memory starts as zeros.                                               *)
LEMMA AllocateInv == IInv /\ Allocate => IInv'
<1> SUFFICES ASSUME IInv, Allocate PROVE IInv'
  OBVIOUS
<1> DEFINE n == ImageSpan(image.segments)
<1>1. n \in Nat
  BY ImageFacts DEF IInv, TypeInv
<1>2. /\ pc = "allocate" /\ index = 1
      /\ UNCHANGED <<image, base, index, table>>
      /\ pc' = "error" \/ (pc' = "segments" /\ mem' = Zeros(n) /\ ~(n > MaxImage))
  BY DEF Allocate, IInv, TypeInv
<1>3. ASSUME mem' = Zeros(n)
      PROVE  Len(mem') = n /\ \A p \in 1..n : mem'[p] = Zero
  <2>1. \A p \in 1..n : mem'[p] = Zero
    BY <1>3 DEF Zeros
  <2>2. mem' = [p \in 1..n |-> mem'[p]]
    BY <1>3 DEF Zeros
  <2> HIDE DEF n
  <2> QED
    BY <1>1, <2>1, <2>2, MadeSequence
<1>4. TypeInv'
  <2>1. MaxImage \in Nat
    BY FormatAssumption
  <2> QED
    BY <1>1, <1>2, <1>3, <2>1 DEF IInv, TypeInv, Filling, Preferred
<1>5. ASSUME NEW p \in 1..n, pc' = "segments"
      PROVE  mem'[p] = LastByte(image, PlacedBefore(image, index, p), p)
  BY <1>2, <1>3, <1>5, NothingPlaced DEF LastByte
<1>6. SegmentsInv' /\ RestIsLoaded'
  <2> HIDE DEF n
  <2>1. ASSUME pc' = "segments", NEW p \in 1..ImageSpan(image'.segments)
        PROVE  mem'[p] = LastByte(image', PlacedBefore(image', index', p), p)
    BY <1>2, <1>5, <2>1 DEF n
  <2> QED
    BY <1>2, <2>1 DEF SegmentsInv, RestIsLoaded, Filled
<1> QED
  BY <1>4, <1>6 DEF IInv

(* A step of the loop over the segments, to the next one.                    *)
LEMMA SegmentStepInv ==
    ASSUME IInv, pc = "segments", pc' = pc, index' = index + 1, UNCHANGED <<image, base, table>>,
           Len(mem') = ImageSpan(image.segments),
           \A p \in 1..ImageSpan(image.segments) :
               mem'[p] = LastByte(image, PlacedBefore(image, index + 1, p), p)
    PROVE  IInv'
<1>1. TypeInv'
  BY DEF IInv, TypeInv, Filling, Preferred
<1>2. SegmentsInv' /\ RestIsLoaded'
  BY DEF SegmentsInv, RestIsLoaded, Filled
<1> QED
  BY <1>1, <1>2 DEF IInv

(* A segment passed over puts no byte anywhere.                              *)
LEMMA SkipSegmentInv == IInv /\ SkipSegment => IInv'
<1> SUFFICES ASSUME IInv, SkipSegment PROVE IInv'
  OBVIOUS
<1>1. /\ pc = "segments" /\ pc' = pc /\ index' = index + 1
      /\ UNCHANGED <<image, base, table>> /\ mem' = mem
      /\ index \in Nat \ {0} /\ Len(mem) = ImageSpan(image.segments)
  BY DEF SkipSegment, IInv, TypeInv, Filling
<1>2. ASSUME NEW p PROVE index \notin PlacedAt(image, p)
  <2> SUFFICES ASSUME index \in PlacedAt(image, p) PROVE FALSE
    OBVIOUS
  <2> DEFINE segment == image.segments[index]
             start   == Destination(segment)
  <2>1. index \in 1..Len(image.segments) /\ IsLoad(segment) /\ start >= 0
    BY DEF PlacedAt, Destination, Preferred
  <2>2. start \in Int
    <3>1. segment.header.vaddr \in Nat /\ ImageBase(image.segments) \in Nat
      BY <2>1, ImageFacts DEF IInv, TypeInv
    <3> QED
      BY <3>1 DEF Destination, Preferred
  <2>3. ~IsLoad(segment) \/ start < 0
    BY DEF SkipSegment
  <2> HIDE DEF start
  <2> QED
    BY <2>1, <2>2, <2>3
<1>3. ASSUME NEW p \in 1..ImageSpan(image.segments)
      PROVE  mem'[p] = LastByte(image, PlacedBefore(image, index + 1, p), p)
  <2>1. PlacedBefore(image, index + 1, p) = PlacedBefore(image, index, p)
    BY <1>1, <1>2, PlacedNext
  <2> QED
    BY <1>1, <2>1 DEF IInv, SegmentsInv
<1> QED
  BY <1>1, <1>3, SegmentStepInv

(* A segment that is placed has its bytes at its address, over those placed  *)
(* before.                                                                   *)
LEMMA PlaceSegmentInv == IInv /\ PlaceSegment => IInv'
<1> SUFFICES ASSUME IInv, PlaceSegment PROVE IInv'
  OBVIOUS
<1> DEFINE n       == ImageSpan(image.segments)
           segment == image.segments[index]
           start   == Destination(segment)
<1>1. /\ pc = "segments" /\ index \in 1..Len(image.segments)
      /\ UNCHANGED <<image, base, table>>
      /\ index \in Nat \ {0} /\ Len(mem) = n /\ n \in Nat
      /\ IsLoad(segment) /\ start >= 0
  <2>1. Len(image.segments) \in Nat /\ n \in Nat
    BY ImageFacts DEF IInv, TypeInv
  <2> QED
    BY <2>1 DEF PlaceSegment, IInv, TypeInv, Filling
<1>2. start \in Int /\ Len(segment.data) \in Nat
      /\ start = segment.header.vaddr - ImageBase(image.segments)
  <2>1. /\ segment.header.vaddr \in Nat /\ ImageBase(image.segments) \in Nat
        /\ Len(segment.data) \in Nat
    BY <1>1, ImageFacts DEF IInv, TypeInv
  <2> HIDE DEF segment
  <2>2. start = segment.header.vaddr - ImageBase(image.segments)
    BY DEF Destination, Preferred
  <2> HIDE DEF start
  <2> QED
    BY <2>1, <2>2
<1>3. CASE pc' = "panic"
  <2>1. UNCHANGED index
    BY <1>1, <1>3 DEF PlaceSegment
  <2> QED
    BY <1>1, <1>3, <2>1
    DEF IInv, TypeInv, SegmentsInv, RestIsLoaded, Filling, Filled, Preferred
<1>4. CASE pc' # "panic"
  <2>1. pc' = pc /\ index' = index + 1 /\ mem' = Overlaid(mem, start, segment.data)
    BY <1>4 DEF PlaceSegment, PlacedBytes
  <2>2. /\ Len(mem') = n
        /\ \A p \in 1..n : mem'[p] = IF p \in start + 1..start + Len(segment.data)
                                     THEN segment.data[p - start] ELSE mem[p]
    <3> HIDE DEF start, segment, n
    <3> QED
      BY <1>1, <2>1, OverlaidFacts
  <2>3. ASSUME NEW p \in 1..n
        PROVE  mem'[p] = LastByte(image, PlacedBefore(image, index + 1, p), p)
    <3>1. index \in PlacedAt(image, p)
              <=> p \in start + 1..start + Len(segment.data)
      BY <1>1, <1>2 DEF PlacedAt
    <3>2. CASE index \in PlacedAt(image, p)
      <4>1. mem'[p] = segment.data[p - start]
        BY <2>2, <3>1, <3>2
      <4>2. segment.data[p - start] = ByteOf(image, index, p)
        BY <1>2 DEF ByteOf
      <4> QED
        BY <1>1, <3>2, <4>1, <4>2, PlacedNext
    <3>3. CASE index \notin PlacedAt(image, p)
      <4>1. mem'[p] = mem[p]
        BY <2>2, <3>1, <3>3
      <4>2. mem[p] = LastByte(image, PlacedBefore(image, index, p), p)
        BY <1>1 DEF IInv, SegmentsInv
      <4> QED
        BY <1>1, <3>3, <4>1, <4>2, PlacedNext
    <3> QED
      BY <3>2, <3>3
  <2> QED
    BY <1>1, <2>1, <2>2, <2>3, SegmentStepInv
<1> QED
  BY <1>3, <1>4

(* The headers go over what lies at the start: the memory is what Loaded     *)
(* says.                                                                     *)
LEMMA HeadersLoad ==
    ASSUME IInv, WriteHeaders
    PROVE  /\ Len(mem') = ImageSpan(image.segments)
           /\ \A p \in 1..ImageSpan(image.segments) : mem'[p] = Loaded(image)[p]
<1> DEFINE n     == ImageSpan(image.segments)
           bytes == HeaderBytes(image)
<1>1. /\ pc = "segments" /\ index > Len(image.segments)
      /\ mem' = Overlaid(mem, 0, bytes)
      /\ index \in Nat \ {0} /\ Len(mem) = n /\ Placeable(image)
  BY DEF WriteHeaders, IInv, TypeInv, Filling
<1>2. n \in Nat /\ Len(image.segments) \in Nat /\ Len(bytes) \in Nat
  BY <1>1, ImageFacts, HeaderLength
<1>3. /\ Len(mem') = n
      /\ \A p \in 1..n : mem'[p] = IF p \in 0 + 1..0 + Len(bytes)
                                   THEN bytes[p - 0] ELSE mem[p]
  <2> HIDE DEF bytes, n
  <2> DEFINE at == 0
  <2>1. mem' = Overlaid(mem, at, bytes)
    BY <1>1
  <2> HIDE DEF at
  <2>2. /\ Len(mem') = n
        /\ \A p \in 1..n : mem'[p] = IF p \in at + 1..at + Len(bytes)
                                     THEN bytes[p - at] ELSE mem[p]
    BY <1>1, <1>2, <2>1, OverlaidFacts
  <2> QED
    BY <2>2 DEF at
<1>4. ASSUME NEW p \in 1..n
      PROVE  mem'[p] = Loaded(image)[p]
  <2>1. PlacedBefore(image, index, p) = PlacedAt(image, p)
    BY <1>1, <1>2, AllPlaced
  <2>2. mem[p] = LastByte(image, PlacedAt(image, p), p)
    BY <1>1, <2>1 DEF IInv, SegmentsInv
  <2>3. mem'[p] = IF p <= Len(bytes) THEN bytes[p] ELSE mem[p]
    BY <1>2, <1>3
  <2>4. Loaded(image)[p] = IF p <= Len(bytes) THEN bytes[p]
                           ELSE LastByte(image, PlacedAt(image, p), p)
    BY DEF Loaded, LastByte, ByteOf
  <2> QED
    BY <2>2, <2>3, <2>4
<1> QED
  BY <1>3, <1>4

(* Which is the invariant.                                                   *)
LEMMA WriteHeadersInv == IInv /\ WriteHeaders => IInv'
<1> SUFFICES ASSUME IInv, WriteHeaders PROVE IInv'
  OBVIOUS
<1>1. /\ pc = "segments"
      /\ UNCHANGED <<image, base, index, table>>
      /\ pc' \in {"done", "tables"} /\ (base = Preferred => pc' = "done")
      /\ index \in Nat \ {0} /\ Placeable(image)
  BY DEF WriteHeaders, IInv, TypeInv, Filling
<1>2. /\ Len(mem') = ImageSpan(image.segments)
      /\ \A p \in 1..ImageSpan(image.segments) : mem'[p] = Loaded(image)[p]
  BY HeadersLoad
<1>3. TypeInv'
  BY <1>1, <1>2 DEF IInv, TypeInv, Filling, Preferred
<1>4. SegmentsInv' /\ RestIsLoaded'
  BY <1>1, <1>2 DEF SegmentsInv, RestIsLoaded, Filled
<1> QED
  BY <1>3, <1>4 DEF IInv

(* Every later step but the application of a relocation leaves the memory as *)
(* it is.                                                                    *)
LEMMA KeepInv ==
    ASSUME IInv, UNCHANGED <<image, base, mem>>, index' \in Nat \ {0}, table' \in Nat \ {0},
           \/ Filled /\ pc' \in {"relocate", "done"} /\ base # Preferred
           \/ pc' \in {"error", "panic"}
    PROVE  IInv'
<1>1. TypeInv'
  BY DEF IInv, TypeInv, Filling, Filled, Preferred
<1>2. SegmentsInv'
  BY DEF SegmentsInv
<1>3. ASSUME NEW p PROVE Unnamed(p)' <=> Unnamed(p)
  BY DEF Unnamed, WordAt, Preferred
<1>4. RestIsLoaded'
  BY <1>3 DEF IInv, RestIsLoaded, Filled
<1> QED
  BY <1>1, <1>2, <1>4 DEF IInv

(* The steps of apply_relative_relocations that change no byte.              *)
LEMMA KeepingStepsInv ==
    IInv /\ (ParseTables \/ SkipEntry \/ OverflowingEntry \/ NextTable \/ Finish) => IInv'
<1> SUFFICES ASSUME IInv,
                    ParseTables \/ SkipEntry \/ OverflowingEntry \/ NextTable \/ Finish
             PROVE  IInv'
  OBVIOUS
<1>1. /\ pc \in {"tables", "relocate"} /\ UNCHANGED <<image, base, mem>>
      /\ pc' \in {"relocate", "done", "error", "panic"}
      /\ index' \in {1, index, index + 1} /\ table' \in {table, table + 1}
  BY DEF ParseTables, SkipEntry, OverflowingEntry, NextTable, Finish, AtEntry
<1>2. index' \in Nat \ {0} /\ table' \in Nat \ {0} /\ base # Preferred
  BY <1>1 DEF IInv, TypeInv
<1> QED
  BY <1>1, <1>2, KeepInv DEF Filled

(* A relocation writes its sum to the word it names, and to no other byte.   *)
LEMMA WordWritten ==
    ASSUME IInv, ApplyEntry
    PROVE  LET bytes == Digits(Relocated(NumberAt(mem, Start, Width, Order)), Width, Order)
           IN  /\ <<table, index>> \in RelativeEntries(image)
               /\ Start = OffsetOf(image, <<table, index>>) - ImageBase(image.segments)
               /\ Start >= 0 /\ Start + Width <= ImageSpan(image.segments)
               /\ Width \in Nat
               /\ Len(mem') = ImageSpan(image.segments)
               /\ \A p \in 1..ImageSpan(image.segments) :
                      mem'[p] = IF p \in Start + 1..Start + Width
                                THEN bytes[p - Start] ELSE mem[p]
<1> DEFINE n     == ImageSpan(image.segments)
           bytes == Digits(Relocated(NumberAt(mem, Start, Width, Order)), Width, Order)
           entry == <<table, index>>
<1>1. /\ pc = "relocate" /\ mem' = Overlaid(mem, Start, bytes)
      /\ table <= Len(image.sections) /\ IsTable(image.sections[table])
      /\ index <= Len(Entries(image.sections[table]))
      /\ Entry.type \in Relative /\ Start >= 0 /\ Start + Width <= Len(mem)
  BY DEF ApplyEntry, AtEntry
<1>2. /\ Placeable(image) /\ index \in Nat \ {0} /\ table \in Nat \ {0}
      /\ Len(mem) = n /\ n \in Nat
  BY <1>1, ImageFacts DEF IInv, TypeInv, Filling
<1>3. entry \in RelativeEntries(image) /\ OffsetOf(image, entry) = Entry.offset
  <2>1. table \in 1..Len(image.sections)
    BY <1>1, <1>2 DEF Placeable
  <2>2. index \in 1..Len(Entries(image.sections[table]))
    BY <1>1, <1>2
  <2> QED
    BY <1>1, <2>1, <2>2 DEF RelativeEntries, OffsetOf, Entry
<1>4. Start = OffsetOf(image, entry) - ImageBase(image.segments)
  BY <1>3 DEF Start, Preferred
<1>5. Len(bytes) = Width /\ Width \in Nat
  <2>1. Width \in Nat
    BY MappedAssumption
  <2>2. bytes = [k \in 1..Width |-> bytes[k]]
    BY DEF Digits
  <2> HIDE DEF bytes
  <2> QED
    BY <2>1, <2>2, MadeSequence
<1>6. /\ Len(mem') = n
      /\ \A p \in 1..n : mem'[p] = IF p \in Start + 1..Start + Width
                                   THEN bytes[p - Start] ELSE mem[p]
  <2> HIDE DEF n, bytes, entry
  <2>1. /\ Len(mem') = n
        /\ \A p \in 1..n : mem'[p] = IF p \in Start + 1..Start + Len(bytes)
                                     THEN bytes[p - Start] ELSE mem[p]
    BY <1>1, <1>2, OverlaidFacts
  <2> QED
    BY <1>5, <2>1
<1> QED
  BY <1>1, <1>2, <1>3, <1>4, <1>5, <1>6

(* So bytes outside the word stay.                                          *)
LEMMA ApplyEntryInv == IInv /\ ApplyEntry => IInv'
<1> SUFFICES ASSUME IInv, ApplyEntry PROVE IInv'
  OBVIOUS
<1> DEFINE n     == ImageSpan(image.segments)
           entry == <<table, index>>
<1>1. /\ pc = "relocate" /\ pc' = pc /\ UNCHANGED <<image, base, table>>
      /\ index' = index + 1
  BY DEF ApplyEntry, AtEntry
<1>2. /\ Placeable(image) /\ index \in Nat \ {0} /\ table \in Nat \ {0}
      /\ base # Preferred /\ Len(mem) = n /\ n \in Nat
  BY <1>1, ImageFacts DEF IInv, TypeInv, Filling
<1>3. /\ entry \in RelativeEntries(image)
      /\ Start = OffsetOf(image, entry) - ImageBase(image.segments)
      /\ Start >= 0 /\ Start + Width <= n
      /\ Len(mem') = n
      /\ \A p \in 1..n : p \notin Start + 1..Start + Width => mem'[p] = mem[p]
  BY WordWritten
<1> HIDE DEF entry
<1>4. TypeInv' /\ SegmentsInv'
  BY <1>1, <1>2, <1>3 DEF IInv, TypeInv, SegmentsInv, Filling, Preferred
<1>5. ASSUME NEW p \in 1..n, Unnamed(p)'
      PROVE  mem'[p] = Loaded(image)[p]
  <2>1. \A w \in RelativeEntries(image) : p \notin WordAt(image, w)
    BY <1>1, <1>2, <1>3, <1>5 DEF Unnamed, WordAt, Preferred
  <2>2. p \notin Start + 1..Start + Width
    BY <1>2, <1>3, <2>1 DEF WordAt
  <2>3. mem'[p] = mem[p]
    BY <1>3, <2>2
  <2>4. Unnamed(p)
    BY <2>1 DEF Unnamed
  <2> QED
    BY <1>1, <2>3, <2>4 DEF IInv, RestIsLoaded, Filled
<1>6. RestIsLoaded'
  BY <1>1, <1>5 DEF RestIsLoaded
<1> QED
  BY <1>4, <1>6 DEF IInv

(* A step that changes nothing.                                              *)
LEMMA StutterInv == IInv /\ UNCHANGED vars => IInv'
BY DEF IInv, TypeInv, SegmentsInv, RestIsLoaded, Filling, Filled, Unnamed, WordAt, Preferred,
       vars

(* Every step preserves the invariant.                                       *)
LEMMA NextInv == IInv /\ [Next]_vars => IInv'
<1> SUFFICES ASSUME IInv, [Next]_vars PROVE IInv'
  OBVIOUS
<1>1. CASE Allocate
  BY <1>1, AllocateInv
<1>2. CASE SkipSegment
  BY <1>2, SkipSegmentInv
<1>3. CASE PlaceSegment
  BY <1>3, PlaceSegmentInv
<1>4. CASE WriteHeaders
  BY <1>4, WriteHeadersInv
<1>5. CASE ParseTables \/ SkipEntry \/ OverflowingEntry \/ NextTable \/ Finish
  BY <1>5, KeepingStepsInv
<1>6. CASE ApplyEntry
  BY <1>6, ApplyEntryInv
<1>7. CASE Returned \/ UNCHANGED vars
  BY <1>7, StutterInv DEF Returned
<1> QED
  BY <1>1, <1>2, <1>3, <1>4, <1>5, <1>6, <1>7 DEF Next

(* The invariant holds of every call.                                        *)
LEMMA Invariance == Spec => []IInv
BY InitInv, NextInv, PTL DEF Spec

-----------------------------------------------------------------------------
(* The theorems.                                                             *)

(* Whatever the order of segments, tables and entries, a byte that no        *)
(* applied relocation names is the one the segments and headers put there:   *)
(* rebasing moves pointers and nothing else (build.rs:163-240).              *)
THEOREM OnlyPointersMove == Spec => []RestIsLoaded
<1>1. IInv => RestIsLoaded
  BY DEF IInv
<1> QED
  BY <1>1, Invariance, PTL

(* At the preferred base the invariant is what a loader promises.            *)
LEMMA LoadsInMemoryHolds == IInv => LoadsInMemory
<1> SUFFICES ASSUME IInv, pc = "done", base = Preferred,
                    NEW i \in 1..Len(image.segments), IsLoad(image.segments[i]),
                    image.segments[i].header.vaddr - Preferred >= 0,
                    NEW k \in 1..image.segments[i].header.memsz,
                    image.segments[i].header.vaddr - Preferred + k
                        \in HeadersEnd(image) + 1..Len(mem),
                    PlacedAt(image, image.segments[i].header.vaddr - Preferred + k) \subseteq {i}
             PROVE  mem[image.segments[i].header.vaddr - Preferred + k] =
                        IF k <= Len(image.segments[i].data) THEN image.segments[i].data[k]
                        ELSE Zero
  BY DEF LoadsInMemory
<1> DEFINE n     == ImageSpan(image.segments)
           s     == image.segments[i]
           start == s.header.vaddr - Preferred
           p     == start + k
<1>1. Placeable(image) /\ Len(mem) = n
  BY DEF IInv, TypeInv, Filling
<1>2. /\ n \in Nat /\ start \in Nat /\ k \in Nat \ {0} /\ p - start = k
      /\ Len(s.data) \in Nat
      /\ start = s.header.vaddr - ImageBase(image.segments)
  <2>1. s.header.vaddr \in Nat /\ Len(s.data) \in Nat /\ Preferred \in Nat
        /\ n \in Nat
    BY <1>1, ImageFacts DEF Preferred
  <2>2. start \in Nat
    BY <2>1
  <2>3. k \in Nat \ {0}
    OBVIOUS
  <2> HIDE DEF start
  <2>4. p - start = k
    BY <2>2, <2>3
  <2> QED
    BY <2>1, <2>2, <2>3, <2>4 DEF start, Preferred
<1>3. p \in 1..n /\ ~(p <= Len(HeaderBytes(image)))
  BY <1>1, <1>2, HeaderLength
<1>4. mem[p] = LastByte(image, PlacedAt(image, p), p)
  <2>1. mem[p] = Loaded(image)[p]
    BY <1>3 DEF IInv, RestIsLoaded, Filled, Unnamed
  <2> QED
    BY <1>3, <2>1 DEF Loaded, LastByte, ByteOf
<1>5. i \in PlacedAt(image, p) <=> k <= Len(s.data)
  <2>1. i \in PlacedAt(image, p) <=> start >= 0 /\ start < p /\ p <= start + Len(s.data)
    BY <1>2 DEF PlacedAt
  <2> DEFINE l == Len(s.data)
  <2>2. /\ start \in Nat /\ k \in Nat \ {0} /\ l \in Nat
        /\ p = start + k
    BY <1>2
  <2> HIDE DEF start, p, l
  <2> QED
    BY <2>1, <2>2 DEF l
<1>6. CASE k <= Len(s.data)
  <2>1. PlacedAt(image, p) = {i}
    BY <1>5, <1>6
  <2>2. Greatest({i}) = i
    <3>1. {i} \in SUBSET Nat /\ i \in {i} /\ \A y \in {i} : y <= i
      OBVIOUS
    <3> QED
      BY <3>1, GreatestIs, Zenon
  <2>3. ByteOf(image, i, p) = s.data[k]
    BY <1>2 DEF ByteOf
  <2> QED
    BY <1>4, <1>6, <2>1, <2>2, <2>3 DEF LastByte
<1>7. CASE ~(k <= Len(s.data))
  <2>1. PlacedAt(image, p) = {}
    BY <1>5, <1>7
  <2> QED
    BY <1>4, <1>7, <2>1 DEF LastByte
<1> QED
  BY <1>6, <1>7

(* At the preferred base the result is the memory a loader would make of the *)
(* image: each byte of a loadable segment at its address, zeros behind its   *)
(* data, but for the headers and overlaps (build.rs:141-191).                *)
THEOREM LoadableSegmentsLoad == Spec => []LoadsInMemory
BY Invariance, LoadsInMemoryHolds, PTL

-----------------------------------------------------------------------------
(* Numbers in memory.                                                        *)

(* The recursion of NumberAt, and its solution.                              *)
IsNumber(f, data, offset, size, order) ==
    f = [k \in 0..size |->
            IF k = 0 THEN 0
            ELSE f[k - 1] + (Value(data[offset + k]) * Place(k, size, order))]

Terms(data, offset, size, order) ==
    [k \in 1..size |-> Value(data[offset + k]) * Place(k, size, order)]

(* The recursion has a solution, which sums the terms.                       *)
LEMMA NumberIsSum ==
    ASSUME NEW data, NEW offset, NEW size \in Nat, NEW order
    PROVE  \E f : /\ IsSum(f, size, Terms(data, offset, size, order))
                  /\ NumberAt(data, offset, size, order) = f[size]
<1> DEFINE g == Terms(data, offset, size, order)
<1>1. ASSUME NEW f PROVE IsSum(f, size, g) <=> IsNumber(f, data, offset, size, order)
  <2>1. \A k \in 0..size : k # 0 => k \in 1..size
    OBVIOUS
  <2>2. \A k \in 1..size : g[k] = Value(data[offset + k]) * Place(k, size, order)
    BY DEF Terms
  <2> HIDE DEF g
  <2>3. [k \in 0..size |-> IF k = 0 THEN 0 ELSE f[k - 1] + g[k]]
        = [k \in 0..size |->
              IF k = 0 THEN 0
              ELSE f[k - 1] + (Value(data[offset + k]) * Place(k, size, order))]
    BY <2>1, <2>2
  <2> QED
    BY <2>3, Zenon DEF IsSum, IsNumber
<1>2. \E f : IsSum(f, size, g)
  BY SumExists
<1> HIDE DEF g
<1>3. \E f : IsNumber(f, data, offset, size, order)
  BY <1>1, <1>2
<1>4. \E f : /\ IsNumber(f, data, offset, size, order)
             /\ NumberAt(data, offset, size, order) = f[size]
  BY <1>3 DEF IsNumber, NumberAt
<1> QED
  BY <1>1, <1>4 DEF g

(* A number is that of its bytes.                                            *)
LEMMA SameNumber ==
    ASSUME NEW a, NEW b, NEW at, NEW size \in Nat, NEW order,
           \A k \in 1..size : a[at + k] = b[at + k]
    PROVE  NumberAt(a, at, size, order) = NumberAt(b, at, size, order)
<1>2. ASSUME NEW f PROVE IsNumber(f, a, at, size, order) <=> IsNumber(f, b, at, size, order)
  <2>1. \A k \in 0..size : k # 0 => k \in 1..size
    OBVIOUS
  <2>2. [k \in 0..size |->
            IF k = 0 THEN 0 ELSE f[k - 1] + (Value(a[at + k]) * Place(k, size, order))]
        = [k \in 0..size |->
            IF k = 0 THEN 0 ELSE f[k - 1] + (Value(b[at + k]) * Place(k, size, order))]
    BY <2>1
  <2> QED
    BY <2>2, Zenon DEF IsNumber
<1> QED
  BY <1>2 DEF IsNumber, NumberAt

(* What the places are worth.                                                *)
LEMMA Powers ==
    ASSUME NEW size \in 0..(2 * Word)
    PROVE  LET pow == [k \in 0..size |-> Radix^k]
           IN  /\ \A k \in 0..size : pow[k] = Radix^k /\ pow[k] \in Nat \ {0}
               /\ pow[0] = 1
               /\ \A k \in 1..size : pow[k] = Radix * pow[k - 1]
               /\ Radix \in Nat \ {0}
<1>1. Word \in Nat /\ 2 * Word \in Nat
  BY TablesAssumption DEF Word
<1>2. /\ \A k \in 0..size : k \in 0..(2 * Word)
      /\ \A k \in 1..size : k \in 1..(2 * Word) /\ k - 1 \in 0..size
      /\ 0 \in 0..size /\ size \in Nat
  BY <1>1
<1>3. Radix \in Nat \ {0}
  <2>1. Nibble \in Nat \ {0}
    BY TablesAssumption
  <2> QED
    BY <2>1, SMTT(30) DEF Radix
<1> DEFINE pow == [k \in 0..size |-> Radix^k]
<1>4. \A k \in 0..size : pow[k] = Radix^k
  OBVIOUS
<1> HIDE DEF pow
<1>5. \A k \in 0..size : pow[k] \in Nat \ {0}
  BY <1>2, <1>4, TablesAssumption
<1>6. pow[0] = 1
  BY <1>2, <1>4, TablesAssumption
<1>7. ASSUME NEW k \in 1..size PROVE pow[k] = Radix * pow[k - 1]
  <2>1. k \in 0..size /\ k - 1 \in 0..size /\ k \in 1..(2 * Word)
    BY <1>2
  <2>2. pow[k] = Radix^k /\ pow[k - 1] = Radix^(k - 1)
    BY <1>4, <2>1
  <2>3. Radix^k = Radix * Radix^(k - 1)
    BY <2>1, TablesAssumption
  <2> QED
    BY <2>2, <2>3
<1> QED
  BY <1>3, <1>4, <1>5, <1>6, <1>7 DEF pow

(* The bytes of a number written are raw.                                    *)
LEMMA RawDigits ==
    ASSUME NEW n \in Int, NEW size \in 0..(2 * Word), NEW order \in Orders
    PROVE  \A k \in 1..size : Digits(n, size, order)[k] \in RawByte
<1>1. size \in Nat /\ \A k \in 1..size : k - 1 \in 0..size /\ size - k \in 0..size
  <2>1. 2 * Word \in Nat
    BY TablesAssumption DEF Word
  <2> QED
    BY <2>1
<1> DEFINE pow == [k \in 0..size |-> Radix^k]
<1>2. /\ \A k \in 0..size : pow[k] = Radix^k /\ pow[k] \in Nat \ {0}
      /\ Radix \in Nat \ {0}
  BY Powers, Zenon
<1> HIDE DEF pow
<1>3. ASSUME NEW k \in 1..size
      PROVE  Digits(n, size, order)[k] \in RawByte
  <2> DEFINE q == n \div Place(k, size, order)
  <2>1. Place(k, size, order) \in Nat \ {0}
    BY <1>1, <1>2 DEF Place
  <2>2. q \in Int
    BY <2>1, IntDivMod
  <2> HIDE DEF q
  <2>3. q % Radix \in 0..(Radix - 1)
    BY <1>2, <2>2, IntDivMod
  <2>4. Digits(n, size, order)[k] = <<q % Radix>>
    BY DEF Digits, q
  <2>5. <<q % Radix>> \in {<<d>> : d \in 0..(Radix - 1)}
    BY <2>3
  <2> QED
    BY <2>4, <2>5, TablesAssumption DEF RawByte
<1> QED
  BY <1>3

(* Digits written are read as the number, but for those cut off.             *)
LEMMA DigitsRead ==
    ASSUME NEW n \in Int, NEW size \in 0..(2 * Word), NEW order \in Orders,
           NEW data, NEW at,
           \A k \in 1..size : data[at + k] = Digits(n, size, order)[k]
    PROVE  NumberAt(data, at, size, order) = n - Rounded(n, Radix^size)
<1> DEFINE pow == [k \in 0..size |-> Radix^k]
           g   == Terms(data, at, size, order)
<1>0. size \in Nat /\ size \in 0..size
  <2>1. 2 * Word \in Nat
    BY TablesAssumption DEF Word
  <2> QED
    BY <2>1
<1>1. /\ \A k \in 0..size : pow[k] = Radix^k /\ pow[k] \in Nat \ {0}
      /\ pow[0] = 1
      /\ \A k \in 1..size : pow[k] = Radix * pow[k - 1]
      /\ Radix \in Nat \ {0}
  BY Powers, Zenon
<1>2. PICK f : IsSum(f, size, g) /\ NumberAt(data, at, size, order) = f[size]
  BY <1>0, NumberIsSum
<1>3. ASSUME NEW k \in 1..size PROVE g[k] = Digit(n, Place(k, size, order), Radix)
  <2>1. g[k] = Value(data[at + k]) * Place(k, size, order)
    BY DEF Terms
  <2>2. Digits(n, size, order)[k] = <<(n \div Place(k, size, order)) % Radix>>
    BY DEF Digits
  <2>3. Digits(n, size, order)[k] \in RawByte
    BY RawDigits
  <2>4. Value(data[at + k]) = (n \div Place(k, size, order)) % Radix
    BY <2>2, <2>3 DEF Value
  <2> QED
    BY <2>1, <2>4 DEF Digit
<1>4. \/ \A k \in 1..size : Place(k, size, order) = pow[k - 1]
      \/ \A k \in 1..size : Place(k, size, order) = pow[size - k]
  <2>1. \A k \in 1..size : k - 1 \in 0..size /\ size - k \in 0..size
    BY <1>0
  <2>2. CASE order = "Little"
    BY <1>1, <2>1, <2>2 DEF Place
  <2>3. CASE order # "Little"
    BY <1>1, <2>1, <2>3 DEF Place
  <2> QED
    BY <2>2, <2>3
<1> HIDE DEF pow, g
<1>5. \/ \A k \in 1..size : g[k] = Digit(n, pow[k - 1], Radix)
      \/ \A k \in 1..size : g[k] = Digit(n, pow[size - k], Radix)
  BY <1>3, <1>4
<1>6. ArePowers(pow, Radix, size)
  BY <1>1, Zenon DEF ArePowers
<1>7. AreDigits(g, n, pow, Radix, size)
  BY <1>5, Zenon DEF AreDigits
<1>8. f[size] = n - Rounded(n, pow[size])
  <2>1. Radix \in Nat \ {0} /\ size \in Nat
    BY <1>0, <1>1
  <2> QED
    BY <1>2, <1>6, <1>7, <2>1, DigitSum
<1> QED
  BY <1>0, <1>1, <1>2, <1>8

(* Whatever the bytes, they are read as a natural number.                    *)
LEMMA ByteValue == \A byte : Value(byte) \in Nat
<1> SUFFICES ASSUME NEW byte PROVE Value(byte) \in Nat
  OBVIOUS
<1>1. Datum = 0..(Radix - 1) /\ 0 \in Datum
  BY TablesAssumption, FormatAssumption
<1>2. CASE byte \in RawByte
  <2>1. PICK d \in Datum : byte = <<d>>
    BY <1>2 DEF RawByte
  <2>2. Value(byte) = d
    BY <1>2, <2>1 DEF Value
  <2> QED
    BY <1>1, <2>2
<1>3. CASE byte \notin RawByte
  <2>1. (CHOOSE d \in Datum : TRUE) \in Datum
    BY <1>1
  <2> QED
    BY <1>1, <1>3, <2>1 DEF Value
<1> QED
  BY <1>2, <1>3

(* So a number is natural.                                                   *)
LEMMA NumberIsNatural ==
    ASSUME NEW size \in 0..(2 * Word), NEW order, NEW data, NEW at
    PROVE  NumberAt(data, at, size, order) \in Nat
<1>0. size \in Nat /\ size \in 0..size
  <2>1. 2 * Word \in Nat
    BY TablesAssumption DEF Word
  <2> QED
    BY <2>1
<1>1. \A k \in 0..size : Radix^k \in Nat /\ Radix \in Nat \ {0}
  <2> DEFINE pow == [k \in 0..size |-> Radix^k]
  <2>1. /\ \A k \in 0..size : pow[k] = Radix^k /\ pow[k] \in Nat \ {0}
        /\ Radix \in Nat \ {0}
    BY Powers, Zenon
  <2> HIDE DEF pow
  <2> QED
    BY <2>1
<1> DEFINE g == Terms(data, at, size, order)
<1>2. PICK f : IsSum(f, size, g) /\ NumberAt(data, at, size, order) = f[size]
  BY <1>0, NumberIsSum
<1>3. ASSUME NEW k \in 1..size PROVE g[k] \in Nat
  <2>1. g[k] = Value(data[at + k]) * Place(k, size, order)
    BY DEF Terms
  <2> DEFINE a == Value(data[at + k])
             b == Place(k, size, order)
  <2>2. a \in Nat
    BY ByteValue
  <2>3. b \in Nat
    <3>1. k - 1 \in 0..size /\ size - k \in 0..size
      BY <1>0
    <3> QED
      BY <1>1, <3>1 DEF Place
  <2> HIDE DEF a, b
  <2>4. a * b \in Nat
    BY <2>2, <2>3, SMTT(30)
  <2> QED
    BY <2>1, <2>4 DEF a, b
<1> HIDE DEF g
<1>4. f[size] \in Nat
  BY <1>0, <1>2, <1>3, SumIsNumber
<1> QED
  BY <1>2, <1>4

-----------------------------------------------------------------------------
(* What relocation does to a pointer.                                        *)

(* The word a relocation names, as positions in the memory.                  *)
WordStart(im, w) == OffsetOf(im, w) - ImageBase(im.segments)
Named(im, w) ==
    IF WordStart(im, w) >= 0 /\ WordStart(im, w) + Width <= ImageSpan(im.segments)
    THEN WordStart(im, w) + 1..WordStart(im, w) + Width ELSE {}

(* No other relocation names a byte of the word.                             *)
Isolated(im, w) ==
    /\ w \in RelativeEntries(im) /\ Named(im, w) # {}
    /\ \A v \in RelativeEntries(im) \ {w} : Named(im, v) \cap Named(im, w) = {}

(* The loop is past the entry.                                               *)
Processed(w) ==
    \/ pc = "done"
    \/ pc = "relocate" /\ (w[1] < table \/ (w[1] = table /\ w[2] < index))

NumberIn(m, im, w) == NumberAt(m, WordStart(im, w), Width, Order)
Sum(im, w, to) == NumberIn(Loaded(im), im, w) + to - ImageBase(im.segments)

(* A word that no other relocation names is what it is in the loaded image   *)
(* up to its relocation, and from then on the sum with the distance between  *)
(* the bases, but for a carry.                                               *)
PointersInv ==
    Filled /\ base # Preferred =>
        \A w : Isolated(image, w) =>
            /\ Processed(w) =>
                   NumberIn(mem, image, w)
                       = Sum(image, w, base) - Rounded(Sum(image, w, base), Radix^Width)
            /\ ~Processed(w) => \A p \in Named(image, w) : mem[p] = Loaded(image)[p]

-----------------------------------------------------------------------------
(* The words.                                                                *)

(* Relative entries are pairs of a table and a place in it.                  *)
LEMMA EntryShape ==
    ASSUME NEW im, NEW w \in RelativeEntries(im)
    PROVE  /\ w = <<w[1], w[2]>>
           /\ w[1] \in 1..Len(im.sections) /\ IsTable(im.sections[w[1]])
           /\ w[2] \in 1..Len(Entries(im.sections[w[1]]))
BY DEF RelativeEntries

(* The offset of an entry is a number.                                       *)
LEMMA OffsetsAreNumbers ==
    ASSUME NEW im, Placeable(im), NEW w \in RelativeEntries(im)
    PROVE  OffsetOf(im, w) \in Nat
<1> DEFINE s    == im.sections[w[1]]
           size == RelocationSize(Class, IsRela(s))
           n    == Len(s.data) \div size
<1>1. w[1] \in 1..Len(im.sections) /\ w[2] \in 1..Len(Entries(s))
  BY EntryShape
<1>2. NativeSize(Class) \in 0..(2 * Word) /\ NativeSize(Class) # 0
  BY TablesAssumption DEF Word, NativeSize
<1>3. size \in Nat \ {0}
  <2>1. NativeSize(Class) \in Nat \ {0}
    BY <1>2, TablesAssumption DEF Word
  <2> QED
    BY <2>1 DEF RelocationSize
<1>4. n \in Nat
  <2>1. Len(s.data) \in Nat
    BY <1>1 DEF Placeable
  <2> HIDE DEF size
  <2> QED
    BY <1>3, <2>1, DivMod
<1>5. Entries(s) = [i \in 1..n |-> RelocationAt(s.data, size * (i - 1), IsRela(s), Class, Order)]
  BY DEF Entries, RelocationEntries
<1> HIDE DEF n, size
<1>6. w[2] \in 1..n
  <2>1. Entries(s) = [i \in 1..n |-> Entries(s)[i]]
    BY <1>5
  <2>2. Len(Entries(s)) = n
    BY <1>4, <2>1, MadeSequence
  <2> QED
    BY <1>1, <2>2
<1>7. OffsetOf(im, w) = NumberAt(s.data, size * (w[2] - 1), NativeSize(Class), Order)
  BY <1>5, <1>6 DEF OffsetOf, RelocationAt
<1> QED
  BY <1>2, <1>7, NumberIsNatural

(* A word that is named is in the memory, Width bytes from its start.        *)
LEMMA NamedFacts ==
    ASSUME NEW im, Placeable(im), NEW w \in RelativeEntries(im)
    PROVE  /\ WordStart(im, w) \in Int
           /\ \A p \in Named(im, w) : p \in 1..ImageSpan(im.segments)
           /\ Named(im, w) # {} =>
                  \A k \in 1..Width : WordStart(im, w) + k \in Named(im, w)
<1>1. WordStart(im, w) \in Int /\ Width \in Nat /\ ImageSpan(im.segments) \in Nat
  BY ImageFacts, OffsetsAreNumbers, MappedAssumption DEF WordStart
<1> QED
  BY <1>1 DEF Named

(* The loop's entry, when it is relative, names a word by its index.         *)
LEMMA CurrentEntry ==
    ASSUME TypeInv, AtEntry, Entry.type \in Relative
    PROVE  /\ <<table, index>> \in RelativeEntries(image)
           /\ Start = WordStart(image, <<table, index>>)
<1>1. table \in 1..Len(image.sections) /\ index \in 1..Len(Entries(image.sections[table]))
  BY DEF TypeInv, AtEntry, Placeable
<1> QED
  BY <1>1 DEF AtEntry, RelativeEntries, OffsetOf, Entry, Start, WordStart, Preferred

-----------------------------------------------------------------------------
(* The steps.                                                                *)

(* Before the headers are written there is nothing to say.                   *)
LEMMA PointersStart ==
    /\ Init => PointersInv
    /\ IInv /\ (Allocate \/ SkipSegment \/ PlaceSegment) => PointersInv'
<1>1. Init => PointersInv
  BY DEF Init, PointersInv, Filled
<1>2. ASSUME IInv, Allocate \/ SkipSegment \/ PlaceSegment
      PROVE  PointersInv'
  <2>1. pc' \in {"error", "segments", "panic"}
    BY <1>2 DEF Allocate, SkipSegment, PlaceSegment
  <2> QED
    BY <2>1 DEF PointersInv, Filled
<1> QED
  BY <1>1, <1>2

(* Then every word is as it is loaded, and none is processed.                *)
LEMMA PointersLoaded == IInv /\ WriteHeaders => PointersInv'
<1> SUFFICES ASSUME IInv, WriteHeaders, base # Preferred
             PROVE  PointersInv'
  BY DEF WriteHeaders, PointersInv, Preferred
<1>1. pc' = "tables" /\ UNCHANGED <<image, base>> /\ Placeable(image)
  BY DEF WriteHeaders, IInv, TypeInv
<1>2. ASSUME NEW w \in RelativeEntries(image), NEW p \in Named(image, w)
      PROVE  mem'[p] = Loaded(image)[p]
  <2>1. p \in 1..ImageSpan(image.segments)
    BY <1>1, NamedFacts
  <2> QED
    BY <2>1, HeadersLoad
<1>3. ASSUME NEW w PROVE ~(Processed(w)')
  BY <1>1 DEF Processed
<1> QED
  BY <1>1, <1>2, <1>3 DEF PointersInv, Isolated

(* A step that leaves the memory as it is and passes no entry but one that   *)
(* names no word.                                                            *)
LEMMA PointersKept ==
    ASSUME PointersInv, UNCHANGED <<image, base, mem>>, Filled' => Filled,
           \A w : Isolated(image, w) /\ Filled' => (Processed(w)' <=> Processed(w))
    PROVE  PointersInv'
<1> SUFFICES ASSUME Filled', base # Preferred
             PROVE  PointersInv'
  BY DEF PointersInv, Preferred
<1>1. \A w : Isolated(image, w) =>
          /\ Processed(w) =>
                 NumberIn(mem, image, w)
                     = Sum(image, w, base) - Rounded(Sum(image, w, base), Radix^Width)
          /\ ~Processed(w) => \A p \in Named(image, w) : mem[p] = Loaded(image)[p]
  BY DEF PointersInv
<1>2. image' = image /\ base' = base /\ mem' = mem
  OBVIOUS
<1>3. \A w : Isolated(image', w) =>
          /\ Processed(w)' =>
                 NumberIn(mem', image', w)
                     = Sum(image', w, base') - Rounded(Sum(image', w, base'), Radix^Width)
          /\ ~(Processed(w)') => \A p \in Named(image', w) : mem'[p] = Loaded(image')[p]
  BY <1>1, <1>2
<1> QED
  BY <1>3 DEF PointersInv

(* Entries passed over name no word of theirs, and a table that is left has  *)
(* no entry ahead.                                                           *)
LEMMA PointersPassed ==
    IInv /\ PointersInv
        /\ (ParseTables \/ SkipEntry \/ OverflowingEntry \/ NextTable \/ Finish)
        => PointersInv'
<1> SUFFICES ASSUME IInv, PointersInv,
                    ParseTables \/ SkipEntry \/ OverflowingEntry \/ NextTable \/ Finish
             PROVE  PointersInv'
  OBVIOUS
<1>1. /\ Placeable(image) /\ table \in Nat \ {0} /\ index \in Nat \ {0}
      /\ pc \in {"allocate", "segments", "tables"} => table = 1
      /\ Filling => Len(mem) = ImageSpan(image.segments)
      /\ Len(image.sections) \in Nat
  BY DEF IInv, TypeInv, Placeable
<1>2. ASSUME NEW w, Isolated(image, w)
      PROVE  /\ w = <<w[1], w[2]>> /\ w[1] \in 1..Len(image.sections)
             /\ IsTable(image.sections[w[1]])
             /\ w[2] \in 1..Len(Entries(image.sections[w[1]]))
             /\ w[1] \in Nat \ {0} /\ w[2] \in Nat \ {0}
  <2>1. w \in RelativeEntries(image)
    BY <1>2 DEF Isolated
  <2>2. /\ w = <<w[1], w[2]>> /\ w[1] \in 1..Len(image.sections)
        /\ IsTable(image.sections[w[1]])
        /\ w[2] \in 1..Len(Entries(image.sections[w[1]]))
    BY <2>1, EntryShape
  <2> QED
    BY <2>2
<1>3. CASE ParseTables
  <2>1. /\ pc = "tables" /\ table = 1 /\ table' = 1 /\ index' = 1
        /\ pc' \in {"error", "relocate"} /\ UNCHANGED <<image, base, mem>>
    BY <1>1, <1>3 DEF ParseTables
  <2>2. ASSUME NEW w, Isolated(image, w)
        PROVE  Processed(w)' <=> Processed(w)
    BY <1>2, <2>1, <2>2 DEF Processed
  <2> QED
    BY <2>1, <2>2, PointersKept DEF Filled
<1>4. CASE SkipEntry
  <2>1. /\ pc = "relocate" /\ pc' = "relocate" /\ index' = index + 1 /\ table' = table
        /\ UNCHANGED <<image, base, mem>> /\ AtEntry
        /\ Len(mem) = ImageSpan(image.segments)
    BY <1>1, <1>4 DEF SkipEntry, AtEntry, Filling
  <2>2. ASSUME NEW w, Isolated(image, w), w[1] = table, w[2] = index
        PROVE  FALSE
    <3>1. w = <<table, index>> /\ w \in RelativeEntries(image) /\ Named(image, w) # {}
      BY <1>2, <2>2 DEF Isolated
    <3>2. Entry.type \in Relative
      BY <3>1 DEF RelativeEntries, Entry
    <3>3. Start = WordStart(image, w)
      BY <2>1, <3>1, <3>2, CurrentEntry DEF IInv
    <3>4. Start < 0 \/ Start + Width > Len(mem)
      BY <1>4, <3>2 DEF SkipEntry
    <3>5. Start \in Int /\ Width \in Nat /\ ImageSpan(image.segments) \in Nat
      BY <1>1, <2>2, <3>1, <3>3, NamedFacts, ImageFacts, MappedAssumption
    <3> QED
      BY <2>1, <3>1, <3>3, <3>4, <3>5 DEF Named
  <2>3. ASSUME NEW w, Isolated(image, w)
        PROVE  Processed(w)' <=> Processed(w)
    <3>1. w[1] \in Nat \ {0} /\ w[2] \in Nat \ {0}
      BY <1>2, <2>3
    <3>2. w[1] # table \/ w[2] # index
      BY <2>2, <2>3
    <3> QED
      BY <1>1, <2>1, <3>1, <3>2 DEF Processed
  <2> QED
    BY <2>1, <2>3, PointersKept DEF Filled
<1>5. CASE OverflowingEntry
  <2>1. pc' = "panic"
    BY <1>5 DEF OverflowingEntry
  <2> QED
    BY <2>1 DEF PointersInv, Filled
<1>6. CASE NextTable
  <2>1. /\ pc = "relocate" /\ pc' = "relocate" /\ table' = table + 1 /\ index' = 1
        /\ UNCHANGED <<image, base, mem>> /\ table <= Len(image.sections) /\ ~AtEntry
    BY <1>6 DEF NextTable
  <2>2. ASSUME NEW w, Isolated(image, w)
        PROVE  Processed(w)' <=> Processed(w)
    <3>1. w[1] = table => w[2] < index
      <4> SUFFICES ASSUME w[1] = table PROVE w[2] < index
        OBVIOUS
      <4>1. /\ IsTable(image.sections[table]) /\ w[2] \in Nat
            /\ w[2] \in 1..Len(Entries(image.sections[table]))
        BY <1>2, <2>2
      <4>2. ~(index <= Len(Entries(image.sections[table])))
        BY <2>1, <4>1 DEF AtEntry
      <4> QED
        BY <1>1, <4>1, <4>2
    <3>2. w[1] \in Nat \ {0} /\ w[2] \in Nat \ {0}
      BY <1>2, <2>2
    <3> QED
      BY <1>1, <2>1, <3>1, <3>2 DEF Processed
  <2> QED
    BY <2>1, <2>2, PointersKept DEF Filled
<1>7. CASE Finish
  <2>1. /\ pc = "relocate" /\ pc' = "done" /\ table > Len(image.sections)
        /\ UNCHANGED <<image, base, mem>>
    BY <1>7 DEF Finish
  <2>2. ASSUME NEW w, Isolated(image, w)
        PROVE  Processed(w)' <=> Processed(w)
    <3>1. w[1] \in 1..Len(image.sections)
      BY <1>2, <2>2
    <3>2. w[1] < table
      BY <1>1, <2>1, <3>1
    <3> QED
      BY <2>1, <3>2 DEF Processed
  <2> QED
    BY <2>1, <2>2, PointersKept DEF Filled
<1> QED
  BY <1>3, <1>4, <1>5, <1>6, <1>7

(* A word that no other relocation names has its sum when its own is         *)
(* applied, and keeps it when others are.                                    *)
LEMMA PointersApplied == IInv /\ PointersInv /\ ApplyEntry => PointersInv'
<1> SUFFICES ASSUME IInv, PointersInv, ApplyEntry
             PROVE  PointersInv'
  BY DEF ApplyEntry, PointersInv
<1> DEFINE e     == <<table, index>>
           n     == Relocated(NumberAt(mem, Start, Width, Order))
           bytes == Digits(n, Width, Order)
<1>1. /\ pc = "relocate" /\ pc' = "relocate" /\ UNCHANGED <<image, base, table>>
      /\ index' = index + 1 /\ base # Preferred /\ Placeable(image)
      /\ table \in Nat \ {0} /\ index \in Nat \ {0} /\ base \in Int /\ Preferred \in Int
  <2>1. pc = "relocate" /\ Placeable(image) /\ base \in Nat
    BY DEF ApplyEntry, AtEntry, IInv, TypeInv
  <2>2. Preferred \in Nat
    BY <2>1, ImageFacts DEF Preferred
  <2> QED
    BY <2>1, <2>2 DEF ApplyEntry, AtEntry, IInv, TypeInv
<1>2. /\ e \in RelativeEntries(image)
      /\ Start = WordStart(image, e)
      /\ Start >= 0 /\ Start + Width <= ImageSpan(image.segments)
      /\ \A p \in 1..ImageSpan(image.segments) :
             mem'[p] = IF p \in Start + 1..Start + Width THEN bytes[p - Start] ELSE mem[p]
  BY WordWritten DEF WordStart
<1>3. Width \in 0..(2 * Word) /\ Width \in Nat /\ Order \in Orders
  <2>1. Word \in Nat
    BY TablesAssumption DEF Word
  <2> QED
    BY <2>1, MappedAssumption
<1>4. \A w : Isolated(image, w) =>
          /\ Processed(w) =>
                 NumberIn(mem, image, w)
                     = Sum(image, w, base) - Rounded(Sum(image, w, base), Radix^Width)
          /\ ~Processed(w) => \A p \in Named(image, w) : mem[p] = Loaded(image)[p]
  BY <1>1 DEF PointersInv, Filled
<1>5. Named(image, e) = Start + 1..Start + Width /\ Start \in Int
  BY <1>1, <1>2, NamedFacts DEF Named
<1> HIDE DEF n, bytes
<1>6. ASSUME NEW w, Isolated(image, w), w # e
      PROVE  /\ Processed(w)' <=> Processed(w)
             /\ \A p \in Named(image, w) : mem'[p] = mem[p]
             /\ NumberIn(mem', image, w) = NumberIn(mem, image, w)
  <2>1. /\ w \in RelativeEntries(image) /\ w = <<w[1], w[2]>>
        /\ w[1] \in Nat /\ w[2] \in Nat /\ Named(image, w) # {}
    <3>1. w \in RelativeEntries(image) /\ Named(image, w) # {}
      BY <1>6 DEF Isolated
    <3>2. /\ w = <<w[1], w[2]>> /\ w[1] \in 1..Len(image.sections)
          /\ w[2] \in 1..Len(Entries(image.sections[w[1]]))
      BY <3>1, EntryShape
    <3> QED
      BY <3>1, <3>2
  <2>2. w[1] # table \/ w[2] # index
    BY <1>6, <2>1
  <2>3. Processed(w)' <=> Processed(w)
    BY <1>1, <2>1, <2>2 DEF Processed
  <2> HIDE DEF e
  <2>4. Named(image, e) \cap Named(image, w) = {}
    BY <1>2, <1>6 DEF Isolated
  <2>5. \A p \in Named(image, w) : mem'[p] = mem[p]
    <3>1. \A p \in Named(image, w) : p \in 1..ImageSpan(image.segments)
      BY <1>1, <2>1, NamedFacts
    <3> QED
      BY <1>2, <1>5, <2>4, <3>1
  <2>6. \A k \in 1..Width : WordStart(image, w) + k \in Named(image, w)
    BY <1>1, <2>1, NamedFacts
  <2>7. \A k \in 1..Width : mem'[WordStart(image, w) + k] = mem[WordStart(image, w) + k]
    BY <2>5, <2>6
  <2>8. NumberIn(mem', image, w) = NumberIn(mem, image, w)
    <3> DEFINE at == WordStart(image, w)
    <3>1. \A k \in 1..Width : mem'[at + k] = mem[at + k]
      BY <2>7
    <3> HIDE DEF at
    <3>2. NumberAt(mem', at, Width, Order) = NumberAt(mem, at, Width, Order)
      BY <1>3, <3>1, SameNumber
    <3> QED
      BY <3>2 DEF NumberIn, at
  <2> QED
    BY <2>3, <2>5, <2>8
<1>7. ASSUME NEW w, Isolated(image, w), w = e
      PROVE  /\ Processed(w)'
             /\ NumberIn(mem', image, w)
                    = Sum(image, w, base) - Rounded(Sum(image, w, base), Radix^Width)
  <2>1. Processed(w)' /\ ~Processed(w)
    BY <1>1, <1>7 DEF Processed
  <2>2. \A k \in 1..Width : /\ Start + k \in Named(image, w)
                            /\ Start + k \in 1..ImageSpan(image.segments)
    <3>1. ImageSpan(image.segments) \in Nat
      BY <1>1, ImageFacts
    <3> HIDE DEF e
    <3> QED
      BY <1>2, <1>3, <1>5, <1>7, <3>1
  <2>3. n = Sum(image, w, base)
    <3>1. \A k \in 1..Width : mem[Start + k] = Loaded(image)[Start + k]
      BY <1>4, <1>7, <2>1, <2>2
    <3>2. NumberAt(mem, Start, Width, Order) = NumberAt(Loaded(image), Start, Width, Order)
      BY <1>3, <3>1, SameNumber
    <3> HIDE DEF e
    <3> QED
      BY <1>2, <1>7, <3>2 DEF Sum, NumberIn, n, Relocated, Preferred
  <2>4. n \in Int
    <3>1. NumberAt(mem, Start, Width, Order) \in Nat
      BY <1>3, NumberIsNatural
    <3> QED
      BY <1>1, <3>1 DEF n, Relocated
  <2>5. \A k \in 1..Width : mem'[Start + k] = Digits(n, Width, Order)[k]
    <3> SUFFICES ASSUME NEW k \in 1..Width
                 PROVE  mem'[Start + k] = bytes[k]
      BY DEF bytes
    <3>1. Start + k \in Start + 1..Start + Width /\ (Start + k) - Start = k
      BY <1>3, <1>5
    <3> HIDE DEF e
    <3> QED
      BY <1>2, <2>2, <3>1
  <2>6. NumberAt(mem', Start, Width, Order) = n - Rounded(n, Radix^Width)
    BY <1>3, <2>4, <2>5, DigitsRead
  <2> HIDE DEF e
  <2>7. NumberIn(mem', image, w) = n - Rounded(n, Radix^Width)
    BY <1>2, <1>7, <2>6 DEF NumberIn
  <2> QED
    BY <2>1, <2>3, <2>7
<1> HIDE DEF e
<1>8. \A w : Isolated(image, w) =>
          /\ Processed(w)' =>
                 NumberIn(mem', image, w)
                     = Sum(image, w, base) - Rounded(Sum(image, w, base), Radix^Width)
          /\ ~(Processed(w)') => \A p \in Named(image, w) : mem'[p] = Loaded(image)[p]
  <2> SUFFICES ASSUME NEW w, Isolated(image, w)
               PROVE  /\ Processed(w)' =>
                             NumberIn(mem', image, w)
                                 = Sum(image, w, base)
                                       - Rounded(Sum(image, w, base), Radix^Width)
                      /\ ~(Processed(w)') =>
                             \A p \in Named(image, w) : mem'[p] = Loaded(image)[p]
    OBVIOUS
  <2>1. CASE w = e
    BY <1>7, <2>1
  <2>2. CASE w # e
    BY <1>4, <1>6, <2>2
  <2> QED
    BY <2>1, <2>2
<1>9. image' = image /\ base' = base
  BY <1>1
<1>10. \A w : Isolated(image', w) =>
           /\ Processed(w)' =>
                  NumberIn(mem', image', w)
                      = Sum(image', w, base') - Rounded(Sum(image', w, base'), Radix^Width)
           /\ ~(Processed(w)') => \A p \in Named(image', w) : mem'[p] = Loaded(image')[p]
  BY <1>8, <1>9
<1> QED
  BY <1>10 DEF PointersInv

(* Every step.                                                               *)
LEMMA PointersNext == IInv /\ PointersInv /\ [Next]_vars => PointersInv'
<1> SUFFICES ASSUME IInv, PointersInv, [Next]_vars PROVE PointersInv'
  OBVIOUS
<1>1. CASE Allocate \/ SkipSegment \/ PlaceSegment
  BY <1>1, PointersStart
<1>2. CASE WriteHeaders
  BY <1>2, PointersLoaded
<1>3. CASE ParseTables \/ SkipEntry \/ OverflowingEntry \/ NextTable \/ Finish
  BY <1>3, PointersPassed
<1>4. CASE ApplyEntry
  BY <1>4, PointersApplied
<1>5. CASE Returned \/ UNCHANGED vars
  <2>1. UNCHANGED <<image, base, mem>> /\ pc' = pc /\ table' = table /\ index' = index
    BY <1>5 DEF Returned, vars
  <2>2. ASSUME NEW w PROVE Processed(w)' <=> Processed(w)
    BY <2>1 DEF Processed
  <2> QED
    BY <2>1, <2>2, PointersKept DEF Filled
<1> QED
  BY <1>1, <1>2, <1>3, <1>4, <1>5 DEF Next

(* What the call leaves is the sum with the distance, but for a multiple of  *)
(* the word's range.                                                         *)
LEMMA PointersShiftOnceHolds ==
    IInv /\ PointersInv => PointersShiftOnce
<1> SUFFICES ASSUME IInv, PointersInv, pc = "done"
             PROVE  PointersShiftOnce
  BY DEF PointersShiftOnce
<1> DEFINE n == ImageSpan(image.segments)
<1>1. Placeable(image) /\ base \in Nat /\ Len(mem) = n /\ n \in Nat /\ Preferred \in Nat
  BY ImageFacts DEF IInv, TypeInv, Filling, Preferred
<1>2. ASSUME NEW p \in 1..Len(mem),
             base = Preferred \/ (\A w \in RelativeEntries(image) : p \notin WordAt(image, w))
      PROVE  mem[p] = Loaded(image)[p]
  BY <1>1, <1>2 DEF IInv, RestIsLoaded, Filled, Unnamed
<1>3. \A w : WordAt(image, w) = Named(image, w)
  BY <1>1 DEF WordAt, Named, WordStart
<1>4. ASSUME base # Preferred, NEW w \in RelativeEntries(image), WordAt(image, w) # {},
             \A v \in RelativeEntries(image) \ {w} : WordAt(image, v) \cap WordAt(image, w) = {}
      PROVE  (NumberAt(mem, OffsetOf(image, w) - Preferred, Width, Order) + Preferred - base
                  - NumberAt(Loaded(image), OffsetOf(image, w) - Preferred, Width, Order))
                 % Radix^Width = 0
  <2> DEFINE x == NumberIn(mem, image, w)
             y == NumberIn(Loaded(image), image, w)
             s == Sum(image, w, base)
             m == Radix^Width
  <2>1. x = s - Rounded(s, m)
    <3>1. Isolated(image, w)
      BY <1>3, <1>4 DEF Isolated
    <3> QED
      BY <1>4, <3>1 DEF PointersInv, Filled, Processed
  <2>2. Width \in 0..(2 * Word) /\ Width \in Nat
    <3>1. Word \in Nat
      BY TablesAssumption DEF Word
    <3> QED
      BY <3>1, MappedAssumption
  <2>3. m \in Nat \ {0}
    BY <2>2, TablesAssumption
  <2>4. y \in Nat
    BY <2>2, NumberIsNatural DEF NumberIn
  <2>5. s = y + base - Preferred
    BY DEF Sum, Preferred
  <2>6. s \in Int
    BY <1>1, <2>4, <2>5
  <2> HIDE DEF x, y, s, m
  <2>7. PICK q \in Int : Rounded(s, m) = m * q
    <3>1. s \div m \in Int
      BY <2>3, <2>6, IntDivMod
    <3> QED
      BY <3>1 DEF Rounded
  <2>8. m * q \in Int /\ m * (-q) = -(m * q) /\ -q \in Int
    BY <2>3, SMTT(30)
  <2>9. x + Preferred - base - y = m * (-q)
    BY <1>1, <2>1, <2>4, <2>5, <2>7, <2>8
  <2>10. (m * (-q)) % m = 0
    BY <2>3, <2>8, MultipleMod
  <2>11. (x + Preferred - base - y) % m = 0
    BY <2>9, <2>10
  <2> QED
    BY <2>11 DEF x, y, m, NumberIn, WordStart, Preferred
<1> QED
  BY <1>2, <1>4 DEF PointersShiftOnce

(* Rebasing adds the distance between the bases to each pointer, once and    *)
(* with all its carries, and leaves every other byte, for images, bases and  *)
(* tables of any size (build.rs:203-240).                                    *)
THEOREM PointersShift == Spec => []PointersShiftOnce
<1>1. Init => IInv /\ PointersInv
  BY InitInv, PointersStart
<1>2. IInv /\ PointersInv /\ [Next]_vars => (IInv /\ PointersInv)'
  BY NextInv, PointersNext
<1>3. IInv /\ PointersInv => PointersShiftOnce
  BY PointersShiftOnceHolds
<1> QED
  BY <1>1, <1>2, <1>3, PTL DEF Spec

-----------------------------------------------------------------------------
(* Reading a mapped image back.                                              *)

(* The memory m starts with the headers of im.                               *)
StartsWith(m, im) ==
    /\ Placeable(im) /\ Len(im.segments) <= U16Max
    /\ Len(m) = ImageSpan(im.segments) /\ HeadersEnd(im) <= Len(m) /\ Len(m) <= MaxImage
    /\ \A p \in 1..HeadersEnd(im) : m[p] = HeaderBytes(im)[p]

(* It holds the ELF header and the table of program headers.                 *)
LEMMA HeadersHeld ==
    ASSUME NEW m, NEW im, StartsWith(m, im)
    PROVE  LET records == [i \in 1..Len(im.segments) |-> im.segments[i].header]
           IN  /\ MappedHeader(im) \in ElfHeader /\ records \in Seq(Phdr)
               /\ Len(records) = Len(im.segments)
               /\ HoldsAt(m, 0, Encoded(MappedHeader(im), EhSize))
               /\ HoldsAt(m, EhSize, EncodedTable(records, PhEntSize))
               /\ records # <<>> => PhEntSize <= MaxImage
<1> DEFINE n       == Len(im.segments)
           records == [i \in 1..n |-> im.segments[i].header]
           first   == Encoded(MappedHeader(im), EhSize)
           rest    == EncodedTable(records, PhEntSize)
<1>1. n \in Nat /\ \A i \in 1..n : im.segments[i].header \in Phdr
  BY ImageFacts DEF StartsWith
<1>2. records \in [1..n -> Phdr]
  BY <1>1
<1>3. records \in Seq(Phdr) /\ Len(records) = n
  <2> HIDE DEF records
  <2> QED
    BY <1>1, <1>2
<1>4. MappedHeader(im) \in ElfHeader
  <2>1. im.header \in ElfHeader
    BY ImageFacts DEF StartsWith
  <2>2. n \in 0..U16Max /\ EhSize \in Nat
    BY <1>1, FormatAssumption DEF StartsWith
  <2>3. MappedHeader(im) = [im.header EXCEPT !.phoff = EhSize, !.phnum = n]
    BY <2>2 DEF MappedHeader, StartsWith
  <2> HIDE DEF n
  <2> QED
    BY <2>1, <2>2, <2>3 DEF ElfHeader
<1>5. first \in Seq(Byte) /\ Len(first) = EhSize
  BY HeaderParts DEF StartsWith
<1>6. rest \in Seq(Byte) /\ Len(rest) = PhEntSize * n /\ PhEntSize * n \in Nat
  BY HeaderParts DEF StartsWith
<1>7. HeaderBytes(im) = first \o rest
  BY DEF HeaderBytes
<1>8. HeadersEnd(im) = EhSize + (PhEntSize * n)
  BY DEF HeadersEnd
<1>9. /\ EhSize \in Nat /\ EhSize + (PhEntSize * n) <= Len(m) /\ Len(m) <= MaxImage
      /\ Len(m) \in Nat /\ MaxImage \in Nat
      /\ \A p \in 1..EhSize + (PhEntSize * n) : m[p] = (first \o rest)[p]
  <2>1. Len(m) \in Nat
    BY ImageFacts DEF StartsWith
  <2> QED
    BY <1>7, <1>8, <2>1, FormatAssumption DEF StartsWith
<1>10. HoldsAt(m, 0, first) /\ HoldsAt(m, EhSize, rest)
  <2> DEFINE t == PhEntSize * n
  <2>1. t \in Nat /\ Len(rest) = t /\ EhSize + t <= Len(m) /\ EhSize \in Nat
        /\ \A p \in 1..EhSize + t : m[p] = (first \o rest)[p]
    BY <1>6, <1>9
  <2> HIDE DEF t, first, rest
  <2>2. \A k \in 1..EhSize : (first \o rest)[k] = first[k]
    BY <1>5, <1>6
  <2>3. \A k \in 1..t : (first \o rest)[EhSize + k] = rest[k]
    BY <1>5, <1>6, <2>1
  <2>4. \A k \in 1..EhSize : k \in 1..EhSize + t /\ 0 + k = k
    BY <2>1
  <2>5. \A k \in 1..t : EhSize + k \in 1..EhSize + t
    BY <2>1
  <2>6. HoldsAt(m, 0, first)
    <3>1. 0 + Len(first) <= Len(m)
      BY <1>5, <1>9, <2>1
    <3>2. \A k \in 1..Len(first) : m[0 + k] = first[k]
      BY <1>5, <2>1, <2>2, <2>4
    <3> QED
      BY <3>1, <3>2 DEF HoldsAt
  <2>7. HoldsAt(m, EhSize, rest)
    <3>1. EhSize + Len(rest) <= Len(m)
      BY <2>1
    <3>2. \A k \in 1..Len(rest) : m[EhSize + k] = rest[k]
      BY <2>1, <2>3, <2>5
    <3> QED
      BY <3>1, <3>2 DEF HoldsAt
  <2> QED
    BY <2>6, <2>7
<1>11. records # <<>> => PhEntSize <= MaxImage
  <2> SUFFICES ASSUME records # <<>> PROVE PhEntSize <= MaxImage
    OBVIOUS
  <2>1. n # 0
    <3> HIDE DEF records, n
    <3> QED
      BY <1>3
  <2>2. PICK d \in Nat : n = d + 1
    <3>1. n - 1 \in Nat /\ n = (n - 1) + 1
      BY <1>1, <2>1
    <3> QED
      BY <3>1
  <2> HIDE DEF n
  <2>3. PhEntSize * n = PhEntSize * d + PhEntSize /\ PhEntSize * d \in Nat
    BY <2>2, FormatAssumption, SMTT(30)
  <2> DEFINE x == PhEntSize * n
             y == PhEntSize * d
  <2>4. x = y + PhEntSize /\ y \in Nat /\ EhSize + x <= Len(m) /\ x \in Nat
    BY <1>6, <1>9, <2>3
  <2> HIDE DEF x, y
  <2> QED
    BY <1>9, <2>4, FormatAssumption
<1> QED
  BY <1>3, <1>4, <1>10, <1>11

(* So they are read as they were written, and the base is the image's.       *)
LEMMA HeadersRead ==
    ASSUME NEW m, NEW im, StartsWith(m, im)
    PROVE  /\ Decodes(m, 0, EhSize) /\ Ehdr(m) = MappedHeader(im)
           /\ Ehdr(m).phnum = Len(im.segments) /\ Ehdr(m).phoff = EhSize
           /\ Ehdr(m) \in ElfHeader
           /\ DecodesTable(m, Ehdr(m).phoff, Ehdr(m).phnum, PhEntSize)
           /\ \A i \in 1..Len(im.segments) : ProgramHeaders(m)[i] = im.segments[i].header
           /\ MappedBase(m) = ImageBase(im.segments)
<1> DEFINE n       == Len(im.segments)
           records == [i \in 1..n |-> im.segments[i].header]
<1>1. /\ MappedHeader(im) \in ElfHeader /\ records \in Seq(Phdr) /\ Len(records) = n
      /\ HoldsAt(m, 0, Encoded(MappedHeader(im), EhSize))
      /\ HoldsAt(m, EhSize, EncodedTable(records, PhEntSize))
      /\ records # <<>> => PhEntSize <= MaxImage
  BY HeadersHeld
<1>2. Len(m) \in Nat /\ n \in Nat /\ im.header \in ElfHeader /\ n <= U16Max
  BY ImageFacts DEF StartsWith
<1>3. Decodes(m, 0, EhSize) /\ Ehdr(m) = MappedHeader(im)
  <2> DEFINE at == 0
             h  == MappedHeader(im)
  <2>1. at \in Nat /\ EhSize \in Nat \ {0} /\ EhSize <= MaxImage
        /\ h \in ElfHeader \cup Phdr \cup Shdr /\ HoldsAt(m, at, Encoded(h, EhSize))
    BY <1>1, FormatAssumption
  <2> HIDE DEF at, h
  <2>2. Decodes(m, at, EhSize) /\ DecodedAt(m, at) = h
    BY <1>2, <2>1, DecodesHeld
  <2> QED
    BY <2>2 DEF at, h, Ehdr
<1>4. Ehdr(m).phnum = n /\ Ehdr(m).phoff = EhSize
  <2>1. MappedHeader(im) = [im.header EXCEPT !.phoff = EhSize, !.phnum = n]
    BY <1>2 DEF MappedHeader
  <2> HIDE DEF n
  <2> QED
    BY <1>2, <1>3, <2>1 DEF ElfHeader
<1>5. /\ DecodesTable(m, EhSize, n, PhEntSize)
      /\ TableAt(m, EhSize, n, PhEntSize) = records
  <2>1. EhSize \in Nat /\ PhEntSize \in Nat \ {0}
    BY FormatAssumption
  <2> HIDE DEF records, n
  <2>2. /\ DecodesTable(m, EhSize, Len(records), PhEntSize)
        /\ TableAt(m, EhSize, Len(records), PhEntSize) = records
    BY <1>1, <1>2, <2>1, TableHeld
  <2> QED
    BY <1>1, <2>2
<1>6. ProgramHeaders(m) = records
  BY <1>4, <1>5 DEF ProgramHeaders
<1>7. \A i \in 1..n : ProgramHeaders(m)[i] = im.segments[i].header
  BY <1>6
<1>8. MappedBase(m) = ImageBase(im.segments)
  <2>1. {h \in {ProgramHeaders(m)[i] : i \in 1..Ehdr(m).phnum} : h.type = "LOAD" /\ h.memsz # 0}
        = LoadRecords(im.segments)
    BY <1>4, <1>7 DEF LoadRecords, IsLoad
  <2> QED
    BY <2>1 DEF MappedBase, ImageBase
<1> QED
  BY <1>1, <1>3, <1>4, <1>5, <1>7, <1>8

(* The image read has the segments' headers, so the same place in memory.    *)
LEMMA ParsedFacts ==
    ASSUME NEW m, NEW im, StartsWith(m, im), NEW headers
    PROVE  LET new == ParsedMapped(m, headers)
           IN  /\ new.header = MappedHeader(im) /\ MappedHeader(new) = MappedHeader(im)
               /\ Len(new.segments) = Len(im.segments)
               /\ \A i \in 1..Len(im.segments) :
                      /\ new.segments[i].header = im.segments[i].header
                      /\ new.segments[i].data =
                             IF MappedEmpty(im.segments[i].header) THEN <<>>
                             ELSE Lenient(m, SatSub(im.segments[i].header.vaddr,
                                                    ImageBase(im.segments)),
                                          MappedLength(im.segments[i].header))
               /\ LoadRecords(new.segments) = LoadRecords(im.segments)
               /\ ImageBase(new.segments) = ImageBase(im.segments)
               /\ ImageSpan(new.segments) = ImageSpan(im.segments)
               /\ HeaderBytes(new) = HeaderBytes(im) /\ HeadersEnd(new) = HeadersEnd(im)
<1> DEFINE n    == Len(im.segments)
           new  == ParsedMapped(m, headers)
           read == [i \in 1..n |->
                       [header |-> im.segments[i].header,
                        data   |-> IF MappedEmpty(im.segments[i].header) THEN <<>>
                                   ELSE Lenient(m, SatSub(im.segments[i].header.vaddr,
                                                          ImageBase(im.segments)),
                                                MappedLength(im.segments[i].header))]]
<1>1. /\ n \in Nat /\ n <= U16Max /\ im.header \in ElfHeader
      /\ EhSize \in Nat
  BY ImageFacts, FormatAssumption DEF StartsWith
<1>2. new.header = MappedHeader(im) /\ new.segments = read
  <2>1. /\ Ehdr(m) = MappedHeader(im) /\ Ehdr(m).phnum = n
        /\ \A i \in 1..n : ProgramHeaders(m)[i] = im.segments[i].header
        /\ MappedBase(m) = ImageBase(im.segments)
    BY HeadersRead
  <2>2. new.header = Ehdr(m)
    BY DEF ParsedMapped
  <2>3. new.segments = [i \in 1..n |->
                           ReadMappedSegment(m, ProgramHeaders(m)[i], MappedBase(m))]
    BY <2>1 DEF ParsedMapped
  <2>4. new.segments = read
    BY <2>1, <2>3 DEF ReadMappedSegment
  <2> QED
    BY <2>1, <2>2, <2>4
<1>3. Len(read) = n
  <2>1. read = [i \in 1..n |-> read[i]]
    OBVIOUS
  <2> HIDE DEF read, n
  <2> QED
    BY <1>1, <2>1, MadeSequence
<1>4. \A i \in 1..n : /\ read[i].header = im.segments[i].header
                      /\ read[i].data =
                             IF MappedEmpty(im.segments[i].header) THEN <<>>
                             ELSE Lenient(m, SatSub(im.segments[i].header.vaddr,
                                                    ImageBase(im.segments)),
                                          MappedLength(im.segments[i].header))
  OBVIOUS
<1> HIDE DEF read, new
<1>5. LoadRecords(new.segments) = LoadRecords(im.segments)
  BY <1>2, <1>3, <1>4 DEF LoadRecords, IsLoad
<1>6. /\ ImageBase(new.segments) = ImageBase(im.segments)
      /\ ImageSpan(new.segments) = ImageSpan(im.segments)
  BY <1>5 DEF ImageBase, ImageSpan
<1>7. MappedHeader(new) = MappedHeader(im)
  <2> DEFINE h == im.header
             c == IF n <= U16Max THEN n ELSE 0
  <2>1. /\ MappedHeader(im) = [h EXCEPT !.phoff = EhSize, !.phnum = c]
        /\ MappedHeader(new) =
               [[h EXCEPT !.phoff = EhSize, !.phnum = c] EXCEPT !.phoff = EhSize, !.phnum = c]
    BY <1>2, <1>3 DEF MappedHeader
  <2> HIDE DEF h, c
  <2> QED
    BY <2>1
<1>8. HeaderBytes(new) = HeaderBytes(im) /\ HeadersEnd(new) = HeadersEnd(im)
  <2>1. [i \in 1..Len(new.segments) |-> new.segments[i].header]
            = [i \in 1..Len(im.segments) |-> im.segments[i].header]
    BY <1>2, <1>3, <1>4
  <2>2. HeaderBytes(new) = HeaderBytes(im)
    BY <1>7, <2>1 DEF HeaderBytes
  <2>3. HeadersEnd(new) = HeadersEnd(im)
    BY <1>2, <1>3 DEF HeadersEnd
  <2> QED
    BY <2>2, <2>3
<1> QED
  BY <1>2, <1>3, <1>4, <1>5, <1>6, <1>7, <1>8 DEF new

(* The segments read have the memory of their addresses.                     *)
LEMMA ParsedBytes ==
    ASSUME NEW m, NEW im, StartsWith(m, im), NEW headers, NEW i \in 1..Len(im.segments),
           IsLoad(im.segments[i])
    PROVE  LET new   == ParsedMapped(m, headers)
               start == im.segments[i].header.vaddr - ImageBase(im.segments)
           IN  \A p \in 1..Len(m) :
                  /\ i \in PlacedAt(new, p)
                         <=> start < p /\ p <= start + im.segments[i].header.memsz
                  /\ i \in PlacedAt(new, p) => ByteOf(new, i, p) = m[p]
<1> DEFINE new   == ParsedMapped(m, headers)
           h     == im.segments[i].header
           start == h.vaddr - ImageBase(im.segments)
           data  == new.segments[i].data
<1>1. /\ Len(new.segments) = Len(im.segments)
      /\ new.segments[i].header = h
      /\ data = IF MappedEmpty(h) THEN <<>>
                ELSE Lenient(m, SatSub(h.vaddr, ImageBase(im.segments)), MappedLength(h))
      /\ ImageBase(new.segments) = ImageBase(im.segments)
  BY ParsedFacts
<1>2. /\ Placeable(im) /\ h \in Phdr /\ Len(m) \in Nat
      /\ h.vaddr \in Nat /\ h.memsz \in Nat /\ h.type = "LOAD"
      /\ ImageBase(im.segments) \in Nat
  <2>1. Placeable(im) /\ h \in Phdr /\ Len(m) \in Nat /\ ImageBase(im.segments) \in Nat
    BY ImageFacts DEF StartsWith
  <2> QED
    BY <2>1, U64MaxAssumption DEF Phdr, U64, IsLoad
<1>3. i \in {j \in 1..Len(new.segments) : IsLoad(new.segments[j])}
      /\ new.segments[i].header.vaddr - ImageBase(new.segments) = start
  BY <1>1 DEF IsLoad
<1>4. MappedLength(h) = h.memsz /\ (MappedEmpty(h) <=> h.memsz = 0)
  BY <1>2 DEF MappedLength, MappedEmpty
<1>5. h.memsz # 0 => start \in Nat
  <2> SUFFICES ASSUME h.memsz # 0 PROVE start \in Nat
    OBVIOUS
  <2>1. h \in LoadRecords(im.segments)
    BY <1>2 DEF LoadRecords
  <2>2. ImageBase(im.segments) <= h.vaddr
    BY <1>2, <2>1, ImageFacts
  <2> QED
    BY <1>2, <2>2
<1>6. start \in Int
  BY <1>2
<1>7. CASE h.memsz = 0
  <2>1. data = <<>>
    BY <1>1, <1>4, <1>7
  <2>2. Len(data) = 0
    BY <2>1
  <2>3. \A p \in 1..Len(m) : i \notin PlacedAt(new, p)
    <3> SUFFICES ASSUME NEW p \in 1..Len(m), i \in PlacedAt(new, p) PROVE FALSE
      OBVIOUS
    <3>1. start < p /\ p <= start + Len(data)
      BY <1>3 DEF PlacedAt
    <3> HIDE DEF start, data
    <3> QED
      BY <1>6, <2>2, <3>1
  <2>4. \A p \in 1..Len(m) : ~(start < p /\ p <= start + h.memsz)
    <3> HIDE DEF start
    <3> QED
      BY <1>6, <1>7
  <2> QED
    BY <2>3, <2>4
<1>8. CASE h.memsz # 0
  <2>1. data = Lenient(m, start, h.memsz)
    <3>1. SatSub(h.vaddr, ImageBase(im.segments)) = start
      BY <1>2, <1>5, <1>8 DEF SatSub
    <3> QED
      BY <1>1, <1>4, <1>8, <3>1
  <2>2. /\ Len(data) = h.memsz
        /\ \A k \in 1..h.memsz : data[k] = IF start + k <= Len(m) THEN m[start + k] ELSE Zero
    <3>1. data = [k \in 1..h.memsz |-> data[k]]
      BY <2>1 DEF Lenient
    <3>2. \A k \in 1..h.memsz : data[k] = IF start + k <= Len(m) THEN m[start + k] ELSE Zero
      BY <2>1 DEF Lenient
    <3> HIDE DEF data, start
    <3>3. Len(data) = h.memsz
      BY <1>2, <3>1, MadeSequence
    <3> QED
      BY <3>2, <3>3
  <2> SUFFICES ASSUME NEW p \in 1..Len(m)
               PROVE  /\ i \in PlacedAt(new, p) <=> start < p /\ p <= start + h.memsz
                      /\ i \in PlacedAt(new, p) => ByteOf(new, i, p) = m[p]
    OBVIOUS
  <2>3. i \in PlacedAt(new, p) <=> start < p /\ p <= start + h.memsz
    <3>1. i \in PlacedAt(new, p) <=> (start >= 0 /\ start < p /\ p <= start + Len(data))
      BY <1>3 DEF PlacedAt
    <3> HIDE DEF start, data
    <3> QED
      BY <1>5, <1>8, <2>2, <3>1
  <2>4. ASSUME i \in PlacedAt(new, p) PROVE ByteOf(new, i, p) = m[p]
    <3>1. ByteOf(new, i, p) = data[p - start]
      BY <1>3 DEF ByteOf
    <3> HIDE DEF data, start
    <3>2. p - start \in 1..h.memsz /\ start + (p - start) = p /\ start \in Nat
      BY <1>2, <1>5, <1>8, <2>3, <2>4
    <3>3. data[p - start] = IF start + (p - start) <= Len(m) THEN m[start + (p - start)]
                            ELSE Zero
      BY <2>2, <3>2
    <3> QED
      BY <1>2, <3>1, <3>2, <3>3
  <2> QED
    BY <2>3, <2>4
<1> QED
  BY <1>7, <1>8

(* Where no segment has memory, m has zeros.                                 *)
ZerosBetween(m, im) ==
    \A p \in HeadersEnd(im) + 1..Len(m) :
        (\A i \in 1..Len(im.segments) :
            LET start == im.segments[i].header.vaddr - ImageBase(im.segments)
            IN  IsLoad(im.segments[i])
                    => ~(start < p /\ p <= start + im.segments[i].header.memsz))
        => m[p] = Zero

(* Then the image read from it maps to it again.                             *)
LEMMA LoadedAgain ==
    ASSUME NEW m, NEW im, StartsWith(m, im), NEW headers, ZerosBetween(m, im),
           m = [p \in 1..Len(m) |-> m[p]]
    PROVE  Loaded(ParsedMapped(m, headers)) = m
<1> DEFINE new == ParsedMapped(m, headers)
           n   == Len(im.segments)
<1>1. /\ Len(new.segments) = n
      /\ \A i \in 1..n : new.segments[i].header = im.segments[i].header
      /\ ImageBase(new.segments) = ImageBase(im.segments)
      /\ ImageSpan(new.segments) = Len(m)
      /\ HeaderBytes(new) = HeaderBytes(im)
  BY ParsedFacts DEF StartsWith
<1>2. /\ Placeable(im) /\ Len(m) \in Nat /\ n \in Nat
      /\ Len(HeaderBytes(im)) = HeadersEnd(im) /\ HeadersEnd(im) \in Nat
      /\ \A p \in 1..HeadersEnd(im) : m[p] = HeaderBytes(im)[p]
  BY ImageFacts, HeaderLength DEF StartsWith
<1>3. \A i \in 1..n : IsLoad(im.segments[i]) =>
          LET start == im.segments[i].header.vaddr - ImageBase(im.segments)
          IN  \A p \in 1..Len(m) :
                 /\ i \in PlacedAt(new, p)
                        <=> start < p /\ p <= start + im.segments[i].header.memsz
                 /\ i \in PlacedAt(new, p) => ByteOf(new, i, p) = m[p]
  BY ParsedBytes
<1>4. \A i, p : i \in PlacedAt(new, p) => i \in 1..n /\ IsLoad(im.segments[i])
  BY <1>1 DEF PlacedAt, IsLoad
<1> HIDE DEF new, n
<1>5. ASSUME NEW p \in 1..Len(m) PROVE Loaded(new)[p] = m[p]
  <2>1. Loaded(new)[p] = IF p <= HeadersEnd(im) THEN HeaderBytes(im)[p]
                         ELSE LastByte(new, PlacedAt(new, p), p)
    BY <1>1, <1>2 DEF Loaded, LastByte, ByteOf
  <2>2. CASE p <= HeadersEnd(im)
    BY <1>2, <2>1, <2>2
  <2>3. CASE ~(p <= HeadersEnd(im)) /\ PlacedAt(new, p) = {}
    <3>1. p \in HeadersEnd(im) + 1..Len(m)
      BY <1>2, <2>3
    <3>2. m[p] = Zero
      BY <1>3, <2>3, <3>1 DEF ZerosBetween, n
    <3> QED
      BY <2>1, <2>3, <3>2 DEF LastByte
  <2>4. CASE ~(p <= HeadersEnd(im)) /\ PlacedAt(new, p) # {}
    <3>1. PlacedAt(new, p) \in SUBSET (1..n)
      BY <1>4
    <3>2. Greatest(PlacedAt(new, p)) \in PlacedAt(new, p)
      <4>1. PlacedAt(new, p) \in SUBSET (0..n)
        BY <3>1
      <4> QED
        BY <1>2, <2>4, <4>1, GreatestBelow
    <3>3. ByteOf(new, Greatest(PlacedAt(new, p)), p) = m[p]
      BY <1>3, <1>4, <3>2
    <3> QED
      BY <2>1, <2>4, <3>3 DEF LastByte
  <2> QED
    BY <2>2, <2>3, <2>4
<1>6. Loaded(new) = [p \in 1..Len(m) |-> Loaded(new)[p]]
  BY <1>1 DEF Loaded
<1>7. Loaded(new) = m
  <2> DEFINE l == Loaded(new)
  <2> HIDE DEF l
  <2>1. l = [p \in 1..Len(m) |-> l[p]] /\ \A p \in 1..Len(m) : l[p] = m[p]
    BY <1>5, <1>6 DEF l
  <2> QED
    BY <2>1 DEF l
<1> QED
  BY <1>7 DEF new

(* The memory is a sequence, from the first action to the last.              *)
MemoryInv == Filling => mem = [p \in 1..ImageSpan(image.segments) |-> mem[p]]

(* Every action that writes the memory makes one of the same length.         *)
LEMMA MemoryNext ==
    IInv /\ MemoryInv /\ [Next]_vars => MemoryInv'
<1> SUFFICES ASSUME IInv, MemoryInv, [Next]_vars, Filling' PROVE MemoryInv'
  BY DEF MemoryInv
<1> DEFINE n == ImageSpan(image.segments)
<1>1. image' = image
  BY DEF Next, vars, Allocate, SkipSegment, PlaceSegment, WriteHeaders, ParseTables,
         SkipEntry, OverflowingEntry, ApplyEntry, NextTable, Finish, Returned
<1>2. CASE Allocate
  <2>1. mem' = Zeros(n)
    BY <1>2 DEF Allocate, Filling
  <2>2. mem' = [p \in 1..n |-> mem'[p]]
    BY <2>1 DEF Zeros
  <2> QED
    BY <1>1, <2>2 DEF MemoryInv
<1>3. CASE ~Allocate
  <2>1. Filling
    BY <1>3
    DEF Next, vars, SkipSegment, PlaceSegment, WriteHeaders, ParseTables, AtEntry,
        SkipEntry, OverflowingEntry, ApplyEntry, NextTable, Finish, Returned, Filling
  <2>2. mem = [p \in 1..n |-> mem[p]] /\ Len(mem) = n
    BY <2>1 DEF MemoryInv, IInv, TypeInv
  <2>3. mem' = mem \/ \E start, bytes : mem' = Overlaid(mem, start, bytes)
    BY <1>3
    DEF Next, vars, SkipSegment, PlaceSegment, WriteHeaders, ParseTables,
        SkipEntry, OverflowingEntry, ApplyEntry, NextTable, Finish, Returned
  <2>4. ASSUME NEW start, NEW bytes, mem' = Overlaid(mem, start, bytes)
        PROVE  mem' = [p \in 1..n |-> mem'[p]]
    <3> HIDE DEF n
    <3> QED
      BY <2>2, <2>4 DEF Overlaid
  <2>5. mem' = [p \in 1..n |-> mem'[p]]
    <3> HIDE DEF n
    <3> QED
      BY <2>2, <2>3, <2>4
  <2> QED
    BY <1>1, <2>5 DEF MemoryInv
<1> QED
  BY <1>2, <1>3

(* Relocations in segments leave the headers and the gaps as they are        *)
(* loaded.                                                                   *)
LEMMA FinishedMemory ==
    ASSUME IInv, pc = "done", Mappable(image)
    PROVE  StartsWith(mem, image) /\ ZerosBetween(mem, image)
<1> DEFINE n == Len(image.segments)
<1>1. /\ Placeable(image) /\ Len(mem) = ImageSpan(image.segments) /\ Len(mem) \in Nat
      /\ Len(mem) <= MaxImage
      /\ Len(HeaderBytes(image)) = HeadersEnd(image) /\ HeadersEnd(image) \in Nat
      /\ n \in Nat
  BY ImageFacts, HeaderLength DEF IInv, TypeInv, Filling
<1>2. ASSUME NEW p \in 1..Len(mem), \A w \in RelativeEntries(image) : p \notin WordAt(image, w)
      PROVE  mem[p] = Loaded(image)[p]
  BY <1>1, <1>2 DEF IInv, RestIsLoaded, Filled, Unnamed
<1>3. ASSUME NEW p \in 1..HeadersEnd(image)
      PROVE  mem[p] = HeaderBytes(image)[p]
  <2>1. p \in 1..Len(mem)
    BY <1>1 DEF Mappable
  <2>2. Loaded(image)[p] = HeaderBytes(image)[p]
    BY <1>1, <2>1 DEF Loaded
  <2>3. ASSUME NEW w \in RelativeEntries(image), p \in WordAt(image, w) PROVE FALSE
    BY <2>3 DEF Mappable
  <2> QED
    BY <1>2, <2>1, <2>2, <2>3
<1>4. StartsWith(mem, image)
  BY <1>1, <1>3 DEF StartsWith, Mappable
<1>5. ASSUME NEW p \in HeadersEnd(image) + 1..Len(mem),
             \A i \in 1..n :
                 LET start == image.segments[i].header.vaddr - ImageBase(image.segments)
                 IN  IsLoad(image.segments[i])
                        => ~(start < p /\ p <= start + image.segments[i].header.memsz)
      PROVE  mem[p] = Zero
  <2>1. p \in 1..Len(mem) /\ ~(p <= HeadersEnd(image))
    BY <1>1
  <2>2. \A w \in RelativeEntries(image) : p \notin WordAt(image, w)
    BY <1>5 DEF Mappable, InSegments
  <2>3. PlacedAt(image, p) = {}
    <3> SUFFICES ASSUME NEW i \in PlacedAt(image, p) PROVE FALSE
      OBVIOUS
    <3> DEFINE start == image.segments[i].header.vaddr - ImageBase(image.segments)
               size  == Len(image.segments[i].data)
               memsz == image.segments[i].header.memsz
    <3>1. i \in 1..n /\ IsLoad(image.segments[i]) /\ start < p /\ p <= start + size
      BY DEF PlacedAt
    <3>2. size <= memsz /\ image.segments[i].header \in Phdr /\ size \in Nat
          /\ image.segments[i].header.vaddr \in Nat /\ ImageBase(image.segments) \in Nat
      BY <1>1, <3>1, ImageFacts DEF Mappable
    <3>3. memsz \in Nat /\ start \in Int
      BY <3>2, U64MaxAssumption DEF Phdr, U64
    <3>4. ~(start < p /\ p <= start + memsz)
      BY <1>5, <3>1
    <3> HIDE DEF start, size, memsz
    <3> QED
      BY <1>1, <3>1, <3>2, <3>3, <3>4
  <2>4. Loaded(image)[p] = Zero
    BY <1>1, <2>1, <2>3 DEF Loaded
  <2> QED
    BY <1>2, <2>1, <2>2, <2>4
<1> QED
  BY <1>4, <1>5 DEF ZerosBetween

(* So it is parsed, and what is read maps to the same memory.                *)
LEMMA MappedAgain ==
    ASSUME NEW m, NEW im, StartsWith(m, im), ZerosBetween(m, im), Mappable(im),
           m = [p \in 1..Len(m) |-> m[p]], NEW headers
    PROVE  MappedParses(m) /\ Loaded(ParsedMapped(m, headers)) = m
<1>1. /\ Decodes(m, 0, EhSize)
      /\ Ehdr(m).phnum = Len(im.segments)
      /\ DecodesTable(m, Ehdr(m).phoff, Ehdr(m).phnum, PhEntSize)
      /\ \A i \in 1..Len(im.segments) : ProgramHeaders(m)[i] = im.segments[i].header
  BY HeadersRead
<1>2. ASSUME NEW i \in 1..Len(im.segments)
      PROVE  MappedLength(ProgramHeaders(m)[i]) <= Minimum(Len(m), MaxImage)
  <2>1. MappedLength(im.segments[i].header) <= Len(m) /\ Len(m) <= MaxImage
    BY DEF Mappable, StartsWith
  <2>2. Len(m) \in Nat /\ MaxImage \in Nat
    BY ImageFacts, FormatAssumption DEF StartsWith
  <2>3. Minimum(Len(m), MaxImage) = Len(m)
    BY <2>1, <2>2 DEF Minimum
  <2> QED
    BY <1>1, <2>1, <2>3
<1>3. MappedParses(m)
  BY <1>1, <1>2 DEF MappedParses
<1> QED
  BY <1>3, LoadedAgain

(* What a call leaves reads back as an image of the same memory.             *)
LEMMA MappingIsStableHolds == IInv /\ MemoryInv => MappingIsStable
<1> SUFFICES ASSUME IInv, MemoryInv, pc = "done", Mappable(image)
             PROVE  MappedParses(mem) /\ Loaded(ParsedMapped(mem, <<>>)) = mem
  BY DEF MappingIsStable
<1>1. mem = [p \in 1..Len(mem) |-> mem[p]]
  BY DEF MemoryInv, Filling, IInv, TypeInv
<1> QED
  BY <1>1, FinishedMemory, MappedAgain

(* Mapping is stable: the memory can be read back as an image, and the image *)
(* read maps to the same memory, rebased or not (parse.rs:131-160,           *)
(* build.rs:141-194).                                                        *)
THEOREM MappedImagesAreStable == Spec => []MappingIsStable
<1>1. Init => IInv /\ MemoryInv
  BY InitInv DEF Init, MemoryInv, Filling
<1>2. IInv /\ MemoryInv /\ [Next]_vars => (IInv /\ MemoryInv)'
  BY NextInv, MemoryNext
<1> QED
  BY <1>1, <1>2, MappingIsStableHolds, PTL DEF Spec

-----------------------------------------------------------------------------
(* What is read back from any memory a call leaves.                          *)

(* The headers are in the memory, but for bytes a relocation has written,    *)
(* which are part of no record.                                              *)
HeadersInv ==
    Filled =>
        \A p \in 1..HeadersEnd(image) :
            p <= Len(mem) => mem[p] = HeaderBytes(image)[p] \/ \E d : mem[p] = <<d>>

(* The byte of a record is not a raw one.                                    *)
LEMMA RecordByte == \A r, k, d : <<r, k>> # <<d>>
OBVIOUS

(* WriteHeaders puts them there, and ApplyEntry writes raw bytes.            *)
LEMMA HeadersNext == IInv /\ HeadersInv /\ [Next]_vars => HeadersInv'
<1> SUFFICES ASSUME IInv, HeadersInv, [Next]_vars PROVE HeadersInv'
  OBVIOUS
<1>0. image' = image
  BY DEF Next, vars, Allocate, SkipSegment, PlaceSegment, WriteHeaders, ParseTables,
         SkipEntry, OverflowingEntry, ApplyEntry, NextTable, Finish, Returned
<1> SUFFICES ASSUME Filled', NEW p \in 1..HeadersEnd(image), p <= Len(mem')
             PROVE  mem'[p] = HeaderBytes(image)[p] \/ \E d : mem'[p] = <<d>>
  BY <1>0 DEF HeadersInv
<1>1. /\ Placeable(image) /\ ImageSpan(image.segments) \in Nat
      /\ Len(HeaderBytes(image)) = HeadersEnd(image) /\ HeadersEnd(image) \in Nat
  BY ImageFacts, HeaderLength DEF IInv, TypeInv
<1>2. CASE WriteHeaders
  <2>1. /\ Len(mem') = ImageSpan(image.segments)
        /\ \A q \in 1..ImageSpan(image.segments) : mem'[q] = Loaded(image)[q]
    BY <1>2, HeadersLoad
  <2>2. p \in 1..ImageSpan(image.segments)
    BY <1>1, <2>1
  <2>3. Loaded(image)[p] = HeaderBytes(image)[p]
    BY <1>1, <2>2 DEF Loaded
  <2> QED
    BY <2>1, <2>2, <2>3
<1>3. CASE ApplyEntry
  <2> DEFINE bytes == Digits(Relocated(NumberAt(mem, Start, Width, Order)), Width, Order)
  <2>1. /\ <<table, index>> \in RelativeEntries(image)
        /\ Start = WordStart(image, <<table, index>>) /\ Width \in Nat
        /\ Len(mem') = ImageSpan(image.segments)
        /\ \A q \in 1..ImageSpan(image.segments) :
               mem'[q] = IF q \in Start + 1..Start + Width THEN bytes[q - Start] ELSE mem[q]
    BY <1>3, WordWritten DEF WordStart
  <2>2. Start \in Int
    BY <1>1, <2>1, NamedFacts
  <2>3. p \in 1..ImageSpan(image.segments)
    BY <1>1, <2>1
  <2>4. Filled /\ Len(mem) = ImageSpan(image.segments)
    BY <1>3 DEF ApplyEntry, AtEntry, Filled, IInv, TypeInv, Filling
  <2>5. CASE p \in Start + 1..Start + Width
    <3>1. p - Start \in 1..Width /\ mem'[p] = bytes[p - Start]
      BY <2>1, <2>2, <2>3, <2>5
    <3>2. \A k \in 1..Width : \E d : bytes[k] = <<d>>
      BY DEF Digits
    <3> QED
      BY <3>1, <3>2
  <2>6. CASE p \notin Start + 1..Start + Width
    <3>1. mem'[p] = mem[p]
      BY <2>1, <2>3, <2>6
    <3>2. p <= Len(mem)
      BY <2>1, <2>4
    <3> QED
      BY <2>4, <3>1, <3>2 DEF HeadersInv
  <2> QED
    BY <2>5, <2>6
<1>4. CASE ~WriteHeaders /\ ~ApplyEntry
  <2>1. Filled /\ mem' = mem
    BY <1>4 DEF Next, vars, Allocate, SkipSegment, PlaceSegment, ParseTables, AtEntry,
                SkipEntry, OverflowingEntry, NextTable, Finish, Returned, Filled
  <2> QED
    BY <2>1 DEF HeadersInv
<1> QED
  BY <1>2, <1>3, <1>4

(* A byte that decodes is that of its record.                                *)
LEMMA DecodedByte ==
    ASSUME NEW m, NEW at, NEW size \in Nat \ {0}, Decodes(m, at, size)
    PROVE  /\ at + size <= Len(m)
           /\ \A k \in 1..size : m[at + k] = <<DecodedAt(m, at), k>>
<1> DEFINE e == Encoded(m[at + 1][1], size)
<1>1. HoldsAt(m, at, e) /\ at + size <= Len(m)
  BY DEF Decodes, Readable
<1>2. Len(e) = size
  <2>1. e = [k \in 1..size |-> e[k]]
    BY DEF Encoded
  <2> HIDE DEF e
  <2> QED
    BY <2>1, MadeSequence
<1>3. \A k \in 1..size : m[at + k] = e[k]
  BY <1>1, <1>2 DEF HoldsAt
<1>4. \A k \in 1..size : e[k] = <<DecodedAt(m, at), k>>
  BY DEF Encoded, DecodedAt
<1> QED
  BY <1>1, <1>3, <1>4

(* So a memory that parses has the headers that were written, all of them,   *)
(* unless there are more segments than the header can count.                 *)
LEMMA HeadersDecoded ==
    ASSUME IInv, HeadersInv, pc = "done", MappedParses(mem)
    PROVE  /\ Ehdr(mem) = MappedHeader(image)
           /\ Len(image.segments) <= U16Max => StartsWith(mem, image)
<1> DEFINE n       == Len(image.segments)
           records == [i \in 1..n |-> image.segments[i].header]
           first   == Encoded(MappedHeader(image), EhSize)
           rest    == EncodedTable(records, PhEntSize)
           t       == PhEntSize * n
<1>1. /\ Placeable(image) /\ n \in Nat /\ image.header \in ElfHeader
      /\ Len(mem) = ImageSpan(image.segments) /\ Len(mem) \in Nat /\ Len(mem) <= MaxImage
      /\ EhSize \in Nat \ {0} /\ PhEntSize \in Nat \ {0}
  BY ImageFacts, FormatAssumption DEF IInv, TypeInv, Filling
<1>2. HeadersEnd(image) = EhSize + t /\ t \in Nat /\ HeadersEnd(image) \in Nat
  BY <1>1, HeaderParts, HeaderLength DEF HeadersEnd
<1> HIDE DEF t
<1>3. \A p \in 1..HeadersEnd(image) :
          p <= Len(mem) => mem[p] = HeaderBytes(image)[p] \/ \E d : mem[p] = <<d>>
  BY DEF HeadersInv, Filled
<1>4. /\ EhSize <= Len(mem)
      /\ \A k \in 1..EhSize : mem[k] = <<Ehdr(mem), k>>
  <2> DEFINE at == 0
  <2>1. Decodes(mem, at, EhSize)
    BY DEF MappedParses
  <2> HIDE DEF at
  <2>2. at + EhSize <= Len(mem) /\ \A k \in 1..EhSize : mem[at + k] = <<DecodedAt(mem, at), k>>
    BY <1>1, <2>1, DecodedByte
  <2>3. \A k \in 1..EhSize : 0 + k = k
    OBVIOUS
  <2> QED
    BY <1>1, <2>2, <2>3 DEF at, Ehdr
<1>5. \A k \in 1..EhSize : mem[k] = HeaderBytes(image)[k]
  <2> TAKE k \in 1..EhSize
  <2>1. k \in 1..HeadersEnd(image) /\ k <= Len(mem)
    BY <1>1, <1>2, <1>4
  <2> QED
    BY <1>3, <1>4, <2>1, RecordByte
<1>6. Ehdr(mem) = MappedHeader(image)
  <2>1. /\ HeaderBytes(image) = first \o rest
        /\ first \in Seq(Byte) /\ Len(first) = EhSize /\ rest \in Seq(Byte)
    BY <1>1, HeaderParts
  <2>2. first[1] = <<MappedHeader(image), 1>>
    BY <1>1 DEF Encoded
  <2> HIDE DEF first, rest
  <2>3. HeaderBytes(image)[1] = first[1] /\ 1 \in 1..EhSize
    BY <1>1, <2>1
  <2>4. <<Ehdr(mem), 1>> = <<MappedHeader(image), 1>>
    BY <1>4, <1>5, <2>2, <2>3
  <2> QED
    BY <2>4
<1>7. ASSUME n <= U16Max PROVE StartsWith(mem, image)
  <2>1. Ehdr(mem).phnum = n /\ Ehdr(mem).phoff = EhSize
    <3>1. MappedHeader(image) = [image.header EXCEPT !.phoff = EhSize, !.phnum = n]
      BY <1>7 DEF MappedHeader
    <3> HIDE DEF n
    <3> QED
      BY <1>1, <1>6, <3>1 DEF ElfHeader
  <2>2. \A i \in 1..n : Decodes(mem, EhSize + (i - 1) * PhEntSize, PhEntSize)
    BY <2>1 DEF MappedParses, DecodesTable
  <2>3. ASSUME NEW p \in EhSize + 1..HeadersEnd(image)
        PROVE  p <= Len(mem) /\ mem[p] = HeaderBytes(image)[p]
    <3> DEFINE q == p - EhSize - 1
               i == (q \div PhEntSize) + 1
               k == (q % PhEntSize) + 1
               o == (i - 1) * PhEntSize
    <3>1. q \in 0..(t - 1) /\ p \in Nat
      BY <1>1, <1>2
    <3>2. q \div PhEntSize \in 0..(n - 1)
      BY <1>1, <3>1, DivBound DEF t
    <3>3. /\ q % PhEntSize \in 0..(PhEntSize - 1)
          /\ q = (PhEntSize * (q \div PhEntSize)) + (q % PhEntSize)
      BY <1>1, <3>1, DivMod
    <3>4. i \in 1..n /\ k \in 1..PhEntSize
      BY <1>1, <3>2, <3>3
    <3>5. q = o + (q % PhEntSize) /\ o \in Nat
      <4> DEFINE d == q \div PhEntSize
      <4>1. d \in Nat /\ (d + 1) - 1 = d
        BY <3>2
      <4> HIDE DEF d
      <4>2. d * PhEntSize = PhEntSize * d /\ d * PhEntSize \in Nat
        BY <1>1, <4>1, SMTT(30)
      <4> QED
        BY <3>3, <4>1, <4>2 DEF d
    <3>6. Decodes(mem, EhSize + o, PhEntSize)
      BY <2>2, <3>4
    <3> HIDE DEF o, i
    <3>7. p = (EhSize + o) + k
      BY <1>1, <3>1, <3>3, <3>5
    <3>8. /\ (EhSize + o) + PhEntSize <= Len(mem)
          /\ mem[(EhSize + o) + k] = <<DecodedAt(mem, EhSize + o), k>>
      BY <1>1, <3>4, <3>6, DecodedByte
    <3> HIDE DEF k, q
    <3> DEFINE x == EhSize + o
    <3>9. x \in Nat /\ x + PhEntSize <= Len(mem) /\ p = x + k
      BY <1>1, <3>5, <3>7, <3>8
    <3> HIDE DEF x
    <3>10. p <= Len(mem) /\ p \in 1..HeadersEnd(image)
      BY <1>1, <1>2, <3>1, <3>4, <3>9
    <3>11. mem[p] = <<DecodedAt(mem, EhSize + o), k>>
      BY <3>7, <3>8
    <3> QED
      BY <1>3, <3>10, <3>11, RecordByte
  <2>4. \A p \in 1..HeadersEnd(image) : mem[p] = HeaderBytes(image)[p]
    <3> TAKE p \in 1..HeadersEnd(image)
    <3>1. CASE p <= EhSize
      BY <1>1, <1>5, <3>1
    <3>2. CASE ~(p <= EhSize)
      BY <1>1, <1>2, <2>3, <3>2
    <3> QED
      BY <3>1, <3>2
  <2>5. HeadersEnd(image) <= Len(mem)
    <3>1. CASE t = 0
      BY <1>1, <1>2, <1>4, <3>1
    <3>2. CASE t # 0
      <4>1. HeadersEnd(image) \in EhSize + 1..HeadersEnd(image)
        BY <1>1, <1>2, <3>2
      <4> QED
        BY <2>3, <4>1
    <3> QED
      BY <3>1, <3>2
  <2> QED
    BY <1>1, <1>7, <2>4, <2>5 DEF StartsWith
<1> QED
  BY <1>6, <1>7

-----------------------------------------------------------------------------
(* The sections read.                                                        *)

(* The headers kept are among those given.                                   *)
LEMMA KeptAreGiven ==
    ASSUME NEW m, NEW S, NEW headers \in Seq(S)
    PROVE  KeptHeaders(m, headers) \in Seq(S)
<1> DEFINE kept == {i \in 1..Len(headers) : ~Refused(m, headers[i])}
<1>1. Chosen(headers, kept) \in Seq(S)
  <2> HIDE DEF kept
  <2> QED
    BY ChosenType
<1> QED
  BY <1>1 DEF KeptHeaders

(* The sections read have them, and data of their size.                      *)
LEMMA SectionsRead ==
    ASSUME NEW m, NEW headers \in Seq(Shdr), NEW from
    PROVE  LET read == ReadMappedSections(m, headers, from)
               kept == KeptHeaders(m, headers)
           IN  /\ read = [i \in 1..Len(kept) |-> read[i]]
               /\ Len(read) = Len(kept) /\ Len(kept) \in Nat
               /\ \A i \in 1..Len(read) :
                      /\ read[i] = [name   |-> read[i].name,
                                    header |-> read[i].header,
                                    data   |-> read[i].data]
                      /\ read[i].header = kept[i]
                      /\ Len(read[i].data) \in Nat
<1> DEFINE read == ReadMappedSections(m, headers, from)
           kept == KeptHeaders(m, headers)
           size(i) == IF kept[i].type = "NOBITS" THEN 0 ELSE kept[i].size
<1>1. kept \in Seq(Shdr)
  BY KeptAreGiven
<1>2. read = [i \in 1..Len(kept) |->
                 [name   |-> NameAt(MappedNames(m, headers, from), kept[i].nameIndex),
                  header |-> kept[i],
                  data   |-> Lenient(m, MappedStart(kept[i], from), size(i))]]
  BY DEF ReadMappedSections
<1> HIDE DEF kept
<1>3. Len(kept) \in Nat /\ \A i \in 1..Len(kept) : kept[i] \in Shdr
  BY <1>1
<1>4. \A i \in 1..Len(kept) : size(i) \in Nat
  BY <1>3 DEF Shdr
<1> HIDE DEF read, size
<1>5. read = [i \in 1..Len(kept) |-> read[i]]
  BY <1>2
<1>6. Len(read) = Len(kept)
  BY <1>3, <1>5, MadeSequence
<1>7. ASSUME NEW i \in 1..Len(read)
      PROVE  /\ read[i] = [name   |-> read[i].name,
                           header |-> read[i].header,
                           data   |-> read[i].data]
             /\ read[i].header = kept[i]
             /\ Len(read[i].data) \in Nat
  <2>1. read[i] = [name   |-> NameAt(MappedNames(m, headers, from), kept[i].nameIndex),
                   header |-> kept[i],
                   data   |-> Lenient(m, MappedStart(kept[i], from), size(i))]
    BY <1>2, <1>6
  <2> DEFINE d == Lenient(m, MappedStart(kept[i], from), size(i))
  <2>2. Len(d) \in Nat
    <3>1. d = [k \in 1..size(i) |-> d[k]] /\ size(i) \in Nat
      BY <1>4, <1>6 DEF Lenient
    <3> HIDE DEF d
    <3> QED
      BY <3>1, MadeSequence
  <2> HIDE DEF d
  <2> QED
    BY <2>1, <2>2 DEF d
<1> QED
  BY <1>3, <1>5, <1>6, <1>7 DEF read, kept

(* What the memory has for a section table are section headers; none of them *)
(* is of a relocation table when the table is lost.                          *)
LEMMA TableHeaders ==
    ASSUME NEW m, Len(m) \in Nat, Ehdr(m) \in ElfHeader, NEW headers \in SectionTables(m)
    PROVE  /\ headers \in Seq(Shdr)
           /\ TableLost(m) => headers \in Seq({NullHeader})
<1> DEFINE n == Ehdr(m).shnum
<1>1. n \in Nat /\ Ehdr(m).shoff \in Nat /\ ShEntSize \in Nat \ {0}
  <2>1. Ehdr(m).shnum \in 0..U16Max /\ Ehdr(m).shoff \in U64
    BY DEF ElfHeader
  <2> QED
    BY <2>1, FormatAssumption, U64MaxAssumption DEF U64
<1>2. NullHeader \in Shdr
  <2>1. 0 \in U64
    BY U64MaxAssumption DEF U64
  <2> QED
    BY <2>1 DEF NullHeader, Shdr, SectionTypes
<1>3. \A at : HeadersAt(m, at) \subseteq Shdr
  BY <1>2, SessionAssumption DEF HeadersAt
<1>4. CASE TableEnd(m) > Len(m)
  <2>1. headers = <<>>
    BY <1>4 DEF SectionTables
  <2> QED
    BY <2>1
<1>5. CASE ~(TableEnd(m) > Len(m))
  <2>1. /\ headers = [i \in 1..n |-> headers[i]]
        /\ \A i \in 1..n : headers[i] \in HeadersAt(m, TableStart(m, i))
    BY <1>5 DEF SectionTables
  <2> HIDE DEF n
  <2>2. \A i \in 1..n : headers[i] \in Shdr
    BY <1>3, <2>1
  <2>3. headers \in [1..n -> Shdr]
    BY <2>1, <2>2
  <2>4. headers \in Seq(Shdr)
    BY <1>1, <2>3
  <2>5. ASSUME TableLost(m), NEW i \in 1..n
        PROVE  headers[i] = NullHeader
    <3> DEFINE at == TableStart(m, i)
    <3>1. /\ TableStart(m, 1) \in Nat /\ at \in Nat
          /\ TableStart(m, 1) <= at /\ at + ShEntSize <= TableEnd(m)
      <4> DEFINE a == (i - 1) * ShEntSize
                 b == n * ShEntSize
      <4>1. a \in Nat /\ b \in Nat
        BY <1>1, SMTT(30)
      <4>2. a + ShEntSize <= b
        <5>1. \A x \in Nat : x >= 1 => x * ShEntSize \in Nat /\ ShEntSize <= x * ShEntSize
          BY <1>1, SMTT(30)
        <5>2. n - (i - 1) \in Nat /\ n - (i - 1) >= 1
          BY <1>1
        <5>3. b = a + ((n - (i - 1)) * ShEntSize)
          BY <1>1, SMTT(30)
        <5> DEFINE c == (n - (i - 1)) * ShEntSize
        <5>4. c \in Nat /\ ShEntSize <= c
          BY <5>1, <5>2
        <5> HIDE DEF a, b, c
        <5> QED
          BY <1>1, <4>1, <5>3, <5>4 DEF c
      <4>3. (1 - 1) * ShEntSize = 0 /\ (n + 1) - 1 = n
        BY <1>1
      <4> HIDE DEF a, b
      <4>4. TableStart(m, 1) = Ehdr(m).shoff
        BY <1>1, <4>3 DEF TableStart
      <4>5. at = Ehdr(m).shoff + a
        BY DEF TableStart, a
      <4>6. TableEnd(m) = Ehdr(m).shoff + b
        BY <4>3 DEF TableEnd, TableStart, b, n
      <4> HIDE DEF at
      <4> QED
        BY <1>1, <4>1, <4>2, <4>4, <4>5, <4>6
    <3>2. /\ \A p \in TableStart(m, 1) + 1..TableEnd(m) : m[p] = Zero
          /\ TableEnd(m) <= Len(m)
      <4>1. TableEnd(m) \in Int
        BY <1>1 DEF TableEnd, TableStart, n
      <4> QED
        BY <1>5, <2>5, <4>1 DEF TableLost
    <3> HIDE DEF at
    <3>3. /\ \A k \in 1..ShEntSize : m[at + k] = Zero
          /\ at + ShEntSize <= Len(m)
      <4>1. TableEnd(m) \in Int
        BY <1>1 DEF TableEnd, TableStart, n
      <4>2. \A k \in 1..ShEntSize : at + k \in TableStart(m, 1) + 1..TableEnd(m)
        BY <1>1, <3>1, <4>1
      <4> QED
        BY <1>1, <3>1, <3>2, <4>1, <4>2
    <3>4. ~Decodes(m, at, ShEntSize)
      <4> SUFFICES ASSUME Decodes(m, at, ShEntSize) PROVE FALSE
        OBVIOUS
      <4>1. 1 \in 1..ShEntSize
        BY <1>1
      <4>2. m[at + 1] = <<DecodedAt(m, at), 1>>
        BY <1>1, <4>1, DecodedByte
      <4>3. m[at + 1] = <<0>>
        BY <3>3, <4>1 DEF Zero
      <4> QED
        BY <4>2, <4>3, RecordByte
    <3>5. HoldsAt(m, at, Zeros(ShEntSize))
      <4> DEFINE z == Zeros(ShEntSize)
      <4>1. \A k \in 1..ShEntSize : z[k] = Zero
        BY DEF Zeros
      <4>2. Len(z) = ShEntSize
        <5>1. z = [k \in 1..ShEntSize |-> z[k]]
          BY DEF Zeros
        <5> HIDE DEF z
        <5> QED
          BY <1>1, <5>1, MadeSequence
      <4> HIDE DEF z
      <4> QED
        BY <3>3, <4>1, <4>2 DEF HoldsAt, z
    <3>6. HeadersAt(m, at) = {NullHeader}
      BY <3>4, <3>5 DEF HeadersAt
    <3> QED
      BY <2>1, <3>6 DEF at
  <2>6. TableLost(m) => headers \in [1..n -> {NullHeader}]
    BY <2>1, <2>5
  <2> QED
    BY <1>1, <2>4, <2>6
<1> QED
  BY <1>4, <1>5

-----------------------------------------------------------------------------
(* An image read from a memory, and what the user writes to it.              *)

(* What of ws is at position p.                                              *)
WrittenAt(im, ws, p) == {w \in ws : p = w[1] - ImageBase(im.segments) + 1}

(* The loadable segments have their memory, ...                              *)
FullSegments(im) ==
    \A i \in 1..Len(im.segments) :
        IsLoad(im.segments[i]) => Len(im.segments[i].data) = im.segments[i].header.memsz

(* ... and the image is what the memory m holds but for what was written.    *)
ReadFrom(im, m, ws) ==
    \A p \in 1..ImageSpan(im.segments) :
        /\ p <= HeadersEnd(im) => HeaderBytes(im)[p] = m[p]
        /\ \A i \in PlacedAt(im, p) :
               /\ WrittenAt(im, ws, p) = {} => ByteOf(im, i, p) = m[p]
               /\ PlacedAt(im, p) = {i} =>
                      \A w \in WrittenAt(im, ws, p) : ByteOf(im, i, p) = w[2]

(* The sections of a lost table are none, or NULL.                           *)
NoTables(im) == \A i \in 1..Len(im.sections) : ~IsTable(im.sections[i])

Fresh(im, m, ws) ==
    /\ FullSegments(im) /\ ReadFrom(im, m, ws)
    /\ TableLost(m) => NoTables(im)

(* It is built as the code builds it: sequences of records.                  *)
Built(im) ==
    /\ im = [header |-> im.header, segments |-> im.segments, sections |-> im.sections]
    /\ im.segments = [i \in 1..Len(im.segments) |-> im.segments[i]]
    /\ im.sections = [i \in 1..Len(im.sections) |-> im.sections[i]]
    /\ \A i \in 1..Len(im.segments) :
           im.segments[i] = [header |-> im.segments[i].header, data |-> im.segments[i].data]
    /\ \A i \in 1..Len(im.sections) :
           im.sections[i] = [name |-> im.sections[i].name, header |-> im.sections[i].header,
                             data |-> im.sections[i].data]

(* The image that parse_mapped returns.                                      *)
LEMMA ImageRead ==
    ASSUME IInv, HeadersInv, pc = "done", MappedParses(mem), NEW headers \in SectionTables(mem)
    PROVE  LET im == ParsedMapped(mem, headers)
           IN  Placeable(im) /\ Built(im) /\ Fresh(im, mem, {})
<1> DEFINE im == ParsedMapped(mem, headers)
           n  == Len(image.segments)
           from == MappedBase(mem)
<1>1. /\ Placeable(image) /\ n \in Nat /\ image.header \in ElfHeader
      /\ Len(mem) = ImageSpan(image.segments) /\ Len(mem) \in Nat
      /\ \A i \in 1..n : image.segments[i].header \in Phdr
  BY ImageFacts DEF IInv, TypeInv, Filling
<1>2. /\ Ehdr(mem) = MappedHeader(image)
      /\ n <= U16Max => StartsWith(mem, image)
  BY HeadersDecoded
<1>3. Ehdr(mem) \in ElfHeader
  <2>1. EhSize \in Nat /\ U16Max \in Nat
    BY FormatAssumption
  <2>2. (IF n <= U16Max THEN n ELSE 0) \in 0..U16Max
    BY <1>1, <2>1
  <2> DEFINE c == IF n <= U16Max THEN n ELSE 0
  <2>3. MappedHeader(image) = [image.header EXCEPT !.phoff = EhSize, !.phnum = c]
    BY DEF MappedHeader
  <2>4. c \in 0..U16Max
    BY <2>2
  <2> HIDE DEF c
  <2> QED
    BY <1>1, <1>2, <2>1, <2>3, <2>4 DEF ElfHeader
<1>4. headers \in Seq(Shdr) /\ (TableLost(mem) => headers \in Seq({NullHeader}))
  BY <1>1, <1>3, TableHeaders
<1> DEFINE secs == ReadMappedSections(mem, headers, from)
           kept == KeptHeaders(mem, headers)
<1>5. /\ secs = [i \in 1..Len(secs) |-> secs[i]] /\ Len(secs) \in Nat
      /\ Len(secs) = Len(kept)
      /\ \A i \in 1..Len(secs) :
             /\ secs[i] = [name |-> secs[i].name, header |-> secs[i].header,
                           data |-> secs[i].data]
             /\ secs[i].header = kept[i]
             /\ Len(secs[i].data) \in Nat
  <2>1. /\ secs = [i \in 1..Len(kept) |-> secs[i]]
        /\ Len(secs) = Len(kept) /\ Len(kept) \in Nat
        /\ \A i \in 1..Len(secs) :
               /\ secs[i] = [name |-> secs[i].name, header |-> secs[i].header,
                             data |-> secs[i].data]
               /\ secs[i].header = kept[i]
               /\ Len(secs[i].data) \in Nat
    BY <1>4, SectionsRead, Zenon
  <2> HIDE DEF secs, kept
  <2> QED
    BY <2>1
<1>6. im.sections = secs /\ im.header = Ehdr(mem)
  BY DEF ParsedMapped
<1>7. TableLost(mem) => NoTables(im)
  <2> SUFFICES ASSUME TableLost(mem), NEW i \in 1..Len(secs)
               PROVE  ~IsTable(secs[i])
    BY <1>6 DEF NoTables
  <2>1. kept \in Seq({NullHeader})
    BY <1>4, KeptAreGiven
  <2> HIDE DEF kept, secs
  <2>2. kept[i] = NullHeader
    BY <1>5, <2>1
  <2>3. secs[i].header = NullHeader
    BY <1>5, <2>2
  <2>4. NullHeader.type = "NULL"
    BY DEF NullHeader
  <2> QED
    BY <2>3, <2>4 DEF IsTable
<1>8. /\ im = [header |-> im.header, segments |-> im.segments, sections |-> im.sections]
      /\ im.segments = [i \in 1..Ehdr(mem).phnum |->
                           ReadMappedSegment(mem, ProgramHeaders(mem)[i], from)]
  BY DEF ParsedMapped
<1>9. Ehdr(mem).phnum = IF n <= U16Max THEN n ELSE 0
  BY <1>1, <1>2 DEF MappedHeader, ElfHeader
<1>10. Len(im.segments) = Ehdr(mem).phnum /\ Len(im.segments) \in Nat
  <2> DEFINE segs == im.segments
             c    == Ehdr(mem).phnum
  <2>1. segs = [i \in 1..c |-> segs[i]]
    BY <1>8
  <2>2. c \in Nat
    BY <1>1, <1>9
  <2> HIDE DEF segs, c
  <2> QED
    BY <2>1, <2>2, MadeSequence DEF segs, c
<1> HIDE DEF secs
<1>11. Built(im)
  <2>1. \A i \in 1..Len(im.segments) :
            im.segments[i] = [header |-> im.segments[i].header, data |-> im.segments[i].data]
    <3> TAKE i \in 1..Len(im.segments)
    <3>1. im.segments[i] = ReadMappedSegment(mem, ProgramHeaders(mem)[i], from)
      BY <1>8, <1>10
    <3> HIDE DEF im
    <3>2. \E h, d : im.segments[i] = [header |-> h, data |-> d]
      BY <3>1 DEF ReadMappedSegment
    <3> QED
      BY <3>2
  <2>2. im.segments = [i \in 1..Len(im.segments) |-> im.segments[i]]
    BY <1>8, <1>10
  <2> HIDE DEF im
  <2> QED
    BY <1>5, <1>6, <1>8, <2>1, <2>2 DEF Built
<1>12. \A i \in 1..Len(im.sections) : Len(im.sections[i].data) \in Nat
  BY <1>5, <1>6
<1>13. CASE n <= U16Max
  <2>1. /\ Len(im.segments) = n
        /\ \A i \in 1..n :
               /\ im.segments[i].header = image.segments[i].header
               /\ im.segments[i].data =
                      IF MappedEmpty(image.segments[i].header) THEN <<>>
                      ELSE Lenient(mem, SatSub(image.segments[i].header.vaddr,
                                               ImageBase(image.segments)),
                                   MappedLength(image.segments[i].header))
        /\ ImageSpan(im.segments) = ImageSpan(image.segments)
        /\ HeaderBytes(im) = HeaderBytes(image) /\ HeadersEnd(im) = HeadersEnd(image)
    BY <1>2, <1>13, ParsedFacts
  <2>2. ASSUME NEW i \in 1..n
        PROVE  Len(im.segments[i].data) = IF MappedEmpty(image.segments[i].header) THEN 0
                                          ELSE MappedLength(image.segments[i].header)
    <3> DEFINE h == image.segments[i].header
               start == SatSub(h.vaddr, ImageBase(image.segments))
               d == Lenient(mem, start, MappedLength(h))
    <3>1. MappedLength(h) \in Nat
      BY <1>1, U64MaxAssumption DEF MappedLength, Phdr, U64
    <3>2. Len(d) = MappedLength(h)
      <4>1. d = [k \in 1..MappedLength(h) |-> d[k]]
        BY DEF Lenient
      <4> HIDE DEF d
      <4> QED
        BY <3>1, <4>1, MadeSequence
    <3>3. Len(<<>>) = 0
      OBVIOUS
    <3>4. im.segments[i].data = IF MappedEmpty(h) THEN <<>> ELSE d
      BY <2>1
    <3> HIDE DEF d, im
    <3> QED
      BY <3>2, <3>3, <3>4
  <2>3. \A i \in 1..n : MappedLength(image.segments[i].header) \in Nat
    BY <1>1, U64MaxAssumption DEF MappedLength, Phdr, U64
  <2>4. Placeable(im)
    <3>1. \A i \in 1..n : im.segments[i].header \in Phdr /\ Len(im.segments[i].data) \in Nat
      BY <1>1, <2>1, <2>2, <2>3
    <3> HIDE DEF im
    <3> QED
      BY <1>3, <1>5, <1>6, <1>10, <1>12, <2>1, <3>1 DEF Placeable
  <2>5. FullSegments(im)
    <3> SUFFICES ASSUME NEW i \in 1..n, IsLoad(im.segments[i])
                 PROVE  Len(im.segments[i].data) = im.segments[i].header.memsz
      BY <2>1 DEF FullSegments
    <3>1. image.segments[i].header.type = "LOAD"
      BY <2>1 DEF IsLoad
    <3> HIDE DEF im
    <3> QED
      BY <2>1, <2>2, <3>1 DEF MappedLength, MappedEmpty
  <2>6. ReadFrom(im, mem, {})
    <3> SUFFICES ASSUME NEW p \in 1..Len(mem)
                 PROVE  /\ p <= HeadersEnd(im) => HeaderBytes(im)[p] = mem[p]
                        /\ \A i \in PlacedAt(im, p) : ByteOf(im, i, p) = mem[p]
      BY <1>1, <2>1 DEF ReadFrom, WrittenAt
    <3>1. p <= HeadersEnd(im) => HeaderBytes(im)[p] = mem[p]
      BY <1>2, <1>13, <2>1 DEF StartsWith
    <3>2. ASSUME NEW i \in PlacedAt(im, p) PROVE ByteOf(im, i, p) = mem[p]
      <4>1. i \in 1..n /\ IsLoad(image.segments[i])
        BY <2>1 DEF PlacedAt, IsLoad
      <4> QED
        BY <1>2, <1>13, <4>1, ParsedBytes
    <3> QED
      BY <3>1, <3>2
  <2> QED
    BY <1>7, <1>11, <2>4, <2>5, <2>6 DEF Fresh
<1>14. CASE ~(n <= U16Max)
  <2>1. Len(im.segments) = 0
    BY <1>9, <1>10, <1>14
  <2>2. Placeable(im)
    <3> HIDE DEF im
    <3> QED
      BY <1>3, <1>5, <1>6, <1>12, <2>1 DEF Placeable
  <2>3. ImageSpan(im.segments) = 0
    <3> HIDE DEF im
    <3>1. LoadRecords(im.segments) = {}
      BY <2>1 DEF LoadRecords
    <3> QED
      BY <3>1 DEF ImageSpan, Span
  <2>4. FullSegments(im) /\ ReadFrom(im, mem, {})
    <3> HIDE DEF im
    <3> QED
      BY <2>1, <2>3 DEF FullSegments, ReadFrom
  <2> QED
    BY <1>7, <1>11, <2>2, <2>4 DEF Fresh
<1> QED
  BY <1>13, <1>14

(* Writing to the first segment that covers an address, and to the sections, *)
(* changes the bytes written and nothing else.                               *)
LEMMA ImageWritten ==
    ASSUME NEW im, Placeable(im), Built(im), NEW m, Fresh(im, m, {}),
           NEW vaddr \in Nat, NEW bytes \in Seq(RawByte), NEW i \in 1..Len(im.segments),
           Writes(im.segments, i, vaddr, bytes)
    PROVE  LET new == [im EXCEPT !.segments = SegmentsWith(@, i, vaddr, bytes),
                                 !.sections = SectionsWith(@, vaddr, bytes)]
               ws  == {<<vaddr + k - 1, bytes[k]>> : k \in 1..Len(bytes)}
           IN  Placeable(new) /\ Fresh(new, m, ws)
<1> DEFINE new  == [im EXCEPT !.segments = SegmentsWith(@, i, vaddr, bytes),
                              !.sections = SectionsWith(@, vaddr, bytes)]
           ws   == {<<vaddr + k - 1, bytes[k]>> : k \in 1..Len(bytes)}
           n    == Len(im.segments)
           old  == im.segments[i].data
           at   == vaddr - im.segments[i].header.vaddr
           data == Copied(old, at, bytes)
           b    == ImageBase(im.segments)
<1>1. /\ n \in Nat /\ Len(im.sections) \in Nat /\ im.header \in ElfHeader /\ b \in Nat
      /\ \A l \in LoadRecords(im.segments) : b <= l.vaddr
      /\ \A j \in 1..n : /\ im.segments[j].header \in Phdr
                         /\ im.segments[j].header.vaddr \in Nat
                         /\ im.segments[j].header.memsz \in Nat
                         /\ Len(im.segments[j].data) \in Nat
  BY ImageFacts
<1>2. /\ at \in Nat /\ at + Len(bytes) <= Len(old) /\ Len(bytes) \in Nat
      /\ CoversLoaded(im.segments[i], vaddr)
  <2>1. InData(old, at, Len(bytes)) /\ CoversLoaded(im.segments[i], vaddr)
    BY DEF Writes, IsFirstLoad
  <2>2. at \in Int /\ Len(bytes) \in Nat
    BY <1>1
  <2> QED
    BY <2>1, <2>2 DEF InData
<1>3. /\ Len(data) = Len(old)
      /\ \A p \in 1..Len(old) :
             data[p] = IF at < p /\ p <= at + Len(bytes) THEN bytes[p - at] ELSE old[p]
  <2>1. data = [p \in 1..Len(old) |-> data[p]]
    BY DEF Copied
  <2>2. \A p \in 1..Len(old) :
             data[p] = IF at < p /\ p <= at + Len(bytes) THEN bytes[p - at] ELSE old[p]
    BY DEF Copied
  <2> HIDE DEF data
  <2> QED
    BY <1>1, <2>1, <2>2, MadeSequence
<1>4. /\ new.header = im.header
      /\ new.segments = SegmentsWith(im.segments, i, vaddr, bytes)
      /\ new.sections = SectionsWith(im.sections, vaddr, bytes)
  BY DEF Built
<1>5. WithBytes(im.segments[i], vaddr, bytes)
          = [header |-> im.segments[i].header, data |-> data]
  <2> DEFINE s == im.segments[i]
  <2>1. s = [header |-> s.header, data |-> s.data]
    BY DEF Built
  <2> HIDE DEF s
  <2> QED
    BY <2>1 DEF WithBytes, s
<1> HIDE DEF new
<1>6. /\ new.segments = [j \in 1..n |-> new.segments[j]]
      /\ new.segments[i] = [header |-> im.segments[i].header, data |-> data]
      /\ \A j \in 1..n : j # i => new.segments[j] = im.segments[j]
  <2> DEFINE segs == im.segments
  <2>1. segs = [j \in 1..n |-> segs[j]]
    BY DEF Built
  <2>2. new.segments = [segs EXCEPT ![i] = [header |-> im.segments[i].header, data |-> data]]
    BY <1>4, <1>5 DEF SegmentsWith
  <2> HIDE DEF segs, data
  <2> QED
    BY <2>1, <2>2 DEF segs
<1>7. Len(new.segments) = n
  <2> DEFINE segs == new.segments
  <2>1. segs = [j \in 1..n |-> segs[j]]
    BY <1>6
  <2> HIDE DEF segs, n
  <2> QED
    BY <1>1, <2>1, MadeSequence DEF segs
<1> HIDE DEF data
<1>8. new.segments[i].header = im.segments[i].header /\ new.segments[i].data = data
  BY <1>6
<1>9. \A j \in 1..n : /\ new.segments[j].header = im.segments[j].header
                      /\ Len(new.segments[j].data) = Len(im.segments[j].data)
                      /\ j # i => new.segments[j].data = im.segments[j].data
  BY <1>3, <1>6, <1>8
<1>10. /\ Len(new.sections) = Len(im.sections)
       /\ \A j \in 1..Len(im.sections) :
              /\ new.sections[j].header = im.sections[j].header
              /\ Len(new.sections[j].data) \in Nat
  <2> DEFINE l == Len(im.sections)
  <2>1. new.sections = [j \in 1..l |-> Updated(im.sections[j], vaddr, bytes)]
    BY <1>4 DEF SectionsWith
  <2>2. Len(new.sections) = l
    <3> DEFINE secs == new.sections
    <3>1. secs = [j \in 1..l |-> secs[j]]
      BY <2>1
    <3> HIDE DEF secs, l
    <3> QED
      BY <1>1, <3>1, MadeSequence DEF secs, l
  <2>3. ASSUME NEW j \in 1..l
        PROVE  /\ new.sections[j].header = im.sections[j].header
               /\ Len(new.sections[j].data) \in Nat
    <3> DEFINE s == im.sections[j]
               u == Updated(s, vaddr, bytes)
               d == Copied(s.data, vaddr - s.header.addr, bytes)
    <3>1. new.sections[j] = u
      BY <2>1
    <3>2. s = [name |-> s.name, header |-> s.header, data |-> s.data] /\ Len(s.data) \in Nat
      BY DEF Built, Placeable
    <3> HIDE DEF s
    <3>3. u = s \/ u = [s EXCEPT !.data = d]
      BY DEF Updated
    <3>4. Len(d) = Len(s.data)
      <4>1. d = [p \in 1..Len(s.data) |-> d[p]]
        BY DEF Copied
      <4> HIDE DEF d
      <4> QED
        BY <3>2, <4>1, MadeSequence
    <3>5. u.header = s.header /\ (u.data = s.data \/ u.data = d)
      BY <3>2, <3>3
    <3> HIDE DEF u, d
    <3> QED
      BY <3>1, <3>2, <3>4, <3>5 DEF s
  <2> QED
    BY <2>2, <2>3
<1>11. Placeable(new)
  BY <1>1, <1>4, <1>7, <1>9, <1>10 DEF Placeable
<1>12. /\ LoadRecords(new.segments) = LoadRecords(im.segments)
       /\ ImageBase(new.segments) = b
       /\ ImageSpan(new.segments) = ImageSpan(im.segments)
  <2>1. LoadRecords(new.segments) = LoadRecords(im.segments)
    BY <1>7, <1>9 DEF LoadRecords, IsLoad
  <2> QED
    BY <2>1 DEF ImageBase, ImageSpan
<1>13. HeaderBytes(new) = HeaderBytes(im) /\ HeadersEnd(new) = HeadersEnd(im)
  <2>1. [j \in 1..Len(new.segments) |-> new.segments[j].header]
        = [j \in 1..Len(im.segments) |-> im.segments[j].header]
    BY <1>7, <1>9
  <2>2. MappedHeader(new) = MappedHeader(im)
    BY <1>4, <1>7 DEF MappedHeader
  <2> QED
    BY <1>7, <2>1, <2>2 DEF HeaderBytes, HeadersEnd
<1>14. \A p : PlacedAt(new, p) = PlacedAt(im, p)
  BY <1>7, <1>9, <1>12 DEF PlacedAt, IsLoad
<1>15. FullSegments(new)
  BY <1>7, <1>9 DEF FullSegments, Fresh, IsLoad
<1>16. TableLost(m) => NoTables(new)
  BY <1>10 DEF Fresh, NoTables, IsTable
<1>17. ReadFrom(new, m, ws)
  <2> SUFFICES ASSUME NEW p \in 1..ImageSpan(im.segments)
               PROVE  /\ p <= HeadersEnd(im) => HeaderBytes(im)[p] = m[p]
                      /\ \A j \in PlacedAt(im, p) :
                             /\ WrittenAt(new, ws, p) = {} => ByteOf(new, j, p) = m[p]
                             /\ PlacedAt(im, p) = {j} =>
                                    \A w \in WrittenAt(new, ws, p) : ByteOf(new, j, p) = w[2]
    BY <1>12, <1>13, <1>14 DEF ReadFrom
  <2>1. /\ p <= HeadersEnd(im) => HeaderBytes(im)[p] = m[p]
        /\ \A j \in PlacedAt(im, p) : ByteOf(im, j, p) = m[p]
    BY DEF Fresh, ReadFrom, WrittenAt
  <2> DEFINE h     == im.segments[i].header
             start == h.vaddr - b
  <2>2. start \in Nat
    <3>1. h \in LoadRecords(im.segments)
      <4>1. IsLoad(im.segments[i]) /\ SegmentContains(im.segments[i], vaddr)
        BY <1>2 DEF CoversLoaded
      <4>2. h.memsz # 0
        <5>1. h.vaddr \in 0..U64Max /\ U64Max \in Nat /\ h.vaddr + 0 = h.vaddr
          BY <1>1, U64MaxAssumption DEF Phdr, U64
        <5>2. vaddr >= h.vaddr /\ vaddr < SatAdd(h.vaddr, h.memsz)
          BY <4>1 DEF SegmentContains
        <5> HIDE DEF h
        <5>3. SatAdd(h.vaddr, 0) = h.vaddr
          BY <5>1 DEF SatAdd
        <5> QED
          BY <5>1, <5>2, <5>3
      <4> QED
        BY <4>1, <4>2 DEF LoadRecords
    <3> QED
      BY <1>1, <3>1
  <2>3. vaddr = (at + start) + b
    BY <1>1
  <2>4. p \in Nat
    OBVIOUS
  <2>5. \A w \in WrittenAt(new, ws, p) :
            \E k \in 1..Len(bytes) : w[2] = bytes[k] /\ p = (at + start) + k
    <3> SUFFICES ASSUME NEW k \in 1..Len(bytes), p = (vaddr + k - 1) - b + 1
                 PROVE  p = (at + start) + k
      BY <1>12 DEF WrittenAt
    <3> HIDE DEF at, start
    <3> QED
      BY <1>1, <1>2, <2>2, <2>3
  <2>6. \A k \in 1..Len(bytes) :
            p = (at + start) + k => <<vaddr + k - 1, bytes[k]>> \in WrittenAt(new, ws, p)
    <3> SUFFICES ASSUME NEW k \in 1..Len(bytes), p = (at + start) + k
                 PROVE  p = (vaddr + k - 1) - b + 1
      BY <1>12 DEF WrittenAt
    <3> HIDE DEF at, start
    <3> QED
      BY <1>1, <1>2, <2>2, <2>3
  <2>7. ASSUME NEW j \in PlacedAt(im, p), j # i
        PROVE  ByteOf(new, j, p) = ByteOf(im, j, p)
    <3>1. j \in 1..n
      BY DEF PlacedAt
    <3> QED
      BY <1>9, <1>12, <2>7, <3>1 DEF ByteOf
  <2>8. ASSUME i \in PlacedAt(im, p)
        PROVE  /\ ByteOf(new, i, p) = data[p - start] /\ ByteOf(im, i, p) = old[p - start]
               /\ p - start \in 1..Len(old)
    <3>1. start < p /\ p <= start + Len(old)
      BY <2>8 DEF PlacedAt
    <3>2. Len(old) \in Nat
      BY <1>1
    <3>3. p - start \in 1..Len(old)
      <4> HIDE DEF start, old
      <4> QED
        BY <2>2, <2>4, <3>1, <3>2
    <3> QED
      BY <1>9, <1>8, <1>12, <3>3 DEF ByteOf
  <2> DEFINE q == p - start
  <2>9. q \in Int /\ p = start + q
    <3> HIDE DEF start
    <3> QED
      BY <2>2, <2>4
  <2> HIDE DEF at, old, ws, b
  <2>10. ASSUME WrittenAt(new, ws, p) = {}, NEW j \in PlacedAt(im, p)
         PROVE  ByteOf(new, j, p) = m[p]
    <3>1. CASE j # i
      BY <2>1, <2>7, <3>1
    <3>2. CASE j = i
      <4>1. ~(at < q /\ q <= at + Len(bytes))
        <5> SUFFICES ASSUME at < q, q <= at + Len(bytes) PROVE FALSE
          OBVIOUS
        <5>1. q - at \in 1..Len(bytes) /\ p = (at + start) + (q - at)
          <6> HIDE DEF start, q
          <6> QED
            BY <1>2, <2>2, <2>9
        <5> QED
          BY <2>6, <2>10, <5>1
      <4>2. data[q] = old[q]
        BY <1>3, <2>8, <3>2, <4>1
      <4> QED
        BY <2>1, <2>8, <3>2, <4>2
    <3> QED
      BY <3>1, <3>2
  <2>11. ASSUME NEW j, PlacedAt(im, p) = {j}, NEW w \in WrittenAt(new, ws, p)
         PROVE  ByteOf(new, j, p) = w[2]
    <3>1. PICK k \in 1..Len(bytes) : w[2] = bytes[k] /\ p = (at + start) + k
      BY <2>5
    <3>2. k \in Nat /\ q = at + k /\ at < q /\ q <= at + Len(bytes) /\ q - at = k
      <4>1. /\ at \in Nat /\ Len(bytes) \in Nat /\ start \in Nat /\ q \in Int
            /\ k \in 1..Len(bytes) /\ start + q = (at + start) + k
        BY <1>2, <2>2, <2>9, <3>1
      <4> HIDE DEF start, q
      <4> QED
        BY <4>1
    <3>3. i \in PlacedAt(im, p)
      <4>1. IsLoad(im.segments[i])
        BY <1>2 DEF CoversLoaded
      <4>2. start < p /\ p <= start + Len(old) /\ start >= 0
        <5>1. Len(old) \in Nat
          BY <1>1 DEF old
        <5> HIDE DEF start, q
        <5> QED
          BY <1>2, <2>2, <2>9, <3>2, <5>1
      <4> QED
        BY <4>1, <4>2 DEF PlacedAt, old, b
    <3>4. j = i
      BY <2>11, <3>3
    <3>5. data[q] = bytes[k]
      BY <1>3, <2>8, <3>2, <3>3
    <3> QED
      BY <2>8, <3>1, <3>3, <3>4, <3>5
  <2> QED
    BY <2>1, <2>10, <2>11
<1> QED
  BY <1>11, <1>15, <1>16, <1>17 DEF Fresh, new, ws

-----------------------------------------------------------------------------
(* Sessions: images mapped, read back, written to and mapped again.          *)

(* An image that was read is what its memory held but for what was written.  *)
FreshInv == round > 1 => Fresh(image, before, written)

SessionInv == IInv /\ MemoryInv /\ PointersInv /\ HeadersInv /\ FreshInv

(* The first image was given to the session, not read.                       *)
LEMMA SessionStart == SessionInit => SessionInv
<1> SUFFICES ASSUME SessionInit PROVE SessionInv
  OBVIOUS
<1>1. Init /\ round = 1
  BY DEF SessionInit
<1>2. IInv /\ PointersInv
  BY <1>1, InitInv, PointersStart
<1>3. MemoryInv /\ HeadersInv
  BY <1>1 DEF Init, MemoryInv, HeadersInv, Filling, Filled
<1>4. FreshInv
  BY <1>1 DEF FreshInv
<1> QED
  BY <1>2, <1>3, <1>4 DEF SessionInv

(* A call maps the image and leaves it as it is.                             *)
LEMMA CallKeeps == SessionInv /\ [Next]_vars /\ UNCHANGED history => SessionInv'
<1> SUFFICES ASSUME SessionInv, [Next]_vars, UNCHANGED history PROVE SessionInv'
  OBVIOUS
<1>1. IInv' /\ MemoryInv' /\ PointersInv' /\ HeadersInv'
  BY NextInv, MemoryNext, PointersNext, HeadersNext DEF SessionInv
<1>2. image' = image /\ before' = before /\ written' = written /\ round' = round
  BY DEF Next, vars, Allocate, SkipSegment, PlaceSegment, WriteHeaders, ParseTables,
         SkipEntry, OverflowingEntry, ApplyEntry, NextTable, Finish, Returned, history
<1>3. FreshInv'
  BY <1>2 DEF SessionInv, FreshInv
<1> QED
  BY <1>1, <1>3 DEF SessionInv

(* Reading the memory back and writing to the image make such an image.      *)
LEMMA ReadBackKeeps == SessionInv /\ ReadBack => SessionInv'
<1> SUFFICES ASSUME SessionInv, ReadBack PROVE SessionInv'
  OBVIOUS
<1>1. /\ pc = "done" /\ MappedParses(mem) /\ pc' = "allocate" /\ index' = 1 /\ table' = 1
      /\ base' \in Bases \cup {Preferred} /\ before' = mem
  BY DEF ReadBack
<1>2. PICK headers \in SectionTables(mem) :
          LET im == ParsedMapped(mem, headers) IN Unchanged(im) \/ Overwritten(im)
  BY DEF ReadBack
<1> DEFINE im == ParsedMapped(mem, headers)
<1>3. Placeable(im) /\ Built(im) /\ Fresh(im, mem, {})
  BY <1>1, ImageRead DEF SessionInv
<1>4. Unchanged(im) \/ Overwritten(im)
  BY <1>2
<1> HIDE DEF im
<1>5. Placeable(image') /\ Fresh(image', mem, written')
  <2>1. CASE Unchanged(im)
    BY <1>3, <2>1 DEF Unchanged
  <2>2. CASE Overwritten(im)
    <3>1. PICK ioff \in Offsets, bytes \in Payload, i \in 1..Len(im.segments) :
              LET vaddr == ImageBase(im.segments) + ioff
              IN  /\ Writes(im.segments, i, vaddr, bytes)
                  /\ image' = [im EXCEPT !.segments = SegmentsWith(@, i, vaddr, bytes),
                                         !.sections = SectionsWith(@, vaddr, bytes)]
                  /\ written' = {<<vaddr + k - 1, bytes[k]>> : k \in 1..Len(bytes)}
      BY <2>2 DEF Overwritten
    <3> DEFINE vaddr == ImageBase(im.segments) + ioff
               new == [im EXCEPT !.segments = SegmentsWith(@, i, vaddr, bytes),
                                 !.sections = SectionsWith(@, vaddr, bytes)]
               ws  == {<<vaddr + k - 1, bytes[k]>> : k \in 1..Len(bytes)}
    <3>2. vaddr \in Nat
      <4>1. ioff \in Nat
        BY SessionAssumption, U64MaxAssumption DEF U64
      <4> QED
        BY <1>3, <4>1, ImageFacts
    <3>3. bytes \in Seq(RawByte)
      BY SessionAssumption
    <3>4. Writes(im.segments, i, vaddr, bytes) /\ image' = new /\ written' = ws
      BY <3>1
    <3> HIDE DEF vaddr
    <3>5. Placeable(new) /\ Fresh(new, mem, ws)
      BY <1>3, <3>2, <3>3, <3>4, ImageWritten
    <3> HIDE DEF new, ws
    <3> QED
      BY <3>4, <3>5
  <2> QED
    BY <1>4, <2>1, <2>2
<1>6. base' \in Nat
  <2>1. Preferred \in Nat
    BY ImageFacts DEF SessionInv, IInv, TypeInv, Preferred
  <2> QED
    BY <1>1, <2>1, MappedAssumption, U64MaxAssumption DEF U64
<1>7. IInv'
  <2>1. TypeInv'
    BY <1>1, <1>5, <1>6 DEF TypeInv, Filling
  <2>2. SegmentsInv' /\ RestIsLoaded'
    BY <1>1 DEF SegmentsInv, RestIsLoaded, Filled
  <2> QED
    BY <2>1, <2>2 DEF IInv
<1>8. MemoryInv' /\ PointersInv' /\ HeadersInv'
  BY <1>1 DEF MemoryInv, PointersInv, HeadersInv, Filling, Filled
<1>9. FreshInv'
  BY <1>1, <1>5 DEF FreshInv
<1> QED
  BY <1>7, <1>8, <1>9 DEF SessionInv

(* So it holds in every session.                                             *)
LEMMA SessionInvariance == SessionSpec => []SessionInv
<1>1. SessionInv /\ [SessionNext]_allVars => SessionInv'
  <2> SUFFICES ASSUME SessionInv, [SessionNext]_allVars PROVE SessionInv'
    OBVIOUS
  <2>1. CASE Map
    BY <2>1, CallKeeps DEF Map
  <2>2. CASE ReadBack
    BY <2>2, ReadBackKeeps
  <2>3. CASE UNCHANGED allVars
    <3>1. UNCHANGED vars /\ UNCHANGED history
      BY <2>3 DEF allVars
    <3> QED
      BY <3>1, CallKeeps
  <2> QED
    BY <2>1, <2>2, <2>3 DEF SessionNext
<1> QED
  BY <1>1, SessionStart, PTL DEF SessionSpec

(* A loadable segment with memory at a position of the image read has a byte *)
(* there.                                                                    *)
LEMMA SegmentHasByte ==
    ASSUME NEW im, Placeable(im), FullSegments(im), NEW p \in Nat, InSegments(im, {p})
    PROVE  PlacedAt(im, p) # {}
<1>1. PICK i \in 1..Len(im.segments) :
          LET start == im.segments[i].header.vaddr - ImageBase(im.segments)
          IN  /\ IsLoad(im.segments[i])
              /\ start < p /\ p <= start + im.segments[i].header.memsz
  BY DEF InSegments
<1> DEFINE h     == im.segments[i].header
           start == h.vaddr - ImageBase(im.segments)
<1>2. /\ h.vaddr \in Nat /\ h.memsz \in Nat /\ ImageBase(im.segments) \in Nat
      /\ \A l \in LoadRecords(im.segments) : ImageBase(im.segments) <= l.vaddr
  BY ImageFacts
<1>3. start \in Int /\ start < p /\ p <= start + h.memsz /\ IsLoad(im.segments[i])
  BY <1>1, <1>2
<1>4. h.memsz # 0
  <2> HIDE DEF start
  <2> QED
    BY <1>2, <1>3
<1>5. start >= 0
  <2>1. h \in LoadRecords(im.segments)
    BY <1>3, <1>4 DEF LoadRecords
  <2> QED
    BY <1>2, <2>1
<1>6. Len(im.segments[i].data) = h.memsz
  BY <1>3 DEF FullSegments
<1>7. i \in PlacedAt(im, p)
  BY <1>3, <1>5, <1>6 DEF PlacedAt
<1> QED
  BY <1>7

(* The last of the segments placed at a position is one of them.             *)
LEMMA LastIsPlaced ==
    ASSUME NEW im, Placeable(im), NEW p, PlacedAt(im, p) # {}
    PROVE  Greatest(PlacedAt(im, p)) \in PlacedAt(im, p)
<1> DEFINE S == PlacedAt(im, p)
           n == Len(im.segments)
<1>1. n \in Nat
  BY ImageFacts
<1>2. S \in SUBSET (1..n)
  BY DEF PlacedAt
<1> HIDE DEF S, n
<1>3. S \in SUBSET (0..n)
  BY <1>1, <1>2
<1> QED
  BY <1>1, <1>3, GreatestBelow DEF S

(* What is at a position that no relocation names.                           *)
LEMMA SessionByte ==
    ASSUME SessionInv, pc = "done", round > 1, NEW p \in 1..Len(mem),
           \A entry \in RelativeEntries(image) : p \notin WordAt(image, entry)
    PROVE  /\ Len(mem) = ImageSpan(image.segments)
           /\ p <= HeadersEnd(image) => mem[p] = before[p]
           /\ p > HeadersEnd(image) =>
                  /\ PlacedAt(image, p) = {} => mem[p] = Zero
                  /\ PlacedAt(image, p) # {} /\ Written(p) = {} => mem[p] = before[p]
                  /\ \A i : PlacedAt(image, p) = {i} => \A w \in Written(p) : mem[p] = w[2]
<1>1. /\ Placeable(image) /\ Len(mem) = ImageSpan(image.segments) /\ Len(mem) \in Nat
      /\ Len(HeaderBytes(image)) = HeadersEnd(image) /\ HeadersEnd(image) \in Nat
  BY ImageFacts, HeaderLength DEF SessionInv, IInv, TypeInv, Filling
<1>2. mem[p] = Loaded(image)[p]
  BY <1>1 DEF SessionInv, IInv, RestIsLoaded, Filled, Unnamed
<1>3. ReadFrom(image, before, written)
  BY DEF SessionInv, FreshInv, Fresh
<1>4. WrittenAt(image, written, p) = Written(p)
  BY DEF WrittenAt, Written, Preferred
<1>5. ASSUME p <= HeadersEnd(image)
      PROVE  mem[p] = before[p]
  <2>1. Loaded(image)[p] = HeaderBytes(image)[p]
    BY <1>1, <1>5 DEF Loaded
  <2>2. HeaderBytes(image)[p] = before[p]
    BY <1>1, <1>3, <1>5 DEF ReadFrom
  <2> QED
    BY <1>2, <2>1, <2>2
<1>6. ASSUME p > HeadersEnd(image)
      PROVE  mem[p] = LastByte(image, PlacedAt(image, p), p)
  <2>1. ~(p <= Len(HeaderBytes(image))) /\ p \in 1..ImageSpan(image.segments)
    BY <1>1, <1>6
  <2> QED
    BY <1>2, <2>1 DEF Loaded, LastByte, ByteOf
<1>7. \A i \in PlacedAt(image, p) :
          /\ Written(p) = {} => ByteOf(image, i, p) = before[p]
          /\ PlacedAt(image, p) = {i} => \A w \in Written(p) : ByteOf(image, i, p) = w[2]
  BY <1>1, <1>3, <1>4 DEF ReadFrom
<1>8. PlacedAt(image, p) # {} => Greatest(PlacedAt(image, p)) \in PlacedAt(image, p)
  BY <1>1, LastIsPlaced
<1> DEFINE S == PlacedAt(image, p)
<1> HIDE DEF S
<1>9. ASSUME p > HeadersEnd(image)
      PROVE  /\ S = {} => mem[p] = Zero
             /\ S # {} /\ Written(p) = {} => mem[p] = before[p]
             /\ \A i : S = {i} => \A w \in Written(p) : mem[p] = w[2]
  <2>1. S = {} => mem[p] = Zero
    BY <1>6, <1>9 DEF LastByte, S
  <2>2. S # {} => mem[p] = ByteOf(image, Greatest(S), p) /\ Greatest(S) \in S
    BY <1>6, <1>8, <1>9 DEF LastByte, S
  <2>3. ASSUME S # {}, Written(p) = {} PROVE mem[p] = before[p]
    BY <1>7, <2>2, <2>3 DEF S
  <2>4. ASSUME NEW i, S = {i}, NEW w \in Written(p) PROVE mem[p] = w[2]
    <3>1. Greatest(S) = i
      BY <2>2, <2>4
    <3>2. ByteOf(image, i, p) = w[2]
      BY <1>7, <2>4 DEF S
    <3> QED
      BY <2>2, <2>4, <3>1, <3>2
  <2> QED
    BY <2>1, <2>3, <2>4
<1> QED
  BY <1>1, <1>5, <1>9 DEF S

(* What the user writes, and what was read where nothing is written, is in   *)
(* the memory mapped next.                                                   *)
LEMMA EditsPersistHolds == SessionInv => EditsPersist
<1> SUFFICES ASSUME SessionInv, pc = "done", round > 1,
                    NEW p \in HeadersEnd(image) + 1..Len(mem),
                    \A entry \in RelativeEntries(image) : p \notin WordAt(image, entry)
             PROVE  /\ \A w \in Written(p) :
                           (\E i \in PlacedAt(image, p) : PlacedAt(image, p) = {i})
                               => mem[p] = w[2]
                    /\ InSegments(image, {p}) /\ Written(p) = {} => mem[p] = before[p]
  BY DEF EditsPersist
<1>1. /\ Placeable(image) /\ FullSegments(image) /\ Len(mem) \in Nat
      /\ HeadersEnd(image) \in Nat
  BY ImageFacts, HeaderLength DEF SessionInv, IInv, TypeInv, Filling, FreshInv, Fresh
<1>2. p \in 1..Len(mem) /\ p > HeadersEnd(image) /\ p \in Nat
  BY <1>1
<1>3. /\ PlacedAt(image, p) # {} /\ Written(p) = {} => mem[p] = before[p]
      /\ \A i : PlacedAt(image, p) = {i} => \A w \in Written(p) : mem[p] = w[2]
  BY <1>2, SessionByte
<1>4. InSegments(image, {p}) => PlacedAt(image, p) # {}
  BY <1>1, <1>2, SegmentHasByte
<1> QED
  BY <1>3, <1>4

(* Without a section table there is no relocation to apply.                  *)
LEMMA LostTableMovesNothingHolds == SessionInv => LostTableMovesNothing
<1> SUFFICES ASSUME SessionInv, pc = "done", round > 1, TableLost(before),
                    NEW p \in 1..Len(mem),
                    p <= HeadersEnd(image) \/ InSegments(image, {p}) \/ before[p] = Zero,
                    p <= HeadersEnd(image) \/ Written(p) = {}
             PROVE  mem[p] = before[p]
  BY DEF LostTableMovesNothing
<1>1. /\ Placeable(image) /\ FullSegments(image) /\ NoTables(image) /\ Len(mem) \in Nat
      /\ HeadersEnd(image) \in Nat
  BY ImageFacts, HeaderLength DEF SessionInv, IInv, TypeInv, Filling, FreshInv, Fresh
<1>2. RelativeEntries(image) = {}
  BY <1>1 DEF NoTables, RelativeEntries
<1>3. /\ p <= HeadersEnd(image) => mem[p] = before[p]
      /\ p > HeadersEnd(image) =>
             /\ PlacedAt(image, p) = {} => mem[p] = Zero
             /\ PlacedAt(image, p) # {} /\ Written(p) = {} => mem[p] = before[p]
  BY <1>2, SessionByte
<1>4. p \in Nat /\ (p <= HeadersEnd(image) \/ p > HeadersEnd(image))
  BY <1>1
<1>5. InSegments(image, {p}) => PlacedAt(image, p) # {}
  BY <1>1, <1>4, SegmentHasByte
<1> QED
  BY <1>3, <1>4, <1>5

(* Edits survive being mapped, and so does all else in a segment, for every  *)
(* image, base and edit and any number of rounds (edit.rs:14-40,             *)
(* parse.rs:131-160, build.rs:163-178).                                      *)
THEOREM EditsSurviveMapping == SessionSpec => []EditsPersist
BY SessionInvariance, EditsPersistHolds, PTL

(* Once the section table is lost, no base moves the image (build.rs:184-194,*)
(* parse.rs:195-203).                                                        *)
THEOREM LostTablesMoveNothing == SessionSpec => []LostTableMovesNothing
BY SessionInvariance, LostTableMovesNothingHolds, PTL

(* What holds of a first mapping holds of every later one, of images read    *)
(* from memory and written to: segments load, pointers shift once, and the   *)
(* memory reads back as the same memory (build.rs:141-240, parse.rs:131-160).*)
THEOREM SessionsLoadMoveAndRead ==
    SessionSpec => [](LoadsInMemory /\ PointersShiftOnce /\ MappingIsStable)
<1>1. SessionInv => LoadsInMemory /\ PointersShiftOnce /\ MappingIsStable
  BY LoadsInMemoryHolds, PointersShiftOnceHolds, MappingIsStableHolds DEF SessionInv
<1> QED
  BY <1>1, SessionInvariance, PTL

-----------------------------------------------------------------------------
(* Sessions that start from an image laid out as a linker does.              *)

(* The memory of im is laid out as that of o: it has the same headers.       *)
SameFrame(im, o) ==
    /\ MappedHeader(im) = MappedHeader(o)
    /\ Len(im.segments) = Len(o.segments)
    /\ \A i \in 1..Len(o.segments) : im.segments[i].header = o.segments[i].header

(* The positions a relocation or one of the edits ws changes; they leave     *)
(* alone what describes the image.                                           *)
OriginBase == ImageBase(origin.segments)
Touched(ws) ==
    (UNION {{OffsetOf(origin, e) - OriginBase + k : k \in 1..Width} :
                e \in RelativeEntries(origin)})
    \cup {w[1] - OriginBase + 1 : w \in ws}
ApartFrom(ws) ==
    /\ Touched(ws) \cap TablePositions(origin) = {}
    /\ \A i \in Kept(origin) : Describing(i) => Touched(ws) \cap Positions(origin, i) = {}

(* What Mappable says, whether there is memory yet or not.                   *)
Sound(im) ==
    /\ HeadersEnd(im) <= ImageSpan(im.segments) /\ Len(im.segments) <= U16Max
    /\ \A i \in 1..Len(im.segments) :
           LET s == im.segments[i]
           IN  /\ IsLoad(s) => Len(s.data) <= s.header.memsz
               /\ MappedLength(s.header) <= ImageSpan(im.segments)
    /\ \A w \in RelativeEntries(im) :
           InSegments(im, Named(im, w)) /\ Named(im, w) \cap 1..HeadersEnd(im) = {}

(* The sections of im are those of the origin that are kept, in order.       *)
KeptIndices == Chosen([i \in 1..Len(origin.sections) |-> i], Kept(origin))
Carried(im) ==
    /\ Len(im.sections) = Len(KeptIndices)
    /\ \A i \in 1..Len(KeptIndices) :
           /\ im.sections[i].name = origin.sections[KeptIndices[i]].name
           /\ im.sections[i].header = origin.sections[KeptIndices[i]].header
           /\ Describing(KeptIndices[i]) => im.sections[i] = origin.sections[KeptIndices[i]]

(* Memory m is that of the origin, but for the edits ws and pointers moved   *)
(* by a distance.                                                            *)
Moved(m, ws, by) ==
    /\ \A p \in 1..ImageSpan(origin.segments) : p \notin Touched(ws) => m[p] = Loaded(origin)[p]
    /\ \A w \in RelativeEntries(origin) :
           /\ Isolated(origin, w) /\ w[1] \in Kept(origin)
           /\ \A e \in ws : e[1] - OriginBase + 1 \notin Named(origin, w)
           => (NumberIn(m, origin, w) - by - NumberIn(Loaded(origin), origin, w))
                  % Radix^Width = 0

OriginInv ==
    /\ origin \in Mapped /\ round \in Nat \ {0} /\ shifts \in Int
    /\ round = 1 => image = origin /\ shifts = 0
    /\ Len(origin.segments) <= U16Max => SameFrame(image, origin)
    /\ Linked(origin) /\ Sound(origin) /\ ApartFrom(edit) =>
           (round > 1 => Carried(image)) /\ Moved(Loaded(image), edit, shifts)

(* Images of the same headers have the same place in memory.                 *)
LEMMA FrameFacts ==
    ASSUME NEW im, NEW o, SameFrame(im, o)
    PROVE  /\ ImageBase(im.segments) = ImageBase(o.segments)
           /\ ImageSpan(im.segments) = ImageSpan(o.segments)
           /\ HeaderBytes(im) = HeaderBytes(o) /\ HeadersEnd(im) = HeadersEnd(o)
<1>1. /\ Len(im.segments) = Len(o.segments) /\ MappedHeader(im) = MappedHeader(o)
      /\ \A i \in 1..Len(o.segments) : im.segments[i].header = o.segments[i].header
  BY DEF SameFrame
<1>2. LoadRecords(im.segments) = LoadRecords(o.segments)
  BY <1>1 DEF LoadRecords, IsLoad
<1>3. [i \in 1..Len(im.segments) |-> im.segments[i].header]
          = [i \in 1..Len(o.segments) |-> o.segments[i].header]
  BY <1>1
<1> QED
  BY <1>1, <1>2, <1>3 DEF ImageBase, ImageSpan, HeaderBytes, HeadersEnd

(* What is known of the first image.                                         *)
LEMMA OriginFacts ==
    ASSUME origin \in Mapped
    PROVE  /\ Placeable(origin) /\ OriginBase \in Nat /\ ImageSpan(origin.segments) \in Nat
           /\ origin.header \in ElfHeader /\ Len(origin.sections) \in Nat
           /\ \A i \in 1..Len(origin.sections) :
                  /\ origin.sections[i] \in Section
                  /\ SectionHeader(origin, i) \in Shdr
                  /\ origin.sections[i].data \in Seq(Byte)
           /\ OriginHeaders \in Seq(Shdr) /\ Len(OriginHeaders) = Len(origin.sections)
           /\ \A i \in 1..Len(origin.sections) : OriginHeaders[i] = SectionHeader(origin, i)
           /\ \A i \in Kept(origin) : i \in 1..Len(origin.sections)
<1>1. origin \in ElfImage
  BY MappedAssumption
<1>2. origin.sections \in Seq(Section) /\ origin.header \in ElfHeader
  BY <1>1 DEF ElfImage
<1>3. Placeable(origin)
  BY MappedPlaceable
<1>4. OriginBase \in Nat /\ ImageSpan(origin.segments) \in Nat /\ Len(origin.sections) \in Nat
  BY <1>3, ImageFacts DEF OriginBase
<1>5. \A i \in 1..Len(origin.sections) : origin.sections[i] \in Section
  BY <1>2
<1>6. \A i \in 1..Len(origin.sections) :
          SectionHeader(origin, i) \in Shdr /\ origin.sections[i].data \in Seq(Byte)
  BY <1>5 DEF Section, SectionHeader
<1>7. OriginHeaders = [i \in 1..Len(origin.sections) |-> SectionHeader(origin, i)]
  BY DEF OriginHeaders
<1>8. \A i \in 1..Len(origin.sections) : OriginHeaders[i] = SectionHeader(origin, i)
  BY <1>7
<1>9. OriginHeaders \in Seq(Shdr) /\ Len(OriginHeaders) = Len(origin.sections)
  <2>1. OriginHeaders \in [1..Len(origin.sections) -> Shdr]
    BY <1>6, <1>7
  <2> QED
    BY <1>4, <2>1
<1> QED
  BY <1>2, <1>3, <1>4, <1>5, <1>6, <1>8, <1>9 DEF Kept

(* Of the origin's sections, in order, the ones kept.                        *)
LEMMA KeptAscend ==
    ASSUME origin \in Mapped
    PROVE  Ascends(KeptIndices, Kept(origin), Len(origin.sections))
<1>1. OriginHeaders \in Seq(Shdr) /\ Len(OriginHeaders) = Len(origin.sections)
  BY OriginFacts
<1> DEFINE list == OriginHeaders
           indices == Kept(origin)
<1> HIDE DEF list, indices
<1>2. list \in Seq(Shdr)
  BY <1>1 DEF list
<1>3. Ascends(Chosen([i \in 1..Len(list) |-> i], indices), indices, Len(list))
  BY <1>2, ChosenIndices
<1> QED
  BY <1>1, <1>3 DEF KeptIndices, list, indices

-----------------------------------------------------------------------------
(* The relocations of an image read back are among those of the origin.      *)

(* Section i of im is section f[i] of the origin, when it is one of          *)
(* relocations, and every section kept is one of them.                       *)
Traces(f, im) ==
    /\ \A i \in 1..Len(im.sections) :
           /\ f[i] \in 1..Len(origin.sections)
           /\ IsTable(im.sections[i]) => im.sections[i] = origin.sections[f[i]]
    /\ \A i, j \in 1..Len(im.sections) : f[i] = f[j] => i = j
    /\ \A j \in Kept(origin) :
           \E i \in 1..Len(im.sections) :
               f[i] = j /\ im.sections[i].header = origin.sections[j].header

(* It is so of the origin itself and of an image read back.                  *)
LEMMA TracesExist ==
    ASSUME origin \in Mapped, NEW im, im = origin \/ Carried(im)
    PROVE  \E f : Traces(f, im)
<1>1. CASE im = origin
  <2> DEFINE f == [i \in 1..Len(origin.sections) |-> i]
  <2>1. \A i \in 1..Len(origin.sections) : f[i] = i
    OBVIOUS
  <2> HIDE DEF f
  <2>2. \A j \in Kept(origin) : j \in 1..Len(origin.sections)
    BY OriginFacts
  <2>3. Traces(f, im)
    BY <1>1, <2>1, <2>2 DEF Traces
  <2> QED
    BY <2>3
<1>2. CASE Carried(im)
  <2> DEFINE f == KeptIndices
             n == Len(origin.sections)
  <2>1. /\ Len(f) \in Nat /\ n \in Nat
        /\ \A l \in 1..Len(f) : f[l] \in 1..n /\ f[l] \in Kept(origin)
        /\ \A k, l \in 1..Len(f) : k < l => f[k] < f[l]
        /\ \A j \in 1..n : j \in Kept(origin) => \E l \in 1..Len(f) : f[l] = j
    BY KeptAscend, OriginFacts DEF Ascends
  <2>2. \A j \in Kept(origin) : j \in 1..n
    BY OriginFacts
  <2>3. /\ Len(im.sections) = Len(f)
        /\ \A i \in 1..Len(f) :
               /\ im.sections[i].header = origin.sections[f[i]].header
               /\ Describing(f[i]) => im.sections[i] = origin.sections[f[i]]
    BY <1>2 DEF Carried
  <2> HIDE DEF f, n
  <2>4. ASSUME NEW i \in 1..Len(f), IsTable(im.sections[i])
        PROVE  im.sections[i] = origin.sections[f[i]]
    <3>1. Describing(f[i])
      BY <2>3, <2>4 DEF IsTable, Describing
    <3> QED
      BY <2>3, <3>1
  <2>5. \A i, j \in 1..Len(f) : f[i] = f[j] => i = j
    <3>1. \A i \in 1..Len(f) : f[i] \in Nat /\ i \in Nat
      BY <2>1
    <3> QED
      BY <2>1, <3>1
  <2>6. \A j \in Kept(origin) :
            \E i \in 1..Len(f) : f[i] = j /\ im.sections[i].header = origin.sections[j].header
    BY <2>1, <2>2, <2>3
  <2>7. Traces(f, im)
    BY <2>1, <2>3, <2>4, <2>5, <2>6 DEF Traces, n
  <2> QED
    BY <2>7
<1> QED
  BY <1>1, <1>2

(* A relocation is one of the origin, of the same word.                      *)
LEMMA WordTraced ==
    ASSUME NEW im, NEW f, SameFrame(im, origin), Traces(f, im), NEW w \in RelativeEntries(im)
    PROVE  /\ <<f[w[1]], w[2]>> \in RelativeEntries(origin)
           /\ WordStart(im, w) = WordStart(origin, <<f[w[1]], w[2]>>)
           /\ Named(im, w) = Named(origin, <<f[w[1]], w[2]>>)
<1> DEFINE v == <<f[w[1]], w[2]>>
<1>1. /\ w[1] \in 1..Len(im.sections) /\ IsTable(im.sections[w[1]])
      /\ w[2] \in 1..Len(Entries(im.sections[w[1]]))
      /\ Entries(im.sections[w[1]])[w[2]].type \in Relative
  BY DEF RelativeEntries
<1>2. im.sections[w[1]] = origin.sections[f[w[1]]] /\ f[w[1]] \in 1..Len(origin.sections)
  BY <1>1 DEF Traces
<1>3. v[1] = f[w[1]] /\ v[2] = w[2]
  OBVIOUS
<1>4. v \in RelativeEntries(origin)
  BY <1>1, <1>2 DEF RelativeEntries
<1>5. OffsetOf(im, w) = OffsetOf(origin, v)
  BY <1>2, <1>3 DEF OffsetOf
<1> HIDE DEF v
<1>6. WordStart(im, w) = WordStart(origin, v)
  BY <1>5, FrameFacts DEF WordStart
<1>7. Named(im, w) = Named(origin, v)
  BY <1>6, FrameFacts DEF Named
<1> QED
  BY <1>4, <1>6, <1>7 DEF v

(* A word of a section kept that no other relocation names is one in im too. *)
LEMMA IsolatedTraced ==
    ASSUME NEW im, NEW f, SameFrame(im, origin), Traces(f, im),
           NEW v, Isolated(origin, v), v[1] \in Kept(origin)
    PROVE  \E w : /\ Isolated(im, w) /\ WordStart(im, w) = WordStart(origin, v)
                  /\ Named(im, w) = Named(origin, v)
<1>1. v \in RelativeEntries(origin) /\ Named(origin, v) # {}
  BY DEF Isolated
<1>2. /\ v = <<v[1], v[2]>> /\ v[1] \in 1..Len(origin.sections)
      /\ IsTable(origin.sections[v[1]])
      /\ v[2] \in 1..Len(Entries(origin.sections[v[1]]))
      /\ Entries(origin.sections[v[1]])[v[2]].type \in Relative
  BY <1>1 DEF RelativeEntries
<1>3. PICK i \in 1..Len(im.sections) :
          f[i] = v[1] /\ im.sections[i].header = origin.sections[v[1]].header
  BY DEF Traces
<1>4. IsTable(im.sections[i]) /\ im.sections[i] = origin.sections[v[1]]
  <2>1. IsTable(im.sections[i])
    BY <1>2, <1>3 DEF IsTable
  <2> QED
    BY <1>3, <2>1 DEF Traces
<1> DEFINE w == <<i, v[2]>>
<1>5. w \in RelativeEntries(im)
  BY <1>2, <1>4 DEF RelativeEntries
<1>6. w[1] = i /\ w[2] = v[2] /\ <<f[w[1]], w[2]>> = v
  BY <1>2, <1>3
<1> HIDE DEF w
<1>7. WordStart(im, w) = WordStart(origin, v) /\ Named(im, w) = Named(origin, v)
  <2>1. /\ WordStart(im, w) = WordStart(origin, <<f[w[1]], w[2]>>)
        /\ Named(im, w) = Named(origin, <<f[w[1]], w[2]>>)
    BY <1>5, WordTraced
  <2> QED
    BY <1>6, <2>1
<1>8. ASSUME NEW u \in RelativeEntries(im) \ {w}
      PROVE  Named(im, u) \cap Named(im, w) = {}
  <2> DEFINE t == <<f[u[1]], u[2]>>
  <2>1. t \in RelativeEntries(origin) /\ Named(im, u) = Named(origin, t)
    BY WordTraced
  <2>2. u = <<u[1], u[2]>> /\ u[1] \in 1..Len(im.sections)
    BY EntryShape
  <2>3. t # v
    <3> SUFFICES ASSUME t = v PROVE FALSE
      OBVIOUS
    <3>1. f[u[1]] = v[1] /\ u[2] = v[2]
      BY <1>2
    <3>2. u[1] = i
      BY <1>3, <2>2, <3>1 DEF Traces
    <3>3. u = w
      BY <2>2, <3>1, <3>2 DEF w
    <3> QED
      BY <3>3
  <2> HIDE DEF t
  <2>4. Named(origin, t) \cap Named(origin, v) = {}
    BY <2>1, <2>3 DEF Isolated
  <2> QED
    BY <1>7, <2>1, <2>4
<1>9. Isolated(im, w)
  BY <1>1, <1>5, <1>7, <1>8 DEF Isolated
<1> QED
  BY <1>7, <1>9

(* A word named is touched.                                                  *)
LEMMA NamedTouched ==
    ASSUME origin \in Mapped, NEW v \in RelativeEntries(origin), NEW p \in Named(origin, v), NEW ws
    PROVE  p \in Touched(ws)
<1> DEFINE start == OffsetOf(origin, v) - OriginBase
<1>1. start \in Int /\ Width \in Nat
  BY OriginFacts, OffsetsAreNumbers, MappedAssumption
<1>2. p \in start + 1..start + Width
  BY DEF Named, WordStart, OriginBase
<1> HIDE DEF start
<1>3. PICK k \in 1..Width : p = start + k
  <2>1. p - start \in 1..Width /\ p = start + (p - start)
    BY <1>1, <1>2
  <2> QED
    BY <2>1
<1>4. p \in {OffsetOf(origin, v) - OriginBase + j : j \in 1..Width}
  BY <1>3 DEF start
<1> QED
  BY <1>4, Zenon DEF Touched

(* So is an edit.                                                            *)
LEMMA EditTouched ==
    ASSUME NEW ws, NEW v \in ws
    PROVE  v[1] - OriginBase + 1 \in Touched(ws)
<1> DEFINE words == UNION {{OffsetOf(origin, e) - OriginBase + k : k \in 1..Width} :
                              e \in RelativeEntries(origin)}
           edits == {w[1] - OriginBase + 1 : w \in ws}
<1>1. Touched(ws) = words \cup edits
  BY Zenon DEF Touched
<1>2. v[1] - OriginBase + 1 \in edits
  OBVIOUS
<1> HIDE DEF words, edits
<1> QED
  BY <1>1, <1>2

(* Edits more touch more.                                                    *)
LEMMA MoreTouched ==
    ASSUME NEW ws, NEW more, \A w \in ws : \E v \in more : v[1] = w[1]
    PROVE  Touched(ws) \subseteq Touched(more) /\ (ApartFrom(more) => ApartFrom(ws))
<1>1. {w[1] - OriginBase + 1 : w \in ws} \subseteq {w[1] - OriginBase + 1 : w \in more}
  BY Zenon
<1>2. Touched(ws) \subseteq Touched(more)
  BY <1>1 DEF Touched
<1> QED
  BY <1>2 DEF ApartFrom

-----------------------------------------------------------------------------
(* What a call leaves of the origin.                                         *)

(* What is assumed of a session that has the properties below.               *)
Followed ==
    SessionInv /\ OriginInv /\ Linked(origin) /\ Sound(origin) /\ ApartFrom(edit)

(* The image is laid out as the origin, with its relocations, ...            *)
LEMMA ImageFollows ==
    ASSUME Followed
    PROVE  /\ origin \in Mapped /\ SameFrame(image, origin) /\ \E f : Traces(f, image)
           /\ Preferred = OriginBase /\ ImageSpan(image.segments) = ImageSpan(origin.segments)
           /\ HeadersEnd(image) = HeadersEnd(origin)
<1>1. origin \in Mapped /\ round \in Nat \ {0}
  BY DEF Followed, OriginInv
<1>2. SameFrame(image, origin)
  BY DEF Followed, OriginInv, Sound
<1>3. image = origin \/ Carried(image)
  <2>1. CASE round = 1
    BY <2>1 DEF Followed, OriginInv
  <2>2. CASE round # 1
    <3>1. round > 1
      BY <1>1, <2>2
    <3> QED
      BY <3>1 DEF Followed, OriginInv
  <2> QED
    BY <2>1, <2>2
<1>4. \E f : Traces(f, image)
  BY <1>1, <1>3, TracesExist
<1> QED
  BY <1>1, <1>2, <1>4, FrameFacts DEF Preferred, OriginBase

(* ... so that it can be mapped as well.                                     *)
LEMMA ImageMappable ==
    ASSUME Followed, pc = "done"
    PROVE  /\ Mappable(image) /\ Len(mem) = ImageSpan(origin.segments)
           /\ \A w : WordAt(image, w) = Named(image, w)
<1>1. /\ SameFrame(image, origin) /\ ImageSpan(image.segments) = ImageSpan(origin.segments)
      /\ HeadersEnd(image) = HeadersEnd(origin) /\ Preferred = OriginBase
  BY ImageFollows
<1>2. PICK f : Traces(f, image)
  BY ImageFollows
<1>3. Len(mem) = ImageSpan(image.segments)
  BY DEF Followed, SessionInv, IInv, TypeInv, Filling
<1>4. \A w : WordAt(image, w) = Named(image, w)
  BY <1>3 DEF WordAt, Named, WordStart
<1>5. /\ Len(image.segments) = Len(origin.segments)
      /\ \A i \in 1..Len(image.segments) : image.segments[i].header = origin.segments[i].header
  BY <1>1 DEF SameFrame
<1>6. Sound(origin)
  BY DEF Followed
<1>7. HeadersEnd(image) <= ImageSpan(image.segments) /\ Len(image.segments) <= U16Max
  BY <1>1, <1>5, <1>6 DEF Sound
<1>8. ASSUME NEW i \in 1..Len(image.segments)
      PROVE  /\ IsLoad(image.segments[i])
                    => Len(image.segments[i].data) <= image.segments[i].header.memsz
             /\ MappedLength(image.segments[i].header) <= ImageSpan(image.segments)
  <2>1. MappedLength(image.segments[i].header) <= ImageSpan(image.segments)
    BY <1>1, <1>5, <1>6 DEF Sound
  <2>2. round \in Nat \ {0} /\ (round = 1 => image = origin)
    BY DEF Followed, OriginInv
  <2>3. CASE round = 1
    BY <1>5, <1>6, <2>1, <2>2, <2>3 DEF Sound
  <2>4. CASE round # 1
    <3>1. round > 1
      BY <2>2, <2>4
    <3>2. FullSegments(image) /\ Placeable(image)
      BY <3>1 DEF Followed, SessionInv, FreshInv, Fresh, IInv, TypeInv
    <3>3. Len(image.segments[i].data) \in Nat
      BY <3>2 DEF Placeable
    <3> QED
      BY <2>1, <3>2, <3>3 DEF FullSegments
  <2> QED
    BY <2>3, <2>4
<1>9. ASSUME NEW w \in RelativeEntries(image)
      PROVE  /\ InSegments(image, WordAt(image, w))
             /\ WordAt(image, w) \cap 1..HeadersEnd(image) = {}
  <2> DEFINE v == <<f[w[1]], w[2]>>
  <2>1. v \in RelativeEntries(origin) /\ Named(image, w) = Named(origin, v)
    BY <1>1, <1>2, WordTraced
  <2> HIDE DEF v
  <2>2. InSegments(origin, Named(origin, v)) /\ Named(origin, v) \cap 1..HeadersEnd(origin) = {}
    BY <1>6, <2>1 DEF Sound
  <2>3. InSegments(image, Named(origin, v))
    BY <1>1, <1>5, <2>2 DEF InSegments, IsLoad, Preferred, OriginBase
  <2> QED
    BY <1>1, <1>4, <2>1, <2>2, <2>3
<1>10. Mappable(image)
  BY <1>7, <1>8, <1>9 DEF Mappable
<1> QED
  BY <1>1, <1>3, <1>4, <1>10

(* Two multiples of a number add up to one.                                  *)
LEMMA MultiplesAdd ==
    ASSUME NEW m \in Nat \ {0}, NEW a \in Int, NEW b \in Int, a % m = 0, b % m = 0
    PROVE  (a + b) % m = 0
<1> DEFINE p == a \div m
           q == b \div m
<1>1. p \in Int /\ q \in Int /\ a = (m * p) + (a % m) /\ b = (m * q) + (b % m)
  BY IntDivMod
<1> HIDE DEF p, q
<1>2. a + b = m * (p + q) /\ p + q \in Int
  <2>1. m * (p + q) = (m * p) + (m * q) /\ m * p \in Int /\ m * q \in Int
    BY <1>1, SMTT(30)
  <2>2. a = m * p /\ b = m * q
    BY <1>1, <2>1
  <2> QED
    BY <1>1, <2>1, <2>2
<1>3. (m * (p + q)) % m = 0
  BY <1>2, MultipleMod
<1> QED
  BY <1>2, <1>3

(* The memory left has the pointers moved by one more distance, and nothing  *)
(* else.                                                                     *)
LEMMA MemoryMoved ==
    ASSUME Followed, pc = "done"
    PROVE  Moved(mem, edit, shifts + base - OriginBase)
<1>1. /\ SameFrame(image, origin) /\ ImageSpan(image.segments) = ImageSpan(origin.segments)
      /\ Preferred = OriginBase /\ origin \in Mapped
  BY ImageFollows
<1>2. PICK f : Traces(f, image)
  BY ImageFollows
<1>3. Len(mem) = ImageSpan(origin.segments) /\ \A w : WordAt(image, w) = Named(image, w)
  BY ImageMappable
<1>4. Moved(Loaded(image), edit, shifts)
  BY DEF Followed, OriginInv
<1>5. /\ IInv /\ PointersInv /\ base \in Nat /\ shifts \in Int
      /\ Placeable(origin) /\ OriginBase \in Nat
  BY <1>1, OriginFacts DEF Followed, SessionInv, OriginInv, IInv, TypeInv
<1>6. ASSUME NEW p \in 1..ImageSpan(origin.segments), p \notin Touched(edit)
      PROVE  mem[p] = Loaded(origin)[p]
  <2>1. ASSUME NEW w \in RelativeEntries(image), p \in WordAt(image, w) PROVE FALSE
    <3> DEFINE v == <<f[w[1]], w[2]>>
    <3>1. v \in RelativeEntries(origin) /\ Named(image, w) = Named(origin, v)
      BY <1>1, <1>2, WordTraced
    <3> HIDE DEF v
    <3>2. p \in Named(origin, v)
      BY <1>3, <2>1, <3>1
    <3> QED
      BY <1>1, <1>6, <3>1, <3>2, NamedTouched
  <2>2. mem[p] = Loaded(image)[p]
    BY <1>1, <1>5, <2>1 DEF IInv, RestIsLoaded, Filled, Unnamed
  <2> QED
    BY <1>4, <1>6, <2>2 DEF Moved
<1>7. ASSUME NEW w \in RelativeEntries(origin),
             Isolated(origin, w), w[1] \in Kept(origin),
             \A e \in edit : e[1] - OriginBase + 1 \notin Named(origin, w)
      PROVE  (NumberIn(mem, origin, w) - (shifts + base - OriginBase)
                  - NumberIn(Loaded(origin), origin, w)) % Radix^Width = 0
  <2> DEFINE x == NumberIn(mem, origin, w)
             a == NumberIn(Loaded(image), origin, w)
             z == NumberIn(Loaded(origin), origin, w)
             m == Radix^Width
  <2>1. Width \in 0..(2 * Word) /\ Width \in Nat
    <3>1. Word \in Nat
      BY TablesAssumption DEF Word
    <3> QED
      BY <3>1, MappedAssumption
  <2>2. m \in Nat \ {0} /\ x \in Nat /\ a \in Nat /\ z \in Nat
    BY <2>1, TablesAssumption, NumberIsNatural DEF NumberIn
  <2>3. (a - shifts - z) % m = 0
    BY <1>4, <1>7 DEF Moved
  <2>4. (x + OriginBase - base - a) % m = 0
    <3>1. CASE base = OriginBase
      <4>1. \A k \in 1..Width : mem[WordStart(origin, w) + k]
                                    = Loaded(image)[WordStart(origin, w) + k]
        <5>1. \A k \in 1..Width : WordStart(origin, w) + k \in 1..ImageSpan(origin.segments)
          BY <1>5, <1>7, NamedFacts DEF Isolated
        <5>2. \A p \in 1..ImageSpan(origin.segments) : mem[p] = Loaded(image)[p]
          BY <1>1, <1>5, <3>1 DEF Followed, IInv, RestIsLoaded, Filled, Unnamed
        <5> QED
          BY <5>1, <5>2
      <4>2. x = a
        BY <2>1, <4>1, SameNumber DEF NumberIn
      <4> HIDE DEF x, a, z, m
      <4>3. x + OriginBase - base - a = m * 0 /\ 0 \in Int
        BY <1>5, <2>2, <3>1, <4>2
      <4>4. (m * 0) % m = 0
        BY <2>2, MultipleMod
      <4> QED
        BY <4>3, <4>4
    <3>2. CASE base # OriginBase
      <4>1. PICK u : /\ Isolated(image, u) /\ WordStart(image, u) = WordStart(origin, w)
                     /\ Named(image, u) = Named(origin, w)
        BY <1>1, <1>2, <1>7, IsolatedTraced
      <4>2. /\ u \in RelativeEntries(image) /\ WordAt(image, u) # {}
            /\ \A v \in RelativeEntries(image) \ {u} : WordAt(image, v) \cap WordAt(image, u) = {}
        BY <1>3, <4>1 DEF Isolated
      <4>3. PointersShiftOnce
        BY <1>5, PointersShiftOnceHolds
      <4>4. (NumberAt(mem, OffsetOf(image, u) - Preferred, Width, Order) + Preferred - base
                 - NumberAt(Loaded(image), OffsetOf(image, u) - Preferred, Width, Order))
                % Radix^Width = 0
        BY <1>1, <3>2, <4>2, <4>3 DEF PointersShiftOnce
      <4>5. OffsetOf(image, u) - Preferred = WordStart(origin, w)
        BY <4>1 DEF WordStart, Preferred
      <4> QED
        BY <1>1, <4>4, <4>5 DEF NumberIn
    <3> QED
      BY <3>1, <3>2
  <2> HIDE DEF x, a, z, m
  <2>5. ((a - shifts - z) + (x + OriginBase - base - a)) % m = 0
    <3>1. a - shifts - z \in Int /\ x + OriginBase - base - a \in Int
      BY <1>5, <2>2
    <3> QED
      BY <2>2, <2>3, <2>4, <3>1, MultiplesAdd
  <2>6. (a - shifts - z) + (x + OriginBase - base - a) = x - (shifts + base - OriginBase) - z
    BY <1>5, <2>2
  <2> QED
    BY <2>5, <2>6 DEF x, z, m
<1> QED
  BY <1>6, <1>7 DEF Moved

-----------------------------------------------------------------------------
(* What is read of the origin's sections.                                    *)

(* Bytes that lie apart from what is touched stay where they are.            *)
LEMMA BytesStay ==
    ASSUME NEW m, NEW o, NEW n \in Nat, Len(m) = n, Len(o) = n, NEW S,
           \A p \in 1..n : p \notin S => m[p] = o[p],
           NEW at \in Nat, NEW bytes, Len(bytes) \in Nat, HoldsAt(o, at, bytes),
           S \cap (at + 1..at + Len(bytes)) = {}
    PROVE  HoldsAt(m, at, bytes)
<1>1. at + Len(bytes) <= n /\ \A k \in 1..Len(bytes) : o[at + k] = bytes[k]
  BY DEF HoldsAt
<1>2. ASSUME NEW k \in 1..Len(bytes) PROVE m[at + k] = bytes[k]
  <2>1. at + k \in at + 1..at + Len(bytes) /\ at + k \in 1..n
    BY <1>1
  <2> QED
    BY <1>1, <2>1
<1> QED
  BY <1>1, <1>2 DEF HoldsAt

(* The memory has the headers of the image, which are those of the origin.   *)
LEMMA HeadersFollow ==
    ASSUME Followed, pc = "done"
    PROVE  /\ StartsWith(mem, image) /\ ZerosBetween(mem, image)
           /\ Ehdr(mem) \in ElfHeader /\ Ehdr(mem).shoff = origin.header.shoff
           /\ Ehdr(mem).shnum = Len(origin.sections)
           /\ Ehdr(mem).shstrndx = origin.header.shstrndx
           /\ MappedBase(mem) = OriginBase
           /\ Len(mem) \in Nat /\ Len(mem) <= MaxImage
           /\ Len(mem) = ImageSpan(origin.segments) /\ Len(Loaded(origin)) = Len(mem)
<1>1. IInv /\ Mappable(image) /\ Len(mem) = ImageSpan(origin.segments)
  BY ImageMappable DEF Followed, SessionInv
<1>2. StartsWith(mem, image) /\ ZerosBetween(mem, image)
  BY <1>1, FinishedMemory
<1>3. /\ Ehdr(mem) = MappedHeader(image) /\ Ehdr(mem) \in ElfHeader
      /\ MappedBase(mem) = ImageBase(image.segments)
  BY <1>2, HeadersRead
<1>4. /\ MappedHeader(image) = MappedHeader(origin) /\ ImageBase(image.segments) = OriginBase
      /\ origin \in Mapped
  BY ImageFollows DEF SameFrame, Preferred
<1>5. origin.header \in ElfHeader /\ ImageSpan(origin.segments) \in Nat
  BY <1>4, OriginFacts
<1>6. /\ MappedHeader(origin).shoff = origin.header.shoff
      /\ MappedHeader(origin).shnum = origin.header.shnum
      /\ MappedHeader(origin).shstrndx = origin.header.shstrndx
  BY <1>5 DEF MappedHeader, ElfHeader
<1>7. origin.header.shnum = Len(origin.sections)
  BY DEF Followed, Linked
<1>8. Len(mem) <= MaxImage
  BY <1>2 DEF StartsWith
<1>9. Len(Loaded(origin)) = ImageSpan(origin.segments)
  <2> DEFINE l == Loaded(origin)
  <2>1. l = [p \in 1..ImageSpan(origin.segments) |-> l[p]]
    BY DEF Loaded
  <2> HIDE DEF l
  <2>2. Len(l) = ImageSpan(origin.segments)
    BY <1>5, <2>1, MadeSequence
  <2> QED
    BY <2>2 DEF l
<1> QED
  BY <1>1, <1>2, <1>3, <1>4, <1>5, <1>6, <1>7, <1>8, <1>9

(* Untouched, it has what the loaded origin has.                             *)
LEMMA MemoryStays ==
    ASSUME Followed, pc = "done", NEW at \in Nat, NEW bytes, Len(bytes) \in Nat,
           HoldsAt(Loaded(origin), at, bytes),
           Touched(edit) \cap (at + 1..at + Len(bytes)) = {}
    PROVE  HoldsAt(mem, at, bytes)
<1> DEFINE n == ImageSpan(origin.segments)
<1>1. n \in Nat /\ Len(mem) = n /\ Len(Loaded(origin)) = n
  BY HeadersFollow
<1>2. \A p \in 1..n : p \notin Touched(edit) => mem[p] = Loaded(origin)[p]
  BY MemoryMoved DEF Moved
<1> HIDE DEF n
<1> QED
  BY <1>1, <1>2, BytesStay

(* So the section table is found.                                            *)
LEMMA TableFound ==
    ASSUME Followed, pc = "done", NEW headers \in SectionTables(mem)
    PROVE  headers = OriginHeaders
<1> DEFINE n  == Len(origin.sections)
           at == origin.header.shoff
           t  == EncodedTable(OriginHeaders, ShEntSize)
<1>1. /\ Ehdr(mem).shoff = at /\ Ehdr(mem).shnum = n
      /\ Len(mem) \in Nat /\ Len(mem) <= MaxImage
  BY HeadersFollow
<1>2. /\ origin \in Mapped /\ n \in Nat /\ origin.header \in ElfHeader
      /\ OriginHeaders \in Seq(Shdr) /\ Len(OriginHeaders) = n
      /\ \A i \in 1..n : SectionHeader(origin, i) \in Shdr
      /\ \A i \in 1..n : OriginHeaders[i] = SectionHeader(origin, i)
  BY ImageFollows, OriginFacts
<1>3. at \in Nat /\ ShEntSize \in Nat \ {0} /\ MaxImage \in Nat
  <2>1. at \in U64
    BY <1>2 DEF ElfHeader
  <2> QED
    BY <2>1, FormatAssumption, U64MaxAssumption DEF U64
<1>4. ShEntSize * n \in Nat /\ n * ShEntSize = ShEntSize * n
      /\ (n # 0 => ShEntSize <= ShEntSize * n)
  BY <1>2, <1>3, SMTT(30)
<1>5. Len(t) = ShEntSize * n
  <2>1. t = [p \in 1..ShEntSize * n |-> t[p]]
    BY <1>2 DEF EncodedTable
  <2> HIDE DEF t, n
  <2> QED
    BY <1>4, <2>1, MadeSequence
<1>6. HoldsAt(mem, at, t)
  <2>1. HoldsAt(Loaded(origin), at, t)
    BY DEF Followed, Linked, OriginHeaders
  <2>2. Touched(edit) \cap (at + 1..at + Len(t)) = {}
    BY <1>5 DEF Followed, ApartFrom, TablePositions
  <2> HIDE DEF at, t
  <2> QED
    BY <1>3, <1>4, <1>5, <2>1, <2>2, MemoryStays
<1>7. at + (ShEntSize * n) <= Len(mem)
  BY <1>5, <1>6 DEF HoldsAt
<1>8. ASSUME NEW i \in 1..n
      PROVE  HeadersAt(mem, TableStart(mem, i)) = {SectionHeader(origin, i)}
  <2> DEFINE records == OriginHeaders
             o == at + (i - 1) * ShEntSize
  <2>1. records \in Seq(Shdr) /\ (records # <<>> => ShEntSize <= MaxImage)
    <3>1. ShEntSize <= ShEntSize * n
      BY <1>2, <1>4
    <3> DEFINE y == ShEntSize * n
    <3>2. y \in Nat /\ at + y <= Len(mem) /\ ShEntSize <= y
      BY <1>4, <1>7, <3>1
    <3> HIDE DEF y, at
    <3> QED
      BY <1>1, <1>2, <1>3, <3>2
  <2>2. Len(records) = n
    BY <1>2
  <2> HIDE DEF records, at
  <2>3. /\ DecodesTable(mem, at, Len(records), ShEntSize)
        /\ TableAt(mem, at, Len(records), ShEntSize) = records
    BY <1>1, <1>3, <1>6, <2>1, TableHeld DEF records, at
  <2>4. Decodes(mem, o, ShEntSize)
    BY <2>2, <2>3 DEF DecodesTable
  <2>5. DecodedAt(mem, o) = records[i]
    <3>1. TableAt(mem, at, n, ShEntSize)[i] = DecodedAt(mem, o)
      BY DEF TableAt
    <3> QED
      BY <2>2, <2>3, <3>1
  <2>6. records[i] = SectionHeader(origin, i) /\ SectionHeader(origin, i) \in Shdr
    BY <1>2 DEF records
  <2>7. TableStart(mem, i) = o
    BY <1>1 DEF TableStart, at
  <2> HIDE DEF o
  <2> QED
    BY <2>4, <2>5, <2>6, <2>7 DEF HeadersAt
<1>9. ~(TableEnd(mem) > Len(mem))
  <2>1. TableEnd(mem) = at + (((n + 1) - 1) * ShEntSize)
    BY <1>1 DEF TableEnd, TableStart
  <2>2. (n + 1) - 1 = n
    BY <1>2
  <2> DEFINE y == ShEntSize * n
  <2>3. TableEnd(mem) = at + y /\ y \in Nat /\ at + y <= Len(mem)
    BY <1>4, <1>7, <2>1, <2>2
  <2> HIDE DEF y, at
  <2> QED
    BY <1>1, <1>3, <2>3
<1>10. /\ headers = [i \in 1..n |-> headers[i]]
       /\ \A i \in 1..n : headers[i] \in HeadersAt(mem, TableStart(mem, i))
  BY <1>1, <1>9 DEF SectionTables
<1>11. \A i \in 1..n : headers[i] = SectionHeader(origin, i)
  BY <1>8, <1>10
<1> QED
  BY <1>10, <1>11 DEF OriginHeaders

(* The data of a section kept that describes the image is read as it was.    *)
LEMMA DataRead ==
    ASSUME Followed, pc = "done", NEW i \in Kept(origin), Describing(i),
           ~IsNobits(origin.sections[i])
    PROVE  Lenient(mem, MappedStart(SectionHeader(origin, i), OriginBase),
                   SectionHeader(origin, i).size) = origin.sections[i].data
<1> DEFINE d  == origin.sections[i].data
           h  == SectionHeader(origin, i)
           at == Home(origin, i)
<1>1. /\ origin \in Mapped /\ i \in 1..Len(origin.sections) /\ OriginBase \in Nat
      /\ h \in Shdr /\ d \in Seq(Byte)
  BY ImageFollows, OriginFacts
<1>2. h.addr \in Nat /\ h.offset \in Nat /\ h.alloc \in BOOLEAN /\ h.size \in Nat
  <2>1. h.addr \in U64 /\ h.offset \in U64 /\ h.alloc \in BOOLEAN /\ h.size \in Nat
    BY <1>1 DEF Shdr
  <2> QED
    BY <2>1, U64MaxAssumption DEF U64
<1>3. at >= 0 /\ HoldsAt(Loaded(origin), at, d) /\ Len(d) = h.size
  BY DEF Followed, Linked, Stored, SectionHeader
<1>4. at = IF h.alloc THEN h.addr - OriginBase ELSE h.offset
  BY DEF Home, OriginBase
<1>5. at \in Nat
  BY <1>1, <1>2, <1>3, <1>4
<1>6. MappedStart(h, OriginBase) = at
  BY <1>1, <1>2, <1>3, <1>4 DEF MappedStart, SatSub
<1>7. HoldsAt(mem, at, d)
  <2>1. Touched(edit) \cap (at + 1..at + Len(d)) = {}
    BY DEF Followed, ApartFrom, Positions
  <2>2. Len(d) \in Nat
    BY <1>2, <1>3
  <2> HIDE DEF at, d
  <2> QED
    BY <1>3, <1>5, <2>1, <2>2, MemoryStays
<1>8. \A k \in 1..h.size : at + k <= Len(mem) /\ mem[at + k] = d[k]
  <2>1. at + Len(d) <= Len(mem) /\ \A k \in 1..Len(d) : mem[at + k] = d[k]
    BY <1>7 DEF HoldsAt
  <2>2. Len(mem) \in Nat
    BY HeadersFollow
  <2> HIDE DEF at, d, h
  <2> QED
    BY <1>2, <1>3, <1>5, <2>1, <2>2
<1>9. Lenient(mem, at, h.size) = [k \in 1..h.size |-> d[k]]
  BY <1>8 DEF Lenient
<1>10. d = [k \in 1..h.size |-> d[k]]
  <2> HIDE DEF d, h
  <2>1. d = [k \in 1..Len(d) |-> d[k]]
    BY <1>1
  <2> QED
    BY <1>3, <2>1
<1> QED
  BY <1>6, <1>9, <1>10

(* What is refused when the memory is read is what is refused by its length. *)
LEMMA KeptRead ==
    ASSUME Followed, pc = "done"
    PROVE  /\ Kept(origin) = {i \in 1..Len(OriginHeaders) : ~Refused(mem, OriginHeaders[i])}
           /\ KeptHeaders(mem, OriginHeaders) = Chosen(OriginHeaders, Kept(origin))
<1>1. origin \in Mapped /\ Len(Loaded(origin)) = Len(mem)
  BY ImageFollows, HeadersFollow
<1>2. /\ Len(OriginHeaders) = Len(origin.sections)
      /\ \A i \in 1..Len(origin.sections) : OriginHeaders[i] = SectionHeader(origin, i)
  BY <1>1, OriginFacts
<1>3. \A h : Refused(mem, h) <=> Refused(Loaded(origin), h)
  BY <1>1 DEF Refused
<1>4. Kept(origin) = {i \in 1..Len(OriginHeaders) : ~Refused(mem, OriginHeaders[i])}
  BY <1>2, <1>3 DEF Kept
<1> QED
  BY <1>4 DEF KeptHeaders

(* So are the names.                                                         *)
LEMMA NamesRead ==
    ASSUME Followed, pc = "done"
    PROVE  MappedNames(mem, OriginHeaders, OriginBase) = NamesOf(origin)
<1> DEFINE i == origin.header.shstrndx + 1
           n == Len(origin.sections)
<1>1. Ehdr(mem).shstrndx = origin.header.shstrndx /\ origin \in Mapped
  BY HeadersFollow, ImageFollows
<1>2. /\ Len(OriginHeaders) = n /\ n \in Nat /\ origin.header \in ElfHeader
      /\ \A j \in 1..n : OriginHeaders[j] = SectionHeader(origin, j)
  BY <1>1, OriginFacts
<1>3. i \in Nat \ {0}
  <2>1. origin.header.shstrndx \in Nat
    BY <1>2 DEF ElfHeader
  <2> QED
    BY <2>1
<1> DEFINE found == /\ i <= n /\ SectionHeader(origin, i).type = "STRTAB"
                    /\ ~Refused(mem, SectionHeader(origin, i))
<1>4. MappedNames(mem, OriginHeaders, OriginBase)
          = IF found
            THEN Lenient(mem, MappedStart(SectionHeader(origin, i), OriginBase),
                         SectionHeader(origin, i).size)
            ELSE <<>>
  <2>1. i <= n => OriginHeaders[i] = SectionHeader(origin, i)
    BY <1>2, <1>3
  <2> QED
    BY <1>1, <1>2, <2>1 DEF MappedNames
<1>5. found <=> i \in Kept(origin) /\ SectionHeader(origin, i).type = "STRTAB"
  <2>1. Kept(origin) = {j \in 1..Len(OriginHeaders) : ~Refused(mem, OriginHeaders[j])}
    BY KeptRead
  <2>2. i \in Kept(origin) <=> i <= n /\ ~Refused(mem, SectionHeader(origin, i))
    BY <1>2, <1>3, <2>1
  <2> QED
    BY <2>2
<1>6. NamesOf(origin) = IF found THEN origin.sections[i].data ELSE <<>>
  BY <1>5 DEF NamesOf
<1> HIDE DEF found
<1>7. ASSUME found
      PROVE  Lenient(mem, MappedStart(SectionHeader(origin, i), OriginBase),
                     SectionHeader(origin, i).size) = origin.sections[i].data
  <2>1. i \in Kept(origin) /\ SectionHeader(origin, i).type = "STRTAB"
    BY <1>5, <1>7
  <2>2. Describing(i) /\ ~IsNobits(origin.sections[i])
    BY <2>1 DEF Describing, IsNobits, SectionHeader
  <2> HIDE DEF i
  <2> QED
    BY <2>1, <2>2, DataRead
<1> QED
  BY <1>4, <1>6, <1>7

(* The sections read are those of the origin that are kept.                  *)
LEMMA SectionsCarried ==
    ASSUME Followed, pc = "done", NEW headers \in SectionTables(mem)
    PROVE  Carried(ParsedMapped(mem, headers))
<1> DEFINE ids  == KeptIndices
           kept == KeptHeaders(mem, OriginHeaders)
           n    == Len(origin.sections)
           new  == ParsedMapped(mem, headers)
           size(h) == IF h.type = "NOBITS" THEN 0 ELSE h.size
<1>1. /\ headers = OriginHeaders /\ origin \in Mapped /\ MappedBase(mem) = OriginBase
      /\ MappedNames(mem, OriginHeaders, OriginBase) = NamesOf(origin)
      /\ kept = Chosen(OriginHeaders, Kept(origin))
  BY TableFound, ImageFollows, HeadersFollow, NamesRead, KeptRead
<1>2. /\ OriginHeaders \in Seq(Shdr) /\ Len(OriginHeaders) = n /\ n \in Nat
      /\ \A i \in 1..n : OriginHeaders[i] = SectionHeader(origin, i)
      /\ \A i \in 1..n : origin.sections[i] \in Section
  BY <1>1, OriginFacts
<1>3. Ascends(ids, Kept(origin), n) /\ Picks(kept, ids, OriginHeaders)
  <2> DEFINE list == OriginHeaders
             indices == Kept(origin)
  <2> HIDE DEF list, indices
  <2>1. list \in Seq(Shdr)
    BY <1>2 DEF list
  <2>2. /\ Ascends(Chosen([i \in 1..Len(list) |-> i], indices), indices, Len(list))
        /\ Picks(Chosen(list, indices), Chosen([i \in 1..Len(list) |-> i], indices), list)
    BY <2>1, ChosenIndices
  <2> QED
    BY <1>1, <1>2, <2>2 DEF KeptIndices, list, indices
<1>4. /\ Len(ids) \in Nat /\ Len(kept) = Len(ids)
      /\ \A l \in 1..Len(ids) : ids[l] \in 1..n /\ ids[l] \in Kept(origin)
      /\ \A l \in 1..Len(ids) : kept[l] = OriginHeaders[ids[l]]
  BY <1>3 DEF Ascends, Picks
<1> HIDE DEF ids, kept, n
<1>5. \A l \in 1..Len(ids) : kept[l] = SectionHeader(origin, ids[l])
  BY <1>2, <1>4
<1>6. new.sections = [l \in 1..Len(ids) |->
                         [name   |-> NameAt(NamesOf(origin), kept[l].nameIndex),
                          header |-> kept[l],
                          data   |-> Lenient(mem, MappedStart(kept[l], OriginBase),
                                             size(kept[l]))]]
  <2>1. new.sections = ReadMappedSections(mem, OriginHeaders, OriginBase)
    BY <1>1 DEF ParsedMapped
  <2> QED
    BY <1>1, <1>4, <2>1 DEF ReadMappedSections, kept
<1>7. Len(new.sections) = Len(ids)
  <2>1. new.sections = [l \in 1..Len(ids) |-> new.sections[l]]
    BY <1>6
  <2> HIDE DEF new
  <2> QED
    BY <1>4, <2>1, MadeSequence
<1>8. ASSUME NEW l \in 1..Len(ids)
      PROVE  /\ new.sections[l].name = origin.sections[ids[l]].name
             /\ new.sections[l].header = origin.sections[ids[l]].header
             /\ Describing(ids[l]) => new.sections[l] = origin.sections[ids[l]]
  <2> DEFINE j == ids[l]
             s == origin.sections[j]
             h == SectionHeader(origin, j)
             d == Lenient(mem, MappedStart(h, OriginBase), size(h))
  <2>1. j \in 1..n /\ j \in Kept(origin) /\ kept[l] = h /\ h = s.header
    BY <1>4, <1>5 DEF SectionHeader
  <2>2. new.sections[l] = [name   |-> NameAt(NamesOf(origin), h.nameIndex),
                           header |-> h, data |-> d]
    BY <1>6, <2>1
  <2>3. /\ s.name = NameAt(NamesOf(origin), h.nameIndex)
        /\ IsNobits(s) => s.data = <<>>
    BY <2>1 DEF Followed, Linked
  <2>4. s = [name |-> s.name, header |-> s.header, data |-> s.data]
    <3>1. s \in Section
      BY <1>2, <2>1 DEF n
    <3> HIDE DEF s
    <3> QED
      BY <3>1 DEF Section
  <2>5. ASSUME Describing(j) PROVE d = s.data
    <3>1. CASE IsNobits(s)
      <4>1. size(h) = 0 /\ s.data = <<>>
        BY <2>1, <2>3, <3>1 DEF IsNobits
      <4>2. d = <<>>
        BY <4>1 DEF Lenient
      <4> QED
        BY <4>1, <4>2
    <3>2. CASE ~IsNobits(s)
      <4>1. size(h) = h.size
        BY <2>1, <3>2 DEF IsNobits
      <4>2. Lenient(mem, MappedStart(h, OriginBase), h.size) = s.data
        <5>1. j \in Kept(origin) /\ ~IsNobits(origin.sections[j])
          BY <2>1, <3>2
        <5> HIDE DEF j
        <5> QED
          BY <2>5, <5>1, DataRead
      <4> QED
        BY <4>1, <4>2
    <3> QED
      BY <3>1, <3>2
  <2> HIDE DEF new, s, h, d
  <2>6. /\ new.sections[l].name = s.name /\ new.sections[l].header = s.header
        /\ new.sections[l].data = d
    BY <2>1, <2>2, <2>3
  <2>7. ASSUME Describing(j) PROVE new.sections[l] = s
    <3>1. d = s.data
      BY <2>5, <2>7
    <3>2. new.sections[l] = [name |-> s.name, header |-> s.header, data |-> s.data]
      BY <2>1, <2>2, <2>3, <3>1
    <3> QED
      BY <2>4, <3>2
  <2> QED
    BY <2>6, <2>7 DEF s
<1> QED
  BY <1>7, <1>8 DEF Carried, ids

-----------------------------------------------------------------------------
(* Reading the memory back and writing to the image.                         *)

(* What is not written of an image that was read is what the memory has.     *)
LEMMA FreshLoaded ==
    ASSUME NEW im, Placeable(im), NEW m, NEW ws, Fresh(im, m, ws),
           NEW o, SameFrame(im, o), ZerosBetween(m, o), Len(m) = ImageSpan(im.segments),
           NEW p \in 1..ImageSpan(im.segments), WrittenAt(im, ws, p) = {}
    PROVE  Loaded(im)[p] = m[p]
<1>1. /\ Len(HeaderBytes(im)) = HeadersEnd(im) /\ HeadersEnd(im) \in Nat
      /\ ImageSpan(im.segments) \in Nat /\ p \in Nat
  BY ImageFacts, HeaderLength
<1>2. FullSegments(im) /\ ReadFrom(im, m, ws)
  BY DEF Fresh
<1>3. CASE p <= HeadersEnd(im)
  <2>1. Loaded(im)[p] = HeaderBytes(im)[p]
    BY <1>1, <1>3 DEF Loaded
  <2>2. HeaderBytes(im)[p] = m[p]
    BY <1>2, <1>3 DEF ReadFrom
  <2> QED
    BY <2>1, <2>2
<1>4. CASE ~(p <= HeadersEnd(im)) /\ PlacedAt(im, p) = {}
  <2>1. Loaded(im)[p] = Zero
    BY <1>1, <1>4 DEF Loaded
  <2>2. ~InSegments(im, {p})
    BY <1>1, <1>2, <1>4, SegmentHasByte
  <2>3. \A i \in 1..Len(im.segments) :
            LET start == im.segments[i].header.vaddr - ImageBase(im.segments)
            IN  IsLoad(im.segments[i])
                    => ~(start < p /\ p <= start + im.segments[i].header.memsz)
    BY <2>2 DEF InSegments
  <2>4. p \in HeadersEnd(o) + 1..Len(m)
    <3>1. HeadersEnd(o) = HeadersEnd(im)
      BY FrameFacts
    <3> QED
      BY <1>1, <1>4, <3>1
  <2>5. \A i \in 1..Len(o.segments) :
            LET start == o.segments[i].header.vaddr - ImageBase(o.segments)
            IN  IsLoad(o.segments[i])
                    => ~(start < p /\ p <= start + o.segments[i].header.memsz)
    <3>1. ImageBase(im.segments) = ImageBase(o.segments) /\ Len(im.segments) = Len(o.segments)
          /\ \A i \in 1..Len(o.segments) : im.segments[i].header = o.segments[i].header
      BY FrameFacts DEF SameFrame
    <3> QED
      BY <2>3, <3>1 DEF IsLoad
  <2>6. m[p] = Zero
    BY <2>4, <2>5 DEF ZerosBetween
  <2> QED
    BY <2>1, <2>6
<1>5. CASE ~(p <= HeadersEnd(im)) /\ PlacedAt(im, p) # {}
  <2> DEFINE g == Greatest(PlacedAt(im, p))
  <2>1. Loaded(im)[p] = ByteOf(im, g, p)
    BY <1>1, <1>5 DEF Loaded, ByteOf
  <2>2. g \in PlacedAt(im, p)
    BY <1>5, LastIsPlaced
  <2> HIDE DEF g
  <2>3. ByteOf(im, g, p) = m[p]
    BY <1>2, <2>2 DEF ReadFrom
  <2> QED
    BY <2>1, <2>3
<1> QED
  BY <1>3, <1>4, <1>5

(* Memory that differs only by more edits is still that of the origin.       *)
LEMMA MovedOn ==
    ASSUME origin \in Mapped, NEW m, NEW ws, NEW by, Moved(m, ws, by), NEW more,
           \A w \in ws : \E v \in more : v[1] = w[1], NEW l,
           \A p \in 1..ImageSpan(origin.segments) :
               (\A e \in more : e[1] - OriginBase + 1 # p) => l[p] = m[p]
    PROVE  Moved(l, more, by)
<1>1. Touched(ws) \subseteq Touched(more)
  BY MoreTouched
<1>2. ASSUME NEW p \in 1..ImageSpan(origin.segments), p \notin Touched(more)
      PROVE  l[p] = Loaded(origin)[p]
  <2>1. \A e \in more : e[1] - OriginBase + 1 # p
    BY <1>2, EditTouched
  <2>2. m[p] = Loaded(origin)[p]
    BY <1>1, <1>2 DEF Moved
  <2> QED
    BY <2>1, <2>2
<1>3. ASSUME NEW w \in RelativeEntries(origin),
             Isolated(origin, w), w[1] \in Kept(origin),
             \A e \in more : e[1] - OriginBase + 1 \notin Named(origin, w)
      PROVE  (NumberIn(l, origin, w) - by - NumberIn(Loaded(origin), origin, w))
                 % Radix^Width = 0
  <2>1. \A e \in ws : e[1] - OriginBase + 1 \notin Named(origin, w)
    BY <1>3
  <2>2. (NumberIn(m, origin, w) - by - NumberIn(Loaded(origin), origin, w)) % Radix^Width = 0
    BY <1>3, <2>1 DEF Moved
  <2>3. \A k \in 1..Width : l[WordStart(origin, w) + k] = m[WordStart(origin, w) + k]
    <3>1. Placeable(origin)
      BY OriginFacts
    <3>2. \A p \in Named(origin, w) : p \in 1..ImageSpan(origin.segments)
      BY <3>1, NamedFacts
    <3>3. \A k \in 1..Width : WordStart(origin, w) + k \in Named(origin, w)
      BY <1>3, <3>1, NamedFacts DEF Isolated
    <3> QED
      BY <1>3, <3>2, <3>3
  <2>4. Width \in Nat
    BY MappedAssumption
  <2>5. NumberIn(l, origin, w) = NumberIn(m, origin, w)
    BY <2>3, <2>4, SameNumber DEF NumberIn
  <2> QED
    BY <2>2, <2>5
<1> QED
  BY <1>2, <1>3 DEF Moved

(* An image read has the frame of the one mapped, ...                        *)
LEMMA ReadFrames ==
    ASSUME NEW m, NEW im, StartsWith(m, im), NEW headers
    PROVE  SameFrame(ParsedMapped(m, headers), im)
BY ParsedFacts DEF SameFrame

(* ... and a write keeps it.                                                 *)
LEMMA WriteFrames ==
    ASSUME NEW im, Placeable(im), Built(im), NEW vaddr, NEW bytes,
           NEW i \in 1..Len(im.segments), NEW new,
           new = [im EXCEPT !.segments = SegmentsWith(@, i, vaddr, bytes),
                            !.sections = SectionsWith(@, vaddr, bytes)]
    PROVE  SameFrame(new, im) /\ new.sections = SectionsWith(im.sections, vaddr, bytes)
<1> DEFINE n    == Len(im.segments)
           segs == im.segments
           with == WithBytes(segs[i], vaddr, bytes)
<1>1. /\ new.header = im.header
      /\ new.segments = SegmentsWith(segs, i, vaddr, bytes)
      /\ new.sections = SectionsWith(im.sections, vaddr, bytes)
  BY DEF Built
<1>2. with.header = segs[i].header
  <2> DEFINE s == segs[i]
  <2>1. s = [header |-> s.header, data |-> s.data]
    BY DEF Built
  <2> HIDE DEF s
  <2> QED
    BY <2>1 DEF WithBytes, s
<1>3. n \in Nat /\ segs = [j \in 1..n |-> segs[j]]
  BY ImageFacts DEF Built
<1>4. new.segments = [segs EXCEPT ![i] = with]
  BY <1>1 DEF SegmentsWith
<1> HIDE DEF segs, with
<1>5. /\ new.segments = [j \in 1..n |-> new.segments[j]]
      /\ new.segments[i] = with /\ \A j \in 1..n : j # i => new.segments[j] = segs[j]
  BY <1>3, <1>4
<1>6. Len(new.segments) = n
  <2> DEFINE list == new.segments
  <2>1. list = [j \in 1..n |-> list[j]]
    BY <1>5
  <2> HIDE DEF list, n
  <2> QED
    BY <1>3, <2>1, MadeSequence DEF list
<1>7. \A j \in 1..n : new.segments[j].header = im.segments[j].header
  BY <1>2, <1>5 DEF segs
<1>8. MappedHeader(new) = MappedHeader(im)
  BY <1>1, <1>6 DEF MappedHeader
<1> QED
  BY <1>1, <1>6, <1>7, <1>8 DEF SameFrame

(* One image has the frame of another through a third.                       *)
LEMMA FrameChain ==
    ASSUME NEW a, NEW b, NEW c, SameFrame(a, b), SameFrame(b, c)
    PROVE  SameFrame(a, c)
BY DEF SameFrame

(* A write apart from what describes the image leaves the sections as they   *)
(* are carried.                                                              *)
LEMMA WriteCarries ==
    ASSUME origin \in Mapped, NEW im, Placeable(im), Built(im), Carried(im),
           NEW vaddr \in Nat, NEW bytes \in Seq(RawByte),
           NEW ws, ApartFrom(ws), \A k \in 1..Len(bytes) : <<vaddr + k - 1, bytes[k]>> \in ws,
           NEW new, new.sections = SectionsWith(im.sections, vaddr, bytes)
    PROVE  Carried(new)
<1> DEFINE ids == KeptIndices
<1>1. /\ Len(im.sections) = Len(ids)
      /\ \A l \in 1..Len(ids) :
             /\ im.sections[l].name = origin.sections[ids[l]].name
             /\ im.sections[l].header = origin.sections[ids[l]].header
             /\ Describing(ids[l]) => im.sections[l] = origin.sections[ids[l]]
  BY DEF Carried
<1>2. /\ Len(ids) \in Nat
      /\ \A l \in 1..Len(ids) : ids[l] \in 1..Len(origin.sections) /\ ids[l] \in Kept(origin)
  BY KeptAscend DEF Ascends
<1> HIDE DEF ids
<1>3. new.sections = [l \in 1..Len(ids) |-> Updated(im.sections[l], vaddr, bytes)]
  BY <1>1 DEF SectionsWith
<1>4. Len(new.sections) = Len(ids)
  <2> DEFINE list == new.sections
  <2>1. list = [l \in 1..Len(ids) |-> list[l]]
    BY <1>3
  <2> HIDE DEF list
  <2> QED
    BY <1>2, <2>1, MadeSequence DEF list
<1>5. ASSUME NEW l \in 1..Len(ids)
      PROVE  /\ new.sections[l].name = origin.sections[ids[l]].name
             /\ new.sections[l].header = origin.sections[ids[l]].header
             /\ Describing(ids[l]) => new.sections[l] = origin.sections[ids[l]]
  <2> DEFINE s == im.sections[l]
             d == Copied(s.data, vaddr - s.header.addr, bytes)
             j == ids[l]
  <2>1. new.sections[l] = Updated(s, vaddr, bytes)
    BY <1>3
  <2>2. s = [name |-> s.name, header |-> s.header, data |-> s.data]
    BY <1>1 DEF Built
  <2>3. /\ s.name = origin.sections[j].name /\ s.header = origin.sections[j].header
        /\ Describing(j) => s = origin.sections[j]
        /\ j \in 1..Len(origin.sections) /\ j \in Kept(origin)
    BY <1>1, <1>2
  <2> HIDE DEF s, d, j
  <2>4. \/ new.sections[l] = s
        \/ Takes(s, vaddr, bytes) /\ new.sections[l] = [s EXCEPT !.data = d]
    BY <2>1 DEF Updated, d
  <2>5. new.sections[l].name = s.name /\ new.sections[l].header = s.header
    BY <2>2, <2>4
  <2>6. ASSUME Describing(j), Takes(s, vaddr, bytes) PROVE d = s.data
    <3> DEFINE b == OriginBase
               a == s.header.addr
               z == Len(s.data)
    <3>1. /\ s.header.alloc /\ vaddr >= a /\ vaddr - a >= 0 /\ vaddr - a + Len(bytes) <= z
      BY <2>6 DEF Takes, SectionContains, InData
    <3>2. b \in Nat /\ a \in Nat /\ z \in Nat /\ Len(bytes) \in Nat /\ s.data \in Seq(Byte)
      <4>1. SectionHeader(origin, j) \in Shdr /\ origin.sections[j].data \in Seq(Byte)
            /\ OriginBase \in Nat
        BY <2>3, OriginFacts
      <4>2. s.header \in Shdr /\ s.data \in Seq(Byte)
        BY <2>3, <2>6, <4>1 DEF SectionHeader
      <4>3. s.header.addr \in U64
        BY <4>2 DEF Shdr
      <4> QED
        BY <4>1, <4>2, <4>3, U64MaxAssumption DEF U64
    <3>3. Len(bytes) = 0
      <4> SUFFICES ASSUME Len(bytes) # 0 PROVE FALSE
        OBVIOUS
      <4>1. 1 \in 1..Len(bytes) /\ vaddr + 1 - 1 = vaddr
        BY <3>2
      <4>2. <<vaddr, bytes[1]>> \in ws
        BY <4>1
      <4>3. vaddr - b + 1 \in Touched(ws)
        <5> DEFINE w == <<vaddr, bytes[1]>>
        <5>1. w \in ws /\ w[1] = vaddr
          BY <4>2
        <5> HIDE DEF w
        <5>2. w[1] - OriginBase + 1 \in Touched(ws)
          BY <5>1, EditTouched
        <5> QED
          BY <5>1, <5>2
      <4>4. Home(origin, j) = a - b
        BY <2>3, <3>1 DEF Home, SectionHeader, OriginBase
      <4>5. vaddr - b + 1 \in Positions(origin, j)
        <5>1. origin.sections[j].data = s.data
          BY <2>3, <2>6
        <5>2. Positions(origin, j) = (a - b) + 1..(a - b) + z
          BY <4>4, <5>1 DEF Positions
        <5> HIDE DEF a, b, z
        <5>3. vaddr - b + 1 \in (a - b) + 1..(a - b) + z
          BY <3>1, <3>2, <4>1
        <5> QED
          BY <5>2, <5>3
      <4>6. Touched(ws) \cap Positions(origin, j) = {}
        BY <2>3, <2>6 DEF ApartFrom
      <4> QED
        BY <4>3, <4>5, <4>6
    <3>4. d = [p \in 1..z |-> s.data[p]]
      <4> DEFINE at == vaddr - a
      <4>1. at \in Int
        BY <3>2
      <4>2. \A p \in 1..z : ~(at < p /\ p <= at + Len(bytes))
        BY <3>2, <3>3, <4>1
      <4> QED
        BY <4>2 DEF d, Copied
    <3>5. s.data = [p \in 1..z |-> s.data[p]]
      BY <3>2
    <3> QED
      BY <3>4, <3>5
  <2>7. ASSUME Describing(j) PROVE new.sections[l] = s
    <3>1. CASE new.sections[l] = s
      BY <3>1
    <3>2. CASE Takes(s, vaddr, bytes) /\ new.sections[l] = [s EXCEPT !.data = d]
      <4>1. d = s.data
        BY <2>6, <2>7, <3>2
      <4> QED
        BY <2>2, <3>2, <4>1
    <3> QED
      BY <2>4, <3>1, <3>2
  <2> QED
    BY <2>3, <2>5, <2>7 DEF j
<1> QED
  BY <1>4, <1>5 DEF Carried, ids

-----------------------------------------------------------------------------
(* The invariant of a session that starts from such an image.                *)

(* The first image is the origin.                                            *)
LEMMA OriginStart == SessionInit => OriginInv
<1> SUFFICES ASSUME SessionInit PROVE OriginInv
  OBVIOUS
<1>1. /\ image \in Mapped /\ origin = image /\ edit = {} /\ shifts = 0 /\ round = 1
  BY DEF SessionInit, Init
<1>2. SameFrame(image, origin)
  BY <1>1 DEF SameFrame
<1>3. Moved(Loaded(image), edit, shifts)
  <2>1. ASSUME NEW w
        PROVE  (NumberIn(Loaded(origin), origin, w) - 0 - NumberIn(Loaded(origin), origin, w))
                   % Radix^Width = 0
    <3> DEFINE z == NumberIn(Loaded(origin), origin, w)
               m == Radix^Width
    <3>1. Width \in 0..(2 * Word)
      <4>1. Word \in Nat
        BY TablesAssumption DEF Word
      <4> QED
        BY <4>1, MappedAssumption
    <3>2. m \in Nat \ {0} /\ z \in Nat
      BY <3>1, TablesAssumption, NumberIsNatural DEF NumberIn
    <3> HIDE DEF z, m
    <3>3. z - 0 - z = m * 0 /\ 0 \in Int
      BY <3>2
    <3>4. (m * 0) % m = 0
      BY <3>2, MultipleMod
    <3> QED
      BY <3>3, <3>4 DEF z, m
  <2> QED
    BY <1>1, <2>1 DEF Moved
<1> QED
  BY <1>1, <1>2, <1>3 DEF OriginInv

(* The steps of a call change neither the image nor what was done before.    *)
LEMMA OriginKept == OriginInv /\ [Next]_vars /\ UNCHANGED history => OriginInv'
<1> SUFFICES ASSUME OriginInv, [Next]_vars, UNCHANGED history PROVE OriginInv'
  OBVIOUS
<1>1. image' = image
  BY DEF Next, vars, Allocate, SkipSegment, PlaceSegment, WriteHeaders, ParseTables,
         SkipEntry, OverflowingEntry, ApplyEntry, NextTable, Finish, Returned
<1>2. /\ origin' = origin /\ edit' = edit /\ shifts' = shifts /\ round' = round
  BY DEF history
<1>3. /\ Linked(origin)' <=> Linked(origin)
      /\ Sound(origin)' <=> Sound(origin)
      /\ SameFrame(image, origin)' <=> SameFrame(image, origin)
  BY <1>1, <1>2
<1>4. ApartFrom(edit)' <=> ApartFrom(edit)
  BY <1>2 DEF ApartFrom, Touched, OriginBase, Describing
<1>5. Carried(image)' <=> Carried(image)
  BY <1>1, <1>2 DEF Carried, KeptIndices, Describing
<1>6. Moved(Loaded(image), edit, shifts)' <=> Moved(Loaded(image), edit, shifts)
  BY <1>1, <1>2 DEF Moved, Touched, OriginBase
<1> QED
  BY <1>1, <1>2, <1>3, <1>4, <1>5, <1>6 DEF OriginInv

(* What ReadBack makes of the image it reads.                                *)
LEMMA ReadOrWritten ==
    ASSUME SessionInv, ReadBack
    PROVE  \E headers \in SectionTables(mem) :
               LET im == ParsedMapped(mem, headers)
               IN  /\ Placeable(im) /\ Built(im)
                   /\ \/ Unchanged(im)
                      \/ \E vaddr \in Nat, bytes \in Seq(RawByte), i \in 1..Len(im.segments) :
                             /\ image' = [im EXCEPT !.segments = SegmentsWith(@, i, vaddr, bytes),
                                                    !.sections = SectionsWith(@, vaddr, bytes)]
                             /\ written' = {<<vaddr + k - 1, bytes[k]>> : k \in 1..Len(bytes)}
                             /\ edit' = written'
                                    \cup {w \in edit : w[1] \notin vaddr..vaddr + Len(bytes) - 1}
<1>1. pc = "done" /\ MappedParses(mem)
  BY DEF ReadBack
<1>2. PICK headers \in SectionTables(mem) :
          LET im == ParsedMapped(mem, headers) IN Unchanged(im) \/ Overwritten(im)
  BY DEF ReadBack
<1> DEFINE im == ParsedMapped(mem, headers)
<1>3. Placeable(im) /\ Built(im)
  BY <1>1, ImageRead DEF SessionInv
<1>4. Unchanged(im) \/ Overwritten(im)
  BY <1>2
<1> HIDE DEF im
<1>5. ASSUME Overwritten(im)
      PROVE  \E vaddr \in Nat, bytes \in Seq(RawByte), i \in 1..Len(im.segments) :
                 /\ image' = [im EXCEPT !.segments = SegmentsWith(@, i, vaddr, bytes),
                                        !.sections = SectionsWith(@, vaddr, bytes)]
                 /\ written' = {<<vaddr + k - 1, bytes[k]>> : k \in 1..Len(bytes)}
                 /\ edit' = written'
                        \cup {w \in edit : w[1] \notin vaddr..vaddr + Len(bytes) - 1}
  <2>1. PICK ioff \in Offsets, bytes \in Payload, i \in 1..Len(im.segments) :
            LET vaddr == ImageBase(im.segments) + ioff
            IN  /\ image' = [im EXCEPT !.segments = SegmentsWith(@, i, vaddr, bytes),
                                       !.sections = SectionsWith(@, vaddr, bytes)]
                /\ written' = {<<vaddr + k - 1, bytes[k]>> : k \in 1..Len(bytes)}
                /\ edit' = written'
                       \cup {w \in edit : w[1] \notin vaddr..vaddr + Len(bytes) - 1}
    BY <1>5 DEF Overwritten
  <2>2. ImageBase(im.segments) + ioff \in Nat /\ bytes \in Seq(RawByte)
    <3>1. ioff \in Nat
      BY SessionAssumption, U64MaxAssumption DEF U64
    <3> QED
      BY <1>3, <3>1, ImageFacts, SessionAssumption
  <2> DEFINE vaddr == ImageBase(im.segments) + ioff
  <2>3. /\ image' = [im EXCEPT !.segments = SegmentsWith(@, i, vaddr, bytes),
                               !.sections = SectionsWith(@, vaddr, bytes)]
        /\ written' = {<<vaddr + k - 1, bytes[k]>> : k \in 1..Len(bytes)}
        /\ edit' = written'
               \cup {w \in edit : w[1] \notin vaddr..vaddr + Len(bytes) - 1}
    BY <2>1
  <2>4. vaddr \in Nat
    BY <2>2
  <2> HIDE DEF vaddr
  <2> QED
    BY <2>2, <2>3, <2>4
<1> QED
  BY <1>3, <1>4, <1>5 DEF im

(* Reading back keeps the invariant.                                         *)
LEMMA OriginReadBack == SessionInv /\ OriginInv /\ ReadBack => OriginInv'
<1> SUFFICES ASSUME SessionInv, OriginInv, ReadBack PROVE OriginInv'
  OBVIOUS
<1>1. /\ pc = "done" /\ MappedParses(mem) /\ before' = mem
      /\ shifts' = shifts + base - Preferred /\ round' = round + 1 /\ origin' = origin
  BY DEF ReadBack
<1>2. SessionInv'
  BY ReadBackKeeps
<1>3. /\ origin \in Mapped /\ round \in Nat \ {0} /\ shifts \in Int
      /\ Len(origin.segments) <= U16Max => SameFrame(image, origin)
  BY DEF OriginInv
<1>4. Preferred \in Nat /\ base \in Nat /\ IInv /\ HeadersInv
  BY ImageFacts DEF SessionInv, IInv, TypeInv, Preferred
<1>5. round' \in Nat \ {0} /\ round' # 1 /\ round' > 1 /\ shifts' \in Int /\ origin' \in Mapped
  BY <1>1, <1>3, <1>4
<1>6. PICK headers \in SectionTables(mem) :
          LET im == ParsedMapped(mem, headers)
          IN  /\ Placeable(im) /\ Built(im)
              /\ \/ Unchanged(im)
                 \/ \E vaddr \in Nat, bytes \in Seq(RawByte), i \in 1..Len(im.segments) :
                        /\ image' = [im EXCEPT !.segments = SegmentsWith(@, i, vaddr, bytes),
                                               !.sections = SectionsWith(@, vaddr, bytes)]
                        /\ written' = {<<vaddr + k - 1, bytes[k]>> : k \in 1..Len(bytes)}
                        /\ edit' = written'
                               \cup {w \in edit : w[1] \notin vaddr..vaddr + Len(bytes) - 1}
  BY ReadOrWritten
<1> DEFINE im == ParsedMapped(mem, headers)
<1>7. /\ Placeable(im) /\ Built(im)
      /\ \/ Unchanged(im)
         \/ \E vaddr \in Nat, bytes \in Seq(RawByte), i \in 1..Len(im.segments) :
                /\ image' = [im EXCEPT !.segments = SegmentsWith(@, i, vaddr, bytes),
                                       !.sections = SectionsWith(@, vaddr, bytes)]
                /\ written' = {<<vaddr + k - 1, bytes[k]>> : k \in 1..Len(bytes)}
                /\ edit' = written'
                       \cup {w \in edit : w[1] \notin vaddr..vaddr + Len(bytes) - 1}
  BY <1>6
<1>8. ASSUME Followed PROVE Carried(im)
  BY <1>1, <1>8, SectionsCarried
<1>9. ASSUME Len(origin.segments) <= U16Max PROVE SameFrame(im, origin)
  <2>1. SameFrame(image, origin) /\ Len(image.segments) <= U16Max
    BY <1>3, <1>9 DEF SameFrame
  <2>2. StartsWith(mem, image)
    BY <1>1, <1>4, <2>1, HeadersDecoded
  <2>3. SameFrame(im, image)
    BY <2>2, ReadFrames
  <2> HIDE DEF im
  <2> QED
    BY <2>1, <2>3, FrameChain
<1> HIDE DEF im
<1>10. /\ SameFrame(image', im)
       /\ written' \subseteq edit'
       /\ \A w \in edit : \E v \in edit' : v[1] = w[1]
       /\ Carried(im) /\ ApartFrom(edit') => Carried(image')
  <2>1. CASE Unchanged(im)
    <3>1. image' = im /\ written' = {} /\ edit' = edit
      BY <2>1 DEF Unchanged
    <3> QED
      BY <3>1 DEF SameFrame
  <2>2. CASE \E vaddr \in Nat, bytes \in Seq(RawByte), i \in 1..Len(im.segments) :
                 /\ image' = [im EXCEPT !.segments = SegmentsWith(@, i, vaddr, bytes),
                                        !.sections = SectionsWith(@, vaddr, bytes)]
                 /\ written' = {<<vaddr + k - 1, bytes[k]>> : k \in 1..Len(bytes)}
                 /\ edit' = written'
                        \cup {w \in edit : w[1] \notin vaddr..vaddr + Len(bytes) - 1}
    <3>1. PICK vaddr \in Nat, bytes \in Seq(RawByte), i \in 1..Len(im.segments) :
                 /\ image' = [im EXCEPT !.segments = SegmentsWith(@, i, vaddr, bytes),
                                        !.sections = SectionsWith(@, vaddr, bytes)]
                 /\ written' = {<<vaddr + k - 1, bytes[k]>> : k \in 1..Len(bytes)}
                 /\ edit' = written'
                        \cup {w \in edit : w[1] \notin vaddr..vaddr + Len(bytes) - 1}
      BY <2>2
    <3> DEFINE new == image'
               ws  == written'
               all == edit'
    <3>2. /\ new = [im EXCEPT !.segments = SegmentsWith(@, i, vaddr, bytes),
                              !.sections = SectionsWith(@, vaddr, bytes)]
          /\ ws = {<<vaddr + k - 1, bytes[k]>> : k \in 1..Len(bytes)}
          /\ all = ws \cup {w \in edit : w[1] \notin vaddr..vaddr + Len(bytes) - 1}
      BY <3>1
    <3> HIDE DEF new, ws, all
    <3>3. SameFrame(new, im) /\ new.sections = SectionsWith(im.sections, vaddr, bytes)
      BY <1>7, <3>2, WriteFrames
    <3>4. ws \subseteq all
      BY <3>2
    <3>5. \A w \in edit : \E v \in all : v[1] = w[1]
      <4>1. \A k \in 1..Len(bytes) : <<vaddr + k - 1, bytes[k]>> \in all
        BY <3>2
      <4>2. \A w \in edit : w[1] \notin vaddr..vaddr + Len(bytes) - 1 => w \in all
        BY <3>2
      <4> SUFFICES ASSUME NEW w \in edit PROVE \E v \in all : v[1] = w[1]
        OBVIOUS
      <4> DEFINE k == w[1] - vaddr + 1
      <4>3. CASE w[1] \in vaddr..vaddr + Len(bytes) - 1
        <5>1. Len(bytes) \in Nat
          OBVIOUS
        <5>2. k \in 1..Len(bytes) /\ vaddr + k - 1 = w[1]
          BY <4>3, <5>1
        <5> HIDE DEF k
        <5>3. <<vaddr + k - 1, bytes[k]>> \in all
          BY <4>1, <5>2
        <5> QED
          BY <5>2, <5>3
      <4> QED
        BY <4>2, <4>3
    <3>6. ASSUME Carried(im), ApartFrom(all) PROVE Carried(new)
      <4>1. \A k \in 1..Len(bytes) : <<vaddr + k - 1, bytes[k]>> \in all
        BY <3>2
      <4> QED
        BY <1>3, <1>7, <3>3, <3>6, <4>1, WriteCarries
    <3> QED
      BY <3>3, <3>4, <3>5, <3>6 DEF new, ws, all
  <2> QED
    BY <1>7, <2>1, <2>2
<1>11. ASSUME Len(origin.segments) <= U16Max PROVE SameFrame(image', origin)
  BY <1>9, <1>10, <1>11, FrameChain
<1>12. ASSUME Linked(origin), Sound(origin), ApartFrom(edit')
       PROVE  Carried(image') /\ Moved(Loaded(image'), edit', shifts')
  <2> DEFINE new == image'
             ws  == written'
             all == edit'
  <2>0. written' \subseteq edit' /\ \A w \in edit : \E v \in edit' : v[1] = w[1]
    BY <1>10
  <2>1. ApartFrom(edit)
    <3> HIDE DEF new, ws, all
    <3>1. \A w \in edit : \E v \in all : v[1] = w[1]
      BY <2>0 DEF all
    <3>2. ApartFrom(all)
      BY <1>12 DEF all
    <3> QED
      BY <3>1, <3>2, MoreTouched
  <2>2. Followed
    BY <1>12, <2>1 DEF Followed
  <2>3. Carried(image')
    BY <1>8, <1>10, <1>12, <2>2
  <2>4. Moved(mem, edit, shifts')
    <3>1. Moved(mem, edit, shifts + base - OriginBase) /\ Preferred = OriginBase
      BY <1>1, <2>2, MemoryMoved, ImageFollows
    <3> QED
      BY <1>1, <3>1
  <2>5. /\ Placeable(new) /\ Fresh(new, mem, ws)
    BY <1>1, <1>2, <1>5 DEF SessionInv, IInv, TypeInv, FreshInv
  <2>6. SameFrame(new, origin) /\ SameFrame(image, origin)
    BY <1>3, <1>11, <1>12 DEF Sound
  <2>7. /\ ZerosBetween(mem, image) /\ Len(mem) = ImageSpan(origin.segments)
        /\ written' \subseteq edit' /\ \A w \in edit : \E v \in edit' : v[1] = w[1]
    BY <1>1, <1>10, <2>2, HeadersFollow
  <2> HIDE DEF new, ws, all
  <2>8. SameFrame(new, image)
    BY <2>6 DEF SameFrame
  <2>9. ImageSpan(new.segments) = ImageSpan(origin.segments)
        /\ ImageBase(new.segments) = OriginBase
    BY <2>6, FrameFacts DEF OriginBase
  <2>10. ASSUME NEW p \in 1..ImageSpan(origin.segments),
                \A e \in all : e[1] - OriginBase + 1 # p
         PROVE  Loaded(new)[p] = mem[p]
    <3>1. WrittenAt(new, ws, p) = {}
      <4>1. ws \subseteq all
        BY <2>7 DEF ws, all
      <4> QED
        BY <2>9, <2>10, <4>1 DEF WrittenAt
    <3>2. p \in 1..ImageSpan(new.segments) /\ Len(mem) = ImageSpan(new.segments)
      BY <2>7, <2>9
    <3> QED
      BY <2>5, <2>7, <2>8, <3>1, <3>2, FreshLoaded
  <2>11. \A w \in edit : \E v \in all : v[1] = w[1]
    BY <2>7 DEF all
  <2> DEFINE by == shifts'
             l  == Loaded(new)
  <2>12. Moved(mem, edit, by)
    BY <2>4
  <2> HIDE DEF by, l
  <2>13. \A p \in 1..ImageSpan(origin.segments) :
             (\A e \in all : e[1] - OriginBase + 1 # p) => l[p] = mem[p]
    BY <2>10 DEF l
  <2>14. Moved(l, all, by)
    BY <1>3, <2>11, <2>12, <2>13, MovedOn
  <2> QED
    BY <2>3, <2>14 DEF l, all, by, new
<1>13. /\ Linked(origin)' <=> Linked(origin)
       /\ Sound(origin)' <=> Sound(origin)
       /\ ApartFrom(edit)' <=> ApartFrom(edit')
       /\ SameFrame(image, origin)' <=> SameFrame(image', origin)
       /\ Carried(image)' <=> Carried(image')
       /\ Moved(Loaded(image), edit, shifts)' <=> Moved(Loaded(image'), edit', shifts')
  <2>1. origin' = origin
    BY <1>1
  <2>2. /\ Linked(origin)' <=> Linked(origin)
        /\ Sound(origin)' <=> Sound(origin)
        /\ SameFrame(image, origin)' <=> SameFrame(image', origin)
    BY <2>1
  <2>3. ApartFrom(edit)' <=> ApartFrom(edit')
    BY <2>1 DEF ApartFrom, Touched, OriginBase, Describing
  <2>4. Carried(image)' <=> Carried(image')
    BY <2>1 DEF Carried, KeptIndices, Describing
  <2>5. Moved(Loaded(image), edit, shifts)' <=> Moved(Loaded(image'), edit', shifts')
    BY <2>1 DEF Moved, Touched, OriginBase
  <2> QED
    BY <2>2, <2>3, <2>4, <2>5
<1> QED
  BY <1>1, <1>5, <1>11, <1>12, <1>13 DEF OriginInv

(* It holds in every session.                                                *)
LEMMA OriginInvariance == SessionSpec => [](SessionInv /\ OriginInv)
<1>1. SessionInit => SessionInv /\ OriginInv
  BY SessionStart, OriginStart
<1>2. SessionInv /\ OriginInv /\ [SessionNext]_allVars => (SessionInv /\ OriginInv)'
  <2> SUFFICES ASSUME SessionInv, OriginInv, [SessionNext]_allVars
               PROVE  SessionInv' /\ OriginInv'
    OBVIOUS
  <2>1. CASE Map
    BY <2>1, CallKeeps, OriginKept DEF Map
  <2>2. CASE ReadBack
    BY <2>2, ReadBackKeeps, OriginReadBack
  <2>3. CASE UNCHANGED allVars
    <3>1. UNCHANGED vars /\ UNCHANGED history
      BY <2>3 DEF allVars
    <3> QED
      BY <3>1, CallKeeps, OriginKept
  <2> QED
    BY <2>1, <2>2, <2>3 DEF SessionNext
<1> QED
  BY <1>1, <1>2, PTL DEF SessionSpec

-----------------------------------------------------------------------------
(* What the invariant says when a call is done.                              *)

(* The properties are about sessions the invariant follows.                  *)
LEMMA SessionFollows ==
    ASSUME SessionInv, OriginInv, pc = "done", Linked(origin), Apart, Mappable(origin)
    PROVE  /\ Followed /\ Changed = Touched(edit) /\ Preferred = OriginBase
           /\ \A w : WordAt(origin, w) = Named(origin, w)
<1>1. Len(origin.segments) <= U16Max
  BY DEF Mappable
<1>2. SameFrame(image, origin)
  BY <1>1 DEF OriginInv
<1>3. /\ Preferred = OriginBase /\ ImageSpan(image.segments) = ImageSpan(origin.segments)
  BY <1>2, FrameFacts DEF Preferred, OriginBase
<1>4. Len(mem) = ImageSpan(origin.segments)
  BY <1>3 DEF SessionInv, IInv, TypeInv, Filling
<1>5. \A w : WordAt(origin, w) = Named(origin, w)
  BY <1>4 DEF WordAt, Named, WordStart
<1>6. Sound(origin)
  BY <1>5 DEF Mappable, Sound
<1>7. Changed = Touched(edit)
  BY <1>3 DEF Changed, Touched
<1>8. ApartFrom(edit)
  BY <1>7 DEF Apart, ApartFrom
<1> QED
  BY <1>3, <1>5, <1>6, <1>7, <1>8 DEF Followed

(* Where no section of a name is left out, the first of that name is found.  *)
LEMMA NameFound ==
    ASSUME origin \in Mapped, NEW im, Carried(im), NEW name \in {Dynsym, Dynstr},
           \A i \in 1..Len(origin.sections) : origin.sections[i].name = name => i \in Kept(origin)
    PROVE  SectionByName(im, name) = SectionByName(origin, name)
<1> DEFINE ids == KeptIndices
           n   == Len(origin.sections)
<1>1. /\ Len(ids) \in Nat /\ n \in Nat
      /\ \A l \in 1..Len(ids) : ids[l] \in 1..n /\ ids[l] \in Kept(origin)
      /\ \A k, l \in 1..Len(ids) : k < l => ids[k] < ids[l]
      /\ \A j \in 1..n : j \in Kept(origin) => \E l \in 1..Len(ids) : ids[l] = j
  BY KeptAscend, OriginFacts DEF Ascends
<1>2. Len(im.sections) = Len(ids)
  BY DEF Carried
<1>3. \A l \in 1..Len(ids) :
          /\ im.sections[l].name = origin.sections[ids[l]].name
          /\ origin.sections[ids[l]].name = name => im.sections[l] = origin.sections[ids[l]]
  BY DEF Carried, Describing
<1> HIDE DEF ids, n
<1>4. ASSUME NEW s \in SectionByName(im, name) PROVE s \in SectionByName(origin, name)
  <2>1. PICK l \in 1..Len(im.sections) :
            /\ s = im.sections[l] /\ im.sections[l].name = name
            /\ \A k \in 1..(l - 1) : im.sections[k].name # name
    BY <1>4 DEF SectionByName
  <2>2. l \in 1..Len(ids) /\ ids[l] \in 1..n
    BY <1>1, <1>2
  <2>3. s = origin.sections[ids[l]] /\ origin.sections[ids[l]].name = name
    BY <1>3, <2>1, <2>2
  <2>4. ASSUME NEW i \in 1..(ids[l] - 1), origin.sections[i].name = name PROVE FALSE
    <3>1. i \in 1..n /\ i < ids[l]
      BY <1>1, <2>2
    <3>2. i \in Kept(origin)
      BY <2>4, <3>1 DEF n
    <3>3. PICK k \in 1..Len(ids) : ids[k] = i
      BY <1>1, <3>1, <3>2
    <3>4. k < l
      <4>1. CASE k = l
        BY <3>1, <3>3, <4>1
      <4>2. CASE l < k
        <5>1. ids[l] < ids[k]
          BY <1>1, <2>2, <4>2
        <5> QED
          BY <2>2, <3>1, <3>3, <5>1
      <4> QED
        BY <2>2, <4>1, <4>2
    <3>5. k \in 1..(l - 1) /\ im.sections[k].name = name
      BY <1>3, <2>2, <2>4, <3>3, <3>4
    <3> QED
      BY <2>1, <3>5
  <2> QED
    BY <2>2, <2>3, <2>4 DEF SectionByName, n
<1>5. ASSUME NEW s \in SectionByName(origin, name) PROVE s \in SectionByName(im, name)
  <2>1. PICK i \in 1..n :
            /\ s = origin.sections[i] /\ origin.sections[i].name = name
            /\ \A k \in 1..(i - 1) : origin.sections[k].name # name
    BY <1>5 DEF SectionByName, n
  <2>2. i \in Kept(origin)
    BY <2>1 DEF n
  <2>3. PICK l \in 1..Len(ids) : ids[l] = i
    BY <1>1, <2>2
  <2>4. s = im.sections[l] /\ im.sections[l].name = name
    BY <1>3, <2>1, <2>3
  <2>5. ASSUME NEW k \in 1..(l - 1) PROVE im.sections[k].name # name
    <3>1. k \in 1..Len(ids) /\ k < l
      BY <1>1
    <3>2. ids[k] < i /\ ids[k] \in 1..n
      BY <1>1, <2>3, <3>1
    <3>3. ids[k] \in 1..(i - 1)
      BY <1>1, <3>2
    <3> QED
      BY <1>3, <2>1, <3>1, <3>3
  <2> QED
    BY <1>2, <2>4, <2>5 DEF SectionByName
<1> QED
  BY <1>4, <1>5

(* The sections of the origin that are kept are read, and with them the      *)
(* exports.                                                                  *)
LEMMA SectionsSurviveHolds == SessionInv /\ OriginInv => SectionsSurvive
<1> SUFFICES ASSUME SessionInv, OriginInv, pc = "done", Linked(origin), Apart, Mappable(origin)
             PROVE  /\ MappedParses(mem)
                    /\ \A headers \in SectionTables(mem) :
                           LET im   == ParsedMapped(mem, headers)
                               kept == [i \in 1..Len(origin.sections) |-> i]
                               list == Chosen(kept, Kept(origin))
                           IN  /\ Len(im.sections) = Len(list)
                               /\ \A i \in 1..Len(list) :
                                      /\ im.sections[i].name = origin.sections[list[i]].name
                                      /\ Describing(list[i])
                                             => im.sections[i] = origin.sections[list[i]]
                               /\ (\A i \in 1..Len(origin.sections) :
                                       origin.sections[i].name \in {Dynsym, Dynstr}
                                           => i \in Kept(origin))
                                  => Exports(im, Dynsym, Dynstr, Class, Order)
                                         = Exports(origin, Dynsym, Dynstr, Class, Order)
  BY DEF SectionsSurvive
<1>1. Followed
  BY SessionFollows
<1>2. origin \in Mapped
  BY <1>1, ImageFollows
<1>3. MappedParses(mem)
  <2>1. StartsWith(mem, image) /\ ZerosBetween(mem, image) /\ Mappable(image)
    BY <1>1, HeadersFollow, ImageMappable
  <2>2. mem = [p \in 1..Len(mem) |-> mem[p]]
    BY DEF SessionInv, MemoryInv, Filling, IInv, TypeInv
  <2> QED
    BY <2>1, <2>2, MappedAgain
<1>4. ASSUME NEW headers \in SectionTables(mem)
      PROVE  LET im   == ParsedMapped(mem, headers)
                 list == KeptIndices
             IN  /\ Len(im.sections) = Len(list)
                 /\ \A i \in 1..Len(list) :
                        /\ im.sections[i].name = origin.sections[list[i]].name
                        /\ Describing(list[i]) => im.sections[i] = origin.sections[list[i]]
                 /\ (\A i \in 1..Len(origin.sections) :
                         origin.sections[i].name \in {Dynsym, Dynstr} => i \in Kept(origin))
                    => Exports(im, Dynsym, Dynstr, Class, Order)
                           = Exports(origin, Dynsym, Dynstr, Class, Order)
  <2> DEFINE im == ParsedMapped(mem, headers)
  <2>1. Carried(im)
    BY <1>1, SectionsCarried
  <2> HIDE DEF im
  <2>2. ASSUME \A i \in 1..Len(origin.sections) :
                   origin.sections[i].name \in {Dynsym, Dynstr} => i \in Kept(origin)
        PROVE  Exports(im, Dynsym, Dynstr, Class, Order)
                   = Exports(origin, Dynsym, Dynstr, Class, Order)
    <3>1. \A name \in {Dynsym, Dynstr} : SectionByName(im, name) = SectionByName(origin, name)
      <4> SUFFICES ASSUME NEW name \in {Dynsym, Dynstr}
                   PROVE  SectionByName(im, name) = SectionByName(origin, name)
        OBVIOUS
      <4>1. \A i \in 1..Len(origin.sections) :
                origin.sections[i].name = name => i \in Kept(origin)
        BY <2>2
      <4> QED
        BY <1>2, <2>1, <4>1, NameFound
    <3>2. DataOf(im, Dynsym) = DataOf(origin, Dynsym) /\ DataOf(im, Dynstr) = DataOf(origin, Dynstr)
      BY <3>1 DEF DataOf
    <3> QED
      BY <3>2 DEF Exports
  <2> QED
    BY <2>1, <2>2 DEF Carried, im
<1> QED
  BY <1>3, <1>4 DEF KeptIndices

(* The pointers of the origin have moved by the sum of the distances.        *)
LEMMA ShiftsAddUpHolds == SessionInv /\ OriginInv => ShiftsAddUp
<1> DEFINE was   == Loaded(origin)
           words == RelativeEntries(origin)
           moved == shifts + base - Preferred
<1> SUFFICES ASSUME SessionInv, OriginInv, pc = "done", Linked(origin), Apart, Mappable(origin)
             PROVE  /\ \A p \in (1..Len(mem)) \ Changed : mem[p] = was[p]
                    /\ \A w \in words :
                           LET start == OffsetOf(origin, w) - Preferred
                           IN  /\ WordAt(origin, w) # {} /\ w[1] \in Kept(origin)
                               /\ \A v \in words \ {w} :
                                      WordAt(origin, v) \cap WordAt(origin, w) = {}
                               /\ \A e \in edit : e[1] - Preferred + 1 \notin WordAt(origin, w)
                               => (NumberAt(mem, start, Width, Order) - moved
                                       - NumberAt(was, start, Width, Order)) % Radix^Width = 0
  BY DEF ShiftsAddUp
<1>1. /\ Followed /\ Changed = Touched(edit) /\ Preferred = OriginBase
      /\ \A w : WordAt(origin, w) = Named(origin, w)
  BY SessionFollows
<1>2. Moved(mem, edit, shifts + base - OriginBase) /\ Len(mem) = ImageSpan(origin.segments)
  BY <1>1, MemoryMoved, HeadersFollow
<1>3. \A p \in (1..Len(mem)) \ Changed : mem[p] = was[p]
  BY <1>1, <1>2 DEF Moved
<1>4. ASSUME NEW w \in words, WordAt(origin, w) # {}, w[1] \in Kept(origin),
             \A v \in words \ {w} : WordAt(origin, v) \cap WordAt(origin, w) = {},
             \A e \in edit : e[1] - Preferred + 1 \notin WordAt(origin, w)
      PROVE  (NumberAt(mem, OffsetOf(origin, w) - Preferred, Width, Order) - moved
                  - NumberAt(was, OffsetOf(origin, w) - Preferred, Width, Order))
                 % Radix^Width = 0
  <2>1. Isolated(origin, w)
    BY <1>1, <1>4 DEF Isolated
  <2>2. \A e \in edit : e[1] - OriginBase + 1 \notin Named(origin, w)
    BY <1>1, <1>4
  <2>3. (NumberIn(mem, origin, w) - (shifts + base - OriginBase)
             - NumberIn(Loaded(origin), origin, w)) % Radix^Width = 0
    BY <1>2, <1>4, <2>1, <2>2 DEF Moved
  <2>4. OffsetOf(origin, w) - Preferred = WordStart(origin, w)
    BY <1>1 DEF WordStart, OriginBase
  <2> QED
    BY <1>1, <2>3, <2>4 DEF NumberIn
<1> QED
  BY <1>3, <1>4

(* However often an image laid out as a linker does is mapped, rebased and   *)
(* written to, what is read from its memory has the sections of the first    *)
(* image that memory can hold, in order, and its exports (build.rs:141-240,  *)
(* parse.rs:131-160, 195-243, inspect.rs:275-307).                           *)
THEOREM SectionsStay == SessionSpec => []SectionsSurvive
BY OriginInvariance, SectionsSurviveHolds, PTL

(* In such a session every pointer of a table that is kept has moved by the  *)
(* sum of all the distances between a base and the preferred one, modulo its *)
(* width, and every other byte is where it was (build.rs:151-153, 196-240,   *)
(* parse.rs:131-160, 219-223).                                               *)
THEOREM ShiftsSum == SessionSpec => []ShiftsAddUp
BY OriginInvariance, ShiftsAddUpHolds, PTL

=============================================================================
