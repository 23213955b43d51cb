--------------------------- MODULE ElfFormatProofs --------------------------
(* Facts about the operators of ElfArith, ElfFormat and ElfGeometry, for     *)
(* every value of the constants: what the rounding functions return, what    *)
(* write_at changes and keeps, and where an image lies in memory. The other  *)
(* proofs rest on them.                                                      *)
EXTENDS ElfAccess, ElfParse, FiniteSetTheorems, TLAPS

-----------------------------------------------------------------------------
(* Remainders. The product in the first lemma is all the non-linear          *)
(* arithmetic there is; the others reduce to it.                             *)

(* A remainder is determined by the division it leaves over.                 *)
LEMMA ModUnique ==
    ASSUME NEW q \in Nat, NEW m \in Nat \ {0}, NEW r \in 0..(m - 1)
    PROVE  ((m * q) + r) % m = r
BY SMTT(30)

(* Division with remainder.                                                  *)
LEMMA DivMod ==
    ASSUME NEW a \in Nat, NEW m \in Nat \ {0}
    PROVE  /\ a \div m \in Nat
           /\ a % m \in 0..(m - 1)
           /\ a = (m * (a \div m)) + (a % m)
BY SMTT(30)

(* Adding to a number adds to its remainder, while that stays below m.       *)
LEMMA ModShift ==
    ASSUME NEW a \in Nat, NEW m \in Nat \ {0}, NEW k \in Nat, (a % m) + k < m
    PROVE  (a + k) % m = (a % m) + k
<1> DEFINE q == a \div m
           r == a % m
<1>1. q \in Nat /\ r \in 0..(m - 1) /\ a = (m * q) + r
  BY DivMod
<1>2. r + k \in 0..(m - 1) /\ a + k = (m * q) + (r + k)
  BY <1>1
<1> HIDE DEF q, r
<1>3. (a + k) % m = r + k
  BY <1>1, <1>2, ModUnique
<1> QED
  BY <1>3 DEF r

(* Past m, the remainder starts again from zero.                             *)
LEMMA ModWrap ==
    ASSUME NEW a \in Nat, NEW m \in Nat \ {0}, NEW k \in Nat,
           m <= (a % m) + k, (a % m) + k < 2 * m
    PROVE  (a + k) % m = (a % m) + k - m
<1> DEFINE q == a \div m
           r == a % m
<1>1. q \in Nat /\ r \in 0..(m - 1) /\ a = (m * q) + r
  BY DivMod
<1>2. /\ r + k - m \in 0..(m - 1)
      /\ q + 1 \in Nat
      /\ a + k = (m * (q + 1)) + (r + k - m)
  BY <1>1
<1> HIDE DEF q, r
<1>3. (a + k) % m = r + k - m
  BY <1>2, ModUnique
<1> QED
  BY <1>3 DEF r

(* Entry p of a table of n entries of m bytes is entry p \div m.             *)
LEMMA DivBound ==
    ASSUME NEW m \in Nat \ {0}, NEW n \in Nat, NEW p \in 0..((m * n) - 1)
    PROVE  p \div m \in 0..(n - 1)
<1> DEFINE q == p \div m
           r == p % m
<1>0. p \in Nat
  <2>1. m * n \in Nat
    BY SMTT(30)
  <2> QED
    BY <2>1
<1>1. q \in Nat /\ r \in 0..(m - 1) /\ p = (m * q) + r
  BY <1>0, DivMod
<1> HIDE DEF q, r
<1>2. SUFFICES ASSUME n <= q PROVE FALSE
  BY <1>1 DEF q
<1>3. PICK d \in Nat : q = n + d
  BY <1>1, <1>2
<1>4. p = (m * n) + (m * d) + r
  BY <1>1, <1>3, SMTT(30)
<1>5. m * d \in Nat
  BY <1>3, SMTT(30)
<1> QED
  BY <1>1, <1>4, <1>5

-----------------------------------------------------------------------------
(* The rounding functions.                                                   *)

(* align_up moves forward, to a multiple of the alignment unless it          *)
(* saturates, and by less than one alignment.                                *)
LEMMA AlignUpFacts ==
    ASSUME NEW value \in Nat, NEW alignment \in Nat
    PROVE  LET a == AlignUp(value, alignment)
           IN  /\ a \in Nat
               /\ value <= U64Max => a <= U64Max
               /\ a < U64Max => value <= a
               /\ alignment > 1 /\ a < U64Max =>
                      a % alignment = 0 /\ a < value + alignment
<1>1. CASE alignment <= 1
  BY <1>1, U64MaxAssumption DEF AlignUp
<1>2. CASE alignment > 1
  <2> DEFINE r == value % alignment
  <2>1. r \in 0..(alignment - 1) /\ alignment \in Nat \ {0}
    BY <1>2, DivMod
  <2>2. CASE r = 0
    BY <1>2, <2>2 DEF AlignUp
  <2>3. CASE r # 0
    <3>1. PICK k \in 1..alignment : k = alignment - r
      BY <2>1
    <3>2. r + k = alignment /\ k \in Nat
      BY <2>1, <3>1
    <3>3. (value + k) % alignment = r + k - alignment
      <4>1. alignment <= r + k /\ r + k < 2 * alignment
        BY <2>1, <3>2
      <4> QED
        BY <2>1, <3>2, <4>1, ModWrap, Zenon
    <3>4. AlignUp(value, alignment) = SatAdd(value, k)
      BY <1>2, <2>3, <3>1 DEF AlignUp
    <3>5. k < alignment
      BY <2>1, <2>3, <3>1
    <3> HIDE DEF r
    <3>6. (value + k) % alignment = 0
      BY <2>1, <3>2, <3>3
    <3> QED
      BY <1>2, <3>1, <3>4, <3>5, <3>6, U64MaxAssumption DEF SatAdd
  <2> QED
    BY <2>2, <2>3
<1> QED
  BY <1>1, <1>2

(* congruent moves forward, to an offset with the remainder of vaddr unless  *)
(* it saturates.                                                             *)
LEMMA CongruentFacts ==
    ASSUME NEW cursor \in Nat, NEW vaddr \in Nat, NEW alignment \in Nat
    PROVE  LET c == Congruent(cursor, vaddr, alignment)
           IN  /\ c \in Nat
               /\ c < U64Max => cursor <= c
               /\ alignment > 1 /\ c < U64Max => c % alignment = vaddr % alignment
<1>1. CASE alignment <= 1
  BY <1>1, U64MaxAssumption DEF Congruent
<1>2. CASE alignment > 1
  <2> DEFINE target  == vaddr % alignment
             current == cursor % alignment
  <2>1. /\ alignment \in Nat \ {0}
        /\ target \in 0..(alignment - 1) /\ current \in 0..(alignment - 1)
    BY <1>2, DivMod
  <2>2. CASE current = target
    BY <1>2, <2>2 DEF Congruent
  <2>3. CASE current < target
    <3>0. PICK k \in Nat : k = target - current
      BY <2>1, <2>3
    <3>1. (cursor + k) % alignment = current + k
      <4>1. current + k < alignment
        BY <2>1, <3>0
      <4> QED
        BY <2>1, <4>1, ModShift, Zenon
    <3>2. Congruent(cursor, vaddr, alignment) = SatAdd(cursor, k)
      BY <1>2, <2>1, <2>3, <3>0 DEF Congruent
    <3> HIDE DEF target, current
    <3>3. alignment > 1 => target = vaddr % alignment
      BY DEF target
    <3> QED
      BY <1>2, <2>1, <3>0, <3>1, <3>2, <3>3, U64MaxAssumption DEF SatAdd
  <2>4. CASE current > target
    <3>0. PICK k \in Nat : k = alignment - (current - target)
      BY <2>1, <2>4
    <3>1. current + k = alignment + target
      BY <2>1, <3>0
    <3>2. (cursor + k) % alignment = current + k - alignment
      <4>1. alignment <= current + k /\ current + k < 2 * alignment
        BY <2>1, <3>1
      <4> QED
        BY <2>1, <4>1, ModWrap, Zenon
    <3>3. Congruent(cursor, vaddr, alignment) = SatAdd(cursor, k)
      BY <1>2, <2>1, <2>4, <3>0 DEF Congruent
    <3> HIDE DEF target, current
    <3>4. alignment > 1 => target = vaddr % alignment
      BY DEF target
    <3> QED
      BY <1>2, <2>1, <2>4, <3>1, <3>2, <3>3, <3>4, U64MaxAssumption DEF SatAdd
  <2> QED
    BY <2>1, <2>2, <2>3, <2>4
<1> QED
  BY <1>1, <1>2

-----------------------------------------------------------------------------
(* Files.                                                                    *)

(* write_at returns a file, as long as the longer of the old file and the    *)
(* end of the written range.                                                 *)
LEMMA WriteAtFile ==
    ASSUME NEW file \in Seq(Byte), NEW offset \in Nat, NEW bytes \in Seq(Byte)
    PROVE  /\ WriteAt(file, offset, bytes) \in Seq(Byte)
           /\ Len(WriteAt(file, offset, bytes)) =
                  Maximum(Len(file), offset + Len(bytes))
<1> DEFINE n == Maximum(Len(file), offset + Len(bytes))
<1>1. n \in Nat /\ Len(file) <= n /\ offset + Len(bytes) <= n
  BY DEF Maximum
<1>2. Zero \in Byte
  BY FormatAssumption DEF Zero, Byte, RawByte
<1>3. ASSUME NEW p \in 1..n
      PROVE  (IF offset < p /\ p <= offset + Len(bytes) THEN bytes[p - offset]
              ELSE IF p <= Len(file) THEN file[p] ELSE Zero) \in Byte
  <2>1. CASE offset < p /\ p <= offset + Len(bytes)
    <3>1. p - offset \in 1..Len(bytes)
      BY <1>1, <2>1
    <3> QED
      BY <2>1, <3>1
  <2>2. CASE ~(offset < p /\ p <= offset + Len(bytes))
    BY <1>1, <1>2, <2>2
  <2> QED
    BY <2>1, <2>2
<1> HIDE DEF n
<1>4. WriteAt(file, offset, bytes) \in [1..n -> Byte]
  BY <1>3 DEF WriteAt, n
<1> QED
  BY <1>1, <1>4 DEF n

(* After write_at, the file holds the written bytes.                         *)
LEMMA WriteAtHolds ==
    ASSUME NEW file \in Seq(Byte), NEW offset \in Nat, NEW bytes \in Seq(Byte)
    PROVE  HoldsAt(WriteAt(file, offset, bytes), offset, bytes)
<1> DEFINE n == Maximum(Len(file), offset + Len(bytes))
           new == WriteAt(file, offset, bytes)
<1>1. n \in Nat /\ offset + Len(bytes) <= n /\ Len(new) = n
  BY WriteAtFile DEF Maximum
<1>2. ASSUME NEW k \in 1..Len(bytes) PROVE new[offset + k] = bytes[k]
  <2>1. offset + k \in 1..n /\ offset < offset + k /\ offset + k <= offset + Len(bytes)
    BY <1>1
  <2>2. (offset + k) - offset = k
    OBVIOUS
  <2> QED
    BY <2>1, <2>2 DEF WriteAt
<1> HIDE DEF new, n
<1> QED
  BY <1>1, <1>2 DEF HoldsAt, new

(* A byte outside the written range keeps its value.                         *)
LEMMA WriteAtKeepsByte ==
    ASSUME NEW file \in Seq(Byte), NEW offset \in Nat, NEW bytes \in Seq(Byte),
           NEW p \in 1..Len(file), p <= offset \/ offset + Len(bytes) < p
    PROVE  WriteAt(file, offset, bytes)[p] = file[p]
<1>1. p \in 1..Maximum(Len(file), offset + Len(bytes))
  BY DEF Maximum
<1> QED
  BY <1>1 DEF WriteAt

(* A range of bytes the written range does not meet is still held.           *)
LEMMA WriteAtKeeps ==
    ASSUME NEW file \in Seq(Byte), NEW offset \in Nat, NEW bytes \in Seq(Byte),
           NEW at \in Nat, NEW kept \in Seq(Byte), HoldsAt(file, at, kept),
           at + Len(kept) <= offset \/ offset + Len(bytes) <= at
    PROVE  HoldsAt(WriteAt(file, offset, bytes), at, kept)
<1> DEFINE new == WriteAt(file, offset, bytes)
<1>1. at + Len(kept) <= Len(new)
  BY WriteAtFile DEF HoldsAt, Maximum
<1>2. ASSUME NEW k \in 1..Len(kept) PROVE new[at + k] = kept[k]
  <2>1. at + k \in 1..Len(file) /\ file[at + k] = kept[k]
    BY DEF HoldsAt
  <2>2. at + k <= offset \/ offset + Len(bytes) < at + k
    OBVIOUS
  <2>3. new[at + k] = file[at + k]
    <3> HIDE DEF new
    <3> QED
      BY <2>1, <2>2, WriteAtKeepsByte DEF new
  <2> QED
    BY <2>1, <2>3
<1> HIDE DEF new
<1> QED
  BY <1>1, <1>2 DEF HoldsAt, new

(* A serialized record is bytes.                                             *)
LEMMA EncodedBytes ==
    ASSUME NEW record \in ElfHeader \cup Phdr \cup Shdr, NEW size \in Nat
    PROVE  Encoded(record, size) \in Seq(Byte) /\ Len(Encoded(record, size)) = size
<1>1. \A k \in 1..size : <<record, k>> \in Byte
  BY DEF Byte
<1>2. Encoded(record, size) \in [1..size -> Byte]
  BY <1>1 DEF Encoded
<1> QED
  BY <1>2

(* So is a table of serialized records.                                      *)
LEMMA EncodedTableBytes ==
    ASSUME NEW records, records \in Seq(Phdr) \/ records \in Seq(Shdr),
           NEW size \in Nat \ {0}
    PROVE  /\ EncodedTable(records, size) \in Seq(Byte)
           /\ Len(EncodedTable(records, size)) = size * Len(records)
           /\ size * Len(records) \in Nat
<1> DEFINE n == size * Len(records)
<1>1. Len(records) \in Nat /\ n \in Nat
  <2>1. Len(records) \in Nat
    OBVIOUS
  <2> QED
    BY <2>1, SMTT(30)
<1>2. ASSUME NEW p \in 1..n
      PROVE  <<records[((p - 1) \div size) + 1], ((p - 1) % size) + 1>> \in Byte
  <2>1. p - 1 \in 0..(n - 1) /\ p - 1 \in Nat
    BY <1>1
  <2>2. (p - 1) \div size \in 0..(Len(records) - 1)
    <3>1. \A q \in 0..((size * Len(records)) - 1) : q \div size \in 0..(Len(records) - 1)
      BY <1>1, DivBound, Zenon
    <3> QED
      BY <2>1, <3>1
  <2> DEFINE e == (p - 1) \div size
             r == (p - 1) % size
  <2>3. r \in Nat
    BY <2>1, DivMod
  <2> HIDE DEF e, r, n
  <2>4. e + 1 \in 1..Len(records) /\ r + 1 \in Nat
    BY <1>1, <2>2, <2>3 DEF e
  <2>5. records[e + 1] \in Phdr \cup Shdr
    BY <2>4
  <2>6. <<records[e + 1], r + 1>> \in Byte
    BY <2>4, <2>5 DEF Byte
  <2> QED
    BY <2>6 DEF e, r
<1> HIDE DEF n
<1>3. EncodedTable(records, size) \in [1..n -> Byte]
  BY <1>2 DEF EncodedTable, n
<1> QED
  BY <1>1, <1>3 DEF n

(* A record that is held is decoded.                                         *)
LEMMA DecodesHeld ==
    ASSUME NEW f, Len(f) \in Nat, NEW at \in Nat, NEW size \in Nat \ {0}, size <= MaxImage,
           NEW record \in ElfHeader \cup Phdr \cup Shdr, HoldsAt(f, at, Encoded(record, size))
    PROVE  Decodes(f, at, size) /\ DecodedAt(f, at) = record
<1>1. Len(Encoded(record, size)) = size
  BY EncodedBytes
<1>2. f[at + 1] = Encoded(record, size)[1] /\ at + size <= Len(f)
  BY <1>1 DEF HoldsAt
<1>3. Encoded(record, size)[1] = <<record, 1>>
  BY DEF Encoded
<1>4. f[at + 1][1] = record
  BY <1>2, <1>3
<1> QED
  BY <1>2, <1>4 DEF Decodes, Readable, DecodedAt

(* Entry i of a table is bytes (i - 1) * size to i * size of it.             *)
LEMMA EntryHeld ==
    ASSUME NEW f, Len(f) \in Nat, NEW at \in Nat, NEW size \in Nat \ {0},
           NEW records, records \in Seq(Phdr) \/ records \in Seq(Shdr),
           HoldsAt(f, at, EncodedTable(records, size)), NEW i \in 1..Len(records)
    PROVE  /\ HoldsAt(f, at + (i - 1) * size, Encoded(records[i], size))
           /\ at + (i - 1) * size \in Nat
<1> DEFINE table == EncodedTable(records, size)
           skip  == (i - 1) * size
           n     == size * Len(records)
<1>1. Len(table) = n /\ n \in Nat /\ Len(records) \in Nat
  BY EncodedTableBytes
<1>2. skip \in Nat /\ skip + size <= n /\ skip = size * (i - 1)
  <2>1. i - 1 \in Nat /\ Len(records) \in Nat
    OBVIOUS
  <2>2. PICK d \in Nat : Len(records) = (i - 1) + 1 + d
    <3>1. Len(records) - i \in Nat /\ Len(records) = (i - 1) + 1 + (Len(records) - i)
      BY <2>1
    <3> QED
      BY <3>1
  <2> DEFINE m == i - 1
  <2>3. m \in Nat /\ Len(records) = m + 1 + d
    BY <2>1, <2>2
  <2> HIDE DEF m
  <2>4. size * (m + 1 + d) = m * size + size + size * d
    BY <2>2, <2>3, SMTT(30)
  <2>5. size * d \in Nat /\ m * size \in Nat /\ m * size = size * m
    BY <2>2, <2>3, SMTT(30)
  <2>6. n = m * size + size + size * d
    BY <2>3, <2>4
  <2>7. m * size + size <= n
    <3> DEFINE a == m * size
               b == size * d
    <3> HIDE DEF a, b, n
    <3> QED
      BY <2>5, <2>6 DEF a, b
  <2> QED
    BY <2>5, <2>7 DEF m
<1>3. ASSUME NEW k \in 1..size PROVE table[skip + k] = <<records[i], k>>
  <2>1. skip + k \in 1..n
    <3> HIDE DEF skip, n
    <3> QED
      BY <1>1, <1>2
  <2>2. table[skip + k] = <<records[((skip + k - 1) \div size) + 1],
                           ((skip + k - 1) % size) + 1>>
    BY <2>1 DEF EncodedTable
  <2>3. (skip + k - 1) % size = k - 1 /\ (skip + k - 1) \div size = i - 1
    <3> DEFINE q == i - 1
               r == k - 1
               p == skip + k - 1
    <3>1. q \in Nat /\ r \in 0..(size - 1) /\ p \in Nat /\ p = (size * q) + r
      <4> HIDE DEF skip
      <4> QED
        BY <1>2
    <3> HIDE DEF q, r, p
    <3>2. p % size = r
      BY <3>1, ModUnique
    <3>3. p = (size * (p \div size)) + (p % size) /\ p \div size \in Nat
      BY <3>1, DivMod
    <3>4. size * (p \div size) = size * q
      <4> DEFINE a == size * (p \div size)
                 b == size * q
      <4>1. a \in Nat /\ b \in Nat
        BY <3>1, <3>3, SMTT(30)
      <4> HIDE DEF a, b
      <4>2. a = b
        BY <3>1, <3>2, <3>3, <4>1 DEF a, b
      <4> QED
        BY <4>2 DEF a, b
    <3>5. \A x, y \in Nat : size * x = size * y => x = y
      BY SMTT(30)
    <3>6. p \div size = q
      BY <3>1, <3>3, <3>4, <3>5
    <3> QED
      BY <3>2, <3>6 DEF q, r, p
  <2> QED
    BY <2>2, <2>3
<1>4. Len(Encoded(records[i], size)) = size
  <2>1. records[i] \in Phdr \cup Shdr
    OBVIOUS
  <2> QED
    BY <2>1, EncodedBytes
<1>5. ASSUME NEW k \in 1..size PROVE f[(at + skip) + k] = Encoded(records[i], size)[k]
  <2>1. skip + k \in 1..Len(table)
    <3> HIDE DEF skip, n, table
    <3> QED
      BY <1>1, <1>2
  <2>2. f[at + (skip + k)] = table[skip + k]
    <3> HIDE DEF skip
    <3> QED
      BY <2>1 DEF HoldsAt
  <2>3. at + (skip + k) = (at + skip) + k
    <3> HIDE DEF skip
    <3> QED
      BY <1>2
  <2> QED
    BY <1>3, <2>2, <2>3 DEF Encoded
<1>6. (at + skip) + size <= Len(f)
  <2>1. at + Len(table) <= Len(f)
    BY DEF HoldsAt
  <2> HIDE DEF skip, n, table
  <2> QED
    BY <1>1, <1>2, <2>1
<1>7. HoldsAt(f, at + skip, Encoded(records[i], size)) /\ at + skip \in Nat
  <2> DEFINE e == Encoded(records[i], size)
             o == at + skip
  <2>1. Len(e) = size /\ o + size <= Len(f) /\ \A k \in 1..size : f[o + k] = e[k]
    BY <1>4, <1>5, <1>6
  <2>2. o \in Nat
    <3> HIDE DEF skip
    <3> QED
      BY <1>2
  <2> HIDE DEF e, o
  <2>3. HoldsAt(f, o, e)
    BY <2>1 DEF HoldsAt
  <2> QED
    BY <2>2, <2>3 DEF e, o
<1> QED
  BY <1>7

(* A table that is held is decoded, entry by entry.                          *)
LEMMA TableHeld ==
    ASSUME NEW f, Len(f) \in Nat, NEW at \in Nat, NEW size \in Nat \ {0},
           NEW records, records \in Seq(Phdr) \/ records \in Seq(Shdr),
           HoldsAt(f, at, EncodedTable(records, size)),
           records # <<>> => size <= MaxImage
    PROVE  /\ DecodesTable(f, at, Len(records), size)
           /\ TableAt(f, at, Len(records), size) = records
<1>1. ASSUME NEW i \in 1..Len(records)
      PROVE  /\ Decodes(f, at + (i - 1) * size, size)
             /\ DecodedAt(f, at + (i - 1) * size) = records[i]
  <2>1. records[i] \in Phdr \cup Shdr
    OBVIOUS
  <2> DEFINE o == at + (i - 1) * size
  <2>2. HoldsAt(f, o, Encoded(records[i], size)) /\ o \in Nat
    BY EntryHeld
  <2>0. size <= MaxImage
    OBVIOUS
  <2> HIDE DEF o
  <2>3. Decodes(f, o, size) /\ DecodedAt(f, o) = records[i]
    BY <2>0, <2>1, <2>2, DecodesHeld
  <2> QED
    BY <2>3 DEF o
<1>2. records = [i \in 1..Len(records) |-> records[i]]
  OBVIOUS
<1>3. TableAt(f, at, Len(records), size) = [i \in 1..Len(records) |-> records[i]]
  BY <1>1 DEF TableAt
<1> QED
  BY <1>1, <1>2, <1>3 DEF DecodesTable

(* copy_from_slice keeps the length and replaces its range.                  *)
LEMMA CopiedBytes ==
    ASSUME NEW data \in Seq(Byte), NEW start \in Int, NEW bytes \in Seq(RawByte)
    PROVE  /\ Copied(data, start, bytes) \in Seq(Byte)
           /\ Len(Copied(data, start, bytes)) = Len(data)
           /\ \A p \in 1..Len(data) :
                  Copied(data, start, bytes)[p] =
                      IF start < p /\ p <= start + Len(bytes) THEN bytes[p - start]
                      ELSE data[p]
<1> DEFINE new(p) == IF start < p /\ p <= start + Len(bytes) THEN bytes[p - start]
                     ELSE data[p]
<1>1. Len(data) \in Nat /\ Len(bytes) \in Nat  OBVIOUS
<1>2. ASSUME NEW p \in 1..Len(data) PROVE new(p) \in Byte
  <2>1. CASE start < p /\ p <= start + Len(bytes)
    <3>1. p - start \in 1..Len(bytes)  BY <1>1, <2>1
    <3>2. bytes[p - start] \in RawByte  BY <3>1
    <3> QED  BY <2>1, <3>2 DEF Byte
  <2>2. CASE ~(start < p /\ p <= start + Len(bytes))
    <3>1. data[p] \in Byte  OBVIOUS
    <3> QED  BY <2>2, <3>1
  <2> QED  BY <2>1, <2>2
<1>3. Copied(data, start, bytes) = [p \in 1..Len(data) |-> new(p)]  BY DEF Copied
<1>4. \A p \in 1..Len(data) : Copied(data, start, bytes)[p] = new(p)  BY <1>3
<1> HIDE DEF new
<1>5. [p \in 1..Len(data) |-> new(p)] \in Seq(Byte)  BY <1>1, <1>2
<1>6. Len([p \in 1..Len(data) |-> new(p)]) = Len(data)  BY <1>1
<1>7. \A p \in 1..Len(data) : Copied(data, start, bytes)[p] =
         IF start < p /\ p <= start + Len(bytes) THEN bytes[p - start] ELSE data[p]
  BY <1>4 DEF new
<1> QED  BY <1>3, <1>5, <1>6, <1>7

-----------------------------------------------------------------------------
(* Where an image lies in memory.                                            *)

(* Every set of natural numbers has a least one: the numbers below it are a  *)
(* smallest set of those below an element, and inclusion is well-founded on  *)
(* finite sets.                                                              *)
LEMMA LeastOfSet ==
    ASSUME NEW S \in SUBSET Nat, S # {}
    PROVE  Least(S) \in S /\ \A y \in S : Least(S) <= y
<1> DEFINE below(x) == 0..(x - 1)
           T == {below(x) : x \in S}
           R == StrictSubsetOrdering(Nat)
<1>1. IsWellFoundedOn(R, FiniteSubsetsOf(Nat))  BY FS_StrictSubsetOrderingWellFounded
<1>2. T \subseteq FiniteSubsetsOf(Nat)
  <2> SUFFICES ASSUME NEW x \in S PROVE below(x) \in FiniteSubsetsOf(Nat)  OBVIOUS
  <2>1. x - 1 \in Int /\ 0 \in Int  OBVIOUS
  <2>2. IsFiniteSet(0..(x - 1))  BY <2>1, FS_Interval
  <2>3. 0..(x - 1) \in SUBSET Nat  BY <2>1
  <2> QED  BY <2>2, <2>3 DEF FiniteSubsetsOf
<1>3. T # {}  OBVIOUS
<1> HIDE DEF R
<1>4. PICK t \in T : \A u \in T : ~(<<u, t>> \in R)  BY <1>1, <1>2, <1>3, WFMin
<1>5. PICK x \in S : t = below(x)  BY <1>4
<1>6. \A y \in S : x <= y
  <2> SUFFICES ASSUME NEW y \in S, y < x PROVE FALSE  BY <1>5
  <2>1. x \in Nat /\ y \in Nat  OBVIOUS
  <2>2. y \in below(x) /\ y \notin below(y)  BY <2>1
  <2>3. below(y) \subseteq below(x) /\ below(y) # below(x)  BY <2>1, <2>2
  <2>4. below(x) \in SUBSET Nat /\ below(y) \in SUBSET Nat  BY <2>1
  <2>5. <<below(y), below(x)>> \in R
    <3> HIDE DEF below
    <3> QED  BY <2>3, <2>4 DEF R, StrictSubsetOrdering
  <2>6. below(y) \in T  OBVIOUS
  <2> HIDE DEF below, T
  <2> QED  BY <1>4, <1>5, <2>5, <2>6
<1> QED  BY <1>6 DEF Least

-----------------------------------------------------------------------------
(* Induction over the numbers, for a set of them: of those left out there    *)
(* would be a least.                                                         *)
LEMMA SetInduction ==
    ASSUME NEW S \in SUBSET Nat, 0 \in S, \A n \in S : n + 1 \in S
    PROVE  S = Nat
<1> SUFFICES ASSUME Nat \ S # {} PROVE FALSE
  OBVIOUS
<1> DEFINE x == Least(Nat \ S)
<1>1. x \in Nat \ S /\ \A y \in Nat \ S : x <= y
  BY LeastOfSet
<1> HIDE DEF x
<1>2. x - 1 \in Nat /\ (x - 1) + 1 = x
  <2>1. x # 0
    BY <1>1
  <2> QED
    BY <1>1, <2>1
<1>3. x - 1 \in S
  <2>1. ~(x <= x - 1)
    BY <1>1
  <2> QED
    BY <1>1, <1>2, <2>1
<1> QED
  BY <1>1, <1>2, <1>3

-----------------------------------------------------------------------------
(* Sums and digits.                                                          *)

(* f[k] is the sum of the first k elements of g.                             *)
IsSum(f, n, g) == f = [k \in 0..n |-> IF k = 0 THEN 0 ELSE f[k - 1] + g[k]]

(* The recursion has a solution.                                             *)
LEMMA SumExists ==
    ASSUME NEW g
    PROVE  \A n \in Nat : \E f : IsSum(f, n, g)
<1> DEFINE S == {n \in Nat : \E f : IsSum(f, n, g)}
<1>1. 0 \in S
  <2> DEFINE first == [k \in 0..0 |-> 0]
  <2>1. \A k \in 0..0 : k = 0
    OBVIOUS
  <2>2. first = [k \in 0..0 |-> IF k = 0 THEN 0 ELSE first[k - 1] + g[k]]
    BY <2>1
  <2> QED
    BY <2>2 DEF IsSum
<1>2. ASSUME NEW n \in S PROVE n + 1 \in S
  <2>1. PICK f : IsSum(f, n, g)
    OBVIOUS
  <2>2. n \in Nat
    OBVIOUS
  <2> DEFINE more == [k \in 0..(n + 1) |-> IF k = n + 1 THEN f[n] + g[n + 1] ELSE f[k]]
  <2>3. ASSUME NEW k \in 0..(n + 1)
        PROVE  more[k] = IF k = 0 THEN 0 ELSE more[k - 1] + g[k]
    <3>1. CASE k = n + 1
      <4>1. more[k] = f[n] + g[n + 1]
        BY <3>1, Zenon
      <4>2. n \in 0..(n + 1) /\ n # n + 1 /\ k # 0 /\ k - 1 = n
        BY <2>2, <3>1
      <4>3. more[n] = f[n]
        BY <4>2, Zenon
      <4> HIDE DEF more
      <4> QED
        BY <3>1, <4>1, <4>2, <4>3
    <3>2. CASE k # n + 1
      <4>1. k \in 0..n /\ more[k] = f[k]
        BY <2>2, <3>2
      <4>2. f[k] = IF k = 0 THEN 0 ELSE f[k - 1] + g[k]
        BY <2>1, <4>1, Zenon DEF IsSum
      <4>3. k # 0 => k - 1 \in 0..(n + 1) /\ k - 1 # n + 1
        BY <2>2, <4>1
      <4>4. k # 0 => more[k - 1] = f[k - 1]
        BY <4>3
      <4> HIDE DEF more
      <4> QED
        BY <4>1, <4>2, <4>4
    <3> QED
      BY <3>1, <3>2
  <2>4. more = [k \in 0..(n + 1) |-> more[k]]
    OBVIOUS
  <2> HIDE DEF more
  <2>5. IsSum(more, n + 1, g)
    BY <2>3, <2>4 DEF IsSum
  <2> QED
    BY <2>2, <2>5
<1>3. S = Nat
  <2> HIDE DEF S
  <2>1. S \in SUBSET Nat
    BY DEF S
  <2> QED
    BY <1>1, <1>2, <2>1, SetInduction
<1> QED
  BY <1>3

(* A function that starts at zero and grows by the elements is the sum.      *)
LEMMA SumIs ==
    ASSUME NEW n \in Nat, NEW g, NEW f, IsSum(f, n, g), NEW u, u[0] = 0,
           \A k \in 1..n : u[k] = u[k - 1] + g[k]
    PROVE  \A k \in 0..n : f[k] = u[k]
<1>1. \A k \in 0..n : f[k] = IF k = 0 THEN 0 ELSE f[k - 1] + g[k]
  BY Zenon DEF IsSum
<1> DEFINE S == {k \in Nat : k <= n => f[k] = u[k]}
<1>2. 0 \in S
  <2>1. 0 \in 0..n
    OBVIOUS
  <2> QED
    BY <1>1, <2>1
<1>3. ASSUME NEW k \in S PROVE k + 1 \in S
  <2> SUFFICES ASSUME k + 1 <= n PROVE f[k + 1] = u[k + 1]
    OBVIOUS
  <2>1. /\ f[k] = u[k] /\ k + 1 \in 0..n /\ k + 1 \in 1..n /\ k + 1 # 0
        /\ (k + 1) - 1 = k
    OBVIOUS
  <2> QED
    BY <1>1, <2>1
<1>4. S = Nat
  <2> HIDE DEF S
  <2>1. S \in SUBSET Nat
    BY DEF S
  <2> QED
    BY <1>2, <1>3, <2>1, SetInduction
<1> QED
  BY <1>4

(* Division of integers.                                                     *)
LEMMA IntDivMod ==
    ASSUME NEW n \in Int, NEW m \in Nat \ {0}
    PROVE  /\ n \div m \in Int
           /\ n % m \in 0..(m - 1)
           /\ n = (m * (n \div m)) + (n % m)
BY SMTT(30)

(* And no other quotient does.                                               *)
LEMMA DivUnique ==
    ASSUME NEW q \in Int, NEW m \in Nat \ {0}, NEW r \in 0..(m - 1)
    PROVE  ((m * q) + r) \div m = q
BY SMTT(30)

(* A multiple has no remainder.                                              *)
LEMMA MultipleMod ==
    ASSUME NEW q \in Int, NEW m \in Nat \ {0}
    PROVE  (m * q) % m = 0
BY SMTT(30)

(* Dividing twice is dividing by the product.                                *)
LEMMA DivDiv ==
    ASSUME NEW n \in Int, NEW a \in Nat \ {0}, NEW b \in Nat \ {0}
    PROVE  (n \div a) \div b = n \div (b * a)
<1> DEFINE x == n \div a
           r == n % a
           y == x \div b
           s == x % b
           c == b * a
           t == (a * s) + r
<1>1. x \in Int /\ r \in 0..(a - 1) /\ n = (a * x) + r
  BY IntDivMod
<1> HIDE DEF x, r
<1>2. y \in Int /\ s \in 0..(b - 1) /\ x = (b * y) + s
  BY <1>1, IntDivMod
<1> HIDE DEF y, s
<1>3. c \in Nat \ {0}
  BY SMTT(30)
<1>4. n = (c * y) + t
  <2>1. a * x = (a * (b * y)) + (a * s)
    BY <1>1, <1>2, SMTT(30)
  <2>2. a * (b * y) = c * y
    BY <1>2, SMTT(30)
  <2> QED
    BY <1>1, <1>2, <1>3, <2>1, <2>2, SMTT(30)
<1>5. t \in 0..(c - 1)
  <2>1. a * s \in Nat
    BY <1>2, SMTT(30)
  <2>2. a * s <= a * (b - 1)
    BY <1>2, SMTT(30)
  <2>3. a * (b - 1) = c - a
    BY SMTT(30)
  <2> HIDE DEF c
  <2> QED
    BY <1>1, <1>3, <2>1, <2>2, <2>3
<1> HIDE DEF c, t
<1>6. n \div c = y
  BY <1>2, <1>3, <1>4, <1>5, DivUnique
<1> QED
  BY <1>6 DEF y, x, c

(* The multiple of p at or below n, and what the digit at place p adds.      *)
Rounded(n, p)  == p * (n \div p)
Digit(n, p, R) == ((n \div p) % R) * p

(* A digit is what its place rounds off and the next does not.               *)
LEMMA DigitTerm ==
    ASSUME NEW n \in Int, NEW R \in Nat \ {0}, NEW p \in Nat \ {0}
    PROVE  /\ Digit(n, p, R) = Rounded(n, p) - Rounded(n, R * p)
           /\ Rounded(n, p) \in Int
<1> DEFINE x == n \div p
           y == x \div R
           s == x % R
           c == R * p
<1>1. x \in Int
  BY IntDivMod
<1>2. n \div c = y
  BY DivDiv
<1> HIDE DEF x
<1>3. y \in Int /\ s \in 0..(R - 1) /\ x = (R * y) + s
  BY <1>1, IntDivMod
<1> HIDE DEF y, s
<1>4. c \in Nat \ {0}
  BY SMTT(30)
<1>5. p * x = (c * y) + (s * p)
  <2>1. p * x = (p * (R * y)) + (p * s)
    BY <1>3, SMTT(30)
  <2>2. p * (R * y) = c * y
    BY <1>3, SMTT(30)
  <2>3. p * s = s * p
    BY <1>3, SMTT(30)
  <2> QED
    BY <2>1, <2>2, <2>3
<1>6. c * y \in Int /\ s * p \in Int
  BY <1>3, <1>4, SMTT(30)
<1> HIDE DEF c
<1>7. s * p = (p * x) - (c * y)
  BY <1>5, <1>6
<1>8. p * x \in Int
  BY <1>5, <1>6
<1> QED
  BY <1>2, <1>7, <1>8 DEF x, s, c, Rounded, Digit

(* The places of a number, and its digits each at its place: from the lowest *)
(* up, or from the highest down.                                             *)
ArePowers(pow, R, size) ==
    /\ \A k \in 0..size : pow[k] \in Nat \ {0}
    /\ pow[0] = 1
    /\ \A k \in 1..size : pow[k] = R * pow[k - 1]

AreDigits(g, n, pow, R, size) ==
    \/ \A k \in 1..size : g[k] = Digit(n, pow[k - 1], R)
    \/ \A k \in 1..size : g[k] = Digit(n, pow[size - k], R)

(* The digits add up to the number, but for those cut off.                   *)
LEMMA DigitSum ==
    ASSUME NEW n \in Int, NEW R \in Nat \ {0}, NEW size \in Nat, NEW pow,
           ArePowers(pow, R, size),
           NEW g, AreDigits(g, n, pow, R, size), NEW f, IsSum(f, size, g)
    PROVE  f[size] = n - Rounded(n, pow[size])
<1>0. /\ \A k \in 0..size : pow[k] \in Nat \ {0}
      /\ pow[0] = 1 /\ \A k \in 1..size : pow[k] = R * pow[k - 1]
      /\ \/ \A k \in 1..size : g[k] = Digit(n, pow[k - 1], R)
         \/ \A k \in 1..size : g[k] = Digit(n, pow[size - k], R)
  BY DEF ArePowers, AreDigits
<1> DEFINE v(k) == Rounded(n, pow[k])
<1>1. ASSUME NEW k \in 1..size
      PROVE  Digit(n, pow[k - 1], R) = v(k - 1) - v(k)
  <2>1. k - 1 \in 0..size /\ pow[k] = R * pow[k - 1]
    BY <1>0
  <2>2. pow[k - 1] \in Nat \ {0}
    BY <1>0, <2>1
  <2>3. \A p \in Nat \ {0} : Digit(n, p, R) = Rounded(n, p) - Rounded(n, R * p)
    BY DigitTerm, Zenon
  <2>4. Digit(n, pow[k - 1], R) = Rounded(n, pow[k - 1]) - Rounded(n, R * pow[k - 1])
    BY <2>2, <2>3, Zenon
  <2> QED
    BY <2>1, <2>4, Zenon
<1>2. \A k \in 0..size : v(k) \in Int
  BY <1>0, DigitTerm
<1>3. v(0) = n
  <2>1. n \div 1 = n /\ 1 * n = n
    OBVIOUS
  <2> QED
    BY <1>0, <2>1 DEF Rounded
<1> HIDE DEF v
<1>4. 0 \in 0..size /\ size \in 0..size /\ \A k \in 1..size :
          k - 1 \in 0..size /\ k \in 0..size /\ size - k \in 0..size
          /\ size - (k - 1) \in 1..size /\ (size - (k - 1)) - 1 = size - k
  OBVIOUS
<1>5. CASE \A k \in 1..size : g[k] = Digit(n, pow[k - 1], R)
  <2> DEFINE u == [k \in 0..size |-> n - v(k)]
  <2>1. \A k \in 0..size : u[k] = n - v(k)
    OBVIOUS
  <2> HIDE DEF u
  <2>2. u[0] = 0
    BY <1>3, <1>4, <2>1
  <2>3. ASSUME NEW k \in 1..size PROVE u[k] = u[k - 1] + g[k]
    <3>1. u[k] = n - v(k) /\ u[k - 1] = n - v(k - 1) /\ g[k] = v(k - 1) - v(k)
      BY <1>1, <1>4, <1>5, <2>1
    <3>2. v(k) \in Int /\ v(k - 1) \in Int
      BY <1>2, <1>4
    <3> QED
      BY <3>1, <3>2
  <2>4. f[size] = u[size]
    BY <1>4, <2>2, <2>3, SumIs
  <2> QED
    BY <1>4, <2>1, <2>4 DEF v
<1>6. CASE \A k \in 1..size : g[k] = Digit(n, pow[size - k], R)
  <2> DEFINE u == [k \in 0..size |-> v(size - k) - v(size)]
  <2>1. \A k \in 0..size : u[k] = v(size - k) - v(size)
    OBVIOUS
  <2> HIDE DEF u
  <2>2. u[0] = 0
    <3>1. u[0] = v(size - 0) - v(size) /\ size - 0 = size /\ v(size) \in Int
      BY <1>2, <1>4, <2>1
    <3> QED
      BY <3>1
  <2>3. ASSUME NEW k \in 1..size PROVE u[k] = u[k - 1] + g[k]
    <3> DEFINE j == size - (k - 1)
    <3>1. j \in 1..size /\ j - 1 = size - k /\ size - k \in 0..size /\ j \in 0..size
      BY <1>4
    <3>2. u[k] = v(j - 1) - v(size) /\ u[k - 1] = v(j) - v(size)
      BY <1>4, <2>1
    <3> HIDE DEF j
    <3>3. g[k] = Digit(n, pow[j - 1], R)
      BY <1>6, <3>1
    <3>4. g[k] = v(j - 1) - v(j)
      BY <1>1, <3>1, <3>3
    <3>5. v(j) \in Int /\ v(j - 1) \in Int /\ v(size) \in Int
      BY <1>2, <1>4, <3>1
    <3> QED
      BY <3>2, <3>4, <3>5
  <2>4. f[size] = u[size]
    BY <1>4, <2>2, <2>3, SumIs
  <2>5. u[size] = n - v(size)
    <3>1. u[size] = v(size - size) - v(size) /\ size - size = 0
      BY <1>4, <2>1
    <3> QED
      BY <1>3, <3>1
  <2> QED
    BY <2>4, <2>5 DEF v
<1> QED
  BY <1>0, <1>5, <1>6

(* The sum of numbers is a number.                                           *)
LEMMA SumIsNumber ==
    ASSUME NEW n \in Nat, NEW g, NEW f, IsSum(f, n, g), \A k \in 1..n : g[k] \in Nat
    PROVE  \A k \in 0..n : f[k] \in Nat
<1>1. \A k \in 0..n : f[k] = IF k = 0 THEN 0 ELSE f[k - 1] + g[k]
  BY Zenon DEF IsSum
<1> DEFINE S == {k \in Nat : k <= n => f[k] \in Nat}
<1>2. 0 \in S
  <2>1. 0 \in 0..n
    OBVIOUS
  <2> QED
    BY <1>1, <2>1
<1>3. ASSUME NEW k \in S PROVE k + 1 \in S
  <2> SUFFICES ASSUME k + 1 <= n PROVE f[k + 1] \in Nat
    OBVIOUS
  <2>1. /\ f[k] \in Nat /\ k + 1 \in 0..n /\ k + 1 \in 1..n /\ k + 1 # 0
        /\ (k + 1) - 1 = k
    OBVIOUS
  <2>2. f[k + 1] = f[k] + g[k + 1] /\ g[k + 1] \in Nat
    BY <1>1, <2>1
  <2> QED
    BY <2>1, <2>2
<1>4. S = Nat
  <2> HIDE DEF S
  <2>1. S \in SUBSET Nat
    BY DEF S
  <2> QED
    BY <1>2, <1>3, <2>1, SetInduction
<1> QED
  BY <1>4

(* So a set of 64-bit numbers has a greatest one.                            *)
LEMMA GreatestBelow ==
    ASSUME NEW n \in Nat, NEW S \in SUBSET (0..n), S # {}
    PROVE  Greatest(S) \in S /\ \A y \in S : y <= Greatest(S)
<1> DEFINE T == {n - x : x \in S}
<1>1. \A x \in S : x \in 0..n /\ n - x \in Nat  OBVIOUS
<1>2. T \in SUBSET Nat /\ T # {}
  <2>1. \A x \in S : n - x \in Nat  BY <1>1
  <2> QED  BY <2>1
<1> DEFINE t == Least(T)
<1>3. t \in T /\ \A y \in T : t <= y
  <2> HIDE DEF T
  <2> QED  BY <1>2, LeastOfSet
<1> HIDE DEF t
<1>4. PICK x \in S : t = n - x  BY <1>3
<1>5. \A y \in S : y <= x
  <2> TAKE y \in S
  <2>1. n - y \in T  OBVIOUS
  <2>2. t <= n - y  BY <1>3, <2>1
  <2>3. x \in 0..n /\ y \in 0..n  BY <1>1
  <2> QED  BY <1>4, <2>2, <2>3
<1> QED  BY <1>5 DEF Greatest

(* Addresses are bounded.                                                    *)
LEMMA GreatestOfSet ==
    ASSUME NEW S \in SUBSET U64, S # {}
    PROVE  Greatest(S) \in S /\ \A y \in S : y <= Greatest(S)
BY GreatestBelow, U64MaxAssumption DEF U64

(* The base is the lowest address, rounded down.                             *)
LEMMA BaseOfHeaders ==
    ASSUME NEW segs, \A i \in 1..Len(segs) : segs[i].header \in Phdr
    PROVE  /\ ImageBase(segs) \in U64
           /\ \A l \in LoadRecords(segs) : l.vaddr \in Nat /\ ImageBase(segs) <= l.vaddr
<1> DEFINE loads == LoadRecords(segs)
           addrs == {l.vaddr : l \in loads}
           aligns == {MinPage} \cup {l.align : l \in loads}
<1>1. loads \subseteq Phdr  BY DEF LoadRecords
<1>2. MinPage \in U64 /\ MinPage > 0 /\ 0 \in U64 /\ U64Max \in Nat
  BY MinPageAssumption, U64MaxAssumption DEF U64
<1> HIDE DEF loads
<1>3. addrs \in SUBSET U64 /\ aligns \in SUBSET U64  BY <1>1, <1>2 DEF Phdr
<1>4. CASE loads = {}
  BY <1>2, <1>4 DEF ImageBase, Base, loads
<1>5. CASE loads # {}
  <2> DEFINE lowest == Least(addrs)
             page   == Greatest(aligns)
  <2>1. addrs \in SUBSET Nat /\ addrs # {}  BY <1>2, <1>3, <1>5 DEF U64
  <2>2. aligns # {} /\ MinPage \in aligns  OBVIOUS
  <2> HIDE DEF addrs, aligns
  <2>3. lowest \in addrs /\ \A y \in addrs : lowest <= y  BY <2>1, LeastOfSet
  <2>4. page \in aligns /\ MinPage <= page  BY <1>3, <2>2, GreatestOfSet
  <2>5. ImageBase(segs) = lowest - (lowest % page)
    BY <1>5 DEF ImageBase, Base, Page, loads, addrs, aligns
  <2>8. \A l \in loads : l.vaddr \in addrs  BY DEF addrs
  <2> HIDE DEF lowest, page
  <2>6. lowest \in 0..U64Max /\ page \in Nat \ {0}
    BY <1>2, <1>3, <2>3, <2>4 DEF U64
  <2>7. lowest % page \in 0..(page - 1) /\ lowest % page <= lowest
    BY <1>2, <2>6, SMTT(30)
  <2>9. ImageBase(segs) \in U64 /\ ImageBase(segs) <= lowest
    BY <1>2, <2>5, <2>6, <2>7 DEF U64
  <2>10. \A y \in addrs : y \in Nat /\ ImageBase(segs) <= y
    BY <1>2, <2>1, <2>3, <2>6, <2>9 DEF U64
  <2> QED  BY <2>8, <2>9, <2>10 DEF loads
<1> QED  BY <1>4, <1>5

(* The mapped size of an image is a number.                                  *)
LEMMA SpanOfHeaders ==
    ASSUME NEW segs, \A i \in 1..Len(segs) : segs[i].header \in Phdr
    PROVE  ImageSpan(segs) \in Nat
<1> DEFINE loads == LoadRecords(segs)
           ends == {SatAdd(l.vaddr, l.memsz) : l \in loads}
           aligns == {MinPage} \cup {l.align : l \in loads}
<1>1. loads \subseteq Phdr  BY DEF LoadRecords
<1>2. MinPage \in U64 /\ 0 \in U64 /\ U64Max \in Nat
  BY MinPageAssumption, U64MaxAssumption DEF U64
<1>3. ImageBase(segs) \in U64  BY BaseOfHeaders
<1> HIDE DEF loads
<1>4. ends \in SUBSET U64
  <2> SUFFICES ASSUME NEW l \in loads PROVE SatAdd(l.vaddr, l.memsz) \in U64  OBVIOUS
  <2>1. l.vaddr \in 0..U64Max /\ l.memsz \in 0..U64Max  BY <1>1 DEF Phdr, U64
  <2> QED  BY <1>2, <2>1 DEF SatAdd, U64
<1>5. aligns \in SUBSET U64  BY <1>1, <1>2 DEF Phdr
<1>6. CASE loads = {}  BY <1>6 DEF ImageSpan, Span, loads
<1>7. CASE loads # {}
  <2> DEFINE end  == Greatest(ends)
             page == Greatest(aligns)
             up   == AlignUp(end, page)
  <2>1. ends # {} /\ aligns # {}  BY <1>7
  <2> HIDE DEF ends, aligns
  <2>2. end \in U64 /\ page \in U64  BY <1>4, <1>5, <2>1, GreatestOfSet
  <2>3. ImageSpan(segs) = SatSub(up, ImageBase(segs))
    BY <1>7 DEF ImageSpan, ImageBase, Span, Page, loads, ends, aligns
  <2> HIDE DEF end, page
  <2>4. end \in Nat /\ page \in Nat  BY <1>2, <2>2 DEF U64
  <2>5. up \in Nat  BY <2>4, AlignUpFacts
  <2> HIDE DEF up
  <2>6. ImageBase(segs) \in Nat  BY <1>2, <1>3 DEF U64
  <2> QED  BY <2>3, <2>5, <2>6 DEF SatSub
<1> QED  BY <1>6, <1>7

(* The segments of an image have such headers.                               *)
LEMMA BaseIsAddress ==
    ASSUME NEW segs \in Seq(Segment)
    PROVE  /\ ImageBase(segs) \in U64
           /\ \A l \in LoadRecords(segs) : l.vaddr \in Nat /\ ImageBase(segs) <= l.vaddr
<1>1. \A i \in 1..Len(segs) : segs[i] \in Segment  OBVIOUS
<1>2. \A i \in 1..Len(segs) : segs[i].header \in Phdr  BY <1>1 DEF Segment
<1> QED  BY <1>2, BaseOfHeaders

(* And their span is a number.                                               *)
LEMMA SpanIsNumber ==
    ASSUME NEW segs \in Seq(Segment)
    PROVE  ImageSpan(segs) \in Nat
<1>1. \A i \in 1..Len(segs) : segs[i] \in Segment  OBVIOUS
<1>2. \A i \in 1..Len(segs) : segs[i].header \in Phdr  BY <1>1 DEF Segment
<1> QED  BY <1>2, SpanOfHeaders

-----------------------------------------------------------------------------
(* Joining and choosing.                                                     *)

(* The recursion of Joined has a solution.                                   *)
LEMMA JoinedSteps ==
    ASSUME NEW parts, Len(parts) \in Nat
    PROVE  \E f : /\ Joined(parts) = f[Len(parts)]
                  /\ f[0] = <<>>
                  /\ \A i \in 1..Len(parts) : f[i] = f[i - 1] \o parts[i]
<1> DEFINE UpTo(f, n) == \A i \in 0..n : f[i] = IF i = 0 THEN <<>> ELSE f[i - 1] \o parts[i]
           Solves(f) == f = [i \in 0..Len(parts) |->
                                IF i = 0 THEN <<>> ELSE f[i - 1] \o parts[i]]
           S == {n \in Nat : \E f : UpTo(f, n)}
<1>1. 0 \in S
  <2> DEFINE first == [i \in 0..0 |-> <<>>]
  <2>1. \A i \in 0..0 : i = 0 /\ first[i] = <<>>
    OBVIOUS
  <2> HIDE DEF first
  <2>2. UpTo(first, 0)
    BY <2>1
  <2> QED
    BY <2>2
<1>2. ASSUME NEW n \in S PROVE n + 1 \in S
  <2>1. PICK f : UpTo(f, n)
    OBVIOUS
  <2>2. n \in Nat
    OBVIOUS
  <2> DEFINE last == f[n] \o parts[n + 1]
             more == [i \in 0..(n + 1) |-> IF i = n + 1 THEN last ELSE f[i]]
  <2>3. \A i \in 0..(n + 1) : more[i] = IF i = n + 1 THEN last ELSE f[i]
    OBVIOUS
  <2> HIDE DEF more
  <2>4. ASSUME NEW i \in 0..(n + 1)
        PROVE  more[i] = IF i = 0 THEN <<>> ELSE more[i - 1] \o parts[i]
    <3>1. CASE i = n + 1
      <4>1. n \in 0..(n + 1) /\ n # n + 1 /\ i # 0 /\ i - 1 = n
        BY <2>2, <3>1
      <4>2. more[i] = last /\ more[i - 1] = f[n]
        BY <2>3, <3>1, <4>1
      <4> QED
        BY <3>1, <4>1, <4>2
    <3>2. CASE i # n + 1
      <4>1. i \in 0..n /\ (i # 0 => i - 1 \in 0..(n + 1) /\ i - 1 # n + 1)
        BY <2>2, <3>2
      <4>2. more[i] = f[i] /\ (i # 0 => more[i - 1] = f[i - 1])
        BY <2>3, <3>2, <4>1
      <4> QED
        BY <2>1, <4>1, <4>2
    <3> QED
      BY <3>1, <3>2
  <2>5. UpTo(more, n + 1)
    BY <2>4
  <2> QED
    BY <2>2, <2>5
<1>3. S = Nat
  <2> HIDE DEF S
  <2>1. S \in SUBSET Nat
    BY DEF S
  <2> QED
    BY <1>1, <1>2, <2>1, SetInduction
<1>4. PICK g : UpTo(g, Len(parts))
  BY <1>3
<1> DEFINE f == [i \in 0..Len(parts) |-> g[i]]
<1>5. /\ f = [i \in 0..Len(parts) |-> f[i]]
      /\ \A i \in 0..Len(parts) : f[i] = g[i]
  OBVIOUS
<1> HIDE DEF f
<1>6. \A i \in 0..Len(parts) : i # 0 => i - 1 \in 0..Len(parts)
  OBVIOUS
<1>7. \A i \in 0..Len(parts) : f[i] = IF i = 0 THEN <<>> ELSE f[i - 1] \o parts[i]
  BY <1>4, <1>5, <1>6
<1>8. \E h : Solves(h)
  BY <1>5, <1>7
<1> DEFINE h == CHOOSE h : Solves(h)
<1>9. Solves(h)
  BY <1>8, Zenon
<1>10. Joined(parts) = h[Len(parts)]
  BY Zenon DEF Joined
<1> HIDE DEF h
<1>11. \A i \in 0..Len(parts) : h[i] = IF i = 0 THEN <<>> ELSE h[i - 1] \o parts[i]
  BY <1>9, Zenon
<1>12. 0 \in 0..Len(parts) /\ \A i \in 1..Len(parts) : i \in 0..Len(parts) /\ i # 0
  OBVIOUS
<1>13. h[0] = <<>> /\ \A i \in 1..Len(parts) : h[i] = h[i - 1] \o parts[i]
  BY <1>11, <1>12, Zenon
<1> QED
  BY <1>10, <1>13

(* Joining is what grows from nothing by the parts.                          *)
LEMMA JoinedIs ==
    ASSUME NEW parts, Len(parts) \in Nat, NEW u, u[0] = <<>>,
           \A i \in 1..Len(parts) : u[i] = u[i - 1] \o parts[i]
    PROVE  Joined(parts) = u[Len(parts)]
<1>1. PICK f : /\ Joined(parts) = f[Len(parts)]
               /\ f[0] = <<>>
               /\ \A i \in 1..Len(parts) : f[i] = f[i - 1] \o parts[i]
  BY JoinedSteps, Zenon
<1> DEFINE S == {i \in Nat : i <= Len(parts) => f[i] = u[i]}
<1>2. 0 \in S
  BY <1>1
<1>3. ASSUME NEW i \in S PROVE i + 1 \in S
  <2> SUFFICES ASSUME i + 1 <= Len(parts) PROVE f[i + 1] = u[i + 1]
    OBVIOUS
  <2>1. f[i] = u[i] /\ i + 1 \in 1..Len(parts) /\ (i + 1) - 1 = i
    OBVIOUS
  <2> QED
    BY <1>1, <2>1
<1>4. S = Nat
  <2> HIDE DEF S
  <2>1. S \in SUBSET Nat
    BY DEF S
  <2> QED
    BY <1>2, <1>3, <2>1, SetInduction
<1> QED
  BY <1>1, <1>4

(* It keeps the kind of the elements.                                        *)
LEMMA JoinedType ==
    ASSUME NEW S, NEW parts, Len(parts) \in Nat, \A i \in 1..Len(parts) : parts[i] \in Seq(S)
    PROVE  Joined(parts) \in Seq(S)
<1>1. PICK f : /\ Joined(parts) = f[Len(parts)]
               /\ f[0] = <<>>
               /\ \A i \in 1..Len(parts) : f[i] = f[i - 1] \o parts[i]
  BY JoinedSteps, Zenon
<1> DEFINE T == {i \in Nat : i <= Len(parts) => f[i] \in Seq(S)}
<1>2. 0 \in T
  <2>1. <<>> \in Seq(S)
    OBVIOUS
  <2> QED
    BY <1>1, <2>1
<1>3. ASSUME NEW i \in T PROVE i + 1 \in T
  <2> SUFFICES ASSUME i + 1 <= Len(parts) PROVE f[i + 1] \in Seq(S)
    OBVIOUS
  <2>1. f[i] \in Seq(S) /\ i + 1 \in 1..Len(parts) /\ (i + 1) - 1 = i
    OBVIOUS
  <2>2. parts[i + 1] \in Seq(S)
    BY <2>1
  <2>3. f[i] \o parts[i + 1] \in Seq(S)
    BY <2>1, <2>2
  <2> QED
    BY <1>1, <2>1, <2>3
<1>4. T = Nat
  <2> HIDE DEF T
  <2>1. T \in SUBSET Nat
    BY DEF T
  <2> QED
    BY <1>2, <1>3, <2>1, SetInduction
<1>5. Len(parts) \in T
  BY <1>4
<1> QED
  BY <1>1, <1>5

(* The elements chosen are among those given.                                *)
LEMMA ChosenType ==
    ASSUME NEW S, NEW list \in Seq(S), NEW indices
    PROVE  Chosen(list, indices) \in Seq(S)
<1> DEFINE part(i) == IF i \in indices THEN <<list[i]>> ELSE <<>>
           parts == [i \in 1..Len(list) |-> part(i)]
<1>1. ASSUME NEW i \in 1..Len(list) PROVE part(i) \in Seq(S)
  <2>1. list[i] \in S
    OBVIOUS
  <2> QED
    BY <2>1
<1>2. Len(parts) = Len(list) /\ \A i \in 1..Len(list) : parts[i] = part(i)
  OBVIOUS
<1>3. Chosen(list, indices) = Joined(parts)
  BY DEF Chosen
<1> HIDE DEF parts, part
<1>4. Len(parts) \in Nat /\ \A i \in 1..Len(parts) : parts[i] \in Seq(S)
  BY <1>1, <1>2
<1> QED
  BY <1>3, <1>4, JoinedType

(* Choosing a run of elements cuts it out.                                   *)
LEMMA ChosenRun ==
    ASSUME NEW S, NEW list \in Seq(S), NEW a \in Nat, NEW b \in Nat, a <= b, b <= Len(list),
           NEW indices, \A i \in 1..Len(list) : i \in indices <=> a < i /\ i <= b
    PROVE  Chosen(list, indices) = SubSeq(list, a + 1, b)
<1> DEFINE part(i) == IF i \in indices THEN <<list[i]>> ELSE <<>>
           parts == [i \in 1..Len(list) |-> part(i)]
           top(i) == IF i <= b THEN i ELSE b
           u == [i \in 0..Len(list) |-> SubSeq(list, a + 1, top(i))]
<1>1. Len(parts) = Len(list) /\ \A i \in 1..Len(list) : parts[i] = part(i)
  OBVIOUS
<1>2. Chosen(list, indices) = Joined(parts)
  BY DEF Chosen
<1> HIDE DEF parts
<1>3. \A i \in 0..Len(list) : u[i] = SubSeq(list, a + 1, top(i))
  OBVIOUS
<1> HIDE DEF u
<1>4. u[0] = <<>>
  <2>1. top(0) = 0 /\ 0 \in 0..Len(list)
    OBVIOUS
  <2>2. SubSeq(list, a + 1, 0) = <<>>
    OBVIOUS
  <2> QED
    BY <1>3, <2>1, <2>2
<1>5. ASSUME NEW i \in 1..Len(list) PROVE u[i] = u[i - 1] \o parts[i]
  <2>1. i \in 0..Len(list) /\ i - 1 \in 0..Len(list)
    OBVIOUS
  <2>2. u[i] = SubSeq(list, a + 1, top(i)) /\ u[i - 1] = SubSeq(list, a + 1, top(i - 1))
    BY <1>3, <2>1, Zenon
  <2>3. CASE i \in indices
    <3>1. a < i /\ i <= b /\ top(i) = i /\ top(i - 1) = i - 1
      BY <2>3
    <3>2. parts[i] = <<list[i]>>
      BY <1>1, <2>3
    <3>3. SubSeq(list, a + 1, i) = SubSeq(list, a + 1, i - 1) \o <<list[i]>>
      BY <3>1
    <3> QED
      BY <2>2, <3>1, <3>2, <3>3
  <2>4. CASE i \notin indices
    <3>1. parts[i] = <<>>
      BY <1>1, <2>4
    <3>2. SubSeq(list, a + 1, top(i - 1)) \in Seq(S)
      BY <2>1
    <3>3. SubSeq(list, a + 1, top(i)) = SubSeq(list, a + 1, top(i - 1))
      <4>1. i <= a \/ b < i
        BY <2>4
      <4>2. CASE i <= a
        <5>1. top(i) = i /\ top(i - 1) = i - 1 /\ i < a + 1 /\ i - 1 < a + 1
          BY <4>2
        <5>2. SubSeq(list, a + 1, i) = <<>> /\ SubSeq(list, a + 1, i - 1) = <<>>
          BY <5>1
        <5> QED
          BY <5>1, <5>2
      <4>3. CASE b < i
        <5>1. top(i) = b /\ top(i - 1) = b
          BY <4>3
        <5> QED
          BY <5>1
      <4> QED
        BY <4>1, <4>2, <4>3
    <3> QED
      BY <2>2, <3>1, <3>2, <3>3
  <2> QED
    BY <2>3, <2>4
<1>6. Len(parts) \in Nat /\ \A i \in 1..Len(parts) : u[i] = u[i - 1] \o parts[i]
  <2>1. Len(list) \in Nat
    OBVIOUS
  <2> QED
    BY <1>1, <1>5, <2>1, Zenon
<1>7. Joined(parts) = u[Len(list)]
  BY <1>1, <1>4, <1>6, JoinedIs
<1>8. u[Len(list)] = SubSeq(list, a + 1, b)
  <2>1. Len(list) \in 0..Len(list) /\ top(Len(list)) = b
    OBVIOUS
  <2> QED
    BY <1>3, <2>1
<1> QED
  BY <1>2, <1>7, <1>8

(* The indices up to n, in ascending order.                                  *)
Ascends(ids, indices, n) ==
    /\ Len(ids) \in Nat
    /\ \A l \in 1..Len(ids) : ids[l] \in 1..n /\ ids[l] \in indices
    /\ \A k, l \in 1..Len(ids) : k < l => ids[k] < ids[l]
    /\ \A j \in 1..n : j \in indices => \E l \in 1..Len(ids) : ids[l] = j

(* The elements of list at those indices.                                    *)
Picks(x, ids, list) ==
    Len(x) = Len(ids) /\ \A l \in 1..Len(ids) : x[l] = list[ids[l]]

(* One index more.                                                           *)
LEMMA AscendsNext ==
    ASSUME NEW S, NEW list \in Seq(S), NEW indices, NEW i \in 1..Len(list),
           NEW x \in Seq(S), NEW ids \in Seq(Nat),
           Ascends(ids, indices, i - 1), Picks(x, ids, list)
    PROVE  LET y    == x \o (IF i \in indices THEN <<list[i]>> ELSE <<>>)
               more == ids \o (IF i \in indices THEN <<i>> ELSE <<>>)
           IN  y \in Seq(S) /\ more \in Seq(Nat) /\ Ascends(more, indices, i) /\ Picks(y, more, list)
<1>1. CASE i \notin indices
  <2>1. x \o <<>> = x /\ ids \o <<>> = ids
    OBVIOUS
  <2>2. Ascends(ids, indices, i)
    <3>1. \A j \in 1..i : j \in indices => j \in 1..(i - 1)
      BY <1>1
    <3>2. \A j \in 1..(i - 1) : j \in 1..i
      OBVIOUS
    <3> QED
      BY <3>1, <3>2 DEF Ascends
  <2> QED
    BY <1>1, <2>1, <2>2
<1>2. CASE i \in indices
  <2> DEFINE y == x \o <<list[i]>>
             more == ids \o <<i>>
             n == Len(ids)
  <2>1. list[i] \in S /\ i \in Nat /\ n \in Nat /\ Len(x) = n
    BY DEF Picks
  <2>2. <<list[i]>> \in Seq(S) /\ Len(<<list[i]>>) = 1 /\ <<i>> \in Seq(Nat) /\ Len(<<i>>) = 1
    BY <2>1
  <2>3. y \in Seq(S) /\ Len(y) = n + 1 /\ y[n + 1] = list[i] /\ \A l \in 1..n : y[l] = x[l]
    BY <2>1, <2>2
  <2>4. more \in Seq(Nat) /\ Len(more) = n + 1 /\ more[n + 1] = i /\ \A l \in 1..n : more[l] = ids[l]
    BY <2>1, <2>2
  <2>5. \A l \in 1..(n + 1) : l = n + 1 \/ l \in 1..n
    BY <2>1
  <2> HIDE DEF y, more
  <2>6. Picks(y, more, list)
    BY <2>3, <2>4, <2>5 DEF Picks
  <2>7. Ascends(more, indices, i)
    <3>1. \A l \in 1..Len(more) : more[l] \in 1..i /\ more[l] \in indices
      <4> SUFFICES ASSUME NEW l \in 1..(n + 1) PROVE more[l] \in 1..i /\ more[l] \in indices
        BY <2>4
      <4>1. CASE l = n + 1
        BY <1>2, <2>4, <4>1
      <4>2. CASE l \in 1..n
        <5>1. ids[l] \in 1..(i - 1) /\ ids[l] \in indices
          BY <4>2 DEF Ascends
        <5> QED
          BY <2>4, <4>2, <5>1
      <4> QED
        BY <2>5, <4>1, <4>2
    <3>2. ASSUME NEW k \in 1..Len(more), NEW l \in 1..Len(more), k < l PROVE more[k] < more[l]
      <4>1. k \in 1..n
        BY <2>1, <2>4, <3>2
      <4>2. ids[k] \in 1..(i - 1) /\ more[k] = ids[k]
        BY <2>4, <4>1 DEF Ascends
      <4>3. CASE l = n + 1
        BY <2>4, <4>2, <4>3
      <4>4. CASE l \in 1..n
        <5>1. ids[k] < ids[l]
          BY <3>2, <4>1, <4>4 DEF Ascends
        <5> QED
          BY <2>4, <4>2, <4>4, <5>1
      <4> QED
        BY <2>4, <2>5, <4>3, <4>4
    <3>3. ASSUME NEW j \in 1..i, j \in indices PROVE \E l \in 1..Len(more) : more[l] = j
      <4>1. CASE j = i
        <5>1. n + 1 \in 1..Len(more)
          BY <2>1, <2>4
        <5> QED
          BY <2>4, <4>1, <5>1
      <4>2. CASE j # i
        <5>1. j \in 1..(i - 1)
          BY <4>2
        <5>2. PICK l \in 1..n : ids[l] = j
          BY <3>3, <5>1 DEF Ascends
        <5>3. l \in 1..Len(more)
          BY <2>1, <2>4
        <5> QED
          BY <2>4, <5>2, <5>3
      <4> QED
        BY <4>1, <4>2
    <3>4. Len(more) \in Nat
      BY <2>1, <2>4
    <3> QED
      BY <3>1, <3>2, <3>3, <3>4 DEF Ascends
  <2> QED
    BY <1>2, <2>3, <2>4, <2>6, <2>7 DEF y, more
<1> QED
  BY <1>1, <1>2

(* Choosing elements is choosing their indices.                              *)
LEMMA ChosenIndices ==
    ASSUME NEW S, NEW list \in Seq(S), NEW indices
    PROVE  LET ids == Chosen([i \in 1..Len(list) |-> i], indices)
           IN  Ascends(ids, indices, Len(list)) /\ Picks(Chosen(list, indices), ids, list)
<1> DEFINE count == [i \in 1..Len(list) |-> i]
           part(i) == IF i \in indices THEN <<list[i]>> ELSE <<>>
           one(i)  == IF i \in indices THEN <<i>> ELSE <<>>
           parts == [i \in 1..Len(list) |-> part(i)]
           ones  == [i \in 1..Len(list) |-> IF i \in indices THEN <<count[i]>> ELSE <<>>]
<1>1. Len(list) \in Nat /\ Len(count) = Len(list) /\ \A i \in 1..Len(list) : count[i] = i
  OBVIOUS
<1>2. Len(parts) = Len(list) /\ \A i \in 1..Len(list) : parts[i] = part(i)
  OBVIOUS
<1>3. Len(ones) = Len(list) /\ \A i \in 1..Len(list) : ones[i] = one(i)
  OBVIOUS
<1>4. Chosen(list, indices) = Joined(parts)
  BY DEF Chosen
<1>5. Chosen(count, indices) = Joined(ones)
  BY <1>1 DEF Chosen
<1> HIDE DEF parts, ones
<1>6. PICK f : /\ Joined(parts) = f[Len(parts)]
               /\ f[0] = <<>>
               /\ \A i \in 1..Len(parts) : f[i] = f[i - 1] \o parts[i]
  BY <1>1, <1>2, JoinedSteps
<1>7. PICK g : /\ Joined(ones) = g[Len(ones)]
               /\ g[0] = <<>>
               /\ \A i \in 1..Len(ones) : g[i] = g[i - 1] \o ones[i]
  BY <1>1, <1>3, JoinedSteps
<1> DEFINE Good(i) == /\ f[i] \in Seq(S) /\ g[i] \in Seq(Nat)
                      /\ Ascends(g[i], indices, i) /\ Picks(f[i], g[i], list)
           T == {i \in Nat : i <= Len(list) => Good(i)}
<1>8. 0 \in T
  <2>1. <<>> \in Seq(S)
    OBVIOUS
  <2>2. <<>> \in Seq(Nat)
    OBVIOUS
  <2>3. Ascends(<<>>, indices, 0) /\ Picks(<<>>, <<>>, list)
    BY DEF Ascends, Picks
  <2> QED
    BY <1>6, <1>7, <2>1, <2>2, <2>3
<1>9. ASSUME NEW i \in T PROVE i + 1 \in T
  <2> SUFFICES ASSUME i + 1 <= Len(list) PROVE Good(i + 1)
    OBVIOUS
  <2>1. i \in Nat /\ i + 1 \in 1..Len(list) /\ (i + 1) - 1 = i
    BY <1>1
  <2>2. Good(i)
    BY <1>1, <2>1
  <2>3. f[i + 1] = f[i] \o part(i + 1) /\ g[i + 1] = g[i] \o one(i + 1)
    BY <1>2, <1>3, <1>6, <1>7, <2>1
  <2> DEFINE j == i + 1
  <2>4. j \in 1..Len(list) /\ Ascends(g[i], indices, j - 1)
    BY <2>1, <2>2
  <2>5. f[i] \in Seq(S) /\ g[i] \in Seq(Nat) /\ Picks(f[i], g[i], list)
    BY <2>2
  <2> HIDE DEF j, Good
  <2>6. LET y    == f[i] \o (IF j \in indices THEN <<list[j]>> ELSE <<>>)
            more == g[i] \o (IF j \in indices THEN <<j>> ELSE <<>>)
        IN  y \in Seq(S) /\ more \in Seq(Nat) /\ Ascends(more, indices, j) /\ Picks(y, more, list)
    BY <2>4, <2>5, AscendsNext
  <2> QED
    BY <2>3, <2>6, Zenon DEF j, Good
<1>10. T = Nat
  <2> HIDE DEF T
  <2>1. T \in SUBSET Nat
    BY DEF T
  <2> QED
    BY <1>8, <1>9, <2>1, SetInduction
<1>11. Good(Len(list))
  BY <1>1, <1>10
<1> QED
  BY <1>2, <1>3, <1>4, <1>5, <1>6, <1>7, <1>11

=============================================================================
