-------------------------- MODULE ElfBuilderProofs --------------------------
(* Proofs about the builder and what is made of its image: whatever is asked *)
(* for and however long the lists are, what try_build assembles is an image, *)
(* the offsets it puts in the dynamic table are those of the names in        *)
(* .dynstr, saving the image again makes the same file, memory is read from  *)
(* it as it was asked for and written, and its accessors report the          *)
(* relocations, the notes and the libraries asked for: every table written   *)
(* is decoded to what was encoded. What is proved of one call of the         *)
(* serializer is taken from FileLayoutProofs.                                *)
EXTENDS BuilderSession, ElfFormatProofs, TLAPS

-----------------------------------------------------------------------------
(* Numbers and their digits.                                                 *)

(* A byte has at least four values, a word at least two bytes.               *)
LEMMA Sizes ==
    /\ Radix \in Nat \ {0} /\ Word \in Nat \ {0} /\ Word > 1
    /\ \A class : NativeSize(class) \in {Word, 2 * Word}
<1>1. Nibble \in Nat \ {0} /\ Half \in Nat \ {0}  BY TablesAssumption
<1>2. Nibble * Nibble \in Nat \ {0}  BY <1>1, SMTT(30)
<1> QED  BY <1>1, <1>2 DEF Radix, Word, NativeSize

(* What is left of a number, of either sign, is less than the divisor.       *)
LEMMA RemainderInRange ==
    ASSUME NEW n \in Int, NEW m \in Nat \ {0}, NEW d \in Nat \ {0}
    PROVE  n \div d \in Int /\ (n \div d) % m \in 0..(m - 1)
<1>1. n \div d \in Int  BY SMTT(30)
<1> DEFINE q == n \div d
<1>2. q \in Int  BY <1>1
<1> HIDE DEF q
<1>3. q % m \in 0..(m - 1)  BY <1>2, SMTT(30)
<1> QED  BY <1>1, <1>3 DEF q

(* The digits of any number, also of a negative one, are bytes.              *)
LEMMA DigitIsByte ==
    ASSUME NEW n \in Int, NEW size \in 0..(2 * Word), NEW order, NEW k \in 1..size
    PROVE  Digits(n, size, order)[k] \in RawByte
<1>1. Word \in Nat \ {0} /\ Radix \in Nat \ {0}  BY Sizes
<1>2. Place(k, size, order) \in Nat \ {0}
  <2>1. k - 1 \in 0..(2 * Word) /\ size - k \in 0..(2 * Word)  BY <1>1
  <2>2. \A e \in 0..(2 * Word) : Radix^e \in Nat \ {0}  BY TablesAssumption
  <2>3. Radix^(k - 1) \in Nat \ {0} /\ Radix^(size - k) \in Nat \ {0}  BY <2>1, <2>2
  <2> QED  BY <2>3, Zenon DEF Place
<1> DEFINE d == Place(k, size, order)
<1>3. d \in Nat \ {0}  BY <1>2
<1> HIDE DEF d
<1>4. (n \div d) % Radix \in 0..(Radix - 1)  BY <1>1, <1>3, RemainderInRange
<1>5. (n \div d) % Radix \in Datum  BY <1>4, TablesAssumption
<1>6. Digits(n, size, order)[k] = <<(n \div d) % Radix>>  BY DEF Digits, d
<1> QED  BY <1>5, <1>6, Zenon DEF RawByte

(* The digits of a number are a sequence of bytes.                           *)
LEMMA DigitsAreBytes ==
    ASSUME NEW n \in Int, NEW order
    PROVE  Digits(n, Word, order) \in Seq(RawByte)
<1>1. Word \in Nat /\ Word \in 0..(2 * Word)  BY Sizes
<1>2. \A k \in 1..Word : Digits(n, Word, order)[k] \in RawByte
  BY <1>1, DigitIsByte
<1>3. Digits(n, Word, order) = [k \in 1..Word |-> Digits(n, Word, order)[k]]
  BY Zenon DEF Digits
<1>4. [k \in 1..Word |-> Digits(n, Word, order)[k]] \in Seq(RawByte)  BY <1>1, <1>2
<1> QED  BY <1>3, <1>4, Zenon

(* Rows of width numbers become a sequence of bytes.                         *)
LEMMA SerializedIsBytes ==
    ASSUME NEW width \in Nat \ {0}, NEW rows, Len(rows) \in Nat,
           \A i \in 1..Len(rows) : \A j \in 1..width : rows[i][j] \in Int
    PROVE  Serialized(rows, width) \in Seq(RawByte)
<1> DEFINE size == NativeSize(Class)
           n    == Len(rows)
           m    == width * size
           byte(p) == Digits(rows[((p - 1) \div m) + 1][(((p - 1) % m) \div size) + 1],
                             size, Order)[(((p - 1) % m) % size) + 1]
<1>1. size \in 0..(2 * Word) /\ size \in Nat \ {0} /\ n \in Nat  BY Sizes
<1>2. Serialized(rows, width) = [p \in 1..(m * n) |-> byte(p)]  BY DEF Serialized
<1>3. \A i \in 1..n : \A j \in 1..width : rows[i][j] \in Int  OBVIOUS
<1> HIDE DEF size, n
<1>4. m \in Nat \ {0}  BY <1>1, SMTT(30)
<1>5. m * n \in Nat /\ m = size * width  BY <1>1, <1>4, SMTT(30)
<1>6. ASSUME NEW p \in 1..(m * n) PROVE byte(p) \in RawByte
  <2> DEFINE i == (p - 1) \div m
             k == (p - 1) % m
             j == k \div size
             c == k % size
  <2>1. p - 1 \in Nat /\ p - 1 \in 0..((m * n) - 1)  BY <1>5
  <2>2. i \in 0..(n - 1)  BY <1>1, <1>4, <2>1, DivBound
  <2>3. k \in 0..(m - 1)  BY <1>4, <2>1, DivMod
  <2> HIDE DEF i, k
  <2>4. k \in Nat /\ k \in 0..((size * width) - 1)  BY <1>4, <1>5, <2>3
  <2>5. j \in 0..(width - 1)  BY <1>1, <2>4, DivBound
  <2>6. c \in 0..(size - 1)  BY <1>1, <2>4, DivMod
  <2> HIDE DEF j, c
  <2>7. i + 1 \in 1..n /\ j + 1 \in 1..width /\ c + 1 \in 1..size
    BY <1>1, <2>2, <2>5, <2>6
  <2>8. rows[i + 1][j + 1] \in Int  BY <1>3, <2>7
  <2>9. Digits(rows[i + 1][j + 1], size, Order)[c + 1] \in RawByte
    BY <1>1, <2>7, <2>8, DigitIsByte
  <2> QED  BY <2>9 DEF i, k, j, c
<1> HIDE DEF byte, m
<1>7. [p \in 1..(m * n) |-> byte(p)] \in Seq(RawByte)  BY <1>5, <1>6
<1> QED  BY <1>2, <1>7, Zenon

-----------------------------------------------------------------------------
(* Reading numbers back.                                                     *)

(* What a number is read as adds up from its bytes,                          *)
LEMMA NumberAddsUp ==
    ASSUME NEW data, NEW at, NEW size \in Nat, NEW order, NEW g,
           \A k \in 1..size : g[k] = Value(data[at + k]) * Place(k, size, order)
    PROVE  \E f : IsSum(f, size, g) /\ NumberAt(data, at, size, order) = f[size]
<1> DEFINE Adds(f) == f = [k \in 0..size |->
                              IF k = 0 THEN 0
                              ELSE f[k - 1] + (Value(data[at + k]) * Place(k, size, order))]
<1>1. ASSUME NEW f PROVE IsSum(f, size, g) <=> Adds(f)
  <2>1. \A k \in 0..size : k # 0 => k \in 1..size
    OBVIOUS
  <2>2. [k \in 0..size |-> IF k = 0 THEN 0 ELSE f[k - 1] + g[k]]
        = [k \in 0..size |->
              IF k = 0 THEN 0
              ELSE f[k - 1] + (Value(data[at + k]) * Place(k, size, order))]
    BY <2>1
  <2> QED
    BY <2>2, Zenon DEF IsSum
<1>2. \E f : IsSum(f, size, g)
  BY SumExists
<1>3. \E f : Adds(f)
  BY <1>1, <1>2
<1>4. \E f : Adds(f) /\ NumberAt(data, at, size, order) = f[size]
  BY <1>3 DEF NumberAt
<1> HIDE DEF Adds
<1> QED
  BY <1>1, <1>4

(* to the one number every way of adding them up has.                        *)
LEMMA NumberIsSum ==
    ASSUME NEW data, NEW at, NEW size \in Nat, NEW order, NEW g,
           \A k \in 1..size : g[k] = Value(data[at + k]) * Place(k, size, order),
           NEW n, \A f : IsSum(f, size, g) => f[size] = n
    PROVE  NumberAt(data, at, size, order) \in {n}
<1>1. PICK f : IsSum(f, size, g) /\ NumberAt(data, at, size, order) = f[size]
  BY NumberAddsUp
<1> QED
  BY <1>1

(* What the places of a number are worth.                                    *)
LEMMA PlacesArePowers ==
    ASSUME NEW size \in 0..(2 * Word), NEW order
    PROVE  \E pow : /\ \A k \in 0..size : pow[k] = Radix^k
                    /\ ArePowers(pow, Radix, size)
                    /\ \/ \A k \in 1..size : Place(k, size, order) = pow[k - 1]
                       \/ \A k \in 1..size : Place(k, size, order) = pow[size - k]
<1>11. PICK pow : \A k \in 0..size : pow[k] = Radix^k
  <2>1. \A k \in 0..size : [j \in 0..size |-> Radix^j][k] = Radix^k
    OBVIOUS
  <2> QED
    BY <2>1, Zenon
<1>1. size \in Nat /\ size <= 2 * Word /\ Radix \in Nat \ {0}
  BY Sizes
<1>2. \A k \in 0..size : pow[k] = Radix^k
  BY <1>11
<1>3. \A k \in 0..size : k \in 0..(2 * Word)
  BY <1>1, Sizes
<1>4. \A k \in 1..size : k \in 1..(2 * Word) /\ k \in 0..size /\ k - 1 \in 0..size
                         /\ size - k \in 0..size
  BY <1>1, Sizes
<1>5. 0 \in 0..size /\ size \in 0..size
  BY <1>1
<1>6. \A k \in 0..size : pow[k] \in Nat \ {0}
  BY <1>2, <1>3, TablesAssumption
<1>7. pow[0] = 1
  BY <1>2, <1>5, TablesAssumption
<1>8. \A k \in 1..size : pow[k] = Radix * pow[k - 1]
  <2> TAKE k \in 1..size
  <2>1. pow[k] = Radix^k /\ pow[k - 1] = Radix^(k - 1)
    BY <1>2, <1>4
  <2>2. Radix^k = Radix * Radix^(k - 1)
    BY <1>4, TablesAssumption
  <2> QED
    BY <2>1, <2>2
<1>9. ArePowers(pow, Radix, size)
  BY <1>6, <1>7, <1>8 DEF ArePowers
<1>10. \/ \A k \in 1..size : Place(k, size, order) = pow[k - 1]
       \/ \A k \in 1..size : Place(k, size, order) = pow[size - k]
  <2>1. CASE order = "Little"
    BY <1>2, <1>4, <2>1 DEF Place
  <2>2. CASE order # "Little"
    BY <1>2, <1>4, <2>2 DEF Place
  <2> QED
    BY <2>1, <2>2
<1> QED
  BY <1>2, <1>9, <1>10, Zenon

(* Digits written are read as the number, but for those cut off.             *)
LEMMA DigitsRead ==
    ASSUME NEW n \in Int, NEW size \in 0..(2 * Word), NEW order, NEW data, NEW at,
           \A k \in 1..size : data[at + k] = Digits(n, size, order)[k]
    PROVE  NumberAt(data, at, size, order) = n % Radix^size
<1>1. size \in Nat /\ Radix \in Nat \ {0}
  BY Sizes
<1>12. PICK pow : /\ \A k \in 0..size : pow[k] = Radix^k
                  /\ ArePowers(pow, Radix, size)
                  /\ \/ \A k \in 1..size : Place(k, size, order) = pow[k - 1]
                     \/ \A k \in 1..size : Place(k, size, order) = pow[size - k]
  BY PlacesArePowers
<1>3. PICK g : \A k \in 1..size : g[k] = Value(data[at + k]) * Place(k, size, order)
  <2>1. \A k \in 1..size : [j \in 1..size |-> Value(data[at + j]) * Place(j, size, order)][k]
                            = Value(data[at + k]) * Place(k, size, order)
    OBVIOUS
  <2> QED
    BY <2>1, Zenon
<1>2. ArePowers(pow, Radix, size) /\ pow[size] = Radix^size
  <2>1. size \in 0..size
    BY <1>1
  <2> QED
    BY <1>12, <2>1
<1>13. \/ \A k \in 1..size : Place(k, size, order) = pow[k - 1]
       \/ \A k \in 1..size : Place(k, size, order) = pow[size - k]
  BY <1>12, Zenon
<1>5. ASSUME NEW k \in 1..size PROVE g[k] = Digit(n, Place(k, size, order), Radix)
  <2>1. Digits(n, size, order)[k] = <<(n \div Place(k, size, order)) % Radix>>
    BY DEF Digits
  <2>2. Digits(n, size, order)[k] \in RawByte
    BY DigitIsByte
  <2>3. Value(data[at + k]) = (n \div Place(k, size, order)) % Radix
    BY <2>1, <2>2 DEF Value
  <2> QED
    BY <1>3, <2>3 DEF Digit
<1>6. AreDigits(g, n, pow, Radix, size)
  <2>1. \/ \A k \in 1..size : g[k] = Digit(n, pow[k - 1], Radix)
        \/ \A k \in 1..size : g[k] = Digit(n, pow[size - k], Radix)
    BY <1>5, <1>13
  <2> QED
    BY <2>1, Zenon DEF AreDigits
<1>7. ASSUME NEW f, IsSum(f, size, g) PROVE f[size] = n - Rounded(n, pow[size])
  <2>1. ArePowers(pow, Radix, size)
    BY <1>2
  <2>2. Radix \in Nat \ {0} /\ size \in Nat
    BY <1>1
  <2> QED
    BY <2>1, <2>2, <1>6, <1>7, DigitSum
<1> DEFINE p == pow[size]
<1>8. p \in Nat \ {0}
  <2>1. size \in 0..size
    BY <1>1
  <2> QED
    BY <1>2, <2>1 DEF ArePowers
<1>9. NumberAt(data, at, size, order) = n - Rounded(n, p)
  <2>1. \A f : IsSum(f, size, g) => f[size] = n - Rounded(n, p)
    BY <1>7, Zenon
  <2> HIDE DEF p
  <2>2. size \in Nat
    BY <1>1
  <2>4. n - Rounded(n, p) = n - Rounded(n, p)
    OBVIOUS
  <2>3. NumberAt(data, at, size, order) \in {n - Rounded(n, p)}
    BY <2>1, <2>2, <1>3, NumberIsSum, Zenon
  <2> QED
    BY <2>3, Zenon
<1> HIDE DEF p
<1>10. n \div p \in Int /\ n % p \in 0..(p - 1) /\ n = (p * (n \div p)) + (n % p)
  BY <1>8, IntDivMod
<1>11. n - Rounded(n, p) = n % p
  <2> DEFINE q == p * (n \div p)
             r == n % p
  <2>1. q \in Int /\ r \in Int /\ n = q + r
    BY <1>8, <1>10, SMTT(30)
  <2>2. Rounded(n, p) = q
    BY DEF Rounded
  <2> HIDE DEF q, r
  <2>3. n - q = r
    BY <2>1
  <2> QED
    BY <2>2, <2>3 DEF r
<1> QED
  BY <1>2, <1>9, <1>11 DEF p

(* A number that fits comes back,                                            *)
LEMMA NumberRead ==
    ASSUME NEW size \in 0..(2 * Word), NEW n \in 0..(Radix^size - 1), NEW order,
           NEW data, NEW at, \A k \in 1..size : data[at + k] = Digits(n, size, order)[k]
    PROVE  NumberAt(data, at, size, order) = n
<1> DEFINE p == Radix^size
<1>1. p \in Nat \ {0}
  <2>1. size \in 0..(2 * Word)
    BY Sizes
  <2> QED
    BY <2>1, TablesAssumption
<1>2. NumberAt(data, at, size, order) = n % p
  BY <1>1, DigitsRead
<1>3. n \in 0..(p - 1)
  OBVIOUS
<1> HIDE DEF p
<1>4. n % p = n
  BY <1>1, <1>3, SMTT(30)
<1> QED
  BY <1>2, <1>4

(* also with its sign.                                                       *)
LEMMA SignedRead ==
    ASSUME NEW size \in 0..(2 * Word), NEW n \in Int,
           -(Radix^size) <= 2 * n, 2 * n < Radix^size, NEW order,
           NEW data, NEW at, \A k \in 1..size : data[at + k] = Digits(n, size, order)[k]
    PROVE  Signed(NumberAt(data, at, size, order), size) = n
<1> DEFINE p == Radix^size
<1>1. p \in Nat \ {0}
  <2>1. size \in 0..(2 * Word)
    BY Sizes
  <2> QED
    BY <2>1, TablesAssumption
<1>2. NumberAt(data, at, size, order) = n % p
  BY <1>1, DigitsRead
<1>3. -p <= 2 * n /\ 2 * n < p
  OBVIOUS
<1>4. Signed(n % p, size) = IF 2 * (n % p) < p THEN n % p ELSE (n % p) - p
  BY DEF Signed
<1> HIDE DEF p
<1>5. n % p = IF n >= 0 THEN n ELSE n + p
  <2>1. CASE n >= 0
    BY <1>1, <1>3, <2>1, SMTT(30)
  <2>2. CASE n < 0
    <3>1. n + p \in 0..(p - 1) /\ -1 \in Int
      BY <1>1, <1>3, <2>2
    <3>2. n = (p * (-1)) + (n + p)
      BY <1>1
    <3>3. ((p * (-1)) + (n + p)) \div p = -1
      BY <1>1, <3>1, DivUnique
    <3>4. n \div p = -1
      BY <3>2, <3>3
    <3>5. n = (p * (n \div p)) + (n % p) /\ n % p \in 0..(p - 1)
      BY <1>1, IntDivMod
    <3>6. n % p = n + p
      BY <1>1, <3>4, <3>5
    <3> QED
      BY <2>2, <3>6
  <2> QED
    BY <2>1, <2>2
<1>6. (IF 2 * (n % p) < p THEN n % p ELSE (n % p) - p) = n
  BY <1>1, <1>3, <1>5
<1> QED
  BY <1>2, <1>4, <1>6

-----------------------------------------------------------------------------
(* What becomes of each request is a segment or a section.                   *)

(* Raw bytes are bytes of a file.                                            *)
LEMMA RawBytesAreBytes == Seq(RawByte) \subseteq Seq(Byte)
<1>1. RawByte \subseteq Byte  BY DEF Byte
<1> QED  BY <1>1

(* The constants the builder puts into headers are in range.                 *)
LEMMA BuilderConstants ==
    /\ U64Max \in Nat /\ 0 \in U64 /\ 1 \in U64 /\ 8 \in U64 /\ Word \in U64
    /\ DefaultAlign \in U64
    /\ \A data \in Seq(RawByte) : SizeOf(data) \in U64 /\ SizeOf(data) \in Nat
<1>1. U64Max \in Nat  BY U64MaxAssumption
<1>2. {DefaultAlign, Word, 8} \subseteq U64  BY BuilderAssumption
<1>3. 0 \in U64 /\ 1 \in U64  BY <1>1, <1>2 DEF U64
<1>4. \A data \in Seq(RawByte) : SizeOf(data) \in U64 /\ SizeOf(data) \in Nat
  BY <1>1, <1>3 DEF SizeOf, U64
<1> QED  BY <1>1, <1>2, <1>3, <1>4

(* A segment made of bytes is one.                                           *)
LEMMA NewSegmentType ==
    ASSUME NEW type \in SegmentTypes, NEW vaddr \in U64, NEW memsz \in U64,
           NEW align \in U64, NEW data \in Seq(RawByte)
    PROVE  NewSegment(type, vaddr, memsz, align, data) \in Segment
<1>1. SizeOf(data) \in U64 /\ 0 \in U64 /\ data \in Seq(Byte)
  BY BuilderConstants, RawBytesAreBytes
<1>2. [type |-> type, offset |-> 0, vaddr |-> vaddr, filesz |-> SizeOf(data),
       memsz |-> memsz, align |-> align] \in Phdr
  BY <1>1 DEF Phdr
<1> QED  BY <1>1, <1>2 DEF NewSegment, Segment

(* So is a section.                                                          *)
LEMMA NewSectionType ==
    ASSUME NEW name \in Names, NEW type \in SectionTypes, NEW alloc \in BOOLEAN,
           NEW align \in U64, NEW data \in Seq(RawByte)
    PROVE  NewSection(name, type, alloc, align, data) \in Section
<1>1. SizeOf(data) \in Nat /\ 0 \in U64 /\ data \in Seq(Byte)
  BY BuilderConstants, RawBytesAreBytes
<1>2. [nameIndex |-> 0, type |-> type, alloc |-> alloc, addr |-> 0, offset |-> 0,
       size |-> SizeOf(data), addralign |-> align] \in Shdr
  BY <1>1 DEF Shdr
<1> QED  BY <1>1, <1>2 DEF NewSection, Section

(* Zeros are bytes.                                                          *)
LEMMA ZerosAreBytes ==
    ASSUME NEW n \in Nat PROVE Zeros(n) \in Seq(RawByte) /\ Zero \in RawByte
<1>1. Zero \in RawByte  BY FormatAssumption, Zenon DEF Zero, RawByte
<1>2. \A p \in 1..n : Zero \in RawByte  BY <1>1
<1>3. [p \in 1..n |-> Zero] \in Seq(RawByte)  BY <1>2
<1> QED  BY <1>1, <1>3 DEF Zeros

(* A serialized note is a sequence of bytes.                                 *)
LEMMA NoteIsBytes ==
    ASSUME NEW note \in NoteSpec
    PROVE  SerializeNote(note) \in Seq(RawByte)
<1> DEFINE named == note.name \o <<Zero>>
<1>1. note.name \in Seq(RawByte) /\ note.descriptor \in Seq(RawByte) /\ note.type \in U32
  BY DEF NoteSpec
<1>2. Zero \in RawByte  BY ZerosAreBytes
<1>3. named \in Seq(RawByte)  BY <1>1, <1>2
<1>4. U32 \subseteq Int /\ 0 \in Int  BY DEF U32
<1>5. Size32(named) \in Int /\ Size32(note.descriptor) \in Int
  BY <1>4 DEF Size32
<1>6. Padding(Len(named)) \in Nat /\ Padding(Len(note.descriptor)) \in Nat
  <2>1. Word \in Nat \ {0}  BY Sizes
  <2>2. Len(named) \in Nat /\ Len(note.descriptor) \in Nat  BY <1>1, <1>3
  <2>3. \A a \in Nat : Padding(a) \in Nat
    <3> TAKE a \in Nat
    <3> DEFINE r == a % Word
    <3>1. r \in 0..(Word - 1)  BY <2>1, DivMod
    <3> HIDE DEF r
    <3> DEFINE c == Word - r
    <3>2. c \in Nat  BY <2>1, <3>1
    <3> HIDE DEF c
    <3>3. c % Word \in 0..(Word - 1)  BY <2>1, <3>2, DivMod
    <3>4. c % Word \in Nat  BY <2>1, <3>3
    <3> QED  BY <3>4 DEF Padding, r, c
  <2> QED  BY <2>2, <2>3
<1>7. /\ Digits(Size32(named), Word, Order) \in Seq(RawByte)
      /\ Digits(Size32(note.descriptor), Word, Order) \in Seq(RawByte)
      /\ Digits(note.type, Word, Order) \in Seq(RawByte)
  BY <1>1, <1>4, <1>5, DigitsAreBytes
<1>8. /\ Zeros(Padding(Len(named))) \in Seq(RawByte)
      /\ Zeros(Padding(Len(note.descriptor))) \in Seq(RawByte)
  BY <1>6, ZerosAreBytes
<1> HIDE DEF named
<1> QED  BY <1>1, <1>3, <1>7, <1>8 DEF SerializeNote, named

(* The table of needed libraries is a sequence of bytes.                     *)
LEMMA DynamicIsBytes ==
    ASSUME nameOffsets \in Seq(Nat), dynstr \in Seq(RawByte)
    PROVE  DynamicTable \in Seq(RawByte)
<1> DEFINE named == [i \in 1..Len(nameOffsets) |-> <<DtNeeded, nameOffsets[i]>>]
           ends  == <<<<DtStrtab, 0>>, <<DtStrsz, SizeOf(dynstr)>>, <<DtNull, 0>>>>
           rows  == named \o ends
<1>1. /\ DtNeeded \in Int /\ DtStrtab \in Int /\ DtStrsz \in Int /\ DtNull \in Int
      /\ SizeOf(dynstr) \in Int
  BY BuilderConstants DEF DtNeeded, DtStrtab, DtStrsz, DtNull
<1>2. named \in Seq(Int \X Int)
  <2>1. Len(nameOffsets) \in Nat  OBVIOUS
  <2>2. \A i \in 1..Len(nameOffsets) : nameOffsets[i] \in Nat  OBVIOUS
  <2>3. \A i \in 1..Len(nameOffsets) : <<DtNeeded, nameOffsets[i]>> \in Int \X Int
    BY <1>1, <2>2
  <2> QED  BY <2>1, <2>3
<1>3. ends \in Seq(Int \X Int)  BY <1>1
<1> HIDE DEF named, ends
<1>4. rows \in Seq(Int \X Int)  BY <1>2, <1>3
<1> HIDE DEF rows
<1>5. Len(rows) \in Nat  BY <1>4
<1>6. \A i \in 1..Len(rows) : \A j \in 1..2 : rows[i][j] \in Int
  <2>1. \A i \in 1..Len(rows) : rows[i] \in Int \X Int  BY <1>4
  <2>2. \A pair \in Int \X Int : pair[1] \in Int /\ pair[2] \in Int  OBVIOUS
  <2>3. \A j \in 1..2 : j = 1 \/ j = 2  OBVIOUS
  <2> QED  BY <2>1, <2>2, <2>3
<1>7. 2 \in Nat \ {0}  OBVIOUS
<1>8. Serialized(rows, 2) \in Seq(RawByte)
  BY <1>5, <1>6, <1>7, SerializedIsBytes, Zenon
<1>9. DynamicTable = Serialized(rows, 2)  BY DEF DynamicTable, rows, named, ends
<1> QED  BY <1>8, <1>9, Zenon

(* A relocation asked for: its addend is left out or one number, and the     *)
(* table has that or zero.                                                   *)
LEMMA RelocationParts ==
    ASSUME NEW entry \in Relocation
    PROVE  /\ entry.offset \in U64 /\ entry.symbol \in U32 /\ entry.type \in U32
           /\ \E asked \in I64 :
                  /\ (entry.addend = {} /\ asked = 0) \/ entry.addend = {asked}
                  /\ Addend(entry) =
                         IF /\ Class = "Elf32"
                            /\ ~(-(Radix^Word) <= 2 * asked /\ 2 * asked < Radix^Word)
                         THEN 0 ELSE asked
<1>1. /\ entry \in [offset : U64, symbol : U32, type : U32, addend : SUBSET I64]
      /\ \A a, b \in entry.addend : a = b
  BY DEF Relocation
<1>2. /\ entry.offset \in U64 /\ entry.symbol \in U32 /\ entry.type \in U32
      /\ entry.addend \in SUBSET I64
  BY <1>1
<1> DEFINE asked == IF entry.addend = {} THEN 0 ELSE CHOOSE a \in entry.addend : TRUE
<1>3. asked \in I64 /\ ((entry.addend = {} /\ asked = 0) \/ entry.addend = {asked})
  <2>1. CASE entry.addend = {}
    <3>1. 0 \in I64
      <4> DEFINE top == Radix^(2 * Word)
      <4>1. 8 \in 0..(top - 1) /\ U64Max \in Nat /\ U64Max = top - 1
        BY BuilderConstants, BuilderAssumption DEF U64
      <4>2. I64 = -(top \div 2)..((top \div 2) - 1)
        BY DEF I64
      <4>3. top \in Nat
        <5>1. Word \in Nat
          BY Sizes
        <5>2. 2 * Word \in 0..(2 * Word)
          BY <5>1
        <5> QED
          BY <5>2, TablesAssumption
      <4> HIDE DEF top
      <4>4. top \div 2 \in Nat /\ top \div 2 >= 1
        BY <4>1, <4>3
      <4> QED
        BY <4>2, <4>4
    <3> QED
      BY <2>1, <3>1
  <2>2. CASE entry.addend # {}
    <3>1. asked \in entry.addend
      BY <2>2
    <3> HIDE DEF asked
    <3>2. entry.addend = {asked}
      BY <1>1, <3>1
    <3> QED
      BY <1>2, <3>1, <3>2
  <2> QED
    BY <2>1, <2>2
<1>4. Addend(entry) = IF /\ Class = "Elf32"
                         /\ ~(-(Radix^Word) <= 2 * asked /\ 2 * asked < Radix^Word)
                      THEN 0 ELSE asked
  BY DEF Addend
<1> HIDE DEF asked
<1> QED
  BY <1>2, <1>3, <1>4

(* The table of relocations is a sequence of bytes.                          *)
LEMMA RelaIsBytes ==
    ASSUME request.relocations \in Seq(Relocation)
    PROVE  RelaTable \in Seq(RawByte)
<1> DEFINE list == request.relocations
           row(entry) == <<entry.offset, Info(entry), Addend(entry)>>
           rows == [i \in 1..Len(list) |-> row(list[i])]
<1>1. ASSUME NEW entry \in Relocation PROVE row(entry) \in Int \X Int \X Int
  <2>1. entry.offset \in U64 /\ entry.symbol \in U32 /\ entry.type \in U32
    BY RelocationParts
  <2>2. entry.offset \in Int /\ entry.symbol \in Nat /\ entry.type \in Nat
    BY <2>1, U64MaxAssumption DEF U64, U32
  <2>3. Addend(entry) \in Int
    <3>1. PICK asked \in I64 :
              Addend(entry) =
                  IF /\ Class = "Elf32"
                     /\ ~(-(Radix^Word) <= 2 * asked /\ 2 * asked < Radix^Word)
                  THEN 0 ELSE asked
      BY RelocationParts
    <3>2. asked \in Int
      BY DEF I64
    <3> QED  BY <3>1, <3>2
  <2>4. Info(entry) \in Int
    <3> DEFINE span == TypeSpan(Class)
    <3>1. Radix \in Nat \ {0} /\ Word \in Nat \ {0}  BY Sizes
    <3>2. Radix^Word \in Nat \ {0}
      <4>1. Word \in 0..(2 * Word)  BY <3>1
      <4> QED  BY <4>1, TablesAssumption
    <3>3. span \in Nat \ {0}  BY <3>1, <3>2, Zenon DEF TypeSpan
    <3> HIDE DEF span
    <3>4. entry.symbol * span \in Int  BY <2>2, <3>3, SMTT(30)
    <3>5. entry.type % span \in 0..(span - 1)  BY <2>2, <3>3, DivMod
    <3> DEFINE product == entry.symbol * span
               rest    == entry.type % span
    <3>6. product \in Int /\ rest \in Int  BY <3>3, <3>4, <3>5
    <3>7. Info(entry) = product + rest  BY DEF Info, span
    <3> HIDE DEF product, rest
    <3> QED  BY <3>6, <3>7
  <2> QED  BY <2>2, <2>3, <2>4
<1>2. Len(list) \in Nat /\ \A i \in 1..Len(list) : list[i] \in Relocation  OBVIOUS
<1> HIDE DEF list, row
<1>3. rows \in Seq(Int \X Int \X Int)  BY <1>1, <1>2
<1> HIDE DEF rows
<1>4. Len(rows) \in Nat  BY <1>3
<1>5. \A i \in 1..Len(rows) : \A j \in 1..3 : rows[i][j] \in Int
  <2>1. \A i \in 1..Len(rows) : rows[i] \in Int \X Int \X Int  BY <1>3
  <2>2. \A t \in Int \X Int \X Int : t[1] \in Int /\ t[2] \in Int /\ t[3] \in Int
    OBVIOUS
  <2>3. \A j \in 1..3 : j = 1 \/ j = 2 \/ j = 3  OBVIOUS
  <2> QED  BY <2>1, <2>2, <2>3
<1>6. Serialized(rows, 3) \in Seq(RawByte)  BY <1>4, <1>5, SerializedIsBytes
<1>7. RelaTable = Serialized(rows, 3)  BY DEF RelaTable, rows, list, row
<1> QED  BY <1>6, <1>7, Zenon

-----------------------------------------------------------------------------
(* The type invariant: every list try_build makes is one an image can have.  *)

(* The parts of an image make one.                                           *)
LEMMA ImageIsTyped ==
    ASSUME NEW entry \in U64, NEW s \in Seq(Segment), NEW t \in Seq(Section)
    PROVE  [header |-> [entry |-> entry, phoff |-> 0, shoff |-> 0, phnum |-> 0,
                        shnum |-> 0, shstrndx |-> 0],
            segments |-> s, sections |-> t] \in ElfImage
<1>1. U16Max \in Nat /\ 0 \in U64  BY FormatAssumption, BuilderConstants
<1>2. [entry |-> entry, phoff |-> 0, shoff |-> 0, phnum |-> 0, shnum |-> 0,
       shstrndx |-> 0] \in ElfHeader
  BY <1>1 DEF ElfHeader
<1> QED  BY <1>2 DEF ElfImage

(* A builder that has been asked for nothing has empty lists.                *)
LEMMA TypeInit == Init => TypeOK
<1> SUFFICES ASSUME Init PROVE TypeOK  OBVIOUS
<1>1. PICK format \in Formats :
         request = [format |-> format, entry |-> 0, loads |-> <<>>, tls |-> {},
                    notes |-> <<>>, relocations |-> <<>>, needed |-> <<>>]
  BY DEF Init
<1>2. 0 \in U64 /\ MaxCalls \in Nat  BY BuilderConstants, BuilderAssumption
<1>3. request \in Requests  BY <1>1, <1>2 DEF Requests
<1>4. /\ calls = 0 /\ stage = "asking" /\ segs = <<>> /\ secs = <<>>
      /\ dynstr = <<>> /\ nameOffsets = <<>>
  BY DEF Init
<1>5. /\ segs \in Seq(Segment) /\ secs \in Seq(Section)
      /\ dynstr \in Seq(RawByte) /\ nameOffsets \in Seq(Nat)
  BY <1>4
<1>6. Assembled \in ElfImage  BY <1>3, <1>5, ImageIsTyped DEF Assembled, Requests
<1> QED  BY <1>2, <1>3, <1>4, <1>5, <1>6 DEF TypeOK, Stages

(* A request changes one part of what has been asked for.                    *)
LEMMA AskStep ==
    ASSUME TypeOK, NEW asked \in Requests, Ask(asked)
    PROVE  TypeOK'
<1>1. /\ stage = "asking" /\ calls < MaxCalls /\ request' = asked
      /\ calls' = calls + 1 /\ stage' = stage /\ segs' = segs /\ secs' = secs
      /\ dynstr' = dynstr /\ nameOffsets' = nameOffsets
  BY DEF Ask, lists, strings
<1>2. calls' \in 0..MaxCalls  BY <1>1, BuilderAssumption DEF TypeOK
<1>3. Assembled' \in ElfImage
  BY <1>1, ImageIsTyped DEF TypeOK, Requests, Assembled
<1> QED  BY <1>1, <1>2, <1>3 DEF TypeOK

(* Every request is one of those.                                            *)
LEMMA RequestsStep ==
    ASSUME TypeOK,
           \/ \E entry \in Entries : SetEntry(entry)
           \/ \E load \in Loads : AddLoadAligned(load) \/ AddLoad(load)
           \/ \E template \in Templates : AddTls(template)
           \/ \E note \in NoteSpecs : AddNote(note)
           \/ \E list \in RelocationLists : AddRelocations(list)
           \/ \E lib \in Libraries : AddDynamicNeeded(lib)
    PROVE  TypeOK'
<1>0. request \in Requests  BY DEF TypeOK
<1>1. ASSUME NEW entry \in Entries, SetEntry(entry) PROVE TypeOK'
  <2>1. entry \in U64  BY BuilderAssumption
  <2>2. [request EXCEPT !.entry = entry] \in Requests  BY <1>0, <2>1 DEF Requests
  <2> QED  BY <1>1, <2>2, AskStep DEF SetEntry
<1>2. ASSUME NEW load \in LoadSpec, AddLoadAligned(load) PROVE TypeOK'
  <2>1. Append(request.loads, load) \in Seq(LoadSpec)  BY <1>0 DEF Requests
  <2>2. [request EXCEPT !.loads = Append(@, load)] \in Requests
    BY <1>0, <2>1 DEF Requests
  <2> QED  BY <1>2, <2>2, AskStep DEF AddLoadAligned
<1>3. ASSUME NEW load \in Loads, AddLoad(load) PROVE TypeOK'
  <2>1. load \in LoadSpec  BY BuilderAssumption
  <2>2. [load EXCEPT !.align = DefaultAlign] \in LoadSpec
    BY <2>1, BuilderConstants DEF LoadSpec
  <2> QED  BY <1>2, <1>3, <2>2 DEF AddLoad
<1>4. ASSUME NEW template \in Templates, AddTls(template) PROVE TypeOK'
  <2>1. {template} \in SUBSET TlsSpec  BY BuilderAssumption
  <2>2. [request EXCEPT !.tls = {template}] \in Requests  BY <1>0, <2>1 DEF Requests
  <2> QED  BY <1>4, <2>2, AskStep DEF AddTls
<1>5. ASSUME NEW note \in NoteSpecs, AddNote(note) PROVE TypeOK'
  <2>1. Append(request.notes, note) \in Seq(NoteSpecs)  BY <1>0 DEF Requests
  <2>2. [request EXCEPT !.notes = Append(@, note)] \in Requests
    BY <1>0, <2>1 DEF Requests
  <2> QED  BY <1>5, <2>2, AskStep DEF AddNote
<1>6. ASSUME NEW list \in RelocationLists, AddRelocations(list) PROVE TypeOK'
  <2>1. list \in Seq(Relocation)  BY BuilderAssumption
  <2>2. [request EXCEPT !.relocations = list] \in Requests  BY <1>0, <2>1 DEF Requests
  <2> QED  BY <1>6, <2>2, AskStep DEF AddRelocations
<1>7. ASSUME NEW lib \in Libraries, AddDynamicNeeded(lib) PROVE TypeOK'
  <2>1. lib \in Seq(RawByte)  BY BuilderAssumption
  <2>2. Append(request.needed, lib) \in Seq(Seq(RawByte))  BY <1>0, <2>1 DEF Requests
  <2>3. [request EXCEPT !.needed = Append(@, lib)] \in Requests
    BY <1>0, <2>2 DEF Requests
  <2> QED  BY <1>7, <2>3, AskStep DEF AddDynamicNeeded
<1>8. Loads \subseteq LoadSpec  BY BuilderAssumption
<1> QED  BY <1>1, <1>2, <1>3, <1>4, <1>5, <1>6, <1>7, <1>8

(* The segments asked for.                                                   *)
LEMMA LoadsAreSegments ==
    ASSUME request \in Requests
    PROVE  LoadSegments \in Seq(Segment)
<1> DEFINE loads == request.loads
<1>1. loads \in Seq(LoadSpec)  BY DEF Requests
<1> HIDE DEF loads
<1>2. ASSUME NEW i \in 1..Len(loads)
      PROVE  NewSegment("LOAD", loads[i].vaddr, SizeOf(loads[i].data), loads[i].align,
                        loads[i].data) \in Segment
  <2>1. loads[i] \in LoadSpec  BY <1>1
  <2>2. /\ loads[i].vaddr \in U64 /\ loads[i].align \in U64
        /\ loads[i].data \in Seq(RawByte)
    BY <2>1 DEF LoadSpec, Vec
  <2>3. SizeOf(loads[i].data) \in U64 /\ "LOAD" \in SegmentTypes
    BY <2>2, BuilderConstants DEF SegmentTypes
  <2> QED  BY <2>2, <2>3, NewSegmentType
<1>3. [i \in 1..Len(loads) |->
          NewSegment("LOAD", loads[i].vaddr, SizeOf(loads[i].data), loads[i].align,
                     loads[i].data)] \in Seq(Segment)
  BY <1>1, <1>2
<1> QED  BY <1>3, Zenon DEF LoadSegments, loads

(* The notes asked for, as segments and as sections.                         *)
LEMMA NotesAreTyped ==
    ASSUME request \in Requests
    PROVE  NoteSegments \in Seq(Segment) /\ NoteSections \in Seq(Section)
<1> DEFINE notes == request.notes
           bytes(i) == SerializeNote(notes[i])
<1>1. notes \in Seq(NoteSpecs)  BY DEF Requests
<1>2. NoteSpecs \subseteq NoteSpec /\ \A n \in NoteSpecs : NoteSection[n.name] \in Names
  BY BuilderAssumption
<1> HIDE DEF notes
<1>3. ASSUME NEW i \in 1..Len(notes)
      PROVE  /\ NewSegment("NOTE", 0, SizeOf(bytes(i)), Word, bytes(i)) \in Segment
             /\ NewSection(NoteSection[notes[i].name], "NOTE", FALSE, Word, bytes(i))
                    \in Section
  <2>1. notes[i] \in NoteSpecs  BY <1>1
  <2>2. bytes(i) \in Seq(RawByte)  BY <1>2, <2>1, NoteIsBytes
  <2>3. NoteSection[notes[i].name] \in Names  BY <1>2, <2>1
  <2> HIDE DEF bytes
  <2>4. /\ SizeOf(bytes(i)) \in U64 /\ Word \in U64 /\ 0 \in U64 /\ FALSE \in BOOLEAN
        /\ "NOTE" \in SegmentTypes /\ "NOTE" \in SectionTypes
    BY <2>2, BuilderConstants DEF SegmentTypes, SectionTypes
  <2>5. NewSegment("NOTE", 0, SizeOf(bytes(i)), Word, bytes(i)) \in Segment
    BY <2>2, <2>4, NewSegmentType
  <2>6. NewSection(NoteSection[notes[i].name], "NOTE", FALSE, Word, bytes(i)) \in Section
    BY <2>2, <2>3, <2>4, NewSectionType
  <2> QED  BY <2>5, <2>6
<1> DEFINE segment(i) == NewSegment("NOTE", 0, SizeOf(bytes(i)), Word, bytes(i))
           section(i) == NewSection(NoteSection[notes[i].name], "NOTE", FALSE, Word,
                                    bytes(i))
<1>4. /\ NoteSegments = [i \in 1..Len(notes) |-> segment(i)]
      /\ NoteSections = [i \in 1..Len(notes) |-> section(i)]
  BY Zenon DEF NoteSegments, NoteSections, notes
<1>5. \A i \in 1..Len(notes) : segment(i) \in Segment /\ section(i) \in Section
  BY <1>3
<1> HIDE DEF bytes, segment, section
<1>6. Len(notes) \in Nat  BY <1>1
<1>7. [i \in 1..Len(notes) |-> segment(i)] \in Seq(Segment)  BY <1>5, <1>6
<1>8. [i \in 1..Len(notes) |-> section(i)] \in Seq(Section)  BY <1>5, <1>6
<1> QED  BY <1>4, <1>7, <1>8, Zenon

(* The lists stay lists of segments and of sections, and the strings bytes,  *)
(* at every step of try_build.                                               *)
LEMMA BuildStep ==
    ASSUME TypeOK, TryBuild \/ AddNotes \/ CollectLibrary \/ AddDynamic \/ AddRela
    PROVE  TypeOK'
<1>0. /\ request \in Requests /\ calls \in 0..MaxCalls /\ stage \in Stages
      /\ segs \in Seq(Segment) /\ secs \in Seq(Section)
      /\ dynstr \in Seq(RawByte) /\ nameOffsets \in Seq(Nat)
  BY DEF TypeOK
<1>1. request' = request /\ calls' = calls
  BY DEF TryBuild, AddNotes, CollectLibrary, AddDynamic, AddRela
<1>2. stage' \in Stages
  BY <1>0 DEF TryBuild, AddNotes, CollectLibrary, AddDynamic, AddRela, Stages
<1>3. {NoName, Dynstr, Dynamic, RelaDyn} \subseteq Names  BY BuilderAssumption
<1>4. segs' \in Seq(Segment) /\ secs' \in Seq(Section)
  <2>1. CASE TryBuild
    <3>1. LoadSegments \in Seq(Segment)  BY <1>0, LoadsAreSegments
    <3>2. ASSUME request.tls # {}
          PROVE  TlsSegment(CHOOSE t \in request.tls : TRUE) \in Segment
      <4>1. PICK t \in TlsSpec : t = CHOOSE u \in request.tls : TRUE
        BY <1>0, <3>2 DEF Requests
      <4>2. /\ t.vaddr \in U64 /\ t.memsz \in U64 /\ t.align \in U64
            /\ t.data \in Seq(RawByte) /\ "TLS" \in SegmentTypes
        BY DEF TlsSpec, Vec, SegmentTypes
      <4>3. TlsSegment(t) \in Segment  BY <4>2, NewSegmentType DEF TlsSegment
      <4> QED  BY <4>1, <4>3
    <3>3. NullSection \in Section
      <4>1. /\ <<>> \in Seq(RawByte) /\ 0 \in U64 /\ FALSE \in BOOLEAN
            /\ "NULL" \in SectionTypes
        BY BuilderConstants DEF SectionTypes
      <4> QED  BY <1>3, <4>1, NewSectionType DEF NullSection
    <3>4. /\ segs' = LoadSegments \o (IF request.tls = {} THEN <<>>
                         ELSE <<TlsSegment(CHOOSE t \in request.tls : TRUE)>>)
          /\ secs' = <<NullSection>>
      BY <2>1 DEF TryBuild
    <3>5. segs' \in Seq(Segment)
      <4> DEFINE tls == TlsSegment(CHOOSE t \in request.tls : TRUE)
      <4>1. request.tls # {} => tls \in Segment  BY <3>2
      <4>2. segs' = LoadSegments \o (IF request.tls = {} THEN <<>> ELSE <<tls>>)
        BY <3>4
      <4> HIDE DEF tls
      <4>3. (IF request.tls = {} THEN <<>> ELSE <<tls>>) \in Seq(Segment)  BY <4>1
      <4> QED  BY <3>1, <4>2, <4>3
    <3> QED  BY <3>3, <3>4, <3>5
  <2>2. CASE AddNotes
    <3>1. segs' = segs \o NoteSegments /\ secs' = secs \o NoteSections
      BY <2>2 DEF AddNotes
    <3> QED  BY <1>0, <3>1, NotesAreTyped
  <2>3. CASE CollectLibrary  BY <1>0, <2>3 DEF CollectLibrary, lists
  <2>4. CASE AddDynamic
    <3>1. DynamicTable \in Seq(RawByte)  BY <1>0, DynamicIsBytes
    <3>2. /\ SizeOf(DynamicTable) \in U64 /\ 0 \in U64 /\ 1 \in U64 /\ 8 \in U64
          /\ "DYNAMIC" \in SegmentTypes /\ TRUE \in BOOLEAN
          /\ "DYNAMIC" \in SectionTypes /\ "STRTAB" \in SectionTypes
      BY <3>1, BuilderConstants DEF SegmentTypes, SectionTypes
    <3> DEFINE table == NewSegment("DYNAMIC", 0, SizeOf(DynamicTable), 8, DynamicTable)
               names == NewSection(Dynstr, "STRTAB", TRUE, 1, dynstr)
               rows  == NewSection(Dynamic, "DYNAMIC", TRUE, 8, DynamicTable)
    <3>3. table \in Segment  BY <3>1, <3>2, NewSegmentType
    <3>4. names \in Section  BY <1>0, <1>3, <3>2, NewSectionType
    <3>5. rows \in Section  BY <1>3, <3>1, <3>2, NewSectionType
    <3>6. segs' = Append(segs, table) /\ secs' = secs \o <<names, rows>>
      BY <2>4, Zenon DEF AddDynamic
    <3> HIDE DEF table, names, rows
    <3> QED  BY <1>0, <3>3, <3>4, <3>5, <3>6
  <2>5. CASE AddRela
    <3>1. RelaTable \in Seq(RawByte)  BY <1>0, RelaIsBytes DEF Requests
    <3>2. 8 \in U64 /\ FALSE \in BOOLEAN /\ "RELA" \in SectionTypes
      BY BuilderConstants DEF SectionTypes
    <3> DEFINE table == NewSection(RelaDyn, "RELA", FALSE, 8, RelaTable)
               added == IF request.relocations = <<>> THEN <<>> ELSE <<table>>
    <3>3. table \in Section  BY <1>3, <3>1, <3>2, NewSectionType
    <3>4. segs' = segs /\ secs' = secs \o added  BY <2>5, Zenon DEF AddRela
    <3> HIDE DEF table
    <3>5. added \in Seq(Section)  BY <3>3
    <3> HIDE DEF added
    <3> QED  BY <1>0, <3>4, <3>5
  <2> QED  BY <2>1, <2>2, <2>3, <2>4, <2>5
<1>5. dynstr' \in Seq(RawByte) /\ nameOffsets' \in Seq(Nat)
  <2>1. CASE CollectLibrary
    <3>1. /\ Len(nameOffsets) < Len(request.needed)
          /\ nameOffsets' = Append(nameOffsets, Len(dynstr))
          /\ dynstr' = dynstr \o Append(request.needed[Len(nameOffsets) + 1], Zero)
      BY <2>1 DEF CollectLibrary, Extended
    <3>2. request.needed \in Seq(Seq(RawByte))  BY <1>0 DEF Requests
    <3>3. Len(nameOffsets) + 1 \in 1..Len(request.needed)  BY <1>0, <3>1, <3>2
    <3>4. request.needed[Len(nameOffsets) + 1] \in Seq(RawByte)  BY <3>2, <3>3
    <3>5. Zero \in RawByte  BY ZerosAreBytes
    <3> DEFINE name == request.needed[Len(nameOffsets) + 1]
    <3>6. name \in Seq(RawByte) /\ dynstr' = dynstr \o Append(name, Zero)
      BY <3>1, <3>4
    <3> HIDE DEF name
    <3>7. Append(name, Zero) \in Seq(RawByte)  BY <3>5, <3>6
    <3>8. dynstr' \in Seq(RawByte)  BY <1>0, <3>6, <3>7
    <3>9. nameOffsets' \in Seq(Nat)
      <4>1. nameOffsets' = Append(nameOffsets, Len(dynstr))  BY <3>1
      <4>2. Len(dynstr) \in Nat /\ nameOffsets \in Seq(Nat)  BY <1>0
      <4> QED  BY <4>1, <4>2
    <3> QED  BY <3>8, <3>9
  <2>2. CASE ~CollectLibrary
    <3>1. Zero \in RawByte  BY ZerosAreBytes
    <3>2. \/ dynstr' = dynstr /\ nameOffsets' = nameOffsets
          \/ dynstr' = <<Zero>> /\ nameOffsets' = <<>>
      BY <2>2 DEF TryBuild, AddNotes, AddDynamic, AddRela, strings
    <3>3. <<Zero>> \in Seq(RawByte) /\ <<>> \in Seq(Nat)  BY <3>1
    <3> QED  BY <1>0, <3>2, <3>3
  <2> QED  BY <2>1, <2>2
<1>6. Assembled' \in ElfImage
  BY <1>0, <1>1, <1>4, ImageIsTyped DEF Assembled, Requests
<1> QED  BY <1>0, <1>1, <1>2, <1>4, <1>5, <1>6 DEF TypeOK

(* Every step keeps the builder within its types.                            *)
LEMMA TypeStep == TypeOK /\ [Next]_bvars => TypeOK'
<1> SUFFICES ASSUME TypeOK, [Next]_bvars PROVE TypeOK'  OBVIOUS
<1>1. CASE UNCHANGED bvars
  BY <1>1 DEF bvars, lists, strings, TypeOK, Assembled
<1>2. CASE TryBuild \/ AddNotes \/ CollectLibrary \/ AddDynamic \/ AddRela
  BY <1>2, BuildStep
<1> QED  BY <1>1, <1>2, RequestsStep DEF Next

-----------------------------------------------------------------------------
(* The offsets of the library names.                                         *)

(* What a string table holds it still holds when a string is added to it.    *)
LEMMA HoldsAtGrows ==
    ASSUME NEW S, NEW table \in Seq(S), NEW more \in Seq(S), NEW kept \in Seq(S),
           NEW at \in Nat, HoldsAt(table, at, kept)
    PROVE  HoldsAt(table \o more, at, kept)
<1>1. Len(table) \in Nat /\ Len(more) \in Nat /\ Len(kept) \in Nat  OBVIOUS
<1>2. Len(table \o more) = Len(table) + Len(more)  OBVIOUS
<1>3. at + Len(kept) <= Len(table)  BY DEF HoldsAt
<1>4. ASSUME NEW k \in 1..Len(kept) PROVE (table \o more)[at + k] = kept[k]
  <2>1. at + k \in 1..Len(table)  BY <1>1, <1>3
  <2>2. (table \o more)[at + k] = table[at + k]  BY <2>1
  <2>3. table[at + k] = kept[k]  BY DEF HoldsAt
  <2> QED  BY <2>2, <2>3
<1>5. at + Len(kept) <= Len(table \o more)  BY <1>1, <1>2, <1>3
<1> QED  BY <1>4, <1>5 DEF HoldsAt

(* A string added to a table stands at the table's old end.                  *)
LEMMA HoldsAtEnd ==
    ASSUME NEW S, NEW table \in Seq(S), NEW more \in Seq(S)
    PROVE  HoldsAt(table \o more, Len(table), more)
<1>1. Len(table) \in Nat /\ Len(more) \in Nat  OBVIOUS
<1>2. Len(table \o more) = Len(table) + Len(more)  OBVIOUS
<1>3. ASSUME NEW k \in 1..Len(more) PROVE (table \o more)[Len(table) + k] = more[k]
  <2>1. Len(table) + k \in (Len(table) + 1)..(Len(table) + Len(more))  BY <1>1
  <2> QED  BY <1>1, <2>1
<1> QED  BY <1>1, <1>2, <1>3 DEF HoldsAt

(* A name collected takes its place behind the others and moves none.        *)
LEMMA CollectStep ==
    ASSUME TypeOK, LibrariesCollected, CollectLibrary
    PROVE  LibrariesCollected'
<1> DEFINE n    == Len(nameOffsets)
           name == Append(request.needed[n + 1], Zero)
           term(i) == Append(request.needed[i], Zero)
<1>1. /\ stage = "dynamic" /\ n < Len(request.needed) /\ request' = request
      /\ nameOffsets' = Append(nameOffsets, Len(dynstr)) /\ dynstr' = dynstr \o name
  BY DEF CollectLibrary, Extended
<1>2. /\ request.needed \in Seq(Seq(RawByte)) /\ dynstr \in Seq(RawByte)
      /\ nameOffsets \in Seq(Nat)
  BY DEF TypeOK, Requests
<1>3. n \in Nat /\ Len(request.needed) \in Nat /\ Len(dynstr) \in Nat  BY <1>2
<1>4. request.needed # <<>>  BY <1>1, <1>2, <1>3
<1>5. Zero \in RawByte  BY ZerosAreBytes
<1>6. \A i \in 1..Len(request.needed) : term(i) \in Seq(RawByte)
  <2> TAKE i \in 1..Len(request.needed)
  <2>1. request.needed[i] \in Seq(RawByte)  BY <1>2
  <2> QED  BY <1>5, <2>1
<1>7. n + 1 \in 1..Len(request.needed) /\ name = term(n + 1)  BY <1>1, <1>3
<1>8. name \in Seq(RawByte)  BY <1>6, <1>7
<1>9. Len(nameOffsets') = n + 1 /\ nameOffsets'[n + 1] = Len(dynstr)
  BY <1>1, <1>2, <1>3
<1>10. \A i \in 1..n : nameOffsets'[i] = nameOffsets[i] /\ nameOffsets[i] \in Nat
  BY <1>1, <1>2, <1>3
<1>11. /\ HoldsAt(dynstr, 0, <<Zero>>)
       /\ \A i \in 1..n : HoldsAt(dynstr, nameOffsets[i], term(i))
  BY <1>1, <1>4 DEF LibrariesCollected
<1> HIDE DEF n, name, term
<1>12. HoldsAt(dynstr', 0, <<Zero>>)
  <2>1. <<Zero>> \in Seq(RawByte) /\ 0 \in Nat  BY <1>5
  <2>2. HoldsAt(dynstr \o name, 0, <<Zero>>)  BY <1>2, <1>8, <1>11, <2>1, HoldsAtGrows
  <2> QED  BY <1>1, <2>2
<1>13. ASSUME NEW i \in 1..(n + 1)
       PROVE  HoldsAt(dynstr', nameOffsets'[i], term(i))
  <2>1. CASE i = n + 1
    <3>1. HoldsAt(dynstr \o name, Len(dynstr), name)  BY <1>2, <1>8, HoldsAtEnd
    <3> QED  BY <1>1, <1>7, <1>9, <2>1, <3>1
  <2>2. CASE i # n + 1
    <3>1. i \in 1..n /\ i \in 1..Len(request.needed)  BY <1>1, <1>3, <2>2
    <3>2. term(i) \in Seq(RawByte) /\ nameOffsets[i] \in Nat  BY <1>6, <1>10, <3>1
    <3>3. HoldsAt(dynstr, nameOffsets[i], term(i))  BY <1>11, <3>1
    <3>4. HoldsAt(dynstr \o name, nameOffsets[i], term(i))
      BY <1>2, <1>8, <3>2, <3>3, HoldsAtGrows
    <3> QED  BY <1>1, <1>10, <3>1, <3>4
  <2> QED  BY <2>1, <2>2
<1>14. Len(nameOffsets') <= Len(request'.needed)  BY <1>1, <1>3, <1>9 DEF n
<1> QED  BY <1>1, <1>9, <1>12, <1>13, <1>14 DEF LibrariesCollected, n, term

(* No other step touches the names once they are being collected.            *)
LEMMA LibrariesStep == TypeOK /\ LibrariesCollected /\ [Next]_bvars => LibrariesCollected'
<1> SUFFICES ASSUME TypeOK, LibrariesCollected, [Next]_bvars PROVE LibrariesCollected'
  OBVIOUS
<1>1. CASE CollectLibrary  BY <1>1, CollectStep
<1>2. CASE AddNotes
  <2>1. CASE request.needed = <<>>  BY <1>2, <2>1 DEF AddNotes, LibrariesCollected
  <2>2. CASE request.needed # <<>>
    <3>1. dynstr' = <<Zero>> /\ nameOffsets' = <<>> /\ request' = request
      BY <1>2, <2>2 DEF AddNotes
    <3>2. request.needed \in Seq(Seq(RawByte))  BY DEF TypeOK, Requests
    <3>3. Len(nameOffsets') = 0 /\ Len(request.needed) \in Nat  BY <3>1, <3>2
    <3>4. HoldsAt(<<Zero>>, 0, <<Zero>>)  BY DEF HoldsAt
    <3> QED  BY <3>1, <3>3, <3>4 DEF LibrariesCollected
  <2> QED  BY <2>1, <2>2
<1>3. CASE AddDynamic \/ AddRela
  <2>1. /\ stage \in {"dynamic", "rela"} /\ request' = request /\ dynstr' = dynstr
        /\ nameOffsets' = nameOffsets
    BY <1>3 DEF AddDynamic, AddRela, strings
  <2> QED  BY <2>1 DEF LibrariesCollected
<1>4. CASE TryBuild  BY <1>4 DEF TryBuild, LibrariesCollected
<1>5. CASE UNCHANGED bvars
  BY <1>5 DEF bvars, strings, LibrariesCollected
<1>6. ASSUME ~(stage' \in {"dynamic", "rela", "assembled"}) PROVE LibrariesCollected'
  BY <1>6 DEF LibrariesCollected
<1>7. ASSUME NEW asked, Ask(asked) PROVE LibrariesCollected'
  BY <1>6, <1>7 DEF Ask
<1> QED
  BY <1>1, <1>2, <1>3, <1>4, <1>5, <1>7
  DEF Next, SetEntry, AddLoadAligned, AddLoad, AddTls, AddNote, AddRelocations,
      AddDynamicNeeded

-----------------------------------------------------------------------------
(* Nothing that happens to the image in a session - serializing, reading,    *)
(* writing, serializing again - reaches back into the builder.               *)
LEMMA SessionIsBuilder == SessionSpec => Spec
<1>1. SessionInit => Init  BY DEF SessionInit
<1>2. [SessionNext]_allVars => [Next]_bvars
  BY DEF SessionNext, Request, BuildImage, Serialize, SaveAgain, allVars
<1> QED  BY <1>1, <1>2, PTL DEF SessionSpec, Spec

(* Whatever is asked for, in whatever order and however often, try_build     *)
(* assembles an image whose numbers are in range and whose contents are      *)
(* bytes: names, padding, offsets and digits of numbers of either sign.      *)
THEOREM TypeCorrect == SessionSpec => []TypeOK
<1> QED  BY TypeInit, TypeStep, SessionIsBuilder, PTL DEF Spec

(* Every offset in the dynamic table is that of its library's name, whole    *)
(* and terminated, for any number of libraries of any names                  *)
(* (builder.rs:463-475).                                                     *)
THEOREM NamesAreInPlace == SessionSpec => []LibrariesCollected
<1>1. Init => LibrariesCollected  BY DEF Init, LibrariesCollected
<1>2. Spec => []LibrariesCollected
  BY <1>1, TypeInit, TypeStep, LibrariesStep, PTL DEF Spec
<1> QED  BY <1>2, SessionIsBuilder, PTL

-----------------------------------------------------------------------------
(* The image in a file. What is proved of one call of the serializer and of  *)
(* its file holds of the builder's calls; nothing trails the files here.     *)
Files == INSTANCE FileLayoutProofs
    WITH Images <- {}, Trailings <- {}, LinkedFiles <- {}, Offsets <- {}, Payload <- {},
         MaxOpens <- 0, trailing <- <<>>, patch <- {}, settled <- FALSE, opens <- 0

(* Both speak of the same calls                                              *)
LEMMA SameCalls ==
    /\ Layout!Next <=> Files!Next
    /\ \A im : Layout!Restart(im) <=> Files!Restart(im)
    /\ Layout!vars = Files!vars
<1>1. Layout!SkipSegment <=> Files!SkipSegment
  BY DEF Layout!SkipSegment, Files!SkipSegment,
         Layout!Writable, Files!Writable, Layout!Minimum, Files!Minimum,
         Layout!PhdrAt, Files!PhdrAt, Layout!layout, Files!layout,
         Layout!names, Files!names
<1>2. Layout!PlaceSegment <=> Files!PlaceSegment
  BY DEF Layout!PlaceSegment, Files!PlaceSegment,
         Layout!SegmentOffset, Files!SegmentOffset,
         Layout!Congruent, Files!Congruent, Layout!SatAdd, Files!SatAdd,
         Layout!IsLoad, Files!IsLoad, Layout!Maximum, Files!Maximum,
         Layout!SegmentBytes, Files!SegmentBytes,
         Layout!Writable, Files!Writable, Layout!Minimum, Files!Minimum,
         Layout!Fits, Files!Fits, Layout!PhdrAt, Files!PhdrAt,
         Layout!WriteAt, Files!WriteAt, Layout!Zero, Files!Zero,
         Layout!names, Files!names, Layout!Fail, Files!Fail,
         Layout!layout, Files!layout
<1>3. Layout!EnsureShstrtab <=> Files!EnsureShstrtab
  BY DEF Layout!EnsureShstrtab, Files!EnsureShstrtab,
         Layout!names, Files!names, Layout!ShstrtabAt, Files!ShstrtabAt,
         Layout!IsFirstShstrtab, Files!IsFirstShstrtab,
         Layout!IsShstrtab, Files!IsShstrtab,
         Layout!NewShstrtab, Files!NewShstrtab, Layout!Zero, Files!Zero,
         Layout!layout, Files!layout
<1>4. Layout!CollectName <=> Files!CollectName
  BY DEF Layout!CollectName, Files!CollectName, Layout!names, Files!names,
         Layout!Zero, Files!Zero, Layout!layout, Files!layout
<1>5. Layout!AssignNames <=> Files!AssignNames
  BY DEF Layout!AssignNames, Files!AssignNames, Layout!names, Files!names,
         Layout!Named, Files!Named, Layout!IsShstrtab, Files!IsShstrtab,
         Layout!layout, Files!layout
<1>6. Layout!SkipSection <=> Files!SkipSection
  BY DEF Layout!SkipSection, Files!SkipSection,
         Layout!IsNobits, Files!IsNobits, Layout!SectionAt, Files!SectionAt,
         Layout!layout, Files!layout, Layout!names, Files!names
<1>7. Layout!PlaceSection <=> Files!PlaceSection
  BY DEF Layout!PlaceSection, Files!PlaceSection,
         Layout!AlignUp, Files!AlignUp, Layout!SatAdd, Files!SatAdd,
         Layout!Maximum, Files!Maximum, Layout!IsNobits, Files!IsNobits,
         Layout!Fits, Files!Fits, Layout!SectionAt, Files!SectionAt,
         Layout!WriteAt, Files!WriteAt, Layout!Zero, Files!Zero,
         Layout!names, Files!names, Layout!Fail, Files!Fail,
         Layout!layout, Files!layout
<1>8. Layout!SectionsPlaced <=> Files!SectionsPlaced
  BY DEF Layout!SectionsPlaced, Files!SectionsPlaced,
         Layout!layout, Files!layout, Layout!names, Files!names
<1>9. Layout!WriteProgramHeaders <=> Files!WriteProgramHeaders
  BY DEF Layout!WriteProgramHeaders, Files!WriteProgramHeaders,
         Layout!EncodedTable, Files!EncodedTable, Layout!Fits, Files!Fits,
         Layout!WriteAt, Files!WriteAt, Layout!Maximum, Files!Maximum,
         Layout!Zero, Files!Zero, Layout!names, Files!names,
         Layout!Fail, Files!Fail, Layout!layout, Files!layout
<1>10. Layout!FillHeader <=> Files!FillHeader
  BY DEF Layout!FillHeader, Files!FillHeader,
         Layout!CountsFit, Files!CountsFit, Layout!Filled, Files!Filled,
         Layout!ShdrTableOffset, Files!ShdrTableOffset,
         Layout!AlignUp, Files!AlignUp, Layout!SatAdd, Files!SatAdd,
         Layout!layout, Files!layout, Layout!names, Files!names,
         Layout!Fail, Files!Fail
<1>11. Layout!WriteSectionHeaders <=> Files!WriteSectionHeaders
  BY DEF Layout!WriteSectionHeaders, Files!WriteSectionHeaders,
         Layout!EncodedTable, Files!EncodedTable,
         Layout!SectionHeaders, Files!SectionHeaders,
         Layout!layout, Files!layout, Layout!names, Files!names,
         Layout!Fits, Files!Fits,
         Layout!ShdrTableOffset, Files!ShdrTableOffset,
         Layout!AlignUp, Files!AlignUp, Layout!SatAdd, Files!SatAdd,
         Layout!WriteAt, Files!WriteAt, Layout!Maximum, Files!Maximum,
         Layout!Zero, Files!Zero, Layout!Fail, Files!Fail
<1>12. Layout!WriteHeader <=> Files!WriteHeader
  BY DEF Layout!WriteHeader, Files!WriteHeader, Layout!WriteAt, Files!WriteAt,
         Layout!Maximum, Files!Maximum, Layout!Zero, Files!Zero,
         Layout!Encoded, Files!Encoded, Layout!names, Files!names
<1>13. Layout!Returned <=> Files!Returned
  BY DEF Layout!Returned, Files!Returned, Layout!vars, Files!vars,
         Layout!layout, Files!layout, Layout!names, Files!names
<1>14. Layout!Next <=> Files!Next
  BY <1>1, <1>2, <1>3, <1>4, <1>5, <1>6, <1>7, <1>8, <1>9, <1>10, <1>11, <1>12, <1>13 DEF Layout!Next, Files!Next
<1>15. \A im : Layout!Restart(im) <=> Files!Restart(im)
  BY DEF Layout!Restart, Files!Restart, Layout!Zeros, Files!Zeros, Layout!Zero, Files!Zero
<1>16. Layout!vars = Files!vars
  BY DEF Layout!vars, Files!vars, Layout!layout, Files!layout, Layout!names, Files!names
<1> QED
  BY <1>14, <1>15, <1>16

(* What is read from a file is read in the same way, part by part.           *)
LEMMA SameReading ==
    /\ \A f, o : Files!DecodedAt(f, o) = DecodedAt(f, o)
    /\ \A f, o, n : Files!BytesAt(f, o, n) = BytesAt(f, o, n)
    /\ \A f, o, n : Files!Readable(f, o, n) <=> Readable(f, o, n)
    /\ \A f, o, n : Files!Decodes(f, o, n) <=> Decodes(f, o, n)
    /\ \A h : Files!SegmentEmpty(h) <=> SegmentEmpty(h)
    /\ \A h : Files!SectionEmpty(h) <=> SectionEmpty(h)
    /\ \A t, o : Files!NameAt(t, o) = NameAt(t, o)
<1>1. \A f, o : Files!DecodedAt(f, o) = DecodedAt(f, o)
  BY DEF Files!DecodedAt, DecodedAt
<1>2. \A f, o, n : Files!BytesAt(f, o, n) = BytesAt(f, o, n)
  BY DEF Files!BytesAt, BytesAt
<1>3. \A f, o, n : Files!Readable(f, o, n) <=> Readable(f, o, n)
  BY DEF Files!Readable, Readable
<1>4. \A f, o, n : Files!Decodes(f, o, n) <=> Decodes(f, o, n)
  BY Zenon DEF Files!Decodes, Decodes, Files!Readable, Readable,
     Files!HoldsAt, HoldsAt, Files!Encoded, Encoded
<1>5. \A h : Files!SegmentEmpty(h) <=> SegmentEmpty(h)
  BY DEF Files!SegmentEmpty, SegmentEmpty
<1>6. \A h : Files!SectionEmpty(h) <=> SectionEmpty(h)
  BY DEF Files!SectionEmpty, SectionEmpty
<1>7. \A t, o : Files!NameAt(t, o) = NameAt(t, o)
  BY Zenon DEF Files!NameAt, NameAt, Files!StringAt, StringAt, Files!HoldsAt, HoldsAt,
     Files!Zero, Zero, Files!Empty, Empty
<1> QED
  BY <1>1, <1>2, <1>3, <1>4, <1>5, <1>6, <1>7

(* Hence tables, segments and sections are read alike.                       *)
LEMMA SameRecords ==
    /\ \A f, o, n, z : Files!TableAt(f, o, n, z) = TableAt(f, o, n, z)
    /\ \A f, o, n, z : Files!DecodesTable(f, o, n, z) <=> DecodesTable(f, o, n, z)
    /\ \A f, h : Files!ReadSegment(f, h) = ReadSegment(f, h)
    /\ \A f, h, t : Files!ReadSection(f, h, t) = ReadSection(f, h, t)
    /\ \A f, e, hs : Files!NameTable(f, e, hs) = NameTable(f, e, hs)
<1>1. \A f, o, n, z : Files!TableAt(f, o, n, z) = TableAt(f, o, n, z)
  BY SameReading DEF Files!TableAt, TableAt
<1>2. \A f, o, n, z : Files!DecodesTable(f, o, n, z) <=> DecodesTable(f, o, n, z)
  BY SameReading DEF Files!DecodesTable, DecodesTable
<1>3. \A f, h : Files!ReadSegment(f, h) = ReadSegment(f, h)
  BY SameReading DEF Files!ReadSegment, ReadSegment
<1>4. \A f, h, t : Files!ReadSection(f, h, t) = ReadSection(f, h, t)
  BY SameReading DEF Files!ReadSection, ReadSection
<1>5. \A f, e, hs : Files!NameTable(f, e, hs) = NameTable(f, e, hs)
  BY SameReading DEF Files!NameTable, NameTable
<1> QED
  BY <1>1, <1>2, <1>3, <1>4, <1>5

(* The same of the headers.                                                  *)
LEMMA SameHeaderTables ==
    /\ \A f : Files!Ehdr(f) = Ehdr(f)
    /\ \A f : Files!ProgramHeaders(f) = ProgramHeaders(f)
    /\ \A f : Files!HasSections(f) <=> HasSections(f)
    /\ \A f : Files!RawSectionHeaders(f) = RawSectionHeaders(f)
<1>1. \A f : Files!Ehdr(f) = Ehdr(f)
  BY SameReading DEF Files!Ehdr, Ehdr
<1>2. \A f : Files!ProgramHeaders(f) = ProgramHeaders(f)
  BY <1>1, SameRecords DEF Files!ProgramHeaders, ProgramHeaders
<1>3. \A f : Files!HasSections(f) <=> HasSections(f)
  BY <1>1 DEF Files!HasSections, HasSections
<1>4. \A f : Files!RawSectionHeaders(f) = RawSectionHeaders(f)
  BY <1>1, <1>3, SameRecords DEF Files!RawSectionHeaders, RawSectionHeaders
<1> QED
  BY <1>1, <1>2, <1>3, <1>4

(* and of the same files: what is read from one, and what an image is.       *)
LEMMA SameFiles ==
    /\ \A f : Files!Parsed(f) = Parsed(f)
    /\ \A f : Files!Parses(f) = Parses(f)
    /\ Files!ElfImage = ElfImage /\ Files!Byte = Byte
    /\ Files!Segment = Segment /\ Files!Section = Section
<1>1. \A f : Files!Parsed(f) = Parsed(f)
  BY SameRecords, SameHeaderTables DEF Files!Parsed, Parsed
<1>2. \A f : Files!Parses(f) = Parses(f)
  <2>1. \A f : Files!SegmentsReadable(f) = SegmentsReadable(f)
    BY SameReading, SameRecords, SameHeaderTables
    DEF Files!SegmentsReadable, SegmentsReadable
  <2>2. \A f : Files!SectionsReadable(f) = SectionsReadable(f)
    BY SameReading, SameRecords, SameHeaderTables
    DEF Files!SectionsReadable, SectionsReadable
  <2> QED
    BY <2>1, <2>2, SameReading DEF Files!Parses, Parses
<1>3. Files!Byte = Byte
  BY DEF Files!Byte, Byte, Files!RawByte, RawByte, Files!ElfHeader, ElfHeader,
         Files!U64, U64, Files!Phdr, Phdr, Files!SegmentTypes, SegmentTypes,
         Files!Shdr, Shdr, Files!SectionTypes, SectionTypes
<1>4. Files!Segment = Segment
  BY DEF Files!Segment, Segment, Files!Phdr, Phdr,
         Files!SegmentTypes, SegmentTypes, Files!U64, U64, Files!Byte, Byte,
         Files!RawByte, RawByte, Files!ElfHeader, ElfHeader, Files!Shdr, Shdr,
         Files!SectionTypes, SectionTypes
<1>5. Files!Section = Section
  BY DEF Files!Section, Section, Files!Shdr, Shdr,
         Files!SectionTypes, SectionTypes, Files!U64, U64, Files!Byte, Byte,
         Files!RawByte, RawByte, Files!ElfHeader, ElfHeader, Files!Phdr, Phdr,
         Files!SegmentTypes, SegmentTypes
<1>6. Files!ElfImage = ElfImage
  BY <1>4, <1>5 DEF Files!ElfImage, ElfImage, Files!ElfHeader, ElfHeader, Files!U64, U64
<1> QED
  BY <1>1, <1>2, <1>3, <1>4, <1>5, <1>6

(* What those lemmas assume of the constants holds of the builder's.         *)
LEMMA FilesAssumptions ==
    /\ U64Max \in Nat
    /\ /\ EhSize \in Nat \ {0} /\ PhEntSize \in Nat \ {0} /\ ShEntSize \in Nat \ {0}
       /\ U16Max \in Nat
       /\ MaxImage \in Nat /\ EhSize <= MaxImage /\ MaxImage < U64Max
       /\ 0 \in Datum
       /\ NameBytes \in [Names -> Seq(Files!RawByte \ {Files!Zero})]
       /\ Shstrtab \in Names
    /\ {} \subseteq Files!ElfImage
    /\ MinPage \in Nat \ {0} /\ MinPage <= U64Max
    /\ /\ \E n \in Names : NameBytes[n] = <<>>
       /\ \A m, n \in Names : NameBytes[m] = NameBytes[n] => m = n
    /\ /\ {} \subseteq Seq(Files!Byte)
       /\ \A f \in {}, t \in {} :
              f \o t \in Seq(Files!Byte) /\ Files!Parsed(f \o t) \in Files!ElfImage
       /\ {} \subseteq Nat /\ {} \subseteq Seq(Files!RawByte)
<1>1. Files!RawByte = RawByte /\ Files!Zero = Zero
  BY DEF Files!RawByte, RawByte, Files!Zero, Zero
<1>2. NameBytes \in [Names -> Seq(Files!RawByte \ {Files!Zero})]
  BY <1>1, FormatAssumption
<1> QED
  BY <1>2, U64MaxAssumption, FormatAssumption, MinPageAssumption, NamesAssumption

(* A call of the serializer keeps its invariants, and what it reads is laid. *)
CallInv ==
    Files!IInv /\ Files!NamesInv /\ Files!EndInv /\ Files!CarriedInv /\ Files!LaidInv

(* A call that begins has them                                               *)
LEMMA CallBegins ==
    ASSUME NEW im \in ElfImage, Layout!Restart(im)
    PROVE  CallInv' /\ image' = im
<1>1. im \in Files!ElfImage /\ Files!Restart(im)
  BY SameCalls, SameFiles
<1>2. image' \in Files!ElfImage /\ Files!Begin'
  BY <1>1, Files!RestartBegins, FilesAssumptions
<1>3. (image \in Files!ElfImage /\ Files!Begin)'
  BY <1>2
<1>4. Files!IInv' /\ Files!NamesInv' /\ Files!EndInv' /\ Files!CarriedInv' /\ Files!LaidInv'
  BY <1>3, Files!NextCall, Files!NextLaid, FilesAssumptions
<1>5. image' = im
  BY <1>1 DEF Files!Restart
<1> QED
  BY <1>4, <1>5 DEF CallInv

(* and keeps them, and its image.                                            *)
LEMMA CallGoesOn ==
    ASSUME CallInv, Layout!Next \/ UNCHANGED Layout!vars
    PROVE  CallInv' /\ image' = image
<1>1. [Files!Next]_(Files!vars)
  BY SameCalls DEF Layout!vars, Files!vars, Layout!layout, Files!layout, Layout!names,
     Files!names
<1>2. Files!IInv' /\ Files!NamesInv' /\ Files!EndInv' /\ Files!CarriedInv' /\ Files!LaidInv'
  BY <1>1, Files!StepInv, Files!StepNames, Files!StepEnd, Files!StepCarried, Files!StepLaid,
     FilesAssumptions DEF CallInv
<1>3. image' = image
  BY <1>1 DEF Files!Next, Files!vars, Files!SkipSegment, Files!PlaceSegment,
     Files!EnsureShstrtab, Files!CollectName, Files!AssignNames, Files!SkipSection,
     Files!PlaceSection, Files!SectionsPlaced, Files!WriteProgramHeaders,
     Files!FillHeader, Files!WriteSectionHeaders, Files!WriteHeader, Files!Returned,
     Files!Fail
<1> QED
  BY <1>2, <1>3 DEF CallInv

(* Its image is read from its file when it is done.                          *)
LEMMA CallFinished ==
    ASSUME CallInv, pc = "done"
    PROVE  /\ Files!Finished /\ Files!Saved = out /\ Parses(out)
           /\ Parsed(out) = Files!ImageRead(image, phdrs, sections, header)
           /\ Parsed(out) \in ElfImage /\ image \in ElfImage
<1>1. <<>> \in Seq(Files!Byte)
  OBVIOUS
<1>2. Files!Finished
  BY <1>1 DEF Files!Finished, CallInv
<1>3. out \in Seq(Files!Byte) /\ image \in ElfImage
  BY SameFiles DEF CallInv, Files!IInv, Files!TypeOK
<1>4. Files!Saved = out
  BY <1>3 DEF Files!Saved
<1>5. Files!Parsed(out) = Files!ImageRead(image, phdrs, sections, header)
  BY <1>2, <1>4, Files!SavedIsRead, FilesAssumptions
<1>6. Files!Parses(out) /\ Files!Parsed(out) \in Files!ElfImage
  BY <1>2, <1>4, Files!SavedImage, FilesAssumptions
<1> QED
  BY <1>2, <1>3, <1>4, <1>5, <1>6, SameFiles

-----------------------------------------------------------------------------
(* The image of the builder.                                                 *)

(* The builder makes no NULL segment.                                        *)
NoNull == \A i \in 1..Len(segs) : segs[i].header.type # "NULL"

(* It stays so at every step of try_build.                                   *)
LEMMA NoNullStep == TypeOK /\ NoNull /\ [Next]_bvars => NoNull'
<1> SUFFICES ASSUME TypeOK, NoNull, [Next]_bvars PROVE NoNull'
  OBVIOUS
<1>0. segs \in Seq(Segment)
  BY DEF TypeOK
<1>1. ASSUME NEW more, more \in Seq(Segment), segs' = segs \o more,
             \A i \in 1..Len(more) : more[i].header.type # "NULL"
      PROVE  NoNull'
  <2>1. ASSUME NEW i \in 1..Len(segs') PROVE segs'[i].header.type # "NULL"
    <3>1. Len(segs') = Len(segs) + Len(more) /\ Len(segs) \in Nat /\ Len(more) \in Nat
      BY <1>0, <1>1
    <3>2. CASE i <= Len(segs)
      BY <1>0, <1>1, <3>1, <3>2 DEF NoNull
    <3>3. CASE Len(segs) < i
      <4>1. i - Len(segs) \in 1..Len(more) /\ segs'[i] = more[i - Len(segs)]
        BY <1>0, <1>1, <3>1, <3>3
      <4> QED
        BY <1>1, <4>1
    <3> QED
      BY <3>1, <3>2, <3>3
  <2> QED
    BY <2>1 DEF NoNull
<1>2. request \in Requests
  BY DEF TypeOK
<1>3. \A type, vaddr, memsz, align, data :
          NewSegment(type, vaddr, memsz, align, data).header.type = type
  BY DEF NewSegment
<1>4. CASE TryBuild
  <2> DEFINE tls == TlsSegment(CHOOSE t \in request.tls : TRUE)
             more == IF request.tls = {} THEN <<>> ELSE <<tls>>
  <2>1. segs' = LoadSegments \o more
    BY <1>4 DEF TryBuild
  <2>2. LoadSegments \in Seq(Segment)
    BY <1>2, LoadsAreSegments
  <2>3. \A i \in 1..Len(LoadSegments) : LoadSegments[i].header.type = "LOAD"
    <3>1. Len(request.loads) \in Nat
      BY <1>2 DEF Requests
    <3> QED
      BY <1>3, <3>1 DEF LoadSegments
  <2>4. \A i \in 1..Len(more) : more[i].header.type = "TLS"
    <3>1. tls.header.type = "TLS"
      BY <1>3 DEF TlsSegment
    <3> HIDE DEF tls
    <3> QED
      BY <3>1
  <2>5. \E n \in Nat : Len(more) = n /\ Len(segs') = Len(LoadSegments) + n
                     /\ \A i \in 1..n : segs'[Len(LoadSegments) + i] = more[i]
    <3>1. more \in Seq({tls})
      <4> HIDE DEF tls
      <4>1. <<>> \in Seq({tls}) /\ <<tls>> \in Seq({tls})
        OBVIOUS
      <4> QED
        BY <4>1
    <3> HIDE DEF more, tls
    <3> QED
      BY <2>1, <2>2, <3>1
  <2> HIDE DEF more, tls
  <2>6. ASSUME NEW i \in 1..Len(segs') PROVE segs'[i].header.type # "NULL"
    <3>1. PICK n \in Nat : Len(more) = n /\ Len(segs') = Len(LoadSegments) + n
                     /\ \A j \in 1..n : segs'[Len(LoadSegments) + j] = more[j]
      BY <2>5
    <3>2. Len(LoadSegments) \in Nat
      BY <2>2
    <3>3. CASE i <= Len(LoadSegments)
      <4>1. segs'[i] = LoadSegments[i] /\ i \in 1..Len(LoadSegments)
        BY <2>1, <2>2, <3>1, <3>2, <3>3
      <4> QED
        BY <2>3, <4>1
    <3>4. CASE Len(LoadSegments) < i
      <4>1. i - Len(LoadSegments) \in 1..n /\ i = Len(LoadSegments) + (i - Len(LoadSegments))
        BY <3>1, <3>2, <3>4
      <4> QED
        BY <2>4, <3>1, <4>1
    <3> QED
      BY <3>1, <3>2, <3>3, <3>4
  <2> QED
    BY <2>6 DEF NoNull
<1>5. CASE AddNotes
  <2>1. segs' = segs \o NoteSegments /\ NoteSegments \in Seq(Segment)
    BY <1>2, <1>5, NotesAreTyped DEF AddNotes
  <2>2. \A i \in 1..Len(NoteSegments) : NoteSegments[i].header.type # "NULL"
    <3>1. Len(request.notes) \in Nat
      BY <1>2 DEF Requests
    <3> QED
      BY <1>3, <3>1 DEF NoteSegments
  <2> QED
    BY <1>1, <2>1, <2>2
<1>6. CASE AddDynamic
  <2> DEFINE table == NewSegment("DYNAMIC", 0, SizeOf(DynamicTable), 8, DynamicTable)
  <2>1. table.header.type = "DYNAMIC" /\ segs' = Append(segs, table)
    BY <1>3, <1>6 DEF AddDynamic
  <2> HIDE DEF table
  <2>2. ASSUME NEW i \in 1..Len(segs') PROVE segs'[i].header.type # "NULL"
    <3>1. i \in 1..(Len(segs) + 1) /\ Len(segs) \in Nat
      BY <1>0, <2>1
    <3>2. i \in 1..Len(segs) \/ i = Len(segs) + 1
      BY <3>1
    <3> QED
      BY <1>0, <2>1, <3>1, <3>2 DEF NoNull
  <2> QED
    BY <2>2 DEF NoNull
<1>7. CASE segs' = segs
  BY <1>7 DEF NoNull
<1> QED
  BY <1>4, <1>5, <1>6, <1>7 DEF Next, bvars, lists, SetEntry, AddLoadAligned, AddLoad,
     AddTls, AddNote, AddRelocations, AddDynamicNeeded, Ask, CollectLibrary, AddRela

-----------------------------------------------------------------------------
(* Saving again.                                                             *)

(* Writing no bytes changes nothing.                                         *)
LEMMA NothingCopied ==
    ASSUME NEW data \in Seq(Byte), NEW start \in Int
    PROVE  Copied(data, start, <<>>) = data
<1>1. Len(<<>>) = 0 /\ start + 0 = start
  OBVIOUS
<1>2. Copied(data, start, <<>>) = [p \in 1..Len(data) |-> data[p]]
  <2>1. \A p \in 1..Len(data) : ~(start < p /\ p <= start + Len(<<>>))
    BY <1>1
  <2> QED
    BY <2>1 DEF Copied
<1> QED
  BY <1>2

(* So an image written no bytes is as it was.                               *)
LEMMA NothingWritten ==
    ASSUME NEW im \in ElfImage, NEW i \in 1..Len(im.segments), NEW vaddr \in Nat
    PROVE  /\ SegmentsWith(im.segments, i, vaddr, <<>>) = im.segments
           /\ SectionsWith(im.sections, vaddr, <<>>) = im.sections
<1> DEFINE segs_ == im.segments
           secs_ == im.sections
<1>1. segs_ \in Seq(Segment) /\ secs_ \in Seq(Section) /\ i \in 1..Len(segs_)
  BY DEF ElfImage
<1> HIDE DEF segs_, secs_
<1>2. SegmentsWith(segs_, i, vaddr, <<>>) = segs_
  <2> DEFINE segment == segs_[i]
  <2>1. segment \in Segment
    BY <1>1
  <2> HIDE DEF segment
  <2>2. segment.data \in Seq(Byte) /\ segment.header.vaddr \in Nat
    <3>1. segment.header.vaddr \in U64
      BY <2>1 DEF Segment, Phdr
    <3> QED
      BY <2>1, <3>1, BuilderConstants DEF Segment, U64
  <2>3. WithBytes(segment, vaddr, <<>>) = segment
    <3>1. vaddr - segment.header.vaddr \in Int
      BY <2>2
    <3>2. Copied(segment.data, vaddr - segment.header.vaddr, <<>>) = segment.data
      BY <2>2, <3>1, NothingCopied
    <3> QED
      BY <2>1, <3>2 DEF WithBytes, Segment
  <2> QED
    BY <1>1, <2>3 DEF SegmentsWith, segment
<1>3. SectionsWith(secs_, vaddr, <<>>) = secs_
  <2>1. ASSUME NEW k \in 1..Len(secs_) PROVE Updated(secs_[k], vaddr, <<>>) = secs_[k]
    <3> DEFINE section == secs_[k]
    <3>1. section \in Section
      BY <1>1
    <3> HIDE DEF section
    <3>2. section.data \in Seq(Byte) /\ section.header.addr \in Nat
      <4>1. section.header.addr \in U64
        BY <3>1 DEF Section, Shdr
      <4> QED
        BY <3>1, <4>1, BuilderConstants DEF Section, U64
    <3>3. vaddr - section.header.addr \in Int
      BY <3>2
    <3>4. Copied(section.data, vaddr - section.header.addr, <<>>) = section.data
      BY <3>2, <3>3, NothingCopied
    <3>5. Updated(section, vaddr, <<>>) = section
      BY <3>1, <3>4 DEF Updated, Section
    <3> QED
      BY <3>5 DEF section
  <2> QED
    BY <1>1, <2>1 DEF SectionsWith
<1> QED
  BY <1>2, <1>3 DEF segs_, secs_

(* What the serializer makes of the image in the session.                    *)
Makes(im, f) == \E phs : Files!BuiltFrom(im, f, phs, im.sections, im.header)

SessionInv ==
    /\ TypeOK /\ NoNull
    /\ pc = "idle" => file = <<>>
    /\ pc # "idle" => CallInv /\ stage = "assembled"
    /\ pc # "idle" /\ file = <<>> => image = Assembled
    /\ file # <<>> /\ edit = {} => Makes(image, file)

(* An image written bytes is an image.                                       *)
LEMMA WrittenIsImage ==
    ASSUME NEW im \in ElfImage, NEW i \in 1..Len(im.segments), NEW vaddr \in Nat,
           NEW bytes \in Seq(RawByte)
    PROVE  [im EXCEPT !.segments = SegmentsWith(@, i, vaddr, bytes),
                      !.sections = SectionsWith(@, vaddr, bytes)] \in ElfImage
<1>1. Files!RawByte = RawByte
  BY DEF Files!RawByte, RawByte
<1>2. Files!Edited(im, i, vaddr, bytes) \in Files!ElfImage
  BY <1>1, SameFiles, Files!EditedIsImage, FilesAssumptions
<1>3. Files!Edited(im, i, vaddr, bytes) =
          [im EXCEPT !.segments = SegmentsWith(@, i, vaddr, bytes),
                     !.sections = SectionsWith(@, vaddr, bytes)]
  BY DEF Files!Edited, Files!SegmentsWith, SegmentsWith, Files!SectionsWith, SectionsWith,
     Files!WithBytes, WithBytes, Files!Updated, Updated, Files!Copied, Copied,
     Files!Takes, Takes, Files!SectionContains, SectionContains, Files!SatAdd, SatAdd,
     Files!IsNobits, IsNobits, Files!InData, InData
<1> QED
  BY <1>2, <1>3, SameFiles

(* Whatever the user does between two calls, the second is of an image.      *)
LEMMA SavedAgainIsImage ==
    ASSUME SessionInv, SaveAgain
    PROVE  /\ \E im \in ElfImage : Layout!Restart(im)
           /\ edit' = {} => Layout!Restart(Parsed(out))
<1> DEFINE im == Parsed(out)
<1>1. pc = "done" /\ (SaveUnchanged \/ SaveEdited)
  BY DEF SaveAgain
<1>2. im \in ElfImage
  BY <1>1, CallFinished DEF SessionInv
<1>3. CASE SaveUnchanged
  BY <1>2, <1>3 DEF SaveUnchanged
<1>4. CASE SaveEdited
  <2>1. PICK ioff \in Offsets, bytes \in Payload :
          LET vaddr == ImageBase(im.segments) + ioff
          IN  \E i \in 1..Len(im.segments) :
                  /\ Layout!Restart(
                         [im EXCEPT !.segments = SegmentsWith(@, i, vaddr, bytes),
                                    !.sections = SectionsWith(@, vaddr, bytes)])
                  /\ edit' = {<<vaddr + k - 1, bytes[k]>> : k \in 1..Len(bytes)}
    BY <1>4 DEF SaveEdited
  <2> DEFINE vaddr == ImageBase(im.segments) + ioff
  <2>2. bytes \in Seq(RawByte) /\ ioff \in Nat /\ im.segments \in Seq(Segment)
    BY <1>2, WritesAssumption DEF ElfImage
  <2>3. vaddr \in Nat
    <3>1. ImageBase(im.segments) \in Nat
      BY <2>2, BaseIsAddress, BuilderConstants DEF U64
    <3> QED
      BY <2>2, <3>1
  <2> HIDE DEF vaddr, im
  <2>4. PICK i \in 1..Len(im.segments) :
                  /\ Layout!Restart(
                         [im EXCEPT !.segments = SegmentsWith(@, i, vaddr, bytes),
                                    !.sections = SectionsWith(@, vaddr, bytes)])
                  /\ edit' = {<<vaddr + k - 1, bytes[k]>> : k \in 1..Len(bytes)}
    BY <2>1 DEF vaddr
  <2>5. [im EXCEPT !.segments = SegmentsWith(@, i, vaddr, bytes),
                   !.sections = SectionsWith(@, vaddr, bytes)] \in ElfImage
    BY <1>2, <2>2, <2>3, WrittenIsImage
  <2>6. ASSUME edit' = {} PROVE Layout!Restart(im)
    <3>1. ~(1 \in 1..Len(bytes))
      BY <2>4, <2>6
    <3>2. bytes = <<>>
      BY <2>2, <3>1
    <3>3. [im EXCEPT !.segments = SegmentsWith(@, i, vaddr, bytes),
                     !.sections = SectionsWith(@, vaddr, bytes)] = im
      <4> DEFINE newSegments == SegmentsWith(im.segments, i, vaddr, bytes)
                 newSections == SectionsWith(im.sections, vaddr, bytes)
      <4>1. newSegments = im.segments /\ newSections = im.sections
        BY <1>2, <2>3, <3>2, NothingWritten
      <4>2. im = [header |-> im.header, segments |-> im.segments, sections |-> im.sections]
        BY <1>2 DEF ElfImage
      <4>3. [im EXCEPT !.segments = newSegments, !.sections = newSections] = im
        <5> HIDE DEF newSegments, newSections
        <5> QED
          BY <4>1, <4>2
      <4> QED
        BY <4>3
    <3> QED
      BY <2>4, <3>3
  <2> QED
    BY <2>4, <2>5, <2>6 DEF im
<1> QED
  BY <1>1, <1>3, <1>4

(* The session starts so,                                                    *)
LEMMA SessionStarts == SessionInit => SessionInv
<1> SUFFICES ASSUME SessionInit PROVE SessionInv
  OBVIOUS
<1>1. TypeOK
  BY TypeInit DEF SessionInit
<1>2. segs = <<>> /\ pc = "idle" /\ file = <<>>
  BY DEF SessionInit, Init
<1>3. NoNull
  BY <1>2 DEF NoNull
<1> QED
  BY <1>1, <1>2, <1>3 DEF SessionInv

(* and goes on so: a call begins on the image assembled or on the one read   *)
(* from the file, and if that was not touched makes the file again.          *)
LEMMA SessionSteps == SessionInv /\ [SessionNext]_allVars => SessionInv'
<1> SUFFICES ASSUME SessionInv, [SessionNext]_allVars PROVE SessionInv'
  OBVIOUS
<1>1. TypeOK /\ NoNull
  BY DEF SessionInv
<1>2. [Next]_bvars
  BY DEF SessionNext, Request, BuildImage, Serialize, SaveAgain, allVars
<1>3. TypeOK' /\ NoNull'
  BY <1>1, <1>2, TypeStep, NoNullStep
<1>4. stage = "assembled" => UNCHANGED bvars
  BY <1>2 DEF Next, SetEntry, AddLoadAligned, AddLoad, AddTls, AddNote, AddRelocations,
     AddDynamicNeeded, Ask, TryBuild, AddNotes, CollectLibrary, AddDynamic, AddRela
<1>5. UNCHANGED bvars => Assembled' = Assembled /\ stage' = stage
  BY DEF bvars, lists, Assembled
<1>6. CASE UNCHANGED <<lvars, user>>
  <2>1. UNCHANGED Layout!vars
    BY <1>6 DEF lvars, Layout!vars, Layout!layout, Layout!names
  <2>2. /\ pc' = pc /\ file' = file /\ edit' = edit /\ image' = image
    BY <1>6 DEF lvars, user
  <2>3. pc # "idle" => CallInv'
    BY <2>1, CallGoesOn DEF SessionInv
  <2>4. file' # <<>> /\ edit' = {} => Makes(image', file')
    BY <2>2 DEF SessionInv
  <2> QED
    BY <1>3, <1>4, <1>5, <2>2, <2>3, <2>4 DEF SessionInv
<1>7. CASE BuildImage
  <2>1. pc = "idle" /\ stage = "assembled" /\ Layout!Restart(Assembled)
        /\ UNCHANGED bvars /\ file' = file
    BY <1>7 DEF BuildImage, user
  <2>2. Assembled \in ElfImage
    BY <1>1 DEF TypeOK
  <2>3. CallInv' /\ image' = Assembled
    BY <2>1, <2>2, CallBegins
  <2>4. file' = <<>> /\ pc' # "idle"
    BY <2>1 DEF SessionInv, Layout!Restart
  <2> QED
    BY <1>3, <1>5, <2>1, <2>3, <2>4 DEF SessionInv
<1>8. CASE Serialize
  <2>1. Layout!Next /\ UNCHANGED bvars /\ file' = file /\ edit' = edit
    BY <1>8 DEF Serialize, user
  <2>2. pc # "idle" /\ pc' # "idle"
    BY <2>1 DEF Layout!Next, Layout!SkipSegment, Layout!PlaceSegment,
       Layout!EnsureShstrtab, Layout!CollectName, Layout!AssignNames, Layout!SkipSection,
       Layout!PlaceSection, Layout!SectionsPlaced, Layout!WriteProgramHeaders,
       Layout!FillHeader, Layout!WriteSectionHeaders, Layout!WriteHeader,
       Layout!Returned, Layout!Fail, Layout!vars
  <2>3. CallInv' /\ image' = image
    BY <2>1, <2>2, CallGoesOn DEF SessionInv
  <2>4. file' # <<>> /\ edit' = {} => Makes(image', file')
    BY <2>1, <2>3 DEF SessionInv
  <2> QED
    BY <1>3, <1>5, <2>1, <2>2, <2>3, <2>4 DEF SessionInv
<1>9. CASE SaveAgain
  <2>1. pc = "done" /\ file = <<>> /\ file' = out /\ UNCHANGED bvars
    BY <1>9 DEF SaveAgain
  <2>2. CallInv /\ stage = "assembled" /\ image = Assembled
    BY <2>1 DEF SessionInv
  <2>3. /\ \E im \in ElfImage : Layout!Restart(im)
        /\ edit' = {} => Layout!Restart(Parsed(out))
    BY <1>9, SavedAgainIsImage
  <2>4. CallInv' /\ pc' # "idle"
    BY <2>3, CallBegins DEF Layout!Restart
  <2>5. Files!Finished /\ Files!Saved = out /\ Parsed(out) = Files!Parsed(out)
    BY <2>1, <2>2, CallFinished, SameFiles
  <2>6. Files!ReadsBackWhole(image)
    BY <1>1, <2>2 DEF Files!ReadsBackWhole, NoNull, Assembled
  <2>7. Makes(Parsed(out), out)
    BY <2>2, <2>5, <2>6, Files!SavedIsMadeAgain, FilesAssumptions DEF CallInv, Makes
  <2>8. edit' = {} => Makes(image', file')
    <3>1. edit' = {} => image' = Parsed(out)
      BY <2>3 DEF Layout!Restart
    <3> QED
      BY <2>1, <2>7, <3>1
  <2>9. file' # <<>>
    <3>1. EhSize <= Len(out)
      <4>1. Parses(out)
        BY <2>1, <2>2, CallFinished
      <4> QED
        BY <4>1, FormatAssumption DEF Parses, Decodes, Readable
    <3>2. Len(<<>>) = 0
      OBVIOUS
    <3> QED
      BY <2>1, <3>1, <3>2, FormatAssumption
  <2> QED
    BY <1>3, <1>5, <2>1, <2>2, <2>4, <2>8, <2>9 DEF SessionInv
<1> QED
  BY <1>6, <1>7, <1>8, <1>9 DEF SessionNext, Request, allVars

(* So the second file is the first.                                          *)
LEMMA RebuiltIsTheSame == SessionInv => RebuildStable
<1> SUFFICES ASSUME SessionInv, pc = "done", file # <<>>, edit = {} PROVE out = file
  BY DEF RebuildStable
<1>1. CallInv
  BY DEF SessionInv
<1>2. PICK phs : Files!BuiltFrom(image, file, phs, image.sections, image.header)
  BY DEF SessionInv, Makes
<1>3. image \in Files!ElfImage
  BY <1>1, CallFinished, SameFiles
<1>4. Files!BuiltFrom(image, out, phdrs, sections, header)
  BY <1>1, Files!BuiltAtEnd, FilesAssumptions DEF CallInv
<1> QED
  BY <1>2, <1>3, <1>4, Files!OneFile, FilesAssumptions

(* Saving the image the builder returned, without touching it, makes the     *)
(* file it was read from, byte for byte, whatever was asked of the builder   *)
(* (builder.rs:307-309, build.rs:22-119).                                    *)
THEOREM RebuildingChangesNothing == SessionSpec => []RebuildStable
BY SessionStarts, SessionSteps, RebuiltIsTheSame, PTL DEF SessionSpec

-----------------------------------------------------------------------------
(* The segments asked for.                                                   *)

(* Those try_build begins with: the loads, then the template.                *)
TemplateSegments ==
    IF request.tls = {} THEN <<>> ELSE <<TlsSegment(CHOOSE t \in request.tls : TRUE)>>

(* A later template takes the place of an earlier one; the segments asked    *)
(* for come first, and only a table's or a note's follow.                    *)
AskedInv ==
    /\ \A s, t \in request.tls : s = t
    /\ stage # "asking" =>
           LET asked == LoadSegments \o TemplateSegments
           IN  /\ Len(asked) <= Len(segs)
               /\ \A i \in 1..Len(asked) : segs[i] = asked[i]
               /\ \A i \in (Len(asked) + 1)..Len(segs) : segs[i].header.type \in {"NOTE", "DYNAMIC"}

(* What try_build begins with are segments.                                  *)
LEMMA AskedAreSegments ==
    ASSUME request \in Requests
    PROVE  /\ LoadSegments \in Seq(Segment) /\ TemplateSegments \in Seq(Segment)
           /\ LoadSegments \o TemplateSegments \in Seq(Segment)
<1>1. LoadSegments \in Seq(Segment)
  BY LoadsAreSegments
<1>2. TemplateSegments \in Seq(Segment)
  <2>1. ASSUME request.tls # {}
        PROVE  TlsSegment(CHOOSE t \in request.tls : TRUE) \in Segment
    <3>1. PICK t \in TlsSpec : t = CHOOSE u \in request.tls : TRUE
      BY <2>1 DEF Requests
    <3>2. /\ t.vaddr \in U64 /\ t.memsz \in U64 /\ t.align \in U64
          /\ t.data \in Seq(RawByte) /\ "TLS" \in SegmentTypes
      BY DEF TlsSpec, Vec, SegmentTypes
    <3>3. TlsSegment(t) \in Segment
      BY <3>2, NewSegmentType DEF TlsSegment
    <3> QED
      BY <3>1, <3>3
  <2> DEFINE tls == TlsSegment(CHOOSE t \in request.tls : TRUE)
  <2>2. TemplateSegments = IF request.tls = {} THEN <<>> ELSE <<tls>>
    BY DEF TemplateSegments
  <2>3. request.tls # {} => tls \in Segment
    BY <2>1
  <2> HIDE DEF tls
  <2> QED
    BY <2>2, <2>3
<1> QED
  BY <1>1, <1>2

(* Segments added behind them leave them in front.                           *)
LEMMA AskedStayInFront ==
    ASSUME NEW asked \in Seq(Segment), NEW s \in Seq(Segment), NEW more \in Seq(Segment),
           NEW T, Len(asked) <= Len(s), \A i \in 1..Len(asked) : s[i] = asked[i],
           \A i \in (Len(asked) + 1)..Len(s) : s[i].header.type \in T,
           \A i \in 1..Len(more) : more[i].header.type \in T
    PROVE  /\ Len(asked) <= Len(s \o more)
           /\ \A i \in 1..Len(asked) : (s \o more)[i] = asked[i]
           /\ \A i \in (Len(asked) + 1)..Len(s \o more) : (s \o more)[i].header.type \in T
<1>1. /\ Len(s \o more) = Len(s) + Len(more)
      /\ Len(s) \in Nat /\ Len(more) \in Nat /\ Len(asked) \in Nat
  OBVIOUS
<1>2. ASSUME NEW i \in 1..Len(s) PROVE (s \o more)[i] = s[i]
  OBVIOUS
<1>3. ASSUME NEW i \in (Len(s) + 1)..(Len(s) + Len(more))
      PROVE  i - Len(s) \in 1..Len(more) /\ (s \o more)[i] = more[i - Len(s)]
  BY <1>1
<1>4. ASSUME NEW i \in (Len(asked) + 1)..Len(s \o more)
      PROVE  (s \o more)[i].header.type \in T
  <2>1. i \in (Len(asked) + 1)..Len(s) \/ i \in (Len(s) + 1)..(Len(s) + Len(more))
    BY <1>1
  <2>2. CASE i \in (Len(asked) + 1)..Len(s)
    <3>1. i \in 1..Len(s)
      BY <1>1, <2>2
    <3> QED
      BY <1>2, <2>2, <3>1
  <2>3. CASE i \in (Len(s) + 1)..(Len(s) + Len(more))
    BY <1>3, <2>3
  <2> QED
    BY <2>1, <2>2, <2>3
<1>5. ASSUME NEW i \in 1..Len(asked) PROVE (s \o more)[i] = asked[i]
  <2>1. i \in 1..Len(s)
    BY <1>1
  <2> QED
    BY <1>2, <2>1
<1> QED
  BY <1>1, <1>4, <1>5

(* It is so from the start,                                                  *)
LEMMA AskedInit == Init => AskedInv
<1> SUFFICES ASSUME Init PROVE AskedInv
  OBVIOUS
<1>1. stage = "asking" /\ request.tls = {}
  BY DEF Init
<1> QED
  BY <1>1 DEF AskedInv

(* and at every step of try_build.                                           *)
LEMMA AskedStep == TypeOK /\ AskedInv /\ [Next]_bvars => AskedInv'
<1> SUFFICES ASSUME TypeOK, AskedInv, [Next]_bvars PROVE AskedInv'
  OBVIOUS
<1> DEFINE asked == LoadSegments \o TemplateSegments
           types == {"NOTE", "DYNAMIC"}
<1>1. request \in Requests /\ segs \in Seq(Segment) /\ asked \in Seq(Segment)
  BY AskedAreSegments DEF TypeOK
<1>2. ASSUME request' = request PROVE asked' = asked
  BY <1>2 DEF LoadSegments, TemplateSegments
<1>3. ASSUME NEW more \in Seq(Segment), request' = request, segs' = segs \o more,
             stage # "asking", \A i \in 1..Len(more) : more[i].header.type \in types
      PROVE  AskedInv'
  <2>1. /\ Len(asked) <= Len(segs) /\ \A i \in 1..Len(asked) : segs[i] = asked[i]
        /\ \A i \in (Len(asked) + 1)..Len(segs) : segs[i].header.type \in types
    BY <1>3 DEF AskedInv
  <2> HIDE DEF asked, types
  <2>2. /\ Len(asked) <= Len(segs \o more)
        /\ \A i \in 1..Len(asked) : (segs \o more)[i] = asked[i]
        /\ \A i \in (Len(asked) + 1)..Len(segs \o more) :
               (segs \o more)[i].header.type \in types
    BY <1>1, <1>3, <2>1, AskedStayInFront
  <2>3. /\ Len(asked') <= Len(segs') /\ \A i \in 1..Len(asked') : segs'[i] = asked'[i]
        /\ \A i \in (Len(asked') + 1)..Len(segs') : segs'[i].header.type \in types
    BY <1>2, <1>3, <2>2
  <2>4. \A s, t \in request'.tls : s = t
    BY <1>3 DEF AskedInv
  <2> QED
    BY <2>3, <2>4 DEF AskedInv, asked, types
<1>4. \A type, vaddr, memsz, align, data :
          NewSegment(type, vaddr, memsz, align, data).header.type = type
  BY DEF NewSegment
<1>5. CASE TryBuild
  <2>1. segs' = asked /\ request' = request
    BY <1>5 DEF TryBuild, TemplateSegments
  <2>2. asked' = asked
    BY <1>2, <2>1
  <2>3. \A s, t \in request'.tls : s = t
    BY <2>1 DEF AskedInv
  <2>4. /\ Len(asked') <= Len(segs') /\ \A i \in 1..Len(asked') : segs'[i] = asked'[i]
        /\ \A i \in (Len(asked') + 1)..Len(segs') : segs'[i].header.type \in types
    <3> HIDE DEF asked, types
    <3>1. Len(asked) \in Nat
      BY <1>1
    <3>2. ~ \E i \in (Len(asked) + 1)..Len(asked) : TRUE
      BY <3>1
    <3> QED
      BY <2>1, <2>2, <3>1, <3>2
  <2> QED
    BY <2>3, <2>4 DEF AskedInv
<1>6. CASE AddNotes
  <2>1. segs' = segs \o NoteSegments /\ NoteSegments \in Seq(Segment) /\ request' = request
        /\ stage # "asking"
    BY <1>1, <1>6, NotesAreTyped DEF AddNotes
  <2>2. \A i \in 1..Len(NoteSegments) : NoteSegments[i].header.type \in types
    <3>1. Len(request.notes) \in Nat
      BY <1>1 DEF Requests
    <3> QED
      BY <1>4, <3>1 DEF NoteSegments
  <2> QED
    BY <1>3, <2>1, <2>2
<1>7. CASE AddDynamic
  <2> DEFINE table == NewSegment("DYNAMIC", 0, SizeOf(DynamicTable), 8, DynamicTable)
  <2>1. /\ table.header.type = "DYNAMIC" /\ segs' = Append(segs, table)
        /\ request' = request /\ stage # "asking"
    BY <1>4, <1>7 DEF AddDynamic
  <2>2. table \in Segment
    <3>1. DynamicTable \in Seq(RawByte)
      BY DynamicIsBytes DEF TypeOK
    <3>2. SizeOf(DynamicTable) \in U64 /\ 0 \in U64 /\ 8 \in U64 /\ "DYNAMIC" \in SegmentTypes
      BY <3>1, BuilderConstants DEF SegmentTypes
    <3> QED
      BY <3>1, <3>2, NewSegmentType
  <2> HIDE DEF table
  <2>3. <<table>> \in Seq(Segment) /\ Append(segs, table) = segs \o <<table>>
    BY <1>1, <2>2
  <2>4. \A i \in 1..Len(<<table>>) : <<table>>[i].header.type \in types
    BY <2>1
  <2> QED
    BY <1>3, <2>1, <2>3, <2>4
<1>8. CASE /\ request' = request /\ segs' = segs
           /\ stage' # "asking" => stage # "asking"
  BY <1>2, <1>8 DEF AskedInv
<1>9. ASSUME NEW r, Ask(r), \A s, t \in r.tls : s = t PROVE AskedInv'
  BY <1>9 DEF Ask, AskedInv
<1>10. \A s, t \in request.tls : s = t
  BY DEF AskedInv
<1>11. CASE \/ \E entry \in Entries : SetEntry(entry)
            \/ \E load \in Loads : AddLoadAligned(load) \/ AddLoad(load)
            \/ \E template \in Templates : AddTls(template)
            \/ \E note \in NoteSpecs : AddNote(note)
            \/ \E list \in RelocationLists : AddRelocations(list)
            \/ \E lib \in Libraries : AddDynamicNeeded(lib)
  <2>1. ASSUME NEW r, Ask(r), r.tls = request.tls PROVE AskedInv'
    BY <1>9, <1>10, <2>1
  <2>2. ASSUME NEW entry, SetEntry(entry) PROVE AskedInv'
    <3>1. [request EXCEPT !.entry = entry].tls = request.tls
      BY <1>1 DEF Requests
    <3> QED
      BY <2>1, <2>2, <3>1 DEF SetEntry
  <2>3. ASSUME NEW load, AddLoadAligned(load) PROVE AskedInv'
    <3>1. [request EXCEPT !.loads = Append(@, load)].tls = request.tls
      BY <1>1 DEF Requests
    <3> QED
      BY <2>1, <2>3, <3>1 DEF AddLoadAligned
  <2>4. ASSUME NEW template, AddTls(template) PROVE AskedInv'
    <3>1. [request EXCEPT !.tls = {template}].tls = {template}
      BY <1>1 DEF Requests
    <3> QED
      BY <1>9, <2>4, <3>1 DEF AddTls
  <2>5. ASSUME NEW note, AddNote(note) PROVE AskedInv'
    <3>1. [request EXCEPT !.notes = Append(@, note)].tls = request.tls
      BY <1>1 DEF Requests
    <3> QED
      BY <2>1, <2>5, <3>1 DEF AddNote
  <2>6. ASSUME NEW list, AddRelocations(list) PROVE AskedInv'
    <3>1. [request EXCEPT !.relocations = list].tls = request.tls
      BY <1>1 DEF Requests
    <3> QED
      BY <2>1, <2>6, <3>1 DEF AddRelocations
  <2>7. ASSUME NEW lib, AddDynamicNeeded(lib) PROVE AskedInv'
    <3>1. [request EXCEPT !.needed = Append(@, lib)].tls = request.tls
      BY <1>1 DEF Requests
    <3> QED
      BY <2>1, <2>7, <3>1 DEF AddDynamicNeeded
  <2> QED
    BY <1>11, <2>2, <2>3, <2>4, <2>5, <2>6, <2>7 DEF AddLoad
<1>12. CASE CollectLibrary \/ AddRela \/ UNCHANGED bvars
  BY <1>8, <1>12 DEF CollectLibrary, AddRela, bvars, lists
<1> QED
  BY <1>5, <1>6, <1>7, <1>11, <1>12 DEF Next

-----------------------------------------------------------------------------
(* The segments of the image in a file.                                      *)

(* In two images a segment is of the same type and in the same place.        *)
Alike(is, was) ==
    /\ is.header.type = was.header.type /\ is.header.vaddr = was.header.vaddr
    /\ is.header.memsz = was.header.memsz /\ is.header.align = was.header.align

(* What is read from a finished file, segment by segment.                    *)
LEMMA SegmentsRead ==
    ASSUME CallInv, pc = "done",
           \A i \in 1..Len(image.segments) : image.segments[i].header.type # "NULL"
    PROVE  LET im == Parsed(out)
           IN  /\ Parses(out) /\ im \in ElfImage /\ image \in ElfImage
               /\ im.header.entry = image.header.entry
               /\ Len(im.segments) = Len(image.segments)
               /\ \A i \in 1..Len(image.segments) :
                      /\ Alike(im.segments[i], image.segments[i])
                      /\ im.segments[i].data = Files!SegmentBytes(image.segments[i])
                      /\ im.segments[i].header.filesz = Len(im.segments[i].data)
<1> DEFINE im == Parsed(out)
<1>1. /\ Parses(out) /\ im \in ElfImage /\ image \in ElfImage /\ Files!Finished
      /\ Files!Saved = out /\ im = Files!Parsed(out)
      /\ im = Files!ImageRead(image, phdrs, sections, header)
  BY CallFinished, SameFiles
<1>2. Files!ReadsBack
  <2>1. <<>> \in Seq(Files!Byte)
    OBVIOUS
  <2>2. Files!SessionInv
    BY <2>1 DEF CallInv, Files!SessionInv
  <2> QED
    BY <2>2, Files!ReadsWhatWasSaved, FilesAssumptions
<1>3. im.header.entry = image.header.entry
  <2>1. header = Files!FilledWith(image.header, phdrs, sections, shstrndx, cursor)
    BY DEF CallInv, Files!LaidInv, Files!LaidHeader, Files!HeaderFilled,
       Files!ShdrsWritten
  <2>2. image.header \in ElfHeader
    BY <1>1 DEF ElfImage
  <2>3. header.entry = image.header.entry
    BY <2>1, <2>2 DEF Files!FilledWith, ElfHeader
  <2> QED
    BY <1>1, <2>3 DEF Files!ImageRead
<1> HIDE DEF im
<1>4. /\ Len(im.segments) = Len(image.segments)
      /\ \A i \in 1..Len(image.segments) :
             LET was == image.segments[i]
                 is  == im.segments[i]
             IN  /\ is.data = IF was.header.type = "NULL" THEN <<>>
                              ELSE Files!SegmentBytes(was)
                 /\ is.header = Files!PhdrAt(was.header, is.header.offset, is.header.filesz)
  BY <1>1, <1>2 DEF Files!ReadsBack
<1>5. ASSUME NEW i \in 1..Len(image.segments)
      PROVE  /\ Alike(im.segments[i], image.segments[i])
             /\ im.segments[i].data = Files!SegmentBytes(image.segments[i])
             /\ im.segments[i].header.filesz = Len(im.segments[i].data)
  <2> DEFINE was == image.segments[i]
             is  == im.segments[i]
  <2>1. /\ is.data = Files!SegmentBytes(was)
        /\ is.header = Files!PhdrAt(was.header, is.header.offset, is.header.filesz)
    BY <1>4
  <2>2. was.header \in Phdr
    <3>1. image.segments \in Seq(Segment)
      BY <1>1 DEF ElfImage
    <3>2. was \in Segment
      BY <3>1
    <3> QED
      BY <3>2 DEF Segment
  <2>3. is.header.filesz = Len(Files!SegmentBytes(was))
    <3>1. /\ Len(phdrs) = Len(image.segments) /\ Len(phdrs) \in Nat
          /\ Files!SectionsBegun
      BY <1>1, Files!FinishedFacts, FilesAssumptions
    <3>2. is.header = phdrs[i]
      BY <1>1, <3>1 DEF Files!ImageRead, Files!SegmentRead
    <3>3. i \in 1..Files!SegmentsDone
      BY <3>1 DEF Files!SegmentsDone, Files!SectionsBegun
    <3>4. Files!SegmentPlaced(i)
      BY <1>1, <3>3 DEF CallInv, Files!IInv, Files!LayoutInv, Files!SegmentsInv,
         Files!Finished
    <3> QED
      BY <3>2, <3>4 DEF Files!SegmentPlaced
  <2> HIDE DEF is
  <2>4. Alike(is, was)
    BY <2>1, <2>2 DEF Alike, Files!PhdrAt, Phdr
  <2> QED
    BY <2>1, <2>3, <2>4 DEF is
<1> QED
  BY <1>1, <1>3, <1>4, <1>5 DEF im

-----------------------------------------------------------------------------
(* What the user's write makes of it.                                        *)

(* The image has the segments was, but for the bytes written at address a of *)
(* segment w.                                                                *)
LeftBy(im, was, entry, w, a, bytes) ==
    /\ im.header.entry = entry /\ Len(im.segments) = Len(was)
    /\ \A i \in 1..Len(was) :
           /\ Alike(im.segments[i], was[i])
           /\ Files!SegmentBytes(im.segments[i]) =
                  IF i = w
                  THEN Copied(Files!SegmentBytes(was[i]), a - was[i].header.vaddr, bytes)
                  ELSE Files!SegmentBytes(was[i])

(* Segment w is where write_at_ioff takes the bytes, if there are any.       *)
TakenBy(was, w, a, bytes) ==
    bytes # <<>> =>
        /\ w \in 1..Len(was) /\ IsFirstLoad(was, w, a)
        /\ InData(Files!SegmentBytes(was[w]), a - was[w].header.vaddr, Len(bytes))

EditOf(a, bytes) == {<<a + k - 1, bytes[k]>> : k \in 1..Len(bytes)}

WrittenInv ==
    /\ file = <<>> => edit = {}
    /\ pc # "idle" =>
           \E w \in Nat, a \in Nat, bytes \in Seq(RawByte) :
               /\ LeftBy(image, segs, request.entry, w, a, bytes)
               /\ TakenBy(segs, w, a, bytes)
               /\ edit = EditOf(a, bytes)

(* A segment whose file size is that of its data reaches the file whole.     *)
LEMMA WholeSegment ==
    ASSUME NEW segment, segment.data \in Seq(Byte),
           segment.header.filesz = Len(segment.data)
    PROVE  Files!SegmentBytes(segment) = segment.data
<1>1. Len(segment.data) \in Nat
  OBVIOUS
<1>2. Files!Writable(segment) = Len(segment.data)
  BY <1>1 DEF Files!Writable, Files!Minimum
<1>3. SubSeq(segment.data, 1, Len(segment.data)) = segment.data
  OBVIOUS
<1> QED
  BY <1>2, <1>3 DEF Files!SegmentBytes

(* Nothing is written to the image assembled.                                *)
LEMMA NothingLeft ==
    ASSUME NEW im, NEW was, NEW entry, Len(was) \in Nat, im.header.entry = entry,
           Len(im.segments) = Len(was),
           \A i \in 1..Len(was) :
               /\ Alike(im.segments[i], was[i])
               /\ Files!SegmentBytes(im.segments[i]) = Files!SegmentBytes(was[i])
    PROVE  \E w \in Nat, a \in Nat, bytes \in Seq(RawByte) :
               /\ LeftBy(im, was, entry, w, a, bytes)
               /\ TakenBy(was, w, a, bytes)
               /\ {} = EditOf(a, bytes)
<1>1. \A i \in 1..Len(was) : i # 0
  OBVIOUS
<1>2. LeftBy(im, was, entry, 0, 0, <<>>)
  BY <1>1 DEF LeftBy
<1>3. TakenBy(was, 0, 0, <<>>)
  BY DEF TakenBy
<1>4. EditOf(0, <<>>) = {}
  <2>1. 1..Len(<<>>) = {}
    OBVIOUS
  <2> QED
    BY <2>1 DEF EditOf
<1>5. 0 \in Nat /\ <<>> \in Seq(RawByte)
  OBVIOUS
<1> QED
  BY <1>2, <1>3, <1>4, <1>5

(* Segments alike cover the same addresses.                                  *)
LEMMA AlikeCover ==
    ASSUME NEW s, NEW t, Len(s) = Len(t), Len(t) \in Nat, \A i \in 1..Len(t) : Alike(s[i], t[i]),
           NEW a, NEW i \in 1..Len(t)
    PROVE  IsFirstLoad(s, i, a) <=> IsFirstLoad(t, i, a)
<1>1. \A j \in 1..Len(t) : CoversLoaded(s[j], a) <=> CoversLoaded(t[j], a)
  BY DEF CoversLoaded, IsLoad, SegmentContains, Alike
<1>2. \A j \in 1..(i - 1) : j \in 1..Len(t)
  OBVIOUS
<1> QED
  BY <1>1, <1>2 DEF IsFirstLoad

(* Bytes are copied over as many.                                            *)
LEMMA CopiedType ==
    ASSUME NEW data \in Seq(Byte), NEW start \in Int, NEW bytes \in Seq(RawByte)
    PROVE  Copied(data, start, bytes) \in Seq(Byte) /\ Len(Copied(data, start, bytes)) = Len(data)
<1>1. bytes \in Seq(Byte) /\ Len(bytes) \in Nat /\ Len(data) \in Nat
  BY RawBytesAreBytes
<1>2. ASSUME NEW p \in 1..Len(data)
      PROVE  (IF start < p /\ p <= start + Len(bytes) THEN bytes[p - start] ELSE data[p]) \in Byte
  <2>1. data[p] \in Byte
    OBVIOUS
  <2>2. start < p /\ p <= start + Len(bytes) => p - start \in 1..Len(bytes)
    BY <1>1
  <2>3. \A k \in 1..Len(bytes) : bytes[k] \in Byte
    BY <1>1
  <2> QED
    BY <2>1, <2>2, <2>3
<1> DEFINE at(p) == IF start < p /\ p <= start + Len(bytes) THEN bytes[p - start] ELSE data[p]
           copy  == [p \in 1..Len(data) |-> at(p)]
<1>3. \A p \in 1..Len(data) : at(p) \in Byte
  BY <1>2
<1>4. Copied(data, start, bytes) = copy
  BY DEF Copied
<1>5. copy \in Seq(Byte) /\ Len(copy) = Len(data)
  <2> HIDE DEF at
  <2> QED
    BY <1>1, <1>3
<1> QED
  BY <1>4, <1>5

(* What a write to an image read from a file leaves.                         *)
LEMMA WrittenIsLeft ==
    ASSUME NEW im, NEW was \in Seq(Segment), NEW w \in 1..Len(was), NEW a \in Nat,
           NEW bytes \in Seq(RawByte),
           im.segments \in Seq(Segment), Len(im.segments) = Len(was),
           \A i \in 1..Len(was) :
               /\ Alike(im.segments[i], was[i])
               /\ im.segments[i].data = Files!SegmentBytes(was[i])
               /\ im.segments[i].header.filesz = Len(im.segments[i].data),
           Writes(im.segments, w, a, bytes), NEW new,
           new.header.entry = im.header.entry,
           new.segments = SegmentsWith(im.segments, w, a, bytes)
    PROVE  /\ LeftBy(new, was, im.header.entry, w, a, bytes)
           /\ TakenBy(was, w, a, bytes)
<1> DEFINE s == im.segments
           t == new.segments
<1>1. s \in Seq(Segment) /\ w \in 1..Len(s) /\ Len(s) = Len(was) /\ Len(was) \in Nat
  OBVIOUS
<1>2. \A i \in 1..Len(was) :
          /\ Alike(s[i], was[i]) /\ s[i].data = Files!SegmentBytes(was[i])
          /\ s[i].header.filesz = Len(s[i].data) /\ s[i] \in Segment
  BY <1>1
<1>3. Writes(s, w, a, bytes) /\ t = SegmentsWith(s, w, a, bytes)
  OBVIOUS
<1> HIDE DEF s, t
<1>4. TakenBy(was, w, a, bytes)
  <2>1. IsFirstLoad(s, w, a) /\ InData(s[w].data, a - s[w].header.vaddr, Len(bytes))
    BY <1>3 DEF Writes
  <2>2. IsFirstLoad(was, w, a)
    BY <1>1, <1>2, <2>1, AlikeCover
  <2>3. s[w].header.vaddr = was[w].header.vaddr
    BY <1>2 DEF Alike
  <2> QED
    BY <1>2, <2>1, <2>2, <2>3 DEF TakenBy
<1> DEFINE old  == s[w]
           over == [old EXCEPT !.data = Copied(@, a - old.header.vaddr, bytes)]
<1>5. Len(t) = Len(s) /\ t[w] = over /\ \A i \in 1..Len(s) : i # w => t[i] = s[i]
  BY <1>1, <1>3 DEF SegmentsWith, WithBytes
<1>6. /\ over.header = old.header
      /\ over.data = Copied(Files!SegmentBytes(was[w]), a - was[w].header.vaddr, bytes)
      /\ over.data \in Seq(Byte) /\ over.header.filesz = Len(over.data)
  <2>1. old \in Segment /\ old.header.filesz = Len(old.data)
        /\ old.header.vaddr = was[w].header.vaddr /\ old.data = Files!SegmentBytes(was[w])
    BY <1>2 DEF Alike
  <2>2. old.header \in Phdr /\ old.data \in Seq(Byte)
    BY <2>1 DEF Segment
  <2>3. over.header = old.header /\ over.data = Copied(old.data, a - old.header.vaddr, bytes)
    BY <2>1 DEF Segment
  <2>4. a - old.header.vaddr \in Int
    BY <2>2, BuilderConstants DEF Phdr, U64
  <2>5. /\ Copied(old.data, a - old.header.vaddr, bytes) \in Seq(Byte)
        /\ Len(Copied(old.data, a - old.header.vaddr, bytes)) = Len(old.data)
    BY <2>2, <2>4, CopiedType
  <2> HIDE DEF old, over
  <2> QED
    BY <2>1, <2>3, <2>5
<1>7. ASSUME NEW i \in 1..Len(was)
      PROVE  /\ Alike(t[i], was[i])
             /\ Files!SegmentBytes(t[i]) =
                  IF i = w
                  THEN Copied(Files!SegmentBytes(was[i]), a - was[i].header.vaddr, bytes)
                  ELSE Files!SegmentBytes(was[i])
  <2>1. CASE i = w
    <3>1. Alike(t[i], was[i])
      <4>1. t[i].header = s[i].header
        BY <1>5, <1>6, <2>1 DEF old
      <4>2. Alike(s[i], was[i])
        BY <1>2
      <4> QED
        BY <4>1, <4>2 DEF Alike
    <3>2. Files!SegmentBytes(over) = over.data
      <4> HIDE DEF over
      <4> QED
        BY <1>6, WholeSegment
    <3> HIDE DEF over
    <3> QED
      BY <1>5, <1>6, <2>1, <3>1, <3>2
  <2>2. CASE i # w
    <3>1. t[i] = s[i]
      BY <1>1, <1>5, <2>2
    <3>2. s[i].data \in Seq(Byte)
      BY <1>2 DEF Segment
    <3>3. Files!SegmentBytes(s[i]) = Files!SegmentBytes(was[i])
      BY <1>2, <3>2, WholeSegment
    <3> QED
      BY <1>2, <2>2, <3>1, <3>3
  <2> QED
    BY <2>1, <2>2
<1> HIDE DEF over, old
<1> QED
  BY <1>1, <1>4, <1>5, <1>7 DEF LeftBy, t

(* The image of a finished call, read from its file, unedited and edited.    *)
LEMMA SavedAgainIsLeft ==
    ASSUME SessionInv, SaveAgain
    PROVE  /\ image' \in ElfImage
           /\ \E w \in Nat, a \in Nat, bytes \in Seq(RawByte) :
                  /\ LeftBy(image', segs, request.entry, w, a, bytes)
                  /\ TakenBy(segs, w, a, bytes)
                  /\ edit' = EditOf(a, bytes)
<1> DEFINE im == Parsed(out)
<1>1. /\ pc = "done" /\ (SaveUnchanged \/ SaveEdited) /\ CallInv /\ image = Assembled
      /\ segs \in Seq(Segment)
  BY DEF SaveAgain, SessionInv, TypeOK
<1>2. \A i \in 1..Len(image.segments) : image.segments[i].header.type # "NULL"
  BY <1>1 DEF SessionInv, NoNull, Assembled
<1>3. image.segments = segs /\ image.header.entry = request.entry
  BY <1>1 DEF Assembled
<1>4. /\ im \in ElfImage /\ im.header.entry = request.entry
      /\ Len(im.segments) = Len(segs)
      /\ \A i \in 1..Len(segs) :
             /\ Alike(im.segments[i], segs[i])
             /\ im.segments[i].data = Files!SegmentBytes(segs[i])
             /\ im.segments[i].header.filesz = Len(im.segments[i].data)
  BY <1>1, <1>2, <1>3, SegmentsRead
<1>5. im.segments \in Seq(Segment)
  BY <1>4 DEF ElfImage
<1>6. CASE SaveUnchanged
  <2>1. image' = im /\ edit' = {}
    BY <1>6 DEF SaveUnchanged, Layout!Restart
  <2> HIDE DEF im
  <2>2. ASSUME NEW i \in 1..Len(segs)
        PROVE  /\ Alike(im.segments[i], segs[i])
               /\ Files!SegmentBytes(im.segments[i]) = Files!SegmentBytes(segs[i])
    <3>1. i \in 1..Len(im.segments)
      BY <1>4
    <3>2. im.segments[i] \in Segment
      BY <1>5, <3>1
    <3>3. im.segments[i].data \in Seq(Byte)
      BY <3>2 DEF Segment
    <3> QED
      BY <1>4, <3>3, WholeSegment
  <2>3. Len(segs) \in Nat
    BY <1>1
  <2>4. im.header.entry = request.entry /\ Len(im.segments) = Len(segs)
    BY <1>4
  <2>5. \E w \in Nat, a \in Nat, bytes \in Seq(RawByte) :
               /\ LeftBy(im, segs, request.entry, w, a, bytes)
               /\ TakenBy(segs, w, a, bytes)
               /\ {} = EditOf(a, bytes)
    BY <2>2, <2>3, <2>4, NothingLeft, Zenon
  <2> QED
    BY <1>4, <2>1, <2>5
<1>7. CASE SaveEdited
  <2>1. PICK ioff \in Offsets, bytes \in Payload :
          LET vaddr == ImageBase(im.segments) + ioff
          IN  \E i \in 1..Len(im.segments) :
                  /\ Writes(im.segments, i, vaddr, bytes)
                  /\ Layout!Restart(
                         [im EXCEPT !.segments = SegmentsWith(@, i, vaddr, bytes),
                                    !.sections = SectionsWith(@, vaddr, bytes)])
                  /\ edit' = {<<vaddr + k - 1, bytes[k]>> : k \in 1..Len(bytes)}
    BY <1>7 DEF SaveEdited
  <2> DEFINE a == ImageBase(im.segments) + ioff
  <2>2. bytes \in Seq(RawByte) /\ ioff \in Nat
    BY WritesAssumption
  <2>3. a \in Nat
    <3>1. ImageBase(im.segments) \in Nat
      BY <1>5, BaseIsAddress, BuilderConstants DEF U64
    <3> QED
      BY <2>2, <3>1
  <2> HIDE DEF a, im
  <2>4. PICK w \in 1..Len(im.segments) :
                  /\ Writes(im.segments, w, a, bytes)
                  /\ Layout!Restart(
                         [im EXCEPT !.segments = SegmentsWith(@, w, a, bytes),
                                    !.sections = SectionsWith(@, a, bytes)])
                  /\ edit' = {<<a + k - 1, bytes[k]>> : k \in 1..Len(bytes)}
    BY <2>1 DEF a
  <2> DEFINE new == [im EXCEPT !.segments = SegmentsWith(@, w, a, bytes),
                               !.sections = SectionsWith(@, a, bytes)]
  <2>5. image' = new
    BY <2>4 DEF Layout!Restart
  <2>6. new \in ElfImage
    BY <1>4, <2>2, <2>3, WrittenIsImage
  <2>7. new.header = im.header /\ new.segments = SegmentsWith(im.segments, w, a, bytes)
    BY <1>4 DEF ElfImage
  <2> HIDE DEF new
  <2>8. w \in 1..Len(segs) /\ w \in Nat
    BY <1>4, <1>5, <2>4
  <2>9. /\ LeftBy(new, segs, im.header.entry, w, a, bytes)
        /\ TakenBy(segs, w, a, bytes)
    BY <1>1, <1>4, <1>5, <2>2, <2>3, <2>4, <2>7, <2>8, WrittenIsLeft
  <2>10. edit' = EditOf(a, bytes)
    BY <2>4 DEF EditOf
  <2> QED
    BY <1>4, <2>2, <2>3, <2>5, <2>6, <2>8, <2>9, <2>10
<1> QED
  BY <1>1, <1>6, <1>7

(* Nothing has been written at first,                                        *)
LEMMA WrittenStarts == SessionInit => WrittenInv
BY DEF SessionInit, WrittenInv

(* and what has been is what the user wrote.                                 *)
LEMMA WrittenSteps == SessionInv /\ WrittenInv /\ [SessionNext]_allVars => WrittenInv'
<1> SUFFICES ASSUME SessionInv, WrittenInv, [SessionNext]_allVars PROVE WrittenInv'
  OBVIOUS
<1>1. [Next]_bvars
  BY DEF SessionNext, Request, BuildImage, Serialize, SaveAgain, allVars
<1>2. stage = "assembled" => UNCHANGED bvars
  BY <1>1 DEF Next, SetEntry, AddLoadAligned, AddLoad, AddTls, AddNote, AddRelocations,
     AddDynamicNeeded, Ask, TryBuild, AddNotes, CollectLibrary, AddDynamic, AddRela
<1>3. UNCHANGED bvars => segs' = segs /\ request' = request
  BY DEF bvars, lists
<1>4. pc # "idle" => stage = "assembled"
  BY DEF SessionInv
<1>5. ASSUME UNCHANGED <<image, user>>, pc' # "idle" => pc # "idle"
      PROVE  WrittenInv'
  <2>1. image' = image /\ file' = file /\ edit' = edit
    BY <1>5 DEF user
  <2>2. ASSUME pc' # "idle"
        PROVE  \E w \in Nat, a \in Nat, bytes \in Seq(RawByte) :
                   /\ LeftBy(image', segs', request'.entry, w, a, bytes)
                   /\ TakenBy(segs', w, a, bytes)
                   /\ edit' = EditOf(a, bytes)
    <3>1. pc # "idle" /\ segs' = segs /\ request' = request
      BY <1>2, <1>3, <1>4, <1>5, <2>2
    <3>2. \E w \in Nat, a \in Nat, bytes \in Seq(RawByte) :
               /\ LeftBy(image, segs, request.entry, w, a, bytes)
               /\ TakenBy(segs, w, a, bytes)
               /\ edit = EditOf(a, bytes)
      BY <3>1 DEF WrittenInv
    <3> QED
      BY <2>1, <3>1, <3>2
  <2> QED
    BY <2>1, <2>2 DEF WrittenInv
<1>6. CASE UNCHANGED <<lvars, user>>
  BY <1>5, <1>6 DEF lvars
<1>7. CASE BuildImage
  <2>1. pc = "idle" /\ Layout!Restart(Assembled) /\ UNCHANGED bvars
        /\ file' = file /\ edit' = edit
    BY <1>7 DEF BuildImage, user
  <2>2. image' = Assembled /\ file' = <<>> /\ edit' = {} /\ segs' = segs /\ request' = request
    BY <1>3, <2>1 DEF Layout!Restart, SessionInv, WrittenInv
  <2>3. segs \in Seq(Segment)
    BY DEF SessionInv, TypeOK
  <2>4. Assembled.header.entry = request.entry /\ Assembled.segments = segs
    BY DEF Assembled
  <2>5. Len(segs) \in Nat /\ Len(Assembled.segments) = Len(segs)
    BY <2>3, <2>4
  <2>7. \A i \in 1..Len(segs) :
            /\ Alike(Assembled.segments[i], segs[i])
            /\ Files!SegmentBytes(Assembled.segments[i]) = Files!SegmentBytes(segs[i])
    BY <2>4 DEF Alike
  <2> DEFINE im == Assembled
  <2>8. /\ im.header.entry = request.entry /\ Len(im.segments) = Len(segs)
        /\ \A i \in 1..Len(segs) :
            /\ Alike(im.segments[i], segs[i])
            /\ Files!SegmentBytes(im.segments[i]) = Files!SegmentBytes(segs[i])
    BY <2>4, <2>5, <2>7
  <2> HIDE DEF im
  <2>6. \E w \in Nat, a \in Nat, bytes \in Seq(RawByte) :
               /\ LeftBy(im, segs, request.entry, w, a, bytes)
               /\ TakenBy(segs, w, a, bytes)
               /\ {} = EditOf(a, bytes)
    BY <2>5, <2>8, NothingLeft, Zenon
  <2> QED
    BY <2>2, <2>6 DEF WrittenInv, im
<1>8. CASE Serialize
  <2>1. Layout!Next /\ UNCHANGED user
    BY <1>8 DEF Serialize
  <2>2. pc # "idle" /\ UNCHANGED <<image, user>>
    BY <2>1 DEF Layout!Next, Layout!SkipSegment, Layout!PlaceSegment,
       Layout!EnsureShstrtab, Layout!CollectName, Layout!AssignNames, Layout!SkipSection,
       Layout!PlaceSection, Layout!SectionsPlaced, Layout!WriteProgramHeaders,
       Layout!FillHeader, Layout!WriteSectionHeaders, Layout!WriteHeader,
       Layout!Returned, Layout!Fail, Layout!vars
  <2> QED
    BY <1>5, <2>2
<1>9. CASE SaveAgain
  <2>1. file' = out /\ UNCHANGED bvars /\ pc = "done"
    BY <1>9 DEF SaveAgain
  <2>2. out # <<>>
    <3>1. Parses(out)
      BY <1>9 DEF SaveAgain
    <3>2. EhSize <= Len(out)
      BY <3>1, FormatAssumption DEF Parses, Decodes, Readable
    <3>3. Len(<<>>) = 0
      OBVIOUS
    <3> QED
      BY <3>2, <3>3, FormatAssumption
  <2>3. segs' = segs /\ request' = request
    BY <1>3, <2>1
  <2> QED
    BY <1>9, <2>1, <2>2, <2>3, SavedAgainIsLeft DEF WrittenInv
<1> QED
  BY <1>6, <1>7, <1>8, <1>9 DEF SessionNext, Request, allVars

-----------------------------------------------------------------------------
(* What a read of memory finds.                                              *)

(* A load asked for is a segment of its bytes.                               *)
LEMMA LoadAsked ==
    ASSUME TypeOK, AskedInv, stage # "asking", NEW i \in 1..Len(request.loads)
    PROVE  LET load == request.loads[i]
           IN  /\ i \in 1..Len(segs) /\ IsLoad(segs[i])
               /\ load.data \in Seq(RawByte) /\ Len(load.data) \in Nat /\ load.vaddr \in Nat
               /\ segs[i].header.vaddr = load.vaddr
               /\ segs[i].header.memsz = Len(load.data)
               /\ Files!SegmentBytes(segs[i]) = load.data
<1> DEFINE load == request.loads[i]
<1>1. request \in Requests /\ segs \in Seq(Segment) /\ LoadSegments \in Seq(Segment)
      /\ TemplateSegments \in Seq(Segment)
  BY AskedAreSegments DEF TypeOK
<1>2. load \in LoadSpec
  BY <1>1 DEF Requests
<1>3. /\ load.data \in Seq(RawByte) /\ Len(load.data) \in U64 /\ load.vaddr \in U64
  BY <1>2 DEF LoadSpec, Vec
<1>4. Len(load.data) \in Nat /\ load.vaddr \in Nat /\ load.data \in Seq(Byte)
  BY <1>3, BuilderConstants, RawBytesAreBytes DEF U64
<1>5. LoadSegments[i] = NewSegment("LOAD", load.vaddr, SizeOf(load.data), load.align, load.data)
      /\ Len(LoadSegments) = Len(request.loads)
  BY <1>1 DEF LoadSegments, Requests
<1> HIDE DEF load
<1>6. segs[i] = LoadSegments[i] /\ i \in 1..Len(segs)
  <2> DEFINE asked == LoadSegments \o TemplateSegments
  <2>1. i \in 1..Len(LoadSegments) /\ Len(LoadSegments) \in Nat /\ Len(TemplateSegments) \in Nat
    BY <1>1, <1>5
  <2>2. asked[i] = LoadSegments[i] /\ Len(asked) = Len(LoadSegments) + Len(TemplateSegments)
    BY <1>1, <2>1
  <2>3. i \in 1..Len(asked)
    BY <2>1, <2>2
  <2>4. Len(asked) <= Len(segs) /\ segs[i] = asked[i]
    BY <2>3 DEF AskedInv
  <2>5. Len(segs) \in Nat /\ Len(asked) \in Nat
    BY <1>1, <2>1, <2>2
  <2> HIDE DEF asked
  <2> QED
    BY <2>2, <2>3, <2>4, <2>5
<1>7. SizeOf(load.data) = Len(load.data)
  BY <1>3 DEF SizeOf
<1>8. /\ segs[i].header.type = "LOAD" /\ segs[i].header.vaddr = load.vaddr
      /\ segs[i].header.memsz = Len(load.data) /\ segs[i].header.filesz = Len(load.data)
      /\ segs[i].data = load.data
  BY <1>5, <1>6, <1>7 DEF NewSegment
<1>9. Files!SegmentBytes(segs[i]) = load.data
  BY <1>4, <1>8, WholeSegment
<1> QED
  BY <1>3, <1>4, <1>6, <1>8, <1>9 DEF IsLoad, load

(* A read of a whole segment that none before it covers finds its bytes.     *)
LEMMA WholeRead ==
    ASSUME NEW s \in Seq(Segment), NEW i \in 1..Len(s), NEW vaddr \in U64,
           s[i].header.vaddr = vaddr, IsFirstSegment(s, i, vaddr), NEW n, n = Len(s[i].data)
    PROVE  ReadIoff(s, vaddr - ImageBase(s), n) = {s[i].data}
<1>1. ImageBase(s) \in Nat /\ vaddr \in Nat /\ vaddr <= U64Max
  BY BaseIsAddress, BuilderConstants DEF U64
<1>2. ImageBase(s) + (vaddr - ImageBase(s)) = vaddr
  BY <1>1
<1>3. s[i] \in Segment
  OBVIOUS
<1>4. s[i].data \in Seq(Byte)
  BY <1>3 DEF Segment
<1>5. BytesFrom(s[i], vaddr - s[i].header.vaddr, n) = s[i].data
  <2> DEFINE data == s[i].data
  <2>1. vaddr - s[i].header.vaddr = 0
    BY <1>1
  <2>2. n \in Nat /\ n = Len(data) /\ data \in Seq(Byte)
    BY <1>4
  <2>3. \A k \in 1..n : 0 + k = k /\ k <= n
    BY <2>2
  <2>4. BytesFrom(s[i], 0, n) = [k \in 1..n |-> data[k]]
    BY <2>2, <2>3 DEF BytesFrom
  <2>5. [k \in 1..n |-> data[k]] = data
    BY <2>2
  <2> QED
    BY <2>1, <2>4, <2>5
<1>6. \A j \in 1..Len(s) : IsFirstSegment(s, j, vaddr) => j = i
  <2>1. ASSUME NEW j \in 1..Len(s), IsFirstSegment(s, j, vaddr) PROVE j = i
    <3>1. ~(i \in 1..(j - 1)) /\ ~(j \in 1..(i - 1))
      BY <2>1 DEF IsFirstSegment
    <3>2. Len(s) \in Nat
      OBVIOUS
    <3> QED
      BY <3>1, <3>2
  <2> QED
    BY <2>1
<1> QED
  BY <1>1, <1>2, <1>5, <1>6 DEF ReadIoff

ReadIs(s, ioff, n, data) == ReadIoff(s, ioff, n) = {data}

(* The same, of whether the read gives the data.                             *)
LEMMA WholeReadIs ==
    ASSUME NEW s \in Seq(Segment), NEW i \in 1..Len(s), NEW vaddr \in U64,
           s[i].header.vaddr = vaddr, IsFirstSegment(s, i, vaddr), NEW n, n = Len(s[i].data)
    PROVE  ReadIs(s, vaddr - ImageBase(s), n, s[i].data)
BY WholeRead DEF ReadIs

(* A load the user has written into.                                         *)
LEMMA WrittenLoad ==
    ASSUME NEW load, load.data \in Seq(RawByte), load.vaddr \in Nat, NEW a \in Nat,
           NEW bytes \in Seq(RawByte), edit = EditOf(a, bytes)
    PROVE  AsLeft(load) = Copied(load.data, a - load.vaddr, bytes)
<1> DEFINE v == load.vaddr
           n == Len(load.data)
           m == Len(bytes)
           at(k) == IF \E w \in edit : w[1] = v + k - 1
                    THEN (CHOOSE w \in edit : w[1] = v + k - 1)[2] ELSE load.data[k]
<1>1. v \in Nat /\ n \in Nat /\ m \in Nat
  OBVIOUS
<1>2. ASSUME NEW k \in 1..n
      PROVE  at(k) = IF a - v < k /\ k <= (a - v) + m THEN bytes[k - (a - v)] ELSE load.data[k]
  <2> DEFINE j == k - (a - v)
             w == <<v + k - 1, bytes[j]>>
  <2>1. \A x \in edit : x[1] = v + k - 1 => x = w /\ j \in 1..m
    <3>1. ASSUME NEW l \in 1..m, a + l - 1 = v + k - 1 PROVE l = j
      BY <1>1, <3>1
    <3>2. ASSUME NEW x \in edit, x[1] = v + k - 1 PROVE x = w /\ j \in 1..m
      <4>1. PICK l \in 1..m : x = <<a + l - 1, bytes[l]>>
        BY <3>2 DEF EditOf
      <4>2. a + l - 1 = v + k - 1
        BY <3>2, <4>1
      <4>3. l = j
        BY <3>1, <4>2
      <4> QED
        BY <4>1, <4>2, <4>3
    <3> QED
      BY <3>2
  <2>2. j \in 1..m => w \in edit
    <3>1. v + k - 1 = a + j - 1
      BY <1>1
    <3> QED
      BY <3>1 DEF EditOf
  <2>3. w[1] = v + k - 1 /\ w[2] = bytes[j]
    OBVIOUS
  <2>4. j \in 1..m <=> (a - v < k /\ k <= (a - v) + m)
    BY <1>1
  <2> HIDE DEF j, w
  <2>5. CASE j \in 1..m
    <3>1. w \in edit /\ w[1] = v + k - 1
      BY <2>2, <2>3, <2>5
    <3>2. (CHOOSE x \in edit : x[1] = v + k - 1) = w
      BY <2>1, <3>1
    <3>3. at(k) = w[2]
      BY <3>1, <3>2
    <3> QED
      BY <2>3, <2>4, <2>5, <3>3 DEF j
  <2>6. CASE ~(j \in 1..m)
    <3>1. ~ \E x \in edit : x[1] = v + k - 1
      BY <2>1, <2>6
    <3> QED
      BY <2>4, <2>6, <3>1
  <2> QED
    BY <2>5, <2>6
<1>3. AsLeft(load) = [k \in 1..n |-> at(k)]
  BY DEF AsLeft
<1> HIDE DEF at
<1>4. Copied(load.data, a - v, bytes) =
          [k \in 1..n |-> IF a - v < k /\ k <= (a - v) + m THEN bytes[k - (a - v)]
                          ELSE load.data[k]]
  BY DEF Copied
<1> QED
  BY <1>2, <1>3, <1>4

(* A load the user has written beside.                                       *)
LEMMA UnwrittenLoad ==
    ASSUME NEW load, load.data \in Seq(RawByte), load.vaddr \in Nat,
           \A w \in edit : ~LoadHolds(load, w[1])
    PROVE  AsLeft(load) = load.data
<1>1. Len(load.data) \in Nat
  OBVIOUS
<1>2. ASSUME NEW k \in 1..Len(load.data) PROVE ~ \E w \in edit : w[1] = load.vaddr + k - 1
  <2>1. LoadHolds(load, load.vaddr + k - 1)
    BY <1>1 DEF LoadHolds
  <2> QED
    BY <2>1
<1>3. AsLeft(load) = [k \in 1..Len(load.data) |-> load.data[k]]
  BY <1>2 DEF AsLeft
<1>4. [k \in 1..Len(load.data) |-> load.data[k]] = load.data
  OBVIOUS
<1> QED
  BY <1>3, <1>4

(* What the finished file holds of the segments assembled.                   *)
Holds(s, w, a, bytes) ==
    /\ s \in Seq(Segment) /\ Len(s) = Len(segs)
    /\ \A i \in 1..Len(segs) :
           /\ Alike(s[i], segs[i])
           /\ s[i].data = IF i = w
                          THEN Copied(Files!SegmentBytes(segs[i]), a - segs[i].header.vaddr, bytes)
                          ELSE Files!SegmentBytes(segs[i])
           /\ s[i].header.filesz = Len(s[i].data)

(* It holds them with what the user has written over them.                   *)
LEMMA BuiltHolds ==
    ASSUME SessionInv, WrittenInv, pc = "done"
    PROVE  /\ Parses(out) /\ Built.header.entry = request.entry
           /\ \E w \in Nat, a \in Nat, bytes \in Seq(RawByte) :
                  /\ Holds(Built.segments, w, a, bytes)
                  /\ TakenBy(segs, w, a, bytes)
                  /\ edit = EditOf(a, bytes)
<1>1. CallInv /\ segs \in Seq(Segment) /\ NoNull
  BY DEF SessionInv, TypeOK
<1>2. PICK w \in Nat, a \in Nat, bytes \in Seq(RawByte) :
          /\ LeftBy(image, segs, request.entry, w, a, bytes)
          /\ TakenBy(segs, w, a, bytes)
          /\ edit = EditOf(a, bytes)
  BY DEF WrittenInv
<1>3. /\ image.header.entry = request.entry /\ Len(image.segments) = Len(segs)
      /\ \A i \in 1..Len(segs) :
             /\ Alike(image.segments[i], segs[i])
             /\ Files!SegmentBytes(image.segments[i]) =
                    IF i = w
                    THEN Copied(Files!SegmentBytes(segs[i]), a - segs[i].header.vaddr, bytes)
                    ELSE Files!SegmentBytes(segs[i])
  BY <1>2 DEF LeftBy
<1>4. \A i \in 1..Len(image.segments) : image.segments[i].header.type # "NULL"
  BY <1>1, <1>3 DEF Alike, NoNull
<1> DEFINE im == Parsed(out)
<1>5. /\ Parses(out) /\ im \in ElfImage
      /\ im.header.entry = image.header.entry
      /\ Len(im.segments) = Len(image.segments)
      /\ \A i \in 1..Len(image.segments) :
             /\ Alike(im.segments[i], image.segments[i])
             /\ im.segments[i].data = Files!SegmentBytes(image.segments[i])
             /\ im.segments[i].header.filesz = Len(im.segments[i].data)
  BY <1>1, <1>4, SegmentsRead
<1>6. im = Built
  BY DEF Built
<1> HIDE DEF im
<1>7. ASSUME NEW i \in 1..Len(segs) PROVE Alike(im.segments[i], segs[i])
  BY <1>3, <1>5 DEF Alike
<1>8. Holds(im.segments, w, a, bytes)
  <2>1. im.segments \in Seq(Segment)
    BY <1>5 DEF ElfImage
  <2> QED
    BY <1>3, <1>5, <1>7, <2>1 DEF Holds
<1> QED
  BY <1>2, <1>3, <1>5, <1>6, <1>8

(* A load is found as the user left it.                                      *)
LEMMA LoadReported ==
    ASSUME TypeOK, AskedInv, stage # "asking", NEW s, NEW w \in Nat, NEW a \in Nat,
           NEW bytes \in Seq(RawByte), Holds(s, w, a, bytes), TakenBy(segs, w, a, bytes),
           edit = EditOf(a, bytes), NEW i \in 1..Len(request.loads), NEW load,
           load = request.loads[i],
           load.data # <<>>, load.vaddr + Len(load.data) <= U64Max,
           \A j \in 1..(i - 1) : \A x \in {load.vaddr} \cup {v[1] : v \in edit} :
               ~SegmentContains(s[j], x),
           \A v, x \in edit : LoadHolds(load, v[1]) => LoadHolds(load, x[1])
    PROVE  ReadIoff(s, load.vaddr - ImageBase(s), Len(load.data)) = {AsLeft(load)}
<1>1. /\ i \in 1..Len(segs) /\ IsLoad(segs[i])
      /\ load.data \in Seq(RawByte) /\ Len(load.data) \in Nat /\ load.vaddr \in Nat
      /\ segs[i].header.vaddr = load.vaddr
      /\ segs[i].header.memsz = Len(load.data)
      /\ Files!SegmentBytes(segs[i]) = load.data
  BY LoadAsked
<1>2. s \in Seq(Segment) /\ Len(s) = Len(segs) /\ i \in 1..Len(s) /\ Len(segs) \in Nat
  BY <1>1 DEF Holds, TypeOK
<1>3. \A j \in 1..Len(segs) : Alike(s[j], segs[j])
  BY DEF Holds
<1>4. s[i].header.vaddr = load.vaddr /\ s[i].header.memsz = Len(load.data)
      /\ s[i].header.type = "LOAD"
  BY <1>1, <1>3 DEF Alike, IsLoad
<1>5. Len(load.data) > 0
  <2>1. load.data # <<>>
    OBVIOUS
  <2> QED
    BY <1>1, <2>1
<1>6. U64Max \in Nat /\ SatAdd(load.vaddr, Len(load.data)) = load.vaddr + Len(load.data)
  <2>1. U64Max \in Nat
    BY BuilderConstants
  <2> QED
    BY <1>1, <2>1 DEF SatAdd
<1>7. \A x : SegmentContains(s[i], x) <=> LoadHolds(load, x)
  BY <1>4, <1>6 DEF SegmentContains, LoadHolds
<1>8. IsFirstSegment(s, i, load.vaddr)
  <2>1. LoadHolds(load, load.vaddr)
    BY <1>1, <1>5 DEF LoadHolds
  <2>2. SegmentContains(s[i], load.vaddr)
    BY <1>7, <2>1
  <2>3. \A j \in 1..(i - 1) : ~SegmentContains(s[j], load.vaddr)
    OBVIOUS
  <2> QED
    BY <2>2, <2>3 DEF IsFirstSegment
<1>9. load.vaddr \in U64
  BY <1>1, <1>5, <1>6 DEF U64
<1>10. s[i].data = IF i = w THEN Copied(load.data, a - load.vaddr, bytes) ELSE load.data
  BY <1>1 DEF Holds
<1>11. Len(s[i].data) = Len(load.data)
  <2>1. load.data \in Seq(Byte) /\ a - load.vaddr \in Int
    BY <1>1, RawBytesAreBytes
  <2> QED
    BY <1>10, <2>1, CopiedType
<1>12. s[i].data = AsLeft(load)
  <2>1. CASE i = w
    BY <1>1, <1>10, <2>1, WrittenLoad
  <2>2. CASE i # w
    <3>1. ASSUME NEW v \in edit, LoadHolds(load, v[1]) PROVE FALSE
      <4>1. PICK l \in 1..Len(bytes) : v = <<a + l - 1, bytes[l]>>
        BY <3>1 DEF EditOf
      <4>2. Len(bytes) \in Nat /\ 1 \in 1..Len(bytes) /\ bytes # <<>>
        <5>1. Len(bytes) \in Nat /\ l <= Len(bytes) /\ 1 <= l
          BY <4>1
        <5>2. Len(<<>>) = 0
          OBVIOUS
        <5> QED
          BY <5>1, <5>2
      <4> DEFINE first == <<a + 1 - 1, bytes[1]>>
      <4>3. first \in edit /\ first[1] = a
        BY <4>2 DEF EditOf
      <4> HIDE DEF first
      <4>4. LoadHolds(load, a)
        BY <3>1, <4>3
      <4>5. w \in 1..Len(segs) /\ IsFirstLoad(segs, w, a)
        BY <4>2 DEF TakenBy
      <4>6. IsFirstLoad(s, w, a)
        BY <1>2, <1>3, <4>5, AlikeCover
      <4>7. CoversLoaded(s[i], a)
        BY <1>4, <1>7, <4>4 DEF CoversLoaded, IsLoad
      <4>8. \A j \in 1..(i - 1) : ~SegmentContains(s[j], a)
        BY <4>3
      <4>9. ~(w \in 1..(i - 1)) /\ ~(i \in 1..(w - 1))
        BY <4>6, <4>7, <4>8 DEF IsFirstLoad, CoversLoaded
      <4> QED
        BY <1>1, <1>2, <2>2, <4>5, <4>9
    <3>2. AsLeft(load) = load.data
      BY <1>1, <3>1, UnwrittenLoad
    <3>3. s[i].data = load.data
      BY <1>10, <2>2, Zenon
    <3> QED
      BY <3>2, <3>3, Zenon
  <2> QED
    BY <2>1, <2>2
<1>13. ReadIs(s, load.vaddr - ImageBase(s), Len(load.data), s[i].data)
  <2>1. /\ s \in Seq(Segment) /\ i \in 1..Len(s) /\ load.vaddr \in U64
        /\ s[i].header.vaddr = load.vaddr /\ IsFirstSegment(s, i, load.vaddr)
        /\ Len(load.data) = Len(s[i].data)
    BY <1>2, <1>4, <1>8, <1>9, <1>11
  <2> QED
    BY <2>1, WholeReadIs, Zenon
<1> QED
  BY <1>12, <1>13, Zenon DEF ReadIs

(* The template is the segment behind the loads, and no other is one.        *)
LEMMA TemplateAsked ==
    ASSUME TypeOK, AskedInv, stage # "asking"
    PROVE  /\ \A i \in 1..Len(segs) :
                  segs[i].header.type = "TLS" =>
                      request.tls # {} /\ i = Len(request.loads) + 1
           /\ \A t \in request.tls :
                  /\ Len(request.loads) + 1 \in 1..Len(segs)
                  /\ segs[Len(request.loads) + 1] = TlsSegment(t)
                  /\ request.tls = {t}
<1> DEFINE asked == LoadSegments \o TemplateSegments
           n     == Len(request.loads)
           k     == Len(TemplateSegments)
<1>1. request \in Requests /\ segs \in Seq(Segment) /\ LoadSegments \in Seq(Segment)
      /\ TemplateSegments \in Seq(Segment)
  BY AskedAreSegments DEF TypeOK
<1>2. n \in Nat /\ Len(LoadSegments) = n /\ \A i \in 1..n : LoadSegments[i].header.type = "LOAD"
  <2>1. n \in Nat
    BY <1>1 DEF Requests
  <2> QED
    BY <2>1 DEF LoadSegments, NewSegment
<1>3. /\ k \in Nat /\ Len(asked) = n + k /\ asked \in Seq(Segment)
      /\ \A i \in 1..n : asked[i] = LoadSegments[i]
      /\ \A i \in (n + 1)..(n + k) : asked[i] = TemplateSegments[i - n]
  <2> DEFINE l == LoadSegments
             m == TemplateSegments
  <2>1. l \in Seq(Segment) /\ m \in Seq(Segment) /\ Len(l) = n /\ n \in Nat
    BY <1>1, <1>2
  <2> HIDE DEF l, m, n
  <2>2. Len(l \o m) = Len(l) + Len(m) /\ l \o m \in Seq(Segment) /\ Len(m) \in Nat
    BY <2>1
  <2>3. \A i \in 1..Len(l) : (l \o m)[i] = l[i]
    BY <2>1
  <2>4. \A i \in (Len(l) + 1)..(Len(l) + Len(m)) : (l \o m)[i] = m[i - Len(l)]
    BY <2>1
  <2> QED
    BY <2>1, <2>2, <2>3, <2>4 DEF l, m
<1>4. /\ Len(asked) <= Len(segs) /\ \A i \in 1..Len(asked) : segs[i] = asked[i]
      /\ \A i \in (Len(asked) + 1)..Len(segs) : segs[i].header.type \in {"NOTE", "DYNAMIC"}
  BY DEF AskedInv
<1>5. \A s, t \in request.tls : s = t
  BY DEF AskedInv
<1>6. Len(segs) \in Nat
  BY <1>1
<1>7. request.tls = {} => k = 0
  <2>1. Len(<<>>) = 0
    OBVIOUS
  <2> QED
    BY <2>1 DEF TemplateSegments
<1>8. ASSUME NEW t \in request.tls
      PROVE  k = 1 /\ TemplateSegments[1] = TlsSegment(t) /\ request.tls = {t}
  <2> DEFINE u == CHOOSE x \in request.tls : TRUE
  <2>1. u \in request.tls
    BY <1>8
  <2>2. u = t
    BY <1>5, <2>1
  <2>3. TemplateSegments = <<TlsSegment(u)>>
    BY <1>8 DEF TemplateSegments
  <2> HIDE DEF u
  <2>4. request.tls = {t}
    BY <1>5, <1>8
  <2> QED
    BY <2>2, <2>3, <2>4
<1> HIDE DEF asked, n, k
<1>9. ASSUME NEW i \in 1..Len(segs), segs[i].header.type = "TLS"
      PROVE  request.tls # {} /\ i = n + 1
  <2>1. ~(i \in 1..n)
    <3>1. ASSUME i \in 1..n PROVE FALSE
      <4>1. i \in 1..Len(asked)
        BY <1>2, <1>3, <3>1
      <4>2. segs[i] = LoadSegments[i]
        BY <1>3, <1>4, <3>1, <4>1
      <4> QED
        BY <1>2, <1>9, <3>1, <4>2
    <3> QED
      BY <3>1
  <2>2. ~(i \in (Len(asked) + 1)..Len(segs))
    <3>1. ~("TLS" \in {"NOTE", "DYNAMIC"})
      OBVIOUS
    <3> QED
      BY <1>4, <1>9, <3>1
  <2>3. i \in (n + 1)..(n + k)
    BY <1>2, <1>3, <1>6, <2>1, <2>2
  <2>4. k # 0
    BY <1>2, <1>3, <2>3
  <2>5. request.tls # {}
    BY <1>7, <2>4
  <2>6. k = 1
    BY <1>8, <2>5
  <2> QED
    BY <1>2, <2>3, <2>5, <2>6
<1>10. ASSUME NEW t \in request.tls
       PROVE  n + 1 \in 1..Len(segs) /\ segs[n + 1] = TlsSegment(t) /\ request.tls = {t}
  <2>1. n + 1 \in 1..Len(asked) /\ n + 1 \in (n + 1)..(n + k) /\ (n + 1) - n = 1
    BY <1>2, <1>3, <1>8
  <2>2. segs[n + 1] = TlsSegment(t)
    BY <1>3, <1>4, <1>8, <2>1
  <2> QED
    BY <1>2, <1>3, <1>4, <1>6, <1>8, <2>1, <2>2
<1> QED
  BY <1>9, <1>10 DEF n

(* The template is found as it was asked for.                                *)
LEMMA TemplateReported ==
    ASSUME TypeOK, AskedInv, stage # "asking", NEW im, NEW w \in Nat, NEW a \in Nat,
           NEW bytes \in Seq(RawByte), Holds(im.segments, w, a, bytes)
    PROVE  Tls(im) = {[vaddr |-> t.vaddr, filesz |-> Len(t.data), memsz |-> t.memsz,
                       align |-> t.align] : t \in request.tls}
<1> DEFINE s == im.segments
           k == Len(request.loads) + 1
<1>1. /\ s \in Seq(Segment) /\ Len(s) = Len(segs)
      /\ \A i \in 1..Len(segs) : Alike(s[i], segs[i])
  BY DEF Holds
<1>2. /\ \A i \in 1..Len(segs) :
             segs[i].header.type = "TLS" => request.tls # {} /\ i = k
      /\ \A t \in request.tls :
             k \in 1..Len(segs) /\ segs[k] = TlsSegment(t) /\ request.tls = {t}
  BY TemplateAsked
<1>3. \A i \in 1..Len(s) : s[i].header.type = segs[i].header.type
  BY <1>1 DEF Alike
<1>4. CASE request.tls = {}
  <2>1. FirstSegment(im, "TLS") = {}
    BY <1>1, <1>2, <1>3, <1>4 DEF FirstSegment
  <2> QED
    BY <1>4, <2>1 DEF Tls
<1>5. ASSUME NEW t \in request.tls
      PROVE  Tls(im) = {[vaddr |-> u.vaddr, filesz |-> Len(u.data), memsz |-> u.memsz,
                         align |-> u.align] : u \in request.tls}
  <2>1. k \in 1..Len(segs) /\ segs[k] = TlsSegment(t) /\ request.tls = {t}
    BY <1>2
  <2>2. t \in TlsSpec
    BY DEF TypeOK, Requests
  <2>3. t.data \in Seq(RawByte) /\ Len(t.data) \in U64 /\ t.vaddr \in U64
    BY <2>2 DEF TlsSpec, Vec
  <2>4. /\ segs[k].header.type = "TLS" /\ segs[k].header.vaddr = t.vaddr
        /\ segs[k].header.memsz = t.memsz /\ segs[k].header.align = t.align
        /\ segs[k].header.filesz = Len(t.data) /\ segs[k].data = t.data
    BY <2>1, <2>3 DEF TlsSegment, NewSegment, SizeOf
  <2>5. Files!SegmentBytes(segs[k]) = t.data
    BY <2>3, <2>4, RawBytesAreBytes, WholeSegment
  <2>6. Len(s[k].data) = Len(t.data)
    <3>1. t.data \in Seq(Byte) /\ a - t.vaddr \in Int
      BY <2>3, RawBytesAreBytes, BuilderConstants DEF U64
    <3>2. s[k].data = IF k = w THEN Copied(t.data, a - t.vaddr, bytes) ELSE t.data
      BY <2>1, <2>4, <2>5 DEF Holds
    <3> HIDE DEF k, s
    <3> QED
      BY <3>1, <3>2, CopiedType
  <2>7. /\ s[k].header.vaddr = t.vaddr /\ s[k].header.memsz = t.memsz
        /\ s[k].header.align = t.align /\ s[k].header.filesz = Len(t.data)
        /\ s[k].header.type = "TLS"
    <3>1. Alike(s[k], segs[k]) /\ s[k].header.filesz = Len(s[k].data)
      BY <2>1 DEF Holds
    <3> HIDE DEF k, s
    <3> QED
      BY <2>4, <2>6, <3>1 DEF Alike
  <2>8. FirstSegment(im, "TLS") = {s[k]}
    <3>1. \A i \in 1..Len(s) : s[i].header.type = "TLS" => i = k
      BY <1>1, <1>2, <1>3
    <3>2. k \in 1..Len(s) /\ Len(s) \in Nat
      BY <1>1, <2>1
    <3>3. FirstSegment(im, "TLS") =
              {s[i] : i \in {j \in 1..Len(s) :
                  s[j].header.type = "TLS" /\ \A l \in 1..(j - 1) : s[l].header.type # "TLS"}}
      BY DEF FirstSegment
    <3> HIDE DEF k, s
    <3>4. \A l \in 1..(k - 1) : s[l].header.type # "TLS"
      BY <3>1, <3>2
    <3> QED
      BY <2>7, <3>1, <3>2, <3>3, <3>4
  <2> HIDE DEF s, k
  <2> QED
    BY <2>1, <2>7, <2>8 DEF Tls
<1> QED
  BY <1>4, <1>5

(* So memory is as it was asked for.                                         *)
LEMMA MemoryIsReported == SessionInv /\ AskedInv /\ WrittenInv => MemoryReported
<1> SUFFICES ASSUME SessionInv, AskedInv, WrittenInv, pc = "done"
             PROVE  /\ Parses(out)
                    /\ Built.header.entry = request.entry
                    /\ \A i \in 1..Len(request.loads) :
                           LET load == request.loads[i]
                           IN  /\ load.data # <<>> /\ load.vaddr + Len(load.data) <= U64Max
                               /\ \A j \in 1..(i - 1) :
                                      \A a \in {load.vaddr} \cup {w[1] : w \in edit} :
                                          ~SegmentContains(Built.segments[j], a)
                               /\ \A v, w \in edit : LoadHolds(load, v[1]) => LoadHolds(load, w[1])
                               => ReadIoff(Built.segments,
                                           load.vaddr - ImageBase(Built.segments),
                                           Len(load.data)) = {AsLeft(load)}
                    /\ Tls(Built) = {[vaddr |-> t.vaddr, filesz |-> Len(t.data),
                                      memsz |-> t.memsz, align |-> t.align] : t \in request.tls}
  BY DEF MemoryReported
<1>1. TypeOK /\ stage # "asking"
  BY DEF SessionInv
<1>2. Parses(out) /\ Built.header.entry = request.entry
  BY BuiltHolds
<1>3. PICK w \in Nat, a \in Nat, bytes \in Seq(RawByte) :
          /\ Holds(Built.segments, w, a, bytes)
          /\ TakenBy(segs, w, a, bytes)
          /\ edit = EditOf(a, bytes)
  BY BuiltHolds
<1>4. Tls(Built) = {[vaddr |-> t.vaddr, filesz |-> Len(t.data), memsz |-> t.memsz,
                     align |-> t.align] : t \in request.tls}
  BY <1>1, <1>3, TemplateReported
<1> DEFINE s == Built.segments
<1> HIDE DEF s
<1>5. ASSUME NEW i \in 1..Len(request.loads), NEW load, load = request.loads[i],
             load.data # <<>>, load.vaddr + Len(load.data) <= U64Max,
             \A j \in 1..(i - 1) : \A x \in {load.vaddr} \cup {v[1] : v \in edit} :
                 ~SegmentContains(s[j], x),
             \A v, x \in edit : LoadHolds(load, v[1]) => LoadHolds(load, x[1])
      PROVE  ReadIoff(s, load.vaddr - ImageBase(s), Len(load.data)) = {AsLeft(load)}
  <2>1. Holds(s, w, a, bytes)
    BY <1>3 DEF s
  <2> QED
    BY <1>1, <1>3, <1>5, <2>1, LoadReported
<1> QED
  BY <1>2, <1>4, <1>5 DEF s

(* Whatever is asked for and wherever the user writes, every loadable        *)
(* segment is found where it was asked for, with its bytes or those written  *)
(* over them, and the template and the entry point are those asked for       *)
(* (builder.rs:228-262, inspect.rs:93-118, tls.rs:24-31).                    *)
THEOREM MemoryIsAsAskedFor == SessionSpec => []MemoryReported
<1>1. SessionInit => SessionInv /\ AskedInv /\ WrittenInv
  BY SessionStarts, WrittenStarts, AskedInit DEF SessionInit
<1>2. SessionInv /\ AskedInv /\ WrittenInv /\ [SessionNext]_allVars
          => (SessionInv /\ AskedInv /\ WrittenInv)'
  <2>1. [SessionNext]_allVars => [Next]_bvars
    BY DEF SessionNext, Request, BuildImage, Serialize, SaveAgain, allVars
  <2>2. SessionInv => TypeOK
    BY DEF SessionInv
  <2> QED
    BY <2>1, <2>2, SessionSteps, WrittenSteps, AskedStep
<1> QED
  BY <1>1, <1>2, MemoryIsReported, PTL DEF SessionSpec

-----------------------------------------------------------------------------
(* The lists as try_build makes them.                                        *)

FrontSegments == (LoadSegments \o TemplateSegments) \o NoteSegments
FrontSections == <<NullSection>> \o NoteSections

DynamicSegments ==
    IF request.needed = <<>> THEN <<>>
    ELSE <<NewSegment("DYNAMIC", 0, SizeOf(DynamicTable), 8, DynamicTable)>>
DynamicSections ==
    IF request.needed = <<>> THEN <<>>
    ELSE <<NewSection(Dynstr, "STRTAB", TRUE, 1, dynstr),
           NewSection(Dynamic, "DYNAMIC", TRUE, 8, DynamicTable)>>
RelaSections ==
    IF request.relocations = <<>> THEN <<>>
    ELSE <<NewSection(RelaDyn, "RELA", FALSE, 8, RelaTable)>>

ListsInv ==
    /\ stage = "notes" =>
           segs = LoadSegments \o TemplateSegments /\ secs = <<NullSection>>
    /\ stage = "dynamic" =>
           request.needed # <<>> /\ segs = FrontSegments /\ secs = FrontSections
    /\ stage \in {"rela", "assembled"} =>
           /\ segs = FrontSegments \o DynamicSegments
           /\ request.needed # <<>> => Len(nameOffsets) = Len(request.needed)
    /\ stage = "rela" => secs = FrontSections \o DynamicSections
    /\ stage = "assembled" => secs = (FrontSections \o DynamicSections) \o RelaSections

(* Each list is added behind those before it.                                *)
LEMMA ListsStep == TypeOK /\ ListsInv /\ [Next]_bvars => ListsInv'
<1> SUFFICES ASSUME TypeOK, ListsInv, [Next]_bvars PROVE ListsInv'
  OBVIOUS
<1>1. ASSUME request' = request
      PROVE  /\ LoadSegments' = LoadSegments /\ TemplateSegments' = TemplateSegments
             /\ NoteSegments' = NoteSegments /\ NoteSections' = NoteSections
             /\ NullSection' = NullSection /\ RelaSections' = RelaSections
  <2>1. LoadSegments' = LoadSegments
    BY <1>1 DEF LoadSegments
  <2>2. TemplateSegments' = TemplateSegments
    BY <1>1 DEF TemplateSegments
  <2>3. NoteSegments' = NoteSegments
    BY <1>1, Zenon DEF NoteSegments, SerializeNote, Order
  <2>4. NoteSections' = NoteSections
    BY <1>1, Zenon DEF NoteSections, SerializeNote, Order
  <2>5. NullSection' = NullSection
    BY DEF NullSection
  <2>6. RelaTable' = RelaTable
    <3>1. Class' = Class /\ Order' = Order
      BY <1>1 DEF Class, Order
    <3> QED
      BY <1>1, <3>1, SMT DEF RelaTable, Serialized, Info, Addend
  <2>7. RelaSections' = RelaSections
    BY <1>1, <2>6 DEF RelaSections
  <2> QED
    BY <2>1, <2>2, <2>3, <2>4, <2>5, <2>7
<1>2. ASSUME request' = request
      PROVE  FrontSegments' = FrontSegments /\ FrontSections' = FrontSections
  <2>1. LoadSegments' = LoadSegments /\ TemplateSegments' = TemplateSegments
        /\ NoteSegments' = NoteSegments /\ NoteSections' = NoteSections
        /\ NullSection' = NullSection
    BY <1>1, <1>2
  <2> QED
    BY <2>1, Zenon DEF FrontSegments, FrontSections
<1>3. ASSUME request' = request, dynstr' = dynstr, nameOffsets' = nameOffsets
      PROVE  DynamicSegments' = DynamicSegments /\ DynamicSections' = DynamicSections
  BY <1>3, Zenon DEF DynamicSegments, DynamicSections, NewSegment, NewSection, DynamicTable,
     Serialized, Class, Order
<1>4. CASE TryBuild
  <2>1. /\ stage' = "notes" /\ request' = request /\ secs' = <<NullSection>>
        /\ segs' = LoadSegments \o TemplateSegments
    BY <1>4 DEF TryBuild, TemplateSegments
  <2>2. (LoadSegments \o TemplateSegments)' = LoadSegments \o TemplateSegments
        /\ <<NullSection>>' = <<NullSection>>
    BY <1>1, <2>1
  <2> QED
    BY <2>1, <2>2 DEF ListsInv
<1>5. CASE AddNotes
  <2>1. /\ stage = "notes" /\ request' = request /\ secs' = secs \o NoteSections
        /\ segs' = segs \o NoteSegments
        /\ \/ request.needed = <<>> /\ stage' = "rela"
           \/ request.needed # <<>> /\ stage' = "dynamic"
    BY <1>5 DEF AddNotes
  <2>2. segs' = FrontSegments' /\ secs' = FrontSections'
    BY <1>2, <2>1 DEF ListsInv, FrontSegments, FrontSections
  <2>3. FrontSegments' = FrontSegments /\ FrontSections' = FrontSections
    BY <1>2, <2>1
  <2>4. FrontSegments \in Seq(Segment) /\ FrontSections \in Seq(Section)
    <3>1. TypeOK'
      BY TypeStep
    <3> QED
      BY <2>2, <2>3, <3>1 DEF TypeOK
  <2>5. ASSUME request.needed = <<>>
        PROVE  /\ segs' = FrontSegments' \o DynamicSegments'
               /\ secs' = FrontSections' \o DynamicSections'
    <3>1. DynamicSegments' = <<>> /\ DynamicSections' = <<>>
      BY <2>1, <2>5 DEF DynamicSegments, DynamicSections
    <3>2. FrontSegments \o <<>> = FrontSegments /\ FrontSections \o <<>> = FrontSections
      BY <2>4
    <3> QED
      BY <2>2, <2>3, <3>1, <3>2
  <2> QED
    BY <2>1, <2>2, <2>5 DEF ListsInv
<1>6. CASE CollectLibrary
  <2>1. /\ stage = "dynamic" /\ stage' = stage /\ request' = request /\ secs' = secs
        /\ segs' = segs
    BY <1>6 DEF CollectLibrary, lists
  <2> QED
    BY <1>2, <2>1 DEF ListsInv
<1>7. CASE AddDynamic
  <2>1. /\ stage = "dynamic" /\ stage' = "rela" /\ request' = request
        /\ dynstr' = dynstr /\ nameOffsets' = nameOffsets
        /\ Len(nameOffsets) = Len(request.needed) /\ request.needed # <<>>
        /\ segs = FrontSegments /\ secs = FrontSections
    BY <1>7 DEF AddDynamic, strings, ListsInv
  <2>2. secs' = secs \o DynamicSections
    BY <1>7, <2>1 DEF AddDynamic, DynamicSections
  <2>3. segs' = segs \o DynamicSegments
    <3> DEFINE new == NewSegment("DYNAMIC", 0, SizeOf(DynamicTable), 8, DynamicTable)
    <3>1. segs' = Append(segs, new) /\ DynamicSegments = <<new>>
      BY <1>7, <2>1 DEF AddDynamic, DynamicSegments
    <3> HIDE DEF new
    <3>2. Append(segs, new) = segs \o <<new>>
      BY DEF TypeOK
    <3> QED
      BY <3>1, <3>2
  <2> QED
    BY <1>2, <1>3, <2>1, <2>2, <2>3 DEF ListsInv
<1>8. CASE AddRela
  <2>1. /\ stage = "rela" /\ stage' = "assembled" /\ request' = request /\ segs' = segs
        /\ dynstr' = dynstr /\ nameOffsets' = nameOffsets
        /\ secs' = secs \o RelaSections
    BY <1>8 DEF AddRela, strings, RelaSections
  <2>2. RelaSections' = RelaSections
    BY <1>1, <2>1
  <2> QED
    BY <1>2, <1>3, <2>1, <2>2 DEF ListsInv
<1>9. CASE UNCHANGED bvars
  <2>1. /\ request' = request /\ dynstr' = dynstr /\ nameOffsets' = nameOffsets
        /\ segs' = segs /\ secs' = secs /\ stage' = stage
    BY <1>9 DEF bvars, lists, strings
  <2>2. RelaSections' = RelaSections /\ LoadSegments' = LoadSegments
        /\ TemplateSegments' = TemplateSegments /\ NullSection' = NullSection
    BY <1>1, <2>1
  <2> QED
    BY <1>2, <1>3, <2>1, <2>2 DEF ListsInv
<1>10. ASSUME NEW asked, Ask(asked) PROVE ListsInv'
  BY <1>10 DEF Ask, ListsInv
<1> QED
  BY <1>4, <1>5, <1>6, <1>7, <1>8, <1>9, <1>10 DEF Next, SetEntry, AddLoadAligned, AddLoad,
     AddTls, AddNote, AddRelocations, AddDynamicNeeded

(* The kinds of sections there are: none without file bytes and no name      *)
(* table; relocations are the last one, and .dynstr is found by its name.    *)
Plain == {s \in Section : /\ s.header.addr = 0 /\ s.header.type # "NOBITS"
                          /\ ~Files!IsShstrtab(s)}

PlainOf(s, name, type) == s \in Plain /\ s.name = name /\ s.header.type = type

(* The section the builder makes of some bytes.                               *)
LEMMA PlainSection ==
    ASSUME NEW name \in Names, NEW type \in SectionTypes, NEW alloc \in BOOLEAN,
           NEW align \in U64, NEW data \in Seq(RawByte),
           type # "NOBITS", <<name, type>> # <<Shstrtab, "STRTAB">>
    PROVE  PlainOf(NewSection(name, type, alloc, align, data), name, type)
<1>1. NewSection(name, type, alloc, align, data) \in Section
  BY NewSectionType
<1>2. NewSection(name, type, alloc, align, data) =
          [name |-> name, data |-> data,
           header |-> [nameIndex |-> 0, type |-> type, alloc |-> alloc, addr |-> 0,
                       offset |-> 0, size |-> SizeOf(data), addralign |-> align]]
  BY DEF NewSection
<1> DEFINE s == NewSection(name, type, alloc, align, data)
<1> HIDE DEF s
<1>3. s.name = name /\ s.header.type = type /\ s.header.addr = 0
  BY <1>2 DEF s
<1> QED
  BY <1>1, <1>3 DEF s, Plain, PlainOf, Files!IsShstrtab

(* What kinds of sections the lists hold.                                     *)
LEMMA SectionKinds ==
    ASSUME TypeOK
    PROVE  /\ FrontSections \in Seq({s \in Plain : ~IsTable(s) /\ s.name # Dynstr})
           /\ request.needed # <<>> =>
                  /\ DynamicSections \in Seq({s \in Plain : ~IsTable(s)})
                  /\ Len(DynamicSections) = 2
                  /\ DynamicSections[1] = NewSection(Dynstr, "STRTAB", TRUE, 1, dynstr)
           /\ request.needed = <<>> => DynamicSections = <<>>
           /\ request.relocations # <<>> =>
                  /\ RelaSections = <<NewSection(RelaDyn, "RELA", FALSE, 8, RelaTable)>>
                  /\ NewSection(RelaDyn, "RELA", FALSE, 8, RelaTable) \in Plain
           /\ request.relocations = <<>> => RelaSections = <<>>
<1> DEFINE Fronts == {s \in Plain : ~IsTable(s) /\ s.name # Dynstr}
           Others == {s \in Plain : ~IsTable(s)}
           rela   == NewSection(RelaDyn, "RELA", FALSE, 8, RelaTable)
           names_ == NewSection(Dynstr, "STRTAB", TRUE, 1, dynstr)
           table  == NewSection(Dynamic, "DYNAMIC", TRUE, 8, DynamicTable)
<1>1. /\ {NoName, Dynstr, Dynamic, RelaDyn} \subseteq Names /\ NoName # Dynstr
      /\ Dynstr # Shstrtab /\ RelaDyn # Shstrtab
      /\ \A n \in NoteSpecs : NoteSection[n.name] \notin {Dynstr, Shstrtab}
                              /\ NoteSection[n.name] \in Names
  BY BuilderAssumption
<1>2. {0, 1, 8, Word} \subseteq U64 /\ <<>> \in Seq(RawByte)
      /\ {"NULL", "NOTE", "STRTAB", "DYNAMIC", "RELA"} \subseteq SectionTypes \ {"NOBITS"}
      /\ TRUE \in BOOLEAN /\ FALSE \in BOOLEAN
  BY BuilderConstants DEF SectionTypes
<1>3. NullSection \in Fronts
  <2>1. /\ NoName \in Names /\ "NULL" \in SectionTypes /\ "NULL" # "NOBITS"
        /\ <<NoName, "NULL">> # <<Shstrtab, "STRTAB">> /\ FALSE \in BOOLEAN
        /\ 0 \in U64 /\ <<>> \in Seq(RawByte)
    BY <1>1, <1>2
  <2>2. PlainOf(NullSection, NoName, "NULL")
    BY <2>1, PlainSection, Zenon DEF NullSection
  <2> QED
    BY <1>1, <2>2 DEF IsTable, PlainOf
<1>4. NoteSections \in Seq(Fronts)
  <2>1. request.notes \in Seq(NoteSpecs) /\ NoteSpecs \subseteq NoteSpec
    BY BuilderAssumption DEF TypeOK, Requests
  <2>2. ASSUME NEW i \in 1..Len(request.notes) PROVE NoteSections[i] \in Fronts
    <3> DEFINE note == request.notes[i]
               data == SerializeNote(note)
    <3>1. note \in NoteSpecs
      BY <2>1
    <3>2. data \in Seq(RawByte)
      BY <2>1, <3>1, NoteIsBytes
    <3>3. NoteSections[i] = NewSection(NoteSection[note.name], "NOTE", FALSE, Word, data)
      BY DEF NoteSections
    <3> HIDE DEF data, note
    <3> DEFINE name == NoteSection[note.name]
    <3>4. name \in Names /\ name # Dynstr /\ name # Shstrtab
      BY <1>1, <3>1
    <3> HIDE DEF name
    <3>5. /\ "NOTE" \in SectionTypes /\ "NOTE" # "NOBITS" /\ FALSE \in BOOLEAN
          /\ <<name, "NOTE">> # <<Shstrtab, "STRTAB">> /\ Word \in U64
      BY <1>2, <3>4
    <3>6. PlainOf(NewSection(name, "NOTE", FALSE, Word, data), name, "NOTE")
      BY <3>2, <3>4, <3>5, PlainSection, Zenon
    <3> QED
      BY <3>3, <3>4, <3>6 DEF IsTable, name, PlainOf
  <2>3. NoteSections = [i \in 1..Len(request.notes) |-> NoteSections[i]]
    BY DEF NoteSections
  <2>4. Len(request.notes) \in Nat
    BY <2>1
  <2> HIDE DEF Fronts
  <2>5. [i \in 1..Len(request.notes) |-> NoteSections[i]] \in Seq(Fronts)
    BY <2>2, <2>4
  <2> QED
    BY <2>3, <2>5, Zenon
<1>5. FrontSections \in Seq(Fronts)
  <2> HIDE DEF Fronts
  <2>1. <<NullSection>> \in Seq(Fronts)
    BY <1>3
  <2> QED
    BY <1>4, <2>1 DEF FrontSections
<1>6. ASSUME request.needed # <<>>
      PROVE  /\ DynamicSections \in Seq(Others) /\ Len(DynamicSections) = 2
             /\ DynamicSections[1] = names_
  <2>1. DynamicSections = <<names_, table>>
    BY <1>6 DEF DynamicSections
  <2>2. dynstr \in Seq(RawByte) /\ nameOffsets \in Seq(Nat)
    BY DEF TypeOK
  <2>3. DynamicTable \in Seq(RawByte)
    BY <2>2, DynamicIsBytes
  <2>8. /\ {"STRTAB", "DYNAMIC"} \subseteq SectionTypes /\ "STRTAB" # "NOBITS"
        /\ "DYNAMIC" # "NOBITS" /\ TRUE \in BOOLEAN /\ 1 \in U64 /\ 8 \in U64
        /\ <<Dynstr, "STRTAB">> # <<Shstrtab, "STRTAB">>
        /\ <<Dynamic, "DYNAMIC">> # <<Shstrtab, "STRTAB">>
        /\ "STRTAB" \in SectionTypes /\ "DYNAMIC" \in SectionTypes
        /\ Dynstr \in Names /\ Dynamic \in Names
    BY <1>1, <1>2
  <2>4. PlainOf(names_, Dynstr, "STRTAB")
    BY <2>2, <2>8, PlainSection, Zenon
  <2>5. PlainOf(table, Dynamic, "DYNAMIC")
    BY <2>3, <2>8, PlainSection, Zenon
  <2> HIDE DEF names_, table
  <2>6. names_ \in Others /\ table \in Others
    BY <2>4, <2>5 DEF IsTable, PlainOf
  <2> HIDE DEF Others
  <2>7. <<names_, table>> \in Seq(Others)
    BY <2>6
  <2> QED
    BY <2>1, <2>7
<1>7. request.needed = <<>> => DynamicSections = <<>>
  BY DEF DynamicSections
<1>8. ASSUME request.relocations # <<>> PROVE RelaSections = <<rela>> /\ rela \in Plain
  <2>1. RelaTable \in Seq(RawByte)
    BY RelaIsBytes DEF TypeOK, Requests
  <2>4. /\ "RELA" \in SectionTypes /\ "RELA" # "NOBITS" /\ FALSE \in BOOLEAN
        /\ <<RelaDyn, "RELA">> # <<Shstrtab, "STRTAB">> /\ 8 \in U64 /\ RelaDyn \in Names
    BY <1>1, <1>2
  <2>5. PlainOf(rela, RelaDyn, "RELA")
    BY <2>1, <2>4, PlainSection, Zenon
  <2>2. rela \in Plain
    BY <2>5, Zenon DEF PlainOf
  <2>3. RelaSections = <<rela>>
    BY <1>8 DEF RelaSections
  <2> QED
    BY <2>2, <2>3
<1>9. request.relocations = <<>> => RelaSections = <<>>
  BY DEF RelaSections
<1> HIDE DEF Fronts, Others, rela, names_
<1>10. request.needed # <<>> => /\ DynamicSections \in Seq(Others) /\ Len(DynamicSections) = 2
                                /\ DynamicSections[1] = names_
  BY <1>6
<1>11. request.relocations # <<>> => RelaSections = <<rela>> /\ rela \in Plain
  BY <1>8
<1> QED
  BY <1>5, <1>7, <1>9, <1>10, <1>11, Zenon DEF Fronts, Others, rela, names_

(* Where they are in the image assembled.                                    *)
LEMMA SectionsAsked ==
    ASSUME TypeOK, ListsInv, stage = "assembled"
    PROVE  /\ secs \in Seq(Plain)
           /\ request.relocations = <<>> => \A i \in 1..Len(secs) : ~IsTable(secs[i])
           /\ request.relocations # <<>> =>
                  /\ Len(secs) \in 1..Len(secs)
                  /\ secs[Len(secs)] = NewSection(RelaDyn, "RELA", FALSE, 8, RelaTable)
                  /\ \A i \in 1..(Len(secs) - 1) : ~IsTable(secs[i])
           /\ request.needed # <<>> =>
                  \E d \in 1..Len(secs) :
                      /\ secs[d] = NewSection(Dynstr, "STRTAB", TRUE, 1, dynstr)
                      /\ \A i \in 1..(d - 1) : secs[i].name # Dynstr
<1> DEFINE Fronts == {s \in Plain : ~IsTable(s) /\ s.name # Dynstr}
           Others == {s \in Plain : ~IsTable(s)}
           rela   == NewSection(RelaDyn, "RELA", FALSE, 8, RelaTable)
           names_ == NewSection(Dynstr, "STRTAB", TRUE, 1, dynstr)
           F == FrontSections
           D == DynamicSections
           R == RelaSections
<1>1. /\ F \in Seq(Fronts)
      /\ request.needed # <<>> => D \in Seq(Others) /\ Len(D) = 2 /\ D[1] = names_
      /\ request.needed = <<>> => D = <<>>
      /\ request.relocations # <<>> => R = <<rela>> /\ rela \in Plain
      /\ request.relocations = <<>> => R = <<>>
  BY SectionKinds
<1>2. secs = (F \o D) \o R
  BY DEF ListsInv
<1>3. /\ \A s \in Fronts : s \in Plain /\ ~IsTable(s) /\ s.name # Dynstr
      /\ \A s \in Others : s \in Plain /\ ~IsTable(s)
      /\ Fronts \subseteq Others /\ Others \subseteq Plain
  OBVIOUS
<1> HIDE DEF Fronts, Others, rela, names_, F, D, R
<1>4. F \in Seq(Others) /\ D \in Seq(Others) /\ Len(F) \in Nat /\ Len(D) \in Nat
  <2>1. <<>> \in Seq(Others)
    OBVIOUS
  <2>2. D \in Seq(Others)
    BY <1>1, <2>1
  <2>3. F \in Seq(Others)
    BY <1>1, <1>3
  <2> QED
    BY <2>2, <2>3
<1> DEFINE G == F \o D
<1>5. /\ G \in Seq(Others) /\ Len(G) = Len(F) + Len(D) /\ Len(G) \in Nat
      /\ \A i \in 1..Len(F) : G[i] = F[i]
      /\ request.needed # <<>> => Len(D) = 2 /\ G[Len(F) + 1] = names_
  <2>1. G \in Seq(Others) /\ Len(G) = Len(F) + Len(D) /\ Len(G) \in Nat
    BY <1>4
  <2>2. \A i \in 1..Len(F) : G[i] = F[i]
    BY <1>4
  <2>3. request.needed # <<>> => Len(D) = 2 /\ G[Len(F) + 1] = names_
    BY <1>1, <1>4
  <2> QED
    BY <2>1, <2>2, <2>3
<1>6. G \in Seq(Plain)
  <2> HIDE DEF G
  <2> QED
    BY <1>3, <1>5
<1> HIDE DEF G
<1>7. /\ secs \in Seq(Plain) /\ Len(G) <= Len(secs) /\ Len(secs) \in Nat
      /\ \A i \in 1..Len(G) : secs[i] = G[i]
      /\ request.relocations = <<>> => Len(secs) = Len(G)
      /\ request.relocations # <<>> => Len(secs) = Len(G) + 1 /\ secs[Len(secs)] = rela
  <2>1. secs = G \o R
    BY <1>2 DEF G
  <2>2. CASE request.relocations = <<>>
    <3>1. secs = G
      BY <1>1, <1>6, <2>1, <2>2
    <3> QED
      BY <1>5, <1>6, <2>2, <3>1
  <2>3. CASE request.relocations # <<>>
    <3>1. R = <<rela>> /\ rela \in Plain
      BY <1>1, <2>3
    <3>2. /\ G \o <<rela>> \in Seq(Plain) /\ Len(G \o <<rela>>) = Len(G) + 1
          /\ \A i \in 1..Len(G) : (G \o <<rela>>)[i] = G[i]
          /\ (G \o <<rela>>)[Len(G) + 1] = rela
      BY <1>6, <3>1
    <3> QED
      BY <1>5, <2>1, <2>3, <3>1, <3>2
  <2> QED
    BY <2>2, <2>3
<1>8. \A i \in 1..Len(G) : ~IsTable(secs[i])
  <2>1. \A i \in 1..Len(G) : G[i] \in Others
    BY <1>5
  <2> QED
    BY <1>3, <1>7, <2>1
<1>9. request.relocations = <<>> => \A i \in 1..Len(secs) : ~IsTable(secs[i])
  BY <1>7, <1>8
<1>10. request.relocations # <<>> =>
           /\ Len(secs) \in 1..Len(secs) /\ secs[Len(secs)] = rela
           /\ \A i \in 1..(Len(secs) - 1) : ~IsTable(secs[i])
  <2>1. request.relocations # <<>> => Len(secs) - 1 = Len(G) /\ Len(secs) \in 1..Len(secs)
    BY <1>5, <1>7
  <2> QED
    BY <1>7, <1>8, <2>1
<1>11. ASSUME request.needed # <<>>
       PROVE  \E d \in 1..Len(secs) :
                  secs[d] = names_ /\ \A i \in 1..(d - 1) : secs[i].name # Dynstr
  <2> DEFINE d == Len(F) + 1
  <2>1. d \in 1..Len(G) /\ d \in 1..Len(secs)
    <3>1. Len(D) = 2 /\ Len(F) \in Nat /\ Len(G) = Len(F) + Len(D)
      BY <1>4, <1>5, <1>11
    <3>2. Len(G) <= Len(secs) /\ Len(secs) \in Nat
      BY <1>7
    <3> QED
      BY <3>1, <3>2
  <2>2. secs[d] = names_
    BY <1>5, <1>7, <1>11, <2>1
  <2>3. ASSUME NEW i \in 1..(d - 1) PROVE secs[i].name # Dynstr
    <3>1. i \in 1..Len(F) /\ i \in 1..Len(G)
      BY <1>4, <1>5
    <3>2. secs[i] = F[i] /\ F[i] \in Fronts
      BY <1>1, <1>5, <1>7, <3>1
    <3> QED
      BY <1>3, <3>2
  <2> HIDE DEF d
  <2> QED
    BY <2>1, <2>2, <2>3
<1> QED
  BY <1>7, <1>9, <1>10, <1>11 DEF rela, names_

-----------------------------------------------------------------------------
(* The sections of the image in a file.                                      *)

(* In two images a section has the same name and is of the same kind.        *)
SameKind(is, was) ==
    /\ is.name = was.name /\ is.header.type = was.header.type
    /\ is.header.alloc = was.header.alloc /\ is.header.addr = was.header.addr

(* What is read from a finished file, section by section: those of the image *)
(* and, behind them, its name table.                                         *)
LEMMA SectionsRead ==
    ASSUME CallInv, pc = "done"
    PROVE  LET im == Parsed(out)
           IN  /\ Len(image.sections) <= Len(im.sections)
               /\ \A i \in 1..Len(image.sections) :
                      LET was == image.sections[i]
                          is  == im.sections[i]
                      IN  /\ SameKind(is, was)
                          /\ ~Files!IsNobits(was) /\ ~Files!IsShstrtab(was) =>
                                 is.data = was.data /\ is.header.size = Len(was.data)
               /\ \A i \in (Len(image.sections) + 1)..Len(im.sections) :
                      im.sections[i].header.type = "STRTAB"
<1> DEFINE im   == Parsed(out)
           list == Files!WithTable(image.sections)
           n    == Len(image.sections)
           m    == Len(list)
<1>1. im = Files!ImageRead(image, phdrs, sections, header) /\ image \in ElfImage
      /\ Files!Finished
  BY CallFinished
<1>2. image.sections \in Seq(Section) /\ image.sections \in Seq(Files!Section)
  BY <1>1, SameFiles DEF ElfImage
<1>3. PICK f, c, b, named : Files!BuiltWith(image, f, phdrs, sections, header, c, b, named)
  <2>1. Files!BuiltFrom(image, out, phdrs, sections, header)
    BY <1>1, Files!BuiltAtEnd, FilesAssumptions DEF CallInv
  <2> QED
    BY <2>1, Zenon DEF Files!BuiltFrom
<1>4. /\ named \in Seq(Files!Section) /\ Files!NamesGiven(list, b, named)
      /\ Len(sections) = Len(named) /\ Files!SectionsLaid(f, image, named, sections, c)
  BY <1>3 DEF Files!BuiltWith
<1>5. /\ Len(named) = m
      /\ \A i \in 1..m : named[i] = Files!NamedWith(list[i], Len(b[i]), b[m + 1])
  BY <1>4 DEF Files!NamesGiven
<1>6. /\ list \in Seq(Files!Section) /\ m \in Nat /\ n \in Nat /\ n <= m
      /\ \A i \in 1..n : list[i] = image.sections[i]
      /\ \A i \in (n + 1)..m : list[i] = Files!NewShstrtab
  <2>1. Files!NewShstrtab \in Files!Section
    BY Files!NewShstrtabType, FilesAssumptions
  <2>2. list = image.sections \/ list = Append(image.sections, Files!NewShstrtab)
    BY DEF Files!WithTable
  <2> HIDE DEF list
  <2>3. CASE list = image.sections
    BY <1>2, <2>3
  <2>4. CASE list = Append(image.sections, Files!NewShstrtab)
    BY <1>2, <2>1, <2>4
  <2> QED
    BY <2>2, <2>3, <2>4
<1> HIDE DEF list, n, m, im
<1>7. Len(im.sections) = m /\ \A i \in 1..m : im.sections[i] = Files!SectionRead(sections[i])
  <2>1. im.sections = [i \in 1..m |-> Files!SectionRead(sections[i])]
    BY <1>1, <1>4, <1>5 DEF Files!ImageRead
  <2> QED
    BY <1>6, <2>1
<1>8. ASSUME NEW i \in 1..m
      PROVE  /\ SameKind(im.sections[i], list[i])
             /\ ~Files!IsNobits(list[i]) /\ ~Files!IsShstrtab(list[i]) =>
                    /\ im.sections[i].data = list[i].data
                    /\ im.sections[i].header.size = Len(list[i].data)
  <2> DEFINE was   == list[i]
             given == named[i]
             is    == sections[i]
             found == im.sections[i]
  <2>1. was \in Files!Section /\ given \in Files!Section
    <3>1. i \in 1..Len(named) /\ i \in 1..Len(list)
      BY <1>5 DEF m
    <3>2. named \in Seq(Files!Section) /\ list \in Seq(Files!Section)
      BY <1>4, <1>6
    <3> QED
      BY <3>1, <3>2
  <2>2. PICK x, y : Files!SectionLaid(f, given, is, x, y)
    BY <1>4, <1>5, Zenon DEF Files!SectionsLaid
  <2>3. PICK o, t : given = Files!NamedWith(was, o, t)
    BY <1>5
  <2>4. found = Files!SectionRead(is)
    BY <1>7
  <2> HIDE DEF was, given, is, found
  <2>5. /\ found.name = given.name /\ found.header.type = given.header.type
        /\ Files!IsNobits(given) => is = given
        /\ ~Files!IsNobits(given) =>
               found.data = given.data /\ found.header.size = Len(given.data)
    BY <2>1, <2>2, <2>4, Files!SectionReadFacts, FilesAssumptions
  <2>6. /\ was.header \in Files!Shdr
        /\ was = [name |-> was.name, header |-> was.header, data |-> was.data]
    BY <2>1 DEF Files!Section
  <2>7. /\ given.name = was.name /\ given.header.type = was.header.type
        /\ given.header.alloc = was.header.alloc /\ given.header.addr = was.header.addr
        /\ ~Files!IsShstrtab(was) => given.data = was.data
    BY <2>3, <2>6 DEF Files!NamedWith, Files!Shdr
  <2>8. found.header.alloc = given.header.alloc /\ found.header.addr = given.header.addr
    <3>1. found.header = is.header
      BY <2>4 DEF Files!SectionRead
    <3>2. CASE is = given
      BY <3>1, <3>2
    <3>3. CASE \E o_ : is = Files!SectionAt(given, o_)
      <4>1. PICK o_ : is = Files!SectionAt(given, o_)
        BY <3>3
      <4>2. given.header \in Files!Shdr
            /\ given = [name |-> given.name, header |-> given.header, data |-> given.data]
        BY <2>1 DEF Files!Section
      <4>3. is.header.alloc = given.header.alloc /\ is.header.addr = given.header.addr
        BY <4>1, <4>2 DEF Files!SectionAt, Files!Shdr
      <4> QED
        BY <3>1, <4>3
    <3> QED
      BY <2>2, <3>2, <3>3, Zenon DEF Files!SectionLaid
  <2>9. Files!IsNobits(given) <=> Files!IsNobits(was)
    BY <2>7 DEF Files!IsNobits
  <2> QED
    BY <2>5, <2>7, <2>8, <2>9 DEF SameKind, was, found
<1>9. ASSUME NEW i \in 1..n
      PROVE  /\ SameKind(im.sections[i], image.sections[i])
             /\ ~Files!IsNobits(image.sections[i]) /\ ~Files!IsShstrtab(image.sections[i]) =>
                    /\ im.sections[i].data = image.sections[i].data
                    /\ im.sections[i].header.size = Len(image.sections[i].data)
  <2>1. i \in 1..m /\ list[i] = image.sections[i]
    BY <1>6
  <2> QED
    BY <1>8, <2>1
<1>10. ASSUME NEW i \in (n + 1)..m PROVE im.sections[i].header.type = "STRTAB"
  <2>1. i \in 1..m /\ list[i] = Files!NewShstrtab
    BY <1>6
  <2>2. SameKind(im.sections[i], list[i])
    BY <1>8, <2>1
  <2> QED
    BY <2>1, <2>2 DEF SameKind, Files!NewShstrtab
<1> QED
  BY <1>6, <1>7, <1>9, <1>10 DEF im, n

(* The sections in list are those of the builder, as long as they were; one  *)
(* that is not in memory, or that ends before every address written, has its *)
(* bytes, too.                                                               *)
OutOfReach(section, writes) ==
    ~section.header.alloc \/ \A w \in writes : w[1] >= Len(section.data)

SectionsLeft(list, writes) ==
    /\ Len(secs) <= Len(list)
    /\ \A i \in 1..Len(secs) :
           /\ SameKind(list[i], secs[i]) /\ Len(list[i].data) = Len(secs[i].data)
           /\ OutOfReach(secs[i], writes) => list[i].data = secs[i].data
    /\ \A i \in (Len(secs) + 1)..Len(list) : list[i].header.type = "STRTAB"

SectionsInv == pc # "idle" => SectionsLeft(image.sections, edit)

(* What is read from a finished file is left so,                             *)
LEMMA ReadIsLeft ==
    ASSUME CallInv, pc = "done", secs \in Seq(Plain), NEW writes,
           SectionsLeft(image.sections, writes)
    PROVE  /\ SectionsLeft(Parsed(out).sections, writes)
           /\ \A i \in 1..Len(secs) :
                  OutOfReach(secs[i], writes) =>
                      Parsed(out).sections[i].header.size = Len(secs[i].data)
<1> DEFINE list == image.sections
           read == Parsed(out).sections
<1>1. /\ Len(list) <= Len(read)
      /\ \A i \in 1..Len(list) :
             /\ SameKind(read[i], list[i])
             /\ ~Files!IsNobits(list[i]) /\ ~Files!IsShstrtab(list[i]) =>
                    read[i].data = list[i].data /\ read[i].header.size = Len(list[i].data)
      /\ \A i \in (Len(list) + 1)..Len(read) : read[i].header.type = "STRTAB"
  BY SectionsRead
<1>2. /\ Len(secs) <= Len(list) /\ Len(secs) \in Nat
      /\ \A i \in 1..Len(secs) :
             /\ SameKind(list[i], secs[i]) /\ Len(list[i].data) = Len(secs[i].data)
             /\ OutOfReach(secs[i], writes) => list[i].data = secs[i].data
      /\ \A i \in (Len(secs) + 1)..Len(list) : list[i].header.type = "STRTAB"
  BY DEF SectionsLeft
<1>3. Len(list) \in Nat /\ Len(read) \in Nat
  <2>1. Parsed(out) \in ElfImage /\ image \in ElfImage
    BY CallFinished
  <2>2. read \in Seq(Section) /\ list \in Seq(Section)
    BY <2>1 DEF ElfImage
  <2> HIDE DEF read, list
  <2> QED
    BY <2>2
<1>4. \A i \in 1..Len(secs) : secs[i] \in Plain
  OBVIOUS
<1> HIDE DEF list, read
<1>5. ASSUME NEW i \in 1..Len(secs)
      PROVE  /\ SameKind(read[i], secs[i]) /\ Len(read[i].data) = Len(secs[i].data)
             /\ OutOfReach(secs[i], writes) =>
                    read[i].data = secs[i].data /\ read[i].header.size = Len(secs[i].data)
  <2>1. i \in 1..Len(list)
    BY <1>2, <1>3
  <2>2. SameKind(list[i], secs[i]) /\ SameKind(read[i], list[i])
    BY <1>1, <1>2, <2>1
  <2>3. ~Files!IsNobits(list[i]) /\ ~Files!IsShstrtab(list[i])
    BY <1>4, <2>2 DEF Plain, SameKind, Files!IsNobits, Files!IsShstrtab
  <2>4. SameKind(read[i], secs[i])
    BY <2>2, Zenon DEF SameKind
  <2> QED
    BY <1>1, <1>2, <2>1, <2>3, <2>4
<1>6. ASSUME NEW i \in (Len(secs) + 1)..Len(read) PROVE read[i].header.type = "STRTAB"
  <2>1. CASE i \in 1..Len(list)
    <3>1. i \in (Len(secs) + 1)..Len(list)
      BY <1>2, <2>1
    <3> QED
      BY <1>1, <1>2, <2>1, <3>1 DEF SameKind
  <2>2. CASE i \in (Len(list) + 1)..Len(read)
    BY <1>1, <2>2
  <2> QED
    BY <1>2, <1>3, <2>1, <2>2
<1>7. Len(secs) <= Len(read)
  BY <1>1, <1>2, <1>3
<1> QED
  BY <1>5, <1>6, <1>7 DEF SectionsLeft, read

(* and so is what write_at_ioff makes of it.                                 *)
LEMMA WriteIsLeft ==
    ASSUME secs \in Seq(Plain), NEW list \in Seq(Section), SectionsLeft(list, {}),
           \A i \in 1..Len(secs) : list[i].header.size = Len(secs[i].data),
           NEW a \in Nat, NEW bytes \in Seq(RawByte)
    PROVE  SectionsLeft(SectionsWith(list, a, bytes), EditOf(a, bytes))
<1> DEFINE new == SectionsWith(list, a, bytes)
<1>1. Len(new) = Len(list) /\ \A i \in 1..Len(list) : new[i] = Updated(list[i], a, bytes)
  BY DEF SectionsWith
<1>2. /\ Len(secs) <= Len(list) /\ Len(secs) \in Nat /\ Len(list) \in Nat
      /\ \A i \in 1..Len(secs) : SameKind(list[i], secs[i])
      /\ \A i \in (Len(secs) + 1)..Len(list) : list[i].header.type = "STRTAB"
  BY DEF SectionsLeft
<1>3. \A i \in 1..Len(secs) : list[i].data = secs[i].data
  BY DEF SectionsLeft, OutOfReach
<1> HIDE DEF new
<1>4. ASSUME NEW i \in 1..Len(list) PROVE SameKind(new[i], list[i])
  <2>1. list[i] \in Section
    OBVIOUS
  <2>2. new[i].name = list[i].name /\ new[i].header = list[i].header
    BY <1>1, <2>1 DEF Updated, Section
  <2> QED
    BY <2>2 DEF SameKind
<1>5. ASSUME NEW i \in 1..Len(secs), OutOfReach(secs[i], EditOf(a, bytes))
      PROVE  new[i].data = secs[i].data
  <2> DEFINE section == list[i]
  <2>1. i \in 1..Len(list)
    BY <1>2
  <2>2. section \in Section /\ secs[i] \in Plain
    BY <2>1
  <2>3. /\ section.data = secs[i].data /\ section.header.size = Len(secs[i].data)
        /\ new[i] = Updated(section, a, bytes) /\ SameKind(section, secs[i])
    BY <1>1, <1>2, <1>3, <2>1
  <2> HIDE DEF section
  <2>4. /\ section.data \in Seq(Byte) /\ section.header.addr = 0
        /\ Len(section.data) \in Nat /\ section.header.alloc = secs[i].header.alloc
    BY <2>2, <2>3 DEF Section, Plain, SameKind
  <2>5. CASE bytes = <<>>
    <3>1. a - section.header.addr \in Int
      BY <2>4
    <3>2. Copied(section.data, a - section.header.addr, <<>>) = section.data
      BY <2>4, <3>1, NothingCopied
    <3>3. Updated(section, a, bytes).data = section.data
      BY <2>2, <2>5, <3>2 DEF Updated, Section
    <3> QED
      BY <2>3, <3>3
  <2>6. CASE bytes # <<>>
    <3>1. 1 \in 1..Len(bytes) /\ a + 1 - 1 = a
      BY <2>6
    <3>2. <<a, bytes[1]>> \in EditOf(a, bytes)
      BY <3>1 DEF EditOf
    <3>3. ~section.header.alloc \/ a >= Len(section.data)
      BY <1>5, <2>3, <2>4, <3>2 DEF OutOfReach
    <3>4. ~SectionContains(section, a)
      BY <2>3, <2>4, <3>3, U64MaxAssumption DEF SectionContains, SatAdd
    <3>5. Updated(section, a, bytes) = section
      BY <3>4 DEF Updated, Takes
    <3> QED
      BY <2>3, <3>5
  <2> QED
    BY <2>5, <2>6
<1>6. \A i \in 1..Len(secs) : i \in 1..Len(list)
  BY <1>2
<1>7. \A i \in 1..Len(secs) : SameKind(new[i], secs[i])
  BY <1>2, <1>4, <1>6, Zenon DEF SameKind
<1>9. ASSUME NEW i \in 1..Len(secs) PROVE Len(new[i].data) = Len(secs[i].data)
  <2> DEFINE section == list[i]
  <2>1. i \in 1..Len(list)
    BY <1>2
  <2>2. section \in Section /\ section.data = secs[i].data
        /\ new[i] = Updated(section, a, bytes)
    BY <1>1, <1>3, <2>1
  <2>3. section.header.addr = 0
    <3>1. secs[i] \in Plain /\ SameKind(section, secs[i])
      BY <1>2
    <3> QED
      BY <3>1 DEF Plain, SameKind
  <2> HIDE DEF section
  <2>4. section.data \in Seq(Byte) /\ a - section.header.addr \in Int
    BY <2>2, <2>3 DEF Section
  <2>5. Len(Updated(section, a, bytes).data) = Len(section.data)
    <3>1. Len(Copied(section.data, a - section.header.addr, bytes)) = Len(section.data)
      BY <2>4, CopiedType
    <3> QED
      BY <2>2, <3>1 DEF Updated, Section
  <2> QED
    BY <2>2, <2>5
<1>8. \A i \in (Len(secs) + 1)..Len(new) : new[i].header.type = "STRTAB"
  <2>1. \A i \in (Len(secs) + 1)..Len(list) : i \in 1..Len(list)
    BY <1>2
  <2> QED
    BY <1>1, <1>2, <1>4, <2>1 DEF SameKind
<1> QED
  BY <1>1, <1>2, <1>5, <1>7, <1>8, <1>9 DEF SectionsLeft, new

(* What the user saves again is left so.                                     *)
LEMMA SavedAgainIsKept ==
    ASSUME SessionInv, SectionsInv, secs \in Seq(Plain), SaveAgain
    PROVE  SectionsLeft(image'.sections, edit')
<1> DEFINE im == Parsed(out)
<1>1. /\ pc = "done" /\ (SaveUnchanged \/ SaveEdited) /\ CallInv /\ image = Assembled
  BY DEF SaveAgain, SessionInv
<1>2. SectionsLeft(image.sections, {})
  <2>1. image.sections = secs
    BY <1>1 DEF Assembled
  <2>2. Len(secs) \in Nat
    OBVIOUS
  <2> QED
    BY <2>1, <2>2 DEF SectionsLeft, SameKind
<1>3. im \in ElfImage
  BY <1>1, CallFinished
<1>4. /\ SectionsLeft(im.sections, {})
      /\ \A i \in 1..Len(secs) : im.sections[i].header.size = Len(secs[i].data)
  <2>1. \A i \in 1..Len(secs) : OutOfReach(secs[i], {})
    BY DEF OutOfReach
  <2> QED
    BY <1>1, <1>2, <2>1, ReadIsLeft
<1>5. im.sections \in Seq(Section) /\ im.segments \in Seq(Segment)
  BY <1>3 DEF ElfImage
<1>6. CASE SaveUnchanged
  <2>1. image' = im /\ edit' = {}
    BY <1>6 DEF SaveUnchanged, Layout!Restart
  <2> QED
    BY <1>4, <2>1
<1>7. CASE SaveEdited
  <2>1. PICK ioff \in Offsets, bytes \in Payload :
          LET vaddr == ImageBase(im.segments) + ioff
          IN  \E i \in 1..Len(im.segments) :
                  /\ Layout!Restart(
                         [im EXCEPT !.segments = SegmentsWith(@, i, vaddr, bytes),
                                    !.sections = SectionsWith(@, vaddr, bytes)])
                  /\ edit' = {<<vaddr + k - 1, bytes[k]>> : k \in 1..Len(bytes)}
    BY <1>7 DEF SaveEdited
  <2> DEFINE a == ImageBase(im.segments) + ioff
  <2>2. bytes \in Seq(RawByte) /\ ioff \in Nat
    BY WritesAssumption
  <2>3. a \in Nat
    <3>1. ImageBase(im.segments) \in Nat
      BY <1>5, BaseIsAddress, BuilderConstants DEF U64
    <3> QED
      BY <2>2, <3>1
  <2> HIDE DEF a, im
  <2>4. PICK w \in 1..Len(im.segments) :
                  /\ Layout!Restart(
                         [im EXCEPT !.segments = SegmentsWith(@, w, a, bytes),
                                    !.sections = SectionsWith(@, a, bytes)])
                  /\ edit' = {<<a + k - 1, bytes[k]>> : k \in 1..Len(bytes)}
    BY <2>1 DEF a
  <2> DEFINE new == [im EXCEPT !.segments = SegmentsWith(@, w, a, bytes),
                               !.sections = SectionsWith(@, a, bytes)]
  <2>5. image' = new
    BY <2>4 DEF Layout!Restart
  <2>6. new.sections = SectionsWith(im.sections, a, bytes)
    BY <1>3 DEF ElfImage
  <2>7. edit' = EditOf(a, bytes)
    BY <2>4 DEF EditOf
  <2>8. SectionsLeft(SectionsWith(im.sections, a, bytes), EditOf(a, bytes))
    BY <1>4, <1>5, <2>2, <2>3, WriteIsLeft
  <2> HIDE DEF new
  <2> QED
    BY <2>5, <2>6, <2>7, <2>8
<1> QED
  BY <1>1, <1>6, <1>7

(* The lists are the builder's and their sections stay what they are.        *)
TablesInv == SessionInv /\ ListsInv /\ SectionsInv /\ LibrariesCollected

(* Nothing is in the tables at first,                                        *)
LEMMA TablesStart == SessionInit => TablesInv
<1> SUFFICES ASSUME SessionInit PROVE TablesInv
  OBVIOUS
<1>1. SessionInv
  BY SessionStarts
<1>2. stage = "asking" /\ pc = "idle"
  BY DEF SessionInit, Init
<1> QED
  BY <1>1, <1>2 DEF TablesInv, ListsInv, SectionsInv, LibrariesCollected

(* and each step keeps them as they are asked for.                           *)
LEMMA TablesStep == TablesInv /\ [SessionNext]_allVars => TablesInv'
<1> SUFFICES ASSUME TablesInv, [SessionNext]_allVars PROVE TablesInv'
  OBVIOUS
<1>1. SessionInv /\ TypeOK /\ ListsInv /\ SectionsInv /\ LibrariesCollected
  BY DEF TablesInv, SessionInv
<1>2. [Next]_bvars
  BY DEF SessionNext, Request, BuildImage, Serialize, SaveAgain, allVars
<1>3. SessionInv' /\ ListsInv' /\ LibrariesCollected'
  BY <1>1, <1>2, SessionSteps, ListsStep, LibrariesStep
<1>4. SectionsInv'
  <2>1. pc # "idle" => UNCHANGED bvars
    BY <1>1, <1>2 DEF SessionInv, Next, SetEntry, AddLoadAligned, AddLoad, AddTls, AddNote,
       AddRelocations, AddDynamicNeeded, Ask, TryBuild, AddNotes, CollectLibrary, AddDynamic,
       AddRela
  <2>2. ASSUME UNCHANGED <<image, user>>, pc' # "idle" => pc # "idle" PROVE SectionsInv'
    <3>1. image' = image /\ edit' = edit
      BY <2>2 DEF user
    <3>2. pc' # "idle" => secs' = secs
      BY <2>1, <2>2 DEF bvars, lists
    <3> QED
      BY <1>1, <2>2, <3>1, <3>2 DEF SectionsInv, SectionsLeft
  <2>3. CASE BuildImage
    <3>1. image' = Assembled /\ secs' = secs
      BY <2>3 DEF BuildImage, Layout!Restart, bvars, lists
    <3>2. image'.sections = secs'
      BY <3>1 DEF Assembled
    <3>3. Len(secs') \in Nat
      BY <1>1, <3>1 DEF TypeOK
    <3> QED
      BY <3>2, <3>3 DEF SectionsInv, SectionsLeft, SameKind
  <2>4. CASE SaveAgain
    <3>1. pc = "done" /\ secs' = secs
      BY <2>4 DEF SaveAgain, bvars, lists
    <3>2. secs \in Seq(Plain)
      BY <1>1, <3>1, SectionsAsked DEF SessionInv
    <3>3. SectionsLeft(image'.sections, edit')
      BY <1>1, <2>4, <3>2, SavedAgainIsKept
    <3> QED
      BY <3>1, <3>3 DEF SectionsInv, SectionsLeft
  <2>5. CASE Serialize
    <3>1. Layout!Next /\ UNCHANGED user
      BY <2>5 DEF Serialize
    <3>2. pc # "idle" /\ UNCHANGED <<image, user>>
      BY <3>1 DEF Layout!Next, Layout!SkipSegment, Layout!PlaceSegment,
         Layout!EnsureShstrtab, Layout!CollectName, Layout!AssignNames, Layout!SkipSection,
         Layout!PlaceSection, Layout!SectionsPlaced, Layout!WriteProgramHeaders,
         Layout!FillHeader, Layout!WriteSectionHeaders, Layout!WriteHeader,
         Layout!Returned, Layout!Fail, Layout!vars
    <3> QED
      BY <2>2, <3>2
  <2>6. CASE UNCHANGED <<lvars, user>>
    BY <2>2, <2>6 DEF lvars
  <2> QED
    BY <2>3, <2>4, <2>5, <2>6 DEF SessionNext, Request, allVars
<1> QED
  BY <1>3, <1>4 DEF TablesInv

-----------------------------------------------------------------------------
(* Tables of numbers, read back.                                             *)

(* A quotient and a remainder.                                               *)
LEMMA Quotient ==
    ASSUME NEW d \in Nat \ {0}, NEW q \in Nat, NEW r \in 0..(d - 1)
    PROVE  ((d * q) + r) \div d = q /\ ((d * q) + r) % d = r
BY DivUnique, ModUnique

(* Products of numbers in order are.                                         *)
LEMMA Products ==
    ASSUME NEW a \in Nat, NEW b \in Nat \ {0}, NEW c \in Nat, b <= c
    PROVE  /\ a * (b - 1) \in Nat /\ a * b \in Nat /\ a * c \in Nat
           /\ (a * (b - 1)) + a = a * b /\ a * b <= a * c
<1>1. a * (b - 1) \in Nat /\ a * b \in Nat /\ a * c \in Nat
  BY SMTT(30)
<1>2. (a * (b - 1)) + a = a * b
  BY SMTT(30)
<1>3. a * b <= a * c
  BY SMTT(30)
<1> QED
  BY <1>1, <1>2, <1>3

(* A sum taken apart.                                                        *)
LEMMA SumApart ==
    ASSUME NEW x \in Int, NEW y \in Int, NEW k \in Int
    PROVE  (x + y) + k = (x + (y + (k - 1))) + 1
OBVIOUS

(* The digits of row i's number j.                                           *)
LEMMA SerializedAt ==
    ASSUME NEW rows, Len(rows) \in Nat, NEW width \in Nat \ {0}, NEW i \in 1..Len(rows),
           NEW j \in 1..width, NEW size, size = NativeSize(Class), NEW k \in 1..size,
           NEW at, at = ((width * size) * (i - 1)) + (size * (j - 1))
    PROVE  Serialized(rows, width)[at + k] = Digits(rows[i][j], size, Order)[k]
<1> DEFINE m == width * size
           n == Len(rows)
           c == (size * (j - 1)) + (k - 1)
           p == at + k
<1>1. size \in Nat \ {0} /\ m \in Nat \ {0} /\ n \in Nat
  <2>1. size \in Nat \ {0}
    <3>1. NativeSize(Class) \in {Word, 2 * Word} /\ Word \in Nat \ {0}
      BY Sizes
    <3> QED
      BY <3>1
  <2> QED
    BY <2>1, SMTT(30)
<1>2. c \in 0..(m - 1) /\ c \div size = j - 1 /\ c % size = k - 1
  <2>1. j - 1 \in Nat /\ k - 1 \in 0..(size - 1)
    BY <1>1
  <2>2. c \div size = j - 1 /\ c % size = k - 1
    BY <1>1, <2>1, Quotient
  <2>3. c \in 0..(m - 1)
    <3> DEFINE z == size * (j - 1)
    <3> DEFINE y == size * j
    <3>1. size \in Nat /\ j \in Nat \ {0} /\ j <= width /\ width \in Nat
      BY <1>1
    <3>2. z \in Nat /\ z + size = y /\ y <= size * width /\ y \in Nat
      BY <3>1, Products
    <3>3. size * width = m
      BY <1>1
    <3> HIDE DEF z, y, m
    <3>4. z \in Nat /\ z + size = y /\ y <= m /\ y \in Nat
      BY <3>2, <3>3
    <3>5. z + (k - 1) \in 0..(m - 1)
      BY <1>1, <2>1, <3>4
    <3> QED
      BY <3>5 DEF z
  <2> QED
    BY <2>2, <2>3
<1>3. at + k = (m * (i - 1)) + c + 1
  <2> DEFINE y == m * (i - 1)
             z == size * (j - 1)
  <2>1. y \in Int /\ z \in Int
    BY <1>1, SMTT(30)
  <2>2. at = y + z
    OBVIOUS
  <2> HIDE DEF y, z, m
  <2>3. at + k = y + (z + (k - 1)) + 1
    <3>1. k \in Int
      BY <1>1
    <3>2. (y + z) + k = (y + (z + (k - 1))) + 1
      BY <2>1, <3>1, SumApart
    <3> QED
      BY <2>2, <3>2, Zenon
  <2> QED
    BY <2>3, Zenon DEF y, z
<1> HIDE DEF c, m
<1>4. i - 1 \in Nat /\ c \in Nat
  BY <1>1, <1>2
<1> DEFINE q == (m * (i - 1)) + c
<1>5. q \div m = i - 1 /\ q % m = c
  BY <1>1, <1>2, <1>4, Quotient
<1>6. q \in 0..((m * n) - 1)
  <2> DEFINE y == m * (i - 1)
  <2>1. y \in Nat /\ y + m <= m * n /\ m * n \in Nat
    <3>1. m \in Nat /\ i \in Nat \ {0} /\ i <= n
      BY <1>1
    <3>2. y \in Nat /\ y + m = m * i /\ m * i <= m * n /\ m * n \in Nat /\ m * i \in Nat
      BY <1>1, <3>1, Products
    <3> DEFINE x == m * i
               t == m * n
    <3> HIDE DEF x, y, t
    <3>3. y \in Nat /\ y + m = x /\ x <= t /\ t \in Nat
      BY <3>2 DEF x, y, t
    <3>4. y \in Nat /\ y + m <= t /\ t \in Nat
      BY <1>1, <3>3
    <3> QED
      BY <3>4 DEF t, y
  <2> DEFINE t == m * n
  <2> HIDE DEF y, t
  <2>2. y + c \in 0..(t - 1)
    BY <1>1, <1>2, <2>1 DEF t
  <2> QED
    BY <2>2 DEF y, t
<1> HIDE DEF q, n, p
<1>7. p = q + 1 /\ p \in 1..(m * n) /\ p - 1 = q
  <2> DEFINE t == m * n
  <2>1. t \in Nat
    BY <1>1, SMTT(30)
  <2>2. p = q + 1
    BY <1>3 DEF q, p
  <2> HIDE DEF t
  <2>3. q \in 0..(t - 1)
    BY <1>6 DEF t
  <2>4. p \in 1..t /\ p - 1 = q
    BY <2>1, <2>2, <2>3
  <2> QED
    BY <2>2, <2>4 DEF t
<1>8. Serialized(rows, width) =
          [o \in 1..(m * n) |->
              Digits(rows[((o - 1) \div m) + 1][(((o - 1) % m) \div size) + 1], size, Order)
                  [(((o - 1) % m) % size) + 1]]
  BY DEF Serialized, m, n
<1>9. Serialized(rows, width)[p] =
          Digits(rows[((p - 1) \div m) + 1][(((p - 1) % m) \div size) + 1], size, Order)
              [(((p - 1) % m) % size) + 1]
  BY <1>7, <1>8, Zenon
<1>10. ((p - 1) \div m) + 1 = i /\ (((p - 1) % m) \div size) + 1 = j
       /\ (((p - 1) % m) % size) + 1 = k
  BY <1>2, <1>5, <1>7
<1> QED
  BY <1>9, <1>10, Zenon DEF p

(* How long a table is.                                                      *)
LEMMA SerializedLength ==
    ASSUME NEW rows, Len(rows) \in Nat, NEW width \in Nat \ {0}, NEW size,
           size = NativeSize(Class)
    PROVE  /\ Len(Serialized(rows, width)) = (width * size) * Len(rows)
           /\ Len(Serialized(rows, width)) % (width * size) = 0
           /\ Len(Serialized(rows, width)) \div (width * size) = Len(rows)
<1> DEFINE m == width * size
           n == Len(rows)
<1>1. m \in Nat \ {0} /\ n \in Nat
  <2>1. size \in Nat \ {0}
    <3>1. NativeSize(Class) \in {Word, 2 * Word} /\ Word \in Nat \ {0}
      BY Sizes
    <3> QED
      BY <3>1
  <2> QED
    BY <2>1, SMTT(30)
<1>2. m * n \in Nat
  BY <1>1, SMTT(30)
<1>3. Len(Serialized(rows, width)) = m * n
  <2> DEFINE byte(o) == Digits(rows[((o - 1) \div m) + 1][(((o - 1) % m) \div size) + 1], size, Order)
                            [(((o - 1) % m) % size) + 1]
             t == m * n
  <2>1. Serialized(rows, width) = [o \in 1..t |-> byte(o)]
    BY DEF Serialized
  <2> HIDE DEF byte, t
  <2>2. t \in Nat
    BY <1>2 DEF t
  <2> QED
    BY <2>1, <2>2 DEF t
<1> HIDE DEF m, n
<1>4. 0 \in 0..(m - 1) /\ (m * n) + 0 = m * n
  BY <1>1, <1>2
<1>5. ((m * n) + 0) \div m = n /\ ((m * n) + 0) % m = 0
  BY <1>1, <1>4, Quotient
<1> QED
  BY <1>3, <1>4, <1>5 DEF m, n

-----------------------------------------------------------------------------
(* The relocations come back.                                                *)

(* What a word and a double word can tell.                                   *)
LEMMA Spans ==
    /\ Word \in 0..(2 * Word) /\ 2 * Word \in 0..(2 * Word) /\ Word - 1 \in 0..(2 * Word)
    /\ Radix^Word \in Nat \ {0} /\ Radix^(Word - 1) \in Nat \ {0}
    /\ Radix^(2 * Word) \in Nat \ {0}
    /\ Radix^Word = Radix * Radix^(Word - 1)
    /\ Radix^(2 * Word) = Radix^Word * Radix^Word
<1>1. Word \in Nat \ {0} /\ Word > 1 /\ Radix \in Nat \ {0}
  BY Sizes
<1>2. /\ Word \in 0..(2 * Word) /\ 2 * Word \in 0..(2 * Word) /\ Word - 1 \in 0..(2 * Word)
      /\ Word \in 1..(2 * Word)
  BY <1>1
<1>3. /\ Radix^Word \in Nat \ {0} /\ Radix^(Word - 1) \in Nat \ {0}
      /\ Radix^(2 * Word) \in Nat \ {0}
  BY <1>2, TablesAssumption
<1>4. Radix^Word = Radix * Radix^(Word - 1)
  BY <1>2, TablesAssumption
<1> DEFINE a == Radix^Word
           S == {j \in Nat : j <= Word => Radix^(Word + j) = a * Radix^j}
<1>5. 0 \in S
  <2>1. Radix^0 = 1 /\ Word + 0 = Word
    BY <1>1, TablesAssumption
  <2>2. a * 1 = a
    BY <1>3
  <2>3. Radix^(Word + 0) = a * Radix^0
    BY <2>1, <2>2, Zenon
  <2> QED
    BY <2>3
<1>6. ASSUME NEW j \in S PROVE j + 1 \in S
  <2> SUFFICES ASSUME j + 1 <= Word PROVE Radix^(Word + (j + 1)) = a * Radix^(j + 1)
    OBVIOUS
  <2>1. /\ Radix^(Word + j) = a * Radix^j /\ (Word + (j + 1)) - 1 = Word + j
        /\ (j + 1) - 1 = j
        /\ Word + (j + 1) \in 1..(2 * Word) /\ j + 1 \in 1..(2 * Word) /\ j \in 0..(2 * Word)
    BY <1>1
  <2> DEFINE b == Radix^j
  <2>2. Radix^(Word + (j + 1)) = Radix * Radix^((Word + (j + 1)) - 1)
    BY <2>1, TablesAssumption
  <2>3. Radix^(j + 1) = Radix * Radix^((j + 1) - 1)
    BY <2>1, TablesAssumption
  <2>4. Radix^(Word + (j + 1)) = Radix * (a * b) /\ Radix^(j + 1) = Radix * b
    BY <2>1, <2>2, <2>3, Zenon
  <2>5. a \in Nat /\ b \in Nat
    BY <1>3, <2>1, TablesAssumption
  <2> HIDE DEF a, b
  <2>6. Radix * (a * b) = a * (Radix * b)
    BY <1>1, <2>5, SMTT(30)
  <2> QED
    BY <2>4, <2>6, Zenon
<1>7. S = Nat
  <2>1. S \in SUBSET Nat
    OBVIOUS
  <2> HIDE DEF S
  <2> QED
    BY <1>5, <1>6, <2>1, SetInduction
<1>8. Radix^(Word + Word) = a * Radix^Word
  BY <1>1, <1>7
<1>9. Word + Word = 2 * Word
  BY <1>1
<1>10. Radix^(2 * Word) = a * Radix^Word
  BY <1>8, <1>9, Zenon
<1> QED
  BY <1>2, <1>3, <1>4, <1>10

(* A number made of two is less than the product of their bounds.            *)
LEMMA PairBound ==
    ASSUME NEW s \in Nat \ {0}, NEW d \in Nat \ {0}, NEW q \in 0..(s - 1), NEW r \in 0..(d - 1)
    PROVE  (q * d) + r \in 0..((d * s) - 1)
<1>1. d * q \in Nat /\ d * s \in Nat /\ q * d = d * q
  BY SMTT(30)
<1>2. (d * q) + d <= d * s
  BY SMTT(30)
<1> DEFINE x == d * q
           y == d * s
<1>3. x \in Nat /\ y \in Nat /\ x + d <= y
  BY <1>1, <1>2
<1> HIDE DEF x, y
<1>4. x + r \in 0..(y - 1)
  BY <1>3
<1>5. (q * d) + r = x + r
  BY <1>1, Zenon DEF x
<1>6. (q * d) + r \in 0..(y - 1)
  BY <1>4, <1>5, Zenon
<1> QED
  BY <1>6 DEF y

(* The numbers of an entry the class has room for.                           *)
LEMMA EntryNumbers ==
    ASSUME NEW entry \in Relocation, Class \in Classes, Representable(entry),
           NEW size, size = NativeSize(Class), NEW span, span = TypeSpan(Class)
    PROVE  /\ entry.offset \in 0..(Radix^size - 1) /\ Info(entry) \in 0..(Radix^size - 1)
           /\ Info(entry) \div span = entry.symbol /\ Info(entry) % span = entry.type
           /\ entry.symbol % Radix^Word = entry.symbol
           /\ \E asked \in Int :
                  /\ (entry.addend = {} /\ asked = 0) \/ entry.addend = {asked}
                  /\ Addend(entry) = asked
                  /\ -(Radix^size) <= 2 * asked /\ 2 * asked < Radix^size
<1> DEFINE a == Radix^Word
           b == Radix^(2 * Word)
           c == Radix^(Word - 1)
<1>1. /\ a \in Nat \ {0} /\ b \in Nat \ {0} /\ c \in Nat \ {0} /\ a = Radix * c /\ b = a * a
      /\ Radix \in Nat \ {0}
  BY Spans, Sizes
<1>2. entry.offset \in 0..(b - 1) /\ entry.symbol \in 0..(a - 1) /\ entry.type \in 0..(a - 1)
  BY RelocationParts, BuilderAssumption DEF U64, U32
<1>3. PICK asked \in I64 :
          /\ (entry.addend = {} /\ asked = 0) \/ entry.addend = {asked}
          /\ Addend(entry) = IF /\ Class = "Elf32" /\ ~(-a <= 2 * asked /\ 2 * asked < a)
                             THEN 0 ELSE asked
  BY RelocationParts
<1>4. asked \in Int /\ -b <= 2 * asked /\ 2 * asked < b
  <2>1. asked \in -(b \div 2)..((b \div 2) - 1)
    BY DEF I64
  <2> HIDE DEF b
  <2> QED
    BY <1>1, <2>1
<1>5. Class = "Elf32" => /\ entry.offset < a /\ entry.symbol < c /\ entry.type < Radix
                         /\ \A x \in entry.addend : -a <= 2 * x /\ 2 * x < a
  BY DEF Representable
<1>6. Info(entry) = (entry.symbol * span) + (entry.type % span)
  BY DEF Info
<1>7. Class = "Elf64" => size = 2 * Word /\ span = a
  BY DEF NativeSize, TypeSpan
<1>8. Class = "Elf32" => size = Word /\ span = Radix
  BY DEF NativeSize, TypeSpan
<1>9. Class = "Elf32" \/ Class = "Elf64"
  BY DEF Classes
<1> DEFINE p == Radix^size
           room == IF Class = "Elf32" THEN c ELSE a
<1>10. /\ Class = "Elf64" => p = b
       /\ Class = "Elf32" => p = a
  BY <1>7, <1>8, Zenon
<1>11. /\ span \in Nat \ {0} /\ room \in Nat \ {0} /\ p = span * room
       /\ entry.symbol \in 0..(room - 1) /\ entry.type \in 0..(span - 1)
       /\ entry.offset \in 0..(p - 1)
  <2> HIDE DEF a, b, c, p
  <2>1. CASE Class = "Elf32"
    BY <1>1, <1>2, <1>5, <1>8, <1>10, <2>1
  <2>2. CASE Class = "Elf64"
    BY <1>1, <1>2, <1>7, <1>10, <2>2
  <2> QED
    BY <1>9, <2>1, <2>2
<1>12. Addend(entry) = asked /\ -p <= 2 * asked /\ 2 * asked < p
  <2> HIDE DEF a, b, c, p
  <2>1. CASE Class = "Elf32"
    <3>1. -a <= 2 * asked /\ 2 * asked < a
      BY <1>1, <1>3, <1>5, <2>1
    <3> QED
      BY <1>3, <1>10, <2>1, <3>1
  <2>2. CASE Class = "Elf64"
    BY <1>3, <1>4, <1>10, <2>2
  <2> QED
    BY <1>9, <2>1, <2>2
<1>13. entry.symbol % a = entry.symbol
  <2> HIDE DEF a
  <2> QED
    BY <1>1, <1>2, SMTT(30)
<1> HIDE DEF a, b, c, p, room
<1> DEFINE q == entry.symbol
           r == entry.type
<1>14. q \in Nat /\ r \in 0..(span - 1) /\ q \in 0..(room - 1) /\ r \in Nat
  BY <1>11
<1> HIDE DEF q, r
<1>15. r % span = r
  BY <1>11, <1>14, SMTT(30)
<1>16. Info(entry) = (q * span) + r
  BY <1>6, <1>15, Zenon DEF q, r
<1>17. (q * span) + r \in 0..((span * room) - 1)
  BY <1>11, <1>14, PairBound
<1>18. q * span = span * q
  BY <1>11, <1>14, SMTT(30)
<1>19. ((span * q) + r) \div span = q /\ ((span * q) + r) % span = r
  BY <1>11, <1>14, Quotient
<1>20. Info(entry) \in 0..(p - 1) /\ Info(entry) \div span = q /\ Info(entry) % span = r
  BY <1>11, <1>16, <1>17, <1>18, <1>19, Zenon
<1>21. asked \in Int /\ ((entry.addend = {} /\ asked = 0) \/ entry.addend = {asked})
  BY <1>3, <1>4
<1>22. \E x \in Int : /\ (entry.addend = {} /\ x = 0) \/ entry.addend = {x}
                      /\ Addend(entry) = x
                      /\ -p <= 2 * x /\ 2 * x < p
  BY <1>12, <1>21, Zenon
<1> QED
  BY <1>11, <1>13, <1>20, <1>22, Zenon DEF p, q, r, a

(* The table has one row for each entry,                                     *)
LEMMA RelaTableRows ==
    ASSUME request.relocations \in Seq(Relocation), NEW size, size = NativeSize(Class)
    PROVE  \E rows :
               /\ RelaTable = Serialized(rows, 3) /\ Len(rows) = Len(request.relocations)
               /\ \A i \in 1..Len(request.relocations) :
                      LET entry == request.relocations[i]
                      IN  /\ rows[i][1] = entry.offset /\ rows[i][2] = Info(entry)
                          /\ rows[i][3] = Addend(entry)
<1> DEFINE list == request.relocations
           row(entry) == <<entry.offset, Info(entry), Addend(entry)>>
           rows == [i \in 1..Len(list) |-> row(list[i])]
<1>1. RelaTable = Serialized(rows, 3)
  BY DEF RelaTable
<1>2. \A e : row(e)[1] = e.offset /\ row(e)[2] = Info(e) /\ row(e)[3] = Addend(e)
  OBVIOUS
<1>3. Len(list) \in Nat
  OBVIOUS
<1> HIDE DEF row, list
<1>4. Len(rows) = Len(list) /\ \A i \in 1..Len(list) : rows[i] = row(list[i])
  BY <1>3
<1> HIDE DEF rows
<1>5. \A i \in 1..Len(list) : /\ rows[i][1] = list[i].offset /\ rows[i][2] = Info(list[i])
                              /\ rows[i][3] = Addend(list[i])
  BY <1>2, <1>4
<1> QED
  BY <1>1, <1>4, <1>5 DEF list

(* three numbers in a row,                                                   *)
LEMMA RelaDigits ==
    ASSUME NEW rows, Len(rows) \in Nat, NEW i \in 1..Len(rows), NEW j \in 1..3,
           NEW size, size = NativeSize(Class), NEW k \in 1..size, NEW at,
           at = ((3 * size) * (i - 1)) + (size * (j - 1))
    PROVE  Serialized(rows, 3)[at + k] = Digits(rows[i][j], size, Order)[k]
<1>1. 3 \in Nat \ {0}
  OBVIOUS
<1>2. \A width \in Nat \ {0} :
          j \in 1..width /\ at = ((width * size) * (i - 1)) + (size * (j - 1)) =>
              Serialized(rows, width)[at + k] = Digits(rows[i][j], size, Order)[k]
  BY SerializedAt
<1>3. \A width \in Nat \ {0} :
          width = 3 => Serialized(rows, width)[at + k] = Digits(rows[i][j], size, Order)[k]
  BY <1>2
<1> QED
  BY <1>1, <1>3

(* and from the row an entry is read as it was asked for.                    *)
LEMMA EntryRead ==
    ASSUME request.relocations \in Seq(Relocation), Class \in Classes,
           NEW i \in 1..Len(request.relocations), Representable(request.relocations[i])
    PROVE  RelocationEntries(RelaTable, TRUE, Class, Order)[i] = AskedRelocations[i]
<1> DEFINE size == NativeSize(Class)
           span == TypeSpan(Class)
           entry == request.relocations[i]
           at    == (3 * size) * (i - 1)
<1>1. size \in 1..(2 * Word) /\ Word \in Nat \ {0} /\ size \in 0..(2 * Word)
  BY Sizes
<1>2. entry \in Relocation /\ Len(request.relocations) \in Nat
  OBVIOUS
<1>3. PICK rows : /\ RelaTable = Serialized(rows, 3)
                  /\ Len(rows) = Len(request.relocations)
                  /\ rows[i][1] = entry.offset /\ rows[i][2] = Info(entry)
                  /\ rows[i][3] = Addend(entry)
  BY RelaTableRows
<1>4. i \in 1..Len(rows) /\ Len(rows) \in Nat
  BY <1>2, <1>3
<1>5. RelocationEntries(RelaTable, TRUE, Class, Order)[i] =
          RelocationAt(RelaTable, at, TRUE, Class, Order)
  <2>1. RelocationSize(Class, TRUE) = 3 * size
    BY <1>1 DEF RelocationSize
  <2>2. Len(RelaTable) \div (3 * size) = Len(rows)
    BY <1>3, <1>4, SerializedLength
  <2>3. i \in 1..(Len(RelaTable) \div RelocationSize(Class, TRUE))
    BY <1>4, <2>1, <2>2, Zenon
  <2>4. RelocationEntries(RelaTable, TRUE, Class, Order)[i] =
            RelocationAt(RelaTable, RelocationSize(Class, TRUE) * (i - 1), TRUE, Class, Order)
    BY <2>3, Zenon DEF RelocationEntries
  <2> QED
    BY <2>1, <2>4, Zenon
<1> DEFINE offset == NumberAt(RelaTable, at, size, Order)
           info   == NumberAt(RelaTable, at + size, size, Order)
           addend == Signed(NumberAt(RelaTable, at + (2 * size), size, Order), size)
<1>6. RelocationAt(RelaTable, at, TRUE, Class, Order) =
          [offset |-> offset, symbol |-> (info \div span) % Radix^Word, type |-> info % span,
           addend |-> {addend}]
  BY DEF RelocationAt
<1>7. /\ entry.offset \in 0..(Radix^size - 1) /\ Info(entry) \in 0..(Radix^size - 1)
      /\ Info(entry) \div span = entry.symbol /\ Info(entry) % span = entry.type
      /\ entry.symbol % Radix^Word = entry.symbol
  BY <1>2, EntryNumbers
<1>8. PICK asked \in Int :
          /\ (entry.addend = {} /\ asked = 0) \/ entry.addend = {asked}
          /\ Addend(entry) = asked
          /\ -(Radix^size) <= 2 * asked /\ 2 * asked < Radix^size
  BY <1>2, EntryNumbers
<1> DEFINE base == (3 * size) * (i - 1)
<1>9. base \in Int
  BY <1>1, <1>4, SMTT(30)
<1>10. ASSUME NEW j \in 1..3, NEW k \in 1..size, NEW here, here = base + (size * (j - 1))
       PROVE  RelaTable[here + k] = Digits(rows[i][j], size, Order)[k]
  <2> HIDE DEF size, base
  <2>1. Serialized(rows, 3)[here + k] = Digits(rows[i][j], size, Order)[k]
    <3>1. /\ j \in 1..3 /\ k \in 1..size /\ i \in 1..Len(rows) /\ Len(rows) \in Nat
          /\ size = NativeSize(Class)
          /\ here = ((3 * size) * (i - 1)) + (size * (j - 1))
      BY <1>4, <1>10 DEF size, base
    <3> QED
      BY <3>1, RelaDigits
  <2> QED
    BY <1>3, <2>1, Zenon
<1> HIDE DEF size, span, base, entry
<1>11. offset = entry.offset
  <2>1. 1 \in 1..3 /\ at = base + (size * (1 - 1))
    BY <1>1, <1>9 DEF base
  <2>2. \A k \in 1..size : RelaTable[at + k] = Digits(entry.offset, size, Order)[k]
    BY <1>3, <1>10, <2>1
  <2> QED
    BY <1>1, <1>7, <2>2, NumberRead
<1>12. info = Info(entry)
  <2>1. 2 \in 1..3 /\ at + size = base + (size * (2 - 1))
    BY <1>1, <1>9 DEF base
  <2>2. \A k \in 1..size : RelaTable[(at + size) + k] = Digits(Info(entry), size, Order)[k]
    BY <1>3, <1>10, <2>1
  <2> QED
    BY <1>1, <1>7, <2>2, NumberRead
<1>13. addend = asked
  <2>1. 3 \in 1..3 /\ at + (2 * size) = base + (size * (3 - 1))
    BY <1>1, <1>9 DEF base
  <2>2. \A k \in 1..size :
            RelaTable[(at + (2 * size)) + k] = Digits(asked, size, Order)[k]
    BY <1>3, <1>8, <1>10, <2>1
  <2> QED
    BY <1>1, <1>8, <2>2, SignedRead
<1> HIDE DEF offset, info, addend, at
<1>14. AskedRelocations[i] = [entry EXCEPT !.addend = IF @ = {} THEN {0} ELSE @]
  BY DEF AskedRelocations, entry
<1>15. AskedRelocations[i] = [offset |-> entry.offset, symbol |-> entry.symbol,
                              type |-> entry.type, addend |-> {asked}]
  <2>1. entry \in [offset : U64, symbol : U32, type : U32, addend : SUBSET I64]
    BY <1>2 DEF Relocation
  <2>2. (IF entry.addend = {} THEN {0} ELSE entry.addend) = {asked}
    BY <1>8
  <2> QED
    BY <1>14, <2>1, <2>2
<1> QED
  BY <1>5, <1>6, <1>7, <1>11, <1>12, <1>13, <1>15, Zenon

(* The section of relocations is the only table, and is as it was made.      *)
LEMMA RelocationSection ==
    ASSUME TablesInv, pc = "done"
    PROVE  LET list   == Built.sections
               tables == Chosen(list, {i \in 1..Len(list) : IsTable(list[i])})
           IN  /\ request.relocations = <<>> => tables = <<>>
               /\ request.relocations # <<>> =>
                      Len(tables) = 1 /\ tables[1].data = RelaTable /\ IsRela(tables[1])
<1> DEFINE list    == Built.sections
           indices == {i \in 1..Len(list) : IsTable(list[i])}
           m       == Len(secs)
           rela    == NewSection(RelaDyn, "RELA", FALSE, 8, RelaTable)
<1>1. TypeOK /\ ListsInv /\ stage = "assembled" /\ CallInv
  BY DEF TablesInv, SessionInv
<1>2. /\ secs \in Seq(Plain) /\ m \in Nat
      /\ request.relocations = <<>> => \A i \in 1..m : ~IsTable(secs[i])
      /\ request.relocations # <<>> =>
             m \in 1..m /\ secs[m] = rela /\ \A i \in 1..(m - 1) : ~IsTable(secs[i])
  <2>1. /\ secs \in Seq(Plain)
        /\ request.relocations = <<>> => \A i \in 1..m : ~IsTable(secs[i])
        /\ request.relocations # <<>> =>
               m \in 1..m /\ secs[m] = rela /\ \A i \in 1..(m - 1) : ~IsTable(secs[i])
    BY <1>1, SectionsAsked, Zenon
  <2>2. m \in Nat
    BY <2>1
  <2> QED
    BY <2>1, <2>2, Zenon
<1>3. SectionsLeft(image.sections, edit)
  BY DEF TablesInv, SectionsInv
<1>4. SectionsLeft(list, edit)
  BY <1>1, <1>2, <1>3, ReadIsLeft DEF Built
<1>5. list \in Seq(Section) /\ Len(list) \in Nat
  BY <1>1, CallFinished DEF Built, ElfImage
<1>6. rela.header.type = "RELA" /\ rela.header.alloc = FALSE /\ rela.data = RelaTable
  BY DEF NewSection
<1> HIDE DEF list, m, rela
<1>7. /\ m <= Len(list)
      /\ \A i \in 1..m : /\ IsTable(list[i]) <=> IsTable(secs[i])
                         /\ IsRela(list[i]) <=> IsRela(secs[i])
                         /\ secs[i].header.alloc = FALSE => list[i].data = secs[i].data
      /\ \A i \in (m + 1)..Len(list) : ~IsTable(list[i])
  BY <1>4 DEF SectionsLeft, SameKind, IsTable, IsRela, OutOfReach, m
<1>8. CASE request.relocations = <<>>
  <2>1. \A i \in 1..Len(list) : ~IsTable(list[i])
    <3>1. \A i \in 1..Len(list) : i \in 1..m \/ i \in (m + 1)..Len(list)
      BY <1>2, <1>5
    <3> QED
      BY <1>2, <1>7, <1>8, <3>1
  <2>2. \A i \in 1..Len(list) : i \in indices <=> 0 < i /\ i <= 0
    BY <2>1, <1>5
  <2> HIDE DEF indices
  <2>3. Chosen(list, indices) = SubSeq(list, 0 + 1, 0)
    <3>1. 0 \in Nat /\ 0 <= 0 /\ 0 <= Len(list)
      BY <1>5
    <3>2. \A a, b \in Nat : a = 0 /\ b = 0 => Chosen(list, indices) = SubSeq(list, a + 1, b)
      BY <1>5, <2>2, <3>1, ChosenRun
    <3> QED
      BY <3>1, <3>2
  <2>4. SubSeq(list, 0 + 1, 0) = <<>>
    BY <1>5
  <2> QED
    BY <1>8, <2>3, <2>4 DEF list, indices
<1>9. CASE request.relocations # <<>>
  <2>1. m \in 1..m /\ secs[m] = rela /\ m - 1 \in Nat /\ m <= Len(list)
    BY <1>2, <1>7, <1>9
  <2>2. IsTable(list[m]) /\ IsRela(list[m]) /\ list[m].data = RelaTable
    BY <1>6, <1>7, <2>1 DEF IsTable, IsRela
  <2>3. \A i \in 1..Len(list) : i \in indices <=> m - 1 < i /\ i <= m
    <3>1. \A i \in 1..Len(list) :
              i \in 1..(m - 1) \/ i = m \/ i \in (m + 1)..Len(list)
      BY <1>2, <1>5
    <3>2. \A i \in 1..(m - 1) : i \in 1..m /\ ~IsTable(secs[i])
      BY <1>2, <1>9
    <3> QED
      BY <1>2, <1>5, <1>7, <2>1, <2>2, <3>1, <3>2
  <2> HIDE DEF indices
  <2>4. Chosen(list, indices) = SubSeq(list, (m - 1) + 1, m)
    <3>1. m \in Nat /\ m - 1 <= m
      BY <1>2
    <3> QED
      BY <1>5, <2>1, <2>3, <3>1, ChosenRun
  <2>5. Len(SubSeq(list, (m - 1) + 1, m)) = 1 /\ SubSeq(list, (m - 1) + 1, m)[1] = list[m]
    <3>1. (m - 1) + 1 = m /\ m \in 1..Len(list)
      BY <1>2, <1>5, <2>1
    <3>2. Len(SubSeq(list, m, m)) = 1 /\ SubSeq(list, m, m)[1] = list[m]
      BY <1>5, <3>1
    <3> QED
      BY <3>1, <3>2
  <2> QED
    BY <1>9, <2>2, <2>4, <2>5 DEF list, indices
<1> QED
  BY <1>8, <1>9 DEF list

(* So the relocations are reported.                                          *)
LEMMA RelocationsAreReported == TablesInv => RelocationsReported
<1> SUFFICES ASSUME TablesInv, pc = "done"
             PROVE  \E tables \in RelocationTables(Built, Class, Order) :
                        IF request.relocations = <<>> THEN tables = <<>>
                        ELSE /\ Len(tables) = 1
                             /\ Len(tables[1]) = Len(request.relocations)
                             /\ \A i \in 1..Len(request.relocations) :
                                    Representable(request.relocations[i]) =>
                                        tables[1][i] = AskedRelocations[i]
  BY DEF RelocationsReported
<1> DEFINE list   == Built.sections
           tables == Chosen(list, {i \in 1..Len(list) : IsTable(list[i])})
           asked  == request.relocations
           size   == NativeSize(Class)
           entries == RelocationEntries(RelaTable, TRUE, Class, Order)
           found  == [i \in 1..Len(tables) |->
                         RelocationEntries(tables[i].data, IsRela(tables[i]), Class, Order)]
<1>1. /\ asked = <<>> => tables = <<>>
      /\ asked # <<>> => Len(tables) = 1 /\ tables[1].data = RelaTable /\ IsRela(tables[1])
  BY RelocationSection
<1>2. asked \in Seq(Relocation) /\ Class \in Classes
  <2>1. request.format \in Classes \X Orders /\ asked \in Seq(Relocation)
    BY BuilderAssumption DEF TablesInv, SessionInv, TypeOK, Requests
  <2> QED
    BY <2>1 DEF Class
<1>3. (\A i \in 1..Len(tables) : ~Malformed(tables[i], Class))
          => RelocationTables(Built, Class, Order) = {found}
  BY DEF RelocationTables
<1> HIDE DEF tables, list
<1>4. CASE asked = <<>>
  <2>1. tables = <<>> /\ Len(tables) = 0
    BY <1>1, <1>4
  <2>2. 1..Len(tables) = {}
    BY <2>1
  <2>3. RelocationTables(Built, Class, Order) = {found}
    BY <1>3, <2>2, Zenon
  <2>4. found = <<>>
    BY <2>1
  <2> QED
    BY <1>4, <2>3, <2>4
<1>5. CASE asked # <<>>
  <2>1. Len(tables) = 1 /\ tables[1].data = RelaTable /\ IsRela(tables[1])
    BY <1>1, <1>5
  <2>2. PICK rows : RelaTable = Serialized(rows, 3) /\ Len(rows) = Len(asked)
    BY <1>2, RelaTableRows
  <2>3. Len(RelaTable) % (3 * size) = 0 /\ Len(RelaTable) \div (3 * size) = Len(asked)
    <3>1. Len(rows) \in Nat /\ 3 \in Nat \ {0}
      BY <1>2, <2>2
    <3>2. \A width \in Nat \ {0} : width = 3 =>
              /\ Len(Serialized(rows, width)) % (width * size) = 0
              /\ Len(Serialized(rows, width)) \div (width * size) = Len(rows)
      BY <3>1, SerializedLength
    <3> QED
      BY <2>2, <3>1, <3>2
  <2>4. RelocationSize(Class, TRUE) = 3 * size
    BY Sizes DEF RelocationSize
  <2>5. ~Malformed(tables[1], Class)
    BY <2>1, <2>3, <2>4 DEF Malformed
  <2>6. RelocationTables(Built, Class, Order) = {found}
    <3>1. \A i \in 1..Len(tables) : i = 1
      BY <2>1
    <3> QED
      BY <1>3, <2>5, <3>1, Zenon
  <2>7. Len(found) = 1 /\ found[1] = entries
    <3>1. IsRela(tables[1]) = TRUE
      BY <2>1 DEF IsRela
    <3>2. 1 \in 1..Len(tables)
      BY <2>1
    <3>3. found[1] = RelocationEntries(tables[1].data, IsRela(tables[1]), Class, Order)
      BY <3>2, Zenon
    <3>4. found[1] = entries
      BY <2>1, <3>1, <3>3, Zenon
    <3> DEFINE one(i) == RelocationEntries(tables[i].data, IsRela(tables[i]), Class, Order)
    <3>5. found = [i \in 1..Len(tables) |-> one(i)]
      OBVIOUS
    <3> HIDE DEF found, one
    <3>6. Len(found) = 1
      BY <2>1, <3>5
    <3> QED
      BY <3>4, <3>6, Zenon
  <2>8. Len(entries) = Len(asked)
    <3> DEFINE n == Len(RelaTable) \div RelocationSize(Class, TRUE)
               entry(i) == RelocationAt(RelaTable, RelocationSize(Class, TRUE) * (i - 1),
                                        TRUE, Class, Order)
    <3>1. entries = [i \in 1..n |-> entry(i)]
      BY Zenon DEF RelocationEntries
    <3>2. n = Len(asked)
      BY <2>3, <2>4, Zenon
    <3>3. Len(asked) \in Nat
      BY <1>2
    <3> HIDE DEF n, entry, entries, asked
    <3> QED
      BY <3>1, <3>2, <3>3
  <2>9. \A i \in 1..Len(asked) : Representable(asked[i]) => entries[i] = AskedRelocations[i]
    BY <1>2, EntryRead
  <2> HIDE DEF found, entries
  <2>10. /\ Len(found) = 1 /\ Len(found[1]) = Len(asked)
         /\ \A i \in 1..Len(asked) :
                Representable(asked[i]) => found[1][i] = AskedRelocations[i]
    BY <2>7, <2>8, <2>9
  <2> QED
    BY <1>5, <2>6, <2>10
<1> QED
  BY <1>4, <1>5

(* Whatever else is asked for and wherever the user writes, the relocations  *)
(* asked for come back in their order, as far as the class has room for      *)
(* them (builder.rs:356-375, reloc.rs:62-132).                               *)
THEOREM RelocationsAreAsAskedFor == SessionSpec => []RelocationsReported
BY TablesStart, TablesStep, RelocationsAreReported, PTL DEF SessionSpec

-----------------------------------------------------------------------------
(* The notes come back.                                                      *)

(* Whatever the bytes are, a number read from them is one.                   *)
LEMMA NumberType ==
    ASSUME NEW data, NEW at, NEW size \in 0..(2 * Word), NEW order
    PROVE  NumberAt(data, at, size, order) \in Nat
<1>1. size \in Nat /\ Radix \in Nat \ {0} /\ Word \in Nat
  BY Sizes
<1>2. PICK g : \A k \in 1..size : g[k] = Value(data[at + k]) * Place(k, size, order)
  <2>1. \A k \in 1..size : [j \in 1..size |-> Value(data[at + j]) * Place(j, size, order)][k]
                            = Value(data[at + k]) * Place(k, size, order)
    OBVIOUS
  <2> QED
    BY <2>1, Zenon
<1>3. ASSUME NEW k \in 1..size PROVE g[k] \in Nat
  <2>1. Place(k, size, order) \in Nat
    <3>1. k - 1 \in 0..(2 * Word) /\ size - k \in 0..(2 * Word)
      BY <1>1
    <3>2. Radix^(k - 1) \in Nat /\ Radix^(size - k) \in Nat
      BY <3>1, TablesAssumption
    <3> QED
      BY <3>2, Zenon DEF Place
  <2>2. Value(data[at + k]) \in Nat
    <3> DEFINE byte == data[at + k]
    <3>1. Datum \subseteq Nat /\ 0 \in Datum
      BY <1>1, TablesAssumption, FormatAssumption
    <3>2. (CHOOSE d \in Datum : TRUE) \in Datum
      BY <3>1
    <3>3. byte \in RawByte => byte[1] \in Datum
      BY DEF RawByte
    <3> HIDE DEF byte
    <3>4. Value(byte) \in Datum
      BY <3>2, <3>3 DEF Value
    <3> QED
      BY <3>1, <3>4 DEF byte
  <2> DEFINE v == Value(data[at + k])
             p == Place(k, size, order)
  <2>3. g[k] = v * p /\ v \in Nat /\ p \in Nat
    BY <1>2, <2>1, <2>2
  <2> HIDE DEF v, p
  <2>4. v * p \in Nat
    BY <2>3, SMTT(30)
  <2> QED
    BY <2>3, <2>4, Zenon
<1>4. PICK u : IsSum(u, size, g) /\ NumberAt(data, at, size, order) = u[size]
  <2>1. size \in Nat
    BY <1>1
  <2> QED
    BY <1>2, <2>1, NumberAddsUp, Zenon
<1>5. \A k \in 0..size : u[k] = IF k = 0 THEN 0 ELSE u[k - 1] + g[k]
  BY <1>4, Zenon DEF IsSum
<1>6. u[0] = 0 /\ \A k \in 1..size : u[k] = u[k - 1] + g[k]
  BY <1>1, <1>5
<1> DEFINE S == {k \in Nat : k <= size => u[k] \in Nat}
<1>7. 0 \in S
  BY <1>6
<1>8. ASSUME NEW k \in S PROVE k + 1 \in S
  <2> SUFFICES ASSUME k + 1 <= size PROVE u[k + 1] \in Nat
    OBVIOUS
  <2>1. u[k] \in Nat /\ k + 1 \in 1..size /\ (k + 1) - 1 = k
    BY <1>1
  <2>2. u[k + 1] = u[k] + g[k + 1] /\ g[k + 1] \in Nat
    BY <1>3, <1>6, <2>1
  <2> QED
    BY <2>1, <2>2
<1>9. S = Nat
  <2>1. S \in SUBSET Nat
    OBVIOUS
  <2> HIDE DEF S
  <2> QED
    BY <1>7, <1>8, <2>1, SetInduction
<1>10. u[size] \in Nat
  BY <1>1, <1>9
<1> QED
  BY <1>4, <1>10

(* A walk over the positions 0..n that stops at some, and goes on from each  *)
(* other one to a later one,                                                 *)
GoesForward(n, stops, next) ==
    \A at \in 0..n : at \notin stops => next[at] \in (at + 1)..n
Collects(f, n, stops, item, next) ==
    \A at \in 0..n :
        f[at] = IF at \in stops THEN <<>> ELSE <<item[at]>> \o f[next[at]]

(* has an end.                                                               *)
LEMMA Downward ==
    ASSUME NEW n \in Nat, NEW stops, NEW item, NEW next, GoesForward(n, stops, next)
    PROVE  \E f : Collects(f, n, stops, item, next)
<1>0. \A at \in 0..n : at \notin stops => next[at] \in (at + 1)..n
  BY DEF GoesForward
<1> DEFINE Walks(f, m) == \A at \in 0..n : m <= at =>
               f[at] = IF at \in stops THEN <<>> ELSE <<item[at]>> \o f[next[at]]
           S == {k \in Nat : \E f : Walks(f, (n + 1) - k)}
<1>1. 0 \in S
  <2>1. \A f : Walks(f, (n + 1) - 0)
    OBVIOUS
  <2> QED
    BY <2>1
<1>2. ASSUME NEW k \in S PROVE k + 1 \in S
  <2> DEFINE m == (n + 1) - k
             b == (n + 1) - (k + 1)
  <2>1. PICK f : Walks(f, m)
    OBVIOUS
  <2>2. m = b + 1 /\ b \in Int
    OBVIOUS
  <2> HIDE DEF m, b
  <2> DEFINE g == [at \in 0..n |->
                      IF at = b
                      THEN IF at \in stops THEN <<>> ELSE <<item[at]>> \o f[next[at]]
                      ELSE f[at]]
  <2>3. \A at \in 0..n :
            g[at] = IF at = b
                    THEN IF at \in stops THEN <<>> ELSE <<item[at]>> \o f[next[at]]
                    ELSE f[at]
    OBVIOUS
  <2> HIDE DEF g
  <2>4. ASSUME NEW at \in 0..n, b <= at
        PROVE  g[at] = IF at \in stops THEN <<>> ELSE <<item[at]>> \o g[next[at]]
    <3>1. at \notin stops => next[at] \in 0..n /\ next[at] # b /\ g[next[at]] = f[next[at]]
      <4>1. SUFFICES ASSUME at \notin stops
                     PROVE  next[at] \in 0..n /\ next[at] # b /\ g[next[at]] = f[next[at]]
        OBVIOUS
      <4>2. next[at] \in (at + 1)..n
        BY <1>0, <4>1
      <4>3. next[at] \in 0..n /\ next[at] # b
        BY <2>2, <2>4, <4>2
      <4> QED
        BY <2>3, <4>3
    <3>2. CASE at = b
      BY <2>3, <3>1, <3>2
    <3>3. CASE at # b
      <4>1. m <= at
        BY <2>2, <2>4, <3>3
      <4>2. f[at] = IF at \in stops THEN <<>> ELSE <<item[at]>> \o f[next[at]]
        BY <2>1, <4>1
      <4>3. g[at] = f[at]
        BY <2>3, <3>3
      <4> QED
        BY <3>1, <4>2, <4>3
    <3> QED
      BY <3>2, <3>3
  <2>5. Walks(g, b)
    BY <2>4
  <2> QED
    BY <2>5 DEF b
<1>3. S = Nat
  <2>1. S \in SUBSET Nat
    OBVIOUS
  <2> HIDE DEF S
  <2> QED
    BY <1>1, <1>2, <2>1, SetInduction
<1>4. n + 1 \in S
  <2>1. n + 1 \in Nat
    OBVIOUS
  <2> HIDE DEF S
  <2> QED
    BY <1>3, <2>1
<1>5. PICK f : Walks(f, (n + 1) - (n + 1))
  BY <1>4
<1>6. \A at \in 0..n : (n + 1) - (n + 1) <= at
  OBVIOUS
<1>7. Collects(f, n, stops, item, next)
  BY <1>5, <1>6 DEF Collects
<1> QED
  BY <1>7, Zenon

(* How much a run is padded.                                                 *)
LEMMA PaddingType == \A n \in Nat : Padding(n) \in 0..(Word - 1)
<1> SUFFICES ASSUME NEW n \in Nat PROVE Padding(n) \in 0..(Word - 1)
  OBVIOUS
<1>1. Word \in Nat \ {0}
  BY Sizes
<1> DEFINE r == n % Word
<1>2. r \in 0..(Word - 1)
  BY <1>1, DivMod
<1> HIDE DEF r
<1> DEFINE c == Word - r
<1>3. c \in Nat
  BY <1>1, <1>2
<1> HIDE DEF c
<1>4. c % Word \in 0..(Word - 1)
  BY <1>1, <1>3, DivMod
<1> QED
  BY <1>4 DEF Padding, r, c

(* The walk over a run of notes: where a note ends and what it is.           *)
NameEnd(data, at, order) == at + (3 * Word) + NumberAt(data, at + (0 * Word), Word, order)
Start(data, at, order) ==
    NameEnd(data, at, order) + Padding(NumberAt(data, at + (0 * Word), Word, order))
End(data, at, order) ==
    Start(data, at, order) + NumberAt(data, at + (1 * Word), Word, order)
NoteThere(data, at, order) ==
    [name       |-> Trimmed(SubSeq(data, at + (3 * Word) + 1, NameEnd(data, at, order))),
     type       |-> NumberAt(data, at + (2 * Word), Word, order),
     descriptor |-> SubSeq(data, Start(data, at, order) + 1, End(data, at, order))]
NextNote(data, at, order) ==
    End(data, at, order) + Padding(NumberAt(data, at + (1 * Word), Word, order))

(* The notes of a run are those the walk finds.                              *)
LEMMA NotesWalked ==
    ASSUME NEW data \in Seq(RawByte), NEW order
    PROVE  \E f : /\ NotesIn(data, order) = f[0]
                  /\ \A at \in 0..(Len(data) + Word) :
                         f[at] = IF at + (3 * Word) > Len(data)
                                    \/ End(data, at, order) > Len(data)
                                 THEN <<>>
                                 ELSE <<NoteThere(data, at, order)>>
                                      \o f[NextNote(data, at, order)]
<1> DEFINE n == Len(data) + Word
           over(at) == at + (3 * Word) > Len(data) \/ End(data, at, order) > Len(data)
           From(f) == f = [at \in 0..n |->
                              IF over(at) THEN <<>>
                              ELSE <<NoteThere(data, at, order)>>
                                   \o f[NextNote(data, at, order)]]
           stops == {at \in 0..n : over(at)}
           item  == [at \in 0..n |-> NoteThere(data, at, order)]
           next  == [at \in 0..n |-> NextNote(data, at, order)]
<1>1. Word \in Nat \ {0} /\ Len(data) \in Nat /\ n \in Nat /\ Word \in 0..(2 * Word)
  BY Sizes
<1>2. ASSUME NEW at \in 0..n, at \notin stops PROVE next[at] \in (at + 1)..n
  <2> DEFINE a == NumberAt(data, at + (0 * Word), Word, order)
             b == NumberAt(data, at + (1 * Word), Word, order)
             end == End(data, at, order)
  <2>1. a \in Nat /\ b \in Nat
    BY <1>1, NumberType
  <2>2. end = ((at + (3 * Word) + a) + Padding(a)) + b
    BY DEF End, Start, NameEnd
  <2>3. NextNote(data, at, order) = end + Padding(b)
    BY DEF NextNote
  <2>4. next[at] = end + Padding(b)
    BY <2>3
  <2>5. ~(end > Len(data))
    BY <1>2
  <2> HIDE DEF a, b, end, next, n
  <2>6. Padding(a) \in 0..(Word - 1) /\ Padding(b) \in 0..(Word - 1)
    BY <2>1, PaddingType
  <2>7. at \in Nat
    BY <1>1
  <2>8. end \in Nat /\ end > at
    BY <1>1, <2>1, <2>2, <2>6, <2>7
  <2>9. end <= Len(data)
    BY <1>1, <2>5, <2>8
  <2> QED
    BY <1>1, <2>4, <2>6, <2>7, <2>8, <2>9 DEF n
<1>3. \A at \in 0..n : /\ at \in stops <=> over(at)
                       /\ item[at] = NoteThere(data, at, order)
                       /\ next[at] = NextNote(data, at, order)
  OBVIOUS
<1>4. NotesIn(data, order) = (CHOOSE f : From(f))[0]
  BY DEF NotesIn, End, Start, NameEnd, NoteThere, NextNote
<1> HIDE DEF stops, item, next, over, n
<1>5. PICK f : Collects(f, n, stops, item, next)
  <2>1. GoesForward(n, stops, next)
    BY <1>2, Zenon DEF GoesForward
  <2>2. n \in Nat
    BY <1>1
  <2> QED
    BY <2>1, <2>2, Downward, Zenon
<1>10. \A at \in 0..n : f[at] = IF at \in stops THEN <<>> ELSE <<item[at]>> \o f[next[at]]
  BY <1>5, Zenon DEF Collects
<1> DEFINE g == [at \in 0..n |-> f[at]]
<1>6. From(g)
  <2>1. ASSUME NEW at \in 0..n
        PROVE  f[at] = IF over(at) THEN <<>>
                       ELSE <<NoteThere(data, at, order)>> \o g[NextNote(data, at, order)]
    <3>1. CASE over(at)
      BY <1>3, <1>10, <3>1
    <3>2. CASE ~over(at)
      <4>1. at \notin stops /\ next[at] \in (at + 1)..n
        BY <1>2, <1>3, <3>2
      <4>2. next[at] \in 0..n
        BY <1>1, <4>1
      <4>3. f[at] = <<item[at]>> \o f[next[at]]
        BY <1>10, <4>1
      <4>4. g[next[at]] = f[next[at]]
        BY <4>2
      <4>5. item[at] = NoteThere(data, at, order) /\ next[at] = NextNote(data, at, order)
        BY <1>3
      <4>6. f[at] = <<NoteThere(data, at, order)>> \o g[NextNote(data, at, order)]
        BY <4>3, <4>4, <4>5, Zenon
      <4> QED
        BY <3>2, <4>6, Zenon
    <3> QED
      BY <3>1, <3>2
  <2>2. g = [at \in 0..n |->
                IF over(at) THEN <<>>
                ELSE <<NoteThere(data, at, order)>> \o g[NextNote(data, at, order)]]
    BY <2>1
  <2> QED
    BY <2>2, Zenon
<1>7. From(CHOOSE h : From(h))
  <2> HIDE DEF From
  <2>1. \E h : From(h)
    BY <1>6, Zenon
  <2> QED
    BY <2>1, Zenon
<1>8. PICK h : From(h) /\ NotesIn(data, order) = h[0]
  <2> HIDE DEF From
  <2> QED
    BY <1>4, <1>7, Zenon
<1>9. \A at \in 0..n : h[at] = IF over(at) THEN <<>>
                               ELSE <<NoteThere(data, at, order)>>
                                    \o h[NextNote(data, at, order)]
  BY <1>8, Zenon
<1> QED
  BY <1>8, <1>9 DEF over, n

(* A sequence behind another:                                                *)
Appends(x, y, z, S) ==
    /\ x \in Seq(S) /\ Len(x) = Len(y) + Len(z)
    /\ \A k \in 1..Len(y) : x[k] = y[k]
    /\ \A k \in 1..Len(z) : x[Len(y) + k] = z[k]

(* that is what appending it makes.                                          *)
LEMMA Behind ==
    ASSUME NEW S, NEW y, y \in Seq(S), NEW z, z \in Seq(S), NEW x, x = y \o z
    PROVE  x \in Seq(S) /\ Appends(x, y, z, S)
<1>1. y \o z \in Seq(S) /\ Len(y \o z) = Len(y) + Len(z) /\ Len(y) \in Nat /\ Len(z) \in Nat
  OBVIOUS
<1>2. \A k \in 1..Len(y) : (y \o z)[k] = y[k]
  OBVIOUS
<1>3. ASSUME NEW k \in 1..Len(z) PROVE (y \o z)[Len(y) + k] = z[k]
  <2>1. Len(y) + k \in (Len(y) + 1)..(Len(y) + Len(z)) /\ (Len(y) + k) - Len(y) = k
    BY <1>1
  <2> QED
    BY <1>1, <2>1
<1> QED
  BY <1>1, <1>2, <1>3 DEF Appends

(* A part of a sequence is the sequence that stands there.                   *)
LEMMA PartIs ==
    ASSUME NEW S, NEW y \in Seq(S), NEW z \in Seq(S), NEW at \in Nat,
           at + Len(z) <= Len(y), \A k \in 1..Len(z) : y[at + k] = z[k]
    PROVE  SubSeq(y, at + 1, at + Len(z)) = z
<1> DEFINE x == SubSeq(y, at + 1, at + Len(z))
<1>1. Len(y) \in Nat /\ Len(z) \in Nat
  OBVIOUS
<1>2. x \in Seq(S) /\ Len(x) = Len(z)
  BY <1>1
<1>3. \A k \in 1..Len(z) : x[k] = y[at + k]
  BY <1>1
<1> HIDE DEF x
<1>4. \A k \in 1..Len(z) : x[k] = z[k]
  BY <1>3
<1>5. x = z
  <2>1. /\ x = [k \in 1..Len(z) |-> x[k]] /\ z = [k \in 1..Len(z) |-> z[k]]
    BY <1>2
  <2>2. [k \in 1..Len(z) |-> x[k]] = [k \in 1..Len(z) |-> z[k]]
    BY <1>4
  <2> QED
    BY <2>1, <2>2, Zenon
<1> QED
  BY <1>5 DEF x

(* Where the parts of a note are in the bytes it becomes.                    *)
InParts(data, w, a, b, c, d, e, f, g, S) ==
    /\ a \in Seq(S) /\ b \in Seq(S) /\ c \in Seq(S) /\ d \in Seq(S) /\ e \in Seq(S)
    /\ f \in Seq(S) /\ g \in Seq(S) /\ w \in Nat
    /\ Len(a) = w /\ Len(b) = w /\ Len(c) = w
    /\ data = a \o b \o c \o d \o e \o f \o g

PartsStand(data, w, a, b, c, d, e, f, g) ==
    /\ Len(data) = (3 * w) + Len(d) + Len(e) + Len(f) + Len(g)
    /\ Len(d) <= Len(data) /\ Len(f) <= Len(data) /\ Len(data) \in Nat
    /\ \A k \in 1..w : data[k] = a[k] /\ data[w + k] = b[k] /\ data[(2 * w) + k] = c[k]
    /\ SubSeq(data, (3 * w) + 1, (3 * w) + Len(d)) = d
    /\ SubSeq(data, (3 * w) + Len(d) + Len(e) + 1, (3 * w) + Len(d) + Len(e) + Len(f)) = f

(* Seven parts stand one behind the other.                                   *)
LEMMA SevenParts ==
    ASSUME NEW S, NEW a, NEW b, NEW c, NEW d, NEW e, NEW f, NEW g, NEW w, NEW data,
           InParts(data, w, a, b, c, d, e, f, g, S)
    PROVE  data \in Seq(S) /\ PartsStand(data, w, a, b, c, d, e, f, g)
<1>23. /\ a \in Seq(S) /\ b \in Seq(S) /\ c \in Seq(S) /\ d \in Seq(S) /\ e \in Seq(S)
       /\ f \in Seq(S) /\ g \in Seq(S) /\ w \in Nat
       /\ Len(a) = w /\ Len(b) = w /\ Len(c) = w
       /\ data = a \o b \o c \o d \o e \o f \o g
  BY DEF InParts
<1>0. PICK y2, y3, y4, y5, y6 : /\ y2 = a \o b /\ y3 = y2 \o c /\ y4 = y3 \o d
                                /\ y5 = y4 \o e /\ y6 = y5 \o f
  OBVIOUS
<1>15. PICK y7 : y7 = y6 \o g
  OBVIOUS
<1>16. data = y7
  BY <1>0, <1>15, <1>23, Zenon
<1>1. y2 \in Seq(S) /\ Appends(y2, a, b, S)
  <2>1. a \in Seq(S) /\ b \in Seq(S)
    BY <1>23
  <2> QED
    BY <1>0, <1>15, <2>1, Behind, Zenon
<1>2. y3 \in Seq(S) /\ Appends(y3, y2, c, S)
  <2>1. y2 \in Seq(S) /\ c \in Seq(S)
    BY <1>23, <1>1
  <2> QED
    BY <1>0, <1>15, <2>1, Behind, Zenon
<1>3. y4 \in Seq(S) /\ Appends(y4, y3, d, S)
  <2>1. y3 \in Seq(S) /\ d \in Seq(S)
    BY <1>23, <1>2
  <2> QED
    BY <1>0, <1>15, <2>1, Behind, Zenon
<1>4. y5 \in Seq(S) /\ Appends(y5, y4, e, S)
  <2>1. y4 \in Seq(S) /\ e \in Seq(S)
    BY <1>23, <1>3
  <2> QED
    BY <1>0, <1>15, <2>1, Behind, Zenon
<1>5. y6 \in Seq(S) /\ Appends(y6, y5, f, S)
  <2>1. y5 \in Seq(S) /\ f \in Seq(S)
    BY <1>23, <1>4
  <2> QED
    BY <1>0, <1>15, <2>1, Behind, Zenon
<1>6. y7 \in Seq(S) /\ Appends(y7, y6, g, S)
  <2>1. y6 \in Seq(S) /\ g \in Seq(S)
    BY <1>23, <1>5
  <2> QED
    BY <1>0, <1>15, <2>1, Behind, Zenon
<1>17. /\ Len(y2) = Len(a) + Len(b)
       /\ \A k \in 1..Len(a) : y2[k] = a[k]
       /\ \A k \in 1..Len(b) : y2[Len(a) + k] = b[k]
  BY <1>1 DEF Appends
<1>18. /\ Len(y3) = Len(y2) + Len(c)
       /\ \A k \in 1..Len(y2) : y3[k] = y2[k]
       /\ \A k \in 1..Len(c) : y3[Len(y2) + k] = c[k]
  BY <1>2 DEF Appends
<1>19. /\ Len(y4) = Len(y3) + Len(d)
       /\ \A k \in 1..Len(y3) : y4[k] = y3[k]
       /\ \A k \in 1..Len(d) : y4[Len(y3) + k] = d[k]
  BY <1>3 DEF Appends
<1>20. /\ Len(y5) = Len(y4) + Len(e)
       /\ \A k \in 1..Len(y4) : y5[k] = y4[k]
       /\ \A k \in 1..Len(e) : y5[Len(y4) + k] = e[k]
  BY <1>4 DEF Appends
<1>21. /\ Len(y6) = Len(y5) + Len(f)
       /\ \A k \in 1..Len(y5) : y6[k] = y5[k]
       /\ \A k \in 1..Len(f) : y6[Len(y5) + k] = f[k]
  BY <1>5 DEF Appends
<1>22. /\ Len(y7) = Len(y6) + Len(g)
       /\ \A k \in 1..Len(y6) : y7[k] = y6[k]
       /\ \A k \in 1..Len(g) : y7[Len(y6) + k] = g[k]
  BY <1>6 DEF Appends
<1>7. /\ Len(a) \in Nat /\ Len(b) \in Nat /\ Len(c) \in Nat /\ Len(d) \in Nat
      /\ Len(e) \in Nat /\ Len(f) \in Nat /\ Len(g) \in Nat
  BY <1>23
<1>8. /\ Len(y2) = 2 * w /\ Len(y3) = 3 * w /\ Len(y4) = (3 * w) + Len(d)
      /\ Len(y5) = (3 * w) + Len(d) + Len(e)
      /\ Len(y6) = (3 * w) + Len(d) + Len(e) + Len(f)
      /\ Len(y7) = (3 * w) + Len(d) + Len(e) + Len(f) + Len(g)
  <2>1. Len(a) = w /\ Len(b) = w /\ Len(c) = w /\ w \in Nat
    BY <1>23
  <2>2. Len(y2) = 2 * w
    BY <1>17, <2>1
  <2>3. Len(y3) = 3 * w
    BY <1>18, <2>1, <2>2
  <2>4. Len(y4) = (3 * w) + Len(d)
    BY <1>19, <2>3
  <2>5. Len(y5) = (3 * w) + Len(d) + Len(e)
    BY <1>20, <2>4
  <2>6. Len(y6) = (3 * w) + Len(d) + Len(e) + Len(f)
    BY <1>21, <2>5
  <2>7. Len(y7) = (3 * w) + Len(d) + Len(e) + Len(f) + Len(g)
    BY <1>22, <2>6
  <2> QED
    BY <2>2, <2>3, <2>4, <2>5, <2>6, <2>7
<1>9. ASSUME NEW k \in 1..Len(y5) PROVE y7[k] = y5[k]
  <2>1. k \in 1..Len(y6)
    BY <1>7, <1>8, <1>23
  <2> QED
    BY <1>21, <1>22, <2>1
<1>10. ASSUME NEW k \in 1..Len(y4) PROVE y7[k] = y4[k]
  <2>1. k \in 1..Len(y5)
    BY <1>7, <1>8, <1>23
  <2> QED
    BY <1>20, <1>9, <2>1
<1>11. ASSUME NEW k \in 1..Len(y3) PROVE y7[k] = y3[k]
  <2>1. k \in 1..Len(y4)
    BY <1>7, <1>8, <1>23
  <2> QED
    BY <1>19, <1>10, <2>1
<1>12. ASSUME NEW k \in 1..w
       PROVE  data[k] = a[k] /\ data[w + k] = b[k] /\ data[(2 * w) + k] = c[k]
  <2>1. /\ k \in 1..Len(y2) /\ k \in 1..Len(y3) /\ w + k \in 1..Len(y2)
        /\ w + k \in 1..Len(y3) /\ (2 * w) + k \in 1..Len(y3)
    BY <1>8, <1>23
  <2>2. data[k] = y3[k] /\ data[w + k] = y3[w + k] /\ data[(2 * w) + k] = y3[(2 * w) + k]
    BY <1>16, <1>11, <2>1
  <2>3. y3[k] = a[k] /\ y3[w + k] = b[k]
    BY <1>17, <1>18, <1>23, <2>1
  <2>4. y3[(2 * w) + k] = c[k]
    BY <1>8, <1>18, <1>23
  <2> QED
    BY <2>2, <2>3, <2>4
<1>13. SubSeq(data, (3 * w) + 1, (3 * w) + Len(d)) = d
  <2>1. \A k \in 1..Len(d) : (3 * w) + k \in 1..Len(y4)
    BY <1>7, <1>8, <1>23
  <2>2. \A k \in 1..Len(d) : data[(3 * w) + k] = d[k]
    BY <1>16, <1>19, <1>8, <1>10, <2>1
  <2>3. 3 * w \in Nat /\ (3 * w) + Len(d) <= Len(data) /\ data \in Seq(S)
    BY <1>6, <1>7, <1>8, <1>16, <1>22, <1>23
  <2> QED
    BY <1>23, <2>2, <2>3, PartIs
<1>14. SubSeq(data, (3 * w) + Len(d) + Len(e) + 1,
              (3 * w) + Len(d) + Len(e) + Len(f)) = f
  <2> DEFINE at == (3 * w) + Len(d) + Len(e)
  <2>1. Len(y5) = at /\ at \in Nat /\ at + Len(f) <= Len(data) /\ data \in Seq(S)
    BY <1>6, <1>7, <1>8, <1>16, <1>22, <1>23
  <2> HIDE DEF at
  <2>2. \A k \in 1..Len(f) : at + k \in 1..Len(y6)
    BY <1>21, <1>7, <2>1
  <2>3. \A k \in 1..Len(f) : data[at + k] = f[k]
    BY <1>16, <1>21, <1>22, <2>1, <2>2
  <2>4. SubSeq(data, at + 1, at + Len(f)) = f
    BY <1>23, <2>1, <2>3, PartIs
  <2> QED
    BY <2>4 DEF at
<1>24. /\ Len(data) = (3 * w) + Len(d) + Len(e) + Len(f) + Len(g)
       /\ Len(d) <= Len(data) /\ Len(f) <= Len(data) /\ Len(data) \in Nat
  BY <1>7, <1>8, <1>16, <1>23
<1> QED
  BY <1>6, <1>12, <1>13, <1>14, <1>16, <1>24 DEF PartsStand

(* A name with its zero is the name when the zero is trimmed.                *)
LEMMA NameTrimmed ==
    ASSUME NEW name \in Seq(RawByte)
    PROVE  /\ name \o <<Zero>> \in Seq(RawByte) /\ Len(name \o <<Zero>>) = Len(name) + 1
           /\ Trimmed(name \o <<Zero>>) = name
<1>1. Zero \in RawByte /\ Len(name) \in Nat
  BY ZerosAreBytes
<1>2. PICK zero : zero = Zero
  OBVIOUS
<1>3. PICK named : named = name \o <<zero>>
  OBVIOUS
<1>4. /\ named \in Seq(RawByte) /\ Len(named) = Len(name) + 1
      /\ named[Len(named)] = zero /\ named # <<>>
  BY <1>1, <1>2, <1>3
<1>5. SubSeq(named, 1, Len(named) - 1) = name
  <2>1. \A k \in 1..Len(name) : named[0 + k] = name[k]
    BY <1>1, <1>2, <1>3
  <2>2. SubSeq(named, 0 + 1, 0 + Len(name)) = name
    <3>1. 0 \in Nat /\ 0 + Len(name) <= Len(named)
      BY <1>1, <1>4
    <3>2. \A at \in Nat : at + Len(name) <= Len(named)
                          /\ (\A k \in 1..Len(name) : named[at + k] = name[k])
              => SubSeq(named, at + 1, at + Len(name)) = name
      BY <1>4, PartIs
    <3> QED
      BY <2>1, <3>1, <3>2
  <2>3. Len(named) - 1 = 0 + Len(name) /\ 0 + 1 = 1
    BY <1>1, <1>4
  <2> QED
    BY <2>2, <2>3
<1>6. Trimmed(named) = name
  BY <1>2, <1>4, <1>5 DEF Trimmed
<1> QED
  BY <1>2, <1>3, <1>4, <1>6

(* A part is no more than the whole.                                         *)
LEMMA PartBound ==
    ASSUME NEW p \in Nat, NEW n \in Nat, n < p, NEW a \in Nat, a <= n
    PROVE  a \in 0..(p - 1)
OBVIOUS

(* The bytes of a note, part by part.                                        *)
LEMMA NoteParts ==
    ASSUME NEW note \in NoteSpec, Len(SerializeNote(note)) < Radix^Word,
           NEW named, named = note.name \o <<Zero>>
    PROVE  LET data == SerializeNote(note)
               a    == Len(named)
               b    == Len(note.descriptor)
           IN  /\ data \in Seq(RawByte) /\ a \in 0..(Radix^Word - 1) /\ b \in 0..(Radix^Word - 1)
               /\ Len(data) = (3 * Word) + a + Padding(a) + b + Padding(b)
               /\ \A k \in 1..Word : /\ data[k] = Digits(a, Word, Order)[k]
                                     /\ data[Word + k] = Digits(b, Word, Order)[k]
                                     /\ data[(2 * Word) + k] = Digits(note.type, Word, Order)[k]
               /\ SubSeq(data, (3 * Word) + 1, (3 * Word) + a) = named
               /\ SubSeq(data, (3 * Word) + a + Padding(a) + 1,
                         (3 * Word) + a + Padding(a) + b) = note.descriptor
<1>1. note.name \in Seq(RawByte) /\ note.descriptor \in Seq(RawByte) /\ note.type \in U32
  BY DEF NoteSpec
<1>2. named \in Seq(RawByte)
  BY <1>1, NameTrimmed
<1>3. PICK data, d1, d2, d3, z1, z2 :
          /\ data = SerializeNote(note)
          /\ d1 = Digits(Size32(named), Word, Order)
          /\ d2 = Digits(Size32(note.descriptor), Word, Order)
          /\ d3 = Digits(note.type, Word, Order)
          /\ z1 = Zeros(Padding(Len(named))) /\ z2 = Zeros(Padding(Len(note.descriptor)))
  OBVIOUS
<1>4. data = d1 \o d2 \o d3 \o named \o z1 \o note.descriptor \o z2
  BY <1>3, Zenon DEF SerializeNote
<1>5. Word \in Nat /\ Len(named) \in Nat /\ Len(note.descriptor) \in Nat
  BY <1>1, <1>2, Sizes
<1>6. U32 \subseteq Int /\ 0 \in U32
  <2>1. Radix^Word \in Nat \ {0}
    BY Spans
  <2> QED
    BY <2>1 DEF U32
<1>7. /\ d1 \in Seq(RawByte) /\ d2 \in Seq(RawByte) /\ d3 \in Seq(RawByte)
      /\ Len(d1) = Word /\ Len(d2) = Word /\ Len(d3) = Word
  <2>1. Size32(named) \in Int /\ Size32(note.descriptor) \in Int /\ note.type \in Int
    BY <1>1, <1>6 DEF Size32
  <2>2. d1 \in Seq(RawByte) /\ d2 \in Seq(RawByte) /\ d3 \in Seq(RawByte)
    BY <1>3, <2>1, DigitsAreBytes
  <2>3. \A n : Len(Digits(n, Word, Order)) = Word
    <3> SUFFICES ASSUME NEW n PROVE Len(Digits(n, Word, Order)) = Word
      OBVIOUS
    <3> DEFINE byte(k) == <<(n \div Place(k, Word, Order)) % Radix>>
    <3>1. Digits(n, Word, Order) = [k \in 1..Word |-> byte(k)]
      BY DEF Digits
    <3> HIDE DEF byte
    <3> QED
      BY <1>5, <3>1
  <2> QED
    BY <1>3, <2>2, <2>3
<1>8. /\ z1 \in Seq(RawByte) /\ z2 \in Seq(RawByte)
      /\ Len(z1) = Padding(Len(named)) /\ Len(z2) = Padding(Len(note.descriptor))
  <2>1. Padding(Len(named)) \in Nat /\ Padding(Len(note.descriptor)) \in Nat
    <3>1. /\ Padding(Len(named)) \in 0..(Word - 1)
          /\ Padding(Len(note.descriptor)) \in 0..(Word - 1)
      BY <1>5, PaddingType, Zenon
    <3> QED
      BY <1>5, <3>1
  <2>2. \A n \in Nat : Zeros(n) \in Seq(RawByte) /\ Len(Zeros(n)) = n
    BY ZerosAreBytes DEF Zeros
  <2> QED
    BY <1>3, <2>1, <2>2
<1>9. /\ data \in Seq(RawByte)
      /\ Len(data) = (3 * Word) + Len(named) + Len(z1) + Len(note.descriptor) + Len(z2)
      /\ Len(named) <= Len(data) /\ Len(note.descriptor) <= Len(data)
      /\ Len(data) \in Nat
      /\ \A k \in 1..Word : data[k] = d1[k] /\ data[Word + k] = d2[k]
                            /\ data[(2 * Word) + k] = d3[k]
      /\ SubSeq(data, (3 * Word) + 1, (3 * Word) + Len(named)) = named
      /\ SubSeq(data, (3 * Word) + Len(named) + Len(z1) + 1,
                (3 * Word) + Len(named) + Len(z1) + Len(note.descriptor)) = note.descriptor
  <2>1. PICK desc : desc = note.descriptor
    OBVIOUS
  <2>2. /\ data = d1 \o d2 \o d3 \o named \o z1 \o desc \o z2 /\ Word \in Nat
        /\ d1 \in Seq(RawByte) /\ d2 \in Seq(RawByte) /\ d3 \in Seq(RawByte)
        /\ named \in Seq(RawByte) /\ z1 \in Seq(RawByte) /\ desc \in Seq(RawByte)
        /\ z2 \in Seq(RawByte) /\ Len(d1) = Word /\ Len(d2) = Word /\ Len(d3) = Word
    BY <1>1, <1>2, <1>4, <1>5, <1>7, <1>8, <2>1, Zenon
  <2>8. InParts(data, Word, d1, d2, d3, named, z1, desc, z2, RawByte)
    BY <2>2, Zenon DEF InParts
  <2>3. data \in Seq(RawByte) /\ PartsStand(data, Word, d1, d2, d3, named, z1, desc, z2)
    BY <2>8, SevenParts, Zenon
  <2> QED
    BY <2>1, <2>3, Zenon DEF PartsStand
<1>10. Len(named) \in U32 /\ Len(note.descriptor) \in U32
  <2>1. Len(data) < Radix^Word /\ Radix^Word \in Nat
    BY <1>3, Spans
  <2>2. Len(z1) \in Nat /\ Len(z2) \in Nat
    BY <1>8
  <2>3. /\ Len(named) <= Len(data) /\ Len(note.descriptor) <= Len(data)
        /\ Len(data) \in Nat
    BY <1>9, Zenon
  <2>4. /\ Len(named) \in 0..(Radix^Word - 1)
        /\ Len(note.descriptor) \in 0..(Radix^Word - 1)
    BY <1>5, <2>1, <2>2, <2>3, PartBound, Zenon
  <2> QED
    BY <2>4 DEF U32
<1>11. d1 = Digits(Len(named), Word, Order) /\ d2 = Digits(Len(note.descriptor), Word, Order)
  BY <1>3, <1>10 DEF Size32
<1>12. \A k \in 1..Word : /\ data[k] = Digits(Len(named), Word, Order)[k]
                          /\ data[Word + k] = Digits(Len(note.descriptor), Word, Order)[k]
                          /\ data[(2 * Word) + k] = Digits(note.type, Word, Order)[k]
  BY <1>3, <1>9, <1>11, Zenon
<1>13. /\ Len(data) = (3 * Word) + Len(named) + Padding(Len(named)) + Len(note.descriptor)
                      + Padding(Len(note.descriptor))
       /\ SubSeq(data, (3 * Word) + 1, (3 * Word) + Len(named)) = named
       /\ SubSeq(data, (3 * Word) + Len(named) + Padding(Len(named)) + 1,
                 (3 * Word) + Len(named) + Padding(Len(named)) + Len(note.descriptor))
              = note.descriptor
  BY <1>8, <1>9, Zenon
<1>14. Len(named) \in 0..(Radix^Word - 1) /\ Len(note.descriptor) \in 0..(Radix^Word - 1)
  BY <1>10 DEF U32
<1> QED
  BY <1>3, <1>9, <1>12, <1>13, <1>14, Zenon

(* A run of one note is read as it.                                          *)
LEMMA OneNote ==
    ASSUME NEW data \in Seq(RawByte), NEW order, NEW a \in Nat, NEW b \in Nat, NEW t,
           NumberAt(data, 0 + (0 * Word), Word, order) = a,
           NumberAt(data, 0 + (1 * Word), Word, order) = b,
           NumberAt(data, 0 + (2 * Word), Word, order) = t,
           Len(data) = (3 * Word) + a + Padding(a) + b + Padding(b)
    PROVE  NotesIn(data, order) =
               <<[name       |-> Trimmed(SubSeq(data, (3 * Word) + 1, (3 * Word) + a)),
                  type       |-> t,
                  descriptor |-> SubSeq(data, (3 * Word) + a + Padding(a) + 1,
                                        (3 * Word) + a + Padding(a) + b)]>>
<1> DEFINE n == Len(data)
           pa == Padding(a)
           pb == Padding(b)
           start == (3 * Word) + a + pa
<1>1. Word \in Nat \ {0} /\ n \in Nat /\ pa \in Nat /\ pb \in Nat
  <2>1. pa \in 0..(Word - 1) /\ pb \in 0..(Word - 1)
    BY PaddingType
  <2> HIDE DEF pa, pb
  <2> QED
    BY <2>1, Sizes
<1>2. PICK f : /\ NotesIn(data, order) = f[0]
               /\ \A at \in 0..(n + Word) :
                      f[at] = IF at + (3 * Word) > n \/ End(data, at, order) > n
                              THEN <<>>
                              ELSE <<NoteThere(data, at, order)>> \o f[NextNote(data, at, order)]
  BY NotesWalked
<1>3. /\ NameEnd(data, 0, order) = 0 + (3 * Word) + a
      /\ Start(data, 0, order) = NameEnd(data, 0, order) + pa
      /\ End(data, 0, order) = Start(data, 0, order) + b
      /\ NextNote(data, 0, order) = End(data, 0, order) + pb
  BY Zenon DEF NameEnd, Start, End, NextNote
<1>4. n = (3 * Word) + a + pa + b + pb
  OBVIOUS
<1> DEFINE there == [name       |-> Trimmed(SubSeq(data, (3 * Word) + 1, (3 * Word) + a)),
                     type       |-> t,
                     descriptor |-> SubSeq(data, start + 1, start + b)]
<1> HIDE DEF n, pa, pb
<1>5. /\ NameEnd(data, 0, order) = (3 * Word) + a /\ Start(data, 0, order) = start
      /\ End(data, 0, order) = start + b /\ NextNote(data, 0, order) = n
      /\ 0 + (3 * Word) + 1 = (3 * Word) + 1
  BY <1>1, <1>3, <1>4
<1>6. ~(0 + (3 * Word) > n) /\ ~(start + b > n) /\ n + (3 * Word) > n
      /\ 0 \in 0..(n + Word) /\ n \in 0..(n + Word)
  BY <1>1, <1>4
<1>7. NoteThere(data, 0, order) = there
  BY <1>5, Zenon DEF NoteThere
<1> HIDE DEF start, there
<1>8. f[n] = <<>>
  BY <1>2, <1>6
<1>9. f[0] = <<NoteThere(data, 0, order)>> \o f[NextNote(data, 0, order)]
  BY <1>2, <1>5, <1>6, Zenon
<1>10. f[0] = <<there>> \o <<>>
  BY <1>5, <1>7, <1>8, <1>9, Zenon
<1>11. <<there>> \o <<>> = <<there>>
  OBVIOUS
<1> QED
  BY <1>2, <1>10, <1>11, Zenon DEF start, there, pa

(* A note that is not too long comes back from its bytes.                    *)
LEMMA NoteRead ==
    ASSUME NEW note \in NoteSpec, Len(SerializeNote(note)) < Radix^Word
    PROVE  NotesIn(SerializeNote(note), Order) = <<note>>
<1>1. PICK named, data : named = note.name \o <<Zero>> /\ data = SerializeNote(note)
  OBVIOUS
<1> DEFINE a == Len(named)
           b == Len(note.descriptor)
<1>2. /\ data \in Seq(RawByte) /\ a \in 0..(Radix^Word - 1) /\ b \in 0..(Radix^Word - 1)
      /\ Len(data) = (3 * Word) + a + Padding(a) + b + Padding(b)
      /\ \A k \in 1..Word : /\ data[k] = Digits(a, Word, Order)[k]
                            /\ data[Word + k] = Digits(b, Word, Order)[k]
                            /\ data[(2 * Word) + k] = Digits(note.type, Word, Order)[k]
      /\ SubSeq(data, (3 * Word) + 1, (3 * Word) + a) = named
      /\ SubSeq(data, (3 * Word) + a + Padding(a) + 1,
                (3 * Word) + a + Padding(a) + b) = note.descriptor
  BY <1>1, NoteParts
<1>3. /\ note.name \in Seq(RawByte) /\ note.descriptor \in Seq(RawByte)
      /\ note.type \in 0..(Radix^Word - 1)
      /\ note = [name |-> note.name, type |-> note.type, descriptor |-> note.descriptor]
  BY DEF NoteSpec, U32
<1>4. Word \in Nat /\ Word \in 0..(2 * Word) /\ a \in Nat /\ b \in Nat
  <2>1. named \in Seq(RawByte)
    BY <1>1, <1>3, NameTrimmed
  <2> QED
    BY <1>3, <2>1, Sizes
<1> HIDE DEF a, b
<1>5. /\ NumberAt(data, 0 + (0 * Word), Word, Order) = a
      /\ NumberAt(data, 0 + (1 * Word), Word, Order) = b
      /\ NumberAt(data, 0 + (2 * Word), Word, Order) = note.type
  <2>1. /\ \A k \in 1..Word : (0 + (0 * Word)) + k = k
        /\ \A k \in 1..Word : (0 + (1 * Word)) + k = Word + k
        /\ \A k \in 1..Word : (0 + (2 * Word)) + k = (2 * Word) + k
    BY <1>4
  <2>2. /\ \A k \in 1..Word : data[(0 + (0 * Word)) + k] = Digits(a, Word, Order)[k]
        /\ \A k \in 1..Word : data[(0 + (1 * Word)) + k] = Digits(b, Word, Order)[k]
        /\ \A k \in 1..Word : data[(0 + (2 * Word)) + k] = Digits(note.type, Word, Order)[k]
    BY <1>2, <2>1
  <2>3. NumberAt(data, 0 + (0 * Word), Word, Order) = a
    BY <1>2, <1>4, <2>2, NumberRead
  <2>4. NumberAt(data, 0 + (1 * Word), Word, Order) = b
    BY <1>2, <1>4, <2>2, NumberRead
  <2>5. NumberAt(data, 0 + (2 * Word), Word, Order) = note.type
    BY <1>3, <1>4, <2>2, NumberRead
  <2> QED
    BY <2>3, <2>4, <2>5
<1>6. NotesIn(data, Order) =
          <<[name       |-> Trimmed(SubSeq(data, (3 * Word) + 1, (3 * Word) + a)),
             type       |-> note.type,
             descriptor |-> SubSeq(data, (3 * Word) + a + Padding(a) + 1,
                                   (3 * Word) + a + Padding(a) + b)]>>
  BY <1>2, <1>4, <1>5, OneNote
<1>7. Trimmed(SubSeq(data, (3 * Word) + 1, (3 * Word) + a)) = note.name
  BY <1>1, <1>2, <1>3, NameTrimmed, Zenon
<1>8. SubSeq(data, (3 * Word) + a + Padding(a) + 1, (3 * Word) + a + Padding(a) + b)
      = note.descriptor
  BY <1>2
<1> QED
  BY <1>1, <1>3, <1>6, <1>7, <1>8, Zenon

(* No section read from a file is longer than the longest file.              *)
LEMMA SectionsAreShort ==
    ASSUME NEW f \in Seq(Byte), Parses(f), Parsed(f) \in ElfImage,
           NEW i \in 1..Len(Parsed(f).sections)
    PROVE  Len(Parsed(f).sections[i].data) <= MaxImage
<1> DEFINE shs   == RawSectionHeaders(f)
           names == NameTable(f, Ehdr(f), shs)
           read(j) == ReadSection(f, shs[j], names)
           list  == Parsed(f).sections
<1>1. list = [j \in 1..Len(shs) |-> read(j)] /\ Parsed(f).header = Ehdr(f)
  BY DEF Parsed
<1>2. list \in Seq(Section) /\ Ehdr(f) \in ElfHeader
  BY <1>1 DEF ElfImage
<1>3. Ehdr(f).shnum \in Nat
  BY <1>2, U64MaxAssumption DEF ElfHeader, U64
<1>4. Len(f) \in Nat /\ MaxImage \in Nat
  BY FormatAssumption
<1>5. Len(shs) \in Nat /\ (HasSections(f) => Len(shs) = Ehdr(f).shnum)
      /\ (~HasSections(f) => Len(shs) = 0)
  <2>1. CASE HasSections(f)
    <3> DEFINE at(j) == DecodedAt(f, Ehdr(f).shoff + (j - 1) * ShEntSize)
               n     == Ehdr(f).shnum
    <3>1. shs = [j \in 1..n |-> at(j)]
      BY <2>1 DEF RawSectionHeaders, TableAt
    <3> HIDE DEF at, n, shs
    <3>2. n \in Nat
      BY <1>3 DEF n
    <3> QED
      BY <2>1, <3>1, <3>2 DEF n
  <2>2. CASE ~HasSections(f)
    BY <2>2 DEF RawSectionHeaders
  <2> QED
    BY <2>1, <2>2
<1>6. i \in 1..Len(shs) /\ list[i] = read(i)
  <2> HIDE DEF shs, read
  <2>1. Len(list) = Len(shs)
    BY <1>1, <1>5
  <2> QED
    BY <1>1, <2>1
<1>7. list[i] \in Section /\ list[i].header = shs[i]
  <2>1. list[i] \in Section
    BY <1>2
  <2> QED
    BY <1>6, <2>1 DEF ReadSection
<1>8. shs[i].size \in Nat /\ shs[i].offset \in Nat
  BY <1>7, U64MaxAssumption DEF Section, Shdr, U64
<1>9. SectionEmpty(shs[i]) \/ Readable(f, shs[i].offset, shs[i].size)
  <2>1. HasSections(f) /\ i \in 1..Ehdr(f).shnum
    BY <1>5, <1>6
  <2> QED
    BY <2>1 DEF Parses, SectionsReadable
<1>10. list[i].data = IF SectionEmpty(shs[i]) THEN <<>>
                      ELSE BytesAt(f, shs[i].offset, shs[i].size)
  BY <1>6 DEF ReadSection
<1> HIDE DEF shs, list
<1>11. CASE SectionEmpty(shs[i])
  <2>1. Len(<<>>) = 0
    OBVIOUS
  <2> QED
    BY <1>4, <1>10, <1>11, <2>1 DEF list
<1>12. CASE ~SectionEmpty(shs[i])
  <2>1. shs[i].size <= MaxImage /\ shs[i].offset + shs[i].size <= Len(f)
    BY <1>9, <1>12 DEF Readable
  <2> DEFINE o == shs[i].offset
             m == shs[i].size
  <2>3. o \in Nat /\ m \in Nat /\ o + m <= Len(f)
    BY <1>8, <2>1
  <2> HIDE DEF o, m
  <2>4. Len(SubSeq(f, o + 1, o + m)) = m
    BY <1>4, <2>3
  <2>2. Len(SubSeq(f, shs[i].offset + 1, shs[i].offset + shs[i].size)) = shs[i].size
    BY <2>4 DEF o, m
  <2> QED
    BY <1>10, <1>12, <2>1, <2>2 DEF BytesAt, list
<1> QED
  BY <1>11, <1>12


(* Where the notes are in the image assembled: one section each behind the   *)
(* first, and no other section is a note's.                                  *)
LEMMA NoteSectionsAsked ==
    ASSUME TypeOK, ListsInv, stage = "assembled"
    PROVE  /\ \A i \in 1..Len(request.notes) :
                  1 + i \in 1..Len(secs) /\ secs[1 + i] = NoteSections[i]
           /\ request.notes = <<>> =>
                  \A i \in 1..Len(secs) : secs[i].header.type # "NOTE"
<1> DEFINE Kind == {s \in Section : s.header.type # "NOTE"}
           k    == Len(request.notes)
<1>1. PICK F, D, R, first, mine :
          /\ F = <<first>> \o mine /\ secs = (F \o D) \o R
          /\ first = NullSection /\ mine = NoteSections
          /\ F = FrontSections /\ D = DynamicSections /\ R = RelaSections
  <2>1. FrontSections = <<NullSection>> \o NoteSections
    BY DEF FrontSections
  <2>2. secs = (FrontSections \o DynamicSections) \o RelaSections
    BY DEF ListsInv
  <2> QED
    BY <2>1, <2>2, Zenon
<1>2. NullSection \in Kind
  <2>1. /\ NoName \in Names /\ "NULL" \in SectionTypes /\ FALSE \in BOOLEAN /\ 0 \in U64
        /\ <<>> \in Seq(RawByte)
    BY BuilderAssumption, BuilderConstants DEF SectionTypes
  <2>2. NullSection \in Section
    BY <2>1, NewSectionType, Zenon DEF NullSection
  <2>3. NullSection.header.type = "NULL"
    BY DEF NullSection, NewSection
  <2> QED
    BY <2>2, <2>3
<1>3. D \in Seq(Kind)
  <2>1. CASE request.needed = <<>>
    BY <1>1, <2>1 DEF DynamicSections
  <2>2. CASE request.needed # <<>>
    <3> DEFINE names_ == NewSection(Dynstr, "STRTAB", TRUE, 1, dynstr)
               table  == NewSection(Dynamic, "DYNAMIC", TRUE, 8, DynamicTable)
    <3>1. D = <<names_, table>>
      BY <1>1, <2>2 DEF DynamicSections
    <3>2. dynstr \in Seq(RawByte) /\ DynamicTable \in Seq(RawByte)
      BY DynamicIsBytes DEF TypeOK
    <3>3. /\ Dynstr \in Names /\ Dynamic \in Names /\ TRUE \in BOOLEAN /\ 1 \in U64 /\ 8 \in U64
          /\ "STRTAB" \in SectionTypes /\ "DYNAMIC" \in SectionTypes
      BY BuilderAssumption, BuilderConstants DEF SectionTypes
    <3>4. names_ \in Section /\ table \in Section
      BY <3>2, <3>3, NewSectionType, Zenon
    <3>5. names_.header.type = "STRTAB" /\ table.header.type = "DYNAMIC"
      BY DEF NewSection
    <3> HIDE DEF names_, table
    <3>6. names_ \in Kind /\ table \in Kind
      BY <3>4, <3>5
    <3> HIDE DEF Kind
    <3> QED
      BY <3>1, <3>6
  <2> QED
    BY <2>1, <2>2
<1>4. R \in Seq(Kind)
  <2>1. CASE request.relocations = <<>>
    BY <1>1, <2>1 DEF RelaSections
  <2>2. CASE request.relocations # <<>>
    <3> DEFINE rela == NewSection(RelaDyn, "RELA", FALSE, 8, RelaTable)
    <3>1. R = <<rela>>
      BY <1>1, <2>2 DEF RelaSections
    <3>2. rela \in Section
      <4>1. RelaTable \in Seq(RawByte)
        BY RelaIsBytes DEF TypeOK, Requests
      <4>2. RelaDyn \in Names /\ FALSE \in BOOLEAN /\ 8 \in U64 /\ "RELA" \in SectionTypes
        BY BuilderAssumption, BuilderConstants DEF SectionTypes
      <4> QED
        BY <4>1, <4>2, NewSectionType, Zenon
    <3>3. rela.header.type = "RELA"
      BY DEF NewSection
    <3> HIDE DEF rela
    <3>4. rela \in Kind
      BY <3>2, <3>3
    <3> HIDE DEF Kind
    <3> QED
      BY <3>1, <3>4
  <2> QED
    BY <2>1, <2>2
<1>5. mine \in Seq(Section) /\ Len(mine) = k /\ k \in Nat
  <2>1. NoteSections \in Seq(Section)
    BY NotesAreTyped DEF TypeOK
  <2>2. request.notes \in Seq(NoteSpecs)
    BY DEF TypeOK, Requests
  <2>3. k \in Nat
    BY <2>2
  <2>4. Len(NoteSections) = k
    BY <2>3 DEF NoteSections
  <2> QED
    BY <1>1, <2>1, <2>3, <2>4
<1> HIDE DEF k
<1>6. /\ F \in Seq(Section) /\ D \in Seq(Section) /\ R \in Seq(Section)
      /\ first \in Section
  <2>1. Kind \subseteq Section
    OBVIOUS
  <2>2. first \in Section
    BY <1>1, <1>2, <2>1
  <2>3. D \in Seq(Section) /\ R \in Seq(Section)
    <3>1. \A z \in Seq(Kind) : z \in Seq(Section)
      <4> HIDE DEF Kind
      <4> QED
        BY <2>1
    <3> QED
      BY <1>3, <1>4, <3>1
  <2>4. <<first>> \in Seq(Section)
    BY <2>2
  <2>5. F \in Seq(Section)
    <3>1. F = <<first>> \o mine
      BY <1>1
    <3> QED
      BY <1>5, <2>4, <3>1
  <2> QED
    BY <2>2, <2>3, <2>5
<1>7. PICK G : G = F \o D
  OBVIOUS
<1>8. /\ Len(F) = 1 + k /\ \A i \in 1..k : F[1 + i] = mine[i]
  BY <1>1, <1>5, <1>6
<1>9. /\ G \in Seq(Section) /\ Len(G) = Len(F) + Len(D) /\ \A i \in 1..Len(F) : G[i] = F[i]
  BY <1>6, <1>7
<1>10. /\ Len(secs) = Len(G) + Len(R) /\ \A i \in 1..Len(G) : secs[i] = G[i]
  <2>1. secs = G \o R /\ G \in Seq(Section) /\ R \in Seq(Section)
    BY <1>1, <1>6, <1>7, <1>9, Zenon
  <2>2. Appends(secs, G, R, Section)
    BY <2>1, Behind
  <2> QED
    BY <2>2 DEF Appends
<1>11. ASSUME NEW i \in 1..k PROVE 1 + i \in 1..Len(secs) /\ secs[1 + i] = NoteSections[i]
  <2>1. Len(D) \in Nat /\ Len(R) \in Nat
    BY <1>6
  <2>2. 1 + i \in 1..Len(F) /\ 1 + i \in 1..Len(G) /\ 1 + i \in 1..Len(secs)
    BY <1>5, <1>8, <1>9, <1>10, <2>1
  <2> QED
    BY <1>1, <1>8, <1>9, <1>10, <2>2
<1>12. ASSUME request.notes = <<>> PROVE secs \in Seq(Kind)
  <2>1. mine = <<>>
    <3>1. k = 0
      BY <1>12 DEF k
    <3> QED
      BY <1>5, <3>1
  <2>2. first \in Kind
    BY <1>1, <1>2
  <2> HIDE DEF Kind
  <2>3. F \in Seq(Kind)
    BY <1>1, <2>1, <2>2
  <2>4. G \in Seq(Kind)
    BY <1>3, <1>7, <2>3
  <2>5. secs = G \o R
    BY <1>1, <1>7, Zenon
  <2> QED
    BY <1>4, <2>4, <2>5
<1>13. request.notes = <<>> => \A i \in 1..Len(secs) : secs[i].header.type # "NOTE"
  <2>1. \A s \in Kind : s.header.type # "NOTE"
    OBVIOUS
  <2> HIDE DEF Kind
  <2> QED
    BY <1>12, <2>1
<1> QED
  BY <1>11, <1>13 DEF k

(* Where their segments are: in one run behind the loads and the template.   *)
LEMMA NoteSegmentsAsked ==
    ASSUME TypeOK, ListsInv, stage = "assembled"
    PROVE  \E a \in Nat :
               /\ a + Len(request.notes) <= Len(segs)
               /\ \A i \in 1..Len(request.notes) : segs[a + i] = NoteSegments[i]
               /\ \A i \in 1..Len(segs) :
                      segs[i].header.type = "NOTE" <=>
                          a < i /\ i <= a + Len(request.notes)
<1> DEFINE Other == {s \in Segment : s.header.type # "NOTE"}
           k     == Len(request.notes)
<1>1. PICK L, T, N, D : /\ segs = ((L \o T) \o N) \o D
                        /\ L = LoadSegments /\ T = TemplateSegments /\ N = NoteSegments
                        /\ D = DynamicSegments
  <2>1. segs = ((LoadSegments \o TemplateSegments) \o NoteSegments) \o DynamicSegments
    BY DEF ListsInv, FrontSegments
  <2> QED
    BY <2>1, Zenon
<1>2. request \in Requests /\ segs \in Seq(Segment)
  BY DEF TypeOK
<1>3. L \in Seq(Other)
  <2>1. L \in Seq(Segment)
    BY <1>1, <1>2, AskedAreSegments
  <2>2. \A i \in 1..Len(L) : L[i].header.type = "LOAD"
    <3>1. Len(request.loads) \in Nat
      BY <1>2 DEF Requests
    <3>2. Len(L) = Len(request.loads)
      BY <1>1, <3>1 DEF LoadSegments
    <3> QED
      BY <1>1, <3>2 DEF LoadSegments, NewSegment
  <2>3. \A i \in 1..Len(L) : L[i] \in Other
    BY <2>1, <2>2
  <2> HIDE DEF Other
  <2> QED
    BY <2>1, <2>3
<1>4. T \in Seq(Other)
  <2>1. T \in Seq(Segment)
    BY <1>1, <1>2, AskedAreSegments
  <2>2. \A i \in 1..Len(T) : T[i].header.type = "TLS"
    <3>1. CASE request.tls = {}
      BY <1>1, <3>1 DEF TemplateSegments
    <3>2. CASE request.tls # {}
      BY <1>1, <3>2 DEF TemplateSegments, TlsSegment, NewSegment
    <3> QED
      BY <3>1, <3>2
  <2>3. \A i \in 1..Len(T) : T[i] \in Other
    BY <2>1, <2>2
  <2> HIDE DEF Other
  <2> QED
    BY <2>1, <2>3
<1>5. /\ N \in Seq(Segment) /\ Len(N) = k /\ k \in Nat
      /\ \A i \in 1..k : N[i].header.type = "NOTE"
  <2>1. N \in Seq(Segment)
    BY <1>1, <1>2, NotesAreTyped
  <2>2. k \in Nat
    BY <1>2 DEF Requests
  <2>3. Len(N) = k
    BY <1>1, <2>2 DEF NoteSegments
  <2>4. \A i \in 1..k : N[i].header.type = "NOTE"
    BY <1>1 DEF NoteSegments, NewSegment
  <2> QED
    BY <2>1, <2>2, <2>3, <2>4
<1>6. \A i \in 1..Len(D) : D[i].header.type = "DYNAMIC"
  <2>1. CASE request.needed = <<>>
    BY <1>1, <2>1 DEF DynamicSegments
  <2>2. CASE request.needed # <<>>
    BY <1>1, <2>2 DEF DynamicSegments, NewSegment
  <2> QED
    BY <2>1, <2>2
<1>7. D \in Seq(Segment)
  <2>1. CASE request.needed = <<>>
    BY <1>1, <2>1 DEF DynamicSegments
  <2>2. CASE request.needed # <<>>
    <3> DEFINE table == NewSegment("DYNAMIC", 0, SizeOf(DynamicTable), 8, DynamicTable)
    <3>1. D = <<table>>
      BY <1>1, <2>2 DEF DynamicSegments
    <3>2. dynstr \in Seq(RawByte) /\ nameOffsets \in Seq(Nat)
      BY DEF TypeOK
    <3>3. DynamicTable \in Seq(RawByte)
      BY <3>2, DynamicIsBytes
    <3>4. table \in Segment
      BY <3>3, NewSegmentType, BuilderConstants DEF SegmentTypes, SizeOf
    <3> HIDE DEF table
    <3> QED
      BY <3>1, <3>4
  <2> QED
    BY <2>1, <2>2
<1> DEFINE a == Len(L \o T)
<1>8. PICK A, B : A = L \o T /\ B = A \o N /\ segs = B \o D
  BY <1>1, Zenon
<1>9. \A s \in Other : s \in Segment /\ s.header.type # "NOTE"
  OBVIOUS
<1> HIDE DEF Other, k
<1>10. A \in Seq(Other)
  BY <1>3, <1>4, <1>8
<1>11. A \in Seq(Segment) /\ Len(A) \in Nat /\ \A i \in 1..Len(A) : A[i].header.type # "NOTE"
  BY <1>9, <1>10
<1>12. /\ B \in Seq(Segment) /\ Len(B) = Len(A) + k
       /\ \A i \in 1..Len(A) : B[i] = A[i]
       /\ \A i \in 1..k : B[Len(A) + i] = N[i]
  <2>1. B \in Seq(Segment) /\ Appends(B, A, N, Segment)
    BY <1>5, <1>8, <1>11, Behind
  <2> QED
    BY <1>5, <2>1 DEF Appends
<1>13. /\ Len(segs) = Len(B) + Len(D) /\ Len(D) \in Nat
       /\ \A i \in 1..Len(B) : segs[i] = B[i]
       /\ \A i \in 1..Len(D) : segs[Len(B) + i] = D[i]
  <2>1. Appends(segs, B, D, Segment)
    BY <1>7, <1>8, <1>12, Behind
  <2> QED
    BY <1>7, <2>1 DEF Appends
<1>14. ASSUME NEW i \in 1..k PROVE segs[Len(A) + i] = N[i]
  <2>1. Len(A) + i \in 1..Len(B)
    BY <1>5, <1>11, <1>12
  <2> QED
    BY <1>12, <1>13, <2>1
<1>15. ASSUME NEW i \in 1..Len(segs)
       PROVE  segs[i].header.type = "NOTE" <=> Len(A) < i /\ i <= Len(A) + k
  <2>1. CASE i \in 1..Len(A)
    <3>1. i \in 1..Len(B) /\ ~(Len(A) < i)
      BY <1>5, <1>11, <1>12, <2>1
    <3> QED
      BY <1>11, <1>12, <1>13, <2>1, <3>1
  <2>2. CASE i \in (Len(A) + 1)..(Len(A) + k)
    <3>1. i - Len(A) \in 1..k /\ Len(A) + (i - Len(A)) = i
      BY <1>5, <1>11, <2>2
    <3>2. segs[i] = N[i - Len(A)]
      BY <1>14, <3>1
    <3> QED
      BY <1>5, <1>11, <2>2, <3>1, <3>2
  <2>3. CASE i \in (Len(B) + 1)..Len(segs)
    <3>1. i - Len(B) \in 1..Len(D) /\ Len(B) + (i - Len(B)) = i
      BY <1>5, <1>11, <1>12, <1>13, <2>3
    <3>2. segs[i] = D[i - Len(B)]
      BY <1>13, <3>1
    <3>3. ~(i <= Len(A) + k)
      BY <1>5, <1>11, <1>12, <2>3
    <3> QED
      BY <1>6, <3>1, <3>2, <3>3
  <2> QED
    BY <1>5, <1>11, <1>12, <2>1, <2>2, <2>3
<1>16. Len(A) + k <= Len(segs)
  BY <1>5, <1>11, <1>12, <1>13
<1> QED
  BY <1>1, <1>11, <1>14, <1>15, <1>16 DEF k

(* Runs of one note each are read as the notes, those of the segments if     *)
(* there are any.                                                            *)
LEMMA NotesJoined ==
    ASSUME NEW im, NEW S, NEW notes \in Seq(S), NEW a \in Nat, NEW order,
           im.segments \in Seq(Segment), im.sections \in Seq(Section),
           a + Len(notes) <= Len(im.segments),
           \A i \in 1..Len(im.segments) :
               im.segments[i].header.type = "NOTE" <=> a < i /\ i <= a + Len(notes),
           \A i \in 1..Len(notes) : NotesIn(im.segments[a + i].data, order) = <<notes[i]>>,
           notes = <<>> => \A i \in 1..Len(im.sections) : im.sections[i].header.type # "NOTE"
    PROVE  Notes(im, order) = notes
<1> DEFINE k      == Len(notes)
           mapped == OfType(im.segments, "NOTE")
           runs   == NoteRuns(im)
           part(i) == NotesIn(runs[i].data, order)
           parts  == [i \in 1..Len(runs) |-> part(i)]
<1>1. k \in Nat
  OBVIOUS
<1>2. mapped = SubSeq(im.segments, a + 1, a + k)
  <2> DEFINE list == im.segments
             b    == a + k
             chosen == {i \in 1..Len(list) : list[i].header.type = "NOTE"}
  <2>1. /\ list \in Seq(Segment) /\ b \in Nat /\ a <= b /\ b <= Len(list)
        /\ \A i \in 1..Len(list) : list[i].header.type = "NOTE" <=> a < i /\ i <= b
    BY <1>1
  <2>2. mapped = Chosen(list, chosen)
    BY DEF OfType
  <2> HIDE DEF list, b
  <2>3. \A i \in 1..Len(list) : i \in chosen <=> a < i /\ i <= b
    BY <2>1
  <2> HIDE DEF chosen
  <2>4. Chosen(list, chosen) = SubSeq(list, a + 1, b)
    BY <2>1, <2>3, ChosenRun
  <2> QED
    BY <2>2, <2>4 DEF list, b
<1>3. /\ Len(mapped) = k
      /\ \A i \in 1..k : mapped[i] = im.segments[a + i]
  <2> DEFINE list == im.segments
  <2>1. list \in Seq(Segment) /\ a + k <= Len(list)
    OBVIOUS
  <2> HIDE DEF list, k, mapped
  <2>2. mapped = SubSeq(list, a + 1, a + k)
    BY <1>2 DEF list
  <2>3. Len(SubSeq(list, a + 1, a + k)) = k
        /\ \A i \in 1..k : SubSeq(list, a + 1, a + k)[i] = list[a + i]
    BY <1>1, <2>1
  <2> QED
    BY <2>2, <2>3 DEF list
<1>4. Len(runs) = k /\ \A i \in 1..k : runs[i] = im.segments[a + i]
  <2>1. CASE k = 0
    <3>1. notes = <<>>
      BY <2>1
    <3>2. OfType(im.sections, "NOTE") = <<>>
      <4> DEFINE list == im.sections
                 chosen == {i \in 1..Len(list) : list[i].header.type = "NOTE"}
      <4>1. list \in Seq(Section) /\ 0 \in Nat /\ 0 <= 0 /\ 0 <= Len(list)
        OBVIOUS
      <4>2. \A i \in 1..Len(list) : i \in chosen <=> 0 < i /\ i <= 0
        BY <3>1
      <4>3. OfType(im.sections, "NOTE") = Chosen(list, chosen)
        BY DEF OfType
      <4> HIDE DEF list, chosen
      <4>4. \A x \in Nat : x = 0 =>
                ((\A i \in 1..Len(list) : i \in chosen <=> x < i /\ i <= x)
                    => Chosen(list, chosen) = SubSeq(list, x + 1, x))
        <5> SUFFICES ASSUME NEW x \in Nat, x = 0,
                            \A i \in 1..Len(list) : i \in chosen <=> x < i /\ i <= x
                     PROVE  Chosen(list, chosen) = SubSeq(list, x + 1, x)
          OBVIOUS
        <5>1. x <= x /\ x <= Len(list)
          BY <4>1
        <5> QED
          BY <4>1, <5>1, ChosenRun
      <4>5. Chosen(list, chosen) = SubSeq(list, 0 + 1, 0)
        BY <4>2, <4>4
      <4>6. SubSeq(list, 0 + 1, 0) = <<>>
        BY <4>1
      <4> QED
        BY <4>3, <4>5, <4>6
    <3>3. mapped = <<>>
      <4> HIDE DEF mapped
      <4>1. SubSeq(im.segments, a + 1, a + k) = <<>>
        BY <2>1
      <4> QED
        BY <1>2, <4>1
    <3>4. runs = <<>>
      BY <3>2, <3>3, Zenon DEF NoteRuns
    <3>5. Len(<<>>) = 0
      OBVIOUS
    <3> HIDE DEF runs, k
    <3> QED
      BY <2>1, <3>4, <3>5
  <2>2. CASE k # 0
    <3>1. mapped # <<>>
      <4> HIDE DEF mapped
      <4> QED
        BY <1>3, <2>2
    <3>2. runs = mapped
      BY <3>1, Zenon DEF NoteRuns
    <3> HIDE DEF runs, mapped, k
    <3> QED
      BY <1>3, <3>2
  <2> QED
    BY <2>1, <2>2
<1> DEFINE u == [i \in 0..k |-> SubSeq(notes, 1, i)]
<1>5. Notes(im, order) = Joined(parts)
  BY Zenon DEF Notes
<1> HIDE DEF runs, mapped
<1>6. Len(parts) = k /\ \A i \in 1..k : parts[i] = part(i)
  <2> HIDE DEF part, k
  <2> QED
    BY <1>1, <1>4
<1> HIDE DEF parts
<1>7. \A i \in 1..k : parts[i] = <<notes[i]>>
  BY <1>4, <1>6
<1>8. \A i \in 0..k : u[i] = SubSeq(notes, 1, i)
  OBVIOUS
<1> HIDE DEF u
<1>9. u[0] = <<>> /\ u[k] = notes
  <2>1. 0 \in 0..k /\ k \in 0..k
    BY <1>1
  <2>2. SubSeq(notes, 1, 0) = <<>> /\ SubSeq(notes, 1, k) = notes
    OBVIOUS
  <2> QED
    BY <1>8, <2>1, <2>2
<1>10. ASSUME NEW i \in 1..k PROVE u[i] = u[i - 1] \o parts[i]
  <2>1. i \in 0..k /\ i - 1 \in 0..k
    BY <1>1
  <2>2. SubSeq(notes, 1, i) = SubSeq(notes, 1, i - 1) \o <<notes[i]>>
    OBVIOUS
  <2> QED
    BY <1>7, <1>8, <2>1, <2>2
<1>11. Joined(parts) = u[Len(parts)]
  <2>1. Len(parts) \in Nat
    BY <1>1, <1>6
  <2>2. \A i \in 1..Len(parts) : u[i] = u[i - 1] \o parts[i]
    BY <1>6, <1>10
  <2> HIDE DEF k
  <2> QED
    BY <1>9, <2>1, <2>2, JoinedIs
<1> QED
  BY <1>5, <1>6, <1>9, <1>11

(* The notes come back from the image in a finished file.                    *)
LEMMA NotesAreRead ==
    ASSUME SessionInv, WrittenInv, ListsInv, SectionsInv, LibrariesCollected, pc = "done"
    PROVE  Notes(Built, Order) = request.notes
<1> DEFINE k == Len(request.notes)
<1>1. TypeOK /\ ListsInv /\ stage = "assembled" /\ CallInv
  BY DEF SessionInv
<1>2. Built \in ElfImage /\ Parses(out) /\ Built = Parsed(out) /\ out \in Seq(Byte)
  BY <1>1, CallFinished, SameFiles DEF Built, CallInv, Files!IInv, Files!TypeOK
<1>3. Built.segments \in Seq(Segment) /\ Built.sections \in Seq(Section)
  BY <1>2 DEF ElfImage
<1>4. /\ secs \in Seq(Plain) /\ segs \in Seq(Segment)
      /\ \A i \in 1..k : 1 + i \in 1..Len(secs) /\ secs[1 + i] = NoteSections[i]
      /\ request.notes = <<>> => \A i \in 1..Len(secs) : secs[i].header.type # "NOTE"
  BY <1>1, SectionsAsked, NoteSectionsAsked DEF TypeOK
<1>5. SectionsLeft(Built.sections, edit)
  <2>1. SectionsLeft(image.sections, edit)
    BY DEF SectionsInv
  <2> QED
    BY <1>1, <1>2, <1>4, <2>1, ReadIsLeft
<1>6. request.notes \in Seq(NoteSpec) /\ k \in Nat
  BY <1>1, BuilderAssumption DEF TypeOK, Requests
<1>7. ASSUME NEW i \in 1..k
      PROVE  Len(SerializeNote(request.notes[i])) <= MaxImage
  <2> DEFINE data == SerializeNote(request.notes[i])
  <2>1. 1 + i \in 1..Len(secs) /\ secs[1 + i].header.alloc = FALSE /\ secs[1 + i].data = data
    <3>1. NoteSections[i] = NewSection(NoteSection[request.notes[i].name], "NOTE", FALSE, Word,
                                       data)
      BY DEF NoteSections
    <3> HIDE DEF data
    <3>2. NoteSections[i].header.alloc = FALSE /\ NoteSections[i].data = data
      BY <3>1 DEF NewSection
    <3> QED
      BY <1>4, <3>2
  <2> HIDE DEF data
  <2>2. OutOfReach(secs[1 + i], edit)
    BY <2>1 DEF OutOfReach
  <2>3. Built.sections[1 + i].data = data
    BY <1>5, <2>1, <2>2 DEF SectionsLeft
  <2>4. 1 + i \in 1..Len(Built.sections)
    <3>1. Len(secs) <= Len(Built.sections) /\ Len(secs) \in Nat /\ Len(Built.sections) \in Nat
      BY <1>3, <1>4, <1>5 DEF SectionsLeft
    <3> QED
      BY <2>1, <3>1
  <2>5. Len(Built.sections[1 + i].data) <= MaxImage
    BY <1>2, <2>4, SectionsAreShort
  <2> QED
    BY <2>3, <2>5 DEF data
<1>8. PICK w \in Nat, x \in Nat, bytes \in Seq(RawByte) :
          Holds(Built.segments, w, x, bytes) /\ TakenBy(segs, w, x, bytes)
  BY BuiltHolds
<1>9. PICK a \in Nat :
          /\ a + k <= Len(segs)
          /\ \A i \in 1..k : segs[a + i] = NoteSegments[i]
          /\ \A i \in 1..Len(segs) :
                 segs[i].header.type = "NOTE" <=> a < i /\ i <= a + k
  BY <1>1, NoteSegmentsAsked
<1>10. /\ Len(Built.segments) = Len(segs) /\ Len(segs) \in Nat
       /\ \A i \in 1..Len(segs) : Built.segments[i].header.type = segs[i].header.type
  BY <1>4, <1>8 DEF Holds, Alike
<1>11. ASSUME NEW i \in 1..k
       PROVE  NotesIn(Built.segments[a + i].data, Order) = <<request.notes[i]>>
  <2> DEFINE note == request.notes[i]
             data == SerializeNote(note)
             segment == segs[a + i]
  <2>1. note \in NoteSpec
    BY <1>6
  <2>2. Len(data) <= MaxImage /\ data \in Seq(RawByte) /\ Len(data) \in Nat
    BY <1>7, <2>1, NoteIsBytes
  <2>3. MaxImage < Radix^Word /\ Radix^Word \in Nat /\ MaxImage \in Nat /\ MaxImage < U64Max
        /\ U64Max \in Nat
    BY Spans, BuilderAssumption, FormatAssumption, U64MaxAssumption
  <2>4. NoteSegments[i] = NewSegment("NOTE", 0, SizeOf(data), Word, data)
    BY DEF NoteSegments
  <2>5. segment = NewSegment("NOTE", 0, SizeOf(data), Word, data)
    BY <1>9, <2>4
  <2>6. a + i \in 1..Len(segs)
    BY <1>9, <1>10, <1>6
  <2>7. Len(data) < Radix^Word /\ Len(data) \in U64
    <3> DEFINE l == Len(data)
               p == Radix^Word
    <3>1. l \in Nat /\ l <= MaxImage /\ MaxImage < p /\ p \in Nat
      BY <2>2, <2>3
    <3> HIDE DEF l, p
    <3>2. l < p /\ l \in 0..U64Max
      BY <2>3, <3>1
    <3> QED
      BY <3>2 DEF l, p, U64
  <2>8. NotesIn(data, Order) = <<note>>
    BY <2>1, <2>7, NoteRead
  <2> HIDE DEF data, note, segment
  <2>9. segment.data = data /\ segment.header.filesz = Len(data) /\ segment.header.type = "NOTE"
    BY <2>5, <2>7 DEF NewSegment, SizeOf
  <2>10. Files!SegmentBytes(segment) = data
    BY <2>2, <2>9, WholeSegment, RawBytesAreBytes
  <2>11. Built.segments[a + i].data = data
    <3>1. Built.segments[a + i].data =
              IF a + i = w THEN Copied(Files!SegmentBytes(segment), x - segment.header.vaddr, bytes)
              ELSE Files!SegmentBytes(segment)
      BY <1>8, <2>6 DEF Holds, segment
    <3>2. CASE bytes = <<>>
      <4>1. x - segment.header.vaddr \in Int
        BY <2>5 DEF NewSegment
      <4>2. data \in Seq(Byte)
        BY <2>2, RawBytesAreBytes
      <4>3. Copied(data, x - segment.header.vaddr, bytes) = data
        BY <3>2, <4>1, <4>2, NothingCopied
      <4> QED
        BY <2>10, <3>1, <4>3
    <3>3. CASE bytes # <<>>
      <4>1. IsLoad(segs[w])
        BY <1>8, <3>3 DEF TakenBy, IsFirstLoad, CoversLoaded
      <4>2. a + i # w
        BY <2>9, <4>1 DEF IsLoad, segment
      <4> QED
        BY <2>10, <3>1, <4>2
    <3> QED
      BY <3>2, <3>3
  <2> QED
    BY <2>8, <2>11 DEF note
<1>12. request.notes = <<>> =>
           \A i \in 1..Len(Built.sections) : Built.sections[i].header.type # "NOTE"
  <2> SUFFICES ASSUME request.notes = <<>>, NEW i \in 1..Len(Built.sections)
               PROVE  Built.sections[i].header.type # "NOTE"
    OBVIOUS
  <2>1. Len(secs) \in Nat /\ Len(Built.sections) \in Nat
    BY <1>3, <1>4
  <2>2. CASE i \in 1..Len(secs)
    BY <1>4, <1>5, <2>2 DEF SectionsLeft, SameKind
  <2>3. CASE i \in (Len(secs) + 1)..Len(Built.sections)
    BY <1>5, <2>3 DEF SectionsLeft
  <2> QED
    BY <2>1, <2>2, <2>3
<1>13. PICK im, notes : im = Built /\ notes = request.notes
  OBVIOUS
<1>14. /\ a + Len(notes) <= Len(im.segments)
       /\ \A i \in 1..Len(im.segments) :
              im.segments[i].header.type = "NOTE" <=> a < i /\ i <= a + Len(notes)
  BY <1>9, <1>10, <1>13
<1>15. /\ \A i \in 1..Len(notes) : NotesIn(im.segments[a + i].data, Order) = <<notes[i]>>
       /\ notes = <<>> => \A i \in 1..Len(im.sections) : im.sections[i].header.type # "NOTE"
       /\ im.segments \in Seq(Segment) /\ im.sections \in Seq(Section)
       /\ notes \in Seq(NoteSpec)
  BY <1>3, <1>6, <1>11, <1>12, <1>13
<1>16. Notes(im, Order) = notes
  BY <1>14, <1>15, NotesJoined
<1> QED
  BY <1>13, <1>16

(* and so does the build id, the first note that is one.                     *)
LEMMA NotesAreReported ==
    SessionInv /\ WrittenInv /\ ListsInv /\ SectionsInv /\ LibrariesCollected => NotesReported
<1> SUFFICES ASSUME SessionInv, WrittenInv, ListsInv, SectionsInv, LibrariesCollected,
                    pc = "done"
             PROVE  /\ Notes(Built, Order) = request.notes
                    /\ LET ids == {i \in 1..Len(request.notes) :
                                      /\ request.notes[i].name = Gnu
                                      /\ request.notes[i].type = GnuBuildId}
                       IN  BuildId(Built, Order) =
                               IF ids = {} THEN {} ELSE {request.notes[Least(ids)].descriptor}
  BY DEF NotesReported
<1> DEFINE list == request.notes
           ids  == {i \in 1..Len(list) : list[i].name = Gnu /\ list[i].type = GnuBuildId}
<1>1. Notes(Built, Order) = list
  BY NotesAreRead
<1>2. BuildId(Built, Order) = {list[i].descriptor : i \in {j \in ids : \A l \in ids : j <= l}}
  BY <1>1, Zenon DEF BuildId
<1>3. list \in Seq(NoteSpecs)
  BY DEF SessionInv, TypeOK, Requests
<1>4. ids \in SUBSET Nat
  BY <1>3
<1> HIDE DEF ids
<1>5. ids # {} => {j \in ids : \A l \in ids : j <= l} = {Least(ids)}
  <2> SUFFICES ASSUME ids # {} PROVE {j \in ids : \A l \in ids : j <= l} = {Least(ids)}
    OBVIOUS
  <2>1. Least(ids) \in ids /\ \A y \in ids : Least(ids) <= y
    BY <1>4, LeastOfSet
  <2> DEFINE x == Least(ids)
  <2> HIDE DEF x
  <2>2. x \in ids /\ \A y \in ids : x <= y
    BY <2>1 DEF x
  <2>3. {j \in ids : \A l \in ids : j <= l} = {x}
    <3>1. ASSUME NEW j \in ids, \A l \in ids : j <= l PROVE j = x
      <4>1. j <= x /\ x <= j /\ j \in Nat /\ x \in Nat
        BY <1>4, <2>2, <3>1
      <4> QED
        BY <4>1
    <3> QED
      BY <2>2, <3>1
  <2> QED
    BY <2>3 DEF x
<1>6. BuildId(Built, Order) = IF ids = {} THEN {} ELSE {list[Least(ids)].descriptor}
  BY <1>2, <1>5
<1> QED
  BY <1>1, <1>6 DEF ids

(* Whatever else is asked for and wherever the user writes, the notes asked  *)
(* for come back in their order, each once, and the build id is the first of *)
(* them that is one (builder.rs:336-354, inspect.rs:225-262).                *)
THEOREM NotesAreAsAskedFor == SessionSpec => []NotesReported
<1>1. SessionInit => TablesInv /\ WrittenInv
  BY TablesStart, WrittenStarts
<1>2. TablesInv /\ WrittenInv /\ [SessionNext]_allVars => (TablesInv /\ WrittenInv)'
  BY TablesStep, WrittenSteps DEF TablesInv
<1>3. TablesInv /\ WrittenInv => NotesReported
  BY NotesAreReported DEF TablesInv
<1> QED
  BY <1>1, <1>2, <1>3, PTL DEF SessionSpec

-----------------------------------------------------------------------------
(* The libraries come back.                                                  *)

(* A string ends in one place only,                                          *)
LEMMA EndOfString ==
    ASSUME NEW bytes, Len(bytes) \in Nat, NEW offset \in Nat, NEW end \in offset..Len(bytes),
           \A p \in (offset + 1)..end : bytes[p] # Zero,
           end = Len(bytes) \/ bytes[end + 1] = Zero
    PROVE  StringEnd(bytes, offset) = end
<1> DEFINE Ends(e) == /\ \A p \in (offset + 1)..e : bytes[p] # Zero
                      /\ e = Len(bytes) \/ bytes[e + 1] = Zero
<1>1. Ends(end)
  OBVIOUS
<1>2. ASSUME NEW e \in offset..Len(bytes), Ends(e) PROVE e = end
  <2>1. ~(e < end)
    <3>1. ASSUME e < end PROVE FALSE
      <4>1. e + 1 \in (offset + 1)..end /\ e # Len(bytes)
        BY <3>1
      <4> QED
        BY <1>2, <4>1
    <3> QED
      BY <3>1
  <2>2. ~(end < e)
    <3>1. ASSUME end < e PROVE FALSE
      <4>1. end + 1 \in (offset + 1)..e /\ end # Len(bytes)
        BY <3>1
      <4> QED
        BY <1>2, <4>1
    <3> QED
      BY <3>1
  <2> QED
    BY <2>1, <2>2
<1>3. StringEnd(bytes, offset) = CHOOSE e \in offset..Len(bytes) : Ends(e)
  BY DEF StringEnd
<1> HIDE DEF Ends
<1> DEFINE c == CHOOSE e \in offset..Len(bytes) : Ends(e)
<1>4. c \in offset..Len(bytes) /\ Ends(c)
  BY <1>1
<1> HIDE DEF c
<1>5. c = end
  BY <1>2, <1>4
<1> QED
  BY <1>3, <1>5 DEF c

(* and each has an end.                                                      *)
LEMMA StringEnds ==
    ASSUME NEW bytes, Len(bytes) \in Nat
    PROVE  \E end \in 0..Len(bytes) :
               /\ \A p \in (0 + 1)..end : bytes[p] # Zero
               /\ end = Len(bytes) \/ bytes[end + 1] = Zero
<1> DEFINE S == {e \in 0..Len(bytes) : e = Len(bytes) \/ bytes[e + 1] = Zero}
<1>1. S \in SUBSET Nat /\ Len(bytes) \in S
  OBVIOUS
<1>2. PICK end : end \in S /\ \A y \in S : end <= y
  <2> HIDE DEF S
  <2>1. S # {}
    BY <1>1
  <2>2. Least(S) \in S /\ \A y \in S : Least(S) <= y
    BY <1>1, <2>1, LeastOfSet
  <2> QED
    BY <2>2, Zenon
<1>3. end \in 0..Len(bytes) /\ (end = Len(bytes) \/ bytes[end + 1] = Zero)
  BY <1>2
<1>4. ASSUME NEW p \in (0 + 1)..end, bytes[p] = Zero PROVE FALSE
  <2>1. p - 1 \in 0..Len(bytes) /\ (p - 1) + 1 = p
    BY <1>3
  <2>2. p - 1 \in S
    BY <1>4, <2>1
  <2>3. end <= p - 1
    BY <1>2, <2>2
  <2> QED
    BY <1>3, <2>3
<1> QED
  BY <1>3, <1>4

(* A name with its zero in a table is the string found there.                *)
LEMMA NameFound ==
    ASSUME NEW table \in Seq(RawByte), NEW name \in Seq(RawByte), NEW o \in Nat,
           HoldsAt(table, o, Append(name, Zero))
    PROVE  StringFrom(table, o) = StringFrom(name, 0)
<1>1. Len(table) \in Nat /\ Len(name) \in Nat
  OBVIOUS
<1>2. PICK zero : zero = Zero
  OBVIOUS
<1>3. /\ o + (Len(name) + 1) <= Len(table)
      /\ \A k \in 1..(Len(name) + 1) : table[o + k] = Append(name, zero)[k]
  BY <1>2 DEF HoldsAt
<1>4. /\ \A k \in 1..Len(name) : table[o + k] = name[k]
      /\ table[o + (Len(name) + 1)] = zero
  BY <1>1, <1>3
<1>5. PICK end \in 0..Len(name) :
          /\ \A p \in (0 + 1)..end : name[p] # zero
          /\ end = Len(name) \/ name[end + 1] = zero
  BY <1>1, <1>2, StringEnds
<1>6. StringEnd(name, 0) = end
  <2>1. \A offset \in Nat : offset = 0 => end \in offset..Len(name)
    BY <1>1
  <2>2. \A offset \in Nat : offset = 0 => StringEnd(name, offset) = end
    <3> SUFFICES ASSUME NEW offset \in Nat, offset = 0 PROVE StringEnd(name, offset) = end
      OBVIOUS
    <3>1. end \in offset..Len(name) /\ \A p \in (offset + 1)..end : name[p] # Zero
      BY <1>2, <1>5
    <3> QED
      BY <1>1, <1>2, <1>5, <3>1, EndOfString
  <2> QED
    BY <2>2
<1>7. StringEnd(table, o) = o + end
  <2>1. o + end \in o..Len(table)
    BY <1>1, <1>3
  <2>2. ASSUME NEW p \in (o + 1)..(o + end) PROVE table[p] # Zero
    <3>1. p - o \in 1..Len(name) /\ p - o \in (0 + 1)..end /\ o + (p - o) = p
      BY <1>1
    <3>2. table[p] = name[p - o]
      BY <1>4, <3>1
    <3> QED
      BY <1>2, <1>5, <3>1, <3>2
  <2>3. table[(o + end) + 1] = Zero
    <3>1. (o + end) + 1 = o + (end + 1)
      OBVIOUS
    <3>2. CASE end = Len(name)
      BY <1>2, <1>4, <3>1, <3>2
    <3>3. CASE end # Len(name)
      <4>1. end + 1 \in 1..Len(name) /\ name[end + 1] = zero
        BY <1>1, <1>5, <3>3
      <4> QED
        BY <1>2, <1>4, <3>1, <4>1
    <3> QED
      BY <3>2, <3>3
  <2> DEFINE e == o + end
  <2> HIDE DEF e
  <2>4. e \in o..Len(table) /\ (\A p \in (o + 1)..e : table[p] # Zero) /\ table[e + 1] = Zero
    BY <2>1, <2>2, <2>3 DEF e
  <2>5. StringEnd(table, o) = e
    BY <1>1, <2>4, EndOfString
  <2> QED
    BY <2>5 DEF e
<1>8. SubSeq(table, o + 1, o + end) = SubSeq(name, 0 + 1, end)
  <2> DEFINE z == SubSeq(name, 0 + 1, end)
  <2>1. z \in Seq(RawByte) /\ Len(z) = end /\ \A k \in 1..end : z[k] = name[k]
    BY <1>1
  <2>2. o + end <= Len(table) /\ \A k \in 1..end : table[o + k] = name[k]
    BY <1>1, <1>3, <1>4
  <2> HIDE DEF z
  <2>3. SubSeq(table, o + 1, o + Len(z)) = z
    BY <2>1, <2>2, PartIs
  <2> QED
    BY <2>1, <2>3 DEF z
<1> QED
  BY <1>6, <1>7, <1>8, Zenon DEF StringFrom

(* The dynamic table's rows, in numbers:                                     *)
LEMMA DynamicTableRows ==
    ASSUME nameOffsets \in Seq(Nat), NEW n, n = Len(nameOffsets)
    PROVE  \E rows :
               /\ DynamicTable = Serialized(rows, 2) /\ Len(rows) = n + 3
               /\ \A i \in 1..n : rows[i][1] = DtNeeded /\ rows[i][2] = nameOffsets[i]
               /\ rows[n + 1][1] = DtStrtab /\ rows[n + 2][1] = DtStrsz
               /\ rows[n + 3][1] = DtNull
<1> DEFINE row(i) == <<DtNeeded, nameOffsets[i]>>
           named == [i \in 1..n |-> row(i)]
           a == <<DtStrtab, 0>>
           b == <<DtStrsz, SizeOf(dynstr)>>
           c == <<DtNull, 0>>
<1>1. /\ a[1] = DtStrtab /\ b[1] = DtStrsz /\ c[1] = DtNull
      /\ \A i : row(i)[1] = DtNeeded /\ row(i)[2] = nameOffsets[i]
  OBVIOUS
<1>2. DynamicTable = Serialized(named \o <<a, b, c>>, 2)
  BY DEF DynamicTable
<1>3. n \in Nat
  OBVIOUS
<1> HIDE DEF row, a, b, c
<1>4. Len(named) = n /\ \A i \in 1..n : named[i] = row(i)
  BY <1>3
<1> DEFINE S == {row(i) : i \in 1..n} \cup {a, b, c}
<1>5. named \in Seq(S) /\ a \in S /\ b \in S /\ c \in S
  <2>1. \A i \in 1..n : row(i) \in S
    OBVIOUS
  <2>2. a \in S /\ b \in S /\ c \in S
    OBVIOUS
  <2> HIDE DEF S
  <2> QED
    BY <1>3, <2>1, <2>2
<1> HIDE DEF S, named
<1>6. PICK rows : rows = named \o <<a, b, c>>
  OBVIOUS
<1>7. /\ Len(rows) = n + 3 /\ \A i \in 1..n : rows[i] = named[i]
      /\ rows[n + 1] = a /\ rows[n + 2] = b /\ rows[n + 3] = c
  <2>1. PICK z : z = <<a, b, c>> /\ rows = named \o z
    BY <1>6
  <2>2. z \in Seq(S) /\ Len(z) = 3 /\ z[1] = a /\ z[2] = b /\ z[3] = c
    BY <1>5, <2>1
  <2>3. Appends(rows, named, z, S)
    BY <1>5, <2>1, <2>2, Behind, Zenon
  <2>4. Len(rows) = Len(named) + Len(z) /\ (\A k \in 1..Len(named) : rows[k] = named[k])
        /\ \A k \in 1..Len(z) : rows[Len(named) + k] = z[k]
    BY <2>3 DEF Appends
  <2>5. 1 \in 1..Len(z) /\ 2 \in 1..Len(z) /\ 3 \in 1..Len(z)
    BY <2>2
  <2> QED
    BY <1>4, <2>2, <2>4, <2>5
<1>8. DynamicTable = Serialized(rows, 2)
  BY <1>2, <1>6, Zenon
<1>9. \A i \in 1..n : rows[i][1] = DtNeeded /\ rows[i][2] = nameOffsets[i]
  BY <1>1, <1>4, <1>7
<1> QED
  BY <1>1, <1>7, <1>8, <1>9

(* two in a row,                                                             *)
LEMMA DynamicDigits ==
    ASSUME NEW rows, Len(rows) \in Nat, NEW i \in 1..Len(rows), NEW j \in 1..2,
           NEW size, size = NativeSize(Class), NEW k \in 1..size, NEW at,
           at = ((2 * size) * (i - 1)) + (size * (j - 1))
    PROVE  Serialized(rows, 2)[at + k] = Digits(rows[i][j], size, Order)[k]
<1>1. 2 \in Nat \ {0}
  OBVIOUS
<1>2. \A width \in Nat \ {0} :
          j \in 1..width /\ at = ((width * size) * (i - 1)) + (size * (j - 1)) =>
              Serialized(rows, width)[at + k] = Digits(rows[i][j], size, Order)[k]
  BY SerializedAt
<1>3. \A width \in Nat \ {0} :
          width = 2 => Serialized(rows, width)[at + k] = Digits(rows[i][j], size, Order)[k]
  BY <1>2
<1> QED
  BY <1>1, <1>3

(* as many as there were,                                                    *)
LEMMA RowsRead ==
    ASSUME NEW rows, Len(rows) \in Nat, NEW size, size = NativeSize(Class)
    PROVE  LET data  == Serialized(rows, 2)
               found == DynamicRows(data, Class, Order)
           IN  /\ Len(data) = (2 * size) * Len(rows) /\ Len(data) % (2 * size) = 0
               /\ Len(found) = Len(rows)
               /\ \A i \in 1..Len(rows) :
                      found[i] = [tag   |-> NumberAt(data, 2 * size * (i - 1), size, Order),
                                  value |-> NumberAt(data, (2 * size * (i - 1)) + size,
                                                     size, Order)]
<1> DEFINE data  == Serialized(rows, 2)
           found == DynamicRows(data, Class, Order)
           row(i) == [tag   |-> NumberAt(data, 2 * size * (i - 1), size, Order),
                      value |-> NumberAt(data, (2 * size * (i - 1)) + size, size, Order)]
<1>1. Len(data) = (2 * size) * Len(rows) /\ Len(data) % (2 * size) = 0
      /\ Len(data) \div (2 * size) = Len(rows)
  <2>1. 2 \in Nat \ {0}
    OBVIOUS
  <2>2. \A width \in Nat \ {0} : width = 2 =>
            /\ Len(Serialized(rows, width)) = (width * size) * Len(rows)
            /\ Len(Serialized(rows, width)) % (width * size) = 0
            /\ Len(Serialized(rows, width)) \div (width * size) = Len(rows)
    BY SerializedLength
  <2> QED
    BY <2>1, <2>2
<1>2. found = [i \in 1..(Len(data) \div (2 * size)) |-> row(i)]
  BY Zenon DEF DynamicRows
<1> HIDE DEF data, found, row
<1>3. found = [i \in 1..Len(rows) |-> row(i)]
  BY <1>1, <1>2, Zenon
<1>4. Len(found) = Len(rows) /\ \A i \in 1..Len(rows) : found[i] = row(i)
  BY <1>3
<1> QED
  BY <1>1, <1>4 DEF data, found, row

(* and each as it was, if it fits.                                           *)
LEMMA RowRead ==
    ASSUME NEW rows, Len(rows) \in Nat, NEW i \in 1..Len(rows), Class \in Classes,
           NEW size, size = NativeSize(Class)
    PROVE  LET row == DynamicRows(Serialized(rows, 2), Class, Order)[i]
           IN  /\ rows[i][1] \in 0..(Radix^size - 1) => row.tag = rows[i][1]
               /\ rows[i][2] \in 0..(Radix^size - 1) => row.value = rows[i][2]
<1> DEFINE at == 2 * size * (i - 1)
<1>1. PICK data : data = Serialized(rows, 2)
  OBVIOUS
<1>2. PICK row : row = DynamicRows(data, Class, Order)[i]
  OBVIOUS
<1>3. row = [tag   |-> NumberAt(data, at, size, Order),
             value |-> NumberAt(data, at + size, size, Order)]
  BY <1>1, <1>2, RowsRead
<1>4. size \in 1..(2 * Word) /\ size \in 0..(2 * Word) /\ Word \in Nat
  BY Sizes
<1>5. at \in Int
  BY <1>4, SMTT(30)
<1> DEFINE p == Radix^size
<1>6. rows[i][1] \in 0..(p - 1) => NumberAt(data, at, size, Order) = rows[i][1]
  <2>1. 1 \in 1..2 /\ at = ((2 * size) * (i - 1)) + (size * (1 - 1))
    BY <1>4, <1>5
  <2>2. \A k \in 1..size : data[at + k] = Digits(rows[i][1], size, Order)[k]
    BY <1>1, <2>1, DynamicDigits
  <2> HIDE DEF at
  <2> QED
    BY <1>4, <2>2, NumberRead
<1>7. rows[i][2] \in 0..(p - 1) => NumberAt(data, at + size, size, Order) = rows[i][2]
  <2>1. 2 \in 1..2 /\ at + size = ((2 * size) * (i - 1)) + (size * (2 - 1))
    BY <1>4, <1>5
  <2>2. \A k \in 1..size : data[(at + size) + k] = Digits(rows[i][2], size, Order)[k]
    BY <1>1, <2>1, DynamicDigits
  <2> HIDE DEF at
  <2> QED
    BY <1>4, <2>2, NumberRead
<1> HIDE DEF at, p
<1> QED
  BY <1>1, <1>2, <1>3, <1>6, <1>7 DEF p

(* The entries of a table up to its end: all but the last one.               *)
LEMMA EntriesRead ==
    ASSUME NEW S, NEW list \in Seq(S), NEW n \in Nat, Len(list) = n + 3,
           \A i \in 1..n : list[i].tag = DtNeeded,
           list[n + 1].tag = DtStrtab, list[n + 2].tag = DtStrsz, list[n + 3].tag = DtNull
    PROVE  BeforeNull(list) = SubSeq(list, 1, n + 2)
<1> DEFINE Ends(m) == /\ \A i \in 1..m : list[i].tag # DtNull
                      /\ m = Len(list) \/ list[m + 1].tag = DtNull
           c == CHOOSE m \in 0..Len(list) : Ends(m)
<1>1. DtNeeded # DtNull /\ DtStrtab # DtNull /\ DtStrsz # DtNull
  BY DEF DtNeeded, DtStrtab, DtStrsz, DtNull
<1>2. \A i \in 1..(n + 2) : list[i].tag # DtNull
  <2> TAKE i \in 1..(n + 2)
  <2>1. CASE i \in 1..n
    BY <1>1, <2>1
  <2>2. CASE i = n + 1
    BY <1>1, <2>2
  <2>3. CASE i = n + 2
    BY <1>1, <2>3
  <2> QED
    BY <2>1, <2>2, <2>3
<1>3. Ends(n + 2) /\ n + 2 \in 0..Len(list)
  <2>1. (n + 2) + 1 = n + 3
    OBVIOUS
  <2> QED
    BY <1>2, <2>1
<1>4. ASSUME NEW m \in 0..Len(list), Ends(m) PROVE m = n + 2
  <2>1. ~(m < n + 2)
    <3>1. ASSUME m < n + 2 PROVE FALSE
      <4>1. m + 1 \in 1..(n + 2) /\ m # Len(list)
        BY <3>1
      <4> QED
        BY <1>2, <1>4, <4>1
    <3> QED
      BY <3>1
  <2>2. ~(m > n + 2)
    <3>1. ASSUME m > n + 2 PROVE FALSE
      <4>1. n + 3 \in 1..m
        BY <3>1
      <4> QED
        BY <1>4, <4>1
    <3> QED
      BY <3>1
  <2> QED
    BY <2>1, <2>2
<1>5. BeforeNull(list) = SubSeq(list, 1, c)
  BY DEF BeforeNull
<1> HIDE DEF Ends
<1>6. c \in 0..Len(list) /\ Ends(c)
  BY <1>3
<1> HIDE DEF c
<1>7. c = n + 2
  BY <1>4, <1>6
<1> QED
  BY <1>5, <1>7, Zenon

(* A table of n libraries, at offsets in a table of names,                   *)
NamesThem(list, n, offs, texts, S) ==
    /\ list \in Seq(S) /\ n \in Nat /\ Len(list) = n + 3
    /\ \A i \in 1..n : /\ list[i].tag = DtNeeded /\ list[i].value = offs[i]
                       /\ offs[i] <= Len(texts)
    /\ list[n + 1].tag = DtStrtab /\ list[n + 2].tag = DtStrsz /\ list[n + 3].tag = DtNull
AreNamed(list, n, offs, texts) ==
    Needed(BeforeNull(list), texts) = [i \in 1..n |-> StringFrom(texts, offs[i])]

(* names them: an entry gives the string at its offset.                      *)
LEMMA LibrariesRead ==
    ASSUME NEW S, NEW list, NEW n, NEW offs, NEW texts, NamesThem(list, n, offs, texts, S)
    PROVE  AreNamed(list, n, offs, texts)
<1>0. /\ list \in Seq(S) /\ n \in Nat /\ Len(list) = n + 3
      /\ \A i \in 1..n : /\ list[i].tag = DtNeeded /\ list[i].value = offs[i]
                         /\ offs[i] <= Len(texts)
      /\ list[n + 1].tag = DtStrtab /\ list[n + 2].tag = DtStrsz
      /\ list[n + 3].tag = DtNull
  BY DEF NamesThem
<1>1. PICK entries : entries = BeforeNull(list)
  OBVIOUS
<1>2. /\ entries \in Seq(S) /\ Len(entries) = n + 2
      /\ \A i \in 1..(n + 2) : entries[i] = list[i]
  <2>1. entries = SubSeq(list, 1, n + 2)
    BY <1>0, <1>1, EntriesRead
  <2> QED
    BY <1>0, <2>1
<1> DEFINE indices == {i \in 1..Len(entries) : /\ entries[i].tag = DtNeeded
                                               /\ entries[i].value <= Len(texts)}
           named == Chosen(entries, indices)
           at(i) == StringFrom(texts, named[i].value)
<1>3. Needed(entries, texts) = [i \in 1..Len(named) |-> at(i)]
  BY DEF Needed
<1>4. \A i \in 1..Len(entries) : i \in indices <=> 0 < i /\ i <= n
  <2> TAKE i \in 1..Len(entries)
  <2>1. CASE i \in 1..n
    BY <1>0, <1>2, <2>1
  <2>2. CASE i \in (n + 1)..(n + 2)
    <3>1. entries[i] = list[i] /\ list[i].tag # DtNeeded
      BY <1>0, <1>2, <2>2 DEF DtNeeded, DtStrtab, DtStrsz
    <3> QED
      BY <1>0, <1>2, <2>2, <3>1
  <2> QED
    BY <1>0, <1>2, <2>1, <2>2
<1> HIDE DEF indices
<1>5. named = SubSeq(entries, 0 + 1, n)
  <2>1. \A a \in Nat : a = 0 => Chosen(entries, indices) = SubSeq(entries, a + 1, n)
    <3> SUFFICES ASSUME NEW a \in Nat, a = 0
                 PROVE  Chosen(entries, indices) = SubSeq(entries, a + 1, n)
      OBVIOUS
    <3>1. /\ a <= n /\ n <= Len(entries)
          /\ \A i \in 1..Len(entries) : i \in indices <=> a < i /\ i <= n
      BY <1>0, <1>2, <1>4
    <3> QED
      BY <1>0, <1>2, <3>1, ChosenRun
  <2> QED
    BY <2>1
<1> HIDE DEF named
<1>6. Len(named) = n /\ \A i \in 1..n : named[i] = list[i]
  <2>1. Len(named) = n /\ \A i \in 1..n : named[i] = entries[i]
    BY <1>0, <1>2, <1>5
  <2> QED
    BY <1>0, <1>2, <2>1
<1>7. \A i \in 1..n : at(i) = StringFrom(texts, offs[i])
  BY <1>0, <1>6, Zenon
<1> HIDE DEF at
<1>8. [i \in 1..Len(named) |-> at(i)] = [i \in 1..n |-> StringFrom(texts, offs[i])]
  BY <1>6, <1>7
<1> QED
  BY <1>1, <1>3, <1>8, Zenon DEF AreNamed

(* The dynamic table names the libraries asked for.                          *)
LEMMA NeededRead ==
    ASSUME nameOffsets \in Seq(Nat), dynstr \in Seq(RawByte), Class \in Classes,
           NEW asked \in Seq(Seq(RawByte)), Len(nameOffsets) = Len(asked),
           \A i \in 1..Len(asked) : HoldsAt(dynstr, nameOffsets[i], Append(asked[i], Zero)),
           Len(dynstr) < Radix^Word, 10 < Radix^Word
    PROVE  Needed(BeforeNull(DynamicRows(DynamicTable, Class, Order)), dynstr) =
               [i \in 1..Len(asked) |-> StringFrom(asked[i], 0)]
<1> DEFINE n    == Len(asked)
           size == NativeSize(Class)
           list == DynamicRows(DynamicTable, Class, Order)
<1>1. PICK rows :
          /\ DynamicTable = Serialized(rows, 2) /\ Len(rows) = n + 3
          /\ \A i \in 1..n : rows[i][1] = DtNeeded /\ rows[i][2] = nameOffsets[i]
          /\ rows[n + 1][1] = DtStrtab /\ rows[n + 2][1] = DtStrsz
          /\ rows[n + 3][1] = DtNull
  BY DynamicTableRows
<1>2. n \in Nat /\ Len(rows) \in Nat /\ Len(dynstr) \in Nat
  BY <1>1
<1>3. /\ Radix^size \in Nat /\ 10 < Radix^size /\ Len(dynstr) < Radix^size
  <2>1. PICK p, l : p = Radix^Word /\ l = Len(dynstr)
    OBVIOUS
  <2>2. p \in Nat \ {0} /\ Radix^(2 * Word) = p * p /\ l \in Nat
    BY <1>2, <2>1, Spans
  <2>3. 10 < p /\ l < p
    BY <2>1
  <2>4. size = Word \/ size = 2 * Word
    BY DEF NativeSize
  <2>5. PICK q : q = Radix^size
    OBVIOUS
  <2>6. q = p \/ q = p * p
    BY <2>1, <2>2, <2>4, <2>5, Zenon
  <2>7. p * p \in Nat /\ p <= p * p
    BY <2>2, SMTT(30)
  <2>8. q \in Nat /\ 10 < q /\ l < q
    <3>1. q \in Nat /\ p <= q
      <4>1. PICK r : r = p * p
        OBVIOUS
      <4>2. r \in Nat /\ p <= r /\ (q = p \/ q = r)
        BY <2>6, <2>7, <4>1, Zenon
      <4> QED
        BY <2>2, <4>2
    <3> QED
      BY <2>2, <2>3, <3>1
  <2> QED
    BY <2>1, <2>5, <2>8, Zenon
<1>4. PICK S : list \in Seq(S) /\ Len(list) = n + 3
  <2> DEFINE T == {list[i] : i \in 1..Len(list)}
  <2>1. Len(list) = n + 3
    BY <1>1, <1>2, RowsRead
  <2>2. list = [i \in 1..(Len(DynamicTable) \div (2 * size)) |-> list[i]]
    BY Zenon DEF DynamicRows
  <2>3. (Len(DynamicTable) \div (2 * size)) = n + 3
    <3>1. \A width \in Nat \ {0} : width = 2 =>
              Len(Serialized(rows, width)) \div (width * size) = Len(rows)
      BY <1>2, SerializedLength
    <3>2. Len(Serialized(rows, 2)) \div (2 * size) = Len(rows)
      BY <3>1
    <3> QED
      BY <1>1, <3>2, Zenon
  <2> HIDE DEF list
  <2>4. list = [i \in 1..(n + 3) |-> list[i]]
    BY <2>2, <2>3, Zenon
  <2>5. \A i \in 1..(n + 3) : list[i] \in T
    BY <2>1
  <2> HIDE DEF T
  <2>6. [i \in 1..(n + 3) |-> list[i]] \in Seq(T)
    BY <1>2, <2>5
  <2>7. list \in Seq(T)
    BY <2>4, <2>6, Zenon
  <2> QED
    BY <2>1, <2>7, Zenon
<1>5. ASSUME NEW i \in 1..(n + 3)
      PROVE  /\ rows[i][1] \in 0..(Radix^size - 1) => list[i].tag = rows[i][1]
             /\ rows[i][2] \in 0..(Radix^size - 1) => list[i].value = rows[i][2]
  <2>1. i \in 1..Len(rows)
    BY <1>1
  <2> QED
    BY <1>1, <1>2, <2>1, RowRead
<1>6. /\ DtNeeded \in 0..(Radix^size - 1) /\ DtStrtab \in 0..(Radix^size - 1)
      /\ DtStrsz \in 0..(Radix^size - 1) /\ DtNull \in 0..(Radix^size - 1)
  BY <1>3 DEF DtNeeded, DtStrtab, DtStrsz, DtNull
<1>7. ASSUME NEW i \in 1..n
      PROVE  nameOffsets[i] \in 0..(Radix^size - 1) /\ nameOffsets[i] <= Len(dynstr)
  <2>1. nameOffsets[i] + Len(Append(asked[i], Zero)) <= Len(dynstr)
    BY DEF HoldsAt
  <2>2. Len(Append(asked[i], Zero)) \in Nat /\ nameOffsets[i] \in Nat
    <3>1. asked[i] \in Seq(RawByte) /\ Zero \in RawByte
      BY ZerosAreBytes
    <3> QED
      BY <3>1
  <2> DEFINE o == nameOffsets[i]
             l == Len(Append(asked[i], Zero))
             p == Radix^size
  <2>3. o + l <= Len(dynstr) /\ l \in Nat /\ o \in Nat /\ p \in Nat /\ Len(dynstr) < p
    BY <1>3, <2>1, <2>2
  <2> HIDE DEF o, l, p, n
  <2>4. o \in 0..(p - 1) /\ o <= Len(dynstr)
    BY <1>2, <2>3
  <2> QED
    BY <2>4 DEF o, p
<1> HIDE DEF list, size
<1>8. /\ \A i \in 1..n : /\ list[i].tag = DtNeeded /\ list[i].value = nameOffsets[i]
                         /\ nameOffsets[i] <= Len(dynstr)
      /\ list[n + 1].tag = DtStrtab /\ list[n + 2].tag = DtStrsz /\ list[n + 3].tag = DtNull
  <2>1. n + 1 \in 1..(n + 3) /\ n + 2 \in 1..(n + 3) /\ n + 3 \in 1..(n + 3)
        /\ \A i \in 1..n : i \in 1..(n + 3)
    BY <1>2
  <2> HIDE DEF n
  <2>2. \A i \in 1..n : list[i].tag = DtNeeded /\ list[i].value = nameOffsets[i]
    BY <1>1, <1>5, <1>6, <1>7, <2>1
  <2>3. list[n + 1].tag = DtStrtab /\ list[n + 2].tag = DtStrsz /\ list[n + 3].tag = DtNull
    BY <1>1, <1>5, <1>6, <2>1
  <2> QED
    BY <1>7, <2>2, <2>3
<1>9. Needed(BeforeNull(list), dynstr) = [i \in 1..n |-> StringFrom(dynstr, nameOffsets[i])]
  <2>1. PICK offs, texts : offs = nameOffsets /\ texts = dynstr
    OBVIOUS
  <2> HIDE DEF n
  <2>2. \A i \in 1..n : /\ list[i].tag = DtNeeded /\ list[i].value = offs[i]
                        /\ offs[i] <= Len(texts)
    BY <1>8, <2>1
  <2>3. NamesThem(list, n, offs, texts, S)
    BY <1>2, <1>4, <1>8, <2>2 DEF NamesThem
  <2>4. AreNamed(list, n, offs, texts)
    BY <2>3, LibrariesRead, Zenon
  <2> QED
    BY <2>1, <2>4, Zenon DEF AreNamed
<1>10. ASSUME NEW i \in 1..n PROVE StringFrom(dynstr, nameOffsets[i]) = StringFrom(asked[i], 0)
  <2>1. asked[i] \in Seq(RawByte) /\ nameOffsets[i] \in Nat
        /\ HoldsAt(dynstr, nameOffsets[i], Append(asked[i], Zero))
    OBVIOUS
  <2> QED
    BY <2>1, NameFound
<1>11. [i \in 1..n |-> StringFrom(dynstr, nameOffsets[i])]
       = [i \in 1..n |-> StringFrom(asked[i], 0)]
  BY <1>10
<1> QED
  BY <1>9, <1>11, Zenon DEF list, n

(* A segment that is not loaded has its bytes, wherever the user writes.     *)
LEMMA NotWritten ==
    ASSUME segs \in Seq(Segment), NEW s, NEW w \in Nat, NEW x \in Nat, NEW bytes \in Seq(RawByte),
           Holds(s, w, x, bytes), TakenBy(segs, w, x, bytes), NEW i \in 1..Len(segs),
           segs[i].header.type # "LOAD", segs[i].header.filesz = Len(segs[i].data)
    PROVE  s[i].data = segs[i].data
<1> DEFINE segment == segs[i]
<1>1. segment \in Segment
  OBVIOUS
<1>2. segment.data \in Seq(Byte) /\ segment.header.vaddr \in Int
  <2>1. segment.data \in Seq(Byte) /\ segment.header \in Phdr
    BY <1>1 DEF Segment
  <2>2. segment.header.vaddr \in U64
    BY <2>1 DEF Phdr
  <2> QED
    BY <2>1, <2>2, U64MaxAssumption DEF U64
<1>3. Files!SegmentBytes(segment) = segment.data
  BY <1>2, WholeSegment
<1>4. s[i].data = IF i = w THEN Copied(segment.data, x - segment.header.vaddr, bytes)
                  ELSE segment.data
  BY <1>3 DEF Holds
<1>5. CASE bytes = <<>>
  <2>1. Copied(segment.data, x - segment.header.vaddr, bytes) = segment.data
    BY <1>2, <1>5, NothingCopied
  <2> QED
    BY <1>4, <2>1
<1>6. CASE bytes # <<>>
  <2>1. IsLoad(segs[w])
    BY <1>6 DEF TakenBy, IsFirstLoad, CoversLoaded
  <2>2. i # w
    BY <2>1 DEF IsLoad
  <2> QED
    BY <1>4, <2>2
<1> QED
  BY <1>5, <1>6

(* Where the dynamic table is in the image assembled: in the last segment,   *)
(* the only one of its type, and in a section as long.                       *)
LEMMA DynamicAsked ==
    ASSUME TypeOK, ListsInv, stage = "assembled"
    PROVE  /\ request.needed = <<>> =>
                  \A i \in 1..Len(segs) : segs[i].header.type # "DYNAMIC"
           /\ request.needed # <<>> =>
                  /\ Len(segs) \in 1..Len(segs)
                  /\ segs[Len(segs)] =
                         NewSegment("DYNAMIC", 0, SizeOf(DynamicTable), 8, DynamicTable)
                  /\ \A i \in 1..(Len(segs) - 1) : segs[i].header.type # "DYNAMIC"
                  /\ \E t \in 1..Len(secs) : secs[t].data = DynamicTable
<1> DEFINE Other == {s \in Segment : s.header.type # "DYNAMIC"}
           table == NewSegment("DYNAMIC", 0, SizeOf(DynamicTable), 8, DynamicTable)
<1>1. PICK L, T, N, D : /\ segs = ((L \o T) \o N) \o D
                        /\ L = LoadSegments /\ T = TemplateSegments /\ N = NoteSegments
                        /\ D = DynamicSegments
  <2>1. segs = ((LoadSegments \o TemplateSegments) \o NoteSegments) \o DynamicSegments
    BY DEF ListsInv, FrontSegments
  <2> QED
    BY <2>1, Zenon
<1>2. request \in Requests /\ segs \in Seq(Segment)
  BY DEF TypeOK
<1>3. L \in Seq(Other)
  <2>1. L \in Seq(Segment)
    BY <1>1, <1>2, AskedAreSegments
  <2>2. \A i \in 1..Len(L) : L[i].header.type = "LOAD"
    <3>1. Len(request.loads) \in Nat
      BY <1>2 DEF Requests
    <3>2. Len(L) = Len(request.loads)
      BY <1>1, <3>1 DEF LoadSegments
    <3> QED
      BY <1>1, <3>2 DEF LoadSegments, NewSegment
  <2>3. \A i \in 1..Len(L) : L[i] \in Other
    BY <2>1, <2>2
  <2> HIDE DEF Other
  <2> QED
    BY <2>1, <2>3
<1>4. T \in Seq(Other)
  <2>1. T \in Seq(Segment)
    BY <1>1, <1>2, AskedAreSegments
  <2>2. \A i \in 1..Len(T) : T[i].header.type = "TLS"
    <3>1. CASE request.tls = {}
      BY <1>1, <3>1 DEF TemplateSegments
    <3>2. CASE request.tls # {}
      BY <1>1, <3>2 DEF TemplateSegments, TlsSegment, NewSegment
    <3> QED
      BY <3>1, <3>2
  <2>3. \A i \in 1..Len(T) : T[i] \in Other
    BY <2>1, <2>2
  <2> HIDE DEF Other
  <2> QED
    BY <2>1, <2>3
<1>5. N \in Seq(Other)
  <2>1. N \in Seq(Segment)
    BY <1>1, <1>2, NotesAreTyped
  <2>2. Len(request.notes) \in Nat
    BY <1>2 DEF Requests
  <2>3. Len(N) = Len(request.notes)
    BY <1>1, <2>2 DEF NoteSegments
  <2>4. \A i \in 1..Len(N) : N[i].header.type = "NOTE"
    BY <1>1, <2>3 DEF NoteSegments, NewSegment
  <2>5. \A i \in 1..Len(N) : N[i] \in Other
    BY <2>1, <2>4
  <2> HIDE DEF Other
  <2> QED
    BY <2>1, <2>5
<1>6. PICK A, F : A = L \o T /\ F = A \o N /\ segs = F \o D
  BY <1>1, Zenon
<1>7. \A s \in Other : s \in Segment /\ s.header.type # "DYNAMIC"
  OBVIOUS
<1> HIDE DEF Other, table
<1>8. A \in Seq(Other)
  BY <1>3, <1>4, <1>6
<1>9. F \in Seq(Other)
  BY <1>5, <1>6, <1>8
<1>10. Len(F) \in Nat /\ \A i \in 1..Len(F) : F[i].header.type # "DYNAMIC"
  BY <1>7, <1>9
<1>11. ASSUME request.needed = <<>>
       PROVE  \A i \in 1..Len(segs) : segs[i].header.type # "DYNAMIC"
  <2>1. D = <<>>
    BY <1>1, <1>11 DEF DynamicSegments
  <2>2. segs = F
    BY <1>6, <1>9, <2>1
  <2> QED
    BY <1>10, <2>2
<1>12. ASSUME request.needed # <<>>
       PROVE  /\ Len(segs) \in 1..Len(segs) /\ segs[Len(segs)] = table
              /\ \A i \in 1..(Len(segs) - 1) : segs[i].header.type # "DYNAMIC"
              /\ \E t \in 1..Len(secs) : secs[t].data = DynamicTable
  <2>1. D = <<table>>
    BY <1>1, <1>12 DEF DynamicSegments, table
  <2>2. Len(segs) = Len(F) + 1 /\ segs[Len(F) + 1] = table
        /\ \A i \in 1..Len(F) : segs[i] = F[i]
    BY <1>6, <1>9, <2>1
  <2>3. Len(segs) \in 1..Len(segs) /\ segs[Len(segs)] = table
        /\ \A i \in 1..(Len(segs) - 1) : segs[i].header.type # "DYNAMIC"
    BY <1>10, <2>2
  <2>4. PICK G, E, R : /\ secs = (G \o E) \o R /\ E = DynamicSections
                       /\ G = FrontSections /\ R = RelaSections
    <3>1. secs = (FrontSections \o DynamicSections) \o RelaSections
      BY DEF ListsInv
    <3> QED
      BY <3>1, Zenon
  <2>5. PICK y : y = NewSection(Dynamic, "DYNAMIC", TRUE, 8, DynamicTable)
    OBVIOUS
  <2>20. y.data = DynamicTable
    BY <2>5 DEF NewSection
  <2>21. Len(E) = 2 /\ E[2] = y
    BY <1>12, <2>4, <2>5 DEF DynamicSections
  <2>6. PICK S : G \in Seq(S) /\ E \in Seq(S) /\ R \in Seq(S)
    <3>1. /\ G \in Seq(Plain) /\ R \in Seq(Plain) /\ E \in Seq(Plain)
      <4> DEFINE Fronts == {s \in Plain : ~IsTable(s) /\ s.name # Dynstr}
                 Others == {s \in Plain : ~IsTable(s)}
                 rela   == NewSection(RelaDyn, "RELA", FALSE, 8, RelaTable)
      <4>1. /\ G \in Seq(Fronts) /\ DynamicSections \in Seq(Others)
            /\ request.relocations # <<>> => R = <<rela>> /\ rela \in Plain
            /\ request.relocations = <<>> => R = <<>>
        BY <1>12, <2>4, SectionKinds
      <4>3. Fronts \subseteq Plain /\ Others \subseteq Plain
        OBVIOUS
      <4> HIDE DEF Fronts, Others, rela
      <4>4. R \in Seq(Plain)
        <5>1. CASE request.relocations = <<>>
          BY <4>1, <5>1
        <5>2. CASE request.relocations # <<>>
          <6>1. \A z \in Plain : <<z>> \in Seq(Plain)
            OBVIOUS
          <6> QED
            BY <4>1, <5>2, <6>1, Zenon
        <5> QED
          BY <5>1, <5>2
      <4>5. G \in Seq(Plain) /\ E \in Seq(Plain)
        BY <2>4, <4>1, <4>3
      <4> QED
        BY <4>4, <4>5
    <3> QED
      BY <3>1
  <2>7. PICK B : B = G \o E /\ secs = B \o R
    BY <2>4, Zenon
  <2>8. /\ Len(B) = Len(G) + 2 /\ B[Len(G) + 2] = y /\ Len(G) \in Nat
        /\ Len(B) \in Nat /\ B \in Seq(S)
    <3>1. B \in Seq(S)
      BY <2>6, <2>7
    <3>2. Len(B) = Len(G) + 2 /\ B[Len(G) + 2] = y /\ Len(G) \in Nat
      <4>1. B \in Seq(S) /\ Appends(B, G, E, S)
        BY <2>6, <2>7, Behind
      <4>2. Len(G) \in Nat
        BY <2>6
      <4> QED
        BY <2>21, <4>1, <4>2 DEF Appends
    <3> QED
      BY <3>1, <3>2
  <2>9. Len(secs) = Len(B) + Len(R) /\ Len(R) \in Nat /\ \A i \in 1..Len(B) : secs[i] = B[i]
    <3>1. secs \in Seq(S) /\ Appends(secs, B, R, S)
      BY <2>6, <2>7, <2>8, Behind
    <3>2. Len(R) \in Nat
      BY <2>6
    <3> QED
      BY <3>1, <3>2 DEF Appends
  <2>10. Len(G) + 2 \in 1..Len(secs) /\ secs[Len(G) + 2] = y
    BY <2>8, <2>9
  <2>11. \E t \in 1..Len(secs) : secs[t].data = DynamicTable
    BY <2>20, <2>10
  <2> QED
    BY <2>3, <2>11
<1> QED
  BY <1>11, <1>12 DEF table

(* What is left of the names of the libraries, wherever the user writes      *)
(* behind them.                                                              *)
LEMMA NamesAreLeft ==
    ASSUME SessionInv, ListsInv, SectionsInv, pc = "done", request.needed # <<>>,
           \A w \in edit : w[1] >= Len(dynstr)
    PROVE  DataOf(Built, Dynstr) = dynstr /\ Len(dynstr) <= MaxImage
<1>1. TypeOK /\ stage = "assembled" /\ CallInv
  BY DEF SessionInv
<1>2. Built \in ElfImage /\ Parses(out) /\ Built = Parsed(out) /\ out \in Seq(Byte)
  BY <1>1, CallFinished, SameFiles DEF Built, CallInv, Files!IInv, Files!TypeOK
<1>3. PICK d \in 1..Len(secs) : /\ secs[d] = NewSection(Dynstr, "STRTAB", TRUE, 1, dynstr)
                                /\ \A i \in 1..(d - 1) : secs[i].name # Dynstr
  BY <1>1, SectionsAsked
<1>4. secs \in Seq(Plain) /\ Built.sections \in Seq(Section)
  BY <1>1, <1>2, SectionsAsked DEF ElfImage
<1>5. SectionsLeft(Built.sections, edit)
  <2>1. SectionsLeft(image.sections, edit)
    BY DEF SectionsInv
  <2> QED
    BY <1>1, <1>2, <1>4, <2>1, ReadIsLeft
<1>6. secs[d].data = dynstr /\ secs[d].name = Dynstr
  BY <1>3 DEF NewSection
<1>7. OutOfReach(secs[d], edit)
  BY <1>6 DEF OutOfReach
<1>8. PICK list : list = Built.sections
  OBVIOUS
<1>9. /\ d \in 1..Len(list) /\ list[d].data = dynstr /\ list[d].name = Dynstr
      /\ \A i \in 1..(d - 1) : list[i].name # Dynstr
  <2>1. /\ Len(secs) <= Len(list)
        /\ \A i \in 1..Len(secs) :
               /\ SameKind(list[i], secs[i])
               /\ OutOfReach(secs[i], edit) => list[i].data = secs[i].data
    BY <1>5, <1>8 DEF SectionsLeft
  <2>2. Len(secs) \in Nat /\ Len(list) \in Nat
    BY <1>4, <1>8
  <2>3. d \in 1..Len(list) /\ \A i \in 1..(d - 1) : i \in 1..Len(secs)
    BY <2>1, <2>2
  <2>4. list[d].data = dynstr /\ list[d].name = Dynstr
    BY <1>6, <1>7, <2>1 DEF SameKind
  <2>5. \A i \in 1..(d - 1) : list[i].name # Dynstr
    BY <1>3, <2>1, <2>3 DEF SameKind
  <2> QED
    BY <2>3, <2>4, <2>5
<1>10. {j \in 1..Len(list) : list[j].name = Dynstr /\ \A k \in 1..(j - 1) : list[k].name # Dynstr}
           = {d}
  <2>1. ASSUME NEW j \in 1..Len(list), list[j].name = Dynstr,
               \A k \in 1..(j - 1) : list[k].name # Dynstr
        PROVE  j = d
    <3>1. j \in Nat /\ d \in Nat
      OBVIOUS
    <3>2. ~(j < d)
      BY <1>9, <2>1, <3>1
    <3>3. ~(d < j)
      BY <1>9, <2>1, <3>1
    <3> QED
      BY <3>1, <3>2, <3>3
  <2> QED
    BY <1>9, <2>1
<1>11. SectionByName(Built, Dynstr) = {list[d]}
  BY <1>8, <1>10 DEF SectionByName
<1>12. DataOf(Built, Dynstr) = list[d].data
  BY <1>11 DEF DataOf
<1>13. Len(list[d].data) <= MaxImage
  BY <1>2, <1>8, <1>9, SectionsAreShort
<1> QED
  BY <1>9, <1>12, <1>13

(* What is left of the dynamic table.                                        *)
LEMMA TableIsLeft ==
    ASSUME SessionInv, WrittenInv, ListsInv, SectionsInv, pc = "done", request.needed # <<>>
    PROVE  /\ Len(DynamicTable) <= MaxImage
           /\ \E s : s.data = DynamicTable /\ FirstSegment(Built, "DYNAMIC") = {s}
<1>1. TypeOK /\ stage = "assembled" /\ CallInv /\ segs \in Seq(Segment)
  BY DEF SessionInv, TypeOK
<1>2. Built \in ElfImage /\ Parses(out) /\ Built = Parsed(out) /\ out \in Seq(Byte)
  BY <1>1, CallFinished, SameFiles DEF Built, CallInv, Files!IInv, Files!TypeOK
<1>3. PICK n : n = Len(segs)
  OBVIOUS
<1>4. /\ n \in 1..n
      /\ segs[n] = NewSegment("DYNAMIC", 0, SizeOf(DynamicTable), 8, DynamicTable)
      /\ \A i \in 1..(n - 1) : segs[i].header.type # "DYNAMIC"
      /\ \E t \in 1..Len(secs) : secs[t].data = DynamicTable
  BY <1>1, <1>3, DynamicAsked
<1>5. Len(DynamicTable) <= MaxImage
  <2>1. secs \in Seq(Plain) /\ Built.sections \in Seq(Section)
    BY <1>1, <1>2, SectionsAsked DEF ElfImage
  <2>2. SectionsLeft(image.sections, edit)
    BY DEF SectionsInv
  <2>3. SectionsLeft(Built.sections, edit)
    BY <1>1, <1>2, <2>1, <2>2, ReadIsLeft
  <2>4. PICK t \in 1..Len(secs) : secs[t].data = DynamicTable
    BY <1>4
  <2>5. Len(Built.sections[t].data) = Len(DynamicTable) /\ Len(secs) <= Len(Built.sections)
    BY <2>3, <2>4 DEF SectionsLeft
  <2>6. t \in 1..Len(Built.sections)
    <3>1. Len(secs) \in Nat /\ Len(Built.sections) \in Nat
      BY <2>1
    <3> QED
      BY <2>5, <3>1
  <2>7. Len(Built.sections[t].data) <= MaxImage
    BY <1>2, <2>6, SectionsAreShort
  <2> QED
    BY <2>5, <2>7
<1>6. PICK table : table = DynamicTable
  OBVIOUS
<1>7. table \in Seq(RawByte)
  <2>1. nameOffsets \in Seq(Nat) /\ dynstr \in Seq(RawByte)
    BY <1>1 DEF TypeOK
  <2>2. DynamicTable \in Seq(RawByte)
    BY <2>1, DynamicIsBytes
  <2> QED
    BY <1>6, <2>2, Zenon
<1>8. Len(table) \in U64
  <2>1. MaxImage \in Nat /\ MaxImage < U64Max /\ U64Max \in Nat
    BY FormatAssumption, U64MaxAssumption
  <2>2. Len(table) \in Nat /\ Len(table) <= MaxImage
    BY <1>5, <1>6, <1>7
  <2> QED
    BY <2>1, <2>2 DEF U64
<1>9. /\ segs[n].data = table /\ segs[n].header.filesz = Len(table)
      /\ segs[n].header.type = "DYNAMIC"
  BY <1>4, <1>6, <1>8 DEF NewSegment, SizeOf
<1>10. PICK s, w : /\ s = Built.segments /\ w \in Nat
                   /\ \E x \in Nat, bytes \in Seq(RawByte) :
                          Holds(s, w, x, bytes) /\ TakenBy(segs, w, x, bytes)
  BY BuiltHolds
<1>11. s[n].data = table
  <2>1. n \in 1..Len(segs) /\ segs[n].header.type # "LOAD"
        /\ segs[n].header.filesz = Len(segs[n].data)
    BY <1>3, <1>4, <1>9
  <2>2. PICK x \in Nat, bytes \in Seq(RawByte) :
            Holds(s, w, x, bytes) /\ TakenBy(segs, w, x, bytes)
    BY <1>10
  <2>3. s[n].data = segs[n].data
    BY <1>1, <1>10, <2>1, <2>2, NotWritten
  <2> QED
    BY <1>9, <2>3
<1>12. Len(s) = n /\ \A i \in 1..n : s[i].header.type = segs[i].header.type
  BY <1>3, <1>10 DEF Holds, Alike
<1>13. {j \in 1..Len(s) : /\ s[j].header.type = "DYNAMIC"
                          /\ \A k \in 1..(j - 1) : s[k].header.type # "DYNAMIC"} = {n}
  <2>1. n \in Nat
    BY <1>1, <1>3
  <2>2. ASSUME NEW j \in 1..n, s[j].header.type = "DYNAMIC" PROVE j = n
    <3>1. j \notin 1..(n - 1)
      BY <1>4, <1>12, <2>1, <2>2
    <3> QED
      BY <2>1, <3>1
  <2>3. ASSUME NEW k \in 1..(n - 1) PROVE s[k].header.type # "DYNAMIC"
    <3>1. k \in 1..n
      BY <2>1
    <3> QED
      BY <1>4, <1>12, <3>1
  <2>4. n \in 1..Len(s) /\ s[n].header.type = "DYNAMIC"
    BY <1>4, <1>9, <1>12
  <2> QED
    BY <1>12, <2>2, <2>3, <2>4
<1>14. FirstSegment(Built, "DYNAMIC") = {s[n]}
  <2>1. s = Built.segments
    BY <1>10
  <2> QED
    BY <1>13, <2>1 DEF FirstSegment
<1> QED
  BY <1>5, <1>6, <1>11, <1>14

(* What the libraries read are, wherever the user writes behind their names. *)
LEMMA NeededIsReported ==
    SessionInv /\ WrittenInv /\ ListsInv /\ SectionsInv /\ LibrariesCollected => NeededReported
<1> SUFFICES ASSUME SessionInv, WrittenInv, ListsInv, SectionsInv, LibrariesCollected,
                    pc = "done", \A w \in edit : w[1] >= Len(dynstr)
             PROVE  NeededLibraries(Built, Dynstr, Class, Order) =
                        {[i \in 1..Len(request.needed) |-> StringFrom(request.needed[i], 0)]}
  BY DEF NeededReported
<1>1. TypeOK /\ stage = "assembled" /\ CallInv
  BY DEF SessionInv
<1>2. PICK asked : asked = request.needed
  OBVIOUS
<1>3. /\ request \in Requests /\ asked \in Seq(Seq(RawByte)) /\ Class \in Classes
      /\ nameOffsets \in Seq(Nat) /\ dynstr \in Seq(RawByte)
  <2>1. request \in Requests /\ nameOffsets \in Seq(Nat) /\ dynstr \in Seq(RawByte)
    BY <1>1 DEF TypeOK
  <2>2. request.format \in Classes \X Orders
    BY <2>1, BuilderAssumption DEF Requests
  <2>3. asked \in Seq(Seq(RawByte))
    BY <1>2, <2>1 DEF Requests
  <2> QED
    BY <2>1, <2>2, <2>3 DEF Class
<1> DEFINE answer == [i \in 1..Len(asked) |-> StringFrom(asked[i], 0)]
<1>4. CASE asked = <<>>
  <2>1. \A i \in 1..Len(segs) : segs[i].header.type # "DYNAMIC"
    BY <1>1, <1>2, <1>4, DynamicAsked
  <2>2. PICK s : /\ s = Built.segments /\ Len(s) = Len(segs)
                 /\ \A i \in 1..Len(segs) : Alike(s[i], segs[i])
    BY BuiltHolds DEF Holds
  <2>3. FirstSegment(Built, "DYNAMIC") = {}
    BY <2>1, <2>2 DEF FirstSegment, Alike
  <2>4. NeededLibraries(Built, Dynstr, Class, Order) = {<<>>}
    BY <2>3, Zenon DEF NeededLibraries
  <2>5. answer = <<>>
    BY <1>4
  <2> QED
    BY <1>2, <2>4, <2>5, Zenon
<1>5. CASE asked # <<>>
  <2>1. DataOf(Built, Dynstr) = dynstr /\ Len(dynstr) <= MaxImage
    BY <1>2, <1>5, NamesAreLeft
  <2>2. PICK s : /\ s.data = DynamicTable /\ FirstSegment(Built, "DYNAMIC") = {s}
                 /\ Len(DynamicTable) <= MaxImage
    BY <1>2, <1>5, TableIsLeft
  <2>3. Len(nameOffsets) = Len(asked)
    BY <1>1, <1>2, <1>5 DEF ListsInv
  <2>4. \A i \in 1..Len(asked) : HoldsAt(dynstr, nameOffsets[i], Append(asked[i], Zero))
    BY <1>1, <1>2, <1>5, <2>3 DEF LibrariesCollected
  <2>5. PICK rows : DynamicTable = Serialized(rows, 2) /\ Len(rows) = Len(asked) + 3
    BY <1>3, <2>3, DynamicTableRows
  <2>6. PICK size, m, l : size = NativeSize(Class) /\ m = Len(asked) /\ l = Len(DynamicTable)
    OBVIOUS
  <2>7. m \in Nat /\ m >= 1
    BY <1>3, <1>5, <2>6
  <2>8. l = (2 * size) * (m + 3) /\ l % (2 * size) = 0
    <3>1. Len(rows) \in Nat
      BY <2>5, <2>6, <2>7
    <3>2. /\ Len(Serialized(rows, 2)) = (2 * size) * Len(rows)
          /\ Len(Serialized(rows, 2)) % (2 * size) = 0
      BY <2>6, <3>1, RowsRead
    <3> QED
      BY <2>5, <2>6, <3>2
  <2>9. size \in Nat /\ size >= 2
    <3>1. size \in {Word, 2 * Word} /\ Word \in Nat /\ Word > 1
      BY <2>6, Sizes
    <3> QED
      BY <3>1
  <2>10. l >= 16 /\ l \in Nat
    <3>1. PICK q : q = m + 3
      OBVIOUS
    <3>2. q \in Nat /\ q >= 4
      BY <2>7, <3>1
    <3>3. (2 * size) * q >= 16 /\ (2 * size) * q \in Nat
      BY <2>9, <3>2, SMTT(30)
    <3> QED
      BY <2>8, <3>1, <3>3
  <2>11. 10 < Radix^Word /\ Len(dynstr) < Radix^Word
    <3>1. PICK p, d : p = Radix^Word /\ d = Len(dynstr)
      OBVIOUS
    <3>2. MaxImage < p /\ p \in Nat /\ MaxImage \in Nat
      BY <3>1, Spans, BuilderAssumption, FormatAssumption
    <3>3. d \in Nat /\ d <= MaxImage /\ l <= MaxImage
      BY <1>3, <2>1, <2>2, <2>6, <3>1
    <3>4. 10 < p /\ d < p
      BY <2>10, <3>2, <3>3
    <3> QED
      BY <3>1, <3>4
  <2>12. Needed(BeforeNull(DynamicRows(DynamicTable, Class, Order)), dynstr) = answer
    BY <1>3, <2>3, <2>4, <2>11, NeededRead
  <2>13. Len(s.data) % (2 * NativeSize(Class)) = 0
    BY <2>2, <2>6, <2>8
  <2> DEFINE read(t) == Needed(BeforeNull(DynamicRows(t.data, Class, Order)),
                               DataOf(Built, Dynstr))
  <2>14. read(s) = answer
    BY <2>1, <2>2, <2>12, Zenon
  <2>15. NeededLibraries(Built, Dynstr, Class, Order) =
             {read(t) : t \in {u \in {s} : Len(u.data) % (2 * NativeSize(Class)) = 0}}
    <3>1. FirstSegment(Built, "DYNAMIC") # {}
      BY <2>2
    <3> QED
      BY <2>2, <3>1, Zenon DEF NeededLibraries
  <2>16. {u \in {s} : Len(u.data) % (2 * NativeSize(Class)) = 0} = {s}
    BY <2>13
  <2> HIDE DEF read, answer
  <2>17. {read(t) : t \in {s}} = {answer}
    BY <2>14
  <2> QED
    BY <1>2, <2>15, <2>16, <2>17, Zenon DEF answer
<1> QED
  BY <1>4, <1>5

(* Whatever else is asked for, the libraries asked for come back in their    *)
(* order, each up to its first zero, unless the user writes over their names *)
(* (builder.rs:468-500, dynamic.rs:128-226).                                 *)
THEOREM NeededAreAsAskedFor == SessionSpec => []NeededReported
<1>1. SessionInit => TablesInv /\ WrittenInv
  BY TablesStart, WrittenStarts
<1>2. TablesInv /\ WrittenInv /\ [SessionNext]_allVars => (TablesInv /\ WrittenInv)'
  BY TablesStep, WrittenSteps DEF TablesInv
<1>3. TablesInv /\ WrittenInv => NeededReported
  BY NeededIsReported DEF TablesInv
<1> QED
  BY <1>1, <1>2, <1>3, PTL DEF SessionSpec

=============================================================================
