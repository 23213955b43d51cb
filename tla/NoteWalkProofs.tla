--------------------------- MODULE NoteWalkProofs ---------------------------
(* The note walk stays within its data, whatever the sizes in the data say,  *)
(* and reads back what the builder writes, wherever the bytes are cut.       *)
EXTENDS NoteWalk, FiniteSetTheorems, TLAPS

(* Padding brings a length to the next multiple of four.                     *)
LEMMA PaddingAligns ==
    ASSUME NEW n \in Nat
    PROVE  /\ Padding4(n) \in 0..3
           /\ (n + Padding4(n)) % 4 = 0
BY SMT DEF Padding4

(* A number read from the data is a natural number.                          *)
LEMMA WordIsNat ==
    ASSUME TypeOK, NEW at \in Nat, at + 4 <= Len(data)
    PROVE  Word(at) \in Nat
<1>1. Radix \in Nat
    BY NoteAssumption
<1>2. \A k \in 1..Len(data) : data[k] \in Nat
    <2>1. data \in Seq(Byte)
        BY DEF TypeOK
    <2>2. \A k \in 1..Len(data) : data[k] \in Byte
        BY <2>1
    <2> QED
        BY <1>1, <2>2 DEF Byte
<1>3. Len(data) \in Nat
    BY DEF TypeOK
<1>4. /\ data[at + 1] \in Nat /\ data[at + 2] \in Nat
      /\ data[at + 3] \in Nat /\ data[at + 4] \in Nat
    BY <1>2, <1>3
<1>5. \A m, n \in Nat : m + (Radix * n) \in Nat
    BY <1>1
<1> DEFINE fourth == data[at + 4]
           third  == data[at + 3] + (Radix * fourth)
           second == data[at + 2] + (Radix * third)
<1>6. third \in Nat
    BY <1>4, <1>5
<1> HIDE DEF third
<1>7. second \in Nat
    BY <1>4, <1>5, <1>6
<1> HIDE DEF second
<1>8. data[at + 1] + (Radix * second) \in Nat
    BY <1>4, <1>5, <1>7
<1> QED
    BY <1>8 DEF Word, second, third

(* The sizes of the record at the cursor, and the places they give.          *)
LEMMA RecordPlaces ==
    ASSUME TypeOK, CursorInv, HeaderFits
    PROVE  /\ NameLen \in Nat /\ DescLen \in Nat
           /\ NameEnd \in Nat /\ DescStart \in Nat /\ DescEnd \in Nat
           /\ NameEnd = offset + 12 + NameLen
           /\ DescStart % 4 = 0
           /\ DescStart >= NameEnd
           /\ DescEnd = DescStart + DescLen
<1>1. offset \in Nat /\ Len(data) \in Nat /\ offset + 12 <= Len(data)
    BY DEF TypeOK, HeaderFits, HeaderSize
<1>2. NameLen \in Nat
    BY <1>1, WordIsNat DEF NameLen
<1>3. DescLen \in Nat
    <2>1. offset + 4 \in Nat /\ (offset + 4) + 4 <= Len(data)
        BY <1>1
    <2> QED
        BY <2>1, WordIsNat DEF DescLen
<1>4. Padding4(NameLen) \in 0..3 /\ (NameLen + Padding4(NameLen)) % 4 = 0
    BY <1>2, PaddingAligns
<1>5. NameEnd \in Nat /\ NameEnd = offset + 12 + NameLen
    BY <1>1, <1>2 DEF NameEnd, HeaderSize
<1>6. DescStart \in Nat /\ DescStart >= NameEnd
    BY <1>4, <1>5 DEF DescStart
<1>7. DescStart % 4 = 0
    <2>1. offset % 4 = 0
        BY DEF CursorInv
    <2> DEFINE pad == Padding4(NameLen)
    <2>2. pad \in Nat /\ DescStart = offset + 12 + NameLen + pad
        BY <1>4, <1>5 DEF DescStart
    <2>3. (NameLen + pad) % 4 = 0
        BY <1>4
    <2> HIDE DEF pad
    <2> QED
        BY <1>1, <1>2, <2>1, <2>2, <2>3, SMT
<1> QED
    BY <1>2, <1>3, <1>5, <1>6, <1>7 DEF DescEnd

-----------------------------------------------------------------------------
(* The state a call starts in.                                               *)
LEMMA InitHolds == Init => TypeOK /\ CursorInv
<1> SUFFICES ASSUME Init PROVE TypeOK /\ CursorInv
    OBVIOUS
<1>1. data \in Seq(Byte)
    <2>1. CASE data \in Foreign
        BY <2>1, NoteAssumption
    <2>2. CASE /\ specs \in Written
               /\ \E cut \in 0..Len(Serialized(specs)) :
                      data = SubSeq(Serialized(specs), 1, cut)
        <3> DEFINE all == Serialized(specs)
        <3>1. all \in Seq(Byte)
            BY <2>2, SerializedAssumption
        <3>2. PICK cut \in 0..Len(all) : data = SubSeq(all, 1, cut)
            BY <2>2
        <3> HIDE DEF all
        <3>3. SubSeq(all, 1, cut) \in Seq(Byte)
            BY <3>1, <3>2
        <3> QED
            BY <3>2, <3>3
    <2> QED
        BY <2>1, <2>2 DEF Init
<1>2. offset = 0 /\ notes = <<>> /\ result = "walking"
    BY DEF Init
<1>3. TypeOK
    BY <1>1, <1>2 DEF TypeOK
<1>4. CursorInv
    <2>1. Len(data) \in Nat
        BY <1>1
    <2> QED
        BY <1>2, <2>1 DEF CursorInv, HeaderSize
<1> QED
    BY <1>3, <1>4

(* The note a step takes is a note.                                          *)
LEMMA NoteTaken ==
    ASSUME TypeOK, CursorInv, HeaderFits, Fits(DescEnd)
    PROVE  [name       |-> Name,
            type       |-> Word(offset + 8),
            descriptor |-> SubSeq(data, DescStart + 1, DescEnd)] \in Note
<1>1. data \in Seq(Byte) /\ offset \in Nat
    BY DEF TypeOK
<1>2. /\ NameLen \in Nat /\ NameEnd \in Nat /\ DescStart \in Nat /\ DescEnd \in Nat
      /\ NameEnd = offset + 12 + NameLen /\ DescStart >= NameEnd
      /\ DescEnd >= DescStart
    BY RecordPlaces
<1>3. DescEnd <= Len(data) /\ Len(data) \in Nat
    BY <1>1 DEF Fits
<1>4. Word(offset + 8) \in Nat
    <2>1. (offset + 8) + 4 <= Len(data) /\ offset + 8 \in Nat
        BY <1>1, <1>3 DEF HeaderFits, HeaderSize
    <2> QED
        BY <2>1, WordIsNat
<1>5. SubSeq(data, DescStart + 1, DescEnd) \in Seq(Byte)
    BY <1>1, <1>2, <1>3
<1> DEFINE name == SubSeq(data, NameEnd - NameLen + 1, NameEnd)
<1>6. name \in Seq(Byte)
    BY <1>1, <1>2, <1>3
<1>7. Name \in Seq(Byte)
    <2> HIDE DEF name
    <2>1. Trimmed(name) \in Seq(Byte)
        BY <1>6 DEF Trimmed
    <2> QED
        BY <2>1 DEF Name, name
<1> QED
    BY <1>4, <1>5, <1>7 DEF Note

(* Every step keeps the cursor in its bounds.                                *)
LEMMA StepHolds == TypeOK /\ CursorInv /\ [Next]_vars => TypeOK' /\ CursorInv'
<1> SUFFICES ASSUME TypeOK, CursorInv, [Next]_vars
             PROVE  TypeOK' /\ CursorInv'
    OBVIOUS
<1>1. CASE TakeNote
    <2>1. HeaderFits /\ Fits(DescEnd)
        BY <1>1 DEF TakeNote
    <2> DEFINE note == [name       |-> Name,
                        type       |-> Word(offset + 8),
                        descriptor |-> SubSeq(data, DescStart + 1, DescEnd)]
    <2>2. note \in Note
        BY <2>1, NoteTaken
    <2>3. notes' = Append(notes, note) /\ data' = data /\ result' = result
        BY <1>1 DEF TakeNote
    <2> HIDE DEF note
    <2>4. notes \in Seq(Note) /\ data \in Seq(Byte) /\ offset \in Nat
        BY DEF TypeOK
    <2>5. notes' \in Seq(Note) /\ Len(notes') = Len(notes) + 1 /\ Len(notes) \in Nat
        BY <2>2, <2>3, <2>4
    <2>6. /\ DescLen \in Nat /\ DescEnd \in Nat /\ DescStart \in Nat /\ NameLen \in Nat
          /\ DescStart % 4 = 0 /\ DescEnd = DescStart + DescLen
          /\ DescStart >= offset + 12
        BY <2>1, <2>4, RecordPlaces
    <2> DEFINE pad == Padding4(DescLen)
    <2>7. pad \in 0..3 /\ (DescLen + pad) % 4 = 0
        BY <2>6, PaddingAligns
    <2>8. offset' = DescEnd + pad
        BY <1>1 DEF TakeNote
    <2> HIDE DEF pad
    <2>9. DescEnd <= Len(data) /\ Len(data) \in Nat
        BY <2>1, <2>4 DEF Fits
    <2>10. TypeOK'
        <3>1. offset' \in Nat
            BY <2>6, <2>7, <2>8
        <3> QED
            BY <2>3, <2>4, <2>5, <3>1 DEF TypeOK
    <2>11. offset' % 4 = 0
        BY <2>6, <2>7, <2>8, SMT
    <2>12. offset' <= Len(data') + 3
        BY <2>3, <2>6, <2>7, <2>8, <2>9
    <2>13. HeaderSize * Len(notes') <= offset'
        <3>1. 12 * Len(notes) <= offset
            BY DEF CursorInv, HeaderSize
        <3>2. offset' >= offset + 12
            BY <2>4, <2>6, <2>7, <2>8
        <3> QED
            BY <2>4, <2>5, <2>6, <2>7, <2>8, <3>1, <3>2 DEF HeaderSize
    <2> QED
        BY <2>10, <2>11, <2>12, <2>13 DEF CursorInv
<1>2. CASE \E r \in {"ok", "error", "panic"} : Return(r)
    BY <1>2 DEF Return, TypeOK, CursorInv
<1>3. CASE UNCHANGED vars
    BY <1>3 DEF vars, TypeOK, CursorInv
<1>4. [Next]_vars => TakeNote \/ (\E r \in {"ok", "error", "panic"} : Return(r)) \/ UNCHANGED vars
    BY DEF Next, BadName, NoRoom, AtTheEnd, PastTheEnd, Returned
<1> QED
    BY <1>1, <1>2, <1>3, <1>4

(* For every run of bytes, whatever sizes it claims: the cursor stays on a   *)
(* multiple of four, within the data and its padding, and ahead of twelve    *)
(* bytes for each note, so that the walk ends (notes.rs:69-96).              *)
THEOREM CursorBounded == Spec => []CursorInv
<1>1. Init => TypeOK /\ CursorInv
    BY InitHolds
<1>2. (TypeOK /\ CursorInv) /\ [Next]_vars => (TypeOK /\ CursorInv)'
    BY StepHolds
<1> QED
    BY <1>1, <1>2, PTL DEF Spec

(* What the walk returns is made of notes (notes.rs:88-94).                  *)
THEOREM TypeCorrect == Spec => []TypeOK
<1>1. Init => TypeOK /\ CursorInv
    BY InitHolds
<1>2. (TypeOK /\ CursorInv) /\ [Next]_vars => (TypeOK /\ CursorInv)'
    BY StepHolds
<1> QED
    BY <1>1, <1>2, PTL DEF Spec

-----------------------------------------------------------------------------
(* Induction over the natural numbers, for a set of them: the numbers below  *)
(* each number left out would be an infinite descent.                        *)
LEMMA SetInduction ==
    ASSUME NEW S \in SUBSET Nat, 0 \in S, \A n \in S : n + 1 \in S
    PROVE  S = Nat
<1> SUFFICES ASSUME NEW out \in Nat \ S PROVE FALSE
    OBVIOUS
<1> DEFINE below(x) == 0..(x - 1)
           T == {below(x) : x \in Nat \ S}
           R == StrictSubsetOrdering(Nat)
<1>1. IsWellFoundedOn(R, FiniteSubsetsOf(Nat))
    BY FS_StrictSubsetOrderingWellFounded
<1>2. T \subseteq FiniteSubsetsOf(Nat)
    <2> SUFFICES ASSUME NEW x \in Nat \ S PROVE below(x) \in FiniteSubsetsOf(Nat)
        OBVIOUS
    <2>1. x - 1 \in Int /\ 0 \in Int
        OBVIOUS
    <2>2. IsFiniteSet(0..(x - 1))
        BY <2>1, FS_Interval
    <2> QED
        BY <2>2 DEF FiniteSubsetsOf
<1>3. T # {}
    OBVIOUS
<1> HIDE DEF R
<1>4. PICK t \in T : \A u \in T : ~(<<u, t>> \in R)
    BY <1>1, <1>2, <1>3, WFMin
<1>5. PICK x \in Nat \ S : t = below(x)
    BY <1>4
<1>6. x - 1 \in Nat \ S
    <2>1. x # 0
        OBVIOUS
    <2>2. x - 1 \in Nat /\ (x - 1) + 1 = x
        BY <2>1
    <2> QED
        BY <2>2
<1>7. below(x - 1) \in T /\ below(x - 1) \subseteq below(x) /\ below(x - 1) # below(x)
    <2>1. x - 1 \in below(x) /\ x - 1 \notin below(x - 1)
        BY <1>6
    <2> QED
        BY <1>6, <2>1
<1>8. below(x) \in SUBSET Nat /\ below(x - 1) \in SUBSET Nat
    BY <1>6
<1>9. <<below(x - 1), below(x)>> \in R
    <2> HIDE DEF below
    <2> QED
        BY <1>7, <1>8 DEF R, StrictSubsetOrdering
<1> HIDE DEF below, T
<1> QED
    BY <1>4, <1>5, <1>7, <1>9

-----------------------------------------------------------------------------
(* A list of notes, serialized.                                              *)

WrittenNote == [name : Seq(Text), type : Byte, descriptor : Seq(Byte)]

(* parts[i] is the first i notes of a list, serialized.                      *)
IsParts(parts, n, list) ==
    parts = [i \in 0..n |-> IF i = 0 THEN <<>>
                            ELSE parts[i - 1] \o SerializeNote(list[i])]

(* The recursion of Serialized has a solution.                               *)
LEMMA PartsExist ==
    ASSUME NEW list
    PROVE  \A n \in Nat : \E parts : IsParts(parts, n, list)
<1> DEFINE S == {n \in Nat : \E parts : IsParts(parts, n, list)}
<1>1. 0 \in S
    <2> DEFINE first == [i \in 0..0 |-> <<>>]
    <2>1. \A i \in 0..0 : i = 0
        OBVIOUS
    <2>2. first = [i \in 0..0 |-> IF i = 0 THEN <<>>
                                  ELSE first[i - 1] \o SerializeNote(list[i])]
        BY <2>1
    <2>3. IsParts(first, 0, list)
        BY <2>2 DEF IsParts
    <2> QED
        BY <2>3
<1>2. ASSUME NEW n \in S PROVE n + 1 \in S
    <2>1. PICK parts : IsParts(parts, n, list)
        OBVIOUS
    <2>2. n \in Nat
        OBVIOUS
    <2> DEFINE more == [i \in 0..(n + 1) |->
                           IF i = n + 1 THEN parts[n] \o SerializeNote(list[n + 1])
                           ELSE parts[i]]
               rest(i) == IF i = 0 THEN <<>> ELSE more[i - 1] \o SerializeNote(list[i])
    <2>3. ASSUME NEW i \in 0..(n + 1) PROVE more[i] = rest(i)
        <3>1. CASE i = n + 1
            <4>1. more[i] = parts[n] \o SerializeNote(list[i])
                BY <3>1, Zenon
            <4>2. n \in 0..(n + 1) /\ n # n + 1 /\ i # 0 /\ i - 1 = n
                BY <2>2, <3>1
            <4>3. more[n] = parts[n]
                BY <4>2, Zenon
            <4> HIDE DEF more
            <4> QED
                BY <4>1, <4>2, <4>3
        <3>2. CASE i # n + 1
            <4>1. i \in 0..n /\ more[i] = parts[i]
                BY <2>2, <3>2
            <4>2. parts[i] = IF i = 0 THEN <<>>
                             ELSE parts[i - 1] \o SerializeNote(list[i])
                BY <2>1, <4>1, Zenon DEF IsParts
            <4>3. i # 0 => i - 1 \in 0..(n + 1) /\ i - 1 # n + 1
                BY <2>2, <4>1
            <4>4. i # 0 => more[i - 1] = parts[i - 1]
                BY <4>3
            <4> HIDE DEF more
            <4> QED
                BY <4>1, <4>2, <4>4
        <3> QED
            BY <3>1, <3>2
    <2>4. more = [i \in 0..(n + 1) |-> more[i]]
        OBVIOUS
    <2> HIDE DEF more
    <2>5. IsParts(more, n + 1, list)
        BY <2>3, <2>4 DEF IsParts
    <2> QED
        BY <2>2, <2>5
<1>3. S = Nat
    <2> HIDE DEF S
    <2>1. S \in SUBSET Nat
        BY DEF S
    <2> QED
        BY <1>1, <1>2, <2>1, SetInduction
<1> QED
    BY <1>3

(* Serialized is its last element.                                           *)
LEMMA SerializedIsLast ==
    ASSUME NEW list, Len(list) \in Nat
    PROVE  \E parts : IsParts(parts, Len(list), list) /\ Serialized(list) = parts[Len(list)]
<1>1. \E parts : IsParts(parts, Len(list), list)
    BY PartsExist
<1> QED
    BY <1>1 DEF Serialized, IsParts

(* Two solutions agree, also over a longer and a shorter list.               *)
LEMMA PartsAgree ==
    ASSUME NEW m \in Nat, NEW n \in Nat, NEW k \in Nat, k <= m, k <= n,
           NEW a, NEW b, NEW p, NEW q, IsParts(p, m, a), IsParts(q, n, b),
           \A i \in 1..k : a[i] = b[i]
    PROVE  p[k] = q[k]
<1> DEFINE S == {i \in Nat : i <= k => p[i] = q[i]}
<1>1. ASSUME NEW i \in 0..k
      PROVE  /\ p[i] = IF i = 0 THEN <<>> ELSE p[i - 1] \o SerializeNote(a[i])
             /\ q[i] = IF i = 0 THEN <<>> ELSE q[i - 1] \o SerializeNote(b[i])
    <2>1. i \in 0..m /\ i \in 0..n
        OBVIOUS
    <2> QED
        BY <2>1, Zenon DEF IsParts
<1>2. 0 \in S
    <2>1. 0 \in 0..k
        OBVIOUS
    <2> QED
        BY <1>1, <2>1
<1>3. ASSUME NEW i \in S PROVE i + 1 \in S
    <2> SUFFICES ASSUME i + 1 <= k PROVE p[i + 1] = q[i + 1]
        OBVIOUS
    <2>1. p[i] = q[i] /\ a[i + 1] = b[i + 1] /\ i + 1 \in 0..k /\ i + 1 # 0
          /\ (i + 1) - 1 = i
        OBVIOUS
    <2> QED
        BY <1>1, <2>1
<1>4. S = Nat
    <2> HIDE DEF S
    <2>1. S \in SUBSET Nat
        BY DEF S
    <2> QED
        BY <1>2, <1>3, <2>1, SetInduction
<1> QED
    BY <1>4

(* The first i notes of a list, serialized, are the first i - 1 and note i.  *)
LEMMA SerializedGrows ==
    ASSUME NEW S, NEW list \in Seq(S)
    PROVE  /\ Serialized(SubSeq(list, 1, 0)) = <<>>
           /\ \A i \in 1..Len(list) :
                  Serialized(SubSeq(list, 1, i))
                      = Serialized(SubSeq(list, 1, i - 1)) \o SerializeNote(list[i])
           /\ Serialized(SubSeq(list, 1, Len(list))) = Serialized(list)
<1>1. PICK parts : IsParts(parts, Len(list), list) /\ Serialized(list) = parts[Len(list)]
    BY SerializedIsLast
<1>2. ASSUME NEW i \in 0..Len(list) PROVE Serialized(SubSeq(list, 1, i)) = parts[i]
    <2> DEFINE short == SubSeq(list, 1, i)
    <2>1. Len(short) = i /\ i \in Nat /\ \A j \in 1..i : short[j] = list[j]
        OBVIOUS
    <2> HIDE DEF short
    <2>2. PICK some : IsParts(some, i, short) /\ Serialized(short) = some[i]
        BY <2>1, SerializedIsLast
    <2>3. some[i] = parts[i]
        <3>1. Len(list) \in Nat /\ i <= Len(list)
            OBVIOUS
        <3> QED
            BY <1>1, <2>1, <2>2, <3>1, PartsAgree
    <2> QED
        BY <2>2, <2>3 DEF short
<1>3. Len(list) \in 0..Len(list) /\ 0 \in 0..Len(list)
    OBVIOUS
<1>4. ASSUME NEW i \in 0..Len(list)
      PROVE  parts[i] = IF i = 0 THEN <<>> ELSE parts[i - 1] \o SerializeNote(list[i])
    BY <1>1, Zenon DEF IsParts
<1>5. Serialized(SubSeq(list, 1, 0)) = <<>>
    BY <1>2, <1>3, <1>4
<1>6. ASSUME NEW i \in 1..Len(list)
      PROVE  Serialized(SubSeq(list, 1, i))
                 = Serialized(SubSeq(list, 1, i - 1)) \o SerializeNote(list[i])
    <2>1. i \in 0..Len(list) /\ i - 1 \in 0..Len(list) /\ i # 0
        OBVIOUS
    <2> QED
        BY <1>2, <1>4, <2>1
<1>7. Serialized(SubSeq(list, 1, Len(list))) = Serialized(list)
    BY <1>1, <1>2, <1>3
<1> QED
    BY <1>5, <1>6, <1>7

(* Sequences joined; an operator of its own, for the provers to reason with  *)
(* what follows only.                                                        *)
Join(s, t) == s \o t

(* r is m elements of s and then n of t.                                     *)
IsJoin(r, s, m, t, n) ==
    /\ r \in Seq(Nat) /\ Len(r) = m + n
    /\ \A j \in 1..m : r[j] = s[j]
    /\ \A j \in 1..n : r[m + j] = t[j]

(* Join is such.                                                             *)
LEMMA Joined ==
    ASSUME NEW s \in Seq(Nat), NEW t \in Seq(Nat)
    PROVE  IsJoin(Join(s, t), s, Len(s), t, Len(t))
BY DEF Join, IsJoin

(* A sequence over numbers is one of numbers.                                *)
LEMMA Numbers ==
    ASSUME NEW A \in SUBSET Nat, NEW s \in Seq(A)
    PROVE  s \in Seq(Nat)
<1>1. Len(s) \in Nat /\ s = [k \in 1..Len(s) |-> s[k]] /\ \A k \in 1..Len(s) : s[k] \in A
    OBVIOUS
<1>2. s \in [1..Len(s) -> Nat]
    BY <1>1
<1>3. \A n \in Nat : \A t \in [1..n -> Nat] : t \in Seq(Nat)
    OBVIOUS
<1> QED
    BY <1>1, <1>2, <1>3, Zenon

(* A size, serialized.                                                       *)
LEMMA SizeBytes ==
    ASSUME NEW n \in Nat
    PROVE  /\ U32(n) \in Seq(Nat) /\ Len(U32(n)) = 4
           /\ U32(n)[1] = n /\ U32(n)[2] = 0 /\ U32(n)[3] = 0 /\ U32(n)[4] = 0
BY DEF U32

(* A serialized note: its header, and where its name and descriptor are.     *)
LEMMA NoteBytes ==
    ASSUME NEW note \in WrittenNote
    PROVE  LET R     == SerializeNote(note)
               named == Append(note.name, 0)
               m     == Len(named)
               d     == Len(note.descriptor)
               p     == Padding4(m)
           IN  /\ R \in Seq(Nat) /\ m \in Nat /\ d \in Nat /\ p \in 0..3
               /\ Padding4(d) \in 0..3
               /\ Len(R) = 12 + m + p + d + Padding4(d)
               /\ R[1] = m /\ R[2] = 0 /\ R[3] = 0 /\ R[4] = 0
               /\ R[5] = d /\ R[6] = 0 /\ R[7] = 0 /\ R[8] = 0
               /\ R[9] = note.type /\ R[10] = 0 /\ R[11] = 0 /\ R[12] = 0
               /\ \A j \in 1..m : R[12 + j] = named[j]
               /\ \A j \in 1..d : R[12 + m + p + j] = note.descriptor[j]
<1> DEFINE named == note.name \o <<0>>
           desc  == note.descriptor
           m     == Len(named)
           d     == Len(desc)
           p     == Padding4(m)
           q     == Padding4(d)
           two   == Join(U32(m), U32(d))
           head  == Join(two, U32(note.type))
<1>1. /\ note.name \in Seq(Nat) /\ desc \in Seq(Nat) /\ note.type \in Nat
      /\ Byte \subseteq Nat
    <2>1. Byte \subseteq Nat /\ Text \subseteq Nat
        BY NoteAssumption DEF Byte
    <2>2. note.name \in Seq(Text) /\ desc \in Seq(Byte) /\ note.type \in Byte
        BY DEF WrittenNote
    <2> QED
        BY <2>1, <2>2, Numbers
<1>2. named \in Seq(Nat) /\ named = Append(note.name, 0)
    <2> DEFINE name == note.name
    <2>1. name \in Seq(Nat)
        BY <1>1
    <2> HIDE DEF name
    <2>2. name \o <<0>> \in Seq(Nat) /\ name \o <<0>> = Append(name, 0)
        BY <2>1
    <2> QED
        BY <2>2 DEF name
<1>3. m \in Nat /\ d \in Nat /\ p \in 0..3 /\ q \in 0..3
    <2>1. m \in Nat /\ d \in Nat
        BY <1>1, <1>2
    <2> HIDE DEF m, d
    <2> QED
        BY <2>1, PaddingAligns
<1> HIDE DEF named, desc, m, d, p, q, two, head
<1>4. /\ head \in Seq(Nat) /\ Len(head) = 12
      /\ head[1] = m /\ head[2] = 0 /\ head[3] = 0 /\ head[4] = 0
      /\ head[5] = d /\ head[6] = 0 /\ head[7] = 0 /\ head[8] = 0
      /\ head[9] = note.type /\ head[10] = 0 /\ head[11] = 0 /\ head[12] = 0
    <2> DEFINE x == U32(m)
               y == U32(d)
               z == U32(note.type)
    <2>1. /\ x \in Seq(Nat) /\ Len(x) = 4 /\ y \in Seq(Nat) /\ Len(y) = 4
          /\ z \in Seq(Nat) /\ Len(z) = 4
          /\ x[1] = m /\ x[2] = 0 /\ x[3] = 0 /\ x[4] = 0
          /\ y[1] = d /\ y[2] = 0 /\ y[3] = 0 /\ y[4] = 0
          /\ z[1] = note.type /\ z[2] = 0 /\ z[3] = 0 /\ z[4] = 0
        BY <1>1, <1>3, SizeBytes
    <2>0. two = Join(x, y) /\ head = Join(two, z)
        BY DEF two, head
    <2> HIDE DEF x, y, z
    <2>2. /\ two \in Seq(Nat) /\ Len(two) = 8
          /\ \A j \in 1..4 : two[j] = x[j]
          /\ \A j \in 1..4 : two[4 + j] = y[j]
        <3>1. IsJoin(two, x, 4, y, 4)
            BY <2>0, <2>1, Joined
        <3> QED
            BY <3>1 DEF IsJoin
    <2>3. /\ head \in Seq(Nat) /\ Len(head) = 12
          /\ \A j \in 1..8 : head[j] = two[j]
          /\ \A j \in 1..4 : head[8 + j] = z[j]
        <3>1. IsJoin(head, two, 8, z, 4)
            BY <2>0, <2>1, <2>2, Joined
        <3> QED
            BY <3>1 DEF IsJoin
    <2>4. /\ head[1] = x[1] /\ head[2] = x[2] /\ head[3] = x[3] /\ head[4] = x[4]
          /\ head[5] = y[1] /\ head[6] = y[2] /\ head[7] = y[3] /\ head[8] = y[4]
          /\ head[9] = z[1] /\ head[10] = z[2] /\ head[11] = z[3] /\ head[12] = z[4]
        BY <2>2, <2>3
    <2> QED
        BY <2>1, <2>3, <2>4
<1>5. \A n \in Nat : ZeroBytes(n) \in Seq(Nat) /\ Len(ZeroBytes(n)) = n
    BY DEF ZeroBytes
<1> DEFINE zp == ZeroBytes(p)
           zq == ZeroBytes(q)
           r1 == Join(head, named)
           r2 == Join(r1, zp)
           r3 == Join(r2, desc)
           R  == Join(r3, zq)
<1>6. zp \in Seq(Nat) /\ Len(zp) = p /\ zq \in Seq(Nat) /\ Len(zq) = q
    BY <1>3, <1>5
<1>7. R = SerializeNote(note)
    BY DEF SerializeNote, Join, head, two, named, desc, m, d, p, q
<1>8. /\ r1 = Join(head, named) /\ r2 = Join(r1, zp) /\ r3 = Join(r2, desc)
      /\ R = Join(r3, zq) /\ Len(named) = m /\ Len(desc) = d
    BY DEF m, d
<1> HIDE DEF zp, zq, r1, r2, r3, R
<1>9. /\ r1 \in Seq(Nat) /\ Len(r1) = 12 + m
      /\ \A j \in 1..12 : r1[j] = head[j]
      /\ \A j \in 1..m : r1[12 + j] = named[j]
    <2>1. IsJoin(r1, head, 12, named, m)
        BY <1>2, <1>4, <1>8, Joined
    <2> QED
        BY <1>3, <2>1 DEF IsJoin
<1>10. /\ r2 \in Seq(Nat) /\ Len(r2) = 12 + m + p
       /\ \A j \in 1..(12 + m) : r2[j] = r1[j]
    <2>1. IsJoin(r2, r1, 12 + m, zp, p)
        BY <1>6, <1>8, <1>9, Joined
    <2> QED
        BY <1>3, <2>1 DEF IsJoin
<1>11. /\ r3 \in Seq(Nat) /\ Len(r3) = 12 + m + p + d
       /\ \A j \in 1..(12 + m + p) : r3[j] = r2[j]
       /\ \A j \in 1..d : r3[12 + m + p + j] = desc[j]
    <2>1. IsJoin(r3, r2, 12 + m + p, desc, d)
        BY <1>1, <1>8, <1>10, Joined
    <2> QED
        BY <1>3, <2>1 DEF IsJoin
<1>12. /\ R \in Seq(Nat) /\ Len(R) = 12 + m + p + d + q
       /\ \A j \in 1..(12 + m + p + d) : R[j] = r3[j]
    <2>1. IsJoin(R, r3, 12 + m + p + d, zq, q)
        BY <1>6, <1>8, <1>11, Joined
    <2> QED
        BY <1>3, <2>1 DEF IsJoin
<1>13. \A j \in 1..(12 + m) : R[j] = r1[j]
    BY <1>3, <1>10, <1>11, <1>12
<1>14. \A j \in 1..12 : R[j] = head[j]
    <2> SUFFICES ASSUME NEW j \in 1..12 PROVE R[j] = head[j]
        OBVIOUS
    <2>1. j \in 1..(12 + m)
        BY <1>3
    <2>2. r1[j] = head[j]
        BY <1>9
    <2> QED
        BY <1>13, <2>1, <2>2
<1>15. \A j \in 1..m : R[12 + j] = named[j]
    <2> SUFFICES ASSUME NEW j \in 1..m PROVE R[12 + j] = named[j]
        OBVIOUS
    <2>1. 12 + j \in 1..(12 + m) /\ r1[12 + j] = named[j]
        BY <1>3, <1>9
    <2> QED
        BY <1>13, <2>1
<1>16. \A j \in 1..d : R[12 + m + p + j] = desc[j]
    BY <1>3, <1>11, <1>12
<1>17. /\ R[1] = m /\ R[2] = 0 /\ R[3] = 0 /\ R[4] = 0
       /\ R[5] = d /\ R[6] = 0 /\ R[7] = 0 /\ R[8] = 0
       /\ R[9] = note.type /\ R[10] = 0 /\ R[11] = 0 /\ R[12] = 0
    BY <1>4, <1>14
<1>18. m = Len(Append(note.name, 0)) /\ d = Len(note.descriptor)
    BY <1>2 DEF m, d, desc
<1>19. \A j \in 1..m : R[12 + j] = Append(note.name, 0)[j]
    BY <1>2, <1>15
<1>20. \A j \in 1..d : R[12 + m + p + j] = note.descriptor[j]
    BY <1>16 DEF desc
<1> QED
    BY <1>3, <1>7, <1>12, <1>17, <1>18, <1>19, <1>20 DEF p, q

(* Where notes start and end in a serialized list.                           *)
At(list, i) == Len(Serialized(SubSeq(list, 1, i)))

(* A record starts where the one before it ends, and holds its own bytes.    *)
LEMMA Records ==
    ASSUME NEW list \in Seq(WrittenNote)
    PROVE  /\ At(list, 0) = 0 /\ At(list, Len(list)) = Len(Serialized(list))
           /\ Serialized(list) \in Seq(Nat)
           /\ \A i \in 0..Len(list) : At(list, i) \in Nat
           /\ \A i, j \in 0..Len(list) : i <= j => At(list, i) <= At(list, j)
           /\ \A i \in 1..Len(list) :
                  /\ At(list, i) = At(list, i - 1) + Len(SerializeNote(list[i]))
                  /\ \A p \in 1..Len(SerializeNote(list[i])) :
                         Serialized(list)[At(list, i - 1) + p] = SerializeNote(list[i])[p]
<1> DEFINE part(i) == Serialized(SubSeq(list, 1, i))
           n == Len(list)
<1>1. n \in Nat /\ <<>> \in Seq(Nat)
    OBVIOUS
<1>2. /\ part(0) = <<>> /\ part(n) = Serialized(list)
      /\ \A i \in 1..n : part(i) = part(i - 1) \o SerializeNote(list[i])
    BY SerializedGrows
<1>3. ASSUME NEW i \in 1..n PROVE SerializeNote(list[i]) \in Seq(Nat)
    <2>1. list[i] \in WrittenNote
        OBVIOUS
    <2> QED
        BY <2>1, NoteBytes
<1> HIDE DEF part, n
<1> DEFINE S == {i \in Nat : i <= n => part(i) \in Seq(Nat)}
<1>4. S = Nat
    <2>1. 0 \in S
        BY <1>1, <1>2
    <2>2. ASSUME NEW i \in S PROVE i + 1 \in S
        <3> SUFFICES ASSUME i + 1 <= n PROVE part(i + 1) \in Seq(Nat)
            OBVIOUS
        <3>1. i \in Nat /\ i + 1 \in 1..n /\ (i + 1) - 1 = i /\ part(i) \in Seq(Nat)
            BY <1>1
        <3>2. part(i + 1) = part(i) \o SerializeNote(list[i + 1])
            BY <1>2, <3>1
        <3>3. SerializeNote(list[i + 1]) \in Seq(Nat)
            BY <1>3, <3>1
        <3>4. \A s, t \in Seq(Nat) : s \o t \in Seq(Nat)
            OBVIOUS
        <3> QED
            BY <3>1, <3>2, <3>3, <3>4, Zenon
    <2> HIDE DEF S
    <2>3. S \in SUBSET Nat
        BY DEF S
    <2> QED
        BY <2>1, <2>2, <2>3, SetInduction
<1>5. \A i \in 0..n : part(i) \in Seq(Nat) /\ Len(part(i)) \in Nat
    <2>1. ASSUME NEW i \in 0..n PROVE part(i) \in Seq(Nat)
        BY <1>1, <1>4
    <2> QED
        BY <2>1
<1>6. ASSUME NEW i \in 1..n
      PROVE  /\ Len(part(i)) = Len(part(i - 1)) + Len(SerializeNote(list[i]))
             /\ \A p \in 1..Len(part(i - 1)) : part(i)[p] = part(i - 1)[p]
             /\ \A p \in 1..Len(SerializeNote(list[i])) :
                    part(i)[Len(part(i - 1)) + p] = SerializeNote(list[i])[p]
    <2>1. i - 1 \in 0..n
        BY <1>1
    <2>2. part(i - 1) \in Seq(Nat) /\ SerializeNote(list[i]) \in Seq(Nat)
          /\ part(i) = part(i - 1) \o SerializeNote(list[i])
        BY <1>2, <1>3, <1>5, <2>1
    <2> QED
        BY <2>2
(* A part begins every longer one.                                           *)
<1> DEFINE begins(i, j) ==
               /\ Len(part(i)) <= Len(part(j))
               /\ \A p \in 1..Len(part(i)) : part(j)[p] = part(i)[p]
<1>7. ASSUME NEW i \in 0..n PROVE \A j \in Nat : i + j <= n => begins(i, i + j)
    <2> DEFINE G == {j \in Nat : i + j <= n => begins(i, i + j)}
    <2>1. 0 \in G
        <3>1. i + 0 = i /\ Len(part(i)) \in Nat
            BY <1>1, <1>5
        <3> QED
            BY <3>1
    <2>2. ASSUME NEW j \in G PROVE j + 1 \in G
        <3> SUFFICES ASSUME i + (j + 1) <= n PROVE begins(i, i + (j + 1))
            OBVIOUS
        <3> DEFINE k == i + j
        <3>1. /\ k \in 0..n /\ k + 1 \in 1..n /\ (k + 1) - 1 = k /\ i + (j + 1) = k + 1
              /\ begins(i, k)
            BY <1>1
        <3> HIDE DEF k
        <3>2. /\ Len(part(i)) \in Nat /\ Len(part(k)) \in Nat /\ Len(part(k + 1)) \in Nat
              /\ Len(SerializeNote(list[k + 1])) \in Nat
            BY <1>3, <1>5, <3>1
        <3>3. /\ Len(part(k + 1)) = Len(part(k)) + Len(SerializeNote(list[k + 1]))
              /\ \A p \in 1..Len(part(k)) : part(k + 1)[p] = part(k)[p]
            BY <1>6, <3>1
        <3>4. begins(i, k + 1)
            BY <3>1, <3>2, <3>3
        <3> QED
            BY <3>1, <3>4
    <2> HIDE DEF G
    <2>3. G \in SUBSET Nat
        BY DEF G
    <2>4. G = Nat
        BY <2>1, <2>2, <2>3, SetInduction
    <2> QED
        BY <2>4 DEF G
<1>8. ASSUME NEW i \in 0..n, NEW j \in 0..n, i <= j PROVE begins(i, j)
    <2>1. j - i \in Nat /\ i + (j - i) = j
        BY <1>1, <1>8
    <2> QED
        BY <1>7, <2>1
<1>9. ASSUME NEW i \in 1..n, NEW p \in 1..Len(SerializeNote(list[i]))
      PROVE  Serialized(list)[Len(part(i - 1)) + p] = SerializeNote(list[i])[p]
    <2>1. i \in 0..n /\ n \in 0..n /\ i <= n /\ i - 1 \in 0..n
        BY <1>1
    <2>2. /\ Len(part(i - 1)) \in Nat /\ Len(part(i)) \in Nat
          /\ Len(SerializeNote(list[i])) \in Nat
        BY <1>3, <1>5, <2>1
    <2>3. Len(part(i - 1)) + p \in 1..Len(part(i))
        BY <1>6, <2>2
    <2> QED
        BY <1>2, <1>6, <1>8, <2>1, <2>3
<1>10. \A i \in 0..n : At(list, i) = Len(part(i))
    BY DEF At, part
<1>11. 0 \in 0..n /\ n \in 0..n /\ \A i \in 1..n : i \in 0..n /\ i - 1 \in 0..n
    BY <1>1
<1>12. At(list, 0) = 0 /\ At(list, n) = Len(Serialized(list)) /\ Serialized(list) \in Seq(Nat)
    BY <1>2, <1>5, <1>10, <1>11
<1> QED
    BY <1>5, <1>6, <1>8, <1>9, <1>10, <1>11, <1>12 DEF n

-----------------------------------------------------------------------------
(* The walk over what a builder wrote, cut anywhere.                         *)

(* A note ends before its padding, within its record.                        *)
LEMMA NoteEnds ==
    ASSUME specs \in Seq(WrittenNote), NEW i \in 1..Len(specs)
    PROVE  /\ At(specs, i - 1) \in Nat /\ At(specs, i) \in Nat /\ NoteEnd(i) \in Nat
           /\ NoteEnd(i) = At(specs, i - 1) + 12 + Len(Append(specs[i].name, 0))
                              + Padding4(Len(Append(specs[i].name, 0)))
                              + Len(specs[i].descriptor)
           /\ At(specs, i) = NoteEnd(i) + Padding4(Len(specs[i].descriptor))
           /\ At(specs, i - 1) + 12 <= NoteEnd(i) /\ NoteEnd(i) <= At(specs, i)
<1> DEFINE note  == specs[i]
           named == Append(note.name, 0)
           m     == Len(named)
           d     == Len(note.descriptor)
           p     == Padding4(m)
           q     == Padding4(d)
           L     == Len(SerializeNote(note))
           a     == At(specs, i - 1)
           b     == At(specs, i)
<1>1. note \in WrittenNote
    OBVIOUS
<1>2. m \in Nat /\ d \in Nat /\ p \in 0..3 /\ q \in 0..3 /\ L = 12 + m + p + d + q
    <2> HIDE DEF note
    <2> QED
        BY <1>1, NoteBytes
<1>3. a \in Nat /\ b \in Nat /\ b = a + L
    <2>1. i - 1 \in 0..Len(specs) /\ i \in 0..Len(specs)
        OBVIOUS
    <2> QED
        BY <2>1, Records
<1>4. NoteEnd(i) = b - q
    BY DEF NoteEnd, At
<1> HIDE DEF m, d, p, q, L, a, b
<1>5. /\ NoteEnd(i) = a + 12 + m + p + d /\ b = NoteEnd(i) + q
      /\ NoteEnd(i) \in Nat /\ a + 12 <= NoteEnd(i) /\ NoteEnd(i) <= b
    BY <1>2, <1>3, <1>4
<1> QED
    BY <1>3, <1>5 DEF m, d, p, q, a, b

(* The walk has read the first k of the notes written: it stands where they  *)
(* end, and returned because the next one is not all there.                  *)
WalkInv ==
    /\ specs \in Written \cup {<<>>}
    /\ IsTruncated =>
         /\ Len(notes) <= Len(specs)
         /\ \A i \in 1..Len(notes) : notes[i] = specs[i]
         /\ offset = At(specs, Len(notes))
         /\ result = "ok" =>
              /\ offset <= Len(data)
              /\ Len(notes) < Len(specs) => Len(data) < NoteEnd(Len(notes) + 1)
         /\ result \in {"error", "panic"} => offset > Len(data)

(* The lists written, and the empty one, are lists of notes.                 *)
LEMMA SpecsAreNotes ==
    ASSUME specs \in Written \cup {<<>>}
    PROVE  specs \in Seq(WrittenNote)
<1>1. <<>> \in Seq(WrittenNote)
    OBVIOUS
<1> QED
    BY <1>1, NoteAssumption DEF WrittenNote

(* Sequences with the same elements are the same.                            *)
LEMMA SameBytes ==
    ASSUME NEW a \in Seq(Nat), NEW b \in Seq(Nat), Len(a) = Len(b),
           \A j \in 1..Len(a) : a[j] = b[j]
    PROVE  a = b
OBVIOUS

(* Bytes cut out are the ones found there.                                   *)
LEMMA Slice ==
    ASSUME NEW bytes \in Seq(Nat), NEW s \in Seq(Nat), NEW start \in Nat,
           start + Len(s) <= Len(bytes),
           \A j \in 1..Len(s) : bytes[start + j] = s[j]
    PROVE  SubSeq(bytes, start + 1, start + Len(s)) = s
<1> DEFINE n   == Len(s)
           sub == SubSeq(bytes, start + 1, start + n)
<1>1. n \in Nat
    OBVIOUS
<1>2. sub \in Seq(Nat) /\ Len(sub) = n /\ \A j \in 1..n : sub[j] = bytes[start + j]
    BY <1>1
<1> HIDE DEF sub
<1> HIDE DEF n
<1>3. n = Len(s)
    BY DEF n
<1>5. \A j \in 1..n : sub[j] = s[j]
    BY <1>2, <1>3
<1>4. sub = s
    <2>1. Len(sub) = Len(s) /\ \A j \in 1..Len(s) : sub[j] = s[j]
        BY <1>2, <1>3, <1>5
    <2>2. sub \in Seq(Nat) /\ Len(sub) = Len(s)
        BY <1>2, <2>1
    <2>3. \A j \in 1..Len(sub) : sub[j] = s[j]
        BY <2>1
    <2> QED
        BY <2>2, <2>3, SameBytes
<1> QED
    BY <1>3, <1>4 DEF sub

(* At a record that is all there, the sizes read are those of the note, and  *)
(* so are the name, the type and the descriptor.                             *)
LEMMA RecordRead ==
    ASSUME TypeOK, IsTruncated, specs \in Seq(WrittenNote), NEW i \in 1..Len(specs),
           offset = At(specs, i - 1), offset + 12 <= Len(data)
    PROVE  /\ NameLen = Len(Append(specs[i].name, 0))
           /\ DescLen = Len(specs[i].descriptor)
           /\ DescEnd = NoteEnd(i) /\ DescEnd + Padding4(DescLen) = At(specs, i)
           /\ NoteEnd(i) <= Len(data) =>
                  /\ IsUtf8(Name)
                  /\ specs[i] = [name       |-> Name,
                                 type       |-> Word(offset + 8),
                                 descriptor |-> SubSeq(data, DescStart + 1, DescEnd)]
<1> DEFINE note  == specs[i]
           named == Append(note.name, 0)
           desc  == note.descriptor
           m     == Len(named)
           d     == Len(desc)
           p     == Padding4(m)
           q     == Padding4(d)
           rec   == SerializeNote(note)
           L     == Len(rec)
           all   == Serialized(specs)
<1>1. note \in WrittenNote
    OBVIOUS
<1>2. note.name \in Seq(Text) /\ desc \in Seq(Byte) /\ note.type \in Byte
    BY <1>1 DEF WrittenNote
<1>3. /\ rec \in Seq(Nat) /\ m \in Nat /\ d \in Nat /\ p \in 0..3 /\ q \in 0..3
      /\ L = 12 + m + p + d + q
      /\ rec[1] = m /\ rec[2] = 0 /\ rec[3] = 0 /\ rec[4] = 0
      /\ rec[5] = d /\ rec[6] = 0 /\ rec[7] = 0 /\ rec[8] = 0
      /\ rec[9] = note.type /\ rec[10] = 0 /\ rec[11] = 0 /\ rec[12] = 0
      /\ \A j \in 1..m : rec[12 + j] = named[j]
      /\ \A j \in 1..d : rec[12 + m + p + j] = desc[j]
    <2> HIDE DEF note
    <2> QED
        BY <1>1, NoteBytes
<1>15. m \in Nat /\ d \in Nat /\ p \in Nat /\ q \in Nat /\ L = 12 + m + p + d + q
    <2>1. m \in Nat /\ d \in Nat /\ p \in 0..3 /\ q \in 0..3 /\ L = 12 + m + p + d + q
        <3> HIDE DEF note
        <3> QED
            BY <1>1, NoteBytes
    <2> HIDE DEF m, d, p, q, L
    <2>2. p \in Nat /\ q \in Nat
        BY <2>1
    <2> QED
        BY <2>1, <2>2
<1>4. /\ all \in Seq(Nat) /\ Len(all) \in Nat
      /\ At(specs, i) = offset + L
      /\ \A j \in 1..L : all[offset + j] = rec[j]
      /\ At(specs, i) <= Len(all)
    <2>1. /\ i \in 0..Len(specs) /\ i <= Len(specs) /\ Len(specs) \in 0..Len(specs)
        OBVIOUS
    <2> QED
        BY <2>1, Records
<1>5. /\ NoteEnd(i) = offset + 12 + m + p + d
      /\ At(specs, i) = NoteEnd(i) + q
    BY NoteEnds
<1> HIDE DEF named, m, d, p, q, rec, L, all
<1>6. offset \in Nat /\ Len(data) \in Nat /\ data \in Seq(Byte)
    BY DEF TypeOK
<1>17. offset \in Nat /\ Len(data) \in Nat
    BY <1>6
<1>16. L \in Nat /\ 12 <= L /\ 12 + m + p + d \in Nat /\ 12 + m + p + d <= L
    BY <1>15
<1>7. Len(data) <= Len(all) /\ \A j \in 1..Len(data) : data[j] = all[j]
    <2>1. Len(data) <= Len(all) /\ data = SubSeq(all, 1, Len(data))
        BY DEF IsTruncated, all
    <2>2. \A n \in 0..Len(all) : \A j \in 1..n : SubSeq(all, 1, n)[j] = all[j]
        BY <1>4
    <2>3. Len(data) \in 0..Len(all)
        BY <1>4, <1>6, <2>1
    <2> QED
        BY <2>1, <2>2, <2>3
<1>8. ASSUME NEW j \in 1..L, offset + j <= Len(data) PROVE data[offset + j] = rec[j]
    <2>1. L \in Nat
        BY <1>3
    <2>2. offset + j \in 1..Len(data)
        BY <1>6, <1>8, <2>1
    <2> QED
        BY <1>4, <1>7, <2>2
<1>9. ASSUME NEW at \in {0, 4, 8}
      PROVE  Word(offset + at) = rec[at + 1] + (Radix * (rec[at + 2]
                 + (Radix * (rec[at + 3] + (Radix * rec[at + 4])))))
    <2>1. \A n \in 1..4 : at + n \in 1..L /\ offset + (at + n) <= Len(data)
                          /\ (offset + at) + n = offset + (at + n)
        <3>1. at \in Nat /\ at + 4 <= 12
            OBVIOUS
        <3>2. \A n \in 1..4 : at + n \in Nat /\ 1 <= at + n /\ at + n <= 12
            BY <3>1
        <3>3. ASSUME NEW n \in 1..4
              PROVE  /\ at + n \in 1..L /\ offset + (at + n) <= Len(data)
                     /\ (offset + at) + n = offset + (at + n)
            <4>1. at + n \in 1..L
                BY <1>16, <3>2
            <4>2. offset + (at + n) <= Len(data)
                BY <1>17, <3>2
            <4>3. (offset + at) + n = offset + (at + n)
                BY <1>17, <3>1
            <4> QED
                BY <4>1, <4>2, <4>3
        <3> QED
            BY <3>3
    <2>2. \A n \in 1..4 : data[(offset + at) + n] = rec[at + n]
        BY <1>8, <2>1
    <2>3. /\ data[(offset + at) + 1] = rec[at + 1] /\ data[(offset + at) + 2] = rec[at + 2]
          /\ data[(offset + at) + 3] = rec[at + 3] /\ data[(offset + at) + 4] = rec[at + 4]
        BY <2>2
    <2> QED
        BY <2>3 DEF Word
<1>10. \A n \in Nat : n + (Radix * (0 + (Radix * (0 + (Radix * 0))))) = n
    <2>1. Radix * 0 = 0 /\ 0 + 0 = 0
        BY NoteAssumption
    <2>2. Radix * (0 + (Radix * (0 + (Radix * 0)))) = 0
        BY <2>1
    <2> QED
        BY <2>2
<1>11. NameLen = m /\ DescLen = d /\ Word(offset + 8) = note.type
    <2>1. offset + 0 = offset /\ note.type \in Nat
        BY <1>2, <1>6, NoteAssumption DEF Byte
    <2>2. /\ Word(offset + 0) = rec[1] + (Radix * (rec[2] + (Radix * (rec[3] + (Radix * rec[4])))))
          /\ Word(offset + 4) = rec[5] + (Radix * (rec[6] + (Radix * (rec[7] + (Radix * rec[8])))))
          /\ Word(offset + 8) = rec[9] + (Radix * (rec[10] + (Radix * (rec[11] + (Radix * rec[12])))))
        BY <1>9
    <2> DEFINE type == note.type
    <2>6. rec[1] = m /\ rec[5] = d /\ rec[9] = type /\ type \in Nat /\ m \in Nat /\ d \in Nat
        BY <1>3, <2>1
    <2> HIDE DEF type
    <2>3. Word(offset + 0) = m
        BY <1>3, <1>10, <2>2
    <2>4. Word(offset + 4) = d
        BY <1>3, <1>10, <2>2
    <2>5. Word(offset + 8) = type
        <3>1. Word(offset + 8) = rec[9] + (Radix * (0 + (Radix * (0 + (Radix * 0)))))
            BY <1>3, <2>2
        <3> QED
            BY <1>10, <2>6, <3>1
    <2> QED
        BY <2>1, <2>3, <2>4, <2>5 DEF NameLen, DescLen, type
<1>12. /\ NameEnd = offset + 12 + m /\ DescStart = offset + 12 + m + p
       /\ DescEnd = offset + 12 + m + p + d
    BY <1>11 DEF NameEnd, DescStart, DescEnd, HeaderSize, p
<1>13. DescEnd = NoteEnd(i) /\ DescEnd + Padding4(DescLen) = At(specs, i)
    BY <1>5, <1>11, <1>12 DEF q
<1>14. ASSUME NoteEnd(i) <= Len(data)
       PROVE  /\ IsUtf8(Name)
              /\ note = [name       |-> Name,
                         type       |-> Word(offset + 8),
                         descriptor |-> SubSeq(data, DescStart + 1, DescEnd)]
    <2>1. /\ data \in Seq(Nat) /\ named \in Seq(Nat) /\ desc \in Seq(Nat)
          /\ Len(named) = m /\ Len(desc) = d
        <3>1. Text \subseteq Nat /\ Byte \subseteq Nat /\ 0 \in Nat
            BY NoteAssumption DEF Byte
        <3>2. note.name \in Seq(Nat) /\ desc \in Seq(Nat) /\ data \in Seq(Nat)
            BY <1>2, <1>6, <3>1, Numbers
        <3>3. \A s \in Seq(Nat) : Append(s, 0) \in Seq(Nat)
            OBVIOUS
        <3>4. named \in Seq(Nat)
            BY <3>2, <3>3, Zenon DEF named
        <3> QED
            BY <3>2, <3>4 DEF m, d
    <2> DEFINE start == offset + 12
    <2>2. SubSeq(data, NameEnd - NameLen + 1, NameEnd) = named
        <3>1. start \in Nat /\ start + m = NameEnd /\ NameEnd - NameLen + 1 = start + 1
            <4>1. offset \in Nat
                BY <1>17
            <4>2. m \in Nat
                BY <1>15
            <4>3. NameEnd = offset + 12 + m /\ NameLen = m
                BY <1>11, <1>12
            <4>4. start \in Nat
                BY <4>1
            <4>5. start + m = NameEnd
                BY <4>1, <4>2, <4>3
            <4>6. NameEnd - NameLen + 1 = start + 1
                BY <4>1, <4>2, <4>3
            <4> QED
                BY <4>4, <4>5, <4>6
        <3>2. start + m <= Len(data)
            <4>1. NoteEnd(i) = offset + 12 + m + p + d
                BY <1>5
            <4>2. offset + 12 + m + p + d <= Len(data)
                BY <1>14, <4>1
            <4>3. m \in Nat /\ p \in Nat /\ d \in Nat
                BY <1>15
            <4> QED
                BY <1>17, <4>2, <4>3
        <3>3. ASSUME NEW j \in 1..m PROVE data[start + j] = named[j]
            <4>1. 12 + j \in 1..L /\ offset + (12 + j) <= Len(data)
                BY <1>17, <1>15, <1>16, <3>2
            <4>2. start + j = offset + (12 + j)
                BY <1>17
            <4> QED
                BY <1>3, <1>8, <4>1, <4>2
        <3> HIDE DEF start
        <3> QED
            BY <2>1, <3>1, <3>2, <3>3, Slice
    <2>3. SubSeq(data, DescStart + 1, DescEnd) = desc
        <3>1. DescStart \in Nat /\ DescStart + d = DescEnd /\ DescEnd <= Len(data)
            <4>1. DescStart = offset + 12 + m + p /\ DescEnd = offset + 12 + m + p + d
                BY <1>12
            <4>2. DescStart \in Nat /\ DescStart + d = DescEnd
                BY <1>15, <1>17, <4>1
            <4>3. DescEnd <= Len(data)
                BY <1>13, <1>14
            <4> QED
                BY <4>2, <4>3
        <3>3. ASSUME NEW j \in 1..d PROVE data[DescStart + j] = desc[j]
            <4>0. /\ 12 + m + p + j \in 1..L /\ j \in Nat /\ 12 + m + p + j \in Nat
                  /\ 12 + m + p + j <= 12 + m + p + d
                BY <1>15
            <4>1. offset + (12 + m + p + j) <= Len(data)
                <5> DEFINE x == 12 + m + p + j
                           y == 12 + m + p + d
                <5>1. DescEnd = offset + 12 + m + p + d
                    BY <1>12
                <5>2. y \in Nat /\ offset + y = offset + 12 + m + p + d
                    BY <1>15, <1>17
                <5>3. offset + y <= Len(data) /\ x \in Nat /\ x <= y
                    BY <3>1, <4>0, <5>1, <5>2
                <5> HIDE DEF x, y
                <5>4. offset + x <= Len(data)
                    BY <1>17, <5>2, <5>3
                <5> QED
                    BY <5>4 DEF x
            <4>2. DescStart + j = offset + (12 + m + p + j)
                <5>1. DescStart = offset + 12 + m + p
                    BY <1>12
                <5> QED
                    BY <1>15, <1>17, <4>0, <5>1
            <4> QED
                BY <1>3, <1>8, <4>0, <4>1, <4>2
        <3> HIDE DEF desc
        <3> QED
            BY <2>1, <3>1, <3>3, Slice
    <2>4. Trimmed(named) = note.name
        <3> DEFINE name == note.name
        <3>1. name \in Seq(Text)
            BY <1>2
        <3> HIDE DEF name
        <3> DEFINE s == Append(name, 0)
        <3>2. s # <<>> /\ s[Len(s)] = 0 /\ SubSeq(s, 1, Len(s) - 1) = name
            BY <3>1
        <3> HIDE DEF s
        <3>3. Trimmed(s) = name
            BY <3>2 DEF Trimmed
        <3> QED
            BY <3>3 DEF s, name, named
    <2>5. Name = note.name
        BY <2>2, <2>4 DEF Name
    <2>6. IsUtf8(Name)
        <3>1. \A k \in 1..Len(note.name) : note.name[k] \in Text
            BY <1>2
        <3> QED
            BY <2>5, <3>1 DEF IsUtf8
    <2>7. note = [name |-> note.name, type |-> note.type, descriptor |-> desc]
        BY <1>1 DEF WrittenNote
    <2> QED
        BY <1>11, <2>3, <2>5, <2>6, <2>7
<1> QED
    BY <1>11, <1>13, <1>14 DEF m, named, d

-----------------------------------------------------------------------------
(* The walk keeps to what was written.                                       *)
LEMMA WalkStarts == Init => WalkInv
<1> SUFFICES ASSUME Init PROVE WalkInv
    OBVIOUS
<1>1. specs \in Written \cup {<<>>} /\ offset = 0 /\ notes = <<>> /\ result = "walking"
    BY DEF Init
<1>2. specs \in Seq(WrittenNote)
    BY <1>1, SpecsAreNotes
<1>3. At(specs, 0) = 0 /\ Len(specs) \in Nat
    BY <1>2, Records
<1>4. Len(notes) = 0
    BY <1>1
<1> QED
    BY <1>1, <1>3, <1>4 DEF WalkInv

(* Every step of the walk keeps it.                                          *)
LEMMA WalkSteps == TypeOK /\ CursorInv /\ WalkInv /\ [Next]_vars => WalkInv'
<1> SUFFICES ASSUME TypeOK, CursorInv, WalkInv, [Next]_vars PROVE WalkInv'
    OBVIOUS
<1>1. /\ specs \in Seq(WrittenNote) /\ specs' = specs /\ data' = data
      /\ IsTruncated' <=> IsTruncated
    <2>1. specs' = specs /\ data' = data
        BY DEF Next, TakeNote, BadName, NoRoom, AtTheEnd, PastTheEnd, Returned, Return, vars
    <2> QED
        BY <2>1, SpecsAreNotes DEF WalkInv, IsTruncated
<1> SUFFICES ASSUME IsTruncated
             PROVE  /\ Len(notes') <= Len(specs)
                    /\ \A i \in 1..Len(notes') : notes'[i] = specs[i]
                    /\ offset' = At(specs, Len(notes'))
                    /\ result' = "ok" =>
                         /\ offset' <= Len(data)
                         /\ Len(notes') < Len(specs) => Len(data) < NoteEnd(Len(notes') + 1)
                    /\ result' \in {"error", "panic"} => offset' > Len(data)
    BY <1>1 DEF WalkInv, NoteEnd
<1> DEFINE k == Len(notes)
<1>2. k \in Nat /\ Len(specs) \in Nat /\ notes \in Seq(Note)
      /\ offset \in Nat /\ Len(data) \in Nat
    BY <1>1 DEF TypeOK
<1>3. /\ k <= Len(specs) /\ \A i \in 1..k : notes[i] = specs[i]
      /\ offset = At(specs, k)
      /\ result = "ok" =>
            /\ offset <= Len(data)
            /\ k < Len(specs) => Len(data) < NoteEnd(k + 1)
      /\ result \in {"error", "panic"} => offset > Len(data)
    BY DEF WalkInv
<1>4. Len(data) <= Len(Serialized(specs))
    BY DEF IsTruncated
(* Where there are bytes left for a header, there is a note left.            *)
<1>5. ASSUME offset < Len(data) PROVE k + 1 \in 1..Len(specs) /\ offset = At(specs, (k + 1) - 1)
    <2>1. k # Len(specs)
        <3>1. At(specs, Len(specs)) = Len(Serialized(specs))
            BY <1>1, Records
        <3> QED
            BY <1>2, <1>3, <1>4, <1>5, <3>1
    <2> QED
        BY <1>2, <1>3, <2>1
<1>6. ASSUME HeaderFits
      PROVE  /\ k + 1 \in 1..Len(specs) /\ offset <= Len(data)
             /\ DescEnd = NoteEnd(k + 1)
             /\ DescEnd + Padding4(DescLen) = At(specs, k + 1)
             /\ NoteEnd(k + 1) <= Len(data) =>
                  /\ IsUtf8(Name)
                  /\ specs[k + 1] = [name       |-> Name,
                                     type       |-> Word(offset + 8),
                                     descriptor |-> SubSeq(data, DescStart + 1, DescEnd)]
    <2>1. offset + 12 <= Len(data) /\ offset < Len(data) /\ offset <= Len(data)
        BY <1>2, <1>6 DEF HeaderFits, HeaderSize
    <2>2. k + 1 \in 1..Len(specs) /\ offset = At(specs, (k + 1) - 1)
        BY <1>5, <2>1
    <2> HIDE DEF k
    <2> QED
        BY <1>1, <2>1, <2>2, RecordRead
<1>7. CASE TakeNote
    <2>1. HeaderFits /\ Fits(DescEnd)
        BY <1>7 DEF TakeNote
    <2> DEFINE note == [name       |-> Name,
                        type       |-> Word(offset + 8),
                        descriptor |-> SubSeq(data, DescStart + 1, DescEnd)]
    <2>2. /\ notes' = Append(notes, note) /\ result' = "walking"
          /\ offset' = DescEnd + Padding4(DescLen)
        BY <1>7 DEF TakeNote, HeaderFits
    <2>3. NoteEnd(k + 1) <= Len(data)
        BY <1>6, <2>1 DEF Fits
    <2>4. /\ k + 1 \in 1..Len(specs) /\ specs[k + 1] = note
          /\ offset' = At(specs, k + 1)
        BY <1>6, <2>1, <2>2, <2>3
    <2>5. note \in Note
        BY <2>1, NoteTaken
    <2> HIDE DEF note
    <2>6. /\ Len(notes') = k + 1 /\ notes'[k + 1] = note
          /\ \A i \in 1..k : notes'[i] = notes[i]
        BY <1>2, <2>2, <2>5
    <2> HIDE DEF k
    <2>7. ASSUME NEW i \in 1..(k + 1) PROVE notes'[i] = specs[i]
        <3>1. CASE i = k + 1
            BY <2>4, <2>6, <3>1
        <3>2. CASE i # k + 1
            BY <1>2, <1>3, <2>6, <3>2
        <3> QED
            BY <3>1, <3>2
    <2> QED
        BY <1>2, <2>2, <2>4, <2>6, <2>7
<1>8. CASE BadName
    <2>1. HeaderFits /\ Fits(DescEnd) /\ ~IsUtf8(Name)
        BY <1>8 DEF BadName
    <2> QED
        BY <1>6, <2>1 DEF Fits
<1>9. CASE NoRoom
    <2>1. HeaderFits /\ ~Fits(DescEnd)
        BY <1>9 DEF NoRoom
    <2>2. notes' = notes /\ offset' = offset /\ result' = "ok"
        BY <1>9 DEF NoRoom, Return
    <2>3. Len(data) < NoteEnd(k + 1)
        <3>1. NoteEnd(k + 1) \in Nat
            <4>1. k + 1 \in 1..Len(specs)
                BY <1>6, <2>1
            <4> HIDE DEF k
            <4> QED
                BY <1>1, <4>1, NoteEnds
        <3>2. ~(NoteEnd(k + 1) <= Len(data))
            BY <1>6, <2>1 DEF Fits
        <3> QED
            BY <1>2, <3>1, <3>2
    <2> QED
        BY <1>3, <1>6, <2>1, <2>2, <2>3
<1>10. CASE AtTheEnd
    <2>1. /\ notes' = notes /\ offset' = offset /\ result' = "ok"
          /\ Len(data) - offset \in 0..11
        BY <1>10 DEF AtTheEnd, Return, HeaderSize
    <2>2. offset <= Len(data) /\ Len(data) < offset + 12
        BY <1>2, <2>1
    <2>3. ASSUME k < Len(specs) PROVE Len(data) < NoteEnd(k + 1)
        <3>1. k + 1 \in 1..Len(specs) /\ (k + 1) - 1 = k
            BY <1>2, <2>3
        <3>2. NoteEnd(k + 1) \in Nat /\ offset + 12 <= NoteEnd(k + 1)
            <4> HIDE DEF k
            <4>1. /\ At(specs, (k + 1) - 1) + 12 <= NoteEnd(k + 1)
                  /\ NoteEnd(k + 1) \in Nat
                BY <1>1, <3>1, NoteEnds
            <4> QED
                BY <1>3, <3>1, <4>1
        <3> QED
            BY <1>2, <2>2, <3>2
    <2> QED
        BY <1>3, <2>1, <2>2, <2>3
<1>11. CASE PastTheEnd
    <2>1. /\ notes' = notes /\ offset' = offset /\ result' \in {"panic", "error"}
          /\ offset > Len(data)
        BY <1>11 DEF PastTheEnd, Return
    <2> QED
        BY <1>3, <2>1
<1>12. CASE UNCHANGED vars
    <2>1. notes' = notes /\ offset' = offset /\ result' = result
        BY <1>12 DEF vars
    <2> QED
        BY <1>3, <2>1
<1> QED
    BY <1>7, <1>8, <1>9, <1>10, <1>11, <1>12 DEF Next, Returned

(* What was written is read back note for note.                              *)
LEMMA WalkReads == TypeOK /\ WalkInv => CompleteNotesRead /\ WrittenNotesRead
<1> SUFFICES ASSUME TypeOK, WalkInv, IsTruncated
             PROVE  CompleteNotesRead /\ WrittenNotesRead
    BY DEF CompleteNotesRead, WrittenNotesRead
<1> DEFINE k == Len(notes)
           n == Len(specs)
<1>1. specs \in Seq(WrittenNote)
    BY SpecsAreNotes DEF WalkInv
<1>2. k \in Nat /\ n \in Nat /\ offset \in Nat /\ Len(data) \in Nat
    BY <1>1 DEF TypeOK
<1>3. /\ k <= n /\ \A i \in 1..k : notes[i] = specs[i]
      /\ offset = At(specs, k)
      /\ result = "ok" =>
            /\ offset <= Len(data)
            /\ k < n => Len(data) < NoteEnd(k + 1)
      /\ result \in {"error", "panic"} => offset > Len(data)
    BY DEF WalkInv
<1> HIDE DEF k, n
<1>4. ASSUME NEW i \in 1..n
      PROVE  /\ At(specs, i - 1) \in Nat /\ At(specs, i) \in Nat /\ NoteEnd(i) \in Nat
             /\ At(specs, i - 1) <= NoteEnd(i) /\ NoteEnd(i) <= At(specs, i)
             /\ At(specs, i - 1) < NoteEnd(i)
    <2>1. /\ At(specs, i - 1) \in Nat /\ At(specs, i) \in Nat /\ NoteEnd(i) \in Nat
          /\ At(specs, i - 1) + 12 <= NoteEnd(i) /\ NoteEnd(i) <= At(specs, i)
        BY <1>1, NoteEnds DEF n
    <2> QED
        BY <2>1
<1>5. \A i, j \in 0..n : i <= j => At(specs, i) <= At(specs, j)
    BY <1>1, Records DEF n
<1>6. CompleteNotesRead
    <2> SUFFICES ASSUME result = "ok", NEW i \in 1..n
                 PROVE  IF NoteEnd(i) <= Len(data)
                        THEN i <= k /\ notes[i] = specs[i] ELSE i > k
        BY <1>3 DEF CompleteNotesRead, k, n
    <2>1. ASSUME i <= k PROVE NoteEnd(i) <= Len(data) /\ notes[i] = specs[i]
        <3>1. At(specs, i) <= At(specs, k)
            BY <1>2, <1>3, <1>5, <2>1
        <3>2. i \in 1..k
            BY <1>2, <2>1
        <3> QED
            BY <1>2, <1>3, <1>4, <3>1, <3>2
    <2>2. ASSUME i > k PROVE ~(NoteEnd(i) <= Len(data))
        <3>1. k + 1 \in 1..n /\ k < n
            BY <1>2, <2>2
        <3>2. Len(data) < NoteEnd(k + 1)
            BY <1>3, <3>1
        <3>3. CASE i = k + 1
            BY <1>2, <1>4, <3>2, <3>3
        <3>4. CASE i # k + 1
            <4>1. k + 1 \in 0..n /\ i - 1 \in 0..n /\ k + 1 <= i - 1
                BY <1>2, <2>2, <3>4
            <4>2. At(specs, k + 1) <= At(specs, i - 1)
                BY <1>5, <4>1
            <4>3. /\ NoteEnd(k + 1) \in Nat /\ At(specs, k + 1) \in Nat
                  /\ At(specs, i - 1) \in Nat /\ NoteEnd(i) \in Nat
                  /\ NoteEnd(k + 1) <= At(specs, k + 1) /\ At(specs, i - 1) < NoteEnd(i)
                BY <1>4, <3>1
            <4> QED
                BY <1>2, <3>2, <4>2, <4>3
        <3> QED
            BY <3>3, <3>4
    <2>3. i <= k \/ i > k
        BY <1>2
    <2>4. i > k => ~(i <= k)
        BY <1>2
    <2> QED
        BY <2>1, <2>2, <2>3
<1>7. WrittenNotesRead
    <2> SUFFICES ASSUME result # "walking", Len(data) = Len(Serialized(specs))
                 PROVE  result = "ok" /\ notes = specs
        BY DEF WrittenNotesRead
    <2>1. At(specs, n) = Len(data) /\ n \in 0..n /\ k \in 0..n
        BY <1>1, <1>2, <1>3, Records DEF n
    <2>2. offset <= Len(data)
        BY <1>2, <1>3, <1>5, <2>1
    <2>3. result = "ok"
        BY <1>2, <1>3, <2>2 DEF TypeOK
    <2>4. k = n
        <3> SUFFICES ASSUME k < n PROVE FALSE
            BY <1>2, <1>3
        <3>1. k + 1 \in 1..n /\ k + 1 \in 0..n /\ k + 1 <= n
            BY <1>2
        <3>2. At(specs, k + 1) <= Len(data)
            BY <1>5, <2>1, <3>1
        <3>3. NoteEnd(k + 1) \in Nat /\ At(specs, k + 1) \in Nat
              /\ NoteEnd(k + 1) <= At(specs, k + 1)
            BY <1>4, <3>1
        <3>4. Len(data) < NoteEnd(k + 1)
            BY <1>3, <2>3
        <3> QED
            BY <1>2, <3>2, <3>3, <3>4
    <2>5. notes = specs
        <3>1. notes \in Seq(Note) /\ Len(notes) = Len(specs)
            BY <2>4 DEF TypeOK, k, n
        <3>2. \A i \in 1..Len(notes) : notes[i] = specs[i]
            BY <1>3 DEF k
        <3> QED
            BY <1>1, <3>1, <3>2
    <2> QED
        BY <2>3, <2>5
<1> QED
    BY <1>6, <1>7

(* For every list of notes a builder writes, and wherever the bytes are cut: *)
(* a call that succeeds returns the notes that are all there, in order and   *)
(* as they were written, and no other (notes.rs:57-61).                      *)
THEOREM CompleteNotesAreRead == Spec => []CompleteNotesRead
<1>1. Init => TypeOK /\ CursorInv /\ WalkInv
    BY InitHolds, WalkStarts
<1>2. (TypeOK /\ CursorInv /\ WalkInv) /\ [Next]_vars => (TypeOK /\ CursorInv /\ WalkInv)'
    BY StepHolds, WalkSteps
<1>3. TypeOK /\ CursorInv /\ WalkInv => CompleteNotesRead
    BY WalkReads
<1> QED
    BY <1>1, <1>2, <1>3, PTL DEF Spec

(* For every list of notes a builder writes: the walk reads back the list,   *)
(* without an error and without a panic (notes.rs:65-98, builder.rs:336-354).*)
THEOREM WrittenNotesAreRead == Spec => []WrittenNotesRead
<1>1. Init => TypeOK /\ CursorInv /\ WalkInv
    BY InitHolds, WalkStarts
<1>2. (TypeOK /\ CursorInv /\ WalkInv) /\ [Next]_vars => (TypeOK /\ CursorInv /\ WalkInv)'
    BY StepHolds, WalkSteps
<1>3. TypeOK /\ CursorInv /\ WalkInv => WrittenNotesRead
    BY WalkReads
<1> QED
    BY <1>1, <1>2, <1>3, PTL DEF Spec

=============================================================================
