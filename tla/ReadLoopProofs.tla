--------------------------- MODULE ReadLoopProofs ---------------------------
(* The safety of the two reading loops for every source, base, request and   *)
(* width of u64.                                                             *)
EXTENDS ReadLoop, TLAPS

IInv == TypeOK /\ BytesInPlace /\ TopInv /\ ExactPrefix

(* A number below 2^64 is its own remainder, and that of the number one      *)
(* round above it.                                                           *)
LEMMA OneRound ==
    ASSUME NEW n \in 0..U64Max
    PROVE  n % (U64Max + 1) = n /\ (n + (U64Max + 1)) % (U64Max + 1) = n
<1>1. U64Max \in Nat /\ n \in Nat /\ n < U64Max + 1
  BY U64MaxAssumption
<1>2. ASSUME NEW q \in Nat, NEW m \in Nat \ {0}, NEW r \in 0..(m - 1)
      PROVE  ((m * q) + r) % m = r
  BY SMTT(30)
<1>3. U64Max + 1 \in Nat \ {0} /\ n \in 0..((U64Max + 1) - 1)
  BY <1>1
<1>4. (((U64Max + 1) * 0) + n) % (U64Max + 1) = n
  BY <1>2, <1>3
<1>5. (((U64Max + 1) * 1) + n) % (U64Max + 1) = n
  BY <1>2, <1>3
<1>6. ((U64Max + 1) * 0) + n = n /\ ((U64Max + 1) * 1) + n = n + (U64Max + 1)
  BY <1>1
<1> QED
  BY <1>4, <1>5, <1>6

(* While the sum does not overflow, both loops ask for the same position;    *)
(* a lenient one goes on at position 0.                                      *)
LEMMA Positions ==
    ASSUME TypeOK, Reading
    PROVE  /\ base \in Nat /\ offset \in Nat /\ filled \in Nat /\ U64Max \in Nat
           /\ Len(buffer) \in Nat /\ filled < Len(buffer)
           /\ offset <= U64Max /\ Len(buffer) <= U64Max
           /\ offset + filled <= U64Max => Position = offset + filled
           /\ offset + filled > U64Max =>
                  IF mode = "exact" THEN Position = offset + filled
                  ELSE /\ mode = "lenient"
                       /\ Position = offset + filled - (U64Max + 1)
<1>1. /\ base \in Nat /\ offset \in Nat /\ filled \in Nat /\ U64Max \in Nat
      /\ Len(buffer) \in Nat /\ filled < Len(buffer)
      /\ offset <= U64Max /\ Len(buffer) <= U64Max
  BY ReadAssumption, U64MaxAssumption DEF TypeOK, Reading, U64
<1>2. ASSUME offset + filled <= U64Max PROVE (offset + filled) % (U64Max + 1) = offset + filled
  <2>1. offset + filled \in 0..U64Max
    BY <1>1, <1>2
  <2> QED
    BY <2>1, OneRound
<1>3. ASSUME offset + filled > U64Max
      PROVE  (offset + filled) % (U64Max + 1) = offset + filled - (U64Max + 1)
  <2> DEFINE n == offset + filled - (U64Max + 1)
  <2>1. n \in 0..U64Max /\ n + (U64Max + 1) = offset + filled
    BY <1>1, <1>3
  <2> HIDE DEF n
  <2>2. (n + (U64Max + 1)) % (U64Max + 1) = n
    BY <2>1, OneRound
  <2> QED
    BY <2>1, <2>2 DEF n
<1>4. mode = "exact" \/ mode = "lenient"
  BY DEF TypeOK
<1> QED
  BY <1>1, <1>2, <1>3, <1>4 DEF Position

(* The k-th byte of the buffer is asked for at its own place.                *)
LEMMA PlaceAsked ==
    ASSUME TypeOK, TopInv, Reading, Reachable, NEW count \in Nat, CanSupply(count),
           NEW k \in 1..Len(buffer), filled < k, k <= filled + count
    PROVE  /\ Place(k) \in U64 /\ Place(k) = Address + (k - filled) - 1
           /\ Place(k) \in Address..(Address + count - 1)
           /\ base + offset + k - 1 <= U64Max \/ (mode = "lenient" /\ base = 0)
<1> DEFINE n == Address + (k - filled) - 1
<1>1. /\ base \in Nat /\ offset \in Nat /\ filled \in Nat /\ U64Max \in Nat
      /\ Len(buffer) \in Nat /\ filled < Len(buffer)
      /\ offset <= U64Max /\ Len(buffer) <= U64Max
  BY Positions
<1>2. Address = base + Position /\ Address + count <= U64Max + 1
  <2>1. Position \in Int
    BY <1>1, Positions DEF TypeOK
  <2> QED
    BY <1>1, <2>1 DEF Address, SatAdd, Reachable, CanSupply
<1>3. CASE offset + filled <= U64Max
  <2>1. Address = base + offset + filled
    BY <1>1, <1>2, <1>3, Positions
  <2>2. n \in 0..U64Max /\ n = base + offset + k - 1 /\ n \in Address..(Address + count - 1)
    BY <1>1, <1>2, <2>1
  <2> HIDE DEF n
  <2>3. Place(k) = n
    BY <2>2, OneRound DEF Place
  <2> QED
    BY <1>1, <2>2, <2>3 DEF n, U64
<1>4. CASE offset + filled > U64Max
  <2>1. mode = "lenient" /\ base = 0 /\ Address = offset + filled - (U64Max + 1)
    BY <1>1, <1>2, <1>4, Positions DEF Reachable, TopInv
  <2>2. /\ n \in 0..U64Max /\ n + (U64Max + 1) = base + offset + k - 1
        /\ n \in Address..(Address + count - 1)
    BY <1>1, <1>2, <1>4, <2>1
  <2> HIDE DEF n
  <2>3. Place(k) = n
    <3>1. (n + (U64Max + 1)) % (U64Max + 1) = n
      BY <2>2, OneRound
    <3> QED
      BY <2>2, <3>1 DEF Place
  <2> QED
    BY <2>1, <2>2, <2>3 DEF n, U64
<1> QED
  BY <1>1, <1>3, <1>4

(* A read stores bytes of the addresses asked for and keeps the length of    *)
(* the buffer.                                                               *)
LEMMA StoredBytes ==
    ASSUME TypeOK, TopInv, Reading, Reachable, NEW count \in Nat, CanSupply(count)
    PROVE  /\ Stored(count) \in Seq(Value \cup {Unset})
           /\ Len(Stored(count)) = Len(buffer)
           /\ \A k \in 1..Len(buffer) :
                 IF filled < k /\ k <= filled + count
                 THEN /\ Stored(count)[k] = source[Place(k)]
                      /\ Stored(count)[k] \in Value
                 ELSE Stored(count)[k] = buffer[k]
<1>1. /\ buffer \in Seq(Value \cup {Unset}) /\ Len(buffer) \in Nat
      /\ source \in [U64 -> Value \cup {Missing}]
  BY ReadAssumption DEF TypeOK
<1>2. ASSUME NEW k \in 1..Len(buffer), filled < k, k <= filled + count
      PROVE  /\ Stored(count)[k] = source[Place(k)]
             /\ Stored(count)[k] \in Value
  <2>1. /\ Place(k) \in U64 /\ Place(k) = Address + (k - filled) - 1
        /\ Place(k) \in Address..(Address + count - 1)
    BY <1>2, PlaceAsked
  <2>2. Stored(count)[k] = source[Address + (k - filled) - 1]
    BY <1>2 DEF Stored
  <2>3. source[Place(k)] # Missing
    BY <2>1 DEF CanSupply
  <2> QED
    BY <1>1, <2>1, <2>2, <2>3
<1>3. ASSUME NEW k \in 1..Len(buffer), ~(filled < k /\ k <= filled + count)
      PROVE  Stored(count)[k] = buffer[k]
  BY <1>3 DEF Stored
<1>4. ASSUME NEW k \in 1..Len(buffer) PROVE Stored(count)[k] \in Value \cup {Unset}
  <2>1. buffer[k] \in Value \cup {Unset}
    BY <1>1
  <2> QED
    BY <1>2, <1>3, <2>1
<1>5. Stored(count) \in [1..Len(buffer) -> Value \cup {Unset}]
  BY <1>4 DEF Stored
<1> QED
  BY <1>1, <1>2, <1>3, <1>5

(* A call starts with an empty buffer that has all of its room.              *)
LEMMA InitInv == Init => IInv
<1> SUFFICES ASSUME Init PROVE IInv
  OBVIOUS
<1>1. PICK r \in Requests : offset = r.offset /\ buffer = [k \in 1..r.length |-> Unset]
  BY DEF Init
<1>2. /\ r.offset \in U64 /\ r.length \in U64 /\ r.length \in Nat
      /\ base \in Bases /\ source \in SourcesOf[base] /\ source \in [U64 -> Value \cup {Missing}]
  BY ReadAssumption, U64MaxAssumption DEF Init, U64
<1>3. buffer \in Seq(Value \cup {Unset}) /\ Len(buffer) = r.length
  BY <1>1, <1>2
<1>4. \A k \in 1..Len(buffer) : buffer[k] = Unset
  BY <1>1, <1>2, <1>3
<1>5. held \in [U64 -> SUBSET (Value \cup {Missing})]
  BY <1>2 DEF Init
<1>6. TypeOK
  <2>1. Len(buffer) \in U64 /\ filled \in 0..(Len(buffer) + Excess)
    BY <1>2, <1>3, ReadAssumption DEF Init
  <2> QED
    BY <1>1, <1>2, <1>3, <1>5, <2>1 DEF Init, TypeOK
<1>7. BytesInPlace
  BY <1>4 DEF BytesInPlace
<1>8. TopInv
  BY <1>1, <1>2, U64MaxAssumption DEF TopInv, Init, U64
<1>9. ExactPrefix
  <2>1. filled = 0 /\ result = "reading"
    BY DEF Init
  <2>0. filled <= Len(buffer)
    BY <2>1, <1>2, <1>3
  <2>2. \A k \in 1..filled : buffer[k] # Unset
    BY <2>1
  <2> QED
    BY <2>0, <2>1, <2>2 DEF ExactPrefix
<1> QED
  BY <1>6, <1>7, <1>8, <1>9 DEF IInv

(* What a read leaves in the buffer keeps every byte in its place.           *)
LEMMA StoredInPlace ==
    ASSUME IInv, Reading, Reachable, NEW count \in Nat, CanSupply(count),
           buffer' = Stored(count), source' = source, held' = held,
           base' = base, offset' = offset, mode' = mode,
           \A a \in U64 : source[a] \in held[a]
    PROVE  BytesInPlace'
<1>1. TypeOK /\ TopInv
  BY DEF IInv
<1>2. SUFFICES ASSUME NEW k \in 1..Len(buffer), buffer'[k] # Unset
               PROVE  /\ buffer'[k] \in held[Place(k)]
                      /\ base + offset + k - 1 <= U64Max \/ (mode = "lenient" /\ base = 0)
  <2>1. Len(buffer') = Len(buffer)
    BY <1>1, StoredBytes
  <2> QED
    BY <2>1 DEF BytesInPlace, Place
<1>3. CASE filled < k /\ k <= filled + count
  <2>1. Stored(count)[k] = source[Place(k)]
    BY <1>1, <1>3, StoredBytes
  <2>2. Place(k) \in U64 /\ (base + offset + k - 1 <= U64Max \/ (mode = "lenient" /\ base = 0))
    BY <1>1, <1>3, PlaceAsked
  <2> QED
    BY <2>1, <2>2
<1>4. CASE ~(filled < k /\ k <= filled + count)
  <2>1. Stored(count)[k] = buffer[k]
    BY <1>1, <1>4, StoredBytes
  <2> QED
    BY <1>2, <2>1 DEF IInv, BytesInPlace
<1> QED
  BY <1>3, <1>4

(* Every address has held at least what it holds now.                        *)
HeldNow == \A a \in U64 : source[a] \in held[a]

(* A read that supplies bytes puts them behind those already there.          *)
LEMMA ReadSomeInv == IInv /\ HeldNow /\ ReadSome => IInv'
<1> SUFFICES ASSUME IInv, HeldNow, ReadSome PROVE IInv'
  OBVIOUS
<1>1. PICK count \in 1..(Len(buffer) - filled) :
          CanSupply(count) /\ buffer' = Stored(count) /\ filled' = filled + count
  BY DEF ReadSome
<1>2. /\ Reading /\ Reachable
      /\ source' = source /\ held' = held /\ mode' = mode /\ base' = base
      /\ offset' = offset /\ result' = result
  BY DEF ReadSome, args
<1>3. /\ Len(buffer) \in Nat /\ filled \in Nat /\ filled < Len(buffer) /\ count \in Nat
      /\ base \in Nat /\ offset \in Nat /\ U64Max \in Nat /\ Excess \in Nat
      /\ base \in Bases /\ source \in SourcesOf[base]
  BY <1>2, ReadAssumption, U64MaxAssumption DEF IInv, TypeOK, Reading, U64
<1>4. TypeOK /\ TopInv
  BY DEF IInv
<1>5. buffer' \in Seq(Value \cup {Unset}) /\ Len(buffer') = Len(buffer)
  BY <1>1, <1>2, <1>3, <1>4, StoredBytes
<1>6. TypeOK'
  BY <1>1, <1>2, <1>3, <1>5 DEF IInv, TypeOK
<1>7. BytesInPlace'
  BY <1>1, <1>2, <1>3, StoredInPlace DEF HeldNow
<1>8. TopInv'
  <2>1. SUFFICES ASSUME base # 0 PROVE offset + filled + count <= U64Max
    BY <1>1, <1>2, <1>3 DEF TopInv, Reading
  <2>2. Address = base + offset + filled /\ Address + count <= U64Max + 1
    BY <1>1, <1>2, <1>3, <1>4, <2>1, Positions
    DEF Address, SatAdd, Reachable, CanSupply, TopInv
  <2> QED
    BY <1>3, <2>1, <2>2
<1>9. ExactPrefix'
  <2>1. SUFFICES ASSUME mode = "exact"
                 PROVE  /\ filled' <= Len(buffer')
                        /\ \A k \in 1..filled' : buffer'[k] # Unset
    BY <1>2 DEF ExactPrefix, Reading
  <2>2. filled' <= Len(buffer')
    BY <1>1, <1>3, <1>5
  <2>3. ASSUME NEW k \in 1..filled' PROVE buffer'[k] # Unset
    <3>1. k \in 1..Len(buffer)
      BY <1>1, <1>3
    <3>2. CASE k <= filled
      <4>1. Stored(count)[k] = buffer[k]
        BY <1>1, <1>2, <1>3, <1>4, <3>1, <3>2, StoredBytes
      <4> QED
        BY <1>1, <1>3, <2>1, <3>1, <3>2, <4>1 DEF IInv, ExactPrefix
    <3>3. CASE k > filled
      <4>1. Stored(count)[k] \in Value
        BY <1>1, <1>2, <1>3, <1>4, <3>1, <3>3, StoredBytes
      <4> QED
        BY <1>1, <4>1, ReadAssumption
    <3> QED
      BY <1>3, <3>1, <3>2, <3>3
  <2> QED
    BY <2>2, <2>3
<1> QED
  BY <1>6, <1>7, <1>8, <1>9 DEF IInv

(* A count that is too large is refused by an exact read and ends a lenient  *)
(* one.                                                                      *)
LEMMA OverReportInv == IInv /\ HeldNow /\ OverReport => IInv'
<1> SUFFICES ASSUME IInv, HeldNow, OverReport PROVE IInv'
  OBVIOUS
<1>1. PICK count \in (Len(buffer) - filled + 1)..(Len(buffer) - filled + Excess),
           real \in 0..(Len(buffer) - filled) :
          /\ CanSupply(real)
          /\ buffer' = Stored(real)
          /\ IF Accepts(count) THEN filled' = filled + count /\ UNCHANGED result
             ELSE result' = "error" /\ UNCHANGED filled
  BY DEF OverReport
<1>2. /\ Reading /\ Reachable
      /\ source' = source /\ held' = held /\ mode' = mode /\ base' = base
      /\ offset' = offset
  BY DEF OverReport, args
<1>3. /\ Len(buffer) \in Nat /\ filled \in Nat /\ filled < Len(buffer)
      /\ count \in Nat /\ real \in Nat /\ Excess \in Nat /\ result = "reading"
  BY <1>1, <1>2, ReadAssumption DEF IInv, TypeOK, Reading
<1>4. TypeOK /\ TopInv
  BY DEF IInv
<1>5. buffer' \in Seq(Value \cup {Unset}) /\ Len(buffer') = Len(buffer)
  BY <1>1, <1>2, <1>3, <1>4, StoredBytes
<1>6. BytesInPlace'
  BY <1>1, <1>2, <1>3, StoredInPlace DEF HeldNow
<1>7. CASE Accepts(count)
  <2>1. mode = "lenient" /\ filled' = filled + count /\ result' = result
    BY <1>1, <1>3, <1>7 DEF Accepts
  <2>2. TypeOK'
    BY <1>1, <1>2, <1>3, <1>5, <2>1 DEF IInv, TypeOK
  <2>3. TopInv'
    BY <1>1, <1>3, <1>5, <2>1 DEF TopInv, Reading
  <2>4. ExactPrefix'
    BY <1>2, <2>1 DEF ExactPrefix
  <2> QED
    BY <1>6, <2>2, <2>3, <2>4 DEF IInv
<1>8. CASE ~Accepts(count)
  <2>1. result' = "error" /\ filled' = filled
    BY <1>1, <1>8
  <2>2. TypeOK'
    BY <1>2, <1>5, <2>1 DEF IInv, TypeOK
  <2>3. TopInv'
    BY <2>1 DEF TopInv, Reading
  <2>4. ExactPrefix'
    <3>1. SUFFICES ASSUME mode = "exact", NEW k \in 1..filled PROVE buffer'[k] # Unset
      BY <1>2, <1>3, <1>5, <2>1 DEF ExactPrefix
    <3>2. k \in 1..Len(buffer) /\ k <= filled
      BY <1>3
    <3>3. Stored(real)[k] = buffer[k]
      BY <1>1, <1>2, <1>3, <1>4, <3>2, StoredBytes
    <3> QED
      BY <1>1, <3>1, <3>3 DEF IInv, ExactPrefix
  <2> QED
    BY <1>6, <2>2, <2>3, <2>4 DEF IInv
<1> QED
  BY <1>7, <1>8

(* A loop that ends changes nothing but its result.                          *)
LEMMA ReturnInv == IInv /\ (ReadNone \/ Finish \/ OverflowPanic) => IInv'
<1> SUFFICES ASSUME IInv, ReadNone \/ Finish \/ OverflowPanic PROVE IInv'
  OBVIOUS
<1>1. /\ source' = source /\ held' = held /\ mode' = mode /\ base' = base
      /\ offset' = offset /\ buffer' = buffer /\ filled' = filled
      /\ result' \in {"ok", "error", "panic"}
      /\ result' = "panic" => mode = "lenient"
      /\ mode = "exact" /\ result' = "ok" => filled >= Len(buffer)
  BY DEF ReadNone, Finish, OverflowPanic, Return, args
<1>2. filled \in Nat /\ Len(buffer) \in Nat
  BY ReadAssumption DEF IInv, TypeOK
<1>3. TypeOK' /\ BytesInPlace'
  BY <1>1 DEF IInv, TypeOK, BytesInPlace, Place
<1>4. TopInv'
  BY <1>1 DEF TopInv, Reading
<1>5. ExactPrefix'
  BY <1>1, <1>2 DEF IInv, ExactPrefix
<1> QED
  BY <1>3, <1>4, <1>5 DEF IInv

(* A source that changes under the call takes back nothing that was read.    *)
LEMMA DriftInv == IInv /\ Drift => IInv'
<1> SUFFICES ASSUME IInv, Drift PROVE IInv'
  OBVIOUS
<1>1. /\ source' \in SourcesOf[base] /\ held' = [a \in U64 |-> held[a] \cup {source'[a]}]
      /\ mode' = mode /\ base' = base /\ offset' = offset /\ buffer' = buffer
      /\ filled' = filled /\ result' = result
  BY DEF Drift, args
<1>2. /\ base \in Nat /\ offset \in Nat /\ Len(buffer) \in Nat /\ U64Max \in Nat
      /\ held \in [U64 -> SUBSET (Value \cup {Missing})]
  BY ReadAssumption, U64MaxAssumption DEF IInv, TypeOK, U64
<1>3. source' \in [U64 -> Value \cup {Missing}]
  BY <1>1, ReadAssumption DEF IInv, TypeOK
<1>4. held' \in [U64 -> SUBSET (Value \cup {Missing})]
  BY <1>1, <1>2, <1>3
<1>5. TypeOK'
  BY <1>1, <1>4 DEF IInv, TypeOK
<1>6. BytesInPlace'
  <2>1. SUFFICES ASSUME NEW k \in 1..Len(buffer), buffer[k] # Unset
                 PROVE  /\ buffer[k] \in held'[Place(k)]
                        /\ base + offset + k - 1 <= U64Max \/ (mode = "lenient" /\ base = 0)
    BY <1>1 DEF BytesInPlace, Place
  <2>2. /\ buffer[k] \in held[Place(k)]
        /\ base + offset + k - 1 <= U64Max \/ (mode = "lenient" /\ base = 0)
    BY <2>1 DEF IInv, BytesInPlace
  <2>3. Place(k) \in U64
    BY <1>2, <2>1 DEF Place, U64
  <2> QED
    BY <1>1, <2>2, <2>3
<1>7. TopInv' /\ ExactPrefix'
  BY <1>1 DEF IInv, TopInv, ExactPrefix, Reading
<1> QED
  BY <1>5, <1>6, <1>7 DEF IInv

(* At the start each address has held what it holds.                         *)
LEMMA HeldNowInit == Init => HeldNow
BY DEF Init, HeldNow

(* What an address holds now is among what it has held.                      *)
LEMMA HeldNowStep == TypeOK /\ HeldNow /\ [Next]_vars => HeldNow'
<1> SUFFICES ASSUME TypeOK, HeldNow, [Next]_vars PROVE HeldNow'
  OBVIOUS
<1>1. CASE Drift
  BY <1>1 DEF Drift, HeldNow
<1>2. CASE source' = source /\ held' = held
  BY <1>2 DEF HeldNow
<1> QED
  BY <1>1, <1>2
  DEF Next, Step, ReadSome, ReadNone, OverReport, Finish, OverflowPanic, Returned,
      Return, vars, args

(* Every step keeps the invariant.                                           *)
LEMMA StepInv == IInv /\ HeldNow /\ [Next]_vars => IInv'
<1> SUFFICES ASSUME IInv, HeldNow, [Next]_vars PROVE IInv'
  OBVIOUS
<1>1. CASE UNCHANGED vars
  BY <1>1 DEF vars, args, IInv, TypeOK, BytesInPlace, Place, TopInv, ExactPrefix, Reading
<1>2. CASE Returned
  BY <1>1, <1>2 DEF Returned
<1> QED
  BY <1>1, <1>2, ReadSomeInv, ReturnInv, OverReportInv, DriftInv DEF Next, Step

(* The inductive invariant of both loops.                                    *)
THEOREM Invariance == Spec => [](IInv /\ HeldNow)
<1>1. Init => IInv /\ HeldNow
  BY InitInv, HeldNowInit
<1>2. (IInv /\ HeldNow) /\ [Next]_vars => (IInv /\ HeldNow)'
  BY StepInv, HeldNowStep DEF IInv
<1> QED
  BY <1>1, <1>2, PTL DEF Spec

(* Whatever the source does, each byte read is the source's byte at that     *)
(* byte's own address (read_exact_at and read_lenient).                      *)
THEOREM ReadsInPlace == Spec => []BytesInPlace
<1>1. IInv => BytesInPlace
  BY DEF IInv
<1> QED
  BY <1>1, Invariance, PTL

(* read_exact_at returns success only for a buffer the source has filled.    *)
THEOREM ExactReadsAll == Spec => []ExactIsComplete
<1>1. IInv => ExactIsComplete
  <2> SUFFICES ASSUME IInv, mode = "exact", result = "ok", NEW k \in 1..Len(buffer)
               PROVE  buffer[k] # Unset
    BY DEF ExactIsComplete
  <2>1. filled = Len(buffer)
    BY DEF IInv, ExactPrefix
  <2> QED
    BY <2>1 DEF IInv, ExactPrefix
<1> QED
  BY <1>1, Invariance, PTL

(* The variables keep their types: a loop never counts past the buffer by    *)
(* more than the source over-reports.                                        *)
THEOREM TypeCorrect == Spec => []TypeOK
<1>1. IInv => TypeOK
  BY DEF IInv
<1> QED
  BY <1>1, Invariance, PTL

-----------------------------------------------------------------------------
(* What a lenient read stores. While it reads, the bytes stored are the      *)
(* first filled ones, until the source claims too much.                      *)

FirstBytes(n) == \A k \in 1..Len(buffer) : buffer[k] # Unset <=> k <= n

PrefixInv ==
    mode = "lenient" =>
        /\ result = "reading" =>
               \E n \in 0..Len(buffer) : FirstBytes(n) /\ (n = filled \/ filled > Len(buffer))
        /\ result = "panic" => LastByteRead
        /\ PrefixRead

(* A fresh buffer holds none of the source's bytes.                          *)
LEMMA PrefixInit == Init => PrefixInv
<1> SUFFICES ASSUME Init PROVE PrefixInv
  OBVIOUS
<1>1. PICK r \in Requests : buffer = [k \in 1..r.length |-> Unset]
  BY DEF Init
<1>2. r.length \in Nat /\ filled = 0 /\ result = "reading"
  BY ReadAssumption, U64MaxAssumption DEF Init, U64
<1>3. Len(buffer) = r.length /\ \A k \in 1..r.length : buffer[k] = Unset
  BY <1>1, <1>2
<1>4. FirstBytes(0)
  BY <1>2, <1>3 DEF FirstBytes
<1> QED
  BY <1>2, <1>3, <1>4 DEF PrefixInv, PrefixRead

(* Bytes stored behind the first filled ones make a longer prefix.           *)
LEMMA PrefixGrows ==
    ASSUME TypeOK, TopInv, Reading, Reachable, FirstBytes(filled),
           NEW count \in Nat, CanSupply(count), filled + count <= Len(buffer),
           buffer' = Stored(count)
    PROVE  /\ Len(buffer') = Len(buffer)
           /\ \A k \in 1..Len(buffer') : buffer'[k] # Unset <=> k <= filled + count
<1>2. Len(buffer') = Len(buffer) /\ Len(buffer) \in Nat /\ filled \in Nat
  BY StoredBytes, ReadAssumption DEF TypeOK
<1>3. ASSUME NEW k \in 1..Len(buffer) PROVE buffer'[k] # Unset <=> k <= filled + count
  <2>1. CASE filled < k /\ k <= filled + count
    <3>1. Stored(count)[k] \in Value
      BY <2>1, StoredBytes
    <3> QED
      BY <2>1, <3>1, ReadAssumption
  <2>2. CASE ~(filled < k /\ k <= filled + count)
    <3>1. Stored(count)[k] = buffer[k]
      BY <2>2, StoredBytes
    <3>2. buffer[k] # Unset <=> k <= filled
      BY DEF FirstBytes
    <3> QED
      BY <1>2, <2>2, <3>1, <3>2
  <2> QED
    BY <2>1, <2>2
<1> QED
  BY <1>2, <1>3

(* A read that supplies bytes, or claims too many, keeps the prefix.         *)
LEMMA PrefixRead1 == IInv /\ PrefixInv /\ (ReadSome \/ OverReport) => PrefixInv'
<1> SUFFICES ASSUME IInv, PrefixInv, ReadSome \/ OverReport, mode = "lenient"
             PROVE  PrefixInv'
  BY DEF PrefixInv, ReadSome, OverReport, args
<1>1. /\ Reading /\ Reachable /\ result' = "reading" /\ mode' = mode
      /\ Len(buffer) \in Nat /\ filled \in Nat
  BY ReadAssumption DEF ReadSome, OverReport, Accepts, Reading, args, IInv, TypeOK
<1>2. FirstBytes(filled)
  BY <1>1 DEF PrefixInv, Reading
<1>3. PICK count \in 0..(Len(buffer) - filled) :
          /\ CanSupply(count) /\ buffer' = Stored(count)
          /\ filled' = filled + count \/ filled' > Len(buffer)
  <2>1. CASE ReadSome
    <3>1. PICK count \in 1..(Len(buffer) - filled) :
              CanSupply(count) /\ buffer' = Stored(count) /\ filled' = filled + count
      BY <2>1 DEF ReadSome
    <3>2. count \in 0..(Len(buffer) - filled)
      BY <1>1
    <3> QED
      BY <3>1, <3>2
  <2>2. CASE OverReport
    <3>1. PICK claim \in (Len(buffer) - filled + 1)..(Len(buffer) - filled + Excess),
               real \in 0..(Len(buffer) - filled) :
              /\ CanSupply(real) /\ buffer' = Stored(real)
              /\ filled' = filled + claim
      BY <2>2 DEF OverReport, Accepts
    <3>2. filled' > Len(buffer)
      BY <1>1, <3>1, ReadAssumption
    <3> QED
      BY <3>1, <3>2
  <2> QED
    BY <2>1, <2>2
<1>4. /\ count \in Nat /\ filled + count \in 0..Len(buffer)
      /\ Len(buffer') = Len(buffer)
      /\ \A k \in 1..Len(buffer') : buffer'[k] # Unset <=> k <= filled + count
  BY <1>1, <1>2, <1>3, PrefixGrows DEF IInv
<1>5. \E n \in 0..Len(buffer') :
          /\ \A k \in 1..Len(buffer') : buffer'[k] # Unset <=> k <= n
          /\ n = filled' \/ filled' > Len(buffer')
  BY <1>3, <1>4
<1> QED
  BY <1>1, <1>5 DEF PrefixInv, PrefixRead, FirstBytes

(* A lenient read ends at the buffer's end, the address space's, or a byte   *)
(* the source misses now.                                                    *)
LEMMA PrefixEnds == IInv /\ HeldNow /\ PrefixInv /\ (ReadNone \/ Finish) => PrefixInv'
<1> SUFFICES ASSUME IInv, HeldNow, PrefixInv, ReadNone \/ Finish, mode = "lenient"
             PROVE  PrefixInv'
  BY DEF PrefixInv, ReadNone, Finish, Return, args
<1>1. /\ result = "reading" /\ result' = "ok" /\ mode' = mode /\ held' = held
      /\ base' = base /\ offset' = offset /\ buffer' = buffer /\ filled' = filled
  BY DEF ReadNone, Finish, Return, Reading, args
<1>2. /\ Len(buffer) \in Nat /\ filled \in Nat /\ base \in Nat /\ offset \in Nat
      /\ U64Max \in Nat
  BY ReadAssumption, U64MaxAssumption DEF IInv, TypeOK, U64
<1>3. PICK n \in 0..Len(buffer) : FirstBytes(n) /\ (n = filled \/ filled > Len(buffer))
  BY <1>1 DEF PrefixInv
<1>4. \/ n = Len(buffer) \/ (base # 0 /\ base + offset + n > U64Max)
      \/ Missing \in held[Place(n + 1)] \/ filled > Len(buffer)
  <2>1. CASE Finish
    BY <1>2, <1>3, <2>1 DEF Finish
  <2>2. CASE ReadNone
    <3>1. Reading /\ n = filled /\ TypeOK /\ TopInv
      BY <1>2, <1>3, <2>2 DEF ReadNone, Reading, IInv
    <3>2. CASE offset + filled <= U64Max /\ ~Reachable
      BY <1>2, <3>1, <3>2, Positions DEF Reachable
    <3>3. CASE offset + filled <= U64Max /\ Reachable
      <4>1. Address = base + offset + n /\ Address \in 0..U64Max
        BY <1>2, <3>1, <3>3, Positions DEF Address, SatAdd, Reachable
      <4>2. Place(n + 1) = Address
        <5>1. base + offset + (n + 1) - 1 = Address
          BY <1>2, <4>1
        <5> QED
          BY <4>1, <5>1, OneRound DEF Place
      <4> QED
        BY <2>2, <3>3, <4>1, <4>2 DEF ReadNone, Nothing, HeldNow, U64
    <3>4. CASE offset + filled > U64Max
      <4>1. base = 0 /\ Position = offset + n - (U64Max + 1) /\ offset + n <= 2 * U64Max
        BY <1>2, <3>1, <3>4, Positions DEF TopInv
      <4>2. Reachable /\ Address = Position /\ Address \in 0..U64Max
        BY <1>2, <3>1, <3>4, <4>1 DEF Reachable, Address, SatAdd
      <4>3. Place(n + 1) = Address
        <5>1. base + offset + (n + 1) - 1 = Address + (U64Max + 1)
          BY <1>2, <4>1, <4>2
        <5> QED
          BY <4>2, <5>1, OneRound DEF Place
      <4> QED
        BY <2>2, <4>2, <4>3 DEF ReadNone, Nothing, HeldNow, U64
    <3> QED
      BY <1>2, <3>2, <3>3, <3>4
  <2> QED
    BY <2>1, <2>2
<1> QED
  BY <1>1, <1>3, <1>4 DEF PrefixInv, PrefixRead, FirstBytes, Place

(* While a lenient read is in its loop, its sum overflows exactly when the   *)
(* byte at the last address is stored: the bytes stored are those counted.   *)
LEMMA OverflowsAfterLast ==
    ASSUME IInv, PrefixInv, Reading, mode = "lenient"
    PROVE  offset + filled > U64Max <=> LastByteRead
<1> DEFINE last == U64Max - offset + 1
<1>1. /\ base \in Nat /\ offset \in Nat /\ filled \in Nat /\ U64Max \in Nat
      /\ Len(buffer) \in Nat /\ filled < Len(buffer) /\ offset <= U64Max
      /\ buffer \in Seq(Value \cup {Unset})
  BY Positions DEF IInv, TypeOK
<1>2. FirstBytes(filled)
  BY <1>1 DEF PrefixInv, Reading
<1>3. ASSUME offset + filled > U64Max PROVE LastByteRead
  <2>1. base = 0 /\ offset + Len(buffer) > U64Max + 1 /\ last \in 1..Len(buffer) /\ last <= filled
    BY <1>1, <1>3 DEF IInv, TopInv
  <2>2. base + offset + last - 1 = U64Max /\ U64Max \in 0..U64Max
    BY <1>1, <2>1
  <2> HIDE DEF last
  <2>3. Place(last) = U64Max
    BY <2>2, OneRound DEF Place
  <2>4. buffer[last] # Unset
    BY <1>2, <2>1 DEF FirstBytes
  <2>5. buffer[last] \in held[U64Max]
    BY <2>1, <2>3, <2>4 DEF IInv, BytesInPlace
  <2>6. buffer[last] \in Value
    BY <1>1, <2>1, <2>4
  <2> QED
    BY <2>1, <2>5, <2>6 DEF LastByteRead, last
<1>4. ASSUME LastByteRead PROVE offset + filled > U64Max
  <2>1. last \in 1..Len(buffer) /\ buffer[last] \in Value
    BY <1>1, <1>4 DEF LastByteRead
  <2> HIDE DEF last
  <2>2. buffer[last] # Unset
    BY <2>1, ReadAssumption
  <2>3. last <= filled
    BY <1>2, <2>1, <2>2 DEF FirstBytes
  <2> QED
    BY <1>1, <2>3 DEF last
<1> QED
  BY <1>3, <1>4

(* A panic is that of the sum, and nothing is stored in it.                  *)
LEMMA PrefixPanics == IInv /\ PrefixInv /\ OverflowPanic => PrefixInv'
<1> SUFFICES ASSUME IInv, PrefixInv, OverflowPanic PROVE PrefixInv'
  OBVIOUS
<1>1. /\ Reading /\ mode = "lenient" /\ offset + filled > U64Max /\ result' = "panic"
      /\ held' = held /\ base' = base /\ offset' = offset /\ buffer' = buffer
  BY DEF OverflowPanic, Return, args
<1>2. LastByteRead
  BY <1>1, OverflowsAfterLast
<1>3. LastByteRead'
  BY <1>1, <1>2 DEF LastByteRead
<1> QED
  BY <1>1, <1>3 DEF PrefixInv, PrefixRead

(* The rest of the steps store nothing.                                      *)
LEMMA PrefixStep == IInv /\ HeldNow /\ PrefixInv /\ [Next]_vars => PrefixInv'
<1> SUFFICES ASSUME IInv, HeldNow, PrefixInv, [Next]_vars PROVE PrefixInv'
  OBVIOUS
<1>1. CASE UNCHANGED vars
  BY <1>1 DEF vars, args, PrefixInv, PrefixRead, FirstBytes, Place, LastByteRead
<1>2. CASE Drift
  <2>1. /\ held' = [a \in U64 |-> held[a] \cup {source'[a]}]
        /\ mode' = mode /\ base' = base /\ offset' = offset /\ buffer' = buffer
        /\ filled' = filled /\ result' = result /\ result = "reading"
    BY <1>2 DEF Drift, args
  <2> QED
    BY <2>1 DEF PrefixInv, PrefixRead, FirstBytes
<1> QED
  BY <1>1, <1>2, PrefixRead1, PrefixEnds, PrefixPanics DEF Next, Step, Returned

(* What a lenient read has stored is known in every state.                   *)
THEOREM PrefixInvariance == Spec => []PrefixInv
<1>1. Init => PrefixInv
  BY PrefixInit
<1>2. (IInv /\ HeldNow) /\ PrefixInv /\ [Next]_vars => PrefixInv'
  BY PrefixStep
<1> QED
  BY <1>1, <1>2, Invariance, PTL DEF Spec

(* Whatever the source does, a lenient read returns what it read up to the   *)
(* first gap it met (read_lenient).                                          *)
THEOREM ReadsAPrefix == Spec => []PrefixRead
<1>1. IInv /\ PrefixInv => PrefixRead
  BY DEF PrefixInv, PrefixRead
<1> QED
  BY <1>1, Invariance, PrefixInvariance, PTL

(* The unchecked addition of read_lenient overflows in one case only: a read *)
(* from base 0 that goes on behind a byte the source has at the last         *)
(* address. There it may panic, and nowhere else (parse.rs:288).             *)
THEOREM OverflowsOnlyAtTheTop == Spec => []OverflowsAtTheTop
<1>1. IInv /\ PrefixInv => OverflowsAtTheTop
  BY OverflowsAfterLast DEF OverflowsAtTheTop, PrefixInv, IInv, TopInv
<1> QED
  BY <1>1, Invariance, PrefixInvariance, PTL

=============================================================================
