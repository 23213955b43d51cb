------------------------------ MODULE ReadLoop ------------------------------
(* The two loops that fill a buffer from a ReadAt source: read_exact_at      *)
(* (src/src/reader.rs), which fails unless the source supplies every byte,   *)
(* and read_lenient (src/src/elf/parse.rs), which keeps what it got. Both    *)
(* read through an OffsetReader that adds a base to each position. The       *)
(* source is somebody else's: foreign-process memory or a file, which may    *)
(* answer short, miss bytes, change during the call or over-report.          *)
EXTENDS ElfArith, Sequences

CONSTANTS
    Value,       \* what an address of the source can hold
    Missing,     \* ... or that it cannot be read
    Unset,       \* a byte of the fresh, zero-filled buffer
    Bases,       \* OffsetReader::base
    SourcesOf,   \* the contents a source read from each base may have
    Requests,    \* the offsets and lengths asked for
    Excess       \* by how much a wrong source over-reports, at most; the loops'
                 \* own sum of what was reported stays a usize

ASSUME ReadAssumption ==
    /\ Missing \notin Value /\ Unset \notin Value
    /\ Bases \subseteq U64
    /\ SourcesOf \in [Bases -> SUBSET [U64 -> Value \cup {Missing}]]
    /\ Requests \subseteq [offset : U64, length : U64]
    /\ Excess \in Nat
    /\ \A r \in Requests : r.length + Excess <= U64Max

VARIABLES
    source,      \* what the source holds now
    held,        \* what each address has held since the call began
    mode,        \* which loop
    base,        \* OffsetReader::base
    offset,      \* the argument offset
    buffer,      \* the argument buf
    filled,      \* the local total (read_exact_at) or filled (read_lenient)
    result       \* "reading" until the loop returns or panics

vars == <<source, held, mode, base, offset, buffer, filled, result>>
args == <<mode, base, offset>>

Init ==
    /\ base \in Bases
    /\ source \in SourcesOf[base]
    /\ held = [a \in U64 |-> {source[a]}]
    /\ mode \in {"exact", "lenient"}
    /\ \E r \in Requests :
           /\ offset = r.offset
           /\ buffer = [k \in 1..r.length |-> Unset]
    /\ filled = 0
    /\ result = "reading"

Reading == result = "reading" /\ filled < Len(buffer)

(* The position the loop asks for. read_lenient's addition is unchecked and  *)
(* wraps when the build leaves overflow checks out.                          *)
Position == IF mode = "exact" THEN offset + filled
            ELSE (offset + filled) % (U64Max + 1)

(* OffsetReader::read_at: past the last address there is nothing to read.    *)
SaturatingReachable == Position <= U64Max            \* a fault: forgets the base
Reachable == Position <= U64Max /\ base + Position <= U64Max

Address == SatAdd(base, Position)

(* Whether the source can hand over that many bytes in one read.             *)
CanSupply(count) ==
    /\ filled + count <= Len(buffer)
    /\ Address + count <= U64Max + 1
    /\ \A a \in Address..(Address + count - 1) : source[a] # Missing

(* The buffer after a read of count bytes.                                   *)
StoredAtStart(count) ==                  \* a fault: always fills from the start
    [k \in 1..Len(buffer) |->
        IF k <= count THEN source[Address + k - 1] ELSE buffer[k]]
Stored(count) ==
    [k \in 1..Len(buffer) |->
        IF filled < k /\ k <= filled + count
        THEN source[Address + (k - filled) - 1] ELSE buffer[k]]

Return(r) == result' = r /\ UNCHANGED <<source, held, args, buffer, filled>>

-----------------------------------------------------------------------------
(* A read that supplies at least one byte.                                   *)
ReadSome ==
    /\ Reading /\ Reachable
    /\ \E count \in 1..(Len(buffer) - filled) :
           /\ CanSupply(count)
           /\ buffer' = Stored(count)
           /\ filled' = filled + count
    /\ UNCHANGED <<source, held, args, result>>

(* No byte at the position: the source answers Ok(0) or fails.               *)
Nothing == IF Reachable THEN source[Address] = Missing ELSE TRUE

PollAgain == Reading /\ Nothing /\ UNCHANGED vars       \* a fault: retries for ever

ReadNone ==
    /\ Reading /\ Nothing
    /\ Return(IF mode = "exact" THEN "error" ELSE "ok")

(* With overflow checks, read_lenient panics at a sum that is no u64.        *)
OverflowPanic ==
    /\ Reading /\ mode = "lenient" /\ offset + filled > U64Max
    /\ Return("panic")

(* A source that claims more bytes than the buffer has left. read_exact_at   *)
(* refuses the answer, read_lenient takes it.                                *)
AcceptsAny(count) == TRUE                \* a fault: exact reads take it as well
Accepts(count) == mode = "lenient" \/ count <= Len(buffer) - filled

OverReport ==
    /\ Reading /\ Reachable
    /\ \E count \in (Len(buffer) - filled + 1)..(Len(buffer) - filled + Excess) :
       \E real \in 0..(Len(buffer) - filled) :
           /\ CanSupply(real)
           /\ buffer' = Stored(real)
           /\ IF Accepts(count)
              THEN filled' = filled + count /\ UNCHANGED result
              ELSE result' = "error" /\ UNCHANGED filled
    /\ UNCHANGED <<source, held, args>>

(* The buffer is full.                                                       *)
Finish ==
    /\ result = "reading" /\ filled >= Len(buffer)
    /\ Return("ok")

(* The source changes under the call.                                        *)
Drift ==
    /\ result = "reading"
    /\ source' \in SourcesOf[base]
    /\ held' = [a \in U64 |-> held[a] \cup {source'[a]}]
    /\ UNCHANGED <<args, buffer, filled, result>>

Returned == result # "reading" /\ UNCHANGED vars

Step == ReadSome \/ ReadNone \/ OverReport \/ Finish \/ OverflowPanic
Next == Step \/ Drift \/ Returned

Spec     == Init /\ [][Next]_vars
FairSpec == Spec /\ WF_vars(Step)

-----------------------------------------------------------------------------
TypeOK ==
    /\ base \in Bases /\ source \in SourcesOf[base]
    /\ held \in [U64 -> SUBSET (Value \cup {Missing})]
    /\ mode \in {"exact", "lenient"} /\ offset \in U64
    /\ buffer \in Seq(Value \cup {Unset}) /\ Len(buffer) \in U64
    /\ filled \in 0..(Len(buffer) + Excess)
    /\ result \in {"reading", "ok", "error", "panic"}

(* The address that the k-th byte of the buffer comes from. Behind the last  *)
(* address is address 0, for a loop that gets there.                         *)
Place(k) == (base + offset + k - 1) % (U64Max + 1)

(* Each byte of the buffer is either still the zero it was allocated with or *)
(* a byte the source held, at that byte's own address, during the call: no   *)
(* sequence of short reads shifts or repeats data. Only a lenient read from  *)
(* base 0, in a build without overflow checks, gets past the last address    *)
(* (parse.rs:285-296, reader.rs:39-58).                                      *)
BytesInPlace ==
    \A k \in 1..Len(buffer) :
        buffer[k] # Unset =>
            /\ buffer[k] \in held[Place(k)]
            /\ base + offset + k - 1 <= U64Max \/ (mode = "lenient" /\ base = 0)

(* The byte at the last address was read, and the buffer goes on behind it.  *)
LastByteRead ==
    /\ base = 0 /\ offset + Len(buffer) > U64Max + 1
    /\ buffer[U64Max - offset + 1] \in held[U64Max] \cap Value

(* The unchecked sum offset + filled of read_lenient overflows in one case   *)
(* and no other: from base 0, after a source with a byte at the last address *)
(* has supplied it, and more was asked for. Then a build with overflow       *)
(* checks panics, and it never panics otherwise. Slices, vectors and files   *)
(* have no byte there, and a base above zero ends the loop before; a custom  *)
(* ReadAt source can have one (parse.rs:288, reader.rs:13-18).               *)
OverflowsAtTheTop ==
    /\ mode = "lenient" /\ Reading => (offset + filled > U64Max <=> LastByteRead)
    /\ result = "panic" => mode = "lenient" /\ LastByteRead

(* read_exact_at succeeds only when the source supplied every byte, also     *)
(* when the source claims more than it was asked for (reader.rs:39-58).      *)
ExactIsComplete ==
    mode = "exact" /\ result = "ok" =>
        \A k \in 1..Len(buffer) : buffer[k] # Unset

(* Every reading loop ends, however short the source's answers are and       *)
(* however it changes meanwhile: by returning, or in the panic above.        *)
Terminates == <>(result # "reading")

(* What read_lenient returns is what it could read up to the first gap it    *)
(* met: the bytes it stored are the first ones of the buffer, and the read   *)
(* stopped there because the buffer ended, base and position passed the last *)
(* address (a read from base 0 goes on at address 0), the source missed the  *)
(* next byte at some moment of the call, or it claimed too much. Bytes       *)
(* behind a missing page stay zero although they are resident                *)
(* (parse.rs:285-296; "Missing mapped pages read as zero-filled bytes" in    *)
(* parse.rs:79-81 is all its documentation says of them).                    *)
PrefixRead ==
    mode = "lenient" /\ result = "ok" =>
        \E n \in 0..Len(buffer) :
            /\ \A k \in 1..Len(buffer) : buffer[k] # Unset <=> k <= n
            /\ \/ n = Len(buffer)
               \/ base # 0 /\ base + offset + n > U64Max
               \/ Missing \in held[Place(n + 1)]
               \/ filled > Len(buffer)

-----------------------------------------------------------------------------
(* The strengthening that makes the promises inductive. Only a read from     *)
(* base 0 gets past the last address, and only a lenient one panics there.   *)
TopInv ==
    /\ Reading => offset + filled <= U64Max \/ base = 0
    /\ result = "panic" => mode = "lenient"

(* And an exact read has stored every byte it counts.                        *)
ExactPrefix ==
    mode = "exact" =>
        /\ filled <= Len(buffer)
        /\ \A k \in 1..filled : buffer[k] # Unset
        /\ result = "ok" => filled = Len(buffer)

=============================================================================
