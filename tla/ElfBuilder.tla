----------------------------- MODULE ElfBuilder -----------------------------
(* ElfBuilder (src/src/builder.rs): a user asks for segments, notes,         *)
(* relocations and libraries, and try_build assembles an image of them, list *)
(* by list. What it does with the image is in BuilderSession. Processor,     *)
(* flags and file type are carried along unread.                             *)
EXTENDS ElfTables

CONSTANTS
    Formats,       \* the pairs of a class and a byte order asked for
    Entries,       \* the entry points
    Loads,         \* the loadable segments: address, alignment, bytes
    Templates,     \* the TLS templates: address, bytes, memory size, alignment
    NoteSpecs,     \* the notes: name, type, descriptor
    RelocationLists, \* the lists of relocations
    Libraries,     \* the names of needed libraries
    NoteSection,   \* the section name ".note.<name>" of a note's name
    NoName, Dynstr, Dynamic, RelaDyn, \* the names "", ".dynstr" and so on
    DefaultAlign,  \* the alignment of add_load (0x1000)
    MaxCalls       \* bound: how many requests a user makes

(* A Vec<u8>: its length is a usize.                                         *)
Vec == {data \in Seq(RawByte) : Len(data) \in U64}

LoadSpec == [vaddr : U64, align : U64, data : Vec]
TlsSpec  == [vaddr : U64, memsz : U64, align : U64, data : Vec]
U32      == 0..(Radix^Word - 1)
NoteSpec == [name : Seq(RawByte), type : U32, descriptor : Seq(RawByte)]
I64      == -(Radix^(2 * Word) \div 2)..((Radix^(2 * Word) \div 2) - 1)
Relocation ==
    {r \in [offset : U64, symbol : U32, type : U32, addend : SUBSET I64] :
        \A a, b \in r.addend : a = b}

ASSUME BuilderAssumption ==
    /\ Formats \subseteq Classes \X Orders
    /\ Entries \subseteq U64
    /\ Loads \subseteq LoadSpec /\ Templates \subseteq TlsSpec
    /\ NoteSpecs \subseteq NoteSpec
    /\ RelocationLists \subseteq Seq(Relocation)
    /\ Libraries \subseteq Seq(RawByte)
    /\ \A n \in NoteSpecs : NoteSection[n.name] \in Names
    /\ {NoName, Dynstr, Dynamic, RelaDyn} \subseteq Names
    /\ U64Max = Radix^(2 * Word) - 1
    /\ {DefaultAlign, Word, 8} \subseteq U64
    /\ MaxCalls \in Nat
    \* The literals differ, and no file is as large as a u32 can tell.
    /\ \A n \in NoteSpecs : NoteSection[n.name] \notin {Dynstr, Shstrtab}
    /\ Dynstr \notin {NoName, Shstrtab} /\ RelaDyn # Shstrtab
    /\ MaxImage < Radix^Word

VARIABLES
    request,     \* the builder: what has been asked for
    calls,       \* how many requests have been made
    stage,       \* "asking", then the list try_build is at, then "assembled"
    segs,        \* its local segments
    secs,        \* its local sections
    dynstr,      \* the string table of the library names
    nameOffsets  \* the offset in dynstr of each library's name

lists   == <<segs, secs>>
strings == <<dynstr, nameOffsets>>
bvars   == <<request, calls, stage, lists, strings>>

Class == request.format[1]
Order == request.format[2]

Init ==
    /\ \E format \in Formats :
           request = [format |-> format, entry |-> 0, loads |-> <<>>, tls |-> {},
                      notes |-> <<>>, relocations |-> <<>>, needed |-> <<>>]
    /\ calls = 0
    /\ stage = "asking"
    /\ segs = <<>> /\ secs = <<>>
    /\ dynstr = <<>> /\ nameOffsets = <<>>

-----------------------------------------------------------------------------
(* Requests. class and endian are those of Init: only the last call counts.  *)

Ask(asked) ==
    /\ stage = "asking" /\ calls < MaxCalls
    /\ request' = asked
    /\ calls' = calls + 1
    /\ UNCHANGED <<stage, lists, strings>>

SetEntry(entry)       == Ask([request EXCEPT !.entry = entry])
AddLoadAligned(load)  == Ask([request EXCEPT !.loads = Append(@, load)])
AddLoad(load)         == AddLoadAligned([load EXCEPT !.align = DefaultAlign])
AddTls(template)      == Ask([request EXCEPT !.tls = {template}])
AddNote(note)         == Ask([request EXCEPT !.notes = Append(@, note)])
AddRelocations(list)  == Ask([request EXCEPT !.relocations = list])
AddDynamicNeeded(lib) == Ask([request EXCEPT !.needed = Append(@, lib)])

-----------------------------------------------------------------------------
(* What becomes of each request.                                             *)

(* u64::try_from(len).unwrap_or(0).                                          *)
SizeOf(data) == IF Len(data) \in U64 THEN Len(data) ELSE 0

NewSegment(type, vaddr, memsz, align, data) ==
    [data |-> data,
     header |-> [type |-> type, offset |-> 0, vaddr |-> vaddr, filesz |-> SizeOf(data),
                 memsz |-> memsz, align |-> align]]

NewSection(name, type, alloc, align, data) ==
    [name |-> name, data |-> data,
     header |-> [nameIndex |-> 0, type |-> type, alloc |-> alloc, addr |-> 0,
                 offset |-> 0, size |-> SizeOf(data), addralign |-> align]]

NullSection == NewSection(NoName, "NULL", FALSE, 0, <<>>)

LoadSegments ==
    [i \in 1..Len(request.loads) |->
        LET load == request.loads[i]
        IN  NewSegment("LOAD", load.vaddr, SizeOf(load.data), load.align, load.data)]

(* A fault: forgets the zero-filled part of the template.                    *)
TlsWithoutBss(t) == NewSegment("TLS", t.vaddr, SizeOf(t.data), t.align, t.data)
TlsSegment(t) == NewSegment("TLS", t.vaddr, t.memsz, t.align, t.data)

(* u32::try_from(len).unwrap_or(0).                                          *)
Size32(data) == IF Len(data) \in U32 THEN Len(data) ELSE 0

(* serialize_note: three numbers, the name with its zero, the descriptor.    *)
SerializeNote(note) ==
    LET named == note.name \o <<Zero>>
    IN  Digits(Size32(named), Word, Order) \o Digits(Size32(note.descriptor), Word, Order)
        \o Digits(note.type, Word, Order)
        \o named \o Zeros(Padding(Len(named)))
        \o note.descriptor \o Zeros(Padding(Len(note.descriptor)))

NoteSegments ==
    [i \in 1..Len(request.notes) |->
        LET bytes == SerializeNote(request.notes[i])
        IN  NewSegment("NOTE", 0, SizeOf(bytes), Word, bytes)]

NoteSections ==
    [i \in 1..Len(request.notes) |->
        NewSection(NoteSection[request.notes[i].name], "NOTE", FALSE, Word,
                   SerializeNote(request.notes[i]))]

(* Rows of numbers, each of the class's size.                                *)
Serialized(rows, width) ==
    LET size == NativeSize(Class)
    IN  [p \in 1..(width * size * Len(rows)) |->
            LET k == (p - 1) % (width * size)
            IN  Digits(rows[((p - 1) \div (width * size)) + 1][(k \div size) + 1],
                       size, Order)[(k % size) + 1]]

DynamicTable ==
    Serialized([i \in 1..Len(nameOffsets) |-> <<DtNeeded, nameOffsets[i]>>]
                   \o <<<<DtStrtab, 0>>, <<DtStrsz, SizeOf(dynstr)>>, <<DtNull, 0>>>>, 2)

(* serialize_rela. In the 32-bit class the type keeps its lowest byte, the   *)
(* symbol what fits above it, and an addend past i32 becomes zero.           *)
Addend(entry) ==
    LET asked == IF entry.addend = {} THEN 0 ELSE CHOOSE a \in entry.addend : TRUE
        fits  == -(Radix^Word) <= 2 * asked /\ 2 * asked < Radix^Word
    IN  IF Class = "Elf32" /\ ~fits THEN 0 ELSE asked

(* A fault: the symbol is shifted by a whole word in either class.           *)
WideInfo(entry) == (entry.symbol * Radix^Word) + entry.type
Info(entry)     == (entry.symbol * TypeSpan(Class)) + (entry.type % TypeSpan(Class))

RelaTable ==
    Serialized([i \in 1..Len(request.relocations) |->
                   LET entry == request.relocations[i]
                   IN  <<entry.offset, Info(entry), Addend(entry)>>], 3)

-----------------------------------------------------------------------------
(* try_build, up to the image.                                               *)

TryBuild ==
    /\ stage = "asking"
    /\ stage' = "notes"
    /\ segs' = LoadSegments \o (IF request.tls = {} THEN <<>>
                                ELSE <<TlsSegment(CHOOSE t \in request.tls : TRUE)>>)
    /\ secs' = <<NullSection>>
    /\ UNCHANGED <<request, calls, strings>>

AddNotes ==
    /\ stage = "notes"
    /\ segs' = segs \o NoteSegments
    /\ secs' = secs \o NoteSections
    /\ IF request.needed = <<>>
       THEN stage' = "rela" /\ UNCHANGED strings
       ELSE stage' = "dynamic" /\ dynstr' = <<Zero>> /\ nameOffsets' = <<>>
    /\ UNCHANGED <<request, calls>>

(* A fault: the names run into each other.                                   *)
Unterminated(table, name) == table \o name
Extended(table, name)     == table \o Append(name, Zero)

CollectLibrary ==
    /\ stage = "dynamic" /\ Len(nameOffsets) < Len(request.needed)
    /\ nameOffsets' = Append(nameOffsets, Len(dynstr))
    /\ dynstr' = Extended(dynstr, request.needed[Len(nameOffsets) + 1])
    /\ UNCHANGED <<request, calls, stage, lists>>

AddDynamic ==
    /\ stage = "dynamic" /\ Len(nameOffsets) = Len(request.needed)
    /\ segs' = Append(segs, NewSegment("DYNAMIC", 0, SizeOf(DynamicTable), 8, DynamicTable))
    /\ secs' = secs \o <<NewSection(Dynstr, "STRTAB", TRUE, 1, dynstr),
                         NewSection(Dynamic, "DYNAMIC", TRUE, 8, DynamicTable)>>
    /\ stage' = "rela"
    /\ UNCHANGED <<request, calls, strings>>

AddRela ==
    /\ stage = "rela"
    /\ secs' = secs \o (IF request.relocations = <<>> THEN <<>>
                        ELSE <<NewSection(RelaDyn, "RELA", FALSE, 8, RelaTable)>>)
    /\ stage' = "assembled"
    /\ UNCHANGED <<request, calls, segs, strings>>

(* The image try_build serializes.                                           *)
Assembled ==
    [header |-> [entry |-> request.entry, phoff |-> 0, shoff |-> 0, phnum |-> 0,
                 shnum |-> 0, shstrndx |-> 0],
     segments |-> segs, sections |-> secs]

Next ==
    \/ \E entry \in Entries : SetEntry(entry)
    \/ \E load \in Loads : AddLoadAligned(load) \/ AddLoad(load)
    \/ \E template \in Templates : AddTls(template)
    \/ \E note \in NoteSpecs : AddNote(note)
    \/ \E list \in RelocationLists : AddRelocations(list)
    \/ \E lib \in Libraries : AddDynamicNeeded(lib)
    \/ TryBuild \/ AddNotes \/ CollectLibrary \/ AddDynamic \/ AddRela

Spec == Init /\ [][Next]_bvars

-----------------------------------------------------------------------------
Stages == {"asking", "notes", "dynamic", "rela", "assembled"}

Requests ==
    [format : Formats, entry : U64, loads : Seq(LoadSpec), tls : SUBSET TlsSpec,
     notes : Seq(NoteSpecs), relocations : Seq(Relocation), needed : Seq(Seq(RawByte))]

TypeOK ==
    /\ request \in Requests
    /\ calls \in 0..MaxCalls /\ stage \in Stages
    /\ segs \in Seq(Segment) /\ secs \in Seq(Section)
    /\ dynstr \in Seq(RawByte) /\ nameOffsets \in Seq(Nat)
    /\ Assembled \in ElfImage

(* Each offset collected so far is where its library's name stands in        *)
(* .dynstr, whole and terminated, however many names follow it, empty or     *)
(* equal ones and ones with zeros among them; and the table begins with the  *)
(* zero that offset 0 names (builder.rs:463-475).                            *)
LibrariesCollected ==
    stage \in {"dynamic", "rela", "assembled"} /\ request.needed # <<>> =>
        /\ Len(nameOffsets) <= Len(request.needed)
        /\ HoldsAt(dynstr, 0, <<Zero>>)
        /\ \A i \in 1..Len(nameOffsets) :
               HoldsAt(dynstr, nameOffsets[i], Append(request.needed[i], Zero))

=============================================================================
