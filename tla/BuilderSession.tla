--------------------------- MODULE BuilderSession ---------------------------
(* ElfBuilder::try_build to its end, and what its result is good for: the    *)
(* assembled image is serialized as FileLayout has it and read back as       *)
(* ElfParse has it; the user asks the accessors of ElfTables and ElfAccess   *)
(* for what the builder was asked for, at once and after saving the image    *)
(* again, unchanged or with bytes overwritten by write_at_ioff.              *)
EXTENDS ElfBuilder, ElfParse, ElfAccess

CONSTANTS
    Offsets,     \* where the user writes
    Payload      \* what the user writes

ASSUME WritesAssumption == Offsets \subseteq Nat /\ Payload \subseteq Seq(RawByte)

VARIABLES
    image, pc, index, cursor, out, phdrs, sections, shstrndx, blob, offsets,
    header,      \* those of the serializer; pc is "idle" before its first call
    file,        \* the file the builder made; <<>> before there is one
    edit         \* what the user has written: addresses and bytes

Layout == INSTANCE FileLayout WITH Images <- {}

user    == <<file, edit>>
lvars   == <<image, pc, index, cursor, out, phdrs, sections, shstrndx, blob, offsets,
             header>>
allVars == <<bvars, lvars, user>>

SessionInit ==
    /\ Init
    /\ image = Assembled /\ pc = "idle" /\ index = 1
    /\ cursor = 0 /\ out = <<>> /\ phdrs = <<>> /\ sections = <<>>
    /\ shstrndx = 0 /\ blob = <<>> /\ offsets = <<>>
    /\ header = Assembled.header
    /\ file = <<>> /\ edit = {}

Request == Next /\ UNCHANGED <<lvars, user>>

BuildImage ==
    /\ stage = "assembled" /\ pc = "idle"
    /\ Layout!Restart(Assembled)
    /\ UNCHANGED <<bvars, user>>

Serialize == Layout!Next /\ UNCHANGED <<bvars, user>>

(* The user saves what the builder returned,                                 *)
SaveUnchanged == Layout!Restart(Parsed(out)) /\ edit' = {}

(* or overwrites some of its bytes first.                                    *)
SaveEdited ==
    LET im == Parsed(out)
    IN  \E ioff \in Offsets, bytes \in Payload :
            LET vaddr == ImageBase(im.segments) + ioff
            IN  \E i \in 1..Len(im.segments) :
                    /\ Writes(im.segments, i, vaddr, bytes)
                    /\ Layout!Restart(
                           [im EXCEPT !.segments = SegmentsWith(@, i, vaddr, bytes),
                                      !.sections = SectionsWith(@, vaddr, bytes)])
                    /\ edit' = {<<vaddr + k - 1, bytes[k]>> : k \in 1..Len(bytes)}

SaveAgain ==
    /\ pc = "done" /\ file = <<>>
    /\ Parses(out)
    /\ SaveUnchanged \/ SaveEdited
    /\ file' = out
    /\ UNCHANGED bvars

SessionNext == Request \/ BuildImage \/ Serialize \/ SaveAgain

SessionSpec == SessionInit /\ [][SessionNext]_allVars

-----------------------------------------------------------------------------
(* What the image read back says of what was asked for.                      *)

Built == Parsed(out)

(* The libraries asked for are the ones the dynamic table names, in their    *)
(* order and each up to its first zero: the offsets in the table and the     *)
(* strings in .dynstr were collected in one loop and are read from a segment *)
(* and a section that moved apart in the file (builder.rs:468-500,           *)
(* dynamic.rs:128-226). The builder puts .dynstr at address 0, so a write to *)
(* a segment there is one to the names, too; only such a write changes them. *)
NeededReported ==
    pc = "done" /\ (\A w \in edit : w[1] >= Len(dynstr)) =>
        NeededLibraries(Built, Dynstr, Class, Order) =
            {[i \in 1..Len(request.needed) |-> StringFrom(request.needed[i], 0)]}

(* The notes asked for come back in their order with their names, types and  *)
(* descriptors, each once although it is in a segment and in a section, and  *)
(* build_id is the first of those that are a GNU build id; in both byte      *)
(* orders, with every padding, and whatever the user overwrote               *)
(* (builder.rs:336-354, inspect.rs:225-262).                                 *)
NotesReported ==
    pc = "done" =>
        /\ Notes(Built, Order) = request.notes
        /\ LET ids == {i \in 1..Len(request.notes) :
                          /\ request.notes[i].name = Gnu
                          /\ request.notes[i].type = GnuBuildId}
           IN  BuildId(Built, Order) =
                   IF ids = {} THEN {} ELSE {request.notes[Least(ids)].descriptor}

AskedRelocations ==
    [i \in 1..Len(request.relocations) |->
        [request.relocations[i] EXCEPT !.addend = IF @ = {} THEN {0} ELSE @]]

(* The 32-bit table has room for the entry.                                  *)
Representable(entry) ==
    Class = "Elf32" =>
        /\ entry.offset < Radix^Word
        /\ entry.symbol < Radix^(Word - 1) /\ entry.type < Radix
        /\ \A a \in entry.addend : -(Radix^Word) <= 2 * a /\ 2 * a < Radix^Word

(* The relocations asked for come back, in their order, in both classes and  *)
(* byte orders, with their signs, an addend left out as zero, as far as the  *)
(* class has room for them; no other entry is disturbed by one that does not *)
(* fit (builder.rs:356-375, reloc.rs:62-132).                                *)
RelocationsReported ==
    pc = "done" =>
        \E tables \in RelocationTables(Built, Class, Order) :
            IF request.relocations = <<>> THEN tables = <<>>
            ELSE /\ Len(tables) = 1
                 /\ Len(tables[1]) = Len(request.relocations)
                 /\ \A i \in 1..Len(request.relocations) :
                        Representable(request.relocations[i]) =>
                            tables[1][i] = AskedRelocations[i]

(* A load covers an address.                                                 *)
LoadHolds(load, a) == load.vaddr <= a /\ a < load.vaddr + Len(load.data)

(* The bytes of a load, as the user left them.                               *)
AsLeft(load) ==
    [k \in 1..Len(load.data) |->
        IF \E w \in edit : w[1] = load.vaddr + k - 1
        THEN (CHOOSE w \in edit : w[1] = load.vaddr + k - 1)[2]
        ELSE load.data[k]]

(* Every loadable segment asked for is found at its address, image-relative, *)
(* with its bytes or those written over them, unless one asked for earlier   *)
(* covers its start or the write, the write is partly beside it, or it ends  *)
(* past the last address; the segments the builder adds at address 0 never   *)
(* get in front of it. The TLS template and the entry point are the ones     *)
(* asked for (builder.rs:228-262, inspect.rs:93-118, tls.rs:24-31).          *)
MemoryReported ==
    pc = "done" =>
        /\ Parses(out)
        /\ Built.header.entry = request.entry
        /\ \A i \in 1..Len(request.loads) :
               LET load == request.loads[i]
               IN  /\ load.data # <<>> /\ load.vaddr + Len(load.data) <= U64Max
                   /\ \A j \in 1..(i - 1) :
                          \A a \in {load.vaddr} \cup {w[1] : w \in edit} :
                              ~SegmentContains(Built.segments[j], a)
                   /\ \A v, w \in edit : LoadHolds(load, v[1]) => LoadHolds(load, w[1])
                   => ReadIoff(Built.segments, load.vaddr - ImageBase(Built.segments),
                               Len(load.data)) = {AsLeft(load)}
        /\ Tls(Built) = {[vaddr |-> t.vaddr, filesz |-> Len(t.data), memsz |-> t.memsz,
                          align |-> t.align] : t \in request.tls}

(* The image the builder returns is one try_build gives back byte for byte:  *)
(* saving it unchanged makes the file it was read from, with the name table  *)
(* that was added in its place and every offset where it was                 *)
(* (builder.rs:307-309, build.rs:22-119).                                    *)
RebuildStable == pc = "done" /\ file # <<>> /\ edit = {} => out = file

=============================================================================
