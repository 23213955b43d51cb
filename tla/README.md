# A verification of elfex

elfex reads, edits and writes ELF executables, from files and from the memory of
a running process. This directory holds TLA+ models of its core, the TLC runs
that check them on small instances, and theorems about them that TLAPS checks
for every instance. The code is under `src/src/`; paths below are relative to it.

Notation: a *file* is a sequence of bytes, the byte at offset `o` being
`file[o + 1]`. Integers are natural numbers bounded by `U64Max`; saturating,
wrapping and checked operations are modelled as the code writes them.

## 1. Inventory

| Component | State | Operations | Talks to |
|---|---|---|---|
| File-layout serializer (`elf/build.rs`, `align_up` in `elf.rs`) | one call's locals: cursor, output, header copies, section copies, name table | `try_build`, `build`, and `congruent`, `write_at`, `ensure_shstrtab`, `assign_name_offsets` | `ElfImage`; called by `ElfFile` and the builder |
| Mapped-image serializer (`elf/build.rs`) | one call's memory image | `to_mapped_image(_at)`, `apply_relative_relocations` | geometry (`elf.rs`), relocation tables (`reloc.rs`) |
| File-layout parser (`elf/parse.rs`, `header.rs`, `program.rs`, `section.rs`, `strtab.rs`) | none | `parse`, `read_from` | a `ReadAt` source |
| Mapped-layout parser (`elf/parse.rs`) | none | `parse_mapped`, `read_mapped_from` | a `ReadAt` source that may miss pages |
| Positional sources (`reader.rs`, `OffsetReader`, `read_lenient`) | one loop's count and buffer | `read_exact_at`, `read_lenient`, `read_bytes_at` | somebody else's memory or file |
| Image editing (`elf/edit.rs`) | the image: two copies of most bytes | `write_at_ioff` | segments and sections |
| Address conversion and reads (`elf/inspect.rs`) | none | `image_base`, `image_span`, `ioff_to_offset`, `read_ioff`, `read_at_vaddr`, table accessors | segments |
| File container (`elf_file.rs`) | image and trailing bytes | `parse`, `read_from`, `new`, `try_build`, edits through `DerefMut` | parser, serializer |
| Validation (`elf/validate.rs`, `validation.rs`) | one call's findings | `validate`, `has_errors` | image |
| Notes (`notes.rs`) | one walk's cursor | `Note::parse_all` | segment or section bytes |
| Builder (`builder.rs`) | the requests made; while building, lists of segments and sections, a string table | `add_*`, `entry`, `try_build` | serializer, then parser |
| Table decoders (`dynamic.rs`, `symbol.rs`, `reloc.rs`, `tls.rs`, accessors in `elf/inspect.rs`) | none | `needed_libraries`, `relocations`, `notes`, `build_id`, `tls`, `exports` | segments and sections |
| Relocation kinds (`reloc.rs`) | none | `relocation_kind`, `relocation_width` | mapped-image serializer |
| Identification (`ident.rs`), errors and crate root (`error.rs`, `lib.rs`) | none | constants and wording | everything |

The crate has no threads, locks or callbacks of its own. What is hard in it:

* **Layout arithmetic on numbers nobody vouches for.** Addresses, alignments and
  sizes come from files; every sum saturates, is checked, or (in three places)
  is neither.
* **Bytes that exist several times.** A segment and each section over it hold
  their own copies; headers describe bytes placed by earlier passes; the headers
  of a mapped image lie over a segment.
* **A source that changes.** A read is a loop of calls on process memory or on a
  file, which may answer short, fail half-way, change meanwhile or over-report.
* **Long legal histories.** Save, open, edit, save again: offsets used by an edit
  were given out by one layout and are given out anew by the next. Map, read
  back, edit, map at another base: what was relocated once is relocated again,
  from tables found through headers nobody wrote to memory.
* **Two encodings of one table.** The builder writes each table in two classes
  and two byte orders, through segments and sections that move apart; the
  accessors must find it again and decode the same.

What makes each component correct:

* serializer: no two things in the file overlap, each header points at what it
  describes, addresses and offsets are congruent, names resolve, the file ends
  at its last structure, and it never exceeds 256 MiB;
* mapped serializer and parser: the memory a loader would make; rebasing moves
  each pointer once and nothing else, mapping after mapping; edits are kept and
  sections found again;
* builder: the accessors of the image it returns report what was asked for, no
  more and no less, and that image can be saved unchanged;
* sources: each byte lands at its own place, and a success means all bytes;
* editing: a write is a memory write, visible in every copy and to every read;
* container: saving what was opened changes only what the user changed, trailing
  bytes included;
* validation: every overlap is found, and what is reported is one segment starting
  within another; a clean image is unambiguous;
* notes: the complete notes are returned, wherever the run ends.

The list of hazards, each at its line and with the properties aimed at it, is in
`PROJECT.json`.

## 2. Modules

| Module | Models | Kind |
|---|---|---|
| `ElfArith` | u64 arithmetic: saturating sums, `align_up`, `congruent` | operators |
| `ElfFormat` | headers, segments, sections, images, bytes; `write_at`; `StringTable::get` | operators |
| `FileLayout` | one `try_build` call: an action per loop iteration and per stretch of code between loops | state machine |
| `ElfParse` | parsing in file layout, section names | operators |
| `ElfGeometry` | `geometry`, `image_base`, `image_span` | operators |
| `ElfAccess` | `write_at_ioff`, `segment_by_ioff`, `read_ioff`, `ioff_to_offset` | operators |
| `ElfEdit` | a sequence of writes on one image | state machine |
| `LoadedMemory` | what editing promises: a memory of extents | abstract specification |
| `ElfSession` | composes `FileLayout`, `ElfParse` and `ElfAccess`: save, open, edit, save | state machine |
| `ElfValidate` | one `validate` call, check by check | state machine |
| `ElfTables` | numbers in both byte orders and classes; dynamic, relocation, symbol, note and TLS tables, and the accessors that find them | operators |
| `MappedImage` | one `to_mapped_image_at` call, segment by segment and relocation by relocation; `parse_mapped` of its result | state machine |
| `MappedSession` | composes `MappedImage`, `ElfAccess` and `ElfTables`: map, read back, edit, map again | state machine |
| `ElfBuilder` | the requests and `try_build`, list by list, up to the image | state machine |
| `BuilderSession` | composes `ElfBuilder`, `FileLayout`, `ElfParse`, `ElfAccess` and `ElfTables`: build, serialize, parse, ask, save again | state machine |
| `ReadLoop` | one `read_exact_at` or `read_lenient` call over an `OffsetReader` and a source with a life of its own | state machine |
| `NoteWalk` | one `Note::parse_all` call over notes as the builder serializes them, cut off anywhere | state machine |
| `*Proofs` | theorems about the module of that name | proofs |
| `MC*` | the small instances | model checking |

How state corresponds to code:

* `FileLayout`'s variables are the locals of `try_build` under their own names;
  `pc` names the loop or statement. `write_at`'s error and the u16 conversions
  lead to `pc = "error"`. The two counts are checked before either table offset
  is used, in the order of the code.
* In `ElfFormat` a raw byte is a 1-tuple and byte `k` of a serialized record `r`
  is `<<r, k>>`. Any partial overwrite of a header is therefore visible, and a
  record can be decoded only from all of its bytes in order. What this gives up:
  raw bytes that happen to spell a header.
* `ElfEdit` keeps `segments` and `sections`; `torn` is a history variable that
  names the section bytes which writes running over a section's edge have left
  behind.
* `ElfSession` adds the container's `trailing`, and as history the file an image
  was read from (`file`), what the user wrote since (`patch`) and whether that
  file was one the serializer wrote from data it can read back (`settled`).
* `ElfValidate` keeps the codes reported, not messages or counts. `order` is the
  sorted vector `ranges`.
* `MappedImage`'s `pc = "panic"` is a slice out of range (`build.rs:173`) or the
  sum at `build.rs:221`, which panics at once with overflow checks and at the
  slice after it without them.
* `ReadLoop`'s result `"panic"` is the sum at `parse.rs:288` in a build with
  overflow checks; in one without, `Position` has wrapped and the loop goes on.
  Both builds are among the behaviours.
* `ReadLoop`'s `Drift` and `OverReport` are not code of this repository: they are
  what a `ReadAt` implementation may do. `held` is a history of the source.
* `MappedSession` adds the image of the first round (`origin`), the memory an
  image was read from (`before`), what was written since (`edit`; `written` is
  what was written when the image was last read) and the sum of all base changes
  (`shifts`), all history. `SectionTables` is what the section
  headers at `e_shoff` may turn out to be: a header that is all there, a NULL
  header where there are zeros, and otherwise one of `Guesses`.
* `ElfBuilder`'s `request` is the builder; `segs`, `secs`, `dynstr` and
  `nameOffsets` are the locals of `try_build`, `stage` the list it is at. The
  class and byte order are fixed before the other requests, since only the last
  call of `class` and `endian` counts. In `BuilderSession` the serializer is an
  instance of `FileLayout`.
* `NoteWalk`'s `PastTheEnd` is the subtraction at `notes.rs:70` when it
  underflows: a panic with overflow checks, an error without.

Some operators come with a faulty neighbour, commented "a fault" (`AlignDown`,
`MovedOnly`, ...). No specification uses them. Each is a plausible bug, and the
`mutants` of `PROJECT.json` say which property notices it.

## 3. Runs

Run one with `tlc -config X.cfg M` from this directory.

| Run | Module, cfg | Question | Result |
|---|---|---|---|
| `file_layout` | `MCFileLayout`, `FileLayout.cfg` | does the serializer place everything correctly, at the limits as well? | holds |
| `read_loop` | `MCReadLoop`, `ReadLoop.cfg` | do the read loops place bytes correctly and end, and when does the sum of `read_lenient` overflow? | holds |
| `elf_edit` | `MCElfEdit`, `ElfEdit.cfg` | is an edit a memory write, seen by both copies and by reads? | holds |
| `elf_edit_read_back` | same, `ElfEditReadBack.cfg` | is what was written read back? | violated |
| `elf_session` | `MCElfSession`, `ElfSession.cfg` | does save, open, edit, save change only what was edited? | holds |
| `elf_session_linked` | same, `ElfSessionLinked.cfg` | is a linker's file returned unchanged? | violated |
| `elf_validate` | `MCElfValidate`, `ElfValidate.cfg` | is every overlap found, and what else is reported? is a clean image unambiguous? | holds |
| `mapped_session` | `MCMappedSession`, `MappedSession.cfg` | is the mapped image a loader's memory, each pointer moved once a mapping, each edit kept and each section found again? | holds |
| `mapped_panic` | same, `MappedPanic.cfg` | does mapping always return? | violated |
| `builder_session` | `MCBuilderSession`, `BuilderSession.cfg` | do the accessors report what the builder was asked for? | holds |
| `note_walk` | `MCNoteWalk`, `NoteWalk.cfg` | are the complete notes returned? | holds |
| `note_walk_end` | same, `NoteWalkEnd.cfg` | does the walk always return them? | violated |

A violated run checks one statement that the documentation makes; each is a
finding in `PROJECT.json` with the line quoted, in short:

1. reads take the first segment of *any* type over an address, writes the first
   loadable one: behind a note segment a read does not see the write
   (`elf_edit_read_back`);
2. `try_build` writes section data again behind the segments, so that a linker's
   file is not returned as it was (`elf_session_linked`);
3. a loadable segment with `p_memsz` 0 above the others makes `to_mapped_image`
   panic (`mapped_panic`);
4. a note run that ends without its last padding makes `Note::parse_all` panic,
   or fail in a build without overflow checks, instead of returning its notes
   (`note_walk_end`).

There are smaller cases in which the code does less than its documentation
says. The properties of the passing runs leave them out, by the condition named:

* a loadable segment without file bytes gets `p_offset` 0, congruent with its
  address or not (`LoadsCongruent`; `build.rs:22-24` says each loadable segment);
* a write that crosses a section's edge updates none of that section (`torn` in
  `ViewsAgree`; `edit.rs:8-10` says every allocated section over the address);
* an image parsed from memory accepts writes behind `p_filesz`, which `try_build`
  drops (`edit.rs:12-13` says such a write is refused; `MemorySpec` follows the
  code and asks for bytes in the segment, not in the file);
* the headers of a mapped image replace the first bytes of a segment placed
  there, also of one that does not begin with them (`LoadsInMemory`);
* `write_at_ioff` and `ioff_to_offset` may take different segments for one byte
  where loadable segments share addresses and are not in the order of them, and
  an edit of a name table that is loaded is lost by the next save (`InOrder` and
  `NamesNotLoaded` in `PatchIsExact`; without either TLC finds a file that changes
  elsewhere);
* a load asked for is not read back where an earlier one covers its start or the
  bytes written, nor whole when a write runs over its end or it ends past the
  last address (the conditions in `MemoryReported`; `try_build` asks for no
  order or distance of loads, and says nothing of it);
* the 32-bit builder cuts off offsets, symbols and types that do not fit, and
  makes large addends zero (`Representable` in `RelocationsReported`;
  `lib.rs:56-58` says that the builder and parser keep values in range);
* a lenient read through base 0 of a source that has a byte at address 2^64 - 1
  panics in a build with overflow checks when it goes on behind that byte, and
  otherwise continues with the bytes at address 0 (`OverflowsAtTheTop`,
  `BytesInPlace`; `parse.rs:284` says the rest is left zero). Slices, vectors and
  files have no such byte; a custom `ReadAt` source, as `reader.rs:15-16` invites,
  may have;
* an empty loadable segment that starts strictly within another is reported as
  an error, although no address is in both (`StartsInside` in `OverlapsReal`;
  `validate.rs:73` says that two segments overlap in memory).

Four properties say exactly what the code does where one might expect more:

* a lenient read stops at the first gap, and what is resident behind it reads as
  zero (`PrefixRead`);
* the builder puts `.dynstr` at address 0, so that an edit of a segment at a low
  address is an edit of the library names as well (`NeededReported`);
* an image read from rebased memory takes the base it was mapped at to be its
  preferred one only if its segments say so, and they do not: mapping it at the
  same base moves every pointer a second time, but for those of a relocation
  table too large to be read, which move once and then no more (`ShiftsAddUp`);
* when memory has no section table, nothing tells where pointers are, and
  mapping at another base succeeds without moving any (`LostTableMovesNothing`).

### Bounds, and why they are enough

Sizes are scaled down: a header of one or two bytes, table entries of one or
two, u64 up to 7, 15, 63, 80 or 65535, the 256 MiB limit at 12 to 255 bytes, u16 up
to 3, 7 or 15, pages of 4 bytes. The code uses these only as numbers to add, compare and round, and
each scaled bound can be reached from both sides.

* `file_layout`: up to two segments and two sections out of seven and six, and
  tables of four segments or three sections, which exceed the count limit (the
  latter only with the appended name table). Among them: data cut by `p_filesz`,
  no data, no alignment, an alignment and address that saturate, a name table
  present, absent, twice, or of the wrong type. Two of each are needed for one
  to overwrite another; a third would meet nothing new, because the cursor is
  all that the passes share.
* `elf_edit`: two adjacent loadable segments (one with a zero-filled tail) and a
  note segment; every pair of six sections (in one order, since a write treats
  each section by itself) that tile, overlap, cross a segment's end or
  only seem to cover it; writes of zero to three bytes at nine offsets. No bound
  on the number of writes: the states are finite.
* `elf_session` (152 894 states): two segments and one section or one and two,
  some segments over one another, a name table that is loaded; `MaxOpens = 2`
  files opened, hence three saves: a second cycle starts from what the first
  left, and what it leaves has the shape of what it started from. The linked file
  takes part in the violated run, and in the passing run for everything but the
  lossless round trip.
* `elf_validate`: three segments, the least for which neighbours in sorted order
  and all pairs differ; ranges that touch, nest, are empty, saturate.
* `mapped_session` (137 074 states): up to two segments with one relocation table
  or one with two, of up to two entries, two bases and the preferred one; words
  of two digits in base nine, so that carries and wrapping occur; words that
  overlap, lie outside, are named twice; a segment above the span, one below the
  base. These have no section table in memory. A linked image has all of the
  file in one segment: headers, a pointer with its relocation, a symbol, names,
  and a section that is refused for its size, before the others. There are three
  of them: that one, one whose refused section is the relocation table that names
  the pointer, and one whose header has the section table where zeros are.
  `MaxRounds = 2`
  mappings with an edit between them: what the second reads back has the shape
  of what the first did.
* `builder_session` (159 802 states): 64-bit big-endian and 32-bit little-endian,
  since class and byte order are read independently of each other; `MaxCalls = 3`
  requests in any order, so that each kind meets each other kind and itself;
  4-bit digits, words of two of them; three relocations, one of which the 32-bit
  class has no room for; names that are empty, equal, or have a zero inside; a
  build id and another note, one of them padded; loads at the addresses of the
  builder's own tables, above, and over one another; edits of one and two bytes at three offsets.
* `read_loop`: eight addresses, reads of up to four bytes, three sources between
  which a drift may switch at each step; base 0, with a source that has a byte at
  the last address and two that have none, and bases 1 and 3 with offsets whose
  sum with the base passes the last address. `Excess` is the most by which a
  source over-reports; it is such that the loops' sum of the counts is a usize
  (`ReadAssumption`; a report that makes the sum at `parse.rs:294` overflow is
  left out).
* `note_walk`: lists of up to two notes, name lengths 1, 4 and 5 with the
  terminator, descriptors of zero to four bytes, cut at every byte, and foreign
  headers with sizes up to the largest.

### Fairness

Only `ReadLoop` has a liveness property, `Terminates`, under `WF_vars(Step)`:
a running loop takes its next step. That is the loop itself, not the source:
`Drift` is outside `Step` and may happen for ever, and how much a read supplies
is free. It holds because each step supplies a byte or ends the loop. The other
machines are single calls or user histories; what they must do at the end is
stated of their last state.

`CHECK_DEADLOCK` is on everywhere: a finished call stutters in `Returned`.

## 4. Theorems

Checked by `tlapm M.tla`, for every value of the constants that satisfies the
named assumptions. Most assumptions are typing (`FormatAssumption`,
`U64MaxAssumption`, `MinPageAssumption`, `ImagesAssumption`, `ReadAssumption`,
`CheckedAssumption`, `NoteAssumption`, `MappedAssumption`, `WritesAssumption`).
The others say something about the inputs, and TLC evaluates all of them on the
instances:

* `ReadAssumption` also bounds `Excess` (above);
* `NamesAssumption`: names are told apart by their bytes, and one is empty;
* `SerializedAssumption` of `NoteWalk`: notes as the builder serializes them are
  bytes;
* `EditAssumption`: the images under edit have loadable segments that do not
  overlap, with no more bytes than memory, and sections whose bytes are those of
  the segments, as parsing leaves them;
* `SessionAssumption` of `ElfSession`: a linker's files, with whatever trails
  them, parse; that of `MappedSession`: what bytes that are no section header
  decode to is no relocation table;
* `TablesAssumption`: bytes are the digits of a number, and what exponentiation
  is, which the prover does not know: `Radix^0 = 1`, and so on up to two words;
* `BuilderAssumption`: what is asked for fits the fields of the format; u64 is as
  wide as two words; no file is as large as a u32 can tell (256 MiB is less than
  4 GiB); and the section names the builder writes are different literals. A
  vector (`Vec` in `ElfBuilder`) has a length that is a u64.

| Module | Theorems |
|---|---|
| `ElfFormatProofs` | lemmas: alignment, congruence, `WriteAt`, encoded tables and what they decode to, the elements `Chosen` from a list, least and greatest elements, base and span of an image, a principle for sets of numbers |
| `FileLayoutProofs` | all nine properties of `file_layout`; `ReadsBack`, `TrailingKept` and `PatchIsExact` of `elf_session` |
| `ReadLoopProofs` | the four safety properties of `read_loop` |
| `ElfEditProofs` | both invariants of `elf_edit`, and that it implements `LoadedMemory` |
| `ElfValidateProofs` | the three properties of `elf_validate` |
| `NoteWalkProofs` | the three properties of `note_walk`: `CursorInv`, `CompleteNotesRead`, `WrittenNotesRead` |
| `MappedImageProofs` | `LoadsInMemory`, `PointersShiftOnce`, `MappingIsStable`, `SectionsSurvive`, `ShiftsAddUp`, `EditsPersist` and `LostTableMovesNothing`: all seven of `mapped_session`, through any number of rounds; and that a mapping changes only named words (`OnlyPointersMove`) |
| `ElfBuilderProofs` | all seven properties of `builder_session`: `TypeOK`, `LibrariesCollected`, `RebuildStable`, `MemoryReported`, `RelocationsReported`, `NotesReported` and `NeededReported` |

The arguments:

* `FileLayoutProofs`, one call. The promises speak of the finished file and are
  not inductive. `LayoutInv` is: everything handed out lies between the tables
  and the cursor (`CursorInv`), so a write at or behind the cursor, or into the
  reserved table area, leaves it alone; and what each pass has finished is
  already where its header says (`SegmentsInv`, `SectionsInv`, `TablesInv`).
  The saturated sums need the argument that an offset which saturates fails the
  limit check, so that a stored offset is never a saturated one. The theorems
  about names and about the end of the file strengthen it once more: what the
  name table holds while it grows, and which structure ends where.
* `FileLayoutProofs`, sessions. A finished file decodes to the headers the call
  ended with and to the bytes it was given, so that reading it gives the image
  saved, with offsets, sizes and name table filled in (`ReadsBack`). What trails
  is what lies behind the last structure a header names; the layout ends there,
  hence what was appended is what is found (`EndInv`, `CarriedInv`,
  `TrailingKept`). And a call does nothing but what its image determines:
  `LaidInv` gives each cursor of each loop as a function of the image. So one
  image makes one file (`OneFile`), and the image that is read from a file the
  serializer made has the cursors of the one saved, each offset coming out where
  it was (`MadeAgain`, `SavedIsMadeAgain`).
* `FileLayoutProofs`, edits. Behind its tables such a file is a row of slots, one
  for each segment and then each section, that do not meet (`Slots`). An edit
  gives slots new data of the old length, at the offsets that its file bytes
  name (`EditIsOfSlots`): for sections by their headers, for the segment because
  `ioff_to_offset` finds the one that `write_at_ioff` chose (`OffsetWhereWritten`,
  which needs `InOrder`). Replacing these bytes gives a file that is laid out from
  the edited image (`SlotsPatched`, `MadeOfEdited`), and as one image makes one
  file, it is the file that saving makes (`PatchIsExact`). The invariant,
  `OpenedInv`, says what the session's image was read from.
* `ReadLoopProofs`. The strengthening is `ExactPrefix`, an exact read has stored
  every byte it counts, and `TopInv`, only a read from base 0 gets past the last
  address. `ReadsAPrefix` adds what a source has held at each address during the
  call, and `OverflowsOnlyAtTheTop` follows from both: the bytes stored are those
  counted, so the sum is past the last offset when the byte there is stored.
* `ElfEditProofs`. A write changes one segment, the one that covers all of it,
  because none overlaps; a section that holds all of the range gets the same
  bytes at the same addresses, and any other that meets it is remembered in
  `torn`. The refinement maps a write to the memory write at its address, a
  refused one to a stutter.
* `ElfValidateProofs`. Comparing neighbours suffices because the sorted order is
  transitive and the comparison is too while none overlaps (`NoOverlapBelow` in
  `ValidateInv`, for the windows looked at so far).
* `NoteWalkProofs`. Each note moves the cursor by a multiple of four and at least
  twelve bytes, and past the end by at most three: whatever sizes a file claims,
  the walk ends. Over notes the builder wrote, the cursor is always at the start
  of one of them, and the notes found so far are those before it; the bytes at
  the cursor are that note's, unless the cut is in it.
* `MappedImageProofs`. The memory after `n` segments is a function of the image:
  each byte is that of the last of them placed there. The headers go over it, and
  a relocation changes nothing but the word it names: with the entries processed
  so far, such a word is the old number plus the distance between the bases,
  modulo its width (`PointersInv`), and every other byte is the old one. An image
  that was read is what its memory held, byte by byte, but for `written`; from
  this the theorems on sessions follow, and that mapping what was read gives the
  same memory.
* `MappedImageProofs`, linked images. `SectionsSurvive` and `ShiftsAddUp` speak of
  the image the session began with, so their invariant, `OriginInv`, does too:
  the image has the headers of that one (`SameFrame`); if it was read, its
  sections are the ones kept, in order (`Carried`); and its memory is that one's
  but for edits and for pointers, which are off by the distances so far
  (`Moved`). Its second half holds while nothing has touched what describes the
  image. A mapping then leaves the section table, the names and the tables where
  they were (`MemoryStays`), hence each header and its bytes are read as they
  were (`TableFound`, `DataRead`, `SectionsCarried`). A section keeps its
  relocations but not its index: `Traces` says where each comes from, and a word
  that one relocation of the origin names is named by one of the image
  (`IsolatedTraced`), which adds one more distance to it (`MemoryMoved`). That a
  relocation table is among the sections kept is a condition of `ShiftsAddUp`
  which the proof asked for: TLC shows a pointer of a refused one left behind.
* `ElfBuilderProofs`. Each offset is the length of the string table at its time,
  and the table only grows behind it. The segments asked for come first in the
  image, in the order of the requests (`AskedInv`). The image asked about is the
  one assembled, with offsets filled in, but for one write, which changes the
  first loadable segment that covers it (`WrittenInv`); hence `MemoryReported`
  with its conditions, which overlapping loads need: without them TLC finds a
  load that an earlier one hides. The file of a session is one the serializer
  made, and so is the one after it, from the image read from the first
  (`SessionInv`); that they are equal is `SavedIsMadeAgain`, taken from
  `FileLayoutProofs` as an instance.
* `ElfBuilderProofs`, tables. The lists of the finished image are those of the
  requests, end to end (`ListsInv`); a section keeps its bytes unless it is in
  memory and reaches an address written (`SectionsLeft`), a segment that is not
  loaded always does (`NotWritten`). A row of numbers is where it should be in
  the serialized table (`SerializedAt`, over rows of any length and number), and
  the digits read there make the number written, if it fits (`NumberRead`): hence
  `RelocationsReported`. A serialized note is seven parts, of which the walk finds
  each by the sizes in the first (`SevenParts`, `NoteParts`), ending with it
  (`OneNote`); the notes of the image are those of its segments, one in each
  (`NotesJoined`): hence `NotesReported`. A name read at an offset of `.dynstr`
  ends at the first zero, its own or the terminator (`NameFound`), and the rows
  before the first `DT_NULL` are the libraries and two more (`EntriesRead`,
  `LibrariesRead`): hence `NeededReported`. Its condition on the addresses
  written is needed because `.dynstr` claims address 0.

The prover cannot instantiate an induction principle that takes a predicate. One
about a *set* of numbers can be cited, and this is how the proofs induct: the
numbers for which a statement holds contain zero and with each number the next
(`SetInduction` in `ElfFormatProofs`), or those for which it fails have a least
element (`LeastOfSet`, from the library's theorem that inclusion is well-founded
on finite sets). Digits of numbers, the recursive functions of the note walk and
of the layout, and the base of an image are treated so.

Model-checked only:

* liveness (`Terminates` of `read_loop`), which would need `ENABLED`;
* the four violated runs, which are counterexamples.

Every other property of the passing runs is a theorem.

## 5. Not modelled

* Decoding arbitrary bytes as a header, field by field: a header is decoded only
  from the bytes one was encoded to, elsewhere (in mapped memory) it is one of a
  few guesses, none of which is a relocation table. Nor is an `e_shentsize` or
  `e_phentsize` of another size than the structure's.
* The header words of a 32-bit file are assumed to fit (`low32`); numbers in
  tables are cut off as the code cuts them.
* Text: names are byte strings, and the check that they are UTF-8 is left out.
* `soname`, `runpath` and `rpath`: further look-ups in the dynamic table that
  `needed_libraries` reads.
* The tables of `relocation_kind`: which types are relative, and how wide they
  are, are parameters.
* `read_at_ioff` and `contains_ioff_range`, one-line queries of the segments that
  `read_ioff` and `segment_by_ioff` search; the runtime base, a plain field.
* Missing pages under a whole `parse_mapped`: the read loop is checked by itself
  against every source, and `MappedSession` reads memory that is all there.
* Allocation failure, error values and messages.

## 6. What could follow

1. Reading rebased memory with missing pages: `MappedSession` over the sources of
   `ReadLoop`.
2. A saved and reopened image reports no issue that it did not have: `ElfSession`
   composed with `ElfValidate`.
