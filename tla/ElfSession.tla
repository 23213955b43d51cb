----------------------------- MODULE ElfSession -----------------------------
(* A file saved and opened again (src/src/elf_file.rs): ElfFile::try_build   *)
(* serializes the image, step by step as FileLayout has it, and appends the  *)
(* trailing bytes; ElfFile::parse reads image and trailing bytes back. After *)
(* opening a file the user may overwrite some bytes with write_at_ioff.      *)
EXTENDS FileLayout, ElfParse, ElfAccess

CONSTANTS
    Trailings,   \* the bytes a tool may have appended to a file
    LinkedFiles, \* files some linker wrote, with a layout of its own
    Offsets,     \* where the user writes
    Payload,     \* what the user writes
    MaxOpens     \* bound: how often a file is opened

(* Whoever wrote them, the files opened are bytes that read as an image; the *)
(* user writes raw bytes.                                                    *)
ASSUME SessionAssumption ==
    /\ Trailings \subseteq Seq(Byte)
    /\ \A f \in LinkedFiles, t \in Trailings :
           f \o t \in Seq(Byte) /\ Parsed(f \o t) \in ElfImage
    /\ Offsets \subseteq Nat /\ Payload \subseteq Seq(RawByte)

VARIABLES
    trailing,    \* ElfFile::trailing
    file,        \* the file the image was read from (a history)
    patch,       \* the file bytes <<offset, byte>> the user has written since
    settled,     \* the file is one try_build wrote, from data it can read back
    opens        \* how many files have been opened

session == <<trailing, file, patch, settled, opens>>
allVars == <<vars, session>>

(* ElfFile::read_from: the bytes after the last structure.                   *)
StructureEnd(im) ==
    LET ends == StructureEnds(im.header,
                    {im.segments[i].header : i \in 1..Len(im.segments)},
                    {im.sections[i].header : i \in 1..Len(im.sections)})
    IN  CHOOSE end \in ends : IsLastStructureEnd(end, ends)

WithoutTrailing(bytes) == <<>>           \* a fault
TrailingOf(bytes) == SubSeq(bytes, StructureEnd(Parsed(bytes)) + 1, Len(bytes))

(* ElfFile::try_build, once the image is serialized.                         *)
Saved == out \o trailing

(* A user's image, or a linker's file just opened.                           *)
SessionInit ==
    /\ \/ /\ image \in Images
          /\ trailing \in Trailings
          /\ file = <<>> /\ opens = 0
       \/ \E f \in LinkedFiles, t \in Trailings :
              /\ file = f \o t /\ opens = 1
              /\ image = Parsed(file) /\ trailing = TrailingOf(file)
    /\ Begin
    /\ patch = {}
    /\ settled = FALSE

Save == Next /\ UNCHANGED session

-----------------------------------------------------------------------------
(* Opening the file, and an edit of the image it gives.                      *)

(* The file offsets a write at vaddr stands for: those of the segment's      *)
(* bytes, and those of every section's that takes the write.                 *)
PatchOf(im, ioff, bytes) ==
    LET vaddr == ImageBase(im.segments) + ioff
    IN  (UNION {{<<o, bytes[k]>> : o \in IoffToOffset(im.segments, ioff + k - 1)} :
                   k \in 1..Len(bytes)})
        \cup {<<s.header.offset + (vaddr - s.header.addr) + k - 1, bytes[k]>> :
                  s \in {t \in {im.sections[i] : i \in 1..Len(im.sections)} :
                            Takes(t, vaddr, bytes)},
                  k \in 1..Len(bytes)}

Edited(im, i, vaddr, bytes) ==
    [im EXCEPT !.segments = SegmentsWith(im.segments, i, vaddr, bytes),
               !.sections = SectionsWith(im.sections, vaddr, bytes)]

OpenUnchanged(im) == Restart(im) /\ patch' = {}

OpenAndEdit(im) ==
    \E ioff \in Offsets, bytes \in Payload :
        LET vaddr == ImageBase(im.segments) + ioff
        IN  \E i \in 1..Len(im.segments) :
                /\ Writes(im.segments, i, vaddr, bytes)
                /\ Restart(Edited(im, i, vaddr, bytes))
                /\ patch' = PatchOf(im, ioff, bytes)

(* The data of a NULL segment is written and not read back.                  *)
ReadsBackWhole(im) ==
    \A i \in 1..Len(im.segments) :
        im.segments[i].header.type = "NULL" => im.segments[i].data = <<>>

Reopen ==
    /\ pc = "done" /\ opens < MaxOpens
    /\ Parses(Saved)
    /\ OpenUnchanged(Parsed(Saved)) \/ OpenAndEdit(Parsed(Saved))
    /\ file' = Saved
    /\ trailing' = TrailingOf(Saved)
    /\ settled' = ReadsBackWhole(image)
    /\ opens' = opens + 1

SessionNext == Save \/ Reopen

SessionSpec == SessionInit /\ [][SessionNext]_allVars

-----------------------------------------------------------------------------
(* What is read from a saved file is the image that was saved: the same      *)
(* segments with their file bytes, the same sections under the same names    *)
(* with theirs, in the same order, but for the rebuilt name table.           *)
ReadsBack ==
    pc = "done" =>
        LET im == Parsed(Saved)
        IN  /\ Parses(Saved)
            /\ Len(im.segments) = Len(image.segments)
            /\ \A i \in 1..Len(image.segments) :
                   LET was == image.segments[i]
                       is  == im.segments[i]
                   IN  /\ is.data = IF was.header.type = "NULL" THEN <<>>
                                    ELSE SegmentBytes(was)
                       /\ is.header = PhdrAt(was.header, is.header.offset, is.header.filesz)
            /\ \A i \in 1..Len(image.sections) :
                   LET was == image.sections[i]
                       is  == im.sections[i]
                   IN  /\ is.name = was.name /\ is.header.type = was.header.type
                       /\ is.header.addr = was.header.addr
                       /\ ~IsNobits(was) /\ ~IsShstrtab(was) => is.data = was.data

(* Trailing bytes survive: reading a saved file finds, after the last        *)
(* structure its headers describe, exactly the trailing bytes that were      *)
(* appended (elf_file.rs:3-5, 16-17).                                        *)
TrailingKept == pc = "done" => TrailingOf(Saved) = trailing

Patched(bytes, edits) ==
    [p \in 1..Len(bytes) |->
        IF \E e \in edits : e[1] = p - 1
        THEN (CHOOSE e \in edits : e[1] = p - 1)[2] ELSE bytes[p]]

(* write_at_ioff and ioff_to_offset take the first segment that covers an    *)
(* address, the one in memory and the other in the file; for each byte of a  *)
(* write that is the same one if no loadable segment but those of lower      *)
(* addresses comes before one it shares addresses with.                      *)
FileEnd(segment) == segment.header.vaddr + Len(segment.data)
InOrder(im) ==
    \A i \in 1..Len(im.segments) :
        LET here == im.segments[i]
        IN  IsLoad(here) =>
                /\ FileEnd(here) <= U64Max /\ Len(here.data) <= here.header.memsz
                /\ \A j \in 1..(i - 1) :
                       IsLoad(im.segments[j]) =>
                           \/ im.segments[j].header.vaddr <= here.header.vaddr
                           \/ im.segments[j].header.vaddr >= FileEnd(here)

(* The name table is made anew by each save, edited or not.                  *)
NamesNotLoaded(im) ==
    \A i \in 1..Len(im.sections) :
        IsShstrtab(im.sections[i]) => ~im.sections[i].header.alloc

(* Saving what was opened changes nothing but what the user changed: the new *)
(* file is the old one with the bytes of write_at_ioff replaced where        *)
(* ioff_to_offset and the section headers say they are; no byte moves. The   *)
(* old file is one that try_build wrote (elf_file.rs:104-131, edit.rs:14-40, *)
(* inspect.rs:135-152).                                                      *)
PatchIsExact ==
    pc = "done" /\ settled /\ InOrder(image) /\ NamesNotLoaded(image) =>
        Saved = Patched(file, patch)

(* The same of a file that a linker wrote: "Lossless raw-file round trips    *)
(* through ElfFile, including trailing bytes beyond the last structure when  *)
(* the layout is unchanged" (README.md:22-23).                               *)
RoundTripLossless == pc = "done" /\ opens = 1 /\ patch = {} => Saved = file

=============================================================================
