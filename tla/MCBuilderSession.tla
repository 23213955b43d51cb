------------------------- MODULE MCBuilderSession ---------------------------
(* Small builders for TLC: bytes of sixteen values, words of two bytes, up   *)
(* to three requests, in the 64-bit big-endian and the 32-bit little-endian  *)
(* class. Loads lie at the addresses the builder gives its own tables and    *)
(* above them; names hold zeros and repeat; a list of relocations has        *)
(* entries the 32-bit class has no room for.                                 *)
EXTENDS BuilderSession

CONSTANTS NoteGnu, NoteOther   \* the names ".note.GNU" and ".note.A"

MCNames == {NoName, Dynstr, Dynamic, RelaDyn, NoteGnu, NoteOther, Shstrtab}
MCNameBytes ==
    [n \in MCNames |->
        CASE n = NoName -> <<>> [] n = Dynstr -> <<<<1>>>> [] n = Dynamic -> <<<<2>>>>
          [] n = RelaDyn -> <<<<3>>>> [] n = NoteGnu -> <<<<4>>>>
          [] n = NoteOther -> <<<<5>>>> [] OTHER -> <<<<6>>>>]

MCGnu   == <<<<7>>>>
MCOther == <<<<8>>, <<9>>>>
MCNoteSection == [n \in {MCGnu, MCOther} |-> IF n = MCGnu THEN NoteGnu ELSE NoteOther]

MCFormats == {<<"Elf64", "Big">>, <<"Elf32", "Little">>}

MCLoads ==
    { [vaddr |-> 1, align |-> 4, data |-> <<<<10>>, <<11>>, <<12>>>>],
      [vaddr |-> 3, align |-> 2, data |-> <<<<9>>, <<8>>>>],
      [vaddr |-> 18, align |-> 4, data |-> <<<<13>>, <<0>>>>] }

MCTemplates == {[vaddr |-> 20, memsz |-> 3, align |-> 2, data |-> <<<<14>>>>]}

MCNoteSpecs ==
    { [name |-> MCGnu, type |-> 3, descriptor |-> <<<<1>>, <<2>>, <<3>>>>],
      [name |-> MCOther, type |-> 3, descriptor |-> <<>>] }

MCRelocationLists ==
    { << [offset |-> 17, symbol |-> 2, type |-> 5, addend |-> {-3}],
         [offset |-> 300, symbol |-> 20, type |-> 18, addend |-> {200}],
         [offset |-> 4, symbol |-> 15, type |-> 15, addend |-> {}] >> }

MCLibraries == { <<<<1>>, <<2>>>>, <<<<3>>, <<0>>, <<4>>>>, <<>> }

MCPayload == { <<<<15>>>>, <<<<15>>, <<1>>>> }

=============================================================================
