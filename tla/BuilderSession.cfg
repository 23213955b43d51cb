SPECIFICATION SessionSpec
CONSTANTS
    U64Max = 65535
    EhSize = 2
    PhEntSize = 1
    ShEntSize = 1
    MaxImage = 255
    U16Max = 15
    Datum = {0, 1, 2, 3, 4, 5, 6, 7, 8, 9, 10, 11, 12, 13, 14, 15}
    Names <- MCNames
    NameBytes <- MCNameBytes
    Shstrtab = shstrtab
    NoName = noname
    Dynstr = dynstr
    Dynamic = dynamic
    RelaDyn = reladyn
    NoteGnu = notegnu
    NoteOther = noteother
    Nibble = 4
    Half = 1
    Gnu <- MCGnu
    MinPage = 4
    Formats <- MCFormats
    Entries = {0, 18}
    Loads <- MCLoads
    Templates <- MCTemplates
    NoteSpecs <- MCNoteSpecs
    RelocationLists <- MCRelocationLists
    Libraries <- MCLibraries
    NoteSection <- MCNoteSection
    DefaultAlign = 8
    MaxCalls = 3
    Offsets = {0, 1, 2}
    Payload <- MCPayload
INVARIANTS
    TypeOK
    LibrariesCollected
    NeededReported
    NotesReported
    RelocationsReported
    MemoryReported
    RebuildStable
