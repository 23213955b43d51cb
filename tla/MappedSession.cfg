SPECIFICATION SessionSpec
CONSTANTS
    U64Max = 80
    EhSize = 1
    PhEntSize = 1
    ShEntSize = 1
    MaxImage = 45
    U16Max = 7
    Datum = {0, 1, 2, 3, 4, 5, 6, 7, 8}
    Names <- MCNames
    Shstrtab = shstrtab
    Text = text
    Debug = debug
    Dynsym = dynsym
    Dynstr = dynstr
    NameBytes <- MCNameBytes
    MinPage = 4
    Mapped <- MCMapped
    Bases = {5, 12}
    Nibble = 3
    Half = 1
    Gnu <- MCGnu
    Class = "Elf32"
    Order = "Little"
    Width = 2
    Relative = {1}
    Guesses <- MCGuesses
    Offsets = {2, 36}
    Payload <- MCPayload
    MaxRounds = 2
INVARIANTS
    LoadsInMemory
    PointersShiftOnce
    MappingIsStable
    SectionsSurvive
    ShiftsAddUp
    EditsPersist
    LostTableMovesNothing
