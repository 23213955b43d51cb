SPECIFICATION Spec
CONSTANTS
    U64Max = 15
    EhSize = 2
    PhEntSize = 1
    ShEntSize = 2
    MaxImage = 14
    U16Max = 3
    Datum = {0, 1}
    Names = {shstrtab}
    Shstrtab = shstrtab
    NameBytes <- MCNameBytes
    MinPage = 4
    Images <- MCImages
    Offsets = {0, 1, 2, 3, 4, 5, 6, 7, 12}
    Payload <- MCPayload
INVARIANTS
    ViewsAgree
    ReadsSeeMemory
PROPERTY
    MemorySpec
