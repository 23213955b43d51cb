SPECIFICATION Spec
CONSTANTS
    U64Max = 63
    EhSize = 2
    PhEntSize = 1
    ShEntSize = 2
    MaxImage = 32
    U16Max = 3
    Datum = {0, 1, 2}
    Names = {shstrtab, dup}
    Shstrtab = shstrtab
    Dup = dup
    NameBytes <- MCNameBytes
    Images <- MCImages
INVARIANTS
    TypeOK
    SegmentsStored
    SectionsStored
    TablesStored
    LoadsCongruent
    LimitRespected
    NamesResolve
    EndsAtLastStructure
PROPERTY
    BytesAreFinal
