SPECIFICATION Spec
CONSTANTS
    U64Max = 15
    EhSize = 2
    PhEntSize = 1
    ShEntSize = 2
    MaxImage = 14
    U16Max = 3
    Datum = {0, 1}
    Names = {shstrtab}
    Shstrtab = shstrtab
    NameBytes <- MCNameBytes
    MinPage = 4
    Checked <- MCChecked
INVARIANTS
    OverlapsFound
    OverlapsReal
    CleanMeansOneSegment
