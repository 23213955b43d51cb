SPECIFICATION SessionSpec
CONSTANTS
    U64Max = 63
    EhSize = 2
    PhEntSize = 1
    ShEntSize = 2
    MaxImage = 36
    U16Max = 3
    Datum = {0, 1, 2}
    Names = {shstrtab, text, noname}
    Shstrtab = shstrtab
    Text = text
    NoName = noname
    NameBytes <- MCNameBytes
    MinPage = 4
    Images = {}
    Trailings <- MCTrailings
    LinkedFiles <- MCLinkedFiles
    Offsets = {1, 2, 6}
    Payload <- MCPayload
    MaxOpens = 2
INVARIANT
    RoundTripLossless
