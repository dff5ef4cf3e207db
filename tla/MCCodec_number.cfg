\* Leaves that go through an Import with mapFn, of any size.
CONSTANTS
    Origin <- Entries
    AddressLimit = 4
    WeightLimit = 8
    FieldSize = 37
    ByteBase = 4
    HashWidth = 3
    Child <- Children
    IntLimit = 512
    FloatLimit = 8
    ExpLimit = 24
SPECIFICATION Spec
INVARIANTS StringsSurvive
CHECK_DEADLOCK FALSE
