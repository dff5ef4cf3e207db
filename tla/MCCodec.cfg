CONSTANTS
    Origin <- Entries
    AddressLimit = 4
    WeightLimit = 8
    FieldSize = 37
    ByteBase = 4
    HashWidth = 3
    Child <- Children
    IntLimit = 512
    FloatLimit = 8
    ExpLimit = 24
SPECIFICATION Spec
INVARIANTS CodecTypeOK LeavesSurvive SizesSurvive PackingAgrees PairsToldApart
CHECK_DEADLOCK FALSE
