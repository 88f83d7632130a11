SPECIFICATION ReplySpec
CONSTANTS
    Half <- FewNumbers
    FixInt = 3
    TrackCapacity = 2
    FixStr = 3
    FixSize = 2
    Documents <- ManyDocuments
    Sources <- ManySources
    SmallFraction = 2
    SkipFraction = 2
    MinReader = 5
    Texts <- SomeTexts
    BufferSize = 3
    MaxKey = 2
    Slots = 2
    MapMax = 7
    ColorMax = 4
    ListMax = 3
    ArrayMax = 5
    ParamMax = 3
    KeyBuffer = 4
    TextBuffer = 4
INVARIANTS
    DeliversTheStream
    TakesOneValue
    HandledInOrder
    FieldsAreSent
CHECK_DEADLOCK FALSE
