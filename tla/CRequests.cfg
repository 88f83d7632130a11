SPECIFICATION RequestSpec
CONSTANTS
    PageSize = 14
    PageHeader = 2
    BuildSize = 4
    Alignment = 2
    MinBuffer = 3
    InitialBuffer = 4
    Sinks <- AllSinks
    FixCount = 1
    TrackCapacity = 2
    LongTag = 3
    Scalars <- SmallScalars
    Counts = {0, 1, 2}
    Failures <- OneFailure
    MaxItems = 40
    MaxFree <- FreeItems
    KeySize <- ShortString
    IntSize <- OneByte
    BlobSize <- LongBin
    PlaceOptions <- SomeOptions
    MaxFlushed = 4
    MaxOpen = 4
INVARIANTS
    Delivered
    FitsIsWritten
    NoPageLeaks
    InsideMemory
    TrackingIsExact
    Understood
CHECK_DEADLOCK FALSE
