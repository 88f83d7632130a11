SPECIFICATION Spec
CONSTANTS
    t1 = t1  t2 = t2  r = r  none = none
    Threads = {t1, t2}
    Callers = {t1}
    Reader = r
    NoThread = none
    Slots = 1
    Parts = 2
    Room = 3
    Chunk = 4
    MaxCalls = 3
    MaxOneway = 1
    MaxNotes = 1
    MaxFaults = 1
\* The client is freed.
CHECK_DEADLOCK FALSE
INVARIANTS
    FramesWhole
    MemoryIsOwned
    EveryMessageHandled
    WokenAtTheEnd
PROPERTIES
    RefinesCalls
    CallsReturn
