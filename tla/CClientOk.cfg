SPECIFICATION Spec
CONSTANTS
    t1 = t1  t2 = t2  r = r  none = none
    Threads = {t1, t2}
    Callers = {t1, t2}
    Reader = r
    NoThread = none
    Slots = 2
    Parts = 2
    Room = 4
    Chunk = 3
    MaxCalls = 2
    MaxOneway = 0
    MaxNotes = 0
    MaxFaults = 0
\* The client is freed.
CHECK_DEADLOCK FALSE
INVARIANTS
    OkMeansAnswered
