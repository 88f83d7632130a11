SPECIFICATION FairSpec
CONSTANTS
    t1 = t1  t2 = t2  none = none
    Libraries <- SmallLibraries
    Callers = {t1, t2}
    NoCaller = none
    MaxPending = 2
    Room = 2
    MaxCalls = 3
    MaxNotes = 1
\* Everything may end.
CHECK_DEADLOCK FALSE
INVARIANTS
    AnswerIsMine
    NothingLeftBehind
    AnswerBeatsTheEnd
PROPERTIES
    CallsReturn
