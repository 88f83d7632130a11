SPECIFICATION FairSpec
CONSTANTS
    k1 = k1  k2 = k2  k3 = k3
    Conns = {k1, k2}
    Sids = {"s", "t"}
    NoSession = ""
    QueueCap = 2
\* Every connection may have ended.
CHECK_DEADLOCK FALSE
INVARIANTS
    ClientsAreLive
    SessionsDoNotMix
PROPERTIES
    SessionKeepsItsState
    StatefulIsCleanedUp
    AbandonedIsReclaimed
