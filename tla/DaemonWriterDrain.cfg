SPECIFICATION Spec
CONSTANTS
    c1 = c1  c2 = c2
    Clients = {c1, c2}
    EventsCap = 1
    WritesCap = 1
    MaxRequests = 1
    MaxTicks = 1
\* The daemon exits.
CHECK_DEADLOCK FALSE
INVARIANT ExitsWithACleanScreen
