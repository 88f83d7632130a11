SPECIFICATION Spec
CONSTANTS
    k1 = k1  k2 = k2  k3 = k3
    Conns = {k1, k2, k3}
    Sids = {"s"}
    NoSession = ""
    QueueCap = 2
CHECK_DEADLOCK FALSE
INVARIANT ConnectedAreRegistered
