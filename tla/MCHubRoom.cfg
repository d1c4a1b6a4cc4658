SPECIFICATION Spec
CONSTANTS
    Clients = {c1, c2}
    Rooms = {r1}
    Callers = {a1}
    SendCap = 1
    BroadcastCap = 1
    NoClient = NoClient
\* A hub that stopped, its pumps ended, has nothing left to do.
CHECK_DEADLOCK FALSE
INVARIANT RoomBroadcastReturns
