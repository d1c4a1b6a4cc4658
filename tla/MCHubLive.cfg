SPECIFICATION FairSpec
CONSTANTS
    Clients = {c1}
    Rooms = {r1}
    Callers = {a1, a2}
    SendCap = 1
    BroadcastCap = 1
    NoClient = NoClient
\* A hub that stopped, its pumps ended, has nothing left to do.
CHECK_DEADLOCK FALSE
PROPERTIES
    SlowClientDisconnected
    UnregisterServed
    HubStops
