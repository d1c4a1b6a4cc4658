----------------------------- MODULE WebSocketHub -----------------------------
(***************************************************************************)
(* core/websocket.go: the hub goroutine, the read and write pump of every  *)
(* connection, and the goroutines that call the hub's methods.             *)
(*                                                                         *)
(* A send channel is its number of buffered messages and whether it is     *)
(* closed; what the messages say is left out.  Register and unregister are *)
(* unbuffered channels: the hub receives from a goroutine that is blocked  *)
(* in its send, then waits for the lock, then does the work.               *)
(***************************************************************************)
EXTENDS Naturals

CONSTANTS Clients,        \* the connections that may be upgraded
          Rooms,
          Callers,        \* goroutines that call BroadcastToRoom and Send
          SendCap,        \* capacity of a client's send channel (256 in the code)
          BroadcastCap,   \* capacity of h.broadcast (256 in the code)
          NoClient

ASSUME HubAssumption == /\ SendCap \in Nat \ {0}
                        /\ BroadcastCap \in Nat \ {0}
                        /\ NoClient \notin Clients

VARIABLES clients,      \* h.clients
          rooms,        \* h.rooms; a room that is not in the map has no members
          broadcast,    \* number of messages in h.broadcast
          quit,         \* h.quit is closed
          hpc,          \* where the hub goroutine stands in run
          hclient,      \* the client it received
          locking,      \* it called h.mu.Lock: new readers have to wait
          htodo,        \* the clients its broadcast loop has yet to visit
          buf,          \* number of messages in each client.send
          sendClosed,   \* client.send is closed
          crooms,       \* client.rooms
          conn,         \* the state of client.conn
          read,         \* where UpgradeWebSocket, then readPump, stands
          write,        \* where writePump stands
          apc,          \* where each caller stands
          todo,         \* the room members its loop has yet to visit
          evicted,      \* history: clients the broadcast loop dropped
          lateJoin      \* history: clients that joined a room after their close

hub  == <<clients, hpc, hclient, locking, htodo, broadcast, quit>>
ends == <<conn, read, write>>
app  == <<apc, todo>>
hist == <<evicted, lateJoin>>
vars == <<hub, rooms, buf, sendClosed, crooms, ends, app, hist>>

TypeOK ==
    /\ clients \in SUBSET Clients
    /\ rooms \in [Rooms -> SUBSET Clients]
    /\ broadcast \in 0..BroadcastCap
    /\ quit \in BOOLEAN
    /\ hpc \in {"select", "register", "unregister", "broadcast", "quit",
                "stopped", "panicked"}
    /\ hclient \in Clients \cup {NoClient}
    /\ hpc \in {"register", "unregister"} => hclient # NoClient
    /\ locking \in BOOLEAN
    /\ htodo \in SUBSET Clients
    /\ buf \in [Clients -> 0..SendCap]
    /\ sendClosed \in [Clients -> BOOLEAN]
    /\ crooms \in [Clients -> SUBSET Rooms]
    /\ conn \in [Clients -> {"none", "open", "closed"}]
    /\ read \in [Clients -> {"new", "registering", "reading", "unregistering",
                             "closing", "ended"}]
    /\ write \in [Clients -> {"new", "running", "ended"}]
    /\ apc \in [Callers -> {"idle", "room", "roomPanic", "sendPanic"}]
    /\ todo \in [Callers -> SUBSET Clients]
    /\ evicted \in SUBSET Clients
    /\ lateJoin \in SUBSET Clients

Init ==
    /\ clients = {}
    /\ rooms = [r \in Rooms |-> {}]
    /\ broadcast = 0
    /\ quit = FALSE
    /\ hpc = "select"
    /\ hclient = NoClient
    /\ locking = FALSE
    /\ htodo = {}
    /\ buf = [c \in Clients |-> 0]
    /\ sendClosed = [c \in Clients |-> FALSE]
    /\ crooms = [c \in Clients |-> {}]
    /\ conn = [c \in Clients |-> "none"]
    /\ read = [c \in Clients |-> "new"]
    /\ write = [c \in Clients |-> "new"]
    /\ apc = [a \in Callers |-> "idle"]
    /\ todo = [a \in Callers |-> {}]
    /\ evicted = {}
    /\ lateJoin = {}

\* h.mu can be locked: neither the broadcast loop nor a BroadcastToRoom reads.
Unlocked == hpc # "broadcast" /\ \A a \in Callers : apc[a] # "room"

\* The caller holds the *WSClient that UpgradeWebSocket returned.
Known(c) == read[c] \notin {"new", "registering"}

------------------------------------------------------------------------------
(* Faulty variants of definitions below, each what a slip in websocket.go would *)
(* make of one of them.  No specification uses them: they serve to show that    *)
(* the properties at the end of the module can fail.                            *)

\* A send that does not look at the capacity of the channel.
PushUnbounded(c) ==
    buf' = IF sendClosed[c] THEN buf ELSE [buf EXCEPT ![c] = @ + 1]

\* The unregister case with what a variant makes of its two branches.
UnregisterVariant(isClient, leaveRooms) ==
    /\ hpc = "unregister"
    /\ locking /\ Unlocked
    /\ locking' = FALSE
    /\ clients' = clients \ {hclient}
    /\ sendClosed' = [sendClosed EXCEPT ![hclient] = @ \/ isClient]
    /\ rooms' = [r \in Rooms |->
                    IF isClient /\ leaveRooms /\ r \in crooms[hclient]
                    THEN rooms[r] \ {hclient} ELSE rooms[r]]
    /\ hpc' = IF isClient /\ sendClosed[hclient] THEN "panicked" ELSE "select"
    /\ hclient' = NoClient
    /\ UNCHANGED <<htodo, broadcast, quit, buf, crooms, ends, app, hist>>

\* It does not ask whether the client is still in h.clients.
UnregisterUnchecked == UnregisterVariant(TRUE, TRUE)

\* It does not walk client.rooms.
UnregisterKeepsRooms == UnregisterVariant(hclient \in clients, FALSE)

\* LeaveRoom without the deletion from client.rooms.
LeaveHalf(c, r) ==
    /\ Known(c)
    /\ Unlocked
    /\ rooms' = [rooms EXCEPT ![r] = @ \ {c}]
    /\ UNCHANGED <<hub, crooms, buf, sendClosed, ends, app, hist>>

\* A broadcast whose eviction closes the channel or not, and goes on as next says.
EvictVariant(c, close, next) ==
    /\ hpc = "broadcast"
    /\ c \in htodo
    /\ htodo' = htodo \ {c}
    /\ IF buf[c] < SendCap
       THEN /\ buf' = [buf EXCEPT ![c] = @ + 1]
            /\ UNCHANGED <<clients, sendClosed, evicted, hpc>>
       ELSE /\ clients' = clients \ {c}
            /\ sendClosed' = [sendClosed EXCEPT ![c] = @ \/ close]
            /\ evicted' = evicted \cup {c}
            /\ hpc' = next
            /\ UNCHANGED buf
    /\ UNCHANGED <<locking, hclient, broadcast, quit, rooms, crooms, ends, app,
                   lateJoin>>

\* It deletes the client and leaves its channel open.
EvictUnclosed(c) == EvictVariant(c, FALSE, hpc)

\* It returns from run.
EvictReturns(c) == EvictVariant(c, TRUE, "stopped")

\* The quit case makes a new map of clients before its loop over the old one.
QuitClearsFirst ==
    /\ hpc = "quit"
    /\ locking /\ Unlocked
    /\ locking' = FALSE
    /\ hpc' = "stopped"
    /\ clients' = {}
    /\ rooms' = [r \in Rooms |-> {}]
    /\ UNCHANGED <<hclient, htodo, broadcast, quit, buf, sendClosed, crooms, ends,
                   app, hist>>

------------------------------------------------------------------------------
(* Connections *)

\* UpgradeWebSocket up to the blocking send on h.register.
Upgrade(c) ==
    /\ read[c] = "new"
    /\ read' = [read EXCEPT ![c] = "registering"]
    /\ conn' = [conn EXCEPT ![c] = "open"]
    /\ UNCHANGED <<hub, rooms, buf, sendClosed, crooms, write, app, hist>>

\* ReadMessage fails: the peer left, the deadline passed or conn was closed.
\* The deferred call blocks in its send on h.unregister.
ReadError(c) ==
    /\ read[c] = "reading"
    /\ read' = [read EXCEPT ![c] = "unregistering"]
    /\ UNCHANGED <<hub, rooms, buf, sendClosed, crooms, conn, write, app, hist>>

\* The rest of the deferred call: conn.Close and onClose.
ReadClose(c) ==
    /\ read[c] = "closing"
    /\ read' = [read EXCEPT ![c] = "ended"]
    /\ conn' = [conn EXCEPT ![c] = "closed"]
    /\ UNCHANGED <<hub, rooms, buf, sendClosed, crooms, write, app, hist>>

\* writePump writes a message to the peer.
WriteMessage(c) ==
    /\ write[c] = "running"
    /\ conn[c] = "open"
    /\ buf[c] > 0
    /\ buf' = [buf EXCEPT ![c] = @ - 1]
    /\ UNCHANGED <<hub, rooms, sendClosed, crooms, ends, app, hist>>

\* writePump returns and closes conn: the channel is closed and drained, or the
\* write of a message (which is consumed) or of a ping fails.
WriteEnd(c) ==
    /\ write[c] = "running"
    /\ \/ UNCHANGED buf
       \/ buf[c] > 0 /\ buf' = [buf EXCEPT ![c] = @ - 1]
    /\ write' = [write EXCEPT ![c] = "ended"]
    /\ conn' = [conn EXCEPT ![c] = "closed"]
    /\ UNCHANGED <<hub, rooms, sendClosed, crooms, read, app, hist>>

------------------------------------------------------------------------------
(* The hub goroutine: each case of its select is a receive, then the work *)

\* The receive lets UpgradeWebSocket go on and start the pumps.
HubReceiveRegister(c) ==
    /\ hpc = "select"
    /\ read[c] = "registering"
    /\ hpc' = "register"
    /\ hclient' = c
    /\ read' = [read EXCEPT ![c] = "reading"]
    /\ write' = [write EXCEPT ![c] = "running"]
    /\ UNCHANGED <<locking, clients, htodo, broadcast, quit, rooms, buf,
                   sendClosed, crooms, conn, app, hist>>

\* The register, unregister and quit cases call h.mu.Lock.
HubLock ==
    /\ hpc \in {"register", "unregister", "quit"}
    /\ locking' = TRUE
    /\ UNCHANGED <<clients, hpc, hclient, htodo, broadcast, quit, rooms, buf,
                   sendClosed, crooms, ends, app, hist>>

HubRegister ==
    /\ hpc = "register"
    /\ locking /\ Unlocked
    /\ locking' = FALSE
    /\ clients' = clients \cup {hclient}
    /\ hpc' = "select"
    /\ hclient' = NoClient
    /\ UNCHANGED <<htodo, broadcast, quit, rooms, buf, sendClosed, crooms, ends,
                   app, hist>>

HubReceiveUnregister(c) ==
    /\ hpc = "select"
    /\ read[c] = "unregistering"
    /\ hpc' = "unregister"
    /\ hclient' = c
    /\ read' = [read EXCEPT ![c] = "closing"]
    /\ UNCHANGED <<locking, clients, htodo, broadcast, quit, rooms, buf,
                   sendClosed, crooms, conn, write, app, hist>>

\* A client that is no longer in h.clients, because it was evicted, is left as
\* it is: in its rooms too.  Closing a closed channel would panic.
HubUnregister ==
    /\ hpc = "unregister"
    /\ locking /\ Unlocked
    /\ locking' = FALSE
    /\ IF hclient \in clients
       THEN /\ clients' = clients \ {hclient}
            /\ sendClosed' = [sendClosed EXCEPT ![hclient] = TRUE]
            /\ rooms' = [r \in Rooms |-> IF r \in crooms[hclient]
                                         THEN rooms[r] \ {hclient} ELSE rooms[r]]
            /\ hpc' = IF sendClosed[hclient] THEN "panicked" ELSE "select"
       ELSE /\ hpc' = "select"
            /\ UNCHANGED <<clients, sendClosed, rooms>>
    /\ hclient' = NoClient
    /\ UNCHANGED <<htodo, broadcast, quit, buf, crooms, ends, app, hist>>

HubReceiveBroadcast ==
    /\ hpc = "select"
    /\ broadcast > 0
    /\ broadcast' = broadcast - 1
    /\ hpc' = "broadcast"
    /\ htodo' = clients
    /\ UNCHANGED <<locking, clients, hclient, quit, rooms, buf, sendClosed,
                   crooms, ends, app, hist>>

\* One turn of the broadcast loop: a full channel is closed and its client
\* dropped from h.clients, but not from its rooms.
HubBroadcastTo(c) ==
    /\ hpc = "broadcast"
    /\ c \in htodo
    /\ htodo' = htodo \ {c}
    /\ IF ~sendClosed[c] /\ buf[c] < SendCap
       THEN /\ buf' = [buf EXCEPT ![c] = @ + 1]
            /\ UNCHANGED <<clients, sendClosed, evicted, hpc>>
       ELSE /\ sendClosed' = [sendClosed EXCEPT ![c] = TRUE]
            /\ clients' = clients \ {c}
            /\ evicted' = evicted \cup {c}
            /\ hpc' = IF sendClosed[c] THEN "panicked" ELSE hpc
            /\ UNCHANGED buf
    /\ UNCHANGED <<locking, hclient, broadcast, quit, rooms, crooms, ends, app,
                   lateJoin>>

HubBroadcastEnd ==
    /\ hpc = "broadcast"
    /\ htodo = {}
    /\ hpc' = "select"
    /\ UNCHANGED <<locking, clients, hclient, htodo, broadcast, quit, rooms,
                   buf, sendClosed, crooms, ends, app, hist>>

HubReceiveQuit ==
    /\ hpc = "select"
    /\ quit
    /\ hpc' = "quit"
    /\ UNCHANGED <<locking, clients, hclient, htodo, broadcast, quit, rooms,
                   buf, sendClosed, crooms, ends, app, hist>>

HubQuit ==
    /\ hpc = "quit"
    /\ locking /\ Unlocked
    /\ locking' = FALSE
    /\ hpc' = IF \E c \in clients : sendClosed[c] THEN "panicked" ELSE "stopped"
    /\ sendClosed' = [c \in Clients |-> sendClosed[c] \/ c \in clients]
    /\ conn' = [c \in Clients |-> IF c \in clients THEN "closed" ELSE conn[c]]
    /\ clients' = {}
    /\ rooms' = [r \in Rooms |-> {}]
    /\ UNCHANGED <<hclient, htodo, broadcast, quit, buf, crooms, read, write,
                   app, hist>>

------------------------------------------------------------------------------
(* The hub's methods, from any goroutine *)

\* Close; once.Do makes the later calls do nothing.
CloseHub ==
    /\ quit' = TRUE
    /\ UNCHANGED <<locking, clients, hpc, hclient, htodo, broadcast, rooms, buf,
                   sendClosed, crooms, ends, app, hist>>

\* Broadcast and BroadcastEvent; with a full channel they drop the message.
Broadcast ==
    /\ broadcast < BroadcastCap
    /\ broadcast' = broadcast + 1
    /\ UNCHANGED <<locking, clients, hpc, hclient, htodo, quit, rooms, buf,
                   sendClosed, crooms, ends, app, hist>>

JoinRoom(c, r) ==
    /\ Known(c)
    /\ Unlocked
    /\ rooms' = [rooms EXCEPT ![r] = @ \cup {c}]
    /\ crooms' = [crooms EXCEPT ![c] = @ \cup {r}]
    /\ lateJoin' = IF sendClosed[c] THEN lateJoin \cup {c} ELSE lateJoin
    /\ UNCHANGED <<hub, buf, sendClosed, ends, app, evicted>>

LeaveRoom(c, r) ==
    /\ Known(c)
    /\ Unlocked
    /\ rooms' = [rooms EXCEPT ![r] = @ \ {c}]
    /\ crooms' = [crooms EXCEPT ![c] = @ \ {r}]
    /\ UNCHANGED <<hub, buf, sendClosed, ends, app, hist>>

\* BroadcastToRoom takes the read lock, which the hub's broadcast loop may hold
\* at the same time; a pending Lock keeps it out.
RoomStart(a, r) ==
    /\ apc[a] = "idle"
    /\ ~locking
    /\ rooms[r] # {}
    /\ apc' = [apc EXCEPT ![a] = "room"]
    /\ todo' = [todo EXCEPT ![a] = rooms[r]]
    /\ UNCHANGED <<hub, rooms, buf, sendClosed, crooms, ends, hist>>

\* A non-blocking send on client.send: a closed channel panics, a full one drops.
Push(c) ==
    buf' = IF ~sendClosed[c] /\ buf[c] < SendCap
           THEN [buf EXCEPT ![c] = @ + 1] ELSE buf

\* One turn of its loop.  A panic unwinds through the deferred RUnlock.
RoomSend(a, c) ==
    /\ apc[a] = "room"
    /\ c \in todo[a]
    /\ Push(c)
    /\ todo' = [todo EXCEPT ![a] = IF sendClosed[c] THEN {} ELSE @ \ {c}]
    /\ apc' = [apc EXCEPT ![a] = IF sendClosed[c] THEN "roomPanic" ELSE @]
    /\ UNCHANGED <<hub, rooms, sendClosed, crooms, ends, hist>>

RoomEnd(a) ==
    /\ apc[a] = "room"
    /\ todo[a] = {}
    /\ apc' = [apc EXCEPT ![a] = "idle"]
    /\ UNCHANGED <<hub, rooms, buf, sendClosed, crooms, ends, todo, hist>>

\* client.Send and client.SendEvent, without any lock.
Send(a, c) ==
    /\ apc[a] = "idle"
    /\ Known(c)
    /\ Push(c)
    /\ apc' = [apc EXCEPT ![a] = IF sendClosed[c] THEN "sendPanic" ELSE @]
    /\ UNCHANGED <<hub, rooms, sendClosed, crooms, ends, todo, hist>>

------------------------------------------------------------------------------

Hub == \/ HubLock \/ HubRegister \/ HubUnregister \/ HubQuit
       \/ HubReceiveBroadcast \/ HubBroadcastEnd \/ HubReceiveQuit
       \/ \E c \in Clients : HubReceiveRegister(c) \/ HubReceiveUnregister(c)
                                \/ HubBroadcastTo(c)

Pumps(c) == ReadError(c) \/ ReadClose(c) \/ WriteMessage(c) \/ WriteEnd(c)

Caller(a) == \/ RoomEnd(a)
             \/ \E r \in Rooms : RoomStart(a, r)
             \/ \E c \in Clients : RoomSend(a, c) \/ Send(a, c)

Next == \/ Hub
        \/ CloseHub
        \/ Broadcast
        \/ \E c \in Clients : Upgrade(c) \/ Pumps(c)
        \/ \E c \in Clients, r \in Rooms : JoinRoom(c, r) \/ LeaveRoom(c, r)
        \/ \E a \in Callers : Caller(a)

Spec == Init /\ [][Next]_vars

\* A read or a ping on a closed conn fails; a closed channel ends the write pump.
ReadMustEnd(c)  == conn[c] = "closed" /\ ReadError(c)
WriteMustEnd(c) == (sendClosed[c] \/ conn[c] = "closed") /\ WriteEnd(c)

\* Running goroutines go on running.  Go's select picks at random among the cases
\* that are ready, hence strong fairness for the hub's receives.  A write ends
\* within its 10 s deadline.  Nobody has to upgrade, broadcast, join or close.
Fairness ==
    /\ SF_vars(HubReceiveBroadcast) /\ SF_vars(HubReceiveQuit)
    /\ WF_vars(HubLock) /\ WF_vars(HubRegister)
    /\ WF_vars(HubUnregister) /\ WF_vars(HubQuit)
    /\ WF_vars(HubBroadcastEnd)
    /\ \A c \in Clients :
          /\ SF_vars(HubReceiveRegister(c)) /\ SF_vars(HubReceiveUnregister(c))
          /\ WF_vars(HubBroadcastTo(c))
          /\ WF_vars(ReadMustEnd(c)) /\ WF_vars(ReadClose(c))
          /\ WF_vars(WriteMessage(c) \/ WriteMustEnd(c))
    /\ \A a \in Callers : WF_vars(RoomEnd(a) \/ \E c \in Clients : RoomSend(a, c))

FairSpec == Spec /\ Fairness

------------------------------------------------------------------------------
(* Safety *)

\* The hub goroutine never closes a closed channel nor sends on one, whichever of
\* its three closers (unregister, eviction, quit) comes first: a panic there would
\* end the process.
HubNeverPanics == hpc # "panicked"

\* Until its channel is closed a client is in a room exactly when the room is in
\* its own set, which is all that unregister consults to remove it.
RoomIndexAgrees ==
    \A c \in Clients, r \in Rooms :
        ~sendClosed[c] => (c \in rooms[r] <=> r \in crooms[c])

\* A room keeps a client whose channel is closed only if the broadcast loop
\* evicted it or it joined afterwards: unregister and quit leave none behind.
StaleMembersExplained ==
    \A c \in Clients, r \in Rooms :
        c \in rooms[r] /\ sendClosed[c] => c \in evicted \cup lateJoin

(* Liveness, under FairSpec *)

\* A client the broadcast loop dropped for being slow loses its connection.
SlowClientDisconnected ==
    \A c \in Clients : c \in evicted ~> conn[c] = "closed"

\* While the hub is not closed, a read pump that ends gets through unregister.
UnregisterServed ==
    \A c \in Clients : read[c] = "unregistering" ~> quit \/ read[c] = "ended"

\* After Close the hub goroutine ends, however many messages keep coming, and every
\* connection is closed, one that is registered after Close too, because select took
\* that case first.  Only a connection whose UpgradeWebSocket never gets through its
\* send on h.register stays open.
HubStops ==
    quit ~> /\ hpc = "stopped"
            /\ \A c \in Clients : conn[c] = "open" => read[c] = "registering"

(* What a comment of websocket.go says, and a run refutes *)

\* "BroadcastToRoom sends a message to all clients in a specific room": it does
\* not say that it panics, on an open hub whose clients joined in good time.
RoomBroadcastReturns ==
    ~quit /\ lateJoin = {} => \A a \in Callers : apc[a] # "roomPanic"
==============================================================================
