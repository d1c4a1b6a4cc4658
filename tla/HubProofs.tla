------------------------------ MODULE HubProofs ------------------------------
(***************************************************************************)
(* Theorems about WebSocketHub for any number of clients, rooms and callers *)
(* and any channel capacities: its types, that the hub goroutine never     *)
(* panics, that a room and its members agree, and which closed clients a   *)
(* room can still hold.                                                    *)
(***************************************************************************)
EXTENDS WebSocketHub, TLAPS

(* Types *)

\* The arithmetic of the two channel lengths, apart from everything else.
LEMMA ChannelLengths ==
    /\ 0 \in 0..SendCap /\ 0 \in 0..BroadcastCap
    /\ \A n \in 0..SendCap : /\ n < SendCap => n + 1 \in 0..SendCap
                             /\ n > 0 => n - 1 \in 0..SendCap
    /\ \A n \in 0..BroadcastCap : /\ n < BroadcastCap => n + 1 \in 0..BroadcastCap
                                  /\ n > 0 => n - 1 \in 0..BroadcastCap
BY HubAssumption

\* A send or a receive on one client channel keeps every length in range.
LEMMA BufType ==
    ASSUME TypeOK, NEW c \in Clients,
           \/ UNCHANGED buf
           \/ buf[c] < SendCap /\ buf' = [buf EXCEPT ![c] = @ + 1]
           \/ buf[c] > 0 /\ buf' = [buf EXCEPT ![c] = @ - 1]
    PROVE  buf' \in [Clients -> 0..SendCap]
BY ChannelLengths DEF TypeOK

LEMMA TypeInit == Init => TypeOK
<1> SUFFICES ASSUME Init PROVE TypeOK
    OBVIOUS
<1>1. buf \in [Clients -> 0..SendCap] /\ broadcast \in 0..BroadcastCap
    BY ChannelLengths DEF Init
<1>2. rooms \in [Rooms -> SUBSET Clients] /\ crooms \in [Clients -> SUBSET Rooms]
    BY DEF Init
<1> QED
    BY <1>1, <1>2 DEF Init, TypeOK

LEMMA TypeNext == TypeOK /\ [Next]_vars => TypeOK'
<1> SUFFICES ASSUME TypeOK, [Next]_vars PROVE TypeOK'
    OBVIOUS
<1> USE DEF TypeOK, hub, ends, app, hist
<1>1. ASSUME NEW c \in Clients, Upgrade(c) PROVE TypeOK'
    BY <1>1 DEF Upgrade
<1>2. ASSUME NEW c \in Clients, Pumps(c) PROVE TypeOK'
  <2>1. buf' \in [Clients -> 0..SendCap]
      BY <1>2, BufType
         DEF Pumps, ReadError, ReadClose, WriteMessage, WriteEnd
  <2> QED
      BY <1>2, <2>1 DEF Pumps, ReadError, ReadClose, WriteMessage, WriteEnd
<1>3. ASSUME NEW c \in Clients, HubReceiveRegister(c) \/ HubReceiveUnregister(c)
      PROVE  TypeOK'
    BY <1>3, HubAssumption DEF HubReceiveRegister, HubReceiveUnregister
<1>4. ASSUME NEW c \in Clients, HubBroadcastTo(c) PROVE TypeOK'
  <2>1. buf' \in [Clients -> 0..SendCap]
      BY <1>4, BufType DEF HubBroadcastTo
  <2>2. CASE ~sendClosed[c] /\ buf[c] < SendCap
      BY <1>4, <2>1, <2>2 DEF HubBroadcastTo
  <2>3. CASE ~(~sendClosed[c] /\ buf[c] < SendCap)
    <3>1. hpc' \in {"panicked", "broadcast"} /\ UNCHANGED hclient
        BY <1>4, <2>3 DEF HubBroadcastTo
    <3>2. /\ sendClosed' = [sendClosed EXCEPT ![c] = TRUE]
          /\ clients' = clients \ {c} /\ evicted' = evicted \cup {c}
        BY <1>4, <2>3 DEF HubBroadcastTo
    <3>3. htodo' \in SUBSET Clients
        BY <1>4 DEF HubBroadcastTo
    <3>4. UNCHANGED <<locking, broadcast, quit, rooms, crooms, ends, app, lateJoin>>
        BY <1>4 DEF HubBroadcastTo
    <3> QED
        BY <2>1, <3>1, <3>2, <3>3, <3>4
  <2> QED
      BY <2>2, <2>3
<1>5. CASE HubLock \/ HubReceiveBroadcast \/ HubBroadcastEnd \/ HubReceiveQuit
    BY <1>5, ChannelLengths DEF HubLock, HubReceiveBroadcast, HubBroadcastEnd, HubReceiveQuit
<1>6. CASE HubRegister
    BY <1>6 DEF HubRegister
<1>7. CASE HubUnregister
  <2>1. CASE hclient \in clients
    <3>1. rooms' \in [Rooms -> SUBSET Clients]
        BY <1>7, <2>1 DEF HubUnregister
    <3>2. hpc' \in {"panicked", "select"}
        BY <1>7, <2>1 DEF HubUnregister
    <3> QED
        BY <1>7, <2>1, <3>1, <3>2 DEF HubUnregister
  <2>2. CASE hclient \notin clients
      BY <1>7, <2>2 DEF HubUnregister
  <2> QED
      BY <2>1, <2>2
<1>8. CASE HubQuit
    BY <1>8 DEF HubQuit
<1>9. CASE CloseHub \/ Broadcast
    BY <1>9, ChannelLengths DEF CloseHub, Broadcast
<1>10. ASSUME NEW c \in Clients, NEW r \in Rooms, JoinRoom(c, r) \/ LeaveRoom(c, r)
       PROVE  TypeOK'
    BY <1>10 DEF JoinRoom, LeaveRoom
<1>11. ASSUME NEW a \in Callers, NEW r \in Rooms, RoomStart(a, r) PROVE TypeOK'
    BY <1>11 DEF RoomStart
<1>12. ASSUME NEW a \in Callers, NEW c \in Clients, RoomSend(a, c) \/ Send(a, c)
       PROVE  TypeOK'
  <2>1. buf' \in [Clients -> 0..SendCap]
      BY <1>12, BufType DEF RoomSend, Send, Push
  <2> QED
      BY <1>12, <2>1 DEF RoomSend, Send
<1>13. ASSUME NEW a \in Callers, RoomEnd(a) PROVE TypeOK'
    BY <1>13 DEF RoomEnd
<1>14. CASE UNCHANGED vars
    BY <1>14 DEF vars
<1> QED
    BY <1>1, <1>2, <1>3, <1>4, <1>5, <1>6, <1>7, <1>8, <1>9, <1>10, <1>11, <1>12,
       <1>13, <1>14 DEF Next, Hub, Caller

\* Every variable keeps its type: no channel ever holds more than its capacity.
THEOREM HubType == Spec => []TypeOK
BY TypeInit, TypeNext, PTL DEF Spec

------------------------------------------------------------------------------
(* The hub goroutine never panics *)

\* A client in h.clients, one the hub is about to add and one it is about to send
\* to have an open channel.  A client whose channel is open and that is not in
\* h.clients has not been registered yet, so it is in no room either.
HubKeepsOpen ==
    /\ hpc # "panicked"
    /\ \A c \in clients : ~sendClosed[c]
    /\ hpc = "broadcast" => htodo \subseteq clients
    /\ \A c \in Clients : ~Known(c) => ~sendClosed[c] /\ c \notin clients /\ crooms[c] = {}
    /\ hpc = "register" => ~sendClosed[hclient] /\ Known(hclient)
    /\ \A c \in Clients :
          Known(c) /\ ~sendClosed[c] => c \in clients \/ (hpc = "register" /\ hclient = c)

LEMMA OpenInit == Init => HubKeepsOpen
BY DEF Init, HubKeepsOpen, Known

LEMMA OpenNext == TypeOK /\ HubKeepsOpen /\ [Next]_vars => HubKeepsOpen'
<1> SUFFICES ASSUME TypeOK, HubKeepsOpen, [Next]_vars PROVE HubKeepsOpen'
    OBVIOUS
<1> USE DEF HubKeepsOpen, Known, hub, ends, app, hist
<1>0. /\ read \in [Clients -> {"new", "registering", "reading", "unregistering",
                               "closing", "ended"}]
      /\ sendClosed \in [Clients -> BOOLEAN]
      /\ crooms \in [Clients -> SUBSET Rooms]
      /\ clients \in SUBSET Clients
      /\ hpc \in {"register", "unregister"} => hclient \in Clients
    BY DEF TypeOK
<1>1. ASSUME NEW c \in Clients, Upgrade(c) PROVE HubKeepsOpen'
    BY <1>0, <1>1 DEF Upgrade
<1>2. ASSUME NEW c \in Clients, Pumps(c) PROVE HubKeepsOpen'
    BY <1>0, <1>2 DEF Pumps, ReadError, ReadClose, WriteMessage, WriteEnd
<1>3. ASSUME NEW c \in Clients, HubReceiveRegister(c) PROVE HubKeepsOpen'
    BY <1>0, <1>3 DEF HubReceiveRegister
<1>4. ASSUME NEW c \in Clients, HubReceiveUnregister(c) PROVE HubKeepsOpen'
    BY <1>0, <1>4 DEF HubReceiveUnregister
<1>5. ASSUME NEW c \in Clients, HubBroadcastTo(c) PROVE HubKeepsOpen'
    BY <1>0, <1>5 DEF HubBroadcastTo
<1>6. CASE HubLock \/ HubReceiveBroadcast \/ HubBroadcastEnd \/ HubReceiveQuit
    BY <1>0, <1>6 DEF HubLock, HubReceiveBroadcast, HubBroadcastEnd, HubReceiveQuit
<1>7. CASE HubRegister
    BY <1>0, <1>7 DEF HubRegister
<1>8. CASE HubUnregister
    BY <1>0, <1>8 DEF HubUnregister
<1>9. CASE HubQuit
    BY <1>0, <1>9 DEF HubQuit
<1>10. CASE CloseHub \/ Broadcast
    BY <1>10 DEF CloseHub, Broadcast
<1>11. ASSUME NEW c \in Clients, NEW r \in Rooms, JoinRoom(c, r) \/ LeaveRoom(c, r)
       PROVE  HubKeepsOpen'
    BY <1>0, <1>11 DEF JoinRoom, LeaveRoom
<1>12. ASSUME NEW a \in Callers, Caller(a) PROVE HubKeepsOpen'
    BY <1>12 DEF Caller, RoomStart, RoomSend, RoomEnd, Send
<1>13. CASE UNCHANGED vars
    BY <1>13 DEF vars
<1> QED
    BY <1>1, <1>2, <1>3, <1>4, <1>5, <1>6, <1>7, <1>8, <1>9, <1>10, <1>11, <1>12,
       <1>13 DEF Next, Hub

\* Whichever of unregister, eviction and quit closes a client's channel, it is
\* closed once and nothing is sent to it by the hub goroutine afterwards.
THEOREM HubGoroutineNeverPanics == Spec => []HubNeverPanics
<1>1. Spec => []HubKeepsOpen
    BY OpenInit, OpenNext, HubType, PTL DEF Spec
<1>2. HubKeepsOpen => HubNeverPanics
    BY DEF HubKeepsOpen, HubNeverPanics
<1> QED
    BY <1>1, <1>2, PTL

------------------------------------------------------------------------------
(* Rooms and their members *)

LEMMA RoomsInit == Init => RoomIndexAgrees /\ StaleMembersExplained
BY DEF Init, RoomIndexAgrees, StaleMembersExplained

LEMMA RoomsNext ==
    /\ TypeOK /\ HubKeepsOpen /\ RoomIndexAgrees /\ StaleMembersExplained
    /\ [Next]_vars
    => RoomIndexAgrees' /\ StaleMembersExplained'
<1> SUFFICES ASSUME TypeOK, HubKeepsOpen, RoomIndexAgrees, StaleMembersExplained,
                    [Next]_vars
             PROVE  RoomIndexAgrees' /\ StaleMembersExplained'
    OBVIOUS
<1> USE DEF RoomIndexAgrees, StaleMembersExplained, hub, ends, app, hist
<1>0. /\ sendClosed \in [Clients -> BOOLEAN]
      /\ rooms \in [Rooms -> SUBSET Clients]
      /\ crooms \in [Clients -> SUBSET Rooms]
      /\ hpc = "unregister" => hclient \in Clients
    BY DEF TypeOK
<1>1. ASSUME UNCHANGED <<rooms, crooms, sendClosed, evicted, lateJoin>>
      PROVE  RoomIndexAgrees' /\ StaleMembersExplained'
    BY <1>1
<1>2. ASSUME NEW c \in Clients, Upgrade(c) \/ Pumps(c)
      PROVE  UNCHANGED <<rooms, crooms, sendClosed, evicted, lateJoin>>
    BY <1>2 DEF Upgrade, Pumps, ReadError, ReadClose, WriteMessage, WriteEnd
<1>3. ASSUME NEW c \in Clients, HubReceiveRegister(c) \/ HubReceiveUnregister(c)
      PROVE  UNCHANGED <<rooms, crooms, sendClosed, evicted, lateJoin>>
    BY <1>3 DEF HubReceiveRegister, HubReceiveUnregister
<1>4. ASSUME NEW c \in Clients, HubBroadcastTo(c)
      PROVE  RoomIndexAgrees' /\ StaleMembersExplained'
    BY <1>0, <1>4 DEF HubBroadcastTo
<1>5. CASE HubLock \/ HubReceiveBroadcast \/ HubBroadcastEnd \/ HubReceiveQuit
              \/ HubRegister
    BY <1>1, <1>5 DEF HubLock, HubReceiveBroadcast, HubBroadcastEnd, HubReceiveQuit,
                      HubRegister
<1>6. ASSUME HubUnregister PROVE RoomIndexAgrees' /\ StaleMembersExplained'
  <2>1. CASE hclient \in clients
    <3>1. ~sendClosed[hclient]
        BY <2>1 DEF HubKeepsOpen
    <3>2. \A r \in Rooms : hclient \notin rooms'[r]
        BY <1>0, <1>6, <2>1, <3>1 DEF HubUnregister
    <3>3. \A c \in Clients \ {hclient}, r \in Rooms :
             /\ c \in rooms'[r] <=> c \in rooms[r]
             /\ sendClosed'[c] = sendClosed[c]
        BY <1>0, <1>6, <2>1 DEF HubUnregister
    <3>4. sendClosed'[hclient] /\ UNCHANGED <<crooms, evicted, lateJoin>>
        BY <1>0, <1>6, <2>1 DEF HubUnregister
    <3> QED
        BY <3>2, <3>3, <3>4
  <2>2. CASE hclient \notin clients
      BY <1>1, <1>6, <2>2 DEF HubUnregister
  <2> QED
      BY <2>1, <2>2
<1>7. ASSUME HubQuit PROVE RoomIndexAgrees' /\ StaleMembersExplained'
  <2>1. \A c \in Clients : ~sendClosed'[c] => ~sendClosed[c] /\ c \notin clients
      BY <1>7 DEF HubQuit
  <2>2. \A c \in Clients : ~sendClosed'[c] => crooms[c] = {}
      BY <1>7, <2>1 DEF HubKeepsOpen, HubQuit
  <2> QED
      BY <1>7, <2>2 DEF HubQuit
<1>8. CASE CloseHub \/ Broadcast
    BY <1>1, <1>8 DEF CloseHub, Broadcast
<1>9. ASSUME NEW c \in Clients, NEW r \in Rooms, JoinRoom(c, r) \/ LeaveRoom(c, r)
      PROVE  RoomIndexAgrees' /\ StaleMembersExplained'
    BY <1>0, <1>9 DEF JoinRoom, LeaveRoom
<1>10. ASSUME NEW a \in Callers, Caller(a)
       PROVE  UNCHANGED <<rooms, crooms, sendClosed, evicted, lateJoin>>
    BY <1>10 DEF Caller, RoomStart, RoomSend, RoomEnd, Send
<1>11. CASE UNCHANGED vars
    BY <1>1, <1>11 DEF vars
<1> QED
    BY <1>1, <1>2, <1>3, <1>4, <1>5, <1>6, <1>7, <1>8, <1>9, <1>10, <1>11
       DEF Next, Hub

\* client.rooms, the only index unregister has, is right for every open client.
THEOREM RoomIndexIsRight == Spec => []RoomIndexAgrees
<1>1. Spec => [](RoomIndexAgrees /\ StaleMembersExplained)
    BY OpenInit, OpenNext, RoomsInit, RoomsNext, HubType, PTL DEF Spec
<1> QED
    BY <1>1, PTL

\* Only an eviction or a late JoinRoom leaves a closed client in a room: the
\* orderly ways out, unregister and quit, do not.
THEOREM OnlyEvictionLeavesStale == Spec => []StaleMembersExplained
<1>1. Spec => [](RoomIndexAgrees /\ StaleMembersExplained)
    BY OpenInit, OpenNext, RoomsInit, RoomsNext, HubType, PTL DEF Spec
<1> QED
    BY <1>1, PTL
==============================================================================
