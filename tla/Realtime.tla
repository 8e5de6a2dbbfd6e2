------------------------------ MODULE Realtime ------------------------------
(***************************************************************************)
(* pkg/realtime: the WebSocket connections of ws/adapter.go, each a read   *)
(* loop, a write loop and a goroutine that waits for the context, beside   *)
(* the registry of memory/registry.go they add their clients to and that   *)
(* the application's handlers, and the rest of the application, ask for    *)
(* rooms, presence and heartbeats.                                         *)
(*                                                                         *)
(* A call whose context is cancelled changes nothing in the registry and   *)
(* is left out, as are an empty id and an empty room.  The adapter has no  *)
(* Lifecycle: it adds and removes the client itself.  What is sent is      *)
(* left out: the write loop has something to write whenever it likes.      *)
(***************************************************************************)
EXTENDS Naturals, FiniteSets

CONSTANTS
    Conns,          \* connections; the client of a connection goes by its name
    Ids,            \* client ids
    Users,          \* ids of users
    Rooms,
    Outside         \* TRUE: the application also calls from outside the handlers

ASSUME RealtimeAssumption ==
    /\ "none" \notin Users
    /\ {"none", "bare"} \intersect Conns = {}
    /\ Outside \in BOOLEAN

VARIABLES
    holder,        \* Store.clients: id -> the client object
    user,          \* id -> the user its client object stands for
    userClients,   \* Store.userClients
    members,       \* Store.rooms
    clientRooms,   \* Store.clientRooms
    heartbeats,    \* the keys of Store.heartbeats
    conn,          \* connection -> its goroutines and its socket
    late,          \* ids asked for while they had no client
    offline        \* ids taken offline by the application

registry == <<holder, user, userClients, members, clientRooms, heartbeats>>
vars == <<registry, conn, late, offline>>

Holders == Conns \union {"none", "bare"}   \* "bare": made by Online, no channel
Anybody == Users \union {"none"}
Readers == {"new", "top", "reading", "handling", "done", "gone"}
Writers == {"idle", "writing", "done"}
Peers == {"up", "silent", "left"}

ConnType == [id : Ids, reader : Readers, writer : Writers, peer : Peers,
             cancelled : BOOLEAN, closed : BOOLEAN]

Init ==
    /\ holder = [i \in Ids |-> "none"]
    /\ user = [i \in Ids |-> "none"]
    /\ userClients = [u \in Users |-> {}]
    /\ members = [r \in Rooms |-> {}]
    /\ clientRooms = [i \in Ids |-> {}]
    /\ heartbeats = {}
    /\ conn \in [Conns -> {c \in ConnType :
                    /\ c.reader = "new" /\ c.writer = "idle" /\ c.peer = "up"
                    /\ ~c.cancelled /\ ~c.closed}]
    /\ late = {}
    /\ offline = {}

-----------------------------------------------------------------------------
(* The registry.                                                           *)

Known(i) == holder[i] # "none"

\* removeIndexesLocked, of the user the client there is has, and then
\* addUserIndexLocked.
Indexed(i, u) ==
    LET was(v) == Known(i) /\ v = user[i]
        left == [v \in Users |-> IF was(v) THEN userClients[v] \ {i} ELSE userClients[v]]
    IN  userClients' = [v \in Users |-> IF v = u THEN left[v] \union {i} ELSE left[v]]

\* removeIndexesLocked leaves the rooms the id is known to be in.
LeavesRooms(i) ==
    /\ members' = [r \in Rooms |-> IF r \in clientRooms[i] THEN members[r] \ {i}
                                                         ELSE members[r]]
    /\ clientRooms' = [clientRooms EXCEPT ![i] = {}]

\* Add: the indexes of the client it replaces are removed, and nothing is when
\* there is none.
Add(i, object, u) ==
    /\ holder' = [holder EXCEPT ![i] = object]
    /\ user' = [user EXCEPT ![i] = u]
    /\ Indexed(i, u)
    /\ IF Known(i) THEN LeavesRooms(i) ELSE UNCHANGED <<members, clientRooms>>
    /\ heartbeats' = heartbeats \union {i}
    /\ UNCHANGED <<late, offline>>

\* Remove: whoever holds the id, and nothing when nobody does.
\* Faulty: the rooms are left as they are.
RemoveKeepsRooms(i) ==
    IF Known(i)
      THEN /\ holder' = [holder EXCEPT ![i] = "none"]
           /\ user' = [user EXCEPT ![i] = "none"]
           /\ Indexed(i, "none")
           /\ heartbeats' = heartbeats \ {i}
           /\ late' = late \ {i}
           /\ UNCHANGED <<members, clientRooms>>
      ELSE UNCHANGED <<registry, late>>
RemoveClient(i) ==
    IF Known(i)
      THEN /\ holder' = [holder EXCEPT ![i] = "none"]
           /\ user' = [user EXCEPT ![i] = "none"]
           /\ Indexed(i, "none")
           /\ LeavesRooms(i)
           /\ heartbeats' = heartbeats \ {i}
           /\ late' = late \ {i}
      ELSE UNCHANGED <<registry, late>>

\* Online: a client is made where there is none; a nil identity leaves the user
\* of one that is there.
\* Faulty: the client stays in the index of the user it was.
OnlineStays(i, u) ==
    /\ holder' = [holder EXCEPT ![i] = IF Known(i) THEN @ ELSE "bare"]
    /\ user' = [user EXCEPT ![i] = u]
    /\ userClients' = [v \in Users |-> IF v = u THEN userClients[v] \union {i}
                                               ELSE userClients[v]]
    /\ IF Known(i) THEN LeavesRooms(i) ELSE UNCHANGED <<members, clientRooms>>
    /\ heartbeats' = heartbeats \union {i}
    /\ UNCHANGED <<conn, late, offline>>
Online(i, u) ==
    /\ holder' = [holder EXCEPT ![i] = IF Known(i) THEN @ ELSE "bare"]
    /\ user' = [user EXCEPT ![i] = u]
    /\ Indexed(i, u)
    /\ IF Known(i) THEN LeavesRooms(i) ELSE UNCHANGED <<members, clientRooms>>
    /\ heartbeats' = heartbeats \union {i}
    /\ UNCHANGED <<conn, late, offline>>

Offline(i) ==
    /\ RemoveClient(i)
    /\ offline' = offline \union {i}
    /\ UNCHANGED conn

\* Heartbeat and Join do not ask whether there is a client.
Late(i) == late' = IF Known(i) THEN late ELSE late \union {i}

Heartbeat(i) ==
    /\ heartbeats' = heartbeats \union {i}
    /\ Late(i)
    /\ UNCHANGED <<holder, user, userClients, members, clientRooms, conn, offline>>

Join(r, i) ==
    /\ members' = [members EXCEPT ![r] = @ \union {i}]
    /\ clientRooms' = [clientRooms EXCEPT ![i] = @ \union {r}]
    /\ Late(i)
    /\ UNCHANGED <<holder, user, userClients, heartbeats, conn, offline>>

\* Leave of one room, or of every room when none is named.
Leave(S, i) ==
    /\ members' = [r \in Rooms |-> IF r \in S THEN members[r] \ {i} ELSE members[r]]
    /\ clientRooms' = [clientRooms EXCEPT ![i] = @ \ S]
    /\ UNCHANGED <<holder, user, userClients, heartbeats, conn, late, offline>>
LeaveRoom(r, i) == Leave({r}, i)
LeaveAll(i) == Leave(clientRooms[i], i)

\* A call of the application for an id.
Call(i) ==
    \/ \E u \in Anybody : Online(i, u)
    \/ Heartbeat(i)
    \/ \E r \in Rooms : Join(r, i) \/ LeaveRoom(r, i)
    \/ LeaveAll(i)

-----------------------------------------------------------------------------
(* A connection.                                                           *)

Live(k) == conn[k].reader \notin {"new", "gone"}

\* ServeConn up to its loops, connect included.
Connect(k) ==
    /\ conn[k].reader = "new"
    /\ \E u \in Anybody : Add(conn[k].id, k, u)
    /\ conn' = [conn EXCEPT ![k].reader = "top"]

Reader(k, from, to) ==
    /\ conn[k].reader = from
    /\ conn' = [conn EXCEPT ![k].reader = to]
    /\ UNCHANGED <<registry, late, offline>>

\* The top of readLoop.
NextRead(k) == ~conn[k].cancelled /\ Reader(k, "top", "reading")

ReadMessage(k) ==
    /\ conn[k].peer = "up" /\ ~conn[k].closed
    /\ Reader(k, "reading", "handling")

\* OnMessage, which may call the registry for the client, and returns.
Handle(k) == conn[k].reader = "handling" /\ Call(conn[k].id)
HandlerReturns(k) == Reader(k, "handling", "top")

\* readLoop returns; Closer.Close cancels the context and closes the socket.
ReadEnds(k) ==
    /\ \/ conn[k].reader = "top" /\ conn[k].cancelled
       \/ conn[k].reader = "reading" /\ (conn[k].closed \/ conn[k].peer = "left")
    /\ conn' = [conn EXCEPT ![k].reader = "done", ![k].cancelled = TRUE,
                            ![k].closed = TRUE]
    /\ UNCHANGED <<registry, late, offline>>

\* The goroutine that waits for the context.
\* Faulty: nobody closes the socket.
AfterCancelIdle(k) ==
    /\ Live(k) /\ conn[k].cancelled /\ ~conn[k].closed
    /\ UNCHANGED vars
AfterCancel(k) ==
    /\ Live(k) /\ conn[k].cancelled /\ ~conn[k].closed
    /\ conn' = [conn EXCEPT ![k].closed = TRUE]
    /\ UNCHANGED <<registry, late, offline>>

\* writeLoop: an event or a ping, or the close message when it is over.
Write(k) ==
    /\ Live(k) /\ conn[k].writer = "idle"
    /\ conn' = [conn EXCEPT ![k].writer = "writing"]
    /\ UNCHANGED <<registry, late, offline>>

Written(k) ==
    /\ Live(k) /\ conn[k].writer = "writing" /\ conn[k].peer = "up" /\ ~conn[k].closed
    /\ conn' = [conn EXCEPT ![k].writer = "idle"]
    /\ UNCHANGED <<registry, late, offline>>

\* A write fails; it may wait for ever on a peer that does not read.
WriteFails(k) ==
    /\ Live(k) /\ conn[k].writer = "writing" /\ (conn[k].closed \/ conn[k].peer = "left")
    /\ conn' = [conn EXCEPT ![k].writer = "done", ![k].cancelled = TRUE,
                            ![k].closed = TRUE]
    /\ UNCHANGED <<registry, late, offline>>

WriterStops(k) ==
    /\ Live(k) /\ conn[k].writer = "idle" /\ conn[k].cancelled
    /\ conn[k].peer = "silent" => conn[k].closed
    /\ conn' = [conn EXCEPT ![k].writer = "done"]
    /\ UNCHANGED <<registry, late, offline>>

\* The end of ServeConn: disconnect.
\* Faulty: the client stays in the registry.
DisconnectForgets(k) ==
    /\ conn[k].reader = "done" /\ conn[k].writer = "done"
    /\ conn' = [conn EXCEPT ![k].reader = "gone"]
    /\ UNCHANGED <<registry, late, offline>>
Disconnect(k) ==
    /\ conn[k].reader = "done" /\ conn[k].writer = "done"
    /\ RemoveClient(conn[k].id)
    /\ conn' = [conn EXCEPT ![k].reader = "gone"]
    /\ UNCHANGED offline

\* The peer closes, or a read deadline passes; or it is no longer heard of, and
\* neither reads nor writes end.  The caller's context ends.
PeerStops(k) ==
    /\ Live(k) /\ conn[k].peer = "up"
    /\ \E p \in {"silent", "left"} : conn' = [conn EXCEPT ![k].peer = p]
    /\ UNCHANGED <<registry, late, offline>>

Cancel(k) ==
    /\ Live(k) /\ ~conn[k].cancelled
    /\ conn' = [conn EXCEPT ![k].cancelled = TRUE]
    /\ UNCHANGED <<registry, late, offline>>

-----------------------------------------------------------------------------

\* The steps of the connection itself.
Step(k) ==
    \/ NextRead(k) \/ HandlerReturns(k) \/ ReadEnds(k) \/ AfterCancel(k)
    \/ Written(k) \/ WriteFails(k) \/ WriterStops(k) \/ Disconnect(k)

Next ==
    \/ \E k \in Conns :
         \/ Connect(k) \/ ReadMessage(k) \/ Handle(k) \/ Write(k)
         \/ PeerStops(k) \/ Cancel(k) \/ Step(k)
    \/ Outside /\ \E i \in Ids : Call(i) \/ Offline(i)

Spec == Init /\ [][Next]_vars

\* Every goroutine that can go on does, and handlers return.
Fairness ==
    \A k \in Conns :
        /\ WF_vars(NextRead(k)) /\ WF_vars(HandlerReturns(k)) /\ WF_vars(ReadEnds(k))
        /\ WF_vars(AfterCancel(k)) /\ WF_vars(Written(k)) /\ WF_vars(WriteFails(k))
        /\ WF_vars(WriterStops(k)) /\ WF_vars(Disconnect(k))

LiveSpec == Spec /\ Fairness

-----------------------------------------------------------------------------
(* Properties.                                                             *)

\* The variables have their types.
TypeOK ==
    /\ holder \in [Ids -> Holders]
    /\ user \in [Ids -> Anybody]
    /\ userClients \in [Users -> SUBSET Ids]
    /\ members \in [Rooms -> SUBSET Ids]
    /\ clientRooms \in [Ids -> SUBSET Rooms]
    /\ heartbeats \subseteq Ids
    /\ conn \in [Conns -> ConnType]
    /\ late \subseteq Ids
    /\ offline \subseteq Ids

\* registry.go: a user's clients are the clients of that user, and an id is a
\* member of the rooms it has joined, whatever was replaced, renamed or removed
\* in between.
IndexesAgree ==
    /\ \A u \in Users, i \in Ids : i \in userClients[u] <=> Known(i) /\ user[i] = u
    /\ \A r \in Rooms, i \in Ids : i \in members[r] <=> r \in clientRooms[i]
    /\ \A i \in Ids : Known(i) => i \in heartbeats

\* Remove, Offline: an id without a client has left nothing behind, but for the
\* rooms and the heartbeat it was given while it had none.
LeftoversAreLate ==
    \A i \in Ids : ~Known(i) /\ i \notin late =>
        i \notin heartbeats /\ clientRooms[i] = {}

\* ServeConn, Remove: the registry holds no client of a connection that has
\* ended, and holds that of every other: but another connection under the same id
\* takes its place, or ends and removes it, and the application takes it offline.
OpenIsRegistered ==
    /\ \A i \in Ids : holder[i] \in Conns => Live(holder[i]) /\ conn[holder[i]].id = i
    /\ \A k \in Conns : Live(k) =>
         \/ holder[conn[k].id] = k
         \/ conn[k].id \in offline
         \/ \E l \in Conns \ {k} : conn[l].id = conn[k].id /\ conn[l].reader # "new"

\* ServeConn, Closer: a connection ends when its peer has left or its context is
\* cancelled, whatever its other goroutines wait for.
Ending(k) ==
    /\ Live(k)
    /\ conn[k].cancelled \/ conn[k].peer = "left"
ConnectionsEnd == \A k \in Conns : Ending(k) ~> (conn[k].reader = "gone")
=============================================================================
