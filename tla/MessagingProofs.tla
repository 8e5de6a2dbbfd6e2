-------------------------- MODULE MessagingProofs --------------------------
(***************************************************************************)
(* The two components that pass events to whoever is there for them, for   *)
(* any number of connections, ids and rooms, and of buses, subscriptions   *)
(* and events.  They share nothing but this module.                        *)
(*                                                                         *)
(* The registry of Realtime: its indexes agree after any calls of any      *)
(* number of connections, and an id that has no client has left nothing    *)
(* behind; and a connection that is open is registered, or has been        *)
(* replaced.  Each operation of the registry has a lemma; the steps of a   *)
(* connection only use them.                                               *)
(*                                                                         *)
(* EventBus: a subscription handles once what is due to it.  The steps     *)
(* that publish and handle have a lemma each; those of Subscribe, Close    *)
(* and the end of a context only leave what there is, or less (Control).   *)
(***************************************************************************)
EXTENDS Realtime, EventBus, SequenceTheorems, TLAPS

-----------------------------------------------------------------------------
(* Realtime.                                                               *)

RegistryType ==
    /\ holder \in [Ids -> Holders]
    /\ user \in [Ids -> Anybody]
    /\ userClients \in [Users -> SUBSET Ids]
    /\ members \in [Rooms -> SUBSET Ids]
    /\ clientRooms \in [Ids -> SUBSET Rooms]
    /\ heartbeats \subseteq Ids
    /\ late \subseteq Ids

\* What the operations of the registry keep.
StoreOK == RegistryType /\ IndexesAgree /\ LeftoversAreLate

-----------------------------------------------------------------------------
(* The operations.                                                         *)

\* addUserIndexLocked and removeIndexesLocked (registry.go:260 and 271): as the
\* indexes agree, what they remove is all there is of the id.
LEMMA IndexMoves ==
    ASSUME StoreOK, NEW i \in Ids, NEW u, Indexed(i, u)
    PROVE  /\ userClients' \in [Users -> SUBSET Ids]
           /\ \A v \in Users, j \in Ids :
                j \in userClients'[v] <=> (j = i /\ v = u) \/ (j # i /\ j \in userClients[v])
<1>1. \A v \in Users : i \in userClients[v] => Known(i) /\ v = user[i]
  BY DEF StoreOK, IndexesAgree
<1>2. userClients \in [Users -> SUBSET Ids]
  BY DEF StoreOK, RegistryType
<1> QED
  BY <1>1, <1>2 DEF Indexed

LEMMA RoomsAreLeft ==
    ASSUME StoreOK, NEW i \in Ids, LeavesRooms(i)
    PROVE  /\ members' \in [Rooms -> SUBSET Ids]
           /\ clientRooms' \in [Ids -> SUBSET Rooms]
           /\ \A r \in Rooms, j \in Ids : j \in members'[r] <=> r \in clientRooms'[j]
<1>1. \A r \in Rooms, j \in Ids : j \in members[r] <=> r \in clientRooms[j]
  BY DEF StoreOK, IndexesAgree
<1>2. members \in [Rooms -> SUBSET Ids] /\ clientRooms \in [Ids -> SUBSET Rooms]
  BY DEF StoreOK, RegistryType
<1> QED
  BY <1>1, <1>2 DEF LeavesRooms

\* Add (registry.go:35) keeps the indexes.
LEMMA AddKeepsStore ==
    ASSUME StoreOK, NEW i \in Ids, NEW k \in Conns, NEW u \in Anybody, Add(i, k, u)
    PROVE  StoreOK'
<1> USE DEF StoreOK, Add, Known
<1>0. k \in Holders /\ k # "none"
  BY RealtimeAssumption DEF Holders, RealtimeAssumption
<1>1. RegistryType'
  BY <1>0, IndexMoves, RoomsAreLeft DEF RegistryType
<1>2. holder'[i] = k /\ user'[i] = u
  BY DEF RegistryType
<1>3. \A j \in Ids \ {i} : holder'[j] = holder[j] /\ user'[j] = user[j]
  BY DEF RegistryType
<1>4. \A v \in Users, j \in Ids : j \in userClients'[v] <=> (j = i /\ v = u) \/ (j # i /\ j \in userClients[v])
  BY IndexMoves
<1>5. ASSUME NEW v \in Users, NEW j \in Ids
      PROVE  j \in userClients'[v] <=> holder'[j] # "none" /\ user'[j] = v
  <2>1. CASE j = i
    BY <1>0, <1>2, <1>4, <2>1
  <2>2. CASE j # i
    BY <1>3, <1>4, <2>2 DEF IndexesAgree
  <2> QED
    BY <2>1, <2>2
<1>6. ASSUME NEW r \in Rooms, NEW j \in Ids
      PROVE  j \in members'[r] <=> r \in clientRooms'[j]
  <2>1. CASE holder[i] = "none"
    BY <2>1 DEF IndexesAgree
  <2>2. CASE holder[i] # "none"
    BY <2>2, RoomsAreLeft
  <2> QED
    BY <2>1, <2>2
<1>7. \A j \in Ids : holder'[j] # "none" => j \in heartbeats'
  BY <1>3 DEF IndexesAgree
<1>8. ASSUME NEW j \in Ids, holder'[j] = "none", j \notin late'
      PROVE  j \notin heartbeats' /\ clientRooms'[j] = {}
  <2>1. j # i
    BY <1>0, <1>2, <1>8
  <2>2. j \notin heartbeats /\ clientRooms[j] = {}
    BY <1>3, <1>8, <2>1 DEF LeftoversAreLate
  <2>3. clientRooms'[j] = clientRooms[j]
    BY <2>1 DEF LeavesRooms, RegistryType
  <2> QED
    BY <2>1, <2>2, <2>3
<1>9. IndexesAgree'
  BY <1>5, <1>6, <1>7 DEF IndexesAgree
<1>10. LeftoversAreLate'
  BY <1>8 DEF LeftoversAreLate
<1> QED
  BY <1>1, <1>9, <1>10

\* Remove (registry.go:68) keeps them, and its id has nothing left.
LEMMA RemoveKeepsStore ==
    ASSUME StoreOK, NEW i \in Ids, RemoveClient(i)
    PROVE  StoreOK'
<1> USE DEF StoreOK, Known
<1>1. CASE holder[i] = "none"
  <2>1. UNCHANGED <<registry, late>>
    BY <1>1 DEF RemoveClient
  <2> QED
    BY <2>1 DEF registry, RegistryType, IndexesAgree, LeftoversAreLate
<1>2. CASE holder[i] # "none"
  <2>0. /\ holder' = [holder EXCEPT ![i] = "none"]
        /\ user' = [user EXCEPT ![i] = "none"]
        /\ Indexed(i, "none")
        /\ LeavesRooms(i)
        /\ heartbeats' = heartbeats \ {i}
        /\ late' = late \ {i}
    BY <1>2 DEF RemoveClient
  <2>1. RegistryType'
    BY <2>0, IndexMoves, RoomsAreLeft DEF RegistryType, Holders, Anybody
  <2>2. holder'[i] = "none"
    BY <2>0 DEF RegistryType
  <2>3. \A j \in Ids \ {i} : holder'[j] = holder[j] /\ user'[j] = user[j]
    BY <2>0 DEF RegistryType
  <2>4. \A v \in Users, j \in Ids : j \in userClients'[v] <=> j # i /\ j \in userClients[v]
    BY <2>0, IndexMoves, RealtimeAssumption DEF RealtimeAssumption
  <2>5. \A v \in Users, j \in Ids : j \in userClients'[v] <=> holder'[j] # "none" /\ user'[j] = v
    BY <2>2, <2>3, <2>4 DEF IndexesAgree
  <2>6. \A r \in Rooms, j \in Ids : j \in members'[r] <=> r \in clientRooms'[j]
    BY <2>0, RoomsAreLeft
  <2>7. \A j \in Ids : holder'[j] # "none" => j \in heartbeats'
    BY <2>0, <2>2, <2>3 DEF IndexesAgree
  <2>8. ASSUME NEW j \in Ids, holder'[j] = "none", j \notin late'
        PROVE  j \notin heartbeats' /\ clientRooms'[j] = {}
    <3>1. CASE j = i
      BY <2>0, <3>1 DEF LeavesRooms, RegistryType
    <3>2. CASE j # i
      <4>1. j \notin late /\ holder[j] = "none"
        BY <2>0, <2>3, <2>8, <3>2
      <4>2. clientRooms'[j] = clientRooms[j]
        BY <2>0, <3>2 DEF LeavesRooms, RegistryType
      <4> QED
        BY <2>0, <4>1, <4>2 DEF LeftoversAreLate
    <3> QED
      BY <3>1, <3>2
  <2>9. IndexesAgree'
    BY <2>5, <2>6, <2>7 DEF IndexesAgree
  <2>10. LeftoversAreLate'
    BY <2>8 DEF LeftoversAreLate
  <2> QED
    BY <2>1, <2>9, <2>10
<1> QED
  BY <1>1, <1>2

\* Online (registry.go:121) keeps them: a client that changes its user changes
\* its place in the index.
LEMMA OnlineKeepsStore ==
    ASSUME StoreOK, NEW i \in Ids, NEW u \in Anybody, Online(i, u)
    PROVE  StoreOK'
<1> USE DEF StoreOK, Online, Known
<1>0. holder' = [holder EXCEPT ![i] = IF holder[i] # "none" THEN holder[i] ELSE "bare"]
  OBVIOUS
<1>1. RegistryType'
  <2>1. holder' \in [Ids -> Holders]
    BY <1>0 DEF RegistryType, Holders
  <2> QED
    BY <2>1, IndexMoves, RoomsAreLeft DEF RegistryType
<1>2. holder'[i] # "none" /\ user'[i] = u
  BY <1>0 DEF RegistryType
<1>3. \A j \in Ids \ {i} : holder'[j] = holder[j] /\ user'[j] = user[j]
  BY <1>0 DEF RegistryType
<1>4. \A v \in Users, j \in Ids : j \in userClients'[v] <=> (j = i /\ v = u) \/ (j # i /\ j \in userClients[v])
  BY IndexMoves
<1>5. ASSUME NEW v \in Users, NEW j \in Ids
      PROVE  j \in userClients'[v] <=> holder'[j] # "none" /\ user'[j] = v
  <2>1. CASE j = i
    BY <1>2, <1>4, <2>1
  <2>2. CASE j # i
    BY <1>3, <1>4, <2>2 DEF IndexesAgree
  <2> QED
    BY <2>1, <2>2
<1>6. ASSUME NEW r \in Rooms, NEW j \in Ids
      PROVE  j \in members'[r] <=> r \in clientRooms'[j]
  <2>1. CASE holder[i] = "none"
    BY <2>1 DEF IndexesAgree
  <2>2. CASE holder[i] # "none"
    BY <2>2, RoomsAreLeft
  <2> QED
    BY <2>1, <2>2
<1>7. \A j \in Ids : holder'[j] # "none" => j \in heartbeats'
  BY <1>3 DEF IndexesAgree
<1>8. ASSUME NEW j \in Ids, holder'[j] = "none", j \notin late'
      PROVE  j \notin heartbeats' /\ clientRooms'[j] = {}
  <2>1. j # i
    BY <1>2, <1>8
  <2>2. j \notin heartbeats /\ clientRooms[j] = {}
    BY <1>3, <1>8, <2>1 DEF LeftoversAreLate
  <2>3. clientRooms'[j] = clientRooms[j]
    BY <2>1 DEF LeavesRooms, RegistryType
  <2> QED
    BY <2>1, <2>2, <2>3
<1>9. IndexesAgree'
  BY <1>5, <1>6, <1>7 DEF IndexesAgree
<1>10. LeftoversAreLate'
  BY <1>8 DEF LeftoversAreLate
<1> QED
  BY <1>1, <1>9, <1>10

\* Heartbeat, Join and Leave (registry.go:156, 182 and 205) keep them; what is
\* given to an id without a client is late.
LEMMA HeartbeatKeepsStore ==
    ASSUME StoreOK, NEW i \in Ids, Heartbeat(i)
    PROVE  StoreOK'
<1>1. RegistryType'
  BY DEF StoreOK, RegistryType, Heartbeat, Late
<1>2. IndexesAgree'
  BY DEF StoreOK, IndexesAgree, Heartbeat, Known
<1>3. LeftoversAreLate'
  BY DEF StoreOK, LeftoversAreLate, Heartbeat, Late, Known, IndexesAgree
<1> QED
  BY <1>1, <1>2, <1>3 DEF StoreOK

LEMMA JoinKeepsStore ==
    ASSUME StoreOK, NEW i \in Ids, NEW r \in Rooms, Join(r, i)
    PROVE  StoreOK'
<1>1. RegistryType'
  BY DEF StoreOK, RegistryType, Join, Late
<1>2. \A q \in Rooms, j \in Ids : j \in members'[q] <=> q \in clientRooms'[j]
  BY DEF StoreOK, RegistryType, IndexesAgree, Join
<1>3. IndexesAgree'
  BY <1>2 DEF StoreOK, IndexesAgree, Join, Known
<1>4. ASSUME NEW j \in Ids, holder'[j] = "none", j \notin late'
      PROVE  j \notin heartbeats' /\ clientRooms'[j] = {}
  <2>1. j # i
    BY <1>4 DEF Join, Late, Known
  <2>2. j \notin heartbeats /\ clientRooms[j] = {}
    BY <1>4 DEF Join, Late, Known, StoreOK, LeftoversAreLate
  <2> QED
    BY <2>1, <2>2 DEF Join, StoreOK, RegistryType
<1>5. LeftoversAreLate'
  BY <1>4 DEF LeftoversAreLate, Known
<1> QED
  BY <1>1, <1>3, <1>5 DEF StoreOK

LEMMA LeaveKeepsStore ==
    ASSUME StoreOK, NEW i \in Ids, NEW S \in SUBSET Rooms,
           Leave(S, i)
    PROVE  StoreOK'
<1>1. RegistryType'
  BY DEF StoreOK, RegistryType, Leave
<1>2. \A q \in Rooms, j \in Ids : j \in members'[q] <=> q \in clientRooms'[j]
  BY DEF StoreOK, RegistryType, IndexesAgree, Leave
<1>3. IndexesAgree'
  BY <1>2 DEF StoreOK, IndexesAgree, Leave, Known
<1>4. \A j \in Ids : clientRooms[j] = {} => clientRooms'[j] = {}
  BY DEF Leave, StoreOK, RegistryType
<1>5. LeftoversAreLate'
  BY <1>4 DEF LeftoversAreLate, Known, Leave, StoreOK
<1> QED
  BY <1>1, <1>3, <1>5 DEF StoreOK

\* Whatever the application calls for an id; no connection loses its place by it.
Steady ==
    /\ \A j \in Ids : holder'[j] = holder[j] \/ (holder[j] = "none" /\ holder'[j] = "bare")
    /\ UNCHANGED <<conn, offline>>

LEMMA CallKeepsStore ==
    ASSUME StoreOK, NEW i \in Ids, Call(i)
    PROVE  StoreOK' /\ Steady
<1>1. ASSUME NEW u \in Anybody, Online(i, u)
      PROVE  StoreOK' /\ Steady
  <2>1. StoreOK'
    BY <1>1, OnlineKeepsStore
  <2>2. holder' = [holder EXCEPT ![i] = IF holder[i] # "none" THEN holder[i] ELSE "bare"]
    BY <1>1 DEF Online, Known
  <2>3. holder \in [Ids -> Holders]
    BY DEF StoreOK, RegistryType
  <2>4. \A j \in Ids : holder'[j] = holder[j] \/ (holder[j] = "none" /\ holder'[j] = "bare")
    BY <2>2, <2>3
  <2> QED
    BY <1>1, <2>1, <2>4 DEF Online, Steady
<1>2. ASSUME Heartbeat(i)
      PROVE  StoreOK' /\ Steady
  <2>1. StoreOK'
    BY <1>2, HeartbeatKeepsStore
  <2> QED
    BY <1>2, <2>1 DEF Heartbeat, Steady
<1>3. ASSUME NEW r \in Rooms, Join(r, i)
      PROVE  StoreOK' /\ Steady
  <2>1. StoreOK'
    BY <1>3, JoinKeepsStore
  <2> QED
    BY <1>3, <2>1 DEF Join, Steady
<1>4. ASSUME NEW S \in SUBSET Rooms, Leave(S, i)
      PROVE  StoreOK' /\ Steady
  <2>1. StoreOK'
    BY <1>4, LeaveKeepsStore
  <2> QED
    BY <1>4, <2>1 DEF Leave, Steady
<1>5. ASSUME NEW r \in Rooms, LeaveRoom(r, i)
      PROVE  StoreOK' /\ Steady
  <2>1. Leave({r}, i) /\ {r} \in SUBSET Rooms
    BY <1>5 DEF LeaveRoom
  <2> QED
    BY <1>4, <2>1
<1>6. ASSUME LeaveAll(i)
      PROVE  StoreOK' /\ Steady
  <2>1. Leave(clientRooms[i], i)
    BY <1>6 DEF LeaveAll
  <2>2. clientRooms[i] \in SUBSET Rooms
    BY DEF StoreOK, RegistryType
  <2> QED
    BY <1>4, <2>1, <2>2
<1> QED
  BY <1>1, <1>2, <1>3, <1>5, <1>6 DEF Call

-----------------------------------------------------------------------------
(* The connections.                                                        *)

Inv ==
    /\ StoreOK
    /\ conn \in [Conns -> ConnType]
    /\ offline \subseteq Ids
    /\ OpenIsRegistered

\* A step of a connection that is open and stays so.
Goes(k) ==
    /\ Live(k)
    /\ \E c \in ConnType : /\ c.id = conn[k].id
                           /\ c.reader \notin {"new", "gone"}
                           /\ conn' = [conn EXCEPT ![k] = c]
    /\ UNCHANGED <<registry, late, offline>>

\* The goroutines of ServeConn take such steps but for its last.
LEMMA StepsGo ==
    ASSUME Inv, NEW k \in Conns,
           \/ NextRead(k) \/ ReadMessage(k) \/ HandlerReturns(k) \/ ReadEnds(k)
           \/ AfterCancel(k) \/ Write(k) \/ Written(k) \/ WriteFails(k)
           \/ WriterStops(k) \/ PeerStops(k) \/ Cancel(k)
    PROVE  Goes(k)
<1>0. conn \in [Conns -> ConnType] /\ conn[k] \in ConnType
  BY DEF Inv
<1> USE DEF Live
<1>a. Live(k)
  BY DEF NextRead, ReadMessage, HandlerReturns, Reader, ReadEnds, AfterCancel, Write,
         Written, WriteFails, WriterStops, PeerStops, Cancel
<1>1. ASSUME NEW c \in ConnType, c.id = conn[k].id, c.reader \notin {"new", "gone"},
             conn' = [conn EXCEPT ![k] = c], UNCHANGED <<registry, late, offline>>
      PROVE  Goes(k)
  BY <1>1, <1>a DEF Goes
<1>2. ASSUME NEW from, NEW to \in Readers \ {"new", "gone"}, Reader(k, from, to)
      PROVE  Goes(k)
  <2> DEFINE c == [conn[k] EXCEPT !.reader = to]
  <2>1. c \in ConnType /\ c.id = conn[k].id /\ c.reader = to
    BY <1>0 DEF ConnType
  <2>2. conn' = [conn EXCEPT ![k] = c] /\ UNCHANGED <<registry, late, offline>>
    BY <1>2 DEF Reader
  <2> QED
    BY <1>1, <2>1, <2>2
<1>3. CASE NextRead(k)
  BY <1>2, <1>3 DEF NextRead, Readers
<1>4. CASE ReadMessage(k)
  BY <1>2, <1>4 DEF ReadMessage, Readers
<1>5. CASE HandlerReturns(k)
  BY <1>2, <1>5 DEF HandlerReturns, Readers
<1>6. CASE ReadEnds(k)
  <2> DEFINE c == [conn[k] EXCEPT !.reader = "done", !.cancelled = TRUE, !.closed = TRUE]
  <2>1. c \in ConnType /\ c.id = conn[k].id /\ c.reader = "done"
    BY <1>0 DEF ConnType, Readers
  <2>2. conn' = [conn EXCEPT ![k] = c] /\ UNCHANGED <<registry, late, offline>>
    BY <1>6 DEF ReadEnds
  <2> QED
    BY <1>1, <2>1, <2>2
<1>7. CASE AfterCancel(k)
  <2> DEFINE c == [conn[k] EXCEPT !.closed = TRUE]
  <2>1. c \in ConnType /\ c.id = conn[k].id /\ c.reader = conn[k].reader
    BY <1>0 DEF ConnType
  <2>2. conn' = [conn EXCEPT ![k] = c] /\ UNCHANGED <<registry, late, offline>>
    BY <1>7 DEF AfterCancel
  <2> QED
    BY <1>1, <1>a, <2>1, <2>2
<1>8. ASSUME NEW w \in Writers,
             conn' = [conn EXCEPT ![k].writer = w], UNCHANGED <<registry, late, offline>>
      PROVE  Goes(k)
  <2> DEFINE c == [conn[k] EXCEPT !.writer = w]
  <2>1. c \in ConnType /\ c.id = conn[k].id /\ c.reader = conn[k].reader
    BY <1>0 DEF ConnType
  <2>2. conn' = [conn EXCEPT ![k] = c] /\ UNCHANGED <<registry, late, offline>>
    BY <1>8
  <2> QED
    BY <1>1, <1>a, <2>1, <2>2
<1>9. CASE Write(k)
  BY <1>8, <1>9 DEF Write, Writers
<1>10. CASE Written(k)
  BY <1>8, <1>10 DEF Written, Writers
<1>11. CASE WriteFails(k)
  <2> DEFINE c == [conn[k] EXCEPT !.writer = "done", !.cancelled = TRUE, !.closed = TRUE]
  <2>1. c \in ConnType /\ c.id = conn[k].id /\ c.reader = conn[k].reader
    BY <1>0 DEF ConnType, Writers
  <2>2. conn' = [conn EXCEPT ![k] = c] /\ UNCHANGED <<registry, late, offline>>
    BY <1>11 DEF WriteFails
  <2> QED
    BY <1>1, <1>a, <2>1, <2>2
<1>12. CASE WriterStops(k)
  BY <1>8, <1>12 DEF WriterStops, Writers
<1>13. CASE PeerStops(k)
  <2>1. PICK p \in {"silent", "left"} : conn' = [conn EXCEPT ![k].peer = p]
    BY <1>13 DEF PeerStops
  <2> DEFINE c == [conn[k] EXCEPT !.peer = p]
  <2>2. c \in ConnType /\ c.id = conn[k].id /\ c.reader = conn[k].reader
    BY <1>0 DEF ConnType, Peers
  <2>3. conn' = [conn EXCEPT ![k] = c] /\ UNCHANGED <<registry, late, offline>>
    BY <1>13, <2>1 DEF PeerStops
  <2> QED
    BY <1>1, <1>a, <2>2, <2>3
<1>14. CASE Cancel(k)
  <2> DEFINE c == [conn[k] EXCEPT !.cancelled = TRUE]
  <2>1. c \in ConnType /\ c.id = conn[k].id /\ c.reader = conn[k].reader
    BY <1>0 DEF ConnType
  <2>2. conn' = [conn EXCEPT ![k] = c] /\ UNCHANGED <<registry, late, offline>>
    BY <1>14 DEF Cancel
  <2> QED
    BY <1>1, <1>a, <2>1, <2>2
<1> QED
  BY <1>3, <1>4, <1>5, <1>6, <1>7, <1>9, <1>10, <1>11, <1>12, <1>13, <1>14

LEMMA GoingKeepsInv ==
    ASSUME Inv, NEW k \in Conns, Goes(k)
    PROVE  Inv'
<1>1. PICK c \in ConnType : /\ c.id = conn[k].id
                            /\ c.reader \notin {"new", "gone"}
                            /\ conn' = [conn EXCEPT ![k] = c]
  BY DEF Goes
<1>2. StoreOK' /\ holder' = holder /\ offline' = offline
  BY DEF Inv, Goes, StoreOK, registry, RegistryType, IndexesAgree, LeftoversAreLate, Known
<1>3. conn \in [Conns -> ConnType]
  BY DEF Inv
<1>4. conn' \in [Conns -> ConnType] /\ conn'[k] = c /\ \A l \in Conns \ {k} : conn'[l] = conn[l]
  BY <1>1, <1>3
<1>5. \A l \in Conns : /\ conn'[l].id = conn[l].id
                       /\ conn'[l].reader \notin {"new", "gone"} <=> conn[l].reader \notin {"new", "gone"}
                       /\ conn'[l].reader # "new" <=> conn[l].reader # "new"
  BY <1>1, <1>4 DEF Goes, Live
<1>6. OpenIsRegistered'
  BY <1>2, <1>5 DEF Inv, OpenIsRegistered, Live
<1> QED
  BY <1>2, <1>4, <1>6 DEF Inv

\* The calls of the application, from a handler or from outside.
LEMMA CallKeepsInv ==
    ASSUME Inv, NEW i \in Ids, Call(i)
    PROVE  Inv'
<1>1. StoreOK' /\ Steady
  BY CallKeepsStore DEF Inv
<1>2. \A j \in Ids : holder'[j] \in Conns => holder'[j] = holder[j]
  BY <1>1, RealtimeAssumption DEF Steady, RealtimeAssumption
<1>3. \A j \in Ids : holder[j] \in Conns => holder'[j] = holder[j]
  BY <1>1, RealtimeAssumption DEF Steady, RealtimeAssumption
<1>4. \A k \in Conns : conn[k].id \in Ids
  BY DEF Inv, ConnType
<1>5. OpenIsRegistered'
  BY <1>1, <1>2, <1>3, <1>4 DEF Inv, OpenIsRegistered, Live, Steady
<1> QED
  BY <1>1, <1>5 DEF Inv, Steady

LEMMA OfflineKeepsInv ==
    ASSUME Inv, NEW i \in Ids, Offline(i)
    PROVE  Inv'
<1>1. StoreOK'
  BY RemoveKeepsStore DEF Inv, Offline
<1>2. \A j \in Ids : holder'[j] = holder[j] \/ (j = i /\ holder'[j] = "none")
  BY DEF Offline, RemoveClient, registry, Inv, StoreOK, RegistryType
<1>3. offline' = offline \union {i} /\ conn' = conn
  BY DEF Offline
<1>4. \A k \in Conns : conn[k].id \in Ids
  BY DEF Inv, ConnType
<1>5. OpenIsRegistered'
  BY <1>2, <1>3, <1>4, RealtimeAssumption
  DEF Inv, OpenIsRegistered, Live, RealtimeAssumption
<1> QED
  BY <1>1, <1>3, <1>5 DEF Inv

\* Connect takes the place of whoever holds the id.
LEMMA ConnectKeepsInv ==
    ASSUME Inv, NEW k \in Conns, Connect(k)
    PROVE  Inv'
<1>0. conn \in [Conns -> ConnType] /\ conn[k].id \in Ids
  BY DEF Inv, ConnType
<1>1. PICK u \in Anybody : Add(conn[k].id, k, u)
  BY DEF Connect
<1>2. StoreOK'
  BY <1>0, <1>1, AddKeepsStore DEF Inv
<1>3. offline' = offline /\ holder' = [holder EXCEPT ![conn[k].id] = k]
  BY <1>1 DEF Add
<1>4. conn[k].reader = "new" /\ conn' = [conn EXCEPT ![k].reader = "top"]
  BY DEF Connect
<1> DEFINE c == [conn[k] EXCEPT !.reader = "top"]
<1>5. c \in ConnType /\ c.id = conn[k].id /\ c.reader = "top"
  BY <1>0 DEF ConnType, Readers
<1>6. conn' = [conn EXCEPT ![k] = c]
  BY <1>4
<1>7. /\ conn' \in [Conns -> ConnType]
      /\ conn'[k].id = conn[k].id /\ conn'[k].reader = "top"
      /\ \A l \in Conns \ {k} : conn'[l] = conn[l]
  <2> HIDE DEF c
  <2> QED
    BY <1>0, <1>5, <1>6
<1>8. /\ holder'[conn[k].id] = k
      /\ \A j \in Ids \ {conn[k].id} : holder'[j] = holder[j]
  BY <1>0, <1>3 DEF Inv, StoreOK, RegistryType
<1>9. ASSUME NEW j \in Ids, holder'[j] \in Conns
      PROVE  conn'[holder'[j]].reader \notin {"new", "gone"} /\ conn'[holder'[j]].id = j
  <2>1. CASE j = conn[k].id
    BY <1>7, <1>8, <2>1
  <2>2. CASE j # conn[k].id
    <3>1. holder'[j] = holder[j]
      BY <1>8, <2>2
    <3>2. conn[holder[j]].reader \notin {"new", "gone"} /\ conn[holder[j]].id = j
      BY <1>9, <3>1 DEF Inv, OpenIsRegistered, Live
    <3>3. holder[j] # k
      BY <1>4, <3>2
    <3> QED
      BY <1>7, <1>9, <3>1, <3>2, <3>3
  <2> QED
    BY <2>1, <2>2
<1>10. ASSUME NEW l \in Conns, conn'[l].reader \notin {"new", "gone"}
       PROVE  \/ holder'[conn'[l].id] = l
              \/ conn'[l].id \in offline'
              \/ \E m \in Conns \ {l} : conn'[m].id = conn'[l].id /\ conn'[m].reader # "new"
  <2>1. CASE l = k
    BY <1>7, <1>8, <2>1
  <2>2. CASE l # k /\ conn[l].id = conn[k].id
    BY <1>7, <2>2
  <2>3. CASE l # k /\ conn[l].id # conn[k].id
    <3>1. conn'[l] = conn[l] /\ conn[l].id \in Ids /\ holder'[conn[l].id] = holder[conn[l].id]
      BY <1>0, <1>7, <1>8, <2>3 DEF ConnType
    <3>2. \/ holder[conn[l].id] = l
          \/ conn[l].id \in offline
          \/ \E m \in Conns \ {l} : conn[m].id = conn[l].id /\ conn[m].reader # "new"
      BY <1>10, <3>1 DEF Inv, OpenIsRegistered, Live
    <3>3. ASSUME NEW m \in Conns \ {l}, conn[m].id = conn[l].id, conn[m].reader # "new"
          PROVE  conn'[m].id = conn'[l].id /\ conn'[m].reader # "new"
      BY <1>7, <3>1, <3>3
    <3> QED
      BY <1>3, <3>1, <3>2, <3>3
  <2> QED
    BY <2>1, <2>2, <2>3
<1>11. OpenIsRegistered'
  BY <1>9, <1>10 DEF OpenIsRegistered, Live
<1> QED
  BY <1>2, <1>3, <1>7, <1>11 DEF Inv

\* Disconnect removes whoever holds the id, which may be a later connection.
LEMMA DisconnectKeepsInv ==
    ASSUME Inv, NEW k \in Conns, Disconnect(k)
    PROVE  Inv'
<1>0. conn \in [Conns -> ConnType] /\ conn[k].id \in Ids /\ offline' = offline
  BY DEF Inv, ConnType, Disconnect
<1>1. StoreOK'
  BY <1>0, RemoveKeepsStore DEF Inv, Disconnect
<1>2. /\ holder'[conn[k].id] = "none"
      /\ \A j \in Ids \ {conn[k].id} : holder'[j] = holder[j]
  BY <1>0 DEF Disconnect, RemoveClient, Known, registry, Inv, StoreOK, RegistryType
<1>4. conn[k].reader = "done" /\ conn' = [conn EXCEPT ![k].reader = "gone"]
  BY DEF Disconnect
<1> DEFINE c == [conn[k] EXCEPT !.reader = "gone"]
<1>5. c \in ConnType /\ c.id = conn[k].id /\ c.reader = "gone"
  BY <1>0 DEF ConnType, Readers
<1>6. conn' = [conn EXCEPT ![k] = c]
  BY <1>4
<1>7. /\ conn' \in [Conns -> ConnType]
      /\ conn'[k].id = conn[k].id /\ conn'[k].reader = "gone"
      /\ \A l \in Conns \ {k} : conn'[l] = conn[l]
  <2> HIDE DEF c
  <2> QED
    BY <1>0, <1>5, <1>6
<1>8. ASSUME NEW j \in Ids, holder'[j] \in Conns
      PROVE  conn'[holder'[j]].reader \notin {"new", "gone"} /\ conn'[holder'[j]].id = j
  <2>1. j # conn[k].id /\ holder'[j] = holder[j]
    BY <1>2, <1>8, RealtimeAssumption DEF RealtimeAssumption
  <2>2. conn[holder[j]].reader \notin {"new", "gone"} /\ conn[holder[j]].id = j
    BY <1>8, <2>1 DEF Inv, OpenIsRegistered, Live
  <2>3. holder[j] # k
    BY <2>1, <2>2
  <2> QED
    BY <1>7, <1>8, <2>1, <2>2, <2>3
<1>9. ASSUME NEW l \in Conns, conn'[l].reader \notin {"new", "gone"}
      PROVE  \/ holder'[conn'[l].id] = l
             \/ conn'[l].id \in offline'
             \/ \E m \in Conns \ {l} : conn'[m].id = conn'[l].id /\ conn'[m].reader # "new"
  <2>1. l # k /\ conn'[l] = conn[l] /\ conn[l].id \in Ids
    BY <1>0, <1>7, <1>9 DEF ConnType
  <2>2. CASE conn[l].id = conn[k].id
    BY <1>7, <2>1, <2>2
  <2>3. CASE conn[l].id # conn[k].id
    <3>1. holder'[conn[l].id] = holder[conn[l].id]
      BY <1>2, <2>1, <2>3
    <3>2. \/ holder[conn[l].id] = l
          \/ conn[l].id \in offline
          \/ \E m \in Conns \ {l} : conn[m].id = conn[l].id /\ conn[m].reader # "new"
      BY <1>9, <2>1 DEF Inv, OpenIsRegistered, Live
    <3>3. ASSUME NEW m \in Conns \ {l}, conn[m].id = conn[l].id, conn[m].reader # "new"
          PROVE  conn'[m].id = conn'[l].id /\ conn'[m].reader # "new"
      BY <1>7, <2>1, <2>3, <3>3
    <3> QED
      BY <1>0, <2>1, <3>1, <3>2, <3>3
  <2> QED
    BY <2>2, <2>3
<1>10. OpenIsRegistered'
  BY <1>8, <1>9 DEF OpenIsRegistered, Live
<1> QED
  BY <1>0, <1>1, <1>7, <1>10 DEF Inv

-----------------------------------------------------------------------------
(* The specification.                                                      *)

LEMMA InvInit == Init => Inv
<1> SUFFICES ASSUME Init PROVE Inv
  OBVIOUS
<1>1. StoreOK
  BY RealtimeAssumption
  DEF Init, StoreOK, RegistryType, IndexesAgree, LeftoversAreLate, Known, Holders, Anybody,
      RealtimeAssumption
<1>2. conn \in [Conns -> ConnType] /\ \A k \in Conns : conn[k].reader = "new"
  BY DEF Init
<1>3. OpenIsRegistered
  BY <1>2, RealtimeAssumption DEF Init, OpenIsRegistered, Live, RealtimeAssumption
<1> QED
  BY <1>1, <1>2, <1>3 DEF Init, Inv

LEMMA InvNext == Inv /\ [Next]_vars => Inv'
<1> SUFFICES ASSUME Inv, [Next]_vars PROVE Inv'
  OBVIOUS
<1>1. ASSUME NEW k \in Conns,
             \/ NextRead(k) \/ ReadMessage(k) \/ HandlerReturns(k) \/ ReadEnds(k)
             \/ AfterCancel(k) \/ Write(k) \/ Written(k) \/ WriteFails(k)
             \/ WriterStops(k) \/ PeerStops(k) \/ Cancel(k)
      PROVE  Inv'
  BY <1>1, StepsGo, GoingKeepsInv
<1>2. ASSUME NEW k \in Conns, Connect(k) PROVE Inv'
  BY <1>2, ConnectKeepsInv
<1>3. ASSUME NEW k \in Conns, Handle(k) PROVE Inv'
  <2>1. conn[k].id \in Ids /\ Call(conn[k].id)
    BY <1>3 DEF Handle, Inv, ConnType
  <2> QED
    BY <2>1, CallKeepsInv
<1>4. ASSUME NEW k \in Conns, Disconnect(k) PROVE Inv'
  BY <1>4, DisconnectKeepsInv
<1>5. ASSUME NEW i \in Ids, Call(i) PROVE Inv'
  BY <1>5, CallKeepsInv
<1>6. ASSUME NEW i \in Ids, Offline(i) PROVE Inv'
  BY <1>6, OfflineKeepsInv
<1>7. ASSUME UNCHANGED vars PROVE Inv'
  BY <1>7 DEF vars, registry, Inv, StoreOK, RegistryType, IndexesAgree, LeftoversAreLate,
              OpenIsRegistered, Known, Live
<1> QED
  BY <1>1, <1>2, <1>3, <1>4, <1>5, <1>6, <1>7 DEF Next, Step

\* The invariant holds.
THEOREM InvHolds == Spec => []Inv
BY InvInit, InvNext, PTL DEF Spec

\* The variables of the registry and of the connections have their types.
THEOREM RealtimeTyped == Spec => []TypeOK
<1>1. Inv => TypeOK
  BY DEF Inv, StoreOK, RegistryType, TypeOK
<1> QED
  BY <1>1, InvHolds, PTL

\* registry.go: the indexes by user and by room agree with the clients, after any
\* calls of any number of connections.
THEOREM RegistryIndexed == Spec => []IndexesAgree
<1>1. Inv => IndexesAgree
  BY DEF Inv, StoreOK
<1> QED
  BY <1>1, InvHolds, PTL

\* Remove, Offline: a client that is gone has left nothing behind, but for what
\* its id was given later.
THEOREM NothingLeft == Spec => []LeftoversAreLate
<1>1. Inv => LeftoversAreLate
  BY DEF Inv, StoreOK
<1> QED
  BY <1>1, InvHolds, PTL

\* ServeConn: an open connection is in the registry unless another one under its
\* id, or the application, has taken it out; one that has ended is not.
THEOREM ConnectionsRegistered == Spec => []OpenIsRegistered
<1>1. Inv => OpenIsRegistered
  BY DEF Inv
<1> QED
  BY <1>1, InvHolds, PTL

-----------------------------------------------------------------------------
(* EventBus.                                                               *)

\* The parts of the state.
Subscription ==
    [bus : Buses, st : {"new", "joining", "on", "over"}, at : Nat, listening : BOOLEAN,
     cancelled : BOOLEAN, inbox : Seq(Events), hand : SUBSET Events]
Group == [base : Int, read : Int, first : Nat]
BusTyped ==
    /\ driver \in {"memory", "redis", "nats", "redisstream"}
    /\ bus \in [Buses -> [closed : BOOLEAN, subs : SUBSET Subs, ending : SUBSET Subs]]
    /\ sub \in [Subs -> Subscription]
    /\ log \in Seq(Events)
    /\ group \in Group
    /\ runs \in [Subs \X Events -> Nat]

NoRepeats(q) == \A i, j \in DOMAIN q : q[i] = q[j] => i = j
In(e, q) == \E i \in DOMAIN q : q[i] = e

\* Every event is published once, and waits or has been handled for a reason.
Waits(s, e) == In(e, sub[s].inbox)
Ran(s, e) == runs[<<s, e>>] # 0
HandledFits ==
    /\ NoRepeats(log)
    /\ \A s \in Subs : NoRepeats(sub[s].inbox)
    /\ \A s \in Subs, e \in Events :
         /\ runs[<<s, e>>] \in {0, 1}
         /\ Waits(s, e) => runs[<<s, e>>] = 0
         /\ Waits(s, e) \/ Ran(s, e) => In(e, log)
         /\ e \in sub[s].hand => Ran(s, e)

\* Without a group: a subscription that has begun keeps what is due to it.
DueFits ==
    \A s \in Subs :
      /\ sub[s].listening = TRUE => sub[s].st # "new"
      /\ ~Grouped =>
           \A e \in Events : <<s, e>> \in due =>
             /\ sub[s].st # "new" /\ In(e, log)
             /\ InUse(s) /\ Of(s).closed = FALSE =>
                  Ran(s, e) \/ Waits(s, e) \/ <<s, e>> \in lost

\* With one: what it has read has one consumer, and what has been trimmed before is
\* lost.
Has(s, e) == Ran(s, e) \/ Waits(s, e)
GroupFits ==
    Grouped =>
      /\ group.read <= Len(log) /\ group.first <= Len(log)
      /\ \A n \in 1 .. Len(log) :
           /\ n <= group.first /\ n > group.read => \A s \in Subs : <<s, log[n]>> \in lost
           /\ \A s \in Subs : Has(s, log[n]) => n <= group.read
           /\ group.base < n /\ n <= group.read =>
                \E s \in Subs : Has(s, log[n]) \/ <<s, log[n]>> \in lost
      /\ \A s, t \in Subs, e \in Events : Has(s, e) /\ Has(t, e) => s = t
      /\ \A s \in Subs, e \in Events : Waits(s, e) => e \in pending /\ sub[s].st = "on"

BusInv == BusTyped /\ HandledFits /\ DueFits /\ GroupFits

\* Sequences without repetitions.
LEMMA AppendFits ==
    ASSUME NEW E, NEW q \in Seq(E), NEW e \in E
    PROVE  /\ Append(q, e) \in Seq(E)
           /\ \A x : In(x, Append(q, e)) <=> In(x, q) \/ x = e
           /\ NoRepeats(q) /\ ~In(e, q) => NoRepeats(Append(q, e))
<1>1. /\ Append(q, e) \in Seq(E) /\ Len(Append(q, e)) = Len(q) + 1
      /\ Append(q, e)[Len(q) + 1] = e /\ \A i \in 1 .. Len(q) : Append(q, e)[i] = q[i]
  BY AppendProperties
<1>2. DOMAIN q = 1 .. Len(q) /\ DOMAIN Append(q, e) = 1 .. (Len(q) + 1) /\ Len(q) \in Nat
  BY <1>1
<1>3. \A x : In(x, Append(q, e)) <=> In(x, q) \/ x = e
  BY <1>1, <1>2 DEF In
<1>4. NoRepeats(q) /\ ~In(e, q) => NoRepeats(Append(q, e))
  BY <1>1, <1>2 DEF In, NoRepeats
<1> QED
  BY <1>1, <1>3, <1>4

LEMMA RemoveFits ==
    ASSUME NEW E, NEW q \in Seq(E), NoRepeats(q), NEW k \in DOMAIN q
    PROVE  /\ RemoveAt(q, k) \in Seq(E) /\ NoRepeats(RemoveAt(q, k))
           /\ \A x : In(x, RemoveAt(q, k)) <=> In(x, q) /\ x # q[k]
<1> DEFINE a == SubSeq(q, 1, k - 1)
           b == SubSeq(q, k + 1, Len(q))
           n == Len(q)
<1>0. n \in Nat /\ k \in 1 .. n /\ DOMAIN q = 1 .. n
  OBVIOUS
<1>1. a \in Seq(E) /\ Len(a) = k - 1 /\ \A i \in 1 .. (k - 1) : a[i] = q[i]
  BY <1>0
<1>2. b \in Seq(E) /\ Len(b) = n - k /\ \A i \in 1 .. (n - k) : b[i] = q[k + i]
  BY <1>0
<1>3. RemoveAt(q, k) = a \o b
  BY DEF RemoveAt
<1> HIDE DEF a, b, n
<1>4. PICK r : r = a \o b
  OBVIOUS
<1>5. /\ r \in Seq(E) /\ Len(r) = n - 1
      /\ \A i \in 1 .. (n - 1) : r[i] = IF i < k THEN q[i] ELSE q[i + 1]
  <2>1. /\ r \in Seq(E) /\ Len(r) = n - 1
        /\ \A i \in 1 .. (k - 1) : r[i] = a[i]
        /\ \A i \in k .. (n - 1) : r[i] = b[i - (k - 1)]
    <3>1. /\ a \o b \in Seq(E) /\ Len(a \o b) = Len(a) + Len(b)
          /\ \A i \in 1 .. Len(a) + Len(b) :
               (a \o b)[i] = IF i <= Len(a) THEN a[i] ELSE b[i - Len(a)]
      BY <1>1, <1>2, ConcatProperties
    <3>2. Len(a) + Len(b) = n - 1
      BY <1>0, <1>1, <1>2
    <3> QED
      BY <1>0, <1>1, <1>4, <3>1, <3>2
  <2>2. ASSUME NEW i \in 1 .. (n - 1), i >= k PROVE r[i] = q[i + 1]
    <3>1. PICK j : j = i - (k - 1)
      OBVIOUS
    <3>2. j \in 1 .. (n - k) /\ k + j = i + 1 /\ i \in k .. (n - 1)
      BY <1>0, <2>2, <3>1
    <3>3. r[i] = b[j]
      BY <2>1, <3>1, <3>2
    <3> QED
      BY <1>2, <3>2, <3>3
  <2>3. ASSUME NEW i \in 1 .. (n - 1), i < k PROVE r[i] = q[i]
    BY <1>0, <1>1, <2>1, <2>3
  <2> QED
    BY <1>0, <2>1, <2>2, <2>3
<1>6. DOMAIN r = 1 .. (n - 1)
  BY <1>5
<1>7. NoRepeats(r)
  <2> SUFFICES ASSUME NEW i \in 1 .. (n - 1), NEW j \in 1 .. (n - 1), r[i] = r[j] PROVE i = j
    BY <1>6 DEF NoRepeats
  <2>1. \A x, y \in 1 .. n : q[x] = q[y] => x = y
    BY <1>0 DEF NoRepeats
  <2>2. PICK x \in 1 .. n : r[i] = q[x] /\ x = IF i < k THEN i ELSE i + 1
    BY <1>0, <1>5
  <2>3. PICK y \in 1 .. n : r[j] = q[y] /\ y = IF j < k THEN j ELSE j + 1
    BY <1>0, <1>5
  <2>4. x = y
    BY <2>1, <2>2, <2>3
  <2> QED
    BY <1>0, <2>2, <2>3, <2>4
<1>8. ASSUME NEW x PROVE In(x, r) <=> In(x, q) /\ x # q[k]
  <2>1. ASSUME In(x, r) PROVE In(x, q) /\ x # q[k]
    BY <1>0, <1>5, <1>6, <2>1 DEF In, NoRepeats
  <2>2. ASSUME NEW i \in DOMAIN q, q[i] = x, x # q[k] PROVE In(x, r)
    <3>1. CASE i < k
      BY <1>0, <1>5, <1>6, <2>2, <3>1 DEF In
    <3>2. CASE i > k
      <4>1. i - 1 \in 1 .. (n - 1) /\ r[i - 1] = q[i]
        BY <1>0, <1>5, <2>2, <3>2
      <4> QED
        BY <1>6, <2>2, <4>1 DEF In
    <3> QED
      BY <1>0, <2>2, <3>1, <3>2
  <2> QED
    BY <2>1, <2>2 DEF In
<1> QED
  BY <1>3, <1>4, <1>5, <1>7, <1>8

LEMMA TailFits ==
    ASSUME NEW E, NEW q \in Seq(E), NoRepeats(q), q # <<>>
    PROVE  /\ Tail(q) \in Seq(E) /\ NoRepeats(Tail(q)) /\ Head(q) \in E
           /\ \A x : In(x, Tail(q)) <=> In(x, q) /\ x # Head(q)
<1>1. /\ Tail(q) \in Seq(E) /\ Len(Tail(q)) = Len(q) - 1 /\ Head(q) = q[1]
      /\ \A i \in 1 .. Len(Tail(q)) : Tail(q)[i] = q[i + 1]
  OBVIOUS
<1>2. Len(q) \in Nat \ {0} /\ DOMAIN q = 1 .. Len(q) /\ DOMAIN Tail(q) = 1 .. (Len(q) - 1)
  BY <1>1
<1>3. NoRepeats(Tail(q)) /\ Head(q) \in E
  BY <1>1, <1>2 DEF NoRepeats
<1>4. ASSUME NEW x PROVE In(x, Tail(q)) <=> In(x, q) /\ x # Head(q)
  <2>1. ASSUME In(x, Tail(q)) PROVE In(x, q) /\ x # Head(q)
    BY <1>1, <1>2, <2>1 DEF In, NoRepeats
  <2>2. ASSUME NEW i \in DOMAIN q, q[i] = x, x # q[1] PROVE In(x, Tail(q))
    <3>1. i - 1 \in 1 .. (Len(q) - 1) /\ Tail(q)[i - 1] = x
      BY <1>1, <1>2, <2>2
    <3> QED
      BY <1>2, <3>1 DEF In
  <2> QED
    BY <1>1, <2>1, <2>2 DEF In
<1> QED
  BY <1>1, <1>3, <1>4

LEMMA SubSeqFits ==
    ASSUME NEW E, NEW q \in Seq(E), NoRepeats(q),
           NEW a \in Nat \ {0}, NEW b \in Nat, a <= b, b <= Len(q)
    PROVE  /\ SubSeq(q, a, b) \in Seq(E) /\ NoRepeats(SubSeq(q, a, b))
           /\ \A x : In(x, SubSeq(q, a, b)) <=> \E n \in a .. b : q[n] = x
<1> DEFINE r == SubSeq(q, a, b)
<1>1. /\ r \in Seq(E) /\ Len(r) = b - a + 1 /\ DOMAIN r = 1 .. (b - a + 1)
      /\ \A i \in 1 .. (b - a + 1) : r[i] = q[a + i - 1]
  BY SubSeqProperties
<1>2. DOMAIN q = 1 .. Len(q) /\ Len(q) \in Nat
  OBVIOUS
<1> HIDE DEF r
<1>3. NoRepeats(r)
  <2> SUFFICES ASSUME NEW i \in DOMAIN r, NEW j \in DOMAIN r, r[i] = r[j] PROVE i = j
    BY DEF NoRepeats
  <2>1. a + i - 1 \in DOMAIN q /\ a + j - 1 \in DOMAIN q
    BY <1>1, <1>2
  <2>2. q[a + i - 1] = q[a + j - 1]
    BY <1>1
  <2>3. a + i - 1 = a + j - 1
    BY <2>1, <2>2 DEF NoRepeats
  <2> QED
    BY <1>1, <2>3
<1>4. ASSUME NEW x PROVE In(x, r) <=> \E n \in a .. b : q[n] = x
  <2>1. ASSUME NEW n \in a .. b, q[n] = x PROVE In(x, r)
    <3>1. n - a + 1 \in 1 .. (b - a + 1) /\ r[n - a + 1] = x
      BY <1>1, <2>1
    <3> QED
      BY <1>1, <3>1 DEF In
  <2>2. ASSUME NEW i \in DOMAIN r, r[i] = x PROVE \E n \in a .. b : q[n] = x
    <3>1. a + i - 1 \in a .. b /\ q[a + i - 1] = x
      BY <1>1, <2>2
    <3> QED
      BY <3>1
  <2> QED
    BY <2>1, <2>2 DEF In
<1> QED
  BY <1>1, <1>3, <1>4 DEF r

\* Subscribe, Close and the end of a context: a subscription that goes on keeps what
\* it has, and none comes back.
Keeps(s) ==
    /\ sub'[s].bus = sub[s].bus /\ sub'[s].hand = sub[s].hand
    /\ \/ sub'[s].inbox = sub[s].inbox
       \/ sub'[s].inbox = <<>> /\ sub'[s].st = "over"
    /\ sub[s].st # "new" => sub'[s].st # "new"
    /\ sub'[s].listening = TRUE => sub'[s].st # "new"
    /\ sub[s].st # "new" /\ InUse(s)' => InUse(s)
    /\ sub[s].st = "on" =>
         \/ sub'[s].st = "on" /\ sub'[s].inbox = sub[s].inbox
         \/ ~Grouped
         \/ \A e : ~Waits(s, e)
Control ==
    /\ UNCHANGED <<driver, log, pending, runs, due, lost>>
    /\ bus' \in [Buses -> [closed : BOOLEAN, subs : SUBSET Subs, ending : SUBSET Subs]]
    /\ \A b \in Buses : bus[b].closed = TRUE => bus'[b].closed = TRUE
    /\ group' \in Group
    /\ \/ group' = group
       \/ group'.base = Len(log) /\ group'.read = Len(log) /\ group'.first = group.first
    /\ sub' \in [Subs -> Subscription]
    /\ \A s \in Subs : Keeps(s)

LEMMA StaysKept ==
    ASSUME BusInv, NEW s \in Subs, sub'[s] = sub[s], driver' = driver PROVE Keeps(s)
<1>1. sub[s].listening = TRUE => sub[s].st # "new"
  BY DEF BusInv, DueFits
<1> QED
  BY <1>1 DEF Keeps, InUse

\* One subscription becomes r.
LEMMA Becomes ==
    ASSUME BusInv, NEW s \in Subs, NEW r \in Subscription, driver' = driver,
           sub' = [sub EXCEPT ![s] = r],
           r.bus = sub[s].bus, r.hand = sub[s].hand,
           r.inbox = sub[s].inbox \/ (r.inbox = <<>> /\ r.st = "over"),
           sub[s].st # "new" => r.st # "new",
           r.listening = TRUE => r.st # "new",
           sub[s].st # "new" /\ r.st \in {"joining", "on"} /\ r.cancelled = FALSE =>
              InUse(s),
           sub[s].st = "on" =>
              \/ r.st = "on" /\ r.inbox = sub[s].inbox
              \/ ~Grouped
              \/ \A e : ~Waits(s, e)
    PROVE  sub' \in [Subs -> Subscription] /\ \A t \in Subs : Keeps(t)
<1>0. sub \in [Subs -> Subscription]
  BY DEF BusInv, BusTyped
<1>1. sub' \in [Subs -> Subscription] /\ sub'[s] = r /\ \A t \in Subs : t # s => sub'[t] = sub[t]
  BY <1>0
<1>2. r.cancelled \in BOOLEAN
  BY DEF Subscription
<1>3. InUse(s)' => r.st \in {"joining", "on"} /\ r.cancelled = FALSE
  BY <1>1, <1>2 DEF InUse
<1>4. Keeps(s)
  BY <1>1, <1>3 DEF Keeps
<1> QED
  BY <1>1, <1>4, StaysKept

\* The ways Subscribe goes on or ends.
LEMMA OverFits ==
    ASSUME NEW r \in Subscription
    PROVE  /\ Over(r) \in Subscription
           /\ Over(r).bus = r.bus /\ Over(r).hand = r.hand
           /\ Over(r).inbox = <<>>
           /\ Over(r).st = "over" /\ Over(r).listening = FALSE
<1>1. PICK q : q = Over(r)
  OBVIOUS
<1>2. q = [r EXCEPT !.st = "over", !.at = 1, !.listening = FALSE, !.cancelled = FALSE,
                    !.inbox = <<>>]
  BY <1>1 DEF Over
<1>3. <<>> \in Seq(Events)
  OBVIOUS
<1>4. /\ q.bus \in Buses /\ q.hand \in SUBSET Events /\ q.bus = r.bus /\ q.hand = r.hand
      /\ q.inbox = <<>> /\ q.st = "over" /\ q.listening = FALSE
  BY <1>2 DEF Subscription
<1>5. q \in Subscription
  BY <1>2, <1>3 DEF Subscription
<1> QED
  BY <1>1, <1>4, <1>5

LEMMA OnwardFits ==
    ASSUME NEW r \in Subscription
    PROVE  /\ Onward(r) \in Subscription
           /\ Onward(r).bus = r.bus /\ Onward(r).hand = r.hand
           /\ Onward(r).inbox = r.inbox
           /\ Onward(r).st \in {"joining", "on"}
           /\ Onward(r).listening = r.listening
           /\ Onward(r).cancelled = r.cancelled
<1>1. PICK q : q = Onward(r)
  OBVIOUS
<1>2. PICK n \in Nat : n = r.at + 1
  BY DEF Subscription
<1>3. PICK st \in {"joining", "on"} : q = [r EXCEPT !.st = st, !.at = n]
  BY <1>1, <1>2 DEF Onward
<1>4. /\ q \in Subscription /\ q.bus = r.bus /\ q.hand = r.hand /\ q.inbox = r.inbox
      /\ q.st = st /\ q.listening = r.listening /\ q.cancelled = r.cancelled
  BY <1>3 DEF Subscription
<1> QED
  BY <1>1, <1>4

LEMMA ListensFits ==
    ASSUME NEW r \in Subscription, NEW l \in BOOLEAN, NEW q, q = [r EXCEPT !.listening = l]
    PROVE  /\ q \in Subscription
           /\ q.bus = r.bus /\ q.hand = r.hand /\ q.inbox = r.inbox
           /\ q.st = r.st /\ q.listening = l /\ q.cancelled = r.cancelled
  BY DEF Subscription

\* The steps of Subscribe and of its end, one subscription at a time.
Steps(s) ==
    \/ Check(s) \/ Attach(s) \/ Register(s)
    \/ EndSub(s) \/ CancelSub(s) \/ LeaveLoop(s)

LEMMA SubscribeGoes ==
    ASSUME BusInv, NEW s \in Subs, driver' = driver, sub[s].st \in {"new", "joining"},
           NEW r,
           \/ r \in {Onward(sub[s]), Over(sub[s])}
           \/ \E l \in BOOLEAN : r = [Onward(sub[s]) EXCEPT !.listening = l],
           sub' = [sub EXCEPT ![s] = r]
    PROVE  sub' \in [Subs -> Subscription] /\ \A t \in Subs : Keeps(t)
<1>0. sub[s] \in Subscription /\ sub[s].cancelled \in BOOLEAN
  BY DEF BusInv, BusTyped, Subscription
<1>1. sub[s].listening = TRUE => sub[s].st # "new"
  BY DEF BusInv, DueFits
<1>2. CASE r = Over(sub[s])
  <2>1. /\ r \in Subscription /\ r.bus = sub[s].bus /\ r.hand = sub[s].hand
        /\ r.inbox = <<>> /\ r.st = "over" /\ r.listening = FALSE
    BY <1>0, <1>2, OverFits
  <2> QED
    BY <2>1, Becomes
<1>3. CASE r # Over(sub[s])
  <2>1. PICK q : q = Onward(sub[s])
    OBVIOUS
  <2>2. /\ q \in Subscription /\ q.bus = sub[s].bus /\ q.hand = sub[s].hand
        /\ q.inbox = sub[s].inbox /\ q.st \in {"joining", "on"}
        /\ q.listening = sub[s].listening /\ q.cancelled = sub[s].cancelled
    BY <1>0, <2>1, OnwardFits
  <2>3. r = q \/ \E l \in BOOLEAN : r = [q EXCEPT !.listening = l]
    BY <1>3, <2>1
  <2>4. /\ r \in Subscription /\ r.bus = sub[s].bus /\ r.hand = sub[s].hand
        /\ r.inbox = sub[s].inbox /\ r.st \in {"joining", "on"}
        /\ r.cancelled = sub[s].cancelled
    BY <2>2, <2>3, ListensFits
  <2>5. r.cancelled = FALSE /\ sub[s].st # "new" => InUse(s)
    BY <1>0, <2>4 DEF InUse
  <2> QED
    BY <2>4, <2>5, Becomes
<1> QED
  BY <1>2, <1>3

LEMMA StepControls ==
    ASSUME BusInv, NEW s \in Subs, Steps(s)
    PROVE  Control
<1>0. /\ BusTyped /\ sub[s] \in Subscription /\ sub[s].bus \in Buses
      /\ bus[sub[s].bus] \in [closed : BOOLEAN, subs : SUBSET Subs, ending : SUBSET Subs]
      /\ Len(log) \in Nat
  BY DEF BusInv, BusTyped, Subscription
<1>1. UNCHANGED <<driver, log, pending, runs, due, lost>>
  BY DEF Steps, Check, Attach, Register, EndSub, CancelSub, LeaveLoop, stream, delivery
<1>2. /\ group' \in Group
      /\ \/ group' = group
         \/ group'.base = Len(log) /\ group'.read = Len(log) /\ group'.first = group.first
  <2>1. group' = group \/ group' = [group EXCEPT !.base = Len(log), !.read = Len(log)]
    BY DEF Steps, Check, Attach, Register, EndSub, CancelSub, LeaveLoop, stream
  <2> QED
    <3>1. group \in Group
      BY <1>0 DEF BusTyped
    <3>2. PICK n \in Int : n = Len(log)
      BY <1>0
    <3>3. CASE group' = [group EXCEPT !.base = n, !.read = n]
      <4>1. group' \in Group /\ group'.base = n /\ group'.read = n /\ group'.first = group.first
        <5>1. PICK h : h = group'
          OBVIOUS
        <5>2. PICK g \in Group : g = group
          BY <3>1
        <5>3. h = [g EXCEPT !.base = n, !.read = n]
          BY <3>3, <5>1, <5>2
        <5>4. h \in Group
          BY <5>3 DEF Group
        <5>5. h.base = n /\ h.read = n /\ h.first = g.first
          BY <5>3 DEF Group
        <5> QED
          BY <5>1, <5>2, <5>4, <5>5
      <4> QED
        BY <3>2, <4>1
    <3> QED
      BY <2>1, <3>1, <3>2, <3>3
<1>3. /\ bus' \in [Buses -> [closed : BOOLEAN, subs : SUBSET Subs, ending : SUBSET Subs]]
      /\ \A b \in Buses : bus[b].closed = TRUE => bus'[b].closed = TRUE
  <2>1. PICK new \in SUBSET Subs :
          \/ bus' = bus
          \/ bus' = [bus EXCEPT ![sub[s].bus].subs = new]
          \/ bus' = [bus EXCEPT ![sub[s].bus].ending = new]
    <3>1. /\ bus[sub[s].bus].subs \in SUBSET Subs /\ bus[sub[s].bus].ending \in SUBSET Subs
          /\ bus[sub[s].bus].subs \union {s} \in SUBSET Subs
          /\ bus[sub[s].bus].subs \ {s} \in SUBSET Subs
          /\ bus[sub[s].bus].ending \ {s} \in SUBSET Subs
      BY <1>0
    <3>2. CASE Check(s) \/ Attach(s) \/ CancelSub(s)
      BY <3>1, <3>2 DEF Check, Attach, CancelSub
    <3>3. CASE Register(s)
      BY <3>1, <3>3 DEF Register
    <3>4. CASE EndSub(s)
      BY <3>1, <3>4 DEF EndSub
    <3>5. CASE LeaveLoop(s)
      BY <3>1, <3>5 DEF LeaveLoop
    <3> QED
      BY <3>2, <3>3, <3>4, <3>5 DEF Steps
  <2>2. PICK b \in Buses : b = sub[s].bus
    BY <1>0
  <2>3. bus \in [Buses -> [closed : BOOLEAN, subs : SUBSET Subs, ending : SUBSET Subs]]
    BY <1>0 DEF BusTyped
  <2>4. CASE bus' = bus
    BY <2>3, <2>4
  <2>5. CASE bus' = [bus EXCEPT ![b].subs = new]
    BY <2>3, <2>5
  <2>6. CASE bus' = [bus EXCEPT ![b].ending = new]
    BY <2>3, <2>6
  <2> QED
    BY <2>1, <2>2, <2>4, <2>5, <2>6
<1>4. sub' \in [Subs -> Subscription] /\ \A t \in Subs : Keeps(t)
  <2>1. CASE Check(s)
    <3>1. sub[s].st \in {"new", "joining"}
      BY <2>1 DEF Check, Doing
    <3>2. PICK r \in {Onward(sub[s]), Over(sub[s])} : sub' = [sub EXCEPT ![s] = r]
      BY <2>1 DEF Check
    <3> QED
      BY <1>1, <3>1, <3>2, SubscribeGoes
  <2>2. CASE Attach(s)
    <3>1. sub[s].st \in {"new", "joining"}
      BY <2>2 DEF Attach, Doing
    <3>2. PICK l \in BOOLEAN : l = ~Grouped
      OBVIOUS
    <3>3. CASE sub' = [sub EXCEPT ![s] = Over(@)]
      BY <1>1, <3>1, <3>3, SubscribeGoes
    <3>4. CASE sub' = [sub EXCEPT ![s] = [Onward(@) EXCEPT !.listening = l]]
      BY <1>1, <3>1, <3>4, SubscribeGoes
    <3> QED
      BY <2>2, <3>2, <3>3, <3>4 DEF Attach
  <2>3. CASE Register(s)
    <3>1. sub[s].st \in {"new", "joining"}
      BY <2>3 DEF Register, Doing
    <3>2. PICK q : q = Onward(sub[s])
      OBVIOUS
    <3>4. PICK l \in BOOLEAN : l = (sub[s].listening \/ driver = "memory")
      OBVIOUS
    <3>5. CASE sub' = [sub EXCEPT ![s] = Over(@)]
      BY <1>1, <3>1, <3>5, SubscribeGoes
    <3>6. CASE sub' = [sub EXCEPT ![s] = [q EXCEPT !.listening = l]]
      BY <1>1, <3>1, <3>2, <3>6, SubscribeGoes
    <3> QED
      BY <2>3, <3>2, <3>4, <3>5, <3>6 DEF Register
  <2>4. CASE EndSub(s)
    <3>1. CASE driver = "nats"
      <4>1. PICK r : r = Over(sub[s])
        OBVIOUS
      <4>2. sub' = [sub EXCEPT ![s] = r]
        BY <2>4, <3>1, <4>1 DEF EndSub
      <4>3. ~Grouped
        BY <3>1 DEF Grouped
      <4> QED
        BY <1>0, <1>1, <4>1, <4>2, <4>3, OverFits, Becomes
    <3>2. CASE driver # "nats"
      <4>1. PICK c \in BOOLEAN : c = (sub[s].st # "over")
        OBVIOUS
      <4>2. PICK r : r = [sub[s] EXCEPT !.cancelled = c]
        OBVIOUS
      <4>3. sub' = [sub EXCEPT ![s] = r]
        BY <2>4, <3>2, <4>1, <4>2 DEF EndSub
      <4>4. /\ r \in Subscription /\ r.bus = sub[s].bus /\ r.hand = sub[s].hand
            /\ r.inbox = sub[s].inbox /\ r.st = sub[s].st /\ r.listening = sub[s].listening
            /\ r.cancelled = c
        BY <1>0, <4>2 DEF Subscription
      <4>5. sub[s].listening = TRUE => sub[s].st # "new"
        BY DEF BusInv, DueFits
      <4>6. ~(r.st \in {"joining", "on"} /\ r.cancelled = FALSE)
        BY <4>1, <4>4
      <4> QED
        BY <1>1, <4>3, <4>4, <4>5, <4>6, Becomes
    <3> QED
      BY <3>1, <3>2
  <2>5. CASE CancelSub(s)
    <3>1. PICK r : r = [sub[s] EXCEPT !.cancelled = TRUE]
      OBVIOUS
    <3>2. sub' = [sub EXCEPT ![s] = r]
      BY <2>5, <3>1 DEF CancelSub
    <3>3. /\ r \in Subscription /\ r.bus = sub[s].bus /\ r.hand = sub[s].hand
          /\ r.inbox = sub[s].inbox /\ r.st = sub[s].st /\ r.listening = sub[s].listening
          /\ r.cancelled = TRUE
      BY <1>0, <3>1 DEF Subscription
    <3>4. sub[s].listening = TRUE => sub[s].st # "new"
      BY DEF BusInv, DueFits
    <3> QED
      BY <1>1, <3>2, <3>3, <3>4, Becomes
  <2>6. CASE LeaveLoop(s)
    <3>1. PICK r : r = Over(sub[s])
      OBVIOUS
    <3>2. sub' = [sub EXCEPT ![s] = r]
      BY <2>6, <3>1 DEF LeaveLoop
    <3>3. ~Grouped \/ (\A e : ~Waits(s, e))
      <4>1. CASE Grouped
        <5>1. sub[s].inbox = <<>>
          BY <2>6, <4>1 DEF LeaveLoop, MayLeave, Grouped
        <5> QED
          BY <5>1 DEF Waits, In
      <4> QED
        BY <4>1
    <3> QED
      BY <1>0, <1>1, <3>1, <3>2, <3>3, OverFits, Becomes
  <2> QED
    BY <2>1, <2>2, <2>3, <2>4, <2>5, <2>6 DEF Steps
<1> QED
  BY <1>1, <1>2, <1>3, <1>4 DEF Control

LEMMA CloseControls ==
    ASSUME BusInv, NEW b \in Buses, Close(b)
    PROVE  Control
<1>0. BusTyped
  BY DEF BusInv
<1>1. UNCHANGED <<driver, log, group, pending, runs, due, lost>>
  BY DEF Close, stream, delivery
<1>2. bus[b].subs \in SUBSET Subs
  BY <1>0 DEF BusTyped
<1>3. /\ bus' \in [Buses -> [closed : BOOLEAN, subs : SUBSET Subs, ending : SUBSET Subs]]
      /\ \A c \in Buses : bus[c].closed = TRUE => bus'[c].closed = TRUE
  <2>1. bus' = [bus EXCEPT ![b] = [closed |-> TRUE, subs |-> {}, ending |-> bus[b].subs]]
    BY DEF Close
  <2> QED
    BY <1>0, <1>2, <2>1 DEF BusTyped
<1>4. ASSUME NEW s \in Subs PROVE sub'[s] \in Subscription /\ Keeps(s)
  <2>1. sub'[s] = sub[s] \/ sub'[s] = [sub[s] EXCEPT !.listening = FALSE]
    BY DEF Close
  <2>2. CASE sub'[s] = sub[s]
    BY <1>0, <1>1, <2>2, StaysKept DEF BusTyped
  <2>3. CASE sub'[s] = [sub[s] EXCEPT !.listening = FALSE]
    <3>1. sub[s] \in Subscription
      BY <1>0 DEF BusTyped
    <3>2. /\ sub'[s] \in Subscription
          /\ sub'[s].bus = sub[s].bus /\ sub'[s].hand = sub[s].hand
          /\ sub'[s].inbox = sub[s].inbox /\ sub'[s].st = sub[s].st
          /\ sub'[s].listening = FALSE /\ sub'[s].cancelled = sub[s].cancelled
      BY <2>3, <3>1, ListensFits
    <3> QED
      BY <3>2 DEF Keeps, InUse
  <2> QED
    BY <2>1, <2>2, <2>3
<1>5. sub' \in [Subs -> Subscription]
  <2>1. sub' = [s \in Subs |-> sub'[s]]
    BY DEF Close
  <2> QED
    BY <1>4, <2>1
<1>6. group \in Group
  BY <1>0 DEF BusTyped
<1> QED
  BY <1>1, <1>3, <1>4, <1>5, <1>6 DEF Control

\* What those steps leave is what there was, or less.
LEMMA ControlKeeps == ASSUME BusInv, Control PROVE BusInv'
<1>0. /\ BusTyped /\ HandledFits /\ DueFits /\ GroupFits
      /\ UNCHANGED <<driver, log, pending, runs, due, lost>>
      /\ Len(log) \in Nat
  BY DEF BusInv, Control, BusTyped
<1>1. BusTyped'
  BY <1>0 DEF BusTyped, Control
<1>2. \A s \in Subs : \A e : Waits(s, e)' => Waits(s, e)
  BY DEF Control, Keeps, Waits, In
<1>3. HandledFits'
  <2>1. ASSUME NEW s \in Subs PROVE NoRepeats(sub'[s].inbox)
    <3>1. CASE sub'[s].inbox = sub[s].inbox
      BY <1>0, <3>1 DEF HandledFits
    <3>2. CASE sub'[s].inbox = <<>>
      BY <3>2 DEF NoRepeats
    <3> QED
      BY <3>1, <3>2 DEF Control, Keeps
  <2>2. \A s \in Subs : sub'[s].hand = sub[s].hand
    BY DEF Control, Keeps
  <2> QED
    BY <1>0, <1>2, <2>1, <2>2 DEF HandledFits, Ran
<1>4. DueFits'
  <2> SUFFICES ASSUME NEW s \in Subs
               PROVE  /\ sub'[s].listening = TRUE => sub'[s].st # "new"
                      /\ ~Grouped =>
                           \A e \in Events : <<s, e>> \in due =>
                             /\ sub'[s].st # "new" /\ In(e, log)
                             /\ InUse(s)' /\ Of(s).closed' = FALSE =>
                                  Ran(s, e) \/ Waits(s, e)' \/ <<s, e>> \in lost
    BY <1>0 DEF DueFits, Grouped, Ran
  <2>0. Keeps(s)
    BY DEF Control
  <2>1. ASSUME ~Grouped, NEW e \in Events, <<s, e>> \in due
        PROVE  sub[s].st # "new" /\ In(e, log)
    BY <1>0, <2>1 DEF DueFits
  <2>2. ASSUME ~Grouped, NEW e \in Events, <<s, e>> \in due,
               InUse(s)', Of(s).closed' = FALSE
        PROVE  Ran(s, e) \/ Waits(s, e)' \/ <<s, e>> \in lost
    <3>1. InUse(s)
      BY <2>0, <2>1, <2>2 DEF Keeps
    <3>2. Of(s).closed = FALSE
      <4>1. sub[s].bus \in Buses /\ sub'[s].bus = sub[s].bus
        BY <1>0, <2>0 DEF Keeps, BusTyped, Subscription
      <4>2. bus[sub[s].bus].closed \in BOOLEAN
        BY <1>0, <4>1 DEF BusTyped
      <4> QED
        BY <2>2, <4>1, <4>2 DEF Control, Of
    <3>3. Ran(s, e) \/ Waits(s, e) \/ <<s, e>> \in lost
      BY <1>0, <2>2, <3>1, <3>2 DEF DueFits
    <3>4. sub'[s].inbox = sub[s].inbox
      BY <2>0, <2>2 DEF Keeps, InUse
    <3> QED
      BY <3>3, <3>4 DEF Waits
  <2> QED
    BY <2>0, <2>1, <2>2 DEF Keeps
<1>5. GroupFits'
  <2> SUFFICES ASSUME Grouped PROVE GroupFits'
    BY <1>0 DEF GroupFits, Grouped
  <2>1. \A s \in Subs, e \in Events : Waits(s, e) => sub[s].st = "on" /\ e \in pending
    BY <1>0 DEF GroupFits
  <2>2. \A s \in Subs, e \in Events : Waits(s, e) => Waits(s, e)' /\ sub'[s].st = "on"
    BY <2>1 DEF Control, Keeps, Waits
  <2>3. \A s \in Subs, e \in Events : Has(s, e)' <=> Has(s, e)
    BY <1>0, <1>2, <2>2 DEF Has, Ran
  <2>4. \A n \in 1 .. Len(log) : log[n] \in Events
    BY <1>0 DEF BusTyped
  <2>5. group.read \in Int /\ group.read <= Len(log)
    BY <1>0 DEF GroupFits, BusTyped, Group
  <2>6. CASE group' = group
    BY <1>0, <1>2, <2>1, <2>2, <2>3, <2>4, <2>6 DEF GroupFits, Grouped
  <2>7. CASE group'.base = Len(log) /\ group'.read = Len(log) /\ group'.first = group.first
    <3>1. group'.read <= Len(log) /\ group'.first <= Len(log)
      BY <1>0, <2>7 DEF GroupFits
    <3>2. \A n \in 1 .. Len(log) : n <= group'.read /\ ~(n > group'.read) /\ ~(group'.base < n)
      BY <1>0, <2>7
    <3>3. \A s, t \in Subs, e \in Events : Has(s, e)' /\ Has(t, e)' => s = t
      BY <1>0, <2>3 DEF GroupFits
    <3>4. \A s \in Subs, e \in Events : Waits(s, e)' => e \in pending' /\ sub'[s].st = "on"
      BY <1>0, <1>2, <2>1, <2>2
    <3> QED
      BY <1>0, <3>1, <3>2, <3>3, <3>4 DEF GroupFits, Grouped
  <2> QED
    BY <2>6, <2>7 DEF Control
<1> QED
  BY <1>1, <1>3, <1>4, <1>5 DEF BusInv

\* An event published to those who listen.
LEMMA PublishKeeps ==
    ASSUME BusInv, NEW b \in Buses, NEW e \in Events, Publish(b, e)
    PROVE  BusInv'
<1>0. /\ BusTyped /\ HandledFits /\ DueFits /\ ~Grouped
      /\ UNCHANGED <<driver, bus, group, pending, runs, lost>>
      /\ log' = Append(log, e)
  BY DEF BusInv, Publish
<1>1. log \in Seq(Events) /\ NoRepeats(log) /\ ~In(e, log)
  BY <1>0 DEF BusTyped, HandledFits, Publish, ToSet, In
<1>2. log' \in Seq(Events) /\ NoRepeats(log') /\ \A x : In(x, log') <=> In(x, log) \/ x = e
  BY <1>0, <1>1, AppendFits
<1>3. \A s \in Subs : ~Waits(s, e) /\ runs[<<s, e>>] = 0
  BY <1>0, <1>1 DEF HandledFits, Ran
<1>4. ASSUME NEW s \in Subs
      PROVE  /\ sub'[s] \in Subscription /\ NoRepeats(sub'[s].inbox)
             /\ sub'[s].bus = sub[s].bus /\ sub'[s].st = sub[s].st
             /\ sub'[s].listening = sub[s].listening /\ sub'[s].cancelled = sub[s].cancelled
             /\ sub'[s].hand = sub[s].hand
             /\ \A x : Waits(s, x)' <=> Waits(s, x) \/ (s \in Listeners(b) /\ x = e)
  <2>1. sub[s] \in Subscription /\ sub[s].inbox \in Seq(Events) /\ NoRepeats(sub[s].inbox)
    BY <1>0 DEF BusTyped, HandledFits, Subscription
  <2>2. CASE s \in Listeners(b)
    <3>1. PICK q : q = Append(sub[s].inbox, e)
      OBVIOUS
    <3>2. q \in Seq(Events) /\ NoRepeats(q) /\ \A x : In(x, q) <=> In(x, sub[s].inbox) \/ x = e
      <4>1. ~In(e, sub[s].inbox)
        BY <1>3 DEF Waits
      <4> QED
        BY <2>1, <3>1, <4>1, AppendFits
    <3>3. sub'[s] = [sub[s] EXCEPT !.inbox = q]
      BY <2>2, <3>1 DEF Publish
    <3>4. /\ sub'[s] \in Subscription /\ sub'[s].inbox = q
          /\ sub'[s].bus = sub[s].bus /\ sub'[s].st = sub[s].st
          /\ sub'[s].listening = sub[s].listening /\ sub'[s].cancelled = sub[s].cancelled
          /\ sub'[s].hand = sub[s].hand
      BY <2>1, <3>2, <3>3 DEF Subscription
    <3> QED
      BY <2>2, <3>2, <3>4 DEF Waits
  <2>3. CASE s \notin Listeners(b)
    <3>1. sub'[s] = sub[s]
      BY <2>3 DEF Publish
    <3> QED
      BY <2>1, <2>3, <3>1 DEF Waits
  <2> QED
    BY <2>2, <2>3
<1>5. BusTyped'
  <2>1. sub' = [s \in Subs |-> sub'[s]]
    BY DEF Publish
  <2>2. sub' \in [Subs -> Subscription]
    BY <1>4, <2>1
  <2> QED
    BY <1>0, <1>2, <2>2 DEF BusTyped
<1>6. HandledFits'
  <2>1. ASSUME NEW s \in Subs, NEW x \in Events
        PROVE  /\ runs[<<s, x>>] \in {0, 1}
               /\ Waits(s, x)' => runs[<<s, x>>] = 0
               /\ Waits(s, x)' \/ Ran(s, x) => In(x, log')
               /\ x \in sub'[s].hand => Ran(s, x)
    <3>1. /\ runs[<<s, x>>] \in {0, 1} /\ (Waits(s, x) => runs[<<s, x>>] = 0)
          /\ (Waits(s, x) \/ Ran(s, x) => In(x, log))
          /\ (x \in sub[s].hand => Ran(s, x))
      BY <1>0 DEF HandledFits
    <3> QED
      BY <1>2, <1>3, <1>4, <3>1
  <2> QED
    BY <1>0, <1>2, <1>4, <2>1 DEF HandledFits, Ran
<1>7. DueFits'
  <2>1. ASSUME NEW s \in Subs
        PROVE  /\ sub'[s].listening = TRUE => sub'[s].st # "new"
               /\ \A x \in Events : <<s, x>> \in due' =>
                    /\ sub'[s].st # "new" /\ In(x, log')
                    /\ InUse(s)' /\ Of(s).closed' = FALSE =>
                         Ran(s, x) \/ Waits(s, x)' \/ <<s, x>> \in lost
    <3>0. sub[s].listening = TRUE => sub[s].st # "new"
      BY <1>0 DEF DueFits
    <3>1. ASSUME NEW x \in Events, <<s, x>> \in due
          PROVE  /\ sub[s].st # "new" /\ In(x, log)
                 /\ InUse(s) /\ Of(s).closed = FALSE =>
                      Ran(s, x) \/ Waits(s, x) \/ <<s, x>> \in lost
      BY <1>0, <3>1 DEF DueFits
    <3>2. InUse(s)' <=> InUse(s)
      BY <1>4 DEF InUse
    <3>3. Of(s).closed' = Of(s).closed
      BY <1>0, <1>4 DEF Of
    <3>4. ASSUME NEW x \in Events, <<s, x>> \in due', <<s, x>> \notin due
          PROVE  s \in Listeners(b) /\ x = e
      BY <3>4 DEF Publish
    <3>5. s \in Listeners(b) => sub[s].listening = TRUE
      <4>1. sub[s].listening \in BOOLEAN
        BY <1>0 DEF BusTyped, Subscription
      <4> QED
        BY <4>1 DEF Listeners
    <3> QED
      BY <1>2, <1>4, <3>0, <3>1, <3>2, <3>3, <3>4, <3>5
  <2> QED
    BY <1>0, <2>1 DEF DueFits, Ran
<1>8. GroupFits'
  BY <1>0 DEF GroupFits, Grouped
<1> QED
  BY <1>5, <1>6, <1>7, <1>8 DEF BusInv

\* An event added to the stream, which may be trimmed.
LEMMA PublishStreamKeeps ==
    ASSUME BusInv, NEW b \in Buses, NEW e \in Events, PublishStream(b, e)
    PROVE  BusInv'
<1>0. /\ BusTyped /\ HandledFits /\ DueFits /\ GroupFits /\ Grouped
      /\ UNCHANGED <<driver, bus, sub, pending, runs, due>>
      /\ log' = Append(log, e)
  BY DEF BusInv, PublishStream
<1>1. log \in Seq(Events) /\ NoRepeats(log) /\ ~In(e, log) /\ Len(log) \in Nat
  BY <1>0 DEF BusTyped, HandledFits, PublishStream, ToSet, In
<1>2. log' \in Seq(Events) /\ NoRepeats(log') /\ \A x : In(x, log') <=> In(x, log) \/ x = e
  BY <1>0, <1>1, AppendFits
<1>3. /\ Len(log') = Len(log) + 1 /\ log'[Len(log) + 1] = e
      /\ \A i \in 1 .. Len(log) : log'[i] = log[i]
  BY <1>0, <1>1, AppendProperties
<1>4. PICK first \in group.first .. Len(log') :
        /\ group' = [group EXCEPT !.first = first]
        /\ lost' = lost \union
               (Subs \X {log'[n] : n \in {k \in 1 .. first : k > group.read}})
  BY DEF PublishStream
<1>5. /\ group' \in Group /\ group'.base = group.base /\ group'.read = group.read
      /\ group'.first = first /\ first <= Len(log')
      /\ group.read \in Int /\ group.base \in Int /\ group.first \in Nat
  <2>1. group \in Group /\ first \in Nat
    BY <1>0, <1>1, <1>3 DEF BusTyped, Group
  <2> QED
    BY <1>4, <2>1 DEF Group
<1>6. \A s \in Subs : \A x : Waits(s, x)' <=> Waits(s, x)
  BY <1>0 DEF Waits
<1>7. BusTyped'
  BY <1>0, <1>2, <1>5 DEF BusTyped
<1>8. HandledFits'
  BY <1>0, <1>2, <1>6 DEF HandledFits, Ran
<1>9. DueFits'
  BY <1>0 DEF DueFits, Grouped
<1>10. GroupFits'
  <2>1. group'.read <= Len(log') /\ group'.first <= Len(log')
    BY <1>0, <1>1, <1>3, <1>5 DEF GroupFits
  <2>2. ASSUME NEW n \in 1 .. Len(log'), n <= group'.first, n > group'.read, NEW s \in Subs
        PROVE  <<s, log'[n]>> \in lost'
    <3>1. n \in {k \in 1 .. first : k > group.read}
      BY <1>1, <1>3, <1>5, <2>2
    <3> QED
      BY <1>4, <3>1
  <2>3. \A s \in Subs : ~Has(s, e)
    BY <1>0, <1>1 DEF Has, HandledFits
  <2>4. \A s \in Subs : \A x : Has(s, x)' <=> Has(s, x)
    BY <1>0, <1>6 DEF Has, Ran
  <2>5. ASSUME NEW n \in 1 .. Len(log'), NEW s \in Subs, Has(s, log[n])' PROVE n <= group'.read
    <3>1. Has(s, log'[n])
      BY <1>0, <2>5 DEF Has, Waits, Ran
    <3>2. n \in 1 .. Len(log) /\ log'[n] = log[n]
      BY <1>1, <1>3, <2>3, <2>5, <3>1
    <3> QED
      BY <1>0, <1>5, <3>1, <3>2 DEF GroupFits
  <2>6. ASSUME NEW n \in 1 .. Len(log'), group'.base < n, n <= group'.read
        PROVE  \E s \in Subs : Has(s, log[n])' \/ <<s, log'[n]>> \in lost'
    <3>1. n \in 1 .. Len(log) /\ log'[n] = log[n] /\ group.base < n /\ n <= group.read
      BY <1>0, <1>1, <1>3, <1>5, <2>6 DEF GroupFits
    <3>2. PICK s \in Subs : Has(s, log[n]) \/ <<s, log[n]>> \in lost
      BY <1>0, <3>1 DEF GroupFits
    <3> QED
      BY <1>0, <1>4, <3>1, <3>2 DEF Has, Waits, Ran
  <2>7. \A s, t \in Subs, x \in Events : Has(s, x)' /\ Has(t, x)' => s = t
    BY <1>0, <2>4 DEF GroupFits
  <2>8. \A s \in Subs, x \in Events : Waits(s, x)' => x \in pending' /\ sub'[s].st = "on"
    BY <1>0, <1>6 DEF GroupFits
  <2> QED
    BY <2>1, <2>2, <2>5, <2>6, <2>7, <2>8 DEF GroupFits
<1> QED
  BY <1>7, <1>8, <1>9, <1>10 DEF BusInv

\* A handler called for an event that waits.
LEMMA TakeKeeps ==
    ASSUME BusInv, NEW s \in Subs, Take(s)
    PROVE  BusInv'
<1>0. /\ BusTyped /\ HandledFits /\ DueFits /\ GroupFits
      /\ UNCHANGED <<driver, bus, log, group, pending, due, lost>>
      /\ sub[s] \in Subscription /\ sub[s].inbox \in Seq(Events) /\ NoRepeats(sub[s].inbox)
  BY DEF BusInv, BusTyped, HandledFits, Subscription, Take, stream
<1>1. PICK k \in DOMAIN sub[s].inbox :
        /\ sub' = [sub EXCEPT ![s].inbox = RemoveAt(@, k),
                              ![s].hand = @ \union {sub[s].inbox[k]}]
        /\ runs' = [runs EXCEPT ![<<s, sub[s].inbox[k]>>] = @ + 1]
  BY DEF Take
<1>2. PICK e \in Events : e = sub[s].inbox[k]
  BY <1>0
<1>3. PICK q : q = RemoveAt(sub[s].inbox, k)
  OBVIOUS
<1>4. q \in Seq(Events) /\ NoRepeats(q) /\ \A x : In(x, q) <=> In(x, sub[s].inbox) /\ x # e
  BY <1>0, <1>2, <1>3, RemoveFits
<1>5. Waits(s, e) /\ runs[<<s, e>>] = 0
  <2>1. Waits(s, e)
    BY <1>0, <1>2 DEF Waits, In
  <2> QED
    BY <1>0, <2>1 DEF HandledFits
<1>6. PICK h : h = sub[s].hand \union {e}
  OBVIOUS
<1>7. sub' = [sub EXCEPT ![s] = [sub[s] EXCEPT !.inbox = q, !.hand = h]]
  <2>1. sub' = [sub EXCEPT ![s].inbox = q, ![s].hand = h]
    BY <1>1, <1>2, <1>3, <1>6
  <2> QED
    BY <1>0, <2>1 DEF BusTyped, Subscription
<1>8. /\ sub' \in [Subs -> Subscription]
      /\ \A t \in Subs : t # s => sub'[t] = sub[t]
      /\ sub'[s].bus = sub[s].bus /\ sub'[s].st = sub[s].st
      /\ sub'[s].listening = sub[s].listening /\ sub'[s].cancelled = sub[s].cancelled
      /\ sub'[s].inbox = q /\ sub'[s].hand = h
  <2>1. PICK r : r = [sub[s] EXCEPT !.inbox = q, !.hand = h]
    OBVIOUS
  <2>2. /\ r \in Subscription /\ r.bus = sub[s].bus /\ r.st = sub[s].st
        /\ r.listening = sub[s].listening /\ r.cancelled = sub[s].cancelled
        /\ r.inbox = q /\ r.hand = h
    BY <1>0, <1>4, <1>6, <2>1 DEF Subscription
  <2>3. sub' = [sub EXCEPT ![s] = r] /\ sub \in [Subs -> Subscription]
    BY <1>0, <1>7, <2>1 DEF BusTyped
  <2> QED
    BY <2>2, <2>3
<1>9. /\ runs' \in [Subs \X Events -> Nat] /\ runs'[<<s, e>>] = 1
      /\ \A p \in Subs \X Events : p # <<s, e>> => runs'[p] = runs[p]
  BY <1>0, <1>1, <1>2, <1>5 DEF BusTyped
<1>10. BusTyped'
  BY <1>0, <1>8, <1>9 DEF BusTyped
<1>11. ASSUME NEW t \in Subs, NEW x
       PROVE  Waits(t, x)' <=> Waits(t, x) /\ ~(t = s /\ x = e)
  BY <1>4, <1>8 DEF Waits
<1>12. ASSUME NEW t \in Subs, NEW x \in Events
       PROVE  runs'[<<t, x>>] # 0 <=> runs[<<t, x>>] # 0 \/ (t = s /\ x = e)
  BY <1>5, <1>9
<1>13. HandledFits'
  <2>1. \A t \in Subs : NoRepeats(sub'[t].inbox)
    BY <1>0, <1>4, <1>8 DEF HandledFits
  <2>2. ASSUME NEW t \in Subs, NEW x \in Events
        PROVE  /\ runs'[<<t, x>>] \in {0, 1}
               /\ Waits(t, x)' => runs'[<<t, x>>] = 0
               /\ Waits(t, x)' \/ runs'[<<t, x>>] # 0 => In(x, log)
               /\ x \in sub'[t].hand => runs'[<<t, x>>] # 0
    <3>1. /\ runs[<<t, x>>] \in {0, 1} /\ (Waits(t, x) => runs[<<t, x>>] = 0)
          /\ (Waits(t, x) \/ runs[<<t, x>>] # 0 => In(x, log))
          /\ (x \in sub[t].hand => runs[<<t, x>>] # 0)
      BY <1>0 DEF HandledFits, Ran
    <3>2. CASE t = s /\ x = e
      BY <1>5, <1>9, <1>11, <3>1, <3>2
    <3>3. CASE ~(t = s /\ x = e)
      <4>1. runs'[<<t, x>>] = runs[<<t, x>>]
        BY <1>9, <3>3
      <4>2. x \in sub'[t].hand => x \in sub[t].hand
        BY <1>6, <1>8, <3>3
      <4> QED
        BY <1>11, <3>1, <3>3, <4>1, <4>2
    <3> QED
      BY <3>2, <3>3
  <2> QED
    BY <1>0, <2>1, <2>2 DEF HandledFits, Ran
<1>14. ASSUME NEW t \in Subs, NEW x \in Events PROVE Has(t, x)' <=> Has(t, x)
  BY <1>5, <1>11, <1>12 DEF Has, Ran
<1>15. DueFits'
  <2>1. \A t \in Subs : /\ sub'[t].st = sub[t].st /\ sub'[t].listening = sub[t].listening
                        /\ sub'[t].cancelled = sub[t].cancelled /\ sub'[t].bus = sub[t].bus
    BY <1>8
  <2> SUFFICES ASSUME ~Grouped, NEW t \in Subs, NEW x \in Events, <<t, x>> \in due
               PROVE  /\ sub[t].st # "new" /\ In(x, log)
                      /\ InUse(t)' /\ Of(t).closed' = FALSE =>
                           Has(t, x)' \/ <<t, x>> \in lost
    <3>1. \A t \in Subs : sub'[t].listening = TRUE => sub'[t].st # "new"
      BY <1>0, <2>1 DEF DueFits
    <3> QED
      BY <1>0, <2>1, <3>1 DEF DueFits, Has, Grouped
  <2>2. /\ sub[t].st # "new" /\ In(x, log)
        /\ InUse(t) /\ Of(t).closed = FALSE => Has(t, x) \/ <<t, x>> \in lost
    BY <1>0 DEF DueFits, Has
  <2>3. (InUse(t)' <=> InUse(t)) /\ Of(t).closed' = Of(t).closed
    BY <1>0, <2>1 DEF InUse, Of
  <2> QED
    BY <1>14, <2>2, <2>3
<1>16. GroupFits'
  <2> SUFFICES ASSUME Grouped PROVE GroupFits'
    BY <1>0 DEF GroupFits, Grouped
  <2>1. \A n \in 1 .. Len(log) : log[n] \in Events
    BY <1>0 DEF BusTyped
  <2>2. \A t \in Subs : sub'[t].st = sub[t].st
    BY <1>8
  <2>3. \A n \in 1 .. Len(log), t \in Subs : Has(t, log[n])' <=> Has(t, log[n])
    <3> SUFFICES ASSUME NEW n \in 1 .. Len(log), NEW t \in Subs
                 PROVE  Has(t, log[n])' <=> Has(t, log[n])
      OBVIOUS
    <3>1. PICK x \in Events : x = log[n]
      BY <2>1
    <3>2. Has(t, log[n])' <=> Has(t, x)'
      BY <1>0, <3>1 DEF Has, Ran, Waits
    <3> QED
      BY <1>14, <3>1, <3>2
  <2> QED
    BY <1>0, <1>11, <1>14, <2>1, <2>2, <2>3 DEF GroupFits
<1> QED
  BY <1>10, <1>13, <1>15, <1>16 DEF BusInv

\* A handler that returns: what is acknowledged has been handled, and waits nowhere.
LEMMA HandlerEndsKeeps ==
    ASSUME BusInv, NEW s \in Subs, HandlerEnds(s)
    PROVE  BusInv'
<1>0. /\ BusTyped /\ HandledFits /\ DueFits /\ GroupFits
      /\ UNCHANGED <<driver, bus, log, group, runs, due, lost>>
      /\ sub[s] \in Subscription
  BY DEF BusInv, BusTyped, HandlerEnds, delivery
<1>1. PICK e \in sub[s].hand :
        /\ sub' = [sub EXCEPT ![s].hand = @ \ {e}]
        /\ pending' = pending \/ pending' = pending \ {e}
  BY DEF HandlerEnds
<1>2. PICK h : h = sub[s].hand \ {e}
  OBVIOUS
<1>3. /\ sub' \in [Subs -> Subscription]
      /\ \A t \in Subs :
           /\ sub'[t].bus = sub[t].bus /\ sub'[t].st = sub[t].st
           /\ sub'[t].listening = sub[t].listening /\ sub'[t].cancelled = sub[t].cancelled
           /\ sub'[t].inbox = sub[t].inbox /\ sub'[t].hand \subseteq sub[t].hand
  <2>1. PICK r : r = [sub[s] EXCEPT !.hand = h]
    OBVIOUS
  <2>2. /\ r \in Subscription /\ r.bus = sub[s].bus /\ r.st = sub[s].st
        /\ r.listening = sub[s].listening /\ r.cancelled = sub[s].cancelled
        /\ r.inbox = sub[s].inbox /\ r.hand = h
    BY <1>0, <1>2, <2>1 DEF Subscription
  <2>3. sub' = [sub EXCEPT ![s] = r] /\ sub \in [Subs -> Subscription]
    BY <1>0, <1>1, <1>2, <2>1 DEF BusTyped
  <2> QED
    BY <1>2, <2>2, <2>3
<1>4. e \in Events /\ Ran(s, e)
  BY <1>0 DEF Subscription, HandledFits
<1>5. \A t \in Subs : \A x : Waits(t, x)' <=> Waits(t, x)
  BY <1>3 DEF Waits
<1>6. BusTyped'
  BY <1>0, <1>3 DEF BusTyped
<1>7. HandledFits'
  BY <1>0, <1>3, <1>5 DEF HandledFits, Ran
<1>8. DueFits'
  <2>1. \A t \in Subs : (InUse(t)' <=> InUse(t)) /\ Of(t).closed' = Of(t).closed
    BY <1>0, <1>3 DEF InUse, Of
  <2>2. \A t \in Subs : sub'[t].listening = TRUE => sub'[t].st # "new"
    BY <1>0, <1>3 DEF DueFits
  <2> QED
    BY <1>0, <1>3, <1>5, <2>1, <2>2 DEF DueFits, Ran, Grouped
<1>9. GroupFits'
  <2> SUFFICES ASSUME Grouped PROVE GroupFits'
    BY <1>0 DEF GroupFits, Grouped
  <2>1. \A t \in Subs : ~Waits(t, e)
    BY <1>0, <1>4 DEF GroupFits, Has, HandledFits, Ran
  <2>2. \A t \in Subs, x \in Events : Waits(t, x)' => x \in pending' /\ sub'[t].st = "on"
    BY <1>0, <1>1, <1>3, <1>5, <2>1 DEF GroupFits
  <2>3. \A t \in Subs : \A x : Has(t, x)' <=> Has(t, x)
    BY <1>0, <1>5 DEF Has, Ran
  <2> QED
    BY <1>0, <2>2, <2>3 DEF GroupFits
<1> QED
  BY <1>6, <1>7, <1>8, <1>9 DEF BusInv

\* An event a client drops.
LEMMA DropKeeps ==
    ASSUME BusInv, NEW s \in Subs, Drop(s)
    PROVE  BusInv'
<1>0. /\ BusTyped /\ HandledFits /\ DueFits /\ ~Grouped
      /\ UNCHANGED <<driver, bus, log, group, pending, runs, due>>
      /\ sub[s] \in Subscription /\ sub[s].inbox \in Seq(Events) /\ NoRepeats(sub[s].inbox)
  BY DEF BusInv, BusTyped, HandledFits, Subscription, Drop, stream, Grouped
<1>1. PICK q : q = Tail(sub[s].inbox)
  OBVIOUS
<1>2. PICK e : e = Head(sub[s].inbox)
  OBVIOUS
<1>3. q \in Seq(Events) /\ NoRepeats(q) /\ \A x : In(x, q) <=> In(x, sub[s].inbox) /\ x # e
  BY <1>0, <1>1, <1>2, TailFits DEF Drop
<1>4. lost' = lost \union {<<s, e>>}
  BY <1>2 DEF Drop
<1>5. /\ sub' \in [Subs -> Subscription]
      /\ \A t \in Subs :
           /\ sub'[t].bus = sub[t].bus /\ sub'[t].st = sub[t].st
           /\ sub'[t].listening = sub[t].listening /\ sub'[t].cancelled = sub[t].cancelled
           /\ sub'[t].hand = sub[t].hand
           /\ t # s => sub'[t].inbox = sub[t].inbox
      /\ sub'[s].inbox = q
  <2>1. PICK r : r = [sub[s] EXCEPT !.inbox = q]
    OBVIOUS
  <2>2. /\ r \in Subscription /\ r.bus = sub[s].bus /\ r.st = sub[s].st
        /\ r.listening = sub[s].listening /\ r.cancelled = sub[s].cancelled
        /\ r.inbox = q /\ r.hand = sub[s].hand
    BY <1>0, <1>3, <2>1 DEF Subscription
  <2>3. sub' = [sub EXCEPT ![s] = r] /\ sub \in [Subs -> Subscription]
    BY <1>0, <1>1, <2>1 DEF BusTyped, Drop
  <2> QED
    BY <2>2, <2>3
<1>6. \A t \in Subs : \A x : Waits(t, x)' <=> Waits(t, x) /\ ~(t = s /\ x = e)
  BY <1>3, <1>5 DEF Waits
<1>7. BusTyped'
  BY <1>0, <1>5 DEF BusTyped
<1>8. HandledFits'
  <2>1. \A t \in Subs : NoRepeats(sub'[t].inbox)
    BY <1>0, <1>3, <1>5 DEF HandledFits
  <2> QED
    BY <1>0, <1>5, <1>6, <2>1 DEF HandledFits, Ran
<1>9. DueFits'
  <2>1. \A t \in Subs : (InUse(t)' <=> InUse(t)) /\ Of(t).closed' = Of(t).closed
    BY <1>0, <1>5 DEF InUse, Of
  <2>2. \A t \in Subs : sub'[t].listening = TRUE => sub'[t].st # "new"
    BY <1>0, <1>5 DEF DueFits
  <2>3. ASSUME NEW t \in Subs, NEW x \in Events, <<t, x>> \in due
        PROVE  /\ sub[t].st # "new" /\ In(x, log)
               /\ InUse(t) /\ Of(t).closed = FALSE =>
                    Ran(t, x) \/ Waits(t, x)' \/ <<t, x>> \in lost'
    <3>1. /\ sub[t].st # "new" /\ In(x, log)
          /\ InUse(t) /\ Of(t).closed = FALSE =>
               Ran(t, x) \/ Waits(t, x) \/ <<t, x>> \in lost
      BY <1>0, <2>3 DEF DueFits
    <3> QED
      BY <1>4, <1>6, <3>1
  <2> QED
    BY <1>0, <1>5, <2>1, <2>2, <2>3 DEF DueFits, Ran
<1>10. GroupFits'
  BY <1>0 DEF GroupFits, Grouped
<1> QED
  BY <1>7, <1>8, <1>9, <1>10 DEF BusInv

\* A batch read by one consumer of the group, or lost on the way to it.
LEMMA ReadKeeps ==
    ASSUME BusInv, NEW s \in Subs, Read(s)
    PROVE  BusInv'
<1> DEFINE first == NextUnread
           last == Least(first + Batch - 1, Len(log))
           events == SubSeq(log, first, last)
<1>0. /\ BusTyped /\ HandledFits /\ DueFits /\ GroupFits /\ Grouped
      /\ UNCHANGED <<driver, bus, log, runs, due>>
      /\ sub[s] \in Subscription /\ sub[s].inbox = <<>> /\ sub[s].hand = {} /\ sub[s].st = "on"
      /\ log \in Seq(Events) /\ NoRepeats(log) /\ Len(log) \in Nat
      /\ group.read \in Int /\ group.first \in Nat /\ group.base \in Int
      /\ group' = [group EXCEPT !.read = last]
      /\ pending' = pending \union ToSet(events)
      /\ \/ sub' = [sub EXCEPT ![s].inbox = events] /\ lost' = lost
         \/ lost' = lost \union (Subs \X ToSet(events)) /\ sub' = sub
  BY DEF BusInv, BusTyped, HandledFits, Read, Group
<1>1. /\ first \in Nat \ {0} /\ last \in Nat /\ first <= last /\ last <= Len(log)
      /\ group.read < first /\ group.first < first
      /\ (group.read < first - 1 => group.first = first - 1)
  BY <1>0, BusAssumption DEF Read, NextUnread, Least
<1>2. PICK q : q = events
  OBVIOUS
<1>3. PICK a \in Nat \ {0} : a = first
  BY <1>1
<1>4. PICK z \in Nat : z = last
  BY <1>1
<1>5. /\ q \in Seq(Events) /\ NoRepeats(q) /\ \A x : In(x, q) <=> \E n \in a .. z : log[n] = x
  <2>1. q = SubSeq(log, a, z) /\ a <= z /\ z <= Len(log)
    BY <1>1, <1>2, <1>3, <1>4
  <2>2. log \in Seq(Events) /\ NoRepeats(log)
    BY <1>0
  <2> QED
    BY <2>1, <2>2, SubSeqFits
<1>6. \A x : x \in ToSet(q) <=> In(x, q)
  BY DEF ToSet, In
<1>7. /\ a <= z /\ z <= Len(log) /\ group.read < a /\ group.first < a
      /\ (group.read < a - 1 => group.first = a - 1)
      /\ group' = [group EXCEPT !.read = z]
      /\ pending' = pending \union ToSet(q)
      /\ \/ sub' = [sub EXCEPT ![s].inbox = q] /\ lost' = lost
         \/ lost' = lost \union (Subs \X ToSet(q)) /\ sub' = sub
  BY <1>0, <1>1, <1>2, <1>3, <1>4
<1> HIDE DEF first, last, events
<1>8. /\ group' \in Group /\ group'.base = group.base /\ group'.read = z
      /\ group'.first = group.first
  <2>1. PICK i \in Int : i = z
    OBVIOUS
  <2>2. PICK g \in Group : g = group
    BY <1>0 DEF BusTyped
  <2>3. group' = [g EXCEPT !.read = i]
    BY <1>7, <2>1, <2>2
  <2>4. group' \in Group
    BY <2>3 DEF Group
  <2>5. group'.base = g.base /\ group'.read = i /\ group'.first = g.first
    BY <2>3 DEF Group
  <2> QED
    BY <2>1, <2>2, <2>4, <2>5
<1>9. /\ sub' \in [Subs -> Subscription]
      /\ \A t \in Subs :
           /\ sub'[t].bus = sub[t].bus /\ sub'[t].st = sub[t].st
           /\ sub'[t].listening = sub[t].listening /\ sub'[t].cancelled = sub[t].cancelled
           /\ sub'[t].hand = sub[t].hand
           /\ t # s => sub'[t].inbox = sub[t].inbox
      /\ \/ sub'[s].inbox = q /\ lost' = lost
         \/ sub'[s].inbox = <<>> /\ lost' = lost \union (Subs \X ToSet(q))
  <2>1. CASE sub' = [sub EXCEPT ![s].inbox = q] /\ lost' = lost
    <3>1. PICK r : r = [sub[s] EXCEPT !.inbox = q]
      OBVIOUS
    <3>2. /\ r \in Subscription /\ r.bus = sub[s].bus /\ r.st = sub[s].st
          /\ r.listening = sub[s].listening /\ r.cancelled = sub[s].cancelled
          /\ r.inbox = q /\ r.hand = sub[s].hand
      BY <1>0, <1>5, <3>1 DEF Subscription
    <3>3. sub' = [sub EXCEPT ![s] = r] /\ sub \in [Subs -> Subscription]
      BY <1>0, <2>1, <3>1 DEF BusTyped
    <3> QED
      BY <2>1, <3>2, <3>3
  <2>2. CASE lost' = lost \union (Subs \X ToSet(q)) /\ sub' = sub
    BY <1>0, <2>2 DEF BusTyped
  <2> QED
    BY <1>7, <2>1, <2>2
<1>10. /\ \A t \in Subs : \A x : t # s => (Waits(t, x)' <=> Waits(t, x))
       /\ \A x : ~Waits(s, x)
       /\ \A x : Waits(s, x)' => In(x, q)
       /\ \A x : In(x, q) => Waits(s, x)' \/ \A t \in Subs : <<t, x>> \in lost'
  BY <1>0, <1>6, <1>9 DEF Waits, In
<1>11. \A n \in 1 .. Len(log), m \in 1 .. Len(log) : log[n] = log[m] => n = m
  BY <1>0 DEF NoRepeats
<1>12. ASSUME NEW t \in Subs, NEW x \in Events, In(x, q) PROVE ~Has(t, x) /\ In(x, log)
  <2>1. PICK n \in a .. z : log[n] = x
    BY <1>5, <1>12
  <2>2. n \in 1 .. Len(log) /\ ~(n <= group.read)
    BY <1>0, <1>7
  <2> QED
    BY <1>0, <2>1, <2>2 DEF GroupFits, In
<1>13. BusTyped'
  BY <1>0, <1>8, <1>9 DEF BusTyped
<1>14. HandledFits'
  <2>1. \A t \in Subs : NoRepeats(sub'[t].inbox)
    <3>1. NoRepeats(sub'[s].inbox)
      BY <1>5, <1>9 DEF NoRepeats
    <3> QED
      BY <1>0, <1>9, <3>1 DEF HandledFits
  <2>2. ASSUME NEW t \in Subs, NEW x \in Events
        PROVE  /\ Waits(t, x)' => runs[<<t, x>>] = 0
               /\ Waits(t, x)' => In(x, log)
    <3>1. CASE t = s
      BY <1>10, <1>12, <3>1 DEF Has, Ran
    <3>2. CASE t # s
      BY <1>0, <1>10, <3>2 DEF HandledFits
    <3> QED
      BY <3>1, <3>2
  <2> QED
    BY <1>0, <1>9, <2>1, <2>2 DEF HandledFits, Ran
<1>15. DueFits'
  BY <1>0, <1>9 DEF DueFits, Grouped
<1>16. GroupFits'
  <2>0. ASSUME NEW n \in 1 .. Len(log) PROVE log[n] \in Events
    BY <1>0
  <2>1. ASSUME NEW t \in Subs, NEW x \in Events
        PROVE  Has(t, x)' => Has(t, x) \/ (t = s /\ In(x, q))
    BY <1>0, <1>10 DEF Has, Ran
  <2>2. ASSUME NEW t \in Subs, NEW x \in Events
        PROVE  Has(t, x) => Has(t, x)'
    <3>1. Ran(t, x) => Ran(t, x)'
      BY <1>0 DEF Ran
    <3>2. Waits(t, x) => Waits(t, x)'
      BY <1>10
    <3> QED
      BY <3>1, <3>2 DEF Has
  <2>3. lost \subseteq lost'
    BY <1>9
  <2>4. ASSUME NEW n \in 1 .. Len(log), NEW t \in Subs, Has(t, log[n])' PROVE n <= z
    <3>1. PICK x \in Events : x = log[n]
      BY <2>0
    <3>2. Has(t, x)'
      BY <1>0, <2>4, <3>1 DEF Has, Ran, Waits
    <3>3. CASE Has(t, x)
      <4>1. n <= group.read
        BY <1>0, <3>1, <3>3 DEF GroupFits
      <4> QED
        BY <1>0, <1>7, <4>1
    <3>4. CASE In(x, q)
      <4>1. PICK m \in a .. z : log[m] = x
        BY <1>5, <3>4
      <4>2. m \in 1 .. Len(log)
        BY <1>0, <1>7
      <4> QED
        BY <1>11, <3>1, <4>1, <4>2
    <3> QED
      BY <2>1, <3>2, <3>3, <3>4
  <2>5. ASSUME NEW n \in 1 .. Len(log), group.base < n, n <= z
        PROVE  \E t \in Subs : Has(t, log[n])' \/ <<t, log[n]>> \in lost'
    <3>1. PICK x \in Events : x = log[n]
      BY <2>0
    <3> SUFFICES \E t \in Subs : Has(t, x)' \/ <<t, x>> \in lost'
      BY <1>0, <3>1 DEF Has, Ran, Waits
    <3>2. CASE n <= group.read
      BY <1>0, <2>2, <2>3, <2>5, <3>1, <3>2 DEF GroupFits
    <3>3. CASE n > group.read /\ n < a
      <4>1. n <= group.first
        BY <1>0, <1>7, <3>3
      <4>2. <<s, x>> \in lost
        BY <1>0, <3>1, <3>3, <4>1 DEF GroupFits
      <4> QED
        BY <2>3, <4>2
    <3>4. CASE n >= a
      <4>1. In(x, q)
        BY <1>5, <2>5, <3>1, <3>4
      <4> QED
        BY <1>10, <4>1 DEF Has
    <3>5. n \in Int /\ group.read \in Int /\ a \in Int
      BY <1>0
    <3>6. n <= group.read \/ (n > group.read /\ n < a) \/ n >= a
      BY <3>5
    <3> QED
      BY <3>2, <3>3, <3>4, <3>6
  <2>6. ASSUME NEW t \in Subs, NEW u \in Subs, NEW x \in Events, Has(t, x)', Has(u, x)'
        PROVE  t = u
    BY <1>0, <1>12, <2>1, <2>6 DEF GroupFits
  <2>7. ASSUME NEW t \in Subs, NEW x \in Events, Waits(t, x)'
        PROVE  x \in pending' /\ sub'[t].st = "on"
    <3>1. CASE t = s
      BY <1>0, <1>6, <1>7, <1>9, <1>10, <2>7, <3>1
    <3>2. CASE t # s
      BY <1>0, <1>7, <1>9, <1>10, <2>7, <3>2 DEF GroupFits
    <3> QED
      BY <3>1, <3>2
  <2>8. ASSUME NEW n \in 1 .. Len(log), n <= group.first, n > z PROVE FALSE
    BY <1>0, <1>7, <2>8
  <2>9. z <= Len(log) /\ group.first <= Len(log)
    BY <1>0, <1>7
  <2> QED
    BY <1>0, <1>8, <2>4, <2>5, <2>6, <2>7, <2>8, <2>9 DEF GroupFits
<1> QED
  BY <1>13, <1>14, <1>15, <1>16 DEF BusInv

\* The death of a process: what it had in hand is lost.
LEMMA DieKeeps ==
    ASSUME BusInv, NEW b \in Buses, Die(b)
    PROVE  BusInv'
<1>0. /\ BusTyped /\ HandledFits /\ DueFits /\ GroupFits
      /\ UNCHANGED <<driver, log, group, pending, runs, due>>
      /\ sub \in [Subs -> Subscription]
  BY DEF BusInv, BusTyped, Die, stream
<1>1. ASSUME NEW s \in Subs, sub[s].bus = b
      PROVE  /\ sub'[s] \in Subscription /\ sub'[s].bus = b /\ sub'[s].st = "over"
             /\ sub'[s].listening = FALSE /\ sub'[s].inbox = <<>> /\ sub'[s].hand = {}
  <2>1. PICK o : o = Over(sub[s])
    OBVIOUS
  <2>2. /\ o \in Subscription /\ o.bus = b /\ o.st = "over" /\ o.listening = FALSE
        /\ o.inbox = <<>>
    BY <1>0, <1>1, <2>1, OverFits
  <2>3. PICK h \in SUBSET Events : h = {}
    OBVIOUS
  <2>4. sub'[s] = [o EXCEPT !.hand = h]
    BY <1>1, <2>1, <2>3 DEF Die
  <2> QED
    BY <2>2, <2>3, <2>4 DEF Subscription
<1>2. ASSUME NEW s \in Subs, sub[s].bus # b PROVE sub'[s] = sub[s]
  BY <1>2 DEF Die
<1>3. sub' \in [Subs -> Subscription]
  <2>1. sub' = [s \in Subs |-> sub'[s]]
    BY DEF Die
  <2>2. \A s \in Subs : sub'[s] \in Subscription
    BY <1>0, <1>1, <1>2
  <2> QED
    BY <2>1, <2>2
<1>4. /\ bus' \in [Buses -> [closed : BOOLEAN, subs : SUBSET Subs, ending : SUBSET Subs]]
      /\ \A c \in Buses : c # b => bus'[c] = bus[c]
  BY <1>0 DEF BusTyped, Die
<1>5. lost \subseteq lost'
  BY DEF Die
<1>6. ASSUME NEW s \in Subs, sub[s].bus = b, NEW x, Waits(s, x), NEW t \in Subs
      PROVE  <<t, x>> \in lost'
  <2>1. x \in InHand(s)
    BY <1>6 DEF Waits, In, InHand, ToSet
  <2> QED
    BY <1>6, <2>1 DEF Die
<1>7. ASSUME NEW s \in Subs, NEW x, Waits(s, x)' PROVE Waits(s, x) /\ sub[s].bus # b
  <2>1. sub'[s].inbox # <<>>
    BY <1>7 DEF Waits, In
  <2>2. sub[s].bus # b
    BY <1>1, <2>1
  <2> QED
    BY <1>2, <1>7, <2>2 DEF Waits
<1>8. \A s \in Subs : \A x : Waits(s, x) => Waits(s, x)' \/ \A t \in Subs : <<t, x>> \in lost'
  <2> SUFFICES ASSUME NEW s \in Subs, NEW x, Waits(s, x)
               PROVE  Waits(s, x)' \/ \A t \in Subs : <<t, x>> \in lost'
    OBVIOUS
  <2>1. CASE sub[s].bus = b
    BY <1>6, <2>1
  <2>2. CASE sub[s].bus # b
    BY <1>2, <2>2 DEF Waits
  <2> QED
    BY <2>1, <2>2
<1>9. BusTyped'
  BY <1>0, <1>3, <1>4 DEF BusTyped
<1>10. HandledFits'
  <2>1. ASSUME NEW s \in Subs PROVE NoRepeats(sub'[s].inbox) /\ sub'[s].hand \subseteq sub[s].hand
    <3>1. CASE sub[s].bus = b
      <4>1. sub'[s].inbox = <<>> /\ sub'[s].hand = {}
        BY <1>1, <3>1
      <4>2. NoRepeats(<<>>)
        BY DEF NoRepeats
      <4> QED
        BY <4>1, <4>2
    <3>2. CASE sub[s].bus # b
      BY <1>0, <1>2, <3>2 DEF HandledFits
    <3> QED
      BY <3>1, <3>2
  <2> QED
    BY <1>0, <1>7, <2>1 DEF HandledFits, Ran
<1>11. DueFits'
  <2> SUFFICES ASSUME NEW s \in Subs
               PROVE  /\ sub'[s].listening = TRUE => sub'[s].st # "new"
                      /\ ~Grouped =>
                           \A x \in Events : <<s, x>> \in due =>
                             /\ sub'[s].st # "new" /\ In(x, log)
                             /\ InUse(s)' /\ Of(s).closed' = FALSE =>
                                  Ran(s, x) \/ Waits(s, x)' \/ <<s, x>> \in lost'
    BY <1>0 DEF DueFits, Grouped, Ran
  <2>1. CASE sub[s].bus = b
    BY <1>0, <1>1, <2>1 DEF DueFits, InUse
  <2>2. CASE sub[s].bus # b
    <3>1. (InUse(s)' <=> InUse(s)) /\ Of(s).closed' = Of(s).closed
      <4>1. sub[s].bus \in Buses
        BY <1>0 DEF Subscription
      <4> QED
        BY <1>2, <1>4, <2>2, <4>1 DEF InUse, Of
    <3> QED
      BY <1>0, <1>2, <1>5, <1>8, <2>2, <3>1 DEF DueFits, Waits
  <2> QED
    BY <2>1, <2>2
<1>12. GroupFits'
  <2> SUFFICES ASSUME Grouped PROVE GroupFits'
    BY <1>0 DEF GroupFits, Grouped
  <2>1. ASSUME NEW s \in Subs, NEW x
        PROVE  /\ Has(s, x)' => Has(s, x)
               /\ Has(s, x) => Has(s, x)' \/ <<s, x>> \in lost'
    BY <1>0, <1>7, <1>8 DEF Has, Ran
  <2>2. \A n, t : Has(t, log[n])' <=> runs[<<t, log[n]>>] # 0 \/ In(log[n], sub'[t].inbox)
    BY <1>0 DEF Has, Ran, Waits
  <2>3. \A x, t : Has(t, x)' <=> runs[<<t, x>>] # 0 \/ In(x, sub'[t].inbox)
    BY <1>0 DEF Has, Ran, Waits
  <2>4. \A n, t : Has(t, log[n])' <=> \E x : x = log[n] /\ Has(t, x)'
    BY <2>2, <2>3
  <2>5. \A s \in Subs, x \in Events : Waits(s, x)' => x \in pending' /\ sub'[s].st = "on"
    BY <1>0, <1>2, <1>7 DEF GroupFits
  <2>6. ASSUME NEW n \in 1 .. Len(log), group.base < n, n <= group.read
        PROVE  \E s \in Subs : Has(s, log[n])' \/ <<s, log[n]>> \in lost'
    <3>1. PICK s \in Subs : Has(s, log[n]) \/ <<s, log[n]>> \in lost
      BY <1>0, <2>6 DEF GroupFits
    <3>2. Has(s, log[n])' \/ <<s, log[n]>> \in lost'
      BY <1>5, <2>1, <2>4, <3>1
    <3> QED
      BY <3>2
  <2>7. \A s \in Subs, n \in 1 .. Len(log) : Has(s, log[n])' => n <= group.read
    BY <1>0, <2>1, <2>4 DEF GroupFits
  <2>8. \A s, t \in Subs, x \in Events : Has(s, x)' /\ Has(t, x)' => s = t
    BY <1>0, <2>1 DEF GroupFits
  <2>9. \A n \in 1 .. Len(log) : n <= group.first /\ n > group.read =>
          \A s \in Subs : <<s, log[n]>> \in lost'
    BY <1>0, <1>5 DEF GroupFits
  <2>10. group.read <= Len(log) /\ group.first <= Len(log)
    BY <1>0 DEF GroupFits
  <2> QED
    BY <1>0, <2>5, <2>6, <2>7, <2>8, <2>9, <2>10 DEF GroupFits
<1> QED
  BY <1>9, <1>10, <1>11, <1>12 DEF BusInv

LEMMA InitBusInv == BusInit => BusInv
<1> SUFFICES ASSUME BusInit PROVE BusInv
  OBVIOUS
<1>1. /\ driver \in Drivers /\ log = <<>> /\ due = {}
      /\ bus = [b \in Buses |-> [closed |-> FALSE, subs |-> {}, ending |-> {}]]
      /\ group = [base |-> -1, read |-> -1, first |-> 0]
      /\ runs = [p \in Subs \X Events |-> 0]
      /\ sub \in [Subs -> [bus : Buses, st : {"new"}, at : {1}, listening : {FALSE},
                           cancelled : {FALSE}, inbox : {<<>>}, hand : {{}}]]
  BY DEF BusInit
<1>2. ASSUME NEW s \in Subs
      PROVE  /\ sub[s] \in Subscription /\ sub[s].inbox = <<>> /\ sub[s].hand = {}
             /\ sub[s].listening = FALSE
  <2>1. PICK r \in [bus : Buses, st : {"new"}, at : {1}, listening : {FALSE},
                    cancelled : {FALSE}, inbox : {<<>>}, hand : {{}}] : r = sub[s]
    BY <1>1
  <2>2. /\ r = [bus |-> r.bus, st |-> r.st, at |-> r.at, listening |-> r.listening,
                cancelled |-> r.cancelled, inbox |-> r.inbox, hand |-> r.hand]
        /\ r.bus \in Buses /\ r.st = "new" /\ r.at = 1 /\ r.listening = FALSE
        /\ r.cancelled = FALSE /\ r.inbox = <<>> /\ r.hand = {}
    OBVIOUS
  <2>3. r.inbox \in Seq(Events) /\ r.hand \in SUBSET Events /\ r.at \in Nat
    BY <2>2
  <2>4. r \in Subscription
    BY <2>2, <2>3 DEF Subscription
  <2> QED
    BY <2>1, <2>2, <2>4
<1>3. BusTyped
  <2>1. sub \in [Subs -> Subscription]
    BY <1>1, <1>2
  <2>2. group \in Group
    BY <1>1 DEF Group
  <2>3. log \in Seq(Events) /\ driver \in {"memory", "redis", "nats", "redisstream"}
    BY <1>1, BusAssumption
  <2>4. bus \in [Buses -> [closed : BOOLEAN, subs : SUBSET Subs, ending : SUBSET Subs]]
    BY <1>1
  <2>5. runs \in [Subs \X Events -> Nat]
    BY <1>1
  <2> QED
    BY <2>1, <2>2, <2>3, <2>4, <2>5 DEF BusTyped
<1>4. NoRepeats(<<>>) /\ \A x : ~In(x, <<>>)
  BY DEF NoRepeats, In
<1>5. \A s \in Subs : \A x : ~Waits(s, x)
  BY <1>2, <1>4 DEF Waits
<1>6. \A s \in Subs, x \in Events : runs[<<s, x>>] = 0
  BY <1>1
<1>7. HandledFits
  <2>1. \A s \in Subs, x \in Events : x \notin sub[s].hand
    BY <1>2
  <2>2. NoRepeats(log) /\ \A s \in Subs : NoRepeats(sub[s].inbox)
    BY <1>1, <1>2, <1>4
  <2> QED
    BY <1>5, <1>6, <2>1, <2>2 DEF HandledFits, Ran
<1>8. DueFits
  BY <1>1, <1>2 DEF DueFits
<1>9. GroupFits
  <2>1. Len(log) = 0 /\ group.read = -1 /\ group.first = 0
    BY <1>1
  <2>2. \A s \in Subs, x \in Events : ~Has(s, x)
    BY <1>5, <1>6 DEF Has, Ran
  <2> QED
    BY <1>5, <2>1, <2>2 DEF GroupFits
<1> QED
  BY <1>3, <1>7, <1>8, <1>9 DEF BusInv

LEMMA NextBusInv == BusInv /\ [BusNext]_busVars => BusInv'
<1> SUFFICES ASSUME BusInv, [BusNext]_busVars PROVE BusInv'
  OBVIOUS
<1>1. CASE UNCHANGED busVars
  <2>1. Control
    <3>1. UNCHANGED <<driver, bus, sub, log, group, pending, runs, due, lost>>
      BY <1>1 DEF busVars
    <3>2. \A s \in Subs : Keeps(s)
      BY <3>1, StaysKept
    <3> QED
      BY <3>1, <3>2 DEF Control, BusInv, BusTyped
  <2> QED
    BY <2>1, ControlKeeps
<1>2. ASSUME NEW s \in Subs, Steps(s) PROVE BusInv'
  BY <1>2, StepControls, ControlKeeps
<1>3. ASSUME NEW s \in Subs, Read(s) \/ Take(s) \/ HandlerEnds(s) \/ Drop(s)
      PROVE  BusInv'
  BY <1>3, ReadKeeps, TakeKeeps, HandlerEndsKeeps, DropKeeps
<1>4. ASSUME NEW b \in Buses, Close(b) \/ Die(b) PROVE BusInv'
  BY <1>4, CloseControls, ControlKeeps, DieKeeps
<1>5. ASSUME NEW b \in Buses, NEW e \in Events,
             Publish(b, e) \/ PublishStream(b, e)
      PROVE  BusInv'
  BY <1>5, PublishKeeps, PublishStreamKeeps
<1> QED
  BY <1>1, <1>2, <1>3, <1>4, <1>5 DEF BusNext, Steps

LEMMA BusInvHandled == BusInv => HandledOnce
<1> SUFFICES ASSUME BusInv PROVE HandledOnce
  OBVIOUS
<1>0. BusTyped /\ HandledFits /\ DueFits /\ GroupFits
  BY DEF BusInv
<1>1. \A q, e : e \in ToSet(q) <=> In(e, q)
  BY DEF ToSet, In
<1>2. \A s \in Subs, e \in Events : runs[<<s, e>>] \in {0, 1}
  BY <1>0 DEF HandledFits
<1>3. ASSUME ~Grouped, NEW s \in Subs, NEW e \in Events
      PROVE  /\ runs[<<s, e>>] <= 1
             /\ <<s, e>> \in due /\ InUse(s) /\ ~Of(s).closed =>
                  \/ runs[<<s, e>>] = 1
                  \/ e \in ToSet(sub[s].inbox)
                  \/ <<s, e>> \in lost
  <2>1. Of(s).closed \in BOOLEAN
    <3>1. sub[s].bus \in Buses
      BY <1>0 DEF BusTyped, Subscription
    <3> QED
      BY <1>0, <3>1 DEF BusTyped, Of
  <2>2. <<s, e>> \in due /\ InUse(s) /\ Of(s).closed = FALSE =>
          Ran(s, e) \/ Waits(s, e) \/ <<s, e>> \in lost
    BY <1>0, <1>3 DEF DueFits
  <2>3. runs[<<s, e>>] = 0 \/ runs[<<s, e>>] = 1
    BY <1>2
  <2> QED
    BY <1>1, <2>1, <2>2, <2>3 DEF Ran, Waits
<1>4. ASSUME Grouped, NEW n \in 1 .. Len(log)
      PROVE  LET e == log[n]
                 by == {s \in Subs : runs[<<s, e>>] > 0}
                 waits == {s \in Subs : e \in ToSet(sub[s].inbox)}
             IN  /\ \A s \in by : runs[<<s, e>>] = 1
                 /\ \A s, t \in by \union waits : s = t
                 /\ group.base < n /\ n <= group.read =>
                      \/ by \union waits # {}
                      \/ \E s \in Subs : <<s, e>> \in lost
                 /\ n <= group.read /\ n > group.base /\ e \notin pending =>
                      by # {} \/ \E s \in Subs : <<s, e>> \in lost
  <2>1. PICK e \in Events : e = log[n]
    BY <1>0 DEF BusTyped
  <2> DEFINE by == {s \in Subs : runs[<<s, e>>] > 0}
             waits == {s \in Subs : e \in ToSet(sub[s].inbox)}
  <2>2. \A s \in Subs : runs[<<s, e>>] = 0 \/ runs[<<s, e>>] = 1
    BY <1>2
  <2>3. \A s \in Subs : (s \in by <=> Ran(s, e)) /\ (s \in waits <=> Waits(s, e))
    BY <1>1, <2>2 DEF Ran, Waits
  <2>4. \A s \in by : runs[<<s, e>>] = 1
    BY <2>2, <2>3 DEF Ran
  <2>5. by \union waits \subseteq Subs
    OBVIOUS
  <2> HIDE DEF by, waits
  <2>6. \A s, t \in by \union waits : s = t
    BY <1>0, <1>4, <2>3, <2>5 DEF GroupFits, Has
  <2>7. ASSUME group.base < n, n <= group.read
        PROVE  by \union waits # {} \/ \E s \in Subs : <<s, e>> \in lost
    <3>1. PICK s \in Subs : Has(s, e) \/ <<s, e>> \in lost
      BY <1>0, <1>4, <2>1, <2>7 DEF GroupFits
    <3> QED
      BY <2>3, <3>1 DEF Has
  <2>8. ASSUME group.base < n, n <= group.read, e \notin pending
        PROVE  by # {} \/ \E s \in Subs : <<s, e>> \in lost
    <3>1. waits = {}
      BY <1>0, <1>4, <2>3, <2>5, <2>8 DEF GroupFits
    <3> QED
      BY <2>7, <2>8, <3>1
  <2>9. group.base \in Int /\ n \in Int
    BY <1>0 DEF BusTyped, Group
  <2> QED
    BY <2>1, <2>4, <2>6, <2>7, <2>8, <2>9 DEF by, waits
<1> QED
  BY <1>3, <1>4 DEF HandledOnce

\* Every subscription handles what was published while it listened at most once, and
\* does unless it ends or a fault loses it; a group hands each event to one consumer,
\* and acknowledges only what was handled.
THEOREM EachHandledOnce == BusSpec => []HandledOnce
<1>1. BusSpec => []BusInv
  BY InitBusInv, NextBusInv, PTL DEF BusSpec
<1> QED
  BY <1>1, BusInvHandled, PTL
=============================================================================
