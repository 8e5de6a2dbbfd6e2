------------------------- MODULE ChunkUploadProofs -------------------------
(***************************************************************************)
(* ChunkUpload for any number of sessions, chunks and requests: what is    *)
(* complete is whole, is completed once and leaves nothing behind, and     *)
(* nothing is reported as received that nobody completes.                  *)
(***************************************************************************)
EXTENDS ChunkUpload, TLAPS

-----------------------------------------------------------------------------
(* The inductive invariant.                                                *)

Places == {"wait", "saving", "merge", "put", "putting"}
RequestSet ==
    [pc : {"idle"}, of : {Nobody}, chunk : {Nobody}]
      \union [pc : Places, of : Sessions, chunk : Chunks]
FileStates == {"none", "part", "torn", "whole"}
HistorySet == [broke : SUBSET Sessions, unmerged : SUBSET Sessions,
               put : SUBSET Sessions, completed : SUBSET Sessions,
               again : SUBSET Sessions, late : SUBSET (Sessions \X Chunks)]

\* The variables have their types: in particular only what is under the path is
\* ever mixed.
TypeOK ==
    /\ session \in [Sessions -> {"none", "open", "deleted"}]
    /\ mu \in [Sessions -> Requests \union {Nobody}]
    /\ temp \in [Sessions -> [Chunks -> FileStates]]
    /\ merged \in [Sessions -> {"none", "torn", "whole"}]
    /\ object \in FileStates \union {"mixed"}
    /\ request \in [Requests -> RequestSet]
    /\ closed \in BOOLEAN
    /\ history \in HistorySet

\* A request works on its session with the session's mutex.
Working(r) == request[r].pc \in Places \ {"wait"}
Merging(r) == request[r].pc \in {"merge", "put", "putting"}

\* What holds for a request: with the mutex it alone writes what it is at; it goes
\* on to the merge only when all chunks are there, of a deleted session only when
\* all of them came late; and what it merged is whole unless a transfer broke off.
RequestFits(r) ==
    /\ request[r].pc # "idle" => session[Of(r)] # "none"
    /\ Working(r) => mu[Of(r)] = r
    /\ At(r, "saving") => temp[Of(r)][request[r].chunk] = "part"
    /\ At(r, "merge") => Received(Of(r)) = Chunks
    /\ request[r].pc \in {"put", "putting"} =>
         merged[Of(r)] = "whole" \/ Of(r) \in history.broke
    /\ At(r, "putting") => Of(r) \in history.put
    /\ Merging(r) /\ Over(Of(r)) => LateFor(Of(r)) = Chunks

\* What holds for a session.
FilesFit(s) ==
    /\ Busy(s) => Working(mu[s]) /\ Of(mu[s]) = s
    /\ \A i \in Chunks : /\ temp[s][i] = "torn" => s \in history.broke
                         /\ temp[s][i] = "part" => /\ Busy(s)
                                                   /\ At(mu[s], "saving")
                                                   /\ request[mu[s]].chunk = i
    /\ session[s] = "none" => Received(s) = {}
    /\ Over(s) => Received(s) \subseteq LateFor(s)
    /\ session[s] = "open" /\ ~Busy(s) /\ ~closed =>
         \/ Received(s) # Chunks
         \/ s \in history.broke \union history.unmerged
CompletionFits(s) ==
    /\ s \in history.completed => Over(s)
    /\ s \in history.again => LateFor(s) = Chunks
SessionFits(s) == FilesFit(s) /\ CompletionFits(s)

\* As long as one session alone has written the file under the path, nobody has
\* mixed it, and once that session is complete it is whole.
ObjectFits(s) ==
    history.put = {s} =>
        /\ object # "mixed"
        /\ s \in history.completed =>
             object = "whole" \/ s \in history.broke \/ LateFor(s) = Chunks

IInv ==
    /\ TypeOK
    /\ \A r \in Requests : RequestFits(r)
    /\ \A s \in Sessions : SessionFits(s) /\ ObjectFits(s)
-----------------------------------------------------------------------------
(* What the pieces of the actions do.                                      *)

LEMMA NobodyAsksNothing == \A r \in Requests : r # Nobody
  BY UploadAssumption DEF UploadAssumption

LEMMA FirstInv == Init => IInv
<1> SUFFICES ASSUME Init PROVE IInv
  OBVIOUS
<1>1. TypeOK
  BY DEF Init, TypeOK, RequestSet, HistorySet, FileStates, Idle, Empty
<1>2. ASSUME NEW r \in Requests PROVE RequestFits(r)
  BY DEF Init, RequestFits, Working, Merging, At, Places, Idle
<1>3. ASSUME NEW s \in Sessions PROVE SessionFits(s) /\ ObjectFits(s)
  BY DEF Init, SessionFits, FilesFit, CompletionFits, ObjectFits, Busy, Over, Received, Empty
<1> QED
  BY <1>1, <1>2, <1>3 DEF IInv

\* A request that is under way has a session and a chunk.
LEMMA UnderWay ==
    ASSUME TypeOK, NEW r \in Requests, request[r].pc # "idle"
    PROVE  Of(r) \in Sessions /\ request[r].chunk \in Chunks /\ request[r].pc \in Places
  BY DEF TypeOK, RequestSet, Of

\* It goes on to another place.
LEMMA GoesOn ==
    ASSUME TypeOK, NEW r \in Requests, request[r].pc # "idle",
           NEW place \in Places, Goto(r, place)
    PROVE  /\ request' \in [Requests -> RequestSet]
           /\ request'[r].pc = place
           /\ request'[r].of = request[r].of
           /\ request'[r].chunk = request[r].chunk
           /\ \A q \in Requests : q # r => request'[q] = request[q]
<1> DEFINE moved == [request[r] EXCEPT !.pc = place]
<1>1. /\ moved \in RequestSet
      /\ moved.pc = place
      /\ moved.of = request[r].of
      /\ moved.chunk = request[r].chunk
  BY DEF TypeOK, RequestSet
<1>2. request' = [request EXCEPT ![r] = moved]
  BY DEF Goto
<1> HIDE DEF moved
<1> QED
  BY <1>1, <1>2 DEF TypeOK

\* It returns and gives the mutex back.
LEMMA Returns ==
    ASSUME TypeOK, NEW r \in Requests, request[r].pc # "idle", Return(r)
    PROVE  /\ request' \in [Requests -> RequestSet]
           /\ mu' \in [Sessions -> Requests \union {Nobody}]
           /\ request'[r] = Idle
           /\ mu'[Of(r)] = Nobody
           /\ \A q \in Requests : q # r => request'[q] = request[q]
           /\ \A t \in Sessions : t # Of(r) => mu'[t] = mu[t]
<1>1. Idle \in RequestSet
  BY DEF Idle, RequestSet
<1> QED
  BY <1>1, UnderWay DEF Return, TypeOK

\* The file of one chunk changes.
LEMMA OneFile ==
    ASSUME TypeOK, NEW s \in Sessions, NEW i \in Chunks, NEW v \in FileStates,
           temp' = [temp EXCEPT ![s][i] = v]
    PROVE  /\ temp' \in [Sessions -> [Chunks -> FileStates]]
           /\ temp'[s][i] = v
           /\ \A j \in Chunks : j # i => temp'[s][j] = temp[s][j]
           /\ \A t \in Sessions : t # s => temp'[t] = temp[t]
<1> DEFINE files == [temp[s] EXCEPT ![i] = v]
<1>1. /\ files \in [Chunks -> FileStates]
      /\ files[i] = v
      /\ \A j \in Chunks : j # i => files[j] = temp[s][j]
  BY DEF TypeOK
<1>2. temp' = [temp EXCEPT ![s] = files]
  OBVIOUS
<1> HIDE DEF files
<1> QED
  BY <1>1, <1>2 DEF TypeOK

\* The directory is removed.
LEMMA Removed ==
    ASSUME TypeOK, NEW s \in Sessions, Cleanup(s)
    PROVE  /\ temp' \in [Sessions -> [Chunks -> FileStates]]
           /\ merged' \in [Sessions -> {"none", "torn", "whole"}]
           /\ \A i \in Chunks : temp'[s][i] = "none"
           /\ \A t \in Sessions : t # s => temp'[t] = temp[t] /\ merged'[t] = merged[t]
<1>1. Empty \in [Chunks -> FileStates] /\ \A i \in Chunks : Empty[i] = "none"
  BY DEF Empty, FileStates
<1> QED
  BY <1>1 DEF Cleanup, TypeOK

-----------------------------------------------------------------------------
(* What a step for one session leaves alone.                               *)

\* A step of request r for session s: other requests stay where they are, other
\* sessions as they are, and nobody else has the mutex of s.
Mine(r, s) ==
    /\ request[r].pc = "idle" \/ Of(r) = s
    /\ mu[s] \in {r, Nobody}
    /\ session[s] # "none" => session'[s] # "none"
    /\ \A q \in Requests : q # r => request'[q] = request[q]
    /\ \A t \in Sessions : t # s =>
         /\ session'[t] = session[t]
         /\ mu'[t] = mu[t]
         /\ temp'[t] = temp[t]
         /\ merged'[t] = merged[t]
         /\ t \in history'.broke <=> t \in history.broke
         /\ t \in history'.unmerged <=> t \in history.unmerged
         /\ t \in history'.completed <=> t \in history.completed
         /\ t \in history'.again <=> t \in history.again
         /\ LateFor(t)' = LateFor(t)
    /\ history.put \subseteq history'.put
    /\ closed' = closed

LEMMA OthersFit ==
    ASSUME IInv, NEW r \in Requests, NEW s \in Sessions, Mine(r, s)
    PROVE  /\ \A q \in Requests : q # r => RequestFits(q)'
           /\ \A t \in Sessions : t # s => SessionFits(t)'
<1>1. ASSUME NEW q \in Requests, q # r
      PROVE  RequestFits(q)'
  <2>1. RequestFits(q) /\ request'[q] = request[q] /\ q # Nobody
    BY <1>1, NobodyAsksNothing DEF IInv, Mine
  <2>2. CASE request[q].pc = "idle"
    BY <2>1, <2>2 DEF RequestFits, Working, Merging, At, Places
  <2>3. CASE request[q].pc # "idle" /\ Of(q) # s
    <3>1. Of(q) \in Sessions
      BY <2>3, UnderWay DEF IInv
    <3> QED
      BY <2>1, <2>3, <3>1 DEF Mine, RequestFits, Working, Merging, At, Of, Received, Over
  <2>4. CASE request[q].pc # "idle" /\ Of(q) = s
    <3>1. ~Working(q)
      BY <1>1, <2>1, <2>4 DEF Mine, RequestFits
    <3>2. request[q].pc = "wait"
      BY <2>4, <3>1, UnderWay DEF IInv, Working
    <3> QED
      BY <2>1, <2>4, <3>2 DEF Mine, RequestFits, Working, Merging, At, Of, Places
  <2> QED
    BY <2>2, <2>3, <2>4
<1>2. ASSUME NEW t \in Sessions, t # s
      PROVE  SessionFits(t)'
  <2>1. SessionFits(t) /\ mu[t] \in Requests \union {Nobody}
    BY <1>2 DEF IInv, TypeOK
  <2>2. Busy(t) => mu[t] # r
    BY <1>2, <2>1 DEF SessionFits, FilesFit, Working, Mine, Of, Places
  <2>3. /\ Busy(t)' <=> Busy(t)
        /\ Busy(t) => mu'[t] = mu[t] /\ request'[mu[t]] = request[mu[t]]
    BY <1>2, <2>1, <2>2 DEF Mine, Busy
  <2>4. Received(t)' = Received(t) /\ (Over(t)' <=> Over(t))
    BY <1>2 DEF Mine, Received, Over
  <2>5. FilesFit(t)'
    BY <1>2, <2>1, <2>3, <2>4 DEF Mine, SessionFits, FilesFit, Working, Of, At
  <2>6. CompletionFits(t)'
    BY <1>2, <2>1, <2>4 DEF Mine, SessionFits, CompletionFits
  <2> QED
    BY <2>5, <2>6 DEF SessionFits
<1> QED
  BY <1>1, <1>2

\* A step that neither writes the file under the path nor completes anything.
LEMMA ObjectStays ==
    ASSUME IInv, object' = object, history'.put = history.put,
           history'.completed = history.completed,
           history.broke \subseteq history'.broke,
           \A s \in Sessions : LateFor(s) \subseteq LateFor(s)'
    PROVE  \A s \in Sessions : ObjectFits(s)'
<1> SUFFICES ASSUME NEW s \in Sessions PROVE ObjectFits(s)'
  OBVIOUS
<1>1. LateFor(s) = Chunks => LateFor(s)' = Chunks
  BY DEF LateFor
<1> QED
  BY <1>1 DEF IInv, ObjectFits

\* A step is over when the request and its session fit.
LEMMA Together ==
    ASSUME IInv, TypeOK', NEW r \in Requests, NEW s \in Sessions, Mine(r, s),
           RequestFits(r)', SessionFits(s)', \A t \in Sessions : ObjectFits(t)'
    PROVE  IInv'
  BY OthersFit DEF IInv

\* A request that has returned asks nothing more.
LEMMA IdleFits ==
    ASSUME NEW r \in Requests, request'[r] = Idle
    PROVE  RequestFits(r)'
  BY DEF RequestFits, Idle, Working, Merging, At, Places
-----------------------------------------------------------------------------
(* Each action keeps the invariant.                                        *)

LEMMA InitUploadKeeps ==
    ASSUME IInv, NEW s \in Sessions, InitUpload(s)
    PROVE  IInv'
<1> USE DEF InitUpload
<1>1. TypeOK'
  BY DEF IInv, TypeOK
<1>2. /\ session[s] = "none" /\ session'[s] = "open"
      /\ \A t \in Sessions : t # s => session'[t] = session[t]
  BY DEF IInv, TypeOK
<1>3. ASSUME NEW r \in Requests
      PROVE  RequestFits(r)'
  <2>1. RequestFits(r)
    BY DEF IInv
  <2>2. CASE request[r].pc = "idle"
    BY <2>2 DEF RequestFits, Working, Merging, At, Places
  <2>3. CASE request[r].pc # "idle"
    <3>1. Of(r) \in Sessions /\ Of(r) # s
      BY <1>2, <2>1, <2>3, UnderWay DEF IInv, RequestFits
    <3> QED
      BY <1>2, <2>1, <3>1 DEF RequestFits, Working, Merging, At, Of, Received, Over, LateFor
  <2> QED
    BY <2>2, <2>3
<1>4. ASSUME NEW t \in Sessions
      PROVE  SessionFits(t)'
  <2>1. SessionFits(t) /\ Chunks # {}
    BY UploadAssumption DEF IInv, UploadAssumption
  <2>2. Over(t)' <=> Over(t)
    BY <1>2 DEF Over
  <2> QED
    BY <1>2, <2>1, <2>2 DEF SessionFits, FilesFit, CompletionFits, Busy, Working, Of, At,
                            Received, LateFor
<1>5. \A t \in Sessions : ObjectFits(t)'
  BY ObjectStays DEF LateFor
<1> QED
  BY <1>1, <1>3, <1>4, <1>5 DEF IInv

LEMMA UploadChunkKeeps ==
    ASSUME IInv, NEW r \in Requests, UploadChunk(r)
    PROVE  IInv'
<1>1. PICK s \in Sessions, i \in Chunks :
        /\ session[s] = "open"
        /\ request' = [request EXCEPT ![r] = [pc |-> "wait", of |-> s, chunk |-> i]]
  BY DEF UploadChunk
<1>2. request[r].pc = "idle"
  BY DEF UploadChunk, At
<1>3. UNCHANGED <<session, mu, temp, merged, object, closed, history>>
  BY DEF UploadChunk
<1>4. /\ request' \in [Requests -> RequestSet]
      /\ request'[r].pc = "wait" /\ request'[r].of = s
      /\ \A q \in Requests : q # r => request'[q] = request[q]
  BY <1>1 DEF IInv, TypeOK, RequestSet, Places
<1>5. TypeOK'
  BY <1>3, <1>4 DEF IInv, TypeOK
<1>6. ASSUME NEW q \in Requests
      PROVE  RequestFits(q)'
  BY <1>1, <1>3, <1>4 DEF IInv, RequestFits, Working, Merging, At, Of, Received, Over,
                          LateFor, Places
<1>7. ASSUME NEW t \in Sessions
      PROVE  SessionFits(t)'
  <2>1. SessionFits(t) /\ mu[t] \in Requests \union {Nobody}
    BY DEF IInv, TypeOK
  <2>2. Busy(t) => mu[t] # r
    BY <1>2, <2>1 DEF SessionFits, FilesFit, Working, Places
  <2> QED
    BY <1>3, <1>4, <2>1, <2>2 DEF SessionFits, FilesFit, CompletionFits, Busy, Working, Of,
                                  At, Received, Over, LateFor
<1>8. \A t \in Sessions : ObjectFits(t)'
  BY <1>3, ObjectStays DEF LateFor
<1> QED
  BY <1>5, <1>6, <1>7, <1>8 DEF IInv

\* uploadChunk with the mutex: the file of the chunk is there as soon as it is made,
\* and in a deleted session it is late.
LEMMA SaveChunkKeeps ==
    ASSUME IInv, NEW r \in Requests, SaveChunk(r)
    PROVE  IInv'
<1>0. PICK s \in Sessions, i \in Chunks :
        /\ s = Of(r) /\ i = request[r].chunk
        /\ TypeOK /\ request[r].pc = "wait" /\ mu[s] = Nobody /\ r # Nobody
        /\ RequestFits(r) /\ SessionFits(s)
        /\ UNCHANGED <<session, merged, object, closed>>
  BY UnderWay, NobodyAsksNothing DEF IInv, SaveChunk, At
<1>1. session[s] # "none"
  BY <1>0 DEF RequestFits
<1>2. \A j \in Chunks : temp[s][j] # "part"
  BY <1>0 DEF SessionFits, FilesFit, Busy
<1>3. CASE Return(r) /\ UNCHANGED <<temp, history>>
  <2>1. /\ request' \in [Requests -> RequestSet]
        /\ mu' \in [Sessions -> Requests \union {Nobody}]
        /\ request'[r] = Idle
        /\ mu'[s] = Nobody
        /\ \A q \in Requests : q # r => request'[q] = request[q]
        /\ \A t \in Sessions : t # s => mu'[t] = mu[t]
    BY <1>0, <1>3, Returns
  <2>2. TypeOK'
    BY <1>0, <1>3, <2>1 DEF TypeOK
  <2>3. Mine(r, s)
    BY <1>0, <1>3, <2>1 DEF Mine, LateFor
  <2>4. RequestFits(r)'
    BY <2>1, IdleFits
  <2>5. SessionFits(s)'
    BY <1>0, <1>2, <1>3, <2>1 DEF SessionFits, FilesFit, CompletionFits, Busy, Received,
                                  Over, LateFor
  <2>6. \A t \in Sessions : ObjectFits(t)'
    BY <1>0, <1>3, ObjectStays DEF LateFor
  <2> QED
    BY <1>0, <2>2, <2>3, <2>4, <2>5, <2>6, Together
<1>4. CASE /\ mu' = [mu EXCEPT ![s] = r]
           /\ temp' = [temp EXCEPT ![s][i] = "part"]
           /\ history' = IF Over(s) THEN [history EXCEPT !.late = @ \union {<<s, i>>}]
                                    ELSE history
           /\ Goto(r, "saving")
  <2>1. /\ request' \in [Requests -> RequestSet]
        /\ request'[r].pc = "saving" /\ Of(r)' = s /\ request'[r].chunk = i
        /\ \A q \in Requests : q # r => request'[q] = request[q]
    <3>1. "saving" \in Places /\ request[r].pc # "idle" /\ Goto(r, "saving") /\ TypeOK
      BY <1>0, <1>4 DEF Places
    <3>2. /\ request' \in [Requests -> RequestSet]
          /\ request'[r].pc = "saving"
          /\ request'[r].of = request[r].of
          /\ request'[r].chunk = request[r].chunk
          /\ \A q \in Requests : q # r => request'[q] = request[q]
      BY <3>1, GoesOn
    <3> QED
      BY <1>0, <3>2 DEF Of
  <2>2. /\ temp' \in [Sessions -> [Chunks -> FileStates]]
        /\ temp'[s][i] = "part"
        /\ \A j \in Chunks : j # i => temp'[s][j] = temp[s][j]
        /\ \A t \in Sessions : t # s => temp'[t] = temp[t]
    <3>1. /\ TypeOK /\ "part" \in FileStates
          /\ temp' = [temp EXCEPT ![s][i] = "part"]
      BY <1>0, <1>4 DEF FileStates
    <3> QED
      BY <3>1, OneFile
  <2>3. /\ mu' \in [Sessions -> Requests \union {Nobody}]
        /\ mu'[s] = r
        /\ \A t \in Sessions : t # s => mu'[t] = mu[t]
    BY <1>0, <1>4 DEF TypeOK
  <2>4. /\ history' \in HistorySet
        /\ history'.broke = history.broke /\ history'.unmerged = history.unmerged
        /\ history'.put = history.put /\ history'.completed = history.completed
        /\ history'.again = history.again
        /\ \A t \in Sessions, j \in Chunks :
             <<t, j>> \in history'.late <=>
               <<t, j>> \in history.late \/ (Over(s) /\ t = s /\ j = i)
    <3>0. history \in HistorySet
      BY <1>0 DEF TypeOK
    <3>1. CASE Over(s)
      <4>1. history' = [history EXCEPT !.late = @ \union {<<s, i>>}]
        BY <1>4, <3>1
      <4> QED
        BY <1>0, <3>0, <3>1, <4>1 DEF HistorySet
    <3>2. CASE ~Over(s)
      BY <1>4, <3>0, <3>2
    <3> QED
      BY <3>1, <3>2
  <2>5. TypeOK'
    BY <1>0, <2>1, <2>2, <2>3, <2>4 DEF TypeOK
  <2>6. Mine(r, s)
    BY <1>0, <2>1, <2>2, <2>3, <2>4 DEF Mine, LateFor
  <2>7. RequestFits(r)'
    BY <1>0, <1>1, <2>1, <2>2, <2>3 DEF RequestFits, Working, Merging, At
  <2>8. /\ Received(s)' = Received(s) \union {i}
        /\ LateFor(s)' = IF Over(s) THEN LateFor(s) \union {i} ELSE LateFor(s)
        /\ Over(s)' <=> Over(s)
    BY <1>0, <2>2, <2>4 DEF Received, LateFor, Over
  <2>9. FilesFit(s)'
    BY <1>0, <1>1, <1>2, <2>1, <2>2, <2>3, <2>4, <2>8
       DEF SessionFits, FilesFit, Busy, Working, At, Places
  <2>10. CompletionFits(s)'
    <3>1. LateFor(s) = Chunks => LateFor(s)' = Chunks
      BY <1>0, <2>8
    <3> QED
      BY <1>0, <2>4, <2>8, <3>1 DEF SessionFits, CompletionFits
  <2>11. \A t \in Sessions : ObjectFits(t)'
    BY <1>0, <2>4, ObjectStays DEF LateFor
  <2> QED
    BY <1>0, <2>5, <2>6, <2>7, <2>9, <2>10, <2>11, Together DEF SessionFits
<1> QED
  BY <1>0, <1>3, <1>4 DEF SaveChunk

\* A request at work has the mutex of its session, in which no other chunk is being
\* written.
LEMMA AtWork ==
    ASSUME IInv, NEW r \in Requests, Working(r)
    PROVE  \E s \in Sessions, i \in Chunks :
             /\ TypeOK /\ r # Nobody
             /\ s = Of(r) /\ i = request[r].chunk
             /\ RequestFits(r) /\ SessionFits(s)
             /\ session[s] # "none" /\ mu[s] = r
             /\ \A j \in Chunks : temp[s][j] = "part" => request[r].pc = "saving" /\ j = i
<1>1. request[r].pc # "idle" /\ RequestFits(r) /\ TypeOK
  BY DEF Working, Places, IInv
<1>2. PICK s \in Sessions, i \in Chunks : s = Of(r) /\ i = request[r].chunk
  BY <1>1, UnderWay
<1>3. SessionFits(s) /\ session[s] # "none" /\ mu[s] = r
  BY <1>1, <1>2 DEF IInv, RequestFits
<1>4. \A j \in Chunks : temp[s][j] = "part" => request[r].pc = "saving" /\ j = i
  BY <1>2, <1>3 DEF SessionFits, FilesFit, At
<1> QED
  BY <1>1, <1>2, <1>3, <1>4, NobodyAsksNothing

\* The chunk stays, and so received what it was.
LEMMA TransferBreaksKeeps ==
    ASSUME IInv, NEW r \in Requests, TransferBreaks(r)
    PROVE  IInv'
<1>0. At(r, "saving") /\ Working(r)
  BY DEF TransferBreaks, At, Working, Places
<1>1. PICK s \in Sessions, i \in Chunks :
        /\ TypeOK /\ r # Nobody
        /\ s = Of(r) /\ i = request[r].chunk
        /\ RequestFits(r) /\ SessionFits(s)
        /\ session[s] # "none" /\ mu[s] = r
        /\ \A j \in Chunks : temp[s][j] = "part" => request[r].pc = "saving" /\ j = i
  BY <1>0, AtWork
<1>2. /\ temp' = [temp EXCEPT ![s][i] = "torn"]
      /\ history' = [history EXCEPT !.broke = @ \union {s}]
      /\ Return(r)
      /\ UNCHANGED <<session, merged, object, closed>>
  BY <1>1 DEF TransferBreaks
<1>3. /\ request' \in [Requests -> RequestSet]
      /\ mu' \in [Sessions -> Requests \union {Nobody}]
      /\ request'[r] = Idle /\ mu'[s] = Nobody
      /\ \A q \in Requests : q # r => request'[q] = request[q]
      /\ \A t \in Sessions : t # s => mu'[t] = mu[t]
  <2>1. request[r].pc # "idle"
    BY <1>0 DEF At
  <2> QED
    BY <1>1, <1>2, <2>1, Returns
<1>4. /\ temp' \in [Sessions -> [Chunks -> FileStates]]
      /\ temp'[s][i] = "torn"
      /\ \A j \in Chunks : j # i => temp'[s][j] = temp[s][j]
      /\ \A t \in Sessions : t # s => temp'[t] = temp[t]
  <2>1. /\ TypeOK /\ "torn" \in FileStates
        /\ temp' = [temp EXCEPT ![s][i] = "torn"]
    BY <1>1, <1>2 DEF FileStates
  <2> QED
    BY <2>1, OneFile
<1>5. /\ history' \in HistorySet
      /\ history'.broke = history.broke \union {s}
      /\ history'.unmerged = history.unmerged /\ history'.put = history.put
      /\ history'.completed = history.completed /\ history'.again = history.again
      /\ history'.late = history.late
  <2>1. history \in HistorySet
    BY <1>1 DEF TypeOK
  <2> QED
    BY <1>2, <2>1 DEF HistorySet
<1>6. TypeOK'
  BY <1>1, <1>2, <1>3, <1>4, <1>5 DEF TypeOK
<1>7. Mine(r, s)
  BY <1>1, <1>2, <1>3, <1>4, <1>5 DEF Mine, LateFor
<1>8. RequestFits(r)'
  BY <1>3, IdleFits
<1>9. Received(s)' = Received(s)
  <2>1. temp[s][i] = "part"
    BY <1>0, <1>1 DEF RequestFits
  <2> QED
    BY <1>4, <2>1 DEF Received
<1>10. FilesFit(s)'
  <2>1. ~Busy(s)' /\ (Over(s)' <=> Over(s)) /\ LateFor(s)' = LateFor(s)
    BY <1>2, <1>3, <1>5 DEF Busy, Over, LateFor
  <2>2. \A j \in Chunks : temp'[s][j] # "part" /\ (temp'[s][j] = "torn" => s \in history'.broke)
    BY <1>1, <1>4, <1>5
  <2>3. s \in history'.broke \union history'.unmerged /\ session'[s] = session[s]
    BY <1>2, <1>5
  <2> QED
    BY <1>1, <1>9, <2>1, <2>2, <2>3 DEF SessionFits, FilesFit
<1>11. CompletionFits(s)'
  BY <1>1, <1>2, <1>5 DEF SessionFits, CompletionFits, Over, LateFor
<1>12. \A t \in Sessions : ObjectFits(t)'
  BY <1>2, <1>5, ObjectStays DEF LateFor
<1> QED
  BY <1>6, <1>7, <1>8, <1>10, <1>11, <1>12, Together DEF SessionFits

\* The last chunk of a deleted session has come late, like all before it.
LEMMA TransferredKeeps ==
    ASSUME IInv, NEW r \in Requests, Transferred(r)
    PROVE  IInv'
<1>0. At(r, "saving") /\ Working(r)
  BY DEF Transferred, At, Working, Places
<1>1. PICK s \in Sessions, i \in Chunks :
        /\ TypeOK /\ r # Nobody
        /\ s = Of(r) /\ i = request[r].chunk
        /\ RequestFits(r) /\ SessionFits(s)
        /\ session[s] # "none" /\ mu[s] = r
        /\ \A j \in Chunks : temp[s][j] = "part" => request[r].pc = "saving" /\ j = i
  BY <1>0, AtWork
<1>2. /\ temp' = [temp EXCEPT ![s][i] = "whole"]
      /\ IF Received(s) = Chunks THEN Goto(r, "merge") /\ UNCHANGED mu ELSE Return(r)
      /\ UNCHANGED <<session, merged, object, closed, history>>
  BY <1>1 DEF Transferred
<1>3. /\ temp' \in [Sessions -> [Chunks -> FileStates]]
      /\ temp'[s][i] = "whole"
      /\ \A j \in Chunks : j # i => temp'[s][j] = temp[s][j]
      /\ \A t \in Sessions : t # s => temp'[t] = temp[t]
  <2>1. /\ TypeOK /\ "whole" \in FileStates
        /\ temp' = [temp EXCEPT ![s][i] = "whole"]
    BY <1>1, <1>2 DEF FileStates
  <2> QED
    BY <2>1, OneFile
<1>4. Received(s)' = Received(s)
  <2>1. temp[s][i] = "part"
    BY <1>0, <1>1 DEF RequestFits
  <2> QED
    BY <1>3, <2>1 DEF Received
<1>5. \A j \in Chunks : temp'[s][j] # "part"
  BY <1>1, <1>3
<1>6. CompletionFits(s)'
  BY <1>1, <1>2 DEF SessionFits, CompletionFits, Over, LateFor
<1>7. \A t \in Sessions : ObjectFits(t)'
  BY <1>2, ObjectStays DEF LateFor
<1>8. CASE Received(s) # Chunks
  <2>1. /\ request' \in [Requests -> RequestSet]
        /\ mu' \in [Sessions -> Requests \union {Nobody}]
        /\ request'[r] = Idle /\ mu'[s] = Nobody
        /\ \A q \in Requests : q # r => request'[q] = request[q]
        /\ \A t \in Sessions : t # s => mu'[t] = mu[t]
    <3>1. request[r].pc # "idle"
      BY <1>0 DEF At
    <3> QED
      BY <1>1, <1>2, <1>8, <3>1, Returns
  <2>2. TypeOK'
    BY <1>1, <1>2, <1>3, <2>1 DEF TypeOK
  <2>3. Mine(r, s)
    BY <1>1, <1>2, <1>3, <2>1 DEF Mine, LateFor
  <2>4. RequestFits(r)'
    BY <2>1, IdleFits
  <2>5. FilesFit(s)'
    <3>1. ~Busy(s)' /\ (Over(s)' <=> Over(s)) /\ LateFor(s)' = LateFor(s)
      BY <1>2, <2>1 DEF Busy, Over, LateFor
    <3>2. \A j \in Chunks : /\ temp'[s][j] # "part"
                            /\ temp'[s][j] = "torn" => s \in history'.broke
      BY <1>1, <1>2, <1>3, <1>5 DEF SessionFits, FilesFit
    <3> QED
      BY <1>1, <1>2, <1>4, <1>8, <3>1, <3>2 DEF SessionFits, FilesFit
  <2> QED
    BY <1>6, <1>7, <2>2, <2>3, <2>4, <2>5, Together DEF SessionFits
<1>9. CASE Received(s) = Chunks
  <2>1. /\ request' \in [Requests -> RequestSet]
        /\ request'[r].pc = "merge" /\ request'[r].of = s
        /\ \A q \in Requests : q # r => request'[q] = request[q]
    <3>1. "merge" \in Places /\ request[r].pc # "idle" /\ Goto(r, "merge") /\ TypeOK
      BY <1>0, <1>1, <1>2, <1>9 DEF At, Places
    <3>2. /\ request' \in [Requests -> RequestSet]
          /\ request'[r].pc = "merge" /\ request'[r].of = request[r].of
          /\ \A q \in Requests : q # r => request'[q] = request[q]
      BY <3>1, GoesOn
    <3> QED
      BY <1>1, <3>2 DEF Of
  <2>2. mu' = mu
    BY <1>2, <1>9
  <2>3. TypeOK'
    BY <1>1, <1>2, <1>3, <2>1, <2>2 DEF TypeOK
  <2>4. Mine(r, s)
    BY <1>1, <1>2, <1>3, <2>1, <2>2 DEF Mine, LateFor
  <2>5. Over(s) => LateFor(s) = Chunks
    BY <1>1, <1>9 DEF SessionFits, FilesFit, LateFor
  <2>6. RequestFits(r)'
    BY <1>1, <1>2, <1>4, <1>9, <2>1, <2>2, <2>5
       DEF RequestFits, Working, Merging, At, Of, Over, LateFor, Places
  <2>7. FilesFit(s)'
    BY <1>1, <1>2, <1>3, <1>4, <1>5, <2>1, <2>2
       DEF SessionFits, FilesFit, Busy, Working, Of, Over, LateFor, Places
  <2> QED
    BY <1>6, <1>7, <2>3, <2>4, <2>6, <2>7, Together DEF SessionFits
<1> QED
  BY <1>8, <1>9

\* Nobody writes a chunk while the chunks are merged: what is not whole is torn.
LEMMA MergeKeeps ==
    ASSUME IInv, NEW r \in Requests, Merge(r)
    PROVE  IInv'
<1>0. At(r, "merge") /\ Working(r)
  BY DEF Merge, At, Working, Places
<1>1. PICK s \in Sessions, i \in Chunks :
        /\ TypeOK /\ r # Nobody
        /\ s = Of(r) /\ i = request[r].chunk
        /\ RequestFits(r) /\ SessionFits(s)
        /\ session[s] # "none" /\ mu[s] = r
        /\ \A j \in Chunks : temp[s][j] = "part" => request[r].pc = "saving" /\ j = i
  BY <1>0, AtWork
<1>2. /\ \A j \in Chunks : temp[s][j] # "part" /\ temp[s][j] # "none"
      /\ Over(s) => LateFor(s) = Chunks
  <2>1. Received(s) = Chunks /\ (Over(s) => LateFor(s) = Chunks)
    BY <1>0, <1>1 DEF RequestFits, Merging, At
  <2>2. \A j \in Chunks : temp[s][j] # "none"
    BY <2>1 DEF Received
  <2> QED
    BY <1>0, <1>1, <2>1, <2>2 DEF At
<1>3. UNCHANGED <<session, temp, object, closed>>
  BY DEF Merge
<1>4. CASE /\ merged' = [merged EXCEPT ![s] =
                IF \A j \in Chunks : temp[s][j] = "whole" THEN "whole" ELSE "torn"]
           /\ Goto(r, "put")
           /\ UNCHANGED <<mu, history>>
  <2>1. /\ request' \in [Requests -> RequestSet]
        /\ request'[r].pc = "put" /\ request'[r].of = s
        /\ \A q \in Requests : q # r => request'[q] = request[q]
    <3>1. "put" \in Places /\ request[r].pc # "idle" /\ Goto(r, "put") /\ TypeOK
      BY <1>0, <1>1, <1>4 DEF At, Places
    <3>2. /\ request' \in [Requests -> RequestSet]
          /\ request'[r].pc = "put" /\ request'[r].of = request[r].of
          /\ \A q \in Requests : q # r => request'[q] = request[q]
      BY <3>1, GoesOn
    <3> QED
      BY <1>1, <3>2 DEF Of
  <2>2. /\ merged' \in [Sessions -> {"none", "torn", "whole"}]
        /\ merged'[s] = "whole" \/ s \in history.broke
        /\ \A t \in Sessions : t # s => merged'[t] = merged[t]
    <3>1. CASE \A j \in Chunks : temp[s][j] = "whole"
      BY <1>1, <1>4, <3>1 DEF TypeOK
    <3>2. CASE \E j \in Chunks : temp[s][j] # "whole"
      <4>1. PICK j \in Chunks : temp[s][j] = "torn"
        BY <1>1, <1>2, <3>2 DEF TypeOK, FileStates
      <4>2. s \in history.broke
        BY <1>1, <4>1 DEF SessionFits, FilesFit
      <4>3. merged' = [merged EXCEPT ![s] = "torn"]
        BY <1>4, <3>2
      <4> QED
        BY <1>1, <4>2, <4>3 DEF TypeOK
    <3> QED
      BY <3>1, <3>2
  <2>3. mu' = mu /\ history' = history
    BY <1>4
  <2>4. TypeOK'
    BY <1>1, <1>3, <2>1, <2>2, <2>3 DEF TypeOK
  <2>5. Mine(r, s)
    BY <1>1, <1>3, <2>1, <2>2, <2>3 DEF Mine, LateFor
  <2>6. RequestFits(r)'
    BY <1>1, <1>2, <1>3, <2>1, <2>2, <2>3
       DEF RequestFits, Working, Merging, At, Of, Over, LateFor, Places
  <2>7. SessionFits(s)'
    BY <1>1, <1>2, <1>3, <2>1, <2>2, <2>3
       DEF SessionFits, FilesFit, CompletionFits, Busy, Working, Of, Received, Over, LateFor,
           Places
  <2>8. \A t \in Sessions : ObjectFits(t)'
    BY <1>3, <2>3, ObjectStays DEF LateFor
  <2> QED
    BY <2>4, <2>5, <2>6, <2>7, <2>8, Together
<1>5. CASE /\ merged' = [merged EXCEPT ![s] = "torn"]
           /\ history' = [history EXCEPT !.unmerged = @ \union {s}]
           /\ Return(r)
  <2>1. /\ request' \in [Requests -> RequestSet]
        /\ mu' \in [Sessions -> Requests \union {Nobody}]
        /\ request'[r] = Idle /\ mu'[s] = Nobody
        /\ \A q \in Requests : q # r => request'[q] = request[q]
        /\ \A t \in Sessions : t # s => mu'[t] = mu[t]
    <3>1. request[r].pc # "idle" /\ TypeOK /\ Return(r)
      BY <1>0, <1>1, <1>5 DEF At
    <3> QED
      BY <1>1, <3>1, Returns
  <2>2. /\ merged' \in [Sessions -> {"none", "torn", "whole"}]
        /\ \A t \in Sessions : t # s => merged'[t] = merged[t]
    BY <1>1, <1>5 DEF TypeOK
  <2>3. /\ history' \in HistorySet
        /\ history'.unmerged = history.unmerged \union {s}
        /\ history'.broke = history.broke /\ history'.put = history.put
        /\ history'.completed = history.completed /\ history'.again = history.again
        /\ history'.late = history.late
    <3>1. history \in HistorySet
      BY <1>1 DEF TypeOK
    <3> QED
      BY <1>5, <3>1 DEF HistorySet
  <2>4. TypeOK'
    BY <1>1, <1>3, <2>1, <2>2, <2>3 DEF TypeOK
  <2>5. Mine(r, s)
    BY <1>1, <1>3, <2>1, <2>2, <2>3 DEF Mine, LateFor
  <2>6. RequestFits(r)'
    BY <2>1, IdleFits
  <2>7. SessionFits(s)'
    BY <1>1, <1>2, <1>3, <2>1, <2>3
       DEF SessionFits, FilesFit, CompletionFits, Busy, Received, Over, LateFor
  <2>8. \A t \in Sessions : ObjectFits(t)'
    BY <1>3, <2>3, ObjectStays DEF LateFor
  <2> QED
    BY <2>4, <2>5, <2>6, <2>7, <2>8, Together
<1> QED
  BY <1>1, <1>4, <1>5 DEF Merge

\* A request that returns before the file is put under its path: the directory is
\* removed, or Close has been called.
LEMMA GivesUp ==
    ASSUME IInv, NEW r \in Requests, request[r].pc \in {"put", "putting"},
           Cleanup(Of(r)) \/ (closed /\ UNCHANGED <<temp, merged>>),
           Return(r), UNCHANGED <<session, object, closed, history>>
    PROVE  IInv'
<1>0. Working(r)
  BY DEF Working, Places
<1>1. PICK s \in Sessions, i \in Chunks :
        /\ TypeOK /\ r # Nobody
        /\ s = Of(r) /\ i = request[r].chunk
        /\ RequestFits(r) /\ SessionFits(s)
        /\ session[s] # "none" /\ mu[s] = r
        /\ \A j \in Chunks : temp[s][j] = "part" => request[r].pc = "saving" /\ j = i
  BY <1>0, AtWork
<1>2. /\ request' \in [Requests -> RequestSet]
      /\ mu' \in [Sessions -> Requests \union {Nobody}]
      /\ request'[r] = Idle /\ mu'[s] = Nobody
      /\ \A q \in Requests : q # r => request'[q] = request[q]
      /\ \A t \in Sessions : t # s => mu'[t] = mu[t]
  <2>1. request[r].pc # "idle" /\ TypeOK /\ Return(r)
    BY <1>0, <1>1 DEF Working, Places
  <2> QED
    BY <1>1, <2>1, Returns
<1>3. /\ temp' \in [Sessions -> [Chunks -> FileStates]]
      /\ merged' \in [Sessions -> {"none", "torn", "whole"}]
      /\ (temp'[s] = temp[s] /\ closed) \/ (\A j \in Chunks : temp'[s][j] = "none")
      /\ \A t \in Sessions : t # s => temp'[t] = temp[t] /\ merged'[t] = merged[t]
  <2>1. CASE Cleanup(s)
    BY <1>1, <2>1, Removed
  <2>2. CASE closed /\ UNCHANGED <<temp, merged>>
    BY <1>1, <2>2 DEF TypeOK
  <2> QED
    BY <1>1, <2>1, <2>2
<1>4. TypeOK'
  BY <1>1, <1>2, <1>3 DEF TypeOK
<1>5. Mine(r, s)
  BY <1>1, <1>2, <1>3 DEF Mine, LateFor
<1>6. RequestFits(r)'
  BY <1>2, IdleFits
<1>7. ~Busy(s)' /\ (Over(s)' <=> Over(s)) /\ LateFor(s)' = LateFor(s)
  BY <1>2 DEF Busy, Over, LateFor
<1>8. CompletionFits(s)'
  BY <1>1, <1>7 DEF SessionFits, CompletionFits
<1>9. FilesFit(s)'
  <2>1. CASE temp'[s] = temp[s] /\ closed
    <3>1. Received(s)' = Received(s)
      BY <2>1 DEF Received
    <3> QED
      BY <1>1, <1>7, <2>1, <3>1 DEF SessionFits, FilesFit
  <2>2. CASE \A j \in Chunks : temp'[s][j] = "none"
    <3>1. Received(s)' = {} /\ Chunks # {}
      BY <2>2, UploadAssumption DEF Received, UploadAssumption
    <3> QED
      BY <1>1, <1>7, <2>2, <3>1 DEF FilesFit
  <2> QED
    BY <1>3, <2>1, <2>2
<1>10. \A t \in Sessions : ObjectFits(t)'
  BY ObjectStays DEF LateFor
<1> QED
  BY <1>1, <1>4, <1>5, <1>6, <1>8, <1>9, <1>10, Together DEF SessionFits

LEMMA RefusedKeeps ==
    ASSUME IInv, NEW r \in Requests, Refused(r)
    PROVE  IInv'
  BY GivesUp DEF Refused, At

LEMMA PutFailsKeeps ==
    ASSUME IInv, NEW r \in Requests, PutFails(r)
    PROVE  IInv'
  BY GivesUp DEF PutFails, At

\* Two requests that write the file under the path are of two sessions, and both
\* sessions have begun to write it.
LEMMA PutKeeps ==
    ASSUME IInv, NEW r \in Requests, Put(r)
    PROVE  IInv'
<1>0. At(r, "put") /\ Working(r)
  BY DEF Put, At, Working, Places
<1>1. PICK s \in Sessions, i \in Chunks :
        /\ TypeOK /\ r # Nobody
        /\ s = Of(r) /\ i = request[r].chunk
        /\ RequestFits(r) /\ SessionFits(s)
        /\ session[s] # "none" /\ mu[s] = r
        /\ \A j \in Chunks : temp[s][j] = "part" => request[r].pc = "saving" /\ j = i
  BY <1>0, AtWork
<1>2. /\ object' = IF \E q \in Requests : At(q, "putting") THEN "mixed" ELSE "part"
      /\ history' = [history EXCEPT !.put = @ \union {s}]
      /\ Goto(r, "putting")
      /\ UNCHANGED <<session, mu, temp, merged, closed>>
  BY <1>1 DEF Put
<1>3. /\ request' \in [Requests -> RequestSet]
      /\ request'[r].pc = "putting" /\ request'[r].of = s
      /\ \A q \in Requests : q # r => request'[q] = request[q]
  <2>1. "putting" \in Places /\ request[r].pc # "idle" /\ Goto(r, "putting") /\ TypeOK
    BY <1>0, <1>1, <1>2 DEF At, Places
  <2>2. /\ request' \in [Requests -> RequestSet]
        /\ request'[r].pc = "putting" /\ request'[r].of = request[r].of
        /\ \A q \in Requests : q # r => request'[q] = request[q]
    BY <2>1, GoesOn
  <2> QED
    BY <1>1, <2>2 DEF Of
<1>4. /\ history' \in HistorySet
      /\ history'.put = history.put \union {s}
      /\ history'.broke = history.broke /\ history'.unmerged = history.unmerged
      /\ history'.completed = history.completed /\ history'.again = history.again
      /\ history'.late = history.late
  <2>1. history \in HistorySet
    BY <1>1 DEF TypeOK
  <2> QED
    BY <1>2, <2>1 DEF HistorySet
<1>5. object' \in {"mixed", "part"}
  BY <1>2
<1>6. UNCHANGED <<session, mu, temp, merged, closed>>
  BY <1>2
<1>7. TypeOK'
  BY <1>1, <1>3, <1>4, <1>5, <1>6 DEF TypeOK, FileStates
<1>8. Mine(r, s)
  BY <1>1, <1>3, <1>4, <1>6 DEF Mine, LateFor
<1>9. RequestFits(r)'
  BY <1>0, <1>1, <1>3, <1>4, <1>6
     DEF RequestFits, Working, Merging, At, Of, Over, LateFor, Places
<1>10. SessionFits(s)'
  BY <1>0, <1>1, <1>3, <1>4, <1>6
     DEF SessionFits, FilesFit, CompletionFits, Busy, Working, Of, At, Received, Over,
         LateFor, Places
<1>11. ASSUME NEW t \in Sessions
       PROVE  ObjectFits(t)'
  <2>1. SUFFICES ASSUME history'.put = {t}
                 PROVE  /\ object' # "mixed"
                        /\ t \in history'.completed => LateFor(t)' = Chunks
    BY DEF ObjectFits
  <2>2. t = s /\ history.put \subseteq {s}
    BY <1>4, <2>1
  <2>3. ASSUME NEW q \in Requests, At(q, "putting")
        PROVE  FALSE
    <3>1. RequestFits(q) /\ Working(q)
      BY <2>3 DEF IInv, At, Working, Places
    <3>2. Of(q) = s /\ mu[s] = q
      BY <2>2, <2>3, <3>1 DEF RequestFits
    <3> QED
      BY <1>0, <1>1, <2>3, <3>2 DEF At
  <2>4. t \in history'.completed => LateFor(t) = Chunks
    BY <1>0, <1>1, <1>4, <2>2 DEF SessionFits, CompletionFits, RequestFits, Merging, At
  <2> QED
    BY <1>2, <1>4, <2>3, <2>4 DEF LateFor
<1> QED
  BY <1>1, <1>7, <1>8, <1>9, <1>10, <1>11, Together

\* The session that alone has written the file is the one that is complete now: what
\* it has merged is under the path.
LEMMA CompleteKeeps ==
    ASSUME IInv, NEW r \in Requests, Complete(r)
    PROVE  IInv'
<1>0. At(r, "putting") /\ Working(r)
  BY DEF Complete, At, Working, Places
<1>1. PICK s \in Sessions, i \in Chunks :
        /\ TypeOK /\ r # Nobody
        /\ s = Of(r) /\ i = request[r].chunk
        /\ RequestFits(r) /\ SessionFits(s)
        /\ session[s] # "none" /\ mu[s] = r
        /\ \A j \in Chunks : temp[s][j] = "part" => request[r].pc = "saving" /\ j = i
  BY <1>0, AtWork
<1>2. /\ object' = IF object = "mixed" THEN "mixed" ELSE merged[s]
      /\ Cleanup(s)
      /\ session' = [session EXCEPT ![s] = "deleted"]
      /\ Completed(s)
      /\ Return(r)
      /\ UNCHANGED closed
  BY <1>1 DEF Complete, Written
<1>3. /\ request' \in [Requests -> RequestSet]
      /\ mu' \in [Sessions -> Requests \union {Nobody}]
      /\ request'[r] = Idle /\ mu'[s] = Nobody
      /\ \A q \in Requests : q # r => request'[q] = request[q]
      /\ \A t \in Sessions : t # s => mu'[t] = mu[t]
  <2>1. request[r].pc # "idle" /\ TypeOK /\ Return(r)
    BY <1>0, <1>1, <1>2 DEF At
  <2> QED
    BY <1>1, <2>1, Returns
<1>4. /\ temp' \in [Sessions -> [Chunks -> FileStates]]
      /\ merged' \in [Sessions -> {"none", "torn", "whole"}]
      /\ \A j \in Chunks : temp'[s][j] = "none"
      /\ \A t \in Sessions : t # s => temp'[t] = temp[t] /\ merged'[t] = merged[t]
  BY <1>1, <1>2, Removed
<1>5. /\ session' \in [Sessions -> {"none", "open", "deleted"}]
      /\ session'[s] = "deleted"
      /\ \A t \in Sessions : t # s => session'[t] = session[t]
  BY <1>1, <1>2 DEF TypeOK
<1>6. /\ history' \in HistorySet
      /\ history'.put = history.put
      /\ history'.broke = history.broke /\ history'.unmerged = history.unmerged
      /\ history'.completed = history.completed \union {s}
      /\ history'.again = history.again
           \union (IF s \in history.completed THEN {s} ELSE {})
      /\ history'.late = history.late
  <2>1. history \in HistorySet
    BY <1>1 DEF TypeOK
  <2>2. history' = [history EXCEPT !.completed = history.completed \union {s},
                      !.again = IF s \in history.completed THEN history.again \union {s}
                                                           ELSE history.again]
    BY <1>2 DEF Completed
  <2>3. CASE s \in history.completed
    <3>1. history' = [history EXCEPT !.completed = history.completed \union {s},
                                     !.again = history.again \union {s}]
      BY <2>2, <2>3
    <3> QED
      BY <2>1, <2>3, <3>1 DEF HistorySet
  <2>4. CASE s \notin history.completed
    <3>1. history' = [history EXCEPT !.completed = history.completed \union {s},
                                     !.again = history.again]
      BY <2>2, <2>4
    <3> QED
      BY <2>1, <2>4, <3>1 DEF HistorySet
  <2> QED
    BY <2>3, <2>4
<1>7. object' \in FileStates \union {"mixed"}
  BY <1>1, <1>2 DEF TypeOK, FileStates
<1>8. closed' = closed /\ LateFor(s)' = LateFor(s)
  BY <1>2, <1>6 DEF LateFor
<1>9. TypeOK'
  BY <1>1, <1>3, <1>4, <1>5, <1>6, <1>7, <1>8 DEF TypeOK
<1>10. Mine(r, s)
  BY <1>1, <1>3, <1>4, <1>5, <1>6, <1>8 DEF Mine, LateFor
<1>11. RequestFits(r)'
  BY <1>3, IdleFits
<1>12. Over(s) => LateFor(s) = Chunks
  BY <1>0, <1>1 DEF RequestFits, Merging, At
<1>13. SessionFits(s)'
  <2>1. Received(s)' = {} /\ Over(s)' /\ ~Busy(s)'
    BY <1>3, <1>4, <1>5 DEF Received, Over, Busy
  <2>2. FilesFit(s)'
    BY <1>4, <1>5, <2>1 DEF FilesFit
  <2>3. CompletionFits(s)'
    BY <1>1, <1>6, <1>8, <1>12, <2>1 DEF SessionFits, CompletionFits
  <2> QED
    BY <2>2, <2>3 DEF SessionFits
<1>14. ASSUME NEW t \in Sessions
       PROVE  ObjectFits(t)'
  <2>1. SUFFICES ASSUME history'.put = {t}
                 PROVE  object' # "mixed" /\ (object' = "whole" \/ t \in history'.broke)
    BY DEF ObjectFits
  <2>2. t = s /\ object # "mixed"
    BY <1>0, <1>1, <1>6, <2>1 DEF IInv, RequestFits, ObjectFits
  <2>3. object' = merged[s]
    BY <1>2, <2>2
  <2> QED
    BY <1>0, <1>1, <1>6, <2>2, <2>3 DEF RequestFits, At, TypeOK
<1> QED
  BY <1>1, <1>9, <1>10, <1>11, <1>13, <1>14, Together

\* Close takes no mutex and no request notices it.
LEMMA CloseKeeps ==
    ASSUME IInv, Close
    PROVE  IInv'
<1>1. /\ closed' = TRUE
      /\ UNCHANGED <<session, mu, temp, merged, object, request, history>>
  BY DEF Close
<1>2. TypeOK'
  BY <1>1 DEF IInv, TypeOK
<1>3. ASSUME NEW r \in Requests PROVE RequestFits(r)'
  BY <1>1 DEF IInv, RequestFits, Working, Merging, At, Of, Received, Over, LateFor
<1>4. ASSUME NEW s \in Sessions PROVE SessionFits(s)'
  BY <1>1 DEF IInv, SessionFits, FilesFit, CompletionFits, Busy, Working, Of, At, Received,
              Over, LateFor
<1>5. \A s \in Sessions : ObjectFits(s)'
  BY <1>1, ObjectStays DEF LateFor
<1> QED
  BY <1>2, <1>3, <1>4, <1>5 DEF IInv

LEMMA StepKeeps ==
    ASSUME IInv, [Next]_vars
    PROVE  IInv'
<1>1. ASSUME NEW s \in Sessions, InitUpload(s) PROVE IInv'
  BY <1>1, InitUploadKeeps
<1>2. ASSUME NEW r \in Requests, Step(r) PROVE IInv'
  BY <1>2, UploadChunkKeeps, SaveChunkKeeps, TransferBreaksKeeps, TransferredKeeps, MergeKeeps,
     RefusedKeeps, PutKeeps, PutFailsKeeps, CompleteKeeps DEF Step
<1>3. CASE Close
  BY <1>3, CloseKeeps
<1>4. CASE UNCHANGED vars
  <2>1. UNCHANGED <<session, mu, temp, merged, object, request, closed, history>>
    BY <1>4 DEF vars
  <2>2. TypeOK'
    BY <2>1 DEF IInv, TypeOK
  <2>3. ASSUME NEW r \in Requests PROVE RequestFits(r)'
    BY <2>1 DEF IInv, RequestFits, Working, Merging, At, Of, Received, Over, LateFor
  <2>4. ASSUME NEW s \in Sessions PROVE SessionFits(s)'
    BY <2>1 DEF IInv, SessionFits, FilesFit, CompletionFits, Busy, Working, Of, At, Received,
                Over, LateFor
  <2>5. \A s \in Sessions : ObjectFits(s)'
    BY <2>1, ObjectStays DEF LateFor
  <2> QED
    BY <2>2, <2>3, <2>4, <2>5 DEF IInv
<1> QED
  BY <1>1, <1>2, <1>3, <1>4 DEF Next

LEMMA InvHolds == Spec => []IInv
  BY FirstInv, StepKeeps, PTL DEF Spec

-----------------------------------------------------------------------------
(* The theorems.                                                           *)

\* The variables of the file system, its requests and its files have their types.
THEOREM TypeCorrect == Spec => []TypeOK
<1>1. IInv => TypeOK
  BY DEF IInv
<1> QED
  BY <1>1, InvHolds, PTL

\* With the mutex a request alone touches the chunks of its session, from SaveChunk to
\* Cleanup: however many requests there are, a chunk is being written only by the
\* request that holds the mutex, and no other request is at work in the session.
THEOREM MutexProtects ==
    Spec => [](\A r, q \in Requests : Working(r) /\ Working(q) /\ Of(r) = Of(q) => r = q)
<1>1. IInv => \A r, q \in Requests : Working(r) /\ Working(q) /\ Of(r) = Of(q) => r = q
  BY DEF IInv, RequestFits
<1> QED
  BY <1>1, InvHolds, PTL

\* UploadChunk, Merge, Put: what is complete is whole, but for the cases named there.
THEOREM WholeWhenComplete == Spec => []CompleteIsWhole
<1>1. IInv => CompleteIsWhole
  BY DEF IInv, ObjectFits, CompleteIsWhole
<1> QED
  BY <1>1, InvHolds, PTL

\* deleteSession: an upload completes twice only from chunks that all came late.
THEOREM CompletedOnce == Spec => []CompletesOnce
<1>1. IInv => CompletesOnce
  BY DEF IInv, TypeOK, HistorySet, SessionFits, CompletionFits, CompletesOnce
<1> QED
  BY <1>1, InvHolds, PTL

\* Cleanup: a complete session leaves no file but those of late requests.
THEOREM NothingLeft == Spec => []NothingIsLeft
<1>1. IInv => NothingIsLeft
  BY DEF IInv, SessionFits, FilesFit, NothingIsLeft
<1> QED
  BY <1>1, InvHolds, PTL

\* ReceivedChunks: "nothing is missing" is reported of a session only while a request
\* is completing it, or after a transfer or its merge has failed.
THEOREM MissingOrComplete == Spec => []NothingMissingIsComplete
<1>1. IInv => NothingMissingIsComplete
  BY DEF IInv, SessionFits, FilesFit, NothingMissingIsComplete
<1> QED
  BY <1>1, InvHolds, PTL
=============================================================================
