----------------------------- MODULE ChunkUpload -----------------------------
(***************************************************************************)
(* pkg/storage/upload.go and chunk/chunk.go: files that are uploaded in    *)
(* chunks to the local disk.  A session lives in memory; the chunks are    *)
(* files in a directory of its own, and what has been received is what is  *)
(* there.  The request that completes the set merges it and puts the file  *)
(* under its path with the local driver.                                   *)
(*                                                                         *)
(* All sessions have asked for the same path, and none for an empty file,  *)
(* which has no chunk and so is never complete.  A chunk that is sent      *)
(* again has the content it had.  RemoveAll is taken not to fail.          *)
(***************************************************************************)
EXTENDS Naturals, FiniteSets, TLC

CONSTANTS
    Sessions, Chunks,
    Requests,       \* calls of UploadChunk at a time
    Nobody

ASSUME UploadAssumption ==
    /\ IsFiniteSet(Chunks) /\ Chunks # {}
    /\ Nobody \notin Requests

VARIABLES
    session,    \* session -> "none", "open", or "deleted" from FileSystem.sessions
    mu,         \* session -> the request that holds UploadSession.mu
    temp,       \* session -> chunk -> what its temporary file holds
    merged,     \* session -> what the merged file holds
    object,     \* what the file under the path holds
    request,    \* request -> where it stands
    closed,     \* FileSystem.Close has been called
    history     \* what has happened, for the properties

vars == <<session, mu, temp, merged, object, request, closed, history>>

\* A file is "part" while it is written and "torn" if the writing has broken off;
\* the file under the path is "mixed" if two wrote it at a time.
Idle == [pc |-> "idle", of |-> Nobody, chunk |-> Nobody]
Empty == [i \in Chunks |-> "none"]

Init ==
    /\ session = [s \in Sessions |-> "none"]
    /\ mu = [s \in Sessions |-> Nobody]
    /\ temp = [s \in Sessions |-> Empty]
    /\ merged = [s \in Sessions |-> "none"]
    /\ object = "none"
    /\ request = [r \in Requests |-> Idle]
    /\ closed = FALSE
    /\ history = [broke |-> {},        \* sessions with a transfer that broke off
                  unmerged |-> {},     \* sessions whose merge failed
                  put |-> {},          \* sessions that have begun to write the file
                  completed |-> {},    \* sessions whose upload was reported complete
                  again |-> {},        \* ... more than once
                  late |-> {}]         \* <<session, chunk>> received after that

-----------------------------------------------------------------------------

\* ReceivedChunks: the files that are there, whatever they hold.
Received(s) == {i \in Chunks : temp[s][i] # "none"}

Of(r) == request[r].of
At(r, place) == request[r].pc = place
Goto(r, place) == request' = [request EXCEPT ![r].pc = place]

\* The deferred unlock.
Return(r) ==
    /\ mu' = [mu EXCEPT ![Of(r)] = Nobody]
    /\ request' = [request EXCEPT ![r] = Idle]

\* Cleanup: RemoveAll of the directory.
Cleanup(s) ==
    /\ temp' = [temp EXCEPT ![s] = Empty]
    /\ merged' = [merged EXCEPT ![s] = "none"]

InitUpload(s) ==
    /\ ~closed
    /\ session[s] = "none"
    /\ session' = [session EXCEPT ![s] = "open"]
    /\ UNCHANGED <<mu, temp, merged, object, request, closed, history>>

\* UploadChunk up to session.mu: the session is looked up without it.
UploadChunk(r) ==
    /\ At(r, "idle") /\ ~closed
    /\ \E s \in Sessions, i \in Chunks :
         /\ session[s] = "open"
         /\ request' = [request EXCEPT ![r] = [pc |-> "wait", of |-> s, chunk |-> i]]
    /\ UNCHANGED <<session, mu, temp, merged, object, closed, history>>

Over(s) == session[s] = "deleted"

\* With session.mu: SaveChunk makes the directory and truncates the file, or fails.
\* Faulty: without session.mu.
SaveChunkUnlocked(r) ==
    /\ At(r, "wait")
    /\ mu' = [mu EXCEPT ![Of(r)] = r]
    /\ temp' = [temp EXCEPT ![Of(r)][request[r].chunk] = "part"]
    /\ Goto(r, "saving")
    /\ UNCHANGED <<session, merged, object, closed, history>>
SaveChunk(r) ==
    /\ At(r, "wait")
    /\ mu[Of(r)] = Nobody
    /\ \/ /\ mu' = [mu EXCEPT ![Of(r)] = r]
          /\ temp' = [temp EXCEPT ![Of(r)][request[r].chunk] = "part"]
          /\ history' = IF Over(Of(r))
                 THEN [history EXCEPT !.late = @ \union {<<Of(r), request[r].chunk>>}]
                 ELSE history
          /\ Goto(r, "saving")
       \/ Return(r) /\ UNCHANGED <<temp, history>>
    /\ UNCHANGED <<session, merged, object, closed>>

\* The body of the request breaks off: its error is returned, its file stays.
TransferBreaks(r) ==
    /\ At(r, "saving")
    /\ temp' = [temp EXCEPT ![Of(r)][request[r].chunk] = "torn"]
    /\ history' = [history EXCEPT !.broke = @ \union {Of(r)}]
    /\ Return(r)
    /\ UNCHANGED <<session, merged, object, closed>>

\* The chunk is there; with the last of them the file is merged.
Transferred(r) ==
    /\ At(r, "saving")
    /\ temp' = [temp EXCEPT ![Of(r)][request[r].chunk] = "whole"]
    /\ IF Received(Of(r)) = Chunks
         THEN Goto(r, "merge") /\ UNCHANGED mu
         ELSE Return(r)
    /\ UNCHANGED <<session, merged, object, closed, history>>

\* Merge, and opening what it made; after an error the chunks stay.
Merge(r) ==
    /\ At(r, "merge")
    /\ \/ /\ merged' = [merged EXCEPT ![Of(r)] =
                IF \A i \in Chunks : temp[Of(r)][i] = "whole" THEN "whole" ELSE "torn"]
          /\ Goto(r, "put")
          /\ UNCHANGED <<mu, history>>
       \/ /\ merged' = [merged EXCEPT ![Of(r)] = "torn"]
          /\ history' = [history EXCEPT !.unmerged = @ \union {Of(r)}]
          /\ Return(r)
    /\ UNCHANGED <<session, temp, object, closed>>

\* upload before anything is written: a hook refuses the file, the handler is gone
\* or Put cannot make its directory.  Close may also take the handler away after
\* that was asked, and the request panics.
Refused(r) ==
    /\ At(r, "put")
    /\ \/ Cleanup(Of(r))
       \/ closed /\ UNCHANGED <<temp, merged>>
    /\ Return(r)
    /\ UNCHANGED <<session, object, closed, history>>

\* Put of the local driver truncates the file under the path and copies.
Put(r) ==
    /\ At(r, "put") /\ ~closed
    /\ object' = IF \E q \in Requests : At(q, "putting") THEN "mixed" ELSE "part"
    /\ history' = [history EXCEPT !.put = @ \union {Of(r)}]
    /\ Goto(r, "putting")
    /\ UNCHANGED <<session, mu, temp, merged, closed>>

\* It fails half way: the chunks are removed, the session stays.
\* Faulty: the chunks stay as well.
PutFailsUncleaned(r) ==
    /\ At(r, "putting")
    /\ Return(r)
    /\ UNCHANGED <<session, temp, merged, object, closed, history>>
PutFails(r) ==
    /\ At(r, "putting")
    /\ Cleanup(Of(r))
    /\ Return(r)
    /\ UNCHANGED <<session, object, closed, history>>

Written(r) == IF object = "mixed" THEN "mixed" ELSE merged[Of(r)]

\* It is there, and the upload complete, whatever the AfterUpload hooks return:
\* the chunks are removed, and the session deleted unless Close has done that.
Completed(s) ==
    history' = [history EXCEPT !.completed = @ \union {s},
                               !.again = IF s \in history.completed THEN @ \union {s} ELSE @]
\* Faulty: the session is not deleted; the chunks are not removed.
CompleteKeepsSession(r) ==
    /\ At(r, "putting")
    /\ object' = Written(r)
    /\ Cleanup(Of(r))
    /\ Completed(Of(r))
    /\ Return(r)
    /\ UNCHANGED <<session, closed>>
CompleteKeepsChunks(r) ==
    /\ At(r, "putting")
    /\ object' = Written(r)
    /\ session' = [session EXCEPT ![Of(r)] = "deleted"]
    /\ Completed(Of(r))
    /\ Return(r)
    /\ UNCHANGED <<temp, merged, closed>>
Complete(r) ==
    /\ At(r, "putting")
    /\ object' = Written(r)
    /\ Cleanup(Of(r))
    /\ session' = [session EXCEPT ![Of(r)] = "deleted"]
    /\ Completed(Of(r))
    /\ Return(r)
    /\ UNCHANGED closed

Close ==
    /\ ~closed
    /\ closed' = TRUE
    /\ UNCHANGED <<session, mu, temp, merged, object, request, history>>

Step(r) ==
    \/ UploadChunk(r) \/ SaveChunk(r) \/ TransferBreaks(r) \/ Transferred(r) \/ Merge(r)
    \/ Refused(r) \/ Put(r) \/ PutFails(r) \/ Complete(r)

Next ==
    \/ \E s \in Sessions : InitUpload(s)
    \/ \E r \in Requests : Step(r)
    \/ Close

Spec == Init /\ [][Next]_vars

Symmetry == Permutations(Sessions) \union Permutations(Requests)

-----------------------------------------------------------------------------
(* Properties.                                                             *)

Busy(s) == mu[s] # Nobody
LateFor(s) == {i \in Chunks : <<s, i>> \in history.late}

\* UploadChunk, Merge, Put: once an upload is complete the file under its path is
\* whole: but for a chunk whose transfer broke off and counts as received, another
\* session with the same path, and a second upload from chunks that were all
\* received late.
CompleteIsWhole ==
    \A s \in Sessions :
        s \in history.completed /\ history.put = {s} =>
            object = "whole" \/ s \in history.broke \/ LateFor(s) = Chunks

\* deleteSession: an upload completes once, unless requests that waited for the
\* session's mutex when it was deleted send every chunk another time.
CompletesOnce == \A s \in history.again : LateFor(s) = Chunks

\* Cleanup: a session that is complete leaves nothing in the temporary directory
\* but what such a request has put there.
NothingIsLeft ==
    \A s \in Sessions : Over(s) => Received(s) \subseteq LateFor(s)

\* ReceivedChunks, UploadStatus: a client that asks what is missing is not told
\* "nothing" by an upload nobody completes, unless a transfer broke off or the
\* merge failed: then the files that are there count as received.
NothingMissingIsComplete ==
    \A s \in Sessions : session[s] = "open" /\ ~Busy(s) /\ ~closed =>
        \/ Received(s) # Chunks
        \/ s \in history.broke \union history.unmerged
=============================================================================
