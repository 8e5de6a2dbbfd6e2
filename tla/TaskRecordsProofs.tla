------------------------- MODULE TaskRecordsProofs -------------------------
(***************************************************************************)
(* TaskRecords for any number of calls and messages, either broker and any *)
(* errors: with a TaskSubmissionStore a task the broker has been given is  *)
(* on record; it has one message to be worked on; and its record does not  *)
(* show it under way when nobody is: but for the reasons that are named.   *)
(***************************************************************************)
EXTENDS TaskRecords, TLAPS

CallTyped ==
    call \in [Calls -> [op : {"none", "enqueue", "poll", "auto", "requeue"},
                        pc : {"idle", "delete", "purge", "ask", "accepted", "refused",
                              "mark", "done"}]]

\* As long as no record has been removed, none is missing once anything has been
\* done for the task.
UntouchedUnlessPurged ==
    shape.submits /\ rec = "none" /\ "purged" \notin odd =>
        (\A c \in Calls : ~InFlight(c)) /\ (\A m \in Messages : msg[m] = Fresh)

\* A call that has removed the record still has to record its dispatch.
Dispatching(c) == call[c].pc \in {"ask", "accepted", "refused"}
Excused == odd \intersect {"died", "unwritten"} # {}
PurgeIsRepaired ==
    shape.submits /\ shape.upserts /\ rec = "none" /\ "purged" \in odd =>
        (\E c \in Calls : Dispatching(c)) \/ Excused

\* A run that has been overtaken is a run of a message.
StraysOfMessages == \A s \in strays : s.of \in Messages

IInv == CallTyped /\ UntouchedUnlessPurged /\ PurgeIsRepaired /\ StraysOfMessages

\* Nothing has been submitted.
LEMMA InitHolds == Init => IInv
  BY DEF Init, IInv, CallTyped, UntouchedUnlessPurged, PurgeIsRepaired, InFlight,
         StraysOfMessages

\* What a call that moves, begins or ends becomes.
LEMMA CallMoves ==
    ASSUME CallTyped, NEW c \in Calls,
           NEW op \in {"none", "enqueue", "poll", "auto", "requeue"},
           NEW pc \in {"idle", "delete", "purge", "ask", "accepted", "refused", "mark",
                       "done"},
           \/ call' = [call EXCEPT ![c] = [op |-> op, pc |-> pc]]
           \/ Goto(c, pc)
    PROVE  /\ CallTyped'
           /\ call'[c].pc = pc
           /\ \A d \in Calls : d # c => call'[d] = call[d]
  BY DEF CallTyped, Goto

\* The steps of the producer's side: what they do to one call.
LEMMA StepMovesCall ==
    ASSUME CallTyped, NEW c \in Calls, CallStep(c)
    PROVE  CallTyped' /\ (\A d \in Calls : d # c => call'[d] = call[d])
<1>1. PICK op \in {"none", "enqueue", "poll", "auto", "requeue"},
           pc \in {"idle", "delete", "purge", "ask", "accepted", "refused", "mark", "done"} :
        \/ call' = [call EXCEPT ![c] = [op |-> op, pc |-> pc]]
        \/ Goto(c, pc)
  <2>1. CASE Enqueue(c) \/ EnqueueLater(c) \/ Poll(c) \/ AutoRetry(c) \/ Requeue(c)
    BY <2>1 DEF Enqueue, EnqueueLater, Poll, AutoRetry, Requeue, Begins
  <2>2. CASE DeleteAtBroker(c)
    BY <2>2 DEF DeleteAtBroker, GiveUp, Ends
  <2>3. CASE PurgeRecord(c) \/ Ask(c)
    BY <2>3 DEF PurgeRecord, Ask, GiveUp, Ends
  <2>4. CASE RecordEnqueued(c) \/ BatchBreaks(c) \/ DispatchFails(c) \/ MarkFailed(c) \/ CallerDies(c)
    BY <2>4 DEF RecordEnqueued, BatchBreaks, DispatchFails, MarkFailed, CallerDies,
                GiveUp, Ends
  <2> QED
    BY <2>1, <2>2, <2>3, <2>4 DEF CallStep
<1> QED
  BY <1>1, CallMoves

\* Until a record is removed, a missing one means that nothing has begun, and a
\* call that begins writes it first.
LEMMA CallKeepsUntouched ==
    ASSUME IInv, NEW c \in Calls, CallStep(c)
    PROVE  UntouchedUnlessPurged'
<1>0. CallTyped /\ UntouchedUnlessPurged
  BY DEF IInv
<1> SUFFICES ASSUME shape'.submits, rec' = "none", "purged" \notin odd'
             PROVE  /\ \A d \in Calls : ~InFlight(d)'
                    /\ \A m \in Messages : msg'[m] = Fresh
  BY DEF UntouchedUnlessPurged
<1>1. shape' = shape /\ "purged" \notin odd
  BY DEF Enqueue, EnqueueLater, Poll, AutoRetry, Requeue, DeleteAtBroker, PurgeRecord,
         Ask, CallStep, RecordEnqueued, BatchBreaks, DispatchFails, MarkFailed,
         CallerDies, Begins, Writes
<1>2. rec = "none"
  BY <1>1 DEF Enqueue, EnqueueLater, Poll, AutoRetry, Requeue, DeleteAtBroker,
              PurgeRecord, Ask, CallStep, RecordEnqueued, BatchBreaks, DispatchFails,
              MarkFailed, CallerDies, Writes, Updated, Marked
<1>3. (\A d \in Calls : ~InFlight(d)) /\ (\A m \in Messages : msg[m] = Fresh)
  BY <1>0, <1>1, <1>2 DEF UntouchedUnlessPurged
<1>4. (Enqueue(c) \/ EnqueueLater(c)) /\ call'[c].pc = "done" /\ msg' = msg
  <2>1. Enqueue(c) \/ EnqueueLater(c)
    BY <1>2, <1>3 DEF Poll, AutoRetry, Requeue, DeleteAtBroker, PurgeRecord, Ask,
                      CallStep, RecordEnqueued, BatchBreaks, DispatchFails, MarkFailed,
                      CallerDies, InFlight
  <2>2. Begins(c, "none", "done", {}) /\ msg' = msg
    BY <1>1, <2>1 DEF Enqueue, EnqueueLater
  <2> QED
    BY <1>0, <2>1, <2>2, CallMoves DEF Begins
<1>5. \A d \in Calls : d # c => call'[d] = call[d]
  BY <1>0, StepMovesCall
<1> QED
  BY <1>3, <1>4, <1>5 DEF InFlight

\* A call that has removed the record records its dispatch in the end, inserting
\* what is not there, or leaves an excuse.
LEMMA CallKeepsRepaired ==
    ASSUME IInv, NEW c \in Calls, CallStep(c)
    PROVE  PurgeIsRepaired'
<1>0. CallTyped /\ UntouchedUnlessPurged /\ PurgeIsRepaired
  BY DEF IInv
<1>1. shape' = shape /\ (Excused => Excused')
  BY DEF Enqueue, EnqueueLater, Poll, AutoRetry, Requeue, DeleteAtBroker, PurgeRecord,
         Ask, CallStep, RecordEnqueued, BatchBreaks, DispatchFails, MarkFailed,
         CallerDies, Begins, Writes, Excused
<1>2. CallTyped' /\ (\A d \in Calls : d # c => call'[d] = call[d])
  BY <1>0, StepMovesCall
<1> SUFFICES ASSUME shape.submits, shape.upserts, rec' = "none", "purged" \in odd',
                    ~Excused'
             PROVE  \E d \in Calls : Dispatching(d)'
  BY <1>1 DEF PurgeIsRepaired
<1>3. CASE PurgeRecord(c)
  <2>1. CASE Goto(c, "ask")
    BY <1>0, <2>1, CallMoves DEF Dispatching
  <2>2. CASE ~Goto(c, "ask")
    <3>1. rec' = rec /\ odd' = odd /\ call[c].pc = "purge"
      BY <1>3, <2>2 DEF PurgeRecord
    <3>2. PICK d \in Calls : Dispatching(d)
      BY <1>0, <1>1, <3>1 DEF PurgeIsRepaired
    <3> QED
      BY <1>2, <3>1, <3>2 DEF Dispatching
  <2> QED
    BY <2>1, <2>2
<1>4. CASE ~PurgeRecord(c)
  <2>1. "purged" \in odd /\ rec = "none"
    <3>1. "purged" \in odd
      <4>1. "purged" \notin Race
        BY DEF Race
      <4>2. CASE Enqueue(c) \/ EnqueueLater(c) \/ Poll(c) \/ AutoRetry(c) \/ Requeue(c)
        <5>1. odd' = odd \union {} \union Race \/ odd' = odd \union {"by hand"} \union Race
          BY <4>2 DEF Enqueue, EnqueueLater, Poll, AutoRetry, Requeue, Begins
        <5> QED
          BY <4>1, <5>1
      <4>3. CASE Ask(c)
        <5>1. CASE UNCHANGED odd
          BY <5>1
        <5>2. CASE odd' # odd
          <6>1. PICK lost : odd' = odd \union (IF lost THEN {"lost reply"} ELSE {})
            BY <4>3, <5>2 DEF Ask
          <6> QED
            BY <6>1
        <5> QED
          BY <5>1, <5>2
      <4>4. CASE DeleteAtBroker(c) \/ BatchBreaks(c) \/ CallerDies(c)
        BY <4>4 DEF DeleteAtBroker, BatchBreaks, CallerDies
      <4>5. CASE RecordEnqueued(c) \/ DispatchFails(c) \/ MarkFailed(c)
        BY <4>5 DEF RecordEnqueued, DispatchFails, MarkFailed, Writes
      <4> QED
        BY <1>4, <4>2, <4>3, <4>4, <4>5 DEF CallStep
    <3>2. rec = "none"
      BY <1>4 DEF Enqueue, EnqueueLater, Poll, AutoRetry, Requeue, DeleteAtBroker, Ask,
                  CallStep, RecordEnqueued, BatchBreaks, DispatchFails, MarkFailed,
                  CallerDies, Writes, Updated, Marked
    <3> QED
      BY <3>1, <3>2
  <2>2. PICK d \in Calls : Dispatching(d)
    BY <1>0, <1>1, <2>1 DEF PurgeIsRepaired
  <2>3. CASE d # c
    BY <1>2, <2>2, <2>3 DEF Dispatching
  <2>4. CASE d = c
    <3>1. Ask(c)
      BY <1>4, <2>1, <2>2, <2>4
         DEF Enqueue, EnqueueLater, Poll, AutoRetry, Requeue, DeleteAtBroker,
             CallStep, RecordEnqueued, BatchBreaks, DispatchFails, MarkFailed, CallerDies,
             Begins, Writes, Updated, Excused, Dispatching, Unsubmitted, Prepared
    <3>2. Goto(c, "accepted") \/ Goto(c, "refused")
      BY <3>1 DEF Ask
    <3> QED
      BY <1>0, <3>2, CallMoves DEF Dispatching
  <2> QED
    BY <2>3, <2>4
<1> QED
  BY <1>3, <1>4

\* A worker has a message, so the task is not untouched; it never removes the
\* record.
LEMMA RunKeeps ==
    ASSUME IInv, NEW m \in Messages, RunStep(m)
    PROVE  IInv'
<1>1. shape' = shape /\ call' = call
  BY DEF RunStep, Refuse, StartRun, FinishRun, Settle, WorkerDies, Overtake
<1>2. msg[m] # Fresh
  <2>1. msg[m].st \in {"waiting", "active"} \/ msg[m].pc \in {"finish", "settle"}
    BY DEF RunStep, Refuse, StartRun, FinishRun, Settle, WorkerDies, Overtake, At, Alive
  <2> QED
    BY <2>1 DEF Fresh
<1>3. /\ "purged" \in odd' <=> "purged" \in odd
      /\ Excused => Excused'
  <2>1. ("purged" \in odd' <=> "purged" \in odd) /\ odd \subseteq odd'
    <3>1. "purged" \notin Race /\ \A e : "purged" \notin Disagreement(m, e)
      BY DEF Race, Disagreement
    <3>2. CASE Refuse(m)
      <4>1. PICK e \in GuardErrors :
              odd' = odd \union Disagreement(m, e)
                         \union (IF Outcome(e, msg[m].count) = "dead" THEN {"refused"} ELSE {})
        BY <3>2 DEF Refuse
      <4> QED
        BY <3>1, <4>1
    <3>3. CASE StartRun(m)
      <4>1. PICK ensured, tracked \in BOOLEAN :
              odd' = odd \union (IF tracked THEN {} ELSE {"unwritten"})
                         \union (IF ensured THEN Race ELSE {})
        BY <3>3 DEF StartRun
      <4> QED
        BY <3>1, <4>1
    <3>4. CASE FinishRun(m)
      <4>1. PICK e : \/ odd' = odd \union (Race \union Disagreement(m, e))
                     \/ odd' = odd \union {"unwritten"}
                     \/ odd' = odd \union Disagreement(m, e)
        BY <3>4 DEF FinishRun, Writes
      <4> QED
        BY <3>1, <4>1
    <3>5. CASE Settle(m) \/ WorkerDies(m) \/ Overtake(m)
      <4>1. \/ odd' = odd \/ odd' = odd \union {"crash"} \/ odd' = odd \union {"overlap"}
            \/ odd' = odd \union {"crash"} \union {"goes on"}
        BY <3>5 DEF Settle, WorkerDies, Overtake
      <4> QED
        BY <4>1
    <3> QED
      BY <3>2, <3>3, <3>4, <3>5 DEF RunStep
  <2> QED
    BY <2>1 DEF Excused
<1>4. rec' = "none" => rec = "none"
  BY DEF RunStep, Refuse, StartRun, FinishRun, Settle, WorkerDies, Overtake, Writes,
         Marked, StatusOf
<1>5. StraysOfMessages'
  <2>1. strays' = strays \/ strays' = strays \union {Stray(m)}
    BY DEF RunStep, Refuse, StartRun, FinishRun, Settle, WorkerDies, Overtake
  <2> QED
    BY <2>1 DEF IInv, StraysOfMessages, Stray
<1> QED
  BY <1>1, <1>2, <1>3, <1>4, <1>5
     DEF IInv, CallTyped, UntouchedUnlessPurged, PurgeIsRepaired, Dispatching, InFlight

\* A run that has been overtaken updates the record at most, and ends a message that
\* has been given to the broker.
LEMMA StrayKeeps ==
    ASSUME IInv, NEW s \in strays, StrayStep(s)
    PROVE  IInv'
<1>1. shape' = shape /\ call' = call /\ odd' = odd
  BY DEF StrayStep, StrayFinishes, StraySettles
<1>2. rec' = "none" <=> rec = "none"
  BY DEF StrayStep, StrayFinishes, StraySettles, Marked, StatusOf
<1>3. s.of \in Messages
  BY DEF IInv, StraysOfMessages
<1>4. msg' = msg \/ msg[s.of] # Fresh
  <2>1. msg' = msg \/ msg[s.of].st \in {"active", "waiting"}
    BY DEF StrayStep, StrayFinishes, StraySettles
  <2> QED
    BY <2>1 DEF Fresh
<1>5. StraysOfMessages'
  <2>1. CASE StrayFinishes(s)
    <3>1. PICK v : strays' \subseteq
                    strays \union {[s EXCEPT !.run.outcome = v, !.run.pc = "settle"]}
      BY <2>1 DEF StrayFinishes
    <3>2. PICK t : t = [s EXCEPT !.run.outcome = v, !.run.pc = "settle"]
      OBVIOUS
    <3>3. t.of = s.of
      BY <3>2
    <3> QED
      BY <1>3, <3>1, <3>2, <3>3 DEF IInv, StraysOfMessages
  <2>2. CASE StraySettles(s)
    <3>1. strays' \subseteq strays \union {Stray(s.of)}
      BY <2>2 DEF StraySettles
    <3> QED
      BY <1>3, <3>1 DEF IInv, StraysOfMessages, Stray
  <2> QED
    BY <2>1, <2>2 DEF StrayStep
<1> QED
  BY <1>1, <1>2, <1>3, <1>4, <1>5
     DEF IInv, CallTyped, UntouchedUnlessPurged, PurgeIsRepaired, Dispatching, InFlight, Excused

\* Every step keeps the invariant.
LEMMA StepKeeps == ASSUME IInv, [Next]_vars PROVE IInv'
<1>1. CASE UNCHANGED vars
  BY <1>1 DEF vars, IInv, CallTyped, UntouchedUnlessPurged, PurgeIsRepaired, Dispatching,
              InFlight, Excused, StraysOfMessages
<1>2. ASSUME NEW c \in Calls, CallStep(c)
      PROVE  IInv'
  <2>1. CallTyped'
    BY <1>2, StepMovesCall DEF IInv
  <2>2. StraysOfMessages'
    BY <1>2 DEF CallStep, IInv, StraysOfMessages
  <2> QED
    BY <1>2, <2>1, <2>2, CallKeepsUntouched, CallKeepsRepaired DEF IInv
<1> QED
  BY <1>1, <1>2, RunKeeps, StrayKeeps DEF Next

\* The invariant holds.
THEOREM InvHolds == Spec => []IInv
  BY InitHolds, StepKeeps, PTL DEF Spec

\* Enqueue, RequeueTaskRecord (core/queue/runtime_instance.go:264 and 291): a
\* task the broker has ever been given is on record, unless a requeue has removed
\* it and is still at work, or a named fault excuses it.
THEOREM TasksAreRecorded == Spec => []SubmittedIsRecorded
<1>1. ASSUME IInv PROVE SubmittedIsRecorded
  <2> SUFFICES ASSUME shape.submits, NEW m \in Messages, msg[m].st # "none", rec = "none"
               PROVE  /\ "purged" \in odd
                      /\ \/ \E c \in Calls : InFlight(c)
                         \/ ~shape.upserts
                         \/ odd \intersect {"died", "unwritten"} # {}
    BY DEF SubmittedIsRecorded
  <2>1. "purged" \in odd
    BY <1>1 DEF IInv, UntouchedUnlessPurged, Fresh
  <2>2. ASSUME NEW c \in Calls, Dispatching(c) PROVE InFlight(c)
    BY <2>2 DEF Dispatching, InFlight
  <2> QED
    BY <1>1, <2>1, <2>2 DEF IInv, PurgeIsRepaired, Excused
<1> QED
  BY <1>1, InvHolds, PTL
-----------------------------------------------------------------------------
(* One message at a time, and no record left behind.                       *)

\* The limits are numbers, a message is at a place of a run as long as a worker has
\* it, and a run without a record or one that is overtaken leaves an excuse.
Message == [st : {"none", "waiting", "active", "archived", "gone"},
            count : Nat,
            pc : {"none", "finish", "settle"},
            outcome : {"none", "done", "uncounted", "again", "dead", "spent"},
            tracked : BOOLEAN]
MsgTyped ==
    /\ shape.budget \in Nat /\ shape.maxDeliver \in Nat
    /\ shape.driver \in {"asynq", "nats"}
    /\ msg \in [Messages -> Message]
StraysTyped ==
    /\ strays \subseteq [of : Messages, run : Message]
    /\ strays # {} => "overlap" \in odd
MsgFits(m) ==
    /\ msg[m].st = "active" <=> msg[m].pc # "none"
    /\ At(m, "finish") /\ msg[m].tracked = FALSE => "unwritten" \in odd

\* Before the task is submitted there is nothing of it.
NothingYet ==
    Unsubmitted => rec = "none" /\ \A m \in Messages : msg[m].st = "none"

\* Two calls at a time are a race.
CallsRace ==
    \A c, d \in Calls : InFlight(c) /\ InFlight(d) /\ c # d => "race" \in odd

Shaped ==
    MsgTyped /\ StraysTyped /\ (\A m \in Messages : MsgFits(m)) /\ NothingYet /\ CallsRace

\* A message the broker will end whatever happens to its run.
Doomed(m) == At(m, "settle") /\ msg[m].outcome \in {"dead", "spent"}
Live(m) == Alive(m) /\ ~Doomed(m)

\* What OneAtATime names.
Clean ==
    odd \intersect {"died", "overlap", "unwritten", "lost reply", "goes on", "race",
                    "by hand", "unrecorded"} = {}

\* A call at one of these places will ask the broker, or has asked in vain.
Asking(c) == call[c].pc \in {"delete", "purge", "ask", "refused", "mark"}

\* One message lives, and none as long as the record may be handed out or a call
\* that has it has no message to show for it.
OneLives == \A m, n \in Messages : Live(m) /\ Live(n) => m = n
HandedOutIsOver ==
    (\/ (\E c \in Calls : Asking(c))
     \/ rec \in {"scheduled", "failed", "submit_failed"} /\ \A c \in Calls : ~InFlight(c))
    => \A m \in Messages : ~Live(m)
EnqueueIsFirst ==
    \A c \in Calls : InFlight(c) /\ call[c].op = "enqueue" /\ ~shape.submits => rec = "none"

OneInv == Clean => OneLives /\ HandedOutIsOver /\ EnqueueIsFirst

\* What StuckIsExcused names.
Sound ==
    /\ odd \intersect {"crash", "died", "overlap", "unwritten", "lost reply", "refused",
                       "spent", "race"} = {}
    /\ shape.submits

\* A record that shows a task under way has a call or a message behind it.
UnderWayHasOwner ==
    /\ rec \in {"submitting", "claimed"} => \E c \in Calls : InFlight(c)
    /\ rec \in {"pending", "active", "retry"} =>
           (\E c \in Calls : InFlight(c)) \/ (\E m \in Messages : Unfinished(m))
AcceptedIsHeld ==
    \A c \in Calls : call[c].pc = "accepted" => \E m \in Messages : Unfinished(m)
RequeueFindsItOver ==
    \A c \in Calls : call[c].pc \in {"delete", "purge"} /\ call[c].op # "auto" =>
        rec \in {"failed", "submit_failed"}

StuckInv == Sound => UnderWayHasOwner /\ AcceptedIsHeld /\ RequeueFindsItOver

\* An excuse stays, and the driver, the budget and the store do not change.
LEMMA OddGrows == ASSUME [Next]_vars PROVE odd \subseteq odd' /\ shape' = shape
<1>1. ASSUME NEW c \in Calls, CallStep(c) PROVE odd \subseteq odd' /\ shape' = shape
  BY <1>1 DEF CallStep, Enqueue, EnqueueLater, Poll, AutoRetry, Requeue, DeleteAtBroker,
              PurgeRecord, Ask, RecordEnqueued, BatchBreaks, DispatchFails, MarkFailed,
              CallerDies, Begins, Writes
<1>2. ASSUME NEW m \in Messages, RunStep(m) PROVE odd \subseteq odd' /\ shape' = shape
  BY <1>2 DEF RunStep, Refuse, StartRun, FinishRun, Settle, WorkerDies, Overtake, Writes
<1>3. ASSUME NEW s \in strays, StrayStep(s) PROVE odd \subseteq odd' /\ shape' = shape
  BY <1>3 DEF StrayStep, StrayFinishes, StraySettles
<1> QED
  BY <1>1, <1>2, <1>3 DEF Next, vars

\* A call begins when nothing has been submitted, or with a record to work on; a
\* call in flight has begun.
Starting(c) == Enqueue(c) \/ EnqueueLater(c) \/ Poll(c) \/ AutoRetry(c) \/ Requeue(c)
Continuing(c) ==
    \/ DeleteAtBroker(c) \/ PurgeRecord(c) \/ Ask(c) \/ RecordEnqueued(c) \/ BatchBreaks(c)
    \/ DispatchFails(c) \/ MarkFailed(c) \/ CallerDies(c)

\* A call leaves the messages alone, takes one from the broker that no worker
\* has, or gives it one.
Takes(c, m) ==
    /\ DeleteAtBroker(c) /\ msg[m].st \in {"waiting", "archived"}
    /\ msg' = [msg EXCEPT ![m].st = "gone"]
    /\ Goto(c, "ask")
Gives(c, m) ==
    /\ Ask(c) /\ msg[m].st = "none"
    /\ msg' = [msg EXCEPT ![m].st = "waiting"]
LEMMA CallAndMessages ==
    ASSUME NEW c \in Calls, Starting(c) \/ Continuing(c)
    PROVE  msg' = msg \/ (\E m \in Messages : Takes(c, m) \/ Gives(c, m))
<1>1. CASE DeleteAtBroker(c)
  BY <1>1 DEF DeleteAtBroker, Takes, Held
<1>2. CASE Ask(c)
  BY <1>2 DEF Ask, Gives
<1> QED
  BY <1>1, <1>2 DEF Starting, Continuing, Enqueue, EnqueueLater, Poll, AutoRetry, Requeue,
                    PurgeRecord, RecordEnqueued, BatchBreaks, DispatchFails, MarkFailed,
                    CallerDies

\* What becomes of a message when its run has ended.
EndsAs(a, v) ==
    /\ a \in Message
    /\ a.pc = "none" /\ a.st # "active"
    /\ v \in {"dead", "spent"} => a.st \notin {"waiting", "active"}
    /\ v = "done" => a.st = "gone"
    /\ v \in {"again", "uncounted"} => a.st = "waiting"
LEMMA AfterFits ==
    ASSUME MsgTyped, NEW m \in Messages, NEW v
    PROVE  EndsAs(After(m, v), v)
<1>1. PICK a : a = After(m, v)
  OBVIOUS
<1> SUFFICES EndsAs(a, v)
  BY <1>1
<1>2. CASE v = "done"
  <2>1. a \in Message /\ a.st = "gone" /\ a.pc = "none"
    BY <1>1, <1>2 DEF After, Fresh, Message
  <2> QED
    BY <1>2, <2>1 DEF EndsAs
<1>3. CASE v \in {"again", "uncounted"}
  <2>1. PICK k \in Nat : k = IF v = "again" THEN msg[m].count + 1 ELSE msg[m].count
    BY DEF MsgTyped, Message
  <2>2. a = [Fresh EXCEPT !.st = "waiting", !.count = k]
    BY <1>1, <1>3, <2>1 DEF After
  <2>3. a \in Message /\ a.st = "waiting" /\ a.pc = "none"
    BY <2>2 DEF Fresh, Message
  <2> QED
    BY <1>3, <2>3 DEF EndsAs
<1>4. CASE v \notin {"done", "again", "uncounted"}
  <2>1. a \in Message /\ a.st \notin {"waiting", "active"} /\ a.pc = "none"
    BY <1>1, <1>4 DEF After, Fresh, Message
  <2> QED
    BY <1>4, <2>1 DEF EndsAs
<1> QED
  BY <1>2, <1>3, <1>4

\* What the driver is asked for is one of these.
LEMMA OutcomeFits ==
    ASSUME NEW e, NEW count
    PROVE  Outcome(e, count) \in {"none", "done", "uncounted", "again", "dead", "spent"}
  BY DEF Outcome

\* What each step of a run makes of its message.
Others(m) == \A n \in Messages : n # m => msg'[n] = msg[n]
LEMMA RefuseMessage ==
    ASSUME MsgTyped, NEW m \in Messages, Refuse(m)
    PROVE  /\ msg' \in [Messages -> Message] /\ Others(m)
           /\ msg'[m].st = "active" /\ msg'[m].pc = "settle"
           /\ msg'[m].outcome # "done"
           /\ msg'[m].outcome \in {"again", "uncounted"} \/ ~Sound'
<1>1. PICK e \in GuardErrors :
        /\ msg' = [msg EXCEPT ![m].st = "active", ![m].pc = "settle",
                              ![m].outcome = Outcome(e, msg[m].count)]
        /\ odd' = odd \union Disagreement(m, e)
                       \union (IF Outcome(e, msg[m].count) = "dead" THEN {"refused"} ELSE {})
  BY DEF Refuse
<1>2. PICK v \in {"none", "done", "uncounted", "again", "dead", "spent"} :
        v = Outcome(e, msg[m].count)
  BY OutcomeFits
<1>3. v \notin {"none", "done"} /\ ~IsFatal(e)
  BY <1>2 DEF Outcome, GuardErrors, IsFatal
<1>4. msg \in [Messages -> Message]
  BY DEF MsgTyped
<1>5. msg' = [msg EXCEPT ![m].st = "active", ![m].pc = "settle", ![m].outcome = v]
  BY <1>1, <1>2
<1>6. msg' \in [Messages -> Message] /\ Others(m)
  <2>1. msg' = [msg EXCEPT ![m] = [msg[m] EXCEPT !.st = "active", !.pc = "settle",
                                                 !.outcome = v]]
    BY <1>4, <1>5 DEF Message
  <2>2. [msg[m] EXCEPT !.st = "active", !.pc = "settle", !.outcome = v] \in Message
    BY <1>4, <1>2 DEF Message
  <2> QED
    BY <1>4, <2>1, <2>2 DEF Others
<1>7. msg'[m].st = "active" /\ msg'[m].pc = "settle" /\ msg'[m].outcome = v
  BY <1>4, <1>5 DEF Message
<1>8. ASSUME Sound' PROVE v \in {"again", "uncounted"}
  <2>1. v # "dead"
    BY <1>1, <1>2, <1>8 DEF Sound
  <2>2. v # "spent"
    BY <1>1, <1>2, <1>3, <1>8 DEF Sound, Disagreement
  <2> QED
    BY <1>3, <2>1, <2>2
<1> QED
  BY <1>3, <1>6, <1>7, <1>8

LEMMA StartMessage ==
    ASSUME MsgTyped, NEW m \in Messages, StartRun(m)
    PROVE  /\ msg' \in [Messages -> Message] /\ Others(m)
           /\ msg'[m].st = "active" /\ msg'[m].pc = "finish"
           /\ msg'[m].count = msg[m].count
           /\ msg'[m].tracked = FALSE => "unwritten" \in odd'
<1>1. PICK tracked \in BOOLEAN :
        /\ msg' = [msg EXCEPT ![m].st = "active", ![m].pc = "finish", ![m].tracked = tracked]
        /\ tracked = FALSE => "unwritten" \in odd'
  BY DEF StartRun
<1> QED
  BY <1>1 DEF MsgTyped, Message, Others
LEMMA FinishMessage ==
    ASSUME MsgTyped, NEW m \in Messages, NEW e,
           msg' = [msg EXCEPT ![m].outcome = Outcome(e, msg[m].count), ![m].pc = "settle"]
    PROVE  /\ msg' \in [Messages -> Message] /\ Others(m)
           /\ msg'[m].st = msg[m].st /\ msg'[m].pc = "settle"
           /\ msg'[m].outcome = Outcome(e, msg[m].count)
<1>1. PICK v \in {"none", "done", "uncounted", "again", "dead", "spent"} :
        v = Outcome(e, msg[m].count)
  BY OutcomeFits
<1> QED
  BY <1>1 DEF MsgTyped, Message, Others
Ended(m, v) == msg' \in [Messages -> Message] /\ Others(m) /\ EndsAs(msg'[m], v)
LEMMA MessageEnds ==
    ASSUME MsgTyped, NEW m \in Messages, NEW v, msg' = [msg EXCEPT ![m] = After(m, v)]
    PROVE  Ended(m, v)
<1>1. EndsAs(After(m, v), v)
  BY AfterFits
<1> QED
  BY <1>1 DEF Ended, EndsAs, Others, MsgTyped
LEMMA SettleMessage ==
    ASSUME MsgTyped, NEW m \in Messages, Settle(m)
    PROVE  Ended(m, msg[m].outcome)
  BY MessageEnds DEF Settle
LEMMA SilentMessage ==
    ASSUME MsgTyped, NEW m \in Messages, msg' = [msg EXCEPT ![m] = AfterSilence(m)]
    PROVE  \E v : Ended(m, v)
<1>1. PICK v : AfterSilence(m) = After(m, v)
  <2>1. CASE shape.driver = "asynq"
    BY <2>1 DEF AfterSilence
  <2>2. CASE shape.driver # "asynq"
    BY <2>2 DEF AfterSilence
  <2> QED
    BY <2>1, <2>2
<1> QED
  BY <1>1, MessageEnds

\* What a call that takes or gives a message makes of it.
LEMMA TakesMessage ==
    ASSUME MsgTyped, NEW c \in Calls, NEW m \in Messages, Takes(c, m)
    PROVE  /\ msg' \in [Messages -> Message] /\ Others(m)
           /\ msg'[m].st = "gone" /\ msg'[m].pc = msg[m].pc /\ msg'[m].count = msg[m].count
  BY DEF MsgTyped, Message, Others, Takes
LEMMA GivesMessage ==
    ASSUME MsgTyped, NEW c \in Calls, NEW m \in Messages, Gives(c, m)
    PROVE  /\ msg' \in [Messages -> Message] /\ Others(m)
           /\ msg'[m].st = "waiting" /\ msg'[m].pc = msg[m].pc
           /\ msg'[m].count = msg[m].count
  BY DEF MsgTyped, Message, Others, Gives

LEMMA CallStarts ==
    ASSUME CallTyped, NEW c \in Calls, Starting(c)
    PROVE  /\ call[c].pc = "idle" /\ call'[c].pc # "idle" /\ msg' = msg /\ shape' = shape
           /\ Race \subseteq odd'
           /\ \A d \in Calls : d # c => call'[d] = call[d]
<1>1. PICK op \in {"none", "enqueue", "poll", "auto", "requeue"}, pc \in {"delete", "ask", "done"} :
        \E excuse : Begins(c, op, pc, excuse)
  BY DEF Starting, Enqueue, EnqueueLater, Poll, AutoRetry, Requeue
<1>2. call'[c].pc = pc /\ (\A d \in Calls : d # c => call'[d] = call[d])
  BY <1>1, CallMoves DEF Begins
<1>3. msg' = msg /\ shape' = shape
  BY DEF Starting, Enqueue, EnqueueLater, Poll, AutoRetry, Requeue
<1> QED
  BY <1>1, <1>2, <1>3 DEF Begins
LEMMA CallContinues ==
    ASSUME CallTyped, NEW c \in Calls, Continuing(c)
    PROVE  /\ InFlight(c) /\ call'[c].pc # "idle"
           /\ \A d \in Calls : d # c => call'[d] = call[d]
<1>1. InFlight(c)
  BY DEF Continuing, DeleteAtBroker, PurgeRecord, Ask, RecordEnqueued, BatchBreaks,
         DispatchFails, MarkFailed, CallerDies, InFlight
<1>2. PICK op \in {"none", "enqueue", "poll", "auto", "requeue"},
           pc \in {"delete", "purge", "ask", "accepted", "refused", "mark", "done"} :
        \/ call' = [call EXCEPT ![c] = [op |-> op, pc |-> pc]]
        \/ Goto(c, pc)
  BY DEF Continuing, DeleteAtBroker, PurgeRecord, Ask, RecordEnqueued, BatchBreaks,
         DispatchFails, MarkFailed, CallerDies, GiveUp, Ends
<1> QED
  BY <1>1, <1>2, CallMoves

LEMMA InitShaped == Init => Shaped /\ OneInv /\ StuckInv
<1> SUFFICES ASSUME Init PROVE Shaped /\ OneInv /\ StuckInv
  OBVIOUS
<1>1. shape.budget \in Nat /\ shape.maxDeliver \in Nat /\ shape.driver \in {"asynq", "nats"}
  <2>1. /\ shape.budget \in Budgets /\ shape.driver \in Drivers
        /\ shape.maxDeliver \in MaxDelivers \union {0}
    BY DEF Init, Shapes
  <2>2. Drivers \subseteq {"asynq", "nats"} /\ Budgets \subseteq Nat /\ MaxDelivers \subseteq Nat
    BY RecordAssumption
  <2>3. MaxDelivers \union {0} \subseteq Nat
    BY <2>2
  <2> QED
    BY <2>1, <2>2, <2>3
<1>2. MsgTyped /\ StraysTyped /\ (\A m \in Messages : MsgFits(m))
  BY <1>1 DEF Init, MsgTyped, StraysTyped, MsgFits, Message, Fresh, At
<1>3. NothingYet /\ CallsRace
  BY DEF Init, NothingYet, CallsRace, Fresh, InFlight
<1>4. OneInv /\ StuckInv
  BY DEF Init, OneInv, StuckInv, OneLives, HandedOutIsOver, EnqueueIsFirst, UnderWayHasOwner,
         AcceptedIsHeld, RequeueFindsItOver, Fresh, InFlight, Live, Alive, Asking
<1> QED
  BY <1>2, <1>3, <1>4 DEF Shaped

\* A run has its message from StartRun on, and a call has been accepted before it
\* has a message.
LEMMA ShapedStep == ASSUME CallTyped, Shaped, [Next]_vars PROVE Shaped'
<1>0. shape' = shape /\ odd \subseteq odd'
  BY OddGrows
<1>1. ASSUME NEW c \in Calls, CallStep(c) PROVE Shaped'
  <2>0. MsgTyped /\ StraysTyped /\ strays' = strays /\ (\A m \in Messages : MsgFits(m))
    BY <1>1 DEF Shaped, CallStep
  <2>1. Starting(c) \/ Continuing(c)
    BY <1>1 DEF CallStep, Starting, Continuing
  <2>2. MsgTyped' /\ (\A m \in Messages : MsgFits(m)')
    <3>1. CASE msg' = msg
      BY <1>0, <2>0, <3>1 DEF MsgTyped, MsgFits, At
    <3>2. CASE \E m \in Messages : Takes(c, m)
      <4>1. PICK m \in Messages : Takes(c, m)
        BY <3>2
      <4>2. msg[m].st \in {"waiting", "archived"}
        BY <4>1 DEF Takes
      <4> QED
        BY <1>0, <2>0, <4>1, <4>2, TakesMessage DEF MsgTyped, MsgFits, At, Others
    <3>3. CASE \E m \in Messages : Gives(c, m)
      <4>1. PICK m \in Messages : Gives(c, m)
        BY <3>3
      <4>2. msg[m].st = "none"
        BY <4>1 DEF Gives
      <4> QED
        BY <1>0, <2>0, <4>1, <4>2, GivesMessage DEF MsgTyped, MsgFits, At, Others
    <3> QED
      BY <2>1, <3>1, <3>2, <3>3, CallAndMessages
  <2>3. NothingYet'
    BY <2>1, CallStarts, CallContinues DEF NothingYet, Unsubmitted
  <2>4. CallsRace'
    <3>1. CASE Starting(c)
      BY <1>0, <3>1, CallStarts DEF Shaped, CallsRace, InFlight, Race
    <3>2. CASE Continuing(c)
      BY <1>0, <3>2, CallContinues DEF Shaped, CallsRace, InFlight
    <3> QED
      BY <2>1, <3>1, <3>2
  <2>5. StraysTyped'
    BY <1>0, <2>0 DEF StraysTyped
  <2> QED
    BY <2>2, <2>3, <2>4, <2>5 DEF Shaped
<1>2. ASSUME NEW m \in Messages, RunStep(m) PROVE Shaped'
  <2>0. MsgTyped /\ StraysTyped /\ (\A n \in Messages : MsgFits(n)) /\ call' = call
    BY <1>2 DEF Shaped, RunStep, Refuse, StartRun, FinishRun, Settle, WorkerDies, Overtake
  <2>1. MsgTyped' /\ (\A n \in Messages : MsgFits(n)')
    <3>1. CASE Refuse(m)
      BY <1>0, <2>0, <3>1, RefuseMessage DEF MsgTyped, MsgFits, At, Others
    <3>2. CASE StartRun(m)
      BY <1>0, <2>0, <3>2, StartMessage DEF MsgTyped, MsgFits, At, Others
    <3>3. CASE FinishRun(m)
      <4>1. PICK e \in HandlerErrors :
              msg' = [msg EXCEPT ![m].outcome = Outcome(e, msg[m].count), ![m].pc = "settle"]
        BY <3>3 DEF FinishRun
      <4>2. msg[m].pc = "finish"
        BY <3>3 DEF FinishRun, At
      <4> QED
        BY <1>0, <2>0, <4>1, <4>2, FinishMessage DEF MsgTyped, MsgFits, At, Others
    <3>4. CASE Settle(m) \/ WorkerDies(m) \/ Overtake(m)
      <4>1. PICK v : Ended(m, v)
        BY <2>0, <3>4, SettleMessage, SilentMessage DEF WorkerDies, Overtake
      <4> QED
        BY <1>0, <2>0, <4>1 DEF Ended, EndsAs, MsgTyped, MsgFits, At, Others
    <3> QED
      BY <1>2, <3>1, <3>2, <3>3, <3>4 DEF RunStep
  <2>2. msg[m].st # "none"
    <3>1. msg[m].st \in {"waiting", "active"} \/ msg[m].pc # "none"
      BY <1>2 DEF RunStep, Refuse, StartRun, FinishRun, Settle, WorkerDies, Overtake, At, Alive
    <3> QED
      BY <2>0, <3>1 DEF MsgFits
  <2>3. ~Unsubmitted
    BY <2>2 DEF Shaped, NothingYet
  <2>4. StraysTyped'
    <3>1. CASE Overtake(m)
      <4>1. Stray(m) \in [of : Messages, run : Message]
        BY <2>0 DEF Stray, MsgTyped
      <4> QED
        BY <2>0, <3>1, <4>1 DEF Overtake, StraysTyped
    <3>2. CASE ~Overtake(m)
      <4>1. strays' = strays
        BY <1>2, <3>2 DEF RunStep, Refuse, StartRun, FinishRun, Settle, WorkerDies
      <4> QED
        BY <1>0, <2>0, <4>1 DEF StraysTyped
    <3> QED
      BY <3>1, <3>2
  <2> QED
    BY <1>0, <2>0, <2>1, <2>3, <2>4 DEF Shaped, NothingYet, Unsubmitted, CallsRace, InFlight
<1>3. ASSUME NEW s \in strays, StrayStep(s) PROVE Shaped'
  <2>0. /\ MsgTyped /\ StraysTyped /\ (\A n \in Messages : MsgFits(n))
        /\ call' = call /\ odd' = odd
    BY <1>3 DEF Shaped, StrayStep, StrayFinishes, StraySettles
  <2>1. s \in [of : Messages, run : Message] /\ s.of \in Messages
    BY <2>0 DEF StraysTyped
  <2>2. MsgTyped' /\ (\A n \in Messages : MsgFits(n)')
    <3>1. CASE msg' = msg
      BY <1>0, <2>0, <3>1 DEF MsgTyped, MsgFits, At
    <3>2. CASE msg' # msg
      <4>1. PICK v : Ended(s.of, v)
        BY <1>3, <2>0, <2>1, <3>2, MessageEnds, SilentMessage
           DEF StrayStep, StrayFinishes, StraySettles
      <4> QED
        BY <1>0, <2>0, <2>1, <4>1 DEF Ended, EndsAs, MsgTyped, MsgFits, At, Others
    <3> QED
      BY <3>1, <3>2
  <2>3. StraysTyped'
    <3>1. CASE StrayFinishes(s)
      <4>1. PICK v \in {"none", "done", "uncounted", "again", "dead", "spent"} :
              strays' \subseteq strays \union {[s EXCEPT !.run.outcome = v, !.run.pc = "settle"]}
        BY <3>1, OutcomeFits DEF StrayFinishes
      <4>2. [s EXCEPT !.run.outcome = v, !.run.pc = "settle"] \in [of : Messages, run : Message]
        BY <2>1 DEF Message
      <4> QED
        BY <2>0, <4>1, <4>2 DEF StraysTyped
    <3>2. CASE StraySettles(s)
      <4>1. strays' \subseteq strays \union {Stray(s.of)}
        BY <3>2 DEF StraySettles
      <4>2. Stray(s.of) \in [of : Messages, run : Message]
        BY <2>0, <2>1 DEF Stray, MsgTyped
      <4> QED
        BY <2>0, <4>1, <4>2 DEF StraysTyped
    <3> QED
      BY <1>3, <3>1, <3>2 DEF StrayStep
  <2>4. ~Unsubmitted \/ (msg' = msg /\ (rec = "none" => rec' = "none"))
    <3>1. msg' = msg \/ msg[s.of].st # "none"
      BY <1>3 DEF StrayStep, StrayFinishes, StraySettles
    <3>2. rec = "none" => rec' = "none"
      BY <1>3 DEF StrayStep, StrayFinishes, StraySettles, Marked
    <3> QED
      BY <2>1, <3>1, <3>2 DEF Shaped, NothingYet
  <2> QED
    BY <2>0, <2>2, <2>3, <2>4 DEF Shaped, NothingYet, Unsubmitted, CallsRace, InFlight
<1>4. CASE UNCHANGED vars
  BY <1>4 DEF vars, Shaped, MsgTyped, StraysTyped, MsgFits, NothingYet, CallsRace,
              Unsubmitted, InFlight, At
<1> QED
  BY <1>1, <1>2, <1>3, <1>4 DEF Next

\* Excuses do not come back.
LEMMA CleanBefore == ASSUME [Next]_vars, Clean' PROVE Clean
  BY OddGrows DEF Clean

\* A run that is overtaken is an excuse.
LEMMA NoStray ==
    ASSUME Shaped, NEW s \in strays, StrayStep(s)
    PROVE  ~Clean' /\ ~Sound'
<1>1. odd' = odd /\ "overlap" \in odd
  BY DEF Shaped, StraysTyped, StrayStep, StrayFinishes, StraySettles
<1> QED
  BY <1>1 DEF Clean, Sound

\* No step of a run brings a message back to life, unless a worker dies with one the
\* record is done with.
LEMMA RunLives ==
    ASSUME Shaped, Clean', NEW m \in Messages, RunStep(m), NEW n \in Messages, Live(n)'
    PROVE  Live(n)
<1>0. MsgTyped /\ MsgFits(m) /\ shape' = shape
  BY DEF Shaped, RunStep, Refuse, StartRun, FinishRun, Settle, WorkerDies, Overtake
<1>1. Others(m)
  BY <1>0, RefuseMessage, StartMessage, FinishMessage, SettleMessage, SilentMessage
     DEF RunStep, FinishRun, WorkerDies, Overtake, Ended
<1>2. CASE n # m
  <2>1. msg'[n] = msg[n]
    BY <1>1, <1>2 DEF Others
  <2> QED
    BY <1>0, <2>1 DEF Live, Alive, Doomed, At
<1>3. ASSUME n = m, ~Live(m) PROVE FALSE
  <2>1. ~Refuse(m) /\ ~StartRun(m)
    BY <1>0, <1>3 DEF Refuse, StartRun, MsgFits, Live, Alive, Doomed, At
  <2>2. ~FinishRun(m)
    BY <1>0, <1>3 DEF FinishRun, MsgFits, Live, Alive, Doomed, At
  <2>3. ~WorkerDies(m) /\ ~Overtake(m)
    BY <1>3 DEF WorkerDies, Overtake, Clean, Live, Doomed
  <2>4. Doomed(m) /\ Settle(m)
    BY <1>0, <1>3, <2>1, <2>2, <2>3 DEF RunStep, Settle, MsgFits, Live, Alive, At
  <2>5. PICK v \in {"dead", "spent"} : v = msg[m].outcome
    BY <2>4 DEF Doomed
  <2>6. Ended(m, v)
    BY <1>0, <2>4, <2>5, SettleMessage
  <2> QED
    BY <1>3, <2>5, <2>6 DEF Ended, EndsAs, Live, Alive
<1> QED
  BY <1>2, <1>3

\* A call begins when no message lives: nothing has been submitted yet, or the
\* record was there to be handed out.
LEMMA CallStartsOver ==
    ASSUME CallTyped, Shaped, OneInv, NEW c \in Calls, Starting(c), Clean, Clean'
    PROVE  OneLives' /\ HandedOutIsOver' /\ EnqueueIsFirst'
<1>0. OneLives /\ HandedOutIsOver
  BY DEF OneInv
<1>1. /\ call[c].pc = "idle" /\ msg' = msg /\ shape' = shape /\ Race \subseteq odd'
      /\ \A d \in Calls : d # c => call'[d] = call[d]
  BY CallStarts
<1>2. \A d \in Calls : ~InFlight(d)
  BY <1>1 DEF Race, Clean
<1>3. \A m \in Messages : ~Live(m)
  <2>1. CASE Enqueue(c) \/ EnqueueLater(c)
    <3>1. Unsubmitted
      BY <2>1 DEF Enqueue, EnqueueLater
    <3> QED
      BY <3>1 DEF Shaped, NothingYet, Live, Alive
  <2>2. CASE Poll(c) \/ AutoRetry(c) \/ Requeue(c)
    <3>1. rec # "submitting"
      BY <2>2 DEF Poll, AutoRetry, Requeue, Begins, Clean
    <3>2. rec \in {"scheduled", "failed", "submit_failed"}
      BY <2>2, <3>1 DEF Poll, AutoRetry, Requeue
    <3> QED
      BY <1>0, <1>2, <3>2 DEF HandedOutIsOver
  <2> QED
    BY <2>1, <2>2 DEF Starting
<1>4. \A m \in Messages : ~Live(m)'
  BY <1>1, <1>3 DEF Live, Alive, Doomed, At
<1>5. EnqueueIsFirst'
  <2> SUFFICES ASSUME NEW d \in Calls, InFlight(d)', call'[d].op = "enqueue", ~shape'.submits
               PROVE  rec' = "none"
    BY DEF EnqueueIsFirst
  <2>1. d = c
    BY <1>1, <1>2 DEF InFlight
  <2>2. Enqueue(c)
    <3>1. ASSUME NEW op, NEW pc, NEW excuse, Begins(c, op, pc, excuse), op # "enqueue" PROVE FALSE
      BY <2>1, <3>1 DEF Begins, CallTyped
    <3>2. ~EnqueueLater(c) /\ ~Poll(c) /\ ~AutoRetry(c) /\ ~Requeue(c)
      BY <3>1 DEF EnqueueLater, Poll, AutoRetry, Requeue
    <3> QED
      BY <3>2 DEF Starting
  <2>3. rec = "none"
    BY <2>2 DEF Enqueue, Shaped, NothingYet
  <2> QED
    BY <1>1, <2>2, <2>3 DEF Enqueue
<1> QED
  BY <1>4, <1>5 DEF OneLives, HandedOutIsOver

\* A call that goes on is alone.  It gives the broker a message when none lives, and
\* when it ends with one the record is not to be handed out.
LEMMA CallGoesOn ==
    ASSUME CallTyped, Shaped, OneInv, NEW c \in Calls, Continuing(c), Clean, Clean'
    PROVE  OneLives' /\ HandedOutIsOver' /\ EnqueueIsFirst'
<1>0. OneLives /\ HandedOutIsOver /\ EnqueueIsFirst /\ MsgTyped
  BY DEF OneInv, Shaped
<1>1. InFlight(c) /\ \A d \in Calls : d # c => call'[d] = call[d] /\ ~InFlight(d)
  BY CallContinues DEF Shaped, CallsRace, Clean
<1>2. \A d \in Calls : d # c => ~InFlight(d)' /\ ~Asking(d)'
  BY <1>1 DEF InFlight, Asking
<1>3. shape' = shape
  BY DEF Continuing, DeleteAtBroker, PurgeRecord, Ask, RecordEnqueued, BatchBreaks,
         DispatchFails, MarkFailed, CallerDies
<1>4. ASSUME msg' = msg PROVE \A m \in Messages : Live(m)' <=> Live(m)
  BY <1>3, <1>4 DEF Live, Alive, Doomed, At
<1>5. ASSUME NEW m \in Messages, Takes(c, m) PROVE \A n \in Messages : Live(n)' => Live(n)
  <2>1. Others(m) /\ ~Live(m)'
    BY <1>0, <1>5, TakesMessage DEF Live, Alive
  <2> QED
    BY <1>3, <2>1 DEF Others, Live, Alive, Doomed, At
<1>6. ASSUME NEW m \in Messages, Gives(c, m) PROVE \A n \in Messages : Live(n)' => n = m \/ Live(n)
  <2>1. Others(m)
    BY <1>0, <1>6, GivesMessage
  <2> QED
    BY <1>3, <2>1 DEF Others, Live, Alive, Doomed, At
<1>7. Asking(c) => \A m \in Messages : ~Live(m)
  BY <1>0 DEF HandedOutIsOver
<1>8. CASE DeleteAtBroker(c) \/ PurgeRecord(c)
  <2>1. \A m \in Messages : ~Live(m)'
    <3>1. Asking(c)
      BY <1>8 DEF DeleteAtBroker, PurgeRecord, Asking
    <3>2. ~Ask(c)
      BY <1>8 DEF Ask, DeleteAtBroker, PurgeRecord
    <3> QED
      BY <1>4, <1>5, <1>7, <3>1, <3>2, CallAndMessages DEF Gives
  <2>2. InFlight(c)' => call'[c].op = call[c].op
    BY <1>8 DEF DeleteAtBroker, PurgeRecord, GiveUp, Ends, Goto, CallTyped, InFlight
  <2>3. rec' \in {rec, "none"}
    BY <1>8 DEF DeleteAtBroker, PurgeRecord
  <2> QED
    BY <1>0, <1>1, <1>2, <1>3, <2>1, <2>2, <2>3 DEF OneLives, HandedOutIsOver, EnqueueIsFirst
<1>9. CASE Ask(c)
  <2>1. Asking(c)
    BY <1>9 DEF Ask, Asking
  <2>2. EnqueueIsFirst'
    <3>1. InFlight(c)' => call'[c].op = call[c].op
      BY <1>9 DEF Ask, Goto, CallTyped
    <3>2. rec' = rec
      BY <1>9 DEF Ask
    <3> QED
      BY <1>0, <1>1, <1>2, <1>3, <3>1, <3>2 DEF EnqueueIsFirst
  <2>3. CASE Goto(c, "refused") /\ msg' = msg
    BY <1>4, <1>7, <2>1, <2>2, <2>3 DEF OneLives, HandedOutIsOver
  <2>4. CASE \E m \in Messages : Gives(c, m) /\ Goto(c, "accepted")
    <3>1. PICK m \in Messages : Gives(c, m) /\ Goto(c, "accepted")
      BY <2>4
    <3>2. \A n \in Messages : Live(n)' => n = m
      BY <1>6, <1>7, <2>1, <3>1
    <3>3. call'[c].pc = "accepted"
      BY <3>1, CallMoves
    <3>4. InFlight(c)' /\ \A d \in Calls : ~Asking(d)'
      BY <1>2, <3>3 DEF InFlight, Asking
    <3> QED
      BY <2>2, <3>2, <3>4 DEF OneLives, HandedOutIsOver
  <2> QED
    BY <1>9, <2>3, <2>4 DEF Ask, Gives, Clean
<1>10. CASE RecordEnqueued(c) \/ BatchBreaks(c)
  <2>1. call[c].pc = "accepted" /\ Ends(c) /\ msg' = msg
    BY <1>10 DEF RecordEnqueued, BatchBreaks
  <2>2. \A d \in Calls : ~InFlight(d)' /\ ~Asking(d)'
    BY <1>2, <2>1 DEF CallTyped, Ends, InFlight, Asking
  <2>3. rec' \notin {"scheduled", "failed", "submit_failed"}
    <3>1. CASE RecordEnqueued(c)
      BY <3>1 DEF RecordEnqueued, Writes, Updated, Clean
    <3>2. CASE BatchBreaks(c)
      BY <1>0, <1>1, <3>2 DEF BatchBreaks, EnqueueIsFirst
    <3> QED
      BY <1>10, <3>1, <3>2
  <2> QED
    BY <1>0, <1>4, <2>1, <2>2, <2>3 DEF OneLives, HandedOutIsOver, EnqueueIsFirst
<1>11. CASE DispatchFails(c) \/ MarkFailed(c)
  <2>1. Asking(c) /\ msg' = msg
    BY <1>11 DEF DispatchFails, MarkFailed, Asking
  <2>2. InFlight(c)' => call'[c].op = "auto"
    BY <1>11 DEF DispatchFails, MarkFailed, GiveUp, Ends, Goto, CallTyped, InFlight
  <2> QED
    BY <1>2, <1>4, <1>7, <2>1, <2>2 DEF OneLives, HandedOutIsOver, EnqueueIsFirst
<1>12. ~CallerDies(c)
  BY DEF CallerDies, Clean
<1> QED
  BY <1>8, <1>9, <1>10, <1>11, <1>12 DEF Continuing

\* A run that ends with its record failed has a message that is over; the others do
\* not touch the record while a call has it.
LEMMA RunGoesOn ==
    ASSUME CallTyped, Shaped, OneInv, NEW m \in Messages, RunStep(m), Clean, Clean'
    PROVE  OneLives' /\ HandedOutIsOver' /\ EnqueueIsFirst'
<1>0. /\ OneLives /\ HandedOutIsOver /\ EnqueueIsFirst /\ MsgTyped /\ MsgFits(m)
      /\ shape' = shape /\ call' = call
  BY DEF OneInv, Shaped, RunStep, Refuse, StartRun, FinishRun, Settle, WorkerDies, Overtake
<1>1. \A n \in Messages : Live(n)' => Live(n)
  BY RunLives
<1>2. OneLives'
  BY <1>0, <1>1 DEF OneLives
<1>3. CASE rec' = rec
  BY <1>0, <1>1, <1>2, <1>3 DEF HandedOutIsOver, EnqueueIsFirst, InFlight, Asking
<1>4. CASE StartRun(m) /\ rec' # rec
  <2>1. rec' = "active" /\ Race \subseteq odd'
    BY <1>4 DEF StartRun
  <2>2. \A c \in Calls : ~InFlight(c)' /\ ~Asking(c)'
    BY <1>0, <2>1 DEF Race, Clean, InFlight, Asking
  <2> QED
    BY <1>2, <2>1, <2>2 DEF HandedOutIsOver, EnqueueIsFirst
<1>5. CASE FinishRun(m) /\ rec' # rec
  <2>1. PICK e \in HandlerErrors :
          /\ msg' = [msg EXCEPT ![m].outcome = Outcome(e, msg[m].count), ![m].pc = "settle"]
          /\ rec' = Marked(StatusOf(e, msg[m].count))
          /\ Race \subseteq odd' /\ Disagreement(m, e) \subseteq odd'
    BY <1>5 DEF FinishRun, Writes
  <2>2. \A c \in Calls : ~InFlight(c)' /\ ~Asking(c)'
    BY <1>0, <2>1 DEF Race, Clean, InFlight, Asking
  <2>3. ASSUME rec' \in {"scheduled", "failed", "submit_failed"}, NEW n \in Messages, Live(n)'
        PROVE  FALSE
    <3>1. StatusOf(e, msg[m].count) = "failed"
      BY <2>1, <2>3 DEF Marked, StatusOf
    <3>2. Outcome(e, msg[m].count) \in {"dead", "spent"}
      <4>1. PICK v : v = Outcome(e, msg[m].count)
        OBVIOUS
      <4>2. e # "none" /\ (IsFatal(e) \/ msg[m].count >= shape.budget)
        <5>1. msg[m].count \in Nat /\ shape.budget \in Nat
          BY <1>0 DEF MsgTyped, Message
        <5> QED
          BY <3>1, <5>1 DEF StatusOf
      <4>3. ~(v \in {"again", "uncounted"} /\ (IsFatal(e) \/ (e = "ignored" /\ msg[m].count >= shape.budget)))
        BY <2>1, <4>1 DEF Clean, Disagreement
      <4>4. v # "again"
        BY <4>1, <4>2, <4>3 DEF Outcome
      <4>5. v # "uncounted"
        <5> SUFFICES ASSUME v = "uncounted" PROVE FALSE
          OBVIOUS
        <5>1. e \in {"limited", "ignored"}
          BY <4>1 DEF Outcome, Uncounted
        <5> QED
          BY <3>1, <4>2, <4>3, <5>1 DEF StatusOf, IsFatal
      <4> QED
        BY <4>1, <4>2, <4>4, <4>5 DEF Outcome
    <3>3. Others(m) /\ msg'[m].pc = "settle" /\ msg'[m].outcome = Outcome(e, msg[m].count)
      BY <1>0, <2>1, FinishMessage
    <3>4. Doomed(m)'
      BY <3>2, <3>3 DEF Doomed, At
    <3>5. n # m
      BY <2>3, <3>4 DEF Live
    <3>6. Live(m)
      BY <1>0, <1>5 DEF FinishRun, MsgFits, Live, Alive, Doomed, At
    <3> QED
      BY <1>0, <1>1, <2>3, <3>5, <3>6 DEF OneLives
  <2> QED
    BY <1>2, <2>2, <2>3 DEF HandedOutIsOver, EnqueueIsFirst
<1> QED
  BY <1>3, <1>4, <1>5 DEF RunStep, Refuse, Settle, WorkerDies, Overtake

LEMMA OneStep == ASSUME CallTyped, Shaped, OneInv, [Next]_vars PROVE OneInv'
<1> SUFFICES ASSUME Clean' PROVE OneLives' /\ HandedOutIsOver' /\ EnqueueIsFirst'
  BY DEF OneInv
<1>0. Clean
  BY CleanBefore
<1>1. ASSUME NEW c \in Calls, CallStep(c) PROVE OneLives' /\ HandedOutIsOver' /\ EnqueueIsFirst'
  BY <1>0, <1>1, CallStartsOver, CallGoesOn DEF CallStep, Starting, Continuing
<1>2. CASE UNCHANGED vars
  BY <1>0, <1>2 DEF vars, OneInv, OneLives, HandedOutIsOver, EnqueueIsFirst, Live, Alive,
                    Doomed, At, InFlight, Asking
<1> QED
  BY <1>0, <1>1, <1>2, RunGoesOn, NoStray DEF Next

LEMMA SoundBefore == ASSUME [Next]_vars, Sound' PROVE Sound
  BY OddGrows DEF Sound

\* A call begins with a record that shows nothing under way.
LEMMA StuckStarts ==
    ASSUME CallTyped, Shaped, StuckInv, NEW c \in Calls, Starting(c), Sound, Sound'
    PROVE  UnderWayHasOwner' /\ AcceptedIsHeld' /\ RequeueFindsItOver'
<1>0. UnderWayHasOwner
  BY DEF StuckInv
<1>1. /\ call[c].pc = "idle" /\ msg' = msg /\ Race \subseteq odd'
      /\ \A d \in Calls : d # c => call'[d] = call[d]
  BY CallStarts
<1>2. \A d \in Calls : ~InFlight(d)
  BY <1>1 DEF Race, Sound
<1>3. rec \notin {"submitting", "claimed"}
  BY <1>0, <1>2 DEF UnderWayHasOwner
<1>4. \/ call'[c].pc = "done" /\ rec' \in {"none", "scheduled"}
      \/ call'[c].pc = "ask" /\ rec' \in {"submitting", "claimed"}
      \/ /\ call'[c].pc = "delete"
         /\ \/ rec' = "claimed" /\ call'[c].op = "auto"
            \/ rec' \in {"failed", "submit_failed"}
  <2>1. CASE Enqueue(c) \/ EnqueueLater(c)
    <3>1. rec = "none"
      BY <2>1 DEF Enqueue, EnqueueLater, Shaped, NothingYet
    <3>2. \/ rec' \in {"none", "scheduled"} /\ Begins(c, "none", "done", {})
          \/ rec' = "submitting" /\ Begins(c, "enqueue", "ask", {})
      BY <2>1, <3>1 DEF Enqueue, EnqueueLater, Sound
    <3> QED
      BY <3>2, CallMoves DEF Begins
  <2>2. CASE Poll(c)
    BY <2>2, CallMoves DEF Poll, Begins
  <2>3. CASE AutoRetry(c)
    BY <2>3 DEF AutoRetry, Begins, CallTyped
  <2>4. CASE Requeue(c)
    <3>1. Begins(c, "requeue", "delete", {}) /\ rec' \in {"failed", "submit_failed"}
      BY <1>3, <2>4 DEF Requeue
    <3> QED
      BY <3>1, CallMoves DEF Begins
  <2> QED
    BY <2>1, <2>2, <2>3, <2>4 DEF Starting
<1>5. \A d \in Calls : d # c => ~InFlight(d)'
  BY <1>1, <1>2 DEF InFlight
<1>6. UnderWayHasOwner'
  BY <1>4 DEF UnderWayHasOwner, InFlight
<1> QED
  BY <1>4, <1>5, <1>6 DEF AcceptedIsHeld, RequeueFindsItOver, InFlight

\* A call ends with a record that is settled, or whose message is with the broker.
LEMMA StuckGoesOn ==
    ASSUME CallTyped, Shaped, StuckInv, NEW c \in Calls, Continuing(c), Sound, Sound'
    PROVE  UnderWayHasOwner' /\ AcceptedIsHeld' /\ RequeueFindsItOver'
<1>0. UnderWayHasOwner /\ AcceptedIsHeld /\ RequeueFindsItOver /\ MsgTyped
  BY DEF StuckInv, Shaped
<1>1. InFlight(c) /\ \A d \in Calls : d # c => call'[d] = call[d] /\ ~InFlight(d)
  BY CallContinues DEF Shaped, CallsRace, Sound
<1>2. \A d \in Calls : d # c => ~InFlight(d)'
  BY <1>1 DEF InFlight
<1>3. shape' = shape
  BY DEF Continuing, DeleteAtBroker, PurgeRecord, Ask, RecordEnqueued, BatchBreaks,
         DispatchFails, MarkFailed, CallerDies
\* Goto and Ends, without the functions.
<1>4. ASSUME NEW place \in {"purge", "ask", "accepted", "refused", "mark"}, Goto(c, place)
      PROVE  call'[c].pc = place /\ call'[c].op = call[c].op /\ InFlight(c)'
  BY <1>4 DEF Goto, CallTyped, InFlight
<1>5. Ends(c) => call'[c].pc = "done"
  BY DEF Ends, CallTyped
<1>6. CASE DeleteAtBroker(c)
  <2>1. rec' = rec /\ call[c].pc = "delete"
    BY <1>6 DEF DeleteAtBroker
  <2>2. \/ Goto(c, "ask") \/ Goto(c, "purge") \/ Goto(c, "mark")
        \/ Ends(c) /\ call[c].op # "auto"
    BY <1>6 DEF DeleteAtBroker, GiveUp
  <2>3. CASE Goto(c, "ask") \/ Goto(c, "purge") \/ Goto(c, "mark")
    <3>1. call'[c].pc \in {"ask", "purge", "mark"} /\ call'[c].op = call[c].op /\ InFlight(c)'
      BY <1>4, <2>3
    <3> QED
      BY <1>0, <1>2, <2>1, <3>1
         DEF UnderWayHasOwner, AcceptedIsHeld, RequeueFindsItOver, InFlight
  <2>4. CASE Ends(c) /\ call[c].op # "auto"
    <3>1. rec' \in {"failed", "submit_failed"}
      BY <1>0, <2>1, <2>4 DEF RequeueFindsItOver
    <3> QED
      BY <1>2, <1>5, <2>4, <3>1
         DEF UnderWayHasOwner, AcceptedIsHeld, RequeueFindsItOver, InFlight
  <2> QED
    BY <2>2, <2>3, <2>4
<1>7. CASE PurgeRecord(c)
  <2>1. call[c].pc = "purge" /\ (rec' = "none" \/ rec' = rec)
    BY <1>7 DEF PurgeRecord
  <2>2. \/ Goto(c, "ask") \/ Goto(c, "mark")
        \/ Ends(c) /\ call[c].op # "auto"
    BY <1>7 DEF PurgeRecord, GiveUp
  <2>3. CASE Goto(c, "ask") \/ Goto(c, "mark")
    <3>1. call'[c].pc \in {"ask", "mark"} /\ InFlight(c)'
      BY <1>4, <2>3
    <3> QED
      BY <1>2, <2>1, <3>1
         DEF UnderWayHasOwner, AcceptedIsHeld, RequeueFindsItOver, InFlight
  <2>4. CASE Ends(c) /\ call[c].op # "auto"
    <3>1. rec' \in {"none", "failed", "submit_failed"}
      BY <1>0, <2>1, <2>4 DEF RequeueFindsItOver
    <3> QED
      BY <1>2, <1>5, <2>4, <3>1
         DEF UnderWayHasOwner, AcceptedIsHeld, RequeueFindsItOver, InFlight
  <2> QED
    BY <2>2, <2>3, <2>4
<1>8. CASE Ask(c)
  <2>1. rec' = rec /\ (Goto(c, "refused") \/ Goto(c, "accepted"))
    BY <1>8 DEF Ask
  <2>2. call'[c].pc \in {"refused", "accepted"} /\ InFlight(c)'
    BY <1>4, <2>1
  <2>3. call'[c].pc = "accepted" => \E m \in Messages : Unfinished(m)'
    <3> SUFFICES ASSUME call'[c].pc = "accepted" PROVE \E m \in Messages : Unfinished(m)'
      OBVIOUS
    <3>1. ~Goto(c, "refused")
      BY <1>4
    <3>2. PICK m \in Messages : Gives(c, m)
      BY <1>8, <3>1 DEF Ask, Gives
    <3>3. msg'[m].st = "waiting" /\ msg'[m].pc = "none"
      <4>1. msg[m].st = "none"
        BY <3>2 DEF Gives
      <4>2. msg[m].pc = "none"
        BY <4>1 DEF Shaped, MsgFits
      <4> QED
        BY <1>0, <3>2, <4>2, GivesMessage
    <3> QED
      BY <3>3 DEF Unfinished, Alive, At
  <2> QED
    BY <1>2, <2>1, <2>2, <2>3
       DEF UnderWayHasOwner, AcceptedIsHeld, RequeueFindsItOver, InFlight
<1>9. CASE RecordEnqueued(c)
  <2>1. call[c].pc = "accepted" /\ Ends(c) /\ msg' = msg /\ rec' \in {"pending", "none"}
    BY <1>9 DEF RecordEnqueued, Writes, Updated, Sound
  <2>2. PICK m \in Messages : Unfinished(m)
    BY <1>0, <2>1 DEF AcceptedIsHeld
  <2>3. Unfinished(m)'
    BY <1>3, <2>1, <2>2 DEF Unfinished, Alive, At
  <2> QED
    BY <1>2, <1>5, <2>1, <2>3
       DEF UnderWayHasOwner, AcceptedIsHeld, RequeueFindsItOver, InFlight
<1>10. CASE DispatchFails(c) \/ MarkFailed(c)
  <2>1. rec' \in {"submit_failed", "failed", "none"}
    <3>1. CASE DispatchFails(c)
      BY <3>1 DEF DispatchFails, Writes, Updated, Prepared, Sound
    <3>2. CASE MarkFailed(c)
      BY <3>2 DEF MarkFailed, Writes, Marked, Sound
    <3> QED
      BY <1>10, <3>1, <3>2
  <2>2. Goto(c, "mark") \/ Ends(c)
    BY <1>10 DEF DispatchFails, MarkFailed, GiveUp
  <2>3. call'[c].pc \in {"mark", "done"}
    BY <1>4, <1>5, <2>2
  <2> QED
    BY <1>2, <2>1, <2>3
       DEF UnderWayHasOwner, AcceptedIsHeld, RequeueFindsItOver, InFlight
<1>11. ~CallerDies(c) /\ ~BatchBreaks(c)
  BY DEF CallerDies, BatchBreaks, Sound
<1> QED
  BY <1>6, <1>7, <1>8, <1>9, <1>10, <1>11 DEF Continuing

\* A message stays unfinished until its run ends for good, and then the record shows
\* it: the record and the broker agree on which run is the last.
LEMMA RunFinishes ==
    ASSUME CallTyped, Shaped, StuckInv, NEW m \in Messages, RunStep(m), Sound, Sound'
    PROVE  UnderWayHasOwner' /\ AcceptedIsHeld' /\ RequeueFindsItOver'
<1>0. /\ UnderWayHasOwner /\ AcceptedIsHeld /\ RequeueFindsItOver /\ MsgTyped /\ MsgFits(m)
      /\ shape' = shape /\ call' = call
  BY DEF StuckInv, Shaped, RunStep, Refuse, StartRun, FinishRun, Settle, WorkerDies, Overtake
<1>1. Others(m)
  BY <1>0, RefuseMessage, StartMessage, FinishMessage, SettleMessage, SilentMessage
     DEF RunStep, FinishRun, WorkerDies, Overtake, Ended
<1>2. \A n \in Messages : n # m => (Unfinished(n)' <=> Unfinished(n))
  BY <1>0, <1>1 DEF Others, Unfinished, Alive, At
<1>3. msg[m].count \in Nat /\ shape.budget \in Nat /\ shape.driver \in {"asynq", "nats"}
  BY <1>0 DEF MsgTyped, Message
<1>4. ASSUME rec' = rec, Unfinished(m) => Unfinished(m)'
      PROVE  UnderWayHasOwner' /\ AcceptedIsHeld' /\ RequeueFindsItOver'
  <2>1. \A n \in Messages : Unfinished(n) => Unfinished(n)'
    BY <1>2, <1>4
  <2> QED
    BY <1>0, <1>4, <2>1 DEF UnderWayHasOwner, AcceptedIsHeld, RequeueFindsItOver, InFlight
<1>5. CASE Refuse(m)
  <2>1. Unfinished(m)'
    BY <1>0, <1>5, RefuseMessage DEF Unfinished, Alive, At
  <2> QED
    BY <1>4, <1>5, <2>1 DEF Refuse
<1>6. CASE Settle(m)
  <2>1. Unfinished(m) => msg[m].outcome \in {"again", "uncounted"}
    BY <1>6 DEF Settle, Unfinished
  <2>2. Unfinished(m) => Unfinished(m)'
    BY <1>0, <1>6, <2>1, SettleMessage DEF Ended, EndsAs, Unfinished, Alive, At
  <2> QED
    BY <1>4, <1>6, <2>2 DEF Settle
<1>7. CASE StartRun(m)
  <2>1. Unfinished(m)'
    BY <1>0, <1>7, StartMessage DEF Unfinished, Alive, At
  <2>2. rec' = "active" /\ Race \subseteq odd'
    BY <1>7 DEF StartRun, Sound
  <2>3. \A c \in Calls : ~InFlight(c)'
    BY <1>0, <2>2 DEF Race, Sound, InFlight
  <2> QED
    BY <2>1, <2>2, <2>3 DEF UnderWayHasOwner, AcceptedIsHeld, RequeueFindsItOver, InFlight
<1>8. CASE FinishRun(m)
  <2>1. msg[m].tracked = TRUE
    <3>1. msg[m].tracked \in BOOLEAN
      BY <1>0 DEF MsgTyped, Message
    <3> QED
      BY <1>0, <1>8, <3>1 DEF FinishRun, MsgFits, Sound
  <2>2. PICK e \in HandlerErrors :
          /\ msg' = [msg EXCEPT ![m].outcome = Outcome(e, msg[m].count), ![m].pc = "settle"]
          /\ rec' = Marked(StatusOf(e, msg[m].count))
          /\ Race \subseteq odd' /\ Disagreement(m, e) \subseteq odd'
    BY <1>8, <2>1 DEF FinishRun, Writes, Sound
  <2>3. \A c \in Calls : ~InFlight(c)'
    BY <1>0, <2>2 DEF Race, Sound, InFlight
  <2>4. rec' \in {"none", "succeeded", "failed"} \/ StatusOf(e, msg[m].count) = "retry"
    BY <2>2 DEF Marked, StatusOf
  <2>5. ASSUME StatusOf(e, msg[m].count) = "retry" PROVE Unfinished(m)' /\ rec' \in {"none", "retry"}
    <3>1. "refused" \notin Disagreement(m, e) /\ "spent" \notin Disagreement(m, e)
      BY <2>2 DEF Sound
    <3>2. e # "none" /\ ~IsFatal(e) /\ (e = "limited" \/ msg[m].count < shape.budget)
      BY <2>5 DEF StatusOf
    <3>3. Outcome(e, msg[m].count) \in {"again", "uncounted"}
      <4>1. PICK v : v = Outcome(e, msg[m].count)
        OBVIOUS
      <4>2. v # "spent" /\ ~(e = "limited" /\ v = "dead")
        BY <3>1, <3>2, <4>1 DEF Disagreement
      <4>3. ~(msg[m].count < shape.budget /\ v = "dead")
        BY <1>3, <4>1 DEF Outcome
      <4> QED
        BY <3>2, <4>1, <4>2, <4>3 DEF Outcome
    <3>4. msg[m].st = "active"
      BY <1>0, <1>8 DEF FinishRun, At, MsgFits
    <3>5. Unfinished(m)'
      BY <1>0, <2>2, <3>3, <3>4, FinishMessage
         DEF Unfinished, Alive, At
    <3> QED
      BY <2>2, <2>5, <3>5 DEF Marked
  <2> QED
    BY <2>3, <2>4, <2>5 DEF UnderWayHasOwner, AcceptedIsHeld, RequeueFindsItOver, InFlight
<1>9. ~WorkerDies(m) /\ ~Overtake(m)
  BY DEF WorkerDies, Overtake, Sound
<1> QED
  BY <1>5, <1>6, <1>7, <1>8, <1>9 DEF RunStep

LEMMA StuckStep == ASSUME CallTyped, Shaped, StuckInv, [Next]_vars PROVE StuckInv'
<1> SUFFICES ASSUME Sound' PROVE UnderWayHasOwner' /\ AcceptedIsHeld' /\ RequeueFindsItOver'
  BY DEF StuckInv
<1>0. Sound
  BY SoundBefore
<1>1. ASSUME NEW c \in Calls, CallStep(c)
      PROVE  UnderWayHasOwner' /\ AcceptedIsHeld' /\ RequeueFindsItOver'
  BY <1>0, <1>1, StuckStarts, StuckGoesOn DEF CallStep, Starting, Continuing
<1>2. CASE UNCHANGED vars
  BY <1>0, <1>2 DEF vars, StuckInv, UnderWayHasOwner, AcceptedIsHeld, RequeueFindsItOver,
                    Unfinished, Alive, At,
                    InFlight
<1> QED
  BY <1>0, <1>1, <1>2, RunFinishes, NoStray DEF Next

\* The two invariants hold.
THEOREM RecordInv == Spec => [](Shaped /\ OneInv /\ StuckInv)
<1>1. ASSUME IInv, Shaped, OneInv, StuckInv, [Next]_vars PROVE Shaped' /\ OneInv' /\ StuckInv'
  BY <1>1, ShapedStep, OneStep, StuckStep DEF IInv
<1> QED
  BY <1>1, InitShaped, InvHolds, PTL DEF Spec

\* DispatchAutoRetryTasks and ClaimAutoRetryTasks (core/queue/task_store.go:107): a
\* task has one message that is still to be worked on, unless a named fault, a race or
\* a store that cannot be told of a dispatch excuses a second.
THEOREM TasksHaveOneMessage == Spec => []OneAtATime
<1>1. ASSUME OneInv PROVE OneAtATime
  <2>1. ASSUME NEW m \in Messages, Unfinished(m) PROVE Live(m)
    BY <2>1 DEF Unfinished, Live, Doomed, At
  <2> QED
    BY <1>1, <2>1 DEF OneInv, OneAtATime, OneLives, Clean
<1> QED
  BY <1>1, RecordInv, PTL

\* finishStoredTaskRun and recordEnqueued (core/queue/task_store.go and
\* runtime_instance.go): when the broker and every call are done with the task its
\* record does not show it under way, but for a named reason.
THEOREM NoTaskIsStuck == Spec => []StuckIsExcused
<1>1. ASSUME StuckInv PROVE StuckIsExcused
  <2>1. ASSUME NEW m \in Messages, ~Alive(m) PROVE ~Unfinished(m)
    BY <2>1 DEF Unfinished
  <2> QED
    BY <1>1, <2>1 DEF StuckInv, Sound, StuckIsExcused, Quiet, UnderWayHasOwner
<1> QED
  BY <1>1, RecordInv, PTL
=============================================================================
