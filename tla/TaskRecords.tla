---------------------------- MODULE TaskRecords ----------------------------
(***************************************************************************)
(* core/queue/runtime_instance.go and task_store.go: the record of one     *)
(* task in the task store, as the producer, the schedule poller, the       *)
(* auto-retry loop, an operator who requeues it and the workers write it,  *)
(* beside the messages the broker holds for it.                            *)
(*                                                                         *)
(* The store is the application's: the repository has only its interfaces. *)
(* A method does in one step what its name says or fails, and Claim...     *)
(* hands a record to one caller.  "claimed" is the state of a record that  *)
(* has been handed out.  The brokers are external too; what the drivers    *)
(* of the repository ask of them is modelled for both.                     *)
(***************************************************************************)
EXTENDS TaskStages, TLC

CONSTANTS
    Calls,          \* calls of the producer's side
    Messages,       \* messages the broker may come to hold
    Drivers,        \* of "asynq" and "nats"
    Budgets,        \* the retry budgets a task may have
    MaxDelivers,    \* how often JetStream may be told to deliver a message
    HandlerErrors,  \* what a handler may return; "panic" is allowed
    StoreFails,     \* TRUE: a method of the store may fail
    Crashes         \* TRUE: a process may die, or be taken for dead

ASSUME RecordAssumption ==
    /\ Drivers \subseteq {"asynq", "nats"}
    /\ Budgets \subseteq Nat
    /\ MaxDelivers \subseteq Nat \ {0}
    /\ HandlerErrors \subseteq Errors \union {"panic"}
    /\ {StoreFails, Crashes} \subseteq BOOLEAN

VARIABLES
    shape,     \* driver, its limits, and the optional interfaces the store has
    rec,       \* the state in the record, or "none"
    msg,       \* message -> what the broker and its run know of it
    strays,    \* runs that go on although the broker has taken them for lost
    call,      \* call -> where it stands
    odd        \* what has happened that excuses a record that is wrong

vars == <<shape, rec, msg, strays, call, odd>>

\* The optional interfaces of the store; the last of them is a property of the
\* first's RecordDispatched: it inserts what is not there.
Shapes == {s \in [driver : Drivers, budget : Budgets,
                  maxDeliver : MaxDelivers \union {0},
                  submits : BOOLEAN,    \* TaskSubmissionStore
                  deletes : BOOLEAN,    \* TaskDeletionStore
                  upserts : BOOLEAN] :
             /\ s.upserts => s.submits
             /\ s.driver = "asynq" <=> s.maxDeliver = 0}

Fresh == [st |-> "none", count |-> 0, pc |-> "none", outcome |-> "none",
          tracked |-> FALSE]

Init ==
    /\ shape \in Shapes
    /\ rec = "none"
    /\ msg = [m \in Messages |-> Fresh]
    /\ strays = {}
    /\ call = [c \in Calls |-> [op |-> "none", pc |-> "idle"]]
    /\ odd = {}

-----------------------------------------------------------------------------
(* The store.                                                              *)

\* A behaviour has one fault: a call of the store that fails, a process that
\* dies or is taken for dead, or an answer of the broker that is lost.
Faultless ==
    odd \intersect {"died", "crash", "overlap", "unwritten", "lost reply"} = {}
MayFail == StoreFails /\ Faultless
MayDie == Crashes /\ Faultless

\* A method that writes the record, or fails and leaves it.  The errors of
\* these calls are dropped.
Writes(s, excuse) ==
    \/ rec' = s /\ odd' = odd \union excuse
    \/ MayFail /\ rec' = rec /\ odd' = odd \union {"unwritten"}

\* RecordDispatched and RecordDispatchFailed name a record that may be gone.
Updated(s) == IF rec = "none" /\ ~shape.upserts THEN "none" ELSE s

\* UpdateTaskStatus and MarkAutoRetryFailed only update.
Marked(s) == IF rec = "none" THEN "none" ELSE s

Goto(c, place) == call' = [call EXCEPT ![c].pc = place]
Ends(c) == call' = [call EXCEPT ![c] = [op |-> "none", pc |-> "done"]]

Held == {m \in Messages : msg[m].st \in {"waiting", "active", "archived"}}

-----------------------------------------------------------------------------
(* Enqueue, the schedule poller, the auto-retry loop and a requeue.        *)

InFlight(c) == call[c].pc \notin {"idle", "done"}

\* Two write the record at a time, and the second does not look.
Race == IF \E c \in Calls : InFlight(c) THEN {"race"} ELSE {}

Begins(c, op, place, excuse) ==
    /\ call[c].pc = "idle"
    /\ call' = [call EXCEPT ![c] = [op |-> op, pc |-> place]]
    /\ odd' = odd \union excuse \union Race

\* One task is submitted, once, by the first of the calls.
Unsubmitted == \A c \in Calls : call[c].pc = "idle"

\* Enqueue up to the broker: recordSubmitting, if the store has it.
\* Faulty: the broker is asked although the record could not be written.
EnqueueUnrecorded(c) ==
    /\ Unsubmitted
    /\ \/ shape.submits /\ rec' = "submitting"
       \/ (shape.submits => MayFail) /\ rec' = rec
    /\ Begins(c, "enqueue", "ask", {})
    /\ UNCHANGED <<shape, msg>>
Enqueue(c) ==
    /\ Unsubmitted
    /\ IF shape.submits
         THEN \/ rec' = "submitting" /\ Begins(c, "enqueue", "ask", {})
              \/ MayFail /\ UNCHANGED rec /\ Begins(c, "none", "done", {})
         ELSE UNCHANGED rec /\ Begins(c, "enqueue", "ask", {})
    /\ UNCHANGED <<shape, msg>>

\* Enqueue of a task that is due later: recordScheduled, and no more.
EnqueueLater(c) ==
    /\ Unsubmitted
    /\ \/ rec' = "scheduled"
       \/ MayFail /\ rec' = rec
    /\ Begins(c, "none", "done", {})
    /\ UNCHANGED <<shape, msg>>

\* ClaimScheduled, when the time has come.
Poll(c) ==
    /\ rec = "scheduled"
    /\ rec' = "claimed"
    /\ Begins(c, "poll", "ask", {})
    /\ UNCHANGED <<shape, msg>>

\* DispatchAutoRetryTasks: ClaimAutoRetryTasks hands out what has failed.
AutoRetry(c) ==
    /\ rec \in {"failed", "submit_failed"}
    /\ rec' = "claimed"
    /\ Begins(c, "auto", "delete", {})
    /\ UNCHANGED <<shape, msg>>

\* RequeueTaskRecord by an operator, who sees a record that looks over or stuck.
Requeue(c) ==
    /\ rec \in {"failed", "submit_failed", "submitting"}
    /\ UNCHANGED <<shape, rec, msg>>
    /\ Begins(c, "requeue", "delete", IF rec = "submitting" THEN {"by hand"} ELSE {})

\* An error out of RequeueTaskRecord.
GiveUp(c) == IF call[c].op = "auto" THEN Goto(c, "mark") ELSE Ends(c)

\* DeleteTask at the broker: asynq deletes what is not being worked on, NATS
\* cannot.  Without a task to delete the record is next.
DeleteAtBroker(c) ==
    /\ call[c].pc = "delete"
    /\ \/ /\ shape.driver = "asynq"
          /\ \E m \in Held :
               IF msg[m].st = "active"
                 THEN GiveUp(c) /\ UNCHANGED msg
                 ELSE Goto(c, "ask") /\ msg' = [msg EXCEPT ![m].st = "gone"]
       \/ /\ shape.driver = "nats" \/ Held = {}
          /\ Goto(c, "purge")
          /\ UNCHANGED msg
       \/ /\ shape.driver = "asynq"
          /\ GiveUp(c)
          /\ UNCHANGED msg
    /\ UNCHANGED <<shape, rec, odd>>

\* OperationsRuntime.DeleteTask falls back on the store, whose error is one
\* for RequeueTaskRecord too, unless it is ErrTaskNotFound.
PurgeRecord(c) ==
    /\ call[c].pc = "purge"
    /\ \/ /\ shape.deletes
          /\ rec' = "none"
          /\ odd' = odd \union {"purged"}
          /\ Goto(c, "ask")
       \/ /\ shape.deletes /\ MayFail
          /\ GiveUp(c)
          /\ UNCHANGED <<rec, odd>>
       \/ /\ ~shape.deletes
          /\ Goto(c, "ask")
          /\ UNCHANGED <<rec, odd>>
    /\ UNCHANGED <<shape, msg>>

\* client.Enqueue: asynq keeps one task of an id, archived ones included; NATS
\* only refuses an id it has seen in its window.  The answer may be lost.
Ask(c) ==
    /\ call[c].pc = "ask"
    /\ \/ /\ shape.driver = "asynq" => Held = {}
          /\ \E m \in Messages :
               /\ msg[m].st = "none"
               /\ msg' = [msg EXCEPT ![m].st = "waiting"]
               /\ \E lost \in {FALSE, Faultless} :
                    /\ Goto(c, IF lost THEN "refused" ELSE "accepted")
                    /\ odd' = odd \union (IF lost THEN {"lost reply"} ELSE {})
       \/ /\ Goto(c, "refused")
          /\ UNCHANGED <<msg, odd>>
    /\ UNCHANGED <<shape, rec>>

\* prepared: there is a record the dispatch refers to.
Prepared(c) == call[c].op # "enqueue" \/ shape.submits

\* recordEnqueued: RecordDispatched, or RecordEnqueued where nothing was
\* prepared.  A store that cannot be told of a dispatch is not told.
RecordEnqueued(c) ==
    /\ call[c].pc = "accepted"
    /\ Ends(c)
    /\ IF shape.submits THEN Writes(Updated("pending"), {})
       ELSE IF Prepared(c) THEN rec' = rec /\ odd' = odd \union {"unrecorded"}
       ELSE Writes("pending", {})
    /\ UNCHANGED <<shape, msg>>

\* BatchEnqueue without a TaskSubmissionStore: the broker has this task and
\* refuses a later one of the batch, none of the batch is recorded.
BatchBreaks(c) ==
    /\ call[c].pc = "accepted"
    /\ call[c].op = "enqueue" /\ ~shape.submits
    /\ Ends(c)
    /\ UNCHANGED <<shape, rec, msg, odd>>

\* Faulty: the broker's error goes back to the caller and the record is left.
DispatchForgets(c) ==
    /\ call[c].pc = "refused"
    /\ GiveUp(c)
    /\ UNCHANGED <<shape, rec, msg, odd>>

\* The broker's error: RecordDispatchFailed.
DispatchFails(c) ==
    /\ call[c].pc = "refused"
    /\ GiveUp(c)
    /\ IF Prepared(c) /\ shape.submits
         THEN Writes(Updated("submit_failed"), {})
         ELSE UNCHANGED <<rec, odd>>
    /\ UNCHANGED <<shape, msg>>

\* MarkAutoRetryFailed: the record waits for the next round.
MarkFailed(c) ==
    /\ call[c].pc = "mark"
    /\ Ends(c)
    /\ Writes(Marked("failed"), {})
    /\ UNCHANGED <<shape, msg>>

CallerDies(c) ==
    /\ MayDie
    /\ InFlight(c)
    /\ Ends(c)
    /\ odd' = odd \union {"died"}
    /\ UNCHANGED <<shape, rec, msg>>

-----------------------------------------------------------------------------
(* The workers.                                                            *)

\* What the driver asks of the broker, and gets.  asynq does not count a try that
\* ends in an error for which IsFailure is false; NATS looks at the count alone, and
\* JetStream at the number of deliveries.
Uncounted(e) == shape.driver = "asynq" /\ e \in {"limited", "ignored"}

LastDelivery(count) == shape.driver = "nats" /\ count + 1 >= shape.maxDeliver

Outcome(e, count) ==
    IF e = "none" THEN "done"
    ELSE IF Uncounted(e) THEN "uncounted"
    ELSE IF count >= shape.budget THEN "dead"
    ELSE IF LastDelivery(count) THEN "spent" ELSE "again"

After(m, outcome) ==
    CASE outcome = "done" -> [Fresh EXCEPT !.st = "gone"]
      [] outcome = "uncounted" -> [Fresh EXCEPT !.st = "waiting", !.count = msg[m].count]
      [] outcome = "again" -> [Fresh EXCEPT !.st = "waiting", !.count = msg[m].count + 1]
      [] OTHER -> [Fresh EXCEPT !.st = IF shape.driver = "asynq" THEN "archived" ELSE "gone"]

\* The errors for which the record and the broker do not agree: a task NATS ends
\* although it was only refused, one that is out of deliveries with budget left,
\* one that was to end and goes on.
Disagreement(m, e) ==
    LET last == msg[m].count >= shape.budget
        outcome == Outcome(e, msg[m].count)
    IN  (IF e = "limited" /\ outcome = "dead" THEN {"refused"} ELSE {})
        \union
        (IF outcome = "spent" /\ ~IsFatal(e) THEN {"spent"} ELSE {})
        \union
        (IF outcome \in {"again", "uncounted"} /\ (IsFatal(e) \/ (e = "ignored" /\ last))
           THEN {"goes on"} ELSE {})

Alive(m) == msg[m].st \in {"waiting", "active"}

At(m, place) == msg[m].pc = place

\* The rate limit; the lock, the concurrency limit or a BeforeProcess hook.
GuardErrors == {"limited", "plain"}

\* A guard refuses the task.  TaskStoreMiddleware is inside the guards and is not
\* told, not even of the refusal that is the task's last try.
Refuse(m) ==
    /\ msg[m].st = "waiting"
    /\ \E e \in GuardErrors :
         /\ msg' = [msg EXCEPT ![m].st = "active", ![m].pc = "settle",
                               ![m].outcome = Outcome(e, msg[m].count)]
         /\ odd' = odd \union Disagreement(m, e)
                        \union (IF Outcome(e, msg[m].count) = "dead" THEN {"refused"} ELSE {})
    /\ UNCHANGED <<shape, rec, strays, call>>

\* startStoredTaskRun: EnsureRunning and StartRun.  Without a run, for an
\* error of either or a run without an id, the handler runs unrecorded.
StartRun(m) ==
    /\ msg[m].st = "waiting"
    /\ \E ensured, tracked \in BOOLEAN :
         /\ (ensured /\ tracked) \/ MayFail
         /\ tracked => ensured
         /\ rec' = IF ensured THEN "active" ELSE rec
         /\ odd' = odd \union (IF tracked THEN {} ELSE {"unwritten"})
                        \union (IF ensured THEN Race ELSE {})
         /\ msg' = [msg EXCEPT ![m].st = "active", ![m].pc = "finish",
                               ![m].tracked = tracked]
    /\ UNCHANGED <<shape, strays, call>>

\* finishStoredTaskRun: the status, from the error and the retry count.
\* Faulty: the first retry is taken for the last.
StatusOneEarly(e, count) ==
    IF e = "none" THEN "succeeded"
    ELSE IF (e = "limited" \/ count + 1 < shape.budget) /\ ~IsFatal(e) THEN "retry"
    ELSE "failed"
StatusOf(e, count) ==
    IF e = "none" THEN "succeeded"
    ELSE IF (e = "limited" \/ count < shape.budget) /\ ~IsFatal(e) THEN "retry"
    ELSE "failed"

\* The handler ends, by a panic too, and the middleware after it: FinishRun,
\* AppendRunLog and UpdateTaskStatus, each of which ends it with its error.
FinishRun(m) ==
    /\ At(m, "finish")
    /\ \E e \in HandlerErrors :
         /\ msg' = [msg EXCEPT ![m].outcome = Outcome(e, msg[m].count), ![m].pc = "settle"]
         /\ IF msg[m].tracked
              THEN Writes(Marked(StatusOf(e, msg[m].count)), Race \union Disagreement(m, e))
              ELSE rec' = rec /\ odd' = odd \union Disagreement(m, e)
    /\ UNCHANGED <<shape, strays, call>>

Settle(m) ==
    /\ At(m, "settle")
    /\ msg' = [msg EXCEPT ![m] = After(m, msg[m].outcome)]
    /\ UNCHANGED <<shape, rec, strays, call, odd>>

\* The broker hears no more of a try: asynq counts it as failed, JetStream looks
\* at the number of deliveries alone.
AfterSilence(m) ==
    IF shape.driver = "asynq" THEN After(m, Outcome("plain", msg[m].count))
    ELSE After(m, IF LastDelivery(msg[m].count) THEN "spent" ELSE "again")

\* The worker dies, before StartRun or later; what its run made of the record is
\* then not what the broker makes of the task.
WorkerDies(m) ==
    /\ MayDie
    /\ Alive(m)
    /\ msg' = [msg EXCEPT ![m] = AfterSilence(m)]
    /\ odd' = odd \union {"crash"}
                   \union (IF At(m, "settle") THEN {"goes on"} ELSE {})
    /\ UNCHANGED <<shape, rec, strays, call>>

\* The handler goes on, and another run of the message may begin beside it.
Stray(m) == [of |-> m, run |-> msg[m]]
Overtake(m) ==
    /\ MayDie
    /\ At(m, "finish")
    /\ msg' = [msg EXCEPT ![m] = AfterSilence(m)]
    /\ strays' = strays \union {Stray(m)}
    /\ odd' = odd \union {"overlap"}
    /\ UNCHANGED <<shape, rec, call>>

\* Its middleware writes the record.  asynq keeps the answer of a run whose lease
\* has lapsed to itself.
StrayFinishes(s) ==
    /\ s.run.pc = "finish"
    /\ \E e \in HandlerErrors :
         /\ strays' = (strays \ {s}) \union
                (IF shape.driver = "asynq" THEN {}
                 ELSE {[s EXCEPT !.run.outcome = Outcome(e, s.run.count), !.run.pc = "settle"]})
         /\ rec' = IF s.run.tracked THEN Marked(StatusOf(e, s.run.count)) ELSE rec
    /\ UNCHANGED <<shape, msg, call, odd>>

\* The driver for NATS answers: JetStream takes it for the message, and a run that
\* has the message by then is the next stray.
StraySettles(s) ==
    LET ends == s.run.outcome \in {"done", "dead"}
        heard == msg[s.of].st = "active" \/ (msg[s.of].st = "waiting" /\ ends)
    IN  /\ s.run.pc = "settle"
        /\ msg' = IF ~heard THEN msg
                  ELSE IF ends
                    THEN [msg EXCEPT ![s.of] = After(s.of, s.run.outcome)]
                    ELSE [msg EXCEPT ![s.of] = AfterSilence(s.of)]
        /\ strays' = (strays \ {s}) \union
                        (IF heard /\ msg[s.of].st = "active" THEN {Stray(s.of)} ELSE {})
        /\ UNCHANGED <<shape, rec, call, odd>>

CallStep(c) ==
    /\ \/ Enqueue(c) \/ EnqueueLater(c) \/ Poll(c) \/ AutoRetry(c) \/ Requeue(c)
       \/ DeleteAtBroker(c) \/ PurgeRecord(c) \/ Ask(c)
       \/ RecordEnqueued(c) \/ BatchBreaks(c) \/ DispatchFails(c) \/ MarkFailed(c)
       \/ CallerDies(c)
    /\ UNCHANGED strays

RunStep(m) ==
    Refuse(m) \/ StartRun(m) \/ FinishRun(m) \/ Settle(m) \/ WorkerDies(m) \/ Overtake(m)

StrayStep(s) == StrayFinishes(s) \/ StraySettles(s)

Next ==
    \/ \E c \in Calls : CallStep(c)
    \/ \E m \in Messages : RunStep(m)
    \/ \E s \in strays : StrayStep(s)

Spec == Init /\ [][Next]_vars

Symmetry == Permutations(Calls) \union Permutations(Messages)

-----------------------------------------------------------------------------
(* Properties.                                                             *)

Quiet ==
    (\A c \in Calls : ~InFlight(c)) /\ (\A m \in Messages : ~Alive(m)) /\ strays = {}

\* Enqueue, RequeueTaskRecord: with a TaskSubmissionStore a task the broker has
\* ever been given is on record, whoever dies or fails between the two.  The
\* exception is a requeue of a task the broker no longer has: DeleteTask then
\* removes the record, and until the dispatch is recorded there is none.
SubmittedIsRecorded ==
    shape.submits /\ (\E m \in Messages : msg[m].st # "none") /\ rec = "none" =>
        /\ "purged" \in odd
        /\ \/ \E c \in Calls : InFlight(c)
           \/ ~shape.upserts
           \/ odd \intersect {"died", "unwritten"} # {}

\* finishStoredTaskRun, recordEnqueued: once the broker has nothing more to do
\* and every call has ended, the record does not show a task under way, but for
\* a named reason.
StuckIsExcused ==
    Quiet /\ rec \in {"submitting", "pending", "claimed", "active", "retry"} =>
        \/ odd \intersect {"crash", "died", "overlap", "unwritten", "lost reply", "refused",
                            "spent", "race"} # {}
        \/ ~shape.submits

\* DispatchAutoRetryTasks, ClaimAutoRetryTasks: a task has one message that is
\* still to be worked on: a failed record is retried when the broker is done
\* with the task, and not while it has a try of its own to come.  A store without
\* a TaskSubmissionStore is not told of a requeue, and hands the record out again.
Unfinished(m) ==
    Alive(m) /\ (At(m, "settle") => msg[m].outcome \in {"again", "uncounted"})
OneAtATime ==
    \/ \A m, n \in Messages : Unfinished(m) /\ Unfinished(n) => m = n
    \/ odd \intersect {"died", "overlap", "unwritten", "lost reply", "goes on", "race",
                        "by hand", "unrecorded"} # {}
=============================================================================
