---------------------------- MODULE NatsDelivery ----------------------------
(***************************************************************************)
(* pkg/queue/nats/client.go with core/queue's orchestrator: one task on    *)
(* its way from JetStream through the workers that consume it.             *)
(*                                                                         *)
(* JetStream is external: it delivers the message at most MaxDeliver times *)
(* and delivers it again after a Nak's delay, or when no acknowledgement   *)
(* and no progress report came for AckWait.  A run is named by the number  *)
(* of its delivery, so its retry count is that number less one.  Each run  *)
(* works on a Message of its own, decoded from the same envelope.          *)
(*                                                                         *)
(* All stages that change a task's outcome are installed (Recover, the     *)
(* guards, Retry, DeadLetter).  A run reports every AckWait/2, for the     *)
(* first time AckWait/2 after its start: a message that waited longer than *)
(* that for a slot runs beside a broker that may give up on it.  No report *)
(* is lost on a connection that is open.                                   *)
(***************************************************************************)
EXTENDS TaskStages, FiniteSets

CONSTANTS
    Workers,
    Mortal,              \* the workers that may be stopped or killed
    MaxDeliver,          \* the consumer's, set by the workers' config
    ProducerMaxDeliver,  \* the same setting in the producer's config
    MaxRetries,          \* the retry budgets tasks ask for, or Unset
    HandlerErrors,       \* what the handler may return
    GuardErrors,         \* with what a guard may refuse a run
    Unset

ASSUME DeliveryAssumption ==
    /\ Workers # {}
    /\ Mortal \subseteq Workers
    /\ MaxDeliver \in Nat \ {0}
    /\ ProducerMaxDeliver \in Nat \ {0}
    /\ Unset \notin Nat
    /\ MaxRetries \subseteq Nat \union {Unset}
    /\ HandlerErrors \subseteq Errors
    /\ GuardErrors \subseteq {"plain", "limited", "deadline"}

Deliveries == 1 .. MaxDeliver

VARIABLES
    taskMax,     \* the task's own budget, fixed
    phase,       \* the message, at the broker
    delivered,   \* NumDelivered
    worker,      \* delivery -> the worker it went to
    run,         \* delivery -> its run
    wstate,      \* worker -> its pull loop and connection
    timedOut,    \* deliveries whose envelope's timeout has passed
    tardy,       \* runs under way whose first report comes later than AckWait
    late,        \* deliveries given up on before their first report was due
    expiries,    \* times the broker gave up waiting
    records      \* deliveries whose failure is in the dead letter store

broker == <<phase, delivered, worker, expiries>>
history == <<timedOut, tardy, late, records>>
vars == <<taskMax, broker, run, wstate, history>>

Phases == {"ready", "pending", "delayed", "acked", "termed", "spent"}
InProgress == {"gate", "handler", "deadletter", "retry", "finish", "settle"}
Places == {"none", "buffered", "done", "lost"} \union InProgress
WorkerStates == {"up", "leaving", "stopping", "closed", "down"}
Verdicts == {"none", "ack", "nak", "term"}
Events == {"none", "success", "failed", "timeout", "retry", "deadletter"}

Unused == [pc |-> "none", err |-> "none", cause |-> "none", state |-> "",
           event |-> "none", verdict |-> "none"]

Init ==
    /\ taskMax \in MaxRetries
    /\ phase = "ready"
    /\ delivered = 0
    /\ worker = [n \in Deliveries |-> CHOOSE w \in Workers : TRUE]
    /\ run = [n \in Deliveries |-> Unused]
    /\ wstate = [w \in Workers |-> "up"]
    /\ timedOut = {}
    /\ tardy = {}
    /\ late = {}
    /\ expiries = 0
    /\ records = {}

-----------------------------------------------------------------------------
\* maxRetryValue: what the producer writes in the envelope.
BudgetInEnvelope == IF taskMax = Unset THEN ProducerMaxDeliver - 1 ELSE taskMax

\* rejectMessage: an unset budget is the worker's to choose.
BudgetAtReject == IF taskMax = Unset THEN MaxDeliver - 1 ELSE taskMax

\* Producer and workers agree on the budget.
Aligned == BudgetInEnvelope = BudgetAtReject

RetryCount(n) == n - 1

Holds(w) == \E n \in Deliveries : worker[n] = w /\ run[n].pc = "buffered"

\* keepMessageInProgress: the reports of a run end with it, with its context,
\* and as soon as its worker is told to stop; those of a tardy run begin too
\* late for the broker.
\* Faulty: the reports are not stopped when the run returns, or they are sent
\* only while the run waits to enter the handler.
AliveForever(n) ==
    /\ run[n].pc \in InProgress \union {"done"}
    /\ wstate[worker[n]] = "up"
    /\ n \notin timedOut \union tardy
AliveAtGate(n) ==
    /\ run[n].pc = "gate"
    /\ wstate[worker[n]] = "up"
    /\ n \notin timedOut \union tardy
Alive(n) ==
    /\ run[n].pc \in InProgress
    /\ wstate[worker[n]] = "up"
    /\ n \notin timedOut \union tardy

-----------------------------------------------------------------------------
(* JetStream.                                                              *)

\* Fetch returns the message.  A loop that is handing over the message of an
\* earlier fetch is not fetching; one that was fetching when its worker was
\* told to stop takes what this fetch returns and no more.  A run that is at
\* work by then reports before the new delivery's AckWait is over.
Deliver(w) ==
    /\ phase = "ready"
    /\ wstate[w] \in {"up", "leaving"}
    /\ ~Holds(w)
    /\ phase' = "pending"
    /\ delivered' = delivered + 1
    /\ worker' = [worker EXCEPT ![delivered + 1] = w]
    /\ run' = [run EXCEPT ![delivered + 1] = [Unused EXCEPT !.pc = "buffered"]]
    /\ wstate' = [wstate EXCEPT ![w] = IF @ = "leaving" THEN "stopping" ELSE @]
    /\ tardy' = {}
    /\ UNCHANGED <<taskMax, expiries, timedOut, late, records>>

DeliverForever == "ready"  \* faulty: MaxDeliver is not set
MayDeliverAgain == IF delivered < MaxDeliver THEN "ready" ELSE "spent"

\* AckWait passes without a report.  It passes for a delivery that waits for
\* a slot, and for a run whose slot came in time but not its first report.
Expire ==
    /\ phase = "pending"
    /\ \A n \in Deliveries : ~Alive(n)
    /\ phase' = MayDeliverAgain
    /\ expiries' = expiries + 1
    /\ late' = late \union {n \in Deliveries :
                               \/ run[n].pc = "buffered"
                               \/ run[n].pc \in InProgress /\ n \in tardy}
    /\ tardy' = {}
    /\ UNCHANGED <<taskMax, delivered, worker, run, wstate, timedOut, records>>

DelayOver ==
    /\ phase = "delayed"
    /\ phase' = MayDeliverAgain
    /\ UNCHANGED <<taskMax, delivered, worker, expiries, run, wstate, history>>

-----------------------------------------------------------------------------
(* The pull loop and handleJetStreamMessage.                               *)

Becomes(n, r) == run' = [run EXCEPT ![n] = r]
Goto(n, pc) == Becomes(n, [run[n] EXCEPT !.pc = pc])
Fail(n, pc, e) == Becomes(n, [run[n] EXCEPT !.pc = pc, !.err = e, !.cause = e])

\* The select waits for a slot, ctx and done at once: a stopping worker may
\* still start the run.  Execute moves an empty state through pending.  The
\* run is tardy if AckWait has begun with a delivery more than AckWait/2 ago.
Start(n) ==
    /\ run[n].pc = "buffered"
    /\ Becomes(n, [run[n] EXCEPT !.pc = "gate",
                                 !.state = Moved(Moved(@, "pending"), "running")])
    /\ \/ tardy' = tardy
       \/ phase = "pending" /\ tardy' = tardy \union {n}
    /\ UNCHANGED <<taskMax, broker, wstate, timedOut, late, records>>

\* The loop returns with the message in hand.
Drop(n) ==
    /\ run[n].pc = "buffered"
    /\ wstate[worker[n]] \in {"stopping", "closed"}
    /\ Goto(n, "lost")
    /\ UNCHANGED <<taskMax, broker, wstate, history>>

\* A BeforeProcess hook, the rate limit, the concurrency limit or the lock
\* refuses the run, outside Retry and DeadLetter.
Refuse(n, e) ==
    /\ run[n].pc = "gate"
    /\ Fail(n, "finish", e)
    /\ UNCHANGED <<taskMax, broker, wstate, history>>

Enter(n) ==
    /\ run[n].pc = "gate"
    /\ Goto(n, "handler")
    /\ UNCHANGED <<taskMax, broker, wstate, history>>

Return(n, e) ==
    /\ run[n].pc = "handler"
    /\ Fail(n, "deadletter", e)
    /\ UNCHANGED <<taskMax, broker, wstate, history>>

\* Recover is the outermost stage: the panic skips the stages it unwinds.
Panic(n) ==
    /\ run[n].pc = "handler"
    /\ Fail(n, "finish", "plain")
    /\ UNCHANGED <<taskMax, broker, wstate, history>>

TimeOut(n) ==
    /\ run[n].pc \in InProgress
    /\ n \notin timedOut
    /\ timedOut' = timedOut \union {n}
    /\ UNCHANGED <<taskMax, broker, run, wstate, tardy, late, records>>

\* Push may fail.
DeadLetter(n) ==
    /\ run[n].pc = "deadletter"
    /\ \/ /\ WantsRecord(run[n].err, RetryCount(n), BudgetInEnvelope)
          /\ records' = records \union {n}
          /\ Becomes(n, [Recorded(run[n]) EXCEPT !.pc = "retry"])
       \/ /\ Goto(n, "retry")
          /\ UNCHANGED records
    /\ UNCHANGED <<taskMax, broker, wstate, timedOut, tardy, late>>

Retry(n, again) ==
    /\ run[n].pc = "retry"
    /\ Becomes(n, [Retried(run[n], RetryCount(n), BudgetInEnvelope, again) EXCEPT !.pc = "finish"])
    /\ UNCHANGED <<taskMax, broker, wstate, history>>

Finish(n) ==
    /\ run[n].pc = "finish"
    /\ Becomes(n, [Finished(run[n], RetryCount(n), BudgetInEnvelope) EXCEPT !.pc = "settle"])
    /\ UNCHANGED <<taskMax, broker, wstate, history>>

-----------------------------------------------------------------------------
\* rejectMessage looks at the budget only, not at the kind of the error.
\* Faulty: one retry more, one retry less, a budget of 0 taken for none.
OneMore(n) == BudgetAtReject <= 0 \/ RetryCount(n) > BudgetAtReject
OneLess(n) == BudgetAtReject <= 0 \/ RetryCount(n) + 1 >= BudgetAtReject
ZeroIsUnlimited(n) == BudgetAtReject > 0 /\ RetryCount(n) >= BudgetAtReject
OutOfBudget(n) == BudgetAtReject <= 0 \/ RetryCount(n) >= BudgetAtReject

VerdictOn(n) ==
    IF run[n].err = "none" THEN "ack"
    ELSE IF OutOfBudget(n) THEN "term" ELSE "nak"

\* What the broker makes of it: the message is settled for good unless it is
\* no longer its to settle; a Nak counts while the message is pending, the
\* late one of an older delivery included.
After(verdict) ==
    CASE verdict = "ack" /\ phase \in {"ready", "pending", "delayed"} -> "acked"
      [] verdict = "term" /\ phase \in {"ready", "pending", "delayed"} -> "termed"
      [] verdict = "nak" /\ phase = "pending" -> "delayed"
      [] OTHER -> phase

\* A closed connection carries nothing, and the error is ignored.
Settle(n) ==
    /\ run[n].pc = "settle"
    /\ Becomes(n, [run[n] EXCEPT !.pc = "done", !.verdict = VerdictOn(n)])
    /\ phase' = IF wstate[worker[n]] = "closed" THEN phase ELSE After(VerdictOn(n))
    /\ tardy' = tardy \ {n}
    /\ UNCHANGED <<taskMax, delivered, worker, expiries, wstate, timedOut, late, records>>

-----------------------------------------------------------------------------
(* The worker.                                                             *)

\* Run's context ends: done is closed, and with it all progress reports.
Stop(w) ==
    /\ w \in Mortal
    /\ wstate[w] = "up"
    /\ wstate' = [wstate EXCEPT ![w] = IF Holds(w) THEN "stopping" ELSE "leaving"]
    /\ UNCHANGED <<taskMax, broker, run, history>>

LoopExits(w) ==
    /\ wstate[w] = "leaving"
    /\ wstate' = [wstate EXCEPT ![w] = "stopping"]
    /\ UNCHANGED <<taskMax, broker, run, history>>

\* Close closes the connection first and waits for the handlers then.
Close(w) ==
    /\ w \in Mortal
    /\ wstate[w] \in {"up", "leaving", "stopping"}
    /\ wstate' = [wstate EXCEPT ![w] = "closed"]
    /\ UNCHANGED <<taskMax, broker, run, history>>

Crash(w) ==
    /\ w \in Mortal
    /\ wstate[w] # "down"
    /\ wstate' = [wstate EXCEPT ![w] = "down"]
    /\ run' = [n \in Deliveries |->
                 IF worker[n] = w /\ run[n].pc \in InProgress \union {"buffered"}
                   THEN [run[n] EXCEPT !.pc = "lost"]
                   ELSE run[n]]
    /\ UNCHANGED <<taskMax, broker, history>>

-----------------------------------------------------------------------------
Broker == Expire \/ DelayOver \/ \E w \in Workers : Deliver(w)

\* Steps of a run that take place sooner or later.
Advance(n) ==
    \/ Start(n)
    \/ Drop(n)
    \/ \E e \in GuardErrors : Refuse(n, e)
    \/ Enter(n)
    \/ \E e \in HandlerErrors : Return(n, e)
    \/ Panic(n)
    \/ DeadLetter(n)
    \/ \E again \in BOOLEAN : Retry(n, again)
    \/ Finish(n)
    \/ Settle(n)

Trouble(w) == Stop(w) \/ LoopExits(w) \/ Close(w) \/ Crash(w)

Next ==
    \/ Broker
    \/ \E n \in Deliveries : Advance(n) \/ TimeOut(n)
    \/ \E w \in Workers : Trouble(w)

Spec == Init /\ [][Next]_vars

\* JetStream redelivers, handlers return, and one worker keeps fetching.
FairSpec ==
    /\ Spec
    /\ WF_vars(Broker)
    /\ \A n \in Deliveries : WF_vars(Advance(n))

-----------------------------------------------------------------------------
(* Properties.                                                             *)

RunType ==
    [pc : Places, err : Errors, cause : Errors, state : States,
     event : Events, verdict : Verdicts]

\* Every variable stays in its type; a run that was not delivered is unused.
TypeOK ==
    /\ taskMax \in MaxRetries
    /\ phase \in Phases
    /\ delivered \in 0 .. MaxDeliver
    /\ worker \in [Deliveries -> Workers]
    /\ run \in [Deliveries -> RunType]
    /\ wstate \in [Workers -> WorkerStates]
    /\ timedOut \subseteq 1 .. delivered
    /\ tardy \subseteq 1 .. delivered
    /\ late \subseteq 1 .. delivered
    /\ records \subseteq 1 .. delivered
    /\ expiries \in 0 .. delivered
    /\ \A n \in Deliveries : n > delivered => run[n] = Unused

\* The broker's verdict has a run behind it: a message is acknowledged only
\* if a run's handler succeeded, terminated only if one failed with no budget
\* left, and out of deliveries only if the budget allowed that many or the
\* broker had to give up on a delivery.
SettledForCause ==
    /\ phase = "acked" => \E n \in Deliveries : run[n].verdict = "ack" /\ run[n].event = "success"
    /\ phase = "termed" => \E n \in Deliveries :
                              /\ run[n].verdict = "term"
                              /\ run[n].err # "none"
                              /\ RetryCount(n) >= BudgetAtReject
    /\ phase = "spent" => expiries > 0 \/ BudgetAtReject >= MaxDeliver

\* A worker that is up, and whose run's context is alive, is the only one to
\* run the task - unless an earlier delivery had outlived its reports: it
\* waited for a slot too long to report in time (more than half of AckWait),
\* its timeout passed or its worker was stopped.
ExcusedOverlap ==
    \/ late # {}
    \/ timedOut # {}
    \/ \E w \in Workers : wstate[w] # "up"

OverlapIsExcused ==
    \A m, n \in Deliveries :
       m < n /\ run[m].pc \in InProgress /\ run[n].pc \in InProgress => ExcusedOverlap

\* A task whose failure the dead letter store holds has not succeeded too,
\* unless its error was fatal (rejectMessage retries it all the same), the
\* budgets differ, or deliveries overlapped or were lost.
NotBothDoneAndDead ==
    (\E n \in records : run[n].cause \notin {"fatal", "deadletter"})
      /\ (\E n \in Deliveries : run[n].event = "success")
      => ExcusedOverlap \/ ~Aligned

\* What a run announced is what it asks of the broker: success is
\* acknowledged and nothing else is; a retry is not terminated, except one
\* that the rate limit refused at the end of the budget; a dead task is
\* terminated, except one whose error was fatal from the start.
VerdictMatchesEvent ==
    \A n \in Deliveries : run[n].pc = "done" /\ Aligned =>
       /\ run[n].event = "success" <=> run[n].verdict = "ack"
       /\ run[n].event = "retry" /\ run[n].err # "limited" => run[n].verdict = "nak"
       /\ run[n].event = "deadletter" /\ run[n].cause \notin {"fatal", "deadletter"}
            => run[n].verdict = "term"

\* The state a run leaves in its message is the one its event announces; a
\* timeout may be announced of a task Retry has already put up for a retry.
EventMatchesState ==
    \A n \in Deliveries : run[n].pc \in {"settle", "done"} =>
       /\ run[n].event = "success" <=> run[n].state = "success"
       /\ run[n].event = "deadletter" <=> run[n].state = "deadletter"
       /\ run[n].event = "retry" => run[n].state = "retrying"
       /\ run[n].state = "retrying" => run[n].event \in {"retry", "timeout"}

\* The handler is given a task at most once more than the task's budget of
\* retries, counting out the deliveries the broker gave up on.
AttemptsWithinBudget ==
    delivered - expiries <= 1 + (IF BudgetAtReject > 0 THEN BudgetAtReject ELSE 0)

\* As long as one worker lives, the message does not stay at the broker.
EventuallySettled == <>[](phase \in {"acked", "termed", "spent"})

\* The test of the state machine: a dead task does not run again.
DeadLetterIsFinal ==
    \A n \in Deliveries : run[n].state = "deadletter" => run[n].verdict # "nak"
=============================================================================
