------------------------- MODULE NatsDeliveryProofs -------------------------
(***************************************************************************)
(* Proofs about NatsDelivery.  What a run leaves behind is settled by its  *)
(* own steps (Fits), what the broker concludes by the chain of deliveries  *)
(* (Chain), and the two meet where a verdict reaches the broker.           *)
(***************************************************************************)
EXTENDS NatsDelivery, TLAPS, FiniteSetTheorems

-----------------------------------------------------------------------------
(* The budget.                                                             *)

\* A budget is a number, and the tests of it are plain comparisons.
LEMMA Budgets ==
    ASSUME taskMax \in MaxRetries
    PROVE  /\ BudgetInEnvelope \in Nat
           /\ BudgetAtReject \in Nat
           /\ \A n \in Deliveries : /\ n \in Nat /\ n >= 1
                                    /\ Exhausted(RetryCount(n), BudgetInEnvelope) <=> n - 1 >= BudgetInEnvelope
                                    /\ OutOfBudget(n) <=> n - 1 >= BudgetAtReject
    <1>1. BudgetInEnvelope \in Nat
        BY DeliveryAssumption, SMT DEF BudgetInEnvelope
    <1>2. BudgetAtReject \in Nat
        BY DeliveryAssumption, SMT DEF BudgetAtReject
    <1>3. ASSUME NEW n \in Deliveries
          PROVE  /\ n \in Nat /\ n >= 1
                 /\ Exhausted(RetryCount(n), BudgetInEnvelope) <=> n - 1 >= BudgetInEnvelope
                 /\ OutOfBudget(n) <=> n - 1 >= BudgetAtReject
        <2>1. n \in Nat /\ n >= 1
            BY DeliveryAssumption, SMT DEF Deliveries
        <2>2. Exhausted(RetryCount(n), BudgetInEnvelope) <=> n - 1 >= BudgetInEnvelope
            BY <1>1, <2>1, SMT DEF Exhausted, RetryCount
        <2>3. OutOfBudget(n) <=> n - 1 >= BudgetAtReject
            BY <1>2, <2>1, SMT DEF OutOfBudget, RetryCount
        <2> QED BY <2>1, <2>2, <2>3
    <1> QED BY <1>1, <1>2, <1>3

-----------------------------------------------------------------------------
(* One run.  Its retry count is k, its budget B.                           *)

\* The budget or the error itself was reason enough to die.
CauseToDie(r, k, B) == IsFatal(r.cause) \/ k >= B

Dead(r, k, B) ==
    /\ r.state = "deadletter"
    /\ r.err = "deadletter"
    /\ CauseToDie(r, k, B)

Fresh(r) == r.err = "none" /\ r.cause = "none"
Silent(r) == r.event = "none" /\ r.verdict = "none"
Working(r) == r.state = "running" /\ r.err = r.cause
PutUp(r, k, B) ==
    /\ r.state = "retrying"
    /\ r.err \in {"later", "laterDeadline"}
    /\ ~(k >= B)

\* What finishFailure makes of the run.
Announced(r, k, B) ==
    /\ r.event # "none"
    /\ r.event = "success" <=> r.err = "none"
    /\ r.event = "success" <=> r.state = "success"
    /\ r.event = "deadletter" <=> r.state = "deadletter"
    /\ r.event = "retry" => r.state = "retrying"
    /\ r.state = "retrying" => r.event \in {"retry", "timeout"}
    /\ r.event = "deadletter" => CauseToDie(r, k, B)
    /\ r.event = "retry" /\ r.err # "limited" => ~(k >= B)

Proper(r, k, B) ==
    /\ r.pc = "buffered" => Silent(r) /\ Fresh(r) /\ r.state = ""
    /\ r.pc \in {"gate", "handler"} => Silent(r) /\ Fresh(r) /\ r.state = "running"
    /\ r.pc = "deadletter" => Silent(r) /\ Working(r)
    /\ r.pc = "retry" => Silent(r) /\ (Working(r) \/ Dead(r, k, B))
    /\ r.pc = "finish" => Silent(r) /\ (Working(r) \/ PutUp(r, k, B) \/ Dead(r, k, B))
    /\ r.pc \in {"settle", "done"} => Announced(r, k, B)
    /\ r.verdict # "none" => r.pc = "done"
    /\ r.event = "success" => r.err = "none"

\* The states a stage can leave.
LEMMA Transitions ==
    /\ Moved("running", "success") = "success"
    /\ Moved("running", "retrying") = "retrying"
    /\ Moved("running", "failed") = "failed"
    /\ Moved("retrying", "retrying") = "retrying"
    /\ Moved("retrying", "failed") = "retrying"
    /\ MovedToDeadLetter("running") = "deadletter"
    /\ MovedToDeadLetter("deadletter") = "deadletter"
    /\ Moved(Moved("", "pending"), "running") = "running"
    BY DEF Moved, MovedToDeadLetter, CanTransition, Edges

RetriedTo(r, k, B, again, t) == t = Retried(r, k, B, again)
FinishedTo(r, k, B, t) == t = Finished(r, k, B)

\* What Retry makes of a run, whatever the strategy grants.
LEMMA AfterRetry ==
    ASSUME NEW r \in RunType, NEW k \in Nat, NEW B \in Nat, NEW again \in BOOLEAN,
           Silent(r), Working(r) \/ Dead(r, k, B),
           NEW t, RetriedTo(r, k, B, again, t)
    PROVE  /\ t \in RunType
           /\ Silent(t)
           /\ Working(t) \/ PutUp(t, k, B) \/ Dead(t, k, B)
           /\ t.cause = r.cause
           /\ r.err = "deadletter" => t.err = "deadletter"
    <1>0. Exhausted(k, B) <=> k >= B
        BY SMT DEF Exhausted
    <1>1. CASE Settled(r) \/ (~(k >= B) /\ (NamesDelay(r.err) \/ ~again))
        <2>1. t = r
            BY <1>1, <1>0, Zenon DEF RetriedTo, Retried
        <2> QED BY <2>1, Zenon
    <1>2. CASE ~Settled(r) /\ k >= B
        <2>1. r.state = "running"
            BY <1>2, SMT DEF Working, Dead, Settled
        <2>2. MovedToDeadLetter(r.state) = "deadletter"
            BY <2>1, Transitions, Zenon
        <2>3. t = [r EXCEPT !.err = "deadletter", !.state = "deadletter"]
            BY <1>2, <2>2, <1>0, Zenon DEF RetriedTo, Retried
        <2>4. "deadletter" \in Errors /\ "deadletter" \in States
            BY DEF Errors, States
        <2>5. /\ t \in RunType /\ t.err = "deadletter" /\ t.state = "deadletter"
              /\ t.cause = r.cause /\ t.event = r.event /\ t.verdict = r.verdict
            BY <2>3, <2>4, Zenon DEF RunType
        <2> QED BY <1>2, <2>5, Zenon DEF Silent, Dead, CauseToDie
    <1>3. CASE ~Settled(r) /\ ~(k >= B) /\ ~NamesDelay(r.err) /\ again
        <2>1. r.state = "running"
            BY <1>3, SMT DEF Working, Dead, Settled
        <2>2. Moved(r.state, "retrying") = "retrying"
            BY <2>1, Transitions, Zenon
        <2>3. t = [r EXCEPT !.err = Delayed(r.err), !.state = "retrying"]
            BY <1>3, <2>2, <1>0, Zenon DEF RetriedTo, Retried
        <2>4. Delayed(r.err) \in {"later", "laterDeadline"}
            BY DEF Delayed
        <2>5. Delayed(r.err) \in Errors /\ "retrying" \in States
            BY <2>4 DEF Errors, States
        <2>6. /\ t \in RunType /\ t.err = Delayed(r.err) /\ t.state = "retrying"
              /\ t.cause = r.cause /\ t.event = r.event /\ t.verdict = r.verdict
            BY <2>3, <2>5, Zenon DEF RunType
        <2>7. r.err # "deadletter"
            BY <1>3, SMT DEF Settled, IsFatal
        <2> QED BY <1>3, <2>4, <2>6, <2>7, Zenon DEF Silent, PutUp
    <1> QED BY <1>1, <1>2, <1>3, Zenon

\* What the end of Execute makes of it.
LEMMA AfterFinish ==
    ASSUME NEW r \in RunType, NEW k \in Nat, NEW B \in Nat,
           Silent(r), Working(r) \/ PutUp(r, k, B) \/ Dead(r, k, B),
           NEW t, FinishedTo(r, k, B, t)
    PROVE  /\ t \in RunType
           /\ t.verdict = "none"
           /\ Announced(t, k, B)
           /\ t.cause = r.cause
           /\ t.err = r.err
    <1>0. r.state \in {"running", "retrying", "deadletter"}
        BY SMT DEF Working, PutUp, Dead
    <1>a. /\ "success" \in States /\ "failed" \in States
          /\ "retrying" \in States /\ "deadletter" \in States
          /\ "success" \in Events /\ "failed" \in Events /\ "retry" \in Events
          /\ "timeout" \in Events /\ "deadletter" \in Events
        BY DEF States, Events
    <1>b. Exhausted(k, B) <=> k >= B
        BY SMT DEF Exhausted
    <1>1. CASE r.err = "none"
        <2>1. r.state = "running"
            BY <1>1, SMT DEF Working, PutUp, Dead
        <2>2. Moved(r.state, "success") = "success"
            BY <2>1, Transitions, Zenon
        <2>3. t = [r EXCEPT !.state = "success", !.event = "success"]
            BY <1>1, <2>2, Zenon DEF FinishedTo, Finished
        <2>4. /\ t \in RunType /\ t.state = "success" /\ t.event = "success"
              /\ t.err = r.err /\ t.cause = r.cause /\ t.verdict = r.verdict
            BY <2>3, <1>a, Zenon DEF RunType
        <2> QED BY <1>1, <2>4, SMT DEF Silent, Announced
    <1>2. CASE r.err # "none" /\ Dies(r, k, B)
        <2>1. r.state \in {"running", "deadletter"}
            BY <1>b, <1>2, SMT DEF Dies, Working, PutUp, Dead, IsFatal
        <2>2. IsFatal(r.cause) \/ k >= B
            BY <1>b, <1>2, SMT DEF Dies, Working, PutUp, Dead, CauseToDie, IsFatal
        <2>3. MovedToDeadLetter(r.state) = "deadletter"
            BY <2>1, Transitions, Zenon
        <2>4. t = [r EXCEPT !.state = "deadletter", !.event = "deadletter"]
            BY <1>2, <2>3, Zenon DEF FinishedTo, Finished
        <2>5. /\ t \in RunType /\ t.state = "deadletter" /\ t.event = "deadletter"
              /\ t.err = r.err /\ t.cause = r.cause /\ t.verdict = r.verdict
            BY <2>4, <1>a, Zenon DEF RunType
        <2> QED BY <1>2, <2>2, <2>5, SMT DEF Silent, Announced, CauseToDie
    <1>3. CASE r.err # "none" /\ ~Dies(r, k, B) /\ IsTimeout(r.err)
        <2>1. r.state \in {"running", "retrying"}
            BY <1>b, <1>0, <1>3, SMT DEF Dies
        <2>2. Moved(r.state, "failed") \in {"failed", "retrying"}
            BY <2>1, Transitions, Zenon
        <2>3. PICK s \in {"failed", "retrying"} : s = Moved(r.state, "failed")
            BY <2>2
        <2>4. t = [r EXCEPT !.state = s, !.event = "timeout"]
            BY <1>3, <2>3, Zenon DEF FinishedTo, Finished
        <2>5. s \in States
            BY DEF States
        <2>6. /\ t \in RunType /\ t.state = s /\ t.event = "timeout"
              /\ t.err = r.err /\ t.cause = r.cause /\ t.verdict = r.verdict
            BY <2>4, <2>5, <1>a, Zenon DEF RunType
        <2> QED BY <1>3, <2>6, SMT DEF Silent, Announced
    <1>4. CASE /\ r.err # "none" /\ ~Dies(r, k, B) /\ ~IsTimeout(r.err)
               /\ IsRetryable(r.err) \/ r.err = "limited"
        <2>1. r.state \in {"running", "retrying"}
            BY <1>b, <1>0, <1>4, SMT DEF Dies
        <2>2. Moved(r.state, "retrying") = "retrying"
            BY <2>1, Transitions, Zenon
        <2>3. r.err # "limited" => ~(k >= B)
            BY <1>b, <1>4, SMT DEF Dies, IsRetryable
        <2>4. t = [r EXCEPT !.state = "retrying", !.event = "retry"]
            BY <1>4, <2>2, Zenon DEF FinishedTo, Finished
        <2>5. /\ t \in RunType /\ t.state = "retrying" /\ t.event = "retry"
              /\ t.err = r.err /\ t.cause = r.cause /\ t.verdict = r.verdict
            BY <2>4, <1>a, Zenon DEF RunType
        <2> QED BY <1>4, <2>3, <2>5, SMT DEF Silent, Announced
    <1>5. CASE /\ r.err # "none" /\ ~Dies(r, k, B) /\ ~IsTimeout(r.err)
               /\ ~(IsRetryable(r.err) \/ r.err = "limited")
        <2>1. r.state = "running"
            BY <1>b, <1>0, <1>5, SMT DEF Dies, IsRetryable, PutUp, Working, Dead
        <2>2. Moved(r.state, "failed") = "failed"
            BY <2>1, Transitions, Zenon
        <2>3. t = [r EXCEPT !.state = "failed", !.event = "failed"]
            BY <1>5, <2>2, Zenon DEF FinishedTo, Finished
        <2>4. /\ t \in RunType /\ t.state = "failed" /\ t.event = "failed"
              /\ t.err = r.err /\ t.cause = r.cause /\ t.verdict = r.verdict
            BY <2>3, <1>a, Zenon DEF RunType
        <2> QED BY <1>5, <2>4, SMT DEF Silent, Announced
    <1> QED BY <1>1, <1>2, <1>3, <1>4, <1>5, Zenon

-----------------------------------------------------------------------------
(* The inductive invariant.                                                *)

\* B is the budget of the stages, C the driver's.
VerdictOf(r, n, C) ==
    IF r.err = "none" THEN "ack" ELSE IF n - 1 >= C THEN "term" ELSE "nak"

Fits(r, n, B, C) ==
    /\ Proper(r, n - 1, B)
    /\ r.pc = "done" => r.verdict = VerdictOf(r, n, C)

RunsFit == \A n \in Deliveries : Fits(run[n], n, BudgetInEnvelope, BudgetAtReject)

RecordFits(r, n, B) == r.err = "deadletter" /\ CauseToDie(r, n - 1, B)
RecordsFit == \A n \in records : RecordFits(run[n], n, BudgetInEnvelope)

\* The broker's count of deliveries, phase by phase.
Ledger ==
    /\ phase = "ready" => delivered < MaxDeliver
    /\ phase = "spent" => delivered = MaxDeliver
    /\ phase = "pending" => expiries < delivered
    /\ phase # "ready" => delivered >= 1

\* Until the broker gives up on a delivery, each one follows on the Nak of
\* the one before it.
Nakked(r) == r.pc = "done" /\ r.verdict = "nak"
Chain ==
    expiries = 0 =>
       \A n \in 1 .. delivered :
          n < delivered \/ phase \in {"ready", "delayed", "spent"} => Nakked(run[n])

\* With nothing to excuse it the broker never gives up, and it hears of the
\* end of the latest run.
Calm ==
    ~ExcusedOverlap =>
       /\ expiries = 0
       /\ phase = "pending" => run[delivered].pc \in InProgress \union {"buffered"}
       /\ phase \in {"acked", "termed"} => run[delivered].pc = "done"

\* The broker settles on a verdict it was given.
Told ==
    /\ phase = "acked" => \E n \in Deliveries : run[n].verdict = "ack"
    /\ phase = "termed" => \E n \in Deliveries : run[n].verdict = "term"

\* Each further delivery is owed to a Nak or to a delivery given up on.
Naks == {n \in Deliveries : run[n].verdict = "nak"}
Owed == IF phase \in {"ready", "delayed"} THEN 1 ELSE 0
Accounted == delivered + Owed <= 1 + expiries + Cardinality(Naks)

IInv == TypeOK /\ RunsFit /\ RecordsFit /\ Ledger /\ Chain /\ Calm /\ Told /\ Accounted

\* A step of run n that the broker does not see.
LocalStep(n) ==
    /\ run[n].pc \in InProgress \union {"buffered"}
    /\ run' \in [Deliveries -> RunType]
    /\ \A m \in Deliveries \ {n} : run'[m] = run[m]
    /\ Fits(run'[n], n, BudgetInEnvelope, BudgetAtReject)
    /\ run'[n].pc \notin {"none", "done"}
    /\ run'[n].pc = "lost" => wstate[worker[n]] # "up"
    /\ records \subseteq records' /\ records' \subseteq records \union {n}
    /\ n \in records' => RecordFits(run'[n], n, BudgetInEnvelope)
    /\ tardy' \subseteq tardy \union {n}
    /\ UNCHANGED <<taskMax, broker, wstate, timedOut, late>>

\* A run that is under way was delivered.
LEMMA UnderWay ==
    ASSUME TypeOK, NEW n \in Deliveries, run[n].pc # "none"
    PROVE  n \in 1 .. delivered
    <1>1. ~(n > delivered)
        <2>1. n > delivered => run[n] = Unused
            BY DEF TypeOK
        <2>2. Unused.pc = "none"
            BY DEF Unused
        <2> QED BY <2>1, <2>2, Zenon
    <1> QED BY <1>1, DeliveryAssumption, SMT DEF TypeOK, Deliveries

LEMMA InitIInv == Init => IInv
    <1> SUFFICES ASSUME Init PROVE IInv
        OBVIOUS
    <1>1. \A n \in Deliveries : run[n] = Unused
        BY DEF Init
    <1>2. Unused \in RunType
        BY Zenon DEF Unused, RunType, Places, Errors, States, Events, Verdicts
    <1>3. /\ Unused.pc = "none" /\ Unused.verdict = "none" /\ Unused.event = "none"
        BY DEF Unused
    <1>4. TypeOK
        <2>1. worker \in [Deliveries -> Workers]
            BY DeliveryAssumption, Zenon DEF Init
        <2>2. run \in [Deliveries -> RunType]
            BY <1>2, Zenon DEF Init
        <2>3. delivered \in 0 .. MaxDeliver /\ expiries \in 0 .. delivered
            BY DeliveryAssumption, SMT DEF Init
        <2>4. wstate \in [Workers -> WorkerStates]
            BY Zenon DEF Init, WorkerStates
        <2> QED BY <1>1, <2>1, <2>2, <2>3, <2>4, Zenon DEF Init, TypeOK, Phases
    <1>5. RunsFit
        <2> SUFFICES ASSUME NEW n \in Deliveries
                     PROVE  Fits(run[n], n, BudgetInEnvelope, BudgetAtReject)
            BY DEF RunsFit
        <2>1. run[n].pc = "none" /\ run[n].verdict = "none" /\ run[n].event = "none"
            BY <1>1, <1>3, Zenon
        <2> QED BY <2>1, SMT DEF Fits, Proper
    <1>6. RecordsFit
        BY DEF RecordsFit, Init
    <1>7. Ledger
        BY DeliveryAssumption, SMT DEF Init, Ledger
    <1>8. Chain
        BY SMT DEF Init, Chain
    <1>9. Calm
        BY DEF Init, Calm
    <1>10. Told
        BY DEF Init, Told
    <1>11. Accounted
        <2>1. Naks = {}
            BY <1>1, <1>3 DEF Naks
        <2>2. Cardinality(Naks) = 0
            BY <2>1, FS_EmptySet
        <2> QED BY <2>2, SMT DEF Accounted, Owed, Init
    <1> QED BY <1>4, <1>5, <1>6, <1>7, <1>8, <1>9, <1>10, <1>11 DEF IInv

-----------------------------------------------------------------------------
(* The steps of a run.                                                     *)

LEMMA Becoming ==
    ASSUME TypeOK, NEW n \in Deliveries, NEW s \in RunType, Becomes(n, s)
    PROVE  /\ run' \in [Deliveries -> RunType]
           /\ run'[n] = s
           /\ \A m \in Deliveries \ {n} : run'[m] = run[m]
    <1>1. run \in [Deliveries -> RunType]
        BY DEF TypeOK
    <1> QED BY <1>1, Zenon DEF Becomes

\* A step of a run that leaves the records alone.
LEMMA Quietly ==
    ASSUME TypeOK, RecordsFit, NEW n \in Deliveries, NEW s \in RunType, Becomes(n, s),
           run[n].pc \in InProgress \union {"buffered"},
           Fits(s, n, BudgetInEnvelope, BudgetAtReject),
           s.pc \notin {"none", "done"},
           s.pc = "lost" => wstate[worker[n]] # "up",
           n \in records => RecordFits(s, n, BudgetInEnvelope),
           UNCHANGED <<taskMax, broker, wstate, history>>
    PROVE  LocalStep(n)
    <1>1. /\ run' \in [Deliveries -> RunType]
          /\ run'[n] = s
          /\ \A m \in Deliveries \ {n} : run'[m] = run[m]
        BY Becoming
    <1> QED BY <1>1, Zenon DEF LocalStep, history

\* What a run at work is, before its handler has returned.
LEMMA BeforeReturn ==
    ASSUME IInv, NEW n \in Deliveries, run[n].pc \in {"buffered", "gate", "handler"}
    PROVE  /\ run[n] \in RunType
           /\ Silent(run[n]) /\ Fresh(run[n])
           /\ run[n].pc = "buffered" => run[n].state = ""
           /\ run[n].pc # "buffered" => run[n].state = "running"
           /\ run[n].pc \in InProgress \union {"buffered"}
           /\ n \notin records
    <1>1. run[n] \in RunType
        BY DEF IInv, TypeOK
    <1>2. Proper(run[n], n - 1, BudgetInEnvelope)
        BY DEF IInv, RunsFit, Fits
    <1>3. /\ Silent(run[n]) /\ Fresh(run[n])
          /\ run[n].pc = "buffered" => run[n].state = ""
          /\ run[n].pc # "buffered" => run[n].state = "running"
        BY <1>2, Zenon DEF Proper
    <1>4. run[n].err # "deadletter"
        BY <1>3, Zenon DEF Fresh
    <1>5. n \notin records
        BY <1>4, Zenon DEF IInv, RecordsFit, RecordFits
    <1> QED BY <1>1, <1>3, <1>5 DEF InProgress

LEMMA StartIsLocal ==
    ASSUME IInv, NEW n \in Deliveries, Start(n)
    PROVE  LocalStep(n)
    <1> DEFINE s == [run[n] EXCEPT !.pc = "gate", !.state = "running"]
    <1>1. /\ run[n].pc = "buffered"
          /\ tardy' \subseteq tardy \union {n}
          /\ UNCHANGED <<taskMax, broker, wstate, timedOut, late>> /\ records' = records
        BY Zenon DEF Start
    <1>2. /\ run[n] \in RunType
          /\ Silent(run[n]) /\ Fresh(run[n])
          /\ run[n].pc \in InProgress \union {"buffered"}
          /\ n \notin records
        BY <1>1, BeforeReturn
    <1>3. run[n].state = ""
        BY <1>1, BeforeReturn
    <1>4. Moved(Moved(run[n].state, "pending"), "running") = "running"
        BY <1>3, Transitions, Zenon
    <1>5. Becomes(n, s)
        BY <1>4, Zenon DEF Start
    <1>6. "gate" \in Places /\ "running" \in States
        BY DEF Places, InProgress, States
    <1>7. /\ s \in RunType
          /\ s.pc = "gate" /\ s.state = "running"
          /\ s.err = run[n].err /\ s.cause = run[n].cause /\ s.event = run[n].event /\ s.verdict = run[n].verdict
        BY <1>2, <1>6, Zenon DEF RunType
    <1> HIDE DEF s
    <1>8. Fits(s, n, BudgetInEnvelope, BudgetAtReject)
        BY <1>2, <1>7, SMT DEF Fits, Proper, Silent, Fresh, Working
    <1>9. /\ run' \in [Deliveries -> RunType]
          /\ run'[n] = s
          /\ \A m \in Deliveries \ {n} : run'[m] = run[m]
        BY <1>5, <1>7, Becoming DEF IInv
    <1>10. s.pc \notin {"none", "done", "lost"}
        BY <1>7
    <1> QED BY <1>1, <1>2, <1>8, <1>9, <1>10, Zenon DEF LocalStep

LEMMA DropIsLocal ==
    ASSUME IInv, NEW n \in Deliveries, Drop(n)
    PROVE  LocalStep(n)
    <1> DEFINE s == [run[n] EXCEPT !.pc = "lost"]
    <1>1. run[n].pc = "buffered" /\ UNCHANGED <<taskMax, broker, wstate, history>>
        BY Zenon DEF Drop
    <1>2. /\ run[n] \in RunType
          /\ Silent(run[n]) /\ Fresh(run[n])
          /\ run[n].pc \in InProgress \union {"buffered"}
          /\ n \notin records
        BY <1>1, BeforeReturn
    <1>5. Becomes(n, s)
        BY Zenon DEF Drop, Goto
    <1>6. "lost" \in Places
        BY DEF Places
    <1>7. /\ s \in RunType
          /\ s.pc = "lost"
          /\ s.state = run[n].state /\ s.err = run[n].err /\ s.cause = run[n].cause /\ s.event = run[n].event /\ s.verdict = run[n].verdict
        BY <1>2, <1>6, Zenon DEF RunType
    <1> HIDE DEF s
    <1>8. Fits(s, n, BudgetInEnvelope, BudgetAtReject)
        BY <1>2, <1>7, SMT DEF Fits, Proper, Silent, Fresh, Working
    <1>9. wstate[worker[n]] # "up"
        BY Zenon DEF Drop
    <1> QED BY <1>1, <1>2, <1>5, <1>7, <1>8, <1>9, Quietly DEF IInv

LEMMA RefuseIsLocal ==
    ASSUME IInv, NEW n \in Deliveries, NEW e \in Errors, Refuse(n, e)
    PROVE  LocalStep(n)
    <1> DEFINE s == [run[n] EXCEPT !.pc = "finish", !.err = e, !.cause = e]
    <1>1. run[n].pc = "gate" /\ UNCHANGED <<taskMax, broker, wstate, history>>
        BY Zenon DEF Refuse
    <1>2. /\ run[n] \in RunType
          /\ Silent(run[n]) /\ Fresh(run[n])
          /\ run[n].pc \in InProgress \union {"buffered"}
          /\ n \notin records
        BY <1>1, BeforeReturn
    <1>3. run[n].state = "running"
        BY <1>1, BeforeReturn
    <1>5. Becomes(n, s)
        BY Zenon DEF Refuse, Fail
    <1>6. "finish" \in Places
        BY DEF Places, InProgress
    <1>7. /\ s \in RunType
          /\ s.pc = "finish" /\ s.err = e /\ s.cause = e
          /\ s.state = run[n].state /\ s.event = run[n].event /\ s.verdict = run[n].verdict
        BY <1>2, <1>6, Zenon DEF RunType
    <1> HIDE DEF s
    <1>8. Fits(s, n, BudgetInEnvelope, BudgetAtReject)
        BY <1>2, <1>3, <1>7, SMT DEF Fits, Proper, Silent, Fresh, Working
    <1> QED BY <1>1, <1>2, <1>5, <1>7, <1>8, Quietly DEF IInv

LEMMA EnterIsLocal ==
    ASSUME IInv, NEW n \in Deliveries, Enter(n)
    PROVE  LocalStep(n)
    <1> DEFINE s == [run[n] EXCEPT !.pc = "handler"]
    <1>1. run[n].pc = "gate" /\ UNCHANGED <<taskMax, broker, wstate, history>>
        BY Zenon DEF Enter
    <1>2. /\ run[n] \in RunType
          /\ Silent(run[n]) /\ Fresh(run[n])
          /\ run[n].pc \in InProgress \union {"buffered"}
          /\ n \notin records
        BY <1>1, BeforeReturn
    <1>3. run[n].state = "running"
        BY <1>1, BeforeReturn
    <1>5. Becomes(n, s)
        BY Zenon DEF Enter, Goto
    <1>6. "handler" \in Places
        BY DEF Places, InProgress
    <1>7. /\ s \in RunType
          /\ s.pc = "handler"
          /\ s.state = run[n].state /\ s.err = run[n].err /\ s.cause = run[n].cause /\ s.event = run[n].event /\ s.verdict = run[n].verdict
        BY <1>2, <1>6, Zenon DEF RunType
    <1> HIDE DEF s
    <1>8. Fits(s, n, BudgetInEnvelope, BudgetAtReject)
        BY <1>2, <1>3, <1>7, SMT DEF Fits, Proper, Silent, Fresh, Working
    <1> QED BY <1>1, <1>2, <1>5, <1>7, <1>8, Quietly DEF IInv

LEMMA ReturnIsLocal ==
    ASSUME IInv, NEW n \in Deliveries, NEW e \in Errors, Return(n, e)
    PROVE  LocalStep(n)
    <1> DEFINE s == [run[n] EXCEPT !.pc = "deadletter", !.err = e, !.cause = e]
    <1>1. run[n].pc = "handler" /\ UNCHANGED <<taskMax, broker, wstate, history>>
        BY Zenon DEF Return
    <1>2. /\ run[n] \in RunType
          /\ Silent(run[n]) /\ Fresh(run[n])
          /\ run[n].pc \in InProgress \union {"buffered"}
          /\ n \notin records
        BY <1>1, BeforeReturn
    <1>3. run[n].state = "running"
        BY <1>1, BeforeReturn
    <1>5. Becomes(n, s)
        BY Zenon DEF Return, Fail
    <1>6. "deadletter" \in Places
        BY DEF Places, InProgress
    <1>7. /\ s \in RunType
          /\ s.pc = "deadletter" /\ s.err = e /\ s.cause = e
          /\ s.state = run[n].state /\ s.event = run[n].event /\ s.verdict = run[n].verdict
        BY <1>2, <1>6, Zenon DEF RunType
    <1> HIDE DEF s
    <1>8. Fits(s, n, BudgetInEnvelope, BudgetAtReject)
        BY <1>2, <1>3, <1>7, SMT DEF Fits, Proper, Silent, Fresh, Working
    <1> QED BY <1>1, <1>2, <1>5, <1>7, <1>8, Quietly DEF IInv

LEMMA PanicIsLocal ==
    ASSUME IInv, NEW n \in Deliveries, Panic(n)
    PROVE  LocalStep(n)
    <1> DEFINE s == [run[n] EXCEPT !.pc = "finish", !.err = "plain", !.cause = "plain"]
    <1>1. run[n].pc = "handler" /\ UNCHANGED <<taskMax, broker, wstate, history>>
        BY Zenon DEF Panic
    <1>2. /\ run[n] \in RunType
          /\ Silent(run[n]) /\ Fresh(run[n])
          /\ run[n].pc \in InProgress \union {"buffered"}
          /\ n \notin records
        BY <1>1, BeforeReturn
    <1>3. run[n].state = "running"
        BY <1>1, BeforeReturn
    <1>5. Becomes(n, s)
        BY Zenon DEF Panic, Fail
    <1>6. "finish" \in Places /\ "plain" \in Errors
        BY DEF Places, InProgress, Errors
    <1>7. /\ s \in RunType
          /\ s.pc = "finish" /\ s.err = "plain" /\ s.cause = "plain"
          /\ s.state = run[n].state /\ s.event = run[n].event /\ s.verdict = run[n].verdict
        BY <1>2, <1>6, Zenon DEF RunType
    <1> HIDE DEF s
    <1>8. Fits(s, n, BudgetInEnvelope, BudgetAtReject)
        BY <1>2, <1>3, <1>7, SMT DEF Fits, Proper, Silent, Fresh, Working
    <1> QED BY <1>1, <1>2, <1>5, <1>7, <1>8, Quietly DEF IInv

\* Push was not asked for, or it failed; or it made the record.
LEMMA DeadLetterIsLocal ==
    ASSUME IInv, NEW n \in Deliveries, DeadLetter(n)
    PROVE  LocalStep(n)
    <1>1. /\ run[n].pc = "deadletter"
          /\ UNCHANGED <<taskMax, broker, wstate, timedOut, tardy, late>>
        BY Zenon DEF DeadLetter
    <1>2. /\ run[n] \in RunType
          /\ run[n] \in RunType /\ Silent(run[n]) /\ Working(run[n])
        <2>1. run[n] \in RunType /\ Proper(run[n], n - 1, BudgetInEnvelope)
            BY DEF IInv, TypeOK, RunsFit, Fits
        <2> QED BY <1>1, <2>1, Zenon DEF Proper
    <1>3. run[n].pc \in InProgress \union {"buffered"} /\ "retry" \in Places
        BY <1>1 DEF InProgress, Places
    <1>4. n \in Nat /\ (Exhausted(RetryCount(n), BudgetInEnvelope) <=> n - 1 >= BudgetInEnvelope)
        BY Budgets DEF IInv, TypeOK
    <1>5. CASE Goto(n, "retry") /\ records' = records
        <2> DEFINE s == [run[n] EXCEPT !.pc = "retry"]
        <2>1. Becomes(n, s)
            BY <1>5 DEF Goto
        <2>2. /\ s \in RunType
              /\ s.pc = "retry" /\ s.state = run[n].state
              /\ s.err = run[n].err /\ s.cause = run[n].cause
              /\ s.event = run[n].event /\ s.verdict = run[n].verdict
            BY <1>2, <1>3, Zenon DEF RunType
        <2> HIDE DEF s
        <2>3. Fits(s, n, BudgetInEnvelope, BudgetAtReject)
            BY <1>2, <2>2, SMT DEF Fits, Proper, Silent, Working
        <2>4. n \in records => RecordFits(s, n, BudgetInEnvelope)
            BY <2>2, Zenon DEF IInv, RecordsFit, RecordFits, CauseToDie
        <2>5. UNCHANGED <<taskMax, broker, wstate, history>>
            BY <1>1, <1>5 DEF history
        <2> QED BY <1>3, <2>1, <2>2, <2>3, <2>4, <2>5, Quietly DEF IInv
    <1>6. CASE /\ WantsRecord(run[n].err, RetryCount(n), BudgetInEnvelope)
               /\ records' = records \union {n}
               /\ Becomes(n, [Recorded(run[n]) EXCEPT !.pc = "retry"])
        <2> DEFINE s == [run[n] EXCEPT !.err = "deadletter", !.state = "deadletter", !.pc = "retry"]
        <2>1. MovedToDeadLetter(run[n].state) = "deadletter"
            BY <1>2, Transitions, Zenon DEF Working
        <2>2. Becomes(n, s)
            BY <1>6, <2>1, Zenon DEF Recorded
        <2>3. "deadletter" \in Errors /\ "deadletter" \in States
            BY DEF Errors, States
        <2>4. /\ s \in RunType
              /\ s.pc = "retry" /\ s.state = "deadletter"
              /\ s.err = "deadletter" /\ s.cause = run[n].cause
              /\ s.event = run[n].event /\ s.verdict = run[n].verdict
            BY <1>2, <1>3, <2>3, Zenon DEF RunType
        <2> HIDE DEF s
        <2>5. IsFatal(run[n].cause) \/ n - 1 >= BudgetInEnvelope
            BY <1>2, <1>4, <1>6, Zenon DEF WantsRecord, Working
        <2>6. RecordFits(s, n, BudgetInEnvelope)
            BY <2>4, <2>5, Zenon DEF RecordFits, CauseToDie
        <2>7. Fits(s, n, BudgetInEnvelope, BudgetAtReject)
            BY <1>2, <2>4, <2>5, SMT DEF Fits, Proper, Silent, Dead, CauseToDie
        <2>8. /\ run' \in [Deliveries -> RunType]
              /\ run'[n] = s
              /\ \A m \in Deliveries \ {n} : run'[m] = run[m]
            BY <2>2, <2>4, Becoming DEF IInv
        <2>9. s.pc \notin {"none", "done", "lost"}
            BY <2>4
        <2>10. records \subseteq records' /\ records' \subseteq records \union {n}
            BY <1>6
        <2> QED BY <1>1, <1>3, <2>6, <2>7, <2>8, <2>9, <2>10, Zenon DEF LocalStep
    <1> QED BY <1>5, <1>6, Zenon DEF DeadLetter

LEMMA RetryIsLocal ==
    ASSUME IInv, NEW n \in Deliveries, NEW again \in BOOLEAN, Retry(n, again)
    PROVE  LocalStep(n)
    <1> DEFINE t == Retried(run[n], RetryCount(n), BudgetInEnvelope, again)
               s == [t EXCEPT !.pc = "finish"]
    <1>1. /\ run[n].pc = "retry"
          /\ UNCHANGED <<taskMax, broker, wstate, history>>
          /\ Becomes(n, s)
        BY Zenon DEF Retry
    <1>2. run[n] \in RunType /\ Silent(run[n])
          /\ (Working(run[n]) \/ Dead(run[n], n - 1, BudgetInEnvelope))
        <2>1. run[n] \in RunType /\ Proper(run[n], n - 1, BudgetInEnvelope)
            BY DEF IInv, TypeOK, RunsFit, Fits
        <2> QED BY <1>1, <2>1, Zenon DEF Proper
    <1>3. run[n].pc \in InProgress \union {"buffered"} /\ "finish" \in Places
        BY <1>1 DEF InProgress, Places
    <1>4. n - 1 \in Nat /\ BudgetInEnvelope \in Nat
        <2>1. n \in Nat /\ n >= 1 /\ BudgetInEnvelope \in Nat
            BY Budgets DEF IInv, TypeOK
        <2> QED BY <2>1, SMT
    <1>5. RetriedTo(run[n], n - 1, BudgetInEnvelope, again, t)
        BY Zenon DEF RetriedTo, RetryCount
    <1> HIDE DEF t
    <1>6. /\ t \in RunType
          /\ Silent(t)
          /\ Working(t) \/ PutUp(t, n - 1, BudgetInEnvelope) \/ Dead(t, n - 1, BudgetInEnvelope)
          /\ t.cause = run[n].cause
          /\ run[n].err = "deadletter" => t.err = "deadletter"
        BY <1>2, <1>4, <1>5, AfterRetry, SMTT(30)
    <1>7. /\ s \in RunType
          /\ s.pc = "finish" /\ s.state = t.state /\ s.err = t.err /\ s.cause = t.cause
          /\ s.event = t.event /\ s.verdict = t.verdict
        BY <1>3, <1>6, Zenon DEF RunType
    <1> HIDE DEF s
    <1>8. Fits(s, n, BudgetInEnvelope, BudgetAtReject)
        BY <1>6, <1>7, SMT DEF Fits, Proper, Silent, Working, PutUp, Dead, CauseToDie
    <1>9. n \in records => RecordFits(s, n, BudgetInEnvelope)
        BY <1>6, <1>7, Zenon DEF IInv, RecordsFit, RecordFits, CauseToDie
    <1> QED BY <1>1, <1>3, <1>7, <1>8, <1>9, Quietly DEF IInv

LEMMA FinishIsLocal ==
    ASSUME IInv, NEW n \in Deliveries, Finish(n)
    PROVE  LocalStep(n)
    <1> DEFINE t == Finished(run[n], RetryCount(n), BudgetInEnvelope)
               s == [t EXCEPT !.pc = "settle"]
    <1>1. /\ run[n].pc = "finish"
          /\ UNCHANGED <<taskMax, broker, wstate, history>>
          /\ Becomes(n, s)
        BY Zenon DEF Finish
    <1>2. /\ run[n] \in RunType /\ Silent(run[n])
          /\ \/ Working(run[n])
             \/ PutUp(run[n], n - 1, BudgetInEnvelope)
             \/ Dead(run[n], n - 1, BudgetInEnvelope)
        <2>1. run[n] \in RunType /\ Proper(run[n], n - 1, BudgetInEnvelope)
            BY DEF IInv, TypeOK, RunsFit, Fits
        <2> QED BY <1>1, <2>1, Zenon DEF Proper
    <1>3. run[n].pc \in InProgress \union {"buffered"} /\ "settle" \in Places
        BY <1>1 DEF InProgress, Places
    <1>4. n - 1 \in Nat /\ BudgetInEnvelope \in Nat
        <2>1. n \in Nat /\ n >= 1 /\ BudgetInEnvelope \in Nat
            BY Budgets DEF IInv, TypeOK
        <2> QED BY <2>1, SMT
    <1>5. FinishedTo(run[n], n - 1, BudgetInEnvelope, t)
        BY Zenon DEF FinishedTo, RetryCount
    <1> HIDE DEF t
    <1>6. /\ t \in RunType
          /\ t.verdict = "none"
          /\ Announced(t, n - 1, BudgetInEnvelope)
          /\ t.cause = run[n].cause
          /\ t.err = run[n].err
        BY <1>2, <1>4, <1>5, AfterFinish, SMTT(30)
    <1>7. /\ s \in RunType
          /\ s.pc = "settle" /\ s.state = t.state /\ s.err = t.err /\ s.cause = t.cause
          /\ s.event = t.event /\ s.verdict = t.verdict
        BY <1>3, <1>6, Zenon DEF RunType
    <1> HIDE DEF s
    <1>8. Fits(s, n, BudgetInEnvelope, BudgetAtReject)
        BY <1>6, <1>7, SMT DEF Fits, Proper, Announced, CauseToDie
    <1>9. n \in records => RecordFits(s, n, BudgetInEnvelope)
        BY <1>6, <1>7, Zenon DEF IInv, RecordsFit, RecordFits, CauseToDie
    <1> QED BY <1>1, <1>3, <1>7, <1>8, <1>9, Quietly DEF IInv

\* A verdict comes with the end of a run, and a run at work has none.
LEMMA Unjudged ==
    ASSUME NEW r, NEW k, NEW B, NEW C, Fits(r, k, B, C), r.pc # "done"
    PROVE  r.verdict = "none"
    BY Zenon DEF Fits, Proper

\* The budgets are fixed.
LEMMA SameBudgets ==
    ASSUME taskMax' = taskMax
    PROVE  BudgetInEnvelope' = BudgetInEnvelope /\ BudgetAtReject' = BudgetAtReject
    BY Zenon DEF BudgetInEnvelope, BudgetAtReject

\* The steps of a run preserve the invariant.
LEMMA LocalStepIInv ==
    ASSUME IInv, NEW n \in Deliveries, LocalStep(n)
    PROVE  IInv'
    <1> DEFINE B == BudgetInEnvelope
               C == BudgetAtReject
    <1>0. /\ TypeOK /\ RunsFit /\ RecordsFit /\ Ledger /\ Chain /\ Calm /\ Told /\ Accounted
        BY DEF IInv
    <1>1. /\ run[n].pc \in InProgress \union {"buffered"}
          /\ run' \in [Deliveries -> RunType]
          /\ \A m \in Deliveries \ {n} : run'[m] = run[m]
          /\ Fits(run'[n], n, B, C)
          /\ run'[n].pc \notin {"none", "done"}
          /\ run'[n].pc = "lost" => wstate[worker[n]] # "up"
        BY DEF LocalStep
    <1>2. /\ taskMax' = taskMax /\ phase' = phase /\ delivered' = delivered
          /\ worker' = worker /\ expiries' = expiries /\ wstate' = wstate
          /\ timedOut' = timedOut /\ late' = late /\ tardy' \subseteq tardy \union {n}
        BY DEF LocalStep, broker
    <1>3. /\ records \subseteq records' /\ records' \subseteq records \union {n}
          /\ n \in records' => RecordFits(run'[n], n, B)
        BY DEF LocalStep
    <1>4. run[n].pc \notin {"none", "done", "lost"}
        BY <1>1 DEF InProgress
    <1>5. n \in 1 .. delivered /\ ~(n > delivered)
        <2>1. n \in 1 .. delivered
            BY <1>0, <1>4, UnderWay
        <2> QED BY <1>0, <2>1, SMT DEF TypeOK
    <1>6. run[n].verdict = "none" /\ run'[n].verdict = "none"
        <2>1. Fits(run[n], n, B, C)
            BY <1>0 DEF RunsFit
        <2> QED BY <1>1, <1>4, <2>1, Unjudged
    <1>7. B' = B /\ C' = C
        BY <1>2, SameBudgets
    <1> HIDE DEF B, C
    <1>8. \A m \in Deliveries : run'[m].verdict = run[m].verdict /\ (Nakked(run[m]) => Nakked(run'[m]))
        BY <1>1, <1>4, <1>6, Zenon DEF Nakked
    <1>9. TypeOK'
        <2>1. \A m \in Deliveries : m > delivered => run'[m] = Unused
            BY <1>0, <1>1, <1>5, Zenon DEF TypeOK
        <2>2. records' \subseteq 1 .. delivered /\ tardy' \subseteq 1 .. delivered
            BY <1>0, <1>2, <1>3, <1>5, Zenon DEF TypeOK
        <2> QED BY <1>0, <1>1, <1>2, <2>1, <2>2, Zenon DEF TypeOK
    <1>10. RunsFit'
        <2>1. \A m \in Deliveries : Fits(run'[m], m, B, C)
            BY <1>0, <1>1, Zenon DEF RunsFit, B, C
        <2> QED BY <1>7, <2>1, Zenon DEF RunsFit, B, C
    <1>11. RecordsFit'
        <2>1. \A m \in records' : RecordFits(run'[m], m, B)
            <3>1. \A m \in records' : m = n \/ (m \in records /\ m \in Deliveries)
                BY <1>0, <1>3, DeliveryAssumption, SMT DEF TypeOK, Deliveries
            <3> QED BY <1>0, <1>1, <1>3, <3>1, Zenon DEF RecordsFit, B
        <2> QED BY <1>7, <2>1, Zenon DEF RecordsFit, B
    <1>12. Ledger'
        BY <1>0, <1>2, Zenon DEF Ledger
    <1>13. Chain'
        <2>1. \A m \in 1 .. delivered : m \in Deliveries
            BY <1>0, DeliveryAssumption, SMT DEF TypeOK, Deliveries
        <2> QED BY <1>0, <1>2, <1>8, <2>1, Zenon DEF Chain
    <1>14. Calm'
        <2> SUFFICES ASSUME ~ExcusedOverlap'
                     PROVE  /\ expiries = 0
                            /\ phase = "pending" => run'[delivered].pc \in InProgress \union {"buffered"}
                            /\ phase \in {"acked", "termed"} => run'[delivered].pc = "done"
            BY <1>2, Zenon DEF Calm
        <2>1. ~ExcusedOverlap
            BY <1>2, Zenon DEF ExcusedOverlap
        <2>2. /\ expiries = 0
              /\ phase = "pending" => run[delivered].pc \in InProgress \union {"buffered"}
              /\ phase \in {"acked", "termed"} => run[delivered].pc = "done"
            BY <1>0, <2>1 DEF Calm
        <2>3. delivered \in Deliveries
            BY <1>0, <1>5, DeliveryAssumption, SMT DEF TypeOK, Deliveries
        <2>4. run'[n].pc # "lost"
            <3>1. worker[n] \in Workers
                BY <1>0 DEF TypeOK
            <3> QED BY <1>1, <2>1, <3>1, Zenon DEF ExcusedOverlap
        <2>5. run'[n].pc \in InProgress \union {"buffered"}
            <3>1. run'[n].pc \in Places
                BY <1>1, Zenon DEF RunType
            <3> QED BY <1>1, <2>4, <3>1, Zenon DEF Places
        <2> QED BY <1>1, <1>4, <2>2, <2>3, <2>5, Zenon
    <1>15. Told'
        BY <1>0, <1>2, <1>8, Zenon DEF Told
    <1>16. Accounted'
        <2>1. Naks' = Naks
            BY <1>8, Zenon DEF Naks
        <2> QED BY <1>0, <1>2, <2>1, Zenon DEF Accounted, Owed
    <1> QED BY <1>9, <1>10, <1>11, <1>12, <1>13, <1>14, <1>15, <1>16 DEF IInv

-----------------------------------------------------------------------------
(* The steps of the broker.                                                *)

LEMMA NaksAreFew ==
    /\ IsFiniteSet(Naks)
    /\ Cardinality(Naks) \in Nat
    <1>1. IsFiniteSet(1 .. MaxDeliver)
        BY DeliveryAssumption, FS_Interval, SMT
    <1>2. Naks \subseteq 1 .. MaxDeliver
        BY DEF Naks, Deliveries
    <1>3. IsFiniteSet(Naks)
        BY <1>1, <1>2, FS_Subset
    <1> QED BY <1>3, FS_CardinalityType

\* What a step leaves alone as long as it leaves the runs alone.
LEMMA SameRuns ==
    ASSUME IInv, UNCHANGED <<taskMax, run, records>>
    PROVE  /\ RunsFit' /\ RecordsFit'
           /\ Naks' = Naks
    <1>1. BudgetInEnvelope' = BudgetInEnvelope /\ BudgetAtReject' = BudgetAtReject
        BY SameBudgets
    <1>2. RunsFit'
        BY <1>1, Zenon DEF IInv, RunsFit
    <1>3. RecordsFit'
        BY <1>1, Zenon DEF IInv, RecordsFit
    <1>4. Naks' = Naks
        BY Zenon DEF Naks
    <1> QED BY <1>2, <1>3, <1>4

LEMMA DeliverIInv ==
    ASSUME IInv, NEW w \in Workers, Deliver(w)
    PROVE  IInv'
    <1> DEFINE B == BudgetInEnvelope
               C == BudgetAtReject
               d == delivered + 1
               new == [Unused EXCEPT !.pc = "buffered"]
    <1>0. /\ TypeOK /\ RunsFit /\ RecordsFit /\ Ledger /\ Chain /\ Calm /\ Told /\ Accounted
        BY DEF IInv
    <1>1. /\ phase = "ready" /\ phase' = "pending" /\ delivered' = d
          /\ worker' = [worker EXCEPT ![d] = w]
          /\ run' = [run EXCEPT ![d] = new]
          /\ wstate' = [wstate EXCEPT ![w] = IF @ = "leaving" THEN "stopping" ELSE @]
          /\ taskMax' = taskMax /\ expiries' = expiries
          /\ timedOut' = timedOut /\ tardy' = {} /\ late' = late /\ records' = records
        BY Zenon DEF Deliver
    <1>2. PICK D \in Nat : D = delivered
        BY <1>0, DeliveryAssumption, SMT DEF TypeOK
    <1>3. D < MaxDeliver
        BY <1>0, <1>1, <1>2, Zenon DEF Ledger
    <1>4. /\ d \in Deliveries /\ d > delivered /\ d \in 0 .. MaxDeliver /\ d >= 1
          /\ 1 .. delivered \subseteq 1 .. d
          /\ 0 .. delivered \subseteq 0 .. d
          /\ d \notin 1 .. delivered
          /\ \A m \in 1 .. d : m < d => m \in 1 .. delivered
          /\ \A m \in Deliveries : m > d => m > delivered /\ m # d
          /\ 1 .. delivered \subseteq Deliveries
        BY <1>2, <1>3, DeliveryAssumption, SMT DEF Deliveries
    <1>5. run[d] = Unused
        BY <1>0, <1>4 DEF TypeOK
    <1>6. Unused \in RunType
        BY Zenon DEF Unused, RunType, Places, Errors, States, Events, Verdicts
    <1>7. /\ new \in RunType /\ new.pc = "buffered"
          /\ new.state = Unused.state /\ new.err = "none" /\ new.cause = "none"
          /\ new.event = "none" /\ new.verdict = "none"
        <2>1. "buffered" \in Places
            BY DEF Places
        <2>2. /\ new \in RunType /\ new.pc = "buffered"
              /\ new.state = Unused.state /\ new.err = Unused.err /\ new.cause = Unused.cause
              /\ new.event = Unused.event /\ new.verdict = Unused.verdict
            BY <1>6, <2>1, Zenon DEF RunType
        <2> QED BY <2>2, Zenon DEF Unused
    <1>8. Unused.state = "" /\ Unused.verdict = "none"
        BY Zenon DEF Unused
    <1>9. Fits(new, d, B, C)
        BY <1>7, <1>8, Zenon DEF Fits, Proper, Silent, Fresh
    <1> HIDE DEF new
    <1>10. /\ run' \in [Deliveries -> RunType]
           /\ run'[d] = new
           /\ \A m \in Deliveries \ {d} : run'[m] = run[m]
        BY <1>0, <1>1, <1>4, <1>7, Zenon DEF TypeOK
    <1>11. B' = B /\ C' = C
        BY <1>1, SameBudgets
    <1> HIDE DEF B, C, d
    <1>12. \A m \in Deliveries : run'[m].verdict = run[m].verdict
        BY <1>5, <1>7, <1>8, <1>10, Zenon
    <1>13. TypeOK'
        <2>1. worker' \in [Deliveries -> Workers]
            BY <1>0, <1>1, Zenon DEF TypeOK
        <2>2. wstate' \in [Workers -> WorkerStates]
            <3>1. "stopping" \in WorkerStates
                BY DEF WorkerStates
            <3> QED BY <1>0, <1>1, <3>1, Zenon DEF TypeOK
        <2>3. \A m \in Deliveries : m > d => run'[m] = Unused
            BY <1>0, <1>4, <1>10, Zenon DEF TypeOK
        <2>4. phase' \in Phases
            BY <1>1 DEF Phases
        <2>5. timedOut \subseteq 1 .. d /\ {} \subseteq 1 .. d /\ late \subseteq 1 .. d /\ records \subseteq 1 .. d /\ expiries \in 0 .. d
            BY <1>0, <1>4, Zenon DEF TypeOK
        <2> QED BY <1>0, <1>1, <1>4, <1>10, <2>1, <2>2, <2>3, <2>4, <2>5, Zenon DEF TypeOK
    <1>14. RunsFit'
        <2>1. \A m \in Deliveries : Fits(run'[m], m, B, C)
            BY <1>0, <1>9, <1>10, Zenon DEF RunsFit, B, C
        <2> QED BY <1>11, <2>1, Zenon DEF RunsFit, B, C
    <1>15. RecordsFit'
        <2>1. \A m \in records : RecordFits(run'[m], m, B)
            BY <1>0, <1>4, <1>10, Zenon DEF RecordsFit, TypeOK, B
        <2> QED BY <1>1, <1>11, <2>1, Zenon DEF RecordsFit, B
    <1>16. Ledger'
        <2>1. expiries < d
            BY <1>0, <1>2, <1>4, SMT DEF TypeOK, d
        <2> QED BY <1>1, <1>4, <2>1, Zenon DEF Ledger
    <1>17. Chain'
        <2> SUFFICES ASSUME expiries = 0, NEW m \in 1 .. d, m < d
                     PROVE  Nakked(run'[m])
            BY <1>1, Zenon DEF Chain
        <2>1. Nakked(run[m])
            BY <1>0, <1>1, <1>4 DEF Chain
        <2> QED BY <1>4, <1>10, <2>1, Zenon
    <1>18. Calm'
        <2> SUFFICES ASSUME ~ExcusedOverlap'
                     PROVE  expiries = 0 /\ run'[d].pc = "buffered"
            BY <1>1, Zenon DEF Calm
        <2>1. ~ExcusedOverlap
            BY <1>0, <1>1, Zenon DEF ExcusedOverlap, TypeOK
        <2> QED BY <1>0, <1>7, <1>10, <2>1, Zenon DEF Calm
    <1>19. Told'
        BY <1>1, Zenon DEF Told
    <1>20. Accounted'
        <2>1. Naks' = Naks
            BY <1>12, Zenon DEF Naks
        <2>2. PICK k \in Nat : k = Cardinality(Naks)
            BY NaksAreFew
        <2>3. delivered + 1 <= 1 + expiries + k
            BY <1>0, <1>1, <2>2, Zenon DEF Accounted, Owed
        <2>4. d + 0 <= 1 + expiries + k
            BY <1>0, <1>2, <2>3, SMT DEF d, TypeOK
        <2> QED BY <1>1, <2>1, <2>2, <2>4, Zenon DEF Accounted, Owed
    <1> QED BY <1>13, <1>14, <1>15, <1>16, <1>17, <1>18, <1>19, <1>20 DEF IInv

LEMMA ExpireIInv ==
    ASSUME IInv, Expire
    PROVE  IInv'
    <1>0. /\ TypeOK /\ RunsFit /\ RecordsFit /\ Ledger /\ Chain /\ Calm /\ Told /\ Accounted
        BY DEF IInv
    <1>1. /\ phase = "pending" /\ phase' = MayDeliverAgain /\ expiries' = expiries + 1
          /\ late' = late \union {n \in Deliveries :
                                    \/ run[n].pc = "buffered"
                                    \/ run[n].pc \in InProgress /\ n \in tardy}
          /\ taskMax' = taskMax /\ delivered' = delivered /\ worker' = worker
          /\ run' = run /\ wstate' = wstate
          /\ timedOut' = timedOut /\ tardy' = {} /\ records' = records
          /\ \A n \in Deliveries : ~Alive(n)
        BY Zenon DEF Expire
    <1>2. RunsFit' /\ RecordsFit' /\ Naks' = Naks
        BY <1>1, SameRuns
    <1>3. /\ delivered \in Nat /\ expiries \in Nat /\ expiries < delivered /\ delivered >= 1
          /\ delivered <= MaxDeliver
        BY <1>0, <1>1, DeliveryAssumption, SMT DEF TypeOK, Ledger
    <1>4. phase' = IF delivered < MaxDeliver THEN "ready" ELSE "spent"
        BY <1>1 DEF MayDeliverAgain
    <1>5. TypeOK'
        <2>1. phase' \in Phases
            BY <1>4 DEF Phases
        <2>2. expiries' \in 0 .. delivered
            BY <1>1, <1>3, SMT
        <2>3. late' \subseteq 1 .. delivered
            <3>1. \A n \in Deliveries :
                     run[n].pc = "buffered" \/ run[n].pc \in InProgress => n \in 1 .. delivered
                BY <1>0, UnderWay DEF InProgress
            <3> QED BY <1>0, <1>1, <3>1, Zenon DEF TypeOK
        <2> QED BY <1>0, <1>1, <2>1, <2>2, <2>3, Zenon DEF TypeOK
    <1>6. Ledger'
        BY <1>1, <1>3, <1>4, DeliveryAssumption, SMT DEF Ledger
    <1>7. Chain'
        BY <1>1, <1>3, SMT DEF Chain
    <1>8. Calm'
        <2>1. ExcusedOverlap'
            <3> SUFFICES ASSUME ~ExcusedOverlap'
                         PROVE  FALSE
                OBVIOUS
            <3>1. ~ExcusedOverlap
                BY <1>1, Zenon DEF ExcusedOverlap
            <3>2. delivered \in Deliveries
                BY <1>3, DeliveryAssumption, SMT DEF Deliveries
            <3>3. run[delivered].pc \in InProgress \union {"buffered"}
                BY <1>0, <1>1, <3>1 DEF Calm
            <3>4. run[delivered].pc # "buffered" /\ delivered \notin tardy
                BY <1>1, <3>2, <3>3, Zenon DEF ExcusedOverlap
            <3>5. worker[delivered] \in Workers
                BY <1>0, <3>2, Zenon DEF TypeOK
            <3>6. Alive(delivered)
                BY <3>1, <3>2, <3>3, <3>4, <3>5, Zenon DEF ExcusedOverlap, Alive
            <3> QED BY <1>1, <3>2, <3>6
        <2> QED BY <2>1 DEF Calm
    <1>9. Told'
        BY <1>4, Zenon DEF Told
    <1>10. Accounted'
        <2>1. PICK k \in Nat : k = Cardinality(Naks)
            BY NaksAreFew
        <2>2. delivered + 0 <= 1 + expiries + k
            BY <1>0, <1>1, <2>1, Zenon DEF Accounted, Owed
        <2>3. PICK o \in {0, 1} : o = Owed'
            BY DEF Owed
        <2>4. delivered + o <= 1 + (expiries + 1) + k
            BY <1>3, <2>2, SMT
        <2> QED BY <1>1, <1>2, <2>1, <2>3, <2>4, Zenon DEF Accounted
    <1> QED BY <1>2, <1>5, <1>6, <1>7, <1>8, <1>9, <1>10 DEF IInv

LEMMA DelayOverIInv ==
    ASSUME IInv, DelayOver
    PROVE  IInv'
    <1>0. /\ TypeOK /\ RunsFit /\ RecordsFit /\ Ledger /\ Chain /\ Calm /\ Told /\ Accounted
        BY DEF IInv
    <1>1. /\ phase = "delayed" /\ phase' = MayDeliverAgain /\ expiries' = expiries
          /\ taskMax' = taskMax /\ delivered' = delivered /\ worker' = worker
          /\ run' = run /\ wstate' = wstate
          /\ timedOut' = timedOut /\ tardy' = tardy /\ late' = late /\ records' = records
        BY Zenon DEF DelayOver, history
    <1>2. RunsFit' /\ RecordsFit' /\ Naks' = Naks
        BY <1>1, SameRuns
    <1>3. delivered \in Nat /\ delivered >= 1 /\ delivered <= MaxDeliver
        BY <1>0, <1>1, DeliveryAssumption, SMT DEF TypeOK, Ledger
    <1>4. phase' = IF delivered < MaxDeliver THEN "ready" ELSE "spent"
        BY <1>1 DEF MayDeliverAgain
    <1>5. TypeOK'
        <2>1. phase' \in Phases
            BY <1>4 DEF Phases
        <2> QED BY <1>0, <1>1, <2>1, Zenon DEF TypeOK
    <1>6. Ledger'
        BY <1>1, <1>3, <1>4, DeliveryAssumption, SMT DEF Ledger
    <1>7. Chain'
        BY <1>0, <1>1, <1>4, Zenon DEF Chain
    <1>8. Calm'
        <2>1. ExcusedOverlap' <=> ExcusedOverlap
            BY <1>1, Zenon DEF ExcusedOverlap
        <2> QED BY <1>0, <1>1, <1>4, <2>1, Zenon DEF Calm
    <1>9. Told'
        BY <1>4, Zenon DEF Told
    <1>10. Accounted'
        <2>1. PICK k \in Nat : k = Cardinality(Naks)
            BY NaksAreFew
        <2>2. delivered + 1 <= 1 + expiries + k /\ expiries \in Nat
            <3>1. delivered + 1 <= 1 + expiries + k
                BY <1>0, <1>1, <2>1, Zenon DEF Accounted, Owed
            <3> QED BY <1>0, <3>1, SMT DEF TypeOK
        <2>3. PICK o \in {0, 1} : o = Owed'
            BY DEF Owed
        <2>4. delivered + o <= 1 + expiries + k
            BY <1>3, <2>2, SMT
        <2> QED BY <1>1, <1>2, <2>1, <2>3, <2>4, Zenon DEF Accounted
    <1> QED BY <1>2, <1>5, <1>6, <1>7, <1>8, <1>9, <1>10 DEF IInv

-----------------------------------------------------------------------------
(* A run is over.                                                          *)

LEMMA SettleIInv ==
    ASSUME IInv, NEW n \in Deliveries, Settle(n)
    PROVE  IInv'
    <1> DEFINE B == BudgetInEnvelope
               C == BudgetAtReject
               v == VerdictOn(n)
               s == [run[n] EXCEPT !.pc = "done", !.verdict = v]
    <1>0. /\ TypeOK /\ RunsFit /\ RecordsFit /\ Ledger /\ Chain /\ Calm /\ Told /\ Accounted
        BY DEF IInv
    <1>1. /\ run[n].pc = "settle" /\ Becomes(n, s)
          /\ phase' = IF wstate[worker[n]] = "closed" THEN phase ELSE After(v)
          /\ taskMax' = taskMax /\ delivered' = delivered /\ worker' = worker
          /\ expiries' = expiries /\ wstate' = wstate
          /\ timedOut' = timedOut /\ late' = late /\ records' = records
          /\ tardy' = tardy \ {n}
        BY Zenon DEF Settle
    <1>2. n \in 1 .. delivered
        <2>1. run[n].pc # "none"
            BY <1>1
        <2> QED BY <1>0, <2>1, UnderWay
    <1>3. /\ n \in Nat /\ delivered \in Nat /\ n <= delivered /\ delivered >= 1 /\ expiries \in Nat
          /\ delivered \in Deliveries /\ ~(n > delivered) /\ (n < delivered \/ n = delivered)
          /\ 1 .. delivered \subseteq Deliveries
        BY <1>0, <1>2, DeliveryAssumption, SMT DEF TypeOK, Deliveries
    <1>4. run[n] \in RunType /\ Fits(run[n], n, B, C)
        BY <1>0 DEF TypeOK, RunsFit
    <1>5. run[n].verdict = "none"
        <2>1. run[n].pc # "done"
            BY <1>1
        <2> QED BY <1>4, <2>1, Unjudged
    <1>6. v = VerdictOf(run[n], n, C)
        <2>1. OutOfBudget(n) <=> n - 1 >= C
            BY <1>0, Budgets DEF TypeOK
        <2> QED BY <2>1, Zenon DEF VerdictOn, VerdictOf
    <1>7. v \in {"ack", "nak", "term"}
        BY DEF VerdictOn
    <1>8. /\ s \in RunType /\ s.pc = "done" /\ s.verdict = v
          /\ s.state = run[n].state /\ s.err = run[n].err /\ s.cause = run[n].cause
          /\ s.event = run[n].event
        <2>1. "done" \in Places /\ v \in Verdicts
            BY <1>7 DEF Places, Verdicts
        <2> QED BY <1>4, <2>1, Zenon DEF RunType
    <1> HIDE DEF s, v
    <1>9. /\ run' \in [Deliveries -> RunType]
          /\ run'[n] = s
          /\ \A m \in Deliveries \ {n} : run'[m] = run[m]
        BY <1>0, <1>1, <1>8, Becoming
    <1>10. Fits(s, n, B, C)
        <2>1. v = VerdictOf(s, n, C)
            BY <1>6, <1>8, Zenon DEF VerdictOf
        <2>2. Announced(run[n], n - 1, B)
            BY <1>1, <1>4, Zenon DEF Fits, Proper
        <2>3. Announced(s, n - 1, B)
            BY <1>8, <2>2, Zenon DEF Announced, CauseToDie
        <2>4. s.event = "success" => s.err = "none"
            BY <2>3, Zenon DEF Announced
        <2> QED BY <1>8, <2>1, <2>3, <2>4, SMT DEF Fits, Proper
    <1>11. B' = B /\ C' = C
        BY <1>1, SameBudgets
    <1> HIDE DEF B, C
    <1>12. \A m \in Deliveries : Nakked(run[m]) => m # n /\ run'[m] = run[m]
        BY <1>1, <1>9, Zenon DEF Nakked
    <1>13. /\ phase' \in Phases
           /\ phase' = "ready" => phase = "ready"
           /\ phase' = "spent" => phase = "spent"
           /\ phase' = "pending" => phase = "pending"
           /\ phase' = "delayed" => phase = "delayed" \/ (phase = "pending" /\ v = "nak")
           /\ phase' = "acked" => phase = "acked" \/ v = "ack"
           /\ phase' = "termed" => phase = "termed" \/ v = "term"
        BY <1>0, <1>1, <1>7, SMT DEF TypeOK, Phases, After
    <1>14. expiries = 0 => n = delivered /\ phase \notin {"ready", "delayed", "spent"}
        BY <1>0, <1>2, <1>3, <1>12, Zenon DEF Chain
    <1>15. TypeOK'
        <2>1. \A m \in Deliveries : m > delivered => run'[m] = Unused
            BY <1>0, <1>3, <1>9, Zenon DEF TypeOK
        <2> QED BY <1>0, <1>1, <1>9, <1>13, <2>1, Zenon DEF TypeOK
    <1>16. RunsFit'
        <2>1. \A m \in Deliveries : Fits(run'[m], m, B, C)
            BY <1>0, <1>9, <1>10, Zenon DEF RunsFit, B, C
        <2> QED BY <1>11, <2>1, Zenon DEF RunsFit, B, C
    <1>17. RecordsFit'
        <2>1. \A m \in records : m \in Deliveries
            BY <1>0, <1>3, Zenon DEF TypeOK
        <2>2. \A m \in records : RecordFits(run'[m], m, B)
            BY <1>0, <1>8, <1>9, <2>1, Zenon DEF RecordsFit, RecordFits, CauseToDie, B
        <2> QED BY <1>1, <1>11, <2>2, Zenon DEF RecordsFit, B
    <1>18. Ledger'
        BY <1>0, <1>1, <1>3, <1>13, Zenon DEF Ledger
    <1>19. Chain'
        <2> SUFFICES ASSUME expiries = 0, NEW m \in 1 .. delivered,
                            m < delivered \/ phase' \in {"ready", "delayed", "spent"}
                     PROVE  Nakked(run'[m])
            BY <1>1, Zenon DEF Chain
        <2>1. CASE m < delivered
            <3>1. Nakked(run[m])
                BY <1>0, <2>1, Zenon DEF Chain
            <3> QED BY <1>3, <1>12, <3>1, Zenon
        <2>2. CASE ~(m < delivered)
            <3>1. m = delivered
                BY <1>3, <2>2, SMT
            <3>2. v = "nak"
                BY <1>13, <1>14, <2>2, Zenon
            <3> QED BY <1>8, <1>9, <1>14, <3>1, <3>2, Zenon DEF Nakked
        <2> QED BY <2>1, <2>2
    <1>20. Calm'
        <2> SUFFICES ASSUME ~ExcusedOverlap'
                     PROVE  expiries = 0 /\ phase' # "pending" /\ run'[delivered].pc = "done"
            BY <1>1, Zenon DEF Calm
        <2>1. ~ExcusedOverlap
            BY <1>1, Zenon DEF ExcusedOverlap
        <2>2. expiries = 0 /\ n = delivered /\ phase \notin {"ready", "delayed", "spent"}
            BY <1>0, <1>14, <2>1, Zenon DEF Calm
        <2>3. phase \notin {"acked", "termed"}
            BY <1>0, <1>1, <2>1, <2>2, Zenon DEF Calm
        <2>4. phase = "pending"
            BY <1>0, <2>2, <2>3, Zenon DEF TypeOK, Phases
        <2>5. wstate[worker[n]] = "up"
            <3>1. worker[n] \in Workers
                BY <1>0 DEF TypeOK
            <3> QED BY <2>1, <3>1, Zenon DEF ExcusedOverlap
        <2>6. phase' # "pending"
            BY <1>1, <1>7, <2>4, <2>5, SMT DEF After
        <2> QED BY <1>8, <1>9, <2>2, <2>6, Zenon
    <1>21. Told'
        BY <1>0, <1>5, <1>8, <1>9, <1>13, Zenon DEF Told
    <1>22. Accounted'
        <2>1. PICK k \in Nat : k = Cardinality(Naks)
            BY NaksAreFew
        <2>2. PICK o \in {0, 1} : o = Owed
            BY DEF Owed
        <2>3. PICK p \in {0, 1} : p = Owed'
            BY DEF Owed
        <2>4. delivered + o <= 1 + expiries + k
            BY <1>0, <2>1, <2>2, Zenon DEF Accounted
        <2>5. CASE v = "nak"
            <3>1. Naks' = Naks \union {n} /\ n \notin Naks
                BY <1>5, <1>8, <1>9, <2>5, Zenon DEF Naks
            <3>2. Cardinality(Naks') = k + 1
                BY <2>1, <3>1, NaksAreFew, FS_AddElement
            <3>3. delivered + p <= 1 + expiries + (k + 1)
                BY <1>3, <2>4, SMT
            <3> QED BY <1>1, <2>3, <3>2, <3>3, Zenon DEF Accounted
        <2>6. CASE v # "nak"
            <3>1. Naks' = Naks
                BY <1>5, <1>8, <1>9, <2>6, Zenon DEF Naks
            <3>2. p = 1 => o = 1
                BY <1>13, <2>2, <2>3, <2>6, SMT DEF Owed
            <3>3. delivered + p <= 1 + expiries + k
                BY <1>3, <2>4, <3>2, SMT
            <3> QED BY <1>1, <2>1, <2>3, <3>1, <3>3, Zenon DEF Accounted
        <2> QED BY <2>5, <2>6
    <1> QED BY <1>15, <1>16, <1>17, <1>18, <1>19, <1>20, <1>21, <1>22 DEF IInv

-----------------------------------------------------------------------------
(* Workers stop and die, time runs out.  Whatever happens then is an       *)
(* excuse for an overlap.                                                  *)

LEMMA MishapIInv ==
    ASSUME IInv,
           UNCHANGED <<taskMax, broker, tardy, late, records>>,
           run' \in [Deliveries -> RunType],
           \A n \in Deliveries :
              \/ run'[n] = run[n]
              \/ /\ run[n].pc \in InProgress \union {"buffered"}
                 /\ run'[n] = [run[n] EXCEPT !.pc = "lost"],
           wstate' \in [Workers -> WorkerStates],
           timedOut' \subseteq 1 .. delivered,
           ExcusedOverlap'
    PROVE  IInv'
    <1> DEFINE B == BudgetInEnvelope
               C == BudgetAtReject
    <1>0. /\ TypeOK /\ RunsFit /\ RecordsFit /\ Ledger /\ Chain /\ Calm /\ Told /\ Accounted
        BY DEF IInv
    <1>1. /\ taskMax' = taskMax /\ phase' = phase /\ delivered' = delivered
          /\ worker' = worker /\ expiries' = expiries
          /\ tardy' = tardy /\ late' = late /\ records' = records
        BY DEF broker
    <1>2. B' = B /\ C' = C
        BY <1>1, SameBudgets
    <1> HIDE DEF B, C
    <1>3. ASSUME NEW n \in Deliveries
          PROVE  /\ run'[n].verdict = run[n].verdict
                 /\ run'[n].err = run[n].err /\ run'[n].cause = run[n].cause
                 /\ Nakked(run[n]) => run'[n] = run[n]
                 /\ Fits(run'[n], n, B, C)
                 /\ run[n].pc = "none" => run'[n] = run[n]
        <2>1. Fits(run[n], n, B, C) /\ run[n] \in RunType
            BY <1>0, Zenon DEF RunsFit, TypeOK, B, C
        <2>2. CASE run'[n] = run[n]
            BY <2>1, <2>2, Zenon
        <2>3. CASE /\ run[n].pc \in InProgress \union {"buffered"}
                   /\ run'[n] = [run[n] EXCEPT !.pc = "lost"]
            <3> DEFINE s == [run[n] EXCEPT !.pc = "lost"]
            <3>1. "lost" \in Places /\ run[n].pc \notin {"none", "done"}
                BY <2>3 DEF Places, InProgress
            <3>2. /\ s.pc = "lost" /\ s.state = run[n].state /\ s.err = run[n].err /\ s.cause = run[n].cause
                  /\ s.event = run[n].event /\ s.verdict = run[n].verdict
                BY <2>1, <3>1, Zenon DEF RunType
            <3>3. run'[n] = s
                BY <2>3
            <3> HIDE DEF s
            <3>4. run[n].verdict = "none"
                BY <2>1, <3>1, Unjudged
            <3>5. Fits(s, n, B, C)
                BY <2>1, <3>2, <3>4, Zenon DEF Fits, Proper
            <3> QED BY <3>1, <3>2, <3>3, <3>5, Zenon DEF Nakked
        <2> QED BY <2>2, <2>3
    <1>4. 1 .. delivered \subseteq Deliveries
        BY <1>0, DeliveryAssumption, SMT DEF TypeOK, Deliveries
    <1>5. TypeOK'
        <2>1. Unused.pc = "none"
            BY DEF Unused
        <2>2. \A n \in Deliveries : n > delivered => run'[n] = Unused
            BY <1>0, <1>3, <2>1, Zenon DEF TypeOK
        <2> QED BY <1>0, <1>1, <2>2, Zenon DEF TypeOK
    <1>6. RunsFit'
        BY <1>2, <1>3, Zenon DEF RunsFit, B, C
    <1>7. RecordsFit'
        <2>1. \A n \in records : n \in Deliveries
            BY <1>0, <1>4, Zenon DEF TypeOK
        <2>2. \A n \in records : RecordFits(run'[n], n, B)
            BY <1>0, <1>3, <2>1, Zenon DEF RecordsFit, RecordFits, CauseToDie, B
        <2> QED BY <1>1, <1>2, <2>2, Zenon DEF RecordsFit, B
    <1>8. Ledger'
        BY <1>0, <1>1, Zenon DEF Ledger
    <1>9. Chain'
        BY <1>0, <1>1, <1>3, <1>4, Zenon DEF Chain
    <1>10. Calm'
        BY DEF Calm
    <1>11. Told'
        BY <1>0, <1>1, <1>3, Zenon DEF Told
    <1>12. Accounted'
        <2>1. Naks' = Naks
            BY <1>3, Zenon DEF Naks
        <2> QED BY <1>0, <1>1, <2>1, Zenon DEF Accounted, Owed
    <1> QED BY <1>5, <1>6, <1>7, <1>8, <1>9, <1>10, <1>11, <1>12 DEF IInv

LEMMA TimeOutIInv ==
    ASSUME IInv, NEW n \in Deliveries, TimeOut(n)
    PROVE  IInv'
    <1>1. /\ run[n].pc \in InProgress
          /\ timedOut' = timedOut \union {n}
          /\ UNCHANGED <<taskMax, broker, tardy, late, records>> /\ run' = run /\ wstate' = wstate
        BY Zenon DEF TimeOut
    <1>2. run[n].pc # "none"
        BY <1>1 DEF InProgress
    <1>3. n \in 1 .. delivered
        BY <1>2, UnderWay DEF IInv
    <1>4. timedOut' \subseteq 1 .. delivered
        BY <1>1, <1>3, Zenon DEF IInv, TypeOK
    <1>5. ExcusedOverlap'
        BY <1>1, Zenon DEF ExcusedOverlap
    <1>6. run' \in [Deliveries -> RunType] /\ wstate' \in [Workers -> WorkerStates]
        BY <1>1, Zenon DEF IInv, TypeOK
    <1>7. \A m \in Deliveries : run'[m] = run[m]
        BY <1>1
    <1> QED BY <1>1, <1>4, <1>5, <1>6, <1>7, MishapIInv

\* A worker that leaves "up" behind.
LEMMA LeavingIInv ==
    ASSUME IInv, NEW w \in Workers, NEW s \in WorkerStates \ {"up"},
           wstate' = [wstate EXCEPT ![w] = s],
           UNCHANGED <<taskMax, broker, run, history>>
    PROVE  IInv'
    <1>1. UNCHANGED <<taskMax, broker, tardy, late, records>> /\ run' = run /\ timedOut' = timedOut
        BY DEF history
    <1>2. wstate' \in [Workers -> WorkerStates] /\ wstate'[w] = s
        BY Zenon DEF IInv, TypeOK
    <1>3. ExcusedOverlap'
        BY <1>2, Zenon DEF ExcusedOverlap
    <1>4. run' \in [Deliveries -> RunType] /\ timedOut' \subseteq 1 .. delivered
        BY <1>1, Zenon DEF IInv, TypeOK
    <1>5. \A m \in Deliveries : run'[m] = run[m]
        BY <1>1
    <1> QED BY <1>1, <1>2, <1>3, <1>4, <1>5, MishapIInv

LEMMA TroubleIInv ==
    ASSUME IInv, NEW w \in Workers, Trouble(w)
    PROVE  IInv'
    <1>0. /\ "leaving" \in WorkerStates \ {"up"} /\ "stopping" \in WorkerStates \ {"up"}
          /\ "closed" \in WorkerStates \ {"up"} /\ "down" \in WorkerStates \ {"up"}
        BY DEF WorkerStates
    <1>1. CASE Stop(w)
        <2>1. \E s \in WorkerStates \ {"up"} : wstate' = [wstate EXCEPT ![w] = s]
            BY <1>0, <1>1, Zenon DEF Stop
        <2>2. UNCHANGED <<taskMax, broker, run, history>>
            BY <1>1, Zenon DEF Stop
        <2> QED BY <2>1, <2>2, LeavingIInv
    <1>2. CASE LoopExits(w)
        <2>1. \E s \in WorkerStates \ {"up"} : wstate' = [wstate EXCEPT ![w] = s]
            BY <1>0, <1>2, Zenon DEF LoopExits
        <2>2. UNCHANGED <<taskMax, broker, run, history>>
            BY <1>2, Zenon DEF LoopExits
        <2> QED BY <2>1, <2>2, LeavingIInv
    <1>3. CASE Close(w)
        <2>1. \E s \in WorkerStates \ {"up"} : wstate' = [wstate EXCEPT ![w] = s]
            BY <1>0, <1>3, Zenon DEF Close
        <2>2. UNCHANGED <<taskMax, broker, run, history>>
            BY <1>3, Zenon DEF Close
        <2> QED BY <2>1, <2>2, LeavingIInv
    <1>4. CASE Crash(w)
        <2>1. /\ wstate' = [wstate EXCEPT ![w] = "down"]
              /\ UNCHANGED <<taskMax, broker, tardy, late, records>> /\ timedOut' = timedOut
              /\ run' = [n \in Deliveries |->
                           IF worker[n] = w /\ run[n].pc \in InProgress \union {"buffered"}
                             THEN [run[n] EXCEPT !.pc = "lost"]
                             ELSE run[n]]
            BY <1>4, Zenon DEF Crash, history
        <2>2. wstate' \in [Workers -> WorkerStates] /\ wstate'[w] = "down"
            BY <1>0, <2>1, Zenon DEF IInv, TypeOK
        <2>3. ExcusedOverlap'
            BY <2>2, Zenon DEF ExcusedOverlap
        <2>4. run' \in [Deliveries -> RunType]
            <3>1. "lost" \in Places
                BY DEF Places
            <3>2. ASSUME NEW n \in Deliveries
                  PROVE  [run[n] EXCEPT !.pc = "lost"] \in RunType /\ run[n] \in RunType
                <4>1. run[n] \in RunType
                    BY DEF IInv, TypeOK
                <4> QED BY <3>1, <4>1, Zenon DEF RunType
            <3> QED BY <2>1, <3>2, Zenon
        <2>5. \A n \in Deliveries :
                 \/ run'[n] = run[n]
                 \/ /\ run[n].pc \in InProgress \union {"buffered"}
                    /\ run'[n] = [run[n] EXCEPT !.pc = "lost"]
            BY <2>1, Zenon
        <2>6. timedOut' \subseteq 1 .. delivered
            BY <2>1, Zenon DEF IInv, TypeOK
        <2> QED BY <2>1, <2>2, <2>3, <2>4, <2>5, <2>6, MishapIInv
    <1> QED BY <1>1, <1>2, <1>3, <1>4, Zenon DEF Trouble

-----------------------------------------------------------------------------
(* The steps together.                                                     *)

LEMMA AdvanceIInv ==
    ASSUME IInv, NEW n \in Deliveries, Advance(n)
    PROVE  IInv'
    <1>1. CASE Settle(n)
        BY <1>1, SettleIInv
    <1>2. CASE ~Settle(n)
        <2> SUFFICES LocalStep(n)
            BY LocalStepIInv
        <2>1. CASE Start(n)
            BY <2>1, StartIsLocal
        <2>2. CASE Drop(n)
            BY <2>2, DropIsLocal
        <2>3. CASE \E e \in GuardErrors : Refuse(n, e)
            <3>1. PICK e \in GuardErrors : Refuse(n, e)
                BY <2>3
            <3>2. e \in Errors
                BY DeliveryAssumption DEF Errors
            <3> QED BY <3>1, <3>2, RefuseIsLocal
        <2>4. CASE Enter(n)
            BY <2>4, EnterIsLocal
        <2>5. CASE \E e \in HandlerErrors : Return(n, e)
            <3>1. PICK e \in HandlerErrors : Return(n, e)
                BY <2>5
            <3>2. e \in Errors
                BY DeliveryAssumption
            <3> QED BY <3>1, <3>2, ReturnIsLocal
        <2>6. CASE Panic(n)
            BY <2>6, PanicIsLocal
        <2>7. CASE DeadLetter(n)
            BY <2>7, DeadLetterIsLocal
        <2>8. CASE \E again \in BOOLEAN : Retry(n, again)
            BY <2>8, RetryIsLocal
        <2>9. CASE Finish(n)
            BY <2>9, FinishIsLocal
        <2> QED BY <1>2, <2>1, <2>2, <2>3, <2>4, <2>5, <2>6, <2>7, <2>8, <2>9, Zenon DEF Advance
    <1> QED BY <1>1, <1>2

LEMMA StutterIInv ==
    ASSUME IInv, UNCHANGED vars
    PROVE  IInv'
    <1>1. /\ taskMax' = taskMax /\ phase' = phase /\ delivered' = delivered
          /\ worker' = worker /\ expiries' = expiries /\ run' = run /\ wstate' = wstate
          /\ timedOut' = timedOut /\ tardy' = tardy /\ late' = late /\ records' = records
        BY Zenon DEF vars, broker, history
    <1>2. RunsFit' /\ RecordsFit' /\ Naks' = Naks
        BY <1>1, SameRuns
    <1>3. TypeOK' /\ Ledger' /\ Chain' /\ Told'
        BY <1>1, Zenon DEF IInv, TypeOK, Ledger, Chain, Told
    <1>4. Calm' /\ Accounted'
        BY <1>1, <1>2, Zenon DEF IInv, Calm, ExcusedOverlap, Accounted, Owed
    <1> QED BY <1>2, <1>3, <1>4 DEF IInv

LEMMA NextIInv == IInv /\ [Next]_vars => IInv'
    <1> SUFFICES ASSUME IInv, [Next]_vars
                 PROVE  IInv'
        OBVIOUS
    <1>1. CASE Broker
        <2>1. CASE Expire
            BY <2>1, ExpireIInv
        <2>2. CASE DelayOver
            BY <2>2, DelayOverIInv
        <2>3. CASE \E w \in Workers : Deliver(w)
            BY <2>3, DeliverIInv
        <2> QED BY <1>1, <2>1, <2>2, <2>3, Zenon DEF Broker
    <1>2. CASE \E n \in Deliveries : Advance(n)
        BY <1>2, AdvanceIInv
    <1>3. CASE \E n \in Deliveries : TimeOut(n)
        BY <1>3, TimeOutIInv
    <1>4. CASE \E w \in Workers : Trouble(w)
        BY <1>4, TroubleIInv
    <1>5. CASE UNCHANGED vars
        BY <1>5, StutterIInv
    <1> QED BY <1>1, <1>2, <1>3, <1>4, <1>5, Zenon DEF Next

LEMMA Invariance == Spec => []IInv
    BY InitIInv, NextIInv, PTL DEF Spec

\* A done run's verdict is the one the error and the budget call for.
LEMMA Judged ==
    ASSUME IInv, NEW n \in Deliveries, run[n].verdict # "none"
    PROVE  /\ run[n].pc = "done"
           /\ run[n].verdict = VerdictOf(run[n], n, BudgetAtReject)
           /\ Announced(run[n], n - 1, BudgetInEnvelope)
    BY Zenon DEF IInv, RunsFit, Fits, Proper

-----------------------------------------------------------------------------
(* The theorems.                                                           *)

\* The variables keep their types, and only delivered runs are used.
THEOREM TypeCorrect == Spec => []TypeOK
    <1>1. IInv => TypeOK
        BY DEF IInv
    <1> QED BY <1>1, Invariance, PTL

\* Execute's event and rejectMessage's verdict agree, whatever the handler,
\* the stages and the budget, as long as the two budgets are one.
THEOREM VerdictsMatchEvents == Spec => []VerdictMatchesEvent
    <1>1. ASSUME IInv PROVE VerdictMatchesEvent
        <2> SUFFICES ASSUME NEW n \in Deliveries, run[n].pc = "done", Aligned
                     PROVE  /\ run[n].event = "success" <=> run[n].verdict = "ack"
                            /\ run[n].event = "retry" /\ run[n].err # "limited" => run[n].verdict = "nak"
                            /\ run[n].event = "deadletter" /\ run[n].cause \notin {"fatal", "deadletter"}
                                 => run[n].verdict = "term"
            BY Zenon DEF VerdictMatchesEvent
        <2>1. /\ Announced(run[n], n - 1, BudgetAtReject)
              /\ run[n].verdict = VerdictOf(run[n], n, BudgetAtReject)
            BY <1>1, Zenon DEF IInv, RunsFit, Fits, Proper, Aligned
        <2> HIDE DEF Aligned
        <2>2. run[n].event = "success" <=> run[n].verdict = "ack"
            BY <2>1, SMT DEF Announced, VerdictOf
        <2>3. run[n].event = "retry" /\ run[n].err # "limited" => run[n].verdict = "nak"
            BY <2>1, SMT DEF Announced, VerdictOf
        <2>4. run[n].event = "deadletter" /\ run[n].cause \notin {"fatal", "deadletter"}
                => run[n].verdict = "term"
            BY <2>1, SMT DEF Announced, VerdictOf, CauseToDie, IsFatal
        <2> QED BY <2>2, <2>3, <2>4
    <1> QED BY <1>1, Invariance, PTL

\* Execute leaves the message in the state it announces.
THEOREM EventsMatchStates == Spec => []EventMatchesState
    <1>1. ASSUME IInv PROVE EventMatchesState
        BY <1>1, Zenon DEF IInv, RunsFit, Fits, Proper, Announced, EventMatchesState
    <1> QED BY <1>1, Invariance, PTL

\* The broker settles a message on the word of a run, or after as many
\* deliveries as the budget or its own patience allows.
THEOREM SettlementsHaveCause == Spec => []SettledForCause
    <1>1. ASSUME IInv PROVE SettledForCause
        <2>0. BudgetAtReject \in Nat /\ TypeOK
            BY <1>1, Budgets DEF IInv, TypeOK
        <2>1. phase = "acked" => \E n \in Deliveries : run[n].verdict = "ack" /\ run[n].event = "success"
            <3> SUFFICES ASSUME NEW n \in Deliveries, run[n].verdict = "ack"
                         PROVE  run[n].event = "success"
                BY <1>1, Zenon DEF IInv, Told
            <3>1. run[n].verdict # "none"
                OBVIOUS
            <3>2. /\ run[n].verdict = VerdictOf(run[n], n, BudgetAtReject)
                  /\ Announced(run[n], n - 1, BudgetInEnvelope)
                BY <1>1, <3>1, Judged
            <3> QED BY <3>2, SMT DEF VerdictOf, Announced
        <2>2. phase = "termed" => \E n \in Deliveries :
                                     /\ run[n].verdict = "term"
                                     /\ run[n].err # "none"
                                     /\ RetryCount(n) >= BudgetAtReject
            <3> SUFFICES ASSUME NEW n \in Deliveries, run[n].verdict = "term"
                         PROVE  run[n].err # "none" /\ RetryCount(n) >= BudgetAtReject
                BY <1>1, Zenon DEF IInv, Told
            <3>1. run[n].verdict # "none"
                OBVIOUS
            <3>2. run[n].verdict = VerdictOf(run[n], n, BudgetAtReject)
                BY <1>1, <3>1, Judged
            <3> QED BY <3>2, SMT DEF VerdictOf, RetryCount
        <2>3. phase = "spent" => expiries > 0 \/ BudgetAtReject >= MaxDeliver
            <3> SUFFICES ASSUME phase = "spent", expiries = 0
                         PROVE  BudgetAtReject >= MaxDeliver
                BY <2>0, SMT DEF TypeOK
            <3>1. delivered = MaxDeliver /\ MaxDeliver \in Deliveries /\ MaxDeliver \in 1 .. delivered
                BY <1>1, DeliveryAssumption, SMT DEF IInv, Ledger, Deliveries
            <3>2. run[MaxDeliver].verdict = "nak"
                BY <1>1, <3>1, Zenon DEF IInv, Chain, Nakked
            <3>3. run[MaxDeliver].verdict = VerdictOf(run[MaxDeliver], MaxDeliver, BudgetAtReject)
                <4>1. run[MaxDeliver].verdict # "none"
                    BY <3>2
                <4> QED BY <1>1, <3>1, <4>1, Judged
            <3>4. ~(MaxDeliver - 1 >= BudgetAtReject)
                BY <3>2, <3>3, SMT DEF VerdictOf
            <3> QED BY <2>0, <3>4, DeliveryAssumption, SMT
        <2> QED BY <2>1, <2>2, <2>3, Zenon DEF SettledForCause
    <1> QED BY <1>1, Invariance, PTL

\* Two runs of a task are under way at once only after a slot came too late,
\* a run timed out or a worker went down.
THEOREM OverlapsAreExcused == Spec => []OverlapIsExcused
    <1>1. ASSUME IInv PROVE OverlapIsExcused
        <2> SUFFICES ASSUME NEW m \in Deliveries, NEW n \in Deliveries, m < n,
                            run[m].pc \in InProgress, run[n].pc \in InProgress,
                            ~ExcusedOverlap
                     PROVE  FALSE
            BY DEF OverlapIsExcused
        <2>1. run[n].pc # "none" /\ run[m].pc # "none" /\ run[m].pc # "done"
            BY DEF InProgress
        <2>2. m \in 1 .. delivered /\ n \in 1 .. delivered
            BY <1>1, <2>1, UnderWay DEF IInv
        <2>3. m < delivered
            BY <1>1, <2>2, SMT DEF IInv, TypeOK
        <2>4. expiries = 0
            BY <1>1 DEF IInv, Calm
        <2> QED BY <1>1, <2>1, <2>2, <2>3, <2>4, Zenon DEF IInv, Chain, Nakked
    <1> QED BY <1>1, Invariance, PTL

\* A task is not both recorded as dead and done.
THEOREM DoneOrDead == Spec => []NotBothDoneAndDead
    <1>1. ASSUME IInv PROVE NotBothDoneAndDead
        <2> DEFINE C == BudgetAtReject
        <2> SUFFICES ASSUME NEW n \in records, run[n].cause \notin {"fatal", "deadletter"},
                            NEW m \in Deliveries, run[m].event = "success",
                            ~ExcusedOverlap, Aligned
                     PROVE  FALSE
            BY DEF NotBothDoneAndDead
        <2>1. n \in 1 .. delivered /\ n \in Deliveries
            BY <1>1, DeliveryAssumption, SMT DEF IInv, TypeOK, Deliveries
        <2>2. run[n].err = "deadletter" /\ n - 1 >= C
            BY <1>1, Zenon DEF IInv, RecordsFit, RecordFits, CauseToDie, IsFatal, Aligned
        <2>3. m \in 1 .. delivered
            <3>1. ~(m > delivered)
                <4>1. m > delivered => run[m] = Unused
                    BY <1>1 DEF IInv, TypeOK
                <4>2. Unused.event = "none"
                    BY DEF Unused
                <4> QED BY <4>1, <4>2, Zenon
            <3> QED BY <1>1, <3>1, DeliveryAssumption, SMT DEF IInv, TypeOK, Deliveries
        <2>4. run[m].err = "none"
            BY <1>1, Zenon DEF IInv, RunsFit, Fits, Proper
        <2>5. \A i \in 1 .. delivered : i < delivered => Nakked(run[i])
            BY <1>1, Zenon DEF IInv, Calm, Chain
        <2>6. \A i \in Deliveries : Nakked(run[i]) => run[i].err # "none" /\ ~(i - 1 >= C)
            <3> SUFFICES ASSUME NEW i \in Deliveries, Nakked(run[i])
                         PROVE  run[i].err # "none" /\ ~(i - 1 >= C)
                OBVIOUS
            <3>1. run[i].verdict = "nak" /\ run[i].verdict # "none"
                BY DEF Nakked
            <3>2. run[i].verdict = VerdictOf(run[i], i, C)
                BY <1>1, <3>1, Judged
            <3> QED BY <3>1, <3>2, SMT DEF VerdictOf
        <2>7. ~(n < delivered) /\ ~(m < delivered)
            BY <2>1, <2>2, <2>3, <2>4, <2>5, <2>6, Zenon
        <2>8. n = m
            BY <1>1, <2>1, <2>3, <2>7, SMT DEF IInv, TypeOK
        <2> QED BY <2>2, <2>4, <2>8
    <1> QED BY <1>1, Invariance, PTL

\* A handler is not given a task more often than the budget and the broker's
\* patience add up to.
THEOREM AttemptsAreBudgeted == Spec => []AttemptsWithinBudget
    <1>1. ASSUME IInv PROVE AttemptsWithinBudget
        <2>0. /\ BudgetAtReject \in Nat
              /\ delivered \in Nat /\ expiries \in Nat
            <3>1. BudgetAtReject \in Nat
                BY <1>1, Budgets DEF IInv, TypeOK
            <3>2. delivered \in Nat /\ expiries \in Nat
                BY <1>1, DeliveryAssumption, SMT DEF IInv, TypeOK
            <3> QED BY <3>1, <3>2
        <2>1. Naks \subseteq 1 .. BudgetAtReject
            <3> SUFFICES ASSUME NEW n \in Deliveries, run[n].verdict = "nak"
                         PROVE  n \in 1 .. BudgetAtReject
                BY DEF Naks
            <3>1. run[n].verdict # "none"
                OBVIOUS
            <3>2. run[n].verdict = VerdictOf(run[n], n, BudgetAtReject)
                BY <1>1, <3>1, Judged
            <3>3. ~(n - 1 >= BudgetAtReject)
                BY <3>2, SMT DEF VerdictOf
            <3> QED BY <2>0, <3>3, DeliveryAssumption, SMT DEF Deliveries
        <2>2. Cardinality(Naks) \in Nat /\ Cardinality(Naks) <= BudgetAtReject
            <3>1. IsFiniteSet(1 .. BudgetAtReject) /\ Cardinality(1 .. BudgetAtReject) = BudgetAtReject
                BY <2>0, FS_Interval, SMT
            <3>2. Cardinality(Naks) <= Cardinality(1 .. BudgetAtReject)
                BY <2>1, <3>1, FS_Subset
            <3> QED BY <3>1, <3>2, NaksAreFew
        <2>3. PICK o \in {0, 1} : o = Owed
            BY DEF Owed
        <2>4. delivered + o <= 1 + expiries + Cardinality(Naks)
            BY <1>1, <2>3, Zenon DEF IInv, Accounted
        <2> QED BY <2>0, <2>2, <2>4, SMT DEF AttemptsWithinBudget
    <1> QED BY <1>1, Invariance, PTL
=============================================================================
