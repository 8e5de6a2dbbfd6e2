--------------------------- MODULE CronScheduler ---------------------------
(***************************************************************************)
(* core/crontab/manager.go with robfigcron/scheduler.go: Start, Reload and *)
(* Stop, called concurrently, and the runs the scheduler starts.           *)
(*                                                                         *)
(* robfig's Cron is external: once started it starts a goroutine for every *)
(* job that is due; Stop ends that and yields a context that is done when  *)
(* the jobs it had started have returned.                                  *)
(*                                                                         *)
(* A list of jobs is a version of what jobsSignature covers: ids,          *)
(* templates, specs, timeouts, which jobs are enabled.  A change of what   *)
(* it leaves out (payload, label, MaxRunCount) does not reach the Cron.    *)
(***************************************************************************)
EXTENDS Naturals

CONSTANTS
    Calls,      \* the calls that are made, one operation each
    Runs,       \* the runs that are started
    Versions,   \* of the list of jobs
    Operations, \* the operations that are called
    Reentrant,  \* whether a handler may call the manager
    Nobody

ASSUME SchedulerAssumption ==
    /\ Nobody \notin Calls \union Runs
    /\ Versions # {}
    /\ Operations \subseteq {"start", "reload", "stop"}
    /\ Reentrant \in BOOLEAN

VARIABLES
    stored,     \* the jobs the store and the registry hold
    call,       \* call -> what it does, where it is, what it has loaded
    mu,         \* the call that holds Scheduler.mu
    cron,       \* the current Cron, which one it is, and Scheduler.running
    run,        \* run -> the Cron that started it, and whether it is over
    shown,      \* the entries RuntimeState lists
    latest,     \* the jobs loaded last
    crossed,    \* a call loaded jobs while another was applying its own
    stopped     \* a Stop has returned, and no Start was or has been called since

vars == <<stored, call, mu, cron, run, shown, latest, crossed, stopped>>
history == <<latest, crossed, stopped>>

NoJobs == CHOOSE jobs \in Versions : TRUE

Init ==
    /\ stored \in Versions
    /\ call = [c \in Calls |-> [op |-> "reload", pc |-> "idle", jobs |-> NoJobs, by |-> Nobody]]
    /\ mu = Nobody
    /\ cron = [no |-> 0, jobs |-> NoJobs, running |-> FALSE]
    /\ run = [r \in Runs |-> [phase |-> "idle", of |-> 0]]
    /\ shown = NoJobs
    /\ latest = NoJobs
    /\ crossed = FALSE
    /\ stopped = FALSE

-----------------------------------------------------------------------------
Goto(c, pc) == call' = [call EXCEPT ![c].pc = pc]
At(c, pc) == call[c].pc = pc
Active(r) == run[r].phase = "active"

\* Past loadJobs, and not yet through SetSchedule.
Applying(c) == call[c].pc \in {"reload", "drain", "schedule"}
Starting == \E c \in Calls : call[c].op = "start" /\ call[c].pc \notin {"idle", "done"}

\* An entry is changed, through the Manager or behind its back.
Edit ==
    /\ stored' \in Versions \ {stored}
    /\ UNCHANGED <<call, mu, cron, run, shown, history>>

Call(c, op, by) ==
    /\ At(c, "idle")
    /\ by = Nobody \/ (Reentrant /\ by \in Runs /\ Active(by) /\ \A d \in Calls : call[d].by # by)
    /\ call' = [call EXCEPT ![c] = [@ EXCEPT !.op = op, !.by = by,
                                             !.pc = IF op = "stop" THEN "stop" ELSE "load"]]
    /\ stopped' = (stopped /\ op # "start")
    /\ UNCHANGED <<stored, mu, cron, run, shown, latest, crossed>>

Load(c) ==
    /\ At(c, "load")
    /\ call' = [call EXCEPT ![c].pc = "reload", ![c].jobs = stored]
    /\ latest' = stored
    /\ crossed' = (crossed \/ \E d \in Calls \ {c} : Applying(d))
    /\ UNCHANGED <<stored, mu, cron, run, shown, stopped>>

LoadFails(c) ==
    /\ At(c, "load")
    /\ Goto(c, "done")
    /\ UNCHANGED <<stored, mu, cron, run, shown, history>>

\* Scheduler.Reload until it waits: the jobs may be those it has; a running
\* Cron is stopped first.
\* Faulty: any list of jobs is taken for the one it has.
KnowsAll(jobs) == cron.no > 0
Knows(jobs) == cron.no > 0 /\ cron.jobs = jobs

Reload(c) ==
    /\ At(c, "reload")
    /\ mu = Nobody
    /\ IF Knows(call[c].jobs)
         THEN Goto(c, "schedule") /\ UNCHANGED mu
         ELSE Goto(c, "drain") /\ mu' = c
    /\ UNCHANGED <<stored, cron, run, shown, history>>

\* Whether the Cron was running is remembered across the wait, mu is held.
\* Faulty: the jobs are not waited for.
DrainedAtOnce == TRUE
Drained == cron.running => \A r \in Runs : Active(r) => run[r].of # cron.no

\* The old Cron has been stopped: no tick comes while this waits.
Ticking == cron.running /\ ~\E c \in Calls : call[c].pc \in {"drain", "drainstop"}

\* Faulty: the new Cron is started in any case.
SwapAndStart(c) ==
    /\ At(c, "drain")
    /\ Drained
    /\ cron' = [no |-> cron.no + 1, jobs |-> call[c].jobs, running |-> TRUE]
    /\ mu' = Nobody
    /\ Goto(c, "schedule")
    /\ UNCHANGED <<stored, run, shown, history>>
Swap(c) ==
    /\ At(c, "drain")
    /\ Drained
    /\ cron' = [no |-> cron.no + 1, jobs |-> call[c].jobs, running |-> cron.running]
    /\ mu' = Nobody
    /\ Goto(c, "schedule")
    /\ UNCHANGED <<stored, run, shown, history>>

\* RuntimeState.SetSchedule, after the scheduler's mutex is released.
SetSchedule(c) ==
    /\ At(c, "schedule")
    /\ shown' = call[c].jobs
    /\ Goto(c, IF call[c].op = "start" THEN "start" ELSE "done")
    /\ UNCHANGED <<stored, mu, cron, run, history>>

\* Scheduler.Start.
Start(c) ==
    /\ At(c, "start")
    /\ mu = Nobody
    /\ cron' = [cron EXCEPT !.running = cron.no > 0]
    /\ Goto(c, "done")
    /\ UNCHANGED <<stored, mu, run, shown, history>>

\* Scheduler.Stop.
Stop(c) ==
    /\ At(c, "stop")
    /\ mu = Nobody
    /\ mu' = c
    /\ Goto(c, "drainstop")
    /\ UNCHANGED <<stored, cron, run, shown, history>>

\* Faulty: mu is not given back when there is nothing to stop.
StoppedLocked(c) ==
    /\ At(c, "drainstop")
    /\ Drained
    /\ cron' = [cron EXCEPT !.running = FALSE]
    /\ mu' = IF cron.running THEN Nobody ELSE mu
    /\ Goto(c, "done")
    /\ stopped' = ~Starting
    /\ UNCHANGED <<stored, run, shown, latest, crossed>>
Stopped(c) ==
    /\ At(c, "drainstop")
    /\ Drained
    /\ cron' = [cron EXCEPT !.running = FALSE]
    /\ mu' = Nobody
    /\ Goto(c, "done")
    /\ stopped' = ~Starting
    /\ UNCHANGED <<stored, run, shown, latest, crossed>>

-----------------------------------------------------------------------------
(* The runs.                                                               *)

Tick(r) ==
    /\ Ticking
    /\ run[r].phase = "idle"
    /\ run' = [run EXCEPT ![r] = [phase |-> "active", of |-> cron.no]]
    /\ UNCHANGED <<stored, call, mu, cron, shown, history>>

\* Its handler has returned: not before a call it makes.
Over(r) ==
    /\ Active(r)
    /\ \A c \in Calls : call[c].by = r => At(c, "done")
    /\ run' = [run EXCEPT ![r].phase = "over"]
    /\ UNCHANGED <<stored, call, mu, cron, shown, history>>

-----------------------------------------------------------------------------
Steps(c) ==
    \/ Load(c)
    \/ LoadFails(c)
    \/ Reload(c)
    \/ Swap(c)
    \/ SetSchedule(c)
    \/ Start(c)
    \/ Stop(c)
    \/ Stopped(c)

Next ==
    \/ Edit
    \/ \E c \in Calls :
          \/ \E op \in Operations, by \in Runs \union {Nobody} : Call(c, op, by)
          \/ Steps(c)
    \/ \E r \in Runs : Tick(r) \/ Over(r)

Spec == Init /\ [][Next]_vars

\* Go's mutex lets no one wait for ever, and handlers return.
FairSpec ==
    /\ Spec
    /\ \A c \in Calls : SF_vars(Steps(c))
    /\ \A r \in Runs : WF_vars(Over(r))

-----------------------------------------------------------------------------
(* Properties.                                                             *)

\* Every variable stays in its type, and mu is held by the call that waits.
TypeOK ==
    /\ stored \in Versions
    /\ call \in [Calls -> [op : {"start", "reload", "stop"},
                           pc : {"idle", "load", "reload", "drain", "schedule", "start",
                                 "stop", "drainstop", "done"},
                           jobs : Versions, by : Runs \union {Nobody}]]
    /\ mu \in Calls \union {Nobody}
    /\ cron \in [no : Nat, jobs : Versions, running : BOOLEAN]
    /\ run \in [Runs -> [phase : {"idle", "active", "over"}, of : Nat]]
    /\ shown \in Versions
    /\ latest \in Versions
    /\ {crossed, stopped} \subseteq BOOLEAN
    /\ \A c \in Calls : mu = c <=> call[c].pc \in {"drain", "drainstop"}

\* The runs of one list of jobs are over before the next list's begin.
OneListAtATime == \A r \in Runs : Active(r) => run[r].of = cron.no

\* Once Stop has returned no run is active, and none begins before the next
\* Start: a Reload that was under way does not revive the scheduler.
StoppedStaysStopped == stopped => ~cron.running /\ \A r \in Runs : ~Active(r)

\* When no call is under way, the scheduler runs, and RuntimeState shows, what
\* was loaded last.  Two calls that crossed may leave the older list in either
\* place.
ScheduleIsLatest ==
    (\A c \in Calls : call[c].pc \in {"idle", "done"}) /\ ~crossed /\ cron.no > 0 =>
       cron.jobs = latest /\ shown = latest

\* Every call returns, unless one is being made by a handler while another
\* waits with mu held: Reload and Stop wait for the handlers of the Cron they
\* stop, and a handler that calls either waits for them.
WaitsForItself ==
    /\ mu # Nobody
    /\ \E c \in Calls : call[c].by # Nobody /\ call[c].pc \notin {"idle", "done"}

CallsReturn ==
    \A c \in Calls : ~At(c, "idle") ~> At(c, "done") \/ WaitsForItself
=============================================================================
