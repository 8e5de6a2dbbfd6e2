------------------------ MODULE CronSchedulerProofs ------------------------
(***************************************************************************)
(* CronScheduler for any number of calls, runs and lists of jobs: the runs *)
(* of two lists never overlap, a scheduler that has been stopped stays     *)
(* stopped, and with all calls done the jobs loaded last are scheduled,    *)
(* unless two calls have crossed.                                          *)
(***************************************************************************)
EXTENDS CronScheduler, TLAPS

\* A run that is active was started by the Cron there is, which is running: a
\* Reload waits for the runs of the old one and a Stop for all.
RunsOfRunning == \A r \in Runs : Active(r) => run[r].of = cron.no /\ cron.running

\* Only a call that is one reaches Scheduler.Start or Scheduler.Stop, and after a
\* Stop nobody is on the way to a Start.
OpsAreTheirs ==
    \A c \in Calls : /\ call[c].pc = "start" => call[c].op = "start"
                     /\ call[c].pc \in {"stop", "drainstop"} => call[c].op = "stop"
StoppedIsQuiet == stopped => ~cron.running /\ ~Starting

\* Nothing runs before there is a Cron.
RunningIsSome == cron.running => cron.no > 0

IInv == TypeOK /\ RunsOfRunning /\ OpsAreTheirs /\ StoppedIsQuiet /\ RunningIsSome

\* The sentinel is no call and no run.
LEMMA NobodyIsNoCall == Nobody \notin Calls /\ Nobody \notin Runs
  BY SchedulerAssumption DEF SchedulerAssumption

\* What a call is: the part of TypeOK that is about the variable call.
Places == {"idle", "load", "reload", "drain", "schedule", "start", "stop", "drainstop",
           "done"}
CallSet == [op : {"start", "reload", "stop"}, pc : Places, jobs : Versions,
            by : Runs \union {Nobody}]
CallTyped == call \in [Calls -> CallSet]

\* A step that only moves a call keeps what the call is.
LEMMA MovedCall ==
    ASSUME CallTyped, NEW c \in Calls, NEW pc \in Places, Goto(c, pc)
    PROVE  /\ CallTyped'
           /\ call'[c].pc = pc
           /\ call'[c].op = call[c].op
           /\ \A d \in Calls : d # c => call'[d] = call[d]
<1> DEFINE moved == [call[c] EXCEPT !.pc = pc]
<1>1. moved \in CallSet /\ moved.pc = pc /\ moved.op = call[c].op
  BY DEF CallTyped, CallSet
<1>2. call' = [call EXCEPT ![c] = moved]
  BY DEF Goto
<1> HIDE DEF moved
<1> QED
  BY <1>1, <1>2 DEF CallTyped

\* No call has been made, and there is no Cron.
LEMMA InitHolds == Init => IInv
<1> SUFFICES ASSUME Init PROVE IInv
  OBVIOUS
<1>1. NoJobs \in Versions
  BY SchedulerAssumption DEF NoJobs, SchedulerAssumption
<1>2. TypeOK
  BY <1>1, NobodyIsNoCall DEF Init, TypeOK
<1>3. RunsOfRunning /\ OpsAreTheirs /\ StoppedIsQuiet /\ RunningIsSome
  BY DEF Init, RunsOfRunning, OpsAreTheirs, StoppedIsQuiet, RunningIsSome, Active
<1> QED
  BY <1>2, <1>3 DEF IInv

\* The other parts of TypeOK.
MuHeld == \A c \in Calls : mu = c <=> call[c].pc \in {"drain", "drainstop"}
CronTyped == cron \in [no : Nat, jobs : Versions, running : BOOLEAN]
RunTyped == run \in [Runs -> [phase : {"idle", "active", "over"}, of : Nat]]
RestTyped ==
    /\ stored \in Versions
    /\ mu \in Calls \union {Nobody}
    /\ shown \in Versions
    /\ latest \in Versions
    /\ crossed \in BOOLEAN
    /\ stopped \in BOOLEAN

\* TypeOK is made of them.
LEMMA TypeParts ==
    TypeOK <=> CallTyped /\ MuHeld /\ CronTyped /\ RunTyped /\ RestTyped
  BY DEF TypeOK, CallTyped, CallSet, Places, MuHeld, CronTyped, RunTyped, RestTyped

\* A step of a call moves that call, to the next place of its operation.
LEMMA StepMovesCall ==
    ASSUME TypeOK, NEW c \in Calls, Steps(c)
    PROVE  /\ CallTyped'
           /\ call'[c].op = call[c].op
           /\ \A d \in Calls : d # c => call'[d] = call[d]
<1>0. CallTyped /\ stored \in Versions
  BY TypeParts DEF RestTyped
<1>1. CASE Load(c)
  <2> DEFINE loaded == [call[c] EXCEPT !.pc = "reload", !.jobs = stored]
  <2>1. call' = [call EXCEPT ![c] = loaded]
    BY <1>0, <1>1 DEF Load, CallTyped
  <2>2. loaded \in CallSet /\ loaded.op = call[c].op
    BY <1>0 DEF CallTyped, CallSet, Places
  <2> HIDE DEF loaded
  <2> QED
    BY <1>0, <2>1, <2>2 DEF CallTyped
<1>2. CASE ~Load(c)
  <2>1. PICK pc \in Places : Goto(c, pc)
    BY <1>2 DEF Steps, LoadFails, Reload, Swap, SetSchedule, Start, Stop, Stopped, Places
  <2> QED
    BY <1>0, <2>1, MovedCall
<1> QED
  BY <1>1, <1>2

\* A call that is made has its operation.
LEMMA CallBegins ==
    ASSUME TypeOK, NEW c \in Calls, NEW op \in Operations,
           NEW by \in Runs \union {Nobody}, Call(c, op, by)
    PROVE  /\ CallTyped'
           /\ call'[c].op = op
           /\ call'[c].pc = IF op = "stop" THEN "stop" ELSE "load"
           /\ \A d \in Calls : d # c => call'[d] = call[d]
<1> DEFINE made == [call[c] EXCEPT !.op = op, !.by = by,
                                   !.pc = IF op = "stop" THEN "stop" ELSE "load"]
<1>0. CallTyped
  BY TypeParts
<1>1. call' = [call EXCEPT ![c] = made]
  BY DEF Call
<1>2. op \in {"start", "reload", "stop"}
  BY SchedulerAssumption DEF SchedulerAssumption
<1>3. /\ made \in CallSet
      /\ made.op = op
      /\ made.pc = IF op = "stop" THEN "stop" ELSE "load"
  BY <1>0, <1>2 DEF CallTyped, CallSet, Places
<1> HIDE DEF made
<1> QED
  BY <1>0, <1>1, <1>3 DEF CallTyped

\* The call that waits holds mu, and only it: Reload and Stop take mu when it is
\* free, Swap and Stopped give it back.
LEMMA MuStaysHeld ==
    ASSUME TypeOK, NEW c \in Calls, Steps(c)
    PROVE  MuHeld'
<1>0. CallTyped /\ MuHeld /\ c # Nobody /\ \A d \in Calls : d # Nobody
  BY TypeParts, NobodyIsNoCall
<1>1. CallTyped' /\ \A d \in Calls : d # c => call'[d] = call[d]
  BY StepMovesCall
<1>2. CASE Load(c)
  <2>1. mu' = mu /\ call[c].pc = "load" /\ call'[c].pc = "reload"
    BY <1>0, <1>2 DEF Load, At, CallTyped, CallSet
  <2> QED
    BY <1>0, <1>1, <2>1 DEF MuHeld
<1>3. ASSUME NEW pc \in Places, Goto(c, pc), mu' = mu,
             call[c].pc \notin {"drain", "drainstop"}, pc \notin {"drain", "drainstop"}
      PROVE  MuHeld'
  BY <1>0, <1>1, <1>3, MovedCall DEF MuHeld
<1>4. ASSUME NEW pc \in {"drain", "drainstop"}, Goto(c, pc), mu = Nobody, mu' = c
      PROVE  MuHeld'
  <2>1. call'[c].pc = pc
    BY <1>0, <1>4, MovedCall DEF Places
  <2> QED
    BY <1>0, <1>1, <1>4, <2>1 DEF MuHeld
<1>5. ASSUME NEW pc \in Places \ {"drain", "drainstop"}, Goto(c, pc),
             call[c].pc \in {"drain", "drainstop"}, mu' = Nobody
      PROVE  MuHeld'
  <2>1. call'[c].pc = pc /\ mu = c
    BY <1>0, <1>5, MovedCall DEF MuHeld
  <2> QED
    BY <1>0, <1>1, <1>5, <2>1 DEF MuHeld
<1>6. CASE LoadFails(c)
  BY <1>3, <1>6 DEF LoadFails, At, Places
<1>7. CASE Reload(c)
  BY <1>3, <1>4, <1>7 DEF Reload, At, Places
<1>8. CASE Swap(c)
  BY <1>5, <1>8 DEF Swap, At, Places
<1>9. CASE SetSchedule(c)
  BY <1>3, <1>9 DEF SetSchedule, At, Places
<1>10. CASE Start(c)
  BY <1>3, <1>10 DEF Start, At, Places
<1>11. CASE Stop(c)
  BY <1>4, <1>11 DEF Stop
<1>12. CASE Stopped(c)
  BY <1>5, <1>12 DEF Stopped, At, Places
<1> QED
  BY <1>2, <1>6, <1>7, <1>8, <1>9, <1>10, <1>11, <1>12 DEF Steps

\* Every step keeps the types, and who holds mu.
LEMMA TypeKept == ASSUME TypeOK, [Next]_vars PROVE TypeOK'
<1>0. CallTyped /\ MuHeld /\ CronTyped /\ RunTyped /\ RestTyped
  BY TypeParts
<1>1. CASE UNCHANGED <<call, mu, cron, run, shown, history>> /\ stored' \in Versions
  BY <1>0, <1>1, TypeParts
     DEF TypeOK, history
<1>2. ASSUME NEW c \in Calls, NEW op \in Operations, NEW by \in Runs \union {Nobody},
             Call(c, op, by)
      PROVE  TypeOK'
  <2>1. /\ CallTyped'
        /\ call'[c].pc \notin {"drain", "drainstop"}
        /\ \A d \in Calls : d # c => call'[d] = call[d]
    BY <1>2, CallBegins
  <2>2. UNCHANGED <<mu, cron, run>> /\ call[c].pc = "idle" /\ RestTyped'
    BY <1>0, <1>2 DEF Call, At, RestTyped
  <2>3. MuHeld'
    BY <1>0, <2>1, <2>2 DEF MuHeld
  <2>4. CronTyped' /\ RunTyped'
    BY <1>0, <2>2 DEF CronTyped, RunTyped
  <2> QED
    BY <2>1, <2>2, <2>3, <2>4 DEF TypeOK, CallTyped, CallSet, Places, MuHeld, CronTyped,
                                  RunTyped, RestTyped
<1>3. ASSUME NEW c \in Calls, Steps(c)
      PROVE  TypeOK'
  <2>1. CallTyped' /\ MuHeld'
    BY <1>3, StepMovesCall, MuStaysHeld
  <2>2. call[c].jobs \in Versions
    BY <1>0 DEF CallTyped, CallSet
  <2>3. run' = run
    BY <1>3 DEF Steps, Load, LoadFails, Reload, Swap, SetSchedule, Start, Stop, Stopped
  <2>4. CronTyped'
    <3>1. CASE Swap(c)
      BY <1>0, <2>2, <3>1 DEF Swap, CronTyped
    <3>2. CASE Start(c)
      <4> DEFINE up == cron.no > 0
      <4>1. cron' = [cron EXCEPT !.running = up]
        BY <3>2 DEF Start
      <4>2. up \in BOOLEAN
        BY <1>0 DEF CronTyped
      <4> HIDE DEF up
      <4> QED
        BY <1>0, <4>1, <4>2 DEF CronTyped
    <3>3. CASE Stopped(c)
      BY <1>0, <3>3 DEF Stopped, CronTyped
    <3>4. CASE UNCHANGED cron
      BY <1>0, <3>4 DEF CronTyped
    <3> QED
      BY <1>3, <3>1, <3>2, <3>3, <3>4 DEF Steps, Load, LoadFails, Reload, SetSchedule, Stop
  <2>5. stored' \in Versions /\ mu' \in Calls \union {Nobody} /\ shown' \in Versions
    BY <1>0, <1>3, <2>2 DEF Steps, Load, LoadFails, Reload, Swap, SetSchedule, Start, Stop,
                            Stopped, RestTyped
  <2>6. latest' \in Versions /\ crossed' \in BOOLEAN /\ stopped' \in BOOLEAN
    BY <1>0, <1>3 DEF Steps, Load, LoadFails, Reload, Swap, SetSchedule, Start, Stop,
                      Stopped, RestTyped, history
  <2>7. RunTyped'
    BY <1>0, <2>3 DEF RunTyped
  <2> QED
    BY <2>1, <2>4, <2>5, <2>6, <2>7 DEF TypeOK, CallTyped, CallSet, Places, MuHeld,
                                        CronTyped, RunTyped, RestTyped
<1>4. ASSUME NEW r \in Runs, Tick(r) \/ Over(r)
      PROVE  TypeOK'
  <2>1. RunTyped'
    BY <1>0, <1>4 DEF Tick, Over, RunTyped, CronTyped
  <2>2. UNCHANGED <<stored, call, mu, cron, shown, latest, crossed, stopped>>
    BY <1>4 DEF Tick, Over, history
  <2> QED
    BY <2>1, <2>2 DEF TypeOK, RunTyped
<1> QED
  BY <1>0, <1>1, <1>2, <1>3, <1>4 DEF Next, Edit, vars, history, RestTyped

\* Swap and Stopped (scheduler.go:83 and 106) wait until no run of the running
\* Cron is active, and with RunsOfRunning that is until no run is.
LEMMA DrainedIsIdle ==
    ASSUME IInv, Drained, NEW r \in Runs
    PROVE  ~Active(r)
  BY DEF IInv, RunsOfRunning, Drained

\* How the runs, the Cron and the calls change in a step of a call.
LEMMA StepKeepsRuns ==
    ASSUME IInv, NEW c \in Calls, Steps(c)
    PROVE  RunsOfRunning' /\ RunningIsSome'
<1> USE DEF RunsOfRunning, RunningIsSome, Active
<1>0. CronTyped /\ RunsOfRunning /\ RunningIsSome
  BY TypeParts DEF IInv
<1>1. run' = run
  BY DEF Steps, Load, LoadFails, Reload, Swap, SetSchedule, Start, Stop, Stopped
<1>2. CASE Swap(c)
  <2>1. \A r \in Runs : ~Active(r)
    BY <1>2, DrainedIsIdle DEF Swap
  <2>2. cron'.no > 0
    BY <1>0, <1>2 DEF Swap, CronTyped
  <2> QED
    BY <1>1, <2>1, <2>2
<1>3. CASE Start(c)
  BY <1>0, <1>1, <1>3 DEF Start, CronTyped
<1>4. CASE Stopped(c)
  <2>1. \A r \in Runs : ~Active(r)
    BY <1>4, DrainedIsIdle DEF Stopped
  <2>2. ~cron'.running
    BY <1>0, <1>4 DEF Stopped, CronTyped
  <2> QED
    BY <1>1, <2>1, <2>2
<1>5. CASE ~Swap(c) /\ ~Start(c) /\ ~Stopped(c)
  <2>1. cron' = cron
    BY <1>5 DEF Steps, Load, LoadFails, Reload, SetSchedule, Stop
  <2> QED
    BY <1>0, <1>1, <2>1
<1> QED
  BY <1>2, <1>3, <1>4, <1>5

\* Where a step of a call leads it.
LEMMA StepLeads ==
    ASSUME TypeOK, NEW c \in Calls, Steps(c)
    PROVE  /\ call[c].pc \notin {"idle", "done"}
           /\ call'[c].pc # "idle"
           /\ call'[c].pc = "start" => call[c].op = "start"
           /\ call'[c].pc = "stop" => FALSE
           /\ call'[c].pc = "drainstop" => call[c].pc = "stop"
<1>0. CallTyped
  BY TypeParts
<1>1. CASE Load(c)
  BY <1>0, <1>1 DEF Load, At, CallTyped, CallSet
<1>2. CASE ~Load(c)
  <2>1. PICK pc \in Places :
          /\ Goto(c, pc)
          /\ call[c].pc \notin {"idle", "done"}
          /\ pc \notin {"idle", "stop"}
          /\ pc = "start" => call[c].op = "start"
          /\ pc = "drainstop" => call[c].pc = "stop"
    <3>1. CASE SetSchedule(c)
      BY <3>1 DEF SetSchedule, At, Places
    <3>2. CASE ~SetSchedule(c)
      BY <1>2, <3>2 DEF Steps, LoadFails, Reload, Swap, Start, Stop, Stopped, At, Places
    <3> QED
      BY <3>1, <3>2
  <2>2. call'[c].pc = pc
    BY <1>0, <2>1, MovedCall
  <2> QED
    BY <2>1, <2>2
<1> QED
  BY <1>1, <1>2

\* After a Stop there is no way to a Start but a new call of it.
LEMMA StepKeepsQuiet ==
    ASSUME IInv, NEW c \in Calls, Steps(c)
    PROVE  StoppedIsQuiet'
<1>0. CronTyped /\ RestTyped /\ StoppedIsQuiet /\ OpsAreTheirs
  BY TypeParts DEF IInv
<1>1. /\ call'[c].op = call[c].op
      /\ \A d \in Calls : d # c => call'[d] = call[d]
      /\ call[c].pc \notin {"idle", "done"}
  BY StepMovesCall, StepLeads DEF IInv
<1>2. Starting' => Starting
  BY <1>1 DEF Starting
<1>3. CASE Start(c)
  <2>1. Starting /\ stopped' = stopped
    BY <1>0, <1>1, <1>3 DEF Start, At, Starting, OpsAreTheirs, history
  <2> QED
    BY <1>0, <2>1 DEF StoppedIsQuiet
<1>4. CASE Stopped(c)
  <2>1. ~cron'.running /\ (stopped' => ~Starting)
    BY <1>0, <1>4 DEF Stopped, CronTyped
  <2> QED
    BY <1>2, <2>1 DEF StoppedIsQuiet
<1>5. CASE ~Start(c) /\ ~Stopped(c)
  <2>1. stopped' = stopped /\ cron'.running = cron.running
    BY <1>0, <1>5 DEF Steps, Load, LoadFails, Reload, Swap, SetSchedule, Stop, history,
                      CronTyped
  <2> QED
    BY <1>0, <1>2, <2>1 DEF StoppedIsQuiet
<1> QED
  BY <1>3, <1>4, <1>5

\* Every step keeps the invariant.
LEMMA StepKeeps == ASSUME IInv, [Next]_vars PROVE IInv'
<1>0. TypeOK /\ TypeOK' /\ CronTyped /\ RunTyped
  BY TypeKept, TypeParts DEF IInv
<1>1. CASE UNCHANGED <<call, mu, cron, run, stopped>>
  BY <1>0, <1>1 DEF IInv, RunsOfRunning, OpsAreTheirs, StoppedIsQuiet, RunningIsSome, Active,
                    Starting
<1>2. ASSUME NEW c \in Calls, NEW op \in Operations, NEW by \in Runs \union {Nobody},
             Call(c, op, by)
      PROVE  IInv'
  <2>1. /\ call'[c].op = op
        /\ call'[c].pc = IF op = "stop" THEN "stop" ELSE "load"
        /\ \A d \in Calls : d # c => call'[d] = call[d]
    BY <1>0, <1>2, CallBegins
  <2>2. UNCHANGED <<mu, cron, run>> /\ stopped' = (stopped /\ op # "start")
    BY <1>2 DEF Call
  <2>3. OpsAreTheirs'
    BY <2>1 DEF IInv, OpsAreTheirs
  <2>4. stopped' => stopped /\ (Starting' => Starting)
    BY <2>1, <2>2 DEF Starting
  <2>5. StoppedIsQuiet'
    BY <2>2, <2>4 DEF IInv, StoppedIsQuiet
  <2>6. RunsOfRunning' /\ RunningIsSome'
    BY <2>2 DEF IInv, RunsOfRunning, RunningIsSome, Active
  <2> QED
    BY <1>0, <2>3, <2>5, <2>6 DEF IInv
<1>3. ASSUME NEW c \in Calls, Steps(c)
      PROVE  IInv'
  <2>1. /\ call'[c].op = call[c].op
        /\ \A d \in Calls : d # c => call'[d] = call[d]
    BY <1>0, <1>3, StepMovesCall
  <2>2. OpsAreTheirs'
    BY <1>0, <1>3, <2>1, StepLeads DEF IInv, OpsAreTheirs
  <2> QED
    BY <1>0, <1>3, <2>2, StepKeepsRuns, StepKeepsQuiet DEF IInv
<1>4. ASSUME NEW r \in Runs, Tick(r) \/ Over(r)
      PROVE  IInv'
  <2>1. UNCHANGED <<call, mu, cron, stopped>>
    BY <1>4 DEF Tick, Over, history
  <2>2. RunsOfRunning'
    <3>1. CASE Tick(r)
      BY <1>0, <2>1, <3>1 DEF Tick, Ticking, IInv, RunsOfRunning, Active, RunTyped
    <3>2. CASE Over(r)
      BY <1>0, <2>1, <3>2 DEF Over, IInv, RunsOfRunning, Active, RunTyped
    <3> QED
      BY <1>4, <3>1, <3>2
  <2> QED
    BY <1>0, <2>1, <2>2 DEF IInv, OpsAreTheirs, StoppedIsQuiet, RunningIsSome, Starting
<1> QED
  BY <1>1, <1>2, <1>3, <1>4 DEF Next, Edit, vars, history

\* The invariant holds.
THEOREM InvHolds == Spec => []IInv
  BY InitHolds, StepKeeps, PTL DEF Spec

\* Scheduler.mu (scheduler.go): the variables have their types, and the call that
\* holds mu is the one that waits for the runs of a Cron.
THEOREM SchedulerTyped == Spec => []TypeOK
<1>1. IInv => TypeOK
  BY DEF IInv
<1> QED
  BY <1>1, InvHolds, PTL

\* Scheduler.Reload (scheduler.go:69): the runs of one list of jobs are over
\* before those of the next begin, however calls and runs interleave.
THEOREM ListsDoNotOverlap == Spec => []OneListAtATime
<1>1. IInv => OneListAtATime
  BY DEF IInv, RunsOfRunning, OneListAtATime
<1> QED
  BY <1>1, InvHolds, PTL

\* Manager.Stop and Scheduler.Stop: after a Stop nothing runs before the next
\* Start, whatever Reload was waiting meanwhile.
THEOREM StopLasts == Spec => []StoppedStaysStopped
<1>1. IInv => StoppedStaysStopped
  BY DEF IInv, RunsOfRunning, StoppedIsQuiet, StoppedStaysStopped
<1> QED
  BY <1>1, InvHolds, PTL
-----------------------------------------------------------------------------
(* What is scheduled and shown is what was loaded last.                    *)

\* Until two calls have crossed: one call at most is applying a list, which is the
\* one loaded last; once the Cron has it, the Cron has that list; and with nobody
\* applying, RuntimeState shows it too.
OneApplies == \A c, d \in Calls : Applying(c) /\ Applying(d) => c = d
AppliesLatest == \A c \in Calls : Applying(c) => call[c].jobs = latest
ScheduledLatest ==
    \A c \in Calls : call[c].pc = "schedule" => cron.no > 0 /\ cron.jobs = latest
SettledLatest ==
    (\A c \in Calls : ~Applying(c)) /\ cron.no > 0 => cron.jobs = latest /\ shown = latest
UntilCrossed ==
    ~crossed => OneApplies /\ AppliesLatest /\ ScheduledLatest /\ SettledLatest

\* A step that leaves the lists, and every call that applies one, as they are.
LEMMA ListsUntouched ==
    ASSUME UntilCrossed, UNCHANGED <<cron, shown, latest, crossed>>,
           \A c \in Calls : /\ Applying(c)' <=> Applying(c)
                            /\ Applying(c) => call'[c].pc = call[c].pc
                                              /\ call'[c].jobs = call[c].jobs
    PROVE  UntilCrossed'
  BY DEF UntilCrossed, OneApplies, AppliesLatest, ScheduledLatest, SettledLatest, Applying

\* A step of the only call that applies a list keeps that list.
LEMMA StepKeepsLatest ==
    ASSUME TypeOK, UntilCrossed, NEW c \in Calls, Steps(c)
    PROVE  UntilCrossed'
<1> USE DEF UntilCrossed, OneApplies, AppliesLatest, ScheduledLatest, SettledLatest
<1>0. CallTyped /\ CronTyped
  BY TypeParts
<1>1. \A d \in Calls : d # c => call'[d] = call[d]
  BY StepMovesCall
<1>2. CASE Load(c)
  <2>1. /\ call'[c].pc = "reload" /\ call'[c].jobs = stored
        /\ call[c].pc = "load" /\ latest' = stored
        /\ UNCHANGED <<cron, shown>>
    BY <1>0, <1>2 DEF Load, At, CallTyped
  <2>2. ~crossed' => ~crossed /\ \A d \in Calls \ {c} : ~Applying(d)
    BY <1>2 DEF Load
  <2> QED
    BY <1>1, <2>1, <2>2 DEF Applying
<1>3. ASSUME NEW pc \in Places, Goto(c, pc)
      PROVE  call'[c].pc = pc /\ call'[c].jobs = call[c].jobs
  BY <1>0, <1>3 DEF Goto, CallTyped, CallSet
<1>4. CASE LoadFails(c)
  <2>1. call'[c].pc = "done" /\ call[c].pc = "load"
    BY <1>3, <1>4 DEF LoadFails, At, Places
  <2> QED
    BY <1>1, <1>4, <2>1, ListsUntouched DEF LoadFails, Applying, history
<1>5. CASE Reload(c)
  <2>1. /\ call[c].pc = "reload" /\ call'[c].jobs = call[c].jobs
        /\ \/ call'[c].pc = "schedule" /\ Knows(call[c].jobs)
           \/ call'[c].pc = "drain"
    BY <1>3, <1>5 DEF Reload, At, Places
  <2> QED
    BY <1>1, <1>5, <2>1 DEF Reload, Applying, Knows, history
<1>6. CASE Swap(c)
  <2>1. /\ call[c].pc = "drain" /\ call'[c].pc = "schedule"
        /\ call'[c].jobs = call[c].jobs
        /\ cron'.jobs = call[c].jobs /\ cron'.no > 0
        /\ UNCHANGED <<shown, latest, crossed>>
    BY <1>0, <1>3, <1>6 DEF Swap, At, Places, CronTyped, history
  <2> QED
    BY <1>1, <2>1 DEF Applying
<1>7. CASE SetSchedule(c)
  <2>1. /\ call[c].pc = "schedule" /\ call'[c].pc \in {"start", "done"}
        /\ shown' = call[c].jobs
        /\ UNCHANGED <<cron, latest, crossed>>
    BY <1>3, <1>7 DEF SetSchedule, At, Places, history
  <2> QED
    BY <1>1, <2>1 DEF Applying
<1>8. CASE Start(c) \/ Stop(c) \/ Stopped(c)
  <2>1. /\ call[c].pc \in {"start", "stop", "drainstop"}
        /\ call'[c].pc \in {"drainstop", "done"}
    BY <1>3, <1>8 DEF Start, Stop, Stopped, At, Places
  <2>2. /\ cron'.no = cron.no /\ cron'.jobs = cron.jobs
        /\ UNCHANGED <<shown, latest, crossed>>
    BY <1>0, <1>8 DEF Start, Stop, Stopped, CronTyped, history
  <2> QED
    BY <1>1, <2>1, <2>2 DEF Applying
<1> QED
  BY <1>2, <1>4, <1>5, <1>6, <1>7, <1>8 DEF Steps

\* Manager.Start and Reload (manager.go:120): when no call is under way the Cron has
\* the jobs that were loaded last and RuntimeState lists them, unless two calls have
\* crossed between loading and showing.
THEOREM LatestIsScheduled == Spec => []ScheduleIsLatest
<1>1. Init => UntilCrossed
  BY DEF Init, UntilCrossed, OneApplies, AppliesLatest, ScheduledLatest, SettledLatest,
         Applying
<1>2. TypeOK /\ UntilCrossed /\ [Next]_vars => UntilCrossed'
  <2> SUFFICES ASSUME TypeOK, UntilCrossed, [Next]_vars PROVE UntilCrossed'
    OBVIOUS
  <2>1. CASE Edit \/ UNCHANGED vars \/ \E r \in Runs : Tick(r) \/ Over(r)
    BY <2>1, ListsUntouched DEF Edit, vars, Tick, Over, history, Applying
  <2>2. ASSUME NEW c \in Calls, NEW op \in Operations, NEW by \in Runs \union {Nobody},
               Call(c, op, by)
        PROVE  UntilCrossed'
    <3>1. /\ call[c].pc = "idle"
          /\ call'[c].pc \in {"stop", "load"}
          /\ \A d \in Calls : d # c => call'[d] = call[d]
      BY <2>2, CallBegins DEF Call, At
    <3> QED
      BY <2>2, <3>1, ListsUntouched DEF Call, Applying
  <2>3. ASSUME NEW c \in Calls, Steps(c)
        PROVE  UntilCrossed'
    BY <2>3, StepKeepsLatest
  <2> QED
    BY <2>1, <2>2, <2>3 DEF Next
<1>3. UntilCrossed => ScheduleIsLatest
  BY DEF UntilCrossed, SettledLatest, ScheduleIsLatest, Applying
<1> QED
  BY <1>1, <1>2, <1>3, SchedulerTyped, PTL DEF Spec
=============================================================================
