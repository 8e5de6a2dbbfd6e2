---------------------------- MODULE AppLifecycle ----------------------------
(***************************************************************************)
(* core/runtime: one App taken through boot, run and shutdown.             *)
(*                                                                         *)
(* The goroutine that calls the package-level RunAllProviders (the Runner) *)
(* registers the capabilities, registers and starts the providers, waits   *)
(* for the services and finally calls App.Stop.  Every other goroutine     *)
(* that may call App.Stop on the same App (the signal watcher, StopOnSignal*)
(* or the program itself) is a Stopper.  The steps are cut where a mutex   *)
(* is taken or released and where user code is entered or left, so that    *)
(* every interleaving of a Stop with a boot is a behaviour.                *)
(*                                                                         *)
(* Capabilities and providers are numbered in the dependency order that    *)
(* SortCapabilities and SortProviders return (module DependencySort).      *)
(***************************************************************************)
EXTENDS Integers, Sequences, SequencesExt

CONSTANTS
    NCap,       \* number of capabilities
    NProv,      \* number of providers
    Services,   \* the providers of ProviderModeService; the others are jobs
    Stoppers,   \* goroutines, other than the Runner, that may call App.Stop
    Runner,     \* the goroutine in RunAllProviders
    MaxRuns     \* bound: how often RunAllProviders is called on the App

Caps  == 1 .. NCap
Provs == 1 .. NProv
Actors == Stoppers \union {Runner}

ASSUME LifecycleAssumption ==
    /\ NCap \in Nat
    /\ NProv \in Nat
    /\ Services \subseteq Provs
    /\ Runner \notin Stoppers
    /\ MaxRuns \in Nat

None == 0       \* no provider; providers are numbered from 1

VARIABLES
    \* The fields of App guarded by mu.
    registered,     \* registeredCapabilities
    running,        \* runningProviders
    stopping,
    stopped,
    ctxDone,        \* the context of the current run is cancelled
    stopMu,         \* holder of stopMu, or {}
    capStatus, provStatus,
    \* The Runner and the goroutines it starts.
    pc,             \* where RunAllProviders stands
    next,           \* index of the capability or provider being handled
    started,        \* startProviders: started, later the rollback list
    failed,         \* provider whose failure ended the run
    serving,        \* services whose Start has not returned
    results,        \* the serviceResults channel
    remaining,      \* services whose result has not been received
    run,            \* number of the current run
    \* Each actor's call of App.Stop.
    stop,
    \* History.
    regs, shuts,    \* Register and Shutdown calls of each capability
    starts, stops,  \* Start and Stop calls of each provider
    late,           \* an object came up after a Stop took its snapshot
    raced           \* a Stop ran while a failed job was being rolled back

sharedVars  == <<registered, running, stopping, stopped>>
statusVars  == <<capStatus, provStatus>>
loopVars    == <<next, started, failed, remaining>>
serviceVars == <<serving, results>>
frameVars   == <<run, stopMu, stop>>
capHistory  == <<regs, shuts>>
provHistory == <<starts, stops>>
raceHistory == <<late, raced>>
historyVars == <<capHistory, provHistory, raceHistory>>
vars == <<sharedVars, ctxDone, statusVars, pc, loopVars, serviceVars,
          frameVars, historyVars>>

-----------------------------------------------------------------------------
Status == {"booting", "running", "stopping", "stopped", "failed"}

RunPc == {"idle", "sort", "register", "append", "provider", "add", "launch",
          "job", "jobOk", "jobErr", "rollback", "rollbackCall", "wait",
          "result", "stopping", "finish", "finalStop", "returned"}

StopPc == {"idle", "lock", "stop", "provCall", "capCall", "tail"}

NoStop == [pc |-> "idle", provs |-> <<>>, caps |-> <<>>, run |-> 0]

\* From its snapshot to its return a Stop has the lists and holds stopMu.
Inside(a) == stop[a].pc \in {"stop", "provCall", "capCall", "tail"}

IsStopping == stopping \/ stopped

NoStopMu   == TRUE      \* faulty: Stop without stopMu
StopMuFree == stopMu = {}

\* The loops of the boot have an object left to handle.
CapabilitiesLeft == next <= NCap
OneTooMany       == next <= NProv + 1       \* faulty: off by one
ProvidersLeft    == next <= NProv

\* shutdownCapabilities runs after stopProviders.
Regardless(a)    == TRUE    \* faulty: it does not wait for them
ProvidersDown(a) == stop[a].provs = <<>>

Init ==
    /\ registered = <<>>
    /\ running = <<>>
    /\ stopping = FALSE
    /\ stopped = FALSE
    /\ ctxDone = FALSE
    /\ stopMu = {}
    /\ capStatus = [c \in Caps |-> "stopped"]
    /\ provStatus = [p \in Provs |-> "stopped"]
    /\ pc = "idle"
    /\ next = 1
    /\ started = <<>>
    /\ failed = None
    /\ serving = {}
    /\ results = <<>>
    /\ remaining = 0
    /\ run = 0
    /\ stop = [a \in Actors |-> NoStop]
    /\ regs = [c \in Caps |-> 0]
    /\ shuts = [c \in Caps |-> 0]
    /\ starts = [p \in Provs |-> 0]
    /\ stops = [p \in Provs |-> 0]
    /\ late = FALSE
    /\ raced = FALSE

-----------------------------------------------------------------------------
(* The boot: prepareRunContext and the loops of RunAllProviders.           *)

\* prepareRunContext: a fresh context, every list and flag reset.  It takes
\* mu but not stopMu, so a Stop of an earlier moment may still be inside.
Prepare ==
    /\ pc \in {"idle", "returned"}
    /\ run < MaxRuns
    /\ run' = run + 1
    /\ registered' = <<>>
    /\ running' = <<>>
    /\ stopping' = FALSE
    /\ stopped' = FALSE
    /\ ctxDone' = FALSE
    /\ capStatus' = [c \in Caps |-> "stopped"]
    /\ provStatus' = [p \in Provs |-> "stopped"]
    /\ pc' = "sort"
    /\ next' = 1
    /\ started' = <<>>
    /\ failed' = None
    /\ remaining' = 0
    /\ serving' = {}
    /\ results' = <<>>
    /\ late' = (late \/ \E a \in Actors : Inside(a))
    /\ UNCHANGED <<stopMu, stop, capHistory, provHistory, raced>>

\* registerProviderCapabilities, SortCapabilities and SortProviders succeed.
Sorted ==
    /\ pc = "sort"
    /\ pc' = "register"
    /\ UNCHANGED <<sharedVars, ctxDone, statusVars, loopVars, serviceVars,
                   frameVars, historyVars>>

\* One of them fails: failRuntimeStatuses marks every object as failed.
SortFails ==
    /\ pc = "sort"
    /\ pc' = "finish"
    /\ capStatus' = [c \in Caps |-> "failed"]
    /\ provStatus' = [p \in Provs |-> "failed"]
    /\ UNCHANGED <<sharedVars, ctxDone, loopVars, serviceVars, frameVars,
                   historyVars>>

\* capability.Register returns nil; its status is set before it is listed.
RegisterCapability ==
    /\ pc = "register"
    /\ CapabilitiesLeft
    /\ pc' = "append"
    /\ capStatus' = [capStatus EXCEPT ![next] = "running"]
    /\ regs' = [regs EXCEPT ![next] = @ + 1]
    /\ late' = (late \/ IsStopping)
    /\ UNCHANGED <<sharedVars, ctxDone, provStatus, loopVars, serviceVars,
                   frameVars, shuts, provHistory, raced>>

\* capability.Register returns an error: the boot ends, nothing is undone.
RegisterCapabilityFails ==
    /\ pc = "register"
    /\ CapabilitiesLeft
    /\ pc' = "finish"
    /\ capStatus' = [capStatus EXCEPT ![next] = "failed"]
    /\ UNCHANGED <<sharedVars, ctxDone, provStatus, loopVars, serviceVars,
                   frameVars, historyVars>>

AddRegisteredCapability ==
    /\ pc = "append"
    /\ pc' = "register"
    /\ next' = next + 1
    /\ registered' = Append(registered, next)
    /\ UNCHANGED <<running, stopping, stopped, ctxDone, statusVars, started,
                   failed, remaining, serviceVars, frameVars, historyVars>>

CapabilitiesRegistered ==
    /\ pc = "register"
    /\ ~CapabilitiesLeft
    /\ pc' = "provider"
    /\ next' = 1
    /\ UNCHANGED <<sharedVars, ctxDone, statusVars, started, failed, remaining,
                   serviceVars, frameVars, historyVars>>

RegisterProvider ==
    /\ pc = "provider"
    /\ ProvidersLeft
    /\ next' = next + 1
    /\ provStatus' = [provStatus EXCEPT ![next] = "booting"]
    /\ UNCHANGED <<sharedVars, ctxDone, capStatus, pc, started, failed,
                   remaining, serviceVars, frameVars, historyVars>>

RegisterProviderFails ==
    /\ pc = "provider"
    /\ ProvidersLeft
    /\ pc' = "finish"
    /\ provStatus' = [provStatus EXCEPT ![next] = "failed"]
    /\ UNCHANGED <<sharedVars, ctxDone, capStatus, loopVars, serviceVars,
                   frameVars, historyVars>>

ProvidersRegistered ==
    /\ pc = "provider"
    /\ ~ProvidersLeft
    /\ pc' = "add"
    /\ next' = 1
    /\ UNCHANGED <<sharedVars, ctxDone, statusVars, started, failed, remaining,
                   serviceVars, frameVars, historyVars>>

-----------------------------------------------------------------------------
(* startProviders.                                                         *)

\* A provider is listed as running before its Start is called.
AddRunningProvider ==
    /\ pc = "add"
    /\ ProvidersLeft
    /\ pc' = "launch"
    /\ running' = Append(running, next)
    /\ provStatus' = [provStatus EXCEPT ![next] = "booting"]
    /\ late' = (late \/ IsStopping)
    /\ UNCHANGED <<registered, stopping, stopped, ctxDone, capStatus, loopVars,
                   serviceVars, frameVars, capHistory, provHistory, raced>>

\* A service: Start runs in a goroutine of its own.
LaunchService ==
    /\ pc = "launch"
    /\ next \in Services
    /\ pc' = "add"
    /\ next' = next + 1
    /\ started' = Append(started, next)
    /\ remaining' = remaining + 1
    /\ serving' = serving \union {next}
    /\ provStatus' = [provStatus EXCEPT ![next] = "running"]
    /\ starts' = [starts EXCEPT ![next] = @ + 1]
    /\ UNCHANGED <<sharedVars, ctxDone, capStatus, failed, results, frameVars,
                   capHistory, stops, raceHistory>>

\* A job: the Runner itself is inside Start until it returns.
BeginJob ==
    /\ pc = "launch"
    /\ next \notin Services
    /\ pc' = "job"
    /\ starts' = [starts EXCEPT ![next] = @ + 1]
    /\ UNCHANGED <<sharedVars, ctxDone, statusVars, loopVars, serviceVars,
                   frameVars, capHistory, stops, raceHistory>>

\* Start returned, and isStopping is read: once it holds the boot is over,
\* and neither result of the job is recorded.
JobReturns(outcome) ==
    /\ pc = "job"
    /\ pc' = IF IsStopping THEN "finish" ELSE outcome
    /\ UNCHANGED <<sharedVars, ctxDone, statusVars, loopVars, serviceVars,
                   frameVars, historyVars>>

CommitJob ==
    /\ pc = "jobOk"
    /\ pc' = "add"
    /\ next' = next + 1
    /\ started' = Append(started, next)
    /\ provStatus' = [provStatus EXCEPT ![next] = "running"]
    /\ UNCHANGED <<sharedVars, ctxDone, capStatus, failed, remaining,
                   serviceVars, frameVars, historyVars>>

\* The job failed: the context is cancelled, and what was started is stopped.
BeginRollback ==
    /\ pc = "jobErr"
    /\ pc' = "rollback"
    /\ failed' = next
    /\ started' = Append(started, next)
    /\ provStatus' = [provStatus EXCEPT ![next] = "failed"]
    /\ ctxDone' = TRUE
    /\ raced' = (raced \/ IsStopping)
    /\ UNCHANGED <<sharedVars, capStatus, next, remaining, serviceVars,
                   frameVars, capHistory, provHistory, late>>

\* stopProviders with keepFailedName: the failed job keeps its status.
RollbackProvider ==
    /\ pc = "rollback"
    /\ started # <<>>
    /\ LET p == Last(started) IN
       /\ provStatus' = IF p = failed THEN provStatus
                        ELSE [provStatus EXCEPT ![p] = "stopping"]
       /\ stops' = [stops EXCEPT ![p] = @ + 1]
    /\ pc' = "rollbackCall"
    /\ UNCHANGED <<sharedVars, ctxDone, capStatus, loopVars, serviceVars,
                   frameVars, capHistory, starts, raceHistory>>

\* Its Stop returned, failed, or outlived the stop timeout (an error too).
ProviderRolledBack(ok) ==
    /\ pc = "rollbackCall"
    /\ LET p == Last(started) IN
       provStatus' = IF ok /\ p = failed THEN provStatus
                     ELSE [provStatus EXCEPT
                             ![p] = IF ok THEN "stopped" ELSE "failed"]
    /\ started' = Front(started)
    /\ pc' = "rollback"
    /\ UNCHANGED <<sharedVars, ctxDone, capStatus, next, failed, remaining,
                   serviceVars, frameVars, historyVars>>

\* Faulty: the rolled back providers stay listed.
EndRollbackKeepsList ==
    /\ pc = "rollback"
    /\ started = <<>>
    /\ pc' = "finish"
    /\ UNCHANGED <<sharedVars, ctxDone, statusVars, loopVars, serviceVars,
                   frameVars, historyVars>>

\* clearRunningProviders; the capabilities stay for the final Stop.
EndRollback ==
    /\ pc = "rollback"
    /\ started = <<>>
    /\ running' = <<>>
    /\ pc' = "finish"
    /\ UNCHANGED <<registered, stopping, stopped, ctxDone, statusVars,
                   loopVars, serviceVars, frameVars, historyVars>>

ProvidersStarted ==
    /\ pc = "add"
    /\ ~ProvidersLeft
    /\ pc' = IF remaining = 0 THEN "finish" ELSE "wait"
    /\ UNCHANGED <<sharedVars, ctxDone, statusVars, loopVars, serviceVars,
                   frameVars, historyVars>>

-----------------------------------------------------------------------------
(* App.Stop, by any actor.                                                 *)

\* The App is stopped already: Stop takes stopMu and returns at once.
AlreadyStopped(a) ==
    /\ stop[a].pc = "lock"
    /\ StopMuFree
    /\ stopped
    /\ stop' = [stop EXCEPT ![a] = NoStop]
    /\ UNCHANGED <<sharedVars, ctxDone, statusVars, pc, loopVars, serviceVars,
                   run, stopMu, historyVars>>

\* Otherwise the lists it will stop are those of this moment.
EnterStop(a) ==
    /\ stop[a].pc = "lock"
    /\ StopMuFree
    /\ ~stopped
    /\ stopMu' = {a}
    /\ stopping' = TRUE
    /\ stop' = [stop EXCEPT ![a] = [pc |-> "stop", provs |-> running,
                                    caps |-> registered, run |-> run]]
    /\ late' = (late \/ pc \in {"append", "launch"})
    /\ raced' = (raced \/ pc \in {"rollback", "rollbackCall"})
    /\ UNCHANGED <<registered, running, stopped, ctxDone, statusVars, pc,
                   loopVars, serviceVars, run, capHistory, provHistory>>

\* stopProviders: the last provider of the snapshot is stopped first.
StopProvider(a) ==
    /\ stop[a].pc = "stop"
    /\ stop[a].provs # <<>>
    /\ LET p == Last(stop[a].provs) IN
       /\ provStatus' = [provStatus EXCEPT ![p] = "stopping"]
       /\ stops' = [stops EXCEPT ![p] = @ + 1]
    /\ stop' = [stop EXCEPT ![a].pc = "provCall"]
    /\ UNCHANGED <<sharedVars, ctxDone, capStatus, pc, loopVars, serviceVars,
                   run, stopMu, capHistory, starts, raceHistory>>

\* An error or the timeout of runLifecycle does not end the loop.
ProviderStopped(a, ok) ==
    /\ stop[a].pc = "provCall"
    /\ provStatus' = [provStatus EXCEPT ![Last(stop[a].provs)] =
                        IF ok THEN "stopped" ELSE "failed"]
    /\ stop' = [stop EXCEPT ![a].pc = "stop", ![a].provs = Front(@)]
    /\ UNCHANGED <<sharedVars, ctxDone, capStatus, pc, loopVars, serviceVars,
                   run, stopMu, historyVars>>

ShutdownCapability(a) ==
    /\ stop[a].pc = "stop"
    /\ ProvidersDown(a)
    /\ stop[a].caps # <<>>
    /\ LET c == Last(stop[a].caps) IN
       /\ capStatus' = [capStatus EXCEPT ![c] = "stopping"]
       /\ shuts' = [shuts EXCEPT ![c] = @ + 1]
    /\ stop' = [stop EXCEPT ![a].pc = "capCall"]
    /\ UNCHANGED <<sharedVars, ctxDone, provStatus, pc, loopVars, serviceVars,
                   run, stopMu, regs, provHistory, raceHistory>>

CapabilityShutDown(a, ok) ==
    /\ stop[a].pc = "capCall"
    /\ capStatus' = [capStatus EXCEPT ![Last(stop[a].caps)] =
                       IF ok THEN "stopped" ELSE "failed"]
    /\ stop' = [stop EXCEPT ![a].pc = "stop", ![a].caps = Front(@)]
    /\ UNCHANGED <<sharedVars, ctxDone, provStatus, pc, loopVars, serviceVars,
                   run, stopMu, historyVars>>

\* runtimeCancel() of the snapshot: the context of the run it was taken in.
CancelRun(a) ==
    /\ stop[a].pc = "stop"
    /\ ProvidersDown(a)
    /\ stop[a].caps = <<>>
    /\ ctxDone' = (ctxDone \/ stop[a].run = run)
    /\ stop' = [stop EXCEPT ![a].pc = "tail"]
    /\ UNCHANGED <<sharedVars, statusVars, pc, loopVars, serviceVars, run,
                   stopMu, historyVars>>

LeaveStop(a) ==
    /\ stop[a].pc = "tail"
    /\ running' = <<>>
    /\ registered' = <<>>
    /\ stopped' = TRUE
    /\ stopping' = FALSE
    /\ stopMu' = {}
    /\ stop' = [stop EXCEPT ![a] = NoStop]
    /\ UNCHANGED <<ctxDone, statusVars, pc, loopVars, serviceVars, run,
                   historyVars>>

-----------------------------------------------------------------------------
(* waitServiceProviders and the return of RunAllProviders.                 *)

\* A result arrives; while the App is stopping it is only counted.
ReceiveResult ==
    /\ pc = "wait"
    /\ remaining > 0
    /\ results # <<>>
    /\ results' = Tail(results)
    /\ remaining' = remaining - 1
    /\ IF IsStopping
       THEN UNCHANGED <<pc, failed>>
       ELSE pc' = "result" /\ failed' = Head(results)
    /\ UNCHANGED <<sharedVars, ctxDone, statusVars, next, started, serving,
                   frameVars, historyVars>>

\* A cancelled context explains the exit; otherwise the service has failed
\* (a nil error becomes ErrProviderServiceExited).  Either way: App.Stop.
HandleResult ==
    /\ pc = "result"
    /\ IF ctxDone
       THEN failed' = None /\ UNCHANGED provStatus
       ELSE /\ provStatus' = [provStatus EXCEPT ![failed] = "failed"]
            /\ UNCHANGED failed
    /\ pc' = "stopping"
    /\ stop' = [stop EXCEPT ![Runner].pc = "lock"]
    /\ UNCHANGED <<sharedVars, ctxDone, capStatus, next, started, remaining,
                   serviceVars, run, stopMu, historyVars>>

IgnoreContext == FALSE      \* faulty: only results end the wait

\* The context ends: by App.Stop, which then does the rest, or from outside.
ContextDone ==
    /\ pc = "wait"
    /\ remaining > 0
    /\ ctxDone
    /\ IF IsStopping
       THEN pc' = "finish" /\ UNCHANGED stop
       ELSE pc' = "stopping" /\ stop' = [stop EXCEPT ![Runner].pc = "lock"]
    /\ UNCHANGED <<sharedVars, ctxDone, statusVars, loopVars, serviceVars, run,
                   stopMu, historyVars>>

AllServicesExited ==
    /\ pc = "wait"
    /\ remaining = 0
    /\ pc' = "finish"
    /\ UNCHANGED <<sharedVars, ctxDone, statusVars, loopVars, serviceVars,
                   frameVars, historyVars>>

\* Faulty: the status of the failed service is not set again.
StoppedForgets ==
    /\ pc = "stopping"
    /\ stop[Runner].pc = "idle"
    /\ pc' = "finish"
    /\ UNCHANGED <<sharedVars, ctxDone, statusVars, loopVars, serviceVars,
                   frameVars, historyVars>>

\* The Runner's Stop returned: a failed service is marked failed again.
Stopped ==
    /\ pc = "stopping"
    /\ stop[Runner].pc = "idle"
    /\ provStatus' = IF failed = None THEN provStatus
                     ELSE [provStatus EXCEPT ![failed] = "failed"]
    /\ pc' = "finish"
    /\ UNCHANGED <<sharedVars, ctxDone, capStatus, loopVars, serviceVars,
                   frameVars, historyVars>>

\* Faulty: RunAllProviders leaves the shutdown to its caller.
ReturnWithoutStop ==
    /\ pc = "finish"
    /\ pc' = "returned"
    /\ UNCHANGED <<sharedVars, ctxDone, statusVars, loopVars, serviceVars,
                   frameVars, historyVars>>

\* The package-level RunAllProviders calls Stop whatever the run returned.
FinalStop ==
    /\ pc = "finish"
    /\ pc' = "finalStop"
    /\ stop' = [stop EXCEPT ![Runner].pc = "lock"]
    /\ UNCHANGED <<sharedVars, ctxDone, statusVars, loopVars, serviceVars, run,
                   stopMu, historyVars>>

Return ==
    /\ pc = "finalStop"
    /\ stop[Runner].pc = "idle"
    /\ pc' = "returned"
    /\ UNCHANGED <<sharedVars, ctxDone, statusVars, loopVars, serviceVars,
                   frameVars, historyVars>>

-----------------------------------------------------------------------------
(* The environment.                                                        *)

\* A signal arrives, or the program calls App.Stop.
CallStop(a) ==
    /\ stop[a].pc = "idle"
    /\ stop' = [stop EXCEPT ![a].pc = "lock"]
    /\ UNCHANGED <<sharedVars, ctxDone, statusVars, pc, loopVars, serviceVars,
                   run, stopMu, historyVars>>

\* The caller cancels the context it passed to RunAllProviders.
CancelContext ==
    /\ run > 0
    /\ ~ctxDone
    /\ ctxDone' = TRUE
    /\ UNCHANGED <<sharedVars, statusVars, pc, loopVars, serviceVars,
                   frameVars, historyVars>>

\* The Start of a service returns, for whatever reason.
ServiceExits(p) ==
    /\ p \in serving
    /\ serving' = serving \ {p}
    /\ results' = Append(results, p)
    /\ UNCHANGED <<sharedVars, ctxDone, statusVars, pc, loopVars, frameVars,
                   historyVars>>

-----------------------------------------------------------------------------
Boot ==
    \/ Sorted \/ SortFails
    \/ RegisterCapability \/ RegisterCapabilityFails
    \/ AddRegisteredCapability \/ CapabilitiesRegistered
    \/ RegisterProvider \/ RegisterProviderFails \/ ProvidersRegistered

Start ==
    \/ AddRunningProvider \/ LaunchService \/ BeginJob
    \/ \E outcome \in {"jobOk", "jobErr"} : JobReturns(outcome)
    \/ CommitJob \/ BeginRollback \/ RollbackProvider
    \/ \E ok \in BOOLEAN : ProviderRolledBack(ok)
    \/ EndRollback \/ ProvidersStarted

Wait ==
    \/ ReceiveResult \/ HandleResult \/ ContextDone \/ AllServicesExited
    \/ Stopped \/ FinalStop \/ Return

Lock(a) == AlreadyStopped(a) \/ EnterStop(a)

StopStep(a) ==
    \/ StopProvider(a) \/ ShutdownCapability(a) \/ CancelRun(a) \/ LeaveStop(a)
    \/ \E ok \in BOOLEAN : ProviderStopped(a, ok) \/ CapabilityShutDown(a, ok)

Environment ==
    \/ \E a \in Stoppers : CallStop(a)
    \/ Prepare
    \/ CancelContext
    \/ \E p \in Provs : ServiceExits(p)

Next ==
    \/ Boot \/ Start \/ Wait
    \/ \E a \in Actors : Lock(a) \/ StopStep(a)
    \/ Environment

Spec == Init /\ [][Next]_vars

\* A boot goes on while its jobs return, stop calls return or time out
\* (DefaultStopTimeout), and sync.Mutex starves no goroutine that waits.
\* Nothing is assumed of services, signals or the caller's context.
Fairness ==
    /\ WF_vars(Boot \/ Start \/ Wait)
    /\ \A a \in Actors : WF_vars(StopStep(a)) /\ SF_vars(Lock(a))

FairSpec == Spec /\ Fairness

-----------------------------------------------------------------------------
(* Properties.                                                             *)

AppOK ==
    /\ registered \in Seq(Caps) /\ running \in Seq(Provs)
    /\ stopping \in BOOLEAN /\ stopped \in BOOLEAN /\ ctxDone \in BOOLEAN
    /\ stopMu \in SUBSET Actors

StatusOK ==
    /\ capStatus \in [Caps -> Status]
    /\ provStatus \in [Provs -> Status]

RunnerOK ==
    /\ pc \in RunPc
    /\ next \in Nat \ {0}
    /\ started \in Seq(Provs)
    /\ failed \in Provs \union {None}
    /\ remaining \in Nat
    /\ run \in Nat

ServiceOK == serving \in SUBSET Services /\ results \in Seq(Services)

StopOK ==
    stop \in [Actors -> [pc : StopPc, provs : Seq(Provs), caps : Seq(Caps),
                         run : Nat]]

HistoryOK ==
    /\ regs \in [Caps -> Nat] /\ shuts \in [Caps -> Nat]
    /\ starts \in [Provs -> Nat] /\ stops \in [Provs -> Nat]
    /\ late \in BOOLEAN /\ raced \in BOOLEAN

\* Every variable stays in its domain: the lists hold known objects, a run
\* that failed names a provider, a stop call is at a known step.
TypeOK == AppOK /\ StatusOK /\ RunnerOK /\ ServiceOK /\ StopOK /\ HistoryOK

\* A capability is never shut down more often than it was registered, however
\* many goroutines call App.Stop and however the calls overlap a boot.
ShutdownAtMostOnce == \A c \in Caps : shuts[c] <= regs[c]

\* A provider is stopped once per run: a second Stop of the same start needs
\* an App.Stop that overlaps the rollback of a failed job.
ProviderStoppedOnce == ~raced => \A p \in Provs : stops[p] <= run

\* RunAllProviders owns the shutdown: when it returns, every capability it
\* registered was shut down and every provider it started was stopped, boot
\* errors and interrupted jobs included, unless something came up after a
\* concurrent Stop had taken its snapshot.
OwnsShutdown ==
    pc = "returned" /\ ~late =>
        /\ \A c \in Caps : shuts[c] = regs[c]
        /\ \A p \in Provs : stops[p] >= starts[p]

\* The same without the exception: what the test of that name promises.
RunAllProvidersOwnsShutdown ==
    pc = "returned" =>
        /\ \A c \in Caps : shuts[c] = regs[c]
        /\ \A p \in Provs : stops[p] >= starts[p]

\* Shutdown undoes the boot in reverse: nothing is stopped before the objects
\* booted after it, and no capability before every provider.
ReverseShutdownOrder ==
    [][~late =>
        /\ \A p \in Provs : stops'[p] > stops[p] =>
             \A q \in Provs : q > p => stops[q] >= starts[q]
        /\ \A c \in Caps : shuts'[c] > shuts[c] =>
             /\ \A p \in Provs : stops[p] >= starts[p]
             /\ \A d \in Caps : d > c => shuts[d] = regs[d]]_vars

HasFailed ==
    pc \in {"finish", "finalStop", "returned"} /\ failed # None

\* The provider whose failure ended the run stays marked failed through the
\* shutdown that follows, which marks every provider it stops as stopped.
FailureIsVisible ==
    HasFailed /\ ~raced => provStatus[failed] = "failed"

\* Every call of App.Stop returns: stopMu is always released.  And once its
\* context is cancelled RunAllProviders returns, although services may never come
\* back from Start.
CallsReturn ==
    /\ \A a \in Actors : stop[a].pc = "lock" ~> stop[a].pc = "idle"
    /\ ctxDone /\ run > 0 ~> (pc = "returned" \/ ~ctxDone)
=============================================================================
