# A verification of sdkit

sdkit is a Go toolkit for services. Most of it is plumbing around libraries (HTTP
middleware, configuration, storage and payment adapters); what can go wrong in ways a
test hardly reaches is in the parts that run goroutines, talk to brokers and locks, and
must stop in good order. This project models those parts in TLA+, checks them with TLC
on small instances, and proves what matters most with TLAPS for instances of any size.

Paths below are relative to `src/`, the repository.

## 1. The system

### 1.1 Components that are modelled

| Component | State | Operations | Interacts with |
|---|---|---|---|
| **Runtime lifecycle** `core/runtime/{app,lifecycle,status,execute,signal}.go` | lists of registered capabilities and running providers, `stopping`, `stopped`, the run's context, `stopMu`, a status per object | `RunAllProviders`, `App.Stop`, `startProviders` with rollback, `waitServiceProviders` | the objects' `Register`/`Start`/`Stop`, signals, the caller's context |
| **Runtime dependency order** `core/runtime/dependency.go` | none between calls | validate, select (`RunProvider`), sort | gives the lifecycle its order |
| **Queue task runs** `core/queue/{orchestrator,state,retry,error}.go`, `runtime/middleware/*` | a task's state in its message, dead letter records | the stages Recover, guards, Retry, DeadLetter, handler, `finishFailure` | a driver that delivers, and is told the outcome |
| **NATS driver** `pkg/queue/nats/client.go` | pull loops, in-flight messages, progress reports | fetch, hand over, acknowledge, reject, stop, close | JetStream (external), the orchestrator |
| **Crontab runs** `core/crontab/{runtime,runner,locker,run_context}.go` | the lock of an entry, its run count, one record per run, the status shown | `Dispatch` of scheduled and manual runs | a lock service with leases, a store (both external), other processes |
| **Crontab scheduler** `core/crontab/manager.go`, `robfigcron/scheduler.go` | the current Cron, its jobs' signature, `running`, `mu` | `Start`, `Reload`, `Stop` | robfig's Cron (external), handlers, which may call back |
| **Queue task records** `core/queue/{runtime_instance,task_store,operations}.go` | the record of a task in the task store, beside the broker's messages for it | `Enqueue`, `BatchEnqueue`, the schedule poller, the auto-retry loop, requeue and delete, `TaskStoreMiddleware` | the store (external, optional interfaces), asynq or NATS (external), the orchestrator |
| **Realtime** `pkg/realtime/memory/registry.go`, `ws/adapter.go` | clients, index by user, rooms, heartbeats; per connection a context, a socket and three goroutines | `Add`, `Remove`, `Online`, `Offline`, `Join`, `Leave`, `Heartbeat`; `ServeConn` | peers, the application's handlers and its calls from elsewhere |
| **Event bus** `pkg/eventbus/{memory,redis,redisstream,nats}` | subscriptions and `closed` per bus; a consumer group's position and pending entries | `Subscribe`, `Publish`, `Close`, the subscriptions' loops | redis, NATS (external), handlers |
| **Chunked upload** `pkg/storage/{upload,storage}.go`, `chunk/chunk.go`, `driver/local` | sessions in memory, a directory of chunk files each, the file under the path | `InitUpload`, `UploadChunk` with merge and put, `Close` | requests that run at a time and may break off, the local disk |

What makes them hard, and what makes them correct:

* *Lifecycle.* `Stop` may come from a signal handler at any point of a boot, twice, and
  while a failed job is being rolled back; user code runs between the locks. Correct
  means: everything that came up goes down once, in reverse order, whoever stops the
  App; a failure stays visible; nobody waits for ever.
* *Dependency order.* Graph algorithms with marks and counters, where an error shows only
  on particular graphs. Correct means: exactly what is needed, in an order that respects
  every dependency, and an error exactly if there is none.
* *Task runs over NATS.* At-least-once delivery with time-outs that overtake runs, four
  places that compare a retry count with a budget, workers that die or are told to
  stop. Correct means: the broker settles a task for a reason, what the driver asks of
  it agrees with what the orchestrator announced, runs overlap only for a known
  reason, attempts keep to the budget, and a task does not stay for ever.
* *Crontab.* Leases that lapse, runs that time out while their handler goes on, errors
  that are ignored on purpose. Correct means: no overlap but for a named reason, a limit
  that holds, a lock that comes free, a status that tells the truth, and calls of the
  scheduler that cannot leave it with an old list or running after a stop.
* *Task records.* The broker and the record are written one after the other by callers,
  loops, an operator and the workers, without a transaction, over a store half of whose
  interface is optional. Correct means: what was submitted is on record, a record does
  not show work nobody will do, and a task is not worked on twice, but for named reasons.
* *Realtime.* Several maps that must agree, keyed by an id that outlives its connection
  and that two connections may share; goroutines that wait for each other and for a peer
  that has gone silent. Correct means: the indexes agree, nothing is left of a client that
  is gone, an open connection is registered, and a connection that is to end does.
* *Event bus.* Subscribe and Close cross, contexts end with events in hand, replies get
  lost. Correct means: what was due is handled, once, and a closed bus ends every
  subscription.
* *Chunked upload.* What has been received is what files there are, whatever they hold,
  and a request may wait for the mutex of a session that is being completed. Correct
  means: a completed upload is whole, completes once, leaves nothing behind, and a client
  is not told that nothing is missing of an upload that will not complete.

### 1.2 Components that are not modelled

Each is listed in `PROJECT.json` with its reason. Some have state of their own and are
left for the reasons given there, with what reading them showed in section 7: the
queue's control planes, the cache, rate limiting, the payment states, the reporter's
snapshots, the crontab's batch log writer, captcha and risk counters. The others are
I/O, mapping or formatting around libraries: logging, tracing, configuration, databases,
HTTP middleware and client, mail, SMS, object stores, payment channels, sandboxing,
lookups.

## 2. The modules

| Module | Models | Notes |
|---|---|---|
| `AppLifecycle` | one App, the goroutine in `RunAllProviders` and any number of goroutines that call `App.Stop` | steps are cut where a mutex is taken or released and where user code is entered or left |
| `AppLifecycleProofs` | theorems about it | |
| `BootOrder` | abstract: items are placed one by one, each after all it depends on | |
| `DependencySort` | the depth-first selection and Kahn's algorithm; `Implements` says that it refines `BootOrder` | |
| `DependencySortProofs` | theorems about it and about `BootOrder` | |
| `TaskStages` | pure operators: how a run's error becomes a state, an event and an error for the driver | extended by `NatsDelivery` |
| `NatsDelivery` | one task, JetStream, the workers | |
| `NatsDeliveryProofs` | theorems about it | |
| `CronRuns` | the runs of one entry, from `Dispatch` to the report, on several processes | |
| `CronRunsProofs` | theorems about it | |
| `CronScheduler` | concurrent calls of `Start`, `Reload` and `Stop` | |
| `CronSchedulerProofs` | theorems about it | |
| `TaskRecords` | the record of one task, the calls that submit and retry it and the messages the broker holds for it | extends `TaskStages` |
| `TaskRecordsProofs` | theorems about it | |
| `Realtime` | the registry and the WebSocket connections that use it | |
| `EventBus` | subscriptions under the four drivers | its names begin with `Bus` or `bus` (`BusInit`, `BusSpec`, `busVars`) where `Realtime` has one of its own |
| `MessagingProofs` | theorems about `Realtime` and about `EventBus` | extends both; they share no variable |
| `ChunkUpload` | sessions and the requests that send chunks | |
| `ChunkUploadProofs` | theorems about it | |

### 2.1 AppLifecycle

`pc` says where `RunAllProviders` stands, `stop[a]` where actor `a`'s call of `App.Stop`
stands, with the snapshot of the lists it works on. `registered`, `running`, `stopping`,
`stopped`, `stopMu`, `capStatus` and `provStatus` are the fields of `App` of those names.
`Prepare` is `prepareRunContext`, and does what the code does: it resets the lists and
flags under `mu` only, while a Stop of an earlier moment may be inside. Results of user
code (errors, time-outs of a Stop, a service that exits) are nondeterministic. `regs`,
`shuts`, `starts`, `stops` count calls for the properties; `late` and `raced` record the
two races the code does not close, so that the properties can name them as exceptions:

* `late`: an object came up after a Stop had taken its snapshot, or a new run began while
  a Stop was inside;
* `raced`: a Stop ran while the Runner was rolling back a failed job. Both walk the same
  providers; they are stopped twice, and the second walk marks the failed job `stopped`,
  although `tests/core/runtime/phase9_test.go:98` expects it to stay `failed` (that test
  has no concurrent Stop).

### 2.2 BootOrder and DependencySort

Items are numbered in registration order; the state is that of the Go functions: the
recursion of `visit` as an explicit `stack` with the dependencies each call still has to
walk, then in-degrees, queue, output and the scan index. All graphs on `N` items, all
targets and all sets of items with a missing requirement are initial states.

### 2.3 TaskStages and NatsDelivery

A run is named by its delivery number `n`; its retry count is `n - 1`. `run[n]` holds
where it is, the error it carries, the error that ended its handler (`cause`), the state
in its message, the event it announced and the verdict it asked of the broker. The
errors are the classes that `error.go`'s predicates tell apart. JetStream is external:
`Deliver`, `Expire` (AckWait), `DelayOver`, and `After`, its answer to a verdict, are all
it is asked to do. Workers may be told to stop (`Stop`, `LoopExits`), closed (`Close`:
the connection goes before the handlers have ended, so their verdicts are lost) or
killed (`Crash`).

`keepMessageInProgress` sends its first report `AckWait/2` after the run began, and a
message that waits for a slot has no reports at all. `AckWait` may therefore pass in two
healthy ways: before the slot came (`buffered`), or, after a wait of more than `AckWait/2`,
between the start of the run and its first report. A run of the second kind is `tardy`;
`Start` chooses whether it is, as the wait may have been of any length, and it ceases to
be with the next delivery, before whose `AckWait` is over a report of every run at work
has been sent. `late` records both kinds when the broker gives up waiting. Two assumptions
are built in: no report is lost on a connection that is open, and all stages that change
an outcome are installed.

What the model shows of the code, and the properties account for:

* an unset budget is written into the envelope from the *producer's* `MaxDeliver`, and
  judged by the *worker's*; properties that compare the two assume `Aligned`;
* the rate limit, lock and concurrency guards refuse outside Retry and DeadLetter, so a
  task they refuse at the end of its budget is announced as a retry and terminated
  (`VerdictMatchesEvent` excepts it);
* a task can be announced dead without a dead letter record: `Push` may fail (its error
  is joined and the run goes on), and a task that a guard or a panic kills never reaches
  the stage. `core/queue/middleware_stage.go:38` reads as if the stage recorded every
  task that failed for good;
* a slot that comes after `AckWait`, or so late that the first report does, makes a task
  run twice with every worker up and no timeout (`late`); at the end of its budget the
  second run may then be recorded dead while the first succeeds.

### 2.4 CronRuns

`run[r]` is one call of `Dispatch` (where it is, on which process, scheduled or by hand,
its result, whether its context lives); `handler[r]` is the goroutine of the template's
handler, which outlives a run that times out. `entry` holds what an entry and its
template say. `lock` is per key: a scheduled run of a database entry locks `db.<id>`,
`RunOnce` locks the id it is given, and the two differ if the repository knows the entry
without the prefix (`RawIds`). The deferred unlock runs *before* the deferred report, as
the order of the `defer`s in `execute` has it. Reading the code for this module showed:

* the report of a run that has given its lock back may overwrite the status of the next
  run, and a run that was refused the lock overwrites that of the run that has it; so
  only one direction of "shown as running" is a property (`RunningIsReal`);
* a template with its log disabled is not held to `MaxRunCount`, which is counted by the
  call that writes the log; `LimitHolds` is about the others;
* `Entry.LockKey` and `Entry.Distributed` are not read by `acquireRuntimeLock`.

### 2.5 CronScheduler

Each element of `Calls` is one call of `Start`, `Reload` or `Stop`. The jobs are loaded
before `mu` is taken and shown by `SetSchedule` after it is released, so two calls may
cross (`crossed`). `Reload` and `Stop` hold `mu` while they wait for the jobs of the old
Cron. A call may be made by the handler of a run (`by`), which then cannot end before the
call: the one case in which calls do not return (`WaitsForItself`). A list of jobs is
taken for what `jobsSignature` covers: a change of payload, label or run limit alone is
no change for `Reload`. `Scheduler.Stop` waits for the jobs of the Cron, and so not for a
handler that a time-out has left behind.

### 2.6 TaskRecords

`rec` is the state in the record, `msg[m]` what the broker and the run at work know of a
message, `strays` the runs that go on although the broker has taken them for lost
(`Overtake`, by a lapsed lease or `AckWait`), `call[c]` where a call of the producer's side
stands: one that submits, polls the schedule, retries automatically or requeues. `shape`
fixes the driver, the budget, JetStream's `MaxDeliver` and which optional interfaces the
store has. The store's methods belong to the application; each does in one step what its
name says, or fails and leaves the record. A guard refuses a task with the error of the
rate limit or, as the lock, the concurrency limit and the hooks do, a plain one (`Refuse`);
`TaskStoreMiddleware` is inside the guards and learns of neither. `odd` collects what
excuses a record that is wrong: a process that died (`died`, `crash`), a run that was
overtaken (`overlap`), a write that was dropped (`unwritten`), a `lost reply`, two writers
at a time (`race`), an operator (`by hand`), a record deleted by a requeue (`purged`), a
task whose last try a guard refused (`refused`), one that is out of deliveries with
budget left (`spent`), one the record has as failed while the broker goes on (`goes on`), a
dispatch of which a store without submission records is not told (`unrecorded`). A
behaviour has at most one fault (`Faultless`): the excuses would otherwise cover each
other. `BatchBreaks` is a `BatchEnqueue` without submission records of which the broker
refuses a later task: none of the batch is recorded, although it has the earlier ones.
How an overlap comes about, and when, is `NatsDelivery`'s subject; a run is overtaken here
while its handler is at work. What the model shows of the code:

* `Enqueue` writes `pending` after the broker has the task, and does not look: a quick
  worker's `succeeded` is overwritten (`race`);
* a fatal error sets the record to `failed` while the broker still has a try for the task,
  so the auto-retry loop may submit it a second time (`goes on`);
* a task whose last try a guard refuses, by a held lock for instance, is archived by asynq
  and terminated by NATS with its record at the state before (`refused`); with asynq the
  rate limit alone is not counted as a try;
* `finishStoredTaskRun` compares the retry count with the budget alone. A task whose
  budget allows more tries than `MaxDeliver` gets no other delivery, and its record
  stays `retry` (`spent`);
* a run that was overtaken writes the record after the run that took its place: the
  record of a task that has ended may go back to `retry` (`overlap`);
* a store without `TaskSubmissionStore` is not told of a dispatch by the poller, the
  auto-retry loop or a requeue, so the record stays as it was and is handed out again,
  beside the message it already has (`unrecorded`).

The first two and the overlap are races the code does not close: the properties name them
as exceptions and show that there are no others.

### 2.7 Realtime

`holder` is `Store.clients`, `user` the identity of each client object, the other
variables the maps of the same names. `conn[k]` is one connection: its read loop
(`reader`), its write loop (`writer`), whether its context has ended (`cancelled`), its
socket (`closed`) and its peer, which may read and write, be silent, or have left. A
silent peer lets neither a read nor a write end; the goroutine that waits for the context
(`AfterCancel`) closes the socket and ends both. `late` and `offline` name the exceptions:

* `Join` and `Heartbeat` do not ask whether there is a client, so a late call leaves a
  room or a heartbeat behind that only the next client of that id can remove;
* the registry is keyed by client id. A client that reconnects before its old connection
  has ended takes the place of the old one, whose deferred disconnect then removes the
  new client by that id: it stays connected and unreachable.

### 2.8 EventBus

`Route` is the order in which each driver's `Subscribe` checks that the bus is open,
attaches to the broker and registers; `Close` and the end of a context come between any
two of these steps. `inbox` is what has reached a subscription's client, `hand` what its
handler is at. `due` are the pairs of a subscription that listened and an event published
meanwhile, `lost` those that a fault kept apart. As buses are alike, one subscription is
fixed to one bus (`OneFixed`). What the model shows of the code:

* a consumer group begins at the end of the stream (`$`), and `XREADGROUP` only ever asks
  for new entries: an event whose handler failed, whose reply was lost or whose consumer
  died stays pending for good;
* a batch that has been read is handled to its end even if the context has ended, but its
  acknowledgements then fail;
* a panic of a handler is recovered and counts as success;
* closing a NATS bus unsubscribes and does not cancel the context of a handler at work.

### 2.9 ChunkUpload

`temp[s][i]` is the file of chunk `i`: absent, being written (`part`), broken off
(`torn`) or `whole`. `mu[s]` is the session's mutex, which a request takes after it has
looked the session up; `object` is the file under the path, for which all sessions ask.
No session is for an empty file: it has no chunk, and no request completes it. `RemoveAll`
is taken to succeed, and a chunk that is sent again to be the same. Sessions have no time
to live in the code, so there is no action for it. What the model shows of the code:

* the file of a transfer that broke off counts as received; the next request may merge
  it, and `UploadStatus` reports nothing missing;
* a request that waited for the mutex of a session that was completed meanwhile goes on
  and writes its chunk into a directory nobody removes (`late`); if every chunk comes
  late, the upload completes a second time;
* `Close` takes fields of the `FileSystem` away without a lock, and a request at that
  point panics; what it leaves is `Refused`.

## 3. The runs

| Run | Instance | What it checks |
|---|---|---|
| `lifecycle_runs` | 2 capabilities, a service and a job, one other stopper, 2 runs of the App; fair | `OwnsShutdown`, `FailureIsVisible`, `ShutdownAtMostOnce`, `ProviderStoppedOnce`, `ReverseShutdownOrder`, `CallsReturn` |
| `lifecycle_leak` | 1 and 1 | violation of `RunAllProvidersOwnsShutdown` (finding 1) |
| `dependency_sort` | every graph on 3 items, every target; fair | `Verdict`, `DependenciesFirst`, the refinement `Implements`, `Terminates` |
| `nats_faults` | 2 workers, one mortal, 2 deliveries, budgets unset, 0 and 1, a producer configured otherwise, slots and first reports that come late, 3 outcomes of a handler and 2 refusals; fair | `SettledForCause`, `OverlapIsExcused`, `NotBothDoneAndDead`, `VerdictMatchesEvent`, `EventMatchesState`, `AttemptsWithinBudget`, `EventuallySettled` |
| `nats_final` | 1 worker | violation of `DeadLetterIsFinal` (finding 2) |
| `cron_overlap` | 2 runs, 2 processes, one mortal, lock service and store may fail, logged or not | `OverlapIsExcused`, `RunningIsReal` |
| `cron_live` | 2 runs of an entry limited to one, with and without a timeout, a mortal process; fair | `RecordsAreClosed`, `LimitHolds`, `LockComesFree`, `RunsReturn` |
| `cron_calls` | 3 calls of any kind, 2 lists of jobs, one run that may call back; fair | `OneListAtATime`, `StoppedStaysStopped`, `ScheduleIsLatest`, `CallsReturn` |
| `task_records` | 3 calls, 2 messages, a budget of 1, `MaxDeliver` 1 and 2, both brokers, every optional interface, 3 outcomes of a handler and 2 refusals, one fault; calls and messages interchangeable | `SubmittedIsRecorded`, `StuckIsExcused`, `OneAtATime` |
| `realtime_conns` | 2 connections of one id, 2 users, 1 room, calls from outside; fair | `IndexesAgree`, `LeftoversAreLate`, `OpenIsRegistered`, `ConnectionsEnd` |
| `event_bus` | 2 buses, 2 subscriptions, 2 events, all drivers, faults, a stream trimmed beyond 1, batches of 2; fair | `HandledOnce`, `ClosedEnds` |
| `chunk_upload` | 2 sessions for one path, 2 chunks, 3 requests; sessions and requests interchangeable | `CompleteIsWhole`, `CompletesOnce`, `NothingIsLeft`, `NothingMissingIsComplete` |

Why the bounds are enough. *Lifecycle:* every race is between one Stop and one boot, or
between two Stops (the other stopper's and the Runner's own); two objects of each kind
give "before" and "after", two runs the Stop that is overtaken by the next run.
*Sort:* three items are the fewest with a diamond or a cycle beside a chain; any number
is covered by the proofs. *Delivery:* an overlap needs two deliveries, and a budget is
passed at the first, at the second or not at all; the stages treat the errors that the
instance leaves out as one of those it has, and the safety properties are also proved
for any number and any error. *Crontab:* an overlap is of two runs; a call that crosses a
reload, with one before to start the scheduler, makes three calls. *Task records:* the
submission and two calls that compete for the task afterwards, with the message they
leave beside the first. A `MaxDeliver` of 1 is below what the budget of 1 asks for, one of
2 is what it needs.
An `ignored` error is left to the theorems. Two messages do not reach a record that is
handed out a second time without a fault (`unrecorded` in `OneAtATime` takes a third); it
was found by the attempt to prove the property, and the theorem covers any number.
*Realtime:* ids do not interact but in the set of a user and of a room; two connections of
one id are the hard case, and the proofs cover any number.
*Event bus:* the other bus, subscription and event are what "another consumer of the
group" and "the rest of the batch" need. *Upload:* the one who completes, the one who
waits for the mutex and a third that comes later; two chunks give "the last" and
"another".

The bounds are the sets in the configurations, and in `AppLifecycle` also `MaxRuns`; no
state is cut off by a constraint. Each call, message, event, run and session happens
once; connections do not come back, another of the same id does.

`CHECK_DEADLOCK FALSE` stands where the system may really stop: a settled message, all
runs done, all calls made, all connections gone, all subscriptions over. In
`AppLifecycle` and `DependencySort` deadlock is checked.

The type invariants are left to the proofs, where a module has any. Every property of a
passing run is shown to depend on the code by a mutant: the faulty operator stands next
to the definition it replaces, under a comment that begins with "Faulty", and is used by
no action.

## 4. Fairness

* `AppLifecycle`: the Runner's steps and each Stop's steps are weakly fair, since a
  goroutine that can go on does and stop calls are cut off by `DefaultStopTimeout`;
  taking `stopMu` is strongly fair, as `sync.Mutex` starves no waiter. Jobs return;
  services, signals and the caller's context are free to do nothing.
* `DependencySort`: the functions run to their end.
* `NatsDelivery`: JetStream redelivers, handlers return, and one worker is not in
  `Mortal`. Nothing makes a worker stop or a timeout pass.
* `CronRuns`: a process runs its goroutines, a lease that is not refreshed lapses, a
  timeout fires. Handlers are fair only for entries without a timeout.
* `CronScheduler`: the steps of a call are strongly fair (Go's mutex), and handlers
  return, unless they wait for a call of theirs.
* `Realtime`: the goroutines of a connection go on when they can, and handlers return.
  A peer owes nothing: it may be silent for ever.
* `EventBus`: a Subscribe that has begun goes on, as do Close and the loops; handlers
  return. Nobody has to publish, cancel or close, and the loop of a stream need not read.
* `TaskRecords` and `ChunkUpload` state no fairness, and no liveness is checked of them:
  a caller may die or a client stop sending.

## 5. What is proved

All theorems hold for every value of the constants that satisfies the module's named
assumption (`LifecycleAssumption`, `SizeAssumption`, `DeliveryAssumption`,
`CronAssumption`, `SchedulerAssumption`, `RecordAssumption`, `RealtimeAssumption`,
`BusAssumption`, `UploadAssumption`), which say no more than that counts are naturals and
sets are of the right kind. Every safety property that a run checks is the property of a
theorem.

**AppLifecycle.** `TypeCorrect`; `NoDoubleShutdown` (`ShutdownAtMostOnce`);
`StopIsExclusive`. `ShutdownAtMostOnce` is not inductive: a Stop works on a snapshot, and
an overlapping `Prepare` or rollback changes the lists behind it. The invariant adds
`MutexInv` (who is inside a Stop holds `stopMu`, so at most one), `ListInv` (a list of
capabilities, the snapshot included, names each once) and `CountInv` (for each capability
the shutdowns so far, plus the one that a list still owes, do not exceed the
registrations). For the other properties (`RunOwnsShutdown`, `OneStopPerRun`,
`FailureStays`, `ShutdownIsReversed`) it grows to `LifeInv`, which relates the snapshot
of a Stop to the place of the boot:

* `BootInv`, `SnapshotInv`: every list and every snapshot is in boot order, and a Stop
  leaves nothing of its snapshot. A list and the snapshot taken of it shrink from the end,
  so what is stopped next is above all that is left: this is the reverse order.
* `RunInv`, `LateInv`, `ReachInv`: a run that has returned is stopped; unless `late`, every
  Stop inside is of this run, nothing comes up while one is inside or after it, and none
  has in its snapshot what boots later.
* `RegInv`, `StartInv`, `RollInv`: unless `late`, `CountInv` is an equation, and each start
  of a provider is covered by a stop that was made or that a list or a rollback owes. With
  nothing owed at the return of the run, all has been stopped (`OwnsShutdown`).
* `OnceInv`: unless `raced`, the stops of a provider, plus the one a Stop owes, plus the
  one this run may still come to owe, are no more than the runs.
* `FailInv`: unless `raced`, no Stop has a provider in its snapshot once one has failed
  and is being rolled back, nor will it have, so the status stays.

**DependencySort.** `SortTypeCorrect`, `SortRefines` (`Spec => BootOrder!Spec`),
`SortedByDependency`, which follows from it and from `PlacesInOrder` of `BootOrder`, and
`VerdictIsRight`. The invariant: `Unsorted`
(phases do not mix), `WalkClosed` (visited items are closed under dependencies, active
ones are distinct, and what an active item has left behind is visited or just above it),
`DegreeCounts` (a degree is the number of dependencies not yet placed, also in the middle
of the scan that drops the edges of the latest item) and `QueueReady` (queued and placed
items are distinct and have degree zero). Hence an item is taken only when all it depends
on is placed, which is a step of `BootOrder`. In particular no degree goes below zero.

`Verdict` says what the sort computes as a whole, against `Needed`, the least closed set
around the target, and `Acyclic`. The walk stays inside what is needed (`Guided`) and is
closed when it ends, so by leastness it has chosen all of it (`Chosen`); an item met a
second time closes a cycle of active items, as each depends on the one above (`BackEdge`).
What is placed is closed and acyclic (`Placed`), since an item added last depends only on
what was there (`PlacingKeepsAcyclic`). And when the queue is empty with items left, each
of these has a dependency left (`Queued` with `DegreeCounts`), so they are the witness of
a cycle (`LeftOver`).

**NatsDelivery.** `TypeCorrect`, and every safety property that is checked:
`VerdictsMatchEvents`, `EventsMatchStates`, `SettlementsHaveCause`, `OverlapsAreExcused`,
`DoneOrDead`, `AttemptsAreBudgeted`. The invariant has two halves. *Local:* `RunsFit` says
for each place of a run what its error, state, event and verdict may be, given its retry
count and the two budgets; each step of a run is shown to keep it, from lemmas about the
operators of `TaskStages` (`Transitions`, `AfterRetry`, `AfterFinish`). *Global:* `Ledger`
and `Chain` follow the deliveries (before each redelivery the latest run asked for a
retry or the broker gave up waiting), `Calm` that as long as nothing excuses an
overlap the broker never gives up on a delivery and hears of the end of the latest run,
`Told` that a settled message has the run that asked for it, and `Accounted` that
deliveries made and owed do not exceed one, plus the expiries, plus the retries asked
for, of which there are no more than the budget.

**CronRuns.** `TypeCorrect`, and every safety property that is checked:
`OverlapsAreExcused`, `RunningReal`, `RecordsClosed`, `LimitsHold`. None of them is
inductive. The invariant adds, for each run (`Fits`): where a handler may still be going
(`HandlerFits`: a run that has left an active handler behind timed out), that a guarded
run between lock and unlock owns the lock of its key or its lease has lapsed
(`LockFits`), that what reaches the handler of a logged template has been counted by the
store (`CountFits`), and what the record of a run can be before and after its report
(`RecordFits`); and for all of them that the store's count stays within the limit
(`CountInLimit`) and that an entry shown as running has a run that will still report
(`ShownIsReal`, which needs that a run stopped by the limit, which does not report, has
never been shown). A step of one run can disturb another only by taking its lock, which
only `Lapse` does (`OthersFit`, `RunStep`); so each action is looked at for its own run.
`LimitsHold` rests on a store that checks the limit and counts the run in one atomic call
of `MarkRunning`; the program only has the interface and the error of the limit, and what
is proved is that `Dispatch` never runs a handler the store has refused.

**CronScheduler.** `SchedulerTyped`, `ListsDoNotOverlap` (`OneListAtATime`), `StopLasts`
(`StoppedStaysStopped`) and `LatestIsScheduled` (`ScheduleIsLatest`). The invariant: a run that is active was begun by the Cron there
is, and that one is running (`RunsOfRunning`); only a call of that kind reaches the
scheduler's Start or Stop (`OpsAreTheirs`); after a Stop the scheduler is not running and
nobody is on the way to a Start (`StoppedIsQuiet`); and what runs is a Cron
(`RunningIsSome`). For the last theorem `UntilCrossed`: as long as no two calls have
crossed, one call at most is between its loading and its showing, with the list loaded
last; from the swap on the Cron has that list, and with nobody applying `RuntimeState`
shows it too.

**TaskRecords.** Every safety property that is checked, for any number of calls and
messages, any budget, `MaxDeliver` and errors; the model's bound of one fault stays.
`TasksAreRecorded` (`SubmittedIsRecorded`): without a purge the record, once written, is
never gone (`UntouchedUnlessPurged`), and while a purge has left the task without one, a
call that will record the dispatch is on its way, or a fault or a missing interface of
the store excuses it (`PurgeIsRepaired`). The two others rest on what a message can be
(`Shaped`). `TasksHaveOneMessage` (`OneAtATime`): unless excused, one message lives, where
a message whose run has ended for good counts as dead although the broker does not know
yet (`Live`, `Doomed`: out of tries or of deliveries), and none does while a call is about
to ask the broker or the record may be handed out (`HandedOutIsOver`). A worker that dies
with such a message brings it back to life at NATS, which looks at deliveries alone, and
so adds `goes on`. The step that breaks the invariant without a submission interface is
how `unrecorded` came to be among the excuses. `NoTaskIsStuck` (`StuckIsExcused`): unless
excused, a record that shows a task under way has a call in flight or an unfinished
message behind it (`UnderWayHasOwner`), a call the broker has accepted has its message
(`AcceptedIsHeld`), and a requeue deletes only what is over (`RequeueFindsItOver`).

**Realtime.** `RealtimeTyped`, `RegistryIndexed`, `NothingLeft`, `ConnectionsRegistered`:
every safety property that is checked. The four are shown together (`Inv`): the registry's
own part (`StoreOK`) is kept by each of its calls, whoever makes it, and that the clients
of open connections are registered only needs, of the steps of a connection, whether it
begins, stays open (`Goes`) or ends.

**EventBus.** `EachHandledOnce` (`HandledOnce`), for any number of buses, subscriptions and
events, each driver, any length of the stream and any batch. The invariant: an event is
published once, and a subscription has it waiting, has handled it once, or neither
(`HandledFits`). Without a consumer group, what is due to a subscription in use waits, has
been handled or was lost for a reason (`DueFits`). With one, what the group has read has
one consumer or is lost, what was trimmed before it was read is lost, and what waits with
a consumer is pending (`GroupFits`). The steps of Subscribe, Close and a context's end
are dealt with together: they publish and handle nothing, and a subscription that goes on
keeps what it has (`Control`).

**ChunkUpload.** `TypeCorrect`, `MutexProtects` (of the requests for a session one at most is
past the mutex) and every property that is checked: `WholeWhenComplete`, `CompletedOnce`,
`NothingLeft`, `MissingOrComplete`. The invariant is of three kinds. `RequestFits`: a
request past the wait has its session's mutex, and it merges only when all chunks are
there, for a deleted session only if all came late. `SessionFits`: a file that is torn is
of a session that had a transfer break off, a file being written has its writer at work,
and of a session that is over only late chunks are left; between requests an open session
lacks a chunk, unless something broke off or a merge failed. `ObjectFits`: while one
session alone has put its file, that file is not mixed, and whole once it is complete.
`CompleteIsWhole` and `NothingIsLeft` need no exception for a session that is being worked
on, as the proof showed; `NothingMissingIsComplete` keeps it, since the request that has
put the last chunk in place is about to merge.

**Only model-checked:** liveness, since it rests on fairness and `ENABLED`: `CallsReturn`
of the App and of the scheduler, `Terminates`, `EventuallySettled`, `LockComesFree`,
`RunsReturn`, `ConnectionsEnd` and `ClosedEnds`.

## 6. Findings

1. **A Stop during the boot leaks what boots after it** (`core/runtime/app.go:211`).
   `App.Stop` snapshots the lists and sets `stopped`; the loop that registers
   capabilities does not look at it, and the final Stop returns at once because the App
   is stopped already. What was registered or started in between is never shut down, in
   spite of `TestPhase6RunAllProvidersOwnsShutdown`. Run `lifecycle_leak`; `OwnsShutdown`
   is the same property with that case excepted.
2. **A dead task runs again** (`pkg/queue/nats/client.go:452`). `rejectMessage` looks at
   the retry count only; a fatal error with budget left is answered with `NakWithDelay`,
   although the run has ended in state `deadletter`, which
   `tests/core/queue/runtime_orchestrator_phase3_test.go:178` declares final. Run
   `nats_final`; `NotBothDoneAndDead` excepts fatal errors for that reason.

## 7. Known and not covered

What reading the code showed in places that no module covers, or that a module leaves out:

* `runLifecycle` (`core/runtime/lifecycle.go:249`) returns at the stop timeout while the
  provider's Stop is still executing, and the next object is stopped beside it.
* The dead letter store may refuse a record, or a task die outside its stage
  (`core/queue/runtime/middleware/deadletter.go:23`): the task is announced dead and is
  nowhere to be found.
* `jobsSignature` (`core/crontab/robfigcron/scheduler.go:58`) leaves out payload, label and
  run limit: after such a change Reload keeps the jobs it has. The jobs run with the
  context Reload was called with (line 73); called with a request's, all later runs of
  them are cancelled.
* `Get` of the cache (`pkg/cache/memory/store.go:43`) finds an item expired under the read
  lock and deletes the key under the write lock without looking again: a `Set` in between
  is lost.
* The cleanup of the rate limiter's memory store (`pkg/ratelimit/store/memory.go`) compares
  the window of a counter, which is counted in units of its ttl, with one counted in
  seconds, and so drops the current counter of every window longer than a second whenever
  it runs, although its comment says that it keeps the latest two; and it drops a sliding
  window whose last entry is an hour old, however long the window is.
* `BatchEnqueue` stops at the first task the broker refuses: the ones before are at the
  broker, and without submission records none of them is recorded (`BatchBreaks` in
  `TaskRecords`).
* `LaunchService` counts a start at the `go` statement (`core/runtime/lifecycle.go:125`): a
  Stop of a provider whose goroutine has not yet called its `Start` is not a step apart.
* A cron handler that returns `StatusRunning` or `StatusSkipped` itself has it passed on
  as it is (`core/crontab/runner.go:156`); `CronRuns` has success, failure and panic.
* A stream's loop looks at its context and then reads
  (`pkg/eventbus/redisstream/bus.go:189`): one step in `EventBus`. A batch read just after
  the cancellation is as good as one read just before it.
* For a NATS bus, `over` means unsubscribed; the goroutine of the subscription
  (`pkg/eventbus/nats/bus.go:160`) ends with its own context only.
* `ScheduleIsLatest` is about the list that `Start`, `Reload` and `Stop` show; whoever else
  writes the shown items through the manager is left out.
* A payment's `CanTransition` lets a late "succeeded" follow a partial refund or an
  expiry. Records and the order of notifications are the application's, so the package has
  no state to model.
* The reporter's progress sink loads a snapshot, applies an event and saves it without a
  lock: of two events at a time one is lost.

## 8. Plan

Done: 1 `AppLifecycle`, 2 `BootOrder` and `DependencySort`, 3 `TaskStages` and
`NatsDelivery`, 4 `CronRuns`, 5 `CronScheduler`, 6 `TaskRecords`, 7 `Realtime`, 8 `EventBus`
and `ChunkUpload`, 9 proofs of every safety property of these.

Next, in this order:

10. The crontab's batch log writer: its buffer, the flush ticker and Stop.
11. `CacheMemory` and the rate limiter's memory store, with the races of section 7.
12. The reporter's snapshot sink, and payment states under notifications that repeat and
    overtake each other, with the application's record as an external.

Abstract specifications worth stating besides `BootOrder`: a lock with leases
(`CronRuns`' `lock`, shared with the queue's lock stage), and an at-least-once delivery
(`NatsDelivery`'s broker, shared with the redis stream bus).
