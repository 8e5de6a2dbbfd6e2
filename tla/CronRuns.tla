------------------------------ MODULE CronRuns ------------------------------
(***************************************************************************)
(* core/crontab: the runs of one database entry, from Registry.Dispatch to *)
(* the report of their result, on the processes that share a lock service  *)
(* and a store.                                                            *)
(*                                                                         *)
(* Locker and Store are interfaces the program is given: the lock is a     *)
(* lease with an owner, which lapses unless it is refreshed; the store     *)
(* counts runs and keeps one record per run.  A run starts at a tick of    *)
(* the scheduler or by hand, through RunOnce.  Runs of a template without  *)
(* an entry have an id, and so a lock, of their own and are left out.      *)
(***************************************************************************)
EXTENDS Naturals, FiniteSets

CONSTANTS
    Instances,      \* the processes
    Runs,
    NoRun,
    RawIds,         \* the repository knows the entry without the "db." prefix
    Overlaps,       \* whether its template may allow overlap,
    Unlogged,       \* may have its log disabled,
    Timeouts,       \* and whether it, or the request, may set a timeout
    Limits,         \* the MaxRunCount it may have, 0 for none
    LockEnabled,    \* of the configuration
    LockFails,      \* whether calls of the lock service may fail
    StoreFails,     \* whether calls of the store may fail
    Mortal          \* the processes that may be killed

ASSUME CronAssumption ==
    /\ Instances # {}
    /\ Mortal \subseteq Instances
    /\ NoRun \notin Runs
    /\ Overlaps \subseteq BOOLEAN
    /\ Unlogged \subseteq BOOLEAN
    /\ Timeouts \subseteq BOOLEAN
    /\ Limits \subseteq Nat
    /\ {RawIds, LockEnabled, LockFails, StoreFails} \subseteq BOOLEAN

VARIABLES
    entry,    \* what the entry and its template say, fixed
    run,      \* run -> where Dispatch is, and what it has found
    handler,  \* run -> the goroutine that executes the template's handler
    lock,     \* key -> the run that owns it
    counted,  \* runs the store has counted against MaxRunCount
    record,   \* run -> its record in the store
    info,     \* process -> RuntimeInfo of the entry
    up,       \* processes that have not been killed
    lapsed    \* runs whose lock lapsed before they gave it back

vars == <<entry, run, handler, lock, counted, record, info, up, lapsed>>

Origins == {"tick", "manual"}
Keys == {"raw", "db"}

AllowOverlap == entry.allowOverlap
LogDisabled == entry.logDisabled
HasTimeout == entry.hasTimeout
MaxRunCount == entry.maxRunCount
Guarded == LockEnabled /\ ~AllowOverlap

Places == {"idle", "lock", "mark", "show", "handler", "unlock", "store", "report", "done", "dead"}
Results == {"none", "success", "failed", "panic", "timeout", "locked", "disabled", "limit"}

NewInfo == [status |-> "waiting", runs |-> 0, ok |-> 0, failed |-> 0, skipped |-> 0]

Entries == [allowOverlap : Overlaps, logDisabled : Unlogged, hasTimeout : Timeouts,
            maxRunCount : Limits]

Init ==
    /\ entry \in Entries
    /\ run = [r \in Runs |-> [pc |-> "idle", on |-> CHOOSE i \in Instances : TRUE,
                              origin |-> "tick", result |-> "none", ctx |-> TRUE]]
    /\ handler = [r \in Runs |-> "none"]
    /\ lock = [k \in Keys |-> NoRun]
    /\ counted = {}
    /\ record = [r \in Runs |-> "none"]
    /\ info = [i \in Instances |-> NewInfo]
    /\ up = Instances
    /\ lapsed = {}

-----------------------------------------------------------------------------
\* runtimeLockKey: the id of the entry, whatever LockKey says.  prepareJob
\* prefixes the ids of scheduled jobs; RunOnce takes the id as it comes.
KeyOf(r) == IF run[r].origin = "manual" /\ RawIds THEN "raw" ELSE "db"

Owns(r) == lock[KeyOf(r)] = r
At(r, pc) == run[r].pc = pc
Leaves(r, pc, result) == run' = [run EXCEPT ![r].pc = pc, ![r].result = result]
Goto(r, pc) == Leaves(r, pc, run[r].result)

Shown(i, status) == info' = [info EXCEPT ![i].status = status]

-----------------------------------------------------------------------------
(* Dispatch.                                                               *)

\* Validation passed: what the run needs next.
Begin(r, i, origin) ==
    /\ At(r, "idle")
    /\ i \in up
    /\ run' = [run EXCEPT ![r] = [@ EXCEPT !.pc = IF Guarded THEN "lock" ELSE "mark",
                                           !.on = i, !.origin = origin]]
    /\ UNCHANGED <<entry, handler, lock, counted, record, info, up, lapsed>>

\* The entry is disabled, or its template has no handler.
Reject(r, i, origin, result) ==
    /\ At(r, "idle")
    /\ i \in up
    /\ run' = [run EXCEPT ![r] = [@ EXCEPT !.pc = "store", !.on = i, !.origin = origin,
                                           !.result = result]]
    /\ UNCHANGED <<entry, handler, lock, counted, record, info, up, lapsed>>

\* acquireRuntimeLock.  An error, a dead context among them, fails the run.
\* Faulty: a lock that is taken is taken over.
TakeOver(r) ==
    /\ At(r, "lock")
    /\ Goto(r, "mark")
    /\ lock' = [lock EXCEPT ![KeyOf(r)] = r]
    /\ UNCHANGED <<entry, handler, counted, record, info, up, lapsed>>
TryLock(r) ==
    /\ At(r, "lock")
    /\ \/ /\ lock[KeyOf(r)] = NoRun
          /\ Goto(r, "mark")
          /\ lock' = [lock EXCEPT ![KeyOf(r)] = r]
       \/ /\ lock[KeyOf(r)] # NoRun
          /\ Leaves(r, "store", "locked")
          /\ UNCHANGED lock
       \/ /\ LockFails \/ ~run[r].ctx
          /\ Leaves(r, "store", "failed")
          /\ UNCHANGED lock
    /\ UNCHANGED <<entry, handler, counted, record, info, up, lapsed>>

\* writeRuntimeRunning, the store's part.  A template with LogDisabled does
\* not ask the store, which counts the runs.  A call that fails may have been
\* carried out.
AtLimit == MaxRunCount > 0 /\ Cardinality(counted) >= MaxRunCount

\* Faulty: the error is ignored, as are those of the other calls.
MarkAnyway(r) ==
    /\ At(r, "mark")
    /\ Goto(r, "show")
    /\ counted' = counted \union {r}
    /\ record' = [record EXCEPT ![r] = "running"]
    /\ UNCHANGED <<entry, handler, lock, info, up, lapsed>>
MarkRunning(r) ==
    /\ At(r, "mark")
    /\ \/ /\ LogDisabled
          /\ Goto(r, "show")
          /\ UNCHANGED <<counted, record>>
       \/ /\ ~LogDisabled
          /\ ~AtLimit
          /\ Goto(r, "show")
          /\ counted' = counted \union {r}
          /\ record' = [record EXCEPT ![r] = "running"]
       \/ /\ ~LogDisabled
          /\ AtLimit
          /\ Leaves(r, "unlock", "limit")
          /\ UNCHANGED <<counted, record>>
       \/ /\ ~LogDisabled
          /\ StoreFails \/ ~run[r].ctx
          /\ Leaves(r, "unlock", "failed")
          /\ \/ UNCHANGED <<counted, record>>
             \/ /\ ~AtLimit
                /\ counted' = counted \union {r}
                /\ record' = [record EXCEPT ![r] = "running"]
    /\ UNCHANGED <<entry, handler, lock, info, up, lapsed>>

\* RuntimeState.MarkRunning, and the handler starts.
ShowRunning(r) ==
    /\ At(r, "show")
    /\ Goto(r, "handler")
    /\ handler' = [handler EXCEPT ![r] = "active"]
    /\ Shown(run[r].on, "running")
    /\ UNCHANGED <<entry, lock, counted, record, up, lapsed>>

\* The handler returns or panics.  A run that has timed out takes no notice.
Return(r, result) ==
    /\ handler[r] = "active"
    /\ handler' = [handler EXCEPT ![r] = "over"]
    /\ IF At(r, "handler") THEN Leaves(r, "unlock", result) ELSE UNCHANGED run
    /\ UNCHANGED <<entry, lock, counted, record, info, up, lapsed>>

\* runRuntimeHandler leaves the handler's goroutine behind.  The context it
\* watches ends with its parent, too.
\* Faulty: it waits for the handler.
TimeOutAfterHandler(r) ==
    /\ HasTimeout
    /\ At(r, "handler")
    /\ handler[r] = "over"
    /\ Leaves(r, "unlock", "timeout")
    /\ UNCHANGED <<entry, handler, lock, counted, record, info, up, lapsed>>
TimeOut(r) ==
    /\ HasTimeout
    /\ At(r, "handler")
    /\ Leaves(r, "unlock", "timeout")
    /\ UNCHANGED <<entry, handler, lock, counted, record, info, up, lapsed>>

\* The deferred unlock runs before the deferred report.  Its error, which a
\* dead context is enough for, is ignored: the lock is left to lapse.
Unlock(r) ==
    /\ At(r, "unlock")
    /\ Goto(r, "store")
    /\ \/ lock' = [k \in Keys |-> IF lock[k] = r THEN NoRun ELSE lock[k]]
       \/ /\ LockFails \/ ~run[r].ctx
          /\ UNCHANGED lock
    /\ UNCHANGED <<entry, handler, counted, record, info, up, lapsed>>

\* finishRuntime says nothing of a run that came to the limit, and does not
\* look at the error of the store.
\* Faulty: a run that failed is not reported either.
FinishStoreOnSuccess(r) ==
    /\ At(r, "store")
    /\ Goto(r, IF run[r].result = "success" THEN "report" ELSE "done")
    /\ record' = [record EXCEPT ![r] = IF run[r].result = "success" THEN "closed" ELSE @]
    /\ UNCHANGED <<entry, handler, lock, counted, info, up, lapsed>>
FinishStore(r) ==
    /\ At(r, "store")
    /\ Goto(r, IF run[r].result = "limit" THEN "done" ELSE "report")
    /\ \/ /\ run[r].result # "limit"
          /\ ~LogDisabled
          /\ record' = [record EXCEPT ![r] = "closed"]
       \/ /\ run[r].result = "limit" \/ LogDisabled \/ StoreFails \/ ~run[r].ctx
          /\ UNCHANGED record
    /\ UNCHANGED <<entry, handler, lock, counted, info, up, lapsed>>

\* runtimeStatus.
StatusOf(result) ==
    CASE result = "success" -> "success"
      [] result = "locked" -> "skipped"
      [] result = "disabled" -> "disabled"
      [] OTHER -> "failed"

\* Faulty: a skipped run is not counted among the runs.
TalliedUnlessSkipped(x, status) ==
    [x EXCEPT !.runs = IF status = "skipped" THEN @ ELSE @ + 1,
              !.ok = IF status = "success" THEN @ + 1 ELSE @,
              !.failed = IF status = "failed" THEN @ + 1 ELSE @,
              !.skipped = IF status = "skipped" THEN @ + 1 ELSE @]
Tallied(x, status) ==
    [x EXCEPT !.runs = @ + 1,
              !.ok = IF status = "success" THEN @ + 1 ELSE @,
              !.failed = IF status = "failed" THEN @ + 1 ELSE @,
              !.skipped = IF status = "skipped" THEN @ + 1 ELSE @]

\* RuntimeState.MarkFinished: the latest report is what is shown.
Report(r) ==
    /\ At(r, "report")
    /\ Goto(r, "done")
    /\ LET i == run[r].on
           status == StatusOf(run[r].result)
       IN info' = [info EXCEPT ![i] = [Tallied(@, status) EXCEPT !.status = status]]
    /\ UNCHANGED <<entry, handler, lock, counted, record, up, lapsed>>

-----------------------------------------------------------------------------
(* The lock service, the contexts and the processes.                       *)

\* refreshLock: from TryLock until the deferred unlock, while the context
\* lives.
\* Faulty: the refresher outlives both.
RefreshingForever(r) ==
    /\ run[r].on \in up
    /\ run[r].pc # "idle"
Refreshing(r) ==
    /\ run[r].on \in up
    /\ run[r].pc \in {"mark", "show", "handler", "unlock"}
    /\ run[r].ctx

\* The lease of a lock that is not refreshed lapses.
Lapse(k) ==
    /\ lock[k] # NoRun
    /\ ~Refreshing(lock[k]) \/ LockFails
    /\ lock' = [lock EXCEPT ![k] = NoRun]
    /\ lapsed' = lapsed \union {lock[k]}
    /\ UNCHANGED <<entry, run, handler, counted, record, info, up>>

\* The context RunOnce or Reload was called with ends.
CancelContext(r) ==
    /\ run[r].pc \notin {"idle", "done", "dead"}
    /\ run[r].ctx
    /\ run' = [run EXCEPT ![r].ctx = FALSE]
    /\ UNCHANGED <<entry, handler, lock, counted, record, info, up, lapsed>>

Kill(i) ==
    /\ i \in up \intersect Mortal
    /\ up' = up \ {i}
    /\ run' = [r \in Runs |-> IF run[r].on = i /\ run[r].pc \notin {"idle", "done"}
                                THEN [run[r] EXCEPT !.pc = "dead"] ELSE run[r]]
    /\ handler' = [r \in Runs |-> IF run[r].on = i /\ handler[r] = "active"
                                    THEN "over" ELSE handler[r]]
    /\ UNCHANGED <<entry, lock, counted, record, info, lapsed>>

-----------------------------------------------------------------------------
Steps(r) ==
    \/ TryLock(r)
    \/ MarkRunning(r)
    \/ ShowRunning(r)
    \/ Unlock(r)
    \/ FinishStore(r)
    \/ Report(r)

HandlerResults == {"success", "failed", "panic"}

Next ==
    \/ \E r \in Runs, i \in Instances, origin \in Origins :
          \/ Begin(r, i, origin)
          \/ \E result \in {"disabled", "failed"} : Reject(r, i, origin, result)
    \/ \E r \in Runs :
          \/ Steps(r)
          \/ \E result \in HandlerResults : Return(r, result)
          \/ TimeOut(r)
          \/ CancelContext(r)
    \/ \E k \in Keys : Lapse(k)
    \/ \E i \in Instances : Kill(i)

Spec == Init /\ [][Next]_vars

\* A process runs its goroutines, leases lapse, and a timeout fires.  Handlers
\* return only if nothing else ends their run.
FairSpec ==
    /\ Spec
    /\ \A r \in Runs :
          /\ WF_vars(Steps(r))
          /\ WF_vars(TimeOut(r))
          /\ WF_vars(~HasTimeout /\ \E result \in HandlerResults : Return(r, result))
    /\ \A k \in Keys : WF_vars(Lapse(k))

-----------------------------------------------------------------------------
(* Properties.                                                             *)

RunType ==
    [pc : Places, on : Instances, origin : Origins, result : Results, ctx : BOOLEAN]

Statuses == {"waiting", "running", "success", "failed", "skipped", "disabled"}
InfoType == [status : Statuses, runs : Nat, ok : Nat, failed : Nat, skipped : Nat]

\* Every variable stays in its type, and the figures shown of an entry do not
\* exceed its runs.
TypeOK ==
    /\ entry \in Entries
    /\ run \in [Runs -> RunType]
    /\ handler \in [Runs -> {"none", "active", "over"}]
    /\ lock \in [Keys -> Runs \union {NoRun}]
    /\ counted \subseteq Runs
    /\ record \in [Runs -> {"none", "running", "closed"}]
    /\ info \in [Instances -> InfoType]
    /\ up \subseteq Instances
    /\ lapsed \subseteq Runs
    /\ \A i \in Instances : info[i].ok + info[i].failed + info[i].skipped <= info[i].runs

\* The handler of an entry that does not allow overlap is executed twice at a
\* time only if the two runs lock different keys (one was started by hand, of
\* an entry the repository knows without the prefix), a run timed out and left
\* its handler behind, or a lock lapsed under a run.
OverlapIsExcused ==
    \A r, s \in Runs :
       Guarded /\ r # s /\ handler[r] = "active" /\ handler[s] = "active" =>
         \/ KeyOf(r) # KeyOf(s)
         \/ "timeout" \in {run[r].result, run[s].result}
         \/ {r, s} \intersect lapsed # {}

\* An entry is shown as running only while a run of it is under way there.
\* (The converse fails: a run that was refused the lock, or that gave it back
\* and reports late, overwrites the status of the run in progress.)
RunningIsReal ==
    \A i \in up : info[i].status = "running" =>
       \E r \in Runs : run[r].on = i /\ run[r].pc \in {"handler", "unlock", "store", "report"}

\* The store's record of a run stays "running" only if its process was killed
\* or the store failed or refused the call.
RecordsAreClosed ==
    \A r \in Runs : record[r] = "running" /\ run[r].pc \in {"report", "done"} =>
       StoreFails \/ ~run[r].ctx

\* The handler is executed at most MaxRunCount times - for templates that are
\* logged: MarkRunning of the others does not ask the store.
LimitHolds ==
    MaxRunCount > 0 /\ ~LogDisabled =>
       Cardinality({r \in Runs : handler[r] # "none"}) <= MaxRunCount

\* Whatever becomes of its owner, a lock is given back.
LockComesFree ==
    \A r \in Runs, k \in Keys : lock[k] = r ~> lock[k] # r

\* A run that has begun returns, or its process is killed.
RunsReturn ==
    \A r \in Runs : ~At(r, "idle") ~> run[r].pc \in {"done", "dead"}
=============================================================================
