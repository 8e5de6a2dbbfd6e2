--------------------------- MODULE CronRunsProofs ---------------------------
(***************************************************************************)
(* Proofs about CronRuns, for every number of processes and runs, whatever *)
(* the entry and its template say.  What a run may be found with is a      *)
(* matter of its own steps (Fits); a step of another run can only take its *)
(* lock away, and then the lock has lapsed.                                *)
(***************************************************************************)
EXTENDS CronRuns, FiniteSetTheorems, TLAPS

-----------------------------------------------------------------------------
(* The inductive invariant.                                                *)

Early == {"idle", "lock", "mark", "show"}
UnderLock == {"mark", "show", "handler"}
Listed == {"handler", "unlock", "store", "report"}

\* The handler has not begun, or it is still going after its run.
HandlerFits(r) ==
    /\ run[r].pc \in Early => handler[r] = "none" /\ run[r].result = "none"
    /\ run[r].pc = "handler" => run[r].result = "none"
    /\ handler[r] = "active" => run[r].pc = "handler" \/ run[r].result = "timeout"

LockFits(r) ==
    Guarded /\ run[r].pc \in UnderLock => Owns(r) \/ r \in lapsed

\* What reaches the handler of a logged template has been counted.
CountFits(r) ==
    ~LogDisabled /\ (run[r].pc \in {"show", "handler"} \/ handler[r] # "none")
      => r \in counted

RecordFits(r) ==
    /\ run[r].pc \in {"idle", "lock", "mark"} \/ run[r].result = "limit" \/ LogDisabled
         => record[r] = "none"
    /\ record[r] = "running" /\ run[r].pc \in {"report", "done"}
         => StoreFails \/ ~run[r].ctx

Fits(r) == HandlerFits(r) /\ LockFits(r) /\ CountFits(r) /\ RecordFits(r)
RunsFit == \A r \in Runs : Fits(r)

CountInLimit ==
    /\ IsFiniteSet(counted)
    /\ MaxRunCount > 0 => Cardinality(counted) <= MaxRunCount

\* Who shows an entry as running, or a run after it, has still to report.
Reports(r, i) == run[r].on = i /\ run[r].pc \in Listed /\ run[r].result # "limit"
ShownIsReal ==
    \A i \in up : info[i].status = "running" => \E r \in Runs : Reports(r, i)

IInv == TypeOK /\ RunsFit /\ CountInLimit /\ ShownIsReal

-----------------------------------------------------------------------------
(* Steps.                                                                  *)

\* Leaves changes the place and the result of one run.
LEMMA Leaving ==
    ASSUME run \in [Runs -> RunType],
           NEW r \in Runs, NEW pc \in Places, NEW result \in Results,
           Leaves(r, pc, result)
    PROVE  /\ run' \in [Runs -> RunType]
           /\ run'[r].pc = pc
           /\ run'[r].result = result
           /\ run'[r].on = run[r].on
           /\ run'[r].origin = run[r].origin
           /\ run'[r].ctx = run[r].ctx
           /\ \A s \in Runs \ {r} : run'[s] = run[s]
    <1>1. run[r] \in RunType
      OBVIOUS
    <1>2. run'[r] = [run[r] EXCEPT !.pc = pc, !.result = result]
      BY DEF Leaves
    <1>3. \A s \in Runs \ {r} : run'[s] = run[s]
      BY DEF Leaves
    <1>4. run'[r] \in RunType
      BY <1>1, <1>2 DEF RunType
    <1>5. /\ run'[r].pc = pc
          /\ run'[r].result = result
          /\ run'[r].on = run[r].on
          /\ run'[r].origin = run[r].origin
          /\ run'[r].ctx = run[r].ctx
      BY <1>1, <1>2 DEF RunType
    <1>6. run' \in [Runs -> RunType]
      BY <1>3, <1>4 DEF Leaves
    <1> QED BY <1>3, <1>5, <1>6

\* A step of another run leaves a run as it fits, as long as what it owns is
\* taken from it only by a lapse.
LEMMA OthersFit ==
    ASSUME NEW s \in Runs, Fits(s),
           UNCHANGED <<entry, run[s], handler[s], record[s]>>,
           counted \subseteq counted', lapsed \subseteq lapsed',
           Owns(s) => lock'[KeyOf(s)] = s \/ s \in lapsed'
    PROVE  Fits(s)'
    <1>1. HandlerFits(s)'
      BY DEF Fits, HandlerFits
    <1>2. KeyOf(s)' = KeyOf(s) /\ Guarded' = Guarded
      BY DEF KeyOf, Guarded, AllowOverlap
    <1>3. LockFits(s)'
      BY <1>2 DEF Fits, LockFits, Owns
    <1>4. CountFits(s)'
      BY DEF Fits, CountFits, LogDisabled
    <1>5. RecordFits(s)'
      BY DEF Fits, RecordFits, LogDisabled
    <1> QED BY <1>1, <1>3, <1>4, <1>5 DEF Fits

\* Who shows an entry still has to report, if its run does not go.
LEMMA StillShown ==
    ASSUME ShownIsReal, NEW r \in Runs,
           UNCHANGED info, up' \subseteq up,
           \A s \in Runs \ {r} : run'[s] = run[s],
           \A i \in up : Reports(r, i) => Reports(r, i)'
    PROVE  ShownIsReal'
    <1> SUFFICES ASSUME NEW i \in up', info'[i].status = "running"
                 PROVE  \E s \in Runs : Reports(s, i)'
      BY DEF ShownIsReal
    <1>1. PICK s \in Runs : Reports(s, i)
      BY DEF ShownIsReal
    <1>2. Reports(s, i)'
      BY <1>1 DEF Reports
    <1> QED BY <1>2

LEMMA InitIInv == Init => IInv
    <1> SUFFICES ASSUME Init PROVE IInv
      OBVIOUS
    <1> USE CronAssumption DEF Init
    <1>1. run \in [Runs -> RunType] /\ \A r \in Runs : run[r].pc = "idle" /\ run[r].result = "none"
      BY DEF RunType, Places, Origins, Results
    <1>2. info \in [Instances -> InfoType]
          /\ \A i \in Instances : /\ info[i].status = "waiting"
                                  /\ info[i].ok + info[i].failed + info[i].skipped <= info[i].runs
      BY DEF NewInfo, InfoType, Statuses
    <1>3. TypeOK
      BY <1>1, <1>2 DEF TypeOK
    <1>4. RunsFit
      BY <1>1 DEF RunsFit, Fits, HandlerFits, LockFits, CountFits, RecordFits, UnderLock, Early
    <1>5. CountInLimit
      <2>1. MaxRunCount \in Nat
        BY DEF Entries, MaxRunCount
      <2> QED BY <2>1, FS_EmptySet DEF CountInLimit
    <1>6. ShownIsReal
      BY <1>2 DEF ShownIsReal
    <1> QED BY <1>3, <1>4, <1>5, <1>6 DEF IInv

-----------------------------------------------------------------------------
(* A step of one run.                                                      *)

FiguresAdd ==
    \A i \in Instances : info[i].ok + info[i].failed + info[i].skipped <= info[i].runs

\* What a step of run r has to leave for the others.
Apart(r) ==
    /\ UNCHANGED <<entry, up, lapsed>>
    /\ handler' \in [Runs -> {"none", "active", "over"}]
    /\ record' \in [Runs -> {"none", "running", "closed"}]
    /\ lock' \in [Keys -> Runs \union {NoRun}]
    /\ counted' \subseteq Runs /\ counted \subseteq counted'
    /\ \A s \in Runs \ {r} :
          /\ run'[s] = run[s] /\ handler'[s] = handler[s] /\ record'[s] = record[s]
          /\ \A k \in Keys : lock[k] = s => lock'[k] = s

LEMMA KeyInKeys == \A r : KeyOf(r) \in Keys
    BY DEF KeyOf, Keys

\* The invariant follows from what the step makes of its own run.
LEMMA RunStep ==
    ASSUME IInv, NEW r \in Runs, Apart(r), run' \in [Runs -> RunType],
           info' \in [Instances -> InfoType], FiguresAdd', ShownIsReal',
           CountInLimit', Fits(r)'
    PROVE  IInv'
    <1>1. TypeOK'
      BY DEF IInv, TypeOK, Apart, FiguresAdd, Entries
    <1>2. RunsFit'
      <2>1. ASSUME NEW s \in Runs \ {r} PROVE Fits(s)'
        <3>1. /\ UNCHANGED <<entry, run[s], handler[s], record[s]>>
              /\ counted \subseteq counted' /\ lapsed \subseteq lapsed'
          BY DEF Apart
        <3>2. Owns(s) => lock'[KeyOf(s)] = s
          BY KeyInKeys DEF Apart, Owns
        <3>3. Fits(s)
          BY DEF IInv, RunsFit
        <3> QED BY <3>1, <3>2, <3>3, OthersFit
      <2> QED BY <2>1 DEF RunsFit
    <1> QED BY <1>1, <1>2 DEF IInv

\* The same for a step that shows nothing and counts nothing.
LEMMA QuietRunStep ==
    ASSUME IInv, NEW r \in Runs, Apart(r), run' \in [Runs -> RunType],
           UNCHANGED <<info, counted>>, Fits(r)',
           \A i \in up : Reports(r, i) => Reports(r, i)'
    PROVE  IInv'
    <1>1. info' \in [Instances -> InfoType] /\ FiguresAdd'
      BY DEF IInv, TypeOK, FiguresAdd
    <1>2. ShownIsReal'
      BY StillShown DEF IInv, Apart
    <1>3. CountInLimit'
      BY DEF IInv, CountInLimit, Apart, MaxRunCount
    <1> QED BY <1>1, <1>2, <1>3, RunStep

LEMMA BeginIInv ==
    ASSUME IInv, NEW r \in Runs, NEW i \in Instances, NEW origin \in Origins,
           Begin(r, i, origin)
    PROVE  IInv'
    <1>1. run[r] \in RunType /\ run \in [Runs -> RunType] /\ Fits(r)
      BY DEF IInv, TypeOK, RunsFit
    <1> DEFINE pc == IF Guarded THEN "lock" ELSE "mark"
    <1>2. pc \in Places /\ pc \in {"lock", "mark"}
      BY DEF Places
    <1>3. run' = [run EXCEPT ![r] = [@ EXCEPT !.pc = pc, !.on = i, !.origin = origin]]
      BY DEF Begin
    <1>4. /\ At(r, "idle")
          /\ UNCHANGED <<entry, handler, lock, counted, record, info, up, lapsed>>
      BY DEF Begin
    <1>5. pc = "mark" => ~Guarded
      BY Zenon
    <1> HIDE DEF pc
    <1>6. run'[r] = [run[r] EXCEPT !.pc = pc, !.on = i, !.origin = origin]
      BY <1>1, <1>3
    <1>7. run'[r] \in RunType
      BY <1>1, <1>2, <1>6 DEF RunType
    <1>8. /\ run'[r].pc = pc
          /\ run'[r].result = run[r].result
          /\ run'[r].ctx = run[r].ctx
      BY <1>1, <1>6 DEF RunType
    <1>9. run' \in [Runs -> RunType] /\ \A s \in Runs \ {r} : run'[s] = run[s]
      BY <1>1, <1>3, <1>7
    <1>10. Apart(r)
      BY <1>4, <1>9 DEF Apart, IInv, TypeOK
    <1>11. Fits(r)'
      BY <1>1, <1>2, <1>4, <1>5, <1>8
         DEF Fits, HandlerFits, LockFits, CountFits, RecordFits, At, Early, UnderLock,
             Guarded, AllowOverlap, LogDisabled
    <1>12. \A j \in up : Reports(r, j) => Reports(r, j)'
      BY <1>4 DEF Reports, At, Listed
    <1> QED BY <1>4, <1>9, <1>10, <1>11, <1>12, QuietRunStep

LEMMA RejectIInv ==
    ASSUME IInv, NEW r \in Runs, NEW i \in Instances, NEW origin \in Origins,
           NEW result \in {"disabled", "failed"}, Reject(r, i, origin, result)
    PROVE  IInv'
    <1>1. run[r] \in RunType /\ run \in [Runs -> RunType] /\ Fits(r)
      BY DEF IInv, TypeOK, RunsFit
    <1>2. run' = [run EXCEPT ![r] = [@ EXCEPT !.pc = "store", !.on = i, !.origin = origin,
                                              !.result = result]]
      BY DEF Reject
    <1>3. /\ At(r, "idle")
          /\ UNCHANGED <<entry, handler, lock, counted, record, info, up, lapsed>>
      BY DEF Reject
    <1>4. run'[r] = [run[r] EXCEPT !.pc = "store", !.on = i, !.origin = origin, !.result = result]
      BY <1>1, <1>2
    <1>5. "store" \in Places /\ result \in Results /\ result # "limit"
      BY DEF Places, Results
    <1>6. run'[r] \in RunType
      BY <1>1, <1>4, <1>5 DEF RunType
    <1>7. run'[r].pc = "store" /\ run'[r].result = result
      BY <1>1, <1>4 DEF RunType
    <1>8. run' \in [Runs -> RunType] /\ \A s \in Runs \ {r} : run'[s] = run[s]
      BY <1>1, <1>2, <1>6
    <1>9. Apart(r)
      BY <1>3, <1>8 DEF Apart, IInv, TypeOK
    <1>10. Fits(r)'
      BY <1>1, <1>3, <1>5, <1>7
         DEF Fits, HandlerFits, LockFits, CountFits, RecordFits, At, Early, UnderLock,
             LogDisabled
    <1>11. \A j \in up : Reports(r, j) => Reports(r, j)'
      BY <1>3 DEF Reports, At, Listed
    <1> QED BY <1>3, <1>8, <1>9, <1>10, <1>11, QuietRunStep

LEMMA TryLockIInv ==
    ASSUME IInv, NEW r \in Runs, TryLock(r)
    PROVE  IInv'
    <1>1. run \in [Runs -> RunType] /\ run[r] \in RunType /\ Fits(r)
          /\ lock \in [Keys -> Runs \union {NoRun}]
      BY DEF IInv, TypeOK, RunsFit
    <1>2. At(r, "lock") /\ UNCHANGED <<entry, handler, counted, record, info, up, lapsed>>
      BY DEF TryLock
    <1>3. {"mark", "store"} \subseteq Places /\ {"none", "locked", "failed"} \subseteq Results
      BY DEF Places, Results
    <1>4. run[r].result = "none"
      BY <1>1, <1>2 DEF Fits, HandlerFits, At, Early
    <1>5. CASE /\ lock[KeyOf(r)] = NoRun /\ Goto(r, "mark")
               /\ lock' = [lock EXCEPT ![KeyOf(r)] = r]
      <2>1. /\ run' \in [Runs -> RunType]
            /\ run'[r].pc = "mark" /\ run'[r].result = "none"
            /\ run'[r].origin = run[r].origin /\ run'[r].ctx = run[r].ctx
            /\ \A s \in Runs \ {r} : run'[s] = run[s]
        BY <1>1, <1>3, <1>4, <1>5, Leaving DEF Goto
      <2>2. KeyOf(r)' = KeyOf(r)
        BY <2>1 DEF KeyOf
      <2>3. lock' \in [Keys -> Runs \union {NoRun}] /\ lock'[KeyOf(r)] = r
        BY <1>1, <1>5, KeyInKeys
      <2>4. \A s \in Runs, k \in Keys : lock[k] = s => lock'[k] = s
        BY <1>1, <1>5, KeyInKeys, CronAssumption
      <2>5. Apart(r)
        BY <1>2, <2>1, <2>3, <2>4 DEF Apart, IInv, TypeOK
      <2>6. Fits(r)'
        BY <1>1, <1>2, <2>1, <2>2, <2>3
           DEF Fits, HandlerFits, LockFits, CountFits, RecordFits, At, Early, Owns, LogDisabled
      <2> QED BY <1>2, <2>1, <2>5, <2>6, QuietRunStep DEF Reports, At, Listed
    <1>6. CASE /\ \/ Leaves(r, "store", "locked")
                  \/ Leaves(r, "store", "failed")
               /\ UNCHANGED lock
      <2>1. PICK result \in {"locked", "failed"} : Leaves(r, "store", result)
        BY <1>6
      <2>2. /\ run' \in [Runs -> RunType]
            /\ run'[r].pc = "store" /\ run'[r].result = result
            /\ \A s \in Runs \ {r} : run'[s] = run[s]
        BY <1>1, <1>3, <2>1, Leaving
      <2>3. Apart(r)
        BY <1>2, <1>6, <2>2 DEF Apart, IInv, TypeOK
      <2>4. Fits(r)'
        BY <1>1, <1>2, <2>2
           DEF Fits, HandlerFits, LockFits, CountFits, RecordFits, At, Early, UnderLock, LogDisabled
      <2> QED BY <1>2, <2>2, <2>3, <2>4, QuietRunStep DEF Reports, At, Listed
    <1> QED BY <1>5, <1>6 DEF TryLock

\* The store counts a run only below the limit.
LEMMA CountedInLimit ==
    ASSUME IInv, NEW r \in Runs, ~AtLimit, UNCHANGED entry, counted' = counted \union {r}
    PROVE  CountInLimit'
    <1>1. IsFiniteSet(counted) /\ MaxRunCount \in Nat
      BY CronAssumption DEF IInv, TypeOK, CountInLimit, Entries, MaxRunCount
    <1>2. /\ IsFiniteSet(counted')
          /\ Cardinality(counted') <= Cardinality(counted) + 1
      BY <1>1, FS_AddElement, FS_CardinalityType
    <1>3. MaxRunCount > 0 => Cardinality(counted) < MaxRunCount
      BY <1>1, FS_CardinalityType DEF AtLimit
    <1>4. MaxRunCount' = MaxRunCount
      BY DEF MaxRunCount
    <1>5. Cardinality(counted) \in Nat /\ Cardinality(counted') \in Nat
      BY <1>1, <1>2, FS_CardinalityType
    <1>6. MaxRunCount > 0 => Cardinality(counted') <= MaxRunCount
      BY <1>1, <1>2, <1>3, <1>5
    <1> QED BY <1>2, <1>4, <1>6 DEF CountInLimit

LEMMA MarkRunningIInv ==
    ASSUME IInv, NEW r \in Runs, MarkRunning(r)
    PROVE  IInv'
    <1>1. /\ run \in [Runs -> RunType] /\ run[r] \in RunType /\ Fits(r)
          /\ record \in [Runs -> {"none", "running", "closed"}] /\ counted \subseteq Runs
      BY DEF IInv, TypeOK, RunsFit
    <1>2. At(r, "mark") /\ UNCHANGED <<entry, handler, lock, info, up, lapsed>>
      BY DEF MarkRunning
    <1>3. {"show", "unlock"} \subseteq Places /\ {"none", "limit", "failed"} \subseteq Results
      BY DEF Places, Results
    <1>4. run[r].result = "none" /\ record[r] = "none" /\ handler[r] = "none"
      BY <1>1, <1>2 DEF Fits, HandlerFits, RecordFits, At, Early
    <1> DEFINE Marked == /\ ~AtLimit /\ ~LogDisabled
                         /\ counted' = counted \union {r}
                         /\ record' = [record EXCEPT ![r] = "running"]
               Unmarked == UNCHANGED <<counted, record>>
    <1>5. PICK pc \in {"show", "unlock"}, result \in {"none", "limit", "failed"} :
             /\ Leaves(r, pc, result)
             /\ Marked \/ Unmarked
             /\ pc = "show" => result = "none" /\ (LogDisabled \/ Marked)
             /\ result = "limit" => Unmarked
      BY <1>4 DEF MarkRunning, Goto
    <1>6. /\ run' \in [Runs -> RunType]
          /\ run'[r].pc = pc /\ run'[r].result = result
          /\ run'[r].origin = run[r].origin
          /\ \A s \in Runs \ {r} : run'[s] = run[s]
      BY <1>1, <1>3, <1>5, Leaving
    <1>7. CountInLimit'
      <2>1. CASE Marked
        BY <1>2, <2>1, CountedInLimit
      <2>2. CASE Unmarked
        BY <1>2, <2>2 DEF CountInLimit, MaxRunCount, IInv
      <2> QED BY <1>5, <2>1, <2>2
    <1>8. Apart(r)
      BY <1>1, <1>2, <1>5, <1>6 DEF Apart, IInv, TypeOK
    <1>9. Fits(r)'
      <2>1. HandlerFits(r)'
        BY <1>2, <1>4, <1>5, <1>6 DEF HandlerFits, Early
      <2>2. LockFits(r)'
        BY <1>1, <1>2, <1>5, <1>6
           DEF Fits, LockFits, At, UnderLock, Owns, KeyOf, Guarded, AllowOverlap
      <2>3. CountFits(r)'
        BY <1>2, <1>4, <1>5, <1>6 DEF CountFits, LogDisabled
      <2>4. RecordFits(r)'
        BY <1>1, <1>2, <1>4, <1>5, <1>6 DEF RecordFits, LogDisabled
      <2> QED BY <2>1, <2>2, <2>3, <2>4 DEF Fits
    <1>10. info' \in [Instances -> InfoType] /\ FiguresAdd'
      BY <1>2 DEF IInv, TypeOK, FiguresAdd
    <1>11. ShownIsReal'
      <2>1. \A i \in up : Reports(r, i) => Reports(r, i)'
        BY <1>2 DEF Reports, At, Listed
      <2> QED BY <1>2, <1>6, <2>1, StillShown DEF IInv
    <1> QED BY <1>6, <1>7, <1>8, <1>9, <1>10, <1>11, RunStep

LEMMA ShowRunningIInv ==
    ASSUME IInv, NEW r \in Runs, ShowRunning(r)
    PROVE  IInv'
    <1>1. /\ run \in [Runs -> RunType] /\ run[r] \in RunType /\ Fits(r)
          /\ handler \in [Runs -> {"none", "active", "over"}]
          /\ info \in [Instances -> InfoType]
      BY DEF IInv, TypeOK, RunsFit
    <1>2. At(r, "show") /\ UNCHANGED <<entry, lock, counted, record, up, lapsed>>
      BY DEF ShowRunning
    <1>3. handler' = [handler EXCEPT ![r] = "active"]
      BY DEF ShowRunning
    <1>4. run[r].result = "none"
      BY <1>1, <1>2 DEF Fits, HandlerFits, At, Early
    <1>5. /\ run' \in [Runs -> RunType]
          /\ run'[r].pc = "handler" /\ run'[r].result = "none"
          /\ run'[r].on = run[r].on /\ run'[r].origin = run[r].origin
          /\ \A s \in Runs \ {r} : run'[s] = run[s]
      <2>1. "handler" \in Places /\ "none" \in Results
        BY DEF Places, Results
      <2>2. Leaves(r, "handler", "none")
        BY <1>4 DEF ShowRunning, Goto
      <2> QED BY <1>1, <2>1, <2>2, Leaving
    <1>6. PICK i \in Instances : i = run[r].on /\ info' = [info EXCEPT ![i].status = "running"]
      BY <1>1 DEF RunType, ShowRunning, Shown
    <1>7. info' \in [Instances -> InfoType] /\ FiguresAdd'
      <2>1. "running" \in Statuses
        BY DEF Statuses
      <2>2. \A j \in Instances :
               /\ info'[j] \in InfoType
               /\ info'[j].ok = info[j].ok /\ info'[j].failed = info[j].failed
               /\ info'[j].skipped = info[j].skipped /\ info'[j].runs = info[j].runs
        BY <1>1, <1>6, <2>1 DEF InfoType
      <2>3. info' \in [Instances -> InfoType]
        BY <1>1, <1>6, <2>2
      <2> QED BY <2>2, <2>3 DEF IInv, TypeOK, FiguresAdd
    <1>8. ShownIsReal'
      <2> SUFFICES ASSUME NEW j \in up', info'[j].status = "running"
                   PROVE  \E s \in Runs : Reports(s, j)'
        BY DEF ShownIsReal
      <2>1. CASE j = i
        BY <1>5, <1>6, <2>1 DEF Reports, Listed
      <2>2. CASE j # i
        <3>1. j \in up /\ info[j].status = "running"
          BY <1>1, <1>2, <1>6, <2>2 DEF IInv, TypeOK
        <3>2. PICK s \in Runs : Reports(s, j)
          BY <3>1 DEF IInv, ShownIsReal
        <3>3. s # r
          BY <1>6, <2>2, <3>2 DEF Reports
        <3> QED BY <1>5, <3>2, <3>3 DEF Reports
      <2> QED BY <2>1, <2>2
    <1>9. Apart(r)
      BY <1>1, <1>2, <1>3, <1>5 DEF Apart, IInv, TypeOK
    <1>10. Fits(r)'
      <2>1. HandlerFits(r)'
        BY <1>5 DEF HandlerFits, Early
      <2>2. LockFits(r)'
        BY <1>1, <1>2, <1>5
           DEF Fits, LockFits, At, UnderLock, Owns, KeyOf, Guarded, AllowOverlap
      <2>3. CountFits(r)' /\ RecordFits(r)'
        BY <1>1, <1>2, <1>5 DEF Fits, CountFits, RecordFits, At, LogDisabled
      <2> QED BY <2>1, <2>2, <2>3 DEF Fits
    <1>11. CountInLimit'
      BY <1>2 DEF IInv, CountInLimit, MaxRunCount
    <1> QED BY <1>5, <1>7, <1>8, <1>9, <1>10, <1>11, RunStep

LEMMA ReturnIInv ==
    ASSUME IInv, NEW r \in Runs, NEW result \in HandlerResults, Return(r, result)
    PROVE  IInv'
    <1>1. /\ run \in [Runs -> RunType] /\ run[r] \in RunType /\ Fits(r)
          /\ handler \in [Runs -> {"none", "active", "over"}]
      BY DEF IInv, TypeOK, RunsFit
    <1>2. /\ handler[r] = "active" /\ handler' = [handler EXCEPT ![r] = "over"]
          /\ UNCHANGED <<entry, lock, counted, record, info, up, lapsed>>
      BY DEF Return
    <1>3. "unlock" \in Places /\ result \in Results /\ result # "limit"
      BY DEF Places, Results, HandlerResults
    <1>4. CASE ~At(r, "handler")
      <2>1. UNCHANGED run
        BY <1>4 DEF Return
      <2>2. Apart(r)
        BY <1>1, <1>2, <2>1 DEF Apart, IInv, TypeOK
      <2>3. Fits(r)'
        BY <1>1, <1>2, <2>1
           DEF Fits, HandlerFits, LockFits, CountFits, RecordFits, Owns, KeyOf, Guarded,
               AllowOverlap, LogDisabled
      <2>4. \A i \in up : Reports(r, i) => Reports(r, i)'
        BY <2>1 DEF Reports
      <2> QED BY <1>1, <1>2, <2>1, <2>2, <2>3, <2>4, QuietRunStep
    <1>5. CASE At(r, "handler")
      <2>1. /\ run' \in [Runs -> RunType]
            /\ run'[r].pc = "unlock" /\ run'[r].result = result
            /\ run'[r].on = run[r].on
            /\ \A s \in Runs \ {r} : run'[s] = run[s]
        BY <1>1, <1>3, <1>5, Leaving DEF Return
      <2>2. Apart(r)
        BY <1>1, <1>2, <2>1 DEF Apart, IInv, TypeOK
      <2>3. Fits(r)'
        BY <1>1, <1>2, <1>3, <1>5, <2>1
           DEF Fits, HandlerFits, LockFits, CountFits, RecordFits, At, Early, UnderLock,
               LogDisabled
      <2>4. \A i \in up : Reports(r, i) => Reports(r, i)'
        BY <1>3, <2>1 DEF Reports, Listed
      <2> QED BY <1>2, <2>1, <2>2, <2>3, <2>4, QuietRunStep
    <1> QED BY <1>4, <1>5

LEMMA TimeOutIInv ==
    ASSUME IInv, NEW r \in Runs, TimeOut(r)
    PROVE  IInv'
    <1>1. run \in [Runs -> RunType] /\ run[r] \in RunType /\ Fits(r)
      BY DEF IInv, TypeOK, RunsFit
    <1>2. /\ At(r, "handler") /\ Leaves(r, "unlock", "timeout")
          /\ UNCHANGED <<entry, handler, lock, counted, record, info, up, lapsed>>
      BY DEF TimeOut
    <1>3. "unlock" \in Places /\ "timeout" \in Results
      BY DEF Places, Results
    <1>4. /\ run' \in [Runs -> RunType]
          /\ run'[r].pc = "unlock" /\ run'[r].result = "timeout"
          /\ run'[r].on = run[r].on
          /\ \A s \in Runs \ {r} : run'[s] = run[s]
      BY <1>1, <1>2, <1>3, Leaving
    <1>5. Apart(r)
      BY <1>2, <1>4 DEF Apart, IInv, TypeOK
    <1>6. Fits(r)'
      BY <1>1, <1>2, <1>4
         DEF Fits, HandlerFits, LockFits, CountFits, RecordFits, At, Early, UnderLock,
             LogDisabled
    <1>7. \A i \in up : Reports(r, i) => Reports(r, i)'
      BY <1>4 DEF Reports, Listed
    <1> QED BY <1>2, <1>4, <1>5, <1>6, <1>7, QuietRunStep

\* A run may go from one of the places after its handler to the next.
LEMMA UnlockIInv ==
    ASSUME IInv, NEW r \in Runs, Unlock(r)
    PROVE  IInv'
    <1>1. /\ run \in [Runs -> RunType] /\ run[r] \in RunType /\ Fits(r)
          /\ lock \in [Keys -> Runs \union {NoRun}]
      BY DEF IInv, TypeOK, RunsFit
    <1>2. /\ At(r, "unlock") /\ Goto(r, "store")
          /\ UNCHANGED <<entry, handler, counted, record, info, up, lapsed>>
      BY DEF Unlock
    <1>3. "store" \in Places /\ run[r].result \in Results
      BY <1>1 DEF Places, RunType
    <1>4. /\ run' \in [Runs -> RunType]
          /\ run'[r].pc = "store" /\ run'[r].result = run[r].result
          /\ run'[r].on = run[r].on
          /\ \A s \in Runs \ {r} : run'[s] = run[s]
      BY <1>1, <1>2, <1>3, Leaving DEF Goto
    <1>5. /\ lock' \in [Keys -> Runs \union {NoRun}]
          /\ \A s \in Runs \ {r}, k \in Keys : lock[k] = s => lock'[k] = s
      BY <1>1 DEF Unlock
    <1>6. Apart(r)
      BY <1>2, <1>4, <1>5 DEF Apart, IInv, TypeOK
    <1>7. Fits(r)'
      BY <1>1, <1>2, <1>4
         DEF Fits, HandlerFits, LockFits, CountFits, RecordFits, At, Early, UnderLock,
             LogDisabled
    <1>8. \A i \in up : Reports(r, i) => Reports(r, i)'
      BY <1>4 DEF Reports, Listed
    <1> QED BY <1>2, <1>4, <1>6, <1>7, <1>8, QuietRunStep

LEMMA FinishStoreIInv ==
    ASSUME IInv, NEW r \in Runs, FinishStore(r)
    PROVE  IInv'
    <1>1. /\ run \in [Runs -> RunType] /\ run[r] \in RunType /\ Fits(r)
          /\ record \in [Runs -> {"none", "running", "closed"}]
      BY DEF IInv, TypeOK, RunsFit
    <1>2. At(r, "store") /\ UNCHANGED <<entry, handler, lock, counted, info, up, lapsed>>
      BY DEF FinishStore
    <1>3. PICK pc \in {"report", "done"}, result \in Results :
             /\ Leaves(r, pc, result) /\ result = run[r].result
             /\ pc = "done" => result = "limit"
      BY <1>1 DEF FinishStore, Goto, RunType
    <1>4. pc \in Places
      BY DEF Places
    <1>5. Leaves(r, pc, result) /\ result = run[r].result
      BY <1>3
    <1>6. /\ run' \in [Runs -> RunType]
          /\ run'[r].pc = pc /\ run'[r].result = result
          /\ run'[r].on = run[r].on /\ run'[r].ctx = run[r].ctx
          /\ \A s \in Runs \ {r} : run'[s] = run[s]
      BY <1>1, <1>4, <1>5, Leaving
    <1>7. \/ /\ run[r].result # "limit" /\ ~LogDisabled
             /\ record' = [record EXCEPT ![r] = "closed"]
          \/ /\ run[r].result = "limit" \/ LogDisabled \/ StoreFails \/ ~run[r].ctx
             /\ UNCHANGED record
      BY DEF FinishStore
    <1>8. Apart(r)
      BY <1>1, <1>2, <1>6, <1>7 DEF Apart, IInv, TypeOK
    <1>9. Fits(r)'
      <2>1. HandlerFits(r)'
        BY <1>1, <1>2, <1>5, <1>6 DEF Fits, HandlerFits, At, Early
      <2>2. LockFits(r)' /\ CountFits(r)'
        BY <1>1, <1>2, <1>6 DEF Fits, LockFits, CountFits, UnderLock, LogDisabled
      <2>3. RecordFits(r)'
        BY <1>1, <1>2, <1>5, <1>6, <1>7 DEF Fits, RecordFits, LogDisabled
      <2> QED BY <2>1, <2>2, <2>3 DEF Fits
    <1>10. \A i \in up : Reports(r, i) => Reports(r, i)'
      BY <1>3, <1>6 DEF Reports, Listed
    <1> QED BY <1>2, <1>6, <1>8, <1>9, <1>10, QuietRunStep

\* A report adds one run to the figures, and one to at most one of its parts.
Reported(x, status) == [Tallied(x, status) EXCEPT !.status = status]

LEMMA Tallying ==
    ASSUME NEW x \in InfoType, x.ok + x.failed + x.skipped <= x.runs,
           NEW status \in Statuses \ {"running"}
    PROVE  /\ Reported(x, status) \in InfoType
           /\ Reported(x, status).status # "running"
           /\ Reported(x, status).ok + Reported(x, status).failed + Reported(x, status).skipped
                <= Reported(x, status).runs
    <1> DEFINE ok == IF status = "success" THEN x.ok + 1 ELSE x.ok
               failed == IF status = "failed" THEN x.failed + 1 ELSE x.failed
               skipped == IF status = "skipped" THEN x.skipped + 1 ELSE x.skipped
               t == Tallied(x, status)
               y == Reported(x, status)
    <1>1. x.ok \in Nat /\ x.failed \in Nat /\ x.skipped \in Nat /\ x.runs \in Nat
      BY DEF InfoType
    <1>2. ok \in Nat /\ failed \in Nat /\ skipped \in Nat /\ ok + failed + skipped <= x.runs + 1
      BY <1>1
    <1>3. PICK n \in Nat : n = x.runs + 1
      BY <1>1
    <1>4. t = [x EXCEPT !.runs = n, !.ok = ok, !.failed = failed, !.skipped = skipped]
      BY <1>3 DEF Tallied
    <1>5. y = [t EXCEPT !.status = status]
      BY DEF Reported
    <1> HIDE DEF ok, failed, skipped, t, y
    <1>6. t \in InfoType /\ t.runs = n /\ t.ok = ok /\ t.failed = failed /\ t.skipped = skipped
      BY <1>2, <1>4 DEF InfoType
    <1>7. /\ y \in InfoType /\ y.status = status
          /\ y.runs = n /\ y.ok = ok /\ y.failed = failed /\ y.skipped = skipped
      BY <1>5, <1>6 DEF InfoType
    <1>8. y.status # "running" /\ y.ok + y.failed + y.skipped <= y.runs
      BY <1>2, <1>3, <1>7
    <1> QED BY <1>7, <1>8 DEF y

LEMMA ReportIInv ==
    ASSUME IInv, NEW r \in Runs, Report(r)
    PROVE  IInv'
    <1>1. /\ run \in [Runs -> RunType] /\ run[r] \in RunType /\ Fits(r)
          /\ info \in [Instances -> InfoType] /\ FiguresAdd
      BY DEF IInv, TypeOK, RunsFit, FiguresAdd
    <1>2. At(r, "report") /\ UNCHANGED <<entry, handler, lock, counted, record, up, lapsed>>
      BY DEF Report
    <1>3. PICK i \in Instances, status \in Statuses \ {"running"} :
             i = run[r].on /\ info' = [info EXCEPT ![i] = Reported(info[i], status)]
      <2>1. StatusOf(run[r].result) \in Statuses \ {"running"}
        BY DEF StatusOf, Statuses
      <2>2. run[r].on \in Instances
        BY <1>1 DEF RunType
      <2> QED BY <2>1, <2>2 DEF Report, Reported
    <1>4. PICK result \in Results : Leaves(r, "done", result) /\ result = run[r].result
      BY <1>1 DEF Report, Goto, RunType
    <1>5. /\ run' \in [Runs -> RunType]
          /\ run'[r].pc = "done" /\ run'[r].result = run[r].result /\ run'[r].ctx = run[r].ctx
          /\ \A s \in Runs \ {r} : run'[s] = run[s]
      <2>1. "done" \in Places
        BY DEF Places
      <2>2. Leaves(r, "done", result) /\ result = run[r].result
        BY <1>4
      <2> QED BY <1>1, <2>1, <2>2, Leaving
    <1>6. /\ Reported(info[i], status) \in InfoType
          /\ Reported(info[i], status).status # "running"
          /\ Reported(info[i], status).ok + Reported(info[i], status).failed
               + Reported(info[i], status).skipped <= Reported(info[i], status).runs
      BY <1>1, Tallying DEF FiguresAdd
    <1>7. info' \in [Instances -> InfoType] /\ FiguresAdd'
      BY <1>1, <1>3, <1>6 DEF FiguresAdd
    <1>8. ShownIsReal'
      <2> SUFFICES ASSUME NEW j \in up', info'[j].status = "running"
                   PROVE  \E s \in Runs : Reports(s, j)'
        BY DEF ShownIsReal
      <2>1. j \in up /\ j # i /\ info[j].status = "running"
        BY <1>1, <1>2, <1>3, <1>6 DEF IInv, TypeOK
      <2>2. PICK s \in Runs : Reports(s, j)
        BY <2>1 DEF IInv, ShownIsReal
      <2>3. s # r
        BY <1>3, <2>1, <2>2 DEF Reports
      <2> QED BY <1>5, <2>2, <2>3 DEF Reports
    <1>9. Apart(r)
      BY <1>2, <1>5 DEF Apart, IInv, TypeOK
    <1>10. Fits(r)'
      <2>1. HandlerFits(r)' /\ LockFits(r)'
        BY <1>1, <1>2, <1>5 DEF Fits, HandlerFits, LockFits, At, Early, UnderLock
      <2>2. CountFits(r)' /\ RecordFits(r)'
        BY <1>1, <1>2, <1>5 DEF Fits, CountFits, RecordFits, At, LogDisabled
      <2> QED BY <2>1, <2>2 DEF Fits
    <1>11. CountInLimit'
      BY <1>2 DEF IInv, CountInLimit, MaxRunCount
    <1> QED BY <1>5, <1>7, <1>8, <1>9, <1>10, <1>11, RunStep

-----------------------------------------------------------------------------
(* The steps of the others.                                                *)

LEMMA CancelContextIInv ==
    ASSUME IInv, NEW r \in Runs, CancelContext(r)
    PROVE  IInv'
    <1>1. run \in [Runs -> RunType] /\ run[r] \in RunType /\ Fits(r)
      BY DEF IInv, TypeOK, RunsFit
    <1>2. UNCHANGED <<entry, handler, lock, counted, record, info, up, lapsed>>
      BY DEF CancelContext
    <1>3. run'[r] = [run[r] EXCEPT !.ctx = FALSE]
      BY <1>1 DEF CancelContext
    <1>4. /\ run'[r] \in RunType
          /\ run'[r].pc = run[r].pc /\ run'[r].result = run[r].result
          /\ run'[r].on = run[r].on /\ run'[r].origin = run[r].origin /\ ~run'[r].ctx
      BY <1>1, <1>3 DEF RunType
    <1>5. run' \in [Runs -> RunType] /\ \A s \in Runs \ {r} : run'[s] = run[s]
      BY <1>1, <1>4 DEF CancelContext
    <1>6. Apart(r)
      BY <1>2, <1>5 DEF Apart, IInv, TypeOK
    <1>7. Fits(r)'
      <2>1. HandlerFits(r)'
        BY <1>1, <1>2, <1>4 DEF Fits, HandlerFits
      <2>2. LockFits(r)'
        BY <1>1, <1>2, <1>4 DEF Fits, LockFits, Owns, KeyOf, Guarded, AllowOverlap
      <2>3. CountFits(r)' /\ RecordFits(r)'
        BY <1>1, <1>2, <1>4 DEF Fits, CountFits, RecordFits, LogDisabled
      <2> QED BY <2>1, <2>2, <2>3 DEF Fits
    <1>8. \A i \in up : Reports(r, i) => Reports(r, i)'
      BY <1>4 DEF Reports
    <1> QED BY <1>2, <1>5, <1>6, <1>7, <1>8, QuietRunStep

LEMMA LapseIInv ==
    ASSUME IInv, NEW k \in Keys, Lapse(k)
    PROVE  IInv'
    <1>1. /\ lock \in [Keys -> Runs \union {NoRun}] /\ lapsed \subseteq Runs
          /\ lock[k] # NoRun /\ lock' = [lock EXCEPT ![k] = NoRun]
          /\ lapsed' = lapsed \union {lock[k]}
          /\ UNCHANGED <<entry, run, handler, counted, record, info, up>>
      BY DEF IInv, TypeOK, Lapse
    <1>2. lock' \in [Keys -> Runs \union {NoRun}] /\ lapsed' \subseteq Runs
      BY <1>1
    <1>3. TypeOK'
      BY <1>1, <1>2 DEF IInv, TypeOK, Entries
    <1>4. RunsFit'
      <2> SUFFICES ASSUME NEW s \in Runs PROVE Fits(s)'
        BY DEF RunsFit
      <2>1. Owns(s) => lock'[KeyOf(s)] = s \/ s \in lapsed'
        BY <1>1, KeyInKeys DEF Owns
      <2>2. Fits(s)
        BY DEF IInv, RunsFit
      <2> QED BY <1>1, <2>1, <2>2, OthersFit
    <1>5. CountInLimit' /\ ShownIsReal'
      BY <1>1 DEF IInv, CountInLimit, MaxRunCount, ShownIsReal, Reports
    <1> QED BY <1>3, <1>4, <1>5 DEF IInv

LEMMA KillIInv ==
    ASSUME IInv, NEW i \in Instances, Kill(i)
    PROVE  IInv'
    <1>1. /\ run \in [Runs -> RunType] /\ handler \in [Runs -> {"none", "active", "over"}]
          /\ up' = up \ {i} /\ UNCHANGED <<entry, lock, counted, record, info, lapsed>>
      BY DEF IInv, TypeOK, Kill
    <1>2. ASSUME NEW s \in Runs
          PROVE  /\ run'[s] \in RunType
                 /\ run'[s].result = run[s].result /\ run'[s].on = run[s].on
                 /\ run'[s].origin = run[s].origin /\ run'[s].ctx = run[s].ctx
                 /\ \/ run'[s].pc = run[s].pc
                    \/ run[s].on = i /\ run'[s].pc = "dead"
                 /\ run[s].on = i => run'[s].pc \in {"idle", "done", "dead"}
      <2>1. run[s] \in RunType /\ "dead" \in Places
        BY <1>1 DEF Places
      <2>2. CASE run[s].on = i /\ run[s].pc \notin {"idle", "done"}
        <3>1. run'[s] = [run[s] EXCEPT !.pc = "dead"]
          BY <2>2 DEF Kill
        <3> QED BY <2>1, <2>2, <3>1 DEF RunType
      <2>3. CASE ~(run[s].on = i /\ run[s].pc \notin {"idle", "done"})
        <3>1. run'[s] = run[s]
          BY <2>3 DEF Kill
        <3> QED BY <2>1, <2>3, <3>1
      <2> QED BY <2>2, <2>3
    <1>3. run' \in [Runs -> RunType]
      BY <1>2 DEF Kill
    <1>4. /\ handler' \in [Runs -> {"none", "active", "over"}]
          /\ \A s \in Runs : \/ handler'[s] = handler[s]
                             \/ handler[s] = "active" /\ handler'[s] = "over"
          /\ \A s \in Runs : run[s].on = i => handler'[s] # "active"
      BY <1>1 DEF Kill
    <1>5. TypeOK'
      BY <1>1, <1>3, <1>4 DEF IInv, TypeOK, Entries
    <1>6. RunsFit'
      <2> SUFFICES ASSUME NEW s \in Runs PROVE Fits(s)'
        BY DEF RunsFit
      <2>1. Fits(s)
        BY DEF IInv, RunsFit
      <2>2. HandlerFits(s)'
        BY <1>2, <1>4, <2>1 DEF Fits, HandlerFits, Early
      <2>3. LockFits(s)'
        BY <1>1, <1>2, <2>1 DEF Fits, LockFits, Owns, KeyOf, Guarded, AllowOverlap, UnderLock
      <2>4. CountFits(s)'
        BY <1>1, <1>2, <1>4, <2>1 DEF Fits, CountFits, LogDisabled
      <2>5. RecordFits(s)'
        BY <1>1, <1>2, <2>1 DEF Fits, RecordFits, LogDisabled
      <2> QED BY <2>2, <2>3, <2>4, <2>5 DEF Fits
    <1>7. CountInLimit'
      BY <1>1 DEF IInv, CountInLimit, MaxRunCount
    <1>8. ShownIsReal'
      <2> SUFFICES ASSUME NEW j \in up', info'[j].status = "running"
                   PROVE  \E s \in Runs : Reports(s, j)'
        BY DEF ShownIsReal
      <2>1. j \in up /\ j # i /\ info[j].status = "running"
        BY <1>1
      <2>2. PICK s \in Runs : Reports(s, j)
        BY <2>1 DEF IInv, ShownIsReal
      <2> QED BY <1>2, <2>1, <2>2 DEF Reports
    <1> QED BY <1>5, <1>6, <1>7, <1>8 DEF IInv

-----------------------------------------------------------------------------
(* The specification.                                                      *)

LEMMA NextIInv == IInv /\ [Next]_vars => IInv'
    <1> SUFFICES ASSUME IInv, [Next]_vars PROVE IInv'
      OBVIOUS
    <1>1. ASSUME NEW r \in Runs, NEW i \in Instances, NEW origin \in Origins,
                 \/ Begin(r, i, origin)
                 \/ \E result \in {"disabled", "failed"} : Reject(r, i, origin, result)
          PROVE  IInv'
      BY <1>1, BeginIInv, RejectIInv
    <1>2. ASSUME NEW r \in Runs, Steps(r)
          PROVE  IInv'
      BY <1>2, TryLockIInv, MarkRunningIInv, ShowRunningIInv, UnlockIInv, FinishStoreIInv,
         ReportIInv DEF Steps
    <1>3. ASSUME NEW r \in Runs,
                 \/ \E result \in HandlerResults : Return(r, result)
                 \/ TimeOut(r)
                 \/ CancelContext(r)
          PROVE  IInv'
      BY <1>3, ReturnIInv, TimeOutIInv, CancelContextIInv
    <1>4. ASSUME UNCHANGED vars
          PROVE  IInv'
      <2>1. UNCHANGED <<entry, run, handler, lock, counted, record, info, up, lapsed>>
        BY <1>4 DEF vars
      <2>2. TypeOK'
        BY <2>1 DEF IInv, TypeOK, Entries
      <2>3. RunsFit'
        BY <2>1, OthersFit DEF IInv, RunsFit, Owns
      <2>4. CountInLimit' /\ ShownIsReal'
        BY <2>1 DEF IInv, CountInLimit, MaxRunCount, ShownIsReal, Reports
      <2> QED BY <2>2, <2>3, <2>4 DEF IInv
    <1> QED BY <1>1, <1>2, <1>3, <1>4, LapseIInv, KillIInv DEF Next

LEMMA Invariance == Spec => []IInv
    BY InitIInv, NextIInv, PTL DEF Spec

\* Every variable stays in its type, and the successes, failures and skips
\* RuntimeState shows of an entry never exceed the runs it shows.
THEOREM TypeCorrect == Spec => []TypeOK
    <1>1. IInv => TypeOK
      BY DEF IInv
    <1> QED BY <1>1, Invariance, PTL

\* Two runs of an entry that does not allow overlap execute its handler at
\* once only if they lock different keys (RunOnce of an id without the prefix),
\* a timeout left a handler behind, or a lease lapsed: whatever the lock and
\* the store refuse, whichever contexts end and processes are killed.
THEOREM OverlapsAreExcused == Spec => []OverlapIsExcused
    <1>1. IInv => OverlapIsExcused
      <2> SUFFICES ASSUME IInv, NEW r \in Runs, NEW s \in Runs,
                          Guarded, r # s, handler[r] = "active", handler[s] = "active",
                          KeyOf(r) = KeyOf(s),
                          run[r].result # "timeout", run[s].result # "timeout"
                   PROVE  {r, s} \intersect lapsed # {}
        BY DEF OverlapIsExcused
      <2>1. Fits(r) /\ Fits(s)
        BY DEF IInv, RunsFit
      <2>2. run[r].pc = "handler" /\ run[s].pc = "handler"
        BY <2>1 DEF Fits, HandlerFits
      <2>3. (Owns(r) \/ r \in lapsed) /\ (Owns(s) \/ s \in lapsed)
        BY <2>1, <2>2 DEF Fits, LockFits, UnderLock
      <2> QED BY <2>3 DEF Owns
    <1> QED BY <1>1, Invariance, PTL

\* RuntimeState shows an entry as running only while a run of it is under way
\* in that process.
THEOREM RunningReal == Spec => []RunningIsReal
    <1>1. IInv => RunningIsReal
      BY DEF IInv, ShownIsReal, Reports, Listed, RunningIsReal
    <1> QED BY <1>1, Invariance, PTL

\* A run leaves its record "running" behind only if the store failed or the
\* context it was called with had ended.
THEOREM RecordsClosed == Spec => []RecordsAreClosed
    <1>1. IInv => RecordsAreClosed
      BY DEF IInv, RunsFit, Fits, RecordFits, RecordsAreClosed
    <1> QED BY <1>1, Invariance, PTL

\* The handler of a logged template is executed at most MaxRunCount times,
\* however many runs there are and on however many processes.
THEOREM LimitsHold == Spec => []LimitHolds
    <1>1. IInv => LimitHolds
      <2> SUFFICES ASSUME IInv, MaxRunCount > 0, ~LogDisabled
                   PROVE  Cardinality({r \in Runs : handler[r] # "none"}) <= MaxRunCount
        BY DEF LimitHolds
      <2>1. {r \in Runs : handler[r] # "none"} \subseteq counted
        BY DEF IInv, RunsFit, Fits, CountFits
      <2>2. IsFiniteSet(counted) /\ Cardinality(counted) <= MaxRunCount
        BY DEF IInv, CountInLimit
      <2>3. Cardinality({r \in Runs : handler[r] # "none"}) <= Cardinality(counted)
        BY <2>1, <2>2, FS_Subset
      <2>4. /\ Cardinality({r \in Runs : handler[r] # "none"}) \in Nat
            /\ Cardinality(counted) \in Nat /\ MaxRunCount \in Nat
        <3>1. IsFiniteSet({r \in Runs : handler[r] # "none"})
          BY <2>1, <2>2, FS_Subset
        <3> QED BY <2>2, <3>1, FS_CardinalityType, CronAssumption
                DEF IInv, TypeOK, Entries, MaxRunCount
      <2> QED BY <2>2, <2>3, <2>4
    <1> QED BY <1>1, Invariance, PTL
=============================================================================
