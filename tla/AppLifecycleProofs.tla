------------------------ MODULE AppLifecycleProofs ------------------------
(***************************************************************************)
(* Proofs about AppLifecycle, for every number of capabilities, providers, *)
(* stoppers and runs.                                                      *)
(***************************************************************************)
EXTENDS AppLifecycle, SequenceTheorems, TLAPS

\* The object a step works on exists: an index is in range wherever it is
\* used, a list is not empty while its last element is being stopped.
IndexInv ==
    /\ pc = "append" => next \in Caps
    /\ pc \in {"launch", "job", "jobOk", "jobErr"} => next \in Provs
    /\ pc = "rollbackCall" => started # <<>>
    /\ pc = "result" => failed # None

CallInv ==
    \A a \in Actors : /\ stop[a].pc = "provCall" => stop[a].provs # <<>>
                      /\ stop[a].pc = "capCall" => stop[a].caps # <<>>

TypeInv == TypeOK /\ IndexInv /\ CallInv

LEMMA NoElements == \A S : <<>> \in Seq(S)
  OBVIOUS

\* Lists shrink from the end.
LEMMA FrontLast ==
  ASSUME NEW S, NEW s \in Seq(S), s # <<>>
  PROVE  /\ Front(s) \in Seq(S)
         /\ Last(s) \in S
  BY DEF Front, Last

LEMMA HeadTail ==
  ASSUME NEW S, NEW s \in Seq(S), s # <<>>
  PROVE  Head(s) \in S /\ Tail(s) \in Seq(S)
  OBVIOUS

LEMMA CapIndex == next \in Nat \ {0} /\ CapabilitiesLeft => next \in Caps
  BY LifecycleAssumption DEF CapabilitiesLeft, Caps

LEMMA ProvIndex == next \in Nat \ {0} /\ ProvidersLeft => next \in Provs
  BY LifecycleAssumption DEF ProvidersLeft, Provs

LEMMA InitTypeInv == Init => TypeInv
  <1> SUFFICES ASSUME Init PROVE TypeInv
    OBVIOUS
  <1> USE DEF Init
  <1>1. AppOK
    BY NoElements DEF AppOK
  <1>2. StatusOK
    BY DEF StatusOK, Status
  <1>3. RunnerOK /\ IndexInv
    BY DEF RunnerOK, RunPc, None, IndexInv
  <1>4. ServiceOK
    BY DEF ServiceOK
  <1>5. StopOK /\ CallInv
    BY DEF StopOK, CallInv, NoStop, StopPc
  <1>6. HistoryOK
    BY DEF HistoryOK
  <1>7. QED
    BY <1>1, <1>2, <1>3, <1>4, <1>5, <1>6 DEF TypeInv, TypeOK

\* The lists and flags of App.
LEMMA AppStep == TypeInv /\ [Next]_vars => AppOK'
  <1> SUFFICES ASSUME TypeInv, [Next]_vars PROVE AppOK'
    OBVIOUS
  <1> USE DEF TypeInv, TypeOK, AppOK, IndexInv, RunnerOK, StopOK,
    sharedVars, frameVars
  <1>1. CASE Prepare
    BY <1>1, NoElements DEF Prepare
  <1>2. CASE AddRegisteredCapability
    BY <1>2 DEF AddRegisteredCapability, IsStopping
  <1>3. CASE AddRunningProvider
    BY <1>3, ProvIndex DEF AddRunningProvider, ProvidersLeft
  <1>4. CASE BeginRollback
    BY <1>4 DEF BeginRollback
  <1>5. CASE EndRollback
    BY <1>5 DEF EndRollback
  <1>6. ASSUME NEW a \in Actors, EnterStop(a) PROVE AppOK'
    BY <1>6 DEF EnterStop
  <1>7. ASSUME NEW a \in Actors, CancelRun(a) PROVE AppOK'
    BY <1>7 DEF CancelRun
  <1>8. ASSUME NEW a \in Actors, LeaveStop(a) PROVE AppOK'
    BY <1>8, NoElements DEF LeaveStop
  <1>9. CASE CancelContext
    BY <1>9 DEF CancelContext
  <1>10. CASE UNCHANGED <<sharedVars, ctxDone, stopMu>>
    BY <1>10
  <1>11. QED
    BY <1>1, <1>2, <1>3, <1>4, <1>5, <1>6, <1>7, <1>8, <1>9, <1>10 DEF vars,
      sharedVars, statusVars, loopVars, serviceVars, frameVars, capHistory,
      provHistory, raceHistory, historyVars, Next, Boot, Start, Wait,
      Environment, Lock, StopStep, Sorted, SortFails, RegisterCapability,
      RegisterCapabilityFails, CapabilitiesRegistered, RegisterProvider,
      RegisterProviderFails, ProvidersRegistered, LaunchService, BeginJob,
      JobReturns, CommitJob, RollbackProvider, ProviderRolledBack,
      ProvidersStarted, ReceiveResult, HandleResult, ContextDone,
      AllServicesExited, Stopped, FinalStop, Return, AlreadyStopped,
      StopProvider, ProviderStopped, ShutdownCapability, CapabilityShutDown,
      CallStop, ServiceExits

\* The status of every object.
LEMMA StatusStep == TypeInv /\ [Next]_vars => StatusOK'
  <1> SUFFICES ASSUME TypeInv, [Next]_vars PROVE StatusOK'
    OBVIOUS
  <1> USE DEF TypeInv, TypeOK, StatusOK, statusVars, Status
  <1>1. CASE Prepare
    BY <1>1 DEF Prepare
  <1>2. CASE SortFails
    BY <1>2 DEF SortFails
  <1>3. CASE RegisterCapability
    BY <1>3 DEF RegisterCapability, CapabilitiesLeft
  <1>4. CASE RegisterCapabilityFails
    BY <1>4 DEF RegisterCapabilityFails, CapabilitiesLeft
  <1>5. CASE RegisterProvider
    BY <1>5 DEF RegisterProvider, ProvidersLeft
  <1>6. CASE RegisterProviderFails
    BY <1>6 DEF RegisterProviderFails, ProvidersLeft
  <1>7. CASE AddRunningProvider
    BY <1>7 DEF AddRunningProvider, ProvidersLeft
  <1>8. CASE LaunchService
    BY <1>8 DEF LaunchService
  <1>9. CASE CommitJob
    BY <1>9 DEF CommitJob
  <1>10. CASE BeginRollback
    BY <1>10 DEF BeginRollback
  <1>11. CASE RollbackProvider
    BY <1>11 DEF RollbackProvider, Last
  <1>12. ASSUME NEW ok \in BOOLEAN, ProviderRolledBack(ok) PROVE StatusOK'
    BY <1>12 DEF ProviderRolledBack, Front, Last
  <1>13. ASSUME NEW a \in Actors, StopProvider(a) PROVE StatusOK'
    BY <1>13 DEF StopProvider, Last
  <1>14. ASSUME NEW a \in Actors, NEW ok \in BOOLEAN, ProviderStopped(a, ok)
    PROVE StatusOK'
    BY <1>14 DEF ProviderStopped, Front, Last
  <1>15. ASSUME NEW a \in Actors, ShutdownCapability(a) PROVE StatusOK'
    BY <1>15 DEF ShutdownCapability, Last
  <1>16. ASSUME NEW a \in Actors, NEW ok \in BOOLEAN, CapabilityShutDown(a,
    ok) PROVE StatusOK'
    BY <1>16 DEF CapabilityShutDown, Front, Last
  <1>17. CASE HandleResult
    BY <1>17 DEF HandleResult
  <1>18. CASE Stopped
    BY <1>18 DEF Stopped
  <1>19. CASE UNCHANGED <<statusVars>>
    BY <1>19
  <1>20. QED
    BY <1>1, <1>2, <1>3, <1>4, <1>5, <1>6, <1>7, <1>8, <1>9, <1>10, <1>11,
      <1>12, <1>13, <1>14, <1>15, <1>16, <1>17, <1>18, <1>19 DEF vars,
      sharedVars, statusVars, loopVars, serviceVars, frameVars, capHistory,
      provHistory, raceHistory, historyVars, Next, Boot, Start, Wait,
      Environment, Lock, StopStep, Sorted, AddRegisteredCapability,
      CapabilitiesRegistered, ProvidersRegistered, BeginJob, JobReturns,
      EndRollback, ProvidersStarted, ReceiveResult, ContextDone,
      AllServicesExited, FinalStop, Return, AlreadyStopped, EnterStop,
      CancelRun, LeaveStop, CallStop, CancelContext, ServiceExits

\* The services and their results.
LEMMA ServiceStep == TypeInv /\ [Next]_vars => ServiceOK'
  <1> SUFFICES ASSUME TypeInv, [Next]_vars PROVE ServiceOK'
    OBVIOUS
  <1> USE DEF TypeInv, TypeOK, ServiceOK, serviceVars
  <1>1. CASE Prepare
    BY <1>1 DEF Prepare
  <1>2. CASE LaunchService
    BY <1>2 DEF LaunchService
  <1>3. CASE ReceiveResult
    BY <1>3 DEF ReceiveResult, IsStopping
  <1>4. ASSUME NEW p \in Provs, ServiceExits(p) PROVE ServiceOK'
    BY <1>4 DEF ServiceExits
  <1>5. CASE UNCHANGED <<serviceVars>>
    BY <1>5
  <1>6. QED
    BY <1>1, <1>2, <1>3, <1>4, <1>5 DEF vars, sharedVars, statusVars,
      loopVars, serviceVars, frameVars, capHistory, provHistory,
      raceHistory, historyVars, Next, Boot, Start, Wait, Environment, Lock,
      StopStep, Sorted, SortFails, RegisterCapability,
      RegisterCapabilityFails, AddRegisteredCapability,
      CapabilitiesRegistered, RegisterProvider, RegisterProviderFails,
      ProvidersRegistered, AddRunningProvider, BeginJob, JobReturns,
      CommitJob, BeginRollback, RollbackProvider, ProviderRolledBack,
      EndRollback, ProvidersStarted, HandleResult, ContextDone,
      AllServicesExited, Stopped, FinalStop, Return, AlreadyStopped,
      EnterStop, StopProvider, ProviderStopped, ShutdownCapability,
      CapabilityShutDown, CancelRun, LeaveStop, CallStop, CancelContext

\* The history counters.
LEMMA HistoryStep == TypeInv /\ [Next]_vars => HistoryOK'
  <1> SUFFICES ASSUME TypeInv, [Next]_vars PROVE HistoryOK'
    OBVIOUS
  <1> USE DEF TypeInv, TypeOK, HistoryOK, AppOK, historyVars, capHistory,
    provHistory, raceHistory
  <1>1. CASE Prepare
    BY <1>1 DEF Prepare
  <1>2. CASE RegisterCapability
    BY <1>2, CapIndex DEF RegisterCapability, CapabilitiesLeft, RunnerOK
  <1>3. CASE AddRunningProvider
    BY <1>3 DEF AddRunningProvider, ProvidersLeft
  <1>4. CASE LaunchService
    BY <1>4 DEF LaunchService, IndexInv
  <1>5. CASE BeginJob
    BY <1>5 DEF BeginJob, IndexInv
  <1>6. CASE BeginRollback
    BY <1>6 DEF BeginRollback
  <1>7. CASE RollbackProvider
    BY <1>7, FrontLast DEF RollbackProvider, Last, RunnerOK
  <1>8. ASSUME NEW a \in Actors, EnterStop(a) PROVE HistoryOK'
    BY <1>8 DEF EnterStop
  <1>9. ASSUME NEW a \in Actors, StopProvider(a) PROVE HistoryOK'
    BY <1>9, FrontLast DEF StopProvider, Last, StopOK
  <1>10. ASSUME NEW a \in Actors, ShutdownCapability(a) PROVE HistoryOK'
    BY <1>10, FrontLast DEF ShutdownCapability, Last, StopOK
  <1>11. CASE UNCHANGED <<historyVars>>
    BY <1>11
  <1>12. QED
    BY <1>1, <1>2, <1>3, <1>4, <1>5, <1>6, <1>7, <1>8, <1>9, <1>10, <1>11
      DEF vars, sharedVars, statusVars, loopVars, serviceVars, frameVars,
      capHistory, provHistory, raceHistory, historyVars, Next, Boot, Start,
      Wait, Environment, Lock, StopStep, Sorted, SortFails,
      RegisterCapabilityFails, AddRegisteredCapability,
      CapabilitiesRegistered, RegisterProvider, RegisterProviderFails,
      ProvidersRegistered, JobReturns, CommitJob, ProviderRolledBack,
      EndRollback, ProvidersStarted, ReceiveResult, HandleResult,
      ContextDone, AllServicesExited, Stopped, FinalStop, Return,
      AlreadyStopped, ProviderStopped, CapabilityShutDown, CancelRun,
      LeaveStop, CallStop, CancelContext, ServiceExits

\* The calls of App.Stop.
LEMMA StopStepTyped == TypeInv /\ [Next]_vars => (StopOK /\ CallInv)'
  <1> SUFFICES ASSUME TypeInv, [Next]_vars PROVE (StopOK /\ CallInv)'
    OBVIOUS
  <1> USE DEF TypeInv, TypeOK, StopOK, CallInv, StopPc, NoStop, AppOK,
    RunnerOK, Actors
  <1>1. CASE HandleResult
    BY <1>1 DEF HandleResult
  <1>2. CASE ContextDone
    <2>1. stop' = stop \/ stop' = [stop EXCEPT ![Runner].pc = "lock"]
      BY <1>2 DEF ContextDone
    <2>2. QED
      BY <2>1
  <1>3. CASE FinalStop
    BY <1>3 DEF FinalStop
  <1>4. ASSUME NEW a \in Actors, AlreadyStopped(a) PROVE (StopOK /\
    CallInv)'
    BY <1>4 DEF AlreadyStopped
  <1>5. ASSUME NEW a \in Actors, EnterStop(a) PROVE (StopOK /\ CallInv)'
    BY <1>5 DEF EnterStop
  <1>6. ASSUME NEW a \in Actors, StopProvider(a) PROVE (StopOK /\ CallInv)'
    BY <1>6 DEF StopProvider, Last
  <1>7. ASSUME NEW a \in Actors, NEW ok \in BOOLEAN, ProviderStopped(a, ok)
    PROVE (StopOK /\ CallInv)'
    BY <1>7 DEF ProviderStopped, Front, Last
  <1>8. ASSUME NEW a \in Actors, ShutdownCapability(a) PROVE (StopOK /\
    CallInv)'
    BY <1>8 DEF ShutdownCapability, Last
  <1>9. ASSUME NEW a \in Actors, NEW ok \in BOOLEAN, CapabilityShutDown(a,
    ok) PROVE (StopOK /\ CallInv)'
    BY <1>9 DEF CapabilityShutDown, Front, Last
  <1>10. ASSUME NEW a \in Actors, CancelRun(a) PROVE (StopOK /\ CallInv)'
    BY <1>10 DEF CancelRun
  <1>11. ASSUME NEW a \in Actors, LeaveStop(a) PROVE (StopOK /\ CallInv)'
    BY <1>11 DEF LeaveStop
  <1>12. ASSUME NEW a \in Stoppers, CallStop(a) PROVE (StopOK /\ CallInv)'
    BY <1>12 DEF CallStop
  <1>13. CASE UNCHANGED <<stop>>
    BY <1>13
  <1>14. QED
    BY <1>1, <1>2, <1>3, <1>4, <1>5, <1>6, <1>7, <1>8, <1>9, <1>10, <1>11,
      <1>12, <1>13 DEF vars, sharedVars, statusVars, loopVars, serviceVars,
      frameVars, capHistory, provHistory, raceHistory, historyVars, Next,
      Boot, Start, Wait, Environment, Lock, StopStep, Prepare, Sorted,
      SortFails, RegisterCapability, RegisterCapabilityFails,
      AddRegisteredCapability, CapabilitiesRegistered, RegisterProvider,
      RegisterProviderFails, ProvidersRegistered, AddRunningProvider,
      LaunchService, BeginJob, JobReturns, CommitJob, BeginRollback,
      RollbackProvider, ProviderRolledBack, EndRollback, ProvidersStarted,
      ReceiveResult, AllServicesExited, Stopped, Return, CancelContext,
      ServiceExits

\* The Runner.
LEMMA RunnerStep == TypeInv /\ [Next]_vars => (RunnerOK /\ IndexInv)'
  <1> SUFFICES ASSUME TypeInv, [Next]_vars PROVE (RunnerOK /\ IndexInv)'
    OBVIOUS
  <1> USE DEF TypeInv, TypeOK, RunnerOK, IndexInv, RunPc, None, loopVars,
    frameVars
  <1>1. CASE Prepare
    BY <1>1 DEF Prepare
  <1>2. CASE Sorted
    BY <1>2 DEF Sorted
  <1>3. CASE SortFails
    BY <1>3 DEF SortFails
  <1>4. CASE RegisterCapability
    BY <1>4, CapIndex DEF RegisterCapability, CapabilitiesLeft
  <1>5. CASE RegisterCapabilityFails
    BY <1>5 DEF RegisterCapabilityFails, CapabilitiesLeft
  <1>6. CASE AddRegisteredCapability
    BY <1>6 DEF AddRegisteredCapability, IsStopping
  <1>7. CASE CapabilitiesRegistered
    BY <1>7 DEF CapabilitiesRegistered
  <1>8. CASE RegisterProvider
    BY <1>8 DEF RegisterProvider, ProvidersLeft
  <1>9. CASE RegisterProviderFails
    BY <1>9 DEF RegisterProviderFails, ProvidersLeft
  <1>10. CASE ProvidersRegistered
    BY <1>10 DEF ProvidersRegistered
  <1>11. CASE AddRunningProvider
    BY <1>11, ProvIndex DEF AddRunningProvider, ProvidersLeft
  <1>12. CASE LaunchService
    BY <1>12 DEF LaunchService
  <1>13. CASE BeginJob
    BY <1>13 DEF BeginJob
  <1>14. ASSUME NEW o \in {"jobOk", "jobErr"}, JobReturns(o) PROVE (RunnerOK
    /\ IndexInv)'
    BY <1>14 DEF JobReturns, IsStopping
  <1>15. CASE CommitJob
    BY <1>15 DEF CommitJob
  <1>16. CASE BeginRollback
    BY <1>16 DEF BeginRollback
  <1>17. CASE RollbackProvider
    BY <1>17 DEF RollbackProvider, Last
  <1>18. ASSUME NEW ok \in BOOLEAN, ProviderRolledBack(ok) PROVE (RunnerOK
    /\ IndexInv)'
    BY <1>18 DEF ProviderRolledBack, Front, Last
  <1>19. CASE EndRollback
    BY <1>19 DEF EndRollback
  <1>20. CASE ProvidersStarted
    BY <1>20 DEF ProvidersStarted
  <1>21. CASE ReceiveResult
    <2>1. /\ results # <<>> /\ remaining > 0 /\ remaining' = remaining - 1
          /\ \/ pc' = pc /\ failed' = failed
             \/ pc' = "result" /\ failed' = Head(results)
          /\ UNCHANGED <<next, started, run>>
      BY <1>21 DEF ReceiveResult
    <2>2. Head(results) \in Provs
      BY <2>1, HeadTail, LifecycleAssumption DEF ServiceOK
    <2>3. failed' \in Provs \union {None} /\ (pc' = "result" => failed' # None)
      BY <2>1, <2>2, LifecycleAssumption DEF Provs
    <2>4. QED
      BY <2>1, <2>3
  <1>22. CASE HandleResult
    BY <1>22 DEF HandleResult
  <1>23. CASE ContextDone
    BY <1>23 DEF ContextDone, IsStopping
  <1>24. CASE AllServicesExited
    BY <1>24 DEF AllServicesExited
  <1>25. CASE Stopped
    BY <1>25 DEF Stopped
  <1>26. CASE FinalStop
    BY <1>26 DEF FinalStop
  <1>27. CASE Return
    BY <1>27 DEF Return
  <1>28. CASE UNCHANGED <<pc, loopVars, run>>
    BY <1>28
  <1>29. QED
    BY <1>1, <1>2, <1>3, <1>4, <1>5, <1>6, <1>7, <1>8, <1>9, <1>10, <1>11,
      <1>12, <1>13, <1>14, <1>15, <1>16, <1>17, <1>18, <1>19, <1>20, <1>21,
      <1>22, <1>23, <1>24, <1>25, <1>26, <1>27, <1>28 DEF vars, sharedVars,
      statusVars, loopVars, serviceVars, frameVars, capHistory, provHistory,
      raceHistory, historyVars, Next, Boot, Start, Wait, Environment, Lock,
      StopStep, AlreadyStopped, EnterStop, StopProvider, ProviderStopped,
      ShutdownCapability, CapabilityShutDown, CancelRun, LeaveStop,
      CallStop, CancelContext, ServiceExits

LEMMA StepTypeInv == TypeInv /\ [Next]_vars => TypeInv'
  BY AppStep, StatusStep, ServiceStep, HistoryStep, StopStepTyped, RunnerStep
  DEF TypeInv, TypeOK

\* The variables of the App and of every goroutine stay in their domains.
THEOREM TypeCorrect == Spec => []TypeOK
  <1>1. Spec => []TypeInv
    BY InitTypeInv, StepTypeInv, PTL DEF Spec
  <1>2. TypeInv => TypeOK
    BY DEF TypeInv
  <1>3. QED
    BY <1>1, <1>2, PTL

-----------------------------------------------------------------------------
(* At most one Shutdown per registration.                                  *)

\* Only the holder of stopMu is inside Stop, and the Runner calls Stop only
\* from the places that wait for it.
MutexInv ==
    /\ \A a \in Actors : Inside(a) => stopMu = {a}
    /\ stop[Runner].pc # "idle" => pc \in {"stopping", "finalStop"}

Distinct(s) == \A i, j \in DOMAIN s : s[i] = s[j] => i = j

\* A list holds a capability once, and the boot appends the next one.
ListInv ==
    /\ Distinct(registered)
    /\ \A a \in Actors : Distinct(stop[a].caps)
    /\ pc = "sort" => registered = <<>>
    /\ pc \in {"register", "append"} => \A c \in ToSet(registered) : c < next

\* Capabilities a Stop has still to shut down.
Uncalled(a) == IF stop[a].pc = "capCall" THEN ToSet(Front(stop[a].caps))
               ELSE ToSet(stop[a].caps)

\* A capability that a Shutdown may still be called for: registered and about
\* to be listed, or in the snapshot of the Stop in progress, or, when there is
\* none, in the list.
Pending(c) == pc = "append" /\ next = c
Listed(c) ==
    IF \E a \in Actors : Inside(a)
    THEN \E a \in Actors : Inside(a) /\ c \in Uncalled(a)
    ELSE c \in ToSet(registered)

One(b) == IF b THEN 1 ELSE 0

\* Every Shutdown still owed is covered by a registration of its own.
CountInv ==
    \A c \in Caps : shuts[c] + One(Pending(c)) + One(Listed(c)) <= regs[c]

ShutdownInv == MutexInv /\ ListInv /\ CountInv

LEMMA DistinctAppend ==
  ASSUME NEW S, NEW s \in Seq(S), NEW x \in S, Distinct(s), x \notin ToSet(s)
  PROVE  Distinct(Append(s, x)) /\ ToSet(Append(s, x)) = ToSet(s) \union {x}
  <1>1. /\ Append(s, x) \in Seq(S)
        /\ Len(Append(s, x)) = Len(s) + 1
        /\ \A i \in 1 .. Len(s) : Append(s, x)[i] = s[i]
        /\ Append(s, x)[Len(s) + 1] = x
    OBVIOUS
  <1>2. /\ DOMAIN s = 1 .. Len(s) /\ Len(s) \in Nat
        /\ DOMAIN Append(s, x) = 1 .. (Len(s) + 1)
    BY <1>1
  <1>3. Distinct(Append(s, x))
    BY <1>1, <1>2 DEF Distinct, ToSet
  <1>4. ToSet(Append(s, x)) = ToSet(s) \union {x}
    BY <1>1, <1>2 DEF ToSet
  <1>5. QED
    BY <1>3, <1>4

LEMMA DistinctFront ==
  ASSUME NEW S, NEW s \in Seq(S), s # <<>>, Distinct(s)
  PROVE  /\ Distinct(Front(s))
         /\ Last(s) \in ToSet(s)
         /\ ToSet(Front(s)) = ToSet(s) \ {Last(s)}
  <1>1. /\ Front(s) \in Seq(S)
        /\ Len(s) \in Nat \ {0}
        /\ Len(Front(s)) = Len(s) - 1
        /\ \A i \in 1 .. (Len(s) - 1) : Front(s)[i] = s[i]
        /\ Last(s) = s[Len(s)]
    <2>1. Len(s) \in Nat \ {0}
      OBVIOUS
    <2>2. Front(s) = SubSeq(s, 1, Len(s) - 1)
      BY DEF Front
    <2>3. /\ Front(s) \in Seq(S)
          /\ Len(Front(s)) = Len(s) - 1
      <3>1. \A i \in 1 .. (Len(s) - 1) : s[i] \in S
        BY <2>1
      <3>2. QED
        <4>1. Len(s) - 1 \in Int /\ 1 \in Int
          BY <2>1
        <4>2. /\ SubSeq(s, 1, Len(s) - 1) \in Seq(S)
              /\ Len(SubSeq(s, 1, Len(s) - 1)) =
                   IF 1 <= Len(s) - 1 THEN Len(s) - 1 - 1 + 1 ELSE 0
          BY <3>1, <4>1, SubSeqProperties
        <4>3. PICK n \in Nat \ {0} : n = Len(s)
          BY <2>1
        <4>4. (IF 1 <= n - 1 THEN n - 1 - 1 + 1 ELSE 0) = n - 1
          OBVIOUS
        <4>5. QED
          BY <2>2, <4>2, <4>3, <4>4
    <2>4. \A i \in 1 .. (Len(s) - 1) : Front(s)[i] = s[i]
      BY <2>1, <2>2
    <2>5. QED
      BY <2>1, <2>3, <2>4 DEF Last
  <1>2. /\ DOMAIN s = 1 .. Len(s)
        /\ DOMAIN Front(s) = 1 .. (Len(s) - 1)
    BY <1>1
  <1>3. Distinct(Front(s))
    BY <1>1, <1>2 DEF Distinct
  <1>4. Last(s) \in ToSet(s)
    BY <1>1, <1>2 DEF ToSet
  <1>5. ToSet(Front(s)) = ToSet(s) \ {Last(s)}
    BY <1>1, <1>2 DEF ToSet, Distinct
  <1>6. QED
    BY <1>3, <1>4, <1>5

LEMMA InitShutdownInv == Init => ShutdownInv
  BY LifecycleAssumption
  DEF Init, ShutdownInv, MutexInv, ListInv, CountInv, Distinct, ToSet, Inside, NoStop,
      Pending, Listed, One, Actors

\* Mutual exclusion of Stop.
LEMMA MutexStep == TypeInv /\ MutexInv /\ [Next]_vars => MutexInv'
  <1> SUFFICES ASSUME TypeInv, MutexInv, [Next]_vars PROVE MutexInv'
    OBVIOUS
  <1> USE DEF TypeInv, TypeOK, AppOK, StopOK, MutexInv, Inside, Actors,
    frameVars, StopPc, NoStop, StopMuFree
  <1>1. CASE Prepare
    BY <1>1 DEF Prepare
  <1>2. CASE Sorted
    BY <1>2 DEF Sorted
  <1>3. CASE SortFails
    BY <1>3 DEF SortFails
  <1>4. CASE RegisterCapability
    BY <1>4 DEF RegisterCapability, CapabilitiesLeft
  <1>5. CASE RegisterCapabilityFails
    BY <1>5 DEF RegisterCapabilityFails, CapabilitiesLeft
  <1>6. CASE AddRegisteredCapability
    BY <1>6 DEF AddRegisteredCapability, IsStopping
  <1>7. CASE CapabilitiesRegistered
    BY <1>7 DEF CapabilitiesRegistered
  <1>8. CASE RegisterProvider
    BY <1>8 DEF RegisterProvider, ProvidersLeft
  <1>9. CASE RegisterProviderFails
    BY <1>9 DEF RegisterProviderFails, ProvidersLeft
  <1>10. CASE ProvidersRegistered
    BY <1>10 DEF ProvidersRegistered
  <1>11. CASE AddRunningProvider
    BY <1>11 DEF AddRunningProvider, ProvidersLeft
  <1>12. CASE LaunchService
    BY <1>12 DEF LaunchService
  <1>13. CASE BeginJob
    BY <1>13 DEF BeginJob
  <1>14. ASSUME NEW o \in {"jobOk", "jobErr"}, JobReturns(o) PROVE MutexInv'
    BY <1>14 DEF JobReturns, IsStopping
  <1>15. CASE CommitJob
    BY <1>15 DEF CommitJob
  <1>16. CASE BeginRollback
    BY <1>16 DEF BeginRollback
  <1>17. CASE RollbackProvider
    BY <1>17 DEF RollbackProvider, Last
  <1>18. ASSUME NEW ok \in BOOLEAN, ProviderRolledBack(ok) PROVE MutexInv'
    BY <1>18 DEF ProviderRolledBack, Front, Last
  <1>19. CASE EndRollback
    BY <1>19 DEF EndRollback
  <1>20. CASE ProvidersStarted
    BY <1>20 DEF ProvidersStarted
  <1>21. CASE ReceiveResult
    BY <1>21 DEF ReceiveResult, IsStopping
  <1>22. CASE HandleResult
    BY <1>22 DEF HandleResult
  <1>23. CASE ContextDone
    BY <1>23 DEF ContextDone, IsStopping
  <1>24. CASE AllServicesExited
    BY <1>24 DEF AllServicesExited
  <1>25. CASE Stopped
    BY <1>25 DEF Stopped
  <1>26. CASE FinalStop
    BY <1>26 DEF FinalStop
  <1>27. CASE Return
    BY <1>27 DEF Return
  <1>28. ASSUME NEW a \in Actors, AlreadyStopped(a) PROVE MutexInv'
    BY <1>28 DEF AlreadyStopped
  <1>29. ASSUME NEW a \in Actors, EnterStop(a) PROVE MutexInv'
    BY <1>29 DEF EnterStop
  <1>30. ASSUME NEW a \in Actors, StopProvider(a) PROVE MutexInv'
    BY <1>30 DEF StopProvider, Last
  <1>31. ASSUME NEW a \in Actors, NEW ok \in BOOLEAN, ProviderStopped(a, ok)
    PROVE MutexInv'
    BY <1>31 DEF ProviderStopped, Front, Last
  <1>32. ASSUME NEW a \in Actors, ShutdownCapability(a) PROVE MutexInv'
    BY <1>32 DEF ShutdownCapability, Last
  <1>33. ASSUME NEW a \in Actors, NEW ok \in BOOLEAN, CapabilityShutDown(a,
    ok) PROVE MutexInv'
    BY <1>33 DEF CapabilityShutDown, Front, Last
  <1>34. ASSUME NEW a \in Actors, CancelRun(a) PROVE MutexInv'
    BY <1>34 DEF CancelRun
  <1>35. ASSUME NEW a \in Actors, LeaveStop(a) PROVE MutexInv'
    BY <1>35 DEF LeaveStop
  <1>36. ASSUME NEW a \in Stoppers, CallStop(a) PROVE MutexInv'
    BY <1>36, LifecycleAssumption DEF CallStop
  <1>37. CASE UNCHANGED <<stop, stopMu, pc>>
    BY <1>37
  <1>38. QED
    BY <1>1, <1>2, <1>3, <1>4, <1>5, <1>6, <1>7, <1>8, <1>9, <1>10, <1>11,
      <1>12, <1>13, <1>14, <1>15, <1>16, <1>17, <1>18, <1>19, <1>20, <1>21,
      <1>22, <1>23, <1>24, <1>25, <1>26, <1>27, <1>28, <1>29, <1>30, <1>31,
      <1>32, <1>33, <1>34, <1>35, <1>36, <1>37 DEF vars, sharedVars,
      statusVars, loopVars, serviceVars, frameVars, capHistory, provHistory,
      raceHistory, historyVars, Next, Boot, Start, Wait, Environment, Lock,
      StopStep, CancelContext, ServiceExits

\* The lists of capabilities.
LEMMA ListStep == TypeInv /\ ListInv /\ [Next]_vars => ListInv'
  <1> SUFFICES ASSUME TypeInv, ListInv, [Next]_vars PROVE ListInv'
    OBVIOUS
  <1> USE DEF TypeInv, TypeOK, AppOK, StopOK, RunnerOK, IndexInv, CallInv,
    ListInv, sharedVars, loopVars, frameVars, NoStop
  <1>1. CASE Prepare
    BY <1>1 DEF Prepare, Distinct, ToSet
  <1>2. CASE Sorted
    BY <1>2 DEF Sorted, ToSet
  <1>3. CASE SortFails
    BY <1>3 DEF SortFails
  <1>4. CASE RegisterCapability
    BY <1>4 DEF RegisterCapability, CapabilitiesLeft
  <1>5. CASE RegisterCapabilityFails
    BY <1>5 DEF RegisterCapabilityFails, CapabilitiesLeft
  <1>6. CASE AddRegisteredCapability
    <2>1. /\ next \in Caps /\ registered' = Append(registered, next)
          /\ pc' = "register" /\ next' = next + 1 /\ stop' = stop
      BY <1>6 DEF AddRegisteredCapability
    <2>2. \A c \in ToSet(registered) : c \in Nat /\ c < next
      BY <1>6, LifecycleAssumption DEF AddRegisteredCapability, ToSet, Caps
    <2>3. next \in Nat /\ next \notin ToSet(registered)
      BY <2>2
    <2>4. /\ Distinct(registered')
          /\ ToSet(registered') = ToSet(registered) \union {next}
      BY <2>1, <2>3, DistinctAppend
    <2>5. QED
      BY <2>1, <2>2, <2>3, <2>4
  <1>7. CASE CapabilitiesRegistered
    BY <1>7 DEF CapabilitiesRegistered
  <1>8. CASE RegisterProvider
    BY <1>8 DEF RegisterProvider, ProvidersLeft
  <1>9. CASE RegisterProviderFails
    BY <1>9 DEF RegisterProviderFails, ProvidersLeft
  <1>10. CASE ProvidersRegistered
    BY <1>10 DEF ProvidersRegistered
  <1>11. CASE AddRunningProvider
    BY <1>11 DEF AddRunningProvider, ProvidersLeft
  <1>12. CASE LaunchService
    BY <1>12 DEF LaunchService
  <1>13. CASE BeginJob
    BY <1>13 DEF BeginJob
  <1>14. ASSUME NEW o \in {"jobOk", "jobErr"}, JobReturns(o) PROVE ListInv'
    BY <1>14 DEF JobReturns, IsStopping
  <1>15. CASE CommitJob
    BY <1>15 DEF CommitJob
  <1>16. CASE BeginRollback
    BY <1>16 DEF BeginRollback
  <1>17. CASE RollbackProvider
    BY <1>17 DEF RollbackProvider, Last
  <1>18. ASSUME NEW ok \in BOOLEAN, ProviderRolledBack(ok) PROVE ListInv'
    BY <1>18 DEF ProviderRolledBack, Front, Last
  <1>19. CASE EndRollback
    BY <1>19 DEF EndRollback
  <1>20. CASE ProvidersStarted
    BY <1>20 DEF ProvidersStarted
  <1>21. CASE ReceiveResult
    BY <1>21 DEF ReceiveResult, IsStopping
  <1>22. CASE HandleResult
    BY <1>22 DEF HandleResult
  <1>23. CASE ContextDone
    BY <1>23 DEF ContextDone, IsStopping
  <1>24. CASE AllServicesExited
    BY <1>24 DEF AllServicesExited
  <1>25. CASE Stopped
    BY <1>25 DEF Stopped
  <1>26. CASE FinalStop
    BY <1>26 DEF FinalStop
  <1>27. CASE Return
    BY <1>27 DEF Return
  <1>28. ASSUME NEW a \in Actors, AlreadyStopped(a) PROVE ListInv'
    BY <1>28 DEF AlreadyStopped, Distinct
  <1>29. ASSUME NEW a \in Actors, EnterStop(a) PROVE ListInv'
    BY <1>29 DEF EnterStop
  <1>30. ASSUME NEW a \in Actors, StopProvider(a) PROVE ListInv'
    BY <1>30 DEF StopProvider, Last
  <1>31. ASSUME NEW a \in Actors, NEW ok \in BOOLEAN, ProviderStopped(a, ok)
    PROVE ListInv'
    BY <1>31 DEF ProviderStopped, Front, Last
  <1>32. ASSUME NEW a \in Actors, ShutdownCapability(a) PROVE ListInv'
    BY <1>32 DEF ShutdownCapability, Last
  <1>33. ASSUME NEW a \in Actors, NEW ok \in BOOLEAN, CapabilityShutDown(a,
    ok) PROVE ListInv'
    BY <1>33, DistinctFront DEF CapabilityShutDown, Front, Last
  <1>34. ASSUME NEW a \in Actors, CancelRun(a) PROVE ListInv'
    BY <1>34 DEF CancelRun
  <1>35. ASSUME NEW a \in Actors, LeaveStop(a) PROVE ListInv'
    BY <1>35 DEF LeaveStop, Distinct, ToSet
  <1>36. ASSUME NEW a \in Stoppers, CallStop(a) PROVE ListInv'
    BY <1>36 DEF CallStop
  <1>37. CASE UNCHANGED <<registered, stop, pc, next>>
    BY <1>37
  <1>38. QED
    BY <1>1, <1>2, <1>3, <1>4, <1>5, <1>6, <1>7, <1>8, <1>9, <1>10, <1>11,
      <1>12, <1>13, <1>14, <1>15, <1>16, <1>17, <1>18, <1>19, <1>20, <1>21,
      <1>22, <1>23, <1>24, <1>25, <1>26, <1>27, <1>28, <1>29, <1>30, <1>31,
      <1>32, <1>33, <1>34, <1>35, <1>36, <1>37 DEF vars, sharedVars,
      statusVars, loopVars, serviceVars, frameVars, capHistory, provHistory,
      raceHistory, historyVars, Next, Boot, Start, Wait, Environment, Lock,
      StopStep, CancelContext, ServiceExits

\* A step that registers no capability and leaves the calls of Stop where
\* they are, or moves them between places that owe the same Shutdowns.
LEMMA QuietStep ==
  ASSUME TypeInv, CountInv, UNCHANGED <<registered, regs, shuts>>,
         \A a \in Actors : /\ Inside(a)' <=> Inside(a)
                           /\ Inside(a) => Uncalled(a)' = Uncalled(a),
         \A c \in Caps : Pending(c)' => Pending(c)
  PROVE  CountInv'
  <1>1. \A c \in Caps : Listed(c)' <=> Listed(c)
    BY DEF Listed
  <1>2. \A c \in Caps : /\ One(Pending(c))' \in Nat /\ One(Pending(c)) \in Nat
                        /\ One(Pending(c))' <= One(Pending(c))
    BY DEF One
  <1>3. \A c \in Caps : One(Listed(c))' = One(Listed(c)) /\ One(Listed(c)) \in Nat
    BY <1>1 DEF One
  <1>4. \A c \in Caps : shuts[c] \in Nat /\ regs[c] \in Nat
    BY DEF TypeInv, TypeOK, HistoryOK
  <1>5. QED
    BY <1>2, <1>3, <1>4 DEF CountInv

LEMMA CountStep == TypeInv /\ ShutdownInv /\ [Next]_vars => CountInv'
  <1> SUFFICES ASSUME TypeInv, MutexInv, ListInv, CountInv, [Next]_vars
               PROVE  CountInv'
    BY DEF ShutdownInv
  <1> USE DEF Inside, Uncalled, Pending
  <1>0. \A c \in Caps : /\ shuts[c] \in Nat /\ regs[c] \in Nat
                        /\ One(Pending(c)) \in {0, 1}
                        /\ One(Listed(c)) \in {0, 1}
    BY DEF TypeInv, TypeOK, HistoryOK, One
  <1>1. CASE Prepare
    <2>1. \A c \in Caps : Pending(c)' = FALSE
      BY <1>1 DEF Prepare
    <2>2. \A c \in Caps : Listed(c)' => Listed(c)
      BY <1>1 DEF Prepare, Listed, ToSet
    <2>3. shuts' = shuts /\ regs' = regs
      BY <1>1 DEF Prepare, capHistory
    <2>4. QED
      BY <1>0, <2>1, <2>2, <2>3 DEF CountInv, One
  <1>2. CASE RegisterCapability
    <2>1. /\ pc = "register" /\ pc' = "append" /\ next' = next
          /\ shuts' = shuts /\ regs' = [regs EXCEPT ![next] = @ + 1]
          /\ UNCHANGED <<stop, registered>>
      BY <1>2 DEF RegisterCapability, loopVars, frameVars, sharedVars
    <2>2. next \in Caps
      BY <1>2, CapIndex DEF RegisterCapability, TypeInv, TypeOK, RunnerOK
    <2>3. \A c \in Caps : Listed(c)' <=> Listed(c)
      BY <2>1 DEF Listed
    <2>4. \A c \in Caps : ~Pending(c) /\ (Pending(c)' <=> c = next)
      BY <2>1
    <2>5. \A c \in Caps : regs'[c] = IF c = next THEN regs[c] + 1 ELSE regs[c]
      BY <2>1, <2>2 DEF TypeInv, TypeOK, HistoryOK
    <2>6. QED
      BY <1>0, <2>1, <2>2, <2>3, <2>4, <2>5 DEF CountInv, One
  <1>3. CASE AddRegisteredCapability
    <2>1. /\ pc = "append" /\ pc' = "register" /\ next \in Caps
          /\ shuts' = shuts /\ regs' = regs /\ stop' = stop
          /\ registered' = Append(registered, next) /\ registered \in Seq(Caps)
      BY <1>3 DEF AddRegisteredCapability, frameVars, historyVars, capHistory,
           TypeInv, TypeOK, AppOK, IndexInv
    <2>2. next \notin ToSet(registered)
      BY <2>1, LifecycleAssumption DEF ListInv, Caps
    <2>3. ToSet(registered') = ToSet(registered) \union {next}
      BY <2>1, <2>2, DistinctAppend DEF ListInv
    <2>4. \A c \in Caps : ~Pending(c)' /\ (Pending(c) <=> c = next)
      BY <2>1
    <2>5. \A c \in Caps : Listed(c)' => Listed(c) \/ c = next
      BY <2>1, <2>3 DEF Listed
    <2>6. QED
      BY <1>0, <2>1, <2>4, <2>5 DEF CountInv, One
  <1>4. ASSUME NEW a \in Actors, EnterStop(a) PROVE CountInv'
    <2>1. /\ stopMu = {}
          /\ stop' = [stop EXCEPT ![a] = [pc |-> "stop", provs |-> running,
                                          caps |-> registered, run |-> run]]
          /\ UNCHANGED <<registered, regs, shuts, pc, next>>
      BY <1>4 DEF EnterStop, StopMuFree, loopVars, capHistory
    <2>2. \A b \in Actors : ~Inside(b)
      BY <2>1 DEF MutexInv
    <2>3. stop'[a].pc = "stop" /\ stop'[a].caps = registered
      BY <2>1 DEF TypeInv, TypeOK, StopOK
    <2>4. \A b \in Actors : b # a => stop'[b] = stop[b]
      BY <2>1 DEF TypeInv, TypeOK, StopOK
    <2>5. \A c \in Caps : Listed(c)' <=> Listed(c)
      BY <2>1, <2>2, <2>3, <2>4 DEF Listed
    <2>6. \A c \in Caps : Pending(c)' <=> Pending(c)
      BY <2>1
    <2>7. QED
      BY <1>0, <2>1, <2>5, <2>6 DEF CountInv, One
  <1>5. ASSUME NEW a \in Actors, ShutdownCapability(a) PROVE CountInv'
    <2>0. PICK d \in Caps : d = Last(stop[a].caps)
      BY <1>5, FrontLast DEF ShutdownCapability, TypeInv, TypeOK, StopOK
    <2>1. /\ stop[a].pc = "stop" /\ stop[a].caps # <<>>
          /\ stop[a].caps \in Seq(Caps)
          /\ shuts' = [shuts EXCEPT ![d] = @ + 1]
          /\ stop' = [stop EXCEPT ![a].pc = "capCall"]
          /\ UNCHANGED <<registered, regs, pc, next>>
      BY <1>5, <2>0 DEF ShutdownCapability, loopVars, sharedVars, TypeInv,
           TypeOK, StopOK
    <2>2. /\ d \in Caps /\ d \in ToSet(stop[a].caps)
          /\ ToSet(Front(stop[a].caps)) = ToSet(stop[a].caps) \ {d}
      BY <2>0, <2>1, DistinctFront DEF ListInv
    <2>3. /\ stop'[a].pc = "capCall" /\ stop'[a].caps = stop[a].caps
          /\ \A b \in Actors : b # a => stop'[b] = stop[b]
      BY <2>1 DEF TypeInv, TypeOK, StopOK
    <2>4. \A b \in Actors : Inside(b) => b = a
      BY <2>1 DEF MutexInv
    <2>5. Listed(d) /\ ~Listed(d)'
      BY <2>1, <2>2, <2>3, <2>4 DEF Listed
    <2>6. \A c \in Caps : c # d => (Listed(c)' <=> Listed(c))
      BY <2>1, <2>2, <2>3, <2>4 DEF Listed
    <2>7. \A c \in Caps : Pending(c)' <=> Pending(c)
      BY <2>1
    <2>8. \A c \in Caps : shuts'[c] = IF c = d THEN shuts[c] + 1 ELSE shuts[c]
      BY <2>1, <2>2 DEF TypeInv, TypeOK, HistoryOK
    <2>9. shuts'[d] + One(Pending(d))' + One(Listed(d))' <= regs'[d]
      BY <1>0, <2>1, <2>2, <2>5, <2>7, <2>8 DEF CountInv, One
    <2>10. ASSUME NEW c \in Caps, c # d
           PROVE  shuts'[c] + One(Pending(c))' + One(Listed(c))' <= regs'[c]
      BY <1>0, <2>1, <2>6, <2>7, <2>8, <2>10 DEF CountInv, One
    <2>11. QED
      BY <2>9, <2>10 DEF CountInv
  <1>6. ASSUME NEW a \in Actors, LeaveStop(a) PROVE CountInv'
    <2>1. /\ Inside(a) /\ registered' = <<>>
          /\ stop' = [stop EXCEPT ![a] = NoStop]
          /\ UNCHANGED <<regs, shuts, pc, next>>
      BY <1>6 DEF LeaveStop, loopVars, historyVars, capHistory
    <2>2. \A b \in Actors : ~Inside(b)'
      BY <2>1 DEF MutexInv, NoStop, TypeInv, TypeOK, StopOK
    <2>3. \A c \in Caps : ~Listed(c)'
      BY <2>1, <2>2 DEF Listed, ToSet
    <2>4. \A c \in Caps : Pending(c)' <=> Pending(c)
      BY <2>1
    <2>5. QED
      BY <1>0, <2>1, <2>3, <2>4 DEF CountInv, One
  <1>7. ASSUME NEW a \in Actors, StopProvider(a) PROVE CountInv'
    <2>1. /\ UNCHANGED <<registered, regs, shuts, pc, next>>
          /\ stop' = [stop EXCEPT ![a].pc = "provCall"]
      BY <1>7 DEF StopProvider, loopVars, sharedVars, historyVars, capHistory
    <2>2. \A b \in Actors : Inside(b)' <=> Inside(b)
      BY <1>7, <2>1 DEF StopProvider, TypeInv, TypeOK, StopOK, NoStop
    <2>3. \A b \in Actors : Inside(b) => Uncalled(b)' = Uncalled(b)
      BY <1>7, <2>1 DEF StopProvider, TypeInv, TypeOK, StopOK, NoStop
    <2>4. QED
      BY <2>1, <2>2, <2>3, QuietStep
  <1>8. ASSUME NEW a \in Actors, NEW ok \in BOOLEAN, ProviderStopped(a, ok) PROVE CountInv'
    <2>1. /\ UNCHANGED <<registered, regs, shuts, pc, next>>
          /\ stop' = [stop EXCEPT ![a].pc = "stop", ![a].provs = Front(@)]
      BY <1>8 DEF ProviderStopped, loopVars, sharedVars, historyVars, capHistory
    <2>2. \A b \in Actors : Inside(b)' <=> Inside(b)
      BY <1>8, <2>1 DEF ProviderStopped, TypeInv, TypeOK, StopOK, NoStop
    <2>3. \A b \in Actors : Inside(b) => Uncalled(b)' = Uncalled(b)
      BY <1>8, <2>1 DEF ProviderStopped, TypeInv, TypeOK, StopOK, NoStop
    <2>4. QED
      BY <2>1, <2>2, <2>3, QuietStep
  <1>9. ASSUME NEW a \in Actors, NEW ok \in BOOLEAN, CapabilityShutDown(a, ok) PROVE CountInv'
    <2>1. /\ UNCHANGED <<registered, regs, shuts, pc, next>>
          /\ stop' = [stop EXCEPT ![a].pc = "stop", ![a].caps = Front(@)]
      BY <1>9 DEF CapabilityShutDown, loopVars, sharedVars, historyVars, capHistory
    <2>2. \A b \in Actors : Inside(b)' <=> Inside(b)
      BY <1>9, <2>1 DEF CapabilityShutDown, TypeInv, TypeOK, StopOK, NoStop
    <2>3. \A b \in Actors : Inside(b) => Uncalled(b)' = Uncalled(b)
      BY <1>9, <2>1 DEF CapabilityShutDown, TypeInv, TypeOK, StopOK, NoStop
    <2>4. QED
      BY <2>1, <2>2, <2>3, QuietStep
  <1>10. ASSUME NEW a \in Actors, CancelRun(a) PROVE CountInv'
    <2>1. /\ UNCHANGED <<registered, regs, shuts, pc, next>>
          /\ stop' = [stop EXCEPT ![a].pc = "tail"]
      BY <1>10 DEF CancelRun, loopVars, sharedVars, historyVars, capHistory
    <2>2. \A b \in Actors : Inside(b)' <=> Inside(b)
      BY <1>10, <2>1 DEF CancelRun, TypeInv, TypeOK, StopOK, NoStop
    <2>3. \A b \in Actors : Inside(b) => Uncalled(b)' = Uncalled(b)
      BY <1>10, <2>1 DEF CancelRun, TypeInv, TypeOK, StopOK, NoStop
    <2>4. QED
      BY <2>1, <2>2, <2>3, QuietStep
  <1>11. ASSUME NEW a \in Actors, AlreadyStopped(a) PROVE CountInv'
    <2>1. /\ UNCHANGED <<registered, regs, shuts, pc, next>>
          /\ stop' = [stop EXCEPT ![a] = NoStop]
      BY <1>11 DEF AlreadyStopped, loopVars, sharedVars, historyVars, capHistory
    <2>2. \A b \in Actors : Inside(b)' <=> Inside(b)
      BY <1>11, <2>1 DEF AlreadyStopped, TypeInv, TypeOK, StopOK, NoStop
    <2>3. \A b \in Actors : Inside(b) => Uncalled(b)' = Uncalled(b)
      BY <1>11, <2>1 DEF AlreadyStopped, TypeInv, TypeOK, StopOK, NoStop
    <2>4. QED
      BY <2>1, <2>2, <2>3, QuietStep
  <1>12. ASSUME NEW a \in Stoppers, CallStop(a) PROVE CountInv'
    <2>1. /\ UNCHANGED <<registered, regs, shuts, pc, next>>
          /\ stop' = [stop EXCEPT ![a].pc = "lock"]
      BY <1>12 DEF CallStop, loopVars, sharedVars, historyVars, capHistory
    <2>2. \A b \in Actors : Inside(b)' <=> Inside(b)
      BY <1>12, <2>1 DEF CallStop, TypeInv, TypeOK, StopOK, NoStop
    <2>3. \A b \in Actors : Inside(b) => Uncalled(b)' = Uncalled(b)
      BY <1>12, <2>1 DEF CallStop, TypeInv, TypeOK, StopOK, NoStop
    <2>4. QED
      BY <2>1, <2>2, <2>3, QuietStep
  <1>13. CASE HandleResult
    <2>1. /\ UNCHANGED <<registered, regs, shuts>> /\ pc' # "append"
          /\ stop' = stop \/ stop' = [stop EXCEPT ![Runner].pc = "lock"]
          /\ stop[Runner].pc = "idle"
      BY <1>13 DEF HandleResult, sharedVars, historyVars, capHistory, MutexInv, frameVars
    <2>2. \A b \in Actors : Inside(b)' <=> Inside(b)
      BY <2>1 DEF TypeInv, TypeOK, StopOK
    <2>3. \A b \in Actors : Inside(b) => Uncalled(b)' = Uncalled(b)
      BY <2>1 DEF TypeInv, TypeOK, StopOK
    <2>4. QED
      BY <2>1, <2>2, <2>3, QuietStep
  <1>14. CASE ContextDone
    <2>1. /\ UNCHANGED <<registered, regs, shuts>> /\ pc' # "append"
          /\ stop' = stop \/ stop' = [stop EXCEPT ![Runner].pc = "lock"]
          /\ stop[Runner].pc = "idle"
      BY <1>14 DEF ContextDone, sharedVars, historyVars, capHistory, MutexInv, frameVars
    <2>2. \A b \in Actors : Inside(b)' <=> Inside(b)
      BY <2>1 DEF TypeInv, TypeOK, StopOK
    <2>3. \A b \in Actors : Inside(b) => Uncalled(b)' = Uncalled(b)
      BY <2>1 DEF TypeInv, TypeOK, StopOK
    <2>4. QED
      BY <2>1, <2>2, <2>3, QuietStep
  <1>15. CASE FinalStop
    <2>1. /\ UNCHANGED <<registered, regs, shuts>> /\ pc' # "append"
          /\ stop' = stop \/ stop' = [stop EXCEPT ![Runner].pc = "lock"]
          /\ stop[Runner].pc = "idle"
      BY <1>15 DEF FinalStop, sharedVars, historyVars, capHistory, MutexInv, frameVars
    <2>2. \A b \in Actors : Inside(b)' <=> Inside(b)
      BY <2>1 DEF TypeInv, TypeOK, StopOK
    <2>3. \A b \in Actors : Inside(b) => Uncalled(b)' = Uncalled(b)
      BY <2>1 DEF TypeInv, TypeOK, StopOK
    <2>4. QED
      BY <2>1, <2>2, <2>3, QuietStep
  <1>16. CASE /\ UNCHANGED <<registered, regs, shuts, stop>>
              /\ pc' # "append" \/ UNCHANGED <<pc, next>>
    <2>0. stop' = stop
      BY <1>16
    <2>1. \A a \in Actors : /\ Inside(a)' <=> Inside(a)
                            /\ Inside(a) => Uncalled(a)' = Uncalled(a)
      BY <2>0
    <2>2. \A c \in Caps : Pending(c)' => Pending(c)
      BY <1>16
    <2>3. QED
      BY <1>16, <2>1, <2>2, QuietStep
  <1>17. QED
    BY <1>1, <1>2, <1>3, <1>4, <1>5, <1>6, <1>7, <1>8, <1>9, <1>10, <1>11, <1>12, <1>13, <1>14, <1>15, <1>16
    DEF vars, sharedVars, statusVars, loopVars, serviceVars, frameVars,
        capHistory, provHistory, raceHistory, historyVars, Next, Boot, Start,
        Wait, Environment, Lock, StopStep, Sorted, SortFails,
        RegisterCapabilityFails, CapabilitiesRegistered, RegisterProvider,
        RegisterProviderFails, ProvidersRegistered, AddRunningProvider,
        LaunchService, BeginJob, JobReturns, CommitJob, BeginRollback,
        RollbackProvider, ProviderRolledBack, EndRollback, ProvidersStarted,
        ReceiveResult, AllServicesExited, Stopped, Return, CancelContext,
        ServiceExits

LEMMA ShutdownInvariant == Spec => [](TypeInv /\ ShutdownInv)
  <1>1. Init => TypeInv /\ ShutdownInv
    BY InitTypeInv, InitShutdownInv
  <1>2. TypeInv /\ ShutdownInv /\ [Next]_vars => (TypeInv /\ ShutdownInv)'
    BY StepTypeInv, MutexStep, ListStep, CountStep DEF ShutdownInv
  <1>3. QED
    BY <1>1, <1>2, PTL DEF Spec

\* However many goroutines call App.Stop, and however the calls overlap boots
\* and rollbacks, no registration of a capability is shut down twice.
THEOREM NoDoubleShutdown == Spec => []ShutdownAtMostOnce
  <1>1. TypeInv /\ ShutdownInv => ShutdownAtMostOnce
    <2> SUFFICES ASSUME TypeInv, CountInv, NEW c \in Caps
                 PROVE  shuts[c] <= regs[c]
      BY DEF ShutdownInv, ShutdownAtMostOnce
    <2>1. /\ One(Pending(c)) \in {0, 1} /\ One(Listed(c)) \in {0, 1}
          /\ shuts[c] \in Nat /\ regs[c] \in Nat
      BY DEF One, TypeInv, TypeOK, HistoryOK
    <2>2. QED
      BY <2>1 DEF CountInv
  <1>2. QED
    BY <1>1, ShutdownInvariant, PTL

\* At most one goroutine is between the snapshot and the end of App.Stop.
THEOREM StopIsExclusive ==
  Spec => [](\A a, b \in Actors : Inside(a) /\ Inside(b) => a = b)
  <1>1. ShutdownInv => \A a, b \in Actors : Inside(a) /\ Inside(b) => a = b
    BY DEF ShutdownInv, MutexInv
  <1>2. QED
    BY <1>1, ShutdownInvariant, PTL

-----------------------------------------------------------------------------
(* The lists of the App and the snapshots of its Stops.                    *)

Booting  == pc \in {"sort", "register", "append", "provider"}
Starting == pc \in {"add", "launch", "job", "jobOk", "jobErr"}
Rolling  == pc \in {"rollback", "rollbackCall"}

Ascending(s) == \A k, l \in DOMAIN s : k < l => s[k] < s[l]

\* While the boot is at "add" provider next is not listed yet.
Reached == IF pc = "add" THEN 1 .. next - 1 ELSE 1 .. next

\* Every list is in boot order, and holds no provider the boot has not come to.
BootInv ==
    /\ Ascending(registered) /\ Ascending(running) /\ Ascending(started)
    /\ Booting \/ pc = "idle" => running = <<>> /\ started = <<>>
    /\ Starting => /\ ToSet(started) = 1 .. next - 1
                   /\ ToSet(running) \subseteq Reached

\* So is every snapshot, and a Stop leaves nothing of it behind.
SnapshotInv ==
    \A a \in Actors : Inside(a) =>
      /\ Ascending(stop[a].provs) /\ Ascending(stop[a].caps)
      /\ stop[a].pc \in {"capCall", "tail"} => stop[a].provs = <<>>
      /\ stop[a].pc = "tail" => stop[a].caps = <<>>

LEMMA AppendSet ==
  ASSUME NEW S, NEW s \in Seq(S), NEW x \in S
  PROVE  ToSet(Append(s, x)) = ToSet(s) \union {x}
  <1>1. /\ Append(s, x) \in Seq(S)
        /\ Len(Append(s, x)) = Len(s) + 1
        /\ \A i \in 1 .. Len(s) : Append(s, x)[i] = s[i]
        /\ Append(s, x)[Len(s) + 1] = x
    OBVIOUS
  <1>2. /\ DOMAIN s = 1 .. Len(s) /\ Len(s) \in Nat
        /\ DOMAIN Append(s, x) = 1 .. (Len(s) + 1)
    BY <1>1
  <1>3. QED
    BY <1>1, <1>2 DEF ToSet

LEMMA AscendingAppend ==
  ASSUME NEW n \in Nat, NEW s \in Seq(1 .. n), NEW x \in 1 .. n,
         Ascending(s), \A y \in ToSet(s) : y < x
  PROVE  Ascending(Append(s, x))
  <1>1. /\ Append(s, x) \in Seq(1 .. n)
        /\ Len(Append(s, x)) = Len(s) + 1
        /\ \A i \in 1 .. Len(s) : Append(s, x)[i] = s[i]
        /\ Append(s, x)[Len(s) + 1] = x
    OBVIOUS
  <1>2. /\ DOMAIN s = 1 .. Len(s) /\ Len(s) \in Nat
        /\ DOMAIN Append(s, x) = 1 .. (Len(s) + 1)
    BY <1>1
  <1>3. \A i \in 1 .. Len(s) : s[i] < x
    BY <1>2 DEF ToSet
  <1>4. QED
    BY <1>1, <1>2, <1>3 DEF Ascending

\* Taking the last element off an ascending list.
LEMMA AscendingFront ==
  ASSUME NEW n \in Nat, NEW s \in Seq(1 .. n), s # <<>>, Ascending(s)
  PROVE  /\ Front(s) \in Seq(1 .. n) /\ Ascending(Front(s))
         /\ Last(s) \in ToSet(s) /\ Last(s) \in 1 .. n
         /\ ToSet(Front(s)) = ToSet(s) \ {Last(s)}
         /\ \A y \in ToSet(s) : y <= Last(s)
  <1>1. /\ Len(s) \in Nat \ {0} /\ DOMAIN s = 1 .. Len(s)
        /\ \A i \in DOMAIN s : s[i] \in 1 .. n
    OBVIOUS
  <1>2. Distinct(s)
    BY <1>1 DEF Distinct, Ascending
  <1>3. /\ Front(s) \in Seq(1 .. n) /\ Last(s) \in 1 .. n
        /\ Last(s) \in ToSet(s)
        /\ ToSet(Front(s)) = ToSet(s) \ {Last(s)}
    BY <1>2, FrontLast, DistinctFront
  <1>4. /\ DOMAIN Front(s) = 1 .. Len(s) - 1
        /\ \A i \in DOMAIN Front(s) : Front(s)[i] = s[i]
    <2>1. Front(s) = SubSeq(s, 1, Len(s) - 1)
      BY DEF Front
    <2>2. QED
      BY <1>1, <2>1
  <1>5. Ascending(Front(s))
    BY <1>1, <1>4 DEF Ascending
  <1>6. \A y \in ToSet(s) : y <= Last(s)
    BY <1>1 DEF Ascending, ToSet, Last
  <1>7. QED
    BY <1>3, <1>5, <1>6

LEMMA AscendingEmpty == Ascending(<<>>) /\ ToSet(<<>>) = {}
  BY DEF Ascending, ToSet

\* What a step of a Stop in progress does to its snapshot.
Others(a) == \A b \in Actors : b # a => stop'[b] = stop[b]

Moves(a, place, provs, caps) ==
    /\ stop'[a].pc = place
    /\ stop'[a].provs = provs
    /\ stop'[a].caps = caps
    /\ stop'[a].run = stop[a].run
    /\ Others(a)

LEMMA StopMoves ==
  ASSUME TypeInv, NEW a \in Actors, NEW ok \in BOOLEAN
  PROVE  /\ StopProvider(a) => Moves(a, "provCall", stop[a].provs, stop[a].caps)
         /\ ProviderStopped(a, ok) =>
              Moves(a, "stop", Front(stop[a].provs), stop[a].caps)
         /\ ShutdownCapability(a) =>
              Moves(a, "capCall", stop[a].provs, stop[a].caps)
         /\ CapabilityShutDown(a, ok) =>
              Moves(a, "stop", stop[a].provs, Front(stop[a].caps))
         /\ CancelRun(a) => Moves(a, "tail", stop[a].provs, stop[a].caps)
  <1> USE DEF Moves, Others, TypeInv, TypeOK, StopOK
  <1>1. StopProvider(a) => Moves(a, "provCall", stop[a].provs, stop[a].caps)
    BY DEF StopProvider
  <1>2. ProviderStopped(a, ok) =>
          Moves(a, "stop", Front(stop[a].provs), stop[a].caps)
    BY DEF ProviderStopped
  <1>3. ShutdownCapability(a) =>
          Moves(a, "capCall", stop[a].provs, stop[a].caps)
    BY DEF ShutdownCapability
  <1>4. CapabilityShutDown(a, ok) =>
          Moves(a, "stop", stop[a].provs, Front(stop[a].caps))
    BY DEF CapabilityShutDown
  <1>5. CancelRun(a) => Moves(a, "tail", stop[a].provs, stop[a].caps)
    BY DEF CancelRun
  <1>6. QED
    BY <1>1, <1>2, <1>3, <1>4, <1>5

\* A Stop begins with the lists of this moment, and ends with nothing.
LEMMA StopEnds ==
  ASSUME TypeInv, NEW a \in Actors
  PROVE  /\ EnterStop(a) =>
              /\ stop'[a] = [pc |-> "stop", provs |-> running,
                             caps |-> registered, run |-> run]
              /\ Others(a)
         /\ LeaveStop(a) => stop'[a] = NoStop /\ Others(a)
  BY DEF EnterStop, LeaveStop, Others, TypeInv, TypeOK, StopOK

\* The other steps touch no Stop that has its snapshot.
SnapshotsKept ==
    \A b \in Actors : /\ Inside(b)' <=> Inside(b)
                      /\ Inside(b) => stop'[b] = stop[b]

StopSteps(a) ==
    \/ EnterStop(a) \/ StopProvider(a) \/ ShutdownCapability(a)
    \/ CancelRun(a) \/ LeaveStop(a)
    \/ \E ok \in BOOLEAN : ProviderStopped(a, ok) \/ CapabilityShutDown(a, ok)

\* A step that does not belong to a Stop in progress.
OtherSteps ==
    \/ Boot \/ Start \/ Wait \/ Environment
    \/ \E a \in Actors : AlreadyStopped(a)
    \/ UNCHANGED vars

LEMMA OtherCalls ==
  ASSUME TypeInv, MutexInv, OtherSteps
  PROVE  \/ stop' = stop
         \/ \E a \in Actors : /\ stop[a].pc = "lock"
                              /\ stop' = [stop EXCEPT ![a] = NoStop]
         \/ \E a \in Actors : /\ stop[a].pc = "idle"
                              /\ stop' = [stop EXCEPT ![a].pc = "lock"]
  <1> USE DEF Actors
  <1>1. CASE HandleResult
    BY <1>1 DEF HandleResult, MutexInv
  <1>2. CASE ContextDone
    BY <1>2 DEF ContextDone, MutexInv
  <1>3. CASE FinalStop
    BY <1>3 DEF FinalStop, MutexInv
  <1>4. ASSUME NEW a \in Actors, AlreadyStopped(a)
        PROVE  \E b \in Actors : /\ stop[b].pc = "lock"
                                 /\ stop' = [stop EXCEPT ![b] = NoStop]
    BY <1>4 DEF AlreadyStopped
  <1>5. ASSUME NEW a \in Stoppers, CallStop(a)
        PROVE  \E b \in Actors : /\ stop[b].pc = "idle"
                                 /\ stop' = [stop EXCEPT ![b].pc = "lock"]
    BY <1>5 DEF CallStop
  <1>6. CASE UNCHANGED stop
    BY <1>6
  <1>7. QED
    BY <1>1, <1>2, <1>3, <1>4, <1>5, <1>6 DEF OtherSteps, vars, frameVars,
      Boot, Start, Wait, Environment, Prepare, Sorted, SortFails,
      RegisterCapability, RegisterCapabilityFails, AddRegisteredCapability,
      CapabilitiesRegistered, RegisterProvider, RegisterProviderFails,
      ProvidersRegistered, AddRunningProvider, LaunchService, BeginJob,
      JobReturns, CommitJob, BeginRollback, RollbackProvider,
      ProviderRolledBack, EndRollback, ProvidersStarted, ReceiveResult,
      AllServicesExited, Stopped, Return, CancelContext, ServiceExits

LEMMA OtherStepsKeep ==
  ASSUME TypeInv, MutexInv, OtherSteps
  PROVE  SnapshotsKept
  <1> USE DEF SnapshotsKept, Inside, TypeInv, TypeOK, StopOK, NoStop
  <1>1. CASE stop' = stop
    BY <1>1
  <1>2. ASSUME NEW a \in Actors, stop[a].pc = "lock",
               stop' = [stop EXCEPT ![a] = NoStop]
        PROVE  SnapshotsKept
    BY <1>2
  <1>3. ASSUME NEW a \in Actors, stop[a].pc = "idle",
               stop' = [stop EXCEPT ![a].pc = "lock"]
        PROVE  SnapshotsKept
    BY <1>3
  <1>4. QED
    BY <1>1, <1>2, <1>3, OtherCalls

\* Every step is of one kind or the other.
LEMMA TwoKinds == [Next]_vars => OtherSteps \/ \E a \in Actors : StopSteps(a)
  BY DEF Next, Lock, StopStep, StopSteps, OtherSteps

LEMMA BootStep ==
  ASSUME TypeInv, ListInv, BootInv, [Next]_vars
  PROVE  BootInv'
  <1> USE DEF TypeInv, TypeOK, AppOK, RunnerOK, IndexInv, BootInv, Booting,
        Starting, sharedVars, loopVars
  <1>0. NCap \in Nat /\ NProv \in Nat
    BY LifecycleAssumption
  <1>1. CASE Prepare
    BY <1>1, AscendingEmpty DEF Prepare
  <1>2. CASE Sorted
    BY <1>2 DEF Sorted
  <1>3. CASE CapabilitiesRegistered
    BY <1>3 DEF CapabilitiesRegistered
  <1>4. CASE RegisterProvider
    BY <1>4 DEF RegisterProvider
  <1>5. CASE RegisterCapability
    BY <1>5 DEF RegisterCapability
  <1>6. CASE AddRegisteredCapability
    <2>1. /\ pc = "append" /\ next \in Caps /\ pc' = "register"
          /\ registered' = Append(registered, next)
          /\ UNCHANGED <<running, started>>
      BY <1>6 DEF AddRegisteredCapability
    <2>2. \A c \in ToSet(registered) : c < next
      BY <2>1 DEF ListInv
    <2>3. Ascending(registered')
      BY <1>0, <2>1, <2>2, AscendingAppend DEF Caps
    <2>4. QED
      BY <2>1, <2>3
  <1>7. CASE ProvidersRegistered
    <2>1. 1 .. 1 - 1 = {}
      OBVIOUS
    <2>2. QED
      BY <1>7, <2>1, AscendingEmpty DEF ProvidersRegistered, Reached
  <1>8. CASE AddRunningProvider
    <2>1. /\ pc = "add" /\ next \in Provs /\ pc' = "launch"
          /\ running' = Append(running, next)
          /\ UNCHANGED <<registered, started, next>>
      BY <1>8, ProvIndex DEF AddRunningProvider
    <2>2. ToSet(running) \subseteq 1 .. next - 1
      BY <2>1 DEF Reached
    <2>3. Ascending(running')
      BY <1>0, <2>1, <2>2, AscendingAppend DEF Provs
    <2>4. ToSet(running') = ToSet(running) \union {next}
      BY <2>1, AppendSet
    <2>5. ToSet(running') \subseteq 1 .. next
      BY <2>1, <2>2, <2>4
    <2>6. QED
      BY <2>1, <2>3, <2>5 DEF Reached
  <1>9. CASE LaunchService
    <2>1. /\ pc = "launch" /\ next \in Provs /\ pc' = "add"
          /\ started' = Append(started, next)
          /\ next' = next + 1
          /\ UNCHANGED <<registered, running>>
      BY <1>9 DEF LaunchService
    <2>2. ToSet(started) = 1 .. next - 1 /\ ToSet(running) \subseteq 1 .. next
      BY <2>1 DEF Reached
    <2>3. Ascending(started')
      BY <1>0, <2>1, <2>2, AscendingAppend DEF Provs
    <2>4. ToSet(started') = 1 .. next
      <3>1. ToSet(started') = ToSet(started) \union {next}
        BY <2>1, AppendSet
      <3>2. (1 .. next - 1) \union {next} = 1 .. next
        OBVIOUS
      <3>3. QED
        BY <2>2, <3>1, <3>2
    <2>5. QED
      BY <2>1, <2>2, <2>3, <2>4 DEF Reached
  <1>10. CASE BeginJob
    BY <1>10 DEF BeginJob, Reached
  <1>11. ASSUME NEW o \in {"jobOk", "jobErr"}, JobReturns(o) PROVE BootInv'
    BY <1>11 DEF JobReturns, Reached
  <1>12. CASE CommitJob
    <2>1. /\ pc = "jobOk" /\ next \in Provs /\ pc' = "add"
          /\ started' = Append(started, next)
          /\ next' = next + 1
          /\ UNCHANGED <<registered, running>>
      BY <1>12 DEF CommitJob
    <2>2. ToSet(started) = 1 .. next - 1 /\ ToSet(running) \subseteq 1 .. next
      BY <2>1 DEF Reached
    <2>3. Ascending(started')
      BY <1>0, <2>1, <2>2, AscendingAppend DEF Provs
    <2>4. ToSet(started') = 1 .. next
      <3>1. ToSet(started') = ToSet(started) \union {next}
        BY <2>1, AppendSet
      <3>2. (1 .. next - 1) \union {next} = 1 .. next
        OBVIOUS
      <3>3. QED
        BY <2>2, <3>1, <3>2
    <2>5. QED
      BY <2>1, <2>2, <2>3, <2>4 DEF Reached
  <1>13. CASE BeginRollback
    <2>1. /\ pc = "jobErr" /\ next \in Provs /\ pc' = "rollback"
          /\ started' = Append(started, next)
          /\ UNCHANGED <<registered, running>>
      BY <1>13 DEF BeginRollback
    <2>2. ToSet(started) = 1 .. next - 1 /\ ToSet(running) \subseteq 1 .. next
      BY <2>1 DEF Reached
    <2>3. Ascending(started')
      BY <1>0, <2>1, <2>2, AscendingAppend DEF Provs
    <2>4. ToSet(started') = 1 .. next
      <3>1. ToSet(started') = ToSet(started) \union {next}
        BY <2>1, AppendSet
      <3>2. (1 .. next - 1) \union {next} = 1 .. next
        OBVIOUS
      <3>3. QED
        BY <2>2, <3>1, <3>2
    <2>5. QED
      BY <2>1, <2>2, <2>3, <2>4 DEF Reached
  <1>14. ASSUME NEW ok \in BOOLEAN, ProviderRolledBack(ok) PROVE BootInv'
    <2>1. /\ pc = "rollbackCall" /\ started # <<>> /\ pc' = "rollback"
          /\ started' = Front(started) /\ UNCHANGED <<registered, running>>
      BY <1>14 DEF ProviderRolledBack
    <2>2. Ascending(started')
      BY <1>0, <2>1, AscendingFront DEF Provs
    <2>3. QED
      BY <2>1, <2>2
  <1>15. CASE EndRollback
    BY <1>15, AscendingEmpty DEF EndRollback
  <1>16. ASSUME NEW a \in Actors, LeaveStop(a) PROVE BootInv'
    <2>1. /\ registered' = <<>> /\ running' = <<>>
          /\ UNCHANGED <<pc, next, started>>
      BY <1>16 DEF LeaveStop
    <2>2. QED
      BY <2>1, AscendingEmpty DEF Reached
  <1>17. CASE /\ UNCHANGED <<registered, running, started>>
             /\ \/ UNCHANGED <<pc, next>>
                \/ ~Booting' /\ ~Starting' /\ pc' # "idle"
    BY <1>17 DEF Reached
  <1>18. QED
    BY <1>1, <1>2, <1>3, <1>4, <1>5, <1>6, <1>7, <1>8, <1>9, <1>10, <1>11,
      <1>12, <1>13, <1>14, <1>15, <1>16, <1>17
    DEF vars, sharedVars, statusVars, loopVars, serviceVars, frameVars,
        capHistory, provHistory, raceHistory, historyVars, Next, Lock,
        StopStep, Boot, Start, Wait, Environment, SortFails,
        RegisterCapabilityFails, RegisterProviderFails, RollbackProvider,
        ProvidersStarted, ReceiveResult, HandleResult, ContextDone,
        AllServicesExited, Stopped, FinalStop, Return, AlreadyStopped,
        CallStop, CancelContext, ServiceExits, EnterStop, StopProvider,
        ProviderStopped, ShutdownCapability, CapabilityShutDown, CancelRun

LEMMA SnapshotStep ==
  ASSUME TypeInv, MutexInv, BootInv, SnapshotInv, [Next]_vars
  PROVE  SnapshotInv'
  <1>0. /\ NCap \in Nat /\ NProv \in Nat
        /\ \A a \in Actors : /\ stop[a].provs \in Seq(1 .. NProv)
                             /\ stop[a].caps \in Seq(1 .. NCap)
    BY LifecycleAssumption DEF TypeInv, TypeOK, StopOK, Caps, Provs
  <1>1. CASE OtherSteps
    <2>1. SnapshotsKept
      BY <1>1, OtherStepsKeep
    <2>2. QED
      BY <2>1 DEF SnapshotInv, SnapshotsKept
  <1>2. ASSUME NEW a \in Actors, StopSteps(a) PROVE SnapshotInv'
    <2> DEFINE Sound(b) ==
          /\ Ascending(stop[b].provs) /\ Ascending(stop[b].caps)
          /\ stop[b].pc \in {"capCall", "tail"} => stop[b].provs = <<>>
          /\ stop[b].pc = "tail" => stop[b].caps = <<>>
    <2>1. ASSUME Others(a), Inside(a)' => Sound(a)' PROVE SnapshotInv'
      <3>1. ASSUME NEW b \in Actors, b # a, Inside(b)' PROVE Sound(b)'
        BY <2>1, <3>1 DEF Others, Inside, SnapshotInv
      <3>2. QED
        BY <2>1, <3>1 DEF SnapshotInv
    <2>2. CASE EnterStop(a)
      <3>1. /\ stop'[a] = [pc |-> "stop", provs |-> running,
                           caps |-> registered, run |-> run]
            /\ Others(a)
        BY <2>2, StopEnds
      <3>2. Sound(a)'
        BY <3>1 DEF BootInv
      <3>3. QED
        BY <2>1, <3>1, <3>2
    <2>3. CASE StopProvider(a)
      <3>1. stop[a].pc = "stop" /\ Sound(a)
        BY <2>3 DEF StopProvider, SnapshotInv, Inside
      <3>2. Moves(a, "provCall", stop[a].provs, stop[a].caps)
        BY <2>3, StopMoves
      <3>3. QED
        BY <2>1, <3>1, <3>2 DEF Moves
    <2>4. ASSUME NEW ok \in BOOLEAN, ProviderStopped(a, ok)
          PROVE  SnapshotInv'
      <3>1. stop[a].pc = "provCall" /\ Sound(a) /\ stop[a].provs # <<>>
        BY <2>4 DEF ProviderStopped, SnapshotInv, Inside, TypeInv, CallInv
      <3>2. Moves(a, "stop", Front(stop[a].provs), stop[a].caps)
        BY <2>4, StopMoves
      <3>3. Ascending(Front(stop[a].provs))
        BY <1>0, <3>1, AscendingFront
      <3>4. QED
        BY <2>1, <3>1, <3>2, <3>3 DEF Moves
    <2>5. CASE ShutdownCapability(a)
      <3>1. stop[a].pc = "stop" /\ Sound(a) /\ stop[a].provs = <<>>
        BY <2>5 DEF ShutdownCapability, SnapshotInv, Inside, ProvidersDown
      <3>2. Moves(a, "capCall", stop[a].provs, stop[a].caps)
        BY <2>5, StopMoves
      <3>3. QED
        BY <2>1, <3>1, <3>2 DEF Moves
    <2>6. ASSUME NEW ok \in BOOLEAN, CapabilityShutDown(a, ok)
          PROVE  SnapshotInv'
      <3>1. stop[a].pc = "capCall" /\ Sound(a) /\ stop[a].caps # <<>>
        BY <2>6 DEF CapabilityShutDown, SnapshotInv, Inside, TypeInv, CallInv
      <3>2. Moves(a, "stop", stop[a].provs, Front(stop[a].caps))
        BY <2>6, StopMoves
      <3>3. Ascending(Front(stop[a].caps))
        BY <1>0, <3>1, AscendingFront
      <3>4. QED
        BY <2>1, <3>1, <3>2, <3>3 DEF Moves
    <2>7. CASE CancelRun(a)
      <3>1. /\ stop[a].pc = "stop" /\ Sound(a)
            /\ stop[a].provs = <<>> /\ stop[a].caps = <<>>
        BY <2>7 DEF CancelRun, SnapshotInv, Inside, ProvidersDown
      <3>2. Moves(a, "tail", stop[a].provs, stop[a].caps)
        BY <2>7, StopMoves
      <3>3. QED
        BY <2>1, <3>1, <3>2 DEF Moves
    <2>8. CASE LeaveStop(a)
      <3>1. ~Inside(a)' /\ Others(a)
        BY <2>8, StopEnds DEF Inside, NoStop
      <3>2. QED
        BY <2>1, <3>1
    <2>9. QED
      BY <1>2, <2>2, <2>3, <2>4, <2>5, <2>6, <2>7, <2>8 DEF StopSteps
  <1>3. QED
    BY <1>1, <1>2, TwoKinds

-----------------------------------------------------------------------------
(* Runs and the Stops that overlap them.                                   *)

\* A Stop in progress belongs to the current run or was entered before the
\* first one, when there was nothing to stop.
Overlaps(a) ==
    /\ ~stopped
    /\ stop[a].run \in {0, run}
    /\ stop[a].run = 0 => stop[a].provs = <<>> /\ stop[a].caps = <<>>
    /\ stop[a].run = run => stopping

\* A run that has returned is stopped; before the first one nothing is listed.
RunInv ==
    /\ \A a \in Actors : Inside(a) => Overlaps(a)
    /\ pc = "idle" <=> run = 0
    /\ run = 0 => running = <<>> /\ registered = <<>>
    /\ pc = "returned" => stopped
    /\ pc \in {"stopping", "finalStop"} /\ stop[Runner].pc = "idle" => stopped

Stopping == \E a \in Actors : Inside(a)

\* What late rules out: a Stop of an earlier moment in this run, an object that
\* comes up while a Stop is under way or after it.
LateInv ==
    ~late =>
      /\ \A a \in Actors : Inside(a) => stop[a].run = run
      /\ stopped \/ Stopping => pc \notin {"append", "launch"}
      /\ stopped => registered = <<>> /\ running = <<>>

LEMMA RunOther ==
  ASSUME TypeInv, MutexInv, RunInv, OtherSteps
  PROVE  RunInv'
  <1> USE DEF TypeInv, TypeOK, AppOK, RunnerOK, sharedVars, loopVars, frameVars
  <1>0. SnapshotsKept
    BY OtherStepsKeep
  <1>a. ASSUME UNCHANGED <<stopped, stopping, run>>,
               NEW b \in Actors, Inside(b)'
        PROVE  Overlaps(b)'
    BY <1>0, <1>a DEF SnapshotsKept, RunInv, Overlaps
  <1>1. CASE Prepare
    <2>1. /\ pc \in {"idle", "returned"} /\ run' = run + 1 /\ pc' = "sort"
          /\ stopped' = FALSE
      BY <1>1 DEF Prepare
    <2>2. ASSUME NEW b \in Actors, Inside(b)' PROVE Overlaps(b)'
      <3>1. Inside(b) /\ stop'[b] = stop[b]
        BY <1>0, <2>2 DEF SnapshotsKept
      <3>2. run = 0
        BY <2>1, <3>1 DEF RunInv, Overlaps
      <3>3. QED
        BY <2>1, <3>1, <3>2 DEF RunInv, Overlaps
    <2>3. QED
      BY <2>1, <2>2 DEF RunInv
  <1>2. CASE HandleResult
    <2>1. /\ UNCHANGED <<stopped, stopping, run, running, registered>>
          /\ pc # "idle" /\ pc' \notin {"idle", "returned"}
          /\ \/ pc' = "finish"
             \/ stop' = [stop EXCEPT ![Runner].pc = "lock"]
      BY <1>2 DEF HandleResult
    <2>2. pc' = "finish" \/ stop'[Runner].pc = "lock"
      BY <2>1 DEF StopOK, Actors
    <2>3. QED
      BY <1>a, <2>1, <2>2 DEF RunInv
  <1>3. CASE ContextDone
    <2>1. /\ UNCHANGED <<stopped, stopping, run, running, registered>>
          /\ pc # "idle" /\ pc' \notin {"idle", "returned"}
          /\ \/ pc' = "finish"
             \/ stop' = [stop EXCEPT ![Runner].pc = "lock"]
      BY <1>3 DEF ContextDone
    <2>2. pc' = "finish" \/ stop'[Runner].pc = "lock"
      BY <2>1 DEF StopOK, Actors
    <2>3. QED
      BY <1>a, <2>1, <2>2 DEF RunInv
  <1>4. CASE FinalStop
    <2>1. /\ UNCHANGED <<stopped, stopping, run, running, registered>>
          /\ pc # "idle" /\ pc' \notin {"idle", "returned"}
          /\ \/ pc' = "finish"
             \/ stop' = [stop EXCEPT ![Runner].pc = "lock"]
      BY <1>4 DEF FinalStop
    <2>2. pc' = "finish" \/ stop'[Runner].pc = "lock"
      BY <2>1 DEF StopOK, Actors
    <2>3. QED
      BY <1>a, <2>1, <2>2 DEF RunInv
  <1>5. CASE Return
    <2>1. /\ UNCHANGED <<stopped, stopping, run, running, registered, stop>>
          /\ pc = "finalStop" /\ stop[Runner].pc = "idle" /\ pc' = "returned"
      BY <1>5 DEF Return
    <2>2. QED
      BY <1>a, <2>1 DEF RunInv
  <1>6. ASSUME NEW a \in Actors, AlreadyStopped(a) PROVE RunInv'
    <2>1. /\ UNCHANGED <<stopped, stopping, run, running, registered, pc>>
          /\ stopped
      BY <1>6 DEF AlreadyStopped
    <2>2. QED
      BY <1>a, <2>1 DEF RunInv
  <1>7. ASSUME NEW a \in Stoppers, CallStop(a) PROVE RunInv'
    <2>1. /\ UNCHANGED <<stopped, stopping, run, running, registered, pc>>
          /\ stop' = [stop EXCEPT ![a].pc = "lock"]
      BY <1>7 DEF CallStop
    <2>2. stop'[Runner] = stop[Runner]
      BY <2>1, LifecycleAssumption DEF StopOK, Actors
    <2>3. QED
      BY <1>a, <2>1, <2>2 DEF RunInv
  <1>8. CASE /\ UNCHANGED <<stopped, stopping, run, stop>>
             /\ UNCHANGED <<running, registered>> \/ pc # "idle"
             /\ \/ UNCHANGED pc
                \/ /\ pc # "idle"
                   /\ pc' \notin {"idle", "returned", "stopping", "finalStop"}
    BY <1>a, <1>8 DEF RunInv
  <1>9. QED
    BY <1>1, <1>2, <1>3, <1>4, <1>5, <1>6, <1>7, <1>8
    DEF vars, sharedVars, statusVars, loopVars, serviceVars, frameVars,
        capHistory, provHistory, raceHistory, historyVars, OtherSteps, Boot,
        Start, Wait, Environment, Sorted, SortFails, RegisterCapability,
        RegisterCapabilityFails, AddRegisteredCapability,
        CapabilitiesRegistered, RegisterProvider, RegisterProviderFails,
        ProvidersRegistered, AddRunningProvider, LaunchService, BeginJob,
        JobReturns, CommitJob, BeginRollback, RollbackProvider,
        ProviderRolledBack, EndRollback, ProvidersStarted, ReceiveResult,
        AllServicesExited, Stopped, CancelContext, ServiceExits

\* A step of a Stop in progress, seen from another of them: there is none.
LEMMA OnlyOne ==
  ASSUME TypeInv, MutexInv, NEW a \in Actors, Others(a),
         Inside(a) \/ stopMu = {}
  PROVE  \A b \in Actors : b # a => ~Inside(b) /\ ~Inside(b)'
  BY DEF MutexInv, Others, Inside

LEMMA RunStop ==
  ASSUME TypeInv, MutexInv, RunInv, NEW a \in Actors, StopSteps(a)
  PROVE  RunInv'
  <1> USE DEF TypeInv, TypeOK, AppOK, RunnerOK, sharedVars, loopVars, frameVars
  <1>1. CASE EnterStop(a)
    <2>1. /\ UNCHANGED <<stopped, run, pc, running, registered>>
          /\ ~stopped /\ stopping' = TRUE /\ stopMu = {}
      BY <1>1 DEF EnterStop, StopMuFree
    <2>2. /\ stop'[a] = [pc |-> "stop", provs |-> running,
                         caps |-> registered, run |-> run]
          /\ Others(a)
      BY <1>1, StopEnds
    <2>3. \A b \in Actors : b # a => ~Inside(b)'
      BY <2>1, <2>2, OnlyOne
    <2>4. stop[Runner].pc = "idle" \/ stop'[Runner].pc # "idle"
      BY <1>1, <2>2 DEF EnterStop, Others, Actors
    <2>5. QED
      BY <2>1, <2>2, <2>3, <2>4 DEF RunInv, Overlaps
  <1>2. CASE LeaveStop(a)
    <2>1. /\ stopped' = TRUE /\ running' = <<>> /\ registered' = <<>>
          /\ UNCHANGED <<run, pc>> /\ Inside(a)
      BY <1>2 DEF LeaveStop, Inside
    <2>2. stop'[a] = NoStop /\ Others(a)
      BY <1>2, StopEnds
    <2>3. \A b \in Actors : ~Inside(b)'
      BY <2>1, <2>2, OnlyOne DEF Inside, NoStop
    <2>4. QED
      BY <2>1, <2>3 DEF RunInv, Overlaps
  <1>3. ASSUME Inside(a), Inside(a)', Others(a),
               stop'[a].run = stop[a].run,
               stop[a].provs = <<>> => stop'[a].provs = <<>>,
               stop[a].caps = <<>> => stop'[a].caps = <<>>,
               UNCHANGED <<sharedVars, run, pc>>
        PROVE  RunInv'
    <2>1. \A b \in Actors : Inside(b)' => b = a
      BY <1>3, OnlyOne
    <2>2. stop'[Runner].pc = "idle" => stop[Runner].pc = "idle"
      BY <1>3 DEF Others, Actors, Inside
    <2>3. QED
      BY <1>3, <2>1, <2>2 DEF RunInv, Overlaps
  <1>4. CASE StopProvider(a)
    BY <1>3, <1>4, StopMoves DEF StopProvider, Moves, Inside
  <1>5. ASSUME NEW ok \in BOOLEAN, ProviderStopped(a, ok) PROVE RunInv'
    <2>1. stop[a].provs # <<>>
      BY <1>5 DEF ProviderStopped, CallInv
    <2>2. QED
      BY <1>3, <1>5, <2>1, StopMoves DEF ProviderStopped, Moves, Inside
  <1>6. CASE ShutdownCapability(a)
    BY <1>3, <1>6, StopMoves DEF ShutdownCapability, Moves, Inside
  <1>7. ASSUME NEW ok \in BOOLEAN, CapabilityShutDown(a, ok) PROVE RunInv'
    <2>1. stop[a].caps # <<>>
      BY <1>7 DEF CapabilityShutDown, CallInv
    <2>2. QED
      BY <1>3, <1>7, <2>1, StopMoves DEF CapabilityShutDown, Moves, Inside
  <1>8. CASE CancelRun(a)
    BY <1>3, <1>8, StopMoves DEF CancelRun, Moves, Inside
  <1>9. QED
    BY <1>1, <1>2, <1>4, <1>5, <1>6, <1>7, <1>8 DEF StopSteps

LEMMA LateOther ==
  ASSUME TypeInv, MutexInv, RunInv, LateInv, OtherSteps
  PROVE  LateInv'
  <1> USE DEF sharedVars, loopVars, frameVars, raceHistory, historyVars
  <1>0. SnapshotsKept
    BY OtherStepsKeep
  <1>a. /\ Stopping' <=> Stopping
        /\ \A b \in Actors : Inside(b)' => Inside(b) /\ stop'[b] = stop[b]
    BY <1>0 DEF SnapshotsKept, Stopping
  <1>b. ~late => (Stopping => stopping)
    BY DEF Stopping, LateInv, RunInv, Overlaps
  <1>1. CASE Prepare
    <2>1. late' = (late \/ Stopping) /\ stopped' = FALSE /\ pc' = "sort"
      BY <1>1 DEF Prepare, Stopping
    <2>2. QED
      BY <1>a, <2>1 DEF LateInv, Stopping
  <1>2. CASE RegisterCapability
    <2>1. /\ late' = (late \/ IsStopping) /\ UNCHANGED <<stopped, run>>
      BY <1>2 DEF RegisterCapability
    <2>2. QED
      BY <1>a, <1>b, <2>1 DEF LateInv, IsStopping
  <1>3. CASE AddRunningProvider
    <2>1. /\ late' = (late \/ IsStopping) /\ UNCHANGED <<stopped, run>>
      BY <1>3 DEF AddRunningProvider
    <2>2. QED
      BY <1>a, <1>b, <2>1 DEF LateInv, IsStopping
  <1>4. CASE AddRegisteredCapability
    <2>1. /\ pc = "append" /\ pc' = "register"
          /\ UNCHANGED <<stopped, run, late>>
      BY <1>4 DEF AddRegisteredCapability
    <2>2. QED
      BY <1>a, <2>1 DEF LateInv
  <1>5. CASE /\ UNCHANGED <<stopped, run, late, registered>>
             /\ UNCHANGED running \/ running' = <<>>
             /\ UNCHANGED pc \/ pc' \notin {"append", "launch"}
    BY <1>a, <1>5 DEF LateInv
  <1>6. QED
    BY <1>1, <1>2, <1>3, <1>4, <1>5
    DEF vars, sharedVars, statusVars, loopVars, serviceVars, frameVars,
        capHistory, provHistory, raceHistory, historyVars, OtherSteps, Boot,
        Start, Wait, Environment, Sorted, SortFails, RegisterCapabilityFails,
        CapabilitiesRegistered, RegisterProvider, RegisterProviderFails,
        ProvidersRegistered, LaunchService, BeginJob, JobReturns, CommitJob,
        BeginRollback, RollbackProvider, ProviderRolledBack, EndRollback,
        ProvidersStarted, ReceiveResult, HandleResult, ContextDone,
        AllServicesExited, Stopped, FinalStop, Return, AlreadyStopped,
        CallStop, CancelContext, ServiceExits

LEMMA LateStop ==
  ASSUME TypeInv, MutexInv, RunInv, LateInv, NEW a \in Actors, StopSteps(a)
  PROVE  LateInv'
  <1>1. CASE EnterStop(a)
    <2>1. /\ UNCHANGED <<stopped, run, pc>> /\ ~stopped /\ stopMu = {}
          /\ late' = (late \/ pc \in {"append", "launch"})
      BY <1>1 DEF EnterStop, StopMuFree
    <2>2. stop'[a].run = run /\ Others(a)
      BY <1>1, StopEnds
    <2>3. \A b \in Actors : b # a => ~Inside(b)'
      BY <2>1, <2>2, OnlyOne
    <2>4. QED
      BY <2>1, <2>2, <2>3 DEF LateInv
  <1>2. CASE LeaveStop(a)
    <2>1. /\ running' = <<>> /\ registered' = <<>>
          /\ UNCHANGED <<late, pc>> /\ Inside(a)
      BY <1>2 DEF LeaveStop, Inside, raceHistory, historyVars
    <2>2. stop'[a] = NoStop /\ Others(a)
      BY <1>2, StopEnds
    <2>3. \A b \in Actors : ~Inside(b)'
      BY <2>1, <2>2, OnlyOne DEF Inside, NoStop
    <2>4. QED
      BY <2>1, <2>3 DEF LateInv, Stopping
  <1>3. ASSUME Inside(a), Inside(a)', Others(a), stop'[a].run = stop[a].run,
               UNCHANGED <<sharedVars, run, pc, late>>
        PROVE  LateInv'
    <2>1. \A b \in Actors : Inside(b)' => b = a
      BY <1>3, OnlyOne
    <2>2. QED
      BY <1>3, <2>1 DEF LateInv, Stopping, sharedVars
  <1> USE DEF Moves, Inside, historyVars, raceHistory
  <1>4. CASE StopProvider(a)
    BY <1>3, <1>4, StopMoves DEF StopProvider
  <1>5. ASSUME NEW ok \in BOOLEAN, ProviderStopped(a, ok) PROVE LateInv'
    BY <1>3, <1>5, StopMoves DEF ProviderStopped
  <1>6. CASE ShutdownCapability(a)
    BY <1>3, <1>6, StopMoves DEF ShutdownCapability
  <1>7. ASSUME NEW ok \in BOOLEAN, CapabilityShutDown(a, ok) PROVE LateInv'
    BY <1>3, <1>7, StopMoves DEF CapabilityShutDown
  <1>8. CASE CancelRun(a)
    BY <1>3, <1>8, StopMoves DEF CancelRun
  <1>9. QED
    BY <1>1, <1>2, <1>4, <1>5, <1>6, <1>7, <1>8 DEF StopSteps

-----------------------------------------------------------------------------
(* Who still has to stop what.                                             *)

\* Providers a Stop has still to stop.
ProvsLeft(a) == IF stop[a].pc = "provCall" THEN ToSet(Front(stop[a].provs))
                ELSE ToSet(stop[a].provs)

ToStop(p) == \E a \in Actors : Inside(a) /\ p \in ProvsLeft(a)

\* The Stop in progress will stop the provider, or the next one will.
Owed(p) == ToStop(p) \/ (~Stopping /\ p \in ToSet(running))

SameOwed ==
    /\ Stopping' <=> Stopping
    /\ \A c \in Caps : Listed(c)' <=> Listed(c)
    /\ \A p \in Provs : ToStop(p)' <=> ToStop(p)

LEMMA OtherAccounts ==
  ASSUME TypeInv, MutexInv, OtherSteps
  PROVE  /\ Stopping' <=> Stopping
         /\ \A p \in Provs : ToStop(p)' <=> ToStop(p)
         /\ registered' = registered => SameOwed
         /\ Stopping => SameOwed
  <1>1. /\ \A b \in Actors : Inside(b)' <=> Inside(b)
        /\ \A b \in Actors : Inside(b) => stop'[b] = stop[b]
    BY OtherStepsKeep DEF SnapshotsKept
  <1>2. Stopping' <=> Stopping
    BY <1>1 DEF Stopping
  <1>3. \A p \in Provs : ToStop(p)' <=> ToStop(p)
    BY <1>1 DEF ToStop, ProvsLeft
  <1>4. \A b \in Actors : Inside(b) => Uncalled(b)' = Uncalled(b)
    BY <1>1 DEF Uncalled
  <1>5. ASSUME registered' = registered \/ Stopping
        PROVE  \A c \in Caps : Listed(c)' <=> Listed(c)
    BY <1>1, <1>4, <1>5 DEF Listed, Stopping
  <1>6. QED
    BY <1>2, <1>3, <1>5 DEF SameOwed

\* The accounts of the only Stop in progress.
LEMMA Alone ==
  ASSUME NEW a \in Actors, Inside(a), \A b \in Actors : b # a => ~Inside(b)
  PROVE  /\ Stopping
         /\ \A c \in Caps : Listed(c) <=> c \in Uncalled(a)
         /\ \A p \in Provs : ToStop(p) <=> p \in ProvsLeft(a)
  BY DEF Stopping, Listed, ToStop

LEMMA AlonePrimed ==
  ASSUME NEW a \in Actors, Inside(a)', \A b \in Actors : b # a => ~Inside(b)'
  PROVE  /\ Stopping'
         /\ \A c \in Caps : Listed(c)' <=> c \in Uncalled(a)'
         /\ \A p \in Provs : ToStop(p)' <=> p \in ProvsLeft(a)'
  BY DEF Stopping, Listed, ToStop

LEMMA NobodyInside ==
  ASSUME \A b \in Actors : ~Inside(b)
  PROVE  /\ ~Stopping
         /\ \A c \in Caps : Listed(c) <=> c \in ToSet(registered)
         /\ \A p \in Provs : ~ToStop(p)
  BY DEF Stopping, Listed, ToStop

LEMMA NobodyInsidePrimed ==
  ASSUME \A b \in Actors : ~Inside(b)'
  PROVE  /\ ~Stopping'
         /\ \A c \in Caps : Listed(c)' <=> c \in ToSet(registered')
         /\ \A p \in Provs : ~ToStop(p)'
  BY DEF Stopping, Listed, ToStop

LEMMA EnterAccounts ==
  ASSUME TypeInv, MutexInv, NEW a \in Actors, EnterStop(a)
  PROVE  /\ ~Stopping /\ Stopping'
         /\ \A c \in Caps : Listed(c)' <=> Listed(c)
         /\ \A p \in Provs : ~ToStop(p) /\ (ToStop(p)' <=> p \in ToSet(running))
  <1>1. stopMu = {} /\ registered' = registered
    BY DEF EnterStop, StopMuFree
  <1>2. /\ stop'[a] = [pc |-> "stop", provs |-> running,
                       caps |-> registered, run |-> run]
        /\ Others(a)
    BY StopEnds
  <1>3. \A b \in Actors : ~Inside(b)
    BY <1>1 DEF MutexInv
  <1>4. Inside(a)' /\ \A b \in Actors : b # a => ~Inside(b)'
    BY <1>1, <1>2, OnlyOne DEF Inside
  <1>5. ProvsLeft(a)' = ToSet(running) /\ Uncalled(a)' = ToSet(registered)
    BY <1>2 DEF ProvsLeft, Uncalled
  <1>6. QED
    BY <1>3, <1>4, <1>5, NobodyInside, AlonePrimed

LEMMA LeaveAccounts ==
  ASSUME TypeInv, MutexInv, SnapshotInv, NEW a \in Actors, LeaveStop(a)
  PROVE  /\ Stopping /\ ~Stopping'
         /\ \A c \in Caps : ~Listed(c) /\ ~Listed(c)'
         /\ \A p \in Provs : ~ToStop(p) /\ ~ToStop(p)'
  <1>1. stop[a].pc = "tail" /\ registered' = <<>>
    BY DEF LeaveStop
  <1>2. stop'[a] = NoStop /\ Others(a)
    BY StopEnds
  <1>3. Inside(a) /\ \A b \in Actors : b # a => ~Inside(b)
    BY <1>1, <1>2, OnlyOne DEF Inside
  <1>4. \A b \in Actors : ~Inside(b)'
    BY <1>2, <1>3, OnlyOne DEF Inside, NoStop
  <1>5. ProvsLeft(a) = {} /\ Uncalled(a) = {}
    BY <1>1, <1>3, AscendingEmpty DEF SnapshotInv, ProvsLeft, Uncalled
  <1>6. QED
    BY <1>1, <1>3, <1>4, <1>5, Alone, NobodyInsidePrimed, AscendingEmpty

\* The last provider of the snapshot leaves the account when its Stop begins.
LEMMA StopAccounts ==
  ASSUME TypeInv, MutexInv, SnapshotInv, NEW a \in Actors, StopProvider(a),
         NEW d \in Provs, d = Last(stop[a].provs)
  PROVE  /\ Stopping /\ Stopping'
         /\ \A c \in Caps : Listed(c)' <=> Listed(c)
         /\ ToStop(d) /\ ~ToStop(d)'
         /\ \A p \in Provs : p # d => (ToStop(p)' <=> ToStop(p))
         /\ \A p \in Provs : ToStop(p) => p <= d
  <1>1. stop[a].pc = "stop" /\ stop[a].provs # <<>>
    BY DEF StopProvider
  <1>2. Moves(a, "provCall", stop[a].provs, stop[a].caps)
    BY StopMoves
  <1>3. /\ Inside(a) /\ \A b \in Actors : b # a => ~Inside(b)
        /\ Inside(a)' /\ \A b \in Actors : b # a => ~Inside(b)'
    BY <1>1, <1>2, OnlyOne DEF Inside, Moves
  <1>4. stop[a].provs \in Seq(1 .. NProv) /\ NProv \in Nat
    BY LifecycleAssumption DEF TypeInv, TypeOK, StopOK, Provs
  <1>5. /\ d \in ToSet(stop[a].provs)
        /\ ToSet(Front(stop[a].provs)) = ToSet(stop[a].provs) \ {d}
        /\ \A y \in ToSet(stop[a].provs) : y <= d
    BY <1>1, <1>3, <1>4, AscendingFront DEF SnapshotInv
  <1>6. /\ ProvsLeft(a) = ToSet(stop[a].provs)
        /\ ProvsLeft(a)' = ToSet(stop[a].provs) \ {d}
        /\ Uncalled(a)' = Uncalled(a)
    BY <1>1, <1>2, <1>5 DEF ProvsLeft, Uncalled, Moves
  <1>7. QED
    BY <1>3, <1>5, <1>6, Alone, AlonePrimed

LEMMA ShutdownAccounts ==
  ASSUME TypeInv, MutexInv, SnapshotInv, NEW a \in Actors,
         ShutdownCapability(a), NEW d \in Caps, d = Last(stop[a].caps)
  PROVE  /\ Stopping /\ Stopping'
         /\ \A p \in Provs : ~ToStop(p) /\ ~ToStop(p)'
         /\ Listed(d) /\ ~Listed(d)'
         /\ \A c \in Caps : c # d => (Listed(c)' <=> Listed(c))
         /\ \A c \in Caps : Listed(c) => c <= d
  <1>1. /\ stop[a].pc = "stop" /\ stop[a].caps # <<>>
        /\ stop[a].provs = <<>>
    BY DEF ShutdownCapability, ProvidersDown
  <1>2. Moves(a, "capCall", stop[a].provs, stop[a].caps)
    BY StopMoves
  <1>3. /\ Inside(a) /\ \A b \in Actors : b # a => ~Inside(b)
        /\ Inside(a)' /\ \A b \in Actors : b # a => ~Inside(b)'
    BY <1>1, <1>2, OnlyOne DEF Inside, Moves
  <1>4. stop[a].caps \in Seq(1 .. NCap) /\ NCap \in Nat
    BY LifecycleAssumption DEF TypeInv, TypeOK, StopOK, Caps
  <1>5. /\ d \in ToSet(stop[a].caps)
        /\ ToSet(Front(stop[a].caps)) = ToSet(stop[a].caps) \ {d}
        /\ \A y \in ToSet(stop[a].caps) : y <= d
    BY <1>1, <1>3, <1>4, AscendingFront DEF SnapshotInv
  <1>6. /\ Uncalled(a) = ToSet(stop[a].caps)
        /\ Uncalled(a)' = ToSet(stop[a].caps) \ {d}
        /\ ProvsLeft(a)' = {} /\ ProvsLeft(a) = {}
    BY <1>1, <1>2, <1>5, AscendingEmpty DEF ProvsLeft, Uncalled, Moves
  <1>7. QED
    BY <1>3, <1>5, <1>6, Alone, AlonePrimed

\* The other steps of a Stop leave the accounts as they are.
LEMMA InnerAccounts ==
  ASSUME TypeInv, MutexInv, SnapshotInv, NEW a \in Actors,
         \/ CancelRun(a)
         \/ \E ok \in BOOLEAN : \/ ProviderStopped(a, ok)
                                \/ CapabilityShutDown(a, ok)
  PROVE  Stopping /\ SameOwed
  <1>1. ASSUME Inside(a), Inside(a)', Others(a),
               ProvsLeft(a)' = ProvsLeft(a), Uncalled(a)' = Uncalled(a)
        PROVE  Stopping /\ SameOwed
    <2>1. \A b \in Actors : b # a => ~Inside(b) /\ ~Inside(b)'
      BY <1>1, OnlyOne
    <2>2. QED
      BY <1>1, <2>1, Alone, AlonePrimed DEF SameOwed
  <1>2. CASE CancelRun(a)
    <2>1. stop[a].pc = "stop"
      BY <1>2 DEF CancelRun
    <2>2. Moves(a, "tail", stop[a].provs, stop[a].caps)
      BY <1>2, StopMoves
    <2>3. /\ Inside(a) /\ Inside(a)' /\ Others(a)
          /\ ProvsLeft(a)' = ProvsLeft(a) /\ Uncalled(a)' = Uncalled(a)
      BY <2>1, <2>2 DEF Moves, Inside, ProvsLeft, Uncalled
    <2>4. QED
      BY <1>1, <2>3
  <1>3. ASSUME NEW ok \in BOOLEAN, ProviderStopped(a, ok)
        PROVE  Stopping /\ SameOwed
    <2>1. stop[a].pc = "provCall"
      BY <1>3 DEF ProviderStopped
    <2>2. Moves(a, "stop", Front(stop[a].provs), stop[a].caps)
      BY <1>3, StopMoves
    <2>3. /\ Inside(a) /\ Inside(a)' /\ Others(a)
          /\ ProvsLeft(a)' = ProvsLeft(a) /\ Uncalled(a)' = Uncalled(a)
      BY <2>1, <2>2 DEF Moves, Inside, ProvsLeft, Uncalled
    <2>4. QED
      BY <1>1, <2>3
  <1>4. ASSUME NEW ok \in BOOLEAN, CapabilityShutDown(a, ok)
        PROVE  Stopping /\ SameOwed
    <2>1. stop[a].pc = "capCall"
      BY <1>4 DEF CapabilityShutDown
    <2>2. Moves(a, "stop", stop[a].provs, Front(stop[a].caps))
      BY <1>4, StopMoves
    <2>3. /\ Inside(a) /\ Inside(a)' /\ Others(a)
          /\ ProvsLeft(a)' = ProvsLeft(a) /\ Uncalled(a)' = Uncalled(a)
      BY <2>1, <2>2 DEF Moves, Inside, ProvsLeft, Uncalled
    <2>4. QED
      BY <1>1, <2>3
  <1>5. QED
    BY <1>2, <1>3, <1>4

\* A Stop that does not come too late has nothing of what the boot brings up
\* after its snapshot.
ReachInv ==
    ~late => \A p \in Provs : ToStop(p) => /\ ~Booting
                                           /\ Starting => p \in Reached

LEMMA LateStays ==
  ASSUME TypeInv, [Next]_vars
  PROVE  (~late' => ~late) /\ (~raced' => ~raced)
  <1> USE DEF TypeInv, TypeOK, HistoryOK, raceHistory
  <1>1. CASE Prepare
    BY <1>1 DEF Prepare
  <1>2. CASE RegisterCapability
    BY <1>2 DEF RegisterCapability
  <1>3. CASE AddRunningProvider
    BY <1>3 DEF AddRunningProvider
  <1>4. CASE BeginRollback
    BY <1>4 DEF BeginRollback
  <1>5. ASSUME NEW a \in Actors, EnterStop(a)
        PROVE  (~late' => ~late) /\ (~raced' => ~raced)
    BY <1>5 DEF EnterStop
  <1>6. CASE UNCHANGED raceHistory
    BY <1>6
  <1>7. QED
    BY <1>1, <1>2, <1>3, <1>4, <1>5, <1>6
    DEF vars, sharedVars, statusVars, loopVars, serviceVars, frameVars,
        capHistory, provHistory, raceHistory, historyVars, Next, Lock,
        StopStep, Boot, Start, Wait, Environment, Sorted, SortFails,
        RegisterCapabilityFails, AddRegisteredCapability,
        CapabilitiesRegistered, RegisterProvider, RegisterProviderFails,
        ProvidersRegistered, LaunchService, BeginJob, JobReturns, CommitJob,
        RollbackProvider, ProviderRolledBack, EndRollback, ProvidersStarted,
        ReceiveResult, HandleResult, ContextDone, AllServicesExited, Stopped,
        FinalStop, Return, AlreadyStopped, CallStop, CancelContext,
        ServiceExits, StopProvider, ProviderStopped, ShutdownCapability,
        CapabilityShutDown, CancelRun, LeaveStop

LEMMA KindsAreSteps ==
  /\ OtherSteps => [Next]_vars
  /\ \A a \in Actors : StopSteps(a) => [Next]_vars
  BY DEF Next, Lock, StopStep, StopSteps, OtherSteps

LEMMA ReachOther ==
  ASSUME TypeInv, MutexInv, ReachInv, OtherSteps
  PROVE  ReachInv'
  <1> USE DEF TypeInv, TypeOK, RunnerOK, Booting, Starting, Reached, ReachInv,
        loopVars, historyVars, raceHistory
  <1>0. /\ \A p \in Provs : ToStop(p)' <=> ToStop(p)
        /\ \A p \in Provs : ToStop(p) => Stopping /\ p \in Nat
    BY OtherAccounts, LifecycleAssumption DEF ToStop, Stopping, Provs
  <1>a. ~late' => ~late
    BY LateStays, KindsAreSteps
  <1>1. CASE Prepare
    <2>1. late' = (late \/ Stopping)
      BY <1>1 DEF Prepare, Stopping
    <2>2. QED
      BY <1>0, <2>1
  <1>2. CASE Sorted
    BY <1>0, <1>a, <1>2 DEF Sorted
  <1>3. CASE RegisterCapability
    BY <1>0, <1>a, <1>3 DEF RegisterCapability
  <1>4. CASE AddRegisteredCapability
    BY <1>0, <1>a, <1>4 DEF AddRegisteredCapability
  <1>5. CASE CapabilitiesRegistered
    BY <1>0, <1>a, <1>5 DEF CapabilitiesRegistered
  <1>6. CASE RegisterProvider
    BY <1>0, <1>a, <1>6 DEF RegisterProvider
  <1>7. CASE ProvidersRegistered
    BY <1>0, <1>a, <1>7 DEF ProvidersRegistered
  <1>8. CASE AddRunningProvider
    BY <1>0, <1>a, <1>8 DEF AddRunningProvider
  <1>9. CASE LaunchService
    BY <1>0, <1>a, <1>9 DEF LaunchService
  <1>10. CASE BeginJob
    BY <1>0, <1>a, <1>10 DEF BeginJob
  <1>11. ASSUME NEW o \in {"jobOk", "jobErr"}, JobReturns(o) PROVE ReachInv'
    BY <1>0, <1>a, <1>11 DEF JobReturns
  <1>12. CASE CommitJob
    BY <1>0, <1>a, <1>12 DEF CommitJob
  <1>13. CASE UNCHANGED <<pc, next>> \/ (~Booting' /\ ~Starting')
    BY <1>0, <1>a, <1>13
  <1>14. QED
    BY <1>1, <1>2, <1>3, <1>4, <1>5, <1>6, <1>7, <1>8, <1>9, <1>10, <1>11,
      <1>12, <1>13
    DEF vars, sharedVars, statusVars, loopVars, serviceVars, frameVars,
        capHistory, provHistory, raceHistory, historyVars, OtherSteps, Boot,
        Start, Wait, Environment, SortFails, RegisterCapabilityFails,
        RegisterProviderFails, BeginRollback, RollbackProvider,
        ProviderRolledBack, EndRollback, ProvidersStarted, ReceiveResult,
        HandleResult, ContextDone, AllServicesExited, Stopped, FinalStop,
        Return, AlreadyStopped, CallStop, CancelContext, ServiceExits

LEMMA ReachStop ==
  ASSUME TypeInv, MutexInv, SnapshotInv, BootInv, ReachInv,
         NEW a \in Actors, StopSteps(a)
  PROVE  ReachInv'
  <1>a. ~late' => ~late
    BY LateStays, KindsAreSteps
  <1>0. /\ UNCHANGED <<pc, next>>
        /\ (Booting' <=> Booting) /\ (Starting' <=> Starting)
        /\ Reached' = Reached
    BY DEF StopSteps, EnterStop, StopProvider, ProviderStopped,
      ShutdownCapability, CapabilityShutDown, CancelRun, LeaveStop, loopVars,
      historyVars, raceHistory, Booting, Starting, Reached
  <1>1. CASE EnterStop(a)
    <2>1. \A p \in Provs : ToStop(p)' => p \in ToSet(running)
      BY <1>1, EnterAccounts
    <2>2. QED
      BY <1>0, <1>a, <2>1, AscendingEmpty DEF BootInv, ReachInv
  <1>2. ASSUME \A p \in Provs : ToStop(p)' => ToStop(p) PROVE ReachInv'
    BY <1>0, <1>a, <1>2 DEF ReachInv
  <1>3. CASE StopProvider(a)
    <2>1. PICK d \in Provs : d = Last(stop[a].provs)
      BY <1>3, FrontLast DEF StopProvider, TypeInv, TypeOK, StopOK
    <2>2. QED
      BY <1>2, <1>3, <2>1, StopAccounts
  <1>4. CASE ShutdownCapability(a)
    <2>1. PICK d \in Caps : d = Last(stop[a].caps)
      BY <1>4, FrontLast DEF ShutdownCapability, TypeInv, TypeOK, StopOK
    <2>2. QED
      BY <1>2, <1>4, <2>1, ShutdownAccounts
  <1>5. CASE LeaveStop(a)
    BY <1>2, <1>5, LeaveAccounts
  <1>6. QED
    BY <1>1, <1>2, <1>3, <1>4, <1>5, InnerAccounts DEF StopSteps, SameOwed

-----------------------------------------------------------------------------
(* What is registered or started and not yet undone.                       *)

\* Unless something was late, the accounts are exact for capabilities, and
\* cover every start of a provider.
RegInv ==
    ~late => \A c \in Caps :
               shuts[c] + One(Pending(c)) + One(Listed(c)) = regs[c]

Launching(p) == pc = "launch" /\ next = p

StartInv ==
    ~late => \A p \in Provs :
               starts[p] + One(Launching(p)) <= stops[p] + One(Owed(p))

\* Providers a rollback has still to stop.
ToRoll == IF pc = "rollbackCall" THEN ToSet(Front(started))
          ELSE ToSet(started)

RollInv ==
    ~late /\ Rolling =>
      \A p \in Provs : p \in ToRoll \/ starts[p] <= stops[p]

LEMMA Counters ==
  ASSUME TypeInv
  PROVE  /\ \A c \in Caps : shuts[c] \in Nat /\ regs[c] \in Nat
         /\ \A p \in Provs : stops[p] \in Nat /\ starts[p] \in Nat
         /\ \A c \in Caps : c \in Nat
         /\ \A p \in Provs : p \in Nat
  BY LifecycleAssumption DEF TypeInv, TypeOK, HistoryOK, Caps, Provs

LEMMA RegOther ==
  ASSUME TypeInv, MutexInv, ListInv, RunInv, LateInv, RegInv, OtherSteps
  PROVE  RegInv'
  <1> USE DEF historyVars, raceHistory, capHistory, loopVars, sharedVars
  <1>0. /\ \A c \in Caps : shuts[c] \in Nat /\ regs[c] \in Nat
        /\ Stopping' <=> Stopping
        /\ registered' = registered => \A c \in Caps : Listed(c)' <=> Listed(c)
    BY Counters, OtherAccounts DEF SameOwed
  <1>a. ~late' => ~late
    BY LateStays, KindsAreSteps
  <1>1. CASE Prepare
    <2>1. /\ late' = (late \/ Stopping) /\ registered' = <<>>
          /\ UNCHANGED <<regs, shuts>>
          /\ pc \in {"idle", "returned"} /\ pc' = "sort"
      BY <1>1 DEF Prepare, Stopping
    <2>2. ~late' => registered = <<>> /\ ~Stopping
      BY <2>1 DEF RunInv, LateInv
    <2>3. ~late' => \A c \in Caps : ~Listed(c) /\ ~Listed(c)'
      BY <1>0, <2>1, <2>2, AscendingEmpty DEF Listed, Stopping
    <2>4. \A c \in Caps : ~Pending(c) /\ ~Pending(c)'
      BY <2>1 DEF Pending
    <2>5. QED
      BY <1>0, <1>a, <2>1, <2>3, <2>4 DEF RegInv, One
  <1>2. CASE RegisterCapability
    <2>1. /\ pc = "register" /\ pc' = "append" /\ next' = next
          /\ shuts' = shuts /\ regs' = [regs EXCEPT ![next] = regs[next] + 1]
          /\ registered' = registered
      BY <1>2 DEF RegisterCapability
    <2>2. next \in Caps
      BY <1>2, CapIndex DEF RegisterCapability, TypeInv, TypeOK, RunnerOK
    <2>3. \A c \in Caps : /\ ~Pending(c) /\ (Pending(c)' <=> c = next)
                          /\ Listed(c)' <=> Listed(c)
      BY <1>0, <2>1 DEF Pending
    <2>4. \A c \in Caps : regs'[c] = IF c = next THEN regs[c] + 1 ELSE regs[c]
      BY <2>1, <2>2 DEF TypeInv, TypeOK, HistoryOK
    <2>5. QED
      BY <1>0, <1>a, <2>1, <2>3, <2>4 DEF RegInv, One
  <1>3. CASE AddRegisteredCapability
    <2>1. /\ pc = "append" /\ pc' = "register" /\ next \in Caps
          /\ UNCHANGED <<shuts, regs, late>>
          /\ registered' = Append(registered, next)
      BY <1>3 DEF AddRegisteredCapability, TypeInv, IndexInv
    <2>2. ToSet(registered') = ToSet(registered) \union {next}
      BY <2>1, AppendSet DEF TypeInv, TypeOK, AppOK
    <2>3. ~late => ~Stopping /\ ~Stopping'
      BY <1>0, <2>1 DEF LateInv
    <2>4. next \notin ToSet(registered)
      BY <2>1, Counters DEF ListInv
    <2>5. ~late => \A c \in Caps : /\ Listed(c) <=> c \in ToSet(registered)
                                   /\ Listed(c)' <=> c \in ToSet(registered')
      BY <2>3 DEF Listed, Stopping
    <2>6. \A c \in Caps : ~Pending(c)' /\ (Pending(c) <=> c = next)
      BY <2>1 DEF Pending
    <2>7. QED
      BY <1>0, <2>1, <2>2, <2>4, <2>5, <2>6 DEF RegInv, One
  <1>4. CASE /\ UNCHANGED <<registered, regs, shuts>>
             /\ UNCHANGED <<pc, next>> \/ (pc # "append" /\ pc' # "append")
    BY <1>0, <1>a, <1>4 DEF RegInv, Pending, One
  <1>5. QED
    BY <1>1, <1>2, <1>3, <1>4
    DEF vars, sharedVars, statusVars, loopVars, serviceVars, frameVars,
        capHistory, provHistory, raceHistory, historyVars, OtherSteps, Boot,
        Start, Wait, Environment, Sorted, SortFails, RegisterCapabilityFails,
        CapabilitiesRegistered, RegisterProvider, RegisterProviderFails,
        ProvidersRegistered, AddRunningProvider, LaunchService, BeginJob,
        JobReturns, CommitJob, BeginRollback, RollbackProvider,
        ProviderRolledBack, EndRollback, ProvidersStarted, ReceiveResult,
        HandleResult, ContextDone, AllServicesExited, Stopped, FinalStop,
        Return, AlreadyStopped, CallStop, CancelContext, ServiceExits

LEMMA RegStop ==
  ASSUME TypeInv, MutexInv, SnapshotInv, RegInv,
         NEW a \in Actors, StopSteps(a)
  PROVE  RegInv'
  <1>a. ~late' => ~late
    BY LateStays, KindsAreSteps
  <1>0. /\ UNCHANGED <<regs, pc, next>>
        /\ \A c \in Caps : Pending(c)' <=> Pending(c)
        /\ shuts' = shuts \/ ShutdownCapability(a)
    BY DEF StopSteps, EnterStop, StopProvider, ProviderStopped,
      ShutdownCapability, CapabilityShutDown, CancelRun, LeaveStop, loopVars,
      historyVars, raceHistory, capHistory, Pending
  <1>1. ASSUME shuts' = shuts, \A c \in Caps : Listed(c)' <=> Listed(c)
        PROVE  RegInv'
    BY <1>0, <1>a, <1>1 DEF RegInv, One
  <1>2. CASE StopProvider(a)
    <2>1. PICK d \in Provs : d = Last(stop[a].provs)
      BY <1>2, FrontLast DEF StopProvider, TypeInv, TypeOK, StopOK
    <2>2. shuts' = shuts
      BY <1>2 DEF StopProvider, capHistory
    <2>3. QED
      BY <1>1, <1>2, <2>1, <2>2, StopAccounts
  <1>3. CASE ShutdownCapability(a)
    <2>1. PICK d \in Caps : d = Last(stop[a].caps)
      BY <1>3, FrontLast DEF ShutdownCapability, TypeInv, TypeOK, StopOK
    <2>2. \A c \in Caps : shuts'[c] = IF c = d THEN shuts[c] + 1 ELSE shuts[c]
      BY <1>3, <2>1 DEF ShutdownCapability, TypeInv, TypeOK, HistoryOK
    <2>3. /\ Listed(d) /\ ~Listed(d)'
          /\ \A c \in Caps : c # d => (Listed(c)' <=> Listed(c))
      BY <1>3, <2>1, ShutdownAccounts
    <2>4. QED
      BY <1>0, <1>a, <2>1, <2>2, <2>3, Counters DEF RegInv, One
  <1>4. CASE EnterStop(a)
    <2>1. shuts' = shuts
      BY <1>4 DEF EnterStop, capHistory
    <2>2. QED
      BY <1>1, <1>4, <2>1, EnterAccounts
  <1>5. CASE LeaveStop(a)
    <2>1. shuts' = shuts
      BY <1>5 DEF LeaveStop, historyVars, capHistory
    <2>2. QED
      BY <1>1, <1>5, <2>1, LeaveAccounts
  <1>6. ASSUME NEW ok \in BOOLEAN,
               \/ CancelRun(a) \/ ProviderStopped(a, ok)
               \/ CapabilityShutDown(a, ok)
        PROVE  RegInv'
    <2>1. shuts' = shuts
      BY <1>6 DEF CancelRun, ProviderStopped, CapabilityShutDown, historyVars,
        capHistory
    <2>2. QED
      BY <1>1, <1>6, <2>1, InnerAccounts DEF SameOwed
  <1>7. QED
    BY <1>2, <1>3, <1>4, <1>5, <1>6 DEF StopSteps

LEMMA StartOther ==
  ASSUME TypeInv, MutexInv, BootInv, RunInv, LateInv, RollInv, StartInv,
         OtherSteps
  PROVE  StartInv'
  <1> USE DEF historyVars, raceHistory, provHistory, loopVars, sharedVars
  <1>0. /\ \A p \in Provs : stops[p] \in Nat /\ starts[p] \in Nat
        /\ Stopping' <=> Stopping
        /\ \A p \in Provs : ToStop(p)' <=> ToStop(p)
        /\ \A p \in Provs : ToStop(p) => Stopping
    BY Counters, OtherAccounts DEF ToStop, Stopping
  <1>a. ~late' => ~late
    BY LateStays, KindsAreSteps
  <1>b. ASSUME UNCHANGED <<running, starts, stops>>,
               \A p \in Provs : Launching(p)' <=> Launching(p)
        PROVE  StartInv'
    BY <1>0, <1>a, <1>b DEF StartInv, Owed, One
  <1>1. CASE Prepare
    <2>1. /\ late' = (late \/ Stopping) /\ running' = <<>>
          /\ UNCHANGED <<starts, stops>>
          /\ pc \in {"idle", "returned"} /\ pc' = "sort"
      BY <1>1 DEF Prepare, Stopping
    <2>2. ~late' => running = <<>> /\ ~Stopping
      BY <2>1 DEF RunInv, LateInv
    <2>3. ~late' => \A p \in Provs : ~Owed(p) /\ ~Owed(p)'
      BY <1>0, <2>1, <2>2, AscendingEmpty DEF Owed
    <2>4. \A p \in Provs : ~Launching(p) /\ ~Launching(p)'
      BY <2>1 DEF Launching
    <2>5. QED
      BY <1>0, <1>a, <2>1, <2>3, <2>4 DEF StartInv, One
  <1>2. CASE AddRunningProvider
    <2>1. /\ pc = "add" /\ pc' = "launch" /\ next' = next /\ next \in Provs
          /\ running' = Append(running, next) /\ running \in Seq(Provs)
          /\ UNCHANGED <<starts, stops>>
      BY <1>2, ProvIndex DEF AddRunningProvider, TypeInv, TypeOK, RunnerOK, AppOK
    <2>2. late' = (late \/ IsStopping)
      BY <1>2 DEF AddRunningProvider
    <2>3. ~late' => ~Stopping
      BY <1>a, <2>2 DEF IsStopping, LateInv, RunInv, Overlaps, Stopping
    <2>4. ToSet(running') = ToSet(running) \union {next}
      BY <2>1, AppendSet
    <2>5. next \notin ToSet(running)
      BY <2>1, Counters DEF BootInv, Starting, Reached
    <2>6. \A p \in Provs : ~Launching(p) /\ (Launching(p)' <=> p = next)
      BY <2>1 DEF Launching
    <2>7. ~late' => \A p \in Provs :
            /\ Owed(p)' <=> Owed(p) \/ p = next
            /\ ~Owed(next)
      BY <1>0, <2>1, <2>3, <2>4, <2>5 DEF Owed
    <2>8. QED
      BY <1>0, <1>a, <2>1, <2>6, <2>7 DEF StartInv, One
  <1>3. CASE LaunchService
    <2>1. /\ pc = "launch" /\ pc' = "add" /\ next \in Provs
          /\ starts' = [starts EXCEPT ![next] = starts[next] + 1]
          /\ UNCHANGED <<running, stops>>
      BY <1>3 DEF LaunchService, TypeInv, IndexInv
    <2>2. \A p \in Provs :
            starts'[p] = IF p = next THEN starts[p] + 1 ELSE starts[p]
      BY <2>1 DEF TypeInv, TypeOK, HistoryOK
    <2>3. \A p \in Provs : /\ Launching(p) <=> p = next
                           /\ ~Launching(p)'
                           /\ Owed(p)' <=> Owed(p)
      BY <1>0, <2>1 DEF Launching, Owed
    <2>4. QED
      BY <1>0, <1>a, <2>1, <2>2, <2>3 DEF StartInv, One
  <1>4. CASE BeginJob
    <2>1. /\ pc = "launch" /\ pc' = "job" /\ next \in Provs
          /\ starts' = [starts EXCEPT ![next] = starts[next] + 1]
          /\ UNCHANGED <<running, stops>>
      BY <1>4 DEF BeginJob, TypeInv, IndexInv
    <2>2. \A p \in Provs :
            starts'[p] = IF p = next THEN starts[p] + 1 ELSE starts[p]
      BY <2>1 DEF TypeInv, TypeOK, HistoryOK
    <2>3. \A p \in Provs : /\ Launching(p) <=> p = next
                           /\ ~Launching(p)'
                           /\ Owed(p)' <=> Owed(p)
      BY <1>0, <2>1 DEF Launching, Owed
    <2>4. QED
      BY <1>0, <1>a, <2>1, <2>2, <2>3 DEF StartInv, One
  <1>5. CASE RollbackProvider
    <2>1. /\ pc = "rollback" /\ pc' = "rollbackCall"
          /\ UNCHANGED <<running, starts>> /\ started # <<>>
          /\ stops' = [stops EXCEPT ![Last(started)] = stops[Last(started)] + 1]
      BY <1>5 DEF RollbackProvider
    <2>2. Last(started) \in Provs
      BY <2>1, FrontLast DEF TypeInv, TypeOK, RunnerOK
    <2>3. \A p \in Provs : stops'[p] \in Nat /\ stops[p] <= stops'[p]
      BY <1>0, <2>1, <2>2 DEF TypeInv, TypeOK, HistoryOK
    <2>4. \A p \in Provs : /\ ~Launching(p) /\ ~Launching(p)'
                           /\ Owed(p)' <=> Owed(p)
      BY <1>0, <2>1 DEF Launching, Owed
    <2>5. QED
      BY <1>0, <1>a, <2>1, <2>3, <2>4 DEF StartInv, One
  <1>6. CASE EndRollback
    <2>1. /\ pc = "rollback" /\ pc' = "finish" /\ running' = <<>>
          /\ UNCHANGED <<starts, stops>> /\ started = <<>>
      BY <1>6 DEF EndRollback
    <2>2. ~late' => \A p \in Provs : starts[p] <= stops[p]
      BY <1>a, <2>1, AscendingEmpty DEF RollInv, Rolling, ToRoll
    <2>3. \A p \in Provs : ~Launching(p)'
      BY <2>1 DEF Launching
    <2>4. QED
      BY <1>0, <2>1, <2>2, <2>3 DEF StartInv, One
  <1>7. CASE /\ UNCHANGED <<running, starts, stops>>
             /\ UNCHANGED <<pc, next>> \/ (pc # "launch" /\ pc' # "launch")
    BY <1>b, <1>7 DEF Launching
  <1>8. QED
    BY <1>1, <1>2, <1>3, <1>4, <1>5, <1>6, <1>7
    DEF vars, sharedVars, statusVars, loopVars, serviceVars, frameVars,
        capHistory, provHistory, raceHistory, historyVars, OtherSteps, Boot,
        Start, Wait, Environment, Sorted, SortFails, RegisterCapability,
        RegisterCapabilityFails, AddRegisteredCapability,
        CapabilitiesRegistered, RegisterProvider, RegisterProviderFails,
        ProvidersRegistered, JobReturns, CommitJob, BeginRollback,
        ProviderRolledBack, ProvidersStarted, ReceiveResult, HandleResult,
        ContextDone, AllServicesExited, Stopped, FinalStop, Return,
        AlreadyStopped, CallStop, CancelContext, ServiceExits

LEMMA StartStop ==
  ASSUME TypeInv, MutexInv, SnapshotInv, StartInv,
         NEW a \in Actors, StopSteps(a)
  PROVE  StartInv'
  <1>a. ~late' => ~late
    BY LateStays, KindsAreSteps
  <1>0. /\ UNCHANGED <<starts, pc, next>>
        /\ running' = running \/ LeaveStop(a)
        /\ \A p \in Provs : Launching(p)' <=> Launching(p)
        /\ stops' = stops \/ StopProvider(a)
    BY DEF StopSteps, EnterStop, StopProvider, ProviderStopped,
      ShutdownCapability, CapabilityShutDown, CancelRun, LeaveStop, loopVars,
      historyVars, provHistory, sharedVars, Launching
  <1>1. ASSUME stops' = stops, \A p \in Provs : Owed(p) => Owed(p)'
        PROVE  StartInv'
    BY <1>0, <1>a, <1>1, Counters DEF StartInv, One
  <1>2. CASE StopProvider(a)
    <2>1. PICK d \in Provs : d = Last(stop[a].provs)
      BY <1>2, FrontLast DEF StopProvider, TypeInv, TypeOK, StopOK
    <2>2. \A p \in Provs : stops'[p] = IF p = d THEN stops[p] + 1 ELSE stops[p]
      BY <1>2, <2>1 DEF StopProvider, TypeInv, TypeOK, HistoryOK
    <2>3. \A p \in Provs : p # d => (Owed(p)' <=> Owed(p))
      BY <1>2, <2>1, StopAccounts DEF Owed
    <2>4. QED
      BY <1>0, <1>a, <2>1, <2>2, <2>3, Counters DEF StartInv, One
  <1>3. CASE ShutdownCapability(a)
    <2>1. PICK d \in Caps : d = Last(stop[a].caps)
      BY <1>3, FrontLast DEF ShutdownCapability, TypeInv, TypeOK, StopOK
    <2>2. stops' = stops
      BY <1>3 DEF ShutdownCapability, provHistory
    <2>3. QED
      BY <1>1, <1>3, <2>1, <2>2, ShutdownAccounts DEF Owed
  <1>4. CASE EnterStop(a)
    <2>1. stops' = stops
      BY <1>4 DEF EnterStop, provHistory
    <2>2. QED
      BY <1>1, <1>4, <2>1, EnterAccounts DEF Owed
  <1>5. CASE LeaveStop(a)
    <2>1. stops' = stops
      BY <1>5 DEF LeaveStop, historyVars, provHistory
    <2>2. QED
      BY <1>1, <1>5, <2>1, LeaveAccounts DEF Owed
  <1>6. ASSUME NEW ok \in BOOLEAN,
               \/ CancelRun(a) \/ ProviderStopped(a, ok)
               \/ CapabilityShutDown(a, ok)
        PROVE  StartInv'
    <2>1. stops' = stops /\ running' = running
      BY <1>6 DEF CancelRun, ProviderStopped, CapabilityShutDown, historyVars,
        provHistory, sharedVars
    <2>2. Stopping /\ SameOwed
      BY <1>6, InnerAccounts
    <2>3. QED
      BY <1>1, <2>1, <2>2 DEF SameOwed, Owed
  <1>7. QED
    BY <1>2, <1>3, <1>4, <1>5, <1>6 DEF StopSteps

LEMMA RollStep ==
  ASSUME TypeInv, BootInv, ReachInv, StartInv, RollInv, [Next]_vars
  PROVE  RollInv'
  <1> USE DEF TypeInv, TypeOK, RunnerOK, historyVars, provHistory, loopVars,
        Rolling
  <1>a. ~late' => ~late
    BY LateStays
  <1>0. /\ NProv \in Nat /\ started \in Seq(1 .. NProv)
        /\ \A p \in Provs : stops[p] \in Nat /\ starts[p] \in Nat
    BY LifecycleAssumption, Counters DEF Provs
  <1>1. CASE BeginRollback
    <2>1. /\ pc = "jobErr" /\ pc' = "rollback" /\ next \in Provs
          /\ started' = Append(started, next)
          /\ UNCHANGED <<starts, stops>>
      BY <1>1 DEF BeginRollback, IndexInv
    <2>2. ToSet(started') = ToSet(started) \union {next}
      BY <2>1, AppendSet
    <2>3. ToRoll' = 1 .. next
      BY <2>1, <2>2 DEF BootInv, Starting, ToRoll
    <2>4. ~late => \A p \in Provs : Owed(p) => p \in 1 .. next
      BY <2>1 DEF Owed, ReachInv, BootInv, Starting, Reached
    <2>5. \A p \in Provs : ~Launching(p)
      BY <2>1 DEF Launching
    <2>6. QED
      BY <1>0, <1>a, <2>1, <2>3, <2>4, <2>5 DEF RollInv, StartInv, One
  <1>2. CASE RollbackProvider
    <2>1. /\ pc = "rollback" /\ pc' = "rollbackCall" /\ started # <<>>
          /\ UNCHANGED <<started, starts>>
          /\ stops' = [stops EXCEPT ![Last(started)] = stops[Last(started)] + 1]
      BY <1>2 DEF RollbackProvider
    <2>2. PICK d \in Provs : d = Last(started)
      BY <2>1, FrontLast
    <2>3. ToRoll = ToSet(started) /\ ToRoll' = ToSet(started) \ {d}
      BY <1>0, <2>1, <2>2, AscendingFront DEF BootInv, ToRoll
    <2>4. /\ \A p \in Provs : stops[p] <= stops'[p] /\ stops'[p] \in Nat
          /\ stops'[d] = stops[d] + 1
      BY <1>0, <2>1, <2>2 DEF HistoryOK
    <2>5. ~late => starts[d] <= stops[d] + 1
      BY <1>0, <2>1 DEF StartInv, One, Launching
    <2>6. QED
      BY <1>0, <1>a, <2>1, <2>3, <2>4, <2>5 DEF RollInv
  <1>3. ASSUME NEW ok \in BOOLEAN, ProviderRolledBack(ok) PROVE RollInv'
    <2>1. /\ pc = "rollbackCall" /\ pc' = "rollback"
          /\ started' = Front(started) /\ UNCHANGED <<starts, stops>>
      BY <1>3 DEF ProviderRolledBack
    <2>2. ToRoll' = ToRoll
      BY <2>1 DEF ToRoll
    <2>3. QED
      BY <1>0, <1>a, <2>1, <2>2 DEF RollInv
  <1>4. ASSUME NEW a \in Actors, StopProvider(a) PROVE RollInv'
    <2>1. PICK d \in Provs : d = Last(stop[a].provs)
      BY <1>4, FrontLast DEF StopProvider, StopOK
    <2>2. /\ stops' = [stops EXCEPT ![d] = stops[d] + 1]
          /\ UNCHANGED <<pc, started, starts>>
      BY <1>4, <2>1 DEF StopProvider
    <2>3. \A p \in Provs : stops[p] <= stops'[p] /\ stops'[p] \in Nat
      BY <1>0, <2>1, <2>2 DEF HistoryOK
    <2>4. QED
      BY <1>0, <1>a, <2>2, <2>3 DEF RollInv, ToRoll
  <1>5. CASE ~Rolling' \/ UNCHANGED <<pc, started, starts, stops>>
    BY <1>a, <1>5 DEF RollInv, ToRoll
  <1>6. QED
    BY <1>1, <1>2, <1>3, <1>4, <1>5
    DEF vars, sharedVars, statusVars, loopVars, serviceVars, frameVars,
        capHistory, provHistory, raceHistory, historyVars, Next, Lock,
        StopStep, Boot, Start, Wait, Environment, Prepare, Sorted, SortFails,
        RegisterCapability, RegisterCapabilityFails, AddRegisteredCapability,
        CapabilitiesRegistered, RegisterProvider, RegisterProviderFails,
        ProvidersRegistered, AddRunningProvider, LaunchService, BeginJob,
        JobReturns, CommitJob, EndRollback, ProvidersStarted, ReceiveResult,
        HandleResult, ContextDone, AllServicesExited, Stopped, FinalStop,
        Return, AlreadyStopped, CallStop, CancelContext, ServiceExits,
        EnterStop, ProviderStopped, ShutdownCapability, CapabilityShutDown,
        CancelRun, LeaveStop

-----------------------------------------------------------------------------
(* One stop of each provider in a run.                                     *)

\* A Stop has taken the snapshot of this run.
Current == \E a \in Actors : Inside(a) /\ stop[a].run = run
Spent   == stopped \/ Current

\* The run may still stop the provider by a snapshot or a rollback to come.
Future(p) ==
    IF Rolling THEN p \in ToRoll
    ELSE ~Spent /\ (Booting \/ Starting \/ p \in ToSet(running))

OnceInv ==
    ~raced => \A p \in Provs :
                stops[p] + One(ToStop(p)) + One(Future(p)) <= run

LEMMA OnceOther ==
  ASSUME TypeInv, MutexInv, BootInv, RunInv, OnceInv, OtherSteps
  PROVE  OnceInv'
  <1> USE DEF historyVars, raceHistory, provHistory, loopVars, sharedVars,
        frameVars, Booting, Starting, Rolling
  <1>a. ~raced' => ~raced
    BY LateStays, KindsAreSteps
  <1>0. /\ run \in Nat /\ \A p \in Provs : stops[p] \in Nat
        /\ \A p \in Provs : ToStop(p)' <=> ToStop(p)
    BY Counters, OtherAccounts DEF TypeInv, TypeOK, RunnerOK
  <1>b. run' = run => (Current' <=> Current)
    BY OtherStepsKeep DEF SnapshotsKept, Current
  <1>c. ASSUME UNCHANGED <<run, stops>>,
               \A p \in Provs : Future(p)' => Future(p)
        PROVE  OnceInv'
    BY <1>0, <1>a, <1>c DEF OnceInv, One
  <1>1. CASE Prepare
    <2>1. run' = run + 1 /\ stops' = stops
      BY <1>1 DEF Prepare
    <2>2. \A p \in Provs : /\ One(ToStop(p))' = One(ToStop(p))
                           /\ One(ToStop(p)) \in Nat
                           /\ One(Future(p)) \in Nat /\ One(Future(p))' \in {0, 1}
      BY <1>0 DEF One
    <2>3. QED
      BY <1>0, <1>a, <2>1, <2>2 DEF OnceInv
  <1>2. CASE AddRunningProvider
    <2>1. UNCHANGED <<run, stops, stopped>> /\ pc = "add" /\ pc' = "launch"
      BY <1>2 DEF AddRunningProvider
    <2>2. QED
      BY <1>b, <1>c, <2>1 DEF Future, Spent
  <1>3. CASE BeginRollback
    <2>1. /\ UNCHANGED <<run, stops, stopped, stopping>>
          /\ pc = "jobErr" /\ pc' = "rollback"
      BY <1>3 DEF BeginRollback
    <2>2. raced' = (raced \/ IsStopping)
      BY <1>3 DEF BeginRollback
    <2>3. ~raced' => ~Spent
      BY <2>2 DEF IsStopping, Spent, Current, RunInv, Overlaps
    <2>4. ~raced' => \A p \in Provs : Future(p)
      BY <2>1, <2>3 DEF Future
    <2>5. \A p \in Provs : /\ One(Future(p)) = 1 \/ raced'
                           /\ One(Future(p))' \in {0, 1}
                           /\ One(ToStop(p))' = One(ToStop(p))
                           /\ One(ToStop(p)) \in {0, 1}
      BY <1>0, <2>4 DEF One
    <2>6. QED
      BY <1>0, <1>a, <2>1, <2>5 DEF OnceInv
  <1>4. CASE RollbackProvider
    <2>1. /\ pc = "rollback" /\ pc' = "rollbackCall" /\ started # <<>>
          /\ UNCHANGED <<started, run>>
          /\ stops' = [stops EXCEPT ![Last(started)] = stops[Last(started)] + 1]
      BY <1>4 DEF RollbackProvider
    <2>2. /\ NProv \in Nat /\ started \in Seq(1 .. NProv) /\ Provs = 1 .. NProv
      BY LifecycleAssumption DEF Provs, TypeInv, TypeOK, RunnerOK
    <2>3. PICK d \in Provs : d = Last(started)
      BY <2>1, <2>2, AscendingFront DEF BootInv
    <2>4. /\ d \in ToRoll /\ ToRoll' = ToRoll \ {d}
      BY <2>1, <2>2, <2>3, AscendingFront DEF BootInv, ToRoll
    <2>5. \A p \in Provs : stops'[p] = IF p = d THEN stops[p] + 1 ELSE stops[p]
      BY <2>1, <2>3 DEF TypeInv, TypeOK, HistoryOK
    <2>6. \A p \in Provs : /\ Future(p) <=> p \in ToRoll
                           /\ Future(p)' <=> p \in ToRoll /\ p # d
      BY <2>1, <2>4 DEF Future
    <2>7. QED
      BY <1>0, <1>a, <2>1, <2>4, <2>5, <2>6 DEF OnceInv, One
  <1>5. ASSUME NEW ok \in BOOLEAN, ProviderRolledBack(ok) PROVE OnceInv'
    <2>1. /\ pc = "rollbackCall" /\ pc' = "rollback"
          /\ started' = Front(started) /\ UNCHANGED <<run, stops>>
      BY <1>5 DEF ProviderRolledBack
    <2>2. ToRoll' = ToRoll
      BY <2>1 DEF ToRoll
    <2>3. QED
      BY <1>c, <2>1, <2>2 DEF Future
  <1>6. CASE EndRollback
    <2>1. /\ pc' = "finish" /\ running' = <<>> /\ UNCHANGED <<run, stops>>
      BY <1>6 DEF EndRollback
    <2>2. QED
      BY <1>c, <2>1, AscendingEmpty DEF Future
  <1>7. CASE /\ UNCHANGED <<running, stopped, run, stops>>
             /\ \/ UNCHANGED <<pc, started>>
                \/ /\ ~Rolling /\ ~Rolling'
                   /\ Booting' \/ Starting' => Booting \/ Starting
    BY <1>b, <1>c, <1>7 DEF Future, Spent, ToRoll
  <1>8. QED
    BY <1>1, <1>2, <1>3, <1>4, <1>5, <1>6, <1>7
    DEF vars, sharedVars, statusVars, loopVars, serviceVars, frameVars,
        capHistory, provHistory, raceHistory, historyVars, OtherSteps, Boot,
        Start, Wait, Environment, Sorted, SortFails, RegisterCapability,
        RegisterCapabilityFails, AddRegisteredCapability,
        CapabilitiesRegistered, RegisterProvider, RegisterProviderFails,
        ProvidersRegistered, LaunchService, BeginJob, JobReturns, CommitJob,
        ProvidersStarted, ReceiveResult, HandleResult, ContextDone,
        AllServicesExited, Stopped, FinalStop, Return, AlreadyStopped,
        CallStop, CancelContext, ServiceExits

LEMMA OnceStop ==
  ASSUME TypeInv, MutexInv, SnapshotInv, OnceInv,
         NEW a \in Actors, StopSteps(a)
  PROVE  OnceInv'
  <1>a. ~raced' => ~raced
    BY LateStays, KindsAreSteps
  <1>0. /\ UNCHANGED <<run, pc, started>>
        /\ run \in Nat /\ \A p \in Provs : stops[p] \in Nat
    BY Counters DEF TypeInv, TypeOK, RunnerOK, StopSteps, EnterStop,
      StopProvider, ProviderStopped, ShutdownCapability, CapabilityShutDown,
      CancelRun, LeaveStop, loopVars
  <1>1. ASSUME \A p \in Provs : Future(p)' => Future(p),
               \A p \in Provs : ToStop(p)' => ToStop(p), stops' = stops
        PROVE  OnceInv'
    BY <1>0, <1>a, <1>1 DEF OnceInv, One
  <1>2. ASSUME UNCHANGED <<stopped, running>>, Inside(a), Inside(a)',
               Others(a), stop'[a].run = stop[a].run
        PROVE  \A p \in Provs : Future(p)' => Future(p)
    <2>1. Current => Current'
      BY <1>0, <1>2, OnlyOne DEF Current
    <2>2. QED
      BY <1>0, <1>2, <2>1 DEF Future, Spent, Rolling, Booting, Starting, ToRoll
  <1>3. CASE EnterStop(a)
    <2>1. ~stopped /\ raced' = (raced \/ Rolling) /\ stops' = stops
      BY <1>3 DEF EnterStop, Rolling, provHistory
    <2>2. stop'[a].pc = "stop" /\ stop'[a].run = run
      BY <1>3, StopEnds
    <2>3. Current' /\ ~Spent
      BY <1>0, <1>3, <2>1, <2>2, EnterAccounts DEF Current, Spent, Inside, Stopping
    <2>4. \A p \in Provs : ~ToStop(p) /\ (ToStop(p)' <=> p \in ToSet(running))
      BY <1>3, EnterAccounts
    <2>5. ~raced' => \A p \in Provs : /\ ~Future(p)'
                                      /\ p \in ToSet(running) => Future(p)
      BY <1>0, <2>1, <2>3 DEF Future, Spent, Rolling
    <2>6. QED
      BY <1>0, <1>a, <2>1, <2>4, <2>5 DEF OnceInv, One
  <1>4. CASE LeaveStop(a)
    <2>1. stopped' = TRUE /\ stops' = stops
      BY <1>4 DEF LeaveStop, historyVars, provHistory
    <2>2. \A p \in Provs : Future(p)' => Future(p)
      BY <1>0, <2>1 DEF Future, Spent, Rolling, ToRoll
    <2>3. QED
      BY <1>1, <1>4, <2>1, <2>2, LeaveAccounts
  <1>5. CASE StopProvider(a)
    <2>1. PICK d \in Provs : d = Last(stop[a].provs)
      BY <1>5, FrontLast DEF StopProvider, TypeInv, TypeOK, StopOK
    <2>2. \A p \in Provs : stops'[p] = IF p = d THEN stops[p] + 1 ELSE stops[p]
      BY <1>5, <2>1 DEF StopProvider, TypeInv, TypeOK, HistoryOK
    <2>3. /\ ToStop(d) /\ ~ToStop(d)'
          /\ \A p \in Provs : p # d => (ToStop(p)' <=> ToStop(p))
      BY <1>5, <2>1, StopAccounts
    <2>4. Moves(a, "provCall", stop[a].provs, stop[a].caps)
      BY <1>5, StopMoves
    <2>5. \A p \in Provs : Future(p)' => Future(p)
      <3>1. /\ UNCHANGED <<stopped, running>> /\ Inside(a) /\ Inside(a)'
            /\ Others(a) /\ stop'[a].run = stop[a].run
        BY <1>5, <2>4 DEF StopProvider, sharedVars, Moves, Inside
      <3>2. QED
        BY <1>2, <3>1
    <2>6. QED
      BY <1>0, <1>a, <2>2, <2>3, <2>5 DEF OnceInv, One
  <1>6. CASE ShutdownCapability(a)
    <2>1. PICK d \in Caps : d = Last(stop[a].caps)
      BY <1>6, FrontLast DEF ShutdownCapability, TypeInv, TypeOK, StopOK
    <2>2. Moves(a, "capCall", stop[a].provs, stop[a].caps) /\ stops' = stops
      BY <1>6, StopMoves DEF ShutdownCapability, provHistory
    <2>3. /\ UNCHANGED <<stopped, running>> /\ Inside(a) /\ Inside(a)'
          /\ Others(a) /\ stop'[a].run = stop[a].run
      BY <1>6, <2>2 DEF ShutdownCapability, sharedVars, Moves, Inside
    <2>4. QED
      BY <1>1, <1>2, <1>6, <2>1, <2>2, <2>3, ShutdownAccounts
  <1>7. ASSUME NEW ok \in BOOLEAN,
               \/ CancelRun(a) \/ ProviderStopped(a, ok)
               \/ CapabilityShutDown(a, ok)
        PROVE  OnceInv'
    <2>1. stops' = stops /\ SameOwed
      BY <1>7, InnerAccounts DEF CancelRun, ProviderStopped,
        CapabilityShutDown, historyVars, provHistory
    <2>2. /\ UNCHANGED <<stopped, running>> /\ Inside(a) /\ Inside(a)'
          /\ Others(a) /\ stop'[a].run = stop[a].run
      BY <1>7, StopMoves DEF CancelRun, ProviderStopped, CapabilityShutDown,
        sharedVars, Moves, Inside
    <2>3. QED
      BY <1>1, <1>2, <2>1, <2>2 DEF SameOwed
  <1>8. QED
    BY <1>3, <1>4, <1>5, <1>6, <1>7 DEF StopSteps

-----------------------------------------------------------------------------
(* The status of the provider whose failure ended the run.                 *)

Settled == pc \in {"finish", "finalStop", "returned"}

NothingToStop == \A a \in Actors : Inside(a) => stop[a].provs = <<>>

\* No Stop has the failed provider in its snapshot, nor will it have.
FailInv ==
    /\ failed # None => Rolling \/ Settled \/ pc \in {"result", "stopping"}
    /\ ~raced /\ failed # None /\ (Rolling \/ Settled) =>
         /\ provStatus[failed] = "failed"
         /\ NothingToStop
         /\ Rolling \/ stopped \/ running = <<>>

LEMMA FailOther ==
  ASSUME TypeInv, MutexInv, RunInv, FailInv, OtherSteps
  PROVE  FailInv'
  <1> USE DEF TypeInv, TypeOK, RunnerOK, StatusOK, historyVars, raceHistory,
        loopVars, sharedVars, statusVars, Rolling, Settled
  <1>a. ~raced' => ~raced
    BY LateStays, KindsAreSteps
  <1>b. NothingToStop => NothingToStop'
    BY OtherStepsKeep DEF SnapshotsKept, NothingToStop
  <1>1. CASE Prepare
    BY <1>1 DEF Prepare, FailInv
  <1>2. CASE BeginRollback
    <2>1. /\ pc' = "rollback" /\ failed' = next /\ next \in Provs
          /\ provStatus' = [provStatus EXCEPT ![next] = "failed"]
      BY <1>2 DEF BeginRollback, IndexInv
    <2>2. raced' = (raced \/ IsStopping)
      BY <1>2 DEF BeginRollback
    <2>3. ~raced' => NothingToStop
      BY <2>2 DEF IsStopping, RunInv, Overlaps, NothingToStop
    <2>4. provStatus'[failed'] = "failed"
      BY <2>1
    <2>5. QED
      BY <1>b, <2>1, <2>3, <2>4 DEF FailInv
  <1>3. CASE RollbackProvider
    <2>1. /\ pc = "rollback" /\ pc' = "rollbackCall"
          /\ UNCHANGED <<failed, stopped, running>>
          /\ provStatus'[failed] = provStatus[failed] \/ failed = None
      BY <1>3, LifecycleAssumption DEF RollbackProvider, Provs, None
    <2>2. QED
      BY <1>a, <1>b, <2>1 DEF FailInv
  <1>4. ASSUME NEW ok \in BOOLEAN, ProviderRolledBack(ok) PROVE FailInv'
    <2>1. /\ pc = "rollbackCall" /\ pc' = "rollback"
          /\ UNCHANGED <<failed, stopped, running>>
          /\ \/ failed = None
             \/ provStatus'[failed] \in {provStatus[failed], "failed"}
      BY <1>4, LifecycleAssumption DEF ProviderRolledBack, Provs, None
    <2>2. QED
      BY <1>a, <1>b, <2>1 DEF FailInv
  <1>5. CASE EndRollback
    <2>1. /\ pc = "rollback" /\ pc' = "finish" /\ running' = <<>>
          /\ UNCHANGED <<failed, provStatus>>
      BY <1>5 DEF EndRollback
    <2>2. QED
      BY <1>a, <1>b, <2>1 DEF FailInv
  <1>6. CASE ReceiveResult
    <2>1. pc = "wait" /\ (pc' = "result" \/ UNCHANGED <<pc, failed>>)
      BY <1>6 DEF ReceiveResult
    <2>2. QED
      BY <2>1 DEF FailInv
  <1>7. CASE HandleResult
    <2>1. pc' = "stopping"
      BY <1>7 DEF HandleResult
    <2>2. QED
      BY <2>1 DEF FailInv
  <1>8. CASE Stopped
    <2>1. /\ pc' = "finish" /\ failed' = failed /\ stopped
          /\ stopped' = stopped
          /\ failed = None \/ provStatus' = [provStatus EXCEPT ![failed] = "failed"]
      BY <1>8 DEF Stopped, RunInv
    <2>2. NothingToStop
      BY <2>1 DEF NothingToStop, RunInv, Overlaps
    <2>3. failed # None => provStatus'[failed] = "failed"
      BY <2>1
    <2>4. QED
      BY <1>b, <2>1, <2>2, <2>3 DEF FailInv
  <1>9. CASE /\ UNCHANGED failed
             /\ \/ ~Rolling /\ ~Settled /\ pc \notin {"result", "stopping"}
                \/ /\ UNCHANGED <<provStatus, stopped, running>>
                   /\ pc' = pc \/ (Settled /\ Settled')
    BY <1>a, <1>b, <1>9 DEF FailInv
  <1>10. QED
    BY <1>1, <1>2, <1>3, <1>4, <1>5, <1>6, <1>7, <1>8, <1>9
    DEF vars, sharedVars, statusVars, loopVars, serviceVars, frameVars,
        capHistory, provHistory, raceHistory, historyVars, OtherSteps, Boot,
        Start, Wait, Environment, Sorted, SortFails, RegisterCapability,
        RegisterCapabilityFails, AddRegisteredCapability,
        CapabilitiesRegistered, RegisterProvider, RegisterProviderFails,
        ProvidersRegistered, AddRunningProvider, LaunchService, BeginJob,
        JobReturns, CommitJob, ProvidersStarted, ContextDone,
        AllServicesExited, FinalStop, Return, AlreadyStopped, CallStop,
        CancelContext, ServiceExits

LEMMA FailStop ==
  ASSUME TypeInv, MutexInv, FailInv, NEW a \in Actors, StopSteps(a)
  PROVE  FailInv'
  <1>a. ~raced' => ~raced
    BY LateStays, KindsAreSteps
  <1>0. UNCHANGED <<failed, pc>>
    BY DEF StopSteps, EnterStop, StopProvider, ProviderStopped,
      ShutdownCapability, CapabilityShutDown, CancelRun, LeaveStop, loopVars
  <1>1. (Rolling' <=> Rolling) /\ (Settled' <=> Settled)
    BY <1>0 DEF Rolling, Settled
  <1>2. CASE EnterStop(a)
    <2>1. /\ ~stopped /\ UNCHANGED <<provStatus, stopped, running>>
          /\ stopMu = {}
      BY <1>2 DEF EnterStop, StopMuFree, statusVars
    <2>2. raced' = (raced \/ Rolling)
      BY <1>2 DEF EnterStop, Rolling
    <2>3. stop'[a].provs = running /\ Others(a)
      BY <1>2, StopEnds
    <2>4. \A b \in Actors : b # a => ~Inside(b)'
      BY <2>1, <2>3, OnlyOne
    <2>5. running = <<>> => NothingToStop'
      BY <2>3, <2>4 DEF NothingToStop
    <2>6. QED
      BY <1>0, <1>1, <1>a, <2>1, <2>2, <2>5 DEF FailInv
  <1>3. CASE LeaveStop(a)
    <2>1. stopped' = TRUE /\ provStatus' = provStatus /\ Inside(a)
      BY <1>3 DEF LeaveStop, statusVars, Inside
    <2>2. stop'[a] = NoStop /\ Others(a)
      BY <1>3, StopEnds
    <2>3. NothingToStop'
      BY <2>1, <2>2, OnlyOne DEF NothingToStop, Inside, NoStop
    <2>4. QED
      BY <1>0, <1>1, <1>a, <2>1, <2>3 DEF FailInv
  <1>4. CASE StopProvider(a)
    <2>1. ~NothingToStop
      BY <1>4 DEF StopProvider, NothingToStop, Inside
    <2>2. QED
      BY <1>0, <1>1, <1>a, <2>1 DEF FailInv
  <1>5. ASSUME NEW ok \in BOOLEAN, ProviderStopped(a, ok) PROVE FailInv'
    <2>1. ~NothingToStop
      BY <1>5 DEF ProviderStopped, NothingToStop, Inside, TypeInv, CallInv
    <2>2. QED
      BY <1>0, <1>1, <1>a, <2>1 DEF FailInv
  <1>6. ASSUME NEW ok \in BOOLEAN,
               \/ ShutdownCapability(a) \/ CancelRun(a)
               \/ CapabilityShutDown(a, ok)
        PROVE  FailInv'
    <2>1. /\ UNCHANGED <<provStatus, stopped, running>> /\ Inside(a)
      BY <1>6 DEF ShutdownCapability, CancelRun, CapabilityShutDown,
        statusVars, sharedVars, Inside
    <2>2. stop'[a].provs = stop[a].provs /\ Others(a)
      BY <1>6, StopMoves DEF Moves
    <2>3. NothingToStop => NothingToStop'
      BY <2>1, <2>2, OnlyOne DEF NothingToStop
    <2>4. QED
      BY <1>0, <1>1, <1>a, <2>1, <2>3 DEF FailInv
  <1>7. QED
    BY <1>2, <1>3, <1>4, <1>5, <1>6 DEF StopSteps

-----------------------------------------------------------------------------
(* The shutdown.                                                           *)

LifeInv ==
    /\ TypeInv /\ ShutdownInv
    /\ BootInv /\ SnapshotInv /\ RunInv /\ LateInv /\ ReachInv
    /\ RegInv /\ StartInv /\ RollInv /\ OnceInv /\ FailInv

LEMMA InitLifeInv == Init => LifeInv
  <1> SUFFICES ASSUME Init PROVE LifeInv
    OBVIOUS
  <1>0. TypeInv /\ ShutdownInv
    BY InitTypeInv, InitShutdownInv
  <1>1. /\ \A a \in Actors : ~Inside(a)
        /\ running = <<>> /\ registered = <<>> /\ started = <<>>
        /\ pc = "idle" /\ run = 0 /\ failed = None
        /\ \A c \in Caps : regs[c] = 0 /\ shuts[c] = 0
        /\ \A p \in Provs : starts[p] = 0 /\ stops[p] = 0
        /\ ~stopped
    BY DEF Init, Inside, NoStop
  <1>2. BootInv /\ SnapshotInv
    BY <1>1, AscendingEmpty DEF BootInv, SnapshotInv, Starting
  <1>3. RunInv /\ LateInv
    BY <1>1 DEF RunInv, LateInv
  <1>4. /\ \A p \in Provs : ~ToStop(p) /\ ~Owed(p) /\ ~Launching(p) /\ ~Future(p)
        /\ \A c \in Caps : ~Listed(c) /\ ~Pending(c)
    BY <1>1, AscendingEmpty DEF ToStop, Owed, Listed, Pending, Launching,
      Future, Rolling, Booting, Starting
  <1>5. ReachInv /\ RegInv /\ StartInv /\ RollInv /\ OnceInv /\ FailInv
    BY <1>1, <1>4 DEF ReachInv, RegInv, StartInv, RollInv, OnceInv, FailInv,
      Rolling, Settled, One
  <1>6. QED
    BY <1>0, <1>2, <1>3, <1>5 DEF LifeInv

LEMMA StepLifeInv == LifeInv /\ [Next]_vars => LifeInv'
  <1> SUFFICES ASSUME LifeInv, [Next]_vars PROVE LifeInv'
    OBVIOUS
  <1>0. /\ TypeInv /\ MutexInv /\ ListInv
        /\ BootInv /\ SnapshotInv /\ RunInv /\ LateInv /\ ReachInv
        /\ RegInv /\ StartInv /\ RollInv /\ OnceInv /\ FailInv
    BY DEF LifeInv, ShutdownInv
  <1>1. TypeInv' /\ ShutdownInv'
    BY StepTypeInv, MutexStep, ListStep, CountStep DEF LifeInv, ShutdownInv
  <1>2. BootInv' /\ SnapshotInv' /\ RollInv'
    BY <1>0, BootStep, SnapshotStep, RollStep
  <1>3. CASE OtherSteps
    <2>1. RunInv' /\ LateInv' /\ ReachInv'
      BY <1>0, <1>3, RunOther, LateOther, ReachOther
    <2>2. RegInv' /\ StartInv' /\ OnceInv' /\ FailInv'
      BY <1>0, <1>3, RegOther, StartOther, OnceOther, FailOther
    <2>3. QED
      BY <1>1, <1>2, <2>1, <2>2 DEF LifeInv
  <1>4. ASSUME NEW a \in Actors, StopSteps(a) PROVE LifeInv'
    <2>1. RunInv' /\ LateInv' /\ ReachInv'
      BY <1>0, <1>4, RunStop, LateStop, ReachStop
    <2>2. RegInv' /\ StartInv' /\ OnceInv' /\ FailInv'
      BY <1>0, <1>4, RegStop, StartStop, OnceStop, FailStop
    <2>3. QED
      BY <1>1, <1>2, <2>1, <2>2 DEF LifeInv
  <1>5. QED
    BY <1>3, <1>4, TwoKinds

LEMMA LifeInvariant == Spec => []LifeInv
  BY InitLifeInv, StepLifeInv, PTL DEF Spec

\* When the package-level RunAllProviders returns, every capability it has
\* registered was shut down and every provider it has started was stopped,
\* however its Stop and those of others overlapped the boot, unless something
\* came up after a Stop had taken its snapshot.
THEOREM RunOwnsShutdown == Spec => []OwnsShutdown
  <1>1. LifeInv => OwnsShutdown
    <2> SUFFICES ASSUME LifeInv, pc = "returned", ~late
                 PROVE  /\ \A c \in Caps : shuts[c] = regs[c]
                        /\ \A p \in Provs : stops[p] >= starts[p]
      BY DEF OwnsShutdown
    <2>1. stopped /\ registered = <<>> /\ running = <<>> /\ ~Stopping
      BY DEF LifeInv, RunInv, LateInv, Overlaps, Stopping
    <2>2. /\ \A c \in Caps : ~Listed(c) /\ ~Pending(c)
          /\ \A p \in Provs : ~Owed(p) /\ ~Launching(p)
      BY <2>1, AscendingEmpty DEF Listed, Pending, Owed, Launching, ToStop,
        Stopping
    <2>3. TypeInv /\ RegInv /\ StartInv
      BY DEF LifeInv
    <2>4. QED
      BY <2>2, <2>3, Counters DEF RegInv, StartInv, One
  <1>2. QED
    BY <1>1, LifeInvariant, PTL

\* A provider is stopped once in a run, by the rollback or by the first Stop,
\* unless an App.Stop overlaps the rollback of a failed job.
THEOREM OneStopPerRun == Spec => []ProviderStoppedOnce
  <1>1. LifeInv => ProviderStoppedOnce
    <2> SUFFICES ASSUME LifeInv, ~raced, NEW p \in Provs PROVE stops[p] <= run
      BY DEF ProviderStoppedOnce
    <2>1. /\ One(ToStop(p)) \in Nat /\ One(Future(p)) \in Nat
          /\ stops[p] \in Nat /\ run \in Nat
      BY Counters DEF One, LifeInv, TypeInv, TypeOK, RunnerOK
    <2>2. QED
      BY <2>1 DEF LifeInv, OnceInv
  <1>2. QED
    BY <1>1, LifeInvariant, PTL

\* The shutdown that follows a failure leaves the failed provider marked.
THEOREM FailureStays == Spec => []FailureIsVisible
  <1>1. LifeInv => FailureIsVisible
    BY DEF LifeInv, FailInv, FailureIsVisible, HasFailed, Settled
  <1>2. QED
    BY <1>1, LifeInvariant, PTL

\* Nothing is stopped before what was booted after it, and no capability
\* before every provider: neither by a Stop nor by the rollback.
THEOREM ShutdownIsReversed == Spec => ReverseShutdownOrder
  <1> DEFINE Ordered ==
        ~late =>
          /\ \A p \in Provs : stops'[p] > stops[p] =>
               \A q \in Provs : q > p => stops[q] >= starts[q]
          /\ \A c \in Caps : shuts'[c] > shuts[c] =>
               /\ \A p \in Provs : stops[p] >= starts[p]
               /\ \A d \in Caps : d > c => shuts[d] = regs[d]
  <1>1. ASSUME LifeInv, [Next]_vars PROVE Ordered
    <2>0. /\ TypeInv /\ MutexInv /\ BootInv /\ SnapshotInv /\ LateInv
          /\ RegInv /\ StartInv /\ RollInv
      BY <1>1 DEF LifeInv, ShutdownInv
    <2>1. /\ \A c \in Caps : shuts[c] \in Nat /\ regs[c] \in Nat /\ c \in Nat
          /\ \A p \in Provs : stops[p] \in Nat /\ starts[p] \in Nat /\ p \in Nat
          /\ stops \in [Provs -> Nat] /\ shuts \in [Caps -> Nat]
      BY <2>0, Counters DEF TypeInv, TypeOK, HistoryOK
    <2>2. ASSUME NEW a \in Actors, StopProvider(a) PROVE Ordered
      <3>1. PICK d \in Provs : d = Last(stop[a].provs)
        BY <2>0, <2>2, FrontLast DEF StopProvider, TypeInv, TypeOK, StopOK
      <3>2. /\ stops' = [stops EXCEPT ![d] = stops[d] + 1] /\ shuts' = shuts
        BY <2>2, <3>1 DEF StopProvider, capHistory
      <3>3. /\ Stopping /\ \A p \in Provs : ToStop(p) => p <= d
        BY <2>0, <2>2, <3>1, StopAccounts
      <3>4. ~late => pc # "launch"
        BY <2>0, <3>3 DEF LateInv
      <3>5. ~late => \A q \in Provs : q > d => ~Owed(q) /\ ~Launching(q)
        BY <2>1, <3>1, <3>3, <3>4 DEF Owed, Launching
      <3>6. ~late => \A q \in Provs : q > d => stops[q] >= starts[q]
        BY <2>0, <2>1, <3>5 DEF StartInv, One
      <3>7. \A p \in Provs : stops'[p] > stops[p] => p = d
        BY <2>1, <3>2
      <3>8. \A c \in Caps : ~(shuts'[c] > shuts[c])
        BY <2>1, <3>2
      <3>9. QED
        BY <3>6, <3>7, <3>8
    <2>3. ASSUME NEW a \in Actors, ShutdownCapability(a) PROVE Ordered
      <3>1. PICK d \in Caps : d = Last(stop[a].caps)
        BY <2>0, <2>3, FrontLast DEF ShutdownCapability, TypeInv, TypeOK, StopOK
      <3>2. /\ shuts' = [shuts EXCEPT ![d] = shuts[d] + 1] /\ stops' = stops
        BY <2>3, <3>1 DEF ShutdownCapability, provHistory
      <3>3. /\ Stopping /\ \A p \in Provs : ~ToStop(p)
            /\ \A c \in Caps : Listed(c) => c <= d
        BY <2>0, <2>3, <3>1, ShutdownAccounts
      <3>4. ~late => pc \notin {"append", "launch"}
        BY <2>0, <3>3 DEF LateInv
      <3>5. ~late => \A p \in Provs : ~Owed(p) /\ ~Launching(p)
        BY <3>3, <3>4 DEF Owed, Launching
      <3>6. ~late => \A p \in Provs : stops[p] >= starts[p]
        BY <2>0, <2>1, <3>5 DEF StartInv, One
      <3>7. ~late => \A c \in Caps : c > d => ~Listed(c) /\ ~Pending(c)
        BY <2>1, <3>1, <3>3, <3>4 DEF Pending
      <3>8. ~late => \A c \in Caps : c > d => shuts[c] = regs[c]
        BY <2>0, <2>1, <3>7 DEF RegInv, One
      <3>9. \A c \in Caps : shuts'[c] > shuts[c] => c = d
        BY <2>1, <3>2
      <3>10. \A p \in Provs : ~(stops'[p] > stops[p])
        BY <2>1, <3>2
      <3>11. QED
        BY <3>6, <3>8, <3>9, <3>10
    <2>4. CASE RollbackProvider
      <3>1. /\ pc = "rollback" /\ started # <<>> /\ shuts' = shuts
            /\ stops' = [stops EXCEPT ![Last(started)] = stops[Last(started)] + 1]
        BY <2>4 DEF RollbackProvider, capHistory
      <3>2. started \in Seq(1 .. NProv) /\ NProv \in Nat /\ Provs = 1 .. NProv
        BY <2>0, LifecycleAssumption DEF TypeInv, TypeOK, RunnerOK, Provs
      <3>3. PICK d \in Provs : d = Last(started)
        BY <2>0, <3>1, <3>2, AscendingFront DEF BootInv
      <3>4. \A y \in ToRoll : y <= d
        BY <2>0, <3>1, <3>2, <3>3, AscendingFront DEF BootInv, ToRoll
      <3>5. ~late => \A q \in Provs : q > d => stops[q] >= starts[q]
        BY <2>0, <2>1, <3>1, <3>3, <3>4 DEF RollInv, Rolling
      <3>6. \A p \in Provs : stops'[p] > stops[p] => p = d
        BY <2>1, <3>1, <3>3
      <3>7. \A c \in Caps : ~(shuts'[c] > shuts[c])
        BY <2>1, <3>1
      <3>8. QED
        BY <3>5, <3>6, <3>7
    <2>5. CASE UNCHANGED <<stops, shuts>>
      BY <2>1, <2>5
    <2>6. QED
      BY <2>1, <2>2, <2>3, <2>4, <2>5, <1>1
      DEF vars, sharedVars, statusVars, loopVars, serviceVars, frameVars,
          capHistory, provHistory, raceHistory, historyVars, Next, Lock,
          StopStep, Boot, Start, Wait, Environment, Prepare, Sorted,
          SortFails, RegisterCapability, RegisterCapabilityFails,
          AddRegisteredCapability, CapabilitiesRegistered, RegisterProvider,
          RegisterProviderFails, ProvidersRegistered, AddRunningProvider,
          LaunchService, BeginJob, JobReturns, CommitJob, BeginRollback,
          ProviderRolledBack, EndRollback, ProvidersStarted, ReceiveResult,
          HandleResult, ContextDone, AllServicesExited, Stopped, FinalStop,
          Return, AlreadyStopped, CallStop, CancelContext, ServiceExits,
          EnterStop, ProviderStopped, CapabilityShutDown, CancelRun, LeaveStop  <1>2. Spec => [][Ordered]_vars
    BY <1>1, LifeInvariant, PTL DEF Spec
  <1>3. QED
    BY <1>2 DEF ReverseShutdownOrder
=============================================================================
