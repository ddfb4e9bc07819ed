------------------------ MODULE WorkerWorkspaceProofs ------------------------
(***************************************************************************)
(* WorkerWorkspace: types, a parked environment is free, and an ended turn *)
(* is on its way to give its environment back, for every set of runs, every*)
(* number of callback attempts and whatever happens.                       *)
(***************************************************************************)
EXTENDS WorkerWorkspace, TLAPS

USE DEF row, runRow, request, compute, client

-----------------------------------------------------------------------------
(* Types                                                                   *)

\* Before the first request every variable has its type.
LEMMA TypeInit == Init => TypeOK
<1> SUFFICES ASSUME Init PROVE TypeOK
  OBVIOUS
<1> USE DEF Init
<1>2. attempt \in [Runs -> 0..MaxAttempts]
  BY MaxAttemptsAssumption
<1>3. callback \in [Runs -> [Attempts -> CallbackSteps]]
  BY DEF CallbackSteps
<1>4. QED
  BY <1>2, <1>3 DEF TypeOK, Statuses, NonTerminal, TurnSteps, Up

RunnerTyped == runner \in [Runs -> {"none", "gone"} \cup Up]

\* Stopping the machine, or booting it, leaves every runner a state of its own.
LEMMA MachineTyped ==
  ASSUME TypeOK, StopMachine \/ \E r \in Runs \cup {None} : Boot(r)
  PROVE  RunnerTyped'
<1>1. ASSUME NEW q \in Runs PROVE Kill(runner[q]) \in {"none", "gone"} \cup Up
  BY DEF TypeOK, Kill, Up
<1>2. CASE StopMachine
  BY <1>1, <1>2 DEF StopMachine, RunnerTyped
<1>3. ASSUME NEW r, Boot(r) PROVE RunnerTyped'
  BY <1>1, <1>3 DEF Boot, RunnerTyped, Up
<1>4. QED
  BY <1>2, <1>3

\* Every step keeps the types.
LEMMA TypeStep == TypeOK /\ [Next]_vars => TypeOK'
<1> SUFFICES ASSUME TypeOK, [Next]_vars PROVE TypeOK'
  OBVIOUS
<1> USE DEF TypeOK, Statuses, NonTerminal, TurnSteps, Dispatching, Up, Reports,
        CallbackSteps, Abandons
<1>1. ASSUME NEW r \in Runs,
             \/ OpenEnvironment(r) \/ SendTurn(r) \/ TurnCrash(r) \/ Cancel(r)
             \/ CancelCrash(r) \/ Scan(r) \/ ReaperCrash(r)
      PROVE  TypeOK'
  <2>1. CASE OpenEnvironment(r)
    BY <2>1 DEF OpenEnvironment, ReadRow
  <2>2. CASE SendTurn(r)
    BY <2>2 DEF SendTurn, ReadRow
  <2>3. CASE TurnCrash(r)
    BY <2>3 DEF TurnCrash
  <2>4. CASE Cancel(r)
    BY <2>4 DEF Cancel
  <2>5. CASE Scan(r)
    BY <2>5 DEF Scan
  <2>6. CASE CancelCrash(r)
    BY <2>6 DEF CancelCrash
  <2>7. CASE ReaperCrash(r)
    BY <2>7 DEF ReaperCrash
  <2>8. QED
    BY <1>1, <2>1, <2>2, <2>3, <2>4, <2>5, <2>6, <2>7
<1>2. ASSUME NEW r \in Runs, TurnNext(r) PROVE TypeOK'
  <2>1. CASE CountTurns(r)
    BY <2>1 DEF CountTurns
  <2>2. CASE InsertRun(r)
    BY <2>2 DEF InsertRun
  <2>3. CASE Acquire(r)
    <3>1. lock' \in Runs \cup {None}
      BY <2>3 DEF Acquire
    <3>2. env' \in {"absent", "creating", "active", "suspended", "destroyed"}
      BY <2>3 DEF Acquire
    <3>3. turn' = [turn EXCEPT ![r] = "stage"] \/ turn' = [turn EXCEPT ![r] = "busy"]
      BY <2>3 DEF Acquire
    <3>4. turn' \in [Runs -> TurnSteps]
      BY <3>3
    <3>5. QED
      BY <3>1, <3>2, <3>4, <2>3 DEF Acquire
  <2>4. CASE BusyFail(r)
    BY <2>4 DEF BusyFail, AfterError
  <2>5. CASE Stage(r)
    <3>2. seen' \in [Runs -> BOOLEAN]
      BY <2>5 DEF Stage
    <3>3. secret' \in [Runs -> BOOLEAN]
      BY <2>5 DEF Stage
    <3>4. turn' \in [Runs -> TurnSteps]
      <4>1. \E t \in {"refresh", "create", "fail"} : turn' = [turn EXCEPT ![r] = t]
        BY <2>5 DEF Stage
      <4>2. QED
        BY <4>1
    <3>5. QED
      BY <3>2, <3>3, <3>4, <2>5 DEF Stage
  <2>6. CASE CreateMachine(r)
    <3>1. RunnerTyped'
      BY <2>6, MachineTyped DEF CreateMachine, RunnerTyped
    <3>2. turn' = [turn EXCEPT ![r] = "mark"] \/ turn' = [turn EXCEPT ![r] = "fail"]
      BY <2>6 DEF CreateMachine
    <3>3. turn' \in [Runs -> TurnSteps]
      BY <3>2
    <3>4. machine' \in BOOLEAN /\ machineRun' \in Runs \cup {None}
      BY <2>6 DEF CreateMachine
    <3>5. volume' \in {"none", "empty", "cloned"}
      BY <2>6 DEF CreateMachine
    <3>6. QED
      BY <3>1, <3>3, <3>4, <3>5, <2>6 DEF CreateMachine, RunnerTyped
  <2>7. CASE RefreshMachine(r)
    <3>1. RunnerTyped'
      BY <2>7, MachineTyped DEF RefreshMachine, RunnerTyped
    <3>2. turn' = [turn EXCEPT ![r] = "start"] \/ turn' = [turn EXCEPT ![r] = "fail"]
      BY <2>7 DEF RefreshMachine
    <3>3. turn' \in [Runs -> TurnSteps]
      BY <3>2
    <3>4. machine' \in BOOLEAN /\ machineRun' \in Runs \cup {None}
      BY <2>7 DEF RefreshMachine
    <3>5. volume' \in {"none", "empty", "cloned"}
      BY <2>7 DEF RefreshMachine
    <3>6. QED
      BY <3>1, <3>3, <3>4, <3>5, <2>7 DEF RefreshMachine, RunnerTyped
  <2>8. CASE StartMachine(r)
    <3>1. RunnerTyped'
      BY <2>8, MachineTyped DEF StartMachine, RunnerTyped
    <3>2. turn' = [turn EXCEPT ![r] = "mark"] \/ turn' = [turn EXCEPT ![r] = "fail"]
      BY <2>8 DEF StartMachine
    <3>3. turn' \in [Runs -> TurnSteps]
      BY <3>2
    <3>4. machine' \in BOOLEAN /\ machineRun' \in Runs \cup {None}
      BY <2>8 DEF StartMachine
    <3>5. volume' \in {"none", "empty", "cloned"}
      BY <2>8 DEF StartMachine
    <3>6. QED
      BY <3>1, <3>3, <3>4, <3>5, <2>8 DEF StartMachine, RunnerTyped
  <2>9. CASE MarkProvisioning(r)
    BY <2>9 DEF MarkProvisioning
  <2>10. CASE MarkMachine(r)
    BY <2>10 DEF MarkMachine
  <2>11. CASE FailRun(r)
    BY <2>11 DEF FailRun
  <2>12. CASE ReleaseFailed(r)
    BY <2>12 DEF ReleaseFailed, AfterError, CompleteTurn
  <2>13. CASE DestroyEnvironment(r)
    BY <2>13 DEF DestroyEnvironment
  <2>14. CASE ReleaseHeldTurn(r)
    BY <2>14 DEF ReleaseHeldTurn, ReleaseIfHeld, AfterError, CompleteTurn
  <2>15. QED
    BY <1>2, <2>1, <2>2, <2>3, <2>4, <2>5, <2>6, <2>7, <2>8, <2>9, <2>10, <2>11,
       <2>12, <2>13, <2>14 DEF TurnNext
<1>3. ASSUME NEW r \in Runs, RunnerNext(r) PROVE TypeOK'
  <2>1. CASE PrepareWorkspace(r)
    <3>1. volume' \in {"none", "empty", "cloned"}
      BY <2>1 DEF PrepareWorkspace
    <3>2. \E s \in {"agent", "report", "gone"} : runner' = [runner EXCEPT ![r] = s]
      BY <2>1 DEF PrepareWorkspace
    <3>3. runner' \in [Runs -> {"none", "gone"} \cup Up]
      BY <3>2
    <3>4. report' \in [Runs -> Reports \cup {"none"}]
      BY <2>1 DEF PrepareWorkspace
    <3>5. attempt' \in [Runs -> 0..MaxAttempts]
      <4>1. 1 \in 0..MaxAttempts
        BY MaxAttemptsAssumption
      <4>2. attempt' = [attempt EXCEPT ![r] = 1] \/ UNCHANGED attempt
        BY <2>1 DEF PrepareWorkspace
      <4>3. QED
        BY <4>1, <4>2
    <3>6. callback' = [callback EXCEPT ![r][1] = "sent"] \/ UNCHANGED callback
      BY <2>1 DEF PrepareWorkspace
    <3>7. 1 \in Attempts
      BY MaxAttemptsAssumption DEF Attempts
    <3>8. ASSUME callback' = [callback EXCEPT ![r][1] = "sent"]
          PROVE  callback' \in [Runs -> [Attempts -> CallbackSteps]]
      BY <3>7, <3>8
    <3>9. callback' \in [Runs -> [Attempts -> CallbackSteps]]
      BY <3>6, <3>8
    <3>10. QED
      BY <3>1, <3>3, <3>4, <3>5, <3>9, <2>1 DEF PrepareWorkspace
  <2>2. CASE PostCallback(r)
    BY <2>2, MaxAttemptsAssumption DEF PostCallback, Attempts
  <2>3. CASE RetryCallback(r)
    BY <2>3, MaxAttemptsAssumption DEF RetryCallback, Attempts
  <2>4. CASE RunnerExit(r)
    BY <2>4 DEF RunnerExit
  <2>5. CASE RunnerDies(r)
    BY <2>5 DEF RunnerDies
  <2>6. QED
    BY <1>3, <2>1, <2>2, <2>3, <2>4, <2>5 DEF RunnerNext
<1>4. ASSUME NEW r \in Runs,
             NEW a \in Attempts, CallbackNext(r, a) \/ CallbackCrash(r, a)
      PROVE  TypeOK'
  <2>1. CASE CallbackAuth(r, a)
    BY <2>1 DEF CallbackAuth
  <2>2. CASE ApplyCallback(r, a)
    <3>1. \E s \in {"pushing", "ended", status[r]} : status' = [status EXCEPT ![r] = s]
      BY <2>2 DEF ApplyCallback
    <3>2. status' \in [Runs -> Statuses]
      BY <3>1
    <3>3. \E s \in {"claimed", "cleanup", "release"} :
            callback' = [callback EXCEPT ![r][a] = s]
      BY <2>2 DEF ApplyCallback
    <3>4. callback' \in [Runs -> [Attempts -> CallbackSteps]]
      BY <3>3
    <3>5. QED
      BY <3>2, <3>4, <2>2 DEF ApplyCallback
  <2>3. CASE FinishTurn(r, a)
    BY <2>3 DEF FinishTurn
  <2>4. CASE CleanupVault(r, a)
    BY <2>4 DEF CleanupVault
  <2>5. CASE CompleteEnvironmentTurn(r, a)
    BY <2>5 DEF CompleteEnvironmentTurn, CompleteTurn
  <2>6. CASE CallbackCrash(r, a)
    BY <2>6 DEF CallbackCrash
  <2>7. QED
    BY <1>4, <2>1, <2>2, <2>3, <2>4, <2>5, <2>6 DEF CallbackNext
<1>5. ASSUME NEW r \in Runs, CancelNext(r) PROVE TypeOK'
  <2>1. CASE CancelStop(r)
    <3>1. RunnerTyped'
      BY <2>1, MachineTyped DEF CancelStop, RunnerTyped
    <3>2. QED
      BY <3>1, <2>1 DEF CancelStop, RunnerTyped
  <2>2. CASE CancelRelease(r)
    BY <2>2 DEF CancelRelease, ReleaseIfHeld, CompleteTurn
  <2>3. CASE CancelSecrets(r)
    BY <2>3 DEF CancelSecrets
  <2>4. QED
    BY <1>5, <2>1, <2>2, <2>3 DEF CancelNext
<1>6. ASSUME NEW r \in Runs, ReaperNext(r) PROVE TypeOK'
  <2>1. CASE ReapMark(r)
    <3>1. status' \in [Runs -> Statuses]
      BY <2>1 DEF ReapMark
    <3>2. reap' \in [Runs -> {"idle", "scanned", "scannedWithMachine", "stop", "release",
                            "secrets"}]
      <4>1. \E t \in {"idle", "stop", "release"} : reap' = [reap EXCEPT ![r] = t]
        <5>1. CASE status[r] \in NonTerminal
          BY <5>1, <2>1 DEF ReapMark
        <5>2. CASE status[r] \notin NonTerminal
          BY <5>2, <2>1 DEF ReapMark
        <5>3. QED
          BY <5>1, <5>2
      <4>2. QED
        BY <4>1
    <3>3. QED
      BY <3>1, <3>2, <2>1 DEF ReapMark
  <2>2. CASE ReapStop(r)
    <3>1. RunnerTyped'
      BY <2>2, MachineTyped DEF ReapStop, RunnerTyped
    <3>2. reap' = [reap EXCEPT ![r] = "release"] \/ reap' = [reap EXCEPT ![r] = "idle"]
      BY <2>2 DEF ReapStop
    <3>3. reap' \in [Runs -> {"idle", "scanned", "scannedWithMachine", "stop", "release",
                            "secrets"}]
      BY <3>2
    <3>4. UNCHANGED <<row, runRow, secret, request, compute, report, attempt, callback,
                      cancel, idleReap>>
      BY <2>2 DEF ReapStop
    <3>5. (abandoned \subseteq Runs)'
      <4>1. UNCHANGED abandoned \/ Abandons(r, TRUE)
        BY <2>2 DEF ReapStop
      <4>2. QED
        BY <4>1
    <3>6. QED
      BY <3>1, <3>3, <3>4, <3>5 DEF RunnerTyped
  <2>3. CASE ReapRelease(r)
    BY <2>3 DEF ReapRelease, ReleaseIfHeld, CompleteTurn
  <2>4. CASE ReapSecrets(r)
    BY <2>4 DEF ReapSecrets
  <2>5. QED
    BY <1>6, <2>1, <2>2, <2>3, <2>4 DEF ReaperNext
<1>7. ASSUME IdleNext PROVE TypeOK'
  <2>1. CASE GrowOld
    BY <2>1 DEF GrowOld
  <2>2. CASE IdleScan
    BY <2>2 DEF IdleScan
  <2>3. CASE IdleSuspend
    BY <2>3 DEF IdleSuspend
  <2>4. CASE IdleDestroyMachine
    <3>1. RunnerTyped'
      BY <2>4, MachineTyped DEF IdleDestroyMachine, RunnerTyped
    <3>2. machine' \in BOOLEAN /\ machineRun' \in Runs \cup {None}
      BY <2>4 DEF IdleDestroyMachine
    <3>3. idleReap' \in {"idle", "volume"}
      BY <2>4 DEF IdleDestroyMachine
    <3>4. QED
      BY <3>1, <3>2, <3>3, <2>4 DEF IdleDestroyMachine, RunnerTyped
  <2>5. CASE IdleDestroyVolume
    BY <2>5 DEF IdleDestroyVolume
  <2>6. CASE IdleMarkDestroyed
    BY <2>6 DEF IdleMarkDestroyed
  <2>7. QED
    BY <1>7, <2>1, <2>2, <2>3, <2>4, <2>5, <2>6 DEF IdleNext
<1>8. CASE UNCHANGED vars
  BY <1>8 DEF vars
<1>9. QED
  BY <1>1, <1>2, <1>3, <1>4, <1>5, <1>6, <1>7, <1>8 DEF Next

\* The rows, the machine and the handlers of WorkerWorkspace keep their types.
THEOREM TypeCorrect == Spec => []TypeOK
BY TypeInit, TypeStep, PTL DEF Spec

-----------------------------------------------------------------------------
(* A parked environment is free                                            *)

\* The guards of acquire, suspend and destroy keep it by themselves.
LEMMA FreeStep == ParkedIsFree /\ [Next]_vars => ParkedIsFree'
<1> SUFFICES ASSUME ParkedIsFree, [Next]_vars PROVE ParkedIsFree'
  OBVIOUS
<1> USE DEF ParkedIsFree
<1>1. ASSUME NEW r \in Runs,
             \/ OpenEnvironment(r) \/ SendTurn(r) \/ TurnCrash(r) \/ Cancel(r)
             \/ CancelCrash(r) \/ Scan(r) \/ ReaperCrash(r)
      PROVE  ParkedIsFree'
  <2>1. CASE OpenEnvironment(r)
    BY <2>1 DEF OpenEnvironment, ReadRow
  <2>2. CASE SendTurn(r)
    BY <2>2 DEF SendTurn, ReadRow
  <2>3. CASE TurnCrash(r)
    BY <2>3 DEF TurnCrash
  <2>4. CASE Cancel(r)
    BY <2>4 DEF Cancel
  <2>5. CASE Scan(r)
    BY <2>5 DEF Scan
  <2>6. CASE CancelCrash(r)
    BY <2>6 DEF CancelCrash
  <2>7. CASE ReaperCrash(r)
    BY <2>7 DEF ReaperCrash
  <2>8. QED
    BY <1>1, <2>1, <2>2, <2>3, <2>4, <2>5, <2>6, <2>7
<1>2. ASSUME NEW r \in Runs, TurnNext(r) PROVE ParkedIsFree'
  <2>1. CASE CountTurns(r)
    BY <2>1 DEF CountTurns
  <2>2. CASE InsertRun(r)
    BY <2>2 DEF InsertRun
  <2>3. CASE Acquire(r)
    BY <2>3 DEF Acquire
  <2>4. CASE BusyFail(r)
    BY <2>4 DEF BusyFail, AfterError
  <2>5. CASE Stage(r)
    BY <2>5 DEF Stage
  <2>6. CASE CreateMachine(r)
    BY <2>6 DEF CreateMachine, Boot, Kill
  <2>7. CASE RefreshMachine(r)
    BY <2>7 DEF RefreshMachine, Boot, Kill
  <2>8. CASE StartMachine(r)
    BY <2>8 DEF StartMachine, Boot, Kill
  <2>9. CASE MarkProvisioning(r)
    BY <2>9 DEF MarkProvisioning
  <2>10. CASE MarkMachine(r)
    BY <2>10 DEF MarkMachine
  <2>11. CASE FailRun(r)
    BY <2>11 DEF FailRun
  <2>12. CASE ReleaseFailed(r)
    BY <2>12 DEF ReleaseFailed, AfterError, CompleteTurn
  <2>13. CASE DestroyEnvironment(r)
    BY <2>13 DEF DestroyEnvironment
  <2>14. CASE ReleaseHeldTurn(r)
    BY <2>14 DEF ReleaseHeldTurn, ReleaseIfHeld, AfterError, CompleteTurn
  <2>15. QED
    BY <1>2, <2>1, <2>2, <2>3, <2>4, <2>5, <2>6, <2>7, <2>8, <2>9, <2>10, <2>11,
       <2>12, <2>13, <2>14 DEF TurnNext
<1>3. ASSUME NEW r \in Runs, RunnerNext(r) PROVE ParkedIsFree'
  <2>1. CASE PrepareWorkspace(r)
    BY <2>1 DEF PrepareWorkspace
  <2>2. CASE PostCallback(r)
    BY <2>2 DEF PostCallback
  <2>3. CASE RetryCallback(r)
    BY <2>3 DEF RetryCallback
  <2>4. CASE RunnerExit(r)
    BY <2>4 DEF RunnerExit
  <2>5. CASE RunnerDies(r)
    BY <2>5 DEF RunnerDies
  <2>6. QED
    BY <1>3, <2>1, <2>2, <2>3, <2>4, <2>5 DEF RunnerNext
<1>4. ASSUME NEW r \in Runs,
             NEW a \in Attempts, CallbackNext(r, a) \/ CallbackCrash(r, a)
      PROVE  ParkedIsFree'
  <2>1. CASE CallbackAuth(r, a)
    BY <2>1 DEF CallbackAuth
  <2>2. CASE ApplyCallback(r, a)
    BY <2>2 DEF ApplyCallback
  <2>3. CASE FinishTurn(r, a)
    BY <2>3 DEF FinishTurn
  <2>4. CASE CleanupVault(r, a)
    BY <2>4 DEF CleanupVault
  <2>5. CASE CompleteEnvironmentTurn(r, a)
    BY <2>5 DEF CompleteEnvironmentTurn, CompleteTurn
  <2>6. CASE CallbackCrash(r, a)
    BY <2>6 DEF CallbackCrash
  <2>7. QED
    BY <1>4, <2>1, <2>2, <2>3, <2>4, <2>5, <2>6 DEF CallbackNext
<1>5. ASSUME NEW r \in Runs, CancelNext(r) PROVE ParkedIsFree'
  <2>1. CASE CancelStop(r)
    BY <2>1 DEF CancelStop, StopMachine, Kill
  <2>2. CASE CancelRelease(r)
    BY <2>2 DEF CancelRelease, ReleaseIfHeld, CompleteTurn
  <2>3. CASE CancelSecrets(r)
    BY <2>3 DEF CancelSecrets
  <2>4. QED
    BY <1>5, <2>1, <2>2, <2>3 DEF CancelNext
<1>6. ASSUME NEW r \in Runs, ReaperNext(r) PROVE ParkedIsFree'
  <2>1. CASE ReapMark(r)
    BY <2>1 DEF ReapMark
  <2>2. CASE ReapStop(r)
    BY <2>2 DEF ReapStop, StopMachine, Kill
  <2>3. CASE ReapRelease(r)
    BY <2>3 DEF ReapRelease, ReleaseIfHeld, CompleteTurn
  <2>4. CASE ReapSecrets(r)
    BY <2>4 DEF ReapSecrets
  <2>5. QED
    BY <1>6, <2>1, <2>2, <2>3, <2>4 DEF ReaperNext
<1>7. ASSUME IdleNext PROVE ParkedIsFree'
  <2>1. CASE GrowOld
    BY <2>1 DEF GrowOld
  <2>2. CASE IdleScan
    BY <2>2 DEF IdleScan
  <2>3. CASE IdleSuspend
    BY <2>3 DEF IdleSuspend
  <2>4. CASE IdleDestroyMachine
    BY <2>4 DEF IdleDestroyMachine, StopMachine, Kill
  <2>5. CASE IdleDestroyVolume
    BY <2>5 DEF IdleDestroyVolume
  <2>6. CASE IdleMarkDestroyed
    BY <2>6 DEF IdleMarkDestroyed
  <2>7. QED
    BY <1>7, <2>1, <2>2, <2>3, <2>4, <2>5, <2>6 DEF IdleNext
<1>8. CASE UNCHANGED vars
  BY <1>8 DEF vars
<1>9. QED
  BY <1>1, <1>2, <1>3, <1>4, <1>5, <1>6, <1>7, <1>8 DEF Next

\* worker-environment-service.ts, worker-reaper-service.ts: an environment that is
\* new, suspended or destroyed is held by no turn.
THEOREM ParkedFree == Spec => []ParkedIsFree
<1>1. Init => ParkedIsFree
  BY DEF Init, ParkedIsFree
<1>2. QED
  BY <1>1, FreeStep, PTL DEF Spec

-----------------------------------------------------------------------------
(* No turn wedges                                                          *)

\* Only a request that has acquired the environment can have given it to its run.
HolderAcquired ==
  \A r \in Runs : lock = r => turn[r] \notin {"none", "count", "insert", "acquire", "busy"}

\* Nothing but acquireForTurn writes a run into the lock.
LEMMA HolderStep == TypeOK /\ HolderAcquired /\ [Next]_vars => HolderAcquired'
<1> SUFFICES ASSUME TypeOK, HolderAcquired, [Next]_vars PROVE HolderAcquired'
  OBVIOUS
<1> USE NoneAssumption DEF TypeOK, HolderAcquired
<1>1. ASSUME NEW r \in Runs,
             \/ OpenEnvironment(r) \/ SendTurn(r) \/ TurnCrash(r) \/ Cancel(r)
             \/ CancelCrash(r) \/ Scan(r) \/ ReaperCrash(r)
      PROVE  HolderAcquired'
  <2>1. CASE OpenEnvironment(r)
    BY <2>1 DEF OpenEnvironment, ReadRow
  <2>2. CASE SendTurn(r)
    BY <2>2 DEF SendTurn, ReadRow
  <2>3. CASE TurnCrash(r)
    BY <2>3 DEF TurnCrash
  <2>4. CASE Cancel(r)
    BY <2>4 DEF Cancel
  <2>5. CASE Scan(r)
    BY <2>5 DEF Scan
  <2>6. CASE CancelCrash(r)
    BY <2>6 DEF CancelCrash
  <2>7. CASE ReaperCrash(r)
    BY <2>7 DEF ReaperCrash
  <2>8. QED
    BY <1>1, <2>1, <2>2, <2>3, <2>4, <2>5, <2>6, <2>7
<1>2. ASSUME NEW r \in Runs, TurnNext(r) PROVE HolderAcquired'
  <2>1. CASE CountTurns(r)
    BY <2>1 DEF CountTurns
  <2>2. CASE InsertRun(r)
    BY <2>2 DEF InsertRun
  <2>3. CASE Acquire(r)
    BY <2>3 DEF Acquire
  <2>4. CASE BusyFail(r)
    BY <2>4 DEF BusyFail, AfterError
  <2>5. CASE Stage(r)
    BY <2>5 DEF Stage
  <2>6. CASE CreateMachine(r)
    BY <2>6 DEF CreateMachine, Boot, Kill
  <2>7. CASE RefreshMachine(r)
    BY <2>7 DEF RefreshMachine, Boot, Kill
  <2>8. CASE StartMachine(r)
    BY <2>8 DEF StartMachine, Boot, Kill
  <2>9. CASE MarkProvisioning(r)
    BY <2>9 DEF MarkProvisioning
  <2>10. CASE MarkMachine(r)
    BY <2>10 DEF MarkMachine
  <2>11. CASE FailRun(r)
    BY <2>11 DEF FailRun
  <2>12. CASE ReleaseFailed(r)
    BY <2>12 DEF ReleaseFailed, AfterError, CompleteTurn
  <2>13. CASE DestroyEnvironment(r)
    BY <2>13 DEF DestroyEnvironment
  <2>14. CASE ReleaseHeldTurn(r)
    BY <2>14 DEF ReleaseHeldTurn, ReleaseIfHeld, AfterError, CompleteTurn
  <2>15. QED
    BY <1>2, <2>1, <2>2, <2>3, <2>4, <2>5, <2>6, <2>7, <2>8, <2>9, <2>10, <2>11,
       <2>12, <2>13, <2>14 DEF TurnNext
<1>3. ASSUME NEW r \in Runs, RunnerNext(r) PROVE HolderAcquired'
  <2>1. CASE PrepareWorkspace(r)
    BY <2>1 DEF PrepareWorkspace
  <2>2. CASE PostCallback(r)
    BY <2>2 DEF PostCallback
  <2>3. CASE RetryCallback(r)
    BY <2>3 DEF RetryCallback
  <2>4. CASE RunnerExit(r)
    BY <2>4 DEF RunnerExit
  <2>5. CASE RunnerDies(r)
    BY <2>5 DEF RunnerDies
  <2>6. QED
    BY <1>3, <2>1, <2>2, <2>3, <2>4, <2>5 DEF RunnerNext
<1>4. ASSUME NEW r \in Runs,
             NEW a \in Attempts, CallbackNext(r, a) \/ CallbackCrash(r, a)
      PROVE  HolderAcquired'
  <2>1. CASE CallbackAuth(r, a)
    BY <2>1 DEF CallbackAuth
  <2>2. CASE ApplyCallback(r, a)
    BY <2>2 DEF ApplyCallback
  <2>3. CASE FinishTurn(r, a)
    BY <2>3 DEF FinishTurn
  <2>4. CASE CleanupVault(r, a)
    BY <2>4 DEF CleanupVault
  <2>5. CASE CompleteEnvironmentTurn(r, a)
    BY <2>5 DEF CompleteEnvironmentTurn, CompleteTurn
  <2>6. CASE CallbackCrash(r, a)
    BY <2>6 DEF CallbackCrash
  <2>7. QED
    BY <1>4, <2>1, <2>2, <2>3, <2>4, <2>5, <2>6 DEF CallbackNext
<1>5. ASSUME NEW r \in Runs, CancelNext(r) PROVE HolderAcquired'
  <2>1. CASE CancelStop(r)
    BY <2>1 DEF CancelStop, StopMachine, Kill
  <2>2. CASE CancelRelease(r)
    BY <2>2 DEF CancelRelease, ReleaseIfHeld, CompleteTurn
  <2>3. CASE CancelSecrets(r)
    BY <2>3 DEF CancelSecrets
  <2>4. QED
    BY <1>5, <2>1, <2>2, <2>3 DEF CancelNext
<1>6. ASSUME NEW r \in Runs, ReaperNext(r) PROVE HolderAcquired'
  <2>1. CASE ReapMark(r)
    BY <2>1 DEF ReapMark
  <2>2. CASE ReapStop(r)
    BY <2>2 DEF ReapStop, StopMachine, Kill
  <2>3. CASE ReapRelease(r)
    BY <2>3 DEF ReapRelease, ReleaseIfHeld, CompleteTurn
  <2>4. CASE ReapSecrets(r)
    BY <2>4 DEF ReapSecrets
  <2>5. QED
    BY <1>6, <2>1, <2>2, <2>3, <2>4 DEF ReaperNext
<1>7. ASSUME IdleNext PROVE HolderAcquired'
  <2>1. CASE GrowOld
    BY <2>1 DEF GrowOld
  <2>2. CASE IdleScan
    BY <2>2 DEF IdleScan
  <2>3. CASE IdleSuspend
    BY <2>3 DEF IdleSuspend
  <2>4. CASE IdleDestroyMachine
    BY <2>4 DEF IdleDestroyMachine, StopMachine, Kill
  <2>5. CASE IdleDestroyVolume
    BY <2>5 DEF IdleDestroyVolume
  <2>6. CASE IdleMarkDestroyed
    BY <2>6 DEF IdleMarkDestroyed
  <2>7. QED
    BY <1>7, <2>1, <2>2, <2>3, <2>4, <2>5, <2>6 DEF IdleNext
<1>8. CASE UNCHANGED vars
  BY <1>8 DEF vars
<1>9. QED
  BY <1>1, <1>2, <1>3, <1>4, <1>5, <1>6, <1>7, <1>8 DEF Next

\* The server works on posts that were sent, and the first one ends the agent's turn.
PostsSent ==
  \A r \in Runs :
    /\ runner[r] \in {"none", "boot", "agent"} => attempt[r] = 0
    /\ \A a \in Attempts : a > attempt[r] => callback[r][a] = "idle"

\* The next post is sent.
LEMMA PostSent ==
  ASSUME TypeOK, PostsSent, NEW r \in Runs, NEW n \in Attempts, n > attempt[r],
         callback' = [callback EXCEPT ![r][n] = "sent"],
         attempt' = [attempt EXCEPT ![r] = n],
         \A q \in Runs \ {r} : runner'[q] = runner[q],
         runner'[r] \notin {"none", "boot", "agent"}
  PROVE  PostsSent'
<1>1. \A q \in Runs : attempt[q] \in Nat /\ attempt'[q] = IF q = r THEN n ELSE attempt[q]
  BY DEF TypeOK
<1>2. /\ \A q \in Runs \ {r} : callback'[q] = callback[q]
      /\ \A b \in Attempts : b # n => callback'[r][b] = callback[r][b]
  BY DEF TypeOK
<1>3. ASSUME NEW q \in Runs
      PROVE  /\ runner'[q] \in {"none", "boot", "agent"} => attempt'[q] = 0
             /\ \A b \in Attempts : b > attempt'[q] => callback'[q][b] = "idle"
  <2>1. CASE q = r
    BY <2>1, <1>1, <1>2 DEF PostsSent, Attempts
  <2>2. CASE q # r
    BY <2>2, <1>1, <1>2 DEF PostsSent
  <2>3. QED
    BY <2>1, <2>2
<1>4. QED
  BY <1>3 DEF PostsSent

\* A post that the server works on was sent before.
LEMMA PostMoves ==
  ASSUME TypeOK, PostsSent, NEW r \in Runs, NEW a \in Attempts, callback[r][a] # "idle",
         \E c \in CallbackSteps : callback' = [callback EXCEPT ![r][a] = c],
         UNCHANGED <<runner, attempt>>
  PROVE  PostsSent'
<1>1. PICK c : callback' = [callback EXCEPT ![r][a] = c]
  OBVIOUS
<1>2. QED
  BY <1>1 DEF PostsSent, TypeOK

\* A machine that boots or stops has no runner posting for the first time.
LEMMA Stopped ==
  ASSUME TypeOK, PostsSent, UNCHANGED <<attempt, callback>>,
         UNCHANGED runner \/ StopMachine \/ \E r \in Runs \cup {None} : Boot(r)
  PROVE  PostsSent'
<1>1. \A q \in Runs : runner'[q] \in {"none", "boot", "agent"} =>
                        runner[q] \in {"none", "boot", "agent"}
  BY DEF StopMachine, Boot, Kill, Up
<1>2. QED
  BY <1>1 DEF PostsSent

\* Every step keeps the order of the posts.
LEMMA SentStep == TypeOK /\ PostsSent /\ [Next]_vars => PostsSent'
<1> SUFFICES ASSUME TypeOK, PostsSent, [Next]_vars PROVE PostsSent'
  OBVIOUS
<1> USE DEF CallbackSteps
<1>1. ASSUME NEW r \in Runs,
             \/ OpenEnvironment(r) \/ SendTurn(r) \/ TurnCrash(r) \/ Cancel(r)
             \/ CancelCrash(r) \/ Scan(r) \/ ReaperCrash(r)
      PROVE  PostsSent'
  <2>1. CASE OpenEnvironment(r)
    BY <2>1, Stopped DEF OpenEnvironment, ReadRow
  <2>2. CASE SendTurn(r)
    BY <2>2, Stopped DEF SendTurn, ReadRow
  <2>3. CASE TurnCrash(r)
    BY <2>3, Stopped DEF TurnCrash
  <2>4. CASE Cancel(r)
    BY <2>4, Stopped DEF Cancel
  <2>5. CASE Scan(r)
    BY <2>5, Stopped DEF Scan
  <2>6. CASE CancelCrash(r)
    BY <2>6, Stopped DEF CancelCrash
  <2>7. CASE ReaperCrash(r)
    BY <2>7, Stopped DEF ReaperCrash
  <2>8. QED
    BY <1>1, <2>1, <2>2, <2>3, <2>4, <2>5, <2>6, <2>7
<1>2. ASSUME NEW r \in Runs, TurnNext(r) PROVE PostsSent'
  <2>1. CASE CountTurns(r)
    BY <2>1, Stopped DEF CountTurns
  <2>2. CASE InsertRun(r)
    BY <2>2, Stopped DEF InsertRun
  <2>3. CASE Acquire(r)
    BY <2>3, Stopped DEF Acquire
  <2>4. CASE BusyFail(r)
    BY <2>4, Stopped DEF BusyFail
  <2>5. CASE Stage(r)
    BY <2>5, Stopped DEF Stage
  <2>6. CASE CreateMachine(r)
    BY <2>6, Stopped DEF CreateMachine
  <2>7. CASE RefreshMachine(r)
    BY <2>7, Stopped DEF RefreshMachine
  <2>8. CASE StartMachine(r)
    <3>1. UNCHANGED <<attempt, callback>> /\ (UNCHANGED runner \/ Boot(machineRun))
      BY <2>8 DEF StartMachine
    <3>2. machineRun \in Runs \cup {None}
      BY DEF TypeOK
    <3>3. QED
      BY <3>1, <3>2, Stopped
  <2>9. CASE MarkProvisioning(r)
    BY <2>9, Stopped DEF MarkProvisioning
  <2>10. CASE MarkMachine(r)
    BY <2>10, Stopped DEF MarkMachine
  <2>11. CASE FailRun(r)
    BY <2>11, Stopped DEF FailRun
  <2>12. CASE ReleaseFailed(r)
    BY <2>12, Stopped DEF ReleaseFailed
  <2>13. CASE DestroyEnvironment(r)
    BY <2>13, Stopped DEF DestroyEnvironment
  <2>14. CASE ReleaseHeldTurn(r)
    BY <2>14, Stopped DEF ReleaseHeldTurn
  <2>15. QED
    BY <1>2, <2>1, <2>2, <2>3, <2>4, <2>5, <2>6, <2>7, <2>8, <2>9, <2>10, <2>11,
       <2>12, <2>13, <2>14 DEF TurnNext
<1>3. ASSUME NEW r \in Runs, RunnerNext(r) PROVE PostsSent'
  <2>1. CASE PrepareWorkspace(r)
    <3>1. CASE UNCHANGED <<report, attempt, callback>>
      <4>1. \A q \in Runs : runner'[q] \in {"none", "boot", "agent"} =>
                              runner[q] \in {"none", "boot", "agent"}
        BY <2>1 DEF PrepareWorkspace, TypeOK
      <4>2. QED
        BY <3>1, <4>1 DEF PostsSent
    <3>2. CASE /\ runner' = [runner EXCEPT ![r] = "report"]
               /\ attempt' = [attempt EXCEPT ![r] = 1]
               /\ callback' = [callback EXCEPT ![r][1] = "sent"]
      <4>1. 1 \in Attempts /\ 1 > attempt[r]
        BY <2>1, MaxAttemptsAssumption DEF PrepareWorkspace, Attempts, PostsSent
      <4>2. /\ \A q \in Runs \ {r} : runner'[q] = runner[q]
            /\ runner'[r] \notin {"none", "boot", "agent"}
        BY <3>2 DEF TypeOK
      <4>3. QED
        BY <4>1, <4>2, <3>2, PostSent
    <3>3. QED
      BY <3>1, <3>2, <2>1 DEF PrepareWorkspace
  <2>2. CASE PostCallback(r)
    <3>1. 1 \in Attempts /\ 1 > attempt[r]
      BY <2>2, MaxAttemptsAssumption DEF PostCallback, Attempts, TypeOK, PostsSent
    <3>2. /\ \A q \in Runs \ {r} : runner'[q] = runner[q]
          /\ runner'[r] \notin {"none", "boot", "agent"}
      BY <2>2 DEF PostCallback, TypeOK
    <3>3. QED
      BY <3>1, <3>2, <2>2, PostSent DEF PostCallback
  <2>3. CASE RetryCallback(r)
    <3>1. (attempt[r] + 1) \in Attempts /\ (attempt[r] + 1) > attempt[r]
      BY <2>3, MaxAttemptsAssumption DEF RetryCallback, Attempts, TypeOK, PostsSent
    <3>2. /\ \A q \in Runs \ {r} : runner'[q] = runner[q]
          /\ runner'[r] \notin {"none", "boot", "agent"}
      BY <2>3 DEF RetryCallback, TypeOK
    <3>3. QED
      BY <3>1, <3>2, <2>3, PostSent DEF RetryCallback
  <2>4. CASE RunnerExit(r)
    BY <2>4 DEF RunnerExit, TypeOK, PostsSent
  <2>5. CASE RunnerDies(r)
    BY <2>5 DEF RunnerDies, TypeOK, PostsSent
  <2>6. QED
    BY <1>3, <2>1, <2>2, <2>3, <2>4, <2>5 DEF RunnerNext
<1>4. ASSUME NEW r \in Runs,
             NEW a \in Attempts, CallbackNext(r, a) \/ CallbackCrash(r, a)
      PROVE  PostsSent'
  <2>1. CASE CallbackAuth(r, a)
    BY <2>1, PostMoves DEF CallbackAuth
  <2>2. CASE ApplyCallback(r, a)
    BY <2>2, PostMoves DEF ApplyCallback
  <2>3. CASE FinishTurn(r, a)
    BY <2>3, PostMoves DEF FinishTurn
  <2>4. CASE CleanupVault(r, a)
    BY <2>4, PostMoves DEF CleanupVault
  <2>5. CASE CompleteEnvironmentTurn(r, a)
    BY <2>5, PostMoves DEF CompleteEnvironmentTurn
  <2>6. CASE CallbackCrash(r, a)
    BY <2>6, PostMoves DEF CallbackCrash
  <2>7. QED
    BY <1>4, <2>1, <2>2, <2>3, <2>4, <2>5, <2>6 DEF CallbackNext
<1>5. ASSUME NEW r \in Runs, CancelNext(r) PROVE PostsSent'
  <2>1. CASE CancelStop(r)
    BY <2>1, Stopped DEF CancelStop
  <2>2. CASE CancelRelease(r)
    BY <2>2, Stopped DEF CancelRelease
  <2>3. CASE CancelSecrets(r)
    BY <2>3, Stopped DEF CancelSecrets
  <2>4. QED
    BY <1>5, <2>1, <2>2, <2>3 DEF CancelNext
<1>6. ASSUME NEW r \in Runs, ReaperNext(r) PROVE PostsSent'
  <2>1. CASE ReapMark(r)
    BY <2>1, Stopped DEF ReapMark
  <2>2. CASE ReapStop(r)
    BY <2>2, Stopped DEF ReapStop
  <2>3. CASE ReapRelease(r)
    BY <2>3, Stopped DEF ReapRelease
  <2>4. CASE ReapSecrets(r)
    BY <2>4, Stopped DEF ReapSecrets
  <2>5. QED
    BY <1>6, <2>1, <2>2, <2>3, <2>4 DEF ReaperNext
<1>7. ASSUME IdleNext PROVE PostsSent'
  <2>1. CASE GrowOld
    BY <2>1, Stopped DEF GrowOld
  <2>2. CASE IdleScan
    BY <2>2, Stopped DEF IdleScan
  <2>3. CASE IdleSuspend
    BY <2>3, Stopped DEF IdleSuspend
  <2>4. CASE IdleDestroyMachine
    BY <2>4, Stopped DEF IdleDestroyMachine
  <2>5. CASE IdleDestroyVolume
    BY <2>5, Stopped DEF IdleDestroyVolume
  <2>6. CASE IdleMarkDestroyed
    BY <2>6, Stopped DEF IdleMarkDestroyed
  <2>7. QED
    BY <1>7, <2>1, <2>2, <2>3, <2>4, <2>5, <2>6 DEF IdleNext
<1>8. CASE UNCHANGED vars
  BY <1>8, Stopped DEF vars
<1>9. QED
  BY <1>1, <1>2, <1>3, <1>4, <1>5, <1>6, <1>7, <1>8 DEF Next

\* A step that frees the lock wedges no turn.
LEMMA Freed == ASSUME lock' = None PROVE NoWedge'
BY NoneAssumption DEF NoWedge

\* Nor does one that touches neither the lock nor who will free it.
LEMMA Still ==
  ASSUME NoWedge, UNCHANGED <<lock, status, turn, callback, cancel, reap, abandoned>>
  PROVE  NoWedge'
BY DEF NoWedge, Releasing

\* Nor a request that has the lock and goes on to release it.
LEMMA TurnMoves ==
  ASSUME TypeOK, NoWedge, NEW r \in Runs, NEW s, turn' = [turn EXCEPT ![r] = s],
         UNCHANGED <<callback, cancel, reap, abandoned>>, lock' \in {lock, r},
         \A q \in Runs \ {r} : status'[q] = status[q],
         lock' = r /\ status'[r] = "ended" =>
           s \in TurnOwes
  PROVE  NoWedge'
<1> SUFFICES ASSUME NEW q \in Runs, lock' = q, status'[q] = "ended"
             PROVE  Releasing(q)' \/ q \in abandoned
  BY DEF NoWedge
<1>1. CASE q = r
  BY <1>1 DEF Releasing, TypeOK
<1>2. CASE q # r
  <2>1. lock = q /\ status[q] = "ended" /\ turn'[q] = turn[q]
    BY <1>2 DEF TypeOK
  <2>2. QED
    BY <2>1 DEF NoWedge, Releasing
<1>3. QED
  BY <1>1, <1>2

\* Nor a callback handler that ends the run and goes on to release the lock.
LEMMA CallbackMoves ==
  ASSUME TypeOK, NoWedge, NEW r \in Runs, NEW a \in Attempts, NEW c,
         callback' = [callback EXCEPT ![r][a] = c],
         UNCHANGED <<lock, turn, cancel, reap, abandoned>>,
         \A q \in Runs \ {r} : status'[q] = status[q],
         \/ c \in CallbackOwes
         \/ /\ callback[r][a] \notin CallbackOwes
            /\ status'[r] = status[r]
  PROVE  NoWedge'
<1> SUFFICES ASSUME NEW q \in Runs, lock' = q, status'[q] = "ended"
             PROVE  Releasing(q)' \/ q \in abandoned
  BY DEF NoWedge
<1>1. \A p \in Runs, b \in Attempts :
        callback'[p][b] = IF p = r /\ b = a THEN c ELSE callback[p][b]
  BY DEF TypeOK
<1>2. CASE q = r /\ c \in CallbackOwes
  BY <1>1, <1>2 DEF Releasing
<1>3. CASE q # r \/ c \notin CallbackOwes
  <2>1. Releasing(q) \/ q \in abandoned
    BY <1>3 DEF NoWedge
  <2>2. \A b \in Attempts : callback[q][b] \in CallbackOwes =>
                              callback'[q][b] = callback[q][b]
    BY <1>1, <1>3
  <2>3. QED
    BY <2>1, <2>2 DEF Releasing
<1>4. QED
  BY <1>2, <1>3

\* Nor one that ends a handler and enters its run among the abandoned.
LEMMA Deserted ==
  ASSUME TypeOK, NoWedge, NEW r \in Runs, NEW owes \in BOOLEAN, Abandons(r, owes),
         UNCHANGED <<lock, status>>,
         \A q \in Runs \ {r} : Releasing(q) => Releasing(q)',
         Releasing(r) => Releasing(r)' \/ owes
  PROVE  NoWedge'
<1>1. abandoned \subseteq abandoned' /\ (owes /\ status[r] = "ended" => r \in abandoned')
  BY DEF Abandons
<1>2. QED
  BY <1>1 DEF NoWedge

\* Every step that ends a turn, or stops freeing its lock, leaves somebody to free it.
LEMMA WedgeStep ==
  TypeOK /\ HolderAcquired /\ PostsSent /\ NoWedge /\ [Next]_vars => NoWedge'
<1> SUFFICES ASSUME TypeOK, HolderAcquired, PostsSent, NoWedge, [Next]_vars
             PROVE  NoWedge'
  OBVIOUS
<1> USE DEF TurnOwes, CallbackOwes
<1>1. ASSUME NEW r \in Runs,
             \/ OpenEnvironment(r) \/ SendTurn(r) \/ TurnCrash(r) \/ Cancel(r)
             \/ CancelCrash(r) \/ Scan(r) \/ ReaperCrash(r)
      PROVE  NoWedge'
  <2>1. CASE OpenEnvironment(r)
    BY <2>1, TurnMoves DEF HolderAcquired, OpenEnvironment, ReadRow
  <2>2. CASE SendTurn(r)
    BY <2>2, TurnMoves DEF HolderAcquired, SendTurn, ReadRow
  <2>3. CASE TurnCrash(r)
    <3>1. UNCHANGED <<lock, status, callback, cancel, reap>> /\ Abandons(r, turn[r] \in TurnOwes)
      BY <2>3 DEF TurnCrash
    <3>2. \A q \in Runs \ {r} : turn'[q] = turn[q]
      BY <2>3 DEF TurnCrash, TypeOK
    <3>3. (turn[r] \in TurnOwes) \in BOOLEAN
      OBVIOUS
    <3>4. /\ \A q \in Runs \ {r} : Releasing(q) => Releasing(q)'
          /\ Releasing(r) => Releasing(r)' \/ turn[r] \in TurnOwes
      BY <3>1, <3>2 DEF Releasing
    <3>5. QED
      BY <3>1, <3>3, <3>4, Deserted
  <2>4. CASE Cancel(r)
    BY <2>4 DEF Cancel, TypeOK, NoWedge, Releasing
  <2>5. CASE Scan(r)
    BY <2>5 DEF Scan, TypeOK, NoWedge, Releasing
  <2>6. CASE CancelCrash(r)
    <3>1. UNCHANGED <<lock, status, turn, callback, reap>> /\ Abandons(r, cancel[r] # "secrets")
      BY <2>6 DEF CancelCrash
    <3>2. \A q \in Runs \ {r} : cancel'[q] = cancel[q]
      BY <2>6 DEF CancelCrash, TypeOK
    <3>3. (cancel[r] # "secrets") \in BOOLEAN
      OBVIOUS
    <3>4. /\ \A q \in Runs \ {r} : Releasing(q) => Releasing(q)'
          /\ Releasing(r) => Releasing(r)' \/ cancel[r] # "secrets"
      BY <3>1, <3>2 DEF Releasing
    <3>5. QED
      BY <3>1, <3>3, <3>4, Deserted
  <2>7. CASE ReaperCrash(r)
    <3>1. UNCHANGED <<lock, status, turn, callback, cancel>> /\ Abandons(r, reap[r] \in {"stop", "release"})
      BY <2>7 DEF ReaperCrash
    <3>2. \A q \in Runs \ {r} : reap'[q] = reap[q]
      BY <2>7 DEF ReaperCrash, TypeOK
    <3>3. (reap[r] \in {"stop", "release"}) \in BOOLEAN
      OBVIOUS
    <3>4. /\ \A q \in Runs \ {r} : Releasing(q) => Releasing(q)'
          /\ Releasing(r) => Releasing(r)' \/ reap[r] \in {"stop", "release"}
      BY <3>1, <3>2 DEF Releasing
    <3>5. QED
      BY <3>1, <3>3, <3>4, Deserted
  <2>8. QED
    BY <1>1, <2>1, <2>2, <2>3, <2>4, <2>5, <2>6, <2>7
<1>2. ASSUME NEW r \in Runs, TurnNext(r) PROVE NoWedge'
  <2>1. CASE CountTurns(r)
    BY <2>1, TurnMoves DEF HolderAcquired, CountTurns
  <2>2. CASE InsertRun(r)
    <3>1. \A q \in Runs \ {r} : status'[q] = status[q]
      BY <2>2 DEF InsertRun, TypeOK
    <3>2. lock # r
      BY <2>2 DEF InsertRun, HolderAcquired
    <3>3. QED
      BY <3>1, <3>2, <2>2, TurnMoves DEF InsertRun
  <2>3. CASE Acquire(r)
    <3>1. CASE lock = None /\ env # "destroyed"
      BY <3>1, <2>3, TurnMoves DEF Acquire, Dispatching
    <3>2. CASE ~(lock = None /\ env # "destroyed")
      BY <3>2, <2>3, TurnMoves DEF HolderAcquired, Acquire
    <3>3. QED
      BY <3>1, <3>2
  <2>4. CASE BusyFail(r)
    <3>1. \A q \in Runs \ {r} : status'[q] = status[q]
      BY <2>4 DEF BusyFail, TypeOK
    <3>2. lock # r
      BY <2>4 DEF BusyFail, HolderAcquired
    <3>3. QED
      BY <3>1, <3>2, <2>4, TurnMoves DEF BusyFail
  <2>5. CASE Stage(r)
    <3>1. PICK s \in {"refresh", "create", "fail"} : turn' = [turn EXCEPT ![r] = s]
      BY <2>5 DEF Stage
    <3>2. QED
      BY <3>1, <2>5, TurnMoves DEF Stage, Dispatching
  <2>6. CASE CreateMachine(r)
    <3>1. PICK s \in {"mark", "fail"} : turn' = [turn EXCEPT ![r] = s]
      BY <2>6 DEF CreateMachine
    <3>2. QED
      BY <3>1, <2>6, TurnMoves DEF CreateMachine, Dispatching
  <2>7. CASE RefreshMachine(r)
    <3>1. PICK s \in {"start", "fail"} : turn' = [turn EXCEPT ![r] = s]
      BY <2>7 DEF RefreshMachine
    <3>2. QED
      BY <3>1, <2>7, TurnMoves DEF RefreshMachine, Dispatching
  <2>8. CASE StartMachine(r)
    <3>1. PICK s \in {"mark", "fail"} : turn' = [turn EXCEPT ![r] = s]
      BY <2>8 DEF StartMachine
    <3>2. QED
      BY <3>1, <2>8, TurnMoves DEF StartMachine, Dispatching
  <2>9. CASE MarkProvisioning(r)
    BY <2>9, TurnMoves DEF MarkProvisioning, TypeOK
  <2>10. CASE MarkMachine(r)
    BY <2>10 DEF MarkMachine, TypeOK, NoWedge, Releasing, Dispatching
  <2>11. CASE FailRun(r)
    <3>1. \A q \in Runs \ {r} : status'[q] = status[q]
      BY <2>11 DEF FailRun, TypeOK
    <3>2. QED
      BY <3>1, <2>11, TurnMoves DEF FailRun
  <2>12. CASE ReleaseFailed(r)
    BY <2>12, Freed DEF ReleaseFailed, CompleteTurn
  <2>13. CASE DestroyEnvironment(r)
    BY <2>13, Freed DEF DestroyEnvironment
  <2>14. CASE ReleaseHeldTurn(r)
    <3>1. CASE lock = r
      BY <3>1, <2>14, Freed DEF ReleaseHeldTurn, ReleaseIfHeld, CompleteTurn
    <3>2. CASE lock # r
      <4>1. lock' = lock BY <3>2, <2>14 DEF ReleaseHeldTurn, ReleaseIfHeld
      <4>2. AfterError(r) \in TurnSteps BY DEF AfterError, TurnSteps
      <4>3. QED BY <3>2, <4>1, <2>14 DEF ReleaseHeldTurn, NoWedge, Releasing, TypeOK
    <3>3. QED BY <3>1, <3>2
  <2>15. QED
    BY <1>2, <2>1, <2>2, <2>3, <2>4, <2>5, <2>6, <2>7, <2>8, <2>9, <2>10, <2>11,
       <2>12, <2>13, <2>14 DEF TurnNext
<1>3. ASSUME NEW r \in Runs, RunnerNext(r) PROVE NoWedge'
  <2>1. CASE PrepareWorkspace(r)
    <3>1. CASE UNCHANGED callback
      BY <3>1, <2>1, Still DEF PrepareWorkspace
    <3>2. CASE callback' = [callback EXCEPT ![r][1] = "sent"]
      <4>1. 1 \in Attempts /\ 1 > attempt[r]
        BY <2>1, MaxAttemptsAssumption DEF PrepareWorkspace, Attempts, PostsSent
      <4>2. callback[r][1] = "idle"
        BY <4>1 DEF PostsSent
      <4>3. QED
        BY <4>1, <4>2, <3>2, <2>1, CallbackMoves DEF PrepareWorkspace
    <3>3. QED
      BY <3>1, <3>2, <2>1 DEF PrepareWorkspace
  <2>2. CASE PostCallback(r)
    <3>1. 1 \in Attempts /\ 1 > attempt[r]
      BY <2>2, MaxAttemptsAssumption DEF PostCallback, Attempts, TypeOK, PostsSent
    <3>2. callback[r][1] = "idle"
      BY <3>1 DEF PostsSent
    <3>3. QED
      BY <3>1, <3>2, <2>2, CallbackMoves DEF PostCallback
  <2>3. CASE RetryCallback(r)
    <3>1. (attempt[r] + 1) \in Attempts /\ (attempt[r] + 1) > attempt[r]
      BY <2>3, MaxAttemptsAssumption DEF RetryCallback, Attempts, TypeOK, PostsSent
    <3>2. callback[r][(attempt[r] + 1)] = "idle"
      BY <3>1 DEF PostsSent
    <3>3. QED
      BY <3>1, <3>2, <2>3, CallbackMoves DEF RetryCallback
  <2>4. CASE RunnerExit(r)
    BY <2>4, Still DEF RunnerExit
  <2>5. CASE RunnerDies(r)
    BY <2>5, Still DEF RunnerDies
  <2>6. QED
    BY <1>3, <2>1, <2>2, <2>3, <2>4, <2>5 DEF RunnerNext
<1>4. ASSUME NEW r \in Runs,
             NEW a \in Attempts, CallbackNext(r, a) \/ CallbackCrash(r, a)
      PROVE  NoWedge'
  <2>1. CASE CallbackAuth(r, a)
    BY <2>1, CallbackMoves DEF CallbackAuth
  <2>2. CASE ApplyCallback(r, a)
    <3>1. PICK c \in {"claimed", "cleanup", "release"} :
            callback' = [callback EXCEPT ![r][a] = c]
      BY <2>2 DEF ApplyCallback
    <3>2. \A q \in Runs \ {r} : status'[q] = status[q]
      BY <2>2 DEF ApplyCallback, TypeOK
    <3>3. QED
      BY <3>1, <3>2, <2>2, CallbackMoves DEF ApplyCallback
  <2>3. CASE FinishTurn(r, a)
    <3>1. \A q \in Runs \ {r} : status'[q] = status[q]
      BY <2>3 DEF FinishTurn, TypeOK
    <3>2. QED
      BY <3>1, <2>3, CallbackMoves DEF FinishTurn
  <2>4. CASE CleanupVault(r, a)
    BY <2>4, CallbackMoves DEF CleanupVault
  <2>5. CASE CompleteEnvironmentTurn(r, a)
    BY <2>5, Freed DEF CompleteEnvironmentTurn, CompleteTurn
  <2>6. CASE CallbackCrash(r, a)
    <3>1. UNCHANGED <<lock, status, turn, cancel, reap>> /\ Abandons(r, callback[r][a] \in CallbackOwes)
      BY <2>6 DEF CallbackCrash
    <3>2. \A q \in Runs, b \in Attempts : q # r \/ b # a => callback'[q][b] = callback[q][b]
      BY <2>6 DEF CallbackCrash, TypeOK
    <3>3. (callback[r][a] \in CallbackOwes) \in BOOLEAN
      OBVIOUS
    <3>4. /\ \A q \in Runs \ {r} : Releasing(q) => Releasing(q)'
          /\ Releasing(r) => Releasing(r)' \/ callback[r][a] \in CallbackOwes
      BY <3>1, <3>2 DEF Releasing
    <3>5. QED
      BY <3>1, <3>3, <3>4, Deserted
  <2>7. QED
    BY <1>4, <2>1, <2>2, <2>3, <2>4, <2>5, <2>6 DEF CallbackNext
<1>5. ASSUME NEW r \in Runs, CancelNext(r) PROVE NoWedge'
  <2>1. CASE CancelStop(r)
    BY <2>1 DEF CancelStop, TypeOK, NoWedge, Releasing
  <2>2. CASE CancelRelease(r)
    <3>1. CASE lock = r
      BY <3>1, <2>2, Freed DEF CancelRelease, ReleaseIfHeld, CompleteTurn
    <3>2. CASE lock # r
      BY <3>2, <2>2 DEF CancelRelease, ReleaseIfHeld, TypeOK, NoWedge, Releasing
    <3>3. QED
      BY <3>1, <3>2
  <2>3. CASE CancelSecrets(r)
    BY <2>3 DEF CancelSecrets, TypeOK, NoWedge, Releasing
  <2>4. QED
    BY <1>5, <2>1, <2>2, <2>3 DEF CancelNext
<1>6. ASSUME NEW r \in Runs, ReaperNext(r) PROVE NoWedge'
  <2>1. CASE ReapMark(r)
    <3>0. /\ UNCHANGED <<lock, turn, callback, cancel, abandoned>>
          /\ reap[r] \in {"scanned", "scannedWithMachine"}
      BY <2>1 DEF ReapMark
    <3>1. CASE status[r] \in NonTerminal
      <4>1. /\ \A q \in Runs \ {r} : status'[q] = status[q] /\ reap'[q] = reap[q]
            /\ reap'[r] \in {"stop", "release"}
        BY <3>1, <2>1 DEF ReapMark, TypeOK
      <4>2. QED
        BY <3>0, <4>1 DEF NoWedge, Releasing
    <3>2. CASE status[r] \notin NonTerminal
      <4>1. status' = status /\ \A q \in Runs \ {r} : reap'[q] = reap[q]
        BY <3>2, <2>1 DEF ReapMark, TypeOK
      <4>2. QED
        BY <3>0, <4>1 DEF NoWedge, Releasing
    <3>3. QED
      BY <3>1, <3>2
  <2>2. CASE ReapStop(r)
    <3>0. UNCHANGED <<lock, status, turn, callback, cancel>>
      BY <2>2 DEF ReapStop
    <3>1. ASSUME reap' = [reap EXCEPT ![r] = "release"], UNCHANGED abandoned PROVE NoWedge'
      <4>1. reap'[r] = "release" /\ \A q \in Runs \ {r} : reap'[q] = reap[q]
        BY <3>1 DEF TypeOK
      <4>2. QED
        BY <3>0, <3>1, <4>1 DEF NoWedge, Releasing
    <3>2. ASSUME reap' = [reap EXCEPT ![r] = "idle"], Abandons(r, TRUE) PROVE NoWedge'
      <4>1. \A q \in Runs \ {r} : reap'[q] = reap[q]
        BY <3>2 DEF TypeOK
      <4>2. \A q \in Runs \ {r} : Releasing(q) => Releasing(q)'
        BY <3>0, <4>1 DEF Releasing
      <4>3. Releasing(r) => Releasing(r)' \/ TRUE
        OBVIOUS
      <4>4. QED
        BY <3>0, <3>2, <4>2, <4>3, Deserted
    <3>3. \/ reap' = [reap EXCEPT ![r] = "release"] /\ UNCHANGED abandoned
          \/ reap' = [reap EXCEPT ![r] = "idle"] /\ Abandons(r, TRUE)
      BY <2>2 DEF ReapStop
    <3>4. QED
      BY <3>1, <3>2, <3>3
  <2>3. CASE ReapRelease(r)
    <3>1. CASE lock = r
      BY <3>1, <2>3, Freed DEF ReapRelease, ReleaseIfHeld, CompleteTurn
    <3>2. CASE lock # r
      BY <3>2, <2>3 DEF ReapRelease, ReleaseIfHeld, TypeOK, NoWedge, Releasing
    <3>3. QED
      BY <3>1, <3>2
  <2>4. CASE ReapSecrets(r)
    BY <2>4 DEF ReapSecrets, TypeOK, NoWedge, Releasing
  <2>5. QED
    BY <1>6, <2>1, <2>2, <2>3, <2>4 DEF ReaperNext
<1>7. ASSUME IdleNext PROVE NoWedge'
  <2>1. CASE GrowOld
    BY <2>1, Still DEF GrowOld
  <2>2. CASE IdleScan
    BY <2>2, Still DEF IdleScan
  <2>3. CASE IdleSuspend
    BY <2>3, Still DEF IdleSuspend
  <2>4. CASE IdleDestroyMachine
    BY <2>4, Still DEF IdleDestroyMachine
  <2>5. CASE IdleDestroyVolume
    BY <2>5, Still DEF IdleDestroyVolume
  <2>6. CASE IdleMarkDestroyed
    BY <2>6, Still DEF IdleMarkDestroyed
  <2>7. QED
    BY <1>7, <2>1, <2>2, <2>3, <2>4, <2>5, <2>6 DEF IdleNext
<1>8. CASE UNCHANGED vars
  BY <1>8, Still DEF vars
<1>9. QED
  BY <1>1, <1>2, <1>3, <1>4, <1>5, <1>6, <1>7, <1>8 DEF Next

\* worker-reaper-service.ts releases the lock "or the thread wedges forever": a turn that
\* has ended is on its way to give the environment back, unless a handler of it was killed,
\* or the reaper met a Fly error, between the end and the release.
THEOREM NoTurnWedges == Spec => []NoWedge
<1> DEFINE Held == TypeOK /\ HolderAcquired /\ PostsSent /\ NoWedge
<1>1. Init => Held
  <2>1. Init => HolderAcquired /\ PostsSent /\ NoWedge
    BY NoneAssumption DEF Init, HolderAcquired, PostsSent, NoWedge
  <2>2. QED
    BY <2>1, TypeInit
<1>2. Held /\ [Next]_vars => Held'
  BY TypeStep, HolderStep, SentStep, WedgeStep
<1>3. QED
  BY <1>1, <1>2, PTL DEF Spec
=============================================================================
