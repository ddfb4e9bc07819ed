-------------------------- MODULE WorkerRunProofs ---------------------------
(***************************************************************************)
(* Proofs about WorkerRun, for every set of runs, every number of callback *)
(* attempts and every set of faults.                                       *)
(***************************************************************************)
EXTENDS WorkerRun, TLAPS

\* What a step leaves alone, and the ranges of the program counters.
USE DEF row, vault, client, ghosts
USE DEF Statuses, NonTerminal, Terminal, DispatchSteps, RunnerStates, Up,
        Reports, CallbackSteps, EventSteps, CancelSteps, ReapSteps

-----------------------------------------------------------------------------
(* Types                                                                   *)

\* Every variable of the run, its machine and its handlers keeps its type.
LEMMA TypeInit == Init => TypeOK
BY MaxAttemptsAssumption DEF Init, TypeOK

\* Every step keeps the types.
LEMMA TypeStep == TypeOK /\ [Next]_vars => TypeOK'
<1> SUFFICES ASSUME TypeOK, [Next]_vars PROVE TypeOK'
  OBVIOUS
<1>status. status \in [Runs -> Statuses]
  BY DEF TypeOK
<1>machineId. machineId \in [Runs -> BOOLEAN]
  BY DEF TypeOK
<1>overdue. overdue \in [Runs -> BOOLEAN]
  BY DEF TypeOK
<1>secret. secret \in [Runs -> BOOLEAN]
  BY DEF TypeOK
<1>token. token \in [Runs -> BOOLEAN]
  BY DEF TypeOK
<1>dispatch. dispatch \in [Runs -> DispatchSteps]
  BY DEF TypeOK
<1>runner. runner \in [Runs -> RunnerStates]
  BY DEF TypeOK
<1>report. report \in [Runs -> Reports \cup {"none"}]
  BY DEF TypeOK
<1>attempt. attempt \in [Runs -> 0..MaxAttempts]
  BY DEF TypeOK
<1>callback. callback \in [Runs -> [Attempts -> CallbackSteps]]
  BY DEF TypeOK
<1>events. events \in [Runs -> EventSteps]
  BY DEF TypeOK
<1>cancel. cancel \in [Runs -> CancelSteps]
  BY DEF TypeOK
<1>reap. reap \in [Runs -> ReapSteps]
  BY DEF TypeOK
<1>landed. landed \in [Runs -> Nat]
  BY DEF TypeOK
<1>reopened. reopened \in [Runs -> BOOLEAN]
  BY DEF TypeOK
<1>orphaned. orphaned \in [Runs -> BOOLEAN]
  BY DEF TypeOK
<1>unclosed. unclosed \in [Runs -> BOOLEAN]
  BY DEF TypeOK
<1>1. ASSUME NEW r \in Runs, DispatchNext(r) PROVE TypeOK'
  <2>1. CASE CreateRun(r)
    <3>1. status' \in [Runs -> Statuses]
      BY <1>status, <2>1 DEF CreateRun
    <3>2. dispatch' \in [Runs -> DispatchSteps]
      BY <1>dispatch, <2>1 DEF CreateRun
    <3>3. UNCHANGED <<machineId, overdue, secret, token, runner, report,
                      attempt, callback, events, cancel, reap, landed, reopened,
                      orphaned, unclosed>>
      BY <2>1 DEF CreateRun
    <3>4. QED
      BY <3>1, <3>2, <3>3 DEF TypeOK
  <2>2. CASE Preflight(r)
    <3>1. dispatch' \in [Runs -> DispatchSteps]
      BY <1>dispatch, <2>2 DEF Preflight
    <3>2. UNCHANGED <<status, machineId, overdue, secret, token, runner, report,
                      attempt, callback, events, cancel, reap, landed, reopened,
                      orphaned, unclosed>>
      BY <2>2 DEF Preflight
    <3>3. QED
      BY <3>1, <3>2 DEF TypeOK
  <2>3. CASE StageSecret(r)
    <3>1. secret' \in [Runs -> BOOLEAN]
      BY <1>secret, <2>3 DEF StageSecret
    <3>2. dispatch' \in [Runs -> DispatchSteps]
      BY <1>dispatch, <2>3 DEF StageSecret
    <3>3. UNCHANGED <<status, machineId, overdue, token, runner, report,
                      attempt, callback, events, cancel, reap, landed, reopened,
                      orphaned, unclosed>>
      BY <2>3 DEF StageSecret
    <3>4. QED
      BY <3>1, <3>2, <3>3 DEF TypeOK
  <2>4. CASE StageToken(r)
    <3>1. token' \in [Runs -> BOOLEAN]
      BY <1>token, <2>4 DEF StageToken
    <3>2. dispatch' \in [Runs -> DispatchSteps]
      BY <1>dispatch, <2>4 DEF StageToken
    <3>3. UNCHANGED <<status, machineId, overdue, secret, runner, report,
                      attempt, callback, events, cancel, reap, landed, reopened,
                      orphaned, unclosed>>
      BY <2>4 DEF StageToken
    <3>4. QED
      BY <3>1, <3>2, <3>3 DEF TypeOK
  <2>5. CASE CreateMachine(r)
    <3>1. runner' \in [Runs -> RunnerStates]
      BY <1>runner, <2>5 DEF CreateMachine
    <3>2. dispatch' \in [Runs -> DispatchSteps]
      BY <1>dispatch, <2>5 DEF CreateMachine
    <3>3. UNCHANGED <<status, machineId, overdue, secret, token, report,
                      attempt, callback, events, cancel, reap, landed, reopened,
                      orphaned, unclosed>>
      BY <2>5 DEF CreateMachine
    <3>4. QED
      BY <3>1, <3>2, <3>3 DEF TypeOK
  <2>6. CASE UnstageToken(r)
    <3>1. token' \in [Runs -> BOOLEAN]
      BY <1>token, <2>6 DEF UnstageToken, Deleted
    <3>2. dispatch' \in [Runs -> DispatchSteps]
      BY <1>dispatch, <2>6 DEF UnstageToken, Deleted
    <3>3. UNCHANGED <<status, machineId, overdue, secret, runner, report,
                      attempt, callback, events, cancel, reap, landed, reopened,
                      orphaned, unclosed>>
      BY <2>6 DEF UnstageToken, Deleted
    <3>4. QED
      BY <3>1, <3>2, <3>3 DEF TypeOK
  <2>7. CASE MarkProvisioning(r)
    <3>1. status' \in [Runs -> Statuses]
      BY <1>status, <2>7 DEF MarkProvisioning
    <3>2. machineId' \in [Runs -> BOOLEAN]
      BY <1>machineId, <2>7 DEF MarkProvisioning
    <3>3. dispatch' \in [Runs -> DispatchSteps]
      BY <1>dispatch, <2>7 DEF MarkProvisioning
    <3>4. reopened' \in [Runs -> BOOLEAN]
      <4>1. \E b \in BOOLEAN :
              reopened' = [reopened EXCEPT ![r] = b] \/ reopened' = reopened
        BY <2>7 DEF MarkProvisioning, Overwrites
      <4>2. QED
        BY <1>reopened, <4>1
    <3>5. UNCHANGED <<overdue, secret, token, runner, report, attempt, callback,
                      events, cancel, reap, landed, orphaned, unclosed>>
      BY <2>7 DEF MarkProvisioning
    <3>6. QED
      BY <3>1, <3>2, <3>3, <3>4, <3>5 DEF TypeOK
  <2>8. CASE FailRun(r)
    <3>1. status' \in [Runs -> Statuses]
      BY <1>status, <2>8 DEF FailRun
    <3>2. dispatch' \in [Runs -> DispatchSteps]
      BY <1>dispatch, <2>8 DEF FailRun
    <3>3. reopened' \in [Runs -> BOOLEAN]
      <4>1. \E b \in BOOLEAN :
              reopened' = [reopened EXCEPT ![r] = b] \/ reopened' = reopened
        BY <2>8 DEF FailRun, Overwrites
      <4>2. QED
        BY <1>reopened, <4>1
    <3>4. UNCHANGED <<machineId, overdue, secret, token, runner, report,
                      attempt, callback, events, cancel, reap, landed, orphaned,
                      unclosed>>
      BY <2>8 DEF FailRun
    <3>5. QED
      BY <3>1, <3>2, <3>3, <3>4 DEF TypeOK
  <2>9. CASE DispatchCrash(r)
    <3>1. dispatch' \in [Runs -> DispatchSteps]
      BY <1>dispatch, <2>9 DEF DispatchCrash
    <3>2. UNCHANGED <<status, machineId, overdue, secret, token, runner, report,
                      attempt, callback, events, cancel, reap, landed, reopened,
                      orphaned, unclosed>>
      BY <2>9 DEF DispatchCrash
    <3>3. QED
      BY <3>1, <3>2 DEF TypeOK
  <2>10. QED
    BY <1>1, <2>1, <2>2, <2>3, <2>4, <2>5, <2>6, <2>7, <2>8, <2>9 DEF DispatchNext
<1>2. ASSUME NEW r \in Runs, RunnerNext(r) PROVE TypeOK'
  <2>1. CASE FetchParams(r)
    <3>1. token' \in [Runs -> BOOLEAN]
      BY <1>token, <2>1 DEF FetchParams, Deleted
    <3>2. runner' \in [Runs -> RunnerStates]
      BY <1>runner, <2>1 DEF FetchParams, Deleted
    <3>3. UNCHANGED <<status, machineId, overdue, secret, dispatch, report,
                      attempt, callback, events, cancel, reap, landed, reopened,
                      orphaned, unclosed>>
      BY <2>1 DEF FetchParams, Deleted
    <3>4. QED
      BY <3>1, <3>2, <3>3 DEF TypeOK
  <2>2. CASE PostEvents(r)
    <3>1. events' \in [Runs -> EventSteps]
      BY <1>events, <2>2 DEF PostEvents
    <3>2. UNCHANGED <<status, machineId, overdue, secret, token, dispatch,
                      runner, report, attempt, callback, cancel, reap, landed,
                      reopened, orphaned, unclosed>>
      BY <2>2 DEF PostEvents
    <3>3. QED
      BY <3>1, <3>2 DEF TypeOK
  <2>3. CASE PostCallback(r)
    <3>1. runner' \in [Runs -> RunnerStates]
      BY <1>runner, <2>3, MaxAttemptsAssumption DEF PostCallback, Attempts
    <3>2. report' \in [Runs -> Reports \cup {"none"}]
      BY <1>report, <2>3, MaxAttemptsAssumption DEF PostCallback, Attempts
    <3>3. attempt' \in [Runs -> 0..MaxAttempts]
      BY <1>attempt, <2>3, MaxAttemptsAssumption DEF PostCallback, Attempts
    <3>4. callback' \in [Runs -> [Attempts -> CallbackSteps]]
      BY <1>callback, <2>3, MaxAttemptsAssumption DEF PostCallback, Attempts
    <3>5. UNCHANGED <<status, machineId, overdue, secret, token, dispatch,
                      events, cancel, reap, landed, reopened, orphaned,
                      unclosed>>
      BY <2>3 DEF PostCallback, Attempts
    <3>6. QED
      BY <3>1, <3>2, <3>3, <3>4, <3>5 DEF TypeOK
  <2>4. CASE RetryCallback(r)
    <3>1. attempt' \in [Runs -> 0..MaxAttempts]
      BY <1>attempt, <2>4, <1>attempt, MaxAttemptsAssumption DEF RetryCallback, Attempts
    <3>2. callback' \in [Runs -> [Attempts -> CallbackSteps]]
      BY <1>callback, <2>4, <1>attempt, MaxAttemptsAssumption DEF RetryCallback, Attempts
    <3>3. UNCHANGED <<status, machineId, overdue, secret, token, dispatch,
                      runner, report, events, cancel, reap, landed, reopened,
                      orphaned, unclosed>>
      BY <2>4 DEF RetryCallback, Attempts
    <3>4. QED
      BY <3>1, <3>2, <3>3 DEF TypeOK
  <2>5. CASE RunnerExit(r)
    <3>1. runner' \in [Runs -> RunnerStates]
      BY <1>runner, <2>5 DEF RunnerExit
    <3>2. UNCHANGED <<status, machineId, overdue, secret, token, dispatch,
                      report, attempt, callback, events, cancel, reap, landed,
                      reopened, orphaned, unclosed>>
      BY <2>5 DEF RunnerExit
    <3>3. QED
      BY <3>1, <3>2 DEF TypeOK
  <2>6. CASE RunnerDies(r)
    <3>1. runner' \in [Runs -> RunnerStates]
      BY <1>runner, <2>6 DEF RunnerDies
    <3>2. UNCHANGED <<status, machineId, overdue, secret, token, dispatch,
                      report, attempt, callback, events, cancel, reap, landed,
                      reopened, orphaned, unclosed>>
      BY <2>6 DEF RunnerDies
    <3>3. QED
      BY <3>1, <3>2 DEF TypeOK
  <2>7. QED
    BY <1>2, <2>1, <2>2, <2>3, <2>4, <2>5, <2>6 DEF RunnerNext
<1>3. ASSUME NEW r \in Runs, EventsNext(r) PROVE TypeOK'
  <2>1. CASE EventsAuth(r)
    <3>1. events' \in [Runs -> EventSteps]
      BY <1>events, <2>1 DEF EventsAuth
    <3>2. UNCHANGED <<status, machineId, overdue, secret, token, dispatch,
                      runner, report, attempt, callback, cancel, reap, landed,
                      reopened, orphaned, unclosed>>
      BY <2>1 DEF EventsAuth
    <3>3. QED
      BY <3>1, <3>2 DEF TypeOK
  <2>2. CASE EventsRead(r)
    <3>1. events' \in [Runs -> EventSteps]
      BY <1>events, <2>2 DEF EventsRead
    <3>2. UNCHANGED <<status, machineId, overdue, secret, token, dispatch,
                      runner, report, attempt, callback, cancel, reap, landed,
                      reopened, orphaned, unclosed>>
      BY <2>2 DEF EventsRead
    <3>3. QED
      BY <3>1, <3>2 DEF TypeOK
  <2>3. CASE EventsStart(r)
    <3>1. status' \in [Runs -> Statuses]
      BY <1>status, <2>3 DEF EventsStart
    <3>2. overdue' \in [Runs -> BOOLEAN]
      BY <1>overdue, <2>3 DEF EventsStart
    <3>3. events' \in [Runs -> EventSteps]
      BY <1>events, <2>3 DEF EventsStart
    <3>4. UNCHANGED <<machineId, secret, token, dispatch, runner, report,
                      attempt, callback, cancel, reap, landed, reopened,
                      orphaned, unclosed>>
      BY <2>3 DEF EventsStart
    <3>5. QED
      BY <3>1, <3>2, <3>3, <3>4 DEF TypeOK
  <2>4. QED
    BY <1>3, <2>1, <2>2, <2>3 DEF EventsNext
<1>4. ASSUME NEW r \in Runs, NEW a \in Attempts, CallbackNext(r, a) PROVE TypeOK'
  <2>1. CASE CallbackAuth(r, a)
    <3>1. callback' \in [Runs -> [Attempts -> CallbackSteps]]
      <4>1. \E c \in CallbackSteps : callback' = [callback EXCEPT ![r][a] = c]
        BY <2>1 DEF CallbackAuth
      <4>2. QED
        BY <1>callback, <4>1
    <3>2. UNCHANGED <<status, machineId, overdue, secret, token, dispatch,
                      runner, report, attempt, events, cancel, reap, landed,
                      reopened, orphaned, unclosed>>
      BY <2>1 DEF CallbackAuth
    <3>3. QED
      BY <3>1, <3>2 DEF TypeOK
  <2>2. CASE Claim(r, a)
    <3>1. status' \in [Runs -> Statuses]
      BY <1>status, <2>2 DEF Claim
    <3>2. callback' \in [Runs -> [Attempts -> CallbackSteps]]
      <4>1. \E c \in CallbackSteps : callback' = [callback EXCEPT ![r][a] = c]
        BY <2>2 DEF Claim
      <4>2. QED
        BY <1>callback, <4>1
    <3>3. orphaned' \in [Runs -> BOOLEAN] /\ unclosed' \in [Runs -> BOOLEAN]
      BY <1>orphaned, <2>2 DEF Claim, TypeOK
    <3>4. UNCHANGED <<machineId, overdue, secret, token, dispatch, runner,
                      report, attempt, events, cancel, reap, landed, reopened>>
      BY <2>2 DEF Claim
    <3>5. QED
      BY <3>1, <3>2, <3>3, <3>4 DEF TypeOK
  <2>3. CASE Land(r, a)
    <3>1. callback' \in [Runs -> [Attempts -> CallbackSteps]]
      <4>1. \E c \in CallbackSteps : callback' = [callback EXCEPT ![r][a] = c]
        BY <2>3 DEF Land
      <4>2. QED
        BY <1>callback, <4>1
    <3>2. landed' \in [Runs -> Nat]
      <4>1. \/ landed' = [landed EXCEPT ![r] = landed[r] + 1]
            \/ landed' = landed
        BY <2>3, Zenon DEF Land
      <4>2. landed[r] + 1 \in Nat
        BY <1>landed
      <4>3. QED
        BY <1>landed, <4>1, <4>2
    <3>3. UNCHANGED <<status, machineId, overdue, secret, token, dispatch,
                      runner, report, attempt, events, cancel, reap, reopened,
                      orphaned, unclosed>>
      BY <2>3 DEF Land
    <3>4. QED
      BY <3>1, <3>2, <3>3 DEF TypeOK
  <2>4. CASE Finish(r, a)
    <3>1. status' \in [Runs -> Statuses]
      BY <1>status, <2>4 DEF Finish
    <3>2. callback' \in [Runs -> [Attempts -> CallbackSteps]]
      <4>1. \E c \in CallbackSteps : callback' = [callback EXCEPT ![r][a] = c]
        BY <2>4 DEF Finish
      <4>2. QED
        BY <1>callback, <4>1
    <3>3. unclosed' \in [Runs -> BOOLEAN]
      BY <1>unclosed, <2>4 DEF Finish
    <3>4. UNCHANGED <<machineId, overdue, secret, token, dispatch, runner,
                      report, attempt, events, cancel, reap, landed, reopened,
                      orphaned>>
      BY <2>4 DEF Finish
    <3>5. QED
      BY <3>1, <3>2, <3>3, <3>4 DEF TypeOK
  <2>5. CASE Apply(r, a)
    <3>1. status' \in [Runs -> Statuses]
      <4>1. FinalStatus[report[r]] \in Statuses
        BY <2>5 DEF Apply, FinalStatus
      <4>2. status' = [status EXCEPT ![r] = FinalStatus[report[r]]] \/ status' = status
        BY <2>5, Zenon DEF Apply
      <4>3. QED
        BY <1>status, <4>1, <4>2
    <3>2. callback' \in [Runs -> [Attempts -> CallbackSteps]]
      <4>1. \E c \in CallbackSteps : callback' = [callback EXCEPT ![r][a] = c]
        BY <2>5 DEF Apply
      <4>2. QED
        BY <1>callback, <4>1
    <3>3. UNCHANGED <<machineId, overdue, secret, token, dispatch, runner,
                      report, attempt, events, cancel, reap, landed, reopened,
                      orphaned, unclosed>>
      BY <2>5 DEF Apply
    <3>4. QED
      BY <3>1, <3>2, <3>3 DEF TypeOK
  <2>6. CASE Cleanup(r, a)
    <3>1. secret' \in [Runs -> BOOLEAN]
      BY <1>secret, <2>6 DEF Cleanup, Deleted
    <3>2. token' \in [Runs -> BOOLEAN]
      BY <1>token, <2>6 DEF Cleanup, Deleted
    <3>3. callback' \in [Runs -> [Attempts -> CallbackSteps]]
      <4>1. \E c \in CallbackSteps : callback' = [callback EXCEPT ![r][a] = c]
        BY <2>6 DEF Cleanup
      <4>2. QED
        BY <1>callback, <4>1
    <3>4. UNCHANGED <<status, machineId, overdue, dispatch, runner, report,
                      attempt, events, cancel, reap, landed, reopened, orphaned,
                      unclosed>>
      BY <2>6 DEF Cleanup, Deleted
    <3>5. QED
      BY <3>1, <3>2, <3>3, <3>4 DEF TypeOK
  <2>7. CASE CallbackCrash(r, a)
    <3>1. callback' \in [Runs -> [Attempts -> CallbackSteps]]
      <4>1. \E c \in CallbackSteps : callback' = [callback EXCEPT ![r][a] = c]
        BY <2>7 DEF CallbackCrash
      <4>2. QED
        BY <1>callback, <4>1
    <3>2. UNCHANGED <<status, machineId, overdue, secret, token, dispatch,
                      runner, report, attempt, events, cancel, reap, landed,
                      reopened, orphaned, unclosed>>
      BY <2>7 DEF CallbackCrash
    <3>3. QED
      BY <3>1, <3>2 DEF TypeOK
  <2>8. QED
    BY <1>4, <2>1, <2>2, <2>3, <2>4, <2>5, <2>6, <2>7 DEF CallbackNext
<1>5. ASSUME NEW r \in Runs, CancelNext(r) PROVE TypeOK'
  <2>1. CASE Cancel(r)
    <3>1. status' \in [Runs -> Statuses]
      BY <1>status, <2>1 DEF Cancel
    <3>2. cancel' \in [Runs -> CancelSteps]
      BY <1>cancel, <2>1 DEF Cancel
    <3>3. UNCHANGED <<machineId, overdue, secret, token, dispatch, runner,
                      report, attempt, callback, events, reap, landed, reopened,
                      orphaned, unclosed>>
      BY <2>1 DEF Cancel
    <3>4. QED
      BY <3>1, <3>2, <3>3 DEF TypeOK
  <2>2. CASE CancelMachine(r)
    <3>1. runner' \in [Runs -> RunnerStates]
      BY <1>runner, <2>2 DEF CancelMachine, DestroyMachine
    <3>2. cancel' \in [Runs -> CancelSteps]
      BY <1>cancel, <2>2 DEF CancelMachine, DestroyMachine
    <3>3. UNCHANGED <<status, machineId, overdue, secret, token, dispatch,
                      report, attempt, callback, events, reap, landed, reopened,
                      orphaned, unclosed>>
      BY <2>2 DEF CancelMachine, DestroyMachine
    <3>4. QED
      BY <3>1, <3>2, <3>3 DEF TypeOK
  <2>3. CASE CancelSecrets(r)
    <3>1. secret' \in [Runs -> BOOLEAN]
      BY <1>secret, <2>3 DEF CancelSecrets, Deleted
    <3>2. token' \in [Runs -> BOOLEAN]
      BY <1>token, <2>3 DEF CancelSecrets, Deleted
    <3>3. cancel' \in [Runs -> CancelSteps]
      BY <1>cancel, <2>3 DEF CancelSecrets, Deleted
    <3>4. UNCHANGED <<status, machineId, overdue, dispatch, runner, report,
                      attempt, callback, events, reap, landed, reopened,
                      orphaned, unclosed>>
      BY <2>3 DEF CancelSecrets, Deleted
    <3>5. QED
      BY <3>1, <3>2, <3>3, <3>4 DEF TypeOK
  <2>4. CASE CancelCrash(r)
    <3>1. cancel' \in [Runs -> CancelSteps]
      BY <1>cancel, <2>4 DEF CancelCrash
    <3>2. UNCHANGED <<status, machineId, overdue, secret, token, dispatch,
                      runner, report, attempt, callback, events, reap, landed,
                      reopened, orphaned, unclosed>>
      BY <2>4 DEF CancelCrash
    <3>3. QED
      BY <3>1, <3>2 DEF TypeOK
  <2>5. QED
    BY <1>5, <2>1, <2>2, <2>3, <2>4 DEF CancelNext
<1>6. ASSUME NEW r \in Runs, ReaperNext(r) PROVE TypeOK'
  <2>1. CASE BecomeOverdue(r)
    <3>1. overdue' \in [Runs -> BOOLEAN]
      BY <1>overdue, <2>1 DEF BecomeOverdue
    <3>2. UNCHANGED <<status, machineId, secret, token, dispatch, runner,
                      report, attempt, callback, events, cancel, reap, landed,
                      reopened, orphaned, unclosed>>
      BY <2>1 DEF BecomeOverdue
    <3>3. QED
      BY <3>1, <3>2 DEF TypeOK
  <2>2. CASE ReapMark(r)
    <3>1. status' \in [Runs -> Statuses]
      BY <1>status, <2>2 DEF ReapMark
    <3>2. reap' \in [Runs -> ReapSteps]
      BY <1>reap, <2>2 DEF ReapMark
    <3>3. UNCHANGED <<machineId, overdue, secret, token, dispatch, runner,
                      report, attempt, callback, events, cancel, landed,
                      reopened, orphaned, unclosed>>
      BY <2>2 DEF ReapMark
    <3>4. QED
      BY <3>1, <3>2, <3>3 DEF TypeOK
  <2>3. CASE ReapMachine(r)
    <3>1. runner' \in [Runs -> RunnerStates]
      BY <1>runner, <2>3 DEF ReapMachine, DestroyMachine
    <3>2. reap' \in [Runs -> ReapSteps]
      BY <1>reap, <2>3 DEF ReapMachine, DestroyMachine
    <3>3. UNCHANGED <<status, machineId, overdue, secret, token, dispatch,
                      report, attempt, callback, events, cancel, landed,
                      reopened, orphaned, unclosed>>
      BY <2>3 DEF ReapMachine, DestroyMachine
    <3>4. QED
      BY <3>1, <3>2, <3>3 DEF TypeOK
  <2>4. CASE ReapSecrets(r)
    <3>1. secret' \in [Runs -> BOOLEAN]
      BY <1>secret, <2>4 DEF ReapSecrets, Deleted
    <3>2. token' \in [Runs -> BOOLEAN]
      BY <1>token, <2>4 DEF ReapSecrets, Deleted
    <3>3. reap' \in [Runs -> ReapSteps]
      BY <1>reap, <2>4 DEF ReapSecrets, Deleted
    <3>4. UNCHANGED <<status, machineId, overdue, dispatch, runner, report,
                      attempt, callback, events, cancel, landed, reopened,
                      orphaned, unclosed>>
      BY <2>4 DEF ReapSecrets, Deleted
    <3>5. QED
      BY <3>1, <3>2, <3>3, <3>4 DEF TypeOK
  <2>5. CASE ReapMarkFails(r)
    <3>1. status' \in [Runs -> Statuses]
      BY <1>status, <2>5 DEF ReapMarkFails
    <3>2. reap' \in [Runs -> ReapSteps]
      BY <1>reap, <2>5 DEF ReapMarkFails
    <3>3. UNCHANGED <<machineId, overdue, secret, token, dispatch, runner,
                      report, attempt, callback, events, cancel, landed,
                      reopened, orphaned, unclosed>>
      BY <2>5 DEF ReapMarkFails
    <3>4. QED
      BY <3>1, <3>2, <3>3 DEF TypeOK
  <2>6. QED
    BY <1>6, <2>1, <2>2, <2>3, <2>4, <2>5 DEF ReaperNext
<1>7. CASE Scan
  BY <1>7 DEF Scan, TypeOK
<1>8. CASE ReaperCrash
  BY <1>8 DEF ReaperCrash, TypeOK
<1>9. CASE UNCHANGED vars
  BY <1>9 DEF vars, TypeOK
<1>10. QED
  BY <1>1, <1>2, <1>3, <1>4, <1>5, <1>6, <1>7, <1>8, <1>9 DEF Next

\* The row, Vault, the machine and every handler of WorkerRun keep their types.
THEOREM TypeCorrect == Spec => []TypeOK
BY TypeInit, TypeStep, PTL DEF Spec
-----------------------------------------------------------------------------
(* The inductive invariant                                                 *)

\* The launching request stages and boots before a runner exists, the runner
\* posts nothing before it reports, and posts are numbered in order.
PreMachine == {"none", "preflight", "secret", "token", "machine"}

LaunchOrder ==
  \A r \in Runs :
    /\ status[r] = "absent" <=> dispatch[r] = "none"
    /\ dispatch[r] \in PreMachine => runner[r] = "none"
    /\ runner[r] \in {"none", "boot", "agent"} => attempt[r] = 0
    /\ runner[r] = "report" => attempt[r] # 0
    /\ attempt[r] = 0 <=> report[r] = "none"
    /\ \A a \in Attempts : callback[r][a] # "idle" => a <= attempt[r]

\* The write of one callback handler's step, read pointwise.
LEMMA CallbackUpdate ==
  ASSUME TypeOK, NEW r \in Runs, NEW a \in Attempts, NEW c,
         callback' = [callback EXCEPT ![r][a] = c]
  PROVE  \A q \in Runs, b \in Attempts :
           callback'[q][b] = IF q = r /\ b = a THEN c ELSE callback[q][b]
BY DEF TypeOK

\* Nothing is launched yet.
LEMMA LaunchOrderInit == Init => LaunchOrder
<1> SUFFICES ASSUME Init, NEW r \in Runs
             PROVE  LaunchOrder!(r)
  BY DEF LaunchOrder
<1>1. \A a \in Attempts : callback[r][a] = "idle"
  BY DEF Init
<1>2. QED
  BY <1>1 DEF Init, PreMachine

\* Any step of a callback handler moves its own post, which was sent before.
LEMMA CallbackStep ==
  ASSUME TypeOK, NEW r \in Runs, NEW a \in Attempts, CallbackNext(r, a)
  PROVE  /\ callback[r][a] # "idle"
         /\ \A q \in Runs, b \in Attempts :
              q # r \/ b # a => callback'[q][b] = callback[q][b]
         /\ UNCHANGED <<dispatch, runner, report, attempt>>
         /\ status[r] # "absent" => status'[r] # "absent"
         /\ \A q \in Runs : q # r => status'[q] = status[q]
         /\ status[r] = "absent" => status'[r] = "absent"
<1> USE DEF TypeOK
<1>1. CASE CallbackAuth(r, a)
  BY <1>1 DEF CallbackAuth
<1>2. CASE Claim(r, a)
  <2>1. callback[r][a] = "authed" /\ UNCHANGED <<dispatch, runner, report, attempt>>
    BY <1>2 DEF Claim
  <2>2. \/ UNCHANGED status
        \/ status' = [status EXCEPT ![r] = "pushing"] /\ status[r] \in NonTerminal
    BY <1>2 DEF Claim
  <2>3. \A q \in Runs, b \in Attempts :
          q # r \/ b # a => callback'[q][b] = callback[q][b]
    <3>1. \/ callback' = [callback EXCEPT ![r][a] = "claimed"]
          \/ callback' = [callback EXCEPT ![r][a] = "ok"]
      BY <1>2 DEF Claim
    <3>2. QED
      BY <3>1
  <2>4. /\ status[r] # "absent" => status'[r] # "absent"
        /\ \A q \in Runs : q # r => status'[q] = status[q]
        /\ status[r] = "absent" => status'[r] = "absent"
    BY <2>2
  <2>5. QED
    BY <2>1, <2>3, <2>4
<1>3. CASE Land(r, a)
  BY <1>3 DEF Land
<1>4. CASE Finish(r, a)
  BY <1>4 DEF Finish
<1>5. CASE Apply(r, a)
  BY <1>5 DEF Apply, FinalStatus
<1>6. CASE Cleanup(r, a)
  BY <1>6 DEF Cleanup
<1>7. CASE CallbackCrash(r, a)
  BY <1>7 DEF CallbackCrash
<1>8. QED
  BY <1>1, <1>2, <1>3, <1>4, <1>5, <1>6, <1>7 DEF CallbackNext

\* A callback handler reopens no run, and what failed in it stays on record until the run
\* is claimed anew.
LEMMA CallbackGhosts ==
  ASSUME TypeOK, NEW r \in Runs, NEW a \in Attempts, CallbackNext(r, a)
  PROVE  /\ UNCHANGED reopened
         /\ \A q \in Runs : q # r \/ status[q] = "pushing" =>
              (orphaned[q] => orphaned'[q]) /\ (unclosed[q] => unclosed'[q])
<1>1. orphaned \in [Runs -> BOOLEAN] /\ unclosed \in [Runs -> BOOLEAN]
  BY DEF TypeOK
<1>2. /\ UNCHANGED reopened
      /\ \/ \E new \in BOOLEAN : orphaned' = [orphaned EXCEPT ![r] = new]
         \/ UNCHANGED orphaned
      /\ \/ \E new \in BOOLEAN : unclosed' = [unclosed EXCEPT ![r] = new]
         \/ UNCHANGED unclosed
      /\ status[r] = "pushing" => /\ UNCHANGED orphaned
                                  /\ unclosed[r] => unclosed'[r]
  <2>1. CASE Claim(r, a)
    BY <2>1 DEF Claim
  <2>2. CASE Finish(r, a)
    BY <1>1, <2>2 DEF Finish
  <2>3. CASE CallbackAuth(r, a) \/ Land(r, a) \/ Apply(r, a) \/ Cleanup(r, a)
               \/ CallbackCrash(r, a)
    BY <2>3 DEF CallbackAuth, Land, Apply, Cleanup, CallbackCrash, ghosts
  <2> QED
    BY <2>1, <2>2, <2>3 DEF CallbackNext
<1>3. QED
  BY <1>1, <1>2

\* Every step keeps the order of the launch.
LEMMA LaunchOrderStep == TypeOK /\ LaunchOrder /\ [Next]_vars => LaunchOrder'
<1> SUFFICES ASSUME TypeOK, LaunchOrder, [Next]_vars PROVE LaunchOrder'
  OBVIOUS
<1> USE DEF TypeOK, LaunchOrder, PreMachine
<1>1. ASSUME NEW r \in Runs, DispatchNext(r) PROVE LaunchOrder'
  BY <1>1 DEF DispatchNext, CreateRun, Preflight, StageSecret, StageToken,
     CreateMachine, UnstageToken, MarkProvisioning, FailRun, DispatchCrash
<1>2. ASSUME NEW r \in Runs, RunnerNext(r) PROVE LaunchOrder'
  <2>1. CASE PostCallback(r)
    BY <2>1, MaxAttemptsAssumption DEF PostCallback, Attempts
  <2>2. CASE RetryCallback(r)
    <3>1. attempt[r] + 1 \in Attempts /\ attempt[r] \in Nat
      BY <2>2, MaxAttemptsAssumption DEF RetryCallback, Attempts
    <3>2. \A q \in Runs, b \in Attempts :
            callback'[q][b] = IF q = r /\ b = attempt[r] + 1 THEN "sent"
                              ELSE callback[q][b]
      BY <2>2, <3>1, CallbackUpdate DEF RetryCallback
    <3>3. /\ attempt' = [attempt EXCEPT ![r] = attempt[r] + 1]
          /\ runner[r] = "report"
          /\ UNCHANGED <<status, dispatch, runner, report>>
      BY <2>2 DEF RetryCallback
    <3>4. \A q \in Runs, b \in Attempts :
            callback'[q][b] # "idle" => b <= attempt'[q]
      <4>1. \A q \in Runs : attempt'[q] = IF q = r THEN attempt[r] + 1 ELSE attempt[q]
        BY <3>3
      <4>2. \A b \in Attempts : callback[r][b] # "idle" => b <= attempt[r] + 1
        BY <3>1 DEF Attempts
      <4>3. ASSUME NEW q \in Runs, NEW b \in Attempts, callback'[q][b] # "idle"
            PROVE  b <= attempt'[q]
        <5>1. CASE q = r /\ b = attempt[r] + 1
          BY <3>1, <4>1, <5>1
        <5>2. CASE ~(q = r /\ b = attempt[r] + 1)
          BY <3>2, <4>1, <4>2, <4>3, <5>2
        <5>3. QED
          BY <5>1, <5>2
      <4>4. QED
        BY <4>3
    <3>5. attempt[r] # 0
      BY <2>2, MaxAttemptsAssumption DEF RetryCallback
    <3>6. QED
      BY <3>1, <3>3, <3>4, <3>5
  <2>3. CASE FetchParams(r) \/ PostEvents(r) \/ RunnerExit(r) \/ RunnerDies(r)
    BY <2>3 DEF FetchParams, PostEvents, RunnerExit, RunnerDies
  <2>4. QED
    BY <1>2, <2>1, <2>2, <2>3 DEF RunnerNext
<1>3. ASSUME NEW r \in Runs, EventsNext(r) PROVE LaunchOrder'
  BY <1>3 DEF EventsNext, EventsAuth, EventsRead, EventsStart
<1>4. ASSUME NEW r \in Runs, NEW a \in Attempts, CallbackNext(r, a)
      PROVE  LaunchOrder'
  <2>1. /\ UNCHANGED <<dispatch, runner, report, attempt>>
        /\ \A q \in Runs : status[q] = "absent" <=> status'[q] = "absent"
    BY <1>4, CallbackStep
  <2>2. \A q \in Runs, b \in Attempts : callback'[q][b] # "idle" => callback[q][b] # "idle"
    <3>1. /\ callback[r][a] # "idle"
          /\ \A q \in Runs, b \in Attempts :
               q # r \/ b # a => callback'[q][b] = callback[q][b]
      BY <1>4, CallbackStep
    <3>2. ASSUME NEW q \in Runs, NEW b \in Attempts, callback'[q][b] # "idle"
          PROVE  callback[q][b] # "idle"
      <4>1. CASE q = r /\ b = a
        BY <3>1, <4>1
      <4>2. CASE q # r \/ b # a
        BY <3>1, <3>2, <4>2
      <4>3. QED
        BY <4>1, <4>2
    <3>3. QED
      BY <3>2
  <2>3. \A q \in Runs, b \in Attempts : callback'[q][b] # "idle" => b <= attempt'[q]
    BY <2>1, <2>2
  <2>4. SUFFICES ASSUME NEW q \in Runs PROVE LaunchOrder!(q)'
    BY DEF LaunchOrder
  <2>5. LaunchOrder!(q)
    OBVIOUS
  <2>6. QED
    BY <2>1, <2>3, <2>5
<1>5. ASSUME NEW r \in Runs, CancelNext(r) PROVE LaunchOrder'
  BY <1>5 DEF CancelNext, Cancel, CancelMachine, CancelSecrets, CancelCrash,
     DestroyMachine
<1>6. ASSUME NEW r \in Runs, ReaperNext(r) PROVE LaunchOrder'
  BY <1>6 DEF ReaperNext, BecomeOverdue, ReapMark, ReapMarkFails, ReapMachine, ReapSecrets,
     DestroyMachine
<1>7. CASE Scan \/ ReaperCrash \/ UNCHANGED vars
  BY <1>7 DEF Scan, ReaperCrash, vars
<1>8. QED
  BY <1>1, <1>2, <1>3, <1>4, <1>5, <1>6, <1>7 DEF Next

\* What every step outside the callback handlers may do to the state the handlers
\* share: a post is only ever added, nothing is pushed, and a claimed or ended run
\* is left so unless the launching request overwrites it.
OtherNext ==
  \/ \E r \in Runs : \/ DispatchNext(r) \/ RunnerNext(r) \/ EventsNext(r)
                     \/ CancelNext(r) \/ ReaperNext(r)
  \/ Scan
  \/ ReaperCrash
  \/ UNCHANGED vars

Untouched ==
  /\ UNCHANGED <<landed, orphaned, unclosed>>
  /\ \A q \in Runs, b \in Attempts :
       \/ callback'[q][b] = callback[q][b]
       \/ callback[q][b] = "idle" /\ callback'[q][b] = "sent"
  /\ \A q \in Runs :
       /\ status'[q] \in {"pushing", "completed"} => status'[q] = status[q]
       /\ reopened[q] => reopened'[q]
       /\ status[q] \in Terminal \cup {"pushing"} =>
            status'[q] \in Terminal \cup {"pushing"} \/ reopened'[q]
       /\ report'[q] = report[q] \/ report[q] = "none"

\* What is no step of a callback handler leaves the posts alone, or sends one.
LEMMA OtherStep ==
  ASSUME TypeOK, LaunchOrder, OtherNext PROVE Untouched
<1> USE DEF TypeOK, Untouched
<1>1. ASSUME NEW r \in Runs, DispatchNext(r) PROVE Untouched
  <2>1. CASE CreateRun(r)
    BY <2>1 DEF CreateRun
  <2>2. CASE MarkProvisioning(r)
    <3>1. UNCHANGED <<landed, callback, report, orphaned, unclosed>>
      BY <2>2 DEF MarkProvisioning
    <3>2. CASE UNCHANGED <<status, reopened>>
      BY <3>1, <3>2
    <3>3. CASE /\ status' = [status EXCEPT ![r] = "provisioning"]
               /\ reopened' = [reopened EXCEPT ![r] = reopened[r] \/ Overwrites(r)]
      <4>1. \A q \in Runs : q # r => status'[q] = status[q] /\ reopened'[q] = reopened[q]
        BY <3>3
      <4>2. status'[r] = "provisioning" /\ (reopened'[r] <=> reopened[r] \/ Overwrites(r))
        BY <3>3
      <4>3. QED
        BY <3>1, <4>1, <4>2 DEF Overwrites
    <3>4. QED
      BY <2>2, <3>2, <3>3 DEF MarkProvisioning
  <2>3. CASE FailRun(r)
    BY <2>3 DEF FailRun, Overwrites
  <2>4. CASE \/ Preflight(r) \/ StageSecret(r) \/ StageToken(r) \/ CreateMachine(r)
             \/ UnstageToken(r) \/ DispatchCrash(r)
    BY <2>4 DEF Preflight, StageSecret, StageToken, CreateMachine, UnstageToken,
       DispatchCrash
  <2>5. QED
    BY <1>1, <2>1, <2>2, <2>3, <2>4 DEF DispatchNext
<1>2. ASSUME NEW r \in Runs, RunnerNext(r) PROVE Untouched
  <2>1. CASE PostCallback(r)
    <3>1. 1 \in Attempts
      BY MaxAttemptsAssumption DEF Attempts
    <3>2. attempt[r] = 0
      BY <2>1 DEF PostCallback, LaunchOrder
    <3>3. callback[r][1] = "idle" /\ report[r] = "none"
      BY <3>1, <3>2 DEF LaunchOrder
    <3>4. \A q \in Runs, b \in Attempts :
            callback'[q][b] = IF q = r /\ b = 1 THEN "sent" ELSE callback[q][b]
      BY <2>1, <3>1, CallbackUpdate DEF PostCallback
    <3>5. \A q \in Runs : q # r => report'[q] = report[q]
      BY <2>1 DEF PostCallback
    <3>6. UNCHANGED <<landed, status, reopened, orphaned, unclosed>>
      BY <2>1 DEF PostCallback
    <3>7. QED
      BY <3>3, <3>4, <3>5, <3>6
  <2>2. CASE RetryCallback(r)
    <3>1. attempt[r] + 1 \in Attempts /\ ~(attempt[r] + 1 <= attempt[r])
      BY <2>2, MaxAttemptsAssumption DEF RetryCallback, Attempts
    <3>2. callback[r][attempt[r] + 1] = "idle"
      BY <3>1 DEF LaunchOrder
    <3>3. \A q \in Runs, b \in Attempts :
            callback'[q][b] = IF q = r /\ b = attempt[r] + 1 THEN "sent"
                              ELSE callback[q][b]
      BY <2>2, <3>1, CallbackUpdate DEF RetryCallback
    <3>4. UNCHANGED <<landed, status, reopened, orphaned, unclosed, report>>
      BY <2>2 DEF RetryCallback
    <3>5. QED
      BY <3>2, <3>3, <3>4
  <2>3. CASE FetchParams(r) \/ PostEvents(r) \/ RunnerExit(r) \/ RunnerDies(r)
    BY <2>3 DEF FetchParams, PostEvents, RunnerExit, RunnerDies
  <2>4. QED
    BY <1>2, <2>1, <2>2, <2>3 DEF RunnerNext
<1>3. ASSUME NEW r \in Runs, EventsNext(r) PROVE Untouched
  BY <1>3 DEF EventsNext, EventsAuth, EventsRead, EventsStart
<1>4. ASSUME NEW r \in Runs, CancelNext(r) PROVE Untouched
  BY <1>4 DEF CancelNext, Cancel, CancelMachine, CancelSecrets, CancelCrash
<1>5. ASSUME NEW r \in Runs, ReaperNext(r) PROVE Untouched
  BY <1>5 DEF ReaperNext, BecomeOverdue, ReapMark, ReapMarkFails, ReapMachine, ReapSecrets
<1>6. CASE Scan \/ ReaperCrash \/ UNCHANGED vars
  BY <1>6 DEF Scan, ReaperCrash, vars
<1>7. QED
  BY <1>1, <1>2, <1>3, <1>4, <1>5, <1>6 DEF OtherNext

\* Every step is a callback handler's step or another one.
LEMMA NextCases ==
  [Next]_vars =>
    OtherNext \/ \E r \in Runs, a \in Attempts : CallbackNext(r, a)
BY DEF Next, OtherNext

-----------------------------------------------------------------------------
(* A pushing run has its handler                                           *)

Owning == {"claimed", "landed", "unlanded", "dead"}

\* No run is pushing yet.
LEMMA OwnerInit == Init => PushingHasOwner
BY DEF Init, PushingHasOwner

\* A handler's own step never leaves behind a pushing run it has let go of, unless one
\* of its two updates failed.
LEMMA OwnerKept ==
  ASSUME TypeOK, NEW r \in Runs, NEW a \in Attempts, CallbackNext(r, a),
         status'[r] = "pushing", callback'[r][a] \notin Owning,
         ~orphaned'[r], ~unclosed'[r]
  PROVE  status[r] = "pushing" /\ callback[r][a] \notin Owning
<1> USE DEF TypeOK, Owning
<1>0. ASSUME NEW c, callback' = [callback EXCEPT ![r][a] = c]
      PROVE  callback'[r][a] = c
  BY <1>0
<1>1. CASE CallbackAuth(r, a)
  BY <1>1 DEF CallbackAuth
<1>2. CASE Claim(r, a)
  BY <1>0, <1>2 DEF Claim
<1>3. CASE Land(r, a)
  BY <1>0, <1>3 DEF Land
<1>4. CASE Finish(r, a)
  BY <1>4 DEF Finish
<1>5. CASE Apply(r, a)
  BY <1>5 DEF Apply, FinalStatus
<1>6. CASE Cleanup(r, a)
  BY <1>6 DEF Cleanup
<1>7. CASE CallbackCrash(r, a)
  BY <1>0, <1>7 DEF CallbackCrash
<1>8. QED
  BY <1>1, <1>2, <1>3, <1>4, <1>5, <1>6, <1>7 DEF CallbackNext

\* A run that is pushing stays with the handler that claimed it.
LEMMA OwnerStep ==
  TypeOK /\ LaunchOrder /\ PushingHasOwner /\ [Next]_vars => PushingHasOwner'
<1> SUFFICES ASSUME TypeOK, LaunchOrder, PushingHasOwner, [Next]_vars
             PROVE  PushingHasOwner'
  OBVIOUS
<1> USE DEF PushingHasOwner
<1>1. CASE OtherNext
  BY <1>1, OtherStep DEF Untouched
<1>2. ASSUME NEW r \in Runs, NEW a \in Attempts, CallbackNext(r, a)
      PROVE  PushingHasOwner'
  <2> SUFFICES ASSUME NEW q \in Runs, status'[q] = "pushing",
                      ~orphaned'[q], ~unclosed'[q]
               PROVE  \E b \in Attempts : callback'[q][b] \in Owning
    BY DEF Owning
  <2>0. q # r \/ status[q] = "pushing" => ~orphaned[q] /\ ~unclosed[q]
    BY <1>2, CallbackGhosts
  <2>1. CASE q # r
    BY <1>2, <2>0, <2>1, CallbackStep DEF Owning
  <2>2. CASE q = r /\ callback'[r][a] \in Owning
    BY <2>2
  <2>3. CASE q = r /\ callback'[r][a] \notin Owning
    <3>1. status[r] = "pushing" /\ callback[r][a] \notin Owning
      BY <1>2, <2>3, OwnerKept
    <3>2. PICK b \in Attempts : callback[r][b] \in Owning
      BY <2>0, <2>3, <3>1 DEF Owning
    <3>3. b # a
      BY <3>1, <3>2
    <3>4. QED
      BY <1>2, <2>3, <3>2, <3>3, CallbackStep
  <2>4. QED
    BY <2>1, <2>2, <2>3
<1>3. QED
  BY <1>1, <1>2, NextCases

\* A run shown as pushing always has a callback handler that will close it, or that was
\* killed, or one of the handler's two updates failed on it unnoticed.
THEOREM PushingOwned == Spec => []PushingHasOwner
BY TypeInit, TypeStep, LaunchOrderInit, LaunchOrderStep, OwnerInit, OwnerStep,
   PTL DEF Spec

-----------------------------------------------------------------------------
(* Changes are landed once                                                 *)

\* A run somebody claimed is pushing or over, and only one handler may still land
\* it: this is what excludes a second landing, and it fails for a run whose claim
\* the launching request wrote over.
Touched(r) ==
  \/ landed[r] > 0
  \/ \E a \in Attempts : callback[r][a] \in {"claimed", "landed", "unlanded"}

OneClaim ==
  \A r \in Runs : ~reopened[r] =>
    /\ Touched(r) => status[r] \in Terminal \cup {"pushing"}
    /\ landed[r] <= 1
    /\ \A a \in Attempts : callback[r][a] = "claimed" =>
         /\ landed[r] = 0
         /\ \A b \in Attempts : callback[r][b] = "claimed" => a = b

\* No run is claimed yet.
LEMMA OneClaimInit == Init => OneClaim
<1> SUFFICES ASSUME Init, NEW r \in Runs PROVE OneClaim!(r)
  BY DEF OneClaim
<1>1. \A a \in Attempts : callback[r][a] = "idle"
  BY DEF Init
<1>2. QED
  BY <1>1 DEF Init, Touched

\* A second claim needs the launching request to have overwritten the first.
LEMMA OneClaimStep ==
  TypeOK /\ LaunchOrder /\ OneClaim /\ [Next]_vars => OneClaim'
<1> SUFFICES ASSUME TypeOK, LaunchOrder, OneClaim, [Next]_vars PROVE OneClaim'
  OBVIOUS
<1> USE DEF TypeOK
<1>1. CASE OtherNext
  <2>1. Untouched
    BY <1>1, OtherStep
  <2>2. SUFFICES ASSUME NEW q \in Runs, ~reopened'[q] PROVE OneClaim!(q)'
    BY DEF OneClaim
  <2>3. OneClaim!(q)
    BY <2>1, <2>2 DEF Untouched, OneClaim
  <2>4. /\ Touched(q)' => Touched(q)
        /\ \A b \in Attempts : callback'[q][b] = "claimed" => callback[q][b] = "claimed"
    BY <2>1 DEF Touched, Untouched
  <2>5. QED
    BY <2>1, <2>2, <2>3, <2>4 DEF Untouched
<1>2. ASSUME NEW r \in Runs, NEW a \in Attempts, CallbackNext(r, a)
      PROVE  OneClaim'
  <2>1. SUFFICES ASSUME NEW q \in Runs, ~reopened'[q] PROVE OneClaim!(q)'
    BY DEF OneClaim
  <2>2. UNCHANGED reopened
    BY <1>2, CallbackGhosts
  <2>3. OneClaim!(q)
    BY <2>1, <2>2 DEF OneClaim
  <2>4. CASE q # r
    <3>1. landed'[q] = landed[q]
      BY <1>2, <2>4 DEF CallbackNext, CallbackAuth, Claim, Land, Finish, Apply,
         Cleanup, CallbackCrash
    <3>2. \A b \in Attempts : callback'[q][b] = callback[q][b]
      BY <1>2, <2>4, CallbackStep
    <3>3. status'[q] = status[q]
      BY <1>2, <2>4, CallbackStep
    <3>4. QED
      BY <2>1, <2>2, <2>3, <3>1, <3>2, <3>3 DEF Touched
  <2>5. CASE q = r
    <3>1. ASSUME NEW c, callback' = [callback EXCEPT ![r][a] = c]
          PROVE  \A b \in Attempts : callback'[r][b] = IF b = a THEN c ELSE callback[r][b]
      BY <3>1
    <3>2. CASE CallbackAuth(r, a) \/ Cleanup(r, a) \/ CallbackCrash(r, a)
      <4>1. UNCHANGED <<status, landed>>
        BY <3>2 DEF CallbackAuth, Cleanup, CallbackCrash
      <4>2. \E c \in {"authed", "denied", "ok", "dead"} :
              callback' = [callback EXCEPT ![r][a] = c]
        BY <3>2 DEF CallbackAuth, Cleanup, CallbackCrash
      <4>3. \A b \in Attempts :
              \/ callback'[r][b] = callback[r][b]
              \/ callback'[r][b] \in {"authed", "denied", "ok", "dead"}
        BY <3>1, <4>2
      <4>4. /\ Touched(r)' => Touched(r)
            /\ \A b \in Attempts :
                 callback'[r][b] = "claimed" => callback[r][b] = "claimed"
        BY <4>1, <4>3 DEF Touched
      <4>5. QED
        BY <2>1, <2>2, <2>3, <2>5, <4>1, <4>4
    <3>3. CASE Claim(r, a)
      <4>1. /\ landed' = landed
            /\ status'[r] = status[r] \/ status'[r] = "pushing"
        BY <3>3 DEF Claim
      <4>2. CASE callback' = [callback EXCEPT ![r][a] = "claimed"]
        <5>1. status[r] \in NonTerminal \ {"pushing"} /\ status'[r] = "pushing"
          BY <3>3, <4>2 DEF Claim
        <5>2. \A b \in Attempts :
                callback'[r][b] = IF b = a THEN "claimed" ELSE callback[r][b]
          BY <3>1, <4>2
        <5>3. ~reopened[r] => ~Touched(r)
          BY <2>3, <2>5, <5>1
        <5>4. CASE reopened[r]
          BY <2>1, <2>2, <2>5, <5>4
        <5>5. CASE ~reopened[r]
          <6>1. landed'[r] = 0 /\ \A b \in Attempts : callback[r][b] # "claimed"
            BY <4>1, <5>3, <5>5 DEF Touched
          <6>2. QED
            BY <2>5, <5>1, <5>2, <6>1
        <5>6. QED
          BY <5>4, <5>5
      <4>3. CASE callback' = [callback EXCEPT ![r][a] = "ok"]
        <5>1. \A b \in Attempts :
                callback'[r][b] = IF b = a THEN "ok" ELSE callback[r][b]
          BY <3>1, <4>3
        <5>2. /\ Touched(r)' => Touched(r)
              /\ \A b \in Attempts :
                   callback'[r][b] = "claimed" => callback[r][b] = "claimed"
          BY <4>1, <5>1 DEF Touched
        <5>3. QED
          BY <2>1, <2>2, <2>3, <2>5, <4>1, <5>2
      <4>4. QED
        BY <3>3, <4>2, <4>3 DEF Claim
    <3>4. CASE Land(r, a)
      <4>1. callback[r][a] = "claimed" /\ UNCHANGED status
        BY <3>4 DEF Land
      <4>2. \E c \in {"landed", "unlanded"} : callback' = [callback EXCEPT ![r][a] = c]
        BY <3>4, Zenon DEF Land
      <4>3. PICK c \in {"landed", "unlanded"} :
              \A b \in Attempts : callback'[r][b] = IF b = a THEN c ELSE callback[r][b]
        BY <3>1, <4>2
      <4>4. landed[r] = 0 /\ \A b \in Attempts : callback[r][b] = "claimed" => a = b
        BY <2>1, <2>2, <2>3, <2>5, <4>1
      <4>5. landed'[r] = landed[r] \/ landed'[r] = landed[r] + 1
        BY <3>4 DEF Land
      <4>6. status[r] \in Terminal \cup {"pushing"}
        BY <2>1, <2>2, <2>3, <2>5, <4>1 DEF Touched
      <4>7. \A b \in Attempts : callback'[r][b] # "claimed"
        BY <4>3, <4>4
      <4>8. QED
        BY <2>5, <4>1, <4>4, <4>5, <4>6, <4>7 DEF Touched
    <3>5. CASE Finish(r, a)
      BY <2>1, <2>2, <2>3, <2>5, <3>1, <3>5 DEF Finish, Touched
    <3>6. CASE Apply(r, a)
      BY <2>1, <2>2, <2>3, <2>5, <3>1, <3>6 DEF Apply, FinalStatus, Touched
    <3>7. QED
      BY <1>2, <3>2, <3>3, <3>4, <3>5, <3>6 DEF CallbackNext
  <2>6. QED
    BY <2>4, <2>5
<1>3. QED
  BY <1>1, <1>2, NextCases

\* One claim lands at most one branch.
LEMMA OneClaimLands == TypeOK /\ OneClaim => AtMostOneLanding
BY DEF TypeOK, OneClaim, AtMostOneLanding

\* The changes of one run are pushed at most once, however often its callback is
\* posted and whatever cancel, the reaper and the events do meanwhile.
THEOREM LandedOnce == Spec => []AtMostOneLanding
BY TypeInit, TypeStep, LaunchOrderInit, LaunchOrderStep, OneClaimInit,
   OneClaimStep, OneClaimLands, PTL DEF Spec

-----------------------------------------------------------------------------
(* Completed with changes means landed                                     *)

\* A handler believes a branch exists only when it does, and a run completes only
\* by what its runner reported.
LandedBranch ==
  /\ \A r \in Runs, a \in Attempts : callback[r][a] = "landed" => landed[r] > 0
  /\ \A r \in Runs : status[r] = "completed" => report[r] # "none"
  /\ CompletedHasBranch

\* No run is completed yet.
LEMMA LandedBranchInit == Init => LandedBranch
BY DEF Init, LandedBranch, CompletedHasBranch

\* Only a landed claim completes a run with changes.
LEMMA LandedBranchStep ==
  TypeOK /\ LaunchOrder /\ LandedBranch /\ [Next]_vars => LandedBranch'
<1> SUFFICES ASSUME TypeOK, LaunchOrder, LandedBranch, [Next]_vars
             PROVE  LandedBranch'
  OBVIOUS
<1> USE DEF TypeOK, LandedBranch, CompletedHasBranch
<1>1. CASE OtherNext
  <2>1. Untouched
    BY <1>1, OtherStep
  <2>2. \A q \in Runs, b \in Attempts : callback'[q][b] = "landed" => landed'[q] > 0
    <3>1. landed' = landed
      BY <2>1 DEF Untouched
    <3>2. \A q \in Runs, b \in Attempts :
            callback'[q][b] = "landed" => callback[q][b] = "landed"
      BY <2>1 DEF Untouched
    <3>3. QED
      BY <3>1, <3>2
  <2>3. \A q \in Runs : status'[q] = "completed" =>
          status[q] = "completed" /\ report'[q] = report[q] /\ landed'[q] = landed[q]
    BY <2>1 DEF Untouched
  <2>4. QED
    BY <2>2, <2>3
<1>2. ASSUME NEW r \in Runs, NEW a \in Attempts, CallbackNext(r, a)
      PROVE  LandedBranch'
  <2>1. UNCHANGED report
    BY <1>2, CallbackStep
  <2>2. callback[r][a] # "idle" => report[r] # "none"
    BY DEF LaunchOrder, Attempts
  <2>3. \A q \in Runs : landed[q] > 0 => landed'[q] > 0
    <3>1. CASE Land(r, a)
      <4>1. UNCHANGED landed \/ landed' = [landed EXCEPT ![r] = landed[r] + 1]
        BY <3>1, Zenon DEF Land
      <4>2. landed[r] \in Nat /\ landed[r] + 1 > 0
        OBVIOUS
      <4>3. CASE landed' = [landed EXCEPT ![r] = landed[r] + 1]
        <5>1. \A q \in Runs : landed'[q] = IF q = r THEN landed[r] + 1 ELSE landed[q]
          BY <4>3
        <5>2. QED
          BY <4>2, <5>1
      <4>4. QED
        BY <4>1, <4>3
    <3>2. CASE ~Land(r, a)
      BY <1>2, <3>2 DEF CallbackNext, CallbackAuth, Claim, Finish, Apply, Cleanup,
         CallbackCrash
    <3>3. QED
      BY <3>1, <3>2
  <2>4. callback'[r][a] = "landed" => landed'[r] > 0
    BY <1>2 DEF CallbackNext, CallbackAuth, Claim, Land, Finish, Apply, Cleanup,
       CallbackCrash
  <2>5. status'[r] = "completed" =>
          status[r] = "completed" \/ callback[r][a] = "landed" \/ report[r] # "changes"
    BY <1>2 DEF CallbackNext, CallbackAuth, Claim, Land, Finish, Apply, Cleanup,
       CallbackCrash
  <2>6. \A q \in Runs, b \in Attempts :
          callback'[q][b] = "landed" => landed'[q] > 0
    <3>1. ASSUME NEW q \in Runs, NEW b \in Attempts, q # r \/ b # a
          PROVE  callback'[q][b] = callback[q][b]
      BY <1>2, <3>1, CallbackStep
    <3>2. ASSUME NEW q \in Runs, NEW b \in Attempts, callback'[q][b] = "landed"
          PROVE  landed'[q] > 0
      <4>1. CASE q = r /\ b = a
        BY <2>4, <3>2, <4>1
      <4>2. CASE q # r \/ b # a
        <5>1. landed[q] > 0
          BY <3>1, <3>2, <4>2
        <5>2. QED
          BY <2>3, <5>1
      <4>3. QED
        BY <4>1, <4>2
    <3>3. QED
      BY <3>2
  <2>7. \A q \in Runs : status'[q] = "completed" =>
          report[q] # "none" /\ (report[q] = "changes" => landed'[q] > 0)
    <3>1. ASSUME NEW q \in Runs, q # r PROVE status'[q] = status[q]
      BY <1>2, <3>1, CallbackStep
    <3>2. callback[r][a] # "idle"
      BY <1>2, CallbackStep
    <3>3. QED
      BY <2>2, <2>3, <2>5, <3>1, <3>2
  <2>8. QED
    BY <2>1, <2>6, <2>7
<1>3. QED
  BY <1>1, <1>2, NextCases

\* No run with changed files is shown as completed without a pushed branch, even
\* when its claim was written over and two handlers worked on it.
THEOREM CompletedMeansLanded == Spec => []CompletedHasBranch
<1>1. LandedBranch => CompletedHasBranch
  BY DEF LandedBranch
<1>2. QED
  BY <1>1, TypeInit, TypeStep, LaunchOrderInit, LaunchOrderStep,
     LandedBranchInit, LandedBranchStep, PTL DEF Spec

-----------------------------------------------------------------------------
(* A live run keeps its credential                                         *)

\* Over means that the run ended at some time, or was to end by an update that failed.
\* The secret is staged before the machine exists, and only handlers that ended the run,
\* or believe so, go on to delete it.
Over(r) ==
  status[r] \in Terminal \/ reopened[r] \/ (status[r] = "pushing" /\ unclosed[r])

SecretStaged ==
  \A r \in Runs :
    /\ runner[r] # "none" \/ dispatch[r] \in {"token", "machine"} => secret[r] \/ Over(r)
    /\ cancel[r] # "idle" \/ reap[r] \in {"machine", "secrets"} => Over(r)
    /\ \A a \in Attempts : callback[r][a] = "cleanup" => Over(r)

\* There is no runner yet.
LEMMA SecretStagedInit == Init => SecretStaged
<1> SUFFICES ASSUME Init, NEW r \in Runs PROVE SecretStaged!(r)
  BY DEF SecretStaged
<1>1. \A a \in Attempts : callback[r][a] = "idle"
  BY DEF Init
<1>2. QED
  BY <1>1 DEF Init

\* Over is for good.
LEMMA OverKept ==
  TypeOK /\ LaunchOrder /\ [Next]_vars => \A q \in Runs : Over(q) => Over(q)'
<1> SUFFICES ASSUME TypeOK, LaunchOrder, [Next]_vars, NEW q \in Runs, Over(q)
             PROVE  Over(q)'
  OBVIOUS
<1>1. CASE OtherNext
  <2>1. Untouched
    BY <1>1, OtherStep
  <2>2. QED
    BY <2>1 DEF Untouched, Over
<1>2. ASSUME NEW r \in Runs, NEW a \in Attempts, CallbackNext(r, a)
      PROVE  Over(q)'
  <2>1. UNCHANGED reopened /\ (status[q] = "pushing" /\ unclosed[q] => unclosed'[q])
    BY <1>2, CallbackGhosts
  <2>2. status[q] \in Terminal => status'[q] = status[q]
    BY <1>2 DEF CallbackNext, CallbackAuth, Claim, Land, Finish, Apply, Cleanup,
       CallbackCrash, TypeOK
  <2>3. status[q] = "pushing" => status'[q] \in Terminal \cup {"pushing"}
    BY <1>2 DEF CallbackNext, CallbackAuth, Claim, Land, Finish, Apply, FinalStatus,
       Cleanup, CallbackCrash, TypeOK
  <2>4. QED
    BY <2>1, <2>2, <2>3 DEF Over
<1>3. QED
  BY <1>1, <1>2, NextCases

\* The secret of a live run is deleted by nobody but the handlers that end the run.
LEMMA SecretStagedStep ==
  TypeOK /\ LaunchOrder /\ OneClaim /\ SecretStaged /\ [Next]_vars => SecretStaged'
<1> SUFFICES ASSUME TypeOK, LaunchOrder, OneClaim, SecretStaged, [Next]_vars
             PROVE  SecretStaged'
  OBVIOUS
<1> DEFINE Live(q) == runner[q] # "none" \/ dispatch[q] \in {"token", "machine"}
           Ending(q) == cancel[q] # "idle" \/ reap[q] \in {"machine", "secrets"}
           Cleans(q) == \E a \in Attempts : callback[q][a] = "cleanup"
<1>0. \A q \in Runs : Over(q) => Over(q)'
  BY OverKept
<1> SUFFICES \A q \in Runs : ~Over(q)' =>
               /\ Live(q)' => secret'[q]
               /\ ~Ending(q)'
               /\ ~Cleans(q)'
  BY DEF SecretStaged
<1>01. \A q \in Runs : ~Over(q)' =>
         /\ Live(q) => secret[q]
         /\ ~Ending(q)
         /\ ~Cleans(q)
  BY <1>0 DEF SecretStaged
<1>1. ASSUME NEW r \in Runs, DispatchNext(r)
      PROVE  \A q \in Runs : ~Over(q)' =>
               (Live(q)' => secret'[q]) /\ ~Ending(q)' /\ ~Cleans(q)'
  <2>1. UNCHANGED <<cancel, reap, callback>>
    BY <1>1 DEF DispatchNext, CreateRun, Preflight, StageSecret, StageToken,
       CreateMachine, UnstageToken, MarkProvisioning, FailRun, DispatchCrash
  <2>2. \A q \in Runs : Live(q)' => Live(q) \/ secret'[q]
    BY <1>1 DEF DispatchNext, CreateRun, Preflight, StageSecret, StageToken, TypeOK,
       CreateMachine, UnstageToken, MarkProvisioning, FailRun, DispatchCrash
  <2>3. \A q \in Runs : secret[q] => secret'[q]
    <3>1. UNCHANGED secret \/ secret' = [secret EXCEPT ![r] = TRUE]
      <4>1. CASE StageSecret(r)
        BY <4>1 DEF StageSecret
      <4>2. CASE ~StageSecret(r)
        BY <1>1, <4>2 DEF DispatchNext, CreateRun, Preflight, StageToken,
           CreateMachine, UnstageToken, MarkProvisioning, FailRun, DispatchCrash
      <4>3. QED
        BY <4>1, <4>2
    <3>2. secret \in [Runs -> BOOLEAN]
      BY DEF TypeOK
    <3>3. QED
      BY <3>1, <3>2
  <2>4. QED
    BY <1>01, <2>1, <2>2, <2>3
<1>2. ASSUME NEW r \in Runs, RunnerNext(r)
      PROVE  \A q \in Runs : ~Over(q)' =>
               (Live(q)' => secret'[q]) /\ ~Ending(q)' /\ ~Cleans(q)'
  <2>1. UNCHANGED <<cancel, reap, dispatch, secret>>
    BY <1>2 DEF RunnerNext, FetchParams, PostEvents, PostCallback, RetryCallback,
       RunnerExit, RunnerDies
  <2>2. \A q \in Runs : Live(q)' => Live(q)
    BY <1>2 DEF RunnerNext, FetchParams, PostEvents, PostCallback, RetryCallback,
       RunnerExit, RunnerDies, TypeOK
  <2>3. \A q \in Runs : Cleans(q)' => Cleans(q)
    BY <1>2, OtherStep DEF OtherNext, Untouched
  <2>4. QED
    BY <1>01, <2>1, <2>2, <2>3
<1>3. ASSUME NEW r \in Runs, EventsNext(r)
      PROVE  \A q \in Runs : ~Over(q)' =>
               (Live(q)' => secret'[q]) /\ ~Ending(q)' /\ ~Cleans(q)'
  BY <1>01, <1>3 DEF EventsNext, EventsAuth, EventsRead, EventsStart
<1>4. ASSUME NEW r \in Runs, NEW a \in Attempts, CallbackNext(r, a)
      PROVE  \A q \in Runs : ~Over(q)' =>
               (Live(q)' => secret'[q]) /\ ~Ending(q)' /\ ~Cleans(q)'
  <2>1. UNCHANGED <<cancel, reap, dispatch, runner>>
    BY <1>4 DEF CallbackNext, CallbackAuth, Claim, Land, Finish, Apply, Cleanup,
       CallbackCrash
  <2>2. \A q \in Runs : ~Over(q)' => secret'[q] = secret[q]
    <3>1. CASE Cleanup(r, a)
      BY <1>01, <3>1 DEF Cleanup, Deleted, TypeOK
    <3>2. CASE ~Cleanup(r, a)
      BY <1>4, <3>2 DEF CallbackNext, CallbackAuth, Claim, Land, Finish, Apply,
         CallbackCrash
    <3>3. QED
      BY <3>1, <3>2
  <2>3. callback'[r][a] = "cleanup" => Over(r)'
    <3>1. CASE Finish(r, a)
      <4>1. status[r] \in Terminal \cup {"pushing"} \/ reopened[r]
        BY <3>1 DEF Finish, OneClaim, Touched
      <4>2. CASE status[r] = "pushing"
        <5>1. status'[r] \in {"completed", "failed"} \/ (status'[r] = "pushing" /\ unclosed'[r])
          BY <3>1, <4>2 DEF Finish, TypeOK
        <5>2. QED
          BY <5>1 DEF Over
      <4>3. CASE status[r] # "pushing"
        BY <3>1, <4>1, <4>3 DEF Finish, Over
      <4>4. QED
        BY <4>2, <4>3
    <3>2. CASE Apply(r, a)
      <4>1. FinalStatus[report[r]] \in Terminal
        BY <3>2 DEF Apply, FinalStatus
      <4>2. QED
        BY <3>2, <4>1 DEF Apply, Over, TypeOK
    <3>3. CASE ~Finish(r, a) /\ ~Apply(r, a)
      <4>1. callback'[r][a] # "cleanup"
        BY <1>4, <3>3 DEF CallbackNext, CallbackAuth, Claim, Land, Cleanup,
           CallbackCrash, TypeOK
      <4>2. QED
        BY <4>1
    <3>4. QED
      BY <3>1, <3>2, <3>3
  <2>4. \A q \in Runs : Cleans(q)' => Cleans(q) \/ Over(q)'
    <3>1. \A q \in Runs, b \in Attempts :
            q # r \/ b # a => callback'[q][b] = callback[q][b]
      BY <1>4, CallbackStep
    <3>2. QED
      BY <2>3, <3>1
  <2>5. QED
    BY <1>01, <2>1, <2>2, <2>4
<1>5. ASSUME NEW r \in Runs, CancelNext(r)
      PROVE  \A q \in Runs : ~Over(q)' =>
               (Live(q)' => secret'[q]) /\ ~Ending(q)' /\ ~Cleans(q)'
  <2>1. UNCHANGED <<reap, dispatch, callback>>
    BY <1>5 DEF CancelNext, Cancel, CancelMachine, CancelSecrets, CancelCrash
  <2>2. \A q \in Runs : Live(q)' => Live(q)
    BY <1>5, <2>1 DEF CancelNext, Cancel, CancelMachine, CancelSecrets, CancelCrash,
       DestroyMachine, TypeOK
  <2>3. \A q \in Runs : ~Over(q)' => cancel'[q] = "idle" /\ secret'[q] = secret[q]
    <3>1. CASE Cancel(r)
      BY <1>01, <3>1 DEF Cancel, Over, TypeOK
    <3>2. CASE CancelMachine(r) \/ CancelSecrets(r) \/ CancelCrash(r)
      BY <1>01, <3>2 DEF CancelMachine, CancelSecrets, CancelCrash, Deleted, TypeOK
    <3>3. QED
      BY <1>5, <3>1, <3>2 DEF CancelNext
  <2>4. QED
    BY <1>01, <2>1, <2>2, <2>3
<1>6. ASSUME NEW r \in Runs, ReaperNext(r)
      PROVE  \A q \in Runs : ~Over(q)' =>
               (Live(q)' => secret'[q]) /\ ~Ending(q)' /\ ~Cleans(q)'
  <2>1. UNCHANGED <<cancel, dispatch, callback>>
    BY <1>6 DEF ReaperNext, BecomeOverdue, ReapMark, ReapMarkFails, ReapMachine, ReapSecrets
  <2>2. \A q \in Runs : Live(q)' => Live(q)
    BY <1>6, <2>1 DEF ReaperNext, BecomeOverdue, ReapMark, ReapMarkFails, ReapMachine, ReapSecrets,
       DestroyMachine, TypeOK
  <2>3. \A q \in Runs : ~Over(q)' =>
          reap'[q] \notin {"machine", "secrets"} /\ secret'[q] = secret[q]
    <3>1. CASE ReapMark(r) \/ ReapMarkFails(r)
      BY <1>01, <3>1 DEF ReapMark, ReapMarkFails, Over, TypeOK
    <3>2. CASE BecomeOverdue(r) \/ ReapMachine(r) \/ ReapSecrets(r)
      BY <1>01, <3>2 DEF BecomeOverdue, ReapMachine, ReapSecrets, Deleted, TypeOK
    <3>3. QED
      BY <1>6, <3>1, <3>2 DEF ReaperNext
  <2>4. QED
    BY <1>01, <2>1, <2>2, <2>3
<1>7. CASE Scan \/ ReaperCrash \/ UNCHANGED vars
  BY <1>01, <1>7 DEF Scan, ReaperCrash, vars
<1>8. QED
  BY <1>1, <1>2, <1>3, <1>4, <1>5, <1>6, <1>7 DEF Next

\* A staged secret is a secret the runner can report with.
LEMMA SecretStagedReports == TypeOK /\ SecretStaged => LiveRunCanReport
BY DEF SecretStaged, LiveRunCanReport, Over, TypeOK

\* The runner of a run that has not ended can authenticate its callback: no cleanup,
\* cancel or reaper takes the secret from a live run, but for the two failures of an
\* update that the statement names.
THEOREM LiveRunReports == Spec => []LiveRunCanReport
BY TypeInit, TypeStep, LaunchOrderInit, LaunchOrderStep, OneClaimInit,
   OneClaimStep, SecretStagedInit, SecretStagedStep, SecretStagedReports,
   PTL DEF Spec

-----------------------------------------------------------------------------
(* The row implements the abstract lifecycle                               *)

USE DEF Lifecycle!Statuses, Lifecycle!NonTerminal, Lifecycle!Terminal

\* The first states are first states of the lifecycle.
LEMMA LifecycleInit == Init => Lifecycle!Init
<1> SUFFICES ASSUME Init PROVE Lifecycle!Init
  OBVIOUS
<1>1. \A q \in Runs : (dispatch[q] \notin {"none", "done"}) = FALSE
  BY DEF Init
<1>2. [q \in Runs |-> dispatch[q] \notin {"none", "done"}] = [q \in Runs |-> FALSE]
  BY <1>1
<1>3. QED
  BY <1>2 DEF Init, Lifecycle!Init

\* A guarded write by a callback, an event, cancel or the reaper moves the status
\* of one run up.
LEMMA Advanced ==
  ASSUME TypeOK, NEW r \in Runs, NEW s \in Statuses, UNCHANGED dispatch,
         status' = [status EXCEPT ![r] = s], status[r] \in NonTerminal,
         Lifecycle!Rank[s] > Lifecycle!Rank[status[r]]
  PROVE  Lifecycle!Advance(r)
BY DEF Lifecycle!Advance

\* A step of the launching request opens or closes its run, and no other.
LEMMA Opened ==
  ASSUME TypeOK, NEW r \in Runs, NEW d, dispatch' = [dispatch EXCEPT ![r] = d]
  PROVE  \E goes \in BOOLEAN :
           [q \in Runs |-> dispatch'[q] \notin {"none", "done"}] =
             [[q \in Runs |-> dispatch[q] \notin {"none", "done"}] EXCEPT ![r] = goes]
<1> DEFINE goes == d \notin {"none", "done"}
           before == [q \in Runs |-> dispatch[q] \notin {"none", "done"}]
           after == [q \in Runs |-> dispatch'[q] \notin {"none", "done"}]
<1>1. \A q \in Runs : after[q] = IF q = r THEN goes ELSE before[q]
  BY DEF TypeOK
<1>2. after = [before EXCEPT ![r] = goes]
  BY <1>1
<1>3. goes \in BOOLEAN
  OBVIOUS
<1>4. QED
  BY <1>2, <1>3

\* A row that no step touches stutters.
LEMMA Kept ==
  ASSUME UNCHANGED <<status, dispatch>> PROVE UNCHANGED Lifecycle!vars
BY DEF Lifecycle!vars

\* Every step is a step of the lifecycle, or leaves the row alone.
LEMMA LifecycleStep ==
  TypeOK /\ LaunchOrder /\ [Next]_vars => [Lifecycle!Next]_(Lifecycle!vars)
<1> SUFFICES ASSUME TypeOK, LaunchOrder, [Next]_vars
             PROVE  Lifecycle!Next \/ UNCHANGED Lifecycle!vars
  OBVIOUS
<1> USE DEF TypeOK
<1>0. /\ Lifecycle!Rank["queued"] = 1 /\ Lifecycle!Rank["provisioning"] = 2
      /\ Lifecycle!Rank["running"] = 3 /\ Lifecycle!Rank["pushing"] = 4
      /\ \A s \in Terminal : Lifecycle!Rank[s] = 5
  BY DEF Lifecycle!Rank
<1>1. ASSUME NEW r \in Runs, DispatchNext(r)
      PROVE  Lifecycle!Next \/ UNCHANGED Lifecycle!vars
  <2> SUFFICES Lifecycle!Launch(r) \/ Lifecycle!Close(r) \/ UNCHANGED Lifecycle!vars
    BY DEF Lifecycle!Next
  <2>1. CASE CreateRun(r)
    <3>1. dispatch[r] = "none" /\ status[r] = "absent"
          /\ status' = [status EXCEPT ![r] = "queued"]
      BY <2>1 DEF CreateRun, LaunchOrder
    <3>2. \E goes \in BOOLEAN :
            [q \in Runs |-> dispatch'[q] \notin {"none", "done"}] =
              [[q \in Runs |-> dispatch[q] \notin {"none", "done"}] EXCEPT ![r] = goes]
      BY <2>1, Opened DEF CreateRun
    <3>3. QED
      BY <3>1, <3>2 DEF Lifecycle!Launch
  <2>2. CASE Preflight(r) \/ StageSecret(r) \/ StageToken(r) \/ CreateMachine(r)
             \/ UnstageToken(r)
    <3>1. UNCHANGED status
      BY <2>2 DEF Preflight, StageSecret, StageToken, CreateMachine, UnstageToken
    <3>2. \A q \in Runs :
            (dispatch'[q] \notin {"none", "done"}) = (dispatch[q] \notin {"none", "done"})
      BY <2>2 DEF Preflight, StageSecret, StageToken, CreateMachine, UnstageToken
    <3>3. QED
      BY <3>1, <3>2 DEF Lifecycle!vars
  <2>3. CASE MarkProvisioning(r)
    <3>1. CASE status' = [status EXCEPT ![r] = "provisioning"]
      <4>1. dispatch[r] = "mark"
        BY <2>3 DEF MarkProvisioning
      <4>2. \E goes \in BOOLEAN :
              [q \in Runs |-> dispatch'[q] \notin {"none", "done"}] =
                [[q \in Runs |-> dispatch[q] \notin {"none", "done"}] EXCEPT ![r] = goes]
        BY <2>3, Opened DEF MarkProvisioning
      <4>3. QED
        BY <3>1, <4>1, <4>2 DEF Lifecycle!Close
    <3>2. CASE UNCHANGED status
      <4>1. \/ dispatch' = [dispatch EXCEPT ![r] = "fail"]
            \/ dispatch' = [dispatch EXCEPT ![r] = "done"]
        BY <2>3 DEF MarkProvisioning
      <4>2. dispatch[r] = "mark"
        BY <2>3 DEF MarkProvisioning
      <4>3. CASE dispatch' = [dispatch EXCEPT ![r] = "fail"]
        BY <3>2, <4>2, <4>3 DEF Lifecycle!vars
      <4>4. CASE dispatch' = [dispatch EXCEPT ![r] = "done"]
        BY <3>2, <4>2, <4>4 DEF Lifecycle!Close
      <4>5. QED
        BY <4>1, <4>3, <4>4
    <3>3. QED
      BY <2>3, <3>1, <3>2 DEF MarkProvisioning
  <2>4. CASE FailRun(r)
    <3>1. dispatch[r] = "fail" /\ dispatch' = [dispatch EXCEPT ![r] = "done"]
      BY <2>4 DEF FailRun
    <3>2. status' = [status EXCEPT ![r] = "failed"] \/ status' = [status EXCEPT ![r] = status[r]]
      BY <2>4 DEF FailRun
    <3>3. QED
      BY <3>1, <3>2 DEF Lifecycle!Close
  <2>5. CASE DispatchCrash(r)
    BY <2>5 DEF DispatchCrash, Lifecycle!Close
  <2>6. QED
    BY <1>1, <2>1, <2>2, <2>3, <2>4, <2>5 DEF DispatchNext
<1>2. ASSUME NEW r \in Runs, RunnerNext(r)
      PROVE  Lifecycle!Next \/ UNCHANGED Lifecycle!vars
  BY <1>2, Kept DEF RunnerNext, FetchParams, PostEvents, PostCallback, RetryCallback,
     RunnerExit, RunnerDies
<1>3. ASSUME NEW r \in Runs, EventsNext(r)
      PROVE  Lifecycle!Next \/ UNCHANGED Lifecycle!vars
  <2>1. CASE UNCHANGED <<status, dispatch>>
    BY <2>1, Kept
  <2>2. CASE /\ status[r] \in {"queued", "provisioning"}
             /\ status' = [status EXCEPT ![r] = "running"]
             /\ UNCHANGED dispatch
    <3>1. Lifecycle!Rank["running"] > Lifecycle!Rank[status[r]]
      BY <1>0, <2>2
    <3>2. Lifecycle!Advance(r)
      BY <2>2, <3>1, Advanced
    <3>3. QED
      BY <3>2 DEF Lifecycle!Next
  <2>3. QED
    BY <1>3, <2>1, <2>2 DEF EventsNext, EventsAuth, EventsRead, EventsStart
<1>4. ASSUME NEW r \in Runs, NEW a \in Attempts, CallbackNext(r, a)
      PROVE  Lifecycle!Next \/ UNCHANGED Lifecycle!vars
  <2>1. CASE UNCHANGED <<status, dispatch>>
    BY <2>1, Kept
  <2>2. ASSUME NEW s \in Terminal \cup {"pushing"}, UNCHANGED dispatch,
               status' = [status EXCEPT ![r] = s], status[r] \in NonTerminal,
               s = "pushing" => status[r] # "pushing"
        PROVE  Lifecycle!Next \/ UNCHANGED Lifecycle!vars
    <3>1. Lifecycle!Rank[s] > Lifecycle!Rank[status[r]]
      BY <1>0, <2>2
    <3>2. Lifecycle!Advance(r)
      BY <2>2, <3>1, Advanced
    <3>3. QED
      BY <3>2 DEF Lifecycle!Next
  <2>3. CASE Claim(r, a)
    BY <2>1, <2>2, <2>3 DEF Claim
  <2>4. CASE Finish(r, a)
    BY <2>1, <2>2, <2>4 DEF Finish
  <2>5. CASE Apply(r, a)
    <3>1. FinalStatus[report[r]] \in Terminal
      BY <2>5 DEF Apply, FinalStatus
    <3>2. QED
      BY <2>1, <2>2, <2>5, <3>1 DEF Apply
  <2>6. CASE CallbackAuth(r, a) \/ Land(r, a) \/ Cleanup(r, a) \/ CallbackCrash(r, a)
    BY <2>1, <2>6 DEF CallbackAuth, Land, Cleanup, CallbackCrash
  <2>7. QED
    BY <1>4, <2>3, <2>4, <2>5, <2>6 DEF CallbackNext
<1>5. ASSUME NEW r \in Runs, NEW s \in {"cancelled", "timed_out"}, UNCHANGED dispatch,
             status' = [status EXCEPT ![r] = s], status[r] \in NonTerminal
      PROVE  Lifecycle!Next \/ UNCHANGED Lifecycle!vars
  <2>1. Lifecycle!Rank[s] > Lifecycle!Rank[status[r]]
    BY <1>0, <1>5
  <2>2. Lifecycle!Advance(r)
    BY <1>5, <2>1, Advanced
  <2>3. QED
    BY <2>2 DEF Lifecycle!Next
<1>6. ASSUME NEW r \in Runs, CancelNext(r) \/ ReaperNext(r)
      PROVE  Lifecycle!Next \/ UNCHANGED Lifecycle!vars
  <2>1. CASE Cancel(r)
    BY <1>5, <2>1 DEF Cancel
  <2>2. CASE ReapMark(r)
    BY <1>5, <2>2, Kept DEF ReapMark
  <2>3. CASE ReapMarkFails(r)
    BY <1>5, <2>3, Kept DEF ReapMarkFails
  <2>4. CASE ~Cancel(r) /\ ~ReapMark(r) /\ ~ReapMarkFails(r)
    BY <1>6, <2>4, Kept DEF CancelNext, CancelMachine, CancelSecrets, CancelCrash,
       ReaperNext, BecomeOverdue, ReapMachine, ReapSecrets
  <2>5. QED
    BY <2>1, <2>2, <2>3, <2>4
<1>7. CASE Scan \/ ReaperCrash \/ UNCHANGED vars
  BY <1>7, Kept DEF Scan, ReaperCrash, vars
<1>8. QED
  BY <1>1, <1>2, <1>3, <1>4, <1>6, <1>7 DEF Next

\* The row's status implements RunLifecycle: it moves forward only and a terminal
\* status is final, except for the one closing write of the launching request.
THEOREM Refinement == Spec => LifecycleSpec
BY TypeInit, TypeStep, LaunchOrderInit, LaunchOrderStep, LifecycleInit,
   LifecycleStep, PTL DEF Spec, LifecycleSpec, Lifecycle!Spec

\* "Terminal states: once reached, no transition may leave them" holds from the moment
\* the launching request has finished writing.
FinalOnceLaunched ==
  [][\A r \in Runs :
       status[r] \in Terminal /\ dispatch[r] = "done" => status'[r] = status[r]]_status

\* types.ts: what TerminalIsFinal says of every run is true of those whose launch is over.
THEOREM TerminalFinal == Spec => FinalOnceLaunched
<1>1. TypeOK /\ LaunchOrder /\ [Next]_vars =>
        [\A r \in Runs :
           status[r] \in Terminal /\ dispatch[r] = "done" => status'[r] = status[r]]_status
  <2> SUFFICES ASSUME TypeOK, LaunchOrder, [Next]_vars, NEW r \in Runs,
                      status[r] \in Terminal, dispatch[r] = "done"
               PROVE  status'[r] = status[r]
    OBVIOUS
  <2>1. [Lifecycle!Next]_(Lifecycle!vars)
    BY LifecycleStep
  <2>2. CASE UNCHANGED Lifecycle!vars
    BY <2>2 DEF Lifecycle!vars
  <2>3. ASSUME NEW q \in Runs, Lifecycle!Launch(q) \/ Lifecycle!Close(q) \/ Lifecycle!Advance(q)
        PROVE  status'[r] = status[r]
    <3>1. q # r
      BY <2>3 DEF Lifecycle!Launch, Lifecycle!Close, Lifecycle!Advance, Terminal,
         Lifecycle!NonTerminal
    <3>2. \E s : status' = [status EXCEPT ![q] = s]
      BY <2>3 DEF Lifecycle!Launch, Lifecycle!Close, Lifecycle!Advance
    <3>3. QED
      BY <3>1, <3>2 DEF TypeOK
  <2>4. QED
    BY <2>1, <2>2, <2>3 DEF Lifecycle!Next
<1>2. QED
  BY <1>1, TypeInit, TypeStep, LaunchOrderInit, LaunchOrderStep, PTL
     DEF Spec, FinalOnceLaunched

-----------------------------------------------------------------------------
(* Vault after the run                                                     *)

\* The launching request stages the bearer, then the token, and without faults it does
\* not fail afterwards.
StagedInOrder ==
  \A r \in Runs :
    /\ dispatch[r] \in {"none", "preflight", "secret", "fail"} => ~secret[r]
    /\ dispatch[r] \in {"none", "preflight", "secret", "token", "fail"} => ~token[r]
    /\ dispatch[r] # "untoken"

Tidy == StagedInOrder /\ VaultIsCleaned

\* Nothing is staged yet.
LEMMA TidyInit == Init => Tidy
<1> SUFFICES ASSUME Init, NEW r \in Runs
             PROVE  ~secret[r] /\ ~token[r] /\ dispatch[r] # "untoken"
  BY DEF Tidy, StagedInOrder, VaultIsCleaned
<1>1. QED
  BY DEF Init

\* Without faults a deletion succeeds.
LEMMA DeletedWithoutFaults ==
  ASSUME Faults = {}, NEW entry, NEW r PROVE Deleted(entry, r) = {[entry EXCEPT ![r] = FALSE]}
BY DEF Deleted

\* What keeps Vault tidy: outside the launching request nothing is staged, and who ends
\* a run or stops tidying has its entries gone, or is at work on them.
LEMMA TidyAside ==
  ASSUME Tidy, UNCHANGED dispatch,
         \A q \in Runs : (secret'[q] => secret[q]) /\ (token'[q] => token[q]),
         \A q \in Runs :
           \/ status'[q] \in Terminal => status[q] \in Terminal /\ (Tidying(q) => Tidying(q)')
           \/ Tidying(q)'
           \/ ~secret'[q] /\ ~token'[q]
  PROVE  Tidy'
<1>1. StagedInOrder'
  BY DEF Tidy, StagedInOrder
<1>2. VaultIsCleaned'
  BY DEF Tidy, VaultIsCleaned
<1>3. QED
  BY <1>1, <1>2 DEF Tidy

\* Both entries of a run are deleted.
LEMMA BothDeleted ==
  ASSUME TypeOK, NEW r \in Runs,
         secret' = [secret EXCEPT ![r] = FALSE], token' = [token EXCEPT ![r] = FALSE]
  PROVE  /\ ~secret'[r] /\ ~token'[r]
         /\ \A q \in Runs : (secret'[q] => secret[q]) /\ (token'[q] => token[q])
BY DEF TypeOK

\* A step of the launching request of r keeps Vault tidy that stages in order and leaves
\* the run alive, or goes on.
LEMMA TidyLaunch ==
  ASSUME Tidy, NEW r \in Runs, UNCHANGED <<cancel, reap, callback>>,
         \A q \in Runs : q # r =>
           UNCHANGED <<status[q], dispatch[q], secret[q], token[q]>>,
         status'[r] \notin Terminal \/ dispatch'[r] \notin {"none", "done"}
           \/ (~secret'[r] /\ ~token'[r]),
         dispatch'[r] \in {"none", "preflight", "secret", "fail"} => ~secret'[r],
         dispatch'[r] \in {"none", "preflight", "secret", "token", "fail"} => ~token'[r],
         dispatch'[r] # "untoken"
  PROVE  Tidy'
<1>1. StagedInOrder'
  BY DEF Tidy, StagedInOrder
<1>2. ASSUME NEW q \in Runs, status'[q] \in Terminal, secret'[q] \/ token'[q]
      PROVE  Tidying(q)'
  <2>1. CASE q = r
    BY <1>2, <2>1 DEF Tidying
  <2>2. CASE q # r
    <3>1. Tidying(q)
      BY <1>2, <2>2 DEF Tidy, VaultIsCleaned
    <3>2. QED
      BY <2>2, <3>1 DEF Tidying
  <2>3. QED
    BY <2>1, <2>2
<1>3. QED
  BY <1>1, <1>2 DEF Tidy, VaultIsCleaned

\* Without faults the steps of the launching request keep Vault tidy.
LEMMA TidyDispatch ==
  ASSUME Faults = {}, TypeOK, LaunchOrder, Tidy, NEW r \in Runs, DispatchNext(r)
  PROVE  Tidy'
<1>1. UNCHANGED <<cancel, reap, callback>>
      /\ \A q \in Runs : q # r => UNCHANGED <<status[q], dispatch[q], secret[q], token[q]>>
  BY DEF DispatchNext, CreateRun, Preflight, StageSecret, StageToken, CreateMachine,
     UnstageToken, MarkProvisioning, FailRun, DispatchCrash, Deleted, row, vault, TypeOK
<1>2. /\ dispatch[r] \in {"none", "preflight", "secret", "fail"} => ~secret[r]
      /\ dispatch[r] \in {"none", "preflight", "secret", "token", "fail"} => ~token[r]
      /\ dispatch[r] # "untoken"
  BY DEF Tidy, StagedInOrder
<1>3. CASE CreateRun(r)
  <2>1. dispatch[r] = "none" /\ dispatch'[r] = "preflight" /\ UNCHANGED <<secret, token>>
    BY <1>3 DEF CreateRun, LaunchOrder, vault, TypeOK
  <2>2. QED
    BY <1>1, <1>2, <2>1, TidyLaunch
<1>4. CASE Preflight(r)
  <2>1. dispatch[r] = "preflight" /\ dispatch'[r] \in {"secret", "fail"}
        /\ UNCHANGED <<secret, token>>
    BY <1>4 DEF Preflight, vault, TypeOK
  <2>2. QED
    BY <1>1, <1>2, <2>1, TidyLaunch
<1>5. CASE StageSecret(r)
  <2>1. dispatch[r] = "secret" /\ dispatch'[r] = "token" /\ UNCHANGED token
    BY <1>5 DEF StageSecret, TypeOK
  <2>2. QED
    BY <1>1, <1>2, <2>1, TidyLaunch
<1>6. CASE StageToken(r) \/ CreateMachine(r)
  <2>1. dispatch'[r] \in {"machine", "mark"}
    BY <1>6 DEF StageToken, CreateMachine, TypeOK
  <2>2. dispatch'[r] \notin {"none", "preflight", "secret", "token", "fail", "done", "untoken"}
    BY <2>1
  <2>3. QED
    BY <1>1, <2>2, TidyLaunch
<1>7. CASE MarkProvisioning(r)
  <2>1. status'[r] = "provisioning" /\ dispatch'[r] = "done"
    BY <1>7 DEF MarkProvisioning, TypeOK
  <2>2. status'[r] \notin Terminal
    BY <2>1 DEF Terminal
  <2>3. dispatch'[r] \notin {"none", "preflight", "secret", "token", "fail", "untoken"}
    BY <2>1
  <2>4. QED
    BY <1>1, <2>2, <2>3, TidyLaunch
<1>8. CASE FailRun(r)
  <2>1. dispatch[r] = "fail" /\ dispatch'[r] = "done" /\ UNCHANGED <<secret, token>>
    BY <1>8 DEF FailRun, vault, TypeOK
  <2>2. QED
    BY <1>1, <1>2, <2>1, TidyLaunch
<1>9. CASE UnstageToken(r) \/ DispatchCrash(r)
  BY <1>2, <1>9 DEF UnstageToken, DispatchCrash
<1>10. QED
  BY <1>3, <1>4, <1>5, <1>6, <1>7, <1>8, <1>9 DEF DispatchNext

\* Without faults the steps of a callback handler keep Vault tidy.
LEMMA TidyCallback ==
  ASSUME Faults = {}, TypeOK, Tidy, NEW r \in Runs, NEW a \in Attempts, CallbackNext(r, a)
  PROVE  Tidy'
<1>1. /\ \A q \in Runs, b \in Attempts : q # r \/ b # a => callback'[q][b] = callback[q][b]
      /\ \A q \in Runs : q # r => status'[q] = status[q]
      /\ UNCHANGED dispatch
  BY CallbackStep
<1>2. UNCHANGED <<cancel, reap>>
  BY DEF CallbackNext, CallbackAuth, Claim, Land, Finish, Apply, Cleanup, CallbackCrash
<1>3. \A q \in Runs : q # r => (Tidying(q) => Tidying(q)')
  BY <1>1, <1>2 DEF Tidying
<1>4. CASE CallbackAuth(r, a) \/ Claim(r, a) \/ Land(r, a)
  <2>1. UNCHANGED <<secret, token>> /\ callback[r][a] # "cleanup"
    BY <1>4 DEF CallbackAuth, Claim, Land, vault
  <2>2. status'[r] \in Terminal => status[r] \in Terminal
    BY <1>4 DEF CallbackAuth, Claim, Land, row, TypeOK, Terminal
  <2>3. Tidying(r) => Tidying(r)'
    BY <1>1, <1>2, <2>1 DEF Tidying
  <2>4. QED
    BY <1>1, <1>3, <2>1, <2>2, <2>3, TidyAside
<1>5. CASE Finish(r, a) \/ Apply(r, a)
  <2>1. UNCHANGED <<secret, token>> /\ callback[r][a] # "cleanup"
    BY <1>5 DEF Finish, Apply, vault
  <2>2. callback'[r][a] = "cleanup" \/ UNCHANGED status
    BY <1>5 DEF Finish, Apply, TypeOK
  <2>3. CASE callback'[r][a] = "cleanup"
    <3>1. Tidying(r)'
      BY <2>3 DEF Tidying
    <3>2. QED
      BY <1>1, <1>3, <2>1, <3>1, TidyAside
  <2>4. CASE UNCHANGED status
    <3>1. Tidying(r) => Tidying(r)'
      BY <1>1, <1>2, <2>1 DEF Tidying
    <3>2. QED
      BY <1>1, <1>3, <2>1, <2>4, <3>1, TidyAside
  <2>5. QED
    BY <2>2, <2>3, <2>4
<1>6. CASE Cleanup(r, a)
  <2>1. secret' = [secret EXCEPT ![r] = FALSE] /\ token' = [token EXCEPT ![r] = FALSE]
    BY <1>6, DeletedWithoutFaults DEF Cleanup
  <2>2. QED
    BY <1>1, <1>3, <2>1, BothDeleted, TidyAside
<1>7. CASE CallbackCrash(r, a)
  BY <1>7 DEF CallbackCrash
<1>8. QED
  BY <1>4, <1>5, <1>6, <1>7 DEF CallbackNext

\* A post that is under way on the server is not touched by others.
LEMMA CleanupKept ==
  ASSUME Untouched, UNCHANGED <<dispatch, cancel, reap>>, NEW q \in Runs
  PROVE  Tidying(q) => Tidying(q)'
BY DEF Untouched, Tidying

\* Without faults the runner, cancel and the reaper keep Vault tidy.
LEMMA TidyOthers ==
  ASSUME Faults = {}, TypeOK, LaunchOrder, Tidy, NEW r \in Runs,
         RunnerNext(r) \/ EventsNext(r) \/ CancelNext(r) \/ ReaperNext(r)
  PROVE  Tidy'
<1>1. Untouched
  BY OtherStep DEF OtherNext
<1>2. UNCHANGED dispatch
  BY DEF RunnerNext, FetchParams, PostEvents, PostCallback, RetryCallback, RunnerExit,
     RunnerDies, EventsNext, EventsAuth, EventsRead, EventsStart, CancelNext, Cancel,
     CancelMachine, CancelSecrets, CancelCrash, ReaperNext, BecomeOverdue, ReapMark, ReapMarkFails,
     ReapMachine, ReapSecrets
<1>3. CASE RunnerNext(r)
  <2>1. UNCHANGED <<status, cancel, reap, secret>>
    BY <1>3 DEF RunnerNext, FetchParams, PostEvents, PostCallback, RetryCallback,
       RunnerExit, RunnerDies, row, vault
  <2>2. \A q \in Runs : token'[q] => token[q]
    <3>1. UNCHANGED token \/ token' = [token EXCEPT ![r] = FALSE]
      BY <1>3, DeletedWithoutFaults DEF RunnerNext, FetchParams, PostEvents,
         PostCallback, RetryCallback, RunnerExit, RunnerDies, vault
    <3>2. QED
      BY <3>1 DEF TypeOK
  <2>3. QED
    BY <1>1, <1>2, <2>1, <2>2, CleanupKept, TidyAside
<1>4. CASE EventsNext(r)
  <2>1. UNCHANGED <<cancel, reap, secret, token>>
    BY <1>4 DEF EventsNext, EventsAuth, EventsRead, EventsStart, vault
  <2>2. \A q \in Runs : status'[q] \in Terminal => status[q] \in Terminal
    BY <1>4 DEF EventsNext, EventsAuth, EventsRead, EventsStart, row, TypeOK, Terminal
  <2>3. QED
    BY <1>1, <1>2, <2>1, <2>2, CleanupKept, TidyAside
<1>5. CASE Cancel(r) \/ CancelMachine(r)
  <2>1. UNCHANGED <<reap, secret, token, callback>> /\ cancel'[r] # "idle"
        /\ \A q \in Runs : q # r => status'[q] = status[q] /\ cancel'[q] = cancel[q]
    BY <1>5 DEF Cancel, CancelMachine, row, vault, TypeOK
  <2>2. Tidying(r)' /\ \A q \in Runs : q # r => (Tidying(q) => Tidying(q)')
    BY <1>2, <2>1 DEF Tidying
  <2>3. QED
    BY <1>2, <2>1, <2>2, TidyAside
<1>6. CASE CancelSecrets(r) \/ ReapSecrets(r)
  <2>1. secret' = [secret EXCEPT ![r] = FALSE] /\ token' = [token EXCEPT ![r] = FALSE]
    BY <1>6, DeletedWithoutFaults DEF CancelSecrets, ReapSecrets
  <2>2. UNCHANGED <<status, callback>>
        /\ \A q \in Runs : q # r => cancel'[q] = cancel[q] /\ reap'[q] = reap[q]
    BY <1>6 DEF CancelSecrets, ReapSecrets, row, TypeOK
  <2>3. \A q \in Runs : q # r => (Tidying(q) => Tidying(q)')
    BY <1>2, <2>2 DEF Tidying
  <2>4. QED
    BY <1>2, <2>1, <2>2, <2>3, BothDeleted, TidyAside
<1>7. CASE BecomeOverdue(r)
  <2>1. UNCHANGED <<status, cancel, reap, secret, token>>
    BY <1>7 DEF BecomeOverdue, vault
  <2>2. QED
    BY <1>1, <1>2, <2>1, CleanupKept, TidyAside
<1>8. CASE ReapMark(r) \/ ReapMachine(r)
  <2>1. UNCHANGED <<cancel, secret, token, callback>>
        /\ \A q \in Runs : q # r => status'[q] = status[q] /\ reap'[q] = reap[q]
    BY <1>8 DEF ReapMark, ReapMarkFails, ReapMachine, row, vault, TypeOK
  <2>2. reap'[r] \in {"machine", "secrets"}
        \/ (UNCHANGED status /\ reap[r] \notin {"machine", "secrets"})
    <3>0. reap \in [Runs -> ReapSteps]
      BY DEF TypeOK
    <3>1. CASE ReapMark(r)
      <4>1. CASE status[r] \in NonTerminal
        <5>1. reap' = [reap EXCEPT ![r] =
                         IF @ = "scannedWithMachine" THEN "machine" ELSE "secrets"]
          BY <3>1, <4>1 DEF ReapMark
        <5>2. QED
          BY <3>0, <5>1
      <4>2. CASE status[r] \notin NonTerminal
        BY <3>1, <4>2 DEF ReapMark
      <4>3. QED
        BY <4>1, <4>2
    <3>2. CASE ReapMachine(r)
      BY <3>0, <3>2 DEF ReapMachine, row
    <3>3. QED
      BY <1>8, <3>1, <3>2
  <2>3. \A q \in Runs : q # r => (Tidying(q) => Tidying(q)')
    BY <1>2, <2>1 DEF Tidying
  <2>4. Tidying(r)' \/ (UNCHANGED status /\ (Tidying(r) => Tidying(r)'))
    BY <1>2, <2>1, <2>2 DEF Tidying
  <2>5. QED
    BY <1>2, <2>1, <2>3, <2>4, TidyAside
<1>9. CASE CancelCrash(r) \/ ReapMarkFails(r)
  BY <1>9 DEF CancelCrash, ReapMarkFails
<1>10. QED
  BY <1>3, <1>4, <1>5, <1>6, <1>7, <1>8, <1>9 DEF CancelNext, ReaperNext

\* Without faults every step keeps Vault tidy.
LEMMA TidyStep ==
  ASSUME Faults = {}, TypeOK, LaunchOrder, Tidy, [Next]_vars PROVE Tidy'
<1>1. CASE Scan
  <2>1. UNCHANGED <<status, dispatch, cancel, secret, token, callback>>
        /\ \A q \in Runs : reap[q] = "idle"
    BY <1>1 DEF Scan, row, vault
  <2>2. \A q \in Runs : Tidying(q) => Tidying(q)'
    BY <2>1 DEF Tidying
  <2>3. QED
    BY <2>1, <2>2, TidyAside
<1>2. CASE UNCHANGED vars
  <2>1. UNCHANGED <<status, dispatch, cancel, reap, secret, token, callback>>
    BY <1>2 DEF vars, row, vault
  <2>2. \A q \in Runs : Tidying(q) => Tidying(q)'
    BY <2>1 DEF Tidying
  <2>3. QED
    BY <2>1, <2>2, TidyAside
<1>3. CASE ReaperCrash
  BY <1>3 DEF ReaperCrash
<1>4. QED
  BY <1>1, <1>2, <1>3, TidyDispatch, TidyCallback, TidyOthers DEF Next

\* When no call fails and no handler is killed, an ended run leaves neither its bearer
\* nor its token in Vault, wherever cancel and the reaper meet the launching request.
THEOREM VaultCleaned == Faults = {} => (Spec => []VaultIsCleaned)
<1> SUFFICES ASSUME Faults = {} PROVE Spec => []VaultIsCleaned
  OBVIOUS
<1>1. TypeOK /\ LaunchOrder /\ Tidy /\ [Next]_vars => Tidy'
  BY TidyStep
<1>2. Tidy => VaultIsCleaned
  BY DEF Tidy
<1>3. QED
  BY <1>1, <1>2, TypeInit, TypeStep, LaunchOrderInit, LaunchOrderStep, TidyInit, PTL
     DEF Spec
=============================================================================
