-------------------------- MODULE WorkerWorkspace ---------------------------
(***************************************************************************)
(* One persistent worker environment (a worker_workspace row, its Fly      *)
(* machine and volume) and the turns that run in it: the requests that     *)
(* open the environment and send turns, the single-turn lock, the runner,  *)
(* the callback route's release, cancel, the run reaper and the idle       *)
(* reaper.  Each awaited call is a step.                                   *)
(*                                                                         *)
(* No handler here tells queued, provisioning and running apart, nor the   *)
(* four terminal statuses: "live" and "ended" stand for them (WorkerRun    *)
(* has them all).                                                          *)
(***************************************************************************)
EXTENDS Naturals

CONSTANTS Runs,         \* worker_run rows of this environment, one per turn
          None,         \* SQL NULL
          MaxAttempts,  \* POSTs of one terminal callback
          Happens       \* what this instance lets happen, of the kinds below

\* A process is killed, a Fly call fails (one of the run reaper's, or any other), a
\* callback is posted again, a user cancels, an environment grows idle.
Kinds == {"crash", "fly", "reaper fly", "retry", "cancel", "idle"}

ASSUME NoneAssumption == None \notin Runs
ASSUME MaxAttemptsAssumption == MaxAttempts \in Nat \ {0}
ASSUME HappensAssumption == Happens \subseteq Kinds

Attempts == 1..MaxAttempts

VARIABLES
  env,         \* worker_workspace.status, "absent" before the insert
  lock,        \* worker_workspace.current_run_id
  machineRef,  \* worker_workspace.machine_ref is recorded
  age,         \* the time since last_active_at against the two idle windows
  opener,      \* the run whose request opened the environment
  status,      \* worker_run.status
  machineId,   \* worker_run.machine_id is recorded
  secret,      \* Vault holds worker_secret_<run>
  turn,        \* the sending request's next step
  seen,        \* machine_ref as that request read it before it acquired
  first,       \* that request's firstTurn
  machine,     \* the environment's Fly machine exists
  machineRun,  \* the run whose token is in the machine's config
  volume,      \* the environment's volume
  runner,      \* the runner process of the run
  report,      \* what the runner's terminal callback says
  attempt,     \* how many times the callback has been posted
  callback,    \* the server side of each post
  cancel,      \* the cancelling request's next step
  reap,        \* the run reaper's next step
  idleReap,    \* the idle reaper's next step
  abandoned    \* ended runs a handler died of, or gave up, before its release (ghost)

row == <<env, lock, machineRef, age, opener>>
runRow == <<status, machineId>>
request == <<turn, seen, first>>
compute == <<machine, machineRun, volume>>
client == <<runner, report, attempt>>
vars == <<row, runRow, secret, request, compute, client, callback, cancel,
          reap, idleReap, abandoned>>

NonTerminal == {"live", "pushing"}
Statuses == {"absent", "ended"} \cup NonTerminal
Dispatching == {"stage", "create", "refresh", "start", "mark", "markEnv"}
TurnSteps == {"none", "count", "insert", "acquire", "busy", "fail", "release",
              "releaseHeld", "destroyEnv", "done"} \cup Dispatching
Up == {"boot", "agent", "report"}
Reports == {"changes", "other"}  \* what the callback route tells apart
CallbackSteps == {"idle", "sent", "failed", "authed", "claimed", "cleanup",
                  "release", "ok"}

\* The steps at which a request, or a callback, is yet to release the lock.
TurnOwes == {"fail", "release", "releaseHeld"} \cup (Dispatching \ {"markEnv"})
CallbackOwes == {"claimed", "cleanup", "release"}

TypeOK ==
  /\ env \in {"absent", "creating", "active", "suspended", "destroyed"}
  /\ lock \in Runs \cup {None}
  /\ machineRef \in BOOLEAN
  /\ age \in {"fresh", "idle", "stale"}
  /\ opener \in Runs \cup {None}
  /\ status \in [Runs -> Statuses]
  /\ machineId \in [Runs -> BOOLEAN]
  /\ secret \in [Runs -> BOOLEAN]
  /\ turn \in [Runs -> TurnSteps]
  /\ seen \in [Runs -> BOOLEAN]
  /\ first \in [Runs -> BOOLEAN]
  /\ machine \in BOOLEAN
  /\ machineRun \in Runs \cup {None}
  /\ volume \in {"none", "empty", "cloned"}
  /\ runner \in [Runs -> {"none", "gone"} \cup Up]
  /\ report \in [Runs -> Reports \cup {"none"}]
  /\ attempt \in [Runs -> 0..MaxAttempts]
  /\ callback \in [Runs -> [Attempts -> CallbackSteps]]
  /\ cancel \in [Runs -> {"idle", "stop", "release", "secrets"}]
  /\ reap \in [Runs -> {"idle", "scanned", "scannedWithMachine", "stop", "release",
                        "secrets"}]
  /\ idleReap \in {"idle", "suspend", "machine", "volume", "mark"}
  /\ abandoned \subseteq Runs

Init ==
  /\ env = "absent" /\ lock = None /\ machineRef = FALSE
  /\ age = "fresh" /\ opener = None
  /\ status = [r \in Runs |-> "absent"]
  /\ machineId = [r \in Runs |-> FALSE]
  /\ secret = [r \in Runs |-> FALSE]
  /\ turn = [r \in Runs |-> "none"]
  /\ seen = [r \in Runs |-> FALSE]
  /\ first = [r \in Runs |-> FALSE]
  /\ machine = FALSE /\ machineRun = None /\ volume = "none"
  /\ runner = [r \in Runs |-> "none"]
  /\ report = [r \in Runs |-> "none"]
  /\ attempt = [r \in Runs |-> 0]
  /\ callback = [r \in Runs |-> [a \in Attempts |-> "idle"]]
  /\ cancel = [r \in Runs |-> "idle"]
  /\ reap = [r \in Runs |-> "idle"]
  /\ idleReap = "idle"
  /\ abandoned = {}

-----------------------------------------------------------------------------
(* The lock                                                                *)

\* completeTurn: an update by the environment's id alone.
CompleteTurn == lock' = None /\ age' = "fresh"

\* The release of cancel and reaper matches only a row this run still holds.
ReleaseIfHeld(r) ==
  IF lock = r THEN CompleteTurn ELSE UNCHANGED <<lock, age>>

\* A handler of run r ends before its release of the lock, if it owes one.  A run that
\* has not ended will be released with its end.
Abandons(r, owes) ==
  abandoned' = IF owes /\ status[r] = "ended" THEN abandoned \cup {r} ELSE abandoned

-----------------------------------------------------------------------------
(* The machine                                                             *)

Kill(q) == IF q \in Up THEN "gone" ELSE q

\* Stopping or destroying the machine kills whatever runner is on it.
StopMachine == runner' = [q \in Runs |-> Kill(runner[q])]

\* The machine boots with the token in its config.  A token that has been used
\* already buys nothing: that runner exits at once.
Boot(r) ==
  runner' = [q \in Runs |->
               IF q = r /\ runner[q] = "none" THEN "boot" ELSE Kill(runner[q])]

-----------------------------------------------------------------------------
(* The request that opens the environment, and the one that sends a turn   *)

\* The row is read once, here; what follows works on this copy.
ReadRow(r) ==
  /\ seen' = [seen EXCEPT ![r] = machineRef]
  /\ turn' = [turn EXCEPT ![r] = "count"]

OpenEnvironment(r) ==
  /\ env = "absent" /\ turn[r] = "none"
  /\ env' = "creating"
  /\ opener' = r
  /\ ReadRow(r)
  /\ UNCHANGED <<lock, machineRef, age, runRow, secret, first, compute, client,
                 callback, cancel, reap, idleReap, abandoned>>

SendTurn(r) ==
  /\ env \notin {"absent", "destroyed"} /\ turn[r] = "none"
  /\ ReadRow(r)
  /\ UNCHANGED <<row, runRow, secret, first, compute, client, callback, cancel,
                 reap, idleReap, abandoned>>

\* listByEnvironment: any earlier row counts, also one that never ran.
CountTurns(r) ==
  /\ turn[r] = "count"
  /\ first' = [first EXCEPT ![r] = \A q \in Runs : status[q] = "absent"]
  /\ turn' = [turn EXCEPT ![r] = "insert"]
  /\ UNCHANGED <<row, runRow, secret, seen, compute, client, callback, cancel, reap,
                 idleReap, abandoned>>

InsertRun(r) ==
  /\ turn[r] = "insert"
  /\ status' = [status EXCEPT ![r] = "live"]
  /\ turn' = [turn EXCEPT ![r] = "acquire"]
  /\ UNCHANGED <<row, machineId, secret, seen, first, compute, client, callback,
                 cancel, reap, idleReap, abandoned>>

\* acquireForTurn: one conditional update.  The row it returns is not used.
Acquire(r) ==
  /\ turn[r] = "acquire"
  /\ IF lock = None /\ env # "destroyed"
       THEN /\ lock' = r
            /\ env' = "active"
            /\ turn' = [turn EXCEPT ![r] = "stage"]
       ELSE /\ turn' = [turn EXCEPT ![r] = "busy"]
            /\ UNCHANGED <<lock, env>>
  /\ UNCHANGED <<machineRef, age, opener, runRow, secret, seen, first, compute,
                 client, callback, cancel, reap, idleReap, abandoned>>

\* What the request does after an error: the opening request destroys the
\* environment, a follow-up turn only reports.
AfterError(r) == IF opener = r THEN "destroyEnv" ELSE "done"

BusyFail(r) ==
  /\ turn[r] = "busy"
  /\ status' = [status EXCEPT ![r] = "ended"]
  /\ turn' = [turn EXCEPT ![r] = AfterError(r)]
  /\ UNCHANGED <<row, machineId, secret, seen, first, compute, client, callback,
                 cancel, reap, idleReap, abandoned>>

\* Preflight, then the run's secret and token go to Vault; the copy of the row is
\* not used after this.
Stage(r) ==
  /\ turn[r] = "stage"
  /\ \/ /\ secret' = [secret EXCEPT ![r] = TRUE]
        /\ turn' = [turn EXCEPT ![r] = IF seen[r] THEN "refresh" ELSE "create"]
     \/ /\ turn' = [turn EXCEPT ![r] = "fail"]
        /\ UNCHANGED secret
  /\ seen' = [seen EXCEPT ![r] = FALSE]
  /\ UNCHANGED <<row, runRow, first, compute, client, callback, cancel, reap,
                 idleReap, abandoned>>

\* A volume, then a machine on it that boots.  Machine names are unique in the
\* Fly app, so a second machine for the environment is refused.
CreateMachine(r) ==
  /\ turn[r] = "create"
  /\ \/ /\ ~machine
        /\ machine' = TRUE /\ machineRun' = r /\ volume' = "empty"
        /\ Boot(r)
        /\ turn' = [turn EXCEPT ![r] = "mark"]
     \/ /\ machine \/ "fly" \in Happens
        /\ turn' = [turn EXCEPT ![r] = "fail"]
        /\ UNCHANGED <<compute, runner>>
  /\ UNCHANGED <<row, runRow, secret, seen, first, report, attempt, callback,
                 cancel, reap, idleReap, abandoned>>

\* The config update restarts a machine that is running.
RefreshMachine(r) ==
  /\ turn[r] = "refresh"
  /\ \/ /\ machine
        /\ machineRun' = r
        /\ IF \E q \in Runs : runner[q] \in Up THEN Boot(r) ELSE UNCHANGED runner
        /\ turn' = [turn EXCEPT ![r] = "start"]
     \/ /\ ~machine \/ "fly" \in Happens
        /\ turn' = [turn EXCEPT ![r] = "fail"]
        /\ UNCHANGED <<machineRun, runner>>
  /\ UNCHANGED <<row, runRow, secret, seen, first, machine, volume, report, attempt,
                 callback, cancel, reap, idleReap, abandoned>>

StartMachine(r) ==
  /\ turn[r] = "start"
  /\ \/ /\ machine
        /\ IF \E q \in Runs : runner[q] \in Up THEN UNCHANGED runner ELSE Boot(machineRun)
        /\ turn' = [turn EXCEPT ![r] = "mark"]
     \/ /\ ~machine \/ "fly" \in Happens
        /\ turn' = [turn EXCEPT ![r] = "fail"]
        /\ UNCHANGED runner
  /\ UNCHANGED <<row, runRow, secret, seen, first, compute, report, attempt,
                 callback, cancel, reap, idleReap, abandoned>>

\* markProvisioning, by the run's id alone.
MarkProvisioning(r) ==
  /\ turn[r] = "mark"
  /\ status' = [status EXCEPT ![r] = "live"]
  /\ machineId' = [machineId EXCEPT ![r] = TRUE]
  /\ turn' = [turn EXCEPT ![r] = "markEnv"]
  /\ UNCHANGED <<row, secret, seen, first, compute, client, callback, cancel, reap,
                 idleReap, abandoned>>

MarkMachine(r) ==
  /\ turn[r] = "markEnv"
  /\ machineRef' = TRUE
  /\ turn' = [turn EXCEPT ![r] = "done"]
  /\ UNCHANGED <<env, lock, age, opener, runRow, secret, seen, first, compute,
                 client, callback, cancel, reap, idleReap, abandoned>>

\* Mutant: the run fails and the lock is kept.
FailKeepsLock(r) ==
  /\ turn[r] = "fail"
  /\ status' = [status EXCEPT ![r] = "ended"]
  /\ turn' = [turn EXCEPT ![r] = AfterError(r)]
  /\ UNCHANGED <<row, machineId, secret, seen, first, compute, client, callback,
                 cancel, reap, idleReap, abandoned>>

\* The catch branch: the run fails, then the lock is released.  A request of the
\* dashboard and one of the public API differ from here on only.
FailRun(r) ==
  /\ turn[r] = "fail"
  /\ status' = [status EXCEPT ![r] = "ended"]
  /\ \E surface \in {"release", "releaseHeld"} : turn' = [turn EXCEPT ![r] = surface]
  /\ UNCHANGED <<row, machineId, secret, seen, first, compute, client, callback,
                 cancel, reap, idleReap, abandoned>>

\* The dashboard, whatever run holds the lock by now.
ReleaseFailed(r) ==
  /\ turn[r] = "release"
  /\ CompleteTurn
  /\ turn' = [turn EXCEPT ![r] = AfterError(r)]
  /\ UNCHANGED <<env, machineRef, opener, runRow, secret, seen, first, compute,
                 client, callback, cancel, reap, idleReap, abandoned>>

\* The gateway, guarded.
ReleaseHeldTurn(r) ==
  /\ turn[r] = "releaseHeld"
  /\ ReleaseIfHeld(r)
  /\ turn' = [turn EXCEPT ![r] = AfterError(r)]
  /\ UNCHANGED <<env, machineRef, opener, runRow, secret, seen, first, compute,
                 client, callback, cancel, reap, idleReap, abandoned>>

\* Mutant: the row is destroyed with its lock.
DestroyKeepsLock(r) ==
  /\ turn[r] = "destroyEnv"
  /\ env' = "destroyed"
  /\ turn' = [turn EXCEPT ![r] = "done"]
  /\ UNCHANGED <<lock, machineRef, age, opener, runRow, secret, seen, first,
                 compute, client, callback, cancel, reap, idleReap, abandoned>>

\* The request that opened the environment destroys the row, by its id alone.
DestroyEnvironment(r) ==
  /\ turn[r] = "destroyEnv"
  /\ env' = "destroyed"
  /\ lock' = None
  /\ turn' = [turn EXCEPT ![r] = "done"]
  /\ UNCHANGED <<machineRef, age, opener, runRow, secret, seen, first, compute,
                 client, callback, cancel, reap, idleReap, abandoned>>

TurnCrash(r) ==
  /\ "crash" \in Happens
  /\ turn[r] \notin {"none", "done"}
  /\ turn' = [turn EXCEPT ![r] = "done"]
  /\ Abandons(r, turn[r] \in TurnOwes)
  /\ UNCHANGED <<row, runRow, secret, seen, first, compute, client, callback,
                 cancel, reap, idleReap>>

-----------------------------------------------------------------------------
(* The runner                                                              *)

\* The first turn clones into the volume, later turns find the clone there; a
\* checkout that fails ends the runner without a callback.
PrepareWorkspace(r) ==
  /\ runner[r] = "boot"
  /\ \/ /\ first[r] /\ volume = "empty"
        /\ volume' = "cloned"
        /\ runner' = [runner EXCEPT ![r] = "agent"]
        /\ UNCHANGED <<report, attempt, callback>>
     \/ /\ first[r]
        /\ runner' = [runner EXCEPT ![r] = "report"]
        /\ report' = [report EXCEPT ![r] = "other"]
        /\ attempt' = [attempt EXCEPT ![r] = 1]
        /\ callback' = [callback EXCEPT ![r][1] = "sent"]
        /\ UNCHANGED volume
     \/ /\ ~first[r]
        /\ runner' = [runner EXCEPT ![r] = IF volume = "cloned" THEN "agent" ELSE "gone"]
        /\ UNCHANGED <<report, attempt, callback, volume>>
  /\ UNCHANGED <<row, runRow, secret, request, machine, machineRun, cancel, reap,
                 idleReap, abandoned>>

PostCallback(r) ==
  /\ runner[r] = "agent"
  /\ runner' = [runner EXCEPT ![r] = "report"]
  /\ \E k \in Reports : report' = [report EXCEPT ![r] = k]
  /\ attempt' = [attempt EXCEPT ![r] = 1]
  /\ callback' = [callback EXCEPT ![r][1] = "sent"]
  /\ UNCHANGED <<row, runRow, secret, request, compute, cancel, reap, idleReap,
                 abandoned>>

\* Mutant: one post too many.
RetryOnceMore(r) ==
  /\ "retry" \in Happens
  /\ runner[r] = "report"
  /\ attempt[r] <= MaxAttempts
  /\ attempt' = [attempt EXCEPT ![r] = @ + 1]
  /\ callback' = [callback EXCEPT ![r][attempt[r] + 1] = "sent"]
  /\ UNCHANGED <<row, runRow, secret, request, compute, runner, report, cancel,
                 reap, idleReap, abandoned>>

RetryCallback(r) ==
  /\ "retry" \in Happens
  /\ runner[r] = "report"
  /\ attempt[r] < MaxAttempts
  /\ attempt' = [attempt EXCEPT ![r] = @ + 1]
  /\ callback' = [callback EXCEPT ![r][attempt[r] + 1] = "sent"]
  /\ UNCHANGED <<row, runRow, secret, request, compute, runner, report, cancel,
                 reap, idleReap, abandoned>>

\* The runner exits and the machine stops, to be started for the next turn.
RunnerExit(r) ==
  /\ runner[r] = "report"
  /\ attempt[r] = MaxAttempts \/ callback[r][attempt[r]] = "ok"
  /\ runner' = [runner EXCEPT ![r] = "gone"]
  /\ UNCHANGED <<row, runRow, secret, request, compute, report, attempt, callback,
                 cancel, reap, idleReap, abandoned>>

RunnerDies(r) ==
  /\ "crash" \in Happens
  /\ runner[r] \in Up
  /\ runner' = [runner EXCEPT ![r] = "gone"]
  /\ UNCHANGED <<row, runRow, secret, request, compute, report, attempt, callback,
                 cancel, reap, idleReap, abandoned>>

-----------------------------------------------------------------------------
(* The callback route                                                      *)

CallbackAuth(r, a) ==
  /\ callback[r][a] = "sent"
  /\ callback' = [callback EXCEPT ![r][a] = IF secret[r] THEN "authed" ELSE "failed"]
  /\ UNCHANGED <<row, runRow, secret, request, compute, client, cancel, reap,
                 idleReap, abandoned>>

\* applyWorkerCallback: a turn with changes is claimed first, any other report is
\* one guarded update.  A report that comes too late is not applied, but the
\* route goes on to release the environment.
ApplyCallback(r, a) ==
  /\ callback[r][a] = "authed"
  /\ LET applied == IF report[r] = "changes" THEN status[r] = "live"
                                             ELSE status[r] \in NonTerminal
     IN  IF applied
           THEN IF report[r] = "changes"
                  THEN /\ status' = [status EXCEPT ![r] = "pushing"]
                       /\ callback' = [callback EXCEPT ![r][a] = "claimed"]
                  ELSE /\ status' = [status EXCEPT ![r] = "ended"]
                       /\ callback' = [callback EXCEPT ![r][a] = "cleanup"]
           ELSE /\ callback' = [callback EXCEPT ![r][a] = "release"]
                /\ UNCHANGED status
  /\ UNCHANGED <<row, machineId, secret, request, compute, client, cancel, reap,
                 idleReap, abandoned>>

\* The pull request is opened or reused, then the claimed run is closed.
FinishTurn(r, a) ==
  /\ callback[r][a] = "claimed"
  /\ status' = [status EXCEPT ![r] = IF @ = "pushing" THEN "ended" ELSE @]
  /\ callback' = [callback EXCEPT ![r][a] = "cleanup"]
  /\ UNCHANGED <<row, machineId, secret, request, compute, client, cancel, reap,
                 idleReap, abandoned>>

CleanupVault(r, a) ==
  /\ callback[r][a] = "cleanup"
  /\ secret' = [secret EXCEPT ![r] = FALSE]
  /\ callback' = [callback EXCEPT ![r][a] = "release"]
  /\ UNCHANGED <<row, runRow, request, compute, client, cancel, reap, idleReap,
                 abandoned>>

\* completeTurn, whatever run holds the lock by now.
CompleteEnvironmentTurn(r, a) ==
  /\ callback[r][a] = "release"
  /\ CompleteTurn
  /\ callback' = [callback EXCEPT ![r][a] = "ok"]
  /\ UNCHANGED <<env, machineRef, opener, runRow, secret, request, compute, client,
                 cancel, reap, idleReap, abandoned>>

CallbackCrash(r, a) ==
  /\ "crash" \in Happens
  /\ callback[r][a] \in CallbackSteps \ {"idle", "failed", "ok"}
  /\ callback' = [callback EXCEPT ![r][a] = "failed"]
  /\ Abandons(r, callback[r][a] \in CallbackOwes)
  /\ UNCHANGED <<row, runRow, secret, request, compute, client, cancel, reap,
                 idleReap>>

-----------------------------------------------------------------------------
(* Cancel                                                                  *)

Cancel(r) ==
  /\ "cancel" \in Happens
  /\ cancel[r] = "idle"
  /\ status[r] \in NonTerminal
  /\ status' = [status EXCEPT ![r] = "ended"]
  /\ cancel' = [cancel EXCEPT ![r] = IF machineId[r] THEN "stop" ELSE "release"]
  /\ UNCHANGED <<row, machineId, secret, request, compute, client, callback, reap,
                 idleReap, abandoned>>

\* Mutant: the machine is stopped and the environment not released.
CancelStopOnly(r) ==
  /\ cancel[r] = "stop"
  /\ StopMachine \/ ("fly" \in Happens /\ UNCHANGED runner)
  /\ cancel' = [cancel EXCEPT ![r] = "secrets"]
  /\ UNCHANGED <<row, runRow, secret, request, compute, report, attempt, callback,
                 reap, idleReap, abandoned>>

CancelStop(r) ==
  /\ cancel[r] = "stop"
  /\ StopMachine \/ ("fly" \in Happens /\ UNCHANGED runner)
  /\ cancel' = [cancel EXCEPT ![r] = "release"]
  /\ UNCHANGED <<row, runRow, secret, request, compute, report, attempt, callback,
                 reap, idleReap, abandoned>>

CancelRelease(r) ==
  /\ cancel[r] = "release"
  /\ ReleaseIfHeld(r)
  /\ cancel' = [cancel EXCEPT ![r] = "secrets"]
  /\ UNCHANGED <<env, machineRef, opener, runRow, secret, request, compute, client,
                 callback, reap, idleReap, abandoned>>

CancelSecrets(r) ==
  /\ cancel[r] = "secrets"
  /\ secret' = [secret EXCEPT ![r] = FALSE]
  /\ cancel' = [cancel EXCEPT ![r] = "idle"]
  /\ UNCHANGED <<row, runRow, request, compute, client, callback, reap, idleReap,
                 abandoned>>

CancelCrash(r) ==
  /\ "crash" \in Happens
  /\ cancel[r] # "idle"
  /\ cancel' = [cancel EXCEPT ![r] = "idle"]
  /\ Abandons(r, cancel[r] # "secrets")
  /\ UNCHANGED <<row, runRow, secret, request, compute, client, callback, reap, idleReap>>

-----------------------------------------------------------------------------
(* The run reaper                                                          *)

\* The cron finds a run past its deadline: started_at + cap + grace, or created_at
\* + 900 s before it started, when the request that sent the turn is long over.
\* Each overdue run of the SELECT is worked on in turn, with a status and machine
\* id that may be old by then; how old is the delay before ReapMark.
Scan(r) ==
  /\ \A q \in Runs : reap[q] = "idle"
  /\ status[r] \in NonTerminal /\ turn[r] = "done"
  /\ reap' = [reap EXCEPT ![r] = IF machineId[r] THEN "scannedWithMachine" ELSE "scanned"]
  /\ UNCHANGED <<row, runRow, secret, request, compute, client, callback, cancel,
                 idleReap, abandoned>>

ReapMark(r) ==
  /\ reap[r] \in {"scanned", "scannedWithMachine"}
  /\ IF status[r] \in NonTerminal
       THEN /\ status' = [status EXCEPT ![r] = "ended"]
            /\ reap' = [reap EXCEPT ![r] =
                          IF @ = "scannedWithMachine" THEN "stop" ELSE "release"]
       ELSE /\ reap' = [reap EXCEPT ![r] = "idle"]
            /\ UNCHANGED status
  /\ UNCHANGED <<row, machineId, secret, request, compute, client, callback, cancel,
                 idleReap, abandoned>>

\* Mutant: the machine is stopped and the environment not released.
ReapStopOnly(r) ==
  /\ reap[r] = "stop"
  /\ \/ /\ StopMachine
        /\ reap' = [reap EXCEPT ![r] = "secrets"]
        /\ UNCHANGED abandoned
     \/ /\ "reaper fly" \in Happens
        /\ reap' = [reap EXCEPT ![r] = "idle"]
        /\ Abandons(r, TRUE)
        /\ UNCHANGED runner
  /\ UNCHANGED <<row, runRow, secret, request, compute, report, attempt, callback,
                 cancel, idleReap>>

\* An error ends the work on this run; its row is terminal by now, so no later
\* scan finds it again.
ReapStop(r) ==
  /\ reap[r] = "stop"
  /\ \/ /\ StopMachine
        /\ reap' = [reap EXCEPT ![r] = "release"]
        /\ UNCHANGED abandoned
     \/ /\ "reaper fly" \in Happens
        /\ reap' = [reap EXCEPT ![r] = "idle"]
        /\ Abandons(r, TRUE)
        /\ UNCHANGED runner
  /\ UNCHANGED <<row, runRow, secret, request, compute, report, attempt, callback,
                 cancel, idleReap>>

ReapRelease(r) ==
  /\ reap[r] = "release"
  /\ ReleaseIfHeld(r)
  /\ reap' = [reap EXCEPT ![r] = "secrets"]
  /\ UNCHANGED <<env, machineRef, opener, runRow, secret, request, compute, client,
                 callback, cancel, idleReap, abandoned>>

ReapSecrets(r) ==
  /\ reap[r] = "secrets"
  /\ secret' = [secret EXCEPT ![r] = FALSE]
  /\ reap' = [reap EXCEPT ![r] = "idle"]
  /\ UNCHANGED <<row, runRow, request, compute, client, callback, cancel, idleReap,
                 abandoned>>

ReaperCrash(r) ==
  /\ "crash" \in Happens
  /\ reap[r] # "idle"
  /\ reap' = [reap EXCEPT ![r] = "idle"]
  /\ Abandons(r, reap[r] \in {"stop", "release"})
  /\ UNCHANGED <<row, runRow, secret, request, compute, client, callback, cancel,
                 idleReap>>

-----------------------------------------------------------------------------
(* The idle reaper                                                         *)

\* Time passes: the environment is past idle_ttl_s, then past the destroy window.
GrowOld ==
  /\ "idle" \in Happens
  /\ env \in {"active", "suspended"}
  /\ age # "stale"
  /\ age' = IF age = "fresh" THEN "idle" ELSE "stale"
  /\ UNCHANGED <<env, lock, machineRef, opener, runRow, secret, request, compute,
                 client, callback, cancel, reap, idleReap, abandoned>>

IdleScan ==
  /\ idleReap = "idle"
  /\ env \in {"active", "suspended"} /\ lock = None
  /\ \/ age = "stale" /\ idleReap' = "machine"
     \/ age = "idle" /\ env = "active" /\ idleReap' = "suspend"
  /\ UNCHANGED <<row, runRow, secret, request, compute, client, callback, cancel,
                 reap, abandoned>>

\* Mutant: the update does not look at the lock.
IdleSuspendUnguarded ==
  /\ idleReap = "suspend"
  /\ env' = IF env = "active" THEN "suspended" ELSE env
  /\ idleReap' = "idle"
  /\ UNCHANGED <<lock, machineRef, age, opener, runRow, secret, request, compute,
                 client, callback, cancel, reap, abandoned>>

\* The guarded metadata update; the machine has stopped by itself.
IdleSuspend ==
  /\ idleReap = "suspend"
  /\ env' = IF env = "active" /\ lock = None THEN "suspended" ELSE env
  /\ idleReap' = "idle"
  /\ UNCHANGED <<lock, machineRef, age, opener, runRow, secret, request, compute,
                 client, callback, cancel, reap, abandoned>>

\* The machine, found by name, and then its volume, which Fly refuses to delete under
\* a machine that a racing turn has created meanwhile.
IdleDestroyMachine ==
  /\ idleReap = "machine"
  /\ \/ /\ machine' = FALSE /\ machineRun' = None
        /\ StopMachine
        /\ idleReap' = "volume"
     \/ /\ "fly" \in Happens
        /\ idleReap' = "idle"
        /\ UNCHANGED <<machine, machineRun, runner>>
  /\ UNCHANGED <<row, runRow, secret, request, volume, report, attempt, callback,
                 cancel, reap, abandoned>>

IdleDestroyVolume ==
  /\ idleReap = "volume"
  /\ \/ ~machine /\ volume' = "none" /\ idleReap' = "mark"
     \/ /\ machine \/ "fly" \in Happens
        /\ idleReap' = "idle"
        /\ UNCHANGED volume
  /\ UNCHANGED <<row, runRow, secret, request, machine, machineRun, client,
                 callback, cancel, reap, abandoned>>

\* Only now does the reaper look whether the environment is still free.
IdleMarkDestroyed ==
  /\ idleReap = "mark"
  /\ env' = IF lock = None THEN "destroyed" ELSE env
  /\ idleReap' = "idle"
  /\ UNCHANGED <<lock, machineRef, age, opener, runRow, secret, request, compute,
                 client, callback, cancel, reap, abandoned>>

-----------------------------------------------------------------------------

TurnNext(r) ==
  \/ CountTurns(r) \/ InsertRun(r) \/ Acquire(r) \/ BusyFail(r) \/ Stage(r)
  \/ CreateMachine(r) \/ RefreshMachine(r) \/ StartMachine(r)
  \/ MarkProvisioning(r) \/ MarkMachine(r) \/ FailRun(r) \/ ReleaseFailed(r)
  \/ ReleaseHeldTurn(r) \/ DestroyEnvironment(r)

RunnerNext(r) ==
  \/ PrepareWorkspace(r) \/ PostCallback(r) \/ RetryCallback(r)
  \/ RunnerExit(r) \/ RunnerDies(r)

CallbackNext(r, a) ==
  \/ CallbackAuth(r, a) \/ ApplyCallback(r, a) \/ FinishTurn(r, a)
  \/ CleanupVault(r, a) \/ CompleteEnvironmentTurn(r, a)

CancelNext(r) == CancelStop(r) \/ CancelRelease(r) \/ CancelSecrets(r)

ReaperNext(r) == ReapMark(r) \/ ReapStop(r) \/ ReapRelease(r) \/ ReapSecrets(r)

IdleNext ==
  \/ GrowOld \/ IdleScan \/ IdleSuspend
  \/ IdleDestroyMachine \/ IdleDestroyVolume \/ IdleMarkDestroyed

Next ==
  \/ \E r \in Runs :
       \/ OpenEnvironment(r) \/ SendTurn(r) \/ TurnNext(r) \/ TurnCrash(r)
       \/ RunnerNext(r) \/ Cancel(r) \/ CancelNext(r) \/ CancelCrash(r)
       \/ Scan(r) \/ ReaperNext(r) \/ ReaperCrash(r)
       \/ \E a \in Attempts : CallbackNext(r, a) \/ CallbackCrash(r, a)
  \/ IdleNext

Spec == Init /\ [][Next]_vars

\* Requests and the reaper run to their end, the clock moves and the cron fires: a
\* run that stays overdue is found between two other runs the reaper works on.
\* Nothing is assumed of the agent, of users or of the idle reaper.
Fairness ==
  /\ \A r \in Runs :
       /\ WF_vars(TurnNext(r))
       /\ WF_vars(CancelNext(r))
       /\ SF_vars(Scan(r))
       /\ WF_vars(ReaperNext(r))
       /\ \A a \in Attempts : WF_vars(CallbackNext(r, a))

FairSpec == Spec /\ Fairness

-----------------------------------------------------------------------------
(* Properties                                                              *)

\* A parked environment is free: neither reaper parks one that a turn has just
\* acquired, and no acquire survives the destruction of the row.
ParkedIsFree == env \in {"absent", "creating", "suspended", "destroyed"} => lock = None

\* Some handler is at work that will release the lock of run r, or set r going again.
Releasing(r) ==
  \/ turn[r] \in TurnOwes
  \/ \E a \in Attempts : callback[r][a] \in CallbackOwes
  \/ cancel[r] \in {"stop", "release"}
  \/ reap[r] \in {"stop", "release"}

\* The reaper: the lock must be released "or the thread wedges forever".  An ended
\* run that still holds the environment has a handler on its way to release it,
\* since no later scan of the reaper will look at an ended run.  Nothing wedges a thread
\* but a handler that is killed, or a reaper that meets a Fly error, between the end of
\* the run and the release.
NoWedge ==
  \A r \in Runs : lock = r /\ status[r] = "ended" => Releasing(r) \/ r \in abandoned

\* Every turn gives the environment back, also when its runner hangs.
LockReleased == \A r \in Runs : lock = r ~> lock # r

\* worker_workspace.current_run_id is the "serialization lock: one turn at a time per
\* environment": an agent at work on a live turn holds it.
OneTurnAtATime ==
  \A r \in Runs : runner[r] = "agent" /\ status[r] \in NonTerminal => lock = r

\* worker-reaper-service.ts: "a turn racing in keeps the env".
RacingTurnKeepsMachine == lock # None /\ machineRef => machine
=============================================================================
