----------------------------- MODULE WorkerRun ------------------------------
(***************************************************************************)
(* One-shot cloud worker runs: the request that launches and dispatches a  *)
(* run, the Fly machine and the runner on it, the routes the runner calls  *)
(* (params, events, callback), the user's cancel and the reaper cron.      *)
(* Every awaited database, Vault, Fly or git call is a step, so the        *)
(* handlers of one run interleave at exactly those points.  A call may     *)
(* fail, with its write made (the answer is lost) or not; the database     *)
(* client returns the error, and what a handler that does not look at it   *)
(* goes on to do is part of its step.                                      *)
(***************************************************************************)
EXTENDS Naturals

CONSTANTS Runs,         \* ids of worker_run rows
          MaxAttempts,  \* POSTs of one terminal callback (4 in the runner)
          Faults,       \* the faults this instance allows
          DispatchWithinGrace  \* the launching request ends within the 900 s grace

FaultKinds == {"crash", "fly", "vault", "db"}

ASSUME MaxAttemptsAssumption == MaxAttempts \in Nat \ {0}
ASSUME FaultsAssumption == Faults \subseteq FaultKinds
ASSUME GraceAssumption == DispatchWithinGrace \in BOOLEAN

Attempts == 1..MaxAttempts

VARIABLES
  status,     \* worker_run.status, "absent" before the insert
  machineId,  \* worker_run.machine_id is recorded
  overdue,    \* the clock is past the reaper's deadline for the row
  secret,     \* Vault holds worker_secret_<run>
  token,      \* Vault holds worker_token_<run>
  dispatch,   \* the launching request's next step
  runner,     \* the machine and the runner process on it
  report,     \* what the runner's terminal callback says
  attempt,    \* how many times the callback has been posted
  callback,   \* the server side of each post of the callback
  events,     \* the server side of the event batch in flight
  cancel,     \* the cancelling request's next step
  reap,       \* the reaper's next step for the run
  landed,     \* branches pushed for the run by landChanges (ghost)
  reopened,   \* the launching request overwrote a claimed or ended run (ghost)
  orphaned,   \* the answer of the last claim was lost: nobody lands the run (ghost)
  unclosed    \* the closing update failed since, with the run in pushing (ghost)

row == <<status, machineId, overdue>>
vault == <<secret, token>>
client == <<runner, report, attempt>>
ghosts == <<landed, reopened, orphaned, unclosed>>
vars == <<row, vault, dispatch, client, callback, events, cancel, reap, ghosts>>

Terminal == {"completed", "failed", "cancelled", "timed_out"}
NonTerminal == {"queued", "provisioning", "running", "pushing"}
Statuses == {"absent"} \cup NonTerminal \cup Terminal

DispatchSteps == {"none", "preflight", "secret", "token", "machine",
                  "untoken", "mark", "fail", "done"}
RunnerStates == {"none", "boot", "agent", "report", "gone"}
Up == {"boot", "agent", "report"}
Reports == {"changes", "no_changes", "failed", "timed_out"}
CallbackSteps == {"idle", "sent", "denied", "authed", "claimed", "landed",
                  "unlanded", "cleanup", "ok", "dead"}
EventSteps == {"idle", "sent", "authed", "start"}
CancelSteps == {"idle", "machine", "secrets"}
ReapSteps == {"idle", "scanned", "scannedWithMachine", "machine", "secrets"}

TypeOK ==
  /\ status \in [Runs -> Statuses]
  /\ machineId \in [Runs -> BOOLEAN]
  /\ overdue \in [Runs -> BOOLEAN]
  /\ secret \in [Runs -> BOOLEAN]
  /\ token \in [Runs -> BOOLEAN]
  /\ dispatch \in [Runs -> DispatchSteps]
  /\ runner \in [Runs -> RunnerStates]
  /\ report \in [Runs -> Reports \cup {"none"}]
  /\ attempt \in [Runs -> 0..MaxAttempts]
  /\ callback \in [Runs -> [Attempts -> CallbackSteps]]
  /\ events \in [Runs -> EventSteps]
  /\ cancel \in [Runs -> CancelSteps]
  /\ reap \in [Runs -> ReapSteps]
  /\ landed \in [Runs -> Nat]
  /\ reopened \in [Runs -> BOOLEAN]
  /\ orphaned \in [Runs -> BOOLEAN]
  /\ unclosed \in [Runs -> BOOLEAN]

Init ==
  /\ status = [r \in Runs |-> "absent"]
  /\ machineId = [r \in Runs |-> FALSE]
  /\ overdue = [r \in Runs |-> FALSE]
  /\ secret = [r \in Runs |-> FALSE]
  /\ token = [r \in Runs |-> FALSE]
  /\ dispatch = [r \in Runs |-> "none"]
  /\ runner = [r \in Runs |-> "none"]
  /\ report = [r \in Runs |-> "none"]
  /\ attempt = [r \in Runs |-> 0]
  /\ callback = [r \in Runs |-> [a \in Attempts |-> "idle"]]
  /\ events = [r \in Runs |-> "idle"]
  /\ cancel = [r \in Runs |-> "idle"]
  /\ reap = [r \in Runs |-> "idle"]
  /\ landed = [r \in Runs |-> 0]
  /\ reopened = [r \in Runs |-> FALSE]
  /\ orphaned = [r \in Runs |-> FALSE]
  /\ unclosed = [r \in Runs |-> FALSE]

-----------------------------------------------------------------------------
(* Shared steps                                                            *)

\* delete_secret is best-effort everywhere: its failure is ignored.
Deleted(entry, r) ==
  {[entry EXCEPT ![r] = FALSE]} \cup (IF "vault" \in Faults THEN {entry} ELSE {})

\* The machine is destroyed and the runner dies with it; 404 is success.
DestroyMachine(r) ==
  runner' = [runner EXCEPT ![r] = IF @ \in Up THEN "gone" ELSE @]

\* Did a write at r's row throw away a claim or a terminal status?
Overwrites(r) == status[r] \in Terminal \cup {"pushing"}

-----------------------------------------------------------------------------
(* The launching request                                                   *)

\* An insert whose answer is lost is an error to the request: no dispatch.
CreateRun(r) ==
  /\ status[r] = "absent"
  /\ status' = [status EXCEPT ![r] = "queued"]
  /\ \/ dispatch' = [dispatch EXCEPT ![r] = "preflight"]
     \/ "db" \in Faults /\ dispatch' = [dispatch EXCEPT ![r] = "done"]
  /\ UNCHANGED <<machineId, overdue, vault, client, callback, events,
                 cancel, reap, ghosts>>

\* Repository, clone token and agent credential: all present, or the run fails.
Preflight(r) ==
  /\ dispatch[r] = "preflight"
  /\ \E next \in {"secret", "fail"} : dispatch' = [dispatch EXCEPT ![r] = next]
  /\ UNCHANGED <<row, vault, client, callback, events, cancel, reap, ghosts>>

\* delete_secret then insert_secret of the bearer the runner will present; a failed
\* insert may have stored it.
StageSecret(r) ==
  /\ dispatch[r] = "secret"
  /\ \/ /\ secret' = [secret EXCEPT ![r] = TRUE]
        /\ dispatch' = [dispatch EXCEPT ![r] = "token"]
     \/ /\ "vault" \in Faults
        /\ dispatch' = [dispatch EXCEPT ![r] = "fail"]
        /\ secret' \in {secret, [secret EXCEPT ![r] = TRUE]}
  /\ UNCHANGED <<row, token, client, callback, events, cancel, reap, ghosts>>

StageToken(r) ==
  /\ dispatch[r] = "token"
  /\ \/ /\ token' = [token EXCEPT ![r] = TRUE]
        /\ dispatch' = [dispatch EXCEPT ![r] = "machine"]
     \/ /\ "vault" \in Faults
        /\ dispatch' = [dispatch EXCEPT ![r] = "fail"]
        /\ token' \in {token, [token EXCEPT ![r] = TRUE]}
  /\ UNCHANGED <<row, secret, client, callback, events, cancel, reap, ghosts>>

\* An error may hide a machine that was created (a lost response, no id in it).
CreateMachine(r) ==
  /\ dispatch[r] = "machine"
  /\ \/ /\ runner' = [runner EXCEPT ![r] = "boot"]
        /\ dispatch' = [dispatch EXCEPT ![r] = "mark"]
     \/ /\ "fly" \in Faults
        /\ runner' \in {runner, [runner EXCEPT ![r] = "boot"]}
        /\ dispatch' = [dispatch EXCEPT ![r] = "untoken"]
  /\ UNCHANGED <<row, vault, report, attempt, callback, events, cancel, reap,
                 ghosts>>

UnstageToken(r) ==
  /\ dispatch[r] = "untoken"
  /\ token' \in Deleted(token, r)
  /\ dispatch' = [dispatch EXCEPT ![r] = "fail"]
  /\ UNCHANGED <<row, secret, client, callback, events, cancel, reap, ghosts>>

\* Mutant: the update spares a run that has ended.
MarkLive(r) ==
  /\ dispatch[r] = "mark"
  /\ dispatch' = [dispatch EXCEPT ![r] = "done"]
  /\ IF status[r] \in NonTerminal
       THEN /\ status' = [status EXCEPT ![r] = "provisioning"]
            /\ machineId' = [machineId EXCEPT ![r] = TRUE]
       ELSE UNCHANGED <<status, machineId>>
  /\ UNCHANGED <<overdue, vault, client, callback, events, cancel,
                 reap, ghosts>>

\* An update by id alone: no guard on the status it finds.
MarkProvisioning(r) ==
  /\ dispatch[r] = "mark"
  /\ \/ /\ status' = [status EXCEPT ![r] = "provisioning"]
        /\ machineId' = [machineId EXCEPT ![r] = TRUE]
        /\ reopened' = [reopened EXCEPT ![r] = @ \/ Overwrites(r)]
        /\ \/ dispatch' = [dispatch EXCEPT ![r] = "done"]
           \/ "db" \in Faults /\ dispatch' = [dispatch EXCEPT ![r] = "fail"]
     \/ /\ "db" \in Faults
        /\ dispatch' = [dispatch EXCEPT ![r] = "fail"]
        /\ UNCHANGED <<status, machineId, reopened>>
  /\ UNCHANGED <<overdue, vault, client, callback, events, cancel,
                 reap, landed, orphaned, unclosed>>

\* The catch branch; again an update by id alone, and its error leaves the request.
FailRun(r) ==
  /\ dispatch[r] = "fail"
  /\ \/ /\ status' = [status EXCEPT ![r] = "failed"]
        /\ reopened' = [reopened EXCEPT ![r] = @ \/ Overwrites(r)]
     \/ "db" \in Faults /\ UNCHANGED <<status, reopened>>
  /\ dispatch' = [dispatch EXCEPT ![r] = "done"]
  /\ UNCHANGED <<machineId, overdue, vault, client, callback, events,
                 cancel, reap, landed, orphaned, unclosed>>

\* The serverless function is killed between two of its calls.
DispatchCrash(r) ==
  /\ "crash" \in Faults
  /\ dispatch[r] \notin {"none", "done"}
  /\ dispatch' = [dispatch EXCEPT ![r] = "done"]
  /\ UNCHANGED <<row, vault, client, callback, events, cancel, reap, ghosts>>

-----------------------------------------------------------------------------
(* The runner                                                              *)

\* Mutant: the wrong Vault entry is deleted.
FetchParamsTakesSecret(r) ==
  /\ runner[r] = "boot"
  /\ token[r]
  /\ secret' \in Deleted(secret, r)
  /\ runner' = [runner EXCEPT ![r] = "agent"]
  /\ UNCHANGED <<row, token, dispatch, report, attempt, callback, events,
                 cancel, reap, ghosts>>

\* One GET of the params route.  The route deletes the token before it answers;
\* the answer may be lost, and the runner makes no second call.
FetchParams(r) ==
  /\ runner[r] = "boot"
  /\ \/ /\ token[r]
        /\ token' \in Deleted(token, r)
        /\ runner' \in {[runner EXCEPT ![r] = "agent"], [runner EXCEPT ![r] = "gone"]}
     \/ /\ ~token[r]
        /\ runner' = [runner EXCEPT ![r] = "gone"]
        /\ UNCHANGED token
  /\ UNCHANGED <<row, secret, dispatch, report, attempt, callback, events,
                 cancel, reap, ghosts>>

\* A flush posts a batch of events; one request is in flight at a time.
PostEvents(r) ==
  /\ runner[r] \in {"agent", "report"}
  /\ events[r] = "idle"
  /\ events' = [events EXCEPT ![r] = "sent"]
  /\ UNCHANGED <<row, vault, dispatch, client, callback, cancel, reap, ghosts>>

\* Whatever ends the agent, the runner posts one terminal callback.
PostCallback(r) ==
  /\ runner[r] = "agent"
  /\ runner' = [runner EXCEPT ![r] = "report"]
  /\ \E k \in Reports : report' = [report EXCEPT ![r] = k]
  /\ attempt' = [attempt EXCEPT ![r] = 1]
  /\ callback' = [callback EXCEPT ![r][1] = "sent"]
  /\ UNCHANGED <<row, vault, dispatch, events, cancel, reap, ghosts>>

\* A non-2xx answer or a network error: post again, whatever the first post
\* is doing on the server.
RetryCallback(r) ==
  /\ runner[r] = "report"
  /\ attempt[r] < MaxAttempts
  /\ attempt' = [attempt EXCEPT ![r] = @ + 1]
  /\ callback' = [callback EXCEPT ![r][attempt[r] + 1] = "sent"]
  /\ UNCHANGED <<row, vault, dispatch, runner, report, events, cancel, reap,
                 ghosts>>

\* A 2xx answer, or no attempt left: the runner exits and Fly destroys the
\* machine (auto_destroy).
RunnerExit(r) ==
  /\ runner[r] = "report"
  /\ attempt[r] = MaxAttempts \/ callback[r][attempt[r]] = "ok"
  /\ runner' = [runner EXCEPT ![r] = "gone"]
  /\ UNCHANGED <<row, vault, dispatch, report, attempt, callback, events,
                 cancel, reap, ghosts>>

\* The runner process dies without reporting.
RunnerDies(r) ==
  /\ "crash" \in Faults
  /\ runner[r] \in Up
  /\ runner' = [runner EXCEPT ![r] = "gone"]
  /\ UNCHANGED <<row, vault, dispatch, report, attempt, callback, events,
                 cancel, reap, ghosts>>

-----------------------------------------------------------------------------
(* The events route                                                        *)

\* A secret that cannot be read does not match.
EventsAuth(r) ==
  /\ events[r] = "sent"
  /\ \/ events' = [events EXCEPT ![r] = IF secret[r] THEN "authed" ELSE "idle"]
     \/ "vault" \in Faults /\ events' = [events EXCEPT ![r] = "idle"]
  /\ UNCHANGED <<row, vault, dispatch, client, callback, cancel, reap, ghosts>>

\* The status is read here and used after the insert: terminal is a 409, a
\* pre-running status will be moved to running, any other only beats the heart.  An
\* error of the read is a 404, one of the insert a 500.
EventsRead(r) ==
  /\ events[r] = "authed"
  /\ \/ events' = [events EXCEPT ![r] =
                     IF status[r] \in {"queued", "provisioning"} THEN "start" ELSE "idle"]
     \/ "db" \in Faults /\ events' = [events EXCEPT ![r] = "idle"]
  /\ UNCHANGED <<row, vault, dispatch, client, callback, cancel, reap, ghosts>>

\* Mutant: the update to running lost its status filter.
EventsStartAny(r) ==
  /\ events[r] = "start"
  /\ status' = [status EXCEPT ![r] = "running"]
  /\ overdue' = [overdue EXCEPT ![r] = FALSE]
  /\ events' = [events EXCEPT ![r] = "idle"]
  /\ UNCHANGED <<machineId, vault, dispatch, client, callback, cancel, reap,
                 ghosts>>

\* The result of the update is not looked at.
EventsStart(r) ==
  /\ events[r] = "start"
  /\ \/ /\ status[r] \in {"queued", "provisioning"}
        /\ status' = [status EXCEPT ![r] = "running"]
        /\ overdue' = [overdue EXCEPT ![r] = FALSE]
     \/ /\ status[r] \in {"queued", "provisioning"} => "db" \in Faults
        /\ UNCHANGED <<status, overdue>>
  /\ events' = [events EXCEPT ![r] = "idle"]
  /\ UNCHANGED <<machineId, vault, dispatch, client, callback, cancel, reap,
                 ghosts>>

-----------------------------------------------------------------------------
(* The callback route and applyWorkerCallback, one copy per post           *)

CallbackAuth(r, a) ==
  /\ callback[r][a] = "sent"
  /\ \/ callback' = [callback EXCEPT ![r][a] = IF secret[r] THEN "authed" ELSE "denied"]
     \/ "vault" \in Faults /\ callback' = [callback EXCEPT ![r][a] = "denied"]
  /\ UNCHANGED <<row, vault, dispatch, client, events, cancel, reap, ghosts>>

\* Mutant: the claim admits a run that is being landed already.
ClaimAnyLive(r, a) ==
  /\ callback[r][a] = "authed"
  /\ report[r] = "changes"
  /\ IF status[r] \in NonTerminal
       THEN /\ status' = [status EXCEPT ![r] = "pushing"]
            /\ callback' = [callback EXCEPT ![r][a] = "claimed"]
       ELSE /\ callback' = [callback EXCEPT ![r][a] = "ok"]
            /\ UNCHANGED status
  /\ UNCHANGED <<machineId, overdue, vault, dispatch, client, events,
                 cancel, reap, ghosts>>

\* Changes to land: claim the run by moving it to pushing; no row claimed means
\* the report is a replay, or late, and is skipped with a 200.  An error, of this update
\* or of the read before it, is taken for no row, also when the row has been claimed.
Claim(r, a) ==
  /\ callback[r][a] = "authed"
  /\ report[r] = "changes"
  /\ \/ /\ status[r] \in NonTerminal \ {"pushing"}
        /\ status' = [status EXCEPT ![r] = "pushing"]
        /\ unclosed' = [unclosed EXCEPT ![r] = FALSE]
        /\ \/ /\ callback' = [callback EXCEPT ![r][a] = "claimed"]
              /\ orphaned' = [orphaned EXCEPT ![r] = FALSE]
           \/ /\ "db" \in Faults
              /\ callback' = [callback EXCEPT ![r][a] = "ok"]
              /\ orphaned' = [orphaned EXCEPT ![r] = TRUE]
     \/ /\ status[r] \in NonTerminal \ {"pushing"} => "db" \in Faults
        /\ callback' = [callback EXCEPT ![r][a] = "ok"]
        /\ UNCHANGED <<status, orphaned, unclosed>>
  /\ UNCHANGED <<machineId, overdue, vault, dispatch, client, events,
                 cancel, reap, landed, reopened>>

\* Mutant: an error of landChanges leaves the handler.
LandUncaught(r, a) ==
  /\ callback[r][a] = "claimed"
  /\ \/ /\ landed' = [landed EXCEPT ![r] = @ + 1]
        /\ callback' = [callback EXCEPT ![r][a] = "landed"]
     \/ /\ callback' = [callback EXCEPT ![r][a] = "denied"]
        /\ UNCHANGED landed
  /\ UNCHANGED <<row, vault, dispatch, client, events, cancel, reap, reopened,
                 orphaned, unclosed>>

\* landChanges commits a branch and opens a pull request; it may throw before
\* or after the branch exists.
Land(r, a) ==
  /\ callback[r][a] = "claimed"
  /\ \/ /\ landed' = [landed EXCEPT ![r] = @ + 1]
        /\ \E c \in {"landed", "unlanded"} : callback' = [callback EXCEPT ![r][a] = c]
     \/ /\ callback' = [callback EXCEPT ![r][a] = "unlanded"]
        /\ UNCHANGED landed
  /\ UNCHANGED <<row, vault, dispatch, client, events, cancel, reap, reopened,
                 orphaned, unclosed>>

\* Mutant: the outcome of landChanges is not looked at.
FinishCompleted(r, a) ==
  /\ callback[r][a] \in {"landed", "unlanded"}
  /\ status' = [status EXCEPT ![r] = IF @ = "pushing" THEN "completed" ELSE @]
  /\ callback' = [callback EXCEPT ![r][a] = "cleanup"]
  /\ UNCHANGED <<machineId, overdue, vault, dispatch, client, events,
                 cancel, reap, ghosts>>

\* The closing update matches only a row still in pushing.  Its result is not looked
\* at: an error too is followed by the clean-up and an answer of success.
Finish(r, a) ==
  /\ callback[r][a] \in {"landed", "unlanded"}
  /\ \/ /\ status[r] = "pushing"
        /\ status' = [status EXCEPT ![r] =
                        IF callback[r][a] = "landed" THEN "completed" ELSE "failed"]
        /\ UNCHANGED unclosed
     \/ /\ status[r] = "pushing"
        /\ "db" \in Faults
        /\ unclosed' = [unclosed EXCEPT ![r] = TRUE]
        /\ UNCHANGED status
     \/ /\ status[r] # "pushing"
        /\ UNCHANGED <<status, unclosed>>
  /\ callback' = [callback EXCEPT ![r][a] = "cleanup"]
  /\ UNCHANGED <<machineId, overdue, vault, dispatch, client, events,
                 cancel, reap, landed, reopened, orphaned>>

\* Mutant: the report is stored as the status.
RawStatus == [k \in Reports |-> k]

\* Nothing to land: one update guarded on a non-terminal status.  An error is taken for
\* no row, as in Claim: a 200 and no clean-up, also when the row has been ended.
FinalStatus == [k \in Reports |-> IF k = "no_changes" THEN "completed" ELSE k]

Apply(r, a) ==
  /\ callback[r][a] = "authed"
  /\ report[r] \in Reports \ {"changes"}
  /\ \/ /\ status[r] \in NonTerminal
        /\ status' = [status EXCEPT ![r] = FinalStatus[report[r]]]
        /\ \/ callback' = [callback EXCEPT ![r][a] = "cleanup"]
           \/ "db" \in Faults /\ callback' = [callback EXCEPT ![r][a] = "ok"]
     \/ /\ status[r] \in NonTerminal => "db" \in Faults
        /\ callback' = [callback EXCEPT ![r][a] = "ok"]
        /\ UNCHANGED status
  /\ UNCHANGED <<machineId, overdue, vault, dispatch, client, events,
                 cancel, reap, ghosts>>

Cleanup(r, a) ==
  /\ callback[r][a] = "cleanup"
  /\ token' \in Deleted(token, r)
  /\ secret' \in Deleted(secret, r)
  /\ callback' = [callback EXCEPT ![r][a] = "ok"]
  /\ UNCHANGED <<row, dispatch, client, events, cancel, reap, ghosts>>

CallbackCrash(r, a) ==
  /\ "crash" \in Faults
  /\ callback[r][a] \in {"sent", "authed", "claimed", "landed", "unlanded", "cleanup"}
  /\ callback' = [callback EXCEPT ![r][a] = "dead"]
  /\ UNCHANGED <<row, vault, dispatch, client, events, cancel, reap, ghosts>>

-----------------------------------------------------------------------------
(* Cancel                                                                  *)

\* The guarded update returns the row it changed: the teardown uses the machine
\* id of that instant.  When its answer is lost the request throws, without teardown.
Cancel(r) ==
  /\ cancel[r] = "idle"
  /\ status[r] \in NonTerminal
  /\ status' = [status EXCEPT ![r] = "cancelled"]
  /\ \/ cancel' = [cancel EXCEPT ![r] = IF machineId[r] THEN "machine" ELSE "secrets"]
     \/ "db" \in Faults /\ UNCHANGED cancel
  /\ UNCHANGED <<machineId, overdue, vault, dispatch, client, callback,
                 events, reap, ghosts>>

CancelMachine(r) ==
  /\ cancel[r] = "machine"
  /\ DestroyMachine(r) \/ ("fly" \in Faults /\ UNCHANGED runner)
  /\ cancel' = [cancel EXCEPT ![r] = "secrets"]
  /\ UNCHANGED <<row, vault, dispatch, report, attempt, callback, events, reap,
                 ghosts>>

CancelSecrets(r) ==
  /\ cancel[r] = "secrets"
  /\ token' \in Deleted(token, r)
  /\ secret' \in Deleted(secret, r)
  /\ cancel' = [cancel EXCEPT ![r] = "idle"]
  /\ UNCHANGED <<row, dispatch, client, callback, events, reap, ghosts>>

CancelCrash(r) ==
  /\ "crash" \in Faults
  /\ cancel[r] # "idle"
  /\ cancel' = [cancel EXCEPT ![r] = "idle"]
  /\ UNCHANGED <<row, vault, dispatch, client, callback, events, reap, ghosts>>

-----------------------------------------------------------------------------
(* The reaper cron                                                         *)

\* isOverdue compares the clock with started_at + cap + grace, or with
\* created_at + grace before the run started.
BecomeOverdue(r) ==
  /\ status[r] \in NonTerminal
  /\ ~overdue[r]
  /\ DispatchWithinGrace => dispatch[r] = "done"
  /\ overdue' = [overdue EXCEPT ![r] = TRUE]
  /\ UNCHANGED <<status, machineId, vault, dispatch, client, callback,
                 events, cancel, reap, ghosts>>

\* Mutant: only runs that have started are looked for.
ScanStarted ==
  /\ \A r \in Runs : reap[r] = "idle"
  /\ reap' = [r \in Runs |->
                IF status[r] \notin {"running", "pushing"} \/ ~overdue[r] THEN "idle"
                ELSE IF machineId[r] THEN "scannedWithMachine" ELSE "scanned"]
  /\ UNCHANGED <<row, vault, dispatch, client, callback, events, cancel, ghosts>>

\* Mutant: the machine id is not selected.
ScanNoMachine ==
  /\ \A r \in Runs : reap[r] = "idle"
  /\ reap' = [r \in Runs |->
                IF status[r] \in NonTerminal /\ overdue[r] THEN "scanned" ELSE "idle"]
  /\ UNCHANGED <<row, vault, dispatch, client, callback, events, cancel, ghosts>>

\* One SELECT; the loop below works on this snapshot.
Scan ==
  /\ \A r \in Runs : reap[r] = "idle"
  /\ reap' = [r \in Runs |->
                IF status[r] \notin NonTerminal \/ ~overdue[r] THEN "idle"
                ELSE IF machineId[r] THEN "scannedWithMachine" ELSE "scanned"]
  /\ UNCHANGED <<row, vault, dispatch, client, callback, events, cancel, ghosts>>

ReapMark(r) ==
  /\ reap[r] \in {"scanned", "scannedWithMachine"}
  /\ IF status[r] \in NonTerminal
       THEN /\ status' = [status EXCEPT ![r] = "timed_out"]
            /\ reap' = [reap EXCEPT ![r] =
                          IF @ = "scannedWithMachine" THEN "machine" ELSE "secrets"]
       ELSE /\ reap' = [reap EXCEPT ![r] = "idle"]
            /\ UNCHANGED status
  /\ UNCHANGED <<machineId, overdue, vault, dispatch, client, callback,
                 events, cancel, ghosts>>

\* An error of the update is taken for no row: the loop goes on to the next run, also
\* when the row has been ended.
ReapMarkFails(r) ==
  /\ "db" \in Faults
  /\ reap[r] \in {"scanned", "scannedWithMachine"}
  /\ \/ UNCHANGED status
     \/ status[r] \in NonTerminal /\ status' = [status EXCEPT ![r] = "timed_out"]
  /\ reap' = [reap EXCEPT ![r] = "idle"]
  /\ UNCHANGED <<machineId, overdue, vault, dispatch, client, callback,
                 events, cancel, ghosts>>

\* A Fly error is caught per run, after the status is already terminal.
ReapMachine(r) ==
  /\ reap[r] = "machine"
  /\ \/ /\ DestroyMachine(r)
        /\ reap' = [reap EXCEPT ![r] = "secrets"]
     \/ /\ "fly" \in Faults
        /\ reap' = [reap EXCEPT ![r] = "idle"]
        /\ UNCHANGED runner
  /\ UNCHANGED <<row, vault, dispatch, report, attempt, callback, events, cancel,
                 ghosts>>

ReapSecrets(r) ==
  /\ reap[r] = "secrets"
  /\ secret' \in Deleted(secret, r)
  /\ token' \in Deleted(token, r)
  /\ reap' = [reap EXCEPT ![r] = "idle"]
  /\ UNCHANGED <<row, dispatch, client, callback, events, cancel, ghosts>>

ReaperCrash ==
  /\ "crash" \in Faults
  /\ \E r \in Runs : reap[r] # "idle"
  /\ reap' = [r \in Runs |-> "idle"]
  /\ UNCHANGED <<row, vault, dispatch, client, callback, events, cancel, ghosts>>

-----------------------------------------------------------------------------

DispatchNext(r) ==
  \/ CreateRun(r) \/ Preflight(r) \/ StageSecret(r) \/ StageToken(r)
  \/ CreateMachine(r) \/ UnstageToken(r) \/ MarkProvisioning(r) \/ FailRun(r)
  \/ DispatchCrash(r)

RunnerNext(r) ==
  \/ FetchParams(r) \/ PostEvents(r) \/ PostCallback(r) \/ RetryCallback(r)
  \/ RunnerExit(r) \/ RunnerDies(r)

EventsNext(r) == EventsAuth(r) \/ EventsRead(r) \/ EventsStart(r)

CallbackNext(r, a) ==
  \/ CallbackAuth(r, a) \/ Claim(r, a) \/ Land(r, a) \/ Finish(r, a)
  \/ Apply(r, a) \/ Cleanup(r, a) \/ CallbackCrash(r, a)

CancelNext(r) ==
  Cancel(r) \/ CancelMachine(r) \/ CancelSecrets(r) \/ CancelCrash(r)

ReaperNext(r) ==
  \/ BecomeOverdue(r) \/ ReapMark(r) \/ ReapMarkFails(r) \/ ReapMachine(r)
  \/ ReapSecrets(r)

Next ==
  \/ \E r \in Runs :
       \/ DispatchNext(r) \/ RunnerNext(r) \/ EventsNext(r)
       \/ CancelNext(r) \/ ReaperNext(r)
       \/ \E a \in Attempts : CallbackNext(r, a)
  \/ Scan
  \/ ReaperCrash

Spec == Init /\ [][Next]_vars

\* The cron fires every five minutes and the clock moves; a reaper that is killed is
\* started again, so a step it keeps reaching is taken in the end.  The database does
\* not fail it for ever: ReapMarkFails has no fairness, ReapMark has.
ReaperFairness ==
  /\ WF_vars(Scan)
  /\ \A r \in Runs : /\ WF_vars(BecomeOverdue(r))
                     /\ SF_vars(ReapMark(r))
                     /\ SF_vars(ReapMachine(r))
                     /\ SF_vars(ReapSecrets(r))

ReaperSpec == Spec /\ ReaperFairness

\* Requests that are not killed run to their end, and the runner's retry loop is
\* bounded.  Nothing is assumed of the agent: it may hang.
RequestFairness ==
  \A r \in Runs :
    /\ WF_vars(DispatchNext(r) /\ dispatch[r] # "none")
    /\ WF_vars(CancelMachine(r) \/ CancelSecrets(r))
    /\ WF_vars(RetryCallback(r) \/ RunnerExit(r))

RequestSpec == ReaperSpec /\ RequestFairness

-----------------------------------------------------------------------------
(* Properties                                                              *)

\* A run's changes are pushed once: the claim in applyWorkerCallback admits one
\* of the concurrent or replayed callbacks, whatever cancel, reaper and events
\* do meanwhile.  The one exception is the launching request's own unguarded
\* write landing on a run that had already been claimed.
AtMostOneLanding == \A r \in Runs : landed[r] > 1 => reopened[r]

\* A run shown as pushing is being landed by a callback handler, or that handler was
\* killed, or one of the two updates whose error applyWorkerCallback takes for something
\* else failed on it: the claim, made but answered as no row, or the closing update,
\* answered as success.  No interleaving leaves a run in pushing for the reaper.
PushingHasOwner ==
  \A r \in Runs : status[r] = "pushing" =>
    \/ \E a \in Attempts : callback[r][a] \in {"claimed", "landed", "unlanded", "dead"}
    \/ orphaned[r] \/ unclosed[r]

\* When the agent changed files, completed means that a branch was pushed, even
\* when two handlers worked on the run.
CompletedHasBranch ==
  \A r \in Runs :
    report[r] = "changes" /\ status[r] = "completed" => landed[r] > 0

\* As long as the run is not over its runner can authenticate: cleanup, cancel and
\* reaper take the secret away only after the status is terminal.  There are two
\* exceptions, both of an update: the launching request's unguarded write, and a run
\* left in pushing by a closing update whose error was not looked at.
LiveRunCanReport ==
  \A r \in Runs : runner[r] \in Up /\ status[r] \in NonTerminal =>
    secret[r] \/ reopened[r] \/ (status[r] = "pushing" /\ unclosed[r])

\* A handler that is still at work on r's Vault entries, or will be.
Tidying(r) ==
  \/ dispatch[r] \notin {"none", "done"}
  \/ cancel[r] # "idle"
  \/ reap[r] \in {"machine", "secrets"}
  \/ \E a \in Attempts : callback[r][a] = "cleanup"

\* Without faults no ended run keeps its bearer or its token in Vault: who ended it takes
\* them away.  What a cancel deletes too early the launching request stages afterwards,
\* and then it is that request's unguarded write that leads to a second clean-up.
VaultIsCleaned ==
  \A r \in Runs : status[r] \in Terminal /\ (secret[r] \/ token[r]) => Tidying(r)

\* The row implements the abstract lifecycle: forward only, and terminal for good
\* once the launching request is over.
Lifecycle == INSTANCE RunLifecycle
  WITH open <- [r \in Runs |-> dispatch[r] \notin {"none", "done"}]

LifecycleSpec == Lifecycle!Spec

\* types.ts: "Terminal states: once reached, no transition may leave them."
TerminalIsFinal ==
  [][\A r \in Runs : status[r] \in Terminal => status'[r] = status[r]]_vars

\* Every run ends, whatever is lost or killed, because of the reaper.
EveryRunEnds ==
  \A r \in Runs : <>[](status[r] \in Terminal \cup {"absent"})

\* A machine does not run for ever, even with a hung agent: cancel or the reaper
\* destroys it, or the runner exits.
MachineReclaimed == \A r \in Runs : runner[r] \in Up ~> runner[r] \notin Up
=============================================================================
