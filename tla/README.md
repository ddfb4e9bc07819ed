# outerlayer: a formal model

outerlayer runs coding agents ("workers") on machines it starts on demand, records
what they and their users' own agents did, mirrors the context files of its
customers' repositories, comments on their pull requests and bills the usage. This
directory holds TLA+ models of the parts of it where several actors share state and
calls fail: TLC checks them on small instances, TLAPS proves their main safety
properties for all instances.

All paths below are relative to the repository's `src/`. The abbreviations:

| short | path |
|---|---|
| `D/` | `apps/tenant-dashboard/src/` |
| `S/` | `apps/tenant-dashboard/src/lib/system/` |
| `W/` | `apps/tenant-dashboard/src/lib/system/workers/` |
| `C/` | `packages/worker-core/src/` |
| `R/` | `apps/worker/src/` |
| `G/` | `apps/gateway/src/` |
| `GC/` | `packages/gateway-core/src/` |
| `L/` | `packages/cli/src/` |

## 1. Inventory

### 1.1 Workers

A **run** (`worker_run`, `supabase/schemas/73-worker-run.sql`) is one execution
of an agent on a task. A **one-shot run** gets a machine of its own and its
changes are landed as a branch and a pull request by the server. A **turn** is a
run in a persistent **environment** (`worker_workspace`: a Fly machine and a
volume that outlive the run), one turn at a time; the runner pushes its own
checkpoints.

| Part | State | Operations | Code |
|---|---|---|---|
| Launch and dispatch | the row; Vault entries `worker_secret_<id>` (the bearer the runner presents) and `worker_token_<id>` (buys the parameters once); the machine | create, preflight, stage secret, stage token, create machine, mark provisioning or fail | `W/worker-dispatch.ts`, `W/worker-run-service.ts`, `D/lib/adapters/worker-machine.ts`, `C/fly-worker-adapter.ts` |
| Params route | consumes the token | one GET per boot | `D/app/api/internal/worker-params/route.ts` |
| Events route | `worker_run_event`, status to running, heartbeat | POST of a batch | `D/app/api/internal/worker-events/route.ts` |
| Callback route | claims the run, lands the changes, final status, deletes the Vault entries, releases the environment | POST, up to four times | `D/app/api/internal/worker-callback/route.ts`, `C/worker-callback-core.ts`, `W/land-changes.ts` |
| Cancel | status, machine, lock, Vault entries | a server action | `D/features/workers/actions.ts`, `service.ts`, `worker-machine.ts` |
| Reaper | overdue runs; idle environments | a cron, every five minutes | `W/worker-reaper-service.ts`, `D/app/api/cron/worker-reaper/route.ts` |
| Environments | `worker_workspace` with `current_run_id`, the single-turn lock; machine; volume | open, send turn, acquire, release, suspend, destroy | `W/worker-environment-service.ts`, `W/environment-turn.ts` |
| Runner | the process on the machine | fetch parameters, prepare the workspace, run the agent, report | `R/worker-runner.ts`, `R/services/` |
| Reporter | buffer, sequence numbers, flush loop | enqueue, flush, sendCallback | `R/services/reporter.ts` |
| Run page | what it shows, its timer | poll the run and its events until the run is terminal | `D/app/api/orgs/[orgName]/apps/[appId]/workers/runs/[runId]/route.ts`, `D/features/workers/read.ts`, `hooks.ts` |
| Public API | the same rows | launch, open, send turn, the dashboard's steps once more; its release after an error is guarded | `GC/lib/workers.ts`, `GC/openapi/routes/workers.ts` |

The parts interact through the row (guarded and unguarded updates of one
Postgres record), through Vault, through HTTP between runner and server, and
through Fly. None of them holds a transaction across two calls, so every
`await` is a point at which any other part may run, and at which a serverless
function may be killed.

**Hard behaviours.** A callback is repeated while its first copy is still at
work. Cancel and the reaper end a run whose dispatch, landing or reporting is
in progress. The launching request writes last, and unconditionally. A row is
read before the lock is taken and used afterwards. A release matches either the
environment's id alone or also the run that holds it. Deleting compute takes
several calls, and any of them can fail. Events race the callback that ends the
run.

**What makes it correct.** Changes land at most once; a completed run with
changes has its branch; no run stays non-terminal and no machine stays up for
ever; the status only moves forward; the runner of a live run can always report;
an ended run leaves no secret behind; a page that stops polling shows everything;
one turn at a time per environment, and the environment is always given back;
nothing parked is in use; stored events have no gaps and none is forgotten.

### 1.2 The services around them

| Component | State | Operations and interaction | Hard part | What makes it correct | Module |
|---|---|---|---|---|---|
| Agent sessions of runs, `W/persist-agent-session.ts`, `W/worker-transcript-service.ts`, `R/services/transcript.ts` | `otel_traces` and `agent_session_summary` rows of one run | uploaded transcript, and the callback's rebuild from events | check, then write; a handler outlives its request | the transcript is not replaced by the poorer rebuild | `SessionPersist` |
| Context sync, `packages/context-sync/src/sync.ts`, `S/context-sync/` | head, snapshots and blobs of each app's mirror | push webhook, first sync, resync | pushes arrive late, twice, out of order and side by side | the head shows its commit, and is the branch's tip after a sync that met no other | `ContextSync` |
| Context save, `S/context-save/save-service.ts`, `S/git/github/client.ts` | the branch, the side branch, the pull request | conflict check, commit, push, fallback to a pull request | the window between check and push, retries | a change lands once; nothing unseen is overwritten outside the window; saves add up in one pull request | `ContextSave` |
| PR session comment, `S/pr-session-comment/` | one row and one comment per pull request | refresh by webhook, queue and hourly sweep | claims, lost answers, deleted comments | never a second comment, never a lost one; what changed is shown in the end | `PrComment` |
| PR comment queue, `G/queues/pr-comment-queue.ts` | Cloudflare queue | enqueue, coalesce, one request per batch, route results | at-least-once delivery, partial results | acknowledged means shown | `PrQueue` |
| Artifact blobs, `GC/openapi/routes/artifacts.ts`, `GC/jobs/artifact-blob-sweep.ts` | artifact rows, object storage, `agent_blobs` | emit, reconcile, daily sweep | the sweep deletes what an emit is writing | claimed bytes survive, unclaimed ones go | `ArtifactBlobs` |
| CLI sync, `L/sync-cmd.ts`, `packages/capture/src/` | a watermark file | discover, batch, post, split, retry | failure between post and watermark, overlapping syncs | the watermark passes nothing that was not stored | `CliSync` |
| CLI artifact spool, `L/emit-artifact-cmd.ts`, `L/artifact-spool.ts` | spool file, bytes, watermark, known ids | emit, upload by a later sync, clean-up | emits and uploads without a lock | a spooled artifact is delivered or stays deliverable | `ArtifactSpool` |
| Usage metering, `G/jobs/stripe-meter-event-handler.tsx`, `G/queues/usage-meter-queue.ts` | minute windows, queue, Stripe | count, send, charge, dead letter | redelivery, lost answers | no row charged twice, none lost unseen | `UsageMeter` |

They share no state with each other, and with the workers only through what the
table names: `SessionPersist` has the Vault secret of a run as its `vaulted` and the
callback of a run as its second writer; `PrQueue` calls a refresh, whose steps are
in `PrComment`; the reconciler is the source of changes in `PrComment` and of
confirmations in `ArtifactBlobs`; `POST /v1/agents/sync` is the server side of
`CliSync` and the sender of `PrQueue`.

### 1.3 The rest of the system (not modelled)

| Component | Why |
|---|---|
| PR tracking, reconciliation, outcome scores | webhook-driven upserts, each idempotent by its key, and read-side aggregation |
| Storage metering, billing, usage notices | a daily total per customer and reads of limits |
| Topics enrichment, retention sweep | batch jobs: model calls, clustering, deletes by age |
| Ingestion gateway, query services | stateless request handling in front of ClickHouse: I/O and SQL text |
| Capture hooks and adapters, other CLI commands | parsing and reports over local files |
| Trial environments (`runner-core`, `env-prep`, `trial-harness`, ...) | sequential batch tooling around containers |
| Entitlements, membership, API keys, OAuth, environments, variables | lookups and CRUD under database constraints |
| Git providers | clients of external APIs; the calls of context sync and save are in their modules |
| Pure libraries, UI, mail, schemas, tests | no shared state |

Most of the repository's lines are of the last kinds: components, queries, formatting,
generated types. They have no interleaving and no failure a model could get wrong in
an interesting way, which is why the map covers a small share of the lines.

Left out inside modelled components: the local-process adapter (development only), the
local-to-Fly promotion of an environment, attachments, the entitlement counts of a
launch; apps that watch several repositories and a change of the connected branch
(`ContextSync`); validation, messages and skill deletion (`ContextSave`); what the
comment says (`PrComment`); messages that do not parse (`PrQueue`); the storage cap
(`ArtifactBlobs`); tiers, scrubbing and blobs of transcripts (`CliSync`); the direct
upload of CI (`ArtifactSpool`); scores, traces and synthetic customers (`UsageMeter`).

## 2. Modules

| Module | What it is |
|---|---|
| `RunLifecycle` | What the `worker_run` row promises its readers: the abstract specification of a run's status. |
| `WorkerRun` | One-shot runs: launch, dispatch, runner, routes, cancel, run reaper. Implements `RunLifecycle`. |
| `WorkerWorkspace` | One environment, its machine, volume and lock; the turns sent to it; both reapers. |
| `RunLog` | What the event log of a run promises its readers: the abstract specification of the log. |
| `Reporter` | The runner's event buffer and callback against the two routes. Implements `RunLog`. |
| `RunView` | The run page that polls beside `Reporter`, which it extends. |
| `SessionPersist` | The two writers of the session of a run. |
| `ContextMirror` | What the mirror of a branch promises its readers: the abstract specification of what is shown. |
| `ContextSync` | The mirror of one connected branch and its handlers. Implements `ContextMirror`. |
| `ContextSave` | Saves from the editor against a branch, a side branch and reviewers. |
| `PrComment` | The session comment of one pull request. |
| `PrQueue` | The queue in front of it. |
| `ArtifactBlobs` | The bytes of one content and everything that claims, writes and deletes them. |
| `CliSync`, `ArtifactSpool` | The two uploads of `outerlayer sync`. |
| `UsageMeter` | Metering of spans by minute, with the queue and Stripe. |
| `WorkerRunProofs`, `WorkerWorkspaceProofs`, `ReporterProofs`, `UsageMeterProofs` | The theorems of the module they are named after; `RunView`'s are in `ReporterProofs`. |
| `SessionPersistProofs`, `ContextProofs`, `PrProofs`, `ArtifactProofs` | The theorems of `SessionPersist` and `CliSync`; of `ContextSync` and `ContextSave`; of `PrQueue` and `PrComment`; of `ArtifactSpool` and `ArtifactBlobs`. |
| `MCWorkerRun`, `MCWorkerWorkspace`, `MCContextSync`, `MCCliSync` | Values of constants and symmetry for TLC. |
| `MCWorkerRunLiveness`, `MCWorkspaceSafety` | One run of TLC for several profiles of one module: which faults happen differs by initial state. |
| `MCProgress`, `MCServices` | One run of TLC for several modules that share no state: an initial state picks the one that moves. |

### 2.1 From code to actions

Every awaited call that reads or writes shared state is a step of its own, in
the order of the code; what a handler computes between two calls belongs to the
step before it. A handler's program counter is a variable (`dispatch`, `callback`,
`turn`, `doing`, `emit`, `at`, ...); what it read and holds on to is a variable too
(`seen`, `base`, `ref`, `since`, ...). An update guarded by a `WHERE` is one step with
the condition and both outcomes, as the code looks at whether a row came back.
`PROJECT.json` maps each definition to its lines.

*WorkerRun.* `status` and `machineId` are columns of the row, `overdue`
the comparison the reaper makes with the clock, `secret` and `token` the Vault
entries. `CreateRun`, `Preflight`, `StageSecret`, `StageToken`, `CreateMachine`,
`UnstageToken`, `MarkProvisioning` and `FailRun` are the launching request.
`FetchParams` to `RunnerExit` are the runner, where the agent is no more than "some
report, or none". `EventsAuth`, `EventsRead` and `EventsStart` are the events
route; `CallbackAuth`, `Claim`, `Land`, `Finish`, `Apply` and `Cleanup` are
`applyWorkerCallback`, one copy per post. `landed` and `reopened` are ghosts:
how often a branch was pushed, and whether the launching request wrote over a
claimed or ended run. Every database, Vault and Fly call may fail, before or after it
took effect, as far as `Faults` allows, and does in each case what the code does with
the error. Often that is nothing: the client answers an error beside `data`, and
`Claim`, `Apply`, `ReapMarkFails` take the missing `data` for "no row", while `Finish` and
`EventsStart` do not look at the answer. `orphaned` and `unclosed` are the ghosts of the
two cases that leave a run in pushing: a claim whose answer was lost, and a closing update
that failed. `crash` kills a request, the runner or the cron between any two calls.

*WorkerWorkspace.* `env`, `lock` and `machineRef` are columns of
`worker_workspace`. No handler of it tells queued, provisioning and running
apart, nor the terminal statuses from each other, so `live`, `pushing` and `ended`
stand for them. `machineRun` is the run whose token the machine's config holds:
updating a running machine's config restarts it. `CompleteTurn` is the release
by id, `ReleaseIfHeld` the one that also matches the run. A turn request comes from the
dashboard or the public API: their steps are the same until a dispatch fails, so the
model tells them apart only there (`ReleaseFailed`, `ReleaseHeldTurn`). Session handles, the
local adapter and database errors are left out; the database errors of a run's
dispatch are in `WorkerRun`. `abandoned` is a ghost: ended runs whose handler was killed,
or met a Fly error in the reaper, before the release it owed them.

*Reporter.* The buffer is the interval `head..next-1` of sequence numbers, since
events are numbered when they are queued. `requests` are batches the
server works on: the client may have given one up already (a lost answer). A
batch is two steps on the server, the read of the run's status and the
insert. `over` is a terminal run; it answers 409, or 401 once its secret is
deleted. `RunLog` has the stored events as a set `log` that always is the beginning of
what was emitted, and the number from which the runner still has them.

*RunView.* A poll is two steps as well: `GetRun` reads the row, `GetRunEvents` the events and
answers. `ended` is what stops the timer, `poll` what the first read has found; the route
answers with an error when either read fails (`PollFails`), and the page keeps what it has.
`FirstOf` is the limit of one answer. `settled` is a ghost: what was stored when the run
ended.

*SessionPersist.* `handler` has one entry per post: authorize (`Authorize`), check for
a session (`CheckSession`, the bridge only), `WriteSpans`, `WriteSummary`. The summary
table is a function of the start time, which is its key. `timed` and `begun` say
whether the transcript and the run have a start time, by which the two writers choose
the key (`StartTime`).

*ContextSync.* A handler is `AdvancePointers`, `LoadHead`, then `Compare`, `ReadParent`
and `PatchSnapshot` (or `AdvanceHead` when nothing changed), or `Resolve` and
`FullSnapshot`, then `RecordSynced`. `CreateSnapshot` is the SQL function: insert what
is missing, set the head. The repository is a set of commits with trees and
ancestors, and `Changed` is what the provider's compare answers: the difference
from the merge base. `covered` is a ghost: a handler that met no other wrote, and the
branch did not move since it started.

*ContextSave.* A ref is the sequence of changes on it. `CheckConflict`, `BuildCommit`,
`PushCommit` are the direct way; `ListOpen`, `Rebuild`, `AdvanceSide`, `CreateSide`,
`ResetSide`, `RequestReview` are `openPullRequestForCommit`. `OtherCommit`, `Merge` and
`Close` are people.

*PrComment.* The steps of `refreshPrSessionComment` in order; `Claim`, `Reread`,
`TakeOver` and `Scan` are `claimCreate` and `findPostedComment`. `row.claim` names the
call that holds the claim (a time in the code) and `Expire` lets the time pass. `Change` is
whatever alters what the comment should say. `Sweep` reads the backlog and the links its own
reconciliation has stored, and so may take the pull request up or not, whatever changed.
`Mark` and `ClearFlag` write the backlog; an error of theirs is logged and no more. The
ghost `owed` is what was to be said when a sweep last took the pull request up, `spoilt`
is set by calls that overlap, a sweep that dies, a refusal of GitHub or a mark that is not
written.

*PrQueue.* `place` says where each message is, `batchOf` in whose batch. `RefreshTarget`
is one pull request of the request, `RouteResults` the acknowledgements and retries.

*ArtifactBlobs.* All artifacts of the model have the same content, since only those
interact. `emit` is a request; `sweep` the sweep at its row; `blobRows` the marker rows
in ClickHouse with the age its delete is fenced by.

*CliSync.* A transcript's content is the time it was last written. `StatTranscript` is
one `stat` of the discovery. `Collect` is the selection (`Selections`: the newest n of
`--limit`, less what does not parse, is empty or is filtered by its repository), the sort,
the cut into parts and the cut into requests: `Batchings` are all the ways to cut a list sorted by mtime and part, since
where a request ends depends on sizes. `dropped` is a ghost: what a sync found, or would have
found with a `stat` that works, and left out. `PostRequest` to `TakeAnswer` are the loop over
the queue of requests; a request that is split may have been stored all the same (the
split also follows a repeated 5xx), and the split that is made before any post is the
case that stores nothing. `ArtifactSpool` follows an emit and an upload in the same
way, call by call.

*UsageMeter.* A row has the minute it was stamped with; `CountWindow` counts what has
landed by then; a message is one customer's count of one minute, and `keys` are the
idempotency keys Stripe has seen.

### 2.2 What the models assume of the world outside `src/`

- Fly: machine names are unique, destroying what does not exist succeeds, a
  config update restarts a running machine, a volume is not deleted under a
  machine, an error may hide a creation that took place, an `auto_destroy`
  machine goes away when its process exits.
- Postgres: one `UPDATE ... WHERE ... RETURNING` is atomic.
- A serverless function may be killed between two calls.
- GitHub: a ref update without force is atomic and refuses what is not a fast
  forward; a call that fails may have had its effect where the module says so; an
  issue comment list shows what was posted.
- Stripe: one charge per idempotency key. Cloudflare queues: at-least-once, with the
  configured number of redeliveries. ClickHouse: an insert becomes visible as a whole,
  perhaps later.
- A local process may be killed between two file operations; one append, one write
  and one unlink are atomic.

## 3. Runs

TLC runs each of these in less than five minutes with two workers.

| Run | Instance | Properties | Distinct states |
|---|---|---|---|
| `run_safety` | 1 run, 2 posts, all faults | `TypeOK`, `AtMostOneLanding`, `PushingHasOwner`, `CompletedHasBranch`, `LiveRunCanReport`, `LifecycleSpec` | 1.02 million |
| `run_liveness` | 1 run; all faults, 1 post and only the reaper fair, or no fault, 2 posts and fair requests | `EveryRunEnds`, `CalmReclaims`, `CalmCleansVault` | 360 thousand |
| `workspace_safety` | 2 turns; Fly errors with an idle reaper, with crashes, or with cancels whose request may be killed; or a second post | `TypeOK`, `ParkedIsFree`, `NoWedge` | 2.13 million |
| `progress` | 2 turns, 1 post, fair requests and reaper; 3 events, batches of 2, 2 posts, all faults, fair; or 2 events and 1 post with the run page | `LockReleased`; `LogSpec`, `FlushedBeforeCallback`, `CallbackReturns`; `ViewTypeOK`, `LastPollShowsAll` | 158 thousand |
| `context_sync` | 3 commits, 2 paths, 2 handlers, force push, errors, lost answers | `TypeOK`, `HeadShowsItsCommit`, `RecordShowsItsCommit`, `ContentMirrored`, `CaughtUp`, `MirrorSpec` | 1.93 million |
| `services` | see 3.3 | `LandsOnce`, `OverwritesOnlyInWindow`, `AccumulatesAlone`; `OneCommentInTime`, `NoOrphan`, `Settles`; `AckedIsShown`, `LeftOnlyWhenExhausted`; `WrittenSurvives`, `MissingIsRevisited`, `BytesAreClaimed`; `NothingSkipped`; `SpooledSurvives`; `FullSessionStands`; `ChargedOnce`, `CountedIsSettled` | 1.75 million |
| `run_terminal` | 1 run, 2 posts, no fault | `TerminalIsFinal`, **violated** | |
| `workspace_one_turn` | 2 turns, 2 posts | `OneTurnAtATime`, **violated** | |
| `workspace_racing` | 2 turns, idle reaper | `RacingTurnKeepsMachine`, **violated** | |
| `cli_resume` | 1 session of 2 parts, 1 sync | `PartialIsResent`, **violated** | |
| `force_push` | 3 commits, 2 handlers, one rewrite | `ForcePushHeals`, **violated** | |
| `session_key` | 2 uploads, 1 callback | `OneSessionPerRun`, **violated** | |

### 3.1 What holds

Workers:

- **AtMostOneLanding**: two posts of one callback, concurrent or one after the
  other, with cancel, reaper and events in between, push one branch. The claim
  (`status := pushing` where it is not yet pushing or terminal) decides. The one
  exception is the launching request's unguarded write on a claimed run
  (`reopened`).
- **PushingHasOwner**: no interleaving leaves a run in pushing unless the
  handler that claimed it is at work or was killed, or one of its two updates failed
  unnoticed: the answer of the claim was lost, which the handler takes for a replay
  (`orphaned`), or the closing update failed, whose result it does not look at (`unclosed`).
  An error of `landChanges` does not.
- **CompletedHasBranch**: nobody completes a run whose landing failed.
- **LiveRunCanReport**: no cleanup takes the bearer away from the runner of a
  live run; in particular the failure branch of a dispatch whose machine came up
  does not. The exceptions are the launching request's unguarded write and a closing update
  that failed: the clean-up follows it all the same, and the run stays in pushing, without
  its bearer, until the reaper ends it.
- **LifecycleSpec**: the row implements `RunLifecycle`, that is, the status moves
  forward only, and a terminal status is final once the launching request is
  over.
- **EveryRunEnds**: with nothing but the reaper guaranteed to run, and anything
  killed at any point, every run gets a terminal status.
- **CalmReclaims** (`MachineReclaimed` of `WorkerRun`): a hung agent does not keep its
  machine, provided the launching request ends within the reaper's grace period. Without that, or when a
  request is killed between creating the machine and recording its id, nobody
  knows the machine: the reaper destroys by recorded id.
- **ParkedIsFree**: an environment that is new, suspended or destroyed is held by
  no turn, with the idle reaper, a failing first dispatch (which destroys the row)
  and an acquiring turn racing.
- **NoWedge**: an ended turn that holds the lock has a handler on its way to release it.
  This matters because no reaper pass looks at an ended run again. Cancels at any point,
  failing Fly calls, crashes and repeated posts do not wedge a thread; two things do, and
  they are what `abandoned` records: a request or a pass that is killed between ending
  the run and the release, and a Fly error of the reaper in between.
- **LockReleased**: with fair requests and a fair reaper every turn gives the
  environment back, also when its runner hangs or leaves without a callback.
- **CalmCleansVault** (`VaultIsCleaned` of `WorkerRun`): with nothing killed and no error,
  an ended run whose bearer or token is still in Vault has somebody on the way to delete it,
  also when a cancel is through before the launching request has staged them. This
  rests on `markProvisioning` being unguarded: it reopens the cancelled run, and the reaper
  ends it, and tidies up, a second time. With the guard that `TerminalIsFinal` asks for
  (the mutant `MarkLive`) the secrets of a run cancelled during its launch would stay; a
  guard needs a clean-up with it.
- **LogSpec**: `Reporter` implements `RunLog`. With lost answers, late requests and a
  failing insert the stored events are the beginning of the emitted ones, they only
  grow, and no event leaves the buffer unsaved while the run is live.
- **LastPollShowsAll**: a page that has stopped polling shows every event the run had when
  it became terminal, as far as one answer goes. It needs the order of the two reads (the row
  first) and that a failed read of the events is no empty answer.
- **CallbackReturns**: `sendCallback` awaits a flush loop and then retries, and
  returns.
- **FlushedBeforeCallback**: the callback leaves with events unsent only when a flush
  failed for good or the timer's flush is in flight (see 3.2).

Sessions of runs:

- **FullSessionStands**: once the transcript's session is written the bridge does not
  replace it, whatever is posted again, unless the runner gave a request up (a lost
  answer) and the handler of it was still at work when the next one arrived.

Context sync:

- **HeadShowsItsCommit**: while nobody rewrites the branch, the snapshot of the mirrored
  head is exactly the tree of its commit, with webhooks late, repeated, out of order and
  side by side, full and incremental builds mixed, errors and lost answers anywhere.
  The reason is not obvious: a handler patches the paths of a snapshot it read earlier,
  but a snapshot belongs to its commit, and shas come from the commit's tree.
- **RecordShowsItsCommit**: the same for each ledger row, and for a resync also after a
  force push. **ContentMirrored**: what a snapshot lists can be opened.
- **CaughtUp**: a handler that started with the branch at its tip and met no other one
  leaves the mirror there, and only a handler that overlaps another may move it back.
- **MirrorSpec**: `ContextSync` implements `ContextMirror`. Whatever handlers are at work,
  what readers see changes as a whole from one commit to another, and never to a
  mixture, until somebody rewrites the branch; after a rewrite it may be part of a
  commit's files (`ForcePushHeals` below), and never has a version from nowhere.

Context save:

- **LandsOnce**: no retry puts a change on a ref twice.
- **OverwritesOnlyInWindow**: a direct save replaces the version its author saw, or one
  that came after its check, however often the push was rebuilt.
- **AccumulatesAlone**: a save answered with a pull request is in it until it is merged
  or closed, if no save met another one in the fallback.

Comments:

- **OneCommentInTime**: two comments are possible only when a claim ran out under a
  holder that was alive, or a comment was deleted between its edit and the record of
  it. **NoOrphan**: a posted comment is recorded, or the row is claimed without an id, so
  that the next claimant looks for it: this is what a lost answer or a death leaves.
- **Settles**: of calls that did not overlap, one that answered "refreshed" has left the
  body it rendered, and a sweep all that had changed when it took the pull request up, or
  the pull request flagged for the next one. Three things lose a refresh: a sweep that is
  killed, a refusal of GitHub and a flag that could not be written. A change that no sweep
  takes up, such as a session synced again under the link it had, is not promised anything:
  it is shown by the next call, whatever causes it.
- **AckedIsShown**: a queue message is acknowledged only after a refresh that began after
  it was sent. **LeftOnlyWhenExhausted**: a message leaves the queue otherwise only when
  its coalesced group has used up the deliveries.

Artifacts:

- **WrittenSurvives**: bytes written for a claim that still stands are in one of the two
  stores whatever the sweep does to others' claims. **MissingIsRevisited**: an object that is
  missing is looked at again, unless its heal failed. **BytesAreClaimed**: nothing outlives
  its last claim, unless a late retry wrote it.
- **SpooledSurvives**: a spooled artifact is delivered, was rejected, or can still be
  delivered, unless its emit and a clean-up crossed.

Uploads and metering:

- **NothingSkipped**: the watermark passes no transcript of which the server has nothing,
  but for those rejected, changed behind a discovery in progress, mistaken by the
  check before the answer for their earlier version, or left out by the sync itself. The
  last are what `dropped` records: a transcript that is not among the newest n of `--limit`,
  cannot be read, holds no session or belongs to a repository that is not synced. The
  watermark passes them, and only `sync --all` sends them.
- **ChargedOnce**: a row sent once is charged once at most, with redelivery, double
  delivery and lost answers. **CountedIsSettled**: what a window counted is charged, under way,
  dead-lettered with an alert, or lost with a cron that failed to send.

Each property of a passing run has a mutant in `PROJECT.json`: a plausible bug in one
definition that TLC then finds.

### 3.2 What does not hold

Each of these contradicts a sentence of the code base, quoted in `PROJECT.json`.

- `TerminalIsFinal` (`C/types.ts:39`): `markProvisioning` and `fail` patch the
  row by id alone. A user who cancels during the dispatch sees the run go back to
  provisioning, with its secrets gone; the reaper ends it a second time. Nothing else
  does: once the launching request is over, terminal is final (theorem `TerminalFinal`).
- `OneTurnAtATime` (`73-worker-run.sql:252`): the request that opens an environment
  dispatches its first turn. When a second turn is sent and acquires before it, the opening
  request fails its own run as busy and destroys the environment by id alone
  (`W/worker-environment-service.ts:171`, from `D/lib/adapters/worker-machine.ts:134`): the
  row is destroyed and the lock free while the agent of the second turn goes to work. A
  second post of the callback of an ended turn, which releases by id alone
  (`CompleteTurn`), is another way to the same state.
- `RacingTurnKeepsMachine` (`W/worker-reaper-service.ts:202`): the idle reaper
  deletes the machine and the volume first and applies its guard afterwards, so a
  turn that acquires in between keeps the row and loses the machine.
- `PartialIsResent` (`L/sync-cmd.ts:625`, `:628`): parts of an oversized session share
  its mtime, and the watermark advances to the newest mtime of each accepted batch. A
  sync that ends between two parts has moved past the session, and later syncs send
  nothing of it until the file changes. It takes a sync that fails or is killed, a part that
  is rejected, or one that never lands (theorem `SessionsWhole`).
- `ForcePushHeals` (`packages/context-sync/src/sync.ts:149`): a force push whose base is
  the mirrored head is not a gap to the code. It goes the incremental way, and the
  compare starts at the merge base: a file that only the dropped commits touched keeps
  its mirrored path. A resync repairs it.
- `OneSessionPerRun` (`W/persist-agent-session.ts:6`): the summary's key holds the start
  time, and the two writers do not agree on it: in the run the answers of both uploads are
  lost, the callback finds no session while an upload's handler is at work, and then the
  transcript writes under its own start time and the bridge under the run's. Neither row
  replaces the other. They do
  agree when the transcript has no time of its own and the run has, and there is one row too
  when both have one and no request was overtaken (theorem `SessionsAgree`).

Met on the way and listed as hazards with a note, but promised by no sentence or not
given a run: the last flush of the reporter is a no-op while the timer's flush is in
flight, so the callback can overtake events, which the ended run refuses
(`R/services/reporter.ts:74` against the comment at `:108`); a Fly error in `ReapStop`
leaves a terminal run holding the environment (in `NoWedge` it is `abandoned`); a
dispatch that fails after staging leaves its secret in Vault (without faults none is left:
`CalmCleansVault`); a turn that reads the
environment while the previous one is finishing resumes the session before that one;
overlapping refreshes may leave a hash that is not that of the text shown
(what `Settles` leaves out as `spoilt`); saves that meet in the fallback may lose one of them
(`ContextSave!EarlierSaveStays`); an emit answered because the marker was there has no
guard against a sweep in progress (`ArtifactBlobs!AnsweredSurvives`); a span that is
sent again is stamped anew and counted in a second window
(`UsageMeter!NeverDoubleCounted`). The last three are stated in their modules, and no run
checks them.

### 3.3 Bounds, and why they are enough

- *Runs.* One-shot runs share no state except the reaper's list, and the reaper
  treats each row by itself: one run is enough. In an environment two runs give every
  pair of holder and rival; a third would only repeat the second (the violations
  above already need only two). `RunSymmetry` permutes the runs; the liveness run
  does without it.
- *SafetyView* (`run_safety`): a view leaves out of what TLC tells apart the token once the
  runner has booted, which nobody reads any more, and the ghosts `orphaned` and `unclosed`
  outside pushing, which the next claim sets anew.
- *MaxAttempts* (4 in the code): two posts give the race of a callback with its
  repetition; a third finds the row as the second does. *MaxEvents* 3, *MaxBatch* 2 (500 in
  the code): a full batch, a rest and events that arrive while a batch is out. Beside the page
  (`Short`): 2 events in batches of one, and *MaxShown* 1 (1000 in the code), so that an
  answer may be cut.
- *Faults*, *Happens* and their kin: which faults an instance allows. Where the product of
  all is beyond TLC the profiles of an MC module take them in groups; the theorems
  hold for every set of them.
- *DispatchWithinGrace*: whether the launching request may be outlived by the reaper's
  900 s grace. It is `FALSE` except for `CalmReclaims` and `TerminalIsFinal`. Hosting
  limits a function to at most 300 s.
- *workspace_safety* does not combine the idle reaper with killed processes, which is too
  large for the run. Of the two turns, it is the one that opened the environment
  whose callback is posted again, or whose cancel is killed or meets a Fly error. The
  theorems `ParkedFree` and `NoTurnWedges` cover every combination.
- *ContextSync*: three commits allow a fork, or a chain with a webhook left out; two
  paths a change beside something carried over; two handlers any pair of a fresh and a
  stale one. Trees differ in which files they have and not in versions (`Contents` has
  one), since the mirror treats a change and an addition alike. `stamped` is written and
  read by nobody in the model, and a view leaves it out of what TLC tells apart.
- *services*: `ContextSave` has three saves and one other commit on one file, two
  retries; the first save is over when the other two are made (`FirstSave`), which leaves
  every meeting of two. `PrComment` has two calls and a sweep with crashes, lost answers
  and deletions, or one call and a sweep with every fault; two bodies and two comments,
  the second being the one too many. `PrQueue` has two messages of one pull request and
  one of another, two consumers, two deliveries. `ArtifactBlobs` has two artifacts and
  three requests, one of them a retry. `CliSync` has two transcripts, one of them of two
  parts, two syncs and two changes. `ArtifactSpool` has two emits of the same bytes
  and two uploads. `SessionPersist` has the two uploads of the code and two of its four
  callbacks. `UsageMeter` has two spans of two customers, three minutes and one redelivery.
  The symmetry swaps one pair of interchangeable values of each service; as only one service
  moves in a behaviour, one swap for all is sound.
- `CHECK_DEADLOCK FALSE` everywhere: a system whose runs are all over, or whose
  requests were all killed, stops.

### 3.4 Fairness

- `ReaperFairness`: the cron of `vercel.json` calls
  `D/app/api/cron/worker-reaper/route.ts` every five minutes and time passes, hence
  weak fairness of `Scan` and of `BecomeOverdue`. A pass may be killed and the next
  one starts again, so a step that keeps becoming possible is taken: strong fairness
  of the reaper's steps. A mark that fails (`ReapMarkFails`) has no fairness, so that the
  database may fail it any number of times but not for ever.
- `RequestFairness` and the fairness of `WorkerWorkspace`: a request that is not
  killed makes its next call. The instances that use it have no `crash`.
  `Scan(r)` of the workspace is strongly fair because the pass handles one run at a
  time and another run may be in its way.
- Nothing is assumed of the agent, of users, of the idle reaper or of the runner
  before it reports.
- `Reporter`: an awaited request is answered or fails, the loop and the retries
  take their steps; `Enqueue`, the timer and losses are not fair.
- The services are checked for safety only: their retries are somebody else's next
  call (a webhook, the next `sync`, the hourly sweep), which nothing guarantees.

## 4. Proofs

For every set of runs, calls, requests or messages, every bound and every set of
faults:

| Theorem | States | Inductive invariant |
|---|---|---|
| `WorkerRunProofs!TypeCorrect` | `Spec => []TypeOK` | itself |
| `PushingOwned` | `PushingHasOwner` | itself with types: only `Claim` enters pushing, and `Finish` leaves its handler's post with the run closed or `unclosed` |
| `LandedOnce` | `AtMostOneLanding` | `OneClaim`: landings and claims still to land are counted together; at most one unless `reopened`, and none while the run is in a state that admits a claim |
| `CompletedMeansLanded` | `CompletedHasBranch` | `LandedBranch`: a handler past its landing implies a branch |
| `LiveRunReports` | `LiveRunCanReport` | `SecretStaged` over `LaunchOrder`: which steps of the dispatch precede the machine, and that every deletion follows a terminal status, or a closing update that failed (`unclosed`) |
| `Refinement` | `Spec => LifecycleSpec` | `LaunchOrder`; every action maps to `Launch`, `Close`, `Advance` or a stutter |
| `TerminalFinal` | `FinalOnceLaunched`: no step moves a terminal run whose launching request is over | `LaunchOrder`, through the step of `Refinement` |
| `VaultCleaned` | `VaultIsCleaned`, if `Faults = {}` | `LaunchOrder` with `StagedInOrder` (nothing is staged before its step of the dispatch, and without faults no dispatch that staged fails) |
| `WorkerWorkspaceProofs!TypeCorrect` | `Spec => []TypeOK` | itself |
| `ParkedFree` | `ParkedIsFree` | itself |
| `NoTurnWedges` | `NoWedge` | with `HolderAcquired` (who holds the lock is past its acquire) and `PostsSent` (a post at work was sent) |
| `ReporterProofs!TypeCorrect` | `ReporterTypeOK` | with `PostsSent`: no more posts at work than were sent |
| `StoredPrefix`, `NothingForgotten` | `NoGap` (no stored event without the earlier ones), `ForgottenIsStored` (what left the buffer is stored, or the run is over) | `Prefix`: both, with `RequestsFollow` (a batch at work starts within the stored prefix) and `AnswerTrue` (an "ok" the loop has not read yet is backed by stored events) |
| `LogRefinement`, `ViewedLog` | `ReporterSpec => LogSpec`, `ViewSpec => LogSpec` | `Prefix`; an insert is `Store`, what the loop drops is `Forget`, all else but `Enqueue` and the end of the run stutters |
| `ViewTypeCorrect`, `PageComplete` | `ViewTypeOK`, `LastPollShowsAll` | `PageInv`: what was stored at the end is a beginning of what is stored now, and a poll that found the run terminal began after its end (`Settled`) |
| `FlushedFirst` | `FlushedBeforeCallback` | `LastFlush`: with `WaitsAfterPost`, a call that waits for an answer has posted |
| `SessionPersistProofs!PersistTypeCorrect`, `TranscriptStands`, `CallbackLeavesSession` | `PersistTypeOK`, `FullSessionStands`, `ReportedHasSession` (a callback that was let in leaves a session, unless the store failed) | `PersistInv`: unless `crossed`, one handler at work at a time (`OneAtWork`), uploads before callbacks (`UploadsComeFirst`), and a bridge past its check means nobody has written (`BridgeWritesFirst`, `FullIsWritten`) |
| `SyncTypeCorrect`, `WatermarkSkipsNothing` | `SyncTypeOK`, `NothingSkipped` | `SyncInv`: no mark is ahead of the clock (`Clocked`) and an mtime is one transcript's (`Apart`); what a scan has passed over is old or `slipped` (`ScanSees`); every mark a sync would write holds, and not only the one in the file (`MarksHold`); and what a request of the queue would pass is accounted for, or carried by it or by one before it (`QueueCovers`) |
| `SessionsAgree` | `OneSessionAlone`: `OneSessionPerRun` where the writers share a start time or no request was overtaken | `PersistInv` with the key each writer can have used (`TranscriptKey`, `RunKey`) |
| `SessionsWhole` | `HalfSentHasCause`: with no sync at work, a session that arrived in part was left so by a sync that ended, a rejection or a part that never landed | `SyncInv` with: the parts of a content are in one queue together (`QueuedWhole`), and what is stored has the others stored, refused, vanished, queued or ended with their sync (`StoredWhole`) |
| `ContextProofs!MirrorTypeCorrect`, `HeadFaithful`, `RecordsFaithful`, `NothingIsInvented`, `ListedIsStored`, `MirrorCatchesUp` | `TypeOK`, `HeadShowsItsCommit`, `RecordShowsItsCommit`, `NothingInvented` (a snapshot never lists a version its commit does not have), `ContentMirrored`, `CaughtUp` | `MirrorInv`: snapshots belong to their commit (`SnapshotsOK`), a handler that patches does so on a snapshot of the push's base (`PatchesTheBase`), and one that started at the last commit and is alone records it (`FreshBuildsTip`, `LoneIsAlone`, `CoveredStays`) |
| `MirrorPublishes` | `Spec => MirrorSpec` | `MirrorInv` with `HoldsBuilt`: the head, and whoever is about to patch, hold snapshots that exist. A push is `PushCommit`, a rewrite `Rewrite` or `PushCommit`, a write of the head `Publish`, or `PublishPart` after a rewrite; all else stutters |
| `SaveTypeCorrect`, `SaveLandsOnce`, `SaveOverwrites`, `SavesAccumulate` | `SaveTypeOK`, `LandsOnce`, `OverwritesOnlyInWindow`, `AccumulatesAlone` | `SaveInv`: a save on its way is on no ref yet (`NotYetLanded`), what its check has seen stays (`CheckHolds`), and unless `met` one save at a time is in the fallback (`OneInFallback`, `FoundStays`) |
| `PrProofs!QueueTypeCorrect`, `AckedShown`, `LeavesExhausted` | `QueueTypeOK`, `AckedIsShown`, `LeftOnlyWhenExhausted` | `QueueInv`: what a refreshed result promises to the batch that holds it |
| `CommentTypeCorrect`, `NeverASecond`, `CommentsFindable` | `CommentTypeOK`, `OneCommentInTime`, `NoOrphan` | `CommentInv`: unless `late`, the claim is a mutex. Whoever is between winning it and the record of the id is its holder, and a take-over is from a call that has ended |
| `CommentSettles` | `Settles` | `SettleInv`, unless `spoilt`: one call on its way at a time, the row leads to the one comment with a hash no newer than its text (`RowLeads`), and what the call knows at each step (`AloneOK`), as that its body is no older than what the last sweep owes (`Newest`) |
| `ArtifactProofs!BlobTypeCorrect`, `BytesSurvive`, `MissingRevisited`, `NoStrayBytes` | `BlobTypeOK`, `WrittenSurvives`, `MissingIsRevisited`, `BytesAreClaimed` | `BlobInv`: writers have claims (`WritersAreClaimed`); a row inserted after the sweep's count is kept by the fence (`FreshIsKept`); between count and stamp an unmatched row is left that leads back to missing bytes (`StampIsSafe`) |
| `SpoolTypeCorrect`, `SpoolCorrect` | `SpoolTypeOK`, `SpooledSurvives` | `SpoolInv`: what is before the watermark is settled (`PassedIsSettled`), and so is what a sync passes or is about to delete the bytes of (`PlanOK`), whatever the other syncs do; ids are of stored artifacts |
| `UsageMeterProofs!MeterTypeCorrect`, `ChargesOnce`, `CountsSettle` | `MeterTypeOK`, `ChargedOnce`, `CountedIsSettled` | `MeterInv`: a row is counted only in the window of its stamp (`CountedByStamp`), a key is Stripe's as soon as its rows are charged (`ChargedHasKey`, `KeyIsCharged`), an acknowledged message was charged |

Each proof has a lemma that the initial states satisfy the invariant, one that
every step keeps it with a case per action, and a theorem that combines them.
The assumptions are the named `ASSUME`s of the modules (positive numbers of posts,
batch size, deliveries and parts, faults within their kinds, model values that are
distinct). `ContextMirror` assumes nothing of its own.

Why strengthening is needed: `AtMostOneLanding` says nothing of a handler that has
claimed and not landed yet; two of those would violate it in the next step.
`LiveRunCanReport` says nothing of the time before the machine is up, when a secret
not staged yet would violate it later. `NoWedge` says nothing of a rival that holds
nothing, nor `NoGap` of a batch on its way, nor `LastPollShowsAll` of a poll between its two
reads, nor `HalfSentHasCause` of the parts still queued, nor `NothingSkipped` of the requests a sync
has yet to send, which are what it will move the watermark by. The theorems of the
services need the ghosts: without `crossed`, `late`, `spoilt`, `resent`, `raced`, `met`,
`slipped`, `dropped` or `abandoned` the statements are false, and so are those of
`WorkerRun` without `reopened`, `orphaned` and `unclosed`: each ghost is set by exactly
the interleaving or the failure that breaks them.

Only model-checked:

- the liveness properties (`EveryRunEnds`, `CalmReclaims`, `LockReleased`,
  `CallbackReturns`), which need fairness and are beyond the provers here;
- `CalmCleansVault` as such: the run restricts it to one profile of the instance. What it
  says is the theorem `VaultCleaned`;
- the violations.

## 5. Plan

1. The local-to-Fly promotion of an environment and database errors inside a turn.
2. `WorkerQuota`: counts, check and insert of concurrent launches.
3. An abstract save for `ContextSave`.
