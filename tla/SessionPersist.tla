--------------------------- MODULE SessionPersist ---------------------------
(***************************************************************************)
(* The agent session of one worker run.  The runner uploads the transcript *)
(* and then posts the terminal callback; each request has a handler that   *)
(* writes a session under the trace of the run, the callback's only when   *)
(* it finds none.  A handler whose request was given up goes on.           *)
(*                                                                         *)
(* agent_session_summary keeps one row per start time of a trace: a later  *)
(* insert replaces the row with its own start time, and no other.          *)
(***************************************************************************)
EXTENDS Naturals, FiniteSets

CONSTANTS MaxUploads,    \* posts of the transcript, 2 in the code
          MaxCallbacks,  \* posts of the callback, 4 in the code
          PersistFaults  \* what goes wrong: see below

PersistFaultKinds == {"lost answer", "store error", "server error"}

ASSUME UploadsAssumption == MaxUploads \in Nat \ {0} /\ MaxCallbacks \in Nat \ {0}
ASSUME PersistFaultsAssumption == PersistFaults \subseteq PersistFaultKinds

\* Handlers, one for each post.
Uploaders == {"transcript"} \X (1..MaxUploads)
Bridges == {"bridge"} \X (1..MaxCallbacks)
Writers == Uploaders \cup Bridges

VARIABLES
  timed,   \* the transcript carries absolute times
  begun,   \* worker_run.started_at is set
  vaulted, \* Vault holds the run's secret
  phase,   \* the runner: "upload", "report", or "exit"
  sent,    \* uploads posted, callbacks posted
  awaited, \* the post whose answer the runner awaits, <<>> for none
  handler, \* each handler's next step
  summary, \* rows of agent_session_summary: start time |-> who wrote it
  full,    \* a transcript's session was written (ghost)
  crossed  \* a request was posted with the handler of an earlier one at work (ghost)

runnerVars == <<phase, sent, awaited>>
persistVars == <<timed, begun, vaulted, runnerVars, handler, summary, full, crossed>>

HandlerSteps == {"none", "auth", "check", "spans", "summary", "done", "refused", "failed"}
Working(w) == handler[w] \in {"auth", "check", "spans", "summary"}

\* The start time a session is written under: the transcript's own, the run's, or one
\* counted from the time of the write.
StartTimes == {<<"own">>, <<"run">>} \cup Writers
StartTime(w) ==
  IF timed /\ w \in Uploaders THEN <<"own">> ELSE IF begun THEN <<"run">> ELSE w

PersistTypeOK ==
  /\ timed \in BOOLEAN /\ begun \in BOOLEAN /\ vaulted \in BOOLEAN
  /\ phase \in {"upload", "report", "exit"}
  /\ sent \in [upload : 0..MaxUploads, report : 0..MaxCallbacks]
  /\ awaited \in Writers \cup {<<>>}
  /\ handler \in [Writers -> HandlerSteps]
  /\ DOMAIN summary \subseteq StartTimes
  /\ \A t \in DOMAIN summary : summary[t] \in {"transcript", "bridge"}
  /\ full \in BOOLEAN /\ crossed \in BOOLEAN
  /\ awaited # <<>> => handler[awaited] # "none"

PersistInit ==
  /\ timed \in BOOLEAN /\ begun \in BOOLEAN /\ vaulted = TRUE
  /\ phase = "upload" /\ sent = [upload |-> 0, report |-> 0] /\ awaited = <<>>
  /\ handler = [w \in Writers |-> "none"]
  /\ summary = <<>>
  /\ full = FALSE /\ crossed = FALSE

Handles(w, from, to) == handler[w] = from /\ handler' = [handler EXCEPT ![w] = to]

---------------------------------------------------------------------------
\* The runner.

Posts(w) ==
  /\ awaited = <<>>
  /\ Handles(w, "none", "auth")
  /\ awaited' = w
  /\ crossed' = (crossed \/ \E v \in Writers : Working(v))
  /\ UNCHANGED <<timed, begun, vaulted, phase, summary, full>>

PostTranscript ==
  /\ phase = "upload" /\ sent.upload < MaxUploads
  /\ sent' = [sent EXCEPT !.upload = @ + 1]
  /\ Posts(<<"transcript", sent'.upload>>)

PostCompletion ==
  /\ phase = "report" /\ sent.report < MaxCallbacks
  /\ sent' = [sent EXCEPT !.report = @ + 1]
  /\ Posts(<<"bridge", sent'.report>>)

\* An empty or oversized transcript is not uploaded; two posts are the most.
SkipTranscript ==
  /\ phase = "upload" /\ awaited = <<>>
  /\ sent.upload \in {0, MaxUploads}
  /\ phase' = "report"
  /\ UNCHANGED <<timed, begun, vaulted, sent, awaited, handler, summary, full, crossed>>

\* Any answer to an upload but a 5xx ends the uploads; for the callback only a 2xx does.
\* A failed write is answered like a good one.
TakeReply ==
  /\ awaited # <<>>
  /\ handler[awaited] \in {"done", "refused", "failed"}
  /\ awaited' = <<>>
  /\ phase' = IF awaited \in Uploaders THEN "report"
              ELSE IF handler[awaited] # "refused" THEN "exit" ELSE phase
  /\ UNCHANGED <<timed, begun, vaulted, sent, handler, summary, full, crossed>>

\* The answer is lost, with the handler still at work or not.
LoseReply ==
  /\ "lost answer" \in PersistFaults
  /\ awaited # <<>>
  /\ awaited' = <<>>
  /\ UNCHANGED <<timed, begun, vaulted, phase, sent, handler, summary, full, crossed>>

\* A 5xx: the handler ended before it did anything.
ServerFails(w) ==
  /\ "server error" \in PersistFaults
  /\ awaited = w /\ Handles(w, "auth", "none")
  /\ awaited' = <<>>
  /\ UNCHANGED <<timed, begun, vaulted, phase, sent, summary, full, crossed>>

---------------------------------------------------------------------------
\* The handlers.

\* The callback's handler has applied it by then, which deletes the secret, unless the
\* run was claimed by another post.
Authorize(w) ==
  /\ IF ~vaulted THEN Handles(w, "auth", "refused") /\ UNCHANGED vaulted
     ELSE IF w \in Bridges
       THEN Handles(w, "auth", "check") /\ vaulted' \in BOOLEAN
       ELSE Handles(w, "auth", "spans") /\ UNCHANGED vaulted
  /\ UNCHANGED <<timed, begun, runnerVars, summary, full, crossed>>

\* A transcript that does not parse or validate leaves no session.
RejectTranscript(w) ==
  /\ w \in Uploaders /\ Handles(w, "spans", "done")
  /\ UNCHANGED <<timed, begun, vaulted, runnerVars, summary, full, crossed>>

\* Mutant: the bridge always writes.
CheckSkipped(w) ==
  /\ Handles(w, "check", "spans")
  /\ UNCHANGED <<timed, begun, vaulted, runnerVars, summary, full, crossed>>

\* hasPersistedSession.
CheckSession(w) ==
  /\ Handles(w, "check", IF DOMAIN summary # {} THEN "done" ELSE "spans")
  /\ UNCHANGED <<timed, begun, vaulted, runnerVars, summary, full, crossed>>

\* otel_traces first.
WriteSpans(w) ==
  /\ Handles(w, "spans", "summary")
  /\ UNCHANGED <<timed, begun, vaulted, runnerVars, summary, full, crossed>>

WriteSummary(w) ==
  /\ Handles(w, "summary", "done")
  /\ summary' = [t \in DOMAIN summary \cup {StartTime(w)} |->
                   IF t = StartTime(w) THEN w[1] ELSE summary[t]]
  /\ full' = (full \/ w \in Uploaders)
  /\ UNCHANGED <<timed, begun, vaulted, runnerVars, crossed>>

\* A query or an insert fails: logged, and nobody is told.
StoreFails(w) ==
  /\ "store error" \in PersistFaults
  /\ handler[w] \in {"check", "spans", "summary"}
  /\ handler' = [handler EXCEPT ![w] = "failed"]
  /\ UNCHANGED <<timed, begun, vaulted, runnerVars, summary, full, crossed>>

\* A cancel or the reaper deletes the secret meanwhile.
SecretDeleted ==
  /\ vaulted /\ vaulted' = FALSE
  /\ UNCHANGED <<timed, begun, runnerVars, handler, summary, full, crossed>>

PersistNext ==
  \/ PostTranscript \/ PostCompletion \/ SkipTranscript \/ TakeReply \/ LoseReply
  \/ \E w \in Writers :
       \/ ServerFails(w) \/ Authorize(w) \/ RejectTranscript(w) \/ CheckSession(w)
       \/ WriteSpans(w) \/ WriteSummary(w) \/ StoreFails(w)
  \/ SecretDeleted

PersistSpec == PersistInit /\ [][PersistNext]_persistVars

---------------------------------------------------------------------------
\* "the low-fidelity bridge must not overwrite it": once written, the session of the
\* transcript is the only one of the run, unless a request was given up with its
\* handler at work and the next one overtook it.
FullSessionStands ==
  full /\ ~crossed => \A t \in DOMAIN summary : summary[t] = "transcript"

\* A callback that was let in leaves the run with a session, unless the store failed.
ReportedHasSession ==
  (\E w \in Bridges : handler[w] = "done") => DOMAIN summary # {}

OneSession == \A t, u \in DOMAIN summary : t = u

\* persist-agent-session.ts: "one deterministic identity (...), so whichever lands later
\* replaces the other's rows": also for a transcript with times of its own and a run that
\* has a start time for the bridge.
OneSessionPerRun == timed /\ begun => OneSession
=============================================================================
