----------------------------- MODULE MCProgress -----------------------------
(***************************************************************************)
(* Liveness of WorkerWorkspace and Reporter for TLC, and RunView, in one   *)
(* run: a behaviour is one of an environment and its turns, one of the     *)
(* reporter inside a runner, or one of a reporter of fewer events with the *)
(* run page beside it; what it is not about stays at its initial state.    *)
(***************************************************************************)
EXTENDS WorkerWorkspace, RunView

VARIABLE subject

progressVars == <<vars, viewVars, subject>>

\* The page, with a shorter run.
Short == INSTANCE RunView WITH MaxEvents <- 2, MaxBatch <- 1, MaxPosts <- 1

OfEnvironment(step) ==
  subject = "environment" /\ step /\ UNCHANGED <<viewVars, subject>>
\* A step of the reporter, and the one of the shorter run.
OfReporter(step, short) ==
  /\ \/ subject = "reporter" /\ Beside(step)
     \/ subject = "page" /\ Beside(short)
  /\ UNCHANGED <<vars, subject>>
OfPage(step) ==
  subject = "page" /\ step /\ UNCHANGED <<vars, subject>>

ProgressInit ==
  subject \in {"environment", "reporter", "page"} /\ Init /\ ViewInit

ProgressNext ==
  \/ OfEnvironment(Next)
  \/ OfReporter(ReporterNext, Short!ReporterNext)
  \/ OfPage(GetRun \/ GetRunEvents \/ PollFails)

\* Fairness and ReporterFairness, each of its own behaviours.
ProgressFairness ==
  /\ \A r \in Runs :
       /\ WF_progressVars(OfEnvironment(TurnNext(r)))
       /\ WF_progressVars(OfEnvironment(CancelNext(r)))
       /\ SF_progressVars(OfEnvironment(Scan(r)))
       /\ WF_progressVars(OfEnvironment(ReaperNext(r)))
       /\ \A a \in Attempts : WF_progressVars(OfEnvironment(CallbackNext(r, a)))
  /\ WF_progressVars(OfReporter(FlushNext, Short!FlushNext))
  /\ WF_progressVars(OfReporter(ServerNext, Short!ServerNext))
  /\ WF_progressVars(OfReporter(PostReport \/ StopRetrying, Short!PostReport \/ Short!StopRetrying))
  /\ WF_progressVars(OfReporter(TakeReport \/ LoseCallback, Short!TakeReport \/ Short!LoseCallback))

ProgressSpec == ProgressInit /\ [][ProgressNext]_progressVars /\ ProgressFairness
=============================================================================
