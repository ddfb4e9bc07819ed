------------------------ MODULE MCWorkerRunLiveness -------------------------
(***************************************************************************)
(* Liveness of WorkerRun for TLC, in one run.  A behaviour has one of two  *)
(* profiles: every fault of the configuration and a fair reaper only, or   *)
(* no fault, a launch within the grace and fair requests.                  *)
(***************************************************************************)
EXTENDS WorkerRun

VARIABLE calm

\* The second profile, over the same variables.
Calm == INSTANCE WorkerRun WITH MaxAttempts <- 2, Faults <- {}, DispatchWithinGrace <- TRUE

AllFaults == FaultKinds

profiled == <<vars, calm>>

\* One of two actions, by the profile.
Either(rough, quiet) ==
  /\ calm' = calm
  /\ \/ ~calm /\ rough
     \/ calm /\ quiet

ProfiledInit ==
  /\ calm \in BOOLEAN
  /\ IF calm THEN Calm!Init ELSE Init

ProfiledNext == Either(Next, Calm!Next)

\* ReaperFairness of both profiles, RequestFairness of the second one.
ProfiledFairness ==
  /\ WF_profiled(Either(Scan, Calm!Scan))
  /\ \A r \in Runs :
       /\ WF_profiled(Either(BecomeOverdue(r), Calm!BecomeOverdue(r)))
       /\ SF_profiled(Either(ReapMark(r), Calm!ReapMark(r)))
       /\ SF_profiled(Either(ReapMachine(r), Calm!ReapMachine(r)))
       /\ SF_profiled(Either(ReapSecrets(r), Calm!ReapSecrets(r)))
       /\ WF_profiled(Either(FALSE, Calm!DispatchNext(r) /\ dispatch[r] # "none"))
       /\ WF_profiled(Either(FALSE, Calm!CancelMachine(r) \/ Calm!CancelSecrets(r)))
       /\ WF_profiled(Either(FALSE, Calm!RetryCallback(r) \/ Calm!RunnerExit(r)))

ProfiledSpec == ProfiledInit /\ [][ProfiledNext]_profiled /\ ProfiledFairness

\* With only the reaper guaranteed to run, every run reaches a terminal status
\* (worker-reaper-service.ts): EveryRunEnds of WorkerRun, for both profiles.

\* With nothing killed, no runner stays up for ever: MachineReclaimed of WorkerRun, for
\* the second profile.
CalmReclaims == calm => MachineReclaimed

\* With nothing killed and no error, no ended run leaves its secrets behind:
\* VaultIsCleaned of WorkerRun, for the second profile.
CalmCleansVault == calm => Calm!VaultIsCleaned
=============================================================================
