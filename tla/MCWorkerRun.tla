---------------------------- MODULE MCWorkerRun -----------------------------
(* WorkerRun for TLC: the fault sets of the runs.                          *)
EXTENDS WorkerRun

NoFaults == {}
AllFaults == FaultKinds

\* What the safety run tells apart: a token is of use until the runner has booted, the
\* ghosts of a claim until the run leaves pushing, and the next claim sets them anew.
SafetyView ==
  <<row, secret, dispatch, client, callback, events, cancel, reap, landed, reopened,
    {r \in Runs : runner[r] \in {"none", "boot"} /\ token[r]},
    {r \in Runs : status[r] = "pushing" /\ orphaned[r]},
    {r \in Runs : status[r] = "pushing" /\ unclosed[r]}>>
=============================================================================
