-------------------------- MODULE MCWorkspaceSafety -------------------------
(***************************************************************************)
(* Safety of WorkerWorkspace for TLC, in one run of four profiles: what    *)
(* the configuration lets happen, killed processes, cancels, or callbacks  *)
(* posted again.  A bound: of the two turns it is the one that opened the  *)
(* environment whose callback is repeated, or whose cancel fails.          *)
(***************************************************************************)
EXTENDS WorkerWorkspace, TLC

VARIABLE profile

\* The other profiles, over the same variables.
Killing == INSTANCE WorkerWorkspace WITH Happens <- {"crash", "fly", "reaper fly"}
Cancelling == INSTANCE WorkerWorkspace WITH Happens <- {"cancel"}
Retrying == INSTANCE WorkerWorkspace WITH Happens <- {"retry"}

\* The cancel of a run that has the lock is killed, or its Fly call fails.
CancelFails(r) ==
  /\ lock = r /\ opener = r /\ cancel[r] # "secrets"
  /\ Killing!CancelCrash(r) \/ Killing!CancelStop(r)

PostedAgain(r) == attempt'[r] > attempt[r] /\ attempt[r] > 0

RunSymmetry == Permutations(Runs)

ProfiledInit ==
  Init /\ profile \in {"configured", "killing", "cancelling", "retrying"}

ProfiledNext ==
  /\ profile' = profile
  /\ \/ profile = "configured" /\ Next
     \/ profile = "killing" /\ Killing!Next
     \/ profile = "cancelling" /\ (Cancelling!Next \/ \E r \in Runs : CancelFails(r))
     \/ profile = "retrying" /\ Retrying!Next /\ \A r \in Runs : PostedAgain(r) => opener = r

ProfiledSpec == ProfiledInit /\ [][ProfiledNext]_<<vars, profile>>
=============================================================================
