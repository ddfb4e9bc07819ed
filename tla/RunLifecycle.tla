---------------------------- MODULE RunLifecycle ----------------------------
(***************************************************************************)
(* What the worker_run row promises to everybody who reads it (the run     *)
(* list, the concurrency cap, the reaper, the environment's next turn):    *)
(* the status only moves forward and a terminal status is final, from the  *)
(* moment the request that launched the run has finished writing.  While   *)
(* that request is still in flight its own closing write (machine id, or   *)
(* failure) is unconditional and may overwrite whatever is there.          *)
(***************************************************************************)
EXTENDS Naturals

CONSTANT Runs

VARIABLES status, open

vars == <<status, open>>

Terminal == {"completed", "failed", "cancelled", "timed_out"}
NonTerminal == {"queued", "provisioning", "running", "pushing"}
Statuses == {"absent"} \cup NonTerminal \cup Terminal

Rank == [s \in Statuses |->
           IF s \in Terminal THEN 5
           ELSE IF s = "pushing" THEN 4
           ELSE IF s = "running" THEN 3
           ELSE IF s = "provisioning" THEN 2
           ELSE IF s = "queued" THEN 1 ELSE 0]

Init == /\ status = [r \in Runs |-> "absent"]
        /\ open = [r \in Runs |-> FALSE]

\* The insert, by a request that goes on or ends with it.
Launch(r) == /\ status[r] = "absent"
             /\ status' = [status EXCEPT ![r] = "queued"]
             /\ \E goes \in BOOLEAN : open' = [open EXCEPT ![r] = goes]

\* A closing write of the launching request, or its death before that write.  A write
\* of which no answer came is followed by another one.
Close(r) == /\ open[r]
            /\ \E s \in {"provisioning", "failed", status[r]} :
                 status' = [status EXCEPT ![r] = s]
            /\ \E goes \in BOOLEAN : open' = [open EXCEPT ![r] = goes]

\* Events, callback, cancel, reaper.
Advance(r) == /\ status[r] \in NonTerminal
              /\ \E s \in Statuses :
                   /\ Rank[s] > Rank[status[r]]
                   /\ status' = [status EXCEPT ![r] = s]
              /\ UNCHANGED open

Next == \E r \in Runs : Launch(r) \/ Close(r) \/ Advance(r)

Spec == Init /\ [][Next]_vars
=============================================================================
