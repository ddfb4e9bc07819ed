------------------------------- MODULE PrQueue ------------------------------
(***************************************************************************)
(* The queue in front of the session comments.  A synced session enqueues  *)
(* a message for its pull request; a consumer coalesces a batch, asks the  *)
(* dashboard for one refresh per pull request, and acknowledges or retries *)
(* each message by the result for its own.  What is given up, or was never *)
(* enqueued, is left to the hourly sweep.                                  *)
(*                                                                         *)
(* A refresh is one step here; PrComment has its steps.                    *)
(***************************************************************************)
EXTENDS Naturals

CONSTANTS Notices,        \* synced sessions, each with one message
          PullOf,         \* the pull request of each
          Consumers,      \* invocations of the consumer
          MaxDeliveries,  \* PR_COMMENT_MAX_RETRY_ATTEMPTS, and max_retries: 5
          QueueFaults     \* what goes wrong: see below

QueueFaultKinds == {"enqueue fails", "refresh fails", "request fails", "consumer dies"}

ASSUME DeliveriesAssumption == MaxDeliveries \in Nat \ {0}
ASSUME QueueFaultsAssumption == QueueFaults \subseteq QueueFaultKinds

Pulls == {PullOf[n] : n \in Notices}
NoConsumer == "nobody"

ASSUME ConsumersAssumption == NoConsumer \notin Consumers

VARIABLES
  edits,      \* how often what the comment renders has changed
  shows,      \* the change the comment was last rendered after
  enqueuedAt, \* the change each message tells of
  place,      \* where each message is
  deliveries, \* msg.attempts
  batchOf,    \* the consumer that has the message
  result      \* per consumer and pull request, what the refresh of it came to

deliveryVars == <<place, deliveries, batchOf, result>>
queueVars == <<edits, shows, enqueuedAt, deliveryVars>>

NoticePlaces == {"none", "queue", "batch", "acked", "left"}
Results == {"none", "refreshed", "failed"}

QueueTypeOK ==
  /\ edits \in [Pulls -> Nat] /\ shows \in [Pulls -> Nat]
  /\ \A p \in Pulls : shows[p] <= edits[p]
  /\ enqueuedAt \in [Notices -> Nat]
  /\ place \in [Notices -> NoticePlaces]
  /\ deliveries \in [Notices -> 0..(MaxDeliveries + 1)]
  /\ batchOf \in [Notices -> Consumers \cup {NoConsumer}]
  /\ result \in [Consumers -> [Pulls -> Results]]
  /\ \A n \in Notices : batchOf[n] # NoConsumer <=> place[n] = "batch"

QueueInit ==
  /\ edits = [p \in Pulls |-> 0] /\ shows = [p \in Pulls |-> 0]
  /\ enqueuedAt = [n \in Notices |-> 0]
  /\ place = [n \in Notices |-> "none"]
  /\ deliveries = [n \in Notices |-> 0]
  /\ batchOf = [n \in Notices |-> NoConsumer]
  /\ result = [k \in Consumers |-> [p \in Pulls |-> "none"]]

Batch(k) == {n \in Notices : batchOf[n] = k}
Group(k, p) == {n \in Batch(k) : PullOf[n] = p}
Targets(k) == {PullOf[n] : n \in Batch(k)}

---------------------------------------------------------------------------
\* POST /v1/agents/sync stores the session, then enqueues; a failure is only logged.
SyncSession(n) ==
  /\ place[n] = "none"
  /\ edits' = [edits EXCEPT ![PullOf[n]] = @ + 1]
  /\ enqueuedAt' = [enqueuedAt EXCEPT ![n] = edits'[PullOf[n]]]
  /\ \E to \in {"queue"} \cup (IF "enqueue fails" \in QueueFaults THEN {"left"} ELSE {}) :
       place' = [place EXCEPT ![n] = to]
  /\ UNCHANGED <<shows, deliveries, batchOf, result>>

TakeBatch(k, ns) ==
  /\ Batch(k) = {}
  /\ ns # {} /\ \A n \in ns : place[n] = "queue"
  /\ batchOf' = [n \in Notices |-> IF n \in ns THEN k ELSE batchOf[n]]
  /\ place' = [n \in Notices |-> IF n \in ns THEN "batch" ELSE place[n]]
  /\ deliveries' = [n \in Notices |-> deliveries[n] + (IF n \in ns THEN 1 ELSE 0)]
  /\ result' = [result EXCEPT ![k] = [p \in Pulls |-> "none"]]
  /\ UNCHANGED <<edits, shows, enqueuedAt>>

\* One pull request of the request to the dashboard.
RefreshTarget(k, p) ==
  /\ p \in Targets(k) /\ result[k][p] = "none"
  /\ \/ /\ shows' = [shows EXCEPT ![p] = edits[p]]
        /\ result' = [result EXCEPT ![k][p] = "refreshed"]
     \/ /\ "refresh fails" \in QueueFaults
        /\ UNCHANGED shows
        /\ result' = [result EXCEPT ![k][p] = "failed"]
  /\ UNCHANGED <<edits, enqueuedAt, place, deliveries, batchOf>>

\* retryOrGiveUp: the most delivered message of the group decides for all of it.
GivesUp(group) == \E n \in group : deliveries[n] >= MaxDeliveries
Retried(group) == IF GivesUp(group) THEN "left" ELSE "queue"

Settle(k, to(_)) ==
  /\ place' = [n \in Notices |-> IF n \in Batch(k) THEN to(PullOf[n]) ELSE place[n]]
  /\ batchOf' = [n \in Notices |-> IF n \in Batch(k) THEN NoConsumer ELSE batchOf[n]]
  /\ UNCHANGED <<edits, shows, enqueuedAt, deliveries, result>>

\* Mutant: an answer of the dashboard settles the batch, whatever it says.
RouteAcksAll(k) ==
  /\ Batch(k) # {} /\ \A p \in Targets(k) : result[k][p] # "none"
  /\ Settle(k, LAMBDA p : "acked")

\* Mutant: the most delivered message of the batch decides for all groups.
RouteByBatch(k) ==
  /\ Batch(k) # {} /\ \A p \in Targets(k) : result[k][p] # "none"
  /\ Settle(k, LAMBDA p : IF result[k][p] = "refreshed" THEN "acked" ELSE Retried(Batch(k)))

RouteResults(k) ==
  /\ Batch(k) # {} /\ \A p \in Targets(k) : result[k][p] # "none"
  /\ Settle(k, LAMBDA p : IF result[k][p] = "refreshed" THEN "acked" ELSE Retried(Group(k, p)))

\* The request as a whole fails, whatever the dashboard had done of it by then.
RequestFails(k) ==
  /\ "request fails" \in QueueFaults
  /\ Batch(k) # {}
  /\ Settle(k, LAMBDA p : Retried(Group(k, p)))

\* Unanswered messages come again, up to max_retries times.
ConsumerDies(k) ==
  /\ "consumer dies" \in QueueFaults
  /\ Batch(k) # {}
  /\ place' = [n \in Notices |->
                 IF n \notin Batch(k) THEN place[n]
                 ELSE IF deliveries[n] > MaxDeliveries THEN "left" ELSE "queue"]
  /\ batchOf' = [n \in Notices |-> IF n \in Batch(k) THEN NoConsumer ELSE batchOf[n]]
  /\ UNCHANGED <<edits, shows, enqueuedAt, deliveries, result>>

QueueNext ==
  \/ \E n \in Notices : SyncSession(n)
  \/ \E k \in Consumers :
       \/ \E ns \in SUBSET Notices : TakeBatch(k, ns)
       \/ \E p \in Pulls : RefreshTarget(k, p)
       \/ RouteResults(k) \/ RequestFails(k) \/ ConsumerDies(k)

QueueSpec == QueueInit /\ [][QueueNext]_queueVars

---------------------------------------------------------------------------
\* A message is acknowledged with its own result and no other's: the comment has been
\* rendered since the sync it tells of, unless it was left to the sweep.
AckedIsShown ==
  \A n \in Notices : place[n] = "acked" => shows[PullOf[n]] >= enqueuedAt[n]

\* "the MAX of the group governs": only a pull request with a message that was delivered
\* as often as it may be is left to the sweep, and no failure of another one makes it so.
LeftOnlyWhenExhausted ==
  \A n \in Notices :
    place[n] = "left" /\ deliveries[n] > 0 =>
      \E o \in Notices : PullOf[o] = PullOf[n] /\ deliveries[o] >= MaxDeliveries
=============================================================================
