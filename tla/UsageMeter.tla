----------------------------- MODULE UsageMeter -----------------------------
(***************************************************************************)
(* Usage metering.  Every minute a cron counts the rows stamped in the     *)
(* minute before and sends one message per customer to a queue, or, where  *)
(* there is no queue, meters them itself.  The consumer reports a message  *)
(* to Stripe and acknowledges it, or has it delivered again; what fails too*)
(* often ends in the dead-letter queue, which raises an alert.             *)
(*                                                                         *)
(* The rows counted stand for their number, so that what a charge is for   *)
(* can be told.  Minutes are counted from 0; minute m is counted by the    *)
(* cron of m.                                                              *)
(***************************************************************************)
EXTENDS Naturals, FiniteSets

CONSTANTS Spans,         \* rows of otel_traces
          CustomerOf,    \* StripeCustomerId of each
          LastMinute,    \* bound on the clock
          Redeliveries,  \* max_retries of the queue, 5 in wrangler.toml
          MeterFaults    \* what goes wrong: see below

MeterFaultKinds == {"cron fails", "send fails", "stripe fails", "lost answer",
                    "delivered twice", "sent again"}

ASSUME MeterBoundsAssumption == LastMinute \in Nat /\ Redeliveries \in Nat
ASSUME MeterFaultsAssumption == MeterFaults \subseteq MeterFaultKinds

Customers == {CustomerOf[x] : x \in Spans}
Minutes == 0..LastMinute

VARIABLES
  minute,   \* the clock
  stamp,    \* CreatedAt of each row, LastMinute + 1 before it is made
  landed,   \* rows in ClickHouse
  cron,     \* the cron of each minute: "due", "sending", or "done"
  counted,  \* <<customer, minute>> |-> the rows of its message
  message,  \* where that message is
  tries,    \* its failed deliveries
  keys,     \* idempotency keys Stripe has seen
  charges,  \* how often each row was charged
  resent    \* rows that were sent again (ghost)

ingest == <<minute, stamp, landed, resent>>
meterVars == <<ingest, cron, counted, message, tries, keys, charges>>

Messages == Customers \X Minutes
Places == {"none", "outbox", "queue", "dead", "acked", "alerted", "lost"}

MeterTypeOK ==
  /\ minute \in Minutes
  /\ stamp \in [Spans -> 0..(LastMinute + 1)]
  /\ landed \subseteq Spans /\ resent \subseteq Spans
  /\ cron \in [Minutes -> {"due", "sending", "done"}]
  /\ counted \in [Messages -> SUBSET Spans]
  /\ message \in [Messages -> Places]
  /\ tries \in [Messages -> 0..(Redeliveries + 1)]
  /\ keys \subseteq Messages
  /\ charges \in [Spans -> Nat]
  /\ \A x \in Messages : message[x] # "none" => counted[x] # {}

MeterInit ==
  /\ minute = 0
  /\ stamp = [x \in Spans |-> LastMinute + 1]
  /\ landed = {} /\ resent = {}
  /\ cron = [m \in Minutes |-> "due"]
  /\ counted = [x \in Messages |-> {}]
  /\ message = [x \in Messages |-> "none"]
  /\ tries = [x \in Messages |-> 0]
  /\ keys = {}
  /\ charges = [x \in Spans |-> 0]

Puts(x, from, to) == message[x] = from /\ message' = [message EXCEPT ![x] = to]

---------------------------------------------------------------------------
\* Ingestion.

MinutePasses ==
  /\ minute < LastMinute
  /\ minute' = minute + 1
  /\ UNCHANGED <<stamp, landed, resent, cron, counted, message, tries, keys, charges>>

\* The converter stamps the row, and the insert makes it visible later.
StampSpan(x) ==
  /\ stamp[x] > LastMinute
  /\ stamp' = [stamp EXCEPT ![x] = minute]
  /\ UNCHANGED <<minute, landed, resent, cron, counted, message, tries, keys, charges>>

LandSpan(x) ==
  /\ stamp[x] <= LastMinute /\ x \notin landed
  /\ landed' = landed \cup {x}
  /\ UNCHANGED <<minute, stamp, resent, cron, counted, message, tries, keys, charges>>

\* A client sends the span again; the new version replaces the row, and its stamp.
ResendSpan(x) ==
  /\ "sent again" \in MeterFaults
  /\ x \in landed \ resent
  /\ stamp' = [stamp EXCEPT ![x] = minute]
  /\ resent' = resent \cup {x}
  /\ UNCHANGED <<minute, landed, cron, counted, message, tries, keys, charges>>

---------------------------------------------------------------------------
\* stripeMeterEventHandler, at the end of minute m or later.

InWindow(m) == {x \in landed : stamp[x] = m}
CountedFor(c, m) == {x \in InWindow(m) : CustomerOf[x] = c}

CountWindow(m) ==
  /\ cron[m] = "due" /\ m < minute
  /\ counted' = [x \in Messages |-> IF x[2] = m THEN CountedFor(x[1], m) ELSE counted[x]]
  /\ message' = [x \in Messages |->
                   IF x[2] = m /\ counted'[x] # {} THEN "outbox" ELSE message[x]]
  /\ cron' = [cron EXCEPT ![m] = "sending"]
  /\ UNCHANGED <<ingest, tries, keys, charges>>

Outbox(m) == {x \in Messages : x[2] = m /\ message[x] = "outbox"}

\* sendBatch, one customer after the other in batches of a hundred.
SendBatch(x) ==
  /\ cron[x[2]] = "sending"
  /\ Puts(x, "outbox", "queue")
  /\ UNCHANGED <<ingest, cron, counted, tries, keys, charges>>

\* A call of the cron fails, and nothing runs it again: what was not sent is not
\* metered.  The batch at hand may have been taken all the same.
CronFails(m) ==
  /\ \/ "cron fails" \in MeterFaults /\ cron[m] = "due" /\ m < minute
     \/ "send fails" \in MeterFaults /\ cron[m] = "sending" /\ Outbox(m) # {}
  /\ cron' = [cron EXCEPT ![m] = "done"]
  /\ \E taken \in SUBSET Outbox(m) :
       message' = [x \in Messages |-> IF x \in taken THEN "queue"
                                      ELSE IF x \in Outbox(m) THEN "lost" ELSE message[x]]
  /\ UNCHANGED <<ingest, counted, tries, keys, charges>>

CronEnds(m) ==
  /\ cron[m] = "sending" /\ Outbox(m) = {}
  /\ cron' = [cron EXCEPT ![m] = "done"]
  /\ UNCHANGED <<ingest, counted, message, tries, keys, charges>>

---------------------------------------------------------------------------
\* Stripe, which charges once per idempotency key.

\* Mutant: a key for every try.
KeyOfTry(x) == <<x[1], x[2], tries[x]>>

Key(x) == <<x[1], x[2]>>

Charge(x) ==
  /\ keys' = keys \cup {Key(x)}
  /\ charges' = IF Key(x) \in keys THEN charges
                ELSE [y \in Spans |-> charges[y] + (IF y \in counted[x] THEN 1 ELSE 0)]

\* The inline path: one customer's failure is logged and does not stop the others.
MeterInline(x) ==
  /\ cron[x[2]] = "sending"
  /\ \/ Charge(x) /\ Puts(x, "outbox", "acked")
     \/ "lost answer" \in MeterFaults /\ Charge(x) /\ Puts(x, "outbox", "alerted")
     \/ "stripe fails" \in MeterFaults /\ Puts(x, "outbox", "alerted")
          /\ UNCHANGED <<keys, charges>>
  /\ UNCHANGED <<ingest, cron, counted, tries>>

\* handleUsageMeterQueue.  An acknowledgement may get lost: the message comes again,
\* as it may for no reason.
DeliverMessage(x) ==
  /\ Charge(x)
  /\ \/ Puts(x, "queue", "acked")
     \/ "delivered twice" \in MeterFaults /\ message[x] = "queue" /\ UNCHANGED message
  /\ UNCHANGED <<ingest, cron, counted, tries>>

\* Mutant: a failed delivery is acknowledged at the limit.
FailureAcked(x) ==
  /\ \/ "lost answer" \in MeterFaults /\ Charge(x)
     \/ "stripe fails" \in MeterFaults /\ UNCHANGED <<keys, charges>>
  /\ Puts(x, "queue", IF tries[x] = Redeliveries THEN "acked" ELSE "queue")
  /\ tries' = [tries EXCEPT ![x] = @ + 1]
  /\ UNCHANGED <<ingest, cron, counted>>

\* The call to Stripe fails, perhaps after it charged: after max_retries the message
\* is a dead letter.
DeliveryFails(x) ==
  /\ \/ "lost answer" \in MeterFaults /\ Charge(x)
     \/ "stripe fails" \in MeterFaults /\ UNCHANGED <<keys, charges>>
  /\ Puts(x, "queue", IF tries[x] = Redeliveries THEN "dead" ELSE "queue")
  /\ tries' = [tries EXCEPT ![x] = @ + 1]
  /\ UNCHANGED <<ingest, cron, counted>>

\* handleUsageMeterDlq.
RaiseAlert(x) ==
  /\ Puts(x, "dead", "alerted")
  /\ UNCHANGED <<ingest, cron, counted, tries, keys, charges>>

MeterNext ==
  \/ MinutePasses
  \/ \E x \in Spans : StampSpan(x) \/ LandSpan(x) \/ ResendSpan(x)
  \/ \E m \in Minutes : CountWindow(m) \/ CronFails(m) \/ CronEnds(m)
  \/ \E x \in Messages :
       SendBatch(x) \/ MeterInline(x) \/ DeliverMessage(x) \/ DeliveryFails(x) \/ RaiseAlert(x)

MeterSpec == MeterInit /\ [][MeterNext]_meterVars

---------------------------------------------------------------------------
\* "at-least-once delivery + Stripe's dedup = exactly-once metering": no row is charged
\* twice, however often its message is delivered, provided that it was sent once.
ChargedOnce == \A x \in Spans : charges[x] > 1 => x \in resent

\* No counted row goes missing on its way: its message is still under way, or it was
\* charged, or an alert was raised, or the cron failed to send it.
CountedIsSettled ==
  \A x \in Messages : \A y \in counted[x] :
    \/ message[x] \in {"outbox", "queue", "dead", "alerted", "lost"}
    \/ charges[y] > 0

\* storage-metering-handler.tsx: "collapses retried spans, and double-counting one would
\* over-bill".
NeverDoubleCounted == \A x \in Spans : charges[x] <= 1
=============================================================================
