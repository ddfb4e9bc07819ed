-------------------------- MODULE UsageMeterProofs --------------------------
(***************************************************************************)
(* Proofs about UsageMeter: no row is charged twice, unless it was sent    *)
(* again, and no counted row goes missing, for any rows, customers, clock  *)
(* and number of redeliveries.                                             *)
(***************************************************************************)
EXTENDS UsageMeter, TLAPS

LEMMA MessageParts ==
  /\ \A x \in Messages : x[1] \in Customers /\ x[2] \in Minutes /\ x = <<x[1], x[2]>>
  /\ \A x, y \in Messages : x[1] = y[1] /\ x[2] = y[2] => x = y
  BY DEF Messages

LEMMA KeyIsMessage == \A x \in Messages : Key(x) = x
  BY MessageParts DEF Key

\* What was inserted has a time stamp.
LandedIsStamped == \A y \in landed : stamp[y] \in Minutes

\* A counted row is there, and still has the stamp it was counted by, unless it was sent
\* again.
CountedByStamp ==
  \A x \in Messages : \A y \in counted[x] :
    /\ y \in landed
    /\ y \notin resent => CustomerOf[y] = x[1] /\ stamp[y] = x[2]

\* Before the cron of a minute has counted, nothing of it is counted, sent or charged.
DueIsUntouched ==
  \A x \in Messages : cron[x[2]] = "due" => message[x] = "none" /\ x \notin keys

NoneIsEmpty == \A x \in Messages : message[x] = "none" => counted[x] = {}

\* The queue gives a message up at the limit.
TriesLeft ==
  \A x \in Messages :
    /\ message[x] \in {"none", "outbox"} => tries[x] = 0
    /\ message[x] = "queue" => tries[x] <= Redeliveries

\* A key stands for a charge of all its rows, and a charge of a row for a key.
KeyIsCharged == \A x \in keys : \A y \in counted[x] : charges[y] > 0
ChargedHasKey ==
  \A y \in Spans \ resent :
    /\ charges[y] <= 1
    /\ charges[y] > 0 => \E x \in keys : y \in counted[x]

AckedIsCharged == \A x \in Messages : message[x] = "acked" => x \in keys

MeterInv ==
  /\ MeterTypeOK
  /\ LandedIsStamped
  /\ CountedByStamp
  /\ DueIsUntouched
  /\ NoneIsEmpty
  /\ TriesLeft
  /\ KeyIsCharged
  /\ ChargedHasKey
  /\ AckedIsCharged

USE MeterBoundsAssumption

LEMMA MeterInitInv == MeterInit => MeterInv
  <1> SUFFICES ASSUME MeterInit PROVE MeterInv
    OBVIOUS
  <1> USE DEF MeterInit
  <1>1. MeterTypeOK
    BY DEF MeterTypeOK, Minutes, Places
  <1>2. LandedIsStamped /\ CountedByStamp /\ NoneIsEmpty /\ TriesLeft
    BY DEF LandedIsStamped, CountedByStamp, NoneIsEmpty, TriesLeft
  <1>3. DueIsUntouched /\ KeyIsCharged /\ ChargedHasKey /\ AckedIsCharged
    BY DEF DueIsUntouched, KeyIsCharged, ChargedHasKey, AckedIsCharged
  <1> QED
    BY <1>1, <1>2, <1>3 DEF MeterInv

\* A call to Stripe for a message with rows: its key is used, all its rows are charged,
\* and the invariant about charges still holds.
LEMMA ChargeKeeps ==
  ASSUME MeterInv, NEW x \in Messages, Charge(x), UNCHANGED <<ingest, counted>>
  PROVE  /\ keys' = keys \cup {x}
         /\ charges' \in [Spans -> Nat]
         /\ KeyIsCharged'
         /\ ChargedHasKey'
  <1> USE DEF MeterInv
  <1>1. keys' = keys \cup {x} /\ counted' = counted /\ resent' = resent
    BY KeyIsMessage DEF Charge, ingest
  <1>2. /\ keys \subseteq Messages
        /\ charges \in [Spans -> Nat]
        /\ counted \in [Messages -> SUBSET Spans]
    BY DEF MeterTypeOK
  <1>3. CASE x \in keys
    <2>1. charges' = charges /\ keys' = keys
      BY <1>1, <1>3, KeyIsMessage DEF Charge
    <2> QED
      BY <1>1, <1>2, <2>1 DEF KeyIsCharged, ChargedHasKey
  <1>4. CASE x \notin keys
    <2>1. charges' = [y \in Spans |-> charges[y] + (IF y \in counted[x] THEN 1 ELSE 0)]
      BY <1>4, KeyIsMessage DEF Charge
    <2>2. \A y \in Spans :
            /\ charges[y] \in Nat
            /\ y \in counted[x] => charges'[y] = charges[y] + 1
            /\ y \notin counted[x] => charges'[y] = charges[y]
      BY <1>2, <2>1
    <2>3. charges' \in [Spans -> Nat]
      BY <1>2, <2>1
    <2>4. KeyIsCharged'
      <3> SUFFICES ASSUME NEW z \in keys \cup {x}, NEW y \in counted[z]
                   PROVE  charges'[y] > 0
        BY <1>1 DEF KeyIsCharged
      <3>1. y \in Spans
        BY <1>2
      <3>2. CASE y \in counted[x]
        BY <2>2, <3>1, <3>2
      <3>3. CASE y \notin counted[x]
        <4>1. z \in keys
          BY <3>3
        <4>2. charges[y] > 0
          BY <4>1 DEF KeyIsCharged
        <4> QED
          BY <2>2, <3>1, <3>3, <4>2
      <3> QED
        BY <3>2, <3>3
    <2>5. ChargedHasKey'
      <3> SUFFICES ASSUME NEW y \in Spans \ resent
                   PROVE  /\ charges'[y] <= 1
                          /\ charges'[y] > 0 => \E z \in keys' : y \in counted[z]
        BY <1>1 DEF ChargedHasKey
      <3>1. CASE y \in counted[x]
        <4>1. ASSUME NEW z \in keys, y \in counted[z] PROVE FALSE
          <5>1. z[1] = x[1] /\ z[2] = x[2]
            BY <1>2, <3>1, <4>1 DEF CountedByStamp
          <5> QED
            BY <1>2, <1>4, <5>1, MessageParts
        <4>2. charges[y] = 0
          BY <2>2, <4>1 DEF ChargedHasKey
        <4> QED
          BY <1>1, <2>2, <3>1, <4>2
      <3>2. CASE y \notin counted[x]
        BY <1>1, <2>2, <3>2 DEF ChargedHasKey
      <3> QED
        BY <3>1, <3>2
    <2> QED
      BY <1>1, <2>3, <2>4, <2>5
  <1> QED
    BY <1>3, <1>4

\* A message moves on, with or without a call to Stripe.
LEMMA MovedInv ==
  ASSUME MeterInv, NEW x \in Messages, NEW to \in Places \ {"none", "outbox"},
         message[x] # "none",
         UNCHANGED <<ingest, cron, counted>>,
         message' = [message EXCEPT ![x] = to],
         tries' \in [Messages -> 0..(Redeliveries + 1)],
         \A z \in Messages \ {x} : tries'[z] = tries[z],
         to = "queue" => tries'[x] <= Redeliveries,
         keys' = keys \/ keys' = keys \cup {x},
         to = "acked" => x \in keys',
         charges' \in [Spans -> Nat], KeyIsCharged', ChargedHasKey'
  PROVE  MeterInv'
  <1> USE DEF MeterInv
  <1>1. \A z \in Messages : message'[z] = IF z = x THEN to ELSE message[z]
    BY DEF MeterTypeOK
  <1>2. cron[x[2]] # "due"
    BY DEF DueIsUntouched
  <1>3. MeterTypeOK'
    <2>1. message' \in [Messages -> Places] /\ keys' \subseteq Messages
      BY DEF MeterTypeOK
    <2>2. \A z \in Messages : message'[z] # "none" => counted[z] # {}
      BY <1>1 DEF MeterTypeOK
    <2> QED
      BY <2>1, <2>2 DEF MeterTypeOK, ingest
  <1>4. LandedIsStamped' /\ CountedByStamp'
    BY DEF LandedIsStamped, CountedByStamp, ingest
  <1>5. DueIsUntouched'
    BY <1>1, <1>2 DEF DueIsUntouched
  <1>6. NoneIsEmpty'
    BY <1>1 DEF NoneIsEmpty
  <1>7. TriesLeft'
    BY <1>1 DEF TriesLeft
  <1>8. AckedIsCharged'
    BY <1>1 DEF AckedIsCharged
  <1> QED
    BY <1>3, <1>4, <1>5, <1>6, <1>7, <1>8

\* The rows change and no message does.
LEMMA IngestInv ==
  ASSUME MeterInv, UNCHANGED <<cron, counted, message, tries, keys, charges>>,
         minute' \in Minutes, stamp' \in [Spans -> 0..(LastMinute + 1)],
         landed' \subseteq Spans, resent' \subseteq Spans,
         resent \subseteq resent', LandedIsStamped', CountedByStamp'
  PROVE  MeterInv'
  <1> USE DEF MeterInv
  <1>1. MeterTypeOK'
    BY DEF MeterTypeOK
  <1>2. DueIsUntouched' /\ NoneIsEmpty' /\ TriesLeft' /\ AckedIsCharged'
    BY DEF DueIsUntouched, NoneIsEmpty, TriesLeft, AckedIsCharged
  <1>3. KeyIsCharged' /\ ChargedHasKey'
    BY DEF KeyIsCharged, ChargedHasKey
  <1> QED
    BY <1>1, <1>2, <1>3

LEMMA MeterStepInv == MeterInv /\ [MeterNext]_meterVars => MeterInv'
  <1> SUFFICES ASSUME MeterInv, [MeterNext]_meterVars PROVE MeterInv'
    OBVIOUS
  <1> USE DEF MeterInv
  <1>0. CASE UNCHANGED meterVars
    BY <1>0 DEF meterVars, ingest, MeterTypeOK, LandedIsStamped, CountedByStamp,
                DueIsUntouched, NoneIsEmpty, TriesLeft, KeyIsCharged, ChargedHasKey,
                AckedIsCharged
  <1>1. CASE MinutePasses
    <2>1. minute' \in Minutes
      BY <1>1 DEF MinutePasses, MeterTypeOK, Minutes
    <2>2. LandedIsStamped' /\ CountedByStamp'
      BY <1>1 DEF MinutePasses, LandedIsStamped, CountedByStamp
    <2> QED
      BY <1>1, <2>1, <2>2, IngestInv DEF MinutePasses, MeterTypeOK
  <1>2. ASSUME NEW y \in Spans, StampSpan(y) PROVE MeterInv'
    <2>1. y \notin landed
      BY <1>2 DEF StampSpan, LandedIsStamped, Minutes
    <2>2. stamp' = [stamp EXCEPT ![y] = minute]
      BY <1>2 DEF StampSpan
    <2>3. /\ stamp' \in [Spans -> 0..(LastMinute + 1)]
          /\ \A z \in Spans \ {y} : stamp'[z] = stamp[z]
      BY <2>2 DEF MeterTypeOK, Minutes
    <2>4. LandedIsStamped'
      BY <1>2, <2>1, <2>3 DEF StampSpan, LandedIsStamped, MeterTypeOK
    <2>5. CountedByStamp'
      BY <1>2, <2>1, <2>3 DEF StampSpan, CountedByStamp, MeterTypeOK
    <2> QED
      BY <1>2, <2>3, <2>4, <2>5, IngestInv DEF StampSpan, MeterTypeOK
  <1>3. ASSUME NEW y \in Spans, LandSpan(y) PROVE MeterInv'
    <2>1. stamp[y] \in Minutes
      BY <1>3 DEF LandSpan, MeterTypeOK, Minutes
    <2>2. LandedIsStamped' /\ CountedByStamp'
      BY <1>3, <2>1 DEF LandSpan, LandedIsStamped, CountedByStamp
    <2> QED
      BY <1>3, <2>2, IngestInv DEF LandSpan, MeterTypeOK
  <1>4. ASSUME NEW y \in Spans, ResendSpan(y) PROVE MeterInv'
    <2>1. stamp' = [stamp EXCEPT ![y] = minute] /\ resent' = resent \cup {y}
      BY <1>4 DEF ResendSpan
    <2>2. /\ stamp' \in [Spans -> 0..(LastMinute + 1)]
          /\ \A z \in Spans : stamp'[z] = IF z = y THEN minute ELSE stamp[z]
      BY <2>1 DEF MeterTypeOK, Minutes
    <2>3. LandedIsStamped'
      BY <1>4, <2>2 DEF ResendSpan, LandedIsStamped, MeterTypeOK
    <2>4. CountedByStamp'
      BY <1>4, <2>1, <2>2 DEF ResendSpan, CountedByStamp, MeterTypeOK
    <2> QED
      BY <1>4, <2>1, <2>2, <2>3, <2>4, IngestInv DEF ResendSpan, MeterTypeOK
  <1>5. ASSUME NEW m \in Minutes, CountWindow(m) PROVE MeterInv'
    <2>a. /\ cron' = [cron EXCEPT ![m] = "sending"]
          /\ cron[m] = "due"
          /\ minute' = minute /\ stamp' = stamp /\ landed' = landed /\ resent' = resent
          /\ tries' = tries /\ keys' = keys /\ charges' = charges
      BY <1>5 DEF CountWindow, ingest
    <2>b. /\ counted' = [x \in Messages |-> IF x[2] = m THEN CountedFor(x[1], m)
                                           ELSE counted[x]]
          /\ message' = [x \in Messages |-> IF x[2] = m /\ counted'[x] # {} THEN "outbox"
                                           ELSE message[x]]
      BY <1>5 DEF CountWindow
    <2>c. \A x \in Messages :
            /\ x[2] = m => /\ message[x] = "none" /\ x \notin keys
                           /\ counted'[x] = CountedFor(x[1], m)
            /\ x[2] # m => message'[x] = message[x] /\ counted'[x] = counted[x]
            /\ message'[x] = "none" => counted'[x] = {}
            /\ message'[x] \in {"outbox", message[x]}
            /\ message'[x] # message[x] => x[2] = m /\ counted'[x] # {}
      BY <2>a, <2>b DEF DueIsUntouched, NoneIsEmpty
    <2>d. \A x \in Messages : cron'[x[2]] = IF x[2] = m THEN "sending" ELSE cron[x[2]]
      BY <2>a, MessageParts DEF MeterTypeOK
    <2>e. \A x \in Messages : CountedFor(x[1], m) \subseteq Spans
      BY DEF CountedFor, InWindow, MeterTypeOK
    <2>1. MeterTypeOK'
      <3>1. counted' \in [Messages -> SUBSET Spans]
        BY <2>b, <2>e DEF MeterTypeOK
      <3>2. message' \in [Messages -> Places]
        BY <2>b DEF MeterTypeOK, Places
      <3>3. cron' \in [Minutes -> {"due", "sending", "done"}]
        BY <2>a DEF MeterTypeOK
      <3>4. \A x \in Messages : message'[x] # "none" => counted'[x] # {}
        BY <2>c DEF MeterTypeOK
      <3> QED
        BY <2>a, <3>1, <3>2, <3>3, <3>4 DEF MeterTypeOK
    <2>2. LandedIsStamped'
      BY <2>a DEF LandedIsStamped
    <2>3. CountedByStamp'
      <3> SUFFICES ASSUME NEW x \in Messages, NEW y \in counted'[x]
                   PROVE  /\ y \in landed
                          /\ y \notin resent => CustomerOf[y] = x[1] /\ stamp[y] = x[2]
        BY <2>a DEF CountedByStamp
      <3>1. CASE x[2] = m
        BY <2>c, <3>1 DEF CountedFor, InWindow
      <3>2. CASE x[2] # m
        BY <2>c, <3>2 DEF CountedByStamp
      <3> QED
        BY <3>1, <3>2
    <2>4. DueIsUntouched'
      BY <2>a, <2>c, <2>d DEF DueIsUntouched
    <2>5. NoneIsEmpty'
      BY <2>c DEF NoneIsEmpty
    <2>6. TriesLeft'
      BY <2>a, <2>c DEF TriesLeft
    <2>7. keys \subseteq Messages /\ \A x \in keys : counted'[x] = counted[x]
      BY <2>c DEF MeterTypeOK
    <2>8. KeyIsCharged'
      BY <2>a, <2>7 DEF KeyIsCharged
    <2>9. ChargedHasKey'
      BY <2>a, <2>7 DEF ChargedHasKey
    <2>10. AckedIsCharged'
      BY <2>a, <2>c DEF AckedIsCharged
    <2> QED
      BY <2>1, <2>2, <2>3, <2>4, <2>5, <2>6, <2>8, <2>9, <2>10
  <1>6. ASSUME NEW m \in Minutes, CronFails(m) \/ CronEnds(m) PROVE MeterInv'
    <2>a. /\ cron' = [cron EXCEPT ![m] = "done"]
          /\ minute' = minute /\ stamp' = stamp /\ landed' = landed /\ resent' = resent
          /\ tries' = tries /\ keys' = keys /\ charges' = charges /\ counted' = counted
      BY <1>6 DEF CronFails, CronEnds, ingest
    <2>b. /\ message' \in [Messages -> Places]
          /\ \A x \in Messages :
               \/ message'[x] = message[x]
               \/ message[x] = "outbox" /\ message'[x] \in {"queue", "lost"}
      <3>1. CASE CronEnds(m)
        BY <3>1 DEF CronEnds, MeterTypeOK
      <3>2. CASE CronFails(m)
        <4>1. PICK taken \in SUBSET Outbox(m) :
                message' = [x \in Messages |-> IF x \in taken THEN "queue"
                                               ELSE IF x \in Outbox(m) THEN "lost"
                                               ELSE message[x]]
          BY <3>2 DEF CronFails
        <4> QED
          BY <4>1 DEF MeterTypeOK, Outbox, Places
      <3> QED
        BY <1>6, <3>1, <3>2
    <2>c. \A x \in Messages : cron'[x[2]] = IF x[2] = m THEN "done" ELSE cron[x[2]]
      BY <2>a, MessageParts DEF MeterTypeOK
    <2>1. MeterTypeOK'
      <3>1. cron' \in [Minutes -> {"due", "sending", "done"}]
        BY <2>a DEF MeterTypeOK
      <3>2. \A x \in Messages : message'[x] # "none" => counted[x] # {}
        BY <2>b DEF MeterTypeOK
      <3> QED
        BY <2>a, <2>b, <3>1, <3>2 DEF MeterTypeOK
    <2>2. LandedIsStamped' /\ CountedByStamp'
      BY <2>a DEF LandedIsStamped, CountedByStamp
    <2>3. DueIsUntouched'
      BY <2>a, <2>b, <2>c DEF DueIsUntouched
    <2>4. NoneIsEmpty'
      BY <2>a, <2>b DEF NoneIsEmpty
    <2>5. TriesLeft'
      BY <2>a, <2>b DEF TriesLeft
    <2>6. KeyIsCharged' /\ ChargedHasKey'
      BY <2>a DEF KeyIsCharged, ChargedHasKey
    <2>7. AckedIsCharged'
      BY <2>a, <2>b DEF AckedIsCharged
    <2> QED
      BY <2>1, <2>2, <2>3, <2>4, <2>5, <2>6, <2>7
  <1>7. ASSUME NEW x \in Messages, SendBatch(x) \/ RaiseAlert(x) PROVE MeterInv'
    <2>1. PICK to \in {"queue", "alerted"} :
            /\ message' = [message EXCEPT ![x] = to]
            /\ message[x] = IF to = "queue" THEN "outbox" ELSE "dead"
            /\ UNCHANGED <<ingest, cron, counted, tries, keys, charges>>
      BY <1>7 DEF SendBatch, RaiseAlert, Puts
    <2>2. KeyIsCharged' /\ ChargedHasKey'
      BY <2>1 DEF KeyIsCharged, ChargedHasKey, ingest
    <2>3. tries[x] <= Redeliveries \/ to # "queue"
      BY <2>1 DEF TriesLeft, MeterTypeOK
    <2> QED
      BY <2>1, <2>2, <2>3, MovedInv DEF MeterTypeOK, Places
  <1>8. ASSUME NEW x \in Messages, MeterInline(x) \/ DeliverMessage(x) PROVE MeterInv'
    <2>1. UNCHANGED <<ingest, cron, counted, tries>>
      BY <1>8 DEF MeterInline, DeliverMessage
    <2>2. PICK to \in {"acked", "alerted", "queue"} :
            /\ message' = [message EXCEPT ![x] = to]
            /\ message[x] \in {"outbox", "queue"}
            /\ to = "queue" => message[x] = "queue"
            /\ Charge(x) \/ (to = "alerted" /\ UNCHANGED <<keys, charges>>)
      BY <1>8 DEF MeterInline, DeliverMessage, Puts, MeterTypeOK
    <2>3. /\ keys' = keys \/ keys' = keys \cup {x}
          /\ to = "acked" => x \in keys'
          /\ charges' \in [Spans -> Nat] /\ KeyIsCharged' /\ ChargedHasKey'
      <3>1. CASE Charge(x)
        BY <2>1, <3>1, ChargeKeeps
      <3>2. CASE to = "alerted" /\ UNCHANGED <<keys, charges>>
        BY <2>1, <3>2 DEF KeyIsCharged, ChargedHasKey, MeterTypeOK, ingest
      <3> QED
        BY <2>2, <3>1, <3>2
    <2>4. to = "queue" => tries[x] <= Redeliveries
      BY <2>2 DEF TriesLeft
    <2> QED
      BY <2>1, <2>2, <2>3, <2>4, MovedInv DEF MeterTypeOK, Places
  <1>9. ASSUME NEW x \in Messages, DeliveryFails(x) PROVE MeterInv'
    <2>1. /\ UNCHANGED <<ingest, cron, counted>>
          /\ Charge(x) \/ UNCHANGED <<keys, charges>>
          /\ message[x] = "queue"
          /\ message' = [message EXCEPT ![x] = IF tries[x] = Redeliveries THEN "dead"
                                               ELSE "queue"]
          /\ tries' = [tries EXCEPT ![x] = tries[x] + 1]
      BY <1>9 DEF DeliveryFails, Puts
    <2>2. tries[x] \in 0..Redeliveries
      BY <2>1 DEF TriesLeft, MeterTypeOK
    <2>3. tries' \in [Messages -> 0..(Redeliveries + 1)]
      BY <2>1, <2>2 DEF MeterTypeOK
    <2>4. /\ keys' = keys \/ keys' = keys \cup {x}
          /\ charges' \in [Spans -> Nat] /\ KeyIsCharged' /\ ChargedHasKey'
      <3>1. CASE Charge(x)
        BY <2>1, <3>1, ChargeKeeps
      <3>2. CASE UNCHANGED <<keys, charges>>
        BY <2>1, <3>2 DEF KeyIsCharged, ChargedHasKey, MeterTypeOK, ingest
      <3> QED
        BY <2>1, <3>1, <3>2
    <2>5. \A z \in Messages : tries'[z] = IF z = x THEN tries[x] + 1 ELSE tries[z]
      BY <2>1 DEF MeterTypeOK
    <2>6. PICK to \in {"dead", "queue"} :
            /\ message' = [message EXCEPT ![x] = to]
            /\ to = "queue" => tries[x] # Redeliveries
      BY <2>1
    <2>7. to = "queue" => tries'[x] <= Redeliveries
      BY <2>2, <2>5, <2>6
    <2>8. /\ to \in Places \ {"none", "outbox"} /\ to # "acked"
          /\ message[x] # "none"
          /\ \A z \in Messages \ {x} : tries'[z] = tries[z]
      BY <2>1, <2>5 DEF Places
    <2> QED
      BY <2>1, <2>3, <2>4, <2>6, <2>7, <2>8, MovedInv
  <1> QED
    BY <1>0, <1>1, <1>2, <1>3, <1>4, <1>5, <1>6, <1>7, <1>8, <1>9 DEF MeterNext

\* Every step keeps MeterInv.
LEMMA MeterInvariant == MeterSpec => []MeterInv
  BY MeterInitInv, MeterStepInv, PTL DEF MeterSpec

\* The windows, the queue and the charges keep their types.
THEOREM MeterTypeCorrect == MeterSpec => []MeterTypeOK
  <1>1. MeterInv => MeterTypeOK
    BY DEF MeterInv
  <1> QED
    BY <1>1, MeterInvariant, PTL

\* "exactly-once metering": of the rows that were sent once, none is charged twice, with
\* redelivery, a message delivered twice at a time, and lost answers of Stripe.
THEOREM ChargesOnce == MeterSpec => []ChargedOnce
  <1>1. MeterInv => ChargedOnce
    BY DEF MeterInv, ChargedOnce, ChargedHasKey, MeterTypeOK
  <1> QED
    BY <1>1, MeterInvariant, PTL

\* What a window counted is charged, under way, dead-lettered with an alert, or lost with a
\* cron that failed: it is acknowledged only when it is charged.
THEOREM CountsSettle == MeterSpec => []CountedIsSettled
  <1>1. MeterInv => CountedIsSettled
    BY DEF MeterInv, CountedIsSettled, NoneIsEmpty, AckedIsCharged, KeyIsCharged, MeterTypeOK, Places
  <1> QED
    BY <1>1, MeterInvariant, PTL

=============================================================================
