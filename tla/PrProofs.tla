------------------------------ MODULE PrProofs ------------------------------
(***************************************************************************)
(* Proofs about the pull request comment.  First PrQueue: a message is     *)
(* acknowledged only when its pull shows it.  Then PrComment: the calls    *)
(* that keep one comment up to date do so once, for any calls and faults,  *)
(* and those that do not overlap leave it up to date or in the backlog.    *)
(***************************************************************************)
EXTENDS PrQueue, PrComment, TLAPS

\* What a refresh reported is not undone while its batch waits for the answer: the
\* comment shows every message of the group.
RefreshedIsShown ==
  \A k \in Consumers, n \in Notices :
    batchOf[n] = k /\ result[k][PullOf[n]] = "refreshed" => shows[PullOf[n]] >= enqueuedAt[n]

\* A message tells of a change that has taken place.
NothingAhead == \A n \in Notices : enqueuedAt[n] <= edits[PullOf[n]]

\* A queued message may be delivered again, and one not sent was never delivered.
DeliveriesLeft ==
  \A n \in Notices :
    /\ place[n] = "queue" => deliveries[n] <= MaxDeliveries
    /\ place[n] = "none" => deliveries[n] = 0

QueueInv ==
  /\ QueueTypeOK
  /\ NothingAhead
  /\ DeliveriesLeft
  /\ RefreshedIsShown
  /\ AckedIsShown
  /\ LeftOnlyWhenExhausted

LEMMA PullIsPull == \A n \in Notices : PullOf[n] \in Pulls
  BY DEF Pulls

USE PullIsPull DEF NoticePlaces, Results

LEMMA QueueInitInv == QueueInit => QueueInv
  <1> SUFFICES ASSUME QueueInit PROVE QueueInv
    OBVIOUS
  <1> USE DEF QueueInit
  <1>1. QueueTypeOK
    BY DeliveriesAssumption DEF QueueTypeOK
  <1>2. NothingAhead /\ DeliveriesLeft
    BY DEF NothingAhead, DeliveriesLeft
  <1>3. RefreshedIsShown
    BY DEF RefreshedIsShown
  <1>4. AckedIsShown /\ LeftOnlyWhenExhausted
    BY DEF AckedIsShown, LeftOnlyWhenExhausted
  <1> QED
    BY <1>1, <1>2, <1>3, <1>4 DEF QueueInv

\* The actions that settle a batch change the places of its messages and nothing else
\* that the invariant speaks of: each is acknowledged after a refresh of its pull
\* request, left to the sweep with an exhausted one, or queued again.
LEMMA SettledInv ==
  ASSUME QueueInv, NEW k \in Consumers,
         UNCHANGED <<edits, shows, enqueuedAt, deliveries, result>>,
         batchOf' = [n \in Notices |-> IF n \in Batch(k) THEN NoConsumer ELSE batchOf[n]],
         place' \in [Notices -> NoticePlaces],
         \A n \in Notices :
           \/ n \notin Batch(k) /\ place'[n] = place[n]
           \/ n \in Batch(k) /\ place'[n] = "acked" /\ result[k][PullOf[n]] = "refreshed"
           \/ n \in Batch(k) /\ place'[n] = "left"
                /\ \E o \in Notices : PullOf[o] = PullOf[n] /\ deliveries[o] >= MaxDeliveries
           \/ n \in Batch(k) /\ place'[n] = "queue" /\ deliveries[n] <= MaxDeliveries
  PROVE  QueueInv'
  <1> USE DEF QueueInv
  <1>1. QueueTypeOK'
    BY ConsumersAssumption DEF QueueTypeOK, Batch
  <1>2. NothingAhead' /\ DeliveriesLeft'
    BY DEF NothingAhead, DeliveriesLeft
  <1>3. RefreshedIsShown'
    BY ConsumersAssumption DEF RefreshedIsShown, Batch, QueueTypeOK
  <1>4. AckedIsShown'
    BY DEF AckedIsShown, RefreshedIsShown, Batch
  <1>5. LeftOnlyWhenExhausted'
    BY DEF LeftOnlyWhenExhausted
  <1> QED
    BY <1>1, <1>2, <1>3, <1>4, <1>5

\* A group is queued again only while every message of it has deliveries left.
LEMMA RetriedGroup ==
  ASSUME QueueTypeOK, NEW k \in Consumers, NEW p \in Pulls
  PROVE  \/ /\ Retried(Group(k, p)) = "left"
            /\ \E o \in Notices : PullOf[o] = p /\ deliveries[o] >= MaxDeliveries
         \/ /\ Retried(Group(k, p)) = "queue"
            /\ \A n \in Group(k, p) : deliveries[n] <= MaxDeliveries
  BY DeliveriesAssumption DEF Retried, GivesUp, Group, Batch, QueueTypeOK

LEMMA QueueStepInv == QueueInv /\ [QueueNext]_queueVars => QueueInv'
  <1> SUFFICES ASSUME QueueInv, [QueueNext]_queueVars PROVE QueueInv'
    OBVIOUS
  <1> USE DEF QueueInv
  <1>1. CASE UNCHANGED queueVars
    BY <1>1 DEF queueVars, deliveryVars, QueueTypeOK, NothingAhead, DeliveriesLeft,
                RefreshedIsShown, AckedIsShown, LeftOnlyWhenExhausted, Batch
  <1>2. ASSUME NEW n \in Notices, SyncSession(n) PROVE QueueInv'
    <2>a. /\ edits' = [edits EXCEPT ![PullOf[n]] = edits[PullOf[n]] + 1]
          /\ enqueuedAt' = [enqueuedAt EXCEPT ![n] = edits'[PullOf[n]]]
          /\ shows' = shows /\ deliveries' = deliveries /\ batchOf' = batchOf
          /\ result' = result
          /\ place[n] = "none"
      BY <1>2 DEF SyncSession
    <2>b. PICK to \in {"queue", "left"} : place' = [place EXCEPT ![n] = to]
      BY <1>2 DEF SyncSession
    <2>c. \A p \in Pulls : edits[p] \in Nat /\ shows[p] \in Nat /\ shows[p] <= edits[p]
      BY DEF QueueTypeOK
    <2>d. \A p \in Pulls : edits'[p] = IF p = PullOf[n] THEN edits[p] + 1 ELSE edits[p]
      BY <2>a DEF QueueTypeOK
    <2>e. \A p \in Pulls : edits'[p] \in Nat /\ edits[p] <= edits'[p]
      BY <2>c, <2>d
    <2>f. \A m \in Notices :
            enqueuedAt'[m] = IF m = n THEN edits'[PullOf[n]] ELSE enqueuedAt[m]
      BY <2>a DEF QueueTypeOK
    <2>g. \A m \in Notices : place'[m] = IF m = n THEN to ELSE place[m]
      BY <2>b DEF QueueTypeOK
    <2>h. batchOf[n] = NoConsumer /\ deliveries[n] = 0
      BY <2>a DEF QueueTypeOK, DeliveriesLeft
    <2>1. QueueTypeOK'
      <3>1. edits' \in [Pulls -> Nat]
        BY <2>a, <2>c DEF QueueTypeOK
      <3>2. \A p \in Pulls : shows'[p] <= edits'[p]
        <4> SUFFICES ASSUME NEW p \in Pulls PROVE shows[p] <= edits'[p]
          BY <2>a
        <4> QED
          BY <2>c, <2>e
      <3>3. enqueuedAt' \in [Notices -> Nat]
        BY <2>a, <2>e DEF QueueTypeOK
      <3>4. place' \in [Notices -> NoticePlaces]
        BY <2>b DEF QueueTypeOK
      <3>5. \A m \in Notices : batchOf'[m] # NoConsumer <=> place'[m] = "batch"
        BY <2>a, <2>g, <2>h DEF QueueTypeOK
      <3> QED
        BY <2>a, <3>1, <3>2, <3>3, <3>4, <3>5 DEF QueueTypeOK
    <2>2. NothingAhead'
      <3> SUFFICES ASSUME NEW m \in Notices PROVE enqueuedAt'[m] <= edits'[PullOf[m]]
        BY DEF NothingAhead
      <3>1. CASE m = n
        BY <2>e, <2>f, <3>1
      <3>2. CASE m # n
        <4>1. enqueuedAt[m] \in Nat /\ enqueuedAt[m] <= edits[PullOf[m]]
          BY DEF NothingAhead, QueueTypeOK
        <4> QED
          BY <2>c, <2>e, <2>f, <3>2, <4>1
      <3> QED
        BY <3>1, <3>2
    <2>3. DeliveriesLeft'
      BY <2>a, <2>g, <2>h, DeliveriesAssumption DEF DeliveriesLeft
    <2>4. RefreshedIsShown'
      BY <2>a, <2>f, <2>h, ConsumersAssumption DEF RefreshedIsShown
    <2>5. AckedIsShown'
      BY <2>a, <2>f, <2>g DEF AckedIsShown
    <2>6. LeftOnlyWhenExhausted'
      BY <2>a, <2>g, <2>h DEF LeftOnlyWhenExhausted
    <2> QED
      BY <2>1, <2>2, <2>3, <2>4, <2>5, <2>6
  <1>3. ASSUME NEW k \in Consumers, NEW ns \in SUBSET Notices, TakeBatch(k, ns)
        PROVE  QueueInv'
    <2> USE <1>3 DEF TakeBatch
    <2>0. \A m \in Notices : deliveries[m] \in Nat /\ deliveries'[m] \in Nat
                               /\ deliveries'[m] >= deliveries[m]
      BY DEF QueueTypeOK
    <2>1. QueueTypeOK'
      <3>1. place' \in [Notices -> NoticePlaces]
            /\ batchOf' \in [Notices -> Consumers \cup {NoConsumer}]
        BY DEF QueueTypeOK
      <3>2. deliveries' \in [Notices -> 0..(MaxDeliveries + 1)]
        BY DeliveriesAssumption DEF QueueTypeOK, DeliveriesLeft
      <3>3. result' \in [Consumers -> [Pulls -> Results]]
        BY DEF QueueTypeOK
      <3>4. \A m \in Notices : batchOf'[m] # NoConsumer <=> place'[m] = "batch"
        BY ConsumersAssumption DEF QueueTypeOK
      <3> QED
        BY <3>1, <3>2, <3>3, <3>4 DEF QueueTypeOK
    <2>2. NothingAhead' /\ DeliveriesLeft'
      BY DEF NothingAhead, DeliveriesLeft, QueueTypeOK
    <2>3. RefreshedIsShown'
      BY DEF RefreshedIsShown, QueueTypeOK
    <2>4. AckedIsShown'
      BY DEF AckedIsShown
    <2>5. LeftOnlyWhenExhausted'
      <3> SUFFICES ASSUME NEW m \in Notices, place'[m] = "left", deliveries'[m] > 0
                   PROVE  \E o \in Notices :
                            PullOf[o] = PullOf[m] /\ deliveries'[o] >= MaxDeliveries
        BY DEF LeftOnlyWhenExhausted
      <3>1. place[m] = "left" /\ deliveries[m] > 0
        <4>1. m \notin ns
          BY DEF QueueTypeOK
        <4>2. deliveries'[m] = deliveries[m] + 0 /\ place'[m] = place[m]
          BY <4>1
        <4> QED
          BY <2>0, <4>2
      <3>2. PICK o \in Notices : PullOf[o] = PullOf[m] /\ deliveries[o] >= MaxDeliveries
        BY <3>1 DEF LeftOnlyWhenExhausted
      <3> QED
        BY <2>0, <3>2, DeliveriesAssumption
    <2> QED
      BY <2>1, <2>2, <2>3, <2>4, <2>5
  <1>4. ASSUME NEW k \in Consumers, NEW p \in Pulls, RefreshTarget(k, p)
        PROVE  QueueInv'
    <2>a. /\ edits' = edits /\ enqueuedAt' = enqueuedAt /\ place' = place
          /\ deliveries' = deliveries /\ batchOf' = batchOf
      BY <1>4 DEF RefreshTarget
    <2>b. PICK r \in Results : /\ result' = [result EXCEPT ![k][p] = r]
                               /\ \/ r = "refreshed" /\ shows' = [shows EXCEPT ![p] = edits[p]]
                                  \/ r = "failed" /\ shows' = shows
      BY <1>4 DEF RefreshTarget
    <2>c. \A q \in Pulls : edits[q] \in Nat /\ shows[q] \in Nat /\ shows[q] <= edits[q]
      BY DEF QueueTypeOK
    <2>d. /\ shows' \in [Pulls -> Nat]
          /\ \A q \in Pulls : shows'[q] = shows[q] \/ (shows'[q] = edits[q] /\ q = p)
          /\ r = "refreshed" => shows'[p] = edits[p]
      <3>1. CASE r = "refreshed" /\ shows' = [shows EXCEPT ![p] = edits[p]]
        BY <2>c, <3>1 DEF QueueTypeOK
      <3>2. CASE r = "failed" /\ shows' = shows
        BY <3>2 DEF QueueTypeOK
      <3> QED
        BY <2>b, <3>1, <3>2
    <2>e. \A c \in Consumers, q \in Pulls :
            result'[c][q] = IF c = k /\ q = p THEN r ELSE result[c][q]
      BY <2>b DEF QueueTypeOK
    <2>f. \A m \in Notices : /\ enqueuedAt[m] \in Nat
                              /\ enqueuedAt[m] <= edits[PullOf[m]]
      BY DEF NothingAhead, QueueTypeOK
    \* What a comment shows of a message it goes on to show.
    <2>g. ASSUME NEW m \in Notices, shows[PullOf[m]] >= enqueuedAt[m]
          PROVE  shows'[PullOf[m]] >= enqueuedAt[m]
      BY <2>c, <2>d, <2>f, <2>g
    <2>1. QueueTypeOK'
      <3>1. \A q \in Pulls : shows'[q] <= edits[q]
        BY <2>c, <2>d
      <3>2. result' \in [Consumers -> [Pulls -> Results]]
        BY <2>b DEF QueueTypeOK
      <3> QED
        BY <2>a, <2>d, <3>1, <3>2 DEF QueueTypeOK
    <2>2. NothingAhead' /\ DeliveriesLeft' /\ LeftOnlyWhenExhausted'
      BY <2>a DEF NothingAhead, DeliveriesLeft, LeftOnlyWhenExhausted
    <2>3. RefreshedIsShown'
      <3> SUFFICES ASSUME NEW c \in Consumers, NEW m \in Notices,
                          batchOf[m] = c, result'[c][PullOf[m]] = "refreshed"
                   PROVE  shows'[PullOf[m]] >= enqueuedAt[m]
        BY <2>a DEF RefreshedIsShown
      <3>1. CASE c = k /\ PullOf[m] = p
        <4>1. r = "refreshed"
          BY <2>e, <3>1
        <4> QED
          BY <2>c, <2>d, <2>f, <3>1, <4>1
      <3>2. CASE ~(c = k /\ PullOf[m] = p)
        <4>1. result[c][PullOf[m]] = "refreshed"
          BY <2>e, <3>2
        <4>2. shows[PullOf[m]] >= enqueuedAt[m]
          BY <4>1 DEF RefreshedIsShown
        <4> QED
          BY <2>g, <4>2
      <3> QED
        BY <3>1, <3>2
    <2>4. AckedIsShown'
      BY <2>a, <2>g DEF AckedIsShown
    <2> QED
      BY <2>1, <2>2, <2>3, <2>4
  <1>5. ASSUME NEW k \in Consumers, RouteResults(k) PROVE QueueInv'
    <2>1. \A n \in Notices :
            place'[n] = IF n \in Batch(k)
                          THEN IF result[k][PullOf[n]] = "refreshed" THEN "acked"
                               ELSE Retried(Group(k, PullOf[n]))
                          ELSE place[n]
      BY <1>5 DEF RouteResults, Settle
    <2>2. \A n \in Batch(k) : n \in Group(k, PullOf[n]) /\ n \in Notices
      BY DEF Group, Batch
    <2>3. place' \in [Notices -> NoticePlaces]
      BY <1>5 DEF RouteResults, Settle, Retried, QueueTypeOK
    <2> QED
      BY <1>5, <2>1, <2>2, <2>3, RetriedGroup, SettledInv DEF RouteResults, Settle
  <1>6. ASSUME NEW k \in Consumers, RequestFails(k) PROVE QueueInv'
    <2>1. \A n \in Notices :
            place'[n] = IF n \in Batch(k) THEN Retried(Group(k, PullOf[n])) ELSE place[n]
      BY <1>6 DEF RequestFails, Settle
    <2>2. \A n \in Batch(k) : n \in Group(k, PullOf[n]) /\ n \in Notices
      BY DEF Group, Batch
    <2>3. place' \in [Notices -> NoticePlaces]
      BY <1>6 DEF RequestFails, Settle, Retried, QueueTypeOK
    <2> QED
      BY <1>6, <2>1, <2>2, <2>3, RetriedGroup, SettledInv DEF RequestFails, Settle
  <1>7. ASSUME NEW k \in Consumers, ConsumerDies(k) PROVE QueueInv'
    <2>1. \A n \in Notices : deliveries[n] \in Nat
      BY DEF QueueTypeOK
    <2>2. place' \in [Notices -> NoticePlaces]
      BY <1>7 DEF ConsumerDies, QueueTypeOK
    <2>3. \A n \in Notices :
            \/ n \notin Batch(k) /\ place'[n] = place[n]
            \/ n \in Batch(k) /\ place'[n] = "left" /\ deliveries[n] >= MaxDeliveries
            \/ n \in Batch(k) /\ place'[n] = "queue" /\ deliveries[n] <= MaxDeliveries
      <3> SUFFICES ASSUME NEW n \in Notices, n \in Batch(k)
                   PROVE  \/ place'[n] = "left" /\ deliveries[n] >= MaxDeliveries
                          \/ place'[n] = "queue" /\ deliveries[n] <= MaxDeliveries
        BY <1>7 DEF ConsumerDies
      <3>1. place'[n] = IF deliveries[n] > MaxDeliveries THEN "left" ELSE "queue"
        BY <1>7 DEF ConsumerDies
      <3> QED
        BY <2>1, <3>1, DeliveriesAssumption
    <2> QED
      BY <1>7, <2>2, <2>3, SettledInv DEF ConsumerDies
  <1> QED
    BY <1>1, <1>2, <1>3, <1>4, <1>5, <1>6, <1>7 DEF QueueNext

\* Every step keeps QueueInv.
LEMMA QueueInvariant == QueueSpec => []QueueInv
  BY QueueInitInv, QueueStepInv, PTL DEF QueueSpec

\* Messages, batches and consumers keep their types.
THEOREM QueueTypeCorrect == QueueSpec => []QueueTypeOK
  <1>1. QueueInv => QueueTypeOK
    BY DEF QueueInv
  <1> QED
    BY <1>1, QueueInvariant, PTL

\* A message is acknowledged only after a refresh of its pull request that began after it
\* was sent: routeRefreshResults with at-least-once delivery, and consumers that die.
THEOREM AckedShown == QueueSpec => []AckedIsShown
  <1>1. QueueInv => AckedIsShown
    BY DEF QueueInv
  <1> QED
    BY <1>1, QueueInvariant, PTL

\* A message leaves the queue unacknowledged only when the group it was coalesced into has
\* used up its deliveries.
THEOREM LeavesExhausted == QueueSpec => []LeftOnlyWhenExhausted
  <1>1. QueueInv => LeftOnlyWhenExhausted
    BY DEF QueueInv
  <1> QED
    BY <1>1, QueueInvariant, PTL

---------------------------------------------------------------------------
\* The fields of the row, as in CommentTypeOK.
RowType == [present : BOOLEAN, id : Ids, hash : Bodies, claim : Calls \cup {Nobody},
            expired : BOOLEAN, flag : BOOLEAN]

\* The numbers in use were given out.
NumbersOK ==
  /\ comments \subseteq 1..posted
  /\ row.id <= posted
  /\ \A c \in Calls : ref[c] <= posted

\* The claim: who holds it is the only one to look for a comment or to post one, what a
\* call is about to record is there and is the row's, and a claim is taken over only
\* from a call that has ended.
CallOK(c) ==
  /\ doing[c] \in {"scan", "adopt", "create"} =>
       row.id = 0 /\ row.claim = c /\ ~row.expired
  /\ doing[c] = "persist" =>
       /\ ref[c] \in comments
       /\ row.id = ref[c] \/ (row.id = 0 /\ row.claim = c /\ ~row.expired)
  /\ doing[c] \in {"probe", "update", "edit"} /\ ref[c] \in comments => row.id = ref[c]
  /\ doing[c] = "claim" /\ ref[c] # 0 => ref[c] \notin comments
  /\ doing[c] = "create" => comments = {}
  /\ doing[c] = "adopt" => comments \subseteq {ref[c]}
  /\ doing[c] = "take" /\ held[c] # Nobody => doing[held[c]] \in Ended
  /\ ref[c] # 0 \/ doing[c] \in {"reread", "take"} => row.present

RowOK ==
  /\ ~row.present => row.id = 0 /\ row.claim = Nobody
  /\ row.id = 0 /\ row.claim = Nobody => comments = {}
  /\ row.id # 0 => comments \subseteq {row.id}
  /\ row.claim # Nobody => doing[row.claim] # "idle"
  /\ row.expired => doing[row.claim] \in Ended

CommentInv ==
  /\ CommentTypeOK
  /\ NumbersOK
  /\ ~late => RowOK /\ OneComment /\ \A c \in Calls : CallOK(c)

USE CallsAssumption, CommentBoundsAssumption

LEMMA CommentInitInv == CommentInit => CommentInv
  <1> SUFFICES ASSUME CommentInit PROVE CommentInv
    OBVIOUS
  <1> USE DEF CommentInit
  <1>1. CommentTypeOK
    <2>1. row \in RowType /\ posted \in Ids
      BY DEF RowType, Ids, Bodies
    <2>2. text \in [1..MaxComments -> Bodies] /\ content \in 1..MaxBody
      BY DEF Bodies
    <2>3. /\ doing \in [Calls -> {"idle"} \cup Running \cup Ended]
          /\ body \in [Calls -> Bodies] /\ ref \in [Calls -> Ids]
          /\ held \in [Calls -> Calls \cup {Nobody}] /\ backlog \in [Calls -> BOOLEAN]
      BY DEF Ids, Bodies
    <2> QED
      BY <2>1, <2>2, <2>3 DEF CommentTypeOK, RowType
  <1>2. NumbersOK
    BY DEF NumbersOK
  <1>3. RowOK /\ OneComment /\ \A c \in Calls : CallOK(c)
    BY DEF RowOK, OneComment, CallOK
  <1> QED
    BY <1>1, <1>2, <1>3 DEF CommentInv

---------------------------------------------------------------------------
\* Where a call is once it is through with the comment, or has not begun.
Quiet == Ended \cup {"mark", "clear", "render", "read"}
Steps == {"idle"} \cup Running \cup Ended

LEMMA EndsQuietly ==
  ASSUME NEW c \in Calls, NEW s \in Ended, Ends(c, s)
  PROVE  \E to \in Quiet : Does(c, to)
  BY DEF Ends, Quiet

LEMMA QuietSteps ==
  /\ Quiet \subseteq Steps /\ "idle" \notin Quiet
  /\ \A s \in Quiet : s \notin {"scan", "adopt", "create", "persist", "probe", "update",
                                "edit", "claim", "take"}
  BY DEF Quiet, Steps, Running, Ended

\* A step of one call that leaves the comments and what matters of the row alone.
LEMMA LocalStep ==
  ASSUME CommentInv, NEW c \in Calls, NEW to \in Steps, doing[c] \notin Ended, to # "idle",
         doing' = [doing EXCEPT ![c] = to],
         UNCHANGED <<comments, posted, late>>,
         row' \in RowType, row'.id = row.id, row'.claim = row.claim,
         row'.expired = row.expired, row.present => row'.present,
         content' \in 1..MaxBody, owed' \in Bodies,
         text' \in [1..MaxComments -> Bodies], body' \in [Calls -> Bodies],
         held' \in [Calls -> Calls \cup {Nobody}], backlog' \in [Calls -> BOOLEAN],
         spoilt' \in BOOLEAN,
         ref' \in [Calls -> Ids], ref'[c] <= posted,
         to \in {"probe", "update", "adopt", "edit", "persist"} => ref'[c] \in 1..posted,
         \A d \in Calls \ {c} : ref'[d] = ref[d] /\ held'[d] = held[d],
         ~late => CallOK(c)'
  PROVE  CommentInv'
  <1> USE DEF CommentInv
  <1>1. \A d \in Calls : doing'[d] = IF d = c THEN to ELSE doing[d]
    BY DEF CommentTypeOK
  <1>2. CommentTypeOK'
    <2>1. doing' \in [Calls -> Steps]
      BY DEF CommentTypeOK, Steps
    <2>2. \A d \in Calls : doing'[d] \in {"probe", "update", "adopt", "edit", "persist"} =>
                             ref'[d] \in 1..posted
      BY <1>1 DEF CommentTypeOK
    <2>3. row'.expired => row'.claim # Nobody
      BY DEF CommentTypeOK
    <2> QED
      BY <2>1, <2>2, <2>3 DEF CommentTypeOK, Steps, RowType
  <1>3. NumbersOK'
    BY DEF NumbersOK
  <1>4. ASSUME ~late PROVE RowOK' /\ OneComment' /\ \A d \in Calls : CallOK(d)'
    <2>1. \A d \in Calls : doing[d] \in Ended => doing'[d] \in Ended
      BY <1>1
    <2>2. \A d \in Calls : doing[d] # "idle" => doing'[d] # "idle"
      BY <1>1
    <2>3. RowOK'
      BY <1>4, <2>1, <2>2 DEF RowOK, CommentTypeOK
    <2>4. ASSUME NEW d \in Calls \ {c} PROVE CallOK(d)'
      <3>1. doing'[d] = doing[d] /\ ref'[d] = ref[d] /\ held'[d] = held[d]
        BY <1>1
      <3>2. held[d] \in Calls \cup {Nobody}
        BY DEF CommentTypeOK
      <3>3. CallOK(d)
        BY <1>4
      <3> QED
        BY <2>1, <3>1, <3>2, <3>3 DEF CallOK
    <2> QED
      BY <1>4, <2>3, <2>4 DEF OneComment
  <1> QED
    BY <1>2, <1>3, <1>4

\* A call that ends, or goes on to render, says nothing about the row.
LEMMA QuietStep ==
  ASSUME CommentInv, NEW c \in Calls, NEW to \in Quiet, doing[c] \notin Ended, Does(c, to),
         UNCHANGED <<comments, posted, late, ref, held>>,
         row' \in RowType, row'.id = row.id, row'.claim = row.claim,
         row'.expired = row.expired, row.present => row'.present,
         content' \in 1..MaxBody, owed' \in Bodies,
         text' \in [1..MaxComments -> Bodies], body' \in [Calls -> Bodies],
         backlog' \in [Calls -> BOOLEAN], spoilt' \in BOOLEAN
  PROVE  CommentInv'
  <1>1. /\ to \in Steps /\ to # "idle"
        /\ to \notin {"scan", "adopt", "create", "persist", "probe", "update", "edit",
                      "claim", "take"}
    BY QuietSteps
  <1>2. doing' = [doing EXCEPT ![c] = to] /\ doing'[c] = to
    BY DEF Does, CommentInv, CommentTypeOK
  <1>3. ASSUME ~late PROVE CallOK(c)'
    <2>1. ref'[c] # 0 => row'.present
      BY <1>3 DEF CallOK, CommentInv
    <2>2. to # "reread"
      BY DEF Quiet, Ended
    <2> QED
      BY <1>1, <1>2, <2>1, <2>2 DEF CallOK
  <1>4. /\ ref' \in [Calls -> Ids] /\ held' \in [Calls -> Calls \cup {Nobody}]
        /\ ref'[c] <= posted
    BY DEF CommentInv, CommentTypeOK, NumbersOK
  <1> QED
    BY <1>1, <1>2, <1>3, <1>4, LocalStep

\* The same, if nothing but the call changes: what follows an Answered or an Ends.
LEMMA EndStep ==
  ASSUME CommentInv, NEW c \in Calls, NEW s \in Ended, doing[c] \notin Ended, Ends(c, s),
         UNCHANGED <<content, row, comments, posted, locals, owed, late>>,
         text' \in [1..MaxComments -> Bodies], spoilt' \in BOOLEAN
  PROVE  CommentInv'
  <1>1. PICK to \in Quiet : Does(c, to)
    BY EndsQuietly
  <1> QED
    BY <1>1, QuietStep DEF CommentInv, CommentTypeOK, RowType, locals

\* A call takes a step of its own, with the comment it has in hand and the claim it found.
LEMMA CallStep ==
  ASSUME CommentInv, NEW c \in Calls, NEW to \in Steps, doing[c] \notin Ended, to # "idle",
         Does(c, to), NEW i \in Ids, i <= posted, NEW h \in Calls \cup {Nobody},
         ref' = [ref EXCEPT ![c] = i], held' = [held EXCEPT ![c] = h],
         UNCHANGED <<content, row, comments, posted, body, backlog, ghosts>>,
         text' \in [1..MaxComments -> Bodies],
         to \in {"probe", "update", "adopt", "edit", "persist"} => i \in 1..posted,
         ~late => CallOK(c)'
  PROVE  CommentInv'
  <1>1. /\ ref' \in [Calls -> Ids] /\ held' \in [Calls -> Calls \cup {Nobody}]
        /\ ref'[c] = i
        /\ \A d \in Calls \ {c} : ref'[d] = ref[d] /\ held'[d] = held[d]
    BY DEF CommentInv, CommentTypeOK
  <1>2. /\ row' \in RowType /\ content' \in 1..MaxBody /\ owed' \in Bodies
        /\ body' \in [Calls -> Bodies] /\ backlog' \in [Calls -> BOOLEAN]
        /\ spoilt' \in BOOLEAN
    BY DEF CommentInv, CommentTypeOK, RowType, ghosts
  <1> QED
    BY <1>1, <1>2, LocalStep DEF Does, ghosts

---------------------------------------------------------------------------
\* The steps that move the claim.

\* What the winner of a claim relies on.
LEMMA ClaimStep ==
  ASSUME CommentInv, NEW c \in Calls, NEW to \in {"create", "scan"}, doing[c] \notin Ended,
         doing[c] # "persist",
         Does(c, to), row' \in RowType, row.present => row'.present,
         row'.id = 0, row'.claim = c, ~row'.expired,
         UNCHANGED <<content, github, locals, ghosts>>,
         ~late => /\ to = "create" => comments = {}
                  /\ row'.present
                  /\ \A d \in Calls \ {c} :
                       /\ doing[d] \notin {"scan", "adopt", "create", "persist"}
                       /\ doing[d] \in {"probe", "update", "edit"} => ref[d] \notin comments
  PROVE  CommentInv'
  <1> USE DEF CommentInv
  <1>1. /\ comments' = comments /\ posted' = posted /\ text' = text /\ content' = content
        /\ owed' = owed /\ body' = body /\ ref' = ref /\ held' = held /\ backlog' = backlog
        /\ late' = late /\ spoilt' = spoilt
    BY DEF github, locals, ghosts
  <1>2. \A d \in Calls : doing'[d] = IF d = c THEN to ELSE doing[d]
    BY DEF Does, CommentTypeOK
  <1>3. CommentTypeOK'
    <2>1. doing' \in [Calls -> {"idle"} \cup Running \cup Ended]
      BY DEF Does, CommentTypeOK, Running
    <2>2. \A d \in Calls : doing'[d] \in {"probe", "update", "adopt", "edit", "persist"} =>
                             ref'[d] \in 1..posted
      BY <1>1, <1>2 DEF CommentTypeOK
    <2> QED
      BY <1>1, <2>1, <2>2 DEF CommentTypeOK, RowType
  <1>4. NumbersOK'
    BY <1>1 DEF NumbersOK, CommentTypeOK, Ids
  <1>5. ASSUME ~late PROVE RowOK' /\ OneComment' /\ \A d \in Calls : CallOK(d)'
    <2>1. RowOK'
      BY <1>2, <1>5 DEF RowOK
    <2>2. CallOK(c)'
      BY <1>1, <1>2, <1>5 DEF CallOK
    <2>3. ASSUME NEW d \in Calls \ {c} PROVE CallOK(d)'
      <3>1. doing'[d] = doing[d] /\ CallOK(d) /\ held[d] \in Calls \cup {Nobody}
        BY <1>2, <1>5 DEF CommentTypeOK
      <3>2. held[d] # Nobody /\ doing[held[d]] \in Ended => doing'[held[d]] \in Ended
        BY <1>2, <3>1
      <3> QED
        BY <1>1, <1>5, <3>1, <3>2 DEF CallOK
    <2> QED
      BY <1>1, <1>5, <2>1, <2>2, <2>3 DEF OneComment
  <1> QED
    BY <1>1, <1>3, <1>4, <1>5

\* A call takes a step with what it has in hand.
LEMMA KeepStep ==
  ASSUME CommentInv, NEW c \in Calls, NEW to \in Steps, doing[c] \notin Ended, to # "idle",
         Does(c, to),
         UNCHANGED <<content, row, comments, posted, locals, ghosts>>,
         text' \in [1..MaxComments -> Bodies],
         to \in {"probe", "update", "adopt", "edit", "persist"} => ref[c] \in 1..posted,
         ~late => CallOK(c)'
  PROVE  CommentInv'
  <1>1. ref[c] \in Ids /\ ref[c] <= posted /\ held[c] \in Calls \cup {Nobody}
    BY DEF CommentInv, CommentTypeOK, NumbersOK
  <1>2. ref' = [ref EXCEPT ![c] = ref[c]] /\ held' = [held EXCEPT ![c] = held[c]]
    BY DEF locals, CommentInv, CommentTypeOK
  <1> QED
    BY <1>1, <1>2, CallStep DEF locals

---------------------------------------------------------------------------
\* The steps one by one.

LEMMA BeginKeeps ==
  ASSUME CommentInv, NEW c \in Calls, Trigger(c) \/ Sweep(c) \/ Render(c)
  PROVE  CommentInv'
  <1>1. PICK to \in {"render", "mark", "read"} : Does(c, to)
    BY DEF Trigger, Sweep, Render
  <1>2. to \in Quiet /\ doing[c] \notin Ended
    BY DEF Quiet, Ended, Trigger, Sweep, Render, Doing
  <1>3. /\ UNCHANGED <<comments, posted, late, ref, held, row>>
        /\ content' = content /\ owed' \in Bodies /\ text' = text
        /\ body' \in [Calls -> Bodies] /\ backlog' \in [Calls -> BOOLEAN]
        /\ spoilt' \in BOOLEAN
    <2> USE DEF CommentInv, CommentTypeOK, github, locals, ghosts
    <2>1. CASE Trigger(c)
      BY <2>1 DEF Trigger
    <2>2. CASE Sweep(c)
      BY <2>2 DEF Sweep, Bodies
    <2>3. CASE Render(c)
      BY <2>3 DEF Render, Bodies
    <2> QED
      BY <2>1, <2>2, <2>3
  <1> QED
    BY <1>1, <1>2, <1>3, QuietStep DEF CommentInv, CommentTypeOK, RowType

LEMMA ReadRowKeeps == ASSUME CommentInv, NEW c \in Calls, ReadRow(c) PROVE CommentInv'
  <1>1. /\ doing[c] = "read" /\ ref' = [ref EXCEPT ![c] = row.id]
        /\ held' = held /\ UNCHANGED <<content, row, github, body, backlog, ghosts>>
    BY DEF ReadRow, Doing
  <1>2. row.id \in Ids /\ row.id <= posted /\ doing[c] \notin Ended
    BY <1>1 DEF CommentInv, CommentTypeOK, NumbersOK, Ended
  <1>3. PICK to \in {"claim", "probe", "update", "refreshed", "mark", "clear"} :
          /\ Does(c, to)
          /\ to \in {"probe", "update"} => row.id # 0
          /\ to = "claim" => row.id = 0
    BY <1>1 DEF ReadRow, Ends
  <1>4. held' = [held EXCEPT ![c] = held[c]] /\ held[c] \in Calls \cup {Nobody}
    BY <1>1 DEF CommentInv, CommentTypeOK
  <1>5. to \in Steps /\ to # "idle"
    BY DEF Steps, Running, Ended
  <1>6. ref'[c] = row.id /\ doing'[c] = to
    BY <1>1, <1>3 DEF Does, CommentInv, CommentTypeOK
  <1>7. ASSUME ~late PROVE CallOK(c)'
    <2>1. row.id # 0 => row.present
      BY <1>7 DEF CommentInv, RowOK
    <2> QED
      BY <1>1, <1>3, <1>6, <2>1 DEF CallOK, github, Ended
  <1>8. to \in {"probe", "update"} => row.id \in 1..posted
    BY <1>2, <1>3 DEF Ids, CommentInv, CommentTypeOK
  <1>9. /\ text' \in [1..MaxComments -> Bodies]
        /\ UNCHANGED <<content, row, comments, posted, body, backlog, ghosts>>
    BY <1>1 DEF github, CommentInv, CommentTypeOK
  <1> QED
    BY <1>1, <1>2, <1>3, <1>4, <1>5, <1>7, <1>8, <1>9, CallStep

LEMMA ProbeKeeps == ASSUME CommentInv, NEW c \in Calls, Probe(c) PROVE CommentInv'
  <1>1. doing[c] \notin Ended /\ UNCHANGED <<content, row, github, locals, ghosts>>
    BY DEF Probe, Doing, Ended
  <1>2. text' \in [1..MaxComments -> Bodies]
    BY <1>1 DEF github, CommentInv, CommentTypeOK
  <1>3. CASE ref[c] \in comments
    BY <1>1, <1>2, <1>3, EndStep
    DEF Probe, github, ghosts, Ended, CommentInv, CommentTypeOK
  <1>4. CASE ref[c] \notin comments
    <2>1. Does(c, "claim")
      BY <1>4 DEF Probe
    <2>2. doing'[c] = "claim"
      BY <2>1 DEF Does, CommentInv, CommentTypeOK
    <2>3. ~late => CallOK(c)'
      BY <1>1, <1>4, <2>2 DEF CallOK, CommentInv, locals, github
    <2> QED
      BY <1>1, <1>2, <2>1, <2>3, KeepStep DEF Steps, Running, github
  <1> QED
    BY <1>3, <1>4

\* The winner of a claim is alone: the row had no comment, or its comment is gone.
LEMMA ClaimKeeps == ASSUME CommentInv, NEW c \in Calls, Claim(c) PROVE CommentInv'
  <1>1. /\ doing[c] = "claim" /\ doing[c] \notin Ended
        /\ UNCHANGED <<content, github, locals, ghosts>>
    BY DEF Claim, Doing, Ended
  <1>2. CASE (ref[c] = 0 /\ ~row.present) \/ (ref[c] # 0 /\ row.id = ref[c])
    <2>1. /\ Does(c, "create")
          /\ row' = [present |-> TRUE, id |-> 0, hash |-> 0, claim |-> c, expired |-> FALSE,
                     flag |-> row.flag]
      BY <1>2 DEF Claim, Won
    <2>2. row' \in RowType
      BY <2>1 DEF RowType, CommentInv, CommentTypeOK, Ids, Bodies
    <2>3. ASSUME ~late
          PROVE  /\ comments = {}
                 /\ \A d \in Calls : row.claim # d \/ row.id # 0
                 /\ \A d \in Calls : CallOK(d)
      BY <1>1, <1>2, <2>3 DEF CommentInv, RowOK, CallOK
    <2>4. ASSUME ~late, NEW d \in Calls
          PROVE  doing[d] \notin {"scan", "adopt", "create", "persist"}
      BY <2>3, <2>4 DEF CallOK
    <2> QED
      BY <1>1, <2>1, <2>2, <2>3, <2>4, ClaimStep
  <1>3. CASE ~((ref[c] = 0 /\ ~row.present) \/ (ref[c] # 0 /\ row.id = ref[c]))
    <2>1. Does(c, "reread") /\ UNCHANGED row
      BY <1>3 DEF Claim
    <2>2. doing'[c] = "reread"
      BY <2>1 DEF Does, CommentInv, CommentTypeOK
    <2>3. ASSUME ~late PROVE CallOK(c)'
      <3>1. row.present
        BY <1>3, <2>3 DEF CallOK, CommentInv
      <3> QED
        BY <2>1, <2>2, <3>1 DEF CallOK
    <2> QED
      BY <1>1, <2>1, <2>3, KeepStep DEF Steps, Running, github, CommentInv, CommentTypeOK
  <1> QED
    BY <1>2, <1>3

LEMMA RereadKeeps == ASSUME CommentInv, NEW c \in Calls, Reread(c) PROVE CommentInv'
  <1>1. /\ doing[c] = "reread" /\ doing[c] \notin Ended
        /\ ref' = [ref EXCEPT ![c] = row.id] /\ held' = [held EXCEPT ![c] = row.claim]
        /\ UNCHANGED <<content, row, github, body, backlog, ghosts>>
    BY DEF Reread, Doing, Ended
  <1>2. PICK to \in {"edit", "take", "failed", "mark", "clear"} :
          /\ Does(c, to)
          /\ to = "edit" => row.id # 0
          /\ to = "take" => row.claim = Nobody \/ row.expired
    BY DEF Reread, Ends
  <1>3. /\ row.id \in Ids /\ row.id <= posted /\ row.claim \in Calls \cup {Nobody}
        /\ posted \in Nat
    BY DEF CommentInv, CommentTypeOK, NumbersOK, Ids
  <1>4. to = "edit" => row.id \in 1..posted
    BY <1>2, <1>3 DEF Ids
  <1>5. \A d \in Calls : doing'[d] = IF d = c THEN to ELSE doing[d]
    BY <1>2 DEF Does, CommentInv, CommentTypeOK
  <1>6. ref'[c] = row.id /\ held'[c] = row.claim
    BY <1>1 DEF CommentInv, CommentTypeOK
  <1>7. ASSUME ~late PROVE CallOK(c)'
    <2>1. to = "take" /\ row.claim # Nobody => doing'[row.claim] \in Ended
      BY <1>1, <1>2, <1>3, <1>5, <1>7 DEF CommentInv, RowOK
    <2>2. row.present
      BY <1>1, <1>7 DEF CommentInv, CallOK
    <2>3. row' = row
      BY <1>1
    <2> QED
      BY <1>2, <1>5, <1>6, <2>1, <2>2, <2>3 DEF CallOK
  <1> QED
    BY <1>1, <1>2, <1>3, <1>4, <1>7, CallStep
    DEF Steps, Running, Ended, github, CommentInv, CommentTypeOK

\* A claim is taken over from a call that has ended, or from none.
LEMMA TakeOverKeeps == ASSUME CommentInv, NEW c \in Calls, TakeOver(c) PROVE CommentInv'
  <1>1. /\ doing[c] = "take" /\ doing[c] \notin Ended
        /\ UNCHANGED <<content, github, locals, ghosts>>
    BY DEF TakeOver, Doing, Ended
  <1>2. CASE row.id = 0 /\ row.claim = held[c]
    <2>1. Does(c, "scan") /\ row' = [row EXCEPT !.claim = c, !.expired = FALSE]
      BY <1>2 DEF TakeOver
    <2>2. /\ row \in RowType /\ held[c] \in Calls \cup {Nobody}
      BY DEF RowType, CommentInv, CommentTypeOK
    <2>3. /\ row' \in RowType /\ row'.id = 0 /\ row'.claim = c /\ ~row'.expired
          /\ row'.present = row.present
      BY <1>2, <2>1, <2>2 DEF RowType
    <2>4. ASSUME ~late
          PROVE  \A d \in Calls \ {c} :
                   doing[d] \notin {"scan", "adopt", "create", "persist"}
      <3> SUFFICES ASSUME NEW d \in Calls \ {c},
                          doing[d] \in {"scan", "adopt", "create", "persist"}
                   PROVE  FALSE
        OBVIOUS
      <3>1. CallOK(d) /\ CallOK(c) /\ RowOK
        BY <2>4 DEF CommentInv
      <3>2. d = held[c]
        BY <1>2, <3>1 DEF CallOK, RowOK, CommentInv, CommentTypeOK
      <3>3. doing[d] \in Ended
        BY <1>1, <2>2, <3>1, <3>2 DEF CallOK
      <3> QED
        BY <3>3 DEF Ended
    <2>5. ASSUME ~late, NEW d \in Calls
          PROVE  doing[d] \in {"probe", "update", "edit"} => ref[d] \notin comments
      BY <1>2, <2>5 DEF CommentInv, CallOK, NumbersOK, CommentTypeOK
    <2>6. ~late => row.present
      BY <1>1 DEF CommentInv, CallOK
    <2> QED
      BY <1>1, <2>1, <2>2, <2>3, <2>4, <2>5, <2>6, ClaimStep
  <1>3. CASE ~(row.id = 0 /\ row.claim = held[c])
    BY <1>1, <1>3, EndStep DEF TakeOver, Ended, github, ghosts, CommentInv, CommentTypeOK
  <1> QED
    BY <1>2, <1>3

\* The comment a call finds is the only one.
LEMMA ScanKeeps == ASSUME CommentInv, NEW c \in Calls, Scan(c) PROVE CommentInv'
  <1>1. /\ doing[c] = "scan" /\ doing[c] \notin Ended
        /\ UNCHANGED <<content, row, github, body, held, backlog, ghosts>>
    BY DEF Scan, Doing, Ended
  <1>2. /\ text' \in [1..MaxComments -> Bodies] /\ posted \in Nat
        /\ UNCHANGED <<content, row, comments, posted, body, backlog, ghosts>>
    BY <1>1 DEF github, CommentInv, CommentTypeOK, Ids
  <1>3. CASE comments = {}
    <2>1. Does(c, "create") /\ ref' = ref
      BY <1>3 DEF Scan
    <2>2. doing'[c] = "create"
      BY <2>1 DEF Does, CommentInv, CommentTypeOK
    <2>3. ~late => CallOK(c)'
      BY <1>1, <1>2, <1>3, <2>1, <2>2 DEF CommentInv, CallOK
    <2> QED
      BY <1>1, <1>2, <2>1, <2>3, KeepStep DEF Steps, Running, locals
  <1>4. CASE comments # {}
    <2>1. PICK i \in comments : Does(c, "adopt") /\ ref' = [ref EXCEPT ![c] = i]
      BY <1>4 DEF Scan
    <2>2. i \in Ids /\ i <= posted /\ i \in 1..posted
      BY <1>2 DEF CommentInv, CommentTypeOK, NumbersOK, Ids
    <2>3. doing'[c] = "adopt" /\ ref'[c] = i
      BY <2>1 DEF Does, CommentInv, CommentTypeOK
    <2>4. ~late => CallOK(c)'
      BY <1>1, <1>2, <2>3 DEF CommentInv, CallOK, OneComment, RowOK
    <2>5. held' = [held EXCEPT ![c] = held[c]] /\ held[c] \in Calls \cup {Nobody}
      BY <1>1 DEF CommentInv, CommentTypeOK
    <2> QED
      BY <1>1, <1>2, <2>1, <2>2, <2>4, <2>5, CallStep DEF Steps, Running
  <1> QED
    BY <1>3, <1>4

\* An edit that succeeds found the comment: it is the row's, or that of the claim.
LEMMA PatchKeeps ==
  ASSUME CommentInv, NEW c \in Calls, Update(c) \/ Adopt(c) \/ Edit(c)
  PROVE  CommentInv'
  <1>1. /\ doing[c] \in {"update", "adopt", "edit"} /\ doing[c] \notin Ended
        /\ UNCHANGED <<content, row, locals, ghosts>>
    BY DEF Update, Adopt, Edit, Patch, Doing, Ended
  <1>2. ref[c] \in 1..posted /\ ref[c] \in Ids
    BY <1>1 DEF CommentInv, CommentTypeOK
  <1>3. CASE ref[c] \in comments
    <2>1. WriteBody(c)
      BY <1>3 DEF Update, Adopt, Edit, Patch
    <2>2. /\ UNCHANGED <<comments, posted>>
          /\ text' \in [1..MaxComments -> Bodies]
      BY <1>3, <2>1 DEF WriteBody, CommentInv, CommentTypeOK
    <2>3. CASE Does(c, "persist")
      <3>1. doing'[c] = "persist"
        BY <2>3 DEF Does, CommentInv, CommentTypeOK
      <3>2. ASSUME ~late PROVE CallOK(c)'
        <4>1. CallOK(c)
          BY <3>2 DEF CommentInv
        <4>2. row.id = ref[c] \/ (row.id = 0 /\ row.claim = c /\ ~row.expired)
          BY <1>1, <1>3, <4>1 DEF CallOK
        <4>3. row' = row /\ ref' = ref
          BY <1>1 DEF locals
        <4> QED
          BY <1>3, <2>2, <3>1, <4>1, <4>2, <4>3 DEF CallOK
      <3> QED
        BY <1>1, <1>2, <2>2, <2>3, <3>2, KeepStep DEF Steps, Running
    <2>4. CASE Ends(c, "failed")
      BY <1>1, <2>2, <2>4, EndStep DEF Ended, ghosts, CommentInv, CommentTypeOK
    <2> QED
      BY <2>1, <2>3, <2>4 DEF WriteBody, Answered
  <1>4. CASE ref[c] \notin comments
    <2>1. /\ UNCHANGED <<comments, posted>> /\ UNCHANGED github
          /\ text' \in [1..MaxComments -> Bodies]
      BY <1>4 DEF Update, Adopt, Edit, Patch, github, CommentInv, CommentTypeOK
    <2>2. CASE Edit(c)
      BY <1>1, <1>4, <2>1, <2>2, EndStep
      DEF Edit, Patch, Ended, ghosts, CommentInv, CommentTypeOK
    <2>3. CASE Update(c)
      <3>1. Does(c, "claim")
        BY <1>4, <2>3 DEF Update, Patch
      <3>2. doing'[c] = "claim"
        BY <3>1 DEF Does, CommentInv, CommentTypeOK
      <3>3. ~late => CallOK(c)'
        BY <1>1, <1>4, <2>1, <3>2 DEF CallOK, CommentInv, locals
      <3> QED
        BY <1>1, <2>1, <3>1, <3>3, KeepStep DEF Steps, Running
    <2>4. CASE Adopt(c)
      <3>1. Does(c, "create") /\ doing[c] = "adopt"
        BY <1>4, <2>4 DEF Adopt, Patch, Doing
      <3>2. doing'[c] = "create"
        BY <3>1 DEF Does, CommentInv, CommentTypeOK
      <3>3. ~late => CallOK(c)'
        BY <1>1, <1>4, <2>1, <3>1, <3>2 DEF CallOK, CommentInv, locals
      <3> QED
        BY <1>1, <2>1, <3>1, <3>3, KeepStep DEF Steps, Running
    <2> QED
      BY <2>2, <2>3, <2>4
  <1> QED
    BY <1>3, <1>4

\* The first comment of the pull request, or the first after one that is gone.
LEMMA CreateKeeps == ASSUME CommentInv, NEW c \in Calls, Create(c) PROVE CommentInv'
  <1> USE DEF CommentInv
  <1>1. /\ doing[c] = "create"
        /\ posted < MaxComments /\ posted' = posted + 1
        /\ comments' = comments \cup {posted + 1}
        /\ text' = [text EXCEPT ![posted + 1] = body[c]]
        /\ ref' = [ref EXCEPT ![c] = posted + 1]
        /\ row' = row /\ body' = body /\ held' = held /\ backlog' = backlog
        /\ content' = content /\ owed' = owed /\ spoilt' = spoilt /\ late' = late
    BY DEF Create, Doing, ghosts
  <1>2. PICK to \in Quiet \cup {"persist"} : Does(c, to)
    BY EndsQuietly DEF Create, Answered, Ended
  <1>3. \A d \in Calls : doing'[d] = IF d = c THEN to ELSE doing[d]
    BY <1>2 DEF Does, CommentTypeOK
  <1>4. \A d \in Calls : ref'[d] = IF d = c THEN posted + 1 ELSE ref[d]
    BY <1>1 DEF CommentTypeOK
  <1>5. posted \in Nat /\ posted + 1 \in 1..MaxComments
    BY <1>1 DEF CommentTypeOK, Ids
  <1>6. CommentTypeOK'
    <2>1. doing' \in [Calls -> {"idle"} \cup Running \cup Ended]
      BY <1>2, QuietSteps DEF Does, CommentTypeOK, Steps, Running
    <2>2. /\ comments' \subseteq 1..MaxComments /\ posted' \in Ids
          /\ text' \in [1..MaxComments -> Bodies] /\ ref' \in [Calls -> Ids]
      BY <1>1, <1>5 DEF CommentTypeOK, Ids
    <2>3. \A d \in Calls : doing'[d] \in {"probe", "update", "adopt", "edit", "persist"} =>
                             ref'[d] \in 1..posted'
      BY <1>1, <1>3, <1>4, <1>5 DEF CommentTypeOK
    <2> QED
      BY <1>1, <2>1, <2>2, <2>3 DEF CommentTypeOK
  <1>7. NumbersOK'
    BY <1>1, <1>4, <1>5 DEF NumbersOK, CommentTypeOK, Ids
  <1>8. ASSUME ~late PROVE RowOK' /\ OneComment' /\ \A d \in Calls : CallOK(d)'
    <2>1. /\ row.id = 0 /\ row.claim = c /\ ~row.expired /\ comments = {} /\ row.present
      BY <1>1, <1>8 DEF CallOK, RowOK
    <2>2. comments' = {posted + 1}
      BY <1>1, <2>1
    <2>3. to # "idle"
      BY QuietSteps
    <2>4. RowOK' /\ OneComment'
      BY <1>1, <1>3, <2>1, <2>2, <2>3 DEF RowOK, OneComment
    <2>5. CallOK(c)'
      BY <1>1, <1>3, <1>4, <2>1, <2>2, QuietSteps DEF CallOK, Quiet, Ended
    <2>6. ASSUME NEW d \in Calls \ {c} PROVE CallOK(d)'
      <3>1. /\ doing'[d] = doing[d] /\ ref'[d] = ref[d] /\ held'[d] = held[d]
            /\ CallOK(d) /\ held[d] \in Calls \cup {Nobody}
        BY <1>1, <1>3, <1>4, <1>8 DEF CommentTypeOK
      <3>2. doing[d] \notin {"scan", "adopt", "create", "persist"}
        BY <2>1, <3>1 DEF CallOK
      <3>3. ref[d] # posted + 1
        BY <1>5 DEF NumbersOK, CommentTypeOK, Ids
      <3>4. held[d] # Nobody /\ doing[held[d]] \in Ended => doing'[held[d]] \in Ended
        BY <1>1, <1>3, <3>1 DEF Ended
      <3> QED
        BY <1>1, <2>1, <2>2, <3>1, <3>2, <3>3, <3>4 DEF CallOK
    <2> QED
      BY <2>4, <2>5, <2>6
  <1> QED
    BY <1>1, <1>6, <1>7, <1>8

\* The record of a comment: no claim but the call's own can be open.
LEMMA PersistKeeps == ASSUME CommentInv, NEW c \in Calls, Persist(c) PROVE CommentInv'
  <1> USE DEF CommentInv
  <1>1. /\ doing[c] = "persist"
        /\ row' = [present |-> TRUE, id |-> ref[c], hash |-> body[c], claim |-> Nobody,
                   expired |-> FALSE, flag |-> FALSE]
        /\ comments' = comments /\ text' = text /\ posted' = posted
        /\ ref' = ref /\ body' = body /\ held' = held /\ backlog' = backlog
        /\ content' = content /\ owed' = owed /\ spoilt' = spoilt /\ late' = late
    BY DEF Persist, Doing, github, locals, ghosts
  <1>2. PICK to \in Quiet : Does(c, to)
    BY EndsQuietly DEF Persist, Answered, Ended, Quiet
  <1>3. \A d \in Calls : doing'[d] = IF d = c THEN to ELSE doing[d]
    BY <1>2 DEF Does, CommentTypeOK
  <1>4. ref[c] \in 1..posted /\ ref[c] \in Ids /\ ref[c] # 0
    BY <1>1 DEF CommentTypeOK
  <1>5. CommentTypeOK'
    <2>1. doing' \in [Calls -> {"idle"} \cup Running \cup Ended]
      BY <1>2, QuietSteps DEF Does, CommentTypeOK, Steps
    <2>2. row' \in RowType /\ ~row'.expired
      BY <1>1, <1>4 DEF RowType, CommentTypeOK
    <2>3. \A d \in Calls : doing'[d] \in {"probe", "update", "adopt", "edit", "persist"} =>
                             ref'[d] \in 1..posted'
      BY <1>1, <1>3, QuietSteps DEF CommentTypeOK
    <2> QED
      BY <1>1, <2>1, <2>2, <2>3 DEF CommentTypeOK, RowType
  <1>6. NumbersOK'
    BY <1>1, <1>4 DEF NumbersOK, CommentTypeOK, Ids
  <1>7. ASSUME ~late PROVE RowOK' /\ OneComment' /\ \A d \in Calls : CallOK(d)'
    <2>1. /\ ref[c] \in comments
          /\ row.id = ref[c] \/ (row.id = 0 /\ row.claim = c)
      BY <1>1, <1>7 DEF CallOK
    <2>2. \A i \in comments : i = ref[c]
      BY <1>7, <2>1 DEF OneComment
    <2>3. RowOK' /\ OneComment'
      BY <1>1, <1>4, <1>7, <2>2 DEF RowOK, OneComment
    <2>4. CallOK(c)'
      BY <1>1, <1>3, QuietSteps DEF CallOK, Quiet, Ended
    <2>5. ASSUME NEW d \in Calls \ {c} PROVE CallOK(d)'
      <3>1. /\ doing'[d] = doing[d] /\ CallOK(d) /\ held[d] \in Calls \cup {Nobody}
        BY <1>1, <1>3, <1>7 DEF CommentTypeOK
      <3>2. doing[d] \notin {"scan", "adopt", "create"}
        BY <1>4, <2>1, <3>1 DEF CallOK
      <3>3. doing[d] = "persist" => ref[d] \in comments /\ row'.id = ref[d]
        BY <1>1, <2>2, <3>1 DEF CallOK
      <3>4. doing[d] \in {"probe", "update", "edit"} /\ ref[d] \in comments =>
              row'.id = ref[d]
        BY <1>1, <2>2
      <3>5. held[d] # Nobody /\ doing[held[d]] \in Ended => doing'[held[d]] \in Ended
        BY <1>1, <1>3, <3>1 DEF Ended
      <3> QED
        BY <1>1, <3>1, <3>2, <3>3, <3>4, <3>5 DEF CallOK
    <2> QED
      BY <2>3, <2>4, <2>5
  <1> QED
    BY <1>1, <1>5, <1>6, <1>7

LEMMA MarkKeeps ==
  ASSUME CommentInv, NEW c \in Calls, Mark(c) \/ ClearFlag(c)
  PROVE  CommentInv'
  <1>1. /\ doing[c] \notin Ended
        /\ Does(c, "failed") \/ Does(c, "refreshed")
        /\ UNCHANGED <<content, github, locals, owed, late>>
    BY DEF Mark, ClearFlag, Doing, Ended, ghosts
  <1>2. /\ row' \in RowType /\ row'.id = row.id /\ row'.claim = row.claim
        /\ row'.expired = row.expired
        /\ row.present => row'.present
        /\ spoilt' \in BOOLEAN
    <2>1. row \in RowType /\ spoilt \in BOOLEAN
      BY DEF CommentInv, CommentTypeOK, RowType
    <2>2. CASE row' = row /\ spoilt' \in BOOLEAN
      BY <2>1, <2>2
    <2>3. CASE row' = [row EXCEPT !.present = TRUE, !.flag = TRUE] /\ spoilt' = spoilt
      BY <2>1, <2>3 DEF RowType
    <2>4. CASE row' = [row EXCEPT !.flag = FALSE] /\ spoilt' = spoilt
      BY <2>1, <2>4 DEF RowType
    <2> QED
      BY <2>1, <2>2, <2>3, <2>4 DEF Mark, ClearFlag, ghosts
  <1>3. {"failed", "refreshed"} \subseteq Quiet
    BY DEF Quiet, Ended
  <1>4. /\ UNCHANGED <<comments, posted, late, ref, held>>
        /\ content' \in 1..MaxBody /\ owed' \in Bodies
        /\ text' \in [1..MaxComments -> Bodies] /\ body' \in [Calls -> Bodies]
        /\ backlog' \in [Calls -> BOOLEAN]
    BY <1>1 DEF github, locals, CommentInv, CommentTypeOK
  <1>5. PICK to \in Quiet : Does(c, to)
    BY <1>1, <1>3
  <1>6. doing[c] \notin Ended
    BY <1>1
  <1> QED
    BY <1>2, <1>4, <1>5, <1>6, QuietStep

LEMMA StopKeeps ==
  ASSUME CommentInv, NEW c \in Calls, CallFails(c) \/ Denied(c) \/ Dies(c)
  PROVE  CommentInv'
  <1>1. /\ doing[c] \notin Ended
        /\ UNCHANGED <<content, row, github, locals, owed, late>>
        /\ spoilt' \in BOOLEAN
    BY DEF CallFails, Denied, Dies, InFlight, Running, Ended, ghosts, CommentInv,
           CommentTypeOK
  <1>2. PICK to \in Quiet : Does(c, to)
    <2>1. CASE Dies(c)
      BY <2>1 DEF Dies, Quiet, Ended
    <2>2. CASE CallFails(c) \/ Denied(c)
      BY <2>2, EndsQuietly DEF CallFails, Denied, Ended
    <2> QED
      BY <2>1, <2>2
  <1> QED
    BY <1>1, <1>2, QuietStep
    DEF github, locals, CommentInv, CommentTypeOK, RowType

LEMMA WorldKeeps ==
  ASSUME CommentInv, Change \/ Expire \/ \E i \in comments : DeleteComment(i)
  PROVE  CommentInv'
  <1> USE DEF CommentInv
  <1>1. CASE Change
    <2>1. /\ UNCHANGED <<row, comments, text, posted, doing, body, ref, held, backlog,
                         spoilt, late>>
          /\ content' \in 1..MaxBody /\ owed' \in Bodies
      BY <1>1 DEF Change, github, locals, ghosts, CommentTypeOK
    <2> QED
      BY <2>1 DEF CommentTypeOK, NumbersOK, RowOK, OneComment, CallOK
  <1>2. CASE Expire
    <2>1. /\ row.claim # Nobody /\ ~row.expired
          /\ row' = [row EXCEPT !.expired = TRUE]
          /\ late' = (late \/ InFlight(row.claim))
          /\ UNCHANGED <<content, owed, comments, text, posted, doing, body, ref, held,
                         backlog, spoilt>>
      BY <1>2 DEF Expire, github, locals
    <2>2. row \in RowType
      BY DEF CommentTypeOK, RowType
    <2>3. /\ row' \in RowType /\ row'.id = row.id /\ row'.claim = row.claim
          /\ row'.expired /\ row'.present = row.present
      BY <2>1, <2>2 DEF RowType
    <2>4. CommentTypeOK' /\ NumbersOK'
      BY <2>1, <2>3 DEF CommentTypeOK, NumbersOK, RowType
    <2>5. ASSUME ~late' PROVE RowOK' /\ OneComment' /\ \A d \in Calls : CallOK(d)'
      <3>1. ~late /\ ~InFlight(row.claim) /\ row.claim \in Calls
        BY <2>1, <2>5 DEF CommentTypeOK
      <3>2. doing[row.claim] \in Ended
        BY <2>1, <3>1 DEF RowOK, InFlight, CommentTypeOK
      <3>3. RowOK' /\ OneComment'
        BY <2>1, <2>3, <3>1, <3>2 DEF RowOK, OneComment
      <3>4. ASSUME NEW d \in Calls PROVE CallOK(d)'
        <4>1. CallOK(d)
          BY <3>1
        <4>2. doing[d] \in {"scan", "adopt", "create", "persist"} => row.claim # d
          BY <3>2 DEF Ended
        <4> QED
          BY <2>1, <2>3, <4>1, <4>2 DEF CallOK
      <3> QED
        BY <3>3, <3>4
    <2> QED
      BY <2>4, <2>5
  <1>3. ASSUME NEW i \in comments, DeleteComment(i) PROVE CommentInv'
    <2>1. /\ comments' = comments \ {i}
          /\ late' = (late \/ \E c \in Calls : Doing(c, "persist") /\ ref[c] = i)
          /\ UNCHANGED <<content, owed, row, text, posted, doing, body, ref, held, backlog,
                         spoilt>>
      BY <1>3 DEF DeleteComment, locals
    <2>2. CommentTypeOK' /\ NumbersOK'
      BY <2>1 DEF CommentTypeOK, NumbersOK
    <2>3. ASSUME ~late' PROVE RowOK' /\ OneComment' /\ \A d \in Calls : CallOK(d)'
      <3>1. ~late /\ \A d \in Calls : doing[d] = "persist" => ref[d] # i
        BY <2>1, <2>3 DEF Doing
      <3>2. RowOK' /\ OneComment'
        BY <2>1, <3>1 DEF RowOK, OneComment
      <3>3. ASSUME NEW d \in Calls PROVE CallOK(d)'
        <4>1. CallOK(d)
          BY <3>1
        <4> QED
          BY <2>1, <3>1, <4>1 DEF CallOK
      <3> QED
        BY <3>2, <3>3
    <2> QED
      BY <2>2, <2>3
  <1> QED
    BY <1>1, <1>2, <1>3

LEMMA CommentStepInv == CommentInv /\ [CommentNext]_commentVars => CommentInv'
  <1> SUFFICES ASSUME CommentInv, [CommentNext]_commentVars PROVE CommentInv'
    OBVIOUS
  <1>1. CASE UNCHANGED commentVars
    BY <1>1 DEF commentVars, github, locals, ghosts, CommentInv, CommentTypeOK,
                NumbersOK, RowOK, OneComment, CallOK
  <1>2. ASSUME NEW c \in Calls, Refresh(c) PROVE CommentInv'
    BY <1>2, BeginKeeps, ReadRowKeeps, ProbeKeeps, ClaimKeeps, RereadKeeps, TakeOverKeeps,
       ScanKeeps, PatchKeeps, CreateKeeps, PersistKeeps, MarkKeeps, StopKeeps
    DEF Refresh
  <1> QED
    BY <1>1, <1>2, WorldKeeps DEF CommentNext

\* Every step keeps CommentInv.
LEMMA CommentInvariant == CommentSpec => []CommentInv
  BY CommentInitInv, CommentStepInv, PTL DEF CommentSpec

\* The row, the comments and the calls keep their types.
THEOREM CommentTypeCorrect == CommentSpec => []CommentTypeOK
  <1>1. CommentInv => CommentTypeOK
    BY DEF CommentInv
  <1> QED
    BY <1>1, CommentInvariant, PTL

\* "One comment per PR - never a second", while no claim runs out under its holder and no
\* comment is deleted between its edit and the record of it: whatever calls race, die,
\* fail or lose an answer.
THEOREM NeverASecond == CommentSpec => []OneCommentInTime
  <1>1. CommentInv => OneCommentInTime
    BY DEF CommentInv, OneCommentInTime
  <1> QED
    BY <1>1, CommentInvariant, PTL

\* A comment on GitHub is recorded in the row, or the row is claimed without an id, so that
\* the next claimant looks for it.
THEOREM CommentsFindable == CommentSpec => []NoOrphan
  <1>1. CommentInv => NoOrphan
    BY DEF CommentInv, NoOrphan, RowOK
  <1> QED
    BY <1>1, CommentInvariant, PTL

---------------------------------------------------------------------------
\* What is left when every call has ended.

\* What the last sweep to take up the pull request was to show is shown, or the pull
\* request is in the backlog.
Settled == owed = 0 \/ row.flag \/ Shows(owed)

\* The row leads to the one comment, and its hash is no newer than that comment: texts,
\* hashes and bodies only go up to what a call renders now.
RowLeads ==
  /\ row.id # 0 => comments \subseteq {row.id}
  /\ row.id = 0 /\ row.claim = Nobody => comments = {}
  /\ ~row.present => row.id = 0 /\ row.claim = Nobody
  /\ OneComment
  /\ row.hash <= content /\ \A i \in comments : text[i] <= content
  /\ owed <= content /\ \A c \in Calls : body[c] <= content
  /\ row.id \in comments => row.hash <= text[row.id]

\* A call that has rendered has the newest body there is, and owes nothing newer.
Newest(c) ==
  /\ owed <= body[c] /\ body[c] <= content /\ \A d \in Calls : body[d] <= body[c]
  /\ row.hash <= body[c] /\ \A i \in comments : text[i] <= body[c]

\* What a call that is alone knows at each of its steps, and what it leaves.
AloneOK(c) ==
  /\ doing[c] \in Running \ {"render", "mark", "clear"} => Newest(c)
  /\ doing[c] \in {"probe", "update", "claim"} => row.id = ref[c]
  /\ doing[c] = "probe" => row.hash = body[c]
  /\ doing[c] = "claim" => ref[c] \notin comments
  /\ doing[c] \in {"reread", "take", "scan", "adopt", "create"} => row.id = 0
  /\ doing[c] \in {"reread", "take"} => row.present
  /\ doing[c] \in {"scan", "adopt", "create"} => row.claim = c
  /\ doing[c] = "create" => comments = {}
  /\ doing[c] \in {"adopt", "persist"} => comments \subseteq {ref[c]}
  /\ doing[c] = "persist" => text[ref[c]] = body[c] /\ (row.id = 0 => row.claim = c)
  /\ doing[c] # "edit"
  /\ doing[c] \in {"clear", "refreshed"} => Shows(body[c])
  /\ doing[c] = "clear" => Shows(owed)

\* No two calls are on their way, and with no sweep on its way what the sweeps owed is
\* settled.
SettleInv ==
  /\ \A c, d \in Calls : InFlight(c) /\ InFlight(d) => c = d
  /\ RowLeads
  /\ \A c \in Calls : AloneOK(c)
  /\ (\A c \in Ticks : ~InFlight(c)) => Settled

\* The texts, the hashes and the bodies are numbers.
LEMMA Numbers ==
  ASSUME CommentTypeOK
  PROVE  /\ content \in Nat /\ owed \in Nat /\ row.hash \in Nat /\ posted \in Nat /\ row.id \in Nat
         /\ \A c \in Calls : body[c] \in Nat /\ ref[c] \in Nat
         /\ \A i \in comments : text[i] \in Nat
  BY DEF CommentTypeOK, Ids, Bodies

\* What the calls that ended promised stands while the comments do, and when a call that is
\* alone has written its body.
LEMMA OthersStand ==
  ASSUME SettleInv, NEW c \in Calls, UNCHANGED github,
         \A d \in Calls \ {c} : body'[d] = body[d]
  PROVE  \A d \in Calls \ {c} : doing[d] = "refreshed" => Shows(body[d])'
  BY DEF SettleInv, AloneOK, Shows, github

LEMMA WrittenOver ==
  ASSUME CommentTypeOK, NEW c \in Calls, Newest(c), UNCHANGED <<body, owed>>, posted' > 0,
         \A i \in comments' : text'[i] = body[c]
  PROVE  Shows(owed)' /\ \A d \in Calls : Shows(body[d])'
  BY Numbers DEF Newest, Shows

\* A step of the only call on its way, and what is left to show of it.
LEMMA AloneStep ==
  ASSUME CommentTypeOK, SettleInv, NEW c \in Calls, \A d \in Calls \ {c} : ~InFlight(d),
         NEW to, Does(c, to), RowLeads', AloneOK(c)',
         \A d \in Calls \ {c} : doing[d] = "refreshed" => Shows(body[d])',
         c \notin Ticks \/ to \notin Running => Settled'
  PROVE  SettleInv'
  <1>1. \A d \in Calls \ {c} : doing'[d] = doing[d] /\ doing'[d] \notin Running
    BY DEF Does, InFlight, CommentTypeOK
  <1>2. doing'[c] = to
    BY DEF Does, CommentTypeOK
  <1>3. \A d \in Calls : AloneOK(d)'
    BY <1>1 DEF AloneOK, Running
  <1> QED
    BY <1>1, <1>2, <1>3 DEF SettleInv, InFlight

\* The only call ends: with what it promised, or in the backlog.
LEMMA EndsSettled ==
  ASSUME CommentTypeOK, SettleInv, NEW c \in Calls, \A d \in Calls \ {c} : ~InFlight(d),
         NEW s \in Ended, Ends(c, s), RowLeads',
         s # "failed" => Shows(body[c])' /\ Shows(owed)',
         \A d \in Calls \ {c} : doing[d] = "refreshed" => Shows(body[d])',
         c \notin Ticks => Settled'
  PROVE  SettleInv'
  <1>1. CASE c \in Ticks /\ s = "failed"
    <2>1. Does(c, "mark")
      BY <1>1 DEF Ends
    <2>2. doing'[c] = "mark"
      BY <2>1 DEF Does, CommentTypeOK
    <2>3. AloneOK(c)'
      BY <2>2 DEF AloneOK, Running
    <2> QED
      BY <1>1, <2>1, <2>3, AloneStep DEF Running
  <1>2. CASE c \in Ticks /\ s # "failed" /\ backlog[c]
    <2>1. Does(c, "clear")
      BY <1>2 DEF Ends
    <2>2. doing'[c] = "clear"
      BY <2>1 DEF Does, CommentTypeOK
    <2>3. AloneOK(c)'
      BY <1>2, <2>2 DEF AloneOK, Running
    <2> QED
      BY <1>2, <2>1, <2>3, AloneStep DEF Running
  <1>3. CASE (c \in Ticks /\ s # "failed" /\ ~backlog[c]) \/ c \notin Ticks
    <2>1. Does(c, s)
      BY <1>3 DEF Ends
    <2>2. doing'[c] = s
      BY <2>1 DEF Does, CommentTypeOK
    <2>3. AloneOK(c)'
      BY <2>2 DEF AloneOK, Running, Ended
    <2> QED
      BY <1>3, <2>1, <2>3, AloneStep DEF Settled
  <1> QED
    BY <1>1, <1>2, <1>3

\* A call that is on its way, or is just about to be, is alone.
LEMMA AloneWhen ==
  ASSUME SettleInv, NEW c \in Calls, InFlight(c)
  PROVE  \A d \in Calls \ {c} : ~InFlight(d)
  BY DEF SettleInv

\* With a call of the webhook or the queue, what the last sweep left holds.
LEMMA LeftBySweeps ==
  ASSUME SettleInv, NEW c \in Calls, \A d \in Calls \ {c} : ~InFlight(d), c \notin Ticks
  PROVE  Settled
  BY DEF SettleInv

---------------------------------------------------------------------------
\* The steps of one call that is alone.

LEMMA BeginSettles ==
  ASSUME CommentInv, SettleInv, NEW c \in Calls, Trigger(c) \/ Sweep(c) \/ Render(c), ~spoilt'
  PROVE  SettleInv'
  <1> USE DEF CommentInv
  <1>1. PICK to \in {"render", "mark", "read"} : Does(c, to) /\ (to = "read" <=> Render(c))
    BY DEF Trigger, Sweep, Render, Does, CommentTypeOK, Doing
  <1>2. doing'[c] = to
    BY <1>1 DEF Does, CommentTypeOK
  <1>3. \A d \in Calls \ {c} : ~InFlight(d)
    <2>1. CASE Trigger(c) \/ Sweep(c)
      BY <2>1 DEF Trigger, Sweep
    <2>2. CASE Render(c)
      BY <2>2, AloneWhen DEF Render, Doing, InFlight, Running
    <2> QED
      BY <2>1, <2>2
  <1>4. /\ content' = content /\ row' = row /\ UNCHANGED github
        /\ owed' \in {owed, content} /\ (Trigger(c) \/ Render(c) => owed' = owed)
        /\ \A d \in Calls : body'[d] = body[d] \/ (d = c /\ body'[d] = content)
    BY DEF Trigger, Sweep, Render, locals, ghosts, CommentTypeOK
  <1>5. RowLeads'
    BY <1>4, Numbers DEF SettleInv, RowLeads, OneComment, github
  <1>8. \A d \in Calls \ {c} : doing[d] = "refreshed" => Shows(body[d])'
    BY <1>4, OthersStand
  <1>6. AloneOK(c)'
    <2>1. CASE to # "read"
      BY <1>2, <2>1 DEF AloneOK, Running
    <2>2. CASE to = "read"
      <3>1. body'[c] = content
        BY <1>1, <2>2 DEF Render, CommentTypeOK
      <3>2. Newest(c)'
        BY <1>1, <1>4, <2>2, <3>1, Numbers DEF Newest, SettleInv, RowLeads, github
      <3> QED
        BY <1>2, <2>2, <3>2 DEF AloneOK, Running
    <2> QED
      BY <2>1, <2>2
  <1>7. c \notin Ticks => Settled'
    <2> SUFFICES ASSUME c \notin Ticks PROVE Settled'
      OBVIOUS
    <2>1. owed' = owed
      BY <1>4 DEF Sweep
    <2> QED
      BY <1>3, <1>4, <2>1, LeftBySweeps DEF Settled, Shows, github
  <1> QED
    BY <1>1, <1>3, <1>5, <1>6, <1>7, <1>8, AloneStep DEF Running

\* A call takes a step of its own: nothing that others see changes.
LEMMA OwnSettles ==
  ASSUME CommentInv, SettleInv, NEW c \in Calls, InFlight(c), NEW to \in Running,
         Does(c, to), UNCHANGED <<content, row, github, body, owed>>, AloneOK(c)'
  PROVE  SettleInv'
  <1> USE DEF CommentInv
  <1>1. \A d \in Calls \ {c} : ~InFlight(d)
    BY AloneWhen
  <1>2. RowLeads'
    BY DEF SettleInv, RowLeads, OneComment, github
  <1>3. c \notin Ticks => Settled'
    BY <1>1, LeftBySweeps DEF Settled, Shows, github
  <1>4. \A d \in Calls \ {c} : doing[d] = "refreshed" => Shows(body[d])'
    BY OthersStand
  <1> QED
    BY <1>1, <1>2, <1>3, <1>4, AloneStep

\* The same for a call that fails, or that ends because the comment is as it should be.
LEMMA OwnEnds ==
  ASSUME CommentInv, SettleInv, NEW c \in Calls, InFlight(c), NEW s \in Ended,
         Ends(c, s), UNCHANGED <<content, row, github, body, owed>>,
         s # "failed" => Shows(body[c]) /\ Shows(owed)
  PROVE  SettleInv'
  <1> USE DEF CommentInv
  <1>1. \A d \in Calls \ {c} : ~InFlight(d)
    BY AloneWhen
  <1>2. RowLeads'
    BY DEF SettleInv, RowLeads, OneComment, github
  <1>3. s # "failed" => Shows(body[c])' /\ Shows(owed)'
    BY DEF Shows, github
  <1>4. c \notin Ticks => Settled'
    BY <1>1, LeftBySweeps DEF Settled, Shows, github
  <1>5. \A d \in Calls \ {c} : doing[d] = "refreshed" => Shows(body[d])'
    BY OthersStand
  <1> QED
    BY <1>1, <1>2, <1>3, <1>4, <1>5, EndsSettled

\* An unchanged body is that of the comment: the comment is no older than the hash.
LEMMA HashShown ==
  ASSUME CommentInv, SettleInv, NEW c \in Calls, Newest(c), row.id # 0, row.hash = body[c]
  PROVE  Shows(body[c]) /\ Shows(owed)
  <1> USE DEF CommentInv
  <1>1. posted > 0
    BY Numbers DEF NumbersOK
  <1>2. ASSUME NEW i \in comments PROVE text[i] >= body[c]
    BY Numbers DEF SettleInv, RowLeads
  <1>3. owed <= body[c]
    BY DEF Newest
  <1> QED
    BY <1>1, <1>2, <1>3, Numbers DEF Shows

LEMMA ReadRowSettles ==
  ASSUME CommentInv, SettleInv, NEW c \in Calls, ReadRow(c)
  PROVE  SettleInv'
  <1> USE DEF CommentInv
  <1>1. /\ doing[c] = "read" /\ ref' = [ref EXCEPT ![c] = row.id]
        /\ UNCHANGED <<content, row, github, body, owed>>
    BY DEF ReadRow, Doing, ghosts
  <1>2. InFlight(c) /\ Newest(c) /\ ref'[c] = row.id
    BY <1>1 DEF InFlight, Running, SettleInv, AloneOK, CommentTypeOK
  <1>3. Newest(c)'
    BY <1>1, <1>2 DEF Newest, github
  <1>4. row.id = 0 => 0 \notin comments
    BY DEF CommentTypeOK
  <1>5. CASE Ends(c, "refreshed")
    <2>1. CASE row.id # 0 /\ row.hash = body[c]
      BY <1>1, <1>2, <1>5, <2>1, HashShown, OwnEnds DEF Ended
    <2>2. CASE ~(row.id # 0 /\ row.hash = body[c])
      <3>1. Does(c, "claim") \/ Does(c, "update")
        BY <2>2 DEF ReadRow
      <3>2. doing'[c] \in {"claim", "update"}
        BY <3>1 DEF Does, CommentTypeOK
      <3>3. doing'[c] \notin {"claim", "update"}
        BY <1>5 DEF Ends, Does, CommentTypeOK
      <3> QED
        BY <3>2, <3>3
    <2> QED
      BY <2>1, <2>2
  <1>6. CASE \E to \in {"claim", "probe", "update"} :
               /\ Does(c, to)
               /\ to = "claim" => row.id = 0
               /\ to = "probe" => row.hash = body[c]
    <2>1. PICK to \in {"claim", "probe", "update"} :
            /\ Does(c, to)
            /\ to = "claim" => row.id = 0
            /\ to = "probe" => row.hash = body[c]
      BY <1>6
    <2>2. doing'[c] = to
      BY <2>1 DEF Does, CommentTypeOK
    <2>3. AloneOK(c)'
      BY <1>1, <1>2, <1>3, <1>4, <2>1, <2>2 DEF AloneOK, Running, github
    <2> QED
      BY <1>1, <1>2, <2>1, <2>3, OwnSettles DEF Running
  <1> QED
    BY <1>5, <1>6 DEF ReadRow

LEMMA ProbeSettles ==
  ASSUME CommentInv, SettleInv, NEW c \in Calls, Probe(c)
  PROVE  SettleInv'
  <1> USE DEF CommentInv
  <1>1. /\ doing[c] = "probe" /\ UNCHANGED <<content, row, github, body, ref, owed>>
        /\ InFlight(c) /\ Newest(c) /\ row.id = ref[c] /\ row.hash = body[c] /\ row.id # 0
    BY DEF Probe, Doing, locals, ghosts, InFlight, Running, SettleInv, AloneOK, CommentTypeOK
  <1>2. CASE ref[c] \in comments
    BY <1>1, <1>2, HashShown, OwnEnds DEF Probe, Ended
  <1>3. CASE ref[c] \notin comments
    <2>1. Does(c, "claim")
      BY <1>3 DEF Probe
    <2>2. doing'[c] = "claim" /\ Newest(c)'
      BY <1>1, <2>1 DEF Does, CommentTypeOK, Newest, github
    <2>3. AloneOK(c)'
      BY <1>1, <1>3, <2>2 DEF AloneOK, github
    <2> QED
      BY <1>1, <2>1, <2>3, OwnSettles DEF Running
  <1> QED
    BY <1>2, <1>3

\* Alone, a call that finds the row free or knows its comment to be gone wins the claim.
LEMMA ClaimSettles ==
  ASSUME CommentInv, SettleInv, NEW c \in Calls, Claim(c)
  PROVE  SettleInv'
  <1> USE DEF CommentInv
  <1>1. /\ doing[c] = "claim" /\ UNCHANGED <<content, github, body, ref, owed>>
        /\ InFlight(c) /\ Newest(c) /\ row.id = ref[c] /\ ref[c] \notin comments
        /\ RowLeads
    BY DEF Claim, Doing, locals, ghosts, InFlight, Running, SettleInv, AloneOK
  <1>2. CASE (ref[c] = 0 /\ ~row.present) \/ (ref[c] # 0 /\ row.id = ref[c])
    <2>1. /\ row' = [present |-> TRUE, id |-> 0, hash |-> 0, claim |-> c,
                     expired |-> FALSE, flag |-> row.flag]
          /\ Does(c, "create")
      BY <1>2 DEF Claim, Won
    <2>2. comments = {}
      BY <1>1, <1>2 DEF RowLeads
    <2>3. doing'[c] = "create"
      BY <2>1 DEF Does, CommentTypeOK
    <2>4. RowLeads'
      BY <1>1, <2>1, <2>2, Numbers DEF RowLeads, OneComment, github, CommentTypeOK
    <2>5. Newest(c)'
      BY <1>1, <2>1, <2>2, Numbers DEF Newest, github
    <2>6. AloneOK(c)'
      BY <1>1, <2>1, <2>2, <2>3, <2>5 DEF AloneOK, github
    <2>7. \A d \in Calls \ {c} : ~InFlight(d)
      BY <1>1, AloneWhen
    <2>9. \A d \in Calls \ {c} : doing[d] = "refreshed" => Shows(body[d])'
      BY <1>1, OthersStand
    <2>8. c \notin Ticks => Settled'
      BY <1>1, <2>1, <2>7, LeftBySweeps DEF Settled, Shows, github
    <2> QED
      BY <2>1, <2>4, <2>6, <2>7, <2>8, <2>9, AloneStep DEF Running
  <1>3. CASE ref[c] = 0 /\ row.present
    <2>1. Does(c, "reread") /\ row' = row
      BY <1>3 DEF Claim
    <2>2. doing'[c] = "reread" /\ Newest(c)'
      BY <1>1, <2>1 DEF Does, CommentTypeOK, Newest, github
    <2>3. AloneOK(c)'
      BY <1>1, <1>3, <2>1, <2>2 DEF AloneOK, github
    <2> QED
      BY <1>1, <2>1, <2>3, OwnSettles DEF Running
  <1> QED
    BY <1>1, <1>2, <1>3 DEF CommentTypeOK

LEMMA RereadSettles ==
  ASSUME CommentInv, SettleInv, NEW c \in Calls, Reread(c)
  PROVE  SettleInv'
  <1> USE DEF CommentInv
  <1>1. /\ doing[c] = "reread" /\ UNCHANGED <<content, row, github, body, owed>>
        /\ InFlight(c) /\ Newest(c) /\ row.id = 0 /\ row.present
    BY DEF Reread, Doing, ghosts, InFlight, Running, SettleInv, AloneOK
  <1>2. CASE Does(c, "take")
    <2>1. doing'[c] = "take" /\ Newest(c)'
      BY <1>1, <1>2 DEF Does, CommentTypeOK, Newest, github
    <2>2. AloneOK(c)'
      BY <1>1, <2>1 DEF AloneOK
    <2> QED
      BY <1>1, <1>2, <2>2, OwnSettles DEF Running
  <1>3. CASE Ends(c, "failed")
    BY <1>1, <1>3, OwnEnds DEF Ended
  <1> QED
    BY <1>1, <1>2, <1>3 DEF Reread

LEMMA TakeOverSettles ==
  ASSUME CommentInv, SettleInv, NEW c \in Calls, TakeOver(c)
  PROVE  SettleInv'
  <1> USE DEF CommentInv
  <1>1. /\ doing[c] = "take" /\ UNCHANGED <<content, github, body, ref, owed>>
        /\ InFlight(c) /\ Newest(c) /\ row.id = 0 /\ row.present /\ RowLeads
    BY DEF TakeOver, Doing, locals, ghosts, InFlight, Running, SettleInv, AloneOK
  <1>2. CASE row.claim = held[c]
    <2>1. row' = [row EXCEPT !.claim = c, !.expired = FALSE] /\ Does(c, "scan")
      BY <1>1, <1>2 DEF TakeOver
    <2>2. row \in RowType
      BY DEF CommentTypeOK, RowType
    <2>3. row'.id = 0 /\ row'.claim = c /\ row'.hash = row.hash /\ row'.flag = row.flag
          /\ row'.present = row.present
      BY <1>1, <2>1, <2>2 DEF RowType
    <2>4. doing'[c] = "scan" /\ Newest(c)'
      BY <1>1, <2>1, <2>3 DEF Does, CommentTypeOK, Newest, github
    <2>5. AloneOK(c)'
      BY <1>1, <2>3, <2>4 DEF AloneOK
    <2>6. RowLeads'
      BY <1>1, <2>3 DEF RowLeads, OneComment, github, CommentTypeOK
    <2>7. \A d \in Calls \ {c} : ~InFlight(d)
      BY <1>1, AloneWhen
    <2>9. \A d \in Calls \ {c} : doing[d] = "refreshed" => Shows(body[d])'
      BY <1>1, OthersStand
    <2>8. c \notin Ticks => Settled'
      BY <1>1, <2>3, <2>7, LeftBySweeps DEF Settled, Shows, github
    <2> QED
      BY <2>1, <2>5, <2>6, <2>7, <2>8, <2>9, AloneStep DEF Running
  <1>3. CASE row.claim # held[c]
    BY <1>1, <1>3, OwnEnds DEF TakeOver, Ended
  <1> QED
    BY <1>2, <1>3

LEMMA ScanSettles ==
  ASSUME CommentInv, SettleInv, NEW c \in Calls, Scan(c)
  PROVE  SettleInv'
  <1> USE DEF CommentInv
  <1>1. /\ doing[c] = "scan" /\ UNCHANGED <<content, row, github, body, owed>>
        /\ InFlight(c) /\ Newest(c) /\ row.id = 0 /\ row.claim = c /\ OneComment
    BY DEF Scan, Doing, ghosts, InFlight, Running, SettleInv, AloneOK, RowLeads
  <1>2. Newest(c)'
    BY <1>1 DEF Newest, github
  <1>3. CASE comments = {}
    <2>1. Does(c, "create")
      BY <1>3 DEF Scan
    <2>2. doing'[c] = "create"
      BY <2>1 DEF Does, CommentTypeOK
    <2>3. AloneOK(c)'
      BY <1>1, <1>2, <1>3, <2>2 DEF AloneOK, github
    <2> QED
      BY <1>1, <2>1, <2>3, OwnSettles DEF Running
  <1>4. CASE comments # {}
    <2>1. PICK i \in comments : Does(c, "adopt") /\ ref' = [ref EXCEPT ![c] = i]
      BY <1>4 DEF Scan
    <2>2. doing'[c] = "adopt" /\ ref'[c] = i
      BY <2>1 DEF Does, CommentTypeOK
    <2>3. AloneOK(c)'
      BY <1>1, <1>2, <2>2 DEF AloneOK, OneComment, github
    <2> QED
      BY <1>1, <2>1, <2>3, OwnSettles DEF Running
  <1> QED
    BY <1>3, <1>4

---------------------------------------------------------------------------
\* The writes and the record of them.

\* The body of a call that is alone replaces that of the only comment.
LEMMA PatchSettles ==
  ASSUME CommentInv, SettleInv, NEW c \in Calls, Update(c) \/ Adopt(c) \/ Edit(c)
  PROVE  SettleInv'
  <1> USE DEF CommentInv
  <1>1. /\ doing[c] \in {"update", "adopt"} /\ UNCHANGED <<content, row, body, ref, owed>>
        /\ InFlight(c) /\ Newest(c) /\ RowLeads
        /\ doing[c] = "update" => row.id = ref[c]
        /\ doing[c] = "adopt" => row.id = 0 /\ row.claim = c /\ comments \subseteq {ref[c]}
        /\ ref[c] \in 1..posted /\ ref[c] # 0
    BY DEF Update, Adopt, Edit, Patch, Doing, locals, ghosts, InFlight, Running, SettleInv, AloneOK,
           CommentTypeOK
  <1>2. CASE ref[c] \in comments
    <2>1. /\ text' = [text EXCEPT ![ref[c]] = body[c]]
          /\ UNCHANGED <<comments, posted>>
          /\ Answered(c, "persist")
      BY <1>1, <1>2 DEF Update, Adopt, Edit, Patch, WriteBody
    <2>2. comments \subseteq {ref[c]}
      BY <1>1 DEF RowLeads
    <2>3. \A i \in comments' : i = ref[c] /\ text'[i] = body[c]
      BY <2>1, <2>2 DEF CommentTypeOK
    <2>4. RowLeads'
      BY <1>1, <2>1, <2>2, <2>3 DEF RowLeads, OneComment, Newest
    <2>5. Shows(owed)' /\ \A d \in Calls : Shows(body[d])'
      BY <1>1, <2>1, <2>3, WrittenOver, Numbers
    <2>6. \A d \in Calls \ {c} : ~InFlight(d)
      BY <1>1, AloneWhen
    <2>7. CASE Does(c, "persist")
      <3>1. doing'[c] = "persist"
        BY <2>7 DEF Does, CommentTypeOK
      <3>2. Newest(c)'
        BY <1>1, <2>1, <2>3, Numbers DEF Newest
      <3>3. text'[ref[c]] = body[c]
        BY <1>2, <2>1, <2>3
      <3>4. AloneOK(c)'
        BY <1>1, <2>1, <2>2, <3>1, <3>2, <3>3 DEF AloneOK
      <3> QED
        BY <2>4, <2>5, <2>6, <2>7, <3>4, AloneStep DEF Settled
    <2>8. CASE Ends(c, "failed")
      BY <2>4, <2>5, <2>6, <2>8, EndsSettled DEF Ended, Settled
    <2> QED
      BY <2>1, <2>7, <2>8 DEF Answered
  <1>3. CASE ref[c] \notin comments
    <2>1. UNCHANGED github /\ Does(c, IF doing[c] = "update" THEN "claim" ELSE "create")
      BY <1>1, <1>3 DEF Update, Adopt, Edit, Patch, Doing
    <2>2. Newest(c)' /\ comments' = comments
      BY <1>1, <2>1 DEF Newest, github
    <2>3. doing'[c] = IF doing[c] = "update" THEN "claim" ELSE "create"
      BY <2>1 DEF Does, CommentTypeOK
    <2>4. AloneOK(c)'
      BY <1>1, <1>3, <2>2, <2>3 DEF AloneOK
    <2> QED
      BY <1>1, <2>1, <2>4, OwnSettles DEF Running
  <1> QED
    BY <1>2, <1>3

LEMMA CreateSettles ==
  ASSUME CommentInv, SettleInv, NEW c \in Calls, Create(c)
  PROVE  SettleInv'
  <1> USE DEF CommentInv
  <1>1. /\ doing[c] = "create" /\ UNCHANGED <<content, owed, row, body>>
        /\ InFlight(c) /\ Newest(c) /\ RowLeads
        /\ row.id = 0 /\ row.claim = c /\ comments = {}
    BY DEF Create, Doing, ghosts, InFlight, Running, SettleInv, AloneOK
  <1>2. /\ posted' = posted + 1 /\ comments' = {posted + 1} /\ posted + 1 \in 1..MaxComments
        /\ text' = [text EXCEPT ![posted + 1] = body[c]]
        /\ ref' = [ref EXCEPT ![c] = posted + 1]
        /\ Answered(c, "persist")
    BY <1>1 DEF Create, CommentTypeOK, Ids
  <1>3. text'[posted + 1] = body[c] /\ ref'[c] = posted + 1
    BY <1>2 DEF CommentTypeOK
  <1>4. RowLeads'
    BY <1>1, <1>2, <1>3, Numbers DEF RowLeads, OneComment, Newest, CommentTypeOK
  <1>5. Shows(owed)' /\ \A d \in Calls : Shows(body[d])'
    BY <1>1, <1>2, <1>3, WrittenOver, Numbers
  <1>6. \A d \in Calls \ {c} : ~InFlight(d)
    BY <1>1, AloneWhen
  <1>7. CASE Does(c, "persist")
    <2>1. doing'[c] = "persist"
      BY <1>7 DEF Does, CommentTypeOK
    <2>2. Newest(c)'
      BY <1>1, <1>2, <1>3, Numbers DEF Newest
    <2>3. AloneOK(c)'
      BY <1>1, <1>2, <1>3, <2>1, <2>2 DEF AloneOK
    <2> QED
      BY <1>4, <1>5, <1>6, <1>7, <2>3, AloneStep DEF Settled
  <1>8. CASE Ends(c, "failed")
    BY <1>4, <1>5, <1>6, <1>8, EndsSettled DEF Ended, Settled
  <1> QED
    BY <1>2, <1>7, <1>8 DEF Answered

LEMMA PersistSettles ==
  ASSUME CommentInv, SettleInv, NEW c \in Calls, Persist(c)
  PROVE  SettleInv'
  <1> USE DEF CommentInv
  <1>1. /\ doing[c] = "persist" /\ UNCHANGED <<content, github, body, ref, owed>>
        /\ InFlight(c) /\ Newest(c) /\ RowLeads
        /\ comments \subseteq {ref[c]} /\ text[ref[c]] = body[c]
        /\ ref[c] \in 1..posted /\ ref[c] # 0
    BY DEF Persist, Doing, locals, ghosts, InFlight, Running, SettleInv, AloneOK, CommentTypeOK
  <1>2. /\ row' = [present |-> TRUE, id |-> ref[c], hash |-> body[c], claim |-> Nobody,
                   expired |-> FALSE, flag |-> FALSE]
        /\ Answered(c, "refreshed")
    BY DEF Persist
  <1>3. RowLeads'
    BY <1>1, <1>2, Numbers DEF RowLeads, OneComment, Newest, github
  <1>4. Shows(owed)' /\ \A d \in Calls : Shows(body[d])'
    BY <1>1, WrittenOver, Numbers DEF github
  <1>5. \A d \in Calls \ {c} : ~InFlight(d)
    BY <1>1, AloneWhen
  <1>6. CASE Ends(c, "failed")
    BY <1>3, <1>4, <1>5, <1>6, EndsSettled DEF Ended, Settled
  <1>7. CASE Does(c, "refreshed")
    <2>1. doing'[c] = "refreshed"
      BY <1>7 DEF Does, CommentTypeOK
    <2>2. AloneOK(c)'
      BY <1>4, <2>1 DEF AloneOK, Running
    <2> QED
      BY <1>3, <1>4, <1>5, <1>7, <2>2, AloneStep DEF Settled
  <1> QED
    BY <1>2, <1>6, <1>7 DEF Answered

\* The sweep's failure goes to the backlog; its success leaves it, and was shown.
LEMMA MarkSettles ==
  ASSUME CommentInv, SettleInv, NEW c \in Calls, Mark(c) \/ ClearFlag(c), ~spoilt'
  PROVE  SettleInv'
  <1> USE DEF CommentInv
  <1>1. /\ doing[c] \in {"mark", "clear"} /\ UNCHANGED <<content, github, body, owed>>
        /\ InFlight(c) /\ RowLeads /\ row \in RowType
        /\ doing[c] = "clear" => Shows(body[c]) /\ Shows(owed)
    BY DEF Mark, ClearFlag, Doing, InFlight, Running, SettleInv, AloneOK, CommentTypeOK,
           RowType, locals, ghosts
  <1>2. Does(c, IF doing[c] = "mark" THEN "failed" ELSE "refreshed")
    BY DEF Mark, ClearFlag, Doing
  <1>3. /\ row'.id = row.id /\ row'.hash = row.hash /\ row'.claim = row.claim
        /\ row.present => row'.present
        /\ doing[c] = "mark" => row'.flag
    <2>1. CASE Mark(c)
      BY <1>1, <2>1 DEF Mark, RowType
    <2>2. CASE ClearFlag(c)
      BY <1>1, <2>2 DEF ClearFlag, RowType, Doing
    <2> QED
      BY <2>1, <2>2
  <1>4. row'.present \/ (row'.id = 0 /\ row'.claim = Nobody)
    BY <1>1, <1>3 DEF RowLeads
  <1>5. RowLeads'
    BY <1>1, <1>3, <1>4 DEF RowLeads, OneComment, github
  <1>6. Settled'
    BY <1>1, <1>3 DEF Settled, Shows, github
  <1>7. doing'[c] = IF doing[c] = "mark" THEN "failed" ELSE "refreshed"
    BY <1>2 DEF Does, CommentTypeOK
  <1>8. AloneOK(c)'
    BY <1>1, <1>7 DEF AloneOK, Running, Shows, github
  <1>9. \A d \in Calls \ {c} : ~InFlight(d)
    BY <1>1, AloneWhen
  <1>10. \A d \in Calls \ {c} : doing[d] = "refreshed" => Shows(body[d])'
    BY <1>1, OthersStand
  <1> QED
    BY <1>2, <1>5, <1>6, <1>8, <1>9, <1>10, AloneStep

---------------------------------------------------------------------------
\* Faults, people and time.

\* A call that fails or dies without its sweep; what a refusal leaves is spoilt.
LEMMA StopSettles ==
  ASSUME CommentInv, SettleInv, NEW c \in Calls, CallFails(c) \/ Denied(c) \/ Dies(c),
         ~spoilt'
  PROVE  SettleInv'
  <1> USE DEF CommentInv
  <1>1. InFlight(c) /\ UNCHANGED <<content, row, github, body, owed>>
    BY DEF CallFails, Denied, Dies, InFlight, Running, locals, ghosts
  <1>2. CASE CallFails(c)
    BY <1>1, <1>2, OwnEnds DEF CallFails, Ended
  <1>3. CASE Dies(c)
    <2>1. c \notin Ticks /\ Does(c, "dead")
      BY <1>3 DEF Dies
    <2>2. doing'[c] = "dead"
      BY <2>1 DEF Does, CommentTypeOK
    <2>3. AloneOK(c)'
      BY <2>2 DEF AloneOK, Running
    <2>4. RowLeads'
      BY <1>1 DEF SettleInv, RowLeads, OneComment, github
    <2>5. \A d \in Calls \ {c} : ~InFlight(d)
      BY <1>1, AloneWhen
    <2>6. Settled'
      BY <1>1, <2>1, <2>5, LeftBySweeps DEF Settled, Shows, github
    <2>7. \A d \in Calls \ {c} : doing[d] = "refreshed" => Shows(body[d])'
      BY <1>1, OthersStand
    <2> QED
      BY <2>1, <2>3, <2>4, <2>5, <2>6, <2>7, AloneStep
  <1> QED
    BY <1>2, <1>3 DEF Denied

LEMMA WorldSettles ==
  ASSUME CommentInv, SettleInv, Change \/ Expire \/ \E i \in comments : DeleteComment(i)
  PROVE  SettleInv'
  <1> USE DEF CommentInv
  <1>1. doing' = doing /\ body' = body /\ ref' = ref /\ owed' = owed
    BY DEF Change, Expire, DeleteComment, locals, ghosts
  <1>2. CASE Change
    <2>1. content' = content + 1 /\ UNCHANGED <<row, comments, text, posted>>
      BY <1>2 DEF Change, github
    <2>2. RowLeads'
      <3>1. /\ row'.hash <= content' /\ \A i \in comments' : text'[i] <= content'
            /\ owed' <= content' /\ \A c \in Calls : body'[c] <= content'
        BY <1>1, <2>1, Numbers DEF SettleInv, RowLeads
      <3> QED
        BY <2>1, <3>1 DEF SettleInv, RowLeads, OneComment
    <2>3. ASSUME NEW c \in Calls PROVE AloneOK(c)'
      <3>1. AloneOK(c)
        BY DEF SettleInv
      <3>2. Newest(c) => Newest(c)'
        BY <1>1, <2>1, Numbers DEF Newest
      <3> QED
        BY <1>1, <2>1, <3>1, <3>2 DEF AloneOK, Shows
    <2> QED
      BY <1>1, <2>1, <2>2, <2>3 DEF SettleInv, InFlight, Settled, Shows
  <1>3. CASE Expire
    <2>1. /\ row' = [row EXCEPT !.expired = TRUE]
          /\ UNCHANGED <<content, owed, comments, text, posted>> /\ row \in RowType
      BY <1>3 DEF Expire, github, CommentTypeOK, RowType
    <2>2. /\ row'.id = row.id /\ row'.hash = row.hash /\ row'.claim = row.claim
          /\ row'.present = row.present /\ row'.flag = row.flag
      BY <2>1 DEF RowType
    <2>3. RowLeads'
      BY <1>1, <2>1, <2>2 DEF SettleInv, RowLeads, OneComment
    <2>4. ASSUME NEW c \in Calls PROVE AloneOK(c)'
      <3>1. AloneOK(c)
        BY DEF SettleInv
      <3> QED
        BY <1>1, <2>1, <2>2, <3>1 DEF AloneOK, Newest, Shows
    <2> QED
      BY <1>1, <2>1, <2>2, <2>3, <2>4 DEF SettleInv, InFlight, Settled, Shows
  <1>4. ASSUME NEW i \in comments, DeleteComment(i) PROVE SettleInv'
    <2>1. comments' \subseteq comments /\ UNCHANGED <<content, owed, row, text, posted>>
      BY <1>4 DEF DeleteComment
    <2>2. RowLeads'
      BY <1>1, <2>1 DEF SettleInv, RowLeads, OneComment
    <2>3. ASSUME NEW c \in Calls PROVE AloneOK(c)'
      <3>1. AloneOK(c)
        BY DEF SettleInv
      <3> QED
        BY <1>1, <2>1, <3>1 DEF AloneOK, Newest, Shows
    <2> QED
      BY <1>1, <2>1, <2>2, <2>3 DEF SettleInv, InFlight, Settled, Shows
  <1> QED
    BY <1>2, <1>3, <1>4

LEMMA SettleStep ==
  ASSUME CommentInv, SettleInv, CommentNext, ~spoilt'
  PROVE  SettleInv'
  <1>1. ASSUME NEW c \in Calls, Refresh(c) PROVE SettleInv'
    BY <1>1, BeginSettles, ReadRowSettles, ProbeSettles, ClaimSettles, RereadSettles,
       TakeOverSettles, ScanSettles, PatchSettles, CreateSettles, PersistSettles, MarkSettles,
       StopSettles
    DEF Refresh
  <1> QED
    BY <1>1, WorldSettles DEF CommentNext

\* Once spoilt, always spoilt.
LEMMA SpoiltStays == CommentNext /\ spoilt => spoilt'
  BY DEF CommentNext, Refresh, Trigger, Sweep, Render, ReadRow, Probe, Claim, Reread,
         TakeOver, Scan, Update, Adopt, Edit, Patch, Create, Persist, Mark, ClearFlag,
         CallFails, Denied, Dies, Change, DeleteComment, Expire, ghosts

\* refreshPrSessionComment and the sweep: among calls that never overlapped, one that
\* answers "refreshed" leaves the body it rendered, and a sweep leaves all that had changed
\* when it took the pull request up, or the pull request in the backlog.  Whatever else
\* fails, dies, loses an answer or is deleted; but not when a sweep died, GitHub refused
\* one, or the write of the backlog failed.
THEOREM CommentSettles == CommentSpec => []Settles
  <1>1. CommentInit => SettleInv
    <2> SUFFICES ASSUME CommentInit PROVE SettleInv
      OBVIOUS
    <2>1. RowLeads
      BY DEF CommentInit, RowLeads, OneComment, Bodies
    <2>2. \A c \in Calls : AloneOK(c) /\ ~InFlight(c)
      BY DEF CommentInit, AloneOK, InFlight, Running
    <2> QED
      BY <2>1, <2>2 DEF SettleInv, CommentInit, Settled
  <1>2. /\ CommentInv /\ (spoilt \/ SettleInv) /\ [CommentNext]_commentVars
        => (spoilt \/ SettleInv)'
    <2> SUFFICES ASSUME CommentInv, spoilt \/ SettleInv, [CommentNext]_commentVars, ~spoilt'
                 PROVE  SettleInv'
      OBVIOUS
    <2>1. CASE CommentNext
      BY <2>1, SettleStep, SpoiltStays
    <2>2. CASE UNCHANGED commentVars
      <3>1. /\ UNCHANGED <<content, owed, row, comments, text, posted, doing, body, ref>>
            /\ ~spoilt
        BY <2>2 DEF commentVars, github, locals, ghosts
      <3> QED
        BY <3>1 DEF SettleInv, RowLeads, OneComment, AloneOK, Newest, Shows, Settled, InFlight
    <2> QED
      BY <2>1, <2>2
  <1>3. spoilt \/ SettleInv => Settles
    BY DEF Settles, SettleInv, Settled, AloneOK, Doing
  <1> QED
    BY <1>1, <1>2, <1>3, CommentInitInv, CommentStepInv, PTL DEF CommentSpec

=============================================================================
