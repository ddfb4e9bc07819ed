--------------------------- MODULE ReporterProofs ---------------------------
(***************************************************************************)
(* Reporter: whatever is lost or late, the stored events are a prefix of   *)
(* the emitted ones and the buffer forgets nothing that is not stored, and *)
(* the callback leaves after them but for what a failed flush or the one   *)
(* in flight has, for every number of events, batch size and posts.  The   *)
(* log implements RunLog, and the page of RunView reads it to its end.     *)
(***************************************************************************)
EXTENDS RunView, TLAPS

\* The events before seq n are stored.
StoredTo(n) == 0..(n - 1) \subseteq stored

\* A batch is posted behind stored events only, or the run was over by then; past
\* the route's check of the run, the second case is gone.
RequestsFollow ==
  \A q \in requests :
    /\ q.step = "read" => over \/ StoredTo(q.range.from)
    /\ q.step = "insert" => StoredTo(q.range.from)

\* What the loop awaits is the head of the buffer, and what it is told is true.
AnswerTrue ==
  /\ flush = "wait" => batch.from = head
  /\ answer # "none" => flush = "wait"
  /\ answer = "conflict" => over
  /\ answer = "ok" => batch.from .. (batch.to - 1) \subseteq stored

\* The server works on posts that were sent.
PostsSent == posts <= attempts

Types == ReporterTypeOK /\ PostsSent

USE DEF buffer, loop, server, reporting

-----------------------------------------------------------------------------
(* Types                                                                   *)

\* The reporter and the server keep their types.
LEMMA TypeInit == ReporterInit => Types
<1> SUFFICES ASSUME ReporterInit PROVE Types
  OBVIOUS
<1> USE BoundsAssumption DEF ReporterInit
<1>1. NoBatch \in Ranges
  BY DEF Ranges, NoBatch
<1>2. PostsSent /\ attempts \in 0..MaxPosts /\ posts \in 0..MaxPosts
  BY DEF PostsSent
<1>3. next \in 0..MaxEvents /\ head \in 0..MaxEvents
  OBVIOUS
<1>4. QED
  BY <1>1, <1>2, <1>3 DEF Types, ReporterTypeOK

\* Every step keeps the types.
LEMMA TypeStep == Types /\ [ReporterNext]_reporterVars => Types'
<1> SUFFICES ASSUME Types, [ReporterNext]_reporterVars PROVE Types'
  OBVIOUS
<1> USE BoundsAssumption DEF Types, ReporterTypeOK, PostsSent
<1>1. CASE Enqueue
  BY <1>1 DEF Enqueue
<1>2. CASE Tick
  BY <1>2 DEF Tick
<1>3. CASE PostBatch
  <2>1. batch' \in Ranges
    BY <1>3 DEF PostBatch, Ranges, Lesser
  <2>2. requests' \subseteq [range : Ranges, step : {"read", "insert"}]
    BY <2>1, <1>3 DEF PostBatch
  <2>3. QED
    BY <2>1, <2>2, <1>3 DEF PostBatch
<1>4. CASE FlushEmpty
  BY <1>4 DEF FlushEmpty, EndFlush
<1>5. CASE BatchTaken
  BY <1>5 DEF BatchTaken, Ranges, NoBatch
<1>6. CASE BatchFailed
  BY <1>6 DEF BatchFailed, EndFlush, Ranges, NoBatch
<1>7. ASSUME NEW q \in requests, ReadRun(q) PROVE Types'
  BY <1>7 DEF ReadRun, Answer
<1>8. ASSUME NEW q \in requests, InsertEvents(q) PROVE Types'
  <2>1. q.range \in Ranges
    BY <1>8
  <2>2. q.range.from .. (q.range.to - 1) \subseteq 0..(MaxEvents - 1)
    BY <2>1 DEF Ranges
  <2>3. stored' \subseteq 0..(MaxEvents - 1)
    BY <2>2, <1>8 DEF InsertEvents
  <2>4. QED
    BY <2>3, <1>8 DEF InsertEvents, Answer
<1>9. CASE LoseBatch
  BY <1>9 DEF LoseBatch
<1>10. CASE SendCallback
  BY <1>10 DEF SendCallback
<1>11. CASE PostReport
  BY <1>11 DEF PostReport
<1>12. CASE StopRetrying
  BY <1>12 DEF StopRetrying
<1>13. CASE TakeReport
  BY <1>13 DEF TakeReport
<1>14. CASE LoseCallback
  BY <1>14 DEF LoseCallback
<1>15. CASE RunEnds
  BY <1>15 DEF RunEnds
<1>16. CASE UNCHANGED reporterVars
  BY <1>16 DEF reporterVars
<1>17. QED
  BY <1>1, <1>2, <1>3, <1>4, <1>5, <1>6, <1>7, <1>8, <1>9, <1>10, <1>11, <1>12,
     <1>13, <1>14, <1>15, <1>16 DEF ReporterNext, FlushNext, ServerNext

-----------------------------------------------------------------------------
(* The stored prefix                                                       *)

Prefix == NoGap /\ ForgottenIsStored /\ RequestsFollow /\ AnswerTrue

\* A step keeps the prefix that touches neither the requests, the buffer's head nor
\* the loop's wait, and only ever ends the run.
LEMMA Aside ==
  ASSUME Types, Prefix,
         UNCHANGED <<head, batch, answer, requests, stored>>,
         over => over',
         flush' = flush \/ (flush # "wait" /\ flush' # "wait")
  PROVE  Prefix'
<1> USE DEF Prefix, Types, ReporterTypeOK
<1>1. NoGap'
  BY DEF NoGap
<1>2. ForgottenIsStored'
  BY DEF ForgottenIsStored
<1>3. RequestsFollow'
  BY DEF RequestsFollow, StoredTo
<1>4. AnswerTrue'
  BY DEF AnswerTrue
<1>5. QED
  BY <1>1, <1>2, <1>3, <1>4

\* An answer that is true of the request's range is true of the batch that awaits it.
LEMMA Answered ==
  ASSUME AnswerTrue, UNCHANGED <<flush, batch, head>>, over => over',
         stored \subseteq stored',
         NEW q, NEW a, Answer(q, a),
         a = "conflict" => over',
         a = "ok" => q.range.from .. (q.range.to - 1) \subseteq stored'
  PROVE  AnswerTrue'
<1>1. CASE Awaited(q)
  BY <1>1 DEF Answer, Awaited, AnswerTrue
<1>2. CASE ~Awaited(q)
  BY <1>2 DEF Answer, AnswerTrue
<1>3. QED
  BY <1>1, <1>2

\* The loop's own steps.
LEMMA FlushStep ==
  ASSUME Types, Prefix, FlushNext
  PROVE  Prefix'
<1> USE DEF Prefix, Types, ReporterTypeOK
<1>1. CASE PostBatch
  <2>1. UNCHANGED <<head, stored, over, answer>> /\ answer = "none"
    BY <1>1 DEF PostBatch, AnswerTrue
  <2>2. NoGap' /\ ForgottenIsStored'
    BY <2>1 DEF NoGap, ForgottenIsStored
  <2>3. RequestsFollow'
    <3>1. SUFFICES ASSUME NEW q \in requests'
                   PROVE  /\ q.step = "read" => over \/ StoredTo(q.range.from)
                          /\ q.step = "insert" => StoredTo(q.range.from)
      BY <2>1 DEF RequestsFollow, StoredTo
    <3>2. CASE q \in requests
      BY <3>2 DEF RequestsFollow
    <3>3. CASE q = [range |-> batch', step |-> "read"]
      <4>1. q.range.from = head /\ q.step = "read"
        BY <3>3, <1>1 DEF PostBatch
      <4>2. QED
        BY <4>1 DEF ForgottenIsStored, StoredTo
    <3>4. QED
      BY <3>1, <3>2, <3>3, <1>1 DEF PostBatch
  <2>4. AnswerTrue'
    BY <2>1, <1>1 DEF PostBatch, AnswerTrue
  <2>5. QED
    BY <2>2, <2>3, <2>4
<1>2. CASE FlushEmpty
  BY <1>2, Aside DEF FlushEmpty, EndFlush
<1>3. CASE BatchTaken
  <2>1. UNCHANGED <<requests, stored, over>> /\ head' = batch.to /\ batch.from = head
    BY <1>3 DEF BatchTaken, AnswerTrue
  <2>2. NoGap' /\ RequestsFollow'
    BY <2>1 DEF NoGap, RequestsFollow, StoredTo
  <2>3. ForgottenIsStored'
    <3>1. CASE over
      BY <3>1, <2>1 DEF ForgottenIsStored
    <3>2. CASE ~over
      <4>1. batch.from .. (batch.to - 1) \subseteq stored
        BY <3>2, <1>3 DEF BatchTaken, AnswerTrue
      <4>2. 0 .. (head - 1) \subseteq stored
        BY <3>2 DEF ForgottenIsStored
      <4>3. batch.from \in Int /\ batch.to \in Int
        BY DEF Ranges
      <4>4. 0 .. (batch.to - 1) \subseteq stored
        BY <4>1, <4>2, <4>3, <2>1
      <4>5. QED
        BY <4>4, <2>1 DEF ForgottenIsStored
    <3>3. QED
      BY <3>1, <3>2
  <2>4. AnswerTrue'
    BY <1>3 DEF BatchTaken, AnswerTrue
  <2>5. QED
    BY <2>2, <2>3, <2>4
<1>4. CASE BatchFailed
  <2>1. UNCHANGED <<head, requests, stored, over>> /\ flush' = "idle" /\ answer' = "none"
    BY <1>4 DEF BatchFailed, EndFlush
  <2>2. QED
    BY <2>1 DEF NoGap, ForgottenIsStored, RequestsFollow, StoredTo, AnswerTrue
<1>5. QED
  BY <1>1, <1>2, <1>3, <1>4 DEF FlushNext

\* The events route: it checks the run, then stores.
LEMMA ServerStep ==
  ASSUME Types, Prefix, ServerNext
  PROVE  Prefix'
<1> USE DEF Prefix, Types, ReporterTypeOK
<1>1. ASSUME NEW q \in requests, ReadRun(q) PROVE Prefix'
  <2>1. UNCHANGED <<head, batch, flush, stored, over>>
    BY <1>1 DEF ReadRun
  <2>2. NoGap' /\ ForgottenIsStored'
    BY <2>1 DEF NoGap, ForgottenIsStored
  <2>3. RequestsFollow'
    <3>1. CASE over
      BY <3>1, <2>1, <1>1 DEF ReadRun, RequestsFollow, StoredTo
    <3>2. CASE ~over
      <4>1. StoredTo(q.range.from)
        BY <3>2, <1>1 DEF ReadRun, RequestsFollow
      <4>2. requests' = (requests \ {q}) \cup {[q EXCEPT !.step = "insert"]}
        BY <3>2, <1>1 DEF ReadRun
      <4>3. [q EXCEPT !.step = "insert"].range = q.range
            /\ [q EXCEPT !.step = "insert"].step = "insert"
        BY <1>1
      <4>4. QED
        BY <4>1, <4>2, <4>3, <2>1 DEF RequestsFollow, StoredTo
    <3>3. QED
      BY <3>1, <3>2
  <2>4. AnswerTrue'
    <3>1. CASE over /\ Answer(q, "conflict")
      BY <3>1, <2>1, Answered
    <3>2. CASE Answer(q, "error")
      BY <3>2, <2>1, Answered
    <3>3. CASE UNCHANGED answer
      BY <3>3, <2>1 DEF AnswerTrue
    <3>4. QED
      BY <3>1, <3>2, <3>3, <1>1 DEF ReadRun
  <2>5. QED
    BY <2>2, <2>3, <2>4
<1>2. ASSUME NEW q \in requests, InsertEvents(q) PROVE Prefix'
  <2>1. UNCHANGED <<head, batch, flush, over>> /\ requests' = requests \ {q}
    BY <1>2 DEF InsertEvents
  <2>2. CASE Answer(q, "error") /\ UNCHANGED stored
    <3>1. AnswerTrue'
      BY <2>1, <2>2, Answered
    <3>2. QED
      BY <3>1, <2>1, <2>2 DEF NoGap, ForgottenIsStored, RequestsFollow, StoredTo
  <2>3. CASE /\ stored' = stored \cup (q.range.from .. (q.range.to - 1))
             /\ Answer(q, "ok")
    <3>1. AnswerTrue'
      BY <2>1, <2>3, Answered
    <3>2. 0 .. (q.range.from - 1) \subseteq stored
      BY <1>2 DEF InsertEvents, RequestsFollow, StoredTo
    <3>3. q.range.from \in Int /\ q.range.to \in Int
      BY DEF Ranges
    <3>4. ASSUME NEW s \in stored' PROVE 0..s \subseteq stored'
      <4>1. CASE s \in stored
        BY <4>1, <2>3 DEF NoGap
      <4>2. CASE s \in q.range.from .. (q.range.to - 1)
        BY <4>2, <3>2, <3>3, <2>3
      <4>3. QED
        BY <4>1, <4>2, <3>4, <2>3
    <3>5. NoGap'
      BY <3>4 DEF NoGap
    <3>6. ForgottenIsStored' /\ RequestsFollow'
      BY <2>1, <2>3 DEF ForgottenIsStored, RequestsFollow, StoredTo
    <3>7. QED
      BY <3>1, <3>5, <3>6
  <2>4. QED
    BY <2>2, <2>3, <1>2 DEF InsertEvents
<1>3. QED
  BY <1>1, <1>2 DEF ServerNext

\* Every step keeps the prefix.
LEMMA PrefixStep == Types /\ Prefix /\ [ReporterNext]_reporterVars => Prefix'
<1> SUFFICES ASSUME Types, Prefix, [ReporterNext]_reporterVars PROVE Prefix'
  OBVIOUS
<1>1. CASE Enqueue
  BY <1>1, Aside DEF Enqueue
<1>2. CASE Tick
  BY <1>2, Aside DEF Tick
<1>3. CASE FlushNext
  BY <1>3, FlushStep
<1>4. CASE ServerNext
  BY <1>4, ServerStep
<1>5. CASE LoseBatch
  <2>1. /\ UNCHANGED <<head, batch, flush, stored, over>>
        /\ flush = "wait" /\ answer' = "error"
        /\ requests' \subseteq requests
    BY <1>5 DEF LoseBatch
  <2>2. QED
    BY <2>1 DEF Prefix, NoGap, ForgottenIsStored, RequestsFollow, StoredTo, AnswerTrue
<1>6. CASE SendCallback
  BY <1>6, Aside DEF SendCallback
<1>7. CASE PostReport \/ StopRetrying \/ TakeReport \/ LoseCallback
  BY <1>7, Aside DEF PostReport, StopRetrying, TakeReport, LoseCallback
<1>8. CASE RunEnds
  BY <1>8, Aside DEF RunEnds
<1>9. CASE UNCHANGED reporterVars
  BY <1>9, Aside DEF reporterVars
<1>10. QED
  BY <1>1, <1>2, <1>3, <1>4, <1>5, <1>6, <1>7, <1>8, <1>9 DEF ReporterNext

\* The inductive invariant holds.
LEMMA Invariant == ReporterSpec => [](Types /\ Prefix)
<1>1. ReporterInit => Types /\ Prefix
  BY TypeInit DEF ReporterInit, Prefix, NoGap, ForgottenIsStored, RequestsFollow, AnswerTrue
<1>2. Types /\ Prefix /\ [ReporterNext]_reporterVars => (Types /\ Prefix)'
  BY TypeStep, PrefixStep
<1>3. QED
  BY <1>1, <1>2, PTL DEF ReporterSpec

\* reporter.ts and the routes keep their types.
THEOREM TypeCorrect == ReporterSpec => []ReporterTypeOK
BY Invariant, PTL DEF Types

\* worker-events: no event is stored before an earlier one, whatever batch is lost,
\* repeated or late.
THEOREM StoredPrefix == ReporterSpec => []NoGap
BY Invariant, PTL DEF Prefix

\* reporter.ts, flush: what leaves the buffer is stored, or the run is over.
THEOREM NothingForgotten == ReporterSpec => []ForgottenIsStored
BY Invariant, PTL DEF Prefix

-----------------------------------------------------------------------------
(* The last flush                                                          *)

\* An answered or lost post was posted: only the first of them needs the flush.
WaitsAfterPost == caller = "wait" => attempts > 0

LastFlush == FlushedBeforeCallback /\ WaitsAfterPost

\* Every step keeps it: once the callback is on its way the buffer takes no event, and
\* a flush ends only with an empty buffer or an error.
LEMMA LastFlushStep == Types /\ LastFlush /\ [ReporterNext]_reporterVars => LastFlush'
<1> SUFFICES ASSUME Types, LastFlush, [ReporterNext]_reporterVars PROVE LastFlush'
  OBVIOUS
<1> USE DEF LastFlush, FlushedBeforeCallback, WaitsAfterPost
<1>1. CASE Enqueue
  BY <1>1 DEF Enqueue
<1>2. CASE Tick
  BY <1>2 DEF Tick
<1>3. CASE PostBatch
  BY <1>3 DEF PostBatch
<1>4. CASE FlushEmpty
  BY <1>4 DEF FlushEmpty, EndFlush
<1>5. CASE BatchTaken
  BY <1>5 DEF BatchTaken
<1>6. CASE BatchFailed
  BY <1>6 DEF BatchFailed, EndFlush
<1>7. CASE ServerNext
  BY <1>7 DEF ServerNext, ReadRun, InsertEvents
<1>8. CASE LoseBatch
  BY <1>8 DEF LoseBatch
<1>9. CASE SendCallback
  BY <1>9 DEF SendCallback
<1>10. CASE PostReport
  <2>1. attempts' > 0 /\ caller' = "wait"
    BY <1>10 DEF PostReport, Types, ReporterTypeOK
  <2>2. QED
    BY <2>1
<1>11. CASE StopRetrying
  BY <1>11 DEF StopRetrying
<1>12. CASE TakeReport
  <2>1. attempts > 0 /\ UNCHANGED attempts
    BY <1>12, BoundsAssumption DEF TakeReport, Types, ReporterTypeOK, PostsSent
  <2>2. QED
    BY <2>1
<1>13. CASE LoseCallback
  BY <1>13 DEF LoseCallback
<1>14. CASE RunEnds
  BY <1>14 DEF RunEnds
<1>15. CASE UNCHANGED reporterVars
  BY <1>15 DEF reporterVars
<1>16. QED
  BY <1>1, <1>2, <1>3, <1>4, <1>5, <1>6, <1>7, <1>8, <1>9, <1>10, <1>11, <1>12,
     <1>13, <1>14, <1>15 DEF ReporterNext, FlushNext

\* reporter.ts, sendCallback: the first post leaves with an empty buffer, unless a flush
\* failed or the one in flight, which the last flush does not wait for, still has it.
THEOREM FlushedFirst == ReporterSpec => []FlushedBeforeCallback
<1>1. ReporterInit => LastFlush
  BY DEF ReporterInit, LastFlush, FlushedBeforeCallback, WaitsAfterPost
<1>2. LastFlush => FlushedBeforeCallback
  BY DEF LastFlush
<1>3. QED
  BY <1>1, <1>2, LastFlushStep, Invariant, PTL DEF ReporterSpec

-----------------------------------------------------------------------------
(* The log                                                                 *)

\* No position is ahead of what was emitted.
Within ==
  /\ head <= next
  /\ flush = "wait" => batch.from <= batch.to /\ batch.to <= next
  /\ \A q \in requests : q.range.to <= next

\* A step that posts nothing and leaves the buffer's head alone stays within.
LEMMA WithinAside ==
  ASSUME Types, Within,
         UNCHANGED <<head, batch>>, next' \in {next, next + 1},
         flush' = "wait" => flush = "wait",
         \A q \in requests' : \E p \in requests : q.range = p.range
  PROVE  Within'
<1> USE DEF Types, ReporterTypeOK
<1>1. head \in Int /\ next \in Int /\ next <= next'
  OBVIOUS
<1>2. ASSUME NEW q \in requests' PROVE q.range.to <= next'
  <2>1. PICK p \in requests : q.range = p.range
    OBVIOUS
  <2>2. p.range.to <= next /\ p.range.to \in Int
    BY DEF Within, Ranges
  <2>3. QED
    BY <2>1, <2>2, <1>1
<1>3. batch.to \in Int
  BY DEF Ranges
<1>4. QED
  BY <1>1, <1>2, <1>3 DEF Within

\* Every step stays within what was emitted.
LEMMA WithinStep ==
  Types /\ Prefix /\ Within /\ [ReporterNext]_reporterVars => Within'
<1> SUFFICES ASSUME Types, Prefix, Within, [ReporterNext]_reporterVars PROVE Within'
  OBVIOUS
<1>1. CASE Enqueue
  BY <1>1, WithinAside DEF Enqueue
<1>2. CASE PostBatch
  <2> USE DEF Types, ReporterTypeOK
  <2>1. batch'.from = head /\ batch'.to = Lesser(head + MaxBatch, next)
        /\ UNCHANGED <<head, next>> /\ head < next
    BY <1>2 DEF PostBatch
  <2>2. batch'.from <= batch'.to /\ batch'.to <= next
    BY <2>1, BoundsAssumption DEF Lesser
  <2>3. \A q \in requests' : q.range.to <= next
    BY <2>2, <1>2 DEF PostBatch, Within
  <2>4. QED
    BY <2>1, <2>2, <2>3 DEF Within
<1>3. CASE BatchTaken
  BY <1>3 DEF BatchTaken, Within
<1>4. CASE ServerNext
  <2>1. PICK q \in requests : ReadRun(q) \/ InsertEvents(q)
    BY <1>4 DEF ServerNext
  <2>2. UNCHANGED <<head, next, batch, flush>>
    BY <2>1 DEF ReadRun, InsertEvents
  <2>3. requests' = requests \ {q}
        \/ requests' = (requests \ {q}) \cup {[q EXCEPT !.step = "insert"]}
    BY <2>1 DEF ReadRun, InsertEvents
  <2>4. [q EXCEPT !.step = "insert"].range = q.range
    BY DEF Types, ReporterTypeOK
  <2>5. QED
    BY <2>2, <2>3, <2>4, WithinAside
<1>5. CASE LoseBatch
  BY <1>5, WithinAside DEF LoseBatch
<1>6. CASE Tick \/ FlushEmpty \/ BatchFailed \/ SendCallback
  <2>1. /\ UNCHANGED <<head, next, requests>>
        /\ flush' # "wait" \/ UNCHANGED <<batch, flush>>
    BY <1>6 DEF Tick, FlushEmpty, BatchFailed, SendCallback, EndFlush
  <2>2. QED
    BY <2>1 DEF Within
<1>7. CASE PostReport \/ StopRetrying \/ TakeReport \/ LoseCallback \/ RunEnds
  BY <1>7, WithinAside DEF PostReport, StopRetrying, TakeReport, LoseCallback, RunEnds
<1>8. CASE UNCHANGED reporterVars
  BY <1>8, WithinAside DEF reporterVars
<1>9. QED
  BY <1>1, <1>2, <1>3, <1>4, <1>5, <1>6, <1>7, <1>8 DEF ReporterNext, FlushNext

\* Every step of the reporter or the routes is one of the log, or leaves it alone.
LEMMA LogStep ==
  ASSUME Types, Prefix, Within, [ReporterNext]_reporterVars,
         Prefix'
  PROVE  [Log!Next]_(Log!vars)
<1> USE DEF Log!vars
<1>1. CASE Enqueue
  BY <1>1 DEF Enqueue, Log!Next, Log!Emit
<1>2. CASE BatchTaken
  <2>1. head' = batch.to /\ UNCHANGED <<next, stored, over>>
        /\ batch.from = head /\ batch.from <= batch.to /\ batch.to <= next
    BY <1>2 DEF BatchTaken, Prefix, AnswerTrue, Within
  <2>2. batch.to \in head..next
    BY <2>1 DEF Types, ReporterTypeOK, Ranges
  <2>3. over \/ 0..(batch.to - 1) \subseteq stored
    BY <2>1 DEF Prefix, ForgottenIsStored
  <2>4. Log!Forget
    BY <2>1, <2>2, <2>3 DEF Log!Forget, Log!FirstEvents
  <2>5. QED
    BY <2>4 DEF Log!Next
<1>3. CASE ServerNext
  <2>1. PICK q \in requests : ReadRun(q) \/ InsertEvents(q)
    BY <1>3 DEF ServerNext
  <2>2. CASE UNCHANGED stored
    BY <2>1, <2>2 DEF ReadRun, InsertEvents
  <2>3. CASE q.step = "insert" /\ stored' = stored \cup (q.range.from .. (q.range.to - 1))
    <3>1. UNCHANGED <<next, head, over>>
      BY <2>1 DEF ReadRun, InsertEvents
    <3>2. 0..(q.range.from - 1) \subseteq stored
      BY <2>3 DEF Prefix, RequestsFollow, StoredTo
    <3>3. q.range.from \in Nat /\ q.range.to \in 0..next
      BY DEF Types, ReporterTypeOK, Within, Ranges
    <3>4. stored' = stored \cup 0..(q.range.to - 1)
      BY <2>3, <3>2, <3>3
    <3>5. Log!Store
      BY <3>1, <3>3, <3>4 DEF Log!Store, Log!FirstEvents
    <3>6. QED
      BY <3>5 DEF Log!Next
  <2>4. QED
    BY <2>1, <2>2, <2>3 DEF ReadRun, InsertEvents
<1>4. CASE TakeReport \/ RunEnds
  <2>1. over' = TRUE /\ UNCHANGED <<next, head, stored>>
    BY <1>4 DEF TakeReport, RunEnds
  <2>2. QED
    BY <2>1 DEF Log!Next, Log!End
<1>5. CASE Tick \/ PostBatch \/ FlushEmpty \/ BatchFailed \/ LoseBatch
  BY <1>5 DEF Tick, PostBatch, FlushEmpty, BatchFailed, LoseBatch
<1>6. CASE SendCallback \/ PostReport \/ StopRetrying \/ LoseCallback
  BY <1>6 DEF SendCallback, PostReport, StopRetrying, LoseCallback
<1>7. CASE UNCHANGED reporterVars
  BY <1>7 DEF reporterVars
<1>8. QED
  BY <1>1, <1>2, <1>3, <1>4, <1>5, <1>6, <1>7 DEF ReporterNext, FlushNext

\* reporter.ts and worker-events implement RunLog: a reader sees a beginning of the
\* agent's events that only grows, and the runner lets go of nothing before it is there.
THEOREM LogRefinement == ReporterSpec => LogSpec
<1>1. ReporterInit => Types /\ Prefix /\ Within /\ Log!Init
  BY TypeInit DEF ReporterInit, Prefix, NoGap, ForgottenIsStored, RequestsFollow,
     AnswerTrue, Within, Log!Init
<1>2. Types /\ Prefix /\ Within /\ [ReporterNext]_reporterVars
      => (Types /\ Prefix /\ Within)' /\ [Log!Next]_(Log!vars)
  BY TypeStep, PrefixStep, WithinStep, LogStep
<1>3. QED
  BY <1>1, <1>2, PTL DEF ReporterSpec, LogSpec, Log!Spec

-----------------------------------------------------------------------------
(* The run page                                                            *)

\* What the run had when it became terminal is the beginning of what it has now, and
\* does not change; what the page has been told of the run's end is true.
Settled ==
  /\ settled \subseteq stored
  /\ \A s \in settled : 0..s \subseteq settled
  /\ poll = "over" \/ ended => over

PageInv == ViewTypeOK /\ Settled /\ LastPollShowsAll

\* The first events of a beginning are the first events of the whole.
LEMMA FirstOfBeginning ==
  ASSUME NEW a, NEW b, a \subseteq b, b \subseteq Nat,
         \A s \in a : 0..s \subseteq a
  PROVE  FirstOf(a) \subseteq FirstOf(b)
<1>1. ASSUME NEW s \in a PROVE {e \in a : e < s} = {e \in b : e < s}
  <2>1. ASSUME NEW e \in b, e < s PROVE e \in a
    <3>1. e \in 0..s
      BY <2>1
    <3>2. QED
      BY <3>1
  <2>2. QED
    BY <2>1
<1>2. QED
  BY <1>1 DEF FirstOf

\* A step of the reporter beside the page.
LEMMA BesideStep ==
  ASSUME Types, Prefix, PageInv, Types', Beside(ReporterNext)
  PROVE  PageInv'
<1> USE DEF Beside
<1>1. ViewTypeOK'
  BY DEF PageInv, ViewTypeOK, Types, ReporterTypeOK
<1>2. (over => over') /\ stored \subseteq stored'
  BY DEF ReporterNext, Enqueue, Tick, FlushNext, PostBatch, FlushEmpty, BatchTaken,
     BatchFailed, ServerNext, ReadRun, InsertEvents, LoseBatch, SendCallback, PostReport,
     StopRetrying, TakeReport, LoseCallback, RunEnds
<1>3. settled' \in {settled, stored} /\ (over => settled' = settled)
  OBVIOUS
<1>4. Settled'
  BY <1>2, <1>3 DEF PageInv, Settled, Prefix, NoGap
<1>5. LastPollShowsAll'
  BY <1>3 DEF PageInv, LastPollShowsAll, Settled, FirstOf
<1>6. QED
  BY <1>1, <1>4, <1>5 DEF PageInv

\* A step of the page.
LEMMA PageStep ==
  ASSUME Types, Prefix, PageInv, GetRun \/ GetRunEvents \/ PollFails
  PROVE  PageInv'
<1>1. UNCHANGED <<reporterVars, settled>>
  BY DEF GetRun, GetRunEvents, PollFails
<1>2. FirstOf(settled) \subseteq FirstOf(stored) /\ FirstOf(stored) \subseteq stored
  <2>1. stored \subseteq Nat
    BY BoundsAssumption DEF Types, ReporterTypeOK
  <2>2. QED
    BY <2>1, FirstOfBeginning DEF PageInv, Settled, FirstOf
<1>3. FirstOf(settled)' = FirstOf(settled)
  BY <1>1 DEF FirstOf
<1>4. ReporterTypeOK' /\ UNCHANGED <<over, stored, settled>>
  BY <1>1 DEF Types, ReporterTypeOK, reporterVars
<1>5. CASE GetRun
  BY <1>3, <1>4, <1>5 DEF GetRun, PageInv, ViewTypeOK, Settled, LastPollShowsAll
<1>6. CASE GetRunEvents
  <2>1. shown' = FirstOf(stored) /\ ended' = (poll = "over") /\ poll' = "none"
    BY <1>6 DEF GetRunEvents
  <2>2. LastPollShowsAll'
    BY <1>2, <1>3, <2>1 DEF LastPollShowsAll
  <2>3. Settled'
    BY <1>4, <2>1 DEF PageInv, Settled
  <2>4. ViewTypeOK'
    BY <1>2, <1>4, <2>1 DEF PageInv, ViewTypeOK, ReporterTypeOK
  <2>5. QED
    BY <2>2, <2>3, <2>4 DEF PageInv
<1>7. CASE PollFails
  BY <1>3, <1>4, <1>7 DEF PollFails, PageInv, ViewTypeOK, Settled, LastPollShowsAll
<1>8. QED
  BY <1>5, <1>6, <1>7

\* The inductive invariant holds with the page beside the reporter.
LEMMA PageInvariant == ViewSpec => [](Types /\ Prefix /\ PageInv)
<1>1. ViewInit => Types /\ Prefix /\ PageInv
  <2>1. ViewInit => Types /\ Prefix
    BY TypeInit DEF ViewInit, ReporterInit, Prefix, NoGap, ForgottenIsStored,
       RequestsFollow, AnswerTrue
  <2>2. ViewInit /\ Types => PageInv
    BY DEF ViewInit, Types, PageInv, ViewTypeOK, Settled, LastPollShowsAll
  <2>3. QED
    BY <2>1, <2>2
<1>2. Types /\ Prefix /\ PageInv /\ [ViewNext]_viewVars => (Types /\ Prefix /\ PageInv)'
  <2> SUFFICES ASSUME Types, Prefix, PageInv, [ViewNext]_viewVars
               PROVE  (Types /\ Prefix /\ PageInv)'
    OBVIOUS
  <2>1. [ReporterNext]_reporterVars
    BY DEF ViewNext, Beside, GetRun, GetRunEvents, PollFails, viewVars
  <2>2. Types' /\ Prefix'
    BY <2>1, TypeStep, PrefixStep
  <2>3. CASE Beside(ReporterNext)
    BY <2>2, <2>3, BesideStep
  <2>4. CASE GetRun \/ GetRunEvents \/ PollFails
    BY <2>2, <2>4, PageStep
  <2>5. CASE UNCHANGED viewVars
    <3>1. UNCHANGED <<poll, ended, shown, settled, stored, over>> /\ ReporterTypeOK'
      BY <2>2, <2>5 DEF viewVars, reporterVars, Types
    <3>2. QED
      BY <2>2, <3>1 DEF PageInv, ViewTypeOK, Settled, LastPollShowsAll, FirstOf
  <2>6. QED
    BY <2>3, <2>4, <2>5 DEF ViewNext
<1>3. QED
  BY <1>1, <1>2, PTL DEF ViewSpec

\* The reporter, the routes and the page keep their types.
THEOREM ViewTypeCorrect == ViewSpec => []ViewTypeOK
BY PageInvariant, PTL DEF PageInv

\* The run page: what it shows when it stops polling has every event the run had when it
\* became terminal, as far as one answer goes, for every length of an answer.
THEOREM PageComplete == ViewSpec => []LastPollShowsAll
BY PageInvariant, PTL DEF PageInv

\* The log of a run that is being looked at is the same log.
THEOREM ViewedLog == ViewSpec => LogSpec
<1>1. [ViewNext]_viewVars => [ReporterNext]_reporterVars
  BY DEF ViewNext, Beside, GetRun, GetRunEvents, PollFails, viewVars
<1>2. ViewSpec => ReporterSpec
  BY <1>1, PTL DEF ViewSpec, ReporterSpec, ViewInit
<1>3. QED
  BY <1>2, LogRefinement
=============================================================================
