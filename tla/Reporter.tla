------------------------------ MODULE Reporter ------------------------------
(***************************************************************************)
(* The runner's Reporter and the routes it talks to: events are numbered   *)
(* and buffered, flushed in batches by a timer, and flushed once more      *)
(* before the terminal callback is posted with retries.  A request whose   *)
(* answer is lost may still be worked on by the server.                    *)
(***************************************************************************)
EXTENDS Integers

CONSTANTS MaxEvents,    \* bound on the events the agent emits
          MaxBatch,     \* MAX_BATCH, 500 in the code
          MaxPosts,  \* posts of the callback, 4 in the code
          Faults        \* "net": an answer or a request is lost, "server": a 500

ASSUME BoundsAssumption ==
  MaxEvents \in Nat /\ MaxBatch \in Nat \ {0} /\ MaxPosts \in Nat \ {0}
ASSUME FaultsAssumption == Faults \subseteq {"net", "server"}

VARIABLES
  next,     \* seq of the next event
  head,     \* seq of the first buffered event: the buffer holds head..next-1
  timer,    \* the flush interval is running
  flush,    \* the flush loop: "idle" means flushing = false
  batch,    \* the range of the batch whose answer the loop awaits
  answer,   \* that answer
  requests, \* event batches the server is working on
  stored,   \* seqs in worker_run_event
  over,     \* the run is terminal
  caller,   \* where sendCallback is
  attempts,  \* callbacks posted
  posts,    \* callbacks the server has not worked on yet
  gaveUp    \* a flush ended with an error (ghost)

buffer == <<next, head>>
loop == <<flush, batch, answer, gaveUp>>
server == <<requests, stored>>
reporting == <<caller, attempts>>
reporterVars == <<buffer, timer, loop, server, over, reporting, posts>>

Ranges == [from : 0..MaxEvents, to : 0..MaxEvents]
NoBatch == [from |-> 0, to |-> 0]

ReporterTypeOK ==
  /\ next \in 0..MaxEvents /\ head \in 0..MaxEvents
  /\ timer \in BOOLEAN
  /\ flush \in {"idle", "send", "wait"}
  /\ batch \in Ranges
  /\ answer \in {"none", "ok", "conflict", "error"}
  /\ requests \subseteq [range : Ranges, step : {"read", "insert"}]
  /\ stored \subseteq 0..(MaxEvents - 1)
  /\ over \in BOOLEAN
  /\ caller \in {"agent", "flushing", "post", "wait", "done"}
  /\ attempts \in 0..MaxPosts
  /\ posts \in 0..MaxPosts
  /\ gaveUp \in BOOLEAN

ReporterInit ==
  /\ next = 0 /\ head = 0
  /\ timer = TRUE
  /\ flush = "idle" /\ batch = NoBatch /\ answer = "none" /\ gaveUp = FALSE
  /\ requests = {} /\ stored = {}
  /\ over = FALSE
  /\ caller = "agent" /\ attempts = 0 /\ posts = 0

-----------------------------------------------------------------------------
(* Events                                                                  *)

\* The agent emits while it runs; it has ended when sendCallback is called.
Enqueue ==
  /\ caller = "agent"
  /\ next < MaxEvents
  /\ next' = next + 1
  /\ UNCHANGED <<head, timer, loop, server, over, reporting, posts>>

\* The timer calls flush, which returns at once while another flush is running.
Tick ==
  /\ timer
  /\ flush = "idle" /\ head < next
  /\ flush' = "send"
  /\ UNCHANGED <<buffer, timer, batch, answer, gaveUp, server, over, reporting, posts>>

Lesser(m, n) == IF m < n THEN m ELSE n

\* One turn of the loop: post the first MAX_BATCH events of the buffer.
PostBatch ==
  /\ flush = "send" /\ head < next
  /\ batch' = [from |-> head, to |-> Lesser(head + MaxBatch, next)]
  /\ requests' = requests \cup {[range |-> batch', step |-> "read"]}
  /\ flush' = "wait"
  /\ UNCHANGED <<buffer, timer, answer, gaveUp, stored, over, reporting, posts>>

\* The loop ends; a sendCallback that awaits this flush goes on.
EndFlush ==
  /\ flush' = "idle"
  /\ caller' = IF caller = "flushing" THEN "post" ELSE caller

FlushEmpty ==
  /\ flush = "send" /\ head = next
  /\ EndFlush
  /\ UNCHANGED <<buffer, timer, batch, answer, gaveUp, server, over, attempts, posts>>

\* Mutant: any answer takes the batch out of the buffer.
BatchTakenAlways ==
  /\ flush = "wait" /\ answer # "none"
  /\ head' = batch.to
  /\ flush' = "send"
  /\ answer' = "none" /\ batch' = NoBatch
  /\ UNCHANGED <<next, timer, gaveUp, server, over, reporting, posts>>

\* 2xx and 409 both take the batch out of the buffer.
BatchTaken ==
  /\ flush = "wait" /\ answer \in {"ok", "conflict"}
  /\ head' = batch.to
  /\ flush' = "send"
  /\ answer' = "none" /\ batch' = NoBatch
  /\ UNCHANGED <<next, timer, gaveUp, server, over, reporting, posts>>

\* Mutant: the loop tries again at once.
BatchRetried ==
  /\ flush = "wait" /\ answer = "error"
  /\ gaveUp' = TRUE
  /\ answer' = "none" /\ batch' = NoBatch
  /\ flush' = "send"
  /\ UNCHANGED <<buffer, timer, server, over, reporting, posts>>

\* Any other answer, or an exception, ends the flush with the batch still buffered.
BatchFailed ==
  /\ flush = "wait" /\ answer = "error"
  /\ gaveUp' = TRUE
  /\ answer' = "none" /\ batch' = NoBatch
  /\ EndFlush
  /\ UNCHANGED <<buffer, timer, server, over, attempts, posts>>

-----------------------------------------------------------------------------
(* The events route                                                        *)

\* Is the loop still waiting for this request?
Awaited(q) == flush = "wait" /\ answer = "none" /\ batch = q.range

Answer(q, a) == answer' = IF Awaited(q) THEN a ELSE answer

\* A terminal run refuses the batch: 409, or 401 once its secret is deleted.
ReadRun(q) ==
  /\ q.step = "read"
  /\ IF over
       THEN /\ requests' = requests \ {q}
            /\ Answer(q, "conflict") \/ Answer(q, "error")
       ELSE /\ requests' = (requests \ {q}) \cup {[q EXCEPT !.step = "insert"]}
            /\ UNCHANGED answer
  /\ UNCHANGED <<buffer, timer, flush, batch, gaveUp, stored, over, reporting, posts>>

\* Duplicates of (worker_run_id, seq) are ignored.
InsertEvents(q) ==
  /\ q.step = "insert"
  /\ requests' = requests \ {q}
  /\ \/ /\ stored' = stored \cup (q.range.from .. (q.range.to - 1))
        /\ Answer(q, "ok")
     \/ /\ "server" \in Faults
        /\ Answer(q, "error")
        /\ UNCHANGED stored
  /\ UNCHANGED <<buffer, timer, flush, batch, gaveUp, over, reporting, posts>>

\* The client sees an error; the server may never have seen the request, or goes
\* on with it.
LoseBatch ==
  /\ "net" \in Faults
  /\ flush = "wait" /\ answer = "none"
  /\ answer' = "error"
  /\ requests' \in {requests, {q \in requests : q.range # batch}}
  /\ UNCHANGED <<buffer, timer, flush, batch, gaveUp, stored, over, reporting, posts>>

-----------------------------------------------------------------------------
(* The terminal callback                                                   *)

\* Mutant: no last flush.
SendWithoutFlush ==
  /\ caller = "agent"
  /\ timer' = FALSE
  /\ caller' = "post"
  /\ UNCHANGED <<buffer, loop, server, over, attempts, posts>>

\* stop(), then await flush(): that returns at once when a flush is running or the
\* buffer is empty.
SendCallback ==
  /\ caller = "agent"
  /\ timer' = FALSE
  /\ IF flush # "idle" \/ head = next
       THEN caller' = "post" /\ UNCHANGED flush
       ELSE caller' = "flushing" /\ flush' = "send"
  /\ UNCHANGED <<buffer, batch, answer, gaveUp, server, over, attempts, posts>>

\* Mutant: one post too many.
PostOnceMore ==
  /\ caller = "post"
  /\ attempts <= MaxPosts
  /\ attempts' = attempts + 1
  /\ posts' = posts + 1
  /\ caller' = "wait"
  /\ UNCHANGED <<buffer, timer, loop, server, over>>

PostReport ==
  /\ caller = "post"
  /\ attempts < MaxPosts
  /\ attempts' = attempts + 1
  /\ posts' = posts + 1
  /\ caller' = "wait"
  /\ UNCHANGED <<buffer, timer, loop, server, over>>

\* Four posts without a 2xx: sendCallback returns false.
StopRetrying ==
  /\ caller = "post"
  /\ attempts = MaxPosts
  /\ caller' = "done"
  /\ UNCHANGED <<buffer, timer, loop, server, over, attempts, posts>>

\* The run becomes terminal.  A post after the first may find its secret deleted,
\* and be refused.
TakeReport ==
  /\ posts > 0
  /\ posts' = posts - 1
  /\ over' = TRUE
  /\ IF caller = "wait"
       THEN caller' \in (IF over THEN {"done", "post"} ELSE {"done"})
       ELSE UNCHANGED caller
  /\ UNCHANGED <<buffer, timer, loop, server, attempts>>

LoseCallback ==
  /\ "net" \in Faults
  /\ caller = "wait"
  /\ caller' = "post"
  /\ posts' \in {posts, IF posts > 0 THEN posts - 1 ELSE posts}
  /\ UNCHANGED <<buffer, timer, loop, server, over, attempts>>

\* Cancel or the reaper ends the run meanwhile.
RunEnds ==
  /\ ~over
  /\ over' = TRUE
  /\ UNCHANGED <<buffer, timer, loop, server, reporting, posts>>

-----------------------------------------------------------------------------

FlushNext == PostBatch \/ FlushEmpty \/ BatchTaken \/ BatchFailed
ServerNext == \E q \in requests : ReadRun(q) \/ InsertEvents(q)

ReporterNext ==
  \/ Enqueue \/ Tick \/ FlushNext \/ ServerNext \/ LoseBatch
  \/ SendCallback \/ PostReport \/ StopRetrying \/ TakeReport \/ LoseCallback
  \/ RunEnds

ReporterSpec == ReporterInit /\ [][ReporterNext]_reporterVars

\* A request is answered or fails in the end, and the runner's own steps are taken.
ReporterFairness ==
  /\ WF_reporterVars(FlushNext)
  /\ WF_reporterVars(ServerNext)
  /\ WF_reporterVars(PostReport \/ StopRetrying)
  /\ WF_reporterVars(TakeReport \/ LoseCallback)

ReporterFairSpec == ReporterSpec /\ ReporterFairness

-----------------------------------------------------------------------------
(* Properties                                                              *)

\* The log as its readers take it: RunLog says what it promises, here the runner and
\* the route keep it, with lost answers, repeated batches and late requests.
Log == INSTANCE RunLog WITH emitted <- next, log <- stored, kept <- head

LogSpec == Log!Spec

\* The stored events are a prefix of what the agent emitted: no event is stored before
\* an earlier one.
NoGap == \A s \in stored : 0..s \subseteq stored

\* The buffer forgets an event only when it is stored, or the run is over.
ForgottenIsStored == over \/ 0..(head - 1) \subseteq stored

\* reporter.ts: "Flush remaining events, then POST the terminal callback": before the
\* first post the buffer is empty, unless a flush failed or the flush in flight, which
\* the last one does not wait for, still has it.
FlushedBeforeCallback ==
  caller = "post" /\ attempts = 0 => head = next \/ gaveUp \/ flush # "idle"

\* The terminal callback is posted and sendCallback returns, whatever is lost.
CallbackReturns == caller = "flushing" ~> caller = "done" /\ attempts > 0
=============================================================================
