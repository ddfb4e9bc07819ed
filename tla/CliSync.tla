------------------------------- MODULE CliSync ------------------------------
(***************************************************************************)
(* `outerlayer sync`: transcripts newer than a watermark are found, parsed,*)
(* cut into requests, oldest first, and posted; the watermark moves to the *)
(* newest transcript of each request that was answered.  Nothing locks the *)
(* watermark, so the sync a hook starts may overlap one started by hand,   *)
(* and agents keep writing all the while.                                  *)
(*                                                                         *)
(* Time is a counter: the mtime of a transcript is the time of its last    *)
(* change, and names its content.  No two changes share an mtime.          *)
(***************************************************************************)
EXTENDS Naturals, Sequences, FiniteSetsExt

CONSTANTS Transcripts, \* transcript files, one session each
          Parts,       \* the parts each is sent in: 1, or more if it is oversized
          Syncs,       \* sync processes
          MaxTime,     \* bound on the changes of transcripts
          SyncFaults   \* what goes wrong, or with "limited" is asked for: see below

SyncFaultKinds == {"unreadable", "limited", "refused", "too large", "rejected", "vanished",
                   "killed"}

ASSUME PartsAssumption == Parts \in [Transcripts -> Nat \ {0}]
ASSUME MaxTimeAssumption == MaxTime \in Nat
ASSUME SyncFaultsAssumption == SyncFaults \subseteq SyncFaultKinds

VARIABLES
  time,      \* the last change
  mtime,     \* of each transcript, 0 while there is none
  watermark, \* watermarks.json, for this destination
  stored,    \* <<transcript, mtime, part>>: the content the server has had
  at,        \* each sync's next step
  since,     \* the watermark it read
  left,      \* transcripts it has yet to stat
  found,     \* mtimes newer than the watermark it read
  requests,  \* its queue
  top,       \* the watermark it would write
  slipped,   \* contents written after a sync in progress had looked and found
             \* nothing new (ghost)
  dropped,   \* contents a sync left out (ghost)
  refused,   \* contents the server rejected for good (ghost)
  vanished   \* contents that were acknowledged and never landed (ghost)

syncVars == <<time, mtime, watermark, stored, at, since, left, found, requests, top,
              slipped, dropped, refused, vanished>>
scan == <<since, left, found>>
losses == <<slipped, dropped, refused, vanished>>

Times == 0..MaxTime
Contents == Transcripts \X Times

\* What is sent of a transcript, and a request: the sessions of one, whether its answer
\* moves the watermark, and where to.
Items ==
  {i \in [of : Transcripts, content : Times, mtime : Times, part : Nat] :
     i.part \in 1..Parts[i.of]}
Batches == [items : SUBSET Items, advance : BOOLEAN, newest : Times]
OldestFirst(queue) ==
  \A k, l \in DOMAIN queue : k < l => queue[k].newest <= queue[l].newest

SyncTypeOK ==
  /\ time \in Times
  /\ mtime \in [Transcripts -> Times]
  /\ watermark \in Times
  /\ \A c \in stored : <<c[1], c[2]>> \in Contents /\ c[3] \in 1..Parts[c[1]]
  /\ at \in [Syncs -> {"idle", "stat", "post", "answer", "done", "failed", "killed"}]
  /\ since \in [Syncs -> Times]
  /\ left \in [Syncs -> SUBSET Transcripts]
  /\ found \in [Syncs -> [Transcripts -> Times]]
  /\ top \in [Syncs -> Times]
  /\ slipped \subseteq Contents /\ dropped \subseteq Contents
  /\ refused \subseteq Contents /\ vanished \subseteq Contents
  /\ requests \in [Syncs -> Seq(Batches)]
  /\ \A s \in Syncs : OldestFirst(requests[s])

SyncInit ==
  /\ time = 0 /\ mtime = [t \in Transcripts |-> 0] /\ watermark = 0
  /\ stored = {}
  /\ at = [s \in Syncs |-> "idle"]
  /\ since = [s \in Syncs |-> 0]
  /\ left = [s \in Syncs |-> {}]
  /\ found = [s \in Syncs |-> [t \in Transcripts |-> 0]]
  /\ requests = [s \in Syncs |-> <<>>]
  /\ top = [s \in Syncs |-> 0]
  /\ slipped = {} /\ dropped = {} /\ refused = {} /\ vanished = {}

Turns(s, from, to) == at[s] = from /\ at' = [at EXCEPT ![s] = to]

---------------------------------------------------------------------------
\* An agent adds to its transcript.
Write(t) ==
  /\ time < MaxTime
  /\ time' = time + 1
  /\ mtime' = [mtime EXCEPT ![t] = time']
  /\ slipped' = IF \E s \in Syncs : at[s] = "stat" /\ t \notin left[s] /\ found[s][t] = 0
                  THEN slipped \cup {<<t, time'>>} ELSE slipped
  /\ UNCHANGED <<watermark, stored, at, scan, requests, top, dropped, refused,
                 vanished>>

\* --all ignores the watermark.
SyncStarts(s) ==
  /\ Turns(s, "idle", "stat")
  /\ \E w \in {watermark, 0} :
       since' = [since EXCEPT ![s] = w] /\ top' = [top EXCEPT ![s] = w]
  /\ left' = [left EXCEPT ![s] = Transcripts]
  /\ UNCHANGED <<time, mtime, watermark, stored, found, requests, losses>>

\* A file or a directory that cannot be read is passed over.
StatTranscript(s, t) ==
  /\ Turns(s, "stat", "stat")
  /\ t \in left[s]
  /\ left' = [left EXCEPT ![s] = @ \ {t}]
  /\ \/ /\ found' = [found EXCEPT ![s][t] = IF mtime[t] > since[s] THEN mtime[t] ELSE 0]
        /\ UNCHANGED dropped
     \/ /\ "unreadable" \in SyncFaults /\ mtime[t] > since[s]
        /\ dropped' = dropped \cup {<<t, mtime[t]>>}
        /\ UNCHANGED found
  /\ UNCHANGED <<time, mtime, watermark, stored, since, requests, top, slipped, refused,
                 vanished>>

\* Of the transcripts found, --limit n takes the newest n; one that does not parse, is
\* empty, or whose repository is not synced is left out.
FoundBy(s) == {t \in Transcripts : found[s][t] # 0}
NewestOf(s, n) ==
  {t \in FoundBy(s) : Cardinality({u \in FoundBy(s) : found[s][u] > found[s][t]}) < n}
Selections(s) ==
  {taken \in SUBSET FoundBy(s) :
     \E wanted \in {FoundBy(s)} \cup {NewestOf(s, n) : n \in 1..Cardinality(FoundBy(s))} :
       /\ wanted = FoundBy(s) \/ "limited" \in SyncFaults
       /\ taken = wanted \/ ("unreadable" \in SyncFaults /\ taken \subseteq wanted)}

\* The sessions taken, with the content they have by now.  They are sent oldest first;
\* the parts of an oversized one stay next to each other.
Older(a, b) == a.mtime < b.mtime \/ (a.mtime = b.mtime /\ a.part < b.part)
Collected(s, taken) ==
  UNION {{[of |-> t, content |-> mtime[t], mtime |-> found[s][t], part |-> p] :
            p \in 1..Parts[t]} : t \in taken}

\* Which of n requests an item goes to: where one ends depends on sizes and counts, and
\* any place will do.
Batchings(items, n) ==
  {place \in [items -> 1..n] :
     /\ \A i, j \in items : Older(i, j) => place[i] <= place[j]
     /\ \A k \in 1..n : \E i \in items : place[i] = k}
Request(items) ==
  [items |-> items, advance |-> TRUE, newest |-> Max({i.mtime : i \in items})]

Ships(s, taken) ==
  LET items == Collected(s, taken)
  IN  /\ dropped' = dropped \cup {<<t, mtime[t]>> : t \in FoundBy(s) \ taken}
      /\ IF items = {}
           THEN Turns(s, "stat", "done") /\ UNCHANGED requests
           ELSE /\ Turns(s, "stat", "post")
                /\ \E n \in 1..Cardinality(items) : \E place \in Batchings(items, n) :
                     requests' = [requests EXCEPT ![s] =
                       [k \in 1..n |-> Request({i \in items : place[i] = k})]]

Collect(s) ==
  /\ at[s] = "stat" /\ left[s] = {}
  /\ \E taken \in Selections(s) : Ships(s, taken)
  /\ UNCHANGED <<time, mtime, watermark, stored, scan, top, slipped, refused, vanished>>

---------------------------------------------------------------------------
\* POST /v1/agents/sync.

Sent(s) == Head(requests[s]).items
ContentsOf(items) == {<<i.of, i.content>> : i \in items}
Stores(items) == stored' = stored \cup {<<i.of, i.content, i.part>> : i \in items}

\* Some sessions may be rejected for good, which does not hold the watermark back.
PostRequest(s) ==
  /\ Turns(s, "post", "answer")
  /\ \E bad \in (IF "rejected" \in SyncFaults THEN SUBSET Transcripts ELSE {{}}) :
       /\ Stores({i \in Sent(s) : i.of \notin bad})
       /\ refused' = refused \cup ContentsOf({i \in Sent(s) : i.of \in bad})
  /\ UNCHANGED <<time, mtime, watermark, scan, requests, top, slipped, dropped, vanished>>

\* An insert that is acknowledged and does not land.  The check before the answer asks
\* for rows of the sessions, whatever version they show.
PostVanishes(s) ==
  /\ "vanished" \in SyncFaults
  /\ Turns(s, "post", "answer")
  /\ \A i \in Sent(s) : \E c \in stored : c[1] = i.of
  /\ vanished' = vanished \cup ContentsOf(Sent(s))
  /\ UNCHANGED <<time, mtime, watermark, stored, scan, requests, top, slipped, dropped,
                 refused>>

\* The retries are used up, or the answer is final: the run ends, what it stored stays.
PostFails(s) ==
  /\ "refused" \in SyncFaults
  /\ Turns(s, "post", "failed")
  /\ Stores({}) \/ Stores(Sent(s))
  /\ UNCHANGED <<time, mtime, watermark, scan, requests, top, losses>>

\* A request of several sessions that is too large, or keeps failing, is sent as two
\* halves; the server may have stored it all the same.
FirstHalf(items) ==
  {i \in items : 2 * Cardinality({j \in items : Older(j, i)}) < Cardinality(items)}
Halves(request, advance) ==
  LET first == FirstHalf(request.items)
  IN  <<[request EXCEPT !.items = first, !.advance = advance],
        [request EXCEPT !.items = @ \ first]>>

\* Mutant: either half moves the watermark.
SplitAdvances(s) ==
  /\ "too large" \in SyncFaults
  /\ Turns(s, "post", "post")
  /\ Cardinality(Sent(s)) > 1
  /\ Stores({}) \/ Stores(Sent(s))
  /\ requests' = [requests EXCEPT ![s] = Halves(Head(@), Head(@).advance) \o Tail(@)]
  /\ UNCHANGED <<time, mtime, watermark, scan, top, losses>>

\* Only the second half moves the watermark.
SplitRequest(s) ==
  /\ "too large" \in SyncFaults
  /\ Turns(s, "post", "post")
  /\ Cardinality(Sent(s)) > 1
  /\ Stores({}) \/ Stores(Sent(s))
  /\ requests' = [requests EXCEPT ![s] = Halves(Head(@), FALSE) \o Tail(@)]
  /\ UNCHANGED <<time, mtime, watermark, scan, top, losses>>

\* writeWatermark; a sync that overlaps may put a lower one back.
TakeAnswer(s) ==
  /\ Turns(s, "answer", IF Len(requests[s]) = 1 THEN "done" ELSE "post")
  /\ LET r == Head(requests[s])
     IN  IF r.advance
           THEN /\ top' = [top EXCEPT ![s] = Max({@, r.newest})]
                /\ watermark' = top'[s]
           ELSE UNCHANGED <<top, watermark>>
  /\ requests' = [requests EXCEPT ![s] = Tail(@)]
  /\ UNCHANGED <<time, mtime, stored, scan, losses>>

SyncKilled(s) ==
  /\ "killed" \in SyncFaults
  /\ at[s] \in {"stat", "post", "answer"}
  /\ at' = [at EXCEPT ![s] = "killed"]
  /\ UNCHANGED <<time, mtime, watermark, stored, scan, requests, top, losses>>

SyncStep(s) ==
  \/ SyncStarts(s) \/ (\E t \in Transcripts : StatTranscript(s, t)) \/ Collect(s)
  \/ PostRequest(s) \/ PostVanishes(s) \/ PostFails(s) \/ SplitRequest(s)
  \/ TakeAnswer(s) \/ SyncKilled(s)

SyncNext == (\E s \in Syncs : SyncStep(s)) \/ (\E t \in Transcripts : Write(t))

SyncSpec == SyncInit /\ [][SyncNext]_syncVars

---------------------------------------------------------------------------
\* What the watermark claims: the transcript is synced as it is.
Passed(t) == mtime[t] \in 1..watermark
Arrived(t, p) == <<t, mtime[t], p>> \in stored

\* The server has had some of the content of the transcript, rejected it, or took its
\* session for stored; or a sync left it out, or it was written behind the back of one in
\* progress.
Accounted(t) ==
  \/ \E p \in 1..Parts[t] : Arrived(t, p)
  \/ <<t, mtime[t]>> \in refused \cup slipped \cup dropped
  \/ <<t, mtime[t]>> \in vanished /\ \E c \in stored : c[1] = t

\* The watermark passes no content the server has had nothing of, through failures,
\* splits, kills and overlapping syncs, but for what was rejected, what a sync left out
\* (older than the newest n of --limit n, unreadable, empty, or filtered: the watermark
\* passes all of these), what was written behind the back of a sync in progress, and a
\* later version of a session that the check before the answer mistook for an earlier one.
NothingSkipped == \A t \in Transcripts : Passed(t) => Accounted(t)

\* sync-cmd.ts: "parts stay adjacent, so a partially-shipped session re-sends whole on
\* resume."  When no sync is at work, the watermark, which decides what the next one
\* sends, has passed no session of which only some parts arrived.
PartialIsResent ==
  (\A s \in Syncs : at[s] \notin {"stat", "post", "answer"}) =>
    \A t \in Transcripts : Passed(t) /\ (\E p \in 1..Parts[t] : Arrived(t, p)) =>
      \A p \in 1..Parts[t] : Arrived(t, p)
=============================================================================
