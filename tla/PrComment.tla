------------------------------ MODULE PrComment -----------------------------
(***************************************************************************)
(* The session comment of one pull request.  The webhook, the queue        *)
(* consumer and the hourly sweep all call refreshPrSessionComment, at once *)
(* if it so happens: it renders the body, skips GitHub when the body is the*)
(* one last posted, edits the comment it knows, or wins the right to post  *)
(* the first one by claiming the row of pr_session_comment.  Every query   *)
(* and every GitHub call is a step.                                        *)
(*                                                                         *)
(* A body is the number of the change it renders; 0 is the empty hash of a *)
(* row that was never posted.  Comment ids are 1, 2, ..., and 0 is NULL.   *)
(***************************************************************************)
EXTENDS Naturals, FiniteSets

CONSTANTS Calls,        \* refresh calls, each made once
          Ticks,        \* those of the hourly sweep
          Nobody,       \* claimed_at is NULL
          MaxBody,      \* bound on the changes of what is rendered
          MaxComments,  \* bound on the comments ever posted
          Happens       \* faults that happen

Faults == {"crash", "error", "lost answer", "denied", "delete", "slow"}

ASSUME CallsAssumption == Ticks \subseteq Calls /\ Nobody \notin Calls
ASSUME CommentBoundsAssumption == MaxBody \in Nat \ {0} /\ MaxComments \in Nat
ASSUME HappensAssumption == Happens \subseteq Faults

VARIABLES
  content,   \* what a call renders now
  row,       \* its row of pr_session_comment
  comments,  \* the comments on the pull request
  text,      \* the body each one was last given
  posted,    \* the highest id so far
  doing,     \* each call's next step
  body,      \* the body it rendered
  ref,       \* the comment id it has in hand
  held,      \* the claim it found
  backlog,   \* a sweep's call that drains the backlog
  owed,      \* what was to be rendered when a sweep last took up the pull request, 0
             \* before the first (ghost)
  spoilt,    \* calls overlapped, a sweep died, GitHub refused one, or the backlog could
             \* not be written (ghost)
  late       \* a claim ran out under its holder, or a comment was deleted
             \* between its edit and the record of it (ghost)

github == <<comments, text, posted>>
locals == <<body, ref, held, backlog>>
ghosts == <<owed, spoilt, late>>
commentVars == <<content, row, github, doing, locals, ghosts>>

Running == {"render", "read", "probe", "update", "claim", "reread", "take", "scan",
            "adopt", "edit", "create", "persist", "mark", "clear"}
Ended == {"refreshed", "failed", "denied", "dead"}

Ids == 0..MaxComments
Bodies == 0..MaxBody

CommentTypeOK ==
  /\ content \in 1..MaxBody
  /\ row \in [present : BOOLEAN, id : Ids, hash : Bodies, claim : Calls \cup {Nobody},
              expired : BOOLEAN, flag : BOOLEAN]
  /\ comments \subseteq 1..MaxComments
  /\ text \in [1..MaxComments -> Bodies]
  /\ posted \in Ids
  /\ doing \in [Calls -> {"idle"} \cup Running \cup Ended]
  /\ body \in [Calls -> Bodies]
  /\ ref \in [Calls -> Ids]
  /\ held \in [Calls -> Calls \cup {Nobody}]
  /\ backlog \in [Calls -> BOOLEAN]
  /\ owed \in Bodies /\ spoilt \in BOOLEAN /\ late \in BOOLEAN
  /\ \A c \in Calls : doing[c] \in {"probe", "update", "adopt", "edit", "persist"} =>
                         ref[c] \in 1..posted
  /\ row.expired => row.claim # Nobody

CommentInit ==
  /\ content = 1
  /\ row = [present |-> FALSE, id |-> 0, hash |-> 0, claim |-> Nobody,
            expired |-> FALSE, flag |-> FALSE]
  /\ comments = {} /\ text = [i \in 1..MaxComments |-> 0] /\ posted = 0
  /\ doing = [c \in Calls |-> "idle"]
  /\ body = [c \in Calls |-> 0]
  /\ ref = [c \in Calls |-> 0]
  /\ held = [c \in Calls |-> Nobody]
  /\ backlog = [c \in Calls |-> FALSE]
  /\ owed = 0 /\ spoilt = FALSE /\ late = FALSE

Doing(c, s) == doing[c] = s
Does(c, s) == doing' = [doing EXCEPT ![c] = s]
InFlight(c) == doing[c] \in Running

\* What a call's end means for the sweep that made it: a failure is flagged, and the
\* flag it came from is cleared.
Ends(c, s) ==
  Does(c, IF c \in Ticks /\ s = "failed" THEN "mark"
          ELSE IF c \in Ticks /\ backlog[c] THEN "clear" ELSE s)

---------------------------------------------------------------------------
\* The webhook or the queue consumer makes a call.
Trigger(c) ==
  /\ Doing(c, "idle") /\ c \notin Ticks
  /\ Does(c, "render")
  /\ spoilt' = (spoilt \/ \E d \in Calls : InFlight(d))
  /\ UNCHANGED <<content, row, github, locals, owed, late>>

\* The sweep takes up the pull requests of the backlog, none if it cannot be read, and
\* those whose links its reconciliation stored anew.  That list may name this one or
\* not, whatever changed: it leaves out a session synced again and a link that the
\* webhook stored, and no later sweep will see the same change.  Past the cap of a tick
\* the call is put off.
Sweep(c) ==
  /\ Doing(c, "idle") /\ c \in Ticks
  /\ \E reads \in BOOLEAN :
       /\ reads \/ "error" \in Happens
       /\ backlog' = [backlog EXCEPT ![c] = reads /\ row.flag]
  /\ owed' = content
  /\ Does(c, "render") \/ Does(c, "mark")
  /\ spoilt' = (spoilt \/ \E d \in Calls : InFlight(d))
  /\ UNCHANGED <<content, row, github, body, ref, held, late>>

Render(c) ==
  /\ Doing(c, "render")
  /\ body' = [body EXCEPT ![c] = content]
  /\ Does(c, "read")
  /\ UNCHANGED <<content, row, github, ref, held, backlog, ghosts>>

\* An unchanged body ends the call when its comment was seen lately; else GitHub is
\* asked for it.
ReadRow(c) ==
  /\ Doing(c, "read")
  /\ ref' = [ref EXCEPT ![c] = row.id]
  /\ IF row.id = 0 THEN Does(c, "claim")
     ELSE IF row.hash = body[c] THEN Ends(c, "refreshed") \/ Does(c, "probe")
     ELSE Does(c, "update")
  /\ UNCHANGED <<content, row, github, body, held, backlog, ghosts>>

Probe(c) ==
  /\ Doing(c, "probe")
  /\ IF ref[c] \in comments THEN Ends(c, "refreshed") ELSE Does(c, "claim")
  /\ UNCHANGED <<content, row, github, locals, ghosts>>

---------------------------------------------------------------------------
\* claimCreate.  The row's insert decides who posts first; for a comment that is gone
\* the clearing of exactly its id does.  A claim is the time it was made at.

Won(c) ==
  /\ row' = [present |-> TRUE, id |-> 0, hash |-> 0, claim |-> c, expired |-> FALSE,
             flag |-> row.flag]
  /\ Does(c, "create")

\* Mutant: the row is upserted, and nobody loses.
ClaimAlways(c) ==
  /\ Doing(c, "claim")
  /\ Won(c)
  /\ UNCHANGED <<content, github, locals, ghosts>>

Claim(c) ==
  /\ Doing(c, "claim")
  /\ IF (ref[c] = 0 /\ ~row.present) \/ (ref[c] # 0 /\ row.id = ref[c])
       THEN Won(c)
       ELSE Does(c, "reread") /\ UNCHANGED row
  /\ UNCHANGED <<content, github, locals, ghosts>>

\* The loser edits what was posted, takes over a claim that ran out or was never
\* made, or backs off.
Reread(c) ==
  /\ Doing(c, "reread")
  /\ ref' = [ref EXCEPT ![c] = row.id]
  /\ held' = [held EXCEPT ![c] = row.claim]
  /\ IF row.id # 0 THEN Does(c, "edit")
     ELSE IF row.claim = Nobody \/ row.expired THEN Does(c, "take")
     ELSE Ends(c, "failed")
  /\ UNCHANGED <<content, row, github, body, backlog, ghosts>>

TakeOver(c) ==
  /\ Doing(c, "take")
  /\ IF row.id = 0 /\ row.claim = held[c]
       THEN row' = [row EXCEPT !.claim = c, !.expired = FALSE] /\ Does(c, "scan")
       ELSE Ends(c, "failed") /\ UNCHANGED row
  /\ UNCHANGED <<content, github, locals, ghosts>>

\* findPostedComment: the last comment with the marker.
Scan(c) ==
  /\ Doing(c, "scan")
  /\ IF comments = {}
       THEN Does(c, "create") /\ UNCHANGED ref
       ELSE \E i \in comments :
              /\ \A j \in comments : j <= i
              /\ ref' = [ref EXCEPT ![c] = i]
              /\ Does(c, "adopt")
  /\ UNCHANGED <<content, row, github, body, held, backlog, ghosts>>

---------------------------------------------------------------------------
\* The writes to GitHub and the record of them.

\* A write has its effect, and its answer may be lost.
Answered(c, s) == Does(c, s) \/ ("lost answer" \in Happens /\ Ends(c, "failed"))

WriteBody(c) ==
  /\ text' = [text EXCEPT ![ref[c]] = body[c]]
  /\ Answered(c, "persist")
  /\ UNCHANGED <<comments, posted>>

\* updateIssueComment; what a 404 leads to differs.
Patch(c, from, gone) ==
  /\ Doing(c, from)
  /\ IF ref[c] \in comments THEN WriteBody(c) ELSE gone /\ UNCHANGED github
  /\ UNCHANGED <<content, row, locals, ghosts>>

Update(c) == Patch(c, "update", Does(c, "claim"))
Adopt(c) == Patch(c, "adopt", Does(c, "create"))
Edit(c) == Patch(c, "edit", Ends(c, "failed"))

\* Mutant: a failed post releases the claim.
CreateReleases(c) ==
  /\ Doing(c, "create")
  /\ posted < MaxComments
  /\ posted' = posted + 1
  /\ comments' = comments \cup {posted'}
  /\ text' = [text EXCEPT ![posted'] = body[c]]
  /\ ref' = [ref EXCEPT ![c] = posted']
  /\ \/ Does(c, "persist") /\ UNCHANGED row
     \/ "lost answer" \in Happens /\ Ends(c, "failed") /\ row' = [row EXCEPT !.claim = Nobody]
  /\ UNCHANGED <<content, body, held, backlog, ghosts>>

Create(c) ==
  /\ Doing(c, "create")
  /\ posted < MaxComments
  /\ posted' = posted + 1
  /\ comments' = comments \cup {posted'}
  /\ text' = [text EXCEPT ![posted'] = body[c]]
  /\ ref' = [ref EXCEPT ![c] = posted']
  /\ Answered(c, "persist")
  /\ UNCHANGED <<content, row, body, held, backlog, ghosts>>

\* persistCommentId: the upsert also ends the claim and the backlog entry.
Persist(c) ==
  /\ Doing(c, "persist")
  /\ row' = [present |-> TRUE, id |-> ref[c], hash |-> body[c], claim |-> Nobody,
             expired |-> FALSE, flag |-> FALSE]
  /\ Answered(c, "refreshed")
  /\ UNCHANGED <<content, github, locals, ghosts>>

\* Mutant: only a row that exists is marked.
MarkExisting(c) ==
  /\ Doing(c, "mark")
  /\ row' = IF row.present THEN [row EXCEPT !.flag = TRUE] ELSE row
  /\ Does(c, "failed")
  /\ UNCHANGED <<content, github, locals, ghosts>>

\* markCommentRefreshNeeded: a row is made for it if there is none.  A write that fails
\* is only logged.
Mark(c) ==
  /\ Doing(c, "mark")
  /\ Does(c, "failed")
  /\ \/ row' = [row EXCEPT !.present = TRUE, !.flag = TRUE] /\ UNCHANGED spoilt
     \/ "error" \in Happens /\ spoilt' = (spoilt \/ ~row.flag) /\ UNCHANGED row
  /\ UNCHANGED <<content, github, locals, owed, late>>

ClearFlag(c) ==
  /\ Doing(c, "clear")
  /\ Does(c, "refreshed")
  /\ \/ row' = [row EXCEPT !.flag = FALSE]
     \/ "error" \in Happens /\ UNCHANGED row
  /\ UNCHANGED <<content, github, locals, ghosts>>

---------------------------------------------------------------------------
\* Faults, people and time.

\* A query or a call to GitHub throws; refresh answers "failed".
CallFails(c) ==
  /\ "error" \in Happens
  /\ InFlight(c) /\ doing[c] \notin {"mark", "clear"}
  /\ Ends(c, "failed")
  /\ UNCHANGED <<content, row, github, locals, ghosts>>

\* A 403: no comment, and for the sweep no failure.
Denied(c) ==
  /\ "denied" \in Happens
  /\ doing[c] \in {"probe", "update", "adopt", "edit", "create"}
  /\ Ends(c, "denied")
  /\ spoilt' = TRUE
  /\ UNCHANGED <<content, row, github, locals, owed, late>>

\* The process of the call stops.
Dies(c) ==
  /\ "crash" \in Happens
  /\ InFlight(c)
  /\ Does(c, "dead")
  /\ spoilt' = (spoilt \/ c \in Ticks)
  /\ UNCHANGED <<content, row, github, locals, owed, late>>

\* A session syncs, a link is confirmed: the render changes.
Change ==
  /\ content < MaxBody
  /\ content' = content + 1
  /\ UNCHANGED <<row, github, doing, locals, ghosts>>

DeleteComment(i) ==
  /\ "delete" \in Happens
  /\ comments' = comments \ {i}
  /\ late' = (late \/ \E c \in Calls : Doing(c, "persist") /\ ref[c] = i)
  /\ UNCHANGED <<content, row, text, posted, doing, locals, owed, spoilt>>

\* CREATE_CLAIM_TTL_MS passes since the claim, whose holder is gone unless it is slow.
Expire ==
  /\ row.claim # Nobody /\ ~row.expired
  /\ InFlight(row.claim) => "slow" \in Happens
  /\ row' = [row EXCEPT !.expired = TRUE]
  /\ late' = (late \/ InFlight(row.claim))
  /\ UNCHANGED <<content, github, doing, locals, owed, spoilt>>

Refresh(c) ==
  \/ Trigger(c) \/ Sweep(c) \/ Render(c) \/ ReadRow(c) \/ Probe(c) \/ Claim(c)
  \/ Reread(c) \/ TakeOver(c) \/ Scan(c) \/ Update(c) \/ Adopt(c) \/ Edit(c)
  \/ Create(c) \/ Persist(c) \/ Mark(c) \/ ClearFlag(c)
  \/ CallFails(c) \/ Denied(c) \/ Dies(c)

CommentNext ==
  \/ \E c \in Calls : Refresh(c)
  \/ Change
  \/ \E i \in comments : DeleteComment(i)
  \/ Expire

CommentSpec == CommentInit /\ [][CommentNext]_commentVars

---------------------------------------------------------------------------
\* claimCreate: "One comment per PR — never a second."
OneComment == \A i, j \in comments : i = j

\* ... which holds while no claim runs out under a live holder and no comment is
\* deleted between its edit and the record of it, whatever dies, fails or races.
OneCommentInTime == late \/ OneComment

\* No comment is out of reach: the row points to it, or the row is claimed and has no
\* id, so that the call to take the claim over will find it.
NoOrphan ==
  late \/ \A i \in comments : row.id = i \/ (row.id = 0 /\ row.claim # Nobody)

\* The pull request has a comment, and it is no older than the nth change.
Shows(n) == posted > 0 /\ \A i \in comments : text[i] >= n

\* Calls that never overlapped leave what they promised, unless a sweep died, GitHub
\* refused or the backlog could not be written: a call that answered "refreshed" leaves
\* the body it rendered, and a sweep all that had changed when it took the pull request
\* up, or the pull request in the backlog.
Settles ==
  ~spoilt /\ (\A c \in Calls : ~InFlight(c)) =>
    /\ \A c \in Calls : Doing(c, "refreshed") => Shows(body[c])
    /\ owed = 0 \/ row.flag \/ Shows(owed)
=============================================================================
