---------------------------- MODULE ContextSync -----------------------------
(***************************************************************************)
(* The mirror of a repository's context files in Postgres: push webhooks,  *)
(* which arrive in any order, side by side, twice or never, the user's     *)
(* resync and the first sync of a linked repository.  A handler reads the  *)
(* mirrored head, decides between an incremental and a full build, reads   *)
(* git and writes; nothing locks the mirror between those calls.           *)
(*                                                                         *)
(* A commit is a number.  What git holds of a commit never changes, so the *)
(* reads at a fixed commit (listTree, getFileContent) are part of the step *)
(* that uses them, and so is hasBlob, since no blob is ever deleted.  The  *)
(* id of a snapshot is its commit: (app, commit, classifier) is unique.    *)
(***************************************************************************)
EXTENDS Naturals, FiniteSets

CONSTANTS Paths,      \* the paths classifyTree keeps
          Contents,   \* blob shas
          Large,      \* the blobs above OVERSIZE_BYTES
          Absent,     \* the content of a file a commit does not have
          MaxCommits, \* bound on the commits of the branch
          Handlers,   \* invocations of the webhook route or the resync action
          Happens     \* what this instance lets happen besides pushes

Kinds == {"force", "error", "lost answer"}

ASSUME LargeAssumption == Large \subseteq Contents
ASSUME AbsentAssumption == Absent \notin Contents
ASSUME MaxCommitsAssumption == MaxCommits \in Nat \ {0}
ASSUME HappensAssumption == Happens \subseteq Kinds

Commits == 1..MaxCommits
NoCommit == 0
Trees == [Paths -> Contents \cup {Absent}]

VARIABLES
  last,      \* commits 1..last exist
  tree,      \* the context files of each commit
  ancestors, \* the commits each commit descends from, itself included
  tip,       \* the commit of the connected branch
  sent,      \* pushes the provider has announced, to be delivered any number of times
  head,      \* context_head: its commit and its snapshot
  snapshots, \* context_tree_entry by snapshot: blob sha by path, Absent if no row
  built,     \* the snapshots that exist
  blobs,     \* context_blob
  stamped,   \* app.commit_sha and the default environment's current_commit_sha
  handler,   \* each invocation: its next step and what it read
  covered    \* the tip was synced by a handler that met no other (ghost)

git == <<last, tree, ancestors, tip, sent>>
mirror == <<head, snapshots, built, blobs>>
vars == <<git, mirror, stamped, handler, covered>>

Pushes == [before : Commits, after : Commits]
Steps == {"idle", "pointers", "load", "compare", "advance", "parent", "patch",
          "resolve", "full", "record"}

\* kind: a delivered push, or a link or resync.  before, after: the commits the
\* handler works on; base: the snapshot of the head it read; paths: the paths of
\* that snapshot; snapshot: what its ledger row will show; fresh: the tip has not
\* moved since it started (ghost); lone: no other handler has run since (ghost).
HandlerState ==
  [step : Steps, kind : {"push", "resync"}, before : 0..MaxCommits,
   after : 0..MaxCommits, base : 0..MaxCommits, paths : SUBSET Paths,
   snapshot : 0..MaxCommits, fresh : BOOLEAN, lone : BOOLEAN]

Idle == [step |-> "idle", kind |-> "push", before |-> NoCommit, after |-> NoCommit,
         base |-> NoCommit, paths |-> {}, snapshot |-> NoCommit,
         fresh |-> FALSE, lone |-> FALSE]

TypeOK ==
  /\ last \in Commits
  /\ tree \in [Commits -> Trees]
  /\ ancestors \in [Commits -> SUBSET Commits]
  /\ tip \in Commits
  /\ sent \subseteq Pushes
  /\ head \in [commit : 0..MaxCommits, snapshot : 0..MaxCommits]
  /\ snapshots \in [Commits -> Trees]
  /\ built \subseteq Commits
  /\ blobs \subseteq Contents
  /\ stamped \in 0..MaxCommits
  /\ handler \in [Handlers -> HandlerState]
  /\ covered \in BOOLEAN
  /\ \A h \in Handlers : handler[h].step = "full" => handler[h].after # NoCommit

Empty == [p \in Paths |-> Absent]

Init ==
  /\ last = 1
  /\ tree \in {[c \in Commits |-> IF c = 1 THEN t ELSE Empty] : t \in Trees}
  /\ ancestors = [c \in Commits |-> IF c = 1 THEN {1} ELSE {}]
  /\ tip = 1
  /\ sent = {}
  /\ head = [commit |-> NoCommit, snapshot |-> NoCommit]
  /\ snapshots = [c \in Commits |-> Empty]
  /\ built = {}
  /\ blobs = {}
  /\ stamped = NoCommit
  /\ handler = [h \in Handlers |-> Idle]
  /\ covered = FALSE

At(h, step) == handler[h].step = step
Go(h, step) == handler' = [handler EXCEPT ![h].step = step]

---------------------------------------------------------------------------
\* The repository and its provider.

\* compareCommits compares the head with the merge base of the two commits.
MergeBase(a, b) ==
  CHOOSE c \in ancestors[a] \cap ancestors[b] :
    \A d \in ancestors[a] \cap ancestors[b] : d <= c

Changed(a, b) == {p \in Paths : tree[MergeBase(a, b)][p] # tree[b][p]}

\* The branch moves to c: the handlers at work may have missed it.
Announce(c) ==
  /\ tip' = c
  /\ sent' = sent \cup {[before |-> tip, after |-> c]}
  /\ handler' = [h \in Handlers |-> [handler[h] EXCEPT !.fresh = FALSE]]
  /\ covered' = FALSE
  /\ UNCHANGED <<mirror, stamped>>

\* A new commit on top of parent.
Commit(parent) ==
  /\ last < MaxCommits
  /\ last' = last + 1
  /\ \E t \in Trees : tree' = [tree EXCEPT ![last + 1] = t]
  /\ ancestors' = [ancestors EXCEPT ![last + 1] = ancestors[parent] \cup {last + 1}]
  /\ Announce(last + 1)

Push == Commit(tip)

\* No push rewrote the branch.
Linear == \A p \in sent : p.before \in ancestors[p.after]

\* A bound of the model: the branch is rewritten at most once.
ForcePush ==
  /\ "force" \in Happens
  /\ Linear
  /\ \E c \in (1..last) \ {tip} :
       \/ Commit(c)
       \/ Announce(c) /\ UNCHANGED <<last, tree, ancestors>>

---------------------------------------------------------------------------
\* The start of an invocation, and its end without one.

\* Two handlers at work at once have met each other.
Start(h, state) ==
  LET alone == \A g \in Handlers \ {h} : At(g, "idle")
  IN  /\ At(h, "idle")
      /\ handler' = [g \in Handlers |->
                       IF g = h THEN [state EXCEPT !.lone = alone]
                       ELSE [handler[g] EXCEPT !.lone = FALSE]]
      /\ covered' = (covered /\ alone)
      /\ UNCHANGED <<git, mirror, stamped>>

DeliverPush(h) ==
  \E p \in sent : Start(h, [Idle EXCEPT !.step = "pointers", !.before = p.before,
                            !.after = p.after, !.fresh = (p.after = tip)])

\* A user's resync, or the first sync after a repository is linked.
StartResync(h) ==
  Start(h, [Idle EXCEPT !.step = "resolve", !.kind = "resync", !.fresh = TRUE])

\* A call throws, and the attempt ends as failed with no synced row; or the
\* function is killed, which may also happen to the pointer updates.
Abandon(h) ==
  /\ "error" \in Happens
  /\ ~At(h, "idle")
  /\ handler' = [handler EXCEPT ![h] = Idle]
  /\ UNCHANGED <<git, mirror, stamped, covered>>

---------------------------------------------------------------------------
\* advanceCommitPointers: before the sync of a push, after that of a resync.

AdvancePointers(h) ==
  /\ At(h, "pointers")
  /\ stamped' = handler[h].after
  /\ handler' = [handler EXCEPT ![h] =
                   IF @.kind = "push" THEN [@ EXCEPT !.step = "load"] ELSE Idle]
  /\ UNCHANGED <<git, mirror, covered>>

---------------------------------------------------------------------------
\* computePushOutcome and ensureSnapshotAt.

\* Mutant: a gap between the head and the push is not noticed.
LoadAnyHead(h) ==
  /\ At(h, "load")
  /\ handler' = [handler EXCEPT ![h] =
       IF head.commit = NoCommit THEN [@ EXCEPT !.step = "resolve"]
       ELSE IF head.commit = @.after
         THEN [@ EXCEPT !.step = "record", !.snapshot = head.snapshot]
       ELSE [@ EXCEPT !.step = "compare", !.base = head.snapshot]]
  /\ UNCHANGED <<git, mirror, stamped, covered>>

\* The head decides: no head or a gap is a full build, the pushed commit itself a
\* repeated webhook, the push's base an incremental build.
LoadHead(h) ==
  /\ At(h, "load")
  /\ handler' = [handler EXCEPT ![h] =
       IF head.commit = NoCommit THEN [@ EXCEPT !.step = "resolve"]
       ELSE IF head.commit = @.after
         THEN [@ EXCEPT !.step = "record", !.snapshot = head.snapshot]
       ELSE IF head.commit # @.before THEN [@ EXCEPT !.step = "resolve"]
       ELSE [@ EXCEPT !.step = "compare", !.base = head.snapshot]]
  /\ UNCHANGED <<git, mirror, stamped, covered>>

Compare(h) ==
  /\ At(h, "compare")
  /\ Go(h, IF Changed(handler[h].before, handler[h].after) = {} THEN "advance" ELSE "parent")
  /\ UNCHANGED <<git, mirror, stamped, covered>>

ReadParent(h) ==
  /\ At(h, "parent")
  /\ handler' = [handler EXCEPT
       ![h].step = "patch",
       ![h].paths = {p \in Paths : snapshots[handler[h].base][p] # Absent}]
  /\ UNCHANGED <<git, mirror, stamped, covered>>

\* What the write leaves in the ghost: the tip is covered when this handler met no
\* other and no push came in between.
Written(h) == covered' = (covered \/ (handler[h].fresh /\ handler[h].lone))

\* Mutant: an unchanged context leaves the head where it is.
KeepHead(h) ==
  /\ At(h, "advance")
  /\ handler' = [handler EXCEPT ![h].step = "record", ![h].snapshot = handler[h].base]
  /\ Written(h)
  /\ UNCHANGED <<git, mirror, stamped>>

\* The context did not change: the head moves and keeps its snapshot.  The write
\* matches the branch, not the head that was read.
AdvanceHead(h) ==
  /\ At(h, "advance")
  /\ head' = [commit |-> handler[h].after, snapshot |-> handler[h].base]
  /\ handler' = [handler EXCEPT ![h].step = "record", ![h].snapshot = handler[h].base]
  /\ Written(h)
  /\ UNCHANGED <<git, snapshots, built, blobs, stamped>>

\* Mutant: the shas are read from the branch instead of the commit.
CreateFromTip(h, c, paths, fetched) ==
  /\ snapshots' = [snapshots EXCEPT ![c] =
       [p \in Paths |-> IF @[p] = Absent /\ p \in paths THEN tree[tip][p] ELSE @[p]]]
  /\ built' = built \cup {c}
  /\ blobs' = blobs \cup ({tree[c][p] : p \in fetched} \ (Large \cup {Absent}))
  /\ head' = [commit |-> c, snapshot |-> c]
  /\ handler' = [handler EXCEPT ![h].step = "record", ![h].after = c, ![h].snapshot = c]
  /\ Written(h)
  /\ UNCHANGED <<git, stamped>>

\* create_context_snapshot, one transaction: rows that exist are kept.  An error
\* of the call may hide a transaction that took place.
CreateSnapshot(h, c, paths, fetched) ==
  /\ snapshots' = [snapshots EXCEPT ![c] =
       [p \in Paths |-> IF @[p] = Absent /\ p \in paths THEN tree[c][p] ELSE @[p]]]
  /\ built' = built \cup {c}
  /\ blobs' = blobs \cup ({tree[c][p] : p \in fetched} \ (Large \cup {Absent}))
  /\ head' = [commit |-> c, snapshot |-> c]
  /\ \/ handler' = [handler EXCEPT ![h].step = "record", ![h].after = c, ![h].snapshot = c]
     \/ "lost answer" \in Happens /\ handler' = [handler EXCEPT ![h] = Idle]
  /\ Written(h)
  /\ UNCHANGED <<git, stamped>>

\* Mutant: the parent's paths are not carried over.
PatchChangesOnly(h) ==
  /\ At(h, "patch")
  /\ LET c == handler[h].after
         changed == {p \in Changed(handler[h].before, c) : tree[c][p] # Absent}
     IN  CreateSnapshot(h, c, changed, changed)

\* Mutant: the contents of changed files are taken as known.
PatchFetchesNothing(h) ==
  /\ At(h, "patch")
  /\ LET c == handler[h].after
         changed == Changed(handler[h].before, c)
     IN  CreateSnapshot(h, c, handler[h].paths \cup changed, {})

\* The parent's paths patched with the changes; shas from the tree of the pushed
\* commit, contents fetched for the changed paths only.
PatchSnapshot(h) ==
  /\ At(h, "patch")
  /\ LET c == handler[h].after
         changed == Changed(handler[h].before, c)
         removed == {p \in changed : tree[c][p] = Absent}
     IN  CreateSnapshot(h, c, (handler[h].paths \cup changed) \ removed, changed \ removed)

\* Mutant: a full build of the commit the webhook named, which a resync has none of.
ResolvePushed(h) ==
  /\ At(h, "resolve")
  /\ Go(h, "full")
  /\ UNCHANGED <<git, mirror, stamped, covered>>

Resolve(h) ==
  /\ At(h, "resolve")
  /\ handler' = [handler EXCEPT ![h].step = "full", ![h].after = tip]
  /\ UNCHANGED <<git, mirror, stamped, covered>>

FullSnapshot(h) ==
  /\ At(h, "full")
  /\ CreateSnapshot(h, handler[h].after, Paths, Paths)

---------------------------------------------------------------------------
\* recordSyncEvent, a best effort; a resync then moves the pointers.

AfterSync(h) ==
  handler' = [handler EXCEPT ![h] =
                IF @.kind = "push" THEN Idle ELSE [@ EXCEPT !.step = "pointers"]]

RecordSynced(h) ==
  /\ At(h, "record")
  /\ AfterSync(h)
  /\ UNCHANGED <<git, mirror, stamped, covered>>

---------------------------------------------------------------------------
Sync(h) ==
  \/ AdvancePointers(h) \/ LoadHead(h) \/ Compare(h) \/ ReadParent(h)
  \/ AdvanceHead(h) \/ PatchSnapshot(h) \/ Resolve(h) \/ FullSnapshot(h)
  \/ RecordSynced(h)

Next ==
  \/ Push \/ ForcePush
  \/ \E h \in Handlers : DeliverPush(h) \/ StartResync(h) \/ Abandon(h) \/ Sync(h)

Spec == Init /\ [][Next]_vars

---------------------------------------------------------------------------
\* The snapshot is exactly the context of the commit.
Shows(snapshot, commit) == snapshot \in built /\ snapshots[snapshot] = tree[commit]

\* As long as nobody rewrites the branch, the head's snapshot is the context of
\* the head's commit, whichever handlers raced and whether it was built in full,
\* patched, or kept by advanceHead.
HeadShowsItsCommit ==
  Linear /\ head.commit # NoCommit => Shows(head.snapshot, head.commit)

\* The history panel's row points at a snapshot of the row's own commit; that of a
\* resync does even after a force push, so a resync repairs whatever an incremental
\* build left out.
RecordShowsItsCommit ==
  \A h \in Handlers :
    At(h, "record") /\ (Linear \/ handler[h].kind = "resync") =>
      Shows(handler[h].snapshot, handler[h].after)

\* A snapshot may lack a file, it never shows one the commit does not have.
NothingInvented ==
  \A c \in built : \A p \in Paths : snapshots[c][p] \in {Absent, tree[c][p]}

\* Every file a snapshot lists can be opened from the mirror, unless it is too
\* large to be mirrored: an incremental build fetches the changed files only, and
\* yet lists no blob that nobody fetched.
ContentMirrored ==
  Linear => \A c \in built : \A p \in Paths :
              snapshots[c][p] \in {Absent} \cup Large \cup blobs

\* A handler that starts when the branch has its last commit and meets no other
\* leaves the mirror at the branch's commit, whatever webhooks were lost, late or
\* repeated before or after it ("self-heals next push").
CaughtUp == Linear /\ covered => head.commit = tip

\* What readers see, as ContextMirror promises it: every write moves the mirror from
\* one commit of the branch to another, in one step, exactly while nobody rewrote it.
Published == INSTANCE ContextMirror WITH
  pushed <- 1..last, rewritten <- ~Linear, FirstCommit <- 1,
  shown <- [commit |-> head.commit,
            files |-> IF head.commit = NoCommit THEN Empty ELSE snapshots[head.snapshot]]

MirrorSpec == Published!Spec

\* "Missed webhook, force push, or any other gap ... self-heal via full resync":
\* the head shows its commit after a force push, too.
ForcePushHeals == head.commit # NoCommit => Shows(head.snapshot, head.commit)
=============================================================================
