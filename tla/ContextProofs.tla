--------------------------- MODULE ContextProofs ----------------------------
(***************************************************************************)
(* Proofs about the context mirror and the saves into its repository.      *)
(* First ContextSync: the head, the snapshots and what the mirror shows,   *)
(* for any handlers and faults, and that it implements ContextMirror.      *)
(* Then ContextSave: what a save lands and what it may overwrite, for any  *)
(* authors.                                                                *)
(***************************************************************************)
EXTENDS ContextSync, ContextSave, TLAPS

\* The steps after the head was found to be the base of the push, and with the
\* step before it those of a pushed commit.
Patching == {"compare", "advance", "parent", "patch"}
Incremental == {"load"} \cup Patching

\* A commit descends from older ones only; a branch that was never rewritten only
\* moved from older commits to newer ones.
GitOK ==
  /\ tip <= last
  /\ \A c \in 1..last : c \in ancestors[c] /\ ancestors[c] \subseteq 1..c
  /\ \A p \in sent : p.before \in 1..last /\ p.after \in 1..last /\ p.before # p.after
  /\ Linear => \A p \in sent : p.before < p.after /\ p.after <= tip

\* Without a rewrite every snapshot is complete.
SnapshotsOK ==
  /\ built \subseteq 1..last
  /\ \A c \in Commits \ built : \A p \in Paths : snapshots[c][p] = Absent
  /\ Linear => \A c \in built : snapshots[c] = tree[c]

HeadOK == head.commit # NoCommit => head.commit \in 1..last

\* The commits a handler works on are those of an announced push, or the tip it
\* resolved.
WorksOnCommits ==
  \A h \in Handlers :
    /\ (At(h, "pointers") /\ handler[h].kind = "push") \/ handler[h].step \in Incremental =>
         /\ handler[h].kind = "push"
         /\ [before |-> handler[h].before, after |-> handler[h].after] \in sent
    /\ handler[h].step \in {"full", "record"} => handler[h].after \in 1..last

\* A handler that patches has read a snapshot of the push's base, and it still is.
PatchesTheBase ==
  Linear =>
    \A h \in Handlers :
      /\ handler[h].step \in Patching => Shows(handler[h].base, handler[h].before)
      /\ At(h, "advance") => tree[handler[h].before] = tree[handler[h].after]
      /\ At(h, "patch") =>
           handler[h].paths = {p \in Paths : tree[handler[h].before][p] # Absent}

\* A resync records the snapshot it built.
ResyncRecordsItsBuild ==
  \A h \in Handlers :
    At(h, "record") /\ handler[h].kind = "resync" => handler[h].snapshot = handler[h].after

\* A handler that knows the tip builds it.
FreshBuildsTip ==
  \A h \in Handlers :
    handler[h].fresh =>
      ((At(h, "pointers") /\ handler[h].kind = "push") \/ handler[h].step \in Incremental
         \/ At(h, "full") => handler[h].after = tip)

LoneIsAlone ==
  \A h \in Handlers : handler[h].lone => \A g \in Handlers \ {h} : At(g, "idle")

\* Once the tip is covered, no handler is left that would move the head from it.
CoveredStays ==
  Linear /\ covered =>
    \A h \in Handlers : handler[h].step \notin Patching
                        /\ (At(h, "full") => handler[h].after = tip)

MirrorInv ==
  /\ TypeOK
  /\ GitOK
  /\ SnapshotsOK
  /\ HeadOK
  /\ WorksOnCommits
  /\ PatchesTheBase
  /\ ResyncRecordsItsBuild
  /\ FreshBuildsTip
  /\ LoneIsAlone
  /\ CoveredStays
  /\ HeadShowsItsCommit
  /\ RecordShowsItsCommit
  /\ NothingInvented
  /\ ContentMirrored
  /\ CaughtUp

USE LargeAssumption, AbsentAssumption, MaxCommitsAssumption

LEMMA MirrorInitInv == Init => MirrorInv
  <1> SUFFICES ASSUME Init PROVE MirrorInv
    OBVIOUS
  <1> USE DEF Init
  <1>1. Empty \in Trees /\ \A p \in Paths : Empty[p] = Absent
    BY DEF Empty, Trees
  <1>2. \A h \in Handlers : handler[h] = Idle
    OBVIOUS
  <1>3. Idle \in HandlerState
    BY DEF Idle, HandlerState, Steps, NoCommit
  <1>4. TypeOK
    <2>1. 1 \in Commits
      BY DEF Commits
    <2>2. tree \in [Commits -> Trees] /\ snapshots \in [Commits -> Trees]
      BY <1>1
    <2>3. ancestors \in [Commits -> SUBSET Commits]
      BY <2>1
    <2>4. handler \in [Handlers -> HandlerState]
      BY <1>3
    <2>5. \A h \in Handlers : handler[h].step # "full"
      BY <1>2 DEF Idle
    <2>6. head \in [commit : 0..MaxCommits, snapshot : 0..MaxCommits] /\ stamped \in 0..MaxCommits
      BY DEF NoCommit
    <2> QED
      BY <2>1, <2>2, <2>3, <2>4, <2>5, <2>6 DEF TypeOK
  <1>5. GitOK
    <2>1. 1 \in Commits
      BY DEF Commits
    <2> QED
      BY <2>1 DEF GitOK
  <1>6. SnapshotsOK /\ HeadOK /\ HeadShowsItsCommit /\ NothingInvented /\ ContentMirrored
    BY <1>1 DEF SnapshotsOK, HeadOK, HeadShowsItsCommit, NothingInvented, ContentMirrored
  <1>7. WorksOnCommits /\ PatchesTheBase /\ FreshBuildsTip /\ LoneIsAlone
        /\ RecordShowsItsCommit /\ ResyncRecordsItsBuild
    BY <1>2 DEF WorksOnCommits, PatchesTheBase, FreshBuildsTip, LoneIsAlone,
                RecordShowsItsCommit, ResyncRecordsItsBuild, Idle, At, Incremental, Patching
  <1>8. CoveredStays /\ CaughtUp
    BY DEF CoveredStays, CaughtUp
  <1> QED
    BY <1>4, <1>5, <1>6, <1>7, <1>8 DEF MirrorInv

\* On a branch that was not rewritten a push is compared with its own base.
LEMMA LinearChanged ==
  ASSUME MirrorInv, Linear, NEW p \in sent
  PROVE  Changed(p.before, p.after) = {q \in Paths : tree[p.before][q] # tree[p.after][q]}
  <1> DEFINE a == p.before
             b == p.after
             Common == ancestors[a] \cap ancestors[b]
  <1>1. a \in Common /\ \A d \in Common : d <= a
    BY DEF MirrorInv, GitOK, Linear, TypeOK, Commits
  <1>2. \A c \in Common : c \in Nat
    BY DEF MirrorInv, GitOK, TypeOK, Commits
  <1>3. \A c \in Common : (\A d \in Common : d <= c) => c = a
    BY <1>1, <1>2
  <1>4. MergeBase(a, b) = a
    BY <1>1, <1>3 DEF MergeBase
  <1> QED
    BY <1>4 DEF Changed

---------------------------------------------------------------------------
\* Steps of the branch.

\* Announce only takes the handlers' freshness.
LEMMA AnnounceTypes ==
  ASSUME TypeOK, NEW c \in Commits, Announce(c)
  PROVE  /\ handler' \in [Handlers -> HandlerState]
         /\ \A h \in Handlers : handler'[h].step = "full" => handler'[h].after # NoCommit
         /\ sent' \subseteq Pushes
  <1>1. ASSUME NEW h \in Handlers
        PROVE  /\ [handler[h] EXCEPT !.fresh = FALSE] \in HandlerState
               /\ [handler[h] EXCEPT !.fresh = FALSE].step = handler[h].step
               /\ [handler[h] EXCEPT !.fresh = FALSE].after = handler[h].after
    <2>1. handler[h] \in HandlerState
      BY DEF TypeOK
    <2> QED
      BY <2>1 DEF HandlerState
  <1>2. handler' = [h \in Handlers |-> [handler[h] EXCEPT !.fresh = FALSE]]
    BY DEF Announce
  <1>3. [before |-> tip, after |-> c] \in Pushes
    BY DEF TypeOK, Pushes
  <1>4. \A h \in Handlers : handler'[h] = [handler[h] EXCEPT !.fresh = FALSE]
    BY <1>2
  <1>5. handler' \in [Handlers -> HandlerState]
    BY <1>1, <1>2
  <1>6. \A h \in Handlers : handler'[h].step = "full" => handler'[h].after # NoCommit
    BY <1>1, <1>4 DEF TypeOK
  <1>7. sent' \subseteq Pushes
    BY <1>3 DEF TypeOK, Announce
  <1> QED
    BY <1>5, <1>6, <1>7

LEMMA AnnounceKeeps ==
  ASSUME MirrorInv, NEW c \in Commits, Announce(c), TypeOK',
         c \in 1..last', c # tip, last <= last',
         \A d \in 1..last : tree'[d] = tree[d] /\ ancestors'[d] = ancestors[d],
         \A d \in 1..last' : d \in ancestors'[d] /\ ancestors'[d] \subseteq 1..d
  PROVE  MirrorInv'
  <1> USE DEF MirrorInv
  <1>1. /\ tip' = c
        /\ sent' = sent \cup {[before |-> tip, after |-> c]}
        /\ \A h \in Handlers : handler'[h] = [handler[h] EXCEPT !.fresh = FALSE]
        /\ covered' = FALSE
        /\ UNCHANGED mirror
    BY DEF Announce
  <1>2. /\ last \in Nat /\ last' \in Nat /\ tip \in 1..last
        /\ \A d \in 1..last : d \in Commits /\ d \in 1..last'
    BY DEF TypeOK, GitOK, Commits
  <1>3. Linear' => Linear /\ tip \in ancestors'[c]
    <2> SUFFICES ASSUME Linear' PROVE Linear /\ tip \in ancestors'[c]
      OBVIOUS
    <2>1. \A p \in sent' : p.before \in ancestors'[p.after]
      BY DEF Linear
    <2>2. tip \in ancestors'[c]
      <3> DEFINE p == [before |-> tip, after |-> c]
      <3>1. p \in sent' /\ p.before = tip /\ p.after = c
        BY <1>1
      <3> HIDE DEF p
      <3> QED
        BY <2>1, <3>1
    <2>3. ASSUME NEW p \in sent PROVE p.before \in ancestors[p.after]
      BY <1>1, <2>1 DEF GitOK
    <2> QED
      BY <2>2, <2>3 DEF Linear
  <1>4. GitOK'
    <2>1. Linear' => tip < c
      BY <1>1, <1>2, <1>3
    <2>2. ASSUME NEW p \in sent' PROVE p.before \in 1..last' /\ p.after \in 1..last' /\ p.before # p.after
                                       /\ (Linear' => p.before < p.after /\ p.after <= c)
      <3>1. CASE p \in sent
        BY <1>1, <1>2, <1>3, <2>1, <3>1 DEF GitOK
      <3>2. CASE p = [before |-> tip, after |-> c]
        BY <1>2, <2>1, <3>2
      <3> QED
        BY <1>1, <3>1, <3>2
    <2> QED
      BY <1>1, <2>2 DEF GitOK
  <1>5. SnapshotsOK' /\ HeadOK' /\ NothingInvented' /\ ContentMirrored'
    BY <1>1, <1>2, <1>3
    DEF mirror, SnapshotsOK, HeadOK, NothingInvented, ContentMirrored
  <1>6. \A h \in Handlers :
          /\ handler'[h].step = handler[h].step /\ handler'[h].kind = handler[h].kind
          /\ handler'[h].before = handler[h].before /\ handler'[h].after = handler[h].after
          /\ handler'[h].base = handler[h].base /\ handler'[h].paths = handler[h].paths
          /\ handler'[h].snapshot = handler[h].snapshot
          /\ handler'[h].lone = handler[h].lone /\ ~handler'[h].fresh
    BY <1>1 DEF TypeOK, HandlerState
  <1>7. WorksOnCommits'
    BY <1>1, <1>2, <1>6 DEF WorksOnCommits, At
  <1>8. \A h \in Handlers : handler[h].step \in Patching =>
          handler[h].before \in 1..last /\ handler[h].after \in 1..last
    BY DEF WorksOnCommits, GitOK, Incremental
  <1>9. PatchesTheBase'
    BY <1>1, <1>2, <1>3, <1>6, <1>8 DEF PatchesTheBase, Shows, mirror, At, Patching
  <1>10. FreshBuildsTip' /\ LoneIsAlone' /\ ResyncRecordsItsBuild'
    BY <1>6 DEF FreshBuildsTip, LoneIsAlone, ResyncRecordsItsBuild, At
  <1>11. CoveredStays' /\ CaughtUp'
    BY <1>1 DEF CoveredStays, CaughtUp
  <1>12. HeadShowsItsCommit'
    BY <1>1, <1>2, <1>3 DEF HeadShowsItsCommit, HeadOK, Shows, mirror
  <1>13. RecordShowsItsCommit'
    <2> SUFFICES ASSUME NEW h \in Handlers, At(h, "record"), Linear' \/ handler[h].kind = "resync"
                 PROVE  Shows(handler[h].snapshot, handler[h].after)'
      BY <1>6 DEF RecordShowsItsCommit, At
    <2>1. Shows(handler[h].snapshot, handler[h].after) /\ handler[h].after \in 1..last
      BY <1>3 DEF RecordShowsItsCommit, WorksOnCommits, At
    <2> QED
      BY <1>1, <1>6, <2>1 DEF Shows, mirror
  <1> QED
    BY <1>4, <1>5, <1>7, <1>9, <1>10, <1>11, <1>12, <1>13

LEMMA CommitKeeps ==
  ASSUME MirrorInv, NEW c \in 1..last, Commit(c)
  PROVE  MirrorInv'
  <1> USE DEF MirrorInv
  <1>1. PICK t \in Trees : tree' = [tree EXCEPT ![last + 1] = t]
    BY DEF Commit
  <1>2. /\ last < MaxCommits /\ last' = last + 1
        /\ ancestors' = [ancestors EXCEPT ![last + 1] = ancestors[c] \cup {last + 1}]
        /\ Announce(last + 1)
    BY DEF Commit
  <1>3. /\ last \in Nat /\ last + 1 \in Commits /\ last + 1 # tip
        /\ \A d \in 1..last : d \in Commits
    BY <1>2 DEF TypeOK, GitOK, Commits
  <1>4. \A d \in Commits : /\ tree'[d] = IF d = last + 1 THEN t ELSE tree[d]
                           /\ ancestors'[d] = IF d = last + 1 THEN ancestors[c] \cup {last + 1}
                                              ELSE ancestors[d]
    BY <1>1, <1>2 DEF TypeOK
  <1>5. \A d \in 1..last' : d \in ancestors'[d] /\ ancestors'[d] \subseteq 1..d
    <2>1. ASSUME NEW d \in 1..last PROVE d \in ancestors'[d] /\ ancestors'[d] \subseteq 1..d
      BY <1>3, <1>4 DEF GitOK
    <2>2. last + 1 \in ancestors'[last + 1] /\ ancestors'[last + 1] \subseteq 1..(last + 1)
      BY <1>3, <1>4 DEF GitOK
    <2> QED
      BY <1>2, <1>3, <2>1, <2>2
  <1>6. TypeOK'
    <2>1. tree' \in [Commits -> Trees]
      BY <1>1 DEF TypeOK
    <2>2. ancestors' \in [Commits -> SUBSET Commits]
      BY <1>2, <1>3 DEF TypeOK
    <2> QED
      BY <1>2, <1>3, <2>1, <2>2, AnnounceTypes DEF Announce, TypeOK, mirror
  <1> QED
    BY <1>2, <1>3, <1>4, <1>5, <1>6, AnnounceKeeps

LEMMA BranchKeeps == ASSUME MirrorInv, Push \/ ForcePush PROVE MirrorInv'
  <1> USE DEF MirrorInv
  <1>1. tip \in 1..last
    BY DEF TypeOK, GitOK, Commits
  <1>2. CASE \E c \in 1..last : Commit(c)
    BY <1>2, CommitKeeps
  <1>3. ASSUME NEW c \in (1..last) \ {tip}, Announce(c), UNCHANGED <<last, tree, ancestors>>
        PROVE  MirrorInv'
    <2>1. c \in Commits
      BY DEF TypeOK, Commits
    <2>2. TypeOK'
      BY <1>3, <2>1, AnnounceTypes DEF Announce, TypeOK, mirror
    <2>3. /\ c \in 1..last' /\ c # tip /\ last <= last'
          /\ \A d \in 1..last : tree'[d] = tree[d] /\ ancestors'[d] = ancestors[d]
      BY <1>3 DEF TypeOK, Commits
    <2>4. \A d \in 1..last' : d \in ancestors'[d] /\ ancestors'[d] \subseteq 1..d
      BY <1>3 DEF GitOK
    <2> QED
      BY <1>3, <2>1, <2>2, <2>3, <2>4, AnnounceKeeps
  <1> QED
    BY <1>1, <1>2, <1>3 DEF Push, ForcePush

---------------------------------------------------------------------------
\* Steps of a handler that leave the mirror alone.

\* What a handler may come to know.
MayBe(s) ==
  /\ (s.step = "pointers" /\ s.kind = "push") \/ s.step \in Incremental =>
       s.kind = "push" /\ [before |-> s.before, after |-> s.after] \in sent
  /\ s.step \in {"full", "record"} => s.after \in 1..last
  /\ s.step = "record" /\ s.kind = "resync" => s.snapshot = s.after
  /\ s.fresh => ((s.step = "pointers" /\ s.kind = "push") \/ s.step \in Incremental
                   \/ s.step = "full" => s.after = tip)
  /\ Linear /\ covered => s.step \notin Patching /\ (s.step = "full" => s.after = tip)
  /\ Linear =>
       /\ s.step \in Patching => Shows(s.base, s.before)
       /\ s.step = "advance" => tree[s.before] = tree[s.after]
       /\ s.step = "patch" => s.paths = {p \in Paths : tree[s.before][p] # Absent}
  /\ s.step = "record" /\ (Linear \/ s.kind = "resync") => Shows(s.snapshot, s.after)

LEMMA LocalKeeps ==
  ASSUME MirrorInv, NEW h \in Handlers, NEW s \in HandlerState, MayBe(s),
         handler' = [handler EXCEPT ![h] = s],
         s.lone => handler[h].lone,
         s.step # "idle" => ~At(h, "idle"),
         UNCHANGED <<git, mirror, covered>>, stamped' \in 0..MaxCommits
  PROVE  MirrorInv'
  <1> USE DEF MirrorInv
  <1>1. \A g \in Handlers : handler'[g] = IF g = h THEN s ELSE handler[g]
    BY DEF TypeOK
  <1>2. /\ last' = last /\ tree' = tree /\ ancestors' = ancestors /\ tip' = tip
        /\ sent' = sent /\ head' = head /\ snapshots' = snapshots /\ built' = built
        /\ blobs' = blobs /\ covered' = covered
    BY DEF git, mirror
  <1>3. Linear' <=> Linear
    BY <1>2 DEF Linear
  <1>4. TypeOK'
    <2>1. handler' \in [Handlers -> HandlerState]
      BY DEF TypeOK
    <2>2. \A g \in Handlers : handler'[g].step = "full" => handler'[g].after # NoCommit
      BY <1>1 DEF TypeOK, MayBe, NoCommit
    <2> QED
      BY <1>2, <2>1, <2>2 DEF TypeOK
  <1>5. GitOK' /\ SnapshotsOK' /\ HeadOK' /\ HeadShowsItsCommit' /\ NothingInvented'
        /\ ContentMirrored' /\ CaughtUp'
    BY <1>2, <1>3
    DEF GitOK, SnapshotsOK, HeadOK, HeadShowsItsCommit, NothingInvented, ContentMirrored,
        CaughtUp, Shows
  <1>6. WorksOnCommits' /\ ResyncRecordsItsBuild' /\ FreshBuildsTip'
    BY <1>1, <1>2 DEF WorksOnCommits, ResyncRecordsItsBuild, FreshBuildsTip, MayBe, At
  <1>7. PatchesTheBase'
    BY <1>1, <1>2, <1>3 DEF PatchesTheBase, MayBe, Shows, At
  <1>8. LoneIsAlone'
    BY <1>1 DEF LoneIsAlone, At
  <1>9. CoveredStays'
    BY <1>1, <1>2, <1>3 DEF CoveredStays, MayBe, At
  <1>10. RecordShowsItsCommit'
    BY <1>1, <1>2, <1>3 DEF RecordShowsItsCommit, MayBe, Shows, At
  <1> QED
    BY <1>4, <1>5, <1>6, <1>7, <1>8, <1>9, <1>10

LEMMA IdleMayBe == Idle \in HandlerState /\ MayBe(Idle) /\ ~Idle.lone /\ Idle.step = "idle"
  BY DEF Idle, HandlerState, Steps, MayBe, Incremental, Patching, NoCommit

\* What the invariant says of the handler's own state.
LEMMA IsWhatItMayBe ==
  ASSUME MirrorInv, NEW h \in Handlers
  PROVE  handler[h] \in HandlerState /\ MayBe(handler[h])
  BY DEF MirrorInv, TypeOK, MayBe, WorksOnCommits, PatchesTheBase, ResyncRecordsItsBuild,
         FreshBuildsTip, CoveredStays, RecordShowsItsCommit, At

LEMMA AbandonKeeps == ASSUME MirrorInv, NEW h \in Handlers, Abandon(h) PROVE MirrorInv'
  BY IdleMayBe, LocalKeeps DEF Abandon, MirrorInv, TypeOK

LEMMA StartKeeps ==
  ASSUME MirrorInv, NEW h \in Handlers, NEW s \in HandlerState, MayBe(s), Start(h, s),
         s.step \in {"pointers", "resolve"}
  PROVE  MirrorInv'
  <1> USE DEF MirrorInv
  <1> DEFINE alone == \A g \in Handlers \ {h} : At(g, "idle")
  <1>1. /\ At(h, "idle") /\ UNCHANGED <<git, mirror, stamped>>
        /\ covered' = (covered /\ alone)
        /\ handler' = [g \in Handlers |-> IF g = h THEN [s EXCEPT !.lone = alone]
                                         ELSE [handler[g] EXCEPT !.lone = FALSE]]
    BY DEF Start
  <1> HIDE DEF alone
  <1>2. /\ last' = last /\ tree' = tree /\ ancestors' = ancestors /\ tip' = tip
        /\ sent' = sent /\ head' = head /\ snapshots' = snapshots /\ built' = built
        /\ blobs' = blobs /\ stamped' = stamped /\ (covered' => covered)
        /\ covered' \in BOOLEAN
    BY <1>1 DEF git, mirror, TypeOK
  <1>3. Linear' <=> Linear
    BY <1>2 DEF Linear
  <1>4. ASSUME NEW g \in Handlers, g # h
        PROVE  /\ handler'[g] \in HandlerState /\ ~handler'[g].lone
               /\ handler'[g].step = handler[g].step /\ handler'[g].kind = handler[g].kind
               /\ handler'[g].before = handler[g].before /\ handler'[g].after = handler[g].after
               /\ handler'[g].base = handler[g].base /\ handler'[g].paths = handler[g].paths
               /\ handler'[g].snapshot = handler[g].snapshot
               /\ handler'[g].fresh = handler[g].fresh
    <2>1. handler'[g] = [handler[g] EXCEPT !.lone = FALSE] /\ handler[g] \in HandlerState
      BY <1>1, <1>4 DEF TypeOK
    <2> QED
      BY <2>1 DEF HandlerState
  <1>5. /\ handler'[h] \in HandlerState /\ handler'[h].lone = alone
        /\ handler'[h].step = s.step /\ handler'[h].kind = s.kind
        /\ handler'[h].before = s.before /\ handler'[h].after = s.after
        /\ handler'[h].base = s.base /\ handler'[h].paths = s.paths
        /\ handler'[h].snapshot = s.snapshot /\ handler'[h].fresh = s.fresh
    <2>1. handler'[h] = [s EXCEPT !.lone = alone] /\ alone \in BOOLEAN
      BY <1>1 DEF alone
    <2> QED
      BY <2>1 DEF HandlerState
  <1>6. TypeOK'
    <2>1. handler' \in [Handlers -> HandlerState]
      BY <1>1, <1>4, <1>5
    <2>2. \A g \in Handlers : handler'[g].step = "full" => handler'[g].after # NoCommit
      BY <1>4, <1>5 DEF TypeOK
    <2> QED
      BY <1>2, <2>1, <2>2 DEF TypeOK
  <1>7. GitOK' /\ SnapshotsOK' /\ HeadOK' /\ HeadShowsItsCommit' /\ NothingInvented'
        /\ ContentMirrored' /\ CaughtUp'
    BY <1>2, <1>3
    DEF GitOK, SnapshotsOK, HeadOK, HeadShowsItsCommit, NothingInvented, ContentMirrored,
        CaughtUp, Shows
  <1>8. WorksOnCommits' /\ ResyncRecordsItsBuild' /\ FreshBuildsTip'
    BY <1>2, <1>4, <1>5
    DEF WorksOnCommits, ResyncRecordsItsBuild, FreshBuildsTip, MayBe, At
  <1>9. PatchesTheBase'
    BY <1>2, <1>3, <1>4, <1>5 DEF PatchesTheBase, Patching, Shows, At
  <1>10. LoneIsAlone'
    <2>1. handler'[h].lone => \A g \in Handlers \ {h} : handler[g].step = "idle"
      BY <1>5 DEF At, alone
    <2> QED
      BY <1>4, <2>1 DEF LoneIsAlone, At
  <1>11. CoveredStays'
    BY <1>2, <1>3, <1>4, <1>5 DEF CoveredStays, Patching, At
  <1>12. RecordShowsItsCommit'
    BY <1>2, <1>3, <1>4, <1>5 DEF RecordShowsItsCommit, Shows, At
  <1> QED
    BY <1>6, <1>7, <1>8, <1>9, <1>10, <1>11, <1>12

LEMMA StartsKeep ==
  ASSUME MirrorInv, NEW h \in Handlers, DeliverPush(h) \/ StartResync(h)
  PROVE  MirrorInv'
  <1>1. ASSUME NEW p \in sent,
               Start(h, [Idle EXCEPT !.step = "pointers", !.before = p.before,
                                     !.after = p.after, !.fresh = (p.after = tip)])
        PROVE  MirrorInv'
    <2> DEFINE s == [Idle EXCEPT !.step = "pointers", !.before = p.before,
                                 !.after = p.after, !.fresh = (p.after = tip)]
    <2>1. p = [before |-> p.before, after |-> p.after] /\ p.before \in Commits /\ p.after \in Commits
      BY DEF MirrorInv, TypeOK, Pushes
    <2>2. s \in HandlerState
      <3>1. p.before \in 0..MaxCommits /\ p.after \in 0..MaxCommits /\ "pointers" \in Steps /\ (p.after = tip) \in BOOLEAN
        BY <2>1 DEF Commits, Steps
      <3> QED
        BY <3>1, IdleMayBe DEF HandlerState
    <2>3. MayBe(s)
      BY <2>1 DEF Idle, MayBe, Patching, Incremental
    <2>4. s.step = "pointers"
      BY DEF Idle
    <2> QED
      BY <1>1, <2>2, <2>3, <2>4, StartKeeps
  <1>2. CASE StartResync(h)
    <2> DEFINE s == [Idle EXCEPT !.step = "resolve", !.kind = "resync", !.fresh = TRUE]
    <2>1. s \in HandlerState /\ s.step = "resolve"
      <3>1. "resolve" \in Steps
        BY DEF Steps
      <3> QED
        BY <3>1, IdleMayBe DEF HandlerState
    <2>2. MayBe(s)
      BY <2>1 DEF MayBe, Patching, Incremental
    <2> QED
      BY <1>2, <2>1, <2>2, StartKeeps DEF StartResync
  <1> QED
    BY <1>1, <1>2 DEF DeliverPush

---------------------------------------------------------------------------
\* The steps of a handler that read.

LEMMA ReadsKeep ==
  ASSUME MirrorInv, NEW h \in Handlers,
         \/ AdvancePointers(h) \/ LoadHead(h) \/ Compare(h) \/ ReadParent(h)
         \/ Resolve(h) \/ RecordSynced(h)
  PROVE  MirrorInv'
  <1> DEFINE k == handler[h]
  <1>1. k \in HandlerState /\ MayBe(k) /\ tip \in 1..last /\ tip \in Commits
    BY IsWhatItMayBe DEF MirrorInv, TypeOK, GitOK, Commits
  <1>2. \A p \in sent : p = [before |-> p.before, after |-> p.after]
                          /\ p.before \in 1..last /\ p.after \in 1..last
    BY DEF MirrorInv, TypeOK, Pushes, GitOK
  <1>3. stamped \in 0..MaxCommits
    BY DEF MirrorInv, TypeOK
  <1>4. /\ head.snapshot \in 0..MaxCommits
        /\ Linear /\ head.commit # NoCommit => Shows(head.snapshot, head.commit)
        /\ Linear /\ covered => head.commit = tip
    BY DEF MirrorInv, TypeOK, HeadShowsItsCommit, CaughtUp
  <1>5. Linear => \A p \in sent : p.before # tip
    BY <1>2 DEF MirrorInv, GitOK, TypeOK, Commits
  <1>6. CASE AdvancePointers(h)
    <2> DEFINE s == IF k.kind = "push" THEN [k EXCEPT !.step = "load"] ELSE Idle
    <2>1. k.step = "pointers" /\ handler' = [handler EXCEPT ![h] = s]
          /\ stamped' = k.after /\ UNCHANGED <<git, mirror, covered>>
      BY <1>6 DEF AdvancePointers, At
    <2>2. s \in HandlerState /\ MayBe(s) /\ (s.lone => k.lone)
      BY <1>1, <2>1, IdleMayBe DEF HandlerState, Steps, MayBe, Patching, Incremental
    <2> QED
      BY <1>1, <2>1, <2>2, LocalKeeps DEF At, HandlerState
  <1>7. CASE LoadHead(h)
    <2> DEFINE s == IF head.commit = NoCommit THEN [k EXCEPT !.step = "resolve"]
                    ELSE IF head.commit = k.after
                      THEN [k EXCEPT !.step = "record", !.snapshot = head.snapshot]
                    ELSE IF head.commit # k.before THEN [k EXCEPT !.step = "resolve"]
                    ELSE [k EXCEPT !.step = "compare", !.base = head.snapshot]
    <2>1. k.step = "load" /\ handler' = [handler EXCEPT ![h] = s]
          /\ UNCHANGED <<git, mirror, stamped, covered>>
      BY <1>7 DEF LoadHead, At
    <2>2. s \in HandlerState /\ s.lone = k.lone
      BY <1>1, <1>4 DEF HandlerState, Steps
    <2>3. k.kind = "push" /\ [before |-> k.before, after |-> k.after] \in sent
          /\ k.after \in 1..last /\ (k.fresh => k.after = tip)
      BY <1>1, <1>2, <2>1 DEF MayBe, Incremental
    <2>4. MayBe(s)
      <3>1. CASE s = [k EXCEPT !.step = "resolve"]
        BY <1>1, <3>1 DEF HandlerState, MayBe, Patching, Incremental
      <3>2. CASE head.commit # NoCommit /\ head.commit = k.after
                 /\ s = [k EXCEPT !.step = "record", !.snapshot = head.snapshot]
        BY <1>1, <1>4, <2>3, <3>2 DEF HandlerState, MayBe, Patching, Incremental
      <3>3. CASE head.commit # NoCommit /\ head.commit = k.before
                 /\ s = [k EXCEPT !.step = "compare", !.base = head.snapshot]
        <4>1. ~(Linear /\ covered)
          BY <1>4, <1>5, <2>3, <3>3
        <4> QED
          BY <1>1, <1>4, <2>3, <3>3, <4>1 DEF HandlerState, MayBe, Patching, Incremental
      <3> QED
        BY <3>1, <3>2, <3>3
    <2> QED
      BY <1>3, <2>1, <2>2, <2>4, LocalKeeps DEF At
  <1>8. CASE Compare(h)
    <2> DEFINE to == IF Changed(k.before, k.after) = {} THEN "advance" ELSE "parent"
               s == [k EXCEPT !.step = to]
    <2>1. k.step = "compare" /\ handler' = [handler EXCEPT ![h] = s]
          /\ UNCHANGED <<git, mirror, stamped, covered>>
      BY <1>8 DEF Compare, Go, At, MirrorInv, TypeOK
    <2>2. s \in HandlerState /\ s.lone = k.lone
      BY <1>1 DEF HandlerState, Steps
    <2>3. Linear /\ to = "advance" => tree[k.before] = tree[k.after]
      <3> SUFFICES ASSUME Linear, Changed(k.before, k.after) = {}
                   PROVE  tree[k.before] = tree[k.after]
        OBVIOUS
      <3> DEFINE p == [before |-> k.before, after |-> k.after]
      <3>1. p \in sent /\ p.before = k.before /\ p.after = k.after
        BY <1>1, <2>1 DEF MayBe, Patching, Incremental
      <3> HIDE DEF p
      <3>2. \A q \in Paths : tree[k.before][q] = tree[k.after][q]
        BY <3>1, LinearChanged
      <3>3. tree[k.before] \in Trees /\ tree[k.after] \in Trees
        BY <3>1 DEF MirrorInv, TypeOK, Pushes
      <3> QED
        BY <3>2, <3>3 DEF Trees
    <2>4. MayBe(s)
      BY <1>1, <2>1, <2>3 DEF HandlerState, MayBe, Patching, Incremental
    <2> QED
      BY <1>3, <2>1, <2>2, <2>4, LocalKeeps DEF At
  <1>9. CASE ReadParent(h)
    <2> DEFINE paths == {p \in Paths : snapshots[k.base][p] # Absent}
               s == [k EXCEPT !.step = "patch", !.paths = paths]
    <2>1. k.step = "parent" /\ handler' = [handler EXCEPT ![h] = s]
          /\ UNCHANGED <<git, mirror, stamped, covered>>
      BY <1>9 DEF ReadParent, At, MirrorInv, TypeOK
    <2>2. s \in HandlerState /\ s.lone = k.lone
      BY <1>1 DEF HandlerState, Steps
    <2>3. Linear => paths = {p \in Paths : tree[k.before][p] # Absent}
      BY <1>1, <2>1 DEF MayBe, Shows, Patching
    <2>4. MayBe(s)
      BY <1>1, <2>1, <2>3 DEF HandlerState, MayBe, Patching, Incremental
    <2> QED
      BY <1>3, <2>1, <2>2, <2>4, LocalKeeps DEF At
  <1>10. CASE Resolve(h)
    <2> DEFINE s == [k EXCEPT !.step = "full", !.after = tip]
    <2>1. k.step = "resolve" /\ handler' = [handler EXCEPT ![h] = s]
          /\ UNCHANGED <<git, mirror, stamped, covered>>
      BY <1>10 DEF Resolve, At, MirrorInv, TypeOK
    <2>2. s \in HandlerState /\ s.lone = k.lone /\ s.step = "full" /\ s.after = tip
      <3>1. tip \in 0..MaxCommits /\ "full" \in Steps
        BY <1>1 DEF Commits, Steps
      <3> QED
        BY <1>1, <3>1 DEF HandlerState
    <2>3. MayBe(s)
      BY <1>1, <2>2 DEF MayBe, Patching, Incremental
    <2> QED
      BY <1>3, <2>1, <2>2, <2>3, LocalKeeps DEF At
  <1>11. CASE RecordSynced(h)
    <2> DEFINE s == IF k.kind = "push" THEN Idle ELSE [k EXCEPT !.step = "pointers"]
    <2>1. k.step = "record" /\ handler' = [handler EXCEPT ![h] = s]
          /\ UNCHANGED <<git, mirror, stamped, covered>>
      BY <1>11 DEF RecordSynced, AfterSync, At
    <2>2. s \in HandlerState /\ (s.lone => k.lone) /\ MayBe(s)
      BY <1>1, <2>1, IdleMayBe DEF HandlerState, Steps, MayBe, Patching, Incremental
    <2> QED
      BY <1>3, <2>1, <2>2, LocalKeeps DEF At
  <1> QED
    BY <1>6, <1>7, <1>8, <1>9, <1>10, <1>11

---------------------------------------------------------------------------
\* The steps of a handler that write.

LEMMA AdvanceHeadKeeps ==
  ASSUME MirrorInv, NEW h \in Handlers, AdvanceHead(h)
  PROVE  MirrorInv'
  <1> USE DEF MirrorInv
  <1> DEFINE k == handler[h]
             s == [k EXCEPT !.step = "record", !.snapshot = k.base]
  <1>1. /\ k.step = "advance" /\ head' = [commit |-> k.after, snapshot |-> k.base]
        /\ handler' = [handler EXCEPT ![h] = s]
        /\ covered' = (covered \/ (k.fresh /\ k.lone))
        /\ UNCHANGED <<last, tree, ancestors, tip, sent, snapshots, built, blobs, stamped>>
    BY DEF AdvanceHead, Written, At, git, TypeOK
  <1>2. k \in HandlerState /\ MayBe(k)
    BY IsWhatItMayBe
  <1>3. /\ s \in HandlerState /\ s.step = "record" /\ s.kind = "push" /\ s.after = k.after
        /\ s.snapshot = k.base /\ s.lone = k.lone /\ s.fresh = k.fresh
        /\ k.after \in 1..last
        /\ Linear => Shows(k.base, k.after) /\ ~covered
        /\ k.fresh => k.after = tip
    <2>1. [before |-> k.before, after |-> k.after] \in sent
      BY <1>1, <1>2 DEF MayBe, Patching, Incremental
    <2>2. k.after \in 1..last
      BY <2>1 DEF GitOK
    <2>3. s \in HandlerState /\ s.step = "record" /\ s.after = k.after
          /\ s.snapshot = k.base /\ s.lone = k.lone /\ s.fresh = k.fresh /\ s.kind = k.kind
      BY <1>2 DEF HandlerState, Steps
    <2>4. k.kind = "push" /\ (Linear => Shows(k.base, k.after) /\ ~covered)
          /\ (k.fresh => k.after = tip)
      BY <1>1, <1>2 DEF MayBe, Patching, Incremental, Shows
    <2> QED
      BY <2>2, <2>3, <2>4
  <1> HIDE DEF s
  <1>4. \A g \in Handlers : handler'[g] = IF g = h THEN s ELSE handler[g]
    BY <1>1 DEF TypeOK
  <1>5. Linear' <=> Linear
    BY <1>1 DEF Linear
  <1>6. TypeOK'
    <2>1. handler' \in [Handlers -> HandlerState]
      BY <1>1, <1>3 DEF TypeOK
    <2>2. head' \in [commit : 0..MaxCommits, snapshot : 0..MaxCommits]
      BY <1>1, <1>2 DEF HandlerState
    <2>3. \A g \in Handlers : handler'[g].step = "full" => handler'[g].after # NoCommit
      BY <1>3, <1>4 DEF TypeOK
    <2>4. covered' \in BOOLEAN
      BY <1>1
    <2> QED
      BY <1>1, <2>1, <2>2, <2>3, <2>4 DEF TypeOK
  <1>7. GitOK' /\ SnapshotsOK' /\ NothingInvented' /\ ContentMirrored'
    BY <1>1, <1>5 DEF GitOK, SnapshotsOK, NothingInvented, ContentMirrored
  <1>8. HeadOK' /\ HeadShowsItsCommit'
    BY <1>1, <1>3, <1>5 DEF HeadOK, HeadShowsItsCommit, Shows
  <1>9. WorksOnCommits' /\ ResyncRecordsItsBuild' /\ FreshBuildsTip'
    BY <1>1, <1>3, <1>4
    DEF WorksOnCommits, ResyncRecordsItsBuild, FreshBuildsTip, At, Patching, Incremental
  <1>10. PatchesTheBase' /\ RecordShowsItsCommit'
    BY <1>1, <1>3, <1>4, <1>5
    DEF PatchesTheBase, RecordShowsItsCommit, Shows, At, Patching
  <1>11. LoneIsAlone'
    BY <1>1, <1>3, <1>4 DEF LoneIsAlone, At
  <1>12. CoveredStays' /\ CaughtUp'
    <2> SUFFICES ASSUME Linear, covered' PROVE CoveredStays' /\ CaughtUp'
      BY <1>5 DEF CoveredStays, CaughtUp
    <2>1. k.fresh /\ k.lone /\ k.after = tip
      BY <1>1, <1>3
    <2>2. \A g \in Handlers : handler'[g].step \in {"record", "idle"}
      BY <1>3, <1>4, <2>1 DEF LoneIsAlone, At
    <2> QED
      BY <1>1, <2>1, <2>2 DEF CoveredStays, CaughtUp, At, Patching
  <1> QED
    BY <1>6, <1>7, <1>8, <1>9, <1>10, <1>11, <1>12

\* A build of c by h: complete if it has all paths of c, mirrored if what it does not
\* fetch is there, and of the tip if it covers the tip.
LEMMA CreateKeeps ==
  ASSUME MirrorInv, NEW h \in Handlers, NEW c \in 1..last,
         NEW paths \in SUBSET Paths, NEW fetched \in SUBSET Paths,
         CreateSnapshot(h, c, paths, fetched), handler[h].step # "idle",
         Linear \/ handler[h].kind = "resync" =>
           \A p \in Paths : tree[c][p] # Absent => p \in paths,
         Linear => \A p \in paths \ fetched : tree[c][p] \in {Absent} \cup Large \cup blobs,
         handler[h].fresh => c = tip,
         Linear /\ covered => c = tip
  PROVE  MirrorInv'
  <1> USE DEF MirrorInv
  <1> DEFINE k == handler[h]
             s == [k EXCEPT !.step = "record", !.after = c, !.snapshot = c]
             to == handler'[h]
  <1>1. /\ snapshots' = [snapshots EXCEPT ![c] =
              [p \in Paths |-> IF @[p] = Absent /\ p \in paths THEN tree[c][p] ELSE @[p]]]
        /\ built' = built \cup {c}
        /\ blobs' = blobs \cup ({tree[c][p] : p \in fetched} \ (Large \cup {Absent}))
        /\ head' = [commit |-> c, snapshot |-> c]
        /\ handler' = [handler EXCEPT ![h] = s] \/ handler' = [handler EXCEPT ![h] = Idle]
        /\ covered' = (covered \/ (k.fresh /\ k.lone))
        /\ UNCHANGED <<last, tree, ancestors, tip, sent, stamped>>
    BY DEF CreateSnapshot, Written, At, git, TypeOK
  <1>2. c \in Commits /\ tree[c] \in Trees /\ \A d \in Commits : snapshots[d] \in Trees
    BY DEF TypeOK, GitOK, Commits
  <1>3. k \in HandlerState
    BY DEF TypeOK
  <1>4. /\ to \in HandlerState /\ to.step \in {"record", "idle"}
        /\ to.step = "record" => to.kind = k.kind /\ to.after = c /\ to.snapshot = c
        /\ to.fresh => k.fresh
        /\ to.lone => k.lone
        /\ \A g \in Handlers \ {h} : handler'[g] = handler[g]
    <2>1. CASE handler' = [handler EXCEPT ![h] = s]
      <3>1. to = s /\ \A g \in Handlers \ {h} : handler'[g] = handler[g]
        BY <2>1 DEF TypeOK
      <3>2. c \in 0..MaxCommits
        BY <1>2 DEF Commits
      <3> QED
        BY <1>3, <3>1, <3>2 DEF HandlerState, Steps
    <2>2. CASE handler' = [handler EXCEPT ![h] = Idle]
      <3>1. to = Idle /\ \A g \in Handlers \ {h} : handler'[g] = handler[g]
        BY <2>2 DEF TypeOK
      <3> QED
        BY <3>1, IdleMayBe DEF Idle
    <2> QED
      BY <1>1, <2>1, <2>2
  <1> HIDE DEF to
  <1>5. Linear' <=> Linear
    BY <1>1 DEF Linear
  <1>6. /\ \A d \in Commits \ {c} : snapshots'[d] = snapshots[d]
        /\ snapshots'[c] = [p \in Paths |-> IF snapshots[c][p] = Absent /\ p \in paths
                                            THEN tree[c][p] ELSE snapshots[c][p]]
    BY <1>1, <1>2 DEF TypeOK
  <1>7. \A p \in Paths : snapshots[c][p] \in {Absent, tree[c][p]}
    BY <1>2 DEF SnapshotsOK, NothingInvented
  <1>8. \A p \in Paths : snapshots'[c][p] \in {Absent, tree[c][p]}
    BY <1>6, <1>7
  <1>9. snapshots'[c] \in Trees
    BY <1>2, <1>6 DEF Trees
  <1>10. snapshots[c] = tree[c] => snapshots'[c] = tree[c]
    <2> SUFFICES ASSUME snapshots[c] = tree[c] PROVE snapshots'[c] = tree[c]
      OBVIOUS
    <2>1. \A p \in Paths : snapshots'[c][p] = tree[c][p]
      BY <1>6
    <2> QED
      BY <1>2, <1>9, <2>1 DEF Trees
  <1>11. Linear \/ k.kind = "resync" => snapshots'[c] = tree[c]
    <2> SUFFICES ASSUME Linear \/ k.kind = "resync" PROVE snapshots'[c] = tree[c]
      OBVIOUS
    <2>1. \A p \in Paths : snapshots'[c][p] = tree[c][p]
      BY <1>6, <1>7
    <2> QED
      BY <1>2, <1>9, <2>1 DEF Trees
  <1>12. TypeOK'
    <2>1. handler' \in [Handlers -> HandlerState]
      <3>1. \A g \in Handlers : handler'[g] \in HandlerState
        BY <1>4 DEF TypeOK, to
      <3>2. handler' = [g \in Handlers |-> handler'[g]]
        BY <1>1 DEF TypeOK
      <3> QED
        BY <3>1, <3>2
    <2>2. head' \in [commit : 0..MaxCommits, snapshot : 0..MaxCommits]
      BY <1>1, <1>2 DEF Commits
    <2>3. \A g \in Handlers : handler'[g].step = "full" => handler'[g].after # NoCommit
      BY <1>4 DEF TypeOK, to
    <2>4. snapshots' \in [Commits -> Trees]
      BY <1>1, <1>2, <1>6, <1>9 DEF TypeOK
    <2>5. blobs' \subseteq Contents
      BY <1>1, <1>2 DEF TypeOK, Trees
    <2>6. covered' \in BOOLEAN
      BY <1>1
    <2> QED
      BY <1>1, <1>2, <2>1, <2>2, <2>3, <2>4, <2>5, <2>6 DEF TypeOK
  <1>13. GitOK'
    BY <1>1, <1>5 DEF GitOK
  <1>14. \A d \in built : Linear => snapshots'[d] = tree[d] /\ snapshots[d] = tree[d]
    BY <1>6, <1>10 DEF SnapshotsOK, TypeOK
  <1>15. SnapshotsOK' /\ HeadOK' /\ NothingInvented'
    <2>1. built' \subseteq 1..last'
      BY <1>1 DEF SnapshotsOK
    <2>2. Linear' => \A d \in built' : snapshots'[d] = tree'[d]
      BY <1>1, <1>5, <1>11, <1>14
    <2>3. \A d \in Commits \ built' : \A p \in Paths : snapshots'[d][p] = Absent
      BY <1>1, <1>6 DEF SnapshotsOK
    <2>4. NothingInvented'
      BY <1>1, <1>6, <1>8 DEF NothingInvented, TypeOK
    <2> QED
      BY <1>1, <2>1, <2>2, <2>3, <2>4 DEF SnapshotsOK, HeadOK
  <1>16. ContentMirrored'
    <2> SUFFICES ASSUME Linear, NEW d \in built', NEW p \in Paths
                 PROVE  snapshots'[d][p] \in {Absent} \cup Large \cup blobs'
      BY <1>5 DEF ContentMirrored
    <2>1. CASE d \in built
      <3>1. snapshots'[d][p] = snapshots[d][p]
        BY <1>14, <2>1
      <3> QED
        BY <1>1, <2>1, <3>1 DEF ContentMirrored
    <2>2. CASE d \notin built
      <3>1. d = c /\ snapshots'[c][p] = tree[c][p]
        BY <1>1, <1>11, <2>2
      <3> QED
        BY <1>1, <3>1
    <2> QED
      BY <2>1, <2>2
  <1>17. WorksOnCommits' /\ ResyncRecordsItsBuild' /\ FreshBuildsTip'
    BY <1>1, <1>4
    DEF WorksOnCommits, ResyncRecordsItsBuild, FreshBuildsTip, At, Patching, Incremental, to
  <1>18. PatchesTheBase'
    <2> SUFFICES ASSUME Linear PROVE PatchesTheBase'
      BY <1>5 DEF PatchesTheBase
    <2>1. \A b, d \in 0..MaxCommits : Shows(b, d) => Shows(b, d)'
      BY <1>1, <1>14 DEF Shows
    <2> QED
      BY <1>1, <1>4, <2>1 DEF PatchesTheBase, At, Patching, to, TypeOK, HandlerState
  <1>19. RecordShowsItsCommit'
    <2> SUFFICES ASSUME NEW g \in Handlers, handler'[g].step = "record",
                        Linear \/ handler'[g].kind = "resync"
                 PROVE  /\ handler'[g].snapshot \in built'
                        /\ snapshots'[handler'[g].snapshot] = tree[handler'[g].after]
      BY <1>1, <1>5 DEF RecordShowsItsCommit, Shows, At
    <2>1. CASE g = h
      BY <1>1, <1>4, <1>11, <2>1 DEF to
    <2>2. CASE g # h
      <3>1. handler'[g] = handler[g] /\ Shows(handler[g].snapshot, handler[g].after)
        BY <1>4, <2>2 DEF RecordShowsItsCommit, At
      <3>2. CASE Linear
        BY <1>1, <1>14, <3>1, <3>2 DEF Shows
      <3>3. CASE handler[g].kind = "resync"
        <4>1. handler[g].snapshot = handler[g].after
          BY <3>1, <3>3 DEF ResyncRecordsItsBuild, At
        <4> QED
          BY <1>1, <1>6, <1>10, <3>1, <4>1 DEF Shows, TypeOK
      <3> QED
        BY <3>1, <3>2, <3>3
    <2> QED
      BY <2>1, <2>2
  <1>20. LoneIsAlone'
    BY <1>1, <1>4 DEF LoneIsAlone, At, to
  <1>21. CoveredStays' /\ CaughtUp'
    <2> SUFFICES ASSUME Linear, covered' PROVE CoveredStays' /\ CaughtUp'
      BY <1>5 DEF CoveredStays, CaughtUp
    <2>1. c = tip
      BY <1>1
    <2>2. \A g \in Handlers \ {h} : handler[g].step \notin Patching
                                    /\ (handler[g].step = "full" => handler[g].after = tip)
      BY <1>1 DEF CoveredStays, LoneIsAlone, At, Patching
    <2> QED
      BY <1>1, <1>4, <2>1, <2>2 DEF CoveredStays, CaughtUp, At, Patching, to
  <1>22. HeadShowsItsCommit'
    BY <1>1, <1>5, <1>11 DEF HeadShowsItsCommit, Shows
  <1> QED
    BY <1>12, <1>13, <1>15, <1>16, <1>17, <1>18, <1>19, <1>20, <1>21, <1>22

LEMMA BuildsKeep ==
  ASSUME MirrorInv, NEW h \in Handlers, PatchSnapshot(h) \/ FullSnapshot(h)
  PROVE  MirrorInv'
  <1> DEFINE k == handler[h]
  <1>1. k \in HandlerState /\ MayBe(k)
    BY IsWhatItMayBe
  <1>2. CASE FullSnapshot(h)
    <2>1. k.step = "full" /\ CreateSnapshot(h, k.after, Paths, Paths)
      BY <1>2 DEF FullSnapshot, At
    <2>2. k.after \in 1..last /\ (k.fresh => k.after = tip)
          /\ (Linear /\ covered => k.after = tip)
      BY <1>1, <2>1 DEF MayBe
    <2> QED
      BY <2>1, <2>2, CreateKeeps
  <1>3. CASE PatchSnapshot(h)
    <2> DEFINE c == k.after
               changed == Changed(k.before, c)
               removed == {p \in changed : tree[c][p] = Absent}
               paths == (k.paths \cup changed) \ removed
               p0 == [before |-> k.before, after |-> k.after]
    <2>1. k.step = "patch" /\ CreateSnapshot(h, c, paths, changed \ removed)
      BY <1>3 DEF PatchSnapshot, At
    <2>2. p0 \in sent /\ (k.fresh => c = tip) /\ ~(Linear /\ covered)
      BY <1>1, <2>1 DEF MayBe, Patching, Incremental
    <2>3. p0.before = k.before /\ p0.after = k.after
      OBVIOUS
    <2>4. c \in 1..last
      BY <2>2, <2>3 DEF MirrorInv, GitOK
    <2>5. k.kind = "push"
      BY <1>1, <2>1 DEF MayBe, Patching, Incremental
    <2>6. changed \subseteq Paths /\ k.paths \subseteq Paths
      BY <1>1 DEF Changed, HandlerState
    <2>7. Linear => /\ changed = {p \in Paths : tree[k.before][p] # tree[c][p]}
                    /\ k.paths = {p \in Paths : tree[k.before][p] # Absent}
                    /\ Shows(k.base, k.before)
      <3> HIDE DEF p0
      <3>1. Linear => changed = {p \in Paths : tree[k.before][p] # tree[c][p]}
        BY <2>2, <2>3, LinearChanged
      <3> QED
        BY <1>1, <2>1, <3>1 DEF MayBe, Patching
    <2>8. Linear => \A p \in Paths : tree[c][p] # Absent => p \in paths
      BY <2>7
    <2>9. Linear => \A p \in paths \ (changed \ removed) :
                      tree[c][p] \in {Absent} \cup Large \cup blobs
      <3> SUFFICES ASSUME Linear, NEW p \in paths, p \notin changed
                   PROVE  tree[c][p] \in {Absent} \cup Large \cup blobs
        OBVIOUS
      <3>1. p \in Paths /\ tree[c][p] = snapshots[k.base][p] /\ k.base \in built
        BY <2>6, <2>7 DEF Shows
      <3> QED
        BY <3>1 DEF MirrorInv, ContentMirrored
    <2> HIDE DEF changed, removed, paths
    <2>10. paths \subseteq Paths /\ changed \ removed \subseteq Paths
      BY <2>6 DEF paths
    <2> QED
      BY <2>1, <2>2, <2>4, <2>5, <2>8, <2>9, <2>10, CreateKeeps
  <1> QED
    BY <1>2, <1>3

---------------------------------------------------------------------------
LEMMA MirrorStepInv == MirrorInv /\ [Next]_vars => MirrorInv'
  <1> SUFFICES ASSUME MirrorInv, [Next]_vars PROVE MirrorInv'
    OBVIOUS
  <1>1. CASE UNCHANGED vars
    BY <1>1
    DEF vars, git, mirror, MirrorInv, TypeOK, GitOK, SnapshotsOK, HeadOK, WorksOnCommits,
        PatchesTheBase, ResyncRecordsItsBuild, FreshBuildsTip, LoneIsAlone, CoveredStays,
        HeadShowsItsCommit, RecordShowsItsCommit, NothingInvented, ContentMirrored, CaughtUp,
        Linear, Shows, At
  <1>2. ASSUME NEW h \in Handlers, Sync(h) PROVE MirrorInv'
    BY <1>2, ReadsKeep, AdvanceHeadKeeps, BuildsKeep DEF Sync
  <1> QED
    BY <1>1, <1>2, BranchKeeps, StartsKeep, AbandonKeeps DEF Next

\* Every step keeps MirrorInv.
LEMMA MirrorInvariant == Spec => []MirrorInv
  BY MirrorInitInv, MirrorStepInv, PTL DEF Spec

\* The repository, the mirror and the handlers keep their types.
THEOREM MirrorTypeCorrect == Spec => []TypeOK
  <1>1. MirrorInv => TypeOK
    BY DEF MirrorInv
  <1> QED
    BY <1>1, MirrorInvariant, PTL

\* The mirror without force pushes: the head's snapshot is the tree of its commit, for any
\* number of handlers side by side, webhooks late, repeated or lost.
THEOREM HeadFaithful == Spec => []HeadShowsItsCommit
  <1>1. MirrorInv => HeadShowsItsCommit
    BY DEF MirrorInv
  <1> QED
    BY <1>1, MirrorInvariant, PTL

\* Every row of the ledger shows its commit, and a row of a resync does so whatever was
\* pushed by force before it.
THEOREM RecordsFaithful == Spec => []RecordShowsItsCommit
  <1>1. MirrorInv => RecordShowsItsCommit
    BY DEF MirrorInv
  <1> QED
    BY <1>1, MirrorInvariant, PTL

\* No snapshot lists a version of a file that its commit does not have, not even after a
\* force push: shas come from the tree of the commit.
THEOREM NothingIsInvented == Spec => []NothingInvented
  <1>1. MirrorInv => NothingInvented
    BY DEF MirrorInv
  <1> QED
    BY <1>1, MirrorInvariant, PTL

\* While nobody rewrites the branch, what a snapshot lists can be opened, although an
\* incremental build fetches only the files that changed.
THEOREM ListedIsStored == Spec => []ContentMirrored
  <1>1. MirrorInv => ContentMirrored
    BY DEF MirrorInv
  <1> QED
    BY <1>1, MirrorInvariant, PTL

\* A handler that starts with the branch at the last commit and meets no other one leaves
\* the head there, and only one that overlaps another moves it back.
THEOREM MirrorCatchesUp == Spec => []CaughtUp
  <1>1. MirrorInv => CaughtUp
    BY DEF MirrorInv
  <1> QED
    BY <1>1, MirrorInvariant, PTL

---------------------------------------------------------------------------
\* The refinement: what readers see, as ContextMirror promises it.

\* The head and the handlers that patch hold snapshots that exist, even after a rewrite.
HoldsBuilt ==
  /\ head.commit # NoCommit => head.snapshot \in built
  /\ \A h \in Handlers : handler[h].step \in Patching => handler[h].base \in built

LEMMA HoldsBuiltStep == MirrorInv /\ HoldsBuilt /\ [Next]_vars => HoldsBuilt'
  <1> SUFFICES ASSUME MirrorInv, HoldsBuilt, [Next]_vars PROVE HoldsBuilt'
    OBVIOUS
  <1>0. handler \in [Handlers -> HandlerState]
    BY DEF MirrorInv, TypeOK
  <1>1. CASE UNCHANGED vars
    BY <1>1 DEF HoldsBuilt, vars, mirror
  \* A step that writes no snapshot, and of a handler that takes one from nowhere but the head.
  <1>2. ASSUME built \subseteq built', head' = head,
               \A h \in Handlers : handler'[h].step \in Patching =>
                 \/ handler[h].step \in Patching /\ handler'[h].base = handler[h].base
                 \/ head.commit # NoCommit /\ handler'[h].base = head.snapshot
        PROVE  HoldsBuilt'
    BY <1>2 DEF HoldsBuilt
  <1>3. ASSUME NEW c, Announce(c) PROVE HoldsBuilt'
    BY <1>0, <1>2, <1>3 DEF Announce, mirror, HandlerState
  <1>4. CASE Push \/ ForcePush
    BY <1>3, <1>4 DEF Push, ForcePush, Commit
  <1>5. ASSUME NEW h \in Handlers, DeliverPush(h) \/ StartResync(h) PROVE HoldsBuilt'
    <2>1. PICK to \in {"pointers", "resolve"} :
            handler'[h].step = to /\ \A g \in Handlers \ {h} :
              handler'[g].step = handler[g].step /\ handler'[g].base = handler[g].base
      <3>1. ASSUME NEW state \in HandlerState, state.step \in {"pointers", "resolve"}, Start(h, state)
            PROVE  /\ handler'[h].step = state.step
                   /\ \A g \in Handlers \ {h} :
                        handler'[g].step = handler[g].step /\ handler'[g].base = handler[g].base
        BY <1>0, <3>1 DEF Start, HandlerState
      <3>2. CASE StartResync(h)
        <4> DEFINE state == [Idle EXCEPT !.step = "resolve", !.kind = "resync", !.fresh = TRUE]
        <4>1. state \in HandlerState /\ state.step = "resolve"
          <5>1. "resolve" \in Steps
            BY DEF Steps
          <5> QED
            BY <5>1, IdleMayBe DEF HandlerState
        <4> QED
          BY <3>1, <3>2, <4>1 DEF StartResync
      <3>3. CASE DeliverPush(h)
        <4>1. PICK p \in sent :
                Start(h, [Idle EXCEPT !.step = "pointers", !.before = p.before,
                                      !.after = p.after, !.fresh = (p.after = tip)])
          BY <3>3 DEF DeliverPush
        <4> DEFINE state == [Idle EXCEPT !.step = "pointers", !.before = p.before,
                                         !.after = p.after, !.fresh = (p.after = tip)]
        <4>2. /\ p.before \in 0..MaxCommits /\ p.after \in 0..MaxCommits
              /\ "pointers" \in Steps /\ (p.after = tip) \in BOOLEAN
          BY DEF MirrorInv, TypeOK, Pushes, Commits, Steps
        <4>3. state \in HandlerState
          BY <4>2, IdleMayBe DEF HandlerState
        <4>4. state.step = "pointers"
          BY DEF Idle
        <4> QED
          BY <3>1, <4>1, <4>3, <4>4
      <3> QED
        BY <1>5, <3>2, <3>3
    <2>2. UNCHANGED mirror
      BY <1>5 DEF DeliverPush, StartResync, Start
    <2> QED
      BY <1>2, <2>1, <2>2 DEF mirror, Patching
  <1>6. ASSUME NEW h \in Handlers,
               Abandon(h) \/ AdvancePointers(h) \/ LoadHead(h) \/ Compare(h) \/ ReadParent(h)
                 \/ Resolve(h) \/ RecordSynced(h)
        PROVE  HoldsBuilt'
    <2>1. UNCHANGED <<built, head>>
      BY <1>6 DEF Abandon, AdvancePointers, LoadHead, Compare, ReadParent, Resolve, RecordSynced, mirror
    <2>2. PICK s : handler' = [handler EXCEPT ![h] = s] /\
            (s.step \in Patching =>
               \/ handler[h].step \in Patching /\ s.base = handler[h].base
               \/ head.commit # NoCommit /\ s.base = head.snapshot)
      <3> DEFINE k == handler[h]
      <3>0. k \in HandlerState /\ Idle.step \notin Patching
        BY <1>0 DEF Idle, Patching
      <3>1. CASE Abandon(h)
        BY <3>0, <3>1 DEF Abandon
      <3>2. CASE AdvancePointers(h) \/ RecordSynced(h)
        <4>1. PICK s \in {Idle, [k EXCEPT !.step = "load"], [k EXCEPT !.step = "pointers"]} :
                handler' = [handler EXCEPT ![h] = s]
          BY <3>2 DEF AdvancePointers, RecordSynced, AfterSync
        <4>2. s.step \notin Patching
          BY <3>0 DEF HandlerState, Patching
        <4> QED
          BY <4>1, <4>2
      <3>3. CASE LoadHead(h)
        <4>1. PICK s : /\ handler' = [handler EXCEPT ![h] = s]
                       /\ \/ s = [k EXCEPT !.step = "resolve"]
                          \/ s = [k EXCEPT !.step = "record", !.snapshot = head.snapshot]
                          \/ /\ s = [k EXCEPT !.step = "compare", !.base = head.snapshot]
                             /\ head.commit # NoCommit
          BY <3>3 DEF LoadHead
        <4>2. s.step \notin Patching \/ (s.base = head.snapshot /\ head.commit # NoCommit)
          BY <3>0, <4>1 DEF HandlerState, Patching
        <4> QED
          BY <4>1, <4>2
      <3>4. CASE Compare(h)
        <4>1. PICK s \in {[k EXCEPT !.step = "advance"], [k EXCEPT !.step = "parent"]} :
                handler' = [handler EXCEPT ![h] = s]
          BY <3>4 DEF Compare, Go
        <4>2. s.base = k.base /\ k.step \in Patching
          BY <3>0, <3>4 DEF HandlerState, Patching, Compare, At
        <4> QED
          BY <4>1, <4>2
      <3>5. CASE ReadParent(h)
        <4> DEFINE s == [k EXCEPT !.step = "patch", !.paths = {p \in Paths : snapshots[k.base][p] # Absent}]
        <4>1. handler' = [handler EXCEPT ![h] = s]
          BY <3>5 DEF ReadParent
        <4>2. s.base = k.base /\ k.step \in Patching
          BY <3>0, <3>5 DEF HandlerState, Patching, ReadParent, At
        <4> QED
          BY <4>1, <4>2
      <3>6. CASE Resolve(h)
        <4>1. handler' = [handler EXCEPT ![h] = [k EXCEPT !.step = "full", !.after = tip]]
          BY <3>6 DEF Resolve
        <4>2. [k EXCEPT !.step = "full", !.after = tip].step \notin Patching
          BY <3>0 DEF HandlerState, Patching
        <4> QED
          BY <4>1, <4>2
      <3> QED
        BY <1>6, <3>1, <3>2, <3>3, <3>4, <3>5, <3>6
    <2>3. handler'[h] = s /\ \A g \in Handlers \ {h} : handler'[g] = handler[g]
      BY <1>0, <2>2
    <2> QED
      BY <1>2, <2>1, <2>2, <2>3
  <1>7. ASSUME NEW h \in Handlers, AdvanceHead(h) PROVE HoldsBuilt'
    <2>1. head'.snapshot = handler[h].base /\ handler[h].step \in Patching /\ built' = built
      BY <1>7 DEF AdvanceHead, At, Patching
    <2>2. handler'[h].step \notin Patching /\ \A g \in Handlers \ {h} : handler'[g] = handler[g]
      BY <1>0, <1>7 DEF AdvanceHead, Patching, HandlerState
    <2> QED
      BY <2>1, <2>2 DEF HoldsBuilt
  <1>8. ASSUME NEW h \in Handlers, NEW c, NEW paths, NEW fetched, CreateSnapshot(h, c, paths, fetched)
        PROVE  HoldsBuilt'
    <2>1. head' = [commit |-> c, snapshot |-> c] /\ built' = built \cup {c}
      BY <1>8 DEF CreateSnapshot
    <2>2. PICK s : handler' = [handler EXCEPT ![h] = s] /\ s.step \notin Patching
      <3>1. /\ [handler[h] EXCEPT !.step = "record", !.after = c, !.snapshot = c].step \notin Patching
            /\ Idle.step \notin Patching
        BY <1>0 DEF Patching, Idle, HandlerState
      <3> QED
        BY <1>8, <3>1 DEF CreateSnapshot
    <2>3. handler'[h] = s /\ \A g \in Handlers \ {h} : handler'[g] = handler[g]
      BY <1>0, <2>2
    <2> QED
      BY <2>1, <2>2, <2>3 DEF HoldsBuilt
  <1>9. ASSUME NEW h \in Handlers, PatchSnapshot(h) \/ FullSnapshot(h) PROVE HoldsBuilt'
    BY <1>8, <1>9 DEF PatchSnapshot, FullSnapshot
  <1> QED
    BY <1>1, <1>4, <1>5, <1>6, <1>7, <1>9 DEF Next, Sync

\* The abstract mirror starts where this one does.
LEMMA PublishedInit == Init => Published!Init
  <1> SUFFICES ASSUME Init PROVE Published!Init
    OBVIOUS
  <1>1. tree \in [Commits -> Trees] /\ last = 1 /\ 1..last = {1}
    BY DEF Init, Trees, Empty
  <1>2. Linear
    BY DEF Init, Linear
  <1> QED
    BY <1>1, <1>2 DEF Init, Published!Init, Published!Trees, Trees, Empty, NoCommit

\* A write of the head publishes a commit, all of it unless the branch was rewritten.
LEMMA WritePublishes ==
  ASSUME MirrorInv, MirrorInv', HoldsBuilt', UNCHANGED git, head'.commit # NoCommit
  PROVE  Published!Publish \/ Published!PublishPart
  <1> DEFINE c == head'.commit
             d == head'.snapshot
             f == snapshots'[d]
             shown == [commit |-> head.commit,
                       files |-> IF head.commit = NoCommit THEN Empty ELSE snapshots[head.snapshot]]
  <1>1. UNCHANGED <<last, tree, ancestors, sent>> /\ (Linear' <=> Linear)
    BY DEF git, Linear
  <1>2. c \in 1..last /\ d \in built' /\ d \in 1..last /\ d \in Commits
    BY <1>1 DEF MirrorInv, HeadOK, SnapshotsOK, HoldsBuilt, TypeOK
  <1>3. f \in Published!Trees
    BY <1>2 DEF MirrorInv, TypeOK, Trees, Published!Trees
  <1>4. Linear => f = tree[c]
    BY <1>1 DEF MirrorInv, HeadShowsItsCommit, Shows
  <1>5. Published!PartOf(f, tree[d])
    BY <1>1, <1>2 DEF MirrorInv, NothingInvented, Published!PartOf
  <1>6. UNCHANGED (1..last) /\ UNCHANGED tree /\ (~Linear)' = (~Linear)
    BY <1>1
  <1>7. shown' = [commit |-> c, files |-> f]
    OBVIOUS
  <1> HIDE DEF c, d, f
  <1>8. CASE Linear
    BY <1>2, <1>4, <1>6, <1>7, <1>8 DEF Published!Publish
  <1>9. CASE ~Linear
    BY <1>2, <1>3, <1>5, <1>6, <1>7, <1>9 DEF Published!PublishPart
  <1> QED
    BY <1>8, <1>9

\* Every step of the branch or of a handler is a step of the abstract mirror or none.
LEMMA PublishedStep ==
  MirrorInv /\ MirrorInv' /\ HoldsBuilt' /\ [Next]_vars => [Published!Next]_(Published!vars)
  <1> SUFFICES ASSUME MirrorInv, MirrorInv', HoldsBuilt', [Next]_vars
               PROVE  Published!Next \/ UNCHANGED Published!vars
    OBVIOUS
  <1>1. ASSUME UNCHANGED <<git, head, snapshots>> PROVE UNCHANGED Published!vars
    BY <1>1 DEF Published!vars, git, Linear, NoCommit, Empty
  <1>2. CASE UNCHANGED vars
    BY <1>1, <1>2 DEF vars, mirror
  <1>3. ASSUME NEW c, Announce(c)
        PROVE  UNCHANGED <<head, snapshots>> /\ sent \subseteq sent'
    BY <1>3 DEF Announce, mirror
  <1>4. ASSUME NEW c \in 1..last, Commit(c) PROVE Published!PushCommit
    <2>1. PICK t \in Trees : tree' = [tree EXCEPT ![last + 1] = t]
      BY <1>4 DEF Commit
    <2>2. /\ last' = last + 1 /\ last + 1 \in Commits \ (1..last)
          /\ 1..last' = (1..last) \cup {last + 1}
      BY <1>4 DEF Commit, MirrorInv, TypeOK, Commits
    <2>3. UNCHANGED <<head, snapshots>> /\ sent \subseteq sent'
      BY <1>4, <1>3 DEF Commit
    <2>4. \A e \in 1..last : ancestors'[e] = ancestors[e]
      <3>1. ancestors' = [ancestors EXCEPT ![last + 1] = ancestors[c] \cup {last + 1}]
        BY <1>4 DEF Commit
      <3> QED
        BY <3>1, <2>2 DEF MirrorInv, TypeOK, Commits
    <2>5. Linear' => Linear
      BY <2>3, <2>4 DEF Linear, MirrorInv, GitOK
    <2>6. (~Linear)' \in {~Linear, TRUE}
      BY <2>5
    <2>7. t \in Published!Trees
      BY DEF Trees, Published!Trees
    <2> QED
      BY <2>1, <2>2, <2>3, <2>6, <2>7 DEF Published!PushCommit, NoCommit, Empty
  <1>5. ASSUME NEW c, Announce(c), UNCHANGED <<last, tree, ancestors>>
        PROVE  Published!Rewrite \/ UNCHANGED Published!vars
    <2>1. UNCHANGED <<head, snapshots>> /\ sent \subseteq sent'
      BY <1>3, <1>5
    <2>2. Linear' => Linear
      BY <2>1, <1>5 DEF Linear
    <2>3. CASE Linear' <=> Linear
      BY <2>1, <2>3, <1>5 DEF Published!vars, NoCommit, Empty
    <2>4. CASE ~(Linear' <=> Linear)
      BY <2>1, <2>2, <2>4, <1>5 DEF Published!Rewrite, NoCommit, Empty
    <2> QED
      BY <2>3, <2>4
  <1>6. CASE Push \/ ForcePush
    <2>1. tip \in 1..last
      BY DEF MirrorInv, TypeOK, GitOK, Commits
    <2> QED
      BY <1>4, <1>5, <1>6, <2>1 DEF Push, ForcePush, Published!Next
  <1>7. ASSUME NEW h \in Handlers,
               DeliverPush(h) \/ StartResync(h) \/ Abandon(h) \/ AdvancePointers(h) \/ LoadHead(h)
                 \/ Compare(h) \/ ReadParent(h) \/ Resolve(h) \/ RecordSynced(h)
        PROVE  UNCHANGED Published!vars
    BY <1>1, <1>7
    DEF DeliverPush, StartResync, Start, Abandon, AdvancePointers, LoadHead, Compare, ReadParent,
        Resolve, RecordSynced, mirror
  <1>8. ASSUME NEW h \in Handlers, AdvanceHead(h) PROVE Published!Next
    <2>1. handler[h].after \in 1..last
      BY <1>8 DEF AdvanceHead, At, MirrorInv, WorksOnCommits, Incremental, Patching, GitOK
    <2>2. UNCHANGED git /\ head'.commit # NoCommit
      BY <1>8, <2>1 DEF AdvanceHead, NoCommit
    <2> QED
      BY <2>2, WritePublishes DEF Published!Next
  <1>9. ASSUME NEW h \in Handlers, NEW c \in 1..last, NEW paths, NEW fetched,
               CreateSnapshot(h, c, paths, fetched)
        PROVE  Published!Next
    <2>1. UNCHANGED git /\ head' = [commit |-> c, snapshot |-> c]
      BY <1>9 DEF CreateSnapshot
    <2>2. c # NoCommit
      BY DEF NoCommit
    <2> QED
      BY <2>1, <2>2, WritePublishes DEF Published!Next
  <1>10. ASSUME NEW h \in Handlers, PatchSnapshot(h) \/ FullSnapshot(h) PROVE Published!Next
    <2>1. handler[h].after \in 1..last
      BY <1>10 DEF PatchSnapshot, FullSnapshot, At, MirrorInv, WorksOnCommits, Incremental, Patching, GitOK
    <2> QED
      BY <1>9, <1>10, <2>1 DEF PatchSnapshot, FullSnapshot
  <1> QED
    BY <1>2, <1>6, <1>7, <1>8, <1>10 DEF Next, Sync

\* ContextSync implements ContextMirror: however handlers overlap, fail or lose answers,
\* readers see whole commits of the branch, one write at a time, and a part of one at most
\* once the branch was rewritten.
THEOREM MirrorPublishes == Spec => MirrorSpec
  <1>1. Init => HoldsBuilt
    BY DEF Init, HoldsBuilt, Patching, Idle, NoCommit
  <1> QED
    BY <1>1, MirrorInvariant, HoldsBuiltStep, PublishedInit, PublishedStep, PTL
    DEF Spec, MirrorSpec, Published!Spec

---------------------------------------------------------------------------
Distinct(ref) == \A i, j \in DOMAIN ref : ref[i] = ref[j] => i = j

\* The change of the save is on no ref yet.
Landing == {"open", "check", "build", "push", "list", "rebuild", "advance", "create", "reset"}

NotYetLanded ==
  \A s \in Savers : step[s] \in Landing =>
    ~On(branch, s) /\ ~On(side, s) /\ \A t \in Savers : ~On(parent[t], s)

RefsDistinct == Distinct(branch) /\ Distinct(side) /\ \A t \in Savers : Distinct(parent[t])

\* What the check has seen stays, as the branch only grows.
CheckHolds ==
  \A s \in Savers : step[s] \in {"build", "push", "branch"} =>
    checked[s] <= Len(branch) /\ Version(branch, checked[s], Target[s]) = base[s]

\* As long as no save met another one or a review, one at most is in the fallback ...
OneInFallback ==
  ~met => \A s, t \in Savers : step[s] \in Fallback /\ step[t] \in Fallback => s = t

\* ... and what it found about the pull request stays.
FoundStays ==
  ~met => \A s \in Savers :
    /\ step[s] \in {"rebuild", "advance"} => pr
    /\ step[s] \in {"create", "reset", "request"} => ~pr
    /\ step[s] = "request" => On(side, s)

SaveInv ==
  /\ SaveTypeOK
  /\ NotYetLanded
  /\ RefsDistinct
  /\ CheckHolds
  /\ OneInFallback
  /\ FoundStays
  /\ AccumulatesAlone

USE DisjointAssumption, TargetAssumption, MaxRetriesAssumption

LEMMA AppendOne ==
  ASSUME NEW ref \in Histories, NEW a \in Authors
  PROVE  /\ Append(ref, a) \in Histories /\ Len(Append(ref, a)) = Len(ref) + 1
         /\ \A i \in 1..Len(ref) : Append(ref, a)[i] = ref[i]
         /\ \A b : On(Append(ref, a), b) <=> On(ref, b) \/ b = a
         /\ Distinct(ref) /\ ~On(ref, a) => Distinct(Append(ref, a))
  <1>1. /\ Append(ref, a) \in Histories /\ Len(Append(ref, a)) = Len(ref) + 1
        /\ DOMAIN ref = 1..Len(ref) /\ DOMAIN Append(ref, a) = 1..(Len(ref) + 1)
        /\ \A i \in 1..Len(ref) : Append(ref, a)[i] = ref[i]
        /\ Append(ref, a)[Len(ref) + 1] = a /\ Len(ref) \in Nat
    BY DEF Histories
  <1> DEFINE q == Append(ref, a)
  <1> HIDE DEF q
  <1>2. ASSUME NEW b PROVE On(q, b) <=> On(ref, b) \/ b = a
    BY <1>1 DEF On, q
  <1>3. Distinct(ref) /\ ~On(ref, a) => Distinct(q)
    BY <1>1 DEF Distinct, On, q
  <1> QED
    BY <1>1, <1>2, <1>3 DEF q

\* The versions of the first n changes are those of every longer ref.
LEMMA VersionStays ==
  ASSUME NEW ref \in Histories, NEW longer \in Histories, Len(ref) <= Len(longer),
         \A i \in 1..Len(ref) : longer[i] = ref[i],
         NEW n \in 0..Len(ref), NEW p
  PROVE  Version(longer, n, p) = Version(ref, n, p)
  <1> DEFINE writes(r) == {i \in 1..n : Target[r[i]] = p}
             latest(r) == {i \in writes(r) : \A j \in writes(r) : j <= i}
  <1>1. \A i \in 1..n : longer[i] = ref[i]
    BY DEF Histories
  <1>2. writes(longer) = writes(ref)
    BY <1>1
  <1>3. latest(longer) = latest(ref)
    BY <1>2
  <1>4. {longer[i] : i \in latest(longer)} = {ref[i] : i \in latest(ref)}
    BY <1>1, <1>3
  <1> QED
    BY <1>3, <1>4 DEF Version

LEMMA VersionType ==
  ASSUME NEW ref \in Histories, NEW n \in 0..Len(ref), NEW p
  PROVE  Version(ref, n, p) \in Authors \cup {Original}
  <1> DEFINE writes == {i \in 1..n : Target[ref[i]] = p}
             latest == {i \in writes : \A j \in writes : j <= i}
             authors == {ref[i] : i \in latest}
  <1>1. authors \subseteq Authors
    BY DEF Histories
  <1>2. latest # {} => (CHOOSE a \in authors : TRUE) \in authors
    <2>1. latest # {} => \E a : a \in authors
      OBVIOUS
    <2> HIDE DEF authors
    <2> QED
      BY <2>1
  <1> QED
    BY <1>1, <1>2 DEF Version

LEMMA SaveInitInv == SaveInit => SaveInv
  <1> SUFFICES ASSUME SaveInit PROVE SaveInv
    OBVIOUS
  <1> USE DEF SaveInit
  <1>1. <<>> \in Histories /\ \A a : ~On(<<>>, a)
    BY DEF Histories, On
  <1>2. Distinct(<<>>)
    BY DEF Distinct
  <1>3. SaveTypeOK
    <2>1. step \in [Savers -> SaveSteps]
      BY DEF SaveSteps
    <2>2. attempt \in [Savers -> 1..MaxRetries] /\ checked \in [Savers -> Nat]
      OBVIOUS
    <2> QED
      BY <1>1, <2>1, <2>2 DEF SaveTypeOK
  <1>4. NotYetLanded /\ RefsDistinct
    BY <1>1, <1>2 DEF NotYetLanded, RefsDistinct
  <1>5. \A s \in Savers : step[s] = "open"
    OBVIOUS
  <1>6. CheckHolds /\ OneInFallback /\ FoundStays /\ AccumulatesAlone
    BY <1>5 DEF CheckHolds, OneInFallback, FoundStays, AccumulatesAlone, Fallback, SaveAt
  <1> QED
    BY <1>3, <1>4, <1>6 DEF SaveInv

\* A call that changes no ref.
LEMMA CallKeeps ==
  ASSUME SaveInv, NEW s \in Savers, NEW st \in SaveSteps, SaveTypeOK',
         step' = [step EXCEPT ![s] = st],
         UNCHANGED <<branch, side, pr, turned>>,
         \/ parent' = parent
         \/ parent' = [parent EXCEPT ![s] = branch]
         \/ parent' = [parent EXCEPT ![s] = side],
         \A t \in Savers \ {s} : base'[t] = base[t] /\ checked'[t] = checked[t],
         met => met',
         step[s] \notin Fallback /\ st \in Fallback /\ Meets(s) => met',
         st \in Landing => step[s] \in Landing,
         st \in {"build", "push"} =>
           checked'[s] <= Len(branch) /\ Version(branch, checked'[s], Target[s]) = base'[s],
         ~met => (st \in {"rebuild", "advance"} => pr) /\ (st \in {"create", "reset"} => ~pr),
         st \notin {"branch", "request", "pull request"}
  PROVE  SaveInv'
  <1> USE DEF SaveInv
  <1>1. \A t \in Savers : step'[t] = IF t = s THEN st ELSE step[t]
    BY DEF SaveTypeOK
  <1>2. \A t \in Savers : parent'[t] \in {parent[t], branch, side}
    BY DEF SaveTypeOK
  <1>3. NotYetLanded'
    <2> SUFFICES ASSUME NEW a \in Savers, step'[a] \in Landing
                 PROVE  ~On(branch, a) /\ ~On(side, a) /\ \A t \in Savers : ~On(parent'[t], a)
      BY DEF NotYetLanded, On
    <2>1. step[a] \in Landing
      BY <1>1
    <2> QED
      BY <1>2, <2>1 DEF NotYetLanded
  <1>4. RefsDistinct'
    BY <1>2 DEF RefsDistinct, Distinct
  <1>5. branch' = branch /\ side' = side /\ (pr' <=> pr) /\ turned' = turned
        /\ (~met' => ~met)
    OBVIOUS
  <1>6. CheckHolds'
    <2> SUFFICES ASSUME NEW t \in Savers, step'[t] \in {"build", "push", "branch"}
                 PROVE  checked'[t] <= Len(branch')
                        /\ Version(branch', checked'[t], Target[t]) = base'[t]
      BY DEF CheckHolds, Version
    <2>1. checked'[t] <= Len(branch) /\ Version(branch, checked'[t], Target[t]) = base'[t]
      BY <1>1 DEF CheckHolds
    <2> QED
      BY <1>5, <2>1
  <1>7. OneInFallback'
    <2>1. ASSUME ~met', NEW t \in Savers \ {s}, step[t] \in Fallback, st \in Fallback
          PROVE  FALSE
      <3>1. Meets(s)
        BY <2>1 DEF Meets
      <3>2. step[s] \notin Fallback
        BY <1>5, <2>1 DEF OneInFallback
      <3> QED
        BY <2>1, <3>1, <3>2
    <2> SUFFICES ASSUME ~met', NEW t \in Savers, NEW u \in Savers,
                        step'[t] \in Fallback, step'[u] \in Fallback, t # u
                 PROVE  FALSE
      BY DEF OneInFallback
    <2>2. CASE t = s \/ u = s
      BY <1>1, <2>1, <2>2
    <2>3. CASE t # s /\ u # s
      BY <1>1, <1>5, <2>3 DEF OneInFallback
    <2> QED
      BY <2>2, <2>3
  <1>8. FoundStays'
    <2> SUFFICES ASSUME ~met', NEW t \in Savers
                 PROVE  /\ step'[t] \in {"rebuild", "advance"} => pr'
                        /\ step'[t] \in {"create", "reset", "request"} => ~pr'
                        /\ step'[t] = "request" => On(side', t)
      BY DEF FoundStays, On
    <2>1. CASE t = s
      BY <1>1, <1>5, <2>1
    <2>2. CASE t # s
      BY <1>1, <1>5, <2>2 DEF FoundStays
    <2> QED
      BY <2>1, <2>2
  <1>9. AccumulatesAlone'
    <2> SUFFICES ASSUME ~met', NEW t \in Savers, step'[t] = "pull request" PROVE Kept(t)'
      BY DEF AccumulatesAlone, SaveAt
    <2>1. Kept(t)
      BY <1>1, <1>5 DEF AccumulatesAlone, SaveAt
    <2>2. On(branch, t)' <=> On(branch, t)
      BY <1>5 DEF On
    <2>3. On(side, t)' <=> On(side, t)
      BY <1>5 DEF On
    <2> QED
      BY <1>5, <2>1, <2>2, <2>3 DEF Kept
  <1> QED
    BY <1>3, <1>4, <1>6, <1>7, <1>8, <1>9

\* The branch gets longer.
LEMMA BranchGrows ==
  ASSUME SaveInv, branch' \in Histories, Len(branch) <= Len(branch'),
         \A i \in 1..Len(branch) : branch'[i] = branch[i], Distinct(branch'),
         UNCHANGED <<side, parent, base, checked>>,
         \A s \in Savers :
           \/ step'[s] = step[s] /\ (step[s] \in Landing => ~On(branch', s))
           \/ step[s] = "push" /\ step'[s] = "branch"
  PROVE  NotYetLanded' /\ RefsDistinct' /\ CheckHolds'
  <1> USE DEF SaveInv
  <1>1. NotYetLanded'
    <2> SUFFICES ASSUME NEW a \in Savers, step'[a] \in Landing
                 PROVE  ~On(branch', a) /\ ~On(side, a) /\ \A t \in Savers : ~On(parent[t], a)
      BY DEF NotYetLanded, On
    <2>1. step[a] \in Landing /\ ~On(branch', a)
      BY DEF Landing
    <2> QED
      BY <2>1 DEF NotYetLanded
  <1>2. RefsDistinct'
    BY DEF RefsDistinct, Distinct
  <1>3. CheckHolds'
    <2> SUFFICES ASSUME NEW t \in Savers, step'[t] \in {"build", "push", "branch"}
                 PROVE  checked[t] <= Len(branch')
                        /\ Version(branch', checked[t], Target[t]) = base[t]
      BY DEF CheckHolds, Version
    <2>1. checked[t] \in 0..Len(branch) /\ Version(branch, checked[t], Target[t]) = base[t]
      BY DEF CheckHolds, SaveTypeOK, Histories
    <2>2. branch \in Histories
      BY DEF SaveTypeOK
    <2>3. Len(branch) \in Nat /\ Len(branch') \in Nat
      BY <2>2 DEF Histories
    <2>4. checked[t] \in Nat /\ checked[t] <= Len(branch')
      BY <2>1, <2>3
    <2> QED
      BY <2>1, <2>2, <2>4, VersionStays DEF Histories
  <1> QED
    BY <1>1, <1>2, <1>3

---------------------------------------------------------------------------
\* Calls that change no ref.

LEMMA OpenKeeps == ASSUME SaveInv, NEW s \in Savers, Open(s) PROVE SaveInv'
  <1>1. step[s] = "open" /\ step' = [step EXCEPT ![s] = "check"]
        /\ UNCHANGED <<branch, side, sideRef, pr, parent, attempt, checked, turned, met>>
    BY DEF Open, SaveAt, SaveGoes
  <1>2. PICK n \in 0..Len(branch) : base' = [base EXCEPT ![s] = Version(branch, n, Target[s])]
    BY DEF Open
  <1>3. base' \in [Savers -> Authors \cup {Original}]
        /\ \A t \in Savers \ {s} : base'[t] = base[t]
    BY <1>2, VersionType DEF SaveInv, SaveTypeOK
  <1>4. SaveTypeOK'
    BY <1>1, <1>3 DEF SaveInv, SaveTypeOK, SaveSteps
  <1> QED
    BY <1>1, <1>3, <1>4, CallKeeps DEF SaveSteps, Fallback, Landing

LEMMA CheckKeeps == ASSUME SaveInv, NEW s \in Savers, CheckConflict(s) PROVE SaveInv'
  <1> DEFINE same == Version(branch, Len(branch), Target[s]) = base[s]
             st == IF same THEN "build" ELSE "conflict"
  <1>1. step[s] = "check" /\ step' = [step EXCEPT ![s] = st]
        /\ checked' = [checked EXCEPT ![s] = Len(branch)]
        /\ UNCHANGED <<branch, side, sideRef, pr, base, parent, attempt, turned, met>>
    BY DEF CheckConflict, SaveAt, SaveGoes
  <1>2. Len(branch) \in Nat /\ checked'[s] = Len(branch)
        /\ \A t \in Savers \ {s} : checked'[t] = checked[t]
    BY <1>1 DEF SaveInv, SaveTypeOK, Histories
  <1>3. st \in SaveSteps /\ st \notin Fallback /\ st \in {"build", "conflict"}
    BY DEF SaveSteps, Fallback
  <1>4. st = "build" => same
    OBVIOUS
  <1>5. st \in {"build", "push"} =>
          checked'[s] <= Len(branch) /\ Version(branch, checked'[s], Target[s]) = base'[s]
    BY <1>1, <1>2, <1>3, <1>4
  <1> HIDE DEF st, same
  <1>6. SaveTypeOK'
    BY <1>1, <1>2, <1>3 DEF SaveInv, SaveTypeOK
  <1> QED
    BY <1>1, <1>2, <1>3, <1>5, <1>6, CallKeeps DEF Landing

LEMMA BuildKeeps ==
  ASSUME SaveInv, NEW s \in Savers, BuildCommit(s) \/ PushRefused(s)
  PROVE  SaveInv'
  <1>1. PICK st \in {"push", "list"} :
          /\ step[s] \in {"build", "push"} /\ step' = [step EXCEPT ![s] = st]
          /\ met' = (met \/ (st = "list" /\ Meets(s)))
          /\ parent' = parent \/ parent' = [parent EXCEPT ![s] = branch]
          /\ UNCHANGED <<branch, side, sideRef, pr, base, attempt, checked, turned>>
    <2>1. met = (met \/ FALSE)
      BY DEF SaveInv, SaveTypeOK
    <2> QED
      BY <2>1 DEF BuildCommit, PushRefused, SaveAt, SaveGoes
  <1>2. met' \in BOOLEAN /\ (met => met') /\ (st \in Fallback /\ Meets(s) => met')
    BY <1>1 DEF Fallback
  <1>3. parent' \in [Savers -> Histories]
    BY <1>1 DEF SaveInv, SaveTypeOK
  <1>4. SaveTypeOK'
    BY <1>1, <1>2, <1>3 DEF SaveInv, SaveTypeOK, SaveSteps
  <1>5. checked[s] <= Len(branch) /\ Version(branch, checked[s], Target[s]) = base[s]
    BY <1>1 DEF SaveInv, CheckHolds
  <1> QED
    BY <1>1, <1>2, <1>4, <1>5, CallKeeps DEF SaveSteps, Fallback, Landing

LEMMA ListKeeps ==
  ASSUME SaveInv, NEW s \in Savers, ListOpen(s) \/ Rebuild(s)
  PROVE  SaveInv'
  <1>1. PICK st \in {"rebuild", "create", "advance", "error"} :
          /\ step[s] \in {"list", "rebuild"} /\ step' = [step EXCEPT ![s] = st]
          /\ st = "rebuild" => pr
          /\ st = "advance" => step[s] = "rebuild"
          /\ st = "create" => ~pr
          /\ parent' = parent \/ parent' = [parent EXCEPT ![s] = side]
          /\ attempt' = attempt \/ attempt' = [attempt EXCEPT ![s] = 1]
          /\ UNCHANGED <<branch, side, sideRef, pr, base, checked, turned, met>>
    BY DEF ListOpen, Rebuild, SaveAt, SaveGoes
  <1>2. SaveTypeOK'
    <2>1. parent' \in [Savers -> Histories] /\ attempt' \in [Savers -> 1..MaxRetries]
      BY <1>1 DEF SaveInv, SaveTypeOK
    <2> QED
      BY <1>1, <2>1 DEF SaveInv, SaveTypeOK, SaveSteps
  <1>3. ~met /\ st = "advance" => pr
    BY <1>1 DEF SaveInv, FoundStays
  <1> QED
    BY <1>1, <1>2, <1>3, CallKeeps DEF SaveSteps, Fallback, Landing

\* A call that ends in an error, or goes back to try again.
LEMMA RetryKeeps ==
  ASSUME SaveInv, NEW s \in Savers, NEW st \in {"error", "build", "rebuild", "reset"},
         step' = [step EXCEPT ![s] = st],
         \/ st = "error"
         \/ step[s] = "push" /\ st = "build"
         \/ step[s] = "advance" /\ st = "rebuild"
         \/ step[s] = "create" /\ st = "reset",
         attempt' \in [Savers -> 1..MaxRetries],
         UNCHANGED <<branch, side, sideRef, pr, base, parent, checked, turned, met>>
  PROVE  SaveInv'
  <1>1. SaveTypeOK'
    BY DEF SaveInv, SaveTypeOK, SaveSteps
  <1>2. st = "build" =>
          checked[s] <= Len(branch) /\ Version(branch, checked[s], Target[s]) = base[s]
    BY DEF SaveInv, CheckHolds
  <1>3. ~met => (st = "rebuild" => pr) /\ (st = "reset" => ~pr)
    BY DEF SaveInv, FoundStays
  <1> QED
    BY <1>1, <1>2, <1>3, CallKeeps DEF SaveSteps, Fallback, Landing

---------------------------------------------------------------------------
\* Calls that move a ref.

LEMMA PushKeeps == ASSUME SaveInv, NEW s \in Savers, PushCommit(s) PROVE SaveInv'
  <1> USE DEF SaveInv
  <1>1. CASE branch = parent[s]
    <2>1. step[s] = "push" /\ branch' = Append(branch, s)
          /\ step' = [step EXCEPT ![s] = "branch"]
          /\ UNCHANGED <<side, sideRef, pr, base, parent, attempt, checked, turned, met>>
      BY <1>1 DEF PushCommit, SaveAt, SaveGoes
    <2>2. s \in Authors /\ branch \in Histories /\ Len(branch) \in Nat
      BY DEF Authors, SaveTypeOK, Histories
    <2>3. /\ branch' \in Histories /\ Len(branch') = Len(branch) + 1
          /\ \A i \in 1..Len(branch) : branch'[i] = branch[i]
          /\ \A b : On(branch', b) <=> On(branch, b) \/ b = s
          /\ Distinct(branch) /\ ~On(branch, s) => Distinct(branch')
      BY <2>1, <2>2, AppendOne
    <2>4. ~On(branch, s) /\ Distinct(branch)
      BY <2>1 DEF NotYetLanded, RefsDistinct, Landing
    <2>5. \A t \in Savers : step'[t] = IF t = s THEN "branch" ELSE step[t]
      BY <2>1 DEF SaveTypeOK
    <2>6. SaveTypeOK'
      BY <2>1, <2>3 DEF SaveTypeOK, SaveSteps
    <2>7. \A t \in Savers :
            \/ step'[t] = step[t] /\ (step[t] \in Landing => ~On(branch', t))
            \/ step[t] = "push" /\ step'[t] = "branch"
      <3>1. ASSUME NEW t \in Savers, step[t] \in Landing, t # s PROVE ~On(branch', t)
        BY <2>3, <3>1 DEF NotYetLanded
      <3>2. \A t \in Savers : t # s => step'[t] = step[t]
        BY <2>5
      <3>3. step'[s] = "branch"
        BY <2>5
      <3> SUFFICES ASSUME NEW t \in Savers
                   PROVE  \/ step'[t] = step[t] /\ (step[t] \in Landing => ~On(branch', t))
                          \/ step[t] = "push" /\ step'[t] = "branch"
        OBVIOUS
      <3>4. CASE t = s
        BY <2>1, <3>3, <3>4
      <3>5. CASE t # s
        BY <3>1, <3>2, <3>5
      <3> QED
        BY <3>4, <3>5
    <2>8. NotYetLanded' /\ RefsDistinct' /\ CheckHolds'
      BY <2>1, <2>2, <2>3, <2>4, <2>7, BranchGrows
    <2>9. OneInFallback' /\ FoundStays'
      BY <2>1, <2>5 DEF OneInFallback, FoundStays, Fallback, On
    <2>10. AccumulatesAlone'
      <3> SUFFICES ASSUME ~met, NEW t \in Savers, step'[t] = "pull request" PROVE Kept(t)'
        BY <2>1 DEF AccumulatesAlone, SaveAt
      <3>1. Kept(t)
        BY <2>5 DEF AccumulatesAlone, SaveAt
      <3>2. On(side, t)' <=> On(side, t)
        BY <2>1 DEF On
      <3> QED
        BY <2>1, <2>3, <3>1, <3>2 DEF Kept
    <2> QED
      BY <2>6, <2>8, <2>9, <2>10
  <1>2. CASE branch # parent[s]
    <2>1. PICK st \in {"build", "error"} :
            /\ step[s] = "push" /\ step' = [step EXCEPT ![s] = st]
            /\ attempt' \in [Savers -> 1..MaxRetries]
            /\ UNCHANGED <<branch, side, sideRef, pr, base, parent, checked, turned, met>>
      BY <1>2 DEF PushCommit, SaveAt, SaveGoes, SaveTypeOK
    <2> QED
      BY <2>1, RetryKeeps
  <1> QED
    BY <1>1, <1>2

\* The side branch gets the change of s.
LEMMA SideMoves ==
  ASSUME SaveInv, NEW s \in Savers, NEW ref \in {side, parent[s]},
         NEW st \in {"pull request", "request"},
         step[s] \in Landing \cap Fallback, step' = [step EXCEPT ![s] = st],
         side' = Append(ref, s), sideRef' \in BOOLEAN,
         UNCHANGED <<branch, pr, base, parent, attempt, checked, turned, met>>,
         ~met => IF st = "request" THEN ~pr ELSE pr /\ ref = side
  PROVE  SaveInv'
  <1> USE DEF SaveInv
  <1>1. s \in Authors /\ ref \in Histories /\ ~On(ref, s) /\ Distinct(ref)
    <2>1. step[s] \in Landing /\ s \in Authors
      BY DEF Authors
    <2>2. CASE ref = side
      BY <2>1, <2>2 DEF SaveTypeOK, NotYetLanded, RefsDistinct
    <2>3. CASE ref = parent[s]
      BY <2>1, <2>3 DEF SaveTypeOK, NotYetLanded, RefsDistinct
    <2> QED
      BY <2>1, <2>2, <2>3
  <1>2. /\ side' \in Histories
        /\ \A b : On(side', b) <=> On(ref, b) \/ b = s
        /\ Distinct(side')
    BY <1>1, AppendOne
  <1>3. \A t \in Savers : step'[t] = IF t = s THEN st ELSE step[t]
    BY DEF SaveTypeOK
  <1>4. SaveTypeOK'
    BY <1>2 DEF SaveTypeOK, SaveSteps
  <1>5. NotYetLanded'
    <2> SUFFICES ASSUME NEW a \in Savers, step'[a] \in Landing
                 PROVE  ~On(branch, a) /\ ~On(side', a) /\ \A t \in Savers : ~On(parent[t], a)
      BY DEF NotYetLanded, On
    <2>1. a # s /\ step[a] \in Landing
      BY <1>3 DEF Landing
    <2> QED
      BY <1>2, <2>1 DEF NotYetLanded
  <1>6. RefsDistinct'
    BY <1>2 DEF RefsDistinct, Distinct
  <1>7. CheckHolds'
    <2> SUFFICES ASSUME NEW t \in Savers, step'[t] \in {"build", "push", "branch"}
                 PROVE  checked'[t] <= Len(branch')
                        /\ Version(branch', checked'[t], Target[t]) = base'[t]
      BY DEF CheckHolds, Version
    <2>1. checked[t] <= Len(branch) /\ Version(branch, checked[t], Target[t]) = base[t]
      BY <1>3 DEF CheckHolds
    <2> QED
      BY <2>1
  <1>8. ~met => \A t \in Savers \ {s} : step[t] \notin Fallback
    BY DEF OneInFallback
  <1>9. OneInFallback' /\ FoundStays'
    <2> SUFFICES ASSUME ~met PROVE OneInFallback' /\ FoundStays'
      BY DEF OneInFallback, FoundStays
    <2>1. \A t \in Savers \ {s} : step'[t] \notin Fallback
      BY <1>3, <1>8
    <2>2. st = "request" => ~pr /\ On(side', s)
      BY <1>2
    <2>3. FoundStays'
      <3> SUFFICES ASSUME NEW t \in Savers, step'[t] \in Fallback
                   PROVE  t = s /\ step'[t] = "request" /\ ~pr /\ On(side', t)
        BY DEF FoundStays, Fallback
      <3> QED
        BY <1>3, <2>1, <2>2 DEF Fallback
    <2> QED
      BY <2>1, <2>3 DEF OneInFallback
  <1>10. AccumulatesAlone'
    <2> SUFFICES ASSUME ~met, NEW t \in Savers, step'[t] = "pull request" PROVE Kept(t)'
      BY DEF AccumulatesAlone, SaveAt
    <2>1. CASE t = s
      BY <1>2, <1>3, <2>1 DEF Kept
    <2>2. CASE t # s
      <3>1. Kept(t)
        BY <1>3, <2>2 DEF AccumulatesAlone, SaveAt
      <3>2. On(branch, t)' <=> On(branch, t)
        BY DEF On
      <3> QED
        BY <1>2, <3>1, <3>2 DEF Kept
    <2> QED
      BY <2>1, <2>2
  <1> QED
    BY <1>4, <1>5, <1>6, <1>7, <1>9, <1>10

LEMMA SideKeeps ==
  ASSUME SaveInv, NEW s \in Savers, AdvanceSide(s) \/ CreateSide(s) \/ ResetSide(s)
  PROVE  SaveInv'
  <1> DEFINE Moves(ref, st) ==
               /\ step' = [step EXCEPT ![s] = st]
               /\ side' = Append(ref, s) /\ sideRef' \in BOOLEAN
               /\ UNCHANGED <<branch, pr, base, parent, attempt, checked, turned, met>>
             Retries(st) ==
               /\ step' = [step EXCEPT ![s] = st]
               /\ attempt' \in [Savers -> 1..MaxRetries]
               /\ UNCHANGED <<branch, side, sideRef, pr, base, parent, checked, turned, met>>
  <1>1. CASE AdvanceSide(s)
    <2>1. step[s] = "advance"
      BY <1>1 DEF AdvanceSide, SaveAt
    <2>2. attempt \in [Savers -> 1..MaxRetries] /\ sideRef \in BOOLEAN
      BY DEF SaveInv, SaveTypeOK
    <2>3. Moves(side, "pull request") \/ Retries("rebuild") \/ Retries("error")
      <3>1. CASE sideRef /\ side = parent[s]
        <4>1. Moves(side, "pull request")
          BY <1>1, <2>2, <3>1 DEF AdvanceSide, SaveGoes
        <4> QED
          BY <4>1
      <3>2. CASE ~(sideRef /\ side = parent[s])
        <4>1. UNCHANGED <<branch, side, sideRef, pr, base, parent, checked, turned, met>>
          BY <1>1, <3>2 DEF AdvanceSide
        <4>2. CASE sideRef /\ attempt[s] < MaxRetries
          <5>1. step' = [step EXCEPT ![s] = "rebuild"]
                /\ attempt' = [attempt EXCEPT ![s] = @ + 1]
            BY <1>1, <3>2, <4>2 DEF AdvanceSide, SaveGoes
          <5>2. attempt' \in [Savers -> 1..MaxRetries]
            BY <2>2, <4>2, <5>1
          <5> QED
            BY <4>1, <5>1, <5>2
        <4>3. CASE ~(sideRef /\ attempt[s] < MaxRetries)
          BY <1>1, <2>2, <3>2, <4>1, <4>3 DEF AdvanceSide, SaveGoes
        <4> QED
          BY <4>2, <4>3
      <3> QED
        BY <3>1, <3>2
    <2>4. ~met => pr
      BY <2>1 DEF SaveInv, FoundStays
    <2> QED
      BY <2>1, <2>3, <2>4, SideMoves, RetryKeeps DEF Landing, Fallback
  <1>2. CASE CreateSide(s) \/ ResetSide(s)
    <2>1. step[s] \in {"create", "reset"}
      BY <1>2 DEF CreateSide, ResetSide, SaveAt
    <2>2. \/ Moves(parent[s], "request")
          \/ step[s] = "create" /\ Retries("reset")
          \/ Retries("error")
      BY <1>2 DEF CreateSide, ResetSide, SaveAt, SaveGoes, SaveInv, SaveTypeOK
    <2>3. ~met => ~pr
      BY <2>1 DEF SaveInv, FoundStays
    <2> QED
      BY <2>1, <2>2, <2>3, SideMoves, RetryKeeps DEF Landing, Fallback
  <1> QED
    BY <1>1, <1>2

\* The fallback ends with the pull request open.
LEMMA RequestKeeps == ASSUME SaveInv, NEW s \in Savers, RequestReview(s) PROVE SaveInv'
  <1> USE DEF SaveInv
  <1>1. /\ step[s] = "request" /\ step' = [step EXCEPT ![s] = "pull request"] /\ pr' = TRUE
        /\ branch' = branch /\ side' = side /\ sideRef' = sideRef /\ base' = base
        /\ parent' = parent /\ attempt' = attempt /\ checked' = checked
        /\ turned' = turned /\ met' = met
    BY DEF RequestReview, SaveAt, SaveGoes
  <1>2. \A t \in Savers : step'[t] = IF t = s THEN "pull request" ELSE step[t]
    BY <1>1 DEF SaveTypeOK
  <1>3. SaveTypeOK'
    BY <1>1 DEF SaveTypeOK, SaveSteps
  <1>4. NotYetLanded' /\ RefsDistinct'
    <2>1. RefsDistinct'
      BY <1>1 DEF RefsDistinct, Distinct
    <2> SUFFICES ASSUME NEW a \in Savers, step'[a] \in Landing
                 PROVE  ~On(branch', a) /\ ~On(side', a) /\ \A t \in Savers : ~On(parent'[t], a)
      BY <2>1 DEF NotYetLanded, On
    <2>2. step[a] \in Landing
      BY <1>2 DEF Landing
    <2>3. ~On(branch, a) /\ ~On(side, a) /\ \A t \in Savers : ~On(parent[t], a)
      BY <2>2 DEF NotYetLanded
    <2> QED
      BY <1>1, <2>3
  <1>5. CheckHolds'
    <2> SUFFICES ASSUME NEW t \in Savers, step'[t] \in {"build", "push", "branch"}
                 PROVE  checked'[t] <= Len(branch')
                        /\ Version(branch', checked'[t], Target[t]) = base'[t]
      BY DEF CheckHolds, Version
    <2>1. step[t] \in {"build", "push", "branch"}
      BY <1>2
    <2>2. checked[t] <= Len(branch) /\ Version(branch, checked[t], Target[t]) = base[t]
      BY <2>1 DEF CheckHolds
    <2> QED
      BY <1>1, <2>2
  <1>6. OneInFallback' /\ FoundStays'
    <2> SUFFICES ASSUME ~met PROVE OneInFallback' /\ FoundStays'
      BY <1>1 DEF OneInFallback, FoundStays
    <2>1. \A t \in Savers \ {s} : step[t] \notin Fallback
      BY <1>1 DEF OneInFallback, Fallback
    <2>2. \A t \in Savers : step'[t] \notin Fallback
      BY <1>2, <2>1 DEF Fallback
    <2> QED
      BY <2>2 DEF OneInFallback, FoundStays, Fallback
  <1>7. AccumulatesAlone'
    <2> SUFFICES ASSUME ~met, NEW t \in Savers, step'[t] = "pull request" PROVE Kept(t)'
      BY <1>1 DEF AccumulatesAlone, SaveAt
    <2>1. (On(branch, t)' <=> On(branch, t)) /\ (On(side, t)' <=> On(side, t))
      BY <1>1 DEF On
    <2>2. CASE t = s
      BY <1>1, <2>1, <2>2 DEF Kept, FoundStays
    <2>3. CASE t # s
      <3>1. Kept(t)
        BY <1>2, <2>3 DEF AccumulatesAlone, SaveAt
      <3> QED
        BY <1>1, <2>1, <3>1 DEF Kept
    <2> QED
      BY <2>2, <2>3
  <1> QED
    BY <1>3, <1>4, <1>5, <1>6, <1>7

LEMMA FailKeeps == ASSUME SaveInv, NEW s \in Savers, GitCallFails(s) PROVE SaveInv'
  <1>1. step' = [step EXCEPT ![s] = "error"]
        /\ UNCHANGED <<branch, side, sideRef, pr, base, parent, attempt, checked, turned, met>>
    BY DEF GitCallFails, SaveGoes
  <1> QED
    BY <1>1, RetryKeeps DEF SaveInv, SaveTypeOK

---------------------------------------------------------------------------
\* People.

LEMMA OtherKeeps == ASSUME SaveInv, NEW o \in Others, OtherCommit(o) PROVE SaveInv'
  <1> USE DEF SaveInv
  <1>1. ~On(branch, o) /\ branch' = Append(branch, o)
        /\ UNCHANGED <<side, sideRef, pr, step, base, parent, attempt, checked, turned, met>>
    BY DEF OtherCommit
  <1>2. o \in Authors /\ o \notin Savers /\ branch \in Histories /\ Len(branch) \in Nat
    BY DEF Authors, SaveTypeOK, Histories
  <1>3. /\ branch' \in Histories /\ Len(branch') = Len(branch) + 1
        /\ \A i \in 1..Len(branch) : branch'[i] = branch[i]
        /\ \A b : On(branch', b) <=> On(branch, b) \/ b = o
        /\ Distinct(branch')
    BY <1>1, <1>2, AppendOne DEF RefsDistinct
  <1>4. \A t \in Savers : step[t] \in Landing => ~On(branch', t)
    BY <1>2, <1>3 DEF NotYetLanded
  <1>5. SaveTypeOK'
    BY <1>1, <1>3 DEF SaveTypeOK
  <1>6. NotYetLanded' /\ RefsDistinct' /\ CheckHolds'
    BY <1>1, <1>2, <1>3, <1>4, BranchGrows
  <1>7. OneInFallback' /\ FoundStays'
    BY <1>1 DEF OneInFallback, FoundStays, On
  <1>8. AccumulatesAlone'
    <2> SUFFICES ASSUME ~met, NEW t \in Savers, step[t] = "pull request" PROVE Kept(t)'
      BY <1>1 DEF AccumulatesAlone, SaveAt
    <2>1. Kept(t)
      BY DEF AccumulatesAlone, SaveAt
    <2>2. On(side, t)' <=> On(side, t)
      BY <1>1 DEF On
    <2> QED
      BY <1>1, <1>3, <2>1, <2>2 DEF Kept
  <1> QED
    BY <1>5, <1>6, <1>7, <1>8

\* A review that leaves a change of the side branch on the branch, or turned down.
LEMMA ReviewKeeps ==
  ASSUME SaveInv, Review, branch' \in Histories, Len(branch) <= Len(branch'),
         \A i \in 1..Len(branch) : branch'[i] = branch[i], Distinct(branch'),
         turned \subseteq turned', turned' \subseteq Authors,
         \A a : On(branch', a) => On(branch, a) \/ On(side, a),
         \A a : On(branch, a) => On(branch', a),
         \A a : On(side, a) => On(branch', a) \/ a \in turned'
  PROVE  SaveInv'
  <1> USE DEF SaveInv
  <1>1. pr /\ pr' = FALSE /\ sideRef' \in {sideRef, FALSE}
        /\ met' = (met \/ \E s \in Savers : step[s] \in Fallback)
        /\ UNCHANGED <<side, step, base, parent, attempt, checked>>
    BY DEF Review
  <1>2. SaveTypeOK'
    BY <1>1 DEF SaveTypeOK
  <1>3. \A t \in Savers : step[t] \in Landing => ~On(branch', t)
    BY DEF NotYetLanded
  <1>4. NotYetLanded' /\ RefsDistinct' /\ CheckHolds'
    BY <1>1, <1>3, BranchGrows
  <1>5. OneInFallback' /\ FoundStays'
    BY <1>1 DEF OneInFallback, FoundStays, Fallback
  <1>6. AccumulatesAlone'
    <2> SUFFICES ASSUME ~met, NEW t \in Savers, step[t] = "pull request" PROVE Kept(t)'
      BY <1>1 DEF AccumulatesAlone, SaveAt
    <2>1. Kept(t)
      BY DEF AccumulatesAlone, SaveAt
    <2>2. On(branch', t) \/ t \in turned'
      BY <2>1 DEF Kept
    <2> QED
      BY <2>2 DEF Kept, On
  <1> QED
    BY <1>2, <1>4, <1>5, <1>6

LEMMA MergeKeeps == ASSUME SaveInv, Merge PROVE SaveInv'
  <1> USE DEF SaveInv
  <1> DEFINE new == {i \in DOMAIN side : ~On(branch, side[i])}
  <1>0. PICK n \in 0..Len(side) : \E f \in [1..n -> new] :
          /\ \A i, j \in 1..n : i < j => f[i] < f[j]
          /\ \A k \in new : \E i \in 1..n : f[i] = k
          /\ branch' = branch \o [i \in 1..n |-> side[f[i]]]
    BY DEF Merge
  <1>1. PICK f \in [1..n -> new] :
          /\ \A i, j \in 1..n : i < j => f[i] < f[j]
          /\ \A k \in new : \E i \in 1..n : f[i] = k
          /\ branch' = branch \o [i \in 1..n |-> side[f[i]]]
    BY <1>0
  <1> DEFINE added == [i \in 1..n |-> side[f[i]]]
             m == Len(branch)
  <1>2. side \in Seq(Authors) /\ branch \in Seq(Authors) /\ n \in Nat /\ m \in Nat
        /\ DOMAIN side = 1..Len(side) /\ DOMAIN branch = 1..m
    BY DEF SaveTypeOK, Histories
  <1>3. \A i \in 1..n : f[i] \in DOMAIN side /\ ~On(branch, side[f[i]])
    OBVIOUS
  <1>4. added \in Seq(Authors) /\ Len(added) = n /\ \A i \in 1..n : added[i] = side[f[i]]
    BY <1>2, <1>3
  <1> HIDE DEF added, new
  <1>5. /\ branch' \in Seq(Authors) /\ Len(branch') = m + n
        /\ DOMAIN branch' = 1..(m + n)
        /\ \A i \in 1..m : branch'[i] = branch[i]
        /\ \A i \in (m + 1)..(m + n) : branch'[i] = side[f[i - m]]
    BY <1>1, <1>2, <1>4 DEF added
  <1>6. \A i, j \in 1..n : side[f[i]] = side[f[j]] => i = j
    <2> SUFFICES ASSUME NEW i \in 1..n, NEW j \in 1..n, side[f[i]] = side[f[j]] PROVE i = j
      OBVIOUS
    <2>1. f[i] = f[j]
      BY <1>3 DEF RefsDistinct, Distinct
    <2>2. f[i] \in Nat /\ i \in Nat /\ j \in Nat
      BY <1>2, <1>3
    <2>3. ~(i < j)
      <3>1. i < j => f[i] < f[j] BY <1>1
      <3> QED BY <3>1, <2>1, <2>2
    <2>4. ~(j < i)
      <3>1. j < i => f[j] < f[i] BY <1>1
      <3> QED BY <3>1, <2>1, <2>2
    <2> QED
      BY <2>2, <2>3, <2>4
  <1>7. Distinct(branch')
    <2> SUFFICES ASSUME NEW i \in 1..(m + n), NEW j \in 1..(m + n), branch'[i] = branch'[j]
                 PROVE  i = j
      BY <1>5 DEF Distinct
    <2>1. CASE i \in 1..m /\ j \in 1..m
      BY <1>2, <1>5, <2>1 DEF RefsDistinct, Distinct
    <2>2. CASE i \in 1..m /\ j \in (m + 1)..(m + n)
      <3>1. j - m \in 1..n /\ On(branch, side[f[j - m]])
        <4>1. j - m \in 1..n
          BY <1>2, <2>2
        <4>2. branch[i] = side[f[j - m]] /\ i \in DOMAIN branch
          BY <1>2, <1>5, <2>2
        <4> QED
          BY <4>1, <4>2 DEF On
      <3> QED
        BY <1>3, <3>1
    <2>3. CASE j \in 1..m /\ i \in (m + 1)..(m + n)
      <3>1. i - m \in 1..n /\ On(branch, side[f[i - m]])
        <4>1. i - m \in 1..n
          BY <1>2, <2>3
        <4>2. branch[j] = side[f[i - m]] /\ j \in DOMAIN branch
          BY <1>2, <1>5, <2>3
        <4> QED
          BY <4>1, <4>2 DEF On
      <3> QED
        BY <1>3, <3>1
    <2>4. CASE i \in (m + 1)..(m + n) /\ j \in (m + 1)..(m + n)
      <3>1. i - m \in 1..n /\ j - m \in 1..n /\ side[f[i - m]] = side[f[j - m]]
        BY <1>2, <1>5, <2>4
      <3>2. i - m = j - m
        BY <1>6, <3>1
      <3> QED
        BY <1>2, <3>2
    <2> QED
      BY <1>2, <2>1, <2>2, <2>3, <2>4
  <1>8. ASSUME NEW a, On(branch', a) PROVE On(branch, a) \/ On(side, a)
    <2>1. PICK i \in 1..(m + n) : branch'[i] = a
      BY <1>5, <1>8 DEF On
    <2>2. CASE i \in 1..m
      BY <1>2, <1>5, <2>1, <2>2 DEF On
    <2>3. CASE i \in (m + 1)..(m + n)
      <3>1. i - m \in 1..n
        BY <1>2, <2>3
      <3>2. side[f[i - m]] = a
        BY <1>5, <2>1, <2>3
      <3> QED
        BY <1>3, <3>1, <3>2 DEF On
    <2> QED
      BY <1>2, <2>1, <2>2, <2>3
  <1>9. ASSUME NEW a, On(branch, a) PROVE On(branch', a)
    <2>1. PICK i \in 1..m : branch[i] = a
      BY <1>2, <1>9 DEF On
    <2>2. i \in 1..(m + n)
      BY <1>2
    <2> QED
      BY <1>5, <2>1, <2>2 DEF On
  <1>10. ASSUME NEW a, On(side, a) PROVE On(branch', a)
    <2>1. PICK k \in DOMAIN side : side[k] = a
      BY <1>10 DEF On
    <2>2. CASE On(branch, a)
      BY <1>9, <2>2
    <2>3. CASE ~On(branch, a)
      <3>1. PICK i \in 1..n : f[i] = k
        BY <1>1, <2>1, <2>3 DEF new
      <3>2. m + i \in (m + 1)..(m + n) /\ m + i \in 1..(m + n) /\ (m + i) - m = i
        BY <1>2, <3>1
      <3>3. branch'[m + i] = a
        BY <1>5, <2>1, <3>1, <3>2
      <3> QED
        BY <1>5, <3>2, <3>3 DEF On
    <2> QED
      BY <2>2, <2>3
  <1>11. Review /\ turned' = turned /\ branch' \in Histories /\ Len(branch) <= Len(branch')
         /\ turned' \subseteq Authors
    BY <1>2, <1>5 DEF Merge, Histories, SaveTypeOK
  <1> QED
    BY <1>5, <1>7, <1>8, <1>9, <1>10, <1>11, ReviewKeeps

LEMMA CloseKeeps == ASSUME SaveInv, Close PROVE SaveInv'
  <1>1. Review /\ turned' = turned \cup {side[i] : i \in DOMAIN side} /\ branch' = branch
    BY DEF Close
  <1>2. turned' \subseteq Authors /\ branch \in Histories /\ Len(branch) \in Nat
    BY <1>1 DEF SaveInv, SaveTypeOK, Histories
  <1>3. Distinct(branch)
    BY DEF SaveInv, RefsDistinct
  <1>4. \A a : On(side, a) => a \in turned'
    BY <1>1 DEF On
  <1> QED
    BY <1>1, <1>2, <1>3, <1>4, ReviewKeeps

---------------------------------------------------------------------------
LEMMA SaveStepInv == SaveInv /\ [SaveNext]_saveVars => SaveInv'
  <1> SUFFICES ASSUME SaveInv, [SaveNext]_saveVars PROVE SaveInv'
    OBVIOUS
  <1>1. CASE UNCHANGED saveVars
    <2>1. SaveTypeOK'
      BY <1>1 DEF saveVars, SaveInv, SaveTypeOK
    <2>2. branch \in Histories /\ Distinct(branch) /\ Len(branch) \in Nat
      BY DEF SaveInv, SaveTypeOK, RefsDistinct, Histories
    <2>3. NotYetLanded' /\ RefsDistinct' /\ CheckHolds'
      BY <1>1, <2>2, BranchGrows DEF saveVars, SaveInv, NotYetLanded
    <2>4. OneInFallback' /\ FoundStays' /\ AccumulatesAlone'
      BY <1>1 DEF saveVars, SaveInv, OneInFallback, FoundStays, AccumulatesAlone, Kept, On, SaveAt
    <2> QED
      BY <2>1, <2>3, <2>4 DEF SaveInv
  <1>2. ASSUME NEW s \in Savers, Save(s) PROVE SaveInv'
    BY <1>2, OpenKeeps, CheckKeeps, BuildKeeps, PushKeeps, ListKeeps, SideKeeps, RequestKeeps,
       FailKeeps
    DEF Save
  <1> QED
    BY <1>1, <1>2, OtherKeeps, MergeKeeps, CloseKeeps DEF SaveNext

\* Every step keeps SaveInv.
LEMMA SaveInvariant == SaveSpec => []SaveInv
  BY SaveInitInv, SaveStepInv, PTL DEF SaveSpec

\* The refs, the pull requests and the saves keep their types.
THEOREM SaveTypeCorrect == SaveSpec => []SaveTypeOK
  <1>1. SaveInv => SaveTypeOK
    BY DEF SaveInv
  <1> QED
    BY <1>1, SaveInvariant, PTL

\* No retry of a save puts its change on a ref twice, for any number of saves, other
\* commits, merges and retries.
THEOREM SaveLandsOnce == SaveSpec => []LandsOnce
  <1>1. SaveInv => LandsOnce
    BY DEF SaveInv, RefsDistinct, Distinct, LandsOnce
  <1> QED
    BY <1>1, SaveInvariant, PTL

\* A direct save replaces the version its author saw, or one that came after its conflict
\* check, however often the push was built again.
THEOREM SaveOverwrites == SaveSpec => []OverwritesOnlyInWindow
  <1>1. SaveInv => OverwritesOnlyInWindow
    BY DEF SaveInv, CheckHolds, OverwritesOnlyInWindow, SaveAt
  <1> QED
    BY <1>1, SaveInvariant, PTL

\* A save answered with a pull request stays in it until it is merged or closed, while no
\* save meets another one in the fallback.
THEOREM SavesAccumulate == SaveSpec => []AccumulatesAlone
  <1>1. SaveInv => AccumulatesAlone
    BY DEF SaveInv
  <1> QED
    BY <1>1, SaveInvariant, PTL

=============================================================================
