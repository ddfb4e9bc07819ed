--------------------------- MODULE ContextMirror ----------------------------
(***************************************************************************)
(* What the mirror of a branch promises to those who read it (the context  *)
(* tree, the editor, the checks): whatever handlers are at work, what is   *)
(* shown changes as a whole, from one commit of the branch to another, and *)
(* is exactly that commit as long as nobody rewrote the branch.  The       *)
(* commit shown may be an older one again: webhooks come in any order.     *)
(* After a rewrite it may be part of another commit.                       *)
(***************************************************************************)
CONSTANTS Paths, Contents, Absent, Commits, FirstCommit, NoCommit

VARIABLES
  pushed,    \* the commits there are
  tree,      \* the files of each
  rewritten, \* the branch does not descend from all it was
  shown      \* the commit the mirror claims to show, and the files it shows

vars == <<pushed, tree, rewritten, shown>>

Trees == [Paths -> Contents \cup {Absent}]
PartOf(files, t) == \A p \in Paths : files[p] \in {Absent, t[p]}

Init ==
  /\ pushed = {FirstCommit}
  /\ tree \in [Commits -> Trees]
  /\ rewritten = FALSE
  /\ shown = [commit |-> NoCommit, files |-> [p \in Paths |-> Absent]]

\* The mirror turns to a commit, the whole of it.
Publish ==
  /\ \E c \in pushed : shown' = [commit |-> c, files |-> tree[c]]
  /\ UNCHANGED <<pushed, tree, rewritten>>

\* The branch moves to a commit there is, and leaves others behind.
Rewrite ==
  /\ rewritten' = TRUE
  /\ UNCHANGED <<pushed, tree, shown>>

\* The branch moves to a new commit.
PushCommit ==
  /\ \E c \in Commits \ pushed :
       /\ pushed' = pushed \cup {c}
       /\ \E t \in Trees : tree' = [tree EXCEPT ![c] = t]
  /\ rewritten' \in {rewritten, TRUE}
  /\ UNCHANGED shown

\* What only a rewritten branch brings about: one commit with part of another's files.
PublishPart ==
  /\ rewritten
  /\ \E c, d \in pushed : \E f \in Trees :
       /\ PartOf(f, tree[d])
       /\ shown' = [commit |-> c, files |-> f]
  /\ UNCHANGED <<pushed, tree, rewritten>>

Next == Publish \/ Rewrite \/ PushCommit \/ PublishPart

Spec == Init /\ [][Next]_vars
=============================================================================
