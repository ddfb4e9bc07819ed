----------------------------- MODULE ContextSave ----------------------------
(***************************************************************************)
(* Saving context files from the editor: the conflict check against the    *)
(* connected branch, the commit built on its tip and pushed without force, *)
(* and the fallback, a side branch with one pull request on which the      *)
(* saves accumulate.  Every git call is a step; savers, other committers   *)
(* and reviewers interleave at those points.                               *)
(*                                                                         *)
(* A ref is the sequence of the changes on it, each named by its author, so*)
(* a fast forward is a ref that still is what the commit was built on.     *)
(***************************************************************************)
EXTENDS Naturals, Sequences

CONSTANTS Savers,     \* save operations
          Others,     \* commits of other people to the branch
          Files,      \* context files
          Target,     \* the file each change is about
          MaxRetries  \* MAX_NON_FAST_FORWARD_RETRIES

Authors == Savers \cup Others
Original == "original"   \* the content of a file before all of them

ASSUME DisjointAssumption == Savers \cap Others = {}
ASSUME TargetAssumption == Target \in [Authors -> Files]
ASSUME MaxRetriesAssumption == MaxRetries \in Nat \ {0}

VARIABLES
  branch,   \* the connected branch
  side,     \* the head branch of the pull request
  sideRef,  \* that branch exists
  pr,       \* it has an open pull request
  step,     \* each save's next call
  base,     \* the version of the file its author was shown
  parent,    \* the history the commit object of the save has as its parent
  attempt,  \* pushes tried on the ref at hand
  checked,  \* length of the branch at the conflict check (ghost)
  turned,   \* changes of pull requests that were closed unmerged (ghost)
  met       \* a save met another one, or a review, in the fallback (ghost)

saveVars == <<branch, side, sideRef, pr, step, base, parent, attempt, checked, turned, met>>

SaveSteps == {"open", "check", "build", "push", "list", "rebuild", "advance", "create",
          "reset", "request", "branch", "pull request", "conflict", "error"}
Answers == {"branch", "pull request", "conflict", "error"}
Fallback == {"list", "rebuild", "advance", "create", "reset", "request"}
Histories == Seq(Authors)

SaveTypeOK ==
  /\ branch \in Histories
  /\ side \in Histories
  /\ sideRef \in BOOLEAN
  /\ pr \in BOOLEAN
  /\ step \in [Savers -> SaveSteps]
  /\ base \in [Savers -> Authors \cup {Original}]
  /\ parent \in [Savers -> Histories]
  /\ attempt \in [Savers -> 1..MaxRetries]
  /\ checked \in [Savers -> Nat]
  /\ turned \subseteq Authors
  /\ met \in BOOLEAN

SaveInit ==
  /\ branch = <<>>
  /\ side = <<>>
  /\ sideRef = FALSE
  /\ pr = FALSE
  /\ step = [s \in Savers |-> "open"]
  /\ base = [s \in Savers |-> Original]
  /\ parent = [s \in Savers |-> <<>>]
  /\ attempt = [s \in Savers |-> 1]
  /\ checked = [s \in Savers |-> 0]
  /\ turned = {}
  /\ met = FALSE

On(ref, a) == \E i \in DOMAIN ref : ref[i] = a

\* The version of a file after the first n changes of a ref.
Version(ref, n, p) ==
  LET writes == {i \in 1..n : Target[ref[i]] = p}
      latest == {i \in writes : \A j \in writes : j <= i}
  IN  IF latest = {} THEN Original ELSE CHOOSE a \in {ref[i] : i \in latest} : TRUE

SaveAt(s, st) == step[s] = st
SaveGoes(s, st) == step' = [step EXCEPT ![s] = st]

\* A save enters the fallback while another one is in it.
Meets(s) == \E t \in Savers \ {s} : step[t] \in Fallback

---------------------------------------------------------------------------
\* The author opens the file at some version, perhaps an old one of the mirror.
Open(s) ==
  /\ SaveAt(s, "open")
  /\ \E n \in 0..Len(branch) : base' = [base EXCEPT ![s] = Version(branch, n, Target[s])]
  /\ SaveGoes(s, "check")
  /\ UNCHANGED <<branch, side, sideRef, pr, parent, attempt, checked, turned, met>>

\* Mutant: the remote version is read and not compared.
CheckNothing(s) ==
  /\ SaveAt(s, "check")
  /\ SaveGoes(s, "build")
  /\ checked' = [checked EXCEPT ![s] = Len(branch)]
  /\ UNCHANGED <<branch, side, sideRef, pr, base, parent, attempt, turned, met>>

\* The remote version is the one the author was shown, or the save is refused.
CheckConflict(s) ==
  /\ SaveAt(s, "check")
  /\ SaveGoes(s, IF Version(branch, Len(branch), Target[s]) = base[s]
                   THEN "build" ELSE "conflict")
  /\ checked' = [checked EXCEPT ![s] = Len(branch)]
  /\ UNCHANGED <<branch, side, sideRef, pr, base, parent, attempt, turned, met>>

\* getRef and buildCommitObject on the tip; the publish policy may ask for a pull
\* request at once.
BuildCommit(s) ==
  /\ SaveAt(s, "build")
  /\ parent' = [parent EXCEPT ![s] = branch]
  /\ \/ SaveGoes(s, "push") /\ UNCHANGED met
     \/ SaveGoes(s, "list") /\ met' = (met \/ Meets(s))
  /\ UNCHANGED <<branch, side, sideRef, pr, base, attempt, checked, turned>>

\* updateRef without force; a branch that moved is built upon anew.
PushCommit(s) ==
  /\ SaveAt(s, "push")
  /\ IF branch = parent[s]
       THEN /\ branch' = Append(branch, s)
            /\ SaveGoes(s, "branch")
            /\ UNCHANGED attempt
       ELSE /\ UNCHANGED branch
            /\ IF attempt[s] < MaxRetries
                 THEN SaveGoes(s, "build") /\ attempt' = [attempt EXCEPT ![s] = @ + 1]
                 ELSE SaveGoes(s, "error") /\ UNCHANGED attempt
  /\ UNCHANGED <<side, sideRef, pr, base, parent, checked, turned, met>>

\* A protected branch refuses the push.
PushRefused(s) ==
  /\ SaveAt(s, "push")
  /\ SaveGoes(s, "list")
  /\ met' = (met \/ Meets(s))
  /\ UNCHANGED <<branch, side, sideRef, pr, base, parent, attempt, checked, turned>>

---------------------------------------------------------------------------
\* openPullRequestForCommit.

\* Mutant: an open pull request is not looked for.
ListNothing(s) ==
  /\ SaveAt(s, "list")
  /\ SaveGoes(s, "create")
  /\ UNCHANGED <<branch, side, sideRef, pr, base, parent, attempt, checked, turned, met>>

ListOpen(s) ==
  /\ SaveAt(s, "list")
  /\ IF pr
       THEN SaveGoes(s, "rebuild") /\ attempt' = [attempt EXCEPT ![s] = 1]
       ELSE SaveGoes(s, "create") /\ UNCHANGED attempt
  /\ UNCHANGED <<branch, side, sideRef, pr, base, parent, checked, turned, met>>

\* An open pull request: the change goes on top of what its branch has.
Rebuild(s) ==
  /\ SaveAt(s, "rebuild")
  /\ IF sideRef THEN SaveGoes(s, "advance") /\ parent' = [parent EXCEPT ![s] = side]
                ELSE SaveGoes(s, "error") /\ UNCHANGED parent
  /\ UNCHANGED <<branch, side, sideRef, pr, base, attempt, checked, turned, met>>

\* Mutant: a push that succeeded is tried again.
AdvanceTwice(s) ==
  /\ SaveAt(s, "advance")
  /\ side' = Append(side, s)
  /\ SaveGoes(s, "rebuild") \/ SaveGoes(s, "pull request")
  /\ UNCHANGED <<branch, sideRef, pr, base, parent, attempt, checked, turned, met>>

AdvanceSide(s) ==
  /\ SaveAt(s, "advance")
  /\ IF sideRef /\ side = parent[s]
       THEN /\ side' = Append(side, s)
            /\ SaveGoes(s, "pull request")
            /\ UNCHANGED attempt
       ELSE /\ UNCHANGED side
            /\ IF sideRef /\ attempt[s] < MaxRetries
                 THEN SaveGoes(s, "rebuild") /\ attempt' = [attempt EXCEPT ![s] = @ + 1]
                 ELSE SaveGoes(s, "error") /\ UNCHANGED attempt
  /\ UNCHANGED <<branch, sideRef, pr, base, parent, checked, turned, met>>

\* None open: the side branch is created from the commit built on the branch ...
CreateSide(s) ==
  /\ SaveAt(s, "create")
  /\ IF sideRef
       THEN SaveGoes(s, "reset") /\ UNCHANGED <<side, sideRef>>
       ELSE SaveGoes(s, "request") /\ side' = Append(parent[s], s) /\ sideRef' = TRUE
  /\ UNCHANGED <<branch, pr, base, parent, attempt, checked, turned, met>>

\* ... or, as it exists, reset to it by force.
ResetSide(s) ==
  /\ SaveAt(s, "reset")
  /\ IF sideRef THEN side' = Append(parent[s], s) /\ SaveGoes(s, "request")
                ELSE SaveGoes(s, "error") /\ UNCHANGED side
  /\ UNCHANGED <<branch, sideRef, pr, base, parent, attempt, checked, turned, met>>

\* pulls.create, or the pull request a concurrent save has opened in the meantime.
RequestReview(s) ==
  /\ SaveAt(s, "request")
  /\ pr' = TRUE
  /\ SaveGoes(s, "pull request")
  /\ UNCHANGED <<branch, side, sideRef, base, parent, attempt, checked, turned, met>>

\* Any call fails for another reason, the last one also when it finds neither.
GitCallFails(s) ==
  /\ step[s] \in {"check", "build", "push"} \cup Fallback
  /\ SaveGoes(s, "error")
  /\ UNCHANGED <<branch, side, sideRef, pr, base, parent, attempt, checked, turned, met>>

---------------------------------------------------------------------------
\* People: a commit to the branch, a merge, a pull request closed, a branch deleted.

OtherCommit(o) ==
  /\ ~On(branch, o)
  /\ branch' = Append(branch, o)
  /\ UNCHANGED <<side, sideRef, pr, step, base, parent, attempt, checked, turned, met>>

\* A review ends the pull request; the side branch may be deleted with it.
Review ==
  /\ pr
  /\ pr' = FALSE
  /\ sideRef' \in {sideRef, FALSE}
  /\ met' = (met \/ \E s \in Savers : step[s] \in Fallback)
  /\ UNCHANGED <<side, step, base, parent, attempt, checked>>

\* The changes of the side branch that the branch lacks, in their order.
Merge ==
  /\ Review
  /\ LET new == {i \in DOMAIN side : ~On(branch, side[i])}
     IN  \E n \in 0..Len(side) : \E f \in [1..n -> new] :
           /\ \A i, j \in 1..n : i < j => f[i] < f[j]
           /\ \A k \in new : \E i \in 1..n : f[i] = k
           /\ branch' = branch \o [i \in 1..n |-> side[f[i]]]
  /\ UNCHANGED turned

Close ==
  /\ Review
  /\ turned' = turned \cup {side[i] : i \in DOMAIN side}
  /\ UNCHANGED branch

Save(s) ==
  \/ Open(s) \/ CheckConflict(s) \/ BuildCommit(s) \/ PushCommit(s) \/ PushRefused(s)
  \/ ListOpen(s) \/ Rebuild(s) \/ AdvanceSide(s) \/ CreateSide(s) \/ ResetSide(s)
  \/ RequestReview(s) \/ GitCallFails(s)

SaveNext ==
  (\E s \in Savers : Save(s)) \/ (\E o \in Others : OtherCommit(o)) \/ Merge \/ Close

SaveSpec == SaveInit /\ [][SaveNext]_saveVars

---------------------------------------------------------------------------
\* A change is on a ref at most once, through every retry and both ways to land.
LandsOnce ==
  \A ref \in {branch, side} : \A i, j \in DOMAIN ref : ref[i] = ref[j] => i = j

\* The version a direct save puts its own in place of is the one its author was
\* shown, or came to the branch after the check: the window the code documents,
\* and nothing wider, however often the push was rebuilt.
OverwritesOnlyInWindow ==
  \A s \in Savers :
    SaveAt(s, "branch") => Version(branch, checked[s], Target[s]) = base[s]

\* Where a save that was answered with a pull request may be.
Kept(s) == On(branch, s) \/ s \in turned \/ (pr /\ On(side, s))

\* A save answered with a pull request is in the open one until it is merged or
\* turned down, provided that no save met another one or a review on its way.
AccumulatesAlone == met \/ \A s \in Savers : SaveAt(s, "pull request") => Kept(s)

\* "so an earlier save on the same branch stays in the PR": the same for saves that
\* do meet.
EarlierSaveStays == \A s \in Savers : SaveAt(s, "pull request") => Kept(s)
=============================================================================
