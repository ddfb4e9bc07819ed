----------------------------- MODULE MCServices -----------------------------
(***************************************************************************)
(* The services around the worker runs, which share no state with one      *)
(* another, in one run of TLC: an initial state picks the service that     *)
(* runs, and the variables of the others stay as they are.                 *)
(***************************************************************************)
EXTENDS ContextSave, PrComment, PrQueue, ArtifactBlobs, CliSync, ArtifactSpool,
        SessionPersist, UsageMeter, TLC

CONSTANTS s1, s2, s3, o1, p1,   \* ContextSave
          c1, c2, t1,           \* PrComment
          n1, n2, n3, k1, k2,   \* PrQueue
          a1, a2, q1, q2, q3,   \* ArtifactBlobs
          f1, f2, y1, y2,       \* CliSync
          e1, e2, u1, u2,       \* ArtifactSpool
          x1, x2, g1, g2        \* UsageMeter

VARIABLE service

serviceVars == <<service, saveVars, commentVars, queueVars, blobVars, syncVars, spoolVars,
                 persistVars, meterVars>>

\* All saves are about one file.
OneFile == [a \in Savers \cup Others |-> p1]
\* Two messages of one pull request and one of another.
PullOfNotice == n1 :> "pull 1" @@ n2 :> "pull 2" @@ n3 :> "pull 1"
\* One artifact emitted once, another twice.
ArtifactOf == q1 :> a1 @@ q2 :> a2 @@ q3 :> a2
\* One transcript that fits a request, one of two parts.
PartsOf == f1 :> 1 @@ f2 :> 2
\* Two emits of the same bytes.
OneHash == [e \in {e1, e2} |-> "sha"]
\* Two customers.
TwoCustomers == x1 :> g1 @@ x2 :> g2

\* Only one service leaves its initial state, so the symmetries of all can be taken at
\* once: one permutation swaps a pair of each.
Pairs == {<<s2, s3>>, <<c1, c2>>, <<k1, k2>>, <<y1, y2>>, <<e1, e2>>, <<u1, u2>>,
          <<x1, x2>>, <<g1, g2>>}
Swapped == {pair[1] : pair \in Pairs} \cup {pair[2] : pair \in Pairs}
Symmetry ==
  {[v \in Swapped |-> IF same THEN v
                      ELSE CHOOSE w \in Swapped : <<v, w>> \in Pairs \/ <<w, v>> \in Pairs] :
     same \in BOOLEAN}

\* The comment with every fault, for one call and a sweep.
AllFaults == INSTANCE PrComment WITH Happens <- Faults

\* A bound of the instance: the first save has ended when the other two are made.
FirstSave == step[s1] \in Answers \/ (step'[s2] = "open" /\ step'[s3] = "open")

ServicesInit ==
  /\ service \in {"save", "comment", "comment and faults", "queue", "blobs", "sync", "spool",
                  "persist", "meter"}
  /\ SaveInit /\ CommentInit /\ QueueInit /\ BlobInit /\ SyncInit /\ SpoolInit
  /\ PersistInit /\ MeterInit
  \* The initial states of a service that does not run do not matter.
  /\ service # "blobs" => sweep.row = a1
  /\ service # "persist" => timed /\ begun

ServicesNext ==
  /\ UNCHANGED service
  /\ IF service = "save" THEN SaveNext /\ FirstSave ELSE UNCHANGED saveVars
  /\ IF service = "comment" THEN CommentNext
     ELSE IF service = "comment and faults" THEN AllFaults!CommentNext /\ doing'[c2] = "idle"
     ELSE UNCHANGED commentVars
  /\ IF service = "queue" THEN QueueNext ELSE UNCHANGED queueVars
  /\ IF service = "blobs" THEN BlobNext ELSE UNCHANGED blobVars
  /\ IF service = "sync" THEN SyncNext ELSE UNCHANGED syncVars
  /\ IF service = "spool" THEN SpoolNext ELSE UNCHANGED spoolVars
  /\ IF service = "persist" THEN PersistNext ELSE UNCHANGED persistVars
  /\ IF service = "meter" THEN MeterNext ELSE UNCHANGED meterVars

ServicesSpec == ServicesInit /\ [][ServicesNext]_serviceVars
=============================================================================
