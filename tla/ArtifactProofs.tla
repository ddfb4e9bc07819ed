--------------------------- MODULE ArtifactProofs ---------------------------
(***************************************************************************)
(* Proofs about artifacts.  First ArtifactSpool: what was spooled is stored*)
(* or still there.  Then ArtifactBlobs: the sweep of one claim costs no    *)
(* other artifact its bytes, and leaves none behind.                       *)
(***************************************************************************)
EXTENDS ArtifactSpool, ArtifactBlobs, TLAPS

\* Stored, rejected, or appended across a cleanup: the spool owes record i nothing more.
Settled(i) == spool[i] \in received \cup given \cup raced

\* The watermark passes only what is settled, and the rest has its bytes.
PassedIsSettled == \A i \in 1..offset : Settled(i)
OwedHasBytes == \A i \in DOMAIN spool : Settled(i) \/ Sha[spool[i]] \in blobs
SpooledOnce == \A i \in DOMAIN spool : emitting[spool[i]] = "spooled"

\* What a sync knows stays true under it, whatever the other syncs do.
PlanOK(u) ==
  /\ \A i \in 1..from[u] : Settled(i)
  /\ known[u] \subseteq received
  /\ \A i \in Noted(u) : outcome[u][i - from[u]] # "held" => Settled(i)
  /\ \A i \in Noted(u) : outcome[u][i - from[u]] = "uploaded" => spool[i] \in received
  /\ \A i \in DOMAIN spool : Sha[spool[i]] \in doomed[u] => Settled(i)
  /\ uploading[u] = "idle" => outcome[u] = <<>>
  /\ uploading[u] # "clean" => doomed[u] = {}
  /\ uploading[u] \in {"clean", "keep", "mark"} => Len(outcome[u]) = to[u] - from[u]

\* SpoolTypeOK, as far as it is about a sync.
PlanTyped(u) ==
  /\ from[u] \in Nat /\ to[u] \in Nat
  /\ known[u] \subseteq Commands /\ doomed[u] \subseteq Shas
  /\ outcome[u] \in Seq(Outcomes)
  /\ from[u] + Len(outcome[u]) <= to[u] /\ to[u] <= Len(spool)
  /\ doomed[u] \subseteq ShasAt(With(u, {"uploaded", "dead"}))

PlanFunctions ==
  /\ from \in [Uploads -> Nat] /\ to \in [Uploads -> Nat]
  /\ known \in [Uploads -> SUBSET Commands] /\ doomed \in [Uploads -> SUBSET Shas]
  /\ outcome \in [Uploads -> Seq(Outcomes)]

SpoolInv ==
  /\ SpoolTypeOK
  /\ ids \subseteq received
  /\ PassedIsSettled /\ OwedHasBytes /\ SpooledOnce
  /\ \A u \in Uploads : PlanOK(u)

---------------------------------------------------------------------------
\* At the start nothing is spooled.
LEMMA SpoolInitInv == SpoolInit => SpoolInv
<1> SUFFICES ASSUME SpoolInit PROVE SpoolInv OBVIOUS
<1>1. spool = <<>> /\ Len(spool) = 0 /\ DOMAIN spool = {} /\ offset = 0 /\ 1..offset = {}
  BY DEF SpoolInit
<1>2. ASSUME NEW u \in Uploads PROVE PlanTyped(u) /\ PlanOK(u)
  <2>1. outcome[u] = <<>> /\ Len(outcome[u]) = 0 /\ Noted(u) = {} /\ from[u] = 0 /\ to[u] = 0
        /\ doomed[u] = {} /\ known[u] = {} /\ uploading[u] = "idle" /\ 1..from[u] = {}
    BY <1>2 DEF SpoolInit, Noted
  <2> QED BY <1>1, <2>1 DEF PlanTyped, PlanOK, Outcomes
<1>3. SpoolTypeOK
  BY <1>1, <1>2 DEF SpoolInit, SpoolTypeOK, PlanTyped
<1> QED
  BY <1>1, <1>2, <1>3 DEF SpoolInv, SpoolInit, PassedIsSettled, OwedHasBytes, SpooledOnce

\* The records of a plan are records, and a noted one is one of them.
LEMMA NotedIsThere ==
  ASSUME SpoolTypeOK, NEW u \in Uploads
  PROVE  /\ PlanTyped(u)
         /\ from[u] \in Nat /\ to[u] \in Nat /\ Len(outcome[u]) \in Nat
         /\ from[u] + Len(outcome[u]) <= to[u] /\ to[u] <= Len(spool)
         /\ \A i \in Noted(u) : i \in DOMAIN spool /\ i - from[u] \in DOMAIN outcome[u]
<1>1. PlanTyped(u) BY DEF SpoolTypeOK, PlanTyped
<1>2. /\ from[u] \in Nat /\ to[u] \in Nat /\ Len(outcome[u]) \in Nat /\ Len(spool) \in Nat
      /\ from[u] <= to[u] /\ to[u] <= Len(spool)
  BY <1>1 DEF PlanTyped, SpoolTypeOK
<1>3. from[u] + Len(outcome[u]) <= to[u]
  BY <1>1 DEF PlanTyped
<1>4. ASSUME NEW i \in Noted(u) PROVE i \in DOMAIN spool /\ i - from[u] \in DOMAIN outcome[u]
  <2>1. outcome[u] \in Seq(Outcomes) /\ spool \in Seq(Commands) BY <1>1 DEF PlanTyped, SpoolTypeOK
  <2> QED BY <1>2, <1>3, <1>4, <2>1 DEF Noted
<1> QED BY <1>1, <1>2, <1>3, <1>4

\* A sync that keeps its plan keeps what it knows, as the spool and what is settled grow.
LEMMA PlanKeeps ==
  ASSUME SpoolInv, NEW u \in Uploads,
         from[u]' = from[u], to[u]' = to[u], known[u]' = known[u], outcome[u]' = outcome[u],
         doomed[u]' = doomed[u], uploading[u]' = uploading[u],
         spool' \in Seq(Commands), Len(spool) <= Len(spool'),
         \A i \in DOMAIN spool : spool[i]' = spool[i],
         received \subseteq received', given \subseteq given', raced \subseteq raced',
         \A i \in DOMAIN spool' \ DOMAIN spool : Sha[spool[i]'] \in doomed[u] => Settled(i)'
  PROVE  PlanTyped(u)' /\ PlanOK(u)'
<1>1. SpoolTypeOK /\ PlanOK(u) BY DEF SpoolInv
<1>2. PlanTyped(u) /\ from[u] \in Nat /\ to[u] \in Nat /\ to[u] <= Len(spool) /\ from[u] <= to[u]
  BY <1>1, NotedIsThere DEF PlanTyped
<1>3. \A i \in Noted(u) : i \in DOMAIN spool BY <1>1, NotedIsThere
<1>4. Len(spool') \in Nat /\ Len(spool) \in Nat BY <1>1 DEF SpoolTypeOK
<1>5. \A i \in DOMAIN spool : Settled(i) => Settled(i)' BY DEF Settled
<1>6. Noted(u)' = Noted(u) BY DEF Noted
<1>8. With(u, {"uploaded", "dead"})' = With(u, {"uploaded", "dead"})
  BY <1>6 DEF With
<1>9. ShasAt(With(u, {"uploaded", "dead"}))' = ShasAt(With(u, {"uploaded", "dead"}))
  BY <1>8, <1>3 DEF ShasAt, With
<1>10. PlanTyped(u)'
  BY <1>2, <1>4, <1>6, <1>9 DEF PlanTyped
<1>11. \A i \in 1..from[u] : i \in DOMAIN spool BY <1>1, <1>2, <1>4 DEF SpoolTypeOK
<1>12. PlanOK(u)'
  BY <1>1, <1>3, <1>5, <1>6, <1>11 DEF PlanOK
<1> QED BY <1>10, <1>12

---------------------------------------------------------------------------
\* An emit leaves the records as they are, and takes no bytes a record is owed
\* without its being marked as crossed.
LEMMA EmitKeeps ==
  ASSUME SpoolInv, UNCHANGED <<spool, offset, ids, received, uploading, plan, given>>,
         raced \subseteq raced', raced' \subseteq Commands, blobs' \subseteq Shas,
         emitting' \in [Commands -> {"idle", "write", "append", "spooled", "failed", "killed"}],
         own' \in [Commands -> BOOLEAN],
         \A d \in Commands : emitting[d] = "spooled" => emitting[d]' = "spooled",
         \A i \in DOMAIN spool : Sha[spool[i]] \in blobs => Sha[spool[i]] \in blobs' \/ spool[i] \in raced'
  PROVE  SpoolInv'
<1>1. SpoolTypeOK BY DEF SpoolInv
<1>2. ASSUME NEW u \in Uploads PROVE PlanTyped(u)' /\ PlanOK(u)'
  <2>1. /\ from[u]' = from[u] /\ to[u]' = to[u] /\ known[u]' = known[u] /\ outcome[u]' = outcome[u]
        /\ doomed[u]' = doomed[u] /\ uploading[u]' = uploading[u]
        /\ spool' \in Seq(Commands) /\ Len(spool) <= Len(spool')
    BY <1>1 DEF plan, SpoolTypeOK
  <2> HIDE DEF SpoolInv
  <2> QED BY <1>2, <2>1, PlanKeeps
<1>3. SpoolTypeOK'
  BY <1>1, <1>2 DEF SpoolTypeOK, PlanTyped, plan, Shas
<1>4. \A i \in DOMAIN spool : Settled(i) => Settled(i)' BY DEF Settled
<1>5. PassedIsSettled'
  <2>1. \A i \in 1..offset : i \in DOMAIN spool BY <1>1 DEF SpoolTypeOK
  <2> QED BY <2>1, <1>4 DEF SpoolInv, PassedIsSettled
<1>6. OwedHasBytes' BY <1>4 DEF SpoolInv, OwedHasBytes, Settled
<1>7. SpooledOnce'
  <2>1. \A i \in DOMAIN spool : spool[i] \in Commands BY <1>1 DEF SpoolTypeOK
  <2> QED BY <2>1 DEF SpoolInv, SpooledOnce
<1> QED BY <1>2, <1>3, <1>5, <1>6, <1>7 DEF SpoolInv

LEMMA EmitsKeep ==
  ASSUME SpoolInv, NEW e \in Commands,
         LookForBlob(e) \/ WriteBlob(e) \/ AppendFails(e) \/ EmitKilled(e)
  PROVE  SpoolInv'
<1>1. SpoolTypeOK BY DEF SpoolInv
<1>2. \A i \in DOMAIN spool : spool[i] \in Commands /\ emitting[spool[i]] = "spooled"
  BY <1>1 DEF SpoolInv, SpoolTypeOK, SpooledOnce
<1>3. Sha[e] \in Shas BY DEF Shas
<1>4. CASE LookForBlob(e)
  BY <1>1, <1>4, EmitKeeps DEF LookForBlob, Emit, files, SpoolTypeOK
<1>5. CASE WriteBlob(e)
  <2>1. UNCHANGED <<spool, offset, ids, received, uploading, plan, given, raced>>
    BY <1>5 DEF WriteBlob
  <2>2. blobs' = blobs \cup {Sha[e]} /\ blobs' \subseteq Shas BY <1>1, <1>3, <1>5 DEF WriteBlob, SpoolTypeOK
  <2>3. emitting[e] = "write" /\ emitting' = [emitting EXCEPT ![e] = "append"]
        /\ own' = [own EXCEPT ![e] = TRUE]
    BY <1>5 DEF WriteBlob, Emit
  <2> QED BY <1>1, <2>1, <2>2, <2>3, EmitKeeps DEF SpoolTypeOK
<1>6. CASE AppendFails(e)
  <2>1. UNCHANGED <<spool, offset, ids, received, uploading, plan, given, own>>
    BY <1>6 DEF AppendFails
  <2>2. blobs \subseteq Shas /\ blobs' \in {blobs, blobs \ {Sha[e]}} /\ (~own[e] => blobs' = blobs)
    BY <1>1, <1>6 DEF AppendFails, SpoolTypeOK
  <2>3. /\ raced \subseteq raced' /\ raced' \subseteq Commands
        /\ own[e] => \A d \in Commands : emitting[d] = "spooled" /\ Sha[d] = Sha[e] => d \in raced'
    BY <1>1, <1>6 DEF AppendFails, SpoolTypeOK
  <2>4. emitting[e] = "append" /\ emitting' = [emitting EXCEPT ![e] = "failed"]
    BY <1>6 DEF AppendFails, Emit
  <2>5. \A i \in DOMAIN spool :
          Sha[spool[i]] \in blobs => Sha[spool[i]] \in blobs' \/ spool[i] \in raced'
    BY <1>2, <2>2, <2>3
  <2>6. blobs' \subseteq Shas BY <2>2
  <2> QED BY <1>1, <2>1, <2>3, <2>4, <2>5, <2>6, EmitKeeps DEF SpoolTypeOK
<1>7. CASE EmitKilled(e)
  BY <1>1, <1>7, EmitKeeps DEF EmitKilled, files, SpoolTypeOK
<1> QED BY <1>4, <1>5, <1>6, <1>7

\* A record appended when a cleanup has its bytes in hand is marked as crossed.
LEMMA AppendKeeps == ASSUME SpoolInv, NEW e \in Commands, AppendRecord(e) PROVE SpoolInv'
<1>1. SpoolTypeOK BY DEF SpoolInv
<1>2. /\ UNCHANGED <<blobs, offset, ids, received, own, uploading, plan, given>>
      /\ emitting' = [emitting EXCEPT ![e] = "spooled"] /\ spool' = Append(spool, e)
      /\ raced \subseteq raced' /\ raced' \subseteq Commands
      /\ Sha[e] \notin blobs \/ (\E u \in Uploads : Sha[e] \in doomed[u]) => e \in raced'
  BY <1>1 DEF AppendRecord, Emit, SpoolTypeOK
<1>3. /\ spool' \in Seq(Commands) /\ Len(spool) \in Nat /\ Len(spool') = Len(spool) + 1
      /\ \A i \in DOMAIN spool : spool[i]' = spool[i] /\ i \in DOMAIN spool'
      /\ \A i \in DOMAIN spool' \ DOMAIN spool : spool[i]' = e
      /\ \A i \in DOMAIN spool : spool[i] \in Commands
  BY <1>1, <1>2 DEF SpoolTypeOK
<1>4. \A i \in DOMAIN spool' \ DOMAIN spool : e \in raced' => Settled(i)'
  BY <1>3 DEF Settled
<1>5. ASSUME NEW u \in Uploads PROVE PlanTyped(u)' /\ PlanOK(u)'
  <2>1. \A i \in DOMAIN spool' \ DOMAIN spool : Sha[spool[i]'] \in doomed[u] => Settled(i)'
    BY <1>2, <1>3, <1>4, <1>5
  <2>2. /\ from[u]' = from[u] /\ to[u]' = to[u] /\ known[u]' = known[u] /\ outcome[u]' = outcome[u]
        /\ doomed[u]' = doomed[u] /\ uploading[u]' = uploading[u]
    BY <1>2 DEF plan
  <2>3. Len(spool) <= Len(spool') /\ received \subseteq received' /\ given \subseteq given'
    BY <1>2, <1>3
  <2> QED BY <1>2, <1>3, <1>5, <2>1, <2>2, <2>3, PlanKeeps
<1>6. SpoolTypeOK'
  <2>1. offset' \in 0..Len(spool') BY <1>1, <1>2, <1>3 DEF SpoolTypeOK
  <2> QED BY <1>1, <1>2, <1>3, <1>5, <2>1 DEF SpoolTypeOK, PlanTyped, plan, Shas
<1>7. \A i \in DOMAIN spool : Settled(i) => Settled(i)' BY <1>2, <1>3 DEF Settled
<1>8. PassedIsSettled'
  <2>1. \A i \in 1..offset : i \in DOMAIN spool BY <1>1 DEF SpoolTypeOK
  <2> QED BY <2>1, <1>2, <1>7 DEF SpoolInv, PassedIsSettled
<1>9. OwedHasBytes' BY <1>2, <1>3, <1>4, <1>7 DEF SpoolInv, OwedHasBytes
<1>10. SpooledOnce' BY <1>1, <1>2, <1>3 DEF SpoolInv, SpooledOnce, SpoolTypeOK
<1>11. ids' \subseteq received' BY <1>2 DEF SpoolInv
<1> QED BY <1>5, <1>6, <1>8, <1>9, <1>10, <1>11 DEF SpoolInv

---------------------------------------------------------------------------
\* A step of one sync: the others keep their plans, and what is settled stays so.
LEMMA SyncKeeps ==
  ASSUME SpoolInv, NEW u \in Uploads, UNCHANGED <<spool, emitting, own, raced>>,
         \A v \in Uploads \ {u} :
           /\ from[v]' = from[v] /\ to[v]' = to[v] /\ known[v]' = known[v]
           /\ outcome[v]' = outcome[v] /\ doomed[v]' = doomed[v] /\ uploading[v]' = uploading[v],
         uploading' \in [Uploads -> {"idle", "ids", "send", "refused", "scan", "clean", "keep",
                                     "mark", "done", "killed"}],
         PlanFunctions', PlanTyped(u)', PlanOK(u)',
         received \subseteq received', received' \subseteq Commands,
         given \subseteq given', given' \subseteq Commands,
         blobs' \subseteq blobs,
         \A i \in DOMAIN spool : Sha[spool[i]] \in blobs => Sha[spool[i]] \in blobs' \/ Settled(i),
         offset' \in 0..Len(spool), \A i \in 1..offset' : Settled(i)',
         ids' \subseteq received'
  PROVE  SpoolInv'
<1>1. SpoolTypeOK BY DEF SpoolInv
<1>2. ASSUME NEW v \in Uploads PROVE PlanTyped(v)' /\ PlanOK(v)'
  <2>1. CASE v = u BY <2>1
  <2>2. CASE v # u
    <3>1. spool' \in Seq(Commands) /\ Len(spool) <= Len(spool') BY <1>1 DEF SpoolTypeOK
    <3> QED BY <1>2, <2>2, <3>1, PlanKeeps
  <2> QED BY <2>1, <2>2
<1>3. SpoolTypeOK'
  BY <1>1, <1>2 DEF SpoolTypeOK, PlanTyped, PlanFunctions, Shas
<1>4. \A i \in DOMAIN spool : Settled(i) => Settled(i)' BY DEF Settled
<1>5. PassedIsSettled' BY DEF PassedIsSettled
<1>6. OwedHasBytes' BY <1>4 DEF SpoolInv, OwedHasBytes
<1>7. SpooledOnce' BY DEF SpoolInv, SpooledOnce
<1> QED BY <1>2, <1>3, <1>5, <1>6, <1>7 DEF SpoolInv

\* A step that changes only where a sync is and what it knows.
LEMMA PlanMoves ==
  ASSUME SpoolInv, NEW u \in Uploads,
         UNCHANGED <<spool, blobs, offset, emitting, own, raced>>,
         \A v \in Uploads \ {u} :
           /\ from[v]' = from[v] /\ to[v]' = to[v] /\ known[v]' = known[v]
           /\ outcome[v]' = outcome[v] /\ doomed[v]' = doomed[v] /\ uploading[v]' = uploading[v],
         uploading' \in [Uploads -> {"idle", "ids", "send", "refused", "scan", "clean", "keep",
                                     "mark", "done", "killed"}],
         PlanFunctions', PlanTyped(u)', PlanOK(u)',
         received \subseteq received', received' \subseteq Commands,
         given \subseteq given', given' \subseteq Commands,
         ids' \subseteq received'
  PROVE  SpoolInv'
<1>1. SpoolTypeOK BY DEF SpoolInv
<1>2. offset' \in 0..Len(spool) /\ \A i \in 1..offset' : Settled(i)'
  BY <1>1 DEF SpoolInv, SpoolTypeOK, PassedIsSettled, Settled
<1> QED BY <1>2, SyncKeeps

\* The outcome of one more record: settled unless the record is held.
LEMMA NoteKeeps ==
  ASSUME SpoolInv, NEW u \in Uploads, NEW o \in Outcomes, uploading[u] = "send",
         Here(u) <= to[u], Notes(u, o),
         UNCHANGED <<files, emitting, own, uploading, from, to, known, doomed, raced>>,
         received \subseteq received', received' \subseteq Commands,
         given \subseteq given', given' \subseteq Commands,
         o # "held" => spool[Here(u)] \in received' \cup given' \cup raced',
         o = "uploaded" => spool[Here(u)] \in received'
  PROVE  SpoolInv'
<1>1. SpoolTypeOK /\ PlanOK(u) BY DEF SpoolInv
<1>2. /\ PlanTyped(u) /\ from[u] \in Nat /\ to[u] \in Nat /\ Len(outcome[u]) \in Nat
      /\ from[u] + Len(outcome[u]) <= to[u] /\ to[u] <= Len(spool)
      /\ \A i \in Noted(u) : i \in DOMAIN spool /\ i - from[u] \in DOMAIN outcome[u]
  BY <1>1, NotedIsThere
<1>3. outcome[u]' = Append(outcome[u], o) /\ \A v \in Uploads \ {u} : outcome[v]' = outcome[v]
  <2>1. \A v \in Uploads : v \in DOMAIN outcome BY <1>1 DEF SpoolTypeOK
  <2> QED BY <2>1 DEF Notes
<1>4. /\ outcome[u]' \in Seq(Outcomes) /\ Len(outcome[u]') = Len(outcome[u]) + 1
      /\ \A n \in DOMAIN outcome[u] : outcome[u]'[n] = outcome[u][n]
      /\ outcome[u]'[Len(outcome[u]) + 1] = o
  BY <1>2, <1>3 DEF PlanTyped
<1>5. /\ Noted(u)' = Noted(u) \cup {Here(u)} /\ Here(u) \in DOMAIN spool
      /\ Here(u) - from[u] = Len(outcome[u]) + 1
  <2>1. Here(u) = from[u] + Len(outcome[u]) + 1 BY DEF Here
  <2>2. from[u]' = from[u] OBVIOUS
  <2>3. Noted(u)' = (from[u] + 1)..(from[u] + Len(outcome[u]')) BY <2>2 DEF Noted
  <2>4. Noted(u)' = ((from[u] + 1)..(from[u] + Len(outcome[u]))) \cup {Here(u)}
    <3> DEFINE a == from[u]
               n == Len(outcome[u])
    <3>1. (a + 1)..(a + (n + 1)) = ((a + 1)..(a + n)) \cup {a + n + 1}
      <4>1. a \in Nat /\ n \in Nat BY <1>2
      <4> HIDE DEF a, n
      <4> QED BY <4>1
    <3>2. Noted(u)' = (a + 1)..(a + (n + 1)) BY <2>3, <1>4
    <3> QED BY <3>1, <3>2, <2>1
  <2>5. Here(u) \in 1..Len(spool) /\ Here(u) - from[u] = Len(outcome[u]) + 1
    BY <2>1, <1>1, <1>2 DEF SpoolTypeOK
  <2>6. DOMAIN spool = 1..Len(spool) BY <1>1 DEF SpoolTypeOK
  <2> QED BY <2>4, <2>5, <2>6 DEF Noted
<1>6. \A i \in DOMAIN spool : Settled(i) => Settled(i)' BY DEF Settled, files
<1>7. ASSUME NEW i \in Noted(u)'
      PROVE  /\ i \in DOMAIN spool
             /\ outcome[u]'[i - from[u]] # "held" => Settled(i)'
             /\ outcome[u]'[i - from[u]] = "uploaded" => spool[i] \in received'
  <2>1. CASE i = Here(u)
    BY <2>1, <1>4, <1>5 DEF files, Settled
  <2>2. CASE i \in Noted(u)
    <3>1. outcome[u]'[i - from[u]] = outcome[u][i - from[u]] /\ i \in DOMAIN spool
      BY <2>2, <1>2, <1>4
    <3> QED BY <2>2, <3>1, <1>1, <1>6 DEF PlanOK
  <2> QED BY <2>1, <2>2, <1>5, <1>7
<1>8. doomed[u] = {} BY <1>1 DEF PlanOK
<1>9. PlanTyped(u)'
  BY <1>2, <1>4, <1>8 DEF PlanTyped, Here, files
<1>10. PlanOK(u)'
  <2>1. \A i \in 1..from[u] : i \in DOMAIN spool BY <1>1, <1>2 DEF SpoolTypeOK
  <2> QED BY <1>1, <1>6, <1>7, <1>8, <2>1 DEF PlanOK, files
<1>11. PlanFunctions'
  BY <1>1, <1>3, <1>4 DEF PlanFunctions, SpoolTypeOK, Notes
<1>12. ids' \subseteq received' BY DEF SpoolInv, files
<1>13. \A v \in Uploads \ {u} :
         /\ from[v]' = from[v] /\ to[v]' = to[v] /\ known[v]' = known[v]
         /\ outcome[v]' = outcome[v] /\ doomed[v]' = doomed[v] /\ uploading[v]' = uploading[v]
  BY <1>3
<1>14. UNCHANGED <<spool, blobs, offset, emitting, own, raced>> BY DEF files
<1>15. uploading' \in [Uploads -> {"idle", "ids", "send", "refused", "scan", "clean", "keep",
                                   "mark", "done", "killed"}]
  BY <1>1 DEF SpoolTypeOK
<1> QED BY <1>9, <1>10, <1>11, <1>12, <1>13, <1>14, <1>15, PlanMoves

LEMMA RecordsKeep ==
  ASSUME SpoolInv, NEW u \in Uploads,
         PassRecord(u) \/ SendRecord(u) \/ RejectRecord(u) \/ HoldRecord(u)
  PROVE  SpoolInv'
<1>1. SpoolTypeOK /\ PlanOK(u) /\ OwedHasBytes BY DEF SpoolInv
<1>2. uploading[u] = "send" /\ Here(u) <= to[u]
      /\ UNCHANGED <<files, emitting, own, uploading, from, to, known, doomed, raced>>
  <2>1. CASE PassRecord(u)
    <3>1. u \in DOMAIN uploading /\ uploading[u] = "send" BY <1>1, <2>1 DEF PassRecord, Upload, SpoolTypeOK
    <3>2. uploading' = [uploading EXCEPT ![u] = "send"] BY <2>1 DEF PassRecord, Upload
    <3>3. uploading' = uploading BY <1>1, <3>1, <3>2 DEF SpoolTypeOK
    <3> QED BY <2>1, <3>1, <3>3 DEF PassRecord
  <2>2. CASE SendRecord(u) BY <2>2 DEF SendRecord, Sends
  <2>3. CASE RejectRecord(u) BY <2>3 DEF RejectRecord, Sends
  <2>4. CASE HoldRecord(u) BY <2>4 DEF HoldRecord, Sends
  <2> QED BY <2>1, <2>2, <2>3, <2>4
<1>3. Here(u) \in DOMAIN spool /\ spool[Here(u)] \in Commands
  <2>1. PlanTyped(u) /\ from[u] \in Nat /\ to[u] \in Nat /\ Len(outcome[u]) \in Nat /\ to[u] <= Len(spool)
    BY <1>1, NotedIsThere
  <2>2. Here(u) \in 1..Len(spool) BY <1>1, <1>2, <2>1 DEF Here, SpoolTypeOK
  <2> QED BY <1>1, <2>2 DEF SpoolTypeOK
<1>4. spool' = spool /\ Here(u)' = from[u] + Len(outcome[u]') + 1 /\ raced' = raced
  BY <1>2 DEF Here, files
<1>5. received \subseteq Commands /\ given \subseteq Commands BY <1>1 DEF SpoolTypeOK
<1>6. CASE PassRecord(u)
  <2>1. PICK o \in {"uploaded", "dropped"} :
          Notes(u, o) /\ (o = "uploaded" <=> spool[Here(u)] \in known[u])
    BY <1>6 DEF PassRecord
  <2>2. UNCHANGED <<received, given>> BY <1>6 DEF PassRecord
  <2>3. o = "uploaded" => spool[Here(u)] \in received BY <1>1, <2>1 DEF PlanOK
  <2>4. o = "dropped" => Sha[spool[Here(u)]] \notin blobs
    BY <1>6, <1>2, <2>1 DEF PassRecord, Sends
  <2>5. Settled(Here(u)) BY <1>1, <1>3, <2>1, <2>3, <2>4 DEF OwedHasBytes, Settled
  <2>6. o # "held" => spool[Here(u)] \in received' \cup given' \cup raced'
    BY <2>2, <2>5, <1>4 DEF Settled
  <2> QED BY <1>2, <1>4, <1>5, <2>1, <2>2, <2>3, <2>6, NoteKeeps DEF Outcomes
<1>7. CASE SendRecord(u)
  BY <1>2, <1>3, <1>4, <1>5, <1>7, NoteKeeps DEF SendRecord, Outcomes
<1>8. CASE RejectRecord(u)
  BY <1>2, <1>3, <1>4, <1>5, <1>8, NoteKeeps DEF RejectRecord, Outcomes
<1>9. CASE HoldRecord(u)
  <2>1. received \subseteq received' /\ received' \subseteq Commands /\ given' = given
        /\ Notes(u, "held")
    BY <1>3, <1>5, <1>9 DEF HoldRecord
  <2> QED BY <1>2, <1>5, <2>1, NoteKeeps DEF Outcomes
<1> QED BY <1>6, <1>7, <1>8, <1>9

\* A 401: what follows is held, what was noted stays.
LEMMA UnauthorizedKeeps ==
  ASSUME SpoolInv, NEW u \in Uploads, Unauthorized(u) PROVE SpoolInv'
<1>1. SpoolTypeOK /\ PlanOK(u) BY DEF SpoolInv
<1>2. /\ PlanTyped(u) /\ from[u] \in Nat /\ to[u] \in Nat /\ Len(outcome[u]) \in Nat
      /\ from[u] + Len(outcome[u]) <= to[u] /\ to[u] <= Len(spool)
      /\ \A i \in Noted(u) : i \in DOMAIN spool /\ i - from[u] \in DOMAIN outcome[u]
  BY <1>1, NotedIsThere
<1>3. uploading[u] = "send" /\ UNCHANGED <<files, received, emitting, own, uploading, from, to,
                                           known, doomed, given, raced>>
  BY DEF Unauthorized, Sends
<1> DEFINE n == Len(outcome[u])
           all == to[u] - from[u]
<1>4. /\ all \in Nat /\ n <= all
      /\ outcome[u]' = [k \in 1..all |-> IF k <= n THEN outcome[u][k] ELSE "held"]
      /\ \A v \in Uploads \ {u} : outcome[v]' = outcome[v]
      /\ outcome[u] \in Seq(Outcomes)
  BY <1>1, <1>2 DEF Unauthorized, SpoolTypeOK
<1>5. outcome[u]' \in [1..all -> Outcomes] BY <1>4 DEF Outcomes
<1>6. outcome[u]' \in Seq(Outcomes) /\ Len(outcome[u]') = all
  BY <1>4, <1>5
<1>7. ASSUME NEW i \in Noted(u)'
      PROVE  /\ i \in DOMAIN spool
             /\ outcome[u]'[i - from[u]] # "held" =>
                  i \in Noted(u) /\ outcome[u]'[i - from[u]] = outcome[u][i - from[u]]
  <2>1. Noted(u)' = (from[u] + 1)..(from[u] + all) BY <1>3, <1>6 DEF Noted
  <2>2. i \in (from[u] + 1)..(from[u] + all) BY <1>7, <2>1
  <2>3. i - from[u] \in 1..all /\ i \in 1..Len(spool) BY <2>2, <1>1, <1>2 DEF SpoolTypeOK
  <2>4. outcome[u]'[i - from[u]] = IF i - from[u] <= n THEN outcome[u][i - from[u]] ELSE "held"
    BY <2>3, <1>4
  <2>5. i - from[u] <= n => i \in (from[u] + 1)..(from[u] + n) BY <2>2, <1>2
  <2>6. i \in DOMAIN spool BY <2>3, <1>1 DEF SpoolTypeOK
  <2> QED BY <2>4, <2>5, <2>6 DEF Noted
<1>8. doomed[u] = {} BY <1>1, <1>3 DEF PlanOK
<1>9. PlanTyped(u)' BY <1>2, <1>3, <1>6, <1>8 DEF PlanTyped, files
<1>10. PlanOK(u)'
  <2>1. \A i \in 1..from[u] : i \in DOMAIN spool BY <1>1, <1>2 DEF SpoolTypeOK
  <2> HIDE DEF n, all
  <2>2. /\ \A i \in Noted(u)' : outcome[u]'[i - from[u]] # "held" => Settled(i)
        /\ \A i \in Noted(u)' : outcome[u]'[i - from[u]] = "uploaded" => spool[i] \in received
    BY <1>1, <1>7 DEF PlanOK
  <2> QED BY <1>1, <1>3, <1>8, <2>1, <2>2 DEF PlanOK, files, Settled
<1>11. PlanFunctions'
  BY <1>1, <1>3, <1>6 DEF PlanFunctions, SpoolTypeOK, Unauthorized
<1>12. /\ ids' \subseteq received' /\ received' \subseteq Commands /\ given' \subseteq Commands
       /\ uploading' \in [Uploads -> {"idle", "ids", "send", "refused", "scan", "clean", "keep",
                                      "mark", "done", "killed"}]
  BY <1>1, <1>3 DEF SpoolInv, SpoolTypeOK, files
<1>13. UNCHANGED <<spool, blobs, offset, emitting, own, raced>> BY <1>3 DEF files
<1> QED BY <1>3, <1>4, <1>9, <1>10, <1>11, <1>12, <1>13, PlanMoves

---------------------------------------------------------------------------
LEMMA PlansKeep ==
  ASSUME SpoolInv, NEW u \in Uploads,
         PlanUpload(u) \/ ReadUploadedIds(u) \/ UploadKilled(u)
  PROVE  SpoolInv'
<1>1. SpoolTypeOK /\ PlanOK(u) /\ PassedIsSettled BY DEF SpoolInv
<1>2. UNCHANGED <<spool, blobs, offset, ids, received, emitting, own, outcome, given, raced>>
  BY DEF PlanUpload, ReadUploadedIds, UploadKilled, files
<1>3. uploading' \in [Uploads -> {"idle", "ids", "send", "refused", "scan", "clean", "keep",
                                  "mark", "done", "killed"}]
      /\ \A v \in Uploads \ {u} : uploading[v]' = uploading[v]
  BY <1>1 DEF PlanUpload, ReadUploadedIds, UploadKilled, Upload, SpoolTypeOK
<1>4. /\ ids' \subseteq received' /\ received' \subseteq Commands /\ given' \subseteq Commands
  BY <1>1, <1>2 DEF SpoolInv, SpoolTypeOK
<1>5. /\ PlanTyped(u) /\ from[u] \in Nat /\ to[u] \in Nat /\ Len(outcome[u]) \in Nat
      /\ from[u] + Len(outcome[u]) <= to[u] /\ to[u] <= Len(spool)
      /\ \A i \in Noted(u) : i \in DOMAIN spool /\ i - from[u] \in DOMAIN outcome[u]
  BY <1>1, NotedIsThere
<1>6. \A i : Settled(i)' <=> Settled(i) BY <1>2 DEF Settled
<1>7. CASE PlanUpload(u)
  <2>1. /\ from' = [from EXCEPT ![u] = offset] /\ to' = [to EXCEPT ![u] = Len(spool)]
        /\ uploading[u] = "idle" /\ UNCHANGED <<known, doomed>>
        /\ uploading' = [uploading EXCEPT ![u] = IF offset = Len(spool) THEN "mark" ELSE "ids"]
    BY <1>7 DEF PlanUpload, Upload
  <2>2. offset \in Nat /\ Len(spool) \in Nat /\ offset <= Len(spool) BY <1>1 DEF SpoolTypeOK
  <2>3. PlanFunctions' BY <1>1, <1>2, <2>1, <2>2 DEF PlanFunctions, SpoolTypeOK
  <2>4. /\ from[u]' = offset /\ to[u]' = Len(spool)
        /\ uploading[u]' \in {"mark", "ids"} /\ (uploading[u]' = "mark" => offset = Len(spool))
        /\ \A v \in Uploads \ {u} : from[v]' = from[v] /\ to[v]' = to[v]
    BY <1>1, <2>1 DEF SpoolTypeOK
  <2>5. outcome[u]' = <<>> /\ doomed[u]' = {} /\ known[u]' = known[u] /\ Len(outcome[u]') = 0
    BY <1>1, <1>2, <2>1 DEF PlanOK
  <2>6. Noted(u)' = {} BY <2>2, <2>4, <2>5 DEF Noted
  <2>7. PlanTyped(u)' BY <1>2, <1>5, <2>2, <2>4, <2>5 DEF PlanTyped
  <2>8. PlanOK(u)'
    BY <1>1, <1>2, <1>6, <2>2, <2>4, <2>5, <2>6 DEF PlanOK, PassedIsSettled
  <2> QED BY <1>2, <1>3, <1>4, <2>1, <2>3, <2>4, <2>7, <2>8, PlanMoves
<1>8. CASE ReadUploadedIds(u)
  <2>1. /\ uploading[u] = "ids" /\ uploading' = [uploading EXCEPT ![u] = "send"]
        /\ known' = [known EXCEPT ![u] = ids] /\ UNCHANGED <<from, to, doomed>>
    BY <1>8 DEF ReadUploadedIds, Upload
  <2>2. PlanFunctions' BY <1>1, <1>2, <2>1 DEF PlanFunctions, SpoolTypeOK
  <2>3. /\ uploading[u]' = "send" /\ known[u]' = ids /\ doomed[u] = {}
        /\ \A v \in Uploads \ {u} : known[v]' = known[v]
    BY <1>1, <2>1 DEF SpoolTypeOK, PlanOK
  <2>4. Noted(u)' = Noted(u) BY <1>2, <2>1 DEF Noted
  <2>5. ids \subseteq received /\ ids \subseteq Commands BY <1>1 DEF SpoolInv, SpoolTypeOK
  <2>6. PlanTyped(u)' BY <1>2, <1>5, <2>1, <2>3, <2>5 DEF PlanTyped
  <2>7. PlanOK(u)' BY <1>1, <1>2, <1>6, <2>1, <2>3, <2>4, <2>5 DEF PlanOK
  <2> QED BY <1>2, <1>3, <1>4, <2>1, <2>2, <2>3, <2>6, <2>7, PlanMoves
<1>9. CASE UploadKilled(u)
  <2>1. /\ uploading' = [uploading EXCEPT ![u] = "killed"] /\ uploading[u] # "idle"
        /\ doomed' = [doomed EXCEPT ![u] = {}] /\ UNCHANGED <<from, to, known>>
    BY <1>9 DEF UploadKilled
  <2>2. PlanFunctions' BY <1>1, <1>2, <2>1 DEF PlanFunctions, SpoolTypeOK
  <2>3. /\ uploading[u]' = "killed" /\ doomed[u]' = {}
        /\ \A v \in Uploads \ {u} : doomed[v]' = doomed[v]
    BY <1>1, <2>1 DEF SpoolTypeOK
  <2>4. Noted(u)' = Noted(u) BY <1>2, <2>1 DEF Noted
  <2>5. PlanTyped(u)' BY <1>2, <1>5, <2>1, <2>3 DEF PlanTyped
  <2>6. PlanOK(u)' BY <1>1, <1>2, <1>6, <2>1, <2>3, <2>4 DEF PlanOK
  <2> QED BY <1>2, <1>3, <1>4, <2>1, <2>2, <2>3, <2>5, <2>6, PlanMoves
<1> QED BY <1>7, <1>8, <1>9

\* What a sync is about to delete is owed to no record: not to one it held, not to one
\* appended since its plan, and the others are settled.
LEMMA ScanKeeps == ASSUME SpoolInv, NEW u \in Uploads, ScanLate(u) PROVE SpoolInv'
<1>1. SpoolTypeOK /\ PlanOK(u) /\ PassedIsSettled BY DEF SpoolInv
<1>2. /\ PlanTyped(u) /\ from[u] \in Nat /\ to[u] \in Nat /\ Len(outcome[u]) \in Nat
      /\ from[u] + Len(outcome[u]) <= to[u] /\ to[u] <= Len(spool)
      /\ \A i \in Noted(u) : i \in DOMAIN spool /\ i - from[u] \in DOMAIN outcome[u]
  BY <1>1, NotedIsThere
<1> DEFINE D == ShasAt(With(u, {"uploaded", "dead"}))
                  \ (ShasAt(With(u, {"held"})) \cup ShasAt((to[u] + 1)..Len(spool)))
<1>3. /\ UNCHANGED <<files, received, emitting, own, from, to, known, outcome, given, raced>>
      /\ uploading' = [uploading EXCEPT ![u] = "clean"]
      /\ doomed' = [doomed EXCEPT ![u] = D]
      /\ Here(u) > to[u]
  BY DEF ScanLate, Upload
<1>4. /\ doomed[u]' = D /\ uploading[u]' = "clean"
      /\ \A v \in Uploads \ {u} : doomed[v]' = doomed[v] /\ uploading[v]' = uploading[v]
  BY <1>1, <1>3 DEF SpoolTypeOK
<1>5. Len(outcome[u]) = to[u] - from[u] BY <1>2, <1>3 DEF Here
<1>6. ASSUME NEW i \in DOMAIN spool, Sha[spool[i]] \in D PROVE Settled(i)
  <2>1. Len(spool) \in Nat /\ i \in 1..Len(spool) BY <1>1, <1>6 DEF SpoolTypeOK
  <2>2. i \notin (to[u] + 1)..Len(spool) BY <1>6 DEF ShasAt
  <2>3. i \notin With(u, {"held"}) BY <1>6 DEF ShasAt
  <2>4. CASE i \in 1..from[u] BY <2>4, <1>1 DEF PlanOK
  <2>5. CASE i \notin 1..from[u]
    <3>1. i \in (from[u] + 1)..(from[u] + Len(outcome[u])) BY <2>1, <2>2, <2>5, <1>2, <1>5
    <3>2. i \in Noted(u) BY <3>1 DEF Noted
    <3>3. outcome[u][i - from[u]] # "held" BY <3>2, <2>3 DEF With
    <3> QED BY <3>2, <3>3, <1>1 DEF PlanOK
  <2> QED BY <2>4, <2>5
<1>7. \A w : Settled(w)' <=> Settled(w) BY <1>3 DEF Settled, files
<1>8. Noted(u)' = Noted(u) BY <1>3 DEF Noted
<1>9. D \subseteq ShasAt(With(u, {"uploaded", "dead"})) /\ D \subseteq Shas
  BY <1>1, <1>2 DEF ShasAt, With, Shas, SpoolTypeOK
<1>10. ShasAt(With(u, {"uploaded", "dead"}))' = ShasAt(With(u, {"uploaded", "dead"}))
  BY <1>3, <1>8 DEF ShasAt, With, files
<1>11. PlanFunctions' BY <1>1, <1>3, <1>9 DEF PlanFunctions, SpoolTypeOK
<1> HIDE DEF D
<1>12. PlanTyped(u)' BY <1>2, <1>3, <1>4, <1>9, <1>10 DEF PlanTyped, files
<1>13. PlanOK(u)' BY <1>1, <1>3, <1>4, <1>5, <1>6, <1>7, <1>8 DEF PlanOK, files
<1>14. uploading' \in [Uploads -> {"idle", "ids", "send", "refused", "scan", "clean", "keep",
                                   "mark", "done", "killed"}]
  BY <1>1, <1>3 DEF SpoolTypeOK
<1>15. ids' \subseteq received' /\ received' \subseteq Commands /\ given' \subseteq Commands
  BY <1>1, <1>3 DEF SpoolInv, SpoolTypeOK, files
<1>16. UNCHANGED <<spool, blobs, offset, emitting, own, raced, received, given>>
  BY <1>3 DEF files
<1> QED BY <1>3, <1>4, <1>11, <1>12, <1>13, <1>14, <1>15, <1>16, PlanMoves

\* The rest of a sync deletes, keeps ids and moves the watermark, all by its outcomes.
LEMMA FinishKeeps ==
  ASSUME SpoolInv, NEW u \in Uploads, DeleteBlobs(u) \/ KeepIds(u) \/ MoveWatermark(u)
  PROVE  SpoolInv'
<1>1. SpoolTypeOK /\ PlanOK(u) /\ PassedIsSettled BY DEF SpoolInv
<1>2. /\ PlanTyped(u) /\ from[u] \in Nat /\ to[u] \in Nat /\ Len(outcome[u]) \in Nat
      /\ from[u] + Len(outcome[u]) <= to[u] /\ to[u] <= Len(spool)
      /\ \A i \in Noted(u) : i \in DOMAIN spool /\ i - from[u] \in DOMAIN outcome[u]
  BY <1>1, NotedIsThere
<1>3. UNCHANGED <<spool, received, emitting, own, from, to, known, outcome, given, raced>>
  BY DEF DeleteBlobs, KeepIds, MoveWatermark, plan
<1>4. /\ uploading' \in [Uploads -> {"idle", "ids", "send", "refused", "scan", "clean", "keep",
                                     "mark", "done", "killed"}]
      /\ uploading[u] \in {"clean", "keep", "mark"} /\ uploading[u]' \in {"keep", "mark", "done"}
      /\ \A v \in Uploads \ {u} : uploading[v]' = uploading[v]
  BY <1>1 DEF DeleteBlobs, KeepIds, MoveWatermark, Upload, SpoolTypeOK
<1>5. /\ doomed' \in [Uploads -> SUBSET Shas] /\ doomed[u]' = {}
      /\ \A v \in Uploads \ {u} : doomed[v]' = doomed[v]
  BY <1>1 DEF DeleteBlobs, KeepIds, MoveWatermark, Upload, SpoolTypeOK, PlanOK, plan
<1>6. Len(outcome[u]) = to[u] - from[u] BY <1>1, <1>4 DEF PlanOK
<1>7. \A w : Settled(w)' <=> Settled(w) BY <1>3 DEF Settled
<1>8. Noted(u)' = Noted(u) BY <1>3 DEF Noted
<1>9. PlanFunctions' BY <1>1, <1>3, <1>5 DEF PlanFunctions, SpoolTypeOK
<1>10. PlanTyped(u)' BY <1>2, <1>3, <1>5 DEF PlanTyped
<1>11. PlanOK(u)' BY <1>1, <1>3, <1>4, <1>5, <1>6, <1>7, <1>8 DEF PlanOK
<1>12. received' \subseteq Commands /\ given' \subseteq Commands
  BY <1>1, <1>3 DEF SpoolTypeOK
<1>13. Len(spool) \in Nat /\ DOMAIN spool = 1..Len(spool) BY <1>1 DEF SpoolTypeOK
<1>14. /\ blobs' \subseteq blobs
       /\ \A i \in DOMAIN spool : Sha[spool[i]] \in blobs => Sha[spool[i]] \in blobs' \/ Settled(i)
  <2>1. CASE DeleteBlobs(u) BY <2>1, <1>1 DEF DeleteBlobs, PlanOK
  <2>2. CASE KeepIds(u) \/ MoveWatermark(u) BY <2>2 DEF KeepIds, MoveWatermark
  <2> QED BY <2>1, <2>2
<1>15. ids' \subseteq received'
  <2>1. CASE KeepIds(u)
    <3>1. \A c \in ids' : \E j \in With(u, {"uploaded"}) : c = spool[j] BY <2>1 DEF KeepIds
    <3>2. \A j \in With(u, {"uploaded"}) : spool[j] \in received BY <1>1 DEF PlanOK, With
    <3> QED BY <3>1, <3>2, <1>3
  <2>2. CASE DeleteBlobs(u) \/ MoveWatermark(u)
    BY <2>2, <1>3 DEF DeleteBlobs, MoveWatermark, SpoolInv
  <2> QED BY <2>1, <2>2
<1>16. offset' \in 0..Len(spool) /\ \A i \in 1..offset' : Settled(i)'
  <2>1. CASE DeleteBlobs(u) \/ KeepIds(u)
    BY <2>1, <1>1, <1>7 DEF DeleteBlobs, KeepIds, SpoolTypeOK, PassedIsSettled
  <2>2. CASE MoveWatermark(u)
    <3>1. offset' \in Resumes(u) BY <2>2 DEF MoveWatermark
    <3>2. /\ offset' = to[u] \/ \E j \in With(u, {"held"}) : offset' = j - 1
          /\ \A i \in With(u, {"held"}) : offset' < i
      BY <3>1 DEF Resumes
    <3>3. \A j \in With(u, {"held"}) : j \in (from[u] + 1)..(from[u] + Len(outcome[u]))
      BY DEF With, Noted
    <3>4. offset' \in Nat /\ offset' <= to[u] BY <3>2, <3>3, <1>2
    <3>5. ASSUME NEW i \in 1..offset' PROVE Settled(i)
      <4>1. CASE i \in 1..from[u] BY <4>1, <1>1 DEF PlanOK
      <4>2. CASE i \notin 1..from[u]
        <5>1. i \in (from[u] + 1)..(from[u] + Len(outcome[u])) BY <4>2, <3>4, <3>5, <1>2, <1>6
        <5>2. i \in Noted(u) BY <5>1 DEF Noted
        <5>3. i \notin With(u, {"held"}) BY <3>2, <3>4, <3>5, <3>3
        <5>4. outcome[u][i - from[u]] # "held" BY <5>2, <5>3 DEF With
        <5> QED BY <5>2, <5>4, <1>1 DEF PlanOK
      <4> QED BY <4>1, <4>2
    <3> QED BY <3>4, <3>5, <1>2, <1>7, <1>13
  <2> QED BY <2>1, <2>2
<1> QED
  BY <1>3, <1>4, <1>5, <1>9, <1>10, <1>11, <1>12, <1>14, <1>15, <1>16, SyncKeeps

---------------------------------------------------------------------------
\* Every step keeps the invariant.
LEMMA SpoolStepInv == SpoolInv /\ [SpoolNext]_spoolVars => SpoolInv'
<1> SUFFICES ASSUME SpoolInv, [SpoolNext]_spoolVars PROVE SpoolInv' OBVIOUS
<1>1. ASSUME NEW e \in Commands, EmitStep(e) PROVE SpoolInv'
  BY <1>1, EmitsKeep, AppendKeeps DEF EmitStep
<1>2. ASSUME NEW u \in Uploads, UploadStep(u) PROVE SpoolInv'
  BY <1>2, RecordsKeep, UnauthorizedKeeps, PlansKeep, ScanKeeps, FinishKeeps DEF UploadStep
<1>3. CASE UNCHANGED spoolVars
  <2>1. UNCHANGED <<spool, offset, ids, received, uploading, plan, given, raced, blobs, emitting, own>>
    BY <1>3 DEF spoolVars, files
  <2> QED BY <2>1, EmitKeeps DEF SpoolInv, SpoolTypeOK
<1> QED BY <1>1, <1>2, <1>3 DEF SpoolNext

\* Every step of the spool keeps SpoolInv.
LEMMA SpoolInvariant == SpoolSpec => []SpoolInv
  BY SpoolInitInv, SpoolStepInv, PTL DEF SpoolSpec

\* The spool and its files keep their types.
THEOREM SpoolTypeCorrect == SpoolSpec => []SpoolTypeOK
<1>1. SpoolInv => SpoolTypeOK
  BY DEF SpoolInv
<1> QED BY <1>1, SpoolInvariant, PTL

\* "The spool record IS the deliverable" (artifact-spool.ts): for any commands, hashes,
\* syncs and faults, a spooled artifact is settled, or past the watermark with its bytes.
THEOREM SpoolCorrect == SpoolSpec => []SpooledSurvives
<1>1. SpoolInv => SpooledSurvives
  <2> SUFFICES ASSUME SpoolInv, NEW i \in DOMAIN spool PROVE Deliverable(i)
    BY DEF SpoolInv, SpooledSurvives
  <2>1. i \in 1..Len(spool) /\ Len(spool) \in Nat /\ offset \in Nat
    BY DEF SpoolInv, SpoolTypeOK
  <2>2. Settled(i) \/ (i > offset /\ Sha[spool[i]] \in blobs)
    BY <2>1 DEF SpoolInv, PassedIsSettled, OwedHasBytes
  <2> QED BY <2>2 DEF Deliverable, Settled
<1> QED BY <1>1, SpoolInvariant, PTL

---------------------------------------------------------------------------
HasBytes == object \/ blobRows # {}

\* Only an unmatched artifact's claim is released, and the sweep holds only such claims.
ReleasedIsUnmatched == \A r \in Artifacts : released[r] => verification[r] = "unmatched"
SweptIsUnmatched ==
  /\ \A r \in sweep.left : verification[r] = "unmatched" /\ ~released[r]
  /\ sweep.step \notin {"idle", "next"} =>
       /\ verification[sweep.row] = "unmatched" /\ ~released[sweep.row]
       /\ sweep.row \notin sweep.left

\* "bytes only ever exist under a visible claim": the row comes first.
WritersAreClaimed ==
  /\ \A q \in Requests : emit[q] \in {"probe", "put", "mark"} => Claimed(Of[q])
  /\ \A r \in wrote : Claimed(r)

\* Between the count and the deletes, what another artifact wrote is inside the fence.
FreshIsKept ==
  \A r \in wrote : sweep.step \in {"drop rows", "drop object"} /\ Wanted(r) =>
    \E q \in Requests : <<q, "fresh">> \in blobRows

FreshIsWanted ==
  \A q \in Requests : <<q, "fresh">> \in blobRows =>
    /\ Claimed(Of[q])
    /\ verification[Of[q]] = "unmatched" => revived

\* Bytes that the deletes spared have a claim other than the one about to be released.
BytesHaveOther ==
  ~revived =>
    /\ sweep.step \in {"recount", "restore", "heal", "stamp"} /\ HasBytes => LiveClaims # {}
    /\ sweep.step = "drop object" /\ blobRows # {} => LiveClaims # {}

\* Both writes are made, or the first one is.
Written(r) == r \in wrote \/ \E q \in Requests : Of[q] = r /\ emit[q] = "mark"

\* A claim is released only when nobody misses the object, or a heal has failed.
StampIsSafe ==
  sweep.step = "stamp" /\ ~object /\ ~unhealed =>
    \A r \in Artifacts : Written(r) => ~Wanted(r)

MissingHasRow ==
  \A r \in Artifacts : Written(r) /\ Wanted(r) /\ ~object =>
    unhealed \/ \E o \in Artifacts \ {r} : verification[o] = "unmatched" /\ ~released[o]

BlobInv ==
  /\ BlobTypeOK
  /\ ReleasedIsUnmatched /\ SweptIsUnmatched
  /\ WritersAreClaimed
  /\ FreshIsKept /\ FreshIsWanted
  /\ BytesHaveOther
  /\ StampIsSafe /\ MissingHasRow
  /\ WrittenSurvives
  /\ BytesAreClaimed

USE OfAssumption

LEMMA BlobInitInv == BlobInit => BlobInv
  <1> SUFFICES ASSUME BlobInit PROVE BlobInv
    OBVIOUS
  <1>1. PICK r \in Artifacts : sweep = [step |-> "idle", row |-> r, left |-> {}]
    BY DEF BlobInit
  <1>2. BlobTypeOK
    BY <1>1 DEF BlobInit, BlobTypeOK, EmitSteps, SweepSteps
  <1>3. ReleasedIsUnmatched /\ SweptIsUnmatched /\ WritersAreClaimed
    BY <1>1 DEF BlobInit, ReleasedIsUnmatched, SweptIsUnmatched, WritersAreClaimed
  <1>4. FreshIsKept /\ FreshIsWanted /\ BytesHaveOther
    BY <1>1 DEF BlobInit, FreshIsKept, FreshIsWanted, BytesHaveOther
  <1>5. StampIsSafe /\ MissingHasRow /\ WrittenSurvives /\ BytesAreClaimed
    BY <1>1 DEF BlobInit, StampIsSafe, MissingHasRow, Written, WrittenSurvives,
                BytesAreClaimed
  <1> QED
    BY <1>2, <1>3, <1>4, <1>5 DEF BlobInv

\* An artifact that is wanted has a live claim, and it is not the one being swept.
LEMMA WantedIsLive ==
  ASSUME BlobInv, NEW r \in Artifacts, Wanted(r)
  PROVE  Live(r) /\ (sweep.step \notin {"idle", "next"} => r \in LiveClaims)
  BY DEF BlobInv, Wanted, Live, Claimed, ReleasedIsUnmatched, SweptIsUnmatched, LiveClaims,
         BlobTypeOK

---------------------------------------------------------------------------
\* Requests.

\* A request goes on without a write.
LEMMA EmitMove ==
  ASSUME BlobInv, NEW q \in Requests, NEW goal \in EmitSteps \ {"mark"},
         emit' = [emit EXCEPT ![q] = goal], goal \in {"probe", "put"} => Claimed(Of[q]),
         again' \in [Requests -> BOOLEAN],
         UNCHANGED <<claims, stores, wrote, revived, sweep, unhealed>>
  PROVE  BlobInv'
  <1> USE DEF BlobInv, claims, stores
  <1>1. \A p \in Requests : emit'[p] = IF p = q THEN goal ELSE emit[p]
    BY DEF BlobTypeOK
  <1>2. BlobTypeOK'
    BY DEF BlobTypeOK
  <1>3. ReleasedIsUnmatched' /\ SweptIsUnmatched'
    BY DEF ReleasedIsUnmatched, SweptIsUnmatched
  <1>4. WritersAreClaimed'
    BY <1>1 DEF WritersAreClaimed, Claimed
  <1>5. FreshIsKept' /\ FreshIsWanted'
    BY DEF FreshIsKept, FreshIsWanted, Wanted, Claimed
  <1>6. BytesHaveOther'
    BY DEF BytesHaveOther, HasBytes, LiveClaims, Live, Claimed
  <1>7. \A r \in Artifacts : Written(r)' => Written(r)
    BY <1>1 DEF Written
  <1>8. StampIsSafe' /\ MissingHasRow'
    BY <1>7 DEF StampIsSafe, MissingHasRow, Wanted
  <1>9. WrittenSurvives' /\ BytesAreClaimed'
    BY DEF WrittenSurvives, BytesAreClaimed, Wanted, Live, Claimed
  <1> QED
    BY <1>2, <1>3, <1>4, <1>5, <1>6, <1>8, <1>9

LEMMA QuietEmitKeeps ==
  ASSUME BlobInv, NEW q \in Requests,
         EmitArrives(q) \/ LookUp(q) \/ ProbeMarker(q) \/ ShedEmit(q) \/ EmitDies(q)
  PROVE  BlobInv'
  <1>1. /\ UNCHANGED <<claims, stores, wrote, revived, sweep, unhealed>>
        /\ again' \in [Requests -> BOOLEAN]
    BY DEF EmitArrives, LookUp, ProbeMarker, ShedEmit, EmitDies, BlobInv, BlobTypeOK
  <1>2. PICK goal \in {"look", "insert", "probe", "put", "ok", "shed", "dead"} :
          /\ emit' = [emit EXCEPT ![q] = goal]
          /\ goal \in {"probe", "put"} => Claimed(Of[q])
    <2>1. CASE EmitArrives(q)
      BY <2>1 DEF EmitArrives, EmitGoes
    <2>2. CASE LookUp(q)
      BY <2>2 DEF LookUp, EmitGoes
    <2>3. CASE ProbeMarker(q)
      BY <2>3 DEF ProbeMarker, Emits, EmitGoes, BlobInv, WritersAreClaimed
    <2>4. CASE ShedEmit(q)
      BY <2>4 DEF ShedEmit, EmitGoes
    <2>5. CASE EmitDies(q)
      BY <2>5 DEF EmitDies, EmitGoes
    <2> QED
      BY <2>1, <2>2, <2>3, <2>4, <2>5
  <1>3. goal \in EmitSteps \ {"mark"}
    BY DEF EmitSteps
  <1> QED
    BY <1>1, <1>2, <1>3, EmitMove

\* The claim comes before the bytes.
LEMMA InsertRowKeeps == ASSUME BlobInv, NEW q \in Requests, InsertRow(q) PROVE BlobInv'
  <1> USE DEF BlobInv
  <1>1. /\ emit' = [emit EXCEPT ![q] = "put"]
        /\ UNCHANGED <<released, object, blobRows, again, sweep, wrote, revived, unhealed>>
    BY DEF InsertRow, EmitGoes, stores
  <1>2. CASE Claimed(Of[q])
    BY <1>1, <1>2, EmitMove DEF InsertRow, claims, stores, EmitSteps, BlobTypeOK
  <1>3. CASE ~Claimed(Of[q])
    <2>1. PICK v \in {"pending", "confirmed"} :
            verification' = [verification EXCEPT ![Of[q]] = v]
      BY <1>3 DEF InsertRow
    <2>2. \A r \in Artifacts : verification'[r] = IF r = Of[q] THEN v ELSE verification[r]
      BY <2>1 DEF BlobTypeOK
    <2>3. \A p \in Requests : emit'[p] = IF p = q THEN "put" ELSE emit[p]
      BY <1>1 DEF BlobTypeOK
    <2>4. verification[Of[q]] = "none" /\ ~released[Of[q]] /\ Of[q] \in Artifacts
      BY <1>3 DEF Claimed, ReleasedIsUnmatched, BlobTypeOK
    <2>5. BlobTypeOK'
      <3>1. /\ verification' \in [Artifacts -> {"none", "pending", "confirmed", "unmatched"}]
            /\ emit' \in [Requests -> EmitSteps]
        BY <1>1, <2>1 DEF BlobTypeOK, EmitSteps
      <3>2. \A r \in sweep.left : verification'[r] = "unmatched"
        BY <2>2, <2>4 DEF BlobTypeOK
      <3> QED
        BY <1>1, <3>1, <3>2 DEF BlobTypeOK
    <2>6. ReleasedIsUnmatched' /\ SweptIsUnmatched'
      BY <1>1, <2>2, <2>4 DEF ReleasedIsUnmatched, SweptIsUnmatched, BlobTypeOK
    <2>7. WritersAreClaimed'
      BY <1>1, <2>2, <2>3 DEF WritersAreClaimed, Claimed, BlobTypeOK
    <2>8. Of[q] \notin wrote /\ ~Written(Of[q])
      BY <1>3 DEF WritersAreClaimed, Written
    <2>9. FreshIsKept' /\ FreshIsWanted'
      BY <1>1, <2>2, <2>4, <2>8 DEF FreshIsKept, FreshIsWanted, Wanted, Claimed, BlobTypeOK
    <2>10. \A r \in Artifacts : Live(r) => Live(r)'
      BY <1>1, <2>2 DEF Live, Claimed
    <2>11. LiveClaims # {} => LiveClaims' # {}
      BY <1>1, <2>10 DEF LiveClaims
    <2>12. BytesHaveOther' /\ BytesAreClaimed'
      BY <1>1, <2>10, <2>11 DEF BytesHaveOther, BytesAreClaimed, HasBytes
    <2>13. \A r \in Artifacts : Written(r)' => Written(r) /\ (Wanted(r)' => Wanted(r))
      BY <1>1, <2>2, <2>3, <2>8 DEF Written, Wanted
    <2>14. StampIsSafe' /\ WrittenSurvives'
      BY <1>1, <2>2, <2>8, <2>13 DEF StampIsSafe, WrittenSurvives, Wanted, BlobTypeOK
    <2>15. MissingHasRow'
      BY <1>1, <2>2, <2>4, <2>13 DEF MissingHasRow
    <2> QED
      BY <2>5, <2>6, <2>7, <2>9, <2>12, <2>14, <2>15
  <1> QED
    BY <1>2, <1>3

\* The first write.
LEMMA PutObjectKeeps == ASSUME BlobInv, NEW q \in Requests, PutObject(q) PROVE BlobInv'
  <1> USE DEF BlobInv
  <1>1. /\ emit[q] = "put" /\ object' = TRUE
        /\ revived' = (revived \/ verification[Of[q]] = "unmatched")
        /\ UNCHANGED <<verification, released, blobRows, again, sweep, wrote, unhealed>>
    BY DEF PutObject, Emits, Revives, claims
  <1>2. PICK goal \in {"mark", "shed"} : emit' = [emit EXCEPT ![q] = goal]
    BY DEF PutObject, EmitGoes
  <1>3. \A p \in Requests : emit'[p] = IF p = q THEN goal ELSE emit[p]
    BY <1>2 DEF BlobTypeOK
  <1>4. Claimed(Of[q]) /\ Of[q] \in Artifacts
    BY <1>1 DEF WritersAreClaimed
  <1>5. ~revived' => Wanted(Of[q])
    BY <1>1, <1>4 DEF Claimed, Wanted, BlobTypeOK
  <1>6. BlobTypeOK'
    <2>1. emit' \in [Requests -> EmitSteps] /\ revived' \in BOOLEAN
      BY <1>1, <1>2 DEF BlobTypeOK, EmitSteps
    <2> QED
      BY <1>1, <2>1 DEF BlobTypeOK
  <1>7. ReleasedIsUnmatched' /\ SweptIsUnmatched'
    BY <1>1 DEF ReleasedIsUnmatched, SweptIsUnmatched
  <1>8. WritersAreClaimed'
    BY <1>1, <1>3, <1>4 DEF WritersAreClaimed, Claimed
  <1>9. FreshIsKept' /\ FreshIsWanted'
    BY <1>1 DEF FreshIsKept, FreshIsWanted, Wanted, Claimed
  <1>10. BytesHaveOther'
    <2>1. LiveClaims' = LiveClaims
      BY <1>1 DEF LiveClaims, Live, Claimed
    <2>2. ~revived' => (sweep.step \notin {"idle", "next"} => LiveClaims # {})
      BY <1>4, <1>5, WantedIsLive
    <2> QED
      BY <1>1, <2>1, <2>2 DEF BytesHaveOther
  <1>11. StampIsSafe' /\ MissingHasRow' /\ WrittenSurvives'
    BY <1>1 DEF StampIsSafe, MissingHasRow, WrittenSurvives
  <1>12. BytesAreClaimed'
    <2>1. ~revived' => Live(Of[q])
      BY <1>4, <1>5, WantedIsLive
    <2> QED
      BY <1>1, <1>4, <2>1 DEF BytesAreClaimed, Live, Claimed
  <1> QED
    BY <1>6, <1>7, <1>8, <1>9, <1>10, <1>11, <1>12

\* The second write, which is the commit marker of both.
LEMMA MarkBlobKeeps == ASSUME BlobInv, NEW q \in Requests, MarkBlob(q) PROVE BlobInv'
  <1> USE DEF BlobInv
  <1>1. /\ emit[q] = "mark" /\ blobRows' = blobRows \cup {<<q, "fresh">>}
        /\ revived' = (revived \/ verification[Of[q]] = "unmatched")
        /\ UNCHANGED <<verification, released, object, again, sweep, unhealed>>
    BY DEF MarkBlob, Emits, Revives, claims
  <1>2. PICK goal \in {"ok", "shed"} :
          /\ emit' = [emit EXCEPT ![q] = goal]
          /\ wrote' = wrote \/ wrote' = wrote \cup {Of[q]}
    BY DEF MarkBlob, EmitGoes
  <1>3. \A p \in Requests : emit'[p] = IF p = q THEN goal ELSE emit[p]
    BY <1>2 DEF BlobTypeOK
  <1>4. Claimed(Of[q]) /\ Of[q] \in Artifacts
    BY <1>1 DEF WritersAreClaimed
  <1>5. ~revived' => Wanted(Of[q])
    BY <1>1, <1>4 DEF Claimed, Wanted, BlobTypeOK
  <1>6. BlobTypeOK'
    <2>1. emit' \in [Requests -> EmitSteps] /\ revived' \in BOOLEAN
      BY <1>1, <1>2 DEF BlobTypeOK, EmitSteps
    <2>2. blobRows' \subseteq Requests \X {"fresh", "old"} /\ wrote' \subseteq Artifacts
      BY <1>1, <1>2, <1>4 DEF BlobTypeOK
    <2> QED
      BY <1>1, <2>1, <2>2 DEF BlobTypeOK
  <1>7. ReleasedIsUnmatched' /\ SweptIsUnmatched'
    BY <1>1 DEF ReleasedIsUnmatched, SweptIsUnmatched
  <1>8. WritersAreClaimed'
    BY <1>1, <1>2, <1>3, <1>4 DEF WritersAreClaimed, Claimed
  <1>9. FreshIsKept'
    BY <1>1 DEF FreshIsKept
  <1>10. FreshIsWanted'
    BY <1>1, <1>4 DEF FreshIsWanted, Claimed
  <1>11. BytesHaveOther'
    <2>1. LiveClaims' = LiveClaims
      BY <1>1 DEF LiveClaims, Live, Claimed
    <2>2. ~revived' => (sweep.step \notin {"idle", "next"} => LiveClaims # {})
      BY <1>4, <1>5, WantedIsLive
    <2> QED
      BY <1>1, <2>1, <2>2 DEF BytesHaveOther
  <1>12. \A r \in Artifacts : Written(r)' => Written(r)
    BY <1>1, <1>2, <1>3 DEF Written
  <1>13. StampIsSafe' /\ MissingHasRow' /\ WrittenSurvives'
    BY <1>1, <1>12 DEF StampIsSafe, MissingHasRow, WrittenSurvives, Wanted
  <1>14. BytesAreClaimed'
    <2>1. ~revived' => Live(Of[q])
      BY <1>4, <1>5, WantedIsLive
    <2> QED
      BY <1>1, <1>4, <2>1 DEF BytesAreClaimed, Live, Claimed
  <1> QED
    BY <1>6, <1>7, <1>8, <1>9, <1>10, <1>11, <1>13, <1>14

---------------------------------------------------------------------------
\* Time and the reconciler.

\* The fence holds: a row ages before the sweep has counted, or after its deletes.
LEMMA BlobAgesKeeps == ASSUME BlobInv, NEW q \in Requests, BlobAges(q) PROVE BlobInv'
  <1> USE DEF BlobInv
  <1>1. /\ <<q, "fresh">> \in blobRows /\ sweep.step \in {"idle", "next", "count"}
        /\ blobRows' = (blobRows \ {<<q, "fresh">>}) \cup {<<q, "old">>}
        /\ UNCHANGED <<verification, released, object, emit, again, sweep, wrote, revived,
                       unhealed>>
    BY DEF BlobAges, claims, emits
  <1>2. BlobTypeOK'
    BY <1>1 DEF BlobTypeOK
  <1>3. ReleasedIsUnmatched' /\ SweptIsUnmatched' /\ WritersAreClaimed'
    BY <1>1 DEF ReleasedIsUnmatched, SweptIsUnmatched, WritersAreClaimed, Claimed
  <1>4. FreshIsKept' /\ BytesHaveOther' /\ StampIsSafe'
    BY <1>1 DEF FreshIsKept, BytesHaveOther, StampIsSafe
  <1>5. FreshIsWanted'
    BY <1>1 DEF FreshIsWanted, Claimed
  <1>6. MissingHasRow'
    BY <1>1 DEF MissingHasRow, Written, Wanted
  <1>7. WrittenSurvives' /\ BytesAreClaimed'
    BY <1>1 DEF WrittenSurvives, BytesAreClaimed, Live, Claimed
  <1> QED
    BY <1>2, <1>3, <1>4, <1>5, <1>6, <1>7

\* A pending artifact gets its verdict.
LEMMA VerdictKeeps ==
  ASSUME BlobInv, NEW a \in Artifacts, ConfirmArtifact(a) \/ UnmatchArtifact(a)
  PROVE  BlobInv'
  <1> USE DEF BlobInv
  <1>1. /\ verification[a] = "pending"
        /\ UNCHANGED <<released, object, blobRows, emit, again, sweep, wrote, unhealed>>
    BY DEF ConfirmArtifact, UnmatchArtifact, stores, emits
  <1>2. PICK v \in {"confirmed", "unmatched"} :
          /\ verification' = [verification EXCEPT ![a] = v]
          /\ revived' = (revived \/ (v = "unmatched" /\ FreshOf(a) # {}))
    BY DEF ConfirmArtifact, UnmatchArtifact, emits, BlobTypeOK
  <1>3. \A r \in Artifacts : verification'[r] = IF r = a THEN v ELSE verification[r]
    BY <1>2 DEF BlobTypeOK
  <1>4. \A r \in Artifacts :
          /\ Claimed(r)' <=> Claimed(r)
          /\ Wanted(r)' => Wanted(r)
          /\ verification[r] = "unmatched" => verification'[r] = "unmatched"
    BY <1>1, <1>3 DEF Claimed, Wanted
  <1>5. \A r \in Artifacts : (Live(r)' <=> Live(r)) /\ (Written(r)' <=> Written(r))
    BY <1>1, <1>4 DEF Live, Written
  <1>6. BlobTypeOK'
    <2>1. /\ verification' \in [Artifacts -> {"none", "pending", "confirmed", "unmatched"}]
          /\ revived' \in BOOLEAN
      BY <1>2 DEF BlobTypeOK
    <2>2. \A r \in sweep.left : verification'[r] = "unmatched"
      BY <1>1, <1>3 DEF BlobTypeOK
    <2> QED
      BY <1>1, <2>1, <2>2 DEF BlobTypeOK
  <1>7. ReleasedIsUnmatched' /\ SweptIsUnmatched'
    BY <1>1, <1>3 DEF ReleasedIsUnmatched, SweptIsUnmatched, BlobTypeOK
  <1>8. WritersAreClaimed' /\ FreshIsKept'
    BY <1>1, <1>4 DEF WritersAreClaimed, FreshIsKept, BlobTypeOK
  <1>9. FreshIsWanted'
    <2> SUFFICES ASSUME NEW q \in Requests, <<q, "fresh">> \in blobRows
                 PROVE  /\ Claimed(Of[q])'
                        /\ verification'[Of[q]] = "unmatched" => revived'
      BY <1>1 DEF FreshIsWanted
    <2>1. Claimed(Of[q])'
      BY <1>4 DEF FreshIsWanted
    <2>2. CASE Of[q] = a
      BY <1>2, <1>3, <2>1, <2>2 DEF FreshOf
    <2>3. CASE Of[q] # a
      BY <1>2, <1>3, <2>1, <2>3 DEF FreshIsWanted
    <2> QED
      BY <2>2, <2>3
  <1>10. LiveClaims' = LiveClaims /\ (revived => revived')
    BY <1>1, <1>2, <1>5 DEF LiveClaims
  <1>11. BytesHaveOther' /\ BytesAreClaimed'
    BY <1>1, <1>5, <1>10 DEF BytesHaveOther, BytesAreClaimed, HasBytes
  <1>12. StampIsSafe' /\ WrittenSurvives'
    BY <1>1, <1>4, <1>5 DEF StampIsSafe, WrittenSurvives, BlobTypeOK
  <1>13. MissingHasRow'
    BY <1>1, <1>4, <1>5 DEF MissingHasRow
  <1> QED
    BY <1>6, <1>7, <1>8, <1>9, <1>11, <1>12, <1>13

---------------------------------------------------------------------------
\* The sweep.

\* A step of the sweep that changes neither claims nor bytes.
LEMMA SweepMove ==
  ASSUME BlobInv, UNCHANGED <<claims, stores, emits>>,
         unhealed' \in BOOLEAN, unhealed => unhealed',
         sweep' \in [step : SweepSteps, row : Artifacts, left : SUBSET Artifacts],
         SweptIsUnmatched', FreshIsKept', BytesHaveOther', StampIsSafe'
  PROVE  BlobInv'
  <1> USE DEF BlobInv, claims, stores, emits
  <1>1. BlobTypeOK'
    BY DEF BlobTypeOK, SweptIsUnmatched
  <1>2. ReleasedIsUnmatched' /\ WritersAreClaimed' /\ FreshIsWanted'
    BY DEF ReleasedIsUnmatched, WritersAreClaimed, FreshIsWanted, Claimed
  <1>3. MissingHasRow'
    BY DEF MissingHasRow, Written, Wanted
  <1>4. WrittenSurvives' /\ BytesAreClaimed'
    BY DEF WrittenSurvives, BytesAreClaimed, Wanted, Live, Claimed
  <1> QED
    BY <1>1, <1>2, <1>3, <1>4

\* It starts, takes the next row, gives the row up, or dies.
LEMMA SweepTurns ==
  ASSUME BlobInv, SweepStart \/ SweepRow \/ SweepFails \/ SweepDies
  PROVE  BlobInv'
  <1> USE DEF BlobInv
  <1>1. UNCHANGED <<claims, stores, emits, unhealed>>
    BY DEF SweepStart, SweepRow, SweepFails, SweepDies
  <1>2. /\ sweep' \in [step : SweepSteps, row : Artifacts, left : SUBSET Artifacts]
        /\ sweep'.step \in {"idle", "next", "count"}
        /\ \A r \in sweep'.left : verification[r] = "unmatched" /\ ~released[r]
        /\ sweep'.step = "count" => sweep'.row \in sweep.left /\ sweep'.row \notin sweep'.left
    <2> USE DEF BlobTypeOK, SweepSteps, SweptIsUnmatched
    <2>1. CASE SweepStart
      BY <2>1 DEF SweepStart
    <2>2. CASE SweepFails \/ SweepDies
      BY <2>2 DEF SweepFails, SweepDies, SweepGoes
    <2>3. CASE SweepRow
      <3>1. CASE sweep.left = {}
        <4>1. sweep' = [sweep EXCEPT !.step = "idle"]
          BY <2>3, <3>1 DEF SweepRow, SweepGoes
        <4> QED
          BY <3>1, <4>1
      <3>2. CASE sweep.left # {}
        <4>1. PICK r \in sweep.left :
                sweep' = [step |-> "count", row |-> r, left |-> sweep.left \ {r}]
          BY <2>3, <3>2 DEF SweepRow
        <4> QED
          BY <4>1
      <3> QED
        BY <3>1, <3>2
    <2> QED
      BY <2>1, <2>2, <2>3
  <1>3. SweptIsUnmatched'
    BY <1>1, <1>2 DEF SweptIsUnmatched, claims
  <1>4. FreshIsKept' /\ BytesHaveOther' /\ StampIsSafe'
    BY <1>2 DEF FreshIsKept, BytesHaveOther, StampIsSafe
  <1> QED
    BY <1>1, <1>2, <1>3, <1>4, SweepMove DEF BlobTypeOK

\* It goes on with its row.
LEMMA SweepGoesOn ==
  ASSUME BlobInv, NEW s \in SweepSteps \ {"idle", "next"}, SweepGoes(s),
         sweep.step \notin {"idle", "next"}
  PROVE  /\ sweep' \in [step : SweepSteps, row : Artifacts, left : SUBSET Artifacts]
         /\ sweep'.step = s /\ sweep'.row = sweep.row /\ sweep'.left = sweep.left
         /\ UNCHANGED claims => SweptIsUnmatched'
  BY DEF SweepGoes, BlobInv, BlobTypeOK, SweptIsUnmatched, claims

\* The two counts and the failed heal.
LEMMA CountKeeps ==
  ASSUME BlobInv, CountClaims \/ RecountClaims \/ HealFails
  PROVE  BlobInv'
  <1> USE DEF BlobInv
  <1>1. /\ UNCHANGED <<claims, stores, emits>>
        /\ unhealed' \in BOOLEAN /\ (unhealed => unhealed')
    BY DEF CountClaims, RecountClaims, HealFails, BlobTypeOK
  <1>2. CASE CountClaims
    <2>1. PICK s \in {"drop rows", "heal"} :
            /\ SweepGoes(s)
            /\ s = "drop rows" => LiveClaims = {}
            /\ s = "heal" => LiveClaims # {}
      BY <1>2 DEF CountClaims
    <2>2. sweep.step = "count" /\ s \in SweepSteps \ {"idle", "next"}
      BY <1>2 DEF CountClaims, SweepAt, SweepSteps
    <2>3. /\ sweep' \in [step : SweepSteps, row : Artifacts, left : SUBSET Artifacts]
          /\ sweep'.step = s /\ sweep'.row = sweep.row
          /\ SweptIsUnmatched'
      BY <1>1, <2>1, <2>2, SweepGoesOn
    <2>4. LiveClaims' = LiveClaims
      BY <1>1, <2>3 DEF claims, LiveClaims, Live, Claimed
    <2>5. s = "drop rows" => \A r \in Artifacts : ~Wanted(r)
      BY <2>1, <2>2, WantedIsLive
    <2>6. FreshIsKept'
      BY <1>1, <2>1, <2>3, <2>5 DEF FreshIsKept, BlobTypeOK, Wanted, claims, emits
    <2>7. BytesHaveOther' /\ StampIsSafe'
      BY <2>1, <2>3, <2>4 DEF BytesHaveOther, StampIsSafe
    <2> QED
      BY <1>1, <2>3, <2>6, <2>7, SweepMove
  <1>3. CASE RecountClaims
    <2>1. PICK s \in {"stamp", "restore"} :
            /\ SweepGoes(s)
            /\ s = "stamp" => LiveClaims = {}
      BY <1>3 DEF RecountClaims
    <2>2. sweep.step = "recount" /\ s \in SweepSteps \ {"idle", "next"}
      BY <1>3 DEF RecountClaims, SweepAt, SweepSteps
    <2>3. /\ sweep' \in [step : SweepSteps, row : Artifacts, left : SUBSET Artifacts]
          /\ sweep'.step = s /\ sweep'.row = sweep.row
          /\ SweptIsUnmatched'
      BY <1>1, <2>1, <2>2, SweepGoesOn
    <2>4. LiveClaims' = LiveClaims
      BY <1>1, <2>3 DEF claims, LiveClaims, Live, Claimed
    <2>5. s = "stamp" => \A r \in Artifacts : ~Wanted(r)
      BY <2>1, <2>2, WantedIsLive
    <2>6. FreshIsKept' /\ StampIsSafe'
      BY <1>1, <2>1, <2>3, <2>5 DEF FreshIsKept, StampIsSafe, Wanted, claims
    <2>7. BytesHaveOther'
      BY <1>1, <2>1, <2>2, <2>3, <2>4 DEF BytesHaveOther, HasBytes, stores, emits
    <2> QED
      BY <1>1, <2>3, <2>6, <2>7, SweepMove
  <1>4. CASE HealFails
    <2>1. SweepGoes("stamp") /\ sweep.step = "heal" /\ unhealed'
      BY <1>4 DEF HealFails, SweepAt
    <2>2. "stamp" \in SweepSteps \ {"idle", "next"}
      BY DEF SweepSteps
    <2>3. /\ sweep' \in [step : SweepSteps, row : Artifacts, left : SUBSET Artifacts]
          /\ sweep'.step = "stamp" /\ sweep'.row = sweep.row
          /\ SweptIsUnmatched'
      BY <1>1, <2>1, <2>2, SweepGoesOn
    <2>4. LiveClaims' = LiveClaims
      BY <1>1, <2>3 DEF claims, LiveClaims, Live, Claimed
    <2>5. BytesHaveOther'
      BY <1>1, <2>1, <2>3, <2>4 DEF BytesHaveOther, HasBytes, stores, emits
    <2>6. FreshIsKept' /\ StampIsSafe'
      BY <2>1, <2>3 DEF FreshIsKept, StampIsSafe
    <2> QED
      BY <1>1, <2>3, <2>5, <2>6, SweepMove
  <1> QED
    BY <1>2, <1>3, <1>4

\* The bytes change under the sweep's hands, and the claims do not.
LEMMA SweepBytes ==
  ASSUME BlobInv, UNCHANGED <<claims, emits>>,
         unhealed' \in BOOLEAN, unhealed => unhealed',
         object' \in BOOLEAN, blobRows' \subseteq blobRows,
         sweep' \in [step : SweepSteps, row : Artifacts, left : SUBSET Artifacts],
         SweptIsUnmatched', FreshIsKept', BytesHaveOther', StampIsSafe',
         HasBytes' => HasBytes, WrittenSurvives', MissingHasRow'
  PROVE  BlobInv'
  <1> USE DEF BlobInv, claims, emits
  <1>1. BlobTypeOK'
    BY DEF BlobTypeOK, SweptIsUnmatched
  <1>2. ReleasedIsUnmatched' /\ WritersAreClaimed' /\ FreshIsWanted'
    BY DEF ReleasedIsUnmatched, WritersAreClaimed, FreshIsWanted, Claimed
  <1>3. BytesAreClaimed'
    BY DEF BytesAreClaimed, HasBytes, Live, Claimed
  <1> QED
    BY <1>1, <1>2, <1>3

LEMMA DropRowsKeeps == ASSUME BlobInv, DropBlobRows PROVE BlobInv'
  <1> USE DEF BlobInv
  <1>1. /\ sweep.step = "drop rows" /\ SweepGoes("drop object")
        /\ blobRows' = {b \in blobRows : b[2] = "fresh"}
        /\ UNCHANGED <<claims, object, emits, unhealed>>
    BY DEF DropBlobRows, SweepAt
  <1>2. "drop object" \in SweepSteps \ {"idle", "next"}
    BY DEF SweepSteps
  <1>3. /\ sweep' \in [step : SweepSteps, row : Artifacts, left : SUBSET Artifacts]
        /\ sweep'.step = "drop object" /\ sweep'.row = sweep.row
        /\ SweptIsUnmatched'
    BY <1>1, <1>2, SweepGoesOn
  <1>4. \A q \in Requests : <<q, "fresh">> \in blobRows' <=> <<q, "fresh">> \in blobRows
    BY <1>1
  <1>5. FreshIsKept'
    BY <1>1, <1>3, <1>4 DEF FreshIsKept, Wanted, claims, emits
  <1>6. WrittenSurvives'
    BY <1>1, <1>4 DEF WrittenSurvives, FreshIsKept, Wanted, claims, emits
  <1>7. BytesHaveOther'
    <2>1. ASSUME ~revived, blobRows' # {} PROVE LiveClaims # {}
      <3>1. PICK q \in Requests : <<q, "fresh">> \in blobRows
        <4>1. PICK b \in blobRows : b[2] = "fresh"
          BY <1>1, <2>1
        <4>2. b \in Requests \X {"fresh", "old"}
          BY DEF BlobTypeOK
        <4>3. b[1] \in Requests /\ b = <<b[1], "fresh">>
          BY <4>1, <4>2
        <4> QED
          BY <4>3
      <3>2. Wanted(Of[q]) /\ Of[q] \in Artifacts
        BY <2>1, <3>1 DEF FreshIsWanted, Claimed, Wanted, BlobTypeOK
      <3> QED
        BY <1>1, <3>2, WantedIsLive
    <2>2. LiveClaims' = LiveClaims
      BY <1>1, <1>3 DEF claims, LiveClaims, Live, Claimed
    <2> QED
      BY <1>1, <1>3, <2>1, <2>2 DEF BytesHaveOther, emits
  <1>8. StampIsSafe' /\ MissingHasRow'
    BY <1>1, <1>3 DEF StampIsSafe, MissingHasRow, Written, Wanted, claims, emits
  <1>9. HasBytes' => HasBytes
    BY <1>1 DEF HasBytes
  <1> QED
    BY <1>1, <1>3, <1>5, <1>6, <1>7, <1>8, <1>9, SweepBytes DEF BlobTypeOK

LEMMA DropObjectKeeps == ASSUME BlobInv, DropObject PROVE BlobInv'
  <1> USE DEF BlobInv
  <1>1. /\ sweep.step = "drop object" /\ SweepGoes("recount") /\ object' = FALSE
        /\ UNCHANGED <<claims, blobRows, emits, unhealed>>
    BY DEF DropObject, SweepAt
  <1>2. "recount" \in SweepSteps \ {"idle", "next"}
    BY DEF SweepSteps
  <1>3. /\ sweep' \in [step : SweepSteps, row : Artifacts, left : SUBSET Artifacts]
        /\ sweep'.step = "recount" /\ sweep'.row = sweep.row
        /\ SweptIsUnmatched'
    BY <1>1, <1>2, SweepGoesOn
  <1>4. FreshIsKept' /\ StampIsSafe'
    BY <1>3 DEF FreshIsKept, StampIsSafe
  <1>5. LiveClaims' = LiveClaims
    BY <1>1, <1>3 DEF claims, LiveClaims, Live, Claimed
  <1>6. BytesHaveOther'
    BY <1>1, <1>3, <1>5 DEF BytesHaveOther, HasBytes, emits
  <1>7. WrittenSurvives'
    BY <1>1 DEF WrittenSurvives, FreshIsKept, Wanted, claims, emits
  <1>8. MissingHasRow'
    <2>1. /\ verification[sweep.row] = "unmatched" /\ ~released[sweep.row]
          /\ sweep.row \in Artifacts
      BY <1>1 DEF SweptIsUnmatched, BlobTypeOK
    <2>2. \A r \in Artifacts : Wanted(r) => r # sweep.row
      BY <2>1 DEF Wanted
    <2> QED
      BY <1>1, <2>1, <2>2 DEF MissingHasRow, Wanted, claims
  <1> QED
    BY <1>1, <1>3, <1>4, <1>6, <1>7, <1>8, SweepBytes DEF BlobTypeOK, HasBytes

\* ensureStorageCopy, before the release of another claim.
LEMMA EnsureKeeps == ASSUME BlobInv, RestoreObject \/ HealObject PROVE BlobInv'
  <1> USE DEF BlobInv
  <1>1. /\ sweep.step \in {"restore", "heal"}
        /\ object' = (object \/ blobRows # {})
        /\ UNCHANGED <<claims, blobRows, emits>>
    BY DEF RestoreObject, HealObject, SweepAt, EnsureCopy
  <1>2. /\ unhealed' \in BOOLEAN /\ (unhealed => unhealed')
        /\ sweep' \in [step : SweepSteps, row : Artifacts, left : SUBSET Artifacts]
        /\ sweep'.step \in {"next", "stamp"} /\ sweep'.row = sweep.row
        /\ sweep'.left = sweep.left
        /\ sweep'.step = "stamp" => object' \/ unhealed'
    <2>1. CASE HealObject
      <3>1. SweepGoes("stamp") /\ unhealed' = (unhealed \/ ~object')
        BY <2>1 DEF HealObject
      <3> QED
        BY <1>1, <3>1 DEF SweepGoes, BlobTypeOK, SweepSteps
    <2>2. CASE RestoreObject
      <3>1. SweepGoes(IF object' THEN "stamp" ELSE "next") /\ unhealed' = unhealed
        BY <2>2 DEF RestoreObject
      <3> QED
        BY <1>1, <3>1 DEF SweepGoes, BlobTypeOK, SweepSteps
    <2> QED
      BY <2>1, <2>2
  <1>3. SweptIsUnmatched'
    BY <1>1, <1>2 DEF SweptIsUnmatched, claims
  <1>4. FreshIsKept' /\ StampIsSafe'
    BY <1>2 DEF FreshIsKept, StampIsSafe
  <1>5. LiveClaims' = LiveClaims
    BY <1>1, <1>2 DEF claims, LiveClaims, Live, Claimed
  <1>6. BytesHaveOther'
    BY <1>1, <1>2, <1>5 DEF BytesHaveOther, HasBytes, emits
  <1>7. WrittenSurvives' /\ MissingHasRow'
    BY <1>1, <1>2 DEF WrittenSurvives, MissingHasRow, Written, Wanted, claims, emits
  <1>8. object' \in BOOLEAN /\ (HasBytes' => HasBytes)
    BY <1>1 DEF HasBytes
  <1> QED
    BY <1>1, <1>2, <1>3, <1>4, <1>6, <1>7, <1>8, SweepBytes

\* The release of a claim.
LEMMA StampKeeps == ASSUME BlobInv, StampReleased PROVE BlobInv'
  <1> USE DEF BlobInv
  <1>1. /\ sweep.step = "stamp" /\ SweepGoes("next")
        /\ released' = [released EXCEPT ![sweep.row] = TRUE]
        /\ UNCHANGED <<verification, object, blobRows, emit, again, wrote, revived, unhealed>>
    BY DEF StampReleased, SweepAt, stores, emits
  <1>2. /\ sweep' \in [step : SweepSteps, row : Artifacts, left : SUBSET Artifacts]
        /\ sweep'.step = "next" /\ sweep'.row = sweep.row /\ sweep'.left = sweep.left
        /\ sweep.row \in Artifacts
    BY <1>1 DEF SweepGoes, BlobTypeOK, SweepSteps
  <1>3. /\ verification[sweep.row] = "unmatched" /\ sweep.row \notin sweep.left
    BY <1>1 DEF SweptIsUnmatched
  <1>4. \A r \in Artifacts : released'[r] = IF r = sweep.row THEN TRUE ELSE released[r]
    BY <1>1 DEF BlobTypeOK
  <1>5. BlobTypeOK'
    BY <1>1, <1>2 DEF BlobTypeOK
  <1>6. ReleasedIsUnmatched' /\ SweptIsUnmatched'
    BY <1>1, <1>2, <1>3, <1>4 DEF ReleasedIsUnmatched, SweptIsUnmatched, BlobTypeOK
  <1>7. WritersAreClaimed' /\ FreshIsWanted'
    BY <1>1 DEF WritersAreClaimed, FreshIsWanted, Claimed
  <1>8. FreshIsKept' /\ BytesHaveOther' /\ StampIsSafe'
    BY <1>2 DEF FreshIsKept, BytesHaveOther, StampIsSafe
  <1>9. WrittenSurvives'
    BY <1>1 DEF WrittenSurvives, Wanted
  <1>10. MissingHasRow'
    BY <1>1 DEF MissingHasRow, StampIsSafe, Written, Wanted
  <1>11. BytesAreClaimed'
    <2>1. ASSUME ~revived, HasBytes PROVE \E r \in Artifacts : Live(r)'
      <3>1. PICK r \in Artifacts \ {sweep.row} : Live(r)
        BY <1>1, <2>1 DEF BytesHaveOther, LiveClaims
      <3> QED
        BY <1>1, <1>4, <3>1 DEF Live, Claimed
    <2> QED
      BY <1>1, <2>1 DEF BytesAreClaimed, HasBytes
  <1> QED
    BY <1>5, <1>6, <1>7, <1>8, <1>9, <1>10, <1>11

LEMMA BlobStepInv == BlobInv /\ [BlobNext]_blobVars => BlobInv'
  <1> SUFFICES ASSUME BlobInv, [BlobNext]_blobVars PROVE BlobInv'
    OBVIOUS
  <1>1. CASE UNCHANGED blobVars
    BY <1>1 DEF blobVars, claims, stores, emits, BlobInv, BlobTypeOK, ReleasedIsUnmatched,
                SweptIsUnmatched, WritersAreClaimed, FreshIsKept, FreshIsWanted,
                BytesHaveOther, StampIsSafe, MissingHasRow, WrittenSurvives,
                BytesAreClaimed, HasBytes, LiveClaims, Live, Claimed, Wanted, Written
  <1>2. ASSUME NEW q \in Requests, EmitNext(q) \/ BlobAges(q) PROVE BlobInv'
    BY <1>2, QuietEmitKeeps, InsertRowKeeps, PutObjectKeeps, MarkBlobKeeps, BlobAgesKeeps
    DEF EmitNext
  <1>3. CASE SweepNext
    BY <1>3, SweepTurns, CountKeeps, DropRowsKeeps, DropObjectKeeps, EnsureKeeps, StampKeeps
    DEF SweepNext
  <1> QED
    BY <1>1, <1>2, <1>3, VerdictKeeps DEF BlobNext

\* Every step keeps BlobInv.
LEMMA BlobInvariant == BlobSpec => []BlobInv
  BY BlobInitInv, BlobStepInv, PTL DEF BlobSpec

\* The rows, the stores and the requests keep their types.
THEOREM BlobTypeCorrect == BlobSpec => []BlobTypeOK
  <1>1. BlobInv => BlobTypeOK
    BY DEF BlobInv
  <1> QED
    BY <1>1, BlobInvariant, PTL

\* "Two guards keep such a claim's bytes alive": bytes written for a claim that stands are
\* in a store, whatever requests and sweeps interleave, fail or die.
THEOREM BytesSurvive == BlobSpec => []WrittenSurvives
  <1>1. BlobInv => WrittenSurvives
    BY DEF BlobInv
  <1> QED
    BY <1>1, BlobInvariant, PTL

\* What object storage lost is looked at again by a later sweep, unless its heal failed
\* (the stamp of artifact-blob-sweep.ts is not reached before the heal).
THEOREM MissingRevisited == BlobSpec => []MissingIsRevisited
  <1>1. BlobInv => MissingIsRevisited
    BY DEF BlobInv, MissingHasRow, MissingIsRevisited, Written, BlobTypeOK
  <1> QED
    BY <1>1, BlobInvariant, PTL

\* "bytes only ever exist under a visible claim" (artifacts.ts), unless a retry writes
\* after its request was given up.
THEOREM NoStrayBytes == BlobSpec => []BytesAreClaimed
  <1>1. BlobInv => BytesAreClaimed
    BY DEF BlobInv
  <1> QED
    BY <1>1, BlobInvariant, PTL

=============================================================================
