---------------------------- MODULE ArtifactSpool ---------------------------
(***************************************************************************)
(* The artifact spool of the CLI.  `emit artifact` parks the bytes under   *)
(* their hash and appends a record; a sync uploads the records past the    *)
(* watermark, deletes the bytes nobody needs any more, and moves the       *)
(* watermark to the first record that has to be tried again.  Commands and *)
(* syncs are processes of their own, and no file of the spool is locked.   *)
(*                                                                         *)
(* Offsets are counted in records.                                         *)
(***************************************************************************)
EXTENDS Naturals, Sequences

CONSTANTS Commands,    \* emit commands, one record each
          Sha,         \* the hash of the bytes of each
          Uploads,     \* syncs that reach their artifacts
          SpoolFaults  \* what goes wrong: see below

SpoolFaultKinds == {"server error", "lost answer", "rejected", "unauthorized",
                    "append fails", "killed"}

ASSUME SpoolFaultsAssumption == SpoolFaults \subseteq SpoolFaultKinds

VARIABLES
  spool,     \* artifacts.jsonl
  blobs,     \* hashes under artifact-blobs/
  offset,    \* artifacts.watermark: records consumed
  ids,       \* artifacts.uploaded.json
  received,  \* emits the server has an artifact of
  emitting,  \* each emit's next step
  own,       \* it wrote the bytes itself
  uploading, \* each sync's next step
  from, to,  \* the records of its plan are those after from, up to to
  known,     \* the uploaded ids it read
  outcome,   \* what became of the records of its plan so far
  doomed,    \* hashes it is about to delete
  given,     \* emits the server rejected for good (ghost)
  raced      \* emits that appended when their bytes were gone or doomed (ghost)

files == <<spool, blobs, offset, ids>>
plan == <<from, to, known, outcome, doomed>>
spoolVars == <<files, received, emitting, own, uploading, plan, given, raced>>

Shas == {Sha[e] : e \in Commands}
Outcomes == {"uploaded", "dead", "held", "dropped"}

Planned(u) == (from[u] + 1)..to[u]
Noted(u) == (from[u] + 1)..(from[u] + Len(outcome[u]))
With(u, kinds) == {i \in Noted(u) : outcome[u][i - from[u]] \in kinds}
ShasAt(positions) == {Sha[spool[i]] : i \in positions}

SpoolTypeOK ==
  /\ spool \in Seq(Commands)
  /\ blobs \subseteq Shas
  /\ offset \in 0..Len(spool)
  /\ ids \subseteq Commands /\ received \subseteq Commands /\ given \subseteq Commands
  /\ raced \subseteq Commands
  /\ emitting \in [Commands -> {"idle", "write", "append", "spooled", "failed", "killed"}]
  /\ own \in [Commands -> BOOLEAN]
  /\ uploading \in [Uploads -> {"idle", "ids", "send", "refused", "scan", "clean", "keep",
                                "mark", "done", "killed"}]
  /\ from \in [Uploads -> Nat] /\ to \in [Uploads -> Nat]
  /\ known \in [Uploads -> SUBSET Commands] /\ doomed \in [Uploads -> SUBSET Shas]
  /\ outcome \in [Uploads -> Seq(Outcomes)]
  /\ \A u \in Uploads :
       /\ from[u] + Len(outcome[u]) <= to[u] /\ to[u] <= Len(spool)
       /\ doomed[u] \subseteq ShasAt(With(u, {"uploaded", "dead"}))

SpoolInit ==
  /\ spool = <<>> /\ blobs = {} /\ offset = 0 /\ ids = {} /\ received = {}
  /\ emitting = [e \in Commands |-> "idle"]
  /\ own = [e \in Commands |-> FALSE]
  /\ uploading = [u \in Uploads |-> "idle"]
  /\ from = [u \in Uploads |-> 0] /\ to = [u \in Uploads |-> 0]
  /\ known = [u \in Uploads |-> {}]
  /\ outcome = [u \in Uploads |-> <<>>]
  /\ doomed = [u \in Uploads |-> {}]
  /\ given = {} /\ raced = {}

Emit(e, s, t) == emitting[e] = s /\ emitting' = [emitting EXCEPT ![e] = t]
Upload(u, s, t) == uploading[u] = s /\ uploading' = [uploading EXCEPT ![u] = t]

---------------------------------------------------------------------------
\* emit artifact, in a recorded session.

LookForBlob(e) ==
  /\ Emit(e, "idle", IF Sha[e] \in blobs THEN "append" ELSE "write")
  /\ UNCHANGED <<files, received, own, uploading, plan, given, raced>>

WriteBlob(e) ==
  /\ Emit(e, "write", "append")
  /\ blobs' = blobs \cup {Sha[e]}
  /\ own' = [own EXCEPT ![e] = TRUE]
  /\ UNCHANGED <<spool, offset, ids, received, uploading, plan, given, raced>>

AppendRecord(e) ==
  /\ Emit(e, "append", "spooled")
  /\ spool' = Append(spool, e)
  /\ raced' = IF Sha[e] \notin blobs \/ \E u \in Uploads : Sha[e] \in doomed[u]
                THEN raced \cup {e} ELSE raced
  /\ UNCHANGED <<blobs, offset, ids, received, own, uploading, plan, given>>

\* The emit is an error then, and takes its bytes back if it wrote them, also from
\* an emit of the same bytes that found them.
AppendFails(e) ==
  /\ "append fails" \in SpoolFaults
  /\ Emit(e, "append", "failed")
  /\ blobs' = IF own[e] THEN blobs \ {Sha[e]} ELSE blobs
  /\ raced' = IF own[e] THEN raced \cup {d \in Commands : emitting[d] = "spooled" /\ Sha[d] = Sha[e]}
              ELSE raced
  /\ UNCHANGED <<spool, offset, ids, received, own, uploading, plan, given>>

EmitKilled(e) ==
  /\ "killed" \in SpoolFaults
  /\ emitting[e] \in {"write", "append"}
  /\ emitting' = [emitting EXCEPT ![e] = "killed"]
  /\ UNCHANGED <<files, received, own, uploading, plan, given, raced>>

---------------------------------------------------------------------------
\* The artifacts of a sync.

\* planArtifactUpload; a plan without records only confirms the watermark.
PlanUpload(u) ==
  /\ Upload(u, "idle", IF offset = Len(spool) THEN "mark" ELSE "ids")
  /\ from' = [from EXCEPT ![u] = offset]
  /\ to' = [to EXCEPT ![u] = Len(spool)]
  /\ UNCHANGED <<files, received, emitting, own, known, outcome, doomed, given, raced>>

ReadUploadedIds(u) ==
  /\ Upload(u, "ids", "send")
  /\ known' = [known EXCEPT ![u] = ids]
  /\ UNCHANGED <<files, received, emitting, own, from, to, outcome, doomed, given, raced>>

\* The next record of the plan.
Here(u) == from[u] + Len(outcome[u]) + 1
Notes(u, o) == outcome' = [outcome EXCEPT ![u] = Append(@, o)]
Sends(u) ==
  /\ spool[Here(u)] \notin known[u]
  /\ Sha[spool[Here(u)]] \in blobs
  /\ uploading[u] = "send"

\* Uploaded before, or its bytes are missing: the record is dropped.
PassRecord(u) ==
  /\ Upload(u, "send", "send")
  /\ Here(u) <= to[u]
  /\ ~Sends(u)
  /\ Notes(u, IF spool[Here(u)] \in known[u] THEN "uploaded" ELSE "dropped")
  /\ UNCHANGED <<files, received, emitting, own, from, to, known, doomed, given, raced>>

\* POST /v1/artifacts: stored ...
SendRecord(u) ==
  /\ Here(u) <= to[u] /\ Sends(u)
  /\ Notes(u, "uploaded")
  /\ received' = received \cup {spool[Here(u)]}
  /\ UNCHANGED <<files, emitting, own, uploading, from, to, known, doomed, given, raced>>

\* ... rejected for good, or failing for two weeks ...
RejectRecord(u) ==
  /\ "rejected" \in SpoolFaults
  /\ Here(u) <= to[u] /\ Sends(u)
  /\ Notes(u, "dead")
  /\ given' = given \cup {spool[Here(u)]}
  /\ UNCHANGED <<files, received, emitting, own, uploading, from, to, known, doomed, raced>>

\* ... or to be tried again, perhaps stored nevertheless.
HoldRecord(u) ==
  /\ Here(u) <= to[u] /\ Sends(u)
  /\ Notes(u, "held")
  /\ \/ "server error" \in SpoolFaults /\ UNCHANGED received
     \/ "lost answer" \in SpoolFaults /\ received' = received \cup {spool[Here(u)]}
  /\ UNCHANGED <<files, emitting, own, uploading, from, to, known, doomed, given, raced>>

\* A 401 holds this record and all that follow.
Unauthorized(u) ==
  /\ "unauthorized" \in SpoolFaults
  /\ Here(u) <= to[u] /\ Sends(u)
  /\ outcome' = [outcome EXCEPT ![u] = [n \in 1..(to[u] - from[u]) |->
                   IF n <= Len(@) THEN @[n] ELSE "held"]]
  /\ UNCHANGED <<files, received, emitting, own, uploading, from, to, known, doomed,
                 given, raced>>

\* Bytes that were uploaded or are given up, unless a record held, or appended since
\* the plan was made, needs them: read here ...
ScanLate(u) ==
  /\ Here(u) > to[u]
  /\ Upload(u, "send", "clean")
  /\ doomed' = [doomed EXCEPT ![u] =
       ShasAt(With(u, {"uploaded", "dead"}))
         \ (ShasAt(With(u, {"held"})) \cup ShasAt((to[u] + 1)..Len(spool)))]
  /\ UNCHANGED <<files, received, emitting, own, from, to, known, outcome, given, raced>>

\* ... and deleted here.
DeleteBlobs(u) ==
  /\ Upload(u, "clean", "keep")
  /\ blobs' = blobs \ doomed[u]
  /\ doomed' = [doomed EXCEPT ![u] = {}]
  /\ UNCHANGED <<spool, offset, ids, received, emitting, own, from, to, known, outcome,
                 given, raced>>

\* The next sync starts at the first record held.
Resumes(u) == {r \in {to[u]} \cup {i - 1 : i \in With(u, {"held"})} :
                 \A i \in With(u, {"held"}) : r < i}

\* Ids the watermark passes age out.
KeepIds(u) ==
  /\ Upload(u, "keep", "mark")
  /\ ids' = {spool[j] : j \in {i \in With(u, {"uploaded"}) : \E r \in Resumes(u) : r < i}}
  /\ UNCHANGED <<spool, blobs, offset, received, emitting, own, plan, given, raced>>

\* Mutant: the watermark passes the records held.
MoveToEnd(u) ==
  /\ Upload(u, "mark", "done")
  /\ offset' = to[u]
  /\ UNCHANGED <<spool, blobs, ids, received, emitting, own, plan, given, raced>>

MoveWatermark(u) ==
  /\ Upload(u, "mark", "done")
  /\ offset' \in Resumes(u)
  /\ UNCHANGED <<spool, blobs, ids, received, emitting, own, plan, given, raced>>

UploadKilled(u) ==
  /\ "killed" \in SpoolFaults
  /\ uploading[u] \notin {"idle", "done", "killed"}
  /\ uploading' = [uploading EXCEPT ![u] = "killed"]
  /\ doomed' = [doomed EXCEPT ![u] = {}]
  /\ UNCHANGED <<files, received, emitting, own, from, to, known, outcome, given, raced>>

EmitStep(e) ==
  LookForBlob(e) \/ WriteBlob(e) \/ AppendRecord(e) \/ AppendFails(e) \/ EmitKilled(e)

UploadStep(u) ==
  \/ PlanUpload(u) \/ ReadUploadedIds(u) \/ PassRecord(u) \/ SendRecord(u)
  \/ RejectRecord(u) \/ HoldRecord(u) \/ Unauthorized(u) \/ ScanLate(u)
  \/ DeleteBlobs(u) \/ KeepIds(u) \/ MoveWatermark(u) \/ UploadKilled(u)

SpoolNext == (\E e \in Commands : EmitStep(e)) \/ (\E u \in Uploads : UploadStep(u))

SpoolSpec == SpoolInit /\ [][SpoolNext]_spoolVars

---------------------------------------------------------------------------
\* "The spool record IS the deliverable": an artifact reported as spooled is on the
\* server, was rejected, or still lies past the watermark with its bytes, through
\* failures, kills and overlapping syncs, unless its emit and a cleanup crossed.
Deliverable(i) ==
  \/ spool[i] \in received \cup given \cup raced
  \/ i > offset /\ Sha[spool[i]] \in blobs

SpooledSurvives == \A i \in DOMAIN spool : Deliverable(i)

=============================================================================
