---------------------------- MODULE ArtifactBlobs ---------------------------
(***************************************************************************)
(* The bytes of one content hash, in object storage and in the ClickHouse  *)
(* table agent_blobs, shared by every artifact row that claims them.  Emit *)
(* requests claim and write them, side by side and again after a failure;  *)
(* the daily sweep releases the claims of unmatched artifacts, and deletes *)
(* the bytes with the last one.  Every query and every store call is a     *)
(* step, and nothing locks the hash between them.                          *)
(***************************************************************************)
EXTENDS Naturals, FiniteSets

CONSTANTS Artifacts,  \* clientArtifactIds, all with the same bytes
          Requests,   \* emit requests, each made once
          Of,         \* the artifact each request emits
          BlobFaults  \* what goes wrong: see below

BlobFaultKinds == {"store error", "lost answer", "request dies", "sweep error", "sweep dies"}

ASSUME OfAssumption == Of \in [Requests -> Artifacts]
ASSUME BlobFaultsAssumption == BlobFaults \subseteq BlobFaultKinds

VARIABLES
  verification, \* of each artifact row, "none" while there is no row
  released,     \* blob_deleted
  object,       \* object storage has the bytes
  blobRows,     \* their agent_blobs rows, by the request that inserted one and by age:
                \* the fence tells "fresh" from "old"
  emit,         \* each request's next step
  again,        \* it works for a row that it found (ghost)
  sweep,        \* the sweep: its next step, the row at hand and those to come
  wrote,        \* artifacts of which a request wrote both copies (ghost)
  revived,      \* a late retry wrote the bytes of an artifact about to be, or already,
                \* unmatched (ghost)
  unhealed      \* a heal failed or found no bytes, and the sweep went on (ghost)

claims == <<verification, released>>
stores == <<object, blobRows>>
emits == <<emit, again, wrote, revived>>
blobVars == <<claims, stores, emits, sweep, unhealed>>

EmitSteps == {"idle", "look", "insert", "probe", "put", "mark", "ok", "shed", "dead"}
SweepSteps == {"idle", "next", "count", "drop rows", "drop object", "recount",
               "restore", "heal", "stamp"}

Claimed(r) == verification[r] # "none"
Live(r) == Claimed(r) /\ ~released[r]

BlobTypeOK ==
  /\ verification \in [Artifacts -> {"none", "pending", "confirmed", "unmatched"}]
  /\ released \in [Artifacts -> BOOLEAN]
  /\ object \in BOOLEAN
  /\ blobRows \subseteq Requests \X {"fresh", "old"}
  /\ emit \in [Requests -> EmitSteps]
  /\ again \in [Requests -> BOOLEAN]
  /\ sweep \in [step : SweepSteps, row : Artifacts, left : SUBSET Artifacts]
  /\ wrote \subseteq Artifacts
  /\ revived \in BOOLEAN /\ unhealed \in BOOLEAN
  /\ \A r \in sweep.left : verification[r] = "unmatched"

BlobInit ==
  /\ verification = [r \in Artifacts |-> "none"]
  /\ released = [r \in Artifacts |-> FALSE]
  /\ object = FALSE /\ blobRows = {}
  /\ emit = [q \in Requests |-> "idle"]
  /\ again = [q \in Requests |-> FALSE]
  /\ \E r \in Artifacts : sweep = [step |-> "idle", row |-> r, left |-> {}]
  /\ wrote = {} /\ revived = FALSE /\ unhealed = FALSE

Emits(q, s) == emit[q] = s
EmitGoes(q, s) == emit' = [emit EXCEPT ![q] = s]

---------------------------------------------------------------------------
\* POST /v1/artifacts.

\* The first request, or a retry, perhaps with the first one still at work.
EmitArrives(q) ==
  /\ Emits(q, "idle")
  /\ EmitGoes(q, "look")
  /\ UNCHANGED <<claims, stores, again, sweep, wrote, revived, unhealed>>

\* Mutant: the bytes first, and then their row.
LookUpPutsFirst(q) ==
  /\ Emits(q, "look")
  /\ EmitGoes(q, IF ~Claimed(Of[q]) THEN "put"
                 ELSE IF released[Of[q]] THEN "ok" ELSE "probe")
  /\ UNCHANGED <<claims, stores, again, sweep, wrote, revived, unhealed>>

\* The idempotency check: a released row is returned untouched.
LookUp(q) ==
  /\ Emits(q, "look")
  /\ EmitGoes(q, IF ~Claimed(Of[q]) THEN "insert"
                 ELSE IF released[Of[q]] THEN "ok" ELSE "probe")
  /\ UNCHANGED <<claims, stores, again, sweep, wrote, revived, unhealed>>

\* The row is inserted before the bytes are written; the loser of two inserts goes
\* on with the winner's row.
InsertRow(q) ==
  /\ Emits(q, "insert")
  /\ IF Claimed(Of[q]) THEN UNCHANGED verification
     ELSE \E v \in {"pending", "confirmed"} :
            verification' = [verification EXCEPT ![Of[q]] = v]
  /\ EmitGoes(q, "put")
  /\ UNCHANGED <<released, stores, again, sweep, wrote, revived, unhealed>>

\* The agent_blobs row is the commit marker of both writes.
ProbeMarker(q) ==
  /\ Emits(q, "probe")
  /\ again' = [again EXCEPT ![q] = TRUE]
  /\ EmitGoes(q, IF blobRows = {} THEN "put" ELSE "ok")
  /\ UNCHANGED <<claims, stores, sweep, wrote, revived, unhealed>>

\* Bytes written for an artifact that is unmatched by now.
Revives(q) == revived' = (revived \/ verification[Of[q]] = "unmatched")

PutObject(q) ==
  /\ Emits(q, "put")
  /\ object' = TRUE
  /\ Revives(q)
  /\ EmitGoes(q, "mark") \/ ("lost answer" \in BlobFaults /\ EmitGoes(q, "shed"))
  /\ UNCHANGED <<claims, blobRows, again, sweep, wrote, unhealed>>

MarkBlob(q) ==
  /\ Emits(q, "mark")
  /\ blobRows' = blobRows \cup {<<q, "fresh">>}
  /\ Revives(q)
  /\ \/ EmitGoes(q, "ok") /\ wrote' = wrote \cup {Of[q]}
     \/ "lost answer" \in BlobFaults /\ EmitGoes(q, "shed") /\ UNCHANGED wrote
  /\ UNCHANGED <<claims, object, again, sweep, unhealed>>

\* A store refuses the write: 503, and the client tries again.
ShedEmit(q) ==
  /\ "store error" \in BlobFaults
  /\ emit[q] \in {"put", "mark"}
  /\ EmitGoes(q, "shed")
  /\ UNCHANGED <<claims, stores, again, sweep, wrote, revived, unhealed>>

EmitDies(q) ==
  /\ "request dies" \in BlobFaults
  /\ emit[q] \notin {"idle", "ok", "shed", "dead"}
  /\ EmitGoes(q, "dead")
  /\ UNCHANGED <<claims, stores, again, sweep, wrote, revived, unhealed>>

---------------------------------------------------------------------------
\* Time and the reconciler.

\* The fence: an hour passes, and no sweep is that long between a count and a delete.
BlobAges(q) ==
  /\ <<q, "fresh">> \in blobRows
  /\ sweep.step \in {"idle", "next", "count"}
  /\ blobRows' = (blobRows \ {<<q, "fresh">>}) \cup {<<q, "old">>}
  /\ UNCHANGED <<claims, object, emits, sweep, unhealed>>

\* A pull request is found for a pending artifact ...
ConfirmArtifact(r) ==
  /\ verification[r] = "pending"
  /\ verification' = [verification EXCEPT ![r] = "confirmed"]
  /\ UNCHANGED <<released, stores, emits, sweep, unhealed>>

\* ... or none within the grace, seven days at least: that outlasts the request that
\* inserted the row and the fence of what it wrote, but not those of a late retry.
FreshOf(r) == {q \in Requests : Of[q] = r /\ <<q, "fresh">> \in blobRows}
UnmatchArtifact(r) ==
  /\ verification[r] = "pending"
  /\ \A q \in FreshOf(r) : again[q]
  /\ \A q \in Requests : Of[q] = r /\ emit[q] \in {"insert", "put", "mark"} => again[q]
  /\ verification' = [verification EXCEPT ![r] = "unmatched"]
  /\ revived' = (revived \/ FreshOf(r) # {})
  /\ UNCHANGED <<released, stores, emit, again, wrote, sweep, unhealed>>

---------------------------------------------------------------------------
\* sweepUnmatchedArtifactBlobs, one row after the other.

SweepAt(s) == sweep.step = s
SweepGoes(s) == sweep' = [sweep EXCEPT !.step = s]

\* Claims on the bytes other than that of the row at hand.
LiveClaims == {r \in Artifacts \ {sweep.row} : Live(r)}

\* The read of the unmatched rows; a sweep that finds none is no step.
SweepStart ==
  /\ SweepAt("idle")
  /\ sweep' = [sweep EXCEPT !.step = "next",
                 !.left = {r \in Artifacts : verification[r] = "unmatched" /\ ~released[r]}]
  /\ sweep'.left # {}
  /\ UNCHANGED <<claims, stores, emits, unhealed>>

SweepRow ==
  /\ SweepAt("next")
  /\ IF sweep.left = {} THEN SweepGoes("idle")
     ELSE \E r \in sweep.left :
            sweep' = [step |-> "count", row |-> r, left |-> sweep.left \ {r}]
  /\ UNCHANGED <<claims, stores, emits, unhealed>>

CountClaims ==
  /\ SweepAt("count")
  /\ SweepGoes(IF LiveClaims = {} THEN "drop rows" ELSE "heal")
  /\ UNCHANGED <<claims, stores, emits, unhealed>>

\* Mutant: no fence.
DropEveryRow ==
  /\ SweepAt("drop rows")
  /\ blobRows' = {}
  /\ SweepGoes("drop object")
  /\ UNCHANGED <<claims, object, emits, unhealed>>

\* The delete in ClickHouse is fenced: it spares the fresh row of a racing emit.
DropBlobRows ==
  /\ SweepAt("drop rows")
  /\ blobRows' = {b \in blobRows : b[2] = "fresh"}
  /\ SweepGoes("drop object")
  /\ UNCHANGED <<claims, object, emits, unhealed>>

DropObject ==
  /\ SweepAt("drop object")
  /\ object' = FALSE
  /\ SweepGoes("recount")
  /\ UNCHANGED <<claims, blobRows, emits, unhealed>>

\* Mutant: no second look after the delete.
RecountNothing ==
  /\ SweepAt("recount")
  /\ SweepGoes("stamp")
  /\ UNCHANGED <<claims, stores, emits, unhealed>>

RecountClaims ==
  /\ SweepAt("recount")
  /\ SweepGoes(IF LiveClaims = {} THEN "stamp" ELSE "restore")
  /\ UNCHANGED <<claims, stores, emits, unhealed>>

\* ensureStorageCopy puts the object back from agent_blobs.
EnsureCopy == object' = (object \/ blobRows # {})

\* Bytes in neither store leave the row to the next sweep ...
RestoreObject ==
  /\ SweepAt("restore")
  /\ EnsureCopy
  /\ SweepGoes(IF object' THEN "stamp" ELSE "next")
  /\ UNCHANGED <<claims, blobRows, emits, unhealed>>

\* ... except for a heal, which trusts the retry of the claimant to put them again.
HealObject ==
  /\ SweepAt("heal")
  /\ EnsureCopy
  /\ unhealed' = (unhealed \/ ~object')
  /\ SweepGoes("stamp")
  /\ UNCHANGED <<claims, blobRows, emits>>

\* A heal that fails is only logged.
HealFails ==
  /\ "sweep error" \in BlobFaults
  /\ SweepAt("heal")
  /\ unhealed' = TRUE
  /\ SweepGoes("stamp")
  /\ UNCHANGED <<claims, stores, emits>>

StampReleased ==
  /\ SweepAt("stamp")
  /\ released' = [released EXCEPT ![sweep.row] = TRUE]
  /\ SweepGoes("next")
  /\ UNCHANGED <<verification, stores, emits, unhealed>>

\* Any other call fails: the row is left to the next sweep.
SweepFails ==
  /\ "sweep error" \in BlobFaults
  /\ ~SweepAt("idle") /\ ~SweepAt("next") /\ ~SweepAt("heal")
  /\ SweepGoes("next")
  /\ UNCHANGED <<claims, stores, emits, unhealed>>

SweepDies ==
  /\ "sweep dies" \in BlobFaults
  /\ ~SweepAt("idle")
  /\ sweep' = [sweep EXCEPT !.step = "idle", !.left = {}]
  /\ UNCHANGED <<claims, stores, emits, unhealed>>

EmitNext(q) ==
  \/ EmitArrives(q) \/ LookUp(q) \/ InsertRow(q) \/ ProbeMarker(q) \/ PutObject(q)
  \/ MarkBlob(q) \/ ShedEmit(q) \/ EmitDies(q)

SweepNext ==
  \/ SweepStart \/ SweepRow \/ CountClaims \/ DropBlobRows \/ DropObject
  \/ RecountClaims \/ RestoreObject \/ HealObject \/ HealFails \/ StampReleased
  \/ SweepFails \/ SweepDies

BlobNext ==
  \/ \E q \in Requests : EmitNext(q) \/ BlobAges(q)
  \/ \E r \in Artifacts : ConfirmArtifact(r) \/ UnmatchArtifact(r)
  \/ SweepNext

BlobSpec == BlobInit /\ [][BlobNext]_blobVars

---------------------------------------------------------------------------
Wanted(r) == verification[r] \in {"pending", "confirmed"}

\* "Two guards keep such a claim's bytes alive": as long as an artifact is not unmatched,
\* bytes that an emit of it wrote to both stores stay in one of them, whatever the sweep
\* does to the claims of others.
WrittenSurvives ==
  \A r \in wrote : Wanted(r) => object \/ blobRows # {}

\* Bytes that object storage lost to a sweep, and with it the only route that serves
\* them, have a row left over that brings the next sweep back to them, unless a heal
\* failed or came before the write of agent_blobs.
MissingIsRevisited ==
  \A r \in wrote : Wanted(r) /\ ~object =>
    unhealed \/ \E o \in Artifacts \ {r} : verification[o] = "unmatched" /\ ~released[o]

\* "bytes only ever exist under a visible claim": none outlive the last claim, unless
\* a late retry wrote them for an artifact whose time was up.
BytesAreClaimed ==
  object \/ blobRows # {} => revived \/ \E r \in Artifacts : Live(r)

\* The same for bytes a request only found: not so, see the README.
AnsweredSurvives ==
  \A q \in Requests : Emits(q, "ok") /\ Wanted(Of[q]) => object \/ blobRows # {}
=============================================================================
