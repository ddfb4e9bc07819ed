------------------------ MODULE SessionPersistProofs ------------------------
(***************************************************************************)
(* Proofs about the transcripts: of a worker's run, as SessionPersist      *)
(* stores them (the session of the transcript stands, and a run that       *)
(* reported has a session, for any number of posts); and of a developer's  *)
(* machine, as CliSync sends them (the watermark skips nothing).           *)
(***************************************************************************)
EXTENDS SessionPersist, CliSync, SequenceTheorems, WellFoundedInduction, TLAPS

LEMMA WriterKinds ==
  /\ \A w \in Writers : w # <<>> /\ w[1] \in {"transcript", "bridge"}
  /\ \A w \in Uploaders : w \in Writers /\ w[1] = "transcript"
  /\ \A w \in Bridges : w \in Writers /\ w[1] = "bridge"
  /\ \A w \in Writers : w \in Uploaders \/ w \in Bridges
  <1>1. \A i : <<"transcript", i>> # <<>> /\ <<"bridge", i>> # <<>>
    OBVIOUS
  <1> QED
    BY <1>1 DEF Writers, Uploaders, Bridges

\* As long as no request was overtaken, one handler at most is at work.
OneAtWork ==
  ~crossed => \A v, w \in Writers : Working(v) /\ Working(w) => v = w

\* What the bridge found, nothing, is still so when it writes.
BridgeWritesFirst ==
  ~crossed =>
    \A w \in Bridges : handler[w] \in {"spans", "summary"} => DOMAIN summary = {}

\* No callback is posted before the uploads have ended.
BridgesWait == \A w \in Bridges : handler[w] # "none" => phase # "upload"

\* No bridge has written while an upload is to come or at work.
UploadsComeFirst ==
  ~crossed /\ (phase = "upload" \/ \E w \in Uploaders : Working(w)) =>
    \A t \in DOMAIN summary : summary[t] = "transcript"

FullIsWritten == full => DOMAIN summary # {}

PersistInv ==
  /\ PersistTypeOK
  /\ OneAtWork
  /\ BridgeWritesFirst
  /\ BridgesWait
  /\ UploadsComeFirst
  /\ FullIsWritten
  /\ FullSessionStands
  /\ ReportedHasSession

USE UploadsAssumption

LEMMA PersistInitInv == PersistInit => PersistInv
  <1> SUFFICES ASSUME PersistInit PROVE PersistInv
    OBVIOUS
  <1> USE DEF PersistInit
  <1>1. DOMAIN summary = {}
    OBVIOUS
  <1>2. PersistTypeOK
    <2>1. handler \in [Writers -> HandlerSteps]
      BY DEF HandlerSteps
    <2>2. sent \in [upload : 0..MaxUploads, report : 0..MaxCallbacks]
      OBVIOUS
    <2> QED
      BY <1>1, <2>1, <2>2 DEF PersistTypeOK
  <1>3. \A w \in Writers : handler[w] = "none"
    OBVIOUS
  <1>4. OneAtWork /\ BridgeWritesFirst /\ BridgesWait /\ ReportedHasSession
    BY <1>3, WriterKinds DEF OneAtWork, BridgeWritesFirst, BridgesWait, ReportedHasSession,
                             Working
  <1>5. UploadsComeFirst /\ FullIsWritten /\ FullSessionStands
    BY <1>1 DEF UploadsComeFirst, FullIsWritten, FullSessionStands
  <1> QED
    BY <1>2, <1>4, <1>5 DEF PersistInv

\* A step that leaves the handlers and the sessions alone.
LEMMA RunnerKeeps ==
  ASSUME PersistInv, UNCHANGED <<handler, summary, full, crossed>>,
         PersistTypeOK', phase = phase' \/ phase' # "upload"
  PROVE  PersistInv'
  <1> USE DEF PersistInv
  <1>1. OneAtWork' /\ BridgeWritesFirst' /\ BridgesWait' /\ UploadsComeFirst'
    BY DEF OneAtWork, BridgeWritesFirst, BridgesWait, UploadsComeFirst, Working
  <1>2. FullIsWritten' /\ FullSessionStands' /\ ReportedHasSession'
    BY DEF FullIsWritten, FullSessionStands, ReportedHasSession
  <1> QED
    BY <1>1, <1>2

\* A handler goes on, or fails, and writes no session.
LEMMA HandlerKeeps ==
  ASSUME PersistInv, NEW w \in Writers, NEW to \in HandlerSteps, Working(w),
         handler' = [handler EXCEPT ![w] = to],
         UNCHANGED <<phase, summary, full, crossed>>, PersistTypeOK',
         w \in Bridges /\ to \in {"spans", "summary"} =>
           handler[w] = "spans" \/ DOMAIN summary = {},
         w \in Bridges /\ to = "done" => DOMAIN summary # {}
  PROVE  PersistInv'
  <1> USE DEF PersistInv
  <1>1. \A v \in Writers : handler'[v] = IF v = w THEN to ELSE handler[v]
    BY DEF PersistTypeOK
  <1>2. \A v \in Writers : Working(v)' => Working(v)
    BY <1>1 DEF Working
  <1>3. OneAtWork'
    BY <1>2 DEF OneAtWork
  <1>4. BridgeWritesFirst'
    BY <1>1, WriterKinds DEF BridgeWritesFirst
  <1>5. BridgesWait'
    BY <1>1, WriterKinds DEF BridgesWait, Working
  <1>6. UploadsComeFirst'
    BY <1>2, WriterKinds DEF UploadsComeFirst
  <1>7. FullIsWritten' /\ FullSessionStands'
    BY DEF FullIsWritten, FullSessionStands
  <1>8. ReportedHasSession'
    BY <1>1, WriterKinds DEF ReportedHasSession
  <1> QED
    BY <1>3, <1>4, <1>5, <1>6, <1>7, <1>8

\* A request is posted: another handler at work is overtaken.
LEMMA PostKeeps ==
  ASSUME PersistInv, NEW w \in Writers, Posts(w), PersistTypeOK',
         w \in Bridges => phase # "upload",
         w \in Uploaders => phase = "upload"
  PROVE  PersistInv'
  <1> USE DEF PersistInv
  <1>1. /\ handler[w] = "none" /\ handler' = [handler EXCEPT ![w] = "auth"]
        /\ crossed' = (crossed \/ \E v \in Writers : Working(v))
        /\ phase' = phase /\ summary' = summary /\ full' = full
    BY DEF Posts, Handles
  <1>2. \A v \in Writers : handler'[v] = IF v = w THEN "auth" ELSE handler[v]
    BY <1>1 DEF PersistTypeOK
  <1>3. \A v \in Writers \ {w} : Working(v)' <=> Working(v)
    BY <1>2 DEF Working
  <1>4. OneAtWork'
    BY <1>1, <1>3 DEF OneAtWork
  <1>5. BridgeWritesFirst'
    <2> SUFFICES ASSUME ~crossed, NEW v \in Bridges, handler'[v] \in {"spans", "summary"}
                 PROVE  DOMAIN summary = {}
      BY <1>1 DEF BridgeWritesFirst
    <2>1. handler[v] = handler'[v]
      BY <1>2, WriterKinds
    <2> QED
      BY <2>1 DEF BridgeWritesFirst
  <1>6. BridgesWait'
    BY <1>1, <1>2, WriterKinds DEF BridgesWait
  <1>7. UploadsComeFirst'
    BY <1>1, <1>3, WriterKinds DEF UploadsComeFirst
  <1>8. FullIsWritten' /\ FullSessionStands'
    BY <1>1 DEF FullIsWritten, FullSessionStands
  <1>9. ReportedHasSession'
    BY <1>1, <1>2, WriterKinds DEF ReportedHasSession
  <1> QED
    BY <1>4, <1>5, <1>6, <1>7, <1>8, <1>9

LEMMA WriteKeeps ==
  ASSUME PersistInv, NEW w \in Writers, WriteSummary(w)
  PROVE  PersistInv'
  <1> USE DEF PersistInv
  <1>1. /\ handler[w] = "summary" /\ handler' = [handler EXCEPT ![w] = "done"]
        /\ summary' = [t \in DOMAIN summary \cup {StartTime(w)} |->
                         IF t = StartTime(w) THEN w[1] ELSE summary[t]]
        /\ full' = (full \/ w \in Uploaders)
        /\ UNCHANGED <<timed, begun, vaulted, phase, sent, awaited, crossed>>
    BY DEF WriteSummary, Handles, runnerVars
  <1>2. \A v \in Writers : handler'[v] = IF v = w THEN "done" ELSE handler[v]
    BY <1>1 DEF PersistTypeOK
  <1>3. Working(w) /\ \A v \in Writers : Working(v)' => Working(v) /\ v # w
    BY <1>1, <1>2 DEF Working
  <1>4. /\ DOMAIN summary' = DOMAIN summary \cup {StartTime(w)}
        /\ \A t \in DOMAIN summary' :
             \/ summary'[t] = w[1]
             \/ t \in DOMAIN summary /\ summary'[t] = summary[t]
    BY <1>1
  <1>5. PersistTypeOK'
    <2>1. StartTime(w) \in StartTimes
      BY DEF StartTime, StartTimes
    <2>2. handler' \in [Writers -> HandlerSteps]
      BY <1>1 DEF PersistTypeOK, HandlerSteps
    <2>3. awaited' # <<>> => handler'[awaited'] # "none"
      BY <1>1, <1>2 DEF PersistTypeOK
    <2>4. /\ DOMAIN summary' \subseteq StartTimes
          /\ \A t \in DOMAIN summary' : summary'[t] \in {"transcript", "bridge"}
      BY <1>4, <2>1, WriterKinds DEF PersistTypeOK
    <2>5. full' \in BOOLEAN
      BY <1>1 DEF PersistTypeOK
    <2> QED
      BY <1>1, <2>2, <2>3, <2>4, <2>5 DEF PersistTypeOK
  <1>6. OneAtWork'
    BY <1>1, <1>3 DEF OneAtWork
  <1>7. BridgeWritesFirst'
    <2> SUFFICES ASSUME ~crossed, NEW v \in Bridges, handler'[v] \in {"spans", "summary"}
                 PROVE  FALSE
      BY <1>1 DEF BridgeWritesFirst
    <2>1. v \in Writers /\ Working(v) /\ v # w
      BY <1>2, WriterKinds DEF Working
    <2> QED
      BY <1>3, <2>1 DEF OneAtWork
  <1>8. BridgesWait'
    BY <1>1, <1>2, WriterKinds DEF BridgesWait
  <1>9. FullIsWritten' /\ ReportedHasSession'
    BY <1>4 DEF FullIsWritten, ReportedHasSession
  <1>10. CASE w \in Uploaders
    <2>1. ~crossed => \A t \in DOMAIN summary' : summary'[t] = "transcript"
      BY <1>3, <1>4, <1>10, WriterKinds DEF UploadsComeFirst
    <2> QED
      BY <1>1, <1>5, <1>6, <1>7, <1>8, <1>9, <2>1 DEF UploadsComeFirst, FullSessionStands
  <1>11. CASE w \in Bridges
    <2>1. phase # "upload"
      BY <1>1, <1>11 DEF BridgesWait
    <2>2. ~crossed => \A v \in Uploaders : ~Working(v)'
      BY <1>3, WriterKinds DEF OneAtWork
    <2>3. UploadsComeFirst'
      BY <1>1, <2>1, <2>2 DEF UploadsComeFirst
    <2>4. full' = full
      BY <1>1, <1>11, WriterKinds DEF PersistTypeOK
    <2>5. ~crossed => ~full
      BY <1>1, <1>11 DEF BridgeWritesFirst, FullIsWritten
    <2>6. FullSessionStands'
      BY <1>1, <2>4, <2>5 DEF FullSessionStands
    <2> QED
      BY <1>5, <1>6, <1>7, <1>8, <1>9, <2>3, <2>6
  <1> QED
    BY <1>10, <1>11, WriterKinds

LEMMA PersistStepInv == PersistInv /\ [PersistNext]_persistVars => PersistInv'
  <1> SUFFICES ASSUME PersistInv, [PersistNext]_persistVars PROVE PersistInv'
    OBVIOUS
  <1> USE DEF PersistInv
  <1>0. CASE UNCHANGED persistVars
    <2>1. PersistTypeOK'
      BY <1>0 DEF persistVars, runnerVars, PersistTypeOK
    <2> QED
      BY <1>0, <2>1, RunnerKeeps DEF persistVars, runnerVars
  <1>1. CASE PostTranscript
    <2> DEFINE w == <<"transcript", sent.upload + 1>>
    <2>1. phase = "upload" /\ sent' = [sent EXCEPT !.upload = @ + 1] /\ Posts(w)
      BY <1>1 DEF PostTranscript, PersistTypeOK
    <2>2. w \in Uploaders
      BY <1>1 DEF PostTranscript, Uploaders, PersistTypeOK
    <2> HIDE DEF w
    <2>3. PersistTypeOK'
      BY <1>1, <2>1, <2>2, WriterKinds
      DEF PostTranscript, Posts, Handles, PersistTypeOK, HandlerSteps
    <2> QED
      BY <2>1, <2>2, <2>3, PostKeeps, WriterKinds
  <1>2. CASE PostCompletion
    <2> DEFINE w == <<"bridge", sent.report + 1>>
    <2>1. phase = "report" /\ sent' = [sent EXCEPT !.report = @ + 1] /\ Posts(w)
      BY <1>2 DEF PostCompletion, PersistTypeOK
    <2>2. w \in Bridges
      BY <1>2 DEF PostCompletion, Bridges, PersistTypeOK
    <2> HIDE DEF w
    <2>3. PersistTypeOK'
      BY <1>2, <2>1, <2>2, WriterKinds
      DEF PostCompletion, Posts, Handles, PersistTypeOK, HandlerSteps
    <2> QED
      BY <2>1, <2>2, <2>3, PostKeeps, WriterKinds
  <1>3. CASE SkipTranscript \/ TakeReply \/ LoseReply \/ SecretDeleted
    <2>1. UNCHANGED <<handler, summary, full, crossed>>
      BY <1>3 DEF SkipTranscript, TakeReply, LoseReply, SecretDeleted
    <2>2. phase = phase' \/ phase' # "upload"
      BY <1>3 DEF SkipTranscript, TakeReply, LoseReply, SecretDeleted, runnerVars
    <2>3. PersistTypeOK'
      BY <1>3 DEF SkipTranscript, TakeReply, LoseReply, SecretDeleted, runnerVars,
                  PersistTypeOK
    <2> QED
      BY <2>1, <2>2, <2>3, RunnerKeeps
  <1>4. ASSUME NEW w \in Writers, ServerFails(w) PROVE PersistInv'
    <2>1. /\ awaited = w /\ awaited' = <<>>
          /\ handler[w] = "auth" /\ handler' = [handler EXCEPT ![w] = "none"]
          /\ UNCHANGED <<timed, begun, vaulted, phase, sent, summary, full, crossed>>
      BY <1>4 DEF ServerFails, Handles
    <2>2. PersistTypeOK'
      BY <2>1 DEF PersistTypeOK, HandlerSteps
    <2> QED
      BY <2>1, <2>2, HandlerKeeps DEF Working, HandlerSteps
  <1>5. ASSUME NEW w \in Writers, NEW to \in HandlerSteps, Working(w), to # "none",
               handler' = [handler EXCEPT ![w] = to],
               UNCHANGED <<timed, begun, runnerVars, summary, full, crossed>>,
               vaulted' \in BOOLEAN
        PROVE  PersistTypeOK'
    BY <1>5 DEF PersistTypeOK, runnerVars
  <1>6. ASSUME NEW w \in Writers, Authorize(w) PROVE PersistInv'
    <2>1. PICK to \in {"refused", "check", "spans"} :
            /\ Handles(w, "auth", to)
            /\ w \in Bridges => to # "spans"
      BY <1>6 DEF Authorize
    <2>2. Working(w) /\ to \in HandlerSteps
      BY <2>1 DEF Handles, Working, HandlerSteps
    <2>3. PersistTypeOK'
      BY <1>5, <1>6, <2>1, <2>2 DEF Authorize, Handles, PersistTypeOK
    <2> QED
      BY <1>6, <2>1, <2>2, <2>3, HandlerKeeps DEF Authorize, Handles, runnerVars
  <1>7. ASSUME NEW w \in Writers,
               RejectTranscript(w) \/ CheckSession(w) \/ WriteSpans(w) \/ StoreFails(w)
        PROVE  PersistInv'
    <2>1. PICK to \in {"done", "spans", "summary", "failed"} :
            /\ handler' = [handler EXCEPT ![w] = to]
            /\ Working(w)
            /\ w \in Bridges /\ to \in {"spans", "summary"} =>
                 handler[w] = "spans" \/ DOMAIN summary = {}
            /\ w \in Bridges /\ to = "done" => DOMAIN summary # {}
      <3>1. CASE RejectTranscript(w)
        BY <3>1, WriterKinds DEF RejectTranscript, Handles, Working
      <3>2. CASE CheckSession(w)
        BY <3>2 DEF CheckSession, Handles, Working
      <3>3. CASE WriteSpans(w)
        BY <3>3 DEF WriteSpans, Handles, Working
      <3>4. CASE StoreFails(w)
        BY <3>4 DEF StoreFails, Working
      <3> QED
        BY <1>7, <3>1, <3>2, <3>3, <3>4
    <2>2. UNCHANGED <<timed, begun, vaulted, runnerVars, summary, full, crossed>>
      BY <1>7 DEF RejectTranscript, CheckSession, WriteSpans, StoreFails
    <2>3. to \in HandlerSteps /\ to # "none"
      BY DEF HandlerSteps
    <2>4. PersistTypeOK'
      BY <1>5, <2>1, <2>2, <2>3 DEF PersistTypeOK
    <2> QED
      BY <2>1, <2>2, <2>3, <2>4, HandlerKeeps DEF runnerVars
  <1> QED
    BY <1>0, <1>1, <1>2, <1>3, <1>4, <1>6, <1>7, WriteKeeps DEF PersistNext

\* Every step keeps PersistInv.
LEMMA PersistInvariant == PersistSpec => []PersistInv
  BY PersistInitInv, PersistStepInv, PTL DEF PersistSpec

\* The two sessions, the requests and the runner keep their types.
THEOREM PersistTypeCorrect == PersistSpec => []PersistTypeOK
  <1>1. PersistInv => PersistTypeOK
    BY DEF PersistInv
  <1> QED
    BY <1>1, PersistInvariant, PTL

\* "the low-fidelity bridge must not overwrite it": the session of the transcript stands,
\* unless a request was overtaken.
THEOREM TranscriptStands == PersistSpec => []FullSessionStands
  <1>1. PersistInv => FullSessionStands
    BY DEF PersistInv
  <1> QED
    BY <1>1, PersistInvariant, PTL

\* A callback that was let in leaves a session, unless the store failed.
THEOREM CallbackLeavesSession == PersistSpec => []ReportedHasSession
  <1>1. PersistInv => ReportedHasSession
    BY DEF PersistInv
  <1> QED
    BY <1>1, PersistInvariant, PTL

\* A transcript with absolute times is stored under its own start time.
TranscriptKey ==
  timed => \A t \in DOMAIN summary : summary[t] = "transcript" => t = <<"own">>

\* Without them both writers take the start time of the run, if it has one.
RunKey == begun /\ ~timed => DOMAIN summary \subseteq {<<"run">>}

\* When the claim of persist-agent-session.ts (OneSessionPerRun) does hold: the two writers
\* share the start time of the run, or they have one each and no request was overtaken.
OneSessionAlone ==
  (begun /\ ~timed) \/ (timed /\ ~crossed) => OneSession

LEMMA WriteKeepsKeys ==
  ASSUME PersistInv, TranscriptKey, RunKey, NEW w \in Writers, WriteSummary(w)
  PROVE  TranscriptKey' /\ RunKey' /\ OneSessionAlone'
  <1>1. /\ handler[w] = "summary" /\ Working(w)
        /\ summary' = [t \in DOMAIN summary \cup {StartTime(w)} |->
                         IF t = StartTime(w) THEN w[1] ELSE summary[t]]
        /\ UNCHANGED <<timed, begun, crossed>>
    BY DEF WriteSummary, Handles, Working
  <1>2. /\ DOMAIN summary' = DOMAIN summary \cup {StartTime(w)}
        /\ \A t \in DOMAIN summary' :
             IF t = StartTime(w) THEN summary'[t] = w[1]
                                 ELSE t \in DOMAIN summary /\ summary'[t] = summary[t]
    BY <1>1
  <1>3. TranscriptKey'
    BY <1>1, <1>2, WriterKinds DEF TranscriptKey, StartTime
  <1>4. RunKey'
    BY <1>1, <1>2 DEF RunKey, StartTime
  <1>5. ASSUME timed, ~crossed PROVE OneSession'
    <2>1. CASE w \in Bridges
      <3>1. DOMAIN summary = {}
        BY <1>1, <1>5, <2>1 DEF PersistInv, BridgeWritesFirst
      <3> QED
        BY <1>2, <3>1 DEF OneSession
    <2>2. CASE w \in Uploaders
      <3>1. \A t \in DOMAIN summary : t = <<"own">>
        BY <1>1, <1>5, <2>2 DEF PersistInv, UploadsComeFirst, TranscriptKey
      <3>2. StartTime(w) = <<"own">>
        BY <1>5, <2>2 DEF StartTime
      <3> QED
        BY <1>2, <3>1, <3>2 DEF OneSession
    <2> QED
      BY <2>1, <2>2, WriterKinds
  <1>6. ASSUME begun, ~timed PROVE OneSession'
    BY <1>1, <1>4, <1>6 DEF RunKey, OneSession
  <1> QED
    BY <1>1, <1>3, <1>4, <1>5, <1>6 DEF OneSessionAlone

LEMMA KeyStep ==
  PersistInv /\ TranscriptKey /\ RunKey /\ OneSessionAlone /\ [PersistNext]_persistVars
    => TranscriptKey' /\ RunKey' /\ OneSessionAlone'
  <1> SUFFICES ASSUME PersistInv, TranscriptKey, RunKey, OneSessionAlone,
                      [PersistNext]_persistVars
               PROVE  TranscriptKey' /\ RunKey' /\ OneSessionAlone'
    OBVIOUS
  <1>1. \/ \E w \in Writers : WriteSummary(w)
        \/ UNCHANGED <<timed, begun, summary>> /\ (crossed => crossed')
    <2>1. CASE PostTranscript \/ PostCompletion
      BY <2>1 DEF PostTranscript, PostCompletion, Posts
    <2>2. CASE SkipTranscript \/ TakeReply \/ LoseReply \/ SecretDeleted
      BY <2>2 DEF SkipTranscript, TakeReply, LoseReply, SecretDeleted
    <2>3. ASSUME NEW w \in Writers,
                 \/ ServerFails(w) \/ Authorize(w) \/ RejectTranscript(w)
                 \/ CheckSession(w) \/ WriteSpans(w) \/ StoreFails(w)
          PROVE  UNCHANGED <<timed, begun, summary, crossed>>
      BY <2>3 DEF ServerFails, Authorize, RejectTranscript, CheckSession, WriteSpans,
                  StoreFails
    <2>4. CASE UNCHANGED persistVars
      BY <2>4 DEF persistVars
    <2> QED
      BY <2>1, <2>2, <2>3, <2>4 DEF PersistNext
  <1>2. CASE UNCHANGED <<timed, begun, summary>> /\ (crossed => crossed')
    BY <1>2 DEF TranscriptKey, RunKey, OneSessionAlone, OneSession
  <1> QED
    BY <1>1, <1>2, WriteKeepsKeys

\* "whichever lands later replaces the other's rows": one session per run, whatever fails,
\* with a start time both writers share, or while no request is overtaken.
THEOREM SessionsAgree == PersistSpec => []OneSessionAlone
  <1>1. PersistInit => TranscriptKey /\ RunKey /\ OneSessionAlone
    BY DEF PersistInit, TranscriptKey, RunKey, OneSessionAlone, OneSession
  <1> QED
    BY <1>1, KeyStep, PersistInvariant, PTL DEF PersistSpec


---------------------------------------------------------------------------
(* The transcripts of a developer's machine: CliSync                       *)

\* No time in use is ahead of the clock, and what a sync found is what there was.
Clocked ==
  /\ watermark <= time
  /\ \A t \in Transcripts : mtime[t] <= time
  /\ \A s \in Syncs :
       /\ since[s] <= time /\ top[s] <= time
       /\ \A t \in Transcripts : found[s][t] <= mtime[t]
       /\ \A k \in DOMAIN requests[s] : requests[s][k].newest <= time

\* A time in use is the mtime of one transcript only.
Apart ==
  \A t, u \in Transcripts : t # u =>
    /\ mtime[t] # 0 => mtime[t] # mtime[u]
    /\ \A s \in Syncs : found[s][t] # 0 => found[s][t] \notin {mtime[u], found[s][u]}

\* What a scan has looked at and not found could not be read, or was written later, if it
\* is new at all.
ScanSees ==
  \A s \in Syncs : at[s] = "stat" =>
    /\ top[s] = since[s]
    /\ \A t \in Transcripts \ left[s] :
         found[s][t] = 0 /\ mtime[t] > since[s] => <<t, mtime[t]>> \in slipped \cup dropped

\* All a sync would write as the watermark, and the watermark itself.
AccountedTo(mark) == \A t \in Transcripts : mtime[t] \in 1..mark => Accounted(t)
MarksHold == AccountedTo(watermark) /\ \A s \in Syncs : AccountedTo(top[s])

\* What a request that moves the watermark passes is accounted for, or is in the
\* request or in one before it whose answer is yet to come.
Carries(request, t) == \E i \in request.items : i.of = t /\ i.content = mtime[t]
Unanswered(s) == IF at[s] = "answer" THEN 2 ELSE 1
QueueCovers(s) ==
  at[s] \in {"post", "answer"} =>
    /\ requests[s] # <<>>
    /\ \A k \in DOMAIN requests[s] : requests[s][k].advance =>
         \A t \in Transcripts : mtime[t] \in 1..requests[s][k].newest =>
           Accounted(t) \/ \E j \in Unanswered(s)..k : Carries(requests[s][j], t)

SyncInv ==
  /\ SyncTypeOK
  /\ Clocked
  /\ Apart
  /\ ScanSees
  /\ MarksHold
  /\ \A s \in Syncs : QueueCovers(s)

USE PartsAssumption, MaxTimeAssumption

LEMMA SyncInitInv == SyncInit => SyncInv
  <1> SUFFICES ASSUME SyncInit PROVE SyncInv
    OBVIOUS
  <1> USE DEF SyncInit
  <1>1. requests \in [Syncs -> Seq(Batches)] /\ \A s \in Syncs : DOMAIN requests[s] = {}
    OBVIOUS
  <1>2. SyncTypeOK
    BY <1>1 DEF SyncTypeOK, Times, OldestFirst
  <1>3. Clocked
    BY <1>1 DEF Clocked
  <1> QED
    BY <1>2, <1>3
    DEF SyncInv, Apart, ScanSees, MarksHold, AccountedTo, QueueCovers

\* What is accounted for stays so until its transcript is written again.
LEMMA AccountedStays ==
  ASSUME NEW t \in Transcripts, mtime'[t] = mtime[t], stored \subseteq stored',
         refused \subseteq refused', slipped \subseteq slipped', dropped \subseteq dropped',
         vanished \subseteq vanished',
         Accounted(t)
  PROVE  Accounted(t)'
  BY DEF Accounted, Arrived

\* A sync that leaves the transcripts alone disturbs nothing the others know.
LEMMA OthersKeep ==
  ASSUME SyncInv, NEW s \in Syncs, UNCHANGED mtime, stored \subseteq stored',
         refused \subseteq refused', slipped \subseteq slipped', dropped \subseteq dropped',
         vanished \subseteq vanished',
         \A u \in Syncs \ {s} : at'[u] = at[u] /\ requests'[u] = requests[u]
  PROVE  /\ \A w : AccountedTo(w) => AccountedTo(w)'
         /\ \A u \in Syncs \ {s} : QueueCovers(u)'
  <1>1. \A t \in Transcripts : Accounted(t) => Accounted(t)'
    BY AccountedStays
  <1>2. \A u \in Syncs \ {s} : QueueCovers(u)'
    BY <1>1 DEF SyncInv, QueueCovers, Unanswered, Carries
  <1> QED
    BY <1>1, <1>2 DEF AccountedTo

\* The fields of a request, and of what is in it.
LEMMA QueueTyped ==
  ASSUME SyncTypeOK, NEW s \in Syncs, NEW k \in DOMAIN requests[s]
  PROVE  /\ requests[s][k] \in Batches
         /\ requests[s][k].newest \in Nat /\ requests[s][k].newest \in Times
         /\ requests[s][k].items \subseteq Items
         /\ requests[s][k].advance \in BOOLEAN
  <1>1. requests[s][k] \in Batches
    BY DEF SyncTypeOK
  <1> QED
    BY <1>1 DEF Batches, Times

LEMMA AgentWriteKeeps ==
  ASSUME SyncInv, NEW t \in Transcripts, Write(t) PROVE SyncInv'
  <1>0. /\ UNCHANGED <<watermark, stored, at, since, left, found, requests, top,
                        dropped, refused, vanished>>
        /\ time \in Nat /\ time' = time + 1 /\ time' \in Times
        /\ slipped \subseteq slipped'
    BY DEF Write, scan, SyncInv, SyncTypeOK, Times
  <1>1. mtime'[t] = time' /\ \A u \in Transcripts \ {t} : mtime'[u] = mtime[u]
    BY DEF Write, SyncInv, SyncTypeOK
  <1>2. /\ \A u \in Transcripts : mtime[u] \in Nat /\ mtime[u] <= time
        /\ watermark \in Nat /\ watermark <= time
        /\ \A s \in Syncs : /\ since[s] \in Nat /\ since[s] <= time
                            /\ top[s] \in Nat /\ top[s] <= time
                            /\ \A u \in Transcripts : found[s][u] \in Nat /\ found[s][u] <= mtime[u]
                            /\ \A k \in DOMAIN requests[s] :
                                 requests[s][k].newest \in Nat /\ requests[s][k].newest <= time
    BY QueueTyped DEF SyncInv, SyncTypeOK, Clocked, Times
  <1>3. SyncTypeOK'
    <2>1. mtime' \in [Transcripts -> Times]
      BY <1>0 DEF Write, SyncInv, SyncTypeOK
    <2>2. slipped' \subseteq Contents
      BY <1>0 DEF Write, SyncInv, SyncTypeOK, Contents
    <2> QED
      BY <1>0, <2>1, <2>2 DEF SyncInv, SyncTypeOK
  <1>4. Clocked'
    BY <1>0, <1>1, <1>2 DEF Clocked
  <1>5. Apart'
    <2>1. \A s \in Syncs, u \in Transcripts : found[s][u] < time'
      BY <1>0, <1>2
    <2>2. \A u \in Transcripts : mtime[u] < time'
      BY <1>0, <1>2
    <2> QED
      BY <1>0, <1>1, <2>1, <2>2 DEF Apart, SyncInv
  <1>6. ScanSees'
    <2> SUFFICES ASSUME NEW s \in Syncs, at[s] = "stat", NEW u \in Transcripts \ left[s],
                        found[s][u] = 0, mtime'[u] > since[s]
                 PROVE  <<u, mtime'[u]>> \in (slipped \cup dropped)'
      BY <1>0 DEF ScanSees, SyncInv
    <2>1. CASE u = t
      BY <2>1, <1>1 DEF Write
    <2>2. CASE u # t
      BY <2>2, <1>0, <1>1 DEF ScanSees, SyncInv
    <2> QED
      BY <2>1, <2>2
  <1>7. \A u \in Transcripts \ {t} : Accounted(u) => Accounted(u)'
    BY <1>0, <1>1, AccountedStays
  <1>8. ASSUME NEW w \in Nat, w <= time PROVE t \notin {u \in Transcripts : mtime'[u] \in 1..w}
    BY <1>8, <1>0, <1>1
  <1>9. MarksHold'
    <2>1. ASSUME NEW w \in Nat, w <= time, AccountedTo(w) PROVE AccountedTo(w)'
      BY <2>1, <1>1, <1>7, <1>8 DEF AccountedTo
    <2> QED
      BY <2>1, <1>0, <1>2 DEF MarksHold, SyncInv
  <1>10. ASSUME NEW s \in Syncs PROVE QueueCovers(s)'
    <2> SUFFICES ASSUME at[s] \in {"post", "answer"}, NEW k \in DOMAIN requests[s],
                        requests[s][k].advance,
                        NEW u \in Transcripts, mtime'[u] \in 1..requests[s][k].newest
                 PROVE  \/ Accounted(u)'
                        \/ \E j \in Unanswered(s)..k : Carries(requests[s][j], u)'
      BY <1>0 DEF QueueCovers, Unanswered, SyncInv
    <2>1. u # t
      BY <1>2, <1>8
    <2>2. Accounted(u) \/ \E j \in Unanswered(s)..k : Carries(requests[s][j], u)
      BY <2>1, <1>1 DEF QueueCovers, SyncInv
    <2> QED
      BY <2>1, <2>2, <1>0, <1>1, <1>7 DEF Carries
  <1> QED
    BY <1>3, <1>4, <1>5, <1>6, <1>9, <1>10 DEF SyncInv

LEMMA StartsKeep ==
  ASSUME SyncInv, NEW s \in Syncs, SyncStarts(s) PROVE SyncInv'
  <1>0. UNCHANGED <<time, mtime, watermark, stored, found, requests, slipped, dropped, refused, vanished>>
    BY DEF SyncStarts, losses
  <1>1. PICK w \in {watermark, 0} : since' = [since EXCEPT ![s] = w] /\ top' = [top EXCEPT ![s] = w]
    BY DEF SyncStarts
  <1>2. /\ at' = [at EXCEPT ![s] = "stat"] /\ left' = [left EXCEPT ![s] = Transcripts]
        /\ w \in Times /\ w <= time
    BY DEF SyncStarts, Turns, SyncInv, SyncTypeOK, Clocked, Times
  <1>3. SyncTypeOK'
    BY <1>0, <1>1, <1>2 DEF SyncInv, SyncTypeOK
  <1>4. Clocked'
    BY <1>0, <1>1, <1>2 DEF SyncInv, SyncTypeOK, Clocked
  <1>5. Apart' /\ ScanSees'
    BY <1>0, <1>1, <1>2 DEF SyncInv, SyncTypeOK, Apart, ScanSees
  <1>6. \A u \in Syncs \ {s} : QueueCovers(u)'
    BY <1>0, <1>2, OthersKeep DEF SyncInv, SyncTypeOK
  <1>7. QueueCovers(s)'
    BY <1>2 DEF QueueCovers, SyncInv, SyncTypeOK
  <1>8. MarksHold'
    <2>1. \A v : AccountedTo(v) => AccountedTo(v)'
      BY <1>0, <1>2, OthersKeep DEF SyncInv, SyncTypeOK
    <2>2. AccountedTo(w)
      BY DEF SyncInv, MarksHold, AccountedTo
    <2> QED
      BY <2>1, <2>2, <1>0, <1>1 DEF SyncInv, SyncTypeOK, MarksHold
  <1> QED
    BY <1>3, <1>4, <1>5, <1>6, <1>7, <1>8 DEF SyncInv

LEMMA StatKeeps ==
  ASSUME SyncInv, NEW s \in Syncs, NEW t \in Transcripts, StatTranscript(s, t) PROVE SyncInv'
  <1>0. /\ UNCHANGED <<time, mtime, watermark, stored, since, requests, top, slipped, refused,
                       vanished>>
        /\ at' = at /\ at[s] = "stat" /\ dropped \subseteq dropped'
    BY DEF StatTranscript, Turns, SyncInv, SyncTypeOK
  <1>1. /\ left' = [left EXCEPT ![s] = @ \ {t}]
        /\ \/ found' = [found EXCEPT ![s][t] = IF mtime[t] > since[s] THEN mtime[t] ELSE 0]
           \/ found' = found /\ <<t, mtime[t]>> \in dropped'
        /\ dropped' \subseteq dropped \cup {<<t, mtime[t]>>}
    BY DEF StatTranscript
  <1>2. /\ \A u \in Syncs, v \in Transcripts : u # s \/ v # t => found'[u][v] = found[u][v]
        /\ \/ found'[s][t] = IF mtime[t] > since[s] THEN mtime[t] ELSE 0
           \/ found'[s][t] = found[s][t] /\ <<t, mtime[t]>> \in dropped'
        /\ \A v \in Transcripts : mtime[v] \in Nat
        /\ since[s] \in Nat
    BY <1>1 DEF SyncInv, SyncTypeOK, Times
  <1>3. SyncTypeOK'
    <2>1. found' \in [Syncs -> [Transcripts -> Times]]
      <3>1. found \in [Syncs -> [Transcripts -> Times]] /\ mtime[t] \in Times /\ 0 \in Times
        BY DEF SyncInv, SyncTypeOK, Times
      <3> QED
        BY <1>1, <3>1
    <2>2. left' \in [Syncs -> SUBSET Transcripts]
      BY <1>1 DEF SyncInv, SyncTypeOK
    <2>3. dropped' \subseteq Contents
      BY <1>1 DEF SyncInv, SyncTypeOK, Contents
    <2> QED
      BY <1>0, <2>1, <2>2, <2>3 DEF SyncInv, SyncTypeOK
  <1>4. Clocked'
    BY <1>0, <1>2 DEF SyncInv, Clocked
  <1>5. Apart'
    BY <1>0, <1>2 DEF SyncInv, Apart
  <1>6. ScanSees'
    <2>1. \A u \in Syncs, v \in Transcripts : v \notin left'[u] => v \notin left[u] \/ (u = s /\ v = t)
      BY <1>1 DEF SyncInv, SyncTypeOK
    <2> QED
      BY <2>1, <1>0, <1>2 DEF SyncInv, ScanSees
  <1>7. /\ \A w : AccountedTo(w) => AccountedTo(w)'
        /\ \A u \in Syncs \ {s} : QueueCovers(u)'
    BY <1>0, OthersKeep
  <1>8. MarksHold' /\ QueueCovers(s)'
    BY <1>0, <1>7 DEF SyncInv, MarksHold, QueueCovers
  <1> QED
    BY <1>3, <1>4, <1>5, <1>6, <1>7, <1>8 DEF SyncInv

\* A bounded set of numbers has a maximum, and Max is it.
LEMMA MaxOf ==
  ASSUME NEW S \in SUBSET Nat, S # {}, NEW bound \in Nat, \A x \in S : x <= bound
  PROVE  Max(S) \in S /\ \A x \in S : x <= Max(S)
  <1> DEFINE T == {bound - x : x \in S}
  <1>1. T \subseteq Nat /\ T # {}
    <2>1. \A x \in S : bound - x \in Nat
      OBVIOUS
    <2> QED
      BY <2>1
  <1>2. \E m \in T : \A y \in T : ~(<<y, m>> \in OpToRel(<, Nat))
    <2> HIDE DEF T
    <2> QED
      BY <1>1, NatLessThanWellFounded, WFMin
  <1>3. PICK m \in T : \A y \in T : ~(y < m)
    BY <1>1, <1>2 DEF OpToRel
  <1>4. PICK x \in S : m = bound - x
    OBVIOUS
  <1>5. \A y \in S : x >= y
    <2> SUFFICES ASSUME NEW y \in S PROVE x >= y
      OBVIOUS
    <2>1. bound - y \in T
      OBVIOUS
    <2>2. ~(bound - y < bound - x)
      BY <2>1, <1>3, <1>4
    <2>3. x \in Nat /\ y \in Nat
      OBVIOUS
    <2> HIDE DEF T
    <2> QED
      BY <2>2, <2>3
  <1>6. /\ Max(S) \in S
        /\ \A y \in S : Max(S) >= y
    BY <1>5 DEF Max
  <1> QED
    BY <1>6

\* What a sync is about to send: all it takes of what it found, with the content there is
\* now.
LEMMA CollectedItems ==
  ASSUME SyncInv, NEW s \in Syncs, NEW taken \in SUBSET FoundBy(s)
  PROVE  /\ Collected(s, taken) \subseteq Items
         /\ \A i \in Collected(s, taken) : /\ i.of \in Transcripts /\ i.content = mtime[i.of]
                                    /\ i.mtime = found[s][i.of] /\ i.mtime # 0
         /\ \A t \in taken :
              \E i \in Collected(s, taken) : i.of = t
  <1>1. ASSUME NEW i \in Collected(s, taken)
        PROVE  \E t \in Transcripts : \E p \in 1..Parts[t] :
                 found[s][t] # 0 /\ i = [of |-> t, content |-> mtime[t], mtime |-> found[s][t], part |-> p]
    BY <1>1 DEF Collected, FoundBy
  <1>2. \A t \in taken : \A p \in 1..Parts[t] :
          [of |-> t, content |-> mtime[t], mtime |-> found[s][t], part |-> p] \in Collected(s, taken)
    BY DEF Collected
  <1>3. \A t \in Transcripts : mtime[t] \in Times /\ found[s][t] \in Times /\ Parts[t] \in Nat \ {0}
    BY DEF SyncInv, SyncTypeOK
  <1>4. \A i \in Collected(s, taken) : i \in Items
    <2> SUFFICES ASSUME NEW i \in Collected(s, taken) PROVE i \in Items
      OBVIOUS
    <2>1. PICK t \in Transcripts : \E p \in 1..Parts[t] :
            i = [of |-> t, content |-> mtime[t], mtime |-> found[s][t], part |-> p]
      BY <1>1
    <2>2. PICK p \in 1..Parts[t] :
            i = [of |-> t, content |-> mtime[t], mtime |-> found[s][t], part |-> p]
      BY <2>1
    <2>3. p \in Nat
      BY <1>3
    <2> QED
      BY <2>2, <2>3, <1>3 DEF Items
  <1>5. \A t \in taken : \E i \in Collected(s, taken) : i.of = t
    <2> SUFFICES ASSUME NEW t \in taken
                 PROVE  \E i \in Collected(s, taken) : i.of = t
      OBVIOUS
    <2>1. 1 \in 1..Parts[t]
      BY <1>3 DEF FoundBy
    <2> QED
      BY <2>1, <1>2
  <1> QED
    BY <1>1, <1>4, <1>5

LEMMA CollectKeeps ==
  ASSUME SyncInv, NEW s \in Syncs, Collect(s) PROVE SyncInv'
  <1>t. PICK taken \in Selections(s) : Ships(s, taken)
    BY DEF Collect
  <1>f. /\ taken \in SUBSET FoundBy(s)
        /\ dropped' = dropped \cup {<<t, mtime[t]>> : t \in FoundBy(s) \ taken}
    BY <1>t DEF Ships, Selections
  <1> DEFINE items == Collected(s, taken)
  <1>0. /\ UNCHANGED <<time, mtime, watermark, stored, since, left, found, top, slipped, refused,
                       vanished>>
        /\ dropped \subseteq dropped' /\ dropped' \subseteq Contents
        /\ at[s] = "stat" /\ left[s] = {}
        /\ at' \in [Syncs -> {"idle", "stat", "post", "answer", "done", "failed", "killed"}]
        /\ at'[s] \in {"post", "done"} /\ \A u \in Syncs \ {s} : at'[u] = at[u]
    <2>1. \A t \in Transcripts : <<t, mtime[t]>> \in Contents
      BY DEF SyncInv, SyncTypeOK, Contents
    <2>2. dropped \subseteq Contents /\ FoundBy(s) \subseteq Transcripts
      BY DEF SyncInv, SyncTypeOK, FoundBy
    <2>3. dropped' \subseteq Contents
      BY <2>1, <2>2, <1>f
    <2>4. \E to \in {"post", "done"} : at' = [at EXCEPT ![s] = to]
      BY <1>t DEF Ships, Turns
    <2>5. at \in [Syncs -> {"idle", "stat", "post", "answer", "done", "failed", "killed"}]
      BY DEF SyncInv, SyncTypeOK
    <2>6. /\ UNCHANGED <<time, mtime, watermark, stored, since, left, found, top, slipped, refused,
                         vanished>>
          /\ at[s] = "stat" /\ left[s] = {}
      BY DEF Collect, scan
    <2> QED
      BY <2>3, <2>4, <2>5, <2>6, <1>f
  <1>1. Apart' /\ ScanSees'
    BY <1>0 DEF SyncInv, Apart, ScanSees
  <1>2. \A t \in Transcripts : Accounted(t) => Accounted(t)'
    BY <1>0, AccountedStays
  <1>3. MarksHold'
    BY <1>0, <1>2 DEF SyncInv, MarksHold, AccountedTo
  <1>4. ASSUME \A u \in Syncs \ {s} : requests'[u] = requests[u]
        PROVE  \A u \in Syncs \ {s} : QueueCovers(u)'
    BY <1>0, <1>4, OthersKeep
  <1>5. CASE items = {}
    <2>1. requests' = requests /\ at'[s] = "done"
      BY <1>5, <1>t DEF Ships, Turns, SyncInv, SyncTypeOK
    <2>2. SyncTypeOK' /\ Clocked'
      BY <2>1, <1>0 DEF SyncInv, SyncTypeOK, Clocked
    <2>3. QueueCovers(s)'
      BY <2>1 DEF QueueCovers
    <2> QED
      BY <2>1, <2>2, <2>3, <1>1, <1>3, <1>4 DEF SyncInv
  <1>6. CASE items # {}
    <2>1. PICK n \in 1..Cardinality(items) : \E place \in Batchings(items, n) :
            requests' = [requests EXCEPT ![s] =
                           [k \in 1..n |-> Request({i \in items : place[i] = k})]]
      BY <1>6, <1>t DEF Ships
    <2>2. PICK place \in Batchings(items, n) :
            requests' = [requests EXCEPT ![s] =
                           [k \in 1..n |-> Request({i \in items : place[i] = k})]]
      BY <2>1
    <2>3. n \in Nat /\ n >= 1
      OBVIOUS
    <2> DEFINE Chunk(k) == {i \in items : place[i] = k}
               queue == [k \in 1..n |-> Request(Chunk(k))]
               Newest(k) == Max({i.mtime : i \in Chunk(k)})
    <2>4. /\ place \in [items -> 1..n]
          /\ \A i, j \in items : Older(i, j) => place[i] <= place[j]
          /\ \A k \in 1..n : \E i \in items : place[i] = k
      BY DEF Batchings
    <2>5. requests'[s] = queue /\ \A u \in Syncs \ {s} : requests'[u] = requests[u]
      BY <2>2 DEF SyncInv, SyncTypeOK
    <2>6. \A i \in items : i.mtime \in Times /\ i.mtime \in Nat /\ i.mtime <= MaxTime
      BY <1>f, CollectedItems DEF Items, Times
    <2>7. ASSUME NEW k \in 1..n
          PROVE  /\ \E i \in Chunk(k) : i.mtime = Newest(k)
                 /\ \A i \in Chunk(k) : i.mtime <= Newest(k)
      <3> DEFINE S == {i.mtime : i \in Chunk(k)}
      <3>1. S \in SUBSET Nat /\ S # {} /\ \A x \in S : x <= MaxTime
        BY <2>4, <2>6
      <3>2. Max(S) \in S /\ \A x \in S : x <= Max(S)
        <4> HIDE DEF S
        <4> QED
          BY <3>1, MaxOf
      <3> QED
        BY <3>2
    <2>a. \A k \in 1..n : queue[k] = [items |-> Chunk(k), advance |-> TRUE, newest |-> Newest(k)]
      BY DEF Request
    <2>8. \A k \in 1..n : queue[k].items = Chunk(k) /\ queue[k].newest = Newest(k)
      <3> HIDE DEF Newest, Chunk, queue
      <3> SUFFICES ASSUME NEW k \in 1..n
                   PROVE  queue[k].items = Chunk(k) /\ queue[k].newest = Newest(k)
        OBVIOUS
      <3>1. queue[k] = [items |-> Chunk(k), advance |-> TRUE, newest |-> Newest(k)]
        BY <2>a
      <3> QED
        BY <3>1
    <2>c. \A k \in 1..n : \A i : i \in Chunk(k) <=> i \in items /\ place[i] = k
      OBVIOUS
    <2>d. DOMAIN queue = 1..n /\ requests' = [requests EXCEPT ![s] = queue]
      BY <2>2
    <2> HIDE DEF Newest, Chunk, queue
    <2>9. \A k \in 1..n : Newest(k) \in Times /\ Newest(k) \in Nat
      BY <2>6, <2>7, <2>c
    <2>10. \A k \in 1..n : queue[k] \in Batches
      <3> SUFFICES ASSUME NEW k \in 1..n PROVE queue[k] \in Batches
        OBVIOUS
      <3>1. Chunk(k) \in SUBSET Items
        BY <2>c, <1>f, CollectedItems
      <3>2. queue[k] = [items |-> Chunk(k), advance |-> TRUE, newest |-> Newest(k)]
        BY <2>a
      <3> QED
        BY <3>1, <3>2, <2>9 DEF Batches
    <2>11. OldestFirst(queue)
      <3> SUFFICES ASSUME NEW k \in 1..n, NEW l \in 1..n, k < l PROVE Newest(k) <= Newest(l)
        BY <2>8, <2>d DEF OldestFirst
      <3>1. PICK i \in Chunk(k) : i.mtime = Newest(k)
        BY <2>7
      <3>2. PICK j \in Chunk(l) : j.mtime = Newest(l)
        BY <2>7
      <3>3. ~Older(j, i)
        BY <3>1, <3>2, <2>4, <2>c
      <3> QED
        BY <3>1, <3>2, <3>3, <2>6, <2>c, <2>9 DEF Older
    <2>12. queue \in Seq(Batches) /\ DOMAIN queue = 1..n
      BY <2>3, <2>10, <2>d DEF queue
    <2>13. SyncTypeOK'
      <3>1. requests' \in [Syncs -> Seq(Batches)]
        BY <2>d, <2>12 DEF SyncInv, SyncTypeOK
      <3>2. \A u \in Syncs : OldestFirst(requests'[u])
        BY <2>5, <2>11 DEF SyncInv, SyncTypeOK
      <3> QED
        BY <3>1, <3>2, <1>0 DEF SyncInv, SyncTypeOK
    <2>14. Clocked'
      <3>1. ASSUME NEW k \in 1..n PROVE Newest(k) <= time
        <4>1. PICK i \in Chunk(k) : i.mtime = Newest(k)
          BY <2>7
        <4>2. i.of \in Transcripts /\ i.mtime = found[s][i.of]
          BY <4>1, <2>c, <1>f, CollectedItems
        <4> QED
          BY <4>1, <4>2 DEF SyncInv, SyncTypeOK, Clocked, Times
      <3>2. \A k \in DOMAIN requests'[s] : requests'[s][k].newest <= time
        BY <3>1, <2>5, <2>8, <2>12
      <3> QED
        BY <3>2, <2>5, <1>0 DEF SyncInv, Clocked
    <2>15. ASSUME NEW k \in 1..n, NEW t \in Transcripts, mtime[t] \in 1..Newest(k)
           PROVE  Accounted(t)' \/ \E j \in 1..k : Carries(queue[j], t)
      <3>0. mtime[t] \in Nat /\ since[s] \in Nat /\ found[s][t] \in Nat /\ found[s][t] <= mtime[t]
        BY DEF SyncInv, SyncTypeOK, Clocked, Times
      <3>1. CASE found[s][t] = 0 /\ mtime[t] > since[s]
        BY <3>1, <1>0, <1>2 DEF SyncInv, ScanSees, Accounted
      <3>2. CASE mtime[t] <= since[s]
        <4>1. mtime[t] \in 1..top[s]
          BY <3>0, <3>2, <2>15, <1>0 DEF SyncInv, ScanSees
        <4> QED
          BY <4>1, <1>2 DEF SyncInv, MarksHold, AccountedTo
      <3>4. CASE found[s][t] # 0 /\ t \notin taken
        <4>1. <<t, mtime'[t]>> \in dropped'
          BY <3>4, <1>f, <1>0 DEF FoundBy
        <4> QED
          BY <4>1 DEF Accounted
      <3>3. CASE found[s][t] # 0 /\ t \in taken
        <4>1. PICK i \in items : i.of = t
          BY <3>3, <1>f, CollectedItems
        <4>2. i.content = mtime[t] /\ i.mtime = found[s][t] /\ place[i] \in 1..n
          BY <4>1, <2>4, <1>f, CollectedItems
        <4>3. CASE place[i] <= k
          <5>1. Carries(queue[place[i]], t)
            BY <4>1, <4>2, <2>8, <2>c DEF Carries
          <5> QED
            BY <5>1, <4>2, <4>3
        <4>4. CASE place[i] > k
          <5>1. PICK m \in Chunk(k) : m.mtime = Newest(k)
            BY <2>7
          <5>2. ~Older(i, m)
            BY <5>1, <4>2, <4>4, <2>4, <2>c
          <5>3. m.mtime = found[s][t]
            BY <5>1, <5>2, <4>2, <3>0, <2>6, <2>9, <2>15, <2>c DEF Older
          <5>4. /\ m.of \in Transcripts /\ m.mtime = found[s][m.of] /\ m.mtime # 0
                /\ m.content = mtime[m.of]
            BY <5>1, <2>c, <1>f, CollectedItems
          <5>5. m.of = t
            BY <5>3, <5>4, <3>3 DEF SyncInv, Apart
          <5>6. Carries(queue[k], t)
            BY <5>1, <5>4, <5>5, <2>8 DEF Carries
          <5> QED
            BY <5>6
        <4> QED
          BY <4>2, <4>3, <4>4
      <3> QED
        BY <3>0, <3>1, <3>2, <3>3, <3>4
    <2>16. QueueCovers(s)'
      <3>1. at'[s] = "post"
        BY <1>6, <1>t DEF Ships, Turns, SyncInv, SyncTypeOK
      <3>2. queue # <<>>
        BY <2>3, <2>12
      <3>3. \A k \in 1..n : queue[k].newest = Newest(k)
        BY <2>8
      <3> QED
        BY <3>1, <3>2, <3>3, <2>5, <2>12, <2>15, <1>0, <1>2
        DEF QueueCovers, Unanswered, Carries
    <2> QED
      BY <2>5, <2>13, <2>14, <2>16, <1>1, <1>3, <1>4 DEF SyncInv
  <1> QED
    BY <1>5, <1>6

\* Whatever an answer acknowledges, a later request need not carry.
LEMMA AnswerCovers ==
  ASSUME SyncInv, NEW s \in Syncs, at[s] = "post", at'[s] = "answer",
         UNCHANGED <<mtime, requests>>, stored \subseteq stored',
         refused \subseteq refused', slipped \subseteq slipped', dropped \subseteq dropped',
         vanished \subseteq vanished',
         \A i \in Sent(s) : i.of \in Transcripts /\ i.content = mtime[i.of] => Accounted(i.of)'
  PROVE  QueueCovers(s)'
  <1>1. requests[s] # <<>> /\ requests[s] \in Seq(Batches)
    BY DEF SyncInv, QueueCovers, SyncTypeOK
  <1>2. Sent(s) = requests[s][1].items
    BY <1>1 DEF Sent
  <1> SUFFICES ASSUME NEW k \in DOMAIN requests[s], requests[s][k].advance,
                      NEW t \in Transcripts, mtime[t] \in 1..requests[s][k].newest
               PROVE  Accounted(t)' \/ \E j \in 2..k : Carries(requests[s][j], t)'
    BY <1>1 DEF QueueCovers, Unanswered
  <1>3. Accounted(t) \/ \E j \in 1..k : Carries(requests[s][j], t)
    BY DEF SyncInv, QueueCovers, Unanswered
  <1>4. CASE Accounted(t)
    BY <1>4, AccountedStays
  <1>5. CASE Carries(requests[s][1], t)
    BY <1>5, <1>2 DEF Carries
  <1>6. ASSUME NEW j \in 1..k, j # 1, Carries(requests[s][j], t)
        PROVE  \E l \in 2..k : Carries(requests[s][l], t)'
    <2>1. j \in 2..k
      BY <1>6, <1>1
    <2> QED
      BY <2>1, <1>6 DEF Carries
  <1> QED
    BY <1>3, <1>4, <1>5, <1>6

\* What a request carries has the types of the server's rows.
LEMMA SentItems ==
  ASSUME SyncInv, NEW s \in Syncs, at[s] = "post"
  PROVE  /\ \A i \in Sent(s) : /\ i.of \in Transcripts /\ i.content \in Times
                               /\ i.part \in 1..Parts[i.of]
         /\ requests[s] # <<>>
  <1>1. requests[s] # <<>> /\ requests[s] \in Seq(Batches)
    BY DEF SyncInv, QueueCovers, SyncTypeOK
  <1>2. Sent(s) = requests[s][1].items /\ 1 \in DOMAIN requests[s]
    BY <1>1 DEF Sent
  <1>3. Sent(s) \subseteq Items
    BY <1>2, QueueTyped DEF SyncInv
  <1> QED
    BY <1>1, <1>3 DEF Items

\* The server's rows grow by some of what a request carries.
LEMMA StoredTyped ==
  ASSUME SyncInv, NEW s \in Syncs, at[s] = "post", NEW items \in SUBSET Sent(s), Stores(items)
  PROVE  /\ \A c \in stored' : <<c[1], c[2]>> \in Contents /\ c[3] \in 1..Parts[c[1]]
         /\ stored \subseteq stored'
         /\ \A i \in items : <<i.of, i.content, i.part>> \in stored'
  <1>1. \A i \in items : i.of \in Transcripts /\ i.content \in Times /\ i.part \in 1..Parts[i.of]
    BY SentItems
  <1>2. stored' = stored \cup {<<i.of, i.content, i.part>> : i \in items}
    BY DEF Stores
  <1> QED
    BY <1>1, <1>2 DEF SyncInv, SyncTypeOK, Contents

\* A step of the server that answers, or not, leaves the clock and the scans alone.
LEMMA ServerKeeps ==
  ASSUME SyncInv, NEW s \in Syncs, at[s] \in {"stat", "post", "answer"},
         UNCHANGED <<time, mtime, watermark, since, left, found, requests, top, slipped, dropped>>,
         NEW to \in {"answer", "failed", "killed"}, at' = [at EXCEPT ![s] = to],
         stored \subseteq stored', refused \subseteq refused', vanished \subseteq vanished',
         \A c \in stored' : <<c[1], c[2]>> \in Contents /\ c[3] \in 1..Parts[c[1]],
         refused' \subseteq Contents, vanished' \subseteq Contents,
         to = "answer" => at[s] = "post" /\
           \A i \in Sent(s) : i.of \in Transcripts /\ i.content = mtime[i.of] => Accounted(i.of)'
  PROVE  SyncInv'
  <1>0. at'[s] = to /\ \A u \in Syncs \ {s} : at'[u] = at[u]
    BY DEF SyncInv, SyncTypeOK
  <1>1. SyncTypeOK'
    BY DEF SyncInv, SyncTypeOK
  <1>2. Clocked' /\ Apart'
    BY DEF SyncInv, Clocked, Apart
  <1>3. ScanSees'
    BY <1>0 DEF SyncInv, ScanSees
  <1>4. /\ \A w : AccountedTo(w) => AccountedTo(w)'
        /\ \A u \in Syncs \ {s} : QueueCovers(u)'
    BY <1>0, OthersKeep
  <1>5. MarksHold'
    BY <1>4 DEF SyncInv, MarksHold
  <1>6. QueueCovers(s)'
    BY <1>0, AnswerCovers DEF QueueCovers
  <1> QED
    BY <1>1, <1>2, <1>3, <1>4, <1>5, <1>6 DEF SyncInv

LEMMA PostsKeep ==
  ASSUME SyncInv, NEW s \in Syncs,
         PostRequest(s) \/ PostVanishes(s) \/ PostFails(s) \/ SyncKilled(s)
  PROVE  SyncInv'
  <1>1. CASE PostRequest(s)
    <2>0. /\ at[s] = "post" /\ at' = [at EXCEPT ![s] = "answer"]
          /\ UNCHANGED <<time, mtime, watermark, since, left, found, requests, top, slipped, dropped, vanished>>
      BY <1>1 DEF PostRequest, Turns, scan
    <2>1. PICK bad \in SUBSET Transcripts :
            /\ Stores({i \in Sent(s) : i.of \notin bad})
            /\ refused' = refused \cup ContentsOf({i \in Sent(s) : i.of \in bad})
      BY <1>1 DEF PostRequest
    <2>2. /\ \A c \in stored' : <<c[1], c[2]>> \in Contents /\ c[3] \in 1..Parts[c[1]]
          /\ stored \subseteq stored'
          /\ \A i \in Sent(s) : i.of \notin bad => <<i.of, i.content, i.part>> \in stored'
      BY <2>0, <2>1, StoredTyped
    <2>3. /\ refused \subseteq refused' /\ refused' \subseteq Contents
          /\ \A i \in Sent(s) : i.of \in bad => <<i.of, i.content>> \in refused'
      BY <2>0, <2>1, SentItems DEF ContentsOf, Contents, SyncInv, SyncTypeOK
    <2>4. ASSUME NEW i \in Sent(s), i.content = mtime[i.of] PROVE Accounted(i.of)'
      BY <2>0, <2>2, <2>3, <2>4, SentItems DEF Accounted, Arrived
    <2> QED
      BY <2>0, <2>2, <2>3, <2>4, ServerKeeps DEF SyncInv, SyncTypeOK
  <1>2. CASE PostVanishes(s)
    <2>0. /\ at[s] = "post" /\ at' = [at EXCEPT ![s] = "answer"]
          /\ UNCHANGED <<time, mtime, watermark, stored, since, left, found, requests, top, slipped, dropped, refused>>
          /\ \A i \in Sent(s) : \E c \in stored : c[1] = i.of
          /\ vanished' = vanished \cup ContentsOf(Sent(s))
      BY <1>2 DEF PostVanishes, Turns, scan
    <2>1. vanished \subseteq vanished' /\ vanished' \subseteq Contents
      BY <2>0, SentItems DEF ContentsOf, Contents, SyncInv, SyncTypeOK
    <2>2. ASSUME NEW i \in Sent(s), i.content = mtime[i.of] PROVE Accounted(i.of)'
      BY <2>0, <2>2 DEF Accounted, ContentsOf
    <2> QED
      BY <2>0, <2>1, <2>2, ServerKeeps DEF SyncInv, SyncTypeOK
  <1>3. CASE PostFails(s)
    <2>0. /\ at[s] = "post" /\ at' = [at EXCEPT ![s] = "failed"]
          /\ UNCHANGED <<time, mtime, watermark, since, left, found, requests, top, slipped, dropped, refused, vanished>>
          /\ Stores({}) \/ Stores(Sent(s))
      BY <1>3 DEF PostFails, Turns, scan, losses
    <2>1. /\ \A c \in stored' : <<c[1], c[2]>> \in Contents /\ c[3] \in 1..Parts[c[1]]
          /\ stored \subseteq stored'
      BY <2>0, StoredTyped
    <2> QED
      BY <2>0, <2>1, ServerKeeps DEF SyncInv, SyncTypeOK
  <1>4. CASE SyncKilled(s)
    <2>0. /\ at[s] \in {"stat", "post", "answer"} /\ at' = [at EXCEPT ![s] = "killed"]
          /\ UNCHANGED <<time, mtime, watermark, stored, since, left, found, requests, top, slipped,
                         dropped, refused, vanished>>
      BY <1>4 DEF SyncKilled, scan, losses
    <2> QED
      BY <2>0, ServerKeeps DEF SyncInv, SyncTypeOK
  <1> QED
    BY <1>1, <1>2, <1>3, <1>4

\* Two more at the front of a sequence.
LEMMA TwoInFront ==
  ASSUME NEW S, NEW a \in S, NEW b \in S, NEW rest \in Seq(S)
  PROVE  LET r == <<a, b>> \o rest
         IN  /\ r \in Seq(S) /\ Len(r) = Len(rest) + 2
             /\ r[1] = a /\ r[2] = b
             /\ \A k \in 3..Len(r) : r[k] = rest[k - 2]
  <1> DEFINE p == <<a, b>>
             r == p \o rest
  <1>1. p \in Seq(S) /\ Len(p) = 2 /\ p[1] = a /\ p[2] = b /\ Len(rest) \in Nat
    OBVIOUS
  <1> HIDE DEF p
  <1>2. /\ r \in Seq(S) /\ Len(r) = Len(p) + Len(rest)
        /\ \A k \in 1..Len(p) + Len(rest) : r[k] = IF k <= Len(p) THEN p[k] ELSE rest[k - Len(p)]
    <2>1. p \o rest \in Seq(S)
      BY <1>1, ConcatProperties, Zenon
    <2>2. Len(p \o rest) = Len(p) + Len(rest)
      BY <1>1, ConcatProperties, Zenon
    <2>3. \A k \in 1..Len(p) + Len(rest) :
            (p \o rest)[k] = IF k <= Len(p) THEN p[k] ELSE rest[k - Len(p)]
      BY <1>1, ConcatProperties, Zenon
    <2> QED
      BY <2>1, <2>2, <2>3
  <1> HIDE DEF r
  <1>3. Len(r) = Len(rest) + 2
    BY <1>1, <1>2
  <1>4. r[1] = a /\ r[2] = b /\ \A k \in 3..Len(r) : r[k] = rest[k - 2]
    BY <1>1, <1>2, <1>3
  <1> QED
    BY <1>2, <1>3, <1>4 DEF r, p

\* The queue after a split: the halves, then the rest one place further.
LEMMA SplitQueue ==
  ASSUME NEW q \in Seq(Batches), q # <<>>, NEW a \in Batches, NEW b \in Batches,
         ~a.advance, b.advance => q[1].advance,
         a.newest = q[1].newest, b.newest = q[1].newest, a.items \cup b.items = q[1].items,
         NEW r, r = <<a, b>> \o Tail(q)
  PROVE  /\ r \in Seq(Batches) /\ r # <<>> /\ Len(r) = Len(q) + 1
         /\ ~r[1].advance /\ (r[2].advance => q[1].advance)
         /\ r[1].newest = q[1].newest /\ r[2].newest = q[1].newest
         /\ r[1].items \cup r[2].items = q[1].items
         /\ \A k \in 3..Len(r) : r[k] = q[k - 1]
  <1>1. Tail(q) \in Seq(Batches)
        /\ Len(Tail(q)) = Len(q) - 1 /\ Len(q) \in Nat /\ Len(q) >= 1
        /\ \A k \in 1..Len(Tail(q)) : Tail(q)[k] = q[k + 1]
    OBVIOUS
  <1>4. /\ r \in Seq(Batches) /\ Len(r) = Len(Tail(q)) + 2 /\ r[1] = a /\ r[2] = b
        /\ \A k \in 3..Len(r) : r[k] = Tail(q)[k - 2]
    BY <1>1, TwoInFront
  <1>5. Len(r) = Len(q) + 1
    BY <1>1, <1>4
  <1>6. \A k \in 3..Len(r) : r[k] = q[k - 1]
    <2> SUFFICES ASSUME NEW k \in 3..Len(r) PROVE r[k] = q[k - 1]
      OBVIOUS
    <2>1. (k - 2) \in 1..Len(Tail(q)) /\ (k - 2) + 1 = k - 1
      BY <1>1, <1>5
    <2> QED
      BY <2>1, <1>1, <1>4
  <1>7. r # <<>>
    BY <1>1, <1>4, <1>5
  <1> QED
    BY <1>4, <1>5, <1>6, <1>7

LEMMA SplitKeeps ==
  ASSUME SyncInv, NEW s \in Syncs, SplitRequest(s) PROVE SyncInv'
  <1> DEFINE q == requests[s]
             first == FirstHalf(Head(q).items)
             a == [Head(q) EXCEPT !.items = first, !.advance = FALSE]
             b == [Head(q) EXCEPT !.items = @ \ first]
             r == <<a, b>> \o Tail(q)
  <1>0. /\ UNCHANGED <<time, mtime, watermark, since, left, found, top, slipped, dropped, refused, vanished>>
        /\ Stores({}) \/ Stores(Sent(s))
        /\ at[s] = "post" /\ at' = at
        /\ requests' = [requests EXCEPT ![s] = r]
    BY DEF SplitRequest, Halves, Turns, scan, losses, SyncInv, SyncTypeOK
  <1>s. /\ \A c \in stored' : <<c[1], c[2]>> \in Contents /\ c[3] \in 1..Parts[c[1]]
        /\ stored \subseteq stored'
    BY <1>0, StoredTyped
  <1>1. q \in Seq(Batches) /\ q # <<>> /\ Len(q) \in Nat /\ Len(q) >= 1
    BY <1>0 DEF SyncInv, SyncTypeOK, QueueCovers
  <1>2. /\ r \in Seq(Batches) /\ r # <<>> /\ Len(r) = Len(q) + 1
        /\ ~r[1].advance /\ (r[2].advance => q[1].advance)
        /\ r[1].newest = q[1].newest /\ r[2].newest = q[1].newest
        /\ r[1].items \cup r[2].items = q[1].items
        /\ \A k \in 3..Len(r) : r[k] = q[k - 1]
    <2>1. first \subseteq Head(q).items
      BY DEF FirstHalf
    <2> HIDE DEF first
    <2>2. /\ Head(q) = q[1] /\ q[1] \in Batches
          /\ q[1].items \subseteq Items /\ q[1].newest \in Times /\ q[1].advance \in BOOLEAN
      <3>1. Head(q) = q[1] /\ q[1] \in Batches
        <4> HIDE DEF q
        <4> QED
          BY <1>1
      <3> HIDE DEF q
      <3> QED
        BY <3>1 DEF Batches
    <2>3. /\ a \in Batches /\ ~a.advance /\ a.newest = q[1].newest /\ a.items = first
      BY <2>1, <2>2 DEF Batches
    <2>4. /\ b \in Batches /\ (b.advance => q[1].advance)
          /\ b.newest = q[1].newest /\ b.items = q[1].items \ first
      BY <2>1, <2>2 DEF Batches
    <2>5. a.items \cup b.items = q[1].items
      BY <2>1, <2>2, <2>3, <2>4
    <2>6. r = <<a, b>> \o Tail(q)
      OBVIOUS
    <2> HIDE DEF q, a, b, r
    <2> QED
      BY <1>1, <2>3, <2>4, <2>5, <2>6, SplitQueue
  <1>3. requests'[s] = r /\ \A u \in Syncs \ {s} : requests'[u] = requests[u]
    BY <1>0 DEF SyncInv, SyncTypeOK
  <1>4. requests' \in [Syncs -> Seq(Batches)]
    <2> HIDE DEF r
    <2> QED
      BY <1>0, <1>2 DEF SyncInv, SyncTypeOK
  <1> HIDE DEF r, q
  <1>5. DOMAIN r = 1..(Len(q) + 1) /\ DOMAIN q = 1..Len(q)
    BY <1>1, <1>2
  \* Each place of the new queue stands for one of the old.
  <1> DEFINE was(k) == IF k = 1 THEN 1 ELSE k - 1
  <1>6. \A k \in DOMAIN r : was(k) \in DOMAIN q /\ r[k].newest = q[was(k)].newest
    <2> SUFFICES ASSUME NEW k \in DOMAIN r
                 PROVE  was(k) \in DOMAIN q /\ r[k].newest = q[was(k)].newest
      OBVIOUS
    <2>1. was(k) \in DOMAIN q
      BY <1>1, <1>5
    <2>2. CASE k \in {1, 2}
      <3>1. was(k) = 1
        BY <2>2
      <3> QED
        BY <2>1, <2>2, <3>1, <1>2
    <2>3. CASE k \notin {1, 2}
      <3>1. k \in 3..Len(r) /\ was(k) = k - 1
        BY <2>3, <1>1, <1>2, <1>5
      <3> QED
        BY <2>1, <3>1, <1>2
    <2> QED
      BY <2>1, <2>2, <2>3
  <1>7. \A k \in DOMAIN q : q[k].newest \in Nat
    BY QueueTyped DEF SyncInv, q
  <1>8. OldestFirst(r)
    <2> SUFFICES ASSUME NEW k \in DOMAIN r, NEW l \in DOMAIN r, k < l
                 PROVE  r[k].newest <= r[l].newest
      BY DEF OldestFirst
    <2>1. was(k) = was(l) \/ was(k) < was(l)
      BY <1>1, <1>5
    <2>2. was(k) < was(l) => q[was(k)].newest <= q[was(l)].newest
      BY <1>6 DEF SyncInv, SyncTypeOK, OldestFirst, q
    <2> QED
      BY <2>1, <2>2, <1>6, <1>7
  <1>9. SyncTypeOK'
    BY <1>0, <1>s, <1>3, <1>4, <1>8 DEF SyncInv, SyncTypeOK
  <1>10. Clocked'
    <2>1. \A k \in DOMAIN r : r[k].newest <= time
      BY <1>6 DEF SyncInv, Clocked, q
    <2> QED
      BY <2>1, <1>0, <1>3 DEF SyncInv, Clocked
  <1>11. Apart' /\ ScanSees'
    BY <1>0 DEF SyncInv, Apart, ScanSees
  <1>12. /\ \A w : AccountedTo(w) => AccountedTo(w)'
         /\ \A u \in Syncs \ {s} : QueueCovers(u)'
    BY <1>0, <1>s, <1>3, OthersKeep
  <1>13. MarksHold'
    BY <1>0, <1>12 DEF SyncInv, MarksHold
  <1>14. ASSUME NEW t \in Transcripts, Carries(q[1], t)
         PROVE  Carries(r[1], t) \/ Carries(r[2], t)
    BY <1>14, <1>2 DEF Carries
  <1>15. ASSUME NEW k \in DOMAIN r, r[k].advance,
                NEW t \in Transcripts, mtime[t] \in 1..r[k].newest
         PROVE  Accounted(t) \/ \E j \in 1..k : Carries(r[j], t)
    <2>1. k # 1
      BY <1>15, <1>2
    <2>2. k \in 2..Len(r) /\ was(k) = k - 1 /\ r[k].newest = q[k - 1].newest /\ k - 1 \in DOMAIN q
      BY <2>1, <1>1, <1>2, <1>5, <1>6
    <2>3. q[k - 1].advance
      <3>1. CASE k = 2
        BY <3>1, <1>2, <1>15
      <3>2. CASE k # 2
        <4>1. k \in 3..Len(r)
          BY <2>2, <3>2, <1>1, <1>2
        <4> QED
          BY <4>1, <1>2, <1>15
      <3> QED
        BY <3>1, <3>2
    <2>4. Accounted(t) \/ \E j \in 1..(k - 1) : Carries(q[j], t)
      BY <2>2, <2>3, <1>0, <1>15 DEF SyncInv, QueueCovers, Unanswered, q
    <2>5. ASSUME NEW j \in 1..(k - 1), Carries(q[j], t)
          PROVE  \E l \in 1..k : Carries(r[l], t)
      <3>1. CASE j = 1
        <4>1. 1 \in 1..k /\ 2 \in 1..k
          BY <2>2, <1>1, <1>2
        <4> QED
          BY <4>1, <3>1, <2>5, <1>14
      <3>2. CASE j # 1
        <4>1. j + 1 \in 1..k /\ j + 1 \in 3..Len(r) /\ (j + 1) - 1 = j
          BY <3>2, <2>2, <1>1, <1>2
        <4>2. r[j + 1] = q[j]
          BY <4>1, <1>2
        <4> QED
          BY <4>1, <4>2, <2>5
      <3> QED
        BY <3>1, <3>2
    <2> QED
      BY <2>4, <2>5
  <1>16. QueueCovers(s)'
    <2>1. \A t \in Transcripts : Accounted(t) => Accounted(t)'
      BY <1>0, <1>s, AccountedStays
    <2>2. at'[s] = "post" /\ requests'[s] = r /\ r # <<>> /\ mtime' = mtime
      BY <1>0, <1>2, <1>3
    <2>3. \A k \in DOMAIN r : r[k].advance =>
            \A t \in Transcripts : mtime[t] \in 1..r[k].newest =>
              Accounted(t)' \/ \E j \in 1..k : \E i \in r[j].items : i.of = t /\ i.content = mtime[t]
      BY <2>1, <1>15 DEF Carries
    <2> HIDE DEF was
    <2> QED
      BY <2>2, <2>3 DEF QueueCovers, Unanswered, Carries
  <1> QED
    BY <1>9, <1>10, <1>11, <1>12, <1>13, <1>16 DEF SyncInv

\* The watermark moves to a time all before which is accounted for.
LEMMA MovesTo ==
  ASSUME SyncInv, NEW s \in Syncs, at[s] = "answer", Head(requests[s]).advance
  PROVE  LET m == Max({top[s], Head(requests[s]).newest})
         IN  m \in Times /\ m <= time /\ AccountedTo(m)
  <1> DEFINE r == requests[s][1]
             m == Max({top[s], r.newest})
  <1>1. /\ requests[s] \in Seq(Batches) /\ requests[s] # <<>> /\ Head(requests[s]) = r
        /\ 1 \in DOMAIN requests[s]
    BY DEF SyncInv, SyncTypeOK, QueueCovers
  <1>2. /\ top[s] \in Times /\ r.newest \in Times /\ top[s] \in Nat /\ r.newest \in Nat
        /\ top[s] <= time /\ r.newest <= time /\ time \in Nat
    BY <1>1, QueueTyped DEF SyncInv, SyncTypeOK, Clocked, Times
  <1>3. m \in {top[s], r.newest}
    <2> DEFINE S == {top[s], r.newest}
    <2>1. S \in SUBSET Nat /\ S # {} /\ \A x \in S : x <= time
      BY <1>2
    <2>2. Max(S) \in S
      <3> HIDE DEF S
      <3> QED
        BY <2>1, <1>2, MaxOf
    <2> QED
      BY <2>2
  <1> HIDE DEF m
  <1>4. AccountedTo(top[s])
    BY DEF SyncInv, MarksHold
  <1>5. AccountedTo(r.newest)
    <2> SUFFICES ASSUME NEW t \in Transcripts, mtime[t] \in 1..r.newest PROVE Accounted(t)
      BY DEF AccountedTo
    <2>1. Accounted(t) \/ \E j \in 2..1 : Carries(requests[s][j], t)
      BY <1>1 DEF SyncInv, QueueCovers, Unanswered
    <2> QED
      BY <2>1
  <1>6. m \in Times /\ m <= time /\ AccountedTo(m)
    BY <1>2, <1>3, <1>4, <1>5
  <1> QED
    BY <1>1, <1>6 DEF m

LEMMA TakesKeep ==
  ASSUME SyncInv, NEW s \in Syncs, TakeAnswer(s) PROVE SyncInv'
  <1> DEFINE q == requests[s]
             r == Tail(q)
             to == IF Len(q) = 1 THEN "done" ELSE "post"
  <1>0. /\ UNCHANGED <<time, mtime, stored, since, left, found, slipped, dropped, refused, vanished>>
        /\ at[s] = "answer" /\ at' = [at EXCEPT ![s] = to]
        /\ requests' = [requests EXCEPT ![s] = r]
    BY DEF TakeAnswer, Turns, scan, losses
  <1>1. q \in Seq(Batches) /\ q # <<>> /\ Len(q) \in Nat /\ Len(q) >= 1
    BY <1>0 DEF SyncInv, SyncTypeOK, QueueCovers
  <1>2. /\ r \in Seq(Batches) /\ Len(r) = Len(q) - 1 /\ DOMAIN r = 1..(Len(q) - 1)
        /\ \A k \in DOMAIN r : k + 1 \in DOMAIN q /\ r[k] = q[k + 1]
    BY <1>1
  <1>3. /\ requests'[s] = r /\ \A u \in Syncs \ {s} : requests'[u] = requests[u]
        /\ at'[s] = to /\ \A u \in Syncs \ {s} : at'[u] = at[u]
        /\ requests' \in [Syncs -> Seq(Batches)]
        /\ at' \in [Syncs -> {"idle", "stat", "post", "answer", "done", "failed", "killed"}]
    <2> HIDE DEF r
    <2> QED
      BY <1>0, <1>2 DEF SyncInv, SyncTypeOK
  <1>4. /\ \A w : AccountedTo(w) => AccountedTo(w)'
        /\ \A u \in Syncs \ {s} : QueueCovers(u)'
    BY <1>0, <1>3, OthersKeep
  <1>5. PICK m \in Times :
          /\ m <= time /\ AccountedTo(m) /\ top' = [top EXCEPT ![s] = m]
          /\ watermark' = m \/ watermark' = watermark
    <2>1. CASE Head(q).advance
      <3> DEFINE m == Max({top[s], Head(q).newest})
      <3>1. m \in Times /\ m <= time /\ AccountedTo(m)
        BY <2>1, <1>0, MovesTo
      <3>2. top' = [top EXCEPT ![s] = m] /\ watermark' = top'[s]
        BY <2>1 DEF TakeAnswer
      <3>3. watermark' = m
        BY <3>2 DEF SyncInv, SyncTypeOK
      <3> HIDE DEF m
      <3> QED
        BY <3>1, <3>2, <3>3
    <2>2. CASE ~Head(q).advance
      <3>1. UNCHANGED <<top, watermark>>
        BY <2>2 DEF TakeAnswer
      <3> QED
        BY <3>1 DEF SyncInv, SyncTypeOK, Clocked, MarksHold
    <2> QED
      BY <2>1, <2>2
  <1>6. OldestFirst(r)
    <2> SUFFICES ASSUME NEW k \in DOMAIN r, NEW l \in DOMAIN r, k < l
                 PROVE  q[k + 1].newest <= q[l + 1].newest
      BY <1>2 DEF OldestFirst
    <2>1. k + 1 < l + 1
      BY <1>2
    <2> HIDE DEF r
    <2> QED
      BY <2>1, <1>2 DEF SyncInv, SyncTypeOK, OldestFirst
  <1> HIDE DEF r
  <1>7. SyncTypeOK'
    BY <1>0, <1>3, <1>5, <1>6 DEF SyncInv, SyncTypeOK
  <1>8. Clocked'
    <2>1. \A k \in DOMAIN r : r[k].newest <= time
      BY <1>2 DEF SyncInv, Clocked
    <2>2. \A u \in Syncs : top'[u] <= time
      BY <1>5 DEF SyncInv, SyncTypeOK, Clocked
    <2> QED
      BY <2>1, <2>2, <1>0, <1>3, <1>5 DEF SyncInv, Clocked
  <1>9. Apart'
    BY <1>0 DEF SyncInv, Apart
  <1>10. ScanSees'
    BY <1>0, <1>3, <1>5 DEF SyncInv, SyncTypeOK, ScanSees
  <1>11. MarksHold'
    <2>1. \A u \in Syncs : top'[u] = m \/ top'[u] = top[u]
      BY <1>5 DEF SyncInv, SyncTypeOK
    <2> QED
      BY <2>1, <1>4, <1>5 DEF SyncInv, MarksHold
  <1>12. QueueCovers(s)'
    <2>1. CASE Len(q) = 1
      BY <2>1, <1>3 DEF QueueCovers
    <2>2. CASE Len(q) # 1
      <3>1. at'[s] = "post" /\ r # <<>>
        <4>1. Len(r) # 0
          BY <2>2, <1>1, <1>2
        <4> QED
          BY <4>1, <2>2, <1>3
      <3>2. ASSUME NEW k \in DOMAIN r, r[k].advance,
                   NEW t \in Transcripts, mtime[t] \in 1..r[k].newest
            PROVE  Accounted(t) \/ \E j \in 1..k : Carries(r[j], t)
        <4>1. Accounted(t) \/ \E j \in 2..(k + 1) : Carries(q[j], t)
          BY <3>2, <1>0, <1>2 DEF SyncInv, QueueCovers, Unanswered
        <4>2. ASSUME NEW j \in 2..(k + 1), Carries(q[j], t)
              PROVE  \E l \in 1..k : Carries(r[l], t)
          <5>1. j - 1 \in 1..k /\ j - 1 \in DOMAIN r /\ (j - 1) + 1 = j
            BY <1>1, <1>2
          <5>2. r[j - 1] = q[j]
            BY <5>1, <1>2
          <5> QED
            BY <5>1, <5>2, <4>2
        <4> QED
          BY <4>1, <4>2
      <3>3. \A t \in Transcripts : Accounted(t)' <=> Accounted(t)
        BY <1>0 DEF Accounted, Arrived
      <3> QED
        BY <3>1, <3>2, <3>3, <1>0, <1>3 DEF QueueCovers, Unanswered, Carries
    <2> QED
      BY <2>1, <2>2
  <1> QED
    BY <1>4, <1>7, <1>8, <1>9, <1>10, <1>11, <1>12 DEF SyncInv

LEMMA SyncStepInv == SyncInv /\ [SyncNext]_syncVars => SyncInv'
  <1> SUFFICES ASSUME SyncInv, [SyncNext]_syncVars PROVE SyncInv'
    OBVIOUS
  <1>1. ASSUME NEW s \in Syncs, SyncStep(s) PROVE SyncInv'
    BY <1>1, StartsKeep, StatKeeps, CollectKeeps, PostsKeep, SplitKeeps, TakesKeep DEF SyncStep
  <1>2. ASSUME NEW t \in Transcripts, Write(t) PROVE SyncInv'
    BY <1>2, AgentWriteKeeps
  <1>3. CASE UNCHANGED syncVars
    <2> USE <1>3 DEF syncVars, scan, losses
    <2>1. SyncTypeOK' /\ Clocked' /\ Apart' /\ ScanSees'
      BY DEF SyncInv, SyncTypeOK, Clocked, Apart, ScanSees
    <2>2. \A t \in Transcripts : Accounted(t)' <=> Accounted(t)
      BY DEF Accounted, Arrived
    <2>3. MarksHold' /\ \A s \in Syncs : QueueCovers(s)'
      BY <2>2 DEF SyncInv, MarksHold, AccountedTo, QueueCovers, Unanswered, Carries
    <2> QED
      BY <2>1, <2>3 DEF SyncInv
  <1> QED
    BY <1>1, <1>2, <1>3 DEF SyncNext

LEMMA SyncInvariant == SyncSpec => []SyncInv
  BY SyncInitInv, SyncStepInv, PTL DEF SyncSpec

\* The state of the syncs is what sync-cmd.ts and its queue say it is; the requests of
\* one leave oldest first.
THEOREM SyncTypeCorrect == SyncSpec => []SyncTypeOK
  <1>1. SyncInv => SyncTypeOK
    BY DEF SyncInv
  <1> QED
    BY <1>1, SyncInvariant, PTL

\* However syncs overlap, fail, split a request or are killed, and whatever is written
\* meanwhile, the watermark passes nothing but what the server has had some of, rejected
\* or took for stored, what a sync found and left out (unreadable, not among the newest of
\* --limit, not of a repository to sync), and what was written behind its back.
THEOREM WatermarkSkipsNothing == SyncSpec => []NothingSkipped
  <1>1. SyncInv => NothingSkipped
    BY DEF SyncInv, MarksHold, AccountedTo, NothingSkipped, Passed
  <1> QED
    BY <1>1, SyncInvariant, PTL

\* A part a sync has yet to post, and one the server has had, rejected, or took for stored.
ToPost(s, t, c, p) ==
  /\ at[s] \in {"post", "answer"}
  /\ \E k \in DOMAIN requests[s] :
       /\ k >= Unanswered(s)
       /\ \E i \in requests[s][k].items : i.of = t /\ i.content = c /\ i.part = p
Received(t, c, p) == <<t, c, p>> \in stored \/ <<t, c>> \in refused \cup vanished
Ended(s) == at[s] \in {"failed", "killed"}

\* The parts of a content are in one queue together, or have been received from it.
QueuedWhole ==
  \A s \in Syncs, t \in Transcripts, c \in Times : \A p, q \in 1..Parts[t] :
    ToPost(s, t, c, p) => Received(t, c, q) \/ ToPost(s, t, c, q)
StoredWhole ==
  \A t \in Transcripts, c \in Times : \A p, q \in 1..Parts[t] :
    <<t, c, p>> \in stored =>
      Received(t, c, q) \/ \E s \in Syncs : ToPost(s, t, c, q) \/ Ended(s)

\* When the claim of sync-cmd.ts (PartialIsResent) does hold: with no sync at work, a
\* session of which some parts arrived is there whole, unless a sync failed or was killed,
\* or a part was rejected or never landed.
HalfSentHasCause ==
  (\A s \in Syncs : at[s] \notin {"post", "answer"}) =>
    \A t \in Transcripts : (\E p \in 1..Parts[t] : Arrived(t, p)) =>
      \/ \A p \in 1..Parts[t] : Arrived(t, p)
      \/ <<t, mtime[t]>> \in refused \cup vanished
      \/ \E s \in Syncs : Ended(s)

\* A sync goes on: what it has yet to post shrinks by what is received, and the server
\* stores nothing else.
LEMMA PartsGoOn ==
  ASSUME QueuedWhole, StoredWhole, NEW s \in Syncs,
         stored \subseteq stored', refused \subseteq refused', vanished \subseteq vanished',
         \A u \in Syncs \ {s} : at'[u] = at[u] /\ requests'[u] = requests[u],
         Ended(s) => Ended(s)',
         \A t \in Transcripts, c \in Times : \A p \in 1..Parts[t] :
           /\ ToPost(s, t, c, p)' => ToPost(s, t, c, p)
           /\ ToPost(s, t, c, p) => ToPost(s, t, c, p)' \/ Received(t, c, p)' \/ Ended(s)'
           /\ <<t, c, p>> \in stored' => <<t, c, p>> \in stored \/ ToPost(s, t, c, p)
  PROVE  QueuedWhole' /\ StoredWhole'
  <1>1. \A t, c, p : Received(t, c, p) => Received(t, c, p)'
    BY DEF Received
  <1>2. \A u \in Syncs \ {s} : \A t, c, p : ToPost(u, t, c, p)' <=> ToPost(u, t, c, p)
    BY DEF ToPost, Unanswered
  <1>3. \A u \in Syncs : Ended(u) => Ended(u)'
    BY DEF Ended
  <1>4. \A t, c, p : ToPost(s, t, c, p)' => ~Ended(s)'
    BY DEF ToPost, Ended
  <1>5. QueuedWhole'
    <2> SUFFICES ASSUME NEW u \in Syncs, NEW t \in Transcripts, NEW c \in Times,
                        NEW p \in 1..Parts[t], NEW q \in 1..Parts[t], ToPost(u, t, c, p)'
                 PROVE  Received(t, c, q)' \/ ToPost(u, t, c, q)'
      BY DEF QueuedWhole, Times
    <2>1. ToPost(u, t, c, p)
      <3>1. ToPost(s, t, c, p)' => ToPost(s, t, c, p)
        OBVIOUS
      <3> QED
        BY <3>1, <1>2
    <2>2. Received(t, c, q) \/ ToPost(u, t, c, q)
      BY <2>1 DEF QueuedWhole
    <2>3. CASE u = s
      <3>1. ToPost(s, t, c, q) => ToPost(s, t, c, q)' \/ Received(t, c, q)' \/ Ended(s)'
        OBVIOUS
      <3> QED
        BY <3>1, <2>2, <2>3, <1>1, <1>4
    <2>4. CASE u # s
      BY <2>2, <2>4, <1>1, <1>2
    <2> QED
      BY <2>3, <2>4
  <1>6. StoredWhole'
    <2> SUFFICES ASSUME NEW t \in Transcripts, NEW c \in Times,
                        NEW p \in 1..Parts[t], NEW q \in 1..Parts[t], <<t, c, p>> \in stored'
                 PROVE  Received(t, c, q)' \/ \E u \in Syncs : ToPost(u, t, c, q)' \/ Ended(u)'
      BY DEF StoredWhole, Times
    <2>1. Received(t, c, q) \/ \E u \in Syncs : ToPost(u, t, c, q) \/ Ended(u)
      BY DEF QueuedWhole, StoredWhole
    <2>2. ASSUME NEW u \in Syncs, ToPost(u, t, c, q)
          PROVE  ToPost(u, t, c, q)' \/ Received(t, c, q)' \/ Ended(u)'
      BY <2>2, <1>2
    <2> QED
      BY <2>1, <2>2, <1>1, <1>3
  <1> QED
    BY <1>5, <1>6

\* A step that leaves the queues alone.
LEMMA PartsAside ==
  ASSUME QueuedWhole, StoredWhole, UNCHANGED <<stored, refused, vanished, requests>>,
         \A s \in Syncs : at'[s] = at[s] \/ (at[s] = "idle" /\ at'[s] = "stat")
  PROVE  QueuedWhole' /\ StoredWhole'
  <1>1. \A s \in Syncs : \A t, c, p : ToPost(s, t, c, p)' <=> ToPost(s, t, c, p)
    BY DEF ToPost, Unanswered
  <1>2. \A s \in Syncs : Ended(s) => Ended(s)'
    BY DEF Ended
  <1>3. \A t, c, p : Received(t, c, p)' <=> Received(t, c, p)
    BY DEF Received
  <1>4. Times' = Times
    BY DEF Times
  <1>5. QueuedWhole'
    BY <1>1, <1>3, <1>4 DEF QueuedWhole
  <1>6. StoredWhole'
    BY <1>1, <1>2, <1>3, <1>4 DEF StoredWhole
  <1> QED
    BY <1>5, <1>6

\* Nothing is found half: a scan collects every part of a transcript with one content.
LEMMA PartsCollect ==
  ASSUME SyncInv, QueuedWhole, StoredWhole, NEW s \in Syncs, Collect(s)
  PROVE  QueuedWhole' /\ StoredWhole'
  <1>t. PICK taken \in Selections(s) : Ships(s, taken)
    BY DEF Collect
  <1> DEFINE items == Collected(s, taken)
  <1>0. /\ UNCHANGED <<mtime, stored, refused, vanished>>
        /\ at[s] = "stat" /\ \A u \in Syncs \ {s} : at'[u] = at[u]
    BY <1>t DEF Collect, Ships, Turns, SyncInv, SyncTypeOK
  <1>1. CASE items = {}
    <2>1. requests' = requests /\ at'[s] = "done"
      BY <1>1, <1>t DEF Ships, Turns, SyncInv, SyncTypeOK
    <2> QED
      BY <1>0, <2>1, PartsGoOn DEF ToPost, Ended
  <1>2. CASE items # {}
    <2>1. PICK n \in 1..Cardinality(items) : \E place \in Batchings(items, n) :
            requests' = [requests EXCEPT ![s] =
                           [k \in 1..n |-> Request({i \in items : place[i] = k})]]
      BY <1>2, <1>t DEF Ships
    <2>2. PICK place \in [items -> 1..n] :
            requests' = [requests EXCEPT ![s] =
                           [k \in 1..n |-> Request({i \in items : place[i] = k})]]
      BY <2>1 DEF Batchings
    <2>3. /\ requests'[s] = [k \in 1..n |-> Request({i \in items : place[i] = k})]
          /\ \A u \in Syncs \ {s} : requests'[u] = requests[u]
      BY <2>2 DEF SyncInv, SyncTypeOK
    <2>4. at'[s] = "post"
      BY <1>2, <1>t DEF Ships, Turns, SyncInv, SyncTypeOK
    <2>5. \A k \in 1..n : requests'[s][k].items = {i \in items : place[i] = k}
      BY <2>3 DEF Request
    <2>6. \A t, c, p : ToPost(s, t, c, p)' <=>
            \E i \in items : i.of = t /\ i.content = c /\ i.part = p
      <3> SUFFICES ASSUME NEW t, NEW c, NEW p
                   PROVE  ToPost(s, t, c, p)' <=>
                            \E i \in items : i.of = t /\ i.content = c /\ i.part = p
        OBVIOUS
      <3>1. DOMAIN requests'[s] = 1..n
        BY <2>3
      <3>2. ToPost(s, t, c, p)' <=>
              \E k \in 1..n : \E i \in {j \in items : place[j] = k} :
                i.of = t /\ i.content = c /\ i.part = p
        BY <2>4, <2>5, <3>1 DEF ToPost, Unanswered
      <3>3. \A i \in items : place[i] \in 1..n
        BY <2>2
      <3> HIDE DEF items
      <3> QED
        BY <3>2, <3>3
    <2>7. \A i \in items : \A q \in 1..Parts[i.of] :
            \E j \in items : j.of = i.of /\ j.content = i.content /\ j.part = q
      <3> DEFINE item(t, p) == [of |-> t, content |-> mtime[t], mtime |-> found[s][t], part |-> p]
      <3>1. \A i : i \in items <=>
              \E t \in taken : \E p \in 1..Parts[t] : i = item(t, p)
        BY DEF Collected
      <3>2. \A t, p : /\ item(t, p).of = t /\ item(t, p).content = mtime[t]
                     /\ item(t, p).part = p
        OBVIOUS
      <3> HIDE DEF items, item
      <3> QED
        BY <3>1, <3>2
    <2>8. \A t, c, p : ~ToPost(s, t, c, p)
      BY <1>0 DEF ToPost
    <2>9. /\ \A t, c, p : Received(t, c, p)' <=> Received(t, c, p)
          /\ Ended(s) => Ended(s)'
          /\ \A u \in Syncs \ {s} :
               /\ Ended(u) => Ended(u)'
               /\ \A t, c, p : ToPost(u, t, c, p)' <=> ToPost(u, t, c, p)
      BY <1>0, <2>3 DEF Received, Ended, ToPost, Unanswered
    <2>10. QueuedWhole'
      <3> SUFFICES ASSUME NEW u \in Syncs, NEW t \in Transcripts, NEW c \in Times,
                          NEW p \in 1..Parts[t], NEW q \in 1..Parts[t], ToPost(u, t, c, p)'
                   PROVE  Received(t, c, q)' \/ ToPost(u, t, c, q)'
        BY DEF QueuedWhole, Times
      <3>1. CASE u = s
        BY <3>1, <2>6, <2>7
      <3>2. CASE u # s
        BY <3>2, <2>9 DEF QueuedWhole
      <3> QED
        BY <3>1, <3>2
    <2>11. StoredWhole'
      <3> SUFFICES ASSUME NEW t \in Transcripts, NEW c \in Times,
                          NEW p \in 1..Parts[t], NEW q \in 1..Parts[t], <<t, c, p>> \in stored
                   PROVE  Received(t, c, q)' \/ \E u \in Syncs : ToPost(u, t, c, q)' \/ Ended(u)'
        BY <1>0 DEF StoredWhole, Times
      <3> QED
        BY <2>8, <2>9 DEF StoredWhole
    <2> QED
      BY <2>10, <2>11
  <1> QED
    BY <1>1, <1>2

\* The request in front: the parts it carries are yet to post.
LEMMA SentToPost ==
  ASSUME SyncInv, NEW s \in Syncs, at[s] = "post"
  PROVE  /\ \A i \in Sent(s) : ToPost(s, i.of, i.content, i.part)
         /\ 1 \in DOMAIN requests[s] /\ Sent(s) = requests[s][1].items
  <1>1. requests[s] # <<>> /\ requests[s] \in Seq(Batches)
    BY DEF SyncInv, QueueCovers, SyncTypeOK
  <1>2. 1 \in DOMAIN requests[s] /\ Sent(s) = requests[s][1].items
    BY <1>1 DEF Sent
  <1> QED
    BY <1>2 DEF ToPost, Unanswered

\* A request is answered, or its sync ends.
LEMMA PartsPosted ==
  ASSUME SyncInv, QueuedWhole, StoredWhole, NEW s \in Syncs,
         PostRequest(s) \/ PostVanishes(s) \/ PostFails(s) \/ SyncKilled(s)
  PROVE  QueuedWhole' /\ StoredWhole'
  <1>0. /\ requests' = requests /\ at[s] \in {"stat", "post", "answer"}
        /\ \A u \in Syncs \ {s} : at'[u] = at[u]
        /\ at'[s] \in {"answer", "failed", "killed"}
        /\ at'[s] = "answer" => at[s] = "post"
        /\ ~Ended(s)
    BY DEF PostRequest, PostVanishes, PostFails, SyncKilled, Turns, scan, losses, SyncInv,
           SyncTypeOK, Ended
  <1>1. ASSUME NEW items \in SUBSET Sent(s), Stores(items), at[s] = "post"
        PROVE  /\ stored \subseteq stored'
               /\ \A x \in stored' \ stored : \E i \in items : x = <<i.of, i.content, i.part>>
    BY <1>1 DEF Stores
  <1>2. /\ stored \subseteq stored' /\ refused \subseteq refused' /\ vanished \subseteq vanished'
        /\ \A x \in stored' \ stored :
             at[s] = "post" /\ \E i \in Sent(s) : x = <<i.of, i.content, i.part>>
        /\ at'[s] = "answer" => \A i \in Sent(s) : Received(i.of, i.content, i.part)'
    <2>1. CASE PostRequest(s)
      <3>1. PICK bad \in SUBSET Transcripts :
              /\ Stores({i \in Sent(s) : i.of \notin bad})
              /\ refused' = refused \cup ContentsOf({i \in Sent(s) : i.of \in bad})
        BY <2>1 DEF PostRequest
      <3>2. at[s] = "post" /\ vanished' = vanished
        BY <2>1 DEF PostRequest, Turns
      <3>3. /\ \A i \in Sent(s) : i.of \in bad => <<i.of, i.content>> \in refused'
            /\ \A i \in Sent(s) : i.of \notin bad => <<i.of, i.content, i.part>> \in stored'
        BY <3>1 DEF Stores, ContentsOf
      <3> QED
        BY <3>1, <3>2, <3>3, <1>1 DEF Received
    <2>2. CASE PostVanishes(s)
      BY <2>2 DEF PostVanishes, Turns, Received, ContentsOf
    <2>3. CASE PostFails(s)
      <3>1. at[s] = "post" /\ at'[s] # "answer" /\ UNCHANGED <<refused, vanished>>
            /\ (Stores({}) \/ Stores(Sent(s)))
        BY <2>3 DEF PostFails, Turns, losses, SyncInv, SyncTypeOK
      <3> QED
        BY <3>1, <1>1
    <2>4. CASE SyncKilled(s)
      BY <2>4 DEF SyncKilled, losses, SyncInv, SyncTypeOK
    <2> QED
      BY <2>1, <2>2, <2>3, <2>4
  <1>3. ASSUME NEW t \in Transcripts, NEW c \in Times, NEW p \in 1..Parts[t], ToPost(s, t, c, p)'
        PROVE  ToPost(s, t, c, p)
    <2>1. at[s] = "post" /\ at'[s] = "answer"
      BY <1>0, <1>3 DEF ToPost
    <2>2. PICK k \in DOMAIN requests[s] :
            k >= 2 /\ \E i \in requests[s][k].items : i.of = t /\ i.content = c /\ i.part = p
      BY <2>1, <1>0, <1>3 DEF ToPost, Unanswered
    <2>3. k >= 1
      BY <2>2 DEF SyncInv, SyncTypeOK
    <2> QED
      BY <2>1, <2>2, <2>3 DEF ToPost, Unanswered
  <1>4. ASSUME NEW t \in Transcripts, NEW c \in Times, NEW p \in 1..Parts[t], ToPost(s, t, c, p),
               ~Ended(s)'
        PROVE  ToPost(s, t, c, p)' \/ Received(t, c, p)'
    <2>1. at[s] = "post" /\ at'[s] = "answer"
      BY <1>0, <1>4 DEF Ended
    <2>2. PICK k \in DOMAIN requests[s] :
            \E i \in requests[s][k].items : i.of = t /\ i.content = c /\ i.part = p
      BY <1>4 DEF ToPost
    <2>3. CASE k = 1
      BY <2>1, <2>2, <2>3, <1>2, SentToPost
    <2>4. CASE k # 1
      <3>1. k >= 2
        BY <2>4 DEF SyncInv, SyncTypeOK
      <3> QED
        BY <3>1, <2>1, <2>2, <1>0 DEF ToPost, Unanswered
    <2> QED
      BY <2>3, <2>4
  <1>5. ASSUME NEW t \in Transcripts, NEW c \in Times, NEW p \in 1..Parts[t],
               <<t, c, p>> \in stored' \ stored
        PROVE  ToPost(s, t, c, p)
    <2>1. PICK i \in Sent(s) : <<t, c, p>> = <<i.of, i.content, i.part>>
      BY <1>2, <1>5
    <2>2. t = i.of /\ c = i.content /\ p = i.part
      BY <2>1
    <2> QED
      BY <2>2, <1>2, <1>5, SentToPost
  <1> QED
    BY <1>0, <1>2, <1>3, <1>4, <1>5, PartsGoOn

\* A split queue carries what it carried.
LEMMA PartsSplit ==
  ASSUME SyncInv, QueuedWhole, StoredWhole, NEW s \in Syncs, SplitRequest(s)
  PROVE  QueuedWhole' /\ StoredWhole'
  <1> DEFINE q == requests[s]
             first == FirstHalf(Head(q).items)
             a == [Head(q) EXCEPT !.items = first, !.advance = FALSE]
             b == [Head(q) EXCEPT !.items = @ \ first]
             r == <<a, b>> \o Tail(q)
  <1>0. /\ UNCHANGED <<time, mtime, watermark, since, left, found, top, slipped, dropped, refused, vanished>>
        /\ Stores({}) \/ Stores(Sent(s))
        /\ at[s] = "post" /\ at' = at
        /\ requests' = [requests EXCEPT ![s] = r]
    BY DEF SplitRequest, Halves, Turns, scan, losses, SyncInv, SyncTypeOK
  <1>1. q \in Seq(Batches) /\ q # <<>> /\ Len(q) \in Nat /\ Len(q) >= 1
    BY <1>0 DEF SyncInv, SyncTypeOK, QueueCovers
  <1>2. /\ r \in Seq(Batches) /\ Len(r) = Len(q) + 1
        /\ r[1].items \cup r[2].items = q[1].items
        /\ \A k \in 3..Len(r) : r[k] = q[k - 1]
    <2>1. first \subseteq Head(q).items
      BY DEF FirstHalf
    <2> HIDE DEF first
    <2>2. /\ Head(q) = q[1] /\ q[1] \in Batches
          /\ q[1].items \subseteq Items /\ q[1].newest \in Times /\ q[1].advance \in BOOLEAN
      <3>1. Head(q) = q[1] /\ q[1] \in Batches
        <4> HIDE DEF q
        <4> QED
          BY <1>1
      <3> HIDE DEF q
      <3> QED
        BY <3>1 DEF Batches
    <2>3. /\ a \in Batches /\ ~a.advance /\ a.newest = q[1].newest /\ a.items = first
      BY <2>1, <2>2 DEF Batches
    <2>4. /\ b \in Batches /\ (b.advance => q[1].advance)
          /\ b.newest = q[1].newest /\ b.items = q[1].items \ first
      BY <2>1, <2>2 DEF Batches
    <2>5. a.items \cup b.items = q[1].items
      BY <2>1, <2>2, <2>3, <2>4
    <2>6. r = <<a, b>> \o Tail(q)
      OBVIOUS
    <2> HIDE DEF q, a, b, r
    <2> QED
      BY <1>1, <2>3, <2>4, <2>5, <2>6, SplitQueue
  <1>3. requests'[s] = r /\ \A u \in Syncs \ {s} : requests'[u] = requests[u]
    BY <1>0 DEF SyncInv, SyncTypeOK
  <1> HIDE DEF r, q
  <1>4. DOMAIN r = 1..(Len(q) + 1) /\ DOMAIN q = 1..Len(q)
    BY <1>1, <1>2
  <1>5. \A i : (\E k \in DOMAIN r : i \in r[k].items) <=> (\E k \in DOMAIN q : i \in q[k].items)
    <2> SUFFICES ASSUME NEW i
                 PROVE  /\ \A k \in DOMAIN r : i \in r[k].items =>
                             \E l \in DOMAIN q : i \in q[l].items
                        /\ \A k \in DOMAIN q : i \in q[k].items =>
                             \E l \in DOMAIN r : i \in r[l].items
      OBVIOUS
    <2>1. 1 \in DOMAIN q /\ 1 \in DOMAIN r /\ 2 \in DOMAIN r
      BY <1>1, <1>4
    <2>2. ASSUME NEW k \in DOMAIN r, i \in r[k].items PROVE \E l \in DOMAIN q : i \in q[l].items
      <3>1. CASE k \in {1, 2}
        BY <3>1, <2>1, <2>2, <1>2
      <3>2. CASE k \notin {1, 2}
        <4>1. k \in 3..Len(r) /\ k - 1 \in DOMAIN q
          BY <3>2, <1>1, <1>2, <1>4
        <4> QED
          BY <4>1, <2>2, <1>2
      <3> QED
        BY <3>1, <3>2
    <2>3. ASSUME NEW k \in DOMAIN q, i \in q[k].items PROVE \E l \in DOMAIN r : i \in r[l].items
      <3>1. CASE k = 1
        BY <3>1, <2>1, <2>3, <1>2
      <3>2. CASE k # 1
        <4>1. k + 1 \in 3..Len(r) /\ k + 1 \in DOMAIN r /\ (k + 1) - 1 = k
          BY <3>2, <1>1, <1>2, <1>4
        <4> QED
          BY <4>1, <2>3, <1>2
      <3> QED
        BY <3>1, <3>2
    <2> QED
      BY <2>2, <2>3
  <1>6. \A t, c, p : ToPost(s, t, c, p)' <=> ToPost(s, t, c, p)
    <2>1. \A k \in DOMAIN q : k >= 1
      BY <1>1, <1>4
    <2>2. \A k \in DOMAIN r : k >= 1
      BY <1>1, <1>4
    <2>3. \A t, c, p : ToPost(s, t, c, p) <=>
            \E k \in DOMAIN q : \E i \in q[k].items : i.of = t /\ i.content = c /\ i.part = p
      BY <2>1, <1>0 DEF ToPost, Unanswered, q
    <2>4. \A t, c, p : ToPost(s, t, c, p)' <=>
            \E k \in DOMAIN r : \E i \in r[k].items : i.of = t /\ i.content = c /\ i.part = p
      BY <2>2, <1>0, <1>3 DEF ToPost, Unanswered
    <2> QED
      BY <2>3, <2>4, <1>5
  <1>7. stored \subseteq stored'
        /\ \A t, c, p : <<t, c, p>> \in stored' \ stored => ToPost(s, t, c, p)
    <2>1. /\ stored \subseteq stored'
          /\ \A x \in stored' \ stored : \E i \in Sent(s) : x = <<i.of, i.content, i.part>>
      BY <1>0 DEF Stores
    <2>2. ASSUME NEW t, NEW c, NEW p, <<t, c, p>> \in stored' \ stored PROVE ToPost(s, t, c, p)
      <3>1. PICK i \in Sent(s) : <<t, c, p>> = <<i.of, i.content, i.part>>
        BY <2>1, <2>2
      <3>2. t = i.of /\ c = i.content /\ p = i.part
        BY <3>1
      <3> QED
        BY <3>2, <1>0, SentToPost
    <2> QED
      BY <2>1, <2>2
  <1>8. Ended(s) => Ended(s)'
    BY <1>0 DEF Ended
  <1> QED
    BY <1>0, <1>3, <1>6, <1>7, <1>8, PartsGoOn

\* The request that was answered leaves the queue.
LEMMA PartsTaken ==
  ASSUME SyncInv, QueuedWhole, StoredWhole, NEW s \in Syncs, TakeAnswer(s)
  PROVE  QueuedWhole' /\ StoredWhole'
  <1> DEFINE q == requests[s]
             r == Tail(q)
  <1>0. /\ UNCHANGED <<stored, refused, vanished>>
        /\ at[s] = "answer" /\ at'[s] = IF Len(q) = 1 THEN "done" ELSE "post"
        /\ requests'[s] = r
        /\ \A u \in Syncs \ {s} : at'[u] = at[u] /\ requests'[u] = requests[u]
    BY DEF TakeAnswer, Turns, losses, SyncInv, SyncTypeOK
  <1>1. q \in Seq(Batches) /\ q # <<>> /\ Len(q) \in Nat /\ Len(q) >= 1 /\ DOMAIN q = 1..Len(q)
    BY <1>0 DEF SyncInv, SyncTypeOK, QueueCovers
  <1>2. /\ DOMAIN r = 1..(Len(q) - 1)
        /\ \A k \in DOMAIN r : k + 1 \in DOMAIN q /\ r[k] = q[k + 1]
    BY <1>1
  <1> HIDE DEF r
  <1>3. \A t, c, p : ToPost(s, t, c, p)' <=> ToPost(s, t, c, p)
    <2> SUFFICES ASSUME NEW t, NEW c, NEW p PROVE ToPost(s, t, c, p)' <=> ToPost(s, t, c, p)
      OBVIOUS
    <2>1. ToPost(s, t, c, p) <=>
            \E k \in DOMAIN q : k >= 2 /\
              \E i \in q[k].items : i.of = t /\ i.content = c /\ i.part = p
      BY <1>0 DEF ToPost, Unanswered
    <2>2. ToPost(s, t, c, p)' <=>
            Len(q) # 1 /\ \E k \in DOMAIN r : k >= 1 /\
              \E i \in r[k].items : i.of = t /\ i.content = c /\ i.part = p
      BY <1>0 DEF ToPost, Unanswered
    <2>3. ASSUME NEW k \in DOMAIN q, k >= 2,
                 \E i \in q[k].items : i.of = t /\ i.content = c /\ i.part = p
          PROVE  ToPost(s, t, c, p)'
      <3>1. k - 1 \in DOMAIN r /\ k - 1 >= 1 /\ (k - 1) + 1 = k /\ Len(q) # 1
        BY <2>3, <1>1, <1>2
      <3>2. r[k - 1] = q[k]
        BY <3>1, <1>2
      <3> QED
        BY <3>1, <3>2, <2>2, <2>3
    <2>4. ASSUME NEW k \in DOMAIN r,
                 \E i \in r[k].items : i.of = t /\ i.content = c /\ i.part = p
          PROVE  ToPost(s, t, c, p)
      <3>1. k + 1 \in DOMAIN q /\ k + 1 >= 2 /\ r[k] = q[k + 1]
        BY <1>1, <1>2
      <3> QED
        BY <3>1, <2>1, <2>4
    <2> QED
      BY <2>1, <2>2, <2>3, <2>4
  <1>4. Ended(s) => Ended(s)'
    BY <1>0 DEF Ended
  <1> QED
    BY <1>0, <1>3, <1>4, PartsGoOn

LEMMA PartsStep ==
  SyncInv /\ QueuedWhole /\ StoredWhole /\ [SyncNext]_syncVars => QueuedWhole' /\ StoredWhole'
  <1> SUFFICES ASSUME SyncInv, QueuedWhole, StoredWhole, [SyncNext]_syncVars
               PROVE  QueuedWhole' /\ StoredWhole'
    OBVIOUS
  <1>1. ASSUME NEW s \in Syncs, SyncStarts(s) \/ \E t \in Transcripts : StatTranscript(s, t)
        PROVE  QueuedWhole' /\ StoredWhole'
    BY <1>1, PartsAside DEF SyncStarts, StatTranscript, Turns, losses, SyncInv, SyncTypeOK
  <1>2. ASSUME NEW s \in Syncs, SyncStep(s) PROVE QueuedWhole' /\ StoredWhole'
    BY <1>1, <1>2, PartsCollect, PartsPosted, PartsSplit, PartsTaken DEF SyncStep
  <1>3. ASSUME NEW t \in Transcripts, Write(t) PROVE QueuedWhole' /\ StoredWhole'
    BY <1>3, PartsAside DEF Write
  <1>4. CASE UNCHANGED syncVars
    BY <1>4, PartsAside DEF syncVars, losses
  <1> QED
    BY <1>2, <1>3, <1>4 DEF SyncNext

\* "a partially-shipped session re-sends whole on resume": only a sync that failed or was
\* killed, a rejected part or one that never landed leaves a session sent by half, however
\* syncs overlap, split their requests and meet new content; the run cli_resume shows that
\* a sync that failed does leave one.
THEOREM SessionsWhole == SyncSpec => []HalfSentHasCause
  <1>1. SyncInit => QueuedWhole /\ StoredWhole
    BY DEF SyncInit, QueuedWhole, StoredWhole, ToPost
  <1>2. SyncInv /\ QueuedWhole /\ StoredWhole => HalfSentHasCause
    <2> SUFFICES ASSUME SyncInv, StoredWhole, \A s \in Syncs : at[s] \notin {"post", "answer"},
                        NEW t \in Transcripts, NEW p \in 1..Parts[t], Arrived(t, p),
                        NEW q \in 1..Parts[t], ~Arrived(t, q)
                 PROVE  <<t, mtime[t]>> \in refused \cup vanished \/ \E s \in Syncs : Ended(s)
      BY DEF HalfSentHasCause
    <2>1. mtime[t] \in Times
      BY DEF SyncInv, SyncTypeOK
    <2>2. Received(t, mtime[t], q) \/ \E s \in Syncs : ToPost(s, t, mtime[t], q) \/ Ended(s)
      BY <2>1 DEF StoredWhole, Arrived
    <2> QED
      BY <2>2 DEF ToPost, Received, Arrived
  <1> QED
    BY <1>1, <1>2, PartsStep, SyncInvariant, PTL DEF SyncSpec
=============================================================================
