----------------------- MODULE ContentPublisherProofs -----------------------
(***************************************************************************)
(* What holds of ContentPublisher for every value of its constants.        *)
(***************************************************************************)
EXTENDS ContentPublisher, TLAPS

-----------------------------------------------------------------------------
(***************************************************************************)
(* The ticket file: each operation yields a well-formed file.              *)
(***************************************************************************)

File == [JobId -> Job]

\* The record that stands for an id without a line is well-formed.
LEMMA NoJobType == NoJob \in Job /\ EmptyFile \in File
  BY DEF NoJob, Job, EmptyFile, File, Status, Terminal, Mode, Timer, Link

\* So is the line of a new ticket.
LEMMA NewJobType ==
  ASSUME NEW mode \in Mode, NEW fireIn \in Nat, NEW parent \in Link
  PROVE  NewJob(mode, fireIn, parent) \in Job
  BY NoJobType DEF NewJob, Job, Status

\* A stamped ticket is well-formed.
LEMMA StampedType ==
  ASSUME NEW job \in Job, NEW target \in Status
  PROVE  Stamped(job, target) \in Job
  BY DEF Stamped, Job, Timer

\* cas_status keeps the file well-formed, whether it wins or not.
LEMMA CasType ==
  ASSUME NEW file \in File, NEW j \in JobId, NEW expected, NEW target \in Status,
         NEW updated \in Job
  PROVE  Cas(file, j, expected, target, updated) \in File
  <1>1. Stamped(updated, target) \in Job
    BY StampedType
  <1>2. QED
    BY <1>1 DEF Cas, File

\* So does update_job_fields.
LEMMA UpdateFieldsType ==
  ASSUME NEW file \in File, NEW j \in JobId, NEW expected, NEW updated \in Job
  PROVE  UpdateFields(file, j, expected, updated) \in File
  BY DEF UpdateFields, File

\* So does regenerate_job.
LEMMA RegenerateType ==
  ASSUME NEW file \in File, NEW old \in JobId, NEW new \in JobId
  PROVE  Regenerate(file, old, new) \in File
  <1>1. NewJob(file[old].mode, file[old].fireIn, old) \in Job
    <2>1. file[old].mode \in Mode /\ file[old].fireIn \in Nat /\ old \in Link
      BY DEF File, Job, Link
    <2>2. QED
      BY <2>1, NewJobType
  <1>2. [file[old] EXCEPT !.status = "regenerated", !.regeneratedTo = new] \in Job
    <2>1. ASSUME NEW job \in Job
          PROVE  [job EXCEPT !.status = "regenerated", !.regeneratedTo = new] \in Job
      BY DEF Job, Status, Terminal, Link
    <2>2. QED
      BY <2>1 DEF File
  <1>3. QED
    BY <1>1, <1>2 DEF Regenerate, File

\* And so does time.
LEMMA AgedType ==
  ASSUME NEW file \in File
  PROVE  AgedFile(file) \in File
  <1>1. ASSUME NEW t \in Timer PROVE CountDown(t) \in Timer /\ CountUp(t) \in Timer
    BY QueueAssumption DEF CountDown, CountUp, Timer
  <1>2. ASSUME NEW t \in Nat PROVE CountDown(t) \in Nat
    BY QueueAssumption DEF CountDown
  <1>3. ASSUME NEW job \in Job PROVE Aged(job) \in Job
    BY <1>1, <1>2 DEF Aged, Job
  <1>4. QED
    BY <1>3 DEF AgedFile, File

\* The updates the tasks and the bot apply keep a ticket well-formed.
LEMMA UpdateTypes ==
  ASSUME NEW job \in Job
  PROVE  /\ [job EXCEPT !.article = TRUE] \in Job
         /\ [job EXCEPT !.marker = TRUE] \in Job
         /\ [job EXCEPT !.postUrl = TRUE] \in Job
         /\ [job EXCEPT !.notifyPending = TRUE] \in Job
         /\ [job EXCEPT !.notifyPending = FALSE] \in Job
         /\ [job EXCEPT !.previewPending = FALSE] \in Job
         /\ [job EXCEPT !.attempts = @ + 1] \in Job
         /\ Scored(job) \in Job
         /\ Recovered(job) \in Job
  <1>1. Scored(job) \in Job
    BY PublisherAssumption DEF Scored, Job, Timer
  <1>2. Recovered(job) \in Job
    BY DEF Recovered, Job, Status
  <1>3. [job EXCEPT !.attempts = @ + 1] \in Job
    BY DEF Job
  <1>4. \A b \in BOOLEAN : /\ [job EXCEPT !.article = b] \in Job
                           /\ [job EXCEPT !.marker = b] \in Job
                           /\ [job EXCEPT !.postUrl = b] \in Job
    BY DEF Job
  <1>5. \A b \in BOOLEAN : /\ [job EXCEPT !.notifyPending = b] \in Job
                           /\ [job EXCEPT !.previewPending = b] \in Job
    BY DEF Job
  <1>6. QED
    BY <1>1, <1>2, <1>3, <1>4, <1>5

\* So does _mark_failed.
LEMMA MarkFailedType ==
  ASSUME jobs \in File, NEW j \in JobId, NEW current
  PROVE  MarkFailed(j, current) \in File
  BY CasType, UpdateTypes DEF MarkFailed, File, Status, Terminal

\* And so does _record_failure.
LEMMA FailureRecordedType ==
  ASSUME jobs \in File, NEW j \in JobId, NEW seen
  PROVE  FailureRecorded(j, seen) \in File
  <1> DEFINE tried == [jobs[j] EXCEPT !.attempts = @ + 1]
  <1>1. tried \in Job /\ [tried EXCEPT !.notifyPending = TRUE] \in Job
    BY UpdateTypes DEF File
  <1> HIDE DEF tried
  <1>2. FailureRecorded(j, seen) \in
          {Cas(jobs, j, "published", "attest-pending", tried),
           Cas(jobs, j, "attest-pending", "attest-failed",
               [tried EXCEPT !.notifyPending = TRUE]),
           UpdateFields(jobs, j, "attest-pending", tried)}
    BY DEF FailureRecorded, tried
  <1>3. QED
    BY <1>1, <1>2, CasType, UpdateFieldsType DEF Status, Terminal

-----------------------------------------------------------------------------
(***************************************************************************)
(* Type correctness.                                                       *)
(***************************************************************************)

\* Between its awaits and its steps the poll task names the job it is on.
PollHasJob == poll.pc \notin {"idle", "next"} => poll.job \in JobId

TypeInv == TypeOK /\ PollHasJob

PollType ==
    [pc : {"idle", "next", "mkdir", "spawn", "analyze", "auto",
           "campaign", "record", "record-failure"},
     job : Link, queued : SUBSET JobId, publishing : SUBSET JobId]

\* Going on with a tick keeps the poll task well-formed.
LEMMA PollGoesOnType ==
  ASSUME NEW queued \in SUBSET JobId, NEW publishing \in SUBSET JobId,
         PollGoesOn(queued, publishing)
  PROVE  poll' \in PollType /\ PollHasJob'
  BY DEF PollGoesOn, PollIdle, PollType, PollHasJob, Link

\* And the checker.
LEMMA CheckerGoesOnType ==
  ASSUME NEW expired \in SUBSET JobId, NEW retry \in SUBSET JobId,
         CheckerGoesOn(expired, retry)
  PROVE  checker' \in [pc : {"idle", "next", "sign"},
                       expired : SUBSET JobId, retry : SUBSET JobId]
  BY DEF CheckerGoesOn, CheckerIdle

\* The initial states have the types.
LEMMA TypeInit == Init => TypeInv
  BY NoJobType, QueueAssumption, PublisherAssumption
     DEF Init, TypeInv, TypeOK, PollHasJob, PollIdle, CheckerIdle, GcIdle, NoCall,
         File, Link, Timer, JobId, Caller

\* The steps of queue-poll.
LEMMA TypePoll == TypeInv /\ PollStep => TypeInv'
  <1> SUFFICES ASSUME TypeInv, PollStep
               PROVE  TypeInv'
    OBVIOUS
  <1> USE DEF TypeInv
  <1>f. jobs \in File /\ poll \in PollType
    BY DEF TypeOK, File, PollType
  <1>1. ASSUME PollTick PROVE TypeInv'
    <2>1. poll' \in PollType /\ PollHasJob'
      BY <1>1, PollGoesOnType DEF PollTick
    <2>2. QED
      BY <1>1, <2>1 DEF PollTick, TypeOK, PollType, disk, channel
  <1>2. ASSUME NEW j \in JobId, PollClaim(j) PROVE TypeInv'
    <2>1. jobs' \in File
      BY <1>2, <1>f, CasType DEF PollClaim, File, Status
    <2>2. poll' \in PollType /\ PollHasJob'
      <3>1. CASE CasWins(jobs, j, "queued", "writing")
        BY <1>2, <1>f, <3>1 DEF PollClaim, PollType, PollHasJob, Link
      <3>2. CASE ~CasWins(jobs, j, "queued", "writing")
        BY <1>2, <1>f, <3>2, PollGoesOnType DEF PollClaim, PollType
      <3>3. QED
        BY <3>1, <3>2
    <2>3. QED
      BY <1>2, <2>1, <2>2 DEF PollClaim, TypeOK, PollType, File, disk, channel
  <1>3. ASSUME PollMkdir \/ PollMkdirFails PROVE TypeInv'
    BY <1>3 DEF PollMkdir, PollMkdirFails, TypeOK, PollHasJob, PollIdle, Link, disk, channel
  <1>4. ASSUME SpawnSucceeds PROVE TypeInv'
    <2>1. jobs' \in File
      BY <1>4, <1>f, CasType, UpdateTypes DEF SpawnSucceeds, PollHasJob, File, Status
    <2>2. poll' \in PollType /\ PollHasJob'
      <3>1. CASE CasWins(jobs, poll.job, "writing", "scoring")
        BY <1>4, <1>f, <3>1 DEF SpawnSucceeds, PollType, PollHasJob
      <3>2. CASE ~CasWins(jobs, poll.job, "writing", "scoring")
        BY <1>4, <1>f, <3>2, PollGoesOnType DEF SpawnSucceeds, PollContinues, PollType
      <3>3. QED
        BY <3>1, <3>2
    <2>3. QED
      BY <1>4, <2>1, <2>2 DEF SpawnSucceeds, TypeOK, PollType, File, disk, channel
  <1>5. ASSUME SpawnFails \/ ScoreFails PROVE TypeInv'
    <2>1. poll.job \in JobId /\ (\E current : jobs' = MarkFailed(poll.job, current))
      BY <1>5 DEF SpawnFails, ScoreFails, PollHasJob
    <2>2. jobs' \in File
      BY <2>1, <1>f, MarkFailedType
    <2>3. poll' \in PollType /\ PollHasJob'
      BY <1>5, <1>f, PollGoesOnType DEF SpawnFails, ScoreFails, PollContinues, PollType
    <2>4. QED
      BY <1>5, <2>2, <2>3 DEF SpawnFails, ScoreFails, TypeOK, PollType, File, disk, channel
  <1>6. ASSUME ScoreSucceeds PROVE TypeInv'
    <2>1. jobs' \in File
      BY <1>6, <1>f, CasType, UpdateTypes DEF ScoreSucceeds, PollHasJob, File, Status
    <2>2. poll' \in PollType /\ PollHasJob'
      <3>1. CASE poll' = [poll EXCEPT !.pc = "auto"]
        BY <1>6, <1>f, <3>1 DEF ScoreSucceeds, PollType, PollHasJob
      <3>2. CASE PollContinues
        BY <1>f, <3>2, PollGoesOnType DEF PollContinues, PollType
      <3>3. QED
        BY <1>6, <3>1, <3>2 DEF ScoreSucceeds
    <2>3. QED
      BY <1>6, <2>1, <2>2 DEF ScoreSucceeds, TypeOK, PollType, File, disk, channel
  <1>7. ASSUME AutoPublish \/ PublishRecord \/ PublishRecordFailure PROVE TypeInv'
    <2>1. jobs' \in File
      <3>1. CASE AutoPublish
        BY <3>1, <1>f, CasType DEF AutoPublish, PollHasJob, File, Status
      <3>2. CASE PublishRecord
        BY <3>2, <1>f, CasType, UpdateTypes DEF PublishRecord, PollHasJob, File, Status
      <3>3. CASE PublishRecordFailure
        BY <3>3, <1>f, CasType, UpdateTypes
           DEF PublishRecordFailure, PollHasJob, File, Status, Terminal
      <3>4. QED
        BY <1>7, <3>1, <3>2, <3>3
    <2>2. poll' \in PollType /\ PollHasJob'
      BY <1>7, <1>f, PollGoesOnType
         DEF AutoPublish, PublishRecord, PublishRecordFailure, PollContinues, PollType
    <2>3. QED
      BY <1>7, <2>1, <2>2
         DEF AutoPublish, PublishRecord, PublishRecordFailure, TypeOK, PollType, File,
             disk, channel
  <1>8. ASSUME NEW j \in JobId, PublishRefuse(j) PROVE TypeInv'
    <2>1. jobs' \in File
      BY <1>8, <1>f, CasType, UpdateTypes DEF PublishRefuse, File, Status, Terminal
    <2>2. poll' \in PollType /\ PollHasJob'
      BY <1>8, <1>f, PollGoesOnType DEF PublishRefuse, PollType
    <2>3. QED
      BY <1>8, <2>1, <2>2 DEF PublishRefuse, TypeOK, PollType, File, disk, channel
  <1>9. ASSUME NEW j \in JobId, PublishMark(j) PROVE TypeInv'
    <2>1. jobs' \in File
      BY <1>9, <1>f, UpdateFieldsType, UpdateTypes DEF PublishMark, File
    <2>2. poll' \in PollType /\ PollHasJob'
      BY <1>9, <1>f DEF PublishMark, PollType, PollHasJob, Link
    <2>3. QED
      BY <1>9, <2>1, <2>2 DEF PublishMark, TypeOK, PollType, File, disk, channel
  <1>10. ASSUME NEW ok \in BOOLEAN, NEW landed \in BOOLEAN,
                CampaignReturns(ok, landed) \/ CampaignRaises(landed)
         PROVE  TypeInv'
    <2>1. posts' \in [JobId -> 0 .. 2] /\ postedAge' \in [JobId -> Timer]
      BY <1>10 DEF CampaignReturns, CampaignRaises, Appears, TypeOK, Timer, channel
    <2>2. poll' \in PollType /\ PollHasJob'
      BY <1>10, <1>f DEF CampaignReturns, CampaignRaises, PollIdle, PollType, PollHasJob, Link
    <2>3. QED
      BY <1>10, <2>1, <2>2 DEF CampaignReturns, CampaignRaises, TypeOK, PollType, disk
  <1>11. QED
    BY <1>1, <1>2, <1>3, <1>4, <1>5, <1>6, <1>7, <1>8, <1>9, <1>10 DEF PollStep

CheckerType ==
    [pc : {"idle", "next", "sign"}, expired : SUBSET JobId, retry : SUBSET JobId]

AttestType ==
    [Caller -> [job : Link, seen : {"absent", "published", "attest-pending"}]]

GcType ==
    [pc : {"idle", "archive", "rmtree", "rewrite"}, job : Link,
     todo : SUBSET JobId, remove : SUBSET JobId, file : [JobId -> Job]]

\* The steps of deadline-checker, and the end of an attestation.
LEMMA TypeChecker == TypeInv /\ (CheckerStep \/ AttestStep) => TypeInv'
  <1> SUFFICES ASSUME TypeInv, CheckerStep \/ AttestStep
               PROVE  TypeInv'
    OBVIOUS
  <1> USE DEF TypeInv
  <1>f. jobs \in File /\ checker \in CheckerType /\ attest \in AttestType
    BY DEF TypeOK, File, CheckerType, AttestType
  <1>b. ASSUME NEW c \in Caller, NEW j \in JobId, AttestBegins(c, j), Attestable(jobs[j])
        PROVE  attest' \in AttestType
    <2>1. [job |-> j, seen |-> jobs[j].status]
            \in [job : Link, seen : {"absent", "published", "attest-pending"}]
      BY <1>b DEF Attestable, Link
    <2>2. QED
      BY <1>b, <1>f, <2>1 DEF AttestBegins, AttestType
  <1>e. ASSUME NEW c \in Caller, AttestEnds(c)
        PROVE  attest' \in AttestType /\ checker' \in CheckerType
    <2>1. NoCall \in [job : Link, seen : {"absent", "published", "attest-pending"}]
      BY DEF NoCall, Link
    <2>2. attest' \in AttestType
      BY <1>e, <1>f, <2>1 DEF AttestEnds, AttestType
    <2>3. checker' \in CheckerType
      <3>1. CASE c = "checker"
        BY <1>e, <1>f, <3>1, CheckerGoesOnType DEF AttestEnds, CheckerType
      <3>2. CASE c # "checker"
        BY <1>e, <1>f, <3>2 DEF AttestEnds
      <3>3. QED
        BY <3>1, <3>2
    <2>4. QED
      BY <2>2, <2>3
  <1>1. ASSUME CheckerTick PROVE TypeInv'
    <2>1. checker' \in CheckerType
      BY <1>1, CheckerGoesOnType DEF CheckerTick, CheckerType
    <2>2. QED
      BY <1>1, <2>1 DEF CheckerTick, TypeOK, PollHasJob, CheckerType, disk, channel
  <1>2. ASSUME NEW j \in JobId, CheckerExpire(j) PROVE TypeInv'
    <2>1. jobs' \in File
      BY <1>2, <1>f, CasType DEF CheckerExpire, File, Status
    <2>2. checker' \in CheckerType
      BY <1>2, <1>f, CheckerGoesOnType DEF CheckerExpire, CheckerType
    <2>3. QED
      BY <1>2, <2>1, <2>2
         DEF CheckerExpire, TypeOK, PollHasJob, CheckerType, File, disk, channel
  <1>3. ASSUME NEW j \in JobId, CheckerAttest(j) PROVE TypeInv'
    <2>1. attest' \in AttestType /\ checker' \in CheckerType
      <3>1. CASE Attestable(jobs[j])
        <4>1. attest' \in AttestType
          BY <1>3, <1>b, <3>1 DEF CheckerAttest, Caller
        <4>2. checker' \in CheckerType
          BY <1>3, <1>f, <3>1 DEF CheckerAttest, CheckerType
        <4>3. QED
          BY <4>1, <4>2
      <3>2. CASE ~Attestable(jobs[j])
        BY <1>3, <1>f, <3>2, CheckerGoesOnType DEF CheckerAttest, CheckerType
      <3>3. QED
        BY <3>1, <3>2
    <2>2. QED
      BY <1>3, <2>1
         DEF CheckerAttest, TypeOK, PollHasJob, CheckerType, AttestType, disk, channel
  <1>4. ASSUME NEW j \in JobId, DirectAttest(j) PROVE TypeInv'
    <2>1. attest' \in AttestType
      BY <1>4, <1>b DEF DirectAttest, Caller
    <2>2. QED
      BY <1>4, <2>1 DEF DirectAttest, TypeOK, PollHasJob, AttestType, disk, channel
  <1>5. ASSUME NEW c \in Caller, AttestSucceeds(c) \/ AttestFails(c) PROVE TypeInv'
    <2>0. attest[c].job \in JobId
      BY <1>5, <1>f DEF AttestSucceeds, AttestFails, AttestType, Link
    <2>1. jobs' \in File
      <3>1. CASE AttestSucceeds(c)
        BY <3>1, <2>0, <1>f, CasType, UpdateTypes DEF AttestSucceeds, File, Status, Terminal
      <3>2. CASE AttestFails(c)
        BY <3>2, <2>0, <1>f, FailureRecordedType DEF AttestFails
      <3>3. QED
        BY <1>5, <3>1, <3>2
    <2>2. attest' \in AttestType /\ checker' \in CheckerType
      BY <1>5, <1>e DEF AttestSucceeds, AttestFails
    <2>3. QED
      BY <1>5, <2>1, <2>2
         DEF AttestSucceeds, AttestFails, TypeOK, PollHasJob, CheckerType, AttestType,
             File, disk, channel
  <1>6. QED
    BY <1>1, <1>2, <1>3, <1>4, <1>5 DEF CheckerStep, AttestStep

\* The steps of cleanup-gc.
LEMMA TypeGc == TypeInv /\ GcStep => TypeInv'
  <1> SUFFICES ASSUME TypeInv, GcStep
               PROVE  TypeInv'
    OBVIOUS
  <1> USE DEF TypeInv
  <1>f. jobs \in File /\ gc \in GcType
    BY DEF TypeOK, File, GcType
  <1>1. ASSUME GcTick PROVE TypeInv'
    <2>1. gc' \in GcType
      BY <1>1, <1>f DEF GcTick, GcType, File, Link
    <2>2. QED
      BY <1>1, <2>1 DEF GcTick, TypeOK, PollHasJob, GcType, disk, channel
  <1>2. ASSUME NEW j \in JobId, GcArchive(j) PROVE TypeInv'
    <2>1. gc' \in GcType
      BY <1>2, <1>f DEF GcArchive, GcType, Link
    <2>2. archive' \in [JobId -> 0 .. 2]
      BY <1>2 DEF GcArchive, TypeOK
    <2>3. QED
      BY <1>2, <2>1, <2>2 DEF GcArchive, TypeOK, PollHasJob, GcType, channel
  <1>3. ASSUME NEW removed \in BOOLEAN, GcRmtree(removed) PROVE TypeInv'
    <2>1. gc' \in GcType
      BY <1>3, <1>f DEF GcRmtree, GcType, Link
    <2>2. QED
      BY <1>3, <2>1 DEF GcRmtree, TypeOK, PollHasJob, GcType, channel
  <1>4. ASSUME GcRewrite PROVE TypeInv'
    <2>1. gc' \in GcType
      BY <1>4, NoJobType DEF GcRewrite, GcIdle, GcType, File, Link
    <2>2. jobs' \in File
      BY <1>4, <1>f, NoJobType DEF GcRewrite, GcType, File
    <2>3. QED
      BY <1>4, <2>1, <2>2 DEF GcRewrite, TypeOK, PollHasJob, GcType, File, disk, channel
  <1>5. QED
    BY <1>1, <1>2, <1>3, <1>4 DEF GcStep

\* Crash, restart and time.
LEMMA TypeWorld == TypeInv /\ (Crash \/ Restart \/ Tick) => TypeInv'
  <1> SUFFICES ASSUME TypeInv, Crash \/ Restart \/ Tick
               PROVE  TypeInv'
    OBVIOUS
  <1> USE DEF TypeInv
  <1>f. jobs \in File /\ gc \in GcType
    BY DEF TypeOK, File, GcType
  <1>1. ASSUME Crash PROVE TypeInv'
    <2>1. gc' \in GcType
      BY <1>1, NoJobType DEF Crash, GcIdle, GcType, File, Link
    <2>2. crashes' \in 0 .. MaxCrashes
      BY <1>1, PublisherAssumption DEF Crash, TypeOK
    <2>3. poll' \in PollType /\ PollHasJob'
      BY <1>1 DEF Crash, PollIdle, PollType, PollHasJob, Link
    <2>4. QED
      BY <1>1, <2>1, <2>2, <2>3
         DEF Crash, TypeOK, CheckerIdle, NoCall, Link, GcType, PollType, disk, channel
  <1>2. ASSUME Restart PROVE TypeInv'
    <2>1. jobs' \in File
      BY <1>2, <1>f, UpdateTypes DEF Restart, File
    <2>2. QED
      BY <1>2, <2>1 DEF Restart, TypeOK, PollHasJob, File, disk, channel, task
  <1>3. ASSUME Tick PROVE TypeInv'
    <2>1. jobs' \in File
      BY <1>3, <1>f, AgedType DEF Tick
    <2>2. gc' \in GcType
      <3>1. AgedFile(gc.file) \in File
        BY <1>f, AgedType DEF GcType, File
      <3>2. QED
        BY <1>3, <1>f, <3>1 DEF Tick, GcType, File
    <2>3. postedAge' \in [JobId -> Timer]
      <3>1. ASSUME NEW t \in Timer PROVE CountUp(t) \in Timer
        BY QueueAssumption DEF CountUp, Timer
      <3>2. QED
        BY <1>3, <3>1 DEF Tick, TypeOK
    <2>4. QED
      BY <1>3, <2>1, <2>2, <2>3 DEF Tick, TypeOK, PollHasJob, GcType, File, disk
  <1>4. QED
    BY <1>1, <1>2, <1>3

\* The steps of the bot.
LEMMA TypeBot == TypeInv /\ BotStep => TypeInv'
  <1> SUFFICES ASSUME TypeInv, BotStep
               PROVE  TypeInv'
    OBVIOUS
  <1> USE DEF TypeInv
  <1>f. jobs \in File
    BY DEF TypeOK, File
  <1>n. lastId < MaxJobs => lastId + 1 \in JobId /\ lastId + 1 \in 0 .. MaxJobs
    BY QueueAssumption DEF TypeOK, JobId
  <1>1. ASSUME NEW mode \in Modes, NEW fireIn \in FireDelays, Submit(mode, fireIn)
        PROVE  TypeInv'
    <2>1. NewJob(mode, fireIn, None) \in Job
      BY PublisherAssumption, NewJobType DEF Link
    <2>2. jobs' \in File
      BY <1>1, <1>f, <1>n, <2>1 DEF Submit, AppendJob, File
    <2>3. QED
      BY <1>1, <1>n, <2>2
         DEF Submit, BotUnchanged, TypeOK, PollHasJob, File, disk, channel, task
  <1>2. ASSUME NEW j \in JobId, SendPreview(j) PROVE TypeInv'
    BY <1>2 DEF SendPreview, BotUnchanged, TypeOK, PollHasJob, disk, channel, task
  <1>3. ASSUME NEW j \in JobId, RecordPreview(j) \/ Notify(j) PROVE TypeInv'
    <2>1. jobs' \in File
      <3>1. CASE RecordPreview(j)
        BY <3>1, <1>f, UpdateFieldsType, UpdateTypes DEF RecordPreview, File
      <3>2. CASE Notify(j)
        BY <3>2, <1>f, UpdateFieldsType, UpdateTypes DEF Notify, File
      <3>3. QED
        BY <1>3, <3>1, <3>2
    <2>2. QED
      BY <1>3, <2>1
         DEF RecordPreview, Notify, BotUnchanged, TypeOK, PollHasJob, File, disk,
             channel, task
  <1>4. ASSUME NEW j \in JobId, Approve(j) \/ Reject(j) PROVE TypeInv'
    <2>1. jobs' \in File
      <3>1. CASE Approve(j)
        BY <3>1, <1>f, CasType DEF Approve, Click, File, Status
      <3>2. CASE Reject(j)
        BY <3>2, <1>f, CasType DEF Reject, Click, File, Status, Terminal
      <3>3. QED
        BY <1>4, <3>1, <3>2
    <2>2. QED
      BY <1>4, <2>1
         DEF Approve, Reject, Click, BotUnchanged, TypeOK, PollHasJob, File, disk,
             channel, task
  <1>5. ASSUME NEW j \in JobId, Retry(j) PROVE TypeInv'
    <2>1. jobs' \in File
      BY <1>5, <1>f, <1>n, RegenerateType DEF Retry
    <2>2. QED
      BY <1>5, <1>n, <2>1
         DEF Retry, BotUnchanged, TypeOK, PollHasJob, File, disk, channel, task
  <1>6. QED
    BY <1>1, <1>2, <1>3, <1>4, <1>5 DEF BotStep

\* TypeOK holds in every reachable state: no step of the service, the bot, the
\* clock or a crash puts anything else into the file or a task.
THEOREM TypeCorrect == Spec => []TypeOK
  <1>1. Init => TypeInv
    BY TypeInit
  <1>2. TypeInv /\ [Next]_vars => TypeInv'
    <2>1. TypeInv /\ UNCHANGED vars => TypeInv'
      BY DEF TypeInv, TypeOK, PollHasJob, vars, disk, channel, task
    <2>2. QED
      BY <2>1, TypePoll, TypeChecker, TypeGc, TypeWorld, TypeBot DEF Next
  <1>3. TypeInv => TypeOK
    BY DEF TypeInv
  <1>4. QED
    BY <1>1, <1>2, <1>3, PTL DEF Spec
=============================================================================
