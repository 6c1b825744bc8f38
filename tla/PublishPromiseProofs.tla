------------------------ MODULE PublishPromiseProofs ------------------------
(***************************************************************************)
(* ContentPublisher implements PublishPromise, and shows every preview     *)
(* before it publishes, for every value of its constants.                  *)
(***************************************************************************)
EXTENDS PublishSafetyProofs

-----------------------------------------------------------------------------
(***************************************************************************)
(* Every step is of one of five kinds.                                     *)
(***************************************************************************)

\* No status changes but that of j, from one given value to another.
StatusMove(j, from, to) ==
    \A k \in JobId :
        \/ jobs'[k].status = jobs[k].status
        \/ k = j /\ jobs[k].status = from /\ jobs'[k].status = to

\* One job moves along its state machine, and a move out of the preview or
\* into published has its reason.
Moves ==
    \E j \in JobId, from, to \in Status :
        /\ StatusMove(j, from, to) /\ <<from, to>> \in AllowedTransitions
        /\ lastId' = lastId /\ posts' = posts
        /\ to = "published" /\ jobs[j].status = from => posts[j] > 0
        /\ from = "preview-sent" /\ to = "publishing" /\ jobs[j].status = from
             /\ jobs[j].mode = "approval"
           => j \in shown

\* No job moves; a text may appear, of a job that is being published.
Stays ==
    /\ \A k \in JobId : jobs'[k].status = jobs[k].status
    /\ lastId' = lastId
    /\ \/ posts' = posts
       \/ \E j \in JobId, landed \in BOOLEAN :
             Appears(j, landed) /\ jobs[j].status = "publishing"

\* A ticket is added, in place of another one or not.
Adds ==
    /\ lastId' = lastId + 1 /\ lastId' \in JobId /\ posts' = posts
    /\ jobs'[lastId'].status = "queued"
    /\ \E old \in JobId \cup {None} :
          /\ old # lastId'
          /\ old \in JobId => jobs[old].status = "preview-sent"
                              /\ jobs'[old].status = "regenerated"
          /\ \A k \in JobId \ {old, lastId'} : jobs'[k] = jobs[k]

\* Drafting starts over, or finished tickets are collected.
Restarts ==
    /\ UNCHANGED <<lastId, posts>>
    /\ \A k \in JobId :
          \/ jobs'[k].status = jobs[k].status
          \/ jobs[k].status \in {"writing", "scoring"} /\ jobs'[k].status = "queued"

Collects ==
    /\ UNCHANGED <<lastId, posts>>
    /\ \A k \in JobId :
          \/ jobs'[k].status = jobs[k].status
          \/ /\ k <= lastId
             /\ jobs[k].status \in Terminal /\ jobs'[k].status = "absent"

\* One job goes along an edge of the state graph, with the evidence publication
\* asks for: the step Moves.
LEMMA MovesIntro ==
  ASSUME NEW j \in JobId, NEW from, NEW to, <<from, to>> \in AllowedTransitions,
         JobsMove(j, from, to), lastId' = lastId, posts' = posts,
         to = "published" => posts[j] > 0,
         from = "preview-sent" /\ to = "publishing" /\ jobs[j].status = from
           /\ jobs[j].mode = "approval"
         => j \in shown
  PROVE  Moves
  <1>1. from \in Status /\ to \in Status
    BY DEF AllowedTransitions, Status, Terminal
  <1>2. StatusMove(j, from, to)
    BY DEF StatusMove, JobsMove
  <1>3. QED
    BY <1>1, <1>2 DEF Moves

\* A step that keeps the statuses, the posts and the tickets on file Stays.
LEMMA StaysIntro ==
  ASSUME \A j, from, to : JobsMove(j, from, to), lastId' = lastId, posts' = posts
  PROVE  Stays
  <1>1. JobsMove(None, "absent", "absent")
    OBVIOUS
  <1>2. QED
    BY <1>1 DEF Stays, JobsMove

\* A job that has not moved has not changed for Moves, Stays and the others.
LEMMA SameJobs == jobs' = jobs => \A j, from, to : JobsMove(j, from, to)
  BY DEF JobsMove

\* The drafting steps of queue-poll move one job or nothing.
LEMMA KindPollDraft ==
  ASSUME Inv,
         \/ PollTick \/ \E j \in JobId : PollClaim(j)
         \/ PollMkdir \/ PollMkdirFails \/ SpawnSucceeds \/ SpawnFails
  PROVE  Moves \/ Stays
  <1>1. ASSUME NEW j \in JobId, PollClaim(j) PROVE Moves
    <2>1. JobsMove(j, "queued", "writing")
      BY <1>1, ClaimMoves DEF Inv
    <2>2. lastId' = lastId /\ posts' = posts
      BY <1>1 DEF PollClaim, channel
    <2>3. QED
      BY <2>1, <2>2, MovesIntro DEF AllowedTransitions
  <1>2. ASSUME PollTick \/ PollMkdir \/ PollMkdirFails PROVE Stays
    BY <1>2, SameJobs, StaysIntro DEF PollTick, PollMkdir, PollMkdirFails, channel
  <1>3. ASSUME SpawnSucceeds \/ SpawnFails PROVE Moves
    <2>1. poll.job \in JobId /\ lastId' = lastId /\ posts' = posts /\ jobs \in File
      BY <1>3 DEF SpawnSucceeds, SpawnFails, Inv, TypeInv, TypeOK, PollHasJob, File,
                  channel
    <2>2. CASE SpawnSucceeds
      BY <2>1, <2>2, SpawnMoves, MovesIntro DEF Inv, AllowedTransitions
    <2>3. CASE SpawnFails
      <3>1. JobsMove(poll.job, "writing", "failed")
        BY <2>1, <2>3, MarkFailedMoves DEF SpawnFails
      <3>2. QED
        BY <2>1, <3>1, MovesIntro DEF AllowedTransitions
    <2>4. QED
      BY <1>3, <2>2, <2>3
  <1>4. QED
    BY <1>1, <1>2, <1>3

\* Scoring and auto mode move one job or nothing.
LEMMA KindPollScore ==
  ASSUME Inv, ScoreSucceeds \/ ScoreFails \/ AutoPublish
  PROVE  Moves \/ Stays
  <1>1. poll.job \in JobId /\ lastId' = lastId /\ posts' = posts /\ jobs \in File
    BY DEF ScoreSucceeds, ScoreFails, AutoPublish, Inv, TypeInv, TypeOK, PollHasJob, File,
           channel
  <1>2. CASE ScoreSucceeds
    <2>1. jobs[poll.job] \in Job
      BY <1>1 DEF File
    <2>2. Stamped(Scored(jobs[poll.job]), "preview-sent").status = "preview-sent"
      BY <2>1 DEF Stamped, Scored, Job
    <2>3. StatusMove(poll.job, "scoring", "preview-sent")
      BY <1>1, <1>2, <2>2 DEF ScoreSucceeds, Cas, CasWins, StatusMove, File
    <2>4. QED
      BY <1>1, <2>3 DEF Moves, AllowedTransitions, Status
  <1>3. CASE ScoreFails
    <2>1. JobsMove(poll.job, "scoring", "failed")
      BY <1>1, <1>3, MarkFailedMoves DEF ScoreFails
    <2>2. QED
      BY <1>1, <2>1, MovesIntro DEF AllowedTransitions
  <1>4. CASE AutoPublish
    <2>1. JobsMove(poll.job, "preview-sent", "publishing")
      BY <1>4, AutoMoves DEF Inv
    <2>2. jobs[poll.job].mode = "auto"
      BY <1>4 DEF AutoPublish, Inv, PollWork
    <2>3. QED
      BY <1>1, <2>1, <2>2, MovesIntro DEF AllowedTransitions
  <1>5. QED
    BY <1>2, <1>3, <1>4

\* The publishing steps move one job, or leave the stages alone while the text of
\* a job in publishing may appear.
LEMMA KindPublish ==
  ASSUME Inv,
         \/ \E j \in JobId : PublishRefuse(j) \/ PublishMark(j)
         \/ \E ok, landed \in BOOLEAN : CampaignReturns(ok, landed)
         \/ \E landed \in BOOLEAN : CampaignRaises(landed)
         \/ PublishRecord \/ PublishRecordFailure
  PROVE  Moves \/ Stays
  <1>f. jobs \in File
    BY DEF Inv, TypeInv, TypeOK, File
  <1>1. ASSUME NEW j \in JobId, PublishRefuse(j) PROVE Moves
    BY <1>1, RefuseMoves, MovesIntro DEF PublishRefuse, Inv, AllowedTransitions, channel
  <1>2. ASSUME NEW j \in JobId, PublishMark(j) PROVE Stays
    <2>1. [jobs[j] EXCEPT !.marker = TRUE].status = jobs[j].status
      BY <1>f DEF File, Job
    <2>2. \A k \in JobId : jobs'[k].status = jobs[k].status
      BY <1>2, <1>f, <2>1 DEF PublishMark, UpdateFields, File
    <2>3. QED
      BY <1>2, <2>2 DEF PublishMark, Stays, channel
  <1>3. ASSUME NEW ok \in BOOLEAN, NEW landed \in BOOLEAN,
               CampaignReturns(ok, landed) \/ CampaignRaises(landed)
        PROVE  Stays
    <2>1. poll.pc = "campaign" /\ Appears(poll.job, landed) /\ UNCHANGED <<jobs, lastId>>
      BY <1>3 DEF CampaignReturns, CampaignRaises
    <2>2. poll.job \in JobId /\ jobs[poll.job].status = "publishing"
      BY <2>1 DEF Inv, TypeInv, PollHasJob, PollWork
    <2>3. QED
      BY <2>1, <2>2 DEF Stays
  <1>4. ASSUME PublishRecord \/ PublishRecordFailure PROVE Moves
    <2>1. poll.job \in JobId /\ lastId' = lastId /\ posts' = posts
      BY <1>4 DEF PublishRecord, PublishRecordFailure, Inv, TypeInv, PollHasJob, channel
    <2>2. CASE PublishRecord
      <3>1. posts[poll.job] > 0 /\ JobsMove(poll.job, "publishing", "published")
        BY <2>2, RecordMoves DEF PublishRecord, Inv, PollWork
      <3>2. QED
        BY <2>1, <3>1, MovesIntro DEF AllowedTransitions
    <2>3. CASE PublishRecordFailure
      BY <2>1, <2>3, RecordMoves, MovesIntro DEF Inv, AllowedTransitions
    <2>4. QED
      BY <1>4, <2>2, <2>3
  <1>5. QED
    BY <1>1, <1>2, <1>3, <1>4

\* The steps of the deadline-checker move one job or nothing.
LEMMA KindChecker ==
  ASSUME Inv, CheckerStep \/ AttestStep
  PROVE  Moves \/ Stays
  <1>1. ASSUME CheckerTick \/ \E j \in JobId : CheckerAttest(j) \/ DirectAttest(j)
        PROVE  Stays
    BY <1>1, SameJobs, StaysIntro DEF CheckerTick, CheckerAttest, DirectAttest, channel
  <1>2. ASSUME NEW j \in JobId, CheckerExpire(j) PROVE Moves
    <2>1. JobsMove(j, "preview-sent", "publishing")
      BY <1>2, ExpireMoves DEF Inv
    <2>2. jobs[j].status = "preview-sent" /\ jobs[j].mode = "approval" => j \in shown
      BY <1>2 DEF CheckerExpire, Inv, Book, Expiring, Seen
    <2>3. QED
      BY <1>2, <2>1, <2>2, MovesIntro DEF CheckerExpire, AllowedTransitions, channel
  <1>3. ASSUME NEW c \in Caller, AttestSucceeds(c) \/ AttestFails(c) PROVE Moves
    <2>1. attest[c].job \in JobId /\ lastId' = lastId /\ posts' = posts
      BY <1>3 DEF AttestSucceeds, AttestFails, Inv, TypeInv, TypeOK, Link, channel
    <2>2. PICK from \in {"published", "attest-pending"},
               to \in {"done", "attest-pending", "attest-failed"} :
             <<from, to>> \in AllowedTransitions /\ JobsMove(attest[c].job, from, to)
      BY <1>3, AttestMoves DEF Inv
    <2>3. QED
      BY <2>1, <2>2, MovesIntro
  <1>4. QED
    BY <1>1, <1>2, <1>3 DEF CheckerStep, AttestStep

\* The steps of cleanup-gc leave the stages alone, or collect terminal jobs.
LEMMA KindGc ==
  ASSUME Inv, GcStep
  PROVE  Stays \/ Collects
  <1>1. ASSUME \/ GcTick \/ \E j \in JobId : GcArchive(j)
               \/ \E removed \in BOOLEAN : GcRmtree(removed)
        PROVE  Stays
    BY <1>1, SameJobs, StaysIntro DEF GcTick, GcArchive, GcRmtree, channel
  <1>2. ASSUME GcRewrite PROVE Collects
    <2>1. \A k \in JobId : jobs'[k] = IF k \in gc.remove THEN NoJob ELSE jobs[k]
      BY <1>2 DEF GcRewrite, Inv, GcView
    <2>2. \A k \in gc.remove : jobs[k].status \in Terminal
      BY <1>2 DEF GcRewrite, Inv, GcView
    <2>3. \A k \in JobId : jobs[k].status \in Terminal => k <= lastId
      BY DEF Inv, TypeInv, TypeOK, Book, Fresh, Terminal, JobId
    <2>4. NoJob.status = "absent"
      BY DEF NoJob
    <2>5. QED
      BY <1>2, <2>1, <2>2, <2>3, <2>4 DEF GcRewrite, Collects, channel
  <1>3. QED
    BY <1>1, <1>2 DEF GcStep

\* A crash and time leave the stages alone; a restart recovers.
LEMMA KindWorld ==
  ASSUME Inv, Crash \/ Restart \/ Tick
  PROVE  Stays \/ Restarts
  <1>f. jobs \in File
    BY DEF Inv, TypeInv, TypeOK, File
  <1>1. CASE Crash
    BY <1>1, SameJobs, StaysIntro DEF Crash, channel
  <1>2. CASE Tick
    BY <1>2, <1>f, AgedMoves, StaysIntro DEF Tick
  <1>3. CASE Restart
    <2>1. ASSUME NEW job \in Job
          PROVE  \/ Recovered(job) = job
                 \/ job.status \in {"writing", "scoring"}
                      /\ Recovered(job).status = "queued"
      BY DEF Recovered, Job
    <2>2. QED
      BY <1>3, <1>f, <2>1 DEF Restart, Restarts, File, channel
  <1>4. QED
    BY <1>1, <1>2, <1>3

\* The bot's calls move one job, add one, or touch fields only.
LEMMA KindBot ==
  ASSUME Inv, BotStep
  PROVE  Moves \/ Stays \/ Adds
  <1>f. jobs \in File /\ lastId \in 0 .. MaxJobs
    BY DEF Inv, TypeInv, TypeOK, File
  <1>n. lastId < MaxJobs => lastId + 1 \in JobId
    BY <1>f, QueueAssumption DEF JobId
  <1>1. ASSUME NEW mode \in Modes, NEW fireIn \in FireDelays, Submit(mode, fireIn)
        PROVE  Adds
    <2> DEFINE n == lastId + 1
    <2>1. n \in JobId /\ lastId' = n /\ posts' = posts
          /\ jobs' = [jobs EXCEPT ![n] = NewJob(mode, fireIn, None)]
      BY <1>1, <1>n DEF Submit, AppendJob, BotUnchanged, channel
    <2>2. NewJob(mode, fireIn, None).status = "queued"
      BY DEF NewJob, NoJob
    <2>3. jobs'[n].status = "queued" /\ \A k \in JobId \ {None, n} : jobs'[k] = jobs[k]
      BY <1>f, <2>1, <2>2 DEF File
    <2>4. None \notin JobId
      BY QueueAssumption DEF JobId
    <2>5. QED
      BY <2>1, <2>3, <2>4 DEF Adds
  <1>2. ASSUME NEW j \in JobId, Retry(j) PROVE Adds
    <2> DEFINE n == lastId + 1
    <2> DEFINE closed == [jobs[j] EXCEPT !.status = "regenerated", !.regeneratedTo = n]
    <2> DEFINE added == NewJob(jobs[j].mode, jobs[j].fireIn, j)
    <2>1. n \in JobId /\ lastId' = n /\ posts' = posts /\ jobs[j].status = "preview-sent"
          /\ jobs' = [jobs EXCEPT ![j] = closed, ![n] = added]
      BY <1>2, <1>n DEF Retry, Regenerate, CasWins, BotUnchanged, channel
    <2>2. closed.status = "regenerated" /\ added.status = "queued"
      BY <1>f DEF NewJob, NoJob, File, Job
    <2>3. j # n
      BY <1>f, <2>1 DEF Inv, Book, Fresh
    <2> HIDE DEF closed, added
    <2>4. jobs'[n] = added /\ jobs'[j] = closed
          /\ \A k \in JobId \ {j, n} : jobs'[k] = jobs[k]
      BY <1>f, <2>1, <2>3 DEF File
    <2>5. QED
      BY <2>1, <2>2, <2>3, <2>4 DEF Adds
  <1>3. ASSUME NEW j \in JobId, SendPreview(j) PROVE Stays
    BY <1>3, SameJobs, StaysIntro DEF SendPreview, BotUnchanged, channel
  <1>4. ASSUME NEW j \in JobId, RecordPreview(j) \/ Notify(j) PROVE Stays
    <2>1. \E new \in {[jobs[j] EXCEPT !.previewPending = FALSE],
                      [jobs[j] EXCEPT !.notifyPending = FALSE]} :
             jobs' = jobs \/ jobs' = [jobs EXCEPT ![j] = new]
      BY <1>4 DEF RecordPreview, Notify, UpdateFields
    <2>2. /\ [jobs[j] EXCEPT !.previewPending = FALSE].status = jobs[j].status
          /\ [jobs[j] EXCEPT !.notifyPending = FALSE].status = jobs[j].status
      BY <1>f DEF File, Job
    <2>3. \A k \in JobId : jobs'[k].status = jobs[k].status
      BY <1>f, <2>1, <2>2 DEF File
    <2>4. QED
      BY <1>4, <2>3 DEF RecordPreview, Notify, BotUnchanged, Stays, channel
  <1>5. ASSUME NEW j \in JobId, Approve(j) \/ Reject(j) PROVE Moves
    <2>1. PICK to \in {"publishing", "rejected"} : Click(j, to)
      BY <1>5 DEF Approve, Reject
    <2>2. JobsMove(j, "preview-sent", to)
      BY <2>1, ClickMoves DEF Inv
    <2>3. lastId' = lastId /\ posts' = posts /\ j \in shown
      BY <2>1 DEF Click, BotUnchanged, channel
    <2>4. QED
      BY <2>2, <2>3, MovesIntro DEF AllowedTransitions
  <1>6. QED
    BY <1>1, <1>2, <1>3, <1>4, <1>5 DEF BotStep

\* Every step is of one of the five kinds.
LEMMA Kinds == Inv /\ Next => Moves \/ Stays \/ Adds \/ Restarts \/ Collects
  BY KindPollDraft, KindPollScore, KindPublish, KindChecker, KindGc, KindWorld, KindBot
     DEF Next, PollStep

-----------------------------------------------------------------------------
(***************************************************************************)
(* No preview is skipped.                                                  *)
(***************************************************************************)

\* An approval-mode job is published only after the operator could see its
\* preview, however the click, the deadline, the bot and a crash interleave.
THEOREM NoBlindPublishHolds == Spec => NoBlindPublish
  <1> DEFINE Step ==
        \A j \in JobId :
          /\ jobs[j].status = "preview-sent" /\ jobs'[j].status = "publishing"
          /\ jobs[j].mode = "approval"
          => j \in shown
  <1>1. Inv /\ Next => Step
    <2>1. Moves => Step
      BY DEF Moves, StatusMove
    <2>2. Stays \/ Restarts \/ Collects => Step
      BY DEF Stays, Restarts, Collects, Terminal
    <2>3. Adds => Step
      BY DEF Adds
    <2>4. QED
      BY <2>1, <2>2, <2>3, Kinds
  <1>2. Inv /\ [Next]_vars => [Step]_vars
    BY <1>1
  <1>3. QED
    BY <1>2, Invariance, PTL DEF Spec, NoBlindPublish

-----------------------------------------------------------------------------
(***************************************************************************)
(* The implementation of PublishPromise.                                   *)
(***************************************************************************)

\* A job stays at its stage if its status does, and no id was handed out.
LEMMA SameStage ==
  ASSUME lastId' = lastId, NEW k, jobs'[k].status = jobs[k].status
  PROVE  StageOf(k)' = StageOf(k)
  BY DEF StageOf

\* A step that Moves is a step of the promise, or a stutter.
LEMMA PromiseMoves == Inv /\ Moves => [Promise!Next]_(Promise!vars)
  <1> SUFFICES ASSUME Inv, Moves PROVE [Promise!Next]_(Promise!vars)
    OBVIOUS
  <1>1. PICK j \in JobId, from \in Status, to \in Status :
          /\ StatusMove(j, from, to) /\ <<from, to>> \in AllowedTransitions
          /\ lastId' = lastId /\ posts' = posts
          /\ to = "published" /\ jobs[j].status = from => posts[j] > 0
    BY DEF Moves
  <1>2. {k \in JobId : posts[k] > 0}' = {k \in JobId : posts[k] > 0}
    BY <1>1
  <1>3. CASE \A k \in JobId : jobs'[k].status = jobs[k].status
    <2>1. \A k \in JobId : StageOf(k)' = StageOf(k)
      BY <1>1, <1>3 DEF StageOf
    <2>2. QED
      BY <1>2, <2>1 DEF Promise!vars
  <1>4. CASE jobs[j].status = from /\ jobs'[j].status = to
    <2> DEFINE st == [k \in JobId |-> StageOf(k)]
    <2>1. \A k \in JobId \ {j} : StageOf(k)' = StageOf(k)
      BY <1>1 DEF StatusMove, StageOf
    <2>2. st' = [st EXCEPT ![j] = StageOf(j)']
      BY <2>1
    <2>3. CASE StageOf(j)' = StageOf(j)
      BY <1>2, <2>1, <2>3 DEF Promise!vars
    <2>4. CASE <<from, to>> \in {<<"queued", "failed">>, <<"writing", "failed">>,
                                 <<"scoring", "failed">>,
                                 <<"publishing", "publish-failed">>}
      <3>1. StageOf(j) \in {"drafting", "approved"} /\ StageOf(j)' = "closed"
        BY <1>4, <2>4 DEF StageOf, Terminal
      <3>2. Promise!GiveUp(j)
        BY <1>2, <2>2, <3>1 DEF Promise!GiveUp, Promise!Move
      <3>3. QED
        BY <3>2 DEF Promise!Next
    <2>5. CASE from = "scoring" /\ to = "preview-sent"
      <3>1. StageOf(j) = "drafting" /\ StageOf(j)' = "review"
        BY <1>4, <2>5 DEF StageOf, Terminal
      <3>2. Promise!Offer(j)
        BY <1>2, <2>2, <3>1 DEF Promise!Offer, Promise!Move
      <3>3. QED
        BY <3>2 DEF Promise!Next
    <2>6. CASE from = "preview-sent" /\ to = "publishing"
      <3>1. StageOf(j) = "review" /\ StageOf(j)' = "approved"
        BY <1>4, <2>6 DEF StageOf, Terminal
      <3>2. Promise!Approve(j)
        BY <1>2, <2>2, <3>1 DEF Promise!Approve, Promise!Move
      <3>3. QED
        BY <3>2 DEF Promise!Next
    <2>7. CASE from = "preview-sent" /\ to \in {"rejected", "regenerated"}
      <3>1. StageOf(j) = "review" /\ StageOf(j)' = "closed"
        BY <1>4, <2>7 DEF StageOf, Terminal
      <3>2. Promise!Decline(j)
        BY <1>2, <2>2, <3>1 DEF Promise!Decline, Promise!Move
      <3>3. QED
        BY <3>2 DEF Promise!Next
    <2>8. CASE from = "publishing" /\ to = "published"
      <3>1. StageOf(j) = "approved" /\ StageOf(j)' = "live" /\ posts[j] > 0
        BY <1>1, <1>4, <2>8 DEF StageOf, Terminal
      <3>2. Promise!Confirm(j)
        BY <1>2, <2>2, <3>1 DEF Promise!Confirm, Promise!Move
      <3>3. QED
        BY <3>2 DEF Promise!Next
    <2>9. CASE from \in {"published", "attest-pending"} /\ to \in {"done", "attest-failed"}
      <3>1. StageOf(j) = "live" /\ StageOf(j)' = "closed"
        BY <1>4, <2>9 DEF StageOf, Terminal
      <3>2. Promise!Settle(j)
        BY <1>2, <2>2, <3>1 DEF Promise!Settle, Promise!Move
      <3>3. QED
        BY <3>2 DEF Promise!Next
    <2>10. CASE <<from, to>> \in {<<"queued", "writing">>, <<"writing", "scoring">>,
                                  <<"published", "attest-pending">>}
      <3>1. StageOf(j)' = StageOf(j)
        BY <1>4, <2>10 DEF StageOf, Terminal
      <3>2. QED
        BY <2>3, <3>1
    <2>11. QED
      BY <1>1, <2>4, <2>5, <2>6, <2>7, <2>8, <2>9, <2>10 DEF AllowedTransitions
  <1>5. QED
    BY <1>1, <1>3, <1>4 DEF StatusMove

\* A step that Stays is a stutter of the promise, or the appearance of a text.
LEMMA PromiseStays == Inv /\ Stays => [Promise!Next]_(Promise!vars)
  <1> SUFFICES ASSUME Inv, Stays PROVE [Promise!Next]_(Promise!vars)
    OBVIOUS
  <1>f. posts \in [JobId -> 0 .. 2]
    BY DEF Inv, TypeInv, TypeOK
  <1>1. \A k \in JobId : StageOf(k)' = StageOf(k)
    BY DEF Stays, StageOf
  <1>2. CASE posts' = posts
    BY <1>1, <1>2 DEF Promise!vars
  <1>3. ASSUME NEW j \in JobId, NEW landed \in BOOLEAN, Appears(j, landed),
               jobs[j].status = "publishing"
        PROVE  [Promise!Next]_(Promise!vars)
    <2>1. CASE landed
      <3>1. {k \in JobId : posts[k] > 0}' = {k \in JobId : posts[k] > 0} \cup {j}
        BY <1>f, <1>3, <2>1 DEF Appears
      <3>2. StageOf(j) = "approved"
        BY <1>3 DEF StageOf, Terminal
      <3>3. Promise!Post(j)
        BY <1>1, <3>1, <3>2 DEF Promise!Post
      <3>4. QED
        BY <3>3 DEF Promise!Next
    <2>2. CASE ~landed
      BY <1>2, <1>3, <2>2 DEF Appears, channel
    <2>3. QED
      BY <2>1, <2>2
  <1>4. QED
    BY <1>2, <1>3 DEF Stays

\* A step that Adds submits briefs, and closes the one that is replaced.
LEMMA PromiseAdds == Inv /\ Adds => [Promise!Next]_(Promise!vars)
  <1> SUFFICES ASSUME Inv, Adds PROVE [Promise!Next]_(Promise!vars)
    OBVIOUS
  <1> DEFINE st == [k \in JobId |-> StageOf(k)]
  <1>0. PICK n \in JobId : n = lastId + 1 /\ lastId' = n
    BY DEF Adds
  <1>1. PICK old \in JobId \cup {None} :
          /\ old # n
          /\ old \in JobId => jobs[old].status = "preview-sent"
                              /\ jobs'[old].status = "regenerated"
          /\ \A k \in JobId \ {old, n} : jobs'[k] = jobs[k]
    BY <1>0 DEF Adds
  <1>2. lastId' = n /\ n = lastId + 1 /\ jobs'[n].status = "queued" /\ posts' = posts
        /\ lastId \in 0 .. MaxJobs
    BY <1>0 DEF Adds, Inv, TypeInv, TypeOK
  <1>3. {k \in JobId : posts[k] > 0}' = {k \in JobId : posts[k] > 0}
    BY <1>2
  <1>4. jobs[n].status = "absent" /\ n > lastId
    BY <1>2 DEF Inv, Book, Fresh
  <1>5. StageOf(n) = "none" /\ StageOf(n)' = "drafting"
    BY <1>2, <1>4 DEF StageOf, Terminal
  <1>6. \A k \in JobId \ {old, n} : StageOf(k)' = StageOf(k)
    <2>1. \A k \in JobId \ {n} : k <= lastId <=> k <= lastId'
      BY <1>2, QueueAssumption DEF JobId
    <2>2. QED
      BY <1>1, <2>1 DEF StageOf
  <1>7. CASE old \in JobId
    <2>1. StageOf(old) = "review" /\ StageOf(old)' = "closed"
      BY <1>1, <1>7 DEF StageOf, Terminal
    <2>2. st' = [st EXCEPT ![old] = "closed", ![n] = "drafting"]
      BY <1>1, <1>2, <1>5, <1>6, <1>7, <2>1
    <2>3. Promise!Redo(old, n)
      BY <1>2, <1>3, <1>5, <1>7, <2>1, <2>2 DEF Promise!Redo
    <2>4. QED
      BY <1>2, <1>7, <2>3 DEF Promise!Next
  <1>8. CASE old \notin JobId
    <2>1. st' = [st EXCEPT ![n] = "drafting"]
      BY <1>2, <1>5, <1>6, <1>8
    <2>2. Promise!Submit(n)
      BY <1>2, <1>3, <1>5, <2>1 DEF Promise!Submit, Promise!Move
    <2>3. QED
      BY <1>2, <2>2 DEF Promise!Next
  <1>9. QED
    BY <1>7, <1>8

\* Recovery leaves every stage as it is.
LEMMA PromiseRestarts == Inv /\ Restarts => [Promise!Next]_(Promise!vars)
  <1> SUFFICES ASSUME Inv, Restarts PROVE [Promise!Next]_(Promise!vars)
    OBVIOUS
  <1>1. \A k \in JobId : StageOf(k)' = StageOf(k)
    BY DEF Restarts, StageOf, Terminal
  <1>2. QED
    BY <1>1 DEF Restarts, Promise!vars

\* A step that Collects takes closed briefs off the books.
LEMMA PromiseCollects == Inv /\ Collects => [Promise!Next]_(Promise!vars)
  <1> SUFFICES ASSUME Inv, Collects PROVE [Promise!Next]_(Promise!vars)
    OBVIOUS
  <1> DEFINE S == {k \in JobId : jobs'[k].status # jobs[k].status}
  <1> DEFINE st == [k \in JobId |-> StageOf(k)]
  <1>1. \A k \in S : StageOf(k) = "closed" /\ StageOf(k)' = "archived"
    BY DEF Collects, StageOf, Terminal
  <1>2. \A k \in JobId \ S : StageOf(k)' = StageOf(k)
    BY DEF Collects, StageOf
  <1>3. {k \in JobId : posts[k] > 0}' = {k \in JobId : posts[k] > 0}
    BY DEF Collects
  <1> HIDE DEF S
  <1>4. S \in SUBSET JobId
    BY DEF S
  <1>5. Promise!Archive(S)
    BY <1>1, <1>2, <1>3, <1>4 DEF Promise!Archive
  <1>6. QED
    BY <1>4, <1>5 DEF Promise!Next

\* Every behaviour of the service is one PublishPromise allows: it never
\* posts what was not approved, never confirms what was not posted, and never
\* drops a ticket whose story has not ended.
THEOREM KeepsPromiseHolds == Spec => KeepsPromise
  <1>1. Init => Promise!Init
    <2> SUFFICES ASSUME Init PROVE Promise!Init
      OBVIOUS
    <2>1. \A j \in JobId : jobs[j].status = "absent" /\ posts[j] = 0 /\ ~(j <= lastId)
      BY DEF Init, EmptyFile, NoJob, JobId
    <2>2. \A j \in JobId : StageOf(j) = "none"
      BY <2>1 DEF StageOf, Terminal
    <2>3. QED
      BY <2>1, <2>2 DEF Promise!Init
  <1>2. Inv /\ [Next]_vars => [Promise!Next]_(Promise!vars)
    <2>1. Inv /\ Next => [Promise!Next]_(Promise!vars)
      BY Kinds, PromiseMoves, PromiseStays, PromiseAdds, PromiseRestarts,
         PromiseCollects
    <2>2. UNCHANGED vars => UNCHANGED Promise!vars
      <3> SUFFICES ASSUME UNCHANGED vars PROVE UNCHANGED Promise!vars
        OBVIOUS
      <3>1. \A k \in JobId : StageOf(k)' = StageOf(k)
        BY DEF vars, StageOf
      <3>2. QED
        BY <3>1 DEF vars, channel, Promise!vars
    <2>3. QED
      BY <2>1, <2>2
  <1>3. QED
    BY <1>1, <1>2, Invariance, PTL DEF Spec, KeepsPromise, Promise!Spec

-----------------------------------------------------------------------------
(***************************************************************************)
(* What the promise says by itself.                                        *)
(***************************************************************************)

\* A brief that still awaits its yes has no text in the channel; a brief that
\* counts as live has one.
TextFollowsStage ==
    \A j \in JobId :
        /\ StageOf(j) \in {"none", "drafting", "review"} => ~(posts[j] > 0)
        /\ StageOf(j) = "live" => posts[j] > 0

\* PublishPromise says enough: whatever keeps it shows the channel no text
\* before its yes, and confirms no text the channel does not have.
THEOREM PromiseOfTheText == KeepsPromise => []TextFollowsStage
  <1> DEFINE st == [k \in JobId |-> StageOf(k)]
  <1> DEFINE out == {k \in JobId : posts[k] > 0}
  <1> DEFINE Follows == \A j \in JobId :
                /\ st[j] \in {"none", "drafting", "review"} => j \notin out
                /\ st[j] = "live" => j \in out
  <1>1. TextFollowsStage <=> Follows
    BY DEF TextFollowsStage
  <1>2. Promise!Init => Follows
    BY DEF Promise!Init
  <1>3. Follows /\ [Promise!Next]_(Promise!vars) => Follows'
    <2> SUFFICES ASSUME Follows, [Promise!Next]_(Promise!vars) PROVE Follows'
      OBVIOUS
    <2>1. st = [k \in JobId |-> st[k]]
      OBVIOUS
    <2>2. CASE UNCHANGED Promise!vars
      BY <2>2 DEF Promise!vars
    <2>3. CASE Promise!Next
      <3> HIDE DEF st, out
      <3>1. ASSUME NEW k \in JobId, NEW to,
                   \A j \in JobId : st'[j] = IF j = k THEN to ELSE st[j],
                   out' = out,
                   \/ to = "closed"
                   \/ to \in {"drafting", "review"} /\ st[k] \in {"none", "drafting"}
                   \/ to = "approved"
                   \/ to = "live" /\ k \in out
            PROVE  Follows'
        BY <3>1
      <3>2. ASSUME NEW k \in JobId,
                   \/ Promise!Submit(k) \/ Promise!Offer(k) \/ Promise!Approve(k)
                   \/ Promise!Decline(k) \/ Promise!Confirm(k) \/ Promise!GiveUp(k)
                   \/ Promise!Settle(k)
            PROVE  Follows'
        BY <2>1, <3>1, <3>2 DEF Promise!Submit, Promise!Offer, Promise!Approve,
           Promise!Decline, Promise!Confirm, Promise!GiveUp, Promise!Settle,
           Promise!Move, st, out
      <3>3. ASSUME NEW k \in JobId, Promise!Post(k)
            PROVE  Follows'
        BY <3>3 DEF Promise!Post, st, out
      <3>4. ASSUME NEW old \in JobId, NEW new \in JobId, Promise!Redo(old, new)
            PROVE  Follows'
        BY <3>4 DEF Promise!Redo, st, out
      <3>5. ASSUME NEW S \in SUBSET JobId, Promise!Archive(S)
            PROVE  Follows'
        BY <3>5 DEF Promise!Archive, st, out
      <3> QED BY <2>3, <3>2, <3>3, <3>4, <3>5 DEF Promise!Next
    <2> QED BY <2>2, <2>3
  <1> QED BY <1>1, <1>2, <1>3, PTL DEF KeepsPromise, Promise!Spec
=============================================================================
