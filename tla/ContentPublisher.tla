-------------------------- MODULE ContentPublisher --------------------------
(***************************************************************************)
(* The content-publisher service: one process running three asyncio tasks, *)
(* queue-poll, deadline-checker and cleanup-gc, over the ticket file that  *)
(* it shares with the operator's Telegram bot (another process).           *)
(*                                                                         *)
(* Each read or rewrite of the file is one step.  A task keeps the event   *)
(* loop from the moment it resumes until it awaits, so the steps of one    *)
(* synchronous section exclude the other tasks, and exclude neither the    *)
(* bot, nor a crash, nor the passing of time.  After a crash the tasks     *)
(* start over on the file that is left.                                    *)
(***************************************************************************)
EXTENDS PublishQueue, FiniteSets

CONSTANTS
    ApprovalTimeout,    \* PUBLISH_APPROVAL_TIMEOUT_MIN
    CleanupAfter,       \* CLEANUP_AFTER_HOURS
    RetryInterval,      \* PUBLISH_ATTEST_RETRY_INTERVAL_MIN
    EscalationWindow,   \* _ATTEST_ESCALATION_WINDOW
    RateWindow,         \* the hour of _count_published_last_hour
    Ceiling,            \* MNEMONIK_POSTS_PER_HOUR_CEILING
    Modes,              \* the modes briefs are submitted with
    FireDelays,         \* how far ahead briefs are scheduled
    FirstAttest,        \* whether anything calls attest_once on published jobs
    Faults,             \* which faults of the environment may happen
    MaxCrashes          \* bound: crashes of the process

Fault == {"mkdir", "rmtree", "raise", "lost-ack"}

ASSUME PublisherAssumption ==
    /\ ApprovalTimeout \in Nat /\ CleanupAfter \in Nat
    /\ RetryInterval \in Nat /\ EscalationWindow \in Nat
    /\ RateWindow \in Nat /\ Ceiling \in Nat
    /\ Modes \subseteq Mode /\ FireDelays \subseteq Nat
    /\ FirstAttest \in BOOLEAN /\ Faults \subseteq Fault
    /\ MaxCrashes \in Nat
    \* an age that stops at AgeCap still tells what the code asks of it
    /\ AgeCap > RateWindow /\ AgeCap >= EscalationWindow + RetryInterval

VARIABLES
    jobs,       \* queue.jsonl
    lastId,     \* the last id handed out
    archive,    \* how often each job is in queue.archive.jsonl, up to 2
    worktrees,  \* the jobs whose worktree directory exists
    up,         \* whether the process runs
    crashes,    \* how often it has crashed
    poll,       \* the queue-poll task
    checker,    \* the deadline-checker task
    gc,         \* the cleanup-gc task
    attest,     \* the calls of attest_once in flight, by caller
    shown,      \* the jobs whose preview, with its buttons, is in the topic
    posts,      \* how often each text is in the channel, up to 2
    postedAge   \* how long ago it last appeared there

task == <<poll, checker, gc, attest>>
channel == <<posts, postedAge>>
disk == <<archive, worktrees>>
vars == <<jobs, lastId, disk, up, crashes, task, shown, channel>>

-----------------------------------------------------------------------------
(***************************************************************************)
(* The tasks and the event loop.                                           *)
(***************************************************************************)

\* A tick keeps the ids its snapshot of the file selected, by the status it
\* saw, and serves them in the order of the file.
Earliest(j, S) == j \in S /\ \A k \in S : j <= k

PollIdle == [pc |-> "idle", job |-> None, queued |-> {}, publishing |-> {}]
CheckerIdle == [pc |-> "idle", expired |-> {}, retry |-> {}]
GcIdle == [pc |-> "idle", job |-> None, todo |-> {}, remove |-> {},
           file |-> EmptyFile]

Caller == {"checker", "direct"}
NoCall == [job |-> None, seen |-> "absent"]

\* Where the tasks await: everywhere else they keep the event loop.
LoopFree ==
    /\ poll.pc \in {"idle", "spawn", "analyze"}
    /\ checker.pc \in {"idle", "sign"}
    /\ gc.pc = "idle"

\* Faulty: a writer does not wait for the flock.
LockIgnored == TRUE

\* cleanup-gc holds the flock across its whole section; every other holder
\* releases it within the step that takes it.
LockFree == gc.pc = "idle"

\* The poll tick is done with a job and goes on with those left.
PollGoesOn(queued, publishing) ==
    poll' = IF queued \cup publishing = {} THEN PollIdle
            ELSE [pc |-> "next", job |-> None,
                  queued |-> queued, publishing |-> publishing]
PollContinues == PollGoesOn(poll.queued, poll.publishing)

CheckerGoesOn(expired, retry) ==
    checker' = IF expired \cup retry = {} THEN CheckerIdle
               ELSE [pc |-> "next", expired |-> expired, retry |-> retry]

-----------------------------------------------------------------------------
(***************************************************************************)
(* queue-poll: from queued to preview-sent (worker.py).                    *)
(***************************************************************************)

\* A tick reads the file and serves the jobs that are due.  A tick that finds
\* none changes nothing.
PollTick ==
    LET queued == {j \in JobId : jobs[j].status = "queued" /\ jobs[j].fireIn = 0}
        publishing == {j \in JobId : jobs[j].status = "publishing"}
    IN  /\ up /\ LoopFree /\ poll.pc = "idle"
        /\ queued \cup publishing # {}
        /\ PollGoesOn(queued, publishing)
        /\ UNCHANGED <<jobs, lastId, disk, up, crashes, checker, gc, attest, shown, channel>>

\* The job is claimed before anything is created on disk.
PollClaim(j) ==
    /\ poll.pc = "next"
    /\ Earliest(j, poll.queued \cup poll.publishing) /\ j \in poll.queued
    /\ jobs' = Cas(jobs, j, "queued", "writing", jobs[j])
    /\ IF CasWins(jobs, j, "queued", "writing")
       THEN poll' = [poll EXCEPT !.pc = "mkdir", !.job = j, !.queued = @ \ {j}]
       ELSE PollGoesOn(poll.queued \ {j}, poll.publishing)
    /\ UNCHANGED <<lastId, disk, up, crashes, checker, gc, attest, shown, channel>>

PollMkdir ==
    /\ poll.pc = "mkdir"
    /\ worktrees' = worktrees \cup {poll.job}
    /\ poll' = [poll EXCEPT !.pc = "spawn"]
    /\ UNCHANGED <<jobs, lastId, archive, up, crashes, checker, gc, attest, shown, channel>>

\* An OSError here is outside every try of the worker: it ends the tick.
PollMkdirFails ==
    /\ poll.pc = "mkdir" /\ "mkdir" \in Faults
    /\ poll' = PollIdle
    /\ UNCHANGED <<jobs, lastId, disk, up, crashes, checker, gc, attest, shown, channel>>

\* _mark_failed: no cleanup_at is set here.
MarkFailed(j, current) ==
    Cas(jobs, j, current, "failed", [jobs[j] EXCEPT !.notifyPending = TRUE])

\* claude has ended and left article.md in the worktree.
SpawnSucceeds ==
    LET j == poll.job
    IN  /\ poll.pc = "spawn" /\ LoopFree
        /\ jobs' = Cas(jobs, j, "writing", "scoring",
                       [jobs[j] EXCEPT !.article = TRUE])
        /\ IF CasWins(jobs, j, "writing", "scoring")
           THEN poll' = [poll EXCEPT !.pc = "analyze"]
           ELSE PollContinues
        /\ UNCHANGED <<lastId, disk, up, crashes, checker, gc, attest, shown, channel>>

\* claude has failed, or its article is missing or outside the worktree.
SpawnFails ==
    /\ poll.pc = "spawn" /\ LoopFree
    /\ jobs' = MarkFailed(poll.job, "writing")
    /\ PollContinues
    /\ UNCHANGED <<lastId, disk, up, crashes, checker, gc, attest, shown, channel>>

\* Faulty: no approval_deadline is written.
ScoredNoDeadline(job) ==
    [job EXCEPT !.scored = TRUE, !.previewPending = (job.mode # "auto"),
                !.cleanupIn = CleanupAfter]

\* What the one write into preview-sent adds to the ticket.
Scored(job) ==
    [job EXCEPT !.scored = TRUE, !.previewPending = (job.mode # "auto"),
                !.approvalIn = ApprovalTimeout, !.cleanupIn = CleanupAfter]

\* analyze_blog has ended and the preview is rendered.
ScoreSucceeds ==
    LET j == poll.job
    IN  /\ poll.pc = "analyze" /\ LoopFree
        /\ jobs' = Cas(jobs, j, "scoring", "preview-sent", Scored(jobs[j]))
        /\ IF CasWins(jobs, j, "scoring", "preview-sent") /\ jobs[j].mode = "auto"
           THEN poll' = [poll EXCEPT !.pc = "auto"]
           ELSE PollContinues
        /\ UNCHANGED <<lastId, disk, up, crashes, checker, gc, attest, shown, channel>>

ScoreFails ==
    /\ poll.pc = "analyze" /\ LoopFree
    /\ jobs' = MarkFailed(poll.job, "scoring")
    /\ PollContinues
    /\ UNCHANGED <<lastId, disk, up, crashes, checker, gc, attest, shown, channel>>

\* In auto mode the second compare-and-set follows without an await.
AutoPublish ==
    LET j == poll.job
    IN  /\ poll.pc = "auto"
        /\ jobs' = Cas(jobs, j, "preview-sent", "publishing", jobs[j])
        /\ PollContinues
        /\ UNCHANGED <<lastId, disk, up, crashes, checker, gc, attest, shown, channel>>

-----------------------------------------------------------------------------
(***************************************************************************)
(* queue-poll: the publish step (publish.py).  It never awaits.            *)
(***************************************************************************)

\* The publications of the last RateWindow that the file knows of.
Published == {"published", "attest-pending", "done", "attest-failed"}
RecentlyPublished ==
    {j \in JobId : /\ jobs[j].status \in Published
                   /\ jobs[j].publishedAge # None
                   /\ jobs[j].publishedAge <= RateWindow}

\* Faulty: a publication stops counting once its attestation is settled.
CeilingReachedUnsettled ==
    Cardinality({j \in RecentlyPublished : jobs[j].status \notin Terminal}) >= Ceiling
CeilingReached == Cardinality(RecentlyPublished) >= Ceiling

PublishNext(j) ==
    /\ poll.pc = "next"
    /\ Earliest(j, poll.queued \cup poll.publishing) /\ j \in poll.publishing

\* The early exits: no article, or the ceiling is reached.  On a job that has
\* left publishing meanwhile the step only moves on.
PublishRefuse(j) ==
    /\ PublishNext(j)
    /\ jobs[j].status # "publishing" \/ ~jobs[j].article \/ CeilingReached
    /\ jobs' = Cas(jobs, j, "publishing", "publish-failed",
                   [jobs[j] EXCEPT !.notifyPending = TRUE])
    /\ PollGoesOn(poll.queued, poll.publishing \ {j})
    /\ UNCHANGED <<lastId, disk, up, crashes, checker, gc, attest, shown, channel>>

\* Faulty: the forensic marker is left for after the call.
PublishUnmarked(j) ==
    /\ PublishNext(j)
    /\ jobs[j].status = "publishing" /\ jobs[j].article /\ ~CeilingReached
    /\ poll' = [poll EXCEPT !.pc = "campaign", !.job = j, !.publishing = @ \ {j}]
    /\ UNCHANGED <<jobs, lastId, disk, up, crashes, checker, gc, attest, shown, channel>>

\* The checks pass, and tentative_publish_started_at is written before the
\* call.  The checks only read, and nobody else touches a publishing job, so
\* they are one step with the write.
PublishMark(j) ==
    /\ PublishNext(j)
    /\ jobs[j].status = "publishing" /\ jobs[j].article /\ ~CeilingReached
    /\ jobs' = UpdateFields(jobs, j, "publishing", [jobs[j] EXCEPT !.marker = TRUE])
    /\ poll' = [poll EXCEPT !.pc = "campaign", !.job = j, !.publishing = @ \ {j}]
    /\ UNCHANGED <<lastId, disk, up, crashes, checker, gc, attest, shown, channel>>

\* The text appears in the channel, or it does not.
Appears(j, landed) ==
    IF landed
    THEN /\ posts' = [posts EXCEPT ![j] = IF @ < 2 THEN @ + 1 ELSE @]
         /\ postedAge' = [postedAge EXCEPT ![j] = 0]
    ELSE UNCHANGED channel

\* Faulty: the publication is recorded whatever pr.ok says.
CampaignTrusted(ok, landed) ==
    /\ poll.pc = "campaign"
    /\ ok => landed
    /\ landed /\ ~ok => "lost-ack" \in Faults
    /\ Appears(poll.job, landed)
    /\ poll' = [poll EXCEPT !.pc = "record"]
    /\ UNCHANGED <<jobs, lastId, disk, up, crashes, checker, gc, attest, shown>>

\* run_campaign_from_article returns, with pr.ok set or not.
CampaignReturns(ok, landed) ==
    /\ poll.pc = "campaign"
    /\ ok => landed
    /\ landed /\ ~ok => "lost-ack" \in Faults
    /\ Appears(poll.job, landed)
    /\ poll' = [poll EXCEPT !.pc = IF ok THEN "record" ELSE "record-failure"]
    /\ UNCHANGED <<jobs, lastId, disk, up, crashes, checker, gc, attest, shown>>

\* It raises, or reading the article afterwards does: the job stays in
\* publishing, and the tick ends without serving those behind it.
CampaignRaises(landed) ==
    /\ poll.pc = "campaign" /\ "raise" \in Faults
    /\ Appears(poll.job, landed)
    /\ poll' = PollIdle
    /\ UNCHANGED <<jobs, lastId, disk, up, crashes, checker, gc, attest, shown>>

PublishRecord ==
    LET j == poll.job
    IN  /\ poll.pc = "record"
        /\ jobs' = Cas(jobs, j, "publishing", "published",
                       [jobs[j] EXCEPT !.postUrl = TRUE])
        /\ PollContinues
        /\ UNCHANGED <<lastId, disk, up, crashes, checker, gc, attest, shown, channel>>

PublishRecordFailure ==
    LET j == poll.job
    IN  /\ poll.pc = "record-failure"
        /\ jobs' = Cas(jobs, j, "publishing", "publish-failed",
                       [jobs[j] EXCEPT !.notifyPending = TRUE])
        /\ PollContinues
        /\ UNCHANGED <<lastId, disk, up, crashes, checker, gc, attest, shown, channel>>

-----------------------------------------------------------------------------
(***************************************************************************)
(* deadline-checker (deadline.py) and attest_once (attest.py).             *)
(***************************************************************************)

\* Faulty: the deadline counts although the bot has not shown the preview.
DeadlinePassed(job) ==
    job.status = "preview-sent" /\ job.approvalIn = 0

DeadlineReached(job) ==
    /\ job.status = "preview-sent"
    /\ ~job.previewPending
    /\ job.approvalIn = 0

\* The next slot is counted from the first entry into attest-pending.
RetryDue(job) ==
    \/ job.pendingAge = None
    \/ RetryInterval * (IF job.attempts = 0 THEN 1 ELSE job.attempts) <= job.pendingAge

CheckerTick ==
    LET expired == {j \in JobId : DeadlineReached(jobs[j])}
        retry == {j \in JobId : jobs[j].status = "attest-pending" /\ RetryDue(jobs[j])}
    IN  /\ up /\ LoopFree /\ checker.pc = "idle"
        /\ expired \cup retry # {}
        /\ CheckerGoesOn(expired, retry)
        /\ UNCHANGED <<jobs, lastId, disk, up, crashes, poll, gc, attest, shown, channel>>

\* A lost race with a click of the operator is only logged.
CheckerExpire(j) ==
    /\ checker.pc = "next"
    /\ Earliest(j, checker.expired \cup checker.retry) /\ j \in checker.expired
    /\ jobs' = Cas(jobs, j, "preview-sent", "publishing", jobs[j])
    /\ CheckerGoesOn(checker.expired \ {j}, checker.retry)
    /\ UNCHANGED <<lastId, disk, up, crashes, poll, gc, attest, shown, channel>>

\* What attest_once asks of the ticket it loads, before it calls out.
Attestable(job) ==
    /\ job.status \in {"published", "attest-pending"}
    /\ job.article /\ job.postUrl /\ job.scored

AttestBegins(c, j) ==
    attest' = [attest EXCEPT ![c] = [job |-> j, seen |-> jobs[j].status]]

CheckerAttest(j) ==
    /\ checker.pc = "next"
    /\ Earliest(j, checker.expired \cup checker.retry) /\ j \in checker.retry
    /\ IF Attestable(jobs[j])
       THEN /\ AttestBegins("checker", j)
            /\ checker' = [checker EXCEPT !.pc = "sign", !.retry = @ \ {j}]
       ELSE /\ CheckerGoesOn(checker.expired, checker.retry \ {j})
            /\ UNCHANGED attest
    /\ UNCHANGED <<jobs, lastId, disk, up, crashes, poll, gc, shown, channel>>

\* The first attempt on a published job.  In the source only tests make this
\* call; FirstAttest says whether anything does.
DirectAttest(j) ==
    /\ up /\ LoopFree /\ FirstAttest
    /\ attest["direct"] = NoCall
    /\ jobs[j].status = "published" /\ Attestable(jobs[j])
    /\ AttestBegins("direct", j)
    /\ UNCHANGED <<jobs, lastId, disk, up, crashes, poll, checker, gc, shown, channel>>

\* The call is over: the checker goes on with its tick.
AttestEnds(c) ==
    /\ attest' = [attest EXCEPT ![c] = NoCall]
    /\ IF c = "checker" THEN CheckerGoesOn(checker.expired, checker.retry)
       ELSE UNCHANGED checker

AttestSucceeds(c) ==
    LET j == attest[c].job
    IN  /\ j # None /\ LoopFree
        /\ jobs' = Cas(jobs, j, attest[c].seen, "done",
                       [jobs[j] EXCEPT !.notifyPending = TRUE])
        /\ AttestEnds(c)
        /\ UNCHANGED <<lastId, disk, up, crashes, poll, gc, shown, channel>>

Elapsed(job) == IF job.pendingAge = None THEN 0 ELSE job.pendingAge

\* Faulty: the retry restarts the clock of the escalation.
FailureRestartingClock(j, seen) ==
    LET tried == [jobs[j] EXCEPT !.attempts = @ + 1]
    IN  IF seen = "published"
        THEN Cas(jobs, j, "published", "attest-pending", tried)
        ELSE IF Elapsed(jobs[j]) >= EscalationWindow
        THEN Cas(jobs, j, "attest-pending", "attest-failed",
                 [tried EXCEPT !.notifyPending = TRUE])
        ELSE UpdateFields(jobs, j, "attest-pending", [tried EXCEPT !.pendingAge = 0])

\* Faulty: the escalation expects a status that the job has left.
FailureUnescalated(j, seen) ==
    LET tried == [jobs[j] EXCEPT !.attempts = @ + 1]
    IN  IF seen = "published"
        THEN Cas(jobs, j, "published", "attest-pending", tried)
        ELSE IF Elapsed(jobs[j]) >= EscalationWindow
        THEN Cas(jobs, j, "published", "attest-failed",
                 [tried EXCEPT !.notifyPending = TRUE])
        ELSE UpdateFields(jobs, j, "attest-pending", tried)

\* _record_failure, for a job loaded in status seen.
FailureRecorded(j, seen) ==
    LET tried == [jobs[j] EXCEPT !.attempts = @ + 1]
    IN  IF seen = "published"
        THEN Cas(jobs, j, "published", "attest-pending", tried)
        ELSE IF Elapsed(jobs[j]) >= EscalationWindow
        THEN Cas(jobs, j, "attest-pending", "attest-failed",
                 [tried EXCEPT !.notifyPending = TRUE])
        ELSE UpdateFields(jobs, j, "attest-pending", tried)

\* The signer fails, or the article cannot be read.
AttestFails(c) ==
    LET j == attest[c].job
    IN  /\ j # None /\ LoopFree
        /\ jobs' = FailureRecorded(j, attest[c].seen)
        /\ AttestEnds(c)
        /\ UNCHANGED <<lastId, disk, up, crashes, poll, gc, shown, channel>>

-----------------------------------------------------------------------------
(***************************************************************************)
(* cleanup-gc (cleanup.py).  One section under the flock, without an await *)
(***************************************************************************)

\* Faulty: a job is collected at its time whatever its status.
CollectableAnyStatus(job) == job.cleanupIn = 0

\* Faulty: only jobs that went all the way are collected.
CollectableDone(job) == job.status = "done" /\ job.cleanupIn = 0

Collectable(job) == job.status \in Terminal /\ job.cleanupIn = 0

\* The tick takes the flock, reads the file and splits it.
GcTick ==
    LET S == {j \in JobId : Collectable(jobs[j])}
    IN  /\ up /\ LoopFree
        /\ S # {}
        /\ gc' = [pc |-> "archive", job |-> None, todo |-> S, remove |-> S,
                  file |-> jobs]
        /\ UNCHANGED <<jobs, lastId, disk, up, crashes, poll, checker, attest, shown, channel>>

\* Faulty: the worktree is removed without a record in the archive.
GcUnarchived(j) ==
    /\ gc.pc = "archive" /\ Earliest(j, gc.todo)
    /\ gc' = [gc EXCEPT !.pc = "rmtree", !.job = j, !.todo = @ \ {j}]
    /\ UNCHANGED <<jobs, lastId, disk, up, crashes, poll, checker, attest, shown, channel>>

GcArchive(j) ==
    /\ gc.pc = "archive" /\ Earliest(j, gc.todo)
    /\ archive' = [archive EXCEPT ![j] = IF @ < 2 THEN @ + 1 ELSE @]
    /\ gc' = [gc EXCEPT !.pc = "rmtree", !.job = j, !.todo = @ \ {j}]
    /\ UNCHANGED <<jobs, lastId, worktrees, up, crashes, poll, checker, attest, shown, channel>>

\* rmtree may fail on a directory that is there: that is only logged.
GcRmtree(removed) ==
    /\ gc.pc = "rmtree"
    /\ removed \/ "rmtree" \in Faults
    /\ worktrees' = IF removed THEN worktrees \ {gc.job} ELSE worktrees
    /\ gc' = [gc EXCEPT !.pc = IF gc.todo = {} THEN "rewrite" ELSE "archive",
                        !.job = None]
    /\ UNCHANGED <<jobs, lastId, archive, up, crashes, poll, checker, attest, shown, channel>>

\* The lines that were read are written back without those collected.
GcRewrite ==
    /\ gc.pc = "rewrite"
    /\ jobs' = [j \in JobId |-> IF j \in gc.remove THEN NoJob ELSE gc.file[j]]
    /\ gc' = GcIdle
    /\ UNCHANGED <<lastId, disk, up, crashes, poll, checker, attest, shown, channel>>

-----------------------------------------------------------------------------
(***************************************************************************)
(* Crash and restart (recovery.py, the lifespan in main.py).               *)
(***************************************************************************)

\* The process dies, or is stopped: what the tasks held is gone, the flock
\* with it.
Crash ==
    /\ up /\ crashes < MaxCrashes
    /\ up' = FALSE /\ crashes' = crashes + 1
    /\ poll' = PollIdle /\ checker' = CheckerIdle /\ gc' = GcIdle
    /\ attest' = [c \in Caller |-> NoCall]
    /\ UNCHANGED <<jobs, lastId, disk, shown, channel>>

\* Faulty: a publish step that was interrupted starts the whole job over.
RecoveredPublishing(job) ==
    IF job.status \in {"writing", "scoring", "publishing"}
    THEN [job EXCEPT !.status = "queued", !.scored = FALSE]
    ELSE job

\* Faulty: a job that was being scored is forgotten.
RecoveredWriting(job) ==
    IF job.status = "writing"
    THEN [job EXCEPT !.status = "queued", !.scored = FALSE]
    ELSE job

\* recover_in_flight: drafting starts over, everything else stays.
Recovered(job) ==
    IF job.status \in {"writing", "scoring"}
    THEN [job EXCEPT !.status = "queued", !.scored = FALSE]
    ELSE job

\* systemd starts the process again; it recovers before the tasks start.
Restart ==
    /\ ~up /\ up' = TRUE
    /\ jobs' = [j \in JobId |-> Recovered(jobs[j])]
    /\ UNCHANGED <<lastId, disk, crashes, task, shown, channel>>

-----------------------------------------------------------------------------
(***************************************************************************)
(* The bot and the operator behind it: the callers of queue.py outside the *)
(* service.  A click on a job that has left preview-sent is answered "too  *)
(* late" and changes nothing.                                              *)
(***************************************************************************)

BotUnchanged == UNCHANGED <<disk, up, crashes, task, channel>>

\* The operator writes a brief.
Submit(mode, fireIn) ==
    /\ LockFree /\ lastId < MaxJobs
    /\ lastId' = lastId + 1
    /\ jobs' = AppendJob(jobs, lastId + 1, mode, fireIn)
    /\ BotUnchanged /\ UNCHANGED shown

\* The preview appears in the topic; the operator can click from now on.
SendPreview(j) ==
    /\ jobs[j].status = "preview-sent" /\ jobs[j].previewPending
    /\ shown' = shown \cup {j}
    /\ BotUnchanged /\ UNCHANGED <<jobs, lastId>>

\* Then the bot clears preview_pending, unless the job has moved on.
RecordPreview(j) ==
    /\ LockFree /\ j \in shown /\ jobs[j].previewPending
    /\ jobs' = UpdateFields(jobs, j, "preview-sent",
                            [jobs[j] EXCEPT !.previewPending = FALSE])
    /\ BotUnchanged /\ UNCHANGED <<lastId, shown>>

\* A button of the preview: approve or reject.
Click(j, target) ==
    /\ LockFree /\ j \in shown
    /\ jobs' = Cas(jobs, j, "preview-sent", target, jobs[j])
    /\ BotUnchanged /\ UNCHANGED <<lastId, shown>>
Approve(j) == Click(j, "publishing")
Reject(j) == Click(j, "rejected")

\* The retry button.
Retry(j) ==
    /\ LockFree /\ j \in shown /\ lastId < MaxJobs
    /\ CasWins(jobs, j, "preview-sent", "regenerated")
    /\ lastId' = lastId + 1
    /\ jobs' = Regenerate(jobs, j, lastId + 1)
    /\ BotUnchanged /\ UNCHANGED shown

\* The operator is told how a job ended, and notify_pending is cleared.
Notify(j) ==
    /\ LockFree /\ jobs[j].notifyPending
    /\ jobs' = UpdateFields(jobs, j, jobs[j].status,
                            [jobs[j] EXCEPT !.notifyPending = FALSE])
    /\ BotUnchanged /\ UNCHANGED <<lastId, shown>>

-----------------------------------------------------------------------------
\* One unit of time passes.
Tick ==
    /\ jobs' = AgedFile(jobs)
    /\ gc' = [gc EXCEPT !.file = AgedFile(@)]
    /\ postedAge' = [j \in JobId |-> CountUp(postedAge[j])]
    /\ UNCHANGED <<lastId, disk, up, crashes, poll, checker, attest, shown, posts>>

Init ==
    /\ jobs = EmptyFile /\ lastId = 0
    /\ archive = [j \in JobId |-> 0] /\ worktrees = {}
    /\ up = TRUE /\ crashes = 0
    /\ poll = PollIdle /\ checker = CheckerIdle /\ gc = GcIdle
    /\ attest = [c \in Caller |-> NoCall]
    /\ shown = {}
    /\ posts = [j \in JobId |-> 0] /\ postedAge = [j \in JobId |-> None]

PollStep ==
    \/ PollTick
    \/ \E j \in JobId : PollClaim(j) \/ PublishRefuse(j) \/ PublishMark(j)
    \/ PollMkdir \/ PollMkdirFails
    \/ SpawnSucceeds \/ SpawnFails \/ ScoreSucceeds \/ ScoreFails \/ AutoPublish
    \/ \E ok, landed \in BOOLEAN : CampaignReturns(ok, landed)
    \/ \E landed \in BOOLEAN : CampaignRaises(landed)
    \/ PublishRecord \/ PublishRecordFailure

CheckerStep ==
    \/ CheckerTick
    \/ \E j \in JobId : CheckerExpire(j) \/ CheckerAttest(j)

AttestStep ==
    \/ \E j \in JobId : DirectAttest(j)
    \/ \E c \in Caller : AttestSucceeds(c) \/ AttestFails(c)

GcStep ==
    \/ GcTick
    \/ \E j \in JobId : GcArchive(j)
    \/ \E removed \in BOOLEAN : GcRmtree(removed)
    \/ GcRewrite

BotStep ==
    \/ \E mode \in Modes, fireIn \in FireDelays : Submit(mode, fireIn)
    \/ \E j \in JobId : \/ SendPreview(j) \/ RecordPreview(j) \/ Notify(j)
                        \/ Approve(j) \/ Reject(j) \/ Retry(j)

Next ==
    \/ PollStep \/ CheckerStep \/ AttestStep \/ GcStep
    \/ Crash \/ Restart \/ BotStep \/ Tick

Spec == Init /\ [][Next]_vars

-----------------------------------------------------------------------------
(***************************************************************************)
(* Fairness.  The three loops run as long as the process does, and the     *)
(* ready queue of asyncio starves no task.  systemd restarts the process   *)
(* (Restart=always).  The bot's dispatch loop polls every 5 s.  claude,    *)
(* the scorer, the channel and the signer are assumed to answer: the code  *)
(* sets no timeout on the first two.  Nothing is assumed of the operator,  *)
(* nor of a caller of attest_once on published jobs.                       *)
(***************************************************************************)

Fairness ==
    /\ WF_vars(PollStep) /\ WF_vars(CheckerStep) /\ WF_vars(GcStep)
    /\ \A c \in Caller : WF_vars(AttestSucceeds(c) \/ AttestFails(c))
    /\ \A j \in JobId : /\ WF_vars(SendPreview(j))
                        /\ WF_vars(RecordPreview(j))
                        /\ WF_vars(Notify(j))
    /\ WF_vars(Restart) /\ WF_vars(Tick)

FairSpec == Spec /\ Fairness

-----------------------------------------------------------------------------
(***************************************************************************)
(* Properties.                                                             *)
(***************************************************************************)

\* Every variable holds what the code can put there.
TypeOK ==
    /\ jobs \in [JobId -> Job]
    /\ lastId \in 0 .. MaxJobs
    /\ archive \in [JobId -> 0 .. 2]
    /\ worktrees \subseteq JobId
    /\ up \in BOOLEAN
    /\ crashes \in 0 .. MaxCrashes
    /\ poll \in [pc : {"idle", "next", "mkdir", "spawn", "analyze", "auto",
                       "campaign", "record", "record-failure"},
                 job : Link, queued : SUBSET JobId, publishing : SUBSET JobId]
    /\ checker \in [pc : {"idle", "next", "sign"},
                    expired : SUBSET JobId, retry : SUBSET JobId]
    /\ gc \in [pc : {"idle", "archive", "rmtree", "rewrite"}, job : Link,
               todo : SUBSET JobId, remove : SUBSET JobId, file : [JobId -> Job]]
    /\ attest \in [Caller -> [job : Link,
                              seen : {"absent", "published", "attest-pending"}]]
    /\ shown \subseteq JobId
    /\ posts \in [JobId -> 0 .. 2]
    /\ postedAge \in [JobId -> Timer]

\* A text is in the channel only if its job was decided for publication: a
\* job that was rejected, regenerated or failed while drafting, and one still
\* waiting for a decision, has never been posted.
PostedOnlyOnceDecided ==
    \A j \in JobId : posts[j] > 0 =>
        jobs[j].status \in Published \cup {"publishing", "publish-failed", "absent"}

\* A job the file calls published, and every later state of it, has its text
\* in the channel, whatever crashed or failed in between.
PublishedMeansPosted ==
    \A j \in JobId : jobs[j].status \in Published => posts[j] > 0

\* As long as a posted job is on file it carries the marker by which the
\* operator recognises a duplicate after a crash.
PostLeavesMarker ==
    \A j \in JobId : posts[j] > 0 /\ InQueue(jobs, j) => jobs[j].marker

\* An approval-mode job goes to the channel only after the operator could see
\* its preview: neither the deadline, nor a restart, nor a bot that is down
\* publishes it unseen.
NoBlindPublish ==
    [][\A j \in JobId :
          /\ jobs[j].status = "preview-sent" /\ jobs'[j].status = "publishing"
          /\ jobs[j].mode = "approval"
          => j \in shown]_vars

\* The worktree that holds the article exists for as long as a later step may
\* read the article.
ArticleKept ==
    \A j \in JobId :
        jobs[j].status \in {"scoring", "preview-sent", "publishing", "published",
                            "attest-pending"}
        => j \in worktrees

\* A ticket is on file or in the archive, at every point where a crash may hit.
NothingLost ==
    \A j \in 1 .. lastId : InQueue(jobs, j) \/ archive[j] > 0

\* Click, deadline and auto mode publish a job once between them, if nothing
\* interrupts the publish step.
OnePostEach == \A j \in JobId : posts[j] <= 1

\* Among the jobs on file, no more than Ceiling texts appeared in the channel
\* within any RateWindow.
CeilingOnFile ==
    Cardinality({j \in JobId : /\ InQueue(jobs, j)
                               /\ postedAge[j] # None
                               /\ postedAge[j] <= RateWindow}) <= Ceiling

\* A job that is being drafted is in the hands of the poll task, or the
\* process is down and recovery will find it.
NoOrphan ==
    \A j \in JobId : jobs[j].status \in {"writing", "scoring"} =>
        ~up \/ (poll.job = j /\ poll.pc \in {"mkdir", "spawn", "analyze"})

\* A regenerated job and its replacement name each other, as long as both are
\* on file.
RetryLinked ==
    \A old, new \in JobId :
        InQueue(jobs, old) /\ InQueue(jobs, new) =>
            (jobs[old].regeneratedTo = new <=> jobs[new].retriesOf = old)

\* The rewrite of cleanup-gc undoes no write that was made since it read the
\* file.
NoLostUpdate ==
    [][gc.pc = "rewrite" /\ up /\ gc' = GcIdle /\ up' =>
          \A j \in JobId \ gc.remove : jobs'[j] = jobs[j]]_vars

\* No attempt at attestation comes before its slot: the slots are an interval
\* apart on a clock that starts with the first failure, and neither a retry nor
\* a restart nor another caller of attest_once moves it.  Slots that were missed
\* are made up for on consecutive ticks: how long ago the last attempt was,
\* nothing looks at.
RetriesOnSchedule ==
    \A j \in JobId : jobs[j].status = "attest-pending" =>
        RetryInterval * (jobs[j].attempts - 1) <= jobs[j].pendingAge

\* Every ticket comes to an end, or rests in published with nobody to attest
\* it, across crashes, a missing operator and a signer that never answers well:
\* no other status holds a ticket forever.
EveryBriefSettles ==
    \A j \in JobId : InQueue(jobs, j) ~>
        (jobs[j].status \in Terminal \cup {"published"} \/ ~InQueue(jobs, j))

\* The same once attestation has begun: the retries end in a receipt, or in an
\* escalation to the operator.
RetriesEnd ==
    \A j \in JobId : jobs[j].status = "attest-pending" ~>
        (jobs[j].status \in Terminal \/ ~InQueue(jobs, j))

\* A finished ticket with a cleanup time leaves the file.
FinishedIsCollected ==
    \A j \in JobId :
        (jobs[j].status \in Terminal /\ jobs[j].cleanupIn # None)
        ~> ~InQueue(jobs, j)

-----------------------------------------------------------------------------
(***************************************************************************)
(* A statement of the repository that the code does not keep.              *)
(***************************************************************************)

\* attest.py, tech-spec step 4: a published job is attested, or marked as not
\* attestable and reported.
PublishedIsAttested ==
    \A j \in JobId : jobs[j].status = "published" ~>
        (jobs[j].status \in {"done", "attest-failed"} \/ ~InQueue(jobs, j))

-----------------------------------------------------------------------------
(***************************************************************************)
(* The service keeps the promise made to the operator.                     *)
(***************************************************************************)

StageOf(j) ==
    CASE jobs[j].status = "absent" -> IF j <= lastId THEN "archived" ELSE "none"
      [] jobs[j].status \in {"queued", "writing", "scoring"} -> "drafting"
      [] jobs[j].status = "preview-sent" -> "review"
      [] jobs[j].status = "publishing" -> "approved"
      [] jobs[j].status \in {"published", "attest-pending"} -> "live"
      [] jobs[j].status \in Terminal -> "closed"

Promise == INSTANCE PublishPromise WITH
    stage <- [j \in JobId |-> StageOf(j)],
    posted <- {j \in JobId : posts[j] > 0}

\* Each step of the service is a step of PublishPromise, or none of its
\* business.
KeepsPromise == Promise!Spec
=============================================================================
