------------------------ MODULE PublishSafetyProofs -------------------------
(***************************************************************************)
(* The safety of ContentPublisher for every value of its constants: what   *)
(* is posted, what the file says of it, and what is kept on disk, through  *)
(* crashes, faults and every order of the steps.                           *)
(***************************************************************************)
EXTENDS ContentPublisherProofs

-----------------------------------------------------------------------------
(***************************************************************************)
(* The inductive invariant.                                                *)
(***************************************************************************)

PollHolds == poll.pc \notin {"idle", "spawn", "analyze"}

\* One task at a time is between two of its awaits.
Mutex ==
    /\ PollHolds => checker.pc # "next"
    /\ gc.pc # "idle" => ~PollHolds /\ checker.pc # "next"

\* Nothing runs in a process that is down.
Down ==
    ~up => /\ poll.pc = "idle" /\ checker.pc = "idle" /\ gc.pc = "idle"
           /\ \A c \in Caller : attest[c].job = None

\* What cleanup-gc read is still what the file holds, and it removes only
\* finished tickets, each after it has archived it.
GcView ==
    gc.pc # "idle" =>
        /\ gc.file = jobs
        /\ gc.todo \subseteq gc.remove
        /\ \A j \in gc.remove : jobs[j].status \in Terminal
        /\ \A j \in gc.remove \ gc.todo : archive[j] > 0
        /\ gc.pc = "rmtree" => gc.job \in gc.remove
        /\ gc.pc = "rewrite" => gc.todo = {}

\* What the poll task relies on from one of its steps to the next.
PollWork ==
    /\ poll.pc \notin {"idle", "next"} => poll.job <= lastId
    /\ poll.pc \in {"spawn", "analyze"} /\ jobs[poll.job].status \in {"writing", "scoring"}
       => poll.job \in worktrees
    /\ poll.pc = "auto" => jobs[poll.job].mode = "auto"
    /\ poll.pc \in {"campaign", "record", "record-failure"} =>
          jobs[poll.job].status = "publishing" /\ jobs[poll.job].marker
    /\ poll.pc = "record" => posts[poll.job] > 0

\* An id that was not handed out has no line and no text in the channel.
Fresh == \A j \in JobId : j > lastId => jobs[j].status = "absent" /\ posts[j] = 0

\* A job the checker found expired does not come back to an undecided preview.
Expiring ==
    \A j \in checker.expired :
        /\ j <= lastId
        /\ jobs[j].status \notin {"queued", "writing", "scoring"}
        /\ jobs[j].status = "preview-sent" => ~jobs[j].previewPending

\* preview_pending is cleared only once the preview is in the topic.
Seen ==
    \A j \in JobId :
        jobs[j].status = "preview-sent" /\ jobs[j].mode = "approval"
          /\ ~jobs[j].previewPending
        => j \in shown

Book == /\ Fresh /\ Expiring /\ Seen
        /\ PostedOnlyOnceDecided /\ PublishedMeansPosted /\ PostLeavesMarker
        /\ ArticleKept /\ NothingLost

Inv == TypeInv /\ Mutex /\ Down /\ GcView /\ PollWork /\ Book

-----------------------------------------------------------------------------
(***************************************************************************)
(* What a step does to the tickets.                                        *)
(***************************************************************************)

\* The step changes no status but that of j, from one given value to another,
\* and touches neither the marker nor what the preview depends on.
JobsMove(j, from, to) ==
    \A k \in JobId :
        /\ jobs'[k].mode = jobs[k].mode
        /\ jobs'[k].marker = jobs[k].marker
        /\ jobs'[k].previewPending = jobs[k].previewPending
        /\ \/ jobs'[k].status = jobs[k].status
           \/ k = j /\ jobs[k].status = from /\ jobs'[k].status = to

SameFrame(a, b) ==
    a.mode = b.mode /\ a.marker = b.marker /\ a.previewPending = b.previewPending

\* cas_status stamps and moves the one ticket it names.
LEMMA CasMoves ==
  ASSUME jobs \in File, NEW j \in JobId, NEW expected, NEW target \in Status,
         NEW updated \in Job, SameFrame(updated, jobs[j]),
         jobs' = Cas(jobs, j, expected, target, updated)
  PROVE  JobsMove(j, expected, target)
  <1>1. /\ Stamped(updated, target).status = target
        /\ SameFrame(Stamped(updated, target), updated)
    BY DEF Stamped, Job, SameFrame
  <1>2. CASE CasWins(jobs, j, expected, target)
    <2>1. jobs' = [jobs EXCEPT ![j] = Stamped(updated, target)]
      BY <1>2 DEF Cas
    <2>2. jobs[j].status = expected
      BY <1>2 DEF CasWins
    <2>3. QED
      BY <1>1, <2>1, <2>2 DEF JobsMove, SameFrame, File
  <1>3. CASE ~CasWins(jobs, j, expected, target)
    BY <1>3 DEF Cas, JobsMove
  <1>4. QED
    BY <1>2, <1>3

\* An update of other fields moves nothing.
LEMMA UpdateMoves ==
  ASSUME jobs \in File, NEW j \in JobId, NEW expected,
         NEW updated \in Job, SameFrame(updated, jobs[j]),
         updated.status = jobs[j].status,
         jobs' = UpdateFields(jobs, j, expected, updated)
  PROVE  \A from, to : JobsMove(j, from, to)
  BY DEF UpdateFields, JobsMove, SameFrame, File

\* The fields that may change with a status do not belong to the frame.
LEMMA FrameKept ==
  ASSUME NEW job \in Job
  PROVE  /\ SameFrame(job, job)
         /\ SameFrame([job EXCEPT !.article = TRUE], job)
         /\ SameFrame([job EXCEPT !.postUrl = TRUE], job)
         /\ SameFrame([job EXCEPT !.notifyPending = TRUE], job)
         /\ SameFrame([job EXCEPT !.attempts = @ + 1], job)
         /\ SameFrame([job EXCEPT !.attempts = @ + 1, !.notifyPending = TRUE], job)
  BY DEF SameFrame, Job

\* Time moves nothing.
LEMMA AgedMoves ==
  ASSUME jobs \in File, jobs' = AgedFile(jobs)
  PROVE  \A j, from, to : JobsMove(j, from, to)
  <1>1. ASSUME NEW job \in Job
        PROVE  Aged(job).status = job.status /\ SameFrame(Aged(job), job)
    BY DEF Aged, Job, SameFrame
  <1>2. QED
    BY <1>1 DEF AgedFile, JobsMove, SameFrame, File

\* The books stay right under a legal move of one job that is not the move
\* into preview-sent, if the worktree is there by the time the job is scored
\* and the text is in the channel by the time the job is called published.
LEMMA BookMove ==
  ASSUME TypeInv, Book, NEW j \in JobId, NEW from, NEW to,
         JobsMove(j, from, to),
         <<from, to>> \in AllowedTransitions, to # "preview-sent",
         to = "scoring" /\ jobs[j].status = from => j \in worktrees,
         to = "published" /\ jobs[j].status = from => posts[j] > 0,
         lastId' = lastId, posts' = posts, archive' = archive,
         worktrees \subseteq worktrees', shown \subseteq shown',
         checker'.expired \subseteq checker.expired
  PROVE  Book'
  <1>t. jobs \in File /\ posts \in [JobId -> 0 .. 2]
        /\ checker.expired \subseteq JobId /\ lastId \in 0 .. MaxJobs
    BY DEF TypeInv, TypeOK, File
  <1>s. from \in Status /\ to \in Status /\ from # "absent" /\ from # to
        /\ to # "queued" /\ from \notin Terminal
    BY DEF AllowedTransitions, Status, Terminal
  <1>1. Fresh'
    BY <1>s DEF Book, Fresh, JobsMove
  <1>2. Expiring'
    <2>1. ASSUME NEW k \in JobId, jobs[k].status \notin {"queued", "writing", "scoring"}
          PROVE  jobs'[k].status \notin {"queued", "writing", "scoring"}
      BY <2>1 DEF JobsMove, AllowedTransitions, Terminal
    <2>2. QED
      BY <1>t, <2>1 DEF Book, Expiring, JobsMove
  <1>3. Seen'
    BY DEF Book, Seen, JobsMove
  <1>4. PostedOnlyOnceDecided'
    BY <1>t DEF Book, PostedOnlyOnceDecided, JobsMove, AllowedTransitions, Published
  <1>5. PublishedMeansPosted'
    BY <1>t DEF Book, PublishedMeansPosted, JobsMove, AllowedTransitions, Published
  <1>6. PostLeavesMarker'
    BY <1>s DEF Book, PostLeavesMarker, JobsMove, InQueue
  <1>7. ArticleKept'
    BY DEF Book, ArticleKept, JobsMove, AllowedTransitions
  <1>8. NothingLost'
    <2>1. \A k \in 1 .. lastId : k \in JobId
      BY <1>t, QueueAssumption DEF JobId
    <2>2. to # "absent"
      BY <1>s DEF Status, Terminal
    <2>3. QED
      BY <2>1, <2>2 DEF Book, NothingLost, JobsMove, InQueue
  <1>9. QED
    BY <1>1, <1>2, <1>3, <1>4, <1>5, <1>6, <1>7, <1>8 DEF Book

\* In particular when no job moves at all.
LEMMA BookStays ==
  ASSUME TypeInv, Book, \A j, from, to : JobsMove(j, from, to),
         lastId' = lastId, posts' = posts, archive' = archive,
         worktrees \subseteq worktrees', shown \subseteq shown',
         checker'.expired \subseteq checker.expired
  PROVE  Book'
  <1>1. 1 \in JobId /\ JobsMove(1, "queued", "writing")
    BY QueueAssumption DEF JobId
  <1>2. <<"queued", "writing">> \in AllowedTransitions
    BY DEF AllowedTransitions
  <1>3. QED
    BY <1>1, <1>2, BookMove

\* What the poll task relies on survives a move made by anybody else.
LEMMA PollWorkMove ==
  ASSUME TypeInv, PollWork, NEW j \in JobId, NEW from, NEW to,
         JobsMove(j, from, to),
         from # "publishing", to \notin {"writing", "scoring"},
         poll' = poll, lastId' = lastId, posts' = posts, worktrees' = worktrees
  PROVE  PollWork'
  BY DEF PollWork, JobsMove, TypeInv, PollHasJob

\* What the poll task's point says of its job survives a step that leaves the jobs, the
\* task, the posts and the worktrees alone.
LEMMA PollWorkStays ==
  ASSUME TypeInv, PollWork, \A j, from, to : JobsMove(j, from, to),
         poll' = poll, lastId' = lastId, posts' = posts, worktrees' = worktrees
  PROVE  PollWork'
  <1>1. 1 \in JobId /\ JobsMove(1, "queued", "failed")
    BY QueueAssumption DEF JobId
  <1>2. QED
    BY <1>1, PollWorkMove

-----------------------------------------------------------------------------
(***************************************************************************)
(* The move each action makes.                                             *)
(***************************************************************************)

LEMMA ClaimMoves ==
  ASSUME TypeInv, NEW j \in JobId, PollClaim(j)
  PROVE  JobsMove(j, "queued", "writing")
  <1>1. jobs \in File /\ jobs[j] \in Job
    BY DEF TypeInv, TypeOK, File
  <1>2. QED
    BY <1>1, FrameKept, CasMoves DEF PollClaim, Status

\* The end of a drafting takes the job from writing to scoring at most.
LEMMA SpawnMoves ==
  ASSUME TypeInv, SpawnSucceeds
  PROVE  JobsMove(poll.job, "writing", "scoring")
  <1>1. jobs \in File /\ poll.job \in JobId /\ jobs[poll.job] \in Job
    BY DEF TypeInv, TypeOK, PollHasJob, SpawnSucceeds, File
  <1>2. QED
    BY <1>1, UpdateTypes, FrameKept, CasMoves DEF SpawnSucceeds, Status

\* Failing a job takes it from the status it was believed to have to failed at most.
LEMMA MarkFailedMoves ==
  ASSUME jobs \in File, NEW j \in JobId, NEW current, jobs' = MarkFailed(j, current)
  PROVE  JobsMove(j, current, "failed")
  <1>1. jobs[j] \in Job
    BY DEF File
  <1>2. QED
    BY <1>1, UpdateTypes, FrameKept, CasMoves DEF MarkFailed, Status, Terminal

\* Auto mode takes the job from preview-sent to publishing at most.
LEMMA AutoMoves ==
  ASSUME TypeInv, AutoPublish
  PROVE  JobsMove(poll.job, "preview-sent", "publishing")
  <1>1. jobs \in File /\ poll.job \in JobId /\ jobs[poll.job] \in Job
    BY DEF TypeInv, TypeOK, PollHasJob, AutoPublish, File
  <1>2. QED
    BY <1>1, FrameKept, CasMoves DEF AutoPublish, Status

\* A refusal takes the job from publishing to publish-failed at most.
LEMMA RefuseMoves ==
  ASSUME TypeInv, NEW j \in JobId, PublishRefuse(j)
  PROVE  JobsMove(j, "publishing", "publish-failed")
  <1>1. jobs \in File /\ jobs[j] \in Job
    BY DEF TypeInv, TypeOK, File
  <1>2. QED
    BY <1>1, UpdateTypes, FrameKept, CasMoves DEF PublishRefuse, Status, Terminal

\* The record takes the job from publishing to published or publish-failed at most.
LEMMA RecordMoves ==
  ASSUME TypeInv
  PROVE  /\ PublishRecord => JobsMove(poll.job, "publishing", "published")
         /\ PublishRecordFailure => JobsMove(poll.job, "publishing", "publish-failed")
  <1>1. PublishRecord \/ PublishRecordFailure =>
           jobs \in File /\ poll.job \in JobId /\ jobs[poll.job] \in Job
    BY DEF TypeInv, TypeOK, PollHasJob, PublishRecord, PublishRecordFailure, File
  <1>2. ASSUME PublishRecord PROVE JobsMove(poll.job, "publishing", "published")
    BY <1>1, <1>2, UpdateTypes, FrameKept, CasMoves DEF PublishRecord, Status
  <1>3. ASSUME PublishRecordFailure
        PROVE  JobsMove(poll.job, "publishing", "publish-failed")
    BY <1>1, <1>3, UpdateTypes, FrameKept, CasMoves
       DEF PublishRecordFailure, Status, Terminal
  <1>4. QED
    BY <1>2, <1>3

\* The deadline takes the job from preview-sent to publishing at most.
LEMMA ExpireMoves ==
  ASSUME TypeInv, NEW j \in JobId, CheckerExpire(j)
  PROVE  JobsMove(j, "preview-sent", "publishing")
  <1>1. jobs \in File /\ jobs[j] \in Job
    BY DEF TypeInv, TypeOK, File
  <1>2. QED
    BY <1>1, FrameKept, CasMoves DEF CheckerExpire, Status

\* A click takes the job out of preview-sent at most.
LEMMA ClickMoves ==
  ASSUME TypeInv, NEW j \in JobId, NEW to \in {"publishing", "rejected"}, Click(j, to)
  PROVE  JobsMove(j, "preview-sent", to)
  <1>1. jobs \in File /\ jobs[j] \in Job
    BY DEF TypeInv, TypeOK, File
  <1>2. QED
    BY <1>1, FrameKept, CasMoves DEF Click, Status, Terminal

\* The end of an attestation settles the job, or puts it off.
LEMMA AttestMoves ==
  ASSUME TypeInv, NEW c \in Caller, AttestSucceeds(c) \/ AttestFails(c)
  PROVE  \E from \in {"published", "attest-pending"},
            to \in {"done", "attest-pending", "attest-failed"} :
            <<from, to>> \in AllowedTransitions /\ JobsMove(attest[c].job, from, to)
  <1> DEFINE j == attest[c].job
  <1>f. jobs \in File /\ attest \in AttestType /\ j \in JobId
    BY DEF TypeInv, TypeOK, File, AttestType, AttestSucceeds, AttestFails, Link
  <1>j. jobs[j] \in Job
    BY <1>f DEF File
  <1>s. {"done", "attest-pending", "attest-failed"} \subseteq Status
    BY DEF Status, Terminal
  <1>1. CASE AttestSucceeds(c)
    <2> DEFINE new == [jobs[j] EXCEPT !.notifyPending = TRUE]
    <2>1. new \in Job /\ SameFrame(new, jobs[j])
      BY <1>j, UpdateTypes, FrameKept
    <2>2. jobs' = Cas(jobs, j, attest[c].seen, "done", new)
      BY <1>1 DEF AttestSucceeds
    <2>3. JobsMove(j, attest[c].seen, "done")
      BY <1>f, <1>s, <2>1, <2>2, CasMoves
    <2>4. CASE attest[c].seen \in {"published", "attest-pending"}
      BY <2>3, <2>4 DEF AllowedTransitions
    <2>5. CASE attest[c].seen = "absent"
      <3>1. jobs' = jobs
        BY <2>2, <2>5 DEF Cas, CasWins, AllowedTransitions
      <3>2. JobsMove(j, "published", "done")
        BY <3>1 DEF JobsMove
      <3>3. QED
        BY <3>2 DEF AllowedTransitions
    <2>6. QED
      BY <1>f, <2>4, <2>5 DEF AttestType
  <1>2. CASE AttestFails(c)
    <2> DEFINE tried == [jobs[j] EXCEPT !.attempts = @ + 1]
    <2>1. tried \in Job /\ SameFrame(tried, jobs[j])
          /\ tried.status = jobs[j].status
      BY <1>j, UpdateTypes, FrameKept DEF Job
    <2>2. [tried EXCEPT !.notifyPending = TRUE] \in Job
          /\ SameFrame([tried EXCEPT !.notifyPending = TRUE], jobs[j])
      <3>1. SameFrame([tried EXCEPT !.notifyPending = TRUE], tried)
        BY <2>1, FrameKept
      <3>2. QED
        BY <2>1, <3>1, UpdateTypes DEF SameFrame
    <2>3. \/ jobs' = Cas(jobs, j, "published", "attest-pending", tried)
          \/ jobs' = Cas(jobs, j, "attest-pending", "attest-failed",
                         [tried EXCEPT !.notifyPending = TRUE])
          \/ jobs' = UpdateFields(jobs, j, "attest-pending", tried)
      BY <1>2 DEF AttestFails, FailureRecorded
    <2> HIDE DEF tried
    <2>4. \/ JobsMove(j, "published", "attest-pending")
          \/ JobsMove(j, "attest-pending", "attest-failed")
      BY <1>f, <1>s, <2>1, <2>2, <2>3, CasMoves, UpdateMoves
    <2>5. QED
      BY <2>4 DEF AllowedTransitions
  <1>3. QED
    BY <1>1, <1>2

-----------------------------------------------------------------------------
(***************************************************************************)
(* Every step preserves the invariant.                                     *)
(***************************************************************************)

Control == Mutex /\ Down /\ GcView

\* The write into preview-sent: the only one that opens a preview.
LEMMA ScoreSucceedsKeeps ==
  ASSUME TypeInv, PollWork, Book, ScoreSucceeds
  PROVE  PollWork' /\ Book'
  <1> DEFINE j == poll.job
  <1>f. jobs \in File /\ poll \in PollType /\ j \in JobId /\ jobs[j] \in Job
        /\ lastId \in 0 .. MaxJobs /\ posts \in [JobId -> 0 .. 2]
        /\ checker.expired \subseteq JobId
    BY DEF TypeInv, TypeOK, File, PollType, PollHasJob, ScoreSucceeds
  <1>u. UNCHANGED <<lastId, archive, worktrees, checker, shown, posts>>
    BY DEF ScoreSucceeds, disk, channel
  <1>1. CASE ~CasWins(jobs, j, "scoring", "preview-sent")
    <2>1. jobs' = jobs /\ PollContinues
      BY <1>1 DEF ScoreSucceeds, Cas
    <2>2. PollWork'
      BY <2>1 DEF PollContinues, PollGoesOn, PollIdle, PollWork
    <2>3. Book'
      BY <1>u, <2>1, BookStays DEF JobsMove
    <2>4. QED
      BY <2>2, <2>3
  <1>2. CASE CasWins(jobs, j, "scoring", "preview-sent")
    <2> DEFINE new == Stamped(Scored(jobs[j]), "preview-sent")
    <2>1. new.status = "preview-sent" /\ new.mode = jobs[j].mode
          /\ new.marker = jobs[j].marker /\ new.previewPending = (jobs[j].mode # "auto")
      BY <1>f DEF Stamped, Scored, Job
    <2>2. jobs[j].status = "scoring" /\ jobs' = [jobs EXCEPT ![j] = new]
      BY <1>2 DEF ScoreSucceeds, CasWins, Cas
    <2> HIDE DEF new
    <2>3. /\ \A k \in JobId \ {j} : jobs'[k] = jobs[k]
          /\ jobs'[j] = new
      BY <1>f, <2>2 DEF File
    <2>4. j <= lastId /\ posts[j] = 0
      BY <1>f, <2>2 DEF Book, Fresh, PostedOnlyOnceDecided, Published, JobId
    <2>5. PollWork'
      <3>1. CASE jobs[j].mode = "auto"
        BY <1>2, <1>f, <1>u, <2>1, <2>3, <2>4, <3>1 DEF ScoreSucceeds, PollWork, PollType
      <3>2. CASE jobs[j].mode # "auto"
        BY <1>2, <3>2
           DEF ScoreSucceeds, PollContinues, PollGoesOn, PollIdle, PollWork
      <3>3. QED
        BY <3>1, <3>2
    <2>6. Fresh' /\ Seen'
      <3>1. Fresh'
        BY <1>f, <1>u, <2>3, <2>4 DEF Book, Fresh, JobId
      <3>2. Seen'
        BY <1>u, <2>1, <2>3 DEF Book, Seen
      <3>3. QED
        BY <3>1, <3>2
    <2>7. Expiring'
      BY <1>f, <1>u, <2>2, <2>3 DEF Book, Expiring
    <2>8. PostedOnlyOnceDecided' /\ PublishedMeansPosted' /\ PostLeavesMarker'
      BY <1>f, <1>u, <2>1, <2>3, <2>4
         DEF Book, PostedOnlyOnceDecided, PublishedMeansPosted, PostLeavesMarker,
             Published, InQueue
    <2>9. ArticleKept'
      BY <1>u, <2>1, <2>2, <2>3 DEF Book, ArticleKept
    <2>10. NothingLost'
      <3>1. \A k \in 1 .. lastId : k \in JobId
        BY <1>f, QueueAssumption DEF JobId
      <3>2. QED
        BY <1>u, <2>1, <2>3, <3>1 DEF Book, NothingLost, InQueue
    <2>11. QED
      BY <2>5, <2>6, <2>7, <2>8, <2>9, <2>10 DEF Book
  <1>3. QED
    BY <1>1, <1>2

\* A step of the poll task that keeps or gives up the event loop, while
\* cleanup-gc is idle.
LEMMA ControlPoll ==
  ASSUME TypeInv, Control, poll.pc # "idle", PollHolds \/ LoopFree,
         checker' = checker, gc' = gc, up' = up, attest' = attest
  PROVE  Control'
  <1>1. gc.pc = "idle" /\ checker.pc # "next"
    BY DEF Control, Mutex, LoopFree, TypeInv, TypeOK
  <1>2. up
    BY DEF Control, Down
  <1>3. QED
    BY <1>1, <1>2 DEF Control, Mutex, Down, GcView, PollHolds

\* The tick of queue-poll, the claim and the worktree.
LEMMA InvPollDraft ==
  Inv /\ (PollTick \/ PollMkdir \/ PollMkdirFails \/ \E j \in JobId : PollClaim(j))
  => Mutex' /\ Down' /\ GcView' /\ PollWork' /\ Book'
  <1> SUFFICES ASSUME Inv, PollTick \/ PollMkdir \/ PollMkdirFails
                           \/ \E j \in JobId : PollClaim(j)
               PROVE  Control' /\ PollWork' /\ Book'
    BY DEF Control
  <1>f. jobs \in File /\ poll \in PollType
    BY DEF Inv, TypeInv, TypeOK, File, PollType
  <1>1. ASSUME PollTick PROVE Control' /\ PollWork' /\ Book'
    <2>1. Control'
      BY <1>1 DEF PollTick, Inv, Control, Mutex, Down, GcView, LoopFree
    <2>2. PollWork'
      BY <1>1 DEF PollTick, PollGoesOn, PollIdle, PollWork
    <2>3. Book'
      BY <1>1, BookStays DEF PollTick, Inv, JobsMove, disk, channel
    <2>4. QED
      BY <2>1, <2>2, <2>3
  <1>2. ASSUME PollMkdir PROVE Control' /\ PollWork' /\ Book'
    <2>1. Control'
      BY <1>2, ControlPoll DEF PollMkdir, Inv, Control, PollHolds
    <2>2. PollWork'
      BY <1>2, <1>f DEF PollMkdir, PollWork, Inv, PollType
    <2>3. Book'
      BY <1>2, BookStays DEF PollMkdir, Inv, JobsMove, channel
    <2>4. QED
      BY <2>1, <2>2, <2>3
  <1>3. ASSUME PollMkdirFails PROVE Control' /\ PollWork' /\ Book'
    <2>1. Control'
      BY <1>3, ControlPoll DEF PollMkdirFails, Inv, Control, PollHolds
    <2>2. PollWork'
      BY <1>3 DEF PollMkdirFails, PollWork, PollIdle
    <2>3. Book'
      BY <1>3, BookStays DEF PollMkdirFails, Inv, JobsMove, disk, channel
    <2>4. QED
      BY <2>1, <2>2, <2>3
  <1>4. ASSUME NEW j \in JobId, PollClaim(j) PROVE Control' /\ PollWork' /\ Book'
    <2>1. Control'
      BY <1>4, ControlPoll DEF PollClaim, Inv, Control, PollHolds
    <2>m. JobsMove(j, "queued", "writing")
      BY <1>4, ClaimMoves DEF Inv
    <2>2. PollWork'
      <3>1. CASE CasWins(jobs, j, "queued", "writing")
        <4>1. j <= lastId
          BY <3>1, <1>f DEF CasWins, Inv, Book, Fresh, TypeInv, TypeOK, JobId
        <4>2. poll'.pc = "mkdir" /\ poll'.job = j /\ lastId' = lastId
          <5>1. poll' = [poll EXCEPT !.pc = "mkdir", !.job = j,
                                     !.queued = @ \ {j}]
            BY <1>4, <3>1 DEF PollClaim
          <5>2. QED
            BY <1>4, <1>f, <5>1 DEF PollClaim, PollType
        <4>3. QED
          BY <4>1, <4>2 DEF PollWork
      <3>2. CASE ~CasWins(jobs, j, "queued", "writing")
        <4>1. PollGoesOn(poll.queued \ {j}, poll.publishing)
          BY <1>4, <3>2 DEF PollClaim
        <4>2. QED
          BY <4>1 DEF PollGoesOn, PollIdle, PollWork
      <3>3. QED
        BY <3>1, <3>2
    <2>3. Book'
      BY <1>4, <2>m, BookMove DEF PollClaim, Inv, AllowedTransitions, disk, channel
    <2>4. QED
      BY <2>1, <2>2, <2>3
  <1>5. QED
    BY <1>1, <1>2, <1>3, <1>4

\* The steps of queue-poll behind its two awaits.
LEMMA InvPollScore ==
  Inv /\ (SpawnSucceeds \/ SpawnFails \/ ScoreSucceeds \/ ScoreFails \/ AutoPublish)
  => Mutex' /\ Down' /\ GcView' /\ PollWork' /\ Book'
  <1> SUFFICES ASSUME Inv,
                      SpawnSucceeds \/ SpawnFails \/ ScoreSucceeds \/ ScoreFails
                      \/ AutoPublish
               PROVE  Control' /\ PollWork' /\ Book'
    BY DEF Control
  <1> DEFINE j == poll.job
  <1>f. jobs \in File /\ poll \in PollType /\ j \in JobId /\ jobs[j] \in Job
    BY DEF Inv, TypeInv, TypeOK, File, PollType, PollHasJob, SpawnSucceeds, SpawnFails,
           ScoreSucceeds, ScoreFails, AutoPublish
  <1>c. Control'
    BY ControlPoll DEF SpawnSucceeds, SpawnFails, ScoreSucceeds, ScoreFails,
                       AutoPublish, Inv, Control, PollHolds
  <1>w. PollContinues => PollWork'
    BY DEF PollContinues, PollGoesOn, PollIdle, PollWork
  <1>1. ASSUME SpawnSucceeds PROVE PollWork' /\ Book'
    <2>m. JobsMove(j, "writing", "scoring")
      BY <1>1, SpawnMoves DEF Inv
    <2>t. jobs[j].status = "writing" => j \in worktrees
      BY <1>1 DEF SpawnSucceeds, Inv, PollWork
    <2>1. PollWork'
      <3>1. CASE CasWins(jobs, j, "writing", "scoring")
        <4>1. poll'.pc = "analyze" /\ poll'.job = j /\ lastId' = lastId
              /\ worktrees' = worktrees
          BY <1>1, <1>f, <3>1 DEF SpawnSucceeds, PollType, disk
        <4>2. j \in worktrees /\ j <= lastId
          BY <1>1, <2>t, <3>1 DEF CasWins, SpawnSucceeds, Inv, PollWork
        <4>3. QED
          BY <4>1, <4>2 DEF PollWork
      <3>2. CASE ~CasWins(jobs, j, "writing", "scoring")
        BY <1>1, <1>w, <3>2 DEF SpawnSucceeds
      <3>3. QED
        BY <3>1, <3>2
    <2>2. Book'
      BY <1>1, <1>f, <2>m, <2>t, BookMove
         DEF SpawnSucceeds, Inv, AllowedTransitions, disk, channel
    <2>3. QED
      BY <2>1, <2>2
  <1>2. ASSUME NEW current, <<current, "failed">> \in AllowedTransitions,
               jobs' = MarkFailed(j, current), PollContinues,
               UNCHANGED <<lastId, disk, up, crashes, checker, gc, attest, shown, channel>>
        PROVE  PollWork' /\ Book'
    <2>m. JobsMove(j, current, "failed")
      BY <1>2, <1>f, MarkFailedMoves
    <2>1. Book'
      BY <1>2, <1>f, <2>m, BookMove DEF Inv, disk, channel
    <2>2. QED
      BY <1>2, <1>w, <2>1
  <1>3. ASSUME SpawnFails \/ ScoreFails PROVE PollWork' /\ Book'
    BY <1>2, <1>3 DEF SpawnFails, ScoreFails, AllowedTransitions
  <1>4. ASSUME AutoPublish PROVE PollWork' /\ Book'
    <2>m. JobsMove(j, "preview-sent", "publishing")
      BY <1>4, AutoMoves DEF Inv
    <2>1. Book'
      BY <1>4, <1>f, <2>m, BookMove
         DEF AutoPublish, Inv, AllowedTransitions, disk, channel
    <2>2. QED
      BY <1>4, <1>w, <2>1 DEF AutoPublish
  <1>5. ASSUME ScoreSucceeds PROVE PollWork' /\ Book'
    BY <1>5, <1>f, <1>w, ScoreSucceedsKeeps DEF Inv
  <1>6. QED
    BY <1>c, <1>1, <1>3, <1>4, <1>5

\* The text of a marked job in publishing appears, or does not: the books
\* stay right.
LEMMA BookAppears ==
  ASSUME TypeInv, Book, NEW j \in JobId, NEW landed, Appears(j, landed),
         jobs[j].status = "publishing", jobs[j].marker,
         UNCHANGED <<jobs, lastId, disk, checker, shown>>
  PROVE  Book'
  <1>f. posts \in [JobId -> 0 .. 2] /\ lastId \in 0 .. MaxJobs
    BY DEF TypeInv, TypeOK
  <1>1. \A k \in JobId : k # j => posts'[k] = posts[k]
    BY <1>f DEF Appears, channel
  <1>2. \A k \in JobId : posts[k] > 0 => posts'[k] > 0
    BY <1>f DEF Appears, channel
  <1>3. Fresh' /\ Expiring' /\ Seen'
    BY <1>1 DEF Book, Fresh, Expiring, Seen
  <1>4. PostedOnlyOnceDecided' /\ PostLeavesMarker'
    BY <1>1 DEF Book, PostedOnlyOnceDecided, PostLeavesMarker, InQueue
  <1>5. PublishedMeansPosted'
    BY <1>2 DEF Book, PublishedMeansPosted
  <1>6. ArticleKept' /\ NothingLost'
    BY DEF Book, ArticleKept, NothingLost, InQueue, disk
  <1>7. QED
    BY <1>3, <1>4, <1>5, <1>6 DEF Book

\* The steps of the publish step.
LEMMA InvPublish ==
  Inv /\ (\/ \E j \in JobId : PublishRefuse(j) \/ PublishMark(j)
          \/ \E ok, landed \in BOOLEAN : CampaignReturns(ok, landed)
          \/ \E landed \in BOOLEAN : CampaignRaises(landed)
          \/ PublishRecord \/ PublishRecordFailure)
  => Mutex' /\ Down' /\ GcView' /\ PollWork' /\ Book'
  <1> SUFFICES ASSUME Inv,
                      \/ \E j \in JobId : PublishRefuse(j) \/ PublishMark(j)
                      \/ \E ok, landed \in BOOLEAN : CampaignReturns(ok, landed)
                      \/ \E landed \in BOOLEAN : CampaignRaises(landed)
                      \/ PublishRecord \/ PublishRecordFailure
               PROVE  Control' /\ PollWork' /\ Book'
    BY DEF Control
  <1>f. jobs \in File /\ poll \in PollType /\ posts \in [JobId -> 0 .. 2]
        /\ lastId \in 0 .. MaxJobs
    BY DEF Inv, TypeInv, TypeOK, File, PollType
  <1>c. Control'
    <2>1. poll.pc # "idle" /\ PollHolds
      BY DEF PublishRefuse, PublishMark, PublishNext, CampaignReturns, CampaignRaises,
             PublishRecord, PublishRecordFailure, PollHolds
    <2>2. UNCHANGED <<checker, gc, up, attest>>
      BY DEF PublishRefuse, PublishMark, CampaignReturns, CampaignRaises,
             PublishRecord, PublishRecordFailure
    <2>3. QED
      BY <2>1, <2>2, ControlPoll DEF Inv, Control
  <1>1. ASSUME NEW j \in JobId, NEW target \in {"published", "publish-failed"},
               JobsMove(j, "publishing", target),
               target = "published" => posts[j] > 0,
               poll'.pc \in {"idle", "next"},
               UNCHANGED <<lastId, disk, checker, shown, channel>>
        PROVE  PollWork' /\ Book'
    <2>1. <<"publishing", target>> \in AllowedTransitions
      BY DEF AllowedTransitions
    <2>2. Book'
      BY <1>1, <2>1, BookMove DEF Inv, disk, channel
    <2>3. QED
      BY <1>1, <2>2 DEF PollWork
  <1>g. ASSUME NEW queued, NEW publishing, PollGoesOn(queued, publishing)
        PROVE  poll'.pc \in {"idle", "next"}
    BY <1>g DEF PollGoesOn, PollIdle
  <1>2. ASSUME NEW j \in JobId, PublishRefuse(j) PROVE PollWork' /\ Book'
    <2>1. JobsMove(j, "publishing", "publish-failed")
      BY <1>2, RefuseMoves DEF Inv
    <2>2. QED
      BY <1>2, <2>1, <1>1, <1>g DEF PublishRefuse
  <1>3. ASSUME NEW j \in JobId, PublishMark(j) PROVE PollWork' /\ Book'
    <2> DEFINE new == [jobs[j] EXCEPT !.marker = TRUE]
    <2>1. new.status = jobs[j].status /\ new.mode = jobs[j].mode /\ new.marker
          /\ new.previewPending = jobs[j].previewPending
      BY <1>f DEF File, Job
    <2>2. jobs' = [jobs EXCEPT ![j] = new] /\ jobs[j].status = "publishing"
      BY <1>3 DEF PublishMark, UpdateFields
    <2> HIDE DEF new
    <2>3. jobs'[j] = new /\ \A k \in JobId \ {j} : jobs'[k] = jobs[k]
      BY <1>f, <2>2 DEF File
    <2>u. UNCHANGED <<lastId, disk, checker, shown, channel>>
      BY <1>3 DEF PublishMark
    <2>4. PollWork'
      <3>1. j <= lastId
        BY <1>f, <2>2 DEF Inv, Book, Fresh, JobId
      <3>2. poll'.pc = "campaign" /\ poll'.job = j
        <4>1. poll' = [poll EXCEPT !.pc = "campaign", !.job = j,
                                   !.publishing = @ \ {j}]
          BY <1>3 DEF PublishMark
        <4>2. QED
          BY <1>f, <4>1 DEF PollType
      <3>3. QED
        BY <2>1, <2>2, <2>3, <2>u, <3>1, <3>2 DEF PollWork
    <2>5. Fresh' /\ Seen' /\ Expiring'
      <3>1. Fresh' /\ Seen'
        BY <2>1, <2>2, <2>3, <2>u DEF Inv, Book, Fresh, Seen, channel
      <3>2. checker.expired \subseteq JobId
        BY DEF Inv, TypeInv, TypeOK
      <3>3. Expiring'
        BY <2>1, <2>2, <2>3, <2>u, <3>2 DEF Inv, Book, Expiring
      <3>4. QED
        BY <3>1, <3>3
    <2>6. PostedOnlyOnceDecided' /\ PublishedMeansPosted' /\ PostLeavesMarker'
      BY <2>1, <2>2, <2>3, <2>u
         DEF Inv, Book, PostedOnlyOnceDecided, PublishedMeansPosted, PostLeavesMarker,
             Published, InQueue, channel
    <2>7. ArticleKept'
      BY <2>1, <2>2, <2>3, <2>u DEF Inv, Book, ArticleKept, disk
    <2>8. NothingLost'
      <3>1. \A k \in 1 .. lastId : k \in JobId
        BY <1>f, QueueAssumption DEF JobId
      <3>2. QED
        BY <2>1, <2>2, <2>3, <2>u, <3>1 DEF Inv, Book, NothingLost, InQueue, disk
    <2>9. QED
      BY <2>4, <2>5, <2>6, <2>7, <2>8 DEF Book
  <1>4. ASSUME NEW ok \in BOOLEAN, NEW landed \in BOOLEAN,
               CampaignReturns(ok, landed) \/ CampaignRaises(landed)
        PROVE  PollWork' /\ Book'
    <2>1. poll.pc = "campaign" /\ Appears(poll.job, landed)
          /\ UNCHANGED <<jobs, lastId, disk, checker, shown>>
      BY <1>4 DEF CampaignReturns, CampaignRaises
    <2>2. poll.job \in JobId /\ poll.job <= lastId
          /\ jobs[poll.job].status = "publishing" /\ jobs[poll.job].marker
      BY <2>1 DEF Inv, TypeInv, PollHasJob, PollWork
    <2>3. Book'
      BY <2>1, <2>2, BookAppears DEF Inv
    <2>4. PollWork'
      <3>1. CASE CampaignReturns(ok, landed)
        <4>1. poll' = [poll EXCEPT !.pc = IF ok THEN "record" ELSE "record-failure"]
              /\ (ok => landed)
          BY <3>1 DEF CampaignReturns
        <4>2. poll'.job = poll.job
              /\ poll'.pc = (IF ok THEN "record" ELSE "record-failure")
          BY <1>f, <4>1 DEF PollType
        <4>3. landed => posts'[poll.job] > 0
          BY <1>f, <2>1, <2>2 DEF Appears
        <4>4. QED
          BY <2>1, <2>2, <4>1, <4>2, <4>3 DEF PollWork
      <3>2. CASE CampaignRaises(landed)
        BY <3>2 DEF CampaignRaises, PollIdle, PollWork
      <3>3. QED
        BY <1>4, <3>1, <3>2
    <2>5. QED
      BY <2>3, <2>4
  <1>5. ASSUME PublishRecord PROVE PollWork' /\ Book'
    <2>1. poll.job \in JobId /\ posts[poll.job] > 0
      BY <1>5 DEF PublishRecord, Inv, TypeInv, PollHasJob, PollWork
    <2>2. JobsMove(poll.job, "publishing", "published")
      BY <1>5, RecordMoves DEF Inv
    <2>3. QED
      BY <1>5, <2>1, <2>2, <1>1, <1>g DEF PublishRecord, PollContinues
  <1>6. ASSUME PublishRecordFailure PROVE PollWork' /\ Book'
    <2>1. poll.job \in JobId
      BY <1>6 DEF PublishRecordFailure, Inv, TypeInv, PollHasJob
    <2>2. JobsMove(poll.job, "publishing", "publish-failed")
      BY <1>6, RecordMoves DEF Inv
    <2>3. QED
      BY <1>6, <2>1, <2>2, <1>1, <1>g DEF PublishRecordFailure, PollContinues
  <1>7. QED
    BY <1>c, <1>2, <1>3, <1>4, <1>5, <1>6

\* The steps of deadline-checker, and of the attestations it starts.
LEMMA InvChecker ==
  Inv /\ (CheckerStep \/ AttestStep) => Mutex' /\ Down' /\ GcView' /\ PollWork' /\ Book'
  <1> SUFFICES ASSUME Inv, CheckerStep \/ AttestStep
               PROVE  Control' /\ PollWork' /\ Book'
    BY DEF Control
  <1>f. jobs \in File /\ checker \in CheckerType /\ attest \in AttestType
    BY DEF Inv, TypeInv, TypeOK, File, CheckerType, AttestType
  <1>g. ASSUME NEW expired, NEW retry, CheckerGoesOn(expired, retry)
        PROVE  /\ checker'.expired \subseteq expired
               /\ checker'.pc \in {"idle", "next"}
    BY <1>g DEF CheckerGoesOn, CheckerIdle
  <1>1. ASSUME CheckerTick PROVE Control' /\ PollWork' /\ Book'
    <2>1. Control'
      BY <1>1 DEF CheckerTick, LoopFree, Inv, Control, Mutex, Down, GcView, PollHolds
    <2>2. PollWork'
      BY <1>1 DEF CheckerTick, Inv, PollWork, disk, channel
    <2>3. Fresh' /\ Seen' /\ PostedOnlyOnceDecided' /\ PublishedMeansPosted'
          /\ PostLeavesMarker' /\ ArticleKept' /\ NothingLost'
      BY <1>1 DEF CheckerTick, Inv, Book, Fresh, Seen, PostedOnlyOnceDecided,
                  PublishedMeansPosted, PostLeavesMarker, ArticleKept, NothingLost,
                  InQueue, disk, channel
    <2>4. Expiring'
      <3>1. \A j \in checker'.expired : j \in JobId /\ DeadlineReached(jobs[j])
        BY <1>1, <1>g DEF CheckerTick
      <3>2. \A j \in JobId : jobs[j].status = "preview-sent" => j <= lastId
        BY DEF Inv, Book, Fresh, TypeInv, TypeOK, JobId
      <3>3. jobs' = jobs /\ lastId' = lastId
        BY <1>1 DEF CheckerTick
      <3>4. QED
        BY <3>1, <3>2, <3>3 DEF DeadlineReached, Expiring
    <2>5. QED
      BY <2>1, <2>2, <2>3, <2>4 DEF Book
  <1>2. ASSUME NEW j \in JobId, CheckerExpire(j) PROVE Control' /\ PollWork' /\ Book'
    <2>1. CheckerGoesOn(checker.expired \ {j}, checker.retry) /\ checker.pc = "next"
          /\ jobs' = Cas(jobs, j, "preview-sent", "publishing", jobs[j])
          /\ UNCHANGED <<lastId, disk, up, poll, gc, attest, shown, channel>>
      BY <1>2 DEF CheckerExpire
    <2>2. Control'
      BY <2>1 DEF Inv, Control, Mutex, Down, GcView, PollHolds
    <2>m. JobsMove(j, "preview-sent", "publishing")
      BY <1>2, ExpireMoves DEF Inv
    <2>3. PollWork'
      BY <2>1, <2>m, PollWorkMove DEF Inv, disk, channel
    <2>4. checker'.expired \subseteq checker.expired
      BY <2>1, <1>g
    <2>5. Book'
      BY <2>1, <2>m, <2>4, BookMove DEF Inv, AllowedTransitions, disk, channel
    <2>6. QED
      BY <2>2, <2>3, <2>5
  <1>3. ASSUME NEW j \in JobId, CheckerAttest(j) \/ DirectAttest(j)
        PROVE  Control' /\ PollWork' /\ Book'
    <2>1. UNCHANGED <<jobs, lastId, disk, up, poll, gc, shown, channel>> /\ up
          /\ checker'.expired \subseteq checker.expired
          /\ (checker'.pc = "next" => checker.pc = "next")
      <3>1. CASE CheckerAttest(j)
        <4>1. checker' = [checker EXCEPT !.pc = "sign", !.retry = @ \ {j}]
              \/ CheckerGoesOn(checker.expired, checker.retry \ {j})
          BY <3>1 DEF CheckerAttest
        <4>2. checker'.expired \subseteq checker.expired
          BY <1>f, <1>g, <4>1 DEF CheckerType
        <4>3. up /\ checker.pc = "next"
          BY <3>1 DEF CheckerAttest, Inv, Down
        <4>4. QED
          BY <3>1, <4>2, <4>3 DEF CheckerAttest
      <3>2. CASE DirectAttest(j)
        BY <3>2 DEF DirectAttest
      <3>3. QED
        BY <1>3, <3>1, <3>2
    <2>2. Control'
      BY <2>1 DEF Inv, Control, Mutex, Down, GcView, PollHolds, disk
    <2>3. PollWork' /\ Book'
      <3>1. \A k, from, to : JobsMove(k, from, to)
        BY <2>1 DEF JobsMove
      <3>2. QED
        BY <2>1, <3>1, PollWorkStays, BookStays DEF Inv, disk, channel
    <2>4. QED
      BY <2>2, <2>3
  <1>4. ASSUME NEW c \in Caller, AttestSucceeds(c) \/ AttestFails(c)
        PROVE  Control' /\ PollWork' /\ Book'
    <2> DEFINE j == attest[c].job
    <2>1. j \in JobId /\ LoopFree /\ up /\ AttestEnds(c)
          /\ UNCHANGED <<lastId, disk, up, poll, gc, shown, channel>>
      BY <1>4, <1>f
         DEF AttestSucceeds, AttestFails, AttestType, Link, Inv, Down
    <2>2. Control'
      BY <2>1 DEF LoopFree, Inv, Control, Mutex, Down, GcView, PollHolds
    <2>m. \E from \in {"published", "attest-pending"},
             to \in {"done", "attest-pending", "attest-failed"} :
             <<from, to>> \in AllowedTransitions /\ JobsMove(j, from, to)
      BY <1>4, AttestMoves DEF Inv
    <2>3. PollWork'
      BY <2>1, <2>m, PollWorkMove DEF Inv, disk, channel
    <2>4. checker'.expired \subseteq checker.expired
      BY <2>1, <1>g DEF AttestEnds
    <2>5. Book'
      BY <2>1, <2>m, <2>4, BookMove DEF Inv, disk, channel
    <2>6. QED
      BY <2>2, <2>3, <2>5
  <1>5. QED
    BY <1>1, <1>2, <1>3, <1>4 DEF CheckerStep, AttestStep

\* The steps of cleanup-gc.
LEMMA InvGc == Inv /\ GcStep => Mutex' /\ Down' /\ GcView' /\ PollWork' /\ Book'
  <1> SUFFICES ASSUME Inv, GcStep
               PROVE  Control' /\ PollWork' /\ Book'
    BY DEF Control
  <1>f. jobs \in File /\ gc \in GcType /\ archive \in [JobId -> 0 .. 2]
        /\ lastId \in 0 .. MaxJobs /\ posts \in [JobId -> 0 .. 2]
        /\ checker.expired \subseteq JobId
    BY DEF Inv, TypeInv, TypeOK, File, GcType
  <1>1. ASSUME GcTick PROVE Control' /\ PollWork' /\ Book'
    <2>1. Control'
      BY <1>1, <1>f DEF GcTick, Collectable, LoopFree, Inv, Control, Mutex, Down, GcView,
                        PollHolds
    <2>2. PollWork' /\ Book'
      <3>1. \A k, from, to : JobsMove(k, from, to)
        BY <1>1 DEF GcTick, JobsMove
      <3>2. QED
        BY <1>1, <3>1, PollWorkStays, BookStays DEF GcTick, Inv, disk, channel
    <2>3. QED
      BY <2>1, <2>2
  <1>2. ASSUME NEW j \in JobId, GcArchive(j) PROVE Control' /\ PollWork' /\ Book'
    <2>1. gc' = [gc EXCEPT !.pc = "rmtree", !.job = j, !.todo = @ \ {j}]
          /\ gc.pc = "archive" /\ j \in gc.todo
          /\ UNCHANGED <<jobs, lastId, worktrees, up, poll, checker, attest, shown, channel>>
      BY <1>2 DEF GcArchive, Earliest
    <2>2. archive'[j] > 0 /\ \A k \in JobId : archive[k] > 0 => archive'[k] > 0
      BY <1>2, <1>f DEF GcArchive
    <2>3. gc'.pc = "rmtree" /\ gc'.job = j /\ gc'.todo = gc.todo \ {j}
          /\ gc'.remove = gc.remove /\ gc'.file = gc.file
      BY <2>1, <1>f DEF GcType
    <2>4. GcView'
      <3>1. gc.remove \subseteq JobId
        BY <1>f DEF GcType
      <3>2. QED
        BY <2>1, <2>2, <2>3, <3>1 DEF Inv, GcView
    <2>5. Mutex' /\ Down'
      BY <2>1, <2>3 DEF Inv, Mutex, Down, PollHolds
    <2>6. PollWork'
      BY <2>1 DEF Inv, PollWork, channel
    <2>7. NothingLost'
      <3>1. \A k \in 1 .. lastId : k \in JobId
        BY <1>f, QueueAssumption DEF JobId
      <3>2. QED
        BY <2>1, <2>2, <3>1 DEF Inv, Book, NothingLost, InQueue
    <2>8. Book'
      BY <2>1, <2>7
         DEF Inv, Book, Fresh, Expiring, Seen, PostedOnlyOnceDecided, PublishedMeansPosted,
             PostLeavesMarker, ArticleKept, InQueue, channel
    <2>9. QED
      BY <2>4, <2>5, <2>6, <2>8 DEF Control
  <1>3. ASSUME NEW removed \in BOOLEAN, GcRmtree(removed)
        PROVE  Control' /\ PollWork' /\ Book'
    <2>1. gc.pc = "rmtree" /\ worktrees \ {gc.job} \subseteq worktrees'
          /\ UNCHANGED <<jobs, lastId, archive, up, poll, checker, attest, shown, channel>>
      BY <1>3 DEF GcRmtree
    <2>2. jobs[gc.job].status \in Terminal
      BY <2>1 DEF Inv, GcView
    <2>3. gc'.pc = (IF gc.todo = {} THEN "rewrite" ELSE "archive")
          /\ gc'.todo = gc.todo /\ gc'.remove = gc.remove /\ gc'.file = gc.file
      <3>1. gc' = [gc EXCEPT !.pc = IF gc.todo = {} THEN "rewrite" ELSE "archive",
                             !.job = None]
        BY <1>3 DEF GcRmtree
      <3>2. QED
        BY <1>f, <3>1 DEF GcType
    <2>4. GcView' /\ Mutex' /\ Down'
      BY <2>1, <2>3 DEF Inv, GcView, Mutex, Down, PollHolds
    <2>5. PollWork'
      BY <2>1, <2>2 DEF Inv, PollWork, Terminal, channel
    <2>6. ArticleKept'
      BY <2>1, <2>2 DEF Inv, Book, ArticleKept, Terminal
    <2>7. Book'
      BY <2>1, <2>6
         DEF Inv, Book, Fresh, Expiring, Seen, PostedOnlyOnceDecided, PublishedMeansPosted,
             PostLeavesMarker, NothingLost, InQueue, channel
    <2>8. QED
      BY <2>4, <2>5, <2>7 DEF Control
  <1>4. ASSUME GcRewrite PROVE Control' /\ PollWork' /\ Book'
    <2>1. gc.pc = "rewrite" /\ gc' = GcIdle
          /\ UNCHANGED <<lastId, disk, up, poll, checker, attest, shown, channel>>
      BY <1>4 DEF GcRewrite
    <2>2. \A k \in JobId : jobs'[k] = IF k \in gc.remove THEN NoJob ELSE jobs[k]
      BY <1>4 DEF GcRewrite, Inv, GcView
    <2>3. NoJob.status = "absent"
      BY DEF NoJob
    <2>4. /\ \A k \in gc.remove : archive[k] > 0 /\ jobs[k].status \in Terminal
          /\ gc.remove \subseteq JobId
      BY <2>1, <1>f DEF Inv, GcView, GcType
    <2>5. Control'
      BY <2>1 DEF Inv, Control, Mutex, Down, GcView, GcIdle, PollHolds
    <2>6. PollWork'
      <3>1. ~PollHolds /\ UNCHANGED <<poll, lastId, worktrees, posts>>
        BY <2>1 DEF Inv, Mutex, disk, channel
      <3>2. poll.pc \in {"spawn", "analyze"} => poll.job \in JobId
        BY DEF Inv, TypeInv, PollHasJob
      <3>3. QED
        BY <2>2, <2>3, <3>1, <3>2 DEF Inv, PollWork, PollHolds
    <2>7. Fresh' /\ Seen'
      BY <2>1, <2>2, <2>3 DEF Inv, Book, Fresh, Seen, channel
    <2>8. Expiring'
      BY <1>f, <2>1, <2>2, <2>3 DEF Inv, Book, Expiring
    <2>9. PostedOnlyOnceDecided' /\ PublishedMeansPosted' /\ PostLeavesMarker'
      BY <2>1, <2>2, <2>3
         DEF Inv, Book, PostedOnlyOnceDecided, PublishedMeansPosted, PostLeavesMarker,
             Published, InQueue, channel
    <2>10. ArticleKept' /\ NothingLost'
      <3>1. \A k \in 1 .. lastId : k \in JobId
        BY <1>f, QueueAssumption DEF JobId
      <3>2. QED
        BY <2>1, <2>2, <2>3, <2>4, <3>1
           DEF Inv, Book, ArticleKept, NothingLost, InQueue, disk
    <2>11. QED
      BY <2>5, <2>6, <2>7, <2>8, <2>9, <2>10 DEF Book
  <1>5. QED
    BY <1>1, <1>2, <1>3, <1>4 DEF GcStep

\* Crash, restart and time.
LEMMA InvWorld ==
  Inv /\ (Crash \/ Restart \/ Tick) => Mutex' /\ Down' /\ GcView' /\ PollWork' /\ Book'
  <1> SUFFICES ASSUME Inv, Crash \/ Restart \/ Tick
               PROVE  Control' /\ PollWork' /\ Book'
    BY DEF Control
  <1>f. jobs \in File /\ gc \in GcType /\ posts \in [JobId -> 0 .. 2]
        /\ lastId \in 0 .. MaxJobs /\ checker.expired \subseteq JobId
    BY DEF Inv, TypeInv, TypeOK, File, GcType
  <1>1. ASSUME Crash PROVE Control' /\ PollWork' /\ Book'
    <2>1. Control' /\ PollWork'
      BY <1>1 DEF Crash, Control, Mutex, Down, GcView, PollHolds, PollIdle, CheckerIdle,
                  GcIdle, NoCall, PollWork
    <2>2. Book'
      <3>1. \A k, from, to : JobsMove(k, from, to)
        BY <1>1 DEF Crash, JobsMove
      <3>2. QED
        BY <1>1, <3>1, BookStays DEF Crash, CheckerIdle, Inv, disk, channel
    <2>3. QED
      BY <2>1, <2>2
  <1>2. ASSUME Restart PROVE Control' /\ PollWork' /\ Book'
    <2>1. poll.pc = "idle" /\ checker.pc = "idle" /\ gc.pc = "idle"
          /\ UNCHANGED <<lastId, disk, poll, checker, gc, attest, shown, channel>>
      BY <1>2 DEF Restart, Inv, Down, task
    <2>2. ASSUME NEW job \in Job
          PROVE  /\ \/ Recovered(job) = job
                    \/ /\ job.status \in {"writing", "scoring"}
                       /\ Recovered(job).status = "queued"
                 /\ SameFrame(Recovered(job), job)
      <3>1. CASE job.status \in {"writing", "scoring"}
        BY <3>1 DEF Recovered, SameFrame, Job
      <3>2. CASE job.status \notin {"writing", "scoring"}
        BY <3>2 DEF Recovered, SameFrame
      <3>3. QED
        BY <3>1, <3>2
    <2>3. \A k \in JobId :
             /\ \/ jobs'[k] = jobs[k]
                \/ /\ jobs[k].status \in {"writing", "scoring"}
                   /\ jobs'[k].status = "queued"
             /\ SameFrame(jobs'[k], jobs[k])
      BY <1>2, <1>f, <2>2 DEF Restart, File
    <2>4. Control' /\ PollWork'
      BY <1>2, <2>1 DEF Restart, Control, Mutex, Down, GcView, PollHolds, PollWork
    <2>5. Fresh' /\ Seen' /\ Expiring'
      <3>1. Fresh' /\ Seen'
        BY <2>1, <2>3 DEF Inv, Book, Fresh, Seen, SameFrame, channel
      <3>2. Expiring'
        BY <1>f, <2>1, <2>3 DEF Inv, Book, Expiring
      <3>3. QED
        BY <3>1, <3>2
    <2>6. PostedOnlyOnceDecided' /\ PublishedMeansPosted' /\ PostLeavesMarker'
      BY <2>1, <2>3
         DEF Inv, Book, PostedOnlyOnceDecided, PublishedMeansPosted, PostLeavesMarker,
             Published, InQueue, SameFrame, channel
    <2>7. ArticleKept' /\ NothingLost'
      <3>1. \A k \in 1 .. lastId : k \in JobId
        BY <1>f, QueueAssumption DEF JobId
      <3>2. ArticleKept'
        BY <2>1, <2>3 DEF Inv, Book, ArticleKept, disk
      <3>3. NothingLost'
        BY <2>1, <2>3, <3>1 DEF Inv, Book, NothingLost, InQueue, disk
      <3>4. QED
        BY <3>2, <3>3
    <2>8. QED
      BY <2>4, <2>5, <2>6, <2>7 DEF Book
  <1>3. ASSUME Tick PROVE Control' /\ PollWork' /\ Book'
    <2>m. \A k, from, to : JobsMove(k, from, to)
      BY <1>3, <1>f, AgedMoves DEF Tick
    <2>1. gc'.pc = gc.pc /\ gc'.job = gc.job /\ gc'.todo = gc.todo
          /\ gc'.remove = gc.remove /\ gc'.file = AgedFile(gc.file)
      BY <1>3, <1>f DEF Tick, GcType
    <2>2. Control'
      <3>1. Mutex' /\ Down'
        BY <1>3, <2>1 DEF Tick, Inv, Mutex, Down, PollHolds
      <3>2. GcView'
        <4>1. \A j \in JobId : jobs'[j].status = jobs[j].status
          <5>1. \A k \in JobId : JobsMove(k, "absent", "absent")
            BY <2>m
          <5>2. QED
            BY <5>1 DEF JobsMove
        <4>2. gc.remove \subseteq JobId
          BY <1>f DEF GcType
        <4>3. QED
          BY <1>3, <2>1, <4>1, <4>2 DEF Tick, Inv, GcView, disk
      <3>3. QED
        BY <3>1, <3>2 DEF Control
    <2>3. PollWork' /\ Book'
      BY <1>3, <2>m, PollWorkStays, BookStays DEF Tick, Inv, disk
    <2>4. QED
      BY <2>2, <2>3
  <1>4. QED
    BY <1>1, <1>2, <1>3

\* A ticket in status queued is added under the next id: by a brief, or by a
\* retry, which closes the old ticket in the same write.
LEMMA BookNew ==
  ASSUME TypeInv, Book, NEW new \in JobId, new = lastId + 1, lastId' = new,
         jobs'[new].status = "queued",
         NEW old, old # new, old \in JobId => jobs[old].status = "preview-sent"
                                              /\ jobs'[old].status = "regenerated"
                                              /\ SameFrame(jobs'[old], jobs[old]),
         \A k \in JobId \ {old, new} : jobs'[k] = jobs[k],
         UNCHANGED <<disk, checker, shown, channel>>
  PROVE  Book'
  <1>f. lastId \in 0 .. MaxJobs /\ new > lastId /\ posts \in [JobId -> 0 .. 2]
        /\ checker.expired \subseteq JobId
    BY DEF TypeInv, TypeOK
  <1>1. jobs[new].status = "absent" /\ posts[new] = 0
    BY <1>f DEF Book, Fresh
  <1>2. old \in JobId => old <= lastId /\ posts[old] = 0
    BY <1>f DEF Book, Fresh, PostedOnlyOnceDecided, Published, JobId
  <1>3. Fresh'
    BY <1>f, <1>2 DEF Book, Fresh, JobId, channel
  <1>4. Expiring'
    <2>1. \A k \in checker.expired : k # new
      BY <1>f DEF Book, Expiring
    <2>2. QED
      <3>1. \A k \in checker.expired :
               /\ k <= lastId
               /\ jobs'[k] = jobs[k] \/ jobs'[k].status = "regenerated"
        BY <1>f, <2>1 DEF Book, Expiring
      <3>2. \A k \in checker.expired : k <= lastId'
        BY <1>f, <3>1 DEF JobId
      <3>3. QED
        BY <3>1, <3>2 DEF Book, Expiring
  <1>5. Seen'
    BY DEF Book, Seen
  <1>6. PostedOnlyOnceDecided' /\ PublishedMeansPosted' /\ PostLeavesMarker'
    BY <1>1, <1>2 DEF Book, PostedOnlyOnceDecided, PublishedMeansPosted,
                      PostLeavesMarker, Published, InQueue, channel
  <1>7. ArticleKept'
    BY DEF Book, ArticleKept, disk
  <1>8. NothingLost'
    <2>1. \A k \in 1 .. lastId' : k \in JobId /\ (k = new \/ k \in 1 .. lastId)
      BY <1>f, QueueAssumption DEF JobId
    <2>2. \A k \in JobId \ {new} : InQueue(jobs, k) => InQueue(jobs', k)
      BY DEF InQueue
    <2>3. InQueue(jobs', new)
      BY DEF InQueue
    <2>4. QED
      BY <2>1, <2>2, <2>3 DEF Book, NothingLost, disk
  <1>9. QED
    BY <1>3, <1>4, <1>5, <1>6, <1>7, <1>8 DEF Book

\* The steps of the bot.
LEMMA InvBot == Inv /\ BotStep => Mutex' /\ Down' /\ GcView' /\ PollWork' /\ Book'
  <1> SUFFICES ASSUME Inv, BotStep
               PROVE  Control' /\ PollWork' /\ Book'
    BY DEF Control
  <1>f. jobs \in File /\ lastId \in 0 .. MaxJobs
    BY DEF Inv, TypeInv, TypeOK, File
  <1>n. lastId < MaxJobs => lastId + 1 \in JobId
    BY <1>f, QueueAssumption DEF JobId
  <1>c. ASSUME BotUnchanged, LockFree PROVE Control'
    BY <1>c DEF BotUnchanged, LockFree, task, Inv, Control, Mutex, Down, GcView, PollHolds
  <1>1. ASSUME NEW mode \in Modes, NEW fireIn \in FireDelays, Submit(mode, fireIn)
        PROVE  Control' /\ PollWork' /\ Book'
    <2> DEFINE n == lastId + 1
    <2>1. n \in JobId /\ LockFree /\ BotUnchanged /\ lastId' = n /\ shown' = shown
          /\ jobs' = [jobs EXCEPT ![n] = NewJob(mode, fireIn, None)]
      BY <1>1, <1>n DEF Submit, AppendJob
    <2>2. NewJob(mode, fireIn, None).status = "queued"
      BY DEF NewJob, NoJob
    <2>3. jobs'[n].status = "queued" /\ \A k \in JobId \ {n} : jobs'[k] = jobs[k]
      BY <1>f, <2>1, <2>2 DEF File
    <2>4. PollWork'
      BY <1>f, <2>1, <2>3 DEF BotUnchanged, task, disk, channel, Inv, PollWork, TypeInv,
                              PollHasJob, Book, Fresh, JobId
    <2>5. Book'
      <3>1. None \notin JobId
        BY QueueAssumption DEF JobId
      <3>2. QED
        BY <2>1, <2>3, <3>1, BookNew DEF BotUnchanged, task, Inv
    <2>6. QED
      BY <1>c, <2>1, <2>4, <2>5
  <1>2. ASSUME NEW j \in JobId, Retry(j) PROVE Control' /\ PollWork' /\ Book'
    <2> DEFINE n == lastId + 1
    <2> DEFINE closed == [jobs[j] EXCEPT !.status = "regenerated", !.regeneratedTo = n]
    <2> DEFINE added == NewJob(jobs[j].mode, jobs[j].fireIn, j)
    <2>1. n \in JobId /\ LockFree /\ BotUnchanged /\ lastId' = n /\ shown' = shown
          /\ jobs[j].status = "preview-sent"
          /\ jobs' = [jobs EXCEPT ![j] = closed, ![n] = added]
      BY <1>2, <1>n DEF Retry, Regenerate, CasWins
    <2>2. closed.status = "regenerated" /\ SameFrame(closed, jobs[j])
          /\ added.status = "queued"
      BY <1>f DEF NewJob, NoJob, File, Job, SameFrame
    <2>3. j # n
      BY <1>f, <2>1 DEF Inv, Book, Fresh
    <2> HIDE DEF closed, added
    <2>4. jobs'[n] = added /\ jobs'[j] = closed
          /\ \A k \in JobId \ {j, n} : jobs'[k] = jobs[k]
      BY <1>f, <2>1, <2>3 DEF File
    <2>5. PollWork'
      <3>1. UNCHANGED <<poll, worktrees, posts>> /\ lastId <= lastId'
        BY <1>f, <2>1 DEF BotUnchanged, task, disk, channel
      <3>2. CASE poll.pc \in {"idle", "next"}
        BY <3>1, <3>2 DEF PollWork
      <3>3. CASE poll.pc \notin {"idle", "next"}
        <4>1. poll.job \in JobId /\ poll.job <= lastId /\ poll.job # n
          BY <1>f, <3>3 DEF Inv, TypeInv, PollHasJob, PollWork, JobId
        <4>2. \/ jobs'[poll.job] = jobs[poll.job]
              \/ /\ jobs[poll.job].status = "preview-sent"
                 /\ jobs'[poll.job].status = "regenerated"
                 /\ jobs'[poll.job].mode = jobs[poll.job].mode
          BY <2>1, <2>2, <2>4, <4>1 DEF SameFrame
        <4>3. poll.job <= lastId'
          BY <1>f, <3>1, <4>1, <2>1, QueueAssumption DEF JobId
        <4>4. QED
          BY <3>1, <4>2, <4>3 DEF Inv, PollWork
      <3>4. QED
        BY <3>2, <3>3
    <2>6. Book'
      BY <2>1, <2>2, <2>3, <2>4, BookNew DEF BotUnchanged, task, Inv
    <2>7. QED
      BY <1>c, <2>1, <2>5, <2>6
  <1>3. ASSUME NEW j \in JobId, SendPreview(j) PROVE Control' /\ PollWork' /\ Book'
    <2>1. BotUnchanged /\ UNCHANGED <<jobs, lastId>> /\ shown \subseteq shown'
      BY <1>3 DEF SendPreview
    <2>m. \A k, from, to : JobsMove(k, from, to)
      BY <2>1 DEF JobsMove
    <2>2. Control'
      BY <2>1 DEF BotUnchanged, task, disk, Inv, Control, Mutex, Down, GcView, PollHolds
    <2>3. PollWork' /\ Book'
      BY <2>1, <2>m, PollWorkStays, BookStays DEF BotUnchanged, task, disk, channel, Inv
    <2>4. QED
      BY <2>2, <2>3
  <1>4. ASSUME NEW j \in JobId, Notify(j) PROVE Control' /\ PollWork' /\ Book'
    <2> DEFINE new == [jobs[j] EXCEPT !.notifyPending = FALSE]
    <2>1. BotUnchanged /\ LockFree /\ UNCHANGED <<lastId, shown>>
          /\ jobs' = UpdateFields(jobs, j, jobs[j].status, new)
      BY <1>4 DEF Notify
    <2>2. new \in Job /\ SameFrame(new, jobs[j]) /\ new.status = jobs[j].status
      BY <1>f DEF File, Job, SameFrame
    <2> HIDE DEF new
    <2>m. \A k, from, to : JobsMove(k, from, to)
      <3>1. \A from, to : JobsMove(j, from, to)
        BY <1>f, <2>1, <2>2, UpdateMoves
      <3>2. JobsMove(j, "absent", "absent")
        BY <3>1
      <3>3. QED
        BY <3>2 DEF JobsMove
    <2>3. PollWork' /\ Book'
      BY <2>1, <2>m, PollWorkStays, BookStays DEF BotUnchanged, task, disk, channel, Inv
    <2>4. QED
      BY <1>c, <2>1, <2>3
  <1>5. ASSUME NEW j \in JobId, Approve(j) \/ Reject(j)
        PROVE  Control' /\ PollWork' /\ Book'
    <2>1. PICK to \in {"publishing", "rejected"} : Click(j, to)
      BY <1>5 DEF Approve, Reject
    <2>2. JobsMove(j, "preview-sent", to)
      BY <2>1, ClickMoves DEF Inv
    <2>3. BotUnchanged /\ LockFree /\ UNCHANGED <<lastId, shown>>
      BY <2>1 DEF Click
    <2>4. PollWork'
      BY <2>2, <2>3, PollWorkMove DEF BotUnchanged, task, disk, channel, Inv
    <2>5. Book'
      BY <2>2, <2>3, BookMove
         DEF BotUnchanged, task, disk, channel, Inv, AllowedTransitions
    <2>6. QED
      BY <1>c, <2>3, <2>4, <2>5
  <1>6. ASSUME NEW j \in JobId, RecordPreview(j) PROVE Control' /\ PollWork' /\ Book'
    <2> DEFINE new == [jobs[j] EXCEPT !.previewPending = FALSE]
    <2>1. BotUnchanged /\ LockFree /\ UNCHANGED <<lastId, shown>> /\ j \in shown
          /\ jobs' = UpdateFields(jobs, j, "preview-sent", new)
      BY <1>6 DEF RecordPreview
    <2>2. new.status = jobs[j].status /\ new.mode = jobs[j].mode
          /\ new.marker = jobs[j].marker /\ ~new.previewPending
      BY <1>f DEF File, Job
    <2> HIDE DEF new
    <2>3. \A k \in JobId : /\ jobs'[k] = jobs[k] \/ (k = j /\ jobs'[k] = new)
                           /\ jobs'[k].status = jobs[k].status
                           /\ jobs'[k].mode = jobs[k].mode
                           /\ jobs'[k].marker = jobs[k].marker
      <3>1. jobs' = jobs \/ jobs' = [jobs EXCEPT ![j] = new]
        BY <2>1 DEF UpdateFields
      <3>2. \A k \in JobId : jobs'[k] = jobs[k] \/ (k = j /\ jobs'[k] = new)
        BY <1>f, <3>1 DEF File
      <3>3. QED
        BY <2>2, <3>2
    <2>u. UNCHANGED <<worktrees, archive, posts, poll, checker>>
      BY <2>1 DEF BotUnchanged, task, disk, channel
    <2>4. PollWork'
      BY <2>1, <2>3, <2>u DEF Inv, PollWork, TypeInv, PollHasJob
    <2>5. Fresh' /\ Seen'
      BY <2>1, <2>3, <2>u DEF Inv, Book, Fresh, Seen
    <2>6. Expiring'
      <3>1. checker.expired \subseteq JobId
        BY DEF Inv, TypeInv, TypeOK
      <3>2. QED
        BY <2>1, <2>2, <2>3, <2>u, <3>1 DEF Inv, Book, Expiring
    <2>7. PostedOnlyOnceDecided' /\ PublishedMeansPosted' /\ PostLeavesMarker'
      BY <2>3, <2>u DEF Inv, Book, PostedOnlyOnceDecided, PublishedMeansPosted,
                        PostLeavesMarker, Published, InQueue
    <2>8. ArticleKept' /\ NothingLost'
      <3>1. \A k \in 1 .. lastId : k \in JobId
        BY <1>f, QueueAssumption DEF JobId
      <3>2. QED
        BY <2>1, <2>3, <2>u, <3>1 DEF Inv, Book, ArticleKept, NothingLost, InQueue
    <2>9. QED
      BY <1>c, <2>1, <2>4, <2>5, <2>6, <2>7, <2>8 DEF Book
  <1>7. QED
    BY <1>1, <1>2, <1>3, <1>4, <1>5, <1>6 DEF BotStep

-----------------------------------------------------------------------------
(***************************************************************************)
(* The theorems.                                                           *)
(***************************************************************************)

LEMMA InvInit == Init => Inv
  <1> SUFFICES ASSUME Init PROVE Inv
    OBVIOUS
  <1>1. TypeInv
    BY TypeInit
  <1>2. \A j \in JobId : jobs[j].status = "absent" /\ posts[j] = 0
    BY DEF Init, EmptyFile, NoJob
  <1>3. Mutex /\ Down /\ GcView /\ PollWork
    BY DEF Init, Mutex, Down, GcView, PollWork, PollHolds, PollIdle, CheckerIdle, GcIdle
  <1>4. Fresh /\ Expiring /\ Seen
    BY <1>2 DEF Init, Fresh, Expiring, Seen, CheckerIdle
  <1>5. PostedOnlyOnceDecided /\ PublishedMeansPosted /\ PostLeavesMarker /\ ArticleKept
    BY <1>2 DEF PostedOnlyOnceDecided, PublishedMeansPosted, PostLeavesMarker, ArticleKept,
                Published
  <1>6. NothingLost
    BY DEF Init, NothingLost
  <1>7. QED
    BY <1>1, <1>3, <1>4, <1>5, <1>6 DEF Inv, Book

\* The invariant is inductive: each group of actions by its lemma.
LEMMA InvNext == Inv /\ [Next]_vars => Inv'
  <1> SUFFICES ASSUME Inv, [Next]_vars PROVE Inv'
    OBVIOUS
  <1>1. TypeInv'
    <2>1. UNCHANGED vars => TypeInv'
      BY DEF Inv, TypeInv, TypeOK, PollHasJob, vars, disk, channel, task
    <2>2. QED
      BY <2>1, TypePoll, TypeChecker, TypeGc, TypeWorld, TypeBot DEF Inv, Next
  <1>2. CASE Next
    BY <1>1, <1>2, InvPollDraft, InvPollScore, InvPublish, InvChecker, InvGc, InvWorld,
       InvBot
       DEF Next, PollStep, Inv
  <1>3. CASE UNCHANGED vars
    BY <1>1, <1>3
       DEF vars, task, disk, channel, Inv, Mutex, Down, GcView, PollWork, PollHolds, Book,
           Fresh, Expiring, Seen, PostedOnlyOnceDecided, PublishedMeansPosted,
           PostLeavesMarker, ArticleKept, NothingLost, InQueue
  <1>4. QED
    BY <1>2, <1>3

\* The inductive invariant holds in every behaviour of the service: what the file says
\* of texts and worktrees is true at each point of each task, whatever crashes.
THEOREM Invariance == Spec => []Inv
  BY InvInit, InvNext, PTL DEF Spec

\* No text is in the channel of a job that was declined, that failed while
\* drafting or that still waits for a decision.
THEOREM PostedOnlyOnceDecidedHolds == Spec => []PostedOnlyOnceDecided
  <1>1. Inv => PostedOnlyOnceDecided
    BY DEF Inv, Book
  <1>2. QED
    BY <1>1, Invariance, PTL

\* A job is called published only with its text in the channel.
THEOREM PublishedMeansPostedHolds == Spec => []PublishedMeansPosted
  <1>1. Inv => PublishedMeansPosted
    BY DEF Inv, Book
  <1>2. QED
    BY <1>1, Invariance, PTL

\* A posted job on file carries the marker that tells of a duplicate.
THEOREM PostLeavesMarkerHolds == Spec => []PostLeavesMarker
  <1>1. Inv => PostLeavesMarker
    BY DEF Inv, Book
  <1>2. QED
    BY <1>1, Invariance, PTL

\* The worktree of a job outlives every step that may read its article.
THEOREM ArticleKeptHolds == Spec => []ArticleKept
  <1>1. Inv => ArticleKept
    BY DEF Inv, Book
  <1>2. QED
    BY <1>1, Invariance, PTL

\* A ticket that was handed out is on file or archived, whatever crashes.
THEOREM NothingLostHolds == Spec => []NothingLost
  <1>1. Inv => NothingLost
    BY DEF Inv, Book
  <1>2. QED
    BY <1>1, Invariance, PTL
=============================================================================
