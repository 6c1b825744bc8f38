------------------------- MODULE PublishFileProofs --------------------------
(***************************************************************************)
(* What the lines of the ticket file keep saying of each other, for every  *)
(* value of the constants: a retry and what it replaces, the pace of the   *)
(* attestation, who is at work on a draft, and that no rewrite of the file *)
(* undoes another.                                                         *)
(***************************************************************************)
EXTENDS PublishSafetyProofs, Integers, FiniteSetTheorems

-----------------------------------------------------------------------------
(***************************************************************************)
(* The invariants, each beside Inv.                                        *)
(***************************************************************************)

\* The links name ids that were handed out, a ticket that names its
\* replacement is closed, and the two ends of a link agree.
Links ==
    /\ \A j \in JobId :
          /\ jobs[j].regeneratedTo = None \/ jobs[j].regeneratedTo <= lastId
          /\ jobs[j].retriesOf = None \/ jobs[j].retriesOf <= lastId
          /\ jobs[j].regeneratedTo # None => jobs[j].status = "regenerated"
    /\ RetryLinked

\* What the checker is going to attest, or is attesting.
InHand(j) == j \in checker.retry \/ attest["checker"].job = j

\* A ticket counts no attempt before its first; from then on the next one
\* is due.  A job in the checker's hands is due, and does not come back to
\* the status in which a first attempt is made.
Paced ==
    \A j \in JobId :
        /\ jobs[j].status \notin {"attest-pending", "done", "attest-failed"}
           => jobs[j].attempts = 0
        /\ jobs[j].status = "attest-pending"
           => /\ jobs[j].attempts >= 1 /\ jobs[j].pendingAge # None
              /\ RetryInterval * (jobs[j].attempts - 1) <= jobs[j].pendingAge
        /\ InHand(j)
           => /\ j <= lastId
              /\ jobs[j].status \in {"attest-pending", "done", "attest-failed", "absent"}
              /\ jobs[j].status = "attest-pending"
                 => RetryInterval * jobs[j].attempts <= jobs[j].pendingAge

\* Each caller of attest_once has seen the status it serves, and the checker
\* is on one job at a time.
Calls ==
    /\ checker.pc # "sign" => attest["checker"].job = None
    /\ attest["checker"].job # None =>
          /\ attest["checker"].seen = "attest-pending"
          /\ attest["checker"].job \notin checker.retry
    /\ attest["direct"].job # None => attest["direct"].seen = "published"

\* A job that is being drafted is at the point of the poll task that its
\* status tells.
Drafting ==
    up => \A j \in JobId :
        /\ jobs[j].status = "writing" => poll.job = j /\ poll.pc \in {"mkdir", "spawn"}
        /\ jobs[j].status = "scoring" => poll.job = j /\ poll.pc = "analyze"

-----------------------------------------------------------------------------
(***************************************************************************)
(* Calm steps: all but those that add or remove a line, count an attempt   *)
(* or let time pass.                                                       *)
(***************************************************************************)

\* The fields that a calm step leaves alone.
Steady(a, b) ==
    /\ a.retriesOf = b.retriesOf /\ a.regeneratedTo = b.regeneratedTo
    /\ a.attempts = b.attempts /\ a.pendingAge = b.pendingAge

Beside(a, b) == Steady(a, b) /\ a.publishedAge = b.publishedAge

CalmMove ==
    {move \in AllowedTransitions : move[2] \notin {"attest-pending", "regenerated"}}
    \cup {<<"writing", "queued">>, <<"scoring", "queued">>}

Calm ==
    \A k \in JobId :
        /\ Steady(jobs'[k], jobs[k])
        /\ jobs[k].status \in Published => jobs'[k].publishedAge = jobs[k].publishedAge
        /\ \/ jobs'[k].status = jobs[k].status
           \/ <<jobs[k].status, jobs'[k].status>> \in CalmMove

\* cas_status makes a calm step, but for its two special targets.
LEMMA CasCalm ==
  ASSUME jobs \in File, NEW j \in JobId, NEW expected,
         NEW target \in Status \ {"attest-pending", "regenerated"},
         NEW updated \in Job, Beside(updated, jobs[j]),
         jobs' = Cas(jobs, j, expected, target, updated)
  PROVE  Calm
  <1>1. /\ Stamped(updated, target).status = target
        /\ Steady(Stamped(updated, target), updated)
        /\ target # "published" => Beside(Stamped(updated, target), updated)
    BY DEF Stamped, Job, Steady, Beside
  <1>2. CASE CasWins(jobs, j, expected, target)
    <2>1. jobs' = [jobs EXCEPT ![j] = Stamped(updated, target)]
      BY <1>2 DEF Cas
    <2>2. jobs[j].status = expected /\ <<expected, target>> \in CalmMove
          /\ (target = "published" => expected \notin Published)
      BY <1>2 DEF CasWins, CalmMove, AllowedTransitions, Published
    <2>3. jobs'[j] = Stamped(updated, target)
          /\ \A k \in JobId \ {j} : jobs'[k] = jobs[k]
      BY <2>1 DEF File
    <2>4. QED
      BY <1>1, <2>2, <2>3 DEF Calm, Steady, Beside
  <1>3. CASE ~CasWins(jobs, j, expected, target)
    BY <1>3 DEF Cas, Calm, Steady
  <1>4. QED
    BY <1>2, <1>3

\* update_job_fields makes one, if it leaves those fields alone.
LEMMA UpdateCalm ==
  ASSUME jobs \in File, NEW j \in JobId, NEW expected, NEW updated \in Job,
         Beside(updated, jobs[j]), updated.status = jobs[j].status,
         jobs' = UpdateFields(jobs, j, expected, updated)
  PROVE  Calm
  BY DEF UpdateFields, Calm, Steady, Beside, File

\* What the tasks write beside a status is none of those fields.
LEMMA BesideKept ==
  ASSUME NEW job \in Job
  PROVE  /\ Beside(job, job)
         /\ Beside([job EXCEPT !.article = TRUE], job)
         /\ Beside([job EXCEPT !.marker = TRUE], job)
         /\ Beside([job EXCEPT !.postUrl = TRUE], job)
         /\ Beside([job EXCEPT !.notifyPending = TRUE], job)
         /\ Beside([job EXCEPT !.notifyPending = FALSE], job)
         /\ Beside([job EXCEPT !.previewPending = FALSE], job)
         /\ Beside(Scored(job), job)
         /\ Beside(Recovered(job), job)
  <1>1. Beside(Scored(job), job)
    BY DEF Scored, Steady, Beside, Job
  <1>2. Beside(Recovered(job), job)
    BY DEF Recovered, Steady, Beside, Job
  <1>3. QED
    BY <1>1, <1>2 DEF Steady, Beside, Job

\* A file that is not written is calm.
LEMMA SameCalm ==
  ASSUME jobs' = jobs
  PROVE  Calm
  BY DEF Calm, Steady

\* The calm steps of the poll task.
LEMMA CalmPoll ==
  ASSUME Inv, PollStep
  PROVE  Calm /\ UNCHANGED <<lastId, checker, attest>>
  <1> DEFINE p == poll.job
  <1>f. jobs \in File /\ (poll.pc \notin {"idle", "next"} => p \in JobId)
    BY DEF Inv, TypeInv, TypeOK, File, PollHasJob
  <1>s. {"writing", "scoring", "preview-sent", "publishing", "published", "failed",
         "publish-failed"} \subseteq Status \ {"attest-pending", "regenerated"}
    BY DEF Status, Terminal
  <1>t. \A j \in JobId : jobs[j] \in Job
    BY <1>f DEF File
  <1>1. ASSUME NEW j \in JobId, NEW current, jobs' = MarkFailed(j, current) PROVE Calm
    BY <1>1, <1>f, <1>s, <1>t, CasCalm, BesideKept, UpdateTypes DEF MarkFailed
  <1>2. ASSUME PollTick \/ PollMkdir \/ PollMkdirFails
               \/ (\E ok, landed \in BOOLEAN : CampaignReturns(ok, landed))
               \/ (\E landed \in BOOLEAN : CampaignRaises(landed))
        PROVE  Calm /\ UNCHANGED <<lastId, checker, attest>>
    BY <1>2, SameCalm DEF PollTick, PollMkdir, PollMkdirFails, CampaignReturns,
                          CampaignRaises
  <1>3. ASSUME NEW j \in JobId, PollClaim(j)
        PROVE  Calm /\ UNCHANGED <<lastId, checker, attest>>
    BY <1>3, <1>f, <1>s, <1>t, CasCalm, BesideKept DEF PollClaim
  <1>4. ASSUME NEW j \in JobId, PublishRefuse(j)
        PROVE  Calm /\ UNCHANGED <<lastId, checker, attest>>
    BY <1>4, <1>f, <1>s, <1>t, CasCalm, BesideKept, UpdateTypes DEF PublishRefuse
  <1>5. ASSUME NEW j \in JobId, PublishMark(j)
        PROVE  Calm /\ UNCHANGED <<lastId, checker, attest>>
    <2>1. [jobs[j] EXCEPT !.marker = TRUE].status = jobs[j].status
      BY <1>t DEF Job
    <2>2. QED
      BY <1>5, <1>f, <1>t, <2>1, UpdateCalm, BesideKept, UpdateTypes DEF PublishMark
  <1>6. ASSUME SpawnSucceeds PROVE Calm /\ UNCHANGED <<lastId, checker, attest>>
    BY <1>6, <1>f, <1>s, <1>t, CasCalm, BesideKept, UpdateTypes DEF SpawnSucceeds
  <1>7. ASSUME SpawnFails \/ ScoreFails PROVE Calm /\ UNCHANGED <<lastId, checker, attest>>
    BY <1>7, <1>f, <1>1 DEF SpawnFails, ScoreFails
  <1>8. ASSUME ScoreSucceeds PROVE Calm /\ UNCHANGED <<lastId, checker, attest>>
    BY <1>8, <1>f, <1>s, <1>t, CasCalm, BesideKept, UpdateTypes DEF ScoreSucceeds
  <1>9. ASSUME AutoPublish PROVE Calm /\ UNCHANGED <<lastId, checker, attest>>
    BY <1>9, <1>f, <1>s, <1>t, CasCalm, BesideKept DEF AutoPublish
  <1>10. ASSUME PublishRecord \/ PublishRecordFailure
         PROVE  Calm /\ UNCHANGED <<lastId, checker, attest>>
    BY <1>10, <1>f, <1>s, <1>t, CasCalm, BesideKept, UpdateTypes
       DEF PublishRecord, PublishRecordFailure
  <1>11. QED
    BY <1>2, <1>3, <1>4, <1>5, <1>6, <1>7, <1>8, <1>9, <1>10 DEF PollStep

\* The deadline, a receipt, the restart and the steps that only read.
LEMMA CalmOthers ==
  ASSUME Inv,
         \/ CheckerStep \/ Crash \/ Restart
         \/ \E j \in JobId : DirectAttest(j)
         \/ \E c \in Caller : AttestSucceeds(c)
         \/ GcStep /\ ~GcRewrite
  PROVE  Calm /\ lastId' = lastId
  <1>f. jobs \in File /\ attest \in AttestType
    BY DEF Inv, TypeInv, TypeOK, File, AttestType
  <1>s. {"publishing", "done"} \subseteq Status \ {"attest-pending", "regenerated"}
    BY DEF Status, Terminal
  <1>t. \A j \in JobId : jobs[j] \in Job
    BY <1>f DEF File
  <1>1. ASSUME CheckerTick \/ Crash \/ (GcStep /\ ~GcRewrite)
               \/ \E j \in JobId : CheckerAttest(j) \/ DirectAttest(j)
        PROVE  Calm /\ lastId' = lastId
    BY <1>1, SameCalm DEF CheckerTick, CheckerAttest, DirectAttest, Crash, GcStep, GcTick,
                          GcArchive, GcRmtree
  <1>2. ASSUME NEW j \in JobId, CheckerExpire(j) PROVE Calm /\ lastId' = lastId
    BY <1>2, <1>f, <1>s, <1>t, CasCalm, BesideKept DEF CheckerExpire
  <1>3. ASSUME NEW c \in Caller, AttestSucceeds(c) PROVE Calm /\ lastId' = lastId
    <2>1. attest[c].job \in JobId
      BY <1>3, <1>f DEF AttestSucceeds, AttestType, Link
    <2>2. QED
      BY <1>3, <1>f, <1>s, <1>t, <2>1, CasCalm, BesideKept, UpdateTypes
         DEF AttestSucceeds
  <1>4. ASSUME Restart PROVE Calm /\ lastId' = lastId
    <2>1. ASSUME NEW k \in JobId
          PROVE  /\ Beside(jobs'[k], jobs[k])
                 /\ \/ jobs'[k].status = jobs[k].status
                    \/ <<jobs[k].status, jobs'[k].status>> \in CalmMove
      <3>1. jobs'[k] = Recovered(jobs[k]) /\ jobs[k] \in Job
        BY <1>4, <1>t DEF Restart
      <3>2. CASE jobs[k].status \in {"writing", "scoring"}
        <4>1. jobs'[k].status = "queued"
          BY <3>1, <3>2 DEF Recovered, Job
        <4>2. QED
          BY <3>1, <3>2, <4>1, BesideKept DEF CalmMove
      <3>3. CASE jobs[k].status \notin {"writing", "scoring"}
        BY <3>1, <3>3 DEF Recovered, Steady, Beside
      <3>4. QED
        BY <3>2, <3>3
    <2>2. QED
      BY <1>4, <2>1 DEF Restart, Calm, Beside
  <1>5. QED
    BY <1>1, <1>2, <1>3, <1>4 DEF CheckerStep

\* The bot, when it does not add a line.
LEMMA CalmBot ==
  ASSUME Inv, NEW j \in JobId,
         SendPreview(j) \/ RecordPreview(j) \/ Notify(j) \/ Approve(j) \/ Reject(j)
  PROVE  Calm /\ UNCHANGED <<lastId, up, poll, checker, attest>>
  <1>f. jobs \in File /\ jobs[j] \in Job
    BY DEF Inv, TypeInv, TypeOK, File
  <1>s. {"publishing", "rejected"} \subseteq Status \ {"attest-pending", "regenerated"}
    BY DEF Status, Terminal
  <1>u. UNCHANGED <<lastId, up, poll, checker, attest>>
    BY DEF SendPreview, RecordPreview, Notify, Approve, Reject, Click, BotUnchanged, task
  <1>1. CASE SendPreview(j)
    BY <1>1, <1>u, SameCalm DEF SendPreview
  <1>2. CASE RecordPreview(j)
    <2>1. [jobs[j] EXCEPT !.previewPending = FALSE].status = jobs[j].status
      BY <1>f DEF Job
    <2>2. QED
      BY <1>2, <1>u, <1>f, <2>1, UpdateCalm, BesideKept, UpdateTypes DEF RecordPreview
  <1>3. CASE Notify(j)
    <2>1. [jobs[j] EXCEPT !.notifyPending = FALSE].status = jobs[j].status
      BY <1>f DEF Job
    <2>2. QED
      BY <1>3, <1>u, <1>f, <2>1, UpdateCalm, BesideKept, UpdateTypes DEF Notify
  <1>4. CASE Approve(j) \/ Reject(j)
    BY <1>4, <1>u, <1>f, <1>s, CasCalm, BesideKept DEF Approve, Reject, Click
  <1>5. QED
    BY <1>1, <1>2, <1>3, <1>4

-----------------------------------------------------------------------------
(***************************************************************************)
(* A retry and what it replaces name each other.                           *)
(***************************************************************************)

\* A calm step keeps every link.
LEMMA LinksCalm ==
  ASSUME Links, Calm, lastId' = lastId
  PROVE  Links'
  <1>1. ASSUME NEW k \in JobId
        PROVE  /\ Steady(jobs'[k], jobs[k])
               /\ InQueue(jobs', k) <=> InQueue(jobs, k)
               /\ jobs[k].status = "regenerated" => jobs'[k].status = "regenerated"
    BY DEF Calm, CalmMove, AllowedTransitions, InQueue
  <1>2. RetryLinked'
    BY <1>1 DEF Links, RetryLinked, Steady
  <1>3. QED
    BY <1>1, <1>2 DEF Links, Steady

\* So does an attempt that fails, and time.
LEMMA LinksKept ==
  ASSUME Links, lastId' = lastId,
         \A k \in JobId :
            /\ jobs'[k].retriesOf = jobs[k].retriesOf
            /\ jobs'[k].regeneratedTo = jobs[k].regeneratedTo
            /\ jobs'[k].status = jobs[k].status
               \/ <<jobs[k].status, jobs'[k].status>> \in AllowedTransitions
  PROVE  Links'
  <1>1. ASSUME NEW k \in JobId
        PROVE  /\ jobs'[k].retriesOf = jobs[k].retriesOf
               /\ jobs'[k].regeneratedTo = jobs[k].regeneratedTo
               /\ InQueue(jobs', k) <=> InQueue(jobs, k)
               /\ jobs[k].status = "regenerated" => jobs'[k].status = "regenerated"
    BY DEF AllowedTransitions, InQueue
  <1>2. ASSUME NEW old \in JobId, NEW new \in JobId,
               InQueue(jobs', old), InQueue(jobs', new)
        PROVE  jobs'[old].regeneratedTo = new <=> jobs'[new].retriesOf = old
    <2>1. InQueue(jobs, old) /\ InQueue(jobs, new)
      BY <1>1, <1>2
    <2>2. jobs[old].regeneratedTo = new <=> jobs[new].retriesOf = old
      BY <2>1 DEF Links, RetryLinked
    <2>3. QED
      BY <1>1, <2>2
  <1>3. QED
    BY <1>1, <1>2 DEF Links, RetryLinked

\* What a failed attempt and the passing of time do to one line.
LEMMA AttemptCounts ==
  ASSUME Inv, NEW c \in Caller, AttestFails(c)
  PROVE  LET j == attest[c].job
             tried == [jobs[j] EXCEPT !.attempts = @ + 1]
         IN  /\ j \in JobId /\ jobs[j] \in Job
             /\ \A k \in JobId \ {j} : jobs'[k] = jobs[k]
             /\ \/ jobs'[j] = jobs[j]
                \/ /\ jobs'[j].retriesOf = jobs[j].retriesOf
                   /\ jobs'[j].regeneratedTo = jobs[j].regeneratedTo
                   /\ jobs'[j].publishedAge = jobs[j].publishedAge
                   /\ jobs'[j].attempts = jobs[j].attempts + 1
                   /\ \/ /\ attest[c].seen = "published" /\ jobs[j].status = "published"
                         /\ jobs'[j].status = "attest-pending"
                         /\ jobs'[j].pendingAge = 0
                      \/ /\ attest[c].seen # "published"
                         /\ jobs[j].status = "attest-pending"
                         /\ jobs'[j].status \in {"attest-pending", "attest-failed"}
                         /\ jobs'[j].pendingAge = jobs[j].pendingAge
  <1> DEFINE j == attest[c].job
  <1> DEFINE tried == [jobs[j] EXCEPT !.attempts = @ + 1]
  <1> DEFINE told == [tried EXCEPT !.notifyPending = TRUE]
  <1>f. jobs \in File /\ attest \in AttestType /\ j \in JobId
    BY DEF Inv, TypeInv, TypeOK, File, AttestType, AttestFails, Link
  <1>j. jobs[j] \in Job
    BY <1>f DEF File
  <1>1. ASSUME NEW new \in {tried, told}
        PROVE  /\ new \in Job /\ new.attempts = jobs[j].attempts + 1
               /\ new.status = jobs[j].status
               /\ new.retriesOf = jobs[j].retriesOf
               /\ new.regeneratedTo = jobs[j].regeneratedTo
               /\ new.pendingAge = jobs[j].pendingAge
               /\ new.publishedAge = jobs[j].publishedAge
    <2>1. /\ tried \in Job /\ tried.attempts = jobs[j].attempts + 1
          /\ tried.status = jobs[j].status
          /\ tried.retriesOf = jobs[j].retriesOf
          /\ tried.regeneratedTo = jobs[j].regeneratedTo
          /\ tried.pendingAge = jobs[j].pendingAge
          /\ tried.publishedAge = jobs[j].publishedAge
      BY <1>j DEF Job
    <2> HIDE DEF tried
    <2>2. /\ told \in Job /\ told.attempts = tried.attempts
          /\ told.status = tried.status
          /\ told.retriesOf = tried.retriesOf
          /\ told.regeneratedTo = tried.regeneratedTo
          /\ told.pendingAge = tried.pendingAge
          /\ told.publishedAge = tried.publishedAge
      BY <2>1 DEF Job
    <2>3. QED
      BY <2>1, <2>2
  <1>2. \/ jobs' = jobs
        \/ /\ attest[c].seen = "published" /\ jobs[j].status = "published"
           /\ jobs' = [jobs EXCEPT ![j] = Stamped(tried, "attest-pending")]
        \/ /\ attest[c].seen # "published" /\ jobs[j].status = "attest-pending"
           /\ \/ jobs' = [jobs EXCEPT ![j] = Stamped(told, "attest-failed")]
              \/ jobs' = [jobs EXCEPT ![j] = tried]
    BY DEF AttestFails, FailureRecorded, Cas, CasWins, UpdateFields
  <1>3. ASSUME NEW new \in {tried, told}, NEW to \in {"attest-pending", "attest-failed"}
        PROVE  /\ Stamped(new, to).status = to
               /\ Stamped(new, to).attempts = new.attempts
               /\ Stamped(new, to).retriesOf = new.retriesOf
               /\ Stamped(new, to).regeneratedTo = new.regeneratedTo
               /\ Stamped(new, to).publishedAge = new.publishedAge
               /\ Stamped(new, to).pendingAge
                  = IF to = "attest-pending" THEN 0 ELSE new.pendingAge
    <2>1. new \in Job
      BY <1>1
    <2>2. QED
      BY <2>1 DEF Stamped, Job
  <1> HIDE DEF tried, told
  <1>4. ASSUME NEW new, jobs' = [jobs EXCEPT ![j] = new]
        PROVE  jobs'[j] = new /\ \A k \in JobId \ {j} : jobs'[k] = jobs[k]
    BY <1>f, <1>4 DEF File
  <1>5. QED
    BY <1>f, <1>j, <1>1, <1>2, <1>3, <1>4

\* Time touches neither links nor attempts, and no age falls back.
LEMMA AgedSteady ==
  ASSUME jobs \in File, jobs' = AgedFile(jobs), NEW k \in JobId
  PROVE  /\ jobs'[k].status = jobs[k].status /\ jobs'[k].attempts = jobs[k].attempts
         /\ jobs'[k].retriesOf = jobs[k].retriesOf
         /\ jobs'[k].regeneratedTo = jobs[k].regeneratedTo
         /\ jobs[k].pendingAge # None =>
               jobs'[k].pendingAge # None /\ jobs[k].pendingAge <= jobs'[k].pendingAge
  <1>1. jobs[k] \in Job /\ jobs'[k] = Aged(jobs[k])
    BY DEF File, AgedFile
  <1>2. /\ jobs'[k].status = jobs[k].status /\ jobs'[k].attempts = jobs[k].attempts
        /\ jobs'[k].retriesOf = jobs[k].retriesOf
        /\ jobs'[k].regeneratedTo = jobs[k].regeneratedTo
        /\ jobs'[k].pendingAge = CountUp(jobs[k].pendingAge)
    BY <1>1 DEF Aged, Job
  <1>3. ASSUME NEW t \in Nat PROVE CountUp(t) \in Nat /\ t <= CountUp(t)
    BY QueueAssumption DEF CountUp
  <1>4. jobs[k].pendingAge \in Nat \cup {None}
    BY <1>1 DEF Job, Timer
  <1>5. QED
    BY <1>2, <1>3, <1>4, QueueAssumption

\* A brief adds a line without links.
LEMMA LinksSubmit ==
  ASSUME Inv, Links, NEW mode \in Modes, NEW fireIn \in FireDelays, Submit(mode, fireIn)
  PROVE  Links'
  <1> DEFINE n == lastId + 1
  <1>f. jobs \in File /\ lastId \in 0 .. MaxJobs /\ n \in JobId
    BY QueueAssumption DEF Inv, TypeInv, TypeOK, File, Submit, JobId
  <1>1. /\ lastId' = n /\ jobs'[n] = NewJob(mode, fireIn, None)
        /\ \A k \in JobId \ {n} : jobs'[k] = jobs[k]
    BY <1>f DEF Submit, AppendJob, File
  <1>2. NewJob(mode, fireIn, None).regeneratedTo = None
        /\ NewJob(mode, fireIn, None).retriesOf = None
    BY DEF NewJob, NoJob
  <1>3. ASSUME NEW k \in JobId \ {n}
        PROVE  /\ jobs[k].regeneratedTo # n /\ jobs[k].retriesOf # n
               /\ jobs[k].regeneratedTo = None \/ jobs[k].regeneratedTo <= n
               /\ jobs[k].retriesOf = None \/ jobs[k].retriesOf <= n
    <2>1. jobs[k].regeneratedTo \in Nat \cup {None} /\ jobs[k].retriesOf \in Nat \cup {None}
      BY <1>f DEF File, Job, Link, JobId
    <2>2. n \in Nat /\ n > lastId /\ lastId \in Nat /\ n # None
      BY <1>f, QueueAssumption
    <2> HIDE DEF n
    <2>3. QED
      BY <2>1, <2>2 DEF Links
  <1>n. None \notin JobId
    BY QueueAssumption DEF JobId
  <1> HIDE DEF n
  <1>4. RetryLinked'
    <2>1. ASSUME NEW old \in JobId, NEW new \in JobId,
                 InQueue(jobs', old), InQueue(jobs', new)
          PROVE  jobs'[old].regeneratedTo = new <=> jobs'[new].retriesOf = old
      <3>1. CASE old = n \/ new = n
        BY <1>1, <1>2, <1>3, <1>n, <3>1
      <3>2. CASE old # n /\ new # n
        BY <1>1, <2>1, <3>2 DEF Links, RetryLinked, InQueue
      <3>3. QED
        BY <3>1, <3>2
    <2>2. QED
      BY <2>1 DEF RetryLinked
  <1>5. QED
    BY <1>1, <1>2, <1>3, <1>4 DEF Links

\* A retry adds one that names the ticket it closes, and is named by it.
LEMMA LinksRetry ==
  ASSUME Inv, Links, NEW j \in JobId, Retry(j)
  PROVE  Links'
  <1> DEFINE n == lastId + 1
  <1> DEFINE closed == [jobs[j] EXCEPT !.status = "regenerated", !.regeneratedTo = n]
  <1> DEFINE added == NewJob(jobs[j].mode, jobs[j].fireIn, j)
  <1>f. jobs \in File /\ lastId \in 0 .. MaxJobs /\ n \in JobId
    BY QueueAssumption DEF Inv, TypeInv, TypeOK, File, Retry, JobId
  <1>1. jobs[j].status = "preview-sent" /\ lastId' = n
        /\ jobs' = [jobs EXCEPT ![j] = closed, ![n] = added]
    BY DEF Retry, Regenerate, CasWins
  <1>2. j # n /\ j <= lastId
    BY <1>f, <1>1 DEF Inv, Book, Fresh, JobId
  <1>3. /\ closed.regeneratedTo = n /\ closed.retriesOf = jobs[j].retriesOf
        /\ closed.status = "regenerated"
        /\ added.regeneratedTo = None /\ added.retriesOf = j
    BY <1>f DEF NewJob, NoJob, File, Job
  <1> HIDE DEF closed, added
  <1>4. jobs'[j] = closed /\ jobs'[n] = added
        /\ \A k \in JobId \ {j, n} : jobs'[k] = jobs[k]
    BY <1>f, <1>1, <1>2 DEF File
  <1>5. ASSUME NEW k \in JobId
        PROVE  /\ jobs[k].regeneratedTo # n /\ jobs[k].retriesOf # n
               /\ jobs[k].regeneratedTo = None \/ jobs[k].regeneratedTo <= n
               /\ jobs[k].retriesOf = None \/ jobs[k].retriesOf <= n
    <2>1. jobs[k].regeneratedTo \in Nat \cup {None} /\ jobs[k].retriesOf \in Nat \cup {None}
      BY <1>f DEF File, Job, Link, JobId
    <2>2. n \in Nat /\ n > lastId /\ lastId \in Nat /\ n # None
      BY <1>f, QueueAssumption
    <2> HIDE DEF n
    <2>3. QED
      BY <2>1, <2>2 DEF Links
  <1>6. jobs[j].regeneratedTo = None
    BY <1>1 DEF Links
  <1>n. None \notin JobId /\ j \in Nat /\ n \in Nat /\ j <= n
    BY <1>f, <1>2, QueueAssumption DEF JobId
  <1> HIDE DEF n
  <1>7. RetryLinked'
    <2>1. ASSUME NEW old \in JobId, NEW new \in JobId,
                 InQueue(jobs', old), InQueue(jobs', new)
          PROVE  jobs'[old].regeneratedTo = new <=> jobs'[new].retriesOf = old
      <3>1. CASE new = n /\ old = j
        BY <1>2, <1>3, <1>4, <3>1
      <3>2. CASE new = n /\ old # j
        BY <1>2, <1>3, <1>4, <1>5, <1>n, <3>2
      <3>3. CASE new # n /\ old = n
        BY <1>2, <1>3, <1>4, <1>5, <1>n, <3>3
      <3>4. CASE new # n /\ old = j
        <4>1. jobs[new].retriesOf # j
          <5>1. InQueue(jobs, new) /\ InQueue(jobs, j)
            BY <1>1, <1>4, <2>1, <3>4 DEF InQueue
          <5>2. QED
            BY <5>1, <1>6, <1>n, <3>4 DEF Links, RetryLinked
        <4>2. jobs'[new].retriesOf = jobs[new].retriesOf
          BY <1>3, <1>4, <3>4
        <4>3. QED
          BY <1>3, <1>4, <4>1, <4>2, <3>4
      <3>5. CASE new # n /\ old # n /\ old # j
        <4>1. InQueue(jobs, new) /\ InQueue(jobs, old)
          BY <1>1, <1>4, <2>1, <3>5 DEF InQueue
        <4>2. jobs'[new].retriesOf = jobs[new].retriesOf /\ jobs'[old] = jobs[old]
          BY <1>3, <1>4, <3>5
        <4>3. QED
          BY <4>1, <4>2 DEF Links, RetryLinked
      <3>6. QED
        BY <3>1, <3>2, <3>3, <3>4, <3>5
    <2>2. QED
      BY <2>1 DEF RetryLinked
  <1>8. ASSUME NEW k \in JobId
        PROVE  /\ jobs'[k].regeneratedTo = None \/ jobs'[k].regeneratedTo <= n
               /\ jobs'[k].retriesOf = None \/ jobs'[k].retriesOf <= n
               /\ jobs'[k].regeneratedTo # None => jobs'[k].status = "regenerated"
    <2>1. CASE k = j
      BY <1>3, <1>4, <1>5, <1>n, <2>1
    <2>2. CASE k = n
      BY <1>2, <1>3, <1>4, <1>n, <2>2
    <2>3. CASE k # j /\ k # n
      BY <1>4, <1>5, <2>3 DEF Links
    <2>4. QED
      BY <2>1, <2>2, <2>3
  <1>9. QED
    BY <1>1, <1>7, <1>8 DEF Links

\* cleanup-gc writes back the lines it read, and blanks the others.
LEMMA GcRewriteWrites ==
  ASSUME Inv, GcRewrite
  PROVE  /\ \A k \in JobId : jobs'[k] = IF k \in gc.remove THEN NoJob ELSE jobs[k]
         /\ UNCHANGED <<lastId, up, poll, checker, attest>>
  BY DEF GcRewrite, Inv, GcView

\* Every step keeps the links.
LEMMA LinksNext ==
  Inv /\ Links /\ [Next]_vars => Links'
  <1> SUFFICES ASSUME Inv, Links, [Next]_vars PROVE Links'
    OBVIOUS
  <1>f. jobs \in File
    BY DEF Inv, TypeInv, TypeOK, File
  <1>1. ASSUME NEW c \in Caller, AttestFails(c) PROVE Links'
    <2>1. lastId' = lastId
      BY <1>1 DEF AttestFails
    <2>2. ASSUME NEW k \in JobId
          PROVE  /\ jobs'[k].retriesOf = jobs[k].retriesOf
                 /\ jobs'[k].regeneratedTo = jobs[k].regeneratedTo
                 /\ jobs'[k].status = jobs[k].status
                    \/ <<jobs[k].status, jobs'[k].status>> \in AllowedTransitions
      BY <1>1, AttemptCounts DEF AllowedTransitions
    <2>3. QED
      BY <2>1, <2>2, LinksKept
  <1>2. ASSUME Tick PROVE Links'
    BY <1>2, <1>f, AgedSteady, LinksKept DEF Tick
  <1>3. ASSUME GcRewrite PROVE Links'
    <2>0. NoJob.regeneratedTo = None /\ NoJob.retriesOf = None /\ NoJob.status = "absent"
      BY DEF NoJob
    <2>1. \A k \in JobId : jobs'[k] = jobs[k]
             \/ (jobs'[k] = NoJob /\ ~InQueue(jobs', k))
      BY <1>3, <2>0, GcRewriteWrites DEF InQueue
    <2>3. RetryLinked'
      BY <2>1 DEF Links, RetryLinked, InQueue
    <2>4. QED
      BY <1>3, <2>0, <2>1, <2>3, GcRewriteWrites DEF Links
  <1>4. ASSUME NEW j \in JobId, SendPreview(j) \/ RecordPreview(j) \/ Notify(j)
                                \/ Approve(j) \/ Reject(j)
        PROVE  Links'
    BY <1>4, CalmBot, LinksCalm
  <1>5. CASE BotStep
    BY <1>4, <1>5, LinksSubmit, LinksRetry DEF BotStep
  <1>6. CASE PollStep
    BY <1>6, CalmPoll, LinksCalm
  <1>7. CASE CheckerStep \/ AttestStep \/ Crash \/ Restart \/ GcStep
    BY <1>1, <1>3, <1>7, CalmOthers, LinksCalm DEF AttestStep
  <1>8. CASE UNCHANGED vars
    BY <1>8, SameCalm, LinksCalm DEF vars
  <1>9. QED
    BY <1>2, <1>5, <1>6, <1>7, <1>8 DEF Next

-----------------------------------------------------------------------------
(***************************************************************************)
(* Attestation is retried at its pace.                                     *)
(***************************************************************************)

\* A calm step that puts nothing into the checker's hands keeps the pace.
LEMMA PacedCalm ==
  ASSUME Inv, Paced, Calm, lastId' = lastId,
         \A k \in JobId : InHand(k)' => InHand(k)
  PROVE  Paced'
  <1>1. ASSUME NEW k \in JobId
        PROVE  /\ Steady(jobs'[k], jobs[k])
               /\ jobs'[k].status = "attest-pending" => jobs[k].status = "attest-pending"
               /\ jobs[k].status \in {"attest-pending", "done", "attest-failed", "absent"}
                  => jobs'[k].status \in {jobs[k].status, "done", "attest-failed"}
               /\ jobs'[k].status \notin {"attest-pending", "done", "attest-failed"}
                  => jobs[k].status \notin {"attest-pending", "done", "attest-failed"}
    BY DEF Calm, CalmMove, AllowedTransitions
  <1>2. QED
    BY <1>1 DEF Paced, Steady

\* What the checker takes into its hands is due.
LEMMA PacedTick ==
  ASSUME Inv, Paced, Calls, CheckerTick
  PROVE  Paced'
  <1>1. UNCHANGED <<jobs, lastId, attest>> /\ attest["checker"].job = None
    BY DEF CheckerTick, Calls
  <1>2. \A k \in checker'.retry :
           k \in JobId /\ jobs[k].status = "attest-pending" /\ RetryDue(jobs[k])
    BY DEF CheckerTick, CheckerGoesOn, CheckerIdle
  <1>3. ASSUME NEW k \in JobId, k \in checker'.retry
        PROVE  /\ k <= lastId /\ jobs[k].status = "attest-pending"
               /\ RetryInterval * jobs[k].attempts <= jobs[k].pendingAge
    <2>1. jobs[k].status = "attest-pending" /\ RetryDue(jobs[k])
      BY <1>2, <1>3
    <2>2. k <= lastId
      BY <2>1 DEF Inv, TypeInv, TypeOK, Book, Fresh, JobId
    <2>3. jobs[k].attempts >= 1 /\ jobs[k].pendingAge # None /\ jobs[k].attempts # 0
      BY <2>1 DEF Paced
    <2>4. QED
      BY <2>1, <2>2, <2>3 DEF RetryDue
  <1>4. \A k \in JobId : k # None
    BY QueueAssumption DEF JobId
  <1>5. QED
    BY <1>1, <1>3, <1>4 DEF Paced, InHand

\* An attempt that fails is the one that was due, or the first.
LEMMA PacedFails ==
  ASSUME Inv, Paced, Calls, NEW c \in Caller, AttestFails(c)
  PROVE  Paced'
  <1>j. PICK j \in JobId : j = attest[c].job
    BY AttemptCounts
  <1>t. attest \in AttestType /\ j = attest[c].job /\ jobs[j] \in Job /\ RetryInterval \in Nat
        /\ None \notin Nat
    BY <1>j, AttemptCounts, PublisherAssumption, QueueAssumption
       DEF Inv, TypeInv, TypeOK, AttestType
  <1>u. lastId' = lastId /\ AttestEnds(c)
    BY DEF AttestFails
  <1>n. \A k \in JobId : k # None
    BY QueueAssumption DEF JobId
  <1>h. ASSUME NEW k \in JobId, InHand(k)'
        PROVE  InHand(k) /\ (c = "checker" => k # j)
    <2>1. CASE c = "checker"
      <3>1. attest'["checker"].job = None
        BY <1>t, <1>u, <2>1 DEF AttestEnds, AttestType, NoCall
      <3>2. checker'.retry \subseteq checker.retry
        BY <1>u, <2>1 DEF AttestEnds, CheckerGoesOn, CheckerIdle
      <3>3. k \in checker.retry
        BY <1>h, <1>n, <3>1, <3>2 DEF InHand
      <3>4. j \notin checker.retry
        BY <1>n, <1>t, <2>1 DEF Calls
      <3>5. QED
        BY <3>3, <3>4 DEF InHand
    <2>2. CASE c # "checker"
      <3>1. checker' = checker /\ attest'["checker"] = attest["checker"]
        BY <1>t, <1>u, <2>2 DEF AttestEnds, AttestType
      <3>2. QED
        BY <1>h, <2>2, <3>1 DEF InHand
    <2>3. QED
      BY <2>1, <2>2
  <1>1. ASSUME NEW k \in JobId, jobs'[k] = jobs[k]
        PROVE  /\ jobs'[k].status \notin {"attest-pending", "done", "attest-failed"}
                  => jobs'[k].attempts = 0
               /\ jobs'[k].status = "attest-pending"
                  => /\ jobs'[k].attempts >= 1 /\ jobs'[k].pendingAge # None
                     /\ RetryInterval * (jobs'[k].attempts - 1) <= jobs'[k].pendingAge
               /\ InHand(k)'
                  => /\ k <= lastId'
                     /\ jobs'[k].status \in {"attest-pending", "done", "attest-failed",
                                             "absent"}
                     /\ jobs'[k].status = "attest-pending"
                        => RetryInterval * jobs'[k].attempts <= jobs'[k].pendingAge
    BY <1>1, <1>h, <1>u DEF Paced
  <1>2. CASE jobs'[j] = jobs[j]
    <2>1. \A k \in JobId : jobs'[k] = jobs[k]
      BY <1>2, <1>j, AttemptCounts
    <2>2. QED
      BY <1>1, <2>1 DEF Paced
  <1>3. CASE jobs'[j] # jobs[j]
    <2>1. \A k \in JobId \ {j} : jobs'[k] = jobs[k]
      BY <1>j, AttemptCounts
    <2>2. jobs'[j].status \in {"attest-pending", "attest-failed"}
          /\ jobs'[j].attempts = jobs[j].attempts + 1
          /\ jobs[j].attempts \in Nat
      BY <1>3, <1>t, AttemptCounts DEF Job
    <2>3. CASE attest[c].seen = "published"
      <3>1. jobs[j].status = "published" /\ jobs'[j].pendingAge = 0
            /\ jobs[j].attempts = 0
        BY <1>3, <1>t, <2>3, AttemptCounts DEF Paced
      <3>2. RetryInterval * (jobs'[j].attempts - 1) <= jobs'[j].pendingAge
        <4>1. jobs'[j].attempts - 1 = 0
          BY <2>2, <3>1
        <4>2. RetryInterval * 0 = 0
          BY <1>t
        <4>3. QED
          BY <3>1, <4>1, <4>2
      <3>3. ~InHand(j)'
        BY <1>h, <1>t, <3>1 DEF Paced
      <3>4. jobs'[j].attempts >= 1 /\ jobs'[j].pendingAge # None
        BY <1>t, <2>2, <3>1
      <3>5. QED
        BY <1>1, <2>1, <2>2, <3>2, <3>3, <3>4 DEF Paced
    <2>4. CASE attest[c].seen # "published"
      <3>1. c = "checker"
        BY <1>n, <1>t, <2>4 DEF Calls, Caller
      <3>2. InHand(j) /\ ~InHand(j)'
        BY <1>h, <1>t, <3>1 DEF InHand
      <3>3. jobs[j].status = "attest-pending" /\ jobs'[j].pendingAge = jobs[j].pendingAge
        BY <1>3, <1>t, <2>4, AttemptCounts
      <3>4. RetryInterval * jobs[j].attempts <= jobs[j].pendingAge
            /\ jobs[j].pendingAge # None
        BY <1>t, <3>2, <3>3 DEF Paced
      <3>5. RetryInterval * (jobs'[j].attempts - 1) <= jobs'[j].pendingAge
        <4>1. jobs'[j].attempts - 1 = jobs[j].attempts
          BY <2>2
        <4>2. QED
          BY <3>3, <3>4, <4>1
      <3>6. jobs'[j].attempts >= 1 /\ jobs'[j].pendingAge # None
        BY <2>2, <3>3, <3>4
      <3>7. QED
        BY <1>1, <2>1, <2>2, <3>2, <3>5, <3>6 DEF Paced
    <2>5. QED
      BY <2>3, <2>4
  <1>4. QED
    BY <1>2, <1>3

\* A line that is added counts from zero, and is in nobody's hands.
LEMMA PacedAdds ==
  ASSUME Inv, Paced, UNCHANGED <<checker, attest>>, NEW n \in JobId,
         n = lastId + 1, lastId' = n,
         jobs'[n].status = "queued", jobs'[n].attempts = 0,
         \A k \in JobId \ {n} :
            \/ jobs'[k] = jobs[k]
            \/ jobs[k].status = "preview-sent" /\ jobs'[k].status = "regenerated"
               /\ jobs'[k].attempts = jobs[k].attempts
  PROVE  Paced'
  <1>f. lastId \in Nat /\ n > lastId
    BY DEF Inv, TypeInv, TypeOK
  <1>1. ASSUME NEW k \in JobId PROVE InHand(k)' => InHand(k) /\ k # n /\ k <= n
    BY <1>f DEF Paced, InHand, JobId
  <1>2. QED
    BY <1>1 DEF Paced

\* The steps of the bot keep the pace.
LEMMA PacedBot ==
  ASSUME Inv, Paced, BotStep
  PROVE  Paced'
  <1>f. jobs \in File /\ lastId \in 0 .. MaxJobs
    BY DEF Inv, TypeInv, TypeOK, File
  <1>n. lastId < MaxJobs => lastId + 1 \in JobId
    BY <1>f, QueueAssumption DEF JobId
  <1>1. ASSUME NEW mode \in Modes, NEW fireIn \in FireDelays, Submit(mode, fireIn)
        PROVE  Paced'
    <2> DEFINE n == lastId + 1
    <2>1. /\ n \in JobId /\ lastId' = n /\ UNCHANGED <<checker, attest>>
          /\ jobs' = [jobs EXCEPT ![n] = NewJob(mode, fireIn, None)]
      BY <1>1, <1>n DEF Submit, AppendJob, BotUnchanged, task
    <2>2. jobs'[n] = NewJob(mode, fireIn, None) /\ \A k \in JobId \ {n} : jobs'[k] = jobs[k]
      BY <1>f, <2>1 DEF File
    <2>3. NewJob(mode, fireIn, None).status = "queued"
          /\ NewJob(mode, fireIn, None).attempts = 0
      BY DEF NewJob, NoJob
    <2>4. QED
      BY <2>1, <2>2, <2>3, PacedAdds
  <1>2. ASSUME NEW j \in JobId, Retry(j) PROVE Paced'
    <2> DEFINE n == lastId + 1
    <2> DEFINE closed == [jobs[j] EXCEPT !.status = "regenerated", !.regeneratedTo = n]
    <2> DEFINE added == NewJob(jobs[j].mode, jobs[j].fireIn, j)
    <2>1. /\ n \in JobId /\ lastId' = n /\ UNCHANGED <<checker, attest>>
          /\ jobs[j].status = "preview-sent"
          /\ jobs' = [jobs EXCEPT ![j] = closed, ![n] = added]
      BY <1>2, <1>n DEF Retry, Regenerate, CasWins, BotUnchanged, task
    <2>2. /\ closed.status = "regenerated" /\ closed.attempts = jobs[j].attempts
          /\ added.status = "queued" /\ added.attempts = 0
      BY <1>f DEF NewJob, NoJob, File, Job
    <2>3. j # n
      BY <1>f, <2>1 DEF Inv, Book, Fresh
    <2> HIDE DEF closed, added
    <2>4. jobs'[n] = added /\ jobs'[j] = closed
          /\ \A k \in JobId \ {j, n} : jobs'[k] = jobs[k]
      BY <1>f, <2>1, <2>3 DEF File
    <2>5. QED
      BY <2>1, <2>2, <2>4, PacedAdds
  <1>3. ASSUME NEW j \in JobId, SendPreview(j) \/ RecordPreview(j) \/ Notify(j)
                                \/ Approve(j) \/ Reject(j)
        PROVE  Paced'
    BY <1>3, CalmBot, PacedCalm DEF InHand
  <1>4. QED
    BY <1>1, <1>2, <1>3 DEF BotStep

\* Every step keeps the pace.
LEMMA PacedNext ==
  Inv /\ Paced /\ Calls /\ [Next]_vars => Paced'
  <1> SUFFICES ASSUME Inv, Paced, Calls, [Next]_vars PROVE Paced'
    OBVIOUS
  <1>f. jobs \in File /\ checker \in CheckerType /\ attest \in AttestType
    BY DEF Inv, TypeInv, TypeOK, File, CheckerType, AttestType
  <1>n. \A k \in JobId : k # None
    BY QueueAssumption DEF JobId
  <1>1. CASE Tick
    <2>1. UNCHANGED <<lastId, checker, attest>> /\ jobs' = AgedFile(jobs)
      BY <1>1 DEF Tick
    <2>2. ASSUME NEW k \in JobId, NEW x, jobs[k].pendingAge # None,
                 x = RetryInterval * (jobs[k].attempts - 1)
                 \/ x = RetryInterval * jobs[k].attempts,
                 x <= jobs[k].pendingAge
          PROVE  x <= jobs'[k].pendingAge
      <3>1. jobs[k] \in Job /\ jobs'[k] \in Job
        BY <1>f, <2>1, AgedType DEF File
      <3>2. jobs[k].pendingAge \in Nat /\ jobs'[k].pendingAge \in Nat
            /\ jobs[k].pendingAge <= jobs'[k].pendingAge
        BY <1>f, <2>1, <2>2, <3>1, AgedSteady DEF Job, Timer
      <3>3. x \in Int
        BY <2>2, <3>1, PublisherAssumption DEF Job
      <3>4. QED
        BY <2>2, <3>2, <3>3
    <2>3. \A k \in JobId : InHand(k)' <=> InHand(k)
      BY <2>1 DEF InHand
    <2>4. \A k \in JobId :
             /\ jobs'[k].status = jobs[k].status /\ jobs'[k].attempts = jobs[k].attempts
             /\ jobs[k].pendingAge # None => jobs'[k].pendingAge # None
      BY <1>f, <2>1, AgedSteady
    <2>5. QED
      BY <2>1, <2>2, <2>3, <2>4 DEF Paced
  <1>2. CASE CheckerStep
    <2>1. CASE CheckerTick
      BY <2>1, PacedTick
    <2>2. ASSUME NEW j \in JobId, CheckerExpire(j) PROVE Paced'
      <3>1. checker'.retry \subseteq checker.retry /\ attest' = attest
        BY <2>2 DEF CheckerExpire, CheckerGoesOn, CheckerIdle
      <3>2. QED
        BY <1>2, <3>1, CalmOthers, PacedCalm DEF InHand
    <2>3. ASSUME NEW j \in JobId, CheckerAttest(j) PROVE Paced'
      <3>1. ASSUME NEW k \in JobId, InHand(k)' PROVE InHand(k)
        <4>1. j \in checker.retry
          BY <2>3 DEF CheckerAttest
        <4>2. CASE Attestable(jobs[j])
          <5>1. /\ attest' = [attest EXCEPT !["checker"] =
                                 [job |-> j, seen |-> jobs[j].status]]
                /\ checker' = [checker EXCEPT !.pc = "sign", !.retry = @ \ {j}]
            BY <2>3, <4>2 DEF CheckerAttest, AttestBegins
          <5>2. attest'["checker"].job = j
            BY <1>f, <5>1 DEF AttestType, Caller
          <5>3. checker'.retry \subseteq checker.retry
            BY <1>f, <5>1 DEF CheckerType
          <5>4. QED
            BY <3>1, <4>1, <5>2, <5>3 DEF InHand
        <4>3. CASE ~Attestable(jobs[j])
          <5>1. attest' = attest /\ checker'.retry \subseteq checker.retry
            BY <2>3, <4>3 DEF CheckerAttest, CheckerGoesOn, CheckerIdle
          <5>2. QED
            BY <3>1, <5>1 DEF InHand
        <4>4. QED
          BY <4>2, <4>3
      <3>2. QED
        BY <1>2, <3>1, CalmOthers, PacedCalm
    <2>4. QED
      BY <1>2, <2>1, <2>2, <2>3 DEF CheckerStep
  <1>3. ASSUME NEW j \in JobId, DirectAttest(j) PROVE Paced'
    <2>1. attest'["checker"] = attest["checker"] /\ checker' = checker
      BY <1>3, <1>f DEF DirectAttest, AttestBegins, AttestType, Caller
    <2>2. QED
      BY <1>3, <2>1, CalmOthers, PacedCalm DEF InHand
  <1>4. ASSUME NEW c \in Caller, AttestSucceeds(c) PROVE Paced'
    <2>1. ASSUME NEW k \in JobId, InHand(k)' PROVE InHand(k)
      <3>1. AttestEnds(c)
        BY <1>4 DEF AttestSucceeds
      <3>2. checker'.retry \subseteq checker.retry
        BY <3>1 DEF AttestEnds, CheckerGoesOn, CheckerIdle
      <3>3. attest'["checker"] = attest["checker"] \/ attest'["checker"].job = None
        BY <1>f, <3>1 DEF AttestEnds, AttestType, NoCall, Caller
      <3>4. QED
        BY <1>n, <2>1, <3>2, <3>3 DEF InHand
    <2>2. QED
      BY <1>4, <2>1, CalmOthers, PacedCalm
  <1>5. CASE AttestStep
    BY <1>3, <1>4, <1>5, PacedFails DEF AttestStep
  <1>6. CASE GcRewrite
    <2>1. NoJob.status = "absent" /\ NoJob.attempts = 0
      BY DEF NoJob
    <2>2. QED
      BY <1>6, <2>1, GcRewriteWrites DEF Paced, InHand
  <1>7. CASE GcStep /\ ~GcRewrite
    <2>1. UNCHANGED <<checker, attest>>
      BY <1>7 DEF GcStep, GcTick, GcArchive, GcRmtree
    <2>2. QED
      BY <1>7, <2>1, CalmOthers, PacedCalm DEF InHand
  <1>8. CASE Crash
    <2>1. checker'.retry = {} /\ attest'["checker"].job = None
      BY <1>8 DEF Crash, CheckerIdle, NoCall, Caller
    <2>2. \A k \in JobId : ~InHand(k)'
      BY <1>n, <2>1 DEF InHand
    <2>3. QED
      BY <1>8, <2>2, CalmOthers, PacedCalm
  <1>9. CASE Restart
    <2>1. UNCHANGED <<checker, attest>>
      BY <1>9 DEF Restart, task
    <2>2. QED
      BY <1>9, <2>1, CalmOthers, PacedCalm DEF InHand
  <1>10. CASE PollStep
    BY <1>10, CalmPoll, PacedCalm DEF InHand
  <1>11. CASE UNCHANGED vars
    BY <1>11, SameCalm, PacedCalm DEF vars, task, InHand
  <1>12. QED
    BY <1>1, <1>2, <1>5, <1>6, <1>7, <1>8, <1>9, <1>10, <1>11, PacedBot DEF Next

\* Every step keeps what the callers of attest_once rely on.
LEMMA CallsNext ==
  Inv /\ Paced /\ Calls /\ [Next]_vars => Calls'
  <1> SUFFICES ASSUME Inv, Paced, Calls, [Next]_vars PROVE Calls'
    OBVIOUS
  <1>f. checker \in CheckerType /\ attest \in AttestType
    BY DEF Inv, TypeInv, TypeOK, CheckerType, AttestType
  <1>n. \A k \in JobId : k # None
    BY QueueAssumption DEF JobId
  <1>1. CASE UNCHANGED <<checker, attest>>
    BY <1>1 DEF Calls
  <1>2. CASE CheckerTick
    BY <1>2 DEF CheckerTick, CheckerGoesOn, CheckerIdle, Calls
  <1>3. ASSUME NEW j \in JobId, CheckerExpire(j) PROVE Calls'
    BY <1>3 DEF CheckerExpire, CheckerGoesOn, CheckerIdle, Calls
  <1>4. ASSUME NEW j \in JobId, CheckerAttest(j) PROVE Calls'
    <2>1. j \in checker.retry /\ checker.pc = "next"
      BY <1>4 DEF CheckerAttest
    <2>2. CASE Attestable(jobs[j])
      <3>1. jobs[j].status = "attest-pending"
        BY <2>1, <2>2 DEF Attestable, Paced, InHand
      <3>2. attest' = [attest EXCEPT !["checker"] = [job |-> j, seen |-> "attest-pending"]]
            /\ checker' = [checker EXCEPT !.pc = "sign", !.retry = @ \ {j}]
        BY <1>4, <2>2, <3>1 DEF CheckerAttest, AttestBegins
      <3>3. /\ attest'["checker"] = [job |-> j, seen |-> "attest-pending"]
            /\ attest'["direct"] = attest["direct"]
            /\ checker'.pc = "sign" /\ checker'.retry = checker.retry \ {j}
        BY <1>f, <3>2 DEF AttestType, CheckerType, Caller
      <3>4. QED
        BY <3>3 DEF Calls
    <2>3. CASE ~Attestable(jobs[j])
      BY <1>4, <2>1, <2>3 DEF CheckerAttest, CheckerGoesOn, CheckerIdle, Calls
    <2>4. QED
      BY <2>2, <2>3
  <1>5. ASSUME NEW j \in JobId, DirectAttest(j) PROVE Calls'
    <2>1. attest' = [attest EXCEPT !["direct"] = [job |-> j, seen |-> "published"]]
          /\ checker' = checker
      BY <1>5 DEF DirectAttest, AttestBegins
    <2>2. /\ attest'["direct"] = [job |-> j, seen |-> "published"]
          /\ attest'["checker"] = attest["checker"]
      BY <1>f, <2>1 DEF AttestType, Caller
    <2>3. QED
      BY <2>1, <2>2 DEF Calls
  <1>6. ASSUME NEW c \in Caller, AttestSucceeds(c) \/ AttestFails(c) PROVE Calls'
    <2>1. AttestEnds(c)
      BY <1>6 DEF AttestSucceeds, AttestFails
    <2>2. CASE c = "checker"
      <3>1. /\ attest'["checker"].job = None /\ attest'["direct"] = attest["direct"]
        BY <1>f, <2>1, <2>2 DEF AttestEnds, AttestType, NoCall, Caller
      <3>2. QED
        BY <3>1 DEF Calls
    <2>3. CASE c # "checker"
      <3>1. c = "direct"
        BY <2>3 DEF Caller
      <3>2. /\ attest'["direct"].job = None /\ attest'["checker"] = attest["checker"]
            /\ checker' = checker
        BY <1>f, <2>1, <3>1 DEF AttestEnds, AttestType, NoCall, Caller
      <3>3. QED
        BY <3>2 DEF Calls
    <2>4. QED
      BY <2>2, <2>3
  <1>7. CASE Crash
    BY <1>7 DEF Crash, CheckerIdle, NoCall, Caller, Calls
  <1>8. CASE PollStep
    BY <1>1, <1>8, CalmPoll
  <1>9. CASE GcStep \/ Restart \/ BotStep \/ Tick
    <2>1. UNCHANGED <<checker, attest>>
      BY <1>9 DEF GcStep, GcTick, GcArchive, GcRmtree, GcRewrite, Restart, BotStep, Submit,
                  SendPreview, RecordPreview, Notify, Approve, Reject, Click, Retry,
                  BotUnchanged, task, Tick
    <2>2. QED
      BY <1>1, <2>1
  <1>10. CASE UNCHANGED vars
    BY <1>1, <1>10 DEF vars, task
  <1>11. QED
    BY <1>2, <1>3, <1>4, <1>5, <1>6, <1>7, <1>8, <1>9, <1>10
       DEF Next, CheckerStep, AttestStep

-----------------------------------------------------------------------------
(***************************************************************************)
(* A draft is in the hands of the poll task.                               *)
(***************************************************************************)

\* No ticket comes to be drafted by the step.
NoDraftBegun ==
    \A k \in JobId : jobs'[k].status \in {"writing", "scoring"}
                     => jobs'[k].status = jobs[k].status

\* Neither by a move to any other status.
LEMMA MoveBeginsNone ==
  ASSUME NEW j, NEW from, NEW to, to \notin {"writing", "scoring"},
         JobsMove(j, from, to)
  PROVE  NoDraftBegun
  BY DEF JobsMove, NoDraftBegun

\* The poll task lets go of a job only once it is drafted.
LEMMA DraftingPoll ==
  ASSUME Inv, Drafting, "mkdir" \notin Faults, PollStep
  PROVE  Drafting'
  <1> DEFINE p == poll.job
  <1>f. jobs \in File /\ poll \in PollType /\ (poll.pc \notin {"idle", "next"} => p \in JobId)
    BY DEF Inv, TypeInv, TypeOK, File, PollType, PollHasJob
  <1>u. up /\ up' = up
    BY DEF Inv, Down, PollStep, PollTick, PollClaim, PublishRefuse, PublishMark,
           PublishNext, PollMkdir, PollMkdirFails, SpawnSucceeds, SpawnFails,
           ScoreSucceeds, ScoreFails, AutoPublish, CampaignReturns, CampaignRaises,
           PublishRecord, PublishRecordFailure
  <1>0. ASSUME poll.pc \notin {"mkdir", "spawn", "analyze"}, NoDraftBegun PROVE Drafting'
    BY <1>0, <1>u DEF Drafting, NoDraftBegun
  <1>1. CASE PollTick \/ (\E ok, landed \in BOOLEAN : CampaignReturns(ok, landed))
             \/ (\E landed \in BOOLEAN : CampaignRaises(landed))
    <2>1. poll.pc \notin {"mkdir", "spawn", "analyze"} /\ jobs' = jobs
      BY <1>1 DEF PollTick, CampaignReturns, CampaignRaises
    <2>2. QED
      BY <1>0, <2>1 DEF NoDraftBegun
  <1>2. ASSUME NEW j \in JobId, PollClaim(j) PROVE Drafting'
    <2>m. JobsMove(j, "queued", "writing") /\ poll.pc = "next"
      BY <1>2, ClaimMoves DEF Inv, PollClaim
    <2>1. \A k \in JobId : jobs[k].status \notin {"writing", "scoring"}
      BY <1>u, <2>m DEF Drafting
    <2>2. CASE CasWins(jobs, j, "queued", "writing")
      <3>1. poll' = [poll EXCEPT !.pc = "mkdir", !.job = j, !.queued = @ \ {j}]
        BY <1>2, <2>2 DEF PollClaim
      <3>2. poll'.pc = "mkdir" /\ poll'.job = j
        BY <1>f, <3>1 DEF PollType
      <3>3. QED
        BY <2>m, <2>1, <3>2 DEF JobsMove, Drafting
    <2>3. CASE ~CasWins(jobs, j, "queued", "writing")
      <3>1. jobs' = jobs
        BY <1>2, <2>3 DEF PollClaim, Cas
      <3>2. QED
        BY <2>1, <3>1 DEF Drafting
    <2>4. QED
      BY <2>2, <2>3
  <1>3. CASE PollMkdir \/ PollMkdirFails
    <2>1. jobs' = jobs /\ poll.pc = "mkdir" /\ poll' = [poll EXCEPT !.pc = "spawn"]
      BY <1>3 DEF PollMkdir, PollMkdirFails
    <2>2. poll'.pc = "spawn" /\ poll'.job = p
      BY <1>f, <2>1 DEF PollType
    <2>3. QED
      BY <1>u, <2>1, <2>2 DEF Drafting
  <1>4. CASE SpawnSucceeds
    <2>m. JobsMove(p, "writing", "scoring") /\ poll.pc = "spawn" /\ p \in JobId
      BY <1>4, <1>f, SpawnMoves DEF Inv, SpawnSucceeds
    <2>1. \A k \in JobId : jobs[k].status # "scoring" /\ (jobs[k].status = "writing" => k = p)
      BY <1>u, <2>m DEF Drafting
    <2>2. CASE CasWins(jobs, p, "writing", "scoring")
      <3>1. poll'.pc = "analyze" /\ poll'.job = p
        BY <1>4, <1>f, <2>2 DEF SpawnSucceeds, PollType
      <3>2. jobs'[p].status # "writing"
        <4>1. jobs'[p] = Stamped([jobs[p] EXCEPT !.article = TRUE], "scoring")
          BY <1>4, <1>f, <2>m, <2>2 DEF SpawnSucceeds, Cas, File
        <4>2. [jobs[p] EXCEPT !.article = TRUE] \in Job
          BY <1>f, <2>m, UpdateTypes DEF File
        <4>3. QED
          BY <4>1, <4>2 DEF Stamped, Job
      <3>3. \A k \in JobId : /\ jobs'[k].status # "writing"
                             /\ jobs'[k].status = "scoring" => k = p
        BY <2>m, <2>1, <3>2 DEF JobsMove
      <3>4. QED
        BY <3>1, <3>3 DEF Drafting
    <2>3. CASE ~CasWins(jobs, p, "writing", "scoring")
      <3>1. jobs' = jobs /\ jobs[p].status # "writing"
        BY <1>4, <2>3 DEF SpawnSucceeds, Cas, CasWins, AllowedTransitions
      <3>2. QED
        BY <2>1, <3>1 DEF Drafting
    <2>4. QED
      BY <2>2, <2>3
  <1>5. ASSUME NEW from \in {"writing", "scoring"}, NEW to \in {"failed", "preview-sent"},
               NEW updated \in Job, p \in JobId,
               <<from, to>> \in AllowedTransitions,
               jobs' = Cas(jobs, p, from, to, updated),
               from = "writing" => poll.pc = "spawn",
               from = "scoring" => poll.pc = "analyze"
        PROVE  Drafting'
    <2>1. \A k \in JobId : jobs[k].status \in {"writing", "scoring"}
                           => k = p /\ jobs[k].status = from
      BY <1>u, <1>5 DEF Drafting
    <2>2. CASE CasWins(jobs, p, from, to)
      <3>1. jobs'[p].status = to /\ \A k \in JobId \ {p} : jobs'[k] = jobs[k]
        BY <1>5, <1>f, <2>2 DEF Cas, File, Stamped, Job
      <3>2. QED
        BY <1>5, <2>1, <3>1 DEF Drafting
    <2>3. CASE ~CasWins(jobs, p, from, to)
      <3>1. jobs' = jobs /\ jobs[p].status # from
        BY <1>5, <2>3 DEF Cas, CasWins
      <3>2. QED
        BY <2>1, <3>1 DEF Drafting
    <2>4. QED
      BY <2>2, <2>3
  <1>6. CASE SpawnFails \/ ScoreFails \/ ScoreSucceeds
    <2>1. p \in JobId /\ jobs[p] \in Job
      BY <1>6, <1>f DEF SpawnFails, ScoreFails, ScoreSucceeds, File
    <2>2. Scored(jobs[p]) \in Job /\ [jobs[p] EXCEPT !.notifyPending = TRUE] \in Job
      BY <2>1, UpdateTypes
    <2>3. QED
      BY <1>5, <1>6, <2>1, <2>2
         DEF SpawnFails, ScoreFails, ScoreSucceeds, MarkFailed, AllowedTransitions
  <1>7. CASE AutoPublish \/ PublishRecord \/ PublishRecordFailure
             \/ (\E j \in JobId : PublishRefuse(j))
    <2>1. NoDraftBegun
      BY <1>7, AutoMoves, RecordMoves, RefuseMoves, MoveBeginsNone DEF Inv
    <2>2. poll.pc \notin {"mkdir", "spawn", "analyze"}
      BY <1>7 DEF AutoPublish, PublishRecord, PublishRecordFailure, PublishRefuse, PublishNext
    <2>3. QED
      BY <1>0, <2>1, <2>2
  <1>8. ASSUME NEW j \in JobId, PublishMark(j) PROVE Drafting'
    <2>1. jobs' = [jobs EXCEPT ![j] = [jobs[j] EXCEPT !.marker = TRUE]]
          /\ poll.pc = "next"
      BY <1>8 DEF PublishMark, PublishNext, UpdateFields
    <2>2. \A k \in JobId : jobs'[k].status = jobs[k].status
      BY <1>f, <2>1 DEF File, Job
    <2>3. QED
      BY <1>0, <2>1, <2>2 DEF NoDraftBegun
  <1>9. QED
    BY <1>1, <1>2, <1>3, <1>4, <1>6, <1>7, <1>8 DEF PollStep

\* Nobody else begins a draft, nor takes one from the poll task.
LEMMA DraftingNext ==
  "mkdir" \notin Faults /\ Inv /\ Drafting /\ [Next]_vars => Drafting'
  <1> SUFFICES ASSUME "mkdir" \notin Faults, Inv, Drafting, [Next]_vars PROVE Drafting'
    OBVIOUS
  <1>f. jobs \in File
    BY DEF Inv, TypeInv, TypeOK, File
  <1>0. ASSUME NoDraftBegun, UNCHANGED <<up, poll>> PROVE Drafting'
    BY <1>0 DEF Drafting, NoDraftBegun
  <1>c. ASSUME Calm, \A k \in JobId : jobs'[k].status \notin {"writing", "scoring"}
                                      \/ jobs'[k].status = jobs[k].status
        PROVE  NoDraftBegun
    BY <1>c DEF NoDraftBegun
  <1>1. CASE CheckerStep \/ AttestStep
    <2>1. UNCHANGED <<up, poll>>
      BY <1>1 DEF CheckerStep, AttestStep, CheckerTick, CheckerExpire, CheckerAttest,
                  DirectAttest, AttestSucceeds, AttestFails
    <2>2. NoDraftBegun
      <3>1. ASSUME NEW j \in JobId, CheckerExpire(j) PROVE NoDraftBegun
        BY <3>1, ExpireMoves, MoveBeginsNone DEF Inv
      <3>2. ASSUME NEW c \in Caller, AttestSucceeds(c) \/ AttestFails(c) PROVE NoDraftBegun
        BY <3>2, AttestMoves, MoveBeginsNone DEF Inv
      <3>3. ASSUME jobs' = jobs PROVE NoDraftBegun
        BY <3>3 DEF NoDraftBegun
      <3>4. QED
        BY <1>1, <3>1, <3>2, <3>3
           DEF CheckerStep, AttestStep, CheckerTick, CheckerAttest, DirectAttest
    <2>3. QED
      BY <1>0, <2>1, <2>2
  <1>2. CASE GcStep
    <2>1. UNCHANGED <<up, poll>>
      BY <1>2 DEF GcStep, GcTick, GcArchive, GcRmtree, GcRewrite
    <2>2. NoDraftBegun
      <3>1. NoJob.status = "absent"
        BY DEF NoJob
      <3>2. CASE GcRewrite
        BY <3>1, <3>2, GcRewriteWrites DEF NoDraftBegun
      <3>3. CASE ~GcRewrite
        BY <1>2, <3>3 DEF GcStep, GcTick, GcArchive, GcRmtree, NoDraftBegun
      <3>4. QED
        BY <3>2, <3>3
    <2>3. QED
      BY <1>0, <2>1, <2>2
  <1>3. CASE Crash
    BY <1>3 DEF Crash, Drafting
  <1>4. CASE Restart
    <2>1. ASSUME NEW k \in JobId PROVE jobs'[k].status \notin {"writing", "scoring"}
      <3>1. jobs'[k] = Recovered(jobs[k]) /\ jobs[k] \in Job
        BY <1>4, <1>f DEF Restart, File
      <3>2. QED
        BY <3>1 DEF Recovered, Job
    <2>2. QED
      BY <2>1 DEF Drafting
  <1>5. CASE Tick
    BY <1>0, <1>5, <1>f, AgedSteady DEF Tick, NoDraftBegun
  <1>6. CASE BotStep
    <2>1. UNCHANGED <<up, poll>>
      BY <1>6 DEF BotStep, Submit, SendPreview, RecordPreview, Notify, Approve, Reject,
                  Click, Retry, BotUnchanged, task
    <2>2. NoDraftBegun
      <3>1. ASSUME NEW mode \in Modes, NEW fireIn \in FireDelays, Submit(mode, fireIn)
            PROVE  NoDraftBegun
        <4>1. NewJob(mode, fireIn, None).status = "queued"
          BY DEF NewJob, NoJob
        <4>2. QED
          BY <1>f, <3>1, <4>1 DEF Submit, AppendJob, File, NoDraftBegun
      <3>2. ASSUME NEW j \in JobId, Retry(j) PROVE NoDraftBegun
        <4> DEFINE closed == [jobs[j] EXCEPT !.status = "regenerated",
                                             !.regeneratedTo = lastId + 1]
        <4> DEFINE added == NewJob(jobs[j].mode, jobs[j].fireIn, j)
        <4>1. jobs' = [jobs EXCEPT ![j] = closed, ![lastId + 1] = added]
          BY <3>2 DEF Retry, Regenerate
        <4>2. closed.status = "regenerated" /\ added.status = "queued"
          BY <1>f DEF NewJob, NoJob, File, Job
        <4> HIDE DEF closed, added
        <4>3. \A k \in JobId : jobs'[k] \in {jobs[k], closed, added}
          BY <1>f, <4>1 DEF File
        <4>4. QED
          BY <4>2, <4>3 DEF NoDraftBegun
      <3>3. ASSUME NEW j \in JobId, Approve(j) \/ Reject(j) PROVE NoDraftBegun
        BY <3>3, ClickMoves, MoveBeginsNone DEF Approve, Reject, Inv
      <3>4. ASSUME NEW j \in JobId, SendPreview(j) PROVE NoDraftBegun
        BY <3>4 DEF SendPreview, NoDraftBegun
      <3>5. ASSUME NEW j \in JobId, RecordPreview(j) \/ Notify(j) PROVE NoDraftBegun
        <4>1. [jobs[j] EXCEPT !.previewPending = FALSE].status = jobs[j].status
              /\ [jobs[j] EXCEPT !.notifyPending = FALSE].status = jobs[j].status
          BY <1>f DEF File, Job
        <4>2. \A k \in JobId : jobs'[k].status = jobs[k].status
          BY <1>f, <3>5, <4>1 DEF RecordPreview, Notify, UpdateFields, File
        <4>3. QED
          BY <4>2 DEF NoDraftBegun
      <3>6. QED
        BY <1>6, <3>1, <3>2, <3>3, <3>4, <3>5 DEF BotStep
    <2>3. QED
      BY <1>0, <2>1, <2>2
  <1>7. CASE UNCHANGED vars
    BY <1>0, <1>7 DEF vars, task, NoDraftBegun
  <1>8. QED
    BY <1>1, <1>2, <1>3, <1>4, <1>5, <1>6, <1>7, DraftingPoll DEF Next

-----------------------------------------------------------------------------
(***************************************************************************)
(* While nothing interrupts the publish step, one post for each job and no *)
(* more than the ceiling allows.                                           *)
(***************************************************************************)

\* No publish step is cut short and no acknowledgement is lost.
Undisturbed == "raise" \notin Faults /\ "lost-ack" \notin Faults /\ MaxCrashes = 0

\* The file knows of the publication, and dates it no earlier than it was.
Known(j) ==
    /\ jobs[j].status \in Published /\ jobs[j].publishedAge # None
    /\ jobs[j].publishedAge <= postedAge[j]

\* A text is in the channel once at most, and unless the poll task is about
\* to record it the file knows of it.
Ledger ==
    \A j \in JobId :
        /\ posts[j] <= 1
        /\ posts[j] = 0 <=> postedAge[j] = None
        /\ InQueue(jobs, j) /\ posts[j] > 0
           => Known(j) \/ (poll.pc = "record" /\ poll.job = j)

\* The set that CeilingOnFile bounds.
RecentOnFile ==
    {j \in JobId : /\ InQueue(jobs, j)
                   /\ postedAge[j] # None
                   /\ postedAge[j] <= RateWindow}

\* The check of the ceiling still holds when the call is made.
Room == poll.pc = "campaign" => Cardinality(RecentOnFile) < Ceiling

Thrift == Ledger /\ Room /\ CeilingOnFile

\* Sets of jobs are finite, and a smaller one has no more members.
LEMMA FewerJobs ==
  ASSUME NEW S \in SUBSET JobId, NEW T \in SUBSET S
  PROVE  /\ IsFiniteSet(S) /\ Cardinality(S) \in Nat /\ Cardinality(T) \in Nat
         /\ Cardinality(T) <= Cardinality(S)
  <1>1. IsFiniteSet(JobId)
    BY FS_Interval, QueueAssumption DEF JobId
  <1>2. IsFiniteSet(S)
    BY <1>1, FS_Subset
  <1>3. IsFiniteSet(T) /\ Cardinality(T) <= Cardinality(S)
    BY <1>2, FS_Subset
  <1>4. QED
    BY <1>2, <1>3, FS_CardinalityType

\* A step after which no more texts on file are recent keeps Room and the ceiling.
LEMMA FewerRecent ==
  ASSUME Thrift, RecentOnFile' \subseteq RecentOnFile,
         poll'.pc = "campaign" => poll.pc = "campaign"
  PROVE  Room' /\ CeilingOnFile'
  <1>1. RecentOnFile \in SUBSET JobId /\ RecentOnFile' \in SUBSET RecentOnFile
    BY DEF RecentOnFile
  <1>2. Cardinality(RecentOnFile) \in Nat /\ Cardinality(RecentOnFile') \in Nat
        /\ Cardinality(RecentOnFile') <= Cardinality(RecentOnFile)
    BY <1>1, FewerJobs
  <1>3. Cardinality(RecentOnFile) <= Ceiling
    BY DEF Thrift, CeilingOnFile, RecentOnFile
  <1>4. Cardinality(RecentOnFile') <= Ceiling
    BY <1>2, <1>3, PublisherAssumption
  <1>5. Room'
    BY <1>2, PublisherAssumption DEF Thrift, Room
  <1>6. CeilingOnFile'
    BY <1>4 DEF CeilingOnFile, RecentOnFile
  <1>7. QED
    BY <1>5, <1>6

\* What every step does to the ledger that posts nothing, forgets no
\* publication and does not end the record step.
LEMMA ThriftKept ==
  ASSUME Inv, Thrift, UNCHANGED channel,
         \A k \in JobId : posts[k] > 0 /\ InQueue(jobs', k) =>
            /\ InQueue(jobs, k)
            /\ jobs[k].status \in Published =>
                  /\ jobs'[k].status \in Published
                  /\ jobs'[k].publishedAge = jobs[k].publishedAge,
         poll' = poll \/ poll.pc # "record",
         poll'.pc = "campaign" => poll.pc = "campaign"
  PROVE  Thrift'
  <1>f. posts \in [JobId -> 0 .. 2] /\ posts' = posts /\ postedAge' = postedAge
    BY DEF Inv, TypeInv, TypeOK, channel
  <1>1. Ledger'
    BY <1>f DEF Thrift, Ledger, Known
  <1>2. RecentOnFile' \subseteq RecentOnFile
    <2>1. ASSUME NEW k \in JobId, InQueue(jobs', k), postedAge[k] # None
          PROVE  InQueue(jobs, k)
      <3>1. posts[k] > 0
        BY <1>f, <2>1 DEF Thrift, Ledger
      <3>2. QED
        BY <2>1, <3>1
    <2>2. QED
      BY <1>f, <2>1 DEF RecentOnFile
  <1>3. QED
    BY <1>1, <1>2, FewerRecent DEF Thrift

\* In particular a calm step.
LEMMA ThriftCalm ==
  ASSUME Inv, Thrift, Calm, UNCHANGED channel,
         poll' = poll \/ poll.pc # "record",
         poll'.pc = "campaign" => poll.pc = "campaign"
  PROVE  Thrift'
  <1>1. ASSUME NEW k \in JobId, InQueue(jobs', k)
        PROVE  /\ InQueue(jobs, k)
               /\ jobs[k].status \in Published =>
                     /\ jobs'[k].status \in Published
                     /\ jobs'[k].publishedAge = jobs[k].publishedAge
    BY <1>1 DEF Calm, CalmMove, AllowedTransitions, InQueue, Published
  <1>2. QED
    BY <1>1, ThriftKept

\* The text of the job at hand appears: it is the first of its job, there is
\* room for it, and the record is next.
LEMMA ThriftPosts ==
  ASSUME Undisturbed, Inv, Thrift, NEW ok \in BOOLEAN, NEW landed \in BOOLEAN,
         CampaignReturns(ok, landed)
  PROVE  Thrift'
  <1>j. PICK p \in JobId : p = poll.job
    BY DEF CampaignReturns, Inv, TypeInv, PollHasJob
  <1>f. posts \in [JobId -> 0 .. 2] /\ postedAge \in [JobId -> Timer] /\ poll \in PollType
        /\ None \notin Nat
    BY QueueAssumption DEF Inv, TypeInv, TypeOK, PollType
  <1>1. /\ poll.pc = "campaign" /\ jobs' = jobs /\ Appears(p, landed)
        /\ landed <=> ok
        /\ poll' = [poll EXCEPT !.pc = IF ok THEN "record" ELSE "record-failure"]
    BY <1>j DEF CampaignReturns, Undisturbed
  <1>2. jobs[p].status = "publishing" /\ posts[p] = 0
    <2>1. jobs[p].status = "publishing"
      BY <1>j, <1>1 DEF Inv, PollWork
    <2>2. ~Known(p) /\ InQueue(jobs, p)
      BY <2>1 DEF Known, Published, InQueue
    <2>3. QED
      BY <1>f, <1>1, <2>1, <2>2 DEF Thrift, Ledger
  <1>3. poll'.job = p /\ poll'.pc = (IF ok THEN "record" ELSE "record-failure")
    BY <1>f, <1>j, <1>1 DEF PollType
  <1>4. CASE ~landed
    <2>1. UNCHANGED channel
      BY <1>1, <1>4 DEF Appears
    <2>2. QED
      BY <1>1, <1>3, <1>4, <2>1, ThriftKept
  <1>5. CASE landed
    <2>1. /\ posts'[p] = 1 /\ postedAge'[p] = 0
          /\ \A k \in JobId \ {p} : posts'[k] = posts[k] /\ postedAge'[k] = postedAge[k]
      BY <1>f, <1>1, <1>2, <1>5 DEF Appears
    <2>2. Ledger'
      <3>1. ASSUME NEW k \in JobId \ {p}, InQueue(jobs, k), posts[k] > 0
            PROVE  Known(k)
        BY <1>1, <3>1 DEF Thrift, Ledger
      <3>2. ASSUME NEW k \in JobId \ {p}, Known(k) PROVE Known(k)'
        BY <1>1, <2>1, <3>2 DEF Known
      <3>3. poll'.pc = "record"
        BY <1>1, <1>3, <1>5
      <3>4. ASSUME NEW k \in JobId \ {p}
            PROVE  /\ posts'[k] <= 1 /\ (posts'[k] = 0 <=> postedAge'[k] = None)
                   /\ InQueue(jobs', k) /\ posts'[k] > 0 => Known(k)'
        BY <1>1, <2>1, <3>1, <3>2 DEF Thrift, Ledger
      <3>5. posts'[p] <= 1 /\ (posts'[p] = 0 <=> postedAge'[p] = None)
        BY <1>f, <2>1
      <3>6. QED
        BY <1>3, <3>3, <3>4, <3>5 DEF Ledger
    <2>3. Room'
      BY <1>1, <1>3 DEF Room
    <2>4. CeilingOnFile'
      <3>1. RecentOnFile' \subseteq RecentOnFile \cup {p}
        BY <1>1, <2>1 DEF RecentOnFile
      <3>2. RecentOnFile \in SUBSET JobId
        BY DEF RecentOnFile
      <3>3. IsFiniteSet(RecentOnFile) /\ Cardinality(RecentOnFile) \in Nat
        BY <3>2, FewerJobs
      <3>4. Cardinality(RecentOnFile \cup {p}) <= Cardinality(RecentOnFile) + 1
        <4>1. Cardinality(RecentOnFile \cup {p}) =
                IF p \in RecentOnFile THEN Cardinality(RecentOnFile)
                ELSE Cardinality(RecentOnFile) + 1
          BY <3>3, FS_AddElement, Zenon
        <4>2. QED
          BY <3>3, <4>1
      <3>5. RecentOnFile \cup {p} \in SUBSET JobId
        BY <3>2
      <3>6. /\ Cardinality(RecentOnFile') <= Cardinality(RecentOnFile \cup {p})
            /\ Cardinality(RecentOnFile') \in Nat
            /\ Cardinality(RecentOnFile \cup {p}) \in Nat
        BY <3>1, <3>5, FewerJobs
      <3>7. Cardinality(RecentOnFile) < Ceiling
        BY <1>1 DEF Thrift, Room
      <3>8. Cardinality(RecentOnFile') <= Ceiling
        BY <3>3, <3>4, <3>6, <3>7, PublisherAssumption
      <3>9. QED
        BY <3>8 DEF CeilingOnFile, RecentOnFile
    <2>5. QED
      BY <2>2, <2>3, <2>4 DEF Thrift
  <1>6. QED
    BY <1>4, <1>5

\* The ceiling was not reached by what the file knows, and the file knows all.
LEMMA ThriftMarks ==
  ASSUME Inv, Thrift, NEW j \in JobId, PublishMark(j)
  PROVE  Thrift'
  <1>f. jobs \in File /\ poll \in PollType /\ posts \in [JobId -> 0 .. 2]
        /\ postedAge \in [JobId -> Timer]
    BY DEF Inv, TypeInv, TypeOK, File, PollType
  <1>1. /\ poll.pc = "next" /\ ~CeilingReached /\ UNCHANGED channel
        /\ jobs' = [jobs EXCEPT ![j] = [jobs[j] EXCEPT !.marker = TRUE]]
    BY DEF PublishMark, PublishNext, UpdateFields
  <1>2. \A k \in JobId : /\ jobs'[k].status = jobs[k].status
                         /\ jobs'[k].publishedAge = jobs[k].publishedAge
    BY <1>f, <1>1 DEF File, Job
  <1>3. Ledger' /\ RecentOnFile' = RecentOnFile
    BY <1>1, <1>2 DEF Thrift, Ledger, Known, RecentOnFile, InQueue, channel
  <1>4. Cardinality(RecentOnFile) < Ceiling
    <2>1. RecentOnFile \subseteq RecentlyPublished
      <3>1. ASSUME NEW k \in RecentOnFile PROVE k \in RecentlyPublished
        <4>1. k \in JobId /\ InQueue(jobs, k) /\ postedAge[k] # None
              /\ postedAge[k] <= RateWindow
          BY DEF RecentOnFile
        <4>2. posts[k] > 0
          BY <1>f, <4>1 DEF Thrift, Ledger
        <4>3. Known(k)
          BY <1>1, <4>1, <4>2 DEF Thrift, Ledger
        <4>4. jobs[k].publishedAge \in Nat /\ postedAge[k] \in Nat
          BY <1>f, <4>1, <4>3 DEF Known, File, Job, Timer
        <4>5. jobs[k].publishedAge <= RateWindow
          BY <4>1, <4>3, <4>4, PublisherAssumption DEF Known
        <4>6. QED
          BY <4>1, <4>3, <4>5 DEF Known, RecentlyPublished
      <3>2. QED
        BY <3>1
    <2>2. RecentlyPublished \in SUBSET JobId
      BY DEF RecentlyPublished
    <2>3. /\ Cardinality(RecentOnFile) <= Cardinality(RecentlyPublished)
          /\ Cardinality(RecentOnFile) \in Nat /\ Cardinality(RecentlyPublished) \in Nat
      BY <2>1, <2>2, FewerJobs
    <2>4. Cardinality(RecentlyPublished) < Ceiling
      BY <1>1, <2>3, PublisherAssumption DEF CeilingReached
    <2>5. QED
      BY <2>3, <2>4, PublisherAssumption
  <1>5. Room' /\ CeilingOnFile'
    BY <1>3, <1>4 DEF Thrift, Room, CeilingOnFile, RecentOnFile
  <1>6. QED
    BY <1>3, <1>5 DEF Thrift

\* The record of the publication dates it now, no earlier than the text.
LEMMA ThriftRecords ==
  ASSUME Inv, Thrift, PublishRecord
  PROVE  Thrift'
  <1>j. PICK p \in JobId : p = poll.job
    BY DEF PublishRecord, Inv, TypeInv, PollHasJob
  <1> DEFINE told == [jobs[p] EXCEPT !.postUrl = TRUE]
  <1> DEFINE new == Stamped(told, "published")
  <1>f. jobs \in File /\ posts \in [JobId -> 0 .. 2] /\ postedAge \in [JobId -> Timer]
        /\ None \notin Nat
    BY QueueAssumption DEF Inv, TypeInv, TypeOK, File
  <1>1. jobs[p].status = "publishing" /\ poll.pc = "record" /\ posts[p] > 0
    BY <1>j DEF PublishRecord, Inv, PollWork
  <1>2. jobs' = [jobs EXCEPT ![p] = new] /\ PollContinues /\ UNCHANGED channel
    BY <1>j, <1>1 DEF PublishRecord, Cas, CasWins, AllowedTransitions
  <1>3. new.status = "published" /\ new.publishedAge = 0
    <2>1. told \in Job
      BY <1>f, UpdateTypes DEF File
    <2>2. QED
      BY <2>1 DEF Stamped, Job
  <1> HIDE DEF new, told
  <1>4. jobs'[p] = new /\ \A k \in JobId \ {p} : jobs'[k] = jobs[k]
    BY <1>f, <1>2 DEF File
  <1>5. poll'.pc \in {"idle", "next"}
    BY <1>2 DEF PollContinues, PollGoesOn, PollIdle
  <1>6. Ledger'
    <2>1. postedAge[p] \in Nat
      BY <1>f, <1>1 DEF Thrift, Ledger, Timer
    <2>2. Known(p)'
      BY <1>2, <1>3, <1>4, <1>f, <2>1 DEF Known, Published, channel
    <2>3. ASSUME NEW k \in JobId \ {p}, InQueue(jobs', k), posts[k] > 0 PROVE Known(k)'
      <3>1. Known(k)
        BY <1>j, <1>4, <2>3 DEF Thrift, Ledger, InQueue
      <3>2. QED
        BY <1>2, <1>4, <3>1 DEF Known, channel
    <2>4. QED
      BY <1>2, <2>2, <2>3 DEF Thrift, Ledger, channel
  <1>7. RecentOnFile' \subseteq RecentOnFile
    BY <1>1, <1>2, <1>4 DEF RecentOnFile, InQueue, channel
  <1>8. QED
    BY <1>5, <1>6, <1>7, FewerRecent DEF Thrift

\* Time keeps the order of the two dates, and makes no text more recent.
LEMMA ThriftTick ==
  ASSUME Inv, Thrift, Tick
  PROVE  Thrift'
  <1>f. jobs \in File /\ postedAge \in [JobId -> Timer] /\ None \notin Nat
    BY QueueAssumption DEF Inv, TypeInv, TypeOK, File
  <1>1. /\ posts' = posts /\ poll' = poll /\ jobs' = AgedFile(jobs)
        /\ postedAge' = [j \in JobId |-> CountUp(postedAge[j])]
    BY DEF Tick
  <1>2. ASSUME NEW k \in JobId
        PROVE  /\ jobs'[k].status = jobs[k].status
               /\ jobs'[k].publishedAge = CountUp(jobs[k].publishedAge)
               /\ postedAge'[k] = CountUp(postedAge[k])
               /\ jobs[k].publishedAge \in Timer /\ postedAge[k] \in Timer
    <2>1. jobs[k] \in Job /\ jobs'[k] = Aged(jobs[k])
      BY <1>f, <1>1 DEF File, AgedFile
    <2>2. jobs'[k].publishedAge = CountUp(jobs[k].publishedAge)
      BY <2>1 DEF Aged, Job
    <2>3. jobs[k].publishedAge \in Timer
      BY <2>1 DEF Job
    <2>4. QED
      BY <1>f, <1>1, <2>2, <2>3, AgedSteady
  <1>3. ASSUME NEW a \in Nat, NEW b \in Nat
        PROVE  /\ CountUp(a) \in Nat
               /\ a <= b => CountUp(a) <= CountUp(b)
               /\ CountUp(b) <= RateWindow => b <= RateWindow
    BY QueueAssumption, PublisherAssumption DEF CountUp
  <1>4. CountUp(None) = None
    BY DEF CountUp
  <1>5. Ledger'
    <2>1. ASSUME NEW k \in JobId, Known(k), postedAge[k] # None PROVE Known(k)'
      <3>1. jobs[k].publishedAge \in Nat /\ postedAge[k] \in Nat
        BY <1>2, <2>1 DEF Known, Timer
      <3>2. QED
        BY <1>2, <1>3, <1>f, <2>1, <3>1 DEF Known
    <2>2. ASSUME NEW k \in JobId PROVE postedAge'[k] = None <=> postedAge[k] = None
      BY <1>2, <1>3, <1>4, <1>f DEF Timer
    <2>3. ASSUME NEW k \in JobId, posts[k] > 0 PROVE postedAge[k] # None
      <3>1. posts[k] # 0
        BY <2>3 DEF Inv, TypeInv, TypeOK
      <3>2. QED
        BY <3>1 DEF Thrift, Ledger
    <2>4. QED
      BY <1>1, <1>2, <2>1, <2>2, <2>3 DEF Thrift, Ledger, InQueue
  <1>6. RecentOnFile' \subseteq RecentOnFile
    <2>1. ASSUME NEW k \in JobId, postedAge'[k] # None, postedAge'[k] <= RateWindow
          PROVE  postedAge[k] # None /\ postedAge[k] <= RateWindow
      BY <1>2, <1>3, <1>4, <2>1 DEF Timer
    <2>2. \A k \in JobId : InQueue(jobs', k) <=> InQueue(jobs, k)
      BY <1>2 DEF InQueue
    <2>3. QED
      BY <2>1, <2>2 DEF RecentOnFile
  <1>7. QED
    BY <1>1, <1>5, <1>6, FewerRecent DEF Thrift

\* Every step keeps the ledger, if nothing cuts the publish step short.
LEMMA ThriftNext ==
  Undisturbed /\ Inv /\ Thrift /\ [Next]_vars => Thrift'
  <1> SUFFICES ASSUME Undisturbed, Inv, Thrift, [Next]_vars PROVE Thrift'
    OBVIOUS
  <1>f. jobs \in File /\ poll \in PollType /\ lastId \in 0 .. MaxJobs
        /\ posts \in [JobId -> 0 .. 2]
    BY DEF Inv, TypeInv, TypeOK, File, PollType
  <1>g. PollContinues => poll'.pc \in {"idle", "next"}
    BY DEF PollContinues, PollGoesOn, PollIdle
  <1>1. CASE PollTick \/ PollMkdir \/ PollMkdirFails \/ (\E j \in JobId : PollClaim(j))
             \/ (\E j \in JobId : PublishRefuse(j))
             \/ SpawnSucceeds \/ SpawnFails \/ ScoreSucceeds \/ ScoreFails
             \/ AutoPublish \/ PublishRecordFailure
    <2>1. UNCHANGED channel
      BY <1>1
         DEF PollTick, PollMkdir, PollMkdirFails, PollClaim, PublishRefuse, SpawnSucceeds,
             SpawnFails, ScoreSucceeds, ScoreFails, AutoPublish, PublishRecordFailure
    <2>2. poll.pc # "record"
      BY <1>1
         DEF PollTick, PollMkdir, PollMkdirFails, PollClaim, PublishRefuse, PublishNext,
             SpawnSucceeds, SpawnFails, ScoreSucceeds, ScoreFails, AutoPublish,
             PublishRecordFailure
    <2>3. poll'.pc # "campaign"
      <3>1. ASSUME NEW queued, NEW publishing, PollGoesOn(queued, publishing)
            PROVE  poll'.pc \in {"idle", "next"}
        BY <3>1 DEF PollGoesOn, PollIdle
      <3>2. CASE PollTick \/ (\E j \in JobId : PublishRefuse(j))
        BY <3>1, <3>2 DEF PollTick, PublishRefuse
      <3>3. ASSUME NEW j \in JobId, PollClaim(j) PROVE poll'.pc # "campaign"
        BY <1>f, <3>1, <3>3 DEF PollClaim, PollType
      <3>4. CASE PollMkdir \/ PollMkdirFails
        BY <1>f, <3>4 DEF PollMkdir, PollMkdirFails, PollIdle, PollType
      <3>5. CASE SpawnSucceeds
        BY <1>f, <1>g, <3>5 DEF SpawnSucceeds, PollType
      <3>6. CASE ScoreSucceeds
        BY <1>f, <1>g, <3>6 DEF ScoreSucceeds, PollType
      <3>7. CASE SpawnFails \/ ScoreFails \/ AutoPublish \/ PublishRecordFailure
        BY <1>g, <3>7 DEF SpawnFails, ScoreFails, AutoPublish, PublishRecordFailure
      <3>8. QED
        BY <1>1, <3>2, <3>3, <3>4, <3>5, <3>6, <3>7
    <2>4. Calm
      BY <1>1, CalmPoll DEF PollStep
    <2>5. QED
      BY <2>1, <2>2, <2>3, <2>4, ThriftCalm
  <1>2. CASE PollStep
    <2>1. ~ \E landed \in BOOLEAN : CampaignRaises(landed)
      BY DEF CampaignRaises, Undisturbed
    <2>2. QED
      BY <1>1, <1>2, <2>1, ThriftPosts, ThriftMarks, ThriftRecords DEF PollStep
  <1>3. CASE \/ CheckerStep \/ Restart
             \/ \E j \in JobId : DirectAttest(j)
             \/ \E c \in Caller : AttestSucceeds(c)
             \/ GcStep /\ ~GcRewrite
    <2>1. UNCHANGED <<channel, poll>>
      BY <1>3 DEF CheckerStep, CheckerTick, CheckerExpire, CheckerAttest, Restart, task,
                  DirectAttest, AttestSucceeds, GcStep, GcTick, GcArchive, GcRmtree
    <2>2. Calm
      BY <1>3, CalmOthers
    <2>3. QED
      BY <2>1, <2>2, ThriftCalm
  <1>4. ASSUME NEW c \in Caller, AttestFails(c) PROVE Thrift'
    <2>1. UNCHANGED <<channel, poll>>
      BY <1>4 DEF AttestFails
    <2>2. ASSUME NEW k \in JobId, InQueue(jobs', k)
          PROVE  /\ InQueue(jobs, k)
                 /\ jobs[k].status \in Published =>
                       /\ jobs'[k].status \in Published
                       /\ jobs'[k].publishedAge = jobs[k].publishedAge
      BY <1>4, <2>2, AttemptCounts DEF InQueue, Published
    <2>3. QED
      BY <2>1, <2>2, ThriftKept
  <1>5. CASE GcRewrite
    <2>1. NoJob.status = "absent" /\ UNCHANGED channel
      BY <1>5 DEF GcRewrite, NoJob
    <2>2. QED
      BY <1>5, <2>1, GcRewriteWrites, ThriftKept DEF InQueue
  <1>6. CASE Crash
    BY <1>6 DEF Crash, Undisturbed, Inv, TypeInv, TypeOK
  <1>7. CASE BotStep
    <2>1. UNCHANGED <<channel, poll>>
      BY <1>7 DEF BotStep, Submit, SendPreview, RecordPreview, Notify, Approve, Reject,
                  Click, Retry, BotUnchanged, task
    <2>2. ASSUME NEW mode \in Modes, NEW fireIn \in FireDelays, Submit(mode, fireIn)
          PROVE  Thrift'
      <3>1. \A k \in JobId \ {lastId + 1} : jobs'[k] = jobs[k]
        BY <1>f, <2>2 DEF Submit, AppendJob, File
      <3>2. \A k \in JobId : posts[k] > 0 => k # lastId + 1
        BY <1>f DEF Inv, Book, Fresh, JobId
      <3>3. QED
        BY <2>1, <3>1, <3>2, ThriftKept DEF InQueue
    <2>3. ASSUME NEW j \in JobId, Retry(j) PROVE Thrift'
      <3>1. jobs[j].status = "preview-sent"
            /\ \A k \in JobId \ {j, lastId + 1} : jobs'[k] = jobs[k]
        BY <1>f, <2>3 DEF Retry, Regenerate, CasWins, File
      <3>2. \A k \in JobId : posts[k] > 0 => k # lastId + 1 /\ k # j
        BY <1>f, <3>1 DEF Inv, Book, Fresh, PostedOnlyOnceDecided, Published, JobId
      <3>3. QED
        BY <2>1, <3>1, <3>2, ThriftKept DEF InQueue
    <2>4. ASSUME NEW j \in JobId, SendPreview(j) \/ RecordPreview(j) \/ Notify(j)
                                  \/ Approve(j) \/ Reject(j)
          PROVE  Thrift'
      BY <2>1, <2>4, CalmBot, ThriftCalm
    <2>5. QED
      BY <1>7, <2>2, <2>3, <2>4 DEF BotStep
  <1>8. CASE UNCHANGED vars
    BY <1>8, SameCalm, ThriftCalm DEF vars, task
  <1>9. QED
    BY <1>2, <1>3, <1>4, <1>5, <1>6, <1>7, <1>8, ThriftTick DEF Next, AttestStep

-----------------------------------------------------------------------------
(***************************************************************************)
(* The theorems.                                                           *)
(***************************************************************************)

\* All of it holds at the start, when the file is empty.
LEMMA FileInit == Init => Links /\ Paced /\ Calls /\ Drafting
  <1> SUFFICES ASSUME Init PROVE Links /\ Paced /\ Calls /\ Drafting
    OBVIOUS
  <1>1. \A j \in JobId : /\ jobs[j].status = "absent" /\ jobs[j].attempts = 0
                         /\ jobs[j].retriesOf = None /\ jobs[j].regeneratedTo = None
    BY DEF Init, EmptyFile, NoJob
  <1>2. checker.retry = {} /\ \A c \in Caller : attest[c].job = None
    BY DEF Init, CheckerIdle, NoCall
  <1>3. Links
    BY <1>1 DEF Links, RetryLinked, InQueue
  <1>4. Paced /\ Calls
    <2>1. \A j \in JobId : j # None
      BY QueueAssumption DEF JobId
    <2>2. QED
      BY <1>1, <1>2, <2>1 DEF Paced, InHand, Calls, Caller
  <1>5. Drafting
    BY <1>1 DEF Drafting
  <1>6. QED
    BY <1>3, <1>4, <1>5

\* A regenerated ticket and its replacement name each other while both are on
\* file, whatever the tasks, the bot and cleanup-gc do in between.
THEOREM RetryLinkedHolds == Spec => []RetryLinked
  <1>1. Init => Links
    BY FileInit
  <1>2. Links => RetryLinked
    BY DEF Links
  <1>3. QED
    BY <1>1, <1>2, Invariance, LinksNext, PTL DEF Spec

\* Whoever calls attest_once, and whatever crashes, the attempts are counted from
\* the first failure and none is made before its slot.
THEOREM RetriesOnScheduleHolds == Spec => []RetriesOnSchedule
  <1>1. Init => Paced /\ Calls
    BY FileInit
  <1>2. Inv /\ (Paced /\ Calls) /\ [Next]_vars => (Paced /\ Calls)'
    BY PacedNext, CallsNext
  <1>3. Paced => RetriesOnSchedule
    BY DEF Paced, RetriesOnSchedule
  <1>4. QED
    BY <1>1, <1>2, <1>3, Invariance, PTL DEF Spec

\* As long as making the worktree does not fail, a job that is being drafted
\* is in the hands of the poll task, or recovery will find it.
THEOREM NoOrphanHolds ==
  ASSUME "mkdir" \notin Faults
  PROVE  Spec => []NoOrphan
  <1>1. Init => Drafting
    BY FileInit
  <1>2. Inv /\ Drafting /\ [Next]_vars => Drafting'
    BY DraftingNext
  <1>3. Drafting => NoOrphan
    BY DEF Drafting, NoOrphan
  <1>4. QED
    BY <1>1, <1>2, <1>3, Invariance, PTL DEF Spec

\* The rewrite that ends a cleanup writes back exactly what the file held: no
\* write of the bot or of another task came after what it read.
THEOREM NoLostUpdateHolds == Spec => NoLostUpdate
  <1>1. Inv /\ [Next]_vars =>
           (gc.pc = "rewrite" /\ up /\ gc' = GcIdle /\ up' =>
              \A j \in JobId \ gc.remove : jobs'[j] = jobs[j])
    <2> SUFFICES ASSUME Inv, [Next]_vars, gc.pc = "rewrite", up, gc' = GcIdle, up'
                 PROVE  \A j \in JobId \ gc.remove : jobs'[j] = jobs[j]
      OBVIOUS
    <2>1. gc \in GcType /\ gc' # gc
      BY DEF Inv, TypeInv, TypeOK, GcType, GcIdle
    <2>2. GcRewrite
      <3>1. CASE Tick
        <4>1. gc'.pc = gc.pc
          BY <2>1, <3>1 DEF Tick, GcType
        <4>2. QED
          BY <4>1 DEF GcIdle
      <3>2. CASE PollStep \/ CheckerStep \/ AttestStep \/ BotStep \/ Restart
        BY <2>1, <3>2
           DEF PollStep, PollTick, PollClaim, PublishRefuse, PublishMark, PollMkdir,
               PollMkdirFails, SpawnSucceeds, SpawnFails, ScoreSucceeds, ScoreFails,
               AutoPublish, CampaignReturns, CampaignRaises, PublishRecord,
               PublishRecordFailure, CheckerStep, CheckerTick, CheckerExpire,
               CheckerAttest, AttestStep, DirectAttest, AttestSucceeds, AttestFails,
               BotStep, Submit, SendPreview, RecordPreview, Notify, Approve, Reject, Click,
               Retry, BotUnchanged, Restart, task
      <3>3. CASE Crash \/ UNCHANGED vars
        BY <2>1, <3>3 DEF Crash, vars, task
      <3>4. CASE GcStep
        BY <3>4 DEF GcStep, GcTick, GcArchive, GcRmtree, LoopFree
      <3>5. QED
        BY <3>1, <3>2, <3>3, <3>4 DEF Next
    <2>3. QED
      BY <2>2, GcRewriteWrites
  <1>2. QED
    BY <1>1, Invariance, PTL DEF Spec, NoLostUpdate

\* At the start nothing is posted and nothing is on file.
LEMMA ThriftInit == Init => Thrift
  <1> SUFFICES ASSUME Init PROVE Thrift
    OBVIOUS
  <1>1. \A j \in JobId : ~InQueue(jobs, j)
    BY DEF Init, EmptyFile, NoJob, InQueue
  <1>2. Ledger /\ Room
    BY <1>1 DEF Init, Ledger, Room, PollIdle
  <1>3. CeilingOnFile
    <2>1. RecentOnFile = {}
      BY <1>1 DEF RecentOnFile
    <2>2. Cardinality(RecentOnFile) = 0
      BY <2>1, FS_EmptySet
    <2>3. QED
      BY <2>2, PublisherAssumption DEF CeilingOnFile, RecentOnFile
  <1>4. QED
    BY <1>2, <1>3 DEF Thrift

\* If no publish step is cut short, a job is posted once at most: click,
\* deadline and auto mode never publish it twice between them.
THEOREM OnePostEachHolds ==
  ASSUME Undisturbed
  PROVE  Spec => []OnePostEach
  <1>1. Inv /\ Thrift /\ [Next]_vars => Thrift'
    BY ThriftNext
  <1>2. Thrift => OnePostEach
    BY DEF Thrift, Ledger, OnePostEach
  <1>3. QED
    BY <1>1, <1>2, ThriftInit, Invariance, PTL DEF Spec

\* Nor do more texts of jobs on file appear within a RateWindow than the
\* ceiling allows: between its check and the call nobody else posts.
THEOREM CeilingOnFileHolds ==
  ASSUME Undisturbed
  PROVE  Spec => []CeilingOnFile
  <1>1. Inv /\ Thrift /\ [Next]_vars => Thrift'
    BY ThriftNext
  <1>2. Thrift => CeilingOnFile
    BY DEF Thrift
  <1>3. QED
    BY <1>1, <1>2, ThriftInit, Invariance, PTL DEF Spec
=============================================================================
