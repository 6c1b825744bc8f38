---------------------------- MODULE PublishQueue ----------------------------
(***************************************************************************)
(* The ticket file of the content publisher, queue.jsonl, and the          *)
(* operations of content_publisher/queue.py on it.  Every operation takes  *)
(* the flock, reads the file, rewrites it and replaces it atomically       *)
(* (state.py), so it is a function from the file before to the file after. *)
(*                                                                         *)
(* A file maps each job id to its line.  Ids are handed out in increasing  *)
(* order, so their order is the order of the lines.  An id that has no     *)
(* line, because it was never appended or was collected, maps to NoJob.    *)
(*                                                                         *)
(* Timestamps are kept as their distance from now: deadlines count down to *)
(* 0 ("<= now"), ages count up to AgeCap.  No test in the code looks at a  *)
(* timestamp in another way, and no clock value has to be bounded.         *)
(***************************************************************************)
EXTENDS Naturals

CONSTANTS
    MaxJobs,    \* bound: ids that may ever be handed out
    AgeCap,     \* bound: ages stop counting here
    None        \* an optional field of the ticket that is not set

ASSUME QueueAssumption ==
    /\ MaxJobs \in Nat \ {0}
    /\ AgeCap \in Nat
    /\ None \notin Nat

JobId == 1 .. MaxJobs
Mode == {"approval", "auto"}

-----------------------------------------------------------------------------
(***************************************************************************)
(* The ticket and its state machine (models.py).                           *)
(***************************************************************************)

Terminal == {"done", "rejected", "regenerated", "publish-failed",
             "attest-failed", "failed"}

Status == {"queued", "writing", "scoring", "preview-sent", "publishing",
           "published", "attest-pending"} \cup Terminal

AllowedTransitions ==
    {<<"queued", "writing">>, <<"queued", "failed">>,
     <<"writing", "scoring">>, <<"writing", "failed">>,
     <<"scoring", "preview-sent">>, <<"scoring", "failed">>,
     <<"preview-sent", "publishing">>, <<"preview-sent", "rejected">>,
     <<"preview-sent", "regenerated">>,
     <<"publishing", "published">>, <<"publishing", "publish-failed">>,
     <<"published", "done">>, <<"published", "attest-pending">>,
     <<"attest-pending", "done">>, <<"attest-pending", "attest-failed">>}

Timer == Nat \cup {None}
Link == JobId \cup {None}

Job ==
    [status : Status \cup {"absent"}, mode : Mode,
     fireIn : Nat, approvalIn : Timer, cleanupIn : Timer,
     article : BOOLEAN, scored : BOOLEAN,
     previewPending : BOOLEAN, notifyPending : BOOLEAN,
     marker : BOOLEAN,          \* tentative_publish_started_at is set
     postUrl : BOOLEAN,         \* post_url and content_sha256 are set
     publishedAge : Timer, pendingAge : Timer, attempts : Nat,
     retriesOf : Link, regeneratedTo : Link]

NoJob ==
    [status |-> "absent", mode |-> "approval",
     fireIn |-> 0, approvalIn |-> None, cleanupIn |-> None,
     article |-> FALSE, scored |-> FALSE,
     previewPending |-> FALSE, notifyPending |-> FALSE,
     marker |-> FALSE, postUrl |-> FALSE,
     publishedAge |-> None, pendingAge |-> None, attempts |-> 0,
     retriesOf |-> None, regeneratedTo |-> None]

EmptyFile == [j \in JobId |-> NoJob]

InQueue(file, j) == file[j].status # "absent"

-----------------------------------------------------------------------------
(***************************************************************************)
(* The operations of queue.py.                                             *)
(***************************************************************************)

\* Faulty: a missing fire_at is kept as a time that never comes.
NewJobUnscheduled(mode, fireIn, parent) ==
    [NoJob EXCEPT !.status = "queued", !.mode = mode, !.retriesOf = parent,
                  !.fireIn = IF fireIn = 0 THEN None ELSE fireIn]

\* The new line that append_job and regenerate_job write.
NewJob(mode, fireIn, parent) ==
    [NoJob EXCEPT !.status = "queued", !.mode = mode, !.fireIn = fireIn,
                  !.retriesOf = parent]

\* append_job: one more line, in status queued.
AppendJob(file, j, mode, fireIn) ==
    [file EXCEPT ![j] = NewJob(mode, fireIn, None)]

\* The timestamps cas_status sets by itself.
Stamped(job, target) ==
    [job EXCEPT !.status = target,
                !.publishedAge = IF target = "published" THEN 0 ELSE @,
                !.pendingAge = IF target = "attest-pending" THEN 0 ELSE @]

\* Whether cas_status goes through, rather than raise StaleStateError (or
\* IllegalTransitionError).
CasWins(file, j, expected, target) ==
    /\ <<expected, target>> \in AllowedTransitions
    /\ file[j].status = expected

\* Faulty: the status is not compared before it is overwritten.
CasBlind(file, j, expected, target, updated) ==
    [file EXCEPT ![j] = Stamped(updated, target)]

\* cas_status, with the caller's updates already applied in updated.  Every
\* caller catches StaleStateError, so a lost race leaves the file as it was.
Cas(file, j, expected, target, updated) ==
    IF CasWins(file, j, expected, target)
    THEN [file EXCEPT ![j] = Stamped(updated, target)]
    ELSE file

\* update_job_fields with expected_status: fields change, the status does not.
UpdateFields(file, j, expected, updated) ==
    IF file[j].status = expected THEN [file EXCEPT ![j] = updated] ELSE file

\* Faulty: the replacement is appended without its link back.
RegenerateUnlinked(file, old, new) ==
    [file EXCEPT ![old] = [@ EXCEPT !.status = "regenerated", !.regeneratedTo = new],
                 ![new] = NewJob(file[old].mode, file[old].fireIn, None)]

\* regenerate_job: the old ticket is closed and its replacement appended in
\* one write; nothing happens when the old ticket has left preview-sent.
Regenerate(file, old, new) ==
    IF CasWins(file, old, "preview-sent", "regenerated")
    THEN [file EXCEPT ![old] = [@ EXCEPT !.status = "regenerated",
                                         !.regeneratedTo = new],
                      ![new] = NewJob(file[old].mode, file[old].fireIn, old)]
    ELSE file

-----------------------------------------------------------------------------
(***************************************************************************)
(* The passing of time, as the stored timestamps see it.                   *)
(***************************************************************************)

CountDown(t) == IF t = None \/ t = 0 THEN t ELSE t - 1
CountUp(t) == IF t = None THEN t ELSE IF t < AgeCap THEN t + 1 ELSE t

Aged(job) ==
    [job EXCEPT !.fireIn = CountDown(@), !.approvalIn = CountDown(@),
                !.cleanupIn = CountDown(@), !.publishedAge = CountUp(@),
                !.pendingAge = CountUp(@)]

AgedFile(file) == [j \in JobId |-> Aged(file[j])]
=============================================================================
