------------------------------ MODULE Symphony ------------------------------
(***************************************************************************)
(* Symphony, the poll loop of the workspace manager: it lists the tickets  *)
(* of Kaneo, runs an agent on the active ones, remembers in the run ledger *)
(* what it ran, and merges the pull request of a ticket that is ready once *)
(* the operator's veto window has passed (poll_loop.py, run_ledger.py,     *)
(* auto_merge.py, and dispatch.py as far as it decides how a run ends).    *)
(*                                                                         *)
(* All of it is one event loop.  The poll task makes a task per ticket and *)
(* hands it the ticket as listed; a semaphore lets some of them run.  A    *)
(* task works from that snapshot from beginning to end, while the operator *)
(* and the agents change the ticket in Kaneo.                              *)
(*                                                                         *)
(* A ticket's key in the ledger, <status>|<stage>, is its status here: a   *)
(* stage label is one more way of changing the key.                        *)
(***************************************************************************)
EXTENDS Integers, FiniteSets, Functions

CONSTANTS
    Ticket,         \* the tickets of the project
    None,           \* no entry
    MaxConcurrent,  \* SYMPHONY_MAX_CONCURRENT
    MaxAttempts,    \* SYMPHONY_MAX_ATTEMPTS
    Window,         \* SYMPHONY_VETO_WINDOW_HOURS
    Policy,         \* SYMPHONY_MERGE_POLICY
    Faults,         \* which faults of the environment may happen
    MaxTasks,       \* bound: tasks that may exist at a time
    MaxMoves,       \* bound: changes the operator and the agents make
    MaxCrashes      \* bound: restarts of the service

\* A call of Kaneo fails; dispatch_ticket raises; gh reports a failure after the
\* merge; the ledger cannot be written, or read, this once.
Fault == {"kaneo", "raise", "lost-ack", "disk"}
Slot == 1 .. MaxTasks

ASSUME SymphonyAssumption ==
    /\ IsFiniteSet(Ticket) /\ None \notin Ticket
    /\ MaxConcurrent \in Nat \ {0} /\ MaxAttempts \in Nat \ {0}
    /\ Window \in Nat
    /\ Policy \in {"auto-with-veto", "full-auto", "always-human-merge"}
    /\ Faults \subseteq Fault
    /\ MaxTasks \in Nat /\ MaxMoves \in Nat /\ MaxCrashes \in Nat

VARIABLES
    status,     \* of each ticket, in Kaneo
    rejected,   \* the tickets with the label "rejected"
    notices,    \* the scheduling comments of each ticket, as time left
    ready,      \* how long the ticket has been ready-to-merge, up to Window
    merged,     \* the tickets whose pull request is merged
    ledger,     \* the run ledger, as the service holds it
    ledgerFile, \* the run ledger on disk
    spent,      \* history: the runs that ended, of each ticket at its last key
    workspaces, \* the tickets whose workspace directory exists
    loop,       \* the poll task
    inFlight,   \* PollLoop._in_flight
    tasks,      \* the tasks made for tickets, by slot
    moves, crashes

kaneo == <<status, rejected, notices, ready>>
book == <<ledger, ledgerFile, spent>>
bounds == <<moves, crashes>>
vars == <<kaneo, merged, book, workspaces, loop, inFlight, tasks, bounds>>

-----------------------------------------------------------------------------
\* Statuses an agent runs for, one that the poll_filters of its workflow keep
\* out, one that is only a timer, one that is cleaned up, and one Symphony
\* leaves alone.
Runnable == {"to-do", "review"}
Active == Runnable \cup {"filtered", "ready-to-merge"}
Cleanup == {"done"}
Status == Active \cup Cleanup \cup {"blocked"}

\* A row of the run ledger.
Row == [key : Runnable, attempts : Nat, done : BOOLEAN]

ASSUME NoneAssumption == None \notin Row

Seen == [status : Status, rejected : BOOLEAN]
LoopIdle == [pc |-> "idle", seen |-> None, todo |-> {}]
NoTask == [pc |-> "none", ticket |-> None, seen |-> None]

Task(s, pc) == tasks[s].pc = pc
Goes(s, pc) == tasks' = [tasks EXCEPT ![s].pc = pc]

\* Faulty: the ticket stays in the in-flight map.
EndsInFlight(s) ==
    /\ tasks' = [tasks EXCEPT ![s] = NoTask]
    /\ UNCHANGED inFlight

\* The task is over, by return or by exception: the finally clause.
Ends(s) ==
    /\ tasks' = [tasks EXCEPT ![s] = NoTask]
    /\ inFlight' = inFlight \ {tasks[s].ticket}

\* The status of a ticket changes in Kaneo.
MovesTo(t, new) ==
    /\ status' = [status EXCEPT ![t] = new]
    /\ ready' = [ready EXCEPT ![t] =
                     IF new # "ready-to-merge" THEN None
                     ELSE IF status[t] = new THEN @ ELSE 0]

-----------------------------------------------------------------------------
(***************************************************************************)
(* The poll task (PollLoop._run).                                          *)
(***************************************************************************)

\* The tickets are listed.
LoopList ==
    /\ loop.pc = "idle"
    /\ loop' = [pc |-> "clean",
                seen |-> [t \in Ticket |-> [status |-> status[t],
                                            rejected |-> t \in rejected]],
                todo |-> {t \in Ticket : status[t] \in Cleanup}]
    /\ UNCHANGED <<kaneo, merged, book, workspaces, inFlight, tasks, bounds>>

\* RunLedger._save: all rows are written, or none, and nobody is told.  A write
\* that fails with no restart to come could not be told from one that does not.
Saves(saved) ==
    /\ saved \/ ("disk" \in Faults /\ crashes < MaxCrashes)
    /\ ledgerFile' = IF saved THEN ledger' ELSE ledgerFile

\* RunLedger.forget: with no row there is nothing to write.
Forget(t, saved) ==
    /\ ledger' = [ledger EXCEPT ![t] = None]
    /\ IF ledger[t] # None THEN Saves(saved) ELSE UNCHANGED ledgerFile
    /\ spent' = [spent EXCEPT ![t] = None]

\* Faulty: a workspace is removed whether or not a run is in flight.
CleanableAlways(t) == TRUE
Cleanable(t) == t \notin inFlight

\* _cleanup_finished, one ticket: the row of the ledger goes, and the
\* workspace with it, unless rmtree fails, which it keeps to itself.
LoopClean(t, removed, saved) ==
    /\ loop.pc = "clean" /\ t \in loop.todo
    /\ loop' = [loop EXCEPT !.todo = @ \ {t}]
    /\ IF Cleanable(t)
       THEN /\ Forget(t, saved)
            /\ workspaces' = IF removed THEN workspaces \ {t} ELSE workspaces
       ELSE UNCHANGED <<book, workspaces>>
    /\ UNCHANGED <<kaneo, merged, inFlight, tasks, bounds>>

\* RunLedger.should_run.
ShouldRun(t, key) ==
    \/ ledger[t] = None
    \/ ledger[t].key # key
    \/ ~ledger[t].done

\* Faulty: the in-flight map is not asked.
DispatchableAgain(t, seen) ==
    seen.status = "ready-to-merge" \/ ShouldRun(t, seen.status)

Dispatchable(t, seen) ==
    /\ t \notin inFlight
    /\ seen.status = "ready-to-merge" \/ ShouldRun(t, seen.status)

\* All are cleaned: each active ticket gets a task, or does not need one.  The
\* loop does not await here, and then it sleeps.
LoopDispatch ==
    LET new == {t \in Ticket : /\ loop.seen[t].status \in Active
                               /\ Dispatchable(t, loop.seen[t])}
        free == {s \in Slot : tasks[s] = NoTask}
        place == CHOOSE f \in Injection(new, free) : TRUE
    IN  /\ loop.pc = "clean" /\ loop.todo = {}
        /\ Cardinality(new) <= Cardinality(free)
        /\ tasks' = [s \in Slot |->
                        IF \E t \in new : place[t] = s
                        THEN LET t == CHOOSE t \in new : place[t] = s
                             IN  [pc |-> "waiting", ticket |-> t, seen |-> loop.seen[t]]
                        ELSE tasks[s]]
        /\ inFlight' = inFlight \cup new
        /\ loop' = LoopIdle
    /\ UNCHANGED <<kaneo, merged, book, workspaces, bounds>>

-----------------------------------------------------------------------------
(***************************************************************************)
(* The task of a ticket: the semaphore, and the run of an agent.           *)
(***************************************************************************)

Running == {s \in Slot : tasks[s].pc \notin {"none", "waiting"}}

\* The semaphore is acquired, and the work begins on the ticket as listed.  A
\* run fails before it has a workspace when its workflow cannot be loaded or a
\* label names no engine.
Acquire(s, begins) ==
    /\ Task(s, "waiting") /\ Cardinality(Running) < MaxConcurrent
    /\ tasks[s].seen.status # "filtered"
    /\ IF tasks[s].seen.status = "ready-to-merge"
       THEN Goes(s, "comments") /\ UNCHANGED workspaces
       ELSE IF begins
       THEN Goes(s, "agent") /\ workspaces' = workspaces \cup {tasks[s].ticket}
       ELSE Goes(s, "failing") /\ UNCHANGED workspaces
    /\ UNCHANGED <<kaneo, merged, book, loop, inFlight, bounds>>

\* The filters of the workflow do not take the ticket: nothing is recorded.
Skip(s) ==
    /\ Task(s, "waiting") /\ Cardinality(Running) < MaxConcurrent
    /\ tasks[s].seen.status = "filtered"
    /\ Ends(s)
    /\ UNCHANGED <<kaneo, merged, book, workspaces, loop, bounds>>

\* Faulty: the attempts are compared off by one.
RecordedLate(t, key, ok) ==
    LET attempts == IF ledger[t] # None /\ ledger[t].key = key
                    THEN ledger[t].attempts + 1 ELSE 1
    IN  [key |-> key, attempts |-> attempts, done |-> ok \/ attempts > MaxAttempts]

\* RunLedger.record: the entry after one more run.
Recorded(t, key, ok) ==
    LET attempts == IF ledger[t] # None /\ ledger[t].key = key
                    THEN ledger[t].attempts + 1 ELSE 1
    IN  [key |-> key, attempts |-> attempts, done |-> ok \/ attempts >= MaxAttempts]

\* One more run has ended.
SpentMore(t, key) ==
    IF spent[t] # None /\ spent[t].key = key THEN [spent[t] EXCEPT !.runs = @ + 1]
    ELSE [key |-> key, runs |-> 1, lapses |-> 0]

\* dispatch_ticket returns.  A run fails by exit code, by exception or timeout
\* of the agent, or before it began.
AgentEnds(s, ok, saved) ==
    LET t == tasks[s].ticket
        entry == Recorded(t, tasks[s].seen.status, ok)
    IN  /\ Task(s, "agent") \/ (Task(s, "failing") /\ ~ok)
        /\ ledger' = [ledger EXCEPT ![t] = entry] /\ Saves(saved)
        /\ spent' = [spent EXCEPT ![t] = SpentMore(t, entry.key)]
        /\ IF ~ok /\ entry.done THEN Goes(s, "give-up") /\ UNCHANGED inFlight
           ELSE Ends(s)
        /\ UNCHANGED <<kaneo, merged, workspaces, loop, bounds>>

\* dispatch_ticket raises: nothing is recorded.
DispatchRaises(s) ==
    /\ tasks[s].pc \in {"agent", "failing"} /\ "raise" \in Faults
    /\ Ends(s)
    /\ UNCHANGED <<kaneo, merged, book, workspaces, loop, bounds>>

\* The operator is told, or the comment fails: both end the task.
GiveUp(s) ==
    /\ Task(s, "give-up")
    /\ Ends(s)
    /\ UNCHANGED <<kaneo, merged, book, workspaces, loop, bounds>>

-----------------------------------------------------------------------------
(***************************************************************************)
(* The task of a ticket that is ready to merge (schedule_or_tick).         *)
(***************************************************************************)

\* Faulty: the oldest deadline wins.
DeadlineOldest(t) ==
    IF notices[t] = {} THEN None
    ELSE CHOOSE d \in notices[t] : \A e \in notices[t] : d <= e

\* The newest deadline among the comments, as time left.
Deadline(t) ==
    IF notices[t] = {} THEN None
    ELSE CHOOSE d \in notices[t] : \A e \in notices[t] : d >= e

\* Faulty: the deadline is looked at before the veto.
DecisionHasty(seen, deadline) ==
    CASE Policy = "always-human-merge" -> "over"
      [] Policy # "always-human-merge" /\ seen.rejected ->
            IF deadline = 0 THEN "merge" ELSE "cancel"
      [] Policy # "always-human-merge" /\ ~seen.rejected ->
            IF deadline = None
            THEN IF Policy = "full-auto" THEN "merge" ELSE "notice"
            ELSE IF deadline > 0 THEN "over" ELSE "merge"

\* What is to be done, given the labels as listed and the deadline as read.
Decision(seen, deadline) ==
    CASE Policy = "always-human-merge" -> "over"
      [] Policy # "always-human-merge" /\ seen.rejected -> "cancel"
      [] Policy # "always-human-merge" /\ ~seen.rejected ->
            IF deadline = None
            THEN IF Policy = "full-auto" THEN "merge" ELSE "notice"
            ELSE IF deadline > 0 THEN "over" ELSE "merge"

\* The comments are read, or cannot be: then there is no deadline.
ReadComments(s, read) ==
    LET next == Decision(tasks[s].seen,
                         IF read THEN Deadline(tasks[s].ticket) ELSE None)
    IN  /\ Task(s, "comments")
        /\ read \/ "kaneo" \in Faults
        /\ IF next = "over" THEN Ends(s) ELSE Goes(s, next) /\ UNCHANGED inFlight
        /\ UNCHANGED <<kaneo, merged, book, workspaces, loop, bounds>>

\* A call of Kaneo raises: the task ends where it is.
KaneoRaises(s) ==
    /\ tasks[s].pc \in {"cancel", "notice", "close"}
    /\ "kaneo" \in Faults
    /\ Ends(s)
    /\ UNCHANGED <<kaneo, merged, book, workspaces, loop, bounds>>

\* Faulty: a status Kaneo does not have.
CancelMisspelt(s) ==
    /\ Task(s, "cancel")
    /\ MovesTo(tasks[s].ticket, "in-review")
    /\ Ends(s)
    /\ UNCHANGED <<rejected, notices, merged, book, workspaces, loop, bounds>>

\* The veto is carried out: the ticket goes back to review.
CancelMerge(s) ==
    /\ Task(s, "cancel")
    /\ MovesTo(tasks[s].ticket, "review")
    /\ Ends(s)
    /\ UNCHANGED <<rejected, notices, merged, book, workspaces, loop, bounds>>

\* The window opens: its end is written into a comment.
PostNotice(s) ==
    /\ Task(s, "notice")
    /\ notices' = [notices EXCEPT ![tasks[s].ticket] = @ \cup {Window}]
    /\ Ends(s)
    /\ UNCHANGED <<status, rejected, ready, merged, book, workspaces, loop, bounds>>

\* gh pr merge.  It may fail after the merge, on deleting the branch; it fails
\* as well when no link is found in the ticket.
GhMerge(s, ok, landed) ==
    /\ Task(s, "merge")
    /\ ok => landed
    /\ landed /\ ~ok => "lost-ack" \in Faults
    /\ merged' = IF landed THEN merged \cup {tasks[s].ticket} ELSE merged
    /\ IF ok THEN Goes(s, "close") /\ UNCHANGED inFlight ELSE Ends(s)
    /\ UNCHANGED <<kaneo, book, workspaces, loop, bounds>>

CloseTicket(s) ==
    /\ Task(s, "close")
    /\ MovesTo(tasks[s].ticket, "done")
    /\ Ends(s)
    /\ UNCHANGED <<rejected, notices, merged, book, workspaces, loop, bounds>>

-----------------------------------------------------------------------------
(***************************************************************************)
(* Outside: the operator and the agents change tickets, the service        *)
(* restarts, time passes.                                                  *)
(***************************************************************************)

Outside == UNCHANGED <<merged, book, workspaces, loop, inFlight, tasks, crashes>>

Move(t, new) ==
    /\ moves < MaxMoves /\ moves' = moves + 1
    /\ new # status[t]
    /\ MovesTo(t, new)
    /\ Outside /\ UNCHANGED <<rejected, notices>>

\* The bot sets the label for a /reject.
Veto(t) ==
    /\ moves < MaxMoves /\ moves' = moves + 1
    /\ t \notin rejected
    /\ rejected' = rejected \cup {t}
    /\ Outside /\ UNCHANGED <<status, notices, ready>>

\* The operator takes the label off; MaxMoves bounds how often it is set.
Unveto(t) ==
    /\ t \in rejected
    /\ rejected' = rejected \ {t}
    /\ Outside /\ UNCHANGED <<status, notices, ready, moves>>

\* The service dies and is started again, the agents with it: only the ledger
\* on disk is left.  It may be behind, and if it cannot be read it counts as
\* empty; a ticket whose row is not what it was has had a lapse.
Restart(read) ==
    /\ crashes < MaxCrashes /\ crashes' = crashes + 1
    /\ read \/ "disk" \in Faults
    /\ ledger' = IF read THEN ledgerFile ELSE [t \in Ticket |-> None]
    /\ spent' = [t \in Ticket |-> IF spent[t] = None \/ ledger'[t] = ledger[t] THEN spent[t]
                                  ELSE [spent[t] EXCEPT !.lapses = @ + 1]]
    /\ loop' = LoopIdle /\ inFlight' = {} /\ tasks' = [s \in Slot |-> NoTask]
    /\ UNCHANGED <<kaneo, merged, ledgerFile, workspaces, moves>>

Tick ==
    /\ notices' = [t \in Ticket |-> {IF d = 0 THEN 0 ELSE d - 1 : d \in notices[t]}]
    /\ ready' = [t \in Ticket |-> IF ready[t] = None \/ ready[t] = Window
                                  THEN ready[t] ELSE ready[t] + 1]
    /\ UNCHANGED <<status, rejected, merged, book, workspaces, loop,
                   inFlight, tasks, bounds>>

Init ==
    /\ status \in [Ticket -> {"to-do", "ready-to-merge"}]
    /\ rejected = {} /\ merged = {}
    /\ notices = [t \in Ticket |-> {}]
    /\ ready = [t \in Ticket |-> IF status[t] = "ready-to-merge" THEN 0 ELSE None]
    /\ ledger = [t \in Ticket |-> None] /\ ledgerFile = ledger /\ spent = ledger
    /\ workspaces = {}
    /\ loop = LoopIdle /\ inFlight = {} /\ tasks = [s \in Slot |-> NoTask]
    /\ moves = 0 /\ crashes = 0

LoopStep ==
    \/ LoopList \/ LoopDispatch
    \/ \E t \in Ticket, removed, saved \in BOOLEAN : LoopClean(t, removed, saved)

Admission(s) ==
    \/ \E begins \in BOOLEAN : Acquire(s, begins)
    \/ Skip(s)

TaskStep(s) ==
    \/ \E ok, saved \in BOOLEAN : AgentEnds(s, ok, saved)
    \/ DispatchRaises(s) \/ GiveUp(s)
    \/ \E read \in BOOLEAN : ReadComments(s, read)
    \/ KaneoRaises(s) \/ CancelMerge(s) \/ PostNotice(s)
    \/ \E ok, landed \in BOOLEAN : GhMerge(s, ok, landed)
    \/ CloseTicket(s)

Environment ==
    \/ \E t \in Ticket : \/ \E new \in Status : Move(t, new)
                         \/ Veto(t) \/ Unveto(t)
    \/ \E read \in BOOLEAN : Restart(read)
    \/ Tick

Next ==
    \/ LoopStep
    \/ \E s \in Slot : Admission(s) \/ TaskStep(s)
    \/ Environment

Spec == Init /\ [][Next]_vars

\* The loop and the tasks run, agents end within their timeout of 30 minutes,
\* and the semaphore wakes its waiters in the order they came.
Fairness ==
    /\ WF_vars(LoopStep) /\ WF_vars(Tick)
    /\ \A s \in Slot : SF_vars(Admission(s)) /\ WF_vars(TaskStep(s))

FairSpec == Spec /\ Fairness

-----------------------------------------------------------------------------
(***************************************************************************)
(* Properties.                                                             *)
(***************************************************************************)

\* Every variable holds what the code can put there.
TypeOK ==
    /\ status \in [Ticket -> Status]
    /\ rejected \subseteq Ticket /\ merged \subseteq Ticket
    /\ notices \in [Ticket -> SUBSET (0 .. Window)]
    /\ ready \in [Ticket -> 0 .. Window \cup {None}]
    /\ {ledger, ledgerFile} \subseteq [Ticket -> Row \cup {None}]
    /\ spent \in [Ticket -> [key : Runnable, runs : Nat, lapses : Nat] \cup {None}]
    /\ workspaces \subseteq Ticket /\ inFlight \subseteq Ticket
    /\ loop \in [pc : {"idle", "clean"}, seen : [Ticket -> Seen] \cup {None},
                 todo : SUBSET Ticket]
    /\ tasks \in [Slot -> [pc : {"none", "waiting", "agent", "failing", "give-up", "comments",
                                 "cancel", "notice", "merge", "close"},
                           ticket : Ticket \cup {None}, seen : Seen \cup {None}]]
    /\ moves \in 0 .. MaxMoves /\ crashes \in 0 .. MaxCrashes

\* No two tasks work on one ticket, however stale the list they come from.
OneTaskPerTicket ==
    \A r, s \in Slot :
        tasks[r] # NoTask /\ tasks[r].ticket = tasks[s].ticket => r = s

\* No more runs of a ticket at one key come to an end than it has attempts,
\* whatever changes, stale lists and restarts lie between them; a restart that
\* finds the ticket's row lost or behind gives it as many again.  A run that is
\* cut by a restart or ends in an exception is counted by nobody.
AttemptsBounded ==
    \A t \in Ticket : spent[t] # None =>
        spent[t].runs <= MaxAttempts * (1 + spent[t].lapses)

\* A pull request is merged only once every window announced for its ticket
\* has passed, and not before one was announced.
MergedAfterWindow ==
    [][\A t \in merged' \ merged :
          Policy = "auto-with-veto" => notices[t] # {} /\ \A d \in notices[t] : d = 0]_vars

\* No agent starts on a ticket whose run at that status is settled, by the
\* ledger the service holds: what the loop decided when it made the task still
\* holds when the semaphore lets the task go, however long it waited.
SettledNotRerun ==
    [][\A s \in Slot :
          Task(s, "waiting") /\ tasks'[s].pc = "agent" =>
              ShouldRun(tasks[s].ticket, tasks[s].seen.status)]_vars

\* A workspace is never removed under a running agent.
WorkspaceKept ==
    \A s \in Slot : tasks[s].pc = "agent" => tasks[s].ticket \in workspaces

\* The runs of a ticket's agent, from the moment its workspace is prepared.
RunsOf(t) == {s \in Slot : Task(s, "agent") /\ tasks[s].ticket = t}

Runs == INSTANCE RunPromise WITH Run <- Slot, runs <- [t \in Ticket |-> RunsOf(t)]

\* Each step of the service is one of RunPromise: however stale the list that a task
\* was made from, no agent begins beside another of its ticket, and no workspace is
\* removed under one.
KeepsRunPromise == Runs!Spec

\* What the service has found in its looks at a ticket and still works from: in
\* the list, and in the ticket's tasks.
Looks(t) ==
    {tasks[s].seen : s \in {s \in Slot : tasks[s].ticket = t}}
        \cup (IF loop.pc = "clean" THEN {loop.seen[t]} ELSE {})

FoundReady(t, vetoed) == [status |-> "ready-to-merge", rejected |-> vetoed] \in Looks(t)

Merges == INSTANCE MergePromise WITH
    ready <- {t \in Ticket : status[t] = "ready-to-merge"},
    windows <- notices,
    free <- {t \in Ticket : FoundReady(t, FALSE)},
    barred <- {t \in Ticket : FoundReady(t, TRUE)},
    going <- {tasks[s].ticket : s \in {s \in Slot : tasks[s].pc \in {"merge", "close"}}}

\* Each step of the service is a step of MergePromise, or none of its business:
\* a merge follows a look that found the ticket ready and not rejected, and the
\* end of every window that was announced, and no task of the ticket opens another
\* window meanwhile.
KeepsMergePromise == Merges!Spec

\* A ticket that waits for an agent is run until its run is settled, or it is
\* moved on.
EveryTicketServed ==
    \A t \in Ticket, key \in Runnable :
        status[t] = key ~>
            (status[t] # key \/ (ledger[t] # None /\ ledger[t].key = key /\ ledger[t].done))

-----------------------------------------------------------------------------
(***************************************************************************)
(* A statement of the repository that the code does not keep.              *)
(***************************************************************************)

\* auto_merge.py: a ticket that reaches ready-to-merge is merged a veto window
\* later.
WindowEachRound ==
    [][\A t \in merged' \ merged : ready[t] # None => ready[t] >= Window]_vars
=============================================================================
