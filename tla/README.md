# Verification of coding-fabric

TLA+ models of the stateful services of coding-fabric, TLC runs that check them on
small instances, and TLAPS proofs of what matters most for all instances. The
models are written from the code under `fabric/`; the documents under `docs/` and
`work/` only supply statements to hold the code against.

* [Inventory](#inventory) -- the system's parts, their state, how they interact
* [Plan](#plan) -- the modules, in order, and what is left
* [Modules](#modules) -- which module models what, and how
* [Runs](#runs) -- what each run asks, its bounds, fairness, results
* [Proofs](#proofs) -- what is proved, from what, along which argument
* [Not modelled](#not-modelled)

## Inventory

The repository is a self-hosted "coding fabric": services on one or two hosts
through which an operator, from Telegram topics, has agents write code and posts.

| Part | State it keeps | Operations | Talks to |
|---|---|---|---|
| **content-publisher** (`fabric/content-publisher`) | `queue.jsonl` (a line per ticket), `queue.archive.jsonl`, one worktree per ticket | three asyncio loops: queue-poll, deadline-checker, cleanup-gc; recovery at start | the bot (shares the file, under a flock), claude and the scorer (subprocesses), the blogger (channel), the MCP signer |
| **worktree API** (`fabric/workspace-manager/main.py`, `state.py`, `worktree.py`, `vault.py`) | `state.json`, worktree directories, `.env` files | POST, DELETE, GET; capacity limit; rollback when the vault or git fails | git, Vaultwarden |
| **Symphony** (`poll_loop.py`, `dispatch.py`, `run_ledger.py`, `agent_runner.py`, `kaneo_client.py`) | the Kaneo ticket and its comments, running tasks in memory, a ledger file | poll, claim, run an agent, comment, move the ticket, stop | Kaneo (REST), claude/codex, git |
| **auto-merge** (`auto_merge.py`) | none of its own: the deadline is in a ticket comment, the veto in a label | schedule, wait, cancel, merge | Kaneo, `gh pr merge`, the operator's veto |
| **routing** (`routing.py`) | a JSON file of overrides, cached by its mtime | set, clear, get | the API, an editor |
| **watchdog** (`fabric/watchdog`) | `alerts.json` | nine checks, deduplication and cool-down, Telegram alert, "turn into task" | Telegram, Kaneo |
| **log sanitizer** (`fabric/logs/sanitizer`) | none | rewrites log records | -- |
| **safe mode** (`fabric/safe-mode`) | the last-known-good tag | smoke gate, promotion | git, docker |
| **staging** (`infrastructure/staging`) | a manifest, backups | preflight, bootstrap, backup, upgrade | docker, systemd |
| **warrant canary** (`infrastructure/ansible/roles/warrant-canary/files`) | small state files | gates and a stop rule | a Solana RPC |
| playbooks, workflows, scripts, harnesses | -- | provisioning, CI, byte-equivalence fixtures, vendored packages | -- |

What is hard, and where:

* **content-publisher.** Four actors write one file: three tasks of one event loop
  (interleaved only where they await) and the bot, in another process. Each works from
  a snapshot it read earlier. A click races the deadline; a retry closes one ticket and
  opens another; the channel call has no idempotency key, so a crash or a lost
  acknowledgement around it decides what is known of the post; cleanup touches three
  places on disk. Correct means: nothing rejected, unseen or undecided reaches the
  channel; what the file says of a text is true of the channel; no ticket is lost and
  none is stuck; two actors that both want a ticket cannot both have it.
* **worktree API.** A request is a chain of steps on three stores (state file,
  directory, vault) with rollback, run in threads; POST and DELETE of one id overlap.
  Correct means: never more entries than the capacity; an entry goes only with its own
  task; no two requests work on one target; and no secret stays on disk without an entry
  by which a DELETE would find it, whichever step fails.
* **Symphony.** A tick reads tickets, then acts on what it read after several awaits;
  restarts lose what is in memory. Correct means: one agent per ticket at a time, a
  ticket is not abandoned in progress, a failed run is reported. A workspace outlives the
  run, and so does whatever the agent, a failed git command or a restart left in it; the
  project and the routing table are edited meanwhile. Correct means: the next agent starts
  in a fresh checkout of the repository its project names, with the engine that the labels
  and the table say at that moment.
* **auto-merge.** It acts on a snapshot of labels and on a deadline that outlives the
  round of review it was written for. Correct means: no merge after a veto or before the
  window of this round has passed.
* **watchdog.** A run checks, looks up, records and sends in separate steps; the timer's
  run, a run by hand and the bot's command share one file; messages and checks are lost
  without a trace. Correct means: an outage that lasts is reported, again each day, not
  more often, and becomes one card.

`PROJECT.json` lists the hazards one by one, at their lines, with the properties that
cover them.

## Plan

1. `PublishQueue`, `ContentPublisher`, `PublishPromise` and their proofs: the one
   service that acts in public and cannot take an action back. **Done.**
2. `Symphony`: poll loop, run ledger and auto-merge, the other irreversible action, on
   the tickets they share, and their proofs. **Done.**
3. `WorktreeApi` and its proofs: concurrent POST and DELETE with rollback, the state
   file, restarts. **Done.**
4. `WatchdogChecks`, `Watchdog`: the nine checks, the scheduler, the alert state and the
   task command, and their proofs. **Done.**
5. `Dispatch`: what an agent is given, inside the run that `Symphony` has, with
   `routing.py`, and its proofs. **Done.**
6. `LastKnownGood`, `StagingUpgrade`, the gates of the warrant canary: sequential parts,
   against reference definitions.

Every safety property of a passing run is proved. Four abstract specifications say what
the others rely on, and each is refined by its service: `PublishPromise`, `MergePromise`,
`RunPromise` and `Registry`. One worth stating next: what the watchdog promises the
operator, an alert told, kept quiet for a day and turned into one card.

## Modules

### PublishQueue -- the ticket file (`queue.py`, `models.py`, `state.py`)

`jobs` maps each id to its line; `NoJob` is "no line". All operations of `queue.py`
hold the flock while they read, rewrite and rename, so each is a function from file to
file: `AppendJob`, `Cas` (`cas_status`), `UpdateFields` (`update_job_fields`),
`Regenerate`. A lost compare-and-set raises in the code; every caller catches it, so
here it returns the file unchanged, and `CasWins` tells whether it went through.
Timestamps are kept as distances from now: a deadline counts down to 0 (`<= now`), an
age counts up to `AgeCap`. Every comparison in the code is between a stored time and
`now`, so nothing is lost, and no clock has to be bounded.
Texts, prompts, ids and Telegram coordinates are abstracted; malformed lines are kept
verbatim by the code and are not modelled; `find_by_prefix` only reads.

### ContentPublisher -- the service and the actors around it

| Variable | Stands for |
|---|---|
| `jobs`, `archive`, `worktrees` | `queue.jsonl`, `queue.archive.jsonl`, the directories |
| `lastId` | how many tickets were ever submitted |
| `up`, `crashes` | the process |
| `poll` | queue-poll: the point it stands at, its job, what is left of its snapshot |
| `checker`, `attest` | deadline-checker, and the calls of `attest_once` in flight |
| `gc` | cleanup-gc: what it read under the flock and what it still has to do |
| `shown` | the previews the bot has put in the topic |
| `posts`, `postedAge` | the channel: how often each text appeared (up to 2), and when last |

Each read or rewrite of the file is one action, and so is each thing done outside:
`PollTick, PollClaim, PollMkdir, SpawnSucceeds/Fails, ScoreSucceeds/Fails, AutoPublish`
(worker.py); `PublishRefuse, PublishMark, CampaignReturns/Raises, PublishRecord,
PublishRecordFailure` (publish.py); `CheckerTick, CheckerExpire, CheckerAttest,
AttestSucceeds/Fails` (deadline.py, attest.py); `GcTick, GcArchive, GcRmtree, GcRewrite`
(cleanup.py); `Crash, Restart` (lifespan, recovery.py); `Submit, SendPreview,
RecordPreview, Approve, Reject, Retry, Notify` (the bot, whose code is not in this
repository: modelled from the functions of `queue.py` written for it).

*Interleaving.* `LoopFree` holds when every task of the process is at an await (or
between ticks); a task that resumes keeps the loop until its next await, so actions
inside one synchronous section need no `LoopFree` and others do. The bot and the crash
interleave everywhere; writers from outside the process respect cleanup-gc's flock
(`LockFree`).

*Faults.* `Faults` selects among: mkdir fails; rmtree fails; the campaign call (or
reading the article after it) raises; the text appears although the call reports
failure. claude, the scorer and the signer may always fail. A crash may hit between any
two actions, `MaxCrashes` times.

*Abstractions to know of.* (1) The reads `publish_step` makes before it writes the
marker are one action with that write: between them nothing is awaited, and no other
actor writes a job in `publishing`. (2) `FirstAttest` says whether something calls
`attest_once` on published jobs. In the source nothing does (see the findings), so
`FALSE` is the code as it is; the safety runs take `TRUE`, which adds behaviours and
lets the checks reach everything behind it; nothing is assumed fair about it.
(3) An exception inside the cleanup tick leaves the same state as a crash at that
point followed by a restart without recovery work, and is not a further action.
(4) Checks on ids and paths always pass for ids the queue made itself.

### PublishPromise -- what the operator may rely on

Each brief goes from drafting to review to approved to live, or is closed; a text
appears only while its brief is approved; a brief is live only if its text appeared;
only closed briefs leave the books. `ContentPublisher` implements it under the mapping
`StageOf` (the stage of each status) and `posted <- {j : posts[j] > 0}`; the statement
is `KeepsPromise`.

### Symphony -- poll loop, run ledger, auto-merge

The service is one event loop. `loop` is the poll task: `LoopList` takes a snapshot of
all tickets, `LoopClean` removes the workspaces and ledger rows of finished ones, and
`LoopDispatch` makes a task for each active ticket that is not in flight and whose run
is not settled. `tasks` are these tasks, each with the ticket *as listed*; `inFlight` is
the map the loop consults. A task waits for the semaphore (`Acquire`, or `Skip` when the
workflow's filters refuse the ticket), then either runs an agent (`AgentEnds`,
`DispatchRaises`, `GiveUp`; dispatch.py up to how the run ends) or goes through
`schedule_or_tick` (`ReadComments, CancelMerge, PostNotice, GhMerge, CloseTicket`), one
action for each call to Kaneo or gh. `ledger` is the run ledger as the service holds it,
`ledgerFile` the one on disk: each change is saved in the same synchronous step (`Saves`),
but a write that fails is only logged, and then the file stays behind. The file is all that
survives `Restart`, and if it cannot be read the ledger starts empty (`stop()` cancels the
poll task and the end of the event loop the others, so a graceful stop is one too).
`spent` is history: the runs of a ticket that have ended at its last key, and how many
restarts found its row lost or behind (`lapses`).
`status`, `rejected` and `notices` (the deadlines in comments, as time left) are the
ticket in Kaneo, which the operator and the agents change at any time (`Move, Veto,
Unveto`). `ready` is history: how long the ticket has been ready.

*Abstractions to know of.* (1) The ledger's key, `<status>|<stage>`, is the status: a
stage label is one more way to change the key. (2) One project: its list is one call.
A failing list skips the tick, which is a stutter. (3) `"review"` stands for all the
statuses an agent runs at after the first, `"blocked"` for all that nothing looks at,
`"filtered"` for an active status that the workflow's filters refuse. (4) The deadline
label `_parse_auto_merge_deadline` looks for is set by no code here, and is left out.
`policy.yml` is not read by this code either; the policy comes from the environment.
(5) An agent ends within its timeout; what it does is `Move`.

### MergePromise, RunPromise -- what the operator and the agents may rely on

`MergePromise`: a merge is decided on only after a look that found the ticket ready and
not rejected, and after every window announced for it has run out; no window is announced
while a merge is under way; a ticket is closed only when merged, and sent back only after
a look that found it rejected. How old a look may be it does not say (finding 8), nor
does it ask for a window of this round (finding 2): it is what the code keeps. `Symphony`
implements it (`KeepsMergePromise`) under a mapping that reads `free`, `barred` and
`going` from the list of the loop and from what each task has `seen` (`Looks`,
`FoundReady`).

`RunPromise`: a ticket has one run at a time, with a workspace from the run's first
moment to its last; a workspace is removed only between runs. `Symphony` implements it
(`KeepsRunPromise`) with `RunsOf(t)`, the slots in which an agent of the ticket is at
work, for `runs`.

### Dispatch -- what lies between `Acquire` and `AgentEnds`

| Variable | Stands for |
|---|---|
| `project` | `repo:` and `pat:` in the description of the ticket's project |
| `ws` | the workspace: what git repository it is (`"init"` has no remote, `"broken"` cannot be brought up to date), of which repository, on its default branch or another, with changes, with files or repositories git does not know |
| `run` | where the ticket's run stands, its engine and model, and the project as it was read |
| `file`, `cache` | the routing file with its mtime, and `RoutingTable._mtime, _stages`; for one stage |
| `api` | how far a call of the routing API is: it replaces the file, then looks up its mtime |
| `blind` | history: the cache has the mtime of a file whose content it has not, after an edit by hand in the middle of a save, a failed save or a failed read |

`Begin` is `dispatch_ticket` up to its first await: the workflow's engine, overridden by
the table (`Reloaded`, `Overridden`), overridden by the labels. `ReadProject` decides
between the three ends: no repository, a repository with a token of the registry, or a
refusal. `_prepare_workspace` is an action for each git command (`GitInit, CompareRemote,
NoRemote, GitClone, GitFetch, GitCheckout, GitReset, GitClean`); each may fail
(`GitFails`), must fail where git refuses (`GitRefuses`), and may be killed with the
service (`Restart`, `Killed`); `RmtreeFails` is the removal of another repository's clone
that stops halfway. `AgentStarts` is the check of `run_agent` that the engine is
installed, `AgentEnds` whatever an agent leaves, also when it is killed at its timeout.
`Dispatch` takes `RunPromise` for granted, which `Symphony` keeps: its one `run`, and
that `Cleanup` comes only when there is none, are the one run of a ticket and the
workspace that stays until it ends. `MCDispatch` only instantiates for TLC.

*Abstractions to know of.* (1) A workflow that cannot be loaded and one whose filters
refuse the ticket end the dispatch before anything of this is touched: a stutter.
(2) What git does is external, and was observed with git itself: `clone` refuses a
directory that is not empty, a plain `checkout` changes it would overwrite, `clean -fdx`
leaves a repository inside the workspace, `config --get` fails without a remote. (3) An
agent leaves git's own directory usable and its remote alone. (4) Two writes of the
routing file never have the same mtime (nanoseconds). (5) Prompts, comments and the
Telegram mirror are left out; so are processes a killed agent leaves behind. (6) The
table's stages are independent of each other but for the file they share, so one stage
is enough; an entry for another stage is a rewrite with the same entry.

### WorktreeApi -- the worktree API of the workspace manager

| Variable | Stands for |
|---|---|
| `file` | the keys of `state.json`; `Nil` before it is first written |
| `lock` | the flock on `state.json.lock`, and who holds it |
| `disk` | for each task, what there is of its target: the directory, git's files, `.env`, the draft of a `.env` (named by the request that writes it, `"tmp"` once nobody does) |
| `listed` | what `git worktree list` would show |
| `requests` | each request: operation, task, the point it stands at, what it read under the flock |

A request goes through the steps of `post_worktree` or `delete_worktree`; every step that
the code runs in a worker thread is an action, or two where something shared is between
read and write: `CreateFile` (`StateStore.__init__`, which takes no lock), `AddRead,
AddWrite, RemoveRead, RemoveWrite`, and `StateRefused` for all of them when the lock or
the new file cannot be written (state.py), `EnvBegun, EnvWritten, EnvRefused,
VaultUnreachable, Unlink` (vault.py), `WorktreeAdded, WorktreeRefused, GitMissing,
Destroy` (worktree.py), `UndoEnv, UndoDir` (the rollback in main.py, which runs on the
event loop itself: `LoopFree`). Each read of `state.json` gives the file, or, with the
fault `"read"`, the empty table that `_read_raw` makes of a file it cannot read or parse
(`Readings`): then a lookup and a remove find nothing, and an add writes the file with its
own entry alone; what it could not see is `Lost`. `Crash` ends all requests and releases the flock, and
nothing is recovered at the start, as in the code; it may happen any number of times. `git worktree add` refuses a target
that is there and not empty (`Addable`), as git does.

*History.* `raced` marks the requests whose entry or target may be another's: a DELETE
met a POST of the same task, or the entry was lost, to `CreateFile` or to an add that
could not read the file. A DELETE is allowed at any time, also in the middle of a POST, so
what follows is the operator's doing; the properties are stated up to these three
(`Overtaken`). `left` marks a request that gave its entry up although removing failed.

*Abstractions to know of.* (1) A task stands for its one target. (2) The values in
`state.json` and the contents of `.env` are left out. (3) The list of worktrees, the
health answer and the validation of a request change nothing and are left out. (4) The
sync of the directory after the rename is part of `EnvWritten`; when the one after a write
of `state.json` fails, the write stands and the request ends: `AddWrite` and then
`EnvRefused`, or `RemoveWrite`.

### Registry -- what `state.json` is to the requests

A set of tasks of limited size, in which each add and each remove takes effect at one
moment and is answered by what the set was then; who was granted an entry, or has found
one, may have it removed, once. `WorktreeApi` implements it (`KeepsRegistry`): an add or a
remove that is between its read and its write counts as not begun, and `entries` is
the file, or, while an empty file hides it, what the holder of the flock has read. The two
flaws of `Registry` are the code's. `Create`: the
empty file of a `StateStore` that found none, written without the flock, clears the set,
or, while another request is between its read and its write, hides it until that write
puts it back (`emptied`); if that request fails or dies first, what was hidden is gone
(`Settle`). And where reads may fail (`~Readable`), a client that cannot read takes the set
for empty: an add leaves nothing in it but its own entry, a lookup and a remove find
nothing. A client whose own write fails leaves the set as it is (`Fail`).

### WatchdogChecks, Watchdog -- the watchdog

`WatchdogChecks` has the nine checks, each a function from what it reads of the host to
an alert or `Nil`, with the thresholds of the default configuration, and `Readings`, for
each check, readings on both sides of each threshold and in each branch, failed requests
included. An alert's `key` stands for its id: the hash that `deterministic_alert_id`
makes of something fixed, or `Uuid` where the check leaves the id to `uuid4`. `Legible`
says which ids survive the log sanitizer, through which the card's text goes.

`Watchdog` runs them. `runs` are the processes: the timer's and one by hand
(`__main__.py`), each `CreateStore`, `Checks`, then `LookUp`, `Mark`, `Send` one alert at
a time (`Send` takes all at once for a digest), as `tick` does. `store` is `alerts.json`
with the age of each entry up to `Ttl` (24 h); `mark_seen` drops the expired ones. A file
that cannot be read counts as empty (`ReadOrNot`): `LookUp` then finds the alert unseen,
and `Mark` writes its own record and nothing else. What is lost that way, or to the
creation of the store (`Created`), is remembered in `lost`; what a run did not know of
when it asked, in its `since` (recorded while it was at work) and `unread`.
`posted` is the chat, `command` the bot's handling of `/turn-into-task` (`Ask,
AskCreates, AskLooksUp, AskSearches, AskPosts`), `cards` what is in Kaneo. The host
changes by `Change`. `MCWatchdog` and `MCWorktreeApi` only instantiate for TLC.

*Abstractions to know of.* (1) All the checks of a run read the host at once: each reads
its own, so nothing relates two of them. (2) A random id is recorded as any other, but no
later step asks for it, so `store` does not list it. (3) A run ends before a unit of time
has passed (a check has 30 seconds, a unit is hours). (4) `Change` happens while some run
stands before its checks; at other times it could not be told from a later change.
(5) The bot handles one message at a time; the bot itself is outside this repository.

## Runs

| Run | Instance | Checks | Result |
|---|---|---|---|
| `publisher_faults` | 1 brief, all faults, 2 crashes | type; what the file says of channel and disk; nothing lost; no blind publish; refinement | holds, 23 k states |
| `publisher_pair` | 2 briefs (or one and its retry), no faults | one post each; ceiling; linkage; no lost update; every brief settles | holds, 111 k states |
| `publisher_restart` | 1 brief, rmtree and acknowledgement faults, 2 crashes | no orphan; no retry before its slot, and an end to them; settling and collection across restarts | holds, 18 k states |
| `published_unattested` | 1 brief, the callers of the source | "a published job is attested" | **violated** |
| `symphony_tickets` | 2 tickets, 1 agent at a time, 2 attempts, all faults, 1 move, 1 restart | type; one task per ticket; settled runs stay settled, attempts bounded but for lost rows; window respected; refinement of `MergePromise` and of `RunPromise` | holds, 2.5 M states |
| `symphony_served` | the same without faults, policy full-auto | every waiting ticket is run until settled | holds, 139 k states |
| `dispatch` | 1 ticket, 2 repositories, 4 entries, 2 writes of the table, 1 change of the project, all faults, 1 restart | type; an agent starts in a fresh checkout of its project; its engine is the routed one | holds, 4.2 M states |
| `worktree_api` | 3 tasks, 2 requests at a time, capacity 2, all faults, any restarts, 1 target with a draft left behind | type; capacity; one POST per task; refinement of `Registry`; no stray secret; nothing left unregistered | holds, 2.2 M states |
| `post_fails` | 1 task, 1 request, no faults | "a POST creates the worktree and its `.env`" | **violated** |
| `watchdog` | the timer's run and 1 by hand, 1 fault, 1 change of the host | posted is recorded, or its record lost; repeated only by a run that could not know; an outage is reported | holds, 543 k states |
| `watchdog_cards` | 3 commands, lost answers, failing searches and reads | type; one card per alert | holds, 916 k states |
| `window_reused` | 1 ticket, 3 moves | "the window starts when the ticket becomes ready" | **violated** |

*Bounds.* The properties are about one ticket, or a pair (the ceiling, the linkage, two
entries of one snapshot); `MaxJobs` 1 or 2 covers both, and with 2 the ceiling is 1, so
it is reached. Times are 1 or 2 units, each long enough for something to happen before
it, and `AgeCap` exceeds every age the code compares with. Two crashes let one hit the
recovery of the other. Fire times of 0 and 1 give a job that is due and one that is
not. Ids are ordered like lines of the file, so no symmetry is used.
For `Symphony`, two tickets contend for a semaphore of one; two attempts tell the last
from an earlier one; a window of one unit is open or past, and two notices of different
age exist when a read of the comments fails; `MaxTasks` 2 suffices since a ticket has
one task (with a third slot the runs give the same results). One move lets a ticket
change under any step. A write of the ledger fails only while a restart is to come, since
nothing reads the file before one. For `Dispatch`, two repositories tell the right one from another (they
are interchangeable, hence the symmetry); a project may be bound, re-bound, unbound or
without a token; the entries are none, an engine alone, an engine with its model, and one
nobody knows; two writes let an edit by hand meet one of the API. A ticket is dispatched
any number of times. For `WorktreeApi`, three tasks and room for two let a POST be refused for the capacity
while others come and go; two requests are every pair that can meet, and the parts of
`IInv` were also checked with three requests on one task. Tasks and requests are
interchangeable and the run has no liveness property, hence the symmetry. Restarts
need no bound: nothing that grows survives one. A draft that a dead request left behind is
never looked at again, so one target that has one (`MaxDrafts`, a constraint of the run)
stands for several. For `Watchdog`,
an entry is fresh, about to expire or expired (`Ttl` 2); a digest begins at two alerts
(`BatchOver` 1, 3 in the code); a run by hand, a change of the host and a fault can each
hit any step of the timer's runs, which go on for ever. The configuration disables an
ordinary check and the critical one, with and without the acknowledgement (`Configs`).
Three commands are one that loses its answer, its repetition, and one more. Beyond the
listed runs, `Inv` of the proofs was model-checked with 1 job (23 k states) and with 2 jobs,
a crash and all faults (2.6 M states); the invariants of `PublishFileProofs` within the
bounds of `publisher_pair` and `publisher_restart`.

*Fairness.* Weak fairness of the three loops: they run `while True` in one event loop,
whose ready queue starves no task. Of `Restart`: the unit has `Restart=always`. Of the
bot's preview and notification polls: they run every few seconds. Of the end of an
attestation and of time. Implicit in the first: claude and the scorer return. The code
sets no timeout on them, so with a hung child no liveness holds; this is listed as a
hazard. The operator owes nothing: no click is fair. In `Symphony`: the loop and the
tasks run, agents end within the 30 minutes `run_agent` gives them, and the asyncio
semaphore wakes its waiters in order, hence strong fairness of admission for each slot.
That a task goes on also assumes that its calls of git and gh return, on which the code
sets no timeout.
`EveryTicketServed` is checked without `raise`: a run that raises is never recorded and
is repeated at each tick for good (listed as a hazard). In `Watchdog`: the timer starts a
run every five minutes and a run's calls all have timeouts (weak fairness of
`Start(Timer)` and the steps of each run); time passes, although only between runs, which
end (strong fairness of `Tick`). `OutageReported` further rests on `MaxFaults`: only
finitely many checks, messages and runs are lost. With a message lost at every expiry an
outage is never reported, since nothing looks at what comes of a message; and
`executor.shutdown(cancel_futures=True)` right after the submits does lose a check in
many ticks (listed as a hazard).

*Coverage of the mutants.* Each property of a passing run is broken by a mutant of a
definition that models code, kept beside that definition and marked "Faulty".

*Why no faults under liveness in `publisher_pair`.* `OnePostEach` and `CeilingOnFile`
are promises of the races, not of crashes: the design accepts a duplicate after a crash
(tech-spec, Decision 8), which is why the marker (`PostLeavesMarker`) exists. A
campaign that raises every time leaves a job in `publishing` for ever, and a mkdir
that fails leaves one in `writing`: `EveryBriefSettles` is checked without these two
faults.

*Findings shown by a run.* (1) Nothing in the repository attests a published job:
`attest_once` is called from `deadline.py` on `attest-pending` jobs only, and only
`attest_once` itself makes a job `attest-pending`. (2) The deadline of an earlier round is still
among the comments: a ticket that becomes ready again gets no notice and is merged at
once. (3) A POST of a worktree cannot succeed: `materialise_env` has put `.env` into the
target before `git worktree add`, which refuses a directory that is not empty. The tests
replace git by a stub that does not.

*Disagreements seen in the model, without a run of their own.* (4) `_mark_failed` sets no
`cleanup_at`, so the worktree of a failed job is never collected, although worker.py:17
says it is (`MarkFailed`, `Collectable`). (5) An `OSError` of `mkdir` strands a claimed
job in `writing` until a restart, unreported, although worker.py:15 says that any error
of a step ends in `failed` (`PollMkdirFails`). (6) `create_card` is idempotent by the id
in the card's description (kaneo.py:62), but the description is sanitized, and the
sanitizer cuts out an id that has 32 hexadecimal digits in a row without a 0; two of the
four ids that the defaults determine are hit, and each command makes another card
(`Redacted`, `AskSearches`). (7) The check for orphaned worktrees compares
`<root>/<task>` with the registered `<root>/<task>/<repo>`: every live worktree is
reported (`OrphanedWorktrees`). (8) The veto is tested on the labels of the
list, which may be as old as the agent runs ahead in the queue, while the deadline is
compared with the present: a /reject within the window does not always cancel the merge,
as `.symphony/README.md:55` says it does (`Decision` on what the task has `seen`). (9)
"claude starts from a clean checkout" (dispatch.py:339) holds of the files git knows and
of those it does not, but not of a repository that an earlier agent made inside the
workspace, a `git worktree` for instance: `clean -fdx` passes over it (`GitClean`). (10)
`_prepare_workspace` "drops any stale state from a previous dispatch" (dispatch.py:520),
yet it checks out before it resets: uncommitted changes on another branch can make every
later dispatch of the ticket fail; so does a clone that was killed halfway, and a `git
init` from before the project was bound, until the workspace is removed by hand
(`GitRefuses`, `NoRemote`). (11) A project that cannot be read counts as bound to nothing
(dispatch.py:347): the agent starts in the earlier run's leftovers with the service's
GITHUB_TOKEN, which dispatch.py:49 does not want "used by accident" (`ReadProject`). (12)
An edit of the routing file by hand, between the API's rename and its look at the mtime,
is not read before the next edit, although routing.py:4 says that the file is re-read
whenever its mtime changes (`ApiStat`). Nor is an edit whose read failed once: the cache
then has the new mtime with an empty table (`Reloaded`), and a call of the API in that
state writes a file without what the other entries said. (13) Attestation is retried "5 min from last attempt" (deadline.py:6), but a
slot is counted from the first failure and the number of attempts: slots that were missed
while the service was down are made up for on consecutive ticks, 30 seconds apart
(`RetryDue`). (14) "is_seen() acquires the same flock as mark_seen() so a concurrent
check-and-set cannot race" (alert_state.py:20), and a condition is posted "at most 1 per
24h" (alert_state.py:47): the flock is released between the two, so a run by hand and the
timer's both post; and a file that cannot be read is an empty one, so a single run posts
again, and what it records replaces the records of all others (`LookUp`, `Mark`). The
properties name both as exceptions. (15) "A ticket runs again only when its key changes,
or while a failed run still has attempts left", and "the ledger survives Symphony
restarts" (run_ledger.py:4): a row whose write or read failed is lost with the restart, and
a settled run may be run again (`Saves`, `Restart`); a run that is cut by a restart or ends
in an exception is not counted and is repeated without bound (`DispatchRaises`). (16) "the
second caller sees the entry already present and raises AlreadyExistsError" (state.py:5):
a `state.json` that cannot be read or parsed is taken for an empty one (state.py:99), so a
second POST of a task is let in, and it writes the file without the entries of all others,
whose worktrees and `.env` stay where no DELETE finds them (`Readings`, `AddWrite`); a
DELETE in that state is answered 404, or, if only its remove could not read, 204 with the
entry still there (`RemoveRead`).

## Proofs

All are proved by TLAPS for every value of the constants that the named assumptions
(`QueueAssumption`, `PublisherAssumption`, `SymphonyAssumption`, `WorktreeAssumption`,
`DispatchAssumption`, `WatchdogAssumption`, `NilAssumption`, `NoneAssumption`) allow: any number of tickets, tasks and requests, any repositories, engines and entries,
any times, capacity, faults and crashes.

| Module | Theorem | Says |
|---|---|---|
| `ContentPublisherProofs` | `TypeCorrect` | `Spec => []TypeOK` |
| `PublishSafetyProofs` | `Invariance` | `Spec => []Inv` |
| | `PostedOnlyOnceDecidedHolds`, `PublishedMeansPostedHolds`, `PostLeavesMarkerHolds`, `ArticleKeptHolds`, `NothingLostHolds` | the safety invariants of `publisher_faults` |
| `PublishFileProofs` | `RetryLinkedHolds`, `RetriesOnScheduleHolds`, `NoLostUpdateHolds` | properties of `publisher_pair` and `publisher_restart` |
| | `NoOrphanHolds` | `NoOrphan`, assuming that `mkdir` does not fail |
| | `OnePostEachHolds`, `CeilingOnFileHolds` | the two, assuming `Undisturbed` |
| `PublishPromiseProofs` | `NoBlindPublishHolds` | the action property |
| | `KeepsPromiseHolds` | the refinement of `PublishPromise` |
| | `PromiseOfTheText` | `PublishPromise` by itself: no text in the channel before its yes, and one for every live brief |
| `SymphonyProofs` | `TypeCorrect`, `OneTaskEach`, `AttemptsAlwaysBounded` | the invariants of `symphony_tickets` |
| | `SettledNeverRerun`, `AlwaysMergedAfterWindow` | its action properties |
| | `KeepsMergePromiseHolds`, `KeepsRunPromiseHolds` | the refinements of `MergePromise` and `RunPromise` |
| | `PromiseOfTheWindow`, `PromiseOfTheRuns` | what the two promises say by themselves: no merge within a window; one run per ticket, with its workspace |
| | `WorkspaceAlwaysKept` | no agent without its workspace |
| | `Invariance` | `Spec => []Inv` |
| `WorktreeApiProofs` | `TypeCorrect`, `CapacityAlways`, `OnePostAlways` | the invariants of `worktree_api` |
| | `StrayAlways`, `UnregisteredAlways` | its action properties |
| | `KeepsRegistryHolds` | the refinement of `Registry` |
| | `RegistryHasRoom` | `Registry` by itself keeps the capacity |
| | `EntriesAlways` | an entry goes only by its own remove, by the empty file, or by an add that could not read the file |
| | `Invariance` | `Spec => []IInv` |
| `DispatchProofs` | `TypeCorrect`, `StartsAsBoundAlways`, `EngineAsRoutedAlways` | the properties of `dispatch` |
| | `Invariance` | `Spec => []IInv` |
| `WatchdogProofs` | `TypeCorrect`, `PostedAlwaysRecorded` | the invariants of `watchdog` and `watchdog_cards` |
| | `RepeatedOnlyUnseenAlways`, `OneCardAlways` | their action properties |
| | `Invariance` | `Spec => []Inv` |

*The inductive invariant of the publisher.* None of the five safety invariants is inductive alone, since
they speak of the file and the channel while the tasks work from what they hold. `Inv`
adds:

* `TypeInv`: the types, and that a task past its claim holds a job (`PollHasJob`);
* `Mutex`: at most one task of the process is inside a synchronous section;
* `Down`: a process that is down holds nothing;
* `GcView`: while cleanup-gc is in its section, the file is still what it read, what it
  will remove is collectable, and what it has dealt with is archived. This is where the
  flock and the event loop are used, and it is what makes the rewrite harmless;
* `PollWork`: what the poll task's point says of its job: being drafted with its
  worktree there; publishing with an article and the marker; posted, at the point where
  the publication is recorded;
* `Book`: the five invariants, plus `Fresh` (ids not handed out are blank), `Expiring`
  (what the checker's snapshot expires had been shown) and `Seen`.

The proof that `Next` preserves `Inv` goes action by action, in groups that touch the
same conjuncts. The refinement classifies each step as moving one job along the state
graph, leaving stages alone, adding a ticket, recovering, or collecting, and maps each
class once.

*What stands beside it.* The lines of the file are related to each other by four further
invariants, each inductive together with `Inv` (`PublishFileProofs`):

* `Links`: a ticket names a replacement only when it is closed, and links name ids that
  were handed out, so a new ticket cannot be linked by accident;
* `Paced` and `Calls`: a job in the checker's snapshot, or in its call, was due when it
  was taken, and nobody else can count an attempt until that call has ended, since the
  other caller serves published jobs only and no job comes back to that status;
* `Drafting`: which point of the poll task a job in `writing` or `scoring` stands at. It
  fails when `mkdir` does, which the hazards list;
* `Thrift`: a text is in the channel once at most, the file knows of it and dates it no
  earlier than it was, unless the poll task is just about to record it, and between the
  check of the ceiling and the call the room does not shrink. It needs `Undisturbed`: `raise` and
  `lost-ack` are no faults, and nothing crashes.

Most steps are *calm*: they move a status along the graph and leave links, attempts and
dates alone (`Calm`), so each invariant is shown once for all of them and then for the few
steps that are not.

*The inductive invariant of Symphony.* A property of `Symphony` relates a task, made from
an old list, to what is true when it acts, so `Inv` says for each task what is still true
of its snapshot:

* `Tasks`: a task has its ticket and its snapshot, of a status it can act on;
* `Flight`: its ticket is in the in-flight map, and no other task has it. All the rest
  hangs on this: the ledger row, the workspace and the notices of a ticket in flight are
  changed by its own task and by nothing else, since `_cleanup_finished` and the dispatch
  both ask the map;
* `AttemptsLeft`: an entry that is not settled has an attempt left, in memory and on disk,
  and the runs that have ended are those the ledger knows of and at most `MaxAttempts` for
  each lapse, so that recording one
  more keeps the bound;
* `Unsettled`: a task that runs an agent, or waits to, is for a run that is not settled.
  It was so when the loop made the task, and stays so until the task itself records;
* `Passed`: where there is a veto, a task between the reading of the comments and the
  merge is of a ticket with every window over. Time only helps, and a new notice would
  have to be posted by another task of the same ticket.

The steps are grouped by what they do to a task: it ends, it goes on, or the tasks are
left alone (`AfterEnds`, `AfterGoes`, `TasksAlone`); only the dispatch and the restart
make or drop several at once. `LoopDispatch` picks the slots by an injection, whose
existence `InjectionThere` derives from the cardinalities.

*The refinements by Symphony.* `KeepsMergePromiseHolds` needs `Merging` beside `Inv`: for
each slot, `SetRight` says what its task has found, by the point where it stands: who
posts a notice or merges works from a look that found the ticket ready and not rejected,
who sends it back from one that found it rejected, under a policy that lets it, and who
closes a ticket has merged it. That the windows are over is `Passed`.
Most steps of `Symphony` are stutters or only drop what was found; the same groups as
above map each to one step of the promise. That a window is never announced behind a
merge under way is `Flight` again: the merge and the notice would be of two tasks of one
ticket. `KeepsRunPromiseHolds` needs `Inv` alone: the run that begins is the only one by
`Flight`, and the cleanup asks the map of tickets in flight before it removes anything.

*The inductive invariant of the worktree API.* `IInv` is built in three layers, each
proved on the ones before it.

* `Ledger`: the types; a request past its `StateStore` has a file; and what the holder of
  the flock has read contains what is in the file (it *is* the file, or `CreateFile` has
  emptied it since), unless it is an add that could read nothing (`Blind`); an add has room
  for one more in what it read. Capacity and
  `EntriesKept` follow: two writers under the flock never write from the same reading.
  With `Untouched` (what the holder has read is the file, or the file is empty, or it is
  blind, and an entry about to be removed is in what was read) it carries `KeepsRegistryHolds`: the write is the
  moment at which an add or a remove takes effect, a refusal and a lookup take effect
  where they read, and everything between the entry and its removal is a stutter.
* `Ownership`: the entry of a task is the lock of its target. A POST that nobody met has
  its entry, unless the entry was lost and the POST marked; two POSTs, or a POST and a DELETE, that work on one task are both marked as
  met. This is why adding the entry before anything is done on disk makes concurrent
  POSTs safe, and `OnePostPerTask` is a consequence.
* `Drafts` and `Cleared`: a draft of `.env` belongs to the POST that is writing it, and a
  request about to give up its entry, alone, has taken away what the entry stands for.
  `NoStraySecret` and `NothingUnregistered` follow action by action: the only steps that
  end an entry are `RemoveWrite`, `CreateFile` and the write of a blind add, and the only ones that add to the disk
  belong to a POST with its entry.

*The inductive invariant of the dispatch.* The two action properties look at one step
each, and what makes them true was done steps before. `RouteInv` says that a cache with
the mtime of the file has its content, unless `blind` (a save or a read failed, or an edit
by hand cut in); it needs that mtimes only grow and
that a call of the API is between its two steps exactly when the cache is ahead of the
file. `RunInv` says, for each point of `_prepare_workspace`, what the commands before it
have established (`Prepared`): the repository from the comparison on, the branch after the
checkout, no changes after the reset, no files after the clean; and that a project without
a token never gets that far (`Admitted`). It is an invariant of every step because nothing
but the run touches its workspace while it stands at such a point.

*The inductive invariant of the watchdog.* The store is locked for one operation at a
time and a run makes many, so `Inv` says what each phase may still rely on. `Recorded`:
except for the alerts in `lost`, what a run has marked, and all that it is about to post,
was recorded since time last passed, and what the chat was told is on record and no older
there than in the chat; it needs that an entry is dropped only when expired or by a run
that could not read it, and that no run spans a `Tick`. `New`: what a run takes for new
is not on record, or it could not know (`Unseen`: recorded by another while it was at
work, or not read).
`Cards`: each card is of a command of its own, and a command that searched and was not
blind goes on to post only where there is none. `OneOutage` shows, from the checks
themselves, that a service that answers badly and one that does not answer have one id.

*Only model-checked:* liveness (`EveryBriefSettles`, `RetriesEnd`,
`FinishedIsCollected`, `EveryTicketServed`, `OutageReported`), which TLAPS does not
reach. Three of the theorems on the publisher assume away faults, as their runs do:
`NoOrphanHolds`, `OnePostEachHolds` and `CeilingOnFileHolds`.

## Not modelled

Safe mode, staging and the warrant canary, as planned above. In Symphony: the prompt and
what is told to the operator. In the worktree API: answers, listing
and validation. In the watchdog: how a check gets its reading, wording, and the bot's
authorisation of a command beyond the alert being on record. In content-publisher:
environment filtering and log redaction (`env.py`, `__init__.py`), the signer's protocol
(`mcp_client.py`, reduced to success or failure), the contents of articles, scores and
previews. The log sanitizer is modelled only in what it does to the id of an alert.
Provisioning and CI have no state machine of the program;
the harnesses are fixtures and vendored packages.
