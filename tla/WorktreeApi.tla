----------------------------- MODULE WorktreeApi -----------------------------
(***************************************************************************)
(* The worktree API of the workspace manager (main.py, state.py, vault.py, *)
(* worktree.py): POST /worktree registers a task in state.json, writes the *)
(* .env of its worktree from the vault and lets git create the worktree;   *)
(* DELETE takes all three away again.                                      *)
(*                                                                         *)
(* Requests are coroutines of one event loop, and everything slow runs in  *)
(* a worker thread: between any two of the steps below any step of another *)
(* request may come.  state.json is read and written under a flock, except *)
(* by StateStore.__init__, which every request runs.                       *)
(*                                                                         *)
(* A task stands for its one target directory <root>/<task_id>/<repo>.     *)
(***************************************************************************)
EXTENDS Integers, FiniteSets

CONSTANTS
    Task,       \* the task ids
    Request,    \* the requests that may be in progress at a time
    Nil,        \* no file, no value
    Capacity,   \* Settings.capacity_total
    Faults      \* which faults of the environment may happen

\* The vault cannot be reached; the disk refuses (OSError); state.json cannot be
\* read or parsed; git fails; the service dies.
Fault == {"vault", "disk", "read", "git", "crash"}

ASSUME WorktreeAssumption ==
    /\ IsFiniteSet(Task) /\ Nil \notin Task /\ Nil \notin Request
    /\ \A entries \in SUBSET Task : entries # Nil
    /\ Request \cap {"dir", "git", "env", "tmp"} = {}
    /\ Capacity \in Nat \ {0}
    /\ Faults \subseteq Fault

VARIABLES
    file,       \* the keys of state.json, Nil before there is one
    lock,       \* the request that holds the flock of state.json
    disk,       \* what there is of each target: the directory, git's, .env, the
                \* .env-tmp- file of a request, "tmp" if it was left behind
    listed,     \* the targets git has on its list of worktrees
    requests    \* the requests in progress

vars == <<file, lock, disk, listed, requests>>

-----------------------------------------------------------------------------
\* read is what a request has read of state.json under the lock.  Two flags say
\* how it got on: raced, that its entry or its target may be another's, because a
\* DELETE and a POST of one task met, or the entry was lost to an empty file or to
\* an add that could not read it; left, that it has given up its entry with
\* something still on disk.
Idle == [op |-> "none", task |-> Nil, pc |-> "idle", read |-> Nil,
         raced |-> FALSE, left |-> FALSE]

At(r, op, pc) == requests[r].op = op /\ requests[r].pc = pc
Goes(r, pc) == requests' = [requests EXCEPT ![r].pc = pc]
GivesUp(r, left) ==
    requests' = [requests EXCEPT ![r].pc = "remove", ![r].left = left]
\* The request is over, whatever it answers.
Answers(r) == requests' = [requests EXCEPT ![r] = Idle]
TaskOf(r) == requests[r].task

\* The requests that have the entry of a task and have not given it up.
Making(t) == {r \in Request : /\ requests[r].op = "post" /\ TaskOf(r) = t
                              /\ requests[r].pc \in {"env", "rename", "git", "undo-env", "undo-dir",
                                                     "remove", "removing"}}
Deleting(t) == {r \in Request : /\ requests[r].op = "delete" /\ TaskOf(r) = t
                                /\ requests[r].pc \in {"unlink", "destroy", "remove", "removing"}}

Registered(t) == file # Nil /\ t \in file
\* A .env, or a draft of one, that no entry stands for.
Stray(t) == ~Registered(t) /\ disk[t] \cap ({"env"} \cup Request) # {}

\* _read_raw: what there is, or nothing at all when it cannot be read or parsed.
Readings == IF "read" \in Faults THEN {file, {}} ELSE {file}

Meet(rs, met) == [r \in Request |-> [rs[r] EXCEPT !.raced = @ \/ r \in met]]

-----------------------------------------------------------------------------
(***************************************************************************)
(* A request arrives; its StateStore is constructed in a thread.           *)
(***************************************************************************)

Arrive(r, op, t) ==
    /\ requests[r] = Idle
    /\ requests' = [requests EXCEPT ![r] =
                        [Idle EXCEPT !.op = op, !.task = t,
                                     !.pc = IF file = Nil THEN "create"
                                            ELSE IF op = "post" THEN "add" ELSE "get"]]
    /\ UNCHANGED <<file, lock, disk, listed>>

\* No file was there when the request looked: it writes an empty one, whether
\* or not there is one by now, and without the lock.
CreateFile(r) ==
    /\ requests[r].pc = "create"
    /\ file' = {}
    /\ requests' = [q \in Request |->
                       IF q = r
                       THEN [requests[r] EXCEPT !.pc = IF requests[r].op = "post" THEN "add"
                                                        ELSE "get"]
                       ELSE [requests[q] EXCEPT !.raced = @ \/ (file # Nil /\ TaskOf(q) \in file)]]
    /\ UNCHANGED <<lock, disk, listed>>

-----------------------------------------------------------------------------
(***************************************************************************)
(* POST.                                                                   *)
(***************************************************************************)

\* Faulty: the flock is not taken.
LockIgnored == TRUE
LockFree == lock = Nil

\* Faulty: one more than there is room for.
FullLate(entries) == Cardinality(entries) > Capacity
Full(entries) == Cardinality(entries) >= Capacity

\* Faulty: an entry there is already is taken for one's own.
RefusedIfFull(entries, t) == Full(entries)
Refused(entries, t) == Full(entries) \/ t \in entries

\* StateStore.add, the checks: a refusal is the answer 409.
AddRead(r, read) ==
    /\ At(r, "post", "add") /\ LockFree
    /\ IF Refused(read, TaskOf(r))
       THEN Answers(r) /\ UNCHANGED lock
       ELSE /\ lock' = r
            /\ requests' = [requests EXCEPT ![r].pc = "adding", ![r].read = read]
    /\ UNCHANGED <<file, disk, listed>>

\* The entries that the write of an add takes away, of its own task as well: those
\* it could not read.
Lost(r) == file \ requests[r].read

\* StateStore.add, the write.
AddWrite(r) ==
    LET t == TaskOf(r)
        losers == UNION {Making(u) \cup Deleting(u) : u \in Lost(r)}
        met == Deleting(t) \cup {q \in Making(t) : requests[q].raced}
        alone == met = {} /\ t \notin Lost(r) /\ ~Stray(t)
    IN  /\ At(r, "post", "adding")
        /\ file' = requests[r].read \cup {t}
        /\ lock' = Nil
        /\ requests' = Meet([requests EXCEPT ![r].pc = "env", ![r].read = Nil],
                            losers \cup (IF alone THEN {} ELSE met \cup {r}))
        /\ UNCHANGED <<disk, listed>>

\* materialise_env: a temporary file, in the directory it makes.
EnvBegun(r) ==
    /\ At(r, "post", "env")
    /\ disk' = [disk EXCEPT ![TaskOf(r)] = @ \cup {"dir", r}]
    /\ Goes(r, "rename")
    /\ UNCHANGED <<file, lock, listed>>

\* It becomes .env.
EnvWritten(r) ==
    /\ At(r, "post", "rename") /\ r \in disk[TaskOf(r)]
    /\ disk' = [disk EXCEPT ![TaskOf(r)] = (@ \ {r}) \cup {"env"}]
    /\ Goes(r, "git")
    /\ UNCHANGED <<file, lock, listed>>

\* The credential cannot be read, or bw fails, answers nonsense or hangs: the
\* entry is given up, and the answer is 503.
VaultUnreachable(r) ==
    /\ At(r, "post", "env") /\ "vault" \in Faults
    /\ GivesUp(r, disk[TaskOf(r)] # {})
    /\ UNCHANGED <<file, lock, disk, listed>>

\* The directory or the file cannot be written, or another request has removed
\* the directory.  The temporary file is unlinked, if that works.  Nothing
\* catches the OSError: the request fails and its entry stays.
EnvRefused(r, left) ==
    LET t == TaskOf(r) IN
    /\ At(r, "post", "env") \/ At(r, "post", "rename")
    /\ "disk" \in Faults \/ (At(r, "post", "rename") /\ r \notin disk[t])
    /\ left \subseteq IF At(r, "post", "env") THEN {"dir"}
                      ELSE IF r \in disk[t] THEN {"tmp"} ELSE {}
    /\ disk' = [disk EXCEPT ![t] = (@ \ {r}) \cup left]
    /\ Answers(r)
    /\ UNCHANGED <<file, lock, listed>>

\* git worktree add takes a path that is not there or is an empty directory,
\* and that is not on its list.
Addable(t) == disk[t] \subseteq {"dir"} /\ t \notin listed

\* create_worktree: the answer is 201.
WorktreeAdded(r) ==
    /\ At(r, "post", "git") /\ Addable(TaskOf(r))
    /\ disk' = [disk EXCEPT ![TaskOf(r)] = {"dir", "git"}]
    /\ listed' = listed \cup {TaskOf(r)}
    /\ Answers(r)
    /\ UNCHANGED <<file, lock>>

\* git refuses the path, or the base_ref, or there is no such repository.
WorktreeRefused(r) ==
    /\ At(r, "post", "git")
    /\ ~Addable(TaskOf(r)) \/ "git" \in Faults
    /\ Goes(r, "undo-env")
    /\ UNCHANGED <<file, lock, disk, listed>>

\* git cannot be started: nothing catches the OSError.
GitMissing(r) ==
    /\ At(r, "post", "git") /\ "disk" \in Faults
    /\ Answers(r)
    /\ UNCHANGED <<file, lock, disk, listed>>

\* The rollback removes .env and the directory without yielding the event loop,
\* on which a DELETE removes .env as well.
LoopFree == \A r \in Request : ~At(r, "post", "undo-dir")

\* Faulty: the directory is left to rmtree, .env and all.
UndoEnvSkipped(r) ==
    /\ At(r, "post", "undo-env") /\ LoopFree
    /\ Goes(r, "undo-dir")
    /\ UNCHANGED <<file, lock, disk, listed>>

\* The rollback: .env first.
UndoEnv(r) ==
    /\ At(r, "post", "undo-env") /\ LoopFree
    /\ disk' = [disk EXCEPT ![TaskOf(r)] = @ \ {"env"}]
    /\ Goes(r, "undo-dir")
    /\ UNCHANGED <<file, lock, listed>>

\* Faulty: a directory without .env in it is not worth removing.
UndoDirSkipped(r, removed) ==
    /\ At(r, "post", "undo-dir")
    /\ removed
    /\ GivesUp(r, FALSE)
    /\ UNCHANGED <<file, lock, disk, listed>>

\* Then the directory, whoever made it; rmtree may fail and is only logged.
UndoDir(r, removed) ==
    /\ At(r, "post", "undo-dir")
    /\ ~removed => "disk" \in Faults /\ disk[TaskOf(r)] # {}
    /\ disk' = IF removed THEN [disk EXCEPT ![TaskOf(r)] = {}] ELSE disk
    /\ GivesUp(r, ~removed)
    /\ UNCHANGED <<file, lock, listed>>

-----------------------------------------------------------------------------
(***************************************************************************)
(* DELETE.                                                                 *)
(***************************************************************************)

\* StateStore.get, without the lock: 404, or the entry.
Get(r, read) ==
    LET t == TaskOf(r) IN
    /\ At(r, "delete", "get")
    /\ IF t \in read
       THEN requests' = Meet([requests EXCEPT ![r].pc = "unlink"],
                             IF Making(t) = {} THEN {} ELSE Making(t) \cup {r})
       ELSE Answers(r)
    /\ UNCHANGED <<file, lock, disk, listed>>

\* remove_env.
Unlink(r) ==
    /\ At(r, "delete", "unlink") /\ LoopFree
    /\ disk' = [disk EXCEPT ![TaskOf(r)] = @ \ {"env"}]
    /\ Goes(r, "destroy")
    /\ UNCHANGED <<file, lock, listed>>

\* remove_env raises anything but FileNotFoundError: the answer is 500, with
\* the rollback of a POST cut short in the same way.
UnlinkRefused(r) ==
    /\ At(r, "delete", "unlink") \/ At(r, "post", "undo-env")
    /\ LoopFree /\ "disk" \in Faults
    /\ Answers(r)
    /\ UNCHANGED <<file, lock, disk, listed>>

\* destroy_worktree: git removes a worktree of its own; whatever else is there,
\* or a failure of git, is logged and left.
Destroy(r, works) ==
    LET t == TaskOf(r)
        removable == t \in listed /\ "git" \in disk[t] /\ works
    IN  /\ At(r, "delete", "destroy")
        /\ ~works => "git" \in Faults
        /\ disk' = IF removable THEN [disk EXCEPT ![t] = {}] ELSE disk
        /\ listed' = IF removable THEN listed \ {t} ELSE listed
        /\ GivesUp(r, ~removable /\ disk[t] # {})
        /\ UNCHANGED <<file, lock>>

-----------------------------------------------------------------------------
(***************************************************************************)
(* StateStore.remove, which ends a DELETE and the rollback of a POST.      *)
(***************************************************************************)

\* No such entry is no error for either.
RemoveRead(r, read) ==
    /\ requests[r].pc = "remove" /\ LockFree
    /\ IF TaskOf(r) \in read
       THEN /\ lock' = r
            /\ requests' = [requests EXCEPT ![r].pc = "removing", ![r].read = read]
       ELSE Answers(r) /\ UNCHANGED lock
    /\ UNCHANGED <<file, disk, listed>>

RemoveWrite(r) ==
    /\ requests[r].pc = "removing"
    /\ file' = requests[r].read \ {TaskOf(r)}
    /\ lock' = Nil
    /\ Answers(r)
    /\ UNCHANGED <<disk, listed>>

-----------------------------------------------------------------------------
\* The lock file cannot be opened, or _write_raw fails before the new file takes
\* the place of the old: nothing catches the OSError, and the flock is let go.
StateRefused(r) ==
    /\ requests[r].pc \in {"create", "add", "adding", "remove", "removing"}
    /\ "disk" \in Faults
    /\ lock' = IF lock = r THEN Nil ELSE lock
    /\ Answers(r)
    /\ UNCHANGED <<file, disk, listed>>

Abandoned == [t \in Task |-> {IF x \in Request THEN "tmp" ELSE x : x \in disk[t]}]

\* Faulty: a lock file outlives the service.
CrashLocked ==
    /\ "crash" \in Faults
    /\ requests' = [r \in Request |-> Idle]
    /\ disk' = Abandoned
    /\ UNCHANGED <<file, lock, listed>>

\* The service dies and is started again: the flock goes with it, and nothing
\* is recovered.
Crash ==
    /\ "crash" \in Faults
    /\ requests' = [r \in Request |-> Idle] /\ lock' = Nil
    /\ disk' = Abandoned
    /\ UNCHANGED <<file, listed>>

Init ==
    /\ file = Nil /\ lock = Nil
    /\ disk = [t \in Task |-> {}] /\ listed = {}
    /\ requests = [r \in Request |-> Idle]

PostStep(r) ==
    \/ \E read \in Readings : AddRead(r, read)
    \/ AddWrite(r)
    \/ EnvBegun(r) \/ EnvWritten(r) \/ VaultUnreachable(r) \/ \E left \in SUBSET {"dir", "tmp"} : EnvRefused(r, left)
    \/ WorktreeAdded(r) \/ WorktreeRefused(r) \/ GitMissing(r)
    \/ UndoEnv(r) \/ \E removed \in BOOLEAN : UndoDir(r, removed)

DeleteStep(r) ==
    \/ \E read \in Readings : Get(r, read)
    \/ Unlink(r) \/ UnlinkRefused(r)
    \/ \E works \in BOOLEAN : Destroy(r, works)

Next ==
    \/ \E r \in Request :
          \/ \E op \in {"post", "delete"}, t \in Task : Arrive(r, op, t)
          \/ CreateFile(r)
          \/ PostStep(r) \/ DeleteStep(r)
          \/ \E read \in Readings : RemoveRead(r, read)
          \/ RemoveWrite(r) \/ StateRefused(r)
    \/ Crash

Spec == Init /\ [][Next]_vars

-----------------------------------------------------------------------------
(***************************************************************************)
(* Properties.                                                             *)
(***************************************************************************)

\* Every variable holds what the code can put there, and the flock belongs to
\* the request that is between its read and its write.
TypeOK ==
    /\ file \in (SUBSET Task) \cup {Nil} /\ lock \in Request \cup {Nil}
    /\ \A r \in Request : lock = r <=> requests[r].pc \in {"adding", "removing"}
    /\ disk \in [Task -> SUBSET ({"dir", "git", "env", "tmp"} \cup Request)]
    /\ \A t \in Task : disk[t] # {} => "dir" \in disk[t]
    /\ listed \subseteq Task
    /\ requests \in
          [Request -> [op : {"none", "post", "delete"}, task : Task \cup {Nil},
                       pc : {"idle", "create", "add", "adding", "env", "rename", "git", "undo-env",
                             "undo-dir", "get", "unlink", "destroy", "remove", "removing"},
                       read : (SUBSET Task) \cup {Nil}, raced : BOOLEAN, left : BOOLEAN]]

\* However many requests run at a time, no more tasks are registered than
\* there is room for.
CapacityKept == file # Nil => Cardinality(file) <= Capacity

\* An add that wants to write the file anew, if it could not read what there is.
Blind(r) == "read" \in Faults /\ requests[r].pc = "adding" /\ requests[r].read = {}

\* An entry goes only when its own task is given up, with two exceptions: the
\* first request of all may write the empty file over it, and an add that could not
\* read the file writes it anew with nothing but its own entry.
EntriesKept ==
    [][\A t \in Task :
          file # Nil /\ t \in file /\ t \notin file' =>
              \E r \in Request : \/ requests[r].pc = "removing" /\ TaskOf(r) = t
                                 \/ requests[r].pc = "create"
                                 \/ Blind(r)]_vars

\* What a request wants of state.json: an add or a remove that is between its
\* read and its write counts as not begun.
Holding == {"env", "rename", "git", "undo-env", "undo-dir", "unlink", "destroy"}
Wanted(r) ==
    LET pc == requests[r].pc
    IN  IF pc \in Holding THEN "hold"
        ELSE IF pc = "adding" THEN "add" ELSE IF pc = "removing" THEN "remove" ELSE pc

State == INSTANCE Registry WITH
    Client <- Request,
    Readable <- "read" \notin Faults,
    entries <- IF lock # Nil /\ file = {} THEN requests[lock].read
               ELSE IF file = Nil THEN {} ELSE file,
    emptied <- lock # Nil /\ file = {} /\ requests[lock].read # {},
    wants <- [r \in Request |-> Wanted(r)],
    task <- [r \in Request |-> TaskOf(r)]

\* StateStore is a Registry: whatever requests overlap, fail or die, an add or a remove
\* takes effect at one moment; while state.json can be read it is answered by what was
\* registered then, and an entry goes only when one that was granted or found is given up,
\* or by the unguarded write of a first request.  An add that cannot read the file is
\* granted, and takes every other entry with it.
KeepsRegistry == State!Spec

\* The entry is the lock of its task: no two POSTs work on one target, as long
\* as no DELETE cut in and the entry was not lost (EntriesKept).
OnePostPerTask ==
    \A t \in Task : Cardinality({r \in Making(t) : ~requests[r].raced}) <= 1

Overtaken(t) == \E r \in Request : \/ TaskOf(r) = t /\ requests[r].raced
                                   \/ requests[r].pc = "create"
                                   \/ requests[r].pc = "adding" /\ t \in Lost(r)

\* No .env, with the secrets of its topic, and no draft of one gets on disk
\* without an entry that a DELETE would find, or loses that entry, wherever a
\* request fails or the service dies; unless two requests of the task met, or an
\* empty file or an add that could not read the file took the entry.  A draft that was
\* left behind ("tmp") is another matter: no entry is kept for it, and nothing looks for it.
NoStraySecret == [][\A t \in Task : Stray(t)' => Stray(t) \/ Overtaken(t)]_vars

\* Nothing at all is left on disk without an entry, unless removing it failed, or
\* two requests of the task met, or the entry was lost as above.
NothingUnregistered ==
    [][\A t \in Task : (disk[t] # {} /\ ~Registered(t))' =>
          \/ disk[t] # {} /\ ~Registered(t)
          \/ Overtaken(t)
          \/ \E r \in Request : TaskOf(r) = t /\ requests[r].left]_vars

-----------------------------------------------------------------------------
\* A POST that meets no fault creates its worktree: it is not rolled back.  The
\* task's acceptance has it so (coding-fabric/tasks/08.md).
PostSucceeds == Faults = {} => \A r \in Request : ~At(r, "post", "undo-env")
=============================================================================
