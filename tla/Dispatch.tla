------------------------------ MODULE Dispatch ------------------------------
(***************************************************************************)
(* The dispatch of one ticket (dispatch.py, routing.py): what lies between *)
(* Acquire and AgentEnds of Symphony.  The engine is chosen from the       *)
(* workflow, the routing table and the labels; the ticket's project says   *)
(* which repository the workspace has to hold; the workspace is brought to *)
(* it, whatever an earlier run left there; the agent starts.               *)
(*                                                                         *)
(* Symphony gives a ticket one task at a time, so its workspace has one    *)
(* run at a time.  The operator edits the project in Kaneo, and the table  *)
(* by hand or through the API, at any time.                                *)
(***************************************************************************)
EXTENDS Integers

CONSTANTS
    Nil,         \* none
    Repo,        \* the repositories a project may be bound to
    Pat,         \* the names of tokens an operator may write
    Registry,    \* those in GITHUB_PATS
    Engine,      \* the engines there are adapters for
    Installed,   \* those on the path
    Workflow,    \* engine and model of the stage's front matter
    Entries,     \* what is edited into the table for the stage, or set by label
    Faults,      \* which faults of the environment may happen
    MaxEdits,    \* bound: writes of the table
    MaxChanges,  \* bound: changes of the project
    MaxCrashes   \* bound: restarts of the service

\* Kaneo, git or the disk fails.
Fault == {"kaneo", "git", "disk"}

\* An entry of the table for the stage, or what the labels of a ticket say.
Empty == [engine |-> Nil, model |-> Nil]

\* "init" is a repository without a remote; "broken" a clone that git was
\* killed in: its remote is known, and it cannot be brought up to date.
Git == {"none", "init", "broken", "clone"}
\* What is there that git does not know: files, or a repository of its own.
Litter == {"none", "files", "repo"}
Directory == [git : Git, repo : Repo \cup {Nil}, branch : {"default", "other"},
              changed : BOOLEAN, litter : Litter]
Project == [repo : Repo \cup {Nil}, pat : Pat \cup {Nil}]
Models == {e.model : e \in Entries} \cup {Workflow.model, Nil}
Choice == [engine : {e.engine : e \in Entries} \cup Engine \cup {Nil}, model : Models]

ASSUME DispatchAssumption ==
    /\ Nil \notin Repo \cup Pat \cup Engine \cup Directory \cup Project \cup Choice
    /\ \A n \in 1 .. MaxEdits, e \in Choice \cup {Nil} : Nil # [mtime |-> n, entry |-> e]
    /\ Registry \subseteq Pat /\ Installed \subseteq Engine
    /\ Workflow.engine \in Engine
    /\ Empty \in Entries /\ Nil \notin Entries  \* Nil is none of the records
    /\ \A e \in Entries : e = [engine |-> e.engine, model |-> e.model]
    /\ Faults \subseteq Fault
    /\ MaxEdits \in Nat /\ MaxChanges \in Nat /\ MaxCrashes \in Nat

VARIABLES
    project,  \* the description of the project: repo: and pat:
    ws,       \* the workspace of the ticket, Nil before it is made
    run,      \* the run of the ticket
    file,     \* the routing file: its mtime, and its entry or Nil if unreadable
    cache,    \* RoutingTable._mtime and its entry
    api,      \* how far a call of the routing API is
    blind,    \* history: the cache has the mtime of what it has not read
    edits, changes, crashes

route == <<file, cache, api, blind, edits>>
vars == <<project, ws, run, route, changes, crashes>>

-----------------------------------------------------------------------------
EmptyDir == [git |-> "none", repo |-> Nil, branch |-> "default", changed |-> FALSE, litter |-> "none"]
Clone(r) == [EmptyDir EXCEPT !.git = "clone", !.repo = r]
Broken(r) == [EmptyDir EXCEPT !.git = "broken", !.repo = r]
HasGit == ws.git # "none"
Littered == ws.litter # "none"
\* What rmtree may leave of a directory.
Remains == {[EmptyDir EXCEPT !.litter = "files"], [EmptyDir EXCEPT !.git = "init"],
            [ws EXCEPT !.changed = TRUE]}

NoRun == [pc |-> "idle", engine |-> Nil, model |-> Nil, project |-> Nil]
At(pc) == run.pc = pc
Goes(pc) == run' = [run EXCEPT !.pc = pc]
\* dispatch_ticket returns or raises, with a comment or without one.
Ends == run' = NoRun
\* A call of the routing API does not await: no dispatch step in between.
LoopFree == api = "idle"

-----------------------------------------------------------------------------
(***************************************************************************)
(* The routing table.                                                      *)
(***************************************************************************)

Readable == file # Nil /\ file.entry # Nil
EntryOnFile == IF Readable THEN file.entry ELSE Empty

\* A file with the mtime of the cache is not read.
Current == file # Nil /\ file.mtime = cache.mtime

\* Faulty: what was read once is never read again.
ReloadedOnce(fails) ==
    IF cache.mtime # 0 THEN cache
    ELSE [mtime |-> IF file = Nil THEN 0 ELSE file.mtime,
          entry |-> IF fails THEN Empty ELSE EntryOnFile]

\* _reload: the cache after it.  A file that is there and cannot be read, this
\* once, counts as empty, and the cache takes its mtime all the same.
Reloaded(fails) ==
    IF Current THEN cache
    ELSE [mtime |-> IF file = Nil THEN 0 ELSE file.mtime,
          entry |-> IF fails THEN Empty ELSE EntryOnFile]

MayFail(fails) == fails => "disk" \in Faults /\ file # Nil /\ ~Current
Blinded(fails) == fails \/ (blind /\ Current)

\* Faulty: an engine nobody knows is taken as well.
OverriddenUnchecked(base, over) ==
    [engine |-> IF over.engine = Nil THEN base.engine ELSE over.engine,
     model |-> IF over.model # Nil THEN over.model
               ELSE IF over.engine \in {Nil, base.engine} THEN base.model ELSE Nil]

\* _override: the model belongs to the engine, and goes with it.  Nil for an
\* engine that is not known.
Overridden(base, over) ==
    IF over.engine \notin Engine \cup {Nil} THEN Nil
    ELSE [engine |-> IF over.engine = Nil THEN base.engine ELSE over.engine,
          model |-> IF over.model # Nil THEN over.model
                    ELSE IF over.engine \in {Nil, base.engine} THEN base.model ELSE Nil]

\* apply_routing and apply_overrides: the table, then the labels.
Routed(label, fails) ==
    LET routed == Overridden(Workflow, Reloaded(fails).entry)
    IN  IF routed = Nil THEN Nil ELSE Overridden(routed, label)

\* A write of the file gives it a new mtime.
Write(entry) ==
    /\ edits < MaxEdits /\ edits' = edits + 1
    /\ file' = [mtime |-> edits + 1, entry |-> entry]

\* set: the new values are merged into the entry of the stage.
ApiSet(e, fails) ==
    LET old == Reloaded(fails).entry IN
    /\ api = "idle" /\ edits < MaxEdits /\ MayFail(fails)
    /\ e.engine \in Engine \cup {Nil}
    /\ cache' = [mtime |-> Reloaded(fails).mtime,
                 entry |-> [engine |-> IF e.engine = Nil THEN old.engine ELSE e.engine,
                            model |-> IF e.model = Nil THEN old.model ELSE e.model]]
    /\ api' = "replace" /\ blind' = Blinded(fails)
    /\ UNCHANGED <<project, ws, run, file, edits, changes, crashes>>

\* clear: nothing is written if there is no entry.
ApiClear(fails) ==
    /\ api = "idle" /\ edits < MaxEdits /\ MayFail(fails)
    /\ cache' = [Reloaded(fails) EXCEPT !.entry = Empty]
    /\ api' = IF Reloaded(fails).entry = Empty THEN "idle" ELSE "replace"
    /\ blind' = Blinded(fails)
    /\ UNCHANGED <<project, ws, run, file, edits, changes, crashes>>

\* all, for a GET and in the answer to a PUT.
ApiRead(fails) ==
    /\ api = "idle" /\ MayFail(fails)
    /\ cache' = Reloaded(fails) /\ blind' = Blinded(fails)
    /\ UNCHANGED <<project, ws, run, file, api, edits, changes, crashes>>

\* _save: the file is replaced, and its mtime looked up then.
ApiReplace ==
    /\ api = "replace" /\ Write(cache.entry)
    /\ api' = "stat"
    /\ UNCHANGED <<project, ws, run, cache, blind, changes, crashes>>

ApiStat ==
    /\ api = "stat"
    /\ cache' = [cache EXCEPT !.mtime = IF file = Nil THEN @ ELSE file.mtime]
    /\ api' = "idle"
    /\ blind' = (file # Nil /\ cache.entry # EntryOnFile)
    /\ UNCHANGED <<project, ws, run, file, edits, changes, crashes>>

\* The file cannot be written: the cache has the new entry all the same.
ApiFails ==
    /\ api = "replace" /\ "disk" \in Faults
    /\ api' = "idle" /\ blind' = TRUE
    /\ UNCHANGED <<project, ws, run, file, cache, edits, changes, crashes>>

\* An edit by hand, which may leave the file unreadable.
HandEdit(entry) ==
    /\ api = "replace" => edits + 1 < MaxEdits  \* what the API has begun it can end
    /\ Write(entry)
    /\ UNCHANGED <<project, ws, run, cache, api, blind, changes, crashes>>

HandDelete ==
    /\ file # Nil /\ file' = Nil
    /\ UNCHANGED <<project, ws, run, cache, api, blind, edits, changes, crashes>>

-----------------------------------------------------------------------------
(***************************************************************************)
(* dispatch_ticket.                                                        *)
(***************************************************************************)

\* Up to the first await.  A ticket whose workflow is not there, whose filters
\* refuse it, or whose engine nobody knows changes nothing but the cache.
Begin(label, fails) ==
    LET chosen == Routed(label, fails) IN
    /\ At("idle") /\ LoopFree /\ MayFail(fails)
    /\ cache' = Reloaded(fails) /\ blind' = Blinded(fails)
    /\ IF chosen = Nil THEN UNCHANGED <<run, ws>>
       ELSE /\ run' = [NoRun EXCEPT !.pc = "project",
                                    !.engine = chosen.engine, !.model = chosen.model]
            /\ ws' = IF ws = Nil THEN EmptyDir ELSE ws
    /\ UNCHANGED <<project, file, api, edits, changes, crashes>>

\* parse_repo_from_description: a line that names no repository counts as none.
Bound(described) == described.repo # Nil

\* parse_pat_name_from_description, resolve_pat.
HasToken(described) == described.pat \in Registry

\* The project is read.  If it cannot be, it is taken for one with no repo:.  A
\* repo: without a pat: of the registry is refused.
ReadProject(read) ==
    /\ At("project") /\ LoopFree
    /\ read \/ "kaneo" \in Faults
    /\ IF ~read \/ ~Bound(project)
       THEN run' = [run EXCEPT !.pc = "init", !.project = IF read THEN project ELSE Nil]
       ELSE IF HasToken(project)
       THEN run' = [run EXCEPT !.pc = "remote", !.project = project]
       ELSE Ends
    /\ UNCHANGED <<project, ws, route, changes, crashes>>

\* _prepare_workspace of a project with no repo:.  What is there stays.
GitInit ==
    /\ At("init") /\ LoopFree
    /\ ws' = IF HasGit THEN ws ELSE [ws EXCEPT !.git = "init"]
    /\ Goes("start")
    /\ UNCHANGED <<project, route, changes, crashes>>

\* Faulty: any clone will do.
SameRemoteAlways == TRUE
SameRemote == ws.repo = run.project.repo

\* The remote of what is there is compared with the project's.  Without a
\* remote git config fails, and so does the dispatch.
CompareRemote ==
    /\ At("remote") /\ LoopFree /\ ws.git # "init"
    /\ IF HasGit /\ ~SameRemote
       THEN Goes("clone") /\ ws' = EmptyDir
       ELSE Goes(IF HasGit THEN "fetch" ELSE "clone") /\ UNCHANGED ws
    /\ UNCHANGED <<project, route, changes, crashes>>

NoRemote ==
    /\ At("remote") /\ LoopFree /\ ws.git = "init"
    /\ Ends
    /\ UNCHANGED <<project, ws, route, changes, crashes>>

\* git clone, into an empty directory only.  One that fails removes what it made.
GitClone ==
    /\ At("clone") /\ LoopFree /\ ~Littered
    /\ ws' = Clone(run.project.repo)
    /\ Goes("start")
    /\ UNCHANGED <<project, route, changes, crashes>>

GitFetch ==
    /\ At("fetch") /\ LoopFree
    /\ Goes("checkout")
    /\ UNCHANGED <<project, ws, route, changes, crashes>>

\* The default branch is looked up and checked out, on top of what is changed.
GitCheckout ==
    /\ At("checkout") /\ LoopFree /\ ws.git = "clone"
    /\ ws' = [ws EXCEPT !.branch = "default"]
    /\ Goes("reset")
    /\ UNCHANGED <<project, route, changes, crashes>>

GitReset ==
    /\ At("reset") /\ LoopFree
    /\ ws' = [ws EXCEPT !.changed = FALSE]
    /\ Goes("clean")
    /\ UNCHANGED <<project, route, changes, crashes>>

\* Faulty: what git does not know stays.
GitCleanTracked ==
    /\ At("clean") /\ LoopFree
    /\ Goes("start")
    /\ UNCHANGED <<project, ws, route, changes, crashes>>

\* clean -fdx takes the ignored files as well, but no repository.
GitClean ==
    /\ At("clean") /\ LoopFree
    /\ ws' = [ws EXCEPT !.litter = IF @ = "repo" THEN @ ELSE "none"]
    /\ Goes("start")
    /\ UNCHANGED <<project, route, changes, crashes>>

\* Whether git refuses by itself: a directory that is not empty, a clone it was
\* killed in, changes that a checkout would overwrite.
GitRefuses ==
    \/ At("clone") /\ Littered
    \/ At("checkout") /\ ws.git = "broken"
    \/ At("checkout") /\ ws.branch # "default" /\ (ws.changed \/ Littered)

\* A command of git fails: the dispatch ends where it is.
GitFails ==
    /\ LoopFree
    /\ \/ GitRefuses
       \/ "git" \in Faults /\ run.pc \in {"init", "clone", "fetch", "checkout", "reset", "clean"}
    /\ Ends
    /\ UNCHANGED <<project, ws, route, changes, crashes>>

\* rmtree of another repository's clone fails halfway.
RmtreeFails(left) ==
    /\ At("remote") /\ LoopFree /\ "disk" \in Faults
    /\ HasGit /\ ws.git # "init" /\ ~SameRemote
    /\ left \in Remains /\ ws' = left
    /\ Ends
    /\ UNCHANGED <<project, route, changes, crashes>>

\* The topic is told, and the agent starts, if its engine is installed.
AgentStarts ==
    /\ At("start") /\ LoopFree
    /\ IF run.engine \in Installed THEN Goes("agent") ELSE Ends
    /\ UNCHANGED <<project, ws, route, changes, crashes>>

\* The agent is done, or is killed after its 30 minutes: on a branch of its own
\* or not, with all committed or not, with files git does not know or not.
AgentEnds(branch, changed, litter) ==
    /\ At("agent") /\ LoopFree
    /\ ws' = [ws EXCEPT !.branch = branch, !.changed = changed, !.litter = litter]
    /\ Ends
    /\ UNCHANGED <<project, route, changes, crashes>>

-----------------------------------------------------------------------------
(***************************************************************************)
(* Outside.                                                                *)
(***************************************************************************)

\* The operator edits the description of the project.
ChangeProject(repo, pat) ==
    /\ changes < MaxChanges /\ changes' = changes + 1
    /\ project' = [repo |-> repo, pat |-> pat]
    /\ UNCHANGED <<ws, run, route, crashes>>

\* PollLoop._cleanup_finished, while no task has the ticket.  Its rmtree passes
\* over what it cannot remove.
Cleanup(left) ==
    /\ At("idle") /\ ws # Nil
    /\ left # Nil => "disk" \in Faults
    /\ left \in Remains \cup {Nil} /\ ws' = left
    /\ UNCHANGED <<project, run, route, changes, crashes>>

\* What a command of git may leave that is killed with the service.
Killed ==
    IF At("clone") /\ ~Littered THEN {ws, Broken(run.project.repo), Clone(run.project.repo)}
    ELSE IF run.pc \in {"fetch", "checkout", "reset"} THEN {ws, [ws EXCEPT !.git = "broken"]}
    ELSE {ws}

Restart(left) ==
    /\ crashes < MaxCrashes /\ crashes' = crashes + 1
    /\ left \in Killed /\ ws' = left
    /\ Ends
    /\ cache' = [mtime |-> 0, entry |-> Empty] /\ api' = "idle" /\ blind' = FALSE
    /\ UNCHANGED <<project, file, edits, changes>>

Init ==
    /\ project \in Project
    /\ ws = Nil /\ run = NoRun
    /\ file = Nil /\ cache = [mtime |-> 0, entry |-> Empty]
    /\ api = "idle" /\ blind = FALSE
    /\ edits = 0 /\ changes = 0 /\ crashes = 0

TableStep ==
    \/ \E e \in Entries : HandEdit(e) \/ \E fails \in BOOLEAN : ApiSet(e, fails)
    \/ \E fails \in BOOLEAN : ApiClear(fails) \/ ApiRead(fails)
    \/ ApiReplace \/ ApiStat \/ ApiFails
    \/ HandEdit(Nil) \/ HandDelete

Prepare ==
    \/ GitInit \/ CompareRemote \/ NoRemote
    \/ GitClone \/ GitFetch \/ GitCheckout \/ GitReset \/ GitClean \/ GitFails
    \/ ws # Nil /\ \E left \in Remains : RmtreeFails(left)

DispatchStep ==
    \/ \E label \in Entries, fails \in BOOLEAN : Begin(label, fails)
    \/ \E read \in BOOLEAN : ReadProject(read)
    \/ Prepare
    \/ AgentStarts
    \/ \E branch \in {"default", "other"}, changed \in BOOLEAN, litter \in Litter : AgentEnds(branch, changed, litter)

Next ==
    \/ TableStep \/ DispatchStep
    \/ \E repo \in Repo \cup {Nil}, pat \in Pat \cup {Nil} : ChangeProject(repo, pat)
    \/ ws # Nil /\ \E left \in Remains \cup {Nil} : Cleanup(left)
    \/ \E left \in Killed : Restart(left)

Spec == Init /\ [][Next]_vars

-----------------------------------------------------------------------------
(***************************************************************************)
(* Properties.                                                             *)
(***************************************************************************)

\* Every variable holds what the code can put there; no engine without an
\* adapter gets into a run.
TypeOK ==
    /\ project \in Project
    /\ ws \in Directory \cup {Nil}
    /\ run \in [pc : {"idle", "project", "init", "remote", "clone", "fetch", "checkout", "reset",
                      "clean", "start", "agent"},
                engine : Engine \cup {Nil}, model : Models,
                project : Project \cup {Nil}]
    /\ run.pc # "idle" => ws # Nil /\ run.engine # Nil
    /\ file # Nil => file.mtime \in 1 .. edits
    /\ cache.mtime \in 0 .. edits
    /\ api \in {"idle", "replace", "stat"} /\ blind \in BOOLEAN
    /\ edits \in 0 .. MaxEdits /\ changes \in 0 .. MaxChanges /\ crashes \in 0 .. MaxCrashes

\* An agent that starts for a project bound to a repository, as it was read,
\* has that repository, its default branch, and nothing of an earlier run in
\* its workspace, and a token of the registry, whatever agents, failures of git
\* and restarts came before.  The one exception: a repository that an earlier
\* agent made inside the workspace.
StartsAsBound ==
    [][At("start") /\ run'.pc = "agent" /\ run.project # Nil /\ run.project.repo # Nil =>
          /\ ws.git = "clone" /\ ws.repo = run.project.repo
          /\ ws.branch = "default" /\ ~ws.changed /\ ws.litter # "files"
          /\ run.project.pat \in Registry]_vars

\* A run is given the engine of the labels, else of the routing file as it is
\* when the run begins, else of the workflow; and the table's or the workflow's
\* model only with the engine it was written for.  The exceptions: the file was
\* edited by hand between a write of the API and its look at the mtime; or that
\* write failed; or the file could not be read when its mtime was new, and was
\* not edited since.
EngineAsRouted ==
    [][\A label \in Entries, fails \in BOOLEAN :
        Begin(label, fails) /\ run'.pc = "project" /\ ~blind' =>
          LET table == IF EntryOnFile.engine # Nil THEN EntryOnFile.engine ELSE Workflow.engine
          IN  /\ run'.engine = IF label.engine # Nil THEN label.engine ELSE table
              /\ \/ run'.model \in {Nil, label.model}
                 \/ run'.engine = table /\ run'.model = EntryOnFile.model
                 \/ run'.engine = table /\ table = Workflow.engine /\ run'.model = Workflow.model]_vars
=============================================================================
