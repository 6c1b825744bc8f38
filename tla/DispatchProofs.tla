--------------------------- MODULE DispatchProofs ---------------------------
(***************************************************************************)
(* Proofs about Dispatch: TypeOK, StartsAsBound and EngineAsRouted hold    *)
(* for any repositories, tokens, engines, entries, faults and bounds.      *)
(***************************************************************************)
EXTENDS Dispatch, TLAPS

\* The routing table: what the cache has read is what is on file, unless blind.
RouteInv ==
    /\ edits \in Nat /\ edits <= MaxEdits
    /\ file \in [mtime : 1 .. edits, entry : Choice \cup {Nil}] \cup {Nil}
    /\ cache \in [mtime : 0 .. edits, entry : Choice]
    /\ api \in {"idle", "replace", "stat"} /\ blind \in BOOLEAN
    /\ api = "idle" /\ ~blind /\ file # Nil /\ file.mtime = cache.mtime =>
           cache.entry = EntryOnFile

\* The types of the run and of what it works on.
RunType ==
    /\ project \in Project
    /\ ws \in Directory \cup {Nil}
    /\ run \in [pc : {"idle", "project", "init", "remote", "clone", "fetch", "checkout", "reset",
                      "clean", "start", "agent"},
                engine : Engine \cup {Nil}, model : Models, project : Project \cup {Nil}]
    /\ run.pc # "idle" => ws \in Directory /\ run.engine \in Engine

\* A run that prepares a bound workspace has its token.
Admitted ==
    run.pc \in {"remote", "clone", "fetch", "checkout", "reset", "clean"} =>
        run.project \in Project /\ Bound(run.project) /\ HasToken(run.project)

\* What each command of git has brought the workspace to.
Prepared ==
    /\ run.pc = "init" => run.project = Nil \/ ~Bound(run.project)
    /\ run.pc \in {"fetch", "checkout", "reset", "clean"} => ws.repo = run.project.repo
    /\ run.pc \in {"reset", "clean"} => ws.git = "clone" /\ ws.branch = "default"
    /\ run.pc = "clean" => ~ws.changed
    /\ run.pc = "start" /\ run.project # Nil /\ Bound(run.project) =>
           /\ ws.git = "clone" /\ ws.repo = run.project.repo
           /\ ws.branch = "default" /\ ~ws.changed /\ ws.litter # "files"
           /\ HasToken(run.project)

RunInv == RunType /\ Admitted /\ Prepared
IInv == RouteInv /\ RunInv /\ changes \in 0 .. MaxChanges /\ crashes \in 0 .. MaxCrashes

-----------------------------------------------------------------------------
(***************************************************************************)
(* The routing table.                                                      *)
(***************************************************************************)

\* The entries of the table are choices; so is what is on file.
LEMMA EntriesAreChoices ==
    /\ Entries \subseteq Choice /\ Empty \in Choice
    /\ \A e \in Choice : e.model \in Models
<1>1. ASSUME NEW e \in Entries PROVE e \in Choice
  <2> DEFINE F(en, mo) == [engine |-> en, model |-> mo]
  <2>1. e.engine \in {x.engine : x \in Entries} \cup Engine \cup {Nil}
    OBVIOUS
  <2>2. e.model \in Models
    BY DEF Models
  <2>3. e = [engine |-> e.engine, model |-> e.model]
    BY DispatchAssumption
  <2>4. [engine |-> e.engine, model |-> e.model] \in Choice
    <3> HIDE DEF Models
    <3> QED BY <2>1, <2>2 DEF Choice
  <2> QED BY <2>3, <2>4
<1>2. Empty \in Entries
  BY DispatchAssumption
<1>3. \A e \in Choice : e.model \in Models
  BY DEF Choice
<1> QED BY <1>1, <1>2, <1>3

\* The entry on file is a choice.
LEMMA OnFileIsChoice == ASSUME RouteInv PROVE EntryOnFile \in Choice
BY EntriesAreChoices DEF RouteInv, EntryOnFile, Readable

\* _reload leaves a cache that agrees with the file, unless it is blind.
LEMMA ReloadedAgrees ==
    ASSUME RouteInv, api = "idle", NEW fails \in BOOLEAN
    PROVE  /\ Reloaded(fails) \in [mtime : 0 .. edits, entry : Choice]
           /\ ~Blinded(fails) => Reloaded(fails).entry = EntryOnFile
           /\ Blinded(fails) \in BOOLEAN
BY OnFileIsChoice, EntriesAreChoices DEF RouteInv, Reloaded, Blinded, Current, EntryOnFile, Readable

\* An override of an engine there is gives one, or is refused.
LEMMA OverriddenIsChoice ==
    ASSUME NEW base, base.engine \in Engine, base.model \in Models, NEW over \in Choice
    PROVE  \/ Overridden(base, over) = Nil
           \/ /\ Overridden(base, over) # Nil
              /\ Overridden(base, over).engine \in Engine
              /\ Overridden(base, over).model \in Models
<1>1. CASE over.engine \in Engine \cup {Nil}
  <2> DEFINE en == IF over.engine = Nil THEN base.engine ELSE over.engine
             mo == IF over.model # Nil THEN over.model
                   ELSE IF over.engine \in {Nil, base.engine} THEN base.model ELSE Nil
  <2>1. Overridden(base, over) = [engine |-> en, model |-> mo]
    BY <1>1 DEF Overridden
  <2>2. en \in Engine
    BY <1>1
  <2>3. over.model \in Models /\ Nil \in Models
    BY EntriesAreChoices DEF Models
  <2>4. mo \in Models
    BY <2>3
  <2>5. [engine |-> en, model |-> mo] \in Choice
    BY <2>2, <2>4 DEF Choice
  <2> QED BY <2>1, <2>2, <2>4, <2>5, DispatchAssumption
<1>2. CASE over.engine \notin Engine \cup {Nil}
  BY <1>2 DEF Overridden
<1> QED BY <1>1, <1>2

\* So do the table and the labels.
LEMMA RoutedIsChoice ==
    ASSUME RouteInv, api = "idle", NEW label \in Entries, NEW fails \in BOOLEAN
    PROVE  \/ Routed(label, fails) = Nil
           \/ /\ Routed(label, fails) # Nil
              /\ Routed(label, fails).engine \in Engine
              /\ Routed(label, fails).model \in Models
<1> DEFINE routed == Overridden(Workflow, Reloaded(fails).entry)
<1>1. Reloaded(fails).entry \in Choice /\ label \in Choice
  BY ReloadedAgrees, EntriesAreChoices
<1>2. Workflow.engine \in Engine /\ Workflow.model \in Models
  BY DispatchAssumption DEF Models
<1>3. routed = Nil \/ (routed.engine \in Engine /\ routed.model \in Models)
  BY <1>1, <1>2, OverriddenIsChoice
<1>4. Routed(label, fails) = IF routed = Nil THEN Nil ELSE Overridden(routed, label)
  BY DEF Routed
<1> HIDE DEF routed
<1>5. CASE routed = Nil
  BY <1>4, <1>5
<1>6. CASE routed # Nil
  BY <1>1, <1>3, <1>4, <1>6, OverriddenIsChoice
<1> QED BY <1>5, <1>6
-----------------------------------------------------------------------------
\* The steps that leave the table alone.
RunOnly == UNCHANGED route

\* A step is one of the table, begins a run, restarts, or leaves the table alone.
LEMMA NextSplits ==
    ASSUME Next
    PROVE  \/ TableStep
           \/ \E label \in Entries, fails \in BOOLEAN : Begin(label, fails)
           \/ RunOnly
           \/ \E left \in Killed : Restart(left)
BY DEF Next, DispatchStep, Prepare, RunOnly, ReadProject, GitInit, CompareRemote, NoRemote, GitClone,
       GitFetch, GitCheckout, GitReset, GitClean, GitFails, RmtreeFails, AgentStarts, AgentEnds,
       ChangeProject, Cleanup

\* An edit of the file, by the API or by hand, gives it an mtime that the cache
\* has not.
LEMMA WriteStep ==
    ASSUME RouteInv, NEW entry \in Choice \cup {Nil}, Write(entry)
    PROVE  /\ edits' \in Nat /\ edits' <= MaxEdits /\ edits' = edits + 1
           /\ file' \in [mtime : 1 .. edits', entry : Choice \cup {Nil}]
           /\ file'.mtime # cache.mtime
           /\ cache \in [mtime : 0 .. edits', entry : Choice]
BY DispatchAssumption DEF RouteInv, Write

\* No edit, call of the API or deletion of the file leaves the cache with what is
\* not on file, unless blind.
LEMMA TableStepKeepsRoute == ASSUME RouteInv, TableStep PROVE RouteInv'
<1>1. ASSUME NEW e \in Entries, NEW fails \in BOOLEAN, ApiSet(e, fails) PROVE RouteInv'
  <2>1. Reloaded(fails) \in [mtime : 0 .. edits, entry : Choice] /\ Blinded(fails) \in BOOLEAN
    BY <1>1, ReloadedAgrees DEF ApiSet
  <2>2. e \in Choice
    BY EntriesAreChoices
  <2>3. cache' \in [mtime : 0 .. edits, entry : Choice]
    BY <1>1, <2>1, <2>2 DEF ApiSet, Choice
  <2> QED BY <1>1, <2>1, <2>3 DEF ApiSet, RouteInv
<1>2. ASSUME NEW fails \in BOOLEAN, ApiClear(fails) PROVE RouteInv'
  <2>1. Reloaded(fails) \in [mtime : 0 .. edits, entry : Choice] /\ Blinded(fails) \in BOOLEAN
        /\ (~Blinded(fails) => Reloaded(fails).entry = EntryOnFile)
    BY <1>2, ReloadedAgrees DEF ApiClear
  <2>2. cache' = [Reloaded(fails) EXCEPT !.entry = Empty] /\ cache' \in [mtime : 0 .. edits, entry : Choice]
    BY <1>2, <2>1, EntriesAreChoices DEF ApiClear
  <2>3. EntryOnFile' = EntryOnFile
    BY <1>2 DEF ApiClear, EntryOnFile, Readable
  <2>4. api' = "idle" => Reloaded(fails).entry = Empty
    BY <1>2 DEF ApiClear
  <2>5. api' \in {"idle", "replace"} /\ blind' = Blinded(fails) /\ UNCHANGED <<file, edits>>
    BY <1>2 DEF ApiClear
  <2> QED BY <2>1, <2>2, <2>3, <2>4, <2>5 DEF RouteInv
<1>3. ASSUME NEW fails \in BOOLEAN, ApiRead(fails) PROVE RouteInv'
  <2>1. Reloaded(fails) \in [mtime : 0 .. edits, entry : Choice] /\ Blinded(fails) \in BOOLEAN
        /\ (~Blinded(fails) => Reloaded(fails).entry = EntryOnFile)
    BY <1>3, ReloadedAgrees DEF ApiRead
  <2>2. EntryOnFile' = EntryOnFile
    BY <1>3 DEF ApiRead, EntryOnFile, Readable
  <2> QED BY <1>3, <2>1, <2>2 DEF RouteInv, ApiRead
<1>4. CASE ApiReplace
  <2>1. cache.entry \in Choice
    BY DEF RouteInv
  <2> QED BY <1>4, <2>1, WriteStep DEF RouteInv, ApiReplace
<1>5. CASE ApiStat
  <2>1. cache' \in [mtime : 0 .. edits, entry : Choice] /\ cache'.entry = cache.entry
    BY <1>5 DEF RouteInv, ApiStat
  <2>2. EntryOnFile' = EntryOnFile
    BY <1>5 DEF ApiStat, EntryOnFile, Readable
  <2> QED BY <1>5, <2>1, <2>2 DEF RouteInv, ApiStat
<1>6. CASE ApiFails
  BY <1>6 DEF RouteInv, ApiFails
<1>7. ASSUME NEW entry \in Entries \cup {Nil}, HandEdit(entry) PROVE RouteInv'
  <2>1. entry \in Choice \cup {Nil}
    BY EntriesAreChoices
  <2> QED BY <1>7, <2>1, WriteStep DEF RouteInv, HandEdit
<1>8. CASE HandDelete
  BY <1>8 DEF RouteInv, HandDelete
<1> QED BY <1>1, <1>2, <1>3, <1>4, <1>5, <1>6, <1>7, <1>8 DEF TableStep

\* The cache agrees with the file after every step.
LEMMA RouteStep == ASSUME RouteInv, [Next]_vars PROVE RouteInv'
<1>1. CASE TableStep
  BY <1>1, TableStepKeepsRoute
<1>2. ASSUME NEW label \in Entries, NEW fails \in BOOLEAN, Begin(label, fails) PROVE RouteInv'
  <2>1. Reloaded(fails) \in [mtime : 0 .. edits, entry : Choice] /\ Blinded(fails) \in BOOLEAN
        /\ (~Blinded(fails) => Reloaded(fails).entry = EntryOnFile)
    BY <1>2, ReloadedAgrees DEF Begin, LoopFree
  <2>2. cache' = Reloaded(fails) /\ blind' = Blinded(fails) /\ UNCHANGED <<file, api, edits>>
    BY <1>2 DEF Begin
  <2>3. EntryOnFile' = EntryOnFile
    BY <2>2 DEF EntryOnFile, Readable
  <2> QED BY <2>1, <2>2, <2>3 DEF RouteInv
<1>3. CASE RunOnly \/ UNCHANGED vars
  BY <1>3 DEF RouteInv, RunOnly, route, vars, EntryOnFile, Readable
<1>4. ASSUME NEW left, Restart(left) PROVE RouteInv'
  <2>1. file # Nil => file.mtime # 0
    BY DEF RouteInv
  <2>2. [mtime |-> 0, entry |-> Empty] \in [mtime : 0 .. edits, entry : Choice]
    BY EntriesAreChoices DEF RouteInv
  <2>3. cache' = [mtime |-> 0, entry |-> Empty] /\ api' = "idle" /\ blind' = FALSE
        /\ UNCHANGED <<file, edits>>
    BY <1>4 DEF Restart
  <2> QED BY <2>1, <2>2, <2>3 DEF RouteInv
<1> QED BY <1>1, <1>2, <1>3, <1>4, NextSplits

-----------------------------------------------------------------------------
(***************************************************************************)
(* The run and its workspace.                                              *)
(***************************************************************************)

\* A run that ends, whatever the workspace is left like, keeps the invariant.
LEMMA EndsKeeps ==
    ASSUME RunInv, Ends, project' \in Project, ws' \in Directory \cup {Nil}
    PROVE  RunInv'
<1>1. run' = [pc |-> "idle", engine |-> Nil, model |-> Nil, project |-> Nil]
  BY DEF Ends, NoRun
<1>2. Nil \in Models
  BY DEF Models
<1> QED BY <1>1, <1>2 DEF RunInv, RunType, Admitted, Prepared

\* The directories the steps make are directories.
LEMMA DirectoriesAre ==
    /\ EmptyDir \in Directory
    /\ \A r \in Repo : Clone(r) \in Directory /\ Broken(r) \in Directory
    /\ \A r \in Repo : Clone(r).git = "clone" /\ Clone(r).repo = r
    /\ EmptyDir.git = "none"
BY DEF Directory, EmptyDir, Clone, Broken, Git, Litter

\* What rmtree leaves is a directory.
LEMMA RemainsAre == ASSUME ws \in Directory PROVE Remains \subseteq Directory
BY DEF Remains, Directory, EmptyDir, Git, Litter

\* What a killed command leaves is a directory, or none.
LEMMA KilledAre ==
    ASSUME RunInv PROVE Killed \subseteq Directory \cup {Nil}
<1>1. CASE At("clone") /\ ~Littered
  <2>1. run.project.repo \in Repo /\ ws \in Directory
    BY <1>1 DEF RunInv, RunType, Admitted, At, Bound, Project
  <2> QED BY <1>1, <2>1, DirectoriesAre DEF Killed
<1>2. CASE ~(At("clone") /\ ~Littered) /\ run.pc \in {"fetch", "checkout", "reset"}
  <2>1. ws \in Directory
    BY <1>2 DEF RunInv, RunType
  <2>2. [ws EXCEPT !.git = "broken"] \in Directory
    BY <2>1 DEF Directory, Git
  <2> QED BY <1>2, <2>1, <2>2 DEF Killed
<1>3. CASE ~(At("clone") /\ ~Littered) /\ run.pc \notin {"fetch", "checkout", "reset"}
  BY <1>3 DEF Killed, RunInv, RunType
<1> QED BY <1>1, <1>2, <1>3

\* A run begins with an engine there is, in a directory.
LEMMA BeginStep ==
    ASSUME RouteInv, RunInv, NEW label \in Entries, NEW fails \in BOOLEAN, Begin(label, fails)
    PROVE  RunInv'
<1>1. api = "idle" /\ UNCHANGED project /\ run.pc = "idle"
  BY DEF Begin, LoopFree, At
<1>2. CASE Routed(label, fails) = Nil
  BY <1>1, <1>2 DEF Begin, RunInv, RunType, Admitted, Prepared
<1>3. CASE Routed(label, fails) # Nil
  <2>1. Routed(label, fails).engine \in Engine /\ Routed(label, fails).model \in Models
    BY <1>1, <1>3, RoutedIsChoice
  <2>2. run' = [pc |-> "project", engine |-> Routed(label, fails).engine,
                model |-> Routed(label, fails).model, project |-> Nil]
        /\ ws' = IF ws = Nil THEN EmptyDir ELSE ws
    BY <1>3 DEF Begin, NoRun
  <2> QED BY <1>1, <2>1, <2>2, DirectoriesAre DEF RunInv, RunType, Admitted, Prepared
<1> QED BY <1>2, <1>3

\* Only a project with a token gets into a bound workspace.
LEMMA ReadProjectStep ==
    ASSUME RunInv, NEW read \in BOOLEAN, ReadProject(read)
    PROVE  RunInv'
<1>1. run.pc = "project" /\ UNCHANGED <<project, ws>> /\ project \in Project /\ ws \in Directory
  BY DEF ReadProject, At, RunInv, RunType
<1>2. CASE ~read \/ ~Bound(project)
  <2>1. \E p \in {project, Nil} : (p = Nil \/ ~Bound(p)) /\
            run' = [run EXCEPT !.pc = "init", !.project = p]
    BY <1>2 DEF ReadProject
  <2>2. PICK p \in {project, Nil} : (p = Nil \/ ~Bound(p)) /\
            run' = [run EXCEPT !.pc = "init", !.project = p]
    BY <2>1
  <2>3. run'.pc = "init" /\ run'.project = p /\ run'.engine = run.engine
        /\ run' \in [pc : {"idle", "project", "init", "remote", "clone", "fetch", "checkout", "reset",
                           "clean", "start", "agent"},
                     engine : Engine \cup {Nil}, model : Models, project : Project \cup {Nil}]
    BY <1>1, <2>2 DEF RunInv, RunType
  <2>4. run'.project = Nil \/ ~Bound(run'.project)
    BY <2>2, <2>3
  <2> QED BY <1>1, <2>3, <2>4 DEF RunInv, RunType, Admitted, Prepared, Bound
<1>3. CASE read /\ Bound(project) /\ HasToken(project)
  <2>1. run' = [run EXCEPT !.pc = "remote", !.project = project]
    BY <1>3 DEF ReadProject
  <2> QED BY <1>1, <1>3, <2>1 DEF RunInv, RunType, Admitted, Prepared, Bound, HasToken
<1>4. CASE read /\ Bound(project) /\ ~HasToken(project)
  <2>1. Ends
    BY <1>4 DEF ReadProject
  <2> QED BY <1>1, <2>1, EndsKeeps
<1> QED BY <1>2, <1>3, <1>4

\* Each command of git takes the workspace one step nearer to a fresh clone.
LEMMA PrepareStep == ASSUME RunInv, Prepare PROVE RunInv'
<1>1. CASE GitInit
  <2>1. run.pc = "init" /\ run' = [run EXCEPT !.pc = "start"] /\ UNCHANGED project
        /\ ws \in Directory /\ ws' = IF HasGit THEN ws ELSE [ws EXCEPT !.git = "init"]
    BY <1>1 DEF GitInit, At, Goes, RunInv, RunType
  <2>2. ws' \in Directory
    BY <2>1 DEF Directory, Git
  <2> QED BY <2>1, <2>2 DEF RunInv, RunType, Admitted, Prepared
<1>2. CASE CompareRemote
  <2>1. run.pc = "remote" /\ UNCHANGED project /\ ws \in Directory
    BY <1>2 DEF CompareRemote, At, RunInv, RunType
  <2>2. CASE HasGit /\ SameRemote
    <3>1. run' = [run EXCEPT !.pc = "fetch"] /\ UNCHANGED ws /\ ws.repo = run.project.repo
      BY <1>2, <2>2 DEF CompareRemote, Goes, SameRemote
    <3> QED BY <2>1, <3>1 DEF RunInv, RunType, Admitted, Prepared, Bound, HasToken
  <2>3. CASE ~(HasGit /\ SameRemote)
    <3>1. run' = [run EXCEPT !.pc = "clone"] /\ ws' \in {ws, EmptyDir}
      BY <1>2, <2>3 DEF CompareRemote, Goes
    <3> QED BY <2>1, <3>1, DirectoriesAre DEF RunInv, RunType, Admitted, Prepared, Bound, HasToken
  <2> QED BY <2>2, <2>3
<1>3. CASE NoRemote \/ GitFails
  <2>1. Ends /\ UNCHANGED <<project, ws>>
    BY <1>3 DEF NoRemote, GitFails
  <2> QED BY <2>1, EndsKeeps DEF RunInv, RunType
<1>4. CASE GitClone
  <2>1. run.pc = "clone" /\ run' = [run EXCEPT !.pc = "start"] /\ UNCHANGED project
        /\ ws' = Clone(run.project.repo)
    BY <1>4 DEF GitClone, At, Goes
  <2>2. run.project \in Project /\ run.project.repo \in Repo /\ HasToken(run.project)
    BY <2>1 DEF RunInv, Admitted, Bound, Project
  <2>3. ws'.git = "clone" /\ ws'.repo = run.project.repo /\ ws'.branch = "default"
        /\ ~ws'.changed /\ ws'.litter # "files"
    BY <2>1 DEF Clone, EmptyDir
  <2> QED BY <2>1, <2>2, <2>3, DirectoriesAre DEF RunInv, RunType, Admitted, Prepared, HasToken, Bound
<1>5. CASE GitFetch
  <2>1. run.pc = "fetch" /\ run' = [run EXCEPT !.pc = "checkout"] /\ UNCHANGED <<project, ws>>
    BY <1>5 DEF GitFetch, At, Goes
  <2> QED BY <2>1 DEF RunInv, RunType, Admitted, Prepared, HasToken, Bound
<1>6. CASE GitCheckout
  <2>1. run.pc = "checkout" /\ run' = [run EXCEPT !.pc = "reset"] /\ UNCHANGED project
        /\ ws.git = "clone" /\ ws' = [ws EXCEPT !.branch = "default"]
    BY <1>6 DEF GitCheckout, At, Goes
  <2>2. ws' \in Directory /\ ws'.git = "clone" /\ ws'.repo = ws.repo /\ ws'.branch = "default"
    BY <2>1 DEF Directory, RunInv, RunType
  <2> QED BY <2>1, <2>2 DEF RunInv, RunType, Admitted, Prepared, HasToken, Bound
<1>7. CASE GitReset
  <2>1. run.pc = "reset" /\ run' = [run EXCEPT !.pc = "clean"] /\ UNCHANGED project
        /\ ws' = [ws EXCEPT !.changed = FALSE]
    BY <1>7 DEF GitReset, At, Goes
  <2>2. ws' \in Directory /\ ws'.git = ws.git /\ ws'.repo = ws.repo /\ ws'.branch = ws.branch
        /\ ~ws'.changed
    BY <2>1 DEF Directory, RunInv, RunType
  <2> QED BY <2>1, <2>2 DEF RunInv, RunType, Admitted, Prepared, HasToken, Bound
<1>8. CASE GitClean
  <2> DEFINE kept == IF ws.litter = "repo" THEN ws.litter ELSE "none"
  <2>1. run.pc = "clean" /\ run' = [run EXCEPT !.pc = "start"] /\ UNCHANGED project
        /\ ws' = [ws EXCEPT !.litter = kept] /\ ws \in Directory
    BY <1>8 DEF GitClean, At, Goes, RunInv, RunType
  <2>2. ws.git = "clone" /\ ws.repo = run.project.repo /\ ws.branch = "default" /\ ws.changed = FALSE
    BY <2>1 DEF RunInv, Prepared, Directory
  <2>3. kept \in Litter /\ kept # "files"
    BY DEF Litter
  <2>4. ws' \in Directory
    BY <2>1, <2>3 DEF Directory
  <2>5. ws'.git = "clone" /\ ws'.repo = run.project.repo /\ ws'.branch = "default"
        /\ ~ws'.changed /\ ws'.litter # "files"
    BY <2>1, <2>2, <2>3 DEF Directory
  <2>6. run.project \in Project /\ HasToken(run.project)
    BY <2>1 DEF RunInv, Admitted
  <2> QED BY <2>1, <2>4, <2>5, <2>6 DEF RunInv, RunType, Admitted, Prepared, HasToken, Bound
<1>9. ASSUME NEW left \in Remains, RmtreeFails(left) PROVE RunInv'
  <2>1. Ends /\ ws' = left /\ UNCHANGED project /\ ws \in Directory
    BY <1>9 DEF RmtreeFails, At, RunInv, RunType
  <2> QED BY <2>1, RemainsAre, EndsKeeps DEF RunInv, RunType
<1> QED BY <1>1, <1>2, <1>3, <1>4, <1>5, <1>6, <1>7, <1>8, <1>9 DEF Prepare

\* The invariant of the run holds after every step.
LEMMA RunStep == ASSUME RouteInv, RunInv, [Next]_vars PROVE RunInv'
<1>1. CASE TableStep
  <2>1. UNCHANGED <<project, ws, run>>
    BY <1>1 DEF TableStep, ApiSet, ApiClear, ApiRead, ApiReplace, ApiStat, ApiFails, HandEdit, HandDelete
  <2> QED BY <2>1 DEF RunInv, RunType, Admitted, Prepared
<1>2. CASE \E label \in Entries, fails \in BOOLEAN : Begin(label, fails)
  BY <1>2, BeginStep
<1>3. CASE \E read \in BOOLEAN : ReadProject(read)
  BY <1>3, ReadProjectStep
<1>4. CASE Prepare
  BY <1>4, PrepareStep
<1>5. CASE AgentStarts
  <2>1. run.pc = "start" /\ UNCHANGED <<project, ws>> /\ (Ends \/ run' = [run EXCEPT !.pc = "agent"])
    BY <1>5 DEF AgentStarts, At, Goes
  <2>2. CASE Ends
    BY <2>1, <2>2, EndsKeeps DEF RunInv, RunType
  <2>3. CASE run' = [run EXCEPT !.pc = "agent"]
    BY <2>1, <2>3 DEF RunInv, RunType, Admitted, Prepared
  <2> QED BY <2>1, <2>2, <2>3
<1>6. ASSUME NEW branch \in {"default", "other"}, NEW changed \in BOOLEAN, NEW litter \in Litter,
             AgentEnds(branch, changed, litter)
      PROVE  RunInv'
  <2>1. Ends /\ UNCHANGED project /\ ws \in Directory
        /\ ws' = [ws EXCEPT !.branch = branch, !.changed = changed, !.litter = litter]
    BY <1>6 DEF AgentEnds, At, RunInv, RunType
  <2>2. ws' \in Directory
    BY <1>6, <2>1 DEF Directory
  <2> QED BY <2>1, <2>2, EndsKeeps DEF RunInv, RunType
<1>7. ASSUME NEW repo \in Repo \cup {Nil}, NEW pat \in Pat \cup {Nil}, ChangeProject(repo, pat)
      PROVE  RunInv'
  BY <1>7 DEF ChangeProject, Project, RunInv, RunType, Admitted, Prepared, Bound, HasToken
<1>8. ASSUME NEW left \in Remains \cup {Nil}, Cleanup(left), ws # Nil PROVE RunInv'
  <2>1. UNCHANGED <<project, run>> /\ run.pc = "idle" /\ ws' = left /\ left \in Directory \cup {Nil}
    BY <1>8, RemainsAre DEF Cleanup, At, RunInv, RunType
  <2> QED BY <2>1 DEF RunInv, RunType, Admitted, Prepared
<1>9. ASSUME NEW left \in Killed, Restart(left) PROVE RunInv'
  <2>1. Ends /\ UNCHANGED project /\ ws' = left
    BY <1>9 DEF Restart
  <2> QED BY <2>1, KilledAre, EndsKeeps DEF RunInv, RunType
<1>10. CASE UNCHANGED vars
  BY <1>10 DEF vars, RunInv, RunType, Admitted, Prepared
<1> QED BY <1>1, <1>2, <1>3, <1>4, <1>5, <1>6, <1>7, <1>8, <1>9, <1>10 DEF Next, DispatchStep

-----------------------------------------------------------------------------
(***************************************************************************)
(* The theorems.                                                           *)
(***************************************************************************)

\* The invariant holds at first.
LEMMA InitHolds == Init => IInv
<1> SUFFICES ASSUME Init PROVE IInv
  OBVIOUS
<1>1. RouteInv
  <2>1. [mtime |-> 0, entry |-> Empty] \in [mtime : 0 .. 0, entry : Choice]
    BY EntriesAreChoices
  <2>2. file = Nil /\ cache = [mtime |-> 0, entry |-> Empty] /\ api = "idle" /\ blind = FALSE
        /\ edits = 0
    BY DEF Init
  <2>3. edits \in Nat /\ edits <= MaxEdits
    BY <2>2, DispatchAssumption
  <2>4. cache \in [mtime : 0 .. edits, entry : Choice]
    BY <2>1, <2>2
  <2> QED BY <2>2, <2>3, <2>4 DEF RouteInv
<1>2. RunInv
  <2>1. run = [pc |-> "idle", engine |-> Nil, model |-> Nil, project |-> Nil] /\ Nil \in Models
    BY DEF Init, NoRun, Models
  <2> QED BY <2>1 DEF Init, RunInv, RunType, Admitted, Prepared
<1> QED BY <1>1, <1>2, DispatchAssumption DEF Init, IInv

\* The bounds are kept.
LEMMA BoundsStep ==
    ASSUME changes \in 0 .. MaxChanges, crashes \in 0 .. MaxCrashes, [Next]_vars
    PROVE  changes' \in 0 .. MaxChanges /\ crashes' \in 0 .. MaxCrashes
<1>1. \/ UNCHANGED <<changes, crashes>>
      \/ changes < MaxChanges /\ changes' = changes + 1 /\ UNCHANGED crashes
      \/ crashes < MaxCrashes /\ crashes' = crashes + 1 /\ UNCHANGED changes
  BY DEF Next, TableStep, ApiSet, ApiClear, ApiRead, ApiReplace, ApiStat, ApiFails, HandEdit, HandDelete,
         DispatchStep, Begin, Prepare, ReadProject, GitInit, CompareRemote, NoRemote, GitClone, GitFetch,
         GitCheckout, GitReset, GitClean, GitFails, RmtreeFails, AgentStarts, AgentEnds,
         ChangeProject, Cleanup, Restart, vars
<1> QED BY <1>1, DispatchAssumption

\* The inductive invariant: a cache with the mtime of the routing file has its
\* content unless it is blind, and each command of git has brought the workspace to what the run's
\* point says.
THEOREM Invariance == Spec => []IInv
<1>1. IInv /\ [Next]_vars => IInv'
  BY RouteStep, RunStep, BoundsStep DEF IInv
<1> QED BY InitHolds, <1>1, PTL DEF Spec

\* Every variable keeps its type, and no run gets an engine without an adapter.
THEOREM TypeCorrect == Spec => []TypeOK
<1>1. IInv => TypeOK
  <2> SUFFICES ASSUME IInv PROVE TypeOK
    OBVIOUS
  <2>1. file # Nil => file.mtime \in 1 .. edits
    BY DEF IInv, RouteInv
  <2>2. cache.mtime \in 0 .. edits /\ edits \in 0 .. MaxEdits
    BY DispatchAssumption DEF IInv, RouteInv
  <2>3. run.pc # "idle" => ws # Nil /\ run.engine # Nil
    BY DispatchAssumption DEF IInv, RunInv, RunType
  <2> QED BY <2>1, <2>2, <2>3 DEF IInv, RouteInv, RunInv, RunType, TypeOK
<1> QED BY <1>1, Invariance, PTL

\* No agent starts for a bound project but in a fresh checkout of its
\* repository and with its token, whatever was left there before.
THEOREM StartsAsBoundAlways == Spec => StartsAsBound
<1>1. IInv /\ [Next]_vars =>
        [At("start") /\ run'.pc = "agent" /\ run.project # Nil /\ run.project.repo # Nil =>
          /\ ws.git = "clone" /\ ws.repo = run.project.repo
          /\ ws.branch = "default" /\ ~ws.changed /\ ws.litter # "files"
          /\ run.project.pat \in Registry]_vars
  BY DEF IInv, RunInv, Prepared, At, Bound, HasToken
<1> QED BY <1>1, Invariance, PTL DEF Spec, StartsAsBound

\* What an override that is not refused gives.
LEMMA OverriddenGives ==
    ASSUME NEW base, NEW over, Overridden(base, over) # Nil
    PROVE  /\ Overridden(base, over).engine =
                  IF over.engine = Nil THEN base.engine ELSE over.engine
           /\ \/ Overridden(base, over).model \in {Nil, over.model}
              \/ /\ over.engine \in {Nil, base.engine}
                 /\ Overridden(base, over).model = base.model
BY DEF Overridden

\* A run gets the engine of the labels, else of the file as it is, else of the
\* workflow, and a model only with the engine it was written for, unless the
\* cache is blind: a save or a read has failed, or an edit by hand cut in.
THEOREM EngineAsRoutedAlways == Spec => EngineAsRouted
<1> DEFINE table == IF EntryOnFile.engine # Nil THEN EntryOnFile.engine ELSE Workflow.engine
           Right(label) ==
             /\ run'.engine = IF label.engine # Nil THEN label.engine ELSE table
             /\ \/ run'.model \in {Nil, label.model}
                \/ run'.engine = table /\ run'.model = EntryOnFile.model
                \/ run'.engine = table /\ table = Workflow.engine /\ run'.model = Workflow.model
           Follows == \A label \in Entries, fails \in BOOLEAN :
                        Begin(label, fails) /\ run'.pc = "project" /\ ~blind' => Right(label)
<1>1. ASSUME IInv, NEW label \in Entries, NEW fails \in BOOLEAN, Begin(label, fails), run'.pc = "project", ~blind'
      PROVE  Right(label)
  <2> DEFINE routed == Overridden(Workflow, EntryOnFile)
  <2>1. Reloaded(fails).entry = EntryOnFile
    BY <1>1, ReloadedAgrees DEF IInv, Begin, LoopFree
  <2>2. Routed(label, fails) # Nil /\ run'.engine = Routed(label, fails).engine /\ run'.model = Routed(label, fails).model
    BY <1>1 DEF Begin, At, NoRun
  <2>3. routed # Nil /\ Overridden(routed, label) # Nil /\ Routed(label, fails) = Overridden(routed, label)
    BY <2>1, <2>2 DEF Routed
  <2>4. routed.engine = table
        /\ (routed.model \in {Nil, EntryOnFile.model}
            \/ (EntryOnFile.engine \in {Nil, Workflow.engine} /\ routed.model = Workflow.model))
    BY <2>3, OverriddenGives
  <2>5. run'.engine = (IF label.engine = Nil THEN table ELSE label.engine)
        /\ (run'.model \in {Nil, label.model}
            \/ (label.engine \in {Nil, table} /\ run'.model = routed.model))
    <3> HIDE DEF routed, table
    <3> QED BY <2>2, <2>3, <2>4, OverriddenGives
  <2>6. EntryOnFile.engine \in {Nil, Workflow.engine} => table = Workflow.engine
    OBVIOUS
  <2> HIDE DEF routed, table
  <2> QED BY <2>4, <2>5, <2>6
<1>2. IInv /\ [Next]_vars => [Follows]_vars
  BY <1>1
<1>3. EngineAsRouted <=> [][Follows]_vars
  BY DEF EngineAsRouted
<1> QED BY <1>2, <1>3, Invariance, PTL DEF Spec
=============================================================================
