--------------------------- MODULE SymphonyProofs ---------------------------
(***************************************************************************)
(* Proofs about Symphony: its safety properties hold for any tickets,      *)
(* limits, policy, faults, moves and restarts, and it implements           *)
(* MergePromise.                                                           *)
(***************************************************************************)
EXTENDS Symphony, FiniteSetTheorems, FunctionTheorems, TLAPS

Idle(s) == tasks[s].pc = "none"

\* A slot without a task is NoTask; the others have a ticket, as it was listed.
Tasks ==
    /\ \A s \in Slot : Idle(s) => tasks[s] = NoTask
    /\ \A s \in Slot : ~Idle(s) => tasks[s].ticket \in Ticket /\ tasks[s].seen \in Seen
    /\ \A s \in Slot : Task(s, "waiting") => tasks[s].seen.status \in Active
    /\ \A s \in Slot : tasks[s].pc \in {"agent", "failing", "give-up"} =>
           tasks[s].seen.status \in Runnable
    /\ loop.pc = "clean" => loop.seen \in [Ticket -> Seen]

\* The in-flight map: a ticket with a task is in it, and has one task.
Flight ==
    /\ \A s \in Slot : ~Idle(s) => tasks[s].ticket \in inFlight
    /\ \A r, s \in Slot : ~Idle(r) /\ ~Idle(s) /\ tasks[r].ticket = tasks[s].ticket => r = s

\* A task that runs an agent, or waits to.
ForAgent(s) ==
    /\ tasks[s].pc \in {"waiting", "agent", "failing"}
    /\ tasks[s].seen.status # "ready-to-merge"

\* A row of the ledger: a run that is not settled has attempts left.
Within(row) ==
    row # None => /\ row.attempts <= MaxAttempts
                  /\ (~row.done => row.attempts < MaxAttempts)

\* The runs that the ledger knows of.
Known(t) == IF ledger[t] # None /\ ledger[t].key = spent[t].key THEN ledger[t].attempts ELSE 0

\* The rows, in memory and on disk, and the runs that have ended: those the
\* ledger knows of, and as many as there are attempts for each lapse.
AttemptsLeft ==
    /\ \A t \in Ticket : Within(ledger[t]) /\ Within(ledgerFile[t])
    /\ \A t \in Ticket : spent[t] # None =>
           spent[t].runs <= MaxAttempts * spent[t].lapses + Known(t)

\* A task for an agent is for a run that is not settled.
Unsettled ==
    \A s \in Slot : ForAgent(s) => ShouldRun(tasks[s].ticket, tasks[s].seen.status)

\* The window of a ticket has passed.
Over(t) == notices[t] # {} /\ \A d \in notices[t] : d = 0

\* A task about to merge, where the operator has a veto, has seen the window pass.
Passed ==
    \A s \in Slot : (Task(s, "merge") /\ Policy = "auto-with-veto") => Over(tasks[s].ticket)

OfTasks == Tasks /\ Flight /\ Unsettled /\ WorkspaceKept /\ Passed
Inv == TypeOK /\ AttemptsLeft /\ OfTasks

\* What the tasks and the ledger are made of.
Busy == {"waiting", "agent", "failing", "give-up", "comments",
         "cancel", "notice", "merge", "close"}
TaskType == [pc : Busy \cup {"none"}, ticket : Ticket \cup {None}, seen : Seen \cup {None}]
Entry == Row \cup {None}
Spent == [key : Runnable, runs : Nat, lapses : Nat] \cup {None}

-----------------------------------------------------------------------------
(***************************************************************************)
(* Two facts about finite sets.                                            *)
(***************************************************************************)

\* A set that is not larger than another goes into it.
LEMMA InjectionThere ==
    ASSUME NEW S, NEW T, IsFiniteSet(S), IsFiniteSet(T), Cardinality(S) <= Cardinality(T)
    PROVE  \E f \in Injection(S, T) : TRUE
<1> DEFINE m == Cardinality(S)
           n == Cardinality(T)
<1>1. m \in Nat /\ n \in Nat /\ ExistsBijection(1 .. m, S) /\ ExistsBijection(1 .. n, T)
  BY FS_CardinalityType
<1>2. PICK f \in Bijection(1 .. m, S) : TRUE
  BY <1>1 DEF ExistsBijection
<1>3. PICK g \in Bijection(1 .. n, T) : TRUE
  BY <1>1 DEF ExistsBijection
<1>4. Inverse(f, 1 .. m, S) \in Injection(S, 1 .. m)
  BY Fun_BijInverse DEF Bijection
<1>5. g \in [1 .. n -> T] /\ \A a, b \in 1 .. n : g[a] = g[b] => a = b
  BY Fun_InjectionProperties DEF Bijection
<1> DEFINE h == [i \in 1 .. m |-> g[i]]
<1>6. \A i \in 1 .. m : i \in 1 .. n
  BY <1>1
<1>7. h \in [1 .. m -> T] /\ \A a, b \in 1 .. m : h[a] = h[b] => a = b
  BY <1>5, <1>6
<1>8. h \in Injection(1 .. m, T)
  <2> HIDE DEF h, m
  <2> QED BY <1>7, Fun_IsInj
<1> HIDE DEF h, m
<1> QED BY <1>4, <1>8, Fun_InjTransitive

\* A set of times that is not empty has a latest.
LEMMA LatestThere ==
    ASSUME NEW D \in SUBSET (0 .. Window), D # {}
    PROVE  \E d \in D : \A e \in D : d >= e
<1> DEFINE T == {Window - d : d \in D}
<1>1. Window \in Nat
  BY SymphonyAssumption
<1>2. T \subseteq Nat /\ T # {}
  <2>1. \A d \in D : Window - d \in Nat
    BY <1>1
  <2>2. PICK d \in D : TRUE
    OBVIOUS
  <2>3. Window - d \in T
    OBVIOUS
  <2> QED BY <2>1, <2>3
<1>3. PICK x \in T : \A y \in T : ~(<<y, x>> \in OpToRel(<, Nat))
  BY <1>2, NatLessThanWellFounded, WFMin
<1>4. \A y \in T : ~(y < x)
  BY <1>2, <1>3 DEF OpToRel
<1>5. PICK d \in D : x = Window - d
  OBVIOUS
<1>6. ASSUME NEW e \in D PROVE d >= e
  <2>1. Window - e \in T
    OBVIOUS
  <2>2. ~(Window - e < Window - d)
    BY <1>4, <1>5, <2>1
  <2> QED BY <1>1, <2>2
<1> QED BY <1>6
-----------------------------------------------------------------------------
(***************************************************************************)
(* The tasks.                                                              *)
(***************************************************************************)

\* The type of the tasks, by name.
LEMMA TypeOfTasks == TypeOK => tasks \in [Slot -> TaskType]
BY DEF TypeOK, TaskType, Busy

\* A task that ends, or goes on, leaves the others as they are.
LEMMA EndsShape ==
    ASSUME TypeOK, NEW s \in Slot, Ends(s)
    PROVE  /\ tasks' \in [Slot -> TaskType] /\ inFlight' \subseteq Ticket
           /\ tasks'[s] = NoTask /\ \A r \in Slot \ {s} : tasks'[r] = tasks[r]
<1>1. NoTask \in TaskType
  BY DEF NoTask, TaskType
<1> QED BY <1>1, TypeOfTasks DEF Ends, TypeOK

\* One that goes on keeps its ticket and its snapshot.
LEMMA GoesShape ==
    ASSUME TypeOK, NEW s \in Slot, NEW pc \in Busy, Goes(s, pc)
    PROVE  /\ tasks' \in [Slot -> TaskType]
           /\ tasks'[s].pc = pc /\ tasks'[s].ticket = tasks[s].ticket
           /\ tasks'[s].seen = tasks[s].seen
           /\ \A r \in Slot \ {s} : tasks'[r] = tasks[r]
<1>1. tasks[s] \in TaskType
  BY TypeOfTasks
<1>2. [tasks[s] EXCEPT !.pc = pc] \in TaskType
  BY <1>1 DEF TaskType
<1> QED BY <1>1, <1>2, TypeOfTasks DEF Goes, TaskType

\* What the invariant says of the tasks is kept when one ends that has changed
\* only what belongs to its own ticket.
LEMMA AfterEnds ==
    ASSUME Inv, NEW s \in Slot, ~Idle(s), Ends(s), UNCHANGED <<loop, workspaces>>,
           \A t \in Ticket : t # tasks[s].ticket =>
               ledger'[t] = ledger[t] /\ notices'[t] = notices[t]
    PROVE  OfTasks'
<1> USE DEF Inv, OfTasks
<1>1. /\ tasks'[s] = NoTask
      /\ \A r \in Slot : r # s => tasks'[r] = tasks[r]
  BY EndsShape
<1>2. NoTask.pc = "none"
  BY DEF NoTask
<1>3. \A r \in Slot : ~Idle(r)' =>
          /\ r # s /\ ~Idle(r) /\ tasks'[r] = tasks[r]
          /\ tasks[r].ticket \in Ticket /\ tasks[r].ticket # tasks[s].ticket
  BY <1>1, <1>2 DEF Idle, Tasks, Flight
<1>4. Tasks'
  BY <1>1, <1>2, <1>3 DEF Tasks, Idle, Task
<1>5. Flight'
  BY <1>3 DEF Flight, Ends
<1>6. Unsettled'
  <2> SUFFICES ASSUME NEW r \in Slot, ForAgent(r)'
               PROVE  ShouldRun(tasks[r].ticket, tasks[r].seen.status)'
    BY DEF Unsettled
  <2>1. ~Idle(r)'
    BY DEF ForAgent, Idle
  <2>2. tasks'[r] = tasks[r] /\ ledger'[tasks[r].ticket] = ledger[tasks[r].ticket]
    BY <1>3, <2>1
  <2>3. ShouldRun(tasks[r].ticket, tasks[r].seen.status)
    BY <2>2 DEF Unsettled, ForAgent
  <2> QED BY <2>2, <2>3 DEF ShouldRun
<1>7. WorkspaceKept'
  BY <1>3 DEF WorkspaceKept, Idle
<1>8. Passed'
  BY <1>3 DEF Passed, Over, Idle, Task
<1> QED BY <1>4, <1>5, <1>6, <1>7, <1>8

\* So it is when one goes on, if what it goes to is right.
LEMMA AfterGoes ==
    ASSUME Inv, NEW s \in Slot, NEW pc \in Busy \ {"waiting"}, ~Idle(s), Goes(s, pc),
           UNCHANGED <<loop, inFlight, book, notices>>,
           workspaces \subseteq workspaces',
           pc \in {"agent", "failing"} => ForAgent(s) /\ tasks[s].seen.status \in Runnable,
           pc = "give-up" => tasks[s].seen.status \in Runnable,
           pc = "agent" => tasks[s].ticket \in workspaces',
           pc = "merge" /\ Policy = "auto-with-veto" => Over(tasks[s].ticket)
    PROVE  OfTasks'
<1> USE DEF Inv, OfTasks
<1>1. /\ tasks'[s].pc = pc /\ tasks'[s].ticket = tasks[s].ticket
      /\ tasks'[s].seen = tasks[s].seen
      /\ \A r \in Slot : r # s => tasks'[r] = tasks[r]
  BY GoesShape
<1>2. \A r \in Slot : /\ Idle(r)' <=> Idle(r)
                      /\ tasks'[r].ticket = tasks[r].ticket
                      /\ tasks'[r].seen = tasks[r].seen
  BY <1>1 DEF Idle, Busy
<1>3. Tasks'
  BY <1>1, <1>2 DEF Tasks, Idle, Task
<1>4. Flight'
  BY <1>2 DEF Flight
<1>5. Unsettled'
  <2> SUFFICES ASSUME NEW r \in Slot, ForAgent(r)'
               PROVE  ShouldRun(tasks[r].ticket, tasks[r].seen.status)'
    BY DEF Unsettled
  <2>1. ForAgent(r)
    BY <1>1 DEF ForAgent
  <2>2. ShouldRun(tasks[r].ticket, tasks[r].seen.status)
    BY <2>1 DEF Unsettled
  <2> QED BY <1>2, <2>2 DEF ShouldRun, book
<1>6. WorkspaceKept'
  BY <1>1 DEF WorkspaceKept
<1>7. Passed'
  BY <1>1 DEF Passed, Over, Task
<1> QED BY <1>3, <1>4, <1>5, <1>6, <1>7

\* And when they are left alone, with what they depend on.
LEMMA TasksAlone ==
    ASSUME Inv, UNCHANGED <<tasks, inFlight>>,
           loop'.pc = "clean" => loop'.seen \in [Ticket -> Seen],
           \A t \in inFlight : /\ ledger'[t] = ledger[t]
                               /\ t \in workspaces => t \in workspaces'
                               /\ Over(t) => Over(t)'
    PROVE  OfTasks'
<1> USE DEF Inv, OfTasks
<1>1. \A r \in Slot : ~Idle(r) => tasks[r].ticket \in inFlight
  BY DEF Flight
<1>2. Tasks' /\ Flight'
  BY DEF Tasks, Flight, Idle, Task
<1>3. Unsettled'
  <2> SUFFICES ASSUME NEW r \in Slot, ForAgent(r)
               PROVE  ShouldRun(tasks[r].ticket, tasks[r].seen.status)'
    BY DEF Unsettled, ForAgent
  <2>1. ledger'[tasks[r].ticket] = ledger[tasks[r].ticket]
    BY <1>1 DEF ForAgent, Idle
  <2>2. ShouldRun(tasks[r].ticket, tasks[r].seen.status)
    BY DEF Unsettled
  <2> QED BY <2>1, <2>2 DEF ShouldRun
<1>4. WorkspaceKept'
  BY <1>1 DEF WorkspaceKept, Idle
<1>5. Passed'
  <2> SUFFICES ASSUME NEW r \in Slot, Task(r, "merge"), Policy = "auto-with-veto"
               PROVE  Over(tasks[r].ticket)'
    BY DEF Passed, Task
  <2>1. tasks[r].ticket \in inFlight /\ Over(tasks[r].ticket)
    BY <1>1 DEF Passed, Idle, Task
  <2> QED BY <2>1 DEF Over
<1> QED BY <1>2, <1>3, <1>4, <1>5
-----------------------------------------------------------------------------
(***************************************************************************)
(* The ledger and the merge window.                                        *)
(***************************************************************************)

\* Where the books are left alone, they stay right.
LEMMA BookAlone == ASSUME Inv, UNCHANGED book PROVE AttemptsLeft'
BY DEF Inv, AttemptsLeft, Within, Known, book

\* RunLedger.record: the entry is one of the ledger, within the attempts when
\* the run recorded was not settled, and leaves attempts if it is not settled.
LEMMA RecordedWithin ==
    ASSUME Inv, NEW t \in Ticket, NEW key \in Runnable, NEW ok \in BOOLEAN, ShouldRun(t, key)
    PROVE  LET e == Recorded(t, key, ok)
           IN  /\ e \in Entry /\ e # None /\ Within(e) /\ e.key = key
               /\ e.attempts = IF ledger[t] # None /\ ledger[t].key = key
                               THEN ledger[t].attempts + 1 ELSE 1
<1> DEFINE n == IF ledger[t] # None /\ ledger[t].key = key
                THEN ledger[t].attempts + 1 ELSE 1
           done == ok \/ n >= MaxAttempts
           e == Recorded(t, key, ok)
<1>1. MaxAttempts \in Nat \ {0}
  BY SymphonyAssumption
<1>2. n \in Nat /\ n <= MaxAttempts
  <2>1. CASE ledger[t] # None /\ ledger[t].key = key
    <3>1. ledger[t].attempts \in Nat /\ ~ledger[t].done
      BY <2>1 DEF Inv, TypeOK, ShouldRun, Row
    <3>2. ledger[t].attempts < MaxAttempts
      BY <2>1, <3>1 DEF Inv, AttemptsLeft, Within
    <3> QED BY <1>1, <2>1, <3>1, <3>2
  <2>2. CASE ~(ledger[t] # None /\ ledger[t].key = key)
    BY <1>1, <2>2
  <2> QED BY <2>1, <2>2
<1>3. e = [key |-> key, attempts |-> n, done |-> done]
  BY Zenon DEF Recorded
<1>4. done \in BOOLEAN
  OBVIOUS
<1>5. ~done => n < MaxAttempts
  BY <1>1, <1>2
<1>6. PICK m, d : m = n /\ d = done
  OBVIOUS
<1> HIDE DEF n, done
<1>7. /\ e = [key |-> key, attempts |-> m, done |-> d] /\ m \in Nat /\ m <= MaxAttempts
      /\ d \in BOOLEAN /\ (~d => m < MaxAttempts)
  BY <1>2, <1>3, <1>4, <1>5, <1>6
<1> HIDE DEF e
<1>8. e \in Entry /\ e # None /\ Within(e) /\ e.key = key /\ e.attempts = n
  BY <1>6, <1>7, NoneAssumption DEF Entry, Within, Row
<1> QED BY <1>8, Zenon DEF e, n

\* _decide: where there is a veto, a merge is for a window that has passed.
LEMMA DecisionMerges ==
    ASSUME Inv, NEW t \in Ticket, NEW read \in BOOLEAN, NEW seen,
           Decision(seen, IF read THEN Deadline(t) ELSE None) = "merge",
           Policy = "auto-with-veto"
    PROVE  Over(t)
<1> DEFINE deadline == IF read THEN Deadline(t) ELSE None
<1>1. notices[t] \in SUBSET (0 .. Window)
  BY DEF Inv, TypeOK
<1>2. deadline # None /\ ~(deadline > 0)
  BY DEF Decision
<1>3. notices[t] # {} /\ deadline = Deadline(t)
  BY <1>2 DEF Deadline
<1>4. PICK d \in notices[t] : \A e \in notices[t] : d >= e
  BY <1>1, <1>3, LatestThere
<1>5. Deadline(t) \in notices[t] /\ \A e \in notices[t] : Deadline(t) >= e
  BY <1>3, <1>4 DEF Deadline
<1>6. \A e \in notices[t] : e = 0
  BY <1>1, <1>2, <1>3, <1>5, SymphonyAssumption
<1> QED BY <1>3, <1>6 DEF Over

\* Of what is decided, each is a step of a task.
LEMMA DecisionType ==
    ASSUME NEW seen \in Seen, NEW deadline
    PROVE  Decision(seen, deadline) \in {"over", "cancel", "notice", "merge"}
BY DEF Decision, Seen

\* A status, and how long a ticket has been ready, are of their types.
LEMMA MovesType ==
    ASSUME TypeOK, NEW t \in Ticket, NEW new \in Status, MovesTo(t, new)
    PROVE  status' \in [Ticket -> Status] /\ ready' \in [Ticket -> 0 .. Window \cup {None}]
BY SymphonyAssumption DEF TypeOK, MovesTo

-----------------------------------------------------------------------------
(***************************************************************************)
(* The steps of the poll task.                                             *)
(***************************************************************************)

\* The list is what the tickets are.
LEMMA ListStep == ASSUME Inv, LoopList PROVE Inv'
<1> USE DEF Inv
<1>1. loop'.seen \in [Ticket -> Seen]
  <2>1. \A t \in Ticket : [status |-> status[t], rejected |-> t \in rejected] \in Seen
    <3>1. \A st \in Status, b \in BOOLEAN : [status |-> st, rejected |-> b] \in Seen
      BY DEF Seen
    <3>2. \A t \in Ticket : status[t] \in Status /\ (t \in rejected) \in BOOLEAN
      BY DEF TypeOK
    <3> QED BY <3>1, <3>2, Zenon
  <2> DEFINE seen == [t \in Ticket |-> [status |-> status[t], rejected |-> t \in rejected]]
  <2>2. seen \in [Ticket -> Seen]
    BY <2>1
  <2>3. loop'.seen = seen
    BY DEF LoopList
  <2> QED BY <2>2, <2>3
<1>2. loop' \in [pc : {"idle", "clean"}, seen : [Ticket -> Seen] \cup {None},
                 todo : SUBSET Ticket]
  <2>1. PICK sn, td : loop' = [pc |-> "clean", seen |-> sn, todo |-> td] /\ td \subseteq Ticket
    BY DEF LoopList
  <2> QED BY <1>1, <2>1
<1>3. TypeOK'
  BY <1>2 DEF TypeOK, LoopList, kaneo, book, bounds
<1>4. AttemptsLeft'
  BY BookAlone DEF LoopList
<1>5. OfTasks'
  BY <1>1, TasksAlone DEF LoopList, kaneo, book, Over
<1> QED BY <1>3, <1>4, <1>5

\* Cleaning touches no ticket that has a task.
LEMMA CleanStep == ASSUME Inv, NEW t \in Ticket, NEW removed \in BOOLEAN, NEW saved \in BOOLEAN,
             LoopClean(t, removed, saved)
                   PROVE Inv'
<1> USE DEF Inv
<1>1. /\ ledger' \in [Ticket -> Entry] /\ ledgerFile' \in [Ticket -> Entry]
      /\ spent' \in [Ticket -> Spent]
      /\ \A u \in Ticket : /\ ledger'[u] \in {ledger[u], None}
                           /\ ledgerFile'[u] \in {ledgerFile[u], ledger[u], None}
                           /\ spent'[u] = None \/ (spent'[u] = spent[u] /\ ledger'[u] = ledger[u])
  BY DEF LoopClean, Forget, Saves, TypeOK, Entry, Spent, book
<1>2. workspaces' \subseteq Ticket
  BY DEF LoopClean, TypeOK
<1>3. loop'.pc = loop.pc /\ loop'.seen = loop.seen
      /\ loop' \in [pc : {"idle", "clean"}, seen : [Ticket -> Seen] \cup {None},
                    todo : SUBSET Ticket]
  BY DEF LoopClean, TypeOK
<1>4. TypeOK'
  BY <1>1, <1>2, <1>3 DEF TypeOK, Entry, Spent, LoopClean, kaneo, bounds
<1>5. AttemptsLeft'
  BY <1>1 DEF AttemptsLeft, Within, Known
<1>6. \A u \in inFlight : /\ ledger'[u] = ledger[u]
                          /\ u \in workspaces => u \in workspaces'
                          /\ Over(u) => Over(u)'
  BY DEF LoopClean, Cleanable, Forget, TypeOK, kaneo, book, Over
<1>7. OfTasks'
  BY <1>3, <1>6, TasksAlone DEF LoopClean, OfTasks, Tasks
<1> QED BY <1>4, <1>5, <1>7

\* The tickets new get a task each, in the slots place gives them.
Placed(new, place) ==
    /\ \A t \in new : /\ t \notin inFlight /\ loop.seen[t].status \in Active
                      /\ Dispatchable(t, loop.seen[t])
                      /\ place[t] \in Slot /\ tasks[place[t]] = NoTask
    /\ \A t, u \in new : place[t] = place[u] => t = u
    /\ \A s \in Slot : (\A t \in new : place[t] # s) => tasks'[s] = tasks[s]
    /\ \A t \in new :
           tasks'[place[t]] = [pc |-> "waiting", ticket |-> t, seen |-> loop.seen[t]]
    /\ DOMAIN tasks' = Slot /\ inFlight' = inFlight \cup new

\* No two get one slot, and each gets one that was free.
LEMMA DispatchShape ==
    ASSUME Inv, LoopDispatch
    PROVE  \E new \in SUBSET Ticket : \E place : Placed(new, place)
<1> DEFINE new == {t \in Ticket : /\ loop.seen[t].status \in Active
                                  /\ Dispatchable(t, loop.seen[t])}
           free == {s \in Slot : tasks[s] = NoTask}
           place == CHOOSE f \in Injection(new, free) : TRUE
<1>1. IsFiniteSet(Ticket) /\ IsFiniteSet(Slot)
  BY SymphonyAssumption, FS_Interval DEF Slot
<1>2. IsFiniteSet(new) /\ IsFiniteSet(free)
  BY <1>1, FS_Subset
<1>3. Cardinality(new) <= Cardinality(free)
  BY DEF LoopDispatch
<1>4. \E f \in Injection(new, free) : TRUE
  <2> HIDE DEF new, free
  <2> QED BY <1>2, <1>3, InjectionThere
<1>5. place \in Injection(new, free)
  <2> HIDE DEF new, free
  <2> QED BY <1>4
<1>6. place \in [new -> free] /\ \A t, u \in new : place[t] = place[u] => t = u
  <2> HIDE DEF new, free, place
  <2> QED BY <1>5, Fun_InjectionProperties
<1>7. tasks' = [s \in Slot |->
                  IF \E t \in new : place[t] = s
                  THEN LET t == CHOOSE t \in new : place[t] = s
                       IN  [pc |-> "waiting", ticket |-> t, seen |-> loop.seen[t]]
                  ELSE tasks[s]]
      /\ inFlight' = inFlight \cup new
  BY Zenon DEF LoopDispatch
<1>8. \A t \in new : /\ t \notin inFlight /\ loop.seen[t].status \in Active
                     /\ Dispatchable(t, loop.seen[t])
                     /\ place[t] \in Slot /\ tasks[place[t]] = NoTask
  <2> HIDE DEF place
  <2> QED BY <1>6 DEF Dispatchable
<1> HIDE DEF new, free, place
<1>9. \A t \in new :
          tasks'[place[t]] = [pc |-> "waiting", ticket |-> t, seen |-> loop.seen[t]]
  <2> TAKE t \in new
  <2>1. (CHOOSE u \in new : place[u] = place[t]) = t
    BY <1>6
  <2> QED BY <1>7, <1>8, <2>1
<1>10. new \subseteq Ticket
  BY DEF new
<1>11. Placed(new, place)
  BY <1>6, <1>7, <1>8, <1>9 DEF Placed
<1> QED BY <1>10, <1>11

\* Each new task is for a ticket that had none and for a run that is not settled.
LEMMA DispatchStep == ASSUME Inv, LoopDispatch PROVE Inv'
<1> USE DEF Inv, OfTasks
<1>0. PICK new \in SUBSET Ticket : \E place : Placed(new, place)
  BY DispatchShape
<1>1. PICK place : Placed(new, place)
  BY <1>0
<1> USE <1>1 DEF Placed
<1>2. /\ loop.seen \in [Ticket -> Seen] /\ loop' = LoopIdle
      /\ UNCHANGED <<kaneo, merged, book, workspaces, bounds>>
  BY DEF LoopDispatch, Tasks
<1> DEFINE Made(s) ==
              \E t \in new : /\ tasks'[s].pc = "waiting" /\ tasks'[s].ticket = t
                             /\ tasks'[s].seen = loop.seen[t] /\ place[t] = s
<1>3. \A s \in Slot : tasks'[s] = tasks[s] \/ Made(s)
  <2> SUFFICES ASSUME NEW s \in Slot, NEW t \in new, place[t] = s PROVE Made(s)
    BY <1>1
  <2>1. tasks'[s] = [pc |-> "waiting", ticket |-> t, seen |-> loop.seen[t]]
    BY <1>1
  <2> QED BY <2>1
<1>4. \A s \in Slot : Made(s) => ~Idle(s)' /\ tasks'[s].ticket \in Ticket
                                  /\ tasks'[s].ticket \notin inFlight
                                  /\ tasks'[s].seen \in Seen
                                  /\ tasks'[s].seen.status \in Active
  BY <1>1, <1>2 DEF Idle
<1>5. tasks' \in [Slot -> TaskType]
  <2>1. ASSUME NEW s \in Slot PROVE tasks'[s] \in TaskType
    <3>1. CASE tasks'[s] = tasks[s]
      BY <3>1, TypeOfTasks
    <3>2. CASE \E t \in new : place[t] = s
      <4>1. PICK t \in new : place[t] = s
        BY <3>2
      <4>2. tasks'[s] = [pc |-> "waiting", ticket |-> t, seen |-> loop.seen[t]]
        BY <1>1, <4>1
      <4>3. t \in Ticket /\ loop.seen[t] \in Seen
        BY <1>2
      <4> QED BY <4>2, <4>3 DEF TaskType, Busy
    <3> QED BY <1>1, <3>1, <3>2
  <2>2. tasks' = [s \in Slot |-> tasks'[s]]
    <3>1. tasks = [s \in Slot |-> tasks[s]]
      BY TypeOfTasks
    <3> QED BY DEF LoopDispatch
  <2> QED BY <2>1, <2>2
<1>6. TypeOK'
  <2>1. inFlight' \subseteq Ticket
    BY <1>1 DEF TypeOK
  <2>2. loop' \in [pc : {"idle", "clean"}, seen : [Ticket -> Seen] \cup {None},
                   todo : SUBSET Ticket]
    BY <1>2 DEF LoopIdle
  <2> QED BY <1>2, <1>5, <2>1, <2>2 DEF TypeOK, TaskType, Busy, kaneo, book, bounds
<1>7. AttemptsLeft'
  BY <1>2, BookAlone
<1>8. Tasks'
  <2>1. loop'.pc # "clean"
    BY <1>2 DEF LoopIdle
  <2>2. ASSUME NEW s \in Slot, tasks'[s] = tasks[s]
        PROVE  /\ Idle(s)' => tasks'[s] = NoTask
               /\ ~Idle(s)' => tasks'[s].ticket \in Ticket /\ tasks'[s].seen \in Seen
               /\ Task(s, "waiting")' => tasks'[s].seen.status \in Active
               /\ tasks'[s].pc \in {"agent", "failing", "give-up"} =>
                      tasks'[s].seen.status \in Runnable
    BY <2>2 DEF Tasks, Idle, Task
  <2>3. ASSUME NEW s \in Slot, Made(s)
        PROVE  /\ Idle(s)' => tasks'[s] = NoTask
               /\ ~Idle(s)' => tasks'[s].ticket \in Ticket /\ tasks'[s].seen \in Seen
               /\ Task(s, "waiting")' => tasks'[s].seen.status \in Active
               /\ tasks'[s].pc \in {"agent", "failing", "give-up"} =>
                      tasks'[s].seen.status \in Runnable
    BY <1>4, <2>3
  <2> QED BY <1>3, <2>1, <2>2, <2>3 DEF Tasks
<1>9. Flight'
  <2>1. \A s \in Slot : (~Idle(s)' /\ tasks'[s] = tasks[s]) => tasks'[s].ticket \in inFlight
    BY DEF Flight, Idle
  <2>2. \A s \in Slot : ~Idle(s)' => tasks'[s].ticket \in inFlight'
    BY <1>1, <1>3, <2>1
  <2>3. ASSUME NEW r \in Slot, NEW s \in Slot, ~Idle(r)', ~Idle(s)',
               tasks'[r].ticket = tasks'[s].ticket
        PROVE  r = s
    <3>1. CASE tasks'[r] = tasks[r] /\ tasks'[s] = tasks[s]
      BY <2>3, <3>1 DEF Flight, Idle
    <3>2. CASE Made(r) /\ Made(s)
      BY <1>1, <2>3, <3>2
    <3> QED BY <1>3, <1>4, <2>1, <2>3, <3>1, <3>2
  <2> QED BY <2>2, <2>3 DEF Flight
<1>10. Unsettled'
  <2> SUFFICES ASSUME NEW s \in Slot, ForAgent(s)'
               PROVE  ShouldRun(tasks[s].ticket, tasks[s].seen.status)'
    BY DEF Unsettled
  <2>1. CASE tasks'[s] = tasks[s]
    <3>1. ShouldRun(tasks[s].ticket, tasks[s].seen.status)
      BY <2>1 DEF Unsettled, ForAgent
    <3> QED BY <1>2, <2>1, <3>1 DEF ShouldRun, book
  <2>2. CASE Made(s)
    <3>1. ShouldRun(tasks'[s].ticket, tasks'[s].seen.status)
      BY <1>1, <2>2 DEF Dispatchable, ForAgent
    <3> QED BY <1>2, <3>1 DEF ShouldRun, book
  <2> QED BY <1>3, <2>1, <2>2
<1>11. WorkspaceKept'
  <2>1. \A s \in Slot : tasks'[s].pc = "agent" => tasks'[s] = tasks[s]
    BY <1>3
  <2> QED BY <1>2, <2>1 DEF WorkspaceKept
<1>12. Passed'
  <2>1. \A s \in Slot : tasks'[s].pc = "merge" => tasks'[s] = tasks[s]
    BY <1>3
  <2> QED BY <1>2, <2>1 DEF Passed, Task, Over, kaneo, book
<1> QED BY <1>6, <1>7, <1>8, <1>9, <1>10, <1>11, <1>12

-----------------------------------------------------------------------------
(***************************************************************************)
(* The steps of a task.                                                    *)
(***************************************************************************)

\* The semaphore: what may begin on a ticket is what the list said it was.
LEMMA AcquireStep ==
    ASSUME Inv, NEW s \in Slot, NEW begins \in BOOLEAN, Acquire(s, begins)
    PROVE  Inv'
<1> USE DEF Inv
<1>1. /\ ~Idle(s) /\ tasks[s].ticket \in Ticket /\ tasks[s].seen.status \in Active
      /\ tasks[s].seen.status # "filtered"
  BY DEF Acquire, OfTasks, Tasks, Idle, Task
<1>2. PICK pc \in {"comments", "agent", "failing"} :
          /\ Goes(s, pc)
          /\ pc # "comments" => tasks[s].seen.status # "ready-to-merge"
          /\ workspaces' \in {workspaces, workspaces \cup {tasks[s].ticket}}
          /\ pc = "agent" => tasks[s].ticket \in workspaces'
  BY DEF Acquire
<1>3. tasks' \in [Slot -> TaskType]
  BY <1>2, GoesShape DEF Busy
<1>4. TypeOK'
  BY <1>1, <1>2, <1>3 DEF TypeOK, TaskType, Busy, Acquire, kaneo, book, bounds
<1>5. AttemptsLeft'
  BY BookAlone DEF Acquire
<1>6. pc # "comments" => ForAgent(s) /\ tasks[s].seen.status \in Runnable
  BY <1>1, <1>2 DEF Active, ForAgent, Acquire, Task
<1>7. OfTasks'
  BY <1>1, <1>2, <1>6, AfterGoes DEF Acquire, kaneo, book, Busy
<1> QED BY <1>4, <1>5, <1>7

\* A step that ends its task and changes nothing else.
LEMMA OnlyEnds ==
    ASSUME Inv, NEW s \in Slot, ~Idle(s), Ends(s),
           UNCHANGED <<kaneo, merged, book, workspaces, loop, bounds>>
    PROVE  Inv'
<1>1. TypeOK'
  BY EndsShape DEF Inv, TypeOK, TaskType, Busy, kaneo, book, bounds
<1>2. AttemptsLeft'
  BY BookAlone
<1>3. OfTasks'
  BY AfterEnds DEF kaneo, book
<1> QED BY <1>1, <1>2, <1>3 DEF Inv

\* The run is recorded: the entry of the ticket's own, and no other.
LEMMA AgentEndsStep ==
    ASSUME Inv, NEW s \in Slot, NEW ok \in BOOLEAN, NEW saved \in BOOLEAN, AgentEnds(s, ok, saved)
    PROVE  Inv'
<1> USE DEF Inv
<1> DEFINE t == tasks[s].ticket
           key == tasks[s].seen.status
           entry == Recorded(t, key, ok)
<1>1. ~Idle(s) /\ t \in Ticket /\ key \in Runnable /\ ShouldRun(t, key)
  <2>1. tasks[s].pc \in {"agent", "failing"}
    BY DEF AgentEnds, Task
  <2>2. ~Idle(s) /\ t \in Ticket /\ key \in Runnable
    BY <2>1 DEF OfTasks, Tasks, Idle
  <2>3. ForAgent(s)
    BY <2>1, <2>2 DEF ForAgent, Runnable
  <2> QED BY <2>2, <2>3 DEF OfTasks, Unsettled
<1>2. /\ entry \in Entry /\ entry # None /\ Within(entry) /\ entry.key = key
      /\ entry.attempts = IF ledger[t] # None /\ ledger[t].key = key
                          THEN ledger[t].attempts + 1 ELSE 1
  BY <1>1, RecordedWithin, Zenon
<1>3. /\ ledger' = [ledger EXCEPT ![t] = entry] /\ Saves(saved)
      /\ spent' = [spent EXCEPT ![t] = SpentMore(t, entry.key)]
      /\ \/ Goes(s, "give-up") /\ UNCHANGED inFlight
         \/ Ends(s)
      /\ UNCHANGED <<kaneo, merged, workspaces, loop, bounds>>
  BY Zenon DEF AgentEnds
<1> HIDE DEF entry
<1>4. /\ ledger' \in [Ticket -> Entry] /\ ledger'[t] = entry
      /\ \A u \in Ticket : u # t => ledger'[u] = ledger[u]
      /\ ledgerFile' \in [Ticket -> Entry] /\ ledgerFile' \in {ledgerFile, ledger'}
  BY <1>1, <1>2, <1>3 DEF TypeOK, Entry, Saves
<1>8. /\ spent' \in [Ticket -> Spent] /\ spent'[t] = SpentMore(t, key)
      /\ \A u \in Ticket : u # t => spent'[u] = spent[u]
  <2>1. SpentMore(t, key) \in Spent
    BY <1>1 DEF SpentMore, Spent, TypeOK
  <2> QED BY <1>1, <1>2, <1>3, <2>1 DEF TypeOK, Spent
<1>5. AttemptsLeft'
  <2>1. \A u \in Ticket : Within(ledger'[u]) /\ Within(ledgerFile'[u])
    BY <1>2, <1>4 DEF AttemptsLeft
  <2>2. ASSUME NEW u \in Ticket, spent'[u] # None
        PROVE  spent'[u].runs <= MaxAttempts * spent'[u].lapses + Known(u)'
    <3>1. CASE u # t
      BY <1>4, <1>8, <2>2, <3>1 DEF AttemptsLeft, Known
    <3>2. CASE u = t
      <4>1. MaxAttempts \in Nat /\ entry.attempts \in Nat
        BY <1>2, SymphonyAssumption DEF Entry, Row
      <4>2. Known(u)' = entry.attempts
        BY <1>1, <1>2, <1>4, <1>8, <3>2 DEF Known, SpentMore, TypeOK
      <4>3. CASE spent[u] # None /\ spent[u].key = key
        <5>1. spent[u].runs \in Nat /\ spent[u].lapses \in Nat
          BY <4>3 DEF TypeOK
        <5>2. spent'[u].runs = spent[u].runs + 1 /\ spent'[u].lapses = spent[u].lapses
          BY <1>1, <1>8, <3>2, <4>3 DEF SpentMore, TypeOK
        <5>3. PICK p \in Nat : p = MaxAttempts * spent[u].lapses
          BY <4>1, <5>1
        <5>4. Known(u) \in Nat /\ Known(u) + 1 = entry.attempts
          BY <1>2, <3>2, <4>3 DEF Known, TypeOK, Row
        <5>5. spent[u].runs <= p + Known(u)
          BY <4>3, <5>3 DEF AttemptsLeft
        <5> QED BY <4>1, <4>2, <5>1, <5>2, <5>3, <5>4, <5>5
      <4>4. CASE ~(spent[u] # None /\ spent[u].key = key)
        <5>1. spent'[u].runs = 1 /\ spent'[u].lapses = 0
          BY <1>8, <3>2, <4>4 DEF SpentMore
        <5>2. entry.attempts >= 1
          BY <1>1, <1>2 DEF TypeOK, Row
        <5> QED BY <4>1, <4>2, <5>1, <5>2
      <4> QED BY <4>3, <4>4
    <3> QED BY <3>1, <3>2
  <2> QED BY <2>1, <2>2 DEF AttemptsLeft
<1>6. CASE Ends(s)
  <2>1. TypeOK'
    BY <1>3, <1>4, <1>6, <1>8, EndsShape DEF TypeOK, TaskType, Busy, Entry, Spent, kaneo, bounds
  <2>2. OfTasks'
    BY <1>1, <1>3, <1>4, <1>6, AfterEnds DEF kaneo
  <2> QED BY <1>5, <2>1, <2>2
<1>7. CASE Goes(s, "give-up") /\ UNCHANGED inFlight
  <2>1. /\ tasks' \in [Slot -> TaskType]
        /\ tasks'[s].pc = "give-up" /\ tasks'[s].ticket = t /\ tasks'[s].seen = tasks[s].seen
        /\ \A r \in Slot \ {s} : tasks'[r] = tasks[r]
    BY <1>7, GoesShape DEF Busy
  <2>2. TypeOK'
    BY <1>3, <1>4, <1>7, <1>8, <2>1
       DEF TypeOK, TaskType, Busy, Entry, Spent, kaneo, bounds
  <2>3. OfTasks'
    <3> USE DEF OfTasks
    <3>1. \A r \in Slot : /\ Idle(r)' <=> Idle(r)
                          /\ tasks'[r].ticket = tasks[r].ticket
                          /\ tasks'[r].seen = tasks[r].seen
      BY <1>1, <2>1 DEF Idle
    <3>2. Tasks'
      BY <1>1, <1>3, <2>1, <3>1 DEF Tasks, Idle, Task
    <3>3. Flight'
      BY <1>7, <3>1 DEF Flight
    <3>4. Unsettled'
      <4> SUFFICES ASSUME NEW r \in Slot, ForAgent(r)'
                   PROVE  ShouldRun(tasks[r].ticket, tasks[r].seen.status)'
        BY DEF Unsettled
      <4>1. r # s /\ ForAgent(r) /\ ~Idle(r)
        BY <2>1 DEF ForAgent, Idle
      <4>2. tasks[r].ticket \in Ticket /\ tasks[r].ticket # t
        BY <1>1, <4>1 DEF Tasks, Flight
      <4>3. ShouldRun(tasks[r].ticket, tasks[r].seen.status)
        BY <4>1 DEF Unsettled
      <4> QED BY <1>4, <2>1, <4>1, <4>2, <4>3 DEF ShouldRun
    <3>5. WorkspaceKept'
      BY <1>3, <2>1 DEF WorkspaceKept
    <3>6. Passed'
      BY <1>3, <2>1 DEF Passed, Over, Task, kaneo
    <3> QED BY <3>2, <3>3, <3>4, <3>5, <3>6
  <2> QED BY <1>5, <2>2, <2>3
<1> QED BY <1>3, <1>6, <1>7

\* The comments are read: the task merges only when the window has passed.
LEMMA ReadCommentsStep ==
    ASSUME Inv, NEW s \in Slot, NEW read \in BOOLEAN, ReadComments(s, read)
    PROVE  Inv'
<1> USE DEF Inv
<1> DEFINE next == Decision(tasks[s].seen,
                            IF read THEN Deadline(tasks[s].ticket) ELSE None)
<1>1. ~Idle(s) /\ tasks[s].ticket \in Ticket /\ tasks[s].seen \in Seen
  BY DEF ReadComments, OfTasks, Tasks, Idle, Task
<1>2. next \in {"over", "cancel", "notice", "merge"}
  BY <1>1, DecisionType, Zenon
<1>3. next = "merge" /\ Policy = "auto-with-veto" => Over(tasks[s].ticket)
  BY <1>1, DecisionMerges, Zenon
<1>4. /\ IF next = "over" THEN Ends(s) ELSE Goes(s, next) /\ UNCHANGED inFlight
      /\ UNCHANGED <<kaneo, merged, book, workspaces, loop, bounds>>
  BY Zenon DEF ReadComments
<1> HIDE DEF next
<1>5. CASE next = "over"
  BY <1>1, <1>4, <1>5, OnlyEnds
<1>6. CASE next # "over"
  <2>1. next \in Busy \ {"waiting"} /\ next \notin {"agent", "failing", "give-up"}
    BY <1>2, <1>6 DEF Busy
  <2>2. tasks' \in [Slot -> TaskType]
    BY <1>4, <1>6, <2>1, GoesShape
  <2>3. TypeOK'
    BY <1>4, <1>6, <2>2 DEF TypeOK, TaskType, Busy, kaneo, book, bounds
  <2>4. AttemptsLeft'
    BY <1>4, BookAlone
  <2>5. OfTasks'
    BY <1>1, <1>3, <1>4, <1>6, <2>1, AfterGoes DEF kaneo, book
  <2> QED BY <2>3, <2>4, <2>5
<1> QED BY <1>5, <1>6

\* A step that ends its task and moves its ticket in Kaneo.
LEMMA MovingStep ==
    ASSUME Inv, NEW s \in Slot, NEW new \in Status, ~Idle(s), MovesTo(tasks[s].ticket, new),
           Ends(s), UNCHANGED <<rejected, notices, merged, book, workspaces, loop, bounds>>
    PROVE  Inv'
<1>1. tasks[s].ticket \in Ticket
  BY DEF Inv, OfTasks, Tasks
<1>2. status' \in [Ticket -> Status] /\ ready' \in [Ticket -> 0 .. Window \cup {None}]
  BY <1>1, MovesType DEF Inv
<1>3. TypeOK'
  BY <1>2, EndsShape DEF Inv, TypeOK, TaskType, Busy, bounds, book
<1>4. AttemptsLeft'
  BY BookAlone
<1>5. OfTasks'
  BY AfterEnds DEF book
<1> QED BY <1>3, <1>4, <1>5 DEF Inv

\* A notice is posted for the ticket of the task, which no other task has.
LEMMA PostNoticeStep == ASSUME Inv, NEW s \in Slot, PostNotice(s) PROVE Inv'
<1>1. ~Idle(s) /\ tasks[s].ticket \in Ticket
  BY DEF PostNotice, Inv, OfTasks, Tasks, Idle, Task
<1>2. Window \in 0 .. Window
  BY SymphonyAssumption
<1>3. notices' \in [Ticket -> SUBSET (0 .. Window)]
  BY <1>1, <1>2 DEF PostNotice, Inv, TypeOK
<1>4. TypeOK'
  BY <1>3, EndsShape DEF PostNotice, Inv, TypeOK, TaskType, Busy, bounds, book
<1>5. AttemptsLeft'
  BY BookAlone DEF PostNotice
<1>6. OfTasks'
  BY <1>1, AfterEnds DEF PostNotice, Inv, TypeOK, book
<1> QED BY <1>4, <1>5, <1>6 DEF Inv

\* The merge, which may have landed although gh failed.
LEMMA GhMergeStep ==
    ASSUME Inv, NEW s \in Slot, NEW ok \in BOOLEAN, NEW landed \in BOOLEAN,
           GhMerge(s, ok, landed)
    PROVE  Inv'
<1>1. ~Idle(s) /\ tasks[s].ticket \in Ticket
  BY DEF GhMerge, Inv, OfTasks, Tasks, Idle, Task
<1>2. merged' \subseteq Ticket
  BY <1>1 DEF GhMerge, Inv, TypeOK
<1>3. AttemptsLeft'
  BY BookAlone DEF GhMerge
<1>4. CASE Ends(s)
  <2>1. TypeOK'
    BY <1>2, <1>4, EndsShape DEF GhMerge, Inv, TypeOK, TaskType, Busy, kaneo, book, bounds
  <2>2. OfTasks'
    BY <1>1, <1>4, AfterEnds DEF GhMerge, kaneo, book
  <2> QED BY <1>3, <2>1, <2>2 DEF Inv
<1>5. CASE Goes(s, "close") /\ UNCHANGED inFlight
  <2>1. tasks' \in [Slot -> TaskType]
    BY <1>5, GoesShape DEF Inv, Busy
  <2>2. TypeOK'
    BY <1>2, <1>5, <2>1 DEF GhMerge, Inv, TypeOK, TaskType, Busy, kaneo, book, bounds
  <2>3. OfTasks'
    BY <1>1, <1>5, AfterGoes DEF GhMerge, kaneo, book, Busy
  <2> QED BY <1>3, <2>2, <2>3 DEF Inv
<1> QED BY <1>4, <1>5 DEF GhMerge

\* A step of a task, admitted or not.
LEMMA TaskSteps == ASSUME Inv, NEW s \in Slot, Admission(s) \/ TaskStep(s) PROVE Inv'
<1>1. CASE Skip(s) \/ DispatchRaises(s) \/ GiveUp(s) \/ KaneoRaises(s)
  <2>1. ~Idle(s)
    BY <1>1 DEF Skip, DispatchRaises, GiveUp, KaneoRaises, Idle, Task
  <2>2. Ends(s) /\ UNCHANGED <<kaneo, merged, book, workspaces, loop, bounds>>
    BY <1>1 DEF Skip, DispatchRaises, GiveUp, KaneoRaises
  <2> QED BY <2>1, <2>2, OnlyEnds
<1>2. CASE CancelMerge(s) \/ CloseTicket(s)
  <2>1. ~Idle(s)
    BY <1>2 DEF CancelMerge, CloseTicket, Idle, Task
  <2>2. \E new \in Status : MovesTo(tasks[s].ticket, new)
    BY <1>2 DEF CancelMerge, CloseTicket, Status, Active, Runnable, Cleanup
  <2> QED BY <1>2, <2>1, <2>2, MovingStep DEF CancelMerge, CloseTicket
<1> QED BY <1>1, <1>2, AcquireStep, AgentEndsStep, ReadCommentsStep, PostNoticeStep, GhMergeStep
        DEF Admission, TaskStep

-----------------------------------------------------------------------------
(***************************************************************************)
(* The steps of the environment.                                           *)
(***************************************************************************)

\* A ticket is changed in Kaneo: no task and no window is touched.
LEMMA OperatorStep ==
    ASSUME Inv, NEW t \in Ticket, (\E new \in Status : Move(t, new)) \/ Veto(t) \/ Unveto(t)
    PROVE  Inv'
<1> USE DEF Outside
<1>1. /\ UNCHANGED <<notices, merged, book, workspaces, loop, inFlight, tasks, crashes>>
      /\ moves' \in {moves} \cup {m \in {moves + 1} : moves < MaxMoves}
  BY DEF Move, Veto, Unveto
<1>2. status' \in [Ticket -> Status] /\ ready' \in [Ticket -> 0 .. Window \cup {None}]
  BY MovesType DEF Move, Veto, Unveto, Inv, TypeOK
<1>3. rejected' \subseteq Ticket
  BY DEF Move, Veto, Unveto, Inv, TypeOK
<1>4. moves' \in 0 .. MaxMoves
  BY <1>1, SymphonyAssumption DEF Inv, TypeOK
<1>5. TypeOK'
  BY <1>1, <1>2, <1>3, <1>4 DEF Inv, TypeOK, book
<1>6. AttemptsLeft'
  BY <1>1, BookAlone
<1>7. OfTasks'
  BY <1>1, TasksAlone DEF Inv, OfTasks, Tasks, Over, book
<1> QED BY <1>5, <1>6, <1>7 DEF Inv

\* After a restart there is no task, and the ledger is what is read of it: where
\* it has not the row it had, the runs that were known make a lapse.
LEMMA RestartStep == ASSUME Inv, NEW read \in BOOLEAN, Restart(read) PROVE Inv'
<1> USE DEF Inv
<1>1. \A s \in Slot : tasks'[s] = NoTask
  BY DEF Restart
<1>2. loop' = LoopIdle /\ inFlight' = {} /\ ledgerFile' = ledgerFile
  BY DEF Restart
<1>3. /\ ledger' \in [Ticket -> Entry]
      /\ \A t \in Ticket : ledger'[t] \in {ledgerFile[t], None}
  BY DEF Restart, TypeOK, Entry
<1>4. ASSUME NEW t \in Ticket, spent[t] # None
      PROVE  \/ spent'[t] = spent[t] /\ ledger'[t] = ledger[t]
             \/ spent'[t] = [key |-> spent[t].key, runs |-> spent[t].runs,
                             lapses |-> spent[t].lapses + 1]
  BY <1>4 DEF Restart, TypeOK
<1>5. \A t \in Ticket : spent[t] = None => spent'[t] = None
  BY DEF Restart
<1>6. spent' \in [Ticket -> Spent]
  <2>1. ASSUME NEW t \in Ticket PROVE spent'[t] \in Spent
    <3>1. CASE spent[t] = None
      BY <1>5, <3>1 DEF Spent
    <3>2. CASE spent[t] # None
      <4>1. /\ spent[t].key \in Runnable /\ spent[t].runs \in Nat /\ spent[t].lapses \in Nat
            /\ spent[t] \in Spent
        BY <3>2 DEF TypeOK, Spent
      <4>2. CASE spent'[t] = spent[t]
        BY <4>1, <4>2
      <4>3. CASE spent'[t] = [key |-> spent[t].key, runs |-> spent[t].runs,
                              lapses |-> spent[t].lapses + 1]
        <5>1. spent[t].lapses + 1 \in Nat
          BY <4>1
        <5> QED BY <4>1, <4>3, <5>1 DEF Spent
      <4> QED BY <1>4, <3>2, <4>2, <4>3
    <3> QED BY <3>1, <3>2
  <2>2. spent' = [t \in Ticket |-> spent'[t]]
    BY DEF Restart
  <2> QED BY <2>1, <2>2
<1>7. TypeOK'
  <2>1. tasks' \in [Slot -> TaskType]
    <3>1. NoTask \in TaskType
      BY DEF NoTask, TaskType
    <3> QED BY <3>1 DEF Restart
  <2>2. loop' \in [pc : {"idle", "clean"}, seen : [Ticket -> Seen] \cup {None},
                   todo : SUBSET Ticket]
    BY <1>2 DEF LoopIdle
  <2>3. crashes' \in 0 .. MaxCrashes
    BY SymphonyAssumption DEF Restart, TypeOK
  <2> QED BY <1>2, <1>3, <1>6, <2>1, <2>2, <2>3
          DEF Restart, TypeOK, TaskType, Busy, Entry, Spent, kaneo
<1>8. AttemptsLeft'
  <2>1. \A t \in Ticket : Within(ledger'[t]) /\ Within(ledgerFile'[t])
    BY <1>2, <1>3 DEF AttemptsLeft, Within
  <2>2. ASSUME NEW t \in Ticket, spent'[t] # None
        PROVE  spent'[t].runs <= MaxAttempts * spent'[t].lapses + Known(t)'
    <3>1. spent[t] # None /\ spent[t].runs \in Nat /\ spent[t].lapses \in Nat
      BY <1>5, <2>2 DEF TypeOK
    <3>2. CASE spent'[t] = spent[t] /\ ledger'[t] = ledger[t]
      BY <3>1, <3>2 DEF AttemptsLeft, Known
    <3>3. CASE spent'[t] = [key |-> spent[t].key, runs |-> spent[t].runs,
                            lapses |-> spent[t].lapses + 1]
      <4>1. /\ MaxAttempts \in Nat
            /\ MaxAttempts * (spent[t].lapses + 1) = MaxAttempts * spent[t].lapses + MaxAttempts
            /\ MaxAttempts * spent[t].lapses \in Nat
        BY <3>1, SymphonyAssumption
      <4>2. Known(t) \in 0 .. MaxAttempts
        BY <4>1 DEF Known, AttemptsLeft, Within, TypeOK, Row
      <4>3. Known(t)' \in Nat
        BY <1>3 DEF Known, Entry, Row
      <4>4. spent[t].runs <= MaxAttempts * spent[t].lapses + Known(t)
        BY <3>1 DEF AttemptsLeft
      <4>5. PICK p \in Nat : p = MaxAttempts * spent[t].lapses
        BY <4>1
      <4>6. spent'[t].runs = spent[t].runs /\ MaxAttempts * spent'[t].lapses = p + MaxAttempts
        BY <3>3, <4>1, <4>5
      <4> QED BY <3>1, <4>1, <4>2, <4>3, <4>4, <4>5, <4>6
    <3> QED BY <1>4, <3>1, <3>2, <3>3
  <2> QED BY <2>1, <2>2 DEF AttemptsLeft
<1>9. OfTasks'
  BY <1>1, <1>2 DEF OfTasks, Tasks, Flight, Unsettled, WorkspaceKept, Passed,
                    Idle, Task, ForAgent, NoTask, LoopIdle
<1> QED BY <1>7, <1>8, <1>9

\* Time passes: a window that has passed stays passed.
LEMMA TickStep == ASSUME Inv, Tick PROVE Inv'
<1>1. Window \in Nat
  BY SymphonyAssumption
<1>2. notices' \in [Ticket -> SUBSET (0 .. Window)]
  <2>1. \A t \in Ticket : notices'[t] = {IF d = 0 THEN 0 ELSE d - 1 : d \in notices[t]}
    BY DEF Tick
  <2>2. \A t \in Ticket : notices[t] \subseteq 0 .. Window
    BY DEF Inv, TypeOK
  <2>3. \A t \in Ticket : notices'[t] \subseteq 0 .. Window
    BY <1>1, <2>1, <2>2
  <2> QED BY <2>3 DEF Tick
<1>3. ready' \in [Ticket -> 0 .. Window \cup {None}]
  <2>1. \A t \in Ticket : ready[t] \in 0 .. Window \cup {None}
    BY DEF Inv, TypeOK
  <2>2. \A t \in Ticket :
            (IF ready[t] = None \/ ready[t] = Window THEN ready[t] ELSE ready[t] + 1)
                \in 0 .. Window \cup {None}
    BY <1>1, <2>1
  <2> QED BY <2>2, Zenon DEF Tick
<1>4. TypeOK'
  BY <1>2, <1>3 DEF Tick, Inv, TypeOK, bounds, book
<1>5. AttemptsLeft'
  BY BookAlone DEF Tick
<1>6. \A t \in Ticket : Over(t) => Over(t)'
  BY DEF Tick, Over
<1>7. OfTasks'
  BY <1>6, TasksAlone DEF Tick, Inv, OfTasks, Tasks, TypeOK, book
<1> QED BY <1>4, <1>5, <1>7 DEF Inv

-----------------------------------------------------------------------------
(***************************************************************************)
(* The theorems.                                                           *)
(***************************************************************************)

\* It holds of a service that starts with any tickets.
LEMMA Initially == Init => Inv
<1> SUFFICES ASSUME Init PROVE Inv
  OBVIOUS
<1>1. TypeOK
  <2>1. tasks \in [Slot -> TaskType]
    <3>1. NoTask \in TaskType
      BY DEF NoTask, TaskType
    <3> QED BY <3>1 DEF Init
  <2>2. loop \in [pc : {"idle", "clean"}, seen : [Ticket -> Seen] \cup {None},
                  todo : SUBSET Ticket]
    BY DEF Init, LoopIdle
  <2> QED BY <2>1, <2>2, SymphonyAssumption
          DEF Init, TypeOK, TaskType, Busy, Status, Active, Runnable
<1>2. AttemptsLeft
  BY DEF Init, AttemptsLeft, Within
<1>3. OfTasks
  BY DEF Init, OfTasks, Tasks, Flight, Unsettled, WorkspaceKept, Passed,
         Idle, Task, ForAgent, NoTask, LoopIdle
<1> QED BY <1>1, <1>2, <1>3 DEF Inv

\* Every step keeps it.
LEMMA Inductive == Inv /\ [Next]_vars => Inv'
<1> SUFFICES ASSUME Inv, [Next]_vars PROVE Inv'
  OBVIOUS
<1>1. CASE LoopStep
  BY <1>1, ListStep, DispatchStep, CleanStep DEF LoopStep
<1>2. CASE \E s \in Slot : Admission(s) \/ TaskStep(s)
  BY <1>2, TaskSteps
<1>3. CASE Environment
  BY <1>3, OperatorStep, RestartStep, TickStep DEF Environment
<1>4. CASE UNCHANGED vars
  <2>1. TypeOK' /\ AttemptsLeft'
    BY <1>4, BookAlone DEF Inv, TypeOK, vars, kaneo, book, bounds
  <2>2. OfTasks'
    BY <1>4, TasksAlone DEF Inv, OfTasks, Tasks, Over, vars, kaneo, book, bounds
  <2> QED BY <2>1, <2>2 DEF Inv
<1> QED BY <1>1, <1>2, <1>3, <1>4 DEF Next

\* The invariant holds of every behaviour of Symphony.
THEOREM Invariance == Spec => []Inv
BY Initially, Inductive, PTL DEF Spec

\* Every variable holds what the code can put there.
THEOREM TypeCorrect == Spec => []TypeOK
<1>1. Inv => TypeOK
  BY DEF Inv
<1> QED BY <1>1, Invariance, PTL

\* No two tasks ever work on one ticket, from however stale a list they are.
THEOREM OneTaskEach == Spec => []OneTaskPerTicket
<1>1. Inv => OneTaskPerTicket
  <2> SUFFICES ASSUME Inv, NEW r \in Slot, NEW s \in Slot, tasks[r] # NoTask,
                      tasks[r].ticket = tasks[s].ticket
               PROVE  r = s
    BY DEF OneTaskPerTicket
  <2>1. ~Idle(r) /\ tasks[r].ticket \in Ticket
    BY DEF Inv, OfTasks, Tasks
  <2>2. ~Idle(s)
    BY <2>1, SymphonyAssumption DEF Inv, OfTasks, Tasks, NoTask
  <2> QED BY <2>1, <2>2 DEF Inv, OfTasks, Flight
<1> QED BY <1>1, Invariance, PTL

\* No more runs of a ticket at one key come to an end than it has attempts, and
\* as many again for each restart that found its row lost or behind.
THEOREM AttemptsAlwaysBounded == Spec => []AttemptsBounded
<1>1. Inv => AttemptsBounded
  <2> SUFFICES ASSUME Inv, NEW t \in Ticket, spent[t] # None
               PROVE  spent[t].runs <= MaxAttempts * (1 + spent[t].lapses)
    BY DEF AttemptsBounded
  <2>1. spent[t].runs \in Nat /\ spent[t].lapses \in Nat /\ MaxAttempts \in Nat
    BY SymphonyAssumption DEF Inv, TypeOK
  <2>2. /\ MaxAttempts * (1 + spent[t].lapses) = MaxAttempts * spent[t].lapses + MaxAttempts
        /\ MaxAttempts * spent[t].lapses \in Nat
    BY <2>1
  <2>3. Known(t) \in 0 .. MaxAttempts
    BY <2>1 DEF Inv, Known, AttemptsLeft, Within, TypeOK, Row
  <2>4. spent[t].runs <= MaxAttempts * spent[t].lapses + Known(t)
    BY DEF Inv, AttemptsLeft
  <2> QED BY <2>1, <2>2, <2>3, <2>4
<1> QED BY <1>1, Invariance, PTL

\* No workspace is removed under a running agent.
THEOREM WorkspaceAlwaysKept == Spec => []WorkspaceKept
<1>1. Inv => WorkspaceKept
  BY DEF Inv, OfTasks
<1> QED BY <1>1, Invariance, PTL

\* A task that waits is set to an agent by its admission and by nothing else.
LEMMA OnlyAcquire ==
    ASSUME Inv, Next, NEW s \in Slot, Task(s, "waiting"), tasks'[s].pc = "agent"
    PROVE  \E begins \in BOOLEAN : Acquire(s, begins)
<1>1. tasks'[s] # tasks[s]
  BY DEF Task
<1>2. CASE LoopStep
  <2>1. LoopDispatch
    BY <1>1, <1>2 DEF LoopStep, LoopList, LoopClean
  <2>2. PICK new \in SUBSET Ticket : \E place : Placed(new, place)
    BY <2>1, DispatchShape
  <2>3. PICK place : Placed(new, place)
    BY <2>2
  <2>4. PICK t \in new : place[t] = s
    BY <1>1, <2>3 DEF Placed
  <2>5. tasks'[s] = [pc |-> "waiting", ticket |-> t, seen |-> loop.seen[t]]
    BY <2>3, <2>4 DEF Placed
  <2>6. tasks'[s].pc = "waiting"
    BY <2>5
  <2> QED BY <2>6
<1>3. ASSUME NEW r \in Slot, Admission(r) \/ TaskStep(r)
      PROVE  \E begins \in BOOLEAN : Acquire(s, begins)
  <2>1. Ends(r) \/ \E pc \in Busy : Goes(r, pc)
    <3>1. CASE Admission(r)
      BY <3>1 DEF Admission, Acquire, Skip, Busy
    <3>2. CASE \E read \in BOOLEAN : ReadComments(r, read)
      <4>1. tasks[r].seen \in Seen
        BY <3>2 DEF Inv, OfTasks, Tasks, Idle, ReadComments, Task
      <4>2. PICK read \in BOOLEAN : ReadComments(r, read)
        BY <3>2
      <4> DEFINE next == Decision(tasks[r].seen,
                                  IF read THEN Deadline(tasks[r].ticket) ELSE None)
      <4>3. next \in Busy \cup {"over"}
        BY <4>1, DecisionType DEF Busy
      <4>4. IF next = "over" THEN Ends(r) ELSE Goes(r, next) /\ UNCHANGED inFlight
        BY <4>2, Zenon DEF ReadComments
      <4> HIDE DEF next
      <4> QED BY <4>3, <4>4
    <3>3. CASE TaskStep(r) /\ ~\E read \in BOOLEAN : ReadComments(r, read)
      BY <3>3 DEF TaskStep, AgentEnds, DispatchRaises, GiveUp, KaneoRaises, CancelMerge,
                  PostNotice, GhMerge, CloseTicket, Busy
    <3> QED BY <1>3, <3>1, <3>2, <3>3
  <2>2. r = s
    BY <1>1, <2>1, EndsShape, GoesShape DEF Inv
  <2>3. ~TaskStep(s)
    BY DEF TaskStep, AgentEnds, DispatchRaises, GiveUp, ReadComments, KaneoRaises, CancelMerge,
           PostNotice, GhMerge, CloseTicket, Task
  <2>4. ~Skip(s)
    <3> SUFFICES ASSUME Skip(s) PROVE FALSE
      OBVIOUS
    <3>1. tasks'[s].pc = "none"
      BY EndsShape DEF Skip, Inv, NoTask
    <3> QED BY <3>1
  <2> QED BY <1>3, <2>2, <2>3, <2>4 DEF Admission
<1>4. CASE Environment
  <2>1. \E read \in BOOLEAN : Restart(read)
    BY <1>1, <1>4 DEF Environment, Move, Veto, Unveto, Outside, Tick
  <2>2. tasks'[s].pc = "none"
    BY <2>1 DEF Restart, NoTask
  <2> QED BY <2>2
<1> QED BY <1>2, <1>3, <1>4 DEF Next

\* What the loop decided when it made a task still holds when the semaphore
\* lets the task go: no agent starts on a run that is settled.
THEOREM SettledNeverRerun == Spec => SettledNotRerun
<1>1. Inv /\ [Next]_vars =>
          [\A s \in Slot : Task(s, "waiting") /\ tasks'[s].pc = "agent" =>
               ShouldRun(tasks[s].ticket, tasks[s].seen.status)]_vars
  <2> SUFFICES ASSUME Inv, Next, NEW s \in Slot, Task(s, "waiting"),
                      tasks'[s].pc = "agent"
               PROVE  ShouldRun(tasks[s].ticket, tasks[s].seen.status)
    BY DEF vars
  <2>1. PICK begins \in BOOLEAN : Acquire(s, begins)
    BY OnlyAcquire
  <2>2. ForAgent(s)
    <3>1. tasks[s].seen.status # "ready-to-merge"
      <4> SUFFICES ASSUME tasks[s].seen.status = "ready-to-merge" PROVE FALSE
        OBVIOUS
      <4>1. Goes(s, "comments")
        BY <2>1 DEF Acquire
      <4>2. tasks'[s].pc = "comments"
        BY <4>1, GoesShape DEF Inv, Busy
      <4> QED BY <4>2
    <3> QED BY <3>1 DEF ForAgent, Task
  <2> QED BY <2>2 DEF Inv, OfTasks, Unsettled
<1> QED BY <1>1, Invariance, PTL DEF Spec, SettledNotRerun

\* A pull request is merged only when a window was announced for its ticket, and
\* every window announced for it has passed.
THEOREM AlwaysMergedAfterWindow == Spec => MergedAfterWindow
<1>1. Inv /\ [Next]_vars =>
          [\A t \in merged' \ merged : Policy = "auto-with-veto" =>
               notices[t] # {} /\ \A d \in notices[t] : d = 0]_vars
  <2> SUFFICES ASSUME Inv, Next, NEW t \in merged' \ merged, Policy = "auto-with-veto"
               PROVE  Over(t)
    BY DEF Over, vars
  <2>1. \E s \in Slot, ok, landed \in BOOLEAN : GhMerge(s, ok, landed)
    BY DEF Next, LoopStep, LoopList, LoopClean, LoopDispatch, Admission, Acquire, Skip,
           TaskStep, AgentEnds, DispatchRaises, GiveUp, ReadComments, KaneoRaises,
           CancelMerge, PostNotice, CloseTicket, Environment, Move, Veto, Unveto,
           Restart, Tick, Outside
  <2>2. PICK s \in Slot : Task(s, "merge") /\ t = tasks[s].ticket
    BY <2>1 DEF GhMerge
  <2> QED BY <2>2 DEF Inv, OfTasks, Passed
<1> QED BY <1>1, Invariance, PTL DEF Spec, MergedAfterWindow

-----------------------------------------------------------------------------
(***************************************************************************)
(* Symphony implements MergePromise.                                       *)
(***************************************************************************)

\* What a task has found and decided, and that it closes only what is merged.
SetRight(s) ==
    /\ tasks[s].pc \in {"comments", "cancel", "notice", "merge", "close"} =>
           tasks[s].seen.status = "ready-to-merge"
    /\ tasks[s].pc \in {"cancel", "notice", "merge", "close"} =>
           Policy # "always-human-merge"
    /\ Task(s, "cancel") => tasks[s].seen.rejected
    /\ tasks[s].pc \in {"notice", "merge", "close"} => ~tasks[s].seen.rejected
    /\ Task(s, "notice") => Policy = "auto-with-veto"
    /\ Task(s, "close") => tasks[s].ticket \in merged

Merging == \A s \in Slot : SetRight(s)

\* The decisions that are not to wait, and when each is taken.
LEMMA DecisionFor ==
    ASSUME NEW seen \in Seen, NEW deadline, Decision(seen, deadline) # "over"
    PROVE  /\ Policy # "always-human-merge"
           /\ Decision(seen, deadline) = "cancel" <=> seen.rejected
           /\ Decision(seen, deadline) = "notice" => Policy = "auto-with-veto"
<1>1. seen.rejected \in BOOLEAN
  BY DEF Seen
<1> QED BY <1>1, SymphonyAssumption DEF Decision

\* A step of a task ends it, or makes it go on to what it has decided.
LEMMA TaskStepShape ==
    ASSUME Inv, Merging, NEW s \in Slot, Admission(s) \/ TaskStep(s)
    PROVE  /\ ~Idle(s) /\ loop' = loop /\ merged \subseteq merged'
           /\ \/ Ends(s)
              \/ /\ SetRight(s)'
                 /\ \E pc \in Busy \ {"waiting"} : Goes(s, pc) /\ UNCHANGED inFlight
<1> DEFINE Right(pc) == Goes(s, pc) /\ UNCHANGED inFlight /\ SetRight(s)'
<1>1. ~Idle(s) /\ loop' = loop /\ merged \subseteq merged'
  BY DEF Admission, Acquire, Skip, TaskStep, AgentEnds, DispatchRaises, GiveUp, ReadComments,
         KaneoRaises, CancelMerge, PostNotice, GhMerge, CloseTicket, Idle, Task
<1>2. tasks[s].seen \in Seen /\ SetRight(s)
  BY <1>1 DEF Inv, OfTasks, Tasks, Merging
<1>3. \A pc \in Busy : Goes(s, pc) =>
          tasks'[s].pc = pc /\ tasks'[s].ticket = tasks[s].ticket /\ tasks'[s].seen = tasks[s].seen
  BY GoesShape DEF Inv
<1>4. ASSUME NEW begins \in BOOLEAN, Acquire(s, begins)
      PROVE  \E pc \in Busy \ {"waiting"} : Right(pc)
  <2>1. PICK pc \in {"comments", "agent", "failing"} :
            /\ Goes(s, pc) /\ UNCHANGED inFlight
            /\ pc = "comments" => tasks[s].seen.status = "ready-to-merge"
    BY <1>4 DEF Acquire
  <2>2. Right(pc)
    BY <1>3, <2>1 DEF SetRight, Task, Busy
  <2> QED BY <2>2 DEF Busy
<1>5. ASSUME NEW ok \in BOOLEAN, NEW saved \in BOOLEAN, AgentEnds(s, ok, saved)
      PROVE  Ends(s) \/ Right("give-up")
  BY <1>3, <1>5 DEF AgentEnds, SetRight, Task, Busy
<1>6. ASSUME NEW read \in BOOLEAN, ReadComments(s, read)
      PROVE  Ends(s) \/ \E pc \in Busy \ {"waiting"} : Right(pc)
  <2> DEFINE next == Decision(tasks[s].seen,
                              IF read THEN Deadline(tasks[s].ticket) ELSE None)
  <2>1. next \in {"over", "cancel", "notice", "merge"}
    BY <1>2, DecisionType
  <2>2. next # "over" => /\ Policy # "always-human-merge"
                         /\ next = "cancel" <=> tasks[s].seen.rejected
                         /\ next = "notice" => Policy = "auto-with-veto"
    BY <1>2, DecisionFor, Zenon
  <2>3. IF next = "over" THEN Ends(s) ELSE Goes(s, next) /\ UNCHANGED inFlight
    BY <1>6, Zenon DEF ReadComments
  <2>4. tasks[s].seen.status = "ready-to-merge"
    BY <1>2, <1>6 DEF SetRight, ReadComments, Task
  <2>5. PICK pc \in {"over", "cancel", "notice", "merge"} : pc = next
    BY <2>1
  <2> HIDE DEF next
  <2>6. CASE pc # "over"
    <3>1. Goes(s, pc) /\ UNCHANGED inFlight /\ pc \in Busy \ {"waiting"}
      BY <2>3, <2>5, <2>6 DEF Busy
    <3>2. tasks'[s].pc = pc /\ tasks'[s].seen = tasks[s].seen
      BY <1>3, <3>1
    <3>3. SetRight(s)'
      BY <2>2, <2>4, <2>5, <2>6, <3>2 DEF SetRight, Task
    <3> QED BY <3>1, <3>3
  <2> QED BY <2>3, <2>5, <2>6
<1>7. ASSUME NEW ok \in BOOLEAN, NEW landed \in BOOLEAN, GhMerge(s, ok, landed)
      PROVE  Ends(s) \/ Right("close")
  <2> SUFFICES ASSUME ok PROVE Right("close")
    BY <1>7 DEF GhMerge
  <2>1. Goes(s, "close") /\ UNCHANGED inFlight /\ tasks[s].ticket \in merged' /\ Task(s, "merge")
    BY <1>7 DEF GhMerge
  <2> QED BY <1>2, <1>3, <2>1 DEF SetRight, Task, Busy
<1>8. ASSUME Skip(s) \/ DispatchRaises(s) \/ GiveUp(s) \/ KaneoRaises(s) \/ CancelMerge(s)
             \/ PostNotice(s) \/ CloseTicket(s)
      PROVE  Ends(s)
  BY <1>8 DEF Skip, DispatchRaises, GiveUp, KaneoRaises, CancelMerge, PostNotice, CloseTicket
<1>9. "give-up" \in Busy \ {"waiting"} /\ "close" \in Busy \ {"waiting"}
  BY DEF Busy
<1>10. Ends(s) \/ \E pc \in Busy \ {"waiting"} : Right(pc)
  <2> HIDE DEF Right
  <2> QED BY <1>4, <1>5, <1>6, <1>7, <1>8, <1>9 DEF Admission, TaskStep
<1> QED BY <1>1, <1>10

\* A task that a step leaves alone stays set right.
LEMMA StillSetRight ==
    ASSUME NEW s \in Slot, SetRight(s), tasks'[s] = tasks[s], merged \subseteq merged'
    PROVE  SetRight(s)'
BY DEF SetRight, Task

\* One that is none, or new, is.
LEMMA FreshSetRight ==
    ASSUME NEW s \in Slot, tasks'[s].pc \in {"none", "waiting"}
    PROVE  SetRight(s)'
BY DEF SetRight, Task

\* Every step keeps it so.
LEMMA MergingInductive == Inv /\ Merging /\ [Next]_vars => Merging'
<1> SUFFICES ASSUME Inv, Merging, [Next]_vars, NEW r \in Slot PROVE SetRight(r)'
  BY DEF Merging
<1>0. SetRight(r) /\ NoTask.pc = "none"
  BY DEF Merging, NoTask
<1>1. CASE LoopDispatch
  <2>1. PICK new \in SUBSET Ticket : \E place : Placed(new, place)
    BY <1>1, DispatchShape
  <2>2. PICK place : Placed(new, place)
    BY <2>1
  <2>3. merged' = merged
    BY <1>1 DEF LoopDispatch
  <2>4. ASSUME NEW t \in new, place[t] = r PROVE SetRight(r)'
    <3>1. tasks'[r] = [pc |-> "waiting", ticket |-> t, seen |-> loop.seen[t]]
      BY <2>2, <2>4 DEF Placed
    <3> QED BY <3>1, FreshSetRight
  <2>5. CASE \A t \in new : place[t] # r
    BY <1>0, <2>2, <2>3, <2>5, StillSetRight DEF Placed
  <2> QED BY <2>4, <2>5
<1>2. ASSUME NEW s \in Slot, Admission(s) \/ TaskStep(s) PROVE SetRight(r)'
  <2>1. CASE r # s
    <3>1. tasks'[r] = tasks[r]
      BY <1>2, <2>1, TaskStepShape, EndsShape, GoesShape DEF Inv
    <3> QED BY <1>0, <1>2, <3>1, TaskStepShape, StillSetRight
  <2>2. CASE r = s /\ Ends(s)
    <3>1. tasks'[r].pc = "none"
      BY <1>0, <2>2, EndsShape DEF Inv
    <3> QED BY <3>1, FreshSetRight
  <2> QED BY <1>2, <2>1, <2>2, TaskStepShape
<1>3. CASE \E read \in BOOLEAN : Restart(read)
  <2>1. tasks'[r].pc = "none"
    BY <1>0, <1>3 DEF Restart
  <2> QED BY <2>1, FreshSetRight
<1>4. CASE tasks' = tasks /\ merged' = merged
  BY <1>0, <1>4, StillSetRight
<1>5. LoopList \/ (\E t \in Ticket, removed, saved \in BOOLEAN : LoopClean(t, removed, saved)) \/ Tick
        \/ (\E t \in Ticket : (\E new \in Status : Move(t, new)) \/ Veto(t) \/ Unveto(t))
        \/ UNCHANGED vars
      => tasks' = tasks /\ merged' = merged
  BY DEF LoopList, LoopClean, Tick, Move, Veto, Unveto, Outside, vars
<1> QED BY <1>1, <1>2, <1>3, <1>4, <1>5 DEF Next, LoopStep, Environment

\* What MergePromise sees of Symphony.
Ready == {t \in Ticket : status[t] = "ready-to-merge"}
Free == {t \in Ticket : FoundReady(t, FALSE)}
Barred == {t \in Ticket : FoundReady(t, TRUE)}
Going == {tasks[s].ticket : s \in {s \in Slot : tasks[s].pc \in {"merge", "close"}}}

\* It is all in what was found of each ticket, and in the tasks that merge.
LEMMA FoundIn ==
    ASSUME NEW t, NEW b
    PROVE  FoundReady(t, b) <=>
               \/ \E s \in Slot : /\ tasks[s].ticket = t
                                  /\ tasks[s].seen = [status |-> "ready-to-merge", rejected |-> b]
               \/ /\ loop.pc = "clean"
                  /\ loop.seen[t] = [status |-> "ready-to-merge", rejected |-> b]
BY DEF FoundReady, Looks

LEMMA GoingIn ==
    ASSUME NEW t
    PROVE  t \in Going <=>
               \E s \in Slot : tasks[s].ticket = t /\ tasks[s].pc \in {"merge", "close"}
BY DEF Going

\* The list and the tickets of the tasks stay: nothing is found and nothing lost.
LEMMA FoundSame ==
    ASSUME loop'.pc = loop.pc, loop'.seen = loop.seen,
           \A s \in Slot : tasks'[s].ticket = tasks[s].ticket /\ tasks'[s].seen = tasks[s].seen
    PROVE  Free' = Free /\ Barred' = Barred
<1>1. \A t, b : FoundReady(t, b)' <=> FoundReady(t, b)
  BY DEF FoundReady, Looks
<1> QED BY <1>1 DEF Free, Barred

\* A task that goes on, and whether it then merges.
LEMMA FoundGoes ==
    ASSUME Inv, NEW s \in Slot, NEW pc \in Busy, Goes(s, pc), loop' = loop
    PROVE  /\ Free' = Free /\ Barred' = Barred
           /\ Going' \ {tasks[s].ticket} = Going \ {tasks[s].ticket}
           /\ pc \in {"merge", "close"} => Going' = Going \cup {tasks[s].ticket}
           /\ pc \notin {"merge", "close"} /\ tasks[s].pc \notin {"merge", "close"} =>
                  Going' = Going
<1>1. /\ tasks'[s].pc = pc
      /\ \A r \in Slot : tasks'[r].ticket = tasks[r].ticket /\ tasks'[r].seen = tasks[r].seen
      /\ \A r \in Slot \ {s} : tasks'[r].pc = tasks[r].pc
  BY GoesShape DEF Inv
<1>2. Free' = Free /\ Barred' = Barred
  BY <1>1, FoundSame
<1> QED BY <1>1, <1>2 DEF Going

\* A task that ends: the others are of other tickets.
LEMMA FoundEnds ==
    ASSUME Inv, NEW s \in Slot, ~Idle(s), Ends(s), loop' = loop
    PROVE  /\ Free' \in {Free, Free \ {tasks[s].ticket}}
           /\ Barred' \in {Barred, Barred \ {tasks[s].ticket}}
           /\ Going' = Going \ {tasks[s].ticket}
<1> DEFINE t == tasks[s].ticket
<1>1. tasks'[s] = NoTask /\ \A r \in Slot \ {s} : tasks'[r] = tasks[r]
  BY EndsShape DEF Inv
<1>2. NoTask.pc = "none" /\ NoTask.ticket \notin Ticket
  BY SymphonyAssumption DEF NoTask
<1>3. t \in Ticket
  BY DEF Inv, OfTasks, Tasks
<1>4. \A u \in Ticket, b \in BOOLEAN : FoundReady(u, b)' => FoundReady(u, b)
  BY <1>1, <1>2 DEF FoundReady, Looks
<1>5. \A u \in Ticket \ {t}, b \in BOOLEAN : FoundReady(u, b) => FoundReady(u, b)'
  BY <1>1 DEF FoundReady, Looks
<1>6. Free' \subseteq Free /\ Free \ {t} \subseteq Free'
  BY <1>4, <1>5 DEF Free
<1>7. Barred' \subseteq Barred /\ Barred \ {t} \subseteq Barred'
  BY <1>4, <1>5 DEF Barred
<1>8. Going' = Going \ {t}
  <2>1. \A u : u \in Going' => u \in Going /\ u # t
    <3> SUFFICES ASSUME NEW r \in Slot, tasks'[r].pc \in {"merge", "close"}
                 PROVE  tasks'[r].ticket \in Going /\ tasks'[r].ticket # t
      BY DEF Going
    <3>1. r # s /\ tasks'[r] = tasks[r] /\ ~Idle(r)
      BY <1>1, <1>2 DEF Idle
    <3> QED BY <3>1 DEF Going, Inv, OfTasks, Flight
  <2>2. \A u \in Going \ {t} : u \in Going'
    BY <1>1 DEF Going
  <2> QED BY <2>1, <2>2
<1> HIDE DEF t
<1> QED BY <1>6, <1>7, <1>8 DEF t

\* So it is from the start.
LEMMA MergingInitially == Init => Merging
BY DEF Init, NoTask, Merging, SetRight, Task

\* The promise begins where the service does: nothing is found, and nothing merges.
LEMMA PromiseInit == Init => Merges!Init
<1> SUFFICES ASSUME Init PROVE Merges!Init
  OBVIOUS
<1>1. \A s \in Slot : tasks[s].pc = "none" /\ tasks[s].ticket \notin Ticket
  BY SymphonyAssumption DEF Init, NoTask
<1>2. loop.pc = "idle"
  BY DEF Init, LoopIdle
<1>3. Free = {} /\ Barred = {}
  BY <1>1, <1>2 DEF Free, Barred, FoundReady, Looks
<1>4. Going = {}
  BY <1>1 DEF Going
<1> QED BY <1>3, <1>4 DEF Init, Merges!Init, Free, Barred, Going

\* The list is a look at every ticket.
LEMMA PromiseList == ASSUME Inv, LoopList PROVE Merges!Look
<1>1. loop.pc = "idle" /\ loop'.pc = "clean" /\ tasks' = tasks
  BY DEF LoopList
<1>2. \A t \in Ticket : loop'.seen[t] = [status |-> status[t], rejected |-> t \in rejected]
  BY DEF LoopList
<1>3. \A t \in Ticket, b \in BOOLEAN :
          FoundReady(t, b)' <=> FoundReady(t, b) \/ (t \in Ready /\ (t \in rejected <=> b))
  <2> TAKE t \in Ticket, b \in BOOLEAN
  <2>1. PICK vetoed \in BOOLEAN : vetoed = (t \in rejected)
    <3>1. (t \in rejected) \in BOOLEAN
      BY SMT
    <3> QED BY <3>1, Zenon
  <2>2. loop'.seen[t] = [status |-> status[t], rejected |-> vetoed]
    BY <1>2, <2>1
  <2>3. loop'.seen[t] = [status |-> "ready-to-merge", rejected |-> b]
            <=> status[t] = "ready-to-merge" /\ vetoed = b
    BY <2>2
  <2> QED BY <1>1, <2>1, <2>3 DEF FoundReady, Looks, Ready
<1>4. Free' = Free \cup (Ready \ rejected) /\ Barred' = Barred \cup (Ready \cap rejected)
  BY <1>3 DEF Free, Barred, Ready
<1>5. Going' = Going
  BY <1>1 DEF Going
<1> QED BY <1>4, <1>5 DEF Merges!Look, LoopList, Ready, Free, Barred, Going, kaneo

\* The tasks the loop makes take what it has found, and the rest of it is dropped.
LEMMA PromiseDispatch == ASSUME Inv, LoopDispatch PROVE Merges!Drop
<1>1. PICK new \in SUBSET Ticket : \E place : Placed(new, place)
  BY DispatchShape
<1>2. PICK place : Placed(new, place)
  BY <1>1
<1>3. loop.pc = "clean" /\ loop'.pc = "idle"
  BY DEF LoopDispatch, LoopIdle
<1>4. \A s \in Slot : \/ tasks'[s] = tasks[s]
                      \/ \E t \in new :
                             tasks'[s] = [pc |-> "waiting", ticket |-> t, seen |-> loop.seen[t]]
  <2> SUFFICES ASSUME NEW s \in Slot, tasks'[s] # tasks[s]
               PROVE  \E t \in new : tasks'[s] =
                          [pc |-> "waiting", ticket |-> t, seen |-> loop.seen[t]]
    OBVIOUS
  <2>1. PICK t \in new : place[t] = s
    BY <1>2 DEF Placed
  <2> QED BY <1>2, <2>1 DEF Placed
<1>5. \A u \in Ticket, b \in BOOLEAN : FoundReady(u, b)' => FoundReady(u, b)
  <2> SUFFICES ASSUME NEW u \in Ticket, NEW b \in BOOLEAN, NEW s \in Slot,
                      tasks'[s].ticket = u,
                      tasks'[s].seen = [status |-> "ready-to-merge", rejected |-> b]
               PROVE  FoundReady(u, b)
    BY <1>3 DEF FoundReady, Looks
  <2>1. ASSUME NEW t \in new,
               tasks'[s] = [pc |-> "waiting", ticket |-> t, seen |-> loop.seen[t]]
        PROVE  tasks'[s].seen = loop.seen[u]
    BY <2>1
  <2>2. tasks'[s] = tasks[s] \/ tasks'[s].seen = loop.seen[u]
    BY <1>4, <2>1
  <2> QED BY <1>3, <2>2, FoundIn
<1>6. Free' \subseteq Free /\ Barred' \subseteq Barred
  BY <1>5 DEF Free, Barred
<1>7. Going' \subseteq Going
  <2>1. \A s \in Slot : tasks'[s].pc \in {"merge", "close"} => tasks'[s] = tasks[s]
    <3> TAKE s \in Slot
    <3>1. ASSUME NEW t \in new,
                 tasks'[s] = [pc |-> "waiting", ticket |-> t, seen |-> loop.seen[t]]
          PROVE  tasks'[s].pc = "waiting"
      BY <3>1
    <3> QED BY <1>4, <3>1
  <2> QED BY <2>1 DEF Going
<1> QED BY <1>6, <1>7 DEF Merges!Drop, LoopDispatch, Free, Barred, Going, kaneo

\* What the promise sees of a step that leaves Kaneo and the pull requests alone.
LEMMA PromiseUnseen ==
    ASSUME UNCHANGED <<status, rejected, notices, merged>>
    PROVE  /\ Free' \subseteq Free /\ Barred' \subseteq Barred /\ Going' \subseteq Going =>
                  Merges!Drop
           /\ Free' = Free /\ Barred' = Barred /\ Going' = Going => UNCHANGED Merges!vars
BY DEF Merges!Drop, Merges!vars, Free, Barred, Going

\* A task that ends leaves its ticket.
LEMMA PromiseLeaves ==
    ASSUME Inv, NEW s \in Slot, ~Idle(s), Ends(s), loop' = loop
    PROVE  Merges!Leaves(tasks[s].ticket)
BY FoundEnds DEF Merges!Leaves, Free, Barred, Going

\* It does no more when it ends without a word to Kaneo or to GitHub.
LEMMA PromiseEnds ==
    ASSUME Inv, NEW s \in Slot, ~Idle(s), Ends(s), loop' = loop,
           UNCHANGED <<status, rejected, notices, merged>>
    PROVE  [Merges!Next]_(Merges!vars)
<1>1. Free' \subseteq Free /\ Barred' \subseteq Barred /\ Going' \subseteq Going
  BY FoundEnds
<1> QED BY <1>1, PromiseUnseen DEF Merges!Next

\* And nothing when it goes on to something that is not a merge.
LEMMA PromiseGoes ==
    ASSUME Inv, NEW s \in Slot, NEW pc \in Busy \ {"merge", "close"}, Goes(s, pc), loop' = loop,
           tasks[s].pc \notin {"merge", "close"}, UNCHANGED <<status, rejected, notices, merged>>
    PROVE  [Merges!Next]_(Merges!vars)
<1>1. Free' = Free /\ Barred' = Barred /\ Going' = Going
  BY FoundGoes
<1> QED BY <1>1, PromiseUnseen

\* A task that merges, cancels or posts a notice works from what a look has found.
LEMMA FoundByTask ==
    ASSUME Inv, Merging, NEW s \in Slot, NEW b \in BOOLEAN,
           tasks[s].pc \in {"comments", "cancel", "notice", "merge", "close"},
           tasks[s].seen.rejected = b
    PROVE  FoundReady(tasks[s].ticket, b)
<1>1. tasks[s].seen \in Seen /\ tasks[s].seen.status = "ready-to-merge"
  BY DEF Inv, OfTasks, Tasks, Idle, Merging, SetRight
<1>2. tasks[s].seen = [status |-> "ready-to-merge", rejected |-> b]
  BY <1>1 DEF Seen
<1> QED BY <1>2 DEF FoundReady, Looks

\* No other task of its ticket merges.
LEMMA NotGoing ==
    ASSUME Inv, NEW s \in Slot, ~Idle(s), tasks[s].pc \notin {"merge", "close"}
    PROVE  tasks[s].ticket \notin Going
BY DEF Going, Inv, OfTasks, Flight, Idle

\* The comments are read: the merge is decided on, or the task waits, or goes on to
\* what it has to say.
LEMMA PromiseComments ==
    ASSUME Inv, Merging, NEW s \in Slot, NEW read \in BOOLEAN, ReadComments(s, read)
    PROVE  [Merges!Next]_(Merges!vars)
<1> DEFINE next == Decision(tasks[s].seen, IF read THEN Deadline(tasks[s].ticket) ELSE None)
<1>1. /\ ~Idle(s) /\ tasks[s].pc = "comments" /\ loop' = loop
      /\ UNCHANGED <<status, rejected, notices, merged>>
  BY DEF ReadComments, Idle, Task, kaneo
<1>2. tasks[s].ticket \in Ticket /\ tasks[s].seen \in Seen
  BY <1>1 DEF Inv, OfTasks, Tasks
<1>3. IF next = "over" THEN Ends(s) ELSE Goes(s, next)
  BY Zenon DEF ReadComments
<1>4. next \in {"over", "cancel", "notice", "merge"}
  BY <1>2, DecisionType
<1>5. next # "over" => /\ Policy # "always-human-merge"
                       /\ next = "cancel" <=> tasks[s].seen.rejected
  BY <1>2, DecisionFor, Zenon
<1>6. next = "merge" /\ Policy = "auto-with-veto" => Over(tasks[s].ticket)
  BY <1>2, DecisionMerges, Zenon
<1> HIDE DEF next
<1>7. ASSUME next = "merge" PROVE Merges!Decide(tasks[s].ticket)
  <2>1. tasks[s].seen.rejected = FALSE
    BY <1>2, <1>5, <1>7 DEF Seen
  <2>2. tasks[s].ticket \in Free
    BY <1>1, <1>2, <2>1, FoundByTask DEF Free
  <2>3. Free' = Free /\ Barred' = Barred /\ Going' = Going \cup {tasks[s].ticket}
    BY <1>1, <1>3, <1>7, FoundGoes DEF Busy
  <2> QED BY <1>1, <1>5, <1>6, <1>7, <2>2, <2>3
          DEF Merges!Decide, Merges!Announced, Merges!Over, Over, Free, Barred, Going
<1>8. CASE next = "over"
  BY <1>1, <1>3, <1>8, PromiseEnds
<1>9. CASE next \in {"cancel", "notice"}
  <2>1. PICK pc \in {"cancel", "notice"} : pc = next
    BY <1>9
  <2> QED BY <1>1, <1>3, <2>1, PromiseGoes DEF Busy
<1>10. CASE next = "merge"
  <2>1. PICK t \in Ticket : t = tasks[s].ticket
    BY <1>2
  <2>2. Merges!Decide(t)
    BY <1>7, <1>10, <2>1 DEF Merges!Decide
  <2> QED BY <2>2 DEF Merges!Next
<1> QED BY <1>4, <1>8, <1>9, <1>10

\* The service writes: a window opens, the ticket goes back to review or is done.
LEMMA PromiseWrites ==
    ASSUME Inv, Merging, NEW s \in Slot, CancelMerge(s) \/ PostNotice(s) \/ CloseTicket(s)
    PROVE  [Merges!Next]_(Merges!vars)
<1>1. ~Idle(s) /\ Ends(s) /\ loop' = loop
  BY DEF CancelMerge, PostNotice, CloseTicket, Idle, Task
<1>2. PICK t \in Ticket : t = tasks[s].ticket
  BY <1>1 DEF Inv, OfTasks, Tasks
<1>3. tasks[s].seen.rejected \in BOOLEAN
  BY <1>1 DEF Inv, OfTasks, Tasks, Seen
<1>4. Merges!Leaves(t)
  BY <1>1, <1>2, PromiseLeaves DEF Merges!Leaves
<1>5. SetRight(s)
  BY DEF Merging
<1>6. ASSUME NEW new \in Status \ {"ready-to-merge"}, MovesTo(t, new)
      PROVE  Ready' = Ready \ {t}
  BY <1>6 DEF MovesTo, Ready, Inv, TypeOK
<1>7. CASE CancelMerge(s)
  <2>1. t \in Barred /\ t \notin Going /\ Policy # "always-human-merge"
    BY <1>1, <1>2, <1>3, <1>5, <1>7, FoundByTask, NotGoing DEF Barred, CancelMerge, SetRight, Task
  <2>2. Ready' = Ready \ {t}
    BY <1>2, <1>6, <1>7 DEF CancelMerge, Status, Active, Runnable
  <2>3. Merges!SendBack(t)
    BY <1>4, <1>7, <2>1, <2>2 DEF CancelMerge, Merges!SendBack, Ready, Barred, Going
  <2> QED BY <2>3 DEF Merges!Next
<1>8. CASE PostNotice(s)
  <2>1. t \in Free /\ t \notin Going /\ Policy = "auto-with-veto"
    BY <1>1, <1>2, <1>3, <1>5, <1>8, FoundByTask, NotGoing DEF Free, PostNotice, SetRight, Task
  <2>2. Merges!Announce(t)
    BY <1>2, <1>4, <1>8, <2>1 DEF PostNotice, Merges!Announce, Ready, Free, Going
  <2> QED BY <2>2 DEF Merges!Next
<1>9. CASE CloseTicket(s)
  <2>1. t \in Going /\ t \in merged
    BY <1>2, <1>5, <1>9 DEF Going, CloseTicket, SetRight, Task
  <2>2. Ready' = Ready \ {t}
    BY <1>2, <1>6, <1>9 DEF CloseTicket, Status, Active, Cleanup
  <2>3. Merges!Close(t)
    BY <1>4, <1>9, <2>1, <2>2 DEF CloseTicket, Merges!Close, Ready, Going
  <2> QED BY <2>3 DEF Merges!Next
<1> QED BY <1>7, <1>8, <1>9

\* The pull request is merged, whether or not the service is told; or it is not.
LEMMA PromiseMerge ==
    ASSUME Inv, NEW s \in Slot, NEW ok \in BOOLEAN, NEW landed \in BOOLEAN,
           GhMerge(s, ok, landed)
    PROVE  [Merges!Next]_(Merges!vars)
<1>1. /\ ~Idle(s) /\ loop' = loop /\ UNCHANGED <<status, rejected, notices>>
      /\ tasks[s].pc = "merge" /\ IF ok THEN Goes(s, "close") ELSE Ends(s)
  BY DEF GhMerge, Idle, Task, kaneo
<1>2. PICK t \in Ticket : t = tasks[s].ticket
  BY <1>1 DEF Inv, OfTasks, Tasks
<1>3. CASE landed
  <2>1. t \in Going /\ merged' = merged \cup {t}
    BY <1>1, <1>2, <1>3 DEF Going, GhMerge
  <2>2. CASE ok
    <3>1. Free' = Free /\ Barred' = Barred /\ Going' = Going
      BY <1>1, <1>2, <2>1, <2>2, FoundGoes DEF Busy
    <3>2. Merges!Merge(t)
      BY <1>1, <2>1, <3>1 DEF Merges!Merge, Free, Barred, Going
    <3> QED BY <3>2 DEF Merges!Next
  <2>3. CASE ~ok
    <3>1. Merges!Leaves(t)
      BY <1>1, <1>2, <2>3, PromiseLeaves DEF Merges!Leaves
    <3>2. Merges!Merge(t)
      BY <1>1, <2>1, <3>1 DEF Merges!Merge, Going
    <3> QED BY <3>2 DEF Merges!Next
  <2> QED BY <2>2, <2>3
<1>4. CASE ~landed
  <2>1. Ends(s) /\ merged' = merged
    BY <1>1, <1>4 DEF GhMerge
  <2> QED BY <1>1, <2>1, PromiseEnds
<1> QED BY <1>3, <1>4

\* Whatever a task does, the promise allows it.
LEMMA PromiseTask ==
    ASSUME Inv, Merging, NEW s \in Slot, Admission(s) \/ TaskStep(s)
    PROVE  [Merges!Next]_(Merges!vars)
<1>1. ~Idle(s) /\ loop' = loop
  BY TaskStepShape
<1>2. ASSUME NEW begins \in BOOLEAN, Acquire(s, begins) PROVE [Merges!Next]_(Merges!vars)
  <2>1. PICK pc \in {"comments", "agent", "failing"} : Goes(s, pc)
    BY <1>2 DEF Acquire
  <2>2. tasks[s].pc = "waiting" /\ UNCHANGED <<status, rejected, notices, merged>>
    BY <1>2 DEF Acquire, Task, kaneo
  <2> QED BY <1>1, <2>1, <2>2, PromiseGoes DEF Busy
<1>3. ASSUME NEW ok \in BOOLEAN, NEW saved \in BOOLEAN, AgentEnds(s, ok, saved) PROVE [Merges!Next]_(Merges!vars)
  <2>1. /\ tasks[s].pc \in {"agent", "failing"} /\ (Ends(s) \/ Goes(s, "give-up"))
        /\ UNCHANGED <<status, rejected, notices, merged>>
    BY <1>3 DEF AgentEnds, Task, kaneo
  <2>2. CASE Ends(s)
    BY <1>1, <2>1, <2>2, PromiseEnds
  <2>3. CASE Goes(s, "give-up")
    BY <1>1, <2>1, <2>3, PromiseGoes DEF Busy
  <2> QED BY <2>1, <2>2, <2>3
<1>4. CASE Skip(s) \/ DispatchRaises(s) \/ GiveUp(s) \/ KaneoRaises(s)
  <2>1. Ends(s) /\ UNCHANGED <<status, rejected, notices, merged>>
    BY <1>4 DEF Skip, DispatchRaises, GiveUp, KaneoRaises, kaneo
  <2> QED BY <1>1, <2>1, PromiseEnds
<1> QED BY <1>2, <1>3, <1>4, PromiseComments, PromiseWrites, PromiseMerge
        DEF Admission, TaskStep

\* The operator and the agents see to the tickets, and time passes.
LEMMA PromiseOperator ==
    ASSUME Inv, NEW t \in Ticket, (\E new \in Status : Move(t, new)) \/ Veto(t) \/ Unveto(t)
    PROVE  Merges!Operator
<1>1. /\ loop' = loop /\ tasks' = tasks /\ notices' = notices /\ merged' = merged
      /\ rejected' \subseteq Ticket
  BY DEF Move, Veto, Unveto, Outside, Inv, TypeOK
<1>2. Free' = Free /\ Barred' = Barred /\ Going' = Going
  BY <1>1, FoundSame DEF Going
<1> QED BY <1>1, <1>2 DEF Merges!Operator, Free, Barred, Going

\* Each step of the service is one of the promise, or none of its business.
LEMMA PromiseStep == Inv /\ Merging /\ [Next]_vars => [Merges!Next]_(Merges!vars)
<1> SUFFICES ASSUME Inv, Merging, [Next]_vars PROVE [Merges!Next]_(Merges!vars)
  OBVIOUS
<1>1. CASE LoopList
  BY <1>1, PromiseList DEF Merges!Next
<1>2. CASE LoopDispatch
  BY <1>2, PromiseDispatch DEF Merges!Next
<1>3. ASSUME NEW t \in Ticket, NEW removed \in BOOLEAN, NEW saved \in BOOLEAN,
             LoopClean(t, removed, saved)
      PROVE  [Merges!Next]_(Merges!vars)
  <2>1. /\ loop'.pc = loop.pc /\ loop'.seen = loop.seen /\ tasks' = tasks
        /\ UNCHANGED <<status, rejected, notices, merged>>
    BY <1>3 DEF LoopClean, kaneo, Inv, TypeOK
  <2>2. Free' = Free /\ Barred' = Barred /\ Going' = Going
    BY <2>1, FoundSame DEF Going
  <2> QED BY <2>1, <2>2, PromiseUnseen
<1>4. ASSUME NEW s \in Slot, Admission(s) \/ TaskStep(s) PROVE [Merges!Next]_(Merges!vars)
  BY <1>4, PromiseTask
<1>5. ASSUME NEW t \in Ticket, (\E new \in Status : Move(t, new)) \/ Veto(t) \/ Unveto(t)
      PROVE  [Merges!Next]_(Merges!vars)
  BY <1>5, PromiseOperator DEF Merges!Next
<1>6. CASE \E read \in BOOLEAN : Restart(read)
  <2>1. \A s \in Slot : tasks'[s].pc = "none" /\ tasks'[s].ticket \notin Ticket
    BY <1>6, SymphonyAssumption DEF Restart, NoTask
  <2>2. loop'.pc = "idle" /\ UNCHANGED <<status, rejected, notices, merged>>
    BY <1>6 DEF Restart, LoopIdle, kaneo
  <2>3. Free' = {} /\ Barred' = {} /\ Going' = {}
    BY <2>1, <2>2 DEF Free, Barred, Going, FoundReady, Looks
  <2> QED BY <2>2, <2>3, PromiseUnseen DEF Merges!Next
<1>7. CASE Tick
  <2>1. loop' = loop /\ tasks' = tasks
    BY <1>7 DEF Tick
  <2>2. Free' = Free /\ Barred' = Barred /\ Going' = Going
    BY <2>1, FoundSame DEF Going
  <2> QED BY <1>7, <2>2 DEF Tick, Merges!Next, Merges!Pass, Free, Barred, Going
<1>8. CASE UNCHANGED vars
  <2>1. loop' = loop /\ tasks' = tasks /\ UNCHANGED <<status, rejected, notices, merged>>
    BY <1>8 DEF vars, kaneo, book
  <2>2. Free' = Free /\ Barred' = Barred /\ Going' = Going
    BY <2>1, FoundSame DEF Going
  <2> QED BY <2>1, <2>2, PromiseUnseen
<1> QED BY <1>1, <1>2, <1>3, <1>4, <1>5, <1>6, <1>7, <1>8 DEF Next, LoopStep, Environment

\* Symphony implements MergePromise: whatever tasks, stale lists, comments and
\* restarts lie behind it, a pull request is merged only after a look that found its
\* ticket ready and not rejected and after the end of every window announced, no task
\* opens a window meanwhile, and only what is merged is closed.
THEOREM KeepsMergePromiseHolds == Spec => KeepsMergePromise
<1>1. Inv /\ Merging /\ [Next]_vars => Merging'
  BY MergingInductive
<1>2. Spec => []Merging
  BY <1>1, MergingInitially, Invariance, PTL DEF Spec
<1>3. Inv /\ Merging /\ [Next]_vars => [Merges!Next]_(Merges!vars)
  BY PromiseStep
<1> QED BY <1>2, <1>3, PromiseInit, Invariance, PTL DEF Spec, KeepsMergePromise, Merges!Spec

\* The promise is enough for the window: a merge that is under way where the operator
\* has a veto has had its windows, they are over, and none opens meanwhile.
Owed ==
    /\ notices = [t \in Ticket |-> notices[t]]
    /\ \A t \in Going \cap Ticket : Policy = "auto-with-veto" => Over(t)

LEMMA OwedInductive == Owed /\ [Merges!Next]_(Merges!vars) => Owed'
<1> SUFFICES ASSUME Owed, [Merges!Next]_(Merges!vars) PROVE Owed'
  OBVIOUS
<1> USE DEF Owed
<1>1. CASE notices' = notices /\ Going' \subseteq Going
  BY <1>1 DEF Over
<1>2. CASE Merges!Operator \/ Merges!Look \/ Merges!Drop \/ UNCHANGED Merges!vars
  BY <1>1, <1>2 DEF Merges!Operator, Merges!Look, Merges!Drop, Merges!vars, Going
<1>3. CASE Merges!Pass
  <2>1. Going' = Going /\ notices' = [t \in Ticket |-> {IF d = 0 THEN 0 ELSE d - 1 : d \in notices[t]}]
    BY <1>3 DEF Merges!Pass, Going
  <2>2. \A t \in Ticket : Over(t) => Over(t)'
    BY <2>1 DEF Over
  <2> QED BY <2>1, <2>2
<1>4. ASSUME NEW t \in Ticket, Merges!Announce(t) PROVE Owed'
  <2>1. /\ t \notin Going /\ Going' = Going \ {t}
        /\ notices' = [notices EXCEPT ![t] = @ \cup {Window}]
    BY <1>4 DEF Merges!Announce, Merges!Leaves, Going
  <2>2. \A u \in Ticket \ {t} : notices'[u] = notices[u]
    BY <2>1
  <2> QED BY <2>1, <2>2 DEF Over
<1>5. ASSUME NEW t \in Ticket, Merges!Decide(t) PROVE Owed'
  <2>1. Going' = Going \cup {t} /\ notices' = notices /\ (Policy = "auto-with-veto" => Over(t))
    BY <1>5 DEF Merges!Decide, Merges!Announced, Merges!Over, Over, Going
  <2> QED BY <2>1 DEF Over
<1>6. ASSUME NEW t \in Ticket, Merges!Merge(t) \/ Merges!Close(t) \/ Merges!SendBack(t) PROVE Owed'
  <2>1. notices' = notices /\ Going' \subseteq Going
    BY <1>6 DEF Merges!Merge, Merges!Close, Merges!SendBack, Merges!Leaves, Going
  <2> QED BY <1>1, <2>1
<1> QED BY <1>2, <1>3, <1>4, <1>5, <1>6 DEF Merges!Next

\* MergePromise says enough: whatever keeps it merges a pull request only when a
\* window was announced for its ticket, and every window announced for it has passed.
THEOREM PromiseOfTheWindow == KeepsMergePromise => MergedAfterWindow
<1>1. Merges!Init => Owed
  BY DEF Merges!Init, Owed, Going
<1>2. Owed /\ [Merges!Next]_(Merges!vars) =>
          [\A t \in merged' \ merged : Policy = "auto-with-veto" =>
               notices[t] # {} /\ \A d \in notices[t] : d = 0]_vars
  <2> SUFFICES ASSUME Owed, [Merges!Next]_(Merges!vars), NEW u \in merged' \ merged,
                      Policy = "auto-with-veto"
               PROVE  Over(u)
    BY DEF Over
  <2>1. PICK t \in Ticket : Merges!Merge(t)
    BY DEF Merges!Next, Merges!Operator, Merges!Look, Merges!Drop, Merges!Pass, Merges!Announce,
           Merges!Decide, Merges!Close, Merges!SendBack, Merges!vars
  <2>2. u = t /\ t \in Going
    BY <2>1 DEF Merges!Merge, Going
  <2> QED BY <2>2 DEF Owed
<1> QED BY <1>1, <1>2, OwedInductive, PTL DEF KeepsMergePromise, Merges!Spec, MergedAfterWindow

-----------------------------------------------------------------------------
(***************************************************************************)
(* Symphony implements RunPromise.                                         *)
(***************************************************************************)

\* What RunPromise sees: the runs of each ticket.
AllRuns == [t \in Ticket |-> RunsOf(t)]

\* A task with a ticket is the only one the ticket can have a run in.
LEMMA OneRunAtMost ==
    ASSUME Inv, NEW s \in Slot, ~Idle(s)
    PROVE  /\ tasks[s].ticket \in Ticket
           /\ RunsOf(tasks[s].ticket) = IF Task(s, "agent") THEN {s} ELSE {}
<1>1. \A r \in RunsOf(tasks[s].ticket) : ~Idle(r) /\ tasks[r].ticket = tasks[s].ticket
  BY DEF RunsOf, Idle, Task
<1> QED BY <1>1 DEF Inv, OfTasks, Tasks, Flight, RunsOf, Task

\* A ticket that is not in flight has none.
LEMMA NoRunNoFlight ==
    ASSUME Inv, NEW t \in Ticket, t \notin inFlight
    PROVE  RunsOf(t) = {}
BY DEF Inv, OfTasks, Flight, RunsOf, Idle, Task

\* A step of a task is about the runs of its own ticket.
LEMMA RunsAfter ==
    ASSUME Inv, NEW s \in Slot, ~Idle(s),
           Ends(s) \/ \E pc \in Busy : Goes(s, pc)
    PROVE  AllRuns' = [AllRuns EXCEPT ![tasks[s].ticket] =
                           IF tasks'[s].pc = "agent" THEN {s} ELSE {}]
<1>1. PICK t \in Ticket : t = tasks[s].ticket
  BY OneRunAtMost
<1>2. /\ \A r \in Slot \ {s} : tasks'[r] = tasks[r]
      /\ tasks'[s].pc # "none" => tasks'[s].ticket = t
  BY <1>1, EndsShape, GoesShape DEF Inv, NoTask
<1>3. \A u \in Ticket \ {t} : RunsOf(u)' = RunsOf(u)
  <2> TAKE u \in Ticket \ {t}
  <2>1. \A r \in Slot : (Task(r, "agent") /\ tasks[r].ticket = u)'
            <=> Task(r, "agent") /\ tasks[r].ticket = u
    BY <1>1, <1>2 DEF Task
  <2> QED BY <2>1 DEF RunsOf
<1>4. RunsOf(t)' = IF tasks'[s].pc = "agent" THEN {s} ELSE {}
  <2>1. \A r \in Slot \ {s} : ~(Task(r, "agent") /\ tasks[r].ticket = t)'
    BY <1>1, <1>2 DEF Inv, OfTasks, Flight, Idle, Task
  <2> QED BY <1>2, <2>1 DEF RunsOf, Task
<1> QED BY <1>1, <1>3, <1>4 DEF AllRuns

\* What a task does but for its admission: it ends, or goes on to no run.
LEMMA NoRunBegins ==
    ASSUME Inv, NEW s \in Slot, Skip(s) \/ TaskStep(s)
    PROVE  /\ ~Idle(s) /\ workspaces' = workspaces
           /\ Ends(s) \/ \E pc \in Busy \ {"agent"} : Goes(s, pc)
<1>1. ASSUME NEW read \in BOOLEAN, ReadComments(s, read)
      PROVE  Ends(s) \/ \E pc \in Busy \ {"agent"} : Goes(s, pc)
  <2> DEFINE next == Decision(tasks[s].seen,
                              IF read THEN Deadline(tasks[s].ticket) ELSE None)
  <2>1. next \in {"over"} \cup (Busy \ {"agent"})
    BY <1>1, DecisionType DEF Busy, Inv, OfTasks, Tasks, Idle, ReadComments, Task
  <2>2. IF next = "over" THEN Ends(s) ELSE Goes(s, next)
    BY <1>1, Zenon DEF ReadComments
  <2> HIDE DEF next
  <2> QED BY <2>1, <2>2
<1>2. ~Idle(s) /\ workspaces' = workspaces
  BY DEF Skip, TaskStep, AgentEnds, DispatchRaises, GiveUp, ReadComments, KaneoRaises,
         CancelMerge, PostNotice, GhMerge, CloseTicket, Idle, Task
<1> QED BY <1>1, <1>2 DEF Skip, TaskStep, AgentEnds, DispatchRaises, GiveUp, KaneoRaises,
                          CancelMerge, PostNotice, GhMerge, CloseTicket, Busy

\* The promise begins where the service does: nothing runs.
LEMMA RunsInit == Init => Runs!Init
<1> SUFFICES ASSUME Init PROVE Runs!Init
  OBVIOUS
<1>1. \A t \in Ticket : RunsOf(t) = {}
  BY DEF Init, NoTask, RunsOf, Task
<1> QED BY <1>1 DEF Init, Runs!Init

\* A task's step begins its run, ends it, or is none of a run's business.
LEMMA RunsTask ==
    ASSUME Inv, NEW s \in Slot, Admission(s) \/ TaskStep(s)
    PROVE  [Runs!Next]_(Runs!vars)
<1>1. ASSUME Ends(s) \/ \E pc \in Busy \ {"agent"} : Goes(s, pc), ~Idle(s), workspaces' = workspaces
      PROVE  [Runs!Next]_(Runs!vars)
  <2>1. PICK t \in Ticket : t = tasks[s].ticket
    BY <1>1, OneRunAtMost
  <2>2. tasks'[s].pc # "agent"
    BY <1>1, EndsShape, GoesShape DEF Inv, NoTask
  <2>3. AllRuns' = [AllRuns EXCEPT ![t] = {}]
    BY <1>1, <2>1, <2>2, RunsAfter
  <2>4. Runs!End(t)
    BY <1>1, <2>3 DEF Runs!End, AllRuns
  <2> QED BY <2>4 DEF Runs!Next
<1>2. ASSUME NEW begins \in BOOLEAN, Acquire(s, begins) PROVE [Runs!Next]_(Runs!vars)
  <2>1. ~Idle(s) /\ ~Task(s, "agent")
    BY <1>2 DEF Acquire, Idle, Task
  <2>2. PICK t \in Ticket : t = tasks[s].ticket
    BY <2>1, OneRunAtMost
  <2>3. CASE Goes(s, "agent") /\ workspaces' = workspaces \cup {t}
    <3>1. tasks'[s].pc = "agent"
      BY <2>3, GoesShape DEF Inv, Busy
    <3>2. AllRuns' = [AllRuns EXCEPT ![t] = {s}]
      BY <2>1, <2>2, <2>3, <3>1, RunsAfter DEF Busy
    <3>3. AllRuns[t] = {}
      BY <2>1, <2>2, OneRunAtMost DEF AllRuns
    <3>4. Runs!Begin(t, s)
      BY <2>3, <3>2, <3>3 DEF Runs!Begin, AllRuns
    <3> QED BY <3>4 DEF Runs!Next
  <2>4. CASE (Goes(s, "comments") \/ Goes(s, "failing")) /\ workspaces' = workspaces
    BY <1>1, <2>1, <2>4 DEF Busy
  <2> QED BY <1>2, <2>2, <2>3, <2>4 DEF Acquire
<1>3. CASE Skip(s) \/ TaskStep(s)
  BY <1>1, <1>3, NoRunBegins
<1> QED BY <1>2, <1>3 DEF Admission

\* Each step of the service is one of the promise.
LEMMA RunsStep == Inv /\ [Next]_vars => [Runs!Next]_(Runs!vars)
<1> SUFFICES ASSUME Inv, [Next]_vars PROVE [Runs!Next]_(Runs!vars)
  OBVIOUS
<1>1. ASSUME NEW t \in Ticket, NEW removed \in BOOLEAN, NEW saved \in BOOLEAN,
             LoopClean(t, removed, saved)
      PROVE  [Runs!Next]_(Runs!vars)
  <2>1. AllRuns' = AllRuns
    BY <1>1 DEF LoopClean, AllRuns, RunsOf, Task
  <2>2. CASE t \notin inFlight /\ workspaces' = workspaces \ {t}
    <3>1. AllRuns[t] = {}
      BY <2>2, NoRunNoFlight DEF AllRuns
    <3>2. Runs!Remove(t)
      BY <2>1, <2>2, <3>1 DEF Runs!Remove, AllRuns
    <3> QED BY <3>2 DEF Runs!Next
  <2>3. CASE workspaces' = workspaces
    BY <2>1, <2>3 DEF Runs!vars, AllRuns
  <2> QED BY <1>1, <2>2, <2>3 DEF LoopClean, Cleanable
<1>2. CASE LoopDispatch
  <2>1. PICK new \in SUBSET Ticket : \E place : Placed(new, place)
    BY <1>2, DispatchShape
  <2>2. PICK place : Placed(new, place)
    BY <2>1
  <2>3. \A s \in Slot : tasks'[s] = tasks[s] \/ (~Task(s, "agent")' /\ ~Task(s, "agent"))
    <3> SUFFICES ASSUME NEW s \in Slot, tasks'[s] # tasks[s]
                 PROVE  ~Task(s, "agent")' /\ ~Task(s, "agent")
      OBVIOUS
    <3>1. PICK t \in new : place[t] = s
      BY <2>2 DEF Placed
    <3>2. tasks'[s] = [pc |-> "waiting", ticket |-> t, seen |-> loop.seen[t]]
      BY <2>2, <3>1 DEF Placed
    <3>3. tasks[s] = NoTask
      BY <2>2, <3>1 DEF Placed
    <3> QED BY <3>2, <3>3 DEF Task, NoTask
  <2>4. \A t \in Ticket : RunsOf(t)' = RunsOf(t)
    BY <2>3 DEF RunsOf, Task
  <2> QED BY <1>2, <2>4 DEF LoopDispatch, Runs!vars
<1>3. ASSUME NEW s \in Slot, Admission(s) \/ TaskStep(s) PROVE [Runs!Next]_(Runs!vars)
  BY <1>3, RunsTask
<1>4. CASE \E read \in BOOLEAN : Restart(read)
  <2>1. \A t \in Ticket : RunsOf(t)' = {}
    BY <1>4 DEF Restart, NoTask, RunsOf, Task
  <2>2. Runs!Die
    BY <1>4, <2>1 DEF Runs!Die, Restart
  <2> QED BY <2>2 DEF Runs!Next
<1>5. CASE tasks' = tasks /\ workspaces' = workspaces
  BY <1>5 DEF Runs!vars, RunsOf, Task
<1>6. LoopList \/ Tick \/ UNCHANGED vars
        \/ (\E t \in Ticket : (\E new \in Status : Move(t, new)) \/ Veto(t) \/ Unveto(t))
      => tasks' = tasks /\ workspaces' = workspaces
  BY DEF LoopList, Tick, Move, Veto, Unveto, Outside, vars
<1> QED BY <1>1, <1>2, <1>3, <1>4, <1>5, <1>6 DEF Next, LoopStep, Environment

\* Symphony implements RunPromise: whatever stale list a task was made from, no agent
\* begins beside another of its ticket, and no workspace is removed under one.
THEOREM KeepsRunPromiseHolds == Spec => KeepsRunPromise
BY RunsInit, RunsStep, Invariance, PTL DEF Spec, KeepsRunPromise, Runs!Spec

\* RunPromise says enough: whatever keeps it has one run of a ticket at a time, with
\* its workspace there.
THEOREM PromiseOfTheRuns ==
    KeepsRunPromise => [](\A t \in Ticket : /\ \A r, s \in RunsOf(t) : r = s
                                            /\ RunsOf(t) # {} => t \in workspaces)
<1> DEFINE Safe == \A t \in Ticket : /\ \A r, s \in RunsOf(t) : r = s
                                     /\ RunsOf(t) # {} => t \in workspaces
           Same(t) == RunsOf(t)' = RunsOf(t) /\ (t \in workspaces => t \in workspaces')
<1>1. Runs!Init => Safe
  BY DEF Runs!Init
<1>2. ASSUME Safe, [Runs!Next]_(Runs!vars) PROVE Safe'
  <2>1. ASSUME NEW t \in Ticket, NEW r \in Slot, Runs!Begin(t, r) PROVE Safe'
    <3>1. RunsOf(t)' = {r} /\ t \in workspaces' /\ \A u \in Ticket \ {t} : Same(u)
      BY <2>1 DEF Runs!Begin
    <3> QED BY <1>2, <3>1
  <2>2. ASSUME NEW t \in Ticket, Runs!End(t) PROVE Safe'
    <3>1. RunsOf(t)' = {} /\ \A u \in Ticket \ {t} : Same(u)
      BY <2>2 DEF Runs!End
    <3> QED BY <1>2, <3>1
  <2>3. ASSUME NEW t \in Ticket, Runs!Remove(t) PROVE Safe'
    <3>1. RunsOf(t)' = {} /\ \A u \in Ticket \ {t} : Same(u)
      BY <2>3 DEF Runs!Remove
    <3> QED BY <1>2, <3>1
  <2>4. CASE Runs!Die
    <3>1. \A u \in Ticket : RunsOf(u)' = {}
      BY <2>4 DEF Runs!Die
    <3> QED BY <3>1
  <2>5. CASE UNCHANGED Runs!vars
    <3>1. \A u \in Ticket : Same(u)
      BY <2>5 DEF Runs!vars
    <3> QED BY <1>2, <3>1
  <2> QED BY <1>2, <2>1, <2>2, <2>3, <2>4, <2>5 DEF Runs!Next
<1> QED BY <1>1, <1>2, PTL DEF KeepsRunPromise, Runs!Spec
=============================================================================
