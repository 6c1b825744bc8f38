-------------------------- MODULE WorktreeApiProofs --------------------------
(***************************************************************************)
(* Proofs about the worktree API, for every number of tasks and requests:  *)
(* the six properties its run checks, and EntriesKept.  The inductive      *)
(* invariant IInv says what the holder of the flock has read (Ledger),     *)
(* that the entry of a task is a lock of its target (Ownership), whose     *)
(* drafts there are, and what a request has removed by the time it gives   *)
(* its entry up (Cleared).  KeepsRegistryHolds, that StateStore implements *)
(* Registry, rests on Ledger and Untouched.                                *)
(***************************************************************************)
EXTENDS WorktreeApi, TLAPS, FiniteSetTheorems

-----------------------------------------------------------------------------
(***************************************************************************)
(* The inductive invariant, in parts.                                      *)
(***************************************************************************)

\* A request is for a task, and past its StateStore there is a file.
Served ==
    \A r \in Request :
       /\ requests[r].pc # "idle" => /\ TaskOf(r) \in Task
                                     /\ requests[r].op \in {"post", "delete"}
       /\ requests[r].pc \notin {"idle", "create"} => file # Nil

\* What the holder of the flock has read is still what there is, or the empty
\* file has been written over it; or it is an add that read nothing.  And an add
\* still has its room.
Books ==
    \A r \in Request :
       requests[r].pc \in {"adding", "removing"} =>
          /\ requests[r].read \in SUBSET Task
          /\ file \subseteq requests[r].read \/ Blind(r)
          /\ Cardinality(requests[r].read) <= Capacity
          /\ requests[r].pc = "adding" => /\ requests[r].op = "post"
                                          /\ Cardinality(requests[r].read) < Capacity
                                          /\ TaskOf(r) \notin requests[r].read

Ledger == TypeOK /\ Served /\ Books /\ CapacityKept

\* A POST that nobody met has its entry.
Owned == \A t \in Task : \A q \in Making(t) : ~requests[q].raced => Registered(t)

\* Two POSTs that work on one task both know they are not alone.
Alone == \A t \in Task : \A q, r \in Making(t) :
            q # r => requests[q].raced /\ requests[r].raced

\* So do a POST and a DELETE.
Apart == \A t \in Task : \A d \in Deleting(t), q \in Making(t) :
            requests[d].raced /\ requests[q].raced

Ownership == Owned /\ Alone /\ Apart

\* The draft of a request is its own, and is there only between the two halves
\* of materialise_env.
Drafts == \A t \in Task : \A q \in disk[t] \cap Request : At(q, "post", "rename") /\ TaskOf(q) = t

\* Who is about to give up the entry of a task, alone, has taken away what the
\* entry stands for; and who has just got one finds no secret there.
Settled(r) ==
    \/ requests[r].op = "post" /\ requests[r].pc \in {"env", "undo-dir", "remove", "removing"}
    \/ requests[r].op = "delete" /\ requests[r].pc \in {"destroy", "remove", "removing"}

ClearedAt(r) ==
    Settled(r) /\ ~requests[r].raced =>
        /\ disk[TaskOf(r)] \cap ({"env"} \cup Request) = {}
        /\ requests[r].pc \in {"remove", "removing"} /\ ~requests[r].left => disk[TaskOf(r)] = {}

Cleared == \A r \in Request : ClearedAt(r)

IInv == Ledger /\ Ownership /\ Drafts /\ Cleared

-----------------------------------------------------------------------------
(***************************************************************************)
(* What a step does to the requests, field by field.                       *)
(***************************************************************************)

Pc == {"idle", "create", "add", "adding", "env", "rename", "git", "undo-env",
       "undo-dir", "get", "unlink", "destroy", "remove", "removing"}

RequestType == [op : {"none", "post", "delete"}, task : Task \cup {Nil}, pc : Pc,
                read : (SUBSET Task) \cup {Nil}, raced : BOOLEAN, left : BOOLEAN]

Typed == requests \in [Request -> RequestType]

Stores ==
    /\ file \in (SUBSET Task) \cup {Nil} /\ lock \in Request \cup {Nil}
    /\ disk \in [Task -> SUBSET ({"dir", "git", "env", "tmp"} \cup Request)]
    /\ \A t \in Task : disk[t] # {} => "dir" \in disk[t]
    /\ listed \subseteq Task

Held == \A r \in Request : lock = r <=> requests[r].pc \in {"adding", "removing"}

\* One request is now at pc, the others are as they were.
Becomes(r, op, t, pc, read, raced, left) ==
    /\ Typed'
    /\ requests'[r].op = op /\ requests'[r].task = t /\ requests'[r].pc = pc
    /\ requests'[r].read = read /\ requests'[r].raced = raced /\ requests'[r].left = left
    /\ \A q \in Request \ {r} : requests'[q] = requests[q]

Ends(r) == Becomes(r, "none", Nil, "idle", Nil, FALSE, FALSE)

\* One request is now at pc, and those in met know that they met another.
Marks(r, pc, read, met) ==
    /\ Typed'
    /\ \A q \in Request :
          /\ requests'[q].op = requests[q].op /\ requests'[q].task = requests[q].task
          /\ requests'[q].left = requests[q].left
          /\ requests'[q].raced <=> requests[q].raced \/ q \in met
          /\ q # r => /\ requests'[q].pc = requests[q].pc
                      /\ requests'[q].read = requests[q].read
    /\ requests'[r].pc = pc /\ requests'[r].read = read

LEMMA TypeParts == TypeOK <=> Typed /\ Stores /\ Held
  BY DEF TypeOK, Typed, Stores, Held, RequestType, Pc

LEMMA GoesEffect ==
  ASSUME Typed, NEW r \in Request, NEW pc \in Pc, Goes(r, pc)
  PROVE  Becomes(r, requests[r].op, requests[r].task, pc, requests[r].read,
                 requests[r].raced, requests[r].left)
  BY DEF Typed, Goes, RequestType, Becomes

LEMMA GivesUpEffect ==
  ASSUME Typed, NEW r \in Request, NEW left \in BOOLEAN, GivesUp(r, left)
  PROVE  Becomes(r, requests[r].op, requests[r].task, "remove", requests[r].read,
                 requests[r].raced, left)
<1>1. requests' = [requests EXCEPT ![r] = [requests[r] EXCEPT !.pc = "remove", !.left = left]]
  BY DEF Typed, GivesUp
<1>2. [requests[r] EXCEPT !.pc = "remove", !.left = left] \in RequestType
  BY DEF Typed, RequestType, Pc
<1>. QED
  BY <1>1, <1>2 DEF Typed, Becomes, RequestType

LEMMA AnswersEffect ==
  ASSUME Typed, NEW r \in Request, Answers(r)
  PROVE  Ends(r)
<1>1. Idle \in RequestType
  BY DEF Idle, RequestType, Pc
<1>. QED
  BY <1>1 DEF Typed, Answers, Becomes, Ends, Idle

LEMMA RacedField ==
  ASSUME NEW b \in BOOLEAN, NEW s \in RequestType, NEW new, new = [s EXCEPT !.raced = b]
  PROVE  /\ new \in RequestType
         /\ new.op = s.op /\ new.task = s.task /\ new.left = s.left
         /\ new.pc = s.pc /\ new.read = s.read /\ new.raced = b
  BY DEF RequestType

LEMMA MeetEffect ==
  ASSUME Typed, NEW r \in Request, NEW pc \in Pc, NEW read \in (SUBSET Task) \cup {Nil}, NEW met,
         requests' = Meet([requests EXCEPT ![r].pc = pc, ![r].read = read], met)
  PROVE  Marks(r, pc, read, met)
<1> DEFINE rs == [requests EXCEPT ![r].pc = pc, ![r].read = read]
<1>1. /\ rs = [requests EXCEPT ![r] = [requests[r] EXCEPT !.pc = pc, !.read = read]]
      /\ [requests[r] EXCEPT !.pc = pc, !.read = read] \in RequestType
  BY DEF Typed, RequestType
<1>2. rs \in [Request -> RequestType]
  BY <1>1 DEF Typed
<1>3. \A q \in Request :
         /\ rs[q].op = requests[q].op /\ rs[q].task = requests[q].task
         /\ rs[q].left = requests[q].left /\ rs[q].raced = requests[q].raced
         /\ rs[q].pc = (IF q = r THEN pc ELSE requests[q].pc)
         /\ rs[q].read = (IF q = r THEN read ELSE requests[q].read)
  BY <1>1 DEF Typed, RequestType
<1>4. requests' = [q \in Request |-> [rs[q] EXCEPT !.raced = @ \/ q \in met]]
  BY DEF Meet
<1> HIDE DEF rs
<1>5. ASSUME NEW q \in Request
      PROVE  /\ requests'[q] \in RequestType
             /\ requests'[q].op = rs[q].op /\ requests'[q].task = rs[q].task
             /\ requests'[q].left = rs[q].left /\ requests'[q].pc = rs[q].pc
             /\ requests'[q].read = rs[q].read
             /\ requests'[q].raced <=> rs[q].raced \/ q \in met
  <2> DEFINE b == rs[q].raced \/ q \in met
  <2>1. requests'[q] = [rs[q] EXCEPT !.raced = b] /\ rs[q] \in RequestType /\ b \in BOOLEAN
    BY <1>2, <1>4
  <2> HIDE DEF b
  <2>3. /\ requests'[q] \in RequestType
        /\ requests'[q].op = rs[q].op /\ requests'[q].task = rs[q].task
        /\ requests'[q].left = rs[q].left /\ requests'[q].pc = rs[q].pc
        /\ requests'[q].read = rs[q].read
        /\ requests'[q].raced = b
    BY <2>1, RacedField
  <2>. QED
    BY <2>3 DEF b
<1>6. Typed'
  BY <1>4, <1>5 DEF Typed
<1>7. Typed' /\ \A q \in Request : requests'[q].raced <=> requests[q].raced \/ q \in met
  BY <1>3, <1>5, <1>6
<1>8. ASSUME NEW q \in Request
      PROVE  /\ requests'[q].op = requests[q].op /\ requests'[q].task = requests[q].task
             /\ requests'[q].left = requests[q].left
             /\ requests'[q].pc = (IF q = r THEN pc ELSE requests[q].pc)
             /\ requests'[q].read = (IF q = r THEN read ELSE requests[q].read)
  BY <1>3, <1>5
<1>. QED
  BY <1>7, <1>8 DEF Marks

LEMMA ArriveEffect ==
  ASSUME Typed, NEW r \in Request, NEW op \in {"post", "delete"}, NEW t \in Task,
         Arrive(r, op, t)
  PROVE  Becomes(r, op, t, IF file = Nil THEN "create" ELSE IF op = "post" THEN "add" ELSE "get",
                 Nil, FALSE, FALSE)
<1> DEFINE pc == IF file = Nil THEN "create" ELSE IF op = "post" THEN "add" ELSE "get"
           new == [Idle EXCEPT !.op = op, !.task = t, !.pc = pc]
<1>1. /\ new \in RequestType
      /\ new.op = op /\ new.task = t /\ new.pc = pc
      /\ new.read = Nil /\ new.raced = FALSE /\ new.left = FALSE
  BY DEF Idle, RequestType, Pc
<1>2. requests' = [requests EXCEPT ![r] = new]
  BY DEF Arrive
<1> HIDE DEF new
<1>. QED
  BY <1>1, <1>2 DEF Typed, Becomes

LEMMA CreateFileEffect ==
  ASSUME Typed, NEW r \in Request, CreateFile(r)
  PROVE  Marks(r, IF requests[r].op = "post" THEN "add" ELSE "get", requests[r].read,
               {q \in Request \ {r} : file # Nil /\ TaskOf(q) \in file})
<1> DEFINE own == [requests[r] EXCEPT !.pc = IF requests[r].op = "post" THEN "add" ELSE "get"]
           other(q) == [requests[q] EXCEPT !.raced = @ \/ (file # Nil /\ TaskOf(q) \in file)]
<1>1. own \in RequestType /\ \A q \in Request : other(q) \in RequestType
  BY DEF Typed, RequestType, Pc
<1>2. requests' = [q \in Request |-> IF q = r THEN own ELSE other(q)]
  BY DEF CreateFile
<1>. QED
  BY <1>1, <1>2 DEF Typed, Marks, RequestType

LEMMA AddReadEffect ==
  ASSUME Typed, NEW r \in Request, NEW pc \in Pc, NEW read \in SUBSET Task,
         requests' = [requests EXCEPT ![r].pc = pc, ![r].read = read]
  PROVE  Becomes(r, requests[r].op, requests[r].task, pc, read,
                 requests[r].raced, requests[r].left)
<1>1. /\ requests' = [requests EXCEPT ![r] = [requests[r] EXCEPT !.pc = pc, !.read = read]]
      /\ [requests[r] EXCEPT !.pc = pc, !.read = read] \in RequestType
  BY DEF Typed, RequestType
<1>. QED
  BY <1>1 DEF Typed, Becomes, RequestType

\* What a request reads is the file, or nothing.
LEMMA ReadingsEffect ==
  ASSUME Stores, file # Nil, NEW read \in Readings
  PROVE  /\ file \in SUBSET Task /\ read \in SUBSET Task
         /\ read = file \/ ("read" \in Faults /\ read = {})
  BY DEF Stores, Readings

LEMMA GetEffect ==
  ASSUME Typed, NEW r \in Request, NEW met,
         requests' = Meet([requests EXCEPT ![r].pc = "unlink"], met)
  PROVE  Marks(r, "unlink", requests[r].read, met)
<1>1. [requests EXCEPT ![r].pc = "unlink"]
         = [requests EXCEPT ![r].pc = "unlink", ![r].read = requests[r].read]
  BY DEF Typed, RequestType
<1>2. "unlink" \in Pc /\ requests[r].read \in (SUBSET Task) \cup {Nil}
  BY DEF Typed, RequestType, Pc
<1>. QED
  BY <1>1, <1>2, MeetEffect

LEMMA LedgerStep == Ledger /\ [Next]_vars => Ledger'
<1>. SUFFICES ASSUME Ledger, [Next]_vars
              PROVE  Ledger'
  OBVIOUS
<1>a. Typed /\ Stores /\ Held /\ Ledger
  BY TypeParts DEF Ledger
<1>b. Typed' /\ Stores' /\ Held' => TypeOK'
  BY TypeParts, PTL
<1>1. ASSUME NEW r \in Request, NEW op \in {"post", "delete"}, NEW t \in Task,
                 Arrive(r, op, t)
      PROVE  Ledger'
  <2>1. Becomes(r, op, t, IF file = Nil THEN "create" ELSE IF op = "post" THEN "add" ELSE "get",
                Nil, FALSE, FALSE)
    BY <1>a, <1>1, ArriveEffect
  <2>a. requests[r].pc = "idle" /\ UNCHANGED <<file, lock, disk, listed>>
    BY <1>1 DEF Arrive, Idle
  <2>2. Stores'
    BY <1>a, <2>1, <1>1, WorktreeAssumption
    DEF Stores, Typed, RequestType, Ledger, Served, Books, Becomes, Ends, Arrive, At, TaskOf
  <2>3. Held'
    BY <1>a, <2>1, <2>a DEF Held, Becomes
  <2>4. Served'
    BY <1>a, <2>1, <1>1, WorktreeAssumption
    DEF Ledger, Served, TaskOf, Typed, Stores, Becomes, Ends, Arrive, At, TaskOf
  <2>5. Books'
    BY <1>a, <2>1, <1>1, WorktreeAssumption
    DEF Ledger, Books, Blind, Held, Typed, Stores, TaskOf, CapacityKept, Becomes, Ends, Arrive, At,
        TaskOf
  <2>6. CapacityKept'
    BY <1>a, <2>1, <1>1 DEF Ledger, CapacityKept, Becomes, Ends, Arrive, At, TaskOf
  <2>. QED
    BY <2>1, <2>2, <2>3, <2>4, <2>5, <2>6, <1>b DEF Ledger, Becomes, Ends, Marks
<1>2. ASSUME NEW r \in Request, CreateFile(r)
      PROVE  Ledger'
  <2>1. Marks(r, IF requests[r].op = "post" THEN "add" ELSE "get", requests[r].read,
              {q \in Request \ {r} : file # Nil /\ TaskOf(q) \in file})
    BY <1>a, <1>2, CreateFileEffect
  <2>2. Stores'
    BY <1>a, <2>1, <1>2, WorktreeAssumption
    DEF Stores, Typed, RequestType, Ledger, Served, Books, Marks, CreateFile, At, TaskOf
  <2>3. Held'
    BY <1>a, <2>1, <1>2, WorktreeAssumption DEF Held, Typed, Stores, Marks, CreateFile, At, TaskOf
  <2>4. Served'
    BY <1>a, <2>1, <1>2, WorktreeAssumption
    DEF Ledger, Served, TaskOf, Typed, Stores, Marks, CreateFile, At, TaskOf
  <2>5. Books'
    BY <1>a, <2>1, <1>2, WorktreeAssumption
    DEF Ledger, Books, Blind, Held, Typed, Stores, TaskOf, CapacityKept, Marks, CreateFile, At,
        TaskOf
  <2>6. CapacityKept'
    BY <1>2, FS_EmptySet, WorktreeAssumption DEF CapacityKept, CreateFile
  <2>. QED
    BY <2>1, <2>2, <2>3, <2>4, <2>5, <2>6, <1>b DEF Ledger, Becomes, Ends, Marks
<1>3. ASSUME NEW r \in Request, NEW read \in Readings, AddRead(r, read)
      PROVE  Ledger'
  <2>a. /\ file \in SUBSET Task /\ read \in SUBSET Task
        /\ read = file \/ ("read" \in Faults /\ read = {})
    <3>1. file # Nil
      BY <1>3 DEF AddRead, At, Ledger, Served
    <3>. QED
      BY <1>a, <3>1, ReadingsEffect
  <2>1. \/ Refused(read, TaskOf(r)) /\ Ends(r) /\ lock' = lock
        \/ /\ ~Refused(read, TaskOf(r)) /\ lock' = r
           /\ Becomes(r, requests[r].op, requests[r].task, "adding", read,
              requests[r].raced, requests[r].left)
    BY <1>a, <2>a, <1>3, "adding" \in Pc, AnswersEffect, AddReadEffect DEF AddRead, Pc
  <2>2. Stores'
    BY <1>a, <2>1, <1>3, WorktreeAssumption
    DEF Stores, Typed, RequestType, Ledger, Served, Books, Becomes, Ends, AddRead, At, TaskOf,
        LockFree
  <2>3. Held'
    BY <1>a, <2>1, <1>3, WorktreeAssumption
    DEF Held, Typed, Stores, Becomes, Ends, AddRead, At, TaskOf, LockFree
  <2>4. Served'
    BY <1>a, <2>1, <1>3, WorktreeAssumption
    DEF Ledger, Served, TaskOf, Typed, Stores, Becomes, Ends, AddRead, At, TaskOf, LockFree
  <2>b. Cardinality(read) <= Capacity /\ Cardinality(read) \in Nat
    <3>1. CASE read = file
      BY <1>a, <2>a, <3>1, FS_Subset, FS_CardinalityType, WorktreeAssumption
      DEF Ledger, CapacityKept
    <3>2. CASE read = {}
      BY <3>2, FS_EmptySet, WorktreeAssumption
    <3>. QED
      BY <2>a, <3>1, <3>2
  <2>5. Books'
    BY <1>a, <2>1, <2>a, <2>b, <1>3, WorktreeAssumption
    DEF Ledger, Books, Blind, Held, TaskOf, Becomes, Ends, AddRead, At, LockFree, Refused, Full
  <2>6. CapacityKept'
    BY <1>a, <2>1, <1>3 DEF Ledger, CapacityKept, Becomes, Ends, AddRead, At, TaskOf, LockFree
  <2>. QED
    BY <2>1, <2>2, <2>3, <2>4, <2>5, <2>6, <1>b DEF Ledger, Becomes, Ends, Marks
<1>4. ASSUME NEW r \in Request, AddWrite(r)
      PROVE  Ledger'
  <2>1. \E met : Marks(r, "env", Nil, met)
    BY <1>a, <1>4, "env" \in Pc, MeetEffect DEF AddWrite, Pc
  <2>a. /\ requests[r].pc = "adding" /\ lock = r /\ lock' = Nil
        /\ file' = requests[r].read \cup {TaskOf(r)}
        /\ UNCHANGED <<disk, listed>>
    BY <1>a, <1>4 DEF AddWrite, At, Held
  <2>b. /\ requests[r].read \in SUBSET Task /\ TaskOf(r) \in Task
        /\ Cardinality(requests[r].read) < Capacity
    BY <1>a, <2>a DEF Ledger, Served, Books
  <2>c. /\ file' \in SUBSET Task /\ file' # Nil
        /\ Cardinality(file') \in Nat /\ Cardinality(file') <= Capacity
    <3>1. file' \in SUBSET Task /\ file' # Nil
      BY <2>a, <2>b, WorktreeAssumption
    <3>2. IsFiniteSet(requests[r].read)
      BY <2>b, FS_Subset, WorktreeAssumption
    <3>3. Cardinality(requests[r].read) \in Nat
      BY <3>2, FS_CardinalityType
    <3>4. /\ IsFiniteSet(file')
          /\ Cardinality(file') = IF TaskOf(r) \in requests[r].read THEN Cardinality(requests[r].read)
                                  ELSE Cardinality(requests[r].read) + 1
      BY <2>a, <3>2, FS_AddElement
    <3>. QED
      BY <2>b, <3>1, <3>3, <3>4, WorktreeAssumption
  <2>2. Stores'
    BY <1>a, <2>a, <2>c DEF Stores
  <2>3. Held'
    BY <1>a, <2>1, <2>a, WorktreeAssumption DEF Held, Marks
  <2>4. Served'
    BY <1>a, <2>1, <2>a, <2>c DEF Ledger, Served, Marks, TaskOf
  <2>5. Books'
    BY <1>a, <2>1, <2>a DEF Ledger, Books, Blind, Held, Marks
  <2>6. CapacityKept'
    BY <2>c DEF CapacityKept
  <2>. QED
    BY <2>1, <2>2, <2>3, <2>4, <2>5, <2>6, <1>b DEF Ledger, Becomes, Ends, Marks
<1>5. ASSUME NEW r \in Request, EnvBegun(r)
      PROVE  Ledger'
  <2>1. Becomes(r, requests[r].op, requests[r].task, "rename", requests[r].read,
              requests[r].raced, requests[r].left)
    BY <1>a, <1>5, "rename" \in Pc, GoesEffect DEF EnvBegun, Pc
  <2>2. Stores'
    BY <1>a, <2>1, <1>5, WorktreeAssumption
    DEF Stores, Typed, RequestType, Ledger, Served, Books, Becomes, Ends, EnvBegun, At, TaskOf
  <2>3. Held'
    BY <1>a, <2>1, <1>5, WorktreeAssumption
    DEF Held, Typed, Stores, Becomes, Ends, EnvBegun, At, TaskOf
  <2>4. Served'
    BY <1>a, <2>1, <1>5, WorktreeAssumption
    DEF Ledger, Served, TaskOf, Typed, Stores, Becomes, Ends, EnvBegun, At, TaskOf
  <2>5. Books'
    BY <1>a, <2>1, <1>5, WorktreeAssumption
    DEF Ledger, Books, Blind, Held, Typed, Stores, TaskOf, CapacityKept, Becomes, Ends, EnvBegun, At,
        TaskOf
  <2>6. CapacityKept'
    BY <1>a, <2>1, <1>5 DEF Ledger, CapacityKept, Becomes, Ends, EnvBegun, At, TaskOf
  <2>. QED
    BY <2>1, <2>2, <2>3, <2>4, <2>5, <2>6, <1>b DEF Ledger, Becomes, Ends, Marks
<1>6. ASSUME NEW r \in Request, EnvWritten(r)
      PROVE  Ledger'
  <2>1. Becomes(r, requests[r].op, requests[r].task, "git", requests[r].read,
              requests[r].raced, requests[r].left)
    BY <1>a, <1>6, "git" \in Pc, GoesEffect DEF EnvWritten, Pc
  <2>2. Stores'
    BY <1>a, <2>1, <1>6, WorktreeAssumption
    DEF Stores, Typed, RequestType, Ledger, Served, Books, Becomes, Ends, EnvWritten, At,
        TaskOf
  <2>3. Held'
    BY <1>a, <2>1, <1>6, WorktreeAssumption
    DEF Held, Typed, Stores, Becomes, Ends, EnvWritten, At, TaskOf
  <2>4. Served'
    BY <1>a, <2>1, <1>6, WorktreeAssumption
    DEF Ledger, Served, TaskOf, Typed, Stores, Becomes, Ends, EnvWritten, At, TaskOf
  <2>5. Books'
    BY <1>a, <2>1, <1>6, WorktreeAssumption
    DEF Ledger, Books, Blind, Held, Typed, Stores, TaskOf, CapacityKept, Becomes, Ends, EnvWritten,
        At, TaskOf
  <2>6. CapacityKept'
    BY <1>a, <2>1, <1>6 DEF Ledger, CapacityKept, Becomes, Ends, EnvWritten, At, TaskOf
  <2>. QED
    BY <2>1, <2>2, <2>3, <2>4, <2>5, <2>6, <1>b DEF Ledger, Becomes, Ends, Marks
<1>7. ASSUME NEW r \in Request, VaultUnreachable(r)
      PROVE  Ledger'
  <2>1. Becomes(r, requests[r].op, requests[r].task, "remove", requests[r].read,
              requests[r].raced, disk[TaskOf(r)] # {})
    BY <1>a, <1>7, GivesUpEffect DEF VaultUnreachable
  <2>2. Stores'
    BY <1>a, <2>1, <1>7, WorktreeAssumption
    DEF Stores, Typed, RequestType, Ledger, Served, Books, Becomes, Ends, VaultUnreachable,
        At, TaskOf
  <2>3. Held'
    BY <1>a, <2>1, <1>7, WorktreeAssumption
    DEF Held, Typed, Stores, Becomes, Ends, VaultUnreachable, At, TaskOf
  <2>4. Served'
    BY <1>a, <2>1, <1>7, WorktreeAssumption
    DEF Ledger, Served, TaskOf, Typed, Stores, Becomes, Ends, VaultUnreachable, At, TaskOf
  <2>5. Books'
    BY <1>a, <2>1, <1>7, WorktreeAssumption
    DEF Ledger, Books, Blind, Held, Typed, Stores, TaskOf, CapacityKept, Becomes, Ends,
        VaultUnreachable, At, TaskOf
  <2>6. CapacityKept'
    BY <1>a, <2>1, <1>7 DEF Ledger, CapacityKept, Becomes, Ends, VaultUnreachable, At, TaskOf
  <2>. QED
    BY <2>1, <2>2, <2>3, <2>4, <2>5, <2>6, <1>b DEF Ledger, Becomes, Ends, Marks
<1>8. ASSUME NEW r \in Request, NEW left \in SUBSET {"dir", "tmp"}, EnvRefused(r, left)
      PROVE  Ledger'
  <2>1. Ends(r)
    BY <1>a, <1>8, AnswersEffect DEF EnvRefused
  <2>a. /\ disk' = [disk EXCEPT ![TaskOf(r)] = (@ \ {r}) \cup left]
        /\ left \subseteq IF At(r, "post", "env") THEN {"dir"}
                          ELSE IF r \in disk[TaskOf(r)] THEN {"tmp"} ELSE {}
        /\ UNCHANGED <<file, lock, listed>>
    BY <1>8 DEF EnvRefused
  <2>b. r # "dir" /\ "tmp" # "dir"
    BY WorktreeAssumption
  <2>c. \A t \in Task : disk'[t] # {} => "dir" \in disk'[t]
    BY <1>a, <2>a, <2>b DEF Stores
  <2>d. disk' \in [Task -> SUBSET ({"dir", "git", "env", "tmp"} \cup Request)]
    BY <1>a, <2>a DEF Stores
  <2>2. Stores'
    BY <1>a, <2>a, <2>c, <2>d DEF Stores
  <2>3. Held'
    BY <1>a, <2>1, <1>8, WorktreeAssumption
    DEF Held, Typed, Stores, Becomes, Ends, EnvRefused, At, TaskOf
  <2>4. Served'
    BY <1>a, <2>1, <1>8, WorktreeAssumption
    DEF Ledger, Served, TaskOf, Typed, Stores, Becomes, Ends, EnvRefused, At, TaskOf
  <2>5. Books'
    BY <1>a, <2>1, <1>8, WorktreeAssumption
    DEF Ledger, Books, Blind, Held, Typed, Stores, TaskOf, CapacityKept, Becomes, Ends, EnvRefused,
        At, TaskOf
  <2>6. CapacityKept'
    BY <1>a, <2>1, <1>8 DEF Ledger, CapacityKept, Becomes, Ends, EnvRefused, At, TaskOf
  <2>. QED
    BY <2>1, <2>2, <2>3, <2>4, <2>5, <2>6, <1>b DEF Ledger, Becomes, Ends, Marks
<1>9. ASSUME NEW r \in Request, WorktreeAdded(r)
      PROVE  Ledger'
  <2>1. Ends(r)
    BY <1>a, <1>9, AnswersEffect DEF WorktreeAdded
  <2>2. Stores'
    BY <1>a, <2>1, <1>9, WorktreeAssumption
    DEF Stores, Typed, RequestType, Ledger, Served, Books, Becomes, Ends, WorktreeAdded, At,
        TaskOf
  <2>3. Held'
    BY <1>a, <2>1, <1>9, WorktreeAssumption
    DEF Held, Typed, Stores, Becomes, Ends, WorktreeAdded, At, TaskOf
  <2>4. Served'
    BY <1>a, <2>1, <1>9, WorktreeAssumption
    DEF Ledger, Served, TaskOf, Typed, Stores, Becomes, Ends, WorktreeAdded, At, TaskOf
  <2>5. Books'
    BY <1>a, <2>1, <1>9, WorktreeAssumption
    DEF Ledger, Books, Blind, Held, Typed, Stores, TaskOf, CapacityKept, Becomes, Ends,
        WorktreeAdded, At, TaskOf
  <2>6. CapacityKept'
    BY <1>a, <2>1, <1>9 DEF Ledger, CapacityKept, Becomes, Ends, WorktreeAdded, At, TaskOf
  <2>. QED
    BY <2>1, <2>2, <2>3, <2>4, <2>5, <2>6, <1>b DEF Ledger, Becomes, Ends, Marks
<1>10. ASSUME NEW r \in Request, WorktreeRefused(r)
      PROVE  Ledger'
  <2>1. Becomes(r, requests[r].op, requests[r].task, "undo-env", requests[r].read,
              requests[r].raced, requests[r].left)
    BY <1>a, <1>10, "undo-env" \in Pc, GoesEffect DEF WorktreeRefused, Pc
  <2>2. Stores'
    BY <1>a, <2>1, <1>10, WorktreeAssumption
    DEF Stores, Typed, RequestType, Ledger, Served, Books, Becomes, Ends, WorktreeRefused, At,
        TaskOf
  <2>3. Held'
    BY <1>a, <2>1, <1>10, WorktreeAssumption
    DEF Held, Typed, Stores, Becomes, Ends, WorktreeRefused, At, TaskOf
  <2>4. Served'
    BY <1>a, <2>1, <1>10, WorktreeAssumption
    DEF Ledger, Served, TaskOf, Typed, Stores, Becomes, Ends, WorktreeRefused, At, TaskOf
  <2>5. Books'
    BY <1>a, <2>1, <1>10, WorktreeAssumption
    DEF Ledger, Books, Blind, Held, Typed, Stores, TaskOf, CapacityKept, Becomes, Ends,
        WorktreeRefused, At, TaskOf
  <2>6. CapacityKept'
    BY <1>a, <2>1, <1>10 DEF Ledger, CapacityKept, Becomes, Ends, WorktreeRefused, At, TaskOf
  <2>. QED
    BY <2>1, <2>2, <2>3, <2>4, <2>5, <2>6, <1>b DEF Ledger, Becomes, Ends, Marks
<1>11. ASSUME NEW r \in Request, GitMissing(r)
      PROVE  Ledger'
  <2>1. Ends(r)
    BY <1>a, <1>11, AnswersEffect DEF GitMissing
  <2>2. Stores'
    BY <1>a, <2>1, <1>11, WorktreeAssumption
    DEF Stores, Typed, RequestType, Ledger, Served, Books, Becomes, Ends, GitMissing, At,
        TaskOf
  <2>3. Held'
    BY <1>a, <2>1, <1>11, WorktreeAssumption
    DEF Held, Typed, Stores, Becomes, Ends, GitMissing, At, TaskOf
  <2>4. Served'
    BY <1>a, <2>1, <1>11, WorktreeAssumption
    DEF Ledger, Served, TaskOf, Typed, Stores, Becomes, Ends, GitMissing, At, TaskOf
  <2>5. Books'
    BY <1>a, <2>1, <1>11, WorktreeAssumption
    DEF Ledger, Books, Blind, Held, Typed, Stores, TaskOf, CapacityKept, Becomes, Ends, GitMissing,
        At, TaskOf
  <2>6. CapacityKept'
    BY <1>a, <2>1, <1>11 DEF Ledger, CapacityKept, Becomes, Ends, GitMissing, At, TaskOf
  <2>. QED
    BY <2>1, <2>2, <2>3, <2>4, <2>5, <2>6, <1>b DEF Ledger, Becomes, Ends, Marks
<1>12. ASSUME NEW r \in Request, UndoEnv(r)
      PROVE  Ledger'
  <2>1. Becomes(r, requests[r].op, requests[r].task, "undo-dir", requests[r].read,
              requests[r].raced, requests[r].left)
    BY <1>a, <1>12, "undo-dir" \in Pc, GoesEffect DEF UndoEnv, Pc
  <2>2. Stores'
    BY <1>a, <2>1, <1>12, WorktreeAssumption
    DEF Stores, Typed, RequestType, Ledger, Served, Books, Becomes, Ends, UndoEnv, At, TaskOf
  <2>3. Held'
    BY <1>a, <2>1, <1>12, WorktreeAssumption
    DEF Held, Typed, Stores, Becomes, Ends, UndoEnv, At, TaskOf
  <2>4. Served'
    BY <1>a, <2>1, <1>12, WorktreeAssumption
    DEF Ledger, Served, TaskOf, Typed, Stores, Becomes, Ends, UndoEnv, At, TaskOf
  <2>5. Books'
    BY <1>a, <2>1, <1>12, WorktreeAssumption
    DEF Ledger, Books, Blind, Held, Typed, Stores, TaskOf, CapacityKept, Becomes, Ends, UndoEnv, At,
        TaskOf
  <2>6. CapacityKept'
    BY <1>a, <2>1, <1>12 DEF Ledger, CapacityKept, Becomes, Ends, UndoEnv, At, TaskOf
  <2>. QED
    BY <2>1, <2>2, <2>3, <2>4, <2>5, <2>6, <1>b DEF Ledger, Becomes, Ends, Marks
<1>13. ASSUME NEW r \in Request, NEW removed \in BOOLEAN, UndoDir(r, removed)
      PROVE  Ledger'
  <2>1. Becomes(r, requests[r].op, requests[r].task, "remove", requests[r].read,
              requests[r].raced, ~removed)
    BY <1>a, <1>13, GivesUpEffect DEF UndoDir
  <2>2. Stores'
    BY <1>a, <2>1, <1>13, WorktreeAssumption
    DEF Stores, Typed, RequestType, Ledger, Served, Books, Becomes, Ends, UndoDir, At, TaskOf
  <2>3. Held'
    BY <1>a, <2>1, <1>13, WorktreeAssumption
    DEF Held, Typed, Stores, Becomes, Ends, UndoDir, At, TaskOf
  <2>4. Served'
    BY <1>a, <2>1, <1>13, WorktreeAssumption
    DEF Ledger, Served, TaskOf, Typed, Stores, Becomes, Ends, UndoDir, At, TaskOf
  <2>5. Books'
    BY <1>a, <2>1, <1>13, WorktreeAssumption
    DEF Ledger, Books, Blind, Held, Typed, Stores, TaskOf, CapacityKept, Becomes, Ends, UndoDir, At,
        TaskOf
  <2>6. CapacityKept'
    BY <1>a, <2>1, <1>13 DEF Ledger, CapacityKept, Becomes, Ends, UndoDir, At, TaskOf
  <2>. QED
    BY <2>1, <2>2, <2>3, <2>4, <2>5, <2>6, <1>b DEF Ledger, Becomes, Ends, Marks
<1>14. ASSUME NEW r \in Request, NEW read \in Readings, Get(r, read)
      PROVE  Ledger'
  <2>1. \/ TaskOf(r) \notin read /\ Ends(r)
        \/ TaskOf(r) \in read /\ \E met : Marks(r, "unlink", requests[r].read, met)
    BY <1>a, <1>14, AnswersEffect, GetEffect DEF Get
  <2>2. Stores'
    BY <1>a, <2>1, <1>14, WorktreeAssumption
    DEF Stores, Typed, RequestType, Ledger, Served, Books, Becomes, Ends, Marks, Get, At,
        TaskOf
  <2>3. Held'
    BY <1>a, <2>1, <1>14, WorktreeAssumption
    DEF Held, Typed, Stores, Becomes, Ends, Marks, Get, At, TaskOf
  <2>4. Served'
    BY <1>a, <2>1, <1>14, WorktreeAssumption
    DEF Ledger, Served, TaskOf, Typed, Stores, Becomes, Ends, Marks, Get, At, TaskOf
  <2>5. Books'
    BY <1>a, <2>1, <1>14, WorktreeAssumption
    DEF Ledger, Books, Blind, Held, Typed, Stores, TaskOf, CapacityKept, Becomes, Ends, Marks, Get,
        At, TaskOf
  <2>6. CapacityKept'
    BY <1>a, <2>1, <1>14 DEF Ledger, CapacityKept, Becomes, Ends, Marks, Get, At, TaskOf
  <2>. QED
    BY <2>1, <2>2, <2>3, <2>4, <2>5, <2>6, <1>b DEF Ledger, Becomes, Ends, Marks
<1>15. ASSUME NEW r \in Request, Unlink(r)
      PROVE  Ledger'
  <2>1. Becomes(r, requests[r].op, requests[r].task, "destroy", requests[r].read,
              requests[r].raced, requests[r].left)
    BY <1>a, <1>15, "destroy" \in Pc, GoesEffect DEF Unlink, Pc
  <2>2. Stores'
    BY <1>a, <2>1, <1>15, WorktreeAssumption
    DEF Stores, Typed, RequestType, Ledger, Served, Books, Becomes, Ends, Unlink, At, TaskOf
  <2>3. Held'
    BY <1>a, <2>1, <1>15, WorktreeAssumption
    DEF Held, Typed, Stores, Becomes, Ends, Unlink, At, TaskOf
  <2>4. Served'
    BY <1>a, <2>1, <1>15, WorktreeAssumption
    DEF Ledger, Served, TaskOf, Typed, Stores, Becomes, Ends, Unlink, At, TaskOf
  <2>5. Books'
    BY <1>a, <2>1, <1>15, WorktreeAssumption
    DEF Ledger, Books, Blind, Held, Typed, Stores, TaskOf, CapacityKept, Becomes, Ends, Unlink, At,
        TaskOf
  <2>6. CapacityKept'
    BY <1>a, <2>1, <1>15 DEF Ledger, CapacityKept, Becomes, Ends, Unlink, At, TaskOf
  <2>. QED
    BY <2>1, <2>2, <2>3, <2>4, <2>5, <2>6, <1>b DEF Ledger, Becomes, Ends, Marks
<1>16. ASSUME NEW r \in Request, UnlinkRefused(r)
      PROVE  Ledger'
  <2>1. Ends(r)
    BY <1>a, <1>16, AnswersEffect DEF UnlinkRefused
  <2>2. Stores'
    BY <1>a, <2>1, <1>16, WorktreeAssumption
    DEF Stores, Typed, RequestType, Ledger, Served, Books, Becomes, Ends, UnlinkRefused, At,
        TaskOf
  <2>3. Held'
    BY <1>a, <2>1, <1>16, WorktreeAssumption
    DEF Held, Typed, Stores, Becomes, Ends, UnlinkRefused, At, TaskOf
  <2>4. Served'
    BY <1>a, <2>1, <1>16, WorktreeAssumption
    DEF Ledger, Served, TaskOf, Typed, Stores, Becomes, Ends, UnlinkRefused, At, TaskOf
  <2>5. Books'
    BY <1>a, <2>1, <1>16, WorktreeAssumption
    DEF Ledger, Books, Blind, Held, Typed, Stores, TaskOf, CapacityKept, Becomes, Ends,
        UnlinkRefused, At, TaskOf
  <2>6. CapacityKept'
    BY <1>a, <2>1, <1>16 DEF Ledger, CapacityKept, Becomes, Ends, UnlinkRefused, At, TaskOf
  <2>. QED
    BY <2>1, <2>2, <2>3, <2>4, <2>5, <2>6, <1>b DEF Ledger, Becomes, Ends, Marks
<1>17. ASSUME NEW r \in Request, NEW works \in BOOLEAN, Destroy(r, works)
      PROVE  Ledger'
  <2>1. Becomes(r, requests[r].op, requests[r].task, "remove", requests[r].read,
              requests[r].raced, ~(TaskOf(r) \in listed /\ "git" \in disk[TaskOf(r)] /\ works) /\ disk[TaskOf(r)] # {})
    BY <1>a, <1>17, GivesUpEffect DEF Destroy
  <2>2. Stores'
    BY <1>a, <2>1, <1>17, WorktreeAssumption
    DEF Stores, Typed, RequestType, Ledger, Served, Books, Becomes, Ends, Destroy, At, TaskOf
  <2>3. Held'
    BY <1>a, <2>1, <1>17, WorktreeAssumption
    DEF Held, Typed, Stores, Becomes, Ends, Destroy, At, TaskOf
  <2>4. Served'
    BY <1>a, <2>1, <1>17, WorktreeAssumption
    DEF Ledger, Served, TaskOf, Typed, Stores, Becomes, Ends, Destroy, At, TaskOf
  <2>5. Books'
    BY <1>a, <2>1, <1>17, WorktreeAssumption
    DEF Ledger, Books, Blind, Held, Typed, Stores, TaskOf, CapacityKept, Becomes, Ends, Destroy, At,
        TaskOf
  <2>6. CapacityKept'
    BY <1>a, <2>1, <1>17 DEF Ledger, CapacityKept, Becomes, Ends, Destroy, At, TaskOf
  <2>. QED
    BY <2>1, <2>2, <2>3, <2>4, <2>5, <2>6, <1>b DEF Ledger, Becomes, Ends, Marks
<1>18. ASSUME NEW r \in Request, NEW read \in Readings, RemoveRead(r, read)
      PROVE  Ledger'
  <2>a. /\ file \in SUBSET Task /\ read \in SUBSET Task
        /\ TaskOf(r) \in read => read = file
    <3>1. file # Nil
      BY <1>18 DEF RemoveRead, Ledger, Served
    <3>. QED
      BY <1>a, <3>1, ReadingsEffect
  <2>1. \/ TaskOf(r) \notin read /\ Ends(r) /\ lock' = lock
        \/ /\ ~(TaskOf(r) \notin read) /\ lock' = r
           /\ Becomes(r, requests[r].op, requests[r].task, "removing", read,
              requests[r].raced, requests[r].left)
    BY <1>a, <2>a, <1>18, "removing" \in Pc, AnswersEffect, AddReadEffect DEF RemoveRead, Pc
  <2>2. Stores'
    BY <1>a, <2>1, <1>18, WorktreeAssumption
    DEF Stores, Typed, RequestType, Ledger, Served, Books, Becomes, Ends, RemoveRead, At,
        TaskOf, LockFree
  <2>3. Held'
    BY <1>a, <2>1, <1>18, WorktreeAssumption
    DEF Held, Typed, Stores, Becomes, Ends, RemoveRead, At, TaskOf, LockFree
  <2>4. Served'
    BY <1>a, <2>1, <1>18, WorktreeAssumption
    DEF Ledger, Served, TaskOf, Typed, Stores, Becomes, Ends, RemoveRead, At, TaskOf, LockFree
  <2>b. Cardinality(file) <= Capacity /\ Cardinality(file) \in Nat
    BY <1>a, <2>a, FS_Subset, FS_CardinalityType, WorktreeAssumption DEF Ledger, CapacityKept
  <2>5. Books'
    BY <1>a, <2>1, <2>a, <2>b, <1>18, WorktreeAssumption
    DEF Ledger, Books, Blind, Held, TaskOf, Becomes, Ends, RemoveRead, LockFree
  <2>6. CapacityKept'
    BY <1>a, <2>1, <1>18 DEF Ledger, CapacityKept, Becomes, Ends, RemoveRead, At, TaskOf, LockFree
  <2>. QED
    BY <2>1, <2>2, <2>3, <2>4, <2>5, <2>6, <1>b DEF Ledger, Becomes, Ends, Marks
<1>19. ASSUME NEW r \in Request, RemoveWrite(r)
      PROVE  Ledger'
  <2>1. Ends(r)
    BY <1>a, <1>19, AnswersEffect DEF RemoveWrite
  <2>a. /\ requests[r].pc = "removing" /\ lock = r /\ lock' = Nil
        /\ file' = requests[r].read \ {TaskOf(r)}
        /\ UNCHANGED <<disk, listed>>
    BY <1>a, <1>19 DEF RemoveWrite, Held
  <2>b. /\ requests[r].read \in SUBSET Task
        /\ Cardinality(requests[r].read) <= Capacity
    BY <1>a, <2>a DEF Ledger, Books
  <2>c. /\ file' \in SUBSET Task /\ file' # Nil
        /\ Cardinality(file') \in Nat /\ Cardinality(file') <= Capacity
    <3>1. file' \in SUBSET Task /\ file' # Nil
      BY <2>a, <2>b, WorktreeAssumption
    <3>2. IsFiniteSet(requests[r].read)
      BY <2>b, FS_Subset, WorktreeAssumption
    <3>3. /\ Cardinality(requests[r].read) \in Nat /\ Cardinality(file') \in Nat
          /\ Cardinality(file') <= Cardinality(requests[r].read)
      BY <2>a, <3>2, file' \subseteq requests[r].read, FS_Subset, FS_CardinalityType
    <3>. QED
      BY <2>b, <3>1, <3>3, WorktreeAssumption
  <2>2. Stores'
    BY <1>a, <2>a, <2>c DEF Stores
  <2>3. Held'
    BY <1>a, <2>1, <2>a, WorktreeAssumption DEF Held, Ends, Becomes
  <2>4. Served'
    BY <1>a, <2>1, <2>a, <2>c DEF Ledger, Served, Ends, Becomes, TaskOf
  <2>5. Books'
    BY <1>a, <2>1, <2>a DEF Ledger, Books, Blind, Held, Ends, Becomes
  <2>6. CapacityKept'
    BY <2>c DEF CapacityKept
  <2>. QED
    BY <2>1, <2>2, <2>3, <2>4, <2>5, <2>6, <1>b DEF Ledger, Becomes, Ends, Marks
<1>20. ASSUME NEW r \in Request, StateRefused(r)
      PROVE  Ledger'
  <2>1. Ends(r)
    BY <1>a, <1>20, AnswersEffect DEF StateRefused
  <2>2. Stores'
    BY <1>a, <1>20 DEF Stores, StateRefused
  <2>3. Held'
    BY <1>a, <2>1, <1>20, WorktreeAssumption DEF Held, Stores, Becomes, Ends, StateRefused
  <2>4. Served'
    BY <1>a, <2>1, <1>20 DEF Ledger, Served, TaskOf, Becomes, Ends, StateRefused
  <2>5. Books'
    BY <1>a, <2>1, <1>20 DEF Ledger, Books, Blind, TaskOf, Becomes, Ends, StateRefused
  <2>6. CapacityKept'
    BY <1>a, <1>20 DEF Ledger, CapacityKept, StateRefused
  <2>. QED
    BY <2>1, <2>2, <2>3, <2>4, <2>5, <2>6, <1>b DEF Ledger, Becomes, Ends
<1>21. CASE Crash
  <2>1. Typed'
    BY <1>a, <1>21 DEF Typed, Crash, Idle, RequestType, Pc
  <2>2. Stores'
    BY <1>a, <2>1, <1>21, WorktreeAssumption
    DEF Stores, Typed, RequestType, Ledger, Served, Books, Crash, Idle, Abandoned
  <2>3. Held'
    BY <1>a, <2>1, <1>21, WorktreeAssumption DEF Held, Typed, Stores, Crash, Idle, Abandoned
  <2>4. Served'
    BY <1>a, <2>1, <1>21, WorktreeAssumption
    DEF Ledger, Served, TaskOf, Typed, Stores, Crash, Idle, Abandoned
  <2>5. Books'
    BY <1>a, <2>1, <1>21, WorktreeAssumption
    DEF Ledger, Books, Blind, Held, Typed, Stores, TaskOf, CapacityKept, Crash, Idle, Abandoned
  <2>6. CapacityKept'
    BY <1>a, <2>1, <1>21 DEF Ledger, CapacityKept, Crash, Idle, Abandoned
  <2>. QED
    BY <2>1, <2>2, <2>3, <2>4, <2>5, <2>6, <1>b DEF Ledger
<1>22. CASE UNCHANGED vars
  BY <1>22 DEF Ledger, TypeOK, Served, Books, Blind, CapacityKept, TaskOf, vars
<1>. QED
  BY <1>1, <1>2, <1>3, <1>4, <1>5, <1>6, <1>7, <1>8, <1>9, <1>10, <1>11, <1>12, <1>13, <1>14,
     <1>15, <1>16, <1>17, <1>18, <1>19, <1>20, <1>21, <1>22
  DEF Next, PostStep, DeleteStep

LEMMA LedgerInit == Init => Ledger
<1>. SUFFICES ASSUME Init
              PROVE  Ledger
  OBVIOUS
<1>1. Typed /\ \A r \in Request : requests[r] = Idle
  BY DEF Init, Typed, Idle, RequestType, Pc
<1>2. Stores /\ Held
  BY <1>1, WorktreeAssumption DEF Init, Stores, Held, Idle
<1>3. Served /\ Books
  BY <1>1 DEF Served, Books, Idle
<1>. QED
  BY <1>1, <1>2, <1>3, TypeParts DEF Ledger, CapacityKept, Init

THEOREM LedgerInvariant == Spec => []Ledger
  BY LedgerInit, LedgerStep, PTL DEF Spec

\* Every variable keeps its type, and the flock belongs to the request that is
\* between reading state.json and writing it.
THEOREM TypeCorrect == Spec => []TypeOK
  BY LedgerInvariant, PTL DEF Ledger

\* StateStore.add never registers more tasks than capacity_total, however many
\* requests and restarts there are.
THEOREM CapacityAlways == Spec => []CapacityKept
  BY LedgerInvariant, PTL DEF Ledger

\* An entry goes from state.json only by StateStore.remove for its own task, by the
\* empty file of a StateStore that found none, or by a StateStore.add that could not
\* read the file; where every read succeeds, the third never happens.
THEOREM EntriesAlways == Spec => EntriesKept
<1>1. ASSUME Ledger, [Next]_vars
      PROVE  [\A t \in Task :
                 file # Nil /\ t \in file /\ t \notin file' =>
                     \E r \in Request : \/ requests[r].pc = "removing" /\ TaskOf(r) = t
                                        \/ requests[r].pc = "create"
                                        \/ Blind(r)]_vars
  <2>. SUFFICES ASSUME NEW t \in Task, Next, file # Nil, t \in file, t \notin file'
                PROVE  \E r \in Request : \/ requests[r].pc = "removing" /\ TaskOf(r) = t
                                          \/ requests[r].pc = "create"
                                          \/ Blind(r)
    BY <1>1
  <2>1. PICK r \in Request : CreateFile(r) \/ AddWrite(r) \/ RemoveWrite(r)
    <3>. SUFFICES ASSUME \A r \in Request : ~CreateFile(r) /\ ~AddWrite(r) /\ ~RemoveWrite(r)
                  PROVE  UNCHANGED file
      OBVIOUS
    <3>. QED
      BY DEF Next, PostStep, DeleteStep, Arrive, AddRead, EnvBegun, EnvWritten, VaultUnreachable,
             EnvRefused, WorktreeAdded, WorktreeRefused, GitMissing, UndoEnv, UndoDir, Get, Unlink,
             UnlinkRefused, Destroy, RemoveRead, StateRefused, Crash
  <2>2. CASE CreateFile(r)
    BY <2>2 DEF CreateFile
  <2>3. CASE AddWrite(r)
    BY <1>1, <2>3 DEF AddWrite, At, Ledger, Books
  <2>4. CASE RemoveWrite(r)
    BY <1>1, <2>4 DEF RemoveWrite, Ledger, Books, Blind
  <2>. QED
    BY <2>1, <2>2, <2>3, <2>4
<1>. QED
  BY <1>1, LedgerInvariant, PTL DEF Spec, EntriesKept

-----------------------------------------------------------------------------
(***************************************************************************)
(* Who owns an entry.                                                      *)
(***************************************************************************)

Advances(r, pc) == Becomes(r, requests[r].op, requests[r].task, pc, requests[r].read,
                           requests[r].raced, requests[r].left)

LeavesBehind(r, left) == Becomes(r, requests[r].op, requests[r].task, "remove", requests[r].read,
                                 requests[r].raced, left)

LEMMA AdvanceEffects ==
  ASSUME Typed, NEW r \in Request
  PROVE  /\ EnvBegun(r) => Advances(r, "rename")
         /\ EnvWritten(r) => Advances(r, "git")
         /\ WorktreeRefused(r) => Advances(r, "undo-env")
         /\ UndoEnv(r) => Advances(r, "undo-dir")
         /\ Unlink(r) => Advances(r, "destroy")
<1>1. {"rename", "git", "undo-env", "undo-dir", "destroy"} \subseteq Pc
  BY DEF Pc
<1>. QED
  BY <1>1, GoesEffect DEF Advances, EnvBegun, EnvWritten, WorktreeRefused, UndoEnv, Unlink

LEMMA GiveUpEffects ==
  ASSUME Typed, NEW r \in Request
  PROVE  /\ VaultUnreachable(r) => LeavesBehind(r, disk[TaskOf(r)] # {})
         /\ \A removed \in BOOLEAN : UndoDir(r, removed) => LeavesBehind(r, ~removed)
         /\ \A works \in BOOLEAN : Destroy(r, works) =>
               LeavesBehind(r, /\ ~(TaskOf(r) \in listed /\ "git" \in disk[TaskOf(r)] /\ works)
                               /\ disk[TaskOf(r)] # {})
  BY GivesUpEffect DEF VaultUnreachable, UndoDir, Destroy, LeavesBehind

LEMMA EndEffects ==
  ASSUME Typed, NEW r \in Request
  PROVE  /\ \A left \in SUBSET {"dir", "tmp"} : EnvRefused(r, left) => Ends(r)
         /\ WorktreeAdded(r) => Ends(r)
         /\ GitMissing(r) => Ends(r)
         /\ UnlinkRefused(r) => Ends(r)
         /\ RemoveWrite(r) => Ends(r)
         /\ StateRefused(r) => Ends(r)
  BY AnswersEffect
  DEF EnvRefused, WorktreeAdded, GitMissing, UnlinkRefused, RemoveWrite, StateRefused

\* No request starts to work on a task, none forgets that it met another, and
\* a lone POST does not lose its entry.
Quiet ==
    \A t \in Task :
       /\ Making(t)' \subseteq Making(t) /\ Deleting(t)' \subseteq Deleting(t)
       /\ \A q \in (Making(t) \cup Deleting(t))' : requests[q].raced => requests'[q].raced
       /\ \A q \in Making(t)' : ~requests'[q].raced /\ Registered(t) => Registered(t)'

LEMMA QuietKeeps ==
  ASSUME Ownership, Quiet
  PROVE  Ownership'
<1>1. Owned'
  BY DEF Ownership, Owned, Quiet
<1>2. Alone'
  BY DEF Ownership, Alone, Quiet
<1>3. Apart'
  BY DEF Ownership, Apart, Quiet
<1>. QED
  BY <1>1, <1>2, <1>3 DEF Ownership

Working(r) ==
    \/ requests[r].op = "post" /\ requests[r].pc \in {"env", "rename", "git", "undo-env", "undo-dir"}
    \/ requests[r].op = "delete" /\ requests[r].pc \in {"unlink", "destroy"}

\* A request that goes on with its work, or ends, and leaves state.json alone.
LEMMA QuietAdvance ==
  ASSUME Typed, NEW r \in Request, NEW pc, Working(r), UNCHANGED file,
         \/ Advances(r, pc)
         \/ \E left : LeavesBehind(r, left)
         \/ Ends(r)
  PROVE  Quiet
<1>. SUFFICES ASSUME NEW t \in Task
     PROVE  /\ Making(t)' \subseteq Making(t) /\ Deleting(t)' \subseteq Deleting(t)
            /\ \A q \in (Making(t) \cup Deleting(t))' : requests[q].raced => requests'[q].raced
            /\ \A q \in Making(t)' : ~requests'[q].raced /\ Registered(t) => Registered(t)'
  BY DEF Quiet
<1>. QED
  BY DEF Working, Making, Deleting, Registered, TaskOf, Advances, LeavesBehind, Ends, Becomes,
         Typed

Takes(r, pc, read) == Becomes(r, requests[r].op, requests[r].task, pc, read,
                              requests[r].raced, requests[r].left)

LEMMA ReadEffects ==
  ASSUME Ledger, NEW r \in Request, NEW read \in Readings
  PROVE  /\ AddRead(r, read) => /\ \/ Refused(read, TaskOf(r)) /\ Ends(r)
                                   \/ ~Refused(read, TaskOf(r)) /\ Takes(r, "adding", read)
                                /\ read = file \/ ("read" \in Faults /\ read = {})
         /\ RemoveRead(r, read) => \/ Ends(r)
                                   \/ Takes(r, "removing", file) /\ TaskOf(r) \in file
<1>1. Typed /\ Stores /\ {"adding", "removing"} \subseteq Pc
  BY TypeParts DEF Ledger, Pc
<1>2. AddRead(r, read) \/ RemoveRead(r, read) =>
         /\ read \in SUBSET Task
         /\ read = file \/ ("read" \in Faults /\ read = {})
  <2>1. AddRead(r, read) \/ RemoveRead(r, read) => file # Nil
    BY DEF Ledger, Served, AddRead, RemoveRead, At
  <2>. QED
    BY <1>1, <2>1, ReadingsEffect
<1>. QED
  BY <1>1, <1>2, AnswersEffect, AddReadEffect DEF AddRead, RemoveRead, Takes

\* A POST enters its task: whoever else works on it has met somebody, or it
\* would have the entry; or it has just lost it.
LEMMA AddWriteOwnership ==
  ASSUME Ledger, Ownership, NEW r \in Request, AddWrite(r)
  PROVE  Ownership'
<1> DEFINE t == TaskOf(r)
           met == Deleting(t) \cup {q \in Making(t) : requests[q].raced}
           losers == UNION {Making(u) \cup Deleting(u) : u \in Lost(r)}
           alone == met = {} /\ t \notin Lost(r) /\ ~Stray(t)
           marked == losers \cup (IF alone THEN {} ELSE met \cup {r})
<1>1. Marks(r, "env", Nil, marked)
  <2>1. Typed /\ "env" \in Pc /\ Nil \in (SUBSET Task) \cup {Nil}
    BY TypeParts DEF Ledger, Pc
  <2>. QED
    BY <2>1, MeetEffect DEF AddWrite
<1>2. /\ requests[r].op = "post" /\ requests[r].pc = "adding"
      /\ t \in Task /\ t \notin requests[r].read
      /\ file' = requests[r].read \cup {t}
      /\ file # Nil /\ file' # Nil
  BY WorktreeAssumption DEF Ledger, Served, Books, AddWrite, At
<1>3. \A q \in Request : TaskOf(q)' = TaskOf(q)
  BY <1>1 DEF Marks, TaskOf
<1>4. \A s \in Task : /\ Making(s)' = Making(s) \cup (IF s = t THEN {r} ELSE {})
                      /\ Deleting(s)' = Deleting(s) /\ r \notin Making(s) \cup Deleting(s)
  BY <1>1, <1>2, <1>3 DEF Marks, Making, Deleting, TaskOf
<1>5. \A s \in Task : Registered(s) => Registered(s)' \/ s \in Lost(r)
  BY <1>2 DEF Registered, Lost
<1>6. /\ \A s \in Lost(r) : Making(s) \cup Deleting(s) \subseteq marked
      /\ Deleting(t) \subseteq marked
      /\ \A q \in Making(t) : requests[q].raced \/ q \in marked
      /\ Making(t) \cup Deleting(t) # {} => r \in marked
  <2>1. \A q \in Making(t) : requests[q].raced \/ t \in Lost(r)
    BY <1>2 DEF Ownership, Owned, Registered, Lost
  <2>. QED
    BY <2>1
<1>7. \A q \in Request : requests'[q].raced <=> requests[q].raced \/ q \in marked
  BY <1>1 DEF Marks
<1> HIDE DEF t, met, losers, alone, marked
<1>8. Owned'
  <2>. SUFFICES ASSUME NEW s \in Task, NEW q \in Making(s)', ~requests'[q].raced
                PROVE  Registered(s)'
    BY DEF Owned
  <2>1. CASE s = t
    BY <1>2, <2>1 DEF Registered
  <2>2. CASE s # t
    <3>1. q \in Making(s) /\ q \in Request
      BY <1>4, <2>2 DEF Making
    <3>2. ~requests[q].raced /\ s \notin Lost(r)
      BY <1>6, <1>7, <3>1
    <3>. QED
      BY <1>5, <3>1, <3>2 DEF Ownership, Owned
  <2>. QED
    BY <2>1, <2>2
<1>9. Alone'
  BY <1>4, <1>6, <1>7 DEF Ownership, Alone, Making
<1>10. Apart'
  BY <1>4, <1>6, <1>7 DEF Ownership, Apart, Making, Deleting
<1>. QED
  BY <1>8, <1>9, <1>10 DEF Ownership

\* A DELETE enters its task, and marks the POSTs it finds there and itself.
LEMMA GetOwnership ==
  ASSUME Ledger, Ownership, NEW r \in Request, NEW read, Get(r, read), TaskOf(r) \in read
  PROVE  Ownership'
<1> DEFINE t == TaskOf(r)
           marked == IF Making(t) = {} THEN {} ELSE Making(t) \cup {r}
<1>1. Marks(r, "unlink", requests[r].read, marked)
  BY TypeParts, GetEffect DEF Ledger, Get
<1>2. requests[r].op = "delete" /\ requests[r].pc = "get" /\ file' = file
  BY DEF Get, At
<1>3. \A s \in Task : /\ Making(s)' = Making(s) /\ r \notin Making(s)
                      /\ Deleting(s)' = Deleting(s) \cup (IF s = t THEN {r} ELSE {})
  BY <1>1, <1>2 DEF Marks, Making, Deleting, TaskOf
<1>4. \A q \in Request : requests'[q].raced <=> requests[q].raced \/ q \in marked
  BY <1>1 DEF Marks
<1>5. Owned'
  BY <1>2, <1>3, <1>4 DEF Ownership, Owned, Registered, Making
<1>6. Alone'
  BY <1>3, <1>4 DEF Ownership, Alone, Making
<1>7. Apart'
  BY <1>3, <1>4 DEF Ownership, Apart, Making, Deleting
<1>. QED
  BY <1>5, <1>6, <1>7 DEF Ownership

\* So owning is kept by every step.
LEMMA OwnershipStep == Ledger /\ Ownership /\ [Next]_vars => Ownership'
<1>. SUFFICES ASSUME Ledger, Ownership, [Next]_vars
              PROVE  Ownership'
  OBVIOUS
<1>a. Typed /\ Ledger /\ Ownership
  BY TypeParts DEF Ledger
<1>1. ASSUME NEW r \in Request, NEW op \in {"post", "delete"}, NEW t \in Task,
                 Arrive(r, op, t)
      PROVE  Ownership'
  <2>1. requests[r].pc = "idle" /\ UNCHANGED file
    BY <1>1 DEF Arrive, Idle
  <2>2. /\ requests'[r].pc \in {"create", "add", "get"}
        /\ \A q \in Request \ {r} : requests'[q] = requests[q]
    BY <1>a, <1>1, ArriveEffect DEF Becomes
  <2>3. Quiet
    BY <2>1, <2>2 DEF Quiet, Making, Deleting, Registered, TaskOf
  <2>. QED
    BY <1>a, <2>3, QuietKeeps
<1>2. ASSUME NEW r \in Request, CreateFile(r)
      PROVE  Ownership'
  <2>1. Quiet
    BY <1>a, <1>2, CreateFileEffect
    DEF Quiet, Marks, CreateFile, Making, Deleting, Registered, TaskOf
  <2>. QED
    BY <1>a, <2>1, QuietKeeps
<1>3. ASSUME NEW r \in Request, NEW read \in Readings, AddRead(r, read)
      PROVE  Ownership'
  <2>1. UNCHANGED file /\ requests[r].pc = "add"
    BY <1>3 DEF AddRead, At
  <2>2. ASSUME Ends(r) PROVE Quiet
    BY <2>1, <2>2 DEF Quiet, Ends, Becomes, Making, Deleting, Registered, TaskOf
  <2>3. ASSUME Takes(r, "adding", read) PROVE Quiet
    BY <2>1, <2>3 DEF Quiet, Takes, Becomes, Making, Deleting, Registered, TaskOf
  <2>. QED
    BY <1>a, <2>2, <2>3, <1>3, ReadEffects, QuietKeeps
<1>4. ASSUME NEW r \in Request, AddWrite(r)
      PROVE  Ownership'
  BY <1>a, <1>4, AddWriteOwnership
<1>5. ASSUME NEW r \in Request, EnvBegun(r)
      PROVE  Ownership'
  <2>1. Quiet
    BY <1>a, <1>5, AdvanceEffects, QuietAdvance DEF EnvBegun, At, Working
  <2>. QED
    BY <1>a, <2>1, QuietKeeps
<1>6. ASSUME NEW r \in Request, EnvWritten(r)
      PROVE  Ownership'
  <2>1. Quiet
    BY <1>a, <1>6, AdvanceEffects, QuietAdvance DEF EnvWritten, At, Working
  <2>. QED
    BY <1>a, <2>1, QuietKeeps
<1>7. ASSUME NEW r \in Request, VaultUnreachable(r)
      PROVE  Ownership'
  <2>1. Quiet
    BY <1>a, <1>7, GiveUpEffects, QuietAdvance DEF VaultUnreachable, At, Working
  <2>. QED
    BY <1>a, <2>1, QuietKeeps
<1>8. ASSUME NEW r \in Request, NEW left \in SUBSET {"dir", "tmp"}, EnvRefused(r, left)
      PROVE  Ownership'
  <2>1. Quiet
    BY <1>a, <1>8, EndEffects, QuietAdvance DEF EnvRefused, At, Working
  <2>. QED
    BY <1>a, <2>1, QuietKeeps
<1>9. ASSUME NEW r \in Request, WorktreeAdded(r)
      PROVE  Ownership'
  <2>1. Quiet
    BY <1>a, <1>9, EndEffects, QuietAdvance DEF WorktreeAdded, At, Working
  <2>. QED
    BY <1>a, <2>1, QuietKeeps
<1>10. ASSUME NEW r \in Request, WorktreeRefused(r)
      PROVE  Ownership'
  <2>1. Quiet
    BY <1>a, <1>10, AdvanceEffects, QuietAdvance DEF WorktreeRefused, At, Working
  <2>. QED
    BY <1>a, <2>1, QuietKeeps
<1>11. ASSUME NEW r \in Request, GitMissing(r)
      PROVE  Ownership'
  <2>1. Quiet
    BY <1>a, <1>11, EndEffects, QuietAdvance DEF GitMissing, At, Working
  <2>. QED
    BY <1>a, <2>1, QuietKeeps
<1>12. ASSUME NEW r \in Request, UndoEnv(r)
      PROVE  Ownership'
  <2>1. Quiet
    BY <1>a, <1>12, AdvanceEffects, QuietAdvance DEF UndoEnv, At, Working
  <2>. QED
    BY <1>a, <2>1, QuietKeeps
<1>13. ASSUME NEW r \in Request, NEW removed \in BOOLEAN, UndoDir(r, removed)
      PROVE  Ownership'
  <2>1. Quiet
    BY <1>a, <1>13, GiveUpEffects, QuietAdvance DEF UndoDir, At, Working
  <2>. QED
    BY <1>a, <2>1, QuietKeeps
<1>14. ASSUME NEW r \in Request, NEW read \in Readings, Get(r, read)
      PROVE  Ownership'
  <2>1. CASE TaskOf(r) \in read
    BY <1>a, <2>1, <1>14, GetOwnership
  <2>2. CASE TaskOf(r) \notin read
    <3>1. Ends(r) /\ requests[r].pc = "get" /\ UNCHANGED file
      BY <1>a, <2>2, <1>14, AnswersEffect DEF Get, At
    <3>2. Quiet
      BY <3>1 DEF Quiet, Ends, Becomes, Making, Deleting, Registered, TaskOf
    <3>. QED
      BY <1>a, <3>2, QuietKeeps
  <2>. QED
    BY <2>1, <2>2
<1>15. ASSUME NEW r \in Request, Unlink(r)
      PROVE  Ownership'
  <2>1. Quiet
    BY <1>a, <1>15, AdvanceEffects, QuietAdvance DEF Unlink, At, Working
  <2>. QED
    BY <1>a, <2>1, QuietKeeps
<1>16. ASSUME NEW r \in Request, UnlinkRefused(r)
      PROVE  Ownership'
  <2>1. Quiet
    BY <1>a, <1>16, EndEffects, QuietAdvance DEF UnlinkRefused, At, Working
  <2>. QED
    BY <1>a, <2>1, QuietKeeps
<1>17. ASSUME NEW r \in Request, NEW works \in BOOLEAN, Destroy(r, works)
      PROVE  Ownership'
  <2>1. Quiet
    BY <1>a, <1>17, GiveUpEffects, QuietAdvance DEF Destroy, At, Working
  <2>. QED
    BY <1>a, <2>1, QuietKeeps
<1>18. ASSUME NEW r \in Request, NEW read \in Readings, RemoveRead(r, read)
      PROVE  Ownership'
  <2>1. UNCHANGED file /\ requests[r].pc = "remove"
    BY <1>18 DEF RemoveRead, At
  <2>2. ASSUME Ends(r) PROVE Quiet
    BY <2>1, <2>2 DEF Quiet, Ends, Becomes, Making, Deleting, Registered, TaskOf
  <2>3. ASSUME Takes(r, "removing", file) PROVE Quiet
    BY <2>1, <2>3 DEF Quiet, Takes, Becomes, Making, Deleting, Registered, TaskOf
  <2>. QED
    BY <1>a, <2>2, <2>3, <1>18, ReadEffects, QuietKeeps
<1>19. ASSUME NEW r \in Request, RemoveWrite(r)
      PROVE  Ownership'
  <2>1. /\ Ends(r) /\ requests[r].pc = "removing" /\ requests[r].op \in {"post", "delete"}
        /\ file' = requests[r].read \ {TaskOf(r)} /\ file \subseteq requests[r].read
        /\ file # Nil /\ file' # Nil
    BY <1>a, <1>19, EndEffects, WorktreeAssumption
    DEF RemoveWrite, Ledger, Served, Books, Blind
  <2>2. \A t \in Task : /\ Making(t)' = Making(t) \ {r} /\ Deleting(t)' = Deleting(t) \ {r}
                        /\ \A q \in (Making(t) \cup Deleting(t))' : requests'[q] = requests[q]
    BY <2>1 DEF Ends, Becomes, Making, Deleting, TaskOf
  <2>3. \A t \in Task : TaskOf(r) = t => r \in Making(t) \cup Deleting(t)
    BY <2>1 DEF Making, Deleting
  <2>4. ASSUME NEW t \in Task, NEW q \in Making(t)', ~requests'[q].raced, Registered(t)
        PROVE  Registered(t)'
    <3>1. q \in Making(t) /\ q # r /\ ~requests[q].raced
      BY <2>2, <2>4
    <3>2. TaskOf(r) # t
      BY <1>a, <2>3, <3>1 DEF Ownership, Alone, Apart
    <3>. QED
      BY <2>1, <2>4, <3>2 DEF Registered
  <2>5. Quiet
    BY <2>2, <2>4 DEF Quiet
  <2>. QED
    BY <1>a, <2>5, QuietKeeps
<1>20. ASSUME NEW r \in Request, StateRefused(r)
      PROVE  Ownership'
  <2>1. Ends(r) /\ UNCHANGED file
    BY <1>a, <1>20, EndEffects DEF StateRefused
  <2>2. Quiet
    BY <2>1 DEF Quiet, Ends, Becomes, Making, Deleting, Registered, TaskOf
  <2>. QED
    BY <1>a, <2>2, QuietKeeps
<1>21. CASE Crash
  <2>1. Quiet
    BY <1>21 DEF Quiet, Crash, Making, Deleting, Registered, TaskOf, Idle
  <2>. QED
    BY <1>a, <2>1, QuietKeeps
<1>22. CASE UNCHANGED vars
  <2>1. Quiet
    BY <1>22 DEF Quiet, vars, Making, Deleting, Registered, TaskOf
  <2>. QED
    BY <1>a, <2>1, QuietKeeps
<1>. QED
  BY <1>1, <1>2, <1>3, <1>4, <1>5, <1>6, <1>7, <1>8, <1>9, <1>10, <1>11, <1>12, <1>13, <1>14,
     <1>15, <1>16, <1>17, <1>18, <1>19, <1>20, <1>21, <1>22
  DEF Next, PostStep, DeleteStep

THEOREM OwnershipInvariant == Spec => [](Ledger /\ Ownership)
<1>1. Init => Ownership
  BY DEF Init, Ownership, Owned, Alone, Apart, Making, Deleting, Idle
<1>. QED
  BY <1>1, LedgerInit, LedgerStep, OwnershipStep, PTL DEF Spec

\* The entry of a task in state.json is a lock: of the POSTs that work on its
\* target at most one has met neither another nor a DELETE, and has not lost the
\* entry to an empty file or to an add that could not read it.
THEOREM OnePostAlways == Spec => []OnePostPerTask
<1>1. Ownership => OnePostPerTask
  <2>. SUFFICES ASSUME Ownership, NEW t \in Task
                PROVE  Cardinality({r \in Making(t) : ~requests[r].raced}) <= 1
    BY DEF OnePostPerTask
  <2> DEFINE lone == {r \in Making(t) : ~requests[r].raced}
  <2>1. \A q, r \in lone : q = r
    BY DEF Ownership, Alone
  <2>2. lone = {} \/ \E q : lone = {q}
    BY <2>1
  <2>3. Cardinality(lone) \in {0, 1}
    <3> HIDE DEF lone
    <3>. QED
      BY <2>2, FS_EmptySet, FS_Singleton
  <2>. QED
    BY <2>3
<1>. QED
  BY <1>1, OwnershipInvariant, PTL

-----------------------------------------------------------------------------
(***************************************************************************)
(* What lies on disk.                                                      *)
(***************************************************************************)

\* Only a POST adds to a target, and only to the one it works on.
AddsToItsOwn(r) == \A t \in Task : disk'[t] \subseteq disk[t] \/ r \in Making(t)

\* What the other requests are spared.
OthersKept(r) ==
    \A q \in Request \ {r} :
       /\ requests'[q].op = requests[q].op /\ requests'[q].task = requests[q].task
       /\ requests'[q].pc = requests[q].pc /\ requests'[q].left = requests[q].left
       /\ requests[q].raced => requests'[q].raced

Step(r) ==
    \/ \E op \in {"post", "delete"}, t \in Task : Arrive(r, op, t)
    \/ CreateFile(r) \/ PostStep(r) \/ DeleteStep(r)
    \/ \E read \in Readings : RemoveRead(r, read)
    \/ RemoveWrite(r) \/ StateRefused(r)

LEMMA DiskSteps ==
  ASSUME Ledger, NEW r \in Request, Step(r)
  PROVE  AddsToItsOwn(r)
<1>1. Stores
  BY TypeParts DEF Ledger
<1>2. CASE UNCHANGED disk
  BY <1>2 DEF AddsToItsOwn
<1>3. CASE EnvBegun(r) \/ EnvWritten(r) \/ WorktreeAdded(r)
  BY <1>1, <1>3 DEF AddsToItsOwn, Stores, EnvBegun, EnvWritten, WorktreeAdded, At, Making
<1>4. ASSUME NEW left, EnvRefused(r, left)
      PROVE  AddsToItsOwn(r)
  BY <1>1, <1>4 DEF AddsToItsOwn, Stores, EnvRefused, At, Making
<1>5. CASE UndoEnv(r) \/ Unlink(r)
  BY <1>1, <1>5 DEF AddsToItsOwn, Stores, UndoEnv, Unlink
<1>6. ASSUME NEW removed, UndoDir(r, removed)
      PROVE  AddsToItsOwn(r)
  BY <1>1, <1>6 DEF AddsToItsOwn, Stores, UndoDir
<1>7. ASSUME NEW works, Destroy(r, works)
      PROVE  AddsToItsOwn(r)
  BY <1>1, <1>7 DEF AddsToItsOwn, Stores, Destroy
<1>. QED
  BY <1>2, <1>3, <1>4, <1>5, <1>6, <1>7
  DEF Step, PostStep, DeleteStep, Arrive, CreateFile, AddRead, AddWrite, VaultUnreachable,
      WorktreeRefused, GitMissing, Get, UnlinkRefused, RemoveRead, RemoveWrite, StateRefused

\* Nobody alone on its task sees another add to it.
LEMMA OthersCleared ==
  ASSUME Ledger, Ownership, Cleared, NEW r \in Request, NEW p \in Request, AddsToItsOwn(r), p # r,
         requests'[p].op = requests[p].op, requests'[p].task = requests[p].task,
         requests'[p].pc = requests[p].pc, requests'[p].left = requests[p].left,
         requests[p].raced => requests'[p].raced
  PROVE  ClearedAt(p)'
<1>. SUFFICES ASSUME Settled(p)', ~requests'[p].raced
              PROVE  /\ disk'[TaskOf(p)'] \cap ({"env"} \cup Request) = {}
                     /\ requests'[p].pc \in {"remove", "removing"} /\ ~requests'[p].left
                           => disk'[TaskOf(p)'] = {}
  BY DEF ClearedAt
<1>1. /\ Settled(p) /\ ~requests[p].raced /\ TaskOf(p)' = TaskOf(p) /\ TaskOf(p) \in Task
  BY DEF Settled, TaskOf, Ledger, Served
<1>2. p \in Making(TaskOf(p)) \cup Deleting(TaskOf(p))
  BY <1>1 DEF Settled, Making, Deleting
<1>3. r \notin Making(TaskOf(p))
  BY <1>1, <1>2 DEF Ownership, Alone, Apart
<1>4. disk'[TaskOf(p)] \subseteq disk[TaskOf(p)]
  BY <1>1, <1>3 DEF AddsToItsOwn
<1>. QED
  BY <1>1, <1>4 DEF Cleared, ClearedAt

\* The draft of another is a POST of another.
LEMMA NoDraft ==
  ASSUME Ledger, Ownership, Drafts, NEW r \in Request, ~requests[r].raced,
         Working(r), ~At(r, "post", "rename")
  PROVE  disk[TaskOf(r)] \cap Request = {}
<1>1. TaskOf(r) \in Task /\ r \in Making(TaskOf(r)) \cup Deleting(TaskOf(r))
  BY DEF Working, Making, Deleting, Ledger, Served
<1>2. \A q \in disk[TaskOf(r)] \cap Request : q \in Making(TaskOf(r)) /\ q # r
  BY <1>1 DEF Drafts, Making, At
<1>. QED
  BY <1>1, <1>2 DEF Ownership, Alone, Apart

LEMMA OthersSteps ==
  ASSUME Ledger, NEW r \in Request, Step(r)
  PROVE  OthersKept(r)
<1>1. Typed /\ "env" \in Pc /\ Nil \in (SUBSET Task) \cup {Nil}
  BY TypeParts DEF Ledger, Pc
<1>2. \/ \E op, t, pc, read, raced, left : Becomes(r, op, t, pc, read, raced, left)
      \/ \E pc, read, met : Marks(r, pc, read, met)
  <2>1. ASSUME NEW op \in {"post", "delete"}, NEW t \in Task, Arrive(r, op, t)
        PROVE  \E o, t1, pc, read, raced, left : Becomes(r, o, t1, pc, read, raced, left)
    BY <1>1, <2>1, ArriveEffect
  <2>2. CreateFile(r) => \E pc, read, met : Marks(r, pc, read, met)
    BY <1>1, CreateFileEffect
  <2>3. AddWrite(r) => \E pc, read, met : Marks(r, pc, read, met)
    BY <1>1, MeetEffect DEF AddWrite
  <2>4. \A seen : Get(r, seen) => Ends(r) \/ \E pc, read, met : Marks(r, pc, read, met)
    BY <1>1, GetEffect, AnswersEffect DEF Get
  <2>5. \A seen \in Readings : AddRead(r, seen) \/ RemoveRead(r, seen) =>
           Ends(r) \/ \E pc, read : Takes(r, pc, read)
    BY ReadEffects
  <2>. QED
    BY <1>1, <2>1, <2>2, <2>3, <2>4, <2>5, AdvanceEffects, GiveUpEffects, EndEffects
    DEF Step, PostStep, DeleteStep, Advances, LeavesBehind, Ends, Takes
<1>. QED
  BY <1>2 DEF Becomes, Marks, OthersKept

\* A draft appears when its own request begins it.
LEMMA DraftSteps ==
  ASSUME Ledger, NEW r \in Request, Step(r), NEW t \in Task, NEW q \in disk'[t] \cap Request
  PROVE  q \in disk[t] \/ (q = r /\ t = TaskOf(r) /\ EnvBegun(r))
<1>1. Stores /\ q \notin {"dir", "git", "env", "tmp"}
  BY TypeParts, WorktreeAssumption DEF Ledger
<1>2. CASE UNCHANGED disk
  BY <1>2
<1>3. CASE EnvBegun(r)
  BY <1>1, <1>3 DEF Stores, EnvBegun
<1>4. CASE EnvWritten(r) \/ WorktreeAdded(r) \/ UndoEnv(r) \/ Unlink(r)
  BY <1>1, <1>4 DEF Stores, EnvWritten, WorktreeAdded, UndoEnv, Unlink
<1>5. ASSUME NEW left \in SUBSET {"dir", "tmp"}, EnvRefused(r, left)
      PROVE  q \in disk[t]
  BY <1>1, <1>5 DEF Stores, EnvRefused
<1>6. ASSUME NEW removed, UndoDir(r, removed)
      PROVE  q \in disk[t]
  BY <1>1, <1>6 DEF Stores, UndoDir
<1>7. ASSUME NEW works, Destroy(r, works)
      PROVE  q \in disk[t]
  BY <1>1, <1>7 DEF Stores, Destroy
<1>. QED
  BY <1>2, <1>3, <1>4, <1>5, <1>6, <1>7
  DEF Step, PostStep, DeleteStep, Arrive, CreateFile, AddRead, AddWrite, VaultUnreachable,
      WorktreeRefused, GitMissing, Get, UnlinkRefused, RemoveRead, RemoveWrite, StateRefused

\* And it goes when its request does.
LEMMA DraftGone ==
  ASSUME Ledger, Drafts, NEW r \in Request, Step(r), At(r, "post", "rename")
  PROVE  r \notin disk'[TaskOf(r)]
<1>1. Stores /\ r \notin {"dir", "git", "env", "tmp"} /\ TaskOf(r) \in Task
  BY TypeParts, WorktreeAssumption DEF Ledger, Served, At
<1>2. EnvWritten(r) \/ \E left \in SUBSET {"dir", "tmp"} : EnvRefused(r, left)
  <2>1. /\ ~CreateFile(r) /\ ~RemoveWrite(r) /\ ~StateRefused(r)
        /\ \A read : ~RemoveRead(r, read)
    BY DEF At, CreateFile, RemoveRead, RemoveWrite, StateRefused
  <2>2. \A op, t : ~Arrive(r, op, t)
    BY DEF At, Arrive, Idle
  <2>3. ~DeleteStep(r)
    BY DEF At, DeleteStep, Get, Unlink, UnlinkRefused, Destroy
  <2>4. /\ \A read : ~AddRead(r, read)
        /\ ~AddWrite(r) /\ ~EnvBegun(r) /\ ~VaultUnreachable(r)
        /\ ~WorktreeAdded(r) /\ ~WorktreeRefused(r) /\ ~GitMissing(r) /\ ~UndoEnv(r)
        /\ \A removed : ~UndoDir(r, removed)
    BY DEF At, AddRead, AddWrite, EnvBegun, VaultUnreachable, WorktreeAdded, WorktreeRefused,
           GitMissing, UndoEnv, UndoDir
  <2>. QED
    BY <2>1, <2>2, <2>3, <2>4 DEF Step, PostStep
<1>. QED
  BY <1>1, <1>2 DEF Stores, EnvWritten, EnvRefused

LEMMA NextSteps == Next => Crash \/ \E r \in Request : Step(r)
  BY DEF Next, Step

LEMMA DraftsStep == Ledger /\ Drafts /\ [Next]_vars => Drafts'
<1>. SUFFICES ASSUME Ledger, Drafts, [Next]_vars
              PROVE  Drafts'
  OBVIOUS
<1>1. ASSUME NEW r \in Request, Step(r)
      PROVE  Drafts'
  <2>. SUFFICES ASSUME NEW t \in Task, NEW q \in disk'[t] \cap Request
                PROVE  At(q, "post", "rename")' /\ TaskOf(q)' = t
    BY DEF Drafts
  <2>1. CASE q # r
    <3>1. q \in disk[t] /\ OthersKept(r)
      BY <1>1, <2>1, DraftSteps, OthersSteps
    <3>. QED
      BY <2>1, <3>1 DEF Drafts, OthersKept, At, TaskOf
  <2>2. CASE q = r
    <3>1. q \notin disk[t]
      BY <1>1, <2>2, DraftGone DEF Drafts
    <3>2. EnvBegun(r) /\ t = TaskOf(r)
      BY <1>1, <3>1, DraftSteps
    <3>3. Advances(r, "rename")
      BY <3>2, TypeParts, AdvanceEffects DEF Ledger
    <3>. QED
      BY <2>2, <3>2, <3>3 DEF Advances, Becomes, EnvBegun, At, TaskOf
  <2>. QED
    BY <2>1, <2>2
<1>2. CASE Crash
  BY <1>2, WorktreeAssumption DEF Drafts, Crash, Abandoned
<1>3. CASE UNCHANGED vars
  BY <1>3 DEF Drafts, vars, At, TaskOf
<1>. QED
  BY <1>1, <1>2, <1>3, NextSteps

\* A request that is about to give up its entry alone has cleared up before.
LEMMA OwnCleared ==
  ASSUME IInv, NEW r \in Request, Step(r)
  PROVE  ClearedAt(r)'
<1>a. Ledger /\ Typed /\ Stores /\ Ownership /\ Drafts /\ Cleared
  BY TypeParts DEF IInv, Ledger
<1>1. ASSUME Ends(r) PROVE ClearedAt(r)'
  BY <1>1 DEF ClearedAt, Settled, Ends, Becomes
<1>2. ASSUME NEW op \in {"post", "delete"}, NEW t \in Task, Arrive(r, op, t)
      PROVE  ClearedAt(r)'
  <2>1. requests'[r].pc \in {"create", "add", "get"}
    BY <1>a, <1>2, ArriveEffect DEF Becomes
  <2>. QED
    BY <2>1 DEF ClearedAt, Settled
<1>3. CASE CreateFile(r)
  BY <1>a, <1>3, CreateFileEffect DEF Marks, ClearedAt, Settled
<1>4. ASSUME NEW read \in Readings, AddRead(r, read)
      PROVE  ClearedAt(r)'
  BY <1>a, <1>1, <1>4, ReadEffects DEF Takes, Becomes, ClearedAt, Settled
<1>5. CASE AddWrite(r)
  <2> DEFINE met == Deleting(TaskOf(r)) \cup {q \in Making(TaskOf(r)) : requests[q].raced}
             losers == UNION {Making(u) \cup Deleting(u) : u \in Lost(r)}
             alone == met = {} /\ TaskOf(r) \notin Lost(r) /\ ~Stray(TaskOf(r))
             marked == losers \cup (IF alone THEN {} ELSE met \cup {r})
  <2>1. Marks(r, "env", Nil, marked)
    <3>1. "env" \in Pc /\ Nil \in (SUBSET Task) \cup {Nil}
      BY DEF Pc
    <3>. QED
      BY <1>a, <1>5, <3>1, MeetEffect DEF AddWrite
  <2>2. SUFFICES ASSUME ~requests'[r].raced
                 PROVE  disk[TaskOf(r)] \cap ({"env"} \cup Request) = {}
    BY <1>5, <2>1 DEF ClearedAt, Marks, AddWrite, TaskOf
  <2>3. ~Stray(TaskOf(r)) /\ TaskOf(r) \notin Lost(r)
    BY <2>1, <2>2 DEF Marks
  <2>4. ~Registered(TaskOf(r))
    BY <1>a, <1>5, <2>3 DEF AddWrite, At, Ledger, Books, Registered, Lost
  <2>. QED
    BY <2>3, <2>4 DEF Stray
<1>6. CASE EnvBegun(r) \/ EnvWritten(r) \/ WorktreeRefused(r)
  BY <1>a, <1>6, AdvanceEffects DEF Advances, Becomes, ClearedAt, Settled
<1>7. CASE VaultUnreachable(r)
  <2>1. LeavesBehind(r, disk[TaskOf(r)] # {}) /\ UNCHANGED disk
    BY <1>a, <1>7, GiveUpEffects DEF VaultUnreachable
  <2>2. ~requests[r].raced => disk[TaskOf(r)] \cap ({"env"} \cup Request) = {}
    BY <1>a, <1>7 DEF Cleared, ClearedAt, Settled, VaultUnreachable, At
  <2>. QED
    BY <2>1, <2>2 DEF LeavesBehind, Becomes, ClearedAt, TaskOf
<1>8. CASE UndoEnv(r)
  <2>1. Advances(r, "undo-dir")
    BY <1>a, <1>8, AdvanceEffects
  <2>2. ~requests[r].raced => disk[TaskOf(r)] \cap Request = {}
    BY <1>a, <1>8, NoDraft DEF UndoEnv, At, Working
  <2>3. TaskOf(r) \in Task /\ disk' = [disk EXCEPT ![TaskOf(r)] = @ \ {"env"}]
    BY <1>a, <1>8 DEF UndoEnv, At, Ledger, Served
  <2>. QED
    BY <1>a, <2>1, <2>2, <2>3 DEF Advances, Becomes, ClearedAt, TaskOf, Stores
<1>9. CASE Unlink(r)
  <2>1. Advances(r, "destroy")
    BY <1>a, <1>9, AdvanceEffects
  <2>2. ~requests[r].raced => disk[TaskOf(r)] \cap Request = {}
    BY <1>a, <1>9, NoDraft DEF Unlink, At, Working
  <2>3. TaskOf(r) \in Task /\ disk' = [disk EXCEPT ![TaskOf(r)] = @ \ {"env"}]
    BY <1>a, <1>9 DEF Unlink, At, Ledger, Served
  <2>. QED
    BY <1>a, <2>1, <2>2, <2>3 DEF Advances, Becomes, ClearedAt, TaskOf, Stores
<1>10. ASSUME NEW removed \in BOOLEAN, UndoDir(r, removed)
       PROVE  ClearedAt(r)'
  <2>1. LeavesBehind(r, ~removed)
    BY <1>a, <1>10, GiveUpEffects
  <2>2. ~requests[r].raced => disk[TaskOf(r)] \cap ({"env"} \cup Request) = {}
    BY <1>a, <1>10 DEF Cleared, ClearedAt, Settled, UndoDir, At
  <2>3. TaskOf(r) \in Task /\ disk' = IF removed THEN [disk EXCEPT ![TaskOf(r)] = {}] ELSE disk
    BY <1>a, <1>10 DEF UndoDir, At, Ledger, Served
  <2>. QED
    BY <1>a, <2>1, <2>2, <2>3 DEF LeavesBehind, Becomes, ClearedAt, TaskOf, Stores
<1>11. ASSUME NEW works \in BOOLEAN, Destroy(r, works)
       PROVE  ClearedAt(r)'
  <2> DEFINE removable == TaskOf(r) \in listed /\ "git" \in disk[TaskOf(r)] /\ works
  <2>1. LeavesBehind(r, ~removable /\ disk[TaskOf(r)] # {})
    BY <1>a, <1>11, GiveUpEffects
  <2>2. ~requests[r].raced => disk[TaskOf(r)] \cap ({"env"} \cup Request) = {}
    BY <1>a, <1>11 DEF Cleared, ClearedAt, Settled, Destroy, At
  <2>3. /\ TaskOf(r) \in Task
        /\ disk' = IF removable THEN [disk EXCEPT ![TaskOf(r)] = {}] ELSE disk
    BY <1>a, <1>11 DEF Destroy, At, Ledger, Served
  <2> HIDE DEF removable
  <2>. QED
    BY <1>a, <2>1, <2>2, <2>3 DEF LeavesBehind, Becomes, ClearedAt, TaskOf, Stores
<1>12. ASSUME NEW read, Get(r, read)
       PROVE  ClearedAt(r)'
  <2>1. Ends(r) \/ requests'[r].pc = "unlink"
    BY <1>a, <1>12, GetEffect, AnswersEffect DEF Get, Marks
  <2>. QED
    BY <1>1, <2>1 DEF ClearedAt, Settled
<1>13. ASSUME NEW read \in Readings, RemoveRead(r, read)
       PROVE  ClearedAt(r)'
  <2>1. CASE Ends(r)
    BY <1>1, <2>1
  <2>2. CASE Takes(r, "removing", file)
    BY <1>a, <1>13, <2>2 DEF RemoveRead, Takes, Becomes, Cleared, ClearedAt, Settled, TaskOf
  <2>. QED
    BY <1>a, <1>13, <2>1, <2>2, ReadEffects
<1>14. CASE Ends(r)
  BY <1>1, <1>14
<1>. QED
  BY <1>a, <1>2, <1>3, <1>4, <1>5, <1>6, <1>7, <1>8, <1>9, <1>10, <1>11, <1>12, <1>13, <1>14,
     EndEffects
  DEF Step, PostStep, DeleteStep

LEMMA ClearedStep == IInv /\ [Next]_vars => Cleared'
<1>. SUFFICES ASSUME IInv, [Next]_vars
              PROVE  Cleared'
  OBVIOUS
<1>1. ASSUME NEW r \in Request, Step(r), NEW p \in Request
      PROVE  ClearedAt(p)'
  <2>1. CASE p = r
    BY <1>1, <2>1, OwnCleared
  <2>2. CASE p # r
    BY <1>1, <2>2, DiskSteps, OthersSteps, OthersCleared DEF IInv, OthersKept
  <2>. QED
    BY <2>1, <2>2
<1>2. CASE Crash
  BY <1>2 DEF Cleared, ClearedAt, Settled, Crash, Idle
<1>3. CASE UNCHANGED vars
  BY <1>3 DEF IInv, Cleared, ClearedAt, Settled, TaskOf, vars
<1>. QED
  BY <1>1, <1>2, <1>3, NextSteps DEF Cleared

THEOREM Invariance == Spec => []IInv
<1>1. Init => Drafts /\ Cleared
  BY DEF Init, Drafts, Cleared, ClearedAt, Settled, Idle
<1>2. IInv /\ [Next]_vars => IInv'
  BY LedgerStep, OwnershipStep, DraftsStep, ClearedStep DEF IInv
<1>3. Init => Ownership
  BY DEF Init, Ownership, Owned, Alone, Apart, Making, Deleting, Idle
<1>. QED
  BY <1>1, <1>2, <1>3, LedgerInit, PTL DEF Spec, IInv

-----------------------------------------------------------------------------
\* Whoever takes the entry of a task away, without having met another, has left
\* no secret behind, and nothing at all unless it knows.
LEMMA EntryGiven ==
  ASSUME IInv, NEW r \in Request, Step(r), NEW t \in Task, Registered(t), ~Registered(t)',
         ~Overtaken(t)
  PROVE  /\ TaskOf(r) = t /\ UNCHANGED disk
         /\ disk[t] \cap ({"env"} \cup Request) = {}
         /\ ~requests[r].left => disk[t] = {}
<1>a. Ledger /\ Ownership /\ Cleared
  BY DEF IInv
<1>1. CASE UNCHANGED file
  BY <1>1 DEF Registered
<1>2. CASE CreateFile(r)
  BY <1>2 DEF CreateFile, Overtaken
<1>3. CASE AddWrite(r)
  BY <1>a, <1>3, WorktreeAssumption
  DEF AddWrite, At, Registered, Ledger, Served, Books, Overtaken, Lost
<1>4. CASE RemoveWrite(r)
  <2>1. /\ file' = requests[r].read \ {TaskOf(r)} /\ file \subseteq requests[r].read
        /\ file' # Nil /\ requests[r].op \in {"post", "delete"} /\ requests[r].pc = "removing"
    BY <1>a, <1>4, WorktreeAssumption DEF RemoveWrite, Ledger, Served, Books, Blind
  <2>2. TaskOf(r) = t
    BY <2>1 DEF Registered
  <2>. QED
    BY <1>a, <1>4, <2>1, <2>2 DEF Overtaken, Cleared, ClearedAt, Settled, RemoveWrite
<1>. QED
  BY <1>1, <1>2, <1>3, <1>4
  DEF Step, PostStep, DeleteStep, Arrive, AddRead, EnvBegun, EnvWritten, VaultUnreachable,
      EnvRefused, WorktreeAdded, WorktreeRefused, GitMissing, UndoEnv, UndoDir, Get, Unlink,
      UnlinkRefused, Destroy, RemoveRead, StateRefused

\* Whoever adds to a target has its entry.
LEMMA AddedRegistered ==
  ASSUME IInv, NEW r \in Request, Step(r), NEW t \in Task, ~(disk'[t] \subseteq disk[t]),
         ~Overtaken(t)
  PROVE  Registered(t)
<1>1. r \in Making(t)
  BY DiskSteps DEF IInv, AddsToItsOwn
<1>2. ~requests[r].raced
  BY <1>1 DEF Making, Overtaken
<1>. QED
  BY <1>1, <1>2 DEF IInv, Ownership, Owned

\* No secret, and no draft that is being written, gets on disk without an entry or
\* loses its entry, unless requests for the task met, or an empty file or an add that
\* could not read the file took the entry.
THEOREM StrayAlways == Spec => NoStraySecret
<1>1. ASSUME IInv, [Next]_vars
      PROVE  [\A t \in Task : Stray(t)' => Stray(t) \/ Overtaken(t)]_vars
  <2>. SUFFICES ASSUME Next, NEW t \in Task, Stray(t)', ~Overtaken(t)
                PROVE  Stray(t)
    BY <1>1
  <2>1. CASE Crash
    <3>1. disk'[t] \cap ({"env"} \cup Request) \subseteq disk[t]
      BY <2>1, WorktreeAssumption DEF Crash, Abandoned
    <3>. QED
      BY <2>1, <3>1 DEF Crash, Stray, Registered
  <2>2. ASSUME NEW r \in Request, Step(r)
        PROVE  Stray(t)
    <3>1. CASE Registered(t)
      BY <1>1, <2>2, <3>1, EntryGiven DEF Stray
    <3>2. CASE ~Registered(t)
      BY <1>1, <2>2, <3>2, AddedRegistered DEF Stray
    <3>. QED
      BY <3>1, <3>2
  <2>. QED
    BY <2>1, <2>2, NextSteps
<1>. QED
  BY <1>1, Invariance, PTL DEF Spec, NoStraySecret

\* Nothing is left on disk without an entry, wherever a request fails or the
\* service dies, unless requests for the task met, something would not go, or the
\* entry was lost as above.
THEOREM UnregisteredAlways == Spec => NothingUnregistered
<1>1. ASSUME IInv, [Next]_vars
      PROVE  [\A t \in Task : (disk[t] # {} /\ ~Registered(t))' =>
                 \/ disk[t] # {} /\ ~Registered(t)
                 \/ Overtaken(t)
                 \/ \E r \in Request : TaskOf(r) = t /\ requests[r].left]_vars
  <2>. SUFFICES ASSUME Next, NEW t \in Task, disk'[t] # {}, ~Registered(t)', ~Overtaken(t),
                       \A r \in Request : TaskOf(r) = t => ~requests[r].left
                PROVE  disk[t] # {} /\ ~Registered(t)
    BY <1>1
  <2>1. CASE Crash
    BY <2>1 DEF Crash, Abandoned, Registered
  <2>2. ASSUME NEW r \in Request, Step(r)
        PROVE  disk[t] # {} /\ ~Registered(t)
    <3>1. CASE Registered(t)
      BY <1>1, <2>2, <3>1, EntryGiven
    <3>2. CASE ~Registered(t)
      BY <1>1, <2>2, <3>2, AddedRegistered
    <3>. QED
      BY <3>1, <3>2
  <2>. QED
    BY <2>1, <2>2, NextSteps
<1>. QED
  BY <1>1, Invariance, PTL DEF Spec, NothingUnregistered

-----------------------------------------------------------------------------
(***************************************************************************)
(* StateStore is a Registry.  What its invariant adds: while a request is  *)
(* between its read and its write, nobody but the first request of all,    *)
(* with its empty file, has written; and a remove has read its entry.      *)
(***************************************************************************)

Untouched ==
    \A r \in Request :
       requests[r].pc \in {"adding", "removing"} =>
          /\ file = requests[r].read \/ file = {} \/ Blind(r)
          /\ requests[r].pc = "removing" => TaskOf(r) \in requests[r].read

LEMMA AddWriteEffect ==
  ASSUME Typed, NEW r \in Request, AddWrite(r)
  PROVE  \E met : Marks(r, "env", Nil, met)
<1>1. "env" \in Pc /\ Nil \in (SUBSET Task) \cup {Nil}
  BY DEF Pc
<1>. QED
  BY <1>1, MeetEffect DEF AddWrite

\* Only the empty file and the holder of the flock change state.json, and only
\* a request that finds the flock free takes it.
LEMMA FileSteps ==
  ASSUME Ledger, NEW r \in Request, Step(r)
  PROVE  \/ UNCHANGED file
         \/ CreateFile(r)
         \/ AddWrite(r) /\ lock = r
         \/ RemoveWrite(r) /\ lock = r
<1>1. AddWrite(r) \/ RemoveWrite(r) => lock = r
  BY TypeParts DEF Ledger, Held, AddWrite, RemoveWrite, At
<1>. QED
  BY <1>1
  DEF Step, PostStep, DeleteStep, Arrive, AddRead, EnvBegun, EnvWritten, VaultUnreachable,
      EnvRefused, WorktreeAdded, WorktreeRefused, GitMissing, UndoEnv, UndoDir, Get, Unlink,
      UnlinkRefused, Destroy, RemoveRead, StateRefused

LEMMA OwnUntouched ==
  ASSUME Ledger, Untouched, NEW r \in Request, Step(r),
         requests'[r].pc \in {"adding", "removing"}
  PROVE  /\ file' = requests'[r].read \/ Blind(r)'
         /\ requests'[r].pc = "removing" => TaskOf(r)' \in requests'[r].read
<1>1. Typed /\ ~Ends(r)
  BY TypeParts DEF Ledger, Ends, Becomes
<1>2. PICK read \in Readings : AddRead(r, read) \/ RemoveRead(r, read)
  <2>1. ASSUME NEW op \in {"post", "delete"}, NEW t \in Task, Arrive(r, op, t)
        PROVE  FALSE
    BY <1>1, <2>1, ArriveEffect DEF Becomes
  <2>2. ~CreateFile(r)
    BY <1>1, CreateFileEffect DEF Marks
  <2>3. ~AddWrite(r)
    BY <1>1, AddWriteEffect DEF Marks
  <2>4. \A read : ~Get(r, read)
    BY <1>1, GetEffect, AnswersEffect DEF Get, Marks
  <2>. QED
    BY <1>1, <2>1, <2>2, <2>3, <2>4, AdvanceEffects, GiveUpEffects, EndEffects
    DEF Step, PostStep, DeleteStep, Advances, LeavesBehind, Becomes
<1>3. CASE AddRead(r, read)
  BY <1>1, <1>3, ReadEffects DEF AddRead, Takes, Becomes, Blind
<1>4. CASE RemoveRead(r, read)
  BY <1>1, <1>4, ReadEffects DEF RemoveRead, Takes, Becomes, TaskOf
<1>. QED
  BY <1>2, <1>3, <1>4

LEMMA OthersRead ==
  ASSUME Ledger, NEW r \in Request, Step(r), NEW q \in Request \ {r}
  PROVE  requests'[q].read = requests[q].read
<1>1. Typed
  BY TypeParts DEF Ledger
<1>2. ASSUME NEW op \in {"post", "delete"}, NEW t \in Task, Arrive(r, op, t)
      PROVE  requests'[q] = requests[q]
  BY <1>1, <1>2, ArriveEffect DEF Becomes
<1>3. CreateFile(r) => requests'[q].read = requests[q].read
  BY <1>1, CreateFileEffect DEF Marks
<1>4. AddWrite(r) => requests'[q].read = requests[q].read
  BY <1>1, AddWriteEffect DEF Marks
<1>5. \A read : Get(r, read) => requests'[q].read = requests[q].read
  BY <1>1, GetEffect, AnswersEffect DEF Get, Ends, Becomes, Marks
<1>6. \A read \in Readings : AddRead(r, read) \/ RemoveRead(r, read) => requests'[q] = requests[q]
  BY ReadEffects DEF Ends, Takes, Becomes
<1>. QED
  BY <1>1, <1>2, <1>3, <1>4, <1>5, <1>6, AdvanceEffects, GiveUpEffects, EndEffects
  DEF Step, PostStep, DeleteStep, Advances, LeavesBehind, Ends, Becomes

LEMMA UntouchedStep == Ledger /\ Untouched /\ [Next]_vars => Untouched'
<1>. SUFFICES ASSUME Ledger, Untouched, [Next]_vars
              PROVE  Untouched'
  OBVIOUS
<1>1. ASSUME NEW r \in Request, Step(r), NEW q \in Request,
             requests'[q].pc \in {"adding", "removing"}
      PROVE  /\ file' = requests'[q].read \/ file' = {} \/ Blind(q)'
             /\ requests'[q].pc = "removing" => TaskOf(q)' \in requests'[q].read
  <2>1. CASE q = r
    BY <1>1, <2>1, OwnUntouched
  <2>2. CASE q # r
    <3>1. /\ requests'[q].pc = requests[q].pc /\ TaskOf(q)' = TaskOf(q)
          /\ requests'[q].read = requests[q].read
      BY <1>1, <2>2, OthersSteps, OthersRead DEF OthersKept, TaskOf
    <3>2. lock = q
      BY <1>1, <3>1, TypeParts DEF Ledger, Held
    <3>3. UNCHANGED file \/ file' = {}
      BY <1>1, <2>2, <3>2, FileSteps DEF CreateFile
    <3>. QED
      BY <1>1, <3>1, <3>3 DEF Untouched, Blind
  <2>. QED
    BY <2>1, <2>2
<1>2. CASE Crash
  BY <1>2 DEF Untouched, Crash, Idle
<1>3. CASE UNCHANGED vars
  BY <1>3 DEF Untouched, Blind, vars, TaskOf
<1>. QED
  BY <1>1, <1>2, <1>3, NextSteps DEF Untouched

\* The refinement mapping.
Entries == IF lock # Nil /\ file = {} THEN requests[lock].read
           ELSE IF file = Nil THEN {} ELSE file
Emptied == lock # Nil /\ file = {} /\ requests[lock].read # {}
Wants == [r \in Request |-> Wanted(r)]
Tasks == [r \in Request |-> TaskOf(r)]

LEMMA Mapping ==
  ASSUME NEW r \in Request, NEW what
  PROVE  /\ State!Goes(r, what) <=> Wants' = [Wants EXCEPT ![r] = what] /\ UNCHANGED Tasks
         /\ State!Done(r) <=> /\ Wants' = [Wants EXCEPT ![r] = "idle"]
                             /\ Tasks' = [Tasks EXCEPT ![r] = Nil]
         /\ State!Reads <=> UNCHANGED <<Entries, Emptied>>
  BY DEF State!Goes, State!Done, State!Reads, Wants, Tasks, Entries, Emptied

\* A step of one request is a step of one client.
LEMMA ClientGoes ==
  ASSUME NEW r \in Request, OthersKept(r), NEW what, Wanted(r)' = what
  PROVE  /\ TaskOf(r)' = TaskOf(r) => State!Goes(r, what)
         /\ what = "idle" /\ TaskOf(r)' = Nil => State!Done(r)
<1>1. \A q \in Request \ {r} : Wanted(q)' = Wanted(q) /\ TaskOf(q)' = TaskOf(q)
  BY DEF OthersKept, Wanted, TaskOf
<1>2. Wants' = [Wants EXCEPT ![r] = what]
  BY <1>1 DEF Wants
<1>3. TaskOf(r)' = TaskOf(r) => UNCHANGED Tasks
  BY <1>1 DEF Tasks
<1>4. TaskOf(r)' = Nil => Tasks' = [Tasks EXCEPT ![r] = Nil]
  BY <1>1 DEF Tasks
<1>. QED
  BY <1>2, <1>3, <1>4, Mapping

\* Who neither holds nor takes the flock, and leaves the file alone, only reads.
LEMMA ClientReads ==
  ASSUME Ledger, NEW r \in Request, Step(r), UNCHANGED <<file, lock>>, lock # r
  PROVE  State!Reads
<1>1. lock \in Request \cup {Nil}
  BY TypeParts DEF Ledger, Stores
<1>2. lock # Nil => requests'[lock].read = requests[lock].read
  BY <1>1, OthersRead
<1>. QED
  BY <1>2, Mapping DEF Entries, Emptied

\* Nothing was registered, or the registered tasks are what the holder has read.
LEMMA Contents ==
  ASSUME Ledger, Untouched
  PROVE  /\ lock = Nil => ~Emptied
         /\ lock = Nil /\ file # Nil => Entries = file
         /\ \A r \in Request : lock = r => file # Nil /\ (Entries = requests[r].read \/ Blind(r))
         /\ file # Nil => \A t \in Task : t \in file <=> t \in Entries /\ ~Emptied
<1>1. lock \in Request \cup {Nil} /\ Nil \notin Request
  BY TypeParts, WorktreeAssumption DEF Ledger, Stores
<1>2. \A r \in Request : lock = r =>
         file # Nil /\ (file = requests[r].read \/ file = {} \/ Blind(r))
  BY TypeParts DEF Ledger, Held, Served, Untouched
<1>. QED
  BY <1>1, <1>2 DEF Entries, Emptied

LEMMA ClientStep ==
  ASSUME NEW r \in Request, Wanted(r)' # Wanted(r),
         \/ Wanted(r) = "idle" /\ State!Come(r)
         \/ Wanted(r) = "create" /\ State!Create(r)
         \/ Wanted(r) = "add" /\ State!Add(r, TaskOf(r))
         \/ Wanted(r) = "get" /\ State!Get(r, TaskOf(r))
         \/ Wanted(r) = "hold" /\ State!Hold(r)
         \/ Wanted(r) = "remove" /\ State!Remove(r, TaskOf(r))
         \/ Wanted(r) \in {"create", "add", "remove"} /\ State!Fail(r)
  PROVE  State!Step(r)
  BY DEF State!Step

LEMMA ClientRests ==
  ASSUME NEW r \in Request, OthersKept(r), Wanted(r)' = Wanted(r), TaskOf(r)' = TaskOf(r),
         State!Reads
  PROVE  UNCHANGED State!vars
<1>1. \A q \in Request : Wanted(q)' = Wanted(q) /\ TaskOf(q)' = TaskOf(q)
  BY DEF OthersKept, Wanted, TaskOf
<1>2. UNCHANGED <<Wants, Tasks>>
  BY <1>1 DEF Wants, Tasks
<1>. QED
  BY <1>2, Mapping DEF State!vars, Wants, Tasks, Entries, Emptied

\* The work on a target, between the entry and its removal, is none of the
\* registry's business.
LEMMA HolderSteps ==
  ASSUME Ledger, NEW r \in Request, Step(r), UNCHANGED <<file, lock>>, Wanted(r) = "hold",
         \/ \E pc \in Holding : Advances(r, pc)
         \/ \E left : LeavesBehind(r, left)
         \/ Ends(r)
  PROVE  State!Step(r) \/ UNCHANGED State!vars
<1>a. requests[r].pc \notin {"adding", "removing"}
  BY DEF Wanted, Holding
<1>b. lock # r
  BY <1>a, TypeParts DEF Ledger, Held
<1>1. OthersKept(r)
  BY OthersSteps
<1>2. State!Reads
  BY <1>b, ClientReads
<1>3. CASE \E pc \in Holding : Advances(r, pc)
  <2>1. Wanted(r)' = "hold" /\ TaskOf(r)' = TaskOf(r)
    BY <1>3 DEF Advances, Becomes, Wanted, TaskOf
  <2>. QED
    BY <1>1, <1>2, <2>1, ClientRests
<1>4. CASE \E left : LeavesBehind(r, left)
  <2>1. Wanted(r)' = "remove" /\ TaskOf(r)' = TaskOf(r)
    BY <1>4 DEF LeavesBehind, Becomes, Wanted, TaskOf, Holding
  <2>2. State!Hold(r)
    BY <1>1, <1>2, <2>1, ClientGoes DEF State!Hold
  <2>. QED
    BY <2>1, <2>2, ClientStep
<1>5. CASE Ends(r)
  <2>1. Wanted(r)' = "idle" /\ TaskOf(r)' = Nil
    BY <1>5 DEF Ends, Becomes, Wanted, TaskOf, Holding
  <2>2. State!Hold(r)
    BY <1>1, <1>2, <2>1, ClientGoes DEF State!Hold
  <2>. QED
    BY <2>1, <2>2, ClientStep
<1>. QED
  BY <1>3, <1>4, <1>5

LEMMA ArriveKeeps ==
  ASSUME Ledger, NEW r \in Request, NEW op \in {"post", "delete"}, NEW t \in Task, Arrive(r, op, t)
  PROVE  State!Step(r)
<1>1. Becomes(r, op, t, IF file = Nil THEN "create" ELSE IF op = "post" THEN "add" ELSE "get",
              Nil, FALSE, FALSE)
  BY TypeParts, ArriveEffect DEF Ledger
<1>a. Step(r)
  BY DEF Step
<1>2. OthersKept(r) /\ UNCHANGED <<file, lock>> /\ requests[r].pc = "idle"
  BY <1>a, OthersSteps DEF Arrive, Idle
<1>3. PICK what \in {"create", "add", "get"} : Wanted(r)' = what
  BY <1>1 DEF Becomes, Wanted, Holding
<1>4. \A q \in Request \ {r} : Wanted(q)' = Wanted(q) /\ TaskOf(q)' = TaskOf(q)
  BY <1>2 DEF OthersKept, Wanted, TaskOf
<1>5. /\ Tasks' = [Tasks EXCEPT ![r] = t]
      /\ Wants' = [Wants EXCEPT ![r] = what]
  BY <1>1, <1>3, <1>4 DEF Becomes, Wants, Tasks, TaskOf
<1>6. State!Reads
  BY <1>a, <1>2, ClientReads, TypeParts DEF Ledger, Held
<1>7. State!Come(r)
  BY <1>5, <1>6 DEF State!Come, Wants, Tasks
<1>8. Wanted(r) = "idle"
  BY <1>2 DEF Wanted, Holding
<1>. QED
  BY <1>3, <1>7, <1>8, ClientStep

\* The empty file: it clears the registry, if nobody is writing; or until the
\* holder of the flock has written.
LEMMA CreateKeeps ==
  ASSUME Ledger, Untouched, NEW r \in Request, CreateFile(r)
  PROVE  State!Step(r)
<1> DEFINE pc == IF requests[r].op = "post" THEN "add" ELSE "get"
<1>1. \E met : Marks(r, pc, requests[r].read, met)
  BY TypeParts, CreateFileEffect DEF Ledger
<1>2. Step(r) /\ OthersKept(r) /\ file' = {} /\ UNCHANGED lock /\ requests[r].pc = "create"
  BY OthersSteps DEF Step, CreateFile
<1>3. Wanted(r) = "create" /\ Wanted(r)' = pc /\ TaskOf(r)' = TaskOf(r)
  BY <1>1, <1>2 DEF Marks, Wanted, TaskOf, Holding
<1>4. State!Goes(r, "add") \/ State!Goes(r, "get")
  BY <1>2, <1>3, ClientGoes
<1>5. \/ Entries' = {} /\ UNCHANGED Emptied
      \/ Emptied' = TRUE /\ UNCHANGED Entries
  <2>0. lock \in Request \cup {Nil} /\ Nil \notin Request /\ {} # Nil
    BY TypeParts, WorktreeAssumption DEF Ledger, Stores
  <2>1. CASE lock = Nil
    BY <1>2, <2>1, <2>0 DEF Entries, Emptied
  <2>2. CASE lock \in Request
    <3>1. requests'[lock].read = requests[lock].read
      BY <1>1, <2>2 DEF Marks
    <3>2. requests[lock].read = {} => Entries' = {} /\ Emptied = FALSE /\ Emptied' = FALSE
      BY <1>2, <2>2, <2>0, <3>1 DEF Entries, Emptied
    <3>3. requests[lock].read # {} => Entries = requests[lock].read
      BY <2>2, Contents DEF Blind
    <3>4. requests[lock].read # {} => Entries' = requests[lock].read /\ Emptied' = TRUE
      BY <1>2, <2>2, <2>0, <3>1 DEF Entries, Emptied
    <3>. QED
      BY <3>2, <3>3, <3>4
  <2>. QED
    BY <2>0, <2>1, <2>2
<1>6. State!Create(r)
  BY <1>4, <1>5 DEF State!Create, Entries, Emptied
<1>. QED
  BY <1>3, <1>6, ClientStep

\* Cardinality is the same here and there.
LEMMA SameCardinality == \A S : State!Cardinality(S) = Cardinality(S)
  BY DEF State!Cardinality, Cardinality

\* The holder of the flock has not begun, as far as the registry knows; a
\* refusal is the whole of it.
LEMMA AddReadKeeps ==
  ASSUME Ledger, Untouched, NEW r \in Request, NEW read \in Readings, AddRead(r, read)
  PROVE  State!Step(r) \/ UNCHANGED State!vars
<1>a. Step(r)
  BY DEF Step, PostStep
<1>1. /\ OthersKept(r) /\ UNCHANGED file /\ lock = Nil /\ file # Nil /\ requests[r].pc = "add"
      /\ TaskOf(r) \in Task
  BY <1>a, OthersSteps DEF AddRead, At, LockFree, Ledger, Served
<1>2. Wanted(r) = "add" /\ Entries = file /\ ~Emptied
  BY <1>1, Contents DEF Wanted, Holding
<1>3. CASE Refused(read, TaskOf(r))
  <2>1. Ends(r) /\ UNCHANGED lock
    BY <1>3, TypeParts, AnswersEffect DEF Ledger, AddRead
  <2>2. State!Reads
    BY <1>a, <1>1, <2>1, ClientReads, WorktreeAssumption
  <2>3. Wanted(r)' = "idle" /\ State!Done(r)
    BY <1>1, <2>1, ClientGoes DEF Ends, Becomes, Wanted, TaskOf, Holding
  <2>4. read = file
    <3>1. ~Refused({}, TaskOf(r))
      BY FS_EmptySet, WorktreeAssumption DEF Refused, Full
    <3>. QED
      BY <1>3, <3>1, ReadEffects
  <2>5. TaskOf(r) \in Entries \/ Cardinality(Entries) >= Capacity
    BY <1>2, <1>3, <2>4 DEF Refused, Full
  <2>6. State!Add(r, TaskOf(r))
    BY <2>2, <2>3, <2>5, SameCardinality DEF State!Add, Entries
  <2>. QED
    BY <1>2, <2>3, <2>6, ClientStep
<1>4. CASE ~Refused(read, TaskOf(r))
  <2>1. Takes(r, "adding", read) /\ lock' = r /\ (read = file \/ read = {})
    BY <1>4, ReadEffects, TypeParts, AnswersEffect DEF AddRead
  <2>2. requests'[r].read = read /\ requests'[r].pc = "adding" /\ TaskOf(r)' = TaskOf(r)
    BY <2>1 DEF Takes, Becomes, TaskOf
  <2>3. UNCHANGED <<Entries, Emptied>>
    BY <1>1, <1>2, <2>1, <2>2, WorktreeAssumption DEF Entries, Emptied
  <2>4. Wanted(r)' = "add"
    BY <2>2 DEF Wanted, Holding
  <2>. QED
    BY <1>1, <1>2, <2>2, <2>3, <2>4, Mapping, ClientRests
<1>. QED
  BY <1>3, <1>4

LEMMA AddWriteKeeps ==
  ASSUME Ledger, Untouched, NEW r \in Request, AddWrite(r)
  PROVE  State!Step(r)
<1>a. Step(r)
  BY DEF Step, PostStep
<1>1. /\ OthersKept(r) /\ requests[r].pc = "adding" /\ lock = r /\ lock' = Nil
      /\ file' = requests[r].read \cup {TaskOf(r)}
      /\ TaskOf(r) \in Task /\ requests[r].read \in SUBSET Task
      /\ TaskOf(r) \notin requests[r].read /\ Cardinality(requests[r].read) < Capacity
  BY <1>a, OthersSteps, TypeParts DEF AddWrite, At, Ledger, Held, Served, Books
<1>2. Wanted(r) = "add" /\ (Entries = requests[r].read \/ Blind(r))
  BY <1>1, Contents DEF Wanted, Holding
<1>3. Wanted(r)' = "hold" /\ TaskOf(r)' = TaskOf(r)
  BY TypeParts, AddWriteEffect DEF Ledger, Marks, Wanted, TaskOf, Holding
<1>4. State!Goes(r, "hold")
  BY <1>1, <1>3, ClientGoes
<1>5. Entries' = requests[r].read \cup {TaskOf(r)} /\ Emptied' = FALSE
  BY <1>1, WorktreeAssumption DEF Entries, Emptied
<1>6. CASE Entries = requests[r].read
  <2>1. State!Add(r, TaskOf(r))
    BY <1>1, <1>4, <1>5, <1>6, SameCardinality DEF State!Add, Entries, Emptied
  <2>. QED
    BY <1>2, <1>3, <2>1, ClientStep
<1>7. CASE Blind(r)
  <2>1. "read" \in Faults /\ Entries' = {TaskOf(r)}
    BY <1>5, <1>7 DEF Blind
  <2>2. State!Add(r, TaskOf(r))
    BY <1>4, <1>5, <2>1 DEF State!Add, Entries, Emptied
  <2>. QED
    BY <1>2, <1>3, <2>2, ClientStep
<1>. QED
  BY <1>2, <1>6, <1>7

LEMMA GetKeeps ==
  ASSUME Ledger, Untouched, NEW r \in Request, NEW read \in Readings, Get(r, read)
  PROVE  State!Step(r)
<1>a. Step(r)
  BY DEF Step, DeleteStep
<1>1. /\ OthersKept(r) /\ UNCHANGED <<file, lock>> /\ requests[r].pc = "get"
      /\ file # Nil /\ TaskOf(r) \in Task
  BY <1>a, OthersSteps DEF Get, At, Ledger, Served
<1>2. State!Reads
  BY <1>a, <1>1, ClientReads, TypeParts DEF Ledger, Held
<1>3. Wanted(r) = "get" /\ (TaskOf(r) \in file <=> TaskOf(r) \in Entries /\ ~Emptied)
  BY <1>1, Contents DEF Wanted, Holding
<1>b. read = file \/ ("read" \in Faults /\ read = {})
  BY <1>1, TypeParts, ReadingsEffect DEF Ledger
<1>4. CASE TaskOf(r) \in read
  <2>1. Wanted(r)' = "hold" /\ TaskOf(r)' = TaskOf(r)
    <3>1. \E met : Marks(r, "unlink", requests[r].read, met)
      BY <1>4, TypeParts, GetEffect DEF Ledger, Get
    <3>. QED
      BY <3>1 DEF Marks, Wanted, TaskOf, Holding
  <2>2. State!Get(r, TaskOf(r))
    BY <1>1, <1>2, <1>3, <1>b, <1>4, <2>1, ClientGoes DEF State!Get, Entries, Emptied
  <2>. QED
    BY <1>3, <2>1, <2>2, ClientStep
<1>5. CASE TaskOf(r) \notin read
  <2>1. Ends(r)
    BY <1>5, TypeParts, AnswersEffect DEF Ledger, Get
  <2>2. Wanted(r)' = "idle" /\ State!Done(r)
    BY <1>1, <2>1, ClientGoes DEF Ends, Becomes, Wanted, TaskOf, Holding
  <2>3. State!Get(r, TaskOf(r))
    BY <1>2, <1>3, <1>b, <1>5, <2>2 DEF State!Get, Entries, Emptied
  <2>. QED
    BY <1>3, <2>2, <2>3, ClientStep
<1>. QED
  BY <1>4, <1>5

LEMMA RemoveReadKeeps ==
  ASSUME Ledger, Untouched, NEW r \in Request, NEW read \in Readings, RemoveRead(r, read)
  PROVE  State!Step(r) \/ UNCHANGED State!vars
<1>a. Step(r)
  BY DEF Step
<1>1. /\ OthersKept(r) /\ UNCHANGED file /\ lock = Nil /\ file # Nil /\ requests[r].pc = "remove"
      /\ TaskOf(r) \in Task
  BY <1>a, OthersSteps DEF RemoveRead, LockFree, Ledger, Served
<1>2. Wanted(r) = "remove" /\ Entries = file /\ ~Emptied
  BY <1>1, Contents DEF Wanted, Holding
<1>b. read = file \/ ("read" \in Faults /\ read = {})
  BY <1>1, TypeParts, ReadingsEffect DEF Ledger
<1>3. CASE TaskOf(r) \notin read
  <2>1. Ends(r) /\ UNCHANGED lock
    BY <1>3, TypeParts, AnswersEffect DEF Ledger, RemoveRead
  <2>2. State!Reads
    BY <1>a, <1>1, <2>1, ClientReads, WorktreeAssumption
  <2>3. Wanted(r)' = "idle" /\ State!Done(r)
    BY <1>1, <2>1, ClientGoes DEF Ends, Becomes, Wanted, TaskOf, Holding
  <2>4. State!Remove(r, TaskOf(r))
    BY <1>2, <1>b, <1>3, <2>2, <2>3 DEF State!Remove, Entries
  <2>. QED
    BY <1>2, <2>3, <2>4, ClientStep
<1>4. CASE TaskOf(r) \in read
  <2>1. Takes(r, "removing", file) /\ lock' = r
    <3>1. read = file
      BY <1>b, <1>4
    <3>. QED
      BY <1>1, <1>4, <3>1, TypeParts, AddReadEffect DEF RemoveRead, Takes, Ledger, Stores, Pc
  <2>2. UNCHANGED <<Entries, Emptied>>
    BY <1>1, <1>2, <2>1, WorktreeAssumption DEF Takes, Becomes, Entries, Emptied
  <2>3. Wanted(r)' = "remove" /\ TaskOf(r)' = TaskOf(r)
    BY <2>1 DEF Takes, Becomes, Wanted, TaskOf, Holding
  <2>. QED
    BY <1>1, <1>2, <2>2, <2>3, Mapping, ClientRests
<1>. QED
  BY <1>3, <1>4

LEMMA RemoveWriteKeeps ==
  ASSUME Ledger, Untouched, NEW r \in Request, RemoveWrite(r)
  PROVE  State!Step(r)
<1>a. Step(r)
  BY DEF Step
<1>1. /\ OthersKept(r) /\ requests[r].pc = "removing" /\ lock = r /\ lock' = Nil
      /\ file' = requests[r].read \ {TaskOf(r)}
      /\ requests[r].read \in SUBSET Task /\ TaskOf(r) \in requests[r].read
  BY <1>a, OthersSteps, TypeParts DEF RemoveWrite, Ledger, Held, Books, Untouched
<1>2. Wanted(r) = "remove" /\ Entries = requests[r].read
  BY <1>1, Contents DEF Wanted, Holding, Blind
<1>3. Wanted(r)' = "idle" /\ State!Done(r)
  BY <1>1, TypeParts, EndEffects, ClientGoes DEF Ledger, Ends, Becomes, Wanted, TaskOf, Holding
<1>4. Entries' = Entries \ {TaskOf(r)} /\ Emptied' = FALSE
  BY <1>1, <1>2, WorktreeAssumption DEF Entries, Emptied
<1>5. State!Remove(r, TaskOf(r))
  BY <1>1, <1>2, <1>3, <1>4 DEF State!Remove, Entries, Emptied
<1>. QED
  BY <1>2, <1>3, <1>5, ClientStep

\* A failure before the write, or instead of it: what the holder of the flock has
\* read is not put back.
LEMMA StateRefusedKeeps ==
  ASSUME Ledger, Untouched, NEW r \in Request, StateRefused(r)
  PROVE  State!Step(r)
<1>a. Step(r)
  BY DEF Step
<1>1. OthersKept(r) /\ Ends(r) /\ UNCHANGED file
  BY <1>a, OthersSteps, TypeParts, EndEffects DEF Ledger, StateRefused
<1>2. Wanted(r)' = "idle" /\ State!Done(r)
  BY <1>1, ClientGoes DEF Ends, Becomes, Wanted, TaskOf, Holding
<1>3. Wanted(r) \in {"create", "add", "remove"}
  BY DEF StateRefused, Wanted, Holding
<1>4. CASE lock # r
  <2>1. UNCHANGED lock
    BY <1>4 DEF StateRefused
  <2>2. State!Reads
    BY <1>a, <1>1, <1>4, <2>1, ClientReads
  <2>. QED
    BY <1>2, <1>3, <2>2, ClientStep DEF State!Fail
<1>5. CASE lock = r
  <2>1. lock' = Nil /\ file # Nil /\ r # Nil
    BY <1>5, Contents, WorktreeAssumption DEF StateRefused
  <2>2. Entries' = (IF Emptied THEN {} ELSE Entries) /\ Emptied' = FALSE
    BY <1>1, <1>5, <2>1 DEF Entries, Emptied
  <2>3. State!Settle
    BY <2>2 DEF State!Settle, Entries, Emptied
  <2>. QED
    BY <1>2, <1>3, <2>3, ClientStep DEF State!Fail
<1>. QED
  BY <1>4, <1>5

\* What was read and not yet written is lost, and the file as well if it had
\* been emptied.
LEMMA CrashKeeps ==
  ASSUME Ledger, Untouched, Crash
  PROVE  State!Die
<1>1. Wants' = [r \in Request |-> "idle"] /\ Tasks' = [r \in Request |-> Nil]
  BY DEF Crash, Wants, Tasks, Wanted, TaskOf, Idle, Holding
<1>2. lock \in Request \cup {Nil} /\ Nil \notin Request
  BY TypeParts, WorktreeAssumption DEF Ledger, Stores
<1>3. {} # Nil /\ (lock \in Request => file # Nil)
  BY TypeParts, WorktreeAssumption DEF Ledger, Held, Served
<1>4. Entries' = (IF Emptied THEN {} ELSE Entries) /\ Emptied' = FALSE
  BY <1>2, <1>3 DEF Crash, Entries, Emptied
<1>. QED
  BY <1>1, <1>4 DEF State!Die, State!Settle, Wants, Tasks, Entries, Emptied

LEMMA RegistryStep == Ledger /\ Untouched /\ [Next]_vars => [State!Next]_(State!vars)
<1>. SUFFICES ASSUME Ledger, Untouched, [Next]_vars
              PROVE  State!Next \/ UNCHANGED State!vars
  OBVIOUS
<1>1. ASSUME NEW r \in Request, Step(r)
      PROVE  State!Step(r) \/ UNCHANGED State!vars
  <2>a. Typed
    BY TypeParts DEF Ledger
  <2>b. ASSUME requests[r].pc \in Holding, UNCHANGED <<file, lock>>,
               \/ \E pc \in Holding : Advances(r, pc)
               \/ \E left : LeavesBehind(r, left)
               \/ Ends(r)
        PROVE  State!Step(r) \/ UNCHANGED State!vars
    BY <1>1, <2>b, HolderSteps DEF Wanted
  <2>1. CASE EnvBegun(r) \/ EnvWritten(r) \/ WorktreeRefused(r) \/ UndoEnv(r) \/ Unlink(r)
    <3>1. requests[r].pc \in Holding /\ UNCHANGED <<file, lock>>
      BY <2>1 DEF EnvBegun, EnvWritten, WorktreeRefused, UndoEnv, Unlink, At, Holding
    <3>2. \E pc \in {"rename", "git", "undo-env", "undo-dir", "destroy"} : Advances(r, pc)
      BY <2>a, <2>1, AdvanceEffects
    <3>. QED
      BY <2>b, <3>1, <3>2 DEF Holding
  <2>2. ASSUME \/ VaultUnreachable(r)
               \/ \E removed \in BOOLEAN : UndoDir(r, removed)
               \/ \E works \in BOOLEAN : Destroy(r, works)
        PROVE  State!Step(r) \/ UNCHANGED State!vars
    <3>1. requests[r].pc \in Holding /\ UNCHANGED <<file, lock>>
      BY <2>2 DEF VaultUnreachable, UndoDir, Destroy, At, Holding
    <3>2. \E left : LeavesBehind(r, left)
      BY <2>a, <2>2, GiveUpEffects
    <3>. QED
      BY <2>b, <3>1, <3>2
  <2>3. ASSUME \/ \E left \in SUBSET {"dir", "tmp"} : EnvRefused(r, left)
               \/ WorktreeAdded(r) \/ GitMissing(r) \/ UnlinkRefused(r)
        PROVE  State!Step(r) \/ UNCHANGED State!vars
    <3>1. requests[r].pc \in Holding /\ UNCHANGED <<file, lock>>
      BY <2>3 DEF EnvRefused, WorktreeAdded, GitMissing, UnlinkRefused, At, Holding
    <3>2. Ends(r)
      BY <2>a, <2>3, EndEffects
    <3>. QED
      BY <2>b, <3>1, <3>2
  <2>4. CASE \/ \E op \in {"post", "delete"}, t \in Task : Arrive(r, op, t)
             \/ CreateFile(r) \/ \E read \in Readings : Get(r, read)
    BY <2>4, ArriveKeeps, CreateKeeps, GetKeeps
  <2>5. CASE \/ \E read \in Readings : AddRead(r, read) \/ RemoveRead(r, read)
             \/ AddWrite(r) \/ RemoveWrite(r) \/ StateRefused(r)
    BY <2>5, AddReadKeeps, AddWriteKeeps, RemoveReadKeeps, RemoveWriteKeeps, StateRefusedKeeps
  <2>. QED
    BY <1>1, <2>1, <2>2, <2>3, <2>4, <2>5 DEF Step, PostStep, DeleteStep
<1>2. CASE Crash
  BY <1>2, CrashKeeps DEF State!Next
<1>3. CASE UNCHANGED vars
  <2>1. UNCHANGED <<Wants, Tasks, Entries, Emptied>>
    BY <1>3 DEF vars, Wants, Tasks, Entries, Emptied, Wanted, TaskOf
  <2>. QED
    BY <2>1 DEF State!vars, Wants, Tasks, Entries, Emptied
<1>. QED
  BY <1>1, <1>2, <1>3, NextSteps DEF State!Next

\* StateStore, which reads and writes state.json in two steps under a lock, is a
\* set that is changed at one moment: WorktreeApi implements Registry.
THEOREM KeepsRegistryHolds == Spec => KeepsRegistry
<1>1. Init => Untouched
  BY DEF Init, Untouched, Idle
<1>2. Init => State!Init
  BY WorktreeAssumption
  DEF Init, State!Init, Idle, Wanted, TaskOf, Holding
<1>. QED
  BY <1>1, <1>2, LedgerInit, LedgerStep, UntouchedStep, RegistryStep, PTL
  DEF Spec, KeepsRegistry, State!Spec

Room == IsFiniteSet(Entries) /\ Cardinality(Entries) <= Capacity

\* A Registry is enough to know that no more tasks are registered than there is
\* room for.
THEOREM RegistryHasRoom == KeepsRegistry => []Room
<1>1. State!Init => Room
  BY FS_EmptySet, WorktreeAssumption DEF State!Init, Room, Entries
<1>2. ASSUME Room, [State!Next]_(State!vars)
      PROVE  Room'
  <2>1. \/ UNCHANGED Entries
        \/ Entries' = {}
        \/ \E t : /\ t \notin Entries /\ Cardinality(Entries) < Capacity
                 /\ Entries' = Entries \cup {t}
        \/ \E t : Entries' = Entries \ {t}
        \/ \E t : Entries' = {t}
    BY <1>2, SameCardinality
    DEF State!Next, State!Step, State!Die, State!Settle, State!Fail, State!vars, State!Come, State!Create, State!Add,
        State!Get, State!Hold, State!Remove, State!Reads, Entries
  <2>2. /\ IsFiniteSet(Entries) /\ Cardinality(Entries) \in Nat /\ Cardinality(Entries) <= Capacity
        /\ Capacity \in Nat
    BY <1>2, FS_CardinalityType, WorktreeAssumption DEF Room
  <2>3. CASE UNCHANGED Entries
    BY <2>2, <2>3 DEF Room
  <2>4. CASE Entries' = {}
    BY <2>2, <2>4, FS_EmptySet DEF Room
  <2>5. ASSUME NEW t, t \notin Entries, Cardinality(Entries) < Capacity, Entries' = Entries \cup {t}
        PROVE  Room'
    <3>1. IsFiniteSet(Entries') /\ Cardinality(Entries') = Cardinality(Entries) + 1
      BY <2>2, <2>5, FS_AddElement
    <3>. QED
      BY <2>2, <2>5, <3>1 DEF Room
  <2>6. ASSUME NEW t, Entries' = Entries \ {t}
        PROVE  Room'
    <3>1. IsFiniteSet(Entries') /\ Cardinality(Entries') \in Nat
          /\ Cardinality(Entries') <= Cardinality(Entries)
      BY <2>2, <2>6, FS_RemoveElement, FS_CardinalityType
    <3>. QED
      BY <2>2, <3>1 DEF Room
  <2>7. ASSUME NEW t, Entries' = {t}
        PROVE  Room'
    <3>1. IsFiniteSet(Entries') /\ Cardinality(Entries') = 1
      BY <2>7, FS_Singleton
    <3>2. 1 <= Capacity
      BY WorktreeAssumption
    <3>. QED
      BY <3>1, <3>2 DEF Room
  <2>. QED
    BY <2>1, <2>3, <2>4, <2>5, <2>6, <2>7
<1>. QED
  BY <1>1, <1>2, PTL DEF KeepsRegistry, State!Spec
=============================================================================
