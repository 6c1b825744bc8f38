------------------------------ MODULE Registry ------------------------------
(***************************************************************************)
(* What state.json is to the requests of the worktree API: a set of tasks  *)
(* of limited size, in which each add and each remove takes effect at one  *)
(* moment, all or nothing, and is answered by what the set was then.       *)
(*                                                                         *)
(* It has two flaws.  A client that found no file, and creates it, empties *)
(* the set; or the set is found empty until a write that was under way     *)
(* puts back what it had read, and for good if that fails or the service   *)
(* dies first.  And where the set cannot always be read (~Readable), a     *)
(* client that cannot read it takes it for empty: one that adds leaves     *)
(* nothing in it but its own entry, the others find nothing.               *)
(*                                                                         *)
(* WorktreeApi implements this specification.                              *)
(***************************************************************************)
EXTENDS Integers, FiniteSets

CONSTANTS
    Task, Client, Nil, Capacity,
    Readable    \* whether the set can be read at all times

VARIABLES
    entries,  \* the tasks registered
    emptied,  \* whether the set is found empty at present
    wants,    \* what each client wants, or holds
    task      \* and for which task

vars == <<entries, emptied, wants, task>>

Goes(c, what) == wants' = [wants EXCEPT ![c] = what] /\ UNCHANGED task
Done(c) == wants' = [wants EXCEPT ![c] = "idle"] /\ task' = [task EXCEPT ![c] = Nil]
Reads == UNCHANGED <<entries, emptied>>

\* What was under way is not put back.
Settle == entries' = (IF emptied THEN {} ELSE entries) /\ emptied' = FALSE

\* A client comes for an entry of its own, or for one there is.
Come(c) ==
    /\ \E t \in Task : task' = [task EXCEPT ![c] = t]
    /\ \E what \in {"create", "add", "get"} : wants' = [wants EXCEPT ![c] = what]
    /\ Reads

\* It found no file: it writes an empty one, over what there is by now.
Create(c) ==
    /\ \/ entries' = {} /\ UNCHANGED emptied
       \/ emptied' = TRUE /\ UNCHANGED entries
    /\ Goes(c, "add") \/ Goes(c, "get")

\* An entry of one's own is granted, or refused; or, unseen, all the others go.
Add(c, t) ==
    \/ /\ t \notin entries /\ Cardinality(entries) < Capacity
       /\ entries' = entries \cup {t} /\ emptied' = FALSE
       /\ Goes(c, "hold")
    \/ /\ t \in entries \/ Cardinality(entries) >= Capacity
       /\ Done(c)
       /\ Reads
    \/ /\ ~Readable
       /\ entries' = {t} /\ emptied' = FALSE
       /\ Goes(c, "hold")

\* An entry that is there is found.
Get(c, t) ==
    /\ \/ t \in entries /\ ~emptied /\ Goes(c, "hold")
       \/ (t \notin entries \/ emptied \/ ~Readable) /\ Done(c)
    /\ Reads

\* The client gives up an entry that it was granted or has found, or it leaves
\* it where it is.
Hold(c) ==
    /\ Goes(c, "remove") \/ Done(c)
    /\ Reads

\* An entry that is gone already is no error.
Remove(c, t) ==
    /\ \/ t \in entries /\ entries' = entries \ {t} /\ emptied' = FALSE
       \/ (t \notin entries \/ ~Readable) /\ Reads
    /\ Done(c)

\* A client fails with nothing written.
Fail(c) == Done(c) /\ (Reads \/ Settle)

\* Each step of a client changes what it wants.
Step(c) ==
    /\ wants'[c] # wants[c]
    /\ \/ wants[c] = "idle" /\ Come(c)
       \/ wants[c] = "create" /\ Create(c)
       \/ wants[c] = "add" /\ Add(c, task[c])
       \/ wants[c] = "get" /\ Get(c, task[c])
       \/ wants[c] = "hold" /\ Hold(c)
       \/ wants[c] = "remove" /\ Remove(c, task[c])
       \/ wants[c] \in {"create", "add", "remove"} /\ Fail(c)

\* The service dies, and all its clients with it.
Die ==
    /\ wants' = [c \in Client |-> "idle"] /\ task' = [c \in Client |-> Nil]
    /\ Settle

Init ==
    /\ entries = {} /\ emptied = FALSE
    /\ wants = [c \in Client |-> "idle"] /\ task = [c \in Client |-> Nil]

Next == (\E c \in Client : Step(c)) \/ Die

Spec == Init /\ [][Next]_vars
=============================================================================
