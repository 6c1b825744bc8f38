----------------------------- MODULE RunPromise -----------------------------
(***************************************************************************)
(* What the runs of agents may rely on: a ticket has one run at a time,    *)
(* and from its beginning to its end the ticket has a workspace, which is  *)
(* removed between two runs only.                                          *)
(*                                                                         *)
(* Symphony implements this specification for all tickets, Dispatch takes  *)
(* it for granted of the one ticket it follows.                            *)
(***************************************************************************)
CONSTANTS Ticket, Run

VARIABLES
    runs,       \* of each ticket, the runs at work on it
    workspaces  \* the tickets that have a workspace

vars == <<runs, workspaces>>

Begin(t, r) ==
    /\ runs[t] = {}
    /\ runs' = [runs EXCEPT ![t] = {r}]
    /\ workspaces' = workspaces \cup {t}

\* Whatever it has done, the workspace stays.
End(t) ==
    /\ runs' = [runs EXCEPT ![t] = {}]
    /\ UNCHANGED workspaces

Remove(t) ==
    /\ runs[t] = {}
    /\ workspaces' = workspaces \ {t}
    /\ UNCHANGED runs

\* The service dies, and all runs with it.
Die ==
    /\ runs' = [t \in Ticket |-> {}]
    /\ UNCHANGED workspaces

Init ==
    /\ runs = [t \in Ticket |-> {}]
    /\ workspaces = {}

Next ==
    \/ \E t \in Ticket : End(t) \/ Remove(t) \/ \E r \in Run : Begin(t, r)
    \/ Die

Spec == Init /\ [][Next]_vars
=============================================================================
