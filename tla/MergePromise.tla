---------------------------- MODULE MergePromise ----------------------------
(***************************************************************************)
(* What auto-merge promises the operator, whatever tasks, lists, comments  *)
(* and restarts stand behind it.  A pull request is merged only after a    *)
(* look at its ticket that found it ready and not rejected, and only after *)
(* every window announced for it has run out; no window is announced once  *)
(* the merge is under way; a ticket is closed only when it is merged, and  *)
(* sent back to review only after a look that found it rejected.           *)
(*                                                                         *)
(* What a look has found may be old by the time it is acted on: the        *)
(* promise does not say how old.                                           *)
(*                                                                         *)
(* Symphony implements this specification.                                 *)
(***************************************************************************)
EXTENDS Integers

CONSTANTS
    Ticket,
    Window,     \* how long the operator has for a veto
    Policy      \* "auto-with-veto", "full-auto" or "always-human-merge"

VARIABLES
    ready,      \* the tickets that stand at ready-to-merge
    rejected,   \* the tickets with the operator's veto
    windows,    \* of each ticket, the windows announced, as time left
    free,       \* the tickets that a look has found ready and not rejected
    barred,     \* the tickets that a look has found ready and rejected
    going,      \* the tickets whose merge is under way
    merged      \* the tickets whose pull request is merged

vars == <<ready, rejected, windows, free, barred, going, merged>>

Announced(t) == windows[t] # {}
Over(t) == \A d \in windows[t] : d = 0

\* The service is done with a ticket, or with what one of its looks has found.
Leaves(t) ==
    /\ free' \in {free, free \ {t}} /\ barred' \in {barred, barred \ {t}}
    /\ going' = going \ {t}

\* The operator and the agents change the tickets as they like.
Operator ==
    /\ ready' \subseteq Ticket /\ rejected' \subseteq Ticket
    /\ UNCHANGED <<windows, free, barred, going, merged>>

Look ==
    /\ free' = free \cup (ready \ rejected)
    /\ barred' = barred \cup (ready \cap rejected)
    /\ UNCHANGED <<ready, rejected, windows, going, merged>>

\* What was found, and what was under way, may be dropped at any time.
Drop ==
    /\ free' \subseteq free /\ barred' \subseteq barred /\ going' \subseteq going
    /\ UNCHANGED <<ready, rejected, windows, merged>>

\* A window opens.
Announce(t) ==
    /\ Policy = "auto-with-veto"
    /\ t \in free /\ t \notin going
    /\ windows' = [windows EXCEPT ![t] = @ \cup {Window}]
    /\ Leaves(t)
    /\ UNCHANGED <<ready, rejected, merged>>

\* The merge is decided on.
Decide(t) ==
    /\ Policy # "always-human-merge"
    /\ t \in free
    /\ Policy = "auto-with-veto" => Announced(t) /\ Over(t)
    /\ going' = going \cup {t}
    /\ UNCHANGED <<ready, rejected, windows, free, barred, merged>>

\* The pull request is merged, and the service knows it or not.
Merge(t) ==
    /\ t \in going
    /\ merged' = merged \cup {t}
    /\ Leaves(t) \/ UNCHANGED <<free, barred, going>>
    /\ UNCHANGED <<ready, rejected, windows>>

\* The ticket leaves ready-to-merge: for done, or back to review.
Close(t) ==
    /\ t \in going /\ t \in merged
    /\ ready' = ready \ {t}
    /\ Leaves(t)
    /\ UNCHANGED <<rejected, windows, merged>>

SendBack(t) ==
    /\ Policy # "always-human-merge"
    /\ t \in barred /\ t \notin going
    /\ ready' = ready \ {t}
    /\ Leaves(t)
    /\ UNCHANGED <<rejected, windows, merged>>

\* Time passes.
Pass ==
    /\ windows' = [t \in Ticket |-> {IF d = 0 THEN 0 ELSE d - 1 : d \in windows[t]}]
    /\ UNCHANGED <<ready, rejected, free, barred, going, merged>>

Init ==
    /\ ready \subseteq Ticket /\ rejected = {}
    /\ windows = [t \in Ticket |-> {}]
    /\ free = {} /\ barred = {} /\ going = {} /\ merged = {}

Next ==
    \/ Operator \/ Look \/ Drop \/ Pass
    \/ \E t \in Ticket : Announce(t) \/ Decide(t) \/ Merge(t) \/ Close(t) \/ SendBack(t)

Spec == Init /\ [][Next]_vars
=============================================================================
