--------------------------- MODULE PublishPromise ---------------------------
(***************************************************************************)
(* What the publishing pipeline promises the operator about each brief,    *)
(* whatever processes, files and timers stand behind it: a text reaches    *)
(* the channel only once it was approved, a declined brief never does, a   *)
(* brief counts as live only if its text is in the channel, and a ticket   *)
(* leaves the books only after its story has ended.                        *)
(*                                                                         *)
(* ContentPublisher implements this specification.                         *)
(***************************************************************************)
CONSTANT JobId

VARIABLES
    stage,      \* where each brief stands
    posted      \* the briefs whose text has appeared in the channel

vars == <<stage, posted>>

Stage == {"none", "drafting", "review", "approved", "live", "closed", "archived"}

TypeOK ==
    /\ stage \in [JobId -> Stage]
    /\ posted \subseteq JobId

Move(j, from, to) ==
    /\ stage[j] \in from
    /\ stage' = [stage EXCEPT ![j] = to]

\* A new brief arrives.
Submit(j) == Move(j, {"none"}, "drafting") /\ UNCHANGED posted

\* Its draft is offered for review.
Offer(j) == Move(j, {"drafting"}, "review") /\ UNCHANGED posted

\* The operator, or the rule standing in for the operator, says yes or no.
Approve(j) == Move(j, {"review"}, "approved") /\ UNCHANGED posted
Decline(j) == Move(j, {"review"}, "closed") /\ UNCHANGED posted

\* The operator asks for another draft: a new brief replaces this one.
Redo(old, new) ==
    /\ stage[old] = "review" /\ stage[new] = "none"
    /\ stage' = [stage EXCEPT ![old] = "closed", ![new] = "drafting"]
    /\ UNCHANGED posted

\* The text appears in the channel; a retry may make it appear again.
Post(j) ==
    /\ stage[j] = "approved"
    /\ posted' = posted \cup {j}
    /\ UNCHANGED stage

\* The publication is confirmed.
Confirm(j) ==
    /\ j \in posted
    /\ Move(j, {"approved"}, "live")
    /\ UNCHANGED posted

\* Drafting or publishing is given up.
GiveUp(j) == Move(j, {"drafting", "approved"}, "closed") /\ UNCHANGED posted

\* The attestation of a live text is settled, with a receipt or without.
Settle(j) == Move(j, {"live"}, "closed") /\ UNCHANGED posted

\* Closed tickets leave the books, several at a time.
Archive(S) ==
    /\ \A j \in S : stage[j] = "closed"
    /\ stage' = [j \in JobId |-> IF j \in S THEN "archived" ELSE stage[j]]
    /\ UNCHANGED posted

Init ==
    /\ stage = [j \in JobId |-> "none"]
    /\ posted = {}

Next ==
    \/ \E j \in JobId :
          \/ Submit(j) \/ Offer(j) \/ Approve(j) \/ Decline(j)
          \/ Post(j) \/ Confirm(j) \/ GiveUp(j) \/ Settle(j)
    \/ \E old, new \in JobId : Redo(old, new)
    \/ \E S \in SUBSET JobId : Archive(S)

Spec == Init /\ [][Next]_vars
=============================================================================
