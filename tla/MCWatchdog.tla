----------------------------- MODULE MCWatchdog -----------------------------
(***************************************************************************)
(* Watchdog for TLC.                                                       *)
(***************************************************************************)
EXTENDS Watchdog

\* A check is disabled, and so is the critical one, with the consequences
\* acknowledged or not.
SomeConfigs == [disabled : {{"hung_tmux", "failed_attestation"}}, acknowledged : BOOLEAN]
=============================================================================
