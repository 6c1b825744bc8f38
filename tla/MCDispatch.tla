----------------------------- MODULE MCDispatch -----------------------------
(***************************************************************************)
(* Dispatch for TLC.                                                       *)
(***************************************************************************)
EXTENDS Dispatch, TLC

SomeWorkflow == [engine |-> "claude", model |-> "opus"]
\* Nothing, an engine with its model or without, and one that nobody knows.
\* A pat: that is not in the registry ends as none does, so Pat is the registry.
SomeEntries == {Empty, [engine |-> "codex", model |-> Nil], [engine |-> "kimi", model |-> "k2"],
                [engine |-> "qwen", model |-> Nil]}

\* The repositories are alike.
AnyRepo == Permutations(Repo)
=============================================================================
