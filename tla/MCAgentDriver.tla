---------------------------- MODULE MCAgentDriver ----------------------------
(* Model-checking instance of AgentDriver. *)
EXTENDS AgentDriver, TLC

\* Not that of Msgs: the next message is chosen.
Symmetry == Permutations(Calls)
=============================================================================
