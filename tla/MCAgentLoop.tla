----------------------------- MODULE MCAgentLoop -----------------------------
(***************************************************************************)
(* Model checking of AgentLoop.  Prompts are interchangeable.              *)
(***************************************************************************)
EXTENDS AgentLoop, TLC

Symmetry == Permutations(Prompts)

=============================================================================
