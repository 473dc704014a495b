------------------------- MODULE MCSubAgentGateway --------------------------
(***************************************************************************)
(* Model checking of what the pool and the tools each promise: a behaviour *)
(* has runs of one of the two only, for the steps of one do not touch what *)
(* the other has, and a crash does to each what it does to it alone.       *)
(* SubAgentGateway itself is checked with runs of both.                    *)
(***************************************************************************)
EXTENDS SubAgentGateway, TLC

VARIABLE part

PartsInit == Init /\ part \in {"pool", "tools"}

PartsNext ==
    /\ UNCHANGED part
    /\ \/ part = "pool" /\ (PoolStep \/ Crash) /\ UNCHANGED toolVars
       \/ part = "tools" /\ (ToolStep \/ Crash) /\ UNCHANGED poolVars

PartsSpec == PartsInit /\ [][PartsNext]_<<vars, part>>

\* The ids of the pool are interchangeable, and so are those of the tools.
Symmetry == Permutations(PoolRuns) \cup Permutations(ToolRuns)

=============================================================================
