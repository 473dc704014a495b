---------------------------- MODULE MCMemoryGraph ---------------------------
(***************************************************************************)
(* Model checking of MemoryGraph.  Four answers of a model: one step, a    *)
(* chain, a cycle, and one that uses a step id twice and names a step that *)
(* is not there.                                                           *)
(***************************************************************************)
EXTENDS MemoryGraph

Bonded(from, to, type) == [from |-> from, to |-> to, type |-> type]

Single == [steps |-> <<1>>, bonds |-> <<>>]
Chain == [steps |-> <<1, 2>>, bonds |-> <<Bonded(1, 2, "D")>>]
Cycle == [steps |-> <<1, 2>>, bonds |-> <<Bonded(1, 2, "R"), Bonded(2, 1, "D")>>]
Repeated == [steps |-> <<1, 2, 1>>,
             bonds |-> <<Bonded(2, 1, "E"), Bonded(2, 1, "D"), Bonded(3, 1, "D")>>]

SomeAnalyses == {Single, Chain, Cycle, Repeated}

=============================================================================
