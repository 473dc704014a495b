---------------------------- MODULE MCMemoryStore ---------------------------
(***************************************************************************)
(* Model checking of MemoryStore.  Three stores left by earlier processes: *)
(* two facts that say the same, a fact and a sub-agent result, and two     *)
(* summaries to consolidate; each with the calls that are made on it (of  *)
(* two retrievals, a writer and two Compacts, three at most) and with or      *)
(* without an embedding service that may fail.                             *)
(***************************************************************************)
EXTENDS MemoryStore

CONSTANTS t1, r1, r2, w1, k1, k2

Docs == 1 .. 4

Seed(a, b, where, open, f) ==
    [next |-> 3, kind |-> <<a, b, None, None>>,
     says |-> [d \in Docs |-> IF d <= 2 THEN {t1} ELSE {}], old |-> {2},
     docs |-> [c \in Collection |-> IF c = where THEN {1, 2} ELSE {}],
     open |-> open, flaky |-> f, raced |-> IF a = b THEN {t1} ELSE {}]

Facts(open, f) == Seed("fact", "fact", "facts", open, f)
Mixed(open, f) == Seed("fact", "result", "facts", open, f)
Summaries(open, f) == Seed("summary", "reflection", "summaries", open, f)

SmallSeeds ==
    {Facts({r1, w1, k1}, FALSE), Facts({r1, k1, k2}, FALSE),
     Facts({r1, r2, k1}, FALSE),
     Facts({w1, k1, k2}, FALSE), Facts({r1, k1}, TRUE), Facts({w1, k1}, TRUE),
     Mixed({r1, w1, k1}, FALSE), Mixed({r1, k1}, TRUE),
     Summaries({r1, k1}, FALSE), Summaries({w1, k1}, FALSE),
     Summaries({k1}, TRUE)}

=============================================================================
