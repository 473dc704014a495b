---------------------------- MODULE MCCronTasks ----------------------------
(* Small instances of CronTasks for TLC.                                   *)
EXTENDS CronTasks, TLC

\* Tasks, callers and run slots of a kind are interchangeable.
Symmetry ==
    Permutations(Tasks) \cup Permutations(Callers) \cup Permutations(RunSlots)

=============================================================================
