---------------------------- MODULE RunLifecycle ----------------------------
(***************************************************************************)
(* What a sub-agent run promises to whoever polls its record: the record   *)
(* is created pending, moves only forward, and once it shows an outcome it *)
(* shows that outcome for ever.  A record can become unreadable, because   *)
(* os.WriteFile truncates the old file before it writes the new one and    *)
(* the write can fail or be cut short by a crash; a later save repairs it. *)
(*                                                                         *)
(* This is the abstract specification that SubAgentPool (goroutines of     *)
(* subagent.Pool), SubAgentDelegation (goroutines of                       *)
(* subagents.LoggingWrapper) and the two together in SubAgentGateway are   *)
(* shown to implement.                                                     *)
(***************************************************************************)
CONSTANT Runs       \* identifiers of sub-agent runs (uuids, never reused)

VARIABLE file       \* file[r]: what subagent_runs/<r>.json says of run r

-----------------------------------------------------------------------------
\* The statuses the code writes (the Status field of storage.SubAgentRun).
Outcome == {"done", "failed", "canceled"}
Status == {"pending", "running"} \cup Outcome

\* "none": no such file; "torn": a file that json.Unmarshal rejects.
Record == Status \cup {"none", "torn"}

TypeOK == file \in [Runs -> Record]

Init == file = [r \in Runs |-> "none"]

(***************************************************************************)
(* Where the record of a run may go from where it is.                      *)
(***************************************************************************)
Forward == [none    |-> {"pending", "torn"},
            pending |-> {"running", "torn"} \cup Outcome,
            running |-> {"torn"} \cup Outcome,
            torn    |-> {"running"} \cup Outcome,
            done    |-> {},
            failed  |-> {},
            canceled |-> {}]

Advance(r) ==
    \E s \in Forward[file[r]] : file' = [file EXCEPT ![r] = s]

Next == \E r \in Runs : Advance(r)

Spec == Init /\ [][Next]_file

-----------------------------------------------------------------------------
\* An outcome that has been shown is never taken back or replaced: the
\* clients of GET /api/v1/subagents/:id may stop polling at the first one.
OutcomeIsFinal ==
    [][\A r \in Runs : file[r] \in Outcome => file'[r] = file[r]]_file

=============================================================================
