-------------------------- MODULE SubAgentGateway ---------------------------
(***************************************************************************)
(* The sub-agent API of gateway.Gateway over both ways to execute a run.   *)
(* Gateway.SpawnSubAgent starts runs through the orchestrator's tools      *)
(* (SubAgentDelegation); Gateway.CancelSubAgent asks Gateway.DynamicPool   *)
(* (SubAgentPool), and only the pool stores results as facts.  Both write  *)
(* their records through one storage.Storage, whose mutex admits one save  *)
(* at a time, and both die with the process.                               *)
(***************************************************************************)
EXTENDS Naturals

CONSTANTS
    PoolRuns,   \* ids spawned with Pool.Spawn
    ToolRuns,   \* ids spawned with LoggingWrapper.InvokableRun
    MaxSteps, MaxSubtasks, Faults

ASSUME DisjointIds == PoolRuns \cap ToolRuns = {}
ASSUME FaultsAssumption == Faults \subseteq {"save", "log", "crash"}
ASSUME MaxStepsAssumption == MaxSteps \in Nat \ {0}
ASSUME MaxSubtasksAssumption == MaxSubtasks \in Nat \ {0}

VARIABLES
    poolPc, poolMem, poolFile, poolLogged, cancels, cancelling, ctxDone,
    facts, poolLossy,
    toolPc, step, toolMem, toolFile, toolLogged, toolLossy, wait, subtasks,
    results, swarm

poolVars == <<poolPc, poolMem, poolFile, poolLogged, cancels, cancelling,
              ctxDone, facts, poolLossy>>
toolVars == <<toolPc, step, toolMem, toolFile, toolLogged, toolLossy, wait,
              subtasks, results, swarm>>
vars == <<poolVars, toolVars>>

Pool == INSTANCE SubAgentPool
        WITH Runs <- PoolRuns, pc <- poolPc, mem <- poolMem, file <- poolFile,
             logged <- poolLogged, lossy <- poolLossy

Tool == INSTANCE SubAgentDelegation
        WITH Runs <- ToolRuns, pc <- toolPc, mem <- toolMem, file <- toolFile,
             logged <- toolLogged, lossy <- toolLossy

Runs == PoolRuns \cup ToolRuns

\* The directory subagent_runs: what Storage.LoadSubAgentRun finds.
Records == [r \in Runs |-> IF r \in PoolRuns THEN poolFile[r] ELSE toolFile[r]]

-----------------------------------------------------------------------------
Init ==
    /\ Pool!Init
    /\ Tool!Init

-----------------------------------------------------------------------------
\* Faulty variant, used only to check that a property can fail: saves of the
\* two components are not serialised by one mutex.
Crash_TwoTornFiles ==
    /\ \E torn \in SUBSET PoolRuns : Pool!Crash(torn)
    /\ \E torn \in SUBSET ToolRuns : Tool!Crash(torn)

-----------------------------------------------------------------------------
\* Gateway.CancelSubAgent is Pool.Cancel, a step of the pool; for an id that
\* has no entry in the pool it is refused and changes nothing.
PoolStep == Pool!RunStep /\ UNCHANGED toolVars

ToolStep == Tool!ProcessStep /\ UNCHANGED poolVars

Crash ==
    /\ \E torn \in SUBSET Runs :
         /\ \A r, s \in torn : r = s
         /\ Pool!Crash(torn \cap PoolRuns)
         /\ Tool!Crash(torn \cap ToolRuns)

Next ==
    \/ PoolStep
    \/ ToolStep
    \/ Crash

Spec == Init /\ [][Next]_vars

(***************************************************************************)
(* The Go scheduler runs every goroutine that can run, and what it calls   *)
(* returns: EinoEngine.Respond gives its graph a deadline of 30 minutes, a *)
(* run of the tools has one of its own.  Nobody is obliged to spawn, to    *)
(* cancel or to crash.                                                     *)
(***************************************************************************)
FairSpec ==
    /\ Spec
    /\ \A r \in PoolRuns :
         WF_vars((Pool!SpawnLaunch(r) \/ Pool!Execute(r)) /\ UNCHANGED toolVars)
    /\ \A r \in ToolRuns :
         WF_vars(Tool!Execute(r) /\ UNCHANGED poolVars)

-----------------------------------------------------------------------------
(***************************************************************************)
(* Properties                                                              *)
(***************************************************************************)

\* What the pool and the tools each promise, together.
CancelMapExact == Pool!CancelMapExact
CanceledOnlyIfAsked == Pool!CanceledOnlyIfAsked
FactHasDoneRecord == Pool!FactHasDoneRecord
DoneHasTranscript == Pool!DoneHasTranscript
OutcomeHasTranscript == Tool!OutcomeHasTranscript
JoinedSwarmIsComplete == Tool!JoinedSwarmIsComplete

\* All records of the directory together implement the lifecycle: no step of
\* either component, and no crash, touches two records.
Lifecycle == INSTANCE RunLifecycle WITH file <- Records
ImplementsLifecycle == Lifecycle!Spec

\* A run that was accepted, whichever way, comes to show an outcome to those
\* who poll it: its engine or model always returns, its ReAct loop runs out of
\* steps.  Excepted are runs that had a write fail or lost their process.
Accepted(r) ==
    IF r \in PoolRuns THEN poolPc[r] = "registering" ELSE toolPc[r] = "launching"

Excused(r) ==
    \/ r \in poolLossy \cup toolLossy
    \/ "killed" = IF r \in PoolRuns THEN poolPc[r] ELSE toolPc[r]

AcceptedRunSettles ==
    \A r \in Runs :
        Accepted(r) ~> Records[r] \in Pool!Outcome \/ Excused(r)

=============================================================================
