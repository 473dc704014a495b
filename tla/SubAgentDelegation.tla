------------------------- MODULE SubAgentDelegation -------------------------
(***************************************************************************)
(* Delegation to a specialist.  LoggingWrapper.InvokableRun                *)
(* (src/internal/engine/subagents/registry.go) records a run and hands it  *)
(* to a goroutine that drives the ReAct loop of SubAgentTool; the main     *)
(* agent's tool call and POST /api/v1/subagents start runs this way and do *)
(* not wait.  Agent.DelegateResearcher, DelegateCoder, DelegateReviewer    *)
(* and DelegateSwarm (src/internal/agent/agent.go) start runs the same way *)
(* and then poll the record until it shows an outcome.                     *)
(***************************************************************************)
EXTENDS Naturals, FiniteSets

CONSTANTS
    Runs,           \* run ids (uuids)
    MaxSteps,       \* maxSteps of SubAgentTool.InvokableRun (50)
    MaxSubtasks,    \* the most subtasks DelegateSwarm accepts (5)
    Faults          \* the faults that may occur, a subset of FaultKind

FaultKind == {"save", "log", "crash"}

VARIABLES
    pc,         \* pc[r]: where the call, then the goroutine, of run r stands
    step,       \* step[r]: model calls its ReAct loop has made
    mem,        \* mem[r]: run.Status of the struct the goroutine works on
    file,       \* file[r]: what subagent_runs/<r>.json says
    logged,     \* logged[r]: the roles with a line in <r>.transcript
    lossy,      \* runs one of whose discarded errors hid a failed write
    wait,       \* wait[r]: the Delegate... call that started run r, if any
    subtasks,   \* the runs of the swarm under way
    results,    \* the subtasks whose goroutine has sent its SubResult
    swarm       \* the DelegateSwarm call

runVars == <<pc, step, mem, file, logged, lossy>>
swarmVars == <<subtasks, results, swarm>>
vars == <<pc, step, mem, file, logged, lossy, wait, subtasks, results, swarm>>

-----------------------------------------------------------------------------
Outcome == {"done", "failed", "canceled"}
Status == {"pending", "running"} \cup Outcome
Record == Status \cup {"none", "torn"}

Running == {"looping", "logging_answer", "saving"}
Step == Running \cup {"unborn", "launching", "rejected", "gone", "killed"}

\* "none": nobody waits for this run; "spawning": SpawnSubAgent has not
\* returned yet; "polling": in waitForSubAgent; then what the call returned,
\* or "expired" when its context ended first.
Settled == {"output", "error", "expired"}
Waiting == {"spawning", "polling"}

TypeOK ==
    /\ pc \in [Runs -> Step]
    /\ step \in [Runs -> 0 .. MaxSteps]
    /\ mem \in [Runs -> Status \cup {"none"}]
    /\ file \in [Runs -> Record]
    /\ logged \in [Runs -> SUBSET {"user", "assistant"}]
    /\ lossy \subseteq Runs
    /\ wait \in [Runs -> {"none", "killed"} \cup Waiting \cup Settled]
    /\ subtasks \subseteq Runs
    /\ results \subseteq subtasks
    /\ swarm \in {"idle", "delegating", "joined", "killed"}

Init ==
    /\ pc = [r \in Runs |-> "unborn"]
    /\ step = [r \in Runs |-> 0]
    /\ mem = [r \in Runs |-> "none"]
    /\ file = [r \in Runs |-> "none"]
    /\ logged = [r \in Runs |-> {}]
    /\ lossy = {}
    /\ wait = [r \in Runs |-> "none"]
    /\ subtasks = {}
    /\ results = {}
    /\ swarm = "idle"

-----------------------------------------------------------------------------
Goto(r, next) == pc' = [pc EXCEPT ![r] = next]
Resume(r, verdict) == wait' = [wait EXCEPT ![r] = verdict]

\* SaveSubAgentRun: done, or failed before or after the truncation.
SaveWorks(r, s) ==
    /\ file' = [file EXCEPT ![r] = s]
    /\ UNCHANGED lossy

SaveFails(r) ==
    /\ "save" \in Faults
    /\ \E left \in {file[r], "torn"} : file' = [file EXCEPT ![r] = left]
    /\ lossy' = lossy \cup {r}

\* AppendSubAgentTranscript; the code only logs its error.
Log(r, role) ==
    \/ /\ logged' = [logged EXCEPT ![r] = @ \cup {role}]
       /\ UNCHANGED lossy
    \/ /\ "log" \in Faults
       /\ lossy' = lossy \cup {r}
       /\ UNCHANGED logged

(***************************************************************************)
(* The id a caller gets.  EinoEngine.SpawnSubAgent reads it out of the     *)
(* tool's answer, "Spun off ... run (ID: <id>) asynchronously ...", with   *)
(* the pattern ID:\s*(\S+), which takes the closing parenthesis along.     *)
(* Storage.LoadSubAgentRun looks for a file of exactly that name.          *)
(***************************************************************************)
Returned(r) == <<r, ")">>
Loaded(id) == IF id \in Runs THEN file[id] ELSE "none"

(***************************************************************************)
(* What waitForSubAgent makes of the record it has loaded.  A record that  *)
(* cannot be loaded, and every status not named, mean another poll.        *)
(***************************************************************************)
Verdict(s) ==
    IF s = "completed" THEN "output"
    ELSE IF s \in {"failed", "cancelled"} THEN "error"
    ELSE "polling"

-----------------------------------------------------------------------------
(***************************************************************************)
(* Faulty variants of the definitions below, used only to check that each  *)
(* property can fail.                                                      *)
(***************************************************************************)

\* The loop starts over when it runs out of steps instead of giving up.
CallTools_StartsOver(r) ==
    /\ pc[r] = "looping"
    /\ step' = [step EXCEPT ![r] = (@ + 1) % MaxSteps]
    /\ UNCHANGED <<pc, mem, file, logged, lossy, wait, swarmVars>>

\* The outcome is saved before its line is appended to the transcript.
ModelAnswers_SavesFirst(r) ==
    /\ pc[r] = "looping"
    /\ mem' = [mem EXCEPT ![r] = "done"]
    /\ SaveWorks(r, "done")
    /\ Goto(r, "logging_answer")
    /\ UNCHANGED <<step, logged, wait, swarmVars>>

\* The join does not wait for every goroutine (wg.Add inside the goroutine).
SwarmJoin_Early ==
    /\ swarm = "delegating"
    /\ \A r \in subtasks : wait[r] # "none" => r \in results
    /\ swarm' = "joined"
    /\ UNCHANGED <<runVars, wait, subtasks, results>>

-----------------------------------------------------------------------------
(***************************************************************************)
(* LoggingWrapper.InvokableRun                                             *)
(***************************************************************************)

\* The record is saved as pending; an error is returned to the caller, who
\* waits (a Delegate... call) or does not (the tool call, the API).
Persist(r, verdict) ==
    /\ pc[r] = "unborn"
    /\ mem' = [mem EXCEPT ![r] = "pending"]
    /\ \/ SaveWorks(r, "pending") /\ Goto(r, "launching") /\ Resume(r, verdict)
       \/ /\ SaveFails(r)
          /\ Goto(r, "rejected")
          /\ Resume(r, IF verdict = "spawning" THEN "error" ELSE "none")
    /\ UNCHANGED <<step, logged>>

SpawnOnly(r) ==
    /\ r \notin subtasks
    /\ Persist(r, "none")
    /\ UNCHANGED swarmVars

\* The goal goes to the transcript, the goroutine starts, the id is returned.
Launch(r) ==
    /\ pc[r] = "launching"
    /\ Log(r, "user")
    /\ Goto(r, "looping")
    /\ Resume(r, IF wait[r] = "spawning" THEN "polling" ELSE wait[r])
    /\ UNCHANGED <<step, mem, file, swarmVars>>

(***************************************************************************)
(* The goroutine: SubAgentTool.InvokableRun, then the outcome.             *)
(***************************************************************************)

\* The model answers with tool calls.  After the last step the loop gives up
\* with a fixed text and no error, which counts as an answer.
CallTools(r) ==
    /\ pc[r] = "looping"
    /\ step' = [step EXCEPT ![r] = @ + 1]
    /\ IF step[r] + 1 = MaxSteps
       THEN mem' = [mem EXCEPT ![r] = "done"] /\ Goto(r, "logging_answer")
       ELSE UNCHANGED <<pc, mem>>
    /\ UNCHANGED <<file, logged, lossy, wait, swarmVars>>

\* The model answers without tool calls.
ModelAnswers(r) ==
    /\ pc[r] = "looping"
    /\ mem' = [mem EXCEPT ![r] = "done"]
    /\ Goto(r, "logging_answer")
    /\ UNCHANGED <<step, file, logged, lossy, wait, swarmVars>>

\* The model fails, or the 10 minutes of the run are over.
ModelFails(r) ==
    /\ pc[r] = "looping"
    /\ mem' = [mem EXCEPT ![r] = "failed"]
    /\ Goto(r, "logging_answer")
    /\ UNCHANGED <<step, file, logged, lossy, wait, swarmVars>>

LogAnswer(r) ==
    /\ pc[r] = "logging_answer"
    /\ Log(r, "assistant")
    /\ Goto(r, "saving")
    /\ UNCHANGED <<step, mem, file, wait, swarmVars>>

SaveOutcome(r) ==
    /\ pc[r] = "saving"
    /\ SaveWorks(r, mem[r]) \/ SaveFails(r)
    /\ Goto(r, "gone")
    /\ UNCHANGED <<step, mem, logged, wait, swarmVars>>

-----------------------------------------------------------------------------
(***************************************************************************)
(* DelegateResearcher, DelegateCoder, DelegateReviewer                     *)
(***************************************************************************)
Delegate(r) ==
    /\ r \notin subtasks
    /\ Persist(r, "spawning")
    /\ UNCHANGED swarmVars

\* A tick of waitForSubAgent.
Poll(r) ==
    /\ wait[r] = "polling"
    /\ Resume(r, Verdict(Loaded(Returned(r))))
    /\ UNCHANGED <<runVars, swarmVars>>

\* The caller's context ends.
Expire(r) ==
    /\ wait[r] = "polling"
    /\ Resume(r, "expired")
    /\ UNCHANGED <<runVars, swarmVars>>

(***************************************************************************)
(* DelegateSwarm                                                           *)
(***************************************************************************)

\* A decomposition with 1 to MaxSubtasks subtasks; any other one ends the
\* call before it delegates anything.
SwarmStart(S) ==
    /\ swarm = "idle"
    /\ S # {} /\ Cardinality(S) <= MaxSubtasks
    /\ \A r \in S : pc[r] = "unborn"
    /\ subtasks' = S
    /\ swarm' = "delegating"
    /\ UNCHANGED <<runVars, wait, results>>

\* The goroutine of a subtask delegates it, or finds its role unknown.
SwarmDelegate(r) ==
    /\ swarm = "delegating"
    /\ r \in subtasks
    /\ wait[r] = "none"
    /\ \/ Persist(r, "spawning")
       \/ Resume(r, "error") /\ UNCHANGED runVars
    /\ UNCHANGED swarmVars

\* resultsCh has a place for every subtask: the send never blocks.
SwarmSend(r) ==
    /\ swarm = "delegating"
    /\ r \in subtasks \ results
    /\ wait[r] \in Settled
    /\ results' = results \cup {r}
    /\ UNCHANGED <<runVars, wait, subtasks, swarm>>

\* wg.Wait() returns and the results are drained.
SwarmJoin ==
    /\ swarm = "delegating"
    /\ results = subtasks
    /\ swarm' = "joined"
    /\ UNCHANGED <<runVars, wait, subtasks, results>>

-----------------------------------------------------------------------------
(***************************************************************************)
(* The process dies: goroutines and callers are lost, the files stay, and  *)
(* the one save that may be under way may be cut short.                    *)
(***************************************************************************)
SavePending(r) ==
    \/ pc[r] = "saving"
    \/ pc[r] = "unborn" /\ wait[r] = "none"

Crash(torn) ==
    /\ "crash" \in Faults
    /\ \A r \in torn : SavePending(r)
    /\ \A r, s \in torn : r = s
    /\ file' = [r \in Runs |-> IF r \in torn THEN "torn" ELSE file[r]]
    /\ pc' = [r \in Runs |->
                IF pc[r] \in Running \cup {"launching"} \/ r \in torn
                THEN "killed" ELSE pc[r]]
    /\ wait' = [r \in Runs |-> IF wait[r] \in Waiting THEN "killed" ELSE wait[r]]
    /\ swarm' = IF swarm = "delegating" THEN "killed" ELSE swarm
    /\ UNCHANGED <<step, mem, logged, lossy, subtasks, results>>

Loop(r) == CallTools(r) \/ ModelAnswers(r) \/ ModelFails(r)
Execute(r) == Launch(r) \/ Loop(r) \/ LogAnswer(r) \/ SaveOutcome(r)

RunStep == \E r \in Runs : SpawnOnly(r) \/ Execute(r)
DelegateStep == \E r \in Runs : Delegate(r) \/ Poll(r) \/ Expire(r)
SwarmStep ==
    \/ \E S \in SUBSET Runs : SwarmStart(S)
    \/ \E r \in Runs : SwarmDelegate(r) \/ SwarmSend(r)
    \/ SwarmJoin

ProcessStep == RunStep \/ DelegateStep \/ SwarmStep

Next ==
    \/ ProcessStep
    \/ \E torn \in SUBSET Runs : Crash(torn)

Spec == Init /\ [][Next]_vars

(***************************************************************************)
(* Goroutines that can run do run; a model call returns (the run has a     *)
(* deadline of 10 minutes); the ticker of waitForSubAgent keeps ticking.   *)
(* Contexts are not obliged to end, nor callers to call.                   *)
(***************************************************************************)
Fairness ==
    /\ \A r \in Runs : WF_vars(Execute(r)) /\ WF_vars(Poll(r))
    /\ \A r \in Runs : WF_vars(SwarmDelegate(r)) /\ WF_vars(SwarmSend(r))
    /\ WF_vars(SwarmJoin)
FairSpec == Spec /\ Fairness

-----------------------------------------------------------------------------
(***************************************************************************)
(* Properties                                                              *)
(***************************************************************************)

\* The audit transcript is complete before a poller can see an outcome.
OutcomeHasTranscript ==
    \A r \in Runs : file[r] \in Outcome =>
        logged[r] = {"user", "assistant"} \/ r \in lossy

\* DelegateSwarm answers only when every subtask has returned.
JoinedSwarmIsComplete ==
    swarm = "joined" => \A r \in subtasks : wait[r] \in Settled

\* The records implement the abstract lifecycle.
Lifecycle == INSTANCE RunLifecycle
ImplementsLifecycle == Lifecycle!Spec

\* SpawnSubAgent "Returns the run ID on success" (gateway.go): a call that
\* waits for a run by that id returns once the record shows an outcome.
OutcomeReleasesWaiter ==
    \A r \in Runs :
        wait[r] = "polling" /\ file[r] \in Outcome ~> wait[r] # "polling"

=============================================================================
