---------------------------- MODULE SubAgentPool ----------------------------
(***************************************************************************)
(* subagent.Pool (src/internal/subagent/pool.go): the life of the runs     *)
(* that Pool.Spawn starts, each executed by a goroutine of its own, with   *)
(* Pool.Cancel called by anyone at any time, saves that may fail, callers  *)
(* whose context may end, and a process that may crash.                    *)
(*                                                                         *)
(* One step of a goroutine is what it does between two points where        *)
(* another goroutine, a client or a crash can see a difference: one save   *)
(* (storage.Storage holds its mutex for the whole of it), one transcript   *)
(* line, one critical section on Pool.mu, one call of the engine.          *)
(***************************************************************************)
CONSTANTS
    Runs,       \* run ids; every id is spawned at most once (uuid)
    Faults      \* the faults that may occur, a subset of FaultKind

FaultKind == {"save",   \* a save fails, before or after the truncation
              "log",    \* appending to a transcript fails
              "crash"}  \* the process is killed and started again

VARIABLES
    pc,         \* pc[r]: where the goroutine of run r stands
    mem,        \* mem[r]: run.Status of the struct the goroutine works on
    file,       \* file[r]: what subagent_runs/<r>.json says
    logged,     \* logged[r]: the roles with a line in <r>.transcript
    cancels,    \* Pool.cancels: the runs with a registered CancelFunc
    cancelling, \* runs whose CancelFunc a Cancel has looked up, not yet called
    ctxDone,    \* runs whose context is over
    facts,      \* runs whose result was stored as a fact of the brain
    lossy       \* runs one of whose discarded errors hid a failed write

vars == <<pc, mem, file, logged, cancels, cancelling, ctxDone, facts, lossy>>

-----------------------------------------------------------------------------
Outcome == {"done", "failed", "canceled"}
Status == {"pending", "running"} \cup Outcome
Record == Status \cup {"none", "torn"}

\* The goroutine's next step: "unborn" before Spawn, "rejected" when Spawn
\* returned an error, "gone" when the goroutine ended, "killed" by a crash.
Step == {"unborn", "registering", "starting", "logging_goal", "building",
         "responding", "logging_answer", "saving", "injecting",
         "deregistering", "gone", "rejected", "killed"}

\* Goroutines that exist, from "go p.execute" to their deferred function.
Running == {"starting", "logging_goal", "building", "responding",
            "logging_answer", "saving", "injecting", "deregistering"}

TypeOK ==
    /\ pc \in [Runs -> Step]
    /\ mem \in [Runs -> Status \cup {"none"}]
    /\ file \in [Runs -> Record]
    /\ logged \in [Runs -> SUBSET {"user", "assistant"}]
    /\ cancels \subseteq Runs
    /\ cancelling \subseteq Runs
    /\ ctxDone \subseteq Runs
    /\ facts \subseteq Runs
    /\ lossy \subseteq Runs

Init ==
    /\ pc = [r \in Runs |-> "unborn"]
    /\ mem = [r \in Runs |-> "none"]
    /\ file = [r \in Runs |-> "none"]
    /\ logged = [r \in Runs |-> {}]
    /\ cancels = {}
    /\ cancelling = {}
    /\ ctxDone = {}
    /\ facts = {}
    /\ lossy = {}

-----------------------------------------------------------------------------
Goto(r, step) == pc' = [pc EXCEPT ![r] = step]

(***************************************************************************)
(* SaveSubAgentRun(run) with status s.  It succeeds, or fails before the   *)
(* file is opened (the record stays as it was), or fails after os.WriteFile*)
(* truncated it (the record is torn).                                      *)
(***************************************************************************)
SaveWorks(r, s) ==
    /\ file' = [file EXCEPT ![r] = s]
    /\ UNCHANGED lossy

SaveFails(r) ==
    /\ "save" \in Faults
    /\ \E left \in {file[r], "torn"} : file' = [file EXCEPT ![r] = left]
    /\ lossy' = lossy \cup {r}

\* A save whose error the code discards: the goroutine goes on either way.
Save(r, s) == SaveWorks(r, s) \/ SaveFails(r)

\* AppendSubAgentTranscript(run.ID, role, ...), its error discarded.
Log(r, role) ==
    \/ /\ logged' = [logged EXCEPT ![r] = @ \cup {role}]
       /\ UNCHANGED lossy
    \/ /\ "log" \in Faults
       /\ lossy' = lossy \cup {r}
       /\ UNCHANGED logged

-----------------------------------------------------------------------------
(***************************************************************************)
(* Faulty variants of the actions below, used only to check that each      *)
(* property can fail.                                                      *)
(***************************************************************************)

\* Every error of Respond is taken for a cancellation.
RespondErr_AlwaysCanceled(r) ==
    /\ pc[r] = "responding"
    /\ mem' = [mem EXCEPT ![r] = "canceled"]
    /\ Goto(r, "saving")
    /\ UNCHANGED <<file, logged, cancels, cancelling, ctxDone, facts, lossy>>

\* The answer is saved without being appended to the transcript.
RespondOk_NoTranscript(r) ==
    /\ pc[r] = "responding"
    /\ mem' = [mem EXCEPT ![r] = "done"]
    /\ Goto(r, "saving")
    /\ UNCHANGED <<file, logged, cancels, cancelling, ctxDone, facts, lossy>>

\* The early return after a failed run is missing.
SaveOutcome_NoReturn(r) ==
    /\ pc[r] = "saving"
    /\ Save(r, mem[r])
    /\ Goto(r, "injecting")
    /\ UNCHANGED <<mem, logged, cancels, cancelling, ctxDone, facts>>

\* The entry of a finished run stays in the map.
Deregister_Leaks(r) ==
    /\ pc[r] = "deregistering"
    /\ Goto(r, "gone")
    /\ UNCHANGED <<mem, file, logged, cancels, cancelling, ctxDone, facts, lossy>>

-----------------------------------------------------------------------------
(***************************************************************************)
(* Pool.Spawn                                                              *)
(***************************************************************************)

\* The record is persisted as pending; on error Spawn returns it.
SpawnPersist(r) ==
    /\ pc[r] = "unborn"
    /\ mem' = [mem EXCEPT ![r] = "pending"]
    /\ \/ SaveWorks(r, "pending") /\ Goto(r, "registering")
       \/ SaveFails(r) /\ Goto(r, "rejected")
    /\ UNCHANGED <<logged, cancels, cancelling, ctxDone, facts>>

\* The CancelFunc is registered and the goroutine started.
SpawnLaunch(r) ==
    /\ pc[r] = "registering"
    /\ cancels' = cancels \cup {r}
    /\ Goto(r, "starting")
    /\ UNCHANGED <<mem, file, logged, cancelling, ctxDone, facts, lossy>>

(***************************************************************************)
(* Pool.Cancel: the lookup under the lock, then the call of the function.  *)
(* A run without an entry gets the error "not found or already finished",  *)
(* which changes nothing.                                                  *)
(***************************************************************************)
CancelLookup(r) ==
    /\ r \in cancels
    /\ cancelling' = cancelling \cup {r}
    /\ UNCHANGED <<pc, mem, file, logged, cancels, ctxDone, facts, lossy>>

CancelFire(r) ==
    /\ r \in cancelling
    /\ cancelling' = cancelling \ {r}
    /\ ctxDone' = ctxDone \cup {r}
    /\ UNCHANGED <<pc, mem, file, logged, cancels, facts, lossy>>

\* The context Spawn was given ends, and the run's context with it.
CallerDone(r) ==
    /\ pc[r] \in Running
    /\ r \notin ctxDone
    /\ ctxDone' = ctxDone \cup {r}
    /\ UNCHANGED <<pc, mem, file, logged, cancels, cancelling, facts, lossy>>

(***************************************************************************)
(* Pool.execute                                                            *)
(***************************************************************************)
MarkRunning(r) ==
    /\ pc[r] = "starting"
    /\ mem' = [mem EXCEPT ![r] = "running"]
    /\ Save(r, "running")
    /\ Goto(r, "logging_goal")
    /\ UNCHANGED <<logged, cancels, cancelling, ctxDone, facts>>

LogGoal(r) ==
    /\ pc[r] = "logging_goal"
    /\ Log(r, "user")
    /\ Goto(r, "building")
    /\ UNCHANGED <<mem, file, cancels, cancelling, ctxDone, facts>>

\* p.factory(run.Model) and eng.Startup; on error p.fail records "failed".
BuildEngine(r) ==
    /\ pc[r] = "building"
    /\ \/ Goto(r, "responding") /\ UNCHANGED mem
       \/ Goto(r, "saving") /\ mem' = [mem EXCEPT ![r] = "failed"]
    /\ UNCHANGED <<file, logged, cancels, cancelling, ctxDone, facts, lossy>>

\* eng.Respond returned an answer.  The context is not consulted.
RespondOk(r) ==
    /\ pc[r] = "responding"
    /\ mem' = [mem EXCEPT ![r] = "done"]
    /\ Goto(r, "logging_answer")
    /\ UNCHANGED <<file, logged, cancels, cancelling, ctxDone, facts, lossy>>

\* eng.Respond returned an error, whose cause is read off the context.
RespondErr(r) ==
    /\ pc[r] = "responding"
    /\ mem' = [mem EXCEPT ![r] = IF r \in ctxDone THEN "canceled" ELSE "failed"]
    /\ Goto(r, "saving")
    /\ UNCHANGED <<file, logged, cancels, cancelling, ctxDone, facts, lossy>>

LogAnswer(r) ==
    /\ pc[r] = "logging_answer"
    /\ Log(r, "assistant")
    /\ Goto(r, "saving")
    /\ UNCHANGED <<mem, file, cancels, cancelling, ctxDone, facts>>

\* The last save; only a run that is done goes on to injectFact.
SaveOutcome(r) ==
    /\ pc[r] = "saving"
    /\ Save(r, mem[r])
    /\ Goto(r, IF mem[r] = "done" THEN "injecting" ELSE "deregistering")
    /\ UNCHANGED <<mem, logged, cancels, cancelling, ctxDone, facts>>

\* injectFact: nothing without a parent engine or for an empty output, and
\* an error of InjectFact is only logged.
InjectFact(r) ==
    /\ pc[r] = "injecting"
    /\ facts' \in {facts, facts \cup {r}}
    /\ Goto(r, "deregistering")
    /\ UNCHANGED <<mem, file, logged, cancels, cancelling, ctxDone, lossy>>

\* The deferred function of execute.
Deregister(r) ==
    /\ pc[r] = "deregistering"
    /\ cancels' = cancels \ {r}
    /\ Goto(r, "gone")
    /\ UNCHANGED <<mem, file, logged, cancelling, ctxDone, facts, lossy>>

-----------------------------------------------------------------------------
(***************************************************************************)
(* The process dies and is started again: every goroutine, the map and the *)
(* contexts are lost, the files and the brain stay.  At most one save is   *)
(* under way (the mutex of Storage); it may be cut short.                  *)
(***************************************************************************)
SavePending(r) == pc[r] \in {"unborn", "starting", "saving"}

Crash(torn) ==
    /\ "crash" \in Faults
    /\ \A r \in torn : SavePending(r)
    /\ \A r, s \in torn : r = s
    /\ file' = [r \in Runs |-> IF r \in torn THEN "torn" ELSE file[r]]
    /\ pc' = [r \in Runs |->
                IF pc[r] \in Running \cup {"registering"} \/ r \in torn
                THEN "killed" ELSE pc[r]]
    /\ cancels' = {}
    /\ cancelling' = {}
    /\ UNCHANGED <<mem, logged, ctxDone, facts, lossy>>

Spawn(r) == SpawnPersist(r) \/ SpawnLaunch(r)
Cancel(r) == CancelLookup(r) \/ CancelFire(r)

\* The steps of the goroutine of r.
Execute(r) ==
    \/ MarkRunning(r) \/ LogGoal(r) \/ BuildEngine(r)
    \/ RespondOk(r) \/ RespondErr(r) \/ LogAnswer(r)
    \/ SaveOutcome(r) \/ InjectFact(r) \/ Deregister(r)

RunStep == \E r \in Runs : Spawn(r) \/ Cancel(r) \/ CallerDone(r) \/ Execute(r)

Next ==
    \/ RunStep
    \/ \E torn \in SUBSET Runs : Crash(torn)

Spec == Init /\ [][Next]_vars

-----------------------------------------------------------------------------
(***************************************************************************)
(* Properties                                                              *)
(***************************************************************************)

\* The map of CancelFuncs holds exactly the goroutines that exist: a run
\* that executes can be cancelled, and no finished run (whatever path its
\* goroutine took) or crashed process leaves an entry behind.
CancelMapExact == cancels = {r \in Runs : pc[r] \in Running}

\* A record says canceled only if the run's context was over before, by
\* Pool.Cancel or by the caller's context: an engine's own failure is never
\* passed off as a cancellation.
CanceledOnlyIfAsked == \A r \in Runs : file[r] = "canceled" => r \in ctxDone

\* The brain holds a result only of a run that succeeded, and whose record
\* already says so unless a save of that run failed (the code discards that
\* error and injects the fact all the same).
FactHasDoneRecord ==
    \A r \in facts : mem[r] = "done" /\ (file[r] = "done" \/ r \in lossy)

\* The transcript kept for audit is complete before a poller can see done,
\* unless an append failed.
DoneHasTranscript ==
    \A r \in Runs : file[r] = "done" =>
        logged[r] = {"user", "assistant"} \/ r \in lossy

\* A goroutine that ended left an outcome on disk, on each of its paths,
\* unless a save failed.
EndedRunHasOutcome ==
    \A r \in Runs : pc[r] = "gone" => file[r] \in Outcome \/ r \in lossy

Safety ==
    /\ CancelMapExact
    /\ CanceledOnlyIfAsked
    /\ FactHasDoneRecord
    /\ DoneHasTranscript
    /\ EndedRunHasOutcome

\* The records implement the abstract lifecycle: they move only forward and
\* an outcome is final, whatever saves fail and wherever a crash falls.
Lifecycle == INSTANCE RunLifecycle
ImplementsLifecycle == Lifecycle!Spec

=============================================================================
