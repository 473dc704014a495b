------------------------ MODULE SubAgentGatewayProofs ------------------------
(***************************************************************************)
(* Proofs about sub-agent runs for any sets of runs, any step budget, any  *)
(* number of subtasks and any faults: the safety properties of             *)
(* subagent.Pool (SubAgentPool) and of delegated runs (SubAgentDelegation),*)
(* each from an inductive invariant; that the gateway that runs both keeps *)
(* what each promises; and that their records together implement           *)
(* RunLifecycle.                                                           *)
(***************************************************************************)
EXTENDS SubAgentGateway, TLAPS

-----------------------------------------------------------------------------
(***************************************************************************)
(* subagent.Pool: the inductive invariant                                  *)
(***************************************************************************)

\* The steps between the first save of execute and its last one.
Working == {"logging_goal", "building", "responding", "logging_answer", "saving"}

\* What a record may say while its run has no outcome.
Open == {"pending", "running", "torn"}

\* Spawn is the only writer of a record before the goroutine starts.
BornPending ==
    \A r \in PoolRuns :
        /\ poolPc[r] = "unborn" => poolMem[r] = "none" /\ poolFile[r] = "none"
        /\ poolPc[r] \in {"registering", "starting"} => poolFile[r] = "pending"

\* Until the last save no record shows an outcome.
OpenWhileWorking == \A r \in PoolRuns : poolPc[r] \in Working => poolFile[r] \in Open

\* The struct has its outcome from the moment the code branches on it.
PoolOutcomeDecided ==
    \A r \in PoolRuns :
        /\ poolPc[r] \in {"logging_answer", "injecting"} => poolMem[r] = "done"
        /\ poolPc[r] \in {"saving", "deregistering", "gone"} => poolMem[r] \in Pool!Outcome

\* An outcome on disk is the one of the struct, and "canceled" has a cause.
OutcomeShown ==
    \A r \in PoolRuns :
        /\ poolFile[r] \in Pool!Outcome => poolMem[r] = poolFile[r]
        /\ poolMem[r] = "canceled" => r \in ctxDone

\* After the last save the record is the struct's, unless a save failed.
OutcomeSaved ==
    \A r \in PoolRuns : poolPc[r] \in {"injecting", "deregistering", "gone"} =>
        poolFile[r] = poolMem[r] \/ r \in poolLossy

\* A fact is injected after the last save, and then nothing changes any more.
FactIsLast ==
    \A r \in facts :
        /\ poolPc[r] \in {"deregistering", "gone", "killed"}
        /\ poolMem[r] = "done"
        /\ poolFile[r] = "done" \/ r \in poolLossy

\* The two transcript lines precede the steps that show the answer.
PoolTranscriptFirst ==
    \A r \in PoolRuns :
        \/ r \in poolLossy
        \/ /\ poolPc[r] \in {"building", "responding", "logging_answer"}
                => "user" \in poolLogged[r]
           /\ poolPc[r] = "saving" /\ poolMem[r] = "done"
                => poolLogged[r] = {"user", "assistant"}
           /\ poolFile[r] = "done" => poolLogged[r] = {"user", "assistant"}

PoolInv ==
    /\ Pool!TypeOK
    /\ Pool!CancelMapExact
    /\ BornPending
    /\ OpenWhileWorking
    /\ PoolOutcomeDecided
    /\ OutcomeShown
    /\ OutcomeSaved
    /\ FactIsLast
    /\ PoolTranscriptFirst

-----------------------------------------------------------------------------
(***************************************************************************)
(* Type correctness                                                        *)
(***************************************************************************)

\* Every step of the pool, of its clients and of a crash keeps the types.
LEMMA PoolTypes == Pool!TypeOK /\ [Pool!Next]_Pool!vars => Pool!TypeOK'
<1> SUFFICES ASSUME Pool!TypeOK, [Pool!Next]_Pool!vars PROVE Pool!TypeOK'
  OBVIOUS
<1> USE DEF Pool!TypeOK, Pool!Step, Pool!Status, Pool!Outcome, Pool!Record
<1>1. ASSUME NEW r \in PoolRuns, Pool!SpawnPersist(r) PROVE Pool!TypeOK'
  BY <1>1 DEF Pool!SpawnPersist, Pool!SaveWorks, Pool!SaveFails, Pool!Goto
<1>2. ASSUME NEW r \in PoolRuns, Pool!SpawnLaunch(r) PROVE Pool!TypeOK'
  BY <1>2 DEF Pool!SpawnLaunch, Pool!Goto
<1>3. ASSUME NEW r \in PoolRuns, Pool!CancelLookup(r) PROVE Pool!TypeOK'
  BY <1>3 DEF Pool!CancelLookup
<1>4. ASSUME NEW r \in PoolRuns, Pool!CancelFire(r) PROVE Pool!TypeOK'
  BY <1>4 DEF Pool!CancelFire
<1>5. ASSUME NEW r \in PoolRuns, Pool!CallerDone(r) PROVE Pool!TypeOK'
  BY <1>5 DEF Pool!CallerDone
<1>6. ASSUME NEW r \in PoolRuns, Pool!MarkRunning(r) PROVE Pool!TypeOK'
  BY <1>6 DEF Pool!MarkRunning, Pool!Save, Pool!SaveWorks, Pool!SaveFails, Pool!Goto
<1>7. ASSUME NEW r \in PoolRuns, Pool!LogGoal(r) PROVE Pool!TypeOK'
  BY <1>7 DEF Pool!LogGoal, Pool!Log, Pool!Goto
<1>8. ASSUME NEW r \in PoolRuns, Pool!BuildEngine(r) PROVE Pool!TypeOK'
  BY <1>8 DEF Pool!BuildEngine, Pool!Goto
<1>9. ASSUME NEW r \in PoolRuns, Pool!RespondOk(r) PROVE Pool!TypeOK'
  BY <1>9 DEF Pool!RespondOk, Pool!Goto
<1>10. ASSUME NEW r \in PoolRuns, Pool!RespondErr(r) PROVE Pool!TypeOK'
  BY <1>10 DEF Pool!RespondErr, Pool!Goto
<1>11. ASSUME NEW r \in PoolRuns, Pool!LogAnswer(r) PROVE Pool!TypeOK'
  BY <1>11 DEF Pool!LogAnswer, Pool!Log, Pool!Goto
<1>12. ASSUME NEW r \in PoolRuns, Pool!SaveOutcome(r) PROVE Pool!TypeOK'
  BY <1>12 DEF Pool!SaveOutcome, Pool!Save, Pool!SaveWorks, Pool!SaveFails, Pool!Goto
<1>13. ASSUME NEW r \in PoolRuns, Pool!InjectFact(r) PROVE Pool!TypeOK'
  BY <1>13 DEF Pool!InjectFact, Pool!Goto
<1>14. ASSUME NEW r \in PoolRuns, Pool!Deregister(r) PROVE Pool!TypeOK'
  BY <1>14 DEF Pool!Deregister, Pool!Goto
<1>15. ASSUME NEW torn \in SUBSET PoolRuns, Pool!Crash(torn) PROVE Pool!TypeOK'
  BY <1>15 DEF Pool!Crash
<1>16. CASE UNCHANGED Pool!vars
  BY <1>16 DEF Pool!vars
<1>17. QED
  BY <1>1, <1>2, <1>3, <1>4, <1>5, <1>6, <1>7, <1>8, <1>9, <1>10, <1>11, <1>12, <1>13,
     <1>14, <1>15, <1>16
     DEF Pool!Next, Pool!RunStep, Pool!Spawn, Pool!Cancel, Pool!Execute

\* The variables of SubAgentPool always have their types: no status, step or
\* transcript role outside the ones the code names is ever written.
THEOREM PoolTypeCorrect == Pool!Spec => []Pool!TypeOK
<1>1. Pool!Init => Pool!TypeOK
  BY DEF Pool!Init, Pool!TypeOK, Pool!Step, Pool!Status, Pool!Record
<1>2. QED
  BY <1>1, PoolTypes, PTL DEF Pool!Spec

-----------------------------------------------------------------------------
(***************************************************************************)
(* The invariant is inductive                                              *)
(***************************************************************************)

LEMMA PoolInvInit == Pool!Init => PoolInv
  BY DEF Pool!Init, PoolInv, Pool!TypeOK, Pool!Step, Pool!Status, Pool!Record, Pool!Outcome,
         Pool!CancelMapExact, Pool!Running, BornPending, OpenWhileWorking, Working,
         PoolOutcomeDecided, OutcomeShown, OutcomeSaved, FactIsLast, PoolTranscriptFirst

LEMMA PoolInvStep == PoolInv /\ [Pool!Next]_Pool!vars => PoolInv'
<1> SUFFICES ASSUME PoolInv, [Pool!Next]_Pool!vars PROVE PoolInv'
  OBVIOUS
<1>t. Pool!TypeOK /\ Pool!TypeOK'
  BY PoolTypes DEF PoolInv
<1> USE <1>t DEF PoolInv, Pool!TypeOK, Pool!CancelMapExact, BornPending, OpenWhileWorking,
               PoolOutcomeDecided, OutcomeShown, OutcomeSaved, FactIsLast, PoolTranscriptFirst,
               Pool!Running, Working, Open, Pool!Outcome
<1>1. ASSUME NEW r \in PoolRuns, Pool!SpawnPersist(r) PROVE PoolInv'
  BY <1>1 DEF Pool!SpawnPersist, Pool!SaveWorks, Pool!SaveFails, Pool!Goto
<1>2. ASSUME NEW r \in PoolRuns, Pool!SpawnLaunch(r) PROVE PoolInv'
  BY <1>2 DEF Pool!SpawnLaunch, Pool!Goto
<1>3. ASSUME NEW r \in PoolRuns, Pool!CancelLookup(r) PROVE PoolInv'
  BY <1>3 DEF Pool!CancelLookup
<1>4. ASSUME NEW r \in PoolRuns, Pool!CancelFire(r) PROVE PoolInv'
  BY <1>4 DEF Pool!CancelFire
<1>5. ASSUME NEW r \in PoolRuns, Pool!CallerDone(r) PROVE PoolInv'
  BY <1>5 DEF Pool!CallerDone
<1>6. ASSUME NEW r \in PoolRuns, Pool!MarkRunning(r) PROVE PoolInv'
  BY <1>6 DEF Pool!MarkRunning, Pool!Save, Pool!SaveWorks, Pool!SaveFails, Pool!Goto
<1>7. ASSUME NEW r \in PoolRuns, Pool!LogGoal(r) PROVE PoolInv'
  BY <1>7 DEF Pool!LogGoal, Pool!Log, Pool!Goto
<1>8. ASSUME NEW r \in PoolRuns, Pool!BuildEngine(r) PROVE PoolInv'
  BY <1>8 DEF Pool!BuildEngine, Pool!Goto
<1>9. ASSUME NEW r \in PoolRuns, Pool!RespondOk(r) PROVE PoolInv'
  BY <1>9 DEF Pool!RespondOk, Pool!Goto
<1>10. ASSUME NEW r \in PoolRuns, Pool!RespondErr(r) PROVE PoolInv'
  BY <1>10 DEF Pool!RespondErr, Pool!Goto
<1>11. ASSUME NEW r \in PoolRuns, Pool!LogAnswer(r) PROVE PoolInv'
  BY <1>11 DEF Pool!LogAnswer, Pool!Log, Pool!Goto
<1>12. ASSUME NEW r \in PoolRuns, Pool!SaveOutcome(r) PROVE PoolInv'
  BY <1>12 DEF Pool!SaveOutcome, Pool!Save, Pool!SaveWorks, Pool!SaveFails, Pool!Goto
<1>13. ASSUME NEW r \in PoolRuns, Pool!InjectFact(r) PROVE PoolInv'
  BY <1>13 DEF Pool!InjectFact, Pool!Goto
<1>14. ASSUME NEW r \in PoolRuns, Pool!Deregister(r) PROVE PoolInv'
  BY <1>14 DEF Pool!Deregister, Pool!Goto
<1>15. ASSUME NEW torn \in SUBSET PoolRuns, Pool!Crash(torn) PROVE PoolInv'
  BY <1>15 DEF Pool!Crash, Pool!SavePending
<1>16. CASE UNCHANGED Pool!vars
  BY <1>16 DEF Pool!vars
<1>17. QED
  BY <1>1, <1>2, <1>3, <1>4, <1>5, <1>6, <1>7, <1>8, <1>9, <1>10, <1>11, <1>12, <1>13,
     <1>14, <1>15, <1>16
     DEF Pool!Next, Pool!RunStep, Pool!Spawn, Pool!Cancel, Pool!Execute

LEMMA PoolInvariance == Pool!Spec => []PoolInv
  BY PoolInvInit, PoolInvStep, PTL DEF Pool!Spec

-----------------------------------------------------------------------------
(***************************************************************************)
(* The safety properties                                                   *)
(***************************************************************************)

LEMMA PoolInvSafety == PoolInv => Pool!Safety
<1> SUFFICES ASSUME PoolInv PROVE Pool!Safety
  OBVIOUS
<1>1. Pool!CancelMapExact
  BY DEF PoolInv
<1>2. Pool!CanceledOnlyIfAsked
  BY DEF PoolInv, OutcomeShown, Pool!CanceledOnlyIfAsked, Pool!Outcome
<1>3. Pool!FactHasDoneRecord
  BY DEF PoolInv, FactIsLast, Pool!FactHasDoneRecord
<1>4. Pool!DoneHasTranscript
  BY DEF PoolInv, PoolTranscriptFirst, Pool!DoneHasTranscript
<1>5. Pool!EndedRunHasOutcome
  BY DEF PoolInv, PoolOutcomeDecided, OutcomeSaved, Pool!EndedRunHasOutcome
<1>6. QED
  BY <1>1, <1>2, <1>3, <1>4, <1>5 DEF Pool!Safety

\* Pool.cancels is exact, a canceled record has a cause, facts come from done
\* runs, a done record has its transcript and an ended goroutine its outcome,
\* for any number of runs and whichever saves fail or crashes happen.
THEOREM PoolIsSafe == Pool!Spec => []Pool!Safety
  BY PoolInvariance, PoolInvSafety, PTL

-----------------------------------------------------------------------------
(***************************************************************************)
(* The refinement                                                          *)
(***************************************************************************)

\* A step that changes the record of r only, and moves it forward, is a step
\* of the lifecycle.
LEMMA PoolRecordForward ==
  ASSUME NEW r \in PoolRuns, NEW s \in Pool!Lifecycle!Forward[poolFile[r]],
         poolFile' = [poolFile EXCEPT ![r] = s]
  PROVE  Pool!Lifecycle!Next
  BY DEF Pool!Lifecycle!Next, Pool!Lifecycle!Advance

LEMMA PoolLifecycleStep ==
  PoolInv /\ [Pool!Next]_Pool!vars => [Pool!Lifecycle!Next]_poolFile
<1> SUFFICES ASSUME PoolInv, [Pool!Next]_Pool!vars
             PROVE  Pool!Lifecycle!Next \/ UNCHANGED poolFile
  OBVIOUS
<1>t. Pool!TypeOK
  BY DEF PoolInv
\* A save that fails leaves the record alone or tears one that had no outcome.
<1>f. ASSUME NEW r \in PoolRuns, Pool!SaveFails(r), poolFile[r] \in Open \cup {"none"}
      PROVE  Pool!Lifecycle!Next \/ UNCHANGED poolFile
  <2>1. CASE poolFile' = [poolFile EXCEPT ![r] = poolFile[r]]
    BY <1>t, <2>1 DEF Pool!TypeOK
  <2>2. CASE poolFile' = [poolFile EXCEPT ![r] = "torn"]
    <3>1. CASE poolFile[r] = "torn"
      BY <1>t, <2>2, <3>1 DEF Pool!TypeOK
    <3>2. CASE poolFile[r] # "torn"
      <4>1. "torn" \in Pool!Lifecycle!Forward[poolFile[r]]
        BY <1>f, <3>2 DEF Pool!Lifecycle!Forward, Open
      <4>2. QED
        BY <2>2, <4>1, PoolRecordForward
    <3>3. QED
      BY <3>1, <3>2
  <2>3. QED
    BY <1>f, <2>1, <2>2 DEF Pool!SaveFails
<1>1. ASSUME NEW r \in PoolRuns, Pool!SpawnPersist(r)
      PROVE  Pool!Lifecycle!Next \/ UNCHANGED poolFile
  <2>1. poolFile[r] = "none"
    BY <1>1 DEF Pool!SpawnPersist, PoolInv, BornPending
  <2>2. CASE Pool!SaveWorks(r, "pending")
    <3>1. "pending" \in Pool!Lifecycle!Forward[poolFile[r]]
      BY <2>1 DEF Pool!Lifecycle!Forward
    <3>2. QED
      BY <2>2, <3>1, PoolRecordForward DEF Pool!SaveWorks
  <2>3. CASE Pool!SaveFails(r)
    BY <1>f, <2>1, <2>3
  <2>4. QED
    BY <1>1, <2>2, <2>3 DEF Pool!SpawnPersist
<1>2. ASSUME NEW r \in PoolRuns, Pool!MarkRunning(r)
      PROVE  Pool!Lifecycle!Next \/ UNCHANGED poolFile
  <2>1. poolFile[r] = "pending"
    BY <1>2 DEF Pool!MarkRunning, PoolInv, BornPending
  <2>2. CASE Pool!SaveWorks(r, "running")
    <3>1. "running" \in Pool!Lifecycle!Forward[poolFile[r]]
      BY <2>1 DEF Pool!Lifecycle!Forward
    <3>2. QED
      BY <2>2, <3>1, PoolRecordForward DEF Pool!SaveWorks
  <2>3. CASE Pool!SaveFails(r)
    BY <1>f, <2>1, <2>3 DEF Open
  <2>4. QED
    BY <1>2, <2>2, <2>3 DEF Pool!MarkRunning, Pool!Save
<1>3. ASSUME NEW r \in PoolRuns, Pool!SaveOutcome(r)
      PROVE  Pool!Lifecycle!Next \/ UNCHANGED poolFile
  <2>1. poolFile[r] \in Open /\ poolMem[r] \in Pool!Outcome
    BY <1>3 DEF Pool!SaveOutcome, PoolInv, OpenWhileWorking, Working, PoolOutcomeDecided
  <2>2. CASE Pool!SaveWorks(r, poolMem[r])
    <3>1. poolMem[r] \in Pool!Lifecycle!Forward[poolFile[r]]
      BY <2>1 DEF Pool!Lifecycle!Forward, Pool!Lifecycle!Outcome, Open, Pool!Outcome
    <3>2. QED
      BY <2>2, <3>1, PoolRecordForward DEF Pool!SaveWorks
  <2>3. CASE Pool!SaveFails(r)
    BY <1>f, <2>1, <2>3
  <2>4. QED
    BY <1>3, <2>2, <2>3 DEF Pool!SaveOutcome, Pool!Save
\* A crash tears at most one record, of a run that is about to save.
<1>4. ASSUME NEW torn \in SUBSET PoolRuns, Pool!Crash(torn)
      PROVE  Pool!Lifecycle!Next \/ UNCHANGED poolFile
  <2>1. CASE torn = {}
    BY <1>t, <1>4, <2>1 DEF Pool!Crash, Pool!TypeOK
  <2>2. CASE torn # {}
    <3>1. PICK r \in torn : torn = {r}
      BY <1>4, <2>2 DEF Pool!Crash
    <3>2. poolFile' = [poolFile EXCEPT ![r] = "torn"]
      BY <1>t, <1>4, <3>1 DEF Pool!Crash, Pool!TypeOK
    <3>3. poolFile[r] \in Open \cup {"none"}
      BY <1>4, <3>1 DEF Pool!Crash, Pool!SavePending, PoolInv, BornPending,
                        OpenWhileWorking, Working, Open
    <3>4. CASE poolFile[r] = "torn"
      BY <1>t, <3>2, <3>4 DEF Pool!TypeOK
    <3>5. CASE poolFile[r] # "torn"
      <4>1. "torn" \in Pool!Lifecycle!Forward[poolFile[r]]
        BY <3>3, <3>5 DEF Pool!Lifecycle!Forward, Open
      <4>2. QED
        BY <3>2, <4>1, PoolRecordForward
    <3>6. QED
      BY <3>4, <3>5
  <2>3. QED
    BY <2>1, <2>2
<1>5. ASSUME NEW r \in PoolRuns,
             \/ Pool!SpawnLaunch(r) \/ Pool!Cancel(r) \/ Pool!CallerDone(r) \/ Pool!LogGoal(r)
             \/ Pool!BuildEngine(r) \/ Pool!RespondOk(r) \/ Pool!RespondErr(r) \/ Pool!LogAnswer(r)
             \/ Pool!InjectFact(r) \/ Pool!Deregister(r)
      PROVE  UNCHANGED poolFile
  BY <1>5 DEF Pool!SpawnLaunch, Pool!Cancel, Pool!CancelLookup, Pool!CancelFire,
              Pool!CallerDone, Pool!LogGoal, Pool!BuildEngine, Pool!RespondOk,
              Pool!RespondErr, Pool!LogAnswer, Pool!InjectFact, Pool!Deregister
<1>6. CASE UNCHANGED Pool!vars
  BY <1>6 DEF Pool!vars
<1>7. QED
  BY <1>1, <1>2, <1>3, <1>4, <1>5, <1>6
       DEF Pool!Next, Pool!RunStep, Pool!Spawn, Pool!Execute

\* subagent.Pool implements the lifecycle its pollers rely on: every save, lost
\* save and crash moves one record forward or leaves all of them as they were,
\* and an outcome once shown stays.
THEOREM PoolImplementsLifecycle == Pool!Spec => Pool!ImplementsLifecycle
<1>1. Pool!Init => Pool!Lifecycle!Init
  BY DEF Pool!Init, Pool!Lifecycle!Init
<1>2. QED
  BY <1>1, PoolInvariance, PoolLifecycleStep, PTL
     DEF Pool!Spec, Pool!ImplementsLifecycle, Pool!Lifecycle!Spec

-----------------------------------------------------------------------------
(***************************************************************************)
(* Delegated runs: the inductive invariant                                 *)
(***************************************************************************)

\* The ReAct loop asks the model only while it has steps left.
StepBelowMax ==
    \A r \in ToolRuns : toolPc[r] \in {"unborn", "launching", "looping"} => step[r] < MaxSteps

\* The wrapper saves a record twice: as pending before the goroutine starts,
\* and with the outcome as the goroutine's last act.
SavedTwice ==
    \A r \in ToolRuns :
        /\ toolPc[r] = "unborn" => toolFile[r] = "none"
        /\ toolPc[r] \in {"launching"} \cup Tool!Running => toolFile[r] = "pending"
        /\ toolFile[r] \in Tool!Outcome => toolPc[r] = "gone" /\ toolFile[r] = toolMem[r]

\* The goroutine decides between two outcomes; nobody cancels it.
ToolOutcomeDecided ==
    \A r \in ToolRuns :
        toolPc[r] \in {"logging_answer", "saving", "gone"} =>
            toolMem[r] \in {"done", "failed"}

ToolTranscriptFirst ==
    \A r \in ToolRuns :
        \/ r \in toolLossy
        \/ /\ toolPc[r] \in {"looping", "logging_answer"} => "user" \in toolLogged[r]
           /\ toolPc[r] = "saving" => toolLogged[r] = {"user", "assistant"}
           /\ toolFile[r] \in Tool!Outcome => toolLogged[r] = {"user", "assistant"}

\* A subtask nobody delegated yet has no run; the results that were sent are
\* those of calls that returned, and a swarm that was joined has all of them.
SwarmResults ==
    /\ swarm = "idle" => subtasks = {}
    /\ swarm = "delegating" =>
         \A r \in subtasks : wait[r] = "none" => toolPc[r] = "unborn"
    /\ \A r \in results : wait[r] \in Tool!Settled
    /\ swarm = "joined" => results = subtasks

ToolInv ==
    /\ Tool!TypeOK
    /\ StepBelowMax
    /\ SavedTwice
    /\ ToolOutcomeDecided
    /\ ToolTranscriptFirst
    /\ SwarmResults

-----------------------------------------------------------------------------
(***************************************************************************)
(* Type correctness                                                        *)
(***************************************************************************)

\* Every step of a goroutine, of a caller, of a swarm and of a crash keeps the
\* types; the step counter stays within its budget.
LEMMA ToolTypes ==
  Tool!TypeOK /\ StepBelowMax /\ SwarmResults /\ [Tool!Next]_Tool!vars => Tool!TypeOK'
<1> SUFFICES ASSUME Tool!TypeOK, StepBelowMax, SwarmResults, [Tool!Next]_Tool!vars
             PROVE  Tool!TypeOK'
  OBVIOUS
<1> USE MaxStepsAssumption DEF Tool!TypeOK, StepBelowMax, Tool!Step, Tool!Running, Tool!Status,
                           Tool!Outcome, Tool!Record, Tool!Settled, Tool!Waiting
<1>1. ASSUME NEW r \in ToolRuns, Tool!SpawnOnly(r) PROVE Tool!TypeOK'
  BY <1>1 DEF Tool!SpawnOnly, Tool!Persist, Tool!SaveWorks, Tool!SaveFails, Tool!Goto,
              Tool!Resume, Tool!swarmVars
<1>2. ASSUME NEW r \in ToolRuns, Tool!Launch(r) PROVE Tool!TypeOK'
  BY <1>2 DEF Tool!Launch, Tool!Log, Tool!Goto, Tool!Resume, Tool!swarmVars
<1>3. ASSUME NEW r \in ToolRuns, Tool!CallTools(r) PROVE Tool!TypeOK'
  BY <1>3 DEF Tool!CallTools, Tool!Goto, Tool!swarmVars
<1>4. ASSUME NEW r \in ToolRuns, Tool!ModelAnswers(r) PROVE Tool!TypeOK'
  BY <1>4 DEF Tool!ModelAnswers, Tool!Goto, Tool!swarmVars
<1>5. ASSUME NEW r \in ToolRuns, Tool!ModelFails(r) PROVE Tool!TypeOK'
  BY <1>5 DEF Tool!ModelFails, Tool!Goto, Tool!swarmVars
<1>6. ASSUME NEW r \in ToolRuns, Tool!LogAnswer(r) PROVE Tool!TypeOK'
  BY <1>6 DEF Tool!LogAnswer, Tool!Log, Tool!Goto, Tool!swarmVars
<1>7. ASSUME NEW r \in ToolRuns, Tool!SaveOutcome(r) PROVE Tool!TypeOK'
  BY <1>7 DEF Tool!SaveOutcome, Tool!SaveWorks, Tool!SaveFails, Tool!Goto, Tool!swarmVars
<1>8. ASSUME NEW r \in ToolRuns, Tool!Delegate(r) PROVE Tool!TypeOK'
  BY <1>8 DEF Tool!Delegate, Tool!Persist, Tool!SaveWorks, Tool!SaveFails, Tool!Goto,
              Tool!Resume, Tool!swarmVars
<1>9. ASSUME NEW r \in ToolRuns, Tool!Poll(r) PROVE Tool!TypeOK'
  BY <1>9 DEF Tool!Poll, Tool!Verdict, Tool!Resume, Tool!runVars, Tool!swarmVars
<1>10. ASSUME NEW r \in ToolRuns, Tool!Expire(r) PROVE Tool!TypeOK'
  BY <1>10 DEF Tool!Expire, Tool!Resume, Tool!runVars, Tool!swarmVars
<1>11. ASSUME NEW S \in SUBSET ToolRuns, Tool!SwarmStart(S) PROVE Tool!TypeOK'
  BY <1>11 DEF Tool!SwarmStart, SwarmResults, Tool!runVars
<1>12. ASSUME NEW r \in ToolRuns, Tool!SwarmDelegate(r) PROVE Tool!TypeOK'
  BY <1>12 DEF Tool!SwarmDelegate, Tool!Persist, Tool!SaveWorks, Tool!SaveFails, Tool!Goto,
               Tool!Resume, Tool!runVars, Tool!swarmVars
<1>13. ASSUME NEW r \in ToolRuns, Tool!SwarmSend(r) PROVE Tool!TypeOK'
  BY <1>13 DEF Tool!SwarmSend, Tool!runVars
<1>14. ASSUME Tool!SwarmJoin PROVE Tool!TypeOK'
  BY <1>14 DEF Tool!SwarmJoin, Tool!runVars
<1>15. ASSUME NEW torn \in SUBSET ToolRuns, Tool!Crash(torn) PROVE Tool!TypeOK'
  BY <1>15 DEF Tool!Crash
<1>16. CASE UNCHANGED Tool!vars
  BY <1>16 DEF Tool!vars
<1>17. QED
  BY <1>1, <1>2, <1>3, <1>4, <1>5, <1>6, <1>7, <1>8,
     <1>9, <1>10, <1>11, <1>12, <1>13, <1>14, <1>15, <1>16
     DEF Tool!Next, Tool!ProcessStep, Tool!RunStep, Tool!Execute, Tool!Loop,
         Tool!DelegateStep, Tool!SwarmStep

-----------------------------------------------------------------------------
(***************************************************************************)
(* The invariant is inductive                                              *)
(***************************************************************************)

LEMMA ToolInvInit == Tool!Init => ToolInv
  BY MaxStepsAssumption
     DEF Tool!Init, ToolInv, Tool!TypeOK, Tool!Step, Tool!Running, Tool!Status, Tool!Record,
         Tool!Outcome, Tool!Settled, Tool!Waiting, StepBelowMax, SavedTwice,
         ToolOutcomeDecided, ToolTranscriptFirst,
         SwarmResults

LEMMA ToolInvStep == ToolInv /\ [Tool!Next]_Tool!vars => ToolInv'
<1> SUFFICES ASSUME ToolInv, [Tool!Next]_Tool!vars PROVE ToolInv'
  OBVIOUS
<1>t. Tool!TypeOK /\ Tool!TypeOK'
  BY ToolTypes DEF ToolInv
<1> USE <1>t, MaxStepsAssumption
        DEF ToolInv, Tool!TypeOK, StepBelowMax, SavedTwice, ToolOutcomeDecided,
            ToolTranscriptFirst, SwarmResults,
            Tool!Running, Tool!Outcome, Tool!Settled, Tool!Waiting
<1>1. ASSUME NEW r \in ToolRuns, Tool!SpawnOnly(r) PROVE ToolInv'
  BY <1>1 DEF Tool!SpawnOnly, Tool!Persist, Tool!SaveWorks, Tool!SaveFails, Tool!Goto,
              Tool!Resume, Tool!swarmVars
<1>2. ASSUME NEW r \in ToolRuns, Tool!Launch(r) PROVE ToolInv'
  BY <1>2 DEF Tool!Launch, Tool!Log, Tool!Goto, Tool!Resume, Tool!swarmVars
<1>3. ASSUME NEW r \in ToolRuns, Tool!CallTools(r) PROVE ToolInv'
  BY <1>3 DEF Tool!CallTools, Tool!Goto, Tool!swarmVars
<1>4. ASSUME NEW r \in ToolRuns, Tool!ModelAnswers(r) PROVE ToolInv'
  BY <1>4 DEF Tool!ModelAnswers, Tool!Goto, Tool!swarmVars
<1>5. ASSUME NEW r \in ToolRuns, Tool!ModelFails(r) PROVE ToolInv'
  BY <1>5 DEF Tool!ModelFails, Tool!Goto, Tool!swarmVars
<1>6. ASSUME NEW r \in ToolRuns, Tool!LogAnswer(r) PROVE ToolInv'
  BY <1>6 DEF Tool!LogAnswer, Tool!Log, Tool!Goto, Tool!swarmVars
<1>7. ASSUME NEW r \in ToolRuns, Tool!SaveOutcome(r) PROVE ToolInv'
  BY <1>7 DEF Tool!SaveOutcome, Tool!SaveWorks, Tool!SaveFails, Tool!Goto, Tool!swarmVars
<1>8. ASSUME NEW r \in ToolRuns, Tool!Delegate(r) PROVE ToolInv'
  BY <1>8 DEF Tool!Delegate, Tool!Persist, Tool!SaveWorks, Tool!SaveFails, Tool!Goto,
              Tool!Resume, Tool!swarmVars
<1>9. ASSUME NEW r \in ToolRuns, Tool!Poll(r) PROVE ToolInv'
  BY <1>9 DEF Tool!Poll, Tool!Verdict, Tool!Resume, Tool!runVars, Tool!swarmVars
<1>10. ASSUME NEW r \in ToolRuns, Tool!Expire(r) PROVE ToolInv'
  BY <1>10 DEF Tool!Expire, Tool!Resume, Tool!runVars, Tool!swarmVars
<1>11. ASSUME NEW S \in SUBSET ToolRuns, Tool!SwarmStart(S) PROVE ToolInv'
  BY <1>11 DEF Tool!SwarmStart, Tool!runVars
<1>12. ASSUME NEW r \in ToolRuns, Tool!SwarmDelegate(r) PROVE ToolInv'
  <2>1. /\ wait[r] = "none" /\ r \in subtasks \ results
        /\ toolPc[r] = "unborn" /\ UNCHANGED Tool!swarmVars
    BY <1>12 DEF Tool!SwarmDelegate
  \* Its role is unknown: only the call is refused.
  <2>2. CASE Tool!Resume(r, "error") /\ UNCHANGED Tool!runVars
    BY <2>1, <2>2 DEF Tool!Resume, Tool!swarmVars, Tool!runVars
  <2>3. CASE Tool!Persist(r, "spawning")
    BY <2>1, <2>3 DEF Tool!Persist, Tool!SaveWorks, Tool!SaveFails, Tool!Goto, Tool!Resume,
                      Tool!swarmVars
  <2>4. QED
    BY <1>12, <2>2, <2>3 DEF Tool!SwarmDelegate
<1>13. ASSUME NEW r \in ToolRuns, Tool!SwarmSend(r) PROVE ToolInv'
  BY <1>13 DEF Tool!SwarmSend, Tool!runVars
<1>14. ASSUME Tool!SwarmJoin PROVE ToolInv'
  BY <1>14 DEF Tool!SwarmJoin, Tool!runVars
<1>15. ASSUME NEW torn \in SUBSET ToolRuns, Tool!Crash(torn) PROVE ToolInv'
  BY <1>15 DEF Tool!Crash, Tool!SavePending
<1>16. CASE UNCHANGED Tool!vars
  BY <1>16 DEF Tool!vars
<1>17. QED
  BY <1>1, <1>2, <1>3, <1>4, <1>5, <1>6, <1>7, <1>8,
     <1>9, <1>10, <1>11, <1>12, <1>13, <1>14, <1>15, <1>16
     DEF Tool!Next, Tool!ProcessStep, Tool!RunStep, Tool!Execute, Tool!Loop,
         Tool!DelegateStep, Tool!SwarmStep

LEMMA ToolInvariance == Tool!Spec => []ToolInv
  BY ToolInvInit, ToolInvStep, PTL DEF Tool!Spec

-----------------------------------------------------------------------------
(***************************************************************************)
(* The safety properties                                                   *)
(***************************************************************************)

\* The variables of SubAgentDelegation always have their types: in particular
\* no ReAct loop exceeds its step budget.
THEOREM ToolTypeCorrect == Tool!Spec => []Tool!TypeOK
<1>1. ToolInv => Tool!TypeOK
  BY DEF ToolInv
<1>2. QED
  BY <1>1, ToolInvariance, PTL

-----------------------------------------------------------------------------
(***************************************************************************)
(* The refinement                                                          *)
(***************************************************************************)

\* A step that changes the record of r only, and moves it forward, is a step
\* of the lifecycle.
LEMMA ToolRecordForward ==
  ASSUME NEW r \in ToolRuns, NEW s \in Tool!Lifecycle!Forward[toolFile[r]],
         toolFile' = [toolFile EXCEPT ![r] = s]
  PROVE  Tool!Lifecycle!Next
  BY DEF Tool!Lifecycle!Next, Tool!Lifecycle!Advance

LEMMA ToolLifecycleStep ==
  ToolInv /\ [Tool!Next]_Tool!vars => [Tool!Lifecycle!Next]_toolFile
<1> SUFFICES ASSUME ToolInv, [Tool!Next]_Tool!vars
             PROVE  Tool!Lifecycle!Next \/ UNCHANGED toolFile
  OBVIOUS
<1>t. Tool!TypeOK
  BY DEF ToolInv
\* Tearing a record that has no outcome is a step of the lifecycle.
<1>f. ASSUME NEW r \in ToolRuns, toolFile[r] \in {"none", "pending"},
             toolFile' = [toolFile EXCEPT ![r] = "torn"]
      PROVE  Tool!Lifecycle!Next
  <2>1. "torn" \in Tool!Lifecycle!Forward[toolFile[r]]
    BY <1>f DEF Tool!Lifecycle!Forward
  <2>2. QED
    BY <1>f, <2>1, ToolRecordForward
<1>s. ASSUME NEW r \in ToolRuns, toolFile[r] \in {"none", "pending"}, Tool!SaveFails(r)
      PROVE  Tool!Lifecycle!Next \/ UNCHANGED toolFile
  <2>1. CASE toolFile' = [toolFile EXCEPT ![r] = toolFile[r]]
    BY <1>t, <2>1 DEF Tool!TypeOK
  <2>2. CASE toolFile' = [toolFile EXCEPT ![r] = "torn"]
    BY <1>s, <2>2, <1>f
  <2>3. QED
    BY <1>s, <2>1, <2>2 DEF Tool!SaveFails
<1>1. ASSUME NEW r \in ToolRuns, NEW verdict, Tool!Persist(r, verdict)
      PROVE  Tool!Lifecycle!Next \/ UNCHANGED toolFile
  <2>1. toolFile[r] = "none"
    BY <1>1 DEF Tool!Persist, ToolInv, SavedTwice
  <2>2. CASE Tool!SaveWorks(r, "pending")
    <3>1. "pending" \in Tool!Lifecycle!Forward[toolFile[r]]
      BY <2>1 DEF Tool!Lifecycle!Forward
    <3>2. QED
      BY <2>2, <3>1, ToolRecordForward DEF Tool!SaveWorks
  <2>3. CASE Tool!SaveFails(r)
    BY <1>s, <2>1, <2>3
  <2>4. QED
    BY <1>1, <2>2, <2>3 DEF Tool!Persist
<1>2. ASSUME NEW r \in ToolRuns, Tool!SaveOutcome(r)
      PROVE  Tool!Lifecycle!Next \/ UNCHANGED toolFile
  <2>1. toolFile[r] = "pending" /\ toolMem[r] \in {"done", "failed"}
    BY <1>2 DEF Tool!SaveOutcome, ToolInv, SavedTwice, ToolOutcomeDecided, Tool!Running
  <2>2. CASE Tool!SaveWorks(r, toolMem[r])
    <3>1. toolMem[r] \in Tool!Lifecycle!Forward[toolFile[r]]
      BY <2>1 DEF Tool!Lifecycle!Forward, Tool!Lifecycle!Outcome
    <3>2. QED
      BY <2>2, <3>1, ToolRecordForward DEF Tool!SaveWorks
  <2>3. CASE Tool!SaveFails(r)
    BY <1>s, <2>1, <2>3
  <2>4. QED
    BY <1>2, <2>2, <2>3 DEF Tool!SaveOutcome
\* A crash tears at most one record, of a run that is about to save.
<1>3. ASSUME NEW torn \in SUBSET ToolRuns, Tool!Crash(torn)
      PROVE  Tool!Lifecycle!Next \/ UNCHANGED toolFile
  <2>1. CASE torn = {}
    BY <1>t, <1>3, <2>1 DEF Tool!Crash, Tool!TypeOK
  <2>2. CASE torn # {}
    <3>1. PICK r \in torn : torn = {r}
      BY <1>3, <2>2 DEF Tool!Crash
    <3>2. toolFile' = [toolFile EXCEPT ![r] = "torn"]
      BY <1>t, <1>3, <3>1 DEF Tool!Crash, Tool!TypeOK
    <3>3. toolFile[r] \in {"none", "pending"}
      BY <1>3, <3>1 DEF Tool!Crash, Tool!SavePending, ToolInv, SavedTwice, Tool!Running
    <3>4. QED
      BY <3>2, <3>3, <1>f
  <2>3. QED
    BY <2>1, <2>2
<1>4. ASSUME NEW r \in ToolRuns,
             \/ Tool!Launch(r) \/ Tool!Loop(r) \/ Tool!LogAnswer(r)
             \/ Tool!Poll(r) \/ Tool!Expire(r) \/ Tool!SwarmSend(r)
      PROVE  UNCHANGED toolFile
  BY <1>4 DEF Tool!Launch, Tool!Loop, Tool!CallTools, Tool!ModelAnswers, Tool!ModelFails,
              Tool!LogAnswer, Tool!Poll, Tool!Expire, Tool!SwarmSend, Tool!runVars
<1>5. ASSUME NEW r \in ToolRuns, Tool!SpawnOnly(r) \/ Tool!Delegate(r) \/ Tool!SwarmDelegate(r)
      PROVE  Tool!Lifecycle!Next \/ UNCHANGED toolFile
  BY <1>1, <1>5 DEF Tool!SpawnOnly, Tool!Delegate, Tool!SwarmDelegate, Tool!runVars
<1>6. ASSUME Tool!SwarmJoin \/ \E S \in SUBSET ToolRuns : Tool!SwarmStart(S)
      PROVE  UNCHANGED toolFile
  BY <1>6 DEF Tool!SwarmJoin, Tool!SwarmStart, Tool!runVars
<1>7. CASE UNCHANGED Tool!vars
  BY <1>7 DEF Tool!vars
<1>8. QED
  BY <1>2, <1>3, <1>4, <1>5, <1>6, <1>7
     DEF Tool!Next, Tool!ProcessStep, Tool!RunStep, Tool!Execute, Tool!DelegateStep,
         Tool!SwarmStep

\* Delegated runs implement the lifecycle their pollers rely on: an outcome
\* once shown stays, whatever saves fail and wherever a crash falls.
THEOREM DelegationImplementsLifecycle == Tool!Spec => Tool!ImplementsLifecycle
<1>1. Tool!Init => Tool!Lifecycle!Init
  BY DEF Tool!Init, Tool!Lifecycle!Init
<1>2. QED
  BY <1>1, ToolInvariance, ToolLifecycleStep, PTL
     DEF Tool!Spec, Tool!ImplementsLifecycle, Tool!Lifecycle!Spec

-----------------------------------------------------------------------------
(***************************************************************************)
(* Both together                                                           *)
(***************************************************************************)

\* A step of the gateway is a step of the pool, of the tools, or both (a crash).
LEMMA GatewayStep == [Next]_vars => [Pool!Next]_Pool!vars /\ [Tool!Next]_Tool!vars
<1> SUFFICES ASSUME [Next]_vars
             PROVE  [Pool!Next]_Pool!vars /\ [Tool!Next]_Tool!vars
  OBVIOUS
<1>1. UNCHANGED poolVars <=> UNCHANGED Pool!vars
  BY DEF poolVars, Pool!vars
<1>2. UNCHANGED toolVars <=> UNCHANGED Tool!vars
  BY DEF toolVars, Tool!vars
<1>3. CASE PoolStep
  BY <1>2, <1>3 DEF PoolStep, Pool!Next
<1>4. CASE ToolStep
  BY <1>1, <1>4 DEF ToolStep, Tool!Next
<1>5. CASE Crash
  <2>1. PICK torn \in SUBSET Runs :
          Pool!Crash(torn \cap PoolRuns) /\ Tool!Crash(torn \cap ToolRuns)
    BY <1>5 DEF Crash
  <2>2. torn \cap PoolRuns \in SUBSET PoolRuns /\ torn \cap ToolRuns \in SUBSET ToolRuns
    OBVIOUS
  <2>3. QED
    BY <2>1, <2>2 DEF Pool!Next, Tool!Next
<1>6. CASE UNCHANGED vars
  BY <1>1, <1>2, <1>6 DEF vars
<1>7. QED
  BY <1>3, <1>4, <1>5, <1>6 DEF Next

\* Nothing the pool promises alone is lost when the tools run beside it in one
\* process, nor the other way round.
THEOREM GatewayRunsBoth == Spec => Pool!Spec /\ Tool!Spec
<1>1. Init => Pool!Init /\ Tool!Init
  BY DEF Init
<1>2. QED
  BY <1>1, GatewayStep, PTL DEF Spec, Pool!Spec, Tool!Spec

\* Pool.cancels holds an entry for a run exactly while its goroutine exists.
THEOREM CancelMapIsExact == Spec => []CancelMapExact
<1>1. PoolInv => CancelMapExact
  BY DEF CancelMapExact, PoolInv
<1>2. QED
  BY <1>1, GatewayRunsBoth, PoolInvariance, PTL

\* The brain remembers the result of a run only after it was recorded done,
\* or after a save of that run was lost.
THEOREM FactsHaveDoneRecords == Spec => []FactHasDoneRecord
<1>1. PoolInv => FactHasDoneRecord
  BY PoolInvSafety DEF FactHasDoneRecord, Pool!Safety
<1>2. QED
  BY <1>1, GatewayRunsBoth, PoolInvariance, PTL

\* A record says that a run was cancelled only if somebody cancelled it.
THEOREM CancellationsWereAsked == Spec => []CanceledOnlyIfAsked
<1>1. PoolInv => CanceledOnlyIfAsked
  BY PoolInvSafety DEF CanceledOnlyIfAsked, Pool!Safety
<1>2. QED
  BY <1>1, GatewayRunsBoth, PoolInvariance, PTL

\* A client that reads the record of a run that is done finds its transcript
\* written, unless writing it failed.
THEOREM DoneRunsHaveTranscripts == Spec => []DoneHasTranscript
<1>1. PoolInv => DoneHasTranscript
  BY PoolInvSafety DEF DoneHasTranscript, Pool!Safety
<1>2. QED
  BY <1>1, GatewayRunsBoth, PoolInvariance, PTL

\* A poller that sees an outcome finds both lines of the transcript, unless a
\* write of that run was lost.
THEOREM OutcomesHaveTranscripts == Spec => []OutcomeHasTranscript
<1>1. ToolInv => OutcomeHasTranscript
  BY DEF OutcomeHasTranscript, ToolInv, ToolTranscriptFirst, Tool!OutcomeHasTranscript
<1>2. QED
  BY <1>1, GatewayRunsBoth, ToolInvariance, PTL

\* DelegateSwarm joins only when the call of every subtask has returned, for
\* any number of subtasks and whatever way each call ends.
THEOREM JoinedSwarmsAreComplete == Spec => []JoinedSwarmIsComplete
<1>1. ToolInv => JoinedSwarmIsComplete
  BY DEF JoinedSwarmIsComplete, ToolInv, SwarmResults, Tool!JoinedSwarmIsComplete
<1>2. QED
  BY <1>1, GatewayRunsBoth, ToolInvariance, PTL

\* One record of the directory moves when one of its halves does.
LEMMA OneRecordOfTheDirectory ==
  ASSUME PoolInv, ToolInv
  PROVE  /\ Pool!Lifecycle!Next /\ UNCHANGED toolFile => Lifecycle!Next
         /\ Tool!Lifecycle!Next /\ UNCHANGED poolFile => Lifecycle!Next
         /\ UNCHANGED <<poolFile, toolFile>> => UNCHANGED Records
<1>1. ASSUME Pool!Lifecycle!Next, UNCHANGED toolFile
      PROVE  Lifecycle!Next
  <2>0. PICK r \in PoolRuns : Pool!Lifecycle!Advance(r)
    BY <1>1 DEF Pool!Lifecycle!Next
  <2>1. PICK s \in Pool!Lifecycle!Forward[poolFile[r]] : poolFile' = [poolFile EXCEPT ![r] = s]
    BY <2>0 DEF Pool!Lifecycle!Advance
  <2>2. poolFile' = [q \in PoolRuns |-> IF q = r THEN s ELSE poolFile[q]]
    BY <2>1 DEF PoolInv, Pool!TypeOK
  <2>3. Records' = [Records EXCEPT ![r] = s]
    BY <1>1, <2>2 DEF Records, Runs
  <2>4. s \in Lifecycle!Forward[Records[r]]
    BY <2>1 DEF Records, Runs, Pool!Lifecycle!Forward, Lifecycle!Forward,
                Pool!Lifecycle!Outcome, Lifecycle!Outcome
  <2>5. QED
    BY <2>3, <2>4 DEF Lifecycle!Next, Lifecycle!Advance, Runs
<1>2. ASSUME Tool!Lifecycle!Next, UNCHANGED poolFile
      PROVE  Lifecycle!Next
  <2>0. PICK r \in ToolRuns : Tool!Lifecycle!Advance(r)
    BY <1>2 DEF Tool!Lifecycle!Next
  <2>1. PICK s \in Tool!Lifecycle!Forward[toolFile[r]] : toolFile' = [toolFile EXCEPT ![r] = s]
    BY <2>0 DEF Tool!Lifecycle!Advance
  <2>2. toolFile' = [q \in ToolRuns |-> IF q = r THEN s ELSE toolFile[q]]
    BY <2>1 DEF ToolInv, Tool!TypeOK
  <2>3. r \notin PoolRuns
    BY DisjointIds
  <2>4. Records' = [Records EXCEPT ![r] = s]
    BY <1>2, <2>2, <2>3 DEF Records, Runs
  <2>5. s \in Lifecycle!Forward[Records[r]]
    BY <2>1, <2>3 DEF Records, Runs, Tool!Lifecycle!Forward, Lifecycle!Forward,
                Tool!Lifecycle!Outcome, Lifecycle!Outcome
  <2>6. QED
    BY <2>4, <2>5 DEF Lifecycle!Next, Lifecycle!Advance, Runs
<1>3. ASSUME UNCHANGED <<poolFile, toolFile>>
      PROVE  UNCHANGED Records
  BY <1>3 DEF Records
<1>4. QED
  BY <1>1, <1>2, <1>3

\* Only a crash is a step of both, and it tears one record at most.
LEMMA OneHalfMoves ==
  PoolInv /\ ToolInv /\ [Next]_vars => UNCHANGED poolFile \/ UNCHANGED toolFile
<1> SUFFICES ASSUME PoolInv, ToolInv, [Next]_vars
             PROVE  UNCHANGED poolFile \/ UNCHANGED toolFile
  OBVIOUS
<1>1. CASE Crash
  <2>1. PICK torn \in SUBSET Runs :
          /\ \A r, s \in torn : r = s
          /\ Pool!Crash(torn \cap PoolRuns) /\ Tool!Crash(torn \cap ToolRuns)
    BY <1>1 DEF Crash
  <2>2. torn \cap PoolRuns = {} \/ torn \cap ToolRuns = {}
    BY <2>1, DisjointIds
  <2>3. torn \cap PoolRuns = {} => UNCHANGED poolFile
    BY <2>1 DEF Pool!Crash, PoolInv, Pool!TypeOK
  <2>4. torn \cap ToolRuns = {} => UNCHANGED toolFile
    BY <2>1 DEF Tool!Crash, ToolInv, Tool!TypeOK
  <2>5. QED
    BY <2>2, <2>3, <2>4
<1>2. CASE PoolStep \/ ToolStep \/ UNCHANGED vars
  BY <1>2 DEF PoolStep, ToolStep, vars, poolVars, toolVars
<1>3. QED
  BY <1>1, <1>2 DEF Next

LEMMA RecordsStep == PoolInv /\ ToolInv /\ [Next]_vars => [Lifecycle!Next]_Records
<1> SUFFICES ASSUME PoolInv, ToolInv, [Next]_vars
             PROVE  [Lifecycle!Next]_Records
  OBVIOUS
<1>1. Pool!Lifecycle!Next \/ UNCHANGED poolFile
  BY GatewayStep, PoolLifecycleStep
<1>2. Tool!Lifecycle!Next \/ UNCHANGED toolFile
  BY GatewayStep, ToolLifecycleStep
<1>3. QED
  BY <1>1, <1>2, OneHalfMoves, OneRecordOfTheDirectory

\* The directory subagent_runs as a whole, whichever goroutines write into it,
\* implements the lifecycle that the clients of GET /api/v1/subagents/:id and
\* waitForSubAgent rely on.
THEOREM GatewayImplementsLifecycle == Spec => ImplementsLifecycle
<1>1. Init => Lifecycle!Init
  BY DEF Init, Pool!Init, Tool!Init, Lifecycle!Init, Records, Runs
<1>2. QED
  BY <1>1, GatewayRunsBoth, PoolInvariance, ToolInvariance, RecordsStep, PTL
     DEF Spec, ImplementsLifecycle, Lifecycle!Spec

\* An outcome in a record of the directory is never replaced or taken back,
\* whichever component wrote it: pollers may stop at the first one they see.
THEOREM OutcomesAreFinal == Spec => Lifecycle!OutcomeIsFinal
<1>1. [Lifecycle!Next]_Records =>
        [\A r \in Runs :
           Records[r] \in Lifecycle!Outcome => Records'[r] = Records[r]]_Records
  <2> SUFFICES ASSUME [Lifecycle!Next]_Records, NEW r \in Runs, Records[r] \in Lifecycle!Outcome
               PROVE  Records'[r] = Records[r]
    OBVIOUS
  <2>1. CASE UNCHANGED Records
    BY <2>1
  <2>2. CASE Lifecycle!Next
    <3>0. PICK q \in Runs : Lifecycle!Advance(q)
      BY <2>2 DEF Lifecycle!Next
    <3>1. PICK s \in Lifecycle!Forward[Records[q]] : Records' = [Records EXCEPT ![q] = s]
      BY <3>0 DEF Lifecycle!Advance
    <3>2. q # r
      BY <3>1 DEF Lifecycle!Forward, Lifecycle!Outcome
    <3>3. DOMAIN Records = Runs
      BY DEF Records
    <3>4. QED
      BY <3>1, <3>2, <3>3
  <2>3. QED
    BY <2>1, <2>2
<1>2. QED
  BY <1>1, GatewayImplementsLifecycle, PTL
     DEF ImplementsLifecycle, Lifecycle!Spec, Lifecycle!OutcomeIsFinal

=============================================================================
