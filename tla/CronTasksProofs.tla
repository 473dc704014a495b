--------------------------- MODULE CronTasksProofs ---------------------------
(***************************************************************************)
(* Proofs about the scheduled tasks, for any tasks, callers, run slots and *)
(* faults: types, the agreement of the cron library with CronManager.jobs, *)
(* and the agreement of the schedule with the files.                       *)
(***************************************************************************)
EXTENDS CronTasks, TLAPS

-----------------------------------------------------------------------------
(***************************************************************************)
(* Type correctness                                                        *)
(***************************************************************************)

\* The structs a call makes are tasks, and are about the task they are for.
LEMMA FreshIsTask ==
  ASSUME TypeOK, made < MaxVersion, NEW t \in Tasks
  PROVE  \A task \in Fresh(t) : task \in Task /\ task.id = t
  BY MaxVersionAssumption DEF TypeOK, Fresh, Task

\* Every step keeps the types.
LEMMA TypeStep == TypeOK /\ [Next]_vars => TypeOK'
<1> SUFFICES ASSUME TypeOK, [Next]_vars PROVE TypeOK'
  OBVIOUS
<1> USE MaxVersionAssumption DEF TypeOK, Call, Run, Idle
<1>1. ASSUME NEW c \in Callers, NEW t \in Tasks, AddSave(c, t) PROVE TypeOK'
  <2>1. PICK task \in Fresh(t) : Save(c, task)
    BY <1>1 DEF AddSave
  <2>2. task \in Task
    BY <1>1, FreshIsTask DEF AddSave
  <2>3. file' \in [Tasks -> Task \cup {None, Torn}] /\ lossy' \subseteq Tasks
    BY <2>1, <2>2 DEF Save, SaveWorks, SaveFails, Task
  <2>4. call' \in [Callers -> Call]
    BY <2>1, <2>2 DEF Save, Goto
  <2>5. QED
    BY <1>1, <2>3, <2>4 DEF AddSave, TurnTo, scheduleVars
<1>2. ASSUME NEW c \in Callers, NEW t \in Tasks, UpdateLoad(c, t) PROVE TypeOK'
  <2>1. PICK task \in Fresh(t) : Goto(c, [at |-> "update", task |-> task])
    BY <1>2 DEF UpdateLoad
  <2>2. task \in Task
    BY <1>2, FreshIsTask DEF UpdateLoad
  <2>3. call' \in [Callers -> Call]
    BY <2>1, <2>2 DEF Goto
  <2>4. QED
    BY <1>2, <2>3 DEF UpdateLoad, TurnTo, diskVars, scheduleVars
<1>3. ASSUME NEW c \in Callers, UpdateSave(c) PROVE TypeOK'
  <2>1. call[c].task \in Task
    BY <1>3 DEF UpdateSave
  <2>2. file' \in [Tasks -> Task \cup {None, Torn}] /\ lossy' \subseteq Tasks
    BY <1>3, <2>1 DEF UpdateSave, Save, SaveWorks, SaveFails, Task
  <2>3. call' \in [Callers -> Call]
    BY <1>3, <2>1 DEF UpdateSave, Save, Goto
  <2>4. QED
    BY <1>3, <2>2, <2>3 DEF UpdateSave, scheduleVars
<1>4. ASSUME NEW c \in Callers, Schedule(c) PROVE TypeOK'
  <2>1. call[c].task \in Task
    BY <1>4 DEF Schedule
  <2>2. jobs' \in [Tasks -> Task \cup {None}] /\ entries' \subseteq Task
    BY <1>4, <2>1 DEF Schedule, AddTask, Task
  <2>3. deleted' \subseteq Tasks
    BY <1>4, <2>1 DEF Schedule, Task
  <2>4. QED
    BY <1>4, <2>2, <2>3 DEF Schedule, Goto, diskVars
<1>5. ASSUME NEW c \in Callers, NEW t \in Tasks, DeleteFile(c, t) PROVE TypeOK'
  BY <1>5 DEF DeleteFile, Goto, TurnTo, scheduleVars
<1>6. ASSUME NEW c \in Callers, Unschedule(c) PROVE TypeOK'
  BY <1>6 DEF Unschedule, RemoveTask, Goto, diskVars
<1>7. ASSUME NEW k \in RunSlots, Fire(k) PROVE TypeOK'
  BY <1>7 DEF Fire, TurnTo, diskVars, scheduleVars, Task
<1>8. ASSUME NEW k \in RunSlots, Prompted(k) PROVE TypeOK'
  BY <1>8 DEF Prompted, diskVars, scheduleVars
<1>9. ASSUME NEW k \in RunSlots, RunSave(k) PROVE TypeOK'
  <2>1. run[k].task \in Task
    BY <1>9 DEF RunSave
  <2>2. QED
    BY <1>9, <2>1 DEF RunSave, SaveWorks, SaveFails, scheduleVars, Task
<1>10. ASSUME NEW torn \in SUBSET Tasks, Restart(torn) PROVE TypeOK'
  BY <1>10 DEF Restart, Schedulable
<1>11. CASE UNCHANGED vars
  BY <1>11 DEF vars
<1>12. QED
  BY <1>1, <1>2, <1>3, <1>4, <1>5, <1>6, <1>7, <1>8, <1>9, <1>10, <1>11
     DEF Next, CallStep, CronStep

\* The variables of CronTasks always have their types: in particular a call or
\* a run carries a well-formed task between its two locks.
THEOREM TypeCorrect == Spec => []TypeOK
<1>1. Init => TypeOK
  BY MaxVersionAssumption DEF Init, TypeOK, Call, Run
<1>2. QED
  BY <1>1, TypeStep, PTL DEF Spec

-----------------------------------------------------------------------------
(***************************************************************************)
(* One entry per task                                                      *)
(***************************************************************************)

\* SaveTask names the file after the task.
FileOfItsTask == \A t \in Tasks : file[t] \notin {None, Torn} => file[t].id = t

\* CronManager.AddTask leaves the task exactly one entry, or none.
LEMMA AddTaskKeepsOneEntry ==
  ASSUME TypeOK, OneEntryPerTask, NEW task \in Task, AddTask(task)
  PROVE  OneEntryPerTask'
<1> DEFINE new == IF task.parses THEN task ELSE None
<1>1. task.id \in Tasks
  BY DEF Task
<1>2. jobs' = [jobs EXCEPT ![task.id] = new]
  BY DEF AddTask
<1>3. entries' = (entries \ {jobs[task.id]}) \cup ({new} \ {None})
  BY DEF AddTask
<1>4. \A t \in Tasks : t # task.id /\ jobs[t] # None => jobs[t] # jobs[task.id]
  BY <1>1 DEF OneEntryPerTask
<1>5. new # None => new.id = task.id
  OBVIOUS
<1> HIDE DEF new
<1>6. \A t \in Tasks : jobs'[t] = IF t = task.id THEN new ELSE jobs[t]
  BY <1>1, <1>2 DEF TypeOK
<1>7. entries' = {jobs'[t] : t \in Tasks} \ {None}
  BY <1>1, <1>3, <1>4, <1>6 DEF OneEntryPerTask
<1>8. \A t \in Tasks : jobs'[t] # None => jobs'[t].id = t
  BY <1>5, <1>6 DEF OneEntryPerTask
<1>9. QED
  BY <1>7, <1>8 DEF OneEntryPerTask

LEMMA RemoveTaskKeepsOneEntry ==
  ASSUME TypeOK, OneEntryPerTask, NEW u \in Tasks, RemoveTask(u)
  PROVE  OneEntryPerTask'
<1>1. \A t \in Tasks : t # u /\ jobs[t] # None => jobs[t] # jobs[u]
  BY DEF OneEntryPerTask
<1>2. \A t \in Tasks : jobs'[t] = IF t = u THEN None ELSE jobs[t]
  BY DEF TypeOK, RemoveTask
<1>3. entries' = {jobs'[t] : t \in Tasks} \ {None}
  BY <1>1, <1>2 DEF OneEntryPerTask, RemoveTask
<1>4. QED
  BY <1>2, <1>3 DEF OneEntryPerTask

\* What the restarted process schedules are the tasks of the files.
LEMMA RestartKeepsOneEntry ==
  ASSUME TypeOK, FileOfItsTask, NEW torn \in SUBSET Tasks, Restart(torn)
  PROVE  OneEntryPerTask'
  BY DEF TypeOK, Restart, OneEntryPerTask, Schedulable, FileOfItsTask

\* Saves keep every file under the name of the task it holds.
LEMMA SaveKeepsName ==
  ASSUME TypeOK, FileOfItsTask, NEW task \in Task,
         SaveWorks(task) \/ SaveFails(task)
  PROVE  FileOfItsTask'
<1>1. task.id \in Tasks
  BY DEF Task
<1>2. QED
  BY <1>1 DEF TypeOK, FileOfItsTask, SaveWorks, SaveFails

ScheduleInv == TypeOK /\ FileOfItsTask /\ OneEntryPerTask

LEMMA ScheduleInvStep == ScheduleInv /\ [Next]_vars => ScheduleInv'
<1> SUFFICES ASSUME ScheduleInv, [Next]_vars PROVE ScheduleInv'
  OBVIOUS
<1>t. TypeOK /\ TypeOK' /\ FileOfItsTask /\ OneEntryPerTask
  BY TypeStep DEF ScheduleInv
<1>s. ASSUME UNCHANGED scheduleVars PROVE OneEntryPerTask'
  BY <1>t, <1>s DEF OneEntryPerTask, scheduleVars
<1>d. ASSUME UNCHANGED file PROVE FileOfItsTask'
  BY <1>t, <1>d DEF FileOfItsTask
<1>1. ASSUME NEW c \in Callers, NEW t \in Tasks, AddSave(c, t) PROVE ScheduleInv'
  <2>1. PICK task \in Fresh(t) : Save(c, task)
    BY <1>1 DEF AddSave
  <2>2. task \in Task
    BY <1>1, <1>t, FreshIsTask DEF AddSave
  <2>3. FileOfItsTask'
    BY <1>t, <2>1, <2>2, SaveKeepsName DEF Save
  <2>4. QED
    BY <1>1, <1>t, <1>s, <2>3 DEF AddSave, ScheduleInv
<1>2. ASSUME NEW c \in Callers, UpdateSave(c) PROVE ScheduleInv'
  <2>1. call[c].task \in Task
    BY <1>2, <1>t DEF UpdateSave, TypeOK, Call, Idle
  <2>2. FileOfItsTask'
    BY <1>2, <1>t, <2>1, SaveKeepsName DEF UpdateSave, Save
  <2>3. QED
    BY <1>2, <1>t, <1>s, <2>2 DEF UpdateSave, ScheduleInv
<1>3. ASSUME NEW c \in Callers, Schedule(c) PROVE ScheduleInv'
  <2>1. call[c].task \in Task
    BY <1>3, <1>t DEF Schedule, TypeOK, Call, Idle
  <2>2. OneEntryPerTask'
    BY <1>3, <1>t, <2>1, AddTaskKeepsOneEntry DEF Schedule
  <2>3. QED
    BY <1>3, <1>t, <1>d, <2>2 DEF Schedule, ScheduleInv, diskVars
<1>4. ASSUME NEW c \in Callers, NEW t \in Tasks, DeleteFile(c, t) PROVE ScheduleInv'
  <2>1. FileOfItsTask'
    BY <1>4, <1>t DEF DeleteFile, FileOfItsTask, TypeOK
  <2>2. QED
    BY <1>4, <1>t, <1>s, <2>1 DEF DeleteFile, ScheduleInv
<1>5. ASSUME NEW c \in Callers, Unschedule(c) PROVE ScheduleInv'
  <2>1. call[c].id \in Tasks
    BY <1>5, <1>t DEF Unschedule, TypeOK, Call, Idle
  <2>2. OneEntryPerTask'
    BY <1>5, <1>t, <2>1, RemoveTaskKeepsOneEntry DEF Unschedule
  <2>3. QED
    BY <1>5, <1>t, <1>d, <2>2 DEF Unschedule, ScheduleInv, diskVars
<1>6. ASSUME NEW k \in RunSlots, RunSave(k) PROVE ScheduleInv'
  <2>1. run[k].task \in Task
    BY <1>6, <1>t DEF RunSave, TypeOK, Run, Idle
  <2>2. FileOfItsTask'
    BY <1>6, <1>t, <2>1, SaveKeepsName DEF RunSave
  <2>3. QED
    BY <1>6, <1>t, <1>s, <2>2 DEF RunSave, ScheduleInv
<1>7. ASSUME NEW torn \in SUBSET Tasks, Restart(torn) PROVE ScheduleInv'
  <2>1. FileOfItsTask'
    BY <1>7, <1>t DEF Restart, FileOfItsTask
  <2>2. OneEntryPerTask'
    BY <1>7, <1>t, RestartKeepsOneEntry
  <2>3. QED
    BY <1>t, <2>1, <2>2 DEF ScheduleInv
\* The other steps touch neither the files nor the schedule.
<1>8. ASSUME NEW c \in Callers, NEW t \in Tasks, UpdateLoad(c, t) PROVE ScheduleInv'
  BY <1>8, <1>t, <1>s, <1>d DEF UpdateLoad, diskVars, ScheduleInv
<1>9. ASSUME NEW k \in RunSlots, Fire(k) \/ Prompted(k) PROVE ScheduleInv'
  BY <1>9, <1>t, <1>s, <1>d DEF Fire, Prompted, diskVars, ScheduleInv
<1>10. CASE UNCHANGED vars
  BY <1>10, <1>t, <1>s, <1>d DEF vars, scheduleVars, ScheduleInv
<1>11. QED
  BY <1>1, <1>2, <1>3, <1>4, <1>5, <1>6, <1>7, <1>8, <1>9, <1>10
     DEF Next, CallStep, CronStep

LEMMA ScheduleInvariance == Spec => []ScheduleInv
<1>1. Init => ScheduleInv
  <2> SUFFICES ASSUME Init PROVE ScheduleInv
    OBVIOUS
  <2>1. TypeOK
    BY MaxVersionAssumption DEF Init, TypeOK, Call, Run
  <2>2. FileOfItsTask /\ OneEntryPerTask
    BY DEF Init, FileOfItsTask, OneEntryPerTask
  <2>3. QED
    BY <2>1, <2>2 DEF ScheduleInv
<1>2. QED
  BY <1>1, ScheduleInvStep, PTL DEF Spec

\* However many calls and runs interleave and wherever the process restarts,
\* the cron library holds at most one entry for a task, the one that
\* CronManager.jobs can remove.
THEOREM EntriesAreNotOrphaned == Spec => []OneEntryPerTask
<1>1. ScheduleInv => OneEntryPerTask
  BY DEF ScheduleInv
<1>2. QED
  BY <1>1, ScheduleInvariance, PTL

-----------------------------------------------------------------------------
(***************************************************************************)
(* Memory and disk agree on resting tasks                                  *)
(***************************************************************************)

Settled(t) ==
    /\ jobs[t] \in {None, file[t]}
    /\ Schedulable(file[t]) => jobs[t] = file[t]

\* Of an uncontended task whose saves succeed: at most one actor is at work on
\* it, and what the actor still carries is what the file says.
Calm(t) ==
    /\ \A c, d \in CallsOn(t) : c = d
    /\ \A k, l \in RunsOn(t) : k = l
    /\ \A c \in CallsOn(t), k \in RunsOn(t) : FALSE
    /\ \A c \in CallsOn(t) :
         /\ call[c].at = "update" => Settled(t)
         /\ call[c].at = "schedule" => file[t] = call[c].task
         /\ call[c].at = "unschedule" => file[t] = None
    /\ \A k \in RunsOn(t) : file[t] = run[k].task
    /\ CallsOn(t) = {} => Settled(t)

CalmTasks == \A t \in Tasks \ (contended \cup lossy) : Calm(t)

Inv == ScheduleInv /\ CalmTasks

\* A step that leaves a task, its calls and its runs alone leaves it calm.
LEMMA CalmFrame ==
  ASSUME NEW u \in Tasks, Calm(u),
         file'[u] = file[u], jobs'[u] = jobs[u],
         CallsOn(u)' = CallsOn(u), \A c \in CallsOn(u) : call'[c] = call[c],
         RunsOn(u)' \subseteq RunsOn(u), \A k \in RunsOn(u)' : run'[k].task = run[k].task
  PROVE  Calm(u)'
<1>1. Settled(u) => Settled(u)'
  BY DEF Settled, Schedulable
<1>2. QED
  BY <1>1 DEF Calm

\* The call of c moves on, before and after it about another task than u.
LEMMA OtherCalls ==
  ASSUME TypeOK, NEW c \in Callers, NEW u \in Tasks, NEW next,
         call' = [call EXCEPT ![c] = next], c \notin CallsOn(u),
         \/ next.at = "idle"
         \/ next.at \in {"update", "schedule"} /\ next.task.id # u
  PROVE  CallsOn(u)' = CallsOn(u) /\ \A d \in CallsOn(u) : call'[d] = call[d]
<1>1. \A d \in Callers : d # c => call'[d] = call[d]
  BY DEF TypeOK
<1>2. call'[c] = next
  BY DEF TypeOK
<1>3. c \notin CallsOn(u)'
  BY <1>2 DEF CallsOn
<1>4. \A d \in CallsOn(u) : call'[d] = call[d]
  BY <1>1 DEF CallsOn
<1>5. \A d \in Callers : d \in CallsOn(u)' <=> d \in CallsOn(u)
  <2>1. \A d \in Callers : d # c => (d \in CallsOn(u)' <=> d \in CallsOn(u))
    BY <1>1 DEF CallsOn
  <2>2. QED
    BY <1>3, <2>1
<1>6. QED
  BY <1>4, <1>5 DEF CallsOn

LEMMA CalmStep == Inv /\ [Next]_vars => CalmTasks'
<1> SUFFICES ASSUME Inv, [Next]_vars,
                    NEW u \in Tasks, u \notin contended', u \notin lossy'
             PROVE  Calm(u)'
  BY DEF CalmTasks
<1>t. TypeOK /\ TypeOK' /\ FileOfItsTask /\ OneEntryPerTask /\ CalmTasks
  BY TypeStep DEF Inv, ScheduleInv
<1>1. ASSUME NEW c \in Callers, NEW t \in Tasks, AddSave(c, t) PROVE Calm(u)'
  <2>1. PICK task \in Fresh(t) : Save(c, task)
    BY <1>1 DEF AddSave
  <2>2. task \in Task /\ task.id = t
    BY <1>1, <1>t, FreshIsTask DEF AddSave
  <2>3. u \notin contended /\ u \notin lossy
    BY <1>1, <2>1 DEF AddSave, TurnTo, Save, SaveWorks, SaveFails
  <2>4. Calm(u)
    BY <1>t, <2>3 DEF CalmTasks
  <2>5. CASE u = t
    <3>1. SaveWorks(task) /\ Goto(c, [at |-> "schedule", task |-> task])
      BY <2>1, <2>2, <2>5, <1>t DEF Save, SaveFails
    <3>2. CallsOn(t) = {} /\ RunsOn(t) = {}
      BY <1>1, <2>3, <2>5 DEF AddSave, TurnTo
    <3>3. CallsOn(t)' = {c} /\ RunsOn(t)' = {} /\ call'[c].at = "schedule" /\ call'[c].task = task
      BY <1>1, <3>1, <3>2, <2>2, <1>t DEF AddSave, CallsOn, RunsOn, Goto, TypeOK
    <3>4. file'[t] = task
      BY <3>1, <2>2, <1>t DEF SaveWorks, TypeOK
    <3>5. QED
      BY <3>3, <3>4, <2>5 DEF Calm
  <2>6. CASE u # t
    <3>1. file'[u] = file[u] /\ jobs'[u] = jobs[u]
      BY <1>1, <2>1, <2>2, <2>6, <1>t DEF AddSave, Save, SaveWorks, SaveFails, TypeOK, scheduleVars
    <3>2. CallsOn(u)' = CallsOn(u) /\ \A d \in CallsOn(u) : call'[d] = call[d]
      <4>1. PICK next \in {Idle, [at |-> "schedule", task |-> task]} : Goto(c, next)
        BY <2>1 DEF Save
      <4>2. next.at = "idle" \/ (next.at \in {"update", "schedule"} /\ next.task.id # u)
        <5>1. CASE next = Idle
          BY <5>1 DEF Idle
        <5>2. CASE next = [at |-> "schedule", task |-> task]
          BY <5>2, <2>2, <2>6
        <5>3. QED
          BY <4>1, <5>1, <5>2
      <4>3. c \notin CallsOn(u)
        BY <1>1 DEF AddSave, CallsOn, Idle
      <4>4. QED
        BY <1>t, <4>1, <4>2, <4>3, OtherCalls DEF Goto
    <3>3. RunsOn(u)' = RunsOn(u) /\ run' = run
      BY <1>1 DEF AddSave, RunsOn
    <3>4. QED
      BY <2>4, <3>1, <3>2, <3>3, CalmFrame
  <2>7. QED
    BY <2>5, <2>6
<1>2. ASSUME NEW c \in Callers, NEW t \in Tasks, UpdateLoad(c, t) PROVE Calm(u)'
  BY <1>2, <1>t DEF UpdateLoad, Goto, TurnTo, diskVars, scheduleVars, TypeOK, Idle, Fresh,
                    CalmTasks, Calm, Settled, CallsOn, RunsOn
<1>3. ASSUME NEW c \in Callers, UpdateSave(c) PROVE Calm(u)'
  <2> DEFINE task == call[c].task
  <2>1. task \in Task /\ task.id \in Tasks /\ call[c] # Idle
    BY <1>3, <1>t DEF UpdateSave, TypeOK, Call, Idle, Task
  <2>2. u \notin contended /\ u \notin lossy
    BY <1>3 DEF UpdateSave, Save, SaveWorks, SaveFails
  <2>3. Calm(u)
    BY <1>t, <2>2 DEF CalmTasks
  <2>4. RunsOn(u)' = RunsOn(u) /\ run' = run /\ jobs' = jobs
    BY <1>3 DEF UpdateSave, RunsOn, scheduleVars
  <2>5. CASE u = task.id
    <3>1. SaveWorks(task) /\ Goto(c, [at |-> "schedule", task |-> task])
      BY <1>3, <1>t, <2>1, <2>5 DEF UpdateSave, Save, SaveFails
    <3>2. c \in CallsOn(u)
      BY <1>3, <2>5 DEF UpdateSave, CallsOn
    <3>3. CallsOn(u)' = {c} /\ RunsOn(u)' = {}
      BY <3>1, <3>2, <2>3, <2>4, <2>5, <1>t DEF Calm, CallsOn, Goto, TypeOK
    <3>4. call'[c].at = "schedule" /\ call'[c].task = task
      BY <3>1, <1>t DEF Goto, TypeOK
    <3>5. file'[u] = task
      BY <3>1, <2>5, <1>t DEF SaveWorks, TypeOK
    <3>6. QED
      BY <3>3, <3>4, <3>5 DEF Calm
  <2>6. CASE u # task.id
    <3>1. file'[u] = file[u]
      BY <1>3, <2>1, <2>6, <1>t DEF UpdateSave, Save, SaveWorks, SaveFails, TypeOK
    <3>2. c \notin CallsOn(u)
      BY <1>3, <2>6 DEF UpdateSave, CallsOn
    <3>3. CallsOn(u)' = CallsOn(u) /\ \A d \in CallsOn(u) : call'[d] = call[d]
      <4>1. PICK next \in {Idle, [at |-> "schedule", task |-> task]} : Goto(c, next)
        BY <1>3 DEF UpdateSave, Save
      <4>2. next.at = "idle" \/ (next.at \in {"update", "schedule"} /\ next.task.id # u)
        <5>1. CASE next = Idle
          BY <5>1 DEF Idle
        <5>2. CASE next = [at |-> "schedule", task |-> task]
          BY <5>2, <2>6
        <5>3. QED
          BY <4>1, <5>1, <5>2
      <4>3. QED
        BY <1>t, <3>2, <4>1, <4>2, OtherCalls DEF Goto
    <3>4. QED
      BY <2>3, <2>4, <3>1, <3>3, CalmFrame
  <2>7. QED
    BY <2>5, <2>6
<1>4. ASSUME NEW c \in Callers, Schedule(c) PROVE Calm(u)'
  <2> DEFINE task == call[c].task
  <2>1. task \in Task /\ task.id \in Tasks /\ call[c] # Idle
    BY <1>4, <1>t DEF Schedule, TypeOK, Call, Idle, Task
  <2>2. Calm(u) /\ file' = file
    BY <1>4, <1>t DEF Schedule, diskVars, CalmTasks
  <2>3. RunsOn(u)' = RunsOn(u) /\ run' = run
    BY <1>4 DEF Schedule, RunsOn
  <2>4. Idle \in Call /\ call' = [call EXCEPT ![c] = Idle]
    BY <1>4 DEF Schedule, Goto, Call
  <2>5. CASE u = task.id
    <3>1. c \in CallsOn(u) /\ file[u] = task
      BY <1>4, <2>2, <2>5 DEF Schedule, CallsOn, Calm
    <3>2. CallsOn(u)' = {} /\ RunsOn(u)' = {}
      BY <2>2, <2>3, <2>4, <3>1, <1>t DEF Calm, CallsOn, TypeOK, Idle
    <3>3. jobs'[u] = IF task.parses THEN task ELSE None
      BY <1>4, <1>t, <2>1, <2>5 DEF Schedule, AddTask, TypeOK
    <3>4. file'[u] = task
      BY <2>2, <3>1
    <3>5. Settled(u)'
      BY <3>3, <3>4 DEF Settled, Schedulable
    <3>6. QED
      BY <3>2, <3>5 DEF Calm
  <2>6. CASE u # task.id
    <3>1. jobs'[u] = jobs[u]
      BY <1>4, <1>t, <2>6 DEF Schedule, AddTask, TypeOK
    <3>2. c \notin CallsOn(u)
      BY <1>4, <2>6 DEF Schedule, CallsOn
    <3>3. CallsOn(u)' = CallsOn(u) /\ \A d \in CallsOn(u) : call'[d] = call[d]
      BY <1>t, <2>4, <3>2, OtherCalls DEF Idle
    <3>4. QED
      BY <2>2, <2>3, <3>1, <3>3, CalmFrame
  <2>7. QED
    BY <2>5, <2>6
<1>5. ASSUME NEW c \in Callers, NEW t \in Tasks, DeleteFile(c, t) PROVE Calm(u)'
  BY <1>5, <1>t DEF DeleteFile, Goto, TurnTo, scheduleVars, TypeOK, Idle,
                    CalmTasks, Calm, Settled, CallsOn, RunsOn
<1>6. ASSUME NEW c \in Callers, Unschedule(c) PROVE Calm(u)'
  BY <1>6, <1>t DEF Unschedule, RemoveTask, Goto, diskVars, TypeOK, Call, Idle, Schedulable,
                    CalmTasks, Calm, Settled, CallsOn, RunsOn
<1>7. ASSUME NEW k \in RunSlots, Fire(k) PROVE Calm(u)'
  BY <1>7, <1>t DEF Fire, TurnTo, diskVars, scheduleVars, TypeOK, Idle, Task,
                    CalmTasks, Calm, Settled, CallsOn, RunsOn, OneEntryPerTask
<1>8. ASSUME NEW k \in RunSlots, Prompted(k) PROVE Calm(u)'
  <2>1. Calm(u) /\ file' = file /\ jobs' = jobs /\ call' = call /\ CallsOn(u)' = CallsOn(u)
    BY <1>8, <1>t DEF Prompted, diskVars, scheduleVars, CalmTasks, CallsOn
  <2>2. PICK next \in {Idle, [run[k] EXCEPT !.at = "saving"]} :
          run' = [run EXCEPT ![k] = next]
    BY <1>8 DEF Prompted
  <2>3. run[k] # Idle /\ run[k] \in [at : {"prompting", "saving"}, task : Task]
    BY <1>8, <1>t DEF Prompted, TypeOK, Run, Idle
  <2>4. next = Idle \/ next.task = run[k].task
    BY <2>2, <2>3
  <2>5. \A l \in RunSlots : run'[l] = IF l = k THEN next ELSE run[l]
    BY <2>2, <1>t DEF TypeOK
  <2>6. \A l \in RunsOn(u)' : l \in RunsOn(u) /\ run'[l].task = run[l].task
    BY <2>3, <2>4, <2>5 DEF RunsOn
  <2>7. QED
    BY <2>1, <2>6, CalmFrame
<1>9. ASSUME NEW k \in RunSlots, RunSave(k) PROVE Calm(u)'
  <2> DEFINE task == run[k].task
  <2>1. task \in Task /\ task.id \in Tasks /\ run[k] # Idle
    BY <1>9, <1>t DEF RunSave, TypeOK, Run, Idle, Task
  <2>2. u \notin contended /\ u \notin lossy
    BY <1>9 DEF RunSave, SaveWorks, SaveFails
  <2>3. Calm(u)
    BY <1>t, <2>2 DEF CalmTasks
  <2>4. file'[u] = file[u]
    <3>1. CASE u = task.id
      <4>1. file[u] = task
        BY <2>1, <2>3, <3>1 DEF Calm, RunsOn
      <4>2. file'[u] = task
        BY <1>9, <1>t, <2>1, <3>1 DEF RunSave, SaveWorks, SaveFails, TypeOK
      <4>3. QED
        BY <4>1, <4>2
    <3>2. CASE u # task.id
      BY <1>9, <1>t, <2>1, <3>2 DEF RunSave, SaveWorks, SaveFails, TypeOK
    <3>3. QED
      BY <3>1, <3>2
  <2>5. RunsOn(u)' \subseteq RunsOn(u) /\ \A l \in RunsOn(u)' : run'[l].task = run[l].task
    BY <1>9, <1>t DEF RunSave, RunsOn, TypeOK
  <2>6. CallsOn(u)' = CallsOn(u) /\ call' = call /\ jobs' = jobs
    BY <1>9 DEF RunSave, CallsOn, scheduleVars
  <2>7. QED
    BY <2>3, <2>4, <2>5, <2>6, CalmFrame
<1>10. ASSUME NEW torn \in SUBSET Tasks, Restart(torn) PROVE Calm(u)'
  BY <1>10, <1>t DEF Restart, Schedulable, TypeOK, Idle, Calm, Settled, CallsOn, RunsOn
<1>11. CASE UNCHANGED vars
  BY <1>11, <1>t DEF vars, CalmTasks, Calm, Settled, CallsOn, RunsOn
<1>12. QED
  BY <1>1, <1>2, <1>3, <1>4, <1>5, <1>6, <1>7, <1>8, <1>9, <1>10, <1>11
     DEF Next, CallStep, CronStep

\* A task nobody is at work on, and that no two actors were at work on at once
\* since the process started, is scheduled as its file says: add, update,
\* delete, run and restart each leave file and schedule in agreement.
THEOREM RestingTasksDoAgree == Spec => []RestingTasksAgree
<1>1. Init => CalmTasks
  <2> SUFFICES ASSUME Init, NEW t \in Tasks PROVE Calm(t)
    BY DEF CalmTasks
  <2>1. CallsOn(t) = {} /\ RunsOn(t) = {}
    BY DEF Init, CallsOn, RunsOn, Idle
  <2>2. Settled(t)
    BY DEF Init, Settled, Schedulable
  <2>3. QED
    BY <2>1, <2>2 DEF Calm
<1>2. ScheduleInv /\ CalmTasks /\ [Next]_vars => CalmTasks'
  BY CalmStep DEF Inv
<1>3. CalmTasks => RestingTasksAgree
  BY DEF CalmTasks, Calm, Settled, RestingTasksAgree
<1>4. QED
  BY <1>1, <1>2, <1>3, ScheduleInvariance, PTL DEF Spec

=============================================================================
