----------------------------- MODULE CronTasks -----------------------------
(***************************************************************************)
(* Scheduled tasks: the task_manager tool (src/internal/engine/tools/      *)
(* taskmanager.go), Gateway.AddTask and DeleteTask, cron.CronManager and   *)
(* the files tasks/<id>.json of storage.Storage.                           *)
(*                                                                         *)
(* A task lives twice: in its file and, scheduled, in an entry of the cron *)
(* library whose closure holds the struct the entry was made from.  Tool   *)
(* calls of concurrent chats and the runs the library starts change both,  *)
(* one lock at a time: Storage.mu for a file access, CronManager.mu for    *)
(* the schedule.  One step here is what happens under one of these locks.  *)
(***************************************************************************)
EXTENDS Naturals

CONSTANTS
    Tasks,          \* task ids (8 characters of a uuid, taken as unique)
    Callers,        \* tool calls that can be under way at once
    RunSlots,       \* cron runs that can be under way at once
    MaxVersion,     \* bound on the number of task structs tool calls make
    Faults          \* the faults that may occur, a subset of FaultKind

FaultKind == {"save",     \* a save fails, before or after the truncation
              "restart"}  \* the process dies and is started again

ASSUME FaultsAssumption == Faults \subseteq FaultKind
ASSUME MaxVersionAssumption == MaxVersion \in Nat

VARIABLES
    file,       \* file[t]: the content of tasks/<t>.json
    jobs,       \* CronManager.jobs[t]: the entry of task t, or None
    entries,    \* the entries of the cron library
    call,       \* call[c]: the tool call of c, between two locks
    run,        \* run[k]: the cron run in slot k
    made,       \* number of structs tool calls have made
    used,       \* task ids given out
    deleted,    \* tasks whose last successful call said they were deleted
    contended,  \* tasks two actors were at work on at once, since the start
    lossy       \* tasks that had a save fail, since the start

scheduleVars == <<jobs, entries>>
diskVars == <<file, lossy>>
vars == <<file, jobs, entries, call, run, made, used, deleted, contended, lossy>>

-----------------------------------------------------------------------------
(***************************************************************************)
(* A task struct: its id, a number that tells its content (name, prompt,   *)
(* cron expression) from that of every other struct, the Active flag, and  *)
(* whether the cron library parses the expression.  LastRun is left out.   *)
(*                                                                         *)
(* An entry of the library is known by the struct its closure holds:       *)
(* within the life of a process no struct is scheduled twice.              *)
(***************************************************************************)
Task == [id : Tasks, ver : 1 .. MaxVersion, active : BOOLEAN, parses : BOOLEAN]

\* No file, or no entry; a file that json.Unmarshal rejects; no call or run.
None == [is |-> "none"]
Torn == [is |-> "torn"]
Idle == [at |-> "idle"]

\* "update": loaded and modified (skills are installed here), not yet saved;
\* "schedule": saved, CronManager.AddTask comes next;
\* "unschedule": the file is removed, CronManager.RemoveTask comes next.
Call ==
    {Idle} \cup [at : {"update", "schedule"}, task : Task]
           \cup [at : {"unschedule"}, id : Tasks]

Run == {Idle} \cup [at : {"prompting", "saving"}, task : Task]

TypeOK ==
    /\ file \in [Tasks -> Task \cup {None, Torn}]
    /\ jobs \in [Tasks -> Task \cup {None}]
    /\ entries \subseteq Task
    /\ call \in [Callers -> Call]
    /\ run \in [RunSlots -> Run]
    /\ made \in 0 .. MaxVersion
    /\ used \subseteq Tasks
    /\ deleted \subseteq Tasks
    /\ contended \subseteq Tasks
    /\ lossy \subseteq Tasks

Init ==
    /\ file = [t \in Tasks |-> None]
    /\ jobs = [t \in Tasks |-> None]
    /\ entries = {}
    /\ call = [c \in Callers |-> Idle]
    /\ run = [k \in RunSlots |-> Idle]
    /\ made = 0
    /\ used = {}
    /\ deleted = {}
    /\ contended = {}
    /\ lossy = {}

-----------------------------------------------------------------------------
CallsOn(t) ==
    {c \in Callers : \/ call[c].at \in {"update", "schedule"} /\ call[c].task.id = t
                     \/ call[c].at = "unschedule" /\ call[c].id = t}
RunsOn(t) == {k \in RunSlots : run[k] # Idle /\ run[k].task.id = t}

\* An actor turns to task t; it may find another one at work on it.
TurnTo(t) ==
    contended' = IF CallsOn(t) \cup RunsOn(t) = {} THEN contended
                                                   ELSE contended \cup {t}

\* The structs a tool call can make now: the content is new.
Fresh(t) == [id : {t}, ver : {made + 1}, active : BOOLEAN, parses : BOOLEAN]

(***************************************************************************)
(* Storage.SaveTask: the file holds the struct, or the save fails before   *)
(* or after os.WriteFile truncated the file.                               *)
(***************************************************************************)
SaveWorks(task) ==
    /\ file' = [file EXCEPT ![task.id] = task]
    /\ UNCHANGED lossy

SaveFails(task) ==
    /\ "save" \in Faults
    /\ \E left \in {file[task.id], Torn} : file' = [file EXCEPT ![task.id] = left]
    /\ lossy' = lossy \cup {task.id}

-----------------------------------------------------------------------------
(***************************************************************************)
(* Faulty variants, used only to check that each property can fail.        *)
(***************************************************************************)

\* The old entry of the task stays in the cron library.
AddTask_KeepsOld(task) ==
    IF task.parses
    THEN /\ entries' = entries \cup {task}
         /\ jobs' = [jobs EXCEPT ![task.id] = task]
    ELSE UNCHANGED scheduleVars

\* A task whose new expression does not parse keeps its old entry.
AddTask_ParsesFirst(task) ==
    IF task.parses
    THEN /\ entries' = (entries \ {jobs[task.id]}) \cup {task}
         /\ jobs' = [jobs EXCEPT ![task.id] = task]
    ELSE UNCHANGED scheduleVars

-----------------------------------------------------------------------------
(***************************************************************************)
(* CronManager.AddTask and RemoveTask.  AddTask removes the entry the task *)
(* has before it knows whether the new expression parses.                  *)
(***************************************************************************)
AddTask(task) ==
    LET new == IF task.parses THEN task ELSE None
    IN  /\ entries' = (entries \ {jobs[task.id]}) \cup ({new} \ {None})
        /\ jobs' = [jobs EXCEPT ![task.id] = new]

RemoveTask(t) ==
    /\ entries' = entries \ {jobs[t]}
    /\ jobs' = [jobs EXCEPT ![t] = None]

-----------------------------------------------------------------------------
(***************************************************************************)
(* The tool calls                                                          *)
(***************************************************************************)
Goto(c, next) == call' = [call EXCEPT ![c] = next]

\* Gateway.AddTask: the file first; an error ends the call.
Save(c, task) ==
    \/ SaveWorks(task) /\ Goto(c, [at |-> "schedule", task |-> task])
    \/ SaveFails(task) /\ Goto(c, Idle)

\* "add", with a new id.
AddSave(c, t) ==
    /\ call[c] = Idle
    /\ made < MaxVersion
    /\ t \notin used
    /\ \E task \in Fresh(t) : Save(c, task)
    /\ made' = made + 1
    /\ used' = used \cup {t}
    /\ TurnTo(t)
    /\ UNCHANGED <<scheduleVars, run, deleted>>

\* "update": the file is loaded and the struct modified.  A file that is
\* missing or unreadable ends the call.
UpdateLoad(c, t) ==
    /\ call[c] = Idle
    /\ made < MaxVersion
    /\ file[t] \notin {None, Torn}
    /\ \E task \in Fresh(t) : Goto(c, [at |-> "update", task |-> task])
    /\ made' = made + 1
    /\ TurnTo(t)
    /\ UNCHANGED <<diskVars, scheduleVars, run, used, deleted>>

UpdateSave(c) ==
    /\ call[c].at = "update"
    /\ Save(c, call[c].task)
    /\ UNCHANGED <<scheduleVars, run, made, used, deleted, contended>>

\* The second half of "add" and "update".  The caller is told that the task
\* was added or updated, or gets the error of the parser.
Schedule(c) ==
    /\ call[c].at = "schedule"
    /\ AddTask(call[c].task)
    /\ Goto(c, Idle)
    /\ deleted' = IF call[c].task.parses THEN deleted \ {call[c].task.id}
                                         ELSE deleted
    /\ UNCHANGED <<diskVars, run, made, used, contended>>

\* "delete".  os.Remove fails for a file that is not there (or for another
\* reason): then the call returns the error and leaves the schedule alone.
DeleteFile(c, t) ==
    /\ call[c] = Idle
    /\ file[t] # None
    /\ file' = [file EXCEPT ![t] = None]
    /\ Goto(c, [at |-> "unschedule", id |-> t])
    /\ TurnTo(t)
    /\ UNCHANGED <<scheduleVars, run, made, used, deleted, lossy>>

\* The second half; the caller is told "Task deleted successfully".
Unschedule(c) ==
    /\ call[c].at = "unschedule"
    /\ RemoveTask(call[c].id)
    /\ Goto(c, Idle)
    /\ deleted' = deleted \cup {call[c].id}
    /\ UNCHANGED <<diskVars, run, made, used, contended>>

-----------------------------------------------------------------------------
(***************************************************************************)
(* CronManager.runTask, started by the library for an entry whenever its   *)
(* expression fires, whether or not an earlier run of it is over.  Removing*)
(* the entry does not stop it.                                             *)
(***************************************************************************)
Fire(k) ==
    /\ run[k] = Idle
    /\ \E task \in entries :
         /\ run' = [run EXCEPT ![k] = [at |-> "prompting", task |-> task]]
         /\ TurnTo(task.id)
    /\ UNCHANGED <<diskVars, scheduleVars, call, made, used, deleted>>

\* promptFn returned; an error ends the run.
Prompted(k) ==
    /\ run[k].at = "prompting"
    /\ run' \in {[run EXCEPT ![k] = Idle], [run EXCEPT ![k].at = "saving"]}
    /\ UNCHANGED <<diskVars, scheduleVars, call, made, used, deleted, contended>>

\* The struct of the closure is saved with its LastRun (an error is only
\* logged), and the answer reported.
RunSave(k) ==
    /\ run[k].at = "saving"
    /\ SaveWorks(run[k].task) \/ SaveFails(run[k].task)
    /\ run' = [run EXCEPT ![k] = Idle]
    /\ UNCHANGED <<scheduleVars, call, made, used, deleted, contended>>

-----------------------------------------------------------------------------
(***************************************************************************)
(* The process dies, perhaps within a save, and is started again:          *)
(* CronManager.Start schedules the active tasks among the files it can     *)
(* read.                                                                   *)
(***************************************************************************)
SavePending(t) ==
    \/ t \notin used
    \/ \E c \in Callers : call[c].at = "update" /\ call[c].task.id = t
    \/ \E k \in RunSlots : run[k].at = "saving" /\ run[k].task.id = t

Schedulable(content) ==
    content \notin {None, Torn} /\ content.active /\ content.parses

Restart(torn) ==
    /\ "restart" \in Faults
    /\ \A t \in torn : SavePending(t)
    /\ \A t, u \in torn : t = u
    /\ file' = [t \in Tasks |-> IF t \in torn THEN Torn ELSE file[t]]
    /\ jobs' = [t \in Tasks |-> IF Schedulable(file'[t]) THEN file'[t] ELSE None]
    /\ entries' = {jobs'[t] : t \in Tasks} \ {None}
    /\ call' = [c \in Callers |-> Idle]
    /\ run' = [k \in RunSlots |-> Idle]
    /\ used' = used \cup torn
    /\ contended' = {}
    /\ lossy' = {}
    /\ UNCHANGED <<made, deleted>>

CallStep(c) ==
    \/ \E t \in Tasks : AddSave(c, t) \/ UpdateLoad(c, t) \/ DeleteFile(c, t)
    \/ UpdateSave(c) \/ Schedule(c) \/ Unschedule(c)

CronStep(k) == Fire(k) \/ Prompted(k) \/ RunSave(k)

Next ==
    \/ \E c \in Callers : CallStep(c)
    \/ \E k \in RunSlots : CronStep(k)
    \/ \E torn \in SUBSET Tasks : Restart(torn)

Spec == Init /\ [][Next]_vars

-----------------------------------------------------------------------------
(***************************************************************************)
(* Properties                                                              *)
(***************************************************************************)

\* The cron library and CronManager.jobs agree: a task has at most one entry,
\* however often and by whomever it is updated, and no entry is orphaned (an
\* orphan could not be removed any more and would fire for ever).
OneEntryPerTask ==
    /\ entries = {jobs[t] : t \in Tasks} \ {None}
    /\ \A t \in Tasks : jobs[t] # None => jobs[t].id = t

\* While nobody is at work on a task, and no two actors were at work on it at
\* once since the process started, memory and disk agree on it: what is
\* scheduled is what the file says, and a readable active task is scheduled.
RestingTasksAgree ==
    \A t \in Tasks \ (contended \cup lossy) :
        CallsOn(t) = {} =>
            /\ jobs[t] \in {None, file[t]}
            /\ Schedulable(file[t]) => jobs[t] = file[t]

\* A task whose caller was told "Task deleted successfully" is gone.
DeletedStaysDeleted ==
    \A t \in deleted : file[t] = None /\ jobs[t] = None

=============================================================================
