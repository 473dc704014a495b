--------------------------- MODULE ServerProcess ----------------------------
(***************************************************************************)
(* The processes of cmd/server/main.go on one storage directory and their  *)
(* PID file.  A process that finds the PID of a live process in the file   *)
(* gives up; otherwise it removes the file, makes it anew and serves until *)
(* it is told to stop.  Reading, removing, opening and writing the file    *)
(* are steps of their own.  The file is what the path names: a process     *)
(* that has it open goes on writing to it after another has removed it.    *)
(***************************************************************************)
EXTENDS FiniteSets

CONSTANTS
    Pid,     \* the numbers a process may get
    Absent,  \* no file
    Empty,   \* opened with O_TRUNC, and not written
    Garbled  \* a longer PID overwritten by a shorter one: not a number

VARIABLES
    pidFile,    \* what the path miri.pid holds
    holders,    \* processes whose open file is the one at the path
    proc,       \* proc[p]: where main stands
    signalled,  \* processes whose signal handler has cancelled the context
    reused,     \* ended processes whose PID another program has now
    \* History, not part of the program:
    crossed     \* two processes have been between reading and writing at once

vars == <<pidFile, holders, proc, signalled, reused, crossed>>

\* Between the reading of the file and the end of its writing.
Claiming == {"stale", "opening", "writing"}
\* With a gateway and an engine.
Working == {"starting", "serving", "stopping"}
Stage == {"new", "reading", "removing", "ended", "refused"} \cup Claiming \cup Working

TypeOK ==
    /\ pidFile \in Pid \cup {Absent, Empty, Garbled}
    /\ holders \subseteq Pid
    /\ proc \in [Pid -> Stage]
    /\ signalled \subseteq Pid /\ reused \subseteq Pid
    /\ crossed \in BOOLEAN

Init ==
    /\ pidFile = Absent /\ holders = {}
    /\ proc = [p \in Pid |-> "new"]
    /\ signalled = {} /\ reused = {} /\ crossed = FALSE

\* Signal 0 reaches a process.
Alive(p) == p \in reused \/ proc[p] \notin {"new", "ended", "refused"}

Goto(p, stage) ==
    /\ proc' = [proc EXCEPT ![p] = stage]
    /\ crossed' = (crossed \/ (stage \in Claiming /\
                     \E q \in Pid \ {p} : proc[q] \in Claiming))

-----------------------------------------------------------------------------
\* A process is started, with a number that is free: in a container it may
\* get the number of the one before.  Configuration and storage are loaded.
Start(p) ==
    /\ ~Alive(p) /\ Goto(p, "reading")
    /\ holders' = holders \ {p}
    /\ signalled' = signalled \ {p}
    /\ UNCHANGED <<pidFile, reused>>

\* Faulty: a file with a PID in it is taken for stale.
CheckRunning_Stale(p) ==
    /\ proc[p] = "reading"
    /\ Goto(p, IF pidFile \in Pid THEN "stale" ELSE "opening")
    /\ UNCHANGED <<pidFile, holders, signalled, reused>>

\* A missing, empty or unreadable file is gone over; a live PID ends the
\* process, even if it is its own; a dead one is stale.
CheckRunning(p) ==
    /\ proc[p] = "reading"
    /\ Goto(p, IF pidFile \notin Pid THEN "opening"
               ELSE IF Alive(pidFile) THEN "refused" ELSE "stale")
    /\ UNCHANGED <<pidFile, holders, signalled, reused>>

\* os.Remove takes away whatever is there by now; its failure is logged.
RemoveStale(p) ==
    /\ proc[p] = "stale" /\ Goto(p, "opening")
    /\ \/ pidFile' = Absent /\ holders' = {}
       \/ UNCHANGED <<pidFile, holders>>
    /\ UNCHANGED <<signalled, reused>>

OpenPidFile(p) ==
    /\ proc[p] = "opening" /\ Goto(p, "writing")
    /\ pidFile' = Empty
    /\ holders' = holders \cup {p}
    /\ UNCHANGED <<signalled, reused>>

\* Each process writes from the start of the file.
WritePidFile(p) ==
    /\ proc[p] = "writing" /\ Goto(p, "starting")
    /\ IF p \notin holders THEN pidFile' = pidFile
       ELSE pidFile' \in {p} \cup (IF pidFile = Empty THEN {} ELSE {Garbled})
    /\ UNCHANGED <<holders, signalled, reused>>

\* The file cannot be opened or written: os.Exit, without the deferred calls.
PidFileFails(p) ==
    /\ proc[p] \in {"opening", "writing"} /\ Goto(p, "ended")
    /\ UNCHANGED <<pidFile, holders, signalled, reused>>

\* The gateway is made, its engine started and the signals are caught.
\* Another process may have the port: that is logged, and the process stays.
Serve(p) ==
    /\ proc[p] = "starting" /\ Goto(p, "serving")
    /\ UNCHANGED <<pidFile, holders, signalled, reused>>

Signal(p) ==
    /\ proc[p] = "serving" /\ p \notin signalled
    /\ signalled' = signalled \cup {p}
    /\ UNCHANGED <<pidFile, holders, proc, reused, crossed>>

\* ListenAndServe goes on to shut down: requests, then the engine.
Shutdown(p) ==
    /\ proc[p] = "serving" /\ p \in signalled /\ Goto(p, "stopping")
    /\ UNCHANGED <<pidFile, holders, signalled, reused>>

Shutdown_Ends(p) ==
    /\ proc[p] = "stopping" /\ Goto(p, "removing")
    /\ UNCHANGED <<pidFile, holders, signalled, reused>>

\* The deferred call removes the file whatever it holds.
RemovePidFile(p) ==
    /\ proc[p] = "removing" /\ Goto(p, "ended")
    /\ pidFile' = Absent /\ holders' = {}
    /\ UNCHANGED <<signalled, reused>>

\* Killed: also SIGTERM before it is caught.  No deferred call is run.
Kill(p) ==
    /\ proc[p] \notin {"new", "ended", "refused"} /\ Goto(p, "ended")
    /\ UNCHANGED <<pidFile, holders, signalled, reused>>

\* The operating system gives the PID to another program, which may end too.
Reuse(p) ==
    /\ proc[p] = "ended"
    /\ reused' = IF p \in reused THEN reused \ {p} ELSE reused \cup {p}
    /\ UNCHANGED <<pidFile, holders, proc, signalled, crossed>>

Main(p) ==
    \/ Start(p) \/ CheckRunning(p) \/ RemoveStale(p) \/ OpenPidFile(p)
    \/ WritePidFile(p) \/ PidFileFails(p) \/ Serve(p) \/ Shutdown(p)
    \/ Shutdown_Ends(p) \/ RemovePidFile(p)

Next == \E p \in Pid : Main(p) \/ Signal(p) \/ Kill(p) \/ Reuse(p)

Spec == Init /\ [][Next]_vars

-----------------------------------------------------------------------------
\* A process at work is the one the file names, so that every later start is
\* refused and no two processes work on one storage directory: unless two
\* starts have crossed between reading and writing the file.  Crashes, failed
\* writes, PIDs used again and removals that fail do not matter.
FileNamesTheServer ==
    ~crossed => \A p \in Pid : proc[p] \in Working => pidFile = p

=============================================================================
