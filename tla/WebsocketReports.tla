-------------------------- MODULE WebsocketReports --------------------------
(***************************************************************************)
(* The websocket connections of the default session and the task reports   *)
(* broadcast to them (src/internal/api/server.go and stream.go).           *)
(*                                                                         *)
(* Connections are kept in a slice.  A report copies the slice under the   *)
(* lock, which copies its header and not its elements, and writes to the   *)
(* connections after the lock is released; a connection that closes moves  *)
(* the elements of the same array one by one.  A websocket takes one       *)
(* writer at a time: a second one makes gorilla/websocket panic, in the    *)
(* handler of the connection, where the panic is recovered, or in the      *)
(* goroutine of the cron run, where nothing recovers it.                   *)
(***************************************************************************)
EXTENDS Naturals, Sequences, FiniteSets

CONSTANTS
    Conn,       \* connections, each opened once
    Reports,    \* runs of tasks that report
    MaxPrompts, \* bound on the prompts that are taken
    None

VARIABLES
    array,     \* the elements of the current array, up to its capacity
    len,       \* the length of s.wsSessions[sessionID]; 0: no such key
    conn,      \* conn[c]: where the handler of a connection stands
    prompts,   \* the prompts taken so far
    leaving,   \* the connection being removed, under the lock, and how far
    report,    \* report[r]: where a report stands
    handled,   \* SetTaskReportHandler has been called
    crashed,   \* the process is gone
    \* History, not part of the program:
    sent,      \* sent[r]: the connections written to, in order
    due,       \* due[r]: connections open when the report began
    disturbed  \* reports during which a connection was removed

vars == <<array, len, conn, prompts, leaving, report, handled, crashed,
          sent, due, disturbed>>

Handler == {"new", "reading", "answering", "writing", "removing", "closed"}

\* A report holds the length it copied and, if the array has been replaced
\* since, the old array.
Report == [at : {"idle", "next", "writing", "done"}, index : Nat, len : Nat,
           old : Seq(Conn \cup {None}), target : Conn \cup {None}]

NoReport == [at |-> "idle", index |-> 1, len |-> 0, old |-> <<>>, target |-> None]
NotLeaving == [conn |-> None, from |-> 0, to |-> 0]

TypeOK ==
    /\ array \in Seq(Conn \cup {None}) /\ len \in 0 .. Len(array)
    /\ conn \in [Conn -> Handler]
    /\ prompts \in 0 .. MaxPrompts
    /\ leaving \in [conn : Conn \cup {None}, from : Nat, to : Nat]
    /\ report \in [Reports -> Report]
    /\ handled \in BOOLEAN /\ crashed \in BOOLEAN
    /\ sent \in [Reports -> Seq(Conn)]
    /\ due \in [Reports -> SUBSET Conn]
    /\ disturbed \subseteq Reports

Init ==
    /\ array = <<>> /\ len = 0
    /\ conn = [c \in Conn |-> "new"]
    /\ prompts = 0
    /\ leaving = NotLeaving
    /\ report = [r \in Reports |-> NoReport]
    /\ handled = FALSE /\ crashed = FALSE
    /\ sent = [r \in Reports |-> <<>>]
    /\ due = [r \in Reports |-> {}]
    /\ disturbed = {}

Up == handled /\ ~crashed
Locked == leaving.conn # None
Broadcasting == {r \in Reports : report[r].at \in {"next", "writing"}}
Goto(c, at) == conn' = [conn EXCEPT ![c] = at]
Open == {c \in Conn : conn[c] \notin {"new", "closed"}}
Reported(c) == \E r \in Reports : report[r].at = "writing" /\ report[r].target = c

-----------------------------------------------------------------------------
(***************************************************************************)
(* The handler of a connection                                             *)
(***************************************************************************)

\* NewServer sets the handler of reports when the cron manager is already
\* running; connections are taken only after that.
SetTaskReportHandler ==
    /\ ~handled /\ handled' = TRUE
    /\ UNCHANGED <<array, len, conn, prompts, leaving, report, crashed, sent, due,
                   disturbed>>

\* append: in place while there is room, or in an array of twice the size,
\* of which the reports under way know nothing.
Register(c) ==
    /\ Up /\ ~Locked /\ conn[c] = "new" /\ Goto(c, "reading")
    /\ len' = len + 1
    /\ IF len < Len(array)
       THEN array' = [array EXCEPT ![len'] = c] /\ report' = report
       ELSE /\ array' = [i \in 1 .. (IF len = 0 THEN 1 ELSE 2 * len) |->
                           IF i <= len THEN array[i] ELSE IF i = len' THEN c ELSE None]
            /\ report' = [r \in Reports |->
                 IF r \in Broadcasting /\ report[r].old = <<>>
                 THEN [report[r] EXCEPT !.old = array] ELSE report[r]]
    /\ UNCHANGED <<prompts, leaving, handled, crashed, sent, due, disturbed>>

\* A prompt is read and answered; the answer, or each chunk of it, is written.
ReadPrompt(c) ==
    /\ Up /\ conn[c] = "reading" /\ prompts < MaxPrompts
    /\ prompts' = prompts + 1
    /\ Goto(c, "answering")
    /\ UNCHANGED <<array, len, leaving, report, handled, crashed, sent, due, disturbed>>

\* The write begins.  If a report is being written the handler panics, which
\* gin recovers: the connection is given up.
BeginWrite(c) ==
    /\ Up /\ conn[c] = "answering"
    /\ Goto(c, IF Reported(c) THEN "removing" ELSE "writing")
    /\ UNCHANGED <<array, len, prompts, leaving, report, handled, crashed, sent, due,
                   disturbed>>

\* The write ends: another chunk, the next prompt, or a failure.
EndWrite(c) ==
    /\ Up /\ conn[c] = "writing"
    /\ \E at \in {"answering", "reading", "removing"} : Goto(c, at)
    /\ UNCHANGED <<array, len, prompts, leaving, report, handled, crashed, sent, due,
                   disturbed>>

\* The peer closes the connection, or the answer cannot be written.
Close(c) ==
    /\ Up /\ conn[c] = "reading" /\ Goto(c, "removing")
    /\ UNCHANGED <<array, len, prompts, leaving, report, handled, crashed, sent, due,
                   disturbed>>

\* slices.DeleteFunc, under the lock: from the position of the connection on,
\* each element is moved down, and the rest of the slice is cleared.
BeginRemove(c) ==
    /\ Up /\ ~Locked /\ conn[c] = "removing"
    /\ \E i \in 1 .. len :
         /\ array[i] = c
         /\ leaving' = [conn |-> c, from |-> i + 1, to |-> i]
    /\ disturbed' = disturbed \cup Broadcasting
    /\ UNCHANGED <<array, len, conn, prompts, report, handled, crashed, sent, due>>

MoveOne ==
    /\ Up /\ Locked /\ leaving.from <= len
    /\ array' = [array EXCEPT ![leaving.to] = array[leaving.from]]
    /\ leaving' = [leaving EXCEPT !.from = @ + 1, !.to = @ + 1]
    /\ UNCHANGED <<len, conn, prompts, report, handled, crashed, sent, due, disturbed>>

\* Faulty: what DeleteFunc returns is not assigned.
EndRemove_Unassigned ==
    /\ Up /\ Locked /\ leaving.from > len
    /\ array' = [array EXCEPT ![leaving.to] = None]
    /\ Goto(leaving.conn, "closed")
    /\ leaving' = NotLeaving
    /\ UNCHANGED <<len, prompts, report, handled, crashed, sent, due, disturbed>>

\* The last element is cleared.  When the slice is empty the key is deleted,
\* and the next connection starts a new array.
EndRemove ==
    /\ Up /\ Locked /\ leaving.from > len
    /\ len' = len - 1
    /\ array' = IF len' = 0 THEN <<>> ELSE [array EXCEPT ![leaving.to] = None]
    /\ report' = IF len' # 0 THEN report
                 ELSE [r \in Reports |->
                        IF r \in Broadcasting /\ report[r].old = <<>>
                        THEN [report[r] EXCEPT !.old = [array EXCEPT ![leaving.to] = None]]
                        ELSE report[r]]
    /\ Goto(leaving.conn, "closed")
    /\ leaving' = NotLeaving
    /\ UNCHANGED <<prompts, handled, crashed, sent, due, disturbed>>

-----------------------------------------------------------------------------
(***************************************************************************)
(* Reports                                                                 *)
(***************************************************************************)

\* handleTaskReport copies the slice; without a handler or a connection
\* there is nothing to do.  Cron runs before there is a handler.
BeginReport(r) ==
    /\ ~crashed /\ report[r].at = "idle"
    /\ IF handled /\ len > 0
       THEN /\ ~Locked
            /\ report' = [report EXCEPT ![r] = [NoReport EXCEPT !.at = "next", !.len = len]]
            /\ due' = [due EXCEPT ![r] = Open]
       ELSE /\ report' = [report EXCEPT ![r].at = "done"]
            /\ due' = due
    /\ UNCHANGED <<array, len, conn, prompts, leaving, handled, crashed, sent, disturbed>>

\* The element the report reads now.
Element(r) == IF report[r].old = <<>> THEN array[report[r].index]
              ELSE report[r].old[report[r].index]

\* WriteJSON on nil, or on a connection that is being written to, panics and
\* ends the process.
WriteReport(r) ==
    /\ Up /\ report[r].at = "next" /\ report[r].index <= report[r].len
    /\ LET c == Element(r)
       IN  IF c = None \/ Reported(c) \/ (c # None /\ conn[c] = "writing")
           THEN crashed' = TRUE /\ UNCHANGED <<report, sent>>
           ELSE /\ report' = [report EXCEPT ![r].at = "writing", ![r].target = c]
                /\ sent' = [sent EXCEPT ![r] = Append(@, c)]
                /\ crashed' = FALSE
    /\ UNCHANGED <<array, len, conn, prompts, leaving, handled, due, disturbed>>

\* Faulty: the loop is left when a connection cannot be written to.
ReportWritten_GivesUp(r) ==
    /\ Up /\ report[r].at = "writing"
    /\ \/ report' = [report EXCEPT ![r].at = "next", ![r].target = None, ![r].index = @ + 1]
       \/ report' = [report EXCEPT ![r] = [NoReport EXCEPT !.at = "done"]]
    /\ UNCHANGED <<array, len, conn, prompts, leaving, handled, crashed, sent, due,
                   disturbed>>

\* Done, or failed, which is only logged.
ReportWritten(r) ==
    /\ Up /\ report[r].at = "writing"
    /\ report' = [report EXCEPT ![r].at = "next", ![r].target = None, ![r].index = @ + 1]
    /\ UNCHANGED <<array, len, conn, prompts, leaving, handled, crashed, sent, due,
                   disturbed>>

EndReport(r) ==
    /\ Up /\ report[r].at = "next" /\ report[r].index > report[r].len
    /\ report' = [report EXCEPT ![r] = [NoReport EXCEPT !.at = "done"]]
    /\ UNCHANGED <<array, len, conn, prompts, leaving, handled, crashed, sent, due,
                   disturbed>>

Serve(c) ==
    \/ Register(c) \/ ReadPrompt(c) \/ BeginWrite(c) \/ EndWrite(c) \/ Close(c)
    \/ BeginRemove(c)

Next ==
    \/ SetTaskReportHandler
    \/ \E c \in Conn : Serve(c)
    \/ MoveOne \/ EndRemove
    \/ \E r \in Reports : BeginReport(r) \/ WriteReport(r) \/ ReportWritten(r) \/ EndReport(r)

Spec == Init /\ [][Next]_vars

-----------------------------------------------------------------------------
(***************************************************************************)
(* Properties                                                              *)
(***************************************************************************)

\* A report that has come to its end has reached each connection that was
\* open when it began, once, and no other: unless a connection was removed
\* while it was being sent, which may skip one or write to one twice.
ReportsReachAll ==
    \A r \in Reports : report[r].at = "done" /\ r \notin disturbed =>
        /\ due[r] = {sent[r][i] : i \in DOMAIN sent[r]}
        /\ \A i, j \in DOMAIN sent[r] : sent[r][i] = sent[r][j] => i = j

\* The process is lost only to a connection that closes while a report is
\* sent, or to two writers of one connection.
CrashNeedsARace ==
    crashed => \/ Broadcasting \cap disturbed # {}
               \/ Cardinality(Broadcasting) > 1
               \/ \E c \in Conn : conn[c] = "writing"

=============================================================================
