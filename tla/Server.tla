------------------------------- MODULE Server -------------------------------
(***************************************************************************)
(* The server as a whole: the gateway's channels (GatewayChannels), the    *)
(* websockets (WebsocketReports), the PID file of the processes            *)
(* (ServerProcess) and the questions to a human (HumanRequests).  They     *)
(* share no variable of the code (each has a mutex, a file or a directory  *)
(* of its own), so that the steps of one leave the others as they are, and *)
(* they come in any order.                                                 *)
(***************************************************************************)
EXTENDS GatewayChannels

CONSTANTS
    Conn, Reports, MaxPrompts,
    Pid, Absent, Empty, Garbled,
    Requests, Calls, Lists, Missing, Torn, Pending

ASSUME WebsocketAssumption ==
    None \notin Conn /\ IsFiniteSet(Reports) /\ MaxPrompts \in Nat
ASSUME FileAssumption == {Absent, Empty, Garbled} \cap Pid = {} /\ Empty # Absent
ASSUME QuestionAssumption ==
    /\ {Missing, Torn, Pending} \cap Calls = {}
    /\ Pending # Missing /\ Pending # Torn /\ Missing # Torn

VARIABLES
    array, len, conn, prompts, leaving, report, handled, crashed, sent, due,
    disturbed,
    pidFile, holders, proc, signalled, reused, crossed,
    question, call, list, gone, raced, lossy

Websockets == INSTANCE WebsocketReports
Process == INSTANCE ServerProcess
Human == INSTANCE HumanRequests

channelVars == vars
websocketVars == <<array, len, conn, prompts, leaving, report, handled, crashed,
                   sent, due, disturbed>>
processVars == <<pidFile, holders, proc, signalled, reused, crossed>>
humanVars == <<question, call, list, gone, raced, lossy>>

ServerInit == Init /\ Websockets!Init /\ Process!Init /\ Human!Init

ServerNext ==
    \/ Next /\ UNCHANGED <<websocketVars, processVars, humanVars>>
    \/ Websockets!Next /\ UNCHANGED <<channelVars, processVars, humanVars>>
    \/ Process!Next /\ UNCHANGED <<channelVars, websocketVars, humanVars>>
    \/ Human!Next /\ UNCHANGED <<channelVars, websocketVars, processVars>>

ServerSpec ==
    ServerInit /\ [][ServerNext]_<<channelVars, websocketVars, processVars, humanVars>>

ReportsReachAll == Websockets!ReportsReachAll
CrashNeedsARace == Websockets!CrashNeedsARace
FileNamesTheServer == Process!FileNamesTheServer
AcceptedAnswerStands == Human!AcceptedAnswerStands

=============================================================================
