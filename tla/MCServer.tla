------------------------------ MODULE MCServer ------------------------------
(***************************************************************************)
(* Model checking of Server.  Each property is about one of its parts, and *)
(* no step of a part reads what another part writes, so that a behaviour   *)
(* of the whole shows of a part what a behaviour of that part alone does:  *)
(* it is enough to run them one at a time, the part chosen at the start.   *)
(***************************************************************************)
EXTENDS Server, TLC

VARIABLE part

\* One admits a sender and has only WhatsApp; the other admits nobody, and
\* has IRC as well.
CONSTANT bob
MCSender == {bob}
MCConfigs == {[enabled |-> {"whatsapp"}, admits |-> {bob}],
              [enabled |-> {"whatsapp", "irc"}, admits |-> {}]}

\* The properties of the channels speak of updates that have not met, and
\* updates that have met never come apart again: such states are not gone on
\* from.  Of the websockets it takes three connections or two reports.
Bounds ==
    /\ ~contended
    /\ \/ Cardinality({c \in Conn : conn[c] # "new"}) <= 2
       \/ Cardinality({r \in Reports : report[r].at # "idle"}) <= 1

PartsInit ==
    /\ part \in {"channels", "websockets", "process", "human"}
    /\ ServerInit
    /\ part # "channels" => /\ config = CHOOSE cfg \in Configs : TRUE
                            /\ device = FALSE /\ failed = {}
    /\ part # "human" => \A c \in Calls : call[c].id = CHOOSE r \in Requests : TRUE

PartsNext ==
    /\ UNCHANGED part
    /\ \/ part = "channels" /\ Next
          /\ UNCHANGED <<websocketVars, processVars, humanVars>>
       \/ part = "websockets" /\ Websockets!Next
          /\ UNCHANGED <<channelVars, processVars, humanVars>>
       \/ part = "process" /\ Process!Next
          /\ UNCHANGED <<channelVars, websocketVars, humanVars>>
       \/ part = "human" /\ Human!Next
          /\ UNCHANGED <<channelVars, websocketVars, processVars>>

PartsSpec ==
    /\ PartsInit
    /\ [][PartsNext]_<<part, channelVars, websocketVars, processVars, humanVars>>

=============================================================================
