--------------------------- MODULE GatewayChannels --------------------------
(***************************************************************************)
(* The gateway's configuration, its channels and the loop that polls them  *)
(* (src/internal/gateway/gateway.go, src/internal/engine/loop.go and       *)
(* src/internal/channels).                                                 *)
(*                                                                         *)
(* UpdateConfig works without a lock: another update, the loop, and the    *)
(* messages that come in meet it between any two of its steps.  A client   *)
(* is one Whatsapp or IRC value with its connection.  Of whatsmeow and     *)
(* girc only this is used: Connect makes a client connected, or fails;     *)
(* Disconnect and Close end that, and so may the network, after which a    *)
(* WhatsApp client connects again by itself.                               *)
(***************************************************************************)
EXTENDS Naturals, FiniteSets

CONSTANTS
    Configs,     \* configurations: the channels enabled, the senders admitted
    Sender,
    Updates,     \* calls of POST /api/admin/v1/config
    MaxClients,  \* bound on the clients that are ever made
    Truncated,   \* a config.yaml that a failed save has left incomplete
    None

Channel == {"whatsapp", "irc"}
Client == 1 .. MaxClients

ASSUME ConfigAssumption ==
    /\ Configs \subseteq [enabled : SUBSET Channel, admits : SUBSET Sender]
    /\ Truncated \notin Configs
ASSUME ClientAssumption == MaxClients \in Nat \ {0, 1} /\ None \notin Client

VARIABLES
    file,       \* config.yaml
    config,     \* gw.Config
    engine,     \* the configuration the primary agent's engine was made with,
                \* or None if it never had one
    channels,   \* gw.Channels
    made,       \* the number of clients made
    client,     \* client[c]: see below
    polled,     \* the clients the loop has a function of
    device,     \* the WhatsApp store holds a paired device
    update,     \* update[u]: where a call stands, and its configuration
    \* History, not part of the program:
    contended,  \* two updates have overlapped
    failed,     \* what New or the last update could not make, or save since
    late,       \* clients connecting when, or enrolled after, they were stopped
    strangers   \* clients that let in whom the configuration does not admit

vars == <<file, config, engine, channels, made, client, polled, device, update,
          contended, failed, late, strangers>>

ClientState == [name : Channel \cup {None},
                admits : SUBSET Sender, \* its copy: allowlist less blocklist
                handler : BOOLEAN,      \* SetMessageHandler was called
                paired : BOOLEAN,       \* may connect without enrolling
                connecting : BOOLEAN,   \* a goroutine is going to connect it
                up : BOOLEAN]

\* The steps of handleUpdateConfig and UpdateConfig, each the next to be done.
Stage == {"idle", "config", "engine", "stop", "clear", "whatsapp",
          "whatsapp handler", "irc", "irc handler", "done"}

TypeOK ==
    /\ file \in Configs \cup {Truncated} /\ config \in Configs
    /\ engine \in Configs \cup {None}
    /\ channels \in [Channel -> Client \cup {None}]
    /\ made \in 0 .. MaxClients
    /\ client \in [Client -> ClientState]
    /\ polled \subseteq Client /\ device \in BOOLEAN
    /\ update \in [Updates -> [at : Stage, new : Configs]]
    /\ contended \in BOOLEAN
    /\ failed \subseteq Channel \cup {"engine", "file"}
    /\ late \subseteq Client /\ strangers \subseteq Client

Unmade == [name |-> None, admits |-> {}, handler |-> FALSE, paired |-> FALSE,
           connecting |-> FALSE, up |-> FALSE]

\* NewWhatsapp connects in the background if a device is paired; NewIRC
\* leaves that to the loop.
NewClient(n, cfg, paired) ==
    [Unmade EXCEPT !.name = n, !.admits = cfg.admits,
                   !.paired = paired \/ n = "irc",
                   !.connecting = paired /\ n = "whatsapp"]

\* New: the channels of the configuration, each with its handler and with a
\* function in the loop.  NewAgent may be left without an engine, and
\* NewWhatsapp may not be able to open its store.
Init ==
    /\ config \in Configs /\ file = config
    /\ failed \in SUBSET ({"engine"} \cup ({"whatsapp"} \cap config.enabled))
    /\ engine = IF "engine" \in failed THEN None ELSE config
    /\ device \in BOOLEAN
    /\ LET id == [whatsapp |-> 1, irc |-> 2]
           up == config.enabled \ failed
       IN  /\ channels = [n \in Channel |-> IF n \in up THEN id[n] ELSE None]
           /\ client = [c \in Client |->
                IF \E n \in up : id[n] = c
                THEN [NewClient(CHOOSE n \in up : id[n] = c, config, device)
                        EXCEPT !.handler = TRUE]
                ELSE Unmade]
           /\ polled = {id[n] : n \in up}
    /\ made = 2
    /\ update = [u \in Updates |-> [at |-> "idle", new |-> config]]
    /\ contended = FALSE /\ late = {} /\ strangers = {}

InProgress == {u \in Updates : update[u].at \notin {"idle", "done"}}
Owned == {channels[n] : n \in Channel} \ {None}
Goto(u, stage) == update' = [update EXCEPT ![u].at = stage]

-----------------------------------------------------------------------------
(***************************************************************************)
(* An update of the configuration                                          *)
(***************************************************************************)

\* handleUpdateConfig saves the file before the gateway is told.
SaveConfig(u, cfg) ==
    /\ update[u].at = "idle"
    /\ update' = [update EXCEPT ![u] = [at |-> "config", new |-> cfg]]
    /\ file' = cfg
    /\ contended' = (contended \/ InProgress # {})
    /\ failed' = {}
    /\ UNCHANGED <<config, engine, channels, made, client, polled, device, late,
                   strangers>>

\* config.Save fails before the file was truncated, after that, or with all of
\* it written (Sync): the request is refused and the gateway is not told.
SaveConfigFails(u, cfg) ==
    /\ update[u].at = "idle" /\ Goto(u, "done")
    /\ file' \in {file, Truncated, cfg}
    /\ contended' = (contended \/ InProgress # {})
    /\ failed' = failed \cup {"file"}
    /\ UNCHANGED <<config, engine, channels, made, client, polled, device, late,
                   strangers>>

SetConfig(u) ==
    /\ update[u].at = "config" /\ Goto(u, "engine")
    /\ config' = update[u].new
    /\ UNCHANGED <<file, engine, channels, made, client, polled, device, contended,
                   failed, late, strangers>>

\* InitEngine keeps the old engine if the new one cannot be made.
InitEngine(u) ==
    /\ update[u].at = "engine" /\ Goto(u, "stop")
    /\ \/ engine' = config /\ failed' = failed
       \/ engine' = engine /\ failed' = failed \cup {"engine"}
    /\ UNCHANGED <<file, config, channels, made, client, polled, device, contended,
                   late, strangers>>

\* Faulty: the channels that are no longer enabled are the only ones stopped.
StopChannels_Removed(u) ==
    /\ update[u].at = "stop" /\ Goto(u, "clear")
    /\ client' = [c \in Client |->
                    IF c \in Owned /\ client[c].name \notin config.enabled
                    THEN [client[c] EXCEPT !.up = FALSE] ELSE client[c]]
    /\ late' = late \cup {c \in Owned : client[c].connecting}
    /\ UNCHANGED <<file, config, engine, channels, made, polled, device, contended,
                   failed, strangers>>

\* Stop ends a connection, but not a goroutine that is about to connect, nor
\* a function in the loop.
StopChannels(u) ==
    /\ update[u].at = "stop" /\ Goto(u, "clear")
    /\ client' = [c \in Client |->
                    IF c \in Owned THEN [client[c] EXCEPT !.up = FALSE] ELSE client[c]]
    /\ late' = late \cup {c \in Owned : client[c].connecting}
    /\ UNCHANGED <<file, config, engine, channels, made, polled, device, contended,
                   failed, strangers>>

ClearChannels(u) ==
    /\ update[u].at = "clear" /\ Goto(u, "whatsapp")
    /\ channels' = [n \in Channel |-> None]
    /\ UNCHANGED <<file, config, engine, made, client, polled, device, contended,
                   failed, late, strangers>>

\* The stages of a channel: a client is made and put in the map, and then
\* given its handler.  It is not registered with the loop.
HandlerStage(n) == IF n = "whatsapp" THEN "whatsapp handler" ELSE "irc handler"
AfterStage(n) == IF n = "whatsapp" THEN "irc" ELSE "done"

MakeChannel(u, n) ==
    /\ update[u].at = n /\ n \in update[u].new.enabled
    /\ made < MaxClients                            \* bound
    /\ made' = made + 1
    /\ client' = [client EXCEPT ![made'] = NewClient(n, update[u].new, device)]
    /\ channels' = [channels EXCEPT ![n] = made']
    /\ Goto(u, HandlerStage(n))
    /\ UNCHANGED <<file, config, engine, polled, device, contended, failed, late,
                   strangers>>

\* Not enabled, or NewWhatsapp cannot open its store.
SkipChannel(u, n) ==
    /\ update[u].at = n /\ (n \in update[u].new.enabled => n = "whatsapp")
    /\ failed' = failed \cup ({n} \cap update[u].new.enabled)
    /\ Goto(u, AfterStage(n))
    /\ UNCHANGED <<file, config, engine, channels, made, client, polled, device,
                   contended, late, strangers>>

\* Faulty: the client is in the map, that is left at that.
SetHandler_Forgotten(u, n) ==
    /\ update[u].at = HandlerStage(n) /\ Goto(u, AfterStage(n))
    /\ UNCHANGED <<file, config, engine, channels, made, client, polled, device,
                   contended, failed, late, strangers>>

SetHandler(u, n) ==
    /\ update[u].at = HandlerStage(n) /\ Goto(u, AfterStage(n))
    /\ client' = [c \in Client |-> IF c = channels[n]
                                   THEN [client[c] EXCEPT !.handler = TRUE]
                                   ELSE client[c]]
    /\ UNCHANGED <<file, config, engine, channels, made, polled, device, contended,
                   failed, late, strangers>>

UpdateConfig(u) ==
    \/ \E cfg \in Configs : SaveConfig(u, cfg) \/ SaveConfigFails(u, cfg)
    \/ SetConfig(u) \/ InitEngine(u) \/ StopChannels(u) \/ ClearChannels(u)
    \/ \E n \in Channel : MakeChannel(u, n) \/ SkipChannel(u, n) \/ SetHandler(u, n)

-----------------------------------------------------------------------------
(***************************************************************************)
(* The clients and the loop                                                *)
(***************************************************************************)

\* The loop's tick starts a function of each channel New has made: Poll
\* reconnects a paired WhatsApp client that is not connected, Run connects
\* the IRC client.
Poll(c) ==
    /\ c \in polled /\ client[c].paired /\ ~client[c].up /\ ~client[c].connecting
    /\ client' = [client EXCEPT ![c].connecting = TRUE]
    /\ UNCHANGED <<file, config, engine, channels, made, polled, device, update,
                   contended, failed, late, strangers>>

\* The goroutine connects, or logs an error.  Enrolling pairs the device if
\* the code is scanned.
Connect(c) ==
    /\ client[c].connecting
    /\ \E up \in BOOLEAN : \E scanned \in {client[c].paired, up} :
         /\ client' = [client EXCEPT ![c].connecting = FALSE, ![c].up = up,
                                     ![c].paired = @ \/ scanned]
         /\ device' = (device \/ (scanned /\ client[c].name = "whatsapp"))
    /\ UNCHANGED <<file, config, engine, channels, made, polled, update, contended,
                   failed, late, strangers>>

\* The connection is lost; EnableAutoReconnect has the WhatsApp client of a
\* paired device connect again by itself.
Disconnected(c) ==
    /\ client[c].up
    /\ client' = [client EXCEPT ![c].up = FALSE,
                  ![c].connecting = @ \/ (client[c].name = "whatsapp" /\ client[c].paired)]
    /\ UNCHANGED <<file, config, engine, channels, made, polled, device, update,
                   contended, failed, late, strangers>>

\* Enroll logs a WhatsApp device out and starts over; for IRC it connects.
Enroll(n) ==
    LET c == channels[n]
    IN  /\ c # None /\ ~client[c].connecting
        /\ client' = [client EXCEPT ![c].connecting = TRUE,
                                    ![c].up = @ /\ n = "irc",
                                    ![c].paired = (n = "irc")]
        /\ device' = (device /\ n = "irc")
        /\ late' = IF InProgress # {} THEN late \cup {c} ELSE late
        /\ UNCHANGED <<file, config, engine, channels, made, polled, update,
                       contended, failed, strangers>>

\* A message comes in.  The client goes by its own copy of the lists; without
\* a handler an admitted message is dropped.
Receive(c, s) ==
    /\ client[c].up /\ s \in client[c].admits /\ client[c].handler
    /\ strangers' = IF s \notin config.admits /\ InProgress = {}
                    THEN strangers \cup {c} ELSE strangers
    /\ UNCHANGED <<file, config, engine, channels, made, client, polled, device,
                   update, contended, failed, late>>

Next ==
    \/ \E u \in Updates : UpdateConfig(u)
    \/ \E c \in Client : Poll(c) \/ Connect(c) \/ Disconnected(c)
    \/ \E n \in Channel : Enroll(n)
    \/ \E c \in Client, s \in Sender : Receive(c, s)

Spec == Init /\ [][Next]_vars

-----------------------------------------------------------------------------
(***************************************************************************)
(* Properties                                                              *)
(***************************************************************************)

\* When no update is under way, and none has met another, the file, the
\* gateway and the engine go by one configuration, and the map has exactly
\* its channels, each with its lists and with a handler: what could not be
\* made is missing, and nothing else is.  Only a save that failed since the
\* last update sets the file apart from the gateway.
ChannelsMatchConfig ==
    InProgress = {} /\ ~contended =>
        /\ file = config \/ "file" \in failed
        /\ engine = config \/ "engine" \in failed
        /\ \A n \in Channel :
             /\ channels[n] # None <=> n \in config.enabled \ failed
             /\ channels[n] # None =>
                  /\ client[channels[n]].name = n
                  /\ client[channels[n]].admits = config.admits
                  /\ client[channels[n]].handler

\* Somebody the configuration does not admit is heard only through a client
\* that an update has stopped and that came up again: by the loop, which
\* still has its function, or because it was about to connect or was enrolled
\* while the update was under way.
StrangersComeByOldClients ==
    ~contended => strangers \subseteq (polled \cup late) \ Owned

=============================================================================
