---------------------------- MODULE ServerProofs ----------------------------
(***************************************************************************)
(* Proofs about Server, for all configurations, senders, connections,      *)
(* reports, processes and questions: the safety properties of its four     *)
(* parts, each from an inductive invariant of its own, and that the whole  *)
(* keeps them all.                                                         *)
(***************************************************************************)
EXTENDS Server, Sequences, FiniteSetTheorems, TLAPS

-----------------------------------------------------------------------------
(***************************************************************************)
(* The channels: the inductive invariant                                   *)
(***************************************************************************)

\* Channel n is what configuration cfg asks for, but perhaps for its handler.
Fits(n, cfg) ==
    client[channels[n]].name = n /\ client[channels[n]].admits = cfg.admits

Settled(n, cfg) ==
    /\ channels[n] # None <=> n \in cfg.enabled \ failed
    /\ channels[n] # None => Fits(n, cfg) /\ client[channels[n]].handler

\* What an update that nobody meets has achieved at each stage.
Progress(u) ==
    /\ file = update[u].new
    /\ update[u].at # "config" => config = update[u].new
    /\ update[u].at \notin {"config", "engine"} => engine = config \/ "engine" \in failed
    /\ update[u].at \notin {"irc", "irc handler"} => "whatsapp" \notin failed
    /\ update[u].at = "whatsapp" => channels["whatsapp"] = None
    /\ update[u].at \in {"whatsapp", "whatsapp handler", "irc"} => channels["irc"] = None
    /\ update[u].at \in {"irc", "irc handler"} => Settled("whatsapp", update[u].new)
    /\ \A n \in Channel : update[u].at = HandlerStage(n) =>
         n \in update[u].new.enabled /\ channels[n] # None /\ Fits(n, update[u].new)

\* Clients are made in order, and have no life before; an IRC client can
\* always be made.
MadeInOrder ==
    /\ \A n \in Channel : channels[n] # None => channels[n] <= made
    /\ \A c \in strangers \cup polled : c <= made
    /\ \A c \in Client : client[c].up \/ client[c].connecting => c <= made
    /\ "irc" \notin failed

\* An update that was never met is the only one.
OneByOne ==
    ~contended =>
        /\ \A u, v \in InProgress : u = v
        /\ \A u \in InProgress : Progress(u)

\* A client that is no longer owned, or about not to be, lives on only if the
\* loop knows it, or if it was about to connect when it was stopped.
OldClientsAreKnown ==
    ~contended =>
        \A c \in Client :
            /\ client[c].up \/ client[c].connecting
            /\ c \notin Owned \/ \E u \in Updates : update[u].at = "clear"
            => c \in polled \cup late

ChannelsInv ==
    /\ TypeOK
    /\ MadeInOrder
    /\ OneByOne
    /\ ChannelsMatchConfig
    /\ OldClientsAreKnown
    /\ StrangersComeByOldClients

\* A new client has its lists, and is neither connected nor handled yet.
LEMMA NewClients ==
  ASSUME NEW n \in Channel, NEW cfg \in Configs, NEW p \in BOOLEAN
  PROVE  /\ NewClient(n, cfg, p) \in ClientState
         /\ [NewClient(n, cfg, p) EXCEPT !.handler = TRUE] \in ClientState
         /\ NewClient(n, cfg, p).name = n /\ NewClient(n, cfg, p).admits = cfg.admits
<1>1. cfg.admits \subseteq Sender
  BY ConfigAssumption
<1> DEFINE paired == p \/ n = "irc"
           connecting == p /\ n = "whatsapp"
<1>2. paired \in BOOLEAN /\ connecting \in BOOLEAN
  OBVIOUS
<1>3. NewClient(n, cfg, p) = [Unmade EXCEPT !.name = n, !.admits = cfg.admits,
                               !.paired = paired, !.connecting = connecting]
  BY DEF NewClient
<1> HIDE DEF paired, connecting
<1> QED BY <1>1, <1>2, <1>3 DEF Unmade, ClientState

\* The gateway starts with the channels of its configuration.
LEMMA ChannelsInit == Init => ChannelsInv
<1> SUFFICES ASSUME Init PROVE ChannelsInv
  OBVIOUS
<1> DEFINE id == [whatsapp |-> 1, irc |-> 2]
           up == config.enabled \ failed
<1>1. /\ channels = [n \in Channel |-> IF n \in up THEN id[n] ELSE None]
      /\ client = [c \in Client |->
                IF \E n \in up : id[n] = c
                THEN [NewClient(CHOOSE n \in up : id[n] = c, config, device)
                        EXCEPT !.handler = TRUE]
                ELSE Unmade]
      /\ polled = {id[n] : n \in up}
  BY DEF Init
<1>2. /\ config \in Configs /\ up \subseteq Channel
      /\ config.admits \subseteq Sender /\ device \in BOOLEAN
      /\ file = config /\ engine \in Configs \cup {None}
      /\ engine = config \/ "engine" \in failed
      /\ failed \subseteq {"engine", "whatsapp"} /\ "irc" \notin failed
      /\ up = config.enabled \ failed /\ made = 2 /\ late = {}
      /\ strangers = {} /\ contended = FALSE
      /\ update = [u \in Updates |-> [at |-> "idle", new |-> config]]
  BY ConfigAssumption DEF Init
<1>3. /\ 1 \in Client /\ 2 \in Client /\ 2 <= MaxClients /\ MaxClients \in Nat
      /\ None # 1 /\ None # 2 /\ id["whatsapp"] = 1 /\ id["irc"] = 2
  BY ClientAssumption DEF Client
<1>4. \A n \in up : n = "whatsapp" \/ n = "irc"
  BY <1>2 DEF Channel
<1> HIDE DEF id, up
<1>5. \A c \in Client : (\E n \in up : id[n] = c) => c <= 2
  BY <1>3, <1>4
<1>6. ASSUME NEW n \in up
      PROVE  client[id[n]] = [NewClient(n, config, device) EXCEPT !.handler = TRUE]
  <2>1. \A m \in up : id[m] = id[n] => m = n
    BY <1>3, <1>4
  <2>2. (CHOOSE m \in up : id[m] = id[n]) = n
    BY <2>1
  <2>3. id[n] \in Client
    BY <1>3, <1>4
  <2> QED BY <1>1, <2>2, <2>3
<1>7. ASSUME NEW n \in up
      PROVE  /\ NewClient(n, config, device) \in ClientState
             /\ client[id[n]].name = n /\ client[id[n]].admits = config.admits
             /\ client[id[n]].handler /\ client[id[n]] \in ClientState
  <2>1. n \in Channel
    BY <1>2
  <2>2. NewClient(n, config, device) \in ClientState
        /\ NewClient(n, config, device).name = n
        /\ NewClient(n, config, device).admits = config.admits
    BY <1>2, <2>1, NewClients
  <2> QED BY <1>6, <2>2 DEF ClientState
<1>8. client \in [Client -> ClientState]
  <2> SUFFICES ASSUME NEW c \in Client PROVE client[c] \in ClientState
    BY <1>1
  <2>1. CASE \E n \in up : id[n] = c
    BY <2>1, <1>7
  <2>2. CASE ~ \E n \in up : id[n] = c
    BY <2>2, <1>1 DEF Unmade, ClientState
  <2> QED BY <2>1, <2>2
<1>9. InProgress = {}
  BY <1>2 DEF InProgress
<1>10. channels \in [Channel -> Client \cup {None}] /\ polled \subseteq Client
  BY <1>1, <1>3, <1>4 DEF Channel
<1>11. TypeOK
  <2>1. \A u \in Updates : update[u] \in [at : Stage, new : Configs]
    BY <1>2 DEF Stage
  <2>2. update \in [Updates -> [at : Stage, new : Configs]]
    BY <1>2, <2>1
  <2>3. contended \in BOOLEAN
    BY <1>2, Zenon
  <2>4. made \in 0 .. MaxClients
    BY <1>2, <1>3
  <2>5. failed \subseteq Channel \cup {"engine", "file"}
    BY <1>2 DEF Channel
  <2> QED BY <1>2, <1>3, <1>8, <1>10, <2>2, <2>3, <2>4, <2>5 DEF TypeOK
<1>12. MadeInOrder
  <2>1. \A c \in Client : client[c].up \/ client[c].connecting =>
           \E n \in up : id[n] = c
    BY <1>1 DEF Unmade
  <2>2. \A n \in Channel : channels[n] # None => channels[n] <= made
    BY <1>1, <1>2, <1>3 DEF Channel
  <2>3. \A c \in polled : c <= made
    BY <1>1, <1>2, <1>3, <1>4
  <2> QED BY <1>2, <1>5, <2>1, <2>2, <2>3 DEF MadeInOrder
<1>13. ChannelsMatchConfig
  <2>1. \A n \in Channel : channels[n] # None <=> n \in up
    BY <1>1, <1>3 DEF Channel
  <2>2. \A n \in up : channels[n] = id[n]
    BY <1>1, <1>2
  <2> QED BY <1>2, <1>7, <2>1, <2>2 DEF ChannelsMatchConfig
<1>14. OldClientsAreKnown
  <2> SUFFICES ASSUME NEW c \in Client, client[c].up \/ client[c].connecting
               PROVE  c \in polled
    BY DEF OldClientsAreKnown
  <2> QED BY <1>1 DEF Unmade
<1> QED BY <1>2, <1>9, <1>11, <1>12, <1>13, <1>14
        DEF ChannelsInv, OneByOne, StrangersComeByOldClients

-----------------------------------------------------------------------------
(***************************************************************************)
(* The channels: the clients                                               *)
(***************************************************************************)

\* A step that changes only connections keeps the invariant, if the clients
\* it brings to life are owned, known to the loop or remembered as late.
LEMMA ConnectionStep ==
  ASSUME ChannelsInv, TypeOK',
         UNCHANGED <<file, config, engine, channels, made, polled, update,
                     contended, failed>>,
         \A c \in Client : /\ client'[c].name = client[c].name
                           /\ client'[c].admits = client[c].admits
                           /\ client'[c].handler = client[c].handler,
         \A c \in Client : client'[c].up \/ client'[c].connecting =>
             \/ client[c].up \/ client[c].connecting
             \/ c \in polled
             \/ c \in Owned /\ (InProgress # {} => c \in late'),
         late \subseteq late',
         strangers' \subseteq strangers \cup {c \in Client : client[c].up},
         strangers' \subseteq strangers \/
             (InProgress = {} /\ \A c \in strangers' \ strangers :
                                    ~ (client[c].admits \subseteq config.admits))
  PROVE  ChannelsInv'
<1>1. UNCHANGED <<InProgress, Owned>>
  BY DEF InProgress, Owned
<1>2. \A n \in Channel : channels[n] # None => channels[n] \in Client
  BY DEF ChannelsInv, TypeOK
<1>3. MadeInOrder'
  <2>1. \A c \in Owned : c <= made
    BY DEF ChannelsInv, MadeInOrder, Owned
  <2> QED BY <2>1 DEF ChannelsInv, MadeInOrder
<1>4. \A n \in Channel : channels[n] # None =>
        /\ (client[channels[n]].name)' = client[channels[n]].name
        /\ (client[channels[n]].admits)' = client[channels[n]].admits
        /\ (client[channels[n]].handler)' = client[channels[n]].handler
  BY <1>2
<1>5. OneByOne'
  <2> SUFFICES ASSUME ~ contended, NEW u \in InProgress PROVE Progress(u)'
    BY <1>1 DEF ChannelsInv, OneByOne
  <2>1. Progress(u)
    BY DEF ChannelsInv, OneByOne
  <2>2. "whatsapp" \in Channel
    BY DEF Channel
  <2>3. /\ update[u]' = update[u] /\ file' = file /\ config' = config
        /\ engine' = engine /\ failed' = failed /\ channels' = channels
    OBVIOUS
  <2>4. \A cfg : \A n \in Channel : channels[n] # None => (Fits(n, cfg)' <=> Fits(n, cfg))
    BY <1>4 DEF Fits
  <2>5. \A cfg : \A n \in Channel : Settled(n, cfg) => Settled(n, cfg)'
    BY <1>4, <2>4 DEF Settled
  <2>6. \A n \in Channel :
          update[u].at = HandlerStage(n) =>
            n \in update[u].new.enabled /\ channels[n] # None /\ Fits(n, update[u].new)'
    BY <2>1, <2>4 DEF Progress
  <2>7. update[u].at \in {"irc", "irc handler"} => Settled("whatsapp", update[u].new)'
    BY <2>1, <2>2, <2>5 DEF Progress
  <2> QED BY <2>1, <2>3, <2>6, <2>7 DEF Progress
<1>6. ChannelsMatchConfig'
  BY <1>1, <1>4 DEF ChannelsInv, ChannelsMatchConfig
<1>7. OldClientsAreKnown'
  BY <1>1 DEF ChannelsInv, OldClientsAreKnown, InProgress
<1>8. StrangersComeByOldClients'
  <2> SUFFICES ASSUME ~ contended, NEW c \in strangers'
               PROVE  c \in (polled \cup late') \ Owned
    BY <1>1 DEF StrangersComeByOldClients
  <2>1. CASE c \in strangers
    BY <2>1 DEF ChannelsInv, StrangersComeByOldClients
  <2>2. CASE c \notin strangers
    <3>1. InProgress = {} /\ client[c].up /\ c \in Client
          /\ ~ (client[c].admits \subseteq config.admits)
      BY <2>2
    <3>2. c \notin Owned
      BY <3>1 DEF ChannelsInv, ChannelsMatchConfig, Owned
    <3> QED BY <3>1, <3>2 DEF ChannelsInv, OldClientsAreKnown
  <2> QED BY <2>1, <2>2
<1> QED BY <1>3, <1>5, <1>6, <1>7, <1>8 DEF ChannelsInv

\* The polls of the loop, the connections and the messages that come in.
LEMMA ClientStep ==
  ASSUME ChannelsInv,
         \/ \E c \in Client : Poll(c) \/ Connect(c) \/ Disconnected(c)
         \/ \E n \in Channel : Enroll(n)
         \/ \E c \in Client, s \in Sender : Receive(c, s)
  PROVE  ChannelsInv'
<1>1. ASSUME NEW c \in Client, Poll(c) PROVE ChannelsInv'
  <2>1. client' = [client EXCEPT ![c].connecting = TRUE] /\ c \in polled
    BY <1>1 DEF Poll
  <2>2. client' \in [Client -> ClientState]
    BY <2>1 DEF ChannelsInv, TypeOK, ClientState
  <2>3. TypeOK'
    BY <1>1, <2>2 DEF ChannelsInv, TypeOK, Poll
  <2>4. \A d \in Client : /\ client'[d].name = client[d].name
                          /\ client'[d].admits = client[d].admits
                          /\ client'[d].handler = client[d].handler
                          /\ d # c => client'[d] = client[d]
    BY <2>1 DEF ChannelsInv, TypeOK, ClientState
  <2> QED BY <1>1, <2>1, <2>3, <2>4, ConnectionStep DEF Poll
<1>2. ASSUME NEW c \in Client, Connect(c) PROVE ChannelsInv'
  <2>1. PICK up \in BOOLEAN : \E scanned \in {client[c].paired, up} :
          /\ client' = [client EXCEPT ![c].connecting = FALSE, ![c].up = up,
                                      ![c].paired = @ \/ scanned]
          /\ device' = (device \/ (scanned /\ client[c].name = "whatsapp"))
    BY <1>2 DEF Connect
  <2>2. PICK scanned \in {client[c].paired, up} :
          /\ client' = [client EXCEPT ![c].connecting = FALSE, ![c].up = up,
                                      ![c].paired = @ \/ scanned]
          /\ device' = (device \/ (scanned /\ client[c].name = "whatsapp"))
    BY <2>1
  <2> DEFINE paired == client[c].paired \/ scanned
  <2>3. client' = [client EXCEPT ![c].connecting = FALSE, ![c].up = up,
                                 ![c].paired = paired]
        /\ paired \in BOOLEAN
    BY <2>2
  <2>4. device' \in BOOLEAN
    BY <2>2
  <2> HIDE DEF paired
  <2>5. client' \in [Client -> ClientState]
    <3> DEFINE new == [client[c] EXCEPT !.connecting = FALSE, !.up = up, !.paired = paired]
    <3>1. client[c] \in ClientState /\ client \in [Client -> ClientState]
      BY DEF ChannelsInv, TypeOK
    <3>2. new \in ClientState
      BY <2>3, <3>1 DEF ClientState
    <3>3. client' = [client EXCEPT ![c] = new]
      BY <2>3, <3>1
    <3> HIDE DEF new
    <3> QED BY <3>1, <3>2, <3>3
  <2>6. TypeOK'
    BY <1>2, <2>4, <2>5 DEF ChannelsInv, TypeOK, Connect
  <2>7. \A d \in Client : /\ client'[d].name = client[d].name
                          /\ client'[d].admits = client[d].admits
                          /\ client'[d].handler = client[d].handler
                          /\ d # c => client'[d] = client[d]
    BY <2>3 DEF ChannelsInv, TypeOK, ClientState
  <2> QED BY <1>2, <2>6, <2>7, ConnectionStep DEF Connect
<1>3. ASSUME NEW c \in Client, Disconnected(c) PROVE ChannelsInv'
  <2> DEFINE again == client[c].connecting \/ (client[c].name = "whatsapp" /\ client[c].paired)
  <2>1. /\ client' = [client EXCEPT ![c].up = FALSE, ![c].connecting = again]
        /\ again \in BOOLEAN /\ client[c].up
    BY <1>3 DEF Disconnected
  <2> HIDE DEF again
  <2>2. client' \in [Client -> ClientState]
    <3> DEFINE new == [client[c] EXCEPT !.up = FALSE, !.connecting = again]
    <3>1. client[c] \in ClientState /\ client \in [Client -> ClientState]
      BY DEF ChannelsInv, TypeOK
    <3>2. new \in ClientState
      BY <2>1, <3>1 DEF ClientState
    <3>3. client' = [client EXCEPT ![c] = new]
      BY <2>1, <3>1
    <3> HIDE DEF new
    <3> QED BY <3>1, <3>2, <3>3
  <2>3. TypeOK'
    BY <1>3, <2>2 DEF ChannelsInv, TypeOK, Disconnected
  <2>4. \A d \in Client : /\ client'[d].name = client[d].name
                          /\ client'[d].admits = client[d].admits
                          /\ client'[d].handler = client[d].handler
                          /\ d # c => client'[d] = client[d]
    BY <2>1 DEF ChannelsInv, TypeOK, ClientState
  <2> QED BY <1>3, <2>1, <2>3, <2>4, ConnectionStep DEF Disconnected
<1>4. ASSUME NEW n \in Channel, Enroll(n) PROVE ChannelsInv'
  <2> DEFINE c == channels[n]
             irc == n = "irc"
             stays == client[c].up /\ n = "irc"
  <2>1. c # None /\ c \in Client /\ c \in Owned
    BY <1>4 DEF Enroll, ChannelsInv, TypeOK, Owned
  <2>2. client' = [client EXCEPT ![c].connecting = TRUE, ![c].up = stays, ![c].paired = irc]
        /\ irc \in BOOLEAN /\ stays \in BOOLEAN
    BY <1>4 DEF Enroll
  <2>3. device' \in BOOLEAN
    BY <1>4 DEF Enroll
  <2>4. late' = (IF InProgress # {} THEN late \cup {c} ELSE late)
    BY <1>4 DEF Enroll
  <2> HIDE DEF c, irc, stays
  <2>5. client' \in [Client -> ClientState]
    <3> DEFINE new == [client[c] EXCEPT !.connecting = TRUE, !.up = stays, !.paired = irc]
    <3>1. client[c] \in ClientState /\ client \in [Client -> ClientState]
      BY <2>1 DEF ChannelsInv, TypeOK
    <3>2. new \in ClientState
      BY <2>2, <3>1 DEF ClientState
    <3>3. client' = [client EXCEPT ![c] = new]
      BY <2>2, <3>1
    <3> HIDE DEF new
    <3> QED BY <3>1, <3>2, <3>3
  <2>6. TypeOK'
    BY <1>4, <2>1, <2>3, <2>4, <2>5 DEF ChannelsInv, TypeOK, Enroll
  <2>7. \A d \in Client : /\ client'[d].name = client[d].name
                          /\ client'[d].admits = client[d].admits
                          /\ client'[d].handler = client[d].handler
                          /\ d # c => client'[d] = client[d]
    BY <2>1, <2>2 DEF ChannelsInv, TypeOK, ClientState
  <2> QED BY <1>4, <2>1, <2>4, <2>6, <2>7, ConnectionStep DEF Enroll
<1>5. ASSUME NEW c \in Client, NEW s \in Sender, Receive(c, s) PROVE ChannelsInv'
  <2>1. TypeOK'
    BY <1>5 DEF ChannelsInv, TypeOK, Receive
  <2> QED BY <1>5, <2>1, ConnectionStep DEF Receive
<1> QED BY <1>1, <1>2, <1>3, <1>4, <1>5

-----------------------------------------------------------------------------
(***************************************************************************)
(* The channels: the updates                                               *)
(***************************************************************************)

\* An update goes on to its next stage; if nobody meets it, it is the only
\* one under way.
LEMMA ChannelsMove ==
  ASSUME ChannelsInv, NEW u \in Updates, update[u].at \notin {"idle", "done"},
         NEW stage \in Stage \ {"idle"}, Goto(u, stage)
  PROVE  /\ u \in InProgress
         /\ update' \in [Updates -> [at : Stage, new : Configs]]
         /\ update'[u].at = stage /\ update'[u].new = update[u].new
         /\ \A v \in Updates \ {u} : update'[v] = update[v]
         /\ ~ contended =>
              /\ InProgress' = IF stage = "done" THEN {} ELSE {u}
              /\ \A v \in Updates \ {u} : update[v].at \in {"idle", "done"}
<1>1. update \in [Updates -> [at : Stage, new : Configs]]
  BY DEF ChannelsInv, TypeOK
<1>2. /\ update'[u].at = stage /\ update'[u].new = update[u].new
      /\ update' \in [Updates -> [at : Stage, new : Configs]]
      /\ \A v \in Updates \ {u} : update'[v] = update[v]
  BY <1>1 DEF Goto
<1>3. u \in InProgress
  BY DEF InProgress
<1>4. ~ contended => \A v \in Updates \ {u} : update[v].at \in {"idle", "done"}
  BY <1>3 DEF ChannelsInv, OneByOne, InProgress
<1>5. ~ contended => InProgress' = IF stage = "done" THEN {} ELSE {u}
  BY <1>2, <1>4 DEF InProgress
<1> QED BY <1>2, <1>3, <1>4, <1>5

\* What remains to be shown of a stage.
LEMMA StageStep ==
  ASSUME ChannelsInv, NEW u \in Updates, update[u].at \notin {"idle", "done"},
         NEW stage \in Stage \ {"idle"}, Goto(u, stage), contended' = contended,
         TypeOK', MadeInOrder',
         ~ contended /\ Progress(u) => IF stage = "done"
             THEN /\ file' = config' /\ (engine' = config' \/ "engine" \in failed')
                  /\ \A n \in Channel : Settled(n, config)'
             ELSE Progress(u)',
         OldClientsAreKnown', StrangersComeByOldClients'
  PROVE  ChannelsInv'
<1>1. ~ contended => Progress(u)
  BY ChannelsMove DEF ChannelsInv, OneByOne
<1>2. OneByOne'
  <2> SUFFICES ASSUME ~ contended PROVE OneByOne'
    BY DEF OneByOne
  <2>1. InProgress' = IF stage = "done" THEN {} ELSE {u}
    BY ChannelsMove
  <2> QED BY <1>1, <2>1 DEF OneByOne
<1>3. ChannelsMatchConfig'
  <2>1. ASSUME ~ contended', (InProgress = {})' PROVE stage = "done"
    BY <2>1, ChannelsMove
  <2> QED BY <1>1, <2>1 DEF ChannelsMatchConfig, Settled, Fits
<1> QED BY <1>2, <1>3 DEF ChannelsInv

\* The call comes in: the configuration is saved.
LEMMA SaveConfigStep ==
  ASSUME ChannelsInv, NEW u \in Updates, NEW cfg \in Configs, SaveConfig(u, cfg)
  PROVE  ChannelsInv'
<1>1. /\ update' = [update EXCEPT ![u] = [at |-> "config", new |-> cfg]]
      /\ file' = cfg /\ contended' = (contended \/ InProgress # {}) /\ failed' = {}
      /\ UNCHANGED <<config, engine, channels, made, client, polled, device, late, strangers>>
  BY DEF SaveConfig
<1>2. /\ update'[u].at = "config" /\ update'[u].new = cfg
      /\ update' \in [Updates -> [at : Stage, new : Configs]]
      /\ \A v \in Updates \ {u} : update'[v] = update[v]
  BY <1>1 DEF ChannelsInv, TypeOK, Stage
<1>3. ~ contended' => ~ contended /\ InProgress = {} /\ InProgress' = {u}
  <2>1. ~ contended' => ~ contended /\ InProgress = {}
    BY <1>1
  <2> QED BY <2>1, <1>2 DEF InProgress
<1>4. TypeOK'
  <2>1. contended' \in BOOLEAN
    BY <1>1
  <2> QED BY <1>1, <1>2, <2>1 DEF ChannelsInv, TypeOK
<1>5. MadeInOrder'
  BY <1>1 DEF ChannelsInv, MadeInOrder
<1>6. OneByOne'
  <2>1. Progress(u)'
    BY <1>1, <1>2 DEF Progress, HandlerStage, Channel
  <2> QED BY <1>3, <2>1 DEF OneByOne
<1>7. ChannelsMatchConfig'
  BY <1>3 DEF ChannelsMatchConfig
<1>8. OldClientsAreKnown'
  <2>1. ~ contended' => \A v \in Updates : update'[v].at # "clear"
    BY <1>2, <1>3 DEF InProgress
  <2> QED BY <1>1, <1>3, <2>1 DEF ChannelsInv, OldClientsAreKnown, Owned
<1>9. StrangersComeByOldClients'
  BY <1>1, <1>3 DEF ChannelsInv, StrangersComeByOldClients, Owned
<1> QED BY <1>4, <1>5, <1>6, <1>7, <1>8, <1>9 DEF ChannelsInv

\* The configuration cannot be saved: nothing but the file may change.
LEMMA SaveFailsStep ==
  ASSUME ChannelsInv, NEW u \in Updates, NEW cfg \in Configs,
         SaveConfigFails(u, cfg)
  PROVE  ChannelsInv'
<1>1. /\ update[u].at = "idle" /\ Goto(u, "done")
      /\ file' \in {file, Truncated, cfg} /\ contended' = (contended \/ InProgress # {})
      /\ failed' = failed \cup {"file"}
      /\ UNCHANGED <<config, engine, channels, made, client, polled, device, late, strangers>>
  BY DEF SaveConfigFails
<1>2. /\ update'[u].at = "done"
      /\ update' \in [Updates -> [at : Stage, new : Configs]]
      /\ \A v \in Updates \ {u} : update'[v] = update[v]
  BY <1>1 DEF ChannelsInv, TypeOK, Stage, Goto
<1>3. InProgress' = InProgress
  BY <1>1, <1>2 DEF InProgress
<1>4. ~ contended' => ~ contended /\ InProgress = {}
  BY <1>1
<1>5. TypeOK'
  <2>1. contended' \in BOOLEAN
    BY <1>1
  <2> QED BY <1>1, <1>2, <2>1 DEF ChannelsInv, TypeOK
<1>6. MadeInOrder'
  BY <1>1 DEF ChannelsInv, MadeInOrder
<1>7. OneByOne'
  BY <1>3, <1>4 DEF OneByOne
<1>8. ChannelsMatchConfig'
  <2> SUFFICES ASSUME ~ contended, InProgress = {}
               PROVE  ChannelsMatchConfig'
    BY <1>4, <1>3 DEF ChannelsMatchConfig
  <2>1. \A n \in Channel : n \in config.enabled \ failed' <=> n \in config.enabled \ failed
    BY <1>1 DEF Channel
  <2>2. file' = config \/ "file" \in failed'
    BY <1>1 DEF ChannelsInv, ChannelsMatchConfig
  <2> QED BY <1>1, <2>1, <2>2 DEF ChannelsInv, ChannelsMatchConfig
<1>9. OldClientsAreKnown'
  <2>1. \A v \in Updates : update'[v].at = "clear" => update[v].at = "clear"
    BY <1>2
  <2> QED BY <1>1, <1>4, <2>1 DEF ChannelsInv, OldClientsAreKnown, Owned
<1>10. StrangersComeByOldClients'
  BY <1>1, <1>4 DEF ChannelsInv, StrangersComeByOldClients, Owned
<1> QED BY <1>5, <1>6, <1>7, <1>8, <1>9, <1>10 DEF ChannelsInv

\* The gateway takes the configuration over, and its engine.
LEMMA ConfigStep ==
  ASSUME ChannelsInv, NEW u \in Updates, SetConfig(u) \/ InitEngine(u)
  PROVE  ChannelsInv'
<1> DEFINE stage == IF update[u].at = "config" THEN "engine" ELSE "stop"
<1>1. /\ update[u].at \notin {"idle", "done"} /\ Goto(u, stage)
      /\ stage \in Stage \ {"idle"} /\ stage # "done" /\ stage # "clear"
      /\ update[u].at # "clear"
      /\ UNCHANGED <<file, channels, made, client, polled, device, contended, late,
                     strangers>>
  BY DEF SetConfig, InitEngine, Stage
<1>2. \/ update[u].at = "config" /\ config' = update[u].new
         /\ UNCHANGED <<engine, failed>>
      \/ update[u].at = "engine" /\ config' = config
         /\ \/ engine' = config /\ failed' = failed
            \/ engine' = engine /\ failed' = failed \cup {"engine"}
  BY DEF SetConfig, InitEngine
<1>3. TypeOK'
  BY <1>1, <1>2, ChannelsMove DEF ChannelsInv, TypeOK
<1>4. MadeInOrder'
  BY <1>1, <1>2 DEF ChannelsInv, MadeInOrder
<1>5. Progress(u) => Progress(u)'
  <2>1. update'[u].at = stage /\ update'[u].new = update[u].new
    <3> HIDE DEF stage
    <3> QED BY <1>1, ChannelsMove
  <2>2. "whatsapp" \notin failed => "whatsapp" \notin failed'
    BY <1>2
  <2> QED BY <1>1, <1>2, <2>1, <2>2 DEF Progress, HandlerStage, Channel
<1>6. OldClientsAreKnown'
  <2>1. \A v \in Updates : update'[v].at = "clear" => update[v].at = "clear"
    BY <1>1, ChannelsMove
  <2> QED BY <1>1, <2>1 DEF ChannelsInv, OldClientsAreKnown, Owned
<1>7. StrangersComeByOldClients'
  BY <1>1 DEF ChannelsInv, StrangersComeByOldClients, Owned
<1> HIDE DEF stage
<1> QED BY <1>1, <1>3, <1>4, <1>5, <1>6, <1>7, StageStep

\* The old channels are stopped: those that are not connected, but about to
\* be, are late.
LEMMA StopStep ==
  ASSUME ChannelsInv, NEW u \in Updates, StopChannels(u)
  PROVE  ChannelsInv'
<1>1. /\ update[u].at \notin {"idle", "done"} /\ Goto(u, "clear")
      /\ update[u].at = "stop"
      /\ client' = [c \in Client |->
                    IF c \in Owned THEN [client[c] EXCEPT !.up = FALSE] ELSE client[c]]
      /\ late' = late \cup {c \in Owned : client[c].connecting}
      /\ UNCHANGED <<file, config, engine, channels, made, polled, device, contended,
                     failed, strangers>>
  BY DEF StopChannels
<1>2. Owned \subseteq Client /\ client \in [Client -> ClientState]
  BY DEF ChannelsInv, TypeOK, Owned
<1>3. /\ client' \in [Client -> ClientState]
      /\ \A c \in Client : /\ client'[c].connecting = client[c].connecting
                           /\ c \notin Owned => client'[c].up = client[c].up
                           /\ client'[c].up => client[c].up /\ c \notin Owned
  BY <1>1, <1>2 DEF ClientState
<1>4. "clear" \in Stage \ {"idle"}
  BY DEF Stage
<1>5. TypeOK'
  BY <1>1, <1>2, <1>3, <1>4, ChannelsMove DEF ChannelsInv, TypeOK
<1>6. MadeInOrder'
  BY <1>1, <1>3 DEF ChannelsInv, MadeInOrder
<1>7. Progress(u) => Progress(u)'
  <2>1. update'[u].at = "clear" /\ update'[u].new = update[u].new
    BY <1>1, <1>4, ChannelsMove
  <2> QED BY <1>1, <2>1 DEF Progress, HandlerStage, Channel
<1>8. OldClientsAreKnown'
  <2> SUFFICES ASSUME ~ contended, NEW c \in Client,
                      client'[c].up \/ client'[c].connecting
               PROVE  c \in polled \cup late'
    BY <1>1 DEF OldClientsAreKnown
  <2>1. CASE c \in Owned
    BY <1>1, <1>3, <2>1
  <2>2. CASE c \notin Owned
    BY <1>1, <1>3, <2>2 DEF ChannelsInv, OldClientsAreKnown
  <2> QED BY <2>1, <2>2
<1>9. StrangersComeByOldClients'
  BY <1>1 DEF ChannelsInv, StrangersComeByOldClients, Owned
<1> QED BY <1>1, <1>4, <1>5, <1>6, <1>7, <1>8, <1>9, StageStep

\* They are forgotten.
LEMMA ClearStep ==
  ASSUME ChannelsInv, NEW u \in Updates, ClearChannels(u)
  PROVE  ChannelsInv'
<1>1. /\ update[u].at \notin {"idle", "done"} /\ Goto(u, "whatsapp")
      /\ update[u].at = "clear"
      /\ channels' = [n \in Channel |-> None]
      /\ UNCHANGED <<file, config, engine, made, client, polled, device, contended,
                     failed, late, strangers>>
  BY DEF ClearChannels
<1>2. "whatsapp" \in Stage \ {"idle"}
  BY DEF Stage
<1>3. TypeOK'
  BY <1>1, <1>2, ChannelsMove DEF ChannelsInv, TypeOK
<1>4. MadeInOrder'
  BY <1>1 DEF ChannelsInv, MadeInOrder
<1>5. Progress(u) => Progress(u)'
  <2>1. update'[u].at = "whatsapp" /\ update'[u].new = update[u].new
    BY <1>1, <1>2, ChannelsMove
  <2> QED BY <1>1, <2>1 DEF Progress, HandlerStage, Channel
<1>6. OldClientsAreKnown'
  BY <1>1 DEF ChannelsInv, OldClientsAreKnown
<1>7. StrangersComeByOldClients'
  BY <1>1 DEF ChannelsInv, StrangersComeByOldClients, Owned
<1> QED BY <1>1, <1>2, <1>3, <1>4, <1>5, <1>6, <1>7, StageStep

\* A client is made for a channel, which has none so far.
LEMMA MakeStep ==
  ASSUME ChannelsInv, NEW u \in Updates, NEW n \in Channel, MakeChannel(u, n)
  PROVE  ChannelsInv'
<1> DEFINE new == NewClient(n, update[u].new, device)
           c == made + 1
<1>1. /\ update[u].at \notin {"idle", "done"} /\ Goto(u, HandlerStage(n))
      /\ update[u].at = n /\ n \in update[u].new.enabled
      /\ made < MaxClients /\ made' = c
      /\ client' = [client EXCEPT ![c] = new]
      /\ channels' = [channels EXCEPT ![n] = c]
      /\ UNCHANGED <<file, config, engine, polled, device, contended, failed, late,
                     strangers>>
  BY DEF MakeChannel, Channel
<1>2. /\ made \in Nat /\ c \in Client /\ c # None /\ c \notin 1 .. made
      /\ client \in [Client -> ClientState] /\ channels \in [Channel -> Client \cup {None}]
      /\ \A d \in Client : d # c /\ d <= c => d <= made
  BY <1>1, ClientAssumption DEF ChannelsInv, TypeOK, Client
<1>3. new \in ClientState /\ new.name = n /\ new.admits = update[u].new.admits
  <2>1. update[u].new \in Configs /\ device \in BOOLEAN
    BY DEF ChannelsInv, TypeOK
  <2> QED BY <2>1, NewClients
<1> HIDE DEF new
<1>4. /\ client' \in [Client -> ClientState] /\ client'[c] = new
      /\ \A d \in Client \ {c} : client'[d] = client[d]
      /\ channels' \in [Channel -> Client \cup {None}] /\ channels'[n] = c
      /\ \A m \in Channel \ {n} : channels'[m] = channels[m]
  BY <1>1, <1>2, <1>3
<1>5. HandlerStage(n) \in Stage \ {"idle"} /\ HandlerStage(n) \notin {"done", "clear"}
  BY DEF Stage, HandlerStage
<1>6. /\ update' \in [Updates -> [at : Stage, new : Configs]]
      /\ update'[u].at = HandlerStage(n) /\ update'[u].new = update[u].new
      /\ \A v \in Updates : update'[v].at = "clear" => update[v].at = "clear"
  BY <1>1, <1>5, ChannelsMove
<1>7. TypeOK'
  <2>1. made' \in 0 .. MaxClients
    BY <1>1, <1>2, ClientAssumption DEF Client
  <2> QED BY <1>1, <1>4, <1>6, <2>1 DEF ChannelsInv, TypeOK
<1>8. MadeInOrder'
  <2>1. \A m \in Channel : channels'[m] # None => channels'[m] <= made'
    <3>1. \A m \in Channel : channels[m] # None => channels[m] <= made /\ channels[m] \in Client
      BY <1>2 DEF ChannelsInv, MadeInOrder
    <3> QED BY <1>1, <1>2, <1>4, <3>1 DEF Client
  <2>2. \A d \in strangers \cup polled : d <= made'
    <3>1. strangers \cup polled \subseteq Client
      BY DEF ChannelsInv, TypeOK
    <3> QED BY <1>1, <1>2, <3>1 DEF ChannelsInv, MadeInOrder, Client
  <2>3. \A d \in Client : client'[d].up \/ client'[d].connecting => d <= made'
    BY <1>1, <1>2, <1>4 DEF ChannelsInv, MadeInOrder, Client
  <2> QED BY <1>1, <2>1, <2>2, <2>3 DEF ChannelsInv, MadeInOrder
\* The other channel has another client.
<1>9. \A m \in Channel \ {n} : channels[m] # None =>
        channels[m] # c /\ client'[channels[m]] = client[channels[m]]
  <2>1. \A m \in Channel : channels[m] # None => channels[m] <= made /\ channels[m] \in Client
    BY <1>2 DEF ChannelsInv, MadeInOrder
  <2> QED BY <1>2, <1>4, <2>1 DEF Client
<1> HIDE DEF c
<1>10. Progress(u) => Progress(u)'
  <2> SUFFICES ASSUME Progress(u) PROVE Progress(u)'
    OBVIOUS
  <2>1. Fits(n, update[u].new)' /\ channels'[n] # None
    BY <1>1, <1>2, <1>3, <1>4, <1>6 DEF Fits
  <2>2. CASE n = "whatsapp"
    BY <2>1, <2>2, <1>1, <1>4, <1>6 DEF Progress, HandlerStage, Channel
  <2>3. CASE n = "irc"
    <3>1. Settled("whatsapp", update[u].new)
      BY <1>1, <2>3 DEF Progress
    <3>2. "whatsapp" \in Channel \ {n}
      BY <2>3 DEF Channel
    <3>3. Settled("whatsapp", update[u].new)'
      BY <1>1, <1>4, <1>6, <1>9, <3>1, <3>2 DEF Settled, Fits
    <3> QED BY <2>1, <2>3, <3>3, <1>1, <1>4, <1>6 DEF Progress, HandlerStage, Channel
  <2> QED BY <2>2, <2>3 DEF Channel
<1>11. (~ contended => Progress(u)) /\ (~ contended => channels[n] = None)
  <2>1. ~ contended => Progress(u)
    BY <1>1 DEF ChannelsInv, OneByOne, InProgress
  <2> QED BY <1>1, <2>1 DEF Progress, Channel
<1>12. ~ contended => Owned' = Owned \cup {c}
  <2>1. Owned' = {channels'[m] : m \in Channel} \ {None}
    BY DEF Owned
  <2> QED BY <1>2, <1>4, <1>11, <2>1 DEF Owned
<1>13. OldClientsAreKnown'
  <2>1. ~ contended => \A v \in Updates : update'[v].at # "clear"
    BY <1>1, <1>5, ChannelsMove
  <2> SUFFICES ASSUME ~ contended, NEW d \in Client, d \notin Owned',
                      client'[d].up \/ client'[d].connecting
               PROVE  d \in polled \cup late
    BY <1>1, <2>1 DEF OldClientsAreKnown
  <2>2. d # c /\ d \notin Owned /\ client'[d] = client[d]
    BY <1>4, <1>12
  <2> QED BY <2>2 DEF ChannelsInv, OldClientsAreKnown
<1>14. StrangersComeByOldClients'
  <2>1. c \notin strangers
    BY <1>2 DEF ChannelsInv, MadeInOrder, TypeOK, Client
  <2> QED BY <1>1, <1>12, <2>1 DEF ChannelsInv, StrangersComeByOldClients
<1> QED BY <1>1, <1>5, <1>7, <1>8, <1>10, <1>13, <1>14, StageStep

\* A channel is not made: it is not wanted, or it is WhatsApp's and failed.
LEMMA SkipStep ==
  ASSUME ChannelsInv, NEW u \in Updates, NEW n \in Channel, SkipChannel(u, n)
  PROVE  ChannelsInv'
<1>1. /\ update[u].at \notin {"idle", "done"} /\ Goto(u, AfterStage(n))
      /\ update[u].at = n /\ (n \in update[u].new.enabled => n = "whatsapp")
      /\ failed' = failed \cup ({n} \cap update[u].new.enabled)
      /\ UNCHANGED <<file, config, engine, channels, made, client, polled, device,
                     contended, late, strangers>>
  BY DEF SkipChannel, Channel
<1>2. AfterStage(n) \in Stage \ {"idle"} /\ AfterStage(n) # "clear"
  BY DEF Stage, AfterStage
<1>3. /\ update' \in [Updates -> [at : Stage, new : Configs]]
      /\ update'[u].at = AfterStage(n) /\ update'[u].new = update[u].new
      /\ \A v \in Updates : update'[v].at = "clear" => update[v].at = "clear"
  BY <1>1, <1>2, ChannelsMove
<1>4. TypeOK'
  BY <1>1, <1>3 DEF ChannelsInv, TypeOK
<1>5. MadeInOrder'
  BY <1>1 DEF ChannelsInv, MadeInOrder
<1>6. Progress(u) => IF AfterStage(n) = "done"
        THEN /\ file' = config' /\ (engine' = config' \/ "engine" \in failed')
             /\ \A m \in Channel : Settled(m, config)'
        ELSE Progress(u)'
  <2> SUFFICES ASSUME Progress(u)
               PROVE  IF AfterStage(n) = "done"
                      THEN /\ file' = config' /\ (engine' = config' \/ "engine" \in failed')
                           /\ \A m \in Channel : Settled(m, config)'
                      ELSE Progress(u)'
    OBVIOUS
  <2>1. CASE n = "whatsapp"
    <3>1. channels["whatsapp"] = None /\ channels["irc"] = None
          /\ AfterStage(n) = "irc"
      BY <1>1, <2>1 DEF Progress, AfterStage
    <3>2. Settled("whatsapp", update[u].new)'
      BY <1>1, <1>3, <2>1, <3>1 DEF Settled, Progress
    <3> QED BY <1>1, <1>3, <2>1, <3>1, <3>2 DEF Progress, HandlerStage, Channel
  <2>2. CASE n = "irc"
    <3>1. Settled("whatsapp", update[u].new) /\ channels["irc"] = None
          /\ AfterStage(n) = "done" /\ failed' = failed
          /\ config = update[u].new /\ file = config /\ "irc" \notin update[u].new.enabled
          /\ (engine = config \/ "engine" \in failed)
      BY <1>1, <2>2 DEF Progress, AfterStage
    <3>2. Settled("whatsapp", config)' /\ Settled("irc", config)'
      BY <1>1, <3>1 DEF Settled, Fits
    <3> QED BY <1>1, <3>1, <3>2 DEF Channel
  <2> QED BY <2>1, <2>2 DEF Channel
<1>7. OldClientsAreKnown'
  BY <1>1, <1>3 DEF ChannelsInv, OldClientsAreKnown, Owned
<1>8. StrangersComeByOldClients'
  BY <1>1 DEF ChannelsInv, StrangersComeByOldClients, Owned
<1> QED BY <1>1, <1>2, <1>4, <1>5, <1>6, <1>7, <1>8, StageStep

\* A client that was made gets its handler.
LEMMA HandlerStep ==
  ASSUME ChannelsInv, NEW u \in Updates, NEW n \in Channel, SetHandler(u, n)
  PROVE  ChannelsInv'
<1>1. /\ update[u].at \notin {"idle", "done"} /\ Goto(u, AfterStage(n))
      /\ update[u].at = HandlerStage(n)
      /\ client' = [c \in Client |-> IF c = channels[n]
                                     THEN [client[c] EXCEPT !.handler = TRUE]
                                     ELSE client[c]]
      /\ UNCHANGED <<file, config, engine, channels, made, polled, device, contended,
                     failed, late, strangers>>
  BY DEF SetHandler, HandlerStage
<1>2. AfterStage(n) \in Stage \ {"idle"} /\ AfterStage(n) # "clear"
  BY DEF Stage, AfterStage
<1>3. /\ update' \in [Updates -> [at : Stage, new : Configs]]
      /\ update'[u].at = AfterStage(n) /\ update'[u].new = update[u].new
      /\ \A v \in Updates : update'[v].at = "clear" => update[v].at = "clear"
  BY <1>1, <1>2, ChannelsMove
<1>4. /\ client' \in [Client -> ClientState]
      /\ \A c \in Client : /\ client'[c].name = client[c].name
                           /\ client'[c].admits = client[c].admits
                           /\ client[c].handler => client'[c].handler
                           /\ c = channels[n] => client'[c].handler
                           /\ client'[c].up = client[c].up
                           /\ client'[c].connecting = client[c].connecting
  <2>1. client \in [Client -> ClientState]
    BY DEF ChannelsInv, TypeOK
  <2> QED BY <1>1, <2>1 DEF ClientState
<1>5. TypeOK'
  BY <1>1, <1>3, <1>4 DEF ChannelsInv, TypeOK
<1>6. MadeInOrder'
  BY <1>1, <1>4 DEF ChannelsInv, MadeInOrder
<1>7. \A m \in Channel : channels[m] # None => channels[m] \in Client
  BY DEF ChannelsInv, TypeOK
<1>8. /\ \A m \in Channel, cfg \in Configs : Settled(m, cfg) => Settled(m, cfg)'
      /\ \A cfg \in Configs : /\ Fits(n, cfg) /\ channels[n] # None
                              /\ n \in cfg.enabled \ failed
                              => Settled(n, cfg)'
  BY <1>1, <1>4, <1>7 DEF Settled, Fits
<1>9. Progress(u) => IF AfterStage(n) = "done"
        THEN /\ file' = config' /\ (engine' = config' \/ "engine" \in failed')
             /\ \A m \in Channel : Settled(m, config)'
        ELSE Progress(u)'
  <2> SUFFICES ASSUME Progress(u)
               PROVE  IF AfterStage(n) = "done"
                      THEN /\ file' = config' /\ (engine' = config' \/ "engine" \in failed')
                           /\ \A m \in Channel : Settled(m, config)'
                      ELSE Progress(u)'
    OBVIOUS
  <2>1. update[u].new \in Configs /\ config \in Configs
    BY DEF ChannelsInv, TypeOK
  <2>2. n \in update[u].new.enabled /\ channels[n] # None /\ Fits(n, update[u].new)
    BY <1>1 DEF Progress
  <2>3. n \notin failed
    BY <1>1 DEF Progress, HandlerStage, ChannelsInv, MadeInOrder, Channel
  <2>4. Settled(n, update[u].new)'
    <3>1. PICK cfg \in Configs : cfg = update[u].new
      BY <2>1
    <3>2. Settled(n, cfg)'
      BY <1>8, <2>2, <2>3, <3>1
    <3> QED BY <1>3, <3>1, <3>2 DEF Settled, Fits
  <2>5. CASE n = "whatsapp"
    BY <1>1, <1>3, <2>4, <2>5 DEF Progress, HandlerStage, AfterStage, Channel
  <2>6. CASE n = "irc"
    <3>1. Settled("whatsapp", update[u].new) /\ AfterStage(n) = "done"
          /\ config = update[u].new /\ file = config
          /\ (engine = config \/ "engine" \in failed)
      BY <1>1, <2>6 DEF Progress, AfterStage, HandlerStage
    <3>2. Settled("whatsapp", config)'
      BY <1>1, <1>8, <2>1, <3>1 DEF Channel, Settled, Fits
    <3>3. Settled("irc", config)'
      BY <1>1, <1>3, <2>4, <2>6, <3>1
    <3> QED BY <1>1, <3>1, <3>2, <3>3 DEF Channel
  <2> QED BY <2>5, <2>6 DEF Channel
<1>10. OldClientsAreKnown'
  BY <1>1, <1>3, <1>4 DEF ChannelsInv, OldClientsAreKnown, Owned
<1>11. StrangersComeByOldClients'
  BY <1>1 DEF ChannelsInv, StrangersComeByOldClients, Owned
<1> QED BY <1>1, <1>2, <1>5, <1>6, <1>9, <1>10, <1>11, StageStep

\* Every step keeps the invariant.
LEMMA ChannelsStep == ChannelsInv /\ [Next]_vars => ChannelsInv'
<1> SUFFICES ASSUME ChannelsInv, [Next]_vars PROVE ChannelsInv'
  OBVIOUS
<1>1. CASE UNCHANGED vars
  <2>1. TypeOK' /\ MadeInOrder'
    BY <1>1 DEF vars, ChannelsInv, TypeOK, MadeInOrder
  <2>2. InProgress' = InProgress
    BY <1>1 DEF vars, InProgress
  <2>4. \A u \in InProgress : Progress(u) => Progress(u)'
    BY <1>1 DEF vars, Progress, Settled, Fits
  <2>5. OneByOne' /\ ChannelsMatchConfig'
    BY <1>1, <2>2, <2>4 DEF vars, ChannelsInv, OneByOne, ChannelsMatchConfig
  <2>3. OldClientsAreKnown' /\ StrangersComeByOldClients'
    BY <1>1 DEF vars, ChannelsInv, OldClientsAreKnown, StrangersComeByOldClients, Owned
  <2> QED BY <2>1, <2>3, <2>5 DEF ChannelsInv
<1>2. CASE \E u \in Updates : UpdateConfig(u)
  <2>1. PICK u \in Updates : UpdateConfig(u)
    BY <1>2
  <2>2. CASE \E cfg \in Configs : SaveConfig(u, cfg)
    BY <2>2, SaveConfigStep
  <2>7. CASE \E cfg \in Configs : SaveConfigFails(u, cfg)
    BY <2>7, SaveFailsStep
  <2>3. CASE SetConfig(u) \/ InitEngine(u)
    BY <2>3, ConfigStep
  <2>4. CASE StopChannels(u)
    BY <2>4, StopStep
  <2>5. CASE ClearChannels(u)
    BY <2>5, ClearStep
  <2>6. CASE \E n \in Channel : MakeChannel(u, n) \/ SkipChannel(u, n) \/ SetHandler(u, n)
    BY <2>6, MakeStep, SkipStep, HandlerStep
  <2> QED BY <2>1, <2>2, <2>3, <2>4, <2>5, <2>6, <2>7 DEF UpdateConfig
<1>3. CASE \/ \E c \in Client : Poll(c) \/ Connect(c) \/ Disconnected(c)
           \/ \E n \in Channel : Enroll(n)
           \/ \E c \in Client, s \in Sender : Receive(c, s)
  BY <1>3, ClientStep
<1> QED BY <1>1, <1>2, <1>3 DEF Next

LEMMA ChannelsInvariance == Spec => []ChannelsInv
BY ChannelsInit, ChannelsStep, PTL DEF Spec

-----------------------------------------------------------------------------
(***************************************************************************)
(* The channels: the theorems                                              *)
(***************************************************************************)

\* Updates of the configuration that do not meet leave the file, the gateway,
\* its engine and its channels in agreement (handleUpdateConfig,
\* UpdateConfig), whatever the clients and the network do meanwhile, and
\* whatever New or an update could not make; an update whose configuration
\* could not be saved changes nothing but the file.
THEOREM UpdatesAgree == Spec => []ChannelsMatchConfig
<1>1. ChannelsInv => ChannelsMatchConfig
  BY DEF ChannelsInv
<1> QED BY <1>1, ChannelsInvariance, PTL

\* A sender whom the configuration does not admit is heard only through a
\* client that was stopped and that the loop, a connection under way or an
\* enrolment brought back.
THEOREM StrangersAreExplained == Spec => []StrangersComeByOldClients
<1>1. ChannelsInv => StrangersComeByOldClients
  BY DEF ChannelsInv
<1> QED BY <1>1, ChannelsInvariance, PTL

-----------------------------------------------------------------------------
(***************************************************************************)
(* The questions to a human                                                *)
(***************************************************************************)

\* Between the reading of a question and the writing of its answer.
Handling(c) == call[c].at \in {"read", "truncated"}

\* A question whose answers never met, and whose writes never broke off: one
\* handler has it at most, and its file is as that handler left it.
Calm(c) ==
    /\ call[c].at = "read" => question[call[c].id] = Pending
    /\ call[c].at = "truncated" => question[call[c].id] = Torn /\ ~gone
    /\ call[c].at = "accepted" => question[call[c].id] = c
    /\ Handling(c) => \A d \in Calls \ {c} : call[d].id = call[c].id => ~ Handling(d)

HumanIInv ==
    /\ Human!TypeOK
    /\ \A c \in Calls : call[c].id \notin raced \cup lossy => Calm(c)

LEMMA HumanInit == Human!Init => HumanIInv
<1> SUFFICES ASSUME Human!Init
             PROVE  HumanIInv
    OBVIOUS
<1>1. Human!TypeOK
    BY DEF Human!Init, Human!TypeOK, Human!Stage
<1>2. \A c \in Calls : call[c].at = "idle"
    BY DEF Human!Init
<1>3. QED
    BY <1>1, <1>2 DEF HumanIInv, Calm, Handling

LEMMA HumanTypes == Human!TypeOK /\ [Human!Next]_Human!vars => Human!TypeOK'
<1> SUFFICES ASSUME Human!TypeOK, [Human!Next]_Human!vars
             PROVE  Human!TypeOK'
    OBVIOUS
<1> USE DEF Human!TypeOK, Human!Stage, Human!Goto
<1>1. ASSUME NEW r \in Requests, Human!Ask(r)
      PROVE  Human!TypeOK'
    BY <1>1 DEF Human!Ask
<1>2. ASSUME NEW c \in Calls, Human!Answer(c)
      PROVE  Human!TypeOK'
    <2>1. call[c].id \in Requests
        OBVIOUS
    <2>2. CASE Human!ReadQuestion(c)
        BY <2>1, <2>2 DEF Human!ReadQuestion
    <2>3. CASE Human!Truncate(c)
        BY <2>1, <2>3 DEF Human!Truncate
    <2>4. CASE Human!WriteAnswer(c)
        BY <2>1, <2>4 DEF Human!WriteAnswer
    <2>5. CASE Human!WriteFails(c)
        BY <2>1, <2>5 DEF Human!WriteFails
    <2>6. QED
        BY <1>2, <2>2, <2>3, <2>4, <2>5 DEF Human!Answer
<1>3. ASSUME NEW l \in Lists, Human!BeginList(l) \/ Human!ListOne(l) \/ Human!EndList(l)
      PROVE  Human!TypeOK'
    <2>1. CASE Human!BeginList(l)
        BY <2>1 DEF Human!BeginList
    <2>2. CASE Human!ListOne(l)
        <3>1. PICK r \in list[l].todo :
                 list' = [list EXCEPT ![l].todo = @ \ {r},
                            ![l].found = IF question[r] = Pending THEN @ \cup {r} ELSE @]
            BY <2>2 DEF Human!ListOne
        <3>2. r \in Requests /\ list[l].found \subseteq Requests
            BY <3>1
        <3>3. list[l].todo \ {r} \subseteq Requests /\ list[l].found \cup {r} \subseteq Requests
            BY <3>2
        <3>4. \A m \in Lists :
                 /\ m # l => list'[m] = list[m]
                 /\ list'[l] = [at |-> list[l].at, todo |-> list[l].todo \ {r},
                                found |-> IF question[r] = Pending
                                          THEN list[l].found \cup {r} ELSE list[l].found]
            BY <3>1
        <3>5. list' \in [Lists -> [at : {"idle", "reading", "done"},
                                  todo : SUBSET Requests, found : SUBSET Requests]]
            BY <3>1, <3>3, <3>4
        <3>6. QED
            BY <2>2, <3>5 DEF Human!ListOne
    <2>3. CASE Human!EndList(l)
        BY <2>3 DEF Human!EndList
    <2>4. QED
        BY <1>3, <2>1, <2>2, <2>3
<1>4. CASE Human!Die
    BY <1>4 DEF Human!Die
<1>5. CASE UNCHANGED Human!vars
    BY <1>5 DEF Human!vars
<1>6. QED
    BY <1>1, <1>2, <1>3, <1>4, <1>5 DEF Human!Next

LEMMA HumanStep == HumanIInv /\ [Human!Next]_Human!vars => HumanIInv'
<1> SUFFICES ASSUME HumanIInv, [Human!Next]_Human!vars
             PROVE  HumanIInv'
    OBVIOUS
<1>0. Human!TypeOK /\ Human!TypeOK'
    BY HumanTypes DEF HumanIInv
<1> SUFFICES ASSUME NEW e \in Calls, call'[e].id \notin raced' \cup lossy'
             PROVE  Calm(e)'
    BY <1>0 DEF HumanIInv
<1> USE QuestionAssumption DEF Human!Goto
<1>a. /\ call[e].id \in Requests
      /\ call[e].id \notin raced \cup lossy => Calm(e)
      /\ \A d \in Calls \ {e} : call[d].id = call[e].id /\ call[e].id \notin raced \cup lossy => Calm(d)
    BY <1>0 DEF HumanIInv, Human!TypeOK
<1>1. ASSUME NEW r \in Requests, Human!Ask(r)
      PROVE  Calm(e)'
    BY <1>0, <1>1, <1>a DEF Human!Ask, Calm, Handling, Human!TypeOK
<1>2. ASSUME NEW c \in Calls, Human!Answer(c)
      PROVE  Calm(e)'
    <2> DEFINE r == call[c].id
    <2>1. r \in Requests /\ call[e].id = call'[e].id /\ raced \subseteq raced' /\ lossy \subseteq lossy'
        BY <1>0, <1>2 DEF Human!Answer, Human!ReadQuestion, Human!Truncate, Human!WriteAnswer,
            Human!WriteFails, Human!TypeOK
    <2>2. CASE Human!ReadQuestion(c)
        BY <1>0, <1>a, <2>1, <2>2 DEF Human!ReadQuestion, Human!Answering, Calm, Handling, Human!TypeOK
    <2>3. CASE Human!Truncate(c)
        BY <1>0, <1>a, <2>1, <2>3 DEF Human!Truncate, Calm, Handling, Human!TypeOK
    <2>4. CASE Human!WriteAnswer(c)
        BY <1>0, <1>a, <2>1, <2>4 DEF Human!WriteAnswer, Calm, Handling, Human!TypeOK
    <2>5. CASE Human!WriteFails(c)
        BY <1>0, <1>a, <2>1, <2>5 DEF Human!WriteFails, Calm, Handling, Human!TypeOK
    <2>6. QED
        BY <1>2, <2>2, <2>3, <2>4, <2>5 DEF Human!Answer
<1>3. ASSUME NEW l \in Lists, Human!BeginList(l) \/ Human!ListOne(l) \/ Human!EndList(l)
      PROVE  Calm(e)'
    BY <1>3, <1>a DEF Human!BeginList, Human!ListOne, Human!EndList, Calm, Handling
<1>4. CASE Human!Die
    BY <1>4, <1>a DEF Human!Die, Calm, Handling
<1>5. CASE UNCHANGED Human!vars
    BY <1>5, <1>a DEF Human!vars, Calm, Handling
<1>6. QED
    BY <1>1, <1>2, <1>3, <1>4, <1>5 DEF Human!Next

\* What an answer that was accepted (RespondHumanRequest returned no error) has
\* put into its question stays there, for any number of questions and answers,
\* unless answers to the same question met or a write of it broke off.
THEOREM AnswersStand == Human!Spec => []AcceptedAnswerStands
<1>1. HumanIInv => AcceptedAnswerStands
    BY DEF HumanIInv, Calm, AcceptedAnswerStands, Human!AcceptedAnswerStands
<1>2. QED
    BY HumanInit, HumanStep, <1>1, PTL DEF Human!Spec

-----------------------------------------------------------------------------
(***************************************************************************)
(* The PID file                                                            *)
(***************************************************************************)

\* Processes that believe the PID file to be theirs.
Owners == {p \in Pid : proc[p] \in Process!Working \cup {"removing"}}
Claimants == {p \in Pid : proc[p] \in Process!Claiming}

ProcessIInv ==
    /\ Process!TypeOK
    /\ ~crossed =>
         /\ \A p \in Owners : pidFile = p
         /\ \A p \in Claimants, q \in Claimants \cup Owners : p = q
         /\ \A p \in Pid : proc[p] = "writing" => p \in holders /\ pidFile = Empty

LEMMA ProcessInit == Process!Init => ProcessIInv
BY DEF Process!Init, ProcessIInv, Process!TypeOK, Process!Stage, Owners, Claimants,
       Process!Working, Process!Claiming

LEMMA ProcessTypes == Process!TypeOK /\ [Process!Next]_Process!vars => Process!TypeOK'
<1> SUFFICES ASSUME Process!TypeOK, [Process!Next]_Process!vars
             PROVE  Process!TypeOK'
    OBVIOUS
<1> USE DEF Process!TypeOK, Process!Stage, Process!Goto, Process!Working, Process!Claiming
<1>1. ASSUME NEW p \in Pid, Process!Main(p)
      PROVE  Process!TypeOK'
    <2>1. CASE Process!Start(p)
        BY <2>1 DEF Process!Start
    <2>2. CASE Process!CheckRunning(p)
        BY <2>2 DEF Process!CheckRunning
    <2>3. CASE Process!RemoveStale(p)
        BY <2>3 DEF Process!RemoveStale
    <2>4. CASE Process!OpenPidFile(p)
        BY <2>4 DEF Process!OpenPidFile
    <2>5. CASE Process!WritePidFile(p)
        BY <2>5 DEF Process!WritePidFile
    <2>6. CASE Process!PidFileFails(p) \/ Process!Serve(p) \/ Process!Shutdown(p)
               \/ Process!Shutdown_Ends(p)
        BY <2>6 DEF Process!PidFileFails, Process!Serve, Process!Shutdown,
                    Process!Shutdown_Ends
    <2>7. CASE Process!RemovePidFile(p)
        BY <2>7 DEF Process!RemovePidFile
    <2>8. QED
        BY <1>1, <2>1, <2>2, <2>3, <2>4, <2>5, <2>6, <2>7 DEF Process!Main
<1>2. ASSUME NEW p \in Pid, Process!Signal(p) \/ Process!Kill(p) \/ Process!Reuse(p)
      PROVE  Process!TypeOK'
    BY <1>2 DEF Process!Signal, Process!Kill, Process!Reuse
<1>3. CASE UNCHANGED Process!vars
    BY <1>3 DEF Process!vars
<1>4. QED
    BY <1>1, <1>2, <1>3 DEF Process!Next

LEMMA ProcessStep == ProcessIInv /\ [Process!Next]_Process!vars => ProcessIInv'
<1> SUFFICES ASSUME ProcessIInv, [Process!Next]_Process!vars
             PROVE  ProcessIInv'
    OBVIOUS
<1>0. Process!TypeOK /\ Process!TypeOK'
    BY ProcessTypes DEF ProcessIInv
<1>1. CASE UNCHANGED Process!vars
    BY <1>1 DEF Process!vars, ProcessIInv, Process!TypeOK, Owners, Claimants
<1>2. ASSUME NEW p \in Pid,
             Process!Main(p) \/ Process!Signal(p) \/ Process!Kill(p) \/ Process!Reuse(p),
             ~ crossed'
      PROVE  ProcessIInv'
    <2>0. ~ crossed
        BY <1>0, <1>2 DEF Process!Main, Process!Signal, Process!Kill, Process!Reuse, Process!Start,
            Process!CheckRunning, Process!RemoveStale, Process!OpenPidFile,
            Process!WritePidFile, Process!PidFileFails, Process!Serve, Process!Shutdown,
            Process!Shutdown_Ends, Process!RemovePidFile, Process!Goto, Process!TypeOK
    <2>a. /\ \A q \in Pid : proc[q] \in {"starting", "serving", "stopping", "removing"} => pidFile = q
          /\ \A q, r \in Pid : /\ proc[q] \in {"stale", "opening", "writing"}
                               /\ proc[r] \in {"stale", "opening", "writing", "starting",
                                               "serving", "stopping", "removing"}
                               => q = r
          /\ \A q \in Pid : proc[q] = "writing" => q \in holders /\ pidFile = Empty
        BY <2>0 DEF ProcessIInv, Owners, Claimants, Process!Working, Process!Claiming
    <2>b. SUFFICES
              /\ \A q \in Pid : proc'[q] \in {"starting", "serving", "stopping", "removing"} => pidFile' = q
              /\ \A q, r \in Pid : /\ proc'[q] \in {"stale", "opening", "writing"}
                                   /\ proc'[r] \in {"stale", "opening", "writing", "starting",
                                                   "serving", "stopping", "removing"}
                                   => q = r
              /\ \A q \in Pid : proc'[q] = "writing" => q \in holders' /\ pidFile' = Empty
        BY <1>0 DEF ProcessIInv, Owners, Claimants, Process!Working, Process!Claiming
    <2> USE <1>0, <1>2, <2>a, FileAssumption DEF Process!TypeOK, Process!Goto, Process!Claiming
    <2>1. CASE Process!Start(p)
        BY <2>1 DEF Process!Start, Process!Alive
    <2>2. CASE Process!CheckRunning(p)
        BY <2>2 DEF Process!CheckRunning, Process!Alive
    <2>3. CASE Process!RemoveStale(p)
        BY <2>3 DEF Process!RemoveStale
    <2>4. CASE Process!OpenPidFile(p)
        BY <2>4 DEF Process!OpenPidFile
    <2>5. CASE Process!WritePidFile(p)
        BY <2>5 DEF Process!WritePidFile
    <2>6. CASE Process!PidFileFails(p) \/ Process!Serve(p) \/ Process!Shutdown(p)
               \/ Process!Shutdown_Ends(p)
        BY <2>6 DEF Process!PidFileFails, Process!Serve, Process!Shutdown,
                    Process!Shutdown_Ends
    <2>7. CASE Process!RemovePidFile(p)
        BY <2>7 DEF Process!RemovePidFile
    <2>8. CASE Process!Signal(p) \/ Process!Kill(p) \/ Process!Reuse(p)
        BY <2>8 DEF Process!Signal, Process!Kill, Process!Reuse
    <2>9. QED
        BY <2>1, <2>2, <2>3, <2>4, <2>5, <2>6, <2>7, <2>8 DEF Process!Main
<1>3. QED
    BY <1>0, <1>1, <1>2 DEF Process!Next, ProcessIInv

\* While a server works, the PID file names it (main of cmd/server), so that
\* every later start is refused: for any number of processes, crashes and uses
\* of a number again, unless two starts have crossed.
THEOREM ServerIsNamed == Process!Spec => []FileNamesTheServer
<1>1. ProcessIInv => FileNamesTheServer
    BY DEF ProcessIInv, Owners, FileNamesTheServer, Process!FileNamesTheServer
<1>2. QED
    BY ProcessInit, ProcessStep, <1>1, PTL DEF Process!Spec

-----------------------------------------------------------------------------
(***************************************************************************)
(* Websockets                                                              *)
(***************************************************************************)

\* The positions of the slice that count: while a connection is removed, one
\* element is the removed one, or stands in the array twice.
Places == (1 .. len) \ {leaving.to}

\* The slice holds the open connections but the one that is leaving.
Listed ==
    /\ \A i \in Places : array[i] \in Conn
    /\ \A i, j \in Places : array[i] = array[j] => i = j
    /\ \A c \in Conn : c \in Websockets!Open /\ c # leaving.conn
                       <=> \E i \in Places : array[i] = c

Removing ==
    /\ leaving.conn = None => leaving.to = 0
    /\ leaving.conn # None => /\ leaving.to \in 1 .. len
                              /\ leaving.from = leaving.to + 1
                              /\ conn[leaving.conn] = "removing"

\* The array a report reads.
Slice(r) == IF report[r].old = <<>> THEN array ELSE report[r].old

\* A report stays within its array, disturbed or not.
InRange ==
    \A r \in Websockets!Broadcasting :
        report[r].len \in 1 .. Len(Slice(r)) /\ report[r].index >= 1

\* What the array holds for a report is what was open at its beginning.
HoldsDue(r) ==
    /\ report[r].old = <<>> => report[r].len <= len
    /\ \A i \in 1 .. report[r].len : Slice(r)[i] \in Conn
    /\ \A i, j \in 1 .. report[r].len : Slice(r)[i] = Slice(r)[j] => i = j
    /\ due[r] = {Slice(r)[i] : i \in 1 .. report[r].len}

\* It has been sent to the elements before the index, in their order.
SentSoFar(r) ==
    /\ report[r].index \in 1 .. report[r].len + 1
    /\ report[r].at = "writing" => report[r].index <= report[r].len
    /\ Len(sent[r]) = IF report[r].at = "writing" THEN report[r].index
                      ELSE report[r].index - 1
    /\ \A i \in 1 .. Len(sent[r]) : sent[r][i] = Slice(r)[i]

Undisturbed(r) ==
    leaving.conn = None /\ HoldsDue(r) /\ SentSoFar(r)

\* The reports, from before their beginning to after their end.
ReportsAreSent ==
    /\ InRange
    /\ \A r \in Reports : report[r].at = "idle" => sent[r] = <<>> /\ due[r] = {}
    /\ \A r \in Websockets!Broadcasting \ disturbed : Undisturbed(r)
    /\ ReportsReachAll

WebIInv ==
    /\ Websockets!TypeOK
    /\ Removing /\ Listed
    /\ ReportsAreSent
    /\ crashed => handled
    /\ CrashNeedsARace


LEMMA FunctionIsSequence ==
    ASSUME NEW S, NEW n \in Nat, NEW f \in [1 .. n -> S]
    PROVE  f \in Seq(S) /\ Len(f) = n
OBVIOUS

LEMMA OneElementChanged ==
    ASSUME NEW S, NEW s \in Seq(S), NEW i \in 1 .. Len(s), NEW e \in S
    PROVE  /\ [s EXCEPT ![i] = e] \in Seq(S)
           /\ Len([s EXCEPT ![i] = e]) = Len(s)
           /\ \A j \in 1 .. Len(s) : [s EXCEPT ![i] = e][j] = IF j = i THEN e ELSE s[j]
           /\ [s EXCEPT ![i] = e] # <<>>
OBVIOUS

\* A report that begins or ends, and one that goes on.
LEMMA NewReportType ==
    /\ Websockets!NoReport \in Websockets!Report
    /\ \A a \in {"idle", "next", "writing", "done"}, n \in Nat :
         [Websockets!NoReport EXCEPT !.at = a, !.len = n] \in Websockets!Report
<1>1. <<>> \in Seq(Conn \cup {None})
    OBVIOUS
<1>2. Websockets!NoReport \in Websockets!Report
    BY <1>1 DEF Websockets!NoReport, Websockets!Report
<1>3. ASSUME NEW a \in {"idle", "next", "writing", "done"}, NEW n \in Nat
      PROVE  [Websockets!NoReport EXCEPT !.at = a, !.len = n] \in Websockets!Report
    BY <1>1, <1>3 DEF Websockets!NoReport, Websockets!Report
<1>4. QED
    BY <1>2, <1>3

LEMMA OldReportType ==
    ASSUME NEW x \in Websockets!Report, NEW a \in {"idle", "next", "writing", "done"},
           NEW n \in Nat, NEW c \in Conn \cup {None}, NEW o \in Seq(Conn \cup {None})
    PROVE  /\ [x EXCEPT !.at = a] \in Websockets!Report
           /\ [x EXCEPT !.old = o] \in Websockets!Report
           /\ [x EXCEPT !.at = a, !.target = c] \in Websockets!Report
           /\ [x EXCEPT !.at = a, !.target = c, !.index = n] \in Websockets!Report
BY DEF Websockets!Report

LEMMA OneDown ==
    ASSUME NEW S, NEW x \in [conn : S, from : Nat, to : Nat], NEW a \in Nat, NEW b \in Nat
    PROVE  /\ [x EXCEPT !.from = a, !.to = b] \in [conn : S, from : Nat, to : Nat]
           /\ [x EXCEPT !.from = a, !.to = b].conn = x.conn
           /\ [x EXCEPT !.from = a, !.to = b].from = a
           /\ [x EXCEPT !.from = a, !.to = b].to = b
OBVIOUS

LEMMA WebInit == Websockets!Init => WebIInv
<1> SUFFICES ASSUME Websockets!Init
             PROVE  WebIInv
    OBVIOUS
<1> USE WebsocketAssumption
<1>1. Websockets!TypeOK
    <2>1. report \in [Reports -> Websockets!Report]
        BY NewReportType DEF Websockets!Init
    <2>2. array \in Seq(Conn \cup {None}) /\ len \in 0 .. Len(array)
        BY DEF Websockets!Init
    <2>3. leaving \in [conn : Conn \cup {None}, from : Nat, to : Nat]
        BY DEF Websockets!Init, Websockets!NotLeaving
    <2>4. sent \in [Reports -> Seq(Conn)]
        BY DEF Websockets!Init
    <2>5. conn \in [Conn -> Websockets!Handler]
        BY DEF Websockets!Init, Websockets!Handler
    <2>6. prompts \in 0 .. MaxPrompts
        BY DEF Websockets!Init
    <2>7. /\ handled \in BOOLEAN /\ crashed \in BOOLEAN
          /\ due \in [Reports -> SUBSET Conn] /\ disturbed \subseteq Reports
        BY DEF Websockets!Init
    <2>8. QED
        BY <2>1, <2>2, <2>3, <2>4, <2>5, <2>6, <2>7 DEF Websockets!TypeOK
<1>2. \A r \in Reports : report[r].at = "idle"
    BY DEF Websockets!Init, Websockets!NoReport
<1>3. Removing /\ Listed
    BY DEF Websockets!Init, Removing, Listed, Places, Websockets!NotLeaving, Websockets!Open
<1>4. Websockets!Broadcasting = {}
    BY <1>2 DEF Websockets!Broadcasting
<1>5. ReportsReachAll /\ ~ crashed /\ \A r \in Reports : sent[r] = <<>> /\ due[r] = {}
    BY <1>2 DEF Websockets!Init, ReportsReachAll, Websockets!ReportsReachAll
<1>6. QED
    BY <1>1, <1>3, <1>4, <1>5 DEF WebIInv, ReportsAreSent, InRange, CrashNeedsARace, Websockets!CrashNeedsARace

\* What the reports of an array that is given up have in hand.
LEMMA ArrayGivenUp ==
    ASSUME NEW a, Websockets!TypeOK, InRange,
           report' = [r \in Reports |->
               IF r \in Websockets!Broadcasting /\ report[r].old = <<>>
               THEN [report[r] EXCEPT !.old = a] ELSE report[r]],
           a \in Seq(Conn \cup {None}), Len(a) = Len(array)
    PROVE  /\ report' \in [Reports -> Websockets!Report]
           /\ Websockets!Broadcasting' = Websockets!Broadcasting
           /\ \A r \in Reports :
                /\ report'[r].at = report[r].at /\ report'[r].len = report[r].len
                /\ report'[r].index = report[r].index
                /\ report'[r].target = report[r].target
           /\ \A r \in Websockets!Broadcasting :
                /\ report'[r].old # <<>>
                /\ report'[r].old = IF report[r].old = <<>> THEN a ELSE report[r].old
                /\ report'[r].len \in 1 .. Len(report'[r].old)
<1>1. ASSUME NEW r \in Reports
      PROVE  /\ report'[r] \in Websockets!Report
             /\ report'[r].at = report[r].at /\ report'[r].len = report[r].len
             /\ report'[r].index = report[r].index
             /\ report'[r].target = report[r].target
    <2>1. report[r] \in Websockets!Report
        BY DEF Websockets!TypeOK
    <2>2. CASE r \in Websockets!Broadcasting /\ report[r].old = <<>>
        <3>1. report'[r] = [report[r] EXCEPT !.old = a]
            BY <2>2
        <3>2. QED
            BY <2>1, <3>1 DEF Websockets!Report
    <2>3. CASE ~ (r \in Websockets!Broadcasting /\ report[r].old = <<>>)
        BY <2>1, <2>3
    <2>4. QED
        BY <2>2, <2>3
<1>2. Websockets!Broadcasting' = Websockets!Broadcasting
    BY <1>1 DEF Websockets!Broadcasting
<1>3. ASSUME NEW r \in Websockets!Broadcasting
      PROVE  /\ report'[r].old # <<>>
             /\ report'[r].old = IF report[r].old = <<>> THEN a ELSE report[r].old
             /\ report'[r].len \in 1 .. Len(report'[r].old)
    <2>1. /\ r \in Reports /\ report[r] \in Websockets!Report
          /\ report[r].len \in 1 .. Len(Slice(r))
        BY DEF Websockets!TypeOK, Websockets!Broadcasting, InRange
    <2>2. report'[r].old = IF report[r].old = <<>> THEN a ELSE report[r].old
        BY <2>1 DEF Websockets!Report
    <2>3. CASE report[r].old = <<>>
        <3>1. report'[r].len \in 1 .. Len(a)
            BY <1>1, <2>1, <2>3 DEF Slice
        <3>2. a # <<>>
            BY <3>1
        <3>3. QED
            BY <2>2, <2>3, <3>1, <3>2
    <2>4. CASE report[r].old # <<>>
        BY <1>1, <2>1, <2>2, <2>4 DEF Slice
    <2>5. QED
        BY <2>3, <2>4
<1>4. QED
    BY <1>1, <1>2, <1>3

LEMMA WebTypes ==
    Websockets!TypeOK /\ Removing /\ InRange /\ [Websockets!Next]_Websockets!vars
    => Websockets!TypeOK'
<1> SUFFICES ASSUME Websockets!TypeOK, Removing, InRange, [Websockets!Next]_Websockets!vars
             PROVE  Websockets!TypeOK'
    OBVIOUS
<1> USE WebsocketAssumption
<1> DEFINE S == Conn \cup {None}
<1>0. /\ array \in Seq(S) /\ len \in 0 .. Len(array) /\ len \in Nat
      /\ conn \in [Conn -> Websockets!Handler]
      /\ leaving \in [conn : S, from : Nat, to : Nat]
      /\ report \in [Reports -> Websockets!Report]
      /\ sent \in [Reports -> Seq(Conn)]
    BY DEF Websockets!TypeOK
<1>1. CASE Websockets!SetTaskReportHandler
    BY <1>1 DEF Websockets!SetTaskReportHandler, Websockets!TypeOK
<1>2. ASSUME NEW c \in Conn, Websockets!Serve(c)
      PROVE  Websockets!TypeOK'
    <2>1. CASE Websockets!Register(c)
        <3>0. /\ len' = len + 1 /\ conn' = [conn EXCEPT ![c] = "reading"]
              /\ UNCHANGED <<prompts, leaving, handled, crashed, sent, due, disturbed>>
            BY <2>1 DEF Websockets!Register, Websockets!Goto
        <3>a. conn' \in [Conn -> Websockets!Handler]
            BY <1>0, <3>0 DEF Websockets!Handler
        <3>1. CASE len < Len(array)
            <4>1. array' = [array EXCEPT ![len + 1] = c] /\ report' = report
                BY <2>1, <3>0, <3>1 DEF Websockets!Register
            <4>2. array' \in Seq(S) /\ Len(array') = Len(array)
                BY <1>0, <3>1, <4>1, OneElementChanged
            <4>3. QED
                BY <1>0, <3>0, <3>1, <3>a, <4>1, <4>2 DEF Websockets!TypeOK
        <3>2. CASE ~ (len < Len(array))
            <4> DEFINE n == IF len = 0 THEN 1 ELSE 2 * len
            <4>1. /\ array' = [i \in 1 .. n |->
                      IF i <= len THEN array[i] ELSE IF i = len' THEN c ELSE None]
                  /\ report' = [r \in Reports |->
                      IF r \in Websockets!Broadcasting /\ report[r].old = <<>>
                      THEN [report[r] EXCEPT !.old = array] ELSE report[r]]
                BY <2>1, <3>2 DEF Websockets!Register
            <4>2. n \in Nat /\ len + 1 <= n
                BY <1>0
            <4>3. \A i \in 1 .. n : i <= len => array[i] \in S
                BY <1>0
            <4>4. array' \in [1 .. n -> S]
                BY <4>1, <4>3
            <4>5. array' \in Seq(S) /\ Len(array') = n
                BY <4>2, <4>4, FunctionIsSequence
            <4>6. report' \in [Reports -> Websockets!Report]
                BY <1>0, <4>1, ArrayGivenUp
            <4>7. QED
                BY <1>0, <3>0, <3>a, <4>2, <4>5, <4>6 DEF Websockets!TypeOK
        <3>3. QED
            BY <3>1, <3>2
    <2>2. CASE Websockets!ReadPrompt(c)
        BY <1>0, <2>2 DEF Websockets!ReadPrompt, Websockets!TypeOK, Websockets!Goto,
                          Websockets!Handler
    <2>3. CASE Websockets!BeginWrite(c) \/ Websockets!EndWrite(c) \/ Websockets!Close(c)
        BY <1>0, <2>3 DEF Websockets!BeginWrite, Websockets!EndWrite, Websockets!Close,
                          Websockets!TypeOK, Websockets!Goto, Websockets!Handler
    <2>4. CASE Websockets!BeginRemove(c)
        BY <1>0, <2>4 DEF Websockets!BeginRemove, Websockets!TypeOK,
                          Websockets!Broadcasting
    <2>5. QED
        BY <1>2, <2>1, <2>2, <2>3, <2>4 DEF Websockets!Serve
<1>3. CASE Websockets!MoveOne
    <2>1. leaving.to \in 1 .. Len(array) /\ leaving.from \in 1 .. Len(array)
        BY <1>0, <1>3 DEF Websockets!MoveOne, Websockets!Locked, Removing
    <2>2. array' = [array EXCEPT ![leaving.to] = array[leaving.from]]
        BY <1>3 DEF Websockets!MoveOne
    <2>3. array' \in Seq(S) /\ Len(array') = Len(array)
        BY <1>0, <2>1, <2>2, OneElementChanged
    <2>4. leaving' \in [conn : S, from : Nat, to : Nat]
        <3>1. leaving' = [leaving EXCEPT !.from = @ + 1, !.to = @ + 1]
            BY <1>3 DEF Websockets!MoveOne
        <3>2. leaving.from + 1 \in Nat /\ leaving.to + 1 \in Nat
            BY <1>0
        <3>3. QED
            BY <1>0, <3>1, <3>2, OneDown
    <2>5. UNCHANGED <<len, conn, prompts, report, handled, crashed, sent, due, disturbed>>
        BY <1>3 DEF Websockets!MoveOne
    <2>6. QED
        BY <2>3, <2>4, <2>5 DEF Websockets!TypeOK
<1>4. CASE Websockets!EndRemove
    <2>1. leaving.to \in 1 .. Len(array) /\ leaving.conn \in Conn /\ len \in 1 .. Len(array)
        BY <1>0, <1>4 DEF Websockets!EndRemove, Websockets!Locked, Removing
    <2> DEFINE cleared == [array EXCEPT ![leaving.to] = None]
    <2>2. cleared \in Seq(S) /\ Len(cleared) = Len(array)
        BY <1>0, <2>1, OneElementChanged
    <2> HIDE DEF cleared
    <2>3. /\ len' = len - 1 /\ array' = IF len' = 0 THEN <<>> ELSE cleared
          /\ conn' = [conn EXCEPT ![leaving.conn] = "closed"]
          /\ leaving' = Websockets!NotLeaving
          /\ report' = IF len' # 0 THEN report
               ELSE [r \in Reports |->
                        IF r \in Websockets!Broadcasting /\ report[r].old = <<>>
                        THEN [report[r] EXCEPT !.old = cleared] ELSE report[r]]
          /\ UNCHANGED <<prompts, handled, crashed, sent, due, disturbed>>
        BY <1>4 DEF Websockets!EndRemove, Websockets!Goto, cleared
    <2>4. array' \in Seq(S) /\ len' \in 0 .. Len(array')
        BY <2>1, <2>2, <2>3
    <2>5. report' \in [Reports -> Websockets!Report]
        <3>1. CASE len' # 0
            BY <1>0, <2>3, <3>1
        <3>2. CASE len' = 0
            BY <1>0, <2>2, <2>3, <3>2, ArrayGivenUp
        <3>3. QED
            BY <3>1, <3>2
    <2>6. QED
        BY <1>0, <2>1, <2>3, <2>4, <2>5 DEF Websockets!TypeOK, Websockets!Handler,
                                           Websockets!NotLeaving
<1>5. ASSUME NEW r \in Reports,
             \/ Websockets!BeginReport(r) \/ Websockets!WriteReport(r)
             \/ Websockets!ReportWritten(r) \/ Websockets!EndReport(r)
      PROVE  Websockets!TypeOK'
    <2>0. /\ report[r] \in Websockets!Report
          /\ UNCHANGED <<array, len, conn, prompts, leaving, handled, disturbed>>
        BY <1>0, <1>5 DEF Websockets!BeginReport, Websockets!WriteReport,
                          Websockets!ReportWritten, Websockets!EndReport
    <2>a. ASSUME report' \in [Reports -> Websockets!Report], sent' \in [Reports -> Seq(Conn)],
                 due' \in [Reports -> SUBSET Conn], crashed' \in BOOLEAN
          PROVE  Websockets!TypeOK'
        BY <2>0, <2>a DEF Websockets!TypeOK
    <2>b. sent \in [Reports -> Seq(Conn)] /\ due \in [Reports -> SUBSET Conn] /\ crashed \in BOOLEAN
        BY DEF Websockets!TypeOK
    <2>1. CASE Websockets!BeginReport(r)
        <3>1. /\ \/ report' = [report EXCEPT ![r] = [Websockets!NoReport EXCEPT !.at = "next", !.len = len]]
                 \/ report' = [report EXCEPT ![r].at = "done"]
              /\ due' = [due EXCEPT ![r] = Websockets!Open] \/ due' = due
              /\ UNCHANGED <<sent, crashed>>
            BY <2>1 DEF Websockets!BeginReport
        <3>2. report' \in [Reports -> Websockets!Report]
            <4>1. [Websockets!NoReport EXCEPT !.at = "next", !.len = len] \in Websockets!Report
                BY <1>0, NewReportType
            <4>2. [report[r] EXCEPT !.at = "done"] \in Websockets!Report
                BY <2>0 DEF Websockets!Report
            <4>3. QED
                BY <1>0, <3>1, <4>1, <4>2
        <3>3. due' \in [Reports -> SUBSET Conn]
            BY <2>b, <3>1 DEF Websockets!Open
        <3>4. QED
            BY <2>a, <2>b, <3>1, <3>2, <3>3
    <2>2. CASE Websockets!WriteReport(r)
        <3>1. CASE crashed' = TRUE /\ UNCHANGED <<report, sent>>
            BY <1>0, <2>0, <2>2, <2>a, <2>b, <3>1 DEF Websockets!WriteReport
        <3>2. CASE ~ (crashed' = TRUE /\ UNCHANGED <<report, sent>>)
            <4> DEFINE c == Websockets!Element(r)
            <4>1. c \in S
                <5>1. r \in Websockets!Broadcasting /\ report[r].index <= report[r].len
                    BY <2>2 DEF Websockets!WriteReport, Websockets!Broadcasting
                <5>2. report[r].index \in 1 .. Len(Slice(r))
                    BY <2>0, <5>1 DEF InRange, Websockets!Report
                <5>3. Slice(r) \in Seq(S)
                    BY <1>0, <2>0 DEF Slice, Websockets!Report
                <5>4. c = Slice(r)[report[r].index]
                    BY DEF Websockets!Element, Slice
                <5>5. QED
                    BY <5>2, <5>3, <5>4
            <4>2. /\ c # None
                  /\ report' = [report EXCEPT ![r].at = "writing", ![r].target = c]
                  /\ sent' = [sent EXCEPT ![r] = Append(@, c)]
                  /\ UNCHANGED due /\ crashed' = FALSE
                BY <2>2, <3>2 DEF Websockets!WriteReport
            <4> HIDE DEF c
            <4>3. [report[r] EXCEPT !.at = "writing", !.target = c] \in Websockets!Report
                BY <2>0, <4>1 DEF Websockets!Report
            <4>4. report' \in [Reports -> Websockets!Report]
                BY <1>0, <4>2, <4>3
            <4>5. sent' \in [Reports -> Seq(Conn)]
                BY <1>0, <4>1, <4>2
            <4>6. QED
                BY <2>a, <2>b, <4>2, <4>4, <4>5
        <3>3. QED
            BY <3>1, <3>2
    <2>3. CASE Websockets!ReportWritten(r)
        <3>1. /\ report' = [report EXCEPT ![r].at = "next", ![r].target = None, ![r].index = @ + 1]
              /\ UNCHANGED <<sent, due, crashed>>
            BY <2>3 DEF Websockets!ReportWritten
        <3>2. [report[r] EXCEPT !.at = "next", !.target = None, !.index = report[r].index + 1]
              \in Websockets!Report
            <4>1. report[r].index + 1 \in Nat /\ None \in S /\ <<>> \in Seq(S)
                BY <2>0 DEF Websockets!Report
            <4>2. QED
                BY <2>0, <4>1, OldReportType
        <3>3. report' \in [Reports -> Websockets!Report]
            BY <1>0, <3>1, <3>2
        <3>4. QED
            BY <2>a, <2>b, <3>1, <3>3
    <2>4. CASE Websockets!EndReport(r)
        <3>1. /\ report' = [report EXCEPT ![r] = [Websockets!NoReport EXCEPT !.at = "done"]]
              /\ UNCHANGED <<sent, due, crashed>>
            BY <2>4 DEF Websockets!EndReport
        <3>2. [Websockets!NoReport EXCEPT !.at = "done"] \in Websockets!Report
            BY NewReportType DEF Websockets!NoReport, Websockets!Report
        <3>3. report' \in [Reports -> Websockets!Report]
            BY <1>0, <3>1, <3>2
        <3>4. QED
            BY <2>a, <2>b, <3>1, <3>3
    <2>5. QED
        BY <1>5, <2>1, <2>2, <2>3, <2>4
<1>6. CASE UNCHANGED Websockets!vars
    BY <1>6 DEF Websockets!vars, Websockets!TypeOK
<1>7. QED
    BY <1>1, <1>2, <1>3, <1>4, <1>5, <1>6 DEF Websockets!Next


\* The slice of connections and the removal from it.
LEMMA ListStep ==
    ASSUME Websockets!TypeOK, Websockets!TypeOK', Removing, Listed, Websockets!Next
    PROVE  Removing' /\ Listed'
<1> USE WebsocketAssumption
<1> DEFINE S == Conn \cup {None}
<1>0. /\ array \in Seq(S) /\ array' \in Seq(S)
      /\ len \in 0 .. Len(array) /\ len \in Nat /\ len' \in Nat
      /\ conn \in [Conn -> Websockets!Handler]
      /\ leaving \in [conn : S, from : Nat, to : Nat]
    BY DEF Websockets!TypeOK
<1>a. ASSUME UNCHANGED <<array, len, leaving>>, Websockets!Open' = Websockets!Open,
             Websockets!Locked => conn'[leaving.conn] = conn[leaving.conn]
      PROVE  Removing' /\ Listed'
    BY <1>a DEF Removing, Listed, Places, Websockets!Locked
<1>1. CASE Websockets!SetTaskReportHandler
    BY <1>1, <1>a DEF Websockets!SetTaskReportHandler, Websockets!Open
<1>2. ASSUME NEW c \in Conn, Websockets!Serve(c)
      PROVE  Removing' /\ Listed'
    <2>1. CASE Websockets!Register(c)
        <3>1. /\ leaving.conn = None /\ leaving.to = 0 /\ conn[c] = "new"
              /\ len' = len + 1 /\ conn' = [conn EXCEPT ![c] = "reading"]
              /\ leaving' = leaving
            BY <2>1 DEF Websockets!Register, Websockets!Goto, Websockets!Locked, Removing
        <3>2. Places = 1 .. len /\ Places' = 1 .. len + 1
            BY <1>0, <3>1 DEF Places
        <3>3. array'[len + 1] = c /\ \A i \in 1 .. len : array'[i] = array[i]
            <4>1. CASE len < Len(array)
                <5>1. array' = [array EXCEPT ![len + 1] = c]
                    BY <2>1, <3>1, <4>1 DEF Websockets!Register
                <5>2. len + 1 \in 1 .. Len(array)
                    BY <1>0, <4>1
                <5>3. QED
                    BY <1>0, <5>1, <5>2, OneElementChanged
            <4>2. CASE ~ (len < Len(array))
                <5> DEFINE n == IF len = 0 THEN 1 ELSE 2 * len
                <5>1. array' = [i \in 1 .. n |->
                         IF i <= len THEN array[i] ELSE IF i = len' THEN c ELSE None]
                    BY <2>1, <4>2 DEF Websockets!Register
                <5>2. \A i \in 1 .. len + 1 : i \in 1 .. n /\ (i <= len <=> i # len + 1)
                    BY <1>0
                <5> HIDE DEF n
                <5>3. QED
                    BY <1>0, <3>1, <5>1, <5>2
            <4>3. QED
                BY <4>1, <4>2
        <3>4. \A d \in Conn : d \in Websockets!Open' <=> d = c \/ d \in Websockets!Open
            BY <1>0, <3>1 DEF Websockets!Open
        <3>5. c \notin Websockets!Open
            BY <3>1 DEF Websockets!Open
        <3>6. \A d \in Conn : d # None
            OBVIOUS
        <3>7. \A i \in 1 .. len : array'[i] \in Conn /\ array'[i] # c
            BY <3>1, <3>2, <3>3, <3>5 DEF Listed
        <3>8. /\ \A i \in Places' : array'[i] \in Conn
              /\ \A i, j \in Places' : array'[i] = array'[j] => i = j
            <4>1. \A i \in Places' : i \in 1 .. len \/ i = len + 1
                BY <1>0, <3>2
            <4>2. QED
                BY <3>2, <3>3, <3>7, <4>1 DEF Listed
        <3>9. \A d \in Conn : d \in Websockets!Open' /\ d # leaving'.conn
                             <=> \E i \in Places' : array'[i] = d
            <4>1. 1 .. len \subseteq Places' /\ len + 1 \in Places'
                  /\ \A i \in Places' : i \in 1 .. len \/ i = len + 1
                BY <1>0, <3>2
            <4>2. \A d \in Conn : d \in Websockets!Open <=> \E i \in 1 .. len : array[i] = d
                BY <3>1, <3>2, <3>6 DEF Listed
            <4>3. QED
                BY <3>1, <3>3, <3>4, <3>6, <4>1, <4>2
        <3>10. Removing'
            BY <3>1 DEF Removing
        <3>11. QED
            BY <3>8, <3>9, <3>10 DEF Listed
    <2>2. CASE \/ Websockets!ReadPrompt(c) \/ Websockets!BeginWrite(c)
               \/ Websockets!EndWrite(c) \/ Websockets!Close(c)
        <3>1. /\ UNCHANGED <<array, len, leaving>>
              /\ conn[c] \in {"reading", "answering", "writing"}
              /\ \E at \in {"reading", "answering", "writing", "removing"} :
                   conn' = [conn EXCEPT ![c] = at]
            BY <2>2 DEF Websockets!ReadPrompt, Websockets!BeginWrite, Websockets!EndWrite,
                        Websockets!Close, Websockets!Goto
        <3>2. Websockets!Open' = Websockets!Open
            BY <1>0, <3>1 DEF Websockets!Open
        <3>3. Websockets!Locked => conn'[leaving.conn] = conn[leaving.conn]
            BY <1>0, <3>1 DEF Removing, Websockets!Locked
        <3>4. QED
            BY <1>a, <3>1, <3>2, <3>3
    <2>3. CASE Websockets!BeginRemove(c)
        <3>1. /\ UNCHANGED <<array, len, conn>>
              /\ leaving.conn = None /\ leaving.to = 0 /\ conn[c] = "removing"
            BY <2>3 DEF Websockets!BeginRemove, Websockets!Locked, Removing
        <3>2. PICK i \in 1 .. len : /\ array[i] = c
                                   /\ leaving' = [conn |-> c, from |-> i + 1, to |-> i]
            BY <2>3 DEF Websockets!BeginRemove
        <3>3. Places = 1 .. len /\ Places' = (1 .. len) \ {i}
            BY <1>0, <3>1, <3>2 DEF Places
        <3>4. Removing'
            BY <3>1, <3>2 DEF Removing
        <3>5. Websockets!Open' = Websockets!Open
            BY <3>1 DEF Websockets!Open
        <3>6. Listed'
            BY <3>1, <3>2, <3>3, <3>5 DEF Listed
        <3>7. QED
            BY <3>4, <3>6
    <2>4. QED
        BY <1>2, <2>1, <2>2, <2>3 DEF Websockets!Serve
<1>3. CASE Websockets!MoveOne
    <2> DEFINE t == leaving.to
    <2>1. /\ leaving.conn # None /\ t \in 1 .. len /\ leaving.from = t + 1
          /\ conn[leaving.conn] = "removing" /\ t + 1 <= len
          /\ array' = [array EXCEPT ![t] = array[t + 1]]
          /\ leaving' = [leaving EXCEPT !.from = @ + 1, !.to = @ + 1]
          /\ UNCHANGED <<len, conn>>
        BY <1>3 DEF Websockets!MoveOne, Websockets!Locked, Removing
    <2>2. leaving'.conn = leaving.conn /\ leaving'.from = t + 2 /\ leaving'.to = t + 1
        <3>1. leaving.from + 1 \in Nat /\ t + 1 \in Nat /\ leaving.from + 1 = t + 2
            BY <1>0, <2>1
        <3>2. QED
            BY <1>0, <2>1, <3>1, OneDown
    <2>3. t \in 1 .. Len(array) /\ t + 1 \in 1 .. Len(array) /\ t + 1 \in 1 .. len
        BY <1>0, <2>1
    <2>4. \A j \in 1 .. Len(array) : array'[j] = IF j = t THEN array[t + 1] ELSE array[j]
        <3>1. array[t + 1] \in S
            BY <1>0, <2>3
        <3>2. QED
            BY <1>0, <2>1, <2>3, <3>1, OneElementChanged
    <2>5. Places = (1 .. len) \ {t} /\ Places' = (1 .. len) \ {t + 1}
        BY <2>1, <2>2 DEF Places
    <2> HIDE DEF t
    \* The element has moved from the place t + 1 to the place t.
    <2> DEFINE From(i) == IF i = t THEN t + 1 ELSE i
    <2>6. /\ \A i \in Places' : From(i) \in Places /\ array'[i] = array[From(i)]
          /\ \A i, j \in Places' : From(i) = From(j) => i = j
          /\ \A k \in Places : \E i \in Places' : From(i) = k
        <3>1. \A i \in 1 .. len : i \in 1 .. Len(array)
            BY <1>0
        <3>2. \A i \in Places' : From(i) \in Places /\ array'[i] = array[From(i)]
            BY <2>3, <2>4, <2>5, <3>1
        <3>3. \A i, j \in Places' : From(i) = From(j) => i = j
            BY <2>3, <2>5
        <3>4. ASSUME NEW k \in Places
              PROVE  \E i \in Places' : From(i) = k
            <4>1. CASE k = t + 1
                <5>1. t \in Places' /\ From(t) = k
                    BY <2>1, <2>3, <2>5, <4>1
                <5>2. QED
                    BY <5>1
            <4>2. CASE k # t + 1
                <5>1. k \in Places' /\ From(k) = k
                    BY <2>5, <4>2
                <5>2. QED
                    BY <5>1
            <4>3. QED
                BY <4>1, <4>2
        <3>5. QED
            BY <3>2, <3>3, <3>4
    <2> HIDE DEF From
    <2>7. Websockets!Open' = Websockets!Open
        BY <2>1 DEF Websockets!Open
    <2>8. Listed'
        <3>1. \A i \in Places' : array'[i] \in Conn
            BY <2>6 DEF Listed
        <3>2. \A i, j \in Places' : array'[i] = array'[j] => i = j
            BY <2>6 DEF Listed
        <3>3. \A d \in Conn : d \in Websockets!Open' /\ d # leaving'.conn
                             <=> \E i \in Places' : array'[i] = d
            BY <2>2, <2>6, <2>7 DEF Listed
        <3>4. QED
            BY <3>1, <3>2, <3>3 DEF Listed
    <2>9. Removing'
        BY <2>1, <2>2, <2>3 DEF Removing
    <2>10. QED
        BY <2>8, <2>9
<1>4. CASE Websockets!EndRemove
    <2>1. /\ leaving.conn # None /\ leaving.conn \in Conn /\ leaving.to = len /\ len >= 1
          /\ conn[leaving.conn] = "removing" /\ len' = len - 1
          /\ array' = IF len' = 0 THEN <<>> ELSE [array EXCEPT ![leaving.to] = None]
          /\ conn' = [conn EXCEPT ![leaving.conn] = "closed"]
          /\ leaving' = Websockets!NotLeaving
        BY <1>0, <1>4 DEF Websockets!EndRemove, Websockets!Locked, Removing, Websockets!Goto
    <2>2. leaving'.conn = None /\ leaving'.to = 0
        BY <2>1 DEF Websockets!NotLeaving
    <2>3. Places = 1 .. len' /\ Places' = 1 .. len'
        BY <1>0, <2>1, <2>2 DEF Places
    <2>4. \A i \in Places' : array'[i] = array[i]
        <3>1. CASE len' = 0
            BY <2>3, <3>1
        <3>2. CASE len' # 0
            <4>1. array' = [array EXCEPT ![len] = None] /\ len \in 1 .. Len(array)
                BY <1>0, <2>1, <3>2
            <4>2. \A i \in Places' : i \in 1 .. Len(array) /\ i # len
                BY <1>0, <2>1, <2>3
            <4>3. QED
                BY <1>0, <4>1, <4>2, OneElementChanged
        <3>3. QED
            BY <3>1, <3>2
    <2>5. \A d \in Conn : d \in Websockets!Open' <=> d \in Websockets!Open /\ d # leaving.conn
        BY <1>0, <2>1 DEF Websockets!Open
    <2>6. \A d \in Conn : d # None
        OBVIOUS
    <2>7. Listed'
        BY <2>2, <2>3, <2>4, <2>5, <2>6 DEF Listed
    <2>8. Removing'
        BY <2>2 DEF Removing
    <2>9. QED
        BY <2>7, <2>8
<1>5. ASSUME NEW r \in Reports,
             \/ Websockets!BeginReport(r) \/ Websockets!WriteReport(r)
             \/ Websockets!ReportWritten(r) \/ Websockets!EndReport(r)
      PROVE  Removing' /\ Listed'
    <2>1. UNCHANGED <<array, len, conn, leaving>>
        BY <1>5 DEF Websockets!BeginReport, Websockets!WriteReport,
                    Websockets!ReportWritten, Websockets!EndReport
    <2>2. QED
        BY <1>a, <2>1 DEF Websockets!Open
<1>6. QED
    BY <1>1, <1>2, <1>3, <1>4, <1>5 DEF Websockets!Next


\* What a report has done and has in hand does not change as long as its array
\* keeps the elements that are its own.
LEMMA ReportKept ==
    ASSUME Websockets!TypeOK, NEW r \in Reports, Undisturbed(r),
           report'[r].at = report[r].at, report'[r].len = report[r].len,
           report'[r].index = report[r].index,
           sent'[r] = sent[r], due'[r] = due[r], leaving'.conn = None,
           \A i \in 1 .. report[r].len : Slice(r)'[i] = Slice(r)[i],
           report'[r].old = <<>> => report[r].len <= len'
    PROVE  Undisturbed(r)'
<1>1. HoldsDue(r)'
    BY DEF Undisturbed, HoldsDue
<1>2. Len(sent[r]) <= report[r].len
    BY DEF Undisturbed, SentSoFar, Websockets!TypeOK, Websockets!Report
<1>3. \A i \in 1 .. Len(sent[r]) : i \in 1 .. report[r].len
    BY <1>2 DEF Websockets!TypeOK, Websockets!Report
<1>4. SentSoFar(r)'
    BY <1>3 DEF Undisturbed, SentSoFar
<1>5. QED
    BY <1>1, <1>4 DEF Undisturbed

\* The steps of the handlers, as far as the reports are concerned.
LEMMA HandlerKeepsReports ==
    ASSUME Websockets!TypeOK, Removing, ReportsAreSent, 
           \/ Websockets!SetTaskReportHandler
           \/ \E c \in Conn : Websockets!Serve(c)
           \/ Websockets!MoveOne \/ Websockets!EndRemove
    PROVE  ReportsAreSent'
<1> USE WebsocketAssumption
<1> DEFINE S == Conn \cup {None}
<1>0. /\ array \in Seq(S) /\ len \in 0 .. Len(array) /\ len \in Nat
      /\ leaving \in [conn : S, from : Nat, to : Nat]
      /\ report \in [Reports -> Websockets!Report]
    BY DEF Websockets!TypeOK
<1>1. ASSUME \A r \in Reports : /\ report'[r].at = report[r].at
                                /\ report'[r].len = report[r].len
                                /\ report'[r].index = report[r].index,
             UNCHANGED <<sent, due>>, disturbed \subseteq disturbed',
             \A r \in Websockets!Broadcasting : report[r].len \in 1 .. Len(Slice(r)'),
             \A r \in Websockets!Broadcasting \ disturbed' : Undisturbed(r)'
      PROVE  ReportsAreSent'
    <2>1. Websockets!Broadcasting' = Websockets!Broadcasting
        BY <1>1 DEF Websockets!Broadcasting
    <2>2. InRange'
        <3>1. \A r \in Websockets!Broadcasting : r \in Reports
            BY DEF Websockets!Broadcasting
        <3>2. QED
            BY <1>1, <2>1, <3>1 DEF InRange, ReportsAreSent
    <2>3. ReportsReachAll'
        BY <1>1 DEF ReportsAreSent, ReportsReachAll, Websockets!ReportsReachAll
    <2>4. QED
        BY <1>1, <2>1, <2>2, <2>3 DEF ReportsAreSent
<1>2. \A r \in Websockets!Broadcasting : /\ r \in Reports /\ report[r].len \in 1 .. Len(Slice(r))
                                         /\ r \notin disturbed => Undisturbed(r)
    BY DEF ReportsAreSent, InRange, Websockets!Broadcasting
\* Nothing that concerns the reports changes.
<1>3. ASSUME UNCHANGED <<array, len, report, sent, due>>, disturbed \subseteq disturbed',
             leaving'.conn = leaving.conn \/ Websockets!Broadcasting \subseteq disturbed'
      PROVE  ReportsAreSent'
    <2>1. \A r \in Reports : Slice(r)' = Slice(r)
        BY <1>3 DEF Slice
    <2>2. ASSUME NEW r \in Websockets!Broadcasting \ disturbed'
          PROVE  Undisturbed(r)'
        <3>1. r \in Reports /\ Undisturbed(r) /\ leaving'.conn = leaving.conn
            BY <1>2, <1>3
        <3>2. QED
            BY <1>3, <2>1, <3>1 DEF Undisturbed, HoldsDue, SentSoFar
    <2>3. QED
        BY <1>1, <1>2, <1>3, <2>1, <2>2
<1>4. CASE Websockets!SetTaskReportHandler
    BY <1>3, <1>4 DEF Websockets!SetTaskReportHandler
<1>5. ASSUME NEW c \in Conn, Websockets!Serve(c)
      PROVE  ReportsAreSent'
    <2>1. CASE Websockets!Register(c)
        <3>1. /\ leaving.conn = None /\ leaving' = leaving /\ len' = len + 1
              /\ UNCHANGED <<sent, due, disturbed>>
            BY <2>1 DEF Websockets!Register, Websockets!Locked
        <3>2. CASE len < Len(array)
            <4>1. array' = [array EXCEPT ![len + 1] = c] /\ report' = report
                BY <2>1, <3>1, <3>2 DEF Websockets!Register
            <4>2. len + 1 \in 1 .. Len(array)
                BY <1>0, <3>2
            <4>3. /\ Len(array') = Len(array)
                  /\ \A i \in 1 .. len : array'[i] = array[i]
                <5>1. \A i \in 1 .. len : i \in 1 .. Len(array) /\ i # len + 1
                    BY <1>0
                <5>2. QED
                    BY <1>0, <4>1, <4>2, <5>1, OneElementChanged
            <4>4. \A r \in Websockets!Broadcasting : report[r].len \in 1 .. Len(Slice(r)')
                BY <1>2, <4>1, <4>3 DEF Slice
            <4>5. ASSUME NEW r \in Websockets!Broadcasting \ disturbed'
                  PROVE  Undisturbed(r)'
                <5>1. r \in Reports /\ Undisturbed(r) /\ report[r] \in Websockets!Report
                    BY <1>0, <1>2, <3>1
                <5>2. report[r].old = <<>> => report[r].len <= len
                    BY <5>1 DEF Undisturbed, HoldsDue
                <5>3. \A i \in 1 .. report[r].len : Slice(r)'[i] = Slice(r)[i]
                    <6>1. CASE report[r].old = <<>>
                        <7>1. \A i \in 1 .. report[r].len : i \in 1 .. len
                            BY <1>0, <5>1, <5>2, <6>1 DEF Websockets!Report
                        <7>2. QED
                            BY <4>1, <4>3, <6>1, <7>1 DEF Slice
                    <6>2. CASE report[r].old # <<>>
                        BY <4>1, <6>2 DEF Slice
                    <6>3. QED
                        BY <6>1, <6>2
                <5>4. report'[r].old = <<>> => report[r].len <= len'
                    BY <1>0, <3>1, <4>1, <5>1, <5>2 DEF Websockets!Report
                <5>5. QED
                    BY <3>1, <4>1, <5>1, <5>3, <5>4, ReportKept
            <4>6. QED
                BY <1>1, <3>1, <4>1, <4>4, <4>5
        <3>3. CASE ~ (len < Len(array))
            <4>1. report' = [r \in Reports |->
                      IF r \in Websockets!Broadcasting /\ report[r].old = <<>>
                      THEN [report[r] EXCEPT !.old = array] ELSE report[r]]
                BY <2>1, <3>3 DEF Websockets!Register
            <4>2. /\ \A r \in Reports :
                       /\ report'[r].at = report[r].at /\ report'[r].len = report[r].len
                       /\ report'[r].index = report[r].index
                  /\ \A r \in Websockets!Broadcasting :
                       /\ report'[r].old # <<>>
                       /\ report'[r].old = IF report[r].old = <<>> THEN array ELSE report[r].old
                       /\ report'[r].len \in 1 .. Len(report'[r].old)
                BY <1>0, <4>1, ArrayGivenUp DEF ReportsAreSent
            <4>3. \A r \in Websockets!Broadcasting : Slice(r)' = Slice(r) /\ r \in Reports
                BY <1>2, <4>2 DEF Slice
            <4>4. ASSUME NEW r \in Websockets!Broadcasting \ disturbed'
                  PROVE  Undisturbed(r)'
                <5>1. r \in Reports /\ Undisturbed(r)
                    BY <1>2, <3>1
                <5>2. QED
                    BY <3>1, <4>2, <4>3, <5>1, ReportKept
            <4>5. \A r \in Websockets!Broadcasting : report[r].len \in 1 .. Len(Slice(r)')
                BY <1>2, <4>3
            <4>6. QED
                BY <1>1, <3>1, <4>2, <4>4, <4>5
        <3>4. QED
            BY <3>2, <3>3
    <2>2. CASE \/ Websockets!ReadPrompt(c) \/ Websockets!BeginWrite(c)
               \/ Websockets!EndWrite(c) \/ Websockets!Close(c)
        BY <1>3, <2>2 DEF Websockets!ReadPrompt, Websockets!BeginWrite, Websockets!EndWrite,
                    Websockets!Close
    <2>3. CASE Websockets!BeginRemove(c)
        BY <1>3, <2>3 DEF Websockets!BeginRemove
    <2>4. QED
        BY <1>5, <2>1, <2>2, <2>3 DEF Websockets!Serve
\* No report goes undisturbed by a removal that is under way.
<1>6. ASSUME Websockets!Locked
      PROVE  Websockets!Broadcasting \subseteq disturbed
    BY <1>2, <1>6 DEF Undisturbed, Websockets!Locked
<1>7. CASE Websockets!MoveOne
    <2>1. /\ leaving.to \in 1 .. Len(array) /\ leaving.from \in 1 .. Len(array)
          /\ array' = [array EXCEPT ![leaving.to] = array[leaving.from]]
          /\ UNCHANGED <<report, sent, due, disturbed>> /\ Websockets!Locked
        BY <1>0, <1>7 DEF Websockets!MoveOne, Websockets!Locked, Removing
    <2>2. Len(array') = Len(array)
        <3>1. array[leaving.from] \in S
            BY <1>0, <2>1
        <3>2. QED
            BY <1>0, <2>1, <3>1, OneElementChanged
    <2>3. \A r \in Websockets!Broadcasting : report[r].len \in 1 .. Len(Slice(r)')
        BY <1>2, <2>1, <2>2 DEF Slice
    <2>4. QED
        BY <1>1, <1>6, <2>1, <2>3
<1>8. CASE Websockets!EndRemove
    <2> DEFINE cleared == [array EXCEPT ![leaving.to] = None]
    <2>1. /\ Websockets!Locked /\ leaving.to \in 1 .. Len(array)
          /\ len' = len - 1 /\ array' = IF len' = 0 THEN <<>> ELSE cleared
          /\ report' = IF len' # 0 THEN report
               ELSE [r \in Reports |->
                        IF r \in Websockets!Broadcasting /\ report[r].old = <<>>
                        THEN [report[r] EXCEPT !.old = cleared] ELSE report[r]]
          /\ UNCHANGED <<sent, due, disturbed>>
        BY <1>0, <1>8 DEF Websockets!EndRemove, Websockets!Locked, Removing
    <2>2. cleared \in Seq(S) /\ Len(cleared) = Len(array)
        BY <1>0, <2>1, OneElementChanged
    <2> HIDE DEF cleared
    <2>3. /\ \A r \in Reports : /\ report'[r].at = report[r].at
                                /\ report'[r].len = report[r].len
                                /\ report'[r].index = report[r].index
          /\ \A r \in Websockets!Broadcasting : report[r].len \in 1 .. Len(Slice(r)')
        <3>1. CASE len' # 0
            BY <1>2, <2>1, <2>2, <3>1 DEF Slice
        <3>2. CASE len' = 0
            <4>1. /\ \A r \in Reports :
                       /\ report'[r].at = report[r].at /\ report'[r].len = report[r].len
                       /\ report'[r].index = report[r].index
                  /\ \A r \in Websockets!Broadcasting :
                       /\ report'[r].old # <<>>
                       /\ report'[r].len \in 1 .. Len(report'[r].old)
                BY <2>1, <2>2, <3>2, ArrayGivenUp DEF ReportsAreSent
            <4>2. QED
                BY <1>2, <4>1 DEF Slice
        <3>3. QED
            BY <3>1, <3>2
    <2>4. QED
        BY <1>1, <1>6, <2>1, <2>3
<1>9. QED
    BY <1>4, <1>5, <1>7, <1>8


\* A step of one report leaves the others alone.
LEMMA OthersKept ==
    ASSUME Websockets!TypeOK, ReportsAreSent, NEW r \in Reports,
           UNCHANGED <<array, len, leaving, disturbed>>,
           \A q \in Reports \ {r} : /\ report'[q] = report[q] /\ sent'[q] = sent[q]
                                    /\ due'[q] = due[q],
           r \in Websockets!Broadcasting' =>
               report'[r].len \in 1 .. Len(Slice(r)') /\ report'[r].index >= 1,
           report'[r].at = "idle" => sent'[r] = <<>> /\ due'[r] = {},
           r \in Websockets!Broadcasting' \ disturbed => Undisturbed(r)',
           report'[r].at = "done" /\ r \notin disturbed =>
               /\ due'[r] = {sent'[r][i] : i \in DOMAIN sent'[r]}
               /\ \A i, j \in DOMAIN sent'[r] : sent'[r][i] = sent'[r][j] => i = j
    PROVE  ReportsAreSent'
<1>1. ASSUME NEW q \in Reports \ {r}
      PROVE  /\ q \in Websockets!Broadcasting' <=> q \in Websockets!Broadcasting
             /\ Slice(q)' = Slice(q)
             /\ Undisturbed(q) => Undisturbed(q)'
    <2>1. report'[q] = report[q] /\ sent'[q] = sent[q] /\ due'[q] = due[q]
        BY <1>1
    <2>2. q \in Websockets!Broadcasting' <=> q \in Websockets!Broadcasting
        BY <2>1 DEF Websockets!Broadcasting
    <2>3. Slice(q)' = Slice(q)
        BY <2>1 DEF Slice
    <2>4. HoldsDue(q) => HoldsDue(q)'
        BY <2>1, <2>3 DEF HoldsDue
    <2>5. SentSoFar(q) => SentSoFar(q)'
        BY <2>1, <2>3 DEF SentSoFar
    <2>6. QED
        BY <2>2, <2>3, <2>4, <2>5 DEF Undisturbed
<1>2. \A q \in Websockets!Broadcasting' : q \in Reports
    BY DEF Websockets!Broadcasting
<1>3. InRange'
    BY <1>1, <1>2 DEF InRange, ReportsAreSent
<1>4. \A q \in Websockets!Broadcasting' \ disturbed' : Undisturbed(q)'
    BY <1>1, <1>2 DEF ReportsAreSent
<1>5. ReportsReachAll'
    BY DEF ReportsAreSent, ReportsReachAll, Websockets!ReportsReachAll
<1>6. \A q \in Reports : report'[q].at = "idle" => sent'[q] = <<>> /\ due'[q] = {}
    BY DEF ReportsAreSent
<1>7. QED
    BY <1>3, <1>4, <1>5, <1>6 DEF ReportsAreSent

LEMMA BeginReportIsRight ==
    ASSUME Websockets!TypeOK, Removing, Listed, ReportsAreSent, NEW r \in Reports,
           Websockets!BeginReport(r)
    PROVE  ReportsAreSent'
<1>0. /\ array \in Seq(Conn \cup {None}) /\ len \in 0 .. Len(array) /\ len \in Nat
      /\ report \in [Reports -> Websockets!Report] /\ report[r] \in Websockets!Report
      /\ sent \in [Reports -> Seq(Conn)] /\ due \in [Reports -> SUBSET Conn]
    BY DEF Websockets!TypeOK
<1>1. /\ UNCHANGED <<array, len, conn, leaving, disturbed, sent>>
      /\ sent[r] = <<>> /\ due[r] = {}
    BY DEF Websockets!BeginReport, ReportsAreSent
<1>2. CASE handled /\ len > 0
    <2> DEFINE new == [Websockets!NoReport EXCEPT !.at = "next", !.len = len]
    <2>1. /\ leaving.conn = None /\ leaving.to = 0
          /\ report' = [report EXCEPT ![r] = new]
          /\ due' = [due EXCEPT ![r] = Websockets!Open]
        BY <1>2 DEF Websockets!BeginReport, Websockets!Locked, Removing
    <2>2. /\ new.at = "next" /\ new.len = len /\ new.index = 1 /\ new.old = <<>>
        BY DEF Websockets!NoReport
    <2> HIDE DEF new
    <2>3. report'[r] = new /\ due'[r] = Websockets!Open
        BY <1>0, <2>1
    <2>4. Slice(r)' = array
        BY <1>1, <2>2, <2>3 DEF Slice
    <2>5. Places = 1 .. len
        BY <1>0, <2>1 DEF Places
    <2>6. HoldsDue(r)'
        <3>1. \A i \in 1 .. len : array[i] \in Conn
            BY <2>5 DEF Listed
        <3>2. \A i, j \in 1 .. len : array[i] = array[j] => i = j
            BY <2>5 DEF Listed
        <3>3. Websockets!Open = {array[i] : i \in 1 .. len}
            <4>1. \A c \in Conn : c # None
                BY WebsocketAssumption
            <4>2. \A c \in Conn : c \in Websockets!Open <=> \E i \in 1 .. len : array[i] = c
                BY <2>1, <2>5, <4>1 DEF Listed
            <4>3. \A c \in Websockets!Open : c \in Conn
                BY DEF Websockets!Open
            <4>4. QED
                BY <3>1, <4>2, <4>3
        <3>4. QED
            BY <1>0, <1>1, <2>2, <2>3, <2>4, <3>1, <3>2, <3>3 DEF HoldsDue
    <2>7. SentSoFar(r)'
        BY <1>0, <1>1, <1>2, <2>2, <2>3 DEF SentSoFar
    <2>8. Undisturbed(r)'
        BY <1>1, <2>1, <2>6, <2>7 DEF Undisturbed
    <2>9. report'[r].len \in 1 .. Len(Slice(r)') /\ report'[r].index >= 1
        BY <1>0, <1>2, <2>2, <2>3, <2>4
    <2>10. \A q \in Reports \ {r} : report'[q] = report[q] /\ sent'[q] = sent[q] /\ due'[q] = due[q]
        BY <1>0, <1>1, <2>1
    <2>11. QED
        BY <1>1, <2>2, <2>3, <2>8, <2>9, <2>10, OthersKept
\* Nobody is there, or no handler: the report is over.
<1>3. CASE ~ (handled /\ len > 0)
    <2>1. report' = [report EXCEPT ![r].at = "done"] /\ due' = due
        BY <1>3 DEF Websockets!BeginReport
    <2>2. report'[r].at = "done"
        BY <1>0, <2>1 DEF Websockets!Report
    <2>3. \A q \in Reports \ {r} : report'[q] = report[q] /\ sent'[q] = sent[q] /\ due'[q] = due[q]
        BY <1>0, <1>1, <2>1
    <2>4. r \notin Websockets!Broadcasting'
        BY <2>2 DEF Websockets!Broadcasting
    <2>5. /\ due'[r] = {sent'[r][i] : i \in DOMAIN sent'[r]}
          /\ \A i, j \in DOMAIN sent'[r] : sent'[r][i] = sent'[r][j] => i = j
        BY <1>1, <2>1
    <2>6. QED
        BY <1>1, <2>2, <2>3, <2>4, <2>5, OthersKept
<1>4. QED
    BY <1>2, <1>3

LEMMA WriteReportIsRight ==
    ASSUME Websockets!TypeOK, ReportsAreSent, NEW r \in Reports,
           Websockets!WriteReport(r)
    PROVE  ReportsAreSent'
<1>0. /\ report \in [Reports -> Websockets!Report] /\ report[r] \in Websockets!Report
      /\ sent \in [Reports -> Seq(Conn)] /\ sent[r] \in Seq(Conn)
      /\ array \in Seq(Conn \cup {None})
    BY DEF Websockets!TypeOK
<1>1. /\ UNCHANGED <<array, len, leaving, disturbed, due>>
      /\ report[r].at = "next" /\ report[r].index <= report[r].len
      /\ r \in Websockets!Broadcasting
    BY DEF Websockets!WriteReport, Websockets!Broadcasting
<1>2. CASE UNCHANGED <<report, sent>>
    BY <1>1, <1>2 DEF ReportsAreSent, ReportsReachAll, Websockets!ReportsReachAll, InRange,
        Websockets!Broadcasting, Slice, Undisturbed, HoldsDue, SentSoFar
<1>3. CASE ~ UNCHANGED <<report, sent>>
    <2> DEFINE c == Websockets!Element(r)
    <2>1. /\ report' = [report EXCEPT ![r].at = "writing", ![r].target = c]
          /\ sent' = [sent EXCEPT ![r] = Append(@, c)]
        BY <1>3 DEF Websockets!WriteReport
    <2>2. c = Slice(r)[report[r].index]
        BY DEF Websockets!Element, Slice
    <2> HIDE DEF c
    <2>3. /\ report'[r].at = "writing" /\ report'[r].len = report[r].len
          /\ report'[r].index = report[r].index /\ report'[r].old = report[r].old
          /\ sent'[r] = Append(sent[r], c)
        BY <1>0, <2>1 DEF Websockets!Report
    <2>4. \A q \in Reports \ {r} : report'[q] = report[q] /\ sent'[q] = sent[q] /\ due'[q] = due[q]
        BY <1>0, <1>1, <2>1
    <2>5. Slice(r)' = Slice(r)
        BY <1>1, <2>3 DEF Slice
    <2>6. ASSUME r \notin disturbed
          PROVE  Undisturbed(r)'
        <3>1. Undisturbed(r)
            BY <1>1, <2>6 DEF ReportsAreSent
        <3>2. HoldsDue(r)'
            BY <1>1, <2>3, <2>5, <3>1 DEF Undisturbed, HoldsDue
        <3>3. /\ Len(sent[r]) = report[r].index - 1
              /\ report[r].index \in 1 .. report[r].len + 1
              /\ \A i \in 1 .. Len(sent[r]) : sent[r][i] = Slice(r)[i]
            BY <1>1, <3>1 DEF Undisturbed, SentSoFar
        <3>4. /\ Len(sent'[r]) = report[r].index
              /\ \A i \in 1 .. report[r].index - 1 : sent'[r][i] = sent[r][i]
              /\ sent'[r][report[r].index] = Slice(r)[report[r].index]
            <4> DEFINE n == report[r].index
            <4>1. n \in Nat /\ Len(sent[r]) = n - 1
                BY <1>0, <3>3 DEF Websockets!Report
            <4> HIDE DEF n
            <4>2. /\ Len(Append(sent[r], c)) = n /\ Append(sent[r], c)[n] = c
                  /\ \A i \in 1 .. n - 1 : Append(sent[r], c)[i] = sent[r][i]
                BY <1>0, <4>1
            <4>3. QED
                BY <2>2, <2>3, <4>2 DEF n
        <3>5. \A i \in 1 .. report[r].index : i = report[r].index \/ i \in 1 .. report[r].index - 1
            BY <1>0 DEF Websockets!Report
        <3>6. SentSoFar(r)'
            BY <1>1, <2>3, <2>5, <3>3, <3>4, <3>5 DEF SentSoFar
        <3>7. QED
            BY <1>1, <3>1, <3>2, <3>6 DEF Undisturbed
    <2>7. report'[r].len \in 1 .. Len(Slice(r)') /\ report'[r].index >= 1
        BY <1>1, <2>3, <2>5 DEF ReportsAreSent, InRange
    <2>8. QED
        BY <1>1, <2>3, <2>4, <2>6, <2>7, OthersKept
<1>4. QED
    BY <1>2, <1>3

LEMMA ReportWrittenIsRight ==
    ASSUME Websockets!TypeOK, ReportsAreSent, NEW r \in Reports,
           Websockets!ReportWritten(r)
    PROVE  ReportsAreSent'
<1>0. /\ report \in [Reports -> Websockets!Report] /\ report[r] \in Websockets!Report
      /\ sent \in [Reports -> Seq(Conn)] /\ sent[r] \in Seq(Conn)
    BY DEF Websockets!TypeOK
<1>1. /\ UNCHANGED <<array, len, leaving, disturbed, due, sent>>
      /\ report[r].at = "writing" /\ r \in Websockets!Broadcasting
    BY DEF Websockets!ReportWritten, Websockets!Broadcasting
<1> DEFINE next == [report[r] EXCEPT !.at = "next", !.target = None, !.index = @ + 1]
<1>a. report' = [report EXCEPT ![r] = next]
    BY <1>0 DEF Websockets!ReportWritten
<1>b. /\ next.at = "next" /\ next.len = report[r].len
      /\ next.index = report[r].index + 1 /\ next.old = report[r].old
    BY <1>0 DEF Websockets!Report
<1> HIDE DEF next
<1>2. /\ report'[r].at = "next" /\ report'[r].len = report[r].len
      /\ report'[r].index = report[r].index + 1 /\ report'[r].old = report[r].old
    BY <1>0, <1>a, <1>b
<1>3. \A q \in Reports \ {r} : report'[q] = report[q] /\ sent'[q] = sent[q] /\ due'[q] = due[q]
    BY <1>0, <1>1, <1>a
<1>4. Slice(r)' = Slice(r)
    BY <1>1, <1>2 DEF Slice
<1>5. ASSUME r \notin disturbed
      PROVE  Undisturbed(r)'
    <2>1. Undisturbed(r)
        BY <1>1, <1>5 DEF ReportsAreSent
    <2>2. HoldsDue(r)'
        BY <1>1, <1>2, <1>4, <2>1 DEF Undisturbed, HoldsDue
    <2>3. SentSoFar(r)'
        BY <1>0, <1>1, <1>2, <1>4, <2>1 DEF Undisturbed, SentSoFar, Websockets!Report
    <2>4. QED
        BY <1>1, <2>1, <2>2, <2>3 DEF Undisturbed
<1>6. report'[r].len \in 1 .. Len(Slice(r)') /\ report'[r].index >= 1
    BY <1>0, <1>1, <1>2, <1>4 DEF ReportsAreSent, InRange, Websockets!Report
<1>7. QED
    BY <1>1, <1>2, <1>3, <1>5, <1>6, OthersKept

LEMMA EndReportIsRight ==
    ASSUME Websockets!TypeOK, ReportsAreSent, NEW r \in Reports,
           Websockets!EndReport(r)
    PROVE  ReportsAreSent'
<1>0. /\ report \in [Reports -> Websockets!Report] /\ report[r] \in Websockets!Report
      /\ sent \in [Reports -> Seq(Conn)] /\ sent[r] \in Seq(Conn)
    BY DEF Websockets!TypeOK
<1>1. /\ UNCHANGED <<array, len, leaving, disturbed, due, sent>>
      /\ report[r].at = "next" /\ r \in Websockets!Broadcasting
      /\ report[r].index > report[r].len
      /\ report' = [report EXCEPT ![r] = [Websockets!NoReport EXCEPT !.at = "done"]]
    BY DEF Websockets!EndReport, Websockets!Broadcasting
<1>2. report'[r].at = "done"
    BY <1>0, <1>1 DEF Websockets!NoReport
<1>3. \A q \in Reports \ {r} : report'[q] = report[q] /\ sent'[q] = sent[q] /\ due'[q] = due[q]
    BY <1>0, <1>1
<1>4. ASSUME r \notin disturbed
      PROVE  /\ due'[r] = {sent'[r][i] : i \in DOMAIN sent'[r]}
             /\ \A i, j \in DOMAIN sent'[r] : sent'[r][i] = sent'[r][j] => i = j
    <2>1. HoldsDue(r) /\ SentSoFar(r)
        BY <1>1, <1>4 DEF ReportsAreSent, Undisturbed
    <2>2. Len(sent[r]) = report[r].len
        BY <1>0, <1>1, <2>1 DEF SentSoFar, Websockets!Report
    <2>3. DOMAIN sent[r] = 1 .. report[r].len
        BY <1>0, <2>2
    <2>4. \A i \in DOMAIN sent[r] : sent[r][i] = Slice(r)[i]
        BY <2>1, <2>2, <2>3 DEF SentSoFar
    <2>5. {sent[r][i] : i \in DOMAIN sent[r]} = {Slice(r)[i] : i \in 1 .. report[r].len}
        BY <2>3, <2>4
    <2>6. \A i, j \in DOMAIN sent[r] : sent[r][i] = sent[r][j] => i = j
        BY <2>1, <2>3, <2>4 DEF HoldsDue
    <2>7. QED
        BY <1>1, <2>1, <2>5, <2>6 DEF HoldsDue
<1>5. r \notin Websockets!Broadcasting'
    BY <1>2 DEF Websockets!Broadcasting
<1>6. QED
    BY <1>1, <1>2, <1>3, <1>4, <1>5, OthersKept

\* A process is lost only to what CrashNeedsARace names.
LEMMA CrashIsExplained ==
    ASSUME Websockets!TypeOK, ReportsAreSent, NEW r \in Reports,
           Websockets!WriteReport(r), crashed'
    PROVE  CrashNeedsARace'
<1> USE WebsocketAssumption
<1>0. report[r] \in Websockets!Report
    BY DEF Websockets!TypeOK
<1>c. \A T : Websockets!Cardinality(T) = Cardinality(T)
    BY DEF Cardinality, Websockets!Cardinality
<1> DEFINE c == Websockets!Element(r)
<1>1. /\ UNCHANGED <<report, conn, disturbed>>
      /\ c = None \/ Websockets!Reported(c) \/ conn[c] = "writing"
      /\ report[r].at = "next" /\ report[r].index <= report[r].len
    BY DEF Websockets!WriteReport
<1>2. r \in Websockets!Broadcasting /\ Websockets!Broadcasting' = Websockets!Broadcasting
    BY <1>1 DEF Websockets!Broadcasting
<1>3. CASE r \in disturbed
    BY <1>1, <1>2, <1>3 DEF CrashNeedsARace, Websockets!CrashNeedsARace
<1>4. CASE r \notin disturbed
    <2>1. HoldsDue(r) /\ report[r].index >= 1
        BY <1>2, <1>4 DEF ReportsAreSent, Undisturbed, InRange
    <2>2. c \in Conn
        BY <1>0, <1>1, <2>1 DEF HoldsDue, Slice, Websockets!Element, Websockets!Report
    <2>3. CASE Websockets!Reported(c)
        <3>1. PICK q \in Reports : report[q].at = "writing"
            BY <2>3 DEF Websockets!Reported
        <3>2. q # r /\ {q, r} \subseteq Websockets!Broadcasting
            BY <1>1, <1>2, <3>1 DEF Websockets!Broadcasting
        <3>3. IsFiniteSet(Websockets!Broadcasting)
            BY FS_Subset DEF Websockets!Broadcasting
        <3>4. Cardinality({q, r}) = 2
            <4>1. IsFiniteSet({q}) /\ Cardinality({q}) = 1
                BY FS_Singleton
            <4>2. Cardinality({q} \cup {r}) = Cardinality({q}) + 1
                BY <3>2, <4>1, FS_AddElement
            <4>3. {q} \cup {r} = {q, r}
                OBVIOUS
            <4>4. QED
                BY <4>1, <4>2, <4>3
        <3>5. Cardinality({q, r}) <= Cardinality(Websockets!Broadcasting)
            BY <3>2, <3>3, FS_Subset
        <3>6. Cardinality(Websockets!Broadcasting) > 1
            BY <3>3, <3>4, <3>5, FS_CardinalityType
        <3>7. QED
            BY <1>2, <1>c, <3>6 DEF CrashNeedsARace, Websockets!CrashNeedsARace
    <2>4. CASE conn[c] = "writing"
        BY <1>1, <2>2, <2>4 DEF CrashNeedsARace, Websockets!CrashNeedsARace
    <2>5. QED
        BY <1>1, <2>2, <2>3, <2>4
<1>5. QED
    BY <1>3, <1>4

LEMMA WebStep == WebIInv /\ [Websockets!Next]_Websockets!vars => WebIInv'
<1> SUFFICES ASSUME WebIInv, [Websockets!Next]_Websockets!vars
             PROVE  WebIInv'
    OBVIOUS
<1>0. /\ Websockets!TypeOK /\ Removing /\ Listed /\ ReportsAreSent /\ InRange
      /\ crashed => handled
    BY DEF WebIInv, ReportsAreSent
<1>1. Websockets!TypeOK'
    BY <1>0, WebTypes
<1>2. CASE UNCHANGED Websockets!vars
    BY <1>0, <1>1, <1>2 DEF WebIInv, Websockets!vars, Removing, Listed, Places, ReportsAreSent,
        InRange, Slice, Undisturbed, HoldsDue, SentSoFar, Websockets!Open,
        Websockets!Broadcasting, ReportsReachAll, Websockets!ReportsReachAll,
        CrashNeedsARace, Websockets!CrashNeedsARace
<1>3. CASE Websockets!Next
    <2>1. Removing' /\ Listed'
        BY <1>0, <1>1, <1>3, ListStep
    <2>2. ASSUME NEW r \in Reports,
                 \/ Websockets!BeginReport(r) \/ Websockets!WriteReport(r)
                 \/ Websockets!ReportWritten(r) \/ Websockets!EndReport(r)
          PROVE  ReportsAreSent' /\ (crashed' => handled' /\ CrashNeedsARace')
        <3>1. CASE Websockets!WriteReport(r)
            <4>1. ReportsAreSent'
                BY <1>0, <3>1, WriteReportIsRight
            <4>2. handled'
                BY <3>1 DEF Websockets!WriteReport, Websockets!Up
            <4>3. QED
                BY <1>0, <3>1, <4>1, <4>2, CrashIsExplained
        <3>2. CASE ~ Websockets!WriteReport(r)
            <4>1. ~ crashed'
                BY <2>2, <3>2 DEF Websockets!BeginReport, Websockets!ReportWritten,
                    Websockets!EndReport, Websockets!Up
            <4>2. ReportsAreSent'
                BY <1>0, <2>2, <3>2, BeginReportIsRight, ReportWrittenIsRight, EndReportIsRight
            <4>3. QED
                BY <4>1, <4>2
        <3>3. QED
            BY <3>1, <3>2
    <2>3. ASSUME \/ Websockets!SetTaskReportHandler
                 \/ \E c \in Conn : Websockets!Serve(c)
                 \/ Websockets!MoveOne \/ Websockets!EndRemove
          PROVE  ReportsAreSent' /\ ~ crashed'
        <3>1. ReportsAreSent'
            BY <1>0, <2>3, HandlerKeepsReports
        <3>2. ~ crashed'
            BY <1>0, <2>3 DEF Websockets!SetTaskReportHandler, Websockets!Serve,
                Websockets!Register, Websockets!ReadPrompt, Websockets!BeginWrite,
                Websockets!EndWrite, Websockets!Close, Websockets!BeginRemove,
                Websockets!MoveOne, Websockets!EndRemove, Websockets!Up
        <3>3. QED
            BY <3>1, <3>2
    <2>4. ~ crashed' => CrashNeedsARace'
        BY DEF CrashNeedsARace, Websockets!CrashNeedsARace
    <2>5. ReportsAreSent' /\ (crashed' => handled' /\ CrashNeedsARace')
        BY <1>3, <2>2, <2>3 DEF Websockets!Next
    <2>6. QED
        BY <1>1, <2>1, <2>4, <2>5 DEF WebIInv
<1>4. QED
    BY <1>2, <1>3

\* A task report that no removal met has been written once to every connection
\* that was open when it began, and to no other (Server.handleTaskReport), for
\* any number of connections and reports.
THEOREM ReportsArrive == Websockets!Spec => []ReportsReachAll
<1>1. WebIInv => ReportsReachAll
    BY DEF WebIInv, ReportsAreSent
<1>2. QED
    BY WebInit, WebStep, <1>1, PTL DEF Websockets!Spec

\* The broadcast brings the server down (a nil connection, two writers of one
\* connection) only where a removal met it, two reports met or a prompt was
\* being answered on the connection at that moment.
THEOREM CrashesAreRaces == Websockets!Spec => []CrashNeedsARace
<1>1. WebIInv => CrashNeedsARace
    BY DEF WebIInv
<1>2. QED
    BY WebInit, WebStep, <1>1, PTL DEF Websockets!Spec

-----------------------------------------------------------------------------
(***************************************************************************)
(* The whole                                                               *)
(***************************************************************************)

LEMMA ServerStep ==
    [ServerNext]_<<channelVars, websocketVars, processVars, humanVars>> =>
        /\ [Next]_vars /\ [Websockets!Next]_Websockets!vars
        /\ [Process!Next]_Process!vars /\ [Human!Next]_Human!vars
BY DEF ServerNext, channelVars, websocketVars, processVars, humanVars,
       Websockets!vars, Process!vars, Human!vars

\* The server keeps what each of its parts promises, in whatever order their
\* steps come.
THEOREM ServerIsSafe ==
    ServerSpec => [](/\ ChannelsMatchConfig /\ StrangersComeByOldClients
                     /\ ReportsReachAll /\ CrashNeedsARace
                     /\ FileNamesTheServer /\ AcceptedAnswerStands)
<1>1. ServerInit => Init /\ Websockets!Init /\ Process!Init /\ Human!Init
    BY DEF ServerInit
<1>2. ServerSpec => Spec /\ Websockets!Spec /\ Process!Spec /\ Human!Spec
    BY <1>1, ServerStep, PTL
       DEF ServerSpec, Spec, Websockets!Spec, Process!Spec, Human!Spec
<1>3. QED
    BY <1>2, UpdatesAgree, StrangersAreExplained, ReportsArrive, CrashesAreRaces,
       ServerIsNamed, AnswersStand, PTL

=============================================================================
