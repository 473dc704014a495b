-------------------------- MODULE PromptStreamProofs --------------------------
(***************************************************************************)
(* Proofs that no goroutine of a streamed prompt sends on a closed channel,*)
(* that the client gets the reports in order and the result after them,    *)
(* and that a client that was served got the whole result, for every       *)
(* number of reports and every capacity of the channels.                   *)
(***************************************************************************)
EXTENDS PromptStream, SequenceTheorems, TLAPS

\* The closing order: the loop ends before verboseCh is closed, the forwarder
\* before the result is sent, the responder before out is taken for closed,
\* and the proxy only when nothing can enter out any more.
ClosingOrder ==
    /\ verboseClosed => loop # "running"
    /\ responder \in {"sending", "gone"} => forwarder = "gone"
    /\ outClosed => responder = "gone" /\ toSend = <<>>
    /\ proxyClosed => outClosed /\ passing = <<>> /\ out = <<>>

\* The closing order holds when the prompt starts: nothing is closed.
LEMMA InitialOrder == Init => ClosingOrder
BY DEF Init, ClosingOrder

\* No step of the five goroutines or the client breaks the closing order.
LEMMA OrderIsKept == ClosingOrder /\ [Next]_vars => ClosingOrder'
<1> SUFFICES ASSUME ClosingOrder, [Next]_vars
             PROVE  ClosingOrder'
    OBVIOUS
<1> USE DEF ClosingOrder, loopVars, forwardVars, respondVars, proxyVars, clientVars
<1>1. CASE Loop
    BY <1>1 DEF Loop, Emit, Finish
<1>2. CASE Forwarder
    <2>1. CASE TakeReport
        BY <2>1 DEF TakeReport
    \* A forwarder that holds a report has not ended: out is still open.
    <2>2. CASE Forward
        <3>1. ~ outClosed /\ ~ proxyClosed /\ responder \notin {"sending", "gone"}
            BY <2>2 DEF Forward
        <3>2. QED
            BY <2>2, <3>1 DEF Forward
    <2>3. CASE ForwarderEnds
        BY <2>3 DEF ForwarderEnds
    <2>4. QED
        BY <1>2, <2>1, <2>2, <2>3 DEF Forwarder
<1>3. CASE Responder
    <2>1. CASE GetResult
        BY <2>1 DEF GetResult
    <2>2. CASE Join
        BY <2>2 DEF Join
    <2>3. CASE SendResult
        BY <2>3 DEF SendResult
    <2>4. CASE CloseOut
        BY <2>4 DEF CloseOut
    <2>5. QED
        BY <1>3, <2>1, <2>2, <2>3, <2>4 DEF Responder
<1>4. CASE Proxy
    <2>1. CASE Take
        BY <2>1 DEF Take
    <2>2. CASE CountUsage
        BY <2>2 DEF CountUsage
    <2>3. CASE Pass
        BY <2>3 DEF Pass
    <2>4. CASE CloseProxy
        BY <2>4 DEF CloseProxy
    <2>5. QED
        BY <1>4, <2>1, <2>2, <2>3, <2>4 DEF Proxy
<1>5. CASE Client
    BY <1>5 DEF Client, Receive, EndOfStream
<1>6. CASE Leave
    BY <1>6 DEF Leave
<1>7. CASE UNCHANGED vars
    BY <1>7 DEF vars
<1>8. QED
    BY <1>1, <1>2, <1>3, <1>4, <1>5, <1>6, <1>7 DEF Next

\* No send on a closed channel, whatever the reports, the result and the client
\* (StreamRespond and DelegatePromptStreamWithOptions).
THEOREM ClosedChannelsAreQuiet == Spec => []NoSendAfterClose
<1>1. ClosingOrder => NoSendAfterClose
    BY DEF ClosingOrder, NoSendAfterClose
<1>2. QED
    BY InitialOrder, OrderIsKept, <1>1, PTL DEF Spec

-----------------------------------------------------------------------------
(***************************************************************************)
(* The order of what the client gets                                       *)
(***************************************************************************)

\* x may come before y: an event comes only after earlier events.
Before(x, y) == y[1] = "event" => x[1] = "event" /\ x[2] < y[2]

InOrder(s) == \A i, j \in DOMAIN s : i < j => Before(s[i], s[j])

One(x) == {x} \ {<<>>}

\* Where the chunks are, from the client back to the loop.  What is left in
\* verboseCh when the forwarder has ended goes nowhere.
Stages ==
    <<ToSet(received), ToSet(proxy), One(passing), ToSet(out), One(forwarding),
      IF forwarder = "gone" THEN {} ELSE ToSet(verbose)>>

Precede(F) ==
    \A k, l \in 1 .. 6 : k < l => \A x \in F[k], y \in F[l] : Before(x, y)

SequenceTypes ==
    /\ received \in Seq(Chunk) /\ proxy \in Seq(Chunk) /\ out \in Seq(Chunk)
    /\ verbose \in Seq(Chunk) /\ toSend \in Seq(Chunk)
    /\ passing \in Chunk \cup {<<>>} /\ forwarding \in Chunk \cup {<<>>}
    /\ emitted \in Nat
    /\ forwarder # "sending" <=> forwarding = <<>>

\* An event is one of the first n reports.
Reported(x, n) == x[1] = "event" => x[2] \in Nat /\ x[2] <= n

IsEvent(x) == x[1] = "event"

OrderIInv ==
    /\ SequenceTypes
    /\ InOrder(received) /\ InOrder(proxy) /\ InOrder(out)
    /\ forwarder # "gone" => InOrder(verbose)
    /\ Precede(Stages)
    /\ \A k \in 1 .. 6 : \A x \in Stages[k] : Reported(x, emitted)
    \* No result is on its way before the forwarder has ended.
    /\ forwarder # "gone" => \A k \in 1 .. 6 : \A x \in Stages[k] : IsEvent(x)
    /\ Usage \notin ToSet(received) \cup ToSet(proxy)
    /\ \A x \in ToSet(toSend) : ~ IsEvent(x)

\* What is taken from an ordered channel may come before all that is left.
LEMMA TakenIsFirst ==
    ASSUME NEW s \in Seq(Chunk), s # <<>>, InOrder(s)
    PROVE  /\ Head(s) \in ToSet(s) /\ Head(s) \in Chunk
           /\ Tail(s) \in Seq(Chunk) /\ ToSet(Tail(s)) \subseteq ToSet(s)
           /\ InOrder(Tail(s))
           /\ \A y \in ToSet(Tail(s)) : Before(Head(s), y)
<1>1. /\ Len(s) \in Nat \ {0} /\ DOMAIN s = 1 .. Len(s)
      /\ Head(s) = s[1] /\ Tail(s) \in Seq(Chunk)
      /\ Len(Tail(s)) = Len(s) - 1 /\ DOMAIN Tail(s) = 1 .. Len(s) - 1
      /\ \A i \in 1 .. Len(s) - 1 : Tail(s)[i] = s[i + 1]
    OBVIOUS
<1>2. Head(s) \in ToSet(s) /\ Head(s) \in Chunk
    BY <1>1 DEF ToSet
<1>3. ToSet(Tail(s)) \subseteq ToSet(s)
    BY <1>1 DEF ToSet
<1>4. InOrder(Tail(s))
    <2> SUFFICES ASSUME NEW i \in 1 .. Len(s) - 1, NEW j \in 1 .. Len(s) - 1, i < j
                 PROVE  Before(Tail(s)[i], Tail(s)[j])
        BY <1>1 DEF InOrder
    <2>1. i + 1 \in DOMAIN s /\ j + 1 \in DOMAIN s /\ i + 1 < j + 1
        BY <1>1
    <2>2. Before(s[i + 1], s[j + 1])
        BY <2>1 DEF InOrder
    <2>3. QED
        BY <1>1, <2>2
<1>5. ASSUME NEW y \in ToSet(Tail(s))
      PROVE  Before(Head(s), y)
    <2>1. PICK i \in 1 .. Len(s) - 1 : y = s[i + 1]
        BY <1>1 DEF ToSet
    <2>2. 1 \in DOMAIN s /\ i + 1 \in DOMAIN s /\ 1 < i + 1
        BY <1>1
    <2>3. Before(s[1], s[i + 1])
        BY <2>2 DEF InOrder
    <2>4. QED
        BY <1>1, <2>1, <2>3
<1>6. QED
    BY <1>1, <1>2, <1>3, <1>4, <1>5

\* A channel stays ordered when what enters it may come after all it holds.
LEMMA EnteredIsLast ==
    ASSUME NEW s \in Seq(Chunk), NEW e \in Chunk, InOrder(s),
           \A x \in ToSet(s) : Before(x, e)
    PROVE  /\ Append(s, e) \in Seq(Chunk) /\ InOrder(Append(s, e))
           /\ ToSet(Append(s, e)) = ToSet(s) \cup {e}
<1> DEFINE t == Append(s, e)
<1>1. /\ Len(s) \in Nat /\ DOMAIN s = 1 .. Len(s)
      /\ t \in Seq(Chunk) /\ DOMAIN t = 1 .. Len(s) + 1
      /\ t[Len(s) + 1] = e /\ \A i \in 1 .. Len(s) : t[i] = s[i]
    OBVIOUS
<1> HIDE DEF t
<1>2. ToSet(t) = ToSet(s) \cup {e}
    <2>1. ToSet(s) \subseteq ToSet(t) /\ e \in ToSet(t)
        BY <1>1 DEF ToSet
    <2>2. ASSUME NEW i \in DOMAIN t
          PROVE  t[i] \in ToSet(s) \cup {e}
        BY <1>1 DEF ToSet
    <2>3. QED
        BY <2>1, <2>2 DEF ToSet
<1>3. ASSUME NEW i \in DOMAIN t, NEW j \in DOMAIN t, i < j
      PROVE  Before(t[i], t[j])
    <2>1. i \in DOMAIN s /\ t[i] = s[i]
        BY <1>1, <1>3
    <2>2. CASE j = Len(s) + 1
        BY <1>1, <2>1, <2>2 DEF ToSet
    <2>3. CASE j \in DOMAIN s
        BY <1>1, <1>3, <2>1, <2>3 DEF InOrder
    <2>4. QED
        BY <1>1, <2>2, <2>3
<1>4. QED
    BY <1>1, <1>2, <1>3 DEF t, InOrder

\* The stages stay in order when one chunk enters one of them, after all that
\* is ahead of it and before all that is behind, and the others only shrink.
LEMMA StagesStayInOrder ==
    ASSUME NEW F, NEW G, NEW l \in 1 .. 6, NEW e, Precede(F),
           \A k \in 1 .. 6 \ {l} : G[k] \subseteq F[k],
           G[l] \subseteq F[l] \cup {e},
           \A k \in 1 .. 6 : k < l => \A x \in F[k] : Before(x, e),
           \A k \in 1 .. 6 : l < k => \A y \in G[k] : Before(e, y)
    PROVE  Precede(G)
<1> SUFFICES ASSUME NEW k \in 1 .. 6, NEW m \in 1 .. 6, k < m,
                    NEW x \in G[k], NEW y \in G[m]
             PROVE  Before(x, y)
    BY DEF Precede
<1>1. CASE x \in F[k] /\ y \in F[m]
    BY <1>1 DEF Precede
<1>2. CASE x \notin F[k]
    BY <1>2
<1>3. CASE y \notin F[m]
    <2>1. m = l /\ y = e /\ x \in F[k]
        BY <1>3
    <2>2. QED
        BY <2>1
<1>4. QED
    BY <1>1, <1>2, <1>3

\* They stay in order when all of them only shrink.
LEMMA ShrunkStagesStayInOrder ==
    ASSUME NEW F, NEW G, Precede(F), \A k \in 1 .. 6 : G[k] \subseteq F[k]
    PROVE  Precede(G)
BY DEF Precede

\* The marker for "nothing" is not a chunk.
LEMMA NothingIsNoChunk == <<>> \notin Chunk
BY DEF Chunk, Event, Answer, Usage, Error

\* No chunk is on its way when the prompt starts.
LEMMA InitialStages == Init => OrderIInv
<1> SUFFICES ASSUME Init
             PROVE  OrderIInv
    OBVIOUS
<1>1. SequenceTypes
    BY DEF Init, SequenceTypes
<1>2. \A k \in 1 .. 6 : Stages[k] = {}
    BY DEF Init, Stages, One, ToSet
<1>3. /\ Precede(Stages)
      /\ \A k \in 1 .. 6 : \A x \in Stages[k] : Reported(x, emitted) /\ IsEvent(x)
    BY <1>2 DEF Precede
<1>4. InOrder(<<>>) /\ ToSet(<<>>) = {}
    BY DEF InOrder, ToSet
<1>5. QED
    BY <1>1, <1>3, <1>4 DEF Init, OrderIInv

\* A report enters verboseCh as the newest event.
LEMMA EmitKeepsOrder == OrderIInv /\ Emit => OrderIInv'
<1> SUFFICES ASSUME OrderIInv, Emit
             PROVE  OrderIInv'
    OBVIOUS
<1> DEFINE e == Event(emitted')
<1>0. emitted \in Nat /\ emitted' = emitted + 1 /\ emitted' \in 1 .. MaxEvents
    BY CapsAssumption DEF OrderIInv, SequenceTypes, Emit
<1>1. e \in Chunk /\ e[1] = "event" /\ e[2] = emitted + 1
    BY <1>0 DEF Chunk, Event
<1> HIDE DEF e
<1>2. /\ UNCHANGED <<received, proxy, out, passing, forwarding, forwarder, toSend>>
      /\ verbose' = verbose \/ verbose' = Append(verbose, e)
    BY DEF Emit, e, forwardVars, respondVars, proxyVars, clientVars
<1>3. verbose \in Seq(Chunk) /\ verbose' \in Seq(Chunk)
    <2>1. verbose \in Seq(Chunk)
        BY DEF OrderIInv, SequenceTypes
    <2>2. Append(verbose, e) \in Seq(Chunk)
        BY <1>1, <2>1
    <2>3. QED
        BY <1>2, <2>1, <2>2
<1>4. SequenceTypes'
    BY <1>0, <1>2, <1>3 DEF OrderIInv, SequenceTypes
<1>5. ASSUME NEW k \in 1 .. 6, NEW x \in Stages[k]
      PROVE  /\ Reported(x, emitted')
             /\ IsEvent(x) => Before(x, e)
    <2>1. Reported(x, emitted)
        BY DEF OrderIInv
    <2>2. QED
        BY <2>1, <1>0, <1>1 DEF Reported, Before, IsEvent
<1>6. Reported(e, emitted') /\ IsEvent(e)
    BY <1>0, <1>1 DEF Reported, IsEvent
<1>7. CASE forwarder = "gone" \/ verbose' = verbose
    <2>1. Stages' = Stages
        BY <1>2, <1>7 DEF Stages
    <2>2. QED
        BY <1>2, <1>4, <1>5, <1>7, <2>1 DEF OrderIInv
<1>8. CASE forwarder # "gone" /\ verbose' = Append(verbose, e)
    <2>1. /\ \A k \in 1 .. 5 : Stages'[k] = Stages[k]
          /\ Stages[6] = ToSet(verbose) /\ Stages'[6] = ToSet(verbose')
        BY <1>2, <1>8 DEF Stages
    <2>2. /\ InOrder(verbose)
          /\ \A k \in 1 .. 6 : \A x \in Stages[k] : IsEvent(x) /\ Before(x, e)
        BY <1>5, <1>8 DEF OrderIInv
    <2>3. InOrder(verbose') /\ ToSet(verbose') = ToSet(verbose) \cup {e}
        BY <1>1, <1>3, <1>8, <2>1, <2>2, EnteredIsLast
    <2>4. Precede(Stages)
        BY DEF OrderIInv
    <2>5. Precede(Stages')
        BY <2>1, <2>2, <2>3, <2>4, StagesStayInOrder
    <2>6. \A k \in 1 .. 6 : \A x \in Stages'[k] : Reported(x, emitted') /\ IsEvent(x)
        BY <1>5, <1>6, <2>1, <2>2, <2>3
    <2>7. QED
        BY <1>2, <1>4, <2>3, <2>5, <2>6 DEF OrderIInv
<1>9. QED
    BY <1>2, <1>7, <1>8

\* A chunk that goes from one stage to the one ahead of it stays in order.
LEMMA MovedStaysInOrder ==
    ASSUME NEW F, NEW G, NEW l \in 1 .. 5, NEW e, Precede(F), e \in F[l + 1],
           \A k \in 1 .. 6 \ {l} : G[k] \subseteq F[k],
           G[l] \subseteq F[l] \cup {e},
           \A y \in G[l + 1] : Before(e, y)
    PROVE  /\ Precede(G)
           /\ \A x \in F[l] : Before(x, e)
<1>1. \A k \in 1 .. 6 : k < l + 1 => \A x \in F[k] : Before(x, e)
    BY DEF Precede
<1>2. \A k \in 1 .. 6 : l < k => \A y \in G[k] : Before(e, y)
    <2> SUFFICES ASSUME NEW k \in 1 .. 6, l < k, NEW y \in G[k]
                 PROVE  Before(e, y)
        OBVIOUS
    <2>1. CASE k = l + 1
        BY <2>1
    <2>2. CASE k # l + 1
        <3>1. y \in F[k] /\ l + 1 < k /\ l + 1 \in 1 .. 6
            BY <2>2
        <3>2. QED
            BY <3>1 DEF Precede
    <2>3. QED
        BY <2>1, <2>2
<1>3. \A k \in 1 .. 6 : k < l => \A x \in F[k] : Before(x, e)
    BY <1>1
<1>4. l \in 1 .. 6 /\ l < l + 1
    OBVIOUS
<1>5. Precede(G)
    BY <1>2, <1>3, <1>4, StagesStayInOrder
<1>6. QED
    BY <1>1, <1>4, <1>5

\* The forwarder takes the oldest report, and sends it on or ends.
LEMMA TakeReportKeepsOrder == OrderIInv /\ TakeReport => OrderIInv'
<1> SUFFICES ASSUME OrderIInv, TakeReport
             PROVE  OrderIInv'
    OBVIOUS
<1> DEFINE e == Head(verbose)
<1>1. /\ UNCHANGED <<emitted, received, proxy, out, passing, toSend>>
      /\ forwarder = "idle" /\ forwarder' = "sending" /\ verbose # <<>>
      /\ forwarding' = e /\ verbose' = Tail(verbose)
    BY DEF TakeReport, loopVars, respondVars, proxyVars, clientVars
<1>2. verbose \in Seq(Chunk) /\ InOrder(verbose) /\ forwarding = <<>>
    BY <1>1 DEF OrderIInv, SequenceTypes
<1>3. /\ e \in ToSet(verbose) /\ e \in Chunk
      /\ verbose' \in Seq(Chunk) /\ InOrder(verbose')
      /\ ToSet(verbose') \subseteq ToSet(verbose)
      /\ \A y \in ToSet(verbose') : Before(e, y)
    BY <1>1, <1>2, TakenIsFirst
<1> HIDE DEF e
<1>4. SequenceTypes'
    BY <1>1, <1>3, NothingIsNoChunk DEF OrderIInv, SequenceTypes
<1>5. /\ \A k \in 1 .. 4 : Stages'[k] = Stages[k]
      /\ Stages'[5] \subseteq {e}
      /\ Stages[6] = ToSet(verbose) /\ Stages'[6] = ToSet(verbose')
    BY <1>1 DEF Stages, One
<1>6. Precede(Stages')
    <2>1. Precede(Stages) /\ e \in Stages[5 + 1] /\ 5 \in 1 .. 5
        BY <1>3, <1>5 DEF OrderIInv
    <2>2. /\ \A k \in 1 .. 6 \ {5} : Stages'[k] \subseteq Stages[k]
          /\ Stages'[5] \subseteq Stages[5] \cup {e}
          /\ \A y \in Stages'[5 + 1] : Before(e, y)
        BY <1>3, <1>5
    <2>3. QED
        BY <2>1, <2>2, MovedStaysInOrder
<1>7. \A k \in 1 .. 6 : \A x \in Stages'[k] : Reported(x, emitted') /\ IsEvent(x)
    <2>1. \A k \in 1 .. 6 : \A x \in Stages[k] : Reported(x, emitted') /\ IsEvent(x)
        BY <1>1 DEF OrderIInv
    <2>2. QED
        BY <1>3, <1>5, <2>1
<1>8. QED
    BY <1>1, <1>3, <1>4, <1>6, <1>7 DEF OrderIInv

\* The forwarder puts its report at the end of out, or ends with it.
LEMMA ForwardKeepsOrder == OrderIInv /\ Forward => OrderIInv'
<1> SUFFICES ASSUME OrderIInv, Forward
             PROVE  OrderIInv'
    OBVIOUS
<1> DEFINE e == forwarding
<1>1. /\ UNCHANGED <<emitted, received, proxy, passing, toSend, verbose>>
      /\ forwarder = "sending" /\ forwarding' = <<>>
      /\ \/ forwarder' = "idle" /\ out' = Append(out, e)
         \/ forwarder' = "gone" /\ out' = out
    BY DEF Forward, loopVars, respondVars, proxyVars, clientVars
<1>2. e \in Chunk /\ out \in Seq(Chunk) /\ InOrder(out)
    BY <1>1 DEF OrderIInv, SequenceTypes
<1>3. \A k \in 1 .. 6 : \A x \in Stages[k] : Reported(x, emitted') /\ IsEvent(x)
    BY <1>1 DEF OrderIInv
<1>4. /\ Stages[1] = ToSet(received) /\ Stages[2] = ToSet(proxy)
      /\ Stages[3] = One(passing) /\ Stages[4] = ToSet(out) /\ Stages[5] = {e}
      /\ Stages[6] = ToSet(verbose)
      /\ \A k \in 1 .. 3 : Stages'[k] = Stages[k]
      /\ Stages'[4] = ToSet(out') /\ Stages'[5] = {}
      /\ Stages'[6] \subseteq Stages[6]
    BY <1>1, <1>2, NothingIsNoChunk DEF Stages, One
<1>5. \A x \in ToSet(out) : Before(x, e)
    BY <1>4 DEF OrderIInv, Precede
<1>6. CASE forwarder' = "idle" /\ out' = Append(out, e)
    <2>1. /\ out' \in Seq(Chunk) /\ InOrder(out')
          /\ ToSet(out') = ToSet(out) \cup {e}
        BY <1>2, <1>5, <1>6, EnteredIsLast
    <2>2. Precede(Stages')
        <3>1. Precede(Stages) /\ e \in Stages[4 + 1] /\ 4 \in 1 .. 5
            BY <1>4 DEF OrderIInv
        <3>2. /\ \A k \in 1 .. 6 \ {4} : Stages'[k] \subseteq Stages[k]
              /\ Stages'[4] \subseteq Stages[4] \cup {e}
              /\ \A y \in Stages'[4 + 1] : Before(e, y)
            BY <1>4, <2>1
        <3>3. QED
            BY <3>1, <3>2, MovedStaysInOrder
    <2>3. \A k \in 1 .. 6 : \A x \in Stages'[k] : Reported(x, emitted') /\ IsEvent(x)
        BY <1>3, <1>4, <2>1
    <2>4. SequenceTypes'
        BY <1>1, <1>6, <2>1 DEF OrderIInv, SequenceTypes
    <2>5. QED
        BY <1>1, <1>6, <2>1, <2>2, <2>3, <2>4 DEF OrderIInv
<1>7. CASE forwarder' = "gone" /\ out' = out
    <2>1. \A k \in 1 .. 6 : Stages'[k] \subseteq Stages[k]
        BY <1>4, <1>7
    <2>2. Precede(Stages')
        BY <2>1, ShrunkStagesStayInOrder DEF OrderIInv
    <2>3. SequenceTypes'
        BY <1>1, <1>7 DEF OrderIInv, SequenceTypes
    <2>4. QED
        BY <1>1, <1>3, <1>7, <2>1, <2>2, <2>3 DEF OrderIInv
<1>8. QED
    BY <1>1, <1>6, <1>7

\* The result is sent when the forwarder has ended: what it left in verboseCh
\* is not behind it.
LEMMA SendResultKeepsOrder == ClosingOrder /\ OrderIInv /\ SendResult => OrderIInv'
<1> SUFFICES ASSUME ClosingOrder, OrderIInv, SendResult
             PROVE  OrderIInv'
    OBVIOUS
<1> DEFINE e == Head(toSend)
<1>1. /\ UNCHANGED <<emitted, received, proxy, passing, verbose, forwarder, forwarding>>
      /\ forwarder = "gone" /\ toSend # <<>>
      /\ out' = Append(out, e) /\ toSend' = Tail(toSend)
    BY DEF SendResult, ClosingOrder, loopVars, forwardVars, proxyVars, clientVars
<1>2. /\ toSend \in Seq(Chunk) /\ out \in Seq(Chunk) /\ InOrder(out)
      /\ forwarding = <<>>
    BY <1>1 DEF OrderIInv, SequenceTypes
<1>3. /\ e \in ToSet(toSend) /\ e \in Chunk
      /\ toSend' \in Seq(Chunk) /\ ToSet(toSend') \subseteq ToSet(toSend)
    <2>1. InOrder(toSend)
        BY DEF OrderIInv, InOrder, Before, IsEvent, ToSet
    <2>2. QED
        BY <1>1, <1>2, <2>1, TakenIsFirst
<1> HIDE DEF e
<1>4. ~ IsEvent(e) /\ Reported(e, emitted) /\ \A x : Before(x, e)
    BY <1>3 DEF OrderIInv, IsEvent, Reported, Before
<1>5. /\ out' \in Seq(Chunk) /\ InOrder(out')
      /\ ToSet(out') = ToSet(out) \cup {e}
    BY <1>1, <1>2, <1>3, <1>4, EnteredIsLast
<1>6. /\ \A k \in 1 .. 3 : Stages'[k] = Stages[k]
      /\ Stages[4] = ToSet(out) /\ Stages'[4] = ToSet(out')
      /\ Stages'[5] = {} /\ Stages'[6] = {}
    BY <1>1, <1>2 DEF Stages, One
<1>7. Precede(Stages')
    <2>1. Precede(Stages) /\ 4 \in 1 .. 6
        BY DEF OrderIInv
    <2>2. /\ \A k \in 1 .. 6 \ {4} : Stages'[k] \subseteq Stages[k]
          /\ Stages'[4] \subseteq Stages[4] \cup {e}
          /\ \A k \in 1 .. 6 : 4 < k => \A y \in Stages'[k] : Before(e, y)
        BY <1>5, <1>6
    <2>3. QED
        BY <1>4, <2>1, <2>2, StagesStayInOrder
<1>8. \A k \in 1 .. 6 : \A x \in Stages'[k] : Reported(x, emitted')
    <2>1. \A k \in 1 .. 6 : \A x \in Stages[k] : Reported(x, emitted')
        BY <1>1 DEF OrderIInv
    <2>2. QED
        BY <1>1, <1>4, <1>5, <1>6, <2>1
<1>9. SequenceTypes'
    BY <1>1, <1>3, <1>5 DEF OrderIInv, SequenceTypes
<1>10. QED
    BY <1>1, <1>3, <1>5, <1>7, <1>8, <1>9 DEF OrderIInv

\* The proxy's goroutine takes the oldest chunk of out.
LEMMA TakeKeepsOrder == OrderIInv /\ Take => OrderIInv'
<1> SUFFICES ASSUME OrderIInv, Take
             PROVE  OrderIInv'
    OBVIOUS
<1> DEFINE e == Head(out)
<1>1. /\ UNCHANGED <<emitted, received, proxy, toSend, verbose, forwarder, forwarding>>
      /\ out # <<>> /\ passing' = e /\ out' = Tail(out)
    BY DEF Take, loopVars, forwardVars, respondVars, clientVars
<1>2. out \in Seq(Chunk) /\ InOrder(out)
    BY DEF OrderIInv, SequenceTypes
<1>3. /\ e \in ToSet(out) /\ e \in Chunk
      /\ out' \in Seq(Chunk) /\ InOrder(out')
      /\ ToSet(out') \subseteq ToSet(out)
      /\ \A y \in ToSet(out') : Before(e, y)
    BY <1>1, <1>2, TakenIsFirst
<1> HIDE DEF e
<1>4. SequenceTypes'
    BY <1>1, <1>3 DEF OrderIInv, SequenceTypes
<1>5. /\ \A k \in {1, 2, 5, 6} : Stages'[k] = Stages[k]
      /\ Stages'[3] \subseteq {e}
      /\ Stages[4] = ToSet(out) /\ Stages'[4] = ToSet(out')
    BY <1>1 DEF Stages, One
<1>6. Precede(Stages')
    <2>1. Precede(Stages) /\ e \in Stages[3 + 1] /\ 3 \in 1 .. 5
        BY <1>3, <1>5 DEF OrderIInv
    <2>2. /\ \A k \in 1 .. 6 \ {3} : Stages'[k] \subseteq Stages[k]
          /\ Stages'[3] \subseteq Stages[3] \cup {e}
          /\ \A y \in Stages'[3 + 1] : Before(e, y)
        BY <1>3, <1>5
    <2>3. QED
        BY <2>1, <2>2, MovedStaysInOrder
<1>7. /\ \A k \in 1 .. 6 : \A x \in Stages'[k] : Reported(x, emitted')
      /\ forwarder' # "gone" => \A k \in 1 .. 6 : \A x \in Stages'[k] : IsEvent(x)
    <2>1. \A k \in 1 .. 6 : \A x \in Stages'[k] : \E m \in 1 .. 6 : x \in Stages[m]
        BY <1>3, <1>5
    <2>2. QED
        BY <1>1, <2>1 DEF OrderIInv
<1>8. QED
    BY <1>1, <1>3, <1>4, <1>6, <1>7 DEF OrderIInv

\* It drops the usage, and passes on everything else.
LEMMA CountUsageKeepsOrder == OrderIInv /\ CountUsage => OrderIInv'
<1> SUFFICES ASSUME OrderIInv, CountUsage
             PROVE  OrderIInv'
    OBVIOUS
<1>1. /\ UNCHANGED <<emitted, received, proxy, out, toSend, verbose, forwarder,
                     forwarding>>
      /\ passing' = <<>>
    BY DEF CountUsage, loopVars, forwardVars, respondVars, clientVars
<1>2. \A k \in 1 .. 6 : Stages'[k] \subseteq Stages[k]
    BY <1>1 DEF Stages, One
<1>3. Precede(Stages')
    BY <1>2, ShrunkStagesStayInOrder DEF OrderIInv
<1>4. SequenceTypes'
    BY <1>1 DEF OrderIInv, SequenceTypes
<1>5. QED
    BY <1>1, <1>2, <1>3, <1>4 DEF OrderIInv

\* What is not the usage goes on to the proxy channel.
LEMMA PassKeepsOrder == OrderIInv /\ Pass => OrderIInv'
<1> SUFFICES ASSUME OrderIInv, Pass
             PROVE  OrderIInv'
    OBVIOUS
<1> DEFINE e == passing
<1>1. /\ UNCHANGED <<emitted, received, out, toSend, verbose, forwarder, forwarding>>
      /\ e \notin {<<>>, Usage} /\ passing' = <<>> /\ proxy' = Append(proxy, e)
    BY DEF Pass, loopVars, forwardVars, respondVars, clientVars
<1>2. e \in Chunk /\ proxy \in Seq(Chunk) /\ InOrder(proxy)
    BY <1>1 DEF OrderIInv, SequenceTypes
<1>3. /\ \A k \in {1, 4, 5, 6} : Stages'[k] = Stages[k]
      /\ Stages[2] = ToSet(proxy) /\ Stages'[2] = ToSet(proxy')
      /\ Stages[3] = {e} /\ Stages'[3] = {}
    BY <1>1 DEF Stages, One
<1>4. \A x \in ToSet(proxy) : Before(x, e)
    BY <1>3 DEF OrderIInv, Precede
<1>5. /\ proxy' \in Seq(Chunk) /\ InOrder(proxy')
      /\ ToSet(proxy') = ToSet(proxy) \cup {e}
    BY <1>1, <1>2, <1>4, EnteredIsLast
<1>6. Precede(Stages')
    <2>1. Precede(Stages) /\ e \in Stages[2 + 1] /\ 2 \in 1 .. 5
        BY <1>3 DEF OrderIInv
    <2>2. /\ \A k \in 1 .. 6 \ {2} : Stages'[k] \subseteq Stages[k]
          /\ Stages'[2] \subseteq Stages[2] \cup {e}
          /\ \A y \in Stages'[2 + 1] : Before(e, y)
        BY <1>3, <1>5
    <2>3. QED
        BY <2>1, <2>2, MovedStaysInOrder
<1>7. /\ \A k \in 1 .. 6 : \A x \in Stages'[k] : Reported(x, emitted')
      /\ forwarder' # "gone" => \A k \in 1 .. 6 : \A x \in Stages'[k] : IsEvent(x)
    <2>1. \A k \in 1 .. 6 : \A x \in Stages'[k] : \E m \in 1 .. 6 : x \in Stages[m]
        BY <1>3, <1>5
    <2>2. QED
        BY <1>1, <2>1 DEF OrderIInv
<1>8. SequenceTypes'
    BY <1>1, <1>5 DEF OrderIInv, SequenceTypes
<1>9. QED
    BY <1>1, <1>5, <1>6, <1>7, <1>8 DEF OrderIInv

\* The client gets the oldest chunk of the proxy channel.
LEMMA ReceiveKeepsOrder == OrderIInv /\ Receive => OrderIInv'
<1> SUFFICES ASSUME OrderIInv, Receive
             PROVE  OrderIInv'
    OBVIOUS
<1> DEFINE e == Head(proxy)
<1>1. /\ UNCHANGED <<emitted, out, passing, toSend, verbose, forwarder, forwarding>>
      /\ proxy # <<>> /\ proxy' = Tail(proxy) /\ received' = Append(received, e)
    BY DEF Receive, loopVars, forwardVars, respondVars, proxyVars
<1>2. /\ proxy \in Seq(Chunk) /\ InOrder(proxy)
      /\ received \in Seq(Chunk) /\ InOrder(received)
    BY DEF OrderIInv, SequenceTypes
<1>3. /\ e \in ToSet(proxy) /\ e \in Chunk
      /\ proxy' \in Seq(Chunk) /\ InOrder(proxy')
      /\ ToSet(proxy') \subseteq ToSet(proxy)
      /\ \A y \in ToSet(proxy') : Before(e, y)
    BY <1>1, <1>2, TakenIsFirst
<1> HIDE DEF e
<1>4. /\ \A k \in 3 .. 6 : Stages'[k] = Stages[k]
      /\ Stages[1] = ToSet(received) /\ Stages'[1] = ToSet(received')
      /\ Stages[2] = ToSet(proxy) /\ Stages'[2] = ToSet(proxy')
    BY <1>1 DEF Stages
<1>5. \A x \in ToSet(received) : Before(x, e)
    BY <1>3, <1>4 DEF OrderIInv, Precede
<1>6. /\ received' \in Seq(Chunk) /\ InOrder(received')
      /\ ToSet(received') = ToSet(received) \cup {e}
    BY <1>1, <1>2, <1>3, <1>5, EnteredIsLast
<1>7. Precede(Stages')
    <2>1. Precede(Stages) /\ e \in Stages[1 + 1] /\ 1 \in 1 .. 5
        BY <1>3, <1>4 DEF OrderIInv
    <2>2. /\ \A k \in 1 .. 6 \ {1} : Stages'[k] \subseteq Stages[k]
          /\ Stages'[1] \subseteq Stages[1] \cup {e}
          /\ \A y \in Stages'[1 + 1] : Before(e, y)
        BY <1>3, <1>4, <1>6
    <2>3. QED
        BY <2>1, <2>2, MovedStaysInOrder
<1>8. /\ \A k \in 1 .. 6 : \A x \in Stages'[k] : Reported(x, emitted')
      /\ forwarder' # "gone" => \A k \in 1 .. 6 : \A x \in Stages'[k] : IsEvent(x)
    <2>1. \A k \in 1 .. 6 : \A x \in Stages'[k] : \E m \in 1 .. 6 : x \in Stages[m]
        BY <1>3, <1>4, <1>6
    <2>2. QED
        BY <1>1, <2>1 DEF OrderIInv
<1>9. SequenceTypes'
    BY <1>1, <1>3, <1>6 DEF OrderIInv, SequenceTypes
<1>10. Usage \notin ToSet(received') \cup ToSet(proxy')
    BY <1>3, <1>6 DEF OrderIInv
<1>11. QED
    BY <1>1, <1>3, <1>6, <1>7, <1>8, <1>9, <1>10 DEF OrderIInv

\* The result is an answer and what it cost, or two errors: no event.
LEMMA GetResultKeepsOrder == OrderIInv /\ GetResult => OrderIInv'
<1> SUFFICES ASSUME OrderIInv, GetResult
             PROVE  OrderIInv'
    OBVIOUS
<1>1. /\ UNCHANGED <<emitted, received, proxy, out, passing, verbose, forwarder,
                     forwarding>>
      /\ toSend' = <<Answer, Usage>> \/ toSend' = <<Error, Error>>
    BY DEF GetResult, loopVars, forwardVars, proxyVars, clientVars
<1>2. Stages' = Stages
    BY <1>1 DEF Stages
<1>3. \A x \in {Answer, Usage, Error} : x \in Chunk /\ ~ IsEvent(x)
    BY DEF Chunk, Answer, Usage, Error, IsEvent
<1>4. toSend' \in Seq(Chunk) /\ \A x \in ToSet(toSend') : ~ IsEvent(x)
    <2>1. ASSUME NEW a \in {Answer, Usage, Error}, NEW b \in {Answer, Usage, Error}
          PROVE  <<a, b>> \in Seq(Chunk) /\ ToSet(<<a, b>>) = {a, b}
        <3>1. a \in Chunk /\ b \in Chunk
            BY <1>3
        <3>2. <<a, b>> \in Seq(Chunk)
            BY <3>1
        <3>3. QED
            BY <3>2 DEF ToSet
    <2>2. QED
        BY <1>1, <1>3, <2>1
<1>5. SequenceTypes'
    BY <1>1, <1>4 DEF OrderIInv, SequenceTypes
<1>6. QED
    BY <1>1, <1>2, <1>4, <1>5 DEF OrderIInv

\* The other steps move no chunk; the forwarder may end.
LEMMA RestKeepsOrder ==
    ASSUME OrderIInv,
           UNCHANGED <<emitted, verbose, forwarding, toSend, out, proxy, passing,
                       received>>,
           \/ UNCHANGED forwarder
           \/ forwarder = "idle" /\ forwarder' = "gone"
    PROVE  OrderIInv'
<1>1. \A k \in 1 .. 6 : Stages'[k] \subseteq Stages[k]
    BY DEF Stages
<1>2. Precede(Stages')
    BY <1>1, ShrunkStagesStayInOrder DEF OrderIInv
<1>3. SequenceTypes'
    BY DEF OrderIInv, SequenceTypes
<1>4. QED
    BY <1>1, <1>2, <1>3 DEF OrderIInv

\* No step changes the order; that of SendResult rests on the closing order.
LEMMA OrderIInvIsKept == ClosingOrder /\ OrderIInv /\ [Next]_vars => OrderIInv'
<1> SUFFICES ASSUME ClosingOrder, OrderIInv, [Next]_vars
             PROVE  OrderIInv'
    OBVIOUS
<1> DEFINE Moves == \/ Emit \/ TakeReport \/ Forward \/ GetResult \/ SendResult
                    \/ Take \/ CountUsage \/ Pass \/ Receive
<1>1. CASE Moves
    BY <1>1, EmitKeepsOrder, TakeReportKeepsOrder, ForwardKeepsOrder,
       GetResultKeepsOrder, SendResultKeepsOrder, TakeKeepsOrder,
       CountUsageKeepsOrder, PassKeepsOrder, ReceiveKeepsOrder
<1>2. CASE Finish \/ Join \/ CloseOut \/ CloseProxy \/ EndOfStream \/ Leave
    <2>1. UNCHANGED <<emitted, verbose, forwarder, forwarding, toSend, out, proxy,
                      passing, received>>
        BY <1>2 DEF Finish, Join, CloseOut, CloseProxy, EndOfStream, Leave, loopVars,
                    forwardVars, respondVars, proxyVars, clientVars
    <2>2. QED
        BY <2>1, RestKeepsOrder
<1>3. CASE ForwarderEnds
    <2>1. /\ UNCHANGED <<emitted, verbose, forwarding, toSend, out, proxy, passing,
                         received>>
          /\ forwarder = "idle" /\ forwarder' = "gone"
        BY <1>3 DEF ForwarderEnds, loopVars, respondVars, proxyVars, clientVars
    <2>2. QED
        BY <2>1, RestKeepsOrder
<1>4. CASE UNCHANGED vars
    <2>1. UNCHANGED <<emitted, verbose, forwarder, forwarding, toSend, out, proxy,
                      passing, received>>
        BY <1>4 DEF vars
    <2>2. QED
        BY <2>1, RestKeepsOrder
<1>5. QED
    BY <1>1, <1>2, <1>3, <1>4 DEF Next, Loop, Forwarder, Responder, Proxy, Client

\* The client gets the reports in the order they were made and the result after
\* all of them, and never the usage, however many reports there are and however
\* little the channels hold (StreamRespond, DelegatePromptStreamWithOptions).
THEOREM StreamIsInOrder == Spec => []ReceivedInOrder
<1>1. OrderIInv => ReceivedInOrder
    <2> SUFFICES ASSUME OrderIInv, NEW i \in DOMAIN received, NEW j \in DOMAIN received
                 PROVE  /\ received[i] # Usage
                        /\ i < j /\ received[j][1] = "event" =>
                               /\ received[i][1] = "event"
                               /\ received[i][2] < received[j][2]
        BY DEF ReceivedInOrder
    <2>1. received[i] \in ToSet(received) /\ Usage \notin ToSet(received)
        BY DEF OrderIInv, ToSet
    <2>2. i < j => Before(received[i], received[j])
        BY DEF OrderIInv, InOrder
    <2>3. QED
        BY <2>1, <2>2 DEF Before
<1>2. QED
    BY InitialOrder, OrderIsKept, InitialStages, OrderIInvIsKept, <1>1, PTL DEF Spec

-----------------------------------------------------------------------------
(***************************************************************************)
(* What the client has got when it is served                               *)
(***************************************************************************)

\* The chunks that have been sent on out, from the client on, but for the
\* usage when it has been counted.
Passing == IF passing = <<>> THEN <<>> ELSE <<passing>>

Sent == ((received \o proxy) \o Passing) \o out

\* What is left of the result, whose usage goes no further than the proxy.
Result ==
    IF loop = "succeeded"
    THEN IF counted = 0 THEN <<Answer, Usage>> ELSE <<Answer>>
    ELSE <<Error, Error>>

\* s is r, after events only.
EndsWith(s, r) ==
    /\ Len(r) <= Len(s)
    /\ \A i \in 1 .. Len(s) - Len(r) : IsEvent(s[i])
    /\ \A i \in 1 .. Len(r) : s[Len(s) - Len(r) + i] = r[i]

ResultIInv ==
    /\ counted \in {0, 1} /\ (counted = 1 => loop = "succeeded")
    /\ loop \in {"running", "succeeded", "failed"}
    /\ responder # "waiting" => loop # "running"
    /\ responder \in {"waiting", "joining", "sending", "gone"}
    /\ responder = "waiting" => toSend = <<>> /\ counted = 0
    /\ responder = "joining" => toSend = Result /\ counted = 0
    /\ responder \in {"waiting", "joining"} => EndsWith(Sent, <<>>)
    /\ responder \in {"sending", "gone"} => EndsWith(Sent \o toSend, Result)
    /\ client = "served" => proxyClosed /\ proxy = <<>>

\* The marker for "nothing" is none of the results, and no event is one.
LEMMA ResultChunks ==
    /\ {Answer, Usage, Error} \subseteq Chunk
    /\ \A x \in {Answer, Usage, Error} : ~ IsEvent(x) /\ x # <<>>
    /\ Answer # Usage /\ Error # Usage
BY DEF Chunk, Answer, Usage, Error, IsEvent

\* What has been sent is a sequence of chunks.
LEMMA SentIsSequence ==
    ASSUME OrderIInv
    PROVE  /\ received \o proxy \in Seq(Chunk) /\ Passing \in Seq(Chunk)
           /\ Sent \in Seq(Chunk) /\ toSend \in Seq(Chunk)
<1>1. /\ received \in Seq(Chunk) /\ proxy \in Seq(Chunk) /\ out \in Seq(Chunk)
      /\ toSend \in Seq(Chunk) /\ passing \in Chunk \cup {<<>>}
    BY DEF OrderIInv, SequenceTypes
<1>2. Passing \in Seq(Chunk)
    BY <1>1 DEF Passing
<1>3. received \o proxy \in Seq(Chunk)
    BY <1>1
<1>4. (received \o proxy) \o Passing \in Seq(Chunk)
    BY <1>2, <1>3
<1>5. QED
    BY <1>1, <1>2, <1>3, <1>4 DEF Sent

\* A chunk at the seam of two sequences can be taken for part of either.
LEMMA Seam ==
    ASSUME NEW s \in Seq(Chunk), NEW t \in Seq(Chunk), t # <<>>
    PROVE  /\ Append(s, Head(t)) \o Tail(t) = s \o t
           /\ (s \o <<Head(t)>>) \o Tail(t) = s \o t
<1>1. Head(t) \in Chunk /\ Tail(t) \in Seq(Chunk) /\ <<Head(t)>> \in Seq(Chunk)
    BY HeadTailProperties
<1>2. <<Head(t)>> \o Tail(t) = t
    OBVIOUS
<1>3. Append(s, Head(t)) = s \o <<Head(t)>>
    BY <1>1, AppendIsConcat
<1>4. QED
    BY <1>1, <1>2, <1>3, ConcatAssociative

\* A chunk that goes from one channel to the next leaves what was sent as it is.
LEMMA MovesKeepSent ==
    ASSUME OrderIInv, Take \/ Pass \/ Receive
    PROVE  Sent' = Sent
<1>1. /\ received \in Seq(Chunk) /\ proxy \in Seq(Chunk) /\ out \in Seq(Chunk)
      /\ passing \in Chunk \cup {<<>>} /\ received \o proxy \in Seq(Chunk)
    BY SentIsSequence DEF OrderIInv, SequenceTypes
<1>2. CASE Take
    <2>1. /\ passing = <<>> /\ out # <<>> /\ passing' = Head(out)
          /\ out' = Tail(out) /\ UNCHANGED <<received, proxy>>
        BY <1>2 DEF Take, clientVars
    <2>2. Head(out) \in Chunk /\ Head(out) # <<>>
        BY <1>1, <2>1, HeadTailProperties, NothingIsNoChunk
    <2>3. Passing = <<>> /\ Passing' = <<Head(out)>>
        BY <2>1, <2>2 DEF Passing
    <2>4. (received \o proxy) \o <<>> = received \o proxy
        BY <1>1, ConcatEmptySeq
    <2>5. ((received \o proxy) \o <<Head(out)>>) \o Tail(out) = (received \o proxy) \o out
        BY <1>1, <2>1, Seam
    <2>6. QED
        BY <2>1, <2>3, <2>4, <2>5 DEF Sent
<1>3. CASE Pass
    <2>1. /\ passing \notin {<<>>, Usage} /\ passing' = <<>>
          /\ proxy' = Append(proxy, passing) /\ UNCHANGED <<received, out>>
        BY <1>3 DEF Pass, clientVars
    <2>2. /\ Passing = <<passing>> /\ Passing' = <<>> /\ passing \in Chunk
          /\ <<passing>> \in Seq(Chunk)
        BY <1>1, <2>1 DEF Passing
    <2>3. proxy' = proxy \o <<passing>> /\ proxy' \in Seq(Chunk)
        BY <1>1, <2>1, <2>2, AppendIsConcat, AppendProperties
    <2>4. received \o (proxy \o <<passing>>) = (received \o proxy) \o <<passing>>
        BY <1>1, <2>2, ConcatAssociative
    <2>5. (received \o proxy') \o <<>> = received \o proxy'
        <3>1. received \o proxy' \in Seq(Chunk)
            BY <1>1, <2>3, ConcatProperties
        <3>2. QED
            BY <3>1, ConcatEmptySeq
    <2>6. QED
        BY <2>1, <2>2, <2>3, <2>4, <2>5 DEF Sent
<1>4. CASE Receive
    <2>1. /\ proxy # <<>> /\ received' = Append(received, Head(proxy))
          /\ proxy' = Tail(proxy) /\ UNCHANGED <<passing, out>>
        BY <1>4 DEF Receive, proxyVars
    <2>2. received' \o proxy' = received \o proxy /\ Passing' = Passing
        BY <1>1, <2>1, Seam DEF Passing
    <2>3. QED
        BY <2>1, <2>2 DEF Sent
<1>5. QED
    BY <1>2, <1>3, <1>4

\* What is sent on out comes after all that was sent.
LEMMA OutGrowsSent ==
    ASSUME OrderIInv, NEW e \in Chunk, out' = Append(out, e),
           UNCHANGED <<received, proxy, passing>>
    PROVE  Sent' = Append(Sent, e)
<1> DEFINE s == (received \o proxy) \o Passing
<1>1. out \in Seq(Chunk) /\ s \in Seq(Chunk) /\ Passing' = Passing
    BY SentIsSequence DEF OrderIInv, SequenceTypes, Passing
<1>2. Sent = s \o out /\ Sent' = s \o Append(out, e)
    BY <1>1 DEF Sent
<1> HIDE DEF s
<1>3. <<e>> \in Seq(Chunk) /\ Append(out, e) = out \o <<e>>
    BY <1>1, AppendIsConcat
<1>4. s \o (out \o <<e>>) = (s \o out) \o <<e>>
    BY <1>1, <1>3, ConcatAssociative
<1>5. Append(s \o out, e) = (s \o out) \o <<e>>
    BY <1>1, AppendIsConcat, ConcatProperties
<1>6. QED
    BY <1>2, <1>3, <1>4, <1>5

\* No chunk is on its way when the prompt starts.
LEMMA InitialResult == Init => ResultIInv
<1> SUFFICES ASSUME Init
             PROVE  ResultIInv
    OBVIOUS
<1>1. Sent = <<>>
    BY DEF Init, Sent, Passing
<1>2. EndsWith(Sent, <<>>)
    BY <1>1 DEF EndsWith
<1>3. QED
    BY <1>2 DEF Init, ResultIInv

\* An event after events, and the result after events.
LEMMA EventsGrow ==
    ASSUME NEW s \in Seq(Chunk), NEW e \in Chunk, EndsWith(s, <<>>), IsEvent(e)
    PROVE  EndsWith(Append(s, e), <<>>)
<1>1. /\ Len(s) \in Nat /\ Len(Append(s, e)) = Len(s) + 1
      /\ \A i \in 1 .. Len(s) : Append(s, e)[i] = s[i]
      /\ Append(s, e)[Len(s) + 1] = e
    OBVIOUS
<1>2. \A i \in 1 .. Len(s) : IsEvent(s[i])
    BY <1>1 DEF EndsWith
<1>3. QED
    BY <1>1, <1>2 DEF EndsWith

LEMMA EventsThenResult ==
    ASSUME NEW s \in Seq(Chunk), NEW r \in Seq(Chunk), EndsWith(s, <<>>)
    PROVE  EndsWith(s \o r, r)
<1>1. /\ Len(s) \in Nat /\ Len(r) \in Nat /\ Len(s \o r) = Len(s) + Len(r)
      /\ \A i \in 1 .. Len(s) : (s \o r)[i] = s[i]
      /\ \A i \in 1 .. Len(r) : (s \o r)[Len(s) + i] = r[i]
    BY ConcatProperties
<1>2. \A i \in 1 .. Len(s) : IsEvent(s[i])
    BY <1>1 DEF EndsWith
<1>3. QED
    BY <1>1, <1>2 DEF EndsWith

\* The proxy takes the usage out: it was the last chunk, after the answer.
LEMMA UsageIsLast ==
    ASSUME NEW a \in Seq(Chunk), NEW b \in Seq(Chunk), NEW r,
           r \in {<<Answer, Usage>>, <<Answer>>, <<Error, Error>>, <<>>},
           EndsWith((a \o <<Usage>>) \o b, r)
    PROVE  /\ r = <<Answer, Usage>> /\ b = <<>>
           /\ EndsWith(a, <<Answer>>)
<1> DEFINE s == (a \o <<Usage>>) \o b
           n == Len(a) + 1
<1>1. /\ Len(a) \in Nat /\ Len(b) \in Nat
      /\ Usage \in Chunk /\ <<Usage>> \in Seq(Chunk) /\ Len(<<Usage>>) = 1
    BY ResultChunks
<1>2. /\ a \o <<Usage>> \in Seq(Chunk) /\ Len(a \o <<Usage>>) = n
      /\ (a \o <<Usage>>)[n] = Usage
      /\ \A i \in 1 .. Len(a) : (a \o <<Usage>>)[i] = a[i]
    BY <1>1, ConcatProperties
<1>3. /\ Len(s) = n + Len(b) /\ s[n] = Usage
      /\ \A i \in 1 .. Len(a) : s[i] = a[i]
    BY <1>1, <1>2, ConcatProperties
<1> HIDE DEF s
<1>4. /\ Len(r) \in 0 .. 2 /\ n \in Nat \ {0} /\ Len(s) \in Nat /\ n <= Len(s)
      /\ \A i \in 1 .. Len(r) : r[i] = Usage => r = <<Answer, Usage>> /\ i = 2
    <2>1. Len(r) \in 0 .. 2
        OBVIOUS
    <2>2. ASSUME NEW i \in 1 .. Len(r), r[i] = Usage
          PROVE  r = <<Answer, Usage>> /\ i = 2
        <3>1. CASE r = <<Answer, Usage>>
            <4>1. Len(r) = 2 /\ r[1] = Answer
                BY <3>1
            <4>2. QED
                BY <2>2, <3>1, <4>1, ResultChunks
        <3>2. CASE r = <<Answer>>
            <4>1. Len(r) = 1 /\ r[1] = Answer
                BY <3>2
            <4>2. QED
                BY <2>2, <4>1, ResultChunks
        <3>3. CASE r = <<Error, Error>>
            <4>1. Len(r) = 2 /\ r[1] = Error /\ r[2] = Error
                BY <3>3
            <4>2. QED
                BY <2>2, <4>1, ResultChunks
        <3>4. CASE r = <<>>
            BY <3>4
        <3>5. QED
            BY <3>1, <3>2, <3>3, <3>4
    <2>3. QED
        BY <1>1, <1>3, <2>1, <2>2
<1>5. Len(r) <= Len(s) /\ n > Len(s) - Len(r)
    <2>1. Len(r) <= Len(s) /\ \A i \in 1 .. Len(s) - Len(r) : IsEvent(s[i])
        BY DEF EndsWith, s
    <2>2. ~ IsEvent(s[n])
        BY <1>3, ResultChunks
    <2>3. QED
        BY <1>4, <2>1, <2>2
<1>6. r = <<Answer, Usage>> /\ n - (Len(s) - Len(r)) = 2
    <2> DEFINE i == n - (Len(s) - Len(r))
    <2>1. i \in 1 .. Len(r) /\ Len(s) - Len(r) + i = n
        BY <1>4, <1>5
    <2>2. s[Len(s) - Len(r) + i] = r[i]
        BY <2>1 DEF EndsWith, s
    <2>3. QED
        BY <1>3, <1>4, <2>1, <2>2
<1>7. Len(r) = 2 /\ Len(s) = n /\ Len(b) = 0
    BY <1>1, <1>3, <1>4, <1>6
<1>8. b = <<>>
    BY <1>1, <1>7, EmptySeq
<1>9. EndsWith(a, <<Answer>>)
    <2>1. Len(a) = Len(s) - 1 /\ Len(s) - Len(r) = Len(a) - 1 /\ Len(a) >= 1
        BY <1>1, <1>4, <1>5, <1>7
    <2>2. \A i \in 1 .. Len(a) - 1 : IsEvent(a[i])
        <3>1. \A i \in 1 .. Len(s) - Len(r) : IsEvent(s[i])
            BY DEF EndsWith, s
        <3>2. QED
            BY <1>1, <1>3, <2>1, <3>1
    <2>3. a[Len(a)] = Answer
        <3>1. s[Len(s) - Len(r) + 1] = r[1]
            BY <1>7 DEF EndsWith, s
        <3>2. QED
            BY <1>1, <1>3, <1>6, <2>1, <3>1
    <2>4. Len(<<Answer>>) = 1 /\ <<Answer>>[1] = Answer
        OBVIOUS
    <2>5. ASSUME NEW i \in 1 .. Len(<<Answer>>)
          PROVE  a[Len(a) - Len(<<Answer>>) + i] = <<Answer>>[i]
        <3>1. i = 1 /\ Len(a) - 1 + 1 = Len(a)
            BY <1>1, <2>4
        <3>2. QED
            BY <2>3, <2>4, <3>1
    <2>6. QED
        BY <2>1, <2>2, <2>4, <2>5 DEF EndsWith
<1>10. QED
    BY <1>6, <1>8, <1>9

\* The result is one of three, or what is left of one.
LEMMA ResultIsOne ==
    /\ Result \in {<<Answer, Usage>>, <<Answer>>, <<Error, Error>>}
    /\ Result \in Seq(Chunk)
<1>1. Answer \in Chunk /\ Usage \in Chunk /\ Error \in Chunk
    BY ResultChunks
<1>2. <<Answer, Usage>> \in Seq(Chunk) /\ <<Answer>> \in Seq(Chunk) /\ <<Error, Error>> \in Seq(Chunk)
    BY <1>1
<1>3. QED
    BY <1>2 DEF Result

\* The forwarder sends an event, and only before the result is sent.
LEMMA ForwardKeepsResult ==
    ASSUME ClosingOrder, OrderIInv, ResultIInv, Forward
    PROVE  ResultIInv'
<1>1. /\ UNCHANGED <<loop, responder, toSend, counted, client, proxyClosed, proxy,
                     received, passing>>
      /\ forwarder = "sending"
      /\ out' = Append(out, forwarding) \/ out' = out
    BY DEF Forward, loopVars, respondVars, proxyVars, clientVars
<1>2. responder \in {"waiting", "joining"} /\ EndsWith(Sent, <<>>)
    BY <1>1 DEF ClosingOrder, ResultIInv
<1>3. EndsWith(Sent', <<>>)
    <2>1. CASE out' = out
        BY <1>1, <1>2, <2>1 DEF Sent, Passing
    <2>2. CASE out' = Append(out, forwarding)
        <3>1. forwarding \in Chunk /\ IsEvent(forwarding)
            <4>1. forwarding \in Chunk \cup {<<>>} /\ forwarding # <<>>
                BY <1>1 DEF OrderIInv, SequenceTypes
            <4>2. forwarding \in Stages[5]
                BY <4>1 DEF Stages, One
            <4>3. QED
                BY <1>1, <4>1, <4>2 DEF OrderIInv
        <3>2. Sent' = Append(Sent, forwarding)
            BY <1>1, <2>2, <3>1, OutGrowsSent
        <3>3. QED
            BY <1>2, <3>1, <3>2, SentIsSequence, EventsGrow
    <2>3. QED
        BY <1>1, <2>1, <2>2
<1>4. Result' = Result
    BY <1>1 DEF Result
<1>5. QED
    BY <1>1, <1>2, <1>3, <1>4 DEF ResultIInv

\* The result is put together, and follows the events once they are all out.
LEMMA JoinKeepsResult ==
    ASSUME ClosingOrder, OrderIInv, ResultIInv, GetResult \/ Join
    PROVE  ResultIInv'
<1>1. UNCHANGED <<loop, counted, client, proxyClosed, proxy, received, passing, out>>
    BY DEF GetResult, Join, loopVars, proxyVars, clientVars
<1>2. Sent' = Sent /\ Result' = Result
    BY <1>1 DEF Sent, Passing, Result
<1>3. CASE GetResult
    <2>1. /\ responder = "waiting" /\ loop # "running" /\ responder' = "joining"
          /\ toSend' = IF loop = "succeeded" THEN <<Answer, Usage>> ELSE <<Error, Error>>
        BY <1>3 DEF GetResult
    <2>2. counted = 0 /\ EndsWith(Sent, <<>>)
        BY <2>1 DEF ResultIInv
    <2>3. toSend' = Result'
        BY <1>2, <2>1, <2>2 DEF Result
    <2>4. QED
        BY <1>1, <1>2, <2>1, <2>2, <2>3 DEF ResultIInv
<1>4. CASE Join
    <2>1. /\ responder = "joining" /\ responder' = "sending" /\ toSend' = toSend
        BY <1>4 DEF Join
    <2>2. toSend = Result /\ EndsWith(Sent, <<>>)
        BY <2>1 DEF ResultIInv
    <2>3. EndsWith(Sent' \o toSend', Result')
        BY <1>2, <2>1, <2>2, SentIsSequence, ResultIsOne, EventsThenResult
    <2>4. QED
        BY <1>1, <2>1, <2>3 DEF ResultIInv
<1>5. QED
    BY <1>3, <1>4

\* A chunk of the result goes from toSend to out.
LEMMA SendResultKeepsResult ==
    ASSUME ClosingOrder, OrderIInv, ResultIInv, SendResult
    PROVE  ResultIInv'
<1>1. /\ UNCHANGED <<loop, responder, counted, client, proxyClosed, proxy, received,
                     passing>>
      /\ responder = "sending" /\ toSend # <<>>
      /\ out' = Append(out, Head(toSend)) /\ toSend' = Tail(toSend)
    BY DEF SendResult, loopVars, proxyVars, clientVars
<1>2. Sent \in Seq(Chunk) /\ toSend \in Seq(Chunk) /\ Head(toSend) \in Chunk
    BY <1>1, SentIsSequence, HeadTailProperties
<1>3. Sent' = Append(Sent, Head(toSend))
    BY <1>1, <1>2, OutGrowsSent
<1>4. Sent' \o toSend' = Sent \o toSend
    BY <1>1, <1>2, <1>3, Seam
<1>5. Result' = Result
    BY <1>1 DEF Result
<1>6. QED
    BY <1>1, <1>4, <1>5 DEF ResultIInv

\* The usage is the last chunk, with the answer before it.
LEMMA CountUsageKeepsResult ==
    ASSUME ClosingOrder, OrderIInv, ResultIInv, CountUsage
    PROVE  ResultIInv'
<1> DEFINE a == received \o proxy
<1>1. /\ UNCHANGED <<loop, responder, toSend, client, proxyClosed, proxy, received, out>>
      /\ passing = Usage /\ passing' = <<>> /\ counted' = counted + 1
    BY DEF CountUsage, loopVars, respondVars, clientVars
<1>2. /\ a \in Seq(Chunk) /\ out \in Seq(Chunk) /\ toSend \in Seq(Chunk)
      /\ <<Usage>> \in Seq(Chunk) /\ Usage # <<>>
    BY SentIsSequence, ResultChunks DEF OrderIInv, SequenceTypes
<1>3. Sent = (a \o <<Usage>>) \o out /\ Sent' = (a \o <<>>) \o out
    BY <1>1, <1>2 DEF Sent, Passing
<1> HIDE DEF a
<1>4. a \o <<Usage>> \in Seq(Chunk) /\ a \o <<>> = a
    BY <1>2, ConcatProperties, ConcatEmptySeq
<1>5. responder \in {"sending", "gone"}
    <2>1. ~ EndsWith(Sent, <<>>)
        BY <1>2, <1>3, UsageIsLast
    <2>2. QED
        BY <2>1 DEF ResultIInv
<1>6. Result = <<Answer, Usage>> /\ out \o toSend = <<>> /\ EndsWith(a, <<Answer>>)
    <2>1. EndsWith(Sent \o toSend, Result)
        BY <1>5 DEF ResultIInv
    <2>2. Sent \o toSend = (a \o <<Usage>>) \o (out \o toSend)
        BY <1>2, <1>3, <1>4, ConcatAssociative
    <2>3. out \o toSend \in Seq(Chunk)
        BY <1>2, ConcatProperties
    <2>4. EndsWith((a \o <<Usage>>) \o (out \o toSend), Result)
        BY <2>1, <2>2
    <2>5. Result \in {<<Answer, Usage>>, <<Answer>>, <<Error, Error>>, <<>>}
        BY ResultIsOne
    <2>6. ASSUME NEW b \in Seq(Chunk), NEW r,
                 r \in {<<Answer, Usage>>, <<Answer>>, <<Error, Error>>, <<>>},
                 EndsWith((a \o <<Usage>>) \o b, r)
          PROVE  r = <<Answer, Usage>> /\ b = <<>> /\ EndsWith(a, <<Answer>>)
        BY <1>2, <2>6, UsageIsLast
    <2>7. QED
        BY <2>3, <2>4, <2>5, <2>6
<1>7. out = <<>> /\ toSend = <<>>
    BY <1>2, <1>6, ConcatEqualIffEmpty
<1>8. Sent' \o toSend' = a
    BY <1>1, <1>2, <1>3, <1>4, <1>7, ConcatEmptySeq
<1>9. loop = "succeeded" /\ counted = 0
    <2>1. counted # 0 => counted = 1 /\ loop = "succeeded"
        BY DEF ResultIInv
    <2>2. Len(<<Answer, Usage>>) = 2 /\ Len(<<Answer>>) = 1 /\ <<Error, Error>>[1] = Error
          /\ <<Answer, Usage>>[2] = Usage /\ <<Error, Error>>[2] = Error
        OBVIOUS
    <2>3. <<Answer, Usage>> # <<Answer>> /\ <<Answer, Usage>> # <<Error, Error>>
        BY <2>2, ResultChunks
    <2>4. QED
        BY <1>6, <2>3 DEF Result
<1>10. Result' = <<Answer>>
    BY <1>1, <1>9 DEF Result
<1>11. QED
    BY <1>1, <1>5, <1>6, <1>8, <1>9, <1>10 DEF ResultIInv

\* The steps that move a chunk on, or none.
LEMMA MovesKeepResult ==
    ASSUME ResultIInv, Sent' = Sent,
           UNCHANGED <<toSend, counted>>,
           \/ UNCHANGED <<loop, responder>>
           \/ loop = "running" /\ loop' \in {"succeeded", "failed"} /\ UNCHANGED responder
           \/ UNCHANGED loop /\ responder = "sending" /\ responder' = "gone",
           client' = "served" => proxyClosed' /\ proxy' = <<>>
    PROVE  ResultIInv'
<1>1. loop = "running" => responder = "waiting" /\ counted = 0
    BY DEF ResultIInv
<1>2. UNCHANGED loop => Result' = Result
    BY DEF Result
<1>3. QED
    BY <1>1, <1>2 DEF ResultIInv

\* No step breaks it.
LEMMA ResultIInvIsKept ==
    ClosingOrder /\ OrderIInv /\ ResultIInv /\ [Next]_vars => ResultIInv'
<1> SUFFICES ASSUME ClosingOrder, OrderIInv, ResultIInv, [Next]_vars
             PROVE  ResultIInv'
    OBVIOUS
<1>1. CASE Forward \/ GetResult \/ Join \/ SendResult \/ CountUsage
    BY <1>1, ForwardKeepsResult, JoinKeepsResult, SendResultKeepsResult,
       CountUsageKeepsResult
<1>2. CASE Take \/ Pass \/ Receive
    <2>1. Sent' = Sent
        BY <1>2, MovesKeepSent
    <2>2. UNCHANGED <<toSend, counted, loop, responder, client, proxyClosed>>
        BY <1>2 DEF Take, Pass, Receive, loopVars, respondVars, proxyVars, clientVars
    \* A closed proxy gets no more chunks, and a client that was served takes none.
    <2>3. client = "served" => proxy' = proxy
        BY <1>2 DEF Take, Pass, Receive, ResultIInv, ClosingOrder
    <2>4. QED
        BY <2>1, <2>2, <2>3, MovesKeepResult DEF ResultIInv
<1>3. CASE \/ Emit \/ Finish \/ TakeReport \/ ForwarderEnds \/ CloseOut \/ CloseProxy
           \/ EndOfStream \/ Leave \/ UNCHANGED vars
    <2>1. UNCHANGED <<toSend, counted, proxy, received, passing, out>>
        BY <1>3 DEF Emit, Finish, TakeReport, ForwarderEnds, CloseOut, CloseProxy,
                    EndOfStream, Leave, vars, loopVars, forwardVars, respondVars,
                    proxyVars, clientVars
    <2>2. Sent' = Sent
        BY <2>1 DEF Sent, Passing
    <2>3. \/ UNCHANGED <<loop, responder>>
          \/ loop = "running" /\ loop' \in {"succeeded", "failed"} /\ UNCHANGED responder
          \/ UNCHANGED loop /\ responder = "sending" /\ responder' = "gone"
        BY <1>3 DEF Emit, Finish, TakeReport, ForwarderEnds, CloseOut, CloseProxy,
                    EndOfStream, Leave, vars, loopVars, respondVars
    <2>4. /\ proxyClosed => proxyClosed'
          /\ client' = "served" => client = "served" \/ (proxyClosed /\ proxy = <<>>)
        BY <1>3 DEF Emit, Finish, TakeReport, ForwarderEnds, CloseOut, CloseProxy,
                    EndOfStream, Leave, vars, clientVars
    <2>5. client' = "served" => proxyClosed' /\ proxy' = <<>>
        BY <2>1, <2>4 DEF ResultIInv
    <2>6. QED
        BY <2>1, <2>2, <2>3, <2>5, MovesKeepResult
<1>4. QED
    BY <1>1, <1>2, <1>3 DEF Next, Loop, Forwarder, Responder, Proxy, Client

\* A client that was served has got everything that was sent.
LEMMA ServedHasAll ==
    ASSUME ClosingOrder, OrderIInv, ResultIInv, client = "served"
    PROVE  EndsWith(received, Result) /\ received \in Seq(Chunk)
<1>1. /\ proxy = <<>> /\ passing = <<>> /\ out = <<>> /\ toSend = <<>>
      /\ responder = "gone"
    BY DEF ClosingOrder, ResultIInv
<1>2. received \in Seq(Chunk)
    BY DEF OrderIInv, SequenceTypes
<1>3. Sent \o toSend = received
    BY <1>1, <1>2, ConcatEmptySeq DEF Sent, Passing
<1>4. QED
    BY <1>1, <1>2, <1>3 DEF ResultIInv

\* A client that stays to the end of its stream got the whole result as the last
\* thing, and the tokens of its prompt have been counted once, or not at all when
\* the loop failed (StreamRespond, DelegatePromptStreamWithOptions).
THEOREM ServedClientsHaveTheResult == Spec => []ServedMeansResult
<1>1. ClosingOrder /\ OrderIInv /\ ResultIInv => ServedMeansResult
    <2> SUFFICES ASSUME ClosingOrder, OrderIInv, ResultIInv, client = "served"
                 PROVE  IF loop = "succeeded"
                        THEN /\ received # <<>> /\ Last(received) = Answer
                             /\ counted = 1
                        ELSE IsSuffix(<<Error, Error>>, received) /\ counted = 0
        BY DEF ServedMeansResult
    <2> DEFINE n == Len(received)
    <2>1. received \in Seq(Chunk) /\ n \in Nat
        BY ServedHasAll
    <2>2. counted \in {0, 1} /\ (counted = 1 => loop = "succeeded")
        BY DEF ResultIInv
    <2>3. CASE loop = "succeeded"
        <3>1. counted = 1
            <4>1. SUFFICES ASSUME counted = 0
                           PROVE  FALSE
                BY <2>2
            <4>2. EndsWith(received, <<Answer, Usage>>)
                BY <2>3, <4>1, ServedHasAll DEF Result
            <4>3. n - 2 + 2 = n /\ 2 <= n /\ received[n - 2 + 2] = Usage
                BY <2>1, <4>2 DEF EndsWith
            <4>4. received[n] = Usage /\ n \in DOMAIN received
                BY <2>1, <4>3
            <4>5. Usage \in ToSet(received)
                BY <4>4 DEF ToSet
            <4>6. QED
                BY <4>5 DEF OrderIInv
        <3>2. EndsWith(received, <<Answer>>)
            BY <2>3, <3>1, ServedHasAll DEF Result
        <3>3. 1 <= n /\ received[n - 1 + 1] = Answer /\ n - 1 + 1 = n
            BY <2>1, <3>2 DEF EndsWith
        <3>4. received # <<>> /\ Last(received) = Answer
            BY <2>1, <3>3 DEF Last
        <3>5. QED
            BY <2>3, <3>1, <3>4
    <2>4. CASE loop # "succeeded"
        <3>1. counted = 0 /\ EndsWith(received, <<Error, Error>>)
            BY <2>2, <2>4, ServedHasAll DEF Result
        <3>2. 2 <= n /\ received[n - 2 + 1] = Error /\ received[n - 2 + 2] = Error
            BY <2>1, <3>1 DEF EndsWith
        <3>3. received[n] = Error /\ received[n - 1] = Error
            BY <2>1, <3>2
        <3>4. IsSuffix(<<Error, Error>>, received)
            <4> DEFINE p == Reverse(<<Error, Error>>)
                       r == Reverse(received)
            <4>1. /\ p \in Seq(Chunk) /\ r \in Seq(Chunk)
                  /\ Len(p) = 2 /\ Len(r) = n
                  /\ p[1] = Error /\ p[2] = Error
                  /\ r[1] = Error /\ r[2] = Error
                BY <2>1, <3>2, <3>3, ResultChunks DEF Reverse
            <4>2. IsPrefix(p, r)
                <5>1. SubSeq(p, 1, 2) = SubSeq(r, 1, 2)
                    BY <2>1, <3>2, <4>1
                <5>2. QED
                    BY <2>1, <3>2, <4>1, <5>1 DEF IsPrefix
            <4>3. QED
                BY <4>2 DEF IsSuffix
        <3>5. QED
            BY <2>4, <3>1, <3>4
    <2>5. QED
        BY <2>3, <2>4
<1>2. QED
    BY InitialOrder, OrderIsKept, InitialStages, OrderIInvIsKept, InitialResult,
       ResultIInvIsKept, <1>1, PTL DEF Spec

=============================================================================
