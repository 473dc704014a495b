---------------------------- MODULE PromptStream -----------------------------
(***************************************************************************)
(* A streamed prompt: the goroutines and channels between the ReAct loop   *)
(* and the client.  The loop reports what it does on verboseCh and never   *)
(* waits; a forwarder copies the reports to out until it finds out full;   *)
(* the goroutine of StreamRespond (src/internal/engine/eino_memory.go)     *)
(* waits for the result and sends it on out, and what it cost; the         *)
(* goroutine of DelegatePromptStreamWithOptions (src/internal/agent/       *)
(* agent.go) passes everything on but the cost, which it adds to the       *)
(* session; the handlers of src/internal/api/stream.go read until the      *)
(* stream ends or their client has gone.                                   *)
(***************************************************************************)
EXTENDS Naturals, Sequences, SequencesExt

CONSTANTS
    MaxEvents,      \* bound on the reports of the loop
    VerboseCap,     \* capacity of verboseCh (64)
    OutCap,         \* capacity of out (100)
    ProxyCap        \* capacity of the proxy channel (100)

ASSUME CapsAssumption ==
    /\ MaxEvents \in Nat
    /\ VerboseCap \in Nat \ {0} /\ OutCap \in Nat \ {0} /\ ProxyCap \in Nat \ {0}

VARIABLES
    loop,           \* "running", "succeeded" or "failed"
    emitted,        \* reports the loop has made
    verbose,        \* the channel verboseCh, and whether it is closed
    verboseClosed,
    forwarder,      \* the goroutine that copies: "idle", "sending", "gone"
    forwarding,     \* the report it has taken
    responder,      \* the goroutine of StreamRespond
    toSend,         \* the chunks it has still to send
    out,            \* the channel out, and whether it is closed
    outClosed,
    proxy,          \* the channel the handler reads, and whether it is closed
    proxyClosed,
    passing,        \* the chunk the proxy's goroutine has taken, or <<>>
    counted,        \* calls of session.AddTokens
    client,         \* "reading", "served" or "left"
    received        \* what the client got

loopVars == <<loop, emitted>>
forwardVars == <<forwarder, forwarding>>
respondVars == <<responder, toSend>>
proxyVars == <<passing, counted>>
clientVars == <<client, received>>
vars == <<loop, emitted, verbose, verboseClosed, forwarder, forwarding,
          responder, toSend, out, outClosed, proxy, proxyClosed, passing,
          counted, client, received>>

-----------------------------------------------------------------------------
Event(n) == <<"event", n>>      \* [Thought: ...], [Tool: ...], [ToolResult: ...]
Answer == <<"answer", 0>>
Usage == <<"usage", 0>>         \* [Usage: ...]
Error == <<"error", 0>>         \* [Error ...], [Stream Error ...]
Chunk == {Event(n) : n \in 1 .. MaxEvents} \cup {Answer, Usage, Error}

TypeOK ==
    /\ loop \in {"running", "succeeded", "failed"}
    /\ emitted \in 0 .. MaxEvents
    /\ ToSet(verbose) \subseteq Chunk /\ Len(verbose) <= VerboseCap
    /\ ToSet(out) \subseteq Chunk /\ Len(out) <= OutCap
    /\ ToSet(proxy) \subseteq Chunk \ {Usage} /\ Len(proxy) <= ProxyCap
    /\ {verboseClosed, outClosed, proxyClosed} \subseteq BOOLEAN
    /\ forwarder \in {"idle", "sending", "gone"}
    /\ {forwarding, passing} \subseteq Chunk \cup {<<>>}
    /\ responder \in {"waiting", "joining", "sending", "gone"}
    /\ ToSet(toSend) \subseteq Chunk
    /\ counted \in 0 .. 1
    /\ client \in {"reading", "served", "left"}
    /\ ToSet(received) \subseteq Chunk

Init ==
    /\ loop = "running" /\ emitted = 0
    /\ verbose = <<>> /\ verboseClosed = FALSE
    /\ forwarder = "idle" /\ forwarding = <<>>
    /\ responder = "waiting" /\ toSend = <<>>
    /\ out = <<>> /\ outClosed = FALSE
    /\ proxy = <<>> /\ proxyClosed = FALSE
    /\ passing = <<>> /\ counted = 0
    /\ client = "reading" /\ received = <<>>

-----------------------------------------------------------------------------
(***************************************************************************)
(* Faulty variants of the definitions below, used only to check that each  *)
(* property can fail.                                                      *)
(***************************************************************************)

\* The result is sent without waiting for the forwarder.
Join_NoWait ==
    /\ responder = "joining"
    /\ responder' = "sending"
    /\ UNCHANGED <<loopVars, verbose, verboseClosed, forwardVars, toSend, out,
                   outClosed, proxy, proxyClosed, proxyVars, clientVars>>

\* The channel out stays open when StreamRespond's goroutine ends.
CloseOut_Missing ==
    /\ responder = "sending" /\ toSend = <<>>
    /\ responder' = "gone"
    /\ UNCHANGED <<loopVars, verbose, verboseClosed, forwardVars, toSend, out,
                   outClosed, proxy, proxyClosed, proxyVars, clientVars>>

\* The usage is passed on to the client too.
CountUsage_PassesOn ==
    /\ passing = Usage /\ Len(proxy) < ProxyCap
    /\ counted' = counted + 1
    /\ proxy' = Append(proxy, passing)
    /\ passing' = <<>>
    /\ UNCHANGED <<loopVars, verbose, verboseClosed, forwardVars, respondVars,
                   out, outClosed, proxyClosed, clientVars>>

\* The proxy stops taking chunks when its client has gone.
Take_WhileReading ==
    /\ passing = <<>> /\ out # <<>>
    /\ client # "left"
    /\ passing' = Head(out)
    /\ out' = Tail(out)
    /\ UNCHANGED <<loopVars, verbose, verboseClosed, forwardVars, respondVars,
                   outClosed, proxy, proxyClosed, counted, clientVars>>

-----------------------------------------------------------------------------
(***************************************************************************)
(* The loop (emitVerbose, agentStream) and the rest of the graph           *)
(***************************************************************************)

\* A report is dropped when verboseCh is full.
Emit ==
    /\ loop = "running"
    /\ emitted < MaxEvents
    /\ emitted' = emitted + 1
    /\ verbose' = IF Len(verbose) < VerboseCap
                  THEN Append(verbose, Event(emitted')) ELSE verbose
    /\ UNCHANGED <<loop, verboseClosed, forwardVars, respondVars, out, outClosed,
                   proxy, proxyClosed, proxyVars, clientVars>>

Finish ==
    /\ loop = "running"
    /\ loop' \in {"succeeded", "failed"}
    /\ UNCHANGED <<emitted, verbose, verboseClosed, forwardVars, respondVars, out,
                   outClosed, proxy, proxyClosed, proxyVars, clientVars>>

(***************************************************************************)
(* The forwarder                                                           *)
(***************************************************************************)
TakeReport ==
    /\ forwarder = "idle" /\ verbose # <<>>
    /\ forwarding' = Head(verbose)
    /\ verbose' = Tail(verbose)
    /\ forwarder' = "sending"
    /\ UNCHANGED <<loopVars, verboseClosed, respondVars, out, outClosed, proxy,
                   proxyClosed, proxyVars, clientVars>>

\* It does not wait for room in out: it ends, and no later report is copied.
Forward ==
    /\ forwarder = "sending"
    /\ \/ /\ Len(out) < OutCap
          /\ out' = Append(out, forwarding)
          /\ forwarder' = "idle"
       \/ /\ Len(out) = OutCap
          /\ forwarder' = "gone"
          /\ UNCHANGED out
    /\ forwarding' = <<>>
    /\ UNCHANGED <<loopVars, verbose, verboseClosed, respondVars, outClosed, proxy,
                   proxyClosed, proxyVars, clientVars>>

\* verboseCh is closed and empty.
ForwarderEnds ==
    /\ forwarder = "idle" /\ verboseClosed /\ verbose = <<>>
    /\ forwarder' = "gone"
    /\ UNCHANGED <<loopVars, verbose, verboseClosed, forwarding, respondVars, out,
                   outClosed, proxy, proxyClosed, proxyVars, clientVars>>

(***************************************************************************)
(* The goroutine of StreamRespond                                          *)
(***************************************************************************)

\* Stream or Recv has returned, with the result or an error (which the slog
\* callback reports on out before StreamRespond does); verboseCh is closed.
GetResult ==
    /\ responder = "waiting" /\ loop # "running"
    /\ verboseClosed' = TRUE
    /\ toSend' = IF loop = "succeeded" THEN <<Answer, Usage>> ELSE <<Error, Error>>
    /\ responder' = "joining"
    /\ UNCHANGED <<loopVars, verbose, forwardVars, out, outClosed, proxy,
                   proxyClosed, proxyVars, clientVars>>

\* wg.Wait()
Join ==
    /\ responder = "joining" /\ forwarder = "gone"
    /\ responder' = "sending"
    /\ UNCHANGED <<loopVars, verbose, verboseClosed, forwardVars, toSend, out,
                   outClosed, proxy, proxyClosed, proxyVars, clientVars>>

\* These sends wait for room.
SendResult ==
    /\ responder = "sending" /\ toSend # <<>>
    /\ Len(out) < OutCap
    /\ out' = Append(out, Head(toSend))
    /\ toSend' = Tail(toSend)
    /\ UNCHANGED <<loopVars, verbose, verboseClosed, forwardVars, responder,
                   outClosed, proxy, proxyClosed, proxyVars, clientVars>>

\* defer close(out)
CloseOut ==
    /\ responder = "sending" /\ toSend = <<>>
    /\ outClosed' = TRUE
    /\ responder' = "gone"
    /\ UNCHANGED <<loopVars, verbose, verboseClosed, forwardVars, toSend, out,
                   proxy, proxyClosed, proxyVars, clientVars>>

(***************************************************************************)
(* The goroutine of DelegatePromptStreamWithOptions                        *)
(***************************************************************************)
Take ==
    /\ passing = <<>> /\ out # <<>>
    /\ passing' = Head(out)
    /\ out' = Tail(out)
    /\ UNCHANGED <<loopVars, verbose, verboseClosed, forwardVars, respondVars,
                   outClosed, proxy, proxyClosed, counted, clientVars>>

CountUsage ==
    /\ passing = Usage
    /\ counted' = counted + 1
    /\ passing' = <<>>
    /\ UNCHANGED <<loopVars, verbose, verboseClosed, forwardVars, respondVars, out,
                   outClosed, proxy, proxyClosed, clientVars>>

\* This send waits for room, too.
Pass ==
    /\ passing \notin {<<>>, Usage}
    /\ Len(proxy) < ProxyCap
    /\ proxy' = Append(proxy, passing)
    /\ passing' = <<>>
    /\ UNCHANGED <<loopVars, verbose, verboseClosed, forwardVars, respondVars, out,
                   outClosed, proxyClosed, counted, clientVars>>

\* defer close(proxy), when out is closed and empty.
CloseProxy ==
    /\ passing = <<>> /\ outClosed /\ out = <<>> /\ ~ proxyClosed
    /\ proxyClosed' = TRUE
    /\ UNCHANGED <<loopVars, verbose, verboseClosed, forwardVars, respondVars, out,
                   outClosed, proxy, proxyVars, clientVars>>

(***************************************************************************)
(* The handler and its client                                              *)
(***************************************************************************)
Receive ==
    /\ client = "reading" /\ proxy # <<>>
    /\ received' = Append(received, Head(proxy))
    /\ proxy' = Tail(proxy)
    /\ UNCHANGED <<loopVars, verbose, verboseClosed, forwardVars, respondVars, out,
                   outClosed, proxyClosed, proxyVars, client>>

EndOfStream ==
    /\ client = "reading" /\ proxyClosed /\ proxy = <<>>
    /\ client' = "served"
    /\ UNCHANGED <<loopVars, verbose, verboseClosed, forwardVars, respondVars, out,
                   outClosed, proxy, proxyClosed, proxyVars, received>>

\* The connection is gone: nobody reads the proxy channel any more, and what
\* fills it is not told.
Leave ==
    /\ client = "reading"
    /\ client' = "left"
    /\ UNCHANGED <<loopVars, verbose, verboseClosed, forwardVars, respondVars, out,
                   outClosed, proxy, proxyClosed, proxyVars, received>>

-----------------------------------------------------------------------------
Loop == Emit \/ Finish
Forwarder == TakeReport \/ Forward \/ ForwarderEnds
Responder == GetResult \/ Join \/ SendResult \/ CloseOut
Proxy == Take \/ CountUsage \/ Pass \/ CloseProxy
Client == Receive \/ EndOfStream

Next == Loop \/ Forwarder \/ Responder \/ Proxy \/ Client \/ Leave

Spec == Init /\ [][Next]_vars

(***************************************************************************)
(* Every goroutine runs when it can; the loop ends, for the graph has a    *)
(* deadline of 30 minutes; a client that stays goes on reading.            *)
(***************************************************************************)
FairSpec ==
    /\ Spec
    /\ WF_vars(Loop) /\ WF_vars(Forwarder) /\ WF_vars(Responder)
    /\ WF_vars(Proxy) /\ WF_vars(Client)

-----------------------------------------------------------------------------
(***************************************************************************)
(* Properties                                                              *)
(***************************************************************************)

\* The client gets the reports in the order they were made, some of them left
\* out, and the result after all of them; it never gets the usage.
ReceivedInOrder ==
    \A i, j \in DOMAIN received :
        /\ received[i] # Usage
        /\ i < j /\ received[j][1] = "event" =>
               received[i][1] = "event" /\ received[i][2] < received[j][2]

\* Nobody can send on a closed channel, which would panic: the goroutines close
\* verboseCh, out and proxy only when their senders are through.
NoSendAfterClose ==
    /\ outClosed => forwarder = "gone" /\ toSend = <<>>
    /\ verboseClosed => loop # "running"
    /\ proxyClosed => passing = <<>> /\ out = <<>>

\* A client that stays is served: its stream comes to an end.
StreamEnds == <>(client \in {"served", "left"})

\* A client that was served got the whole result as the last thing, and the
\* tokens of its prompt have been counted.
ServedMeansResult ==
    client = "served" =>
        IF loop = "succeeded"
        THEN /\ received # <<>> /\ Last(received) = Answer
             /\ counted = 1
        ELSE IsSuffix(<<Error, Error>>, received) /\ counted = 0

\* The tokens of an answer are counted even if the client has left, as long as
\* the proxy channel has room for everything that comes before the usage:
\* MaxEvents + 1 <= ProxyCap.  (Beyond it the goroutines are stuck for good.)
AnswerIsCounted == loop = "succeeded" ~> counted = 1

=============================================================================
