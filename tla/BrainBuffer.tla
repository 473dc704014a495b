----------------------------- MODULE BrainBuffer ----------------------------
(***************************************************************************)
(* The short-term memory of memory.Brain (src/internal/engine/memory):     *)
(* the message buffer of each session, filled by the prompts under way,    *)
(* read and emptied by maintenance goroutines, and emptied by the "/new"   *)
(* command (src/internal/agent/agent.go, Gateway.CreateNewSession).        *)
(*                                                                         *)
(* Nothing keeps two maintenance goroutines apart, and none of them holds  *)
(* Brain.mu between reading a buffer and clearing it: the steps below are  *)
(* the critical sections on Brain.mu and the model calls between them.     *)
(* A prompt contributes two messages, its question and its answer; the     *)
(* tool messages of the agent loop are added to the buffer the same way.   *)
(***************************************************************************)
EXTENDS Naturals, Sequences, FiniteSets, SequencesExt

CONSTANTS
    Prompts,        \* prompts, each answered at most once
    Sessions,       \* session ids
    Workers,        \* goroutines that may run TriggerMaintenance at a time
    MaxBuffer,      \* maxBuffer of AddToBuffer (200)
    TriggerEvery,   \* messages between two triggers of AddToBuffer (50)
    MaxRenewals,    \* bound on the number of "/new" commands
    None            \* no session

ASSUME MaxBufferAssumption == MaxBuffer \in Nat \ {0}
ASSUME TriggerEveryAssumption == TriggerEvery \in Nat \ {0}
ASSUME MaxRenewalsAssumption == MaxRenewals \in Nat
ASSUME NoneAssumption == None \notin Sessions

VARIABLES
    prompt,         \* prompt[p]: how far prompt p has come
    sess,           \* sess[p]: the session prompt p was sent to
    buffer,         \* Brain.buffer: the messages of each session
    memories,       \* the vector memories the engine could open
    count,          \* Brain.interactionCount
    pc,             \* pc[w]: where maintenance goroutine w stands
    ctxOver,        \* workers whose context is over: every model call fails
    bound,          \* workers that run with the context of some request
    todo,           \* todo[w]: session ids w has still to visit
    cur,            \* cur[w]: the session w is working on
    snap,           \* snap[w]: the messages w read from the buffer of cur[w]
    renewing,       \* sessions with a "/new" between its two steps
    renewals,       \* number of "/new" commands so far
    \* History, not part of the program:
    summarised,     \* messages that went into a stored summary
    unstored,       \* messages whose Summarize returned nil and stored nothing
    late,           \* messages added to a session some worker has read already
    lost,           \* messages a worker deleted from a buffer
    lag,            \* messages added since the last maintenance was started
    resets          \* resets of count since then

promptVars == <<prompt, sess>>
workerVars == <<pc, ctxOver, bound, todo, cur, snap>>
renewVars == <<renewing, renewals>>
history == <<memories, summarised, unstored, late, lost>>
vars == <<prompt, sess, buffer, memories, count, pc, ctxOver, bound, todo, cur,
          snap, renewing, renewals, summarised, unstored, late, lost, lag, resets>>

-----------------------------------------------------------------------------
Message == Prompts \X {"question", "answer"}
Held(s) == ToSet(buffer[s])
Memory == {"facts", "summaries"}

TypeOK ==
    /\ prompt \in [Prompts -> {"idle", "asked", "answered", "failed"}]
    /\ sess \in [Prompts -> Sessions \cup {None}]
    /\ buffer \in [Sessions -> Seq(Message)]
    /\ \A s \in Sessions : Len(buffer[s]) <= MaxBuffer
    /\ memories \subseteq Memory
    /\ count \in Nat
    /\ pc \in [Workers -> {"idle", "listing", "visiting", "summarizing",
                           "clearing", "compacting"}]
    /\ ctxOver \subseteq Workers /\ bound \subseteq Workers
    /\ todo \in [Workers -> SUBSET Sessions]
    /\ cur \in [Workers -> Sessions \cup {None}]
    /\ snap \in [Workers -> SUBSET Message]
    /\ renewing \subseteq Sessions
    /\ renewals \in 0 .. MaxRenewals
    /\ summarised \subseteq Message
    /\ unstored \subseteq Message
    /\ late \subseteq Message
    /\ lost \subseteq Message
    /\ lag \in Nat /\ resets \in Nat

\* A memory that cannot be opened is left out with a warning, and the engine
\* runs without it.
Init ==
    /\ memories \in SUBSET Memory
    /\ prompt = [p \in Prompts |-> "idle"]
    /\ sess = [p \in Prompts |-> None]
    /\ buffer = [s \in Sessions |-> <<>>]
    /\ count = 0
    /\ pc = [w \in Workers |-> "idle"]
    /\ ctxOver = {} /\ bound = {}
    /\ todo = [w \in Workers |-> {}]
    /\ cur = [w \in Workers |-> None]
    /\ snap = [w \in Workers |-> {}]
    /\ renewing = {}
    /\ renewals = 0
    /\ summarised = {} /\ unstored = {} /\ late = {} /\ lost = {}
    /\ lag = 0 /\ resets = 0

-----------------------------------------------------------------------------
Goto(w, step) == pc' = [pc EXCEPT ![w] = step]

\* The worker lets go of the session it was working on.
Leave(w) ==
    /\ cur' = [cur EXCEPT ![w] = None]
    /\ snap' = [snap EXCEPT ![w] = {}]

\* A buffer keeps its last MaxBuffer messages.
Tailored(seq) ==
    SubSeq(seq, 1 + IF Len(seq) > MaxBuffer THEN Len(seq) - MaxBuffer ELSE 0,
           Len(seq))

\* Workers between GetBuffer and ClearBuffer of session s.
Reading(s) == {w \in Workers : cur[w] = s}

\* "go b.TriggerMaintenance(ctx, ...)" with the context of a request
\* (withRequest) or with context.Background().
Trigger(w, withRequest) ==
    /\ pc[w] = "idle"
    /\ Goto(w, "listing")
    /\ bound' = IF withRequest THEN bound \cup {w} ELSE bound
    /\ lag' = 0 /\ resets' = 0
    /\ UNCHANGED <<ctxOver, todo, cur, snap>>

-----------------------------------------------------------------------------
(***************************************************************************)
(* Faulty variants of the definitions below, used only to check that each  *)
(* property can fail.                                                      *)
(***************************************************************************)

\* Only reaching the threshold triggers, not its later multiples.
AddToBuffer_TriggersOnce(s, m) ==
    /\ buffer' = [buffer EXCEPT ![s] = Tailored(Append(@, m))]
    /\ late' = IF Reading(s) = {} THEN late ELSE late \cup {m}
    /\ count' = count + 1
    /\ IF count + 1 = TriggerEvery
       THEN \E w \in Workers : Trigger(w, FALSE)
       ELSE lag' = lag + 1 /\ UNCHANGED <<resets, workerVars>>

\* The buffer is cleared although Summarize returned an error.
SummarizeFails_ClearsAnyway(w) ==
    /\ pc[w] = "summarizing"
    /\ Goto(w, "clearing")
    /\ UNCHANGED <<promptVars, buffer, count, ctxOver, bound, todo, cur, snap,
                   renewVars, history, lag, resets>>

\* A session whose buffer is empty stays on the list.
Skip_KeepsSession(w) ==
    /\ pc[w] = "visiting"
    /\ \E s \in todo[w] : buffer[s] = <<>>
    /\ UNCHANGED vars

-----------------------------------------------------------------------------
(***************************************************************************)
(* Prompts: EinoEngine.Respond and StreamRespond                           *)
(***************************************************************************)

\* Brain.AddToBuffer
AddToBuffer(s, m) ==
    /\ buffer' = [buffer EXCEPT ![s] = Tailored(Append(@, m))]
    /\ late' = IF Reading(s) = {} THEN late ELSE late \cup {m}
    /\ count' = count + 1
    /\ IF (count + 1) % TriggerEvery = 0
       THEN \E w \in Workers : Trigger(w, FALSE)
       ELSE lag' = lag + 1 /\ UNCHANGED <<resets, workerVars>>

\* The question enters the buffer before the graph is invoked.
Ask(p, s) ==
    /\ prompt[p] = "idle"
    /\ prompt' = [prompt EXCEPT ![p] = "asked"]
    /\ sess' = [sess EXCEPT ![p] = s]
    /\ AddToBuffer(s, <<p, "question">>)
    /\ UNCHANGED <<renewVars, memories, summarised, unstored, lost>>

\* The brain node of the graph: the answer enters the buffer.
Answer(p) ==
    /\ prompt[p] = "asked"
    /\ prompt' = [prompt EXCEPT ![p] = "answered"]
    /\ AddToBuffer(sess[p], <<p, "answer">>)
    /\ UNCHANGED <<sess, renewVars, memories, summarised, unstored, lost>>

\* The graph failed: the question stays in the buffer without an answer.
RespondFails(p) ==
    /\ prompt[p] = "asked"
    /\ prompt' = [prompt EXCEPT ![p] = "failed"]
    /\ UNCHANGED <<sess, buffer, count, workerVars, renewVars, history,
                   lag, resets>>

\* UpdateContextUsage and RetrieveDocuments find the context window 60% full
\* and start maintenance with the context of the request at hand.
UsageHigh(w) ==
    /\ \E p \in Prompts : prompt[p] \in {"asked", "answered"}
    /\ Trigger(w, TRUE)
    /\ UNCHANGED <<promptVars, buffer, count, renewVars, history>>

\* The cron job of Gateway.New starts maintenance every 12 hours.
Scheduled(w) ==
    /\ Trigger(w, FALSE)
    /\ UNCHANGED <<promptVars, buffer, count, renewVars, history>>

\* The request whose context w works with has been served.
RequestOver(w) ==
    /\ w \in bound \ ctxOver
    /\ ctxOver' = ctxOver \cup {w}
    /\ UNCHANGED <<promptVars, buffer, count, pc, bound, todo, cur, snap,
                   renewVars, history, lag, resets>>

-----------------------------------------------------------------------------
(***************************************************************************)
(* "/new": "go a.Eng.CompactMemory(ctx, sessionID)" is started, and the    *)
(* buffer is cleared without waiting for it.                               *)
(***************************************************************************)
Renew(s, w) ==
    /\ s \notin renewing
    /\ renewals < MaxRenewals
    /\ renewals' = renewals + 1
    /\ renewing' = renewing \cup {s}
    /\ Trigger(w, TRUE)
    /\ UNCHANGED <<promptVars, buffer, count, history>>

ClearHistory(s) ==
    /\ s \in renewing
    /\ renewing' = renewing \ {s}
    /\ buffer' = [buffer EXCEPT ![s] = <<>>]
    /\ UNCHANGED <<promptVars, count, workerVars, renewals, history, lag, resets>>

-----------------------------------------------------------------------------
(***************************************************************************)
(* Brain.TriggerMaintenance                                                *)
(***************************************************************************)

\* The session ids of the buffer map are collected.
ListSessions(w) ==
    /\ pc[w] = "listing"
    /\ todo' = [todo EXCEPT ![w] = {s \in Sessions : buffer[s] # <<>>}]
    /\ Goto(w, "visiting")
    /\ UNCHANGED <<promptVars, buffer, count, ctxOver, bound, cur, snap,
                   renewVars, history, lag, resets>>

\* GetBuffer returns nothing for a session cleared in the meantime.
Skip(w) ==
    /\ pc[w] = "visiting"
    /\ \E s \in todo[w] :
         /\ buffer[s] = <<>>
         /\ todo' = [todo EXCEPT ![w] = @ \ {s}]
    /\ UNCHANGED <<promptVars, buffer, count, pc, ctxOver, bound, cur, snap,
                   renewVars, history, lag, resets>>

\* GetBuffer, then fact extraction, reflection and topology analysis of the
\* messages read; none of these three touches the buffer, nor stops the visit
\* when it fails.
Visit(w) ==
    /\ pc[w] = "visiting"
    /\ \E s \in todo[w] :
         /\ buffer[s] # <<>>
         /\ todo' = [todo EXCEPT ![w] = @ \ {s}]
         /\ cur' = [cur EXCEPT ![w] = s]
         /\ snap' = [snap EXCEPT ![w] = Held(s)]
    /\ Goto(w, "summarizing")
    /\ UNCHANGED <<promptVars, buffer, count, ctxOver, bound, renewVars,
                   history, lag, resets>>

\* Summarize returns nil, and the buffer is to be cleared.
Summarized(w) ==
    /\ pc[w] = "summarizing"
    /\ Goto(w, "clearing")
    /\ UNCHANGED <<promptVars, buffer, memories, count, ctxOver, bound, todo, cur,
                   snap, renewVars, late, lost, lag, resets>>

\* The model has answered and the summary of the messages read is stored (it
\* is made from the questions; the answers count as covered by it).
Summarize(w) ==
    /\ "summaries" \in memories
    /\ w \notin ctxOver
    /\ Summarized(w)
    /\ summarised' = summarised \cup snap[w]
    /\ UNCHANGED unstored

\* The model has answered, and the error of summaryMemory.Add is discarded:
\* the embedding or the write fails, or the context ends just before it.
SummarizeStoresNothing(w) ==
    /\ "summaries" \in memories
    /\ Summarized(w)
    /\ unstored' = unstored \cup snap[w]
    /\ UNCHANGED summarised

\* Without a memory for summaries, Summarize returns nil before anything else.
SummarizeSkipped(w) ==
    /\ "summaries" \notin memories
    /\ Summarized(w)
    /\ unstored' = unstored \cup snap[w]
    /\ UNCHANGED summarised

\* The model call fails or runs into its deadline: the buffer is kept.
SummarizeFails(w) ==
    /\ "summaries" \in memories
    /\ pc[w] = "summarizing"
    /\ Leave(w)
    /\ Goto(w, "visiting")
    /\ UNCHANGED <<promptVars, buffer, count, ctxOver, bound, todo, renewVars,
                   history, lag, resets>>

\* ClearBuffer deletes whatever the buffer holds by now.
Clear(w) ==
    /\ pc[w] = "clearing"
    /\ lost' = lost \cup Held(cur[w])
    /\ buffer' = [buffer EXCEPT ![cur[w]] = <<>>]
    /\ Leave(w)
    /\ Goto(w, "visiting")
    /\ UNCHANGED <<promptVars, memories, count, ctxOver, bound, todo, renewVars,
                   summarised, unstored, late, lag, resets>>

\* Compact resets the counter before anything else; with a memory missing it
\* returns before that.
StartCompact(w) ==
    /\ pc[w] = "visiting"
    /\ todo[w] = {}
    /\ IF memories = Memory
       THEN count' = 0 /\ resets' = resets + 1
       ELSE UNCHANGED <<count, resets>>
    /\ Goto(w, "compacting")
    /\ UNCHANGED <<promptVars, buffer, ctxOver, bound, todo, cur, snap,
                   renewVars, history, lag>>

\* Compaction of the long-term memory ends, and the goroutine with it.
EndCompact(w) ==
    /\ pc[w] = "compacting"
    /\ Goto(w, "idle")
    /\ bound' = bound \ {w}
    /\ ctxOver' = ctxOver \ {w}
    /\ UNCHANGED <<promptVars, buffer, count, todo, cur, snap, renewVars,
                   history, lag, resets>>

Maintain(w) ==
    \/ ListSessions(w) \/ Skip(w) \/ Visit(w)
    \/ Summarize(w) \/ SummarizeStoresNothing(w) \/ SummarizeSkipped(w)
    \/ SummarizeFails(w) \/ Clear(w)
    \/ StartCompact(w) \/ EndCompact(w)

Next ==
    \/ \E p \in Prompts :
         (\E s \in Sessions : Ask(p, s)) \/ Answer(p) \/ RespondFails(p)
    \/ \E w \in Workers :
         Maintain(w) \/ UsageHigh(w) \/ Scheduled(w) \/ RequestOver(w)
    \/ \E s \in Sessions :
         (\E w \in Workers : Renew(s, w)) \/ ClearHistory(s)

Spec == Init /\ [][Next]_vars

(***************************************************************************)
(* A goroutine that can run does; every operation of TriggerMaintenance has*)
(* a deadline of its own (1 to 5 minutes), so that its steps end.          *)
(***************************************************************************)
FairSpec ==
    /\ Spec
    /\ \A w \in Workers : WF_vars(Maintain(w))
    /\ \A s \in Sessions : WF_vars(ClearHistory(s))

-----------------------------------------------------------------------------
(***************************************************************************)
(* Properties                                                              *)
(***************************************************************************)

\* What maintenance deletes from a buffer has gone into a summary, came in
\* while some worker was between its reading and its clearing of that session,
\* or was read by a Summarize that returned nil and stored nothing: a failed
\* model call, an ended request or another worker's visit delete no message.
LossesAreExplained == lost \subseteq summarised \cup late \cup unstored

\* "Clear buffer after successful summarization": what maintenance deletes and
\* was there when the buffer was read is in a stored summary.
ClearedMeansSummarised == lost \subseteq summarised \cup late

\* Messages pile up for less than one threshold before maintenance starts,
\* and for one more threshold for each compaction that reset the counter
\* meanwhile.
MaintenanceIsTimely == lag < (resets + 1) * TriggerEvery

\* Every maintenance goroutine ends, although buffers fill up and are cleared
\* while it goes through its list.
MaintenanceEnds == \A w \in Workers : pc[w] # "idle" ~> pc[w] = "idle"

=============================================================================
