------------------------------ MODULE AgentLoop ------------------------------
(***************************************************************************)
(* A prompt in the primary engine: EinoEngine.Respond and StreamRespond    *)
(* (src/internal/engine/eino_memory.go), the retriever, agent and brain    *)
(* nodes of the graph (eino_graph.go), the ReAct loop of the agent node    *)
(* (eino_agent_loop.go) and resilience.Retry around its model calls.       *)
(*                                                                         *)
(* All chats share one session and so one message buffer of the brain.     *)
(* Prompts of that session run at the same time, each on the copy of the   *)
(* buffer it took at its start, and add what they say and what their tools *)
(* answer to the buffer, one message for each hold of Brain.mu; maintenance*)
(* and "/new" clear the buffer at any time.                                *)
(***************************************************************************)
EXTENDS Naturals, Sequences, FiniteSets, SequencesExt

CONSTANTS
    Prompts,        \* prompts of the session, with different texts
    Calls,          \* tool calls a model may ask for in one answer
    Intercepted,    \* those the loop runs itself: task_manager, file_manager;
                    \* none in an engine without a gateway
    MaxCalls,       \* bound on the calls of one answer
    MaxSteps,       \* maxSteps of the engine (12)
    MaxAttempts,    \* attempts of resilience.Retry (3)
    MaxBuffer       \* maxBuffer of AddToBuffer (200)

ASSUME InterceptedAssumption == Intercepted \subseteq Calls
ASSUME BoundsAssumption ==
    /\ MaxCalls \in Nat \ {0} /\ MaxSteps \in Nat \ {0}
    /\ MaxAttempts \in Nat \ {0} /\ MaxBuffer \in Nat \ {0}

VARIABLES
    buffer,     \* Brain.buffer of the session
    pc,         \* pc[p]: where the goroutine of prompt p stands
    msgs,       \* msgs[p]: of what the loop sends to the model, the messages
                \* of prompt p (not the other prompts' and the system's)
    step,       \* step[p]: answers with tool calls so far
    attempt,    \* attempt[p]: which attempt at the model call is next
    unsent      \* unsent[p]: messages still to be added to the buffer

vars == <<buffer, pc, msgs, step, attempt, unsent>>

-----------------------------------------------------------------------------
(***************************************************************************)
(* Messages.  Of their content only who produced them and which call a     *)
(* result answers matter.  A message is never blank (the loop fills in a   *)
(* text), so that no filter on the way drops one.                          *)
(***************************************************************************)
Question(p) == [is |-> "question", by |-> p]
Request(p, i, cs) == [is |-> "request", by |-> p, step |-> i, calls |-> cs]
Result(p, i, c) == [is |-> "result", by |-> p, step |-> i, call |-> c]
Answer(p) == [is |-> "answer", by |-> p]

CallLists ==
    {cs \in BoundedSeq(Calls, MaxCalls) : cs # <<>> /\ IsInjective(cs)}

Message ==
    {Question(p) : p \in Prompts} \cup {Answer(p) : p \in Prompts}
    \cup {Request(p, i, cs) : p \in Prompts, i \in 0 .. MaxSteps, cs \in CallLists}
    \cup {Result(p, i, c) : p \in Prompts, i \in 0 .. MaxSteps, c \in Calls}

\* The steps of the loop, between the first and the last access to the buffer.
Looping == {"generating", "managing", "invoking", "finishing"}
Over == {"answered", "failed"}

TypeOK ==
    /\ ToSet(buffer) \subseteq Message
    /\ Len(buffer) <= MaxBuffer
    /\ pc \in [Prompts -> {"idle", "loading", "answering"} \cup Looping \cup Over]
    /\ \A p \in Prompts :
         ToSet(msgs[p]) \cup ToSet(unsent[p]) \subseteq Message
    /\ step \in [Prompts -> 0 .. MaxSteps]
    /\ attempt \in [Prompts -> 1 .. MaxAttempts]

Init ==
    /\ buffer = <<>>
    /\ pc = [p \in Prompts |-> "idle"]
    /\ msgs = [p \in Prompts |-> <<>>]
    /\ step = [p \in Prompts |-> 0]
    /\ attempt = [p \in Prompts |-> 1]
    /\ unsent = [p \in Prompts |-> <<>>]

-----------------------------------------------------------------------------
Goto(p, next) == pc' = [pc EXCEPT ![p] = next]
Say(p, seq) == msgs' = [msgs EXCEPT ![p] = @ \o seq]

\* The goroutine ends, and its variables with it.
Return(p, outcome) ==
    /\ Goto(p, outcome)
    /\ msgs' = [msgs EXCEPT ![p] = <<>>]
    /\ attempt' = [attempt EXCEPT ![p] = 1]

\* Brain.AddToBuffer: the last MaxBuffer messages are kept.
AddToBuffer(m) ==
    LET all == Append(buffer, m)
    IN  buffer' = IF Len(all) > MaxBuffer THEN Tail(all) ELSE all

\* The elements of a sequence that are in a set, in their order: SelectSeq in a
\* form that the provers can expand.
Chosen(seq, set) ==
    LET chosen[n \in 0 .. Len(seq)] ==
          IF n = 0 THEN <<>>
          ELSE IF seq[n] \in set THEN Append(chosen[n - 1], seq[n])
               ELSE chosen[n - 1]
    IN  chosen[Len(seq)]

\* The messages of prompt p in a sequence.
By(p, seq) == Chosen(seq, {m \in Message : m.by = p})

\* The calls that p's request of this step asks for.
Asked(p) ==
    (CHOOSE m \in ToSet(msgs[p]) : m.is = "request" /\ m.step = step[p]).calls

\* The tool messages for those calls of the last request that are in a set, in
\* the order of the request.
Results(p, some) ==
    LET cs == Chosen(Asked(p), some)
    IN  [k \in DOMAIN cs |-> Result(p, step[p], cs[k])]

\* Where the loop goes after the tools of a step.
AfterTools(p) == IF step[p] + 1 = MaxSteps THEN "finishing" ELSE "generating"

-----------------------------------------------------------------------------
(***************************************************************************)
(* Faulty variants of the definitions below, used only to check that each  *)
(* property can fail.                                                      *)
(***************************************************************************)

\* The question is taken to be in the history.
Load_TrustsHistory(p) ==
    /\ pc[p] = "loading"
    /\ Say(p, By(p, buffer))
    /\ Goto(p, "generating")
    /\ UNCHANGED <<buffer, step, attempt, unsent>>

\* The tools node is given the whole request, not the remaining calls.
Invoke_AllCalls(p) ==
    /\ pc[p] = "invoking" /\ unsent[p] = <<>>
    /\ LET results == Results(p, Calls)
       IN  Say(p, results) /\ unsent' = [unsent EXCEPT ![p] = results]
    /\ Goto(p, AfterTools(p))
    /\ step' = [step EXCEPT ![p] = @ + 1]
    /\ UNCHANGED <<buffer, attempt>>

\* The results of task_manager and file_manager do not enter the buffer.
Manage_NotBuffered(p) ==
    /\ pc[p] = "managing"
    /\ Say(p, Results(p, Intercepted))
    /\ Goto(p, "invoking")
    /\ UNCHANGED <<buffer, step, attempt, unsent>>

\* The error of the tools node is logged, and the loop goes on.
InvokeFails_GoesOn(p) ==
    /\ pc[p] = "invoking" /\ unsent[p] = <<>>
    /\ Goto(p, AfterTools(p))
    /\ step' = [step EXCEPT ![p] = @ + 1]
    /\ UNCHANGED <<buffer, msgs, attempt, unsent>>

-----------------------------------------------------------------------------
(***************************************************************************)
(* Respond and StreamRespond up to the loop                                *)
(***************************************************************************)

\* The question enters the buffer.
Ask(p) ==
    /\ pc[p] = "idle"
    /\ AddToBuffer(Question(p))
    /\ Goto(p, "loading")
    /\ UNCHANGED <<msgs, step, attempt, unsent>>

\* The history is copied from the buffer.  The retriever appends memories,
\* the loop the skills it activates for the default session, both as messages
\* of the system; then the question is appended unless it is the last message
\* already.
Load(p) ==
    /\ pc[p] = "loading"
    /\ \E systemAdded \in BOOLEAN :
         LET isLast == /\ ~ systemAdded
                       /\ buffer # <<>>
                       /\ Last(buffer) = Question(p)
         IN  Say(p, By(p, buffer) \o IF isLast THEN <<>> ELSE <<Question(p)>>)
    /\ Goto(p, "generating")
    /\ UNCHANGED <<buffer, step, attempt, unsent>>

(***************************************************************************)
(* agentInvoke: model calls                                                *)
(***************************************************************************)
Ready(p) == unsent[p] = <<>>

\* A transient error and attempts left: Retry waits and tries again.
Retry(p) ==
    /\ pc[p] = "generating" /\ Ready(p)
    /\ attempt[p] < MaxAttempts
    /\ attempt' = [attempt EXCEPT ![p] = @ + 1]
    /\ UNCHANGED <<buffer, pc, msgs, step, unsent>>

\* Any other error, a transient one of the last attempt, the end of the
\* context while Retry waits, or an error of the final call, which is made
\* once only: Respond returns it, and the answer is lost.
ModelFails(p) ==
    /\ pc[p] \in {"generating", "finishing"} /\ Ready(p)
    /\ Return(p, "failed")
    /\ UNCHANGED <<buffer, step, unsent>>

\* The model asks for tools.  Its message enters the conversation and the
\* buffer.  (The text of a skill asked for with skill_use follows at once, as
\* a message of the system and in the conversation only.)
RequestTools(p) ==
    /\ pc[p] = "generating" /\ Ready(p)
    /\ \E cs \in CallLists :
         /\ Say(p, <<Request(p, step[p], cs)>>)
         /\ AddToBuffer(Request(p, step[p], cs))
    /\ attempt' = [attempt EXCEPT ![p] = 1]
    /\ Goto(p, "managing")
    /\ UNCHANGED <<step, unsent>>

\* The model answers without tools.
ModelAnswers(p) ==
    /\ pc[p] = "generating" /\ Ready(p)
    /\ unsent' = [unsent EXCEPT ![p] = <<Answer(p)>>]
    /\ Goto(p, "answering")
    /\ UNCHANGED <<buffer, msgs, step, attempt>>

\* The final call once the steps are used up.  The tools are still bound to
\* the model: a message that asks for more of them is an answer all the same.
FinalAnswer(p) ==
    /\ pc[p] = "finishing" /\ Ready(p)
    /\ \E m \in {Answer(p)} \cup {Request(p, step[p], cs) : cs \in CallLists} :
         unsent' = [unsent EXCEPT ![p] = <<m>>]
    /\ Goto(p, "answering")
    /\ UNCHANGED <<buffer, msgs, step, attempt>>

(***************************************************************************)
(* agentInvoke: tool calls                                                 *)
(***************************************************************************)

\* task_manager and file_manager run one after the other; an error becomes
\* the text of the result.
Manage(p) ==
    /\ pc[p] = "managing"
    /\ LET results == Results(p, Intercepted)
       IN  Say(p, results) /\ unsent' = [unsent EXCEPT ![p] = results]
    /\ Goto(p, "invoking")
    /\ UNCHANGED <<buffer, step, attempt>>

\* The tools node runs the remaining calls, if there are any.
Invoke(p) ==
    /\ pc[p] = "invoking" /\ Ready(p)
    /\ LET results == Results(p, Calls \ Intercepted)
       IN  Say(p, results) /\ unsent' = [unsent EXCEPT ![p] = results]
    /\ Goto(p, AfterTools(p))
    /\ step' = [step EXCEPT ![p] = @ + 1]
    /\ UNCHANGED <<buffer, attempt>>

\* It fails as a whole when one of them does, and Respond with it.
InvokeFails(p) ==
    /\ pc[p] = "invoking" /\ Ready(p)
    /\ ~ ToSet(Asked(p)) \subseteq Intercepted
    /\ Return(p, "failed")
    /\ UNCHANGED <<buffer, step, unsent>>

\* The results enter the buffer, one at a time.
Push(p) ==
    /\ pc[p] \in Looping /\ ~ Ready(p)
    /\ AddToBuffer(Head(unsent[p]))
    /\ unsent' = [unsent EXCEPT ![p] = Tail(@)]
    /\ UNCHANGED <<pc, msgs, step, attempt>>

\* The brain node: the last message enters the buffer, the prompt is served.
Deliver(p) ==
    /\ pc[p] = "answering"
    /\ AddToBuffer(Head(unsent[p]))
    /\ unsent' = [unsent EXCEPT ![p] = <<>>]
    /\ Return(p, "answered")
    /\ UNCHANGED step

-----------------------------------------------------------------------------
\* Brain.ClearBuffer, called by maintenance and by "/new".
ClearBuffer ==
    /\ buffer' = <<>>
    /\ UNCHANGED <<pc, msgs, step, attempt, unsent>>

\* The steps of the goroutine of p once it is asked.
Respond(p) ==
    \/ Load(p) \/ Retry(p) \/ ModelFails(p) \/ RequestTools(p)
    \/ ModelAnswers(p) \/ FinalAnswer(p) \/ Manage(p) \/ Invoke(p)
    \/ InvokeFails(p) \/ Push(p) \/ Deliver(p)

Next ==
    \/ \E p \in Prompts : Ask(p) \/ Respond(p)
    \/ ClearBuffer

Spec == Init /\ [][Next]_vars

-----------------------------------------------------------------------------
(***************************************************************************)
(* Properties                                                              *)
(***************************************************************************)
Count(m, seq, first) == Cardinality({j \in first .. Len(seq) : seq[j] = m})

\* Whenever the model is called, each call it has asked for in this prompt,
\* whether the loop or the tools node ran it, is followed by exactly one
\* result (chat APIs reject a conversation where one is missing).
CallsAreAnswered ==
    \A p \in Prompts : pc[p] \in {"generating", "finishing"} =>
        \A i \in DOMAIN msgs[p] :
            LET m == msgs[p][i]
            IN  m.is = "request" =>
                    \A c \in ToSet(m.calls) :
                        Count(Result(p, m.step, c), msgs[p], i + 1) = 1

\* The model is never called without the user's question, although the buffer
\* may be cleared or overrun between the question's entry and its reading.
QuestionIsPresent ==
    \A p \in Prompts : pc[p] \in Looping => Question(p) \in ToSet(msgs[p])

\* What the buffer holds of a prompt under way is the end of what was said in
\* it: messages get lost at the front only (by the cap or a clear), and none
\* is left out, doubled or swapped, whatever other prompts add in between.
BufferHoldsTheEnd ==
    \A p \in Prompts : pc[p] \in Looping =>
        LET said == Chosen(msgs[p], {m \in Message : m.is # "question"})
        IN  IsSuffix(By(p, buffer) \o unsent[p], <<Question(p)>> \o said)

\* A request that stands in the buffer without one of its results, where it
\* becomes part of the history of the prompts to come, is one of a prompt that
\* is still at work or failed, or the message it gave after its last step.
OpenCallsHaveAReason ==
    \A i \in DOMAIN buffer :
        buffer[i].is = "request" =>
            LET m == buffer[i]
            IN  \/ pc[m.by] = "failed" \/ pc[m.by] \notin Over
                \/ m.step = MaxSteps
                \/ \A c \in ToSet(m.calls) :
                     Count(Result(m.by, m.step, c), buffer, i + 1) = 1

=============================================================================
