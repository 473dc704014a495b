---------------------------- MODULE HumanRequests ---------------------------
(***************************************************************************)
(* Questions to a human and their answers (src/internal/api/rest.go).  A   *)
(* question is a file of human_pending, put there from outside.  An answer *)
(* reads the file, checks that it is pending, and writes it anew, without  *)
(* a lock: os.WriteFile truncates the file and then writes it.             *)
(***************************************************************************)
EXTENDS FiniteSets

CONSTANTS
    Requests,  \* ids of questions
    Calls,     \* calls of POST /human/{id}: each is an answer of its own
    Lists,     \* calls of GET /human/pending
    Missing,   \* no file
    Torn,      \* truncated, or written in part: not JSON
    Pending    \* asked and not answered

VARIABLES
    question,  \* question[r]: the file of r: Missing, Torn, Pending, or its answer
    call,      \* call[c]: where the handler stands, and the id it was given
    list,      \* list[l]: ids still to be read, ids found pending
    gone,      \* the process has ended
    \* History, not part of the program:
    raced,     \* questions read for an answer while another was being given
    lossy      \* questions whose file was written in part

vars == <<question, call, list, gone, raced, lossy>>

Stage == {"idle", "read", "truncated", "refused", "failed", "accepted"}

TypeOK ==
    /\ question \in [Requests -> {Missing, Torn, Pending} \cup Calls]
    /\ call \in [Calls -> [at : Stage, id : Requests]]
    /\ list \in [Lists -> [at : {"idle", "reading", "done"},
                           todo : SUBSET Requests, found : SUBSET Requests]]
    /\ gone \in BOOLEAN
    /\ raced \subseteq Requests /\ lossy \subseteq Requests

Init ==
    /\ question = [r \in Requests |-> Missing]
    /\ call \in [Calls -> [at : {"idle"}, id : Requests]]
    /\ list = [l \in Lists |-> [at |-> "idle", todo |-> {}, found |-> {}]]
    /\ gone = FALSE
    /\ raced = {} /\ lossy = {}

Goto(c, stage) == call' = [call EXCEPT ![c].at = stage]
Answering(r) == {c \in Calls : call[c].id = r /\ call[c].at \in {"read", "truncated"}}

-----------------------------------------------------------------------------
Ask(r) ==
    /\ question[r] = Missing
    /\ question' = [question EXCEPT ![r] = Pending]
    /\ UNCHANGED <<call, list, gone, raced, lossy>>

\* Faulty: whether the question is still pending is not looked at.
ReadQuestion_Unchecked(c) ==
    LET r == call[c].id
    IN  /\ ~gone /\ call[c].at = "idle"
        /\ Goto(c, IF question[r] \in {Missing, Torn} THEN "refused" ELSE "read")
        /\ raced' = IF Answering(r) # {} THEN raced \cup {r} ELSE raced
        /\ UNCHANGED <<question, list, gone, lossy>>

\* The file is read and checked; an answer that does not bind is refused too.
ReadQuestion(c) ==
    LET r == call[c].id
    IN  /\ ~gone /\ call[c].at = "idle"
        /\ \/ Goto(c, IF question[r] = Pending THEN "read" ELSE "refused")
           \/ Goto(c, "refused")
        /\ raced' = IF Answering(r) # {} THEN raced \cup {r} ELSE raced
        /\ UNCHANGED <<question, list, gone, lossy>>

\* os.WriteFile, first half.
Truncate(c) ==
    /\ ~gone /\ call[c].at = "read"
    /\ question' = [question EXCEPT ![call[c].id] = Torn]
    /\ Goto(c, "truncated")
    /\ UNCHANGED <<list, gone, raced, lossy>>

\* Second half.  Another answer may have been written since: the longer one
\* leaves its end behind the shorter.
WriteAnswer(c) ==
    LET r == call[c].id
    IN  /\ ~gone /\ call[c].at = "truncated"
        /\ \E written \in {c} \cup (IF question[r] = Torn THEN {} ELSE {Torn}) :
             question' = [question EXCEPT ![r] = written]
        /\ Goto(c, "accepted")
        /\ UNCHANGED <<list, gone, raced, lossy>>

\* The file cannot be opened, or not be written in full: 500.
WriteFails(c) ==
    /\ ~gone /\ call[c].at \in {"read", "truncated"}
    /\ Goto(c, "failed")
    /\ lossy' = IF call[c].at = "read" THEN lossy ELSE lossy \cup {call[c].id}
    /\ question' = IF call[c].at = "read" THEN question
                   ELSE [question EXCEPT ![call[c].id] = Torn]
    /\ UNCHANGED <<list, gone, raced>>

Answer(c) == ReadQuestion(c) \/ Truncate(c) \/ WriteAnswer(c) \/ WriteFails(c)

-----------------------------------------------------------------------------
\* handleListHumanPending reads the directory, and then each file in turn;
\* one that cannot be read or is no JSON is passed over.
BeginList(l) ==
    /\ ~gone /\ list[l].at = "idle"
    /\ list' = [list EXCEPT ![l] = [at |-> "reading", found |-> {},
                                    todo |-> {r \in Requests : question[r] # Missing}]]
    /\ UNCHANGED <<question, call, gone, raced, lossy>>

ListOne(l) ==
    /\ ~gone /\ list[l].at = "reading"
    /\ \E r \in list[l].todo :
         list' = [list EXCEPT ![l].todo = @ \ {r},
                              ![l].found = IF question[r] = Pending THEN @ \cup {r} ELSE @]
    /\ UNCHANGED <<question, call, gone, raced, lossy>>

EndList(l) ==
    /\ ~gone /\ list[l].at = "reading" /\ list[l].todo = {}
    /\ list' = [list EXCEPT ![l].at = "done"]
    /\ UNCHANGED <<question, call, gone, raced, lossy>>

Die ==
    /\ ~gone /\ gone' = TRUE
    /\ lossy' = lossy \cup {call[c].id : c \in {d \in Calls : call[d].at = "truncated"}}
    /\ UNCHANGED <<question, call, list, raced>>

Next ==
    \/ \E r \in Requests : Ask(r)
    \/ \E c \in Calls : Answer(c)
    \/ \E l \in Lists : BeginList(l) \/ ListOne(l) \/ EndList(l)
    \/ Die

Spec == Init /\ [][Next]_vars

-----------------------------------------------------------------------------
\* The answer a client was told is accepted is the one in the file, and the
\* only one: unless two answers to the question met, or a write broke off.
AcceptedAnswerStands ==
    \A c \in Calls : call[c].at = "accepted" =>
        \/ question[call[c].id] = c
        \/ call[c].id \in raced \cup lossy

=============================================================================
