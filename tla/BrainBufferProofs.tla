-------------------------- MODULE BrainBufferProofs -------------------------
(***************************************************************************)
(* Proofs about the message buffer for any prompts, sessions and           *)
(* maintenance goroutines, and any size and threshold: what maintenance    *)
(* deletes was summarised, came in late or was read by a Summarize that    *)
(* stored nothing, and messages do not pile up for longer than a threshold *)
(* and one more for each reset of the counter.                             *)
(***************************************************************************)
EXTENDS BrainBuffer, SequenceTheorems, TLAPS

-----------------------------------------------------------------------------
(***************************************************************************)
(* The counter: division with remainder, and the buffer's cap              *)
(***************************************************************************)

\* What is left over when k is divided by n.
LEMMA DivMod ==
  ASSUME NEW k \in Nat, NEW n \in Nat \ {0}
  PROVE  /\ k = n * (k \div n) + (k % n)
         /\ k \div n \in Nat
         /\ k % n \in 0 .. n - 1
OBVIOUS

\* Two divisions of one number by n, the remainder of one written r + 1.
LEMMA SameQuotient ==
  ASSUME NEW n \in Nat \ {0}, NEW p \in Nat, NEW q \in Nat,
         NEW r \in 0 .. n - 1, NEW s \in 0 .. n - 1,
         n * p + r + 1 = n * q + s, s # 0
  PROVE  s = r + 1
<1>1. CASE p = q
  BY <1>1
<1>2. CASE p >= q + 1
  <2>1. PICK d \in Nat : p = q + 1 + d
    BY <1>2, p - q - 1 \in Nat
  <2>2. n * p = n * q + n + n * d /\ n * d \in Nat /\ n * q \in Nat
    BY <2>1
  <2> QED BY <2>2
<1>3. CASE q >= p + 1
  <2>1. PICK d \in Nat : q = p + 1 + d
    BY <1>3, q - p - 1 \in Nat
  <2>2. n * q = n * p + n + n * d /\ n * d \in Nat /\ n * p \in Nat
    BY <2>1
  <2> QED BY <2>2
<1> QED BY <1>1, <1>2, <1>3

\* A count that does not reach a multiple of the threshold is one further
\* from the last.
LEMMA NextRemainder ==
  ASSUME NEW k \in Nat, NEW n \in Nat \ {0}, (k + 1) % n # 0
  PROVE  (k + 1) % n = (k % n) + 1
<1>1. k = n * (k \div n) + (k % n) /\ k \div n \in Nat /\ k % n \in 0 .. n - 1
  BY DivMod
<1>2. /\ k + 1 = n * ((k + 1) \div n) + ((k + 1) % n)
      /\ (k + 1) \div n \in Nat /\ (k + 1) % n \in 0 .. n - 1
  BY DivMod, k + 1 \in Nat
<1> DEFINE p == k \div n
           q == (k + 1) \div n
           r == k % n
           s == (k + 1) % n
<1>3. n * p + r + 1 = n * q + s
  BY <1>1, <1>2
<1> HIDE DEF p, q, r, s
<1> QED BY <1>1, <1>2, <1>3, SameQuotient DEF p, q, r, s

\* AddToBuffer keeps the last messages, the new one among them, and no other.
LEMMA Tailoring ==
  ASSUME NEW b \in Seq(Message), NEW m \in Message
  PROVE  /\ Tailored(Append(b, m)) \in Seq(Message)
         /\ Len(Tailored(Append(b, m))) <= MaxBuffer
         /\ ToSet(Tailored(Append(b, m))) \subseteq ToSet(b) \cup {m}
<1> DEFINE c == Append(b, m)
           k == IF Len(c) > MaxBuffer THEN Len(c) - MaxBuffer ELSE 0
<1>1. /\ c \in Seq(Message) /\ Len(c) = Len(b) + 1 /\ Len(b) \in Nat
      /\ \A i \in 1 .. Len(b) : c[i] = b[i]
      /\ c[Len(b) + 1] = m
  BY AppendProperties
<1>2. \A i \in 1 .. Len(c) : c[i] \in Message /\ c[i] \in ToSet(b) \cup {m}
  BY <1>1 DEF ToSet
<1>3. k \in 0 .. Len(c) /\ Len(c) - k <= MaxBuffer
  BY <1>1, MaxBufferAssumption
<1>4. Tailored(c) = SubSeq(c, 1 + k, Len(c))
  BY DEF Tailored
<1> HIDE DEF c, k
<1>5. /\ Tailored(c) \in Seq(Message)
      /\ Len(Tailored(c)) = Len(c) - k
      /\ \A i \in 1 .. Len(c) - k : Tailored(c)[i] = c[k + i]
  <2>1. 1 + k \in Int /\ Len(c) \in Int /\ \A i \in 1 + k .. Len(c) : c[i] \in Message
    BY <1>1, <1>2, <1>3
  <2>2. /\ SubSeq(c, 1 + k, Len(c)) \in Seq(Message)
        /\ Len(SubSeq(c, 1 + k, Len(c))) =
             IF 1 + k <= Len(c) THEN Len(c) - (1 + k) + 1 ELSE 0
        /\ \A i \in 1 .. Len(c) - (1 + k) + 1 :
             SubSeq(c, 1 + k, Len(c))[i] = c[1 + k + i - 1]
    BY <2>1, SubSeqProperties
  <2>3. Len(c) \in Nat /\ k \in 0 .. Len(c)
    BY <1>1, <1>3
  <2>4. /\ (IF 1 + k <= Len(c) THEN Len(c) - (1 + k) + 1 ELSE 0) = Len(c) - k
        /\ Len(c) - (1 + k) + 1 = Len(c) - k
        /\ \A i \in 1 .. Len(c) - k : 1 + k + i - 1 = k + i
    BY <2>3
  <2>5. \A i \in 1 .. Len(c) - k : SubSeq(c, 1 + k, Len(c))[i] = c[k + i]
    BY <2>2, <2>4
  <2> QED BY <2>2, <2>4, <2>5, <1>4
<1>6. \A i \in 1 .. Len(Tailored(c)) : Tailored(c)[i] \in ToSet(b) \cup {m}
  <2>1. Len(c) \in Nat /\ k \in 0 .. Len(c)
    BY <1>1, <1>3
  <2>2. \A i \in 1 .. Len(c) - k : k + i \in 1 .. Len(c)
    BY <2>1
  <2> QED BY <1>2, <1>5, <2>2
<1>7. ToSet(Tailored(c)) \subseteq ToSet(b) \cup {m}
  BY <1>5, <1>6 DEF ToSet
<1> QED BY <1>3, <1>5, <1>7, MaxBufferAssumption DEF c

-----------------------------------------------------------------------------
(***************************************************************************)
(* The inductive invariant                                                 *)
(***************************************************************************)

\* A question is added to a session before its answer is.
AskedSomewhere == \A p \in Prompts : prompt[p] = "asked" => sess[p] \in Sessions

\* A goroutine holds a session from reading its buffer to clearing it.
HoldsSession ==
    \A w \in Workers : cur[w] # None <=> pc[w] \in {"summarizing", "clearing"}

\* What the buffer of a session under summary holds was read or came in late.
ReadOrLate ==
    \A w \in Workers : cur[w] # None => Held(cur[w]) \subseteq snap[w] \cup late

\* Only what a Summarize read that returned nil is cleared; with a memory for
\* summaries that never failed to store, only what was summarised.
ClearsSummarised ==
    \A w \in Workers : pc[w] = "clearing" => snap[w] \subseteq summarised \cup unstored

\* The messages since the last maintenance began: a threshold for each reset
\* of the counter, and what the counter has counted since.
LagIsCounted == lag <= resets * TriggerEvery + (count % TriggerEvery)

Inv ==
    /\ TypeOK
    /\ AskedSomewhere
    /\ HoldsSession
    /\ ReadOrLate
    /\ ClearsSummarised
    /\ LossesAreExplained
    /\ LagIsCounted

\* Nothing is held, read or counted at the start.
LEMMA InitInv == Init => Inv
<1> SUFFICES ASSUME Init PROVE Inv
  OBVIOUS
<1>1. 0 % TriggerEvery = 0
  BY TriggerEveryAssumption
<1>2. TypeOK
  BY MaxBufferAssumption, MaxRenewalsAssumption DEF Init, TypeOK
<1>3. LagIsCounted
  BY <1>1, TriggerEveryAssumption DEF Init, LagIsCounted
<1>4. AskedSomewhere /\ HoldsSession /\ ReadOrLate /\ ClearsSummarised
  BY DEF Init, AskedSomewhere, HoldsSession, ReadOrLate, ClearsSummarised
<1> QED BY <1>2, <1>3, <1>4 DEF Init, Inv, LossesAreExplained

-----------------------------------------------------------------------------
(***************************************************************************)
(* Preservation                                                            *)
(***************************************************************************)

\* A counted message goes one further from the last multiple of the
\* threshold, or starts maintenance; a reset gives up less than a threshold.
LEMMA Counting ==
  ASSUME NEW k \in Nat, NEW n \in Nat, NEW r \in Nat,
         n <= r * TriggerEvery + (k % TriggerEvery)
  PROVE  /\ (k + 1) % TriggerEvery # 0 =>
              n + 1 <= r * TriggerEvery + ((k + 1) % TriggerEvery)
         /\ n <= (r + 1) * TriggerEvery + (0 % TriggerEvery)
         /\ n < (r + 1) * TriggerEvery
         /\ 0 <= 0 * TriggerEvery + (k % TriggerEvery)
<1> USE TriggerEveryAssumption
<1>1. r * TriggerEvery \in Nat /\ (r + 1) * TriggerEvery = r * TriggerEvery + TriggerEvery
  OBVIOUS
<1>2. k % TriggerEvery \in 0 .. TriggerEvery - 1 /\ 0 % TriggerEvery = 0
  OBVIOUS
<1>3. (k + 1) % TriggerEvery # 0 => (k + 1) % TriggerEvery = (k % TriggerEvery) + 1
  BY NextRemainder
<1>4. (k + 1) % TriggerEvery \in Nat
  OBVIOUS
<1>5. 0 * TriggerEvery = 0
  OBVIOUS
<1> QED BY <1>1, <1>2, <1>3, <1>4, <1>5

\* Starting a maintenance goroutine while the counter is what it may be.
LEMMA TriggerStep ==
  ASSUME Inv, NEW w \in Workers, NEW request \in BOOLEAN, Trigger(w, request),
         count' \in Nat, UNCHANGED <<promptVars, buffer, history>>,
         renewing' \subseteq Sessions, renewals' \in 0 .. MaxRenewals
  PROVE  Inv'
<1>1. TypeOK'
  BY DEF Inv, TypeOK, Trigger, Goto, promptVars, history
<1>2. HoldsSession' /\ ReadOrLate' /\ ClearsSummarised'
  BY DEF Inv, TypeOK, Trigger, Goto, history, HoldsSession, ReadOrLate,
         ClearsSummarised, Held
<1>3. LagIsCounted'
  <2>1. lag' = 0 /\ resets' = 0
    BY DEF Trigger
  <2>2. \A k \in Nat : k % TriggerEvery \in Nat
    BY TriggerEveryAssumption
  <2>3. count' % TriggerEvery \in Nat
    BY <2>2
  <2>4. 0 * TriggerEvery = 0
    BY TriggerEveryAssumption
  <2> QED BY <2>1, <2>3, <2>4 DEF LagIsCounted
<1> QED BY <1>1, <1>2, <1>3 DEF Inv, AskedSomewhere, LossesAreExplained,
                               promptVars, history

\* Adding a message, which may start maintenance.
LEMMA AddStep ==
  ASSUME Inv, NEW s \in Sessions, NEW m \in Message, AddToBuffer(s, m),
         prompt' \in [Prompts -> {"idle", "asked", "answered", "failed"}],
         sess' \in [Prompts -> Sessions \cup {None}], AskedSomewhere',
         UNCHANGED <<renewVars, memories, summarised, unstored, lost>>
  PROVE  Inv'
<1>1. /\ buffer' = [buffer EXCEPT ![s] = Tailored(Append(buffer[s], m))]
      /\ Tailored(Append(buffer[s], m)) \in Seq(Message)
      /\ Len(Tailored(Append(buffer[s], m))) <= MaxBuffer
      /\ ToSet(Tailored(Append(buffer[s], m))) \subseteq ToSet(buffer[s]) \cup {m}
  BY Tailoring DEF Inv, TypeOK, AddToBuffer
<1>2. /\ buffer' \in [Sessions -> Seq(Message)]
      /\ \A t \in Sessions : Len(buffer'[t]) <= MaxBuffer
      /\ \A t \in Sessions : ToSet(buffer'[t]) \subseteq
                               ToSet(buffer[t]) \cup (IF t = s THEN {m} ELSE {})
  BY <1>1 DEF Inv, TypeOK
<1>3. /\ cur' = cur /\ snap' = snap /\ ctxOver' = ctxOver /\ todo' = todo
      /\ late \subseteq late' /\ late' \subseteq late \cup {m}
      /\ \A w \in Workers : cur[w] = s => m \in late'
  BY DEF AddToBuffer, Trigger, workerVars, Reading
<1>4. /\ pc' \in [Workers -> {"idle", "listing", "visiting", "summarizing",
                              "clearing", "compacting"}]
      /\ bound' \subseteq Workers
      /\ \A w \in Workers : pc'[w] = pc[w] \/ (pc[w] = "idle" /\ pc'[w] = "listing")
  BY DEF Inv, TypeOK, AddToBuffer, Trigger, Goto, workerVars
<1>5. count' = count + 1 /\ count' \in Nat /\ lag' \in Nat /\ resets' \in Nat
  BY DEF Inv, TypeOK, AddToBuffer, Trigger
<1>6. TypeOK'
  BY <1>2, <1>3, <1>4, <1>5 DEF Inv, TypeOK, renewVars
<1>7. HoldsSession' /\ ClearsSummarised'
  BY <1>3, <1>4 DEF Inv, HoldsSession, ClearsSummarised
<1>8. ReadOrLate'
  BY <1>2, <1>3 DEF Inv, TypeOK, ReadOrLate, Held
<1>9. LagIsCounted'
  <2>1. CASE (count + 1) % TriggerEvery = 0
    <3>1. lag' = 0 /\ resets' = 0
      BY <2>1 DEF AddToBuffer, Trigger
    <3>2. count' % TriggerEvery \in Nat /\ 0 * TriggerEvery = 0
      BY <1>5, TriggerEveryAssumption
    <3> QED BY <3>1, <3>2 DEF LagIsCounted
  <2>2. CASE (count + 1) % TriggerEvery # 0
    <3>1. lag' = lag + 1 /\ resets' = resets
      BY <2>2 DEF AddToBuffer
    <3> QED BY <1>5, <2>2, <3>1, Counting DEF Inv, TypeOK, LagIsCounted
  <2> QED BY <2>1, <2>2
<1> QED BY <1>3, <1>6, <1>7, <1>8, <1>9 DEF Inv, LossesAreExplained

\* The steps that neither add a message, start maintenance nor reset the
\* counter.
LEMMA QuietStep ==
  ASSUME Inv, UNCHANGED <<count, lag, resets>>,
         \/ \E p \in Prompts : RespondFails(p)
         \/ \E w \in Workers :
              \/ ListSessions(w) \/ Skip(w) \/ Visit(w) \/ Summarize(w)
              \/ SummarizeStoresNothing(w) \/ SummarizeSkipped(w)
              \/ SummarizeFails(w) \/ Clear(w) \/ EndCompact(w) \/ RequestOver(w)
         \/ \E s \in Sessions : ClearHistory(s)
  PROVE  Inv'
<1> USE DEF Inv, TypeOK, AskedSomewhere, HoldsSession, ReadOrLate, ClearsSummarised,
            LossesAreExplained, LagIsCounted, Held, Goto, Leave, history,
            promptVars, workerVars, renewVars
<1>1. ASSUME NEW p \in Prompts, RespondFails(p) PROVE Inv'
  BY <1>1 DEF RespondFails
<1>2. ASSUME NEW w \in Workers, ListSessions(w) PROVE Inv'
  BY <1>2 DEF ListSessions
<1>3. ASSUME NEW w \in Workers, Skip(w) PROVE Inv'
  BY <1>3 DEF Skip
<1>4. ASSUME NEW w \in Workers, Visit(w) PROVE Inv'
  <2>1. PICK s \in todo[w] : /\ s \in Sessions /\ cur' = [cur EXCEPT ![w] = s]
                             /\ todo' = [todo EXCEPT ![w] = @ \ {s}]
                             /\ snap' = [snap EXCEPT ![w] = Held(s)]
    BY <1>4 DEF Visit
  <2>2. Held(s) \subseteq Message /\ s # None
    BY <2>1, NoneAssumption DEF ToSet
  <2>3. TypeOK' /\ AskedSomewhere' /\ HoldsSession' /\ ReadOrLate' /\ ClearsSummarised'
    BY <1>4, <2>1, <2>2 DEF Visit
  <2> QED BY <1>4, <2>3 DEF Visit
<1>5. ASSUME NEW w \in Workers, Summarize(w) PROVE Inv'
  BY <1>5 DEF Summarize, Summarized
<1>11. ASSUME NEW w \in Workers, SummarizeStoresNothing(w) \/ SummarizeSkipped(w)
       PROVE Inv'
  <2>1. Summarized(w) /\ unstored' = unstored \cup snap[w] /\ summarised' = summarised
    BY <1>11 DEF SummarizeStoresNothing, SummarizeSkipped
  <2> QED BY <2>1 DEF Summarized
<1>6. ASSUME NEW w \in Workers, SummarizeFails(w) PROVE Inv'
  BY <1>6 DEF SummarizeFails
<1>7. ASSUME NEW w \in Workers, Clear(w) PROVE Inv'
  <2>1. cur[w] \in Sessions /\ Held(cur[w]) \subseteq summarised \cup unstored \cup late
    BY <1>7 DEF Clear
  <2>2. /\ ToSet(<<>>) = {} /\ <<>> \in Seq(Message) /\ Len(<<>>) = 0
        /\ Held(cur[w]) \subseteq Message
    BY <2>1 DEF ToSet
  <2>3. TypeOK'
    BY <1>7, <2>1, <2>2, MaxBufferAssumption DEF Clear
  <2>4. HoldsSession' /\ ReadOrLate' /\ ClearsSummarised'
    BY <1>7, <2>1, <2>2 DEF Clear
  <2> QED BY <1>7, <2>1, <2>3, <2>4 DEF Clear
<1>8. ASSUME NEW w \in Workers, EndCompact(w) PROVE Inv'
  BY <1>8 DEF EndCompact
<1>9. ASSUME NEW w \in Workers, RequestOver(w) PROVE Inv'
  BY <1>9 DEF RequestOver
<1>10. ASSUME NEW s \in Sessions, ClearHistory(s) PROVE Inv'
  <2>1. ToSet(<<>>) = {} /\ <<>> \in Seq(Message) /\ Len(<<>>) = 0
    BY DEF ToSet
  <2>2. TypeOK'
    BY <1>10, <2>1, MaxBufferAssumption DEF ClearHistory
  <2>3. HoldsSession' /\ ReadOrLate' /\ ClearsSummarised'
    BY <1>10, <2>1 DEF ClearHistory
  <2> QED BY <1>10, <2>2, <2>3 DEF ClearHistory
<1> QED BY <1>1, <1>2, <1>3, <1>4, <1>5, <1>6, <1>7, <1>8, <1>9, <1>10, <1>11

\* Every step keeps the invariant.
LEMMA NextInv == Inv /\ [Next]_vars => Inv'
<1> SUFFICES ASSUME Inv, [Next]_vars PROVE Inv'
  OBVIOUS
<1>1. ASSUME NEW p \in Prompts, NEW s \in Sessions, Ask(p, s) PROVE Inv'
  <2>1. <<p, "question">> \in Message
    BY DEF Message
  <2>2. /\ prompt' \in [Prompts -> {"idle", "asked", "answered", "failed"}]
        /\ sess' \in [Prompts -> Sessions \cup {None}] /\ AskedSomewhere'
    BY <1>1 DEF Ask, Inv, TypeOK, AskedSomewhere
  <2> QED BY <1>1, <2>1, <2>2, AddStep DEF Ask
<1>2. ASSUME NEW p \in Prompts, Answer(p) PROVE Inv'
  <2>1. <<p, "answer">> \in Message /\ sess[p] \in Sessions
    BY <1>2 DEF Message, Answer, Inv, AskedSomewhere
  <2>2. /\ prompt' \in [Prompts -> {"idle", "asked", "answered", "failed"}]
        /\ sess' \in [Prompts -> Sessions \cup {None}] /\ AskedSomewhere'
    BY <1>2 DEF Answer, Inv, TypeOK, AskedSomewhere
  <2> QED BY <1>2, <2>1, <2>2, AddStep DEF Answer
<1>3. ASSUME NEW w \in Workers, UsageHigh(w) \/ Scheduled(w) PROVE Inv'
  <2>1. /\ count' \in Nat /\ UNCHANGED <<promptVars, buffer, history>>
        /\ renewing' \subseteq Sessions /\ renewals' \in 0 .. MaxRenewals
        /\ Trigger(w, TRUE) \/ Trigger(w, FALSE)
    BY <1>3 DEF UsageHigh, Scheduled, Inv, TypeOK, renewVars
  <2> QED BY <2>1, TriggerStep
<1>4. ASSUME NEW s \in Sessions, NEW w \in Workers, Renew(s, w) PROVE Inv'
  <2>1. /\ count' \in Nat /\ UNCHANGED <<promptVars, buffer, history>>
        /\ Trigger(w, TRUE)
    BY <1>4 DEF Renew, Inv, TypeOK
  <2>2. renewing' \subseteq Sessions
    BY <1>4 DEF Renew, Inv, TypeOK
  <2>3. renewals' \in 0 .. MaxRenewals
    BY <1>4, MaxRenewalsAssumption DEF Renew, Inv, TypeOK
  <2> QED BY <2>1, <2>2, <2>3, TriggerStep
<1>5. ASSUME NEW w \in Workers, StartCompact(w) PROVE Inv'
  <2>1. LagIsCounted'
    <3>1. CASE memories = Memory
      BY <1>5, <3>1, Counting DEF StartCompact, Inv, TypeOK, LagIsCounted
    <3>2. CASE memories # Memory
      BY <1>5, <3>2 DEF StartCompact, Inv, LagIsCounted
    <3> QED BY <3>1, <3>2
  <2>2. TypeOK' /\ AskedSomewhere' /\ HoldsSession' /\ ReadOrLate' /\ ClearsSummarised'
    BY <1>5 DEF StartCompact, Inv, TypeOK, AskedSomewhere, HoldsSession, ReadOrLate,
                ClearsSummarised, Held, Goto, history, promptVars, renewVars
  <2> QED BY <1>5, <2>1, <2>2 DEF StartCompact, Inv, LossesAreExplained, history
<1>6. ASSUME NEW p \in Prompts, RespondFails(p) PROVE Inv'
  BY <1>6, QuietStep DEF RespondFails
<1>7. ASSUME NEW w \in Workers,
             \/ ListSessions(w) \/ Skip(w) \/ Visit(w) \/ Summarize(w)
             \/ SummarizeStoresNothing(w) \/ SummarizeSkipped(w)
             \/ SummarizeFails(w) \/ Clear(w) \/ EndCompact(w) \/ RequestOver(w)
      PROVE Inv'
  <2>1. UNCHANGED <<count, lag, resets>>
    BY <1>7 DEF ListSessions, Skip, Visit, Summarize, SummarizeStoresNothing,
                SummarizeSkipped, Summarized, SummarizeFails, Clear, EndCompact,
                RequestOver
  <2> QED BY <1>7, <2>1, QuietStep
<1>8. ASSUME NEW s \in Sessions, ClearHistory(s) PROVE Inv'
  BY <1>8, QuietStep DEF ClearHistory
<1>9. CASE UNCHANGED vars
  BY <1>9 DEF Inv, TypeOK, AskedSomewhere, HoldsSession, ReadOrLate, ClearsSummarised,
              LossesAreExplained, LagIsCounted, Held, vars
<1> QED BY <1>1, <1>2, <1>3, <1>4, <1>5, <1>6, <1>7, <1>8, <1>9 DEF Next, Maintain

-----------------------------------------------------------------------------
(***************************************************************************)
(* Theorems                                                                *)
(***************************************************************************)

\* The inductive invariant: types, what the goroutines hold, and the counter.
THEOREM BufferIsSafe == Spec => []Inv
BY InitInv, NextInv, PTL DEF Spec

\* Every variable keeps its type; no buffer grows over its cap.
THEOREM TypeCorrect == Spec => []TypeOK
<1>1. Inv => TypeOK
  BY DEF Inv
<1> QED BY <1>1, BufferIsSafe, PTL

\* What maintenance deletes from a buffer was summarised, was added while
\* some goroutine was between reading that buffer and clearing it, or was read
\* by a Summarize that stored nothing and reported no error: for any number of
\* goroutines that know nothing of each other.
THEOREM LossesHaveAReason == Spec => []LossesAreExplained
<1>1. Inv => LossesAreExplained
  BY DEF Inv
<1> QED BY <1>1, BufferIsSafe, PTL

\* Less than a threshold of messages waits for maintenance, and one more
\* for each reset of the counter in between.
THEOREM TriggersAreTimely == Spec => []MaintenanceIsTimely
<1>1. Inv => MaintenanceIsTimely
  BY Counting DEF Inv, TypeOK, LagIsCounted, MaintenanceIsTimely
<1> QED BY <1>1, BufferIsSafe, PTL

=============================================================================
