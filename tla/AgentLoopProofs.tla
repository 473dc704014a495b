--------------------------- MODULE AgentLoopProofs ---------------------------
(***************************************************************************)
(* Proofs that whatever prompts, clears and failures come in between, the  *)
(* model sees the question of a prompt and one result for each call it has *)
(* asked for, that the buffer holds the end of what was said in a prompt,  *)
(* and that a request without a result stands in it for a reason, for any  *)
(* prompts, calls, bounds and size of the buffer.                          *)
(*                                                                         *)
(* The first part is about choosing from a sequence (Chosen), which all of *)
(* these properties speak of, then come ends of sequences, calls and their *)
(* results in a sequence, the inductive invariant and one lemma for each   *)
(* action.                                                                 *)
(***************************************************************************)
EXTENDS AgentLoop, SequenceTheorems, FiniteSetTheorems, WellFoundedInduction, TLAPS

-----------------------------------------------------------------------------
(***************************************************************************)
(* Choosing from a sequence                                                *)
(***************************************************************************)

\* Induction over the natural numbers, for a set.
LEMMA Induction ==
    ASSUME NEW P \in SUBSET Nat, 0 \in P, \A n \in P : n + 1 \in P
    PROVE  P = Nat
<1> SUFFICES ASSUME Nat \ P # {}
             PROVE  FALSE
    OBVIOUS
<1>1. PICK n \in Nat \ P : \A m \in Nat \ P : ~ (<<m, n>> \in OpToRel(<, Nat))
    BY NatLessThanWellFounded, WFMin
<1>2. \A m \in Nat : m < n => m \in P
    BY <1>1 DEF OpToRel
<1>3. n # 0
    OBVIOUS
<1>4. n - 1 \in P /\ n = (n - 1) + 1
    BY <1>2, <1>3
<1>5. QED
    BY <1>1, <1>4

\* What has been chosen of the first n elements, for every n up to a number.
Choosing(f, s, set, upTo) ==
    f = [n \in 0 .. upTo |->
           IF n = 0 THEN <<>>
           ELSE IF s[n] \in set THEN Append(f[n - 1], s[n])
                ELSE f[n - 1]]

\* It is built from one element to the next.
LEMMA Choice ==
    ASSUME NEW f, NEW s, NEW set, NEW upTo \in Nat, Choosing(f, s, set, upTo)
    PROVE  /\ f[0] = <<>>
           /\ \A n \in 1 .. upTo :
                f[n] = IF s[n] \in set THEN Append(f[n - 1], s[n]) ELSE f[n - 1]
<1> DEFINE F(n) == IF n = 0 THEN <<>>
                   ELSE IF s[n] \in set THEN Append(f[n - 1], s[n]) ELSE f[n - 1]
<1>1. f = [n \in 0 .. upTo |-> F(n)]
    BY DEF Choosing
<1> HIDE DEF F
<1>2. \A n \in 0 .. upTo : f[n] = F(n)
    BY <1>1
<1>3. QED
    BY <1>2 DEF F

\* One can choose from any number of elements.
LEMMA OneCanChoose ==
    ASSUME NEW s, NEW set, NEW upTo \in Nat
    PROVE  \E f : Choosing(f, s, set, upTo)
<1> DEFINE P == {n \in Nat : \E f : Choosing(f, s, set, n)}
<1>1. 0 \in P
    <2>1. Choosing([n \in 0 .. 0 |-> <<>>], s, set, 0)
        BY DEF Choosing
    <2>2. QED
        BY <2>1
<1>2. ASSUME NEW n \in P
      PROVE  n + 1 \in P
    <2>1. PICK f : Choosing(f, s, set, n)
        BY <1>2
    <2> DEFINE g == [m \in 0 .. n + 1 |->
                       IF m <= n THEN f[m]
                       ELSE IF s[m] \in set THEN Append(f[m - 1], s[m]) ELSE f[m - 1]]
    <2>2. ASSUME NEW m \in 0 .. n + 1
          PROVE  g[m] = IF m = 0 THEN <<>>
                        ELSE IF s[m] \in set THEN Append(g[m - 1], s[m])
                             ELSE g[m - 1]
        <3>1. CASE m = 0
            BY <2>1, <3>1, Choice
        <3>2. CASE m \in 1 .. n
            <4>1. f[m] = IF s[m] \in set THEN Append(f[m - 1], s[m]) ELSE f[m - 1]
                BY <2>1, <3>2, Choice
            <4>2. g[m] = f[m] /\ g[m - 1] = f[m - 1]
                BY <3>2
            <4>3. QED
                BY <3>2, <4>1, <4>2
        <3>3. CASE m = n + 1
            BY <3>3
        <3>4. QED
            BY <3>1, <3>2, <3>3
    <2>3. Choosing(g, s, set, n + 1)
        BY <2>2 DEF Choosing
    <2>4. QED
        BY <2>3
<1>3. P = Nat
    BY <1>1, <1>2, Induction
<1>4. QED
    BY <1>3

\* Chosen does.
LEMMA ChosenChooses ==
    ASSUME NEW T, NEW s \in Seq(T), NEW set
    PROVE  \E f : Choosing(f, s, set, Len(s)) /\ Chosen(s, set) = f[Len(s)]
<1>1. Len(s) \in Nat
    OBVIOUS
<1>2. \E f : Choosing(f, s, set, Len(s))
    BY <1>1, OneCanChoose
<1>3. QED
    BY <1>2 DEF Chosen, Choosing

\* Two choices agree as far as they choose from the same elements.
LEMMA ChoicesAgree ==
    ASSUME NEW s, NEW t, NEW set, NEW m \in Nat, NEW n \in Nat, m <= n,
           \A i \in 1 .. m : s[i] = t[i],
           NEW f, NEW g, Choosing(f, s, set, m), Choosing(g, t, set, n)
    PROVE  \A i \in 0 .. m : f[i] = g[i]
<1> DEFINE P == {i \in Nat : i <= m => f[i] = g[i]}
<1>1. /\ f[0] = <<>> /\ g[0] = <<>>
      /\ \A i \in 1 .. m : f[i] = IF s[i] \in set THEN Append(f[i - 1], s[i]) ELSE f[i - 1]
      /\ \A i \in 1 .. n : g[i] = IF t[i] \in set THEN Append(g[i - 1], t[i]) ELSE g[i - 1]
    BY Choice
<1>2. 0 \in P
    BY <1>1
<1>3. ASSUME NEW i \in P
      PROVE  i + 1 \in P
    <2> SUFFICES ASSUME i + 1 <= m
                 PROVE  f[i + 1] = g[i + 1]
        OBVIOUS
    <2>1. i + 1 \in 1 .. m /\ i + 1 \in 1 .. n /\ (i + 1) - 1 = i /\ f[i] = g[i]
        OBVIOUS
    <2>2. QED
        BY <1>1, <2>1
<1>4. P = Nat
    BY <1>2, <1>3, Induction
<1>5. QED
    BY <1>4

\* Nothing is chosen from nothing.
LEMMA ChosenFromNothing == \A set : Chosen(<<>>, set) = <<>>
<1>1. ASSUME NEW set
      PROVE  Chosen(<<>>, set) = <<>>
    <2>1. <<>> \in Seq({}) /\ Len(<<>>) = 0
        OBVIOUS
    <2>2. PICK f : Choosing(f, <<>>, set, 0) /\ Chosen(<<>>, set) = f[0]
        BY <2>1, ChosenChooses
    <2>3. QED
        BY <2>2, Choice
<1>2. QED
    BY <1>1

\* An element more is chosen, or not.
LEMMA ChosenFromMore ==
    ASSUME NEW T, NEW s \in Seq(T), NEW e \in T, NEW set
    PROVE  Chosen(Append(s, e), set) =
             IF e \in set THEN Append(Chosen(s, set), e) ELSE Chosen(s, set)
<1> DEFINE n == Len(s)
           t == Append(s, e)
<1>1. /\ n \in Nat /\ t \in Seq(T) /\ Len(t) = n + 1 /\ t[n + 1] = e
      /\ \A i \in 1 .. n : s[i] = t[i]
    OBVIOUS
<1> HIDE DEF t
<1>2. PICK f : Choosing(f, s, set, n) /\ Chosen(s, set) = f[n]
    BY ChosenChooses
<1>3. PICK g : Choosing(g, t, set, n + 1) /\ Chosen(t, set) = g[n + 1]
    BY <1>1, ChosenChooses
<1>4. f[n] = g[n]
    <2>1. \A i \in 0 .. n : f[i] = g[i]
        <3>1. n + 1 \in Nat /\ n <= n + 1
            BY <1>1
        <3>2. QED
            BY <1>1, <1>2, <1>3, <3>1, ChoicesAgree
    <2>2. QED
        BY <1>1, <2>1
<1>5. g[n + 1] = IF t[n + 1] \in set THEN Append(g[n], t[n + 1]) ELSE g[n]
    <2>1. n + 1 \in 1 .. n + 1 /\ (n + 1) - 1 = n
        BY <1>1
    <2>2. QED
        BY <1>1, <1>3, <2>1, Choice
<1>6. QED
    BY <1>1, <1>2, <1>3, <1>4, <1>5 DEF t

\* What is chosen are elements of the sequence that are in the set.
LEMMA ChosenAreElements ==
    ASSUME NEW T, NEW s \in Seq(T), NEW set
    PROVE  /\ Chosen(s, set) \in Seq(T \cap set)
           /\ Chosen(s, set) \in Seq(T)
<1> DEFINE n == Len(s)
<1>1. n \in Nat /\ \A i \in 1 .. n : s[i] \in T
    OBVIOUS
<1>2. PICK f : Choosing(f, s, set, n) /\ Chosen(s, set) = f[n]
    BY ChosenChooses
<1>3. /\ f[0] = <<>>
      /\ \A i \in 1 .. n : f[i] = IF s[i] \in set THEN Append(f[i - 1], s[i]) ELSE f[i - 1]
    BY <1>1, <1>2, Choice
<1> DEFINE P == {i \in Nat : i <= n => f[i] \in Seq(T \cap set)}
<1>4. 0 \in P
    BY <1>3, EmptySeq
<1>5. ASSUME NEW i \in P
      PROVE  i + 1 \in P
    <2> SUFFICES ASSUME i + 1 <= n
                 PROVE  f[i + 1] \in Seq(T \cap set)
        OBVIOUS
    <2>1. i + 1 \in 1 .. n /\ (i + 1) - 1 = i /\ f[i] \in Seq(T \cap set)
        BY <1>1
    <2>2. f[i + 1] = IF s[i + 1] \in set THEN Append(f[i], s[i + 1]) ELSE f[i]
        BY <1>3, <2>1
    <2>3. s[i + 1] \in set => s[i + 1] \in T \cap set
        BY <1>1, <2>1
    <2>4. QED
        BY <2>1, <2>2, <2>3, AppendProperties
<1>6. P = Nat
    BY <1>4, <1>5, Induction
<1>7. Chosen(s, set) \in Seq(T \cap set)
    BY <1>1, <1>2, <1>6
<1>8. QED
    BY <1>7, SeqMonotonic

\* The first element, if it is chosen, comes first.
LEMMA ChosenFromTail ==
    ASSUME NEW T, NEW s \in Seq(T), s # <<>>, NEW set
    PROVE  Chosen(s, set) =
             (IF Head(s) \in set THEN <<Head(s)>> ELSE <<>>) \o Chosen(Tail(s), set)
<1> DEFINE t == Tail(s)
           n == Len(t)
           first == IF Head(s) \in set THEN <<Head(s)>> ELSE <<>>
<1>1. /\ t \in Seq(T) /\ n \in Nat /\ Len(s) = n + 1 /\ s[1] = Head(s)
      /\ \A i \in 1 .. n : t[i] = s[i + 1]
      /\ first \in Seq(T)
    BY HeadTailProperties
<1> HIDE DEF t, first
<1>2. PICK f : Choosing(f, s, set, n + 1) /\ Chosen(s, set) = f[n + 1]
    BY <1>1, ChosenChooses
<1>3. PICK g : Choosing(g, t, set, n) /\ Chosen(t, set) = g[n]
    BY <1>1, ChosenChooses
<1>4. /\ f[0] = <<>> /\ g[0] = <<>>
      /\ \A i \in 1 .. n + 1 : f[i] = IF s[i] \in set THEN Append(f[i - 1], s[i]) ELSE f[i - 1]
      /\ \A i \in 1 .. n : g[i] = IF t[i] \in set THEN Append(g[i - 1], t[i]) ELSE g[i - 1]
    BY <1>1, <1>2, <1>3, Choice
<1> DEFINE P == {i \in Nat : i <= n => g[i] \in Seq(T) /\ f[i + 1] = first \o g[i]}
<1>5. 0 \in P
    <2>1. f[1] = IF s[1] \in set THEN Append(<<>>, s[1]) ELSE <<>>
        <3>1. 1 \in 1 .. n + 1 /\ 1 - 1 = 0
            BY <1>1
        <3>2. QED
            BY <1>4, <3>1
    <2>2. f[0 + 1] = first
        BY <1>1, <2>1 DEF first
    <2>3. first \o <<>> = first
        BY <1>1, ConcatEmptySeq
    <2>4. <<>> \in Seq(T)
        OBVIOUS
    <2>5. QED
        BY <1>4, <2>2, <2>3, <2>4
<1>6. ASSUME NEW i \in P
      PROVE  i + 1 \in P
    <2> SUFFICES ASSUME i + 1 <= n
                 PROVE  g[i + 1] \in Seq(T) /\ f[i + 1 + 1] = first \o g[i + 1]
        OBVIOUS
    <2>1. /\ i + 1 \in 1 .. n /\ i + 2 \in 1 .. n + 1 /\ (i + 1) - 1 = i /\ (i + 2) - 1 = i + 1
          /\ i + 1 + 1 = i + 2 /\ g[i] \in Seq(T) /\ f[i + 1] = first \o g[i]
        BY <1>1
    <2>2. s[i + 2] = t[i + 1] /\ t[i + 1] \in T
        BY <1>1, <2>1
    <2>3. g[i + 1] = IF t[i + 1] \in set THEN Append(g[i], t[i + 1]) ELSE g[i]
        BY <1>4, <2>1
    <2>4. f[i + 2] = IF t[i + 1] \in set THEN Append(first \o g[i], t[i + 1]) ELSE first \o g[i]
        BY <1>4, <2>1, <2>2
    <2>5. Append(first \o g[i], t[i + 1]) = first \o Append(g[i], t[i + 1])
        <3>1. ASSUME NEW a \in Seq(T), NEW b \in Seq(T), NEW x \in T
              PROVE  Append(a \o b, x) = a \o Append(b, x)
            <4> DEFINE u == Append(a \o b, x)
                       v == a \o Append(b, x)
            <4>1. a \o b \in Seq(T) /\ Append(b, x) \in Seq(T)
                OBVIOUS
            <4>2. /\ u \in Seq(T) /\ v \in Seq(T) /\ Len(u) = Len(v)
                  /\ \A k \in 1 .. Len(u) : u[k] = v[k]
                BY <4>1, ConcatProperties, AppendProperties
            <4> HIDE DEF u, v
            <4>3. u = v
                BY <4>2, SeqEqual
            <4>4. QED
                BY <4>3 DEF u, v
        <3>2. QED
            BY <1>1, <2>1, <2>2, <3>1
    <2>6. Append(g[i], t[i + 1]) \in Seq(T)
        BY <2>1, <2>2, AppendProperties
    <2>7. QED
        BY <2>1, <2>3, <2>4, <2>5, <2>6
<1>7. P = Nat
    BY <1>5, <1>6, Induction
<1>8. n \in P
    BY <1>1, <1>7
<1>9. Chosen(s, set) = first \o Chosen(t, set)
    BY <1>1, <1>2, <1>3, <1>8
<1>10. QED
    BY <1>9 DEF t, first

-----------------------------------------------------------------------------
(***************************************************************************)
(* The inductive invariant                                                 *)
(***************************************************************************)
PCs == {"idle", "loading", "answering"} \cup Looping \cup Over

Typed ==
    /\ buffer \in Seq(Message)
    /\ pc \in [Prompts -> PCs]
    /\ msgs \in [Prompts -> Seq(Message)]
    /\ step \in [Prompts -> 0 .. MaxSteps]
    /\ attempt \in [Prompts -> 1 .. MaxAttempts]
    /\ unsent \in [Prompts -> Seq(Message)]

\* The place after i where m stands in s, if there is one.
Never(s, i, m) == \A j \in DOMAIN s : j > i => s[j] # m

Once(s, i, m) ==
    \E j \in DOMAIN s :
      j > i /\ s[j] = m /\ \A k \in DOMAIN s : k > i /\ s[k] = m => k = j

\* The requests of p whose tools the loop runs.
Opens(m, p) == m.is = "request" /\ m.by = p /\ m.step < MaxSteps

\* In s each call of p is followed by its result once, or not yet at all.
Tidy(s, p, pending) ==
    \A i \in DOMAIN s : Opens(s[i], p) =>
      \A c \in ToSet(s[i].calls) :
        LET r == Result(p, s[i].step, c)
        IN  IF r \in pending THEN Never(s, i, r) ELSE Once(s, i, r)

\* The results that p's loop is still to get, and those it is still to push.
ToGet(p) ==
    {Result(p, step[p], c) :
       c \in CASE pc[p] = "managing" -> Calls
               [] pc[p] = "invoking" -> Calls \ Intercepted
               [] OTHER -> {}}

ToPush(p) == IF pc[p] \in Looping THEN ToGet(p) \cup ToSet(unsent[p]) ELSE {}

AtTools(p) == pc[p] \in {"managing", "invoking"}

\* cs is what p's request of this step asks for.
Asks(p, cs) ==
    \A m \in ToSet(msgs[p]) :
      m.is = "request" /\ m.step = step[p] <=> m = Request(p, step[p], cs)

\* What p's goroutine knows.
Local(p) ==
    /\ pc[p] \in {"idle", "loading"} =>
         msgs[p] = <<>> /\ unsent[p] = <<>> /\ step[p] = 0
    /\ pc[p] \in Looping =>
         /\ Question(p) \in ToSet(msgs[p])
         /\ \A m \in ToSet(msgs[p]) :
              /\ m.by = p
              /\ m.is \in {"request", "result"} =>
                   m.step < step[p] \/ (m.step = step[p] /\ AtTools(p))
         /\ \A m \in ToSet(unsent[p]) : m \in ToSet(msgs[p]) /\ m.is = "result"
         /\ IsInjective(unsent[p])
         /\ ToSet(unsent[p]) \cap ToGet(p) = {}
         /\ Tidy(msgs[p], p, ToGet(p))
    /\ AtTools(p) =>
         \E cs \in CallLists :
            Request(p, step[p], cs) \in ToSet(msgs[p]) /\ Asks(p, cs)
    /\ pc[p] = "managing" => unsent[p] = <<>>
    /\ pc[p] \in {"generating", "managing", "invoking"} => step[p] < MaxSteps
    /\ pc[p] = "finishing" => step[p] = MaxSteps
    /\ pc[p] = "answering" =>
         \E m \in Message :
           /\ unsent[p] = <<m>> /\ m.by = p /\ m.is \in {"answer", "request"}
           /\ ~ Opens(m, p)

\* x is the end of y.
Ends(x, y) ==
    /\ Len(x) <= Len(y)
    /\ \A i \in 1 .. Len(x) : x[i] = y[Len(y) - Len(x) + i]

Said(p) ==
    (IF pc[p] = "idle" THEN <<>> ELSE <<Question(p)>>)
      \o Chosen(msgs[p], {m \in Message : m.is # "question"})

\* What the buffer holds of p.
Shared(p) ==
    /\ pc[p] \in {"idle", "loading"} =>
         \A m \in ToSet(buffer) : m.by = p => pc[p] = "loading" /\ m = Question(p)
    /\ pc[p] \in Looping =>
         \A m \in ToSet(buffer) :
           m.by = p => m = Question(p) \/ m \in ToSet(msgs[p])
    /\ pc[p] \in {"idle", "loading"} \cup Looping =>
         Ends(By(p, buffer) \o unsent[p], Said(p))
    /\ pc[p] # "failed" => Tidy(buffer, p, ToPush(p))

LoopIInv == Typed /\ \A p \in Prompts : Local(p) /\ Shared(p)

-----------------------------------------------------------------------------
(***************************************************************************)
(* What a sequence holds                                                   *)
(***************************************************************************)
LEMMA Holding ==
    ASSUME NEW T, NEW s \in Seq(T), NEW u \in Seq(T)
    PROVE  /\ ToSet(s) = {s[i] : i \in 1 .. Len(s)}
           /\ ToSet(s) \subseteq T
           /\ ToSet(s \o u) = ToSet(s) \cup ToSet(u)
           /\ s \o u \in Seq(T)
<1>1. Len(s) \in Nat /\ Len(u) \in Nat /\ s \o u \in Seq(T)
    OBVIOUS
<1>2. ToSet(s) = {s[i] : i \in 1 .. Len(s)} /\ ToSet(s) \subseteq T
    BY DEF ToSet
<1>3. ASSUME NEW i \in 1 .. Len(s \o u)
      PROVE  (s \o u)[i] \in ToSet(s) \cup ToSet(u)
    BY <1>1, ConcatProperties DEF ToSet
<1>4. ASSUME NEW i \in 1 .. Len(s)
      PROVE  s[i] = (s \o u)[i] /\ i \in 1 .. Len(s \o u)
    BY <1>1, ConcatProperties
<1>5. ASSUME NEW i \in 1 .. Len(u)
      PROVE  u[i] = (s \o u)[Len(s) + i] /\ Len(s) + i \in 1 .. Len(s \o u)
    BY <1>1, ConcatProperties
<1>6. ToSet(s \o u) = {(s \o u)[i] : i \in 1 .. Len(s \o u)}
    BY <1>1 DEF ToSet
<1>7. ToSet(u) = {u[i] : i \in 1 .. Len(u)}
    BY DEF ToSet
<1>8. ToSet(s \o u) \subseteq ToSet(s) \cup ToSet(u)
    BY <1>3, <1>6
<1>9. ToSet(s) \cup ToSet(u) \subseteq ToSet(s \o u)
    BY <1>2, <1>4, <1>5, <1>6, <1>7
<1>10. QED
    BY <1>1, <1>2, <1>8, <1>9

\* What a sequence of one element holds, and what it holds without its first.
LEMMA HoldingOne ==
    ASSUME NEW T, NEW e \in T
    PROVE  /\ <<e>> \in Seq(T) /\ Len(<<e>>) = 1 /\ <<e>>[1] = e
           /\ ToSet(<<e>>) = {e}
BY DEF ToSet

LEMMA HoldingRest ==
    ASSUME NEW T, NEW s \in Seq(T), s # <<>>
    PROVE  /\ Head(s) \in T /\ Tail(s) \in Seq(T) /\ Len(s) \in Nat \ {0}
           /\ Head(s) = s[1] /\ Len(Tail(s)) = Len(s) - 1
           /\ \A i \in 1 .. Len(s) - 1 : Tail(s)[i] = s[i + 1]
           /\ ToSet(s) = {Head(s)} \cup ToSet(Tail(s))
<1>1. /\ Head(s) \in T /\ Tail(s) \in Seq(T) /\ Len(s) \in Nat \ {0}
      /\ Head(s) = s[1] /\ Len(Tail(s)) = Len(s) - 1
      /\ \A i \in 1 .. Len(s) - 1 : Tail(s)[i] = s[i + 1]
    BY HeadTailProperties
<1>2. ToSet(s) = {s[i] : i \in 1 .. Len(s)} /\ ToSet(Tail(s)) = {Tail(s)[i] : i \in 1 .. Len(s) - 1}
    <2>1. DOMAIN s = 1 .. Len(s) /\ DOMAIN Tail(s) = 1 .. Len(s) - 1
        BY <1>1, LenProperties
    <2>2. QED
        BY <2>1 DEF ToSet
<1>3. ASSUME NEW i \in 1 .. Len(s)
      PROVE  i = 1 \/ (i - 1 \in 1 .. Len(s) - 1 /\ s[i] = Tail(s)[i - 1])
    BY <1>1
<1>4. ASSUME NEW i \in 1 .. Len(s) - 1
      PROVE  i + 1 \in 1 .. Len(s) /\ Tail(s)[i] = s[i + 1]
    BY <1>1
<1>5. 1 \in 1 .. Len(s)
    BY <1>1
<1>6. ToSet(s) \subseteq {Head(s)} \cup ToSet(Tail(s))
    BY <1>1, <1>2, <1>3
<1>7. {Head(s)} \cup ToSet(Tail(s)) \subseteq ToSet(s)
    BY <1>1, <1>2, <1>4, <1>5
<1>8. ToSet(s) = {Head(s)} \cup ToSet(Tail(s))
    BY <1>6, <1>7
<1>9. QED
    BY <1>1, <1>8

\* What is chosen from a longer sequence begins with it.
LEMMA ChosenStays ==
    ASSUME NEW T, NEW s \in Seq(T), NEW t, NEW set, NEW m \in Nat, Len(s) <= m,
           \A i \in 1 .. Len(s) : s[i] = t[i], NEW g, Choosing(g, t, set, m)
    PROVE  g[Len(s)] = Chosen(s, set)
<1>1. Len(s) \in Nat
    OBVIOUS
<1>2. PICK f : Choosing(f, s, set, Len(s)) /\ Chosen(s, set) = f[Len(s)]
    BY ChosenChooses
<1>3. \A i \in 0 .. Len(s) : f[i] = g[i]
    BY <1>1, <1>2, ChoicesAgree
<1>4. QED
    BY <1>1, <1>2, <1>3

\* All of a sequence is chosen that holds nothing else.
LEMMA ChosenFromAll ==
    ASSUME NEW T, NEW s \in Seq(T), NEW u \in Seq(T), NEW set,
           \A i \in 1 .. Len(u) : u[i] \in set
    PROVE  Chosen(s \o u, set) = Chosen(s, set) \o u
<1> DEFINE n == Len(s)
           k == Len(u)
           t == s \o u
<1>1. /\ n \in Nat /\ k \in Nat /\ t \in Seq(T) /\ Len(t) = n + k
      /\ \A i \in 1 .. n : s[i] = t[i]
      /\ \A i \in 1 .. k : t[n + i] = u[i] /\ u[i] \in T /\ u[i] \in set
    BY ConcatProperties
<1>2. Chosen(s, set) \in Seq(T)
    BY ChosenAreElements
<1> HIDE DEF t
<1>4. PICK g : Choosing(g, t, set, n + k) /\ Chosen(t, set) = g[n + k]
    BY <1>1, ChosenChooses
<1> DEFINE c == Chosen(s, set)
<1>5. g[n] = c
    <2>1. n + k \in Nat /\ n <= n + k
        BY <1>1
    <2>2. QED
        BY <1>1, <1>4, <2>1, ChosenStays
<1>6. \A i \in 1 .. n + k : g[i] = IF t[i] \in set THEN Append(g[i - 1], t[i]) ELSE g[i - 1]
    BY <1>1, <1>4, Choice
<1>7. c \in Seq(T) /\ Len(c) \in Nat
    BY <1>2
<1> HIDE DEF c
<1> DEFINE P == {i \in Nat : i <= k =>
                   /\ g[n + i] \in Seq(T) /\ Len(g[n + i]) = Len(c) + i
                   /\ \A j \in 1 .. Len(c) : g[n + i][j] = c[j]
                   /\ \A j \in 1 .. i : g[n + i][Len(c) + j] = u[j]}
<1>8. 0 \in P
    <2>1. g[n + 0] = c
        BY <1>1, <1>5
    <2>2. QED
        BY <1>7, <2>1
<1>9. ASSUME NEW i \in P
      PROVE  i + 1 \in P
    <2> SUFFICES ASSUME i + 1 <= k
                 PROVE  /\ g[n + (i + 1)] \in Seq(T) /\ Len(g[n + (i + 1)]) = Len(c) + (i + 1)
                        /\ \A j \in 1 .. Len(c) : g[n + (i + 1)][j] = c[j]
                        /\ \A j \in 1 .. i + 1 : g[n + (i + 1)][Len(c) + j] = u[j]
        OBVIOUS
    <2>1. /\ g[n + i] \in Seq(T) /\ Len(g[n + i]) = Len(c) + i
          /\ \A j \in 1 .. Len(c) : g[n + i][j] = c[j]
          /\ \A j \in 1 .. i : g[n + i][Len(c) + j] = u[j]
        OBVIOUS
    <2>2. /\ i + 1 \in 1 .. k /\ n + (i + 1) \in 1 .. n + k /\ (n + (i + 1)) - 1 = n + i
        BY <1>1
    <2>3. t[n + (i + 1)] = u[i + 1] /\ u[i + 1] \in T /\ u[i + 1] \in set
        BY <1>1, <2>2
    <2>4. g[n + (i + 1)] = Append(g[n + i], u[i + 1])
        BY <1>6, <2>2, <2>3
    <2>5. ASSUME NEW a \in Seq(T), NEW x \in T, a = g[n + i], x = u[i + 1],
                 NEW b, b = Append(a, x)
          PROVE  /\ b \in Seq(T) /\ Len(b) = Len(c) + (i + 1)
                 /\ \A j \in 1 .. Len(c) : b[j] = c[j]
                 /\ \A j \in 1 .. i + 1 : b[Len(c) + j] = u[j]
        <3>1. /\ b \in Seq(T) /\ Len(b) = Len(a) + 1 /\ b[Len(a) + 1] = x
              /\ \A j \in 1 .. Len(a) : b[j] = a[j]
            BY <2>5
        <3>2. /\ Len(a) = Len(c) + i
              /\ \A j \in 1 .. Len(c) : a[j] = c[j]
              /\ \A j \in 1 .. i : a[Len(c) + j] = u[j]
            BY <2>1, <2>5
        <3>3. Len(b) = Len(c) + (i + 1) /\ b[Len(c) + (i + 1)] = u[i + 1]
            BY <1>7, <2>5, <3>1, <3>2
        <3>4. \A j \in 1 .. Len(c) : b[j] = c[j]
            BY <1>7, <3>1, <3>2
        <3>5. ASSUME NEW j \in 1 .. i + 1
              PROVE  b[Len(c) + j] = u[j]
            <4>1. CASE j = i + 1
                BY <3>3, <4>1
            <4>2. CASE j \in 1 .. i
                <5>1. Len(c) + j \in 1 .. Len(a)
                    BY <1>7, <3>2, <4>2
                <5>2. QED
                    BY <3>1, <3>2, <4>2, <5>1
            <4>3. QED
                BY <4>1, <4>2
        <3>6. QED
            BY <3>1, <3>3, <3>4, <3>5
    <2>6. \A b : b = Append(g[n + i], u[i + 1]) =>
                 /\ b \in Seq(T) /\ Len(b) = Len(c) + (i + 1)
                 /\ \A j \in 1 .. Len(c) : b[j] = c[j]
                 /\ \A j \in 1 .. i + 1 : b[Len(c) + j] = u[j]
        BY <2>1, <2>3, <2>5
    <2>7. QED
        BY <2>4, <2>6
<1>10. P = Nat
    BY <1>8, <1>9, Induction
<1>11. k \in P
    BY <1>1, <1>10
<1>12. /\ g[n + k] \in Seq(T) /\ Len(g[n + k]) = Len(c) + k
       /\ \A j \in 1 .. Len(c) : g[n + k][j] = c[j]
       /\ \A j \in 1 .. k : g[n + k][Len(c) + j] = u[j]
    BY <1>1, <1>11
<1>13. g[n + k] = c \o u
    <2>1. /\ c \o u \in Seq(T) /\ Len(c \o u) = Len(c) + k
          /\ \A j \in 1 .. Len(c) + k : (c \o u)[j] = IF j <= Len(c) THEN c[j] ELSE u[j - Len(c)]
        BY <1>7, ConcatProperties
    <2>2. ASSUME NEW j \in 1 .. Len(c) + k
          PROVE  g[n + k][j] = (c \o u)[j]
        <3>1. CASE j <= Len(c)
            BY <1>7, <1>12, <2>1, <3>1
        <3>2. CASE j > Len(c)
            <4>1. j - Len(c) \in 1 .. k /\ Len(c) + (j - Len(c)) = j
                BY <1>1, <1>7, <3>2
            <4>2. QED
                BY <1>12, <2>1, <3>2, <4>1
        <3>3. QED
            BY <1>7, <3>1, <3>2
    <2>3. QED
        BY <1>12, <2>1, <2>2, SeqEqual
<1>14. QED
    BY <1>4, <1>13 DEF t, c

\* Of different elements each is chosen once, if at all.
LEMMA ChosenFromDifferent ==
    ASSUME NEW T, NEW s \in Seq(T), NEW set, IsInjective(s)
    PROVE  /\ IsInjective(Chosen(s, set))
           /\ ToSet(Chosen(s, set)) = ToSet(s) \cap set
<1> DEFINE n == Len(s)
<1>1. n \in Nat /\ \A i \in 1 .. n : s[i] \in T
    OBVIOUS
<1>2. PICK f : Choosing(f, s, set, n) /\ Chosen(s, set) = f[n]
    BY ChosenChooses
<1>3. /\ f[0] = <<>>
      /\ \A i \in 1 .. n : f[i] = IF s[i] \in set THEN Append(f[i - 1], s[i]) ELSE f[i - 1]
    BY <1>1, <1>2, Choice
<1> DEFINE P == {i \in Nat : i <= n =>
                   /\ f[i] \in Seq(T) /\ IsInjective(f[i])
                   /\ ToSet(f[i]) = {s[j] : j \in 1 .. i} \cap set}
<1>4. 0 \in P
    <2>1. <<>> \in Seq(T) /\ IsInjective(<<>>) /\ ToSet(<<>>) = {}
        BY DEF IsInjective, ToSet
    <2>2. {s[j] : j \in 1 .. 0} = {}
        OBVIOUS
    <2>3. QED
        BY <1>3, <2>1, <2>2
<1>5. ASSUME NEW i \in P
      PROVE  i + 1 \in P
    <2> SUFFICES ASSUME i + 1 <= n
                 PROVE  /\ f[i + 1] \in Seq(T) /\ IsInjective(f[i + 1])
                        /\ ToSet(f[i + 1]) = {s[j] : j \in 1 .. i + 1} \cap set
        OBVIOUS
    <2>1. /\ f[i] \in Seq(T) /\ IsInjective(f[i])
          /\ ToSet(f[i]) = {s[j] : j \in 1 .. i} \cap set
        OBVIOUS
    <2>2. i + 1 \in 1 .. n /\ (i + 1) - 1 = i
        BY <1>1
    <2>3. f[i + 1] = IF s[i + 1] \in set THEN Append(f[i], s[i + 1]) ELSE f[i]
        BY <1>3, <2>2
    <2>4. {s[j] : j \in 1 .. i + 1} = {s[j] : j \in 1 .. i} \cup {s[i + 1]}
        OBVIOUS
    <2>5. s[i + 1] \notin {s[j] : j \in 1 .. i}
        <3>1. \A a, b \in 1 .. n : s[a] = s[b] => a = b
            BY DEF IsInjective
        <3>2. QED
            BY <2>2, <3>1
    <2>6. CASE s[i + 1] \notin set
        BY <2>1, <2>3, <2>4, <2>6
    <2>7. CASE s[i + 1] \in set
        <3>1. ASSUME NEW a \in Seq(T), NEW x \in T, x \notin ToSet(a), IsInjective(a)
              PROVE  /\ Append(a, x) \in Seq(T) /\ IsInjective(Append(a, x))
                     /\ ToSet(Append(a, x)) = ToSet(a) \cup {x}
            <4> DEFINE t == Append(a, x)
            <4>1. /\ Len(a) \in Nat /\ t \in Seq(T) /\ Len(t) = Len(a) + 1
                  /\ DOMAIN t = 1 .. Len(a) + 1 /\ DOMAIN a = 1 .. Len(a)
                  /\ \A j \in 1 .. Len(a) : t[j] = a[j]
                  /\ t[Len(a) + 1] = x
                OBVIOUS
            <4> HIDE DEF t
            <4>2. \A j \in 1 .. Len(a) : a[j] # x
                BY <3>1, <4>1 DEF ToSet
            <4>3. IsInjective(t)
                BY <3>1, <4>1, <4>2 DEF IsInjective
            <4>4. ToSet(t) = {t[j] : j \in 1 .. Len(a) + 1} /\ ToSet(a) = {a[j] : j \in 1 .. Len(a)}
                BY <4>1 DEF ToSet
            <4>5. ToSet(t) = ToSet(a) \cup {x}
                BY <4>1, <4>4
            <4>6. QED
                BY <4>1, <4>3, <4>5 DEF t
        <3>2. s[i + 1] \in T /\ s[i + 1] \notin ToSet(f[i])
            BY <1>1, <2>1, <2>2, <2>5
        <3>3. f[i + 1] = Append(f[i], s[i + 1])
            BY <2>3, <2>7
        <3>4. /\ f[i + 1] \in Seq(T) /\ IsInjective(f[i + 1])
              /\ ToSet(f[i + 1]) = ToSet(f[i]) \cup {s[i + 1]}
            BY <2>1, <3>1, <3>2, <3>3
        <3>5. QED
            BY <2>1, <2>4, <2>7, <3>4
    <2>8. QED
        BY <2>6, <2>7
<1>6. P = Nat
    BY <1>4, <1>5, Induction
<1>7. n \in P
    BY <1>1, <1>6
<1>8. ToSet(s) = {s[j] : j \in 1 .. n}
    BY DEF ToSet
<1>9. QED
    BY <1>1, <1>2, <1>7, <1>8

-----------------------------------------------------------------------------
(***************************************************************************)
(* Ends of sequences                                                       *)
(***************************************************************************)
LEMMA EndsTransitively ==
    ASSUME NEW T, NEW x \in Seq(T), NEW y \in Seq(T), NEW z \in Seq(T),
           Ends(x, y), Ends(y, z)
    PROVE  Ends(x, z)
<1>1. /\ Len(x) \in Nat /\ Len(y) \in Nat /\ Len(z) \in Nat
      /\ Len(x) <= Len(y) /\ Len(y) <= Len(z)
      /\ \A i \in 1 .. Len(x) : x[i] = y[Len(y) - Len(x) + i]
      /\ \A i \in 1 .. Len(y) : y[i] = z[Len(z) - Len(y) + i]
    BY DEF Ends
<1>2. ASSUME NEW i \in 1 .. Len(x)
      PROVE  x[i] = z[Len(z) - Len(x) + i]
    <2>1. Len(y) - Len(x) + i \in 1 .. Len(y)
        BY <1>1
    <2>2. Len(z) - Len(y) + (Len(y) - Len(x) + i) = Len(z) - Len(x) + i
        BY <1>1
    <2>3. QED
        BY <1>1, <2>1, <2>2
<1>3. QED
    BY <1>1, <1>2 DEF Ends

LEMMA EndsWithMore ==
    ASSUME NEW T, NEW x \in Seq(T), NEW y \in Seq(T), NEW u \in Seq(T), Ends(x, y)
    PROVE  Ends(x \o u, y \o u)
<1>1. /\ Len(x) \in Nat /\ Len(y) \in Nat /\ Len(u) \in Nat /\ Len(x) <= Len(y)
      /\ \A i \in 1 .. Len(x) : x[i] = y[Len(y) - Len(x) + i]
    BY DEF Ends
<1>2. /\ Len(x \o u) = Len(x) + Len(u) /\ Len(y \o u) = Len(y) + Len(u)
      /\ \A i \in 1 .. Len(x) + Len(u) : (x \o u)[i] = IF i <= Len(x) THEN x[i] ELSE u[i - Len(x)]
      /\ \A i \in 1 .. Len(y) + Len(u) : (y \o u)[i] = IF i <= Len(y) THEN y[i] ELSE u[i - Len(y)]
    BY ConcatProperties
<1>3. ASSUME NEW i \in 1 .. Len(x) + Len(u)
      PROVE  (x \o u)[i] = (y \o u)[Len(y \o u) - Len(x \o u) + i]
    <2> DEFINE j == Len(y) - Len(x) + i
    <2>1. j \in 1 .. Len(y) + Len(u) /\ Len(y \o u) - Len(x \o u) + i = j
        BY <1>1, <1>2
    <2>2. CASE i <= Len(x)
        <3>1. j <= Len(y) /\ x[i] = y[j]
            BY <1>1, <2>2
        <3>2. QED
            BY <1>2, <2>1, <2>2, <3>1
    <2>3. CASE i > Len(x)
        <3>1. j > Len(y) /\ j - Len(y) = i - Len(x)
            BY <1>1, <2>3
        <3>2. QED
            BY <1>1, <1>2, <2>1, <2>3, <3>1
    <2>4. QED
        BY <1>1, <2>2, <2>3
<1>4. QED
    BY <1>1, <1>2, <1>3 DEF Ends

LEMMA RestEnds ==
    ASSUME NEW T, NEW x \in Seq(T), NEW u \in Seq(T)
    PROVE  Ends(u, x \o u)
<1>1. /\ Len(x) \in Nat /\ Len(u) \in Nat /\ Len(x \o u) = Len(x) + Len(u)
      /\ \A i \in 1 .. Len(u) : (x \o u)[Len(x) + i] = u[i]
    BY ConcatProperties
<1>2. QED
    BY <1>1 DEF Ends

LEMMA EndsItself ==
    ASSUME NEW T, NEW x \in Seq(T)
    PROVE  Ends(x, x)
BY DEF Ends

\* The community module's suffix.
LEMMA EndsIsSuffix ==
    ASSUME NEW T, NEW x \in Seq(T), NEW y \in Seq(T), Ends(x, y)
    PROVE  IsSuffix(x, y)
<1> DEFINE a == Reverse(x)
           b == Reverse(y)
           m == Len(x)
           n == Len(y)
<1>1. /\ m \in Nat /\ n \in Nat /\ m <= n
      /\ \A i \in 1 .. m : x[i] = y[n - m + i]
    BY DEF Ends
<1>2. /\ a \in Seq(T) /\ Len(a) = m /\ \A i \in 1 .. m : a[i] = x[m - i + 1]
      /\ b \in Seq(T) /\ Len(b) = n /\ \A i \in 1 .. n : b[i] = y[n - i + 1]
    BY <1>1 DEF Reverse
<1> HIDE DEF a, b
<1>3. ASSUME NEW i \in 1 .. m
      PROVE  a[i] = b[i]
    <2>1. m - i + 1 \in 1 .. m /\ n - m + (m - i + 1) = n - i + 1 /\ i \in 1 .. n
        BY <1>1
    <2>2. QED
        BY <1>1, <1>2, <2>1
<1>4. SubSeq(a, 1, m) = SubSeq(b, 1, m)
    <2>1. /\ SubSeq(a, 1, m) \in Seq(T) /\ Len(SubSeq(a, 1, m)) = m
          /\ SubSeq(b, 1, m) \in Seq(T) /\ Len(SubSeq(b, 1, m)) = m
          /\ \A i \in 1 .. m : SubSeq(a, 1, m)[i] = a[i] /\ SubSeq(b, 1, m)[i] = b[i]
        BY <1>1, <1>2
    <2>2. QED
        BY <1>3, <2>1, SeqEqual
<1>5. IsPrefix(a, b)
    BY <1>1, <1>2, <1>4 DEF IsPrefix
<1>6. QED
    BY <1>5 DEF IsSuffix, a, b

-----------------------------------------------------------------------------
(***************************************************************************)
(* What AddToBuffer leaves of a prompt's messages                          *)
(***************************************************************************)
LEMMA AddedToBuffer ==
    ASSUME NEW m \in Message, buffer \in Seq(Message), AddToBuffer(m)
    PROVE  /\ buffer' \in Seq(Message) /\ ToSet(buffer') \subseteq ToSet(buffer) \cup {m}
           /\ \/ buffer' = Append(buffer, m)
              \/ buffer' = Tail(Append(buffer, m))
<1> DEFINE all == Append(buffer, m)
<1>1. /\ all \in Seq(Message) /\ all # <<>>
      /\ Len(buffer) \in Nat /\ Len(all) = Len(buffer) + 1
      /\ \A i \in 1 .. Len(buffer) : all[i] = buffer[i]
      /\ all[Len(buffer) + 1] = m
    BY AppendProperties
<1>2. ToSet(all) = ToSet(buffer) \cup {m}
    <2>1. /\ ToSet(all) = {all[i] : i \in 1 .. Len(buffer) + 1}
          /\ ToSet(buffer) = {buffer[i] : i \in 1 .. Len(buffer)}
        BY <1>1, LenProperties DEF ToSet
    <2> HIDE DEF all
    <2>2. ASSUME NEW i \in 1 .. Len(buffer) + 1
          PROVE  i = Len(buffer) + 1 \/ i \in 1 .. Len(buffer)
        BY <1>1
    <2>3. /\ 1 .. Len(buffer) \subseteq 1 .. Len(buffer) + 1
          /\ Len(buffer) + 1 \in 1 .. Len(buffer) + 1
        BY <1>1
    <2>4. ToSet(all) \subseteq ToSet(buffer) \cup {m}
        BY <1>1, <2>1, <2>2
    <2>5. ToSet(buffer) \cup {m} \subseteq ToSet(all)
        BY <1>1, <2>1, <2>3
    <2>6. QED
        BY <2>4, <2>5
<1> HIDE DEF all
<1>3. Tail(all) \in Seq(Message) /\ ToSet(Tail(all)) \subseteq ToSet(all)
    BY <1>1, HoldingRest
<1>4. buffer' = all \/ buffer' = Tail(all)
    BY DEF AddToBuffer, all
<1>5. QED
    BY <1>1, <1>2, <1>3, <1>4 DEF all

LEMMA ByIsSequence ==
    ASSUME NEW s \in Seq(Message), NEW p
    PROVE  By(p, s) \in Seq(Message)
BY ChosenAreElements DEF By

LEMMA AddedBy ==
    ASSUME NEW m \in Message, NEW p, buffer \in Seq(Message), AddToBuffer(m)
    PROVE  /\ By(p, buffer) \in Seq(Message) /\ By(p, buffer') \in Seq(Message)
           /\ m.by # p => Ends(By(p, buffer'), By(p, buffer))
           /\ m.by = p => Ends(By(p, buffer'), By(p, buffer) \o <<m>>)
<1> DEFINE set == {n \in Message : n.by = p}
           all == Append(buffer, m)
           old == Chosen(buffer, set)
<1>1. all \in Seq(Message) /\ all # <<>> /\ (m \in set <=> m.by = p)
    BY AppendProperties
<1>2. /\ By(p, buffer) = old /\ By(p, buffer') = Chosen(buffer', set)
      /\ By(p, buffer) \in Seq(Message) /\ By(p, buffer') \in Seq(Message)
    BY ByIsSequence, AddedToBuffer DEF By
<1>3. Chosen(all, set) = IF m \in set THEN Append(old, m) ELSE old
    BY ChosenFromMore
<1>4. Append(old, m) = old \o <<m>>
    BY <1>2, AppendIsConcat
<1>5. Chosen(all, set) \in Seq(Message) /\ Chosen(Tail(all), set) \in Seq(Message)
    BY <1>1, ChosenAreElements, HeadTailProperties
<1>6. Ends(Chosen(Tail(all), set), Chosen(all, set))
    <2>1. Chosen(all, set) = (IF Head(all) \in set THEN <<Head(all)>> ELSE <<>>) \o Chosen(Tail(all), set)
        BY <1>1, ChosenFromTail
    <2>2. (IF Head(all) \in set THEN <<Head(all)>> ELSE <<>>) \in Seq(Message)
        BY <1>1, HeadTailProperties
    <2>3. QED
        BY <1>5, <2>1, <2>2, RestEnds
<1>7. Ends(Chosen(all, set), Chosen(all, set))
    BY <1>5, EndsItself
<1>8. buffer' = all \/ buffer' = Tail(all)
    BY AddedToBuffer
<1> HIDE DEF all, old, set
<1>9. Ends(By(p, buffer'), Chosen(all, set))
    BY <1>2, <1>6, <1>7, <1>8
<1>10. QED
    BY <1>1, <1>2, <1>3, <1>4, <1>9

-----------------------------------------------------------------------------
(***************************************************************************)
(* Calls and their results in a sequence                                   *)
(***************************************************************************)

LEMMA TidyRest ==
    ASSUME NEW s \in Seq(Message), s # <<>>, NEW p, NEW pending, Tidy(s, p, pending)
    PROVE  Tidy(Tail(s), p, pending)
<1> DEFINE t == Tail(s)
           n == Len(t)
<1>1. /\ t \in Seq(Message) /\ n \in Nat /\ Len(s) = n + 1
      /\ DOMAIN s = 1 .. n + 1 /\ DOMAIN t = 1 .. n
      /\ \A i \in 1 .. n : t[i] = s[i + 1]
    BY HeadTailProperties, LenProperties
<1> HIDE DEF t
<1> SUFFICES ASSUME NEW i \in 1 .. n, Opens(t[i], p), NEW c \in ToSet(t[i].calls),
                    NEW r, r = Result(p, t[i].step, c)
             PROVE  IF r \in pending THEN Never(t, i, r) ELSE Once(t, i, r)
    BY <1>1 DEF Tidy, t
<1>2. i + 1 \in DOMAIN s /\ s[i + 1] = t[i]
    BY <1>1
<1>3. IF r \in pending THEN Never(s, i + 1, r) ELSE Once(s, i + 1, r)
    BY <1>2 DEF Tidy
<1>4. Never(s, i + 1, r) => Never(t, i, r)
    <2> SUFFICES ASSUME Never(s, i + 1, r), NEW j \in 1 .. n, j > i
                 PROVE  t[j] # r
        BY <1>1 DEF Never
    <2>1. j + 1 \in DOMAIN s /\ j + 1 > i + 1 /\ s[j + 1] = t[j]
        BY <1>1
    <2>2. QED
        BY <2>1 DEF Never
<1>5. Once(s, i + 1, r) => Once(t, i, r)
    <2> SUFFICES ASSUME Once(s, i + 1, r)
                 PROVE  Once(t, i, r)
        OBVIOUS
    <2>1. PICK j \in DOMAIN s :
             /\ j > i + 1 /\ s[j] = r
             /\ \A k \in DOMAIN s : k > i + 1 /\ s[k] = r => k = j
        BY DEF Once
    <2>2. j - 1 \in DOMAIN t /\ j - 1 > i /\ t[j - 1] = r
        BY <1>1, <2>1
    <2>3. ASSUME NEW k \in DOMAIN t, k > i, t[k] = r
          PROVE  k = j - 1
        <3>1. k + 1 \in DOMAIN s /\ k + 1 > i + 1 /\ s[k + 1] = r
            BY <1>1, <2>3
        <3>2. k + 1 = j
            BY <2>1, <3>1
        <3>3. QED
            BY <1>1, <2>1, <3>2
    <2>4. QED
        BY <2>2, <2>3 DEF Once
<1>6. QED
    BY <1>3, <1>4, <1>5

\* A result that was pending comes in; the others are as they were.
LEMMA TidyMore ==
    ASSUME NEW s \in Seq(Message), NEW u \in Seq(Message), NEW p, NEW old, NEW new,
           Tidy(s, p, old), IsInjective(u),
           \A m \in ToSet(u) : Opens(m, p) =>
             u = <<m>> /\ \A c \in ToSet(m.calls) : Result(p, m.step, c) \in new,
           \A i \in DOMAIN s : Opens(s[i], p) => \A c \in ToSet(s[i].calls) :
             LET r == Result(p, s[i].step, c)
             IN  IF r \in ToSet(u) THEN r \in old /\ r \notin new
                 ELSE r \in old <=> r \in new
    PROVE  Tidy(s \o u, p, new)
<1> DEFINE t == s \o u
           n == Len(s)
           k == Len(u)
<1>1. /\ n \in Nat /\ k \in Nat /\ t \in Seq(Message) /\ Len(t) = n + k
      /\ DOMAIN t = 1 .. n + k /\ DOMAIN s = 1 .. n /\ DOMAIN u = 1 .. k
      /\ \A i \in 1 .. n : t[i] = s[i]
      /\ \A i \in 1 .. k : t[n + i] = u[i]
    BY ConcatProperties, LenProperties
<1> HIDE DEF t, n, k
<1>2. ASSUME NEW i \in 1 .. n + k, Opens(t[i], p), NEW c \in ToSet(t[i].calls),
             NEW r, r = Result(p, t[i].step, c)
      PROVE  IF r \in new THEN Never(t, i, r) ELSE Once(t, i, r)
    <2>1. CASE i > n
        <3>1. i - n \in 1 .. k /\ t[i] = u[i - n]
            BY <1>1, <2>1
        <3>2. t[i] \in ToSet(u)
            BY <1>1, <3>1 DEF ToSet
        <3>3. u = <<t[i]>> /\ r \in new
            BY <1>2, <3>2
        <3>4. k = 1
            BY <3>3 DEF k
        <3>5. Never(t, i, r)
            BY <1>1, <2>1, <3>4 DEF Never
        <3>6. QED
            BY <3>3, <3>5
    <2>2. CASE i <= n
        <3>1. i \in DOMAIN s /\ t[i] = s[i]
            BY <1>1, <2>2
        <3>2. /\ IF r \in old THEN Never(s, i, r) ELSE Once(s, i, r)
              /\ IF r \in ToSet(u) THEN r \in old /\ r \notin new
                 ELSE r \in old <=> r \in new
            BY <1>2, <3>1 DEF Tidy
        <3>3. CASE r \in ToSet(u)
            <4>1. PICK a \in 1 .. k : u[a] = r
                BY <1>1, <3>3 DEF ToSet
            <4>2. Never(s, i, r) /\ r \notin new
                BY <3>2, <3>3
            <4>3. n + a \in DOMAIN t /\ n + a > i /\ t[n + a] = r
                BY <1>1, <2>2, <4>1
            <4>4. ASSUME NEW b \in DOMAIN t, b > i, t[b] = r
                  PROVE  b = n + a
                <5>1. b > n
                    <6>1. SUFFICES ASSUME b <= n
                                   PROVE  FALSE
                        BY <1>1, <4>4
                    <6>2. b \in DOMAIN s /\ s[b] = r
                        BY <1>1, <4>4, <6>1
                    <6>3. QED
                        BY <4>2, <4>4, <6>2 DEF Never
                <5>2. b - n \in 1 .. k /\ u[b - n] = r
                    BY <1>1, <4>4, <5>1
                <5>3. b - n = a
                    BY <1>1, <4>1, <5>2 DEF IsInjective
                <5>4. b \in Nat /\ a \in Nat /\ n \in Nat
                    BY <1>1, <4>1, <4>4
                <5>5. QED
                    BY <5>3, <5>4
            <4>5. Once(t, i, r)
                BY <4>3, <4>4 DEF Once
            <4>6. QED
                BY <4>2, <4>5
        <3>4. CASE r \notin ToSet(u)
            <4>1. ASSUME NEW b \in DOMAIN t, t[b] = r
                  PROVE  b \in DOMAIN s /\ s[b] = r
                <5>1. b <= n
                    <6>1. SUFFICES ASSUME b > n
                                   PROVE  FALSE
                        BY <1>1
                    <6>2. b - n \in DOMAIN u /\ u[b - n] = r
                        BY <1>1, <4>1, <6>1
                    <6>3. QED
                        BY <3>4, <6>2 DEF ToSet
                <5>2. QED
                    BY <1>1, <4>1, <5>1
            <4>2. Never(s, i, r) => Never(t, i, r)
                BY <4>1 DEF Never
            <4>3. Once(s, i, r) => Once(t, i, r)
                <5> SUFFICES ASSUME Once(s, i, r)
                             PROVE  Once(t, i, r)
                    OBVIOUS
                <5>1. PICK j \in DOMAIN s :
                         /\ j > i /\ s[j] = r
                         /\ \A b \in DOMAIN s : b > i /\ s[b] = r => b = j
                    BY DEF Once
                <5>2. j \in DOMAIN t /\ t[j] = r
                    BY <1>1, <5>1
                <5>3. QED
                    BY <4>1, <5>1, <5>2 DEF Once
            <4>4. QED
                BY <3>2, <3>4, <4>2, <4>3
        <3>5. QED
            BY <3>3, <3>4
    <2>3. QED
        BY <1>1, <2>1, <2>2
<1>3. Tidy(t, p, new)
    <2> SUFFICES ASSUME NEW i \in DOMAIN t, Opens(t[i], p), NEW c \in ToSet(t[i].calls)
                 PROVE  LET r == Result(p, t[i].step, c)
                        IN  IF r \in new THEN Never(t, i, r) ELSE Once(t, i, r)
        BY DEF Tidy
    <2>1. i \in 1 .. n + k
        BY <1>1
    <2>2. QED
        BY <1>2, <2>1
<1>4. QED
    BY <1>3 DEF t

-----------------------------------------------------------------------------
(***************************************************************************)
(* Messages                                                                *)
(***************************************************************************)
LEMMA MessagesHold ==
    /\ \A p \in Prompts : Question(p) \in Message /\ Answer(p) \in Message
    /\ \A p \in Prompts, i \in 0 .. MaxSteps, cs \in CallLists :
         Request(p, i, cs) \in Message
    /\ \A p \in Prompts, i \in 0 .. MaxSteps, c \in Calls : Result(p, i, c) \in Message
BY DEF Message

LEMMA Fields ==
    /\ \A p : Question(p).is = "question" /\ Question(p).by = p
    /\ \A p : Answer(p).is = "answer" /\ Answer(p).by = p
    /\ \A p, i, cs : /\ Request(p, i, cs).is = "request" /\ Request(p, i, cs).by = p
                     /\ Request(p, i, cs).step = i /\ Request(p, i, cs).calls = cs
    /\ \A p, i, c : /\ Result(p, i, c).is = "result" /\ Result(p, i, c).by = p
                    /\ Result(p, i, c).step = i /\ Result(p, i, c).call = c
BY DEF Question, Answer, Request, Result

LEMMA KindsOfMessages ==
    ASSUME NEW m \in Message
    PROVE  /\ m.is \in {"question", "request", "result", "answer"} /\ m.by \in Prompts
           /\ m.is = "request" => /\ m.step \in 0 .. MaxSteps /\ m.calls \in CallLists
                                  /\ m = Request(m.by, m.step, m.calls)
           /\ m.is = "result" => /\ m.step \in 0 .. MaxSteps /\ m.call \in Calls
                                 /\ m = Result(m.by, m.step, m.call)
<1>1. CASE m \in {Question(p) : p \in Prompts}
    BY <1>1 DEF Question
<1>2. CASE m \in {Answer(p) : p \in Prompts}
    BY <1>2 DEF Answer
<1>3. CASE m \in {Request(p, i, cs) : p \in Prompts, i \in 0 .. MaxSteps, cs \in CallLists}
    <2>1. PICK p \in Prompts, i \in 0 .. MaxSteps, cs \in CallLists : m = Request(p, i, cs)
        BY <1>3
    <2>2. QED
        BY <2>1, Fields
<1>4. CASE m \in {Result(p, i, c) : p \in Prompts, i \in 0 .. MaxSteps, c \in Calls}
    <2>1. PICK p \in Prompts, i \in 0 .. MaxSteps, c \in Calls : m = Result(p, i, c)
        BY <1>4
    <2>2. QED
        BY <2>1, Fields
<1>5. QED
    BY <1>1, <1>2, <1>3, <1>4 DEF Message

LEMMA CallListsHold ==
    ASSUME NEW cs \in CallLists
    PROVE  cs \in Seq(Calls) /\ IsInjective(cs) /\ ToSet(cs) \subseteq Calls
<1>1. cs \in BoundedSeq(Calls, MaxCalls) /\ IsInjective(cs)
    BY DEF CallLists
<1>2. PICK n \in 0 .. MaxCalls : cs \in [1 .. n -> Calls]
    BY <1>1 DEF BoundedSeq, SeqOf
<1>3. cs \in Seq(Calls)
    BY <1>2, BoundsAssumption, SeqDef
<1>4. QED
    BY <1>1, <1>3, Holding

\* The results of a step: one for each call that is chosen.
LEMMA ResultsAnswer ==
    ASSUME NEW p \in Prompts, step[p] \in 0 .. MaxSteps, NEW some, NEW cs \in CallLists,
           Request(p, step[p], cs) \in ToSet(msgs[p]), Asks(p, cs)
    PROVE  /\ Asked(p) = cs
           /\ Results(p, some) \in Seq(Message) /\ IsInjective(Results(p, some))
           /\ ToSet(Results(p, some)) = {Result(p, step[p], c) : c \in ToSet(cs) \cap some}
<1>1. Asked(p) = cs
    <2> DEFINE m == CHOOSE n \in ToSet(msgs[p]) : n.is = "request" /\ n.step = step[p]
    <2>1. m = Request(p, step[p], cs)
        BY Fields DEF Asks
    <2>2. Asked(p) = m.calls
        BY DEF Asked
    <2> HIDE DEF m
    <2>3. QED
        BY <2>1, <2>2, Fields
<1> DEFINE some_cs == Chosen(cs, some)
           rs == Results(p, some)
<1>2. /\ some_cs \in Seq(Calls) /\ IsInjective(some_cs)
      /\ ToSet(some_cs) = ToSet(cs) \cap some
    BY CallListsHold, ChosenAreElements, ChosenFromDifferent
<1>3. rs = [k \in DOMAIN some_cs |-> Result(p, step[p], some_cs[k])]
    BY <1>1 DEF Results
<1> HIDE DEF some_cs, rs
<1>4. /\ Len(some_cs) \in Nat /\ DOMAIN some_cs = 1 .. Len(some_cs)
      /\ \A k \in DOMAIN some_cs : some_cs[k] \in Calls
    BY <1>2
<1>5. /\ DOMAIN rs = DOMAIN some_cs
      /\ \A k \in DOMAIN some_cs : rs[k] = Result(p, step[p], some_cs[k])
    BY <1>3
<1>6. rs \in Seq(Message)
    <2>1. rs \in [1 .. Len(some_cs) -> Message]
        BY <1>3, <1>4, MessagesHold
    <2>2. QED
        BY <1>4, <2>1, SeqDef
<1>7. IsInjective(rs)
    <2>1. ASSUME NEW a \in DOMAIN rs, NEW b \in DOMAIN rs, rs[a] = rs[b]
          PROVE  a = b
        <3>1. some_cs[a] = some_cs[b]
            BY <1>5, <2>1, Fields
        <3>2. QED
            BY <1>2, <1>5, <3>1 DEF IsInjective
    <2>2. QED
        BY <2>1 DEF IsInjective
<1>8. ToSet(rs) = {Result(p, step[p], c) : c \in ToSet(some_cs)}
    BY <1>5 DEF ToSet
<1>9. QED
    BY <1>1, <1>2, <1>6, <1>7, <1>8 DEF rs

\* The results pending may be any that agree on the calls of the sequence.
LEMMA TidyAlike ==
    ASSUME NEW s, NEW p, NEW old, NEW new, Tidy(s, p, old),
           \A i \in DOMAIN s : Opens(s[i], p) => \A c \in ToSet(s[i].calls) :
             Result(p, s[i].step, c) \in old <=> Result(p, s[i].step, c) \in new
    PROVE  Tidy(s, p, new)
<1> SUFFICES ASSUME NEW i \in DOMAIN s, Opens(s[i], p), NEW c \in ToSet(s[i].calls),
                    NEW r, r = Result(p, s[i].step, c)
             PROVE  IF r \in new THEN Never(s, i, r) ELSE Once(s, i, r)
    BY DEF Tidy
<1>1. IF r \in old THEN Never(s, i, r) ELSE Once(s, i, r)
    BY DEF Tidy
<1>2. QED
    BY <1>1

\* One message enters the buffer.
LEMMA TidyAdded ==
    ASSUME NEW m \in Message, buffer \in Seq(Message), AddToBuffer(m),
           NEW p, NEW old, NEW new, Tidy(buffer, p, old),
           Opens(m, p) => \A c \in ToSet(m.calls) : Result(p, m.step, c) \in new,
           \A i \in DOMAIN buffer : Opens(buffer[i], p) => \A c \in ToSet(buffer[i].calls) :
             LET r == Result(p, buffer[i].step, c)
             IN  IF r = m THEN r \in old /\ r \notin new ELSE r \in old <=> r \in new
    PROVE  Tidy(buffer', p, new)
<1> DEFINE u == <<m>>
<1>1. u \in Seq(Message) /\ ToSet(u) = {m} /\ IsInjective(u)
    BY HoldingOne DEF IsInjective
<1>2. Append(buffer, m) = buffer \o u
    BY AppendIsConcat
<1>3. \A n \in ToSet(u) : Opens(n, p) =>
             u = <<n>> /\ \A c \in ToSet(n.calls) : Result(p, n.step, c) \in new
    BY <1>1
<1> HIDE DEF u
<1>4. \A i \in DOMAIN buffer : Opens(buffer[i], p) => \A c \in ToSet(buffer[i].calls) :
             LET r == Result(p, buffer[i].step, c)
             IN  IF r \in ToSet(u) THEN r \in old /\ r \notin new ELSE r \in old <=> r \in new
    BY <1>1
<1>5. Tidy(buffer \o u, p, new)
    BY <1>1, <1>3, <1>4, TidyMore
<1>6. Append(buffer, m) \in Seq(Message) /\ Append(buffer, m) # <<>>
    BY AppendProperties
<1>7. Tidy(Append(buffer, m), p, new) /\ Tidy(Tail(Append(buffer, m)), p, new)
    <2> DEFINE all == Append(buffer, m)
    <2>1. all \in Seq(Message) /\ all # <<>> /\ Tidy(all, p, new)
        BY <1>2, <1>5, <1>6
    <2> HIDE DEF all
    <2>2. Tidy(Tail(all), p, new)
        BY <2>1, TidyRest
    <2>3. QED
        BY <2>1, <2>2 DEF all
<1>8. QED
    BY <1>7, AddedToBuffer

-----------------------------------------------------------------------------
(***************************************************************************)
(* A prompt that takes no step                                             *)
(***************************************************************************)
LEMMA SaidIsSequence ==
    ASSUME NEW p \in Prompts, Typed
    PROVE  Said(p) \in Seq(Message)
<1>1. (IF pc[p] = "idle" THEN <<>> ELSE <<Question(p)>>) \in Seq(Message)
    BY MessagesHold
<1>2. Chosen(msgs[p], {m \in Message : m.is # "question"}) \in Seq(Message)
    BY ChosenAreElements DEF Typed
<1>3. QED
    BY <1>1, <1>2 DEF Said

\* The step of another prompt, or a clear.
Elsewhere(p) ==
    /\ pc'[p] = pc[p] /\ msgs'[p] = msgs[p] /\ step'[p] = step[p] /\ unsent'[p] = unsent[p]
    /\ \/ buffer' = buffer
       \/ buffer' = <<>>
       \/ \E m \in Message : m.by # p /\ AddToBuffer(m)

LEMMA LocalElsewhere ==
    ASSUME NEW p \in Prompts, Local(p), Elsewhere(p)
    PROVE  Local(p)'
<1>1. /\ pc'[p] = pc[p] /\ msgs'[p] = msgs[p] /\ step'[p] = step[p] /\ unsent'[p] = unsent[p]
    BY DEF Elsewhere
<1>2. AtTools(p)' = AtTools(p) /\ ToGet(p)' = ToGet(p)
    BY <1>1 DEF AtTools, ToGet
<1>3. \A cs : Asks(p, cs)' <=> Asks(p, cs)
    BY <1>1 DEF Asks
<1>4. QED
    BY <1>1, <1>2, <1>3 DEF Local

LEMMA SharedElsewhere ==
    ASSUME NEW p \in Prompts, Typed, Shared(p), Elsewhere(p)
    PROVE  Shared(p)'
<1>1. /\ pc'[p] = pc[p] /\ msgs'[p] = msgs[p] /\ step'[p] = step[p] /\ unsent'[p] = unsent[p]
    BY DEF Elsewhere
<1>2. ToPush(p)' = ToPush(p) /\ Said(p)' = Said(p)
    BY <1>1 DEF ToPush, ToGet, Said
<1>3. /\ buffer \in Seq(Message) /\ buffer' \in Seq(Message)
      /\ By(p, buffer) \in Seq(Message) /\ By(p, buffer') \in Seq(Message)
      /\ Ends(By(p, buffer'), By(p, buffer))
      /\ \A m \in ToSet(buffer') : m.by = p => m \in ToSet(buffer)
      /\ \A pending : Tidy(buffer, p, pending) => Tidy(buffer', p, pending)
    <2>1. buffer \in Seq(Message) /\ By(p, buffer) \in Seq(Message)
        BY ByIsSequence DEF Typed
    <2>2. CASE buffer' = buffer
        BY <2>1, <2>2, EndsItself
    <2>3. CASE buffer' = <<>>
        <3>1. By(p, <<>>) = <<>> /\ ToSet(<<>>) = {} /\ <<>> \in Seq(Message)
            BY ChosenFromNothing DEF By, ToSet
        <3>2. Ends(<<>>, By(p, buffer))
            BY <2>1 DEF Ends
        <3>3. \A pending : Tidy(<<>>, p, pending)
            BY DEF Tidy
        <3>4. QED
            BY <2>1, <2>3, <3>1, <3>2, <3>3
    <2>4. CASE \E m \in Message : m.by # p /\ AddToBuffer(m)
        <3>1. PICK m \in Message : m.by # p /\ AddToBuffer(m)
            BY <2>4
        <3>2. buffer' \in Seq(Message) /\ ToSet(buffer') \subseteq ToSet(buffer) \cup {m}
            BY <2>1, <3>1, AddedToBuffer
        <3>3. By(p, buffer') \in Seq(Message) /\ Ends(By(p, buffer'), By(p, buffer))
            BY <2>1, <3>1, AddedBy
        <3>4. ASSUME NEW pending, Tidy(buffer, p, pending)
              PROVE  Tidy(buffer', p, pending)
            <4>1. ~ Opens(m, p) /\ \A i, c : Result(p, i, c) # m
                BY <3>1, Fields DEF Opens
            <4>2. \A i \in DOMAIN buffer : Opens(buffer[i], p) => \A c \in ToSet(buffer[i].calls) :
                     LET r == Result(p, buffer[i].step, c)
                     IN  IF r = m THEN r \in pending /\ r \notin pending
                         ELSE r \in pending <=> r \in pending
                BY <4>1
            <4>3. QED
                BY <2>1, <3>1, <3>4, <4>1, <4>2, TidyAdded
        <3>5. QED
            BY <2>1, <3>1, <3>2, <3>3, <3>4
    <2>5. QED
        BY <2>2, <2>3, <2>4 DEF Elsewhere
<1>4. unsent[p] \in Seq(Message) /\ Said(p) \in Seq(Message)
    BY SaidIsSequence DEF Typed
<1>5. Ends(By(p, buffer) \o unsent[p], Said(p)) => Ends(By(p, buffer') \o unsent[p], Said(p))
    <2>1. Ends(By(p, buffer') \o unsent[p], By(p, buffer) \o unsent[p])
        BY <1>3, <1>4, EndsWithMore
    <2>2. By(p, buffer') \o unsent[p] \in Seq(Message) /\ By(p, buffer) \o unsent[p] \in Seq(Message)
        BY <1>3, <1>4
    <2>3. QED
        BY <1>4, <2>1, <2>2, EndsTransitively
<1>6. By(p, buffer)' = By(p, buffer')
    BY DEF By
<1>7. QED
    BY <1>1, <1>2, <1>3, <1>5, <1>6 DEF Shared

-----------------------------------------------------------------------------
(***************************************************************************)
(* The initial state, and types                                            *)
(***************************************************************************)
LEMMA InitialInv == Init => LoopIInv
<1> SUFFICES ASSUME Init
             PROVE  LoopIInv
    OBVIOUS
<1>1. Typed
    BY BoundsAssumption DEF Init, Typed, PCs
<1>2. ASSUME NEW p \in Prompts
      PROVE  Local(p) /\ Shared(p)
    <2>1. /\ pc[p] = "idle" /\ msgs[p] = <<>> /\ step[p] = 0 /\ unsent[p] = <<>>
          /\ buffer = <<>>
        BY <1>2 DEF Init
    <2>2. Local(p)
        BY <2>1 DEF Local, Looping, AtTools
    <2>3. By(p, buffer) = <<>> /\ Said(p) = <<>> \o <<>>
        BY <2>1, ChosenFromNothing DEF By, Said
    <2>4. Ends(<<>>, <<>>)
        BY DEF Ends
    <2>5. <<>> \o <<>> = <<>>
        OBVIOUS
    <2>6. Ends(By(p, buffer) \o unsent[p], Said(p))
        BY <2>1, <2>3, <2>4, <2>5
    <2>7. Tidy(buffer, p, ToPush(p)) /\ ToSet(buffer) = {}
        BY <2>1 DEF Tidy, ToSet
    <2>8. QED
        BY <2>1, <2>2, <2>6, <2>7 DEF Shared, Looping
<1>3. QED
    BY <1>1, <1>2 DEF LoopIInv

\* What a step of p does to its own place and to the others'.
LEMMA Goes ==
    ASSUME Typed, NEW p \in Prompts, NEW x \in PCs, Goto(p, x)
    PROVE  /\ pc'[p] = x /\ pc' \in [Prompts -> PCs]
           /\ \A q \in Prompts : q # p => pc'[q] = pc[q]
BY DEF Typed, Goto

LEMMA Says ==
    ASSUME Typed, NEW p \in Prompts, NEW u \in Seq(Message), Say(p, u)
    PROVE  /\ msgs'[p] = msgs[p] \o u /\ msgs' \in [Prompts -> Seq(Message)]
           /\ \A q \in Prompts : q # p => msgs'[q] = msgs[q]
<1>1. msgs[p] \o u \in Seq(Message)
    BY DEF Typed
<1>2. QED
    BY <1>1 DEF Typed, Say

LEMMA Keeps ==
    ASSUME Typed, NEW p \in Prompts, NEW u \in Seq(Message),
           unsent' = [unsent EXCEPT ![p] = u]
    PROVE  /\ unsent'[p] = u /\ unsent' \in [Prompts -> Seq(Message)]
           /\ \A q \in Prompts : q # p => unsent'[q] = unsent[q]
BY DEF Typed

LEMMA Returns ==
    ASSUME Typed, NEW p \in Prompts, NEW x \in PCs, Return(p, x)
    PROVE  /\ pc'[p] = x /\ pc' \in [Prompts -> PCs]
           /\ msgs'[p] = <<>> /\ msgs' \in [Prompts -> Seq(Message)]
           /\ attempt' \in [Prompts -> 1 .. MaxAttempts]
           /\ \A q \in Prompts : q # p => pc'[q] = pc[q] /\ msgs'[q] = msgs[q]
BY BoundsAssumption DEF Typed, Return, Goto

\* The messages on the way to the buffer are p's.
LEMMA UnsentAreOwn ==
    ASSUME NEW p \in Prompts, Typed, Local(p), unsent[p] # <<>>,
           pc[p] \in Looping \cup {"answering"}
    PROVE  /\ Head(unsent[p]) \in Message /\ Head(unsent[p]).by = p
           /\ ~ Opens(Head(unsent[p]), p)
           /\ Head(unsent[p]) \in ToSet(unsent[p])
<1>1. Head(unsent[p]) \in Message /\ Head(unsent[p]) \in ToSet(unsent[p])
    BY HoldingRest DEF Typed
<1>2. CASE pc[p] \in Looping
    BY <1>1, <1>2 DEF Local, Opens
<1>3. CASE pc[p] = "answering"
    <2>1. PICK m \in Message : unsent[p] = <<m>> /\ m.by = p /\ ~ Opens(m, p)
        BY <1>3 DEF Local
    <2>2. Head(unsent[p]) = m
        BY <2>1
    <2>3. QED
        BY <1>1, <2>1, <2>2
<1>4. QED
    BY <1>2, <1>3

\* The calls of a step whose tools are to be run.
LEMMA AtToolsAsked ==
    ASSUME NEW p \in Prompts, Typed, Local(p), AtTools(p), NEW some
    PROVE  \E cs \in CallLists :
             /\ Asked(p) = cs /\ Request(p, step[p], cs) \in ToSet(msgs[p]) /\ Asks(p, cs)
             /\ ToSet(cs) \subseteq Calls
             /\ Results(p, some) \in Seq(Message) /\ IsInjective(Results(p, some))
             /\ ToSet(Results(p, some)) = {Result(p, step[p], c) : c \in ToSet(cs) \cap some}
<1>1. PICK cs \in CallLists : Request(p, step[p], cs) \in ToSet(msgs[p]) /\ Asks(p, cs)
    BY DEF Local
<1>2. step[p] \in 0 .. MaxSteps
    BY DEF Typed
<1>3. QED
    BY <1>1, <1>2, ResultsAnswer, CallListsHold

-----------------------------------------------------------------------------
(***************************************************************************)
(* What a step of one prompt is to the others                              *)
(***************************************************************************)
LEMMA TypedNext ==
    ASSUME LoopIInv, [Next]_vars
    PROVE  Typed'
<1> USE DEF LoopIInv
<1>1. Typed
    OBVIOUS
<1>2. ASSUME NEW p \in Prompts, Ask(p)
      PROVE  Typed'
    <2>1. buffer' \in Seq(Message)
        BY <1>1, <1>2, MessagesHold, AddedToBuffer DEF Ask, Typed
    <2>2. pc' \in [Prompts -> PCs]
        BY <1>1, <1>2, Goes DEF Ask, PCs
    <2>3. QED
        BY <1>1, <1>2, <2>1, <2>2 DEF Ask, Typed
<1>3. ASSUME NEW p \in Prompts, Load(p)
      PROVE  Typed'
    <2>1. By(p, buffer) \in Seq(Message) /\ <<Question(p)>> \in Seq(Message)
        BY <1>1, ByIsSequence, MessagesHold DEF Typed
    <2>2. \A b \in BOOLEAN : By(p, buffer) \o (IF b THEN <<>> ELSE <<Question(p)>>) \in Seq(Message)
        BY <2>1
    <2>3. PICK b \in BOOLEAN : Say(p, By(p, buffer) \o (IF b THEN <<>> ELSE <<Question(p)>>))
        BY <1>3 DEF Load
    <2>4. msgs' \in [Prompts -> Seq(Message)]
        BY <1>1, <2>2, <2>3, Says
    <2>5. pc' \in [Prompts -> PCs]
        BY <1>1, <1>3, Goes DEF Load, PCs, Looping
    <2>6. QED
        BY <1>1, <1>3, <2>4, <2>5 DEF Load, Typed
<1>4. ASSUME NEW p \in Prompts, Retry(p)
      PROVE  Typed'
    BY <1>1, <1>4, BoundsAssumption DEF Retry, Typed
<1>5. ASSUME NEW p \in Prompts, ModelFails(p)
      PROVE  Typed'
    BY <1>1, <1>5, Returns DEF ModelFails, Typed, PCs, Over
<1>6. ASSUME NEW p \in Prompts, RequestTools(p)
      PROVE  Typed'
    <2>1. PICK cs \in CallLists : /\ Say(p, <<Request(p, step[p], cs)>>)
                                  /\ AddToBuffer(Request(p, step[p], cs))
        BY <1>6 DEF RequestTools
    <2>2. Request(p, step[p], cs) \in Message
        BY <1>1, MessagesHold DEF Typed
    <2>3. buffer' \in Seq(Message)
        BY <1>1, <2>1, <2>2, AddedToBuffer DEF Typed
    <2>4. msgs' \in [Prompts -> Seq(Message)]
        BY <1>1, <2>1, <2>2, HoldingOne, Says
    <2>5. pc' \in [Prompts -> PCs]
        BY <1>1, <1>6, Goes DEF RequestTools, PCs, Looping
    <2>6. attempt' \in [Prompts -> 1 .. MaxAttempts]
        BY <1>1, <1>6, BoundsAssumption DEF RequestTools, Typed
    <2>7. QED
        BY <1>1, <1>6, <2>3, <2>4, <2>5, <2>6 DEF RequestTools, Typed
<1>7. ASSUME NEW p \in Prompts, ModelAnswers(p)
      PROVE  Typed'
    <2>1. unsent' \in [Prompts -> Seq(Message)]
        BY <1>1, <1>7, MessagesHold, HoldingOne, Keeps DEF ModelAnswers
    <2>2. pc' \in [Prompts -> PCs]
        BY <1>1, <1>7, Goes DEF ModelAnswers, PCs
    <2>3. QED
        BY <1>1, <1>7, <2>1, <2>2 DEF ModelAnswers, Typed
<1>8. ASSUME NEW p \in Prompts, FinalAnswer(p)
      PROVE  Typed'
    <2>1. PICK m \in {Answer(p)} \cup {Request(p, step[p], cs) : cs \in CallLists} :
             unsent' = [unsent EXCEPT ![p] = <<m>>]
        BY <1>8 DEF FinalAnswer
    <2>2. m \in Message
        BY <1>1, MessagesHold DEF Typed
    <2>3. unsent' \in [Prompts -> Seq(Message)]
        BY <1>1, <2>1, <2>2, HoldingOne, Keeps
    <2>4. pc' \in [Prompts -> PCs]
        BY <1>1, <1>8, Goes DEF FinalAnswer, PCs
    <2>5. QED
        BY <1>1, <1>8, <2>3, <2>4 DEF FinalAnswer, Typed
<1>9. ASSUME NEW p \in Prompts, Manage(p)
      PROVE  Typed'
    <2>1. Results(p, Intercepted) \in Seq(Message)
        BY <1>1, <1>9, AtToolsAsked DEF Manage, AtTools
    <2>2. /\ Say(p, Results(p, Intercepted))
          /\ unsent' = [unsent EXCEPT ![p] = Results(p, Intercepted)]
        BY <1>9 DEF Manage
    <2>3. msgs' \in [Prompts -> Seq(Message)] /\ unsent' \in [Prompts -> Seq(Message)]
        BY <1>1, <2>1, <2>2, Says, Keeps
    <2>4. pc' \in [Prompts -> PCs]
        BY <1>1, <1>9, Goes DEF Manage, PCs, Looping
    <2>5. QED
        BY <1>1, <1>9, <2>3, <2>4 DEF Manage, Typed
<1>10. ASSUME NEW p \in Prompts, Invoke(p)
       PROVE  Typed'
    <2>1. Results(p, Calls \ Intercepted) \in Seq(Message)
        BY <1>1, <1>10, AtToolsAsked DEF Invoke, AtTools
    <2>2. /\ Say(p, Results(p, Calls \ Intercepted))
          /\ unsent' = [unsent EXCEPT ![p] = Results(p, Calls \ Intercepted)]
        BY <1>10 DEF Invoke
    <2>3. msgs' \in [Prompts -> Seq(Message)] /\ unsent' \in [Prompts -> Seq(Message)]
        BY <1>1, <2>1, <2>2, Says, Keeps
    <2>4. pc' \in [Prompts -> PCs]
        BY <1>1, <1>10, Goes DEF Invoke, AfterTools, PCs, Looping
    <2>5. step[p] \in 0 .. MaxSteps /\ step[p] < MaxSteps
        BY <1>1, <1>10 DEF Typed, Invoke, Local
    <2>6. step[p] + 1 \in 0 .. MaxSteps
        BY <2>5, BoundsAssumption
    <2>7. step' \in [Prompts -> 0 .. MaxSteps]
        BY <1>1, <1>10, <2>6 DEF Typed, Invoke
    <2>8. QED
        BY <1>1, <1>10, <2>3, <2>4, <2>7 DEF Invoke, Typed
<1>11. ASSUME NEW p \in Prompts, InvokeFails(p)
       PROVE  Typed'
    BY <1>1, <1>11, Returns DEF InvokeFails, Typed, PCs, Over
<1>12. ASSUME NEW p \in Prompts, Push(p)
       PROVE  Typed'
    <2>1. Head(unsent[p]) \in Message /\ Tail(unsent[p]) \in Seq(Message)
        BY <1>1, <1>12, HoldingRest DEF Push, Ready, Typed
    <2>2. buffer' \in Seq(Message)
        BY <1>1, <1>12, <2>1, AddedToBuffer DEF Push, Typed
    <2>3. unsent' \in [Prompts -> Seq(Message)]
        BY <1>1, <1>12, <2>1, Keeps DEF Push
    <2>4. QED
        BY <1>1, <1>12, <2>2, <2>3 DEF Push, Typed
<1>13. ASSUME NEW p \in Prompts, Deliver(p)
       PROVE  Typed'
    <2>1. unsent[p] # <<>>
        BY <1>13 DEF Deliver, Local
    <2>2. Head(unsent[p]) \in Message /\ <<>> \in Seq(Message)
        BY <1>1, <2>1, HoldingRest DEF Typed
    <2>3. buffer' \in Seq(Message)
        BY <1>1, <1>13, <2>2, AddedToBuffer DEF Deliver, Typed
    <2>4. unsent' \in [Prompts -> Seq(Message)]
        BY <1>1, <1>13, <2>2, Keeps DEF Deliver
    <2>5. QED
        BY <1>1, <1>13, <2>3, <2>4, Returns DEF Deliver, Typed, PCs, Over
<1>14. CASE ClearBuffer
    BY <1>1, <1>14 DEF ClearBuffer, Typed
<1>15. CASE UNCHANGED vars
    BY <1>1, <1>15 DEF vars, Typed
<1>16. QED
    BY <1>2, <1>3, <1>4, <1>5, <1>6, <1>7, <1>8, <1>9, <1>10, <1>11, <1>12, <1>13,
       <1>14, <1>15 DEF Next, Respond

LEMMA OthersElsewhere ==
    ASSUME LoopIInv, NEW p \in Prompts, Ask(p) \/ Respond(p),
           NEW q \in Prompts, q # p
    PROVE  Elsewhere(q)
<1> USE DEF LoopIInv
<1>1. Typed
    OBVIOUS
<1>2. CASE Ask(p)
    <2>1. Question(p) \in Message /\ Question(p).by # q
        BY MessagesHold, Fields
    <2>2. AddToBuffer(Question(p)) /\ pc'[q] = pc[q]
        BY <1>1, <1>2, Goes DEF Ask, PCs
    <2>3. QED
        BY <1>2, <2>1, <2>2 DEF Ask, Elsewhere
<1>3. CASE Load(p)
    <2>1. msgs'[q] = msgs[q]
        BY <1>3 DEF Load, Say, Typed
    <2>2. pc'[q] = pc[q]
        BY <1>3 DEF Load, Goto, Typed
    <2>3. QED
        BY <1>3, <2>1, <2>2 DEF Load, Elsewhere
<1>4. CASE Retry(p)
    BY <1>4 DEF Retry, Elsewhere
<1>5. CASE ModelFails(p)
    BY <1>1, <1>5, Returns DEF ModelFails, PCs, Over, Elsewhere
<1>6. CASE RequestTools(p)
    <2>1. PICK cs \in CallLists : /\ Say(p, <<Request(p, step[p], cs)>>)
                                  /\ AddToBuffer(Request(p, step[p], cs))
        BY <1>6 DEF RequestTools
    <2>2. Request(p, step[p], cs) \in Message /\ Request(p, step[p], cs).by # q
        BY <1>1, MessagesHold, Fields DEF Typed
    <2>3. msgs'[q] = msgs[q]
        BY <2>1 DEF Say, Typed
    <2>4. pc'[q] = pc[q]
        BY <1>6 DEF RequestTools, Goto, Typed
    <2>5. QED
        BY <1>6, <2>1, <2>2, <2>3, <2>4 DEF RequestTools, Elsewhere
<1>7. CASE ModelAnswers(p)
    <2>1. pc'[q] = pc[q] /\ unsent'[q] = unsent[q]
        BY <1>7 DEF ModelAnswers, Goto, Typed
    <2>2. QED
        BY <1>7, <2>1 DEF ModelAnswers, Elsewhere
<1>8. CASE FinalAnswer(p)
    <2>1. pc'[q] = pc[q] /\ unsent'[q] = unsent[q]
        BY <1>8 DEF FinalAnswer, Goto, Typed
    <2>2. QED
        BY <1>8, <2>1 DEF FinalAnswer, Elsewhere
<1>9. CASE Manage(p)
    <2>1. pc'[q] = pc[q] /\ unsent'[q] = unsent[q] /\ msgs'[q] = msgs[q]
        BY <1>9 DEF Manage, Goto, Say, Typed
    <2>2. QED
        BY <1>9, <2>1 DEF Manage, Elsewhere
<1>10. CASE Invoke(p)
    <2>1. /\ pc'[q] = pc[q] /\ unsent'[q] = unsent[q] /\ msgs'[q] = msgs[q]
          /\ step'[q] = step[q]
        BY <1>10 DEF Invoke, Goto, Say, Typed
    <2>2. QED
        BY <1>10, <2>1 DEF Invoke, Elsewhere
<1>11. CASE InvokeFails(p)
    BY <1>1, <1>11, Returns DEF InvokeFails, PCs, Over, Elsewhere
<1>12. CASE Push(p)
    <2>1. Head(unsent[p]) \in Message /\ Head(unsent[p]).by # q
        BY <1>1, <1>12, UnsentAreOwn DEF Push, Ready
    <2>2. unsent'[q] = unsent[q]
        BY <1>12 DEF Push, Typed
    <2>3. QED
        BY <1>12, <2>1, <2>2 DEF Push, Elsewhere
<1>13. CASE Deliver(p)
    <2>1. unsent[p] # <<>>
        BY <1>13 DEF Deliver, Local
    <2>2. Head(unsent[p]) \in Message /\ Head(unsent[p]).by # q
        BY <1>1, <1>13, <2>1, UnsentAreOwn DEF Deliver
    <2>3. unsent'[q] = unsent[q]
        BY <1>13 DEF Deliver, Typed
    <2>4. pc'[q] = pc[q] /\ msgs'[q] = msgs[q]
        BY <1>1, <1>13, Returns DEF Deliver, PCs, Over
    <2>5. QED
        BY <1>13, <2>2, <2>3, <2>4 DEF Deliver, Elsewhere
<1>14. QED
    BY <1>2, <1>3, <1>4, <1>5, <1>6, <1>7, <1>8, <1>9, <1>10, <1>11, <1>12, <1>13
    DEF Respond

-----------------------------------------------------------------------------
(***************************************************************************)
(* What a step is to the prompt that takes it                              *)
(***************************************************************************)
LEMMA AskKeeps ==
    ASSUME LoopIInv, NEW p \in Prompts, Ask(p)
    PROVE  Local(p)' /\ Shared(p)'
<1>1. /\ Typed /\ Local(p) /\ Shared(p) /\ pc[p] = "idle"
      /\ msgs[p] = <<>> /\ unsent[p] = <<>> /\ step[p] = 0
    BY DEF LoopIInv, Ask, Local
<1>2. /\ pc'[p] = "loading" /\ msgs'[p] = <<>> /\ unsent'[p] = <<>> /\ step'[p] = 0
    BY <1>1, Goes DEF Ask, PCs
<1>3. /\ Question(p) \in Message /\ Question(p).by = p /\ ~ Opens(Question(p), p)
      /\ buffer \in Seq(Message) /\ AddToBuffer(Question(p))
      /\ \A i, c : Result(p, i, c) # Question(p)
    BY <1>1, MessagesHold, Fields DEF Typed, Ask, Opens
<1>4. Local(p)'
    BY <1>2 DEF Local, Looping, AtTools
<1>5. \A m \in ToSet(buffer') : m.by = p => m = Question(p)
    <2>1. ToSet(buffer') \subseteq ToSet(buffer) \cup {Question(p)}
        BY <1>3, AddedToBuffer
    <2>2. QED
        BY <1>1, <2>1 DEF Shared
<1>6. Ends(By(p, buffer)' \o unsent'[p], Said(p)')
    <2>1. Said(p) = <<>> \o <<>> /\ Said(p)' = <<Question(p)>> \o <<>>
        BY <1>1, <1>2, ChosenFromNothing DEF Said
    <2>2. /\ By(p, buffer) \in Seq(Message) /\ By(p, buffer') \in Seq(Message)
          /\ Ends(By(p, buffer'), By(p, buffer) \o <<Question(p)>>)
        BY <1>3, AddedBy
    <2>3. /\ <<>> \o <<>> = <<>> /\ <<Question(p)>> \in Seq(Message)
          /\ <<Question(p)>> \o <<>> = <<Question(p)>> /\ <<>> \o <<Question(p)>> = <<Question(p)>>
          /\ By(p, buffer) \o <<>> = By(p, buffer) /\ By(p, buffer') \o <<>> = By(p, buffer')
          /\ <<>> \in Seq(Message) /\ By(p, buffer) \o <<Question(p)>> \in Seq(Message)
        BY <1>3, <2>2
    <2>4. Ends(By(p, buffer), <<>>)
        BY <1>1, <2>1, <2>3 DEF Shared
    <2>5. Ends(By(p, buffer) \o <<Question(p)>>, <<>> \o <<Question(p)>>)
        BY <2>2, <2>3, <2>4, EndsWithMore
    <2>6. Ends(By(p, buffer) \o <<Question(p)>>, <<Question(p)>>)
        BY <2>3, <2>5
    <2>7. Ends(By(p, buffer'), <<Question(p)>>)
        BY <2>2, <2>3, <2>6, EndsTransitively
    <2>8. By(p, buffer)' = By(p, buffer')
        BY DEF By
    <2>9. QED
        BY <1>2, <2>1, <2>3, <2>7, <2>8
<1>7. Tidy(buffer', p, {})
    <2>1. Tidy(buffer, p, {})
        BY <1>1 DEF Shared, ToPush, Looping
    <2>2. \A i \in DOMAIN buffer : Opens(buffer[i], p) => \A c \in ToSet(buffer[i].calls) :
             LET r == Result(p, buffer[i].step, c)
             IN  IF r = Question(p) THEN r \in {} /\ r \notin {} ELSE r \in {} <=> r \in {}
        BY <1>3
    <2>3. QED
        BY <1>3, <2>1, <2>2, TidyAdded
<1>8. ToPush(p)' = {}
    BY <1>2 DEF ToPush, Looping
<1>9. QED
    BY <1>2, <1>4, <1>5, <1>6, <1>7, <1>8 DEF Shared, Looping

\* What is chosen from a sequence stands in it.
LEMMA ChosenIsThere ==
    ASSUME NEW T, NEW s \in Seq(T), NEW set
    PROVE  ToSet(Chosen(s, set)) \subseteq ToSet(s) \cap set
<1> DEFINE all == ToSet(s)
<1>1. s \in Seq(all)
    BY DEF ToSet
<1> HIDE DEF all
<1>2. Chosen(s, set) \in Seq(all \cap set)
    BY <1>1, ChosenAreElements
<1>3. ToSet(Chosen(s, set)) \subseteq all \cap set
    <2> DEFINE c == Chosen(s, set)
               both == all \cap set
    <2>1. c \in Seq(both)
        BY <1>2
    <2> HIDE DEF c, both
    <2>2. ToSet(c) \subseteq both
        BY <2>1, Holding
    <2>3. QED
        BY <2>2 DEF c, both
<1>4. QED
    BY <1>3 DEF all

\* The last element is chosen, if it is in the set.
LEMMA LastIsChosen ==
    ASSUME NEW T, NEW s \in Seq(T), s # <<>>, NEW set, Last(s) \in set
    PROVE  Len(Chosen(s, set)) > 0
<1> DEFINE n == Len(s)
           front == [i \in 1 .. n - 1 |-> s[i]]
<1>1. n \in Nat /\ n > 0 /\ \A i \in 1 .. n : s[i] \in T
    BY EmptySeq
<1>2. front \in Seq(T) /\ Len(front) = n - 1 /\ \A i \in 1 .. n - 1 : front[i] = s[i]
    <2>1. n - 1 \in Nat /\ front \in [1 .. n - 1 -> T]
        BY <1>1
    <2>2. front \in Seq(T)
        BY <2>1, SeqDef
    <2>3. DOMAIN front = 1 .. n - 1
        OBVIOUS
    <2>4. Len(front) = n - 1
        BY <2>1, <2>2, <2>3, LenProperties
    <2>5. QED
        BY <2>2, <2>4
<1> HIDE DEF front
<1>3. Last(s) = s[n] /\ s[n] \in T
    BY <1>1 DEF Last
<1>4. s = Append(front, s[n])
    <2> DEFINE t == Append(front, s[n])
    <2>1. /\ t \in Seq(T) /\ Len(t) = n /\ t[n] = s[n]
          /\ \A i \in 1 .. n - 1 : t[i] = s[i]
        BY <1>1, <1>2, <1>3, AppendProperties
    <2> HIDE DEF t
    <2>2. \A i \in 1 .. n : t[i] = s[i]
        BY <1>1, <2>1
    <2>3. s = t
        BY <2>1, <2>2, SeqEqual
    <2>4. QED
        BY <2>3 DEF t
<1>5. Chosen(Append(front, s[n]), set) = Append(Chosen(front, set), s[n])
    BY <1>2, <1>3, ChosenFromMore
<1>6. Chosen(front, set) \in Seq(T)
    BY <1>2, ChosenAreElements
<1>7. Len(Append(Chosen(front, set), s[n])) = Len(Chosen(front, set)) + 1
    BY <1>3, <1>6, AppendProperties
<1>8. Len(Chosen(front, set)) \in Nat
    BY <1>6
<1>9. Chosen(s, set) = Append(Chosen(front, set), s[n])
    <2>1. ASSUME NEW t, t = Append(front, s[n])
          PROVE  Chosen(t, set) = Append(Chosen(front, set), s[n])
        BY <1>5, <2>1
    <2>2. QED
        BY <1>4, <2>1
<1> DEFINE chosen == Chosen(s, set)
           before == Chosen(front, set)
<1>10. chosen = Append(before, s[n])
    BY <1>9
<1> HIDE DEF chosen, before
<1>11. Len(before) \in Nat /\ Len(chosen) = Len(before) + 1
    BY <1>7, <1>8, <1>10 DEF before
<1>12. Len(chosen) > 0
    BY <1>11
<1>13. QED
    BY <1>12 DEF chosen

LEMMA LoadKeeps ==
    ASSUME LoopIInv, NEW p \in Prompts, Load(p)
    PROVE  Local(p)' /\ Shared(p)'
<1> DEFINE history == By(p, buffer)
           Q == Question(p)
<1>1. /\ Typed /\ Local(p) /\ Shared(p) /\ pc[p] = "loading"
      /\ msgs[p] = <<>> /\ unsent[p] = <<>> /\ step[p] = 0
    BY DEF LoopIInv, Load, Local
<1>2. PICK systemAdded \in BOOLEAN :
        LET isLast == /\ ~ systemAdded /\ buffer # <<>> /\ Last(buffer) = Q
        IN  Say(p, history \o IF isLast THEN <<>> ELSE <<Q>>)
    BY DEF Load
<1> DEFINE isLast == /\ ~ systemAdded /\ buffer # <<>> /\ Last(buffer) = Q
           added == IF isLast THEN <<>> ELSE <<Q>>
<1>3. /\ Q \in Message /\ Q.by = p /\ Q.is = "question" /\ ~ Opens(Q, p)
      /\ buffer \in Seq(Message) /\ history \in Seq(Message)
      /\ <<Q>> \in Seq(Message) /\ added \in Seq(Message)
    BY <1>1, MessagesHold, Fields, ByIsSequence DEF Typed, Opens
<1>4. ToSet(history) \subseteq {Q}
    <2>1. ToSet(history) \subseteq ToSet(buffer) \cap {m \in Message : m.by = p}
        BY <1>3, ChosenIsThere DEF By
    <2>2. \A m \in ToSet(buffer) : m.by = p => m = Q
        BY <1>1 DEF Shared
    <2>3. QED
        BY <2>1, <2>2
<1>5. isLast => Len(history) > 0
    BY <1>3, LastIsChosen DEF By
<1> DEFINE new == history \o added
<1>6. new \in Seq(Message) /\ ToSet(new) = {Q}
    <2>1. new \in Seq(Message) /\ ToSet(new) = ToSet(history) \cup ToSet(added)
        <3> HIDE DEF history, added
        <3>1. QED
            BY <1>3, Holding
    <2>2. CASE isLast
        <3>1. history \o <<>> = history /\ added = <<>>
            BY <1>3, <2>2
        <3>2. Len(history) \in Nat /\ ToSet(history) # {}
            <4>1. 1 \in DOMAIN history
                BY <1>3, <1>5, <2>2
            <4>2. QED
                BY <1>3, <4>1 DEF ToSet
        <3>3. QED
            BY <1>4, <2>1, <3>1, <3>2
    <2>3. CASE ~ isLast
        <3>1. ToSet(added) = {Q}
            BY <1>3, <2>3, HoldingOne
        <3>2. QED
            BY <1>4, <2>1, <3>1
    <2>4. QED
        BY <2>2, <2>3
<1>7. msgs'[p] = <<>> \o new
    BY <1>1, <1>2, <1>6, Says
<1> HIDE DEF new, added, isLast
<1>8. msgs'[p] = new
    BY <1>6, <1>7
<1>9. /\ pc'[p] = "generating" /\ unsent'[p] = <<>> /\ step'[p] = 0 /\ buffer' = buffer
    BY <1>1, Goes DEF Load, PCs, Looping
<1>10. ToGet(p)' = {} /\ ToPush(p)' = {}
    <2>1. ToSet(<<>>) = {}
        BY DEF ToSet
    <2>2. QED
        BY <1>9, <2>1 DEF ToGet, ToPush
<1>11. Local(p)'
    <2>1. \A m \in ToSet(msgs'[p]) : m = Q
        BY <1>6, <1>8
    <2>2. Tidy(msgs'[p], p, {})
        <3>1. \A i \in DOMAIN msgs'[p] : ~ Opens(msgs'[p][i], p)
            BY <1>3, <2>1 DEF ToSet
        <3>2. QED
            BY <3>1 DEF Tidy
    <2>3. IsInjective(<<>>) /\ ToSet(<<>>) = {}
        BY DEF IsInjective, ToSet
    <2>4. 0 < MaxSteps
        BY BoundsAssumption
    <2>5. QED
        BY <1>3, <1>6, <1>8, <1>9, <1>10, <2>1, <2>2, <2>3, <2>4 DEF Local, Looping, AtTools
<1>12. Shared(p)'
    <2> DEFINE others == {m \in Message : m.is # "question"}
    <2>1. Chosen(new, others) = <<>>
        <3> DEFINE c == Chosen(new, others)
        <3>1. c \in Seq(Message) /\ ToSet(c) \subseteq ToSet(new) \cap others
            BY <1>6, ChosenIsThere, ChosenAreElements
        <3> HIDE DEF c
        <3>2. ToSet(c) = {}
            BY <1>3, <1>6, <3>1
        <3>3. c = <<>>
            <4>1. SUFFICES ASSUME c # <<>>
                           PROVE  FALSE
                OBVIOUS
            <4>2. Head(c) \in ToSet(c)
                BY <3>1, <4>1, HoldingRest
            <4>3. QED
                BY <3>2, <4>2
        <3>4. QED
            BY <3>3 DEF c
    <2>2. Said(p)' = <<Q>> \o <<>> /\ Said(p) = <<Q>> \o <<>>
        BY <1>1, <1>8, <1>9, <2>1, ChosenFromNothing DEF Said
    <2>3. By(p, buffer)' = By(p, buffer)
        BY <1>9 DEF By
    <2>4. Ends(By(p, buffer) \o <<>>, <<Q>> \o <<>>)
        BY <1>1, <2>2 DEF Shared
    <2>5. ToPush(p) = {}
        BY <1>1 DEF ToPush, Looping
    <2>6. Tidy(buffer, p, {}) /\ \A m \in ToSet(buffer) : m.by = p => m = Q
        BY <1>1, <2>5 DEF Shared
    <2>7. QED
        BY <1>9, <1>10, <2>2, <2>3, <2>4, <2>6 DEF Shared
<1>13. QED
    BY <1>11, <1>12

\* The prompt fails, whatever the buffer holds of it.
LEMMA FailureKeeps ==
    ASSUME LoopIInv, NEW p \in Prompts, ModelFails(p) \/ InvokeFails(p)
    PROVE  Local(p)' /\ Shared(p)'
<1>1. pc'[p] = "failed"
    BY Returns DEF LoopIInv, ModelFails, InvokeFails, PCs, Over
<1>2. QED
    BY <1>1 DEF Local, Shared, Looping, AtTools

\* A request of p that stands in the buffer stands in the conversation too.
LEMMA OpenOnesAreSaid ==
    ASSUME NEW p \in Prompts, Shared(p), pc[p] \in Looping
    PROVE  \A i \in DOMAIN buffer : Opens(buffer[i], p) => buffer[i] \in ToSet(msgs[p])
<1>1. ASSUME NEW i \in DOMAIN buffer, Opens(buffer[i], p)
      PROVE  buffer[i] \in ToSet(msgs[p])
    <2>1. buffer[i] \in ToSet(buffer) /\ buffer[i].by = p /\ buffer[i] # Question(p)
        BY <1>1, Fields DEF ToSet, Opens
    <2>2. QED
        BY <2>1 DEF Shared
<1>2. QED
    BY <1>1

\* All that is said once the question is in, the question first.
LEMMA SaidMore ==
    ASSUME Typed, NEW p \in Prompts, NEW u \in Seq(Message),
           msgs'[p] = msgs[p] \o u, \A i \in 1 .. Len(u) : u[i].is # "question",
           pc[p] # "idle", pc'[p] # "idle"
    PROVE  Said(p)' = Said(p) \o u
<1> DEFINE others == {m \in Message : m.is # "question"}
           Q == <<Question(p)>>
           old == Chosen(msgs[p], others)
<1>1. msgs[p] \in Seq(Message) /\ \A i \in 1 .. Len(u) : u[i] \in others
    BY DEF Typed
<1>2. old \in Seq(Message) /\ Q \in Seq(Message)
    BY <1>1, ChosenAreElements, MessagesHold
<1> HIDE DEF others
<1>3. Chosen(msgs[p] \o u, others) = old \o u
    BY <1>1, ChosenFromAll
<1>4. Said(p) = Q \o old /\ Said(p)' = Q \o Chosen(msgs[p] \o u, others)
    BY DEF Said, others
<1> HIDE DEF old, Q
<1>5. Q \o (old \o u) = (Q \o old) \o u
    BY <1>2, ConcatAssociative
<1>6. QED
    BY <1>3, <1>4, <1>5

LEMMA RetryKeeps ==
    ASSUME LoopIInv, NEW p \in Prompts, Retry(p)
    PROVE  Local(p)' /\ Shared(p)'
<1>1. Elsewhere(p) /\ Typed /\ Local(p) /\ Shared(p)
    BY DEF LoopIInv, Retry, Elsewhere
<1>2. QED
    BY <1>1, LocalElsewhere, SharedElsewhere

LEMMA RequestToolsKeeps ==
    ASSUME LoopIInv, NEW p \in Prompts, RequestTools(p)
    PROVE  Local(p)' /\ Shared(p)'
<1>1. /\ Typed /\ Local(p) /\ Shared(p) /\ pc[p] = "generating" /\ unsent[p] = <<>>
      /\ pc[p] \in Looping
    BY DEF LoopIInv, RequestTools, Ready, Looping
<1>2. PICK cs \in CallLists : /\ Say(p, <<Request(p, step[p], cs)>>)
                              /\ AddToBuffer(Request(p, step[p], cs))
    BY DEF RequestTools
<1> DEFINE m == Request(p, step[p], cs)
           u == <<m>>
           due == {Result(p, step[p], c) : c \in Calls}
           none == {}
<1>3. /\ m \in Message /\ m.is = "request" /\ m.by = p /\ m.step = step[p] /\ m.calls = cs
      /\ \A i, c : Result(p, i, c) # m
      /\ m # Question(p)
      /\ step[p] \in 0 .. MaxSteps /\ ToSet(cs) \subseteq Calls
      /\ buffer \in Seq(Message) /\ msgs[p] \in Seq(Message)
    BY <1>1, MessagesHold, Fields, CallListsHold DEF Typed
<1>4. u \in Seq(Message) /\ ToSet(u) = {m} /\ IsInjective(u) /\ Len(u) = 1 /\ u[1] = m
    BY <1>3, HoldingOne DEF IsInjective
<1>5. msgs'[p] = msgs[p] \o u
    BY <1>1, <1>2, <1>4, Says
<1>6. /\ pc'[p] = "managing" /\ unsent'[p] = <<>> /\ step'[p] = step[p]
      /\ AddToBuffer(m)
    BY <1>1, <1>2, Goes DEF RequestTools, PCs, Looping
<1>7. ToSet(msgs'[p]) = ToSet(msgs[p]) \cup {m}
    <2> HIDE DEF m, u
    <2>1. ToSet(msgs[p] \o u) = ToSet(msgs[p]) \cup ToSet(u)
        BY <1>3, <1>4, Holding
    <2>2. QED
        BY <1>4, <1>5, <2>1
<1>8. \A n \in ToSet(msgs[p]) : /\ n.by = p
                                /\ n.is \in {"request", "result"} => n.step < step[p]
    BY <1>1 DEF Local, AtTools
<1>9. ToSet(<<>>) = {} /\ IsInjective(<<>>)
    BY DEF ToSet, IsInjective
<1>10. ToGet(p) = none /\ ToPush(p) = none /\ ToGet(p)' = due /\ ToPush(p)' = due
    BY <1>1, <1>6, <1>9 DEF ToGet, ToPush, Looping
<1>11. \A n \in ToSet(msgs[p]) : Opens(n, p) => \A c : Result(p, n.step, c) \notin due
    <2>1. ASSUME NEW n \in ToSet(msgs[p]), Opens(n, p), NEW c, NEW d \in Calls,
                 Result(p, n.step, c) = Result(p, step[p], d)
          PROVE  FALSE
        <3>1. n.step < step[p]
            BY <1>8, <2>1 DEF Opens
        <3>2. n.step = step[p]
            BY <2>1, Fields
        <3>3. QED
            BY <1>3, <3>1, <3>2
    <2>2. QED
        BY <2>1
<1>12. \A c \in ToSet(m.calls) : Result(p, m.step, c) \in due
    BY <1>3
<1>12a. \A r : r \notin none
    OBVIOUS
<1>12b. \A n \in ToSet(u) : Opens(n, p) =>
             u = <<n>> /\ \A c \in ToSet(n.calls) : Result(p, n.step, c) \in due
    BY <1>4, <1>12
<1> HIDE DEF m, u, due, none
<1>13. Tidy(msgs'[p], p, due)
    <2>1. Tidy(msgs[p], p, none)
        BY <1>1, <1>10 DEF Local
    <2>2. ASSUME NEW i \in DOMAIN msgs[p], Opens(msgs[p][i], p), NEW c, NEW r,
                 r = Result(p, msgs[p][i].step, c)
          PROVE  r \notin ToSet(u) /\ r \notin due
        <3>1. msgs[p][i] \in ToSet(msgs[p])
            BY DEF ToSet
        <3>2. r \notin due
            BY <1>11, <2>2, <3>1
        <3>3. r # m
            BY <1>3, <2>2
        <3>4. QED
            BY <1>4, <3>2, <3>3
    <2>3. \A i \in DOMAIN msgs[p] : Opens(msgs[p][i], p) => \A c \in ToSet(msgs[p][i].calls) :
             LET r == Result(p, msgs[p][i].step, c)
             IN  IF r \in ToSet(u) THEN r \in none /\ r \notin due ELSE r \in none <=> r \in due
        BY <1>12a, <2>2
    <2>4. Tidy(msgs[p] \o u, p, due)
        <3>1. msgs[p] \in Seq(Message) /\ u \in Seq(Message) /\ IsInjective(u)
            BY <1>3, <1>4
        <3>2. QED
            BY <1>12b, <2>1, <2>3, <3>1, TidyMore
    <2>5. QED
        BY <1>5, <2>4
<1>14. Tidy(buffer', p, due)
    <2>1. Tidy(buffer, p, none)
        BY <1>1, <1>10 DEF Shared
    <2>2. \A i \in DOMAIN buffer : Opens(buffer[i], p) => \A c \in ToSet(buffer[i].calls) :
             LET r == Result(p, buffer[i].step, c)
             IN  IF r = m THEN r \in none /\ r \notin due ELSE r \in none <=> r \in due
        BY <1>1, <1>3, <1>11, <1>12a, OpenOnesAreSaid
    <2>3. QED
        <3>1. m \in Message /\ buffer \in Seq(Message) /\ AddToBuffer(m)
            BY <1>3, <1>6
        <3>2. QED
            BY <1>12, <2>1, <2>2, <3>1, TidyAdded
<1>15. Asks(p, cs)'
    <2>1. ASSUME NEW n \in ToSet(msgs[p]) \cup {m}
          PROVE  n.is = "request" /\ n.step = step[p] <=> n = m
        <3>1. CASE n = m
            BY <1>3, <3>1
        <3>2. CASE n \in ToSet(msgs[p])
            <4>1. ~ (n.is = "request" /\ n.step = step[p])
                BY <1>3, <1>8, <3>2
            <4>2. QED
                BY <1>3, <4>1
        <3>3. QED
            BY <2>1, <3>1, <3>2
    <2>2. QED
        BY <1>6, <1>7, <2>1 DEF Asks, m
<1>16. Local(p)'
    <2>1. step[p] < MaxSteps /\ Question(p) \in ToSet(msgs[p])
        BY <1>1 DEF Local
    <2>2. \A n \in ToSet(msgs'[p]) :
              /\ n.by = p
              /\ n.is \in {"request", "result"} =>
                   n.step < step'[p] \/ (n.step = step'[p] /\ AtTools(p)')
        BY <1>3, <1>6, <1>7, <1>8 DEF AtTools
    <2>3. Request(p, step'[p], cs) \in ToSet(msgs'[p])
        BY <1>6, <1>7 DEF m
    <2>4. QED
        BY <1>6, <1>7, <1>9, <1>10, <1>13, <1>15, <2>1, <2>2, <2>3 DEF Local, Looping
<1>17. Ends(By(p, buffer)' \o unsent'[p], Said(p)')
    <2>1. Said(p)' = Said(p) \o u
        <3>1. \A i \in 1 .. Len(u) : u[i].is # "question"
            BY <1>3, <1>4
        <3>2. pc[p] # "idle" /\ pc'[p] # "idle"
            BY <1>1, <1>6
        <3>3. QED
            BY <1>1, <1>4, <1>5, <3>1, <3>2, SaidMore
    <2>2. /\ By(p, buffer) \in Seq(Message) /\ By(p, buffer') \in Seq(Message)
          /\ Ends(By(p, buffer'), By(p, buffer) \o u)
        BY <1>3, <1>6, AddedBy DEF u
    <2>3. By(p, buffer) \o <<>> = By(p, buffer) /\ By(p, buffer') \o <<>> = By(p, buffer')
        BY <2>2
    <2>4. Ends(By(p, buffer), Said(p)) /\ Said(p) \in Seq(Message)
        BY <1>1, <2>3, SaidIsSequence DEF Shared
    <2>5. Ends(By(p, buffer) \o u, Said(p) \o u)
        BY <1>4, <2>2, <2>4, EndsWithMore
    <2>6. By(p, buffer) \o u \in Seq(Message) /\ Said(p) \o u \in Seq(Message)
        BY <1>4, <2>2, <2>4
    <2>7. Ends(By(p, buffer'), Said(p) \o u)
        BY <2>2, <2>5, <2>6, EndsTransitively
    <2>8. By(p, buffer)' = By(p, buffer')
        BY DEF By
    <2>9. QED
        BY <1>6, <2>1, <2>3, <2>7, <2>8
<1>18. Shared(p)'
    <2>1. ToSet(buffer') \subseteq ToSet(buffer) \cup {m}
        BY <1>3, <1>6, AddedToBuffer
    <2>2. \A n \in ToSet(buffer') : n.by = p => n = Question(p) \/ n \in ToSet(msgs'[p])
        BY <1>1, <1>7, <2>1 DEF Shared
    <2>3. QED
        BY <1>6, <1>10, <1>14, <1>17, <2>2 DEF Shared, Looping
<1>19. QED
    BY <1>16, <1>18

\* The last message of a prompt is on its way to the buffer.
LEMMA LastMessageKeeps ==
    ASSUME LoopIInv, NEW p \in Prompts, NEW m \in Message, m.by = p,
           m.is \in {"answer", "request"}, ~ Opens(m, p),
           pc[p] \in {"generating", "finishing"}, Ready(p),
           unsent' = [unsent EXCEPT ![p] = <<m>>], Goto(p, "answering"),
           UNCHANGED <<buffer, msgs, step, attempt>>
    PROVE  Local(p)' /\ Shared(p)'
<1>1. /\ Typed /\ Local(p) /\ Shared(p) /\ unsent[p] = <<>>
    BY DEF LoopIInv, Ready
<1>2. pc'[p] = "answering" /\ unsent'[p] = <<m>> /\ buffer' = buffer
    BY <1>1, Goes, HoldingOne, Keeps DEF PCs
<1>3. Local(p)'
    BY <1>2 DEF Local, Looping, AtTools
<1>4. ToPush(p) = {} /\ ToPush(p)' = {}
    <2>1. ToSet(<<>>) = {}
        BY DEF ToSet
    <2>2. QED
        BY <1>1, <1>2, <2>1 DEF ToPush, ToGet, Looping
<1>5. Tidy(buffer', p, {})
    BY <1>1, <1>2, <1>4 DEF Shared
<1>6. QED
    BY <1>2, <1>3, <1>4, <1>5 DEF Shared, Looping

LEMMA AnswersKeep ==
    ASSUME LoopIInv, NEW p \in Prompts, ModelAnswers(p) \/ FinalAnswer(p)
    PROVE  Local(p)' /\ Shared(p)'
<1>1. Answer(p) \in Message /\ Answer(p).by = p /\ Answer(p).is = "answer" /\ ~ Opens(Answer(p), p)
    BY MessagesHold, Fields DEF Opens
<1>2. CASE ModelAnswers(p)
    BY <1>1, <1>2, LastMessageKeeps DEF ModelAnswers
<1>3. CASE FinalAnswer(p)
    <2>1. step[p] = MaxSteps /\ step[p] \in 0 .. MaxSteps
        BY <1>3 DEF FinalAnswer, LoopIInv, Local, Typed
    <2>2. PICK m \in {Answer(p)} \cup {Request(p, step[p], cs) : cs \in CallLists} :
             unsent' = [unsent EXCEPT ![p] = <<m>>]
        BY <1>3 DEF FinalAnswer
    <2>3. m \in Message /\ m.by = p /\ m.is \in {"answer", "request"} /\ ~ Opens(m, p)
        <3>1. CASE m = Answer(p)
            BY <1>1, <3>1
        <3>2. ASSUME NEW cs \in CallLists, m = Request(p, step[p], cs)
              PROVE  m \in Message /\ m.by = p /\ m.is \in {"answer", "request"} /\ ~ Opens(m, p)
            BY <2>1, <3>2, BoundsAssumption, MessagesHold, Fields DEF Opens
        <3>3. QED
            BY <2>2, <3>1, <3>2
    <2>4. QED
        BY <1>3, <2>2, <2>3, LastMessageKeeps DEF FinalAnswer
<1>4. QED
    BY <1>2, <1>3

LEMMA DeliverKeeps ==
    ASSUME LoopIInv, NEW p \in Prompts, Deliver(p)
    PROVE  Local(p)' /\ Shared(p)'
<1>1. Typed /\ Local(p) /\ Shared(p) /\ pc[p] = "answering"
    BY DEF LoopIInv, Deliver
<1>2. PICK m \in Message : unsent[p] = <<m>> /\ m.by = p /\ m.is \in {"answer", "request"} /\ ~ Opens(m, p)
    BY <1>1 DEF Local
<1>3. AddToBuffer(m) /\ pc'[p] = "answered" /\ \A i, c : Result(p, i, c) # m
    BY <1>1, <1>2, Returns, Fields DEF Deliver, PCs, Over
<1>4. ToPush(p) = {} /\ ToPush(p)' = {}
    BY <1>1, <1>3 DEF ToPush, Looping
<1>5. Tidy(buffer', p, {})
    <2>1. Tidy(buffer, p, {}) /\ buffer \in Seq(Message)
        BY <1>1, <1>4 DEF Shared, Typed
    <2>2. \A i \in DOMAIN buffer : Opens(buffer[i], p) => \A c \in ToSet(buffer[i].calls) :
             LET r == Result(p, buffer[i].step, c)
             IN  IF r = m THEN r \in {} /\ r \notin {} ELSE r \in {} <=> r \in {}
        BY <1>3
    <2>3. QED
        BY <1>2, <1>3, <2>1, <2>2, TidyAdded
<1>6. Local(p)'
    BY <1>3 DEF Local, Looping, AtTools
<1>7. QED
    BY <1>3, <1>4, <1>5, <1>6 DEF Shared, Looping

\* Results come in that were pending.
LEMMA ResultsComeIn ==
    ASSUME NEW s \in Seq(Message), NEW p, NEW old, NEW new, Tidy(s, p, old),
           NEW u \in Seq(Message), IsInjective(u), \A m \in ToSet(u) : m.is = "result",
           \A n \in ToSet(s) : Opens(n, p) => \A c \in ToSet(n.calls) :
             LET r == Result(p, n.step, c)
             IN  IF r \in ToSet(u) THEN r \in old /\ r \notin new ELSE r \in old <=> r \in new
    PROVE  Tidy(s \o u, p, new)
<1>1. \A i \in DOMAIN s : Opens(s[i], p) => \A c \in ToSet(s[i].calls) :
        LET r == Result(p, s[i].step, c)
        IN  IF r \in ToSet(u) THEN r \in old /\ r \notin new ELSE r \in old <=> r \in new
    <2>1. \A i \in DOMAIN s : s[i] \in ToSet(s)
        BY DEF ToSet
    <2>2. QED
        BY <2>1
<1>2. \A m \in ToSet(u) : ~ Opens(m, p)
    BY DEF Opens
<1>3. QED
    BY <1>1, <1>2, TidyMore

\* Of the calls that are left the results of some come in.
ToolsGive(p, left, some, u, rest) ==
    /\ left \subseteq Calls /\ some \subseteq left
    /\ ToGet(p) = {Result(p, step[p], c) : c \in left}
    /\ rest = {Result(p, step[p], c) : c \in left \ some}
    /\ u = Results(p, some)
    /\ msgs'[p] = msgs[p] \o u /\ pc'[p] # "idle"

LEMMA ToolsRun ==
    ASSUME Typed, NEW p \in Prompts, Local(p), Shared(p), AtTools(p), unsent[p] = <<>>,
           NEW left, NEW some, NEW u, NEW rest, ToolsGive(p, left, some, u, rest)
    PROVE  /\ u \in Seq(Message) /\ IsInjective(u)
           /\ ToSet(msgs'[p]) = ToSet(msgs[p]) \cup ToSet(u)
           /\ \A m \in ToSet(u) : m.is = "result" /\ m.by = p /\ m.step = step[p]
           /\ ToSet(u) \cap rest = {}
           /\ Tidy(msgs'[p], p, rest)
           /\ Tidy(buffer, p, rest \cup ToSet(u))
           /\ Ends(By(p, buffer) \o u, Said(p)')
<1>1. PICK cs \in CallLists :
        /\ Request(p, step[p], cs) \in ToSet(msgs[p]) /\ Asks(p, cs)
        /\ u \in Seq(Message) /\ IsInjective(u)
        /\ ToSet(u) = {Result(p, step[p], c) : c \in ToSet(cs) \cap some}
    BY AtToolsAsked DEF ToolsGive
<1>2. /\ msgs[p] \in Seq(Message) /\ buffer \in Seq(Message)
      /\ pc[p] \in Looping /\ pc[p] # "idle"
    BY DEF Typed, AtTools, Looping
<1>3. msgs'[p] = msgs[p] \o u /\ ToSet(msgs'[p]) = ToSet(msgs[p]) \cup ToSet(u)
    BY <1>1, <1>2, Holding DEF ToolsGive
<1>4. \A m \in ToSet(u) : m.is = "result" /\ m.by = p /\ m.step = step[p]
    BY <1>1, Fields
<1>5. \A i, c, j, d : Result(p, i, c) = Result(p, j, d) => i = j /\ c = d
    BY Fields
<1>6. ToSet(u) \cap rest = {}
    BY <1>1, <1>5 DEF ToolsGive
<1>7. ASSUME NEW n \in ToSet(msgs[p]), Opens(n, p), NEW c \in ToSet(n.calls),
             NEW r, r = Result(p, n.step, c)
      PROVE  /\ r \in ToSet(u) <=> n.step = step[p] /\ c \in some
             /\ r \in ToGet(p) <=> n.step = step[p] /\ c \in left
             /\ r \in rest <=> n.step = step[p] /\ c \in left \ some
    <2>1. n.step = step[p] => c \in ToSet(cs)
        <3>1. n.step = step[p] => n = Request(p, step[p], cs)
            BY <1>1, <1>7 DEF Asks, Opens
        <3>2. Request(p, step[p], cs).calls = cs
            BY Fields
        <3>3. QED
            BY <1>7, <3>1, <3>2
    <2>2. r \in ToSet(u) <=> n.step = step[p] /\ c \in some
        BY <1>1, <1>5, <1>7, <2>1
    <2>3. r \in ToGet(p) <=> n.step = step[p] /\ c \in left
        BY <1>5, <1>7 DEF ToolsGive
    <2>4. r \in rest <=> n.step = step[p] /\ c \in left \ some
        BY <1>5, <1>7 DEF ToolsGive
    <2>5. QED
        BY <2>2, <2>3, <2>4
<1>8. Tidy(msgs'[p], p, rest)
    <2>1. Tidy(msgs[p], p, ToGet(p))
        BY <1>2 DEF Local
    <2>2. \A n \in ToSet(msgs[p]) : Opens(n, p) => \A c \in ToSet(n.calls) :
             LET r == Result(p, n.step, c)
             IN  IF r \in ToSet(u) THEN r \in ToGet(p) /\ r \notin rest
                 ELSE r \in ToGet(p) <=> r \in rest
        <3>1. some \subseteq left
            BY DEF ToolsGive
        <3>2. QED
            BY <1>7, <3>1
    <2>3. u \in Seq(Message) /\ IsInjective(u) /\ \A m \in ToSet(u) : m.is = "result"
        BY <1>1, <1>4
    <2>4. QED
        BY <1>2, <1>3, <2>1, <2>2, <2>3, ResultsComeIn
<1>9. Tidy(buffer, p, rest \cup ToSet(u))
    <2>1. ToPush(p) = ToGet(p)
        <3>1. ToSet(<<>>) = {}
            BY DEF ToSet
        <3>2. QED
            BY <1>2, <3>1 DEF ToPush
    <2>2. Tidy(buffer, p, ToGet(p))
        BY <1>2, <2>1 DEF Shared, Looping
    <2> DEFINE new == rest \cup ToSet(u)
    <2>3. ASSUME NEW i \in DOMAIN buffer, Opens(buffer[i], p), NEW c \in ToSet(buffer[i].calls)
          PROVE  Result(p, buffer[i].step, c) \in ToGet(p) <=> Result(p, buffer[i].step, c) \in new
        <3>1. buffer[i] \in ToSet(msgs[p])
            BY <1>2, <2>3, OpenOnesAreSaid
        <3>2. some \subseteq left
            BY DEF ToolsGive
        <3>3. QED
            BY <1>7, <2>3, <3>1, <3>2
    <2> HIDE DEF new
    <2>4. Tidy(buffer, p, new)
        BY <2>2, <2>3, TidyAlike
    <2>5. QED
        BY <2>4 DEF new
<1>10. Ends(By(p, buffer) \o u, Said(p)')
    <2>1. \A i \in 1 .. Len(u) : u[i].is # "question"
        <3>1. \A i \in 1 .. Len(u) : u[i] \in ToSet(u)
            BY <1>1 DEF ToSet
        <3>2. QED
            BY <1>4, <3>1
    <2>2. u \in Seq(Message)
        BY <1>1
    <2>3. Said(p)' = Said(p) \o u
        BY <1>2, <1>3, <2>1, <2>2, SaidMore DEF ToolsGive
    <2>4. By(p, buffer) \in Seq(Message) /\ Said(p) \in Seq(Message)
        BY <1>2, ByIsSequence, SaidIsSequence
    <2>5. By(p, buffer) \o <<>> = By(p, buffer)
        BY <2>4
    <2>6. Ends(By(p, buffer), Said(p))
        BY <1>2, <2>5 DEF Shared
    <2>7. Ends(By(p, buffer) \o u, Said(p) \o u)
        BY <2>2, <2>4, <2>6, EndsWithMore
    <2>8. QED
        BY <2>3, <2>7
<1>11. QED
    BY <1>1, <1>3, <1>4, <1>6, <1>8, <1>9, <1>10

LEMMA ManageKeeps ==
    ASSUME LoopIInv, NEW p \in Prompts, Manage(p)
    PROVE  Local(p)' /\ Shared(p)'
<1> DEFINE u == Results(p, Intercepted)
           rest == {Result(p, step[p], c) : c \in Calls \ Intercepted}
<1>1. /\ Typed /\ Local(p) /\ Shared(p) /\ pc[p] = "managing" /\ unsent[p] = <<>> /\ AtTools(p)
      /\ pc[p] \in Looping
    BY DEF LoopIInv, Manage, Local, AtTools, Looping
<1>2. u \in Seq(Message)
    BY <1>1, AtToolsAsked
<1>3. /\ msgs'[p] = msgs[p] \o u /\ unsent'[p] = u
      /\ pc'[p] = "invoking" /\ step'[p] = step[p] /\ buffer' = buffer
    <2>1. /\ Say(p, u) /\ unsent' = [unsent EXCEPT ![p] = u] /\ Goto(p, "invoking")
          /\ step' = step /\ buffer' = buffer
        BY DEF Manage
    <2> HIDE DEF u
    <2>2. QED
        BY <1>1, <1>2, <2>1, Says, Keeps, Goes DEF PCs, Looping
<1>4. ToolsGive(p, Calls, Intercepted, u, rest)
    <2>1. ToGet(p) = {Result(p, step[p], c) : c \in Calls}
        BY <1>1 DEF ToGet
    <2>2. QED
        BY <1>3, <2>1, InterceptedAssumption DEF ToolsGive
<1>5. /\ IsInjective(u)
      /\ ToSet(msgs'[p]) = ToSet(msgs[p]) \cup ToSet(u)
      /\ \A m \in ToSet(u) : m.is = "result" /\ m.by = p /\ m.step = step[p]
      /\ ToSet(u) \cap rest = {}
      /\ Tidy(msgs'[p], p, rest)
      /\ Tidy(buffer, p, rest \cup ToSet(u))
      /\ Ends(By(p, buffer) \o u, Said(p)')
    <2> HIDE DEF u, rest
    <2>1. QED
        BY <1>1, <1>4, ToolsRun
<1> HIDE DEF u
<1>6. ToGet(p)' = rest /\ ToPush(p)' = rest \cup ToSet(u)
    BY <1>3 DEF ToGet, ToPush, Looping
<1> HIDE DEF rest
<1>7. PICK cs \in CallLists : Request(p, step[p], cs) \in ToSet(msgs[p]) /\ Asks(p, cs)
    BY <1>1 DEF Local
<1>8. Asks(p, cs)'
    <2>1. ASSUME NEW m \in ToSet(msgs[p]) \cup ToSet(u)
          PROVE  m.is = "request" /\ m.step = step[p] <=> m = Request(p, step[p], cs)
        BY <1>5, <1>7, Fields DEF Asks
    <2>2. QED
        BY <1>3, <1>5, <2>1 DEF Asks
<1>9. Local(p)'
    <2>1. step[p] < MaxSteps /\ Question(p) \in ToSet(msgs[p])
        BY <1>1 DEF Local
    <2>2. \A m \in ToSet(msgs'[p]) :
              /\ m.by = p
              /\ m.is \in {"request", "result"} =>
                   m.step < step'[p] \/ (m.step = step'[p] /\ AtTools(p)')
        BY <1>1, <1>3, <1>5 DEF Local, AtTools
    <2>3. QED
        BY <1>3, <1>5, <1>6, <1>7, <1>8, <2>1, <2>2 DEF Local, Looping
<1>10. Shared(p)'
    <2>1. \A m \in ToSet(buffer') : m.by = p => m = Question(p) \/ m \in ToSet(msgs'[p])
        BY <1>1, <1>3, <1>5 DEF Shared
    <2>2. By(p, buffer)' = By(p, buffer)
        BY <1>3 DEF By
    <2>3. Ends(By(p, buffer)' \o unsent'[p], Said(p)')
        BY <1>3, <1>5, <2>2
    <2>4. Tidy(buffer', p, ToPush(p)')
        BY <1>3, <1>5, <1>6
    <2>5. QED
        BY <1>3, <2>1, <2>3, <2>4 DEF Shared, Looping
<1>11. QED
    BY <1>9, <1>10

LEMMA InvokeKeeps ==
    ASSUME LoopIInv, NEW p \in Prompts, Invoke(p)
    PROVE  Local(p)' /\ Shared(p)'
<1> DEFINE own == Calls \ Intercepted
           u == Results(p, own)
           none == {Result(p, step[p], c) : c \in own \ own}
<1>1. /\ Typed /\ Local(p) /\ Shared(p) /\ pc[p] = "invoking" /\ unsent[p] = <<>> /\ AtTools(p)
      /\ pc[p] \in Looping /\ step[p] \in 0 .. MaxSteps /\ step[p] < MaxSteps
    BY DEF LoopIInv, Invoke, Ready, Local, AtTools, Looping, Typed
<1>2. u \in Seq(Message)
    BY <1>1, AtToolsAsked
<1>3. /\ msgs'[p] = msgs[p] \o u /\ unsent'[p] = u
      /\ pc'[p] = AfterTools(p) /\ AfterTools(p) \in {"generating", "finishing"}
      /\ step'[p] = step[p] + 1 /\ buffer' = buffer
    <2>1. /\ Say(p, u) /\ unsent' = [unsent EXCEPT ![p] = u] /\ Goto(p, AfterTools(p))
          /\ step' = [step EXCEPT ![p] = @ + 1] /\ buffer' = buffer
        BY DEF Invoke
    <2>2. AfterTools(p) \in {"generating", "finishing"} /\ AfterTools(p) \in PCs
        BY DEF AfterTools, PCs, Looping
    <2> HIDE DEF u
    <2>3. step'[p] = step[p] + 1
        BY <1>1, <2>1 DEF Typed
    <2>4. QED
        BY <1>1, <1>2, <2>1, <2>2, <2>3, Says, Keeps, Goes
<1>4. ToolsGive(p, own, own, u, none)
    <2>1. ToGet(p) = {Result(p, step[p], c) : c \in own} /\ own \subseteq Calls /\ pc'[p] # "idle"
        BY <1>1, <1>3 DEF ToGet
    <2> HIDE DEF own
    <2>2. QED
        BY <1>3, <2>1 DEF ToolsGive
<1>5. /\ IsInjective(u)
      /\ ToSet(msgs'[p]) = ToSet(msgs[p]) \cup ToSet(u)
      /\ \A m \in ToSet(u) : m.is = "result" /\ m.by = p /\ m.step = step[p]
      /\ Tidy(msgs'[p], p, none)
      /\ Tidy(buffer, p, none \cup ToSet(u))
      /\ Ends(By(p, buffer) \o u, Said(p)')
    <2> HIDE DEF own, u, none
    <2>1. QED
        BY <1>1, <1>4, ToolsRun
<1>6. none = {}
    OBVIOUS
<1> HIDE DEF u, none, own
<1>7. ToGet(p)' = {} /\ ToPush(p)' = ToSet(u)
    BY <1>3 DEF ToGet, ToPush, Looping
<1>8. /\ pc'[p] = "generating" => step'[p] < MaxSteps
      /\ pc'[p] = "finishing" => step'[p] = MaxSteps
    BY <1>1, <1>3, BoundsAssumption DEF AfterTools
<1>9. Local(p)'
    <2>1. Question(p) \in ToSet(msgs[p])
        BY <1>1 DEF Local
    <2>2. \A m \in ToSet(msgs'[p]) :
              m.by = p /\ (m.is \in {"request", "result"} => m.step < step'[p])
        <3>1. ASSUME NEW m \in ToSet(msgs'[p])
              PROVE  m.by = p /\ (m.is \in {"request", "result"} => m.step < step'[p])
            <4>1. CASE m \in ToSet(u)
                BY <1>1, <1>3, <1>5, <4>1
            <4>2. CASE m \in ToSet(msgs[p])
                <5>1. m \in Message /\ m.by = p
                    BY <1>1, <4>2, Holding DEF Typed, Local
                <5>2. m.is \in {"request", "result"} => m.step \in 0 .. MaxSteps /\ (m.step < step[p] \/ m.step = step[p])
                    BY <1>1, <4>2, <5>1, KindsOfMessages DEF Local
                <5>3. QED
                    BY <1>1, <1>3, <5>1, <5>2, BoundsAssumption
            <4>3. QED
                BY <1>5, <3>1, <4>1, <4>2
        <3>2. QED
            BY <3>1
    <2>3. QED
        BY <1>3, <1>5, <1>6, <1>7, <1>8, <2>1, <2>2 DEF Local, Looping, AtTools
<1>10. Shared(p)'
    <2>1. \A m \in ToSet(buffer') : m.by = p => m = Question(p) \/ m \in ToSet(msgs'[p])
        BY <1>1, <1>3, <1>5 DEF Shared
    <2>2. By(p, buffer)' = By(p, buffer)
        BY <1>3 DEF By
    <2>3. Ends(By(p, buffer)' \o unsent'[p], Said(p)')
        BY <1>3, <1>5, <2>2
    <2>4. Tidy(buffer', p, ToPush(p)')
        <3>1. none \cup ToSet(u) = ToSet(u)
            BY <1>6
        <3>2. QED
            BY <1>3, <1>5, <1>7, <3>1
    <2>5. QED
        BY <1>3, <2>1, <2>3, <2>4 DEF Shared, Looping
<1>11. QED
    BY <1>9, <1>10

\* The first of different elements is not among the rest.
LEMMA RestOfDifferent ==
    ASSUME NEW T, NEW s \in Seq(T), s # <<>>, IsInjective(s)
    PROVE  IsInjective(Tail(s)) /\ Head(s) \notin ToSet(Tail(s))
<1> DEFINE t == Tail(s)
           n == Len(t)
<1>1. /\ t \in Seq(T) /\ n \in Nat /\ DOMAIN t = 1 .. n /\ DOMAIN s = 1 .. n + 1
      /\ Head(s) = s[1] /\ \A i \in 1 .. n : t[i] = s[i + 1]
    BY HoldingRest, LenProperties
<1> HIDE DEF t, n
<1>2. \A a, b \in 1 .. n + 1 : s[a] = s[b] => a = b
    BY <1>1 DEF IsInjective
<1>3. ASSUME NEW a \in 1 .. n, NEW b \in 1 .. n, t[a] = t[b]
      PROVE  a = b
    <2>1. s[a + 1] = s[b + 1] /\ a + 1 \in 1 .. n + 1 /\ b + 1 \in 1 .. n + 1
        BY <1>1, <1>3
    <2>2. a + 1 = b + 1
        BY <1>2, <2>1
    <2>3. QED
        BY <1>1, <2>2
<1>4. ASSUME NEW a \in 1 .. n
      PROVE  t[a] # s[1]
    <2>1. a + 1 \in 1 .. n + 1 /\ 1 \in 1 .. n + 1 /\ a + 1 # 1 /\ t[a] = s[a + 1]
        BY <1>1, <1>4
    <2>2. QED
        BY <1>2, <2>1
<1>5. IsInjective(t)
    BY <1>1, <1>3 DEF IsInjective
<1>6. Head(s) \notin ToSet(t)
    BY <1>1, <1>4 DEF ToSet
<1>7. QED
    BY <1>5, <1>6 DEF t

LEMMA PushKeeps ==
    ASSUME LoopIInv, NEW p \in Prompts, Push(p)
    PROVE  Local(p)' /\ Shared(p)'
<1> DEFINE m == Head(unsent[p])
           rest == Tail(unsent[p])
<1>1. /\ Typed /\ Local(p) /\ Shared(p) /\ pc[p] \in Looping /\ unsent[p] # <<>>
      /\ unsent[p] \in Seq(Message) /\ buffer \in Seq(Message)
    BY DEF LoopIInv, Push, Ready, Typed
<1>2. /\ m \in Message /\ rest \in Seq(Message) /\ ToSet(unsent[p]) = {m} \cup ToSet(rest)
    BY <1>1, HoldingRest
<1>3. m \in ToSet(msgs[p]) /\ m.by = p /\ m.is = "result" /\ ~ Opens(m, p)
    BY <1>1, <1>2 DEF Local, Opens
<1>4. IsInjective(rest) /\ m \notin ToSet(rest)
    BY <1>1, RestOfDifferent DEF Local
<1>5. unsent[p] = <<m>> \o rest
    <2> DEFINE u == <<m>> \o rest
    <2>1. /\ <<m>> \in Seq(Message) /\ Len(<<m>>) = 1 /\ <<m>>[1] = m
        BY <1>2, HoldingOne
    <2>2. /\ Len(unsent[p]) \in Nat /\ Len(rest) = Len(unsent[p]) - 1 /\ m = unsent[p][1]
          /\ \A i \in 1 .. Len(unsent[p]) - 1 : rest[i] = unsent[p][i + 1]
        BY <1>1, HoldingRest
    <2> HIDE DEF m, rest
    <2>3. /\ u \in Seq(Message) /\ Len(u) = 1 + Len(rest)
          /\ \A i \in 1 .. 1 + Len(rest) : u[i] = IF i <= 1 THEN m ELSE rest[i - 1]
        BY <1>2, <2>1, ConcatProperties
    <2> HIDE DEF u
    <2>4. Len(u) = Len(unsent[p])
        BY <2>2, <2>3
    <2>5. ASSUME NEW i \in 1 .. Len(unsent[p])
          PROVE  unsent[p][i] = u[i]
        <3>1. CASE i = 1
            BY <2>2, <2>3, <2>4, <3>1
        <3>2. CASE i > 1
            <4>1. i - 1 \in 1 .. Len(unsent[p]) - 1 /\ (i - 1) + 1 = i /\ ~ (i <= 1)
                BY <2>2, <3>2
            <4>2. rest[i - 1] = unsent[p][i]
                BY <2>2, <4>1
            <4>3. i \in 1 .. 1 + Len(rest)
                BY <2>2
            <4>4. QED
                BY <2>3, <4>1, <4>2, <4>3
        <3>3. QED
            BY <2>2, <3>1, <3>2
    <2>6. unsent[p] = u
        BY <1>1, <2>3, <2>4, <2>5, SeqEqual
    <2>7. QED
        BY <2>6 DEF u
<1>6. /\ AddToBuffer(m) /\ unsent'[p] = rest
      /\ pc'[p] = pc[p] /\ msgs'[p] = msgs[p] /\ step'[p] = step[p]
    BY <1>1, <1>2, Keeps DEF Push
<1> HIDE DEF m, rest
<1>7. /\ ToGet(p)' = ToGet(p) /\ AtTools(p)' = AtTools(p) /\ \A cs : Asks(p, cs)' <=> Asks(p, cs)
    BY <1>6 DEF ToGet, AtTools, Asks
<1>8. ToPush(p) = ToGet(p) \cup ToSet(unsent[p]) /\ ToPush(p)' = ToGet(p) \cup ToSet(rest)
    BY <1>1, <1>6, <1>7 DEF ToPush
<1>9. pc[p] # "managing" /\ m \notin ToGet(p)
    BY <1>1, <1>2 DEF Local
<1>10. Local(p)'
    <2>1. /\ \A n \in ToSet(rest) : n \in ToSet(msgs[p]) /\ n.is = "result"
          /\ ToSet(rest) \cap ToGet(p) = {}
        BY <1>1, <1>2 DEF Local
    <2>2. pc[p] \notin {"idle", "loading", "answering"}
        BY <1>1 DEF Looping
    <2>3. QED
        BY <1>1, <1>4, <1>6, <1>7, <1>9, <2>1, <2>2 DEF Local
<1>11. Ends(By(p, buffer)' \o unsent'[p], Said(p)')
    <2>1. /\ By(p, buffer) \in Seq(Message) /\ By(p, buffer') \in Seq(Message)
          /\ Ends(By(p, buffer'), By(p, buffer) \o <<m>>)
        BY <1>1, <1>2, <1>3, <1>6, AddedBy
    <2>2. <<m>> \in Seq(Message)
        BY <1>2, HoldingOne
    <2> DEFINE one == <<m>>
    <2> HIDE DEF one
    <2>3. one \in Seq(Message) /\ unsent[p] = one \o rest
        BY <1>5, <2>2 DEF one
    <2>4. Ends(By(p, buffer') \o rest, (By(p, buffer) \o one) \o rest)
        <3>1. By(p, buffer) \o one \in Seq(Message) /\ Ends(By(p, buffer'), By(p, buffer) \o one)
            BY <2>1, <2>3 DEF one
        <3>2. QED
            BY <1>2, <2>1, <3>1, EndsWithMore
    <2>5. (By(p, buffer) \o one) \o rest = By(p, buffer) \o unsent[p]
        BY <1>2, <2>1, <2>3, ConcatAssociative
    <2>6. Ends(By(p, buffer) \o unsent[p], Said(p)) /\ Said(p) \in Seq(Message)
        BY <1>1, SaidIsSequence DEF Shared
    <2>7. By(p, buffer') \o rest \in Seq(Message) /\ By(p, buffer) \o unsent[p] \in Seq(Message)
        BY <1>1, <1>2, <2>1
    <2>8. Ends(By(p, buffer') \o rest, Said(p))
        BY <2>4, <2>5, <2>6, <2>7, EndsTransitively
    <2>9. By(p, buffer)' = By(p, buffer') /\ Said(p)' = Said(p)
        BY <1>6 DEF By, Said
    <2>10. QED
        BY <1>6, <2>8, <2>9
<1>12. Tidy(buffer', p, ToPush(p)')
    <2> DEFINE old == ToPush(p)
               new == ToGet(p) \cup ToSet(rest)
    <2>1. /\ m \in old /\ m \notin new
          /\ \A r : r # m => (r \in old <=> r \in new)
        BY <1>2, <1>4, <1>8, <1>9
    <2>2. Tidy(buffer, p, old)
        BY <1>1 DEF Shared, Looping
    <2> HIDE DEF old, new
    <2>3. \A i \in DOMAIN buffer : Opens(buffer[i], p) => \A c \in ToSet(buffer[i].calls) :
             LET r == Result(p, buffer[i].step, c)
             IN  IF r = m THEN r \in old /\ r \notin new ELSE r \in old <=> r \in new
        BY <2>1
    <2>4. Tidy(buffer', p, new)
        <3>1. m \in Message /\ buffer \in Seq(Message) /\ AddToBuffer(m) /\ ~ Opens(m, p)
            BY <1>1, <1>2, <1>3, <1>6
        <3>2. QED
            BY <2>2, <2>3, <3>1, TidyAdded
    <2>5. QED
        BY <1>8, <2>4 DEF new
<1>13. Shared(p)'
    <2>1. ToSet(buffer') \subseteq ToSet(buffer) \cup {m}
        BY <1>1, <1>2, <1>6, AddedToBuffer
    <2>2. \A n \in ToSet(buffer') : n.by = p => n = Question(p) \/ n \in ToSet(msgs'[p])
        BY <1>1, <1>3, <1>6, <2>1 DEF Shared
    <2>3. pc[p] \notin {"idle", "loading"}
        BY <1>1 DEF Looping
    <2>4. QED
        BY <1>6, <1>11, <1>12, <2>2, <2>3 DEF Shared
<1>14. QED
    BY <1>10, <1>13

-----------------------------------------------------------------------------
LEMMA InductiveInv == LoopIInv /\ [Next]_vars => LoopIInv'
<1> SUFFICES ASSUME LoopIInv, [Next]_vars
             PROVE  LoopIInv'
    OBVIOUS
<1>1. Typed'
    BY TypedNext
<1>2. ASSUME NEW q \in Prompts
      PROVE  Local(q)' /\ Shared(q)'
    <2>1. Typed /\ Local(q) /\ Shared(q)
        BY DEF LoopIInv
    <2>2. CASE UNCHANGED vars
        BY <2>1, <2>2, LocalElsewhere, SharedElsewhere DEF vars, Elsewhere
    <2>3. CASE ClearBuffer
        BY <2>1, <2>3, LocalElsewhere, SharedElsewhere DEF ClearBuffer, Elsewhere
    <2>4. ASSUME NEW p \in Prompts, Ask(p) \/ Respond(p)
          PROVE  Local(q)' /\ Shared(q)'
        <3>1. CASE q # p
            BY <2>1, <2>4, <3>1, OthersElsewhere, LocalElsewhere, SharedElsewhere
        <3>2. CASE q = p
            BY <2>4, <3>2, AskKeeps, LoadKeeps, RetryKeeps, FailureKeeps, RequestToolsKeeps,
               AnswersKeep, ManageKeeps, InvokeKeeps, PushKeeps, DeliverKeeps DEF Respond
        <3>3. QED
            BY <3>1, <3>2
    <2>5. QED
        BY <2>2, <2>3, <2>4 DEF Next
<1>3. QED
    BY <1>1, <1>2 DEF LoopIInv

LEMMA LoopInvariant == Spec => []LoopIInv
BY InitialInv, InductiveInv, PTL DEF Spec

-----------------------------------------------------------------------------
(***************************************************************************)
(* Theorems                                                                *)
(***************************************************************************)

\* One place counts as one.
LEMMA OnceCounts ==
    ASSUME NEW T, NEW s \in Seq(T), NEW i \in DOMAIN s, NEW m, Once(s, i, m)
    PROVE  Count(m, s, i + 1) = 1
<1>1. PICK j \in DOMAIN s :
        j > i /\ s[j] = m /\ \A k \in DOMAIN s : k > i /\ s[k] = m => k = j
    BY DEF Once
<1> DEFINE places == {k \in i + 1 .. Len(s) : s[k] = m}
<1>2. Len(s) \in Nat /\ DOMAIN s = 1 .. Len(s) /\ i \in Nat
    BY LenProperties
<1>3. places = {j}
    <2>1. j \in i + 1 .. Len(s)
        BY <1>1, <1>2
    <2>2. \A k \in i + 1 .. Len(s) : k \in DOMAIN s /\ k > i
        BY <1>2
    <2>3. QED
        BY <1>1, <2>1, <2>2
<1>4. Cardinality({j}) = 1
    BY FS_Singleton
<1>5. QED
    BY <1>3, <1>4 DEF Count

(***************************************************************************)
(* The buffer never grows over its cap, and the goroutines' variables have *)
(* the values that TypeOK gives them.                                      *)
(***************************************************************************)
LEMMA BufferIsBounded == Spec => [](Len(buffer) <= MaxBuffer)
<1>1. Init => Len(buffer) <= MaxBuffer
    BY BoundsAssumption DEF Init
<1>2. LoopIInv /\ Len(buffer) <= MaxBuffer /\ [Next]_vars => (Len(buffer) <= MaxBuffer)'
    <2> SUFFICES ASSUME LoopIInv, Len(buffer) <= MaxBuffer, [Next]_vars
                 PROVE  Len(buffer') <= MaxBuffer
        OBVIOUS
    <2>1. buffer \in Seq(Message)
        BY DEF LoopIInv, Typed
    <2>2. ASSUME NEW m \in Message, AddToBuffer(m)
          PROVE  Len(buffer') <= MaxBuffer
        <3> DEFINE all == Append(buffer, m)
        <3>1. /\ all \in Seq(Message) /\ all # <<>> /\ Len(all) \in Nat
              /\ Len(buffer) \in Nat /\ Len(all) = Len(buffer) + 1 /\ Len(Tail(all)) = Len(all) - 1
            BY <2>1, AppendProperties, HeadTailProperties
        <3>2. buffer' = IF Len(all) > MaxBuffer THEN Tail(all) ELSE all
            BY <2>2 DEF AddToBuffer
        <3> HIDE DEF all
        <3>3. QED
            BY <3>1, <3>2, BoundsAssumption
    <2>3. \/ buffer' = buffer \/ buffer' = <<>>
          \/ \E m \in Message : AddToBuffer(m)
        <3>1. CASE UNCHANGED vars
            BY <3>1 DEF vars
        <3>2. CASE ClearBuffer
            BY <3>2 DEF ClearBuffer
        <3>3. ASSUME NEW p \in Prompts, Ask(p)
              PROVE  \E m \in Message : AddToBuffer(m)
            BY <3>3, MessagesHold DEF Ask
        <3>4. ASSUME NEW p \in Prompts, RequestTools(p)
              PROVE  \E m \in Message : AddToBuffer(m)
            BY <3>4, MessagesHold DEF RequestTools, LoopIInv, Typed
        <3>5. ASSUME NEW p \in Prompts, Push(p) \/ Deliver(p)
              PROVE  \E m \in Message : AddToBuffer(m)
            <4>1. unsent[p] # <<>> /\ pc[p] \in Looping \cup {"answering"} /\ Typed /\ Local(p)
                BY <3>5 DEF Push, Ready, Deliver, LoopIInv, Local
            <4>2. Head(unsent[p]) \in Message
                BY <4>1, UnsentAreOwn
            <4>3. QED
                BY <3>5, <4>2 DEF Push, Deliver
        <3>6. ASSUME NEW p \in Prompts,
                     \/ Load(p) \/ Retry(p) \/ ModelFails(p) \/ ModelAnswers(p)
                     \/ FinalAnswer(p) \/ Manage(p) \/ Invoke(p) \/ InvokeFails(p)
              PROVE  buffer' = buffer
            BY <3>6 DEF Load, Retry, ModelFails, ModelAnswers, FinalAnswer, Manage, Invoke,
                        InvokeFails
        <3>7. QED
            BY <3>1, <3>2, <3>3, <3>4, <3>5, <3>6 DEF Next, Respond
    <2>4. Len(<<>>) <= MaxBuffer
        BY BoundsAssumption
    <2>5. QED
        BY <2>2, <2>3, <2>4
<1>3. QED
    BY <1>1, <1>2, LoopInvariant, PTL DEF Spec

THEOREM PromptTypes == Spec => []TypeOK
<1>1. LoopIInv /\ Len(buffer) <= MaxBuffer => TypeOK
    <2> SUFFICES ASSUME Typed, Len(buffer) <= MaxBuffer
                 PROVE  TypeOK
        BY DEF LoopIInv
    <2>1. ToSet(buffer) \subseteq Message
        BY Holding DEF Typed
    <2>2. ASSUME NEW p \in Prompts
          PROVE  ToSet(msgs[p]) \cup ToSet(unsent[p]) \subseteq Message
        <3>1. msgs[p] \in Seq(Message) /\ unsent[p] \in Seq(Message)
            BY DEF Typed
        <3>2. ToSet(msgs[p]) \subseteq Message /\ ToSet(unsent[p]) \subseteq Message
            BY <3>1, Holding
        <3>3. QED
            BY <3>2
    <2>3. QED
        BY <2>1, <2>2 DEF Typed, TypeOK, PCs
<1>2. QED
    BY <1>1, LoopInvariant, BufferIsBounded, PTL

(***************************************************************************)
(* Whenever agentInvoke calls the model, each call that the model has      *)
(* asked for in this prompt is followed by exactly one result.             *)
(***************************************************************************)
THEOREM ModelSeesEveryAnswer == Spec => []CallsAreAnswered
<1>1. LoopIInv => CallsAreAnswered
    <2> SUFFICES ASSUME LoopIInv, NEW p \in Prompts, pc[p] \in {"generating", "finishing"},
                        NEW i \in DOMAIN msgs[p], msgs[p][i].is = "request",
                        NEW c \in ToSet(msgs[p][i].calls)
                 PROVE  Count(Result(p, msgs[p][i].step, c), msgs[p], i + 1) = 1
        BY DEF CallsAreAnswered
    <2>1. /\ Local(p) /\ msgs[p] \in Seq(Message) /\ step[p] \in 0 .. MaxSteps
          /\ pc[p] \in Looping /\ ~ AtTools(p)
        BY DEF LoopIInv, Typed, Looping, AtTools
    <2>2. Tidy(msgs[p], p, {})
        BY <2>1 DEF Local, ToGet
    <2>3. Opens(msgs[p][i], p)
        <3>1. msgs[p][i] \in ToSet(msgs[p]) /\ msgs[p][i] \in Message
            BY <2>1 DEF ToSet
        <3>2. msgs[p][i].by = p /\ msgs[p][i].step < step[p]
            BY <2>1, <3>1 DEF Local
        <3>3. msgs[p][i].step \in 0 .. MaxSteps
            BY <3>1, KindsOfMessages
        <3>4. QED
            BY <2>1, <3>2, <3>3, BoundsAssumption DEF Opens
    <2>4. Once(msgs[p], i, Result(p, msgs[p][i].step, c))
        BY <2>2, <2>3 DEF Tidy
    <2>5. QED
        BY <2>1, <2>4, OnceCounts
<1>2. QED
    BY <1>1, LoopInvariant, PTL

(***************************************************************************)
(* The model is never called without the question that EinoEngine.Respond  *)
(* was given.                                                              *)
(***************************************************************************)
THEOREM ModelSeesTheQuestion == Spec => []QuestionIsPresent
<1>1. LoopIInv => QuestionIsPresent
    BY DEF LoopIInv, Local, QuestionIsPresent
<1>2. QED
    BY <1>1, LoopInvariant, PTL

(***************************************************************************)
(* What Brain.buffer holds of a prompt under way is the end of what was    *)
(* said in it.                                                             *)
(***************************************************************************)
THEOREM BufferKeepsTheEnd == Spec => []BufferHoldsTheEnd
<1>1. LoopIInv => BufferHoldsTheEnd
    <2> SUFFICES ASSUME LoopIInv, NEW p \in Prompts, pc[p] \in Looping
                 PROVE  IsSuffix(By(p, buffer) \o unsent[p],
                                 <<Question(p)>> \o Chosen(msgs[p], {m \in Message : m.is # "question"}))
        BY DEF BufferHoldsTheEnd
    <2>1. Typed /\ Shared(p) /\ pc[p] # "idle"
        BY DEF LoopIInv, Looping
    <2>2. By(p, buffer) \o unsent[p] \in Seq(Message) /\ Said(p) \in Seq(Message)
        <3>1. By(p, buffer) \in Seq(Message) /\ unsent[p] \in Seq(Message)
            BY <2>1, ByIsSequence DEF Typed
        <3>2. Said(p) \in Seq(Message)
            BY <2>1, SaidIsSequence
        <3>3. QED
            BY <3>1, <3>2
    <2>3. Ends(By(p, buffer) \o unsent[p], Said(p))
        BY <2>1 DEF Shared
    <2>4. IsSuffix(By(p, buffer) \o unsent[p], Said(p))
        BY <2>2, <2>3, EndsIsSuffix
    <2>5. QED
        BY <2>1, <2>4 DEF Said
<1>2. QED
    BY <1>1, LoopInvariant, PTL

(***************************************************************************)
(* A request in Brain.buffer that lacks a result has one of three reasons. *)
(***************************************************************************)
THEOREM OpenCallsAreExplained == Spec => []OpenCallsHaveAReason
<1>1. LoopIInv => OpenCallsHaveAReason
    <2> SUFFICES ASSUME LoopIInv, NEW i \in DOMAIN buffer, buffer[i].is = "request",
                        pc[buffer[i].by] # "failed", pc[buffer[i].by] \in Over,
                        buffer[i].step # MaxSteps, NEW c \in ToSet(buffer[i].calls)
                 PROVE  Count(Result(buffer[i].by, buffer[i].step, c), buffer, i + 1) = 1
        BY DEF OpenCallsHaveAReason
    <2> DEFINE m == buffer[i]
               p == m.by
    <2>1. buffer \in Seq(Message) /\ m \in Message
        BY DEF LoopIInv, Typed
    <2>2. p \in Prompts /\ m.step \in 0 .. MaxSteps
        BY <2>1, KindsOfMessages
    <2>3. Opens(m, p)
        BY <2>2, BoundsAssumption DEF Opens
    <2>4. Tidy(buffer, p, {})
        BY <2>2 DEF LoopIInv, Shared, ToPush, Looping, Over
    <2>5. Once(buffer, i, Result(p, m.step, c))
        BY <2>3, <2>4 DEF Tidy
    <2>6. QED
        BY <2>1, <2>5, OnceCounts
<1>2. QED
    BY <1>1, LoopInvariant, PTL

=============================================================================
