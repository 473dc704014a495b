-------------------------- MODULE MemoryGraphProofs -------------------------
(***************************************************************************)
(* Proofs about MemoryGraph, for all sessions, analyses and caps: every    *)
(* session added to is capped and keeps its newest step as its tail, no    *)
(* edge of the topology dangles, at rest the collection is what the graph  *)
(* holds, and the path a prompt is shown follows the bonds.                *)
(***************************************************************************)
EXTENDS MemoryGraph, FiniteSetTheorems, WellFoundedInduction, TLAPS

-----------------------------------------------------------------------------
(***************************************************************************)
(* Sets of steps                                                           *)
(***************************************************************************)

\* A set of steps that is not empty has an oldest and a newest.
LEMMA Extremes ==
  ASSUME NEW S, S \subseteq Nat, S # {}, NEW n \in Nat, \A k \in S : k <= n
  PROVE  /\ \E k \in S : \A m \in S : k <= m
         /\ Max(S) \in S /\ \A m \in S : m <= Max(S)
<1>1. \A T : T \subseteq Nat /\ T # {} => \E k \in T : \A m \in T : k <= m
  <2> SUFFICES ASSUME NEW T, T \subseteq Nat, T # {}
               PROVE  \E k \in T : \A m \in T : k <= m
    OBVIOUS
  <2>1. \A k, m \in Nat : m < k => <<m, k>> \in OpToRel(<, Nat)
    BY DEF OpToRel
  <2>2. PICK k \in T : \A m \in T : ~ (<<m, k>> \in OpToRel(<, Nat))
    BY NatLessThanWellFounded, WFMin
  <2>3. \A m \in T : ~ (m < k)
    BY <2>1, <2>2
  <2>4. \A m \in T : k <= m
    BY <2>3
  <2> QED BY <2>4
<1>2. \E k \in S : \A m \in S : k >= m
  <2> DEFINE T == {n - k : k \in S}
  <2>1. T \subseteq Nat /\ T # {}
    <3>1. PICK k \in S : TRUE
      OBVIOUS
    <3>2. n - k \in T
      OBVIOUS
    <3>3. \A j \in S : n - j \in Nat
      OBVIOUS
    <3> QED BY <3>2, <3>3
  <2>2. PICK d \in T : \A m \in T : d <= m
    BY <1>1, <2>1
  <2>3. PICK k \in S : d = n - k
    BY <2>2
  <2>4. \A m \in S : n - k <= n - m
    BY <2>2, <2>3
  <2> QED BY <2>3, <2>4
<1>3. Max(S) \in S /\ \A m \in S : Max(S) >= m
  BY <1>2 DEF Max
<1> QED BY <1>1, <1>3

\* The steps of an analysis and of a session are finitely many.
LEMMA StepsAreFinite ==
  ASSUME NEW S, S \subseteq StepId
  PROVE  IsFiniteSet(S) /\ Cardinality(S) \in 0 .. MaxNodes
<1>1. IsFiniteSet(StepId) /\ Cardinality(StepId) = MaxNodes
  <2>1. MaxNodes \in Nat
    BY CapAssumption
  <2>2. 1 \in Int /\ MaxNodes \in Int
    BY <2>1
  <2>3. IsFiniteSet(1 .. MaxNodes) /\
        Cardinality(1 .. MaxNodes) = IF 1 > MaxNodes THEN 0 ELSE MaxNodes - 1 + 1
    BY <2>2, FS_Interval
  <2> QED BY <2>1, <2>3 DEF StepId
<1> QED BY <1>1, FS_Subset, FS_CardinalityType, CapAssumption

\* What pruning leaves of a session is within the cap.
LEMMA PruningCaps ==
  ASSUME NEW nodes, nodes \subseteq StepId, NEW es
  PROVE  Cardinality(nodes \ Pruned(nodes, es)) <= Cap
<1> DEFINE n == Cardinality(nodes)
           older(m) == {k \in nodes : k < m}
           kept == nodes \ Pruned(nodes, es)
           extra == IF IsCyclic(nodes, es) THEN Max({MinExtra, n \div Share}) ELSE 0
<1>0. \A k \in StepId : k \in Nat /\ k <= MaxNodes
  BY CapAssumption DEF StepId
<1>1. n \in 0 .. MaxNodes
  BY StepsAreFinite
<1>2. extra \in Nat
  <2>1. n \div Share \in Nat
    BY <1>1, CapAssumption
  <2>2. {MinExtra, n \div Share} \subseteq Nat
    BY <2>1, CapAssumption
  <2>3. \A k \in {MinExtra, n \div Share} : k <= MinExtra + (n \div Share)
    BY <2>1, CapAssumption
  <2>4. MinExtra + (n \div Share) \in Nat
    BY <2>1, CapAssumption
  <2> HIDE DEF n
  <2> QED BY <2>2, <2>3, <2>4, Extremes
<1>3. CASE n <= Cap
  BY <1>3 DEF Pruned
<1>4. CASE n > Cap /\ kept = {}
  BY <1>4, FS_EmptySet, CapAssumption
<1>5. CASE n > Cap /\ kept # {}
  <2>1. PICK m \in kept : \A k \in kept : m <= k
    <3>1. kept \subseteq Nat /\ \A k \in kept : k <= MaxNodes
      BY <1>0
    <3> HIDE DEF kept
    <3> QED BY <1>5, <3>1, Extremes, CapAssumption
  <2>2. Cardinality(older(m)) >= n - Cap
    <3>1. ~ (Cardinality(older(m)) < n - Cap + extra)
      BY <1>5, <1>1, CapAssumption DEF Pruned
    <3>2. Cardinality(older(m)) \in Nat
      BY StepsAreFinite
    <3> HIDE DEF n, extra
    <3> QED BY <3>1, <3>2, <1>1, <1>2, CapAssumption
  <2>3. kept \cap older(m) = {} /\ kept \cup older(m) \subseteq nodes
    <3>1. \A k \in kept : k \in Nat /\ m \in Nat /\ m <= k
      BY <1>0, <2>1
    <3>2. \A k \in older(m) : k < m
      OBVIOUS
    <3>3. \A k \in kept : k \notin older(m)
      BY <3>1, <3>2
    <3> QED BY <3>3
  <2>4. /\ IsFiniteSet(kept) /\ IsFiniteSet(older(m)) /\ IsFiniteSet(nodes)
        /\ IsFiniteSet(kept \cup older(m))
        /\ Cardinality(kept) \in Nat /\ Cardinality(older(m)) \in Nat
        /\ Cardinality(kept \cup older(m)) \in Nat
    <3>1. kept \subseteq StepId /\ older(m) \subseteq StepId /\ kept \cup older(m) \subseteq StepId
      OBVIOUS
    <3> HIDE DEF kept, older
    <3> QED BY <3>1, StepsAreFinite
  <2>5. Cardinality(kept) + Cardinality(older(m)) <= n
    <3>1. Cardinality(kept \cap older(m)) = 0
      BY <2>3, FS_EmptySet
    <3>2. Cardinality(kept \cup older(m)) =
            Cardinality(kept) + Cardinality(older(m)) - Cardinality(kept \cap older(m))
      BY <2>4, FS_Union
    <3>3. Cardinality(kept \cup older(m)) <= n
      BY <2>3, <2>4, FS_Subset
    <3> HIDE DEF kept, older, n
    <3> QED BY <3>1, <3>2, <3>3, <2>4, <1>1
  <2>6. Cardinality(kept) <= Cap
    <3> HIDE DEF kept, older, n
    <3> QED BY <2>2, <2>4, <2>5, <1>1, CapAssumption
  <2> QED BY <2>6
<1> QED BY <1>1, <1>3, <1>4, <1>5, CapAssumption

\* A part of a session that is cut off at pruning, beyond the excess, leaves
\* at least one step.
LEMMA ExtraBelowCap ==
  ASSUME NEW n \in 0 .. MaxNodes
  PROVE  n \div Share \in Nat /\ n \div Share < Cap
<1>1. MaxNodes \in Nat /\ Share \in Nat \ {0} /\ n \in Nat /\ n <= MaxNodes
  BY CapAssumption
<1> DEFINE p == n \div Share
           q == MaxNodes \div Share
<1>2. /\ p \in Nat /\ Share * p <= n
      /\ q \in Nat /\ MaxNodes < Share * q + Share
  BY <1>1
<1>3. p <= q
  <2> SUFFICES ASSUME p > q PROVE FALSE
    BY <1>2
  <2> HIDE DEF p, q
  <2>1. PICK d \in Nat : p = q + 1 + d
    <3>1. p - q - 1 \in Nat /\ p = q + 1 + (p - q - 1)
      BY <1>2
    <3> QED BY <3>1
  <2>2. Share * p = Share * q + Share + Share * d /\ Share * d \in Nat
    BY <2>1, <1>1, <1>2
  <2>3. Share * q \in Nat /\ Share * p \in Nat
    BY <1>1, <1>2
  <2> QED BY <1>1, <1>2, <2>2, <2>3
<1>4. q < Cap
  BY CapAssumption
<1> HIDE DEF q
<1> QED BY <1>2, <1>3, <1>4, CapAssumption

\* The newest step of a session survives pruning.
LEMMA TailSurvives ==
  ASSUME NEW nodes, nodes \subseteq StepId, NEW es,
         NEW m \in nodes, \A k \in nodes : k <= m
  PROVE  m \notin Pruned(nodes, es)
<1> DEFINE n == Cardinality(nodes)
           extra == IF IsCyclic(nodes, es) THEN Max({MinExtra, n \div Share}) ELSE 0
<1>1. \A k \in StepId : k \in Nat
  BY CapAssumption DEF StepId
<1>2. n \in 0 .. MaxNodes /\ IsFiniteSet(nodes)
  BY StepsAreFinite
<1>3. {k \in nodes : k < m} = nodes \ {m}
  BY <1>1
<1>4. Cardinality(nodes \ {m}) = n - 1
  BY <1>2, FS_RemoveElement
<1>5. extra \in Nat /\ extra < Cap
  <2>1. n \div Share \in Nat /\ n \div Share < Cap
    BY <1>2, ExtraBelowCap
  <2>2. {MinExtra, n \div Share} \subseteq Nat
    BY <2>1, CapAssumption
  <2>3. \A k \in {MinExtra, n \div Share} : k <= Cap /\ k < Cap
    BY <2>1, CapAssumption
  <2>4. Max({MinExtra, n \div Share}) \in {MinExtra, n \div Share}
    <3> HIDE DEF n
    <3> QED BY <2>2, <2>3, Extremes, CapAssumption
  <2>5. 0 < Cap
    BY CapAssumption
  <2> HIDE DEF n
  <2> QED BY <2>2, <2>3, <2>4, <2>5
<1>6. ~ (n - 1 < n - Cap + extra)
  <2> HIDE DEF n, extra
  <2> QED BY <1>2, <1>5, CapAssumption
<1>7. Pruned(nodes, es) = IF n <= Cap THEN {}
        ELSE {k \in nodes : Cardinality({j \in nodes : j < k}) < n - Cap + extra}
  BY DEF Pruned
<1>8. ~ (Cardinality({k \in nodes : k < m}) < n - Cap + extra)
  BY <1>3, <1>4, <1>6
<1> HIDE DEF n, extra
<1> QED BY <1>7, <1>8

-----------------------------------------------------------------------------
(***************************************************************************)
(* The steps an analysis adds                                              *)
(***************************************************************************)

\* Step ids that stand for something stand for a new step each, the last so
\* named.
LEMMA NamedSteps ==
  ASSUME NEW a \in Analyses, next \in Nat \ {0}, NEW id, Known(a, id)
  PROVE  /\ StepOf(a, id) \in Added(a)
         /\ a.steps[StepOf(a, id) - next + 1] = id
<1> DEFINE named == {i \in DOMAIN a.steps : a.steps[i] = id}
<1>1. a.steps \in Seq(Nat) /\ Len(a.steps) \in Nat /\ DOMAIN a.steps = 1 .. Len(a.steps)
  BY AnalysisAssumption
<1>2. named \subseteq Nat /\ named # {} /\ \A i \in named : i <= Len(a.steps)
  BY <1>1 DEF Known, ToSet
<1>3. Max(named) \in named
  <2> HIDE DEF named
  <2> QED BY <1>1, <1>2, Extremes
<1>4. /\ Max(named) \in 1 .. Len(a.steps) /\ a.steps[Max(named)] = id
      /\ StepOf(a, id) = next - 1 + Max(named)
  BY <1>1, <1>3 DEF StepOf
<1> HIDE DEF named
<1>5. StepOf(a, id) - next + 1 = Max(named)
  BY <1>4
<1> QED BY <1>1, <1>4, <1>5 DEF Added

\* The last step of an analysis is the newest there is.
LEMMA NewestStep ==
  ASSUME NEW a \in Analyses, next \in Nat \ {0}, a.steps # <<>>
  PROVE  Newest(a) \in Added(a) /\ \A n \in Added(a) : n <= Newest(a)
<1> DEFINE id == a.steps[Len(a.steps)]
           named == {i \in DOMAIN a.steps : a.steps[i] = id}
<1>1. a.steps \in Seq(Nat) /\ Len(a.steps) \in Nat \ {0}
      /\ DOMAIN a.steps = 1 .. Len(a.steps)
  BY AnalysisAssumption
<1>2. Len(a.steps) \in named
  BY <1>1
<1>3. named \subseteq Nat /\ named # {} /\ \A i \in named : i <= Len(a.steps)
  BY <1>1, <1>2
<1>4. Max(named) \in named /\ \A i \in named : i <= Max(named)
  <2> HIDE DEF named
  <2> QED BY <1>1, <1>3, Extremes
<1>5. Max(named) = Len(a.steps)
  <2>1. Max(named) <= Len(a.steps)
    BY <1>3, <1>4
  <2>2. Len(a.steps) <= Max(named)
    BY <1>2, <1>4
  <2>3. Max(named) \in Nat
    BY <1>3, <1>4
  <2> HIDE DEF named
  <2> QED BY <2>1, <2>2, <2>3, <1>1
<1>6. Newest(a) = next - 1 + Len(a.steps)
  BY <1>5 DEF Newest, StepOf
<1> QED BY <1>1, <1>6 DEF Added

-----------------------------------------------------------------------------
(***************************************************************************)
(* The invariant                                                           *)
(***************************************************************************)

\* The steps there are have been given a number, and so have the ends of all
\* edges, those included that metadata name and a restart would load.
Numbered ==
    /\ \A n \in vertices \cup saved \cup saving \cup deleting : n < next
    /\ \A e \in edges : e.from < next /\ e.to < next
    /\ \A n \in StepId : parent[n] # None => parent[n] < next /\ bond[n] # None

\* What is stored and not in the graph will be deleted, or is known to have
\* been left behind; what is in the graph will be stored, or is known not to.
StoreIsAccounted ==
    /\ deleting \cap live = {}
    /\ saved \subseteq live \cup deleting \cup outrun \cup unloaded
    /\ live \subseteq saved \cup saving \cup unsaved

\* Pruning takes the edges of a step with it.
EdgesAreLive == \A e \in edges \ widows : e.from \in live /\ e.to \in live

\* The library's graph has them too.
EdgesAreDrawn == \A e \in edges \ widows : Ends(e) \in arcs

IInv ==
    /\ TypeOK
    /\ Numbered
    /\ StoreIsAccounted
    /\ EdgesAreLive
    /\ EdgesAreDrawn
    /\ TailIsNewest
    /\ SessionsAreCapped

\* The graph is empty at the start.
LEMMA Initially == Init => IInv
<1> SUFFICES ASSUME Init PROVE IInv
  OBVIOUS
<1>1. \A s \in Session : Of(s, live) = {}
  BY DEF Init, Of
<1>2. TypeOK
  BY CapAssumption DEF Init, TypeOK
<1>3. Numbered /\ StoreIsAccounted /\ EdgesAreLive /\ EdgesAreDrawn
  BY DEF Init, Numbered, StoreIsAccounted, EdgesAreLive, EdgesAreDrawn
<1>4. TailIsNewest
  BY <1>1 DEF Init, TailIsNewest
<1>5. SessionsAreCapped
  BY <1>1, FS_EmptySet, CapAssumption DEF SessionsAreCapped
<1> QED BY <1>2, <1>3, <1>4, <1>5 DEF IInv

\* The goroutines that write the collection leave the graph alone.
LEMMA StoreStep ==
  ASSUME IInv, NEW n \in StepId, Save(n) \/ SaveFails(n) \/ DeleteStored(n)
  PROVE  IInv'
<1>1. UNCHANGED <<metaVars, graphVars, loaded, widows, flaky, crashes>>
  BY DEF Save, SaveFails, DeleteStored, history
<1>2. TypeOK'
  BY <1>1 DEF IInv, TypeOK, metaVars, graphVars, Save, SaveFails, DeleteStored, history
<1>3. Numbered'
  BY <1>1 DEF IInv, Numbered, metaVars, graphVars, Save, SaveFails, DeleteStored
<1>4. StoreIsAccounted'
  BY <1>1 DEF IInv, StoreIsAccounted, graphVars, Save, SaveFails, DeleteStored, history
<1>5. EdgesAreLive' /\ EdgesAreDrawn' /\ TailIsNewest' /\ SessionsAreCapped'
  BY <1>1 DEF IInv, EdgesAreLive, EdgesAreDrawn, TailIsNewest, SessionsAreCapped, Of,
              metaVars, graphVars
<1> QED BY <1>2, <1>3, <1>4, <1>5 DEF IInv

\* A restart builds the graph from the collection, or from nothing.
LEMMA RestartStep ==
  ASSUME IInv, NEW found, found = saved \/ found = {}, Restart(found)
  PROVE  IInv'
<1>1. /\ live' = found /\ vertices' = found /\ found \subseteq saved
      /\ saved' = saved /\ saving' = {} /\ deleting' = {}
      /\ edges' = LoadedEdges(found)
      /\ widows' = {e \in edges' : e.from \notin found}
      /\ outrun' = {} /\ unsaved' = {} /\ unloaded' = saved \ found
      /\ loaded' = Session /\ UNCHANGED metaVars
      /\ last' = [s \in Session |-> LoadedTail(s, found)]
  BY DEF Restart
<1>2. found \subseteq StepId /\ \A n \in StepId : n \in Nat
  BY <1>1, CapAssumption DEF IInv, TypeOK, StepId
<1>3. \A e \in edges' : /\ e \in Edge /\ e.to \in found /\ e.to < next
                        /\ e.from = parent[e.to] /\ e.type = bond[e.to] /\ e.from < next
  BY <1>1, <1>2 DEF IInv, TypeOK, Numbered, LoadedEdges, Edge
<1>4. arcs' \subseteq vertices' \X vertices'
  <2>1. arcs' = {Ends(e) : e \in {f \in edges' : f.from \in found}}
    BY <1>1 DEF Restart
  <2> QED BY <2>1, <1>1, <1>3 DEF Ends
<1>5. TailIsNewest' /\ last' \in [Session -> StepId \cup {None}]
  <2> SUFFICES ASSUME NEW s \in Session
               PROVE  LET t == LoadedTail(s, found)
                      IN  /\ t \in StepId \cup {None}
                          /\ t = None => Of(s, found) = {}
                          /\ t # None => /\ t \in Of(s, found)
                                         /\ \A n \in Of(s, found) : n <= t
    BY <1>1 DEF TailIsNewest, Of, metaVars
  <2>1. Of(s, found) \subseteq StepId
    BY <1>2 DEF Of
  <2>2. CASE Of(s, found) = {}
    BY <2>2 DEF LoadedTail
  <2>3. CASE Of(s, found) # {}
    <3>1. Of(s, found) \subseteq Nat /\ \A k \in Of(s, found) : k <= MaxNodes
      BY <2>1, CapAssumption DEF StepId
    <3>2. Max(Of(s, found)) \in Of(s, found)
          /\ \A k \in Of(s, found) : k <= Max(Of(s, found))
      BY <2>3, <3>1, Extremes, CapAssumption
    <3>3. None \notin Nat
      BY NoneAssumption
    <3> QED BY <2>1, <2>3, <3>1, <3>2, <3>3 DEF LoadedTail
  <2> QED BY <2>2, <2>3
<1>6. TypeOK'
  <2>1. crashes' \in 0 .. MaxCrashes /\ flaky' = flaky
    BY CapAssumption DEF IInv, TypeOK, Restart
  <2>2. \A e, f \in edges' : e.from = f.from /\ e.to = f.to => e = f
    BY <1>3 DEF Edge
  <2> QED BY <1>1, <1>2, <1>3, <1>4, <1>5, <2>1, <2>2 DEF IInv, TypeOK, metaVars
<1>7. Numbered'
  BY <1>1, <1>3 DEF IInv, Numbered, metaVars
<1>8. StoreIsAccounted'
  BY <1>1 DEF StoreIsAccounted
<1>9. EdgesAreLive' /\ SessionsAreCapped'
  BY <1>1, <1>3 DEF EdgesAreLive, SessionsAreCapped
<1>10. EdgesAreDrawn'
  <2>1. arcs' = {Ends(e) : e \in {f \in edges' : f.from \in found}}
    BY <1>1 DEF Restart
  <2> QED BY <1>1, <2>1 DEF EdgesAreDrawn
<1> QED BY <1>5, <1>6, <1>7, <1>8, <1>9, <1>10 DEF IInv

\* The bonds that are kept are edges between new steps, no two of them
\* between the same.
LEMMA KeptBonds ==
  ASSUME NEW a \in Analyses, next \in Nat \ {0}
  PROVE  /\ \A i \in Kept(a) : /\ EdgeOf(a, i).from \in Added(a)
                               /\ EdgeOf(a, i).to \in Added(a)
                               /\ EdgeOf(a, i).type \in Bond
                               /\ EdgeOf(a, i) = [from |-> EdgeOf(a, i).from,
                                    to |-> EdgeOf(a, i).to, type |-> EdgeOf(a, i).type]
         /\ \A i, j \in Kept(a) :
              EdgeOf(a, i).from = EdgeOf(a, j).from /\ EdgeOf(a, i).to = EdgeOf(a, j).to
                => i = j
         /\ \A n : BondsTo(a, n) \subseteq Kept(a)
         /\ \A n : BondsTo(a, n) # {} => Max(BondsTo(a, n)) \in BondsTo(a, n)
<1>1. /\ Kept(a) \subseteq DOMAIN a.bonds /\ DOMAIN a.bonds = 1 .. Len(a.bonds)
      /\ Len(a.bonds) \in Nat
      /\ \A i \in DOMAIN a.bonds : a.bonds[i] \in [from : Nat, to : Nat, type : Bond]
  <2> DEFINE B == [from : Nat, to : Nat, type : Bond]
  <2>1. a.bonds \in Seq(B)
    BY AnalysisAssumption
  <2>2. Kept(a) \subseteq DOMAIN a.bonds
    BY DEF Kept
  <2> HIDE DEF B
  <2>3. DOMAIN a.bonds = 1 .. Len(a.bonds) /\ Len(a.bonds) \in Nat
        /\ \A i \in 1 .. Len(a.bonds) : a.bonds[i] \in B
    BY <2>1
  <2> QED BY <2>2, <2>3 DEF B
<1>2. \A i \in Kept(a) : /\ Known(a, a.bonds[i].from) /\ Known(a, a.bonds[i].to)
                         /\ a.bonds[i].type \in Bond
  <2>1. \A i \in Kept(a) : Known(a, a.bonds[i].from) /\ Known(a, a.bonds[i].to)
    BY DEF Kept
  <2> QED BY <1>1, <2>1
<1>3. \A i \in Kept(a) : /\ EdgeOf(a, i).from = StepOf(a, a.bonds[i].from)
                         /\ EdgeOf(a, i).to = StepOf(a, a.bonds[i].to)
                         /\ EdgeOf(a, i).type = a.bonds[i].type
                         /\ EdgeOf(a, i) = [from |-> EdgeOf(a, i).from,
                              to |-> EdgeOf(a, i).to, type |-> EdgeOf(a, i).type]
  BY DEF EdgeOf
<1>4. ASSUME NEW i \in Kept(a), NEW j \in Kept(a),
             EdgeOf(a, i).from = EdgeOf(a, j).from, EdgeOf(a, i).to = EdgeOf(a, j).to
      PROVE  i = j
  <2>1. a.bonds[i].from = a.bonds[j].from /\ a.bonds[i].to = a.bonds[j].to
    BY <1>2, <1>3, <1>4, NamedSteps
  <2>2. i \in Nat \ {0} /\ j \in Nat \ {0}
    BY <1>1
  <2>3. /\ j \in 1 .. i - 1 => a.bonds[j].from # a.bonds[i].from
                               \/ a.bonds[j].to # a.bonds[i].to
        /\ i \in 1 .. j - 1 => a.bonds[i].from # a.bonds[j].from
                               \/ a.bonds[i].to # a.bonds[j].to
    BY DEF Kept
  <2>4. j \notin 1 .. i - 1 /\ i \notin 1 .. j - 1
    BY <2>1, <2>3
  <2> QED BY <2>2, <2>4
<1>5. ASSUME NEW n, BondsTo(a, n) # {} PROVE Max(BondsTo(a, n)) \in BondsTo(a, n)
  <2>1. BondsTo(a, n) \subseteq Nat /\ \A i \in BondsTo(a, n) : i <= Len(a.bonds)
    BY <1>1 DEF BondsTo
  <2> QED BY <1>1, <1>5, <2>1, Extremes
<1>6. \A i \in Kept(a) : EdgeOf(a, i).from \in Added(a) /\ EdgeOf(a, i).to \in Added(a)
  BY <1>2, <1>3, NamedSteps
<1>7. \A n : BondsTo(a, n) \subseteq Kept(a)
  BY DEF BondsTo
<1> QED BY <1>2, <1>3, <1>4, <1>5, <1>6, <1>7

\* Adding the steps of an analysis, with the pruning.
LEMMA AddStep ==
  ASSUME IInv, NEW s \in Session, NEW a \in Analyses, AddSteps(s, a)
  PROVE  IInv'
<1> DEFINE new == Added(a)
           bonds == {EdgeOf(a, i) : i \in Kept(a)}
           es == edges \cup bonds \cup Link(s, a)
           as == arcs \cup {Ends(e) : e \in es \ edges}
           nodes == Of(s, live) \cup new
           gone == Pruned(nodes, es)
           named == {StepOf(a, a.steps[i]) : i \in DOMAIN a.steps}
\* What the step does.
<1>1. /\ a.steps # <<>> /\ next + Len(a.steps) <= MaxNodes + 1
      /\ next' = next + Len(a.steps)
      /\ session' = [n \in StepId |-> IF n \in new THEN s ELSE session[n]]
      /\ parent' = [n \in StepId |-> IF n \in new THEN ParentOf(a, n) ELSE parent[n]]
      /\ bond' = [n \in StepId |-> IF n \in new THEN TypeTo(a, n) ELSE bond[n]]
      /\ live' = (live \cup new) \ gone
      /\ edges' = Without(es, gone)
      /\ vertices' = (vertices \cup new) \ (gone \ Stuck(gone, as))
      /\ arcs' = as
      /\ last' = [last EXCEPT ![s] = Newest(a)]
      /\ saving' = saving \cup (named \ gone)
      /\ deleting' = deleting \cup gone
      /\ loaded' = loaded \ {s}
      /\ unsaved' = (unsaved \cup (new \ named)) \ gone
      /\ widows' = Without(widows, gone)
      /\ UNCHANGED <<saved, flaky, crashes, outrun, unloaded>>
  BY DEF AddSteps
<1>2. /\ next \in Nat \ {0} /\ Len(a.steps) \in Nat \ {0} /\ next < next'
      /\ next' \in 1 .. MaxNodes + 1
      /\ \A n \in new : n \in StepId /\ n >= next /\ n < next'
      /\ \A n \in StepId : n \in Nat /\ n # None
  <2>1. Len(a.steps) \in Nat \ {0}
    BY <1>1, AnalysisAssumption
  <2>2. next \in 1 .. MaxNodes + 1 /\ MaxNodes \in Nat /\ None \notin Nat
    BY CapAssumption, NoneAssumption DEF IInv, TypeOK
  <2> QED BY <1>1, <2>1, <2>2 DEF Added, StepId
<1>3. named \subseteq new
  BY <1>2, NamedSteps, AnalysisAssumption DEF Known, ToSet
<1>4. /\ nodes \subseteq StepId /\ gone \subseteq nodes
      /\ live \subseteq StepId /\ vertices \subseteq StepId
      /\ \A n \in live : n < next /\ n \in vertices /\ n \notin new
      /\ \A n \in vertices \cup saved \cup saving \cup deleting : n < next /\ n \notin new
  <2>1. live \subseteq vertices /\ vertices \subseteq StepId
        /\ saved \cup saving \cup deleting \subseteq StepId
    BY DEF IInv, TypeOK
  <2>2. \A n \in vertices \cup saved \cup saving \cup deleting : n < next /\ n \notin new
    BY <2>1, <1>2 DEF IInv, Numbered
  <2>3. nodes \subseteq StepId
    BY <1>2, <2>1 DEF Of
  <2>4. gone \subseteq nodes
    BY DEF Pruned
  <2> QED BY <2>1, <2>2, <2>3, <2>4
\* The edges: the old ones, the bonds, and the link from the tail.
<1>5. \A e \in bonds : /\ e \in Edge /\ e.from \in new /\ e.to \in new
  <2>1. \A i \in Kept(a) : EdgeOf(a, i).from \in StepId /\ EdgeOf(a, i).to \in StepId
    BY <1>2, KeptBonds
  <2> QED BY <1>2, <2>1, KeptBonds DEF Edge
<1>6. \A e \in Link(s, a) : /\ e \in Edge /\ e.from \in live /\ e.to \in new
                            /\ e = [from |-> last[s], to |-> e.to, type |-> "E"]
                            /\ e.to = StepOf(a, a.steps[1])
  <2>1. last[s] \in vertices => last[s] \in live
    BY <1>2, <1>4 DEF IInv, TailIsNewest, Of
  <2>2. Known(a, a.steps[1])
    BY <1>1, <1>2, AnalysisAssumption DEF Known, ToSet
  <2>3. StepOf(a, a.steps[1]) \in new
    BY <1>2, <2>2, NamedSteps
  <2> QED BY <1>2, <1>4, <2>1, <2>3 DEF Link, Edge, Bond
<1> HIDE DEF new, bonds, nodes, gone, named
<1>7. edges \subseteq Edge /\ \A e \in edges : e.from < next /\ e.to < next
                                               /\ e.from \notin new /\ e.to \notin new
  <2>1. edges \subseteq Edge
    BY DEF IInv, TypeOK
  <2>2. \A e \in edges : e.from < next /\ e.to < next /\ e.from \in StepId /\ e.to \in StepId
    BY <2>1 DEF IInv, Numbered, Edge
  <2> QED BY <1>2, <2>1, <2>2
<1>8. \A e \in es : e \in Edge /\ e.from < next' /\ e.to < next'
  <2>1. \A n \in StepId : n < next => n < next'
    BY <1>2
  <2>2. \A n \in live \cup new : n < next'
    BY <1>2, <1>4, <2>1
  <2>3. \A e \in edges : e \in Edge /\ e.from < next' /\ e.to < next'
    BY <1>7, <2>1 DEF Edge
  <2> QED BY <1>5, <1>6, <2>2, <2>3
<1>9. \A e, f \in es : e.from = f.from /\ e.to = f.to => e = f
  <2>1. \A e, f \in edges : e.from = f.from /\ e.to = f.to => e = f
    BY DEF IInv, TypeOK
  <2>2. \A e, f \in bonds : e.from = f.from /\ e.to = f.to => e = f
    BY <1>2, KeptBonds DEF bonds
  <2>3. \A e, f \in Link(s, a) : e = f
    BY <1>6
  <2>4. \A e \in Link(s, a) : e.from \notin new
    BY <1>4, <1>6
  <2> QED BY <2>1, <2>2, <2>3, <2>4, <1>5, <1>6, <1>7
<1>10. as \subseteq (vertices \cup new) \X (vertices \cup new)
  <2>1. \A e \in es \ edges : e.from \in vertices \cup new /\ e.to \in vertices \cup new
    BY <1>4, <1>5, <1>6
  <2>2. arcs \subseteq vertices \X vertices
    BY DEF IInv, TypeOK
  <2> HIDE DEF es
  <2> QED BY <2>1, <2>2 DEF Ends
<1> HIDE DEF es, as
\* Types
<1>11. TypeOK'
  <2>1. session' \in [StepId -> Session \cup {None}]
    BY <1>1 DEF IInv, TypeOK
  <2>2. \A n \in new : ParentOf(a, n) \in StepId \cup {None} /\ TypeTo(a, n) \in Bond \cup {None}
    <3>1. \A i \in Kept(a) : EdgeOf(a, i).from \in StepId /\ EdgeOf(a, i).type \in Bond
      BY <1>2, KeptBonds DEF new
    <3> QED BY <1>2, <3>1, KeptBonds DEF ParentOf, TypeTo
  <2>3. parent' \in [StepId -> StepId \cup {None}] /\ bond' \in [StepId -> Bond \cup {None}]
    BY <1>1, <2>2 DEF IInv, TypeOK
  <2>4. live' \subseteq vertices' /\ vertices' \subseteq StepId
    BY <1>1, <1>2, <1>4
  <2>5. edges' \subseteq Edge /\ \A e, f \in edges' : e.from = f.from /\ e.to = f.to => e = f
    BY <1>1, <1>8, <1>9 DEF Without
  <2>6. arcs' \subseteq vertices' \X vertices'
    <3>1. \A arc \in as : /\ arc[1] \in gone => arc[1] \in Stuck(gone, as)
                          /\ arc[2] \in gone => arc[2] \in Stuck(gone, as)
      BY DEF Stuck, Touches
    <3> QED BY <1>1, <1>10, <3>1
  <2>7. last' \in [Session -> StepId \cup {None}]
    <3>1. Newest(a) \in StepId
      BY <1>1, <1>2, NewestStep DEF new
    <3> QED BY <1>1, <3>1 DEF IInv, TypeOK
  <2>8. /\ saved' \subseteq StepId /\ saving' \subseteq StepId /\ deleting' \subseteq StepId
        /\ unsaved' \subseteq StepId /\ widows' \subseteq Edge /\ loaded' \subseteq Session
    BY <1>1, <1>2, <1>3, <1>4 DEF IInv, TypeOK, Without
  <2>9. flaky' \in BOOLEAN /\ crashes' \in 0 .. MaxCrashes /\ outrun' \subseteq StepId
        /\ unloaded' \subseteq StepId
    BY <1>1 DEF IInv, TypeOK
  <2> QED BY <1>2, <2>1, <2>3, <2>4, <2>5, <2>6, <2>7, <2>8, <2>9 DEF TypeOK
<1>12. Numbered'
  <2>1. \A n \in vertices' \cup saved' \cup saving' \cup deleting' : n < next'
    <3>1. \A n \in vertices \cup saved \cup saving \cup deleting \cup new : n < next'
      <4>1. vertices \cup saved \cup saving \cup deleting \subseteq StepId
        BY DEF IInv, TypeOK
      <4> QED BY <1>2, <1>4, <4>1
    <3>2. gone \subseteq vertices \cup new
      BY <1>4 DEF nodes, Of
    <3> QED BY <1>1, <1>3, <3>1, <3>2
  <2>2. \A e \in edges' : e.from < next' /\ e.to < next'
    BY <1>1, <1>8 DEF Without
  <2>3. ASSUME NEW n \in StepId, parent'[n] # None
        PROVE  parent'[n] < next' /\ bond'[n] # None
    <3>1. CASE n \in new
      <4>1. BondsTo(a, n) # {} /\ parent'[n] = EdgeOf(a, Max(BondsTo(a, n))).from
            /\ bond'[n] = EdgeOf(a, Max(BondsTo(a, n))).type
        BY <1>1, <2>3, <3>1 DEF ParentOf, TypeTo
      <4>2. Max(BondsTo(a, n)) \in Kept(a)
        BY <1>2, <4>1, KeptBonds
      <4>3. bond'[n] \in Bond /\ parent'[n] \in new
        BY <1>2, <4>1, <4>2, KeptBonds DEF new
      <4>4. None \notin Bond
        BY NoneAssumption DEF Bond
      <4> QED BY <1>2, <4>3, <4>4
    <3>2. CASE n \notin new
      <4>1. parent'[n] = parent[n] /\ bond'[n] = bond[n]
        BY <1>1, <3>2
      <4>2. parent[n] < next /\ bond[n] # None /\ parent[n] \in StepId
        BY <2>3, <4>1 DEF IInv, Numbered, TypeOK
      <4> QED BY <1>2, <4>1, <4>2
    <3> QED BY <3>1, <3>2
  <2> QED BY <2>1, <2>2, <2>3 DEF Numbered
\* The collection
<1>13. StoreIsAccounted'
  <2>1. deleting' \cap live' = {}
    BY <1>1, <1>4 DEF IInv, StoreIsAccounted
  <2>2. saved' \subseteq live' \cup deleting' \cup outrun' \cup unloaded'
    BY <1>1 DEF IInv, StoreIsAccounted
  <2>3. live' \subseteq saved' \cup saving' \cup unsaved'
    BY <1>1 DEF IInv, StoreIsAccounted
  <2> QED BY <2>1, <2>2, <2>3 DEF StoreIsAccounted
\* The topology
<1>14. EdgesAreLive'
  <2> SUFFICES ASSUME NEW e \in edges' \ widows' PROVE e.from \in live' /\ e.to \in live'
    BY DEF EdgesAreLive
  <2>1. e \in es /\ e.from \notin gone /\ e.to \notin gone /\ e \notin widows
    <3>1. e \in es /\ ~ Touches(Ends(e), gone) /\ e \notin widows
      BY <1>1 DEF Without
    <3> QED BY <3>1 DEF Touches, Ends
  <2>2. e.from \in live \cup new /\ e.to \in live \cup new
    BY <2>1, <1>5, <1>6 DEF es, IInv, EdgesAreLive
  <2> QED BY <1>1, <2>1, <2>2
<1>19. EdgesAreDrawn'
  <2> SUFFICES ASSUME NEW e \in edges' \ widows' PROVE Ends(e) \in arcs'
    BY DEF EdgesAreDrawn
  <2>1. e \in es /\ e \notin widows
    BY <1>1 DEF Without
  <2>2. CASE e \in edges
    BY <1>1, <2>1, <2>2 DEF as, IInv, EdgesAreDrawn
  <2>3. CASE e \notin edges
    BY <1>1, <2>1, <2>3 DEF as
  <2> QED BY <2>2, <2>3
\* The sessions: the other ones keep what they had.
<1>15. Of(s, live)' = nodes \ gone
  BY <1>1, <1>4 DEF Of, nodes
<1>16. \A t \in Session \ {s} : Of(t, live)' = Of(t, live)
  <2>1. \A n \in gone : n \in new \/ session[n] = s
    BY <1>4 DEF nodes, Of
  <2> SUFFICES ASSUME NEW t \in Session \ {s}, NEW n
               PROVE  n \in Of(t, live)' <=> n \in Of(t, live)
    OBVIOUS
  <2>2. n \in Of(t, live)' <=> n \in live' /\ session'[n] = t
    BY DEF Of
  <2>3. n \in live => n \notin new /\ session'[n] = session[n]
    BY <1>1, <1>4
  <2>4. n \in new => session'[n] = s
    BY <1>1, <1>2
  <2>5. session[n] = t /\ n \in live => n \notin gone
    BY <2>1, <2>3
  <2> QED BY <1>1, <2>2, <2>3, <2>4, <2>5 DEF Of
<1>17. TailIsNewest'
  <2>1. Newest(a) \in new /\ \A n \in new : n <= Newest(a)
    BY <1>1, <1>2, NewestStep DEF new
  <2>2. Newest(a) \in nodes /\ \A n \in nodes : n <= Newest(a)
    <3>1. \A n \in nodes \ new : n < next /\ n \in StepId
      BY <1>4 DEF nodes, Of
    <3> QED BY <1>2, <2>1, <3>1 DEF nodes
  <2>3. Newest(a) \in nodes \ gone
    BY <1>4, <2>2, TailSurvives DEF gone
  <2>4. last'[s] = Newest(a) /\ \A t \in Session \ {s} : last'[t] = last[t]
    BY <1>1 DEF IInv, TypeOK
  <2>5. ASSUME NEW t \in Session
        PROVE  /\ last'[t] = None => Of(t, live)' = {}
               /\ last'[t] # None => /\ last'[t] \in Of(t, live)'
                                     /\ \A n \in Of(t, live)' : n <= last'[t]
    <3>1. CASE t = s
      BY <3>1, <1>2, <1>4, <1>15, <2>2, <2>3, <2>4
    <3>2. CASE t # s
      BY <3>2, <1>16, <2>4 DEF IInv, TailIsNewest
    <3> QED BY <3>1, <3>2
  <2> QED BY <2>5 DEF TailIsNewest
<1>18. SessionsAreCapped'
  <2>1. Cardinality(nodes \ gone) <= Cap
    BY <1>4, PruningCaps DEF gone
  <2> QED BY <1>1, <1>15, <1>16, <2>1 DEF IInv, SessionsAreCapped
<1> QED BY <1>11, <1>12, <1>13, <1>14, <1>17, <1>18, <1>19 DEF IInv

\* Every step keeps the invariant.
LEMMA Inductive == IInv /\ [Next]_vars => IInv'
<1> SUFFICES ASSUME IInv, [Next]_vars PROVE IInv'
  OBVIOUS
<1>1. CASE UNCHANGED vars
  BY <1>1 DEF vars, IInv, TypeOK, Numbered, StoreIsAccounted, EdgesAreLive,
              EdgesAreDrawn, TailIsNewest, SessionsAreCapped, Of
<1>2. CASE \E s \in Session, a \in Analyses : AddSteps(s, a)
  BY <1>2, AddStep
<1>3. CASE \E n \in StepId : Save(n) \/ SaveFails(n) \/ DeleteStored(n)
  BY <1>3, StoreStep
<1>4. CASE Load
  BY <1>4, RestartStep DEF Load
<1>5. CASE LoadFails
  BY <1>5, RestartStep DEF LoadFails
<1> QED BY <1>1, <1>2, <1>3, <1>4, <1>5 DEF Next

LEMMA Invariance == Spec => []IInv
BY Initially, Inductive, PTL DEF Spec

-----------------------------------------------------------------------------
(***************************************************************************)
(* The walk back from the tail                                             *)
(***************************************************************************)

\* p is a step to go to from n.
Bonded(p, n) == \/ \E e \in edges : Ends(e) = <<p, n>>
                \/ ~ \E e \in edges \ widows : e.to = n

\* A path to the tail of s, of at most d steps back.
Walk(path, s, d) ==
    /\ path \in Seq(StepId) /\ Len(path) \in 1 .. d + 1
    /\ \A i, j \in 1 .. Len(path) : path[i] = path[j] => i = j
    /\ path[Len(path)] = last[s]
    /\ \A i \in 1 .. Len(path) - 1 : Bonded(path[i], path[i + 1])

\* The best predecessors are bonded: without an edge that is known the step has
\* none at all, for the library's graph has all of them.
LEMMA BestAreBonded ==
  ASSUME IInv, NEW n, NEW p \in BestPredecessors(n)
  PROVE  p \in StepId /\ Bonded(p, n)
<1> DEFINE preds == {arc[1] : arc \in {x \in arcs : x[2] = n}}
           known == {e \in edges : e.to = n /\ e.from \in preds}
<1>1. arcs \subseteq StepId \X StepId /\ edges \subseteq Edge
  BY DEF IInv, TypeOK
<1>2. CASE known = {}
  <2>1. p \in preds
    BY <1>2 DEF BestPredecessors
  <2>2. p \in StepId
    BY <1>1, <2>1
  <2>3. ASSUME NEW e \in edges \ widows, e.to = n
        PROVE  FALSE
    <3>1. Ends(e) \in arcs /\ Ends(e)[1] = e.from /\ Ends(e)[2] = n
      BY <2>3 DEF IInv, EdgesAreDrawn, Ends
    <3>2. e \in known
      BY <2>3, <3>1
    <3> QED BY <1>2, <3>2
  <2> QED BY <2>2, <2>3 DEF Bonded
<1>3. CASE known # {}
  <2>1. PICK e \in known : p = e.from
    BY <1>3 DEF BestPredecessors
  <2>2. Ends(e) = <<p, n>> /\ e \in Edge
    BY <1>1, <2>1 DEF Ends
  <2> QED BY <2>1, <2>2 DEF Bonded, Edge
<1> QED BY <1>2, <1>3

\* One step back from the head of a path.
LEMMA WalkOn ==
  ASSUME IInv, NEW s, NEW d \in Nat, NEW path, Walk(path, s, d),
         NEW on \in Extensions(path)
  PROVE  Walk(on, s, d + 1)
<1>1. path \in Seq(StepId) /\ Len(path) \in Nat \ {0} /\ Len(path) <= d + 1
      /\ Head(path) = path[1]
  BY DEF Walk
<1>2. CASE on = path
  BY <1>1, <1>2 DEF Walk
<1>3. CASE on # path
  <2>1. PICK p : /\ p \in BestPredecessors(Head(path)) \ ToSet(path)
                 /\ on = <<p>> \o path
    BY <1>3 DEF Extensions
  <2>2. p \in StepId /\ Bonded(p, path[1])
    BY <1>1, <2>1, BestAreBonded
  <2>3. /\ on \in Seq(StepId) /\ Len(on) = Len(path) + 1 /\ on[1] = p
        /\ \A i \in 2 .. Len(on) : on[i] = path[i - 1] /\ i - 1 \in 1 .. Len(path)
    BY <1>1, <2>1, <2>2
  <2>4. \A i \in 1 .. Len(path) : path[i] # p
    BY <1>1, <2>1 DEF ToSet
  <2>5. ASSUME NEW i \in 1 .. Len(on), NEW j \in 1 .. Len(on), on[i] = on[j]
        PROVE  i = j
    <3>1. ASSUME NEW k \in 2 .. Len(on) PROVE on[k] # on[1]
      BY <2>3, <2>4
    <3>2. CASE i \in 2 .. Len(on) /\ j \in 2 .. Len(on)
      <4>1. i - 1 \in 1 .. Len(path) /\ j - 1 \in 1 .. Len(path)
            /\ path[i - 1] = path[j - 1]
        BY <2>3, <2>5, <3>2
      <4>2. i - 1 = j - 1
        BY <4>1 DEF Walk
      <4> QED BY <4>2
    <3>3. CASE i = 1 /\ j # 1
      BY <1>1, <2>3, <2>5, <3>1, <3>3
    <3>4. CASE i # 1 /\ j = 1
      BY <1>1, <2>3, <2>5, <3>1, <3>4
    <3> QED BY <1>1, <2>3, <3>2, <3>3, <3>4
  <2>6. on[Len(on)] = last[s]
    BY <1>1, <2>3 DEF Walk
  <2>7. ASSUME NEW i \in 1 .. Len(on) - 1
        PROVE  Bonded(on[i], on[i + 1])
    <3>1. CASE i = 1
      BY <1>1, <2>2, <2>3, <3>1
    <3>2. CASE i # 1
      <4>1. i - 1 \in 1 .. Len(path) - 1 /\ on[i] = path[i - 1] /\ on[i + 1] = path[i]
            /\ (i - 1) + 1 = i
        BY <1>1, <2>3, <3>2
      <4>2. Bonded(path[i - 1], path[(i - 1) + 1])
        BY <4>1 DEF Walk
      <4> QED BY <4>1, <4>2
    <3> QED BY <3>1, <3>2
  <2>8. Len(on) \in 1 .. (d + 1) + 1
    BY <1>1, <2>3
  <2> QED BY <2>3, <2>5, <2>6, <2>7, <2>8 DEF Walk
<1> QED BY <1>2, <1>3

\* walked holds the paths after each number of steps up to a depth.
Walking(walked, s, depth) ==
    walked = [d \in 0 .. depth |->
                IF d = 0 THEN {<<last[s]>>}
                ELSE Further(walked[d - 1])]

LEMMA Walked ==
  ASSUME NEW w, NEW s, NEW depth \in Nat, Walking(w, s, depth)
  PROVE  /\ w[0] = {<<last[s]>>}
         /\ \A d \in 1 .. depth : w[d] = Further(w[d - 1])
<1> DEFINE W(d) == IF d = 0 THEN {<<last[s]>>} ELSE Further(w[d - 1])
<1>1. w = [d \in 0 .. depth |-> W(d)]
  BY DEF Walking
<1> HIDE DEF W
<1>2. \A d \in 0 .. depth : w[d] = W(d)
  BY <1>1
<1> QED BY <1>2 DEF W

\* Induction over the natural numbers, for a set.
LEMMA Induction ==
  ASSUME NEW P \in SUBSET Nat, 0 \in P, \A n \in P : n + 1 \in P
  PROVE  P = Nat
<1> SUFFICES ASSUME Nat \ P # {} PROVE FALSE
  OBVIOUS
<1>1. PICK n \in Nat \ P : \A m \in Nat \ P : ~ (<<m, n>> \in OpToRel(<, Nat))
  BY NatLessThanWellFounded, WFMin
<1>2. \A m \in Nat : m < n => m \in P
  BY <1>1 DEF OpToRel
<1>3. n # 0
  OBVIOUS
<1>4. n - 1 \in P /\ n = (n - 1) + 1
  BY <1>2, <1>3
<1> QED BY <1>1, <1>4

\* One can walk to any depth.
LEMMA OneCanWalk ==
  ASSUME NEW s, NEW depth \in Nat
  PROVE  \E w : Walking(w, s, depth)
<1> DEFINE P == {n \in Nat : \E w : Walking(w, s, n)}
<1>1. 0 \in P
  <2>1. Walking([d \in 0 .. 0 |-> {<<last[s]>>}], s, 0)
    BY DEF Walking
  <2> QED BY <2>1
<1>2. ASSUME NEW n \in P PROVE n + 1 \in P
  <2>1. PICK w : Walking(w, s, n)
    BY <1>2
  <2> DEFINE v == [d \in 0 .. n + 1 |-> IF d <= n THEN w[d] ELSE Further(w[d - 1])]
  <2>2. ASSUME NEW d \in 0 .. n + 1
        PROVE  v[d] = IF d = 0 THEN {<<last[s]>>} ELSE Further(v[d - 1])
    <3>1. CASE d = 0
      BY <2>1, <3>1, Walked
    <3>2. CASE d \in 1 .. n
      <4>1. w[d] = Further(w[d - 1])
        BY <2>1, <3>2, Walked
      <4>2. v[d] = w[d] /\ v[d - 1] = w[d - 1]
        BY <3>2
      <4> QED BY <3>2, <4>1, <4>2
    <3>3. CASE d = n + 1
      BY <3>3
    <3> QED BY <3>1, <3>2, <3>3
  <2>3. Walking(v, s, n + 1)
    BY <2>2 DEF Walking
  <2> QED BY <2>3
<1>3. P = Nat
  BY <1>1, <1>2, Induction
<1> QED BY <1>3

\* The paths GetStrongPath may return are walks.
LEMMA PathsAreWalks ==
  ASSUME IInv, NEW s \in Session, NEW path \in StrongPaths(s)
  PROVE  last[s] # None /\ Walk(path, s, MaxDepth - 1)
<1> DEFINE depth == MaxDepth - 1
<1>1. depth \in Nat
  BY CapAssumption
<1>2. last[s] # None /\ last[s] \in StepId
  BY DEF StrongPaths, IInv, TypeOK
<1>3. PICK w : Walking(w, s, depth) /\ path \in w[depth]
  <2>1. \E w : Walking(w, s, depth)
    BY <1>1, OneCanWalk
  <2> QED BY <2>1, <1>2 DEF StrongPaths, Walking
<1> DEFINE P == {d \in Nat : d <= depth => \A p \in w[d] : Walk(p, s, d)}
<1>4. 0 \in P
  <2>1. w[0] = {<<last[s]>>}
    BY <1>1, <1>3, Walked
  <2>2. Walk(<<last[s]>>, s, 0)
    BY <1>2 DEF Walk
  <2> QED BY <2>1, <2>2
<1>5. ASSUME NEW d \in P PROVE d + 1 \in P
  <2> SUFFICES ASSUME d + 1 <= depth, NEW on \in w[d + 1]
               PROVE  Walk(on, s, d + 1)
    OBVIOUS
  <2>1. d + 1 \in 1 .. depth /\ (d + 1) - 1 = d /\ d <= depth
    BY <1>1
  <2>2. w[d + 1] = Further(w[(d + 1) - 1])
    BY <1>1, <1>3, <2>1, Walked
  <2>3. PICK p \in w[d] : on \in Extensions(p)
    BY <2>1, <2>2 DEF Further
  <2>4. Walk(p, s, d)
    BY <2>1, <1>5
  <2> QED BY <2>3, <2>4, WalkOn
<1>6. P = Nat
  <2> HIDE DEF P
  <2>1. P \in SUBSET Nat
    BY DEF P
  <2> QED BY <1>4, <1>5, <2>1, Induction
<1>7. depth \in P
  BY <1>1, <1>6
<1> QED BY <1>1, <1>2, <1>3, <1>7

-----------------------------------------------------------------------------
(***************************************************************************)
(* The theorems                                                            *)
(***************************************************************************)

\* Every variable keeps its type; two edges never join the same two steps
\* (AddStepsFromAnalysis, pruneSessionLocked, loadFromMemorySystem).
THEOREM TypeCorrect == Spec => []TypeOK
<1>1. IInv => TypeOK
  BY DEF IInv
<1> QED BY <1>1, Invariance, PTL

\* A session that was added to holds at most Cap steps, whatever cycles its
\* bonds make (pruneSessionLocked).
THEOREM CapIsKept == Spec => []SessionsAreCapped
<1>1. IInv => SessionsAreCapped
  BY DEF IInv
<1> QED BY <1>1, Invariance, PTL

\* The tail of a session is its newest step and is not pruned away
\* (lastNode in AddStepsFromAnalysis, pruneSessionLocked and
\* loadFromMemorySystem).
THEOREM TailsAreNewest == Spec => []TailIsNewest
<1>1. IInv => TailIsNewest
  BY DEF IInv
<1> QED BY <1>1, Invariance, PTL

\* The edges GetTopology serves lead between steps it serves, but for those a
\* restart loaded from metadata.
THEOREM TopologyIsClosed == Spec => []EdgesHaveEnds
<1>1. IInv => EdgesHaveEnds
  <2> SUFFICES ASSUME IInv, NEW s \in Session \cup {None},
                      NEW e \in Topology(s).edges \ widows
               PROVE  e.from \in Topology(s).nodes /\ e.to \in Topology(s).nodes
    BY DEF EdgesHaveEnds
  <2>1. CASE s = None
    BY <2>1 DEF Topology, IInv, EdgesAreLive
  <2>2. CASE s # None
    BY <2>2 DEF Topology
  <2> QED BY <2>1, <2>2
<1> QED BY <1>1, Invariance, PTL

\* The path retrieval follows ends at the tail, which the prompt is shown; it
\* visits no step twice and leaves the recorded edges only where there are none
\* (GetStrongPath, BuildGraphContext), in whatever order steps were added and
\* pruned, restarts and failed loads included.
THEOREM PathsFollowBonds == Spec => []PathFollowsBonds
<1>1. IInv => PathFollowsBonds
  <2> SUFFICES ASSUME IInv, NEW s \in Session, NEW path \in StrongPaths(s)
               PROVE  /\ Len(path) <= MaxDepth /\ IsInjective(path)
                      /\ last[s] \in Shown(path)
                      /\ \A i \in 1 .. Len(path) - 1 : Bonded(path[i], path[i + 1])
    BY DEF PathFollowsBonds, Bonded
  <2>1. last[s] # None /\ Walk(path, s, MaxDepth - 1)
    BY PathsAreWalks
  <2>2. DOMAIN path = 1 .. Len(path) /\ Len(path) \in Nat \ {0} /\ Len(path) <= MaxDepth
    BY <2>1, CapAssumption DEF Walk
  <2>3. IsInjective(path)
    BY <2>1, <2>2 DEF Walk, IsInjective
  <2>4. last[s] \in Shown(path)
    BY <2>1, <2>2 DEF Walk, Shown, ToSet, IInv, TailIsNewest, Of
  <2> QED BY <2>1, <2>2, <2>3, <2>4 DEF Walk
<1> QED BY <1>1, Invariance, PTL

\* When the goroutines of the graph are through, the collection holds the
\* steps the graph holds, but for the four ways the code leaves one behind.
THEOREM StoreFollowsGraph == Spec => []QuietStoreMatches
<1>1. IInv => QuietStoreMatches
  BY DEF IInv, StoreIsAccounted, QuietStoreMatches
<1> QED BY <1>1, Invariance, PTL

=============================================================================
