----------------------------- MODULE MemoryGraph ----------------------------
(***************************************************************************)
(* The Mole-Syn graph of reasoning steps (mole_syn.MemoryGraph in          *)
(* src/internal/engine/memory/mole_syn/memory_graph.go).                   *)
(*                                                                         *)
(* Four records of the same steps are kept: vertexData and edgeData, which *)
(* say what exists; the graph of the library, which is only walked; and a  *)
(* vector collection, which is all that a restart finds.  The first three  *)
(* change under one lock; the collection is written by one goroutine per   *)
(* step, started under the lock and run in any order after it.             *)
(*                                                                         *)
(* A step is the number of its uuid in the order of the timestamps, so     *)
(* that "older" is "smaller".  What a step says is left out, and so are    *)
(* the transition counts, which are written and never read.                *)
(***************************************************************************)
EXTENDS Naturals, Sequences, FiniteSets, FiniteSetsExt, SequencesExt

CONSTANTS
    Session,
    Analyses,   \* what a model may say of a trace: [steps, bonds], see below
    Cap,        \* maxNodesPerSession
    MinExtra,   \* the least a cyclic session is pruned further (5)
    Share,      \* or this part of its steps (10)
    MaxDepth,   \* graph_steps of the retrieval configuration
    MaxNodes,   \* bound on the steps that are ever added
    MaxCrashes, \* bound on the number of restarts
    None

Bond == {"D", "R", "E"}
StepId == 1 .. MaxNodes

\* The JSON a model answers: steps with ids of its own choosing, which may
\* repeat, and bonds between them, which may name steps that are not there.
ASSUME AnalysisAssumption ==
    \A a \in Analyses :
        /\ a.steps \in Seq(Nat)
        /\ a.bonds \in Seq([from : Nat, to : Nat, type : Bond])

\* A cyclic session keeps at least one step.  The code does not ask for it:
\* with a cap of 5 such a session is wiped, with less the slice expression
\* of pruneSessionLocked panics.
ASSUME CapAssumption ==
    /\ Cap \in Nat /\ MinExtra \in Nat /\ Share \in Nat \ {0}
    /\ MaxNodes \in Nat /\ MaxDepth \in Nat \ {0} /\ MaxCrashes \in Nat
    /\ MinExtra < Cap /\ MaxNodes \div Share < Cap

ASSUME NoneAssumption == None \notin Session /\ None \notin Nat /\ None \notin Bond

VARIABLES
    next,      \* the next step
    session,   \* session[n]: the session in the metadata of step n
    parent,    \* parent[n]: parent_id in its metadata, the tail of a bond to n
    bond,      \* bond[n]: the type of that bond
    live,      \* vertexData
    edges,     \* edgeData: [from, to, type]
    vertices,  \* the vertices of the library's graph
    arcs,      \* its edges, as pairs
    last,      \* lastNode
    saved,     \* the vector collection
    saving,    \* goroutines that will add a step to it
    deleting,  \* goroutines that will delete one from it
    flaky,     \* embeddings come from a service, which may fail
    crashes,
    \* History, not part of the program:
    loaded,    \* sessions that were not added to since they were loaded
    unsaved,   \* live steps whose save failed or was never tried
    outrun,    \* steps whose deletion came before their save
    unloaded,  \* steps in the collection when a load failed
    widows     \* edges loaded without the step they come from

graphVars == <<live, edges, vertices, arcs, last>>
storeVars == <<saved, saving, deleting>>
metaVars == <<next, session, parent, bond>>
history == <<loaded, unsaved, outrun, unloaded, widows>>
vars == <<next, session, parent, bond, live, edges, vertices, arcs, last, saved,
          saving, deleting, flaky, crashes, loaded, unsaved, outrun, unloaded,
          widows>>

Edge == [from : StepId, to : StepId, type : Bond]

TypeOK ==
    /\ next \in 1 .. MaxNodes + 1
    /\ session \in [StepId -> Session \cup {None}]
    /\ parent \in [StepId -> StepId \cup {None}]
    /\ bond \in [StepId -> Bond \cup {None}]
    /\ live \subseteq vertices /\ vertices \subseteq StepId
    /\ edges \subseteq Edge
    /\ \A e, f \in edges : e.from = f.from /\ e.to = f.to => e = f
    /\ arcs \subseteq vertices \X vertices
    /\ last \in [Session -> StepId \cup {None}]
    /\ saved \subseteq StepId /\ saving \subseteq StepId /\ deleting \subseteq StepId
    /\ flaky \in BOOLEAN /\ crashes \in 0 .. MaxCrashes
    /\ loaded \subseteq Session /\ unsaved \subseteq StepId
    /\ outrun \subseteq StepId /\ unloaded \subseteq StepId /\ widows \subseteq Edge

Init ==
    /\ next = 1
    /\ session = [n \in StepId |-> None]
    /\ parent = [n \in StepId |-> None]
    /\ bond = [n \in StepId |-> None]
    /\ live = {} /\ edges = {} /\ vertices = {} /\ arcs = {}
    /\ last = [s \in Session |-> None]
    /\ saved = {} /\ saving = {} /\ deleting = {}
    /\ flaky \in BOOLEAN /\ crashes = 0
    /\ loaded = {} /\ unsaved = {} /\ outrun = {} /\ unloaded = {} /\ widows = {}

Of(s, nodes) == {n \in nodes : session[n] = s}
Ends(e) == <<e.from, e.to>>
Touches(arc, nodes) == arc[1] \in nodes \/ arc[2] \in nodes

-----------------------------------------------------------------------------
(***************************************************************************)
(* Adding the steps of an analysis                                         *)
(***************************************************************************)

\* Faulty: the earlier of two steps with one id keeps it.
StepOf_First(a, id) == next - 1 + Min({i \in DOMAIN a.steps : a.steps[i] = id})

\* The new steps, and the one a model's step id stands for: the latest so
\* named, for stepIDMap forgets the earlier ones.
Added(a) == next .. (next + Len(a.steps) - 1)
Known(a, id) == id \in ToSet(a.steps)
StepOf(a, id) == next - 1 + Max({i \in DOMAIN a.steps : a.steps[i] = id})
Newest(a) == StepOf(a, a.steps[Len(a.steps)])

\* The bonds that become edges: both ends are known, and the library refuses
\* an edge it already has.
Kept(a) ==
    {i \in DOMAIN a.bonds :
        /\ Known(a, a.bonds[i].from) /\ Known(a, a.bonds[i].to)
        /\ \A j \in 1 .. i - 1 : \/ a.bonds[j].from # a.bonds[i].from
                                 \/ a.bonds[j].to # a.bonds[i].to}

EdgeOf(a, i) == [from |-> StepOf(a, a.bonds[i].from),
                 to |-> StepOf(a, a.bonds[i].to), type |-> a.bonds[i].type]

\* The edge from the tail of the session, which leaves no trace in metadata.
\* The tail is looked up in the library's graph.
Link(s, a) ==
    IF last[s] \in vertices
    THEN {[from |-> last[s], to |-> StepOf(a, a.steps[1]), type |-> "E"]}
    ELSE {}

\* The metadata of a step: its last bond.
BondsTo(a, n) == {i \in Kept(a) : EdgeOf(a, i).to = n}
ParentOf(a, n) == IF BondsTo(a, n) = {} THEN None
                  ELSE EdgeOf(a, Max(BondsTo(a, n))).from
TypeTo(a, n) == IF BondsTo(a, n) = {} THEN None
                ELSE EdgeOf(a, Max(BondsTo(a, n))).type

\* graph.TopologicalSort fails: some steps all have a successor among them.
IsCyclic(nodes, es) ==
    \E circle \in SUBSET nodes \ {{}} :
        \A n \in circle : \E e \in es : e.from = n /\ e.to \in circle

\* Faulty: one step too few.
Pruned_OffByOne(nodes, es) ==
    IF Cardinality(nodes) <= Cap THEN {}
    ELSE {m \in nodes :
            Cardinality({k \in nodes : k < m}) < Cardinality(nodes) - Cap - 1}

\* What pruneSessionLocked removes: the oldest steps.
Pruned(nodes, es) ==
    LET n == Cardinality(nodes)
        extra == IF IsCyclic(nodes, es) THEN Max({MinExtra, n \div Share}) ELSE 0
    IN  IF n <= Cap THEN {}
        ELSE {m \in nodes : Cardinality({k \in nodes : k < m}) < n - Cap + extra}

\* A vertex with edges is not removed from the library's graph, and its
\* edges never are.
Stuck(gone, as) == {n \in gone : \E arc \in as : Touches(arc, {n})}

\* Faulty: only the edges that lead out of what is removed are.
Without_Outgoing(es, gone) == {e \in es : e.from \notin gone}

Without(es, gone) == {e \in es : ~Touches(Ends(e), gone)}

\* AddStepsFromAnalysis, up to the goroutines it starts.
AddSteps(s, a) ==
    LET new == Added(a)
        es == edges \cup {EdgeOf(a, i) : i \in Kept(a)} \cup Link(s, a)
        as == arcs \cup {Ends(e) : e \in es \ edges}
        gone == Pruned(Of(s, live) \cup new, es)
        named == {StepOf(a, a.steps[i]) : i \in DOMAIN a.steps}
    IN  /\ a.steps # <<>> /\ next + Len(a.steps) <= MaxNodes + 1
        /\ next' = next + Len(a.steps)
        /\ session' = [n \in StepId |-> IF n \in new THEN s ELSE session[n]]
        /\ parent' = [n \in StepId |-> IF n \in new THEN ParentOf(a, n) ELSE parent[n]]
        /\ bond' = [n \in StepId |-> IF n \in new THEN TypeTo(a, n) ELSE bond[n]]
        /\ live' = (live \cup new) \ gone
        /\ edges' = Without(es, gone)
        /\ vertices' = (vertices \cup new) \ (gone \ Stuck(gone, as))
        /\ arcs' = as
        /\ last' = [last EXCEPT ![s] = Newest(a)]
        /\ saving' = saving \cup (named \ gone)
        /\ deleting' = deleting \cup gone
        /\ loaded' = loaded \ {s}
        /\ unsaved' = (unsaved \cup (new \ named)) \ gone
        /\ widows' = Without(widows, gone)
        /\ UNCHANGED <<saved, flaky, crashes, outrun, unloaded>>

-----------------------------------------------------------------------------
(***************************************************************************)
(* The goroutines, and a restart                                           *)
(***************************************************************************)

\* The goroutine of a step adds it to the collection, whatever has become of it.
Save(n) ==
    /\ n \in saving
    /\ saving' = saving \ {n}
    /\ saved' = saved \cup {n}
    /\ outrun' = IF n \in live \cup deleting THEN outrun ELSE outrun \cup {n}
    /\ UNCHANGED <<deleting, flaky, crashes, loaded, unsaved, unloaded, widows>>
    /\ UNCHANGED metaVars /\ UNCHANGED graphVars

\* The embedding fails, or the request that added the step has ended and
\* its context with it.
SaveFails(n) ==
    /\ n \in saving /\ flaky
    /\ saving' = saving \ {n}
    /\ unsaved' = unsaved \cup ({n} \cap live)
    /\ UNCHANGED <<saved, deleting, flaky, crashes, loaded, outrun, unloaded, widows>>
    /\ UNCHANGED metaVars /\ UNCHANGED graphVars

\* Faulty: the deletion fails with the context of the request, as a save may.
DeleteStored_Fails(n) ==
    /\ n \in deleting
    /\ deleting' = deleting \ {n}
    /\ UNCHANGED <<saved, saving, flaky, crashes>>
    /\ UNCHANGED metaVars /\ UNCHANGED graphVars /\ UNCHANGED history

DeleteStored(n) ==
    /\ n \in deleting
    /\ deleting' = deleting \ {n}
    /\ saved' = saved \ {n}
    /\ UNCHANGED <<saving, flaky, crashes>>
    /\ UNCHANGED metaVars /\ UNCHANGED graphVars /\ UNCHANGED history

\* What is rebuilt of the edges: those the metadata of a step name, whether
\* or not the step they come from is still stored.
LoadedEdges(nodes) ==
    {[from |-> parent[n], to |-> n, type |-> bond[n]] :
        n \in {m \in nodes : parent[m] # None}}

\* The newest step of each session, as loadFromMemorySystem looks for it.
LoadedTail(s, nodes) == IF Of(s, nodes) = {} THEN None ELSE Max(Of(s, nodes))

\* The process stops, with all goroutines, and is started again.
Restart(found) ==
    LET es == LoadedEdges(found)
    IN  /\ crashes < MaxCrashes /\ crashes' = crashes + 1
        /\ live' = found /\ vertices' = found
        /\ edges' = es
        /\ arcs' = {Ends(e) : e \in {f \in es : f.from \in found}}
        /\ last' = [s \in Session |-> LoadedTail(s, found)]
        /\ saving' = {} /\ deleting' = {}
        /\ loaded' = Session
        /\ unsaved' = {} /\ outrun' = {}
        /\ unloaded' = saved \ found
        /\ widows' = {e \in es : e.from \notin found}
        /\ UNCHANGED <<saved, flaky>> /\ UNCHANGED metaVars

Load == Restart(saved)
LoadFails == flaky /\ Restart({})

Next ==
    \/ \E s \in Session, a \in Analyses : AddSteps(s, a)
    \/ \E n \in StepId : Save(n) \/ SaveFails(n) \/ DeleteStored(n)
    \/ Load \/ LoadFails

Spec == Init /\ [][Next]_vars

-----------------------------------------------------------------------------
(***************************************************************************)
(* What a prompt reads                                                     *)
(***************************************************************************)

\* GetTopology, for one session or for all.
Topology(s) ==
    LET nodes == IF s = None THEN live ELSE Of(s, live)
    IN  [nodes |-> nodes,
         edges |-> IF s = None THEN edges
                   ELSE {e \in edges : e.from \in nodes /\ e.to \in nodes}]

Weight(type) == CASE type = "D" -> 100 [] type = "R" -> 70 [] type = "E" -> 30

\* The weight of the bond, and 0.4 of the importance of the step it comes from.
Score(e) == Weight(e.type) + IF e.from \in live THEN 24 ELSE 0

\* Faulty: a predecessor that was seen first is kept.
BestPredecessors_First(n) == {arc[1] : arc \in {x \in arcs : x[2] = n}}

\* The predecessors GetStrongPath may go to: one with the best score, or any
\* at all when no edge to n is in edgeData.
BestPredecessors(n) ==
    LET preds == {arc[1] : arc \in {x \in arcs : x[2] = n}}
        known == {e \in edges : e.to = n /\ e.from \in preds}
    IN  IF known = {} THEN preds
        ELSE {e.from : e \in {f \in known : \A g \in known : Score(f) >= Score(g)}}

\* One more step back.  The walk ends where there is none, or at a step that
\* was visited before.
Extensions(path) ==
    LET on == BestPredecessors(Head(path))
        fresh == on \ ToSet(path)
    IN  {<<p>> \o path : p \in fresh} \cup (IF on # {} /\ fresh = on THEN {} ELSE {path})

Further(paths) == UNION {Extensions(p) : p \in paths}

\* GetStrongPath: the paths it may return.  walked[d] are those after d steps
\* back.
StrongPaths(s) ==
    LET walked[d \in 0 .. MaxDepth - 1] ==
          IF d = 0 THEN {<<last[s]>>}
          ELSE Further(walked[d - 1])
    IN  IF last[s] = None THEN {} ELSE walked[MaxDepth - 1]

\* BuildGraphContext: the steps of a path that a prompt is shown.
Shown(path) == ToSet(path) \cap live

-----------------------------------------------------------------------------
(***************************************************************************)
(* Properties                                                              *)
(***************************************************************************)

\* The session that was added to is capped, cyclic or not, at every moment
\* the lock is free: only what a restart loaded may be more.
SessionsAreCapped ==
    \A s \in Session \ loaded : Cardinality(Of(s, live)) <= Cap

\* When all goroutines are done, what is stored is what the graph holds.
\* The exceptions are those of the code: a deletion that overtook the save,
\* a load that failed, a save that failed, a step whose id the model used
\* again.
QuietStoreMatches ==
    saving = {} /\ deleting = {} =>
        /\ saved \subseteq live \cup outrun \cup unloaded
        /\ live \subseteq saved \cup unsaved

\* The tail of a session, to which the next steps are linked and from which
\* retrieval starts, is its newest step and has not been pruned; a restart
\* finds it again by the timestamps, which differ for that reason.
TailIsNewest ==
    \A s \in Session : /\ last[s] = None => Of(s, live) = {}
                       /\ last[s] # None => /\ last[s] \in Of(s, live)
                                           /\ \A n \in Of(s, live) : n <= last[s]

\* No edge is left behind by pruning: the topology served to clients names
\* the steps it serves.  A restart may load an edge from a step that is gone.
EdgesHaveEnds ==
    \A s \in Session \cup {None} :
        \A e \in Topology(s).edges \ widows : {e.from, e.to} \subseteq Topology(s).nodes

\* The path retrieval follows ends at the tail, which is shown; it visits no
\* step twice, and leaves the recorded edges only where there are none.
PathFollowsBonds ==
    \A s \in Session : \A path \in StrongPaths(s) :
        /\ Len(path) <= MaxDepth /\ IsInjective(path)
        /\ last[s] \in Shown(path)
        /\ \A i \in 1 .. Len(path) - 1 :
             \/ \E e \in edges : Ends(e) = <<path[i], path[i + 1]>>
             \/ ~\E e \in edges \ widows : e.to = path[i + 1]

=============================================================================
