----------------------------- MODULE MemoryStore ----------------------------
(***************************************************************************)
(* The long-term memory of memory.Brain (src/internal/engine/memory): the  *)
(* vector collections of facts and of summaries, and the goroutines that   *)
(* work on them at the same time: retrieval for prompts, fact extraction,  *)
(* sub-agent results, Compact with its phases, and the consolidation of    *)
(* summaries that Compact leaves running in the background.                *)
(*                                                                         *)
(* A collection is guarded call by call; nothing is held between two calls *)
(* of VectorMemory.  Each step below is one such call or one model call.   *)
(* What a document says never changes under one id, so contents are        *)
(* functions of the id and a collection is the set of ids it holds.  Of    *)
(* the access count only whether it is above 0 is kept, for nothing else   *)
(* is ever asked of it; extracted and promoted facts have a confidence of  *)
(* 0.7 and 0.8 at least, so that none is ever below the 0.5 of cleanup.    *)
(***************************************************************************)
EXTENDS Naturals, FiniteSets, FiniteSetsExt

CONSTANTS
    Doc,              \* document ids, used in increasing order
    Topic,            \* what there is to know
    Retrievals,       \* calls of RetrieveDocuments
    Writers,          \* other calls that add a document
    Compactions,      \* calls of Compact
    Seeds,            \* what earlier processes left in the collections
    DedupAbove,       \* facts that make Compact deduplicate first (10)
    ConsolidateAbove, \* summaries that make Compact consolidate (5)
    BatchSize,        \* summaries consolidated into one (5)
    TopK,             \* facts_top_k and summaries_top_k (5 and 3)
    MaxPromoted,      \* bound on the facts promoted by one Compact
    MaxCrashes,       \* bound on the number of crashes
    None

ASSUME DocAssumption == Doc \subseteq Nat
ASSUME LimitAssumption ==
    /\ DedupAbove \in Nat /\ ConsolidateAbove \in Nat /\ MaxCrashes \in Nat
    /\ MaxPromoted \in Nat
    /\ BatchSize \in Nat \ {0, 1} /\ TopK \in Nat \ {0}

VARIABLES
    next,       \* the id uuid.New returns next
    kind,       \* kind[d]: the "type" a document was added with
    says,       \* says[d]: the topics its content covers
    old,        \* documents created more than 30 days ago
    docs,       \* docs[c]: the documents of collection c
    marked,     \* marked[c]: those whose metadata is {"deprecated": "true"}
    used,       \* used[c]: those with an access_count above 0
    ret,        \* ret[r]: where retrieval r stands, and what it has found
    waiting,    \* writers that have not been called yet
    claim,      \* claim[x]: topics x has to check, the one it found to be new
    com,        \* com[k]: where Compact k stands, its lists
    jobs,       \* background consolidations
    flaky,      \* embeddings come from a service, which may fail
    crashes,
    \* History, not part of the program:
    judged,     \* <<collection, id>> marked as duplicates
    restored,   \* written back after they were marked or deleted
    exposed,    \* judged, and returned by a later search
    retrieved,  \* documents written back at least once
    raced,      \* topics that were checked while another actor was adding
    atRisk,     \* topics a failed or overlapping step may cost
    residue     \* a crash has left marked documents behind

newVars == <<next, kind, says, old, flaky>>
storeVars == <<docs, marked, used>>
history == <<judged, restored, exposed, retrieved, raced, atRisk, residue>>
vars == <<next, kind, says, old, docs, marked, used, ret, waiting, claim, com,
          jobs, flaky, crashes, judged, restored, exposed, retrieved,
          raced, atRisk, residue>>

-----------------------------------------------------------------------------
Collection == {"facts", "summaries"}
Kind == {"fact", "result", "summary", "reflection"}
ASSUME NoneAssumption ==
    None \notin Topic /\ None \notin Doc /\ None \notin Kind

Actor == Writers \cup Compactions
Place == Collection \X Doc

Retrieval == [at : {"idle", "summaries", "writing", "over"}, hits : SUBSET Place]

Phase == {"idle", "facts", "summaries", "first", "consolidate", "second",
          "cleanup", "promote", "last", "over"}

Compaction ==
    [at : Phase, stage : {"list", "judge", "mark", "delete"},
     facts : SUBSET Doc,       \* the facts listed at the start
     summaries : SUBSET Doc,   \* the summaries listed at the start
     doomed : SUBSET Place,    \* what cleanup will delete, by these lists
     pool : SUBSET Doc,        \* documents given to the model to deduplicate
     marks : SUBSET Doc,       \* duplicates still to be marked
     dups : SUBSET Doc,        \* duplicates still to be deleted
     seen : SUBSET Doc,        \* history: retrieved, when the lists were made
     shaky : SUBSET Doc,       \* history: about to go; duplicates of these alone
     sound : BOOLEAN]          \* history: alone, and with fresh lists

Job == [by : Compactions, batch : SUBSET Doc, todo : SUBSET Doc,
        doc : Doc \cup {None}, at : {"generate", "add", "delete"}]

\* Earlier processes have left what this one can find: documents whose ids
\* are taken, in the collection of their type; a sub-agent result may be in
\* either, for retrieval copies it.  Two facts about one topic came from a
\* race of that process.
ASSUME SeedAssumption ==
    \A seed \in Seeds :
        /\ seed.next \in Nat
        /\ seed.kind \in [Doc -> Kind \cup {None}]
        /\ seed.says \in [Doc -> SUBSET Topic]
        /\ seed.old \subseteq Doc /\ \A d \in seed.old : d < seed.next
        /\ seed.flaky \in BOOLEAN
        /\ seed.docs \in [Collection -> SUBSET Doc]
        /\ \A c \in Collection : \A d \in seed.docs[c] : d < seed.next
        /\ \A d \in seed.docs["facts"] : seed.kind[d] \in {"fact", "result"}
        /\ \A d \in seed.docs["summaries"] :
             seed.kind[d] \in {"summary", "reflection", "result"}
        /\ \A d, e \in seed.docs["facts"] :
             seed.kind[d] = "fact" /\ seed.kind[e] = "fact" /\ d # e =>
               seed.says[d] \cap seed.says[e] \subseteq seed.raced

TypeOK ==
    /\ next \in Nat
    /\ kind \in [Doc -> Kind \cup {None}]
    /\ says \in [Doc -> SUBSET Topic]
    /\ old \subseteq Doc
    /\ docs \in [Collection -> SUBSET Doc]
    /\ marked \in [Collection -> SUBSET Doc]
    /\ used \in [Collection -> SUBSET Doc]
    /\ \A c \in Collection :
         marked[c] \cap used[c] = {} /\ marked[c] \cup used[c] \subseteq docs[c]
    /\ ret \in [Retrievals -> Retrieval]
    /\ waiting \subseteq Writers
    /\ claim \in [Actor -> [todo : SUBSET Topic, new : Topic \cup {None}]]
    /\ com \in [Compactions -> Compaction]
    /\ jobs \subseteq Job
    /\ flaky \in BOOLEAN /\ crashes \in 0 .. MaxCrashes

NoRetrieval == [at |-> "idle", hits |-> {}]
NoClaim == [todo |-> {}, new |-> None]
NoCompaction == [at |-> "idle", stage |-> "list", facts |-> {}, summaries |-> {},
                 doomed |-> {}, pool |-> {}, marks |-> {}, dups |-> {},
                 seen |-> {}, shaky |-> {}, sound |-> TRUE]

Returned == [NoRetrieval EXCEPT !.at = "over"]
Finished == [NoCompaction EXCEPT !.at = "over"]

\* NewVectorMemory loads what is on disk.
Init ==
    /\ \E seed \in Seeds :
         /\ next = seed.next
         /\ kind = seed.kind /\ says = seed.says /\ old = seed.old
         /\ docs = seed.docs /\ flaky = seed.flaky
         /\ raced = seed.raced
         /\ ret = [r \in Retrievals |->
                     IF r \in seed.open THEN NoRetrieval ELSE Returned]
         /\ waiting = Writers \cap seed.open
         /\ com = [k \in Compactions |->
                     IF k \in seed.open THEN NoCompaction ELSE Finished]
    /\ marked = [c \in Collection |-> {}]
    /\ used = [c \in Collection |-> {}]
    /\ claim = [x \in Actor |-> NoClaim]
    /\ jobs = {} /\ crashes = 0
    /\ judged = {} /\ restored = {} /\ exposed = {} /\ retrieved = {}
    /\ atRisk = {} /\ residue = FALSE

-----------------------------------------------------------------------------
(***************************************************************************)
(* The calls of VectorMemory                                               *)
(***************************************************************************)

\* The type a reader finds: marking replaces all metadata.
TypeIn(c, d) == IF d \in marked[c] THEN None ELSE kind[d]

\* Add, with the metadata of prepareMetadata: a new id, no access yet.
Add(c, k, topics) ==
    /\ next \in Doc     \* bound
    /\ next' = next + 1
    /\ kind' = [kind EXCEPT ![next] = k]
    /\ says' = [says EXCEPT ![next] = topics]
    /\ docs' = [docs EXCEPT ![c] = @ \cup {next}]
    /\ UNCHANGED <<old, flaky, marked, used>>

\* Update with the content and metadata of a search result: the document is
\* written whole, whether or not it is still there.
Rewrite(c, d) ==
    /\ docs' = [docs EXCEPT ![c] = @ \cup {d}]
    /\ marked' = [marked EXCEPT ![c] = @ \ {d}]
    /\ used' = [used EXCEPT ![c] = @ \cup {d}]

\* Update without content and with {"deprecated": "true"} alone: the content
\* is fetched, and a document that is gone cannot be written without one.
Mark(c, d) ==
    /\ marked' = [marked EXCEPT ![c] = @ \cup ({d} \cap docs[c])]
    /\ used' = [used EXCEPT ![c] = @ \ {d}]
    /\ UNCHANGED docs

Delete(c, d) ==
    /\ docs' = [docs EXCEPT ![c] = @ \ {d}]
    /\ marked' = [marked EXCEPT ![c] = @ \ {d}]
    /\ used' = [used EXCEPT ![c] = @ \ {d}]

\* What a Search with a limit of TopK may return; an error leaves nothing.
Search(c) ==
    kSubset(Min({TopK, Cardinality(docs[c])}), docs[c])
        \cup (IF flaky THEN {{}} ELSE {})

-----------------------------------------------------------------------------
(***************************************************************************)
(* Retrieval: Brain.RetrieveDocuments                                      *)
(***************************************************************************)

\* Faulty: the results marked as deprecated are kept.
Find_KeepsDeprecated(r, c, at) ==
    /\ \E found \in Search(c) :
         LET hits == {c} \X found
         IN  /\ ret' = [ret EXCEPT ![r] = [at |-> at, hits |-> @.hits \cup hits]]
             /\ exposed' = exposed \cup (hits \cap judged)
    /\ UNCHANGED <<newVars, storeVars, waiting, claim, com, jobs, crashes,
                   judged, restored, retrieved, raced, atRisk, residue>>

\* The results of one collection without those marked as deprecated.
Find(r, c, at) ==
    /\ \E found \in Search(c) :
         LET hits == {c} \X (found \ marked[c])
         IN  /\ ret' = [ret EXCEPT ![r] = [at |-> at, hits |-> @.hits \cup hits]]
             /\ exposed' = exposed \cup (hits \cap judged)
    /\ UNCHANGED <<newVars, storeVars, waiting, claim, com, jobs, crashes,
                   judged, restored, retrieved, raced, atRisk, residue>>

SearchFacts(r) ==
    ret[r].at = "idle" /\ Find(r, "facts", "summaries")

SearchSummaries(r) == ret[r].at = "summaries" /\ Find(r, "summaries", "writing")

\* Faulty: whatever is not a summary is taken for a fact.
HomeOf_SummariesOnly(d) ==
    IF kind[d] = "summary" THEN "summaries" ELSE "facts"

\* The ranked results are returned once each has been written back, with a
\* higher access count, to the collection its type names.
HomeOf(d) == IF kind[d] = "fact" THEN "facts" ELSE "summaries"

WriteBack(r) ==
    /\ ret[r].at = "writing"
    /\ \E hit \in ret[r].hits :
         LET d == hit[2]
             c == HomeOf(d)
         IN  /\ ret' = [ret EXCEPT ![r].hits = @ \ {hit}]
             /\ \/ /\ Rewrite(c, d)
                   /\ retrieved' = retrieved \cup {d}
                   /\ restored' = IF d \in docs[c] \ marked[c] THEN restored
                                  ELSE restored \cup {<<c, d>>}
                \/ flaky /\ UNCHANGED <<storeVars, retrieved, restored>>
    /\ UNCHANGED <<newVars, waiting, claim, com, jobs, crashes, judged, exposed,
                   raced, atRisk, residue>>

Return(r) ==
    /\ ret[r].at = "writing" /\ ret[r].hits = {}
    /\ ret' = [ret EXCEPT ![r].at = "over"]
    /\ UNCHANGED <<newVars, storeVars, waiting, claim, com, jobs, crashes, history>>

-----------------------------------------------------------------------------
(***************************************************************************)
(* Adding documents                                                        *)
(***************************************************************************)

\* ExtractFacts: the model has named a fact.
Extract(w, t) ==
    /\ w \in waiting
    /\ waiting' = waiting \ {w}
    /\ claim' = [claim EXCEPT ![w].todo = {t}]
    /\ UNCHANGED <<newVars, storeVars, ret, com, jobs, crashes, history>>

\* Summarize, Reflect and StoreFact add one document; the first two discard
\* the error of Add.
Store(w, c, k, t) ==
    /\ w \in waiting
    /\ waiting' = waiting \ {w}
    /\ \/ Add(c, k, {t})
       \/ flaky /\ UNCHANGED <<newVars, storeVars>>
    /\ UNCHANGED <<ret, claim, com, jobs, crashes, history>>

Summarize(w, t) == Store(w, "summaries", "summary", t)
Reflect(w, t) == Store(w, "summaries", "reflection", t)
StoreFact(w, t) == Store(w, "facts", "result", t)

\* Faulty: the distance of the nearest fact is not looked at.
CheckDuplicate_FindsNone(x) ==
    \E t \in claim[x].todo :
      /\ claim[x].new = None
      /\ claim' = [claim EXCEPT ![x] = [todo |-> @.todo \ {t}, new |-> t]]
      /\ UNCHANGED <<newVars, storeVars, ret, waiting, com, jobs, crashes, history>>

\* checkFactDuplicate: the nearest document of type "fact"; a failed search
\* finds none.
CheckDuplicate(x) ==
    \E t \in claim[x].todo :
      LET known == \E d \in docs["facts"] :
                     TypeIn("facts", d) = "fact" /\ t \in says[d]
          others == \E y \in Actor \ {x} : claim[y].new = t
      IN  /\ claim[x].new = None
          /\ \/ /\ known
                /\ claim' = [claim EXCEPT ![x].todo = @ \ {t}]
                /\ UNCHANGED raced
             \/ /\ ~known \/ flaky
                /\ claim' = [claim EXCEPT ![x] = [todo |-> @.todo \ {t}, new |-> t]]
                /\ raced' = IF known \/ others THEN raced \cup {t} ELSE raced
          /\ UNCHANGED <<newVars, storeVars, ret, waiting, com, jobs, crashes,
                         judged, restored, exposed, retrieved, atRisk, residue>>

AddFact(x) ==
    /\ claim[x].new # None
    /\ claim' = [claim EXCEPT ![x].new = None]
    /\ \/ Add("facts", "fact", {claim[x].new})
       \/ flaky /\ UNCHANGED <<newVars, storeVars>>
    /\ UNCHANGED <<ret, waiting, com, jobs, crashes, history>>

-----------------------------------------------------------------------------
(***************************************************************************)
(* Brain.Compact                                                           *)
(***************************************************************************)
Active == {k \in Compactions : com[k].at \notin {"idle", "over"}}

\* Compact k moves on; what its phases do not share stays as it is.
Move(k, change) ==
    /\ com' = [com EXCEPT ![k] = change]
    /\ UNCHANGED <<newVars, ret, waiting, crashes>>

\* ListAll: the whole collection, or nothing and an error.
ListAll(c) == {docs[c]} \cup (IF flaky THEN {{}} ELSE {})

\* Faulty: whether a document was ever retrieved is not looked at.
Doomed_IgnoresAccess(c, list) ==
    {<<HomeOf(d), d>> : d \in (list \cap old) \ marked[c]}

\* What cleanup will delete by a list just made: old and never retrieved.
Doomed(c, list) ==
    {<<HomeOf(d), d>> : d \in ((list \cap old) \ used[c]) \ marked[c]}

BeginCompact(k) ==
    /\ com[k].at = "idle"
    /\ com' = [l \in Compactions |->
                 IF l = k THEN [com[k] EXCEPT !.at = "facts", !.sound = Active = {}]
                 ELSE IF l \in Active THEN [com[l] EXCEPT !.sound = FALSE]
                 ELSE com[l]]
    /\ UNCHANGED <<newVars, storeVars, ret, waiting, claim, jobs, crashes, history>>

ListFacts(k) ==
    /\ com[k].at = "facts"
    /\ \E list \in ListAll("facts") :
         Move(k, [com[k] EXCEPT !.at = "summaries", !.facts = list,
                                !.doomed = Doomed("facts", list),
                                !.seen = retrieved])
    /\ UNCHANGED <<storeVars, claim, jobs, history>>

\* With more than DedupAbove facts, these are deduplicated first.
ListSummaries(k) ==
    /\ com[k].at = "summaries"
    /\ \E list \in ListAll("summaries") :
         LET many == Cardinality(com[k].facts) > DedupAbove
         IN  Move(k, [com[k] EXCEPT !.at = IF many THEN "first" ELSE "consolidate",
                                    !.stage = IF many THEN "judge" ELSE "list",
                                    !.pool = IF many THEN @ \cup com[k].facts ELSE @,
                                    !.summaries = list,
                                    !.doomed = @ \cup Doomed("summaries", list)])
    /\ UNCHANGED <<storeVars, claim, jobs, history>>

(***************************************************************************)
(* Deduplication of a list by the model.  A duplicate has a primary that   *)
(* is kept and says the same; anything else would be the model's mistake.  *)
(* All duplicates are marked before the first is deleted.                  *)
(***************************************************************************)
Judgments(P) ==
    {D \in SUBSET P : \A d \in D : \E p \in P \ D : says[p] = says[d]}

\* History: the duplicates for which nothing was kept that is sure to stay.
Shaky(k, D) ==
    {d \in D : \A p \in com[k].pool \ D : says[p] = says[d] => p \in com[k].shaky}

PhaseAfter(phase) ==
    CASE phase = "first" -> "consolidate"
      [] phase = "second" -> "cleanup"
      [] phase = "last" -> "over"

\* What is left of a Compact when it enters the next phase.
Proceed(k) ==
    LET phase == PhaseAfter(com[k].at)
    IN  IF phase = "over" THEN Finished
        ELSE [com[k] EXCEPT !.at = phase, !.stage = "list", !.pool = {},
                            !.marks = {}, !.dups = {}, !.shaky = {}]

CollectionOf(phase) == IF phase = "second" THEN "summaries" ELSE "facts"

\* No answer, or one that cannot be read, ends the deduplication.
Judge(k) ==
    /\ com[k].stage = "judge"
    /\ \E D \in Judgments(com[k].pool) :
         Move(k, IF D = {}
                 THEN Proceed(k)
                 ELSE [com[k] EXCEPT !.stage = "mark", !.marks = D, !.dups = D,
                                     !.pool = {}, !.shaky = Shaky(k, D)])
    /\ UNCHANGED <<storeVars, claim, jobs, history>>

\* A judgment that rests on a list others are changing puts a topic at risk.
Hazard(k, d) ==
    atRisk' = IF com[k].sound /\ d \notin com[k].shaky THEN atRisk
              ELSE atRisk \cup says[d]

\* Faulty: the duplicates are marked, and never deleted.
MarkOne_Only(k) ==
    /\ com[k].stage = "mark"
    /\ LET c == CollectionOf(com[k].at)
       IN  \E d \in com[k].marks :
             LET left == com[k].marks \ {d}
             IN  /\ Move(k, IF left = {} THEN Proceed(k)
                            ELSE [com[k] EXCEPT !.marks = left])
                 /\ Mark(c, d) /\ judged' = judged \cup {<<c, d>>}
                 /\ Hazard(k, d)
    /\ UNCHANGED <<claim, jobs, restored, exposed, retrieved, raced, residue>>

MarkOne(k) ==
    /\ com[k].stage = "mark"
    /\ LET c == CollectionOf(com[k].at)
       IN  \E d \in com[k].marks :
             LET left == com[k].marks \ {d}
             IN  /\ Move(k, [com[k] EXCEPT !.marks = left,
                               !.stage = IF left = {} THEN "delete" ELSE @])
                 /\ \/ Mark(c, d) /\ judged' = judged \cup {<<c, d>>}
                    \/ flaky /\ UNCHANGED <<storeVars, judged>>
                 /\ Hazard(k, d)
    /\ UNCHANGED <<claim, jobs, restored, exposed, retrieved, raced, residue>>

DeleteOne(k) ==
    /\ com[k].stage = "delete"
    /\ LET c == CollectionOf(com[k].at)
       IN  \E d \in com[k].dups :
             LET left == com[k].dups \ {d}
             IN  /\ Delete(c, d)
                 /\ Hazard(k, d)
                 /\ Move(k, IF left = {} THEN Proceed(k)
                            ELSE [com[k] EXCEPT !.dups = left])
    /\ UNCHANGED <<claim, jobs, judged, restored, exposed, retrieved, raced,
                   residue>>

(***************************************************************************)
(* Consolidation: a goroutine per batch, which Compact does not wait for.  *)
(***************************************************************************)
Batches(list) ==
    LET n == BatchSize * (Cardinality(list) \div BatchSize)
    IN  {P \in SUBSET kSubset(BatchSize, list) :
           /\ Cardinality(UNION P) = n
           /\ Cardinality(P) * BatchSize = n}

Consolidate(k) ==
    /\ com[k].at = "consolidate"
    /\ IF Cardinality(com[k].summaries) <= ConsolidateAbove
       THEN /\ Move(k, [com[k] EXCEPT !.at = "cleanup"])
            /\ UNCHANGED jobs
       ELSE /\ Move(k, [com[k] EXCEPT !.at = "second"])
            /\ \E P \in Batches(com[k].summaries) :
                 LET rest == com[k].summaries \ UNION P
                     all == IF Cardinality(rest) < 2 THEN P ELSE P \cup {rest}
                 IN  jobs' = jobs \cup {[by |-> k, batch |-> B, todo |-> B,
                                         doc |-> None, at |-> "generate"] : B \in all}
    /\ UNCHANGED <<storeVars, claim, history>>

\* What the consolidations are deleting.
Going == UNION {j.todo : j \in {i \in jobs : i.at = "delete"}}

\* The fresh list of summaries, or the first one when it cannot be had.
ListFresh(k) ==
    /\ com[k].at = "second" /\ com[k].stage = "list"
    /\ \E fails \in {FALSE} \cup {flaky} :
         LET list == IF fails THEN com[k].summaries ELSE docs["summaries"]
         IN  Move(k, IF Cardinality(list) <= 1
                     THEN [com[k] EXCEPT !.at = "cleanup"]
                     ELSE [com[k] EXCEPT !.stage = "judge", !.pool = list,
                                         !.shaky = (Going \cup old) \cap list,
                                         !.sound = @ /\ ~fails])
    /\ UNCHANGED <<storeVars, claim, jobs, history>>

Swap(j, job) == jobs' = (jobs \ {j}) \cup {job}

\* The model writes the consolidated summary, or fails to.
JobGenerates(j) ==
    /\ j.at = "generate"
    /\ Swap(j, [j EXCEPT !.at = "add"]) \/ jobs' = jobs \ {j}
    /\ UNCHANGED <<newVars, storeVars, ret, waiting, claim, com, crashes, history>>

\* The error of Add is discarded.
JobAdds(j) ==
    /\ j.at = "add"
    /\ \/ /\ Add("summaries", "summary", UNION {says[d] : d \in j.batch})
          /\ Swap(j, [j EXCEPT !.at = "delete", !.doc = next])
          /\ UNCHANGED atRisk
       \/ /\ flaky
          /\ Swap(j, [j EXCEPT !.at = "delete"])
          /\ atRisk' = atRisk \cup UNION {says[d] : d \in j.batch}
          /\ UNCHANGED <<newVars, storeVars>>
    /\ UNCHANGED <<ret, waiting, claim, com, crashes, judged, restored, exposed,
                   retrieved, raced, residue>>

JobDeletes(j) ==
    /\ j.at = "delete"
    /\ \E d \in j.todo :
         /\ Delete("summaries", d)
         /\ IF j.todo = {d} THEN jobs' = jobs \ {j}
            ELSE Swap(j, [j EXCEPT !.todo = @ \ {d}])
    /\ UNCHANGED <<newVars, ret, waiting, claim, com, crashes, history>>

(***************************************************************************)
(* Cleanup, by the lists made at the start, and promotion.                 *)
(***************************************************************************)
CleanOne(k) ==
    /\ com[k].at = "cleanup"
    /\ \E place \in com[k].doomed :
         /\ Delete(place[1], place[2])
         /\ Move(k, [com[k] EXCEPT !.doomed = @ \ {place}])
    /\ UNCHANGED <<claim, jobs, history>>

\* The model names facts it finds in the last three summaries listed.
Promote(k) ==
    /\ com[k].at = "cleanup" /\ com[k].doomed = {}
    /\ \E recent \in kSubset(Min({3, Cardinality(com[k].summaries)}),
                             com[k].summaries) :
       \E named \in SUBSET UNION {says[d] : d \in recent} :
         /\ Cardinality(named) <= MaxPromoted
         /\ claim' = [claim EXCEPT ![k].todo = named]
    /\ Move(k, [com[k] EXCEPT !.at = "last"])
    /\ UNCHANGED <<storeVars, jobs, history>>

\* Faulty: the last deduplication works on the list made at the start.
Refetch_NotFresh(k) ==
    /\ com[k].at = "last" /\ com[k].stage = "list"
    /\ claim[k] = NoClaim
    /\ Move(k, IF com[k].facts = {} THEN Finished
               ELSE [com[k] EXCEPT !.stage = "judge", !.pool = com[k].facts])
    /\ UNCHANGED <<storeVars, claim, jobs, history>>

\* The facts are listed again, for the last deduplication; when that fails
\* the list made at the start serves.
Refetch(k) ==
    /\ com[k].at = "last" /\ com[k].stage = "list"
    /\ claim[k] = NoClaim
    /\ \E fails \in {FALSE} \cup {flaky} :
         LET list == IF fails THEN com[k].facts ELSE docs["facts"]
         IN  Move(k, IF list = {} THEN Finished
                     ELSE [com[k] EXCEPT !.stage = "judge", !.pool = list,
                                         !.sound = @ /\ ~fails])
    /\ UNCHANGED <<storeVars, claim, jobs, history>>

-----------------------------------------------------------------------------
\* The process dies and another one loads what the collections hold.
Crash ==
    /\ crashes < MaxCrashes
    /\ crashes' = crashes + 1
    /\ ret' = [r \in Retrievals |-> IF ret[r].at = "idle" THEN ret[r]
                                    ELSE Returned]
    /\ claim' = [x \in Actor |-> NoClaim]
    /\ com' = [k \in Compactions |-> IF com[k].at = "idle" THEN com[k]
                                     ELSE Finished]
    /\ jobs' = {}
    /\ residue' = (residue \/ \E c \in Collection : marked[c] # {})
    /\ UNCHANGED <<newVars, storeVars, waiting, judged, restored, exposed,
                   retrieved, raced, atRisk>>

Retrieve(r) == SearchFacts(r) \/ SearchSummaries(r) \/ WriteBack(r) \/ Return(r)

Write(w) ==
    \E t \in Topic :
      Extract(w, t) \/ Summarize(w, t) \/ Reflect(w, t) \/ StoreFact(w, t)

AddOne(x) == CheckDuplicate(x) \/ AddFact(x)

Compact(k) ==
    \/ ListFacts(k) \/ ListSummaries(k) \/ Judge(k) \/ MarkOne(k) \/ DeleteOne(k)
    \/ Consolidate(k) \/ ListFresh(k) \/ CleanOne(k) \/ Promote(k) \/ AddOne(k)
    \/ Refetch(k)

Consolidation(j) == JobGenerates(j) \/ JobAdds(j) \/ JobDeletes(j)

Next ==
    \/ \E r \in Retrievals : Retrieve(r)
    \/ \E w \in Writers : Write(w) \/ AddOne(w)
    \/ \E k \in Compactions : BeginCompact(k) \/ Compact(k)
    \/ \E j \in jobs : Consolidation(j)
    \/ Crash

Spec == Init /\ [][Next]_vars

-----------------------------------------------------------------------------
(***************************************************************************)
(* Properties                                                              *)
(***************************************************************************)

VisibleIn(c, t) == \E d \in docs[c] \ marked[c] : t \in says[d]

\* Compaction keeps what a collection tells retrieval: a topic goes out of
\* sight only by cleanup, by the judgment of a Compact that another overlapped,
\* that worked on a list it could not renew, or that kept of some summaries
\* saying the same only those that a consolidation was deleting or cleanup may
\* delete, by a consolidated summary that was not stored, or after a crash
\* between marking and deleting.
KnowledgeKept ==
    [][\A c \in Collection, t \in Topic :
         VisibleIn(c, t) /\ ~VisibleIn(c, t)' =>
            (\E k \in Compactions : CleanOne(k)) \/ t \in atRisk' \/ residue]_vars

\* A document once marked as a duplicate is returned by no search that begins
\* later, unless a retrieval that had read it before has written it back.
ExposedOnlyIfRestored == exposed \subseteq restored

FactsAbout(t) ==
    {d \in docs["facts"] : TypeIn("facts", d) = "fact" /\ t \in says[d]}

\* The duplicate check of extraction and promotion lets a second fact about a
\* topic in only when two of them overlapped or the search failed; else a
\* second one can only have been written back by a retrieval.
DuplicatesWereRaced ==
    \A t \in Topic :
      \/ Cardinality(FactsAbout(t)) <= 1
      \/ t \in raced
      \/ \E place \in restored : t \in says[place[2]]

\* Cleanup, which goes by lists that may be minutes old, deletes nothing that
\* had been retrieved before it made them, sub-agent results excepted: their
\* access is counted in a copy among the summaries.
RetrievedIsSpared ==
    [][\A k \in Compactions : \A place \in com[k].doomed :
         CleanOne(k) /\ place \notin com'[k].doomed =>
            place[2] \notin com[k].seen \/ kind[place[2]] = "result"]_vars

\* Only sub-agent results, whose type is neither a fact's nor a summary's, are
\* copied by retrieval into a collection they were not added to.
OnlyResultsAreMisfiled ==
    \A d \in docs["facts"] \cap docs["summaries"] : kind[d] = "result"

\* When no Compact is under way no document is left marked, hidden from
\* retrieval and kept all the same, unless a crash came in between.
NoMarkIsLeft ==
    Active = {} => residue \/ \A c \in Collection : marked[c] = {}

=============================================================================
