-------------------------- MODULE MemoryStoreProofs -------------------------
(***************************************************************************)
(* Proofs about MemoryStore, for all documents, topics, calls and stores   *)
(* left by earlier processes: what was judged a duplicate is returned only *)
(* if a retrieval wrote it back, only sub-agent results are copied from a  *)
(* collection to the other, Compact leaves no mark behind, cleanup spares  *)
(* what was retrieved when its lists were made, two facts about one topic  *)
(* come from a race, and a topic goes out of sight only for a reason.      *)
(***************************************************************************)
EXTENDS MemoryStore, FiniteSetTheorems, TLAPS

\* The three functions of a collection, as TypeOK has them.
Stored ==
    /\ docs \in [Collection -> SUBSET Doc]
    /\ marked \in [Collection -> SUBSET Doc]
    /\ used \in [Collection -> SUBSET Doc]
    /\ \A c \in Collection :
         marked[c] \cap used[c] = {} /\ marked[c] \cup used[c] \subseteq docs[c]

\* A document is in the collection of its type, or is a sub-agent result;
\* its id is taken.
Filed ==
    /\ \A c \in Collection : \A d \in docs[c] : d < next
    /\ \A d \in docs["facts"] : kind[d] \in {"fact", "result"}
    /\ \A d \in docs["summaries"] : kind[d] \in {"summary", "reflection", "result"}
    /\ \A r \in Retrievals : \A hit \in ret[r].hits :
         hit[2] < next /\ kind[hit[2]] \in Kind

\* The lists of a Compact name documents that exist or have existed.
Named(run) ==
    \A d \in run.facts \cup run.summaries \cup run.pool \cup run.marks \cup run.dups :
        d < next

\* Deduplication works in its three phases only, and marks only duplicates.
Staged(run) ==
    /\ run.stage # "list" => run.at \in {"first", "second", "last"}
    /\ run.stage = "mark" => run.marks \subseteq run.dups

\* A Compact that will delete document d of collection c.
Holds(run, c, d) ==
    /\ run.stage \in {"mark", "delete"} /\ CollectionOf(run.at) = c
    /\ d \in run.dups

\* What was judged a duplicate is gone, marked, or known to be written back.
JudgedIsHidden ==
    \A c \in Collection, d \in Doc :
        <<c, d>> \in judged =>
            d < next /\ (d \in docs[c] \ marked[c] => <<c, d>> \in restored)

\* What is marked will be deleted by the Compact that marked it.
MarksAreHeld ==
    residue \/ \A c \in Collection : \A d \in marked[c] :
                   \E k \in Compactions : Holds(com[k], c, d)

Inv ==
    /\ TypeOK
    /\ judged \subseteq Place /\ retrieved \subseteq Doc
    /\ Filed
    /\ \A k \in Compactions : Named(com[k]) /\ Staged(com[k])
    /\ JudgedIsHidden
    /\ ExposedOnlyIfRestored
    /\ MarksAreHeld

-----------------------------------------------------------------------------
(***************************************************************************)
(* The calls of VectorMemory                                               *)
(***************************************************************************)

\* A deleted document is neither there nor marked; nothing else changes.
LEMMA Deleting ==
  ASSUME Stored, NEW c \in Collection, NEW d \in Doc, Delete(c, d)
  PROVE  /\ Stored'
         /\ \A e \in Collection : docs'[e] \subseteq docs[e] /\ marked'[e] \subseteq marked[e]
                                  /\ docs'[e] \ marked'[e] \subseteq docs[e] \ marked[e]
         /\ d \notin marked'[c]
BY DEF Stored, Delete

\* A document that is marked is hidden, if it is there at all.
LEMMA Marking ==
  ASSUME Stored, NEW c \in Collection, NEW d \in Doc, Mark(c, d)
  PROVE  /\ Stored'
         /\ docs' = docs
         /\ \A e \in Collection : marked[e] \subseteq marked'[e]
                                  /\ marked'[e] \subseteq marked[e] \cup (IF e = c THEN {d} ELSE {})
         /\ d \notin docs'[c] \ marked'[c]
BY DEF Stored, Mark

\* A document that is written back is there and not marked.
LEMMA Rewriting ==
  ASSUME Stored, NEW c \in Collection, NEW d \in Doc, Rewrite(c, d)
  PROVE  /\ Stored'
         /\ \A e \in Collection : /\ docs'[e] \subseteq docs[e] \cup (IF e = c THEN {d} ELSE {})
                                  /\ marked'[e] \subseteq marked[e]
                                  /\ docs'[e] \ marked'[e] \subseteq
                                       (docs[e] \ marked[e]) \cup (IF e = c THEN {d} ELSE {})
BY DEF Stored, Rewrite

\* A document that is added has an id nobody knew.
LEMMA Adding ==
  ASSUME Stored, next \in Nat, kind \in [Doc -> Kind \cup {None}],
         says \in [Doc -> SUBSET Topic],
         NEW c \in Collection, NEW k \in Kind, NEW topics \in SUBSET Topic,
         Add(c, k, topics)
  PROVE  /\ Stored'
         /\ next' \in Nat /\ kind' \in [Doc -> Kind \cup {None}]
         /\ says' \in [Doc -> SUBSET Topic] /\ old' = old /\ flaky' = flaky
         /\ next \in Doc /\ next' = next + 1 /\ kind'[next] = k
         /\ \A d \in Doc : d # next => kind'[d] = kind[d]
         /\ \A e \in Collection : docs'[e] = docs[e] \cup (IF e = c THEN {next} ELSE {})
         /\ marked' = marked
BY DEF Stored, Add

-----------------------------------------------------------------------------
(***************************************************************************)
(* What the steps have in common                                           *)
(***************************************************************************)

\* The store stays as it is, and a Compact keeps what it holds.
LEMMA QuietStep ==
  ASSUME Inv, TypeOK', retrieved' \subseteq Doc,
         UNCHANGED <<next, kind, docs, marked, judged, restored, exposed>>,
         residue => residue',
         \A r \in Retrievals : ret'[r].hits \subseteq ret[r].hits,
         \A k \in Compactions : Named(com[k])' /\ Staged(com[k])',
         residue' \/ \A k \in Compactions, c \in Collection, d \in Doc :
                        Holds(com[k], c, d) => Holds(com[k], c, d)'
  PROVE  Inv'
<1>1. Filed'
  BY DEF Inv, Filed
<1>2. JudgedIsHidden' /\ ExposedOnlyIfRestored'
  BY DEF Inv, JudgedIsHidden, ExposedOnlyIfRestored
<1>3. MarksAreHeld'
  BY DEF Inv, MarksAreHeld, TypeOK
<1> QED BY <1>1, <1>2, <1>3 DEF Inv

\* Compact k moves on, and the store stays as it is.
LEMMA MoveStep ==
  ASSUME Inv, NEW k \in Compactions, NEW change \in Compaction, Move(k, change),
         UNCHANGED <<storeVars, history>>,
         claim' \in [Actor -> [todo : SUBSET Topic, new : Topic \cup {None}]],
         jobs' \subseteq Job,
         Named(change), Staged(change),
         \A c \in Collection, d \in Doc : Holds(com[k], c, d) => Holds(change, c, d)
  PROVE  Inv'
<1>1. /\ com' = [com EXCEPT ![k] = change]
      /\ UNCHANGED <<next, kind, says, old, flaky, ret, waiting, crashes>>
      /\ UNCHANGED <<docs, marked, used, judged, restored, exposed, retrieved, residue>>
  BY DEF Move, newVars, storeVars, history
<1>2. /\ com \in [Compactions -> Compaction] /\ com' \in [Compactions -> Compaction]
      /\ com'[k] = change /\ \A l \in Compactions \ {k} : com'[l] = com[l]
  BY <1>1 DEF Inv, TypeOK
<1>3. TypeOK'
  BY <1>1, <1>2 DEF Inv, TypeOK
<1>4. \A l \in Compactions : Named(com[l])' /\ Staged(com[l])'
  BY <1>1, <1>2 DEF Inv, Named, Staged
<1>5. \A l \in Compactions, c \in Collection, d \in Doc :
        Holds(com[l], c, d) => Holds(com[l], c, d)'
  BY <1>2 DEF Holds
<1> QED BY <1>1, <1>3, <1>4, <1>5, QuietStep DEF Inv

\* A document is added to the collection of its type.
LEMMA AddStep ==
  ASSUME Inv, NEW c \in Collection, NEW k \in Kind, NEW topics \in SUBSET Topic,
         Add(c, k, topics),
         k \in IF c = "facts" THEN {"fact", "result"} ELSE {"summary", "reflection", "result"},
         UNCHANGED <<ret, com, crashes, judged, restored, exposed, retrieved, residue>>,
         waiting' \subseteq Writers, jobs' \subseteq Job,
         claim' \in [Actor -> [todo : SUBSET Topic, new : Topic \cup {None}]]
  PROVE  Inv'
<1>1. /\ Stored' /\ next' \in Nat /\ kind' \in [Doc -> Kind \cup {None}]
      /\ says' \in [Doc -> SUBSET Topic] /\ old' = old /\ flaky' = flaky
      /\ next \in Doc /\ next' = next + 1 /\ kind'[next] = k
      /\ \A d \in Doc : d # next => kind'[d] = kind[d]
      /\ \A e \in Collection : docs'[e] = docs[e] \cup (IF e = c THEN {next} ELSE {})
      /\ marked' = marked
  BY Adding DEF Inv, TypeOK, Stored
<1>2. TypeOK'
  BY <1>1 DEF Inv, TypeOK, Stored
<1>3. next \in Nat /\ \A d \in Doc : d \in Nat /\ (d < next => d # next /\ d < next')
  BY <1>1, DocAssumption DEF Inv, TypeOK
<1>4. Filed'
  <2>1. \A e \in Collection : \A d \in docs'[e] : d < next'
    <3> SUFFICES ASSUME NEW e \in Collection, NEW d \in docs'[e]
                 PROVE  d < next'
      OBVIOUS
    <3>1. d \in docs[e] \/ d = next
      BY <1>1
    <3>2. CASE d \in docs[e]
      <4>1. d \in Doc /\ d < next
        BY <3>2 DEF Inv, TypeOK, Filed
      <4> QED BY <4>1, <1>3
    <3>3. CASE d = next
      BY <3>3, <1>1, <1>3
    <3> QED BY <3>1, <3>2, <3>3
  <2>2. \A d \in docs["facts"] \cup docs["summaries"] : d \in Doc /\ d # next
    BY <1>3 DEF Inv, TypeOK, Filed, Collection
  <2>3. /\ \A d \in docs'["facts"] : kind'[d] \in {"fact", "result"}
        /\ \A d \in docs'["summaries"] : kind'[d] \in {"summary", "reflection", "result"}
    BY <1>1, <2>2 DEF Inv, Filed, Collection
  <2>4. ASSUME NEW r \in Retrievals, NEW hit \in ret[r].hits
        PROVE  hit[2] < next' /\ kind'[hit[2]] \in Kind
    <3>1. ret[r].hits \subseteq Place
      BY DEF Inv, TypeOK, Retrieval
    <3>2. hit[2] \in Doc /\ hit[2] < next /\ kind[hit[2]] \in Kind
      BY <3>1 DEF Inv, Filed, Place
    <3> QED BY <1>1, <1>3, <3>2
  <2> QED BY <2>1, <2>3, <2>4 DEF Filed
<1>5. \A l \in Compactions : Named(com[l])' /\ Staged(com[l])'
  <2> SUFFICES ASSUME NEW l \in Compactions PROVE Named(com[l])' /\ Staged(com[l])'
    OBVIOUS
  <2>1. com[l] \in Compaction
    BY DEF Inv, TypeOK
  <2>2. com[l].facts \cup com[l].summaries \cup com[l].pool \cup com[l].marks
          \cup com[l].dups \subseteq Doc
    BY <2>1 DEF Compaction
  <2> QED BY <1>3, <2>2 DEF Inv, Named, Staged
<1>6. JudgedIsHidden'
  BY <1>1, <1>3 DEF Inv, JudgedIsHidden
<1>7. ExposedOnlyIfRestored' /\ MarksAreHeld'
  BY <1>1 DEF Inv, ExposedOnlyIfRestored, MarksAreHeld, Holds
<1> QED BY <1>2, <1>4, <1>5, <1>6, <1>7 DEF Inv

\* A document is deleted from a collection; only the Compact that held it
\* may let it go.
LEMMA DeleteStep ==
  ASSUME Inv, NEW c \in Collection, NEW d \in Doc, Delete(c, d),
         UNCHANGED <<newVars, ret, waiting, claim, crashes, judged, restored,
                     exposed, retrieved, residue>>,
         com' \in [Compactions -> Compaction], jobs' \subseteq Job,
         \A k \in Compactions : Named(com[k])' /\ Staged(com[k])',
         \A k \in Compactions, e \in Collection, m \in Doc :
            Holds(com[k], e, m) => <<e, m>> = <<c, d>> \/ Holds(com[k], e, m)'
  PROVE  Inv'
<1>1. /\ Stored'
      /\ \A e \in Collection : docs'[e] \subseteq docs[e] /\ marked'[e] \subseteq marked[e]
                               /\ docs'[e] \ marked'[e] \subseteq docs[e] \ marked[e]
      /\ d \notin marked'[c]
  BY Deleting DEF Inv, TypeOK, Stored
<1>2. TypeOK'
  BY <1>1 DEF Inv, TypeOK, Stored, newVars
<1>3. Filed'
  BY <1>1 DEF Inv, Filed, newVars, Collection
<1>4. JudgedIsHidden'
  BY <1>1 DEF Inv, JudgedIsHidden, newVars
<1>5. MarksAreHeld'
  <2> SUFFICES ASSUME ~ residue, NEW e \in Collection, NEW m \in marked'[e]
               PROVE  \E k \in Compactions : Holds(com[k], e, m)'
    BY DEF MarksAreHeld
  <2>1. m \in marked[e] /\ m \in Doc /\ <<e, m>> # <<c, d>>
    BY <1>1 DEF Inv, TypeOK
  <2> QED BY <2>1 DEF Inv, MarksAreHeld
<1> QED BY <1>2, <1>3, <1>4, <1>5 DEF Inv, ExposedOnlyIfRestored

-----------------------------------------------------------------------------
(***************************************************************************)
(* Initial states and retrieval                                            *)
(***************************************************************************)

\* Earlier processes leave nothing marked, and nothing is under way.
LEMMA Initial == Init => Inv
<1> SUFFICES ASSUME Init PROVE Inv
  OBVIOUS
<1>1. PICK seed \in Seeds :
        /\ next = seed.next
        /\ kind = seed.kind /\ says = seed.says /\ old = seed.old
        /\ docs = seed.docs /\ flaky = seed.flaky
        /\ ret = [r \in Retrievals |->
                    IF r \in seed.open THEN NoRetrieval ELSE Returned]
        /\ waiting = Writers \cap seed.open
        /\ com = [k \in Compactions |->
                    IF k \in seed.open THEN NoCompaction ELSE Finished]
  BY DEF Init
<1>2. /\ marked = [c \in Collection |-> {}] /\ used = [c \in Collection |-> {}]
      /\ claim = [x \in Actor |-> NoClaim]
      /\ jobs = {} /\ crashes = 0 /\ residue = FALSE
      /\ judged = {} /\ restored = {} /\ exposed = {} /\ retrieved = {}
  BY DEF Init
<1>3. /\ NoRetrieval \in Retrieval /\ Returned \in Retrieval
      /\ NoRetrieval.hits = {} /\ Returned.hits = {}
  BY DEF NoRetrieval, Returned, Retrieval
<1>4. NoCompaction \in Compaction /\ Finished \in Compaction
  BY DEF NoCompaction, Finished, Compaction, Phase
<1>5. Named(NoCompaction) /\ Staged(NoCompaction) /\ Named(Finished) /\ Staged(Finished)
  BY DEF NoCompaction, Finished, Named, Staged
<1>6. NoClaim \in [todo : SUBSET Topic, new : Topic \cup {None}]
  BY DEF NoClaim
<1>7. TypeOK
  <2>1. ret \in [Retrievals -> Retrieval] /\ com \in [Compactions -> Compaction]
    BY <1>1, <1>3, <1>4
  <2>2. claim \in [Actor -> [todo : SUBSET Topic, new : Topic \cup {None}]]
    BY <1>2, <1>6
  <2>3. /\ next \in Nat /\ kind \in [Doc -> Kind \cup {None}]
        /\ says \in [Doc -> SUBSET Topic] /\ old \subseteq Doc /\ flaky \in BOOLEAN
        /\ docs \in [Collection -> SUBSET Doc] /\ waiting \subseteq Writers
    BY <1>1, SeedAssumption
  <2> QED BY <1>2, <2>1, <2>2, <2>3, LimitAssumption DEF TypeOK
<1>8. Filed
  <2>1. \A r \in Retrievals : ret[r].hits = {}
    BY <1>1, <1>3
  <2> QED BY <1>1, <2>1, SeedAssumption DEF Filed
<1>9. \A k \in Compactions : Named(com[k]) /\ Staged(com[k])
  BY <1>1, <1>5
<1> QED BY <1>2, <1>7, <1>8, <1>9 DEF Inv, JudgedIsHidden, ExposedOnlyIfRestored, MarksAreHeld

\* A search returns documents that are there and not marked.
LEMMA FindStep ==
  ASSUME Inv, NEW r \in Retrievals, NEW c \in Collection,
         NEW at \in {"summaries", "writing"}, Find(r, c, at)
  PROVE  Inv'
<1>1. PICK found \in Search(c) :
        /\ ret' = [ret EXCEPT ![r] = [at |-> at,
                     hits |-> @.hits \cup ({c} \X (found \ marked[c]))]]
        /\ exposed' = exposed \cup (({c} \X (found \ marked[c])) \cap judged)
  BY DEF Find
<1>2. UNCHANGED <<newVars, storeVars, waiting, claim, com, jobs, crashes,
                  judged, restored, retrieved, raced, atRisk, residue>>
  BY DEF Find
<1>3. found \subseteq docs[c]
  BY DEF Search, kSubset
<1> DEFINE hits == {c} \X (found \ marked[c])
<1>4. \A hit \in hits : /\ hit = <<c, hit[2]>> /\ hit \in Place
                        /\ hit[2] \in docs[c] \ marked[c] /\ hit[2] \in Doc
  BY <1>3 DEF Inv, TypeOK, Place
<1>5. ret[r].hits \cup hits \subseteq Place
  BY <1>4 DEF Inv, TypeOK, Retrieval
<1>6. TypeOK'
  <2>1. [at |-> at, hits |-> ret[r].hits \cup hits] \in Retrieval
    BY <1>5 DEF Retrieval
  <2>2. ret' \in [Retrievals -> Retrieval]
    BY <1>1, <2>1 DEF Inv, TypeOK
  <2> QED BY <1>2, <2>2 DEF Inv, TypeOK, newVars, storeVars
<1>7. Filed'
  <2>1. \A hit \in hits : hit[2] < next /\ kind[hit[2]] \in Kind
    BY <1>4 DEF Inv, Filed, Collection, Kind
  <2>2. \A q \in Retrievals : \A hit \in ret'[q].hits :
          hit[2] < next /\ kind[hit[2]] \in Kind
    BY <1>1, <2>1 DEF Inv, Filed, TypeOK
  <2> QED BY <1>2, <2>2 DEF Inv, Filed, newVars, storeVars
<1>8. ExposedOnlyIfRestored'
  <2> SUFFICES ASSUME NEW hit \in hits \cap judged PROVE hit \in restored
    BY <1>1, <1>2 DEF Inv, ExposedOnlyIfRestored
  <2>1. <<c, hit[2]>> \in judged /\ hit[2] \in docs[c] \ marked[c] /\ hit[2] \in Doc
    BY <1>4
  <2>2. <<c, hit[2]>> \in restored
    BY <2>1 DEF Inv, JudgedIsHidden
  <2> QED BY <2>2, <1>4
<1> QED BY <1>2, <1>6, <1>7, <1>8
     DEF Inv, JudgedIsHidden, MarksAreHeld, Named, newVars, storeVars

\* A result is written back where its type belongs, and known to have been.
LEMMA WriteBackStep ==
  ASSUME Inv, NEW r \in Retrievals, WriteBack(r)
  PROVE  Inv'
<1>1. PICK hit \in ret[r].hits :
        /\ ret' = [ret EXCEPT ![r].hits = @ \ {hit}]
        /\ \/ /\ Rewrite(HomeOf(hit[2]), hit[2])
              /\ retrieved' = retrieved \cup {hit[2]}
              /\ restored' = IF hit[2] \in docs[HomeOf(hit[2])] \ marked[HomeOf(hit[2])]
                             THEN restored
                             ELSE restored \cup {<<HomeOf(hit[2]), hit[2]>>}
           \/ flaky /\ UNCHANGED <<storeVars, retrieved, restored>>
  BY DEF WriteBack
<1>2. UNCHANGED <<newVars, waiting, claim, com, jobs, crashes, judged, exposed,
                  raced, atRisk, residue>>
  BY DEF WriteBack
<1> DEFINE d == hit[2]
           c == HomeOf(d)
<1>3. ret[r] \in Retrieval /\ ret[r].hits \subseteq Place
  BY DEF Inv, TypeOK, Retrieval
<1>4. d \in Doc /\ d < next /\ kind[d] \in Kind /\ c \in Collection
  BY <1>3 DEF Inv, Filed, Place, HomeOf, Collection
<1>5. /\ ret' \in [Retrievals -> Retrieval]
      /\ \A q \in Retrievals : ret'[q].hits \subseteq ret[q].hits
  <2>1. [ret[r] EXCEPT !.hits = @ \ {hit}] \in Retrieval
    BY <1>3 DEF Retrieval
  <2>2. ret' = [ret EXCEPT ![r] = [ret[r] EXCEPT !.hits = @ \ {hit}]]
    BY <1>1 DEF Inv, TypeOK
  <2>3. [ret[r] EXCEPT !.hits = @ \ {hit}].hits = ret[r].hits \ {hit}
    BY <1>3 DEF Retrieval
  <2> QED BY <2>1, <2>2, <2>3 DEF Inv, TypeOK
<1>6. CASE UNCHANGED <<storeVars, retrieved, restored>>
  <2>1. TypeOK'
    BY <1>2, <1>5, <1>6 DEF Inv, TypeOK, newVars, storeVars
  <2> QED BY <1>2, <1>5, <1>6, <2>1, QuietStep
        DEF Inv, newVars, storeVars, Named, Staged, Holds
<1>7. CASE /\ Rewrite(c, d)
           /\ retrieved' = retrieved \cup {d}
           /\ restored' = IF d \in docs[c] \ marked[c] THEN restored
                          ELSE restored \cup {<<c, d>>}
  <2>1. /\ Stored'
        /\ \A e \in Collection : /\ docs'[e] \subseteq docs[e] \cup (IF e = c THEN {d} ELSE {})
                                 /\ marked'[e] \subseteq marked[e]
                                 /\ docs'[e] \ marked'[e] \subseteq
                                      (docs[e] \ marked[e]) \cup (IF e = c THEN {d} ELSE {})
    BY <1>4, <1>7, Rewriting DEF Inv, TypeOK, Stored
  <2>2. TypeOK'
    BY <1>2, <1>5, <2>1 DEF Inv, TypeOK, newVars, Stored
  <2>3. Filed'
    <3>1. \A e \in Collection : \A m \in docs'[e] : m < next
      BY <1>4, <2>1 DEF Inv, Filed
    <3>2. /\ c = "facts" => kind[d] \in {"fact", "result"}
          /\ c = "summaries" => kind[d] \in {"summary", "reflection", "result"}
      BY <1>4 DEF HomeOf, Kind
    <3>3. /\ \A m \in docs'["facts"] : kind[m] \in {"fact", "result"}
          /\ \A m \in docs'["summaries"] : kind[m] \in {"summary", "reflection", "result"}
      BY <2>1, <3>2 DEF Inv, Filed, Collection
    <3> QED BY <1>2, <1>5, <3>1, <3>3 DEF Inv, Filed, newVars
  <2>4. restored \subseteq restored' /\ (d \in docs[c] \ marked[c] \/ <<c, d>> \in restored')
    BY <1>7
  <2>5. JudgedIsHidden'
    <3> SUFFICES ASSUME NEW e \in Collection, NEW m \in Doc, <<e, m>> \in judged,
                        m \in docs'[e] \ marked'[e]
                 PROVE  <<e, m>> \in restored'
      BY <1>2 DEF Inv, JudgedIsHidden, newVars
    <3>1. m \in docs[e] \ marked[e] \/ (e = c /\ m = d)
      BY <2>1
    <3>2. m \in docs[e] \ marked[e] => <<e, m>> \in restored
      BY DEF Inv, JudgedIsHidden
    <3> QED BY <2>4, <3>1, <3>2
  <2>6. ExposedOnlyIfRestored'
    BY <1>2, <2>4 DEF Inv, ExposedOnlyIfRestored
  <2>7. MarksAreHeld'
    BY <1>2, <2>1 DEF Inv, MarksAreHeld, Holds
  <2>8. \A k \in Compactions : Named(com[k])' /\ Staged(com[k])'
    BY <1>2 DEF Inv, Named, Staged, newVars
  <2>9. judged' \subseteq Place /\ retrieved' \subseteq Doc
    BY <1>2, <1>4, <1>7 DEF Inv
  <2> QED BY <2>2, <2>3, <2>5, <2>6, <2>7, <2>8, <2>9 DEF Inv
<1> QED BY <1>1, <1>6, <1>7

\* A retrieval searches twice, writes back what it found, and returns.
LEMMA RetrieveStep ==
  ASSUME Inv, NEW r \in Retrievals, Retrieve(r)
  PROVE  Inv'
<1>1. CASE SearchFacts(r)
  BY <1>1, FindStep DEF SearchFacts, Collection
<1>2. CASE SearchSummaries(r)
  BY <1>2, FindStep DEF SearchSummaries, Collection
<1>3. CASE WriteBack(r)
  BY <1>3, WriteBackStep
<1>4. CASE Return(r)
  <2>1. /\ ret' = [ret EXCEPT ![r].at = "over"]
        /\ UNCHANGED <<newVars, storeVars, waiting, claim, com, jobs, crashes, history>>
    BY <1>4 DEF Return
  <2>2. ret[r] \in Retrieval
    BY DEF Inv, TypeOK
  <2>3. /\ [ret[r] EXCEPT !.at = "over"] \in Retrieval
        /\ [ret[r] EXCEPT !.at = "over"].hits = ret[r].hits
    BY <2>2 DEF Retrieval
  <2>4. ret' = [ret EXCEPT ![r] = [ret[r] EXCEPT !.at = "over"]]
    BY <2>1 DEF Inv, TypeOK
  <2>5. /\ ret' \in [Retrievals -> Retrieval]
        /\ \A q \in Retrievals : ret'[q].hits \subseteq ret[q].hits
    BY <2>3, <2>4 DEF Inv, TypeOK
  <2>6. TypeOK'
    BY <2>1, <2>5 DEF Inv, TypeOK, newVars, storeVars
  <2> QED BY <2>1, <2>5, <2>6, QuietStep
        DEF Inv, newVars, storeVars, history, Named, Staged, Holds
<1> QED BY <1>1, <1>2, <1>3, <1>4 DEF Retrieve

-----------------------------------------------------------------------------
(***************************************************************************)
(* Adding documents                                                        *)
(***************************************************************************)

\* Nothing but the calls that are waiting or checking changes.
LEMMA IdleStep ==
  ASSUME Inv, UNCHANGED <<newVars, storeVars, ret, com, jobs, crashes>>,
         UNCHANGED <<judged, restored, exposed, retrieved, residue>>,
         waiting' \subseteq Writers,
         claim' \in [Actor -> [todo : SUBSET Topic, new : Topic \cup {None}]]
  PROVE  Inv'
<1>1. TypeOK'
  BY DEF Inv, TypeOK, newVars, storeVars
<1> QED BY <1>1, QuietStep DEF Inv, newVars, storeVars, Named, Staged, Holds

\* Extraction names a fact; the others add a document, or fail to.
LEMMA WriteStep ==
  ASSUME Inv, NEW w \in Writers, Write(w)
  PROVE  Inv'
<1> w \in Actor /\ waiting \subseteq Writers
    /\ claim \in [Actor -> [todo : SUBSET Topic, new : Topic \cup {None}]]
  BY DEF Actor, Inv, TypeOK
<1>1. PICK t \in Topic :
        Extract(w, t) \/ Summarize(w, t) \/ Reflect(w, t) \/ StoreFact(w, t)
  BY DEF Write
<1>2. CASE Extract(w, t)
  <2>1. claim' = [claim EXCEPT ![w] = [claim[w] EXCEPT !.todo = {t}]]
    BY <1>2 DEF Extract
  <2>2. [claim[w] EXCEPT !.todo = {t}] \in [todo : SUBSET Topic, new : Topic \cup {None}]
    OBVIOUS
  <2>3. claim' \in [Actor -> [todo : SUBSET Topic, new : Topic \cup {None}]]
    BY <2>1, <2>2
  <2> QED BY <1>2, <2>3, IdleStep DEF Extract, history
<1>3. ASSUME NEW c \in Collection, NEW k \in Kind, Store(w, c, k, t),
             k \in IF c = "facts" THEN {"fact", "result"}
                   ELSE {"summary", "reflection", "result"}
      PROVE  Inv'
  <2>1. CASE Add(c, k, {t})
    BY <1>3, <2>1, AddStep DEF Store, history, Inv, TypeOK
  <2>2. CASE UNCHANGED <<newVars, storeVars>>
    BY <1>3, <2>2, IdleStep DEF Store, history
  <2> QED BY <1>3, <2>1, <2>2 DEF Store
<1>4. CASE Summarize(w, t)
  BY <1>3, <1>4 DEF Summarize, Collection, Kind
<1>5. CASE Reflect(w, t)
  BY <1>3, <1>5 DEF Reflect, Collection, Kind
<1>6. CASE StoreFact(w, t)
  BY <1>3, <1>6 DEF StoreFact, Collection, Kind
<1> QED BY <1>1, <1>2, <1>4, <1>5, <1>6

\* A fact found to be new is added, or lost.
LEMMA AddOneStep ==
  ASSUME Inv, NEW x \in Actor, AddOne(x)
  PROVE  Inv'
<1> waiting \subseteq Writers
    /\ claim \in [Actor -> [todo : SUBSET Topic, new : Topic \cup {None}]]
    /\ jobs \subseteq Job
  BY DEF Inv, TypeOK
<1>1. CASE CheckDuplicate(x)
  <2>1. PICK t \in claim[x].todo :
          \/ claim' = [claim EXCEPT ![x].todo = @ \ {t}]
          \/ claim' = [claim EXCEPT ![x] = [todo |-> @.todo \ {t}, new |-> t]]
    BY <1>1 DEF CheckDuplicate
  <2>2. t \in Topic /\ claim[x].todo \ {t} \in SUBSET Topic
    OBVIOUS
  <2>3. \/ claim' = [claim EXCEPT ![x] = [todo |-> claim[x].todo \ {t},
                                          new |-> claim[x].new]]
        \/ claim' = [claim EXCEPT ![x] = [todo |-> claim[x].todo \ {t}, new |-> t]]
    BY <2>1
  <2>4. claim' \in [Actor -> [todo : SUBSET Topic, new : Topic \cup {None}]]
    BY <2>2, <2>3
  <2> QED BY <1>1, <2>4, IdleStep DEF CheckDuplicate
<1>2. CASE AddFact(x)
  <2>1. /\ claim[x].new \in Topic
        /\ claim' = [claim EXCEPT ![x] = [claim[x] EXCEPT !.new = None]]
    BY <1>2 DEF AddFact
  <2>2. claim' \in [Actor -> [todo : SUBSET Topic, new : Topic \cup {None}]]
    <3>1. [claim[x] EXCEPT !.new = None] \in [todo : SUBSET Topic, new : Topic \cup {None}]
      OBVIOUS
    <3> QED BY <2>1, <3>1
  <2>3. CASE Add("facts", "fact", {claim[x].new})
    BY <1>2, <2>1, <2>2, <2>3, AddStep DEF AddFact, history, Collection, Kind
  <2>4. CASE UNCHANGED <<newVars, storeVars>>
    BY <1>2, <2>2, <2>4, IdleStep DEF AddFact, history
  <2> QED BY <1>2, <2>3, <2>4 DEF AddFact
<1> QED BY <1>1, <1>2 DEF AddOne

-----------------------------------------------------------------------------
(***************************************************************************)
(* Compact                                                                 *)
(***************************************************************************)

\* What a Compact that moves on has to keep in its record.
LEMMA CompactionFields ==
  ASSUME NEW run \in Compaction
  PROVE  /\ run.at \in Phase /\ run.stage \in {"list", "judge", "mark", "delete"}
         /\ run.facts \subseteq Doc /\ run.summaries \subseteq Doc
         /\ run.doomed \subseteq Place /\ run.pool \subseteq Doc
         /\ run.marks \subseteq Doc /\ run.dups \subseteq Doc
         /\ run.seen \subseteq Doc /\ run.shaky \subseteq Doc /\ run.sound \in BOOLEAN
BY DEF Compaction

\* What a deduplication leaves behind is a Compact in the next phase.
LEMMA Proceeding ==
  ASSUME Inv, NEW k \in Compactions, com[k].at \in {"first", "second", "last"}
  PROVE  /\ Proceed(k) \in Compaction /\ Named(Proceed(k)) /\ Staged(Proceed(k))
<1> DEFINE run == com[k]
           phase == PhaseAfter(run.at)
<1>1. run \in Compaction /\ Named(run)
  BY DEF Inv, TypeOK
<1>2. CASE phase = "over"
  <2>1. Finished \in Compaction
    BY DEF Finished, NoCompaction, Compaction, Phase
  <2>2. Named(Finished) /\ Staged(Finished)
    BY DEF Finished, NoCompaction, Named, Staged
  <2> QED BY <1>2, <2>1, <2>2 DEF Proceed
<1>3. CASE phase # "over"
  <2>1. phase \in Phase
    BY DEF PhaseAfter, Phase
  <2> DEFINE to == [run EXCEPT !.at = phase, !.stage = "list", !.pool = {},
                               !.marks = {}, !.dups = {}, !.shaky = {}]
  <2>2. to \in Compaction
    BY <1>1, <2>1 DEF Compaction
  <2>3. /\ to.facts = run.facts /\ to.summaries = run.summaries /\ to.stage = "list"
        /\ to.pool = {} /\ to.marks = {} /\ to.dups = {}
    BY <1>1 DEF Compaction
  <2>4. Proceed(k) = to
    BY <1>3 DEF Proceed
  <2> QED BY <1>1, <2>2, <2>3, <2>4 DEF Named, Staged
<1> QED BY <1>2, <1>3

\* A list names documents that are there, and dooms documents of their homes.
LEMMA Listing ==
  ASSUME Inv, NEW c \in Collection, NEW list, list \subseteq docs[c]
  PROVE  /\ list \subseteq Doc /\ \A d \in list : d < next
         /\ Doomed(c, list) \subseteq Place
<1>1. list \subseteq Doc
  BY DEF Inv, TypeOK
<1>2. \A d \in list : d < next
  BY DEF Inv, Filed
<1>3. Doomed(c, list) \subseteq Place
  BY <1>1 DEF Doomed, Place, HomeOf, Collection
<1> QED BY <1>1, <1>2, <1>3

LEMMA ListFactsStep ==
  ASSUME Inv, NEW k \in Compactions, ListFacts(k)
  PROVE  Inv'
<1> DEFINE run == com[k]
           To(list) == [run EXCEPT !.at = "summaries", !.facts = list,
                                   !.doomed = Doomed("facts", list), !.seen = retrieved]
<1>1. PICK list \in ListAll("facts") : Move(k, To(list))
  BY DEF ListFacts
<1>2. run.at = "facts" /\ UNCHANGED <<storeVars, claim, jobs, history>>
  BY DEF ListFacts
<1>3. run \in Compaction /\ Named(run) /\ Staged(run) /\ retrieved \subseteq Doc
  BY DEF Inv, TypeOK
<1>4. /\ list \subseteq Doc /\ \A d \in list : d < next
      /\ Doomed("facts", list) \subseteq Place
  <2>1. list \subseteq docs["facts"]
    BY DEF ListAll
  <2> QED BY <2>1, Listing DEF Collection
<1>5. To(list) \in Compaction
  BY <1>3, <1>4 DEF Compaction, Phase
<1>6. run.stage = "list"
  BY <1>2, <1>3 DEF Staged
<1>7. /\ To(list).facts = list /\ To(list).summaries = run.summaries
      /\ To(list).pool = run.pool /\ To(list).marks = run.marks
      /\ To(list).dups = run.dups /\ To(list).stage = "list"
  BY <1>3, <1>6 DEF Compaction
<1> HIDE DEF To
<1>8. Named(To(list)) /\ Staged(To(list))
  BY <1>3, <1>4, <1>7 DEF Named, Staged
<1>9. \A c \in Collection, d \in Doc : ~ Holds(com[k], c, d)
  BY <1>6 DEF Holds
<1> QED BY <1>1, <1>2, <1>5, <1>8, <1>9, MoveStep DEF Inv, TypeOK

LEMMA ListSummariesStep ==
  ASSUME Inv, NEW k \in Compactions, ListSummaries(k)
  PROVE  Inv'
<1> DEFINE run == com[k]
           many == Cardinality(run.facts) > DedupAbove
           To(list) ==
             [run EXCEPT !.at = IF many THEN "first" ELSE "consolidate",
                         !.stage = IF many THEN "judge" ELSE "list",
                         !.pool = IF many THEN @ \cup run.facts ELSE @,
                         !.summaries = list,
                         !.doomed = @ \cup Doomed("summaries", list)]
<1>1. PICK list \in ListAll("summaries") : Move(k, To(list))
  BY DEF ListSummaries
<1>2. run.at = "summaries" /\ UNCHANGED <<storeVars, claim, jobs, history>>
  BY DEF ListSummaries
<1>3. run \in Compaction /\ Named(run) /\ Staged(run)
  BY DEF Inv, TypeOK
<1>4. /\ list \subseteq Doc /\ \A d \in list : d < next
      /\ Doomed("summaries", list) \subseteq Place
  <2>1. list \subseteq docs["summaries"]
    BY DEF ListAll
  <2> QED BY <2>1, Listing DEF Collection
<1>5. To(list) \in Compaction
  <2> HIDE DEF many
  <2> QED BY <1>3, <1>4 DEF Compaction, Phase
<1>6. run.stage = "list"
  BY <1>2, <1>3 DEF Staged
<1>7. /\ To(list).facts = run.facts /\ To(list).summaries = list
      /\ To(list).pool \subseteq run.pool \cup run.facts /\ To(list).marks = run.marks
      /\ To(list).dups = run.dups /\ To(list).stage \in {"list", "judge"}
      /\ To(list).stage = "judge" => To(list).at = "first"
  <2> HIDE DEF many
  <2> QED BY <1>3, <1>6 DEF Compaction
<1> HIDE DEF To
<1>8. Named(To(list)) /\ Staged(To(list))
  BY <1>3, <1>4, <1>7 DEF Named, Staged
<1>9. \A c \in Collection, d \in Doc : ~ Holds(com[k], c, d)
  BY <1>6 DEF Holds
<1> QED BY <1>1, <1>2, <1>5, <1>8, <1>9, MoveStep DEF Inv, TypeOK

\* The duplicates are of the pool; deduplication begins in its own phases.
LEMMA JudgeStep ==
  ASSUME Inv, NEW k \in Compactions, Judge(k)
  PROVE  Inv'
<1> DEFINE run == com[k]
           To(D) == [run EXCEPT !.stage = "mark", !.marks = D, !.dups = D,
                                !.pool = {}, !.shaky = Shaky(k, D)]
<1>1. PICK D \in Judgments(run.pool) :
        Move(k, IF D = {} THEN Proceed(k) ELSE To(D))
  BY DEF Judge
<1>2. run.stage = "judge" /\ UNCHANGED <<storeVars, claim, jobs, history>>
  BY DEF Judge
<1>3. run \in Compaction /\ Named(run) /\ Staged(run)
  BY DEF Inv, TypeOK
<1>4. D \subseteq run.pool /\ run.at \in {"first", "second", "last"}
  BY <1>2, <1>3 DEF Judgments, Staged
<1>5. \A c \in Collection, d \in Doc : ~ Holds(com[k], c, d)
  BY <1>2 DEF Holds
<1>6. CASE D = {}
  <2>1. /\ Proceed(k) \in Compaction /\ Named(Proceed(k)) /\ Staged(Proceed(k))
    BY <1>4, Proceeding
  <2>2. Move(k, Proceed(k))
    BY <1>1, <1>6
  <2> QED BY <1>2, <1>5, <2>1, <2>2, MoveStep DEF Inv, TypeOK
<1>7. CASE D # {}
  <2>1. To(D) \in Compaction
    <3>1. Shaky(k, D) \subseteq Doc
      BY <1>3, <1>4 DEF Shaky, Compaction
    <3> QED BY <1>3, <1>4, <3>1 DEF Compaction
  <2>2. /\ To(D).facts = run.facts /\ To(D).summaries = run.summaries
        /\ To(D).pool = {} /\ To(D).marks = D /\ To(D).dups = D
        /\ To(D).stage = "mark" /\ To(D).at = run.at
    BY <1>3 DEF Compaction
  <2>3. Move(k, To(D))
    BY <1>1, <1>7
  <2> HIDE DEF To
  <2>4. Named(To(D)) /\ Staged(To(D))
    BY <1>3, <1>4, <2>2 DEF Named, Staged
  <2> QED BY <1>2, <1>5, <2>1, <2>3, <2>4, MoveStep DEF Inv, TypeOK
<1> QED BY <1>6, <1>7

\* What a Compact marks it will delete; what it judged is hidden now, unless
\* the mark could not be written.
LEMMA MarkOneStep ==
  ASSUME Inv, NEW k \in Compactions, MarkOne(k)
  PROVE  Inv'
<1> DEFINE run == com[k]
           c == CollectionOf(run.at)
           To(left) == [run EXCEPT !.marks = left,
                                   !.stage = IF left = {} THEN "delete" ELSE @]
<1>1. PICK d \in run.marks :
        /\ Move(k, To(run.marks \ {d}))
        /\ \/ Mark(c, d) /\ judged' = judged \cup {<<c, d>>}
           \/ flaky /\ UNCHANGED <<storeVars, judged>>
  BY DEF MarkOne
<1>2. run.stage = "mark"
      /\ UNCHANGED <<claim, jobs, restored, exposed, retrieved, raced, residue>>
  BY DEF MarkOne
<1>3. run \in Compaction /\ Named(run) /\ Staged(run)
  BY DEF Inv, TypeOK
<1> DEFINE left == run.marks \ {d}
           to == To(left)
<1>4. d \in Doc /\ d < next /\ d \in run.dups /\ c \in Collection
      /\ run.marks \subseteq run.dups
  BY <1>2, <1>3 DEF Compaction, Named, Staged, CollectionOf, Collection
<1>5. /\ to \in Compaction /\ to.at = run.at /\ to.stage \in {"mark", "delete"}
      /\ to.facts = run.facts /\ to.summaries = run.summaries
      /\ to.pool = run.pool /\ to.marks = left /\ to.dups = run.dups
  BY <1>2, <1>3 DEF Compaction
<1> HIDE DEF To
<1>6. Named(to) /\ Staged(to)
  BY <1>2, <1>3, <1>4, <1>5 DEF Named, Staged
<1>7. /\ com' = [com EXCEPT ![k] = to]
      /\ UNCHANGED <<next, kind, says, old, flaky, ret, waiting, crashes>>
  BY <1>1 DEF Move, newVars
<1>8. /\ com' \in [Compactions -> Compaction] /\ com'[k] = to
      /\ \A l \in Compactions : l # k => com'[l] = com[l]
  BY <1>5, <1>7 DEF Inv, TypeOK
<1>9. \A l \in Compactions : Named(com[l])' /\ Staged(com[l])'
  BY <1>6, <1>7, <1>8 DEF Inv, Named, Staged
<1>10. \A l \in Compactions, e \in Collection, m \in Doc :
         Holds(com[l], e, m) => Holds(com[l], e, m)'
  BY <1>5, <1>8 DEF Holds
<1>11. Holds(com'[k], c, d)
  BY <1>4, <1>5, <1>8 DEF Holds
<1>12. CASE UNCHANGED <<storeVars, judged>>
  <2>1. TypeOK'
    BY <1>2, <1>7, <1>8, <1>12 DEF Inv, TypeOK, storeVars
  <2> QED BY <1>2, <1>7, <1>9, <1>10, <1>12, <2>1, QuietStep DEF Inv, storeVars
<1>13. CASE Mark(c, d) /\ judged' = judged \cup {<<c, d>>}
  <2>1. /\ Stored' /\ docs' = docs
        /\ \A e \in Collection : marked[e] \subseteq marked'[e]
                                 /\ marked'[e] \subseteq marked[e] \cup (IF e = c THEN {d} ELSE {})
        /\ d \notin docs'[c] \ marked'[c]
    BY <1>4, <1>13, Marking DEF Inv, TypeOK, Stored
  <2>2. TypeOK'
    BY <1>2, <1>7, <1>8, <2>1 DEF Inv, TypeOK, Stored
  <2>3. Filed'
    BY <1>7, <2>1 DEF Inv, Filed
  <2>4. JudgedIsHidden'
    BY <1>2, <1>4, <1>7, <1>13, <2>1 DEF Inv, JudgedIsHidden
  <2>5. ExposedOnlyIfRestored'
    BY <1>2 DEF Inv, ExposedOnlyIfRestored
  <2>6. MarksAreHeld'
    <3> SUFFICES ASSUME ~ residue, NEW e \in Collection, NEW m \in marked'[e]
                 PROVE  \E l \in Compactions : Holds(com[l], e, m)'
      BY <1>2 DEF MarksAreHeld
    <3>1. m \in Doc /\ (m \in marked[e] \/ (e = c /\ m = d))
      BY <2>1, <2>2 DEF TypeOK
    <3>2. CASE m \in marked[e]
      BY <3>1, <3>2, <1>10 DEF Inv, MarksAreHeld
    <3>3. CASE e = c /\ m = d
      BY <3>3, <1>11 DEF Holds
    <3> QED BY <3>1, <3>2, <3>3
  <2>7. judged' \subseteq Place /\ retrieved' \subseteq Doc
    BY <1>2, <1>4, <1>13 DEF Inv, Place
  <2> QED BY <1>9, <2>2, <2>3, <2>4, <2>5, <2>6, <2>7 DEF Inv
<1> QED BY <1>1, <1>12, <1>13

\* A duplicate is let go once it has been deleted.
LEMMA DeleteOneStep ==
  ASSUME Inv, NEW k \in Compactions, DeleteOne(k)
  PROVE  Inv'
<1> DEFINE run == com[k]
           c == CollectionOf(run.at)
           To(left) == [run EXCEPT !.dups = left]
<1>1. PICK d \in run.dups :
        /\ Delete(c, d)
        /\ Move(k, IF run.dups \ {d} = {} THEN Proceed(k) ELSE To(run.dups \ {d}))
  BY DEF DeleteOne
<1>2. run.stage = "delete"
      /\ UNCHANGED <<claim, jobs, judged, restored, exposed, retrieved, raced, residue>>
  BY DEF DeleteOne
<1>3. run \in Compaction /\ Named(run) /\ Staged(run)
  BY DEF Inv, TypeOK
<1>4. d \in Doc /\ c \in Collection /\ run.at \in {"first", "second", "last"}
  BY <1>2, <1>3 DEF Compaction, Staged, CollectionOf, Collection
<1> DEFINE left == run.dups \ {d}
           to == IF left = {} THEN Proceed(k) ELSE To(left)
<1>5. /\ to \in Compaction /\ Named(to) /\ Staged(to)
      /\ \A m \in left : to.stage = "delete" /\ to.at = run.at /\ m \in to.dups
  <2>1. CASE left = {}
    BY <1>4, <2>1, Proceeding
  <2>2. CASE left # {}
    <3>1. /\ To(left) \in Compaction /\ To(left).at = run.at
          /\ To(left).stage = run.stage
          /\ To(left).facts = run.facts /\ To(left).summaries = run.summaries
          /\ To(left).pool = run.pool /\ To(left).marks = run.marks
          /\ To(left).dups = left
      BY <1>3 DEF Compaction
    <3> HIDE DEF To
    <3>2. Named(To(left)) /\ Staged(To(left))
      BY <1>2, <1>3, <1>4, <3>1 DEF Named, Staged
    <3> QED BY <1>2, <2>2, <3>1, <3>2
  <2> QED BY <2>1, <2>2
<1>6. Move(k, to)
  BY <1>1
<1> HIDE DEF to
<1>7. /\ com' = [com EXCEPT ![k] = to]
      /\ UNCHANGED <<newVars, ret, waiting, crashes>>
  BY <1>6 DEF Move
<1>8. /\ com' \in [Compactions -> Compaction] /\ com'[k] = to
      /\ \A l \in Compactions : l # k => com'[l] = com[l]
  BY <1>5, <1>7 DEF Inv, TypeOK
<1>9. \A l \in Compactions : Named(com[l])' /\ Staged(com[l])'
  BY <1>5, <1>7, <1>8 DEF Inv, Named, Staged, newVars
<1>10. ASSUME NEW l \in Compactions, NEW e \in Collection, NEW m \in Doc,
              Holds(com[l], e, m)
       PROVE  <<e, m>> = <<c, d>> \/ Holds(com[l], e, m)'
  <2>1. CASE l # k
    BY <1>8, <1>10, <2>1 DEF Holds
  <2>2. CASE l = k
    BY <1>5, <1>8, <1>10, <2>2 DEF Holds
  <2> QED BY <2>1, <2>2
<1> HIDE DEF c
<1>11. Delete(c, d)
  BY <1>1 DEF c
<1> QED BY <1>2, <1>4, <1>7, <1>8, <1>9, <1>10, <1>11, DeleteStep DEF Inv, TypeOK

\* Nobody deduplicates between the phases that do.
LEMMA Undisturbed ==
  ASSUME Inv, NEW k \in Compactions,
         com[k].at \notin {"first", "second", "last"} \/ com[k].stage = "list"
  PROVE  /\ com[k].stage = "list"
         /\ \A c \in Collection, d \in Doc : ~ Holds(com[k], c, d)
BY DEF Inv, Staged, Holds

\* The batches are of the summaries listed.
LEMMA ConsolidateStep ==
  ASSUME Inv, NEW k \in Compactions, Consolidate(k)
  PROVE  Inv'
<1> DEFINE run == com[k]
           To(at) == [run EXCEPT !.at = at]
<1>1. /\ run.at = "consolidate" /\ UNCHANGED <<storeVars, claim, history>>
  BY DEF Consolidate
<1>2. run \in Compaction /\ Named(run) /\ Staged(run)
  BY DEF Inv, TypeOK
<1>3. /\ run.stage = "list"
      /\ \A c \in Collection, d \in Doc : ~ Holds(com[k], c, d)
  BY <1>1, Undisturbed
<1>4. PICK at \in {"cleanup", "second"} : Move(k, To(at))
  BY DEF Consolidate
<1>5. jobs' \subseteq Job
  <2>1. CASE jobs' = jobs
    BY <2>1 DEF Inv, TypeOK
  <2>2. CASE jobs' # jobs
    <3>1. PICK P \in Batches(run.summaries) :
            LET rest == run.summaries \ UNION P
                all == IF Cardinality(rest) < 2 THEN P ELSE P \cup {rest}
            IN  jobs' = jobs \cup {[by |-> k, batch |-> B, todo |-> B,
                                    doc |-> None, at |-> "generate"] : B \in all}
      BY <2>2 DEF Consolidate
    <3>2. P \subseteq SUBSET run.summaries /\ run.summaries \subseteq Doc
      BY <1>2 DEF Batches, kSubset, Compaction
    <3>3. \A B \in SUBSET Doc : [by |-> k, batch |-> B, todo |-> B,
                                 doc |-> None, at |-> "generate"] \in Job
      BY DEF Job
    <3>4. P \cup {run.summaries \ UNION P} \subseteq SUBSET Doc
      BY <3>2
    <3>5. \A J \in jobs' : J \in jobs \/ \E B \in P \cup {run.summaries \ UNION P} :
             J = [by |-> k, batch |-> B, todo |-> B, doc |-> None, at |-> "generate"]
      BY <3>1
    <3> QED BY <3>3, <3>4, <3>5 DEF Inv, TypeOK
  <2> QED BY <2>1, <2>2
<1>6. /\ To(at) \in Compaction /\ To(at).facts = run.facts
      /\ To(at).summaries = run.summaries /\ To(at).pool = run.pool
      /\ To(at).marks = run.marks /\ To(at).dups = run.dups /\ To(at).stage = "list"
  BY <1>2, <1>3 DEF Compaction, Phase
<1> HIDE DEF To
<1>7. Named(To(at)) /\ Staged(To(at))
  BY <1>2, <1>6 DEF Named, Staged
<1> QED BY <1>1, <1>3, <1>4, <1>5, <1>6, <1>7, MoveStep DEF Inv, TypeOK

LEMMA ListFreshStep ==
  ASSUME Inv, NEW k \in Compactions, ListFresh(k)
  PROVE  Inv'
<1> DEFINE run == com[k]
           shaky(list) == (Going \cup old) \cap list
           To(list, sound) == [run EXCEPT !.stage = "judge", !.pool = list,
                                          !.shaky = shaky(list), !.sound = sound]
           Skip == [run EXCEPT !.at = "cleanup"]
<1>1. /\ run.at = "second" /\ run.stage = "list"
      /\ UNCHANGED <<storeVars, claim, jobs, history>>
  BY DEF ListFresh
<1>2. run \in Compaction /\ Named(run) /\ Staged(run)
  BY DEF Inv, TypeOK
<1>3. \A c \in Collection, d \in Doc : ~ Holds(com[k], c, d)
  BY <1>1, Undisturbed
<1>4. PICK fails \in {FALSE} \cup {flaky} :
        LET list == IF fails THEN run.summaries ELSE docs["summaries"]
        IN  Move(k, IF Cardinality(list) <= 1 THEN Skip
                    ELSE To(list, run.sound /\ ~fails))
  BY DEF ListFresh
<1> DEFINE list == IF fails THEN run.summaries ELSE docs["summaries"]
           sound == run.sound /\ ~fails
<1>5. list \subseteq Doc /\ \A d \in list : d < next
  BY <1>2 DEF Inv, TypeOK, Filed, Named, Compaction, Collection
<1>6. sound \in BOOLEAN
  OBVIOUS
<1>7. Move(k, Skip) \/ Move(k, To(list, sound))
  BY <1>4
<1>8. /\ Skip \in Compaction /\ Skip.facts = run.facts
      /\ Skip.summaries = run.summaries /\ Skip.pool = run.pool
      /\ Skip.marks = run.marks /\ Skip.dups = run.dups /\ Skip.stage = "list"
  BY <1>1, <1>2 DEF Compaction, Phase
<1> HIDE DEF list, sound
<1>9. /\ To(list, sound) \in Compaction /\ To(list, sound).facts = run.facts
      /\ To(list, sound).summaries = run.summaries /\ To(list, sound).pool = list
      /\ To(list, sound).marks = run.marks /\ To(list, sound).dups = run.dups
      /\ To(list, sound).stage = "judge" /\ To(list, sound).at = "second"
  <2>1. shaky(list) \subseteq Doc
    BY <1>5
  <2> HIDE DEF shaky
  <2> QED BY <1>1, <1>2, <1>5, <1>6, <2>1 DEF Compaction
<1> HIDE DEF To, Skip
<1>10. Named(Skip) /\ Staged(Skip) /\ Named(To(list, sound)) /\ Staged(To(list, sound))
  BY <1>2, <1>5, <1>8, <1>9 DEF Named, Staged
<1>11. CASE Move(k, Skip)
  BY <1>1, <1>3, <1>8, <1>10, <1>11, MoveStep DEF Inv, TypeOK
<1>12. CASE Move(k, To(list, sound))
  BY <1>1, <1>3, <1>9, <1>10, <1>12, MoveStep DEF Inv, TypeOK
<1> QED BY <1>7, <1>11, <1>12

\* Cleanup deletes one of the documents doomed by the lists.
LEMMA CleanOneStep ==
  ASSUME Inv, NEW k \in Compactions, CleanOne(k)
  PROVE  Inv'
<1> DEFINE run == com[k]
           To(place) == [run EXCEPT !.doomed = @ \ {place}]
<1>1. PICK place \in run.doomed :
        Delete(place[1], place[2]) /\ Move(k, To(place))
  BY DEF CleanOne
<1>2. run.at = "cleanup" /\ UNCHANGED <<claim, jobs, history>>
  BY DEF CleanOne
<1>3. run \in Compaction /\ Named(run) /\ Staged(run)
  BY DEF Inv, TypeOK
<1>4. place[1] \in Collection /\ place[2] \in Doc
  BY <1>3 DEF Compaction, Place
<1>5. /\ To(place) \in Compaction /\ To(place).facts = run.facts
      /\ To(place).summaries = run.summaries /\ To(place).pool = run.pool
      /\ To(place).marks = run.marks /\ To(place).dups = run.dups
      /\ To(place).stage = run.stage /\ To(place).at = run.at
  BY <1>3 DEF Compaction
<1> HIDE DEF To
<1>6. Named(To(place)) /\ Staged(To(place))
  BY <1>3, <1>5 DEF Named, Staged
<1>7. /\ com' = [com EXCEPT ![k] = To(place)]
      /\ UNCHANGED <<newVars, ret, waiting, crashes>>
  BY <1>1 DEF Move
<1>8. /\ com' \in [Compactions -> Compaction] /\ com'[k] = To(place)
      /\ \A l \in Compactions : l # k => com'[l] = com[l]
  BY <1>5, <1>7 DEF Inv, TypeOK
<1>9. \A l \in Compactions : Named(com[l])' /\ Staged(com[l])'
  BY <1>6, <1>7, <1>8 DEF Inv, Named, Staged, newVars
<1>10. \A l \in Compactions, e \in Collection, m \in Doc :
         Holds(com[l], e, m) => Holds(com[l], e, m)'
  BY <1>5, <1>8 DEF Holds
<1> QED BY <1>1, <1>2, <1>4, <1>7, <1>8, <1>9, <1>10, DeleteStep DEF Inv, TypeOK, history

\* The facts promoted are about topics of the summaries listed.
LEMMA PromoteStep ==
  ASSUME Inv, NEW k \in Compactions, Promote(k)
  PROVE  Inv'
<1> DEFINE run == com[k]
           To == [run EXCEPT !.at = "last"]
<1>1. /\ run.at = "cleanup" /\ Move(k, To)
      /\ UNCHANGED <<storeVars, jobs, history>>
  BY DEF Promote
<1>2. run \in Compaction /\ Named(run) /\ Staged(run)
  BY DEF Inv, TypeOK
<1>3. /\ run.stage = "list"
      /\ \A c \in Collection, d \in Doc : ~ Holds(com[k], c, d)
  BY <1>1, Undisturbed
<1>4. PICK recent \in SUBSET run.summaries :
        \E named \in SUBSET UNION {says[d] : d \in recent} :
          claim' = [claim EXCEPT ![k].todo = named]
  BY DEF Promote, kSubset
<1>5. PICK named \in SUBSET Topic : claim' = [claim EXCEPT ![k] = [claim[k] EXCEPT !.todo = named]]
  <2>1. \A d \in recent : says[d] \subseteq Topic
    BY <1>2 DEF Inv, TypeOK, Compaction
  <2>2. PICK named \in SUBSET UNION {says[d] : d \in recent} :
          claim' = [claim EXCEPT ![k] = [claim[k] EXCEPT !.todo = named]]
    BY <1>4
  <2>3. named \subseteq Topic
    BY <2>1
  <2> QED BY <2>2, <2>3
<1>6. claim' \in [Actor -> [todo : SUBSET Topic, new : Topic \cup {None}]]
  <2>1. k \in Actor /\ claim \in [Actor -> [todo : SUBSET Topic, new : Topic \cup {None}]]
    BY DEF Actor, Inv, TypeOK
  <2>2. [claim[k] EXCEPT !.todo = named] \in [todo : SUBSET Topic, new : Topic \cup {None}]
    BY <2>1
  <2> QED BY <1>5, <2>1, <2>2
<1>7. /\ To \in Compaction /\ To.facts = run.facts /\ To.summaries = run.summaries
      /\ To.pool = run.pool /\ To.marks = run.marks /\ To.dups = run.dups
      /\ To.stage = "list"
  BY <1>2, <1>3 DEF Compaction, Phase
<1> HIDE DEF To
<1>8. Named(To) /\ Staged(To)
  BY <1>2, <1>7 DEF Named, Staged
<1> QED BY <1>1, <1>3, <1>6, <1>7, <1>8, MoveStep DEF Inv, TypeOK

LEMMA RefetchStep ==
  ASSUME Inv, NEW k \in Compactions, Refetch(k)
  PROVE  Inv'
<1> DEFINE run == com[k]
           To(list, sound) == [run EXCEPT !.stage = "judge", !.pool = list,
                                          !.sound = sound]
<1>1. /\ run.at = "last" /\ run.stage = "list"
      /\ UNCHANGED <<storeVars, claim, jobs, history>>
  BY DEF Refetch
<1>2. run \in Compaction /\ Named(run) /\ Staged(run)
  BY DEF Inv, TypeOK
<1>3. \A c \in Collection, d \in Doc : ~ Holds(com[k], c, d)
  BY <1>1, Undisturbed
<1>4. PICK fails \in {FALSE} \cup {flaky} :
        LET list == IF fails THEN run.facts ELSE docs["facts"]
        IN  Move(k, IF list = {} THEN Finished ELSE To(list, run.sound /\ ~fails))
  BY DEF Refetch
<1> DEFINE list == IF fails THEN run.facts ELSE docs["facts"]
           sound == run.sound /\ ~fails
<1>5. list \subseteq Doc /\ \A d \in list : d < next
  BY <1>2 DEF Inv, TypeOK, Filed, Named, Compaction, Collection
<1>6. sound \in BOOLEAN
  OBVIOUS
<1>7. Move(k, Finished) \/ Move(k, To(list, sound))
  BY <1>4
<1>8. /\ Finished \in Compaction /\ Named(Finished) /\ Staged(Finished)
  BY DEF Finished, NoCompaction, Compaction, Phase, Named, Staged
<1> HIDE DEF list, sound
<1>9. /\ To(list, sound) \in Compaction /\ To(list, sound).facts = run.facts
      /\ To(list, sound).summaries = run.summaries /\ To(list, sound).pool = list
      /\ To(list, sound).marks = run.marks /\ To(list, sound).dups = run.dups
      /\ To(list, sound).stage = "judge" /\ To(list, sound).at = "last"
  BY <1>1, <1>2, <1>5, <1>6 DEF Compaction
<1> HIDE DEF To
<1>10. Named(To(list, sound)) /\ Staged(To(list, sound))
  BY <1>2, <1>5, <1>9 DEF Named, Staged
<1>11. CASE Move(k, Finished)
  BY <1>1, <1>3, <1>8, <1>11, MoveStep DEF Inv, TypeOK
<1>12. CASE Move(k, To(list, sound))
  BY <1>1, <1>3, <1>9, <1>10, <1>12, MoveStep DEF Inv, TypeOK
<1> QED BY <1>7, <1>11, <1>12

\* A Compact that begins only tells the others that they are not alone.
LEMMA BeginStep ==
  ASSUME Inv, NEW k \in Compactions, BeginCompact(k)
  PROVE  Inv'
<1> DEFINE Started == [com[k] EXCEPT !.at = "facts", !.sound = Active = {}]
           Joined(l) == [com[l] EXCEPT !.sound = FALSE]
<1>1. /\ com[k].at = "idle"
      /\ com' = [l \in Compactions |->
                   IF l = k THEN Started
                   ELSE IF l \in Active THEN Joined(l)
                   ELSE com[l]]
      /\ UNCHANGED <<newVars, storeVars, ret, waiting, claim, jobs, crashes, history>>
  BY DEF BeginCompact
<1>2. \A l \in Compactions : com[l] \in Compaction /\ Named(com[l]) /\ Staged(com[l])
  BY DEF Inv, TypeOK
<1>3. com[k].stage = "list" /\ \A c \in Collection, d \in Doc : ~ Holds(com[k], c, d)
  BY <1>1, Undisturbed
<1>4. (Active = {}) \in BOOLEAN
  OBVIOUS
<1>5. /\ Started \in Compaction
      /\ Started.facts = com[k].facts /\ Started.summaries = com[k].summaries
      /\ Started.pool = com[k].pool /\ Started.marks = com[k].marks
      /\ Started.dups = com[k].dups /\ Started.stage = "list"
  BY <1>2, <1>3, <1>4 DEF Compaction, Phase
<1>6. \A l \in Compactions :
        /\ Joined(l) \in Compaction
        /\ Joined(l).facts = com[l].facts /\ Joined(l).summaries = com[l].summaries
        /\ Joined(l).pool = com[l].pool /\ Joined(l).marks = com[l].marks
        /\ Joined(l).dups = com[l].dups /\ Joined(l).stage = com[l].stage
        /\ Joined(l).at = com[l].at
  BY <1>2 DEF Compaction
<1>7. /\ com'[k] = Started
      /\ \A l \in Compactions : l # k => com'[l] \in {com[l], Joined(l)}
  BY <1>1
<1> HIDE DEF Started, Joined
<1>8. com' \in [Compactions -> Compaction]
  BY <1>1, <1>2, <1>5, <1>6
<1>9. \A l \in Compactions : Named(com[l])' /\ Staged(com[l])'
  BY <1>1, <1>2, <1>5, <1>6, <1>7 DEF Named, Staged, newVars
<1>10. \A l \in Compactions, c \in Collection, d \in Doc :
         Holds(com[l], c, d) => Holds(com[l], c, d)'
  BY <1>3, <1>6, <1>7 DEF Holds
<1>11. TypeOK'
  BY <1>1, <1>8 DEF Inv, TypeOK, newVars, storeVars
<1> QED BY <1>1, <1>9, <1>10, <1>11, QuietStep DEF Inv, newVars, storeVars, history

LEMMA CompactStep ==
  ASSUME Inv, NEW k \in Compactions, Compact(k)
  PROVE  Inv'
<1>1. k \in Actor
  BY DEF Actor
<1> QED BY <1>1, ListFactsStep, ListSummariesStep, JudgeStep, MarkOneStep, DeleteOneStep,
           ConsolidateStep, ListFreshStep, CleanOneStep, PromoteStep, AddOneStep,
           RefetchStep DEF Compact

-----------------------------------------------------------------------------
(***************************************************************************)
(* Background consolidation, a crash, and what holds always                *)
(***************************************************************************)

\* A batch is summed up in one new summary and deleted one by one.
LEMMA ConsolidationStep ==
  ASSUME Inv, NEW j \in jobs, Consolidation(j)
  PROVE  Inv'
<1>1. /\ jobs \subseteq Job /\ j \in Job /\ waiting \subseteq Writers
      /\ claim \in [Actor -> [todo : SUBSET Topic, new : Topic \cup {None}]]
      /\ says \in [Doc -> SUBSET Topic] /\ com \in [Compactions -> Compaction]
  BY DEF Inv, TypeOK
<1>2. j.batch \subseteq Doc /\ j.todo \subseteq Doc
  BY <1>1 DEF Job
<1>3. ASSUME NEW job \in Job, Swap(j, job) PROVE jobs' \subseteq Job
  BY <1>1, <1>3 DEF Swap
<1>4. ASSUME UNCHANGED <<newVars, storeVars, ret, waiting, claim, com, crashes>>,
             UNCHANGED <<judged, restored, exposed, retrieved, residue>>,
             jobs' \subseteq Job
      PROVE  Inv'
  <2>1. TypeOK'
    BY <1>4 DEF Inv, TypeOK, newVars, storeVars
  <2> QED BY <1>4, <2>1, QuietStep DEF Inv, newVars, storeVars, Named, Staged, Holds
<1>5. [j EXCEPT !.at = "add"] \in Job /\ [j EXCEPT !.at = "delete"] \in Job
  BY <1>1 DEF Job
<1>6. CASE JobGenerates(j)
  <2>1. jobs' \subseteq Job
    BY <1>1, <1>3, <1>5, <1>6 DEF JobGenerates
  <2> QED BY <1>4, <1>6, <2>1 DEF JobGenerates, history
<1>7. CASE JobAdds(j)
  <2> DEFINE topics == UNION {says[d] : d \in j.batch}
  <2>1. UNCHANGED <<ret, waiting, claim, com, crashes, judged, restored, exposed,
                    retrieved, raced, residue>>
    BY <1>7 DEF JobAdds
  <2>2. CASE /\ Add("summaries", "summary", topics)
             /\ Swap(j, [j EXCEPT !.at = "delete", !.doc = next])
    <3>1. next \in Doc /\ topics \in SUBSET Topic
      BY <1>1, <1>2, <2>2 DEF Add
    <3>2. [j EXCEPT !.at = "delete", !.doc = next] \in Job
      BY <1>1, <3>1 DEF Job
    <3>3. jobs' \subseteq Job
      BY <1>3, <2>2, <3>2
    <3>4. Add("summaries", "summary", topics)
      BY <2>2
    <3> HIDE DEF topics
    <3> QED BY <1>1, <2>1, <3>1, <3>3, <3>4, AddStep DEF Collection, Kind
  <2>3. CASE /\ Swap(j, [j EXCEPT !.at = "delete"])
             /\ UNCHANGED <<newVars, storeVars>>
    <3>1. jobs' \subseteq Job
      BY <1>3, <1>5, <2>3
    <3> QED BY <1>4, <2>1, <2>3, <3>1
  <2> QED BY <1>7, <2>2, <2>3 DEF JobAdds
<1>8. CASE JobDeletes(j)
  <2>1. PICK d \in j.todo :
          /\ Delete("summaries", d)
          /\ IF j.todo = {d} THEN jobs' = jobs \ {j}
             ELSE Swap(j, [j EXCEPT !.todo = @ \ {d}])
    BY <1>8 DEF JobDeletes
  <2>2. UNCHANGED <<newVars, ret, waiting, claim, com, crashes, history>>
    BY <1>8 DEF JobDeletes
  <2>3. d \in Doc /\ [j EXCEPT !.todo = @ \ {d}] \in Job
    BY <1>1, <1>2 DEF Job
  <2>4. jobs' \subseteq Job
    BY <1>1, <1>3, <2>1, <2>3
  <2>5. \A k \in Compactions : Named(com[k])' /\ Staged(com[k])'
    BY <2>2 DEF Inv, Named, Staged, newVars
  <2>6. \A k \in Compactions, e \in Collection, m \in Doc :
          Holds(com[k], e, m) => Holds(com[k], e, m)'
    BY <2>2 DEF Holds
  <2> QED BY <1>1, <2>1, <2>2, <2>3, <2>4, <2>5, <2>6, DeleteStep DEF history, Collection
<1> QED BY <1>6, <1>7, <1>8 DEF Consolidation

\* A crash ends all that is under way; what is marked then stays marked.
LEMMA CrashStep ==
  ASSUME Inv, Crash
  PROVE  Inv'
<1>1. /\ crashes < MaxCrashes /\ crashes' = crashes + 1
      /\ ret' = [r \in Retrievals |-> IF ret[r].at = "idle" THEN ret[r] ELSE Returned]
      /\ claim' = [x \in Actor |-> NoClaim]
      /\ com' = [k \in Compactions |-> IF com[k].at = "idle" THEN com[k] ELSE Finished]
      /\ jobs' = {}
      /\ residue' = (residue \/ \E c \in Collection : marked[c] # {})
      /\ UNCHANGED <<newVars, storeVars, waiting, judged, restored, exposed,
                     retrieved, raced, atRisk>>
  BY DEF Crash
<1>2. /\ Returned \in Retrieval /\ Returned.hits = {}
      /\ NoClaim \in [todo : SUBSET Topic, new : Topic \cup {None}]
  BY DEF Returned, NoRetrieval, Retrieval, NoClaim
<1>3. Finished \in Compaction /\ Named(Finished)' /\ Staged(Finished)
  BY DEF Finished, NoCompaction, Compaction, Phase, Named, Staged
<1>4. TypeOK'
  <2>1. crashes' \in 0 .. MaxCrashes
    BY <1>1, LimitAssumption DEF Inv, TypeOK
  <2>2. /\ ret' \in [Retrievals -> Retrieval]
        /\ claim' \in [Actor -> [todo : SUBSET Topic, new : Topic \cup {None}]]
        /\ com' \in [Compactions -> Compaction]
    BY <1>1, <1>2, <1>3 DEF Inv, TypeOK
  <2> QED BY <1>1, <2>1, <2>2 DEF Inv, TypeOK, newVars, storeVars
<1>5. \A r \in Retrievals : ret'[r].hits \subseteq ret[r].hits
  BY <1>1, <1>2
<1>6. \A k \in Compactions : Named(com[k])' /\ Staged(com[k])'
  BY <1>1, <1>3 DEF Inv, Named, Staged, newVars
<1>7. Filed' /\ JudgedIsHidden' /\ ExposedOnlyIfRestored'
  BY <1>1, <1>5 DEF Inv, Filed, JudgedIsHidden, ExposedOnlyIfRestored, newVars, storeVars
<1>8. MarksAreHeld'
  BY <1>1 DEF MarksAreHeld, storeVars
<1> QED BY <1>1, <1>4, <1>6, <1>7, <1>8 DEF Inv

\* The invariant holds in every state that is reached.
LEMMA Invariance == Spec => []Inv
<1>1. Inv /\ [Next]_vars => Inv'
  <2> SUFFICES ASSUME Inv, [Next]_vars PROVE Inv'
    OBVIOUS
  <2>1. ASSUME NEW r \in Retrievals, Retrieve(r) PROVE Inv'
    BY <2>1, RetrieveStep
  <2>2. ASSUME NEW w \in Writers, Write(w) \/ AddOne(w) PROVE Inv'
    BY <2>2, WriteStep, AddOneStep DEF Actor
  <2>3. ASSUME NEW k \in Compactions, BeginCompact(k) \/ Compact(k) PROVE Inv'
    BY <2>3, BeginStep, CompactStep
  <2>4. ASSUME NEW j \in jobs, Consolidation(j) PROVE Inv'
    BY <2>4, ConsolidationStep
  <2>5. CASE Crash
    BY <2>5, CrashStep
  <2>6. CASE UNCHANGED vars
    BY <2>6 DEF vars, Inv, TypeOK, Filed, Named, Staged, JudgedIsHidden,
                ExposedOnlyIfRestored, MarksAreHeld, Holds
  <2> QED BY <2>1, <2>2, <2>3, <2>4, <2>5, <2>6 DEF Next
<1> QED BY Initial, <1>1, PTL DEF Spec

\* The variables keep their types: marked and read documents are documents of
\* their collection, and none is both.
THEOREM TypeCorrect == Spec => []TypeOK
<1>1. Inv => TypeOK
  BY DEF Inv
<1> QED BY Invariance, <1>1, PTL

\* A search that begins after a document was judged a duplicate returns it
\* only if a retrieval that had read it before has written it back.
THEOREM ExposureIsExplained == Spec => []ExposedOnlyIfRestored
<1>1. Inv => ExposedOnlyIfRestored
  BY DEF Inv
<1> QED BY Invariance, <1>1, PTL

\* Only sub-agent results are in the collection they were not added to.
THEOREM MisfiledAreResults == Spec => []OnlyResultsAreMisfiled
<1>1. Inv => OnlyResultsAreMisfiled
  BY DEF Inv, Filed, OnlyResultsAreMisfiled
<1> QED BY Invariance, <1>1, PTL

\* When no Compact is under way, and none was cut short, nothing is marked.
THEOREM NoMarkStays == Spec => []NoMarkIsLeft
<1>1. Inv => NoMarkIsLeft
  <2> SUFFICES ASSUME Inv, Active = {}, ~ residue, NEW c \in Collection,
                      NEW d \in marked[c]
               PROVE  FALSE
    BY DEF NoMarkIsLeft
  <2>1. PICK k \in Compactions : Holds(com[k], c, d)
    BY DEF Inv, MarksAreHeld
  <2>2. com[k].at \in {"first", "second", "last"}
    BY <2>1 DEF Inv, Staged, Holds
  <2> QED BY <2>2 DEF Active
<1> QED BY Invariance, <1>1, PTL
-----------------------------------------------------------------------------
(***************************************************************************)
(* What a step can do to the store                                         *)
(***************************************************************************)

Quiet == UNCHANGED <<next, kind, says, docs, marked, used, retrieved, restored>>

\* A new document; extracted and promoted facts come from AddFact alone.
Grows(c, k, topics) ==
    /\ Add(c, k, topics)
    /\ UNCHANGED <<retrieved, restored>>
    /\ \/ k # "fact" /\ UNCHANGED claim
       \/ \E x \in Actor : /\ AddFact(x) /\ claim[x].new \in Topic
                           /\ topics = {claim[x].new}

WritesBack(d) ==
    /\ Rewrite(HomeOf(d), d)
    /\ retrieved' = retrieved \cup {d}
    /\ restored' = IF d \in docs[HomeOf(d)] \ marked[HomeOf(d)] THEN restored
                   ELSE restored \cup {<<HomeOf(d), d>>}
    /\ UNCHANGED <<newVars, claim>>

Shrinks(c, d) ==
    /\ Mark(c, d) \/ Delete(c, d)
    /\ UNCHANGED <<newVars, claim, retrieved, restored>>

LEMMA WriteIsOne ==
  ASSUME Inv, NEW w \in Writers, Write(w)
  PROVE  \/ Quiet
         \/ \E c \in Collection, k \in Kind, topics \in SUBSET Topic : Grows(c, k, topics)
<1>1. PICK t \in Topic :
        Extract(w, t) \/ Summarize(w, t) \/ Reflect(w, t) \/ StoreFact(w, t)
  BY DEF Write
<1>2. CASE Extract(w, t)
  BY <1>2 DEF Extract, Quiet, newVars, storeVars, history
<1>3. ASSUME NEW c \in Collection, NEW k \in Kind \ {"fact"}, Store(w, c, k, t)
      PROVE  Quiet \/ Grows(c, k, {t})
  BY <1>3 DEF Store, Quiet, Grows, newVars, storeVars, history
<1>4. {t} \in SUBSET Topic
  OBVIOUS
<1>5. CASE Summarize(w, t)
  BY <1>3, <1>4, <1>5 DEF Summarize, Collection, Kind
<1>6. CASE Reflect(w, t)
  BY <1>3, <1>4, <1>6 DEF Reflect, Collection, Kind
<1>7. CASE StoreFact(w, t)
  BY <1>3, <1>4, <1>7 DEF StoreFact, Collection, Kind
<1> QED BY <1>1, <1>2, <1>5, <1>6, <1>7

LEMMA AddOneIsOne ==
  ASSUME Inv, NEW x \in Actor, AddOne(x)
  PROVE  \/ Quiet
         \/ \E c \in Collection, k \in Kind, topics \in SUBSET Topic : Grows(c, k, topics)
<1>1. CASE CheckDuplicate(x)
  BY <1>1 DEF CheckDuplicate, Quiet, newVars, storeVars
<1>2. CASE AddFact(x)
  <2>1. claim[x].new \in Topic
    BY <1>2 DEF AddFact, Inv, TypeOK
  <2>2. CASE UNCHANGED <<newVars, storeVars>>
    BY <1>2, <2>2 DEF AddFact, Quiet, newVars, storeVars, history
  <2>3. CASE Add("facts", "fact", {claim[x].new})
    <3>1. Grows("facts", "fact", {claim[x].new})
      BY <1>2, <2>1, <2>3 DEF AddFact, Grows, history
    <3> QED BY <2>1, <3>1 DEF Collection, Kind
  <2> QED BY <1>2, <2>2, <2>3 DEF AddFact
<1> QED BY <1>1, <1>2 DEF AddOne

LEMMA CompactIsOne ==
  ASSUME Inv, NEW k \in Compactions, Compact(k)
  PROVE  \/ Quiet
         \/ \E c \in Collection, n \in Kind, topics \in SUBSET Topic : Grows(c, n, topics)
         \/ \E c \in Collection, d \in Doc : Shrinks(c, d)
<1>1. com[k] \in Compaction /\ Staged(com[k])
  BY DEF Inv, TypeOK
<1>2. CollectionOf(com[k].at) \in Collection
  BY DEF CollectionOf, Collection
<1>3. CASE AddOne(k)
  BY <1>3, AddOneIsOne DEF Actor
<1>4. CASE MarkOne(k)
  <2>1. PICK d \in com[k].marks :
          \/ Mark(CollectionOf(com[k].at), d)
          \/ UNCHANGED storeVars
    BY <1>4 DEF MarkOne
  <2>2. UNCHANGED <<newVars, claim, retrieved, restored>>
    BY <1>4 DEF MarkOne, Move
  <2>3. d \in Doc
    BY <1>1 DEF Compaction
  <2> QED BY <1>2, <2>1, <2>2, <2>3 DEF Shrinks, Quiet, newVars, storeVars
<1>5. CASE DeleteOne(k)
  <2>1. PICK d \in com[k].dups : Delete(CollectionOf(com[k].at), d)
    BY <1>5 DEF DeleteOne
  <2>2. UNCHANGED <<newVars, claim, retrieved, restored>>
    BY <1>5 DEF DeleteOne, Move
  <2>3. d \in Doc
    BY <1>1 DEF Compaction
  <2> QED BY <1>2, <2>1, <2>2, <2>3 DEF Shrinks
<1>6. CASE CleanOne(k)
  <2>1. PICK place \in com[k].doomed : Delete(place[1], place[2])
    BY <1>6 DEF CleanOne
  <2>2. UNCHANGED <<newVars, claim, retrieved, restored>>
    BY <1>6 DEF CleanOne, Move, history
  <2>3. place[1] \in Collection /\ place[2] \in Doc
    BY <1>1 DEF Compaction, Place
  <2> QED BY <2>1, <2>2, <2>3 DEF Shrinks
<1>7. CASE ListFacts(k) \/ ListSummaries(k) \/ Judge(k) \/ Refetch(k)
  BY <1>7 DEF ListFacts, ListSummaries, Judge, Refetch, Move, Quiet,
              newVars, storeVars, history
<1>8. CASE Consolidate(k) \/ ListFresh(k) \/ Promote(k)
  BY <1>8 DEF Consolidate, ListFresh, Promote, Move, Quiet, newVars, storeVars, history
<1> QED BY <1>3, <1>4, <1>5, <1>6, <1>7, <1>8 DEF Compact

LEMMA ConsolidationIsOne ==
  ASSUME Inv, NEW j \in jobs, Consolidation(j)
  PROVE  \/ Quiet
         \/ \E c \in Collection, n \in Kind, topics \in SUBSET Topic : Grows(c, n, topics)
         \/ \E c \in Collection, d \in Doc : Shrinks(c, d)
<1>1. j \in Job /\ says \in [Doc -> SUBSET Topic]
  BY DEF Inv, TypeOK
<1>2. CASE JobGenerates(j)
  BY <1>2 DEF JobGenerates, Quiet, newVars, storeVars, history
<1>3. CASE JobAdds(j)
  <2> DEFINE topics == UNION {says[d] : d \in j.batch}
  <2>1. topics \in SUBSET Topic
    BY <1>1 DEF Job
  <2>2. CASE Add("summaries", "summary", topics)
    <3>1. Grows("summaries", "summary", topics)
      BY <1>3, <2>2 DEF JobAdds, Grows
    <3> HIDE DEF topics
    <3> QED BY <2>1, <3>1 DEF Collection, Kind
  <2>3. CASE UNCHANGED <<newVars, storeVars>>
    BY <1>3, <2>3 DEF JobAdds, Quiet, newVars, storeVars
  <2> QED BY <1>3, <2>2, <2>3 DEF JobAdds
<1>4. CASE JobDeletes(j)
  <2>1. PICK d \in j.todo : Delete("summaries", d)
    BY <1>4 DEF JobDeletes
  <2>2. d \in Doc /\ "summaries" \in Collection
    BY <1>1 DEF Job, Collection
  <2>3. Shrinks("summaries", d)
    BY <1>4, <2>1 DEF JobDeletes, Shrinks, history
  <2> QED BY <2>2, <2>3
<1> QED BY <1>2, <1>3, <1>4 DEF Consolidation

\* A step leaves the store alone, adds a document, writes one back, marks one
\* or deletes one.
LEMMA StoreStep ==
  ASSUME Inv, [Next]_vars
  PROVE  \/ Quiet
         \/ \E c \in Collection, k \in Kind, topics \in SUBSET Topic : Grows(c, k, topics)
         \/ \E d \in Doc : d < next /\ kind[d] \in Kind /\ WritesBack(d)
         \/ \E c \in Collection, d \in Doc : Shrinks(c, d)
<1>1. ASSUME NEW r \in Retrievals, Retrieve(r)
      PROVE  Quiet \/ \E d \in Doc : d < next /\ kind[d] \in Kind /\ WritesBack(d)
  <2>1. CASE SearchFacts(r) \/ SearchSummaries(r) \/ Return(r)
    BY <2>1 DEF SearchFacts, SearchSummaries, Return, Find, Quiet, newVars,
                storeVars, history
  <2>2. CASE WriteBack(r)
    <3>1. PICK hit \in ret[r].hits :
            \/ /\ Rewrite(HomeOf(hit[2]), hit[2])
               /\ retrieved' = retrieved \cup {hit[2]}
               /\ restored' = IF hit[2] \in docs[HomeOf(hit[2])] \ marked[HomeOf(hit[2])]
                              THEN restored
                              ELSE restored \cup {<<HomeOf(hit[2]), hit[2]>>}
            \/ UNCHANGED <<storeVars, retrieved, restored>>
      BY <2>2 DEF WriteBack
    <3>2. UNCHANGED <<newVars, claim>>
      BY <2>2 DEF WriteBack
    <3>3. hit[2] \in Doc /\ hit[2] < next /\ kind[hit[2]] \in Kind
      BY DEF Inv, TypeOK, Filed, Retrieval, Place
    <3> QED BY <3>1, <3>2, <3>3 DEF WritesBack, Quiet, newVars, storeVars
  <2> QED BY <1>1, <2>1, <2>2 DEF Retrieve
<1>2. ASSUME NEW w \in Writers, Write(w) \/ AddOne(w)
      PROVE  \/ Quiet
             \/ \E c \in Collection, k \in Kind, topics \in SUBSET Topic : Grows(c, k, topics)
  BY <1>2, WriteIsOne, AddOneIsOne DEF Actor
<1>3. ASSUME NEW k \in Compactions, BeginCompact(k)
      PROVE  Quiet
  BY <1>3 DEF BeginCompact, Quiet, newVars, storeVars, history
<1>4. CASE Crash
  BY <1>4 DEF Crash, Quiet, newVars, storeVars
<1>5. CASE UNCHANGED vars
  BY <1>5 DEF vars, Quiet
<1> QED BY <1>1, <1>2, <1>3, <1>4, <1>5, CompactIsOne, ConsolidationIsOne DEF Next


-----------------------------------------------------------------------------
(***************************************************************************)
(* Cleanup spares what was retrieved                                       *)
(***************************************************************************)

\* A document that was written back has an access count where its type is at
\* home, if it is there and was not marked since.
Accessed ==
    \A d \in retrieved :
      /\ d < next
      /\ d \in docs[HomeOf(d)] \ marked[HomeOf(d)] => d \in used[HomeOf(d)]

\* A Compact dooms no document it saw retrieved, sub-agent results excepted.
SparesSeen(run) ==
    /\ run.seen \subseteq retrieved
    /\ \A place \in run.doomed : place[2] \in run.seen => kind[place[2]] = "result"

Sparing == Accessed /\ \A k \in Compactions : SparesSeen(com[k])

LEMMA AccessStep ==
  ASSUME Inv, Accessed, [Next]_vars
  PROVE  Accessed' /\ retrieved \subseteq retrieved' /\ \A d \in retrieved : kind'[d] = kind[d]
<1>1. retrieved \subseteq Doc
  BY DEF Inv
<1>2. CASE Quiet
  BY <1>2 DEF Quiet, Accessed, HomeOf
<1>3. ASSUME NEW c \in Collection, NEW k \in Kind, NEW topics \in SUBSET Topic,
             Grows(c, k, topics)
      PROVE  Accessed' /\ retrieved \subseteq retrieved' /\ \A d \in retrieved : kind'[d] = kind[d]
  <2>1. /\ next' = next + 1 /\ marked' = marked /\ used' = used /\ retrieved' = retrieved
        /\ \A d \in Doc : d # next => kind'[d] = kind[d]
        /\ \A e \in Collection : docs'[e] = docs[e] \cup (IF e = c THEN {next} ELSE {})
    BY <1>3, Adding DEF Inv, TypeOK, Stored, Grows, Add
  <2>2. \A d \in retrieved : d # next /\ d < next'
    <3> SUFFICES ASSUME NEW d \in retrieved PROVE d # next /\ d < next'
      OBVIOUS
    <3>1. d \in Nat /\ next \in Nat /\ d < next
      BY <1>1, DocAssumption DEF Accessed, Inv, TypeOK
    <3> QED BY <2>1, <3>1
  <2>3. \A d \in retrieved : kind'[d] = kind[d] /\ HomeOf(d)' = HomeOf(d)
                             /\ HomeOf(d) \in Collection
    BY <1>1, <2>1, <2>2 DEF HomeOf, Collection
  <2>4. \A d \in retrieved : d \in docs'[HomeOf(d)] => d \in docs[HomeOf(d)]
    BY <2>1, <2>2, <2>3
  <2> QED BY <2>1, <2>2, <2>3, <2>4 DEF Accessed
<1>4. ASSUME NEW m \in Doc, m < next, WritesBack(m)
      PROVE  Accessed' /\ retrieved \subseteq retrieved' /\ \A d \in retrieved : kind'[d] = kind[d]
  <2> DEFINE c == HomeOf(m)
  <2>1. c \in Collection /\ \A d \in Doc : HomeOf(d) \in Collection
    BY DEF HomeOf, Collection
  <2>2. /\ docs' = [docs EXCEPT ![c] = @ \cup {m}]
        /\ marked' = [marked EXCEPT ![c] = @ \ {m}]
        /\ used' = [used EXCEPT ![c] = @ \cup {m}]
        /\ retrieved' = retrieved \cup {m} /\ next' = next /\ kind' = kind
    BY <1>4 DEF WritesBack, Rewrite, newVars
  <2>3. \A d \in Doc : HomeOf(d)' = HomeOf(d)
    BY <2>2 DEF HomeOf
  <2>4. ASSUME NEW d \in retrieved'
        PROVE  /\ d < next'
               /\ d \in docs'[HomeOf(d)] \ marked'[HomeOf(d)] => d \in used'[HomeOf(d)]
    <3>1. d \in Doc
      BY <1>1, <2>2
    <3>2. CASE d = m
      BY <1>4, <2>1, <2>2, <3>2 DEF Inv, TypeOK
    <3>3. CASE d # m
      <4>1. d \in retrieved
        BY <2>2, <3>3
      <4>2. \A e \in Collection : /\ d \in docs'[e] <=> d \in docs[e]
                                  /\ d \in marked'[e] <=> d \in marked[e]
                                  /\ d \in used'[e] <=> d \in used[e]
        BY <2>1, <2>2, <3>3 DEF Inv, TypeOK
      <4> QED BY <2>1, <2>2, <3>1, <4>1, <4>2 DEF Accessed
    <3> QED BY <3>2, <3>3
  <2> QED BY <1>1, <2>2, <2>3, <2>4 DEF Accessed
<1>5. ASSUME NEW c \in Collection, NEW m \in Doc, Shrinks(c, m)
      PROVE  Accessed' /\ retrieved \subseteq retrieved' /\ \A d \in retrieved : kind'[d] = kind[d]
  <2>1. next' = next /\ kind' = kind /\ retrieved' = retrieved
    BY <1>5 DEF Shrinks, newVars
  <2>2. \A d \in Doc, e \in Collection :
          d \in docs'[e] \ marked'[e] =>
            d \in docs[e] \ marked[e] /\ (d \in used[e] => d \in used'[e])
    BY <1>5 DEF Shrinks, Mark, Delete, Inv, TypeOK
  <2>3. \A d \in Doc : HomeOf(d)' = HomeOf(d) /\ HomeOf(d) \in Collection
    BY <2>1 DEF HomeOf, Collection
  <2> QED BY <1>1, <2>1, <2>2, <2>3 DEF Accessed
<1> QED BY <1>2, <1>3, <1>4, <1>5, StoreStep

\* What a list dooms was not retrieved, or is a sub-agent result.
LEMMA DoomedUnused ==
  ASSUME Inv, Accessed, NEW c \in Collection, NEW list, list \subseteq docs[c],
         NEW place \in Doomed(c, list), place[2] \in retrieved
  PROVE  kind[place[2]] = "result"
<1>1. PICK d \in ((list \cap old) \ used[c]) \ marked[c] : place = <<HomeOf(d), d>>
  BY DEF Doomed
<1>2. d \in docs[c] /\ d \notin marked[c] /\ d \notin used[c] /\ d \in retrieved
  BY <1>1
<1>3. CASE c = "facts"
  BY <1>1, <1>2, <1>3 DEF Inv, Filed, Accessed, HomeOf
<1>4. CASE c = "summaries"
  <2>1. HomeOf(d) = "summaries"
    BY <1>2, <1>4 DEF Inv, Filed, HomeOf
  <2> QED BY <1>2, <1>4, <2>1 DEF Accessed
<1> QED BY <1>3, <1>4 DEF Collection

LEMMA MoveSpares ==
  ASSUME Inv, Sparing, [Next]_vars, NEW k \in Compactions, NEW change,
         com' = [com EXCEPT ![k] = change],
         change.seen \subseteq retrieved,
         \A place \in change.doomed : place[2] \in change.seen => kind[place[2]] = "result"
  PROVE  Sparing'
<1>1. Accessed' /\ retrieved \subseteq retrieved' /\ \A d \in retrieved : kind'[d] = kind[d]
  BY AccessStep DEF Sparing
<1>2. ASSUME NEW l \in Compactions PROVE SparesSeen(com[l])'
  <2>1. CASE l = k
    BY <1>1, <2>1 DEF SparesSeen, Inv, TypeOK
  <2>2. CASE l # k
    <3>1. com'[l] = com[l]
      BY <2>2 DEF Inv, TypeOK
    <3> QED BY <1>1, <3>1 DEF Sparing, SparesSeen
  <2> QED BY <2>1, <2>2
<1> QED BY <1>1, <1>2 DEF Sparing

LEMMA CompactSpares ==
  ASSUME Inv, Sparing, NEW k \in Compactions, Compact(k), [Next]_vars
  PROVE  Sparing'
<1> DEFINE run == com[k]
<1>1. run \in Compaction /\ SparesSeen(run)
  BY DEF Inv, TypeOK, Sparing
<1>2. ASSUME NEW change, Move(k, change), change.seen = run.seen,
             change.doomed \subseteq run.doomed
      PROVE  Sparing'
  BY <1>1, <1>2, MoveSpares DEF Move, SparesSeen
<1>3. Finished.seen = {} /\ Finished.doomed = {}
  BY DEF Finished, NoCompaction
<1>4. ASSUME Move(k, Finished)
      PROVE  Sparing'
  BY <1>3, <1>4, MoveSpares DEF Move
<1>5. ASSUME Move(k, Proceed(k))
      PROVE  Sparing'
  <2>1. CASE PhaseAfter(run.at) = "over"
    BY <1>4, <1>5, <2>1 DEF Proceed
  <2>2. CASE PhaseAfter(run.at) # "over"
    <3>1. Proceed(k) = [run EXCEPT !.at = PhaseAfter(run.at), !.stage = "list",
                           !.pool = {}, !.marks = {}, !.dups = {}, !.shaky = {}]
      BY <2>2 DEF Proceed
    <3>2. Proceed(k).seen = run.seen /\ Proceed(k).doomed = run.doomed
      BY <1>1, <3>1 DEF Compaction
    <3> QED BY <1>2, <1>5, <3>2
  <2> QED BY <2>1, <2>2
<1>6. CASE ListFacts(k)
  <2>1. PICK list \in ListAll("facts") :
          Move(k, [run EXCEPT !.at = "summaries", !.facts = list,
                              !.doomed = Doomed("facts", list), !.seen = retrieved])
    BY <1>6 DEF ListFacts
  <2> DEFINE to == [run EXCEPT !.at = "summaries", !.facts = list,
                              !.doomed = Doomed("facts", list), !.seen = retrieved]
  <2>2. to.seen = retrieved /\ to.doomed = Doomed("facts", list)
    BY <1>1 DEF Compaction
  <2>3. list \subseteq docs["facts"] /\ "facts" \in Collection
    BY DEF ListAll, Collection
  <2>4. com' = [com EXCEPT ![k] = to]
    BY <2>1 DEF Move
  <2> HIDE DEF to
  <2> QED BY <2>2, <2>3, <2>4, DoomedUnused, MoveSpares DEF Sparing
<1>7. CASE ListSummaries(k)
  <2>1. PICK list \in ListAll("summaries") :
          LET many == Cardinality(com[k].facts) > DedupAbove
          IN  Move(k, [run EXCEPT !.at = IF many THEN "first" ELSE "consolidate",
                                    !.stage = IF many THEN "judge" ELSE "list",
                                    !.pool = IF many THEN @ \cup run.facts ELSE @,
                                    !.summaries = list,
                                    !.doomed = @ \cup Doomed("summaries", list)])
    BY <1>7 DEF ListSummaries
  <2>2. PICK to : /\ Move(k, to) /\ to.seen = run.seen
                  /\ to.doomed = run.doomed \cup Doomed("summaries", list)
    <3>1. PICK at, stage, pool :
            Move(k, [run EXCEPT !.at = at, !.stage = stage, !.pool = pool,
                       !.summaries = list, !.doomed = @ \cup Doomed("summaries", list)])
      BY <2>1
    <3> DEFINE to == [run EXCEPT !.at = at, !.stage = stage, !.pool = pool,
                       !.summaries = list, !.doomed = @ \cup Doomed("summaries", list)]
    <3>2. to.seen = run.seen /\ to.doomed = run.doomed \cup Doomed("summaries", list)
      BY <1>1 DEF Compaction
    <3> QED BY <3>1, <3>2
  <2>3. list \subseteq docs["summaries"] /\ "summaries" \in Collection
    BY DEF ListAll, Collection
  <2>4. \A place \in to.doomed : place[2] \in to.seen => kind[place[2]] = "result"
    BY <1>1, <2>2, <2>3, DoomedUnused DEF SparesSeen, Sparing
  <2> QED BY <1>1, <2>2, <2>4, MoveSpares DEF Move, SparesSeen
<1>8. CASE Judge(k)
  <2>1. PICK D : \/ Move(k, Proceed(k))
                 \/ Move(k, [run EXCEPT !.stage = "mark", !.marks = D, !.dups = D,
                                        !.pool = {}, !.shaky = Shaky(k, D)])
    BY <1>8 DEF Judge
  <2> DEFINE to == [run EXCEPT !.stage = "mark", !.marks = D, !.dups = D,
                               !.pool = {}, !.shaky = Shaky(k, D)]
  <2>2. to.seen = run.seen /\ to.doomed = run.doomed
    BY <1>1 DEF Compaction
  <2> QED BY <1>2, <1>5, <2>1, <2>2
<1>9. CASE MarkOne(k)
  <2>1. PICK left, stage : Move(k, [run EXCEPT !.marks = left, !.stage = stage])
    BY <1>9 DEF MarkOne
  <2>2. /\ [run EXCEPT !.marks = left, !.stage = stage].seen = run.seen
        /\ [run EXCEPT !.marks = left, !.stage = stage].doomed = run.doomed
    BY <1>1 DEF Compaction
  <2> QED BY <1>2, <2>1, <2>2
<1>10. CASE DeleteOne(k)
  <2>1. PICK left : Move(k, Proceed(k)) \/ Move(k, [run EXCEPT !.dups = left])
    BY <1>10 DEF DeleteOne
  <2>2. /\ [run EXCEPT !.dups = left].seen = run.seen
        /\ [run EXCEPT !.dups = left].doomed = run.doomed
    BY <1>1 DEF Compaction
  <2> QED BY <1>2, <1>5, <2>1, <2>2
<1>11. \A at : /\ [run EXCEPT !.at = at].seen = run.seen
               /\ [run EXCEPT !.at = at].doomed = run.doomed
  BY <1>1 DEF Compaction
<1>12. CASE Consolidate(k) \/ Promote(k)
  <2>1. PICK at : Move(k, [run EXCEPT !.at = at])
    BY <1>12 DEF Consolidate, Promote
  <2> QED BY <1>2, <1>11, <2>1
<1>13. CASE ListFresh(k)
  <2>1. PICK list, shaky, sound :
          \/ Move(k, [run EXCEPT !.at = "cleanup"])
          \/ Move(k, [run EXCEPT !.stage = "judge", !.pool = list, !.shaky = shaky,
                                 !.sound = sound])
    BY <1>13 DEF ListFresh
  <2>2. /\ [run EXCEPT !.stage = "judge", !.pool = list, !.shaky = shaky, !.sound = sound].seen = run.seen
        /\ [run EXCEPT !.stage = "judge", !.pool = list, !.shaky = shaky, !.sound = sound].doomed = run.doomed
    BY <1>1 DEF Compaction
  <2> QED BY <1>2, <1>11, <2>1, <2>2
<1>14. CASE CleanOne(k)
  <2>1. PICK place \in run.doomed : Move(k, [run EXCEPT !.doomed = @ \ {place}])
    BY <1>14 DEF CleanOne
  <2>2. /\ [run EXCEPT !.doomed = @ \ {place}].seen = run.seen
        /\ [run EXCEPT !.doomed = @ \ {place}].doomed \subseteq run.doomed
    BY <1>1 DEF Compaction
  <2> QED BY <1>2, <2>1, <2>2
<1>15. CASE AddOne(k)
  <2>1. com' = com
    BY <1>15 DEF AddOne, AddFact, CheckDuplicate
  <2> QED BY <2>1, AccessStep DEF Sparing, SparesSeen
<1>16. CASE Refetch(k)
  <2>1. PICK list, sound :
          \/ Move(k, Finished)
          \/ Move(k, [run EXCEPT !.stage = "judge", !.pool = list, !.sound = sound])
    BY <1>16 DEF Refetch
  <2>2. /\ [run EXCEPT !.stage = "judge", !.pool = list, !.sound = sound].seen = run.seen
        /\ [run EXCEPT !.stage = "judge", !.pool = list, !.sound = sound].doomed = run.doomed
    BY <1>1 DEF Compaction
  <2> QED BY <1>2, <1>4, <2>1, <2>2
<1> QED BY <1>6, <1>7, <1>8, <1>9, <1>10, <1>12, <1>13, <1>14, <1>15, <1>16 DEF Compact

LEMMA SparingHolds == Spec => []Sparing
<1>1. Init => Sparing
  <2> SUFFICES ASSUME Init PROVE Sparing
    OBVIOUS
  <2>1. retrieved = {} /\ \A k \in Compactions : com[k] \in {NoCompaction, Finished}
    BY DEF Init
  <2>2. \A run \in {NoCompaction, Finished} : run.seen = {} /\ run.doomed = {}
    BY DEF NoCompaction, Finished
  <2> QED BY <2>1, <2>2 DEF Sparing, Accessed, SparesSeen
<1>2. Inv /\ Sparing /\ [Next]_vars => Sparing'
  <2> SUFFICES ASSUME Inv, Sparing, [Next]_vars PROVE Sparing'
    OBVIOUS
  <2>1. Accessed' /\ retrieved \subseteq retrieved' /\ \A d \in retrieved : kind'[d] = kind[d]
    BY AccessStep DEF Sparing
  <2>2. ASSUME com' = com PROVE Sparing'
    BY <2>1, <2>2 DEF Sparing, SparesSeen
  <2>3. ASSUME NEW k \in Compactions, Compact(k) PROVE Sparing'
    BY <2>3, CompactSpares
  <2>4. ASSUME \A k \in Compactions :
                 com'[k].seen = {} \/ (com'[k].seen = com[k].seen /\ com'[k].doomed = com[k].doomed)
        PROVE  Sparing'
    BY <2>1, <2>4 DEF Sparing, SparesSeen
  <2>5. ASSUME NEW k \in Compactions, BeginCompact(k) PROVE Sparing'
    <3>1. \A l \in Compactions : com[l] \in Compaction
      BY DEF Inv, TypeOK
    <3>2. \A l \in Compactions :
            com'[l].seen = com[l].seen /\ com'[l].doomed = com[l].doomed
      <4> SUFFICES ASSUME NEW l \in Compactions
                   PROVE  com'[l].seen = com[l].seen /\ com'[l].doomed = com[l].doomed
        OBVIOUS
      <4>1. \/ com'[l] = [com[l] EXCEPT !.at = "facts", !.sound = Active = {}]
            \/ com'[l] = [com[l] EXCEPT !.sound = FALSE]
            \/ com'[l] = com[l]
        BY <2>5 DEF BeginCompact
      <4> DEFINE s == (Active = {})
      <4>2. /\ [com[l] EXCEPT !.at = "facts", !.sound = s].seen = com[l].seen
            /\ [com[l] EXCEPT !.at = "facts", !.sound = s].doomed = com[l].doomed
            /\ [com[l] EXCEPT !.sound = FALSE].seen = com[l].seen
            /\ [com[l] EXCEPT !.sound = FALSE].doomed = com[l].doomed
        BY <3>1 DEF Compaction
      <4> QED BY <4>1, <4>2
    <3> QED BY <2>4, <3>2
  <2>6. CASE Crash
    <3>1. Finished.seen = {}
      BY DEF Finished, NoCompaction
    <3> QED BY <2>4, <2>6, <3>1 DEF Crash
  <2>7. ASSUME NEW r \in Retrievals, Retrieve(r) PROVE com' = com
    BY <2>7 DEF Retrieve, SearchFacts, SearchSummaries, Find, WriteBack, Return
  <2>8. ASSUME NEW w \in Writers, Write(w) \/ AddOne(w) PROVE com' = com
    BY <2>8 DEF Write, Extract, Summarize, Reflect, StoreFact, Store, AddOne,
                CheckDuplicate, AddFact
  <2>9. ASSUME NEW j \in jobs, Consolidation(j) PROVE com' = com
    BY <2>9 DEF Consolidation, JobGenerates, JobAdds, JobDeletes
  <2>10. CASE UNCHANGED vars
    BY <2>2, <2>10 DEF vars
  <2> QED BY <2>2, <2>3, <2>5, <2>6, <2>7, <2>8, <2>9, <2>10 DEF Next
<1> QED BY Invariance, <1>1, <1>2, PTL DEF Spec

\* Cleanup deletes nothing that had been retrieved before its lists were made,
\* but for sub-agent results, whose access is counted in another collection.
THEOREM RetrievedDocumentsSpared == Spec => RetrievedIsSpared
<1>1. Sparing =>
        [\A k \in Compactions : \A place \in com[k].doomed :
           CleanOne(k) /\ place \notin com'[k].doomed =>
              place[2] \notin com[k].seen \/ kind[place[2]] = "result"]_vars
  BY DEF Sparing, SparesSeen
<1> QED BY SparingHolds, <1>1, PTL DEF RetrievedIsSpared
-----------------------------------------------------------------------------
(***************************************************************************)
(* Two facts about one topic                                               *)
(***************************************************************************)

\* A document about the topic was written back where it was no longer visible.
Revived(t) == \E place \in restored : t \in says[place[2]]

\* At most one fact is about the topic; one is about to be added only when
\* there is none, by one actor.
CheckedOnce(t) ==
    /\ \A d, e \in FactsAbout(t) : d = e
    /\ \A x \in Actor :
         claim[x].new = t =>
            FactsAbout(t) = {} /\ \A y \in Actor \ {x} : claim[y].new # t

Checked ==
    /\ restored \subseteq Place /\ \A place \in restored : place[2] < next
    /\ \A t \in Topic : t \in raced \/ Revived(t) \/ CheckedOnce(t)

\* What is claimed is let go, or was just checked.
LEMMA ClaimStep ==
  ASSUME Inv, [Next]_vars
  PROVE  /\ raced \subseteq raced'
         /\ \A t \in Topic :
              \/ t \in raced'
              \/ \A x \in Actor : claim'[x].new = t => claim[x].new = t
              \/ /\ FactsAbout(t) = {} /\ Quiet
                 /\ \E x \in Actor : \A y \in Actor \ {x} : claim[y].new # t /\ claim'[y].new # t
<1>1. \A x \in Actor : claim[x] \in [todo : SUBSET Topic, new : Topic \cup {None}]
  BY DEF Inv, TypeOK
<1>2. claim \in [Actor -> [todo : SUBSET Topic, new : Topic \cup {None}]]
  BY DEF Inv, TypeOK
<1> DEFINE Settled(t) ==
             \/ t \in raced'
             \/ \A x \in Actor : claim'[x].new = t => claim[x].new = t
             \/ /\ FactsAbout(t) = {} /\ Quiet
                /\ \E x \in Actor :
                     \A y \in Actor \ {x} : claim[y].new # t /\ claim'[y].new # t
           Goal == raced \subseteq raced' /\ \A t \in Topic : Settled(t)
<1> SUFFICES Goal
  OBVIOUS
<1>3. ASSUME raced' = raced,
             \A x \in Actor, t \in Topic : claim'[x].new = t => claim[x].new = t
      PROVE  Goal
  BY <1>3
<1>4. ASSUME UNCHANGED <<claim, raced>> PROVE Goal
  BY <1>4
<1>5. ASSUME NEW x \in Actor, NEW todo,
             claim' = [claim EXCEPT ![x].todo = todo], raced' = raced
      PROVE  Goal
  <2>1. \A y \in Actor : claim'[y].new = claim[y].new
    BY <1>1, <1>2, <1>5
  <2> QED BY <1>5, <2>1
<1>6. ASSUME NEW x \in Actor, CheckDuplicate(x)
      PROVE  Goal
  <2>1. PICK t \in claim[x].todo :
          LET known == \E d \in docs["facts"] :
                         TypeIn("facts", d) = "fact" /\ t \in says[d]
              others == \E y \in Actor \ {x} : claim[y].new = t
          IN  \/ claim' = [claim EXCEPT ![x].todo = @ \ {t}] /\ raced' = raced
              \/ /\ claim' = [claim EXCEPT ![x] = [todo |-> @.todo \ {t}, new |-> t]]
                 /\ raced' = IF known \/ others THEN raced \cup {t} ELSE raced
    BY <1>6 DEF CheckDuplicate
  <2>2. CASE claim' = [claim EXCEPT ![x].todo = @ \ {t}] /\ raced' = raced
    BY <1>5, <2>2
  <2>3. CASE claim' = [claim EXCEPT ![x] = [todo |-> @.todo \ {t}, new |-> t]]
    <3>1. claim'[x].new = t /\ \A y \in Actor \ {x} : claim'[y] = claim[y]
      BY <1>2, <2>3
    <3>2. Quiet
      BY <1>6 DEF CheckDuplicate, Quiet, newVars, storeVars
    <3>3. raced \subseteq raced'
      BY <1>6 DEF CheckDuplicate
    <3>4. \/ t \in raced'
          \/ FactsAbout(t) = {} /\ \A y \in Actor \ {x} : claim[y].new # t
      <4>1. CASE raced' = raced /\ claim' = [claim EXCEPT ![x].todo = @ \ {t}]
        <5>1. claim'[x].new = claim[x].new
          BY <1>1, <1>2, <4>1
        <5>2. claim[x].new = None /\ t \in Topic
          BY <1>1, <1>6 DEF CheckDuplicate
        <5> QED BY <3>1, <5>1, <5>2, NoneAssumption
      <4>2. CASE raced' = IF \/ \E d \in docs["facts"] :
                                  TypeIn("facts", d) = "fact" /\ t \in says[d]
                             \/ \E y \in Actor \ {x} : claim[y].new = t
                          THEN raced \cup {t} ELSE raced
        BY <4>2 DEF FactsAbout
      <4> QED BY <2>1, <4>1, <4>2
    <3>5. ASSUME NEW u \in Topic, u # t
          PROVE  \A y \in Actor : claim'[y].new = u => claim[y].new = u
      BY <3>1, <3>5
    <3> QED BY <3>1, <3>2, <3>3, <3>4, <3>5
  <2> QED BY <2>1, <2>2, <2>3
<1>7. ASSUME NEW x \in Actor, AddFact(x)
      PROVE  Goal
  <2>1. claim' = [claim EXCEPT ![x].new = None] /\ raced' = raced
    BY <1>7 DEF AddFact, history
  <2>2. \A y \in Actor : claim'[y].new \in {None, claim[y].new}
    BY <1>1, <1>2, <2>1
  <2> QED BY <1>3, <2>1, <2>2, NoneAssumption
<1>8. ASSUME NEW r \in Retrievals, Retrieve(r) PROVE Goal
  BY <1>4, <1>8 DEF Retrieve, SearchFacts, SearchSummaries, Find, WriteBack, Return, history
<1>9. ASSUME NEW w \in Writers, Write(w) \/ AddOne(w) PROVE Goal
  <2>1. w \in Actor
    BY DEF Actor
  <2>2. CASE Write(w)
    BY <1>4, <1>5, <2>1, <2>2 DEF Write, Extract, Summarize, Reflect, StoreFact, Store, history
  <2> QED BY <1>6, <1>7, <1>9, <2>1, <2>2 DEF AddOne
<1>10. ASSUME NEW k \in Compactions, BeginCompact(k) \/ Compact(k) PROVE Goal
  <2>1. k \in Actor
    BY DEF Actor
  <2>2. CASE Promote(k)
    BY <1>5, <2>1, <2>2 DEF Promote, history
  <2>3. CASE AddOne(k)
    BY <1>6, <1>7, <2>1, <2>3 DEF AddOne
  <2>4. CASE BeginCompact(k) \/ ListFacts(k) \/ ListSummaries(k) \/ Judge(k)
    BY <1>4, <2>4 DEF BeginCompact, ListFacts, ListSummaries, Judge, history
  <2>5. CASE MarkOne(k) \/ DeleteOne(k) \/ Consolidate(k) \/ ListFresh(k)
             \/ CleanOne(k) \/ Refetch(k)
    BY <1>4, <2>5 DEF MarkOne, DeleteOne, Consolidate, ListFresh, CleanOne, Refetch, history
  <2> QED BY <1>10, <2>2, <2>3, <2>4, <2>5 DEF Compact
<1>11. ASSUME NEW j \in jobs, Consolidation(j) PROVE Goal
  BY <1>4, <1>11 DEF Consolidation, JobGenerates, JobAdds, JobDeletes, history
<1>12. CASE Crash
  BY <1>3, <1>12, NoneAssumption DEF Crash, NoClaim
<1>13. CASE UNCHANGED vars
  BY <1>4, <1>13 DEF vars
<1> QED BY <1>8, <1>9, <1>10, <1>11, <1>12, <1>13 DEF Next

\* The facts about a topic are the same, or fewer, unless one was added or
\* one was written back.
LEMMA FactsStep ==
  ASSUME Inv, Checked, [Next]_vars, NEW t \in Topic
  PROVE  \/ Revived(t)'
         \/ FactsAbout(t)' \subseteq FactsAbout(t)
         \/ /\ FactsAbout(t)' = FactsAbout(t) \cup {next}
            /\ \E x \in Actor : claim[x].new = t /\ claim'[x].new = None
                                /\ \A y \in Actor \ {x} : claim'[y] = claim[y]
<1>1. "facts" \in Collection
  BY DEF Collection
<1>2. CASE Quiet
  BY <1>2 DEF Quiet, FactsAbout, TypeIn
<1>3. ASSUME NEW c \in Collection, NEW k \in Kind, NEW topics \in SUBSET Topic,
             Grows(c, k, topics), ~ (FactsAbout(t)' \subseteq FactsAbout(t))
      PROVE  /\ FactsAbout(t)' = FactsAbout(t) \cup {next}
             /\ \E x \in Actor : claim[x].new = t /\ claim'[x].new = None
                                 /\ \A y \in Actor \ {x} : claim'[y] = claim[y]
  <2>1. /\ kind' = [kind EXCEPT ![next] = k] /\ says' = [says EXCEPT ![next] = topics]
        /\ docs' = [docs EXCEPT ![c] = @ \cup {next}] /\ marked' = marked /\ next \in Doc
    BY <1>3 DEF Grows, Add
  <2>2. docs["facts"] \subseteq Doc /\ marked["facts"] \subseteq docs["facts"]
        /\ next \notin docs["facts"]
    <3>1. docs["facts"] \subseteq Doc /\ marked["facts"] \subseteq docs["facts"]
      BY <1>1 DEF Inv, TypeOK
    <3>2. ~ (next < next)
      BY DEF Inv, TypeOK
    <3> QED BY <1>1, <3>1, <3>2 DEF Inv, Filed
  <2>3. \A d \in docs["facts"] : /\ d # next /\ kind'[d] = kind[d] /\ says'[d] = says[d]
                                 /\ TypeIn("facts", d)' = TypeIn("facts", d)
    BY <2>1, <2>2 DEF TypeIn, Inv, TypeOK
  <2>4. docs'["facts"] = IF c = "facts" THEN docs["facts"] \cup {next} ELSE docs["facts"]
    BY <1>1, <2>1 DEF Inv, TypeOK
  <2>5. kind'[next] = k /\ says'[next] = topics /\ next \notin marked'["facts"]
    BY <2>1, <2>2 DEF Inv, TypeOK
  <2>6. FactsAbout(t)' \subseteq FactsAbout(t) \cup {next}
        /\ FactsAbout(t) \subseteq FactsAbout(t)'
    BY <2>3, <2>4 DEF FactsAbout
  <2>7. next \in FactsAbout(t)'
    BY <1>3, <2>6
  <2>8. k = "fact" /\ t \in topics
    <3>1. (IF next \in marked'["facts"] THEN None ELSE kind'[next]) = "fact"
          /\ t \in says'[next]
      BY <2>7 DEF FactsAbout, TypeIn
    <3> QED BY <2>5, <3>1
  <2>9. PICK x \in Actor : AddFact(x) /\ topics = {claim[x].new}
    BY <1>3, <2>8 DEF Grows
  <2>10. claim' = [claim EXCEPT ![x].new = None]
    BY <2>9 DEF AddFact
  <2>11. /\ claim[x].new = t /\ claim'[x].new = None
         /\ \A y \in Actor \ {x} : claim'[y] = claim[y]
    BY <2>8, <2>9, <2>10 DEF Inv, TypeOK
  <2> QED BY <2>6, <2>7, <2>11
<1>4. ASSUME NEW d \in Doc, WritesBack(d), ~ Revived(t)'
      PROVE  FactsAbout(t)' \subseteq FactsAbout(t)
  <2> DEFINE c == HomeOf(d)
  <2>1. c \in Collection
    BY DEF HomeOf, Collection
  <2>2. /\ docs' = [docs EXCEPT ![c] = @ \cup {d}]
        /\ marked' = [marked EXCEPT ![c] = @ \ {d}]
        /\ kind' = kind /\ says' = says
    BY <1>4 DEF WritesBack, Rewrite, newVars
  <2>3. CASE d \in docs[c] \ marked[c]
    BY <1>1, <2>1, <2>2, <2>3 DEF FactsAbout, TypeIn, Inv, TypeOK
  <2>4. CASE d \notin docs[c] \ marked[c]
    <3>1. restored' = restored \cup {<<c, d>>}
      BY <1>4, <2>4 DEF WritesBack
    <3>2. <<c, d>> \in restored' /\ <<c, d>>[2] = d
      BY <3>1
    <3>3. t \notin says[d]
      BY <1>4, <2>2, <3>2 DEF Revived
    <3> QED BY <1>1, <2>1, <2>2, <3>3 DEF FactsAbout, TypeIn, Inv, TypeOK
  <2> QED BY <2>3, <2>4
<1>5. ASSUME NEW c \in Collection, NEW d \in Doc, Shrinks(c, d)
      PROVE  FactsAbout(t)' \subseteq FactsAbout(t)
  <2>1. kind' = kind /\ says' = says
    BY <1>5 DEF Shrinks, newVars
  <2>2. \A m \in docs'["facts"] \ marked'["facts"] : m \in docs["facts"] \ marked["facts"]
    BY <1>1, <1>5 DEF Shrinks, Mark, Delete, Inv, TypeOK
  <2>3. \A m \in FactsAbout(t)' : m \in docs'["facts"] \ marked'["facts"]
    BY <1>1, <2>1, NoneAssumption DEF FactsAbout, TypeIn, Kind
  <2> QED BY <2>1, <2>2, <2>3 DEF FactsAbout, TypeIn
<1> QED BY <1>2, <1>3, <1>4, <1>5, StoreStep


LEMMA CheckedHolds == Spec => []Checked
<1>1. Init => Checked
  <2> SUFFICES ASSUME Init PROVE Checked
    OBVIOUS
  <2>1. PICK seed \in Seeds :
          kind = seed.kind /\ says = seed.says /\ docs = seed.docs /\ raced = seed.raced
    BY DEF Init
  <2>2. /\ restored = {} /\ claim = [x \in Actor |-> NoClaim]
        /\ marked = [c \in Collection |-> {}]
    BY DEF Init
  <2>3. ASSUME NEW t \in Topic, t \notin raced
        PROVE  CheckedOnce(t)
    <3>1. \A d, e \in FactsAbout(t) : d = e
      BY <2>1, <2>2, <2>3, SeedAssumption DEF FactsAbout, TypeIn, Collection
    <3>2. \A x \in Actor : claim[x].new # t
      BY <2>2, NoneAssumption DEF NoClaim
    <3> QED BY <3>1, <3>2 DEF CheckedOnce
  <2> QED BY <2>2, <2>3 DEF Checked
<1>2. Inv /\ Inv' /\ Checked /\ [Next]_vars => Checked'
  <2> SUFFICES ASSUME Inv, Inv', Checked, [Next]_vars PROVE Checked'
    OBVIOUS
  <2> DEFINE Kept == /\ \A d \in Doc : d < next => says'[d] = says[d]
                     /\ restored \subseteq restored' /\ restored' \subseteq Place
                     /\ \A place \in restored' : place[2] < next'
  <2>1. Kept
    <3>1. next \in Nat /\ \A d \in Doc : d \in Nat
      BY DocAssumption DEF Inv, TypeOK
    <3>2. CASE Quiet
      BY <3>1, <3>2 DEF Quiet, Checked
    <3>3. ASSUME NEW c \in Collection, NEW k \in Kind, NEW topics \in SUBSET Topic,
                 Grows(c, k, topics)
          PROVE  Kept
      <4>1. /\ next' = next + 1 /\ says' = [says EXCEPT ![next] = topics]
            /\ restored' = restored
        BY <3>3 DEF Grows, Add
      <4>2. \A d \in Doc : d < next => d # next /\ d < next'
        BY <3>1, <4>1
      <4>3. \A d \in Doc : d < next => says'[d] = says[d]
        BY <4>1, <4>2 DEF Inv, TypeOK
      <4>4. \A place \in restored : place[2] \in Doc
        BY DEF Checked, Place
      <4> QED BY <3>1, <4>1, <4>2, <4>3, <4>4 DEF Checked
    <3>4. ASSUME NEW d \in Doc, d < next, WritesBack(d)
          PROVE  Kept
      <4>1. next' = next /\ says' = says
            /\ restored' \in {restored, restored \cup {<<HomeOf(d), d>>}}
        BY <3>4 DEF WritesBack, newVars
      <4>2. <<HomeOf(d), d>> \in Place /\ <<HomeOf(d), d>>[2] < next
        BY <3>4 DEF Place, HomeOf, Collection
      <4> QED BY <3>1, <4>1, <4>2 DEF Checked
    <3>5. ASSUME NEW c \in Collection, NEW d \in Doc, Shrinks(c, d)
          PROVE  Kept
      BY <3>1, <3>5 DEF Shrinks, newVars, Checked
    <3> QED BY <3>2, <3>3, <3>4, <3>5, StoreStep
  <2>2. \A t \in Topic : Revived(t) => Revived(t)'
    BY <2>1 DEF Revived, Checked, Place
  <2>3. ASSUME NEW t \in Topic, t \notin raced', ~ Revived(t)'
        PROVE  CheckedOnce(t)'
    <3>1. CheckedOnce(t)
      BY <2>2, <2>3, ClaimStep DEF Checked
    <3>2. CASE FactsAbout(t) = {} /\ Quiet
               /\ \E x \in Actor : \A y \in Actor \ {x} : claim[y].new # t /\ claim'[y].new # t
      <4>1. FactsAbout(t)' = {}
        BY <3>2 DEF Quiet, FactsAbout, TypeIn
      <4>2. \A x \in Actor : claim'[x].new = t => \A y \in Actor \ {x} : claim'[y].new # t
        BY <3>2
      <4> QED BY <4>1, <4>2 DEF CheckedOnce
    <3>3. CASE \A x \in Actor : claim'[x].new = t => claim[x].new = t
      <4>1. CASE FactsAbout(t)' \subseteq FactsAbout(t)
        BY <3>1, <3>3, <4>1 DEF CheckedOnce
      <4>2. CASE /\ FactsAbout(t)' = FactsAbout(t) \cup {next}
                 /\ \E x \in Actor : claim[x].new = t /\ claim'[x].new = None
                                     /\ \A y \in Actor \ {x} : claim'[y] = claim[y]
        <5>1. PICK x \in Actor : claim[x].new = t /\ claim'[x].new = None
                                 /\ \A y \in Actor \ {x} : claim'[y] = claim[y]
          BY <4>2
        <5>2. FactsAbout(t) = {} /\ \A y \in Actor \ {x} : claim[y].new # t
          BY <3>1, <5>1 DEF CheckedOnce
        <5>3. FactsAbout(t)' = {next} /\ \A y \in Actor : claim'[y].new # t
          BY <4>2, <5>1, <5>2, NoneAssumption
        <5> QED BY <5>3 DEF CheckedOnce
      <4> QED BY <2>3, <4>1, <4>2, FactsStep
    <3> QED BY <2>3, <3>2, <3>3, ClaimStep
  <2> QED BY <2>1, <2>3 DEF Checked
<1> QED BY Invariance, <1>1, <1>2, PTL DEF Spec

\* Two facts about a topic are in memory only if two checks of it overlapped or
\* failed, or a retrieval brought one of them back.
THEOREM DuplicatesComeFromRaces == Spec => []DuplicatesWereRaced
<1>1. Checked => DuplicatesWereRaced
  <2> SUFFICES ASSUME Checked, NEW t \in Topic, t \notin raced, ~ Revived(t)
               PROVE  Cardinality(FactsAbout(t)) <= 1
    BY DEF DuplicatesWereRaced, Revived
  <2>1. \A d, e \in FactsAbout(t) : d = e
    BY DEF Checked, CheckedOnce
  <2>2. CASE FactsAbout(t) = {}
    BY <2>2, FS_EmptySet
  <2>3. CASE FactsAbout(t) # {}
    <3>1. PICK d \in FactsAbout(t) : FactsAbout(t) = {d}
      BY <2>1, <2>3
    <3> QED BY <3>1, FS_Singleton
  <2> QED BY <2>2, <2>3
<1> QED BY CheckedHolds, <1>1, PTL
-----------------------------------------------------------------------------
(***************************************************************************)
(* What is known stays known                                               *)
(***************************************************************************)

\* Neither a consolidation nor cleanup is about to delete d.
Endures(c, d) == c = "summaries" => d \notin Going \cup old

\* A document of c, none of X, tells topic t and is going to stay.
Told(c, t, X) == \E e \in docs[c] \ X : t \in says[e] /\ Endures(c, e)

\* What a consolidation is deleting is told by another summary in sight.
Covered ==
    residue \/ \A a \in Going : \A t \in says[a] :
                 t \in atRisk \/ Told("summaries", t, marked["summaries"])

\* What the model judges may be told by the document itself; what it has
\* called a duplicate is told by a document it has kept.
PoolCovered(run) ==
    run.sound /\ run.stage = "judge" =>
      \A x \in run.pool \ run.shaky : \A t \in says[x] :
        t \in atRisk \/ Told(CollectionOf(run.at), t, run.pool \ {x})

DupsCovered(run) ==
    run.sound /\ run.stage \in {"mark", "delete"} =>
      \A d \in run.dups \ run.shaky : \A t \in says[d] :
        t \in atRisk \/ Told(CollectionOf(run.at), t, run.dups)

FactsThere(run) == run.sound /\ run.at = "summaries" => run.facts \subseteq docs["facts"]

\* Between two deduplications there is nothing to deduplicate.
Emptied(run) ==
    run.stage = "list" =>
      run.pool = {} /\ run.marks = {} /\ run.dups = {} /\ run.shaky = {}

\* Whoever is sound is alone.
Alone == \A k \in Active : com[k].sound => Active = {k}

Batched == \A j \in jobs : j.todo \subseteq j.batch /\ \A d \in j.batch : d < next

DoomedAreOld(run) == \A place \in run.doomed : place[2] \in old

Known ==
    /\ \A d \in old : d < next
    /\ Alone /\ Batched /\ Covered
    /\ \A k \in Compactions :
         /\ PoolCovered(com[k]) /\ DupsCovered(com[k]) /\ FactsThere(com[k])
         /\ Emptied(com[k]) /\ DoomedAreOld(com[k])

\* What a document says never changes.
LEMMA ContentsStay ==
  ASSUME Inv, [Next]_vars
  PROVE  /\ next \in Nat /\ next' \in Nat /\ old' = old
         /\ \A d \in Doc : d < next => says'[d] = says[d] /\ d < next'
<1>1. next \in Nat /\ \A d \in Doc : d \in Nat
  BY DocAssumption DEF Inv, TypeOK
<1>2. old' = old
  <2>1. CASE Quiet
    <3>1. ASSUME NEW r \in Retrievals, Retrieve(r) PROVE old' = old
      BY <3>1 DEF Retrieve, SearchFacts, SearchSummaries, Find, WriteBack, Return, newVars
    <3>2. ASSUME NEW x \in Actor, AddOne(x) PROVE old' = old
      BY <3>2 DEF AddOne, CheckDuplicate, AddFact, Add, newVars
    <3>3. ASSUME NEW w \in Writers, Write(w) PROVE old' = old
      BY <3>3 DEF Write, Extract, Summarize, Reflect, StoreFact, Store, Add, newVars
    <3>4. ASSUME NEW k \in Compactions, BeginCompact(k) PROVE old' = old
      BY <3>4 DEF BeginCompact, newVars
    <3>5. ASSUME NEW k \in Compactions, Compact(k) PROVE old' = old
      BY <3>2, <3>5 DEF Compact, ListFacts, ListSummaries, Judge, MarkOne, DeleteOne,
           Consolidate, ListFresh, CleanOne, Promote, Refetch, Move, newVars, Actor
    <3>6. ASSUME NEW j \in jobs, Consolidation(j) PROVE old' = old
      BY <3>6 DEF Consolidation, JobGenerates, JobAdds, JobDeletes, Add, newVars
    <3>7. CASE Crash
      BY <3>7 DEF Crash, newVars
    <3> QED BY <3>1, <3>2, <3>3, <3>4, <3>5, <3>6, <3>7 DEF Next, vars, Actor
  <2>2. CASE ~ Quiet
    BY <2>2, StoreStep DEF Grows, Add, WritesBack, Shrinks, newVars
  <2> QED BY <2>1, <2>2
<1>3. CASE Quiet
  BY <1>1, <1>2, <1>3 DEF Quiet
<1>4. ASSUME NEW c \in Collection, NEW k \in Kind, NEW topics \in SUBSET Topic,
             Grows(c, k, topics)
      PROVE  next' \in Nat /\ \A d \in Doc : d < next => says'[d] = says[d] /\ d < next'
  <2>1. next' = next + 1 /\ says' = [says EXCEPT ![next] = topics]
    BY <1>4 DEF Grows, Add
  <2>2. \A d \in Doc : d < next => d # next /\ d < next'
    BY <1>1, <2>1
  <2> QED BY <1>1, <2>1, <2>2 DEF Inv, TypeOK
<1>5. ASSUME NEW c \in Collection, NEW d \in Doc, WritesBack(d) \/ Shrinks(c, d)
      PROVE  next' = next /\ says' = says
  BY <1>5 DEF WritesBack, Shrinks, newVars
<1>6. "facts" \in Collection
  BY DEF Collection
<1> QED BY <1>1, <1>2, <1>3, <1>4, <1>5, <1>6, StoreStep

\* The history variables of the property only grow.
LEMMA RisksStay ==
  ASSUME [Next]_vars
  PROVE  atRisk \subseteq atRisk' /\ (residue => residue')
<1>1. ASSUME NEW r \in Retrievals, Retrieve(r) PROVE UNCHANGED <<atRisk, residue>>
  BY <1>1 DEF Retrieve, SearchFacts, SearchSummaries, Find, WriteBack, Return, history
<1>2. ASSUME NEW x, AddOne(x) PROVE UNCHANGED <<atRisk, residue>>
  BY <1>2 DEF AddOne, CheckDuplicate, AddFact, history
<1>3. ASSUME NEW w \in Writers, Write(w) PROVE UNCHANGED <<atRisk, residue>>
  BY <1>3 DEF Write, Extract, Summarize, Reflect, StoreFact, Store, history
<1>4. ASSUME NEW k \in Compactions, Compact(k)
      PROVE  atRisk \subseteq atRisk' /\ residue' = residue
  <2>1. CASE MarkOne(k) \/ DeleteOne(k)
    BY <2>1 DEF MarkOne, DeleteOne, Hazard
  <2> QED BY <1>2, <1>4, <2>1 DEF Compact, ListFacts, ListSummaries, Judge, Consolidate,
           ListFresh, CleanOne, Promote, Refetch, history
<1>5. ASSUME NEW j \in jobs, Consolidation(j)
      PROVE  atRisk \subseteq atRisk' /\ residue' = residue
  BY <1>5 DEF Consolidation, JobGenerates, JobAdds, JobDeletes, history
<1>6. ASSUME NEW k \in Compactions, BeginCompact(k) PROVE UNCHANGED <<atRisk, residue>>
  BY <1>6 DEF BeginCompact, history
<1>7. CASE Crash
  BY <1>7 DEF Crash
<1>8. CASE UNCHANGED vars
  BY <1>8 DEF vars
<1> QED BY <1>1, <1>2, <1>3, <1>4, <1>5, <1>6, <1>7, <1>8 DEF Next

\* A document goes out of a collection, or out of sight, by deduplication, by
\* cleanup or by a consolidation.
Judged(c, e) ==
    \E k \in Compactions : /\ MarkOne(k) \/ DeleteOne(k)
                           /\ c = CollectionOf(com[k].at) /\ e \in com[k].dups
                           /\ Hazard(k, e)

Cleaned(e) == e \in old /\ \E k \in Compactions : CleanOne(k)

LEMMA LeavingStep ==
  ASSUME Inv, Known, [Next]_vars, NEW c \in Collection, NEW e \in docs[c]
  PROVE  /\ \/ e \in docs'[c]
            \/ \E k \in Compactions : /\ DeleteOne(k) /\ e \in com[k].dups
                                      /\ c = CollectionOf(com[k].at)
            \/ Cleaned(e) \/ (c = "summaries" /\ e \in Going)
         /\ e \notin marked[c] =>
              \/ e \in docs'[c] \ marked'[c]
              \/ Judged(c, e) \/ Cleaned(e) \/ (c = "summaries" /\ e \in Going)
<1> DEFINE Stays == e \in docs'[c] /\ (e \notin marked[c] => e \notin marked'[c])
<1>1. /\ docs \in [Collection -> SUBSET Doc] /\ marked \in [Collection -> SUBSET Doc]
      /\ e \in Doc
  BY DEF Inv, TypeOK
<1>2. ASSUME Quiet PROVE Stays
  BY <1>2 DEF Quiet
<1>3. ASSUME NEW a \in Collection, NEW k \in Kind, NEW topics \in SUBSET Topic,
             Grows(a, k, topics)
      PROVE  Stays
  BY <1>1, <1>3 DEF Grows, Add
<1>4. ASSUME NEW d \in Doc, WritesBack(d)
      PROVE  Stays
  BY <1>1, <1>4 DEF WritesBack, Rewrite, HomeOf, Collection
<1>5. ASSUME NEW a \in Collection, NEW d \in Doc, Delete(a, d), <<a, d>> # <<c, e>>
      PROVE  Stays
  BY <1>1, <1>5 DEF Delete
<1>6. ASSUME NEW k \in Compactions, MarkOne(k)
      PROVE  Stays \/ (Judged(c, e) /\ e \in docs'[c])
  <2>1. PICK d \in com[k].marks : /\ Hazard(k, d)
                                  /\ \/ Mark(CollectionOf(com[k].at), d)
                                     \/ UNCHANGED storeVars
    BY <1>6 DEF MarkOne
  <2>2. d \in com[k].dups
    BY <1>6 DEF Inv, Staged, MarkOne
  <2>3. CASE UNCHANGED storeVars
    BY <2>3 DEF storeVars
  <2>4. CASE Mark(CollectionOf(com[k].at), d)
    <3>1. CollectionOf(com[k].at) \in Collection
      BY DEF CollectionOf, Collection
    <3>2. e \in docs'[c]
      BY <2>4 DEF Mark
    <3>3. CASE d = e /\ c = CollectionOf(com[k].at)
      BY <1>6, <2>1, <2>2, <3>2, <3>3 DEF Judged
    <3>4. CASE ~ (d = e /\ c = CollectionOf(com[k].at))
      BY <1>1, <2>4, <3>1, <3>2, <3>4 DEF Mark
    <3> QED BY <3>3, <3>4
  <2> QED BY <2>1, <2>3, <2>4
<1>7. ASSUME NEW k \in Compactions, DeleteOne(k)
      PROVE  Stays \/ (Judged(c, e) /\ c = CollectionOf(com[k].at) /\ e \in com[k].dups)
  <2>1. PICK d \in com[k].dups : Hazard(k, d) /\ Delete(CollectionOf(com[k].at), d)
    BY <1>7 DEF DeleteOne
  <2>2. CollectionOf(com[k].at) \in Collection /\ d \in Doc
    BY <2>1 DEF CollectionOf, Collection, Inv, TypeOK, Compaction
  <2>3. CASE d = e /\ c = CollectionOf(com[k].at)
    BY <1>7, <2>1, <2>3 DEF Judged
  <2>4. CASE ~ (d = e /\ c = CollectionOf(com[k].at))
    BY <1>5, <2>1, <2>2, <2>4
  <2> QED BY <2>3, <2>4
<1>8. ASSUME NEW k \in Compactions, CleanOne(k)
      PROVE  Stays \/ Cleaned(e)
  <2>1. PICK place \in com[k].doomed : Delete(place[1], place[2])
    BY <1>8 DEF CleanOne
  <2>2. place \in Place /\ place[2] \in old
    BY DEF Inv, TypeOK, Compaction, Known, DoomedAreOld
  <2>3. CASE e = place[2]
    BY <1>8, <2>2, <2>3 DEF Cleaned
  <2>4. CASE e # place[2]
    BY <1>5, <2>1, <2>2, <2>4 DEF Place
  <2> QED BY <2>3, <2>4
<1>9. ASSUME NEW j \in jobs, JobDeletes(j)
      PROVE  Stays \/ (c = "summaries" /\ e \in Going)
  <2>1. PICK d \in j.todo : Delete("summaries", d)
    BY <1>9 DEF JobDeletes
  <2>2. d \in Going /\ d \in Doc /\ "summaries" \in Collection
    BY <1>9 DEF JobDeletes, Going, Inv, TypeOK, Job, Collection
  <2> QED BY <1>5, <2>1, <2>2
<1>10. ASSUME NEW k \in Compactions, Compact(k),
              ~ MarkOne(k), ~ DeleteOne(k), ~ CleanOne(k), ~ AddOne(k)
       PROVE  Stays
  BY <1>10 DEF Compact, ListFacts, ListSummaries, Judge, Consolidate, ListFresh,
               Promote, Refetch, storeVars
<1>11. ASSUME NEW x \in Actor, AddOne(x) PROVE Stays
  BY <1>2, <1>3, <1>11, AddOneIsOne
<1>12. ASSUME NEW w \in Writers, Write(w) \/ AddOne(w) PROVE Stays
  BY <1>2, <1>3, <1>11, <1>12, WriteIsOne DEF Actor
<1>13. ASSUME NEW j \in jobs, Consolidation(j), ~ JobDeletes(j) PROVE Stays
  BY <1>1, <1>13 DEF Consolidation, JobGenerates, JobAdds, Add, storeVars
<1>14. ASSUME NEW r \in Retrievals, Retrieve(r) PROVE Stays
  <2>1. CASE WriteBack(r)
    <3>1. PICK hit \in ret[r].hits : Rewrite(HomeOf(hit[2]), hit[2]) \/ UNCHANGED storeVars
      BY <2>1 DEF WriteBack
    <3> QED BY <1>1, <3>1 DEF Rewrite, HomeOf, Collection, storeVars
  <2> QED BY <1>14, <2>1 DEF Retrieve, SearchFacts, SearchSummaries, Find, Return, storeVars
<1>15. ASSUME NEW k \in Compactions, BeginCompact(k) PROVE Stays
  BY <1>15 DEF BeginCompact, storeVars
<1>16. CASE Crash
  BY <1>16 DEF Crash, storeVars
<1>17. CASE UNCHANGED vars
  BY <1>17 DEF vars
<1>18. CASE Stays
  BY <1>18
<1> HIDE DEF Stays
<1>19. ASSUME NEW k \in Compactions, Compact(k)
       PROVE  \/ Stays
              \/ MarkOne(k) /\ Judged(c, e) /\ e \in docs'[c]
              \/ DeleteOne(k) /\ Judged(c, e) /\ c = CollectionOf(com[k].at) /\ e \in com[k].dups
              \/ Cleaned(e)
  BY <1>6, <1>7, <1>8, <1>10, <1>11, <1>19 DEF Actor
<1> QED BY <1>9, <1>12, <1>13, <1>14, <1>15, <1>16, <1>17, <1>18, <1>19 DEF Next


\* A consolidation adds to what is going only once it has told it elsewhere.
LEMMA SwappedJob ==
  ASSUME Inv, Known, [Next]_vars, NEW job, jobs' \subseteq jobs \cup {job},
         job.todo \subseteq job.batch, \A d \in job.batch : d \in Doc /\ d < next
  PROVE  /\ Batched'
         /\ \A a \in Going' : /\ a \in Doc /\ a < next
                              /\ a \in Going \/ (job.at = "delete" /\ a \in job.todo)
<1>1. \A d \in Doc : d < next => d < next'
  BY ContentsStay
<1>2. \A j \in jobs : j.todo \subseteq j.batch /\ \A d \in j.batch : d \in Doc /\ d < next
  BY DEF Known, Batched, Inv, TypeOK, Job
<1> QED BY <1>1, <1>2 DEF Batched, Going

LEMMA GoingStep ==
  ASSUME Inv, Known, [Next]_vars
  PROVE  /\ Batched'
         /\ \A a \in Going' :
              /\ a \in Doc /\ a < next
              /\ \/ a \in Going
                 \/ says[a] \subseteq atRisk'
                 \/ /\ next \in docs'["summaries"] \ marked'["summaries"]
                    /\ next \in Doc /\ says[a] \subseteq says'[next]
<1> DEFINE Goal == /\ Batched'
                   /\ \A a \in Going' :
                        /\ a \in Doc /\ a < next
                        /\ \/ a \in Going
                           \/ says[a] \subseteq atRisk'
                           \/ /\ next \in docs'["summaries"] \ marked'["summaries"]
                              /\ next \in Doc /\ says[a] \subseteq says'[next]
<1> SUFFICES Goal
  OBVIOUS
<1>1. \A d \in Doc : d < next => d < next'
  BY ContentsStay
<1>2. \A j \in jobs : /\ j \in Job /\ j.todo \subseteq j.batch
                      /\ \A d \in j.batch : d \in Doc /\ d < next
  BY DEF Known, Batched, Inv, TypeOK, Job
<1>3. ASSUME jobs' = jobs PROVE Goal
  BY <1>1, <1>2, <1>3 DEF Batched, Going
<1>4. ASSUME NEW k \in Compactions, Consolidate(k) PROVE Goal
  <2>1. com[k].summaries \subseteq Doc /\ \A d \in com[k].summaries : d < next
    BY DEF Inv, TypeOK, Named, Compaction
  <2>2. CASE jobs' # jobs
    <3>1. PICK P \in Batches(com[k].summaries) :
            LET rest == com[k].summaries \ UNION P
                all == IF Cardinality(rest) < 2 THEN P ELSE P \cup {rest}
            IN  jobs' = jobs \cup {[by |-> k, batch |-> B, todo |-> B,
                                    doc |-> None, at |-> "generate"] : B \in all}
      BY <1>4, <2>2 DEF Consolidate
    <3>2. P \subseteq SUBSET com[k].summaries
      BY DEF Batches, kSubset
    <3>3. \A j \in jobs' : j \in jobs \/ \E B \in P \cup {com[k].summaries \ UNION P} :
             j = [by |-> k, batch |-> B, todo |-> B, doc |-> None, at |-> "generate"]
      BY <3>1
    <3>4. \A j \in jobs' : j \in jobs \/ /\ j.at = "generate" /\ j.todo \subseteq j.batch
                                         /\ j.batch \subseteq com[k].summaries
      BY <3>2, <3>3
    <3>5. Going' \subseteq Going
      BY <3>4 DEF Going
    <3>6. Batched'
      BY <1>1, <1>2, <2>1, <3>4 DEF Batched
    <3>7. \A a \in Going : a \in Doc /\ a < next
      BY <1>2 DEF Going
    <3> QED BY <3>5, <3>6, <3>7
  <2> QED BY <1>3, <2>2
<1>5. ASSUME NEW j \in jobs, JobGenerates(j) PROVE Goal
  <2> DEFINE job == [j EXCEPT !.at = "add"]
  <2>1. job.todo = j.todo /\ job.batch = j.batch /\ job.at = "add"
    BY <1>2 DEF Job
  <2>2. jobs' \subseteq jobs \cup {job}
    BY <1>5 DEF JobGenerates, Swap
  <2> HIDE DEF job
  <2> QED BY <1>2, <2>1, <2>2, SwappedJob
<1>6. ASSUME NEW j \in jobs, JobAdds(j) PROVE Goal
  <2> DEFINE kept == UNION {says[d] : d \in j.batch}
  <2>1. \A a \in j.todo : says[a] \subseteq kept
    BY <1>2
  <2>2. CASE /\ Add("summaries", "summary", kept)
             /\ Swap(j, [j EXCEPT !.at = "delete", !.doc = next])
    <3> DEFINE job == [j EXCEPT !.at = "delete", !.doc = next]
    <3>1. job.todo = j.todo /\ job.batch = j.batch
      BY <1>2 DEF Job
    <3>2. jobs' \subseteq jobs \cup {job}
      BY <2>2 DEF Swap
    <3>3. next \in Doc /\ next \in docs'["summaries"] /\ says'[next] = kept /\ marked' = marked
      BY <2>2 DEF Add, Inv, TypeOK, Collection
    <3>4. next \notin marked["summaries"]
      <4>1. "summaries" \in Collection /\ ~ (next < next)
        BY DEF Collection, Inv, TypeOK
      <4> QED BY <4>1 DEF Inv, TypeOK, Filed
    <3> HIDE DEF job, kept
    <3> QED BY <1>2, <2>1, <3>1, <3>2, <3>3, <3>4, SwappedJob
  <2>3. CASE /\ Swap(j, [j EXCEPT !.at = "delete"])
             /\ atRisk' = atRisk \cup kept
    <3> DEFINE job == [j EXCEPT !.at = "delete"]
    <3>1. job.todo = j.todo /\ job.batch = j.batch
      BY <1>2 DEF Job
    <3>2. jobs' \subseteq jobs \cup {job}
      BY <2>3 DEF Swap
    <3> HIDE DEF job, kept
    <3> QED BY <1>2, <2>1, <2>3, <3>1, <3>2, SwappedJob
  <2> QED BY <1>6, <2>2, <2>3 DEF JobAdds
<1>7. ASSUME NEW j \in jobs, JobDeletes(j) PROVE Goal
  <2>1. PICK d \in j.todo : IF j.todo = {d} THEN jobs' = jobs \ {j}
                            ELSE Swap(j, [j EXCEPT !.todo = @ \ {d}])
    BY <1>7 DEF JobDeletes
  <2> DEFINE job == [j EXCEPT !.todo = @ \ {d}]
  <2>2. job.todo \subseteq j.todo /\ job.batch = j.batch
    BY <1>2 DEF Job
  <2>3. jobs' \subseteq jobs \cup {job}
    BY <2>1 DEF Swap
  <2>4. j.todo \subseteq Going
    BY <1>7 DEF JobDeletes, Going
  <2> HIDE DEF job
  <2>5. \A a \in Going' : a \in Doc /\ a < next /\ a \in Going
    BY <1>2, <2>2, <2>3, <2>4, SwappedJob
  <2>6. Batched'
    BY <1>2, <2>2, <2>3, SwappedJob
  <2> QED BY <2>5, <2>6
<1>8. ASSUME NEW k \in Compactions, Compact(k), ~ Consolidate(k)
      PROVE  jobs' = jobs
  BY <1>8 DEF Compact, ListFacts, ListSummaries, Judge, MarkOne, DeleteOne, ListFresh,
              CleanOne, Promote, Refetch, AddOne, CheckDuplicate, AddFact
<1>9. ASSUME NEW r \in Retrievals, Retrieve(r) PROVE jobs' = jobs
  BY <1>9 DEF Retrieve, SearchFacts, SearchSummaries, Find, WriteBack, Return
<1>10. ASSUME NEW w \in Writers, Write(w) \/ AddOne(w) PROVE jobs' = jobs
  BY <1>10 DEF Write, Extract, Summarize, Reflect, StoreFact, Store, AddOne,
               CheckDuplicate, AddFact
<1>11. ASSUME NEW k \in Compactions, BeginCompact(k) PROVE jobs' = jobs
  BY <1>11 DEF BeginCompact
<1>12. CASE Crash
  BY <1>12 DEF Crash, Batched, Going
<1>13. CASE UNCHANGED vars
  BY <1>3, <1>13 DEF vars
<1> HIDE DEF Goal
<1> QED BY <1>3, <1>4, <1>5, <1>6, <1>7, <1>8, <1>9, <1>10, <1>11, <1>12, <1>13
        DEF Next, Consolidation

LEMMA NewlyGoing ==
  ASSUME Inv, Known, [Next]_vars, NEW a \in Going' \ Going, NEW t \in says[a]
  PROVE  \/ t \in atRisk'
         \/ /\ next \in docs'["summaries"] \ marked'["summaries"]
            /\ t \in says'[next] /\ next \notin Going' \cup old'
<1>1. ~ (next < next) /\ next \notin old'
  BY ContentsStay DEF Known
<1>2. next \notin Going'
  BY <1>1, GoingStep
<1> QED BY <1>1, <1>2, GoingStep

\* Told after a step, for a set of documents named before it.
ToldNext(c, t, X) ==
    \E e \in docs'[c] \ X :
      t \in says'[e] /\ (c = "summaries" => e \notin Going' \cup old')

\* What was told by a document that is still there is told after the step.
LEMMA StillTold ==
  ASSUME Inv, Known, [Next]_vars, NEW c \in Collection, NEW X,
         \A x \in X : x < next,
         NEW e \in docs[c], NEW t \in says[e], Endures(c, e), e \in docs'[c] \ X
  PROVE  t \in atRisk' \/ ToldNext(c, t, X)
<1>1. e \in Doc /\ e < next /\ next \in Nat
  BY DEF Inv, TypeOK, Filed
<1>2. says'[e] = says[e] /\ old' = old
  BY <1>1, ContentsStay
<1>3. CASE c = "summaries" /\ e \in Going'
  <2>1. e \in Going' \ Going
    BY <1>3 DEF Endures
  <2>2. next \notin X
    BY <1>1
  <2> QED BY <1>3, <2>1, <2>2, NewlyGoing DEF ToldNext
<1>4. CASE ~ (c = "summaries" /\ e \in Going')
  BY <1>2, <1>4 DEF ToldNext, Endures
<1> QED BY <1>3, <1>4

\* Whoever marks, deletes or cleans up is under way; a sound one is alone.
LEMMA SoundActs ==
  ASSUME Inv, Known, NEW k \in Compactions, NEW l \in Compactions,
         com[k].sound, com[k].stage # "list" \/ com[k].at = "summaries",
         MarkOne(l) \/ DeleteOne(l) \/ CleanOne(l)
  PROVE  l = k /\ com[k].stage \in {"mark", "delete"} /\ ~ CleanOne(k)
<1>1. k \in Active /\ Staged(com[k]) /\ Staged(com[l])
  BY DEF Inv, Staged, Active
<1>2. l \in Active
  BY <1>1 DEF Staged, Active, MarkOne, DeleteOne, CleanOne
<1>3. l = k
  BY <1>1, <1>2 DEF Known, Alone
<1>4. ~ CleanOne(k)
  BY <1>1 DEF Staged, CleanOne
<1> QED BY <1>1, <1>3, <1>4 DEF MarkOne, DeleteOne, Staged

\* What is marked while a sound Compact deduplicates is one of its duplicates.
LEMMA MarksOfSound ==
  ASSUME Inv, Known, ~ residue, NEW k \in Compactions, com[k].sound,
         com[k].stage \in {"mark", "delete"}, NEW c \in Collection, NEW d \in marked[c]
  PROVE  c = CollectionOf(com[k].at) /\ d \in com[k].dups
<1>1. d \in Doc
  BY DEF Inv, TypeOK
<1>2. PICK l \in Compactions : Holds(com[l], c, d)
  BY <1>1 DEF Inv, MarksAreHeld
<1>3. k \in Active /\ l \in Active
  BY <1>2 DEF Inv, Staged, Active, Holds
<1>4. l = k
  BY <1>3 DEF Known, Alone
<1> QED BY <1>2, <1>4 DEF Holds

\* A topic in sight stays in sight, unless it is cleaned up or at risk.
LEMMA OpenStep ==
  ASSUME Inv, Known, [Next]_vars, ~ residue, NEW c \in Collection,
         NEW e \in docs[c] \ marked[c], NEW t \in says[e],
         c = "summaries" => e \notin Going
  PROVE  \/ t \in atRisk' \/ Cleaned(e)
         \/ \E w \in docs[c] : /\ w \in docs'[c] \ marked'[c] /\ t \in says[w]
                               /\ w = e \/ Endures(c, w)
<1>1. CASE e \in docs'[c] \ marked'[c]
  BY <1>1
<1>2. CASE Judged(c, e)
  <2>1. PICK k \in Compactions : /\ MarkOne(k) \/ DeleteOne(k)
                                 /\ c = CollectionOf(com[k].at) /\ e \in com[k].dups
                                 /\ Hazard(k, e)
    BY <1>2 DEF Judged
  <2>2. com[k].stage \in {"mark", "delete"}
    BY <2>1 DEF MarkOne, DeleteOne
  <2>3. CASE ~ com[k].sound \/ e \in com[k].shaky
    BY <2>1, <2>3 DEF Hazard
  <2>4. CASE com[k].sound /\ e \notin com[k].shaky
    <3>1. t \in atRisk \/ Told(c, t, com[k].dups)
      BY <2>1, <2>2, <2>4 DEF Known, DupsCovered
    <3>2. CASE t \in atRisk
      BY <3>2, RisksStay
    <3>3. ASSUME NEW w \in docs[c] \ com[k].dups, t \in says[w], Endures(c, w)
          PROVE  w \in docs'[c] \ marked'[c]
      <4>1. w \notin marked[c]
        BY <2>2, <2>4, MarksOfSound
      <4>2. ~ Judged(c, w)
        BY <2>1, <2>2, <2>4, SoundActs DEF Judged
      <4>3. ~ Cleaned(w)
        BY <2>1, <2>2, <2>4, SoundActs DEF Cleaned
      <4> QED BY <3>3, <4>1, <4>2, <4>3, LeavingStep DEF Endures
    <3> QED BY <3>1, <3>2, <3>3 DEF Told
  <2> QED BY <2>3, <2>4
<1> QED BY <1>1, <1>2, LeavingStep

LEMMA CoveredStep ==
  ASSUME Inv, Known, [Next]_vars
  PROVE  Covered'
<1> SUFFICES ASSUME ~ residue', NEW a \in Going', NEW t \in says'[a], t \notin atRisk'
             PROVE  ToldNext("summaries", t, marked'["summaries"])
  BY DEF Covered, Told, Endures, ToldNext
<1>1. ~ residue /\ t \notin atRisk
  BY RisksStay
<1>2. a \in Doc /\ a < next /\ says'[a] = says[a]
  BY GoingStep, ContentsStay
<1>3. ASSUME NEW b \in Going' \ Going, t \in says[b]
      PROVE  ToldNext("summaries", t, marked'["summaries"])
  BY <1>3, NewlyGoing DEF ToldNext
<1>4. CASE a \notin Going
  BY <1>2, <1>3, <1>4
<1>5. CASE a \in Going
  <2>1. PICK e \in docs["summaries"] \ marked["summaries"] :
          t \in says[e] /\ Endures("summaries", e)
    BY <1>1, <1>2, <1>5 DEF Known, Covered, Told
  <2>2. "summaries" \in Collection /\ ~ Cleaned(e)
    BY <2>1 DEF Collection, Endures, Cleaned
  <2>3. PICK w \in docs["summaries"] :
          /\ w \in docs'["summaries"] \ marked'["summaries"] /\ t \in says[w]
          /\ Endures("summaries", w)
    BY <1>1, <2>1, <2>2, OpenStep DEF Endures
  <2>4. w \in Doc /\ w < next
    BY <2>2 DEF Inv, TypeOK, Filed
  <2>5. says'[w] = says[w] /\ w \notin old'
    BY <2>3, <2>4, ContentsStay DEF Endures
  <2>6. CASE w \in Going'
    BY <1>3, <2>3, <2>6 DEF Endures
  <2>7. CASE w \notin Going'
    BY <2>3, <2>5, <2>7 DEF ToldNext
  <2> QED BY <2>6, <2>7
<1> QED BY <1>4, <1>5

\* The topics of a sound deduplication stay told outside what it deletes.
LEMMA ToldStep ==
  ASSUME Inv, Known, [Next]_vars, NEW k \in Compactions,
         com[k].sound, com[k].stage # "list", NEW X, \A x \in X : x < next,
         com[k].stage = "judge" \/ com[k].dups \subseteq X,
         NEW t, Told(CollectionOf(com[k].at), t, X)
  PROVE  t \in atRisk' \/ ToldNext(CollectionOf(com[k].at), t, X)
<1> DEFINE c == CollectionOf(com[k].at)
<1>1. c \in Collection
  BY DEF CollectionOf, Collection
<1>2. PICK e \in docs[c] \ X : t \in says[e] /\ Endures(c, e)
  BY DEF Told
<1>3. e \in docs'[c]
  <2>1. ~ \E l \in Compactions : DeleteOne(l) /\ e \in com[l].dups
    BY <1>2, SoundActs
  <2>2. ~ Cleaned(e)
    BY SoundActs DEF Cleaned
  <2> QED BY <1>1, <1>2, <2>1, <2>2, LeavingStep DEF Endures
<1> QED BY <1>1, <1>2, <1>3, StillTold

LEMMA FactsStay ==
  ASSUME Inv, Known, [Next]_vars, NEW k \in Compactions, com[k].sound,
         com[k].at = "summaries"
  PROVE  docs["facts"] \subseteq docs'["facts"]
<1> SUFFICES ASSUME NEW e \in docs["facts"] PROVE e \in docs'["facts"]
  OBVIOUS
<1>1. com[k].stage = "list"
  BY DEF Inv, Staged
<1>2. ~ \E l \in Compactions : DeleteOne(l) \/ CleanOne(l)
  BY <1>1, SoundActs
<1>3. "facts" \in Collection
  BY DEF Collection
<1> QED BY <1>2, <1>3, LeavingStep DEF Cleaned

\* The part of the invariant that is about a Compact.
RunKnown(run) ==
    /\ PoolCovered(run) /\ DupsCovered(run) /\ FactsThere(run)
    /\ Emptied(run) /\ DoomedAreOld(run)

\* A Compact that stays where it is.
LEMMA RunStays ==
  ASSUME Inv, Known, [Next]_vars, NEW k \in Compactions, com'[k] = com[k]
  PROVE  RunKnown(com[k])'
<1> DEFINE run == com[k]
           c == CollectionOf(run.at)
<1>1. /\ run \in Compaction /\ Named(run)
      /\ PoolCovered(run) /\ DupsCovered(run) /\ FactsThere(run)
      /\ Emptied(run) /\ DoomedAreOld(run)
  BY DEF Inv, TypeOK, Known
<1>2. /\ run.pool \subseteq Doc /\ run.dups \subseteq Doc
      /\ \A x \in run.pool \cup run.dups : x < next /\ says'[x] = says[x]
  BY <1>1, ContentsStay DEF Compaction, Named
<1>3. PoolCovered(com[k])'
  <2> SUFFICES ASSUME run.sound, run.stage = "judge", NEW x \in run.pool \ run.shaky,
                      NEW t \in says[x], t \notin atRisk'
               PROVE  ToldNext(c, t, run.pool \ {x})
    BY <1>2 DEF PoolCovered, Told, ToldNext, Endures
  <2>1. Told(c, t, run.pool \ {x})
    BY <1>1, RisksStay DEF PoolCovered
  <2> QED BY <1>2, <2>1, ToldStep
<1>4. DupsCovered(com[k])'
  <2> SUFFICES ASSUME run.sound, run.stage \in {"mark", "delete"},
                      NEW x \in run.dups \ run.shaky, NEW t \in says[x], t \notin atRisk'
               PROVE  ToldNext(c, t, run.dups)
    BY <1>2 DEF DupsCovered, Told, ToldNext, Endures
  <2>1. Told(c, t, run.dups)
    BY <1>1, RisksStay DEF DupsCovered
  <2> QED BY <1>2, <2>1, ToldStep
<1>5. FactsThere(com[k])'
  BY <1>1, FactsStay DEF FactsThere
<1>6. Emptied(com[k])' /\ DoomedAreOld(com[k])'
  BY <1>1, ContentsStay DEF Emptied, DoomedAreOld
<1> QED BY <1>3, <1>4, <1>5, <1>6 DEF RunKnown

\* A Compact with nothing to deduplicate.
LEMMA RestingRun ==
  ASSUME NEW k \in Compactions, com'[k].stage = "list",
         com'[k].pool = {}, com'[k].marks = {}, com'[k].dups = {}, com'[k].shaky = {},
         \A place \in com'[k].doomed : place[2] \in old',
         com'[k].at = "summaries" => com'[k].facts \subseteq docs'["facts"]
  PROVE  RunKnown(com[k])'
BY DEF RunKnown, PoolCovered, DupsCovered, FactsThere, Emptied, DoomedAreOld

\* A Compact that has just been given what its collection holds to deduplicate.
LEMMA JudgingRun ==
  ASSUME NEW k \in Compactions, com'[k].stage = "judge",
         \A place \in com'[k].doomed : place[2] \in old',
         com'[k].at # "summaries",
         com'[k].sound =>
           \A x \in com'[k].pool \ com'[k].shaky :
             /\ x \in docs'[CollectionOf(com'[k].at)]
             /\ com'[k].at = "second" => x \notin Going' \cup old'
  PROVE  RunKnown(com[k])'
<1>1. PoolCovered(com[k])'
  BY DEF PoolCovered, Told, Endures, CollectionOf
<1> QED BY <1>1 DEF RunKnown, DupsCovered, FactsThere, Emptied, DoomedAreOld

\* A deduplication that ends.
LEMMA ProceedingRun ==
  ASSUME Inv, Known, old' = old, NEW k \in Compactions, com'[k] = Proceed(k),
         com[k].at \in {"first", "second", "last"}
  PROVE  RunKnown(com[k])'
<1> DEFINE run == com[k]
           phase == PhaseAfter(run.at)
<1>1. run \in Compaction
  BY DEF Inv, TypeOK
<1>2. CASE phase = "over"
  <2>1. com'[k] = Finished
    BY <1>2 DEF Proceed
  <2> QED BY <2>1, RestingRun DEF Finished, NoCompaction
<1>3. CASE phase # "over"
  <2> DEFINE to == [run EXCEPT !.at = phase, !.stage = "list", !.pool = {},
                               !.marks = {}, !.dups = {}, !.shaky = {}]
  <2>1. com'[k] = to
    BY <1>3 DEF Proceed
  <2>2. /\ to.stage = "list" /\ to.pool = {} /\ to.marks = {} /\ to.dups = {}
        /\ to.shaky = {} /\ to.doomed = run.doomed /\ to.at = phase
    BY <1>1 DEF Compaction
  <2>3. phase # "summaries"
    BY DEF PhaseAfter
  <2> HIDE DEF to
  <2> QED BY <2>1, <2>2, <2>3, RestingRun DEF Known, DoomedAreOld
<1> QED BY <1>2, <1>3

LEMMA JudgeKnown ==
  ASSUME Inv, Known, [Next]_vars, NEW k \in Compactions, Judge(k)
  PROVE  RunKnown(com[k])'
<1> DEFINE run == com[k]
           c == CollectionOf(run.at)
           To(D) == [run EXCEPT !.stage = "mark", !.marks = D, !.dups = D,
                                !.pool = {}, !.shaky = Shaky(k, D)]
<1>1. PICK D \in Judgments(run.pool) :
        com' = [com EXCEPT ![k] = IF D = {} THEN Proceed(k) ELSE To(D)]
  BY DEF Judge, Move
<1>2. run.stage = "judge" /\ UNCHANGED <<newVars, storeVars, jobs, history>>
  BY DEF Judge, Move
<1>3. run \in Compaction /\ Staged(run) /\ com \in [Compactions -> Compaction]
  BY DEF Inv, TypeOK
<1>4. run.at \in {"first", "second", "last"}
  BY <1>2, <1>3 DEF Staged
<1>5. CASE D = {}
  BY <1>1, <1>2, <1>3, <1>4, <1>5, ProceedingRun DEF newVars
<1>6. CASE D # {}
  <2>1. com'[k] = To(D)
    BY <1>1, <1>3, <1>6
  <2>2. /\ To(D).stage = "mark" /\ To(D).dups = D /\ To(D).shaky = Shaky(k, D)
        /\ To(D).doomed = run.doomed /\ To(D).at = run.at /\ To(D).sound = run.sound
    BY <1>3 DEF Compaction
  <2> HIDE DEF To
  <2>3. DupsCovered(com[k])'
    <3> SUFFICES ASSUME run.sound, NEW d \in D \ Shaky(k, D), NEW t \in says[d],
                        t \notin atRisk
                 PROVE  Told(c, t, D)
      <4>1. UNCHANGED <<docs, says, jobs, old, atRisk>>
        BY <1>2 DEF newVars, storeVars, history
      <4> QED BY <2>1, <2>2, <4>1 DEF DupsCovered, Told, Endures, Going
    <3>1. D \subseteq run.pool
      BY DEF Judgments
    <3>2. PICK p \in run.pool \ D : says[p] = says[d] /\ p \notin run.shaky
      BY DEF Shaky
    <3>3. Told(c, t, run.pool \ {p})
      BY <1>2, <3>2 DEF Known, PoolCovered
    <3> QED BY <3>1, <3>2, <3>3 DEF Told
  <2>4. PoolCovered(com[k])' /\ FactsThere(com[k])' /\ Emptied(com[k])'
    BY <1>4, <2>1, <2>2 DEF PoolCovered, FactsThere, Emptied
  <2>5. DoomedAreOld(com[k])'
    BY <1>2, <2>1, <2>2 DEF Known, DoomedAreOld, newVars
  <2> QED BY <2>3, <2>4, <2>5 DEF RunKnown
<1> QED BY <1>5, <1>6

\* While duplicates are marked and deleted their topics are told by what is kept.
LEMMA DeduplicationKnown ==
  ASSUME Inv, Known, [Next]_vars, NEW k \in Compactions, MarkOne(k) \/ DeleteOne(k)
  PROVE  RunKnown(com[k])'
<1> DEFINE run == com[k]
           c == CollectionOf(run.at)
<1>1. run \in Compaction /\ Staged(run) /\ Named(run) /\ com \in [Compactions -> Compaction]
  BY DEF Inv, TypeOK
<1>2. run.stage \in {"mark", "delete"} /\ run.at \in {"first", "second", "last"}
  BY <1>1 DEF Staged, MarkOne, DeleteOne
<1>3. old' = old
  BY ContentsStay
<1>4. ASSUME NEW to, com' = [com EXCEPT ![k] = to], to.stage \in {"mark", "delete"},
             to.dups \subseteq run.dups, to.shaky = run.shaky, to.sound = run.sound,
             to.at = run.at, to.doomed = run.doomed
      PROVE  RunKnown(com[k])'
  <2>1. com'[k] = to
    BY <1>1, <1>4
  <2>2. /\ run.dups \subseteq Doc
        /\ \A x \in run.dups : x < next /\ says'[x] = says[x]
    BY <1>1, ContentsStay DEF Compaction, Named
  <2>3. DupsCovered(com[k])'
    <3> SUFFICES ASSUME run.sound, NEW x \in to.dups \ run.shaky, NEW t \in says[x],
                        t \notin atRisk'
                 PROVE  ToldNext(c, t, run.dups)
      BY <1>4, <2>1, <2>2 DEF DupsCovered, Told, ToldNext, Endures
    <3>1. Told(c, t, run.dups)
      BY <1>2, <1>4, RisksStay DEF Known, DupsCovered
    <3> QED BY <1>2, <2>2, <3>1, ToldStep
  <2>4. PoolCovered(com[k])' /\ FactsThere(com[k])' /\ Emptied(com[k])'
    BY <1>2, <1>4, <2>1 DEF PoolCovered, FactsThere, Emptied
  <2>5. DoomedAreOld(com[k])'
    BY <1>3, <1>4, <2>1 DEF Known, DoomedAreOld
  <2> QED BY <2>3, <2>4, <2>5 DEF RunKnown
<1>5. CASE MarkOne(k)
  <2>1. PICK d \in run.marks :
          com' = [com EXCEPT ![k] =
                    [run EXCEPT !.marks = run.marks \ {d},
                       !.stage = IF run.marks \ {d} = {} THEN "delete" ELSE @]]
    BY <1>5 DEF MarkOne, Move
  <2> DEFINE to == [run EXCEPT !.marks = run.marks \ {d},
                       !.stage = IF run.marks \ {d} = {} THEN "delete" ELSE @]
  <2>2. /\ to.stage \in {"mark", "delete"} /\ to.dups = run.dups /\ to.shaky = run.shaky
        /\ to.sound = run.sound /\ to.at = run.at /\ to.doomed = run.doomed
    BY <1>1, <1>2 DEF Compaction
  <2> HIDE DEF to
  <2> QED BY <1>4, <2>1, <2>2 DEF to
<1>6. CASE DeleteOne(k)
  <2>1. PICK d \in run.dups :
          com' = [com EXCEPT ![k] = IF run.dups \ {d} = {} THEN Proceed(k)
                                    ELSE [run EXCEPT !.dups = run.dups \ {d}]]
    BY <1>6 DEF DeleteOne, Move
  <2>2. CASE run.dups \ {d} = {}
    BY <1>1, <1>2, <1>3, <2>1, <2>2, ProceedingRun
  <2>3. CASE run.dups \ {d} # {}
    <3> DEFINE to == [run EXCEPT !.dups = run.dups \ {d}]
    <3>1. /\ to.stage = run.stage /\ to.dups \subseteq run.dups /\ to.shaky = run.shaky
          /\ to.sound = run.sound /\ to.at = run.at /\ to.doomed = run.doomed
      BY <1>1 DEF Compaction
    <3>2. com' = [com EXCEPT ![k] = to]
      BY <2>1, <2>3
    <3> HIDE DEF to
    <3> QED BY <1>2, <1>4, <3>1, <3>2
  <2> QED BY <2>2, <2>3
<1> QED BY <1>5, <1>6

\* Lists are made of what the collections hold.
LEMMA ListingKnown ==
  ASSUME Inv, Known, [Next]_vars, NEW k \in Compactions,
         ListFacts(k) \/ ListSummaries(k) \/ ListFresh(k) \/ Refetch(k)
  PROVE  RunKnown(com[k])'
<1> DEFINE run == com[k]
<1>1. run \in Compaction /\ Staged(run) /\ com \in [Compactions -> Compaction]
  BY DEF Inv, TypeOK
<1>2. /\ run.stage = "list"
      /\ run.pool = {} /\ run.marks = {} /\ run.dups = {} /\ run.shaky = {}
  BY <1>1 DEF Staged, ListFacts, ListSummaries, ListFresh, Refetch, Known, Emptied
<1>3. UNCHANGED <<newVars, storeVars, jobs>>
  BY DEF ListFacts, ListSummaries, ListFresh, Refetch, Move
<1>4. /\ docs' = docs /\ old' = old /\ Going' = Going
      /\ \A place \in run.doomed : place[2] \in old
  BY <1>3 DEF newVars, storeVars, Going, Known, DoomedAreOld
<1>5. \A c, list : \A place \in Doomed(c, list) : place[2] \in old
  BY DEF Doomed
<1>6. CASE ListFacts(k)
  <2>1. PICK list \in ListAll("facts") :
          com' = [com EXCEPT ![k] =
                   [run EXCEPT !.at = "summaries", !.facts = list,
                               !.doomed = Doomed("facts", list), !.seen = retrieved]]
    BY <1>6 DEF ListFacts, Move
  <2> DEFINE to == [run EXCEPT !.at = "summaries", !.facts = list,
                               !.doomed = Doomed("facts", list), !.seen = retrieved]
  <2>2. /\ to.stage = "list" /\ to.pool = {} /\ to.marks = {} /\ to.dups = {}
        /\ to.shaky = {} /\ to.doomed = Doomed("facts", list) /\ to.facts = list
    BY <1>1, <1>2 DEF Compaction
  <2>3. com'[k] = to /\ list \subseteq docs["facts"]
    BY <1>1, <2>1 DEF ListAll
  <2> HIDE DEF to
  <2> QED BY <1>4, <1>5, <2>2, <2>3, RestingRun
<1>7. CASE ListSummaries(k)
  <2> DEFINE many == Cardinality(run.facts) > DedupAbove
             To(list) == [run EXCEPT !.at = IF many THEN "first" ELSE "consolidate",
                            !.stage = IF many THEN "judge" ELSE "list",
                            !.pool = IF many THEN @ \cup run.facts ELSE @,
                            !.summaries = list,
                            !.doomed = @ \cup Doomed("summaries", list)]
  <2>1. PICK list : com' = [com EXCEPT ![k] = To(list)]
    BY <1>7 DEF ListSummaries, Move
  <2>2. /\ To(list).at = IF many THEN "first" ELSE "consolidate"
        /\ To(list).stage = IF many THEN "judge" ELSE "list"
        /\ To(list).pool = IF many THEN run.pool \cup run.facts ELSE run.pool
        /\ To(list).marks = {} /\ To(list).dups = {} /\ To(list).shaky = {}
        /\ To(list).sound = run.sound
        /\ To(list).doomed = run.doomed \cup Doomed("summaries", list)
    BY <1>1, <1>2 DEF Compaction
  <2>3. com'[k] = To(list)
    BY <1>1, <2>1
  <2> HIDE DEF To
  <2>4. \A place \in To(list).doomed : place[2] \in old'
    BY <1>4, <1>5, <2>2
  <2>5. run.sound => run.facts \subseteq docs["facts"]
    BY <1>7 DEF ListSummaries, Known, FactsThere
  <2>6. CASE many
    BY <1>2, <1>4, <2>2, <2>3, <2>4, <2>5, <2>6, JudgingRun DEF CollectionOf
  <2>7. CASE ~ many
    BY <1>2, <2>2, <2>3, <2>4, <2>7, RestingRun
  <2> QED BY <2>6, <2>7
<1>8. CASE ListFresh(k)
  <2> DEFINE Skip == [run EXCEPT !.at = "cleanup"]
             To(list, sound) == [run EXCEPT !.stage = "judge", !.pool = list,
                                   !.shaky = (Going \cup old) \cap list, !.sound = sound]
  <2>1. PICK fails \in {FALSE} \cup {flaky} :
          LET list == IF fails THEN run.summaries ELSE docs["summaries"]
          IN  com' = [com EXCEPT ![k] = IF Cardinality(list) <= 1 THEN Skip
                                        ELSE To(list, run.sound /\ ~fails)]
    BY <1>8 DEF ListFresh, Move
  <2> DEFINE list == IF fails THEN run.summaries ELSE docs["summaries"]
             sound == run.sound /\ ~fails
  <2>2. /\ To(list, sound).at = "second" /\ To(list, sound).stage = "judge"
        /\ To(list, sound).pool = list /\ To(list, sound).shaky = (Going \cup old) \cap list
        /\ To(list, sound).sound = sound /\ To(list, sound).doomed = run.doomed
    BY <1>1, <1>8 DEF Compaction, ListFresh
  <2>3. /\ Skip.at = "cleanup" /\ Skip.stage = "list" /\ Skip.doomed = run.doomed
        /\ Skip.pool = {} /\ Skip.marks = {} /\ Skip.dups = {} /\ Skip.shaky = {}
    BY <1>1, <1>2 DEF Compaction
  <2>4. com'[k] = Skip \/ com'[k] = To(list, sound)
    BY <1>1, <2>1
  <2>5. sound => list = docs["summaries"]
    OBVIOUS
  <2> HIDE DEF To, Skip, list, sound
  <2>6. CASE com'[k] = Skip
    BY <1>4, <2>3, <2>6, RestingRun
  <2>7. CASE com'[k] = To(list, sound)
    BY <1>4, <2>2, <2>5, <2>7, JudgingRun DEF CollectionOf
  <2> QED BY <2>4, <2>6, <2>7
<1>9. CASE Refetch(k)
  <2> DEFINE To(list, sound) == [run EXCEPT !.stage = "judge", !.pool = list,
                                            !.sound = sound]
  <2>1. PICK fails \in {FALSE} \cup {flaky} :
          LET list == IF fails THEN run.facts ELSE docs["facts"]
          IN  com' = [com EXCEPT ![k] = IF list = {} THEN Finished
                                        ELSE To(list, run.sound /\ ~fails)]
    BY <1>9 DEF Refetch, Move
  <2> DEFINE list == IF fails THEN run.facts ELSE docs["facts"]
             sound == run.sound /\ ~fails
  <2>2. /\ To(list, sound).at = "last" /\ To(list, sound).stage = "judge"
        /\ To(list, sound).pool = list /\ To(list, sound).shaky = {}
        /\ To(list, sound).sound = sound /\ To(list, sound).doomed = run.doomed
    BY <1>1, <1>2, <1>9 DEF Compaction, Refetch
  <2>3. com'[k] = Finished \/ com'[k] = To(list, sound)
    BY <1>1, <2>1
  <2>4. sound => list = docs["facts"]
    OBVIOUS
  <2> HIDE DEF To, list, sound
  <2>5. CASE com'[k] = Finished
    BY <2>5, RestingRun DEF Finished, NoCompaction
  <2>6. CASE com'[k] = To(list, sound)
    BY <1>4, <2>2, <2>4, <2>6, JudgingRun DEF CollectionOf
  <2> QED BY <2>3, <2>5, <2>6
<1> QED BY <1>6, <1>7, <1>8, <1>9

\* The other phases leave nothing to deduplicate.
LEMMA OtherPhasesKnown ==
  ASSUME Inv, Known, [Next]_vars, NEW k \in Compactions,
         Consolidate(k) \/ CleanOne(k) \/ Promote(k)
  PROVE  RunKnown(com[k])'
<1> DEFINE run == com[k]
<1>1. run \in Compaction /\ Staged(run) /\ com \in [Compactions -> Compaction]
  BY DEF Inv, TypeOK
<1>2. /\ run.stage = "list"
      /\ run.pool = {} /\ run.marks = {} /\ run.dups = {} /\ run.shaky = {}
  BY <1>1 DEF Staged, Consolidate, CleanOne, Promote, Known, Emptied
<1>3. old' = old /\ \A place \in run.doomed : place[2] \in old
  BY ContentsStay DEF Known, DoomedAreOld
<1>4. CASE Consolidate(k) \/ Promote(k)
  <2>1. PICK at \in {"cleanup", "second", "last"} :
          com' = [com EXCEPT ![k] = [run EXCEPT !.at = at]]
    BY <1>4 DEF Consolidate, Promote, Move
  <2> DEFINE to == [run EXCEPT !.at = at]
  <2>2. /\ to.at = at /\ to.stage = "list" /\ to.doomed = run.doomed
        /\ to.pool = {} /\ to.marks = {} /\ to.dups = {} /\ to.shaky = {}
    BY <1>1, <1>2 DEF Compaction
  <2>3. com'[k] = to
    BY <1>1, <2>1
  <2> HIDE DEF to
  <2> QED BY <1>3, <2>2, <2>3, RestingRun
<1>5. CASE CleanOne(k)
  <2>1. PICK place \in run.doomed :
          com' = [com EXCEPT ![k] = [run EXCEPT !.doomed = @ \ {place}]]
    BY <1>5 DEF CleanOne, Move
  <2> DEFINE to == [run EXCEPT !.doomed = @ \ {place}]
  <2>2. /\ to.at = "cleanup" /\ to.stage = "list" /\ to.doomed \subseteq run.doomed
        /\ to.pool = {} /\ to.marks = {} /\ to.dups = {} /\ to.shaky = {}
    BY <1>1, <1>2, <1>5 DEF Compaction, CleanOne
  <2>3. com'[k] = to
    BY <1>1, <2>1
  <2> HIDE DEF to
  <2> QED BY <1>3, <2>2, <2>3, RestingRun
<1> QED BY <1>4, <1>5

\* A Compact never becomes sound again, and is under way when it moves.
LEMMA SoundnessFades ==
  ASSUME Inv, NEW k \in Compactions, Compact(k), ~ AddOne(k)
  PROVE  /\ k \in Active
         /\ \A l \in Compactions : l # k => com'[l] = com[l]
         /\ k \in Active' /\ com'[k].sound => com[k].sound
<1> DEFINE run == com[k]
           Goal == k \in Active' /\ com'[k].sound => com[k].sound
<1>1. run \in Compaction /\ Staged(run) /\ com \in [Compactions -> Compaction]
  BY DEF Inv, TypeOK
<1>2. k \in Active
  BY <1>1 DEF Compact, ListFacts, ListSummaries, Judge, MarkOne, DeleteOne, Consolidate,
              ListFresh, CleanOne, Promote, Refetch, Staged, Active
<1>3. PICK to : com' = [com EXCEPT ![k] = to]
  BY DEF Compact, ListFacts, ListSummaries, Judge, MarkOne, DeleteOne, Consolidate,
         ListFresh, CleanOne, Promote, Refetch, Move
<1>4. com'[k] = to /\ \A l \in Compactions : l # k => com'[l] = com[l]
  BY <1>1, <1>3
<1> SUFFICES Goal
  BY <1>2, <1>4
<1>5. ASSUME to = Finished PROVE Goal
  BY <1>4, <1>5 DEF Active, Finished, NoCompaction
<1>6. ASSUME to = Proceed(k) PROVE Goal
  <2>1. CASE PhaseAfter(run.at) = "over"
    BY <1>5, <1>6, <2>1 DEF Proceed
  <2>2. CASE PhaseAfter(run.at) # "over"
    <3>1. to = [run EXCEPT !.at = PhaseAfter(run.at), !.stage = "list", !.pool = {},
                           !.marks = {}, !.dups = {}, !.shaky = {}]
      BY <1>6, <2>2 DEF Proceed
    <3>2. to.sound = run.sound
      BY <1>1, <3>1 DEF Compaction
    <3> QED BY <1>4, <3>2
  <2> QED BY <2>1, <2>2
<1>7. ASSUME to.sound => run.sound PROVE Goal
  BY <1>4, <1>7
<1>8. CASE Judge(k)
  <2>1. PICK D : com'[k] \in {Proceed(k), [run EXCEPT !.stage = "mark", !.marks = D,
                               !.dups = D, !.pool = {}, !.shaky = Shaky(k, D)]}
    BY <1>1, <1>8 DEF Judge, Move
  <2>2. [run EXCEPT !.stage = "mark", !.marks = D, !.dups = D, !.pool = {},
                    !.shaky = Shaky(k, D)].sound = run.sound
    BY <1>1 DEF Compaction
  <2> QED BY <1>4, <1>6, <1>7, <2>1, <2>2
<1>9. CASE MarkOne(k)
  <2>1. PICK left, stage : com'[k] = [run EXCEPT !.marks = left, !.stage = stage]
    BY <1>1, <1>9 DEF MarkOne, Move
  <2>2. [run EXCEPT !.marks = left, !.stage = stage].sound = run.sound
    BY <1>1 DEF Compaction
  <2> QED BY <1>4, <1>7, <2>1, <2>2
<1>10. CASE DeleteOne(k)
  <2>1. PICK left : com'[k] = Proceed(k) \/ com'[k] = [run EXCEPT !.dups = left]
    BY <1>1, <1>10 DEF DeleteOne, Move
  <2>2. [run EXCEPT !.dups = left].sound = run.sound
    BY <1>1 DEF Compaction
  <2> QED BY <1>4, <1>6, <1>7, <2>1, <2>2
<1>11. CASE Consolidate(k) \/ Promote(k)
  <2>1. PICK at : com'[k] = [run EXCEPT !.at = at]
    BY <1>1, <1>11 DEF Consolidate, Promote, Move
  <2>2. [run EXCEPT !.at = at].sound = run.sound
    BY <1>1 DEF Compaction
  <2> QED BY <1>4, <1>7, <2>1, <2>2
<1>12. CASE CleanOne(k)
  <2>1. PICK doomed : com'[k] = [run EXCEPT !.doomed = doomed]
    BY <1>1, <1>12 DEF CleanOne, Move
  <2>2. [run EXCEPT !.doomed = doomed].sound = run.sound
    BY <1>1 DEF Compaction
  <2> QED BY <1>4, <1>7, <2>1, <2>2
<1>13. CASE ListFacts(k)
  <2> DEFINE To(list) == [run EXCEPT !.at = "summaries", !.facts = list,
                            !.doomed = Doomed("facts", list), !.seen = retrieved]
  <2>1. PICK list : com' = [com EXCEPT ![k] = To(list)]
    BY <1>13 DEF ListFacts, Move
  <2>2. To(list).sound = run.sound
    BY <1>1 DEF Compaction
  <2>3. com'[k] = To(list)
    BY <1>1, <2>1
  <2> HIDE DEF To
  <2> QED BY <1>4, <1>7, <2>2, <2>3
<1>14. CASE ListSummaries(k)
  <2> DEFINE many == Cardinality(run.facts) > DedupAbove
             To(list) == [run EXCEPT !.at = IF many THEN "first" ELSE "consolidate",
                            !.stage = IF many THEN "judge" ELSE "list",
                            !.pool = IF many THEN @ \cup run.facts ELSE @,
                            !.summaries = list,
                            !.doomed = @ \cup Doomed("summaries", list)]
  <2>1. PICK list : com' = [com EXCEPT ![k] = To(list)]
    BY <1>14 DEF ListSummaries, Move
  <2>2. To(list).sound = run.sound
    <3> HIDE DEF many
    <3> QED BY <1>1 DEF Compaction
  <2>3. com'[k] = To(list)
    BY <1>1, <2>1
  <2> HIDE DEF To
  <2> QED BY <1>4, <1>7, <2>2, <2>3
<1>15. CASE ListFresh(k)
  <2>1. PICK fails \in {FALSE} \cup {flaky} :
          LET list == IF fails THEN run.summaries ELSE docs["summaries"]
          IN  com' = [com EXCEPT ![k] =
                        IF Cardinality(list) <= 1 THEN [run EXCEPT !.at = "cleanup"]
                        ELSE [run EXCEPT !.stage = "judge", !.pool = list,
                                         !.shaky = (Going \cup old) \cap list,
                                         !.sound = run.sound /\ ~fails]]
    BY <1>15 DEF ListFresh, Move
  <2> DEFINE list == IF fails THEN run.summaries ELSE docs["summaries"]
             shaky == (Going \cup old) \cap list
             sound == run.sound /\ ~fails
             To == [run EXCEPT !.stage = "judge", !.pool = list, !.shaky = shaky,
                               !.sound = sound]
  <2>2. com'[k] = [run EXCEPT !.at = "cleanup"] \/ com'[k] = To
    BY <1>1, <2>1
  <2>3. [run EXCEPT !.at = "cleanup"].sound = run.sound
    BY <1>1 DEF Compaction
  <2>4. To.sound = sound
    <3> HIDE DEF sound, shaky, list
    <3> QED BY <1>1 DEF Compaction
  <2> HIDE DEF To
  <2> QED BY <1>4, <1>7, <2>2, <2>3, <2>4
<1>16. CASE Refetch(k)
  <2>1. PICK fails \in {FALSE} \cup {flaky} :
          LET list == IF fails THEN run.facts ELSE docs["facts"]
          IN  com' = [com EXCEPT ![k] =
                        IF list = {} THEN Finished
                        ELSE [run EXCEPT !.stage = "judge", !.pool = list,
                                         !.sound = run.sound /\ ~fails]]
    BY <1>16 DEF Refetch, Move
  <2> DEFINE list == IF fails THEN run.facts ELSE docs["facts"]
             sound == run.sound /\ ~fails
             To == [run EXCEPT !.stage = "judge", !.pool = list, !.sound = sound]
  <2>2. com'[k] = Finished \/ com'[k] = To
    BY <1>1, <2>1
  <2>3. To.sound = sound
    <3> HIDE DEF sound, list
    <3> QED BY <1>1 DEF Compaction
  <2> HIDE DEF To
  <2> QED BY <1>4, <1>5, <1>7, <2>2, <2>3
<1> QED BY <1>8, <1>9, <1>10, <1>11, <1>12, <1>13, <1>14, <1>15, <1>16
        DEF Compact

LEMMA KnownInit == Init => Known
<1> SUFFICES ASSUME Init PROVE Known
  OBVIOUS
<1>1. PICK seed \in Seeds :
        /\ next = seed.next /\ old = seed.old
        /\ com = [k \in Compactions |->
                    IF k \in seed.open THEN NoCompaction ELSE Finished]
  BY DEF Init
<1>2. jobs = {} /\ \A d \in old : d < next
  BY <1>1, SeedAssumption DEF Init
<1>3. \A k \in Compactions : com[k] \in {NoCompaction, Finished}
  BY <1>1
<1>4. \A run \in {NoCompaction, Finished} :
        /\ run.at \in {"idle", "over"} /\ run.stage = "list" /\ run.doomed = {}
        /\ run.pool = {} /\ run.marks = {} /\ run.dups = {} /\ run.shaky = {}
  BY DEF NoCompaction, Finished
<1>5. Alone /\ Batched /\ Covered
  BY <1>2, <1>3, <1>4 DEF Alone, Active, Batched, Covered, Going
<1>6. \A k \in Compactions :
         /\ PoolCovered(com[k]) /\ DupsCovered(com[k]) /\ FactsThere(com[k])
         /\ Emptied(com[k]) /\ DoomedAreOld(com[k])
  BY <1>3, <1>4 DEF PoolCovered, DupsCovered, FactsThere, Emptied, DoomedAreOld
<1> QED BY <1>2, <1>5, <1>6 DEF Known

LEMMA KnownStep ==
  ASSUME Inv, Known, [Next]_vars
  PROVE  Known'
<1>1. \A d \in old' : d < next'
  BY ContentsStay DEF Known, Inv, TypeOK
<1>2. Batched' /\ Covered'
  BY GoingStep, CoveredStep
<1>3. ASSUME Alone', \A k \in Compactions : RunKnown(com[k])' PROVE Known'
  BY <1>1, <1>2, <1>3 DEF Known, RunKnown
<1>4. ASSUME com' = com PROVE Known'
  <2>1. \A k \in Compactions : RunKnown(com[k])'
    BY <1>4, RunStays
  <2>2. Alone'
    BY <1>4 DEF Known, Alone, Active
  <2> QED BY <1>3, <2>1, <2>2
<1>5. ASSUME NEW k \in Compactions, Compact(k), ~ AddOne(k) PROVE Known'
  <2>1. /\ k \in Active
        /\ \A l \in Compactions : l # k => com'[l] = com[l]
        /\ k \in Active' /\ com'[k].sound => com[k].sound
    BY <1>5, SoundnessFades
  <2>2. \A l \in Compactions : l # k => RunKnown(com[l])'
    BY <2>1, RunStays
  <2>3. RunKnown(com[k])'
    BY <1>5, JudgeKnown, DeduplicationKnown, ListingKnown, OtherPhasesKnown DEF Compact
  <2>4. Alone'
    <3> SUFFICES ASSUME NEW l \in Active', com'[l].sound PROVE Active' = {l}
      BY DEF Alone
    <3>1. l \in Active /\ com[l].sound
      BY <2>1 DEF Active
    <3>2. Active = {l}
      BY <3>1 DEF Known, Alone
    <3>3. Active' \subseteq Active
      BY <2>1 DEF Active
    <3> QED BY <3>2, <3>3
  <2> QED BY <1>3, <2>2, <2>3, <2>4
<1>6. ASSUME NEW k \in Compactions, BeginCompact(k) PROVE Known'
  <2>1. /\ com[k].at = "idle"
        /\ com' = [l \in Compactions |->
                     IF l = k THEN [com[k] EXCEPT !.at = "facts", !.sound = Active = {}]
                     ELSE IF l \in Active THEN [com[l] EXCEPT !.sound = FALSE]
                     ELSE com[l]]
    BY <1>6 DEF BeginCompact
  <2>2. \A l \in Compactions : com[l] \in Compaction /\ Staged(com[l])
    BY DEF Inv, TypeOK
  <2> DEFINE sound == Active = {}
             started == [com[k] EXCEPT !.at = "facts", !.sound = sound]
             Joined(l) == [com[l] EXCEPT !.sound = FALSE]
  <2>3. /\ com'[k] = started
        /\ \A l \in Compactions : l # k => com'[l] = IF l \in Active THEN Joined(l) ELSE com[l]
    BY <2>1
  <2>4. /\ started.at = "facts" /\ started.sound = sound /\ started.stage = com[k].stage
        /\ started.pool = com[k].pool /\ started.marks = com[k].marks
        /\ started.dups = com[k].dups /\ started.shaky = com[k].shaky
        /\ started.doomed = com[k].doomed
    <3> HIDE DEF sound
    <3> QED BY <2>2 DEF Compaction
  <2>5. \A l \in Compactions :
          /\ Joined(l).at = com[l].at /\ Joined(l).sound = FALSE
          /\ Joined(l).stage = com[l].stage /\ Joined(l).pool = com[l].pool
          /\ Joined(l).marks = com[l].marks /\ Joined(l).dups = com[l].dups
          /\ Joined(l).shaky = com[l].shaky /\ Joined(l).doomed = com[l].doomed
    BY <2>2 DEF Compaction
  <2> HIDE DEF started, Joined
  <2>6. old' = old
    BY ContentsStay
  <2>7. RunKnown(com[k])'
    <3>1. com[k].stage = "list"
      BY <2>1, <2>2 DEF Staged
    <3> QED BY <2>3, <2>4, <2>6, <3>1, RestingRun DEF Known, Emptied, DoomedAreOld
  <2>8. ASSUME NEW l \in Compactions, l # k PROVE RunKnown(com[l])'
    <3>1. CASE l \notin Active
      BY <2>3, <2>8, <3>1, RunStays
    <3>2. CASE l \in Active
      <4>1. com'[l] = Joined(l)
        BY <2>3, <2>8, <3>2
      <4> QED BY <2>5, <2>6, <4>1 DEF Known, RunKnown, PoolCovered, DupsCovered,
                                      FactsThere, Emptied, DoomedAreOld
    <3> QED BY <3>1, <3>2
  <2>9. Alone'
    <3>1. \A l \in Active' \ {k} : l \in Active /\ com'[l].sound = FALSE
      BY <2>3, <2>5 DEF Active
    <3>2. com'[k].sound => Active = {}
      BY <2>3, <2>4
    <3> QED BY <3>1, <3>2 DEF Alone
  <2> QED BY <1>3, <2>7, <2>8, <2>9
<1>7. CASE Crash
  <2>1. com' = [k \in Compactions |-> IF com[k].at = "idle" THEN com[k] ELSE Finished]
    BY <1>7 DEF Crash
  <2>2. Finished.at = "over"
    BY DEF Finished, NoCompaction
  <2>3. Alone'
    BY <2>1, <2>2 DEF Alone, Active
  <2>4. ASSUME NEW k \in Compactions PROVE RunKnown(com[k])'
    <3>1. CASE com[k].at = "idle"
      BY <2>1, <3>1, RunStays
    <3>2. CASE com[k].at # "idle"
      <4>1. com'[k] = Finished
        BY <2>1, <3>2
      <4> QED BY <4>1, RestingRun DEF Finished, NoCompaction
    <3> QED BY <3>1, <3>2
  <2> QED BY <1>3, <2>3, <2>4
<1>8. ASSUME NEW r \in Retrievals, Retrieve(r) PROVE com' = com
  BY <1>8 DEF Retrieve, SearchFacts, SearchSummaries, Find, WriteBack, Return
<1>9. ASSUME NEW x, AddOne(x) PROVE com' = com
  BY <1>9 DEF AddOne, CheckDuplicate, AddFact
<1>10. ASSUME NEW w \in Writers, Write(w) PROVE com' = com
  BY <1>10 DEF Write, Extract, Summarize, Reflect, StoreFact, Store
<1>11. ASSUME NEW j \in jobs, Consolidation(j) PROVE com' = com
  BY <1>11 DEF Consolidation, JobGenerates, JobAdds, JobDeletes
<1>12. CASE UNCHANGED vars
  BY <1>4, <1>12 DEF vars
<1> QED BY <1>4, <1>5, <1>6, <1>7, <1>8, <1>9, <1>10, <1>11, <1>12 DEF Next

LEMMA KnownHolds == Spec => []Known
<1>1. Inv /\ Known /\ [Next]_vars => Known'
  BY KnownStep
<1> QED BY Invariance, KnownInit, <1>1, PTL DEF Spec

\* A topic goes out of sight only by cleanup, after a crash between marking and
\* deleting, or where a judgment or a lost consolidation had put it at risk.
THEOREM KnowledgeIsKept == Spec => KnowledgeKept
<1>1. Inv /\ Known /\ [Next]_vars =>
        [\A c \in Collection, t \in Topic :
           VisibleIn(c, t) /\ ~VisibleIn(c, t)' =>
              (\E k \in Compactions : CleanOne(k)) \/ t \in atRisk' \/ residue]_vars
  <2> SUFFICES ASSUME Inv, Known, [Next]_vars, NEW c \in Collection, NEW t \in Topic,
                      VisibleIn(c, t), ~ VisibleIn(c, t)', ~ residue,
                      ~ \E k \in Compactions : CleanOne(k)
               PROVE  t \in atRisk'
    OBVIOUS
  <2>1. ASSUME NEW e \in docs[c] \ marked[c], t \in says[e],
               c = "summaries" => e \notin Going
        PROVE  t \in atRisk'
    <3>1. ASSUME NEW w \in docs[c], w \in docs'[c] \ marked'[c], t \in says[w]
          PROVE  FALSE
      <4>1. w \in Doc /\ w < next
        BY DEF Inv, TypeOK, Filed
      <4>2. says'[w] = says[w]
        BY <4>1, ContentsStay
      <4> QED BY <3>1, <4>2 DEF VisibleIn
    <3> QED BY <2>1, <3>1, OpenStep DEF Cleaned
  <2>2. PICK e \in docs[c] \ marked[c] : t \in says[e]
    BY DEF VisibleIn
  <2>3. CASE c = "summaries" /\ e \in Going
    <3>1. t \in atRisk \/ Told("summaries", t, marked["summaries"])
      BY <2>2, <2>3 DEF Known, Covered
    <3> QED BY <2>1, <2>3, <3>1, RisksStay DEF Told, Endures
  <2> QED BY <2>1, <2>2, <2>3
<1> QED BY Invariance, KnownHolds, <1>1, PTL DEF Spec, KnowledgeKept

=============================================================================
