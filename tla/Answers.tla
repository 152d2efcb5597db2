------------------------------- MODULE Answers -------------------------------
(***************************************************************************)
(* Answers of llm-service and their cache in Valkey while documents are      *)
(* being indexed.  An answer is stored under the corpus epoch its query read *)
(* first; the events consumer of main-service counts the epochs up when a    *)
(* document is indexed and then tells its owner.                            *)
(*                                                                         *)
(* There is one question; other questions and other document filters have   *)
(* other keys.  Evidence is what a search looked at, not what it ranked      *)
(* high enough to be cited.  A document that is indexed again counts as      *)
(* another document.  The gauge of active queries and the chunks an agentic  *)
(* query takes from the graph are left out.                                  *)
(***************************************************************************)
EXTENDS Naturals, FiniteSets

CONSTANTS Docs,
          Owners,
          OwnerOf,  \* OwnerOf[d]: the owner of document d
          Queries,  \* each is asked once
          Agentic,  \* the queries the gate escalates
          MaxHops,  \* searches of an agentic query
          MaxLapses, \* bound: scopes whose epoch is lost
          Shared    \* the scope of the shared corpus, no owner

ASSUME AnswersAssumption ==
    /\ OwnerOf \in [Docs -> Owners]
    /\ Agentic \subseteq Queries
    /\ MaxHops \in Nat \ {0} /\ MaxLapses \in Nat
    /\ Shared \notin Owners

VARIABLES sharedCorpus, \* RAG_SHARED_CORPUS: one scope for all owners
          stage,        \* stage[d]: how far document d has come
          searchable,   \* what the lexical index has refreshed
          epoch,        \* epoch[s]: rag:corpus_epoch of scope s, 0 if unset
          cache,        \* answers, at most one under a key
          asker,        \* asker[q]: the owner who asks q
          pc, key, hop, degraded,
          evidence,     \* evidence[q]: what q has searched or was served
          \* What happened, for the properties only:
          mark,         \* mark[d][s]: the epoch of s after d was counted, or 0
          late,         \* documents counted before they were searchable
          lapsed,       \* scopes whose epoch Valkey has lost
          owed          \* owed[q]: documents announced before q was asked that
                        \* q has no excuse to miss

corpus  == <<stage, searchable, epoch, mark, late, lapsed>>
answers == <<cache, asker, pc, key, hop, degraded, evidence, owed>>
vars == <<sharedCorpus, stage, searchable, epoch, mark, late, lapsed,
          cache, asker, pc, key, hop, degraded, evidence, owed>>

Scopes == Owners \cup {Shared}
Stages == {"new", "upserted", "stored", "shared", "owned", "announced"}
Keys   == Scopes \X Nat
Evidence == [dense : SUBSET Docs, lexical : SUBSET Docs]
Nothing == [dense |-> {}, lexical |-> {}]
Phases == {"idle", "asked", "keyed", "embed", "dense", "lexical", "rank",
           "conclude", "finish", "answered", "failed"}

\* The documents the vector store and the lexical index hold.
Upserted == {d \in Docs : stage[d] # "new"}
Bulked   == {d \in Docs : stage[d] \notin {"new", "upserted"}}

TypeOK ==
    /\ sharedCorpus \in BOOLEAN
    /\ stage \in [Docs -> Stages]
    /\ searchable \subseteq Docs
    /\ epoch \in [Scopes -> Nat]
    /\ cache \subseteq [key : Keys, evidence : Evidence]
    /\ asker \in [Queries -> Owners]
    /\ pc \in [Queries -> Phases]
    /\ key \in [Queries -> Keys]
    /\ hop \in [Queries -> 1..MaxHops]
    /\ degraded \in [Queries -> BOOLEAN]
    /\ evidence \in [Queries -> Evidence]
    /\ mark \in [Docs -> [Scopes -> Nat]]
    /\ late \subseteq Docs /\ lapsed \subseteq Scopes
    /\ owed \in [Queries -> SUBSET Docs]

Init ==
    /\ sharedCorpus \in BOOLEAN
    /\ stage = [d \in Docs |-> "new"]
    /\ searchable = {}
    /\ epoch = [s \in Scopes |-> 0]
    /\ cache = {}
    /\ asker \in [Queries -> Owners]
    /\ pc = [q \in Queries |-> "idle"]
    /\ key = [q \in Queries |-> <<Shared, 0>>]
    /\ hop = [q \in Queries |-> 1]
    /\ degraded = [q \in Queries |-> FALSE]
    /\ evidence = [q \in Queries |-> Nothing]
    /\ mark = [d \in Docs |-> [s \in Scopes |-> 0]]
    /\ late = {} /\ lapsed = {}
    /\ owed = [q \in Queries |-> {}]

-----------------------------------------------------------------------------
(* chunk-splitter, the search index and main-service.                        *)

Moves(d, from, to) == stage[d] = from /\ stage' = [stage EXCEPT ![d] = to]

\* The vectors of a document are written, and applied at once ...
Upsert(d) ==
    /\ Moves(d, "new", "upserted")
    /\ UNCHANGED <<sharedCorpus, searchable, epoch, mark, late, lapsed, answers>>

\* ... then the lexical index accepts its texts and the event of an indexed
\* document is sent; one that is lost is one that is never taken.
Bulk(d) ==
    /\ Moves(d, "upserted", "stored")
    /\ UNCHANGED <<sharedCorpus, searchable, epoch, mark, late, lapsed, answers>>

\* Every refresh_interval what the lexical index holds becomes searchable.
Refresh ==
    /\ searchable' = Bulked
    /\ UNCHANGED <<sharedCorpus, stage, epoch, mark, late, lapsed, answers>>

\* IncrTTL of a scope's epoch for document d; an error is dropped.
Count(d, s) ==
    \/ /\ epoch' = [epoch EXCEPT ![s] = @ + 1]
       /\ mark' = [mark EXCEPT ![d][s] = epoch[s] + 1]
       /\ late' = IF d \in searchable THEN late ELSE late \cup {d}
    \/ UNCHANGED <<epoch, mark, late>>

\* The one consumer takes the next event and counts the shared corpus up ...
CountShared(d) ==
    /\ \A other \in Docs : stage[other] \notin {"shared", "owned"}
    /\ Moves(d, "stored", "shared")
    /\ Count(d, Shared)
    /\ UNCHANGED <<sharedCorpus, searchable, lapsed, answers>>

\* ... and that of the document's owner, ...
CountOwner(d) ==
    /\ Moves(d, "shared", "owned")
    /\ Count(d, OwnerOf[d])
    /\ UNCHANGED <<sharedCorpus, searchable, lapsed, answers>>

\* ... before it tells the owner's sockets.
Announce(d) ==
    /\ Moves(d, "owned", "announced")
    /\ UNCHANGED <<sharedCorpus, searchable, epoch, mark, late, lapsed, answers>>

\* The epoch of a scope expires, thirty days after it was last counted up.
Lapse(s) ==
    /\ epoch[s] > 0 /\ Cardinality(lapsed) < MaxLapses
    /\ epoch' = [epoch EXCEPT ![s] = 0]
    /\ lapsed' = lapsed \cup {s}
    /\ UNCHANGED <<sharedCorpus, stage, searchable, mark, late, answers>>

-----------------------------------------------------------------------------
(* llm-service.                                                              *)

Scope(q) == IF sharedCorpus THEN Shared ELSE asker[q]

Filtered(s, docs) == {d \in docs : s = Shared \/ OwnerOf[d] = s}

Goes(q, from, to) == pc[q] = from /\ pc' = [pc EXCEPT ![q] = to]

\* The owner has been told of the documents that were announced and counted.
Told(s) == {d \in Filtered(s, Docs) : stage[d] = "announced" /\ mark[d][s] > 0}

Ask(q) ==
    /\ Goes(q, "idle", "asked")
    /\ owed' = [owed EXCEPT ![q] = IF Scope(q) \in lapsed THEN {} ELSE Told(Scope(q))]
    /\ UNCHANGED <<sharedCorpus, corpus, asker, cache, key, hop, degraded, evidence>>

\* Mutant: the key forgets who asks.
KeyOfAnybody(q, e) == <<Shared, e>>

CacheKey(q, e) == <<Scope(q), e>>

\* The epoch is read first; 0 stands for one that is unset or unreadable.
ReadEpoch(q) ==
    /\ Goes(q, "asked", "keyed")
    /\ \/ /\ key' = [key EXCEPT ![q] = CacheKey(q, epoch[Scope(q)])]
          /\ UNCHANGED owed
       \/ /\ key' = [key EXCEPT ![q] = CacheKey(q, 0)]
          /\ owed' = [owed EXCEPT ![q] = {}]
    /\ UNCHANGED <<sharedCorpus, corpus, asker, cache, hop, degraded, evidence>>

\* cachedAnswer: a hit is the answer; a miss or an error starts the search.
LookUp(q) ==
    /\ \/ \E a \in cache : /\ a.key = key[q]
                           /\ Goes(q, "keyed", "answered")
                           /\ evidence' = [evidence EXCEPT ![q] = a.evidence]
       \/ Goes(q, "keyed", "embed") /\ UNCHANGED evidence
    /\ UNCHANGED <<sharedCorpus, corpus, asker, cache, key, hop, degraded, owed>>

\* Without an embedding a plain query searches the lexical index only; an
\* agentic query fails.
Embed(q) ==
    /\ \/ Goes(q, "embed", "dense") /\ UNCHANGED degraded
       \/ q \in Agentic /\ Goes(q, "embed", "failed") /\ UNCHANGED degraded
       \/ /\ q \notin Agentic
          /\ Goes(q, "embed", "lexical")
          /\ degraded' = [degraded EXCEPT ![q] = TRUE]
    /\ UNCHANGED <<sharedCorpus, corpus, asker, cache, key, hop, evidence, owed>>

\* One leg of the retrieval sees all its store holds in the scope, or fails and
\* contributes nothing.
Search(q, docs, leg) ==
    \/ /\ evidence' = [evidence EXCEPT ![q][leg] = @ \cup Filtered(Scope(q), docs)]
       /\ UNCHANGED degraded
    \/ degraded' = [degraded EXCEPT ![q] = TRUE] /\ UNCHANGED evidence

SearchDense(q) ==
    /\ Goes(q, "dense", "lexical")
    /\ Search(q, Upserted, "dense")
    /\ UNCHANGED <<sharedCorpus, corpus, asker, cache, key, hop, owed>>

SearchLexical(q) ==
    /\ Goes(q, "lexical", "rank")
    /\ Search(q, searchable, "lexical")
    /\ UNCHANGED <<sharedCorpus, corpus, asker, cache, key, hop, owed>>

\* Mutant: one search too many.
RankOnceMore(q) ==
    /\ degraded' = [degraded EXCEPT ![q] = TRUE] \/ UNCHANGED degraded
    /\ \/ Goes(q, "rank", "conclude") /\ UNCHANGED hop
       \/ /\ q \in Agentic /\ hop[q] <= MaxHops
          /\ Goes(q, "rank", "embed")
          /\ hop' = [hop EXCEPT ![q] = @ + 1]
    /\ UNCHANGED <<sharedCorpus, corpus, asker, cache, key, evidence, owed>>

\* A reranker that fails leaves the order of the fusion.  The reasoner of an
\* agentic query may ask for one more search.
Rank(q) ==
    /\ degraded' = [degraded EXCEPT ![q] = TRUE] \/ UNCHANGED degraded
    /\ \/ Goes(q, "rank", "conclude") /\ UNCHANGED hop
       \/ /\ q \in Agentic /\ hop[q] < MaxHops
          /\ Goes(q, "rank", "embed")
          /\ hop' = [hop EXCEPT ![q] = @ + 1]
    /\ UNCHANGED <<sharedCorpus, corpus, asker, cache, key, evidence, owed>>

\* The service abstains or generates an answer.  A plain query whose generation
\* fails is answered with extracts, which are not stored; one with its own
\* prompt and an agentic one fail.
Conclude(q) ==
    /\ \/ Goes(q, "conclude", "finish")
       \/ evidence[q] # Nothing /\ q \notin Agentic /\ Goes(q, "conclude", "answered")
       \/ evidence[q] # Nothing /\ Goes(q, "conclude", "failed")
    /\ UNCHANGED <<sharedCorpus, corpus, asker, cache, key, hop, degraded, evidence, owed>>

Stored(k, e) == {a \in cache : a.key # k} \cup {[key |-> k, evidence |-> e]}

\* Mutant: the epoch is read when the answer is stored.
CacheResultNow(q) ==
    /\ Goes(q, "finish", "answered")
    /\ \/ ~degraded[q] /\ cache' = Stored(CacheKey(q, epoch[Scope(q)]), evidence[q])
       \/ UNCHANGED cache
    /\ UNCHANGED <<sharedCorpus, corpus, asker, key, hop, degraded, evidence, owed>>

\* cacheResult: no answer of a degraded run is stored; a failed Set is dropped.
CacheResult(q) ==
    /\ Goes(q, "finish", "answered")
    /\ \/ ~degraded[q] /\ cache' = Stored(key[q], evidence[q])
       \/ UNCHANGED cache
    /\ UNCHANGED <<sharedCorpus, corpus, asker, key, hop, degraded, evidence, owed>>

\* An answer expires.
Expire ==
    /\ \E a \in cache : cache' = cache \ {a}
    /\ UNCHANGED <<sharedCorpus, corpus, asker, pc, key, hop, degraded, evidence, owed>>

-----------------------------------------------------------------------------
Answer(q) == \/ ReadEpoch(q) \/ LookUp(q) \/ Embed(q) \/ SearchDense(q)
             \/ SearchLexical(q) \/ Rank(q) \/ Conclude(q) \/ CacheResult(q)

Next == \/ \E d \in Docs : \/ Upsert(d) \/ Bulk(d)
                           \/ CountShared(d) \/ CountOwner(d) \/ Announce(d)
        \/ Refresh \/ Expire
        \/ \E s \in Scopes : Lapse(s)
        \/ \E q \in Queries : Ask(q) \/ Answer(q)

Spec == Init /\ [][Next]_vars

-----------------------------------------------------------------------------
(* Properties.                                                               *)

\* Who was told that a document is indexed and asks afterwards is not answered
\* from before: its vectors were searched, and its texts too unless the event
\* overtook the refresh of the lexical index.  Left out are epochs Valkey lost,
\* or failed to count or to read, and answers of degraded searches, which only
\* their asker gets.
AnnouncedIsSeen ==
    \A q \in Queries : pc[q] = "answered" /\ ~degraded[q] /\ Scope(q) \notin lapsed =>
       /\ owed[q] \subseteq evidence[q].dense
       /\ owed[q] \ late \subseteq evidence[q].lexical

\* Unless the corpus is shared, nobody is answered from another owner's
\* documents, by a search or through the cache.
AnswersStayInScope ==
    \A q \in Queries : ~sharedCorpus =>
       \A d \in evidence[q].dense \cup evidence[q].lexical : OwnerOf[d] = asker[q]
=============================================================================
