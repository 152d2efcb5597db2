---------------------------- MODULE AnswersProofs ----------------------------
(***************************************************************************)
(* Proofs about Answers for any documents, owners and queries and any        *)
(* number of lost epochs: the type invariant, that announced documents are   *)
(* seen and that answers stay in their scope.                               *)
(***************************************************************************)
EXTENDS Answers, TLAPS

-----------------------------------------------------------------------------
(* Type correctness.                                                         *)

(* The steps outside llm-service keep the types.                             *)
LEMMA CorpusType ==
    ASSUME TypeOK,
           \/ \E d \in Docs : \/ Upsert(d) \/ Bulk(d) \/ CountShared(d)
                              \/ CountOwner(d) \/ Announce(d)
           \/ Refresh
           \/ \E s \in Scopes : Lapse(s)
    PROVE  TypeOK'
  <1>1. ASSUME NEW d \in Docs, NEW t \in Stages, NEW f, Moves(d, f, t)
        PROVE  stage' \in [Docs -> Stages]
    BY <1>1 DEF TypeOK, Moves
  <1>2. ASSUME NEW d \in Docs, NEW s \in Scopes, Count(d, s)
        PROVE  /\ epoch' \in [Scopes -> Nat]
               /\ mark' \in [Docs -> [Scopes -> Nat]]
               /\ late' \subseteq Docs
    <2>1. CASE UNCHANGED <<epoch, mark, late>>
      BY <2>1 DEF TypeOK
    <2>2. CASE ~UNCHANGED <<epoch, mark, late>>
      <3>1. epoch[s] \in Nat /\ epoch[s] + 1 \in Nat
        BY DEF TypeOK
      <3> QED BY <1>2, <2>2, <3>1 DEF Count, TypeOK
    <2> QED BY <2>1, <2>2
  <1>3. ASSUME NEW d \in Docs, Upsert(d) \/ Bulk(d) \/ Announce(d) PROVE TypeOK'
    <2>1. stage' \in [Docs -> Stages]
      BY <1>1, <1>3 DEF Upsert, Bulk, Announce, Stages
    <2> QED BY <1>3, <2>1 DEF Upsert, Bulk, Announce, TypeOK, answers
  <1>4. ASSUME NEW d \in Docs, CountShared(d) \/ CountOwner(d) PROVE TypeOK'
    <2>1. stage' \in [Docs -> Stages]
      BY <1>1, <1>4 DEF CountShared, CountOwner, Stages
    <2>2. Shared \in Scopes /\ OwnerOf[d] \in Scopes
      BY AnswersAssumption DEF Scopes
    <2>3. /\ epoch' \in [Scopes -> Nat]
          /\ mark' \in [Docs -> [Scopes -> Nat]]
          /\ late' \subseteq Docs
      BY <1>2, <1>4, <2>2 DEF CountShared, CountOwner
    <2> QED BY <1>4, <2>1, <2>3 DEF CountShared, CountOwner, TypeOK, answers
  <1>5. ASSUME Refresh PROVE TypeOK'
    BY <1>5 DEF Refresh, TypeOK, answers, Bulked
  <1>6. ASSUME NEW s \in Scopes, Lapse(s) PROVE TypeOK'
    BY <1>6 DEF Lapse, TypeOK, answers
  <1> QED BY <1>3, <1>4, <1>5, <1>6

(* What a leg adds to the evidence of a query is evidence.                   *)
LEMMA SearchType ==
    ASSUME TypeOK, NEW q \in Queries, NEW docs \in SUBSET Docs,
           NEW leg \in {"dense", "lexical"}, Search(q, docs, leg)
    PROVE  evidence' \in [Queries -> Evidence] /\ degraded' \in [Queries -> BOOLEAN]
  <1>1. Filtered(Scope(q), docs) \subseteq Docs
    BY DEF Filtered
  <1>2. evidence[q] \in Evidence
    BY DEF TypeOK
  <1>3. CASE evidence' = [evidence EXCEPT ![q][leg] = @ \cup Filtered(Scope(q), docs)]
    <2>1. [evidence[q] EXCEPT ![leg] = @ \cup Filtered(Scope(q), docs)] \in Evidence
      BY <1>1, <1>2 DEF Evidence
    <2> QED BY <1>3, <2>1 DEF Search, TypeOK
  <1>4. CASE UNCHANGED evidence
    BY <1>4 DEF Search, TypeOK
  <1> QED BY <1>3, <1>4 DEF Search

(* So do the steps of a query.                                               *)
LEMMA QueryType ==
    ASSUME TypeOK, NEW q \in Queries, Ask(q) \/ Answer(q) PROVE TypeOK'
  <1> USE DEF corpus
  <1>0. /\ Scope(q) \in Scopes
        /\ \A f, t : t \in Phases /\ Goes(q, f, t) => pc' \in [Queries -> Phases]
    BY DEF Scope, Scopes, TypeOK, Goes
  <1>1. CASE Ask(q)
    <2>1. Told(Scope(q)) \subseteq Docs
      BY DEF Told, Filtered
    <2> QED BY <1>0, <1>1, <2>1 DEF Ask, TypeOK, Phases
  <1>2. CASE ReadEpoch(q)
    <2>1. \A e \in Nat : CacheKey(q, e) \in Keys
      BY <1>0 DEF CacheKey, Keys
    <2>2. epoch[Scope(q)] \in Nat
      BY <1>0 DEF TypeOK
    <2>3. key' \in [Queries -> Keys]
      <3>1. PICK e \in Nat : key' = [key EXCEPT ![q] = CacheKey(q, e)]
        BY <1>2, <2>2 DEF ReadEpoch
      <3> QED BY <2>1, <3>1 DEF TypeOK
    <2>5. owed' \in [Queries -> SUBSET Docs]
      BY <1>2 DEF ReadEpoch, TypeOK
    <2>4. pc' \in [Queries -> Phases]
      BY <1>0, <1>2 DEF ReadEpoch, Phases
    <2> QED BY <1>2, <2>3, <2>4, <2>5 DEF ReadEpoch, TypeOK
  <1>3. CASE LookUp(q)
    <2>1. \A a \in cache : a.evidence \in Evidence
      BY DEF TypeOK
    <2>2. pc' \in [Queries -> Phases]
      BY <1>0, <1>3 DEF LookUp, Phases
    <2> QED BY <1>3, <2>1, <2>2 DEF LookUp, TypeOK
  <1>4. CASE Embed(q)
    BY <1>0, <1>4 DEF Embed, TypeOK, Phases
  <1>5. CASE SearchDense(q)
    <2>1. Upserted \in SUBSET Docs
      BY DEF Upserted
    <2> QED BY <1>0, <1>5, <2>1, SearchType DEF SearchDense, TypeOK, Phases
  <1>6. CASE SearchLexical(q)
    <2>1. searchable \in SUBSET Docs
      BY DEF TypeOK
    <2> QED BY <1>0, <1>6, <2>1, SearchType DEF SearchLexical, TypeOK, Phases
  <1>7. CASE Rank(q)
    <2>1. hop' \in [Queries -> 1..MaxHops]
      BY <1>7, AnswersAssumption DEF Rank, TypeOK
    <2>2. degraded' \in [Queries -> BOOLEAN]
      BY <1>7 DEF Rank, TypeOK
    <2>3. pc' \in [Queries -> Phases]
      BY <1>0, <1>7 DEF Rank, Phases
    <2> QED BY <1>7, <2>1, <2>2, <2>3 DEF Rank, TypeOK
  <1>8. CASE Conclude(q)
    BY <1>0, <1>8 DEF Conclude, TypeOK, Phases
  <1>9. CASE CacheResult(q)
    <2>1. [key |-> key[q], evidence |-> evidence[q]] \in [key : Keys, evidence : Evidence]
      BY DEF TypeOK
    <2>2. Stored(key[q], evidence[q]) \subseteq [key : Keys, evidence : Evidence]
      BY <2>1 DEF Stored, TypeOK
    <2> QED BY <1>0, <1>9, <2>2 DEF CacheResult, TypeOK, Phases
  <1> QED BY <1>1, <1>2, <1>3, <1>4, <1>5, <1>6, <1>7, <1>8, <1>9 DEF Answer

LEMMA TypeStep == ASSUME TypeOK, [Next]_vars PROVE TypeOK'
  <1>1. CASE Expire
    BY <1>1 DEF Expire, TypeOK, corpus
  <1>2. CASE UNCHANGED vars
    BY <1>2 DEF vars, TypeOK
  <1> QED BY <1>1, <1>2, CorpusType, QueryType DEF Next

(* All state has its type in every reachable state.                          *)
THEOREM TypeCorrect == Spec => []TypeOK
  <1>1. Init => TypeOK
    BY AnswersAssumption
    DEF Init, TypeOK, Stages, Scopes, Phases, Keys, Evidence, Nothing
  <1> QED BY <1>1, TypeStep, PTL DEF Spec

-----------------------------------------------------------------------------
(* What announced documents oblige a query to.                               *)

\* The documents counted in the scope at or before epoch n.
CountedBy(s, n) == {d \in Filtered(s, Docs) : mark[d][s] > 0 /\ mark[d][s] <= n}

\* Evidence e leaves none of them out, but for texts not yet searchable.
SeesDense(e, s, n)   == CountedBy(s, n) \subseteq e.dense
SeesLexical(e, s, n) == CountedBy(s, n) \ late \subseteq e.lexical

\* Epochs only grow, and what was counted is in the stores.
Marked ==
    \A d \in Docs, s \in Scopes :
       /\ s \notin lapsed => mark[d][s] <= epoch[s]
       /\ mark[d][s] > 0 => /\ stage[d] \in {"shared", "owned", "announced"}
                            /\ d \in late \/ d \in searchable

\* An answer of the cache saw what had been counted at its epoch.
Current ==
    \A a \in cache : a.key[1] \notin lapsed =>
       /\ a.key[2] <= epoch[a.key[1]]
       /\ SeesDense(a.evidence, a.key[1], a.key[2])
       /\ SeesLexical(a.evidence, a.key[1], a.key[2])

\* So does a query that has searched without failures.
Searched(q) ==
    ~degraded[q] =>
       /\ pc[q] \in {"lexical", "rank", "conclude", "finish"} =>
             SeesDense(evidence[q], key[q][1], key[q][2])
       /\ pc[q] \in {"rank", "conclude", "finish"} =>
             SeesLexical(evidence[q], key[q][1], key[q][2])

\* What a query owes had been counted at the epoch it read.
Owes(q) ==
    /\ \A d \in owed[q] : stage[d] = "announced" /\ mark[d][Scope(q)] > 0
    /\ owed[q] \subseteq Filtered(Scope(q), Docs)
    /\ pc[q] \notin {"idle", "asked"} =>
          /\ key[q][1] = Scope(q)
          /\ Scope(q) \notin lapsed => key[q][2] <= epoch[Scope(q)]
          /\ Scope(q) \notin lapsed => owed[q] \subseteq CountedBy(Scope(q), key[q][2])

Seen(q) ==
    pc[q] = "answered" /\ ~degraded[q] /\ Scope(q) \notin lapsed =>
       /\ owed[q] \subseteq evidence[q].dense
       /\ owed[q] \ late \subseteq evidence[q].lexical

Pursued(q) == (Scope(q) \notin lapsed => Searched(q)) /\ Owes(q) /\ Seen(q)

SeenInv == TypeOK /\ Marked /\ Current /\ \A q \in Queries : Pursued(q)

-----------------------------------------------------------------------------
\* What the steps outside llm-service have in common.
Grows ==
    /\ UNCHANGED <<sharedCorpus, answers>>
    /\ late \subseteq late' /\ lapsed \subseteq lapsed'
    /\ \A s \in Scopes \ lapsed' : epoch[s] <= epoch'[s]
    /\ \A d \in Docs : stage[d] = "announced" => stage'[d] = "announced"
    /\ \A d \in Docs, s \in Scopes :
          \/ mark'[d][s] = mark[d][s]
          \/ mark'[d][s] = epoch[s] + 1 /\ stage[d] # "announced"

(* Counting takes the epoch beyond the answers and queries there are.        *)
LEMMA GrowsKeepsCounted ==
    ASSUME TypeOK, TypeOK', Grows, NEW s \in Scopes, NEW n \in Nat,
           n <= epoch[s]
    PROVE  CountedBy(s, n)' \subseteq CountedBy(s, n)
  <1> SUFFICES ASSUME NEW d \in Docs, mark'[d][s] > 0, mark'[d][s] <= n
               PROVE  mark[d][s] > 0 /\ mark[d][s] <= n
    BY DEF CountedBy, Filtered
  <1>1. mark[d][s] \in Nat /\ epoch[s] \in Nat
    BY DEF TypeOK
  <1>2. mark'[d][s] # epoch[s] + 1
    BY <1>1
  <1>3. mark'[d][s] = mark[d][s]
    BY <1>2 DEF Grows
  <1> QED BY <1>3

LEMMA GrowsKeepsSight ==
    ASSUME TypeOK, TypeOK', Grows, NEW s \in Scopes, NEW n \in Nat, n <= epoch[s], NEW e
    PROVE  /\ SeesDense(e, s, n) => SeesDense(e, s, n)'
           /\ SeesLexical(e, s, n) => SeesLexical(e, s, n)'
  <1>1. CountedBy(s, n)' \subseteq CountedBy(s, n) /\ late \subseteq late'
    BY GrowsKeepsCounted DEF Grows
  <1> QED BY <1>1 DEF SeesDense, SeesLexical

(* So the answers and queries of scopes that are not lost keep what they     *)
(* know.                                                                     *)
LEMMA GrowsKeeps ==
    ASSUME SeenInv, TypeOK', Grows
    PROVE  Current' /\ \A q \in Queries : Pursued(q)'
  <1> USE DEF SeenInv
  <1>0. /\ cache' = cache /\ asker' = asker /\ pc' = pc /\ key' = key
        /\ degraded' = degraded /\ evidence' = evidence /\ owed' = owed
        /\ sharedCorpus' = sharedCorpus
    BY DEF Grows, answers
  <1>1. Current'
    <2> SUFFICES ASSUME NEW a \in cache, a.key[1] \notin lapsed'
                 PROVE  /\ a.key[2] <= epoch'[a.key[1]]
                        /\ SeesDense(a.evidence, a.key[1], a.key[2])'
                        /\ SeesLexical(a.evidence, a.key[1], a.key[2])'
      BY <1>0 DEF Current
    <2>1. a.key[1] \in Scopes /\ a.key[2] \in Nat
      BY DEF TypeOK, Keys
    <2>2. a.key[1] \notin lapsed
      BY DEF Grows
    <2>3. epoch[a.key[1]] <= epoch'[a.key[1]]
      BY <2>1 DEF Grows
    <2>4. a.key[2] <= epoch'[a.key[1]]
      BY <2>1, <2>2, <2>3 DEF Current, TypeOK
    <2> QED BY <2>1, <2>2, <2>4, GrowsKeepsSight DEF Current
  <1>2. ASSUME NEW q \in Queries PROVE Pursued(q)'
    <2>1. Scope(q)' = Scope(q) /\ Scope(q) \in Scopes /\ key[q] \in Scopes \X Nat
      BY <1>0 DEF Scope, Scopes, TypeOK, Keys
    <2>2. key[q][1] \in Scopes /\ key[q][2] \in Nat /\ lapsed \subseteq lapsed'
      BY <2>1 DEF Grows
    <2>3. Owes(q)'
      <3>1. \A d \in owed[q] : d \in Docs /\ stage'[d] = "announced"
                               /\ mark'[d][Scope(q)] = mark[d][Scope(q)]
        BY <2>1 DEF Pursued, Owes, Grows, TypeOK
      <3>2. owed'[q] \subseteq Filtered(Scope(q), Docs)'
        BY <1>0, <2>1 DEF Pursued, Owes, Filtered
      <3>3. ASSUME pc[q] \notin {"idle", "asked"}, Scope(q) \notin lapsed'
            PROVE  /\ key[q][2] <= epoch'[Scope(q)]
                   /\ owed[q] \subseteq CountedBy(Scope(q), key[q][2])'
        <4>1. key[q][2] <= epoch[Scope(q)] /\ owed[q] \subseteq CountedBy(Scope(q), key[q][2])
          BY <2>2, <3>3 DEF Pursued, Owes
        <4>2. epoch[Scope(q)] <= epoch'[Scope(q)]
          BY <2>1, <3>3 DEF Grows
        <4>3. key[q][2] <= epoch'[Scope(q)]
          BY <2>1, <2>2, <4>1, <4>2 DEF TypeOK
        <4> QED BY <1>0, <2>1, <3>1, <4>1, <4>3 DEF CountedBy, Filtered
      <3> QED BY <1>0, <2>1, <3>1, <3>2, <3>3 DEF Owes, Pursued
    <2>4. ASSUME Scope(q) \notin lapsed' PROVE Searched(q)'
      <3>1. Searched(q) /\ Scope(q) \notin lapsed
        BY <2>2, <2>4 DEF Pursued
      <3>2. ASSUME pc[q] \in {"lexical", "rank", "conclude", "finish"}
            PROVE  key[q][2] <= epoch[key[q][1]]
        BY <3>1, <3>2 DEF Pursued, Owes
      <3> QED BY <1>0, <2>2, <3>1, <3>2, GrowsKeepsSight DEF Searched
    <2>5. Seen(q)'
      BY <1>0, <2>1, <2>2 DEF Pursued, Seen, Grows
    <2> QED BY <2>1, <2>3, <2>4, <2>5 DEF Pursued
  <1> QED BY <1>1, <1>2

(* The steps outside llm-service grow, and keep the marks.                   *)
LEMMA CorpusGrows ==
    ASSUME TypeOK, TypeOK', Marked,
           \/ \E d \in Docs : \/ Upsert(d) \/ Bulk(d) \/ CountShared(d)
                              \/ CountOwner(d) \/ Announce(d)
           \/ Refresh
           \/ \E s \in Scopes : Lapse(s)
    PROVE  Grows /\ Marked'
  <1>0. /\ \A s \in Scopes : epoch[s] \in Nat /\ epoch[s] <= epoch[s]
        /\ \A d \in Docs, s \in Scopes : mark[d][s] \in Nat
    BY DEF TypeOK
  <1> DEFINE Later == {"shared", "owned", "announced"}
  <1>a. ASSUME NEW d \in Docs, NEW f, NEW t, Moves(d, f, t), f # "announced",
               f \in Later => t \in Later
        PROVE  \A i \in Docs : /\ stage[i] = "announced" => stage'[i] = "announced"
                               /\ stage[i] \in Later => stage'[i] \in Later
                               /\ i = d => stage'[i] = t /\ stage[i] = f
    <2> SUFFICES ASSUME NEW i \in Docs
                 PROVE  /\ stage[i] = "announced" => stage'[i] = "announced"
                        /\ stage[i] \in Later => stage'[i] \in Later
                        /\ i = d => stage'[i] = t /\ stage[i] = f
      OBVIOUS
    <2>1. CASE i = d
      BY <1>a, <2>1 DEF Moves, TypeOK
    <2>2. CASE i # d
      BY <1>a, <2>2 DEF Moves, TypeOK
    <2> QED BY <2>1, <2>2
  <1>1. ASSUME NEW d \in Docs, Upsert(d) \/ Bulk(d) \/ Announce(d)
        PROVE  Grows /\ Marked'
    <2>1. UNCHANGED <<sharedCorpus, searchable, epoch, mark, late, lapsed, answers>>
      BY <1>1 DEF Upsert, Bulk, Announce
    <2>2. \A i \in Docs : /\ stage[i] = "announced" => stage'[i] = "announced"
                          /\ stage[i] \in Later => stage'[i] \in Later
      BY <1>1, <1>a DEF Upsert, Bulk, Announce
    <2> QED BY <1>0, <2>1, <2>2 DEF Grows, Marked
  <1>2. ASSUME NEW d \in Docs, NEW s \in Scopes, Count(d, s), NEW f \in {"stored", "shared"},
               NEW t \in {"shared", "owned"}, Moves(d, f, t),
               UNCHANGED <<sharedCorpus, searchable, lapsed, answers>>
        PROVE  Grows /\ Marked'
    <2>1. \A i \in Docs : /\ stage[i] = "announced" => stage'[i] = "announced"
                          /\ stage[i] \in Later => stage'[i] \in Later
                          /\ i = d => stage'[i] \in Later /\ stage[i] # "announced"
      BY <1>2, <1>a
    <2>2. CASE UNCHANGED <<epoch, mark, late>>
      BY <1>0, <1>2, <2>1, <2>2 DEF Grows, Marked
    <2>3. CASE /\ epoch' = [epoch EXCEPT ![s] = @ + 1]
               /\ mark' = [mark EXCEPT ![d][s] = epoch[s] + 1]
               /\ late' = IF d \in searchable THEN late ELSE late \cup {d}
      <3>1. /\ epoch'[s] = epoch[s] + 1
            /\ \A u \in Scopes : u # s => epoch'[u] = epoch[u]
        BY <2>3 DEF TypeOK
      <3>2. /\ mark'[d][s] = epoch[s] + 1
            /\ \A i \in Docs, u \in Scopes : i # d \/ u # s => mark'[i][u] = mark[i][u]
        BY <2>3 DEF TypeOK
      <3>3. \A u \in Scopes : epoch[u] <= epoch'[u]
        BY <1>0, <3>1
      <3>4. late \subseteq late' /\ (d \in late' \/ d \in searchable')
        BY <1>2, <2>3
      <3>5. Grows
        <4>1. \A i \in Docs, u \in Scopes :
                 \/ mark'[i][u] = mark[i][u]
                 \/ mark'[i][u] = epoch[u] + 1 /\ stage[i] # "announced"
          BY <2>1, <3>2
        <4> QED BY <1>2, <2>1, <3>3, <3>4, <4>1 DEF Grows
      <3>6. ASSUME NEW i \in Docs, NEW u \in Scopes
            PROVE  /\ u \notin lapsed => mark'[i][u] <= epoch'[u]
                   /\ mark'[i][u] > 0 => /\ stage'[i] \in Later
                                         /\ i \in late' \/ i \in searchable'
        <4>1. CASE i = d /\ u = s
          <5>1. mark'[i][u] = epoch'[u] /\ epoch'[u] \in Nat
            BY <3>1, <3>2, <4>1 DEF TypeOK
          <5> QED BY <2>1, <3>4, <4>1, <5>1
        <4>2. CASE i # d \/ u # s
          <5>1. mark'[i][u] = mark[i][u] /\ epoch'[u] \in Nat
            BY <3>2, <4>2 DEF TypeOK
          <5>2. u \notin lapsed => mark[i][u] <= epoch[u]
            BY DEF Marked
          <5>3. mark[i][u] > 0 => stage[i] \in Later /\ (i \in late \/ i \in searchable)
            BY DEF Marked
          <5>4. u \notin lapsed => mark'[i][u] <= epoch'[u]
            BY <1>0, <3>3, <5>1, <5>2
          <5> QED BY <1>2, <2>1, <3>4, <5>1, <5>3, <5>4
        <4> QED BY <4>1, <4>2
      <3> QED BY <1>2, <3>5, <3>6 DEF Marked
    <2> QED BY <1>2, <2>2, <2>3 DEF Count
  <1>3. ASSUME NEW d \in Docs, CountShared(d) \/ CountOwner(d) PROVE Grows /\ Marked'
    <2>1. Shared \in Scopes /\ OwnerOf[d] \in Scopes
      BY AnswersAssumption DEF Scopes
    <2> QED BY <1>2, <1>3, <2>1 DEF CountShared, CountOwner
  <1>4. ASSUME Refresh PROVE Grows /\ Marked'
    BY <1>0, <1>4 DEF Refresh, Grows, Marked, Bulked
  <1>5. ASSUME NEW s \in Scopes, Lapse(s) PROVE Grows /\ Marked'
    BY <1>0, <1>5 DEF Lapse, Grows, Marked, TypeOK
  <1> QED BY <1>1, <1>3, <1>4, <1>5

-----------------------------------------------------------------------------
(* The steps of a query.                                                     *)

\* A step of q leaves the corpus and the other queries alone.
Alone(q) ==
    /\ UNCHANGED <<sharedCorpus, corpus, asker>>
    /\ \A p \in Queries \ {q} :
          /\ pc'[p] = pc[p] /\ key'[p] = key[p] /\ degraded'[p] = degraded[p]
          /\ evidence'[p] = evidence[p] /\ owed'[p] = owed[p]

LEMMA QueryAlone ==
    ASSUME TypeOK, NEW q \in Queries, Ask(q) \/ Answer(q) PROVE Alone(q)
  <1>1. \A f, t : Goes(q, f, t) => \A p \in Queries \ {q} : pc'[p] = pc[p]
    BY DEF Goes, TypeOK
  <1> USE DEF TypeOK, Alone, corpus
  <1>2. CASE Ask(q)
    BY <1>1, <1>2 DEF Ask
  <1>3. CASE ReadEpoch(q)
    BY <1>1, <1>3 DEF ReadEpoch
  <1>4. CASE LookUp(q)
    BY <1>1, <1>4 DEF LookUp
  <1>5. CASE Embed(q)
    BY <1>1, <1>5 DEF Embed
  <1>6. CASE SearchDense(q) \/ SearchLexical(q)
    BY <1>1, <1>6 DEF SearchDense, SearchLexical, Search
  <1>7. CASE Rank(q) \/ Conclude(q) \/ CacheResult(q)
    BY <1>1, <1>7 DEF Rank, Conclude, CacheResult
  <1> QED BY <1>2, <1>3, <1>4, <1>5, <1>6, <1>7 DEF Answer

(* What a step leaves alone stays as it was.                                 *)
LEMMA AloneKeeps ==
    ASSUME TypeOK, NEW q \in Queries, Alone(q)
    PROVE  /\ Marked => Marked'
           /\ \A s, n : CountedBy(s, n)' = CountedBy(s, n)
           /\ \A e, s, n : /\ SeesDense(e, s, n)' = SeesDense(e, s, n)
                           /\ SeesLexical(e, s, n)' = SeesLexical(e, s, n)
           /\ \A p \in Queries : Scope(p)' = Scope(p)
           /\ \A p \in Queries \ {q} : Pursued(p) => Pursued(p)'
           /\ cache' \subseteq cache /\ Current => Current'
  <1>0. /\ stage' = stage /\ searchable' = searchable /\ epoch' = epoch
        /\ mark' = mark /\ late' = late /\ lapsed' = lapsed
        /\ sharedCorpus' = sharedCorpus /\ asker' = asker
    BY DEF Alone, corpus
  <1>1. Marked => Marked'
    BY <1>0 DEF Marked
  <1>2. \A s, n : CountedBy(s, n)' = CountedBy(s, n)
    BY <1>0 DEF CountedBy, Filtered
  <1>3. \A e, s, n : /\ SeesDense(e, s, n)' = SeesDense(e, s, n)
                     /\ SeesLexical(e, s, n)' = SeesLexical(e, s, n)
    BY <1>0, <1>2 DEF SeesDense, SeesLexical
  <1>4. \A p \in Queries : Scope(p)' = Scope(p)
    BY <1>0 DEF Scope
  <1>5. ASSUME NEW p \in Queries \ {q}, Pursued(p) PROVE Pursued(p)'
    <2>0. /\ pc'[p] = pc[p] /\ key'[p] = key[p] /\ degraded'[p] = degraded[p]
          /\ evidence'[p] = evidence[p] /\ owed'[p] = owed[p]
      BY DEF Alone
    <2>1. Searched(p) => Searched(p)'
      BY <1>3, <2>0 DEF Searched
    <2>2. Owes(p)'
      BY <1>0, <1>2, <1>4, <1>5, <2>0 DEF Pursued, Owes, Filtered
    <2>3. Seen(p)'
      BY <1>0, <1>4, <1>5, <2>0 DEF Pursued, Seen
    <2> QED BY <1>0, <1>4, <1>5, <2>1, <2>2, <2>3 DEF Pursued
  <1>6. cache' \subseteq cache /\ Current => Current'
    BY <1>0, <1>3 DEF Current
  <1> QED BY <1>1, <1>2, <1>3, <1>4, <1>5, <1>6

(* The query itself keeps its obligations, ...                               *)
LEMMA StepOwes ==
    ASSUME SeenInv, TypeOK', NEW q \in Queries, Ask(q) \/ Answer(q)
    PROVE  Owes(q)'
  <1> USE DEF SeenInv
  <1>0. /\ Alone(q) /\ Scope(q)' = Scope(q) /\ Scope(q) \in Scopes
        /\ \A s, n : CountedBy(s, n)' = CountedBy(s, n)
        /\ stage' = stage /\ mark' = mark /\ lapsed' = lapsed /\ epoch' = epoch
        /\ \A s : Filtered(s, Docs)' = Filtered(s, Docs)
    BY QueryAlone, AloneKeeps DEF Alone, corpus, Scope, Scopes, TypeOK, Filtered
  <1>1. CASE Ask(q)
    <2>1. pc'[q] = "asked" /\ owed'[q] \subseteq Told(Scope(q))
      BY <1>1 DEF Ask, Goes, TypeOK
    <2> QED BY <1>0, <2>1 DEF Told, Owes
  <1>2. CASE ReadEpoch(q)
    <2>1. Owes(q) /\ owed'[q] \subseteq owed[q]
      BY <1>2 DEF ReadEpoch, Pursued, TypeOK
    <2>2. ASSUME Scope(q) \notin lapsed
          PROVE  /\ key'[q][2] <= epoch[Scope(q)]
                 /\ owed'[q] \subseteq CountedBy(Scope(q), key'[q][2])
      <3>0. epoch[Scope(q)] \in Nat
        BY <1>0 DEF TypeOK
      <3>1. CASE key' = [key EXCEPT ![q] = CacheKey(q, epoch[Scope(q)])]
        <4>1. key'[q][2] = epoch[Scope(q)]
          BY <3>1 DEF CacheKey, TypeOK
        <4>2. \A d \in owed[q] : mark[d][Scope(q)] <= epoch[Scope(q)]
          BY <1>0, <2>2 DEF Marked, TypeOK
        <4> QED BY <2>1, <3>0, <4>1, <4>2 DEF CountedBy, Owes
      <3>2. CASE /\ key' = [key EXCEPT ![q] = CacheKey(q, 0)]
                 /\ owed' = [owed EXCEPT ![q] = {}]
        BY <3>0, <3>2 DEF CacheKey, TypeOK
      <3> QED BY <1>2, <3>1, <3>2 DEF ReadEpoch
    <2>3. key'[q][1] = Scope(q)
      BY <1>2 DEF ReadEpoch, CacheKey, TypeOK
    <2> QED BY <1>0, <2>1, <2>2, <2>3 DEF Owes
  <1>3. CASE ~Ask(q) /\ ~ReadEpoch(q)
    <2>1. owed' = owed /\ key' = key
      BY <1>3
      DEF Answer, LookUp, Embed, SearchDense, SearchLexical, Rank, Conclude, CacheResult
    <2>2. pc[q] \notin {"idle", "asked"}
      BY <1>3
      DEF Answer, LookUp, Embed, SearchDense, SearchLexical, Rank, Conclude, CacheResult, Goes
    <2> QED BY <1>0, <2>1, <2>2 DEF Pursued, Owes
  <1> QED BY <1>1, <1>2, <1>3

(* ... searches for what had been counted, ...                               *)
LEMMA StepSearched ==
    ASSUME SeenInv, TypeOK', NEW q \in Queries, Ask(q) \/ Answer(q),
           Scope(q) \notin lapsed
    PROVE  Searched(q)'
  <1> USE DEF SeenInv
  <1>0. /\ \A e, s, n : /\ SeesDense(e, s, n)' = SeesDense(e, s, n)
                        /\ SeesLexical(e, s, n)' = SeesLexical(e, s, n)
        /\ Searched(q) /\ Owes(q)
    BY QueryAlone, AloneKeeps DEF Pursued
  <1>1. CASE Ask(q) \/ ReadEpoch(q) \/ LookUp(q)
    <2>1. pc'[q] \notin {"lexical", "rank", "conclude", "finish"}
      BY <1>1 DEF Ask, ReadEpoch, LookUp, Goes, TypeOK
    <2> QED BY <2>1 DEF Searched
  <1>2. CASE Embed(q)
    <2>1. pc'[q] \in {"lexical", "rank", "conclude", "finish"} => degraded'[q]
      BY <1>2 DEF Embed, Goes, TypeOK
    <2> QED BY <2>1 DEF Searched
  <1>3. CASE SearchDense(q)
    <2>1. pc[q] = "dense" /\ pc'[q] = "lexical" /\ key' = key
      BY <1>3 DEF SearchDense, Goes, TypeOK
    <2>2. ASSUME ~degraded'[q] PROVE SeesDense(evidence'[q], key[q][1], key[q][2])
      <3>1. evidence' = [evidence EXCEPT ![q]["dense"] = @ \cup Filtered(Scope(q), Upserted)]
        BY <1>3, <2>2 DEF SearchDense, Search, TypeOK
      <3>2. Filtered(Scope(q), Upserted) \subseteq evidence'[q].dense
        BY <3>1 DEF TypeOK, Evidence
      <3>3. key[q][1] = Scope(q) /\ Scope(q) \in Scopes
        BY <1>0, <2>1 DEF Owes, Scope, Scopes, TypeOK
      <3>4. \A d \in Docs : mark[d][Scope(q)] > 0 => d \in Upserted
        BY <3>3 DEF Marked, Upserted
      <3>5. CountedBy(Scope(q), key[q][2]) \subseteq Filtered(Scope(q), Upserted)
        BY <3>4 DEF CountedBy, Filtered
      <3> QED BY <3>2, <3>3, <3>5 DEF SeesDense
    <2> QED BY <1>0, <2>1, <2>2 DEF Searched
  <1>4. CASE SearchLexical(q)
    <2>1. pc[q] = "lexical" /\ pc'[q] = "rank" /\ key' = key
      BY <1>4 DEF SearchLexical, Goes, TypeOK
    <2>2. ASSUME ~degraded'[q]
          PROVE  /\ SeesDense(evidence'[q], key[q][1], key[q][2])
                 /\ SeesLexical(evidence'[q], key[q][1], key[q][2])
      <3>1. /\ evidence' = [evidence EXCEPT ![q]["lexical"] = @ \cup Filtered(Scope(q), searchable)]
            /\ ~degraded[q]
        BY <1>4, <2>2 DEF SearchLexical, Search, TypeOK
      <3>2. /\ Filtered(Scope(q), searchable) \subseteq evidence'[q].lexical
            /\ evidence'[q].dense = evidence[q].dense
        BY <3>1 DEF TypeOK, Evidence
      <3>3. key[q][1] = Scope(q) /\ Scope(q) \in Scopes
        BY <1>0, <2>1 DEF Owes, Scope, Scopes, TypeOK
      <3>4. \A d \in Docs : mark[d][Scope(q)] > 0 => d \in late \/ d \in searchable
        BY <3>3 DEF Marked
      <3>5. CountedBy(Scope(q), key[q][2]) \ late \subseteq Filtered(Scope(q), searchable)
        BY <3>4 DEF CountedBy, Filtered
      <3>6. SeesDense(evidence[q], key[q][1], key[q][2])
        BY <1>0, <2>1, <3>1 DEF Searched
      <3> QED BY <3>2, <3>3, <3>5, <3>6 DEF SeesDense, SeesLexical
    <2> QED BY <1>0, <2>1, <2>2 DEF Searched
  <1>5. CASE Rank(q) \/ Conclude(q) \/ CacheResult(q)
    <2>1. /\ evidence' = evidence /\ key' = key /\ (~degraded'[q] => ~degraded[q])
          /\ pc[q] \in {"rank", "conclude", "finish"}
          /\ pc'[q] \in {"conclude", "embed", "finish", "answered", "failed"}
      BY <1>5 DEF Rank, Conclude, CacheResult, Goes, TypeOK
    <2> QED BY <1>0, <2>1 DEF Searched
  <1> QED BY <1>1, <1>2, <1>3, <1>4, <1>5 DEF Answer

(* ... and is answered from no less.                                         *)
LEMMA StepSeen ==
    ASSUME SeenInv, TypeOK', NEW q \in Queries, Ask(q) \/ Answer(q)
    PROVE  Seen(q)'
  <1> USE DEF SeenInv
  <1> SUFFICES ASSUME pc'[q] = "answered", ~degraded'[q], Scope(q)' \notin lapsed'
               PROVE  /\ owed'[q] \subseteq evidence'[q].dense
                      /\ owed'[q] \ late' \subseteq evidence'[q].lexical
    BY DEF Seen
  <1>0. /\ Scope(q) \notin lapsed /\ late' = late
        /\ Searched(q) /\ Owes(q)
    BY QueryAlone, AloneKeeps DEF Alone, corpus, Pursued
  <1>1. CASE LookUp(q)
    <2>1. PICK a \in cache : a.key = key[q] /\ evidence' = [evidence EXCEPT ![q] = a.evidence]
      BY <1>1 DEF LookUp, Goes, TypeOK
    <2>2. pc[q] = "keyed" /\ owed' = owed /\ evidence'[q] = a.evidence
      BY <1>1, <2>1 DEF LookUp, Goes, TypeOK
    <2>3. key[q][1] = Scope(q) /\ owed[q] \subseteq CountedBy(Scope(q), key[q][2])
      BY <1>0, <2>2 DEF Owes
    <2>4. SeesDense(a.evidence, Scope(q), key[q][2]) /\ SeesLexical(a.evidence, Scope(q), key[q][2])
      BY <1>0, <2>1, <2>3 DEF Current
    <2> QED BY <1>0, <2>2, <2>3, <2>4 DEF SeesDense, SeesLexical
  <1>2. CASE Conclude(q) \/ CacheResult(q)
    <2>1. /\ pc[q] \in {"conclude", "finish"} /\ owed' = owed /\ evidence' = evidence
          /\ ~degraded[q]
      BY <1>2 DEF Conclude, CacheResult, Goes
    <2>2. key[q][1] = Scope(q) /\ owed[q] \subseteq CountedBy(Scope(q), key[q][2])
      BY <1>0, <2>1 DEF Owes
    <2>3. /\ SeesDense(evidence[q], Scope(q), key[q][2])
          /\ SeesLexical(evidence[q], Scope(q), key[q][2])
      BY <1>0, <2>1, <2>2 DEF Searched
    <2> QED BY <1>0, <2>1, <2>2, <2>3 DEF SeesDense, SeesLexical
  <1>3. CASE ~LookUp(q) /\ ~Conclude(q) /\ ~CacheResult(q)
    <2>1. pc'[q] # "answered"
      BY <1>3 DEF Ask, Answer, ReadEpoch, Embed, SearchDense, SearchLexical, Rank, Goes, TypeOK
    <2> QED BY <2>1
  <1> QED BY <1>1, <1>2, <1>3

(* What it stores is current.                                                *)
LEMMA StepCurrent ==
    ASSUME SeenInv, NEW q \in Queries, Ask(q) \/ Answer(q)
    PROVE  Current'
  <1> USE DEF SeenInv
  <1>0. /\ \A e, s, n : /\ SeesDense(e, s, n)' = SeesDense(e, s, n)
                        /\ SeesLexical(e, s, n)' = SeesLexical(e, s, n)
        /\ cache' \subseteq cache => Current'
        /\ lapsed' = lapsed /\ epoch' = epoch
    BY QueryAlone, AloneKeeps DEF Alone, corpus
  <1>1. CASE cache' = Stored(key[q], evidence[q]) /\ CacheResult(q) /\ ~degraded[q]
    <2>1. pc[q] = "finish"
      BY <1>1 DEF CacheResult, Goes
    <2> SUFFICES ASSUME NEW a \in cache', a.key[1] \notin lapsed
                 PROVE  /\ a.key[2] <= epoch[a.key[1]]
                        /\ SeesDense(a.evidence, a.key[1], a.key[2])
                        /\ SeesLexical(a.evidence, a.key[1], a.key[2])
      BY <1>0 DEF Current
    <2>2. CASE a \in cache
      BY <2>2 DEF Current
    <2>3. CASE a = [key |-> key[q], evidence |-> evidence[q]]
      <3>1. key[q][1] = Scope(q) /\ Scope(q) \notin lapsed
        BY <2>1, <2>3 DEF Pursued, Owes
      <3> QED BY <1>1, <2>1, <2>3, <3>1 DEF Pursued, Owes, Searched
    <2> QED BY <1>1, <2>2, <2>3 DEF Stored
  <1>2. CASE cache' = cache
    BY <1>0, <1>2
  <1>3. cache' = cache \/ (cache' = Stored(key[q], evidence[q]) /\ CacheResult(q) /\ ~degraded[q])
    BY DEF Ask, Answer, ReadEpoch, LookUp, Embed, SearchDense, SearchLexical, Rank,
           Conclude, CacheResult
  <1> QED BY <1>1, <1>2, <1>3

LEMMA SeenStep == ASSUME SeenInv, [Next]_vars PROVE SeenInv'
  <1> USE DEF SeenInv
  <1>0. TypeOK'
    BY TypeStep
  <1>1. ASSUME NEW q \in Queries, Ask(q) \/ Answer(q) PROVE SeenInv'
    <2>1. Marked' /\ \A p \in Queries \ {q} : Pursued(p)'
      BY <1>1, QueryAlone, AloneKeeps
    <2>2. Scope(q)' = Scope(q) /\ lapsed' = lapsed
      BY <1>1, QueryAlone, AloneKeeps DEF Alone, corpus
    <2>3. Pursued(q)'
      BY <1>0, <1>1, <2>2, StepOwes, StepSearched, StepSeen DEF Pursued
    <2> QED BY <1>0, <1>1, <2>1, <2>3, StepCurrent
  <1>2. CASE \/ \E d \in Docs : \/ Upsert(d) \/ Bulk(d) \/ CountShared(d)
                                \/ CountOwner(d) \/ Announce(d)
             \/ Refresh
             \/ \E s \in Scopes : Lapse(s)
    BY <1>0, <1>2, CorpusGrows, GrowsKeeps
  <1>3. CASE Expire \/ UNCHANGED vars
    <2>1. /\ UNCHANGED <<sharedCorpus, corpus, asker, pc, key, degraded, evidence, owed>>
          /\ cache' \subseteq cache
      BY <1>3 DEF Expire, vars, corpus
    <2>2. \A q \in Queries : Alone(q)
      BY <2>1 DEF Alone
    <2>3. \A e, s, n : /\ CountedBy(s, n)' = CountedBy(s, n)
                       /\ SeesDense(e, s, n)' = SeesDense(e, s, n)
                       /\ SeesLexical(e, s, n)' = SeesLexical(e, s, n)
      BY <2>1 DEF CountedBy, Filtered, SeesDense, SeesLexical, corpus
    <2>4. Marked' /\ Current'
      BY <2>1, <2>3 DEF Marked, Current, corpus
    <2>5. ASSUME NEW q \in Queries PROVE Pursued(q)'
      <3>1. Scope(q)' = Scope(q) /\ Filtered(Scope(q), Docs)' = Filtered(Scope(q), Docs)
        BY <2>1 DEF Scope, Filtered
      <3>2. Pursued(q)
        OBVIOUS
      <3> QED BY <2>1, <2>3, <3>1, <3>2 DEF Pursued, Searched, Owes, Seen, corpus
    <2> QED BY <1>0, <2>4, <2>5
  <1> QED BY <1>1, <1>2, <1>3 DEF Next

(* Who was told that a document is indexed is not answered from before: an   *)
(* answer served later saw the document, whatever raced with its indexing.   *)
THEOREM AnnouncedSeen == Spec => []AnnouncedIsSeen
  <1>1. Init => SeenInv
    <2> SUFFICES ASSUME Init PROVE SeenInv
      OBVIOUS
    <2>1. TypeOK
      BY AnswersAssumption
      DEF Init, TypeOK, Stages, Scopes, Phases, Keys, Evidence, Nothing
    <2>2. Marked /\ Current
      BY DEF Init, Marked, Current
    <2>3. \A q \in Queries : Pursued(q)
      BY DEF Init, Pursued, Searched, Owes, Seen
    <2> QED BY <2>1, <2>2, <2>3 DEF SeenInv
  <1>2. SeenInv => AnnouncedIsSeen
    BY DEF SeenInv, Pursued, Seen, AnnouncedIsSeen
  <1> QED BY <1>1, <1>2, SeenStep, PTL DEF Spec
-----------------------------------------------------------------------------
(* The scope of an answer.                                                   *)

\* What was searched belongs to one owner.
Own(e, o) == \A d \in e.dense \cup e.lexical : OwnerOf[d] = o

Private(q) == /\ Own(evidence[q], asker[q])
              /\ pc[q] \notin {"idle", "asked"} => key[q][1] = asker[q]

\* The inductive invariant: every answer in the cache holds documents of the
\* owner in its key only.
ScopeInv == /\ TypeOK
            /\ ~sharedCorpus => /\ \A q \in Queries : Private(q)
                                /\ \A a \in cache : Own(a.evidence, a.key[1])

(* A search of a private corpus finds documents of the asker.                *)
LEMMA SearchPrivate ==
    ASSUME TypeOK, ~sharedCorpus, NEW q \in Queries, NEW docs, NEW leg \in {"dense", "lexical"},
           Search(q, docs, leg), Own(evidence[q], asker[q])
    PROVE  Own(evidence'[q], asker[q])
  <1>1. \A d \in Filtered(Scope(q), docs) : OwnerOf[d] = asker[q]
    BY AnswersAssumption DEF Filtered, Scope, TypeOK
  <1>2. CASE evidence' = [evidence EXCEPT ![q][leg] = @ \cup Filtered(Scope(q), docs)]
    <2>1. CASE leg = "dense"
      <3>1. /\ evidence'[q].dense = evidence[q].dense \cup Filtered(Scope(q), docs)
            /\ evidence'[q].lexical = evidence[q].lexical
        BY <1>2, <2>1 DEF TypeOK, Evidence
      <3> QED BY <1>1, <3>1 DEF Own
    <2>2. CASE leg = "lexical"
      <3>1. /\ evidence'[q].lexical = evidence[q].lexical \cup Filtered(Scope(q), docs)
            /\ evidence'[q].dense = evidence[q].dense
        BY <1>2, <2>2 DEF TypeOK, Evidence
      <3> QED BY <1>1, <3>1 DEF Own
    <2> QED BY <2>1, <2>2
  <1>3. CASE UNCHANGED evidence
    BY <1>3
  <1> QED BY <1>2, <1>3 DEF Search

(* A query keeps to its asker, by what it searches and what it is served.    *)
LEMMA StepPrivate ==
    ASSUME ScopeInv, ~sharedCorpus, NEW q \in Queries, Ask(q) \/ Answer(q)
    PROVE  Private(q)'
  <1> USE DEF ScopeInv
  <1>0. asker' = asker /\ Own(evidence[q], asker[q])
    BY QueryAlone DEF Alone, Private
  <1>1. CASE Ask(q)
    <2>1. pc'[q] = "asked" /\ evidence' = evidence
      BY <1>1 DEF Ask, Goes, TypeOK
    <2> QED BY <1>0, <2>1 DEF Private
  <1>2. CASE ReadEpoch(q)
    <2>1. key'[q][1] = asker[q] /\ evidence' = evidence
      BY <1>2 DEF ReadEpoch, CacheKey, Scope, TypeOK
    <2> QED BY <1>0, <2>1 DEF Private
  <1>3. CASE ~Ask(q) /\ ~ReadEpoch(q)
    <2>1. key' = key /\ pc[q] \notin {"idle", "asked"}
      BY <1>3
      DEF Answer, LookUp, Embed, SearchDense, SearchLexical, Rank, Conclude, CacheResult, Goes
    <2>2. key[q][1] = asker[q]
      BY <2>1 DEF Private
    <2>3. Own(evidence'[q], asker[q])
      <3>1. CASE LookUp(q)
        <4>1. CASE UNCHANGED evidence
          BY <1>0, <4>1
        <4>2. ASSUME NEW a \in cache, a.key = key[q],
                     evidence' = [evidence EXCEPT ![q] = a.evidence]
              PROVE  Own(evidence'[q], asker[q])
          <5>1. evidence'[q] = a.evidence
            BY <4>2 DEF TypeOK
          <5> QED BY <2>2, <4>2, <5>1
        <4> QED BY <3>1, <4>1, <4>2 DEF LookUp
      <3>2. CASE SearchDense(q) \/ SearchLexical(q)
        BY <1>0, <3>2, SearchPrivate DEF SearchDense, SearchLexical
      <3>3. CASE Embed(q) \/ Rank(q) \/ Conclude(q) \/ CacheResult(q)
        BY <1>0, <3>3 DEF Embed, Rank, Conclude, CacheResult
      <3> QED BY <1>3, <3>1, <3>2, <3>3 DEF Answer
    <2> QED BY <1>0, <2>1, <2>2, <2>3 DEF Private
  <1> QED BY <1>1, <1>2, <1>3

LEMMA ScopeStep == ASSUME ScopeInv, [Next]_vars PROVE ScopeInv'
  <1> USE DEF ScopeInv
  <1>0. TypeOK'
    BY TypeStep
  <1>1. sharedCorpus' = sharedCorpus
    <2>1. ASSUME NEW q \in Queries, Ask(q) \/ Answer(q) PROVE sharedCorpus' = sharedCorpus
      BY <2>1, QueryAlone DEF Alone
    <2> QED BY <2>1 DEF Next, Upsert, Bulk, CountShared, CountOwner, Announce, Refresh,
                        Expire, Lapse, vars
  <1> SUFFICES ASSUME ~sharedCorpus
               PROVE  /\ \A q \in Queries : Private(q)'
                      /\ \A a \in cache' : Own(a.evidence, a.key[1])
    BY <1>0, <1>1
  <1>2. ASSUME NEW q \in Queries, Ask(q) \/ Answer(q)
        PROVE  /\ \A p \in Queries : Private(p)'
               /\ \A a \in cache' : Own(a.evidence, a.key[1])
    <2>1. \A p \in Queries \ {q} : Private(p)'
      BY <1>2, QueryAlone DEF Alone, Private
    <2>2. Private(q)'
      BY <1>2, StepPrivate
    <2>3. CASE cache' = cache
      BY <2>1, <2>2, <2>3
    <2>4. CASE CacheResult(q) /\ cache' = Stored(key[q], evidence[q])
      <3>1. Own(evidence[q], key[q][1])
        BY <2>4 DEF CacheResult, Goes, Private
      <3> QED BY <2>1, <2>2, <2>4, <3>1 DEF Stored
    <2>5. cache' = cache \/ (CacheResult(q) /\ cache' = Stored(key[q], evidence[q]))
      BY <1>2 DEF Ask, Answer, ReadEpoch, LookUp, Embed, SearchDense, SearchLexical, Rank,
                  Conclude, CacheResult
    <2> QED BY <2>3, <2>4, <2>5
  <1>3. CASE \/ \E d \in Docs : \/ Upsert(d) \/ Bulk(d) \/ CountShared(d)
                                \/ CountOwner(d) \/ Announce(d)
             \/ Refresh \/ Expire \/ UNCHANGED vars
             \/ \E s \in Scopes : Lapse(s)
    <2>1. UNCHANGED <<asker, pc, key, evidence>> /\ cache' \subseteq cache
      BY <1>3 DEF Upsert, Bulk, CountShared, CountOwner, Announce, Refresh, Expire, Lapse,
                  vars, answers
    <2> QED BY <2>1 DEF Private
  <1> QED BY <1>2, <1>3 DEF Next

(* Unless the corpus is shared, nobody is answered from another owner's      *)
(* documents.                                                               *)
THEOREM StayInScope == Spec => []AnswersStayInScope
  <1>1. Init => ScopeInv
    <2> SUFFICES ASSUME Init PROVE ScopeInv
      OBVIOUS
    <2>1. TypeOK
      BY AnswersAssumption
      DEF Init, TypeOK, Stages, Scopes, Phases, Keys, Evidence, Nothing
    <2> QED BY <2>1 DEF Init, ScopeInv, Private, Own, Nothing
  <1>2. ScopeInv => AnswersStayInScope
    BY DEF ScopeInv, Private, Own, AnswersStayInScope
  <1> QED BY <1>1, <1>2, ScopeStep, PTL DEF Spec
=============================================================================
