--------------------------- MODULE IngestionProofs ---------------------------
(***************************************************************************)
(* Proofs about Ingestion for any documents, worker processes, failures and  *)
(* numbers of crashes and requeues: the type invariant, that no document is  *)
(* dropped between two stages, that half-done dual writes are pursued, that  *)
(* indexed documents are found, and that copies stay out of the pipeline.    *)
(***************************************************************************)
EXTENDS Ingestion, TLAPS

-----------------------------------------------------------------------------
(* What the helpers of the actions change.                                   *)

Jobs == [Stages -> [Docs \X BOOLEAN -> Nat]]

Tasks == [at : WorkSteps, doc : Docs \cup {NoDoc}, redelivered : BOOLEAN,
          live : BOOLEAN, expired : BOOLEAN]

LEMMA JobPairs ==
    ASSUME NEW d \in Docs
    PROVE  /\ <<d, TRUE>> \in Docs \X BOOLEAN /\ <<d, FALSE>> \in Docs \X BOOLEAN
           /\ \A r \in BOOLEAN : <<d, r>> = <<d, TRUE>> \/ <<d, r>> = <<d, FALSE>>
           /\ \A e \in Docs : e # d => /\ \A r \in BOOLEAN : <<e, TRUE>> # <<d, r>>
                                       /\ \A r \in BOOLEAN : <<e, FALSE>> # <<d, r>>
  OBVIOUS

LEMMA EnqueueEffect ==
    ASSUME queue \in Jobs, NEW s \in Stages, NEW d \in Docs, NEW r \in BOOLEAN,
           queue' = Enqueue(queue, s, d, r)
    PROVE  /\ queue' \in Jobs /\ Queued(s, d)'
           /\ \A z \in Stages, e \in Docs : Queued(z, e) => Queued(z, e)'
           /\ \A z \in Stages, e \in Docs : Queued(z, e)' => Queued(z, e) \/ (z = s /\ e = d)
  <1> DEFINE j == <<d, r>>
  <1>0. j \in Docs \X BOOLEAN
    OBVIOUS
  <1>1. \A z \in Stages : \A i \in Docs \X BOOLEAN :
            /\ queue[z][i] \in Nat
            /\ queue'[z][i] = IF z = s /\ i = j THEN queue[z][i] + 1 ELSE queue[z][i]
    BY DEF Enqueue, Jobs
  <1>2. queue' \in Jobs
    <2>1. queue[s][j] + 1 \in Nat
      BY <1>0, <1>1
    <2> QED BY <2>1 DEF Enqueue, Jobs
  <1> HIDE DEF j
  <1>3. ASSUME NEW z \in Stages, NEW e \in Docs
        PROVE  /\ Queued(z, e) => Queued(z, e)'
               /\ Queued(z, e)' => Queued(z, e) \/ (z = s /\ e = d)
    <2>1. /\ queue'[z][<<e, TRUE>>] \in {queue[z][<<e, TRUE>>], queue[z][<<e, TRUE>>] + 1}
          /\ queue'[z][<<e, FALSE>>] \in {queue[z][<<e, FALSE>>], queue[z][<<e, FALSE>>] + 1}
          /\ queue[z][<<e, TRUE>>] \in Nat /\ queue[z][<<e, FALSE>>] \in Nat
      <3>1. <<e, TRUE>> \in Docs \X BOOLEAN /\ <<e, FALSE>> \in Docs \X BOOLEAN
        BY <1>3, JobPairs
      <3> QED BY <1>1, <1>3, <3>1
    <2>2. z # s \/ e # d => /\ queue'[z][<<e, TRUE>>] = queue[z][<<e, TRUE>>]
                            /\ queue'[z][<<e, FALSE>>] = queue[z][<<e, FALSE>>]
      BY <1>1, <1>3, JobPairs DEF j
    <2> QED BY <2>1, <2>2 DEF Queued
  <1>4. Queued(s, d)'
    <2>1. queue'[s][j] > 0
      BY <1>0, <1>1
    <2>2. queue'[s][<<d, TRUE>>] \in Nat /\ queue'[s][<<d, FALSE>>] \in Nat
      BY <1>2, JobPairs DEF Jobs
    <2>3. CASE j = <<d, TRUE>>
      BY <2>1, <2>2, <2>3 DEF Queued
    <2>4. CASE j = <<d, FALSE>>
      BY <2>1, <2>2, <2>4 DEF Queued
    <2> QED BY <2>3, <2>4, JobPairs DEF j
  <1> QED BY <1>2, <1>3, <1>4

LEMMA DequeueEffect ==
    ASSUME queue \in Jobs, NEW s \in Stages, NEW d \in Docs, NEW r \in BOOLEAN,
           queue[s][<<d, r>>] > 0, queue' = Dequeue(queue, s, d, r)
    PROVE  /\ queue' \in Jobs /\ Queued(s, d)
           /\ \A z \in Stages, e \in Docs :
                 Queued(z, e) => Queued(z, e)' \/ (z = s /\ e = d)
           /\ \A z \in Stages, e \in Docs : Queued(z, e)' => Queued(z, e)
  <1> DEFINE j == <<d, r>>
  <1>0. j \in Docs \X BOOLEAN
    OBVIOUS
  <1>1. \A z \in Stages : \A i \in Docs \X BOOLEAN :
            /\ queue[z][i] \in Nat
            /\ queue'[z][i] = IF z = s /\ i = j THEN queue[z][i] - 1 ELSE queue[z][i]
    BY DEF Dequeue, Jobs
  <1>2. queue' \in Jobs
    <2>1. queue[s][j] - 1 \in Nat
      BY <1>0, <1>1
    <2> QED BY <2>1 DEF Dequeue, Jobs
  <1>3. queue[s][j] > 0
    OBVIOUS
  <1> HIDE DEF j
  <1>4. ASSUME NEW z \in Stages, NEW e \in Docs
        PROVE  /\ Queued(z, e) => Queued(z, e)' \/ (z = s /\ e = d)
               /\ Queued(z, e)' => Queued(z, e)
    <2>1. /\ queue'[z][<<e, TRUE>>] \in {queue[z][<<e, TRUE>>], queue[z][<<e, TRUE>>] - 1}
          /\ queue'[z][<<e, FALSE>>] \in {queue[z][<<e, FALSE>>], queue[z][<<e, FALSE>>] - 1}
          /\ queue[z][<<e, TRUE>>] \in Nat /\ queue[z][<<e, FALSE>>] \in Nat
      BY <1>1, <1>4, JobPairs
    <2>2. z # s \/ e # d => /\ queue'[z][<<e, TRUE>>] = queue[z][<<e, TRUE>>]
                            /\ queue'[z][<<e, FALSE>>] = queue[z][<<e, FALSE>>]
      BY <1>1, <1>4, JobPairs DEF j
    <2> QED BY <2>1, <2>2 DEF Queued
  <1>5. Queued(s, d)
    <2>1. queue[s][<<d, TRUE>>] \in Nat /\ queue[s][<<d, FALSE>>] \in Nat
      BY <1>0, <1>1, JobPairs
    <2>2. CASE j = <<d, TRUE>>
      BY <1>3, <2>1, <2>2 DEF Queued
    <2>3. CASE j = <<d, FALSE>>
      BY <1>3, <2>1, <2>3 DEF Queued
    <2> QED BY <2>2, <2>3, JobPairs DEF j
  <1> QED BY <1>2, <1>4, <1>5

\* A worker moves on in its handler.
Moved(w, from, to) ==
    /\ work[w].at = from /\ work'[w].at = to
    /\ work'[w].doc = work[w].doc /\ work'[w].live = work[w].live
    /\ work'[w].expired = work[w].expired /\ work'[w].redelivered = work[w].redelivered
    /\ \A u \in Workers \ {w} : work'[u] = work[u]

LEMMA StepEffect ==
    ASSUME work \in [Workers -> Tasks], NEW w \in Workers, NEW from, NEW to \in WorkSteps,
           Step(w, from, to)
    PROVE  work' \in [Workers -> Tasks] /\ Moved(w, from, to)
  BY DEF Step, Tasks, Moved

LEMMA IdleEffect ==
    ASSUME work \in [Workers -> Tasks], NEW w \in Workers, work' = [work EXCEPT ![w] = Idle]
    PROVE  /\ work' \in [Workers -> Tasks] /\ work'[w] = Idle
           /\ \A u \in Workers \ {w} : work'[u] = work[u]
  <1>1. Idle \in Tasks
    BY DEF Idle, Tasks, WorkSteps
  <1> QED BY <1>1

LEMMA PublishEffect ==
    ASSUME queue \in Jobs, NEW s \in Stages, NEW d \in Docs, NEW outcome, Publish(s, d, outcome)
    PROVE  /\ queue' \in Jobs
           /\ outcome # "lost" => Queued(s, d)'
           /\ \A z \in Stages, e \in Docs : Queued(z, e) => Queued(z, e)'
           /\ \A z \in Stages, e \in Docs : Queued(z, e)' => Queued(z, e) \/ (z = s /\ e = d)
  <1>1. CASE outcome = "lost"
    <2>1. queue' = queue
      BY <1>1 DEF Publish
    <2> QED BY <1>1, <2>1 DEF Queued
  <1>2. CASE outcome # "lost"
    BY <1>2, EnqueueEffect DEF Publish
  <1> QED BY <1>1, <1>2

LEMMA StatusType ==
    ASSUME status \in [Docs -> Statuses \cup {"absent"}], NEW d \in Docs,
           NEW new \in Statuses, NEW sick, SetStatus(d, new, sick)
    PROVE  /\ status' \in [Docs -> Statuses \cup {"absent"}]
           /\ \A e \in Docs \ {d} : status'[e] = status[e]
           /\ status'[d] \in {status[d], new}
  BY DEF SetStatus

-----------------------------------------------------------------------------
(* Types.                                                                    *)

\* A worker that is not idle has a document, and its handler is its stage's.
Placed == \A w \in Workers :
    /\ work[w].at # "idle" => Doc(w) \in Docs
    /\ work[w].at = "idle" => Doc(w) = NoDoc
    /\ work[w].at = "parse" => w[1] # "chunk"
    /\ work[w].at \in {"split", "lexical"} => w[1] = "chunk"

TypeInv == Types /\ Placed

LEMMA TypeInit == ASSUME Init PROVE TypeInv
  <1>1. Idle \in Tasks
    BY DEF Idle, Tasks, WorkSteps
  <1>2. /\ status \in [Docs -> Statuses \cup {"absent"}]
        /\ upload \in [Docs -> UploadSteps] /\ original \in [Docs -> Docs \cup {NoDoc}]
        /\ queue \in [Stages -> [Docs \X BOOLEAN -> Nat]]
        /\ work \in [Workers -> Tasks]
    BY <1>1 DEF Init, UploadSteps
  <1>3. cuts \in 0..MaxCuts /\ requeues \in 0..MaxRequeues
    BY IngestionAssumption DEF Init
  <1>4. Types
    BY <1>2, <1>3 DEF Init, Types, Tasks
  <1>5. Placed
    BY DEF Init, Placed, Idle, Doc
  <1> QED BY <1>4, <1>5 DEF TypeInv

\* What a step leaves well-typed.
LEMMA Typed ==
    ASSUME TypeInv,
           status' \in [Docs -> Statuses \cup {"absent"}], counted' \subseteq Docs,
           upload' \in [Docs -> UploadSteps], original' \in [Docs -> Docs \cup {NoDoc}],
           queue' \in Jobs, dead' \subseteq Stages \X Docs, work' \in [Workers -> Tasks],
           vectors' \subseteq Docs, lexical' \subseteq Docs, listed' \subseteq Docs,
           accepted' \subseteq Docs, cuts' \in 0..MaxCuts, requeues' \in 0..MaxRequeues,
           Placed'
    PROVE  TypeInv'
  BY DEF TypeInv, Types, Jobs, Tasks

LEMMA UploadTypes == ASSUME TypeInv, NEW d \in Docs, Finalize(d) \/ CutUpload(d) PROVE TypeInv'
  <1> USE DEF TypeInv, Types, rows, uploads, broker, stores, operator
  <1>0. /\ queue \in Jobs /\ work \in [Workers -> Tasks]
        /\ (UNCHANGED work => Placed')
    BY DEF Jobs, Tasks, Placed, Doc
  <1>1. CASE LookupHit(d)
    <2>1. SameBytes(d) \subseteq Docs /\ Originals(d) \subseteq Docs
      BY DEF SameBytes, Originals
    <2>2. upload' \in [Docs -> UploadSteps] /\ original' \in [Docs -> Docs \cup {NoDoc}]
      BY <1>1, <2>1 DEF LookupHit, UploadStep, UploadSteps
    <2> QED BY <1>0, <1>1, <2>2, Typed DEF LookupHit
  <1>2. CASE LookupMiss(d)
    <2>1. upload' \in [Docs -> UploadSteps]
      BY <1>2 DEF LookupMiss, UploadStep, UploadSteps
    <2> QED BY <1>0, <1>2, <2>1, Typed DEF LookupMiss
  <1>3. CASE CreateDocument(d) \/ CreateDuplicate(d)
    <2>1. PICK from \in {"create", "copy"}, next \in {"dispatch", "markcopy"} : Create(d, from, next)
      BY <1>3 DEF CreateDocument, CreateDuplicate
    <2>2. upload' \in [Docs -> UploadSteps] /\ status' \in [Docs -> Statuses \cup {"absent"}]
      BY <2>1 DEF Create, UploadStep, UploadSteps, Statuses
    <2> QED BY <1>0, <2>1, <2>2, Typed DEF Create
  <1>4. CASE MarkDuplicate(d)
    <2>1. upload' \in [Docs -> UploadSteps]
      BY <1>4 DEF MarkDuplicate, UploadStep, UploadSteps
    <2>2. status' \in [Docs -> Statuses \cup {"absent"}]
      BY <1>4, StatusType DEF MarkDuplicate, Statuses
    <2> QED BY <1>0, <1>4, <2>1, <2>2, Typed DEF MarkDuplicate
  <1>5. CASE Dispatch(d)
    <2>1. PICK outcome \in PublishOutcomes(FALSE) :
            /\ Publish(IF Kind[d] = "text" THEN "chunk" ELSE Route(d), d, outcome)
            /\ UploadStep(d, "dispatch", IF outcome = "ok" THEN "queued" ELSE "failed")
            /\ accepted' = IF outcome = "lost" THEN accepted ELSE accepted \cup {d}
      BY <1>5 DEF Dispatch
    <2>2. (IF Kind[d] = "text" THEN "chunk" ELSE Route(d)) \in Stages
      BY DEF Route, Stages
    <2>3. queue' \in Jobs
      BY <1>0, <2>1, <2>2, PublishEffect
    <2>4. upload' \in [Docs -> UploadSteps] /\ accepted' \subseteq Docs
      BY <2>1 DEF UploadStep, UploadSteps
    <2> QED BY <1>0, <1>5, <2>3, <2>4, Typed DEF Dispatch
  <1>6. CASE MarkUpload(d)
    <2>1. PICK s \in {"queued", "failed"} : UploadStep(d, s, "over") /\ SetStatus(d, s, FALSE)
      BY <1>6 DEF MarkUpload
    <2>2. upload' \in [Docs -> UploadSteps] /\ s \in Statuses
      BY <2>1 DEF UploadStep, UploadSteps, Statuses
    <2>3. status' \in [Docs -> Statuses \cup {"absent"}]
      BY <2>1, <2>2, StatusType
    <2> QED BY <1>0, <1>6, <2>2, <2>3, Typed DEF MarkUpload
  <1>7. CASE CutUpload(d)
    <2>1. upload' \in [Docs -> UploadSteps]
      BY <1>7 DEF CutUpload, UploadSteps
    <2>2. cuts' \in 0..MaxCuts
      BY <1>7, IngestionAssumption DEF CutUpload, Cut
    <2> QED BY <1>0, <1>7, <2>1, <2>2, Typed DEF CutUpload
  <1> QED BY <1>1, <1>2, <1>3, <1>4, <1>5, <1>6, <1>7 DEF Finalize

LEMMA OperatorTypes ==
    ASSUME TypeInv, ListStuck \/ \E d \in Docs : RequeueOne(d) PROVE TypeInv'
  <1> USE DEF TypeInv, Types, rows, uploads, broker, stores, operator
  <1>0. /\ queue \in Jobs /\ work \in [Workers -> Tasks]
        /\ (UNCHANGED work => Placed')
    BY DEF Jobs, Tasks, Placed, Doc
  <1>1. CASE ListStuck
    <2>1. listed' \subseteq Docs
      BY <1>1 DEF ListStuck
    <2>2. requeues' \in 0..MaxRequeues
      BY <1>1, IngestionAssumption DEF ListStuck
    <2> QED BY <1>0, <1>1, <2>1, <2>2, Typed DEF ListStuck
  <1>2. ASSUME NEW d \in Docs, RequeueOne(d) PROVE TypeInv'
    <2>1. PICK outcome \in PublishOutcomes(FALSE) : Publish(Route(d), d, outcome)
      BY <1>2 DEF RequeueOne
    <2>2. Route(d) \in Stages
      BY DEF Route, Stages
    <2>3. queue' \in Jobs
      BY <1>0, <2>1, <2>2, PublishEffect
    <2> QED BY <1>0, <1>2, <2>3, Typed DEF RequeueOne
  <1> QED BY <1>1, <1>2

\* A handler that moves on stays at its stage.
LEMMA MovedPlaced ==
    ASSUME TypeInv, NEW w \in Workers, NEW from \in WorkSteps \ {"idle"},
           NEW to \in WorkSteps \ {"idle", "parse", "split"}, Moved(w, from, to),
           to = "lexical" => from = "split"
    PROVE  Placed'
  BY DEF Moved, Placed, Doc, TypeInv

LEMMA StageOf == ASSUME NEW w \in Workers PROVE w[1] \in Stages
  BY DEF Workers

LEMMA WorkTypes ==
    ASSUME TypeInv, NEW w \in Workers,
           Start(w) \/ Handle(w) \/ Expire(w) \/ LoseChannel(w) \/ CrashWorker(w)
    PROVE  TypeInv'
  <1> USE DEF TypeInv, Types, rows, uploads, broker, stores, operator
  <1>0. /\ queue \in Jobs /\ work \in [Workers -> Tasks] /\ w[1] \in Stages
        /\ (work[w].at # "idle" => Doc(w) \in Docs)
    BY StageOf DEF Jobs, Tasks, Placed
  <1>1. CASE Start(w)
    <2>1. PICK d \in Docs, r \in BOOLEAN : Take(w, d, r)
      BY <1>1 DEF Start
    <2>2. /\ queue' \in Jobs
      BY <1>0, <2>1, DequeueEffect DEF Take
    <2>3. status' \in [Docs -> Statuses \cup {"absent"}]
      <3>1. FirstStatus(w[1]) \in Statuses
        BY DEF FirstStatus, Statuses
      <3> QED BY <2>1, <3>1, StatusType DEF Take
    <2>4. /\ work' \in [Workers -> Tasks]
          /\ work'[w].at = (IF w[1] = "chunk" THEN "split" ELSE "parse") /\ work'[w].doc = d
          /\ \A u \in Workers \ {w} : work'[u] = work[u]
      BY <1>0, <2>1 DEF Take, Tasks, WorkSteps
    <2>5. Placed'
      BY <2>4 DEF Placed, Doc
    <2> QED BY <2>1, <2>2, <2>3, <2>4, <2>5, Typed DEF Take
  <1>2. CASE WorkFails(w)
    <2>1. PICK from \in {"parse", "split", "lexical"} : Step(w, from, "fail")
      BY <1>2 DEF WorkFails
    <2>2. work' \in [Workers -> Tasks] /\ Moved(w, from, "fail") /\ Placed'
      BY <1>0, <2>1, StepEffect, MovedPlaced DEF WorkSteps
    <2> QED BY <1>0, <1>2, <2>2, Typed DEF WorkFails
  <1>3. CASE Parse(w)
    <2>1. PICK outcome \in PublishOutcomes(Sick(w)) :
            /\ Publish(Target(w[1], Doc(w)), Doc(w), outcome)
            /\ Step(w, "parse", IF outcome = "ok" THEN "report" ELSE "fail")
      BY <1>3 DEF Parse
    <2>2. PICK to \in {"report", "fail"} : Step(w, "parse", to)
      BY <2>1
    <2>3. work' \in [Workers -> Tasks] /\ Moved(w, "parse", to) /\ Placed'
      <3>1. to \in WorkSteps \ {"idle", "parse", "split"} /\ to # "lexical"
        BY DEF WorkSteps
      <3>2. work' \in [Workers -> Tasks] /\ Moved(w, "parse", to)
        BY <1>0, <2>2, <3>1, StepEffect
      <3> QED BY <3>1, <3>2, MovedPlaced DEF WorkSteps
    <2>4. Target(w[1], Doc(w)) \in Stages /\ Doc(w) \in Docs
      BY <1>0, <2>3 DEF Target, Stages, Moved
    <2>5. queue' \in Jobs
      BY <1>0, <2>1, <2>4, PublishEffect
    <2> QED BY <1>3, <2>3, <2>5, Typed DEF Parse
  <1>4. CASE WriteVectors(w) \/ WriteLexical(w)
    <2>1. PICK from \in {"split", "lexical"}, to \in {"report", "lexical"} :
            Step(w, from, to) /\ (to = "lexical" => from = "split")
      BY <1>4 DEF WriteVectors, WriteLexical
    <2>2. work' \in [Workers -> Tasks] /\ Moved(w, from, to) /\ Placed'
      <3>1. /\ from \in WorkSteps \ {"idle"}
            /\ to \in WorkSteps \ {"idle", "parse", "split"}
        BY DEF WorkSteps
      <3>2. work' \in [Workers -> Tasks] /\ Moved(w, from, to)
        BY <1>0, <2>1, <3>1, StepEffect
      <3> QED BY <2>1, <3>1, <3>2, MovedPlaced
    <2>3. Doc(w) \in Docs
      BY <1>0, <2>2 DEF Moved
    <2>4. vectors' \subseteq Docs /\ lexical' \subseteq Docs
      BY <1>4, <2>3 DEF WriteVectors, WriteLexical
    <2> QED BY <1>0, <1>4, <2>2, <2>4, Typed DEF WriteVectors, WriteLexical
  <1>5. CASE Report(w)
    <2>1. Step(w, "report", "ack")
      BY <1>5 DEF Report
    <2>2. work' \in [Workers -> Tasks] /\ Moved(w, "report", "ack") /\ Placed'
      BY <1>0, <2>1, StepEffect, MovedPlaced DEF WorkSteps
    <2>3. Doc(w) \in Docs
      BY <1>0, <2>2 DEF Moved
    <2>4. PICK new \in Statuses : SetStatus(Doc(w), new, Sick(w))
      BY <1>5 DEF Report, Statuses
    <2>5. status' \in [Docs -> Statuses \cup {"absent"}]
      BY <2>3, <2>4, StatusType
    <2>6. counted' \subseteq Docs
      BY <1>5, <2>3 DEF Report
    <2> QED BY <1>0, <1>5, <2>2, <2>5, <2>6, Typed DEF Report
  <1>6. CASE Fail(w)
    <2>1. Step(w, "fail", "nack")
      BY <1>6 DEF Fail
    <2>2. work' \in [Workers -> Tasks] /\ Moved(w, "fail", "nack") /\ Placed'
      BY <1>0, <2>1, StepEffect, MovedPlaced DEF WorkSteps
    <2>3. Doc(w) \in Docs
      BY <1>0, <2>2 DEF Moved
    <2>4. status' \in [Docs -> Statuses \cup {"absent"}]
      <3>1. "failed" \in Statuses
        BY DEF Statuses
      <3>2. SetStatus(Doc(w), "failed", Sick(w)) \/ status' = status
        BY <1>6 DEF Fail
      <3> QED BY <2>3, <3>1, <3>2, StatusType
    <2> QED BY <1>0, <1>6, <2>2, <2>4, Typed DEF Fail
  <1>7. CASE Ack(w) \/ Nack(w) \/ CrashWorker(w)
    <2>1. work' = [work EXCEPT ![w] = Idle] /\ work[w].at # "idle" /\ Doc(w) \in Docs
      BY <1>0, <1>7 DEF Ack, Nack, CrashWorker
    <2>2. /\ work' \in [Workers -> Tasks] /\ work'[w] = Idle
          /\ \A u \in Workers \ {w} : work'[u] = work[u]
      BY <1>0, <2>1, IdleEffect
    <2>3. Placed'
      BY <2>2 DEF Placed, Doc, Idle
    <2>4. queue' \in Jobs
      <3>1. queue' = queue \/ queue' = Enqueue(queue, w[1], Doc(w), TRUE)
        BY <1>7 DEF Ack, Nack, CrashWorker
      <3> QED BY <1>0, <2>1, <3>1, EnqueueEffect
    <2>5. dead' \subseteq Stages \X Docs
      <3>1. dead' \subseteq dead \cup {<<w[1], Doc(w)>>}
        <4>1. CASE Nack(w)
          BY <4>1 DEF Nack
        <4>2. CASE Ack(w) \/ CrashWorker(w)
          BY <4>2 DEF Ack, CrashWorker
        <4> QED BY <1>7, <4>1, <4>2
      <3> QED BY <1>0, <2>1, <3>1
    <2>6. cuts' \in 0..MaxCuts
      <3>1. cuts' = cuts \/ Cut
        BY <1>7 DEF Ack, Nack, CrashWorker
      <3> QED BY <3>1, IngestionAssumption DEF Cut
    <2> QED BY <1>7, <2>2, <2>3, <2>4, <2>5, <2>6, Typed DEF Ack, Nack, CrashWorker
  <1>8. CASE Expire(w)
    <2>1. work' = [work EXCEPT ![w].expired = TRUE]
      BY <1>8 DEF Expire
    <2>2. /\ work' \in [Workers -> Tasks]
          /\ \A u \in Workers : work'[u].at = work[u].at /\ work'[u].doc = work[u].doc
      BY <1>0, <2>1 DEF Tasks
    <2>3. Placed'
      BY <2>2 DEF Placed, Doc
    <2> QED BY <1>0, <1>8, <2>2, <2>3, Typed DEF Expire
  <1>9. CASE LoseChannel(w)
    <2>1. work' = [work EXCEPT ![w].live = FALSE]
      BY <1>9 DEF LoseChannel
    <2>2. /\ work' \in [Workers -> Tasks]
          /\ \A u \in Workers : work'[u].at = work[u].at /\ work'[u].doc = work[u].doc
      BY <1>0, <2>1 DEF Tasks
    <2>3. Placed'
      BY <2>2 DEF Placed, Doc
    <2>4. queue' \in Jobs
      BY <1>0, <1>9, EnqueueEffect DEF LoseChannel
    <2>5. cuts' \in 0..MaxCuts
      BY <1>9, IngestionAssumption DEF LoseChannel, Cut
    <2> QED BY <1>9, <2>2, <2>3, <2>4, <2>5, Typed DEF LoseChannel
  <1> QED BY <1>1, <1>2, <1>3, <1>4, <1>5, <1>6, <1>7, <1>8, <1>9 DEF Handle

LEMMA TypeStep == ASSUME TypeInv, [Next]_vars PROVE TypeInv'
  <1>1. CASE UNCHANGED vars
    <2>1. Placed'
      BY <1>1 DEF TypeInv, Placed, Doc, vars
    <2> QED BY <1>1, <2>1 DEF vars, rows, uploads, broker, stores, operator, TypeInv, Types
  <1> QED BY <1>1, UploadTypes, OperatorTypes, WorkTypes DEF Next

-----------------------------------------------------------------------------
(* Routing: a document is only ever at stages that can read it.              *)

LEMMA RouteOnPath ==
    ASSUME NEW d \in Docs
    PROVE  /\ Route(d) \in Stages /\ Route(d) \in Path(d)
           /\ "chunk" \in Stages /\ "chunk" \in Path(d)
           /\ \A s \in Path(d) : Target(s, d) \in Stages /\ Target(s, d) \in Path(d)
  <1>1. CASE Kind[d] = "pdf"
    BY <1>1 DEF Route, Path, Target, Stages
  <1>2. CASE Kind[d] = "image"
    BY <1>2 DEF Route, Path, Target, Stages
  <1>3. CASE Kind[d] \notin {"pdf", "image"}
    BY <1>3 DEF Route, Path, Target, Stages
  <1> QED BY <1>1, <1>2, <1>3

\* What a step may add without leaving the paths.
JobsOnPath == \A z \in Stages, e \in Docs : Queued(z, e)' => Queued(z, e) \/ z \in Path(e)
DeadOnPath == \A z \in Stages, e \in Docs :
                 <<z, e>> \in dead' => <<z, e>> \in dead \/ z \in Path(e)
WorkOnPath == \A w \in Workers : work'[w].at # "idle" => w[1] \in Path(work'[w].doc)

LEMMA RoutedBy == ASSUME Routed, JobsOnPath, DeadOnPath, WorkOnPath PROVE Routed'
  BY DEF Routed, JobsOnPath, DeadOnPath, WorkOnPath, Doc

LEMMA RoutedSame ==
    ASSUME Routed
    PROVE  /\ UNCHANGED queue => JobsOnPath
           /\ UNCHANGED dead => DeadOnPath
           /\ UNCHANGED work => WorkOnPath
  BY DEF Routed, JobsOnPath, DeadOnPath, WorkOnPath, Queued, Doc

LEMMA RoutedInit == ASSUME Init PROVE Routed
  <1>1. ASSUME NEW s \in Stages, NEW d \in Docs PROVE ~Queued(s, d)
    <2>1. queue[s][<<d, TRUE>>] = 0 /\ queue[s][<<d, FALSE>>] = 0
      BY JobPairs DEF Init
    <2> QED BY <2>1 DEF Queued
  <1>2. \A w \in Workers : work[w].at = "idle"
    BY DEF Init, Idle
  <1> QED BY <1>1, <1>2 DEF Init, Routed

\* A worker that goes on with its document stays on the document's path.
LEMMA StaysOnPath ==
    ASSUME Routed, NEW w \in Workers, work[w].at # "idle",
           work'[w].doc = work[w].doc, \A u \in Workers \ {w} : work'[u] = work[u]
    PROVE  WorkOnPath
  BY DEF Routed, WorkOnPath, Doc

LEMMA RoutedServe ==
    ASSUME TypeInv, Routed, NEW d \in Docs,
           Finalize(d) \/ CutUpload(d) \/ RequeueOne(d) \/ ListStuck
    PROVE  Routed'
  <1>0. queue \in Jobs
    BY DEF TypeInv, Types, Jobs
  <1>1. UNCHANGED <<dead, work>>
    BY DEF Finalize, LookupHit, LookupMiss, CreateDocument, CreateDuplicate, Create,
           MarkDuplicate, Dispatch, MarkUpload, CutUpload, RequeueOne, ListStuck, broker
  <1>2. ASSUME NEW s \in Stages, NEW outcome, s \in Path(d), Publish(s, d, outcome)
        PROVE  JobsOnPath
    BY <1>0, <1>2, PublishEffect DEF JobsOnPath
  <1>3. ASSUME Dispatch(d) PROVE JobsOnPath
    <2>1. PICK outcome : Publish(IF Kind[d] = "text" THEN "chunk" ELSE Route(d), d, outcome)
      BY <1>3 DEF Dispatch
    <2>2. CASE Kind[d] = "text"
      <3>1. Publish("chunk", d, outcome)
        BY <2>1, <2>2
      <3> QED BY <1>2, <3>1, RouteOnPath
    <2>3. CASE Kind[d] # "text"
      <3>1. Publish(Route(d), d, outcome)
        BY <2>1, <2>3
      <3> QED BY <1>2, <3>1, RouteOnPath
    <2> QED BY <2>2, <2>3
  <1>4. ASSUME RequeueOne(d) PROVE JobsOnPath
    <2>1. PICK outcome : Publish(Route(d), d, outcome)
      BY <1>4 DEF RequeueOne
    <2> QED BY <1>2, <2>1, RouteOnPath
  <1>5. ASSUME ~Dispatch(d), ~RequeueOne(d) PROVE JobsOnPath
    <2>1. UNCHANGED queue
      BY <1>5 DEF Finalize, LookupHit, LookupMiss, CreateDocument, CreateDuplicate, Create,
                  MarkDuplicate, MarkUpload, CutUpload, ListStuck, broker
    <2> QED BY <2>1, RoutedSame
  <1>6. JobsOnPath
    BY <1>3, <1>4, <1>5
  <1> QED BY <1>1, <1>6, RoutedSame, RoutedBy

LEMMA RoutedWork ==
    ASSUME TypeInv, Routed, NEW w \in Workers,
           Start(w) \/ Handle(w) \/ Expire(w) \/ LoseChannel(w) \/ CrashWorker(w)
    PROVE  Routed'
  <1>0. /\ queue \in Jobs /\ work \in [Workers -> Tasks] /\ w[1] \in Stages
        /\ (work[w].at # "idle" => Doc(w) \in Docs /\ w[1] \in Path(Doc(w)))
    BY StageOf DEF Jobs, Tasks, Placed, TypeInv, Types, Routed
  <1>1. ASSUME work[w].at # "idle", queue' = Enqueue(queue, w[1], Doc(w), TRUE) PROVE JobsOnPath
    BY <1>0, <1>1, EnqueueEffect DEF JobsOnPath
  <1>2. CASE Start(w)
    <2>1. PICK d \in Docs, r \in BOOLEAN : Take(w, d, r)
      BY <1>2 DEF Start
    <2>2. Queued(w[1], d) /\ JobsOnPath
      BY <1>0, <2>1, DequeueEffect DEF Take, JobsOnPath
    <2>3. work'[w].doc = d /\ \A u \in Workers \ {w} : work'[u] = work[u]
      BY <1>0, <2>1 DEF Take
    <2>4. WorkOnPath
      <3>1. w[1] \in Path(work'[w].doc)
        BY <1>0, <2>2, <2>3 DEF Routed
      <3>2. \A u \in Workers \ {w} : work'[u].at # "idle" => u[1] \in Path(work'[u].doc)
        BY <2>3 DEF Routed, Doc
      <3> QED BY <3>1, <3>2 DEF WorkOnPath
    <2>5. UNCHANGED dead
      BY <2>1 DEF Take
    <2> QED BY <2>2, <2>4, <2>5, RoutedSame, RoutedBy
  <1>3. CASE WorkFails(w) \/ WriteVectors(w) \/ WriteLexical(w) \/ Report(w) \/ Fail(w)
    <2>1. PICK from \in WorkSteps \ {"idle"}, to \in WorkSteps : Step(w, from, to)
      BY <1>3 DEF WorkFails, WriteVectors, WriteLexical, Report, Fail, WorkSteps
    <2>2. WorkOnPath
      BY <1>0, <2>1, StepEffect, StaysOnPath DEF Moved
    <2>3. UNCHANGED <<queue, dead>>
      BY <1>3 DEF WorkFails, WriteVectors, WriteLexical, Report, Fail, broker
    <2> QED BY <2>2, <2>3, RoutedSame, RoutedBy
  <1>4. CASE Parse(w)
    <2>1. PICK outcome \in PublishOutcomes(Sick(w)) :
            /\ Publish(Target(w[1], Doc(w)), Doc(w), outcome)
            /\ Step(w, "parse", IF outcome = "ok" THEN "report" ELSE "fail")
      BY <1>4 DEF Parse
    <2>2. PICK to \in {"report", "fail"} : Step(w, "parse", to)
      BY <2>1
    <2>3. Moved(w, "parse", to)
      <3>1. to \in WorkSteps
        BY DEF WorkSteps
      <3> QED BY <1>0, <2>2, <3>1, StepEffect
    <2>4. WorkOnPath
      BY <2>3, StaysOnPath DEF Moved
    <2>5. Doc(w) \in Docs /\ Target(w[1], Doc(w)) \in Stages /\ Target(w[1], Doc(w)) \in Path(Doc(w))
      BY <1>0, <2>3, RouteOnPath DEF Moved
    <2>6. JobsOnPath
      BY <1>0, <2>1, <2>5, PublishEffect DEF JobsOnPath
    <2>7. UNCHANGED dead
      BY <1>4 DEF Parse
    <2> QED BY <2>4, <2>6, <2>7, RoutedSame, RoutedBy
  <1>5. CASE Ack(w) \/ Nack(w) \/ CrashWorker(w)
    <2>1. work' = [work EXCEPT ![w] = Idle] /\ work[w].at # "idle"
      BY <1>5 DEF Ack, Nack, CrashWorker
    <2>2. WorkOnPath
      BY <1>0, <2>1, IdleEffect DEF Routed, WorkOnPath, Doc, Idle
    <2>3. queue' = queue \/ queue' = Enqueue(queue, w[1], Doc(w), TRUE)
      BY <1>5 DEF Ack, Nack, CrashWorker, broker
    <2>4. dead' \subseteq dead \cup {<<w[1], Doc(w)>>}
      <3>1. CASE Nack(w)
        BY <3>1 DEF Nack
      <3>2. CASE Ack(w) \/ CrashWorker(w)
        BY <3>2 DEF Ack, CrashWorker, broker
      <3> QED BY <1>5, <3>1, <3>2
    <2>5. DeadOnPath
      BY <1>0, <2>1, <2>4 DEF DeadOnPath
    <2> QED BY <1>1, <2>1, <2>2, <2>3, <2>5, RoutedSame, RoutedBy
  <1>6. CASE Expire(w) \/ LoseChannel(w)
    <2>1. /\ work[w].at # "idle" /\ work'[w].doc = work[w].doc
          /\ \A u \in Workers \ {w} : work'[u] = work[u]
          /\ UNCHANGED dead
      BY <1>0, <1>6 DEF Expire, LoseChannel, broker, Tasks
    <2>2. queue' = queue \/ queue' = Enqueue(queue, w[1], Doc(w), TRUE)
      BY <1>6 DEF Expire, LoseChannel, broker
    <2>3. WorkOnPath
      BY <2>1, StaysOnPath
    <2> QED BY <1>1, <2>1, <2>2, <2>3, RoutedSame, RoutedBy
  <1> QED BY <1>2, <1>3, <1>4, <1>5, <1>6 DEF Handle

LEMMA RoutedStep == ASSUME TypeInv, Routed, [Next]_vars PROVE Routed'
  <1>1. CASE UNCHANGED vars
    <2>1. UNCHANGED <<queue, dead, work>>
      BY <1>1 DEF vars, broker
    <2> QED BY <2>1, RoutedSame, RoutedBy
  <1>2. CASE ListStuck
    <2>1. UNCHANGED <<queue, dead, work>>
      BY <1>2 DEF ListStuck, broker
    <2> QED BY <2>1, RoutedSame, RoutedBy
  <1> QED BY <1>1, <1>2, RoutedServe, RoutedWork DEF Next

(* Types are correct, and jobs, dead letters and handlers are only at stages   *)
(* that can read their document, over redeliveries, hand-overs and requeues.  *)
THEOREM TypeCorrect == Spec => []TypeOK
  <1>1. Init => TypeInv /\ Routed
    BY TypeInit, RoutedInit
  <1>2. TypeInv /\ Routed /\ [Next]_vars => (TypeInv /\ Routed)'
    BY TypeStep, RoutedStep
  <1>3. TypeInv /\ Routed => TypeOK
    BY DEF TypeInv, TypeOK
  <1> QED BY <1>1, <1>2, <1>3, PTL DEF Spec
-----------------------------------------------------------------------------
(* No job is dropped: what a stage owes a document passes to a later stage   *)
(* before the job is acknowledged.                                           *)

\* The stages a job of s may still lead to.
Later(s) == CASE s = "pdf" -> {"ocr", "chunk"}
              [] s \in {"office", "ocr"} -> {"chunk"}
              [] OTHER -> {}

Safe(s, d)  == Pending(s, d) \/ <<s, d>> \in dead
Ahead(s, d) == Searchable(d) \/ \E z \in Later(s) : Safe(z, d)
Kept(s, d)  == Safe(s, d) \/ Ahead(s, d)

Pursued ==
    /\ \A w \in Workers :
        /\ work[w].at # "idle" => Kept(w[1], Doc(w))
        /\ work[w].at \in {"report", "ack"} => Ahead(w[1], Doc(w))
        /\ work[w].at = "lexical" => Doc(w) \in vectors
    /\ \A d \in vectors \cup lexical : d \notin Blank /\ Kept("chunk", d)
    /\ \A d \in accepted : \E s \in Stages : Kept(s, d)

\* A worker's step: what becomes of the deliveries and of the documents.
Acts(w) == Start(w) \/ Handle(w) \/ Expire(w) \/ LoseChannel(w) \/ CrashWorker(w)

Taken(w) == /\ work[w].at = "idle" /\ work'[w].at \in {"parse", "split"}
            /\ work'[w].live /\ work'[w].doc \in Docs

Effect(w) ==
    /\ \A u \in Workers \ {w} : work'[u] = work[u]
    /\ dead \subseteq dead' /\ vectors \subseteq vectors' /\ lexical \subseteq lexical'
    /\ UNCHANGED <<upload, original, accepted, listed, requeues>>
    /\ \/ work'[w].at = "idle"
       \/ work[w].at # "idle" /\ work'[w].doc = work[w].doc
       \/ Taken(w) /\ Queued(w[1], work'[w].doc)
    /\ \A z \in Stages, e \in Docs : 
          Queued(z, e) => Queued(z, e)' \/ (z = w[1] /\ e = work'[w].doc /\ Taken(w))
    /\ \A z \in Stages, e \in Docs :
          Queued(z, e)' => Queued(z, e) \/ (e = work[w].doc /\ work[w].at # "idle")
    /\ work[w].live /\ work[w].at \notin {"idle", "ack", "report"}
          => \A d \in Docs : d = work[w].doc => Safe(w[1], d)'

\* What a step says of the worker's own progress.
Progress(w) ==
    /\ work'[w].at = "report" =>
         \/ work[w].at = "report"
         \/ \E z \in Later(w[1]), d \in Docs : d = work[w].doc /\ Queued(z, d)'
         \/ work[w].doc \in Blank
         \/ work[w].at = "lexical" /\ work[w].doc \in lexical'
    /\ work'[w].at = "ack" => work[w].at \in {"report", "ack"}
    /\ work'[w].at = "lexical" => work[w].at = "lexical" \/ work[w].doc \in vectors'
    /\ \A d \in vectors' : \/ d \in vectors
                           \/ d = work[w].doc /\ d \notin Blank /\ work[w].at = "split"
    /\ \A d \in lexical' : d \in lexical \/ (d = work[w].doc /\ work[w].at = "lexical")

LEMMA StillHandled ==
    ASSUME NEW w \in Workers, NEW d \in Docs, work'[w].doc = d, work'[w].at # "ack",
           work'[w].live
    PROVE  Safe(w[1], d)'
  BY DEF Safe, Pending, Handled, Doc

LEMMA QueuedSafe == ASSUME NEW s, NEW d, Queued(s, d)' PROVE Safe(s, d)'
  BY DEF Safe, Pending

\* A step within the handler that leaves the queues alone.
LEMMA MovedEffect ==
    ASSUME TypeInv, TypeInv', NEW w \in Workers, NEW from \in WorkSteps \ {"idle"},
           NEW to \in WorkSteps \ {"idle"}, Moved(w, from, to),
           to = "ack" => from = "report", UNCHANGED <<broker, uploads, operator>>,
           vectors \subseteq vectors', lexical \subseteq lexical'
    PROVE  Effect(w)
  <1>1. \A z \in Stages, e \in Docs : Queued(z, e)' <=> Queued(z, e)
    BY DEF Queued, broker
  <1>2. work[w].live /\ from # "report"
          => \A d \in Docs : d = work[w].doc => Safe(w[1], d)'
    BY StillHandled DEF Moved
  <1> QED BY <1>1, <1>2 DEF Effect, Moved, broker, uploads, operator

LEMMA WorkerEffect == ASSUME TypeInv, NEW w \in Workers, Acts(w) PROVE Effect(w) /\ Progress(w)
  <1>0. /\ TypeInv' /\ queue \in Jobs /\ work \in [Workers -> Tasks] /\ w[1] \in Stages
        /\ (work[w].at # "idle" => Doc(w) \in Docs)
        /\ (work[w].at = "parse" => w[1] # "chunk")
    BY WorkTypes, StageOf DEF Jobs, Tasks, Placed, TypeInv, Types, Acts
  <1>1. CASE Start(w)
    <2>1. PICK d \in Docs, r \in BOOLEAN : Take(w, d, r)
      BY <1>1 DEF Start
    <2>2. /\ Queued(w[1], d)
          /\ \A z \in Stages, e \in Docs : Queued(z, e) => Queued(z, e)' \/ (z = w[1] /\ e = d)
          /\ \A z \in Stages, e \in Docs : Queued(z, e)' => Queued(z, e)
      BY <1>0, <2>1, DequeueEffect DEF Take
    <2>3. /\ work[w].at = "idle" /\ work'[w].at \in {"parse", "split"}
          /\ work'[w].live /\ work'[w].doc = d
          /\ \A u \in Workers \ {w} : work'[u] = work[u]
      BY <1>0, <2>1 DEF Take
    <2>4. UNCHANGED <<dead, vectors, lexical, upload, original, accepted, listed, requeues>>
      BY <2>1 DEF Take, uploads, stores, operator
    <2> QED BY <2>2, <2>3, <2>4 DEF Effect, Progress, Taken
  <1>2. CASE WorkFails(w)
    <2>1. PICK from \in {"parse", "split", "lexical"} : Step(w, from, "fail")
      BY <1>2 DEF WorkFails
    <2>2. Moved(w, from, "fail")
      BY <1>0, <2>1, StepEffect DEF WorkSteps
    <2>3. UNCHANGED <<broker, uploads, operator, vectors, lexical>>
      BY <1>2 DEF WorkFails, stores
    <2>4. Effect(w)
      BY <1>0, <2>2, <2>3, MovedEffect DEF WorkSteps
    <2> QED BY <2>2, <2>3, <2>4 DEF Progress, Moved
  <1>3. CASE Parse(w)
    <2>1. PICK d \in Docs : d = work[w].doc
      BY <1>0, <1>3 DEF Parse, Doc
    <2>2. PICK outcome \in PublishOutcomes(Sick(w)) :
            /\ Publish(Target(w[1], d), d, outcome)
            /\ Step(w, "parse", IF outcome = "ok" THEN "report" ELSE "fail")
      BY <1>3, <2>1 DEF Parse, Doc
    <2>3. PICK to \in {"report", "fail"} : Step(w, "parse", to) /\ (to = "report" => outcome = "ok")
      BY <2>2
    <2>4. Moved(w, "parse", to)
      <3>1. to \in WorkSteps
        BY DEF WorkSteps
      <3> QED BY <1>0, <2>3, <3>1, StepEffect
    <2>5. Target(w[1], d) \in Later(w[1]) /\ Target(w[1], d) \in Stages
      BY <1>0, <2>4 DEF Target, Stages, Later, Moved
    <2>6. /\ outcome # "lost" => Queued(Target(w[1], d), d)'
          /\ \A z \in Stages, e \in Docs : Queued(z, e) => Queued(z, e)'
          /\ \A z \in Stages, e \in Docs : Queued(z, e)' => Queued(z, e) \/ e = d
      BY <1>0, <2>2, <2>5, PublishEffect
    <2>7. work[w].live => Safe(w[1], d)'
      BY <2>1, <2>4, StillHandled DEF Moved
    <2>8. UNCHANGED <<dead, vectors, lexical, upload, original, accepted, listed, requeues>>
      BY <1>3 DEF Parse, uploads, stores, operator
    <2>9. Effect(w)
      BY <2>1, <2>4, <2>6, <2>7, <2>8 DEF Effect, Moved
    <2>10. to = "report" => \E z \in Later(w[1]) : Queued(z, d)'
      BY <2>3, <2>5, <2>6
    <2> QED BY <2>1, <2>4, <2>8, <2>9, <2>10 DEF Progress, Moved
  <1>4. CASE WriteVectors(w)
    <2>1. \/ /\ Doc(w) \in Blank /\ Step(w, "split", "report") /\ UNCHANGED vectors
          \/ /\ Doc(w) \notin Blank /\ Step(w, "split", "lexical")
             /\ vectors' = vectors \cup {Doc(w)}
      BY <1>4 DEF WriteVectors
    <2>2. PICK to \in {"report", "lexical"} : Moved(w, "split", to)
      BY <1>0, <2>1, StepEffect DEF WorkSteps
    <2>3. UNCHANGED <<broker, uploads, operator, lexical>>
      BY <1>4 DEF WriteVectors
    <2>4. Effect(w)
      <3>1. to \in WorkSteps \ {"idle"} /\ to # "ack" /\ "split" \in WorkSteps \ {"idle"}
        BY DEF WorkSteps
      <3> QED BY <1>0, <2>1, <2>2, <2>3, <3>1, MovedEffect
    <2>5. CASE Doc(w) \in Blank
      <3>1. Moved(w, "split", "report") /\ UNCHANGED vectors
        BY <1>0, <2>1, <2>5, StepEffect DEF WorkSteps
      <3> QED BY <2>3, <2>4, <2>5, <3>1 DEF Progress, Moved, Doc
    <2>6. CASE Doc(w) \notin Blank
      <3>1. Moved(w, "split", "lexical") /\ vectors' = vectors \cup {Doc(w)}
        BY <1>0, <2>1, <2>6, StepEffect DEF WorkSteps
      <3> QED BY <2>3, <2>4, <2>6, <3>1 DEF Progress, Moved, Doc
    <2> QED BY <2>5, <2>6
  <1>5. CASE WriteLexical(w)
    <2>1. Step(w, "lexical", "report")
      BY <1>5 DEF WriteLexical
    <2>2. Moved(w, "lexical", "report")
      BY <1>0, <2>1, StepEffect DEF WorkSteps
    <2>3. UNCHANGED <<broker, uploads, operator, vectors>> /\ lexical' = lexical \cup {Doc(w)}
      BY <1>5 DEF WriteLexical
    <2>4. Effect(w)
      BY <1>0, <2>2, <2>3, MovedEffect DEF WorkSteps
    <2> QED BY <2>2, <2>3, <2>4 DEF Progress, Moved, Doc
  <1>6. CASE Report(w)
    <2>1. Moved(w, "report", "ack")
      BY <1>0, <1>6, StepEffect DEF WorkSteps, Report
    <2>2. UNCHANGED <<broker, uploads, operator, vectors, lexical>>
      BY <1>6 DEF Report, stores
    <2>3. Effect(w)
      BY <1>0, <2>1, <2>2, MovedEffect DEF WorkSteps
    <2> QED BY <2>1, <2>2, <2>3 DEF Progress, Moved
  <1>7. CASE Fail(w)
    <2>1. Moved(w, "fail", "nack")
      BY <1>0, <1>7, StepEffect DEF WorkSteps, Fail
    <2>2. UNCHANGED <<broker, uploads, operator, vectors, lexical>>
      BY <1>7 DEF Fail, stores
    <2>3. Effect(w)
      BY <1>0, <2>1, <2>2, MovedEffect DEF WorkSteps
    <2> QED BY <2>1, <2>2, <2>3 DEF Progress, Moved
  <1>8. CASE Ack(w) \/ Nack(w) \/ CrashWorker(w)
    <2>1. work' = [work EXCEPT ![w] = Idle] /\ work[w].at # "idle" /\ Doc(w) \in Docs
      BY <1>0, <1>8 DEF Ack, Nack, CrashWorker
    <2>2. work'[w].at = "idle" /\ \A u \in Workers \ {w} : work'[u] = work[u]
      BY <1>0, <2>1, IdleEffect DEF Idle
    <2>3. UNCHANGED <<vectors, lexical, upload, original, accepted, listed, requeues>>
      BY <1>8 DEF Ack, Nack, CrashWorker, uploads, stores, operator
    <2>4. dead \subseteq dead'
      <3>1. CASE Nack(w)
        BY <3>1 DEF Nack
      <3>2. CASE Ack(w) \/ CrashWorker(w)
        BY <3>2 DEF Ack, CrashWorker, broker
      <3> QED BY <1>8, <3>1, <3>2
    <2>5. queue' = queue \/ queue' = Enqueue(queue, w[1], Doc(w), TRUE)
      BY <1>8 DEF Ack, Nack, CrashWorker, broker
    <2>6. /\ \A z \in Stages, e \in Docs : Queued(z, e) => Queued(z, e)'
          /\ \A z \in Stages, e \in Docs : Queued(z, e)' => Queued(z, e) \/ e = Doc(w)
      <3>1. CASE queue' = queue
        BY <3>1 DEF Queued
      <3> QED BY <1>0, <2>1, <2>5, <3>1, EnqueueEffect
    <2>7. ASSUME work[w].live, work[w].at # "ack", NEW d \in Docs, d = work[w].doc
          PROVE  Safe(w[1], d)'
      <3>1. CASE queue' = Enqueue(queue, w[1], Doc(w), TRUE)
        <4>1. Queued(w[1], d)'
          BY <1>0, <2>7, <3>1, EnqueueEffect DEF Doc
        <4> QED BY <4>1, QueuedSafe
      <3>2. CASE dead' = dead \cup {<<w[1], Doc(w)>>}
        <4>1. <<w[1], d>> \in dead'
          BY <2>7, <3>2 DEF Doc
        <4> QED BY <4>1 DEF Safe
      <3> QED BY <1>8, <2>7, <3>1, <3>2 DEF Ack, Nack, CrashWorker
    <2> QED BY <2>1, <2>2, <2>3, <2>4, <2>6, <2>7 DEF Effect, Progress, Doc
  <1>9. CASE Expire(w) \/ LoseChannel(w)
    <2>1. /\ work'[w].at = work[w].at /\ work'[w].doc = work[w].doc /\ work[w].at # "idle"
          /\ \A u \in Workers \ {w} : work'[u] = work[u]
          /\ UNCHANGED <<dead, vectors, lexical, upload, original, accepted, listed, requeues>>
      BY <1>0, <1>9 DEF Expire, LoseChannel, uploads, stores, operator, broker, Tasks
    <2>2. /\ \A z \in Stages, e \in Docs : Queued(z, e) => Queued(z, e)'
          /\ \A z \in Stages, e \in Docs : Queued(z, e)' => Queued(z, e) \/ e = Doc(w)
      <3>1. CASE queue' = queue
        BY <3>1 DEF Queued
      <3>2. CASE queue' = Enqueue(queue, w[1], Doc(w), TRUE)
        BY <1>0, <2>1, <3>2, EnqueueEffect
      <3> QED BY <1>9, <3>1, <3>2 DEF Expire, LoseChannel, broker
    <2>3. ASSUME work[w].live, work[w].at # "ack", NEW d \in Docs, d = work[w].doc
          PROVE  Safe(w[1], d)'
      <3>1. CASE Expire(w)
        <4>1. work'[w].live = work[w].live
          BY <1>0, <3>1 DEF Expire, Tasks
        <4> QED BY <2>1, <2>3, <4>1, StillHandled
      <3>2. CASE LoseChannel(w)
        <4>1. Queued(w[1], d)'
          BY <1>0, <2>3, <3>2, EnqueueEffect DEF LoseChannel, Doc
        <4> QED BY <4>1, QueuedSafe
      <3> QED BY <1>9, <3>1, <3>2
    <2> QED BY <2>1, <2>2, <2>3 DEF Effect, Progress, Doc
  <1> QED BY <1>1, <1>2, <1>3, <1>4, <1>5, <1>6, <1>7, <1>8, <1>9 DEF Acts, Handle
\* A step of main-service: the workers, the stores and the dead letters stay.
Aside == /\ UNCHANGED <<work, dead, vectors, lexical>>
         /\ \A z \in Stages, e \in Docs : Queued(z, e) => Queued(z, e)'
         /\ \A e \in accepted' : e \in accepted \/ \E z \in Stages : Queued(z, e)'

Serves == ListStuck \/ \E d \in Docs : Finalize(d) \/ CutUpload(d) \/ RequeueOne(d)

LEMMA RouteStage == ASSUME NEW d \in Docs PROVE Route(d) \in Stages
  BY DEF Route, Stages

LEMMA ServeEffect == ASSUME TypeInv, Serves PROVE Aside
  <1> USE DEF uploads, broker, stores, operator
  <1>0. queue \in Jobs
    BY DEF TypeInv, Types, Jobs
  <1>1. CASE ListStuck
    BY <1>1 DEF ListStuck, Aside, Queued
  <1>2. ASSUME NEW d \in Docs,
               LookupHit(d) \/ LookupMiss(d) \/ CreateDocument(d) \/ CreateDuplicate(d)
                 \/ MarkDuplicate(d) \/ MarkUpload(d) \/ CutUpload(d)
        PROVE  Aside
    <2>1. UNCHANGED <<queue, dead, work, vectors, lexical, accepted>>
      BY <1>2 DEF LookupHit, LookupMiss, CreateDocument, CreateDuplicate, Create,
                  MarkDuplicate, MarkUpload, CutUpload
    <2> QED BY <2>1 DEF Aside, Queued
  <1>3. ASSUME NEW d \in Docs, Dispatch(d) PROVE Aside
    <2>1. PICK outcome \in PublishOutcomes(FALSE) :
            /\ Publish(IF Kind[d] = "text" THEN "chunk" ELSE Route(d), d, outcome)
            /\ accepted' = IF outcome = "lost" THEN accepted ELSE accepted \cup {d}
      BY <1>3 DEF Dispatch
    <2>2. PICK s \in Stages : Publish(s, d, outcome)
      BY <2>1, RouteStage DEF Stages
    <2>3. /\ outcome # "lost" => Queued(s, d)'
          /\ \A z \in Stages, e \in Docs : Queued(z, e) => Queued(z, e)'
      BY <1>0, <2>2, PublishEffect
    <2>4. UNCHANGED <<work, dead, vectors, lexical>>
      BY <1>3 DEF Dispatch
    <2> QED BY <2>1, <2>3, <2>4 DEF Aside
  <1>4. ASSUME NEW d \in Docs, RequeueOne(d) PROVE Aside
    <2>1. PICK outcome \in PublishOutcomes(FALSE) : Publish(Route(d), d, outcome)
      BY <1>4 DEF RequeueOne
    <2>2. \A z \in Stages, e \in Docs : Queued(z, e) => Queued(z, e)'
      BY <1>0, <2>1, RouteStage, PublishEffect
    <2>3. UNCHANGED <<work, dead, vectors, lexical, accepted>>
      BY <1>4 DEF RequeueOne
    <2> QED BY <2>2, <2>3 DEF Aside
  <1> QED BY <1>1, <1>2, <1>3, <1>4 DEF Serves, Finalize

LEMMA StepKinds == ASSUME Next PROVE Serves \/ \E w \in Workers : Acts(w)
  BY DEF Next, Serves, Acts

\* A job is only let go of by a worker that has reported its stage.
Stable == /\ vectors \subseteq vectors' /\ lexical \subseteq lexical'
          /\ \A z \in Stages, d \in Docs :
                Safe(z, d) => \/ Safe(z, d)'
                              \/ \E w \in Workers : /\ w[1] = z /\ work[w].doc = d
                                                    /\ work[w].at = "report"

LEMMA StableStep == ASSUME TypeInv, [Next]_vars PROVE Stable
  <1>1. CASE UNCHANGED vars
    <2>1. UNCHANGED <<queue, dead, work, vectors, lexical>>
      BY <1>1 DEF vars, broker, stores
    <2> QED BY <2>1 DEF Stable, Safe, Pending, Queued, Handled, Doc
  <1>2. CASE Serves
    BY <1>2, ServeEffect DEF Aside, Stable, Safe, Pending, Handled, Doc
  <1>3. ASSUME NEW w \in Workers, Acts(w) PROVE Stable
    <2>1. Effect(w)
      BY <1>3, WorkerEffect
    <2>2. ASSUME NEW z \in Stages, NEW d \in Docs, Queued(z, d) PROVE Safe(z, d)'
      <3>1. CASE Queued(z, d)'
        BY <3>1, QueuedSafe
      <3>2. CASE z = w[1] /\ d = work'[w].doc /\ Taken(w)
        BY <3>2, StillHandled DEF Taken
      <3> QED BY <2>1, <2>2, <3>1, <3>2 DEF Effect
    <2>3. ASSUME NEW z \in Stages, NEW d \in Docs, NEW u \in Workers, u[1] = z,
                 Doc(u) = d, work[u].live, work[u].at # "ack"
          PROVE  Safe(z, d)' \/ (work[u].at = "report" /\ work[u].doc = d)
      <3>1. CASE u = w
        <4>1. work[w].at # "idle"
          BY <2>3, <3>1, IngestionAssumption DEF TypeInv, Placed, Doc
        <4> QED BY <2>1, <2>3, <3>1, <4>1 DEF Effect, Doc
      <3>2. CASE u # w
        <4>1. work'[u] = work[u]
          BY <2>1, <3>2 DEF Effect
        <4> QED BY <2>3, <4>1, StillHandled DEF Doc
      <3> QED BY <3>1, <3>2
    <2>4. ASSUME NEW z \in Stages, NEW d \in Docs, <<z, d>> \in dead PROVE Safe(z, d)'
      BY <2>1, <2>4 DEF Effect, Safe
    <2>5. vectors \subseteq vectors' /\ lexical \subseteq lexical'
      BY <2>1 DEF Effect
    <2> QED BY <2>2, <2>3, <2>4, <2>5 DEF Stable, Safe, Pending, Handled, Doc
  <1> QED BY <1>1, <1>2, <1>3, StepKinds

\* What a stage owes stays owed, whatever happens.
LEMMA KeptStays ==
    ASSUME TypeInv, Pursued, Stable, NEW d \in Docs
    PROVE  \A s \in Stages : (Ahead(s, d) => Ahead(s, d)') /\ (Kept(s, d) => Kept(s, d)')
  <1>1. ASSUME NEW s \in Stages, Safe(s, d) PROVE Safe(s, d)' \/ Ahead(s, d)
    BY <1>1 DEF Stable, Pursued, Doc
  <1>2. Searchable(d) => Searchable(d)'
    BY DEF Stable, Searchable
  <1>3. /\ Later("chunk") = {} /\ Later("ocr") = {"chunk"} /\ Later("office") = {"chunk"}
        /\ Later("pdf") = {"ocr", "chunk"}
    BY DEF Later
  <1>4. /\ Ahead("chunk", d) => Ahead("chunk", d)'
        /\ Kept("chunk", d) => Kept("chunk", d)'
    BY <1>1, <1>2, <1>3 DEF Ahead, Kept, Stages
  <1>5. ASSUME NEW s \in {"ocr", "office"}
        PROVE  (Ahead(s, d) => Ahead(s, d)') /\ (Kept(s, d) => Kept(s, d)')
    <2>1. (Ahead(s, d) <=> Kept("chunk", d)) /\ (Ahead(s, d)' <=> Kept("chunk", d)')
      BY <1>3 DEF Ahead, Kept
    <2>2. s \in Stages
      BY DEF Stages
    <2> QED BY <1>1, <1>4, <2>1, <2>2 DEF Kept
  <1>6. (Ahead("pdf", d) => Ahead("pdf", d)') /\ (Kept("pdf", d) => Kept("pdf", d)')
    <2>1. (Ahead("pdf", d) <=> Kept("ocr", d)) /\ (Ahead("pdf", d)' <=> Kept("ocr", d)')
      BY <1>3 DEF Ahead, Kept
    <2> QED BY <1>1, <1>5, <2>1 DEF Kept, Stages
  <1> QED BY <1>4, <1>5, <1>6 DEF Stages

LEMMA PursuedInit == ASSUME Init PROVE Pursued
  BY DEF Init, Pursued, Idle

LEMMA PursuedStep == ASSUME TypeInv, Pursued, [Next]_vars PROVE Pursued'
  <1>0. Stable /\ TypeInv'
    BY StableStep, TypeStep
  <1>1. \A d \in Docs, s \in Stages : (Ahead(s, d) => Ahead(s, d)') /\ (Kept(s, d) => Kept(s, d)')
    BY <1>0, KeptStays
  <1>2. "chunk" \in Stages /\ \A w \in Workers : w[1] \in Stages
    BY StageOf DEF Stages
  <1>3. /\ vectors \subseteq Docs /\ lexical \subseteq Docs /\ accepted \subseteq Docs
        /\ \A w \in Workers : work[w].at # "idle" => work[w].doc \in Docs
    BY DEF TypeInv, Types, Placed, Doc
  <1>4. CASE UNCHANGED vars \/ Serves
    <2>1. /\ UNCHANGED <<work, vectors, lexical>>
          /\ \A e \in accepted' : e \in accepted \/ \E z \in Stages : Kept(z, e)'
      <3>1. CASE Serves
        BY <3>1, ServeEffect DEF Aside, Kept, Safe, Pending
      <3>2. CASE UNCHANGED vars
        BY <3>2 DEF vars, stores, uploads
      <3> QED BY <1>4, <3>1, <3>2
    <2>2. \A w \in Workers : /\ work'[w].at # "idle" => Kept(w[1], Doc(w))'
                             /\ work'[w].at \in {"report", "ack"} => Ahead(w[1], Doc(w))'
                             /\ work'[w].at = "lexical" => Doc(w)' \in vectors'
      BY <1>1, <1>2, <1>3, <2>1 DEF Pursued, Doc
    <2>3. \A d \in vectors' \cup lexical' : d \notin Blank /\ Kept("chunk", d)'
      BY <1>1, <1>2, <1>3, <2>1 DEF Pursued
    <2>4. \A d \in accepted' : \E s \in Stages : Kept(s, d)'
      BY <1>1, <1>3, <2>1 DEF Pursued
    <2> QED BY <2>2, <2>3, <2>4 DEF Pursued
  <1>5. ASSUME NEW w \in Workers, Acts(w) PROVE Pursued'
    <2>1. Effect(w) /\ Progress(w)
      BY <1>5, WorkerEffect
    <2>2. ASSUME NEW u \in Workers, u # w
          PROVE  /\ work'[u].at # "idle" => Kept(u[1], Doc(u))'
                 /\ work'[u].at \in {"report", "ack"} => Ahead(u[1], Doc(u))'
                 /\ work'[u].at = "lexical" => Doc(u)' \in vectors'
      <3>1. work'[u] = work[u] /\ vectors \subseteq vectors'
        BY <2>1, <2>2 DEF Effect
      <3> QED BY <1>1, <1>2, <1>3, <3>1 DEF Pursued, Doc
    <2>3. ASSUME NEW d \in Docs, work'[w].at # "idle", work'[w].doc = d PROVE Kept(w[1], d)'
      <3>1. CASE work[w].at # "idle" /\ work[w].doc = d
        BY <1>1, <1>2, <3>1 DEF Pursued, Doc
      <3>2. CASE Taken(w)
        BY <2>3, <3>2, StillHandled DEF Taken, Kept
      <3> QED BY <2>1, <2>3, <3>1, <3>2 DEF Effect
    <2>4. ASSUME NEW d \in Docs, work'[w].at \in {"report", "ack"}, work'[w].doc = d
          PROVE  Ahead(w[1], d)'
      <3>1. work[w].doc = d /\ work[w].at # "idle"
        BY <2>1, <2>4 DEF Effect, Taken
      <3>2. CASE work[w].at \in {"report", "ack"}
        BY <1>1, <1>2, <3>1, <3>2 DEF Pursued, Doc
      <3>3. CASE work'[w].at = "report" /\ work[w].at # "report"
        <4>1. CASE \E z \in Later(w[1]) : Queued(z, d)'
          BY <4>1 DEF Ahead, Safe, Pending
        <4>2. CASE d \in Blank
          BY <4>2 DEF Ahead, Searchable
        <4>3. CASE work[w].at = "lexical" /\ d \in lexical'
          <5>1. d \in vectors'
            BY <2>1, <3>1, <4>3 DEF Pursued, Effect, Doc
          <5> QED BY <4>3, <5>1 DEF Ahead, Searchable
        <4> QED BY <2>1, <3>1, <3>3, <4>1, <4>2, <4>3 DEF Progress
      <3> QED BY <2>1, <2>4, <3>2, <3>3 DEF Progress
    <2>5. work'[w].at = "lexical" => work'[w].doc \in vectors'
      BY <2>1 DEF Effect, Progress, Taken, Pursued, Doc
    <2>6. ASSUME NEW d \in vectors' \cup lexical' PROVE d \notin Blank /\ Kept("chunk", d)'
      <3>1. CASE d \in vectors \cup lexical
        BY <1>1, <1>2, <1>3, <3>1 DEF Pursued
      <3>2. CASE d \notin vectors \cup lexical
        <4>1. d = work[w].doc /\ work[w].at \in {"split", "lexical"} /\ d \notin Blank
          BY <2>1, <2>6, <3>2 DEF Progress, Pursued, Doc
        <4>2. w[1] = "chunk"
          BY <4>1 DEF TypeInv, Placed
        <4> QED BY <1>1, <1>2, <1>3, <4>1, <4>2 DEF Pursued, Doc
      <3> QED BY <3>1, <3>2
    <2>7. \A d \in accepted' : \E s \in Stages : Kept(s, d)'
      BY <1>1, <1>3, <2>1 DEF Pursued, Effect
    <2>8. work'[w].at # "idle" => work'[w].doc \in Docs
      BY <1>0 DEF TypeInv, Placed, Doc
    <2> QED BY <2>2, <2>3, <2>4, <2>5, <2>6, <2>7, <2>8 DEF Pursued, Doc
  <1> QED BY <1>4, <1>5, StepKinds

LEMMA PursuedAlways == Spec => [](TypeInv /\ Pursued)
  <1>1. Init => TypeInv /\ Pursued
    BY TypeInit, PursuedInit
  <1>2. TypeInv /\ Pursued /\ [Next]_vars => TypeInv' /\ Pursued'
    BY TypeStep, PursuedStep
  <1> QED BY <1>1, <1>2, PTL DEF Spec

(* A document whose first job the broker took is never dropped between two   *)
(* stages, whatever fails: it is on its way, indexed, or dead-lettered.       *)
THEOREM NeverLost == Spec => []NothingLost
  <1>1. TypeInv /\ Pursued => NothingLost
    <2>1. \A d : \A s \in Stages :
              Kept(s, d) => InFlight(d) \/ GivenUp(d) \/ Searchable(d)
      <3>1. \A s \in Stages : Later(s) \subseteq Stages
        BY DEF Later, Stages
      <3> QED BY <3>1 DEF Kept, Ahead, Safe, InFlight, GivenUp
    <2> QED BY <2>1 DEF Pursued, NothingLost
  <1> QED BY <1>1, PursuedAlways, PTL

(* A document that only one of the two stores has keeps its chunk job, or has *)
(* it among the dead letters.                                                *)
THEOREM HalvesPursued == Spec => []HalfWrittenIsPursued
  <1>1. TypeInv /\ Pursued => HalfWrittenIsPursued
    <2> SUFFICES ASSUME TypeInv, Pursued, NEW d \in Docs, (d \in vectors) # (d \in lexical)
                 PROVE  Safe("chunk", d)
      BY DEF HalfWrittenIsPursued, Safe
    <2>1. d \in vectors \cup lexical /\ ~(d \in vectors /\ d \in lexical)
      <3>1. CASE d \in vectors /\ d \in lexical
        <4>1. ((d \in vectors) = TRUE) /\ ((d \in lexical) = TRUE)
          BY <3>1
        <4> QED BY <4>1
      <3>2. CASE d \notin vectors /\ d \notin lexical
        <4>1. ((d \in vectors) = FALSE) /\ ((d \in lexical) = FALSE)
          BY <3>2
        <4> QED BY <4>1
      <3> QED BY <3>1, <3>2
    <2>2. d \notin Blank /\ Kept("chunk", d)
      BY <2>1 DEF Pursued
    <2>3. Later("chunk") = {}
      BY DEF Later
    <2> QED BY <2>1, <2>2, <2>3 DEF Kept, Ahead, Searchable
  <1> QED BY <1>1, PursuedAlways, PTL

-----------------------------------------------------------------------------
(* Copies: a row registered as a copy was never dispatched.                  *)

\* Where an upload is, the row it copies, and what the operator was told.
Registered ==
    /\ \A d \in Docs : original[d] # NoDoc => upload[d] \in {"copy", "markcopy", "over"}
    /\ \A d \in Docs : upload[d] \in {"copy", "markcopy"} => original[d] # NoDoc
    /\ requeues = 0 => listed = {}

\* A document no queue, worker or store has met.
Untouched(d) == /\ \A s \in Stages : ~Queued(s, d)
                /\ \A w \in Workers : work[w].doc # d
                /\ d \notin vectors

Apart(d) == upload[d] = "idle" \/ original[d] # NoDoc => Untouched(d)

CopiesInv == Registered /\ (requeues = 0 => \A d \in Docs : Apart(d))

LEMMA RegisteredStep == ASSUME TypeInv, Registered, [Next]_vars PROVE Registered'
  <1> USE DEF uploads, operator
  <1>1. CASE UNCHANGED vars
    BY <1>1 DEF vars, Registered
  <1>2. ASSUME NEW w \in Workers, Acts(w) PROVE Registered'
    BY <1>2, WorkerEffect DEF Effect, Registered
  <1>3. CASE ListStuck
    BY <1>3 DEF ListStuck, Registered, TypeInv, Types
  <1>4. ASSUME NEW d \in Docs, RequeueOne(d) PROVE Registered'
    BY <1>4 DEF RequeueOne, Registered
  <1>5. ASSUME NEW d \in Docs, Finalize(d) \/ CutUpload(d) PROVE Registered'
    <2>0. UNCHANGED <<listed, requeues>>
      BY <1>5 DEF Finalize, LookupHit, LookupMiss, CreateDocument, CreateDuplicate, Create,
                  MarkDuplicate, MarkUpload, CutUpload, Dispatch
    <2>1. \A e \in Docs \ {d} : upload'[e] = upload[e] /\ original'[e] = original[e]
      BY <1>5 DEF TypeInv, Types, Finalize, UploadStep, LookupHit, LookupMiss, CreateDocument,
                  CreateDuplicate, Create, MarkDuplicate, MarkUpload, CutUpload, Dispatch
    <2>2. /\ original'[d] # NoDoc => upload'[d] \in {"copy", "markcopy", "over"}
          /\ upload'[d] \in {"copy", "markcopy"} => original'[d] # NoDoc
      <3>1. CASE LookupHit(d)
        <4>1. Originals(d) \subseteq Docs
          BY DEF Originals, SameBytes
        <4> QED BY <3>1, <4>1, IngestionAssumption
                DEF LookupHit, UploadStep, TypeInv, Types, Registered
      <3>2. CASE LookupMiss(d)
        BY <3>2 DEF LookupMiss, UploadStep, TypeInv, Types, Registered
      <3>3. CASE CreateDocument(d)
        BY <3>3 DEF CreateDocument, Create, UploadStep, TypeInv, Types, Registered
      <3>4. CASE CreateDuplicate(d)
        BY <3>4 DEF CreateDuplicate, Create, UploadStep, TypeInv, Types, Registered
      <3>5. CASE MarkDuplicate(d) \/ MarkUpload(d) \/ CutUpload(d)
        BY <3>5 DEF MarkDuplicate, MarkUpload, CutUpload, UploadStep, TypeInv, Types, Registered
      <3>6. CASE Dispatch(d)
        BY <3>6 DEF Dispatch, UploadStep, TypeInv, Types, Registered
      <3> QED BY <1>5, <3>1, <3>2, <3>3, <3>4, <3>5, <3>6 DEF Finalize
    <2> QED BY <2>0, <2>1, <2>2 DEF Registered
  <1> QED BY <1>1, <1>2, <1>3, <1>4, <1>5 DEF Next, Acts

\* While nothing was requeued, only a dispatched document is touched.
LEMMA ApartStep ==
    ASSUME TypeInv, CopiesInv, [Next]_vars, requeues' = 0, NEW d \in Docs PROVE Apart(d)'
  <1> USE DEF uploads, operator, broker, stores
  <1>0. /\ requeues = 0 /\ listed = {} /\ Apart(d) /\ queue \in Jobs /\ TypeInv'
    <2>1. requeues = 0
      <3>1. CASE ListStuck
        BY <3>1 DEF ListStuck, TypeInv, Types
      <3>2. ASSUME NEW w \in Workers, Acts(w) PROVE requeues' = requeues
        BY <3>2, WorkerEffect DEF Effect
      <3>3. ASSUME NEW e \in Docs, Finalize(e) \/ CutUpload(e) \/ RequeueOne(e)
            PROVE  requeues' = requeues
        BY <3>3 DEF Finalize, LookupHit, LookupMiss, CreateDocument, CreateDuplicate, Create,
                    MarkDuplicate, MarkUpload, CutUpload, Dispatch, RequeueOne
      <3> QED BY <3>1, <3>2, <3>3, StepKinds DEF Serves, vars
    <2> QED BY <2>1, TypeStep DEF CopiesInv, Registered, TypeInv, Types, Jobs
  <1>1. CASE UNCHANGED vars
    BY <1>0, <1>1 DEF vars, Apart, Untouched, Queued
  <1>2. ASSUME NEW w \in Workers, Acts(w) PROVE Apart(d)'
    <2>1. Effect(w) /\ Progress(w)
      BY <1>2, WorkerEffect
    <2>2. UNCHANGED <<upload, original>>
      BY <2>1 DEF Effect
    <2>3. ASSUME Untouched(d) PROVE Untouched(d)'
      <3>1. work[w].doc # d /\ \A s \in Stages : ~Queued(s, d)
        BY <2>3 DEF Untouched
      <3>2. \A s \in Stages : ~Queued(s, d)'
        BY <2>1, <3>1 DEF Effect
      <3>3. work'[w].doc # d
        <4>1. work'[w].at = "idle" => work'[w].doc = NoDoc
          BY <1>0 DEF TypeInv, Placed, Doc
        <4> QED BY <2>1, <3>1, <4>1, StageOf, IngestionAssumption DEF Effect
      <3>4. \A u \in Workers : work'[u].doc # d
        BY <2>1, <2>3, <3>3 DEF Effect, Untouched
      <3>5. d \notin vectors'
        BY <2>1, <2>3, <3>1 DEF Progress, Untouched
      <3> QED BY <3>2, <3>4, <3>5 DEF Untouched
    <2> QED BY <1>0, <2>2, <2>3 DEF Apart
  <1>3. CASE ListStuck
    BY <1>0, <1>3 DEF ListStuck, Apart, Untouched, Queued
  <1>4. ASSUME NEW e \in Docs, RequeueOne(e) PROVE Apart(d)'
    BY <1>0, <1>4 DEF RequeueOne
  <1>5. ASSUME NEW e \in Docs, Dispatch(e) PROVE Apart(d)'
    <2>1. PICK s \in Stages, outcome \in PublishOutcomes(FALSE) :
            Publish(s, e, outcome) /\ UploadStep(e, "dispatch", IF outcome = "ok" THEN "queued" ELSE "failed")
      <3>1. PICK outcome \in PublishOutcomes(FALSE) :
              /\ Publish(IF Kind[e] = "text" THEN "chunk" ELSE Route(e), e, outcome)
              /\ UploadStep(e, "dispatch", IF outcome = "ok" THEN "queued" ELSE "failed")
        BY <1>5 DEF Dispatch
      <3> QED BY <3>1, RouteStage DEF Stages
    <2>2. \A z \in Stages : Queued(z, d)' => Queued(z, d) \/ d = e
      BY <1>0, <2>1, PublishEffect
    <2>3. UNCHANGED <<work, vectors, original>>
      BY <1>5 DEF Dispatch
    <2>4. original[e] = NoDoc
      BY <2>1 DEF UploadStep, CopiesInv, Registered
    <2>5. CASE d = e
      BY <2>1, <2>3, <2>4, <2>5 DEF UploadStep, Apart, TypeInv, Types
    <2>6. CASE d # e
      <3>1. upload'[d] = upload[d]
        BY <2>1, <2>6 DEF UploadStep, TypeInv, Types
      <3> QED BY <1>0, <2>2, <2>3, <2>6, <3>1 DEF Apart, Untouched
    <2> QED BY <2>5, <2>6
  <1>6. ASSUME NEW e \in Docs,
               LookupHit(e) \/ LookupMiss(e) \/ CreateDocument(e) \/ CreateDuplicate(e)
                 \/ MarkDuplicate(e) \/ MarkUpload(e) \/ CutUpload(e)
        PROVE  Apart(d)'
    <2>1. UNCHANGED <<work, queue, vectors>>
      BY <1>6 DEF LookupHit, LookupMiss, CreateDocument, CreateDuplicate, Create,
                  MarkDuplicate, MarkUpload, CutUpload
    <2>2. upload'[d] = "idle" \/ original'[d] # NoDoc => upload[d] = "idle" \/ original[d] # NoDoc
      BY <1>6 DEF LookupHit, LookupMiss, CreateDocument, CreateDuplicate, Create, MarkDuplicate,
                  MarkUpload, CutUpload, UploadStep, TypeInv, Types
    <2> QED BY <1>0, <2>1, <2>2 DEF Apart, Untouched, Queued
  <1> QED BY <1>1, <1>2, <1>3, <1>4, <1>5, <1>6 DEF Next, Finalize, Acts

(* The bytes of a copy are not indexed again: a row registered as a copy has  *)
(* no job, no worker and no chunk before the operator requeues anything.      *)
THEOREM CopiesApart == Spec => []CopiesStayOut
  <1>1. Init => TypeInv /\ CopiesInv
    <2> SUFFICES ASSUME Init PROVE CopiesInv
      BY TypeInit
    <2>1. Registered
      BY DEF Init, Registered
    <2>2. ASSUME NEW s \in Stages, NEW d \in Docs PROVE ~Queued(s, d)
      <3>1. queue[s][<<d, TRUE>>] = 0 /\ queue[s][<<d, FALSE>>] = 0
        BY JobPairs DEF Init
      <3> QED BY <3>1 DEF Queued
    <2>3. \A d \in Docs, w \in Workers : work[w].doc # d
      BY IngestionAssumption DEF Init, Idle
    <2> QED BY <2>1, <2>2, <2>3 DEF Init, CopiesInv, Apart, Untouched
  <1>2. TypeInv /\ CopiesInv /\ [Next]_vars => TypeInv' /\ CopiesInv'
    <2> SUFFICES ASSUME TypeInv, CopiesInv, [Next]_vars PROVE TypeInv' /\ CopiesInv'
      OBVIOUS
    <2> QED BY TypeStep, RegisteredStep, ApartStep DEF CopiesInv
  <1>3. TypeInv /\ CopiesInv => CopiesStayOut
    BY DEF CopiesInv, Apart, Untouched, CopiesStayOut, InFlight, Pending, Handled, Doc
  <1> QED BY <1>1, <1>2, <1>3, PTL DEF Spec

(* A row that says "indexed" on its own account is found in both stores.      *)
THEOREM IndexedFound == Spec => []IndexedIsSearchable
  <1> DEFINE All == TypeInv /\ Pursued /\ Registered
  <1>1. Init => All /\ IndexedIsSearchable
    <2>1. Init => Registered /\ IndexedIsSearchable
      BY DEF Init, Registered, IndexedIsSearchable
    <2> QED BY <2>1, TypeInit, PursuedInit
  <1>2. All /\ [Next]_vars => All'
    BY TypeStep, PursuedStep, RegisteredStep
  <1>3. All /\ IndexedIsSearchable /\ [Next]_vars => IndexedIsSearchable'
    <2> SUFFICES ASSUME All, IndexedIsSearchable, [Next]_vars, NEW d \in Docs,
                        status'[d] = "indexed", original'[d] = NoDoc
                 PROVE  Searchable(d)'
      BY DEF IndexedIsSearchable
    <2>1. Searchable(d) => Searchable(d)'
      BY StableStep DEF Stable, Searchable
    <2>2. original[d] = NoDoc
      <3>1. CASE UNCHANGED original
        BY <3>1
      <3>2. ASSUME NEW e \in Docs, LookupHit(e) PROVE original[d] = NoDoc
        <4>1. Originals(e) \subseteq Docs
          BY DEF Originals, SameBytes
        <4> QED BY <3>2, <4>1, IngestionAssumption DEF LookupHit, TypeInv, Types
      <3>3. ASSUME NEW w \in Workers, Acts(w) PROVE UNCHANGED original
        BY <3>3, WorkerEffect DEF Effect
      <3>4. ASSUME NEW e \in Docs, Finalize(e) \/ CutUpload(e) \/ RequeueOne(e), ~LookupHit(e)
            PROVE  UNCHANGED original
        BY <3>4 DEF Finalize, LookupMiss, CreateDocument, CreateDuplicate, Create,
                    MarkDuplicate, MarkUpload, CutUpload, Dispatch, RequeueOne, uploads
      <3> QED BY <3>1, <3>2, <3>3, <3>4, StepKinds DEF Serves, ListStuck, vars, uploads
    <2>3. CASE status[d] = "indexed"
      BY <2>1, <2>2, <2>3 DEF IndexedIsSearchable
    <2>4. CASE status[d] # "indexed"
      <3>1. PICK w \in Workers : Report(w) /\ w[1] = "chunk" /\ Doc(w) = d
        <4>1. ASSUME NEW e \in Docs, Finalize(e) \/ CutUpload(e) \/ RequeueOne(e) PROVE FALSE
          BY <2>2, <2>4, <4>1
             DEF Finalize, LookupHit, LookupMiss, CreateDocument, CreateDuplicate, Create,
                 MarkDuplicate, MarkUpload, CutUpload, Dispatch, RequeueOne, SetStatus,
                 UploadStep, rows, TypeInv, Types, Registered
        <4>2. ASSUME NEW w \in Workers, Acts(w), ~Report(w) PROVE FALSE
          BY <2>4, <4>2, StageOf
             DEF Acts, Start, Take, FirstStatus, Handle, WorkFails, Parse, WriteVectors,
                 WriteLexical, Fail, Ack, Nack, Expire, LoseChannel, CrashWorker, SetStatus,
                 rows, TypeInv, Types
        <4>3. ~UNCHANGED vars /\ ~ListStuck
          BY <2>4 DEF vars, rows, ListStuck
        <4>4. PICK w \in Workers : Report(w)
          BY <4>1, <4>2, <4>3, StepKinds DEF Serves
        <4> QED BY <2>4, <4>4 DEF Report, SetStatus, TypeInv, Types
      <3>2. Ahead("chunk", d)'
        <4>1. work[w].at = "report" /\ "chunk" \in Stages
          BY <3>1 DEF Report, Step, Stages
        <4>2. Ahead("chunk", d)
          BY <3>1, <4>1 DEF Pursued
        <4> QED BY <4>1, <4>2, StableStep, KeptStays
      <3>3. Later("chunk") = {}
        BY DEF Later
      <3> QED BY <3>2, <3>3 DEF Ahead
    <2> QED BY <2>3, <2>4
  <1> QED BY <1>1, <1>2, <1>3, PTL DEF Spec
=============================================================================
