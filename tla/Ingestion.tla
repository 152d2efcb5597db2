----------------------------- MODULE Ingestion -----------------------------
(***************************************************************************)
(* The document pipeline: main-service registers an upload and dispatches  *)
(* it, the parsers, the OCR service and the chunk-splitter pass it along   *)
(* the work queues, and every service reports progress by overwriting the  *)
(* status of the document's row, best effort.                               *)
(*                                                                         *)
(* Queues follow Messaging: a job is delivered with its Redelivered flag,  *)
(* a first failure is requeued, a failed redelivery is dead-lettered, and  *)
(* a lost channel or a crash returns the job as redelivered.  Every network *)
(* call of a handler is a step of its own where another service can act    *)
(* between two of them.                                                     *)
(***************************************************************************)
EXTENDS Naturals, FiniteSets

CONSTANTS Docs,            \* document rows an upload may create
          NoDoc,           \* no document
          Kind,            \* Kind[d]: "text", "pdf", "image" or "office"
          Hash,            \* Hash[d]: content hash; same for equal bytes
          Scans,           \* PDFs without a text layer
          Blank,           \* documents in which no text is ever found
          Replicas,        \* worker processes per stage
          Faults,          \* the failures that may happen, see FaultKinds
          RequeueStatuses, \* statuses the operator requeues by
          MaxCuts,         \* bound: crashes, lost channels, cut requests
          MaxRequeues      \* bound: calls of the requeue endpoint

Kinds == {"text", "pdf", "image", "office"}

\* "work": a download, extraction, embedding or store call fails;
\* "publish": a publish is lost or its confirm is; "status": db-service drops a
\* status write; "lookup": the dedup lookup or the row insert fails;
\* "timeout": a handler outlives HandleTimeout and runs on a dead context.
FaultKinds == {"work", "publish", "status", "lookup", "timeout"}

\* The status values of platform/pkg/contracts.
Statuses == {"uploaded", "queued", "parsing", "ocr", "parsed", "chunking",
             "indexed", "failed"}

ASSUME IngestionAssumption ==
    /\ NoDoc \notin Docs
    /\ Kind \in [Docs -> Kinds]
    /\ DOMAIN Hash = Docs
    /\ Scans \subseteq Docs
    /\ Blank \subseteq Docs
    /\ Faults \subseteq FaultKinds
    /\ RequeueStatuses \subseteq Statuses
    /\ MaxCuts \in Nat
    /\ MaxRequeues \in Nat

\* One queue per stage.  "office" stands for office-, email- and db-parser and
\* vlm-service, whose handlers have the same control flow.
Stages == {"pdf", "office", "ocr", "chunk"}

Workers == Stages \X Replicas

VARIABLES status,   \* status[d] of the row, "absent" before it is created
          counted,  \* rows whose chunk_count is positive
          upload,   \* upload[d]: what FinalizeObject does next for d
          original, \* original[d]: the row d was registered as a copy of
          queue,    \* queue[s][<<d, r>>]: jobs for d in s, r = Redelivered
          dead,     \* dead-lettered jobs: <<s, d>>
          work,     \* work[w]: the delivery a worker handles, and where it is
          vectors,  \* documents whose chunks are all in Qdrant
          lexical,  \* documents whose chunks are all in OpenSearch
          listed,   \* rows a running RequeueStuck still has to dispatch
          accepted, \* history: the broker took the upload's first job
          cuts,
          requeues

rows     == <<status, counted>>
uploads  == <<upload, original, accepted>>
broker   == <<queue, dead>>
stores   == <<vectors, lexical>>
operator == <<listed, requeues>>
vars     == <<rows, uploads, broker, work, stores, operator, cuts>>

UploadSteps == {"idle", "create", "copy", "markcopy", "dispatch", "queued",
                "failed", "over"}

Idle == [at |-> "idle", doc |-> NoDoc, redelivered |-> FALSE,
         live |-> TRUE, expired |-> FALSE]

WorkSteps == {"idle", "parse", "split", "lexical", "report", "ack", "fail",
              "nack"}

Types ==
    /\ status \in [Docs -> Statuses \cup {"absent"}]
    /\ counted \subseteq Docs
    /\ upload \in [Docs -> UploadSteps]
    /\ original \in [Docs -> Docs \cup {NoDoc}]
    /\ queue \in [Stages -> [Docs \X BOOLEAN -> Nat]]
    /\ dead \subseteq Stages \X Docs
    /\ work \in [Workers -> [at : WorkSteps, doc : Docs \cup {NoDoc},
                             redelivered : BOOLEAN, live : BOOLEAN,
                             expired : BOOLEAN]]
    /\ vectors \subseteq Docs
    /\ lexical \subseteq Docs
    /\ listed \subseteq Docs
    /\ accepted \subseteq Docs
    /\ cuts \in 0..MaxCuts
    /\ requeues \in 0..MaxRequeues

Init ==
    /\ status = [d \in Docs |-> "absent"]
    /\ counted = {}
    /\ upload = [d \in Docs |-> "idle"]
    /\ original = [d \in Docs |-> NoDoc]
    /\ queue = [s \in Stages |-> [j \in Docs \X BOOLEAN |-> 0]]
    /\ dead = {}
    /\ work = [w \in Workers |-> Idle]
    /\ vectors = {}
    /\ lexical = {}
    /\ listed = {}
    /\ accepted = {}
    /\ cuts = 0
    /\ requeues = 0

-----------------------------------------------------------------------------
(* Calls to the broker and to db-service.                                    *)

\* Mutant: PDFs are not told apart from other files.
RouteNoPdf(d) == IF Kind[d] = "image" THEN "ocr" ELSE "office"
\* RouteForMIME; text/plain without its text at hand goes to office-parser.
Route(d) == CASE Kind[d] = "pdf"   -> "pdf"
              [] Kind[d] = "image" -> "ocr"
              [] OTHER             -> "office"

Enqueue(q, s, d, r) == [q EXCEPT ![s][<<d, r>>] = @ + 1]
Dequeue(q, s, d, r) == [q EXCEPT ![s][<<d, r>>] = @ - 1]

\* What PublishProto returns, and whether the broker has the message: "unsure"
\* is an error although the message was taken.
PublishOutcomes(sick) ==
    IF sick \/ "publish" \in Faults THEN {"ok", "lost", "unsure"} ELSE {"ok"}

Publish(s, d, outcome) ==
    queue' = IF outcome = "lost" THEN queue ELSE Enqueue(queue, s, d, FALSE)

\* UpdateDocumentStatus overwrites whatever the row says; its error is only
\* logged, and on a dead context it always fails.
SetStatus(d, new, sick) ==
    \/ /\ ~sick
       /\ status' = [status EXCEPT ![d] = new]
    \/ /\ sick \/ "status" \in Faults
       /\ UNCHANGED status

\* FindDocumentByHash: any row with these bytes that has not failed, the ones
\* with chunks first.
SameBytes(d) == {e \in Docs : /\ status[e] \notin {"absent", "failed"}
                              /\ Hash[e] = Hash[d]}
Originals(d) == IF SameBytes(d) \cap counted # {}
                THEN SameBytes(d) \cap counted
                ELSE SameBytes(d)

-----------------------------------------------------------------------------
(* main-service: FinalizeObject, once the object is stored.                  *)

UploadStep(d, from, to) == /\ upload[d] = from
                           /\ upload' = [upload EXCEPT ![d] = to]

\* A hash hit: the caller wants the existing row, or a copy is registered.
LookupHit(d) ==
    /\ \E e \in Originals(d) :
        \/ /\ UploadStep(d, "idle", "over")
           /\ UNCHANGED original
        \/ /\ UploadStep(d, "idle", "copy")
           /\ original' = [original EXCEPT ![d] = e]
    /\ UNCHANGED <<rows, accepted, broker, work, stores, operator, cuts>>

\* No hit, no hash, or a failed lookup: index it.
LookupMiss(d) ==
    /\ UploadStep(d, "idle", "create")
    /\ SameBytes(d) = {} \/ "lookup" \in Faults
    /\ UNCHANGED <<rows, original, accepted, broker, work, stores, operator,
                   cuts>>

\* CreateDocument; after an error the row may exist, but nobody follows it up.
Create(d, from, next) ==
    /\ \/ /\ UploadStep(d, from, next)
          /\ status' = [status EXCEPT ![d] = "uploaded"]
       \/ /\ "lookup" \in Faults
          /\ UploadStep(d, from, "over")
          /\ status' \in {status, [status EXCEPT ![d] = "uploaded"]}
    /\ UNCHANGED <<counted, original, accepted, broker, work, stores, operator,
                   cuts>>

\* Mutant: a copy is dispatched like any other document.
DispatchCopy(d) == Create(d, "copy", "dispatch")

CreateDocument(d)  == Create(d, "create", "dispatch")
CreateDuplicate(d) == Create(d, "copy", "markcopy")

MarkDuplicate(d) ==
    /\ UploadStep(d, "markcopy", "over")
    /\ SetStatus(d, "indexed", FALSE)
    /\ UNCHANGED <<counted, original, accepted, broker, work, stores, operator,
                   cuts>>

\* dispatch: inline text skips the parsers.
Dispatch(d) ==
    /\ \E outcome \in PublishOutcomes(FALSE) :
        /\ Publish(IF Kind[d] = "text" THEN "chunk" ELSE Route(d), d, outcome)
        /\ UploadStep(d, "dispatch", IF outcome = "ok" THEN "queued"
                                                       ELSE "failed")
        /\ accepted' = IF outcome = "lost" THEN accepted ELSE accepted \cup {d}
    /\ UNCHANGED <<rows, original, dead, work, stores, operator, cuts>>

\* The status is written after the job is out.
MarkUpload(d) ==
    /\ \E s \in {"queued", "failed"} : /\ UploadStep(d, s, "over")
                                       /\ SetStatus(d, s, FALSE)
    /\ UNCHANGED <<counted, original, accepted, broker, work, stores, operator,
                   cuts>>

Cut == /\ cuts < MaxCuts
       /\ cuts' = cuts + 1

\* main-service dies, or the client goes away and the request's context with
\* it: nothing more is done for the upload.
CutUpload(d) ==
    /\ upload[d] \notin {"idle", "over"}
    /\ Cut
    /\ upload' = [upload EXCEPT ![d] = "over"]
    /\ UNCHANGED <<rows, original, accepted, broker, work, stores, operator>>

-----------------------------------------------------------------------------
(* The operator's POST requeue: RequeueStuck lists the rows of one status    *)
(* that are old enough, then dispatches each without looking at it again.    *)

ListStuck ==
    /\ listed = {}
    /\ requeues < MaxRequeues
    /\ \E s \in RequeueStatuses :
        \E old \in SUBSET {d \in Docs : status[d] = s} :
            old # {} /\ listed' = old
    /\ requeues' = requeues + 1
    /\ UNCHANGED <<rows, uploads, broker, work, stores, cuts>>

RequeueOne(d) ==
    /\ d \in listed
    /\ listed' = listed \ {d}
    /\ \E outcome \in PublishOutcomes(FALSE) : Publish(Route(d), d, outcome)
    /\ UNCHANGED <<rows, uploads, dead, work, stores, requeues, cuts>>

-----------------------------------------------------------------------------
(* Workers.                                                                  *)

Step(w, from, to) == /\ work[w].at = from
                     /\ work' = [work EXCEPT ![w].at = to]

FirstStatus(s) == CASE s = "ocr"   -> "ocr"
                    [] s = "chunk" -> "chunking"
                    [] OTHER       -> "parsing"

\* A delivery reaches a handler, which first reports the stage.
Take(w, d, r) ==
    LET s == w[1] IN
    /\ work[w].at = "idle"
    /\ queue[s][<<d, r>>] > 0
    /\ queue' = Dequeue(queue, s, d, r)
    /\ work' = [work EXCEPT ![w] =
                  [at |-> IF s = "chunk" THEN "split" ELSE "parse", doc |-> d,
                   redelivered |-> r, live |-> TRUE, expired |-> FALSE]]
    /\ SetStatus(d, FirstStatus(s), FALSE)
    /\ UNCHANGED <<counted, uploads, dead, stores, operator, cuts>>

Doc(w)  == work[w].doc
Sick(w) == work[w].expired

\* Mutant: a failed lexical write is swallowed.
SwallowLexicalError(w) ==
    /\ \/ Step(w, "parse", "fail")
       \/ Step(w, "split", "fail")
       \/ Step(w, "lexical", "report")
    /\ "work" \in Faults \/ Sick(w)
    /\ UNCHANGED <<rows, uploads, broker, stores, operator, cuts>>

\* Mutant: a parser acknowledges a document it could not read.
SwallowParseError(w) ==
    /\ \/ Step(w, "parse", "report")
       \/ Step(w, "split", "fail")
       \/ Step(w, "lexical", "fail")
    /\ "work" \in Faults \/ Sick(w)
    /\ UNCHANGED <<rows, uploads, broker, stores, operator, cuts>>

\* Download, extraction or the claim-check upload failed.
WorkFails(w) ==
    /\ \/ Step(w, "parse", "fail")
       \/ Step(w, "split", "fail")
       \/ Step(w, "lexical", "fail")
    /\ \/ "work" \in Faults
       \/ Sick(w)
       \/ w[1] = "office" /\ Doc(w) \in Blank /\ Kind[Doc(w)] # "text"
    /\ UNCHANGED <<rows, uploads, broker, stores, operator, cuts>>

\* Where a parser sends a document it extracted: a PDF without text goes to
\* OCR; office-parser never forwards an empty text, ocr-service does.
Target(s, d) ==
    IF s = "pdf" /\ d \in Scans \cup Blank THEN "ocr" ELSE "chunk"

Forwards(s, d) == s = "office" => d \notin Blank \/ Kind[d] = "text"

\* The document is extracted and published to the next queue.
Parse(w) ==
    LET d == Doc(w) IN
    /\ work[w].at = "parse"
    /\ Forwards(w[1], d)
    /\ \E outcome \in PublishOutcomes(Sick(w)) :
        /\ Publish(Target(w[1], d), d, outcome)
        /\ Step(w, "parse", IF outcome = "ok" THEN "report" ELSE "fail")
    /\ UNCHANGED <<rows, uploads, dead, stores, operator, cuts>>

\* chunk-splitter: nothing to index, or the dual-store write, vectors first.
WriteVectors(w) ==
    LET d == Doc(w) IN
    /\ \/ /\ d \in Blank
          /\ Step(w, "split", "report")
          /\ UNCHANGED vectors
       \/ /\ d \notin Blank /\ ~Sick(w)
          /\ Step(w, "split", "lexical")
          /\ vectors' = vectors \cup {d}
    /\ UNCHANGED <<rows, uploads, broker, lexical, operator, cuts>>

WriteLexical(w) ==
    /\ ~Sick(w)
    /\ Step(w, "lexical", "report")
    /\ lexical' = lexical \cup {Doc(w)}
    /\ UNCHANGED <<rows, uploads, broker, vectors, operator, cuts>>

\* The stage is done: the status is written after the next job is out.
Report(w) ==
    LET s == w[1]
        d == Doc(w)
    IN
    /\ Step(w, "report", "ack")
    /\ SetStatus(d, CASE s = "chunk" -> "indexed"
                      [] s = "pdf" /\ Target(s, d) = "ocr" -> "ocr"
                      [] OTHER -> "parsed", Sick(w))
    /\ counted' = IF s = "chunk" /\ status'[d] = "indexed" /\ d \notin Blank
                  THEN counted \cup {d} ELSE counted
    /\ UNCHANGED <<uploads, broker, stores, operator, cuts>>

\* fail: the parsers surface a failure only on the last attempt, the
\* chunk-splitter on every one.
MarksFailed(w) == w[1] = "chunk" \/ work[w].redelivered

Fail(w) ==
    /\ Step(w, "fail", "nack")
    /\ IF MarksFailed(w) THEN SetStatus(Doc(w), "failed", Sick(w))
                         ELSE UNCHANGED status
    /\ UNCHANGED <<counted, uploads, broker, stores, operator, cuts>>

Ack(w) ==
    /\ work[w].at = "ack"
    /\ work' = [work EXCEPT ![w] = Idle]
    /\ UNCHANGED <<rows, uploads, broker, stores, operator, cuts>>

\* Mutant: a failed job is requeued for ever.
NackForever(w) ==
    /\ work[w].at = "nack"
    /\ work' = [work EXCEPT ![w] = Idle]
    /\ queue' = IF work[w].live THEN Enqueue(queue, w[1], Doc(w), TRUE)
                                ELSE queue
    /\ UNCHANGED <<rows, uploads, dead, stores, operator, cuts>>

\* A nack on a lost channel goes nowhere; otherwise requeue once, then dead.
Nack(w) ==
    LET s == w[1]
        d == Doc(w)
    IN
    /\ work[w].at = "nack"
    /\ work' = [work EXCEPT ![w] = Idle]
    /\ queue' = IF work[w].live /\ ~work[w].redelivered
                THEN Enqueue(queue, s, d, TRUE) ELSE queue
    /\ dead' = IF work[w].live /\ work[w].redelivered
               THEN dead \cup {<<s, d>>} ELSE dead
    /\ UNCHANGED <<rows, uploads, stores, operator, cuts>>

\* HandleTimeout passes: the rest of the handler runs on a dead context.
Expire(w) ==
    /\ "timeout" \in Faults
    /\ work[w].at \notin {"idle", "ack", "nack"}
    /\ ~Sick(w)
    /\ work' = [work EXCEPT ![w].expired = TRUE]
    /\ UNCHANGED <<rows, uploads, broker, stores, operator, cuts>>

\* The channel is lost: the broker redelivers while the handler goes on.
LoseChannel(w) ==
    /\ work[w].at # "idle"
    /\ work[w].live
    /\ Cut
    /\ work' = [work EXCEPT ![w].live = FALSE]
    /\ queue' = Enqueue(queue, w[1], Doc(w), TRUE)
    /\ UNCHANGED <<rows, uploads, dead, stores, operator>>

\* Mutant: deliveries are acknowledged when they are pushed.
CrashLosesJob(w) ==
    /\ work[w].at # "idle"
    /\ Cut
    /\ work' = [work EXCEPT ![w] = Idle]
    /\ UNCHANGED <<rows, uploads, broker, stores, operator>>

CrashWorker(w) ==
    /\ work[w].at # "idle"
    /\ Cut
    /\ work' = [work EXCEPT ![w] = Idle]
    /\ queue' = IF work[w].live THEN Enqueue(queue, w[1], Doc(w), TRUE)
                                ELSE queue
    /\ UNCHANGED <<rows, uploads, dead, stores, operator>>

-----------------------------------------------------------------------------
Finalize(d) == \/ LookupHit(d) \/ LookupMiss(d) \/ CreateDocument(d)
               \/ CreateDuplicate(d) \/ MarkDuplicate(d) \/ Dispatch(d)
               \/ MarkUpload(d)

Handle(w) == \/ WorkFails(w) \/ Parse(w) \/ WriteVectors(w) \/ WriteLexical(w)
             \/ Report(w) \/ Fail(w) \/ Ack(w) \/ Nack(w)

Start(w) == \E d \in Docs, r \in BOOLEAN : Take(w, d, r)

Next == \/ \E d \in Docs : Finalize(d) \/ CutUpload(d) \/ RequeueOne(d)
        \/ ListStuck
        \/ \E w \in Workers : \/ Start(w) \/ Handle(w) \/ Expire(w)
                              \/ LoseChannel(w) \/ CrashWorker(w)

\* Nobody has to upload or requeue, and nothing has to break; but a started
\* upload goes on, and workers keep consuming and finish what they took.
Fairness == /\ \A d \in Docs : WF_vars(upload[d] # "idle" /\ Finalize(d))
            /\ \A w \in Workers : WF_vars(Start(w)) /\ WF_vars(Handle(w))

Spec     == Init /\ [][Next]_vars
FairSpec == Spec /\ Fairness

-----------------------------------------------------------------------------
(* Properties.                                                              *)

\* The stages whose handlers can read d: an extracted text every pipeline ends
\* with, a parser of d's kind, and OCR for pictures and for PDFs without text.
Path(d) == {"chunk"} \cup
           CASE Kind[d] = "pdf"   -> {"pdf"} \cup {s \in {"ocr"} : d \in Scans \cup Blank}
             [] Kind[d] = "image" -> {"ocr"}
             [] OTHER             -> {"office"}

Queued(s, d)  == queue[s][<<d, TRUE>>] + queue[s][<<d, FALSE>>] > 0
Handled(s, d) == \E w \in Workers : /\ w[1] = s
                                   /\ Doc(w) = d
                                   /\ work[w].live
                                   /\ work[w].at # "ack"
Pending(s, d) == Queued(s, d) \/ Handled(s, d)

\* The pipeline still works on d, or gave one of its jobs up.
InFlight(d)  == \E s \in Stages : Pending(s, d)
GivenUp(d)   == \E s \in Stages : <<s, d>> \in dead

\* Hybrid search finds d in both of its stores, if there is anything to find.
Searchable(d) == d \in Blank \/ (d \in vectors /\ d \in lexical)

\* Jobs, dead letters and handlers are only at stages that can read the document.
Routed ==
    /\ \A s \in Stages, d \in Docs : Queued(s, d) \/ <<s, d>> \in dead => s \in Path(d)
    /\ \A w \in Workers : work[w].at # "idle" => w[1] \in Path(Doc(w))

(* Rows, queues, workers and stores are well-typed, and no document reaches a *)
(* stage whose handler cannot read it: neither by dispatch, nor by a parser's *)
(* hand-over, nor when the operator requeues its row or the broker redelivers.*)
TypeOK == Types /\ Routed

(* A document whose first job the broker took is never dropped between two   *)
(* stages: whatever fails, it is still on its way, fully indexed, or one of  *)
(* its jobs is in the dead-letter queue for the operator to see.             *)
NothingLost ==
    \A d \in accepted : InFlight(d) \/ GivenUp(d) \/ Searchable(d)

(* A half-done dual write is never left behind unnoticed: while only one     *)
(* store has the document, its chunk job is pending or dead-lettered.        *)
HalfWrittenIsPursued ==
    \A d \in Docs : (d \in vectors) # (d \in lexical) =>
                        Pending("chunk", d) \/ <<"chunk", d>> \in dead

(* A row that says "indexed" on its own account can be found in both stores. *)
IndexedIsSearchable ==
    \A d \in Docs : status[d] = "indexed" /\ original[d] = NoDoc
                        => Searchable(d)

(* A document that was registered as a copy never enters the pipeline: its   *)
(* bytes are not indexed a second time unless the operator requeues the row. *)
CopiesStayOut ==
    \A d \in Docs : original[d] # NoDoc /\ requeues = 0
                        => ~InFlight(d) /\ d \notin vectors

(* An accepted document is fully indexed or dead-lettered in the end.        *)
EventuallyDecided ==
    \A d \in Docs : d \in accepted ~> Searchable(d) \/ GivenUp(d)

(* Once nothing is under way for an indexed document, its row says so:       *)
(* docs/ARCHITECTURE.md ends the pipeline with the status "indexed".         *)
IndexedInTheEnd ==
    \A d \in accepted : Searchable(d) /\ ~InFlight(d) /\ upload[d] = "over"
                          /\ (\A w \in Workers : Doc(w) # d)
                            => status[d] = "indexed"

=============================================================================
