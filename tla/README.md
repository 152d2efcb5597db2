# Verification of the R&D hypothesis platform

TLA+ models, TLC runs and TLAPS proofs for the code under `src/`. Paths below
are relative to `src/backend/` unless they begin with `docs/`.

The platform ingests documents (upload, parse, OCR, split, embed, index), answers
questions over them, and generates and checks R&D hypotheses in background jobs.
Its own logic is what happens *between* services: work queues with retries, rows
and stores written by several processes, claims, locks and channels. That is what
is modelled here; extraction, prompts and numerical code are results that may come
out one way or another.

## 1. Inventory

| Component | State | Operations | Interacts through | Correct means |
|---|---|---|---|---|
| `platform/pkg/messaging` + RabbitMQ | queue, unacknowledged deliveries, dead-letter queue, Go delivery channel, running handlers | `PublishProto`, `Consume`, `dispatch` | AMQP | a confirmed message is never lost; nothing settled without cause; one retry; every message settles |
| main-service ingestion (`internal/application/ingestion.go`) | document rows | `FinalizeObject`, `registerDuplicate`, `dispatch`, `RequeueStuck` | db-service, queues | an accepted document is decided; copies stay out of the pipeline |
| pdf, ocr, office, email, db parsers, vlm-service | none of their own | `Process`, `fail` | queues, S3, row status | no job dropped between two stages |
| chunk-splitter | window and carry, the batch in flight, Qdrant and OpenSearch | `Indexer.Process`, `indexChunks`, `startBatchWrite`, `settleWrite`, `LocateOffsets`, `segment` | queue, two stores | what is called indexed is completely in both stores, with right offsets |
| archive-worker | rows of the entries, hashes seen in this archive | `Process`, `registerEntries`, `registerOne`, `registerEntry` | archive-scan, db-service, its own queue | no entry vanishes; equal bytes are indexed once; nesting ends |
| main-service hypothesis jobs | job records, id lists and claims in Valkey, a semaphore per replica | `Enqueue`, `resumeQueued`, `run`, `startHeartbeat`, `Get` | Valkey, the LLM | no job run twice at a time; results final; accepted jobs decided |
| main-service WebSocket hub | registry of clients, a channel per client | `Register`, `Broadcast`, `unregister`, `ReadLoop`, `writePump` | mutex, channels, browsers | clients come and go without hurting the process |
| main-service uploads | sessions in Valkey, multipart uploads in S3 | `Begin`, `PartURLs`, `Complete`, `Abort` | Valkey, S3, ingestion | a completed object becomes a document; nothing orphaned |
| llm-service answers, with the epochs main-service counts up | answer cache keyed by corpus epoch, a query's evidence | `Answer`, `AnswerAgentic`, `IncrTTL`, `HandleEvent` | Valkey, Qdrant, OpenSearch, events | who was told of a document is not answered from before it; no answer crosses owners |
| auth | sessions, refresh tokens, a login counter | login, refresh, logout | Valkey, db-service | a refresh token is good until logout or its expiry |
| archive-scan (Rust) | scan jobs, idempotency keys, result artifacts, runners | create, run, cancel, take over at a start, purge, collect | Postgres and S3 (or memory, file, Redis) | one job per key; ended jobs final; results as long as their jobs; every job ends |
| db-service | Postgres | one statement per call | gRPC | (assumed: the statements used by the models) |
| workers (cluster, discovery, raptor, itc), graph-compute, model servers, eval, frontend, nginx | derived tables or none | batch passes, inference, views | | |

Hard behaviour, in short: handlers interrupted between any two of their network
calls and run again; a broker flag (`Redelivered`) that stands for "this was the
second failure"; several writers of one status column; a dual write to two stores
running behind an embedding; claims and heartbeats with a time to live; a mutex that
is released between two uses of what it guards. `PROJECT.json` lists the hazards,
each at its line, with the properties that would catch it.

## 2. Modules

| Module | Models | State | Actions |
|---|---|---|---|
| `Delivery` | what the users of a queue rely on: at-least-once with one retry | fate, retried, promised | Accept, Promise, Retry, Finish, GiveUp |
| `Messaging` | `platform/pkg/messaging/messaging.go` and the broker | the broker's ledger (`ready`, `unacked`, `acked`, `dead`, `redelivered`) apart from the process's (`buffered`, `handling`, `phase`) | Send, Confirm, Subscribe, Deliver, Dispatch, the ends of a handler, ChannelLost, Shutdown, Crash, Exit |
| `MessagingProofs` | theorems on `Messaging` | | |
| `Ingestion` | main-service `ingestion.go`, the parsers' `processor.go`, the indexer's status writes, `queries/documents.sql` | rows, queues as bags of jobs, worker program counters, the two stores | one action per call of `FinalizeObject` and of a handler; Ack, Nack, Expire, LoseChannel, CrashWorker, RequeueOne |
| `IngestionProofs` | theorems on `Ingestion` | | |
| `Archive` | archive-worker `processor.go` | rows, deliveries, a sub-state per entry, the worker's queue | Begin, Extract, Claim, Lookup, Create, Publish, Mark, Joined, Finish, Report, Fail, faults |
| `ArchiveProofs` | theorems on `Archive` | | |
| `Windows` | `CollapseTracking`, `windowEnd`, `tailRunes`, `Split`, `normalizeWithMap`, `LocateOffsets` as functions | none | |
| `Indexer` | chunk-splitter `indexer.go` `Process` | position in the text, chunks made, batch in flight, both stores | Window, Embed, Settle, SettleLast, Upsert, Index, Fail, Indexed, Redeliver, Crash |
| `IndexerProofs` | theorems on `Indexer` | | |
| `Structure` | `splitter/structure.go` `segment` and `attachCaptions` | lines read, blocks | TakeTable, TakeLine, Return |
| `Hub` | main-service `ws/hub.go` | registry, channels, connections, pumps, the consumer's snapshot | one per stretch between two uses of the mutex |
| `HubProofs` | a theorem on `Hub` | | |
| `HypothesisJobs` | main-service `hypothesis_jobs.go` | records, list, claims, enqueuing calls, goroutines | Enqueue in three calls, Resume, Claim, Acquire, Start, Heartbeat, Finish, SaveResult, Release, Lapse, BecomeStale, Crash |
| `HypothesisJobsProofs` | theorems on `HypothesisJobs` | | |
| `JobLifecycle` | what a client of archive-scan sees of its jobs, whichever replica answers | stage, ended, clock | Step, Passes |
| `ScanJobs` | archive-scan `service.rs`, `job_workflow.rs`, `jobs/postgres_backend.rs`, `result_store/s3.rs` | the job table, idempotency rows, artifacts, a runner per replica and job | Create, Cancel, Read, Run (mark running, scan, name the result, write it, mark succeeded or failed), Restart, Collect, Crash, Tick |
| `ScanJobsProofs` | theorems on `ScanJobs` | | |
| `Answers` | llm-service `service.go`, `agentic.go`, `cache/valkey.go`; main-service's epoch bump; the indexer's two writes | the stores, epochs, the cache, each query's scope, key and evidence | Upsert, Bulk, Refresh, CountShared, CountOwner, Announce, one action per call of `Answer` and `AnswerAgentic`, Expire, Lapse |
| `AnswersProofs` | theorems on `Answers` | | |

`Messaging` proves what `Ingestion` and `Archive` then take a queue to be: a job
comes with its flag, fails once or twice, comes back after a crash. Modules named
`MC...` give the constants their small values.

Conventions. A network call whose outcome the caller cannot know (a lost confirm,
a failed `SET`, a failed upsert) has three outcomes: done, not done, and reported
as failed but done. Timers are actions that may happen when the code's clock allows
them at all. A crash takes all goroutines of a process, never the stores. A
definition whose comment begins with `Mutant:` is a plausible bug of the code; putting
it in the place of the definition it varies must break the property it is
listed with.

## 3. Runs

| Run | Question | Bounds |
|---|---|---|
| `MCMessaging` | Custody, confirmed messages kept, settled for cause, inductive invariant, refinement of `Delivery`, everything settles | 2 messages, 2 consumers with one handler and one buffered delivery each, one interruption anywhere |
| `MCIngestionScan` | a scanned PDF through three stages: nothing lost, a half-written index pursued, `indexed` means searchable, no job at a stage that cannot read it, decided in the end | 1 document, a worker per stage, failing work, 1 cut, 1 operator requeue |
| `MCIngestionCopies` | two equal notes at once: nothing lost, copies stay out | 2 documents, 2 replicas, lost confirms, failing lookups, timeouts, 1 cut |
| `MCArchive` | no entry vanishes, identical files indexed once, every delivery ends and none is left queued | an archive of two equal files, a file the catalogue has already and a nested archive, which holds junk and an archive one level too deep; depth 2, as in the code; 3 goroutines for 2 slots; a publish that may fail; 1 cut; 1 file the pipeline may give up |
| `MCIndexer` | complete in both stores, `written` durable, no write outlives its delivery, exact offsets, every window ends farther on, returns | texts of 6 runes with up to 2 spaces, inside or at the ends, with or without 2 wide runes and a second page; one that repeats itself; one cut off in front of a page; four with single letters set apart, a run behind a boundary, over one, or ending past one, and one too short for a run; window 3 bytes, overlap 1, chunks of 2; every split; 2 attempts |
| `MCHypothesisJobs` | few runners and few starts, only queued jobs start, results final, accepted jobs decided | 2 background jobs, 2 replicas, 2 goroutines, 1 slot; one failing call, one crash, one lapse |
| `MCScanJobs` | the replicas implement `JobLifecycle`, unfinished jobs pursued, one job per key | 2 jobs, one with a large result, 2 replicas, 1 key, 2 seconds, one failing call, one crash; both retentions 1 second |
| `MCScanJobsEnd` | results stay while the second in their names is young, artifacts have an owner, every job ends | 1 job with a large result, 2 replicas, 3 seconds, 2 failing calls, 2 crashes, with fairness; both retentions 1 second; a write may take any of the seconds |
| `MCAnswers` | announced documents are seen, answers stay in their scope | 1 document, 2 owners, 2 queries of either owner, one with up to 2 searches; shared corpus or not; any call may fail; one epoch lost |

Violations, each a disagreement of the code with a sentence of its own:

| Run | What the counterexample shows |
|---|---|
| `MCIndexedInTheEnd` | a parser publishes the next job and *then* writes `parsed`; the chunk-splitter's `indexed` is overwritten for good (docs/ARCHITECTURE.md:59) |
| `MCBlocksReconstruct` | a caption right below a table is consumed but the reader does not advance past it: the line is in the blocks twice (structure.go:143 and 149) |
| `MCNoPanic` | `Broadcast` sends, without the lock, on a channel `unregister` has closed: the process panics (hub.go:3) |

Three more disagreements are no violation of a property, and the passing runs show them.
`MCMessaging`: three comments say that an error dead-letters a message at once, and
`SettledForCause` holds, by which a first delivery is never given up. `MCIndexer`:
chunks keep to the page boundaries `Process` works with, which in a letter-spaced text
are not those of the pages. `MCScanJobsEnd`: a result is kept for as long as its name is
young, which with equal retentions can be shorter than its job is served. Section 5 has
the details of each.

Why the bounds are enough. Two actors and one interruption give every pair of
concurrent steps of a protocol whose messages are independent of each other;
a retry budget of one needs two deliveries and one more. Six runes with a window
of three bytes give windows that end in a wide rune, at a space, at a page and
at the text's end, with and without carry. Two entries with equal bytes, an
archive that is unpacked and one below it that is refused, and one goroutine more than
there are slots are the smallest cases of the archive's hazards. Two
replicas of archive-scan are enough for a take-over of a living replica's job, and
three seconds for a result named, written or recorded, and collected in different
ones; with two its job runs, ends and expires. Two queries are a writer and a reader of one cached answer, and one document
is new to exactly one of them. The proofs remove the bounds for every invariant, action
property and refinement of the passing runs; what they leave to TLC is liveness.

`CHECK_DEADLOCK FALSE` is set where the system really comes to rest: all messages
settled, all documents decided, all jobs finished, or interruptions used up.

### Fairness

Weak fairness only, on what the runtime schedules: goroutines run on, calls
return (each has a deadline), a channel that is lost is noticed (`NotifyClose`),
supervisors restart processes, tickers tick, keys expire. No fairness for
failures, crashes, operators or new work. `MCMessaging` takes interruptions to be
finitely many, by `MaxInterrupts`: a message whose handlers die for ever is delivered
for ever, since only a handler that returns an error dead-letters it.
In `MCArchive` it is enough that *some* handler or delivery goes on (one `WF` for all
of them, weaker than one for each): interruptions and deliveries are bounded, so no step
can be repeated for ever. In `MCIndexer` a delivery returns because windows advance (`WindowsAdvance`) and each path of the
write goroutine answers its channel. In `MCHypothesisJobs` `execute` returns (the
model calls have timeouts) and `AcceptedIsDecided` rests on the stale-heartbeat
rule of `Get` for jobs whose process died. In `MCScanJobsEnd` runners run on and dead
replicas are restarted; a job whose runner dropped an error is excused, since only
the next start of a process takes it up.

## 4. Proofs

TLAPS, for all values of the constants that satisfy the modules' `ASSUME`s.

`MessagingProofs`: any number of messages, consumers, slots, interruptions.
`Custody` is not inductive alone. The invariant `IndInv` adds `LedgerAgrees` (while
its channel is open a process holds what the broker thinks it holds, so an ack
settles the right message), `ClosedHoldsNothing` (a stale ack reaches nobody),
`FailedIsFlagged` and `NoPoisonLoop` (a failed message carries the flag, so a
second failure ends it) and `SentOnce`. Proved: `Inductive`, `TypeCorrect`,
`CustodyHolds`, `NoConfirmedLoss`, `RetryBudget`, and `Refinement`, that the
library with its broker implements `Delivery`: `Fate` reads a message's abstract
state off the ledger, and each step is a step of it or a stutter.

`HypothesisJobsProofs`: any number of jobs, replicas, goroutines, failed calls and
crashes. Two bounds hold whatever lapses. `Exclusion`: one goroutine runs a job, and one
more at most for each claim that lapsed under its runner; `RunnersPaid` adds one to
the runners of a job whose claim is free, and only a lapse under a runner raises the
sum. `FewStarts`: `StartsPaid` adds up, for each job, its starts, the runners that have
its claim and will start it (`Entitled`), and one more if the claim is free for the
taking (`Claimable`), and the sum grows only with a failed call or a lapse under a
runner. A claim that lapses with nobody behind it is free again only while the record
says queued, and such a record has lost a save for each start: the second half of
`StartsPaid`.

The rest is about runs in which no claim lapses under a living runner (`lapses = 0`,
section 5). `StartsOnlyQueued` and `FinishedIsKept` need that the record of a runner's job
still says `queued` when it starts, and that whoever is past the claim holds it alone:
`RecordAgrees` and `OneRunner`. A runner launched on a record read earlier is harmless
because either the record still says `queued` or the claim is taken. That needs in turn
that nobody but `Enqueue` knows a job before its last push: `Unasked`. Proved: `Invariance`
(of `IndInv`), `TypeCorrect`, and the action properties `StartsQueued` and
`ResultsAreFinal`.

`IngestionProofs`: any documents, worker processes, failures, crashes and requeues.
`NothingLost` needs to know what a stage still owes: `Pursued` says that a document
a worker has in hand, or that was accepted, or that one of the stores holds, is
*kept* at its stage: it has a job there, or is dead-lettered, or is ahead of it,
searchable or kept at a stage its stage leads to. A worker that is about to
acknowledge owes nothing: its document is ahead. Each failure leaves the job or
moves it to the dead letters, and each success creates the next job before it gives
up its own. `Routed`, the part of
`TypeOK` that is not about types, says that jobs, dead letters and handlers are only at
the stages of their document's kind; each enqueuing step goes to one (`RouteOnPath`) and each
requeue stays at one. Proved: `TypeCorrect`, `NeverLost`, `HalvesPursued`, `IndexedFound`, and
`CopiesApart`, for which `Apart` says that a document not yet dispatched, or
registered as a copy, has met no queue, worker or store.

`ArchiveProofs`: any archives, deliveries and interruptions. `NothingVanishes` rests
on `Sound`: each state of an entry is true to it (published means there is a row,
duplicate means bytes that are covered, skipped means junk), and a delivery reports
only when all its entries are over. `NeverTwice` adds that of equal entries the loop
has begun one only (`Distinct`), and that what is still to be published is the first
with its bytes (`First`), while no two deliveries overlapped and no lookup failed
(`Alone`).

`IndexerProofs`: any texts, window sizes, overlaps, splittings, batch sizes and faults.
`ReturnsQuietly` from `Quiet`: between windows and at the return no write is in flight.
`CountIsDurable` from `Account`: the books say that the batches embedded so far are
exactly the chunks written and the batch in flight, which begins right behind the
written ones, so that settling it extends the durable prefix; and `Durable` says what
each stage of a write has put into which store. A failed call that took effect, and a
redelivery over old contents, touch no index that is counted.

`IndexedComplete`, `ProvenanceExact`, `WindowsGoOn` and `TypeCorrect` rest on `Course`,
which says where `Process` is in the text, and on what the pure functions compute:

- A window ends on a rune, behind its start (`WindowEndIsBoundary`; a window must hold the
  widest rune, which is why `SplitWindow` is at least 2). Its segment, carry included, is
  a stretch of the document: the carry is the stretch that ends where the window starts,
  and no page begins inside it (`Place`, `Clean`). So `windowBaseRune` is right.
- However a segment is split, the chunks advance, each has a letter and each letter is
  in a chunk (`SplitCovers`): every letter behind `start` is covered (`Covered`), and when
  the text is used up, every letter is. `Account` has each of these chunks in both stores.
- Collapsing whitespace keeps letters in order and gives the chunk's runes as a run of
  the segment's (`KeptStretch`, `NeedleIs`). In a stretch without repetitions the first
  match of a chunk therefore is at its first letter (`LocateExact`), and since chunks
  advance, the cursor has passed it only if the chunk before begins with the same
  letters (`ChunksLocated`). Moved by the base, each chunk fits its place (`Fits`).
- Taking the spaces out of letter-spaced runs leaves a text, with every letter in order
  (`CollapseGivesText`), whatever the parser's offsets are: nothing else is assumed of
  `pages`, and no relation of them to where the pages begin.

`LocateOffsets` is a loop; the induction over its chunks is carried out on a predicate of
its own, from the least number for which it would fail (`Inductive`). `ProvenanceExact` is
about texts without repetitions where offsets are concerned, and about all texts where
pages are: no chunk has letters from both sides of a boundary `Process` works with. That
these are the boundaries of the pages is the hypothesis of its last conjunct
(`text.begins \subseteq text.pages`), and not so in every document, section 5.

`HubProofs`: any sockets, owners, buffers and events. `OpenAndOrdered`: a registered
socket's channel is open, so that three goroutines that unregister a socket close it
once; and its frames, the one in the pump's hand included, keep the order of their
events. What is left is the one use outside the mutex, which `MCNoPanic` shows.

`ScanJobsProofs`: any jobs, replicas, keys, times, faults and crashes. A call to the
store commits a purge and moves a few jobs along edges of `JobLifecycle`, or nothing
(`Commits`); hence `Implements`, with `EndsAreDated`. `KeysName` needs that rows of the
key table lead to jobs not expired, `ArtifactsOwned` and `JobsPursued` that a runner is
where its job says. `ResultsKept` is about time, and about nothing the
clock is kept from doing: writing and recording may take any number of seconds. `Safe` says
that what a runner carries is there and shares its name with nobody, and that what a
succeeded job refers to is there, both for as long as the name is `Young`; the collector
takes only names that are not.

`AnswersProofs`: any documents, owners, queries. `AnnouncedSeen` follows an epoch
through the system: what was counted is in the stores (`Marked`), an answer of the
cache saw what had been counted at its key (`Current`), so does a query that searched
without failure (`Searched`), and the epoch a query read counts all it was told of
(`Owes`). `StayInScope` needs only that every cached answer holds documents of the
owner in its key.

Only model-checked: liveness (`EventuallySettled`, `EventuallyDecided`,
`EventuallyUnpacked` (so that archives nested deeper than the code's own limit of two
are not covered), `EventuallyReturns`, `AcceptedIsDecided`, `JobsEnd`), which is out of
the prover's reach, and the three violations, which are counterexamples. The safety
half of two liveness properties is proved: `WindowsGoOn` is the progress of
`EventuallyReturns` through the text, and `JobsPursued` says that each unfinished job of
`JobsEnd` has somebody to end it.

## 5. Assumptions, and what was found besides the runs

- Jobs. The claim lives six hours (`hypothesisJobClaimTTL`) and is taken before
  the semaphore: a job that waits that long can be claimed again, and then runs
  twice, against hypothesis_jobs.go:192-194 ("keeps multiple main-service replicas
  from executing the same queued job concurrently"). `MaxLapses` lets it happen in
  the run; `ClaimsExclude` and `StartsAreFew` count each lapse as one more runner and start,
  `StartsOnlyQueued` and `FinishedIsKept` are stated for `lapses = 0`. A crash just after the
  claim leaves a job queued for up to six hours. A request cut between the record
  and the global list leaves a queued job that nobody resumes. A job pushed off the
  list of 1000 is not resumed either: `AcceptedIsDecided` is checked with room for all
  jobs. Records are taken to outlive their jobs (seven days).
- Messaging. Three comments describe a library without a retry: messaging.go:176-177
  ("returning an error nacks it without requeue, sending it to the DLX"),
  chunk-splitter/internal/application/indexer.go:333-334 ("A returned error causes the
  message to be dead-lettered") and archive-worker's processor.go:77. `dispatch` requeues
  the first failure (messaging.go:263-268), and the models follow the code: in `Delivery`
  and in `SettledForCause` no first delivery is given up. What the comments say is the mutant
  `DeadLetterAtOnce`, which breaks `ImplementsDelivery`. messaging.go:264-265 says a message "gets one retry", but a crash or a
  lost channel uses the retry up. An error of a handler whose channel has been lost
  reaches nobody.
- Ingestion. The last `failed` status is written on the context that timed out
  (pdf-parser processor.go:177-187), so a dead-lettered document may keep an
  intermediate status: `EventuallyDecided` counts the dead-letter queue, not the
  status. chunk-splitter and archive-worker write `failed` while a retry is pending.
  A copy is registered `indexed` as soon as any row with its bytes has not failed,
  although that row may still fail (ingestion.go:94-96, documents.sql:10-16).
- Archive. A row whose publish was lost is taken for a duplicate by the redelivery
  (processor.go:116-141, 262-270); `NoEntryVanishes` is satisfied because the row is
  in the catalogue, where the operator can requeue it. Two deliveries of archives
  side by side can both register equal bytes: `IndexedOnce` excludes overlaps.
- Indexer. `CollapseTracking` takes the spaces out of letter-spaced runs (indexer.go:371),
  and `parseDocStructure` then lays the parser's `page_offsets` over the shorter text as they
  are (indexer.go:389, 922-933): every boundary behind such a run is late, chunks can
  have letters of two pages, and one offset behind the new end drops all of them
  (`validPageOffsets`; so does a text that `capTextToMax` cut off in front of a page). The
  comments say that no chunk spans two pages (410), that gaps of two or more are
  preserved (368-370; `maxConnectorGap` = 2 takes double ones out) and that offsets are
  derived after the collapse. In the model, `pages` are the offsets `Process` uses and
  `begins` where the pages really begin. In a text that repeats itself a chunk gets the offsets of the first
  occurrence behind the cursor, which need not be its own (offsets.go:13, 126);
  `ProvenanceIsExact` is about texts without repetitions. `Splits` takes chunks as consecutive pieces of the segment, that is,
  it assumes blocks that reconstruct the source: `MCBlocksReconstruct` shows one case
  where they do not. A chunk that repeats the whole chunk before it as its overlap
  is not located. A document indexed again into fewer chunks keeps
  orphans (indexer.go:875-882).
- Scan jobs. The collector goes by the second in an artifact's name, taken before its
  PUT, which may take 30 s; the purge goes by the later second of the record. The code
  enforces only that artifacts are retained at least as long as jobs (jobs.rs:200-203,
  `Retention <= ArtifactRetention`), and the defaults are equal (3600 s): a result that took
  longer to write and record than the two differ by can be collected before its job has
  expired, and the job is then served without it. `ResultIsKept` therefore promises a
  result only until its name is older than `ArtifactRetention`. `with_transaction` returns an error after its commit when deleting a
  deferred artifact fails: `mark_succeeded` then deletes the artifact it has just
  recorded, and `mark_running` leaves a running job without a runner (`spoiled`,
  `dropped`). Artifact names have a resolution of one second: of two replicas that
  run one job and write in the same second, the loser deletes the winner's result,
  and a starting replica does requeue the jobs of living ones. Errors of the store in
  a runner are dropped: the job stays as it is until some process starts. A start
  skips rows that are locked at that moment.
- Answers. The lexical index refreshes every five seconds (opensearch.go:65) while the
  epoch is counted up at once: an answer in between misses the new texts and is cached
  under the new epoch for `ANSWER_CACHE_TTL`; these documents are `late` and excused in
  `AnnouncedIsSeen`. An epoch that expires (30 days) restarts the counter, and a lost
  increment or event leaves old answers valid (`lapsed`). Errors of the agentic graph
  and reasoner do not mark a run degraded, so that its answer is cached. `IncrTTL` is
  an INCR followed by an EXPIRE, not atomic as valkey.go:140 says; the gauge of active
  queries can drift below zero when its key expires between its two uses
  (load/valkey.go:38-41). One replica of main-service counts the epochs.
- Uploads. After an error of `FinalizeObject` a retried `Complete` fails for good in
  `CompleteMultipart`, although the object is there (uploads.go:202). Dropped errors of
  `AbortMultipart`, and a session's expiry, leave multipart uploads behind in S3; a
  dropped error of `Del` leaves a session that can no longer be completed.

Not modelled, with the reasons: see `components` in `PROJECT.json`. In short:
extraction, prompts, ranking, clustering and the user interface are pure data or
pure I/O; auth and db-service are single calls without a step between them that
another request could disturb; upload sessions are serialised by S3, where an upload
is completed or aborted once. Within modelled components: `ensureAutoJobs` with its
best-effort limit, the other job stores of archive-scan, the load gauge and the
graph's chunks of an agentic answer.

## 6. Plan

Done, in this order: `Messaging` with its proofs and `Delivery`; `Ingestion`;
`Archive`; `Windows`, `Indexer`, `Structure`; `Hub`; `HypothesisJobs` with its proofs;
`ScanJobs` with `JobLifecycle` and its proofs; `Answers` with its proofs; the proofs of
`Archive`, `Ingestion`, `Indexer` and `Hub`. Every invariant, action property and refinement
that a run checks is proved.

Left, in the order of what it would show:

1. `UploadSessions`: sessions against multipart uploads, retry of `Complete`, expiry,
   composed with `FinalizeObject`.
2. `ensureAutoJobs` with its markers, added to `HypothesisJobs`.
3. The Redis job store of archive-scan, shown to implement `JobLifecycle` as Postgres
   does.
4. More than one replica of main-service in `Answers`, and the load gauge.
