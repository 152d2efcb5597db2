------------------------------ MODULE Archive ------------------------------
(***************************************************************************)
(* archive-worker: one delivery unpacks an archive and registers every      *)
(* entry as a document of its own - find it by hash, create the row,        *)
(* publish it, mark it queued - with the entries of one archive side by     *)
(* side.  A nested archive goes back to the worker's own queue, one level   *)
(* deeper.  Deliveries can be redelivered after a failure, a crash or a     *)
(* lost channel, and then find the rows of the interrupted attempt.         *)
(***************************************************************************)
EXTENDS Naturals, FiniteSets, Sequences, SequencesExt

CONSTANTS Items,          \* files and archives that can be found in archives
          Archives,       \* the items that are archives themselves
          Root,           \* the archive that was uploaded
          Uploaded,       \* files that were uploaded before and are indexed
          Content,        \* Content[a]: the entries of archive a, in order
          Hash,           \* Hash[i], or NoHash if archive-scan sent none
          NoHash,
          Junk,           \* items that never become documents
          Nobody,         \* no row
          MaxDepth,       \* maxDepth
          Workers,        \* WORKER_CONCURRENCY: deliveries per process
          Concurrency,    \* registerConcurrency
          Faults,         \* the calls that may fail, as <<call, item>>: "extract",
                          \* "lookup", "create", "publish", "status"
          Fragile,        \* files the pipeline may give up
          MaxDeliveries,  \* bound: deliveries of archives
          MaxCuts         \* bound: crashes, lost channels, timeouts

Deliveries == 1..MaxDeliveries

\* A row is created by one delivery for one item; delivery 0 is the upload.
Rows == Items \X (0..MaxDeliveries)

RowStatuses == {"none", "uploaded", "queued", "parsing", "indexed", "failed"}

Jobs == [row : Rows, depth : Nat, redelivered : BOOLEAN]

ASSUME ArchiveAssumption ==
    /\ Archives \subseteq Items
    /\ Root \in Archives
    /\ Content \in [Archives -> Seq(Items)]
    /\ \A a \in Archives : IsInjective(Content[a])
    /\ DOMAIN Hash = Items
    /\ Uploaded \subseteq Items \ Archives
    /\ \A i, k \in Uploaded : Hash[i] = Hash[k] /\ Hash[i] # NoHash => i = k
    /\ Junk \subseteq Items \ Archives
    /\ Nobody \notin Rows
    /\ MaxDepth \in Nat
    /\ Workers \in Nat \ {0}
    /\ Concurrency \in Nat \ {0}
    /\ MaxDeliveries \in Nat
    /\ Fragile \subseteq Items \ Archives
    /\ MaxCuts \in Nat

VARIABLES status,     \* status[r] of the document row r
          published,  \* rows whose job the broker took
          queue,      \* the jobs of parse.archive
          dead,       \* rows whose archive job was dead-lettered
          run,        \* run[t]: delivery t and where its handler is
          entry,      \* entry[t][i]: how far delivery t is with item i
          givenUp,    \* history: published files the pipeline gave up
          overlapped, \* history: two deliveries were handled at the same time
          cuts

vars == <<status, published, queue, dead, run, entry, givenUp,
          overlapped, cuts>>

history == <<givenUp, overlapped>>

EntrySteps == {"todo", "claimed", "create", "publish", "mark",
               "registered", "duplicate", "failed", "skipped"}
RunSteps   == {"new", "start", "extract", "unpack", "report", "ack", "fail",
               "nack", "gone"}

NoRun == [at |-> "new", row |-> Nobody, depth |-> 0, redelivered |-> FALSE,
          live |-> TRUE, expired |-> FALSE]

TypeOK ==
    /\ status \in [Rows -> RowStatuses]
    /\ published \subseteq Rows
    /\ queue \subseteq Jobs
    /\ \A j \in queue : j.depth <= MaxDepth
    /\ dead \subseteq Rows
    /\ run \in [Deliveries -> [at : RunSteps, row : Rows \cup {Nobody},
                               depth : 0..MaxDepth,
                               redelivered : BOOLEAN, live : BOOLEAN,
                               expired : BOOLEAN]]
    /\ entry \in [Deliveries -> [Items -> EntrySteps]]
    /\ givenUp \subseteq published
    /\ overlapped \in BOOLEAN
    /\ cuts \in 0..MaxCuts

RootRow   == <<Root, 0>>
Catalogue == Uploaded \X {0}

NoEntries == [i \in Items |-> "todo"]
Job(r, depth, redelivered) ==
    [row |-> r, depth |-> depth, redelivered |-> redelivered]

\* The archive was uploaded and main-service published it.
Init ==
    /\ status = [r \in Rows |-> IF r = RootRow THEN "queued"
                                ELSE IF r \in Catalogue THEN "indexed" ELSE "none"]
    /\ published = {RootRow} \cup Catalogue
    /\ queue = {Job(RootRow, 0, FALSE)}
    /\ dead = {}
    /\ run = [t \in Deliveries |-> NoRun]
    /\ entry = [t \in Deliveries |-> NoEntries]
    /\ givenUp = {}
    /\ overlapped = FALSE
    /\ cuts = 0

-----------------------------------------------------------------------------
Running(t) == run[t].at \notin {"new", "gone"}
Sick(t)    == run[t].expired
Archive(t) == run[t].row[1]

\* What the archive of delivery t contains.
Entries(t) == ToSet(Content[Archive(t)])

\* A call of delivery t about an item may fail: by itself, or because its
\* context is dead.
Fails(t, call, i) == Sick(t) \/ <<call, i>> \in Faults

Goto(t, from, to) == /\ run[t].at = from
                     /\ run' = [run EXCEPT ![t].at = to]

\* setStatus: best effort, and in vain on a dead context.
SetStatus(r, new, sick) ==
    \/ ~sick /\ status' = [status EXCEPT ![r] = new]
    \/ (sick \/ <<"status", r[1]>> \in Faults) /\ UNCHANGED status

\* The broker delivers a job to a free worker; a handler whose channel is gone
\* belongs to a process that is going down and keeps nobody waiting.
Deliver(t) ==
    /\ run[t].at = "new"
    /\ Cardinality({u \in Deliveries : Running(u) /\ run[u].live}) < Workers
    /\ \A u \in Deliveries : u < t => run[u].at # "new"
    /\ \E j \in queue :
        /\ queue' = queue \ {j}
        /\ run' = [run EXCEPT ![t] =
                     [at |-> "start", row |-> j.row, depth |-> j.depth,
                      redelivered |-> j.redelivered, live |-> TRUE,
                      expired |-> FALSE]]
    /\ overlapped' = (overlapped \/ \E u \in Deliveries : Running(u))
    /\ UNCHANGED <<status, published, dead, entry, givenUp, cuts>>

\* Mutant: the depth guard is off by one.
BeginTooDeep(t) ==
    /\ IF run[t].depth > MaxDepth
       THEN /\ Goto(t, "start", "ack")
            /\ SetStatus(run[t].row, "failed", Sick(t))
       ELSE /\ Goto(t, "start", "extract")
            /\ SetStatus(run[t].row, "parsing", Sick(t))
    /\ UNCHANGED <<published, queue, dead, entry, history, cuts>>

\* Too deep an archive is refused for good; any other is unpacked.
Begin(t) ==
    /\ IF run[t].depth >= MaxDepth
       THEN /\ Goto(t, "start", "ack")
            /\ SetStatus(run[t].row, "failed", Sick(t))
       ELSE /\ Goto(t, "start", "extract")
            /\ SetStatus(run[t].row, "parsing", Sick(t))
    /\ UNCHANGED <<published, queue, dead, entry, history, cuts>>

\* archive-scan unpacks it under keys that only depend on the document, or
\* fails; too many entries count as a failure.
Extract(t) ==
    /\ \/ Goto(t, "extract", "unpack") /\ ~Sick(t)
       \/ Goto(t, "extract", "fail") /\ Fails(t, "extract", Archive(t))
    /\ UNCHANGED <<status, published, queue, dead, entry, history, cuts>>

-----------------------------------------------------------------------------
(* registerEntries: a loop that claims hashes and starts one goroutine per   *)
(* entry, and the goroutines.                                                *)

EntryStep(t, i, from, to) == /\ entry[t][i] = from
                             /\ entry' = [entry EXCEPT ![t][i] = to]

\* seenHashes: the loop has started an entry with these bytes before.
Seen(t, i) == /\ Hash[i] # NoHash
              /\ \E k \in Entries(t) :
                    /\ Hash[k] = Hash[i]
                    /\ entry[t][k] \notin {"todo", "skipped"}

\* The loop reaches entry i next: it has reached all the entries before it.
Upcoming(t, i) ==
    \E n \in DOMAIN Content[Archive(t)] :
        /\ Content[Archive(t)][n] = i
        /\ \A m \in 1..n : entry[t][Content[Archive(t)][m]] = "todo" <=> m = n

\* Mutant: identical entries are left to the lookup in the database.
ClaimUnseen(t) ==
    /\ ~Sick(t)
    /\ \E i \in Entries(t) :
        /\ Upcoming(t, i)
        /\ EntryStep(t, i, "todo", IF i \in Junk THEN "skipped" ELSE "claimed")
    /\ UNCHANGED <<status, published, queue, dead, run, history, cuts>>

\* The loop takes the next entry; it stops once the context is dead.
Claim(t) ==
    /\ ~Sick(t)
    /\ \E i \in Entries(t) :
        /\ Upcoming(t, i)
        /\ EntryStep(t, i, "todo", IF i \in Junk      THEN "skipped"
                                   ELSE IF Seen(t, i) THEN "duplicate"
                                   ELSE "claimed")
    /\ UNCHANGED <<status, published, queue, dead, run, history, cuts>>

\* FindDocumentByHash: any row with these bytes that has not failed.
Found(i) == /\ Hash[i] # NoHash
            /\ \E r \in Rows : /\ Hash[r[1]] = Hash[i]
                               /\ status[r] \notin {"none", "failed"}

Busy(t) == {i \in Items : entry[t][i] \in {"create", "publish", "mark"}}

\* A goroutine gets a slot of the semaphore and looks its hash up; a failed
\* lookup counts as a miss.
Lookup(t, i) ==
    /\ Cardinality(Busy(t)) < Concurrency
    /\ \/ Found(i) /\ ~Sick(t) /\ EntryStep(t, i, "claimed", "duplicate")
       \/ /\ ~Found(i) \/ Fails(t, "lookup", i)
          /\ EntryStep(t, i, "claimed", "create")
    /\ UNCHANGED <<status, published, queue, dead, run, history, cuts>>

\* CreateDocument; a call that failed may have created the row all the same.
Create(t, i) ==
    /\ LET created == [status EXCEPT ![<<i, t>>] = "uploaded"] IN
        \/ /\ ~Sick(t)
           /\ EntryStep(t, i, "create", "publish")
           /\ status' = created
        \/ /\ Fails(t, "create", i)
           /\ EntryStep(t, i, "create", "failed")
           /\ status' \in {status, created}
    /\ UNCHANGED <<published, queue, dead, run, history, cuts>>

\* The broker has the message: a nested archive is queued one level deeper.
Sent(t, i) ==
    /\ published' = published \cup {<<i, t>>}
    /\ queue' = IF i \in Archives
                THEN queue \cup {Job(<<i, t>>, run[t].depth + 1, FALSE)}
                ELSE queue

\* PublishProto: confirmed, or an error with or without the message taken.
Publish(t, i) ==
    /\ \/ ~Sick(t) /\ EntryStep(t, i, "publish", "mark") /\ Sent(t, i)
       \/ /\ Fails(t, "publish", i)
          /\ EntryStep(t, i, "publish", "failed")
          /\ Sent(t, i) \/ UNCHANGED <<published, queue>>
    /\ UNCHANGED <<status, dead, run, history, cuts>>

\* "queued" overwrites whatever the pipeline has written since the publish.
Mark(t, i) ==
    /\ EntryStep(t, i, "mark", "registered")
    /\ SetStatus(<<i, t>>, "queued", Sick(t))
    /\ UNCHANGED <<published, queue, dead, run, history, cuts>>

Register(t, i) == Lookup(t, i) \/ Create(t, i) \/ Publish(t, i) \/ Mark(t, i)

\* Mutant: a goroutine that failed does not call wg.Done.
JoinedUnlessFailed(t) ==
    /\ \A i \in Items : entry[t][i] \notin
                          {"claimed", "create", "publish", "mark", "failed"}
    /\ Sick(t) \/ \A i \in Entries(t) : entry[t][i] # "todo"

\* wg.Wait: the loop is over and every goroutine has returned.
Joined(t) == /\ \A i \in Items : entry[t][i] \notin
                                    {"claimed", "create", "publish", "mark"}
             /\ Sick(t) \/ \A i \in Entries(t) : entry[t][i] # "todo"

\* Mutant: the context is not looked at after the loop.
FinishUnchecked(t) ==
    /\ run[t].at = "unpack"
    /\ Joined(t)
    /\ Goto(t, "unpack", "report")
    /\ UNCHANGED <<status, published, queue, dead, entry, history, cuts>>

Finish(t) ==
    /\ run[t].at = "unpack"
    /\ Joined(t)
    /\ Goto(t, "unpack", IF Sick(t) THEN "fail" ELSE "report")
    /\ UNCHANGED <<status, published, queue, dead, entry, history, cuts>>

-----------------------------------------------------------------------------
(* The end of the delivery.                                                  *)

Report(t) ==
    /\ Goto(t, "report", "ack")
    /\ SetStatus(run[t].row, "indexed", Sick(t))
    /\ UNCHANGED <<published, queue, dead, entry, history, cuts>>

\* fail surfaces every failure, also one that will be retried.
Fail(t) ==
    /\ Goto(t, "fail", "nack")
    /\ SetStatus(run[t].row, "failed", Sick(t))
    /\ UNCHANGED <<published, queue, dead, entry, history, cuts>>

Leave(t) == /\ run' = [run EXCEPT ![t] = [NoRun EXCEPT !.at = "gone"]]
            /\ entry' = [entry EXCEPT ![t] = NoEntries]

Requeue(t) == queue' = queue \cup {Job(run[t].row, run[t].depth, TRUE)}

Ack(t) ==
    /\ run[t].at = "ack"
    /\ Leave(t)
    /\ UNCHANGED <<status, published, queue, dead, history, cuts>>

\* dispatch: a first failure is requeued, a second one dead-lettered; on a lost
\* channel the nack goes nowhere.
Nack(t) ==
    /\ run[t].at = "nack"
    /\ Leave(t)
    /\ IF run[t].live /\ ~run[t].redelivered
       THEN Requeue(t) ELSE UNCHANGED queue
    /\ dead' = IF run[t].live /\ run[t].redelivered
               THEN dead \cup {run[t].row} ELSE dead
    /\ UNCHANGED <<status, published, history, cuts>>

Cut == /\ cuts < MaxCuts
       /\ cuts' = cuts + 1

\* HandleTimeout passes, or the worker is shut down: the context dies.
Expire(t) ==
    /\ run[t].at \in {"extract", "unpack", "report"}
    /\ ~Sick(t)
    /\ Cut
    /\ run' = [run EXCEPT ![t].expired = TRUE]
    /\ UNCHANGED <<status, published, queue, dead, entry, history>>

Crash(t) ==
    /\ Running(t)
    /\ Cut
    /\ Leave(t)
    /\ IF run[t].live THEN Requeue(t) ELSE UNCHANGED queue
    /\ UNCHANGED <<status, published, dead, history>>

\* The broker redelivers while the handler goes on.
LoseChannel(t) ==
    /\ Running(t)
    /\ run[t].live
    /\ Cut
    /\ run' = [run EXCEPT ![t].live = FALSE]
    /\ Requeue(t)
    /\ UNCHANGED <<status, published, dead, entry, history>>

\* The pipeline gives up on a published file and its row says so.
ChildFails(r) ==
    /\ r[1] \in Fragile
    /\ r \notin givenUp
    /\ givenUp' = givenUp \cup {r}
    /\ status' = [status EXCEPT ![r] = "failed"]
    /\ UNCHANGED <<published, queue, dead, run, entry, overlapped, cuts>>

-----------------------------------------------------------------------------
Handle(t) == \/ Begin(t) \/ Extract(t) \/ Finish(t) \/ Report(t) \/ Fail(t)
             \/ Ack(t) \/ Nack(t)
             \/ /\ run[t].at = "unpack"
                /\ Claim(t) \/ \E i \in Entries(t) : Register(t, i)

Next == \/ \E t \in Deliveries : \/ Deliver(t) \/ Handle(t) \/ Expire(t)
                                 \/ Crash(t) \/ LoseChannel(t)
        \/ \E r \in published : ChildFails(r)

\* The worker goes on consuming and handling; as each delivery has finitely many
\* steps, it is enough that some step is taken as long as there is one.
Fairness == WF_vars(\E t \in Deliveries : Deliver(t) \/ Handle(t))

Spec     == Init /\ [][Next]_vars
FairSpec == Spec /\ Fairness

-----------------------------------------------------------------------------
(* Properties.                                                              *)

Known(i) == \E r \in Rows : Hash[r[1]] = Hash[i] /\ status[r] # "none"
Counted(t, i) == \E k \in Entries(t) :
                    Hash[k] = Hash[i] /\ entry[t][k] = "failed"

(* Status "indexed" on partial success: when an archive reports that it is   *)
(* unpacked, the bytes of every entry are in the catalogue - where the       *)
(* operator can requeue an "uploaded" row - or its message counts a failure. *)
(* No interrupted attempt, duplicate or failed sibling hides an entry.       *)
NoEntryVanishes ==
    \A t \in Deliveries : run[t].at = "report" =>
        \A i \in Entries(t) \ Junk :
            \/ \E r \in Rows : r[1] = i /\ status[r] # "none"
            \/ Hash[i] # NoHash /\ Known(i)
            \/ Counted(t, i)

LookupsAnswer == \A i \in Items : <<"lookup", i>> \notin Faults

(* Identical files are indexed once: as long as lookups answer and no two    *)
(* deliveries run side by side, two rows with the same bytes are never in    *)
(* the pipeline together, however often an archive is delivered and whatever *)
(* became of the calls of an earlier delivery.                               *)
IndexedOnce ==
    ~overlapped /\ LookupsAnswer =>
        \A q, r \in published \ givenUp :
            /\ {q[1], r[1]} \cap Archives = {}
            /\ Hash[q[1]] = Hash[r[1]]
            /\ Hash[q[1]] # NoHash
            => q = r

Idle == queue = {} /\ \A t \in Deliveries : ~Running(t)

(* No archive is left pending: the handler of every delivery returns, whether *)
(* its goroutines wait for a slot, fail or find the context dead, a nested    *)
(* archive that is published to the worker's own queue is unpacked in turn,   *)
(* and one that is too deep is refused and not delivered again.               *)
EventuallyUnpacked == <>[]Idle
=============================================================================
