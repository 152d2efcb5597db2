------------------------------ MODULE ScanJobs ------------------------------
(***************************************************************************)
(* The asynchronous scan jobs of archive-scan: replicas over one job store  *)
(* (Postgres) and one store of result artifacts (S3).  Each call to the job *)
(* store is a transaction that first purges the jobs whose retention is     *)
(* over; a runner marks its job running, scans, names the result after the  *)
(* second, writes it as an artifact and then marks the job succeeded, any   *)
(* number of seconds later; a replica that starts takes every unfinished    *)
(* job over, those of living replicas too.                                  *)
(*                                                                         *)
(* The request decides between the answers "existing" and "conflict" only   *)
(* and is left out, as is the id counter: an unused job stands for the next *)
(* id.  Expired rows a purge skips because they are locked are purged by     *)
(* the next call instead.                                                    *)
(***************************************************************************)
EXTENDS Naturals, FiniteSets

CONSTANTS Jobs,
          Large,             \* jobs whose result exceeds inline_max_bytes
          Replicas,
          Keys,              \* idempotency keys
          NoKey,             \* a request without one, or none
          Retention,         \* terminal_job_retention, in seconds
          ArtifactRetention, \* artifact_retention
          MaxTime,           \* bound: the last second
          MaxFaults,         \* bound: store calls that fail
          MaxCrashes         \* bound: processes that die

ASSUME ScanJobsAssumption ==
    /\ Large \subseteq Jobs
    /\ NoKey \notin Keys
    /\ {Retention, ArtifactRetention, MaxTime, MaxFaults, MaxCrashes} \subseteq Nat
    \* JobStore::new raises the retention of artifacts to that of the jobs.
    /\ Retention <= ArtifactRetention

VARIABLES state,     \* the row of a job, "none" before and "expired" after it
          updated,   \* the second in which an ended job was updated
          ref,       \* the second in the name of a succeeded job's artifact
          idem,      \* rows <<key, job>> of the idempotency table
          artifacts, \* <<job, second>> of the result store
          at,        \* at[r][j]: where replica r's runner of job j is
          wrote,     \* wrote[r][j]: the second it named the artifact after
          call,      \* call[r]: the key of a request whose source is checked, or NoKey
          up, clock, faults, crashes,
          \* What happened to a job or an artifact, for the properties only:
          dropped,   \* jobs whose caller left after an error
          spoiled,   \* jobs whose recording failed late or was contested
          leaked     \* artifacts nobody deleted after an error or a crash

store   == <<state, updated, ref, idem>>
runners == <<at, wrote>>
history == <<dropped, spoiled, leaked>>
vars == <<state, updated, ref, idem, artifacts, at, wrote, call, up, clock,
          faults, crashes, dropped, spoiled, leaked>>

Terminal == {"succeeded", "failed", "cancelled"}
InFlight == {"queued", "running"}
States   == {"none", "expired"} \cup Terminal \cup InFlight
Phases   == {"none", "created", "spawned", "scanning", "writing", "persisted"}
Times    == 0..MaxTime
Calls    == Keys \cup {NoKey}

TypeOK ==
    /\ state \in [Jobs -> States]
    /\ updated \in [Jobs -> Times]
    /\ ref \in [Jobs -> Times]
    /\ idem \subseteq Keys \X Jobs
    /\ artifacts \subseteq Large \X Times
    /\ at \in [Replicas -> [Jobs -> Phases]]
    /\ wrote \in [Replicas -> [Jobs -> Times]]
    /\ call \in [Replicas -> Calls]
    /\ up \in [Replicas -> BOOLEAN]
    /\ clock \in Times
    /\ faults \in 0..MaxFaults /\ crashes \in 0..MaxCrashes
    /\ dropped \subseteq Jobs /\ spoiled \subseteq Jobs
    /\ leaked \subseteq Large \X Times

Init ==
    /\ state = [j \in Jobs |-> "none"]
    /\ updated = [j \in Jobs |-> 0]
    /\ ref = [j \in Jobs |-> 0]
    /\ idem = {} /\ artifacts = {}
    /\ at = [r \in Replicas |-> [j \in Jobs |-> "none"]]
    /\ wrote = [r \in Replicas |-> [j \in Jobs |-> 0]]
    /\ call = [r \in Replicas |-> NoKey]
    /\ up = [r \in Replicas |-> TRUE]
    /\ clock = 0 /\ faults = 0 /\ crashes = 0
    /\ dropped = {} /\ spoiled = {} /\ leaked = {}

-----------------------------------------------------------------------------
(* Transactions.                                                             *)

Fault   == faults < MaxFaults /\ faults' = faults + 1
NoFault == UNCHANGED faults

Expired(j) == state[j] \in Terminal /\ clock - updated[j] >= Retention

\* What a transaction sees of a job after its purge.
Seen(j) == IF Expired(j) THEN "expired" ELSE state[j]

Unwritten == UNCHANGED <<state, updated, ref, idem>>

\* The purge and the rows S, all of them set to s.
Commit(S, s, c) ==
    /\ state' = [j \in Jobs |-> IF j \in S THEN s ELSE Seen(j)]
    /\ updated' = [j \in Jobs |-> IF j \in S /\ s \in Terminal THEN clock
                                  ELSE IF Expired(j) \/ j \in S THEN 0
                                  ELSE updated[j]]
    /\ ref' = [j \in Jobs |-> IF j \in S THEN c
                              ELSE IF Expired(j) THEN 0 ELSE ref[j]]

\* The rows of the idempotency table go with their jobs.
Kept(rows) == {row \in rows : ~Expired(row[2])}

Transition(S, s) == Commit(S, s, 0) /\ idem' = Kept(idem)

\* The artifacts of the purged jobs are deleted after the commit.
Deferred == {a \in artifacts : Expired(a[1]) /\ state[a[1]] = "succeeded" /\ ref[a[1]] = a[2]}

Deleted(gone) == artifacts' = artifacts \ gone /\ UNCHANGED leaked

\* Deletions of which some may fail.
Discard(S) == \E gone \in SUBSET S : /\ artifacts' = artifacts \ gone
                                     /\ leaked' = leaked \cup (S \ gone)

\* A failed call may have committed; its deletions are then made in part.
Uncertain(S, s) ==
    \/ Unwritten /\ UNCHANGED <<artifacts, leaked>>
    \/ Transition(S, s) /\ Discard(Deferred)

Only(j, s) == IF Seen(j) = s THEN {j} ELSE {}
Unended(j) == IF Seen(j) \in InFlight THEN {j} ELSE {}

-----------------------------------------------------------------------------
(* Requests.                                                                 *)

\* Mutant: the key is not looked at again when the job is made.
NeverTaken(k) == FALSE

Taken(k) == \E row \in Kept(idem) : row[1] = k

\* A request with a key looks the key up; when it is free the source is checked
\* before the job is made.
Resolve(r, k) ==
    /\ up[r] /\ call[r] = NoKey
    /\ \/ /\ NoFault
          /\ Transition({}, "none") /\ Deleted(Deferred)
          /\ call' = [call EXCEPT ![r] = IF Taken(k) THEN NoKey ELSE k]
       \/ /\ Fault
          /\ Uncertain({}, "none")
          /\ UNCHANGED call
    /\ UNCHANGED <<at, wrote, up, clock, crashes, dropped, spoiled>>

\* Mutant: a request without a key gets a row as well.
AddRowAlways(k, j) == Kept(idem) \cup {<<k, j>>}

AddRow(k, j) == IF k = NoKey THEN Kept(idem) ELSE Kept(idem) \cup {<<k, j>>}

\* The key may have been taken since: the insert then gives way to the row that
\* is there.  Otherwise the job is made and its runner is on its way.
Create(r, k, j) ==
    /\ up[r] /\ call[r] = k
    /\ state[j] = "none"
    /\ call' = [call EXCEPT ![r] = NoKey]
    /\ \/ /\ NoFault /\ Taken(k)
          /\ Transition({}, "none") /\ Deleted(Deferred)
          /\ UNCHANGED <<at, dropped>>
       \/ /\ NoFault /\ ~Taken(k)
          /\ Commit({j}, "queued", 0) /\ idem' = AddRow(k, j) /\ Deleted(Deferred)
          /\ at' = [at EXCEPT ![r][j] = "created"]
          /\ UNCHANGED dropped
       \/ /\ Fault
          /\ \/ Uncertain({}, "none") /\ UNCHANGED dropped
             \/ /\ ~Taken(k)
                /\ Commit({j}, "queued", 0) /\ idem' = AddRow(k, j)
                /\ Discard(Deferred)
                /\ dropped' = dropped \cup {j}
          /\ UNCHANGED at
    /\ UNCHANGED <<wrote, up, clock, crashes, spoiled>>

\* A status, a result or the metrics are asked for, or a runner polls: the
\* store is purged.
Read(r) ==
    /\ up[r]
    /\ \/ NoFault /\ Transition({}, "none") /\ Deleted(Deferred)
       \/ Fault /\ Uncertain({}, "none")
    /\ UNCHANGED <<at, wrote, call, up, clock, crashes, dropped, spoiled>>

\* Mutant: whatever the job came to meanwhile, it is cancelled.
CancelAnything(r, j) ==
    /\ up[r]
    /\ NoFault /\ Transition({j} \ {i \in Jobs : Seen(i) \in {"none", "expired"}}, "cancelled")
    /\ Deleted(Deferred)
    /\ UNCHANGED <<at, wrote, call, up, clock, crashes, dropped, spoiled>>

Cancel(r, j) ==
    /\ up[r] /\ state[j] # "none"
    /\ \/ NoFault /\ Transition(Unended(j), "cancelled") /\ Deleted(Deferred)
       \/ Fault /\ Uncertain(Unended(j), "cancelled")
    /\ UNCHANGED <<at, wrote, call, up, clock, crashes, dropped, spoiled>>

-----------------------------------------------------------------------------
(* The runner of a job.  Whatever its calls to the store return, it stops.   *)

Goes(r, j, from, to) == /\ at[r][j] = from
                        /\ at' = [at EXCEPT ![r][j] = to]

Drops(j) == dropped' = dropped \cup {j}

Forgets(r, j) == wrote' = [wrote EXCEPT ![r][j] = 0]

\* spawn_scan_job loads the cancellation state of the job first.
Launch(r, j) ==
    /\ \/ /\ NoFault /\ Transition({}, "none") /\ Deleted(Deferred)
          /\ Goes(r, j, "created", IF Seen(j) = "expired" THEN "none" ELSE "spawned")
          /\ UNCHANGED dropped
       \/ /\ Fault /\ Uncertain({}, "none")
          /\ Goes(r, j, "created", "none") /\ Drops(j)
    /\ UNCHANGED <<wrote, call, up, clock, crashes, spoiled>>

MarkRunning(r, j) ==
    /\ \/ /\ NoFault /\ Transition(Only(j, "queued"), "running") /\ Deleted(Deferred)
          /\ Goes(r, j, "spawned", IF Seen(j) = "queued" THEN "scanning" ELSE "none")
          /\ UNCHANGED dropped
       \/ /\ Fault /\ Uncertain(Only(j, "queued"), "running")
          /\ Goes(r, j, "spawned", "none") /\ Drops(j)
    /\ UNCHANGED <<wrote, call, up, clock, crashes, spoiled>>

\* A poll of the scan finds the job cancelled.
StopCancelled(r, j) ==
    /\ Seen(j) = "cancelled"
    /\ Goes(r, j, "scanning", "none")
    /\ Transition({}, "none") /\ Deleted(Deferred)
    /\ UNCHANGED <<wrote, call, up, clock, faults, crashes, dropped, spoiled>>

\* The scan failed.
MarkFailed(r, j) ==
    /\ Goes(r, j, "scanning", "none")
    /\ \/ /\ NoFault /\ Transition(Only(j, "running"), "failed") /\ Deleted(Deferred)
          /\ UNCHANGED dropped
       \/ Fault /\ Uncertain(Only(j, "running"), "failed") /\ Drops(j)
    /\ UNCHANGED <<wrote, call, up, clock, crashes, spoiled>>

\* The artifact of a large result carries a second in its name.
Artifact(j, second) == IF j \in Large THEN {<<j, second>>} ELSE {}

\* The scan succeeded.  A small result goes into the row of its job, a large one
\* gets the name of its artifact.
Persist(r, j) ==
    /\ Goes(r, j, "scanning", IF j \in Large THEN "writing" ELSE "persisted")
    /\ wrote' = [wrote EXCEPT ![r][j] = IF j \in Large THEN clock ELSE 0]
    /\ Unwritten
    /\ UNCHANGED <<artifacts, call, up, clock, faults, crashes, history>>

\* Writes that were on their way arrive in part, and nobody knows of them.
Strays(S) == \E late \in SUBSET S : /\ artifacts' = artifacts \cup late
                                   /\ leaked' = leaked \cup late

\* The artifact is written, however many seconds that takes.
Put(r, j) ==
    LET mine == Artifact(j, wrote[r][j]) IN
    /\ \/ /\ NoFault
          /\ Goes(r, j, "writing", "persisted")
          /\ artifacts' = artifacts \cup mine
          \* Another runner of the job took the name in the same second.
          /\ spoiled' = IF mine \cap artifacts = {} THEN spoiled ELSE spoiled \cup {j}
          /\ UNCHANGED <<wrote, dropped, leaked>>
       \/ /\ Fault
          /\ Goes(r, j, "writing", "none") /\ Forgets(r, j) /\ Drops(j)
          /\ Strays(mine)
          /\ UNCHANGED spoiled
    /\ Unwritten
    /\ UNCHANGED <<call, up, clock, crashes>>

\* Mutant: the result of a job that is no longer running is left behind.
MarkSucceededUntidy(r, j) ==
    /\ Goes(r, j, "persisted", "none") /\ Forgets(r, j)
    /\ NoFault
    /\ Commit(Only(j, "running"), "succeeded", wrote[r][j]) /\ idem' = Kept(idem)
    /\ Deleted(Deferred)
    /\ UNCHANGED <<call, up, clock, crashes, dropped, spoiled>>

\* A result that could not be recorded is deleted.
MarkSucceeded(r, j) ==
    LET mine   == Artifact(j, wrote[r][j])
        record == /\ Commit(Only(j, "running"), "succeeded", wrote[r][j])
                  /\ idem' = Kept(idem)
    IN
    /\ Goes(r, j, "persisted", "none") /\ Forgets(r, j)
    /\ \/ /\ NoFault /\ record
          /\ Deleted(Deferred \cup IF Seen(j) = "running" THEN {} ELSE mine)
          /\ UNCHANGED <<dropped, spoiled>>
       \/ /\ Fault /\ Drops(j)
          /\ \/ /\ Unwritten /\ UNCHANGED spoiled
                /\ Discard(mine)
             \/ /\ record /\ spoiled' = spoiled \cup Only(j, "running")
                /\ Discard(mine \cup Deferred)
    /\ UNCHANGED <<call, up, clock, crashes>>

-----------------------------------------------------------------------------
(* Maintenance, failures, time.                                              *)

\* Mutant: an artifact is collected when its job may still be asked for.
CollectEarly(r) ==
    /\ up[r]
    /\ artifacts' = {a \in artifacts : clock - a[2] < ArtifactRetention}
    /\ UNCHANGED <<store, runners, call, up, clock, faults, crashes, history>>

\* Now and then artifacts are collected by the age in their names.
Collect(r) ==
    /\ up[r]
    /\ artifacts' = {a \in artifacts : clock - a[2] <= ArtifactRetention}
    /\ UNCHANGED <<store, runners, call, up, clock, faults, crashes, history>>

\* The artifacts of the jobs that replica r has in a phase.
Held(r, phase) == {<<j, wrote[r][j]>> : j \in {i \in Large : at[r][i] = phase}}

\* What the process had written nobody records any more.
Crash(r) ==
    /\ up[r] /\ crashes < MaxCrashes
    /\ crashes' = crashes + 1
    /\ up' = [up EXCEPT ![r] = FALSE]
    /\ at' = [at EXCEPT ![r] = [j \in Jobs |-> "none"]]
    /\ wrote' = [wrote EXCEPT ![r] = [j \in Jobs |-> 0]]
    /\ call' = [call EXCEPT ![r] = NoKey]
    /\ \E late \in SUBSET Held(r, "writing") :
          /\ artifacts' = artifacts \cup late
          /\ leaked' = leaked \cup late \cup Held(r, "persisted")
    /\ UNCHANGED <<store, clock, faults, dropped, spoiled>>

Unfinished == {j \in Jobs : Seen(j) \in InFlight}

\* Mutant: only jobs that were running are taken over.
RestartRunning(r) ==
    LET running == {j \in Jobs : Seen(j) = "running"} IN
    /\ ~up[r] /\ NoFault
    /\ Transition(running, "queued") /\ Deleted(Deferred)
    /\ up' = [up EXCEPT ![r] = TRUE]
    /\ at' = [at EXCEPT ![r] = [j \in Jobs |-> IF j \in running THEN "created" ELSE "none"]]
    /\ dropped' = dropped \ running
    /\ UNCHANGED <<wrote, call, clock, crashes, spoiled>>

\* Jobs another replica may be changing at the moment: their rows are locked.
Busy(r) ==
    {j \in Unfinished : \E q \in Replicas \ {r} :
        \/ state[j] = "queued" /\ at[q][j] = "spawned"
        \/ state[j] = "running" /\ at[q][j] \in {"scanning", "persisted"}}

\* A process that starts takes over every unfinished job whose row is not locked;
\* it starts again when that fails.  A lock may also be that of a call, or of a
\* process, that fails afterwards.
Restart(r) ==
    /\ ~up[r]
    /\ \/ \E held \in SUBSET Unfinished :
             LET taken == Unfinished \ held IN
             /\ \/ /\ NoFault /\ held \subseteq Busy(r)
                   /\ dropped' = dropped \ taken
                \/ /\ Fault /\ held # {}
                   /\ dropped' = (dropped \ taken) \cup held
             /\ Transition(taken, "queued") /\ Deleted(Deferred)
             /\ up' = [up EXCEPT ![r] = TRUE]
             /\ at' = [at EXCEPT ![r] =
                         [j \in Jobs |-> IF j \in taken THEN "created" ELSE "none"]]
       \/ /\ Fault
          /\ Uncertain(Unfinished, "queued")
          /\ UNCHANGED <<up, at, dropped>>
    /\ UNCHANGED <<wrote, call, clock, crashes, spoiled>>

\* Time passes whatever anybody is at: nothing bounds how long a write takes.
Tick ==
    /\ clock < MaxTime
    /\ clock' = clock + 1
    /\ UNCHANGED <<store, artifacts, runners, call, up, faults, crashes, history>>

Run(r, j) == \/ Launch(r, j) \/ MarkRunning(r, j) \/ StopCancelled(r, j)
             \/ MarkFailed(r, j) \/ Persist(r, j) \/ Put(r, j) \/ MarkSucceeded(r, j)

Next == \/ \E r \in Replicas :
             \/ \E k \in Keys : Resolve(r, k)
             \/ \E k \in Keys \cup {NoKey}, j \in Jobs : Create(r, k, j)
             \/ \E j \in Jobs : Cancel(r, j) \/ Run(r, j)
             \/ Read(r) \/ Collect(r) \/ Crash(r) \/ Restart(r)
        \/ Tick

Spec == Init /\ [][Next]_vars

\* The runtime runs its tasks, scans end, and the orchestrator starts a process
\* that died.
Fairness == \A r \in Replicas : /\ WF_vars(Restart(r))
                                /\ \A j \in Jobs : WF_vars(Run(r, j))

FairSpec == Spec /\ Fairness

-----------------------------------------------------------------------------
(* Properties.                                                               *)

Succeeded(j) == state[j] = "succeeded" /\ ~Expired(j)

\* A succeeded job that can be asked for has its result until the second in the
\* result's name is longer ago than artifacts are retained: neither the runner
\* that lost a race, nor a purge, nor the collector takes it away earlier.  A
\* result that takes longer to record than artifacts are retained beyond jobs
\* (no time at all by default) can therefore be gone before its job is.  Left out
\* are the jobs whose recording was answered with an error after the fact and
\* those of which two replicas named a result in one second.
ResultIsKept ==
    \A j \in Large :
       Succeeded(j) /\ j \notin spoiled /\ clock - ref[j] <= ArtifactRetention
          => <<j, ref[j]>> \in artifacts

\* Every artifact belongs to a succeeded job or to a runner about to record it,
\* whatever cancellations and restarts came between; only errors and crashes
\* leave artifacts to the collector.
ArtifactsAreOwned ==
    \A a \in artifacts \ leaked :
       \/ state[a[1]] = "succeeded" /\ ref[a[1]] = a[2]
       \/ \E r \in Replicas : at[r][a[1]] = "persisted" /\ wrote[r][a[1]] = a[2]

Awaits(r, j) == at[r][j] \in {"created", "spawned"}
Executes(r, j) == at[r][j] \in {"scanning", "writing", "persisted"}

\* A queued job has a runner that will mark it running and a running job one
\* that will end it, unless an error made its caller leave or a process that
\* will take it over is down.
InFlightIsPursued ==
    \A j \in Jobs \ dropped :
       (\A r \in Replicas : up[r]) =>
          /\ state[j] = "queued" => \E r \in Replicas : Awaits(r, j)
          /\ state[j] = "running" => \E r \in Replicas : Executes(r, j)

\* Requests with one idempotency key, sent to several replicas at once, make
\* one job, and the key leads to a job that is still there.
KeyNamesOneJob ==
    \A row \in idem :
       /\ state[row[2]] \notin {"none", "expired"}
       /\ \A other \in idem : other[1] = row[1] => other = row

Lifecycle == INSTANCE JobLifecycle WITH stage <- state, ended <- updated

\* The replicas together are one store of jobs to their clients: ended jobs do
\* not move and are kept for the time of retention.
ImplementsLifecycle == Lifecycle!LSpec

\* A job that was made ends, with a verdict or by a cancellation, unless an
\* error made its caller leave.
JobsEnd == \A j \in Jobs : state[j] \in InFlight ~> state[j] \notin InFlight \/ j \in dropped
=============================================================================
