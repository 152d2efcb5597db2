--------------------------- MODULE HypothesisJobs ---------------------------
(***************************************************************************)
(* The durable job queue of main-service for hypotheses.  Jobs are records   *)
(* in Valkey; each replica runs the jobs it is asked for and, on a timer,    *)
(* those it finds queued.  A claim with a time to live keeps replicas apart, *)
(* a semaphore throttles background jobs, a heartbeat tells running jobs     *)
(* from those whose process died.                                           *)
(*                                                                         *)
(* Time is abstracted: a claim may lapse, a heartbeat may become stale.      *)
(***************************************************************************)
EXTENDS Naturals, Sequences, FiniteSets, SequencesExt

CONSTANTS Jobs,
          Background,   \* jobs of every kind but "generate"
          Replicas,     \* main-service processes
          AskedAt,      \* the replica a job is asked for at
          Goroutines,   \* bound: goroutines running jobs at a time
          Slots,        \* backgroundJobConcurrency
          GlobalMax,    \* hypothesisJobGlobalMax
          MaxFaults,    \* bound: Valkey calls that fail, or callers that leave
          MaxCrashes,   \* bound: processes that die
          MaxLapses     \* bound: claims that lapse under a living runner

ASSUME HypothesisJobsAssumption ==
    /\ Jobs # {} /\ Replicas # {}
    /\ Background \subseteq Jobs
    /\ AskedAt \in [Jobs -> Replicas]
    /\ IsFiniteSet(Goroutines)
    /\ {Slots, GlobalMax} \subseteq Nat \ {0}
    /\ {MaxFaults, MaxCrashes, MaxLapses} \subseteq Nat

VARIABLES status,    \* what the record of a job says, "none" without one
          stale,     \* running jobs whose heartbeat is too old
          globalIds, \* the list replicas resume jobs from
          claims,    \* jobs whose claim key exists
          enqueue,   \* where the call that enqueues a job is
          runner,    \* where a goroutine is, with which job, in which replica
          executed,  \* how often the job has been started
          faults, crashes, lapses

vars == <<status, stale, globalIds, claims, enqueue, runner, executed,
          faults, crashes, lapses>>

counts == <<faults, crashes, lapses>>

Statuses == {"none", "queued", "running", "succeeded", "failed"}
Calls    == {"new", "listing", "queueing", "accepted", "refused", "cut"}
Runs     == {"idle", "launched", "waiting", "starting", "executing",
             "succeeded", "failed", "saved"}

\* A goroutine that is not running a job.
Idle == [at |-> "idle", job |-> CHOOSE j \in Jobs : TRUE,
         replica |-> CHOOSE r \in Replicas : TRUE]

\* Mutant: the heartbeat is not looked at.
ReportedRaw(j) == status[j]

\* What Get reports: normalizeHypothesisJob fails a job with a stale heartbeat.
Reported(j) == IF j \in stale THEN "failed" ELSE status[j]

TypeOK ==
    /\ status \in [Jobs -> Statuses]
    /\ stale \subseteq {j \in Jobs : status[j] = "running"}
    /\ globalIds \in Seq(Jobs) /\ Len(globalIds) <= GlobalMax
    /\ claims \subseteq Jobs
    /\ enqueue \in [Jobs -> Calls]
    /\ runner \in [Goroutines -> [at : Runs, job : Jobs, replica : Replicas]]
    /\ executed \in [Jobs -> Nat]
    /\ faults \in 0..MaxFaults /\ crashes \in 0..MaxCrashes /\ lapses \in 0..MaxLapses

Init ==
    /\ status = [j \in Jobs |-> "none"]
    /\ stale = {}
    /\ globalIds = <<>>
    /\ claims = {}
    /\ enqueue = [j \in Jobs |-> "new"]
    /\ runner = [g \in Goroutines |-> Idle]
    /\ executed = [j \in Jobs |-> 0]
    /\ faults = 0 /\ crashes = 0 /\ lapses = 0

-----------------------------------------------------------------------------
\* A call to Valkey fails, or its context is cancelled, one of a few.
Fault   == faults < MaxFaults /\ faults' = faults + 1
NoFault == UNCHANGED faults

\* Mutant: the age of the heartbeat is not that of the record.
SetStatusOnly(j, s) == status' = [status EXCEPT ![j] = s] /\ UNCHANGED stale

SetStatus(j, s) == /\ status' = [status EXCEPT ![j] = s]
                   /\ stale' = stale \ {j}
KeepStatus      == UNCHANGED <<status, stale>>

\* save: a failed SET may have taken effect.
Save(j, s) == \/ NoFault /\ SetStatus(j, s)
              \/ Fault /\ (SetStatus(j, s) \/ KeepStatus)

Goes(g, s) == runner' = [runner EXCEPT ![g].at = s]
Returns(g) == runner' = [runner EXCEPT ![g] = Idle]

\* The goroutine that runs a job begins with the claim.
Spawn(r, j) ==
    LET idle == {g \in Goroutines : runner[g].at = "idle"} IN
    /\ idle # {}
    /\ runner' = [runner EXCEPT ![CHOOSE g \in idle : TRUE] =
                    [at |-> "launched", job |-> j, replica |-> r]]

-----------------------------------------------------------------------------
(* Enqueue, in the context of the caller's request.                          *)

Calling(j, from, to) == /\ enqueue[j] = from
                        /\ enqueue' = [enqueue EXCEPT ![j] = to]

\* The record is saved ...
EnqueueSave(j) ==
    /\ \/ Calling(j, "new", "listing") /\ NoFault /\ SetStatus(j, "queued")
       \/ /\ Calling(j, "new", "refused") /\ Fault
          /\ SetStatus(j, "queued") \/ KeepStatus
    /\ UNCHANGED <<globalIds, claims, runner, executed, crashes, lapses>>

\* ... pushed to the owner's list ...
EnqueueList(j) ==
    /\ \/ Calling(j, "listing", "queueing") /\ NoFault
       \/ Calling(j, "listing", "refused") /\ Fault
    /\ UNCHANGED <<status, stale, globalIds, claims, runner, executed, crashes, lapses>>

Pushed(j) == SubSeq(<<j>> \o globalIds, 1,
                    IF Len(globalIds) < GlobalMax THEN Len(globalIds) + 1
                    ELSE GlobalMax)

\* ... and to the global one, which is trimmed; then the job is run here.
EnqueueRun(j) ==
    /\ \/ /\ Calling(j, "queueing", "accepted") /\ NoFault
          /\ globalIds' = Pushed(j)
          /\ Spawn(AskedAt[j], j)
       \/ /\ Calling(j, "queueing", "refused") /\ Fault
          /\ globalIds' \in {globalIds, Pushed(j)}
          /\ UNCHANGED runner
    /\ UNCHANGED <<status, stale, claims, executed, crashes, lapses>>

\* Mutant: jobs are resumed whatever their record says.
ResumeAny(r, j) ==
    /\ j \in ToSet(globalIds)
    /\ status[j] # "none"
    /\ j \notin claims
    /\ Spawn(r, j)
    /\ UNCHANGED <<status, stale, globalIds, claims, enqueue, executed, counts>>

\* resumeQueued: a queued job of the list is run.  The goroutines that find the
\* claim taken have no effect and are left out.
Resume(r, j) ==
    /\ j \in ToSet(globalIds)
    /\ status[j] = "queued"
    /\ j \notin claims
    /\ Spawn(r, j)
    /\ UNCHANGED <<status, stale, globalIds, claims, enqueue, executed, counts>>

-----------------------------------------------------------------------------
(* run.                                                                      *)

Claimed(j) == IF j \in Background THEN "waiting" ELSE "starting"

\* Mutant: the claim is set, not set if absent.
ClaimAlways(g) ==
    LET j == runner[g].job IN
    /\ runner[g].at = "launched"
    /\ claims' = claims \cup {j} /\ Goes(g, Claimed(j)) /\ NoFault
    /\ UNCHANGED <<status, stale, globalIds, enqueue, executed, crashes, lapses>>

\* SetNX: one runner gets the claim; one that does not know returns.
Claim(g) ==
    LET j == runner[g].job IN
    /\ runner[g].at = "launched"
    /\ \/ j \notin claims /\ claims' = claims \cup {j} /\ Goes(g, Claimed(j)) /\ NoFault
       \/ j \in claims /\ Returns(g) /\ UNCHANGED <<claims, faults>>
       \/ Fault /\ Returns(g) /\ claims' \in {claims, claims \cup {j}}
    /\ UNCHANGED <<status, stale, globalIds, enqueue, executed, crashes, lapses>>

\* Holders of bgSem in a replica.
Holding(r) == {g \in Goroutines : /\ runner[g].replica = r
                                  /\ runner[g].job \in Background
                                  /\ runner[g].at \notin {"idle", "launched", "waiting"}}

Acquire(g) ==
    /\ runner[g].at = "waiting"
    /\ Cardinality(Holding(runner[g].replica)) < Slots
    /\ Goes(g, "starting")
    /\ UNCHANGED <<status, stale, globalIds, claims, enqueue, executed, counts>>

\* Mutant: the work starts before the record says so.
StartUnsaved(g) ==
    LET j == runner[g].job IN
    /\ runner[g].at = "starting"
    /\ executed' = [executed EXCEPT ![j] = @ + 1]
    /\ Goes(g, "executing")
    /\ KeepStatus
    /\ UNCHANGED <<globalIds, claims, enqueue, counts>>

\* The record says running, unless the save fails; then the work starts.
Start(g) ==
    LET j == runner[g].job IN
    /\ runner[g].at = "starting"
    /\ Save(j, "running")
    /\ executed' = [executed EXCEPT ![j] = @ + 1]
    /\ Goes(g, "executing")
    /\ UNCHANGED <<globalIds, claims, enqueue, crashes, lapses>>

\* Mutant: the heartbeat is told to stop but not waited for.
HeartbeatOn(g) ==
    LET j == runner[g].job IN
    /\ runner[g].at \in {"executing", "saved"}
    /\ status[j] # "running" \/ j \in stale
    /\ SetStatus(j, "running")
    /\ UNCHANGED <<globalIds, claims, enqueue, runner, executed, counts>>

\* A heartbeat writes the whole record again.
Heartbeat(g) ==
    LET j == runner[g].job IN
    /\ runner[g].at = "executing"
    /\ status[j] # "running" \/ j \in stale
    /\ SetStatus(j, "running")
    /\ UNCHANGED <<globalIds, claims, enqueue, runner, executed, counts>>

\* execute returns and the heartbeat is stopped and waited for.
Finish(g) ==
    /\ runner[g].at = "executing"
    /\ Goes(g, "succeeded") \/ Goes(g, "failed")
    /\ UNCHANGED <<status, stale, globalIds, claims, enqueue, executed, counts>>

SaveResult(g) ==
    /\ runner[g].at \in {"succeeded", "failed"}
    /\ Save(runner[g].job, runner[g].at)
    /\ Goes(g, "saved")
    /\ UNCHANGED <<globalIds, claims, enqueue, executed, crashes, lapses>>

\* run returns and gives the semaphore back; the claim is left to lapse.
Release(g) ==
    /\ runner[g].at = "saved"
    /\ Returns(g)
    /\ UNCHANGED <<status, stale, globalIds, claims, enqueue, executed, counts>>

-----------------------------------------------------------------------------
(* Time and crashes.                                                         *)

\* Runners that have got past the claim.
Past(g) == runner[g].at \notin {"idle", "launched"}

\* The claim key expires, hours after a goroutine asked for it.
Lapse(j) ==
    /\ j \in claims
    /\ \A g \in Goroutines : runner[g].at = "launched" => runner[g].job # j
    /\ claims' = claims \ {j}
    /\ IF \E g \in Goroutines : Past(g) /\ runner[g].job = j
       THEN lapses < MaxLapses /\ lapses' = lapses + 1
       ELSE UNCHANGED lapses
    /\ UNCHANGED <<status, stale, globalIds, enqueue, runner, executed, faults, crashes>>

\* A heartbeat becomes too old: nobody writes it, or the writes fail for long.
BecomeStale(j) ==
    /\ status[j] = "running" /\ j \notin stale
    /\ stale' = stale \cup {j}
    /\ IF \E g \in Goroutines : runner[g].at = "executing" /\ runner[g].job = j
       THEN Fault ELSE NoFault
    /\ UNCHANGED <<status, globalIds, claims, enqueue, runner, executed, crashes, lapses>>

\* A process dies with its goroutines and calls, and comes back.
Crash(r) ==
    /\ crashes < MaxCrashes /\ crashes' = crashes + 1
    /\ runner' = [g \in Goroutines |-> IF runner[g].replica = r
                                         THEN Idle ELSE runner[g]]
    /\ enqueue' = [j \in Jobs |->
                     IF AskedAt[j] = r /\ enqueue[j] \in {"listing", "queueing"}
                     THEN "cut" ELSE enqueue[j]]
    /\ UNCHANGED <<status, stale, globalIds, claims, executed, faults, lapses>>

Enqueue(j) == EnqueueSave(j) \/ EnqueueList(j) \/ EnqueueRun(j)

Run(g) == \/ Claim(g) \/ Acquire(g) \/ Start(g) \/ Finish(g)
          \/ SaveResult(g) \/ Release(g)

Next ==
    \/ \E j \in Jobs : Enqueue(j) \/ Lapse(j) \/ BecomeStale(j)
    \/ \E r \in Replicas, j \in Jobs : Resume(r, j)
    \/ \E g \in Goroutines : Run(g) \/ Heartbeat(g)
    \/ \E r \in Replicas : Crash(r)

\* Goroutines run on and their calls return; the worker ticks; keys expire and
\* heartbeats age.
Fairness ==
    /\ \A j \in Jobs : WF_vars(Enqueue(j)) /\ WF_vars(Lapse(j)) /\ WF_vars(BecomeStale(j))
    /\ \A j \in Jobs : WF_vars(\E r \in Replicas : Resume(r, j))
    /\ \A g \in Goroutines : WF_vars(Run(g))

Spec     == Init /\ [][Next]_vars
FairSpec == Spec /\ Fairness

-----------------------------------------------------------------------------
(* Properties.                                                              *)

\* The runners of a job that are past its claim.
Runners(j) == {g \in Goroutines : Past(g) /\ runner[g].job = j}

(* The claim keeps goroutines and replicas from executing a job at the same  *)
(* time: each further runner has cost a claim that lapsed under another one.  *)
ClaimsExclude == \A j \in Jobs : Cardinality(Runners(j)) <= 1 + lapses

\* No two are past the claim of a job as long as claims last.
OneRunner ==
    lapses = 0 => \A g, h \in Goroutines :
        Past(g) /\ Past(h) /\ runner[g].job = runner[h].job => g = h

\* Runners there are and might be are within what was lost.
RunnersPaid ==
    \A j \in Jobs :
        Cardinality(Runners(j)) + (IF j \notin claims THEN 1 ELSE 0) <= 1 + lapses

\* A job that is being enqueued is known to nobody else.
Unasked ==
    \A j \in Jobs : enqueue[j] \in {"new", "listing", "queueing"} =>
        /\ status[j] = (IF enqueue[j] = "new" THEN "none" ELSE "queued")
        /\ j \notin ToSet(globalIds)
        /\ \A g \in Goroutines : runner[g].at # "idle" => runner[g].job # j

\* What a runner knows of its job's record and claim.
Agrees(g) ==
    LET j == runner[g].job IN
    /\ runner[g].at = "launched" => status[j] = "queued" \/ j \in claims
    /\ Past(g) => j \in claims
    /\ runner[g].at \in {"waiting", "starting"} => status[j] = "queued"
    /\ runner[g].at \in {"executing", "succeeded", "failed"} =>
         status[j] \in {"queued", "running"}

\* It knows that much as long as claims do not lapse.
RecordAgrees == lapses = 0 => \A g \in Goroutines : Agrees(g)

\* The inductive invariant.
IndInv == TypeOK /\ Unasked /\ RecordAgrees /\ OneRunner

(* Work starts only on a job whose record still says queued: what has been   *)
(* recorded as running is not started again by a resume, not even after its  *)
(* process died or its heartbeat was lost.                                   *)
StartsOnlyQueued ==
    [][\A j \in Jobs : lapses = 0 /\ executed'[j] > executed[j] => status[j] = "queued"]_vars

\* The runners of a job that have its claim and have not started.
Entitled(j) == {g \in Goroutines : /\ runner[g].job = j
                                   /\ runner[g].at \in {"waiting", "starting"}}

\* Another runner may get the claim of a job.
Claimable(j) == /\ j \notin claims
                /\ \/ status[j] \in {"none", "queued"}
                   \/ \E g \in Goroutines : runner[g].at = "launched" /\ runner[g].job = j

\* Every start there has been or may be is paid for, and a job that still says
\* queued has lost a record for each of its starts.
StartsPaid ==
    \A j \in Jobs :
        /\ executed[j] + Cardinality(Entitled(j)) + (IF Claimable(j) THEN 1 ELSE 0)
              <= 1 + faults + lapses
        /\ status[j] \in {"none", "queued"} => executed[j] <= faults

(* A job is started once, and once more at most for each call to Valkey that *)
(* failed and each claim that lapsed under its runner.  Resumes by however    *)
(* many replicas, and processes that die, repeat no costly work.             *)
StartsAreFew == \A j \in Jobs : executed[j] <= 1 + faults + lapses

(* A recorded result is final: no heartbeat or resumed runner takes a job    *)
(* that has finished back.                                                   *)
FinishedIsKept ==
    [][\A j \in Jobs : lapses = 0 /\ status[j] \in {"succeeded", "failed"}
                         => status'[j] = status[j]]_vars

(* A job that was accepted is reported as finished in the end, whoever dies  *)
(* and whichever save is lost.                                               *)
AcceptedIsDecided ==
    \A j \in Jobs : enqueue[j] = "accepted" ~> Reported(j) \in {"succeeded", "failed"}
=============================================================================
