------------------------ MODULE HypothesisJobsProofs ------------------------
(***************************************************************************)
(* Proofs about HypothesisJobs for any number of jobs, replicas and          *)
(* goroutines and any number of faults and crashes: the inductive invariant; *)
(* how many run a job and how often it is started, whatever lapses; and, as   *)
(* long as no claim lapses under a runner, that work starts only on queued    *)
(* jobs and that a recorded result is final.                                 *)
(***************************************************************************)
EXTENDS HypothesisJobs, FiniteSetTheorems, SequenceTheorems, TLAPS

-----------------------------------------------------------------------------
(* The list.                                                                 *)

(* A push to the global list adds the job and keeps the list within bounds.  *)
LEMMA PushedList ==
    ASSUME TypeOK, NEW j \in Jobs
    PROVE  /\ Pushed(j) \in Seq(Jobs)
           /\ Len(Pushed(j)) <= GlobalMax
           /\ \A k \in ToSet(Pushed(j)) : k = j \/ k \in ToSet(globalIds)
  <1> DEFINE all == <<j>> \o globalIds
             n   == IF Len(globalIds) < GlobalMax THEN Len(globalIds) + 1
                    ELSE GlobalMax
  <1>1. globalIds \in Seq(Jobs) /\ <<j>> \in Seq(Jobs) /\ Len(<<j>>) = 1
    BY DEF TypeOK
  <1>2. /\ all \in Seq(Jobs) /\ Len(all) = Len(globalIds) + 1
        /\ all[1] = j
        /\ \A i \in 1..Len(globalIds) : all[i + 1] = globalIds[i]
    BY <1>1, ConcatProperties
  <1>3. /\ GlobalMax \in Nat \ {0} /\ Len(globalIds) \in Nat
        /\ Len(globalIds) <= GlobalMax
    BY <1>1, HypothesisJobsAssumption DEF TypeOK
  <1>4. n \in 1..Len(all) /\ n <= GlobalMax
    BY <1>2, <1>3
  <1>5. /\ Pushed(j) = SubSeq(all, 1, n)
        /\ Pushed(j) \in Seq(Jobs) /\ Len(Pushed(j)) = n
        /\ \A i \in 1..n : Pushed(j)[i] = all[i]
    <2>1. Pushed(j) = SubSeq(all, 1, n)
      BY DEF Pushed
    <2>3. /\ SubSeq(all, 1, n) \in Seq(Jobs)
          /\ Len(SubSeq(all, 1, n)) = (IF 1 <= n THEN n - 1 + 1 ELSE 0)
          /\ \A i \in 1..(n - 1 + 1) : SubSeq(all, 1, n)[i] = all[1 + i - 1]
      <3>1. 1 \in Int /\ n \in Int /\ \A i \in 1..n : all[i] \in Jobs
        <4> HIDE DEF all, n
        <4> QED BY <1>2, <1>3, <1>4
      <3> HIDE DEF all, n
      <3> QED BY <3>1, SubSeqProperties
    <2> HIDE DEF all, n
    <2>4. n \in Nat /\ 1 <= n
      BY <1>2, <1>3, <1>4
    <2> QED BY <2>1, <2>3, <2>4
  <1>6. ASSUME NEW k \in ToSet(Pushed(j)) PROVE k = j \/ k \in ToSet(globalIds)
    <2> HIDE DEF all, n
    <2>1. PICK i \in 1..n : k = all[i]
      BY <1>4, <1>5 DEF ToSet
    <2>2. CASE i = 1
      BY <2>1, <2>2, <1>2
    <2>3. CASE i # 1
      <3>1. i - 1 \in 1..Len(globalIds) /\ all[i] = globalIds[i - 1]
        BY <2>1, <2>3, <1>2, <1>3, <1>4
      <3> QED BY <2>1, <3>1, <1>1 DEF ToSet
    <2> QED BY <2>2, <2>3
  <1> QED
    <2> HIDE DEF all, n
    <2> QED BY <1>4, <1>5, <1>6

-----------------------------------------------------------------------------
(* The goroutines.                                                           *)

LEMMA IdleRunner ==
    /\ Idle \in [at : Runs, job : Jobs, replica : Replicas]
    /\ Idle.at = "idle"
  BY HypothesisJobsAssumption DEF Idle, Runs

(* Spawn starts one goroutine and leaves the others alone.                   *)
LEMMA Spawned ==
    ASSUME TypeOK, NEW r \in Replicas, NEW j \in Jobs, Spawn(r, j)
    PROVE  \E g \in Goroutines :
             /\ runner[g].at = "idle"
             /\ runner' = [runner EXCEPT ![g] =
                   [at |-> "launched", job |-> j, replica |-> r]]
  <1> DEFINE idle == {g \in Goroutines : runner[g].at = "idle"}
             c    == CHOOSE g \in idle : TRUE
  <1>1. idle # {}
    BY DEF Spawn
  <1>2. c \in idle
    BY <1>1
  <1>3. runner' = [runner EXCEPT ![c] =
                     [at |-> "launched", job |-> j, replica |-> r]]
    BY DEF Spawn
  <1> HIDE DEF c
  <1> QED BY <1>2, <1>3

(* Goes moves one goroutine on, with its job, and leaves the others alone.   *)
LEMMA Gone ==
    ASSUME TypeOK, NEW g \in Goroutines, NEW s, Goes(g, s)
    PROVE  /\ runner'[g].at = s /\ runner'[g].job = runner[g].job
           /\ \A h \in Goroutines : h # g => runner'[h] = runner[h]
  <1>1. /\ runner[g] \in [at : Runs, job : Jobs, replica : Replicas]
        /\ DOMAIN runner = Goroutines
    BY DEF TypeOK
  <1>2. runner'[g] = [runner[g] EXCEPT !.at = s]
    BY <1>1 DEF Goes
  <1>3. \A h \in Goroutines : h # g => runner'[h] = runner[h]
    BY <1>1 DEF Goes
  <1>4. /\ [runner[g] EXCEPT !.at = s].at = s
        /\ [runner[g] EXCEPT !.at = s].job = runner[g].job
    BY <1>1
  <1> QED BY <1>2, <1>3, <1>4

(* Returns leaves one goroutine idle and the others alone.                   *)
LEMMA Returned ==
    ASSUME TypeOK, NEW g \in Goroutines, Returns(g)
    PROVE  /\ runner'[g].at = "idle"
           /\ \A h \in Goroutines : h # g => runner'[h] = runner[h]
  BY IdleRunner DEF TypeOK, Returns

(* The kinds of steps.                                                       *)
LEMMA StepCases ==
    ASSUME [Next]_vars
    PROVE  \/ \E j \in Jobs : EnqueueSave(j) \/ EnqueueList(j) \/ EnqueueRun(j)
           \/ \E j \in Jobs : Lapse(j) \/ BecomeStale(j)
           \/ \E r \in Replicas, j \in Jobs : Resume(r, j)
           \/ \E g \in Goroutines : Claim(g)
           \/ \E g \in Goroutines : Acquire(g) \/ Finish(g)
           \/ \E g \in Goroutines : Start(g) \/ Heartbeat(g) \/ SaveResult(g)
           \/ \E g \in Goroutines : Release(g)
           \/ \E r \in Replicas : Crash(r)
           \/ UNCHANGED vars
  BY DEF Next, Enqueue, Run

-----------------------------------------------------------------------------
(* Type correctness.                                                         *)

(* SetStatus and Save keep the records well formed.                          *)
LEMMA SaveTyped ==
    ASSUME TypeOK, NEW j \in Jobs, NEW s \in Statuses,
           SetStatus(j, s) \/ KeepStatus
    PROVE  /\ status' \in [Jobs -> Statuses]
           /\ stale' \subseteq {k \in Jobs : status'[k] = "running"}
  BY DEF TypeOK, SetStatus, KeepStatus

LEMMA FaultTyped ==
    ASSUME TypeOK, Fault \/ NoFault PROVE faults' \in 0..MaxFaults
  <1>1. MaxFaults \in Nat /\ faults \in 0..MaxFaults
    BY HypothesisJobsAssumption DEF TypeOK
  <1> QED BY <1>1 DEF Fault, NoFault

LEMMA CallTyped ==
    ASSUME TypeOK, NEW j \in Jobs, NEW from, NEW to \in Calls, Calling(j, from, to)
    PROVE  enqueue' \in [Jobs -> Calls]
  BY DEF TypeOK, Calling

LEMMA GoesTyped ==
    ASSUME TypeOK, NEW g \in Goroutines, NEW s \in Runs, Goes(g, s)
    PROVE  runner' \in [Goroutines -> [at : Runs, job : Jobs, replica : Replicas]]
  BY DEF TypeOK, Goes

LEMMA ReturnsTyped ==
    ASSUME TypeOK, NEW g \in Goroutines, Returns(g)
    PROVE  runner' \in [Goroutines -> [at : Runs, job : Jobs, replica : Replicas]]
  BY IdleRunner DEF TypeOK, Returns

LEMMA SpawnTyped ==
    ASSUME TypeOK, NEW r \in Replicas, NEW j \in Jobs, Spawn(r, j)
    PROVE  runner' \in [Goroutines -> [at : Runs, job : Jobs, replica : Replicas]]
  <1>1. [at |-> "launched", job |-> j, replica |-> r]
          \in [at : Runs, job : Jobs, replica : Replicas]
    BY DEF Runs
  <1>2. PICK g \in Goroutines :
           runner' = [runner EXCEPT ![g] =
                        [at |-> "launched", job |-> j, replica |-> r]]
    BY Spawned
  <1> QED BY <1>1, <1>2 DEF TypeOK

LEMMA TypeStep == ASSUME TypeOK, [Next]_vars PROVE TypeOK'
  <1> USE HypothesisJobsAssumption
  <1>1. ASSUME NEW j \in Jobs, EnqueueSave(j) PROVE TypeOK'
    <2>1. SetStatus(j, "queued") \/ KeepStatus
      BY <1>1 DEF EnqueueSave
    <2>2. /\ status' \in [Jobs -> Statuses]
          /\ stale' \subseteq {k \in Jobs : status'[k] = "running"}
      BY <2>1, SaveTyped DEF Statuses
    <2>3. enqueue' \in [Jobs -> Calls] /\ faults' \in 0..MaxFaults
      <3>1. {"listing", "refused"} \subseteq Calls
        BY DEF Calls
      <3> QED BY <1>1, <3>1, CallTyped, FaultTyped DEF EnqueueSave
    <2>4. UNCHANGED <<globalIds, claims, runner, executed, crashes, lapses>>
      BY <1>1 DEF EnqueueSave
    <2> QED BY <2>2, <2>3, <2>4 DEF TypeOK
  <1>2. ASSUME NEW j \in Jobs, EnqueueList(j) PROVE TypeOK'
    <2>1. {"queueing", "refused"} \subseteq Calls
      BY DEF Calls
    <2>2. enqueue' \in [Jobs -> Calls] /\ faults' \in 0..MaxFaults
      BY <1>2, <2>1, CallTyped, FaultTyped DEF EnqueueList
    <2> QED BY <1>2, <2>2 DEF EnqueueList, TypeOK
  <1>3. ASSUME NEW j \in Jobs, EnqueueRun(j) PROVE TypeOK'
    <2>1. enqueue' \in [Jobs -> Calls] /\ faults' \in 0..MaxFaults
      <3>1. {"accepted", "refused"} \subseteq Calls
        BY DEF Calls
      <3> QED BY <1>3, <3>1, CallTyped, FaultTyped DEF EnqueueRun
    <2>2. globalIds' \in {globalIds, Pushed(j)}
      BY <1>3 DEF EnqueueRun
    <2>3. globalIds' \in Seq(Jobs) /\ Len(globalIds') <= GlobalMax
      BY <2>2, PushedList DEF TypeOK
    <2>4. runner' \in [Goroutines -> [at : Runs, job : Jobs, replica : Replicas]]
      <3>1. CASE UNCHANGED runner
        BY <3>1 DEF TypeOK
      <3>2. CASE Spawn(AskedAt[j], j)
        <4>1. AskedAt[j] \in Replicas
          OBVIOUS
        <4> QED BY <3>2, <4>1, SpawnTyped
      <3> QED BY <1>3, <3>1, <3>2 DEF EnqueueRun
    <2>5. UNCHANGED <<status, stale, claims, executed, crashes, lapses>>
      BY <1>3 DEF EnqueueRun
    <2> QED BY <2>1, <2>3, <2>4, <2>5 DEF TypeOK
  <1>4. ASSUME NEW j \in Jobs, Lapse(j) PROVE TypeOK'
    BY <1>4 DEF Lapse, TypeOK
  <1>5. ASSUME NEW j \in Jobs, BecomeStale(j) PROVE TypeOK'
    BY <1>5 DEF BecomeStale, Fault, NoFault, TypeOK
  <1>6. ASSUME NEW r \in Replicas, NEW j \in Jobs, Resume(r, j) PROVE TypeOK'
    <2>1. runner' \in [Goroutines -> [at : Runs, job : Jobs, replica : Replicas]]
      BY <1>6, SpawnTyped DEF Resume
    <2> QED BY <1>6, <2>1 DEF Resume, counts, TypeOK
  <1>7. ASSUME NEW g \in Goroutines, Claim(g) PROVE TypeOK'
    <2>1. runner[g].job \in Jobs
      BY DEF TypeOK
    <2>2. runner' \in [Goroutines -> [at : Runs, job : Jobs, replica : Replicas]]
      <3>1. Claimed(runner[g].job) \in Runs
        BY DEF Claimed, Runs
      <3> QED BY <1>7, <3>1, GoesTyped, ReturnsTyped DEF Claim
    <2>3. claims' \subseteq Jobs /\ faults' \in 0..MaxFaults
      BY <1>7, <2>1 DEF Claim, Fault, NoFault, TypeOK
    <2> QED BY <1>7, <2>2, <2>3 DEF Claim, TypeOK
  <1>8. ASSUME NEW g \in Goroutines, Acquire(g) \/ Finish(g) PROVE TypeOK'
    <2>1. {"starting", "succeeded", "failed"} \subseteq Runs
      BY DEF Runs
    <2>2. runner' \in [Goroutines -> [at : Runs, job : Jobs, replica : Replicas]]
      BY <1>8, <2>1, GoesTyped DEF Acquire, Finish
    <2> QED BY <1>8, <2>2 DEF Acquire, Finish, counts, TypeOK
  <1>9. ASSUME NEW g \in Goroutines, Start(g) \/ Heartbeat(g) \/ SaveResult(g)
        PROVE  TypeOK'
    <2>1. runner[g].job \in Jobs
      BY DEF TypeOK
    <2>2. \E s \in Statuses : SetStatus(runner[g].job, s) \/ KeepStatus
      BY <1>9 DEF Start, Heartbeat, SaveResult, Save, Statuses
    <2>3. /\ status' \in [Jobs -> Statuses]
          /\ stale' \subseteq {k \in Jobs : status'[k] = "running"}
      BY <2>1, <2>2, SaveTyped
    <2>4. runner' \in [Goroutines -> [at : Runs, job : Jobs, replica : Replicas]]
      <3>1. {"executing", "saved"} \subseteq Runs
        BY DEF Runs
      <3> QED BY <1>9, <3>1, GoesTyped DEF Start, Heartbeat, SaveResult, TypeOK
    <2>5. executed' \in [Jobs -> Nat] /\ faults' \in 0..MaxFaults
      BY <1>9, <2>1 DEF Start, Heartbeat, SaveResult, Save, Fault, NoFault, counts, TypeOK
    <2>6. UNCHANGED <<globalIds, claims, enqueue, crashes, lapses>>
      BY <1>9 DEF Start, Heartbeat, SaveResult, counts
    <2> QED BY <2>3, <2>4, <2>5, <2>6 DEF TypeOK
  <1>10. ASSUME NEW g \in Goroutines, Release(g) PROVE TypeOK'
    BY <1>10, ReturnsTyped DEF Release, counts, TypeOK
  <1>11. ASSUME NEW r \in Replicas, Crash(r) PROVE TypeOK'
    BY <1>11, IdleRunner DEF Crash, TypeOK, Calls
  <1>12. CASE UNCHANGED vars
    BY <1>12 DEF vars, TypeOK
  <1> QED BY <1>1, <1>2, <1>3, <1>4, <1>5, <1>6, <1>7, <1>8, <1>9, <1>10,
             <1>11, <1>12, StepCases

-----------------------------------------------------------------------------
(* A job that is being enqueued is known to nobody else.                     *)

LEMMA UnaskedStep == ASSUME TypeOK, Unasked, [Next]_vars PROVE Unasked'
  <1> SUFFICES ASSUME NEW k \in Jobs, enqueue'[k] \in {"new", "listing", "queueing"}
               PROVE  /\ status'[k] = (IF enqueue'[k] = "new" THEN "none" ELSE "queued")
                      /\ k \notin ToSet(globalIds')
                      /\ \A g \in Goroutines : runner'[g].at # "idle" => runner'[g].job # k
    BY DEF Unasked
  <1> DEFINE Free == /\ status'[k] = (IF enqueue'[k] = "new" THEN "none" ELSE "queued")
                     /\ k \notin ToSet(globalIds')
                     /\ \A g \in Goroutines : runner'[g].at # "idle" => runner'[g].job # k
             Known == enqueue[k] \in {"new", "listing", "queueing"}
  <1>0. Known => /\ status[k] = (IF enqueue[k] = "new" THEN "none" ELSE "queued")
                 /\ k \notin ToSet(globalIds)
                 /\ \A g \in Goroutines : runner[g].at # "idle" => runner[g].job # k
    BY DEF Unasked
  <1>1. ASSUME NEW j \in Jobs, EnqueueSave(j) PROVE Free
    <2>1. UNCHANGED <<globalIds, runner>>
      BY <1>1 DEF EnqueueSave
    <2>2. CASE j = k
      BY <1>0, <1>1, <2>1, <2>2 DEF EnqueueSave, Calling, SetStatus, TypeOK
    <2>3. CASE j # k
      BY <1>0, <1>1, <2>1, <2>3 DEF EnqueueSave, Calling, SetStatus, KeepStatus, TypeOK
    <2> QED BY <2>2, <2>3
  <1>2. ASSUME NEW j \in Jobs, EnqueueList(j) PROVE Free
    BY <1>0, <1>2 DEF EnqueueList, Calling, TypeOK
  <1>3. ASSUME NEW j \in Jobs, EnqueueRun(j) PROVE Free
    <2>1. j # k /\ enqueue'[k] = enqueue[k]
      BY <1>3 DEF EnqueueRun, Calling, TypeOK
    <2>2. k \notin ToSet(globalIds')
      BY <1>0, <1>3, <2>1, PushedList DEF EnqueueRun
    <2>3. \A g \in Goroutines : runner'[g].at # "idle" => runner'[g].job # k
      <3>1. CASE UNCHANGED runner
        BY <1>0, <2>1, <3>1
      <3>2. CASE Spawn(AskedAt[j], j)
        <4>1. AskedAt[j] \in Replicas
          BY HypothesisJobsAssumption
        <4>2. PICK g \in Goroutines :
                runner' = [runner EXCEPT ![g] =
                             [at |-> "launched", job |-> j, replica |-> AskedAt[j]]]
          BY <3>2, <4>1, Spawned
        <4> QED BY <1>0, <2>1, <4>2 DEF TypeOK
      <3> QED BY <1>3, <3>1, <3>2 DEF EnqueueRun
    <2> QED BY <1>0, <1>3, <2>1, <2>2, <2>3 DEF EnqueueRun
  <1>4. ASSUME NEW j \in Jobs, Lapse(j) PROVE Free
    BY <1>0, <1>4 DEF Lapse
  <1>5. ASSUME NEW j \in Jobs, BecomeStale(j) PROVE Free
    BY <1>0, <1>5 DEF BecomeStale
  <1>6. ASSUME NEW r \in Replicas, NEW j \in Jobs, Resume(r, j) PROVE Free
    <2>1. UNCHANGED <<status, globalIds, enqueue>> /\ j \in ToSet(globalIds)
      BY <1>6 DEF Resume
    <2>2. PICK g \in Goroutines :
            runner' = [runner EXCEPT ![g] = [at |-> "launched", job |-> j, replica |-> r]]
      BY <1>6, Spawned DEF Resume
    <2> QED BY <1>0, <2>1, <2>2 DEF TypeOK
  <1>7. ASSUME NEW g \in Goroutines, Claim(g) PROVE Free
    <2>1. UNCHANGED <<status, globalIds, enqueue>> /\ runner[g].at # "idle"
      BY <1>7 DEF Claim
    <2>2. \A h \in Goroutines : runner'[h].at # "idle" =>
             runner'[h].job = runner[h].job /\ runner[h].at # "idle"
      <3>1. Returns(g) \/ \E s : Goes(g, s)
        BY <1>7 DEF Claim
      <3> QED BY <2>1, <3>1, Gone, Returned
    <2> QED BY <1>0, <2>1, <2>2
  <1>8. ASSUME NEW g \in Goroutines, Acquire(g) \/ Finish(g) PROVE Free
    <2>1. UNCHANGED <<status, globalIds, enqueue>> /\ runner[g].at # "idle"
      BY <1>8 DEF Acquire, Finish
    <2>2. \A h \in Goroutines : runner'[h].at # "idle" =>
             runner'[h].job = runner[h].job /\ runner[h].at # "idle"
      <3>1. \E s : Goes(g, s)
        BY <1>8 DEF Acquire, Finish
      <3> QED BY <2>1, <3>1, Gone
    <2> QED BY <1>0, <2>1, <2>2
  <1>9. ASSUME NEW g \in Goroutines, Start(g) \/ Heartbeat(g) \/ SaveResult(g)
        PROVE  Free
    <2>1. UNCHANGED <<globalIds, enqueue>> /\ runner[g].at # "idle"
      BY <1>9 DEF Start, Heartbeat, SaveResult
    <2>2. runner[g].job # k
      BY <1>0, <2>1
    <2>3. status'[k] = status[k]
      BY <1>9, <2>2 DEF Start, Heartbeat, SaveResult, Save, SetStatus, KeepStatus, TypeOK
    <2>4. \A h \in Goroutines : runner'[h].at # "idle" =>
             runner'[h].job = runner[h].job /\ runner[h].at # "idle"
      <3>1. UNCHANGED runner \/ \E s : Goes(g, s)
        BY <1>9 DEF Start, Heartbeat, SaveResult
      <3> QED BY <2>1, <3>1, Gone
    <2> QED BY <1>0, <2>1, <2>3, <2>4
  <1>10. ASSUME NEW g \in Goroutines, Release(g) PROVE Free
    <2>1. \A h \in Goroutines : runner'[h].at # "idle" =>
             runner'[h].job = runner[h].job /\ runner[h].at # "idle"
      BY <1>10, Returned DEF Release
    <2> QED BY <1>0, <1>10, <2>1 DEF Release
  <1>11. ASSUME NEW r \in Replicas, Crash(r) PROVE Free
    <2>1. enqueue'[k] = enqueue[k]
      BY <1>11 DEF Crash
    <2>2. \A h \in Goroutines : runner'[h].at # "idle" =>
             runner'[h].job = runner[h].job /\ runner[h].at # "idle"
      BY <1>11, IdleRunner DEF Crash
    <2> QED BY <1>0, <1>11, <2>1, <2>2 DEF Crash
  <1>12. CASE UNCHANGED vars
    BY <1>0, <1>12 DEF vars
  <1> QED BY <1>1, <1>2, <1>3, <1>4, <1>5, <1>6, <1>7, <1>8, <1>9, <1>10,
             <1>11, <1>12, StepCases

-----------------------------------------------------------------------------
(* A runner's claim keeps the others off, and the record says what the       *)
(* runner's place tells.                                                     *)

(* What both need of the states before and after: a goroutine that runs on   *)
(* does so as before.                                                        *)
LEMMA SameRunner ==
    ASSUME NEW h \in Goroutines, Agrees(h), runner'[h] = runner[h],
           runner[h].at # "idle" => status'[runner[h].job] = status[runner[h].job],
           runner[h].job \in claims => runner[h].job \in claims'
    PROVE  Agrees(h)'
  BY DEF Agrees, Past

LEMMA IdleAgrees ==
    ASSUME NEW h \in Goroutines, runner'[h].at = "idle" PROVE Agrees(h)'
  BY DEF Agrees, Past

(* The goroutine that is spawned for a queued job.                           *)
LEMMA SpawnAgrees ==
    ASSUME TypeOK, NEW r \in Replicas, NEW j \in Jobs, Spawn(r, j), 
           status[j] = "queued", UNCHANGED <<status, claims>>,
           \A g \in Goroutines : Agrees(g)
    PROVE  /\ \A g \in Goroutines : Agrees(g)'
           /\ \A g \in Goroutines : Past(g)' => Past(g) /\ runner'[g] = runner[g]
  <1>1. PICK c \in Goroutines :
          runner' = [runner EXCEPT ![c] = [at |-> "launched", job |-> j, replica |-> r]]
    BY Spawned
  <1>2. runner'[c].at = "launched" /\ runner'[c].job = j
    BY <1>1 DEF TypeOK
  <1>3. \A h \in Goroutines : h # c => runner'[h] = runner[h]
    BY <1>1 DEF TypeOK
  <1>4. Agrees(c)'
    BY <1>2 DEF Agrees, Past
  <1>5. \A h \in Goroutines : h # c => Agrees(h)'
    BY <1>3, SameRunner
  <1> QED BY <1>2, <1>3, <1>4, <1>5 DEF Past

LEMMA RecordStep ==
    ASSUME TypeOK, Unasked, RecordAgrees, OneRunner, [Next]_vars
    PROVE  RecordAgrees' /\ OneRunner'
  <1> DEFINE Alone == \A g, h \in Goroutines :
                        Past(g) /\ Past(h) /\ runner[g].job = runner[h].job => g = h
             Right == \A g \in Goroutines : Agrees(g)
  <1> SUFFICES ASSUME lapses' = 0 PROVE Right' /\ Alone'
    BY DEF RecordAgrees, OneRunner
  <1>a. lapses = 0
    <2>1. lapses' \in {lapses, lapses + 1} /\ lapses \in Nat
      BY StepCases DEF EnqueueSave, EnqueueList, EnqueueRun, Lapse, BecomeStale, Resume,
         Claim, Acquire, Finish, Start, Heartbeat, SaveResult, Release, Crash, counts,
         vars, TypeOK
    <2> QED BY <2>1
  <1>b. Right /\ Alone
    BY <1>a DEF RecordAgrees, OneRunner
  <1>c. \A g \in Goroutines : runner[g].job \in Jobs
    BY DEF TypeOK
  \* Nobody gets past the claim: the exclusion is kept.
  <1>d. ASSUME \A g \in Goroutines : Past(g)' => Past(g) /\ runner'[g].job = runner[g].job
        PROVE  Alone'
    BY <1>b, <1>d DEF Past
  <1>1. ASSUME NEW j \in Jobs, EnqueueSave(j) PROVE Right' /\ Alone'
    <2>1. UNCHANGED <<runner, claims>> /\ enqueue[j] = "new"
      BY <1>1 DEF EnqueueSave, Calling
    <2>2. \A g \in Goroutines : runner[g].at # "idle" => runner[g].job # j
      BY <2>1 DEF Unasked
    <2>3. \A k \in Jobs : k # j => status'[k] = status[k]
      BY <1>1 DEF EnqueueSave, SetStatus, KeepStatus, TypeOK
    <2>4. Right'
      BY <1>b, <1>c, <2>1, <2>2, <2>3, SameRunner
    <2> QED BY <1>d, <2>1, <2>4 DEF Past
  <1>2. CASE /\ UNCHANGED <<status, claims, runner>>
    BY <1>2, <1>b DEF Agrees, Past
  <1>3. ASSUME NEW j \in Jobs, EnqueueRun(j) PROVE Right' /\ Alone'
    <2>1. UNCHANGED <<status, claims>> /\ enqueue[j] = "queueing"
      BY <1>3 DEF EnqueueRun, Calling
    <2>2. status[j] = "queued" /\ AskedAt[j] \in Replicas
      BY <2>1, HypothesisJobsAssumption DEF Unasked
    <2>3. CASE Spawn(AskedAt[j], j)
      BY <1>b, <1>d, <2>1, <2>2, <2>3, SpawnAgrees
    <2>4. CASE UNCHANGED runner
      BY <1>2, <2>1, <2>4
    <2> QED BY <1>3, <2>3, <2>4 DEF EnqueueRun
  <1>4. ASSUME NEW j \in Jobs, Lapse(j) PROVE Right' /\ Alone'
    <2>1. UNCHANGED <<status, runner>> /\ claims' = claims \ {j}
      BY <1>4 DEF Lapse
    <2>2. \A g \in Goroutines : runner[g].job = j => runner[g].at = "idle"
      <3>1. \A g \in Goroutines : ~(Past(g) /\ runner[g].job = j)
        BY <1>4, <1>a DEF Lapse
      <3> QED BY <1>4, <3>1 DEF Lapse, Past
    <2>3. Right'
      <3> SUFFICES ASSUME NEW g \in Goroutines PROVE Agrees(g)'
        OBVIOUS
      <3>1. CASE runner[g].job = j
        BY <2>1, <2>2, <3>1, IdleAgrees
      <3>2. CASE runner[g].job # j
        BY <1>b, <2>1, <3>2, SameRunner
      <3> QED BY <3>1, <3>2
    <2> QED BY <1>d, <2>1, <2>3 DEF Past
  <1>6. ASSUME NEW r \in Replicas, NEW j \in Jobs, Resume(r, j) PROVE Right' /\ Alone'
    <2>1. UNCHANGED <<status, claims>> /\ status[j] = "queued" /\ Spawn(r, j)
      BY <1>6 DEF Resume
    <2> QED BY <1>b, <1>d, <2>1, SpawnAgrees
  <1>7. ASSUME NEW g \in Goroutines, Claim(g) PROVE Right' /\ Alone'
    <2> DEFINE j == runner[g].job
    <2>1. /\ UNCHANGED status /\ runner[g].at = "launched"
          /\ claims \subseteq claims'
      BY <1>7 DEF Claim
    <2>2. CASE Returns(g)
      <3>1. \A h \in Goroutines : h # g => Agrees(h)'
        BY <1>b, <2>1, <2>2, Returned, SameRunner
      <3>2. Agrees(g)'
        BY <2>2, Returned, IdleAgrees
      <3> QED BY <1>d, <2>2, <3>1, <3>2, Returned DEF Past
    <2>3. CASE j \notin claims /\ claims' = claims \cup {j} /\ Goes(g, Claimed(j))
      <3>1. /\ runner'[g].at \in {"waiting", "starting"} /\ runner'[g].job = j
            /\ \A h \in Goroutines : h # g => runner'[h] = runner[h]
        BY <2>3, Gone DEF Claimed
      <3>2. Agrees(g)'
        BY <1>b, <2>1, <2>3, <3>1 DEF Agrees, Past
      <3>3. \A h \in Goroutines : h # g => Agrees(h)'
        BY <1>b, <2>1, <3>1, SameRunner
      <3>4. \A h \in Goroutines : Past(h) => runner[h].job # j
        BY <1>b, <2>3 DEF Agrees
      <3> QED BY <1>b, <3>1, <3>2, <3>3, <3>4 DEF Past
    <2> QED BY <1>7, <2>2, <2>3 DEF Claim
  <1>8. ASSUME NEW g \in Goroutines, Acquire(g) \/ Finish(g) PROVE Right' /\ Alone'
    <2>1. UNCHANGED <<status, claims>> /\ Past(g)
      BY <1>8 DEF Acquire, Finish, Past
    <2>2. /\ runner'[g].job = runner[g].job
          /\ \A h \in Goroutines : h # g => runner'[h] = runner[h]
          /\ \/ runner[g].at = "waiting" /\ runner'[g].at = "starting"
             \/ runner[g].at = "executing" /\ runner'[g].at \in {"succeeded", "failed"}
      BY <1>8, Gone DEF Acquire, Finish
    <2>3. Agrees(g)'
      BY <1>b, <2>1, <2>2 DEF Agrees, Past
    <2>4. \A h \in Goroutines : h # g => Agrees(h)'
      BY <1>b, <2>1, <2>2, SameRunner
    <2> QED BY <1>d, <2>1, <2>2, <2>3, <2>4 DEF Past
  <1>9. ASSUME NEW g \in Goroutines, Start(g) \/ Heartbeat(g) \/ SaveResult(g)
        PROVE  Right' /\ Alone'
    <2> DEFINE j == runner[g].job
    <2>1. UNCHANGED claims /\ Past(g)
      BY <1>9 DEF Start, Heartbeat, SaveResult, Past
    <2>2. /\ runner'[g].job = j
          /\ \A h \in Goroutines : h # g => runner'[h] = runner[h]
      BY <1>9, Gone DEF Start, Heartbeat, SaveResult
    <2>3. \A k \in Jobs : k # j => status'[k] = status[k]
      BY <1>9 DEF Start, Heartbeat, SaveResult, Save, SetStatus, KeepStatus, TypeOK
    <2>4. Agrees(g)'
      <3>1. j \in claims' /\ j \in Jobs
        BY <1>b, <1>c, <2>1 DEF Agrees
      <3>2. CASE SaveResult(g)
        <4>1. runner'[g].at = "saved"
          BY <3>2, Gone DEF SaveResult
        <4> QED BY <2>2, <3>1, <4>1 DEF Agrees, Past
      <3>3. CASE Start(g) \/ Heartbeat(g)
        <4>1. runner'[g].at = "executing"
          BY <3>3, Gone DEF Start, Heartbeat
        <4>2. status'[j] \in {"queued", "running"}
          <5>1. status[j] \in {"queued", "running"}
            BY <1>b, <3>3 DEF Agrees, Start, Heartbeat
          <5> QED BY <3>1, <3>3, <5>1 DEF Start, Heartbeat, Save, SetStatus, KeepStatus, TypeOK
        <4> QED BY <2>2, <3>1, <4>1, <4>2 DEF Agrees, Past
      <3> QED BY <1>9, <3>2, <3>3
    <2>5. ASSUME NEW h \in Goroutines, h # g PROVE Agrees(h)'
      <3>1. CASE runner[h].job # j
        BY <1>b, <1>c, <2>1, <2>2, <2>3, <2>5, <3>1, SameRunner
      <3>2. CASE runner[h].job = j
        <4>1. ~Past(h)
          BY <1>b, <2>1, <2>5, <3>2
        <4>2. j \in claims'
          BY <1>b, <2>1 DEF Agrees
        <4> QED BY <2>2, <2>5, <3>2, <4>1, <4>2 DEF Agrees, Past
      <3> QED BY <3>1, <3>2
    <2> QED BY <1>d, <2>1, <2>2, <2>4, <2>5 DEF Past
  <1>10. ASSUME NEW g \in Goroutines, Release(g) PROVE Right' /\ Alone'
    <2>1. UNCHANGED <<status, claims>> /\ Returns(g)
      BY <1>10 DEF Release
    <2>2. \A h \in Goroutines : Agrees(h)'
      BY <1>b, <2>1, Returned, SameRunner, IdleAgrees
    <2> QED BY <1>d, <2>1, <2>2, Returned DEF Past
  <1>11. ASSUME NEW r \in Replicas, Crash(r) PROVE Right' /\ Alone'
    <2>1. UNCHANGED <<status, claims>>
      BY <1>11 DEF Crash
    <2>2. \A h \in Goroutines : runner'[h] = runner[h] \/ runner'[h].at = "idle"
      BY <1>11, IdleRunner DEF Crash
    <2>3. \A h \in Goroutines : Agrees(h)'
      BY <1>b, <2>1, <2>2, SameRunner, IdleAgrees
    <2> QED BY <1>d, <2>2, <2>3 DEF Past
  <1>12. ASSUME NEW j \in Jobs, EnqueueList(j) \/ BecomeStale(j) PROVE Right' /\ Alone'
    BY <1>2, <1>12 DEF EnqueueList, BecomeStale
  <1>13. CASE UNCHANGED vars
    BY <1>2, <1>13 DEF vars
  <1> QED BY <1>1, <1>3, <1>4, <1>6, <1>7, <1>8, <1>9, <1>10, <1>11, <1>12,
             <1>13, StepCases

-----------------------------------------------------------------------------
(* The inductive invariant and what follows from it.                         *)

LEMMA IndInvInit == ASSUME Init PROVE IndInv
  <1> USE HypothesisJobsAssumption
  <1>1. TypeOK
    <2>1. <<>> \in Seq(Jobs) /\ Len(<<>>) <= GlobalMax
      OBVIOUS
    <2>2. runner \in [Goroutines -> [at : Runs, job : Jobs, replica : Replicas]]
      BY IdleRunner DEF Init
    <2>3. faults \in 0..MaxFaults /\ crashes \in 0..MaxCrashes /\ lapses \in 0..MaxLapses
      BY DEF Init
    <2> QED BY <2>1, <2>2, <2>3 DEF Init, TypeOK, Statuses, Calls
  <1>2. \A g \in Goroutines : runner[g].at = "idle"
    BY IdleRunner DEF Init
  <1>3. Unasked
    <2>1. ToSet(globalIds) = {}
      BY DEF Init, ToSet
    <2> QED BY <1>2, <2>1 DEF Init, Unasked
  <1> QED BY <1>1, <1>2, <1>3 DEF IndInv, RecordAgrees, OneRunner, Agrees, Past

LEMMA IndInvStep == ASSUME IndInv, [Next]_vars PROVE IndInv'
  BY TypeStep, UnaskedStep, RecordStep DEF IndInv

(* The invariant holds in every reachable state.                             *)
THEOREM Invariance == Spec => []IndInv
  <1>1. Init => IndInv
    BY IndInvInit
  <1>2. IndInv /\ [Next]_vars => IndInv'
    BY IndInvStep
  <1> QED BY <1>1, <1>2, PTL DEF Spec

(* Records, lists and goroutines are well formed: in particular the list      *)
(* replicas resume from is never longer than GlobalMax.                       *)
THEOREM TypeCorrect == Spec => []TypeOK
  <1>1. IndInv => TypeOK
    BY DEF IndInv
  <1> QED BY <1>1, Invariance, PTL

(* Work starts only on a job whose record says queued.                        *)
THEOREM StartsQueued == Spec => StartsOnlyQueued
  <1> DEFINE A == \A j \in Jobs :
                    lapses = 0 /\ executed'[j] > executed[j] => status[j] = "queued"
  <1>1. IndInv /\ [Next]_vars => [A]_vars
    <2> SUFFICES ASSUME IndInv, [Next]_vars, NEW j \in Jobs,
                        lapses = 0, executed'[j] > executed[j]
                 PROVE  status[j] = "queued"
      OBVIOUS
    <2>1. executed[j] \in Nat
      BY DEF IndInv, TypeOK
    <2>2. executed' # executed
      BY <2>1
    <2>3. PICK g \in Goroutines : Start(g)
      BY <2>2, StepCases DEF EnqueueSave, EnqueueList, EnqueueRun, Lapse, BecomeStale,
         Resume, Claim, Acquire, Finish, Heartbeat, SaveResult, Release, Crash, counts, vars
    <2>4. runner[g].job = j
      BY <2>1, <2>3 DEF Start, IndInv, TypeOK
    <2> QED BY <2>3, <2>4 DEF Start, IndInv, RecordAgrees, Agrees
  <1> QED BY <1>1, Invariance, PTL DEF Spec, StartsOnlyQueued

(* A recorded result is final.                                                *)
THEOREM ResultsAreFinal == Spec => FinishedIsKept
  <1> DEFINE A == \A j \in Jobs : lapses = 0 /\ status[j] \in {"succeeded", "failed"}
                                   => status'[j] = status[j]
  <1>1. IndInv /\ [Next]_vars => [A]_vars
    <2> SUFFICES ASSUME IndInv, [Next]_vars, NEW j \in Jobs,
                        lapses = 0, status[j] \in {"succeeded", "failed"}
                 PROVE  status'[j] = status[j]
      OBVIOUS
    <2>1. ASSUME NEW k \in Jobs, EnqueueSave(k) PROVE status'[j] = status[j]
      <3>1. status[k] = "none"
        BY <2>1 DEF EnqueueSave, Calling, IndInv, Unasked
      <3> QED BY <2>1, <3>1 DEF EnqueueSave, SetStatus, KeepStatus, IndInv, TypeOK
    <2>2. ASSUME NEW g \in Goroutines, Start(g) \/ Heartbeat(g) \/ SaveResult(g)
          PROVE  status'[j] = status[j]
      <3>1. status[runner[g].job] \in {"queued", "running"}
        BY <2>2 DEF Start, Heartbeat, SaveResult, IndInv, RecordAgrees, Agrees
      <3> QED BY <2>2, <3>1 DEF Start, Heartbeat, SaveResult, Save, SetStatus, KeepStatus,
                 IndInv, TypeOK
    <2> QED BY <2>1, <2>2, StepCases DEF EnqueueList, EnqueueRun, Lapse, BecomeStale,
               Resume, Claim, Acquire, Finish, Release, Crash, counts, vars
  <1> QED BY <1>1, Invariance, PTL DEF Spec, FinishedIsKept

-----------------------------------------------------------------------------
(* How many run a job.                                                       *)

Room(j) == Cardinality(Runners(j)) + (IF j \notin claims THEN 1 ELSE 0) <= 1 + lapses

LEMMA RunnersFinite ==
    ASSUME NEW j \in Jobs
    PROVE  /\ IsFiniteSet(Runners(j)) /\ Cardinality(Runners(j)) \in Nat
           /\ IsFiniteSet(Runners(j)') /\ Cardinality(Runners(j)') \in Nat
  <1>1. IsFiniteSet(Goroutines)
    BY HypothesisJobsAssumption
  <1>2. Runners(j) \subseteq Goroutines /\ Runners(j)' \subseteq Goroutines
    BY DEF Runners
  <1> QED BY <1>1, <1>2, FS_Subset, FS_CardinalityType

(* Runners that return or die make room, and a claim that is taken as well.   *)
LEMMA RoomKept ==
    ASSUME TypeOK, TypeOK', NEW j \in Jobs, Room(j), UNCHANGED lapses,
           Runners(j)' \subseteq Runners(j), j \in claims => j \in claims'
    PROVE  Room(j)'
  <1> DEFINE w == Cardinality(Runners(j))
             v == Cardinality(Runners(j)')
  <1>1. v <= w /\ v \in Nat /\ w \in Nat /\ lapses \in Nat
    BY RunnersFinite, FS_Subset DEF TypeOK
  <1>2. w + (IF j \notin claims THEN 1 ELSE 0) <= 1 + lapses
    BY DEF Room
  <1>3. v + (IF j \notin claims' THEN 1 ELSE 0) <= 1 + lapses'
    <2> HIDE DEF w, v
    <2> QED BY <1>1, <1>2
  <1> QED BY <1>3 DEF Room

(* A goroutine gets past the claim only by taking it.                         *)
LEMMA RoomClaim ==
    ASSUME TypeOK, TypeOK', NEW j \in Jobs, NEW g \in Goroutines, Room(j), UNCHANGED lapses,
           j \notin claims, j \in claims', Runners(j)' \subseteq Runners(j) \cup {g}
    PROVE  Room(j)'
  <1> DEFINE w == Cardinality(Runners(j))
             v == Cardinality(Runners(j)')
  <1>1. v <= w + 1 /\ v \in Nat /\ w \in Nat /\ lapses \in Nat
    <2>1. /\ IsFiniteSet(Runners(j) \cup {g})
          /\ Cardinality(Runners(j) \cup {g}) \in {w, w + 1} /\ w \in Nat
      BY RunnersFinite, FS_AddElement
    <2>2. v <= Cardinality(Runners(j) \cup {g}) /\ v \in Nat
      BY <2>1, RunnersFinite, FS_Subset
    <2> QED BY <2>1, <2>2 DEF TypeOK
  <1>2. w + 1 <= 1 + lapses
    BY DEF Room
  <1>3. v + 0 <= 1 + lapses'
    <2> HIDE DEF w, v
    <2> QED BY <1>1, <1>2
  <1> QED BY <1>3 DEF Room

(* A claim that lapses under nobody leaves nobody; one that lapses under a    *)
(* runner is counted.                                                        *)
LEMMA RoomLapse ==
    ASSUME TypeOK, NEW j \in Jobs, Room(j), Lapse(j) PROVE Room(j)'
  <1> DEFINE w == Cardinality(Runners(j))
  <1>1. Runners(j)' = Runners(j) /\ w \in Nat /\ lapses \in Nat
    <2>1. Runners(j)' = Runners(j)
      BY DEF Lapse, Runners, Past
    <2> QED BY <2>1, RunnersFinite DEF TypeOK
  <1>2. w <= 1 + lapses
    <2>1. w + 0 <= 1 + lapses
      BY DEF Room, Lapse
    <2> HIDE DEF w
    <2> QED BY <1>1, <2>1
  <1>3. w + 1 <= 1 + lapses'
    <2>1. CASE Runners(j) # {}
      <3>1. lapses' = lapses + 1
        BY <2>1 DEF Lapse, Runners
      <3> HIDE DEF w
      <3> QED BY <1>1, <1>2, <3>1
    <2>2. CASE Runners(j) = {}
      <3>1. w = 0 /\ lapses' = lapses
        BY <2>2, FS_EmptySet DEF Lapse, Runners
      <3> HIDE DEF w
      <3> QED BY <1>1, <3>1
    <2> QED BY <2>1, <2>2
  <1>4. j \notin claims'
    BY DEF Lapse
  <1> QED BY <1>1, <1>3, <1>4 DEF Room

LEMMA RoomStep ==
    ASSUME TypeOK, TypeOK', NEW j \in Jobs, Room(j), [Next]_vars PROVE Room(j)'
  \* Nobody gets past the claim of j.
  <1>1. ASSUME claims \subseteq claims', UNCHANGED lapses,
               \A h \in Goroutines : Past(h)' => Past(h) /\ runner'[h].job = runner[h].job
        PROVE  Room(j)'
    <2>1. Runners(j)' \subseteq Runners(j)
      BY <1>1 DEF Runners
    <2> QED BY <1>1, <2>1, RoomKept
  <1>2. ASSUME claims \subseteq claims', UNCHANGED <<lapses, runner>> PROVE Room(j)'
    BY <1>1, <1>2 DEF Past
  <1>3. ASSUME NEW r \in Replicas, NEW k \in Jobs, Spawn(r, k), UNCHANGED <<claims, lapses>>
        PROVE  Room(j)'
    <2>1. PICK c \in Goroutines : runner' = [runner EXCEPT ![c] =
                                     [at |-> "launched", job |-> k, replica |-> r]]
      BY <1>3, Spawned
    <2>2. runner'[c].at = "launched" /\ \A h \in Goroutines : h # c => runner'[h] = runner[h]
      BY <2>1 DEF TypeOK
    <2> QED BY <1>1, <1>3, <2>2 DEF Past
  <1>4. ASSUME NEW k \in Jobs, EnqueueRun(k) PROVE Room(j)'
    <2>1. UNCHANGED <<claims, lapses>> /\ AskedAt[k] \in Replicas
      BY <1>4, HypothesisJobsAssumption DEF EnqueueRun
    <2> QED BY <1>2, <1>3, <1>4, <2>1 DEF EnqueueRun
  <1>5. ASSUME NEW k \in Jobs, Lapse(k), k # j PROVE Room(j)'
    <2>1. Runners(j)' = Runners(j) /\ (j \in claims' <=> j \in claims)
      BY <1>5 DEF Lapse, Runners, Past
    <2>2. /\ Cardinality(Runners(j)) \in Nat /\ lapses \in Nat /\ lapses' \in {lapses, lapses + 1}
      BY <1>5, RunnersFinite DEF Lapse, TypeOK
    <2> QED BY <2>1, <2>2 DEF Room
  <1>6. ASSUME NEW r \in Replicas, NEW k \in Jobs, Resume(r, k) PROVE Room(j)'
    BY <1>3, <1>6 DEF Resume, counts
  <1>7. ASSUME NEW g \in Goroutines, Claim(g) PROVE Room(j)'
    <2> DEFINE k == runner[g].job
    <2>1. UNCHANGED lapses /\ claims \subseteq claims' /\ runner[g].at = "launched"
      BY <1>7 DEF Claim
    <2>2. CASE Returns(g)
      <3>1. \A h \in Goroutines : Past(h)' => Past(h) /\ runner'[h].job = runner[h].job
        BY <2>2, Returned DEF Past
      <3> QED BY <1>1, <2>1, <3>1
    <2>3. CASE k \notin claims /\ claims' = claims \cup {k} /\ Goes(g, Claimed(k))
      <3>1. runner'[g].job = k /\ \A h \in Goroutines : h # g => runner'[h] = runner[h]
        BY <2>3, Gone
      <3>2. CASE k = j
        <4>1. Runners(j)' \subseteq Runners(j) \cup {g}
          BY <3>1 DEF Runners, Past
        <4> QED BY <2>1, <2>3, <3>2, <4>1, RoomClaim
      <3>3. CASE k # j
        <4>1. Runners(j)' \subseteq Runners(j)
          BY <3>1, <3>3 DEF Runners, Past
        <4> QED BY <2>1, <4>1, RoomKept
      <3> QED BY <3>2, <3>3
    <2> QED BY <1>7, <2>2, <2>3 DEF Claim
  <1>8. ASSUME NEW g \in Goroutines,
               Acquire(g) \/ Finish(g) \/ Start(g) \/ Heartbeat(g) \/ SaveResult(g)
        PROVE  Room(j)'
    <2>1. UNCHANGED <<claims, lapses>> /\ Past(g)
      BY <1>8 DEF Acquire, Finish, Start, Heartbeat, SaveResult, Past, counts
    <2>2. /\ runner'[g].job = runner[g].job
          /\ \A h \in Goroutines : h # g => runner'[h] = runner[h]
      BY <1>8, Gone DEF Acquire, Finish, Start, Heartbeat, SaveResult
    <2> QED BY <1>1, <2>1, <2>2 DEF Past
  <1>9. ASSUME NEW g \in Goroutines, Release(g) PROVE Room(j)'
    <2>1. \A h \in Goroutines : Past(h)' => Past(h) /\ runner'[h].job = runner[h].job
      BY <1>9, Returned DEF Release, Past
    <2> QED BY <1>1, <1>9, <2>1 DEF Release, counts
  <1>10. ASSUME NEW r \in Replicas, Crash(r) PROVE Room(j)'
    <2>1. \A h \in Goroutines : runner'[h] = runner[h] \/ runner'[h].at = "idle"
      BY <1>10, IdleRunner DEF Crash
    <2> QED BY <1>1, <1>10, <2>1 DEF Crash, Past
  <1>11. ASSUME NEW k \in Jobs, EnqueueSave(k) \/ EnqueueList(k) \/ BecomeStale(k)
         PROVE  Room(j)'
    BY <1>2, <1>11 DEF EnqueueSave, EnqueueList, BecomeStale
  <1>12. CASE UNCHANGED vars
    BY <1>2, <1>12 DEF vars
  <1> QED BY <1>4, <1>5, <1>6, <1>7, <1>8, <1>9, <1>10, <1>11, <1>12, RoomLapse, StepCases

(* Any number of replicas and goroutines, saves that fail and processes that  *)
(* die: one goroutine runs a job, and one more at most for each claim that    *)
(* lapsed under its runner.                                                  *)
THEOREM Exclusion == Spec => []ClaimsExclude
  <1>1. RunnersPaid <=> \A j \in Jobs : Room(j)
    BY DEF RunnersPaid, Room
  <1>2. Init => RunnersPaid
    <2> SUFFICES ASSUME Init, NEW j \in Jobs PROVE Room(j)
      BY <1>1
    <2>1. Runners(j) = {}
      BY IdleRunner DEF Init, Runners, Past
    <2> QED BY <2>1, FS_EmptySet DEF Init, Room
  <1>3. IndInv /\ IndInv' /\ RunnersPaid /\ [Next]_vars => RunnersPaid'
    <2> SUFFICES ASSUME IndInv, IndInv', \A j \in Jobs : Room(j), [Next]_vars
                 PROVE  \A j \in Jobs : Room(j)'
      BY <1>1 DEF RunnersPaid, Room
    <2> QED BY RoomStep DEF IndInv
  <1>4. IndInv /\ RunnersPaid => ClaimsExclude
    <2> SUFFICES ASSUME IndInv, NEW j \in Jobs, Room(j)
                 PROVE  Cardinality(Runners(j)) <= 1 + lapses
      BY <1>1 DEF ClaimsExclude
    <2>1. Cardinality(Runners(j)) \in Nat /\ lapses \in Nat
      BY RunnersFinite DEF IndInv, TypeOK
    <2> QED BY <2>1 DEF Room
  <1> QED BY <1>2, <1>3, <1>4, Invariance, PTL DEF Spec

-----------------------------------------------------------------------------
(* How often a job is started.                                               *)

New(j)  == status[j] \in {"none", "queued"}
Paid(j) == /\ executed[j] + Cardinality(Entitled(j)) + (IF Claimable(j) THEN 1 ELSE 0)
                <= 1 + faults + lapses
           /\ New(j) => executed[j] <= faults

\* A step by which nobody gets further with job j.
NoFurther(j) == /\ executed'[j] = executed[j]
                /\ Entitled(j)' \subseteq Entitled(j)
                /\ Claimable(j)' => Claimable(j)
                /\ New(j)' => New(j)

LEMMA EntitledFinite ==
    ASSUME NEW j \in Jobs
    PROVE  /\ IsFiniteSet(Entitled(j)) /\ Cardinality(Entitled(j)) \in Nat
           /\ IsFiniteSet(Entitled(j)') /\ Cardinality(Entitled(j)') \in Nat
  <1>1. IsFiniteSet(Goroutines)
    BY HypothesisJobsAssumption
  <1>2. Entitled(j) \subseteq Goroutines /\ Entitled(j)' \subseteq Goroutines
    BY DEF Entitled
  <1> QED BY <1>1, <1>2, FS_Subset, FS_CardinalityType

(* What is paid for stays so when nobody gets further, whatever fails.        *)
LEMMA PaidKept ==
    ASSUME TypeOK, TypeOK', NEW j \in Jobs, Paid(j), NoFurther(j),
           faults <= faults', lapses <= lapses'
    PROVE  Paid(j)'
  <1> DEFINE w == Cardinality(Entitled(j))
             v == Cardinality(Entitled(j)')
  <1>1. v <= w /\ v \in Nat /\ w \in Nat
    BY EntitledFinite, FS_Subset DEF NoFurther
  <1>2. /\ executed[j] \in Nat /\ faults \in Nat /\ lapses \in Nat
        /\ faults' \in Nat /\ lapses' \in Nat
    BY DEF TypeOK
  <1>3. /\ executed[j] + w + (IF Claimable(j) THEN 1 ELSE 0) <= 1 + faults + lapses
        /\ New(j) => executed[j] <= faults
    BY DEF Paid
  <1>4. /\ executed'[j] + v + (IF Claimable(j)' THEN 1 ELSE 0) <= 1 + faults' + lapses'
        /\ New(j)' => executed'[j] <= faults'
    <2> HIDE DEF w, v
    <2> QED BY <1>1, <1>2, <1>3 DEF NoFurther
  <1> QED BY <1>4 DEF Paid

(* A runner that gets the claim takes the place of the one that might.        *)
LEMMA PaidClaim ==
    ASSUME TypeOK, TypeOK', NEW j \in Jobs, NEW g \in Goroutines, Paid(j),
           Claimable(j), ~Claimable(j)', Entitled(j)' \subseteq Entitled(j) \cup {g},
           UNCHANGED <<executed, status, faults, lapses>>
    PROVE  Paid(j)'
  <1> DEFINE w == Cardinality(Entitled(j))
             v == Cardinality(Entitled(j)')
  <1>1. v <= w + 1 /\ v \in Nat /\ w \in Nat
    <2>1. /\ IsFiniteSet(Entitled(j) \cup {g})
          /\ Cardinality(Entitled(j) \cup {g}) \in {w, w + 1} /\ w \in Nat
      BY EntitledFinite, FS_AddElement
    <2>2. v <= Cardinality(Entitled(j) \cup {g}) /\ v \in Nat
      BY <2>1, EntitledFinite, FS_Subset
    <2> QED BY <2>1, <2>2
  <1>2. executed[j] \in Nat /\ faults \in Nat /\ lapses \in Nat
    BY DEF TypeOK
  <1>3. executed[j] + w + 1 <= 1 + faults + lapses /\ (New(j) => executed[j] <= faults)
    BY DEF Paid
  <1>4. /\ executed'[j] + v + (IF Claimable(j)' THEN 1 ELSE 0) <= 1 + faults' + lapses'
        /\ New(j)' => executed'[j] <= faults'
    <2> HIDE DEF w, v
    <2> QED BY <1>1, <1>2, <1>3 DEF New
  <1> QED BY <1>4 DEF Paid

(* A start uses the claim up; the record is new after it only if it was lost. *)
LEMMA PaidStart ==
    ASSUME TypeOK, TypeOK', NEW j \in Jobs, NEW g \in Entitled(j), Paid(j),
           executed'[j] = executed[j] + 1, Entitled(j)' \subseteq Entitled(j) \ {g},
           Claimable(j)' => Claimable(j), UNCHANGED lapses,
           \/ faults' = faults + 1 /\ (New(j)' => New(j))
           \/ faults' = faults /\ ~New(j)'
    PROVE  Paid(j)'
  <1> DEFINE w == Cardinality(Entitled(j))
             v == Cardinality(Entitled(j)')
  <1>1. v + 1 <= w /\ v \in Nat /\ w \in Nat
    <2>1. /\ IsFiniteSet(Entitled(j) \ {g})
          /\ Cardinality(Entitled(j) \ {g}) = w - 1 /\ w \in Nat
      BY EntitledFinite, FS_RemoveElement
    <2>2. v <= Cardinality(Entitled(j) \ {g}) /\ v \in Nat
      BY <2>1, EntitledFinite, FS_Subset
    <2> QED BY <2>1, <2>2
  <1>2. executed[j] \in Nat /\ faults \in Nat /\ lapses \in Nat
    BY DEF TypeOK
  <1>3. /\ executed[j] + w + (IF Claimable(j) THEN 1 ELSE 0) <= 1 + faults + lapses
        /\ New(j) => executed[j] <= faults
    BY DEF Paid
  <1>4. /\ executed'[j] + v + (IF Claimable(j)' THEN 1 ELSE 0) <= 1 + faults' + lapses'
        /\ New(j)' => executed'[j] <= faults'
    <2> HIDE DEF w, v
    <2> QED BY <1>1, <1>2, <1>3
  <1> QED BY <1>4 DEF Paid

(* A claim that lapses is paid for by the lapse, or by the records lost: a    *)
(* job without a runner is claimed again only while its record says queued.   *)
LEMMA PaidLapse ==
    ASSUME TypeOK, NEW j \in Jobs, Paid(j), Lapse(j)
    PROVE  Paid(j)'
  <1> DEFINE w == Cardinality(Entitled(j))
  <1>1. /\ UNCHANGED <<executed, status, faults, runner>> /\ Entitled(j)' = Entitled(j)
        /\ New(j)' <=> New(j)
    BY DEF Lapse, Entitled, New
  <1>2. /\ executed[j] \in Nat /\ faults \in Nat /\ lapses \in Nat /\ w \in Nat
        /\ lapses' \in {lapses, lapses + 1}
    BY EntitledFinite DEF TypeOK, Lapse
  <1>3. /\ executed[j] + w <= 1 + faults + lapses /\ (New(j) => executed[j] <= faults)
    <2>1. ~Claimable(j)
      BY DEF Lapse, Claimable
    <2>2. executed[j] + w + 0 <= 1 + faults + lapses
      BY <2>1 DEF Paid
    <2> HIDE DEF w
    <2> QED BY <1>2, <2>2 DEF Paid
  <1>4. executed[j] + w + (IF Claimable(j)' THEN 1 ELSE 0) <= 1 + faults + lapses'
    <2>1. CASE \E g \in Goroutines : Past(g) /\ runner[g].job = j
      <3>1. lapses' = lapses + 1
        BY <2>1 DEF Lapse
      <3> HIDE DEF w
      <3> QED BY <1>2, <1>3, <3>1
    <2>2. CASE ~\E g \in Goroutines : Past(g) /\ runner[g].job = j
      <3>1. w = 0
        <4>1. Entitled(j) = {}
          BY <2>2 DEF Entitled, Past
        <4> QED BY <4>1, FS_EmptySet
      <3>2. Claimable(j)' => New(j)
        BY <1>1 DEF Lapse, Claimable, New
      <3> HIDE DEF w
      <3> QED BY <1>2, <1>3, <3>1, <3>2
    <2> QED BY <2>1, <2>2
  <1> QED BY <1>1, <1>3, <1>4 DEF Paid

(* Whoever gets further with a job gets the claim, starts it or lets it lapse. *)
LEMMA PaidStep ==
    ASSUME TypeOK, TypeOK', Unasked, NEW j \in Jobs, Paid(j), [Next]_vars
    PROVE  Paid(j)'
  <1>1. \A g \in Goroutines : runner[g].job \in Jobs
    BY DEF TypeOK
  <1>2. faults <= faults' /\ lapses <= lapses'
    <2>1. faults \in Nat /\ lapses \in Nat
      BY DEF TypeOK
    <2>2. lapses' \in {lapses, lapses + 1} /\ faults' \in {faults, faults + 1}
      BY StepCases DEF EnqueueSave, EnqueueList, EnqueueRun, Lapse, BecomeStale, Resume,
         Claim, Acquire, Finish, Start, Heartbeat, SaveResult, Save, Release, Crash, counts,
         vars, Fault, NoFault
    <2> QED BY <2>1, <2>2
  \* Records and claims stay and no runner of j is more than it was.
  <1>3. ASSUME UNCHANGED <<status, claims, executed>>,
               \A h \in Goroutines : \/ runner'[h].job # j \/ runner'[h].at = "idle"
                                     \/ runner'[h] = runner[h]
        PROVE  NoFurther(j)
    <2>1. Entitled(j)' \subseteq Entitled(j)
      BY <1>3 DEF Entitled
    <2> QED BY <1>3, <2>1 DEF NoFurther, Claimable, New
  <1>4. ASSUME UNCHANGED <<status, claims, executed, runner>> PROVE NoFurther(j)
    BY <1>4 DEF NoFurther, Entitled, Claimable, New
  <1>5. ASSUME NEW k \in Jobs, EnqueueSave(k) PROVE NoFurther(j)
    <2>1. status[k] = "none"
      BY <1>5 DEF EnqueueSave, Calling, Unasked
    <2>2. UNCHANGED <<runner, claims, executed>> /\ (New(j)' => New(j))
      BY <1>5, <2>1 DEF EnqueueSave, SetStatus, KeepStatus, New, TypeOK
    <2> QED BY <2>2 DEF NoFurther, Entitled, Claimable, New
  \* A runner is launched on a job that is queued, without the claim.
  <1>6. ASSUME NEW r \in Replicas, NEW k \in Jobs, Spawn(r, k), status[k] = "queued",
               UNCHANGED <<status, claims, executed>>
        PROVE  NoFurther(j)
    <2>1. PICK c \in Goroutines : runner[c].at = "idle" /\
            runner' = [runner EXCEPT ![c] = [at |-> "launched", job |-> k, replica |-> r]]
      BY <1>6, Spawned
    <2>2. runner'[c].at = "launched" /\ runner'[c].job = k
          /\ \A h \in Goroutines : h # c => runner'[h] = runner[h]
      BY <2>1 DEF TypeOK
    <2>3. Entitled(j)' \subseteq Entitled(j)
      BY <2>2 DEF Entitled
    <2>4. Claimable(j)' => Claimable(j)
      <3>1. CASE k = j
        BY <1>6, <3>1 DEF Claimable
      <3>2. CASE k # j
        BY <1>6, <2>2, <3>2 DEF Claimable
      <3> QED BY <3>1, <3>2
    <2> QED BY <1>6, <2>3, <2>4 DEF NoFurther, New
  <1>7. ASSUME NEW k \in Jobs, EnqueueRun(k) PROVE NoFurther(j)
    <2>1. UNCHANGED <<status, claims, executed>> /\ status[k] = "queued"
          /\ AskedAt[k] \in Replicas
      BY <1>7, HypothesisJobsAssumption DEF EnqueueRun, Calling, Unasked
    <2> QED BY <1>4, <1>6, <1>7, <2>1 DEF EnqueueRun
  <1>8. ASSUME NEW r \in Replicas, NEW k \in Jobs, Resume(r, k) PROVE NoFurther(j)
    BY <1>6, <1>8 DEF Resume
  <1>9. ASSUME NEW k \in Jobs, Lapse(k), k # j PROVE NoFurther(j)
    BY <1>9 DEF Lapse, NoFurther, Entitled, Claimable, New
  <1>10. ASSUME NEW g \in Goroutines, Claim(g) PROVE Paid(j)'
    <2> DEFINE k == runner[g].job
    <2>1. UNCHANGED <<status, executed, lapses>> /\ runner[g].at = "launched"
      BY <1>10 DEF Claim
    <2>2. CASE Returns(g)
      <3>1. claims \subseteq claims' /\ runner'[g].at = "idle"
            /\ \A h \in Goroutines : h # g => runner'[h] = runner[h]
        BY <1>10, <2>2, Returned DEF Claim
      <3>2. Entitled(j)' \subseteq Entitled(j)
        BY <3>1 DEF Entitled
      <3>3. NoFurther(j)
        BY <2>1, <3>1, <3>2 DEF NoFurther, Claimable, New
      <3> QED BY <1>2, <3>3, PaidKept
    <2>3. CASE k \notin claims /\ claims' = claims \cup {k} /\ Goes(g, Claimed(k)) /\ NoFault
      <3>1. runner'[g].at \in {"waiting", "starting"} /\ runner'[g].job = k
            /\ \A h \in Goroutines : h # g => runner'[h] = runner[h]
        BY <2>3, Gone DEF Claimed
      <3>2. CASE k = j
        <4>1. Claimable(j) /\ ~Claimable(j)'
          BY <2>1, <2>3, <3>2 DEF Claimable
        <4>2. Entitled(j)' \subseteq Entitled(j) \cup {g}
          BY <3>1 DEF Entitled
        <4> QED BY <2>1, <2>3, <4>1, <4>2, PaidClaim DEF NoFault
      <3>3. CASE k # j
        <4>1. Entitled(j)' \subseteq Entitled(j)
          BY <3>1, <3>3 DEF Entitled
        <4>2. NoFurther(j)
          BY <2>1, <2>3, <3>1, <3>3, <4>1 DEF NoFurther, Claimable, New
        <4> QED BY <1>2, <4>2, PaidKept
      <3> QED BY <3>2, <3>3
    <2> QED BY <1>10, <2>2, <2>3 DEF Claim
  <1>11. ASSUME NEW g \in Goroutines, Acquire(g) \/ Finish(g) PROVE NoFurther(j)
    <2>1. UNCHANGED <<status, claims, executed>>
      BY <1>11 DEF Acquire, Finish
    <2>2. /\ runner'[g].job = runner[g].job
          /\ \A h \in Goroutines : h # g => runner'[h] = runner[h]
          /\ \/ runner[g].at = "waiting" /\ runner'[g].at = "starting"
             \/ runner[g].at = "executing" /\ runner'[g].at \in {"succeeded", "failed"}
      BY <1>11, Gone DEF Acquire, Finish
    <2>3. Entitled(j)' \subseteq Entitled(j)
      BY <2>2 DEF Entitled
    <2> QED BY <2>1, <2>2, <2>3 DEF NoFurther, Claimable, New
  <1>12. ASSUME NEW g \in Goroutines, Start(g) PROVE Paid(j)'
    <2> DEFINE k == runner[g].job
    <2>1. UNCHANGED <<claims, lapses>> /\ runner[g].at = "starting" /\ runner'[g].at = "executing"
          /\ runner'[g].job = k /\ \A h \in Goroutines : h # g => runner'[h] = runner[h]
      BY <1>12, Gone DEF Start
    <2>2. Entitled(j)' \subseteq Entitled(j) \ {g}
      BY <2>1 DEF Entitled
    <2>3. \/ faults' = faults + 1 /\ (New(j)' => New(j))
          \/ faults' = faults /\ (k = j => ~New(j)')
      BY <1>1, <1>12 DEF Start, Save, Fault, NoFault, SetStatus, KeepStatus, New, TypeOK
    <2>4. New(j)' => New(j)
      BY <1>1, <1>12 DEF Start, Save, SetStatus, KeepStatus, New, TypeOK
    <2>5. Claimable(j)' => Claimable(j)
      BY <2>1, <2>4 DEF Claimable, New
    <2>6. CASE k = j
      <3>1. executed'[j] = executed[j] + 1
        BY <1>12, <2>6 DEF Start, TypeOK
      <3>2. g \in Entitled(j)
        BY <2>1, <2>6 DEF Entitled
      <3> QED BY <2>1, <2>2, <2>3, <2>5, <2>6, <3>1, <3>2, PaidStart
    <2>7. CASE k # j
      <3>1. executed'[j] = executed[j]
        BY <1>12, <2>7 DEF Start, TypeOK
      <3>2. NoFurther(j)
        BY <2>2, <2>4, <2>5, <3>1 DEF NoFurther
      <3> QED BY <1>2, <3>2, PaidKept
    <2> QED BY <2>6, <2>7
  <1>13. ASSUME NEW g \in Goroutines, Heartbeat(g) \/ SaveResult(g) PROVE NoFurther(j)
    <2>1. UNCHANGED <<claims, executed>> /\ (New(j)' => New(j))
      BY <1>1, <1>13 DEF Heartbeat, SaveResult, Save, SetStatus, KeepStatus, New, TypeOK
    <2>2. \A h \in Goroutines : runner'[h] = runner[h] \/ runner'[h].at = "saved"
      BY <1>13, Gone DEF Heartbeat, SaveResult
    <2>3. Entitled(j)' \subseteq Entitled(j)
      BY <2>2 DEF Entitled
    <2> QED BY <2>1, <2>2, <2>3 DEF NoFurther, Claimable, New
  <1>14. ASSUME NEW g \in Goroutines, Release(g) PROVE NoFurther(j)
    BY <1>3, <1>14, Returned DEF Release
  <1>15. ASSUME NEW r \in Replicas, Crash(r) PROVE NoFurther(j)
    BY <1>3, <1>15, IdleRunner DEF Crash
  <1>16. ASSUME NEW k \in Jobs, EnqueueList(k) \/ BecomeStale(k) PROVE NoFurther(j)
    BY <1>4, <1>16 DEF EnqueueList, BecomeStale
  <1>17. CASE UNCHANGED vars
    BY <1>2, <1>4, <1>17, PaidKept DEF vars
  <1> QED BY <1>2, <1>5, <1>7, <1>8, <1>9, <1>10, <1>11, <1>12, <1>13, <1>14, <1>15, <1>16,
             <1>17, PaidKept, PaidLapse, StepCases

(* However many replicas resume a job and processes die, it is started at     *)
(* most once, plus once for each call to Valkey that failed and each claim    *)
(* that lapsed under its runner.                                             *)
THEOREM FewStarts == Spec => []StartsAreFew
  <1>1. StartsPaid <=> \A j \in Jobs : Paid(j)
    BY DEF StartsPaid, Paid, New
  <1>2. Init => StartsPaid
    <2> SUFFICES ASSUME Init, NEW j \in Jobs PROVE Paid(j)
      BY <1>1
    <2>1. Entitled(j) = {}
      BY IdleRunner DEF Init, Entitled
    <2>2. Cardinality(Entitled(j)) = 0
      BY <2>1, FS_EmptySet
    <2> QED BY <2>2 DEF Init, Paid
  <1>3. IndInv /\ IndInv' /\ StartsPaid /\ [Next]_vars => StartsPaid'
    <2> SUFFICES ASSUME IndInv, IndInv', \A j \in Jobs : Paid(j), [Next]_vars
                 PROVE  \A j \in Jobs : Paid(j)'
      BY <1>1 DEF StartsPaid, Paid, New
    <2> QED BY PaidStep DEF IndInv
  <1>4. IndInv /\ StartsPaid => StartsAreFew
    <2> SUFFICES ASSUME IndInv, NEW j \in Jobs, Paid(j)
                 PROVE  executed[j] <= 1 + faults + lapses
      BY <1>1 DEF StartsAreFew
    <2>1. /\ executed[j] \in Nat /\ faults \in Nat /\ lapses \in Nat
          /\ Cardinality(Entitled(j)) \in Nat
      BY EntitledFinite DEF IndInv, TypeOK
    <2> QED BY <2>1 DEF Paid
  <1> QED BY <1>2, <1>3, <1>4, Invariance, PTL DEF Spec
=============================================================================
