--------------------------- MODULE ScanJobsProofs ---------------------------
(***************************************************************************)
(* Proofs about ScanJobs for any jobs, replicas, keys and times and any     *)
(* number of faults and crashes: the type invariant, that the store         *)
(* implements JobLifecycle, that a key names one job, that artifacts are    *)
(* owned, that jobs in flight are pursued and that results are kept.        *)
(***************************************************************************)
EXTENDS ScanJobs, TLAPS

-----------------------------------------------------------------------------
(* What a call does to the store.                                            *)

\* The jobs S may be set to s.
Movable(S, s) ==
    \A j \in S : /\ ~Expired(j)
                 /\ \/ <<state[j], s>> \in Lifecycle!Edges
                    \/ state[j] = "queued" /\ s = "queued"

\* The key of a job that is made was free.
Rows(S) == \/ idem' = Kept(idem)
           \/ \E k \in Keys, j \in S : ~Taken(k) /\ idem' = Kept(idem) \cup {<<k, j>>}

\* A call commits a purge with a few jobs moved along, or nothing.
Commits == \E S \in SUBSET Jobs, s \in States, c \in Times :
             Commit(S, s, c) /\ Movable(S, s) /\ Rows(S)

(* Committing rows keeps the table of jobs well typed.                       *)
LEMMA CommitType ==
    ASSUME TypeOK, NEW S \in SUBSET Jobs, NEW s \in States, NEW c \in Times,
           Commit(S, s, c)
    PROVE  /\ state' \in [Jobs -> States]
           /\ updated' \in [Jobs -> Times]
           /\ ref' \in [Jobs -> Times]
  <1>1. 0 \in Times /\ "expired" \in States
    BY ScanJobsAssumption DEF Times, States
  <1> QED BY <1>1 DEF TypeOK, Commit, Seen

(* A transition of jobs along an edge commits.                               *)
LEMMA TransitionCommits ==
    ASSUME TypeOK, NEW S \in SUBSET Jobs, NEW s \in States,
           Transition(S, s), Movable(S, s)
    PROVE  Commits
  <1>1. 0 \in Times
    BY ScanJobsAssumption DEF Times
  <1>2. Commit(S, s, 0) /\ Rows(S)
    BY DEF Transition, Rows
  <1> QED BY <1>1, <1>2 DEF Commits

(* So does the purge alone.                                                  *)
LEMMA PurgeCommits ==
    ASSUME TypeOK, Transition({}, "none") PROVE Commits
  <1>1. Movable({}, "none") /\ "none" \in States
    BY DEF Movable, States
  <1> QED BY <1>1, TransitionCommits

(* A failed call commits or leaves the store as it was.                      *)
LEMMA UncertainCommits ==
    ASSUME TypeOK, NEW S \in SUBSET Jobs, NEW s \in States,
           Uncertain(S, s), Movable(S, s)
    PROVE  Unwritten \/ Commits
  BY TransitionCommits DEF Uncertain

(* The jobs the operations move are on an edge.                              *)
LEMMA Edges ==
    ASSUME TypeOK, NEW j \in Jobs
    PROVE  /\ Movable(Only(j, "queued"), "running")
           /\ Movable(Only(j, "running"), "failed")
           /\ Movable(Only(j, "running"), "succeeded")
           /\ Movable(Unended(j), "cancelled")
           /\ state[j] = "none" => Movable({j}, "queued")
           /\ Only(j, "queued") \in SUBSET Jobs /\ Only(j, "running") \in SUBSET Jobs
           /\ Unended(j) \in SUBSET Jobs
  BY DEF Movable, Only, Unended, Seen, InFlight, Expired, Terminal, Lifecycle!Edges

(* So are those a starting process takes over.                               *)
LEMMA Requeued ==
    ASSUME TypeOK, NEW S \in SUBSET Unfinished
    PROVE  Movable(S, "queued") /\ S \in SUBSET Jobs
  BY DEF Movable, Unfinished, Seen, InFlight, Expired, Terminal, Lifecycle!Edges

(* Whatever happens, a call commits, or the store stays as it was.           *)
LEMMA StoreSteps ==
    ASSUME TypeOK, Next PROVE Unwritten \/ Commits
  <1>0. "none" \in States /\ "queued" \in States /\ "running" \in States
        /\ "failed" \in States /\ "succeeded" \in States /\ "cancelled" \in States
    BY DEF States, InFlight, Terminal
  <1>1. Movable({}, "none") /\ {} \in SUBSET Jobs
    BY DEF Movable
  <1>2. ASSUME NEW r \in Replicas, NEW k \in Keys, Resolve(r, k)
        PROVE  Unwritten \/ Commits
    BY <1>0, <1>1, <1>2, PurgeCommits, UncertainCommits DEF Resolve
  <1>3. ASSUME NEW r \in Replicas, NEW k \in Keys \cup {NoKey}, NEW j \in Jobs,
               Create(r, k, j)
        PROVE  Unwritten \/ Commits
    <2>1. CASE Transition({}, "none")
      BY <2>1, PurgeCommits
    <2>2. CASE Uncertain({}, "none")
      BY <2>2, <1>0, <1>1, UncertainCommits
    <2>3. CASE ~Taken(k) /\ Commit({j}, "queued", 0) /\ idem' = AddRow(k, j)
      <3>1. Movable({j}, "queued")
        <4>1. state[j] = "none"
          BY <1>3 DEF Create
        <4> QED BY <4>1, Edges
      <3>3. 0 \in Times
        BY ScanJobsAssumption DEF Times
      <3>2. Rows({j})
        BY <2>3 DEF Rows, AddRow
      <3> QED BY <3>1, <3>2, <3>3, <2>3, <1>0 DEF Commits
    <2> QED BY <1>3, <2>1, <2>2, <2>3 DEF Create
  <1>4. ASSUME NEW r \in Replicas, NEW j \in Jobs, Cancel(r, j)
        PROVE  Unwritten \/ Commits
    BY <1>4, <1>0, Edges, TransitionCommits, UncertainCommits DEF Cancel
  <1>5. ASSUME NEW r \in Replicas, NEW j \in Jobs, Run(r, j)
        PROVE  Unwritten \/ Commits
    <2>1. CASE Launch(r, j)
      BY <2>1, <1>0, <1>1, PurgeCommits, UncertainCommits DEF Launch
    <2>2. CASE MarkRunning(r, j)
      BY <2>2, <1>0, Edges, TransitionCommits, UncertainCommits DEF MarkRunning
    <2>3. CASE StopCancelled(r, j)
      BY <2>3, PurgeCommits DEF StopCancelled
    <2>4. CASE MarkFailed(r, j)
      BY <2>4, <1>0, Edges, TransitionCommits, UncertainCommits DEF MarkFailed
    <2>5. CASE Persist(r, j) \/ Put(r, j)
      BY <2>5 DEF Persist, Put
    <2>6. CASE MarkSucceeded(r, j)
      <3>1. wrote[r][j] \in Times
        BY DEF TypeOK
      <3>2. Unwritten \/ /\ Commit(Only(j, "running"), "succeeded", wrote[r][j])
                         /\ idem' = Kept(idem)
        BY <2>6 DEF MarkSucceeded
      <3> QED BY <3>1, <3>2, <1>0, Edges DEF Commits, Rows
    <2> QED BY <1>5, <2>1, <2>2, <2>3, <2>4, <2>5, <2>6 DEF Run
  <1>6. ASSUME NEW r \in Replicas, Read(r) PROVE Unwritten \/ Commits
    BY <1>6, <1>0, <1>1, PurgeCommits, UncertainCommits DEF Read
  <1>7. ASSUME NEW r \in Replicas, Collect(r) \/ Crash(r) PROVE Unwritten \/ Commits
    BY <1>7 DEF Collect, Crash, store, Unwritten
  <1>8. ASSUME NEW r \in Replicas, Restart(r) PROVE Unwritten \/ Commits
    <2>1. CASE Uncertain(Unfinished, "queued")
      BY <2>1, <1>0, Requeued, UncertainCommits
    <2>2. CASE \E held \in SUBSET Unfinished : Transition(Unfinished \ held, "queued")
      BY <2>2, <1>0, Requeued, TransitionCommits
    <2> QED BY <1>8, <2>1, <2>2 DEF Restart
  <1>9. CASE Tick
    BY <1>9 DEF Tick, store, Unwritten
  <1> QED BY <1>2, <1>3, <1>4, <1>5, <1>6, <1>7, <1>8, <1>9 DEF Next

-----------------------------------------------------------------------------
(* Types.                                                                    *)

(* The result store keeps its type: artifacts come from large results only.  *)
LEMMA ArtifactsType ==
    ASSUME TypeOK, Next
    PROVE  artifacts' \subseteq Large \X Times /\ leaked' \subseteq Large \X Times
  <1> DEFINE Goal == /\ artifacts' \subseteq Large \X Times
                     /\ leaked' \subseteq Large \X Times
  <1>1. /\ artifacts \subseteq Large \X Times /\ leaked \subseteq Large \X Times
        /\ clock \in Times
        /\ \A r \in Replicas, j \in Jobs : wrote[r][j] \in Times
    BY DEF TypeOK
  <1>2. Deferred \subseteq Large \X Times
    BY <1>1 DEF Deferred
  <1>3. ASSUME NEW j \in Jobs, NEW t \in Times
        PROVE  Artifact(j, t) \subseteq Large \X Times
    BY <1>3 DEF Artifact
  <1>4. ASSUME NEW S \in SUBSET (Large \X Times), Deleted(S) \/ Discard(S) PROVE Goal
    BY <1>1, <1>4 DEF Deleted, Discard
  <1>5. ASSUME UNCHANGED <<artifacts, leaked>> PROVE Goal
    BY <1>1, <1>5
  <1>6. ASSUME NEW S, NEW s, Uncertain(S, s) PROVE Goal
    BY <1>2, <1>4, <1>5, <1>6 DEF Uncertain
  <1>7. ASSUME NEW r \in Replicas, NEW j \in Jobs, Run(r, j) PROVE Goal
    <2>1. CASE Launch(r, j)
      BY <2>1, <1>2, <1>4, <1>6 DEF Launch
    <2>2. CASE MarkRunning(r, j)
      BY <2>2, <1>2, <1>4, <1>6 DEF MarkRunning
    <2>3. CASE StopCancelled(r, j)
      BY <2>3, <1>2, <1>4 DEF StopCancelled
    <2>4. CASE MarkFailed(r, j)
      BY <2>4, <1>2, <1>4, <1>6 DEF MarkFailed
    <2>5. CASE Persist(r, j)
      BY <2>5, <1>5 DEF Persist, history
    <2>7. CASE Put(r, j)
      <3> DEFINE mine == Artifact(j, wrote[r][j])
      <3>1. mine \subseteq Large \X Times
        BY <1>1, <1>3
      <3>2. artifacts' \subseteq artifacts \cup mine /\ leaked' \subseteq leaked \cup mine
        BY <2>7 DEF Put, Strays
      <3> HIDE DEF mine
      <3> QED BY <3>1, <3>2, <1>1
    <2>6. CASE MarkSucceeded(r, j)
      <3> DEFINE mine == Artifact(j, wrote[r][j])
      <3>1. mine \subseteq Large \X Times
        BY <1>1, <1>3
      <3> HIDE DEF mine
      <3>2. \/ Deleted(Deferred \cup IF Seen(j) = "running" THEN {} ELSE mine)
            \/ Discard(mine) \/ Discard(mine \cup Deferred)
        BY <2>6 DEF MarkSucceeded, mine
      <3> QED BY <3>1, <3>2, <1>2, <1>4
    <2> QED BY <1>7, <2>1, <2>2, <2>3, <2>4, <2>5, <2>6, <2>7 DEF Run
  <1>8. ASSUME NEW r \in Replicas, Crash(r) PROVE Goal
    <2>1. ASSUME NEW phase PROVE Held(r, phase) \subseteq Large \X Times
      BY <1>1, ScanJobsAssumption DEF Held
    <2>2. /\ artifacts' \subseteq artifacts \cup Held(r, "writing")
          /\ leaked' \subseteq leaked \cup Held(r, "writing") \cup Held(r, "persisted")
      BY <1>8 DEF Crash
    <2> QED BY <2>1, <2>2, <1>1
  <1>9. ASSUME NEW r \in Replicas, Read(r) \/ Restart(r) \/ Collect(r) PROVE Goal
    <2>1. CASE Read(r)
      BY <2>1, <1>2, <1>4, <1>6 DEF Read
    <2>2. CASE Restart(r)
      BY <2>2, <1>2, <1>4, <1>6 DEF Restart
    <2>3. CASE Collect(r)
      BY <2>3, <1>1 DEF Collect, history
    <2> QED BY <1>9, <2>1, <2>2, <2>3
  <1>10. ASSUME NEW r \in Replicas, NEW k \in Keys, Resolve(r, k) PROVE Goal
    BY <1>10, <1>2, <1>4, <1>6 DEF Resolve
  <1>11. ASSUME NEW r \in Replicas, NEW k \in Keys \cup {NoKey}, NEW j \in Jobs,
                Create(r, k, j)
         PROVE  Goal
    BY <1>11, <1>2, <1>4, <1>6 DEF Create
  <1>12. ASSUME NEW r \in Replicas, NEW j \in Jobs, Cancel(r, j) PROVE Goal
    BY <1>12, <1>2, <1>4, <1>6 DEF Cancel
  <1>13. CASE Tick
    BY <1>13, <1>1 DEF Tick, history
  <1> QED BY <1>7, <1>8, <1>9, <1>10, <1>11, <1>12, <1>13 DEF Next

(* A table by replica and job keeps its type when an entry changes.          *)
LEMMA TableType ==
    ASSUME NEW V, NEW f \in [Replicas -> [Jobs -> V]], NEW r \in Replicas,
           NEW j \in Jobs, NEW v \in V
    PROVE  [f EXCEPT ![r][j] = v] \in [Replicas -> [Jobs -> V]]
  OBVIOUS

(* So do the runners, the requests and the counters.                         *)
LEMMA RestType ==
    ASSUME TypeOK, Next
    PROVE  /\ at' \in [Replicas -> [Jobs -> Phases]]
           /\ wrote' \in [Replicas -> [Jobs -> Times]]
           /\ call' \in [Replicas -> Calls] /\ up' \in [Replicas -> BOOLEAN]
           /\ clock' \in Times
           /\ faults' \in 0..MaxFaults /\ crashes' \in 0..MaxCrashes
           /\ dropped' \subseteq Jobs /\ spoiled' \subseteq Jobs
  <1> DEFINE A == at' \in [Replicas -> [Jobs -> Phases]]
             W == wrote' \in [Replicas -> [Jobs -> Times]]
             C == call' \in [Replicas -> Calls] /\ up' \in [Replicas -> BOOLEAN]
             N == /\ clock' \in Times
                  /\ faults' \in 0..MaxFaults /\ crashes' \in 0..MaxCrashes
             H == dropped' \subseteq Jobs /\ spoiled' \subseteq Jobs
  <1>0. /\ MaxTime \in Nat /\ MaxFaults \in Nat /\ MaxCrashes \in Nat
        /\ 0 \in Times
    BY ScanJobsAssumption DEF Times
  <1>1. /\ at \in [Replicas -> [Jobs -> Phases]]
        /\ wrote \in [Replicas -> [Jobs -> Times]]
        /\ call \in [Replicas -> Calls] /\ up \in [Replicas -> BOOLEAN]
        /\ clock \in Times
        /\ faults \in 0..MaxFaults /\ crashes \in 0..MaxCrashes
        /\ dropped \subseteq Jobs /\ spoiled \subseteq Jobs
    BY DEF TypeOK
  <1>2. ASSUME Fault \/ NoFault PROVE faults' \in 0..MaxFaults
    BY <1>0, <1>1, <1>2 DEF Fault, NoFault
  <1>3. ASSUME NEW r \in Replicas, NEW j \in Jobs, NEW from, NEW to \in Phases,
               Goes(r, j, from, to)
        PROVE  A
    BY <1>1, <1>3 DEF Goes
  <1>4. {"none", "created", "spawned", "scanning", "writing", "persisted"} \subseteq Phases
    BY DEF Phases
  <1>5. ASSUME NEW r \in Replicas, NEW k \in Keys, Resolve(r, k) PROVE A /\ W /\ C /\ N /\ H
    BY <1>1, <1>2, <1>5 DEF Resolve, Calls
  <1>6. ASSUME NEW r \in Replicas, NEW k \in Keys \cup {NoKey}, NEW j \in Jobs,
               Create(r, k, j)
        PROVE  A /\ W /\ C /\ N /\ H
    <2>1. at' = [at EXCEPT ![r][j] = "created"] \/ UNCHANGED at
      BY <1>6 DEF Create
    <2>2. A
      <3>1. "created" \in Phases
        BY DEF Phases
      <3>2. [at EXCEPT ![r][j] = "created"] \in [Replicas -> [Jobs -> Phases]]
        BY <3>1, <1>1, TableType
      <3> QED BY <2>1, <3>2, <1>1
    <2>3. W /\ C
      BY <1>1, <1>6 DEF Create, Calls
    <2>4. N /\ H
      BY <1>1, <1>2, <1>6 DEF Create
    <2> QED BY <2>2, <2>3, <2>4
  <1>7. ASSUME NEW r \in Replicas, NEW j \in Jobs, Cancel(r, j) PROVE A /\ W /\ C /\ N /\ H
    BY <1>1, <1>2, <1>7 DEF Cancel
  <1>8. ASSUME NEW r \in Replicas, NEW j \in Jobs, Run(r, j) PROVE A /\ W /\ C /\ N /\ H
    <2>1. CASE Launch(r, j)
      BY <2>1, <1>1, <1>2, <1>3, <1>4 DEF Launch, Drops
    <2>2. CASE MarkRunning(r, j)
      BY <2>2, <1>1, <1>2, <1>3, <1>4 DEF MarkRunning, Drops
    <2>3. CASE StopCancelled(r, j)
      BY <2>3, <1>1, <1>3, <1>4 DEF StopCancelled
    <2>4. CASE MarkFailed(r, j)
      BY <2>4, <1>1, <1>2, <1>3, <1>4 DEF MarkFailed, Drops
    <2>5. CASE Persist(r, j)
      <3>1. A
        BY <2>5, <1>3, <1>4 DEF Persist
      <3>2. W
        <4>1. wrote' = wrote \/ \E t \in Times : wrote' = [wrote EXCEPT ![r][j] = t]
          BY <2>5, <1>0, <1>1 DEF Persist
        <4>2. ASSUME NEW t \in Times
              PROVE  [wrote EXCEPT ![r][j] = t] \in [Replicas -> [Jobs -> Times]]
          BY <1>1, TableType
        <4> QED BY <4>1, <4>2, <1>1
      <3>3. C /\ N /\ H
        BY <2>5, <1>1 DEF Persist, history
      <3> QED BY <3>1, <3>2, <3>3
    <2>7. CASE Put(r, j)
      <3>1. A
        BY <2>7, <1>3, <1>4 DEF Put
      <3>2. W
        <4>1. wrote' = wrote \/ wrote' = [wrote EXCEPT ![r][j] = 0]
          BY <2>7 DEF Put, Forgets
        <4>2. [wrote EXCEPT ![r][j] = 0] \in [Replicas -> [Jobs -> Times]]
          BY <1>0, <1>1, TableType
        <4> QED BY <4>1, <4>2, <1>1
      <3>3. C /\ N /\ H
        BY <2>7, <1>1, <1>2 DEF Put, Drops
      <3> QED BY <3>1, <3>2, <3>3
    <2>6. CASE MarkSucceeded(r, j)
      BY <2>6, <1>0, <1>1, <1>2, <1>3, <1>4 DEF MarkSucceeded, Drops, Forgets, Only
    <2> QED BY <1>8, <2>1, <2>2, <2>3, <2>4, <2>5, <2>6, <2>7 DEF Run
  <1>9. ASSUME NEW r \in Replicas, Read(r) \/ Collect(r) PROVE A /\ W /\ C /\ N /\ H
    BY <1>1, <1>2, <1>9 DEF Read, Collect, runners, history
  <1>10. ASSUME NEW r \in Replicas, Crash(r) PROVE A /\ W /\ C /\ N /\ H
    BY <1>0, <1>1, <1>4, <1>10 DEF Crash, Calls
  <1>11. ASSUME NEW r \in Replicas, Restart(r) PROVE A /\ W /\ C /\ N /\ H
    <2>1. CASE UNCHANGED <<up, at, dropped>> /\ (Fault \/ NoFault)
      BY <1>1, <1>2, <1>11, <2>1 DEF Restart
    <2>2. ASSUME NEW held \in SUBSET Unfinished, Fault \/ NoFault,
                 dropped' \subseteq dropped \cup held,
                 up' = [up EXCEPT ![r] = TRUE],
                 at' = [at EXCEPT ![r] =
                          [j \in Jobs |-> IF j \in Unfinished \ held THEN "created" ELSE "none"]]
          PROVE  A /\ W /\ C /\ N /\ H
      <3>1. [j \in Jobs |-> IF j \in Unfinished \ held THEN "created" ELSE "none"]
               \in [Jobs -> Phases]
        BY DEF Phases
      <3>2. A
        BY <3>1, <2>2, <1>1
      <3>3. W /\ C /\ N /\ H
        BY <1>1, <1>2, <1>11, <2>2 DEF Restart, Unfinished
      <3> QED BY <3>2, <3>3
    <2> QED
      <3>1. CASE \E held \in SUBSET Unfinished :
                    /\ Fault \/ NoFault
                    /\ dropped' \subseteq dropped \cup held
                    /\ up' = [up EXCEPT ![r] = TRUE]
                    /\ at' = [at EXCEPT ![r] =
                               [j \in Jobs |-> IF j \in Unfinished \ held THEN "created" ELSE "none"]]
        BY <3>1, <2>2
      <3> QED BY <1>11, <2>1, <3>1 DEF Restart
  <1>12. CASE Tick
    BY <1>0, <1>1, <1>12 DEF Tick, runners, history, Times
  <1> QED BY <1>5, <1>6, <1>7, <1>8, <1>9, <1>10, <1>11, <1>12 DEF Next

(* Steps keep the state well typed.                                          *)
LEMMA TypeStep == TypeOK /\ [Next]_vars => TypeOK'
  <1> SUFFICES ASSUME TypeOK, [Next]_vars PROVE TypeOK'
    OBVIOUS
  <1>1. CASE UNCHANGED vars
    BY <1>1 DEF vars, TypeOK
  <1>2. CASE Next
    <2>1. CASE Unwritten
      BY <2>1, <1>2, ArtifactsType, RestType DEF Unwritten, TypeOK
    <2>2. CASE Commits
      <3>1. PICK S \in SUBSET Jobs, s \in States, c \in Times :
              Commit(S, s, c) /\ Rows(S)
        BY <2>2 DEF Commits
      <3>2. idem' \subseteq Keys \X Jobs
        BY <3>1 DEF Rows, Kept, TypeOK
      <3> QED BY <3>1, <3>2, <1>2, CommitType, ArtifactsType, RestType DEF TypeOK
    <2> QED BY <1>2, <2>1, <2>2, StoreSteps
  <1> QED BY <1>1, <1>2

(* The state of the replicas and the stores stays within its types.          *)
THEOREM TypeCorrect == Spec => []TypeOK
  <1>1. Init => TypeOK
    BY ScanJobsAssumption DEF Init, TypeOK, States, Times, Phases, Calls
  <1> QED BY <1>1, TypeStep, PTL DEF Spec

-----------------------------------------------------------------------------
(* The store as its clients see it.                                          *)

\* A job that has not ended carries no time of its end.
EndsAreDated == \A j \in Jobs : state[j] \notin Terminal => updated[j] = 0

(* Only the passing of a second moves the clock.                             *)
LEMMA ClockSteps == Next => UNCHANGED clock \/ Tick
  <1>1. ASSUME NEW r \in Replicas, NEW k \in Keys \cup {NoKey}, NEW j \in Jobs,
               Resolve(r, k) \/ Create(r, k, j) \/ Cancel(r, j)
        PROVE  UNCHANGED clock
    BY <1>1 DEF Resolve, Create, Cancel
  <1>2. ASSUME NEW r \in Replicas, NEW j \in Jobs, Run(r, j) PROVE UNCHANGED clock
    BY <1>2 DEF Run, Launch, MarkRunning, StopCancelled, MarkFailed, Persist, Put, MarkSucceeded
  <1>3. ASSUME NEW r \in Replicas, Read(r) \/ Collect(r) \/ Crash(r) \/ Restart(r)
        PROVE  UNCHANGED clock
    BY <1>3 DEF Read, Collect, Crash, Restart
  <1>4. ASSUME NEW r \in Replicas, NEW k \in Keys, Resolve(r, k) PROVE UNCHANGED clock
    BY <1>4 DEF Resolve
  <1> QED BY <1>1, <1>2, <1>3, <1>4 DEF Next

(* A commit takes each job along an edge, past its retention, or leaves it.  *)
LEMMA CommitMoves ==
    ASSUME TypeOK, EndsAreDated, NEW S \in SUBSET Jobs, NEW s \in States, NEW c,
           Commit(S, s, c), Movable(S, s), NEW j \in Jobs
    PROVE  Lifecycle!Stays(j) \/ Lifecycle!Moves(j) \/ Lifecycle!Expires(j)
  <1>1. /\ state'[j] = IF j \in S THEN s ELSE Seen(j)
        /\ updated'[j] = IF j \in S /\ s \in Terminal THEN clock
                         ELSE IF Expired(j) \/ j \in S THEN 0 ELSE updated[j]
    BY DEF Commit
  <1>2. CASE j \in S
    <2>1. CASE state[j] = "queued" /\ s = "queued"
      BY <1>1, <1>2, <2>1 DEF Lifecycle!Stays, EndsAreDated, Terminal
    <2>2. CASE <<state[j], s>> \in Lifecycle!Edges
      BY <1>1, <1>2, <2>2 DEF Lifecycle!Moves, Lifecycle!Ends, Terminal, Movable
    <2> QED BY <1>2, <2>1, <2>2 DEF Movable
  <1>3. CASE j \notin S /\ Expired(j)
    BY <1>1, <1>3 DEF Lifecycle!Expires, Lifecycle!Ends, Terminal, Expired, Seen
  <1>4. CASE j \notin S /\ ~Expired(j)
    BY <1>1, <1>4 DEF Lifecycle!Stays, Seen
  <1> QED BY <1>2, <1>3, <1>4

(* Ends stay dated.                                                          *)
LEMMA DatedStep == TypeOK /\ EndsAreDated /\ [Next]_vars => EndsAreDated'
  <1> SUFFICES ASSUME TypeOK, EndsAreDated, [Next]_vars PROVE EndsAreDated'
    OBVIOUS
  <1>1. CASE UNCHANGED vars \/ Unwritten
    BY <1>1 DEF vars, Unwritten, EndsAreDated
  <1>2. CASE Commits
    <2>1. PICK S \in SUBSET Jobs, s \in States, c \in Times : Commit(S, s, c)
      BY <1>2 DEF Commits
    <2> QED BY <2>1 DEF Commit, EndsAreDated, Seen, Expired, Terminal
  <1> QED BY <1>1, <1>2, StoreSteps

(* Every step of the replicas is a step of the jobs' life, or none.          *)
LEMMA LifecycleStep ==
    TypeOK /\ EndsAreDated /\ [Next]_vars => [Lifecycle!LNext]_(Lifecycle!lvars)
  <1> SUFFICES ASSUME TypeOK, EndsAreDated, [Next]_vars
               PROVE  [Lifecycle!LNext]_(Lifecycle!lvars)
    OBVIOUS
  <1>1. CASE UNCHANGED vars
    BY <1>1 DEF vars, Lifecycle!lvars
  <1>2. CASE Tick
    BY <1>2 DEF Tick, store, Lifecycle!LNext, Lifecycle!Passes
  <1>3. CASE Unwritten /\ UNCHANGED clock
    BY <1>3 DEF Unwritten, Lifecycle!lvars
  <1>4. CASE Commits /\ UNCHANGED clock
    <2>1. PICK S \in SUBSET Jobs, s \in States, c \in Times :
            Commit(S, s, c) /\ Movable(S, s)
      BY <1>4 DEF Commits
    <2>2. \A j \in Jobs : Lifecycle!Stays(j) \/ Lifecycle!Moves(j) \/ Lifecycle!Expires(j)
      BY <2>1, CommitMoves
    <2> QED BY <2>2, <1>4 DEF Lifecycle!LNext, Lifecycle!Step
  <1> QED BY <1>1, <1>2, <1>3, <1>4, StoreSteps, ClockSteps

(* The replicas implement JobLifecycle: whatever they do in whatever order,  *)
(* and whichever calls fail and processes die, a client sees each job move   *)
(* along its edges only, and an ended job stay for its retention.            *)
THEOREM Implements == Spec => ImplementsLifecycle
  <1>1. Init => EndsAreDated
    BY DEF Init, EndsAreDated
  <1>2. Spec => []EndsAreDated
    BY <1>1, DatedStep, TypeCorrect, PTL DEF Spec
  <1>3. Init => Lifecycle!LInit
    BY DEF Init, Lifecycle!LInit
  <1>4. Spec => Lifecycle!LInit /\ [][Lifecycle!LNext]_(Lifecycle!lvars)
    BY <1>2, <1>3, LifecycleStep, TypeCorrect, PTL DEF Spec
  <1> QED BY <1>4 DEF ImplementsLifecycle, Lifecycle!LSpec

-----------------------------------------------------------------------------
(* Idempotency keys.                                                         *)

(* A row leads to a job that is there, and no key has two.                   *)
LEMMA KeyStep == TypeOK /\ KeyNamesOneJob /\ [Next]_vars => KeyNamesOneJob'
  <1> SUFFICES ASSUME TypeOK, KeyNamesOneJob, [Next]_vars PROVE KeyNamesOneJob'
    OBVIOUS
  <1>1. CASE UNCHANGED vars \/ Unwritten
    BY <1>1 DEF vars, Unwritten, KeyNamesOneJob
  <1>2. CASE Commits
    <2>1. PICK S \in SUBSET Jobs, s \in States, c \in Times :
            Commit(S, s, c) /\ Movable(S, s) /\ Rows(S)
      BY <1>2 DEF Commits
    <2>2. ASSUME NEW j \in Jobs, j \in S \/ \E row \in Kept(idem) : row[2] = j
          PROVE  state'[j] \notin {"none", "expired"}
      BY <2>1, <2>2 DEF Commit, Seen, Movable, Kept, KeyNamesOneJob, Lifecycle!Edges
    <2>3. /\ \A row \in Kept(idem) : row[2] \in Jobs
          /\ \A row \in Kept(idem), other \in Kept(idem) : other[1] = row[1] => other = row
      BY DEF Kept, TypeOK, KeyNamesOneJob
    <2>4. CASE idem' = Kept(idem)
      BY <2>2, <2>3, <2>4 DEF KeyNamesOneJob
    <2>5. CASE \E k \in Keys, j \in S : ~Taken(k) /\ idem' = Kept(idem) \cup {<<k, j>>}
      <3>1. PICK k \in Keys, j \in S : ~Taken(k) /\ idem' = Kept(idem) \cup {<<k, j>>}
        BY <2>5
      <3>2. \A row \in Kept(idem) : row[1] # k
        BY <3>1 DEF Taken
      <3> QED BY <2>2, <2>3, <3>1, <3>2 DEF KeyNamesOneJob
    <2> QED BY <2>1, <2>4, <2>5 DEF Rows
  <1> QED BY <1>1, <1>2, StoreSteps

(* Requests with one idempotency key make one job, however many replicas     *)
(* they reach at once and whatever fails.                                    *)
THEOREM KeysName == Spec => []KeyNamesOneJob
  <1>1. Init => KeyNamesOneJob
    BY DEF Init, KeyNamesOneJob
  <1> QED BY <1>1, KeyStep, TypeCorrect, PTL DEF Spec

-----------------------------------------------------------------------------
(* Runners.                                                                  *)

\* A process that is down runs nothing, and a job that was not made has no runner.
Idle == \A r \in Replicas, j \in Jobs :
          ~up[r] \/ state[j] = "none" => at[r][j] = "none"

(* No job is unmade.                                                         *)
LEMMA StaysMade ==
    ASSUME TypeOK, Next, NEW j \in Jobs, state'[j] = "none" PROVE state[j] = "none"
  <1>1. CASE Unwritten
    BY <1>1 DEF Unwritten
  <1>2. CASE Commits
    BY <1>2 DEF Commits, Commit, Movable, Seen, Lifecycle!Edges
  <1> QED BY <1>1, <1>2, StoreSteps

(* Idleness holds on.                                                        *)
LEMMA IdleStep == TypeOK /\ Idle /\ [Next]_vars => Idle'
  <1> SUFFICES ASSUME TypeOK, Idle, [Next]_vars PROVE Idle'
    OBVIOUS
  <1>1. CASE UNCHANGED vars
    BY <1>1 DEF vars, Idle
  <1>2. ASSUME Next, UNCHANGED <<at, up>> PROVE Idle'
    BY <1>2, StaysMade DEF Idle
  <1>3. ASSUME Next, NEW r \in Replicas, NEW j \in Jobs, NEW from, NEW to,
               Goes(r, j, from, to), from # "none", UNCHANGED up
        PROVE  Idle'
    <2>1. at \in [Replicas -> [Jobs -> Phases]]
      BY DEF TypeOK
    <2>2. up[r] /\ state[j] # "none"
      BY <1>3 DEF Idle, Goes
    <2>3. \A q \in Replicas, i \in Jobs : q # r \/ i # j => at'[q][i] = at[q][i]
      BY <1>3, <2>1 DEF Goes
    <2>4. up'[r] /\ state'[j] # "none"
      BY <1>3, <2>2, StaysMade
    <2> QED BY <1>3, <2>3, <2>4, StaysMade DEF Idle
  <1>4. ASSUME Next, NEW r \in Replicas, NEW j \in Jobs, Run(r, j) PROVE Idle'
    <2>1. \E from, to : Goes(r, j, from, to) /\ from # "none"
      BY <1>4 DEF Run, Launch, MarkRunning, StopCancelled, MarkFailed, Persist, Put, MarkSucceeded
    <2>2. UNCHANGED up
      BY <1>4 DEF Run, Launch, MarkRunning, StopCancelled, MarkFailed, Persist, Put, MarkSucceeded
    <2> QED BY <2>1, <2>2, <1>3, <1>4
  <1>5. ASSUME Next, NEW r \in Replicas, NEW k \in Keys \cup {NoKey}, NEW j \in Jobs,
               Create(r, k, j)
        PROVE  Idle'
    <2>1. CASE UNCHANGED at
      BY <2>1, <1>2, <1>5 DEF Create
    <2>2. CASE Commit({j}, "queued", 0) /\ at' = [at EXCEPT ![r][j] = "created"]
      <3>1. state'[j] = "queued" /\ up' = up /\ up[r]
        BY <1>5, <2>2 DEF Create, Commit
      <3>2. \A q \in Replicas, i \in Jobs : q # r \/ i # j => at'[q][i] = at[q][i]
        BY <2>2 DEF TypeOK
      <3> QED BY <3>1, <3>2, <1>5, StaysMade DEF Idle
    <2> QED BY <1>5, <2>1, <2>2 DEF Create
  <1>6. ASSUME Next, NEW r \in Replicas, Crash(r) PROVE Idle'
    <2>1. /\ up' = [up EXCEPT ![r] = FALSE]
          /\ at' = [at EXCEPT ![r] = [j \in Jobs |-> "none"]]
      BY <1>6 DEF Crash
    <2>2. \A q \in Replicas, i \in Jobs :
             IF q = r THEN at'[q][i] = "none" ELSE at'[q][i] = at[q][i] /\ up'[q] = up[q]
      BY <2>1 DEF TypeOK
    <2> QED BY <2>2, <1>6, StaysMade DEF Idle
  <1>7. ASSUME Next, NEW r \in Replicas, Restart(r) PROVE Idle'
    <2>1. CASE UNCHANGED <<up, at>>
      BY <2>1, <1>2, <1>7
    <2>2. ASSUME NEW S \in SUBSET Unfinished, Transition(S, "queued"),
                 up' = [up EXCEPT ![r] = TRUE],
                 at' = [at EXCEPT ![r] = [j \in Jobs |-> IF j \in S THEN "created" ELSE "none"]]
          PROVE  Idle'
      <3>1. \A j \in S : state'[j] = "queued"
        BY <2>2 DEF Transition, Commit, Unfinished
      <3>2. \A q \in Replicas, i \in Jobs :
               IF q = r THEN up'[q] /\ (i \notin S => at'[q][i] = "none")
               ELSE at'[q][i] = at[q][i] /\ up'[q] = up[q]
        BY <2>2 DEF TypeOK
      <3> QED BY <3>1, <3>2, <1>7, StaysMade DEF Idle
    <2>3. UNCHANGED <<up, at>> \/
          \E S \in SUBSET Unfinished :
             /\ Transition(S, "queued") /\ up' = [up EXCEPT ![r] = TRUE]
             /\ at' = [at EXCEPT ![r] = [j \in Jobs |-> IF j \in S THEN "created" ELSE "none"]]
      BY <1>7 DEF Restart
    <2> QED BY <2>1, <2>2, <2>3
  <1>8. ASSUME Next, NEW r \in Replicas, NEW k \in Keys, Resolve(r, k) PROVE Idle'
    BY <1>2, <1>8 DEF Resolve
  <1>9. ASSUME Next, NEW r \in Replicas, NEW j \in Jobs, Cancel(r, j) PROVE Idle'
    BY <1>2, <1>9 DEF Cancel
  <1>10. ASSUME Next, NEW r \in Replicas, Read(r) \/ Collect(r) PROVE Idle'
    BY <1>2, <1>10 DEF Read, Collect, runners
  <1>11. ASSUME Next, Tick PROVE Idle'
    BY <1>2, <1>11 DEF Tick, runners
  <1> QED BY <1>1, <1>4, <1>5, <1>6, <1>7, <1>8, <1>9, <1>10, <1>11 DEF Next

-----------------------------------------------------------------------------
(* Steps that neither write nor record a result.                             *)

Carries(r, j) == at[r][j] = "persisted"

\* No job whose retention is over is left among the succeeded ones.
Purged == \A j \in Jobs : Expired(j) => state'[j] # "succeeded"

\* Artifacts are as they were, or lose those of the jobs that are purged.
Purges == \/ Unwritten /\ UNCHANGED <<artifacts, leaked>>
          \/ Purged /\ (Deleted(Deferred) \/ Discard(Deferred))

\* Who carries a result carries on, and nobody else does.
SameCarriers == \A r \in Replicas, j \in Jobs :
                   /\ Carries(r, j)' = Carries(r, j)
                   /\ Carries(r, j) => wrote'[r][j] = wrote[r][j]

\* No job becomes a succeeded one.
NoneSucceeds == \A j \in Jobs : state'[j] = "succeeded" =>
                   /\ state[j] = "succeeded"
                   /\ ref'[j] = ref[j] /\ updated'[j] = updated[j]

Ordinary == Purges /\ SameCarriers /\ NoneSucceeds /\ UNCHANGED <<clock, spoiled>>

(* A commit of anything but a success makes no job a succeeded one.          *)
LEMMA CommitOther ==
    ASSUME TypeOK, NEW S, NEW s, NEW c, Commit(S, s, c), s # "succeeded"
    PROVE  NoneSucceeds /\ Purged
  BY DEF NoneSucceeds, Purged, Commit, Seen

(* So a call that succeeds or fails is ordinary to results.                  *)
LEMMA CallOther ==
    ASSUME TypeOK, NEW S, NEW s, s # "succeeded",
           \/ Transition(S, s) /\ Deleted(Deferred)
           \/ Uncertain(S, s)
    PROVE  Purges /\ NoneSucceeds
  <1>1. CASE Unwritten /\ UNCHANGED <<artifacts, leaked>>
    BY <1>1 DEF Unwritten, NoneSucceeds, Purges
  <1>2. CASE Transition(S, s) /\ (Deleted(Deferred) \/ Discard(Deferred))
    BY <1>2, CommitOther DEF Transition, Purges
  <1> QED BY <1>1, <1>2 DEF Uncertain

(* A runner that moves between phases without a result changes no carrier.   *)
LEMMA GoesOther ==
    ASSUME TypeOK, NEW r \in Replicas, NEW j \in Jobs, NEW from, NEW to,
           Goes(r, j, from, to), from # "persisted", to # "persisted", UNCHANGED wrote
    PROVE  SameCarriers
  BY DEF TypeOK, Goes, SameCarriers, Carries

(* Every step but a few is ordinary.                                         *)
LEMMA OrdinarySteps ==
    ASSUME TypeOK, Idle, Next
    PROVE  \/ Ordinary \/ Tick
           \/ \E r \in Replicas : Collect(r) \/ Crash(r)
           \/ \E r \in Replicas, j \in Jobs : Persist(r, j) \/ Put(r, j) \/ MarkSucceeded(r, j)
  <1>1. ASSUME UNCHANGED <<at, wrote>> PROVE SameCarriers
    BY <1>1 DEF SameCarriers, Carries
  <1>2. ASSUME NEW r \in Replicas, NEW k \in Keys, Resolve(r, k) PROVE Ordinary
    BY <1>1, <1>2, CallOther DEF Resolve, Ordinary
  <1>3. ASSUME NEW r \in Replicas, NEW k \in Keys \cup {NoKey}, NEW j \in Jobs,
               Create(r, k, j)
        PROVE  Ordinary
    <2>1. Purges /\ NoneSucceeds
      <3>1. CASE Transition({}, "none") /\ Deleted(Deferred)
        BY <3>1, CallOther
      <3>2. CASE Uncertain({}, "none")
        BY <3>2, CallOther
      <3>3. CASE Commit({j}, "queued", 0) /\ (Deleted(Deferred) \/ Discard(Deferred))
        BY <3>3, CommitOther DEF Purges
      <3> QED BY <1>3, <3>1, <3>2, <3>3 DEF Create
    <2>2. SameCarriers
      <3>1. CASE UNCHANGED at
        BY <3>1, <1>1, <1>3 DEF Create
      <3>2. CASE at' = [at EXCEPT ![r][j] = "created"]
        <4>1. at[r][j] = "none"
          BY <1>3 DEF Create, Idle
        <4>2. Goes(r, j, "none", "created") /\ UNCHANGED wrote
          BY <1>3, <3>2, <4>1 DEF Goes, Create
        <4> QED BY <4>2, GoesOther
      <3> QED BY <1>3, <3>1, <3>2 DEF Create
    <2> QED BY <1>3, <2>1, <2>2 DEF Ordinary, Create
  <1>4. ASSUME NEW r \in Replicas, NEW j \in Jobs, Cancel(r, j) PROVE Ordinary
    BY <1>1, <1>4, CallOther DEF Cancel, Ordinary
  <1>5. ASSUME NEW r \in Replicas, NEW j \in Jobs, Launch(r, j) PROVE Ordinary
    <2>1. Purges /\ NoneSucceeds
      BY <1>5, CallOther DEF Launch
    <2>2. SameCarriers
      BY <1>5, GoesOther DEF Launch
    <2> QED BY <1>5, <2>1, <2>2 DEF Ordinary, Launch
  <1>6. ASSUME NEW r \in Replicas, NEW j \in Jobs, MarkRunning(r, j) PROVE Ordinary
    <2>1. Purges /\ NoneSucceeds
      BY <1>6, CallOther DEF MarkRunning
    <2>2. SameCarriers
      BY <1>6, GoesOther DEF MarkRunning
    <2> QED BY <1>6, <2>1, <2>2 DEF Ordinary, MarkRunning
  <1>7. ASSUME NEW r \in Replicas, NEW j \in Jobs, StopCancelled(r, j) PROVE Ordinary
    <2>1. Purges /\ NoneSucceeds
      BY <1>7, CallOther DEF StopCancelled
    <2>2. SameCarriers
      BY <1>7, GoesOther DEF StopCancelled
    <2> QED BY <1>7, <2>1, <2>2 DEF Ordinary, StopCancelled
  <1>8. ASSUME NEW r \in Replicas, NEW j \in Jobs, MarkFailed(r, j) PROVE Ordinary
    <2>1. Purges /\ NoneSucceeds
      BY <1>8, CallOther DEF MarkFailed
    <2>2. SameCarriers
      BY <1>8, GoesOther DEF MarkFailed
    <2> QED BY <1>8, <2>1, <2>2 DEF Ordinary, MarkFailed
  <1>9. ASSUME NEW r \in Replicas, Read(r) PROVE Ordinary
    BY <1>1, <1>9, CallOther DEF Read, Ordinary
  <1>10. ASSUME NEW r \in Replicas, Restart(r) PROVE Ordinary
    <2>1. Purges /\ NoneSucceeds
      BY <1>10, CallOther DEF Restart
    <2>2. SameCarriers
      <3>1. \A j \in Jobs : at[r][j] = "none"
        BY <1>10 DEF Restart, Idle
      <3>2. \A q \in Replicas, i \in Jobs :
               IF q = r THEN at'[q][i] \in {"none", "created"} ELSE at'[q][i] = at[q][i]
        <4>1. CASE UNCHANGED at
          BY <4>1, <3>1
        <4>2. ASSUME NEW S, at' = [at EXCEPT ![r] =
                            [j \in Jobs |-> IF j \in S THEN "created" ELSE "none"]]
              PROVE  \A q \in Replicas, i \in Jobs :
                        IF q = r THEN at'[q][i] \in {"none", "created"}
                        ELSE at'[q][i] = at[q][i]
          BY <4>2 DEF TypeOK
        <4> QED BY <1>10, <4>1, <4>2 DEF Restart
      <3>3. UNCHANGED wrote
        BY <1>10 DEF Restart
      <3> QED BY <3>1, <3>2, <3>3 DEF SameCarriers, Carries
    <2> QED BY <1>10, <2>1, <2>2 DEF Ordinary, Restart
  <1> QED BY <1>2, <1>3, <1>4, <1>5, <1>6, <1>7, <1>8, <1>9, <1>10 DEF Next, Run

-----------------------------------------------------------------------------
(* Who owns an artifact.                                                     *)

(* A recorded artifact stays recorded until its job is purged.               *)
LEMMA RecordStays ==
    ASSUME TypeOK, Next, NEW a \in artifacts,
           state[a[1]] = "succeeded", ref[a[1]] = a[2]
    PROVE  \/ state'[a[1]] = "succeeded" /\ ref'[a[1]] = a[2]
           \/ a \in Deferred
  <1>1. a[1] \in Jobs
    BY ScanJobsAssumption DEF TypeOK
  <1>2. CASE Unwritten
    BY <1>2 DEF Unwritten
  <1>3. CASE Commits
    <2>1. PICK S \in SUBSET Jobs, s \in States, c \in Times :
            Commit(S, s, c) /\ Movable(S, s)
      BY <1>3 DEF Commits
    <2>2. a[1] \notin S
      BY <2>1 DEF Movable, Lifecycle!Edges
    <2> QED BY <1>1, <2>1, <2>2 DEF Commit, Seen, Deferred
  <1> QED BY <1>2, <1>3, StoreSteps

(* Ownership passes from runners to jobs and ends with the artifact.         *)
LEMMA OwnedStep ==
    TypeOK /\ Idle /\ ArtifactsAreOwned /\ [Next]_vars => ArtifactsAreOwned'
  <1> SUFFICES ASSUME TypeOK, Idle, ArtifactsAreOwned, [Next]_vars
               PROVE  ArtifactsAreOwned'
    OBVIOUS
  <1>1. CASE UNCHANGED vars
    BY <1>1 DEF vars, ArtifactsAreOwned
  <1> DEFINE Recorded(a) == state[a[1]] = "succeeded" /\ ref[a[1]] = a[2]
             Carried(a) == \E r \in Replicas : at[r][a[1]] = "persisted" /\ wrote[r][a[1]] = a[2]
  <1>2. \A a \in artifacts \ leaked : Recorded(a) \/ Carried(a)
    BY DEF ArtifactsAreOwned
  <1>3. SUFFICES ASSUME Next, NEW a \in artifacts', a \notin leaked'
                 PROVE  Recorded(a)' \/ Carried(a)'
    BY <1>1 DEF ArtifactsAreOwned
  <1>4. a[1] \in Jobs /\ a[1] \in Large
    <2>1. artifacts' \subseteq Large \X Times
      BY <1>3, ArtifactsType
    <2> QED BY <2>1, <1>3, ScanJobsAssumption
  <1>5. ASSUME a \in artifacts \ leaked, Recorded(a), a \notin Deferred \/ Unwritten
        PROVE  Recorded(a)'
    BY <1>3, <1>5, RecordStays DEF Unwritten
  <1>6. CASE Ordinary
    <2>1. a \in artifacts \ leaked /\ (a \notin Deferred \/ Unwritten)
      BY <1>3, <1>6 DEF Ordinary, Purges, Deleted, Discard
    <2>2. CASE Recorded(a)
      BY <2>1, <2>2, <1>5
    <2>3. CASE Carried(a)
      BY <2>3, <1>4, <1>6 DEF Ordinary, SameCarriers, Carries
    <2> QED BY <2>1, <2>2, <2>3, <1>2
  <1>7. CASE Tick
    BY <1>2, <1>3, <1>7 DEF Tick, store, runners, history
  <1>8. ASSUME NEW r \in Replicas, Collect(r) PROVE Recorded(a)' \/ Carried(a)'
    BY <1>2, <1>3, <1>8 DEF Collect, store, runners, history
  <1>9. ASSUME NEW r \in Replicas, Crash(r) PROVE Recorded(a)' \/ Carried(a)'
    <2>1. a \in artifacts \ leaked /\ a \notin Held(r, "persisted")
      BY <1>3, <1>9 DEF Crash
    <2>2. CASE Recorded(a)
      BY <2>2, <1>9 DEF Crash, store
    <2>3. ASSUME NEW q \in Replicas, at[q][a[1]] = "persisted", wrote[q][a[1]] = a[2]
          PROVE  Carried(a)'
      <3>1. CASE q = r
        <4>1. a = <<a[1], a[2]>>
          BY <2>1 DEF TypeOK
        <4> QED BY <4>1, <2>1, <2>3, <3>1, <1>4 DEF Held
      <3>2. CASE q # r
        <4>1. at'[q] = at[q] /\ wrote'[q] = wrote[q]
          BY <3>2, <1>9 DEF Crash, TypeOK
        <4> QED BY <4>1, <2>3
      <3> QED BY <3>1, <3>2
    <2> QED BY <2>1, <2>2, <2>3, <1>2
  <1>10. ASSUME NEW r \in Replicas, NEW j \in Jobs, Persist(r, j) \/ Put(r, j)
         PROVE  Recorded(a)' \/ Carried(a)'
    <2>0. \A q \in Replicas, i \in Jobs : q # r \/ i # j =>
             at'[q][i] = at[q][i] /\ wrote'[q][i] = wrote[q][i]
      BY <1>10 DEF Persist, Put, Goes, Forgets, TypeOK
    <2>1. at[r][j] # "persisted"
      BY <1>10 DEF Persist, Put, Goes
    <2>2. ASSUME a \in artifacts \ leaked PROVE Recorded(a)' \/ Carried(a)'
      <3>1. CASE Recorded(a)
        BY <3>1, <1>10 DEF Persist, Put, Unwritten
      <3>2. CASE Carried(a)
        BY <3>2, <2>0, <2>1, <1>4
      <3> QED BY <2>2, <3>1, <3>2, <1>2
    <2>3. ASSUME a \notin artifacts \/ a \in leaked PROVE Carried(a)'
      <3>0. Put(r, j)
        BY <2>3, <1>3, <1>10 DEF Persist, history
      <3>1. /\ a \in Artifact(j, wrote[r][j])
            /\ Goes(r, j, "writing", "persisted") /\ UNCHANGED wrote
        BY <2>3, <1>3, <3>0 DEF Put, Strays
      <3>2. a[1] = j /\ a[2] = wrote[r][j]
        BY <3>1 DEF Artifact
      <3>3. at'[r][j] = "persisted" /\ wrote'[r][j] = wrote[r][j]
        BY <3>1 DEF Goes, TypeOK
      <3> QED BY <3>2, <3>3
    <2> QED BY <2>2, <2>3
  <1>11. ASSUME NEW r \in Replicas, NEW j \in Jobs, MarkSucceeded(r, j)
         PROVE  Recorded(a)' \/ Carried(a)'
    <2> DEFINE mine == Artifact(j, wrote[r][j])
    <2>0. \A q \in Replicas, i \in Jobs : q # r \/ i # j =>
             at'[q][i] = at[q][i] /\ wrote'[q][i] = wrote[q][i]
      BY <1>11 DEF MarkSucceeded, Goes, Forgets, TypeOK
    <2>1. /\ a \in artifacts \ leaked
          /\ a \notin Deferred \/ Unwritten
          /\ \/ a \notin mine
             \/ /\ Seen(j) = "running"
                /\ Commit(Only(j, "running"), "succeeded", wrote[r][j])
      BY <1>3, <1>11 DEF MarkSucceeded, Deleted, Discard
    <2>2. CASE Recorded(a)
      BY <2>1, <2>2, <1>5
    <2>3. ASSUME NEW q \in Replicas, at[q][a[1]] = "persisted", wrote[q][a[1]] = a[2]
          PROVE  Recorded(a)' \/ Carried(a)'
      <3>1. CASE q # r \/ a[1] # j
        BY <3>1, <2>0, <2>3, <1>4
      <3>2. CASE q = r /\ a[1] = j
        <4>1. a \in mine
          <5>1. a = <<a[1], a[2]>>
            BY <2>1 DEF TypeOK
          <5> QED BY <5>1, <2>3, <3>2, <1>4 DEF Artifact
        <4>2. state'[j] = "succeeded" /\ ref'[j] = wrote[r][j]
          BY <4>1, <2>1 DEF Commit, Only
        <4> QED BY <4>2, <3>2, <2>3
      <3> QED BY <3>1, <3>2
    <2> QED BY <2>1, <2>2, <2>3, <1>2
  <1> QED BY <1>3, <1>6, <1>7, <1>8, <1>9, <1>10, <1>11, OrdinarySteps

(* No runner is idle when the jobs are not made.                             *)
LEMMA IdleAlways == Spec => []Idle
  <1>1. Init => Idle
    BY DEF Init, Idle
  <1> QED BY <1>1, IdleStep, TypeCorrect, PTL DEF Spec

(* Every artifact belongs to a succeeded job or to a runner about to record  *)
(* it: cancellations, purges and processes that take jobs over leave none    *)
(* behind.                                                                   *)
THEOREM ArtifactsOwned == Spec => []ArtifactsAreOwned
  <1>1. Init => ArtifactsAreOwned
    BY DEF Init, ArtifactsAreOwned
  <1> QED BY <1>1, OwnedStep, IdleAlways, TypeCorrect, PTL DEF Spec

-----------------------------------------------------------------------------
(* Who pursues a job.                                                        *)

\* Somebody will take the job further.
Pursued(j) == /\ state[j] = "queued" => \E r \in Replicas : Awaits(r, j)
              /\ state[j] = "running" => \E r \in Replicas : Executes(r, j)

\* A job does not come to be in flight, nor change while it is.
NotSetGoing(j) == state'[j] \in InFlight => state'[j] = state[j]

(* A commit that sets jobs to an ended state sets none going.                *)
LEMMA NoneSetGoing ==
    ASSUME NEW S, NEW s, NEW c, NEW j \in Jobs, j \notin S \/ s \notin InFlight,
           Unwritten \/ Commit(S, s, c)
    PROVE  NotSetGoing(j)
  BY DEF NotSetGoing, Unwritten, Commit, Seen, InFlight

(* Nor does a call with them.                                                *)
LEMMA CallSetsGoing ==
    ASSUME NEW S, NEW s, NEW j \in Jobs, j \notin S \/ s \notin InFlight,
           Transition(S, s) \/ Uncertain(S, s)
    PROVE  NotSetGoing(j)
  BY NoneSetGoing DEF Transition, Uncertain

(* Jobs in flight are pursued while no runner moves.                         *)
LEMMA StillPursued ==
    ASSUME InFlightIsPursued, UNCHANGED <<at, up>>, dropped \subseteq dropped',
           \A j \in Jobs : NotSetGoing(j)
    PROVE  InFlightIsPursued'
  BY DEF InFlightIsPursued, NotSetGoing, Awaits, Executes, InFlight

(* And when one runner moves, the others' are; its own job must be shown.    *)
LEMMA OthersPursued ==
    ASSUME TypeOK, InFlightIsPursued, NEW r \in Replicas, NEW j \in Jobs, NEW to,
           at' = [at EXCEPT ![r][j] = to], UNCHANGED up, dropped \subseteq dropped',
           \A i \in Jobs \ {j} : NotSetGoing(i),
           j \notin dropped' /\ Pursued(j) => Pursued(j)'
    PROVE  InFlightIsPursued'
  <1> SUFFICES ASSUME NEW i \in Jobs \ dropped', \A q \in Replicas : up[q]
               PROVE  Pursued(i)'
    BY DEF InFlightIsPursued, Pursued
  <1>1. Pursued(i)
    BY DEF InFlightIsPursued, Pursued
  <1>2. CASE i = j
    BY <1>1, <1>2
  <1>3. CASE i # j
    <2>1. \A q \in Replicas : at'[q][i] = at[q][i]
      BY <1>3 DEF TypeOK
    <2> QED BY <1>1, <1>3, <2>1 DEF Pursued, NotSetGoing, Awaits, Executes, InFlight
  <1> QED BY <1>2, <1>3

(* Pursuit goes on.                                                          *)
LEMMA PursuedStep ==
    TypeOK /\ InFlightIsPursued /\ [Next]_vars => InFlightIsPursued'
  <1> SUFFICES ASSUME TypeOK, InFlightIsPursued, [Next]_vars PROVE InFlightIsPursued'
    OBVIOUS
  <1>0. /\ "cancelled" \notin InFlight /\ "failed" \notin InFlight
        /\ "succeeded" \notin InFlight
    BY DEF InFlight
  <1>1. CASE UNCHANGED vars
    BY <1>1 DEF vars, InFlightIsPursued, Awaits, Executes
  <1>2. ASSUME NEW r \in Replicas, NEW k \in Keys, Resolve(r, k)
        PROVE  InFlightIsPursued'
    BY <1>2, CallSetsGoing, StillPursued DEF Resolve
  <1>3. ASSUME NEW r \in Replicas, NEW k \in Keys \cup {NoKey}, NEW j \in Jobs,
               Create(r, k, j)
        PROVE  InFlightIsPursued'
    <2>1. CASE /\ UNCHANGED <<at, dropped>>
               /\ Transition({}, "none") \/ Uncertain({}, "none")
      <3>1. \A i \in Jobs : NotSetGoing(i)
        BY <2>1, CallSetsGoing
      <3> QED BY <3>1, <2>1, <1>3, StillPursued DEF Create
    <2>2. CASE Commit({j}, "queued", 0) /\ dropped' = dropped \cup {j} /\ UNCHANGED at
      <3>1. \A i \in Jobs \ {j} : NotSetGoing(i)
        BY <2>2, NoneSetGoing
      <3>2. UNCHANGED up
        BY <1>3 DEF Create
      <3> QED BY <2>2, <3>1, <3>2
              DEF InFlightIsPursued, NotSetGoing, Awaits, Executes, InFlight
    <2>3. CASE Commit({j}, "queued", 0) /\ UNCHANGED dropped /\ at' = [at EXCEPT ![r][j] = "created"]
      <3>1. \A i \in Jobs \ {j} : NotSetGoing(i)
        BY <2>3, NoneSetGoing
      <3>2. at'[r][j] = "created" /\ state'[j] = "queued"
        BY <2>3 DEF TypeOK, Commit
      <3>3. Pursued(j)'
        BY <3>2 DEF Pursued, Awaits
      <3>4. UNCHANGED up
        BY <1>3 DEF Create
      <3> QED BY <2>3, <3>1, <3>3, <3>4, OthersPursued
    <2> QED BY <1>3, <2>1, <2>2, <2>3 DEF Create
  <1>4. ASSUME NEW r \in Replicas, NEW j \in Jobs, Cancel(r, j) PROVE InFlightIsPursued'
    BY <1>0, <1>4, CallSetsGoing, StillPursued DEF Cancel
  <1>5. ASSUME NEW r \in Replicas, NEW j \in Jobs, Launch(r, j) PROVE InFlightIsPursued'
    <2> DEFINE to == IF Seen(j) = "expired" THEN "none" ELSE "spawned"
    <2>1. \A i \in Jobs : NotSetGoing(i)
      BY <1>5, CallSetsGoing DEF Launch
    <2>2. CASE at' = [at EXCEPT ![r][j] = "none"] /\ j \in dropped'
      BY <1>5, <2>1, <2>2, OthersPursued DEF Launch, Drops
    <2>3. CASE at' = [at EXCEPT ![r][j] = to] /\ Transition({}, "none") /\ UNCHANGED dropped
      <3>1. /\ \A q \in Replicas : q # r => at'[q][j] = at[q][j]
            /\ at'[r][j] = to /\ at[r][j] = "created"
        BY <1>5, <2>3 DEF TypeOK, Launch, Goes
      <3>2. Pursued(j) => Pursued(j)'
        <4>1. state'[j] = Seen(j)
          BY <2>3 DEF Transition, Commit
        <4> QED BY <3>1, <4>1, <2>1 DEF Pursued, NotSetGoing, Awaits, Executes, InFlight
      <3> QED BY <1>5, <2>1, <2>3, <3>2, OthersPursued DEF Launch
    <2> QED BY <1>5, <2>2, <2>3 DEF Launch, Goes, Drops
  <1>6. ASSUME NEW r \in Replicas, NEW j \in Jobs, MarkRunning(r, j)
        PROVE  InFlightIsPursued'
    <2> DEFINE to == IF Seen(j) = "queued" THEN "scanning" ELSE "none"
    <2>1. \A i \in Jobs \ {j} : NotSetGoing(i)
      BY <1>6, CallSetsGoing DEF MarkRunning, Only
    <2>2. CASE at' = [at EXCEPT ![r][j] = "none"] /\ j \in dropped'
      BY <1>6, <2>1, <2>2, OthersPursued DEF MarkRunning, Drops
    <2>3. CASE /\ at' = [at EXCEPT ![r][j] = to] /\ UNCHANGED dropped
               /\ Transition(Only(j, "queued"), "running")
      <3>1. /\ \A q \in Replicas : q # r => at'[q][j] = at[q][j]
            /\ at'[r][j] = to /\ at[r][j] = "spawned"
        BY <1>6, <2>3 DEF TypeOK, MarkRunning, Goes
      <3>2. Pursued(j) => Pursued(j)'
        <4>1. CASE Seen(j) = "queued"
          BY <2>3, <3>1, <4>1 DEF Pursued, Executes, Transition, Commit, Only
        <4>2. CASE Seen(j) # "queued"
          <5>1. state'[j] = Seen(j)
            BY <2>3, <4>2 DEF Transition, Commit, Only
          <5> QED BY <3>1, <4>2, <5>1 DEF Pursued, Executes, Seen
        <4> QED BY <4>1, <4>2
      <3> QED BY <1>6, <2>1, <2>3, <3>2, OthersPursued DEF MarkRunning
    <2> QED BY <1>6, <2>2, <2>3 DEF MarkRunning, Goes, Drops
  <1>7. ASSUME NEW r \in Replicas, NEW j \in Jobs, StopCancelled(r, j)
        PROVE  InFlightIsPursued'
    <2>1. \A i \in Jobs : NotSetGoing(i)
      BY <1>7, CallSetsGoing DEF StopCancelled
    <2>2. Pursued(j)'
      BY <1>7 DEF StopCancelled, Transition, Commit, Pursued
    <2> QED BY <1>7, <2>1, <2>2, OthersPursued DEF StopCancelled, Goes
  <1>8. ASSUME NEW r \in Replicas, NEW j \in Jobs, MarkFailed(r, j)
        PROVE  InFlightIsPursued'
    <2>1. \A i \in Jobs : NotSetGoing(i)
      BY <1>0, <1>8, CallSetsGoing DEF MarkFailed
    <2>2. j \notin dropped' /\ Pursued(j) => Pursued(j)'
      <3>1. /\ \A q \in Replicas : q # r => at'[q][j] = at[q][j]
            /\ at[r][j] = "scanning"
        BY <1>8 DEF TypeOK, MarkFailed, Goes
      <3>2. j \in dropped' \/ state'[j] # "running"
        BY <1>8 DEF MarkFailed, Transition, Commit, Only, Drops
      <3> QED BY <2>1, <3>1, <3>2 DEF Pursued, NotSetGoing, Awaits, InFlight
    <2>3. UNCHANGED up /\ dropped \subseteq dropped' /\ at' = [at EXCEPT ![r][j] = "none"]
      BY <1>8 DEF MarkFailed, Drops, Goes
    <2> QED BY <2>1, <2>2, <2>3, OthersPursued
  <1>9. ASSUME NEW r \in Replicas, NEW j \in Jobs, Persist(r, j)
        PROVE  InFlightIsPursued'
    <2> DEFINE to == IF j \in Large THEN "writing" ELSE "persisted"
    <2>1. \A i \in Jobs : NotSetGoing(i)
      BY <1>9 DEF Persist, Unwritten, NotSetGoing
    <2>2. /\ \A q \in Replicas : q # r => at'[q][j] = at[q][j]
          /\ at'[r][j] = to /\ at[r][j] = "scanning"
      BY <1>9 DEF TypeOK, Persist, Goes
    <2>3. Pursued(j) => Pursued(j)'
      BY <2>2, <1>9 DEF Pursued, Awaits, Executes, Persist, Unwritten
    <2> QED BY <1>9, <2>1, <2>3, OthersPursued DEF Persist, Goes, history
  <1>16. ASSUME NEW r \in Replicas, NEW j \in Jobs, Put(r, j)
         PROVE  InFlightIsPursued'
    <2>1. \A i \in Jobs : NotSetGoing(i)
      BY <1>16 DEF Put, Unwritten, NotSetGoing
    <2>2. CASE at' = [at EXCEPT ![r][j] = "none"] /\ j \in dropped'
      BY <1>16, <2>1, <2>2, OthersPursued DEF Put, Drops
    <2>3. CASE at' = [at EXCEPT ![r][j] = "persisted"] /\ UNCHANGED dropped
      <3>1. /\ \A q \in Replicas : q # r => at'[q][j] = at[q][j]
            /\ at'[r][j] = "persisted" /\ at[r][j] = "writing"
        BY <1>16, <2>3 DEF TypeOK, Put, Goes
      <3>2. Pursued(j) => Pursued(j)'
        BY <3>1, <1>16 DEF Pursued, Awaits, Executes, Put, Unwritten
      <3> QED BY <1>16, <2>1, <2>3, <3>2, OthersPursued DEF Put
    <2> QED BY <1>16, <2>2, <2>3 DEF Put, Goes, Drops
  <1>10. ASSUME NEW r \in Replicas, NEW j \in Jobs, MarkSucceeded(r, j)
         PROVE  InFlightIsPursued'
    <2>1. \A i \in Jobs : NotSetGoing(i)
      BY <1>0, <1>10, NoneSetGoing DEF MarkSucceeded
    <2>2. j \notin dropped' /\ Pursued(j) => Pursued(j)'
      <3>1. /\ \A q \in Replicas : q # r => at'[q][j] = at[q][j]
            /\ at[r][j] = "persisted"
        BY <1>10 DEF TypeOK, MarkSucceeded, Goes
      <3>2. j \in dropped' \/ state'[j] # "running"
        BY <1>10 DEF MarkSucceeded, Commit, Only, Drops
      <3> QED BY <2>1, <3>1, <3>2 DEF Pursued, NotSetGoing, Awaits, InFlight
    <2>3. UNCHANGED up /\ dropped \subseteq dropped' /\ at' = [at EXCEPT ![r][j] = "none"]
      BY <1>10 DEF MarkSucceeded, Drops, Goes
    <2> QED BY <2>1, <2>2, <2>3, OthersPursued
  <1>11. ASSUME NEW r \in Replicas, Read(r) PROVE InFlightIsPursued'
    BY <1>11, CallSetsGoing, StillPursued DEF Read
  <1>12. ASSUME NEW r \in Replicas, Collect(r) PROVE InFlightIsPursued'
    BY <1>12 DEF Collect, store, runners, history, InFlightIsPursued, Awaits, Executes
  <1>13. ASSUME NEW r \in Replicas, Crash(r) PROVE InFlightIsPursued'
    <2>1. ~up'[r]
      BY <1>13 DEF Crash, TypeOK
    <2> QED BY <2>1 DEF InFlightIsPursued
  <1>14. ASSUME NEW r \in Replicas, Restart(r) PROVE InFlightIsPursued'
    <2>1. CASE UNCHANGED up
      BY <1>14, <2>1 DEF Restart, InFlightIsPursued
    <2>2. ASSUME NEW held \in SUBSET Unfinished, held \subseteq Busy(r) \/ held \subseteq dropped',
                 dropped \subseteq dropped' \cup (Unfinished \ held),
                 Transition(Unfinished \ held, "queued"),
                 at' = [at EXCEPT ![r] =
                          [j \in Jobs |-> IF j \in Unfinished \ held THEN "created" ELSE "none"]]
          PROVE  InFlightIsPursued'
      <3>1. \A j \in Unfinished \ held : state'[j] = "queued" /\ at'[r][j] = "created"
        BY <2>2 DEF TypeOK, Transition, Commit, Unfinished
      <3>2. \A j \in Jobs \ Unfinished : state'[j] \notin InFlight
        BY <2>2 DEF Transition, Commit, Unfinished
      <3>3. ASSUME NEW j \in held, held \subseteq Busy(r)
            PROVE  /\ state'[j] = "queued" => \E q \in Replicas : Awaits(q, j)'
                   /\ state'[j] = "running" => \E q \in Replicas : Executes(q, j)'
        <4>1. j \in Jobs /\ state'[j] = state[j]
          BY <2>2 DEF Transition, Commit, Unfinished, Seen, InFlight
        <4>2. PICK q \in Replicas \ {r} :
                 \/ state[j] = "queued" /\ at[q][j] = "spawned"
                 \/ state[j] = "running" /\ at[q][j] \in {"scanning", "persisted"}
          BY <3>3 DEF Busy
        <4>3. at'[q][j] = at[q][j]
          BY <2>2 DEF TypeOK
        <4> QED BY <4>1, <4>2, <4>3 DEF Awaits, Executes
      <3> SUFFICES ASSUME NEW j \in Jobs \ dropped'
                   PROVE  /\ state'[j] = "queued" => \E q \in Replicas : Awaits(q, j)'
                          /\ state'[j] = "running" => \E q \in Replicas : Executes(q, j)'
        BY DEF InFlightIsPursued
      <3>4. CASE j \in Unfinished \ held
        BY <3>1, <3>4 DEF Awaits
      <3>5. CASE j \notin Unfinished
        BY <3>2, <3>5 DEF InFlight
      <3> QED BY <2>2, <3>3, <3>4, <3>5
    <2>3. \/ UNCHANGED up
          \/ \E held \in SUBSET Unfinished :
               /\ held \subseteq Busy(r) \/ held \subseteq dropped'
               /\ dropped \subseteq dropped' \cup (Unfinished \ held)
               /\ Transition(Unfinished \ held, "queued")
               /\ at' = [at EXCEPT ![r] =
                          [j \in Jobs |-> IF j \in Unfinished \ held THEN "created" ELSE "none"]]
      BY <1>14 DEF Restart
    <2> QED BY <2>1, <2>2, <2>3
  <1>15. CASE Tick
    BY <1>15 DEF Tick, store, runners, history, InFlightIsPursued, Awaits, Executes
  <1> QED BY <1>1, <1>2, <1>3, <1>4, <1>5, <1>6, <1>7, <1>8, <1>9, <1>10, <1>11, <1>12,
             <1>13, <1>14, <1>15, <1>16 DEF Next, Run

(* No unfinished job is left without a runner, however replicas take jobs    *)
(* over from one another, unless an error made its caller leave or a process *)
(* is yet to start.                                                          *)
THEOREM JobsPursued == Spec => []InFlightIsPursued
  <1>1. Init => InFlightIsPursued
    BY DEF Init, InFlightIsPursued
  <1> QED BY <1>1, PursuedStep, TypeCorrect, PTL DEF Spec

-----------------------------------------------------------------------------
(* Results are kept.                                                         *)

\* The collector leaves what carries the second t alone.
Young(t) == clock - t <= ArtifactRetention

\* What a runner carries is there, and it shares its name with nobody; and so
\* is what a succeeded job refers to; all that as long as the name is young.
Safe(j) ==
    /\ \A r \in Replicas : Carries(r, j) /\ Young(wrote[r][j]) =>
          /\ <<j, wrote[r][j]>> \in artifacts
          /\ state[j] = "succeeded" => ref[j] # wrote[r][j]
          /\ \A q \in Replicas \ {r} : Carries(q, j) => wrote[q][j] # wrote[r][j]
    /\ state[j] = "succeeded" /\ Young(ref[j]) => <<j, ref[j]>> \in artifacts

AllSafe == \A j \in Large \ spoiled : Safe(j)

(* What is young was so a second ago.                                        *)
LEMMA YoungBefore ==
    ASSUME TypeOK, Tick, NEW t \in Times, Young(t)' PROVE Young(t)
  <1>1. clock \in Nat /\ t \in Nat /\ ArtifactRetention \in Nat
    BY ScanJobsAssumption DEF TypeOK, Times
  <1>2. clock' = clock + 1 /\ clock' - t <= ArtifactRetention
    BY DEF Tick, Young
  <1> QED BY <1>1, <1>2 DEF Young

(* A purge takes the artifacts of expired jobs only.                         *)
LEMMA PurgeTakes ==
    ASSUME Purges, NEW a \in artifacts, a \notin artifacts', a[1] \in Jobs
    PROVE  state'[a[1]] # "succeeded" /\ state[a[1]] = "succeeded" /\ ref[a[1]] = a[2]
  BY DEF Purges, Purged, Deleted, Discard, Deferred

(* Results stay safe.                                                        *)
LEMMA SafeStep == TypeOK /\ Idle /\ AllSafe /\ [Next]_vars => AllSafe'
  <1> SUFFICES ASSUME TypeOK, Idle, AllSafe, [Next]_vars,
                      NEW j \in Large, j \notin spoiled'
               PROVE  Safe(j)'
    BY DEF AllSafe
  <1>1. j \in Jobs
    BY ScanJobsAssumption
  <1>2. CASE UNCHANGED vars
    BY <1>2 DEF vars, AllSafe, Safe, Carries, Young
  <1>3. CASE Ordinary
    <2>1. Safe(j) /\ UNCHANGED clock
      BY <1>3 DEF Ordinary, AllSafe
    <2>2. ASSUME NEW t, <<j, t>> \in artifacts,
                 state[j] # "succeeded" \/ ref[j] # t \/ state'[j] = "succeeded"
          PROVE  <<j, t>> \in artifacts'
      BY <1>1, <1>3, <2>2, PurgeTakes DEF Ordinary
    <2>3. ASSUME NEW r \in Replicas, Carries(r, j)', Young(wrote[r][j])'
          PROVE  /\ <<j, wrote'[r][j]>> \in artifacts'
                 /\ state'[j] = "succeeded" => ref'[j] # wrote'[r][j]
                 /\ \A q \in Replicas \ {r} : Carries(q, j)' => wrote'[q][j] # wrote'[r][j]
      <3>1. /\ Carries(r, j) /\ wrote'[r][j] = wrote[r][j]
            /\ \A q \in Replicas : Carries(q, j)' =>
                  Carries(q, j) /\ wrote'[q][j] = wrote[q][j]
        BY <1>1, <1>3, <2>3 DEF Ordinary, SameCarriers
      <3>2. state'[j] = "succeeded" => state[j] = "succeeded" /\ ref'[j] = ref[j]
        BY <1>1, <1>3 DEF Ordinary, NoneSucceeds
      <3>3. Young(wrote[r][j])
        BY <2>1, <2>3, <3>1 DEF Young
      <3> QED BY <3>1, <3>2, <3>3, <2>1, <2>2 DEF Safe
    <2>4. ASSUME state'[j] = "succeeded", Young(ref[j])' PROVE <<j, ref'[j]>> \in artifacts'
      <3>1. state[j] = "succeeded" /\ ref'[j] = ref[j]
        BY <1>1, <1>3, <2>4 DEF Ordinary, NoneSucceeds
      <3>2. Young(ref[j])
        BY <2>1, <2>4, <3>1 DEF Young
      <3> QED BY <3>1, <3>2, <2>1, <2>2, <2>4 DEF Safe
    <2> QED BY <2>3, <2>4 DEF Safe
  <1>4. CASE Tick
    <2>1. Safe(j) /\ UNCHANGED <<state, updated, ref, artifacts, at, wrote>>
      BY <1>4 DEF Tick, AllSafe, store, runners, history
    <2>2. ref[j] \in Times /\ \A r \in Replicas : wrote[r][j] \in Times
      BY <1>1 DEF TypeOK
    <2>3. \A t \in Times : Young(t)' => Young(t)
      BY <1>4, YoungBefore
    <2>4. \A r \in Replicas : Young(wrote[r][j])' => Young(wrote[r][j])
      BY <2>1, <2>2, <2>3 DEF Young
    <2>5. Young(ref[j])' => Young(ref[j])
      BY <2>1, <2>2, <2>3 DEF Young
    <2> QED BY <2>1, <2>4, <2>5 DEF Safe, Carries
  <1>5. ASSUME NEW r \in Replicas, Collect(r) PROVE Safe(j)'
    <2>1. /\ Safe(j) /\ UNCHANGED <<state, updated, ref, clock, at, wrote>>
          /\ artifacts' = {a \in artifacts : clock - a[2] <= ArtifactRetention}
      BY <1>5 DEF Collect, AllSafe, store, runners, history
    <2> QED BY <2>1 DEF Safe, Carries, Young
  <1>6. ASSUME NEW r \in Replicas, Crash(r) PROVE Safe(j)'
    <2>1. Safe(j) /\ UNCHANGED <<state, updated, ref, clock>> /\ artifacts \subseteq artifacts'
      BY <1>6 DEF Crash, AllSafe, store
    <2>2. \A q \in Replicas : Carries(q, j)' => Carries(q, j) /\ wrote'[q][j] = wrote[q][j]
      BY <1>1, <1>6 DEF Crash, TypeOK, Carries
    <2> QED BY <2>1, <2>2 DEF Safe, Young
  <1>7. ASSUME NEW r \in Replicas, NEW i \in Jobs, Persist(r, i) PROVE Safe(j)'
    <2>1. Safe(j) /\ UNCHANGED <<state, updated, ref, clock, artifacts>>
      BY <1>7 DEF Persist, AllSafe, Unwritten, history
    <2>2. \A q \in Replicas : Carries(q, j)' => Carries(q, j) /\ wrote'[q][j] = wrote[q][j]
      BY <1>1, <1>7 DEF Persist, Goes, TypeOK, Carries
    <2> QED BY <2>1, <2>2 DEF Safe, Young
  <1>9. ASSUME NEW r \in Replicas, NEW i \in Jobs, Put(r, i) PROVE Safe(j)'
    <2>1. /\ Safe(j) /\ UNCHANGED <<state, updated, ref, clock>>
          /\ artifacts \subseteq artifacts'
      BY <1>9 DEF Put, AllSafe, Unwritten, Strays
    <2>2. \A q \in Replicas : q # r \/ i # j =>
             (Carries(q, j)' = Carries(q, j) /\ wrote'[q][j] = wrote[q][j])
      BY <1>1, <1>9 DEF Put, Goes, Forgets, TypeOK, Carries
    <2>3. CASE i # j \/ ~Carries(r, j)'
      BY <2>1, <2>2, <2>3 DEF Safe, Young
    <2>4. CASE i = j /\ Carries(r, j)'
      <3> DEFINE t == wrote[r][j]
      <3>1. wrote'[r][j] = t /\ <<j, t>> \in artifacts' /\ <<j, t>> \notin artifacts
        <4>1. at'[r][j] = "persisted"
          BY <2>4 DEF Carries
        <4>2. /\ UNCHANGED wrote
              /\ artifacts' = artifacts \cup {<<j, t>>}
              /\ {<<j, t>>} \cap artifacts = {}
          BY <1>1, <1>9, <2>4, <4>1 DEF Put, Goes, TypeOK, Artifact
        <4> QED BY <4>2
      <3>2. ASSUME NEW q \in Replicas \ {r}, Carries(q, j)', Young(t) \/ Young(wrote[q][j])
            PROVE  wrote'[q][j] # t
        BY <2>1, <2>2, <3>1, <3>2 DEF Safe
      <3>3. ASSUME state[j] = "succeeded", Young(t) PROVE ref[j] # t
        BY <3>1, <3>3, <2>1 DEF Safe
      <3> HIDE DEF t
      <3>4. ASSUME NEW q \in Replicas, q # r, Carries(q, j)', Young(wrote[q][j])'
            PROVE  /\ <<j, wrote'[q][j]>> \in artifacts'
                   /\ state'[j] = "succeeded" => ref'[j] # wrote'[q][j]
                   /\ \A p \in Replicas \ {q} : Carries(p, j)' => wrote'[p][j] # wrote'[q][j]
        <4>1. Carries(q, j) /\ wrote'[q][j] = wrote[q][j] /\ Young(wrote[q][j])
          BY <2>1, <2>2, <3>4 DEF Young
        <4> QED BY <4>1, <2>1, <2>2, <3>1, <3>2, <3>4 DEF Safe
      <3>5. ASSUME Young(wrote[r][j])'
            PROVE  /\ <<j, wrote'[r][j]>> \in artifacts'
                   /\ state'[j] = "succeeded" => ref'[j] # wrote'[r][j]
                   /\ \A q \in Replicas \ {r} : Carries(q, j)' => wrote'[q][j] # wrote'[r][j]
        <4>1. Young(t)
          BY <2>1, <3>1, <3>5 DEF Young
        <4> QED BY <4>1, <2>1, <3>1, <3>2, <3>3
      <3>6. state'[j] = "succeeded" /\ Young(ref[j])' => <<j, ref'[j]>> \in artifacts'
        BY <2>1 DEF Safe, Young
      <3> QED BY <3>4, <3>5, <3>6 DEF Safe
    <2> QED BY <2>3, <2>4
  <1>8. ASSUME NEW r \in Replicas, NEW i \in Jobs, MarkSucceeded(r, i) PROVE Safe(j)'
    <2> DEFINE mine == Artifact(i, wrote[r][i])
    <2>0. /\ UNCHANGED clock /\ at[r][i] = "persisted"
          /\ j \notin spoiled /\ Safe(j)
      BY <1>8 DEF MarkSucceeded, Goes, AllSafe
    <2>1. \A q \in Replicas : Carries(q, j)' =>
             Carries(q, j) /\ wrote'[q][j] = wrote[q][j] /\ (q # r \/ i # j)
      BY <1>1, <1>8 DEF MarkSucceeded, Goes, Forgets, TypeOK, Carries
    <2>2. ASSUME state'[j] = "succeeded"
          PROVE  \/ state[j] = "succeeded" /\ ref'[j] = ref[j] /\ (Unwritten \/ ~Expired(j))
                 \/ /\ i = j /\ Seen(j) = "running"
                    /\ ref'[j] = wrote[r][j]
      <3>1. CASE Unwritten
        BY <2>2, <3>1 DEF Unwritten
      <3>2. CASE Commit(Only(i, "running"), "succeeded", wrote[r][i])
        BY <1>1, <2>2, <3>2 DEF Commit, Only, Seen
      <3> QED BY <1>8, <3>1, <3>2 DEF MarkSucceeded
    <2>3. ASSUME NEW t, <<j, t>> \in artifacts, i # j \/ t # wrote[r][j],
                 state[j] # "succeeded" \/ ref[j] # t \/ Unwritten \/ ~Expired(j)
          PROVE  <<j, t>> \in artifacts'
      <3>1. <<j, t>> \notin mine
        BY <2>3 DEF Artifact
      <3>2. CASE <<j, t>> \notin Deferred
        BY <1>8, <2>3, <3>1, <3>2 DEF MarkSucceeded, Deleted, Discard
      <3>3. CASE <<j, t>> \in Deferred
        <4>1. Expired(j) /\ state[j] = "succeeded" /\ Unwritten
          BY <2>3, <3>3 DEF Deferred
        <4>2. ~Commit(Only(i, "running"), "succeeded", wrote[r][i])
          BY <1>1, <4>1 DEF Commit, Only, Seen, Unwritten
        <4> QED BY <1>8, <2>3, <3>1, <4>2 DEF MarkSucceeded, Discard
      <3> QED BY <3>2, <3>3
    <2>4. ASSUME i = j, Seen(j) = "running", state'[j] = "succeeded", Young(wrote[r][j])
          PROVE  <<j, wrote[r][j]>> \in artifacts'
      <3>1. <<j, wrote[r][j]>> \in artifacts
        BY <2>0, <2>4 DEF Safe, Carries
      <3>2. state[j] = "running"
        BY <2>4 DEF Seen
      <3>3. Deleted(Deferred \cup {})
        BY <1>8, <2>4, <3>2 DEF MarkSucceeded, Unwritten, Only
      <3> QED BY <3>1, <3>2, <3>3 DEF Deleted, Deferred
    <2>5. ASSUME NEW q \in Replicas, Carries(q, j)', Young(wrote[q][j])'
          PROVE  /\ <<j, wrote'[q][j]>> \in artifacts'
                 /\ state'[j] = "succeeded" => ref'[j] # wrote'[q][j]
                 /\ \A p \in Replicas \ {q} : Carries(p, j)' => wrote'[p][j] # wrote'[q][j]
      <3>0. Carries(q, j) /\ wrote'[q][j] = wrote[q][j] /\ Young(wrote[q][j])
        BY <2>0, <2>1, <2>5 DEF Young
      <3>1. i = j => wrote[q][j] # wrote[r][j]
        BY <2>0, <2>1, <2>5, <3>0 DEF Safe, Carries
      <3> QED BY <2>0, <2>1, <2>2, <2>3, <2>5, <3>0, <3>1 DEF Safe
    <2>6. ASSUME state'[j] = "succeeded", Young(ref[j])' PROVE <<j, ref'[j]>> \in artifacts'
      <3>1. CASE state[j] = "succeeded" /\ ref'[j] = ref[j] /\ (Unwritten \/ ~Expired(j))
        <4>1. Young(ref[j])
          BY <2>0, <2>6, <3>1 DEF Young
        <4>2. i = j => ref[j] # wrote[r][j]
          BY <2>0, <3>1, <4>1 DEF Safe, Carries
        <4> QED BY <2>0, <2>3, <3>1, <4>1, <4>2 DEF Safe
      <3>2. CASE i = j /\ Seen(j) = "running" /\ ref'[j] = wrote[r][j]
        <4>1. Young(wrote[r][j])
          BY <2>0, <2>6, <3>2 DEF Young
        <4> QED BY <2>4, <2>6, <3>2, <4>1
      <3> QED BY <2>2, <2>6, <3>1, <3>2
    <2> QED BY <2>5, <2>6 DEF Safe
  <1> QED BY <1>2, <1>3, <1>4, <1>5, <1>6, <1>7, <1>8, <1>9, OrdinarySteps

(* A succeeded job has its result until the name of the result is older than *)
(* artifacts are retained: no race between runners, purge or collection      *)
(* takes it earlier, however long the writing and the recording took.        *)
THEOREM ResultsKept == Spec => []ResultIsKept
  <1>1. Init => AllSafe
    BY ScanJobsAssumption DEF Init, AllSafe, Safe, Carries
  <1>2. AllSafe => ResultIsKept
    BY DEF AllSafe, Safe, ResultIsKept, Succeeded, Young
  <1> QED BY <1>1, <1>2, SafeStep, IdleAlways, TypeCorrect, PTL DEF Spec
=============================================================================
