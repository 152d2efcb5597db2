---------------------------- MODULE ArchiveProofs ----------------------------
(***************************************************************************)
(* Proofs about Archive for any archives and any number of deliveries and    *)
(* interruptions: the type invariant, that no entry of an unpacked archive   *)
(* vanishes, and that identical files are indexed once.                     *)
(***************************************************************************)
EXTENDS Archive, TLAPS

-----------------------------------------------------------------------------
(* What the helpers of the actions change.                                   *)

LEMMA Bounds == MaxDepth \in Nat /\ MaxCuts \in Nat
  BY ArchiveAssumption

LEMMA EntriesAreItems ==
    ASSUME NEW t, Archive(t) \in Archives PROVE Entries(t) \subseteq Items
  <1>1. Content[Archive(t)] \in Seq(Items)
    BY ArchiveAssumption
  <1> QED BY <1>1 DEF Entries, ToSet

\* Only the fields of delivery t in fs may differ.
RunKeeps(t, fs) ==
    /\ run'[t].row = run[t].row
    /\ run'[t].depth = run[t].depth
    /\ run'[t].redelivered = run[t].redelivered
    /\ "at" \in fs \/ run'[t].at = run[t].at
    /\ "live" \in fs \/ run'[t].live = run[t].live
    /\ "expired" \in fs \/ run'[t].expired = run[t].expired
    /\ \A u \in Deliveries \ {t} : run'[u] = run[u]

LEMMA GotoEffect ==
    ASSUME TypeOK, NEW t \in Deliveries, NEW from, NEW to \in RunSteps, Goto(t, from, to)
    PROVE  run[t].at = from /\ run'[t].at = to /\ RunKeeps(t, {"at"})
  BY DEF Goto, RunKeeps, TypeOK

LEMMA EntryEffect ==
    ASSUME TypeOK, NEW t \in Deliveries, NEW i \in Items, NEW from, NEW to,
           EntryStep(t, i, from, to)
    PROVE  /\ entry[t][i] = from /\ entry'[t][i] = to
           /\ \A k \in Items \ {i} : entry'[t][k] = entry[t][k]
           /\ \A u \in Deliveries \ {t} : entry'[u] = entry[u]
  BY DEF EntryStep, TypeOK

LEMMA LeaveEffect ==
    ASSUME TypeOK, NEW t \in Deliveries, Leave(t)
    PROVE  /\ run'[t].at = "gone" /\ entry'[t] = NoEntries
           /\ \A u \in Deliveries \ {t} : run'[u] = run[u] /\ entry'[u] = entry[u]
  BY DEF Leave, NoRun, TypeOK

LEMMA StatusEffect ==
    ASSUME TypeOK, NEW r \in Rows, NEW new \in RowStatuses, NEW sick, SetStatus(r, new, sick)
    PROVE  /\ status' \in [Rows -> RowStatuses]
           /\ \A q \in Rows \ {r} : status'[q] = status[q]
           /\ status'[r] \in {status[r], new}
  BY DEF SetStatus, TypeOK

-----------------------------------------------------------------------------
(* Types.                                                                    *)

Runs == [at : RunSteps, row : Rows \cup {Nobody}, depth : 0..MaxDepth,
         redelivered : BOOLEAN, live : BOOLEAN, expired : BOOLEAN]

\* Only archives that are not too deep are unpacked.
Depths == \A t \in Deliveries : run[t].at \in {"extract", "unpack"}
                                    => run[t].depth < MaxDepth

\* What is delivered is an archive.
RunRows == /\ \A t \in Deliveries :
                 Running(t) => run[t].row \in Rows /\ Archive(t) \in Archives
           /\ \A j \in queue : j.row[1] \in Archives

TypeInv == TypeOK /\ Depths /\ RunRows

LEMMA CatalogueIsRows == Catalogue \subseteq Rows
  <1>1. Uploaded \subseteq Items /\ 0 \in 0..MaxDeliveries
    BY ArchiveAssumption
  <1> QED BY <1>1 DEF Catalogue, Rows

LEMMA TypeInit == ASSUME Init PROVE TypeInv
  <1>1. RootRow \in Rows /\ RootRow[1] \in Archives
    BY ArchiveAssumption DEF RootRow, Rows
  <1>2. Job(RootRow, 0, FALSE) \in Jobs /\ Job(RootRow, 0, FALSE).depth = 0
        /\ Job(RootRow, 0, FALSE).row = RootRow
    BY <1>1 DEF Job, Jobs
  <1>3. NoRun \in Runs
    BY Bounds DEF NoRun, RunSteps, Runs
  <1>4. TypeOK
    <2>1. status \in [Rows -> RowStatuses] /\ published \subseteq Rows
      BY <1>1, CatalogueIsRows DEF Init, RowStatuses
    <2>2. queue \subseteq Jobs /\ \A j \in queue : j.depth <= MaxDepth
      <3>1. queue = {Job(RootRow, 0, FALSE)} /\ 0 <= MaxDepth
        BY Bounds DEF Init
      <3> QED BY <1>2, <3>1
    <2>5. dead \subseteq Rows /\ givenUp \subseteq published /\ overlapped \in BOOLEAN
      BY DEF Init
    <2>6. cuts \in 0..MaxCuts
      BY Bounds DEF Init
    <2>3. run \in [Deliveries -> Runs]
      BY <1>3 DEF Init
    <2>4. entry \in [Deliveries -> [Items -> EntrySteps]]
      BY DEF Init, NoEntries, EntrySteps
    <2> QED BY <2>1, <2>2, <2>3, <2>4, <2>5, <2>6 DEF TypeOK, Runs
  <1>5. Depths
    BY DEF Init, Depths, NoRun
  <1>6. RunRows
    BY <1>1, <1>2 DEF Init, RunRows, Running, NoRun
  <1> QED BY <1>4, <1>5, <1>6 DEF TypeInv

\* A step that moves delivery t on and writes the status of its row.
LEMMA MoveTypes ==
    ASSUME TypeInv, NEW t \in Deliveries, NEW from \in RunSteps \ {"new", "gone"},
           NEW to \in RunSteps \ {"new"}, Goto(t, from, to),
           to \in {"extract", "unpack"} => run[t].depth < MaxDepth,
           status' \in [Rows -> RowStatuses],
           UNCHANGED <<published, queue, dead, entry, history, cuts>>
    PROVE  TypeInv'
  <1> USE DEF TypeInv
  <1>1. run[t].at = from /\ run'[t].at = to /\ RunKeeps(t, {"at"})
    BY GotoEffect
  <1>2. run' \in [Deliveries -> [at : RunSteps, row : Rows \cup {Nobody},
                               depth : 0..MaxDepth,
                               redelivered : BOOLEAN, live : BOOLEAN,
                               expired : BOOLEAN]]
    BY DEF Goto, TypeOK
  <1>3. TypeOK'
    BY <1>2 DEF TypeOK, history
  <1>4. Depths'
    BY <1>1 DEF Depths, RunKeeps
  <1>5. RunRows'
    BY <1>1 DEF RunRows, Running, Archive, RunKeeps
  <1> QED BY <1>3, <1>4, <1>5

\* A step of an entry of delivery t.
LEMMA EntryTypes ==
    ASSUME TypeInv, NEW t \in Deliveries, run[t].at = "unpack", NEW i \in Items,
           NEW from, NEW to \in EntrySteps, EntryStep(t, i, from, to),
           status' \in [Rows -> RowStatuses],
           \/ UNCHANGED <<published, queue>>
           \/ Sent(t, i),
           UNCHANGED <<dead, run, history, cuts>>
    PROVE  TypeInv'
  <1> USE DEF TypeInv
  <1>1. entry' \in [Deliveries -> [Items -> EntrySteps]]
    BY DEF EntryStep, TypeOK
  <1>2. <<i, t>> \in Rows /\ run[t].depth + 1 \in 0..MaxDepth
    BY ArchiveAssumption DEF Rows, Deliveries, Depths, TypeOK
  <1>3. /\ published' \subseteq Rows /\ published \subseteq published'
        /\ queue' \subseteq Jobs
        /\ \A j \in queue' : j.depth <= MaxDepth /\ j.row[1] \in Archives
    <2>1. CASE UNCHANGED <<published, queue>>
      BY <2>1 DEF TypeOK, RunRows
    <2>2. CASE Sent(t, i)
      <3>1. i \in Archives => LET j == Job(<<i, t>>, run[t].depth + 1, FALSE) IN
                j \in Jobs /\ j.depth <= MaxDepth /\ j.row[1] \in Archives
        BY <1>2, ArchiveAssumption DEF Job, Jobs
      <3> QED BY <1>2, <2>2, <3>1 DEF Sent, TypeOK, RunRows
    <2> QED BY <2>1, <2>2
  <1>4. TypeOK'
    BY <1>1, <1>3 DEF TypeOK, history
  <1>5. Depths' /\ RunRows'
    BY <1>3 DEF Depths, RunRows, Running, Archive
  <1> QED BY <1>4, <1>5

\* Delivery t is over, and its job may go back to the queue.
LEMMA LeaveTypes ==
    ASSUME TypeInv, NEW t \in Deliveries, Running(t), Leave(t),
           Requeue(t) \/ UNCHANGED queue, dead' \in {dead, dead \cup {run[t].row}},
           cuts' \in 0..MaxCuts, UNCHANGED <<status, published, history>>
    PROVE  TypeInv'
  <1> USE DEF TypeInv
  <1>1. /\ run'[t].at = "gone" /\ entry'[t] = NoEntries
        /\ \A u \in Deliveries \ {t} : run'[u] = run[u] /\ entry'[u] = entry[u]
    BY LeaveEffect
  <1>2. run' \in [Deliveries -> Runs]
    <2>1. [NoRun EXCEPT !.at = "gone"] \in Runs
      <3>1. NoRun \in Runs
        BY Bounds DEF NoRun, RunSteps, Runs
      <3> QED BY <3>1 DEF Runs, RunSteps
    <2> QED BY <2>1 DEF Leave, TypeOK, Runs
  <1>3. entry' \in [Deliveries -> [Items -> EntrySteps]]
    BY DEF Leave, NoEntries, EntrySteps, TypeOK
  <1>4. run[t].row \in Rows /\ Archive(t) \in Archives
    BY DEF RunRows
  <1>5. LET j == Job(run[t].row, run[t].depth, TRUE) IN
            j \in Jobs /\ j.depth <= MaxDepth /\ j.row[1] \in Archives
    BY <1>4, ArchiveAssumption DEF Job, Jobs, TypeOK, Archive
  <1>6. queue' \subseteq Jobs /\ \A j \in queue' : j.depth <= MaxDepth /\ j.row[1] \in Archives
    BY <1>5 DEF Requeue, TypeOK, RunRows
  <1>7. TypeOK'
    BY <1>2, <1>3, <1>4, <1>6 DEF TypeOK, history, Runs
  <1>8. Depths' /\ RunRows'
    BY <1>1, <1>6 DEF Depths, RunRows, Running, Archive
  <1> QED BY <1>7, <1>8

LEMMA TypeStep == ASSUME TypeInv, [Next]_vars PROVE TypeInv'
  <1> USE DEF TypeInv
  <1>0. \A t \in Deliveries : Running(t) => run[t].row \in Rows
    BY DEF RunRows
  <1>1. ASSUME NEW t \in Deliveries, Deliver(t) PROVE TypeInv'
    <2>1. PICK j \in queue :
            /\ queue' = queue \ {j}
            /\ run' = [run EXCEPT ![t] =
                         [at |-> "start", row |-> j.row, depth |-> j.depth,
                          redelivered |-> j.redelivered, live |-> TRUE,
                          expired |-> FALSE]]
      BY <1>1 DEF Deliver
    <2>2. /\ j \in Jobs /\ j.depth \in 0..MaxDepth /\ j.row[1] \in Archives /\ j.row \in Rows
          /\ j.redelivered \in BOOLEAN
      BY ArchiveAssumption DEF TypeOK, Jobs, RunRows
    <2>3. TypeOK'
      <3>1. overlapped' \in BOOLEAN
        BY <1>1 DEF Deliver, TypeOK
      <3> QED BY <1>1, <2>1, <2>2, <3>1 DEF Deliver, TypeOK, RunSteps
    <2>4. Depths'
      BY <2>1 DEF Depths, TypeOK
    <2>5. RunRows'
      BY <2>1, <2>2 DEF RunRows, Running, Archive, TypeOK
    <2> QED BY <2>3, <2>4, <2>5
  <1>2. ASSUME NEW t \in Deliveries,
               Begin(t) \/ Extract(t) \/ Finish(t) \/ Report(t) \/ Fail(t)
        PROVE  TypeInv'
    <2>1. CASE Begin(t)
      <3>1. run[t].at = "start" /\ Running(t)
        BY <2>1 DEF Begin, Goto, Running
      <3>2. status' \in [Rows -> RowStatuses]
        BY <1>0, <2>1, <3>1, StatusEffect DEF Begin, RowStatuses
      <3>3. CASE run[t].depth >= MaxDepth
        BY <2>1, <3>2, <3>3, MoveTypes DEF Begin, RunSteps
      <3>4. CASE ~(run[t].depth >= MaxDepth)
        <4>1. run[t].depth < MaxDepth
          BY <3>4, ArchiveAssumption DEF TypeOK
        <4> QED BY <2>1, <3>2, <3>4, <4>1, MoveTypes DEF Begin, RunSteps
      <3> QED BY <3>3, <3>4
    <2>2. CASE Extract(t)
      <3>1. run[t].at = "extract"
        BY <2>2 DEF Extract, Goto
      <3>2. status' \in [Rows -> RowStatuses] /\ run[t].depth < MaxDepth
        BY <2>2, <3>1 DEF Extract, TypeOK, Depths
      <3> QED BY <2>2, <3>2, MoveTypes DEF Extract, RunSteps
    <2>3. CASE Finish(t)
      <3>1. status' \in [Rows -> RowStatuses]
        BY <2>3 DEF Finish, TypeOK
      <3> QED BY <2>3, <3>1, MoveTypes DEF Finish, RunSteps
    <2>4. CASE Report(t) \/ Fail(t)
      <3>1. Running(t)
        BY <2>4 DEF Report, Fail, Goto, Running
      <3>2. status' \in [Rows -> RowStatuses]
        BY <1>0, <2>4, <3>1, StatusEffect DEF Report, Fail, RowStatuses
      <3> QED BY <2>4, <3>2, MoveTypes DEF Report, Fail, RunSteps
    <2> QED BY <1>2, <2>1, <2>2, <2>3, <2>4
  <1>3. ASSUME NEW t \in Deliveries, run[t].at = "unpack",
               Claim(t) \/ \E i \in Entries(t) : Register(t, i)
        PROVE  TypeInv'
    <2>0. Archive(t) \in Archives /\ Entries(t) \subseteq Items
          /\ status \in [Rows -> RowStatuses]
      BY <1>3, EntriesAreItems DEF RunRows, Running, TypeOK
    <2>1. CASE Claim(t)
      BY <1>3, <2>0, <2>1, EntryTypes DEF Claim, EntrySteps
    <2>2. ASSUME NEW i \in Entries(t), Lookup(t, i) PROVE TypeInv'
      BY <1>3, <2>0, <2>2, EntryTypes DEF Lookup, EntrySteps
    <2>3. ASSUME NEW i \in Entries(t), Create(t, i) PROVE TypeInv'
      <3>1. status' \in [Rows -> RowStatuses]
        BY <2>0, <2>3 DEF Create, RowStatuses
      <3> QED BY <1>3, <2>0, <2>3, <3>1, EntryTypes DEF Create, EntrySteps
    <2>4. ASSUME NEW i \in Entries(t), Publish(t, i) PROVE TypeInv'
      <3>1. status' \in [Rows -> RowStatuses]
        BY <2>0, <2>4 DEF Publish
      <3> QED BY <1>3, <2>0, <2>4, <3>1, EntryTypes DEF Publish, EntrySteps
    <2>5. ASSUME NEW i \in Entries(t), Mark(t, i) PROVE TypeInv'
      <3>1. <<i, t>> \in Rows
        BY <2>0, ArchiveAssumption DEF Rows, Deliveries
      <3>2. status' \in [Rows -> RowStatuses]
        BY <2>5, <3>1, StatusEffect DEF Mark, RowStatuses
      <3> QED BY <1>3, <2>0, <2>5, <3>2, EntryTypes DEF Mark, EntrySteps
    <2> QED BY <1>3, <2>1, <2>2, <2>3, <2>4, <2>5 DEF Register
  <1>4. ASSUME NEW t \in Deliveries, Ack(t) \/ Nack(t) PROVE TypeInv'
    <2>1. Running(t) /\ cuts' \in 0..MaxCuts
      BY <1>4 DEF Ack, Nack, Running, TypeOK
    <2> QED BY <1>4, <2>1, LeaveTypes DEF Ack, Nack
  <1>5. ASSUME NEW t \in Deliveries, Crash(t) PROVE TypeInv'
    <2>1. cuts' \in 0..MaxCuts
      BY <1>5, ArchiveAssumption DEF Crash, Cut, TypeOK
    <2> QED BY <1>5, <2>1, LeaveTypes DEF Crash
  <1>6. ASSUME NEW t \in Deliveries, Expire(t) \/ LoseChannel(t) PROVE TypeInv'
    <2>1. Running(t) /\ cuts' \in 0..MaxCuts
      BY <1>6, ArchiveAssumption DEF Expire, LoseChannel, Cut, TypeOK, Running
    <2>2. LET j == Job(run[t].row, run[t].depth, TRUE) IN
            j \in Jobs /\ j.depth <= MaxDepth /\ j.row[1] \in Archives
      BY <2>1, ArchiveAssumption DEF Job, Jobs, TypeOK, Archive, RunRows
    <2>3. queue' \subseteq Jobs /\ \A j \in queue' : j.depth <= MaxDepth /\ j.row[1] \in Archives
      BY <1>6, <2>2 DEF Expire, LoseChannel, Requeue, TypeOK, RunRows
    <2>4. /\ run' \in [Deliveries -> Runs]
          /\ \A u \in Deliveries : /\ run'[u].at = run[u].at /\ run'[u].row = run[u].row
                                   /\ run'[u].depth = run[u].depth
      <3>1. run \in [Deliveries -> Runs]
        BY DEF TypeOK, Runs
      <3>2. CASE run' = [run EXCEPT ![t].expired = TRUE]
        BY <3>1, <3>2 DEF Runs
      <3>3. CASE run' = [run EXCEPT ![t].live = FALSE]
        BY <3>1, <3>3 DEF Runs
      <3> QED BY <1>6, <3>2, <3>3 DEF Expire, LoseChannel
    <2>5. TypeOK'
      BY <1>6, <2>1, <2>3, <2>4 DEF Expire, LoseChannel, TypeOK, history, Runs
    <2>6. Depths' /\ RunRows'
      BY <2>3, <2>4 DEF Depths, RunRows, Running, Archive
    <2> QED BY <2>5, <2>6
  <1>7. ASSUME NEW r \in published, ChildFails(r) PROVE TypeInv'
    <2>1. TypeOK'
      BY <1>7 DEF ChildFails, TypeOK, RowStatuses
    <2>2. Depths' /\ RunRows'
      BY <1>7 DEF ChildFails, Depths, RunRows, Running, Archive
    <2> QED BY <2>1, <2>2
  <1>8. CASE UNCHANGED vars
    BY <1>8 DEF vars, TypeOK, Depths, RunRows, Running, Archive
  <1> QED BY <1>1, <1>2, <1>3, <1>4, <1>5, <1>6, <1>7, <1>8 DEF Next, Handle

(* Types are correct; in particular no archive is queued deeper than the     *)
(* worker unpacks.                                                           *)
THEOREM TypeCorrect == Spec => []TypeOK
  <1>1. TypeInv => TypeOK
    BY DEF TypeInv
  <1>2. Init => TypeInv
    BY TypeInit
  <1> QED BY <1>1, <1>2, TypeStep, PTL DEF Spec

-----------------------------------------------------------------------------
(* Steps that register nothing.                                              *)

Over  == {"registered", "duplicate", "failed", "skipped"}
Begun == {"claimed", "create", "publish", "mark", "registered", "failed"}

\* As long as the handlers of two deliveries never met, there is only one.
Alone == ~overlapped => \A t, u \in Deliveries : Running(t) /\ Running(u) => t = u

\* Rows stay, and only the pipeline fails a file's row.
RowsStay == \A r \in Rows :
    /\ status'[r] = "none" => status[r] = "none"
    /\ status'[r] = "failed" /\ r[1] \notin Archives
          => status[r] = "failed" \/ r \in givenUp'

\* Delivery t keeps its entries and goes on, or forgets them.
Continues(t) ==
    \/ /\ entry'[t] = entry[t]
       /\ Running(t) => /\ Running(t)' /\ run'[t].row = run[t].row
                        /\ Sick(t) => Sick(t)'
       /\ run'[t].at = "report" => /\ Running(t)
                                   /\ \/ run[t].at = "report"
                                      \/ \A i \in Entries(t) : entry[t][i] \in Over
    \/ entry'[t] = NoEntries /\ ~Running(t)'

Aside == /\ published' = published /\ givenUp \subseteq givenUp'
         /\ overlapped => overlapped'
         /\ Alone => Alone'
         /\ RowsStay
         /\ \A t \in Deliveries : Continues(t)

LEMMA SetStatusStays ==
    ASSUME TypeOK, NEW r \in Rows, NEW new \in RowStatuses \ {"none"}, NEW sick,
           SetStatus(r, new, sick), r[1] \in Archives \/ new # "failed", UNCHANGED givenUp
    PROVE  RowsStay
  BY StatusEffect DEF RowsStay

\* A handler moves on without touching its entries.
LEMMA GotoAside ==
    ASSUME TypeInv, NEW t \in Deliveries, NEW from \in RunSteps \ {"new", "gone"},
           NEW to \in RunSteps \ {"new", "gone"}, Goto(t, from, to), RowsStay,
           to = "report" => \A i \in Entries(t) : entry[t][i] \in Over,
           UNCHANGED <<published, entry, history>>
    PROVE  Aside
  <1>1. run[t].at = from /\ run'[t].at = to /\ RunKeeps(t, {"at"})
    BY GotoEffect DEF TypeInv
  <1>2. \A u \in Deliveries : Running(u)' = Running(u) /\ run'[u].row = run[u].row
                              /\ Sick(u)' = Sick(u)
    BY <1>1 DEF RunKeeps, Running, Sick
  <1>3. \A u \in Deliveries \ {t} : run'[u].at = run[u].at
    BY <1>1 DEF RunKeeps
  <1>4. \A u \in Deliveries : Continues(u)
    BY <1>1, <1>2, <1>3 DEF Continues, Running
  <1>5. Alone => Alone'
    BY <1>2 DEF Alone, history
  <1> QED BY <1>4, <1>5 DEF Aside, history

\* A handler is gone.
LEMMA LeaveAside ==
    ASSUME TypeInv, NEW t \in Deliveries, Leave(t), UNCHANGED <<status, published, history>>
    PROVE  Aside
  <1>1. /\ run'[t].at = "gone" /\ entry'[t] = NoEntries
        /\ \A u \in Deliveries \ {t} : run'[u] = run[u] /\ entry'[u] = entry[u]
    BY LeaveEffect DEF TypeInv
  <1>2. \A u \in Deliveries : Continues(u) /\ (Running(u)' => Running(u))
    BY <1>1 DEF Continues, Running, Sick
  <1>3. RowsStay
    BY DEF RowsStay
  <1>4. Alone => Alone'
    BY <1>2 DEF Alone, history
  <1> QED BY <1>2, <1>3, <1>4 DEF Aside, history

LEMMA StepAside ==
    ASSUME TypeInv, [Next]_vars,
           ~ \E t \in Deliveries : /\ run[t].at = "unpack"
                                   /\ Claim(t) \/ \E i \in Entries(t) : Register(t, i)
    PROVE  Aside
  <1> USE DEF TypeInv
  <1>0. \A t \in Deliveries : Running(t) => run[t].row \in Rows /\ run[t].row[1] \in Archives
    BY DEF RunRows, Archive
  <1>1. ASSUME NEW t \in Deliveries, Deliver(t) PROVE Aside
    <2>1. /\ ~Running(t) /\ Running(t)' /\ run[t].at = "new" /\ run'[t].at = "start"
          /\ \A u \in Deliveries \ {t} : run'[u] = run[u]
      BY <1>1 DEF Deliver, Running, TypeOK
    <2>2. entry' = entry /\ overlapped' = (overlapped \/ \E u \in Deliveries : Running(u))
      BY <1>1 DEF Deliver
    <2>3. \A u \in Deliveries : Continues(u)
      BY <2>1, <2>2 DEF Continues, Running, Sick
    <2>4. Alone => Alone'
      BY <2>1, <2>2 DEF Alone, Running
    <2>5. RowsStay
      BY <1>1 DEF Deliver, RowsStay
    <2> QED BY <1>1, <2>2, <2>3, <2>4, <2>5 DEF Deliver, Aside
  <1>2. ASSUME NEW t \in Deliveries, Begin(t) PROVE Aside
    <2>1. Running(t)
      BY <1>2 DEF Begin, Goto, Running
    <2>2. RowsStay
      BY <1>0, <1>2, <2>1, SetStatusStays DEF Begin, RowStatuses, history
    <2> QED BY <1>2, <2>2, GotoAside DEF Begin, RunSteps
  <1>3. ASSUME NEW t \in Deliveries, Report(t) \/ Fail(t) PROVE Aside
    <2>1. Running(t)
      BY <1>3 DEF Report, Fail, Goto, Running
    <2>2. RowsStay
      BY <1>0, <1>3, <2>1, SetStatusStays DEF Report, Fail, RowStatuses, history
    <2> QED BY <1>3, <2>2, GotoAside DEF Report, Fail, RunSteps
  <1>4. ASSUME NEW t \in Deliveries, Extract(t) PROVE Aside
    <2>1. RowsStay
      BY <1>4 DEF Extract, RowsStay
    <2> QED BY <1>4, <2>1, GotoAside DEF Extract, RunSteps
  <1>5. ASSUME NEW t \in Deliveries, Finish(t) PROVE Aside
    <2>1. RowsStay
      BY <1>5 DEF Finish, RowsStay
    <2>2. ASSUME ~Sick(t), NEW i \in Entries(t) PROVE entry[t][i] \in Over
      <3>1. i \in Items
        BY <1>5, EntriesAreItems DEF Finish, RunRows, Running
      <3>2. entry[t][i] \notin {"claimed", "create", "publish", "mark", "todo"}
        BY <1>5, <2>2, <3>1 DEF Finish, Joined
      <3> QED BY <3>1, <3>2 DEF TypeOK, EntrySteps, Over
    <2>3. CASE Sick(t)
      BY <1>5, <2>1, <2>3, GotoAside DEF Finish, RunSteps
    <2>4. CASE ~Sick(t)
      BY <1>5, <2>1, <2>2, <2>4, GotoAside DEF Finish, RunSteps
    <2> QED BY <2>3, <2>4
  <1>6. ASSUME NEW t \in Deliveries, Ack(t) \/ Nack(t) \/ Crash(t) PROVE Aside
    BY <1>6, LeaveAside DEF Ack, Nack, Crash
  <1>7. ASSUME NEW t \in Deliveries, Expire(t) \/ LoseChannel(t) PROVE Aside
    <2>1. \A u \in Deliveries : /\ run'[u].at = run[u].at /\ run'[u].row = run[u].row
                                /\ run[u].expired => run'[u].expired
      <3>1. run \in [Deliveries -> Runs]
        BY DEF TypeOK, Runs
      <3>2. CASE run' = [run EXCEPT ![t].expired = TRUE]
        BY <3>1, <3>2 DEF Runs
      <3>3. CASE run' = [run EXCEPT ![t].live = FALSE]
        BY <3>1, <3>3 DEF Runs
      <3> QED BY <1>7, <3>2, <3>3 DEF Expire, LoseChannel
    <2>2. entry' = entry /\ UNCHANGED <<status, published, history>>
      BY <1>7 DEF Expire, LoseChannel
    <2>3. \A u \in Deliveries : Continues(u) /\ Running(u)' = Running(u)
      BY <2>1, <2>2 DEF Continues, Running, Sick
    <2>4. Alone => Alone'
      BY <2>2, <2>3 DEF Alone, history
    <2> QED BY <2>2, <2>3, <2>4 DEF Aside, RowsStay, history
  <1>8. ASSUME NEW r \in published, ChildFails(r) PROVE Aside
    <2>1. RowsStay
      BY <1>8 DEF ChildFails, RowsStay, TypeOK
    <2>2. (\A u \in Deliveries : Continues(u)) /\ (Alone => Alone')
      BY <1>8 DEF ChildFails, Continues, Alone, Running, Sick
    <2> QED BY <1>8, <2>1, <2>2 DEF ChildFails, Aside
  <1>9. CASE UNCHANGED vars
    BY <1>9 DEF vars, Aside, RowsStay, Continues, Alone, Running, Sick
  <1> QED BY <1>1, <1>2, <1>3, <1>4, <1>5, <1>6, <1>7, <1>8, <1>9 DEF Next, Handle

-----------------------------------------------------------------------------
(* No entry vanishes.                                                        *)

\* The bytes of entry i are in the catalogue, or will be or fail with another
\* entry that has them.
Covered(t, i) == \/ Known(i)
                 \/ \E k \in Entries(t) : /\ Hash[k] = Hash[i]
                                          /\ entry[t][k] \in {"claimed", "create", "failed"}

\* What becomes of an entry is true to it.
Sound(t, i) ==
    /\ entry[t][i] # "todo" => Running(t) /\ i \in Entries(t)
    /\ entry[t][i] \in {"publish", "mark", "registered"} => status[<<i, t>>] # "none"
    /\ entry[t][i] = "skipped" => i \in Junk
    /\ entry[t][i] = "duplicate" => Hash[i] # NoHash /\ Covered(t, i)
    /\ run[t].at = "report" /\ i \in Entries(t) => entry[t][i] \in Over

VanishInv == TypeInv /\ \A t \in Deliveries, i \in Items : Sound(t, i)

LEMMA RowOf == ASSUME NEW i \in Items, NEW t \in Deliveries PROVE <<i, t>> \in Rows
  BY ArchiveAssumption DEF Rows, Deliveries

(* Rows that stay keep what is known.                                        *)
LEMMA KnownStays ==
    ASSUME RowsStay, NEW i, Known(i) PROVE Known(i)'
  BY DEF RowsStay, Known

(* A step of an entry keeps the others covered.                              *)
LEMMA EntryKeeps ==
    ASSUME VanishInv, NEW t \in Deliveries, run[t].at = "unpack",
           NEW i \in Entries(t), NEW from, NEW to \in EntrySteps \ {"todo"},
           EntryStep(t, i, from, to), UNCHANGED run, RowsStay,
           from \in {"claimed", "create", "failed"} =>
              to \in {"claimed", "create", "failed"} \/ Known(i)',
           to \in {"publish", "mark", "registered"} => status'[<<i, t>>] # "none",
           to = "skipped" => i \in Junk,
           to = "duplicate" => Hash[i] # NoHash /\ (Covered(t, i) \/ Known(i)')
    PROVE  \A u \in Deliveries, k \in Items : Sound(u, k)'
  <1> USE DEF VanishInv, TypeInv
  <1>0. Entries(t) \subseteq Items
    BY EntriesAreItems DEF RunRows, Running
  <1>1. /\ entry[t][i] = from /\ entry'[t][i] = to
        /\ \A k \in Items \ {i} : entry'[t][k] = entry[t][k]
        /\ \A u \in Deliveries \ {t} : entry'[u] = entry[u]
    BY <1>0, EntryEffect
  <1>2. /\ \A u \in Deliveries : Running(u)' = Running(u) /\ Entries(u)' = Entries(u)
        /\ Running(t) /\ run'[t].at # "report"
    BY DEF Running, Entries, Archive
  <1>3. ASSUME NEW u \in Deliveries, NEW k \in Items, Covered(u, k) PROVE Covered(u, k)'
    <2>1. CASE Known(k)
      BY <2>1, KnownStays DEF Covered
    <2>2. ASSUME NEW e \in Entries(u), Hash[e] = Hash[k],
                 entry[u][e] \in {"claimed", "create", "failed"}
          PROVE  Covered(u, k)'
      <3>1. CASE u = t /\ e = i /\ Known(i)'
        BY <2>2, <3>1 DEF Covered, Known
      <3>2. CASE u = t /\ e = i /\ to \in {"claimed", "create", "failed"}
        BY <1>1, <1>2, <2>2, <3>2 DEF Covered
      <3>3. CASE u = t /\ e # i
        BY <1>0, <1>1, <1>2, <2>2, <3>3 DEF Covered
      <3>4. CASE u # t
        BY <1>1, <1>2, <2>2, <3>4 DEF Covered
      <3> QED BY <1>1, <2>2, <3>1, <3>2, <3>3, <3>4
    <2> QED BY <1>3, <2>1, <2>2 DEF Covered
  <1>4. Sound(t, i)'
    BY <1>0, <1>1, <1>2, <1>3 DEF Sound, Covered
  <1>5. ASSUME NEW u \in Deliveries, NEW k \in Items, u # t \/ k # i PROVE Sound(u, k)'
    <2>1. Sound(u, k) /\ entry'[u][k] = entry[u][k] /\ <<k, u>> \in Rows
      BY <1>1, <1>5, RowOf
    <2> QED BY <1>2, <1>3, <2>1 DEF Sound, RowsStay
  <1> QED BY <1>4, <1>5

\* The entry the loop has seen covers the next one with its bytes.
LEMMA SeenCovers ==
    ASSUME VanishInv, NEW t \in Deliveries, run[t].at = "unpack", NEW i \in Entries(t), Seen(t, i)
    PROVE  Hash[i] # NoHash /\ Covered(t, i)
  <1> USE DEF VanishInv, TypeInv
  <1> SUFFICES Covered(t, i)
    BY DEF Seen
  <1>0. Entries(t) \subseteq Items
    BY EntriesAreItems DEF RunRows, Running
  <1>1. PICK k \in Entries(t) : Hash[k] = Hash[i] /\ entry[t][k] \notin {"todo", "skipped"}
    BY DEF Seen
  <1>2. Sound(t, k) /\ <<k, t>> \in Rows /\ entry[t][k] \in EntrySteps
    BY <1>0, RowOf DEF TypeOK
  <1>3. CASE entry[t][k] \in {"publish", "mark", "registered"}
    <2>1. status[<<k, t>>] # "none" /\ Hash[<<k, t>>[1]] = Hash[i]
      BY <1>1, <1>2, <1>3 DEF Sound
    <2>2. Known(i)
      BY <1>2, <2>1 DEF Known
    <2> QED BY <2>2 DEF Covered
  <1>4. CASE entry[t][k] = "duplicate"
    <2>1. Covered(t, k)
      BY <1>2, <1>4 DEF Sound
    <2> QED BY <1>1, <2>1 DEF Covered, Known
  <1>5. CASE entry[t][k] \in {"claimed", "create", "failed"}
    BY <1>1, <1>5 DEF Covered
  <1>6. entry[t][k] \in {"publish", "mark", "registered", "duplicate", "claimed", "create", "failed"}
    BY <1>1, <1>2 DEF EntrySteps
  <1> QED BY <1>3, <1>4, <1>5, <1>6

LEMMA VanishStep == ASSUME VanishInv, [Next]_vars PROVE VanishInv'
  <1> USE DEF VanishInv, TypeInv
  <1>0. TypeInv'
    BY TypeStep
  <1> SUFFICES \A t \in Deliveries, i \in Items : Sound(t, i)'
    BY <1>0
  <1>1. ASSUME NEW t \in Deliveries, run[t].at = "unpack", Claim(t)
        PROVE  \A u \in Deliveries, k \in Items : Sound(u, k)'
    <2>1. PICK i \in Entries(t) :
            EntryStep(t, i, "todo", IF i \in Junk THEN "skipped"
                                    ELSE IF Seen(t, i) THEN "duplicate" ELSE "claimed")
      BY <1>1 DEF Claim
    <2>2. RowsStay
      BY <1>1 DEF Claim, RowsStay
    <2>3. CASE i \in Junk
      BY <1>1, <2>1, <2>2, <2>3, EntryKeeps DEF Claim, EntrySteps
    <2>4. CASE i \notin Junk /\ Seen(t, i)
      <3>1. Hash[i] # NoHash /\ Covered(t, i)
        BY <1>1, <2>4, SeenCovers
      <3> QED BY <1>1, <2>1, <2>2, <2>4, <3>1, EntryKeeps DEF Claim, EntrySteps
    <2>5. CASE i \notin Junk /\ ~Seen(t, i)
      BY <1>1, <2>1, <2>2, <2>5, EntryKeeps DEF Claim, EntrySteps
    <2> QED BY <2>3, <2>4, <2>5
  <1>2. ASSUME NEW t \in Deliveries, run[t].at = "unpack", NEW i \in Entries(t), Register(t, i)
        PROVE  \A u \in Deliveries, k \in Items : Sound(u, k)'
    <2>0. i \in Items /\ <<i, t>> \in Rows /\ status \in [Rows -> RowStatuses]
      BY <1>2, EntriesAreItems, RowOf DEF RunRows, Running, TypeOK
    <2>1. CASE Lookup(t, i)
      <3>1. RowsStay /\ (Known(i) => Known(i)')
        BY <2>1 DEF Lookup, RowsStay, Known
      <3>2. Found(i) => Hash[i] # NoHash /\ Known(i)
        BY DEF Found, Known
      <3>3. CASE Found(i) /\ EntryStep(t, i, "claimed", "duplicate")
        BY <1>2, <2>1, <3>1, <3>2, <3>3, EntryKeeps DEF Lookup, EntrySteps
      <3>4. CASE EntryStep(t, i, "claimed", "create")
        BY <1>2, <2>1, <3>1, <3>4, EntryKeeps DEF Lookup, EntrySteps
      <3> QED BY <2>1, <3>3, <3>4 DEF Lookup
    <2>2. CASE Create(t, i)
      <3>1. status' \in {status, [status EXCEPT ![<<i, t>>] = "uploaded"]}
        BY <2>2 DEF Create
      <3>2. RowsStay
        BY <2>0, <3>1 DEF RowsStay
      <3>3. CASE EntryStep(t, i, "create", "publish") /\ status' = [status EXCEPT ![<<i, t>>] = "uploaded"]
        <4>1. status'[<<i, t>>] # "none" /\ Hash[<<i, t>>[1]] = Hash[i]
          BY <2>0, <3>3
        <4>2. Known(i)'
          BY <2>0, <4>1 DEF Known
        <4> QED BY <1>2, <2>2, <3>2, <3>3, <4>1, <4>2, EntryKeeps DEF Create, EntrySteps
      <3>4. CASE EntryStep(t, i, "create", "failed")
        BY <1>2, <2>2, <3>2, <3>4, EntryKeeps DEF Create, EntrySteps
      <3> QED BY <2>2, <3>3, <3>4 DEF Create
    <2>3. CASE Publish(t, i)
      <3>1. RowsStay /\ status' = status
        BY <2>3 DEF Publish, RowsStay
      <3>2. entry[t][i] = "publish" => status[<<i, t>>] # "none"
        BY <2>0 DEF Sound
      <3>3. CASE EntryStep(t, i, "publish", "mark")
        <4>1. status'[<<i, t>>] # "none"
          BY <3>1, <3>2, <3>3 DEF EntryStep
        <4> QED BY <1>2, <2>3, <3>1, <3>3, <4>1, EntryKeeps DEF Publish, EntrySteps
      <3>4. CASE EntryStep(t, i, "publish", "failed")
        BY <1>2, <2>3, <3>1, <3>4, EntryKeeps DEF Publish, EntrySteps
      <3> QED BY <2>3, <3>3, <3>4 DEF Publish
    <2>4. CASE Mark(t, i)
      <3>1. SetStatus(<<i, t>>, "queued", Sick(t)) /\ UNCHANGED givenUp
        BY <2>4 DEF Mark, history
      <3>2. RowsStay
        BY <2>0, <3>1, SetStatusStays DEF RowStatuses
      <3>3. status[<<i, t>>] # "none"
        BY <2>0, <2>4 DEF Sound, Mark, EntryStep
      <3>4. status'[<<i, t>>] # "none"
        BY <2>0, <3>2, <3>3 DEF RowsStay
      <3> QED BY <1>2, <2>4, <3>2, <3>4, EntryKeeps DEF Mark, EntrySteps
    <2> QED BY <1>2, <2>1, <2>2, <2>3, <2>4 DEF Register
  <1>3. CASE Aside
    <2> SUFFICES ASSUME NEW t \in Deliveries, NEW i \in Items PROVE Sound(t, i)'
      OBVIOUS
    <2>1. <<i, t>> \in Rows /\ Sound(t, i)
      BY RowOf
    <2>2. CASE entry'[t] = NoEntries /\ ~Running(t)'
      BY <2>2 DEF Sound, NoEntries, Running
    <2>3. CASE entry'[t] = entry[t] /\ Running(t) /\ Running(t)'
      <3>1. run'[t].row = run[t].row
        BY <1>3, <2>3 DEF Aside, Continues
      <3>2. Entries(t)' = Entries(t)
        BY <3>1 DEF Entries, Archive
      <3>3. Covered(t, i) => Covered(t, i)'
        BY <1>3, <2>3, <3>2, KnownStays DEF Covered, Aside
      <3>4. run'[t].at = "report" => \/ run[t].at = "report"
                                     \/ \A k \in Entries(t) : entry[t][k] \in Over
        BY <1>3, <2>3 DEF Aside, Continues
      <3>5. status'[<<i, t>>] = "none" => status[<<i, t>>] = "none"
        BY <1>3, <2>1 DEF Aside, RowsStay
      <3> QED BY <2>1, <2>3, <3>1, <3>2, <3>3, <3>4, <3>5 DEF Sound
    <2>4. CASE entry'[t] = entry[t] /\ ~Running(t)
      <3>1. entry[t][i] = "todo"
        BY <2>1, <2>4 DEF Sound
      <3>2. run'[t].at = "report" => FALSE
        BY <1>3, <2>4 DEF Aside, Continues, Running
      <3> QED BY <2>4, <3>1, <3>2 DEF Sound
    <2> QED BY <1>3, <2>2, <2>3, <2>4 DEF Aside, Continues
  <1> QED BY <1>1, <1>2, <1>3, StepAside

(* No entry of an archive that reports to be unpacked has vanished, whatever *)
(* was interrupted, duplicate or failed.                                     *)
THEOREM NothingVanishes == Spec => []NoEntryVanishes
  <1>1. Init => VanishInv
    <2> SUFFICES ASSUME Init PROVE VanishInv
      OBVIOUS
    <2>1. \A t \in Deliveries, i \in Items : Sound(t, i)
      BY DEF Init, Sound, NoEntries, NoRun
    <2> QED BY <2>1, TypeInit DEF VanishInv
  <1>2. VanishInv => NoEntryVanishes
    <2> SUFFICES ASSUME VanishInv, NEW t \in Deliveries, run[t].at = "report",
                        NEW i \in Entries(t) \ Junk
                 PROVE  \/ \E r \in Rows : r[1] = i /\ status[r] # "none"
                        \/ Hash[i] # NoHash /\ Known(i)
                        \/ Counted(t, i)
      BY DEF NoEntryVanishes
    <2> USE DEF VanishInv, TypeInv
    <2>0. Entries(t) \subseteq Items
      BY EntriesAreItems DEF RunRows, Running
    <2>1. \A k \in Entries(t) : Sound(t, k) /\ entry[t][k] \in Over
      BY <2>0 DEF Sound
    <2>2. CASE entry[t][i] = "registered"
      <3>1. <<i, t>> \in Rows /\ status[<<i, t>>] # "none"
        BY <2>0, <2>1, <2>2, RowOf DEF Sound
      <3> QED BY <3>1
    <2>3. CASE entry[t][i] = "failed"
      BY <2>3 DEF Counted
    <2>4. CASE entry[t][i] = "duplicate"
      BY <2>1, <2>4 DEF Sound, Covered, Counted, Over
    <2>5. CASE entry[t][i] = "skipped"
      BY <2>1, <2>5 DEF Sound
    <2> QED BY <2>1, <2>2, <2>3, <2>4, <2>5 DEF Over
  <1> QED BY <1>1, <1>2, VanishStep, PTL DEF Spec

-----------------------------------------------------------------------------
(* Identical files are indexed once.                                         *)

\* The rows that are in the pipeline as files.
Piped == {r \in published \ givenUp : r[1] \notin Archives}

\* Nothing with the bytes of i is in the pipeline.
Unlisted(i) == \A r \in Piped : Hash[r[1]] # Hash[i]

\* Published rows exist, and only the pipeline fails a file.
RowsTrue == /\ \A r \in published : status[r] # "none"
            /\ \A r \in Rows : r[1] \notin Archives /\ status[r] = "failed" => r \in givenUp

\* Of entries with the same bytes the loop has started one only.
Distinct == \A t \in Deliveries, i, k \in Items :
    /\ i # k /\ Hash[i] = Hash[k] /\ Hash[i] # NoHash
    => ~(entry[t][i] \in Begun /\ entry[t][k] \in Begun)

\* An entry that will still be published is the first with its bytes.
First == \A t \in Deliveries, i \in Items :
    /\ i \notin Archives /\ Hash[i] # NoHash
    /\ entry[t][i] = "publish" \/ (entry[t][i] = "create" /\ ~Sick(t))
    => Unlisted(i)

Once == \A q, r \in Piped : Hash[q[1]] = Hash[r[1]] /\ Hash[q[1]] # NoHash => q = r

OnceInv == /\ VanishInv /\ Alone /\ RowsTrue /\ Distinct
           /\ ~overlapped /\ LookupsAnswer => First /\ Once

(* Steps that register nothing.                                              *)
LEMMA AsideOnce ==
    ASSUME OnceInv, Aside, TypeInv'
    PROVE  Alone' /\ RowsTrue' /\ Distinct'
           /\ (~overlapped' /\ LookupsAnswer => First' /\ Once')
  <1> USE DEF OnceInv, VanishInv
  <1>1. Alone'
    BY DEF Aside
  <1>2. RowsTrue'
    BY DEF Aside, RowsStay, RowsTrue, TypeInv, TypeOK
  <1>3. \A t \in Deliveries, i \in Items : entry'[t][i] \in {entry[t][i], "todo"}
    BY DEF Aside, Continues, NoEntries
  <1>4. Distinct'
    BY <1>3 DEF Distinct, Begun
  <1>5. Piped' \subseteq Piped
    BY DEF Aside, Piped
  <1>6. ASSUME ~overlapped', LookupsAnswer PROVE First' /\ Once'
    <2>1. First /\ Once
      BY <1>6 DEF Aside
    <2>2. Once'
      BY <1>5, <2>1 DEF Once
    <2>3. ASSUME NEW t \in Deliveries, NEW i \in Items, i \notin Archives, Hash[i] # NoHash,
                 entry'[t][i] = "publish" \/ (entry'[t][i] = "create" /\ ~Sick(t)')
          PROVE  Unlisted(i)'
      <3>1. entry'[t][i] = entry[t][i] /\ entry[t][i] # "todo"
        BY <1>3, <2>3
      <3>2. Running(t)
        BY <3>1 DEF Sound
      <3>3. Sick(t) => Sick(t)'
        BY <2>3, <3>2 DEF Aside, Continues, NoEntries
      <3>4. Unlisted(i)
        BY <2>1, <2>3, <3>1, <3>3 DEF First
      <3> QED BY <1>5, <3>4 DEF Unlisted
    <2> QED BY <2>2, <2>3 DEF First
  <1> QED BY <1>1, <1>2, <1>4, <1>6

(* A step of an entry that publishes nothing.                                *)
LEMMA EntryOnce ==
    ASSUME OnceInv, NEW t \in Deliveries, NEW i \in Items, NEW from, NEW to,
           EntryStep(t, i, from, to), UNCHANGED <<published, run, history>>, RowsStay,
           to \in Begun /\ from \notin Begun =>
              \A k \in Items \ {i} : Hash[k] = Hash[i] /\ Hash[i] # NoHash => entry[t][k] \notin Begun,
           LookupsAnswer /\ ~overlapped /\ i \notin Archives /\ Hash[i] # NoHash
              /\ (to = "publish" \/ (to = "create" /\ ~Sick(t))) => Unlisted(i)
    PROVE  Alone' /\ RowsTrue' /\ Distinct'
           /\ (~overlapped' /\ LookupsAnswer => First' /\ Once')
  <1> USE DEF OnceInv, VanishInv
  <1>1. /\ entry[t][i] = from /\ entry'[t][i] = to
        /\ \A k \in Items \ {i} : entry'[t][k] = entry[t][k]
        /\ \A u \in Deliveries \ {t} : entry'[u] = entry[u]
    BY EntryEffect DEF TypeInv
  <1>2. Alone' /\ (\A u \in Deliveries : Sick(u)' = Sick(u))
    BY DEF Alone, history, Running, Sick
  <1>3. RowsTrue'
    BY DEF RowsStay, RowsTrue, TypeInv, TypeOK, history
  <1>4. Distinct'
    <2> SUFFICES ASSUME NEW u \in Deliveries, NEW j \in Items, NEW k \in Items, j # k,
                        Hash[j] = Hash[k], Hash[j] # NoHash,
                        entry'[u][j] \in Begun, entry'[u][k] \in Begun
                 PROVE  FALSE
      BY DEF Distinct
    <2>1. CASE u # t \/ (j # i /\ k # i) \/ from \in Begun
      BY <1>1, <2>1 DEF Distinct
    <2>2. CASE u = t /\ j = i /\ from \notin Begun
      BY <1>1, <2>2
    <2>3. CASE u = t /\ k = i /\ from \notin Begun
      BY <1>1, <2>3
    <2> QED BY <2>1, <2>2, <2>3
  <1>5. Piped' = Piped /\ overlapped' = overlapped /\ \A j : Unlisted(j)' = Unlisted(j)
    BY DEF Piped, Unlisted, history
  <1>6. ASSUME ~overlapped, LookupsAnswer PROVE First' /\ Once'
    <2>1. First /\ Once
      BY <1>6
    <2>2. Once'
      BY <1>5, <2>1 DEF Once
    <2>3. First'
      BY <1>1, <1>2, <1>5, <1>6, <2>1 DEF First
    <2> QED BY <2>2, <2>3
  <1> QED BY <1>2, <1>3, <1>4, <1>5, <1>6

(* An entry is published: no other with its bytes is in the pipeline, and    *)
(* none follows.                                                             *)
LEMMA PublishOnce ==
    ASSUME OnceInv, NEW t \in Deliveries, NEW i \in Items, Publish(t, i), Sent(t, i)
    PROVE  Alone' /\ RowsTrue' /\ Distinct'
           /\ (~overlapped' /\ LookupsAnswer => First' /\ Once')
  <1> USE DEF OnceInv, VanishInv
  <1>1. PICK to \in {"mark", "failed"} : EntryStep(t, i, "publish", to)
    BY DEF Publish
  <1>2. /\ entry[t][i] = "publish" /\ entry'[t][i] = to
        /\ \A k \in Items \ {i} : entry'[t][k] = entry[t][k]
        /\ \A u \in Deliveries \ {t} : entry'[u] = entry[u]
    BY <1>1, EntryEffect DEF TypeInv
  <1>3. /\ published' = published \cup {<<i, t>>}
        /\ UNCHANGED <<status, run, givenUp, overlapped>>
    BY DEF Publish, Sent, history
  <1>4. Alone' /\ (\A u \in Deliveries : Sick(u)' = Sick(u))
    BY <1>3 DEF Alone, Running, Sick
  <1>5. RowsTrue'
    <2>1. status[<<i, t>>] # "none"
      BY <1>2 DEF Sound
    <2> QED BY <1>3, <2>1 DEF RowsTrue
  <1>6. Distinct'
    BY <1>2 DEF Distinct, Begun
  <1>7. ASSUME ~overlapped', LookupsAnswer PROVE First' /\ Once'
    <2>0. First /\ Once /\ Running(t) /\ ~overlapped
      BY <1>2, <1>3, <1>7 DEF Sound
    <2>1. CASE i \in Archives
      <3>1. Piped' = Piped
        BY <1>3, <2>1 DEF Piped
      <3> QED BY <1>2, <1>4, <2>0, <3>1 DEF First, Once, Unlisted
    <2>2. CASE i \notin Archives
      <3>1. Piped' \subseteq Piped \cup {<<i, t>>}
        BY <1>3 DEF Piped
      <3>2. Hash[i] # NoHash => Unlisted(i)
        BY <1>2, <2>0, <2>2 DEF First
      <3>3. Once'
        BY <3>1, <3>2, <2>0 DEF Once, Unlisted
      <3>4. ASSUME NEW u \in Deliveries, NEW k \in Items, k \notin Archives, Hash[k] # NoHash,
                   entry'[u][k] = "publish" \/ (entry'[u][k] = "create" /\ ~Sick(u)')
            PROVE  Unlisted(k)'
        <4>1. u # t => entry'[u][k] = entry[u][k] /\ Running(u)
          BY <1>2, <3>4 DEF Sound
        <4>2. u = t
          BY <2>0, <4>1 DEF Alone
        <4>3. k # i
          BY <1>2, <3>4, <4>2
        <4>4. entry'[t][k] = entry[t][k]
          BY <1>2, <4>3
        <4>5. Hash[k] # Hash[i]
          BY <1>2, <3>4, <4>2, <4>3, <4>4 DEF Distinct, Begun
        <4>6. Unlisted(k)
          BY <1>4, <2>0, <3>4, <4>2, <4>4 DEF First
        <4> QED BY <3>1, <4>5, <4>6 DEF Unlisted
      <3> QED BY <3>3, <3>4 DEF First
    <2> QED BY <2>1, <2>2
  <1> QED BY <1>4, <1>5, <1>6, <1>7

LEMMA OnceStep == ASSUME OnceInv, [Next]_vars PROVE OnceInv'
  <1> USE DEF OnceInv, VanishInv, TypeInv
  <1>0. VanishInv'
    BY VanishStep
  <1> DEFINE Goal == /\ Alone' /\ RowsTrue' /\ Distinct'
                     /\ ~overlapped' /\ LookupsAnswer => First' /\ Once'
  <1> SUFFICES Goal
    BY <1>0
  <1>1. ASSUME NEW t \in Deliveries, run[t].at = "unpack", Claim(t) PROVE Goal
    <2>0. Entries(t) \subseteq Items
      BY <1>1, EntriesAreItems DEF RunRows, Running
    <2>1. PICK i \in Entries(t) :
            EntryStep(t, i, "todo", IF i \in Junk THEN "skipped"
                                    ELSE IF Seen(t, i) THEN "duplicate" ELSE "claimed")
      BY <1>1 DEF Claim
    <2>2. RowsStay /\ UNCHANGED <<published, run, history>>
      BY <1>1 DEF Claim, RowsStay
    <2>3. CASE i \in Junk \/ Seen(t, i)
      <3>1. PICK to \in {"skipped", "duplicate"} : EntryStep(t, i, "todo", to)
        BY <2>1, <2>3
      <3> QED BY <2>0, <2>2, <3>1, EntryOnce DEF Begun
    <2>4. CASE i \notin Junk /\ ~Seen(t, i)
      <3>1. EntryStep(t, i, "todo", "claimed")
        BY <2>1, <2>4
      <3>2. ASSUME NEW k \in Items \ {i}, Hash[k] = Hash[i], Hash[i] # NoHash
            PROVE  entry[t][k] \notin Begun
        BY <2>4, <3>2 DEF Seen, Sound, Begun
      <3> QED BY <2>0, <2>2, <3>1, <3>2, EntryOnce
    <2> QED BY <2>3, <2>4
  <1>2. ASSUME NEW t \in Deliveries, run[t].at = "unpack", NEW i \in Entries(t), Register(t, i)
        PROVE  Goal
    <2>0. i \in Items /\ <<i, t>> \in Rows /\ status \in [Rows -> RowStatuses]
      BY <1>2, EntriesAreItems, RowOf DEF RunRows, Running, TypeOK
    <2>1. CASE Lookup(t, i)
      <3>1. RowsStay /\ UNCHANGED <<published, run, history>>
        BY <2>1 DEF Lookup, RowsStay
      <3>2. CASE EntryStep(t, i, "claimed", "duplicate")
        BY <2>0, <3>1, <3>2, EntryOnce DEF Begun
      <3>3. CASE ~Found(i) /\ EntryStep(t, i, "claimed", "create")
        <4>1. Hash[i] # NoHash => Unlisted(i)
          BY <3>3 DEF Found, Unlisted, Piped, RowsTrue, TypeOK
        <4> QED BY <2>0, <3>1, <3>3, <4>1, EntryOnce DEF Begun
      <3>4. CASE Fails(t, "lookup", i) /\ EntryStep(t, i, "claimed", "create")
        BY <2>0, <3>1, <3>4, EntryOnce DEF Begun, Fails, LookupsAnswer
      <3> QED BY <2>1, <3>2, <3>3, <3>4 DEF Lookup
    <2>2. CASE Create(t, i)
      <3>1. /\ status' \in {status, [status EXCEPT ![<<i, t>>] = "uploaded"]}
            /\ UNCHANGED <<published, run, history>>
        BY <2>2 DEF Create
      <3>2. RowsStay
        BY <2>0, <3>1 DEF RowsStay
      <3>3. CASE ~Sick(t) /\ EntryStep(t, i, "create", "publish")
        <4>1. entry[t][i] = "create"
          BY <3>3 DEF EntryStep
        <4>2. LookupsAnswer /\ ~overlapped /\ i \notin Archives /\ Hash[i] # NoHash
                => Unlisted(i)
          BY <2>0, <3>3, <4>1 DEF First
        <4> QED BY <2>0, <3>1, <3>2, <3>3, <4>2, EntryOnce DEF Begun
      <3>4. CASE EntryStep(t, i, "create", "failed")
        BY <2>0, <3>1, <3>2, <3>4, EntryOnce DEF Begun
      <3> QED BY <2>2, <3>3, <3>4 DEF Create
    <2>3. CASE Publish(t, i) /\ Sent(t, i)
      BY <2>0, <2>3, PublishOnce
    <2>4. CASE Publish(t, i) /\ UNCHANGED <<published, queue>>
      <3>1. RowsStay /\ UNCHANGED <<published, run, history>>
        BY <2>4 DEF Publish, RowsStay
      <3>2. PICK to \in {"mark", "failed"} : EntryStep(t, i, "publish", to)
        BY <2>4 DEF Publish
      <3> QED BY <2>0, <3>1, <3>2, EntryOnce DEF Begun
    <2>5. CASE Mark(t, i)
      <3>1. SetStatus(<<i, t>>, "queued", Sick(t)) /\ UNCHANGED <<published, run, history>>
        BY <2>5 DEF Mark
      <3>2. RowsStay
        BY <2>0, <3>1, SetStatusStays DEF RowStatuses, history
      <3>3. EntryStep(t, i, "mark", "registered")
        BY <2>5 DEF Mark
      <3> QED BY <2>0, <3>1, <3>2, <3>3, EntryOnce DEF Begun
    <2> QED BY <1>2, <2>1, <2>2, <2>3, <2>4, <2>5 DEF Register, Publish
  <1>3. CASE Aside
    BY <1>0, <1>3, AsideOnce
  <1> QED BY <1>1, <1>2, <1>3, StepAside

(* Files with the same bytes are never in the pipeline together, however     *)
(* often their archive is delivered, while lookups answer and no two         *)
(* deliveries run side by side.                                              *)
THEOREM NeverTwice == Spec => []IndexedOnce
  <1>1. Init => OnceInv
    <2> SUFFICES ASSUME Init PROVE OnceInv
      OBVIOUS
    <2>1. \A t \in Deliveries, i \in Items : Sound(t, i)
      BY DEF Init, Sound, NoEntries, NoRun
    <2>2. Alone
      BY DEF Init, Alone, Running, NoRun
    <2>3. RowsTrue
      <3>1. RootRow \in Rows
        BY ArchiveAssumption DEF RootRow, Rows
      <3> QED BY <3>1, CatalogueIsRows DEF Init, RowsTrue
    <2>4. Distinct /\ First
      BY DEF Init, Distinct, First, NoEntries, Begun
    <2>5. Once
      <3>1. Piped \subseteq Catalogue
        BY ArchiveAssumption DEF Init, Piped, RootRow
      <3>2. \A q, r \in Catalogue :
                Hash[q[1]] = Hash[r[1]] /\ Hash[q[1]] # NoHash => q = r
        BY ArchiveAssumption DEF Catalogue
      <3> QED BY <3>1, <3>2 DEF Once
    <2> QED BY <2>1, <2>2, <2>3, <2>4, <2>5, TypeInit DEF OnceInv, VanishInv
  <1>2. OnceInv => IndexedOnce
    BY DEF OnceInv, Once, Piped, IndexedOnce
  <1> QED BY <1>1, <1>2, OnceStep, PTL DEF Spec
=============================================================================
