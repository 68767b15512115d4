------------------------ MODULE GpuScheduler_proofs -------------------------
(***************************************************************************)
(* Proofs about GpuScheduler for every set of jobs, devices, workers and   *)
(* clients, every number of attempts and every choice of failures.         *)
(***************************************************************************)
EXTENDS GpuScheduler, FiniteSetTheorems, TLAPS

-----------------------------------------------------------------------------
(* Facts about the helpers *)

(* An attempt number is a positive natural number, since the rows of a job *)
(* are finitely many.                                                      *)
LEMMA AttemptPositive == \A j \in Jobs : Attempt(j) \in Nat \ {0}
<1> SUFFICES ASSUME NEW j \in Jobs PROVE Attempt(j) \in Nat \ {0}
  OBVIOUS
<1> DEFINE S == {n \in 1..MaxAttempts : runStatus[<<j, n>>] # "absent"}
<1>1. IsFiniteSet(1..MaxAttempts)
  BY FS_Interval, FiniteAssumption
<1>2. IsFiniteSet(S)
  BY <1>1, FS_Subset
<1>3. Cardinality(S) \in Nat
  BY <1>2, FS_CardinalityType
<1> QED BY <1>3 DEF Attempt

(* The run that a tick would create for a queued job is a run of that job  *)
(* within the bound.                                                       *)
LEMMA NewRunIsRun == \A j \in Queued : NewRun(j) \in Runs /\ JobOf(NewRun(j)) = j
  BY AttemptPositive, FiniteAssumption DEF Queued, NewRun, Runs, JobOf

(* The first component of a run is a job. *)
LEMMA JobOfRun == \A r \in Runs : JobOf(r) \in Jobs
  BY DEF Runs, JobOf

(* An element of Append(s, x) is x, at the end, or the element of s at the *)
(* same place.                                                             *)
LEMMA AppendedElement ==
  ASSUME NEW R, NEW s \in Seq(R), NEW x \in R, NEW i \in 1..Len(Append(s, x))
  PROVE  \/ i = Len(s) + 1 /\ Append(s, x)[i] = x
         \/ i \in 1..Len(s) /\ Append(s, x)[i] = s[i]
<1>1. Len(Append(s, x)) = Len(s) + 1 /\ Len(s) \in Nat
  OBVIOUS
<1>2. CASE i = Len(s) + 1
  BY <1>2
<1>3. CASE i # Len(s) + 1
  <2>1. i \in 1..Len(s)
    BY <1>1, <1>3
  <2> QED BY <2>1
<1> QED BY <1>2, <1>3

(* An element of the tail of s is the element of s one place further on. *)
LEMMA RestElement ==
  ASSUME NEW R, NEW s \in Seq(R), s # <<>>, NEW i \in 1..Len(Tail(s))
  PROVE  i + 1 \in 1..Len(s) /\ Tail(s)[i] = s[i + 1]
<1>1. Len(s) \in Nat \ {0} /\ Len(Tail(s)) = Len(s) - 1
  OBVIOUS
<1> QED BY <1>1

-----------------------------------------------------------------------------
(* Type correctness *)

(* The transaction in progress.  Even the types rest on it: it creates the *)
(* rows of jobs that are queued, and so they are still because it holds    *)
(* their rows.                                                             *)
BatchQueued == batch \subseteq Queued /\ DOMAIN found \subseteq batch

(* The types of what the components keep; the history is not one of them. *)
PartsOK == StoreTypeOK /\ SchedulerTypeOK /\ WorkerTypeOK /\ ApiTypeOK

(* The empty database, no process running, is well typed. *)
LEMMA InitTypeOK == Init => TypeOK
<1> SUFFICES ASSUME Init PROVE TypeOK
  OBVIOUS
<1>1. StoreTypeOK /\ WorkerTypeOK /\ ApiTypeOK
  BY EnvironmentAssumption
  DEF Init, StoreInit, WorkerInit, ApiInit, StoreTypeOK, WorkerTypeOK, ApiTypeOK, RequestStates,
      JobStatuses, RunStatuses, WorkerStatuses, ContainerStates, WorkerPcs, Executing, Idle
<1>2. DOMAIN NoneFound = {} /\ NoneFound \in [{} -> SUBSET Gpus] /\ {} \in SUBSET Jobs
  BY DEF NoneFound
<1>3. found \in UNION {[S -> SUBSET Gpus] : S \in SUBSET Jobs}
  BY <1>2 DEF Init, SchedulerInit
<1>4. SchedulerTypeOK /\ missed \in [DOMAIN found -> SUBSET Gpus]
  BY <1>2, <1>3 DEF Init, SchedulerInit, SchedulerTypeOK
<1> QED BY <1>1, <1>4 DEF TypeOK

(* A worker that is neither down nor idle has a run in its hands. *)
LEMMA HandIsRun ==
  ASSUME WorkerTypeOK, NEW w \in Workers, pc[w] \notin {"down", "idle"}
  PROVE  hand[w] \in Runs
  BY DEF WorkerTypeOK

(* Closing the allocations of a run keeps the types of the allocation      *)
(* tables.                                                                 *)
LEMMA ReleaseType ==
  ASSUME StoreTypeOK, NEW r \in Runs, ReleaseGpus(r)
  PROVE  /\ held' \in [Runs -> SUBSET Gpus]
         /\ gpuOwner' \in [Gpus -> Runs \cup {NoRun}]
  BY DEF StoreTypeOK, ReleaseGpus

(* A step of a scheduling transaction looks for devices for one more of    *)
(* its jobs, and goes on or commits.                                       *)
LEMMA TickLooks ==
  ASSUME SchedulerTypeOK, BatchQueued, NEW locked, ScheduleTick(locked)
  PROVE  \E jobs \in SUBSET Queued, o \in Orders, j \in Jobs :
           \E G \in Offers(j, found) :
             LET f == [k \in DOMAIN found \cup {j} |-> IF k = j THEN G ELSE found[k]] IN
             /\ batch = {} \/ (jobs = batch /\ o = order)
             /\ DOMAIN found \subseteq jobs
             /\ ComesFirst(j, jobs \ DOMAIN found, o)
             /\ order' = o
             /\ GoOn(jobs, f) \/ CommitTick(jobs, f)
             /\ UNCHANGED <<workerRow, queue, container>>
<1> USE DEF BatchQueued
<1>1. CASE batch = {}
  <2>1. PICK o \in Orders, j \in Jobs : LookFor(j, Queued \ locked, o)
    BY <1>1 DEF ScheduleTick
  <2>2. Queued \ locked \in SUBSET Queued /\ DOMAIN found \subseteq Queued \ locked
    BY <1>1
  <2> QED BY <1>1, <2>1, <2>2 DEF LookFor
<1>2. CASE batch # {}
  <2>1. PICK j \in Jobs : LookFor(j, batch, order)
    BY <1>2 DEF ScheduleTick
  <2>2. batch \in SUBSET Queued /\ order \in Orders
    BY DEF SchedulerTypeOK
  <2> QED BY <2>1, <2>2 DEF LookFor
<1> QED BY <1>1, <1>2

(* What a transaction has found is a function from jobs to devices.        *)
LEMMA FoundIsFunction ==
  ASSUME SchedulerTypeOK, NEW j \in Jobs, NEW G \in Offers(j, found)
  PROVE  /\ found \in [DOMAIN found -> SUBSET Gpus] /\ DOMAIN found \in SUBSET Jobs
         /\ [k \in DOMAIN found \cup {j} |-> IF k = j THEN G ELSE found[k]]
              \in [DOMAIN found \cup {j} -> SUBSET Gpus]
<1>1. found \in [DOMAIN found -> SUBSET Gpus] /\ DOMAIN found \in SUBSET Jobs
  <2>1. PICK S \in SUBSET Jobs : found \in [S -> SUBSET Gpus]
    BY DEF SchedulerTypeOK
  <2> QED BY <2>1
<1>2. G \in SUBSET Gpus
  BY DEF Offers, LeftBy, AvailableGpus
<1> QED BY <1>1, <1>2

(* What the scheduler does keeps every state well typed. *)
LEMMA SchedulerKeepsType ==
  ASSUME TypeOK, BatchQueued, SchedulerStep
  PROVE  PartsOK'
<1> USE DEF TypeOK, PartsOK
<1>0. (WorkerTypeOK /\ ApiTypeOK)'
  BY DEF SchedulerStep, workerVars, apiVars, WorkerTypeOK, ApiTypeOK
<1>1. ASSUME NEW locked, ScheduleTick(locked)
      PROVE  (StoreTypeOK /\ SchedulerTypeOK)'
  <2>1. PICK jobs \in SUBSET Queued, o \in Orders, j \in Jobs :
          \E G \in Offers(j, found) :
             LET f == [k \in DOMAIN found \cup {j} |-> IF k = j THEN G ELSE found[k]] IN
             /\ order' = o
             /\ GoOn(jobs, f) \/ CommitTick(jobs, f)
             /\ UNCHANGED <<workerRow, queue, container>>
    BY <1>1, TickLooks
  <2>2. PICK G \in Offers(j, found) :
             LET f == [k \in DOMAIN found \cup {j} |-> IF k = j THEN G ELSE found[k]] IN
             /\ order' = o
             /\ GoOn(jobs, f) \/ CommitTick(jobs, f)
             /\ UNCHANGED <<workerRow, queue, container>>
    BY <2>1
  <2> DEFINE f == [k \in DOMAIN found \cup {j} |-> IF k = j THEN G ELSE found[k]]
             D == DOMAIN found \cup {j}
  <2>3. D \in SUBSET Jobs /\ f \in [D -> SUBSET Gpus]
    BY FoundIsFunction
  <2>4. GoOn(jobs, f) \/ CommitTick(jobs, f)
    BY <2>2
  <2> HIDE DEF f, D
  <2>5. CASE GoOn(jobs, f)
    <3>1. jobs \in SUBSET Jobs
      BY DEF Queued
    <3> QED BY <2>2, <2>3, <2>5, <3>1 DEF GoOn, StoreTypeOK, SchedulerTypeOK, jobTables
  <2>6. CASE CommitTick(jobs, f)
    <3> DEFINE S == ServedBy(f)
               assign == [k \in S |-> f[k]]
    <3>1. S \in SUBSET Queued /\ assign \in [S -> SUBSET Gpus]
      BY <2>3, <2>6 DEF CommitTick, ServedBy
    <3>2. CreateRuns(assign) /\ DOMAIN assign = S
      BY <2>6 DEF CommitTick
    <3>3. found' \in [{} -> SUBSET Gpus] /\ batch' = {}
      BY <2>6 DEF CommitTick, NoneFound
    <3> HIDE DEF S, assign
    <3> USE DEF StoreTypeOK, SchedulerTypeOK
    <3> DEFINE Created == {NewRun(k) : k \in S}
    <3>4. \A k \in S : k \in Jobs /\ NewRun(k) \in Runs /\ JobOf(NewRun(k)) = k
      BY <3>1, NewRunIsRun DEF Queued
    <3>5. \A r \in Created : r \in Runs /\ JobOf(r) \in S
      BY <3>4
    <3>6. pending' \in SUBSET Runs
      BY <3>2, <3>5 DEF CreateRuns
    <3>7. runStatus' \in [Runs -> RunStatuses \cup {"absent"}]
      BY <3>2 DEF CreateRuns, RunStatuses
    <3>8. granted' \in [Runs -> SUBSET Gpus] /\ held' \in [Runs -> SUBSET Gpus]
      BY <3>1, <3>2, <3>5 DEF CreateRuns
    <3>9. gpuOwner' \in [Gpus -> Runs \cup {NoRun}]
      BY <3>2, <3>4 DEF CreateRuns
    <3>10. jobStatus' \in [Jobs -> JobStatuses \cup {"absent"}]
      BY <3>2 DEF CreateRuns, JobStatuses
    <3>11. latest' \in [Jobs -> Runs \cup {NoRun}]
      BY <3>2, <3>4 DEF CreateRuns
    <3>12. UNCHANGED <<workerRow, queue, container>> /\ order' \in Orders
      BY <2>2
    <3>13. {} \in SUBSET Jobs /\ batch' \in SUBSET Jobs
      BY <3>3
    <3>14. found' \in UNION {[T -> SUBSET Gpus] : T \in SUBSET Jobs}
      BY <3>3, <3>13
    <3>15. StoreTypeOK'
      BY <3>7, <3>8, <3>9, <3>10, <3>11, <3>12
    <3>16. SchedulerTypeOK'
      BY <3>6, <3>12, <3>13, <3>14
    <3> QED BY <3>15, <3>16
  <2> QED BY <2>4, <2>5, <2>6
<1> USE DEF StoreTypeOK, SchedulerTypeOK
<1>2. ASSUME NEW r \in Runs, PushJob(r)
      PROVE  (StoreTypeOK /\ SchedulerTypeOK)'
  BY <1>2, QueueAssumption, JobOfRun DEF PushJob, RPush, jobTables
<1>3. ASSUME PushFails
      PROVE  (StoreTypeOK /\ SchedulerTypeOK)'
  BY <1>3 DEF PushFails, storeVars, jobTables
<1>4. ASSUME TickFails
      PROVE  (StoreTypeOK /\ SchedulerTypeOK)'
  <2>1. found' \in [{} -> SUBSET Gpus] /\ {} \in SUBSET Jobs
    BY <1>4 DEF TickFails, NoneFound
  <2>2. found' \in UNION {[T -> SUBSET Gpus] : T \in SUBSET Jobs}
    BY <2>1
  <2> QED BY <1>4, <2>2 DEF TickFails, storeVars, jobTables
<1> QED BY <1>0, <1>1, <1>2, <1>3, <1>4 DEF SchedulerStep, SchedulerNext

(* The workers' program counters and locals. *)
LEMMA WorkerKeepsType ==
  ASSUME TypeOK, NEW w \in Workers, WorkerStep(w) \/ WorkerFault(w)
  PROVE  StoreTypeOK' /\ WorkerTypeOK'
<1> USE DEF TypeOK, Goto, Drop, EndTransaction, SetRow
<1> DEFINE P == StoreTypeOK' /\ WorkerTypeOK'
<1>h. pc[w] \notin {"down", "idle"} => hand[w] \in Runs /\ JobOf(hand[w]) \in Jobs
  BY HandIsRun, JobOfRun
<1> USE DEF WorkerTypeOK
<1>1. CASE WorkerStart(w)
  BY <1>1 DEF WorkerStart, StoreTypeOK, jobTables, WorkerStatuses, WorkerPcs
<1>2. CASE PopJob(w)
  <2> DEFINE q == ListensOn[w]
  <2>1. q \in Queues /\ queue[q] \in Seq(Runs) /\ queue[q] # <<>>
    BY <1>2, QueueAssumption DEF PopJob, BLPop, StoreTypeOK
  <2>2. Head(queue[q]) \in Runs /\ Tail(queue[q]) \in Seq(Runs)
    BY <2>1
  <2>3. StoreTypeOK'
    BY <1>2, <2>1, <2>2 DEF PopJob, BLPop, StoreTypeOK, jobTables
  <2> QED BY <1>2, <2>2, <2>3, EnvironmentAssumption
          DEF PopJob, BLPop, WorkerPcs, Executing, BeforeRun
<1>3. CASE PickupReadRun(w)
  BY <1>3, <1>h DEF PickupReadRun, StoreTypeOK, storeVars, jobTables, WorkerPcs, Executing, BeforeRun
<1>4. CASE PickupReadJob(w)
  <2>1. StoreTypeOK'
    BY <1>4 DEF PickupReadJob, StoreTypeOK, storeVars, jobTables
  <2>2. hand[w] \in Runs /\ jobStatus[JobOf(hand[w])] \in JobStatuses \cup {"absent"}
    BY <1>4, <1>h DEF PickupReadJob, StoreTypeOK
  <2>3. CASE "cancelled" \in {jobStatus[JobOf(hand[w])], sawRun[w]}
    BY <1>4, <2>1, <2>3 DEF PickupReadJob, WorkerPcs
  <2>4. CASE "cancelled" \notin {jobStatus[JobOf(hand[w])], sawRun[w]}
    BY <1>4, <2>1, <2>2, <2>4 DEF PickupReadJob, WorkerPcs, Executing, BeforeRun
  <2> QED BY <2>3, <2>4
<1>5. CASE PickupCommit(w)
  <2>1. hand[w] \in Runs /\ JobOf(hand[w]) \in Jobs
    BY <1>5, <1>h DEF PickupCommit
  <2>2. StoreTypeOK'
    BY <1>5, <2>1 DEF PickupCommit, StoreTypeOK, OrmSet, JobStatuses, RunStatuses, WorkerStatuses
  <2> QED BY <1>5, <2>2 DEF PickupCommit, WorkerPcs, Executing, BeforeRun
<1>6. CASE Launch(w)
  BY <1>6, <1>h DEF Launch, StoreTypeOK, jobTables, ContainerStates, WorkerPcs, Executing, BeforeRun
<1>7. CASE LaunchFails(w)
  BY <1>7, <1>h DEF LaunchFails, StoreTypeOK, storeVars, jobTables, WorkerPcs, Executing, BeforeRun, AfterRun
<1>8. CASE RunnerReturn(w)
  BY <1>8, <1>h DEF RunnerReturn, StoreTypeOK, storeVars, jobTables, WorkerPcs, Executing, AfterRun
<1>9. CASE RunnerGivesUp(w)
  BY <1>9, <1>h DEF RunnerGivesUp, StoreTypeOK, storeVars, jobTables, ContainerStates, WorkerPcs, Executing, AfterRun
<1>10. CASE FinalReadJob(w)
  BY <1>10, <1>h DEF FinalReadJob, StoreTypeOK, storeVars, jobTables, WorkerPcs, Executing, AfterRun
<1>11. CASE FinalReadRun(w)
  BY <1>11, <1>h DEF FinalReadRun, StoreTypeOK, storeVars, jobTables, WorkerPcs, Executing, AfterRun
<1>12. CASE FinalCommit(w)
  <2>1. hand[w] \in Runs /\ JobOf(hand[w]) \in Jobs
    BY <1>12, <1>h DEF FinalCommit
  <2>2. held' \in [Runs -> SUBSET Gpus] /\ gpuOwner' \in [Gpus -> Runs \cup {NoRun}]
    BY <1>12, <2>1, ReleaseType DEF FinalCommit
  <2>3. StoreTypeOK'
    BY <1>12, <2>1, <2>2
       DEF FinalCommit, WriteFinalStatus, FinalStatus, StoreTypeOK, OrmSet, JobStatuses,
           RunStatuses, WorkerStatuses
  <2> QED BY <1>12, <2>3 DEF FinalCommit, WorkerPcs, RunStatuses, JobStatuses
<1>13. CASE MarkRunFailed(w)
  <2>1. hand[w] \in Runs /\ JobOf(hand[w]) \in Jobs
    BY <1>13, <1>h DEF MarkRunFailed
  <2>2. held' \in [Runs -> SUBSET Gpus] /\ gpuOwner' \in [Gpus -> Runs \cup {NoRun}]
    BY <1>13, <2>1, ReleaseType DEF MarkRunFailed
  <2>3. StoreTypeOK'
    BY <1>13, <2>1, <2>2
       DEF MarkRunFailed, StoreTypeOK, JobStatuses, RunStatuses, WorkerStatuses
  <2> QED BY <1>13, <2>3 DEF MarkRunFailed, WorkerPcs
<1>14. CASE ExecuteRaises(w)
  BY <1>14 DEF ExecuteRaises, StoreTypeOK, storeVars, jobTables, WorkerPcs, BeforeRun, AfterRun
<1>15. CASE WorkerStops(w)
  BY <1>15 DEF WorkerStops, StoreTypeOK, jobTables, WorkerStatuses, WorkerPcs
<1>16. CASE WorkerCrash(w)
  BY <1>16 DEF WorkerCrash, StoreTypeOK, storeVars, jobTables, WorkerPcs
<1> QED
  BY <1>1, <1>2, <1>3, <1>4, <1>5, <1>6, <1>7, <1>8, <1>9, <1>10, <1>11, <1>12, <1>13,
     <1>14, <1>15, <1>16 DEF WorkerStep, WorkerFault

(* What the workers, their failures and the containers do keeps every      *)
(* state well typed.                                                       *)
LEMMA WorkersKeepType ==
  ASSUME TypeOK, WorkersStep
  PROVE  PartsOK'
<1>1. (SchedulerTypeOK /\ ApiTypeOK)'
  BY DEF WorkersStep, schedulerVars, apiVars, TypeOK, SchedulerTypeOK, ApiTypeOK
<1>2. CASE \E w \in Workers : WorkerStep(w) \/ WorkerFault(w)
  BY <1>1, <1>2, WorkerKeepsType DEF TypeOK, PartsOK
<1>3. CASE \E r \in Runs : ContainerStarts(r) \/ ContainerExit(r)
  BY <1>1, <1>3
     DEF ContainerStarts, ContainerExit, TypeOK, PartsOK, StoreTypeOK, WorkerTypeOK, jobTables,
         workerVars, ContainerStates
<1> QED BY <1>2, <1>3 DEF WorkersStep

(* What the requests, the background tasks and the overrides do keeps      *)
(* every state well typed.                                                 *)
LEMMA ApiKeepsType ==
  ASSUME TypeOK, ApiStep
  PROVE  PartsOK'
<1> USE DEF TypeOK, PartsOK, StoreTypeOK, ApiTypeOK
<1>0. (SchedulerTypeOK /\ WorkerTypeOK)'
  BY DEF ApiStep, schedulerVars, workerVars, SchedulerTypeOK, WorkerTypeOK
<1>1. ASSUME NEW j \in Jobs, SubmitJob(j)
      PROVE  (StoreTypeOK /\ ApiTypeOK)'
  BY <1>1 DEF SubmitJob, apiVars, JobStatuses
<1>2. ASSUME NEW c \in Clients, ClientStep(c)
      PROVE  (StoreTypeOK /\ ApiTypeOK)'
  <2> DEFINE q == request[c]
  <2>1. ASSUME NEW j \in Jobs, CancelReadJob(c, j)
        PROVE  (StoreTypeOK /\ ApiTypeOK)'
    BY <2>1 DEF CancelReadJob, storeVars, jobTables, RequestStates
  <2>2. CASE CancelReadRun(c)
    <3>1. q \in RequestStates /\ q # Idle
      BY <2>2 DEF CancelReadRun, Idle
    <3>2. (IF q.run = NoRun THEN "absent" ELSE runStatus[q.run]) \in RunStatuses \cup {"absent"}
      BY <3>1 DEF RequestStates
    <3>3. request' \in [Clients -> RequestStates]
      BY <2>2, <3>1, <3>2 DEF CancelReadRun, RequestStates
    <3> QED BY <2>2, <3>3 DEF CancelReadRun, storeVars, jobTables
  <2>3. CASE CancelCommit(c)
    <3>1. q \in RequestStates /\ q # Idle
      BY <2>3 DEF CancelCommit, StopsContainer, Idle
    <3>2. q.job \in Jobs /\ q.run \in Runs \cup {NoRun}
      BY <3>1 DEF RequestStates
    <3>3. request' \in [Clients -> RequestStates] /\ stops' \in SUBSET Runs
      BY <2>3, <3>2 DEF CancelCommit, RequestStates
    <3>4. /\ runStatus' \in [Runs -> RunStatuses \cup {"absent"}]
          /\ held' \in [Runs -> SUBSET Gpus]
          /\ gpuOwner' \in [Gpus -> Runs \cup {NoRun}]
      <4>1. CASE q.sawJob = "queued" \/ q.run = NoRun
        BY <2>3, <4>1 DEF CancelCommit
      <4>2. CASE ~(q.sawJob = "queued" \/ q.run = NoRun)
        <5>1. CancelRunAndReleaseGpus(q.run, q.sawRun) /\ q.run \in Runs
          BY <2>3, <3>2, <4>2 DEF CancelCommit
        <5> QED BY <5>1, ReleaseType DEF CancelRunAndReleaseGpus, RunStatuses
      <4> QED BY <4>1, <4>2
    <3> QED BY <2>3, <3>2, <3>3, <3>4 DEF CancelCommit, JobStatuses
  <2>4. CASE CancelFlush(c)
    <3>1. q \in RequestStates /\ q # Idle
      BY <2>4 DEF CancelFlush, Idle
    <3>2. request' \in [Clients -> RequestStates] /\ stops' \in SUBSET Runs
      BY <2>4, <3>1 DEF CancelFlush, StopsContainer, RequestStates
    <3> QED BY <2>4, <3>2 DEF CancelFlush, storeVars, jobTables
  <2>5. CASE CancelAborts(c)
    BY <2>5 DEF CancelAborts, storeVars, jobTables, RequestStates
  <2> QED BY <1>2, <2>1, <2>2, <2>3, <2>4, <2>5 DEF ClientStep
<1>3. ASSUME NEW r \in Runs, StopContainer(r)
      PROVE  (StoreTypeOK /\ ApiTypeOK)'
  BY <1>3 DEF StopContainer, jobTables, ContainerStates
<1>4. ASSUME NEW j \in Jobs, NEW s \in AdminStatuses, AdminSetStatus(j, s)
      PROVE  (StoreTypeOK /\ ApiTypeOK)'
  BY <1>4, EnvironmentAssumption DEF AdminSetStatus, apiVars
<1> QED BY <1>0, <1>1, <1>2, <1>3, <1>4 DEF ApiStep, ApiNext

(* The history is what the name says whatever a step does. *)
LEMMA NotesKeepType ==
  ASSUME TypeOK, PartsOK', NoteReleases
  PROVE  TypeOK'
<1>1. missed' \in [DOMAIN found' -> SUBSET Gpus]
  BY DEF TypeOK, NoteReleases
<1> QED BY <1>1 DEF TypeOK, PartsOK

(* The transaction in progress goes on, or is over, or another step leaves *)
(* it alone.                                                               *)
LEMMA BatchMoves ==
  ASSUME TypeOK, BatchQueued, Moves
  PROVE  \/ UNCHANGED <<batch, found>>
         \/ batch' = {} /\ found' = NoneFound
         \/ \E jobs \in SUBSET Queued, j \in Jobs : \E G \in Offers(j, found) :
              /\ DOMAIN found \subseteq jobs /\ j \in jobs \ DOMAIN found
              /\ GoOn(jobs, [k \in DOMAIN found \cup {j} |-> IF k = j THEN G ELSE found[k]])
<1>1. CASE WorkersStep \/ ApiStep
  BY <1>1 DEF WorkersStep, ApiStep, schedulerVars
<1>2. ASSUME NEW locked, ScheduleTick(locked)
      PROVE  \/ batch' = {} /\ found' = NoneFound
             \/ \E jobs \in SUBSET Queued, j \in Jobs : \E G \in Offers(j, found) :
                  /\ DOMAIN found \subseteq jobs /\ j \in jobs \ DOMAIN found
                  /\ GoOn(jobs, [k \in DOMAIN found \cup {j} |-> IF k = j THEN G ELSE found[k]])
  <2>1. PICK jobs \in SUBSET Queued, o \in Orders, j \in Jobs :
          \E G \in Offers(j, found) :
             LET f == [k \in DOMAIN found \cup {j} |-> IF k = j THEN G ELSE found[k]] IN
             /\ DOMAIN found \subseteq jobs
             /\ ComesFirst(j, jobs \ DOMAIN found, o)
             /\ GoOn(jobs, f) \/ CommitTick(jobs, f)
    BY <1>2, TickLooks DEF TypeOK, BatchQueued
  <2>2. PICK G \in Offers(j, found) :
             LET f == [k \in DOMAIN found \cup {j} |-> IF k = j THEN G ELSE found[k]] IN
             GoOn(jobs, f) \/ CommitTick(jobs, f)
    BY <2>1
  <2>3. DOMAIN found \subseteq jobs /\ j \in jobs \ DOMAIN found
    BY <2>1 DEF ComesFirst
  <2> DEFINE f == [k \in DOMAIN found \cup {j} |-> IF k = j THEN G ELSE found[k]]
  <2>4. GoOn(jobs, f) \/ CommitTick(jobs, f)
    BY <2>2
  <2>5. CommitTick(jobs, f) => batch' = {} /\ found' = NoneFound
    BY DEF CommitTick
  <2> HIDE DEF f
  <2>6. CASE CommitTick(jobs, f)
    BY <2>5, <2>6
  <2>7. CASE GoOn(jobs, f)
    BY <2>3, <2>7 DEF f
  <2> QED BY <2>4, <2>6, <2>7
<1>3. ASSUME (\E r \in Runs : PushJob(r)) \/ PushFails
      PROVE  UNCHANGED <<batch, found>>
  BY <1>3 DEF PushJob, PushFails
<1>4. ASSUME TickFails
      PROVE  batch' = {} /\ found' = NoneFound
  BY <1>4 DEF TickFails
<1> QED BY <1>1, <1>2, <1>3, <1>4 DEF Moves, SchedulerStep, SchedulerNext

(* The jobs of the batch stay queued: the transaction holds their rows.    *)
LEMMA BatchStaysQueued ==
  ASSUME TypeOK, BatchQueued, [Next]_vars
  PROVE  BatchQueued'
<1>1. CASE UNCHANGED vars
  BY <1>1 DEF vars, storeVars, jobTables, schedulerVars, BatchQueued, Queued, Attempt
<1>2. ASSUME Next, UNCHANGED <<batch, found>>
      PROVE  BatchQueued'
  <2>1. ASSUME NEW j \in batch
        PROVE  j \in Queued'
    <3>1. jobStatus'[j] = jobStatus[j]
          /\ \A n \in 1..MaxAttempts : runStatus'[<<j, n>>] = runStatus[<<j, n>>]
      BY <1>2, <2>1 DEF Next, RowLocks, TickLocks, RowKept
    <3>2. {n \in 1..MaxAttempts : runStatus'[<<j, n>>] # "absent"}
            = {n \in 1..MaxAttempts : runStatus[<<j, n>>] # "absent"}
      BY <3>1
    <3>3. Attempt(j)' = Attempt(j)
      BY <3>2 DEF Attempt
    <3> QED BY <2>1, <3>1, <3>3 DEF BatchQueued, Queued
  <2> QED BY <1>2, <2>1 DEF BatchQueued
<1>3. ASSUME batch' = {}, found' = NoneFound
      PROVE  BatchQueued'
  BY <1>3 DEF BatchQueued, NoneFound
<1>4. ASSUME NEW jobs \in SUBSET Queued, NEW j \in Jobs, NEW G \in Offers(j, found),
             DOMAIN found \subseteq jobs, j \in jobs \ DOMAIN found,
             GoOn(jobs, [k \in DOMAIN found \cup {j} |-> IF k = j THEN G ELSE found[k]])
      PROVE  BatchQueued'
  <2>1. batch' = jobs /\ DOMAIN found' = DOMAIN found \cup {j} /\ UNCHANGED jobTables
    BY <1>4 DEF GoOn
  <2>2. Queued' = Queued
    BY <2>1 DEF jobTables, Queued, Attempt
  <2> QED BY <1>4, <2>1, <2>2 DEF BatchQueued
<1> QED BY <1>1, <1>2, <1>3, <1>4, BatchMoves DEF Next

(* Every step of the system keeps every state well typed. *)
LEMMA NextTypeOK ==
  ASSUME TypeOK, BatchQueued, [Next]_vars
  PROVE  TypeOK'
<1>1. CASE Next
  BY <1>1, SchedulerKeepsType, WorkersKeepType, ApiKeepsType, NotesKeepType
     DEF Next, Moves
<1>2. CASE UNCHANGED vars
  BY <1>2 DEF vars, storeVars, jobTables, schedulerVars, workerVars, apiVars, TypeOK,
     StoreTypeOK, SchedulerTypeOK, WorkerTypeOK, ApiTypeOK
<1> QED BY <1>1, <1>2

(* No transaction is in progress in the empty database. *)
LEMMA InitBatch == Init => BatchQueued
  BY DEF Init, SchedulerInit, BatchQueued, NoneFound

(* Every table, queue and process variable keeps its type in every         *)
(* reachable state, with any failures, cancellations and overrides.        *)
THEOREM TypeCorrect == Spec => []TypeOK
<1>1. Init => TypeOK /\ BatchQueued
  BY InitTypeOK, InitBatch
<1>2. TypeOK /\ BatchQueued /\ [Next]_vars => (TypeOK /\ BatchQueued)'
  BY NextTypeOK, BatchStaysQueued
<1> QED BY <1>1, <1>2, PTL DEF Spec

-----------------------------------------------------------------------------
(* The inductive invariant.  The ledger alone is not inductive: a tick     *)
(* must find the rows it creates unused, which rests on the numbering of   *)
(* the attempts, and whoever writes the status of a run must have in its   *)
(* hands a run that exists.                                                *)

Exists(r) == runStatus[r] # "absent"

(* The rows of each job are numbered 1..k for some k. *)
Numbered ==
  \A j \in Jobs : \E k \in 0..MaxAttempts :
    \A n \in 1..MaxAttempts : Exists(<<j, n>>) <=> n <= k

RunsExist ==
  /\ \A q \in Queues : \A i \in 1..Len(queue[q]) : Exists(queue[q][i])
  /\ \A w \in Workers : hand[w] # NoRun => Exists(hand[w])
  /\ \A c \in Clients : request[c].run # NoRun => Exists(request[c].run)
  /\ \A j \in Jobs : latest[j] # NoRun => Exists(latest[j])
  /\ \A r \in pending : Exists(r)

(* A row that does not exist has no allocations. *)
AbsentUnused == \A r \in Runs : ~Exists(r) => granted[r] = {} /\ held[r] = {}

(* The devices that f gives to the jobs it serves are available, and no    *)
(* two jobs get the same one.                                              *)
Apart(f) ==
  /\ \A j \in ServedBy(f) : f[j] \subseteq AvailableGpus
  /\ \A j, k \in ServedBy(f) : j # k => f[j] \cap f[k] = {}

(* What the transaction in progress has found is still there when it       *)
(* commits: others only give devices back.                                 *)
FoundAvailable == Apart(found)

Inv ==
  /\ TypeOK /\ BatchQueued /\ FoundAvailable
  /\ Numbered /\ RunsExist /\ AbsentUnused /\ GpuLedger /\ TerminalRunsReleased

(* What a step may do to the allocation tables. *)
SameRuns == \A r \in Runs : Exists(r)' <=> Exists(r)
KeepAllocations ==
  /\ UNCHANGED <<granted, held, gpuOwner>>
  /\ SameRuns
  /\ \A r \in Runs : runStatus'[r] \in Terminal => runStatus[r] \in Terminal
CloseAllocations(x) ==
  /\ ReleaseGpus(x)
  /\ UNCHANGED granted
  /\ SameRuns
  /\ \A r \in Runs \ {x} : runStatus'[r] = runStatus[r]
OpenAllocations(S, assign) ==
  /\ \A j \in S : assign[j] \subseteq AvailableGpus /\ Cardinality(assign[j]) = Need[j]
  /\ \A j, k \in S : j # k => assign[j] \cap assign[k] = {}
  /\ CreateRuns(assign)
  /\ batch' = {} /\ found' = NoneFound

(* When the rows of a job are numbered 1..k, COUNT plus one is k + 1. *)
LEMMA AttemptIsNext ==
  ASSUME NEW j \in Jobs, NEW k \in 0..MaxAttempts,
         \A n \in 1..MaxAttempts : Exists(<<j, n>>) <=> n <= k
  PROVE  Attempt(j) = k + 1
<1> DEFINE S == {n \in 1..MaxAttempts : runStatus[<<j, n>>] # "absent"}
<1>1. S = 1..k
  BY FiniteAssumption DEF Exists
<1>2. Cardinality(1..k) = k
  BY FS_Interval
<1> QED BY <1>1, <1>2 DEF Attempt

(* The run that a tick creates for a queued job has no row yet. *)
LEMMA NewRunIsFresh ==
  ASSUME Numbered
  PROVE  \A j \in Queued : ~Exists(NewRun(j))
<1> SUFFICES ASSUME NEW j \in Queued PROVE ~Exists(NewRun(j))
  OBVIOUS
<1>1. PICK k \in 0..MaxAttempts : \A n \in 1..MaxAttempts : Exists(<<j, n>>) <=> n <= k
  BY DEF Numbered, Queued
<1>2. Attempt(j) = k + 1 /\ Attempt(j) \in 1..MaxAttempts
  BY <1>1, AttemptIsNext, FiniteAssumption DEF Queued
<1> QED BY <1>1, <1>2 DEF NewRun

(* The devices found for one more job are available and not taken.         *)
LEMMA LookApart ==
  ASSUME Inv, NEW j \in Jobs \ DOMAIN found, NEW G \in Offers(j, found)
  PROVE  Apart([k \in DOMAIN found \cup {j} |-> IF k = j THEN G ELSE found[k]])
<1> DEFINE D == DOMAIN found \cup {j}
           f == [k \in D |-> IF k = j THEN G ELSE found[k]]
<1>1. ServedBy(f) \subseteq ServedBy(found) \cup {j}
  BY DEF ServedBy
<1>2. \A k \in ServedBy(found) : f[k] = found[k] /\ k # j
  BY DEF ServedBy
<1>3. G \subseteq AvailableGpus /\ \A k \in ServedBy(found) : G \cap found[k] = {}
  BY DEF Offers, LeftBy
<1>4. f[j] = G
  OBVIOUS
<1>5. /\ \A k \in ServedBy(found) : found[k] \subseteq AvailableGpus
      /\ \A k, i \in ServedBy(found) : k # i => found[k] \cap found[i] = {}
  BY DEF Inv, FoundAvailable, Apart
<1> HIDE DEF f
<1>6. \A k \in ServedBy(f) : f[k] \subseteq AvailableGpus
  BY <1>1, <1>2, <1>3, <1>4, <1>5
<1>7. ASSUME NEW k \in ServedBy(f), NEW i \in ServedBy(f), k # i
      PROVE  f[k] \cap f[i] = {}
  BY <1>1, <1>2, <1>3, <1>4, <1>5, <1>7
<1>8. Apart(f)
  BY <1>6, <1>7 DEF Apart
<1> QED BY <1>8 DEF f

(* A step that leaves runs and allocations alone keeps the allocation      *)
(* tables.                                                                 *)
LEMMA Untouched ==
  ASSUME UNCHANGED jobTables \/ UNCHANGED <<runStatus, granted, held, gpuOwner>>
  PROVE  KeepAllocations
  BY DEF KeepAllocations, SameRuns, Exists, jobTables

(* A step of a scheduling transaction reads, or opens allocations for new  *)
(* runs of queued jobs.                                                    *)
LEMMA TickShape ==
  ASSUME Inv, NEW locked, ScheduleTick(locked)
  PROVE  /\ \/ UNCHANGED <<pending, jobTables>>
            \/ \E S \in SUBSET Queued : \E assign \in [S -> SUBSET Gpus] :
                 OpenAllocations(S, assign)
         /\ pending = {} /\ UNCHANGED <<workerRow, queue, container>>
<1>1. PICK jobs \in SUBSET Queued, o \in Orders, j \in Jobs :
        \E G \in Offers(j, found) :
           LET f == [k \in DOMAIN found \cup {j} |-> IF k = j THEN G ELSE found[k]] IN
           /\ ComesFirst(j, jobs \ DOMAIN found, o)
           /\ GoOn(jobs, f) \/ CommitTick(jobs, f)
           /\ UNCHANGED <<workerRow, queue, container>>
  BY TickLooks DEF Inv, TypeOK
<1>2. PICK G \in Offers(j, found) :
           LET f == [k \in DOMAIN found \cup {j} |-> IF k = j THEN G ELSE found[k]] IN
           /\ GoOn(jobs, f) \/ CommitTick(jobs, f)
           /\ UNCHANGED <<workerRow, queue, container>>
  BY <1>1
<1> DEFINE f == [k \in DOMAIN found \cup {j} |-> IF k = j THEN G ELSE found[k]]
           D == DOMAIN found \cup {j}
<1>3. f \in [D -> SUBSET Gpus]
  BY FoundIsFunction DEF Inv, TypeOK
<1>4. Apart(f)
  BY <1>1, LookApart DEF ComesFirst
<1>5. GoOn(jobs, f) \/ CommitTick(jobs, f)
  BY <1>2
<1> HIDE DEF f, D
<1>6. pending = {} /\ UNCHANGED <<workerRow, queue, container>>
  BY <1>2 DEF ScheduleTick
<1>7. CASE GoOn(jobs, f)
  BY <1>6, <1>7 DEF GoOn
<1>8. CASE CommitTick(jobs, f)
  <2> DEFINE S == ServedBy(f)
             assign == [k \in S |-> f[k]]
  <2>1. S \in SUBSET Queued /\ assign \in [S -> SUBSET Gpus]
    BY <1>3, <1>8 DEF CommitTick, ServedBy
  <2>2. CreateRuns(assign) /\ batch' = {} /\ found' = NoneFound
    BY <1>8 DEF CommitTick
  <2>3. \A k \in S : assign[k] = f[k] /\ Cardinality(assign[k]) = Need[k]
    BY DEF ServedBy
  <2>4. OpenAllocations(S, assign)
    BY <1>4, <2>2, <2>3 DEF OpenAllocations, Apart
  <2> QED BY <1>6, <2>1, <2>4
<1> QED BY <1>5, <1>7, <1>8

(* The scheduler leaves the tables of the jobs alone or opens allocations  *)
(* for new runs.                                                           *)
LEMMA SchedulerShape ==
  ASSUME Inv, SchedulerStep
  PROVE  \/ UNCHANGED jobTables
         \/ \E S \in SUBSET Queued : \E assign \in [S -> SUBSET Gpus] : OpenAllocations(S, assign)
<1>1. ASSUME (\E r \in Runs : PushJob(r)) \/ PushFails \/ TickFails
      PROVE  UNCHANGED jobTables
  BY <1>1 DEF PushJob, PushFails, TickFails, storeVars
<1> QED BY <1>1, TickShape DEF SchedulerStep, SchedulerNext

(* Workers and containers leave the allocation tables alone or close the   *)
(* allocations of a run that exists.                                       *)
LEMMA WorkersShape ==
  ASSUME Inv, WorkersStep
  PROVE  KeepAllocations \/ \E x \in Runs : Exists(x) /\ CloseAllocations(x)
<1>1. CASE \E r \in Runs : ContainerStarts(r) \/ ContainerExit(r)
  BY <1>1, Untouched DEF ContainerStarts, ContainerExit
<1>2. ASSUME NEW w \in Workers, WorkerStep(w) \/ WorkerFault(w)
      PROVE  KeepAllocations \/ \E x \in Runs : Exists(x) /\ CloseAllocations(x)
  <2>h. pc[w] \notin {"down", "idle"} => hand[w] \in Runs /\ Exists(hand[w])
    BY HandIsRun, EnvironmentAssumption DEF Inv, TypeOK, RunsExist
  <2>t. runStatus \in [Runs -> RunStatuses \cup {"absent"}]
    BY DEF Inv, TypeOK, StoreTypeOK
  <2>1. CASE PickupCommit(w)
    BY <2>1, <2>h, <2>t
       DEF PickupCommit, Goto, OrmSet, KeepAllocations, SameRuns, Exists, Terminal
  <2>2. CASE FinalCommit(w)
    <3>1. hand[w] \in Runs /\ Exists(hand[w])
      BY <2>2, <2>h DEF FinalCommit, Goto
    <3>2. CloseAllocations(hand[w])
      BY <2>2, <2>t, <3>1
         DEF FinalCommit, WriteFinalStatus, FinalStatus, OrmSet, CloseAllocations, SameRuns, Exists
    <3> QED BY <3>1, <3>2
  <2>3. CASE MarkRunFailed(w)
    <3>1. hand[w] \in Runs /\ Exists(hand[w])
      BY <2>3, <2>h DEF MarkRunFailed, Goto
    <3>2. CloseAllocations(hand[w])
      BY <2>3, <2>t, <3>1 DEF MarkRunFailed, CloseAllocations, SameRuns, Exists
    <3> QED BY <3>1, <3>2
  <2>4. CASE WorkerStart(w) \/ PopJob(w) \/ Launch(w) \/ RunnerGivesUp(w) \/ WorkerStops(w)
    BY <2>4, Untouched DEF WorkerStart, PopJob, BLPop, Launch, RunnerGivesUp, WorkerStops
  <2>5. CASE \/ PickupReadRun(w) \/ PickupReadJob(w) \/ LaunchFails(w) \/ RunnerReturn(w)
             \/ FinalReadJob(w) \/ FinalReadRun(w) \/ ExecuteRaises(w) \/ WorkerCrash(w)
    BY <2>5, Untouched
       DEF PickupReadRun, PickupReadJob, LaunchFails, RunnerReturn, FinalReadJob, FinalReadRun,
           ExecuteRaises, WorkerCrash, storeVars
  <2> QED BY <1>2, <2>1, <2>2, <2>3, <2>4, <2>5 DEF WorkerStep, WorkerFault
<1> QED BY <1>1, <1>2 DEF WorkersStep

(* Requests and overrides leave the allocation tables alone or close the   *)
(* allocations of a run that exists.                                       *)
LEMMA ApiShape ==
  ASSUME Inv, ApiStep
  PROVE  KeepAllocations \/ \E x \in Runs : Exists(x) /\ CloseAllocations(x)
<1>1. ASSUME NEW c \in Clients, CancelCommit(c)
      PROVE  KeepAllocations \/ \E x \in Runs : Exists(x) /\ CloseAllocations(x)
  <2> DEFINE q == request[c]
  <2>1. CASE q.sawJob = "queued" \/ q.run = NoRun
    BY <1>1, <2>1, Untouched DEF CancelCommit
  <2>2. CASE ~(q.sawJob = "queued" \/ q.run = NoRun)
    <3>1. q \in RequestStates /\ q # Idle
      BY <1>1 DEF CancelCommit, StopsContainer, Idle, Inv, TypeOK, ApiTypeOK
    <3>2. q.run \in Runs /\ Exists(q.run)
      BY <2>2, <3>1 DEF RequestStates, Inv, RunsExist
    <3>3. CancelRunAndReleaseGpus(q.run, q.sawRun) /\ UNCHANGED granted
      BY <1>1, <2>2 DEF CancelCommit
    <3>4. runStatus \in [Runs -> RunStatuses \cup {"absent"}]
      BY DEF Inv, TypeOK, StoreTypeOK
    <3>5. CloseAllocations(q.run)
      BY <3>2, <3>3, <3>4 DEF CancelRunAndReleaseGpus, CloseAllocations, SameRuns, Exists
    <3> QED BY <3>2, <3>5
  <2> QED BY <2>1, <2>2
<1>2. ASSUME NEW c \in Clients, ClientStep(c), ~CancelCommit(c)
      PROVE  KeepAllocations
  BY <1>2, Untouched DEF ClientStep, CancelReadJob, CancelReadRun, CancelFlush, CancelAborts,
     storeVars
<1>3. ASSUME \/ \E j \in Jobs : SubmitJob(j)
             \/ \E r \in Runs : StopContainer(r)
             \/ \E j \in Jobs, s \in AdminStatuses : AdminSetStatus(j, s)
      PROVE  KeepAllocations
  BY <1>3, Untouched DEF SubmitJob, StopContainer, AdminSetStatus
<1> QED BY <1>1, <1>2, <1>3 DEF ApiStep, ApiNext

(* No step touches the allocation tables but in these three ways. *)
LEMMA ShapeOfSteps ==
  ASSUME Inv, [Moves]_vars
  PROVE  \/ KeepAllocations
         \/ \E x \in Runs : Exists(x) /\ CloseAllocations(x)
         \/ \E S \in SUBSET Queued : \E assign \in [S -> SUBSET Gpus] : OpenAllocations(S, assign)
<1>1. CASE Moves
  BY <1>1, SchedulerShape, Untouched, WorkersShape, ApiShape DEF Moves
<1>2. CASE UNCHANGED vars
  BY <1>2, Untouched DEF vars, storeVars
<1> QED BY <1>1, <1>2

Tables == Numbered /\ AbsentUnused /\ GpuLedger /\ TerminalRunsReleased

(* The numbering only depends on which rows exist. *)
LEMMA SameRunsNumbered ==
  ASSUME Numbered, SameRuns
  PROVE  Numbered'
<1>1. \A j \in Jobs : \A n \in 1..MaxAttempts : Exists(<<j, n>>)' <=> Exists(<<j, n>>)
  BY DEF SameRuns, Runs
<1> QED BY <1>1 DEF Numbered, Exists

(* A step that leaves the allocation tables alone keeps ledger, numbering  *)
(* and released terminal runs.                                             *)
LEMMA KeepKeepsTables ==
  ASSUME Inv, KeepAllocations
  PROVE  Tables'
<1>1. Numbered'
  BY SameRunsNumbered DEF Inv, KeepAllocations
<1>2. AbsentUnused'
  BY DEF Inv, KeepAllocations, SameRuns, AbsentUnused
<1>3. GpuLedger' /\ TerminalRunsReleased'
  BY DEF Inv, KeepAllocations, GpuLedger, TerminalRunsReleased
<1> QED BY <1>1, <1>2, <1>3 DEF Tables

(* Closing all the allocations of one run keeps ledger and numbering,      *)
(* whatever status the run takes on.                                       *)
LEMMA CloseKeepsTables ==
  ASSUME Inv, NEW x \in Runs, CloseAllocations(x)
  PROVE  Tables'
<1>t. held \in [Runs -> SUBSET Gpus] /\ gpuOwner \in [Gpus -> Runs \cup {NoRun}]
  BY DEF Inv, TypeOK, StoreTypeOK
<1>1. Numbered'
  BY SameRunsNumbered DEF Inv, CloseAllocations
<1>2. \A r \in Runs : held'[r] = IF r = x THEN {} ELSE held[r]
  BY <1>t DEF CloseAllocations, ReleaseGpus
<1>3. AbsentUnused' /\ TerminalRunsReleased'
  BY <1>2 DEF Inv, CloseAllocations, SameRuns, AbsentUnused, TerminalRunsReleased
<1>4. ASSUME NEW g \in Gpus, NEW r \in Runs
      PROVE  gpuOwner'[g] = r <=> g \in held'[r]
  <2>1. gpuOwner'[g] = IF g \in held[x] THEN NoRun ELSE gpuOwner[g]
    BY DEF CloseAllocations, ReleaseGpus
  <2> QED BY <1>2, <2>1, EnvironmentAssumption DEF Inv, GpuLedger
<1>5. GpuLedger'
  BY <1>2, <1>4 DEF Inv, CloseAllocations, GpuLedger
<1> QED BY <1>1, <1>3, <1>5 DEF Tables

(* The tick creates rows that were not there, over devices that were free. *)
LEMMA OpenKeepsTables ==
  ASSUME Inv, NEW S \in SUBSET Queued, NEW assign \in [S -> SUBSET Gpus],
         OpenAllocations(S, assign)
  PROVE  Tables'
<1> DEFINE Created == {NewRun(j) : j \in S}
<1>s. S \in SUBSET Jobs /\ DOMAIN assign = S
  BY DEF Queued
<1>t. /\ runStatus \in [Runs -> RunStatuses \cup {"absent"}]
      /\ gpuOwner \in [Gpus -> Runs \cup {NoRun}]
      /\ held \in [Runs -> SUBSET Gpus] /\ granted \in [Runs -> SUBSET Gpus]
  BY DEF Inv, TypeOK, StoreTypeOK
<1>1. \A j \in S : NewRun(j) \in Runs /\ JobOf(NewRun(j)) = j /\ ~Exists(NewRun(j))
  BY NewRunIsRun, NewRunIsFresh DEF Inv
<1>2. /\ \A j \in S : assign[j] \subseteq AvailableGpus
      /\ \A j, k \in S : j # k => assign[j] \cap assign[k] = {}
  BY DEF OpenAllocations
<1>3. /\ \A r \in Runs : runStatus'[r] = IF r \in Created THEN "scheduled" ELSE runStatus[r]
      /\ \A r \in Runs : granted'[r] = IF r \in Created THEN assign[JobOf(r)] ELSE granted[r]
      /\ \A r \in Runs : held'[r] = IF r \in Created THEN assign[JobOf(r)] ELSE held[r]
  BY <1>s DEF OpenAllocations, CreateRuns
<1>4. \A r \in Runs : Exists(r)' <=> Exists(r) \/ r \in Created
  BY <1>3 DEF Exists
<1>5. Numbered'
  <2> SUFFICES ASSUME NEW j \in Jobs
               PROVE  \E k \in 0..MaxAttempts :
                        \A n \in 1..MaxAttempts : Exists(<<j, n>>)' <=> n <= k
    BY DEF Numbered, Exists
  <2>1. PICK k \in 0..MaxAttempts : \A n \in 1..MaxAttempts : Exists(<<j, n>>) <=> n <= k
    BY DEF Inv, Numbered
  <2>2. \A n \in 1..MaxAttempts : <<j, n>> \in Runs
    BY DEF Runs
  <2>3. \A n \in 1..MaxAttempts : <<j, n>> \in Created <=> j \in S /\ n = Attempt(j)
    BY <1>1 DEF NewRun, JobOf
  <2>4. CASE j \notin S
    BY <1>4, <2>1, <2>2, <2>3, <2>4
  <2>5. CASE j \in S
    <3>1. Attempt(j) = k + 1
      BY <2>1, AttemptIsNext
    <3>2. k + 1 \in 0..MaxAttempts
      BY <2>5, <3>1, FiniteAssumption DEF Queued
    <3>3. \A n \in 1..MaxAttempts : Exists(<<j, n>>)' <=> n <= k + 1
      BY <1>4, <2>1, <2>2, <2>3, <2>5, <3>1
    <3> QED BY <3>2, <3>3
  <2> QED BY <2>4, <2>5
<1>6. AbsentUnused'
  BY <1>3, <1>4 DEF Inv, AbsentUnused
<1>7. TerminalRunsReleased'
  BY <1>3 DEF Inv, TerminalRunsReleased, Terminal
<1>8. \A r \in Created : held[r] = {} /\ granted[r] = {}
  BY <1>1 DEF Inv, AbsentUnused
<1>9. ASSUME NEW g \in Gpus, NEW r \in Runs
      PROVE  gpuOwner'[g] = r <=> g \in held'[r]
  <2>0. gpuOwner[g] = r <=> g \in held[r]
    BY DEF Inv, GpuLedger
  <2>1. CASE \E j \in S : g \in assign[j]
    <3>1. PICK j \in S : g \in assign[j]
      BY <2>1
    <3>2. \A i \in S : g \in assign[i] <=> i = j
      BY <1>2, <3>1
    <3>3. (CHOOSE i \in S : g \in assign[i]) = j
      BY <3>1, <3>2
    <3>4. gpuOwner'[g] = NewRun(j)
      BY <1>s, <2>1, <3>3 DEF OpenAllocations, CreateRuns
    <3>5. gpuOwner[g] = NoRun
      BY <1>2, <3>1 DEF AvailableGpus
    <3>6. CASE r \in Created
      BY <1>1, <1>3, <3>2, <3>4, <3>6
    <3>7. CASE r \notin Created
      BY <1>3, <2>0, <3>4, <3>5, <3>7, EnvironmentAssumption
    <3> QED BY <3>6, <3>7
  <2>2. CASE ~\E j \in S : g \in assign[j]
    <3>1. gpuOwner'[g] = gpuOwner[g]
      BY <1>s, <2>2 DEF OpenAllocations, CreateRuns
    <3>2. r \in Created => g \notin held'[r] /\ g \notin held[r]
      BY <1>1, <1>3, <1>8, <2>2
    <3> QED BY <1>3, <2>0, <3>1, <3>2
  <2> QED BY <2>1, <2>2
<1>10. GpuLedger'
  BY <1>3, <1>9 DEF Inv, GpuLedger
<1> QED BY <1>5, <1>6, <1>7, <1>10 DEF Tables

(* Rows are never deleted. *)
LEMMA RunsStay ==
  ASSUME Inv, [Moves]_vars
  PROVE  \A r \in Runs : Exists(r) => Exists(r)'
<1>1. CASE KeepAllocations
  BY <1>1 DEF KeepAllocations, SameRuns
<1>2. ASSUME NEW x \in Runs, CloseAllocations(x)
      PROVE  \A r \in Runs : Exists(r) => Exists(r)'
  BY <1>2 DEF CloseAllocations, SameRuns
<1>3. ASSUME NEW S \in SUBSET Queued, NEW assign \in [S -> SUBSET Gpus],
             OpenAllocations(S, assign)
      PROVE  \A r \in Runs : Exists(r) => Exists(r)'
  BY <1>3 DEF OpenAllocations, CreateRuns, Exists
<1> QED BY <1>1, <1>2, <1>3, ShapeOfSteps

(* Whatever the scheduler pushes or lists is a run with a row. *)
LEMMA SchedulerKeepsRunsExist ==
  ASSUME Inv, SchedulerStep
  PROVE  RunsExist'
<1>m. \A r \in Runs : Exists(r) => Exists(r)'
  BY RunsStay DEF Moves
<1>t. TypeOK
  BY DEF Inv
<1>1. (\A w \in Workers : hand[w] # NoRun => Exists(hand[w]))'
  BY <1>m, <1>t DEF SchedulerStep, workerVars, Inv, RunsExist, TypeOK, WorkerTypeOK, Exists
<1>2. (\A c \in Clients : request[c].run # NoRun => Exists(request[c].run))'
  <2>1. \A c \in Clients : request[c].run \in Runs \cup {NoRun}
    BY <1>t DEF TypeOK, ApiTypeOK, RequestStates, Idle
  <2> QED BY <1>m, <2>1 DEF SchedulerStep, apiVars, Inv, RunsExist, Exists
<1>3. ASSUME NEW locked, ScheduleTick(locked)
      PROVE  RunsExist'
  <2>1. queue' = queue
    BY <1>3, TickShape
  <2>2. (\A q \in Queues : \A i \in 1..Len(queue[q]) : Exists(queue[q][i]))'
    <3>1. \A q \in Queues : \A i \in 1..Len(queue[q]) : queue[q][i] \in Runs
      BY <1>t DEF TypeOK, StoreTypeOK
    <3> QED BY <1>m, <2>1, <3>1 DEF Inv, RunsExist, Exists
  <2>3. CASE UNCHANGED <<pending, jobTables>>
    BY <1>1, <1>2, <2>2, <2>3 DEF jobTables, Inv, RunsExist, Exists
  <2>4. ASSUME NEW S \in SUBSET Queued, NEW assign \in [S -> SUBSET Gpus],
               OpenAllocations(S, assign)
        PROVE  RunsExist'
    <3>1. CreateRuns(assign) /\ DOMAIN assign = S
      BY <2>4 DEF OpenAllocations
    <3>2. \A k \in S : NewRun(k) \in Runs
      BY NewRunIsRun
    <3>3. \A k \in S : runStatus'[NewRun(k)] # "absent"
      BY <3>1, <3>2 DEF CreateRuns
    <3>4. pending' = {NewRun(k) : k \in S}
      BY <3>1 DEF CreateRuns
    <3>5. (\A r \in pending : Exists(r))'
      BY <3>3, <3>4 DEF Exists
    <3>6. \A k \in Jobs : latest'[k] = IF k \in S THEN NewRun(k) ELSE latest[k]
      BY <3>1 DEF CreateRuns
    <3>7. (\A k \in Jobs : latest[k] # NoRun => Exists(latest[k]))'
      BY <1>m, <1>t, <3>3, <3>6 DEF Inv, RunsExist, TypeOK, StoreTypeOK, Exists
    <3> QED BY <1>1, <1>2, <2>2, <3>5, <3>7 DEF RunsExist
  <2> QED BY <1>3, <2>3, <2>4, TickShape
<1>4. ASSUME NEW r \in Runs, PushJob(r)
      PROVE  RunsExist'
  <2> DEFINE p == QueueOf[JobOf(r)]
  <2>1. p \in Queues
    BY JobOfRun, QueueAssumption
  <2>2. queue \in [Queues -> Seq(Runs)]
    BY <1>t DEF TypeOK, StoreTypeOK
  <2>3. \A q \in Queues : queue'[q] = IF q = p THEN Append(queue[q], r) ELSE queue[q]
    BY <1>4, <2>1, <2>2 DEF PushJob, RPush
  <2>4. Exists(r)
    BY <1>4 DEF PushJob, RPush, Inv, RunsExist
  <2>5. ASSUME NEW q \in Queues, NEW i \in 1..Len(queue'[q])
        PROVE  Exists(queue'[q][i])
    <3>1. \A k \in 1..Len(queue[q]) : Exists(queue[q][k])
      BY DEF Inv, RunsExist
    <3>2. queue'[q][i] = r \/ (i \in 1..Len(queue[q]) /\ queue'[q][i] = queue[q][i])
      <4>1. CASE q = p
        <5>1. queue'[q] = Append(queue[q], r) /\ queue[q] \in Seq(Runs)
          BY <2>2, <2>3, <4>1
        <5>2. i \in 1..Len(Append(queue[q], r))
          BY <5>1
        <5>3. \/ i = Len(queue[q]) + 1 /\ Append(queue[q], r)[i] = r
              \/ i \in 1..Len(queue[q]) /\ Append(queue[q], r)[i] = queue[q][i]
          BY <5>1, <5>2, AppendedElement
        <5> QED BY <5>1, <5>3
      <4>2. CASE q # p
        BY <2>3, <2>5, <4>2
      <4> QED BY <4>1, <4>2
    <3> QED BY <2>4, <3>1, <3>2
  <2>6. UNCHANGED <<runStatus, latest>> /\ pending' \in SUBSET pending
    BY <1>4 DEF PushJob, RPush, jobTables
  <2> QED BY <1>1, <1>2, <2>5, <2>6 DEF Inv, RunsExist, Exists
<1>5. ASSUME PushFails \/ TickFails
      PROVE  RunsExist'
  BY <1>1, <1>2, <1>5 DEF PushFails, TickFails, storeVars, jobTables, Inv, RunsExist, Exists
<1> QED BY <1>3, <1>4, <1>5 DEF SchedulerStep, SchedulerNext

(* Whatever a worker pops or handles is a run with a row. *)
LEMMA WorkersKeepRunsExist ==
  ASSUME Inv, WorkersStep
  PROVE  RunsExist'
<1>m. \A r \in Runs : Exists(r) => Exists(r)'
  BY RunsStay DEF Moves
<1>t. TypeOK /\ UNCHANGED <<schedulerVars, apiVars>>
  BY DEF Inv, WorkersStep
<1>q. queue \in [Queues -> Seq(Runs)] /\ hand \in [Workers -> Runs \cup {NoRun}]
  BY <1>t DEF TypeOK, StoreTypeOK, WorkerTypeOK
<1>1. latest' = latest
  BY DEF WorkersStep, WorkerStep, WorkerFault, WorkerStart, PopJob, BLPop, PickupReadRun,
     PickupReadJob,
     PickupCommit, Launch, LaunchFails, RunnerReturn, RunnerGivesUp, FinalReadJob, FinalReadRun,
     FinalCommit, MarkRunFailed, ExecuteRaises, WorkerStops, WorkerCrash, ContainerStarts,
     ContainerExit, storeVars, jobTables
<1>2. (\A j \in Jobs : latest[j] # NoRun => Exists(latest[j]))'
  BY <1>m, <1>t, <1>1 DEF Inv, RunsExist, TypeOK, StoreTypeOK, Exists
<1>3. (\A r \in pending : Exists(r))'
  BY <1>m, <1>t DEF schedulerVars, Inv, RunsExist, TypeOK, SchedulerTypeOK, Exists
<1>4. (\A c \in Clients : request[c].run # NoRun => Exists(request[c].run))'
  <2>1. \A c \in Clients : request[c].run \in Runs \cup {NoRun}
    BY <1>t DEF TypeOK, ApiTypeOK, RequestStates, Idle
  <2> QED BY <1>m, <1>t, <2>1 DEF apiVars, Inv, RunsExist, Exists
<1>5. /\ (\A q \in Queues : \A i \in 1..Len(queue[q]) : Exists(queue[q][i]))'
      /\ (\A w \in Workers : hand[w] # NoRun => Exists(hand[w]))'
  <2>1. ASSUME NEW w \in Workers, PopJob(w)
        PROVE  <1>5!:
    <3> DEFINE p == ListensOn[w]
    <3>1. p \in Queues /\ queue[p] \in Seq(Runs) /\ queue[p] # <<>>
      BY <1>q, <2>1, QueueAssumption DEF PopJob, BLPop
    <3>2. Exists(Head(queue[p]))
      BY <3>1 DEF Inv, RunsExist
    <3>3. \A q \in Queues : queue'[q] = IF q = p THEN Tail(queue[q]) ELSE queue[q]
      BY <1>q, <2>1, <3>1 DEF PopJob, BLPop
    <3>4. \A v \in Workers : hand'[v] = IF v = w THEN Head(queue[p]) ELSE hand[v]
      BY <1>q, <2>1 DEF PopJob, BLPop
    <3>5. ASSUME NEW q \in Queues, NEW i \in 1..Len(queue'[q])
          PROVE  Exists(queue'[q][i])
      <4>1. \A k \in 1..Len(queue[q]) : Exists(queue[q][k])
        BY DEF Inv, RunsExist
      <4>2. \E k \in 1..Len(queue[q]) : queue'[q][i] = queue[q][k]
        <5>1. CASE q = p
          <6>1. queue'[q] = Tail(queue[q]) /\ queue[q] \in Seq(Runs) /\ queue[q] # <<>>
            BY <3>1, <3>3, <5>1
          <6>2. i \in 1..Len(Tail(queue[q]))
            BY <6>1
          <6>3. i + 1 \in 1..Len(queue[q]) /\ Tail(queue[q])[i] = queue[q][i + 1]
            BY <6>1, <6>2, RestElement
          <6> QED BY <6>1, <6>3
        <5>2. CASE q # p
          BY <3>3, <3>5, <5>2
        <5> QED BY <5>1, <5>2
      <4> QED BY <4>1, <4>2
    <3>6. \A v \in Workers : hand'[v] # NoRun => Exists(hand'[v])
      BY <3>2, <3>4 DEF Inv, RunsExist
    <3>7. runStatus' = runStatus
      BY <2>1 DEF PopJob, BLPop, jobTables
    <3> QED BY <3>5, <3>6, <3>7 DEF Exists
  <2>2. ASSUME ~\E w \in Workers : PopJob(w)
        PROVE  <1>5!:
    <3>1. queue' = queue /\ \A w \in Workers : hand'[w] \in {hand[w], NoRun}
      BY <1>q, <2>2 DEF WorkersStep, WorkerStep, WorkerFault, WorkerStart, PickupReadRun,
         PickupReadJob, PickupCommit, Launch, LaunchFails, RunnerReturn, RunnerGivesUp,
         FinalReadJob, FinalReadRun, FinalCommit, MarkRunFailed, ExecuteRaises, WorkerStops,
         WorkerCrash, ContainerStarts, ContainerExit, Drop, EndTransaction, storeVars, workerVars
    <3>2. \A q \in Queues : \A i \in 1..Len(queue[q]) : queue[q][i] \in Runs
      BY <1>q
    <3> QED BY <1>m, <1>q, <3>1, <3>2 DEF Inv, RunsExist, Exists
  <2> QED BY <2>1, <2>2
<1> QED BY <1>2, <1>3, <1>4, <1>5 DEF RunsExist

(* Whatever a request refers to is a run with a row. *)
LEMMA ApiKeepsRunsExist ==
  ASSUME Inv, ApiStep
  PROVE  RunsExist'
<1>m. \A r \in Runs : Exists(r) => Exists(r)'
  BY RunsStay DEF Moves
<1>t. TypeOK /\ UNCHANGED <<schedulerVars, workerVars>>
  BY DEF Inv, ApiStep
<1>r. request \in [Clients -> RequestStates] /\ \A c \in Clients : request[c].run \in Runs \cup {NoRun}
  BY <1>t DEF TypeOK, ApiTypeOK, RequestStates, Idle
<1>1. UNCHANGED <<latest, queue>>
  BY DEF ApiStep, ApiNext, ClientStep, SubmitJob, CancelReadJob, CancelReadRun, CancelFlush,
     CancelCommit, CancelAborts, StopContainer, AdminSetStatus, storeVars, jobTables
<1>2. /\ (\A j \in Jobs : latest[j] # NoRun => Exists(latest[j]))'
      /\ (\A q \in Queues : \A i \in 1..Len(queue[q]) : Exists(queue[q][i]))'
  <2>1. /\ latest \in [Jobs -> Runs \cup {NoRun}]
        /\ \A q \in Queues : \A i \in 1..Len(queue[q]) : queue[q][i] \in Runs
    BY <1>t DEF TypeOK, StoreTypeOK
  <2>2. (\A j \in Jobs : latest[j] # NoRun => Exists(latest[j]))'
    BY <1>m, <1>1, <2>1 DEF Inv, RunsExist, Exists
  <2>3. (\A q \in Queues : \A i \in 1..Len(queue[q]) : Exists(queue[q][i]))'
    BY <1>m, <1>1, <2>1 DEF Inv, RunsExist, Exists
  <2> QED BY <2>2, <2>3
<1>3. /\ (\A r \in pending : Exists(r))'
      /\ (\A w \in Workers : hand[w] # NoRun => Exists(hand[w]))'
  BY <1>m, <1>t DEF schedulerVars, workerVars, Inv, RunsExist, TypeOK, SchedulerTypeOK,
     WorkerTypeOK, Exists
<1>4. ASSUME NEW d \in Clients
      PROVE  request'[d].run # NoRun => runStatus'[request'[d].run] # "absent"
  <2>1. request[d].run # NoRun => runStatus'[request[d].run] # "absent"
    BY <1>m, <1>r DEF Inv, RunsExist, Exists
  <2>2. ASSUME NEW c \in Clients, NEW j \in Jobs, CancelReadJob(c, j)
        PROVE  request'[d].run \in {request[d].run, latest[j]}
    BY <1>r, <2>2 DEF CancelReadJob
  <2>3. ASSUME NEW c \in Clients, CancelReadRun(c) \/ CancelFlush(c) \/ CancelCommit(c) \/ CancelAborts(c)
        PROVE  request'[d].run \in {request[d].run, NoRun}
    BY <1>r, <2>3 DEF CancelReadRun, CancelFlush, CancelCommit, CancelAborts, Idle
  <2>4. ASSUME ~\E c \in Clients : ClientStep(c)
        PROVE  request' = request
    BY <2>4 DEF ApiStep, ApiNext, SubmitJob, StopContainer, AdminSetStatus, apiVars
  <2>5. \A j \in Jobs : latest[j] # NoRun => runStatus'[latest[j]] # "absent"
    BY <1>1, <1>2 DEF Exists
  <2> QED BY <2>1, <2>2, <2>3, <2>4, <2>5 DEF ClientStep
<1> QED BY <1>2, <1>3, <1>4 DEF RunsExist, Exists

(* The invariant holds in the empty database. *)
LEMMA InitInv == Init => Inv
<1> SUFFICES ASSUME Init PROVE Inv
  OBVIOUS
<1> USE DEF Init, StoreInit, SchedulerInit, WorkerInit, ApiInit
<1>1. TypeOK /\ BatchQueued
  BY InitTypeOK, InitBatch
<1>0. FoundAvailable
  BY DEF FoundAvailable, Apart, ServedBy, NoneFound
<1>2. Numbered
  <2>1. 0 \in 0..MaxAttempts /\ \A n \in 1..MaxAttempts : ~(n <= 0)
    BY FiniteAssumption
  <2> QED BY <2>1 DEF Numbered, Exists, Runs
<1>3. RunsExist /\ AbsentUnused
  BY DEF RunsExist, AbsentUnused, Idle
<1>4. GpuLedger /\ TerminalRunsReleased
  BY EnvironmentAssumption DEF GpuLedger, TerminalRunsReleased
<1> QED BY <1>0, <1>1, <1>2, <1>3, <1>4 DEF Inv

(* What has been found for the jobs of a transaction stays available.      *)
LEMMA FoundStaysAvailable ==
  ASSUME Inv, [Next]_vars
  PROVE  FoundAvailable'
<1>1. CASE UNCHANGED vars
  BY <1>1 DEF vars, storeVars, jobTables, schedulerVars, Inv, FoundAvailable, Apart, ServedBy,
     AvailableGpus
<1>2. ASSUME batch' = {}, found' = NoneFound
      PROVE  FoundAvailable'
  BY <1>2 DEF FoundAvailable, Apart, ServedBy, NoneFound
<1>3. ASSUME UNCHANGED found, AvailableGpus \subseteq AvailableGpus'
      PROVE  FoundAvailable'
  BY <1>3 DEF Inv, FoundAvailable, Apart, ServedBy
<1>4. ASSUME NEW jobs, NEW j \in Jobs \ DOMAIN found, NEW G \in Offers(j, found),
             GoOn(jobs, [k \in DOMAIN found \cup {j} |-> IF k = j THEN G ELSE found[k]])
      PROVE  FoundAvailable'
  <2> DEFINE f == [k \in DOMAIN found \cup {j} |-> IF k = j THEN G ELSE found[k]]
  <2>1. Apart(f)
    BY LookApart
  <2>2. found' = f /\ gpuOwner' = gpuOwner
    BY <1>4 DEF GoOn, jobTables
  <2> HIDE DEF f
  <2> QED BY <2>1, <2>2 DEF FoundAvailable, Apart, ServedBy, AvailableGpus
<1>5. ASSUME Moves, UNCHANGED <<batch, found>>
      PROVE  FoundAvailable'
  <2>1. CASE KeepAllocations
    BY <1>3, <1>5, <2>1 DEF KeepAllocations, AvailableGpus
  <2>2. ASSUME NEW x \in Runs, CloseAllocations(x)
        PROVE  FoundAvailable'
    BY <1>3, <1>5, <2>2 DEF CloseAllocations, ReleaseGpus, AvailableGpus
  <2>3. ASSUME NEW S, NEW assign, OpenAllocations(S, assign)
        PROVE  FoundAvailable'
    BY <1>2, <2>3 DEF OpenAllocations
  <2> QED BY <1>5, <2>1, <2>2, <2>3, ShapeOfSteps
<1> QED BY <1>1, <1>2, <1>4, <1>5, BatchMoves DEF Next, Inv

(* Every step of the system keeps the invariant. *)
LEMMA NextInv == Inv /\ [Next]_vars => Inv'
<1> SUFFICES ASSUME Inv, [Next]_vars PROVE Inv'
  OBVIOUS
<1>1. TypeOK'
  BY NextTypeOK DEF Inv
<1>0. BatchQueued' /\ FoundAvailable'
  BY BatchStaysQueued, FoundStaysAvailable DEF Inv
<1>2. Tables'
  BY ShapeOfSteps, KeepKeepsTables, CloseKeepsTables, OpenKeepsTables DEF Next
<1>3. RunsExist'
  <2>1. CASE UNCHANGED vars
    BY <2>1 DEF vars, storeVars, jobTables, schedulerVars, workerVars, apiVars, Inv, RunsExist, Exists
  <2>2. CASE Next
    BY <2>2, SchedulerKeepsRunsExist, WorkersKeepRunsExist, ApiKeepsRunsExist DEF Next, Moves
  <2> QED BY <2>1, <2>2
<1> QED BY <1>0, <1>1, <1>2, <1>3 DEF Inv, Tables

(* The invariant holds in every reachable state, for all constants: the    *)
(* ledger of the devices together with what it rests on.                   *)
THEOREM Invariance == Spec => []Inv
  BY InitInv, NextInv, PTL DEF Spec

(* At any moment the device rows and the open allocation rows agree, and a *)
(* device is allocated to at most one run.                                 *)
THEOREM LedgerCorrect == Spec => []GpuLedger
  BY Invariance, PTL DEF Inv

(* No run that is over keeps a device.                                     *)
THEOREM TerminalReleased == Spec => []TerminalRunsReleased
  BY Invariance, PTL DEF Inv

-----------------------------------------------------------------------------
(* The allocation tables implement the pool *)

Served == {r \in Runs : runStatus[r] # "absent"}
SizeOf == [r \in Runs |-> Need[JobOf(r)]]

(* The pool counts as the tables do. *)
LEMMA PoolCardinality ==
  ASSUME NEW T
  PROVE  Pool!Cardinality(T) = Cardinality(T)
  BY DEF Pool!Cardinality, Cardinality

(* A step that leaves the allocations alone is no step of the pool. *)
LEMMA KeepStutters ==
  ASSUME KeepAllocations
  PROVE  UNCHANGED Pool!vars
<1>1. Served' = Served
  BY DEF KeepAllocations, SameRuns, Exists, Served
<1> QED BY <1>1 DEF KeepAllocations, Pool!vars, Served

(* A release returns all devices of the run, or finds none: the rows it    *)
(* closes name exactly the devices that the run owns.                      *)
LEMMA CloseReclaims ==
  ASSUME Inv, NEW x \in Runs, CloseAllocations(x)
  PROVE  [Pool!Next]_(Pool!vars)
<1>1. Served' = Served
  BY DEF CloseAllocations, SameRuns, Exists, Served
<1>2. gpuOwner' = [g \in Gpus |-> IF gpuOwner[g] = x THEN NoRun ELSE gpuOwner[g]]
  BY DEF CloseAllocations, ReleaseGpus, Inv, GpuLedger
<1>3. gpuOwner \in [Gpus -> Runs \cup {NoRun}]
  BY DEF Inv, TypeOK, StoreTypeOK
<1>4. CASE Pool!Of(x) = {}
  <2>1. gpuOwner' = gpuOwner
    BY <1>2, <1>3, <1>4 DEF Pool!Of
  <2> QED BY <1>1, <2>1 DEF Pool!vars, Served
<1>5. CASE Pool!Of(x) # {}
  <2>1. Pool!Reclaim(x)
    BY <1>1, <1>2, <1>5 DEF Pool!Reclaim, Served
  <2> QED BY <2>1 DEF Pool!Next
<1> QED BY <1>4, <1>5

(* A tick serves runs that were not served before, each with as many free  *)
(* devices as its job asks for.                                            *)
LEMMA OpenGrants ==
  ASSUME Inv, NEW S \in SUBSET Queued, NEW assign \in [S -> SUBSET Gpus],
         OpenAllocations(S, assign)
  PROVE  [Pool!Next]_(Pool!vars)
<1> DEFINE Created == {NewRun(j) : j \in S}
           newOwner == [g \in Gpus |-> IF \E j \in S : g \in assign[j]
                                      THEN NewRun(CHOOSE j \in S : g \in assign[j])
                                      ELSE NoRun]
<1>s. S \in SUBSET Jobs /\ DOMAIN assign = S
  BY DEF Queued
<1>t. /\ runStatus \in [Runs -> RunStatuses \cup {"absent"}]
      /\ gpuOwner \in [Gpus -> Runs \cup {NoRun}]
  BY DEF Inv, TypeOK, StoreTypeOK
<1>1. \A j \in S : NewRun(j) \in Runs /\ JobOf(NewRun(j)) = j /\ ~Exists(NewRun(j))
  BY NewRunIsRun, NewRunIsFresh DEF Inv
<1>2. /\ \A j \in S : assign[j] \subseteq AvailableGpus /\ Cardinality(assign[j]) = Need[j]
      /\ \A j, k \in S : j # k => assign[j] \cap assign[k] = {}
  BY DEF OpenAllocations
<1>3. Served' = Served \cup Created
  <2>1. \A r \in Runs : runStatus'[r] = IF r \in Created THEN "scheduled" ELSE runStatus[r]
    BY <1>s DEF OpenAllocations, CreateRuns
  <2> QED BY <1>1, <2>1 DEF Served
<1>4. Created \in SUBSET (Runs \ Served)
  BY <1>1 DEF Exists, Served
<1>5. ASSUME NEW g \in Gpus, NEW j \in S, g \in assign[j]
      PROVE  newOwner[g] = NewRun(j)
  <2>1. \A i \in S : g \in assign[i] <=> i = j
    BY <1>2, <1>5
  <2>2. (CHOOSE i \in S : g \in assign[i]) = j
    BY <1>5, <2>1
  <2> QED BY <1>5, <2>2
<1>6. ASSUME NEW g \in Gpus, ~\E j \in S : g \in assign[j]
      PROVE  newOwner[g] = NoRun
  BY <1>6
<1>7. newOwner \in [Gpus -> Created \cup {NoRun}]
  BY <1>5, <1>6
<1>8. \A g \in Gpus : newOwner[g] # NoRun => g \in Pool!Free
  BY <1>2, <1>6 DEF Pool!Free, AvailableGpus
<1>9. ASSUME NEW h \in Created
      PROVE  Cardinality({g \in Gpus : newOwner[g] = h}) = SizeOf[h]
  <2>1. PICK j \in S : h = NewRun(j)
    OBVIOUS
  <2>2. ASSUME NEW g \in Gpus
        PROVE  newOwner[g] = h <=> g \in assign[j]
    <3>1. CASE \E i \in S : g \in assign[i]
      <4>1. PICK i \in S : g \in assign[i]
        BY <3>1
      <4>2. newOwner[g] = NewRun(i)
        BY <1>5, <4>1
      <4>3. NewRun(i) = h <=> i = j
        BY <1>1, <2>1
      <4>4. g \in assign[j] <=> i = j
        BY <1>2, <4>1
      <4> QED BY <4>2, <4>3, <4>4
    <3>2. CASE ~\E i \in S : g \in assign[i]
      <4>1. newOwner[g] = NoRun
        BY <1>6, <3>2
      <4>2. h # NoRun
        BY <1>1, <2>1, EnvironmentAssumption
      <4> QED BY <3>2, <4>1, <4>2
    <3> QED BY <3>1, <3>2
  <2> HIDE DEF newOwner
  <2>3. {g \in Gpus : newOwner[g] = h} = assign[j]
    BY <2>2
  <2>4. SizeOf[h] = Need[j]
    BY <1>1, <2>1 DEF SizeOf
  <2> QED BY <1>2, <2>3, <2>4
<1>10. gpuOwner' = [g \in Gpus |-> IF newOwner[g] # NoRun THEN newOwner[g] ELSE gpuOwner[g]]
  <2>1. \A j \in S : NewRun(j) # NoRun
    BY <1>1, EnvironmentAssumption
  <2>2. gpuOwner' = [g \in Gpus |->
                       IF \E j \in S : g \in assign[j]
                       THEN NewRun(CHOOSE j \in S : g \in assign[j])
                       ELSE gpuOwner[g]]
    BY <1>s DEF OpenAllocations, CreateRuns
  <2>3. ASSUME NEW g \in Gpus
        PROVE  gpuOwner'[g] = IF newOwner[g] # NoRun THEN newOwner[g] ELSE gpuOwner[g]
    <3>1. CASE \E j \in S : g \in assign[j]
      <4>1. PICK j \in S : g \in assign[j]
        BY <3>1
      <4>2. newOwner[g] = NewRun(j)
        BY <1>5, <4>1
      <4> QED BY <2>1, <2>2, <3>1, <4>2
    <3>2. CASE ~\E j \in S : g \in assign[j]
      BY <1>6, <2>2, <3>2
    <3> QED BY <3>1, <3>2
  <2> HIDE DEF newOwner
  <2> QED BY <2>2, <2>3
<1> HIDE DEF newOwner
<1>11. CASE Created = {}
  <2>1. gpuOwner' = gpuOwner
    BY <1>7, <1>10, <1>11, <1>t
  <2> QED BY <1>3, <1>11, <2>1 DEF Pool!vars, Served
<1>12. CASE Created # {}
  <2> HIDE DEF Created
  <2>1. Pool!Grant
    BY <1>3, <1>4, <1>7, <1>8, <1>9, <1>10, <1>12, PoolCardinality
       DEF Pool!Grant, Served, SizeOf
  <2> QED BY <2>1 DEF Pool!Next
<1> QED BY <1>11, <1>12

(* Whatever fails, is cancelled or overridden, the tables go through the   *)
(* steps of the pool only: every run is served at most once, with exactly  *)
(* the devices it asked for, all free, and returns all of them at once.    *)
THEOREM PoolRefined == Spec => PoolSpec
<1>1. Init => Pool!Init
  BY DEF Init, StoreInit, Pool!Init
<1>2. Inv /\ [Next]_vars => [Pool!Next]_(Pool!vars)
  BY ShapeOfSteps, KeepStutters, CloseReclaims, OpenGrants DEF Next, Exists
<1> QED BY <1>1, <1>2, Invariance, PTL DEF Spec, PoolSpec, Pool!Spec
=============================================================================
