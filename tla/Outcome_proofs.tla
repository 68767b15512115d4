--------------------------- MODULE Outcome_proofs ---------------------------
(***************************************************************************)
(* Proofs about the outcome of jobs and runs in GpuScheduler.  What holds  *)
(* only as long as something does not happen is proved of one job or one   *)
(* run, under the condition that it does not happen to this one: whatever  *)
(* is cancelled, overridden or lost elsewhere makes no difference.  That   *)
(* it holds of all of them when it happens to none is a consequence.       *)
(***************************************************************************)
EXTENDS Dispatch_proofs

-----------------------------------------------------------------------------
(* What may happen to a job or a run *)

(* A request cancels the job, or the run. *)
Cancels(j) == \E c \in Clients : CancelCommit(c) /\ request[c].job = j
CancelsRun(r) == \E c \in Clients : CancelCommit(c) /\ request[c].run = r

(* An administrator gives the job one of the statuses. *)
Overrides(j, statuses) == \E s \in statuses : AdminSetStatus(j, s)

(* The container of the run is up, or docker is about to create it. *)
Alive(r) == container[r] \in {"starting", "up"}

(* The runner gives the run up and its removal misses the container: it    *)
(* fails, or docker has yet to create the container.                       *)
LeavesUp(r) == \E w \in Workers : RunnerGivesUp(w) /\ hand[w] = r /\ Alive(r)'

(* The scheduler drops the run from its list, or its worker goes. *)
Loses(r) ==
  \/ PushFails /\ r \in pending
  \/ \E w \in Workers : hand[w] = r /\ (WorkerStops(w) \/ WorkerCrash(w))

(* A request cancels the job as one that is queued, which it is no longer. *)
CancelsLate(j) ==
  \E c \in Clients : /\ CancelCommit(c) /\ request[c].job = j
                     /\ request[c].sawJob = "queued" /\ jobStatus[j] # "queued"

-----------------------------------------------------------------------------
(* Who writes a status *)

(* The status of a job changes at its submission, in a tick, at pickup, in *)
(* the last transaction, in the failure handler, by a cancellation and by  *)
(* an administrator.                                                       *)
LEMMA JobMoves ==
  ASSUME Inv, [Moves]_vars, NEW j \in Jobs, jobStatus'[j] # jobStatus[j]
  PROVE  \/ jobStatus[j] = "absent" /\ jobStatus'[j] = "queued"
         \/ jobStatus[j] = "queued" /\ jobStatus'[j] = "scheduled"
         \/ \E w \in Workers : /\ JobOf(hand[w]) = j
                               /\ \/ PickupCommit(w) /\ jobStatus'[j] = "running"
                                  \/ FinalCommit(w) /\ jobStatus'[j] = FinalStatus(w)
                                  \/ MarkRunFailed(w) /\ jobStatus'[j] = "failed"
         \/ jobStatus'[j] = "cancelled" /\ Cancels(j)
         \/ \E s \in AdminStatuses : jobStatus'[j] = s /\ AdminSetStatus(j, s)
<1>t. jobStatus \in [Jobs -> JobStatuses \cup {"absent"}]
  BY DEF Inv, TypeOK, StoreTypeOK
<1>1. CASE SchedulerStep
  <2>1. ~UNCHANGED jobTables
    BY DEF jobTables
  <2>s. PICK S \in SUBSET Queued : \E assign \in [S -> SUBSET Gpus] : OpenAllocations(S, assign)
    BY <1>1, <2>1, SchedulerShape
  <2>2. PICK assign \in [S -> SUBSET Gpus] : OpenAllocations(S, assign)
    BY <2>s
  <2>3. jobStatus'[j] = IF j \in S THEN "scheduled" ELSE jobStatus[j]
    BY <2>2 DEF OpenAllocations, CreateRuns
  <2> QED BY <2>3 DEF Queued
<1>2. CASE WorkersStep
  <2>1. ASSUME NEW w \in Workers, PickupCommit(w) \/ FinalCommit(w) \/ MarkRunFailed(w)
        PROVE  /\ JobOf(hand[w]) = j
               /\ \/ PickupCommit(w) /\ jobStatus'[j] = "running"
                  \/ FinalCommit(w) /\ jobStatus'[j] = FinalStatus(w)
                  \/ MarkRunFailed(w) /\ jobStatus'[j] = "failed"
    BY <1>t, <2>1 DEF PickupCommit, FinalCommit, WriteFinalStatus, MarkRunFailed, OrmSet
  <2>2. ASSUME ~\E w \in Workers : PickupCommit(w) \/ FinalCommit(w) \/ MarkRunFailed(w)
        PROVE  FALSE
    BY <1>2, <2>2 DEF WorkersStep, WorkerStep, WorkerFault, WorkerStart, PopJob, PickupReadRun,
       PickupReadJob, Launch, LaunchFails, RunnerReturn, RunnerGivesUp, FinalReadJob,
       FinalReadRun, ExecuteRaises, WorkerStops, WorkerCrash, ContainerStarts, ContainerExit, storeVars, jobTables
  <2> QED BY <2>1, <2>2
<1>3. CASE ApiStep
  <2>1. ASSUME NEW k \in Jobs, SubmitJob(k)
        PROVE  jobStatus[j] = "absent" /\ jobStatus'[j] = "queued"
    BY <1>t, <2>1 DEF SubmitJob
  <2>2. ASSUME NEW c \in Clients, CancelCommit(c)
        PROVE  jobStatus'[j] = "cancelled" /\ Cancels(j)
    BY <1>t, <2>2 DEF CancelCommit, Cancels
  <2>3. ASSUME NEW k \in Jobs, NEW s \in AdminStatuses, AdminSetStatus(k, s)
        PROVE  jobStatus'[j] = s /\ AdminSetStatus(j, s)
    BY <1>t, <2>3 DEF AdminSetStatus
  <2>4. ASSUME NEW c \in Clients, ClientStep(c), ~CancelCommit(c)
        PROVE  FALSE
    BY <2>4 DEF ClientStep, CancelReadJob, CancelReadRun, CancelFlush, CancelAborts, storeVars, jobTables
  <2>5. ASSUME NEW r \in Runs, StopContainer(r)
        PROVE  FALSE
    BY <2>5 DEF StopContainer, jobTables
  <2> QED BY <1>3, <2>1, <2>2, <2>3, <2>4, <2>5 DEF ApiStep, ApiNext
<1>4. CASE UNCHANGED vars
  BY <1>4 DEF vars, storeVars, jobTables
<1> QED BY <1>1, <1>2, <1>3, <1>4 DEF Moves

(* The status of a run changes likewise. *)
LEMMA RunMoves ==
  ASSUME Inv, [Moves]_vars, NEW r \in Runs, runStatus'[r] # runStatus[r]
  PROVE  \/ ~Exists(r) /\ runStatus'[r] = "scheduled" /\ jobStatus'[JobOf(r)] = "scheduled"
         \/ \E w \in Workers : /\ hand[w] = r
                               /\ \/ PickupCommit(w) /\ runStatus'[r] = "running"
                                  \/ FinalCommit(w) /\ runStatus'[r] = FinalStatus(w)
                                  \/ MarkRunFailed(w) /\ runStatus'[r] = "failed"
         \/ runStatus'[r] = "cancelled" /\ CancelsRun(r)
<1>t. runStatus \in [Runs -> RunStatuses \cup {"absent"}]
  BY DEF Inv, TypeOK, StoreTypeOK
<1>1. CASE SchedulerStep
  <2>1. ~UNCHANGED jobTables
    BY DEF jobTables
  <2>s. PICK S \in SUBSET Queued : \E assign \in [S -> SUBSET Gpus] : OpenAllocations(S, assign)
    BY <1>1, <2>1, SchedulerShape
  <2>2. PICK assign \in [S -> SUBSET Gpus] : OpenAllocations(S, assign)
    BY <2>s
  <2>3. PICK j \in S : r = NewRun(j)
    BY <2>2 DEF OpenAllocations, CreateRuns
  <2>4. j \in Jobs /\ JobOf(r) = j /\ ~Exists(r)
    BY <2>3, NewRunIsRun, NewRunIsFresh DEF Inv, Queued
  <2> QED BY <2>2, <2>3, <2>4 DEF OpenAllocations, CreateRuns
<1>2. CASE WorkersStep
  <2>1. ASSUME NEW w \in Workers, PickupCommit(w) \/ FinalCommit(w) \/ MarkRunFailed(w)
        PROVE  /\ hand[w] = r
               /\ \/ PickupCommit(w) /\ runStatus'[r] = "running"
                  \/ FinalCommit(w) /\ runStatus'[r] = FinalStatus(w)
                  \/ MarkRunFailed(w) /\ runStatus'[r] = "failed"
    BY <1>t, <2>1 DEF PickupCommit, FinalCommit, WriteFinalStatus, MarkRunFailed, OrmSet
  <2>2. ASSUME ~\E w \in Workers : PickupCommit(w) \/ FinalCommit(w) \/ MarkRunFailed(w)
        PROVE  FALSE
    BY <1>2, <2>2 DEF WorkersStep, WorkerStep, WorkerFault, WorkerStart, PopJob, PickupReadRun,
       PickupReadJob, Launch, LaunchFails, RunnerReturn, RunnerGivesUp, FinalReadJob,
       FinalReadRun, ExecuteRaises, WorkerStops, WorkerCrash, ContainerStarts, ContainerExit, storeVars, jobTables
  <2> QED BY <2>1, <2>2
<1>3. CASE ApiStep
  <2>1. ASSUME NEW c \in Clients, CancelCommit(c)
        PROVE  runStatus'[r] = "cancelled" /\ CancelsRun(r)
    BY <1>t, <2>1 DEF CancelCommit, CancelRunAndReleaseGpus, CancelsRun
  <2>2. ASSUME ~\E c \in Clients : CancelCommit(c)
        PROVE  FALSE
    BY <1>3, <2>2 DEF ApiStep, ApiNext, ClientStep, SubmitJob, CancelReadJob, CancelReadRun,
       CancelFlush, CancelAborts, StopContainer, AdminSetStatus, storeVars, jobTables
  <2> QED BY <2>1, <2>2
<1>4. CASE UNCHANGED vars
  BY <1>4 DEF vars, storeVars, jobTables
<1> QED BY <1>1, <1>2, <1>3, <1>4 DEF Moves

(* A run comes on its way when its row is created, and never again. *)
OnWay(r) == r \in pending \/ Queueing(r) \/ InHand(r)

LEMMA OnWayMoves ==
  ASSUME Inv, [Moves]_vars, NEW r \in Runs, OnWay(r)'
  PROVE  OnWay(r) \/ ~Exists(r)
<1>1. CASE Queueing(r)'
  BY <1>1, QueueingFrom DEF OnWay
<1>2. CASE r \in pending'
  BY <1>2, DispatchMoves DEF Forgets, Lists, Pushes, Pops, OnWay
<1>3. CASE InHand(r)'
  <2>1. PICK w \in Workers : hand'[w] = r
    BY <1>3 DEF InHand
  <2>2. hand \in [Workers -> Runs \cup {NoRun}] /\ \A q \in Queues : queue[q] \in Seq(Runs)
    BY OnTheWayExist DEF Inv, TypeOK, WorkerTypeOK
  <2>3. CASE hand[w] = r
    BY <2>3 DEF InHand, OnWay
  <2>4. CASE hand[w] # r
    <3>1. PICK v \in Workers : Pops(v)
      BY <2>1, <2>4, DispatchMoves, EnvironmentAssumption DEF Forgets, Lists, Pushes
    <3>2. r = Head(queue[ListensOn[v]])
      BY <2>1, <2>2, <2>4, <3>1 DEF Pops
    <3>3. ListensOn[v] \in Queues /\ queue[ListensOn[v]] # <<>>
      BY <3>1, QueueAssumption DEF Pops, BLPop
    <3>4. Head(queue[ListensOn[v]]) = queue[ListensOn[v]][1] /\ 1 \in 1..Len(queue[ListensOn[v]])
      BY <2>2, <3>3
    <3> QED BY <3>2, <3>3, <3>4 DEF Queueing, Positions, OnWay
  <2> QED BY <2>3, <2>4
<1> QED BY <1>1, <1>2, <1>3 DEF OnWay

-----------------------------------------------------------------------------
(* What holds of all jobs and runs, whatever happens *)

(* The zero that a runner reported is that of the container. *)
ZeroIsReal == \A w \in Workers : exit[w] = "ok" => pc[w] \in AfterRun /\ container[hand[w]] = "ok"

(* A run that the last transaction has seen finished is finished. *)
SeenIsOver ==
  \A w \in Workers : pc[w] = "gotFinalRun" /\ sawRun[w] \in Terminal => runStatus[hand[w]] \in Terminal

(* Completed stands for a zero of the container. *)
RunOutcomeIsReal == \A r \in Runs : runStatus[r] = "completed" => container[r] = "ok"

(* A request cancels a run of the job that it cancels. *)
RequestsMatch == \A c \in Clients : request[c].run # NoRun => request[c].job = JobOf(request[c].run)

Common ==
  /\ SingleDispatch /\ NotStarted /\ LatestIsLast
  /\ ZeroIsReal /\ SeenIsOver /\ RunOutcomeIsReal /\ RequestsMatch

(* A run in the hands of a worker is a run of the table. *)
LEMMA HandExists ==
  ASSUME Inv, NEW w \in Workers, pc[w] \notin {"down", "idle"}
  PROVE  hand[w] \in Runs /\ Exists(hand[w]) /\ JobOf(hand[w]) \in Jobs /\ OnWay(hand[w])
  BY HandIsRun, JobOfRun, EnvironmentAssumption DEF Inv, TypeOK, RunsExist, OnWay, InHand

(* The last transaction ends job and run. *)
LEMMA FinalIsTerminal == \A w \in Workers : FinalStatus(w) \in Terminal
  BY DEF FinalStatus, Terminal

(* A row is created for a job that is queued, makes it scheduled, and is   *)
(* listed to be pushed.                                                    *)
LEMMA CreatedScheduled ==
  ASSUME Inv, [Moves]_vars, NEW r \in Runs, ~Exists(r), Exists(r)'
  PROVE  /\ jobStatus[JobOf(r)] = "queued"
         /\ jobStatus'[JobOf(r)] = "scheduled" /\ runStatus'[r] = "scheduled"
         /\ r \in pending' /\ held'[r] = granted'[r]
<1>1. ~SameRuns
  BY DEF SameRuns
<1>2. ASSUME NEW S \in SUBSET Queued, NEW assign \in [S -> SUBSET Gpus], OpenAllocations(S, assign)
      PROVE  /\ jobStatus[JobOf(r)] = "queued"
         /\ jobStatus'[JobOf(r)] = "scheduled" /\ runStatus'[r] = "scheduled"
             /\ r \in pending' /\ held'[r] = granted'[r]
  <2>1. PICK j \in S : r = NewRun(j)
    BY <1>2 DEF OpenAllocations, CreateRuns, Exists
  <2>2. JobOf(r) = j /\ j \in Jobs /\ jobStatus[j] = "queued"
    BY <2>1, NewRunIsRun DEF Queued
  <2> QED BY <1>2, <2>1, <2>2 DEF OpenAllocations, CreateRuns
<1> QED BY <1>1, <1>2, ShapeOfSteps DEF KeepAllocations, CloseAllocations

(* A container that ended with zero stays so. *)
LEMMA OkStays ==
  ASSUME Inv, NotStarted, [Moves]_vars, NEW r \in Runs, container[r] = "ok"
  PROVE  container'[r] = "ok"
  BY StartsOnce

LEMMA ZeroIsRealKept ==
  ASSUME Inv, NotStarted, ZeroIsReal, [Moves]_vars
  PROVE  ZeroIsReal'
<1>t. /\ hand \in [Workers -> Runs \cup {NoRun}] /\ pc \in [Workers -> WorkerPcs]
      /\ exit \in [Workers -> {"ok", "err"}] /\ container \in [Runs -> ContainerStates]
  BY DEF Inv, TypeOK, StoreTypeOK, WorkerTypeOK
<1>1. ASSUME NEW w \in Workers, exit'[w] = "ok"
      PROVE  pc'[w] \in AfterRun /\ hand'[w] = hand[w] /\ hand[w] \in Runs /\ container'[hand[w]] = "ok"
  <2>1. CASE exit[w] = "ok" /\ pc'[w] \in AfterRun /\ hand'[w] = hand[w]
    <3>1. pc[w] \in AfterRun /\ container[hand[w]] = "ok"
      BY <2>1 DEF ZeroIsReal
    <3>2. hand[w] \in Runs
      BY <3>1, HandExists DEF AfterRun
    <3> QED BY <2>1, <3>1, <3>2, OkStays
  <2>2. CASE UNCHANGED <<pc, hand, exit>>
    BY <1>1, <2>1, <2>2 DEF ZeroIsReal
  <2>3. ASSUME NEW v \in Workers, WorkerStep(v) \/ WorkerFault(v)
        PROVE  pc'[w] \in AfterRun /\ hand'[w] = hand[w] /\ hand[w] \in Runs /\ container'[hand[w]] = "ok"
    <3>1. CASE v # w
      <4>1. pc'[w] = pc[w] /\ hand'[w] = hand[w] /\ exit'[w] = exit[w]
        BY <1>t, <2>3, <3>1 DEF WorkerStep, WorkerFault, WorkerStart, PopJob, PickupReadRun,
           PickupReadJob, PickupCommit, Launch, LaunchFails, RunnerReturn, RunnerGivesUp,
           FinalReadJob, FinalReadRun, FinalCommit, MarkRunFailed, ExecuteRaises, WorkerStops,
           WorkerCrash, Goto, Drop
      <4> QED BY <1>1, <2>1, <4>1 DEF ZeroIsReal
    <3>2. CASE v = w /\ (RunnerReturn(w) \/ RunnerGivesUp(w))
      <4>1. hand[w] \in Runs
        BY <3>2, HandExists DEF RunnerReturn, RunnerGivesUp, Goto
      <4> QED BY <1>t, <1>1, <3>2, <4>1 DEF RunnerReturn, RunnerGivesUp, Goto, AfterRun, storeVars
    <3>3. CASE v = w /\ (FinalReadJob(w) \/ FinalReadRun(w))
      BY <1>t, <1>1, <2>1, <3>3 DEF FinalReadJob, FinalReadRun, Goto, AfterRun
    <3>4. CASE v = w /\ ~(RunnerReturn(w) \/ RunnerGivesUp(w) \/ FinalReadJob(w) \/ FinalReadRun(w))
      <4>1. exit'[w] = "err" \/ (exit' = exit /\ pc[w] \notin AfterRun)
        BY <1>t, <2>3, <3>4 DEF WorkerStep, WorkerFault, WorkerStart, PopJob, PickupReadRun,
           PickupReadJob, PickupCommit, Launch, LaunchFails, FinalCommit, MarkRunFailed,
           ExecuteRaises, WorkerStops, WorkerCrash, Goto, Drop, AfterRun
      <4> QED BY <1>1, <4>1 DEF ZeroIsReal
    <3> QED BY <3>1, <3>2, <3>3, <3>4
  <2>4. ASSUME ~\E v \in Workers : WorkerStep(v) \/ WorkerFault(v)
        PROVE  UNCHANGED <<pc, hand, exit>>
    BY <2>4 DEF Moves, SchedulerStep, WorkersStep, ContainerStarts, ContainerExit, ApiStep, workerVars, vars
  <2> QED BY <2>2, <2>3, <2>4
<1> QED BY <1>1 DEF ZeroIsReal

(* The last transaction and the failure handler take a run off its way. *)
LEMMA DoneIsOffWay ==
  ASSUME Inv, SingleDispatch, [Moves]_vars, NEW w \in Workers, FinalCommit(w) \/ MarkRunFailed(w),
         NEW r \in Runs, hand[w] = r
  PROVE  ~OnWay(r)'
<1>1. /\ hand' = [hand EXCEPT ![w] = NoRun] /\ queue' = queue
      /\ hand \in [Workers -> Runs \cup {NoRun}]
  BY DEF FinalCommit, MarkRunFailed, Drop, Inv, TypeOK, WorkerTypeOK
<1>2. r \notin pending /\ ~Queueing(r) /\ \A v \in Workers : hand[v] = r => v = w
  BY EnvironmentAssumption DEF SingleDispatch, InHand
<1>3. pending' = pending
  BY DEF Moves, SchedulerStep, WorkersStep, ApiStep, schedulerVars, workerVars, FinalCommit,
     MarkRunFailed, Goto, vars, Inv, TypeOK, WorkerTypeOK
<1>4. \A v \in Workers : hand'[v] # r
  BY <1>1, <1>2, EnvironmentAssumption
<1> QED BY <1>1, <1>2, <1>3, <1>4 DEF OnWay, InHand, Queueing, Positions

(* ... and leave it over. *)
LEMMA DoneIsOver ==
  ASSUME Inv, SeenIsOver, NEW w \in Workers, FinalCommit(w) \/ MarkRunFailed(w),
         NEW r \in Runs, hand[w] = r
  PROVE  runStatus'[r] \in Terminal
<1>1. CASE MarkRunFailed(w)
  BY <1>1 DEF MarkRunFailed, Terminal, Inv, TypeOK, StoreTypeOK
<1>2. CASE FinalCommit(w)
  <2>1. sawRun[w] \in Terminal => runStatus[r] \in Terminal
    BY <1>2 DEF SeenIsOver, FinalCommit, Goto
  <2>2. \/ runStatus'[r] = runStatus[r] /\ sawRun[w] \in Terminal
        \/ runStatus'[r] = FinalStatus(w)
    BY <1>2, FinalIsTerminal
       DEF FinalCommit, WriteFinalStatus, OrmSet, Terminal, Inv, TypeOK, StoreTypeOK
  <2> QED BY <2>1, <2>2, FinalIsTerminal
<1> QED BY <1>1, <1>2

(* The run that the last transaction has read is written by nobody else    *)
(* but a cancellation.                                                     *)
LEMMA SeenIsOverKept ==
  ASSUME Inv, SingleDispatch, SeenIsOver, [Moves]_vars
  PROVE  SeenIsOver'
<1>t. /\ hand \in [Workers -> Runs \cup {NoRun}] /\ pc \in [Workers -> WorkerPcs]
      /\ sawRun \in [Workers -> RunStatuses \cup {"absent"}]
  BY DEF Inv, TypeOK, WorkerTypeOK
<1> SUFFICES ASSUME NEW w \in Workers, pc'[w] = "gotFinalRun", sawRun'[w] \in Terminal
             PROVE  runStatus'[hand'[w]] \in Terminal
  BY DEF SeenIsOver
<1>1. CASE FinalReadRun(w)
  BY <1>t, <1>1 DEF FinalReadRun, Goto, storeVars, jobTables
<1>2. CASE ~FinalReadRun(w)
  <2>1. pc[w] = "gotFinalRun" /\ hand'[w] = hand[w] /\ sawRun'[w] = sawRun[w]
    <3>1. ASSUME NEW v \in Workers, WorkerStep(v) \/ WorkerFault(v), v # w
          PROVE  pc'[w] = pc[w] /\ hand'[w] = hand[w] /\ sawRun'[w] = sawRun[w]
      BY <1>t, <3>1 DEF WorkerStep, WorkerFault, WorkerStart, PopJob, PickupReadRun,
         PickupReadJob, PickupCommit, Launch, LaunchFails, RunnerReturn, RunnerGivesUp,
         FinalReadJob, FinalReadRun, FinalCommit, MarkRunFailed, ExecuteRaises, WorkerStops,
         WorkerCrash, Goto, Drop, EndTransaction
    <3>2. ASSUME WorkerStep(w) \/ WorkerFault(w)
          PROVE  FALSE
      BY <1>t, <1>2, <3>2 DEF WorkerStep, WorkerFault, WorkerStart, PopJob, PickupReadRun,
         PickupReadJob, PickupCommit, Launch, LaunchFails, RunnerReturn, RunnerGivesUp,
         FinalReadJob, FinalCommit, MarkRunFailed, ExecuteRaises, WorkerStops,
         WorkerCrash, Goto
    <3>3. ASSUME ~\E v \in Workers : WorkerStep(v) \/ WorkerFault(v)
          PROVE  UNCHANGED workerVars
      BY <3>3 DEF Moves, SchedulerStep, WorkersStep, ContainerStarts, ContainerExit, ApiStep, vars
    <3> QED BY <3>1, <3>2, <3>3 DEF workerVars
  <2>2. hand[w] \in Runs /\ Exists(hand[w]) /\ runStatus[hand[w]] \in Terminal
    BY <2>1, HandExists DEF SeenIsOver
  <2>3. ASSUME NEW v \in Workers, PickupCommit(v), hand[v] = hand[w]
        PROVE  FALSE
    <3>1. v = w
      BY <2>2, <2>3, EnvironmentAssumption DEF SingleDispatch
    <3> QED BY <2>1, <2>3, <3>1 DEF PickupCommit, Goto
  <2>4. CASE runStatus'[hand[w]] = runStatus[hand[w]]
    BY <2>1, <2>2, <2>4
  <2>5. CASE runStatus'[hand[w]] # runStatus[hand[w]]
    <3>1. \/ \E v \in Workers : hand[v] = hand[w] /\ FinalCommit(v) /\ runStatus'[hand[w]] = FinalStatus(v)
          \/ runStatus'[hand[w]] \in {"failed", "cancelled"}
      BY <2>2, <2>3, <2>5, RunMoves
    <3> QED BY <2>1, <3>1, FinalIsTerminal DEF Terminal
  <2> QED BY <2>4, <2>5
<1> QED BY <1>1, <1>2

LEMMA CompletesReal ==
  ASSUME Inv, NotStarted, ZeroIsReal, [Moves]_vars, NEW w \in Workers, FinalCommit(w),
         FinalStatus(w) = "completed"
  PROVE  container'[hand[w]] = "ok" /\ hand[w] \in Runs /\ Exists(hand[w])
<1>1. exit[w] = "ok"
  BY DEF FinalStatus
<1>2. hand[w] \in Runs /\ Exists(hand[w])
  BY HandExists DEF FinalCommit, Goto
<1> QED BY <1>1, <1>2, OkStays DEF ZeroIsReal

LEMMA RunOutcomeKept ==
  ASSUME Inv, NotStarted, ZeroIsReal, RunOutcomeIsReal, [Moves]_vars
  PROVE  RunOutcomeIsReal'
<1> SUFFICES ASSUME NEW r \in Runs, runStatus'[r] = "completed"
             PROVE  container'[r] = "ok"
  BY DEF RunOutcomeIsReal
<1>1. CASE runStatus[r] = "completed"
  BY <1>1, OkStays DEF RunOutcomeIsReal
<1>2. CASE runStatus[r] # "completed"
  BY <1>2, CompletesReal, RunMoves
<1> QED BY <1>1, <1>2

LEMMA RequestsMatchKept ==
  ASSUME Inv, LatestIsLast, RequestsMatch, [Moves]_vars
  PROVE  RequestsMatch'
<1>t. request \in [Clients -> RequestStates] /\ latest \in [Jobs -> Runs \cup {NoRun}]
  BY DEF Inv, TypeOK, ApiTypeOK, StoreTypeOK
<1>1. ASSUME NEW c \in Clients, ClientStep(c)
      PROVE  RequestsMatch'
  <2>1. \A d \in Clients \ {c} : request'[d] = request[d]
    BY <1>t, <1>1 DEF ClientStep, CancelReadJob, CancelReadRun, CancelFlush, CancelCommit, CancelAborts
  <2>2. \/ request'[c] = Idle
        \/ request'[c].run = request[c].run /\ request'[c].job = request[c].job
        \/ \E j \in Jobs : request'[c].run = latest[j] /\ request'[c].job = j
    BY <1>t, <1>1 DEF ClientStep, CancelReadJob, CancelReadRun, CancelFlush, CancelCommit, CancelAborts
  <2>3. request'[c].run # NoRun => request'[c].job = JobOf(request'[c].run)
    BY <2>2 DEF Idle, LatestIsLast, RequestsMatch
  <2> QED BY <2>1, <2>3 DEF RequestsMatch
<1>2. ASSUME ~\E c \in Clients : ClientStep(c)
      PROVE  request' = request
  BY <1>2 DEF Moves, SchedulerStep, WorkersStep, ApiStep, ApiNext, SubmitJob, StopContainer,
     AdminSetStatus, apiVars, vars
<1> QED BY <1>1, <1>2 DEF RequestsMatch

LEMMA CommonInit == Init => Common
<1> SUFFICES ASSUME Init PROVE Common
  OBVIOUS
<1> USE DEF Init, StoreInit, SchedulerInit, WorkerInit, ApiInit
<1>1. SingleDispatch /\ NotStarted
  BY DEF SingleDispatch, NotStarted, Positions, Queueing, InHand, BeforeRun
<1>2. LatestIsLast /\ ZeroIsReal /\ SeenIsOver /\ RunOutcomeIsReal
  BY DEF LatestIsLast, ZeroIsReal, SeenIsOver, RunOutcomeIsReal
<1>3. RequestsMatch
  BY DEF RequestsMatch, Idle
<1> QED BY <1>1, <1>2, <1>3 DEF Common

LEMMA CommonInvariant == Spec => [](Inv /\ Common)
<1>1. Inv /\ Common /\ [Next]_vars => Common'
  <2> SUFFICES ASSUME Inv, Common, [Next]_vars PROVE Common'
    OBVIOUS
  <2>1. [Moves]_vars
    BY DEF Next
  <2> QED
    BY <2>1, SingleDispatchKept, NotStartedKept, LatestIsLastKept, ZeroIsRealKept, SeenIsOverKept,
       RunOutcomeKept, RequestsMatchKept DEF Common
<1> QED BY <1>1, CommonInit, Invariance, PTL DEF Spec

(* A run is never completed when its program failed, was stopped or never  *)
(* ran, whatever else happens and whatever administrators write.           *)
THEOREM RunOutcomesAreReal == Spec => []RunOutcomeIsReal
  BY CommonInvariant, PTL DEF Common

-----------------------------------------------------------------------------
(* A job that nobody puts back or declares over: the invariants *)

RunOf(r, j) == r \in Runs /\ JobOf(r) = j /\ Exists(r)

(* The job has one run, from the tick on. *)
OneRun(j) ==
  \A r \in Runs : RunOf(r, j) => latest[j] = r /\ jobStatus[j] \notin {"absent", "queued"}

(* When the job is completed, the container of its last run is the reason. *)
OutcomeOfIsReal(j) ==
  jobStatus[j] = "completed" => latest[j] # NoRun /\ container[latest[j]] = "ok"

(* When it is completed or failed, nobody is to act on its run ...         *)
FinishedIsGone(j) ==
  \A r \in Runs : RunOf(r, j) /\ jobStatus[j] \in {"completed", "failed"} => ~OnWay(r)

(* ... which is over, too. *)
FinishedIsOver(j) ==
  \A r \in Runs : RunOf(r, j) /\ jobStatus[j] \in {"completed", "failed"} => runStatus[r] \in Terminal

(* A step that changes the status of a job is a step. *)
LEMMA ChangesMove == \A j \in Jobs : jobStatus'[j] # jobStatus[j] => ~UNCHANGED vars
  BY DEF vars, storeVars, jobTables

(* A run that there is now is a new one of a queued job or there already. *)
LEMMA RunsWereThere ==
  ASSUME Inv, [Moves]_vars, NEW j \in Jobs, NEW r \in Runs, RunOf(r, j)'
  PROVE  RunOf(r, j) \/ (jobStatus[j] = "queued" /\ jobStatus'[j] = "scheduled" /\ ~Exists(r))
  BY CreatedScheduled DEF RunOf

(* The job is never queued again. *)
LEMMA OneRunKept ==
  ASSUME Inv, NEW j \in Jobs, OneRun(j), [Moves]_vars, [~Overrides(j, {"queued"})]_vars
  PROVE  OneRun(j)'
<1> SUFFICES ASSUME NEW r \in Runs, RunOf(r, j)'
             PROVE  latest'[j] = r /\ jobStatus'[j] \notin {"absent", "queued"}
  BY DEF OneRun
<1>1. latest'[j] = r
  <2>2. CASE latest' = latest /\ SameRuns
    BY <2>2 DEF SameRuns, OneRun, RunOf
  <2>3. ASSUME NEW S \in SUBSET Queued, NEW assign \in [S -> SUBSET Gpus], OpenAllocations(S, assign)
        PROVE  latest'[j] = r
    <3> DEFINE Created == {NewRun(k) : k \in S}
    <3>1. /\ runStatus'[r] = IF r \in Created THEN "scheduled" ELSE runStatus[r]
          /\ latest'[j] = IF j \in S THEN NewRun(j) ELSE latest[j]
      BY <2>3 DEF OpenAllocations, CreateRuns
    <3>2. CASE r \in Created
      BY <3>1, <3>2, NewRunIsRun DEF RunOf
    <3>3. CASE r \notin Created
      <4>1. RunOf(r, j)
        BY <3>1, <3>3 DEF RunOf, Exists
      <4>2. j \notin S
        BY <4>1 DEF OneRun, Queued
      <4> QED BY <3>1, <4>1, <4>2 DEF OneRun
    <3> QED BY <3>2, <3>3
  <2> QED BY <2>2, <2>3, LatestMoves
<1>2. jobStatus'[j] \notin {"absent", "queued"}
  <2>1. CASE RunOf(r, j)
    <3>1. jobStatus[j] \notin {"absent", "queued"}
      BY <2>1 DEF OneRun
    <3>2. \A w \in Workers : FinalStatus(w) \notin {"absent", "queued"}
      BY DEF FinalStatus
    <3>3. "absent" \notin AdminStatuses
      BY EnvironmentAssumption DEF JobStatuses
    <3> QED BY <3>1, <3>2, <3>3, ChangesMove, JobMoves DEF Overrides
  <2> QED BY <2>1, RunsWereThere
<1> QED BY <1>1, <1>2

(* Two runs of the job are one. *)
LEMMA OnlyRun ==
  ASSUME NEW j, OneRun(j), NEW r \in Runs, NEW s \in Runs, RunOf(r, j), RunOf(s, j)
  PROVE  r = s
  BY DEF OneRun

(* Whoever ends the job ends its run. *)
LEMMA EnderHasRun ==
  ASSUME Inv, NEW j \in Jobs, OneRun(j), NEW r \in Runs, RunOf(r, j), NEW w \in Workers,
         JobOf(hand[w]) = j, PickupCommit(w) \/ FinalCommit(w) \/ MarkRunFailed(w)
  PROVE  hand[w] = r
<1>1. RunOf(hand[w], j) /\ hand[w] \in Runs
  BY HandExists DEF RunOf, PickupCommit, FinalCommit, MarkRunFailed, Goto
<1> QED BY <1>1, OnlyRun

LEMMA OutcomeOfKept ==
  ASSUME Inv, Common, NEW j \in Jobs, OneRun(j), OutcomeOfIsReal(j), [Moves]_vars,
         [~Overrides(j, {"completed"})]_vars
  PROVE  OutcomeOfIsReal(j)'
<1> SUFFICES ASSUME jobStatus'[j] = "completed"
             PROVE  latest'[j] # NoRun /\ container'[latest'[j]] = "ok"
  BY DEF OutcomeOfIsReal
<1>l. latest \in [Jobs -> Runs \cup {NoRun}]
  BY DEF Inv, TypeOK, StoreTypeOK
<1>1. latest'[j] = latest[j]
  <2>1. ASSUME NEW S \in SUBSET Queued, NEW assign \in [S -> SUBSET Gpus], OpenAllocations(S, assign)
        PROVE  latest'[j] = latest[j]
    BY <2>1 DEF OpenAllocations, CreateRuns
  <2> QED BY <2>1, LatestMoves
<1>2. CASE jobStatus[j] = "completed"
  BY <1>l, <1>1, <1>2, OkStays DEF OutcomeOfIsReal, Common
<1>3. CASE jobStatus[j] # "completed"
  <2>1. PICK w \in Workers : JobOf(hand[w]) = j /\ FinalCommit(w) /\ FinalStatus(w) = "completed"
    BY <1>3, ChangesMove, JobMoves DEF Overrides
  <2>2. container'[hand[w]] = "ok" /\ hand[w] \in Runs /\ RunOf(hand[w], j)
    BY <2>1, CompletesReal DEF Common, RunOf
  <2>3. latest[j] = hand[w] /\ hand[w] # NoRun
    BY <2>2, EnvironmentAssumption DEF OneRun
  <2> QED BY <1>1, <2>2, <2>3
<1> QED BY <1>2, <1>3

(* Nobody comes back to the run. *)
LEMMA FinishedIsGoneKept ==
  ASSUME Inv, Common, NEW j \in Jobs, OneRun(j), FinishedIsGone(j), [Moves]_vars,
         [~Overrides(j, {"completed", "failed"})]_vars
  PROVE  FinishedIsGone(j)'
<1> SUFFICES ASSUME NEW r \in Runs, RunOf(r, j)', jobStatus'[j] \in {"completed", "failed"}, OnWay(r)'
             PROVE  FALSE
  BY DEF FinishedIsGone
<1>1. RunOf(r, j)
  BY RunsWereThere
<1>2. jobStatus[j] \notin {"completed", "failed"}
  BY <1>1, OnWayMoves DEF FinishedIsGone, RunOf
<1>3. PICK w \in Workers : JobOf(hand[w]) = j /\ (FinalCommit(w) \/ MarkRunFailed(w))
  BY <1>2, ChangesMove, JobMoves DEF Overrides
<1>4. hand[w] = r
  BY <1>1, <1>3, EnderHasRun
<1> QED BY <1>3, <1>4, DoneIsOffWay DEF Common

(* A run that is over stays over unless a worker has yet to pick it up. *)
LEMMA OverStays ==
  ASSUME Inv, [Moves]_vars, NEW r \in Runs, runStatus[r] \in Terminal, ~OnWay(r)
  PROVE  runStatus'[r] \in Terminal
<1>1. Exists(r)
  BY DEF Exists, Terminal
<1>2. \A w \in Workers : hand[w] # r
  BY DEF OnWay, InHand
<1> QED
  BY <1>1, <1>2, RunMoves DEF Terminal

LEMMA FinishedIsOverKept ==
  ASSUME Inv, Common, NEW j \in Jobs, OneRun(j), FinishedIsGone(j), FinishedIsOver(j), [Moves]_vars,
         [~Overrides(j, {"completed", "failed"})]_vars
  PROVE  FinishedIsOver(j)'
<1> SUFFICES ASSUME NEW r \in Runs, RunOf(r, j)', jobStatus'[j] \in {"completed", "failed"}
             PROVE  runStatus'[r] \in Terminal
  BY DEF FinishedIsOver
<1>1. RunOf(r, j)
  BY RunsWereThere
<1>2. CASE jobStatus[j] \in {"completed", "failed"}
  BY <1>1, <1>2, OverStays DEF FinishedIsOver, FinishedIsGone
<1>3. CASE jobStatus[j] \notin {"completed", "failed"}
  <2>1. PICK w \in Workers : JobOf(hand[w]) = j /\ (FinalCommit(w) \/ MarkRunFailed(w))
    BY <1>3, ChangesMove, JobMoves DEF Overrides
  <2>2. hand[w] = r
    BY <1>1, <2>1, EnderHasRun
  <2> QED BY <2>1, <2>2, DoneIsOver DEF Common
<1> QED BY <1>2, <1>3

-----------------------------------------------------------------------------
(* A job that nobody puts back or declares over: the theorems *)

RealOf(j) == OneRun(j) /\ OutcomeOfIsReal(j)
OverOf(j) == OneRun(j) /\ FinishedIsGone(j) /\ FinishedIsOver(j)

(* The statuses that make a job look like one that ended so. *)
Resumed == {"queued", "completed"}
Declared == {"queued", "completed", "failed"}

LEMMA JobsInit ==
  ASSUME NEW j \in Jobs
  PROVE  Init => RealOf(j) /\ OverOf(j)
  BY DEF Init, StoreInit, RealOf, OverOf, OneRun, OutcomeOfIsReal, FinishedIsGone, FinishedIsOver,
     RunOf, Exists

(* An override that does not give one status of a set gives none of them.  *)
LEMMA OverridesLess ==
  ASSUME NEW j \in Jobs, NEW S, NEW T \in SUBSET S, [~Overrides(j, S)]_vars
  PROVE  [~Overrides(j, T)]_vars
  BY DEF Overrides

LEMMA RealOfKept ==
  ASSUME Inv, Common, NEW j \in Jobs, RealOf(j), [Moves]_vars, [~Overrides(j, Resumed)]_vars
  PROVE  RealOf(j)'
<1>1. [~Overrides(j, {"queued"})]_vars /\ [~Overrides(j, {"completed"})]_vars
  BY OverridesLess DEF Resumed
<1> QED BY <1>1, OneRunKept, OutcomeOfKept DEF RealOf

LEMMA OverOfKept ==
  ASSUME Inv, Common, NEW j \in Jobs, OverOf(j), [Moves]_vars, [~Overrides(j, Declared)]_vars
  PROVE  OverOf(j)'
<1>1. [~Overrides(j, {"queued"})]_vars /\ [~Overrides(j, {"completed", "failed"})]_vars
  BY OverridesLess DEF Declared
<1> QED BY <1>1, OneRunKept, FinishedIsGoneKept, FinishedIsOverKept DEF OverOf

(* A job that no administrator puts back or reports completed is reported  *)
(* completed only when the container of its run ended with code zero, in   *)
(* whatever order exceptions, crashes and cancellations come.              *)
THEOREM RealUnlessOverridden ==
  ASSUME NEW j \in Jobs
  PROVE  Spec /\ [][~Overrides(j, Resumed)]_vars => []OutcomeOfIsReal(j)
<1>1. Inv /\ Common /\ RealOf(j) /\ [Next]_vars /\ [~Overrides(j, Resumed)]_vars => RealOf(j)'
  BY RealOfKept DEF Next
<1>2. RealOf(j) => OutcomeOfIsReal(j)
  BY DEF RealOf
<1> QED BY <1>1, <1>2, JobsInit, CommonInvariant, PTL DEF Spec

(* When no administrator reports it failed either, it has neither a run    *)
(* that is active nor a device once it is completed or failed.             *)
THEOREM OverUnlessOverridden ==
  ASSUME NEW j \in Jobs
  PROVE  Spec /\ [][~Overrides(j, Declared)]_vars =>
           [](\A r \in Runs : RunOf(r, j) /\ jobStatus[j] \in {"completed", "failed"} =>
                                runStatus[r] \in Terminal /\ held[r] = {})
<1>1. Inv /\ Common /\ OverOf(j) /\ [Next]_vars /\ [~Overrides(j, Declared)]_vars => OverOf(j)'
  BY OverOfKept DEF Next
<1>2. Inv /\ OverOf(j) => \A r \in Runs : RunOf(r, j) /\ jobStatus[j] \in {"completed", "failed"} =>
                                            runStatus[r] \in Terminal /\ held[r] = {}
  BY DEF OverOf, FinishedIsOver, Inv, TerminalRunsReleased
<1> QED BY <1>1, <1>2, JobsInit, CommonInvariant, PTL DEF Spec

(* So the outcome of every job is real when administrators write neither   *)
(* of the two statuses into any.                                           *)
THEOREM OutcomesAreReal ==
  ASSUME AdminStatuses \cap Resumed = {}
  PROVE  Spec => []OutcomeIsReal
<1> DEFINE Kept == \A j \in Jobs : RealOf(j)
<1>1. Init => Kept
  BY JobsInit
<1>2. Inv /\ Common /\ Kept /\ [Next]_vars => Kept'
  <2> SUFFICES ASSUME Inv, Common, Kept, [Next]_vars, NEW j \in Jobs
               PROVE  RealOf(j)'
    OBVIOUS
  <2>1. ~Overrides(j, Resumed)
    BY DEF Overrides, AdminSetStatus
  <2> QED BY <2>1, RealOfKept DEF Next
<1>3. Common /\ Kept => OutcomeIsReal
  BY DEF Common, RunOutcomeIsReal, RealOf, OutcomeOfIsReal, OutcomeIsReal
<1> QED BY <1>1, <1>2, <1>3, CommonInvariant, PTL DEF Spec

(* ... and every job that is completed or failed is over, when they do not *)
(* write failed either.                                                    *)
THEOREM FinishedJobsAreOver ==
  ASSUME AdminStatuses \cap Declared = {}
  PROVE  Spec => []FinishedJobIsOver
<1> DEFINE Kept == \A j \in Jobs : OverOf(j)
<1>1. Init => Kept
  BY JobsInit
<1>2. Inv /\ Common /\ Kept /\ [Next]_vars => Kept'
  <2> SUFFICES ASSUME Inv, Common, Kept, [Next]_vars, NEW j \in Jobs
               PROVE  OverOf(j)'
    OBVIOUS
  <2>1. ~Overrides(j, Declared)
    BY DEF Overrides, AdminSetStatus
  <2> QED BY <2>1, OverOfKept DEF Next
<1>3. Inv /\ Kept => FinishedJobIsOver
  <2> SUFFICES ASSUME Inv, Kept, NEW r \in Runs, jobStatus[JobOf(r)] \in {"completed", "failed"}
               PROVE  runStatus[r] \in Terminal \cup {"absent"} /\ held[r] = {}
    BY DEF FinishedJobIsOver
  <2>1. CASE Exists(r)
    BY <2>1, JobOfRun DEF OverOf, FinishedIsOver, RunOf, Inv, TerminalRunsReleased
  <2>2. CASE ~Exists(r)
    BY <2>2 DEF Exists, Inv, AbsentUnused
  <2> QED BY <2>1, <2>2
<1> QED BY <1>1, <1>2, <1>3, CommonInvariant, PTL DEF Spec

-----------------------------------------------------------------------------
(* A run that nobody cancels and that is not left up: its devices *)

(* The devices of a run are fixed by the tick that creates it, and are     *)
(* released by the last transaction, the failure handler or a cancellation.*)
LEMMA HeldMoves ==
  ASSUME Inv, [Moves]_vars, NEW r \in Runs, Exists(r)
  PROVE  /\ granted'[r] = granted[r]
         /\ \/ held'[r] = held[r]
            \/ \E w \in Workers : hand[w] = r /\ (FinalCommit(w) \/ MarkRunFailed(w))
            \/ CancelsRun(r)
<1>t. held \in [Runs -> SUBSET Gpus]
  BY DEF Inv, TypeOK, StoreTypeOK
<1>1. ASSUME NEW S \in SUBSET Queued, NEW assign \in [S -> SUBSET Gpus], OpenAllocations(S, assign)
      PROVE  granted'[r] = granted[r] /\ held'[r] = held[r]
  <2>1. r \notin {NewRun(j) : j \in S}
    BY NewRunIsFresh DEF Inv
  <2> QED BY <1>1, <2>1 DEF OpenAllocations, CreateRuns
<1>2. granted'[r] = granted[r]
  BY <1>1, ShapeOfSteps DEF KeepAllocations, CloseAllocations
<1>3. CASE SchedulerStep
  BY <1>1, <1>2, <1>3, SchedulerShape DEF jobTables
<1>4. CASE WorkersStep
  <2>1. ASSUME NEW w \in Workers, FinalCommit(w) \/ MarkRunFailed(w), hand[w] # r
        PROVE  held'[r] = held[r]
    BY <1>t, <2>1 DEF FinalCommit, MarkRunFailed, ReleaseGpus
  <2>2. ASSUME ~\E w \in Workers : FinalCommit(w) \/ MarkRunFailed(w)
        PROVE  held' = held
    BY <1>4, <2>2 DEF WorkersStep, WorkerStep, WorkerFault, WorkerStart, PopJob, PickupReadRun,
       PickupReadJob, PickupCommit, Launch, LaunchFails, RunnerReturn, RunnerGivesUp,
       FinalReadJob, FinalReadRun, ExecuteRaises, WorkerStops, WorkerCrash, ContainerStarts, ContainerExit,
       storeVars, jobTables
  <2> QED BY <1>2, <2>1, <2>2
<1>5. CASE ApiStep
  <2>1. ASSUME NEW c \in Clients, CancelCommit(c), request[c].run # r
        PROVE  held'[r] = held[r]
    BY <1>t, <2>1 DEF CancelCommit, CancelRunAndReleaseGpus, ReleaseGpus
  <2>2. ASSUME ~\E c \in Clients : CancelCommit(c)
        PROVE  held' = held
    BY <1>5, <2>2 DEF ApiStep, ApiNext, ClientStep, SubmitJob, CancelReadJob, CancelReadRun,
       CancelFlush, CancelAborts, StopContainer, AdminSetStatus, storeVars, jobTables
  <2> QED BY <1>2, <2>1, <2>2 DEF CancelsRun
<1>6. CASE UNCHANGED vars
  BY <1>2, <1>6 DEF vars, storeVars, jobTables
<1> QED BY <1>3, <1>4, <1>5, <1>6 DEF Moves

(* The run keeps its devices while it is on its way and while its container *)
(* is alive, and the worker that has it waits for the container.           *)
OnWayHolds(r) == OnWay(r) => held[r] = granted[r]
UpHolds(r) == Alive(r) => held[r] = granted[r]
UpIsAwaited(r) == \A w \in Workers : Alive(r) /\ hand[w] = r => pc[w] = "docker"

(* Who comes to hold a run or launches it does not end it in that step. *)
LEMMA HoldsOn ==
  ASSUME Inv, NEW r \in Runs, Exists(r), held[r] = granted[r], [Moves]_vars, [~CancelsRun(r)]_vars,
         ~\E w \in Workers : hand[w] = r /\ (FinalCommit(w) \/ MarkRunFailed(w))
  PROVE  held'[r] = granted'[r]
<1>1. CASE UNCHANGED vars
  BY <1>1 DEF vars, storeVars, jobTables
<1>2. CASE ~CancelsRun(r)
  BY <1>2, HeldMoves
<1> QED BY <1>1, <1>2

LEMMA OnWayHoldsKept ==
  ASSUME Inv, Inv', SingleDispatch, NEW r \in Runs, OnWayHolds(r), [Moves]_vars, [~CancelsRun(r)]_vars
  PROVE  OnWayHolds(r)'
<1> SUFFICES ASSUME OnWay(r)' PROVE held'[r] = granted'[r]
  BY DEF OnWayHolds
<1>1. Exists(r)'
  BY EnvironmentAssumption DEF Inv, RunsExist, TypeOK, OnWay, Queueing, InHand, Positions
<1>2. CASE ~Exists(r)
  BY <1>1, <1>2, CreatedScheduled
<1>3. CASE Exists(r)
  <2>1. held[r] = granted[r]
    BY <1>3, OnWayMoves DEF OnWayHolds
  <2>2. ~\E w \in Workers : hand[w] = r /\ (FinalCommit(w) \/ MarkRunFailed(w))
    BY DoneIsOffWay
  <2> QED BY <1>3, <2>1, <2>2, HoldsOn
<1> QED BY <1>2, <1>3

(* What a worker does when the container is alive is to wait for it, or to *)
(* remove it; only a removal that misses it leaves it unattended.          *)
LEMMA UpIsAwaitedKept ==
  ASSUME Inv, SingleDispatch, NotStarted, NEW r \in Runs, UpIsAwaited(r), [Moves]_vars, [~LeavesUp(r)]_vars
  PROVE  UpIsAwaited(r)'
<1> SUFFICES ASSUME NEW w \in Workers, Alive(r)', hand'[w] = r
             PROVE  pc'[w] = "docker"
  BY DEF UpIsAwaited
<1>t. /\ hand \in [Workers -> Runs \cup {NoRun}] /\ pc \in [Workers -> WorkerPcs]
      /\ container \in [Runs -> ContainerStates] /\ r # NoRun
  BY EnvironmentAssumption DEF Inv, TypeOK, StoreTypeOK, WorkerTypeOK
<1>1. CASE ~Alive(r)
  <2>1. PICK v \in Workers : LaunchesBy(v, r)
    BY <1>1, ContainerMoves DEF Begins, Ends, Alive
  <2>2. v = w
    BY <1>t, <2>1 DEF LaunchesBy, SingleDispatch
  <2> QED BY <2>1, <2>2 DEF LaunchesBy
<1>2. CASE Alive(r)
  <2>1. hand[w] = r
    <3> SUFFICES ASSUME hand[w] # r PROVE FALSE
      OBVIOUS
    <3>1. PICK v \in Workers : Pops(v)
      BY <1>t, DispatchMoves DEF Forgets, Lists, Pushes
    <3>2. v = w /\ r = Head(queue[ListensOn[w]])
      BY <1>t, <3>1 DEF Pops
    <3>3. ListensOn[w] \in Queues /\ queue[ListensOn[w]] # <<>> /\ queue[ListensOn[w]] \in Seq(Runs)
      BY <3>1, <3>2, QueueAssumption DEF Pops, BLPop, Inv, TypeOK, StoreTypeOK
    <3>4. 1 \in 1..Len(queue[ListensOn[w]]) /\ queue[ListensOn[w]][1] = r
      BY <3>2, <3>3
    <3> QED BY <1>2, <3>3, <3>4 DEF NotStarted, Queueing, Positions, Alive
  <2>2. pc[w] = "docker"
    BY <1>2, <2>1 DEF UpIsAwaited
  <2>3. ASSUME NEW v \in Workers, WorkerStep(v) \/ WorkerFault(v), v # w
        PROVE  pc'[w] = pc[w]
    BY <1>t, <2>3 DEF WorkerStep, WorkerFault, WorkerStart, PopJob, PickupReadRun,
       PickupReadJob, PickupCommit, Launch, LaunchFails, RunnerReturn, RunnerGivesUp,
       FinalReadJob, FinalReadRun, FinalCommit, MarkRunFailed, ExecuteRaises, WorkerStops,
       WorkerCrash, Goto
  <2>4. ~WorkerFault(w)
    BY <1>t, <2>2 DEF WorkerFault, ExecuteRaises, WorkerStops, WorkerCrash, Drop, Goto, BeforeRun, AfterRun
  <2>5. ~WorkerStep(w)
    <3>1. ~RunnerGivesUp(w)
      <4>1. RunnerGivesUp(w) => ~UNCHANGED vars
        BY <1>t DEF RunnerGivesUp, Goto, vars, workerVars
      <4> QED BY <2>1, <4>1 DEF LeavesUp
    <3> QED
      BY <1>2, <2>1, <2>2, <3>1 DEF Alive, WorkerStep, WorkerStart, PopJob, PickupReadRun,
       PickupReadJob, PickupCommit, Launch, LaunchFails, RunnerReturn,
       FinalReadJob, FinalReadRun, FinalCommit, MarkRunFailed, Goto
  <2>6. ASSUME ~\E v \in Workers : WorkerStep(v) \/ WorkerFault(v)
        PROVE  pc' = pc
    BY <2>6 DEF Moves, SchedulerStep, WorkersStep, ContainerStarts, ContainerExit, ApiStep, workerVars, vars
  <2> QED BY <2>2, <2>3, <2>4, <2>5, <2>6
<1> QED BY <1>1, <1>2

LEMMA UpHoldsKept ==
  ASSUME Inv, SingleDispatch, NotStarted, NEW r \in Runs, OnWayHolds(r), UpHolds(r), UpIsAwaited(r),
         [Moves]_vars, [~CancelsRun(r)]_vars
  PROVE  UpHolds(r)'
<1> SUFFICES ASSUME Alive(r)' PROVE held'[r] = granted'[r]
  BY DEF UpHolds
<1>1. CASE Alive(r)
  <2>1. Exists(r)
    BY <1>1 DEF NotStarted, Alive
  <2>2. ~\E w \in Workers : hand[w] = r /\ (FinalCommit(w) \/ MarkRunFailed(w))
    BY <1>1 DEF UpIsAwaited, FinalCommit, MarkRunFailed, Goto
  <2> QED BY <1>1, <2>1, <2>2, HoldsOn DEF UpHolds
<1>2. CASE ~Alive(r)
  <2>1. PICK w \in Workers : LaunchesBy(w, r)
    BY <1>2, ContainerMoves DEF Begins, Ends, Alive
  <2>2. hand[w] = r /\ hand' = hand /\ OnWay(r) /\ OnWay(r)' /\ Exists(r)
    BY <2>1, HandExists DEF LaunchesBy, OnWay, InHand
  <2>3. ~\E v \in Workers : hand[v] = r /\ (FinalCommit(v) \/ MarkRunFailed(v))
    BY <2>2, DoneIsOffWay
  <2> QED BY <2>2, <2>3, HoldsOn DEF OnWayHolds
<1> QED BY <1>1, <1>2

OwnedOf(r) == OnWayHolds(r) /\ UpHolds(r) /\ UpIsAwaited(r)

(* The container of the run uses only devices that are the run's. *)
Owns(r) == container[r] = "up" => \A g \in granted[r] : gpuOwner[g] = r

LEMMA OwnedOfInit ==
  ASSUME NEW r \in Runs
  PROVE  Init => OwnedOf(r)
<1> SUFFICES ASSUME Init PROVE OwnedOf(r)
  OBVIOUS
<1>1. ~Alive(r) /\ held[r] = granted[r]
  BY DEF Init, StoreInit, Alive
<1> QED BY <1>1 DEF OwnedOf, OnWayHolds, UpHolds, UpIsAwaited

LEMMA OwnedOfKept ==
  ASSUME Inv, Inv', Common, NEW r \in Runs, OwnedOf(r), [Moves]_vars,
         [~CancelsRun(r)]_vars, [~LeavesUp(r)]_vars
  PROVE  OwnedOf(r)'
  BY OnWayHoldsKept, UpHoldsKept, UpIsAwaitedKept DEF Common, OwnedOf

LEMMA OwnedOwns ==
  ASSUME Inv, NEW r \in Runs, OwnedOf(r)
  PROVE  Owns(r)
<1> SUFFICES ASSUME container[r] = "up", NEW g \in granted[r]
             PROVE  gpuOwner[g] = r
  BY DEF Owns
<1>1. held[r] = granted[r]
  BY DEF OwnedOf, UpHolds, Alive
<1>2. g \in Gpus
  BY DEF Inv, TypeOK, StoreTypeOK
<1> QED BY <1>1, <1>2 DEF Inv, GpuLedger

(* A run that nobody cancels, and that its runner does not give up without *)
(* getting hold of its container, runs only on devices that the tables     *)
(* give to it: whatever workers die, pushes are lost, statuses are         *)
(* overridden and other runs are cancelled or left up.                     *)
THEOREM OwnsUnlessCancelled ==
  ASSUME NEW r \in Runs
  PROVE  Spec /\ [][~CancelsRun(r)]_vars /\ [][~LeavesUp(r)]_vars => []Owns(r)
<1>1. Inv /\ Inv' /\ Common /\ OwnedOf(r) /\ [Next]_vars /\ [~CancelsRun(r)]_vars /\ [~LeavesUp(r)]_vars =>
        OwnedOf(r)'
  BY OwnedOfKept DEF Next
<1>2. Inv /\ OwnedOf(r) => Owns(r)
  BY OwnedOwns
<1> QED BY <1>1, <1>2, OwnedOfInit, CommonInvariant, PTL DEF Spec

(* Two such runs never use a device together.                              *)
THEOREM ApartUnlessCancelled ==
  ASSUME NEW r \in Runs, NEW s \in Runs, r # s
  PROVE  Spec /\ [][~CancelsRun(r)]_vars /\ [][~LeavesUp(r)]_vars
              /\ [][~CancelsRun(s)]_vars /\ [][~LeavesUp(s)]_vars =>
           [](container[r] = "up" /\ container[s] = "up" => granted[r] \cap granted[s] = {})
<1>1. Inv /\ Inv' /\ Common /\ OwnedOf(r) /\ [Next]_vars /\ [~CancelsRun(r)]_vars /\ [~LeavesUp(r)]_vars =>
        OwnedOf(r)'
  BY OwnedOfKept DEF Next
<1>2. Inv /\ Inv' /\ Common /\ OwnedOf(s) /\ [Next]_vars /\ [~CancelsRun(s)]_vars /\ [~LeavesUp(s)]_vars =>
        OwnedOf(s)'
  BY OwnedOfKept DEF Next
<1>3. Init => OwnedOf(r) /\ OwnedOf(s)
  BY OwnedOfInit
<1>4. Inv /\ OwnedOf(r) /\ OwnedOf(s) =>
        (container[r] = "up" /\ container[s] = "up" => granted[r] \cap granted[s] = {})
  BY OwnedOwns DEF Owns
<1> QED BY <1>1, <1>2, <1>3, <1>4, CommonInvariant, PTL DEF Spec

(* So all containers own their devices as long as no run is cancelled and  *)
(* no removal misses its container: which is a condition on the course of  *)
(* things, not only on docker, since a runner may give up before docker    *)
(* has created the container.                                              *)
NeitherCancelledNorLeft == [][\A r \in Runs : ~CancelsRun(r) /\ ~LeavesUp(r)]_vars

THEOREM ContainersOwnTheirDevices == Spec /\ NeitherCancelledNorLeft => []ContainersOwnDevices
<1> DEFINE Kept == \A r \in Runs : OwnedOf(r)
           Calm == \A r \in Runs : ~CancelsRun(r) /\ ~LeavesUp(r)
<1>1. Init => Kept
  BY OwnedOfInit
<1>2. Inv /\ Inv' /\ Common /\ Kept /\ [Next]_vars /\ [Calm]_vars => Kept'
  <2> SUFFICES ASSUME Inv, Inv', Common, Kept, [Next]_vars, [Calm]_vars, NEW r \in Runs
               PROVE  OwnedOf(r)'
    OBVIOUS
  <2>1. [~CancelsRun(r)]_vars /\ [~LeavesUp(r)]_vars
    OBVIOUS
  <2> QED BY <2>1, OwnedOfKept DEF Next
<1>3. Inv /\ Kept => ContainersOwnDevices
  BY OwnedOwns DEF Owns, ContainersOwnDevices
<1> QED BY <1>1, <1>2, <1>3, CommonInvariant, PTL DEF Spec, NeitherCancelledNorLeft

(* ... so that no two containers use a device together: it takes a         *)
(* cancellation or a removal that misses its container for that to happen. *)
THEOREM DevicesAreExclusive == Spec /\ NeitherCancelledNorLeft => []DevicesExclusive
<1>1. ContainersOwnDevices => DevicesExclusive
  BY DEF ContainersOwnDevices, DevicesExclusive
<1> QED BY <1>1, ContainersOwnTheirDevices, PTL

-----------------------------------------------------------------------------
(* A run or a job that nobody cancels: its course *)

(* How far a run or a job has come. *)
Stage(s) ==
  IF s = "absent" THEN 0 ELSE IF s = "queued" THEN 1 ELSE IF s = "scheduled" THEN 2
  ELSE IF s = "running" THEN 3 ELSE 4

(* A step that changes the status moves on: nothing goes back or is redone. *)
RunMovesOn(r) == runStatus'[r] # runStatus[r] => Stage(runStatus[r]) < Stage(runStatus'[r])
JobMovesOn(j) == jobStatus'[j] # jobStatus[j] => Stage(jobStatus[j]) < Stage(jobStatus'[j])

(* Nobody is to act on the run when it is over. *)
EndedIsGone(r) == runStatus[r] \in Terminal => ~OnWay(r)

LEMMA EndedIsGoneKept ==
  ASSUME Inv, Common, NEW r \in Runs, EndedIsGone(r), [Moves]_vars, [~CancelsRun(r)]_vars
  PROVE  EndedIsGone(r)'
<1> SUFFICES ASSUME runStatus'[r] \in Terminal, OnWay(r)'
             PROVE  FALSE
  BY DEF EndedIsGone
<1>1. CASE ~Exists(r)
  <2>1. Exists(r)'
    BY DEF Exists, Terminal
  <2> QED BY <1>1, <2>1, CreatedScheduled DEF Terminal
<1>2. CASE Exists(r)
  <2>1. OnWay(r) /\ runStatus[r] \notin Terminal
    BY <1>2, OnWayMoves DEF EndedIsGone
  <2>2. ~UNCHANGED vars
    BY <2>1 DEF vars, storeVars, jobTables
  <2>3. PICK w \in Workers : hand[w] = r /\ (FinalCommit(w) \/ MarkRunFailed(w))
    BY <1>2, <2>1, <2>2, RunMoves DEF Terminal
  <2> QED BY <2>3, DoneIsOffWay DEF Common
<1> QED BY <1>1, <1>2

(* A run that nobody cancels only moves on, from scheduled to running to   *)
(* its end, whatever fails and whatever administrators write into the      *)
(* jobs: it is not picked up again after its end.                          *)
THEOREM RunMovesOnUnlessCancelled ==
  ASSUME NEW r \in Runs
  PROVE  Spec /\ [][~CancelsRun(r)]_vars => [][RunMovesOn(r)]_vars
<1>1. Init => EndedIsGone(r)
  BY DEF Init, StoreInit, EndedIsGone, Terminal
<1>2. Inv /\ Common /\ EndedIsGone(r) /\ [Next]_vars /\ [~CancelsRun(r)]_vars => EndedIsGone(r)'
  BY EndedIsGoneKept DEF Next
<1>3. Inv /\ Common /\ EndedIsGone(r) /\ [Next]_vars /\ [~CancelsRun(r)]_vars => [RunMovesOn(r)]_vars
  <2> SUFFICES ASSUME Inv, Common, EndedIsGone(r), [Next]_vars, ~CancelsRun(r), runStatus'[r] # runStatus[r]
               PROVE  Stage(runStatus[r]) < Stage(runStatus'[r])
    BY DEF RunMovesOn
  <2>1. CASE ~Exists(r) /\ runStatus'[r] = "scheduled"
    BY <2>1 DEF Exists, Stage
  <2>2. ASSUME NEW w \in Workers, hand[w] = r,
               \/ PickupCommit(w) /\ runStatus'[r] = "running"
               \/ FinalCommit(w) /\ runStatus'[r] = FinalStatus(w)
               \/ MarkRunFailed(w) /\ runStatus'[r] = "failed"
        PROVE  Stage(runStatus[r]) < Stage(runStatus'[r])
    <3>1. OnWay(r) /\ runStatus[r] \in RunStatuses
      BY <2>2, HandExists DEF PickupCommit, FinalCommit, MarkRunFailed, Goto, Exists, Inv, TypeOK, StoreTypeOK
    <3>2. runStatus[r] \in {"scheduled", "running"}
      BY <3>1 DEF EndedIsGone, RunStatuses, Terminal
    <3>3. runStatus'[r] = "running" \/ runStatus'[r] \in Terminal
      BY <2>2, FinalIsTerminal DEF Terminal
    <3> QED BY <3>2, <3>3 DEF Stage, Terminal
  <2>3. [Moves]_vars
    BY DEF Next
  <2> QED BY <2>1, <2>2, <2>3, RunMoves
<1> QED BY <1>1, <1>2, <1>3, CommonInvariant, PTL DEF Spec

(* Nothing about the job says or said that it is cancelled. *)
NoneCancelled(j) ==
  /\ jobStatus[j] # "cancelled"
  /\ \A r \in Runs : JobOf(r) = j => runStatus[r] # "cancelled"
  /\ \A w \in Workers : hand[w] \in Runs /\ JobOf(hand[w]) = j =>
       /\ pc[w] = "gotRun" => sawRun[w] # "cancelled"
       /\ pc[w] \in {"gotFinalJob", "gotFinalRun"} => sawJob[w] # "cancelled"

LEMMA NoneCancelledKept ==
  ASSUME Inv, Common, NEW j \in Jobs, NoneCancelled(j), [Moves]_vars,
         [~Cancels(j)]_vars, [~Overrides(j, {"cancelled"})]_vars
  PROVE  NoneCancelled(j)'
<1>f. \A w \in Workers : FinalCommit(w) /\ JobOf(hand[w]) = j => FinalStatus(w) # "cancelled"
  BY HandExists DEF NoneCancelled, FinalStatus, FinalCommit, Goto
<1>1. jobStatus'[j] # "cancelled"
  BY <1>f, ChangesMove, JobMoves DEF NoneCancelled, Overrides
<1>2. ASSUME NEW r \in Runs, JobOf(r) = j
      PROVE  runStatus'[r] # "cancelled"
  <2> SUFFICES ASSUME runStatus'[r] = "cancelled", runStatus[r] # "cancelled"
               PROVE  FALSE
    BY <1>2 DEF NoneCancelled
  <2>1. ~UNCHANGED vars
    BY DEF vars, storeVars, jobTables
  <2>2. ~CancelsRun(r)
    BY <1>2, <2>1, EnvironmentAssumption DEF CancelsRun, Cancels, Common, RequestsMatch
  <2> QED BY <1>f, <1>2, <2>2, RunMoves
<1>3. ASSUME NEW w \in Workers, hand'[w] \in Runs, JobOf(hand'[w]) = j
      PROVE  /\ pc'[w] = "gotRun" => sawRun'[w] # "cancelled"
             /\ pc'[w] \in {"gotFinalJob", "gotFinalRun"} => sawJob'[w] # "cancelled"
  <2>t. /\ sawRun \in [Workers -> RunStatuses \cup {"absent"}]
        /\ sawJob \in [Workers -> JobStatuses \cup {"absent"}]
        /\ pc \in [Workers -> WorkerPcs] /\ hand \in [Workers -> Runs \cup {NoRun}]
    BY DEF Inv, TypeOK, WorkerTypeOK
  <2>1. CASE PickupReadRun(w) \/ FinalReadJob(w)
    BY <1>3, <2>t, <2>1 DEF NoneCancelled, PickupReadRun, FinalReadJob, Goto
  <2>2. CASE FinalReadRun(w)
    BY <1>3, <2>t, <2>2 DEF NoneCancelled, FinalReadRun, Goto
  <2>3. CASE (WorkerStep(w) \/ WorkerFault(w)) /\ ~(PickupReadRun(w) \/ FinalReadJob(w) \/ FinalReadRun(w))
    <3>1. pc'[w] \notin {"gotRun", "gotFinalJob", "gotFinalRun"}
      BY <2>t, <2>3 DEF WorkerStep, WorkerFault, WorkerStart, PopJob, PickupReadJob, PickupCommit,
         Launch, LaunchFails, RunnerReturn, RunnerGivesUp, FinalCommit, MarkRunFailed, ExecuteRaises,
         WorkerStops, WorkerCrash, Goto
    <3> QED BY <3>1
  <2>4. CASE ~(WorkerStep(w) \/ WorkerFault(w))
    <3>1. ASSUME NEW v \in Workers, WorkerStep(v) \/ WorkerFault(v), v # w
          PROVE  pc'[w] = pc[w] /\ hand'[w] = hand[w] /\ sawRun'[w] = sawRun[w] /\ sawJob'[w] = sawJob[w]
      BY <2>t, <3>1 DEF WorkerStep, WorkerFault, WorkerStart, PopJob, PickupReadRun,
         PickupReadJob, PickupCommit, Launch, LaunchFails, RunnerReturn, RunnerGivesUp,
         FinalReadJob, FinalReadRun, FinalCommit, MarkRunFailed, ExecuteRaises, WorkerStops,
         WorkerCrash, Goto, Drop, EndTransaction
    <3>2. ASSUME ~\E v \in Workers : WorkerStep(v) \/ WorkerFault(v)
          PROVE  UNCHANGED workerVars
      BY <3>2 DEF Moves, SchedulerStep, WorkersStep, ContainerStarts, ContainerExit, ApiStep, vars
    <3> QED BY <1>3, <2>4, <3>1, <3>2 DEF workerVars, NoneCancelled
  <2> QED BY <2>1, <2>2, <2>3, <2>4
<1> QED BY <1>1, <1>2, <1>3 DEF NoneCancelled

LEMMA NoneCancelledInit ==
  ASSUME NEW j \in Jobs
  PROVE  Init => NoneCancelled(j)
  BY EnvironmentAssumption DEF Init, StoreInit, WorkerInit, NoneCancelled

CourseOf(j) == OneRun(j) /\ FinishedIsGone(j) /\ NoneCancelled(j)

LEMMA CourseOfKept ==
  ASSUME Inv, Common, NEW j \in Jobs, CourseOf(j), [Moves]_vars,
         [~Cancels(j)]_vars, [~Overrides(j, JobStatuses)]_vars
  PROVE  CourseOf(j)'
<1>1. /\ [~Overrides(j, {"queued"})]_vars /\ [~Overrides(j, {"completed", "failed"})]_vars
      /\ [~Overrides(j, {"cancelled"})]_vars
  BY OverridesLess DEF JobStatuses
<1> QED BY <1>1, OneRunKept, FinishedIsGoneKept, NoneCancelledKept DEF CourseOf

LEMMA CourseOfInit ==
  ASSUME NEW j \in Jobs
  PROVE  Init => CourseOf(j)
  BY JobsInit, NoneCancelledInit DEF CourseOf, OverOf

LEMMA CourseMovesOn ==
  ASSUME Inv, NEW j \in Jobs, CourseOf(j), [Moves]_vars, ~Cancels(j), ~Overrides(j, JobStatuses)
  PROVE  JobMovesOn(j)
<1> SUFFICES ASSUME jobStatus'[j] # jobStatus[j]
             PROVE  Stage(jobStatus[j]) < Stage(jobStatus'[j])
  BY DEF JobMovesOn
<1>1. CASE \/ jobStatus[j] = "absent" /\ jobStatus'[j] = "queued"
           \/ jobStatus[j] = "queued" /\ jobStatus'[j] = "scheduled"
  BY <1>1 DEF Stage
<1>2. ASSUME NEW w \in Workers, JobOf(hand[w]) = j,
             \/ PickupCommit(w) /\ jobStatus'[j] = "running"
             \/ FinalCommit(w) /\ jobStatus'[j] = FinalStatus(w)
             \/ MarkRunFailed(w) /\ jobStatus'[j] = "failed"
      PROVE  Stage(jobStatus[j]) < Stage(jobStatus'[j])
  <2>1. hand[w] \in Runs /\ RunOf(hand[w], j) /\ OnWay(hand[w])
    BY <1>2, HandExists DEF PickupCommit, FinalCommit, MarkRunFailed, Goto, RunOf
  <2>2. jobStatus[j] \notin {"absent", "queued"} \cup Terminal
    BY <2>1 DEF CourseOf, OneRun, FinishedIsGone, NoneCancelled, Terminal
  <2>3. jobStatus[j] \in {"scheduled", "running"}
    BY <2>2 DEF Inv, TypeOK, StoreTypeOK, JobStatuses, Terminal
  <2>4. jobStatus'[j] = "running" \/ jobStatus'[j] \in Terminal
    BY <1>2, FinalIsTerminal DEF Terminal
  <2> QED BY <1>2, <2>3, <2>4 DEF Stage, Terminal
<1> QED BY <1>1, <1>2, JobMoves, EnvironmentAssumption DEF Overrides

(* A job that nobody cancels or overrides only moves on, from queued to    *)
(* its end, whatever fails and whatever happens to other jobs.             *)
THEOREM JobMovesOnUnlessDisturbed ==
  ASSUME NEW j \in Jobs
  PROVE  Spec /\ [][~Cancels(j)]_vars /\ [][~Overrides(j, JobStatuses)]_vars => [][JobMovesOn(j)]_vars
<1>1. Inv /\ Common /\ CourseOf(j) /\ [Next]_vars /\ [~Cancels(j)]_vars /\ [~Overrides(j, JobStatuses)]_vars =>
        CourseOf(j)'
  BY CourseOfKept DEF Next
<1>2. Inv /\ CourseOf(j) /\ [Next]_vars /\ [~Cancels(j)]_vars /\ [~Overrides(j, JobStatuses)]_vars =>
        [JobMovesOn(j)]_vars
  BY CourseMovesOn DEF Next
<1> QED BY <1>1, <1>2, CourseOfInit, CommonInvariant, PTL DEF Spec

(* So every job keeps its outcome as long as nobody cancels or overrides.  *)
THEOREM FinishedJobsAreFinal ==
  ASSUME AdminStatuses = {}, Clients = {}
  PROVE  Spec => FinishedJobIsFinal
<1> DEFINE Kept == \A j \in Jobs : CourseOf(j)
           Final == \A j \in Jobs : jobStatus[j] \in Terminal => jobStatus'[j] = jobStatus[j]
<1>c. \A j \in Jobs : ~Cancels(j) /\ ~Overrides(j, JobStatuses)
  BY DEF Cancels, Overrides, AdminSetStatus
<1>1. Init => Kept
  BY CourseOfInit
<1>2. Inv /\ Common /\ Kept /\ [Next]_vars => Kept'
  BY <1>c, CourseOfKept DEF Next
<1>3. Inv /\ Kept /\ [Next]_vars => [Final]_vars
  <2> SUFFICES ASSUME Inv, Kept, [Next]_vars, NEW j \in Jobs, jobStatus[j] \in Terminal,
                      jobStatus'[j] # jobStatus[j]
               PROVE  FALSE
    OBVIOUS
  <2>1. Stage(jobStatus[j]) < Stage(jobStatus'[j])
    BY <1>c, CourseMovesOn DEF Next, JobMovesOn
  <2> QED BY <2>1 DEF Stage, Terminal
<1> QED BY <1>1, <1>2, <1>3, CommonInvariant, PTL DEF Spec, FinishedJobIsFinal

-----------------------------------------------------------------------------
(* A run that nobody cancels and nobody loses is on its way *)

(* Only the last transaction and the failure handler let go of it, and     *)
(* both end it.                                                            *)
LEMMA LetsGo ==
  ASSUME Inv, NEW r \in Runs, NoneCancelled(JobOf(r)), OnWay(r), ~OnWay(r)',
         [Moves]_vars, [~Loses(r)]_vars
  PROVE  \E w \in Workers : hand[w] = r /\ (FinalCommit(w) \/ MarkRunFailed(w))
<1>t. /\ hand \in [Workers -> Runs \cup {NoRun}] /\ pc \in [Workers -> WorkerPcs]
      /\ queue \in [Queues -> Seq(Runs)]
  BY DEF Inv, TypeOK, StoreTypeOK, WorkerTypeOK
<1>n. ~UNCHANGED vars
  BY DEF vars, storeVars, schedulerVars, workerVars, OnWay, InHand, Queueing, Positions
<1>l. ~Loses(r)
  BY <1>n
<1>1. CASE SchedulerStep
  <2>1. ASSUME NEW x \in Runs, PushJob(x)
        PROVE  OnWay(r)'
    <3> DEFINE d == QueueOf[JobOf(x)]
    <3>1. d \in Queues /\ queue[d] \in Seq(Runs)
      BY <1>t, JobOfRun, QueueAssumption
    <3>2. queue'[d] = Append(queue[d], x) /\ \A q \in Queues \ {d} : queue'[q] = queue[q]
      BY <1>t, <2>1, <3>1 DEF PushJob, RPush
    <3>3. /\ Len(queue'[d]) = Len(queue[d]) + 1 /\ queue'[d][Len(queue[d]) + 1] = x
          /\ \A i \in 1..Len(queue[d]) : queue'[d][i] = queue[d][i]
          /\ Len(queue[d]) \in Nat
      BY <3>1, <3>2
    <3>4. Queueing(r) \/ r = x => Queueing(r)'
      <4>1. ASSUME r = x
            PROVE  Queueing(r)'
        <5>1. Len(queue[d]) + 1 \in 1..Len(queue'[d])
          BY <3>3
        <5> QED BY <3>1, <3>3, <4>1, <5>1 DEF Queueing, Positions
      <4>2. ASSUME NEW q \in Queues, NEW i \in 1..Len(queue[q]), queue[q][i] = r
            PROVE  Queueing(r)'
        <5>1. i \in 1..Len(queue'[q]) /\ queue'[q][i] = r
          BY <3>2, <3>3, <4>2
        <5> QED BY <5>1 DEF Queueing, Positions
      <4> QED BY <4>1, <4>2 DEF Queueing, Positions
    <3>5. InHand(r) => InHand(r)'
      BY <1>1 DEF SchedulerStep, workerVars, InHand
    <3>6. r \in pending => r = x \/ r \in pending'
      BY <2>1 DEF PushJob
    <3> QED BY <3>4, <3>5, <3>6 DEF OnWay
  <2>2. ASSUME NEW locked, ScheduleTick(locked)
        PROVE  OnWay(r)'
    <3>1. queue' = queue /\ hand' = hand /\ pending = {}
      BY <1>1, <2>2, TickShape DEF SchedulerStep, workerVars
    <3> QED BY <3>1 DEF OnWay, InHand, Queueing, Positions
  <2>3. ASSUME PushFails \/ TickFails
        PROVE  OnWay(r)'
    <3>1. queue' = queue /\ hand' = hand /\ (r \in pending => r \in pending')
      BY <1>1, <1>l, <2>3 DEF Loses, PushFails, TickFails, SchedulerStep, workerVars, storeVars
    <3> QED BY <3>1 DEF OnWay, InHand, Queueing, Positions
  <2> QED BY <1>1, <2>1, <2>2, <2>3 DEF SchedulerStep, SchedulerNext
<1>2. CASE WorkersStep
  <2>p. pending' = pending
    BY <1>2 DEF WorkersStep, schedulerVars
  <2>1. ASSUME NEW v \in Workers, PopJob(v)
        PROVE  OnWay(r)'
    <3> DEFINE d == ListensOn[v]
    <3>1. d \in Queues /\ queue[d] \in Seq(Runs) /\ queue[d] # <<>>
      BY <1>t, <2>1, QueueAssumption DEF PopJob, BLPop
    <3>2. queue'[d] = Tail(queue[d]) /\ \A q \in Queues \ {d} : queue'[q] = queue[q]
      BY <1>t, <2>1, <3>1 DEF PopJob, BLPop
    <3>3. \A w \in Workers : hand'[w] = IF w = v THEN queue[d][1] ELSE hand[w]
      BY <1>t, <2>1, <3>1 DEF PopJob
    <3>4. hand[v] = NoRun
      BY <2>1 DEF PopJob, Goto, Inv, TypeOK, WorkerTypeOK
    <3>5. InHand(r) => InHand(r)'
      BY <3>3, <3>4, EnvironmentAssumption DEF InHand
    <3>6. ASSUME NEW q \in Queues, NEW i \in 1..Len(queue[q]), queue[q][i] = r
          PROVE  OnWay(r)'
      <4>1. CASE q = d /\ i = 1
        BY <3>3, <3>6, <4>1 DEF OnWay, InHand
      <4>2. CASE q = d /\ i # 1
        <5>1. i - 1 \in 1..Len(queue'[d]) /\ queue'[d][i - 1] = r
          BY <3>1, <3>2, <3>6, <4>2
        <5> QED BY <3>1, <5>1 DEF OnWay, Queueing, Positions
      <4>3. CASE q # d
        BY <3>2, <3>6, <4>3 DEF OnWay, Queueing, Positions
      <4> QED BY <4>1, <4>2, <4>3
    <3> QED BY <2>p, <3>5, <3>6 DEF OnWay, Queueing, Positions
  <2>2. ASSUME NEW v \in Workers, PickupReadJob(v)
        PROVE  OnWay(r)'
    <3>1. hand[v] \in Runs /\ queue' = queue
      BY <2>2, HandExists DEF PickupReadJob, storeVars
    <3>2. \A w \in Workers : hand[w] = r => hand'[w] = r
      BY <1>t, <2>2, <3>1 DEF NoneCancelled, PickupReadJob, Drop
    <3> QED BY <2>p, <3>1, <3>2 DEF OnWay, InHand, Queueing, Positions
  <2>3. ASSUME NEW v \in Workers, FinalCommit(v) \/ MarkRunFailed(v), hand[v] # r
        PROVE  OnWay(r)'
    <3>1. queue' = queue /\ \A w \in Workers : hand[w] = r => hand'[w] = r
      BY <1>t, <2>3 DEF FinalCommit, MarkRunFailed, Drop
    <3> QED BY <2>p, <3>1 DEF OnWay, InHand, Queueing, Positions
  <2>4. ASSUME NEW v \in Workers, WorkerStep(v) \/ WorkerFault(v),
               ~(PopJob(v) \/ PickupReadJob(v) \/ FinalCommit(v) \/ MarkRunFailed(v))
        PROVE  OnWay(r)'
    <3>1. queue' = queue /\ \A w \in Workers : hand[w] = r => hand'[w] = r
      BY <1>t, <1>l, <2>4 DEF Loses, Drop, WorkerStep, WorkerFault, WorkerStart, PickupReadRun, PickupCommit, Launch,
         LaunchFails, RunnerReturn, RunnerGivesUp, FinalReadJob, FinalReadRun, ExecuteRaises,
         WorkerStops, WorkerCrash, storeVars
    <3> QED BY <2>p, <3>1 DEF OnWay, InHand, Queueing, Positions
  <2>5. ASSUME NEW x \in Runs, ContainerStarts(x) \/ ContainerExit(x)
        PROVE  OnWay(r)'
    BY <2>p, <2>5 DEF ContainerStarts, ContainerExit, workerVars, OnWay, InHand, Queueing, Positions
  <2> QED BY <1>2, <2>1, <2>2, <2>3, <2>4, <2>5 DEF WorkersStep
<1>3. CASE ApiStep
  BY <1>3 DEF ApiStep, ApiNext, SubmitJob, StopContainer, AdminSetStatus, ClientStep, CancelReadJob,
     CancelReadRun, CancelFlush, CancelCommit, CancelAborts, storeVars, schedulerVars, workerVars, OnWay, InHand, Queueing, Positions
<1> QED BY <1>1, <1>2, <1>3, <1>n DEF Moves

(* While the run is scheduled or running somebody has it. *)
GoesOn(r) == runStatus[r] \in {"scheduled", "running"} => OnWay(r)

LEMMA GoesOnKept ==
  ASSUME Inv, Common, NEW r \in Runs, GoesOn(r), NoneCancelled(JobOf(r)), [Moves]_vars, [~Loses(r)]_vars
  PROVE  GoesOn(r)'
<1> SUFFICES ASSUME runStatus'[r] \in {"scheduled", "running"}, ~OnWay(r)'
             PROVE  FALSE
  BY DEF GoesOn
<1>1. Exists(r)
  BY CreatedScheduled DEF Exists, OnWay
<1>2. OnWay(r)
  <2>1. CASE runStatus'[r] = runStatus[r]
    BY <2>1 DEF GoesOn
  <2>2. CASE runStatus'[r] # runStatus[r]
    <3>1. PICK w \in Workers : hand[w] = r
      BY <1>1, <2>2, RunMoves
    <3> QED BY <3>1 DEF OnWay, InHand
  <2> QED BY <2>1, <2>2
<1>3. PICK w \in Workers : hand[w] = r /\ (FinalCommit(w) \/ MarkRunFailed(w))
  BY <1>2, LetsGo
<1>4. runStatus'[r] \in Terminal
  BY <1>3, DoneIsOver DEF Common
<1> QED BY <1>4 DEF Terminal

(* A run is never forgotten unless its job is cancelled, its push is lost  *)
(* or its worker goes: while it is scheduled or running, somebody has it,  *)
(* whatever exceptions come and whatever happens to other runs.            *)
THEOREM GoesOnUnlessLost ==
  ASSUME NEW r \in Runs
  PROVE  Spec /\ [][~Cancels(JobOf(r))]_vars /\ [][~Overrides(JobOf(r), {"cancelled"})]_vars
              /\ [][~Loses(r)]_vars => []GoesOn(r)
<1> DEFINE j == JobOf(r)
<1>j. j \in Jobs
  BY JobOfRun
<1>1. Init => GoesOn(r) /\ NoneCancelled(j)
  BY <1>j, NoneCancelledInit DEF Init, StoreInit, GoesOn
<1>2. Inv /\ Common /\ GoesOn(r) /\ NoneCancelled(j) /\ [Next]_vars
        /\ [~Cancels(j)]_vars /\ [~Overrides(j, {"cancelled"})]_vars /\ [~Loses(r)]_vars =>
          GoesOn(r)' /\ NoneCancelled(j)'
  BY <1>j, GoesOnKept, NoneCancelledKept DEF Next
<1> QED BY <1>1, <1>2, CommonInvariant, PTL DEF Spec

(* Calm operation: nobody cancels, and no push and no worker is lost. *)
IsCalm == Clients = {} /\ "cancelled" \notin AdminStatuses /\ Faults \subseteq {"raise", "miss"}

(* So no run is stranded then. *)
THEOREM NothingIsStranded ==
  ASSUME IsCalm
  PROVE  Spec => []NothingStranded
<1> DEFINE Kept == \A r \in Runs : GoesOn(r) /\ NoneCancelled(JobOf(r))
<1>1. Init => Kept
  <2> SUFFICES ASSUME Init, NEW r \in Runs PROVE GoesOn(r) /\ NoneCancelled(JobOf(r))
    OBVIOUS
  <2> QED BY JobOfRun, NoneCancelledInit DEF Init, StoreInit, GoesOn
<1>2. Inv /\ Common /\ Kept /\ [Next]_vars => Kept'
  <2> SUFFICES ASSUME Inv, Common, Kept, [Next]_vars, NEW r \in Runs
               PROVE  GoesOn(r)' /\ NoneCancelled(JobOf(r))'
    OBVIOUS
  <2>1. JobOf(r) \in Jobs
    BY JobOfRun
  <2>2. ~Cancels(JobOf(r)) /\ ~Overrides(JobOf(r), {"cancelled"}) /\ ~Loses(r)
    BY DEF IsCalm, Cancels, Overrides, AdminSetStatus, Loses, PushFails, WorkerStops, WorkerCrash
  <2> QED BY <2>1, <2>2, GoesOnKept, NoneCancelledKept DEF Next
<1>3. Kept => NothingStranded
  BY DEF GoesOn, OnWay, NothingStranded
<1> QED BY <1>1, <1>2, <1>3, CommonInvariant, PTL DEF Spec

-----------------------------------------------------------------------------
(* A job that is not cancelled late *)

(* A request that does not think the job queued thinks of its run. *)
Informed(j) ==
  \A c \in Clients : request[c].stage # "idle" /\ request[c].job = j /\ request[c].sawJob # "queued" =>
    /\ jobStatus[j] \notin {"absent", "queued"}
    /\ \A r \in Runs : RunOf(r, j) => request[c].run = r

(* Once the job is cancelled its run holds no device. *)
CancelledIsFree(j) ==
  \A r \in Runs : JobOf(r) = j /\ jobStatus[j] = "cancelled" => held[r] = {}

LEMMA LeavesQueue ==
  ASSUME Inv, NEW j \in Jobs, jobStatus[j] \notin {"absent", "queued"}, [Moves]_vars,
         [~Overrides(j, {"queued"})]_vars
  PROVE  jobStatus'[j] \notin {"absent", "queued"}
<1>1. \A w \in Workers : FinalStatus(w) \notin {"absent", "queued"}
  BY DEF FinalStatus
<1>2. "absent" \notin AdminStatuses
  BY EnvironmentAssumption DEF JobStatuses
<1> QED BY <1>1, <1>2, ChangesMove, JobMoves DEF Overrides

LEMMA InformedKept ==
  ASSUME Inv, NEW j \in Jobs, OneRun(j), Informed(j), [Moves]_vars, [~Overrides(j, {"queued"})]_vars
  PROVE  Informed(j)'
<1>t. request \in [Clients -> RequestStates]
  BY DEF Inv, TypeOK, ApiTypeOK
<1> SUFFICES ASSUME NEW c \in Clients, request'[c].stage # "idle", request'[c].job = j,
                    request'[c].sawJob # "queued"
             PROVE  /\ jobStatus'[j] \notin {"absent", "queued"}
                    /\ \A r \in Runs : RunOf(r, j)' => request'[c].run = r
  BY DEF Informed
<1>1. jobStatus[j] \notin {"absent", "queued"} /\ \A r \in Runs : RunOf(r, j) => request'[c].run = r
  <2>1. CASE CancelReadJob(c, j)
    <3>1. jobStatus[j] \in {"queued", "scheduled", "running"} /\ request'[c].sawJob = jobStatus[j]
          /\ request'[c].run = latest[j]
      BY <1>t, <2>1 DEF CancelReadJob
    <3> QED BY <3>1 DEF OneRun
  <2>2. CASE ~CancelReadJob(c, j)
    <3>1. /\ request[c].stage # "idle" /\ request'[c].job = request[c].job
          /\ request'[c].sawJob = request[c].sawJob /\ request'[c].run = request[c].run
      <4>1. ASSUME NEW d \in Clients, ClientStep(d), d # c
            PROVE  request'[c] = request[c]
        BY <1>t, <4>1 DEF ClientStep, CancelReadJob, CancelReadRun, CancelFlush, CancelCommit, CancelAborts
      <4>2. CASE CancelReadRun(c) \/ CancelFlush(c)
        BY <1>t, <4>2 DEF CancelReadRun, CancelFlush
      <4>3. ~(CancelCommit(c) \/ CancelAborts(c))
        BY <1>t DEF CancelCommit, CancelAborts, Idle
      <4>4. ASSUME NEW k \in Jobs, CancelReadJob(c, k)
            PROVE  FALSE
        <5>1. request'[c].job = k
          BY <1>t, <4>4 DEF CancelReadJob
        <5> QED BY <2>2, <4>4, <5>1
      <4>5. ASSUME ~\E d \in Clients : ClientStep(d)
            PROVE  request' = request
        BY <4>5 DEF Moves, SchedulerStep, WorkersStep, ApiStep, ApiNext, SubmitJob, StopContainer,
           AdminSetStatus, apiVars, vars
      <4> QED BY <4>1, <4>2, <4>3, <4>4, <4>5 DEF ClientStep
    <3> QED BY <3>1 DEF Informed
  <2> QED BY <2>1, <2>2
<1>2. \A r \in Runs : RunOf(r, j)' => RunOf(r, j)
  BY <1>1, RunsWereThere
<1> QED BY <1>1, <1>2, LeavesQueue

(* Devices are never given to a run that exists. *)
LEMMA NoNewDevices ==
  ASSUME Inv, [Moves]_vars, NEW r \in Runs, Exists(r), held[r] = {}
  PROVE  held'[r] = {}
<1>t. held \in [Runs -> SUBSET Gpus]
  BY DEF Inv, TypeOK, StoreTypeOK
<1>1. ASSUME NEW S \in SUBSET Queued, NEW assign \in [S -> SUBSET Gpus], OpenAllocations(S, assign)
      PROVE  held'[r] = held[r]
  <2>1. r \notin {NewRun(j) : j \in S}
    BY NewRunIsFresh DEF Inv
  <2> QED BY <1>1, <2>1 DEF OpenAllocations, CreateRuns
<1>2. ASSUME NEW x \in Runs, CloseAllocations(x)
      PROVE  held'[r] = {}
  BY <1>t, <1>2 DEF CloseAllocations, ReleaseGpus
<1> QED BY <1>1, <1>2, ShapeOfSteps DEF KeepAllocations

LEMMA CancelledIsFreeKept ==
  ASSUME Inv, Inv', NEW j \in Jobs, OneRun(j), Informed(j), CancelledIsFree(j), [Moves]_vars,
         [~Overrides(j, {"cancelled"})]_vars, [~CancelsLate(j)]_vars
  PROVE  CancelledIsFree(j)'
<1>t. held \in [Runs -> SUBSET Gpus]
  BY DEF Inv, TypeOK, StoreTypeOK
<1> SUFFICES ASSUME NEW r \in Runs, JobOf(r) = j, jobStatus'[j] = "cancelled"
             PROVE  held'[r] = {}
  BY DEF CancelledIsFree
<1>1. CASE ~RunOf(r, j)
  <2>1. ~Exists(r)'
    BY <1>1, CreatedScheduled DEF RunOf
  <2> QED BY <2>1 DEF Inv, AbsentUnused
<1>2. CASE RunOf(r, j) /\ jobStatus[j] = "cancelled"
  BY <1>2, NoNewDevices DEF CancelledIsFree, RunOf
<1>3. CASE RunOf(r, j) /\ jobStatus[j] # "cancelled"
  <2>1. ~UNCHANGED vars
    BY <1>3, ChangesMove
  <2>2. ASSUME NEW w \in Workers, JobOf(hand[w]) = j, FinalCommit(w)
        PROVE  held'[r] = {}
    <3>1. hand[w] = r
      BY <1>3, <2>2, EnderHasRun
    <3> QED BY <1>t, <2>2, <3>1 DEF FinalCommit, ReleaseGpus
  <2>3. ASSUME NEW c \in Clients, CancelCommit(c), request[c].job = j
        PROVE  held'[r] = {}
    <3>1. jobStatus[j] \notin {"absent", "queued"}
      BY <1>3 DEF OneRun
    <3>2. request[c].sawJob # "queued"
      BY <2>1, <2>3, <3>1 DEF CancelsLate
    <3>3. request[c].run = r /\ r # NoRun
      BY <1>3, <2>3, <3>2, EnvironmentAssumption DEF Informed, CancelCommit
    <3> QED BY <1>t, <2>3, <3>2, <3>3 DEF CancelCommit, CancelRunAndReleaseGpus, ReleaseGpus
  <2> QED
    BY <1>3, <2>1, <2>2, <2>3, JobMoves DEF Cancels, Overrides
<1> QED BY <1>1, <1>2, <1>3

(* A cancelled job keeps no device unless it was cancelled as queued after *)
(* a tick had scheduled it, or an administrator put it back or declared it *)
(* cancelled: any other cancellation finds its run, however it races with  *)
(* the worker's transactions.                                              *)
THEOREM FreeUnlessCancelledLate ==
  ASSUME NEW j \in Jobs
  PROVE  Spec /\ [][~CancelsLate(j)]_vars /\ [][~Overrides(j, {"queued", "cancelled"})]_vars =>
           []CancelledIsFree(j)
<1> DEFINE Kept == OneRun(j) /\ Informed(j) /\ CancelledIsFree(j)
<1>1. Init => Kept
  BY JobsInit DEF RealOf, Init, StoreInit, ApiInit, Idle, Informed, CancelledIsFree
<1>2. Inv /\ Inv' /\ Kept /\ [Next]_vars /\ [~CancelsLate(j)]_vars /\
        [~Overrides(j, {"queued", "cancelled"})]_vars => Kept'
  <2> SUFFICES ASSUME Inv, Inv', Kept, [Next]_vars, [~CancelsLate(j)]_vars,
                      [~Overrides(j, {"queued", "cancelled"})]_vars
               PROVE  Kept'
    OBVIOUS
  <2>1. [Moves]_vars /\ [~Overrides(j, {"queued"})]_vars /\ [~Overrides(j, {"cancelled"})]_vars
    BY OverridesLess DEF Next
  <2> QED BY <2>1, OneRunKept, InformedKept, CancelledIsFreeKept
<1> QED BY <1>1, <1>2, Invariance, PTL DEF Spec
=============================================================================
