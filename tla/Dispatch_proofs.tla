-------------------------- MODULE Dispatch_proofs ---------------------------
(***************************************************************************)
(* Proofs about the way of a run through GpuScheduler, for every choice of *)
(* the constants: the numbering of the attempts, the dispatch to one       *)
(* worker, the single execution and the rows of the workers.               *)
(***************************************************************************)
EXTENDS GpuScheduler_proofs

-----------------------------------------------------------------------------
(* Attempts *)

(* The job points to the last of its runs. *)
LatestIsLast ==
  \A j \in Jobs : latest[j] # NoRun =>
    JobOf(latest[j]) = j /\ \A n \in 1..MaxAttempts : Exists(<<j, n>>) <=> n <= latest[j][2]

(* Only a tick creates rows, and only a tick moves the pointer of a job. *)
LEMMA LatestMoves ==
  ASSUME Inv, [Moves]_vars
  PROVE  \/ latest' = latest /\ SameRuns
         \/ \E S \in SUBSET Queued : \E assign \in [S -> SUBSET Gpus] : OpenAllocations(S, assign)
<1> DEFINE Opens == \E S \in SUBSET Queued : \E assign \in [S -> SUBSET Gpus] : OpenAllocations(S, assign)
<1>1. SameRuns \/ Opens
  BY ShapeOfSteps DEF KeepAllocations, CloseAllocations
<1>2. latest' = latest \/ Opens
  <2>3. CASE SchedulerStep
    BY <2>3, SchedulerShape DEF jobTables
  <2>4. CASE WorkersStep
    BY <2>4 DEF WorkersStep, WorkerStep, WorkerFault, WorkerStart, PopJob, PickupReadRun,
       PickupReadJob, PickupCommit, Launch, LaunchFails, RunnerReturn, RunnerGivesUp,
       FinalReadJob, FinalReadRun, FinalCommit, MarkRunFailed, ExecuteRaises, WorkerStops,
       WorkerCrash, ContainerStarts, ContainerExit, storeVars, jobTables
  <2>5. CASE ApiStep
    BY <2>5 DEF ApiStep, ApiNext, ClientStep, SubmitJob, CancelReadJob, CancelReadRun,
       CancelFlush, CancelCommit, CancelAborts, StopContainer, AdminSetStatus, storeVars, jobTables
  <2>6. CASE UNCHANGED vars
    BY <2>6 DEF vars, storeVars, jobTables
  <2> HIDE DEF Opens
  <2> QED BY <2>3, <2>4, <2>5, <2>6 DEF Moves
<1> HIDE DEF Opens
<1>3. Opens \/ (latest' = latest /\ SameRuns)
  BY <1>1, <1>2
<1> QED BY <1>3 DEF Opens

(* The pointer stays on the last run. *)
LEMMA LatestIsLastKept ==
  ASSUME Inv, LatestIsLast, [Moves]_vars
  PROVE  LatestIsLast'
<1>1. CASE latest' = latest /\ SameRuns
  <2>1. \A j \in Jobs : \A n \in 1..MaxAttempts : Exists(<<j, n>>)' <=> Exists(<<j, n>>)
    BY <1>1 DEF SameRuns, Runs
  <2> QED BY <1>1, <2>1 DEF LatestIsLast, Exists
<1>2. ASSUME NEW S \in SUBSET Queued, NEW assign \in [S -> SUBSET Gpus],
             OpenAllocations(S, assign)
      PROVE  LatestIsLast'
  <2> DEFINE Created == {NewRun(j) : j \in S}
  <2>s. S \in SUBSET Jobs /\ DOMAIN assign = S
    BY DEF Queued
  <2>1. \A j \in S : NewRun(j) \in Runs /\ JobOf(NewRun(j)) = j
    BY NewRunIsRun
  <2>2. /\ \A r \in Runs : runStatus'[r] = IF r \in Created THEN "scheduled" ELSE runStatus[r]
        /\ \A j \in Jobs : latest'[j] = IF j \in S THEN NewRun(j) ELSE latest[j]
    BY <1>2, <2>s DEF OpenAllocations, CreateRuns
  <2>3. \A j \in Jobs : \A n \in 1..MaxAttempts :
          runStatus'[<<j, n>>] # "absent" <=> Exists(<<j, n>>) \/ (j \in S /\ n = Attempt(j))
    <3>1. \A j \in Jobs : \A n \in 1..MaxAttempts : <<j, n>> \in Created <=> j \in S /\ n = Attempt(j)
      BY <2>1 DEF NewRun, JobOf
    <3>2. \A j \in Jobs : \A n \in 1..MaxAttempts : <<j, n>> \in Runs
      BY DEF Runs
    <3> QED BY <2>2, <3>1, <3>2 DEF Exists
  <2> SUFFICES ASSUME NEW j \in Jobs, latest'[j] # NoRun
               PROVE  /\ JobOf(latest'[j]) = j
                      /\ \A n \in 1..MaxAttempts : runStatus'[<<j, n>>] # "absent" <=> n <= latest'[j][2]
    BY DEF LatestIsLast, Exists
  <2>4. CASE j \notin S
    BY <2>2, <2>3, <2>4 DEF LatestIsLast
  <2>5. CASE j \in S
    <3>1. PICK k \in 0..MaxAttempts : \A n \in 1..MaxAttempts : Exists(<<j, n>>) <=> n <= k
      BY DEF Inv, Numbered
    <3>2. Attempt(j) = k + 1
      BY <3>1, AttemptIsNext
    <3>3. latest'[j] = <<j, k + 1>>
      BY <2>2, <2>5, <3>2 DEF NewRun
    <3>4. \A n \in 1..MaxAttempts : runStatus'[<<j, n>>] # "absent" <=> n <= k \/ n = k + 1
      BY <2>3, <2>5, <3>1, <3>2
    <3> QED BY <3>3, <3>4, FiniteAssumption DEF JobOf
  <2> QED BY <2>4, <2>5
<1> QED BY <1>1, <1>2, LatestMoves

(* Attempts are numbered without a gap, and latest_run_id is the last of   *)
(* them, whatever is retried by an administrator.                          *)
THEOREM AttemptsAreInOrder == Spec => []AttemptsInOrder
<1>1. Init => LatestIsLast
  BY DEF Init, StoreInit, LatestIsLast
<1>2. Inv /\ LatestIsLast /\ [Next]_vars => LatestIsLast'
  BY LatestIsLastKept DEF Next
<1>3. Inv /\ LatestIsLast => AttemptsInOrder
  <2> SUFFICES ASSUME Inv, LatestIsLast PROVE AttemptsInOrder
    OBVIOUS
  <2>1. ASSUME NEW j \in Jobs, NEW n \in 2..MaxAttempts, Exists(<<j, n>>)
        PROVE  Exists(<<j, n - 1>>)
    <3>1. PICK k \in 0..MaxAttempts : \A i \in 1..MaxAttempts : Exists(<<j, i>>) <=> i <= k
      BY DEF Inv, Numbered
    <3>2. n \in 1..MaxAttempts /\ n - 1 \in 1..MaxAttempts
      BY FiniteAssumption
    <3> QED BY <2>1, <3>1, <3>2
  <2> QED BY <2>1 DEF AttemptsInOrder, LatestIsLast, Exists
<1> QED BY <1>1, <1>2, <1>3, Invariance, PTL DEF Spec

-----------------------------------------------------------------------------
(* One way to one worker *)

(* What a step may do to the runs that are on their way. *)
Forgets ==
  /\ pending' \subseteq pending /\ queue' = queue
  /\ \A w \in Workers : hand'[w] \in {hand[w], NoRun}
Lists ==
  /\ pending = {} /\ UNCHANGED <<queue, hand>>
  /\ \A r \in pending' : r \in Runs /\ ~Exists(r)
Pushes(r) ==
  r \in pending /\ pending' = pending \ {r} /\ RPush(QueueOf[JobOf(r)], r) /\ UNCHANGED hand
Pops(w) ==
  /\ hand[w] = NoRun /\ BLPop(ListensOn[w])
  /\ hand' = [hand EXCEPT ![w] = Head(queue[ListensOn[w]])]
  /\ UNCHANGED pending

(* A run that is on its way is forgotten, listed by the tick that creates  *)
(* it, pushed from the list or popped from a queue.                        *)
LEMMA DispatchMoves ==
  ASSUME Inv, [Moves]_vars
  PROVE  Forgets \/ Lists \/ (\E r \in Runs : Pushes(r)) \/ \E w \in Workers : Pops(w)
<1>t. TypeOK
  BY DEF Inv
<1>h. hand \in [Workers -> Runs \cup {NoRun}]
  BY <1>t DEF TypeOK, WorkerTypeOK
<1>1. CASE SchedulerStep
  <2>1. ASSUME NEW locked, ScheduleTick(locked)
        PROVE  Forgets \/ Lists
    <3>1. pending = {} /\ UNCHANGED <<queue, hand>>
      BY <1>1, <2>1, TickShape DEF SchedulerStep, workerVars
    <3>2. CASE pending' = pending
      BY <3>1, <3>2 DEF Forgets
    <3>3. ASSUME NEW S \in SUBSET Queued, NEW assign \in [S -> SUBSET Gpus],
                 OpenAllocations(S, assign)
          PROVE  Lists
      <4>1. pending' = {NewRun(j) : j \in S}
        BY <3>3 DEF OpenAllocations, CreateRuns
      <4>2. \A j \in S : NewRun(j) \in Runs /\ ~Exists(NewRun(j))
        BY NewRunIsRun, NewRunIsFresh DEF Inv
      <4> QED BY <3>1, <4>1, <4>2 DEF Lists
    <3> QED BY <2>1, <3>2, <3>3, TickShape
  <2>2. ASSUME NEW r \in Runs, PushJob(r)
        PROVE  Pushes(r)
    BY <1>1, <2>2 DEF PushJob, Pushes, SchedulerStep, workerVars
  <2>3. ASSUME PushFails \/ TickFails
        PROVE  Forgets
    BY <1>1, <2>3 DEF PushFails, TickFails, Forgets, SchedulerStep, workerVars, storeVars
  <2> QED BY <1>1, <2>1, <2>2, <2>3 DEF SchedulerStep, SchedulerNext
<1>2. CASE WorkersStep
  <2>1. ASSUME NEW w \in Workers, PopJob(w)
        PROVE  Pops(w)
    BY <1>2, <1>t, <2>1 DEF PopJob, Pops, Goto, WorkersStep, schedulerVars, TypeOK, WorkerTypeOK
  <2>2. ASSUME ~\E w \in Workers : PopJob(w)
        PROVE  Forgets
    <3>1. queue' = queue /\ \A w \in Workers : hand'[w] \in {hand[w], NoRun}
      BY <1>2, <1>h, <2>2 DEF WorkersStep, WorkerStep, WorkerFault, WorkerStart, PickupReadRun,
         PickupReadJob, PickupCommit, Launch, LaunchFails, RunnerReturn, RunnerGivesUp,
         FinalReadJob, FinalReadRun, FinalCommit, MarkRunFailed, ExecuteRaises, WorkerStops,
         WorkerCrash, ContainerStarts, ContainerExit, Drop, EndTransaction, storeVars, workerVars
    <3> QED BY <1>2, <3>1 DEF WorkersStep, schedulerVars, Forgets
  <2> QED BY <2>1, <2>2
<1>3. CASE ApiStep
  <2>1. queue' = queue
    BY <1>3 DEF ApiStep, ApiNext, ClientStep, SubmitJob, CancelReadJob, CancelReadRun,
       CancelFlush, CancelCommit, CancelAborts, StopContainer, AdminSetStatus, storeVars
  <2> QED BY <1>3, <2>1 DEF ApiStep, schedulerVars, workerVars, Forgets
<1>4. CASE UNCHANGED vars
  BY <1>4 DEF vars, storeVars, schedulerVars, workerVars, Forgets
<1> QED BY <1>1, <1>2, <1>3, <1>4 DEF Moves

(* Runs that are on their way have rows. *)
LEMMA OnTheWayExist ==
  ASSUME Inv
  PROVE  /\ \A r \in Runs : r \in pending \/ Queueing(r) \/ InHand(r) => Exists(r)
         /\ \A q \in Queues : queue[q] \in Seq(Runs)
  BY EnvironmentAssumption DEF Inv, RunsExist, TypeOK, StoreTypeOK, WorkerTypeOK, Queueing, InHand, Positions

(* The list of the scheduler is written anew with runs that are nowhere. *)
LEMMA ListsOnce ==
  ASSUME Inv, SingleDispatch, Lists
  PROVE  SingleDispatch'
  BY OnTheWayExist DEF Lists, SingleDispatch, Positions, Queueing, InHand

(* To forget a run takes it off its way. *)
LEMMA ForgetsOnce ==
  ASSUME Inv, SingleDispatch, Forgets
  PROVE  SingleDispatch'
<1>1. \A w \in Workers : hand'[w] # NoRun => hand'[w] = hand[w]
  BY DEF Forgets
<1>2. \A r \in Runs : InHand(r)' => InHand(r)
  BY <1>1, EnvironmentAssumption DEF InHand
<1>3. \A r \in Runs : Queueing(r)' <=> Queueing(r)
  BY DEF Forgets, Queueing, Positions
<1> QED
  BY <1>1, <1>2, <1>3 DEF Forgets, SingleDispatch, Positions

(* A push takes a run from the list to the end of its queue. *)
LEMMA PushesOnce ==
  ASSUME Inv, SingleDispatch, NEW r \in Runs, Pushes(r)
  PROVE  SingleDispatch'
<1> DEFINE d == QueueOf[JobOf(r)]
<1>1. d \in Queues /\ \A q \in Queues : queue[q] \in Seq(Runs)
  BY JobOfRun, QueueAssumption, OnTheWayExist
<1>2. queue' = [queue EXCEPT ![d] = Append(queue[d], r)] /\ queue \in [Queues -> Seq(Runs)]
  BY DEF Pushes, RPush, Inv, TypeOK, StoreTypeOK
<1>3. ASSUME NEW q \in Queues, NEW i \in 1..Len(queue'[q])
      PROVE  \/ q = d /\ i = Len(queue[d]) + 1 /\ queue'[q][i] = r
             \/ i \in 1..Len(queue[q]) /\ queue'[q][i] = queue[q][i] /\ queue[q][i] # r
  <2>0. \A k \in 1..Len(queue[q]) : queue[q][k] # r
    BY DEF SingleDispatch, Queueing, Positions, Pushes
  <2>1. CASE q = d
    <3>1. queue'[q] = Append(queue[q], r)
      BY <1>1, <1>2, <2>1
    <3>2. i \in 1..Len(Append(queue[q], r)) /\ queue[q] \in Seq(Runs)
      BY <1>1, <3>1
    <3>3. \/ i = Len(queue[q]) + 1 /\ Append(queue[q], r)[i] = r
          \/ i \in 1..Len(queue[q]) /\ Append(queue[q], r)[i] = queue[q][i]
      BY <3>2, AppendedElement
    <3> QED BY <2>0, <2>1, <3>1, <3>3
  <2>2. CASE q # d
    BY <1>2, <2>0, <2>2
  <2> QED BY <2>1, <2>2
<1> HIDE DEF d
<1>4. \A p, q \in Queues : \A i \in 1..Len(queue'[p]), k \in 1..Len(queue'[q]) :
        queue'[p][i] = queue'[q][k] => p = q /\ i = k
  <2> SUFFICES ASSUME NEW p \in Queues, NEW q \in Queues, NEW i \in 1..Len(queue'[p]),
                      NEW k \in 1..Len(queue'[q]), queue'[p][i] = queue'[q][k]
               PROVE  p = q /\ i = k
    OBVIOUS
  <2>1. \A u, v \in Queues : \A m \in 1..Len(queue[u]), n \in 1..Len(queue[v]) :
          queue[u][m] = queue[v][n] => u = v /\ m = n
    BY DEF SingleDispatch, Positions
  <2>2. \/ p = d /\ i = Len(queue[d]) + 1 /\ queue'[p][i] = r
        \/ i \in 1..Len(queue[p]) /\ queue'[p][i] = queue[p][i] /\ queue[p][i] # r
    BY <1>3
  <2>3. \/ q = d /\ k = Len(queue[d]) + 1 /\ queue'[q][k] = r
        \/ k \in 1..Len(queue[q]) /\ queue'[q][k] = queue[q][k] /\ queue[q][k] # r
    BY <1>3
  <2> QED BY <2>1, <2>2, <2>3
<1>5. \A s \in Runs : Queueing(s)' => s = r \/ Queueing(s)
  BY <1>3 DEF Queueing, Positions
<1>6. pending' = pending \ {r} /\ hand' = hand /\ r \in pending
  BY DEF Pushes
<1>7. \A s \in Runs : InHand(s)' <=> InHand(s)
  BY <1>6 DEF InHand
<1> QED
  BY <1>4, <1>5, <1>6, <1>7 DEF SingleDispatch, Positions

(* A pop takes a run from the head of a queue into the hands of a worker. *)
LEMMA PopsOnce ==
  ASSUME Inv, SingleDispatch, NEW w \in Workers, Pops(w)
  PROVE  SingleDispatch'
<1> DEFINE d == ListensOn[w]
           x == Head(queue[d])
<1>1. d \in Queues /\ \A q \in Queues : queue[q] \in Seq(Runs)
  BY QueueAssumption, OnTheWayExist
<1>2. queue[d] # <<>> /\ x = queue[d][1] /\ 1 \in 1..Len(queue[d]) /\ x \in Runs
  BY <1>1 DEF Pops, BLPop
<1>3. /\ queue' = [queue EXCEPT ![d] = Tail(queue[d])] /\ queue \in [Queues -> Seq(Runs)]
      /\ hand' = [hand EXCEPT ![w] = x] /\ hand \in [Workers -> Runs \cup {NoRun}]
      /\ pending' = pending
  BY DEF Pops, BLPop, Inv, TypeOK, StoreTypeOK, WorkerTypeOK
<1>4. ASSUME NEW q \in Queues, NEW i \in 1..Len(queue'[q])
      PROVE  \E k \in 1..Len(queue[q]) : /\ queue'[q][i] = queue[q][k]
                                         /\ q = d => k = i + 1
                                         /\ q # d => k = i
  <2>1. CASE q = d
    <3>1. queue'[q] = Tail(queue[q]) /\ queue[q] \in Seq(Runs) /\ queue[q] # <<>>
      BY <1>1, <1>2, <1>3, <2>1
    <3>2. i \in 1..Len(Tail(queue[q]))
      BY <3>1
    <3>3. i + 1 \in 1..Len(queue[q]) /\ Tail(queue[q])[i] = queue[q][i + 1]
      BY <3>1, <3>2, RestElement
    <3> QED BY <2>1, <3>1, <3>3
  <2>2. CASE q # d
    BY <1>3, <2>2
  <2> QED BY <2>1, <2>2
<1>5. \A v \in Workers : hand'[v] = IF v = w THEN x ELSE hand[v]
  BY <1>3
<1>6. Queueing(x)
  BY <1>1, <1>2 DEF Queueing, Positions
<1> HIDE DEF d, x
<1>d. \A u, v \in Queues : \A m \in 1..Len(queue[u]), n \in 1..Len(queue[v]) :
        queue[u][m] = queue[v][n] => u = v /\ m = n
  BY DEF SingleDispatch, Positions
<1>7. \A p, q \in Queues : \A i \in 1..Len(queue'[p]), k \in 1..Len(queue'[q]) :
        queue'[p][i] = queue'[q][k] => p = q /\ i = k
  <2> SUFFICES ASSUME NEW p \in Queues, NEW q \in Queues, NEW i \in 1..Len(queue'[p]),
                      NEW k \in 1..Len(queue'[q]), queue'[p][i] = queue'[q][k]
               PROVE  p = q /\ i = k
    OBVIOUS
  <2>1. PICK m \in 1..Len(queue[p]) : queue'[p][i] = queue[p][m] /\ (p = d => m = i + 1) /\ (p # d => m = i)
    BY <1>4
  <2>2. PICK n \in 1..Len(queue[q]) : queue'[q][k] = queue[q][n] /\ (q = d => n = k + 1) /\ (q # d => n = k)
    BY <1>4
  <2>3. p = q /\ m = n
    <3>1. queue[p][m] = queue[q][n]
      BY <2>1, <2>2
    <3> QED BY <1>d, <3>1
  <2>4. i \in Int /\ k \in Int
    OBVIOUS
  <2> QED BY <2>1, <2>2, <2>3, <2>4
<1>8. \A s \in Runs : Queueing(s)' => Queueing(s) /\ s # x
  <2> SUFFICES ASSUME NEW q \in Queues, NEW i \in 1..Len(queue'[q])
               PROVE  Queueing(queue'[q][i]) /\ queue'[q][i] # x
    BY DEF Queueing, Positions
  <2>1. PICK k \in 1..Len(queue[q]) : /\ queue'[q][i] = queue[q][k]
                                      /\ q = d => k = i + 1
    BY <1>4
  <2>2. queue[q][k] # x
    BY <1>1, <1>2, <1>d, <2>1
  <2> QED BY <2>1, <2>2 DEF Queueing, Positions
<1>9. \A s \in Runs : InHand(s)' => InHand(s) \/ s = x
  BY <1>5 DEF InHand
<1>10. ~InHand(x) /\ x \notin pending
  BY <1>2, <1>6 DEF SingleDispatch
<1>11. \A u, v \in Workers : hand'[u] = hand'[v] /\ hand'[u] # NoRun => u = v
  BY <1>5, <1>10 DEF SingleDispatch, InHand
<1> QED
  BY <1>2, <1>3, <1>7, <1>8, <1>9, <1>10, <1>11 DEF SingleDispatch, Positions

(* Every step keeps the runs apart. *)
LEMMA SingleDispatchKept ==
  ASSUME Inv, SingleDispatch, [Moves]_vars
  PROVE  SingleDispatch'
  BY DispatchMoves, ForgetsOnce, ListsOnce, PushesOnce, PopsOnce

(* A run is on its way to one worker at most, whatever fails: no restart,  *)
(* retry or failed push ever puts it in a second place.                    *)
THEOREM DispatchedToOne == Spec => []SingleDispatch
<1>1. Init => SingleDispatch
  BY DEF Init, StoreInit, SchedulerInit, WorkerInit, SingleDispatch, Positions, Queueing, InHand
<1>2. Inv /\ SingleDispatch /\ [Next]_vars => SingleDispatch'
  BY SingleDispatchKept DEF Next
<1> QED BY <1>1, <1>2, Invariance, PTL DEF Spec

-----------------------------------------------------------------------------
(* One execution *)

(* A run has no container while it is on its way and until the worker that *)
(* popped it launches one.                                                 *)
NotStarted ==
  /\ \A r \in Runs : ~Exists(r) \/ r \in pending \/ Queueing(r) => container[r] = "none"
  /\ \A w \in Workers : pc[w] \in BeforeRun => container[hand[w]] = "none"

(* Containers begin in one place, and end otherwise. *)
Begins(r) == container[r] = "starting" /\ container'[r] \in {"up", "err"}
Ends(r) == container[r] = "up" /\ container'[r] \in {"ok", "err"}
LaunchesBy(w, r) ==
  /\ pc[w] = "prepare" /\ hand[w] = r /\ container'[r] = "starting"
  /\ pc'[w] = "docker" /\ UNCHANGED <<pending, queue, hand, runStatus>>

LEMMA ContainerMoves ==
  ASSUME Inv, [Moves]_vars, NEW r \in Runs
  PROVE  \/ container'[r] = container[r] \/ Begins(r) \/ Ends(r)
         \/ \E w \in Workers : LaunchesBy(w, r)
<1>t. container \in [Runs -> ContainerStates] /\ hand \in [Workers -> Runs \cup {NoRun}] /\ pc \in [Workers -> WorkerPcs]
  BY DEF Inv, TypeOK, StoreTypeOK, WorkerTypeOK
<1>1. CASE SchedulerStep
  BY <1>1, TickShape
     DEF SchedulerStep, SchedulerNext, PushJob, PushFails, TickFails, storeVars
<1>2. CASE WorkersStep
  <2>1. ASSUME NEW w \in Workers, Launch(w)
        PROVE  container'[r] = container[r] \/ LaunchesBy(w, r)
    BY <1>2, <1>t, <2>1 DEF Launch, Goto, WorkersStep, schedulerVars, jobTables, LaunchesBy
  <2>2. ASSUME NEW w \in Workers, RunnerGivesUp(w)
        PROVE  container'[r] = container[r] \/ Ends(r)
    BY <1>t, <2>2 DEF RunnerGivesUp, Ends
  <2>3. ASSUME NEW s \in Runs, ContainerExit(s)
        PROVE  container'[r] = container[r] \/ Ends(r)
    BY <1>t, <2>3 DEF ContainerExit, Ends
  <2>5. ASSUME NEW s \in Runs, ContainerStarts(s)
        PROVE  container'[r] = container[r] \/ Begins(r)
    BY <1>t, <2>5 DEF ContainerStarts, Begins
  <2>4. ASSUME NEW w \in Workers, WorkerStep(w) \/ WorkerFault(w), ~Launch(w), ~RunnerGivesUp(w)
        PROVE  container' = container
    BY <2>4 DEF WorkerStep, WorkerFault, WorkerStart, PopJob, PickupReadRun, PickupReadJob,
       PickupCommit, LaunchFails, RunnerReturn, FinalReadJob, FinalReadRun, FinalCommit,
       MarkRunFailed, ExecuteRaises, WorkerStops, WorkerCrash, storeVars
  <2> QED BY <1>2, <2>1, <2>2, <2>3, <2>4, <2>5 DEF WorkersStep
<1>3. CASE ApiStep
  <2>1. ASSUME NEW s \in Runs, StopContainer(s)
        PROVE  container'[r] = container[r] \/ Ends(r)
    BY <1>t, <2>1 DEF StopContainer, Ends
  <2>2. ASSUME ~\E s \in Runs : StopContainer(s)
        PROVE  container' = container
    BY <1>3, <2>2 DEF ApiStep, ApiNext, ClientStep, SubmitJob, CancelReadJob, CancelReadRun,
       CancelFlush, CancelCommit, CancelAborts, AdminSetStatus, storeVars
  <2> QED BY <2>1, <2>2
<1>4. CASE UNCHANGED vars
  BY <1>4 DEF vars, storeVars
<1> QED BY <1>1, <1>2, <1>3, <1>4 DEF Moves

(* A worker that is about to execute a run has popped it. *)
LEMMA ComesFromQueue ==
  ASSUME Inv, [Moves]_vars, NEW w \in Workers, pc'[w] \in BeforeRun
  PROVE  \/ pc[w] \in BeforeRun /\ hand'[w] = hand[w]
         \/ hand'[w] \in Runs /\ Queueing(hand'[w])
<1>t. /\ hand \in [Workers -> Runs \cup {NoRun}] /\ pc \in [Workers -> WorkerPcs]
      /\ \A q \in Queues : queue[q] \in Seq(Runs)
  BY DEF Inv, TypeOK, StoreTypeOK, WorkerTypeOK
<1>1. CASE SchedulerStep \/ ApiStep \/ UNCHANGED vars
  BY <1>1 DEF SchedulerStep, ApiStep, workerVars, vars
<1>2. ASSUME NEW v \in Workers, PopJob(v)
      PROVE  \/ pc[w] \in BeforeRun /\ hand'[w] = hand[w]
             \/ hand'[w] \in Runs /\ Queueing(hand'[w])
  <2> DEFINE q == ListensOn[v]
  <2>1. q \in Queues /\ queue[q] \in Seq(Runs) /\ queue[q] # <<>>
    BY <1>t, <1>2, QueueAssumption DEF PopJob, BLPop
  <2>2. Head(queue[q]) = queue[q][1] /\ 1 \in 1..Len(queue[q]) /\ Head(queue[q]) \in Runs
    BY <2>1
  <2>3. Queueing(Head(queue[q]))
    BY <2>1, <2>2 DEF Queueing, Positions
  <2>4. CASE w = v
    BY <1>t, <1>2, <2>2, <2>3, <2>4 DEF PopJob
  <2>5. CASE w # v
    BY <1>t, <1>2, <2>5 DEF PopJob, Goto
  <2> QED BY <2>4, <2>5
<1>3. ASSUME NEW v \in Workers, WorkerStep(v) \/ WorkerFault(v), ~PopJob(v)
      PROVE  pc[w] \in BeforeRun /\ hand'[w] = hand[w]
  <2>1. CASE w = v
    BY <1>t, <1>3, <2>1 DEF WorkerStep, WorkerFault, WorkerStart, PickupReadRun, PickupReadJob,
       PickupCommit, Launch, LaunchFails, RunnerReturn, RunnerGivesUp, FinalReadJob, FinalReadRun,
       FinalCommit, MarkRunFailed, ExecuteRaises, WorkerStops, WorkerCrash, Goto, BeforeRun
  <2>2. CASE w # v
    BY <1>t, <1>3, <2>2 DEF WorkerStep, WorkerFault, WorkerStart, PickupReadRun, PickupReadJob,
       PickupCommit, Launch, LaunchFails, RunnerReturn, RunnerGivesUp, FinalReadJob, FinalReadRun,
       FinalCommit, MarkRunFailed, ExecuteRaises, WorkerStops, WorkerCrash, Goto, Drop
  <2> QED BY <2>1, <2>2
<1>4. ASSUME NEW r \in Runs, ContainerStarts(r) \/ ContainerExit(r)
      PROVE  pc[w] \in BeforeRun /\ hand'[w] = hand[w]
  BY <1>4 DEF ContainerStarts, ContainerExit, workerVars
<1> QED BY <1>1, <1>2, <1>3, <1>4 DEF Moves, WorkersStep

(* A run that queues was queueing or in the list of the scheduler. *)
LEMMA QueueingFrom ==
  ASSUME Inv, [Moves]_vars, NEW r \in Runs, Queueing(r)'
  PROVE  Queueing(r) \/ r \in pending
<1>s. \A q \in Queues : queue[q] \in Seq(Runs)
  BY OnTheWayExist
<1>q. queue \in [Queues -> Seq(Runs)]
  BY DEF Inv, TypeOK, StoreTypeOK
<1>1. CASE Forgets \/ Lists
  BY <1>1 DEF Forgets, Lists, Queueing, Positions
<1>2. ASSUME NEW x \in Runs, Pushes(x)
      PROVE  Queueing(r) \/ r \in pending
  <2> DEFINE d == QueueOf[JobOf(x)]
  <2>0. PICK p \in Queues : \E i \in 1..Len(queue'[p]) : queue'[p][i] = r
    BY DEF Queueing, Positions
  <2>1. PICK i \in 1..Len(queue'[p]) : queue'[p][i] = r
    BY <2>0
  <2>2. d \in Queues
    BY JobOfRun, QueueAssumption
  <2>3. queue' = [queue EXCEPT ![d] = Append(queue[d], x)]
    BY <1>2, <2>2 DEF Pushes, RPush
  <2>4. CASE p = d
    <3>1. i \in 1..Len(Append(queue[d], x)) /\ Append(queue[d], x)[i] = r
      BY <1>q, <2>1, <2>2, <2>3, <2>4
    <3>2. \/ i = Len(queue[d]) + 1 /\ Append(queue[d], x)[i] = x
          \/ i \in 1..Len(queue[d]) /\ Append(queue[d], x)[i] = queue[d][i]
      BY <1>s, <2>2, <3>1, AppendedElement
    <3> QED BY <1>2, <2>2, <3>1, <3>2 DEF Pushes, Queueing, Positions
  <2>5. CASE p # d
    BY <1>q, <2>1, <2>3, <2>5 DEF Queueing, Positions
  <2> QED BY <2>4, <2>5
<1>3. ASSUME NEW w \in Workers, Pops(w)
      PROVE  Queueing(r) \/ r \in pending
  <2> DEFINE d == ListensOn[w]
  <2>0. PICK p \in Queues : \E i \in 1..Len(queue'[p]) : queue'[p][i] = r
    BY DEF Queueing, Positions
  <2>1. PICK i \in 1..Len(queue'[p]) : queue'[p][i] = r
    BY <2>0
  <2>2. d \in Queues /\ queue[d] # <<>> /\ queue' = [queue EXCEPT ![d] = Tail(queue[d])]
    BY <1>3, QueueAssumption DEF Pops, BLPop
  <2>4. CASE p = d
    <3>1. i \in 1..Len(Tail(queue[d])) /\ Tail(queue[d])[i] = r
      BY <1>q, <2>1, <2>2, <2>4
    <3>2. i + 1 \in 1..Len(queue[d]) /\ Tail(queue[d])[i] = queue[d][i + 1]
      BY <1>s, <2>2, <3>1, RestElement
    <3> QED BY <2>2, <3>1, <3>2 DEF Queueing, Positions
  <2>5. CASE p # d
    BY <1>q, <2>1, <2>2, <2>5 DEF Queueing, Positions
  <2> QED BY <2>4, <2>5
<1> QED BY <1>1, <1>2, <1>3, DispatchMoves

(* A run that has started is off the way to the workers. *)
LEMMA NotStartedKept ==
  ASSUME Inv, SingleDispatch, NotStarted, [Moves]_vars
  PROVE  NotStarted'
<1>t. /\ hand \in [Workers -> Runs \cup {NoRun}] /\ pc \in [Workers -> WorkerPcs]
      /\ pending \subseteq Runs
      /\ \A w \in Workers : hand[w] = NoRun => pc[w] \in {"down", "idle"}
  BY DEF Inv, TypeOK, WorkerTypeOK, SchedulerTypeOK
<1>1. ASSUME NEW r \in Runs, container[r] = "none", container'[r] # "none"
      PROVE  \E w \in Workers : LaunchesBy(w, r)
  BY <1>1, ContainerMoves DEF Begins, Ends
<1>2. ASSUME NEW r \in Runs, ~Exists(r)' \/ r \in pending' \/ Queueing(r)'
      PROVE  container'[r] = "none"
  <2>1. ~Exists(r) \/ r \in pending \/ Queueing(r)
    <3>1. CASE ~Exists(r)'
      BY <3>1, RunsStay
    <3>2. CASE r \in pending'
      <4>1. pending' \subseteq pending \/ ~Exists(r)
        BY <3>2, DispatchMoves DEF Forgets, Lists, Pushes, Pops
      <4> QED BY <3>2, <4>1
    <3>3. CASE Queueing(r)'
      BY <3>3, QueueingFrom
    <3> QED BY <1>2, <3>1, <3>2, <3>3
  <2>2. container[r] = "none"
    BY <2>1 DEF NotStarted
  <2>3. ASSUME NEW w \in Workers, LaunchesBy(w, r)
        PROVE  FALSE
    <3>1. InHand(r)
      BY <2>3 DEF LaunchesBy, InHand
    <3>2. Exists(r)
      BY <3>1, OnTheWayExist
    <3> QED BY <2>1, <3>1, <3>2 DEF SingleDispatch
  <2> QED BY <1>1, <2>2, <2>3
<1>3. ASSUME NEW w \in Workers, pc'[w] \in BeforeRun
      PROVE  container'[hand'[w]] = "none"
  <2>1. CASE pc[w] \in BeforeRun /\ hand'[w] = hand[w]
    <3>1. hand[w] \in Runs /\ container[hand[w]] = "none"
      BY <1>t, <2>1 DEF NotStarted, BeforeRun
    <3>2. ASSUME NEW v \in Workers, LaunchesBy(v, hand[w])
          PROVE  FALSE
      <4>1. v = w
        BY <1>t, <3>1, <3>2, EnvironmentAssumption DEF LaunchesBy, SingleDispatch
      <4> QED BY <1>3, <3>2, <4>1 DEF LaunchesBy, BeforeRun
    <3> QED BY <1>1, <2>1, <3>1, <3>2
  <2>2. CASE hand'[w] \in Runs /\ Queueing(hand'[w])
    <3>1. container[hand'[w]] = "none"
      BY <2>2 DEF NotStarted
    <3>2. ASSUME NEW v \in Workers, LaunchesBy(v, hand'[w])
          PROVE  FALSE
      BY <2>2, <3>2 DEF LaunchesBy, InHand, SingleDispatch
    <3> QED BY <1>1, <2>2, <3>1, <3>2
  <2> QED BY <1>3, <2>1, <2>2, ComesFromQueue
<1>4. \A r \in Runs : (~Exists(r) \/ r \in pending \/ Queueing(r))' => container'[r] = "none"
  BY <1>2
<1> QED BY <1>3, <1>4 DEF NotStarted

(* A container only starts where there was none. *)
LEMMA StartsOnce ==
  ASSUME Inv, NotStarted, [Moves]_vars, NEW r \in Runs, container'[r] # container[r]
  PROVE  \/ container[r] = "none" /\ container'[r] = "starting"
         \/ container[r] = "starting" /\ container'[r] \in {"up", "err"}
         \/ container[r] = "up" /\ container'[r] \in {"ok", "err"}
<1>1. ASSUME NEW w \in Workers, LaunchesBy(w, r)
      PROVE  container[r] = "none" /\ container'[r] = "starting"
  BY <1>1 DEF LaunchesBy, NotStarted, BeforeRun
<1> QED BY <1>1, ContainerMoves DEF Begins, Ends

(* The program of a run is executed at most once, whatever crashes or is   *)
(* retried: a run has one container, which ends once.                      *)
THEOREM RunsAreExecutedOnce == Spec => ExecutedOnce
<1>1. Init => SingleDispatch /\ NotStarted
  BY DEF Init, StoreInit, SchedulerInit, WorkerInit, SingleDispatch, NotStarted, Positions,
     Queueing, InHand, BeforeRun
<1>2. Inv /\ SingleDispatch /\ NotStarted /\ [Next]_vars => (SingleDispatch /\ NotStarted)'
  BY SingleDispatchKept, NotStartedKept DEF Next
<1>3. Inv /\ NotStarted /\ [Next]_vars =>
        [\A r \in Runs : container'[r] # container[r] =>
           \/ container[r] = "none" /\ container'[r] = "starting"
           \/ container[r] = "starting" /\ container'[r] \in {"up", "err"}
           \/ container[r] = "up" /\ container'[r] \in {"ok", "err"}]_vars
  BY StartsOnce DEF Next
<1> QED BY <1>1, <1>2, <1>3, Invariance, PTL DEF Spec, ExecutedOnce

-----------------------------------------------------------------------------
(* Priorities *)

(* The transaction looks at its jobs in their order; what is left when it  *)
(* has passed over a job, and what a later job gets, was there when it     *)
(* looked for that job, which was not enough, or has come back since.      *)
Seen(j) == found[j] \cup missed[j]
LooksInOrder == \A j \in DOMAIN found, k \in batch \ DOMAIN found : order[j] < order[k]
PassedOver ==
  \A j \in DOMAIN found \ ServedBy(found) :
    /\ Cardinality(found[j]) < Need[j]
    /\ LeftBy(found) \subseteq Seen(j)
    /\ \A k \in ServedBy(found) : order[j] < order[k] => found[k] \subseteq Seen(j)
Fair == LooksInOrder /\ PassedOver

(* The steps of other transactions: what they give back is noted.          *)
LEMMA OthersKeepFair ==
  ASSUME Inv, Fair, NoteReleases, UNCHANGED <<order, batch, found>>
  PROVE  Fair'
<1>1. \A g \in Gpus : gpuOwner[g] \in Runs \cup {NoRun}
  BY DEF Inv, TypeOK, StoreTypeOK
<1>2. \A j \in DOMAIN found :
        missed'[j] = missed[j] \cup {g \in Gpus : gpuOwner[g] # NoRun /\ gpuOwner'[g] = NoRun}
  BY DEF NoteReleases
<1>3. \A j \in DOMAIN found : LeftBy(found)' \subseteq LeftBy(found) \cup missed'[j]
  BY <1>2 DEF LeftBy, AvailableGpus, ServedBy
<1>4. ServedBy(found)' = ServedBy(found)
  BY DEF ServedBy
<1>5. LooksInOrder'
  BY DEF Fair, LooksInOrder
<1>6. ASSUME NEW j \in DOMAIN found \ ServedBy(found)
      PROVE  /\ Cardinality(found[j]) < Need[j]
             /\ LeftBy(found)' \subseteq Seen(j)'
             /\ \A k \in ServedBy(found) : order[j] < order[k] => found[k] \subseteq Seen(j)'
  <2>1. Seen(j) \subseteq Seen(j)' /\ missed'[j] \subseteq Seen(j)'
    BY <1>2 DEF Seen
  <2>2. /\ Cardinality(found[j]) < Need[j]
        /\ LeftBy(found) \subseteq Seen(j)
        /\ \A k \in ServedBy(found) : order[j] < order[k] => found[k] \subseteq Seen(j)
    BY DEF Fair, PassedOver
  <2> QED BY <1>3, <2>1, <2>2
<1> QED BY <1>4, <1>5, <1>6 DEF Fair, PassedOver

(* What the next job of the transaction gets was left by the jobs before.  *)
FairLook(jobs, o, j, G, f) ==
  /\ \A i \in DOMAIN found : o[i] < o[j]
  /\ \A i \in DOMAIN f, k \in jobs \ DOMAIN f : o[i] < o[k]
  /\ \A i \in DOMAIN found : i \in ServedBy(f) <=> i \in ServedBy(found)
  /\ \A i \in DOMAIN f \ ServedBy(f) :
       /\ Cardinality(f[i]) < Need[i]
       /\ LeftBy(f) \subseteq IF i = j THEN G ELSE Seen(i)
       /\ \A k \in ServedBy(f) : o[i] < o[k] => f[k] \subseteq IF i = j THEN G ELSE Seen(i)
LEMMA NextIsFair ==
  ASSUME Inv, Fair, NEW jobs \in SUBSET Queued, NEW o \in Orders, NEW j \in Jobs,
         NEW G \in Offers(j, found), NEW f,
         DOMAIN f = DOMAIN found \cup {j}, f[j] = G,
         \A i \in DOMAIN found : i # j => f[i] = found[i],
         batch = {} \/ (jobs = batch /\ o = order), ComesFirst(j, jobs \ DOMAIN found, o)
  PROVE  FairLook(jobs, o, j, G, f)
<1>0. /\ o \in [Jobs -> Nat] /\ \A i, k \in Jobs : o[i] = o[k] => i = k
      /\ jobs \subseteq Jobs /\ DOMAIN found \subseteq batch
  BY JobAssumption DEF Queued, Inv, BatchQueued
<1>1. /\ j \in jobs \ DOMAIN found
      /\ \A k \in jobs \ DOMAIN found : k # j => o[j] < o[k]
  <2>1. j \in jobs \ DOMAIN found /\ \A k \in jobs \ DOMAIN found : o[j] <= o[k]
    BY DEF ComesFirst
  <2>2. ASSUME NEW k \in jobs \ DOMAIN found, k # j
        PROVE  o[j] < o[k]
    <3>1. o[j] \in Nat /\ o[k] \in Nat /\ o[j] # o[k] /\ o[j] <= o[k]
      BY <1>0, <2>1, <2>2
    <3> QED BY <3>1
  <2> QED BY <2>1, <2>2
<1>2. DOMAIN found # {} => jobs = batch /\ o = order
  BY <1>0
<1>3. \A i \in DOMAIN found, k \in jobs \ DOMAIN found : o[i] < o[k]
  BY <1>2 DEF Fair, LooksInOrder
<1>4. DOMAIN f = DOMAIN found \cup {j} /\ f[j] = G /\ \A i \in DOMAIN found : i # j /\ f[i] = found[i]
  BY <1>1
<1>5. \A i \in DOMAIN found : i \in ServedBy(f) <=> i \in ServedBy(found)
  BY <1>4 DEF ServedBy
<1>6. LeftBy(f) \subseteq LeftBy(found) /\ G \subseteq LeftBy(found)
  <2>1. \A k \in ServedBy(found) : k \in ServedBy(f) /\ f[k] = found[k]
    BY <1>4, <1>5 DEF ServedBy
  <2> QED BY <2>1 DEF LeftBy, Offers
<1>7. \A i \in DOMAIN f, k \in jobs \ DOMAIN f : o[i] < o[k]
  BY <1>1, <1>3, <1>4
<1>8. ASSUME NEW i \in DOMAIN f \ ServedBy(f)
      PROVE  /\ Cardinality(f[i]) < Need[i]
             /\ LeftBy(f) \subseteq IF i = j THEN G ELSE Seen(i)
             /\ \A k \in ServedBy(f) :
                  o[i] < o[k] => f[k] \subseteq IF i = j THEN G ELSE Seen(i)
  <2>1. CASE i = j
    <3>1. Cardinality(G) < Need[j] /\ G = LeftBy(found)
      BY <1>4, <1>8, <2>1 DEF Offers, ServedBy
    <3>2. ASSUME NEW k \in ServedBy(f), o[j] < o[k]
          PROVE  FALSE
      <4>1. k \in DOMAIN found
        BY <1>4, <1>8, <2>1, <3>2 DEF ServedBy
      <4>2. o[k] < o[j] /\ o[k] \in Nat /\ o[j] \in Nat
        BY <1>0, <1>1, <1>2, <1>3, <4>1
      <4> QED BY <3>2, <4>2
    <3> QED BY <1>4, <1>6, <2>1, <3>1, <3>2
  <2>2. CASE i # j
    <3>1. i \in DOMAIN found \ ServedBy(found) /\ f[i] = found[i] /\ o = order
      BY <1>2, <1>4, <1>5, <1>8, <2>2
    <3>2. /\ Cardinality(found[i]) < Need[i]
          /\ LeftBy(found) \subseteq Seen(i)
          /\ \A k \in ServedBy(found) : order[i] < order[k] => found[k] \subseteq Seen(i)
      BY <3>1 DEF Fair, PassedOver
    <3>3. ASSUME NEW k \in ServedBy(f), o[i] < o[k]
          PROVE  f[k] \subseteq Seen(i)
      <4>1. CASE k = j
        BY <1>4, <1>6, <3>2, <4>1
      <4>2. CASE k # j
        BY <1>4, <1>5, <3>1, <3>2, <3>3, <4>2 DEF ServedBy
      <4> QED BY <4>1, <4>2
    <3> QED BY <1>6, <2>2, <3>1, <3>2, <3>3
  <2> QED BY <2>1, <2>2
<1> QED BY <1>1, <1>3, <1>5, <1>7, <1>8 DEF FairLook

(* The transaction itself: it notes nothing when it goes on, since it      *)
(* gives no device back.                                                   *)
LEMMA LooksKeepFair ==
  ASSUME Inv, Fair, NoteReleases, NEW locked, ScheduleTick(locked)
  PROVE  Fair'
<1>1. PICK jobs \in SUBSET Queued, o \in Orders, j \in Jobs :
        \E G \in Offers(j, found) :
           LET f == [k \in DOMAIN found \cup {j} |-> IF k = j THEN G ELSE found[k]] IN
           /\ batch = {} \/ (jobs = batch /\ o = order)
           /\ ComesFirst(j, jobs \ DOMAIN found, o)
           /\ order' = o
           /\ GoOn(jobs, f) \/ CommitTick(jobs, f)
  BY TickLooks DEF Inv, TypeOK
<1>2. PICK G \in Offers(j, found) :
           LET f == [k \in DOMAIN found \cup {j} |-> IF k = j THEN G ELSE found[k]] IN
           GoOn(jobs, f) \/ CommitTick(jobs, f)
  BY <1>1
<1> DEFINE f == [k \in DOMAIN found \cup {j} |-> IF k = j THEN G ELSE found[k]]
<1>3. GoOn(jobs, f) \/ CommitTick(jobs, f)
  BY <1>2
<1>4. CASE CommitTick(jobs, f)
  <2>1. DOMAIN found' = {} /\ batch' = {}
    BY <1>4 DEF CommitTick, NoneFound
  <2> QED BY <2>1 DEF Fair, LooksInOrder, PassedOver
<1>5. CASE GoOn(jobs, f)
  <2>1. batch' = jobs /\ found' = f /\ order' = o /\ gpuOwner' = gpuOwner
    BY <1>1, <1>5 DEF GoOn, jobTables
  <2>2. DOMAIN f = DOMAIN found \cup {j} /\ f[j] = G /\ \A i \in DOMAIN found : i # j => f[i] = found[i]
    OBVIOUS
  <2>j. j \notin DOMAIN found
    BY <1>1 DEF ComesFirst
  <2>3. missed \in [DOMAIN found -> SUBSET Gpus]
    BY DEF Inv, TypeOK
  <2>4. missed'[j] = {} /\ \A i \in DOMAIN found : missed'[i] = missed[i]
    BY <2>1, <2>2, <2>3, <2>j DEF NoteReleases
  <2>5. \A i \in DOMAIN f : Seen(i)' = IF i = j THEN G ELSE Seen(i)
    BY <2>1, <2>2, <2>4, <2>j DEF Seen
  <2>6. LeftBy(found)' = LeftBy(f) /\ ServedBy(found)' = ServedBy(f)
    BY <2>1 DEF LeftBy, ServedBy, AvailableGpus
  <2>7. /\ \A i \in DOMAIN f, k \in jobs \ DOMAIN f : o[i] < o[k]
        /\ \A i \in DOMAIN f \ ServedBy(f) :
             /\ Cardinality(f[i]) < Need[i]
             /\ LeftBy(f) \subseteq IF i = j THEN G ELSE Seen(i)
             /\ \A k \in ServedBy(f) : o[i] < o[k] => f[k] \subseteq IF i = j THEN G ELSE Seen(i)
    <3>2. (batch = {} \/ (jobs = batch /\ o = order)) /\ ComesFirst(j, jobs \ DOMAIN found, o)
      BY <1>1
    <3> HIDE DEF f
    <3>3. FairLook(jobs, o, j, G, f)
      BY <2>2, <3>2, NextIsFair
    <3> QED BY <3>3 DEF FairLook
  <2> HIDE DEF f
  <2>8. LooksInOrder'
    BY <2>1, <2>7 DEF LooksInOrder
  <2>9. PassedOver'
    BY <2>1, <2>5, <2>6, <2>7 DEF PassedOver
  <2> QED BY <2>8, <2>9 DEF Fair
<1> QED BY <1>3, <1>4, <1>5

(* Every step keeps it. *)
LEMMA FairKept ==
  ASSUME Inv, Fair, [Next]_vars
  PROVE  Fair'
<1>1. CASE UNCHANGED vars
  BY <1>1 DEF vars, storeVars, jobTables, schedulerVars, Fair, LooksInOrder, PassedOver, Seen,
     LeftBy, ServedBy, AvailableGpus
<1>2. ASSUME NEW locked, ScheduleTick(locked), NoteReleases
      PROVE  Fair'
  BY <1>2, LooksKeepFair
<1>3. CASE TickFails
  <2>1. DOMAIN found' = {} /\ batch' = {}
    BY <1>3 DEF TickFails, NoneFound
  <2> QED BY <2>1 DEF Fair, LooksInOrder, PassedOver
<1>4. ASSUME NoteReleases, (\E r \in Runs : PushJob(r)) \/ PushFails \/ WorkersStep \/ ApiStep
      PROVE  Fair'
  <2>1. UNCHANGED <<order, batch, found>>
    BY <1>4 DEF PushJob, PushFails, WorkersStep, ApiStep, schedulerVars
  <2> QED BY <1>4, <2>1, OthersKeepFair
<1> QED BY <1>1, <1>2, <1>3, <1>4 DEF Next, Moves, SchedulerStep, SchedulerNext

(* When the transaction commits, whoever gets devices although a job that  *)
(* comes before gets none has fewer of those that job has seen.            *)
LEMMA OvertakesByLess ==
  ASSUME Inv, Fair, [Next]_vars, NEW j \in batch, NEW r \in Runs,
         order[j] < order[JobOf(r)], jobStatus'[j] = "queued",
         runStatus[r] = "absent", runStatus'[r] # "absent"
  PROVE  Cardinality(granted'[r] \ MissedBy(j)) < Need[j]
<1>1. ~SameRuns
  BY DEF SameRuns, Exists
<1>2. PICK locked : ScheduleTick(locked)
  <2>1. SchedulerStep
    BY <1>1, WorkersShape, ApiShape
       DEF Next, Moves, KeepAllocations, CloseAllocations, SameRuns, Exists, vars, storeVars, jobTables
  <2> QED BY <1>1, <2>1
          DEF SchedulerStep, SchedulerNext, PushJob, PushFails, TickFails, SameRuns, Exists,
              storeVars, jobTables
<1>3. PICK jobs \in SUBSET Queued, o \in Orders, l \in Jobs :
        \E G \in Offers(l, found) :
           LET f == [k \in DOMAIN found \cup {l} |-> IF k = l THEN G ELSE found[k]] IN
           /\ batch = {} \/ (jobs = batch /\ o = order)
           /\ ComesFirst(l, jobs \ DOMAIN found, o)
           /\ GoOn(jobs, f) \/ CommitTick(jobs, f)
  BY <1>2, TickLooks DEF Inv, TypeOK
<1>4. PICK G \in Offers(l, found) :
           LET f == [k \in DOMAIN found \cup {l} |-> IF k = l THEN G ELSE found[k]] IN
           GoOn(jobs, f) \/ CommitTick(jobs, f)
  BY <1>3
<1> DEFINE f == [k \in DOMAIN found \cup {l} |-> IF k = l THEN G ELSE found[k]]
<1>5. GoOn(jobs, f) \/ CommitTick(jobs, f)
  BY <1>4
<1>6. jobs = batch /\ o = order
  BY <1>3
<1>7. /\ \A i \in DOMAIN found : order[i] < order[l]
      /\ \A i \in DOMAIN found : i \in ServedBy(f) <=> i \in ServedBy(found)
      /\ \A i \in DOMAIN f \ ServedBy(f) :
           \A k \in ServedBy(f) : order[i] < order[k] => f[k] \subseteq IF i = l THEN G ELSE Seen(i)
  <2>1. DOMAIN f = DOMAIN found \cup {l} /\ f[l] = G /\ \A i \in DOMAIN found : i # l => f[i] = found[i]
    OBVIOUS
  <2>2. (batch = {} \/ (jobs = batch /\ o = order)) /\ ComesFirst(l, jobs \ DOMAIN found, o)
    BY <1>3
  <2> HIDE DEF f
  <2>3. FairLook(jobs, o, l, G, f)
    BY <2>1, <2>2, NextIsFair
  <2> QED BY <1>6, <2>3 DEF FairLook
<1>8. DOMAIN f = DOMAIN found \cup {l}
  OBVIOUS
<1>l. l \in Jobs \ DOMAIN found
  BY <1>3 DEF ComesFirst
<1>f. \A i \in DOMAIN found : f[i] = found[i]
  BY <1>l
<1> HIDE DEF f
<1>9. CommitTick(jobs, f)
  BY <1>1, <1>5 DEF GoOn, jobTables, SameRuns, Exists
<1> DEFINE S == ServedBy(f)
           assign == [k \in S |-> f[k]]
<1>10. CreateRuns(assign) /\ DOMAIN assign = S /\ S \subseteq Queued /\ DOMAIN f = batch
  BY <1>6, <1>9 DEF CommitTick, ServedBy
<1>11. \A k \in S : assign[k] = f[k]
  OBVIOUS
<1> HIDE DEF assign
<1>12. r \in {NewRun(k) : k \in S} /\ granted'[r] = assign[JobOf(r)]
  <2>1. runStatus'[r] = IF r \in {NewRun(k) : k \in S} THEN "scheduled" ELSE runStatus[r]
    BY <1>10 DEF CreateRuns
  <2>2. r \in {NewRun(k) : k \in S}
    BY <2>1
  <2>3. granted'[r] = IF r \in {NewRun(k) : k \in S} THEN assign[JobOf(r)] ELSE granted[r]
    BY <1>10 DEF CreateRuns
  <2> QED BY <2>2, <2>3
<1>13. JobOf(r) \in S /\ granted'[r] = f[JobOf(r)]
  BY <1>10, <1>11, <1>12, NewRunIsRun
<1>14. j \in Jobs /\ j \notin S
  BY <1>10 DEF CreateRuns, Inv, TypeOK, SchedulerTypeOK
<1>15. j # l
  <2>1. SUFFICES ASSUME j = l PROVE FALSE
    OBVIOUS
  <2>2. JobOf(r) \in DOMAIN found
    BY <1>8, <1>13, <1>14, <2>1 DEF ServedBy
  <2>3. order[JobOf(r)] < order[j] /\ order[j] \in Nat /\ order[JobOf(r)] \in Nat
    BY <1>7, <1>14, <2>1, <2>2, JobOfRun, JobAssumption DEF Inv, TypeOK, SchedulerTypeOK
  <2> QED BY <2>3
<1>16. j \in DOMAIN found /\ j \notin ServedBy(found)
  BY <1>7, <1>8, <1>10, <1>14, <1>15
<1>17. f[JobOf(r)] \subseteq Seen(j) /\ Cardinality(found[j]) < Need[j]
  BY <1>7, <1>8, <1>13, <1>14, <1>15, <1>16 DEF Fair, PassedOver
<1>18. granted'[r] \ MissedBy(j) \subseteq found[j]
  BY <1>13, <1>16, <1>17 DEF MissedBy, Seen
<1>19. IsFiniteSet(found[j])
  <2>1. PICK T \in SUBSET Jobs : found \in [T -> SUBSET Gpus]
    BY DEF Inv, TypeOK, SchedulerTypeOK
  <2> QED BY <1>16, <2>1, FS_Subset, FiniteAssumption
<1>20. Cardinality(granted'[r] \ MissedBy(j)) <= Cardinality(found[j])
  BY <1>18, <1>19, FS_Subset
<1>21. /\ Cardinality(granted'[r] \ MissedBy(j)) \in Nat /\ Cardinality(found[j]) \in Nat
       /\ Need[j] \in Nat
  BY <1>14, <1>18, <1>19, FS_Subset, FS_CardinalityType, JobAssumption
<1> QED BY <1>17, <1>20, <1>21

(* A job that a tick leaves queued is overtaken in that tick only by runs  *)
(* with fewer devices than it needs, those not counted that other          *)
(* transactions gave back after the tick had looked for devices for it.    *)
THEOREM PrioritiesHold == Spec => OvertakenByLess
<1>1. Init => Fair
  BY DEF Init, SchedulerInit, NoneFound, Fair, LooksInOrder, PassedOver
<1>2. Inv /\ Fair /\ [Next]_vars => Fair'
  BY FairKept
<1>3. Inv /\ Fair /\ [Next]_vars =>
        [\A j \in batch, r \in Runs :
           /\ order[j] < order[JobOf(r)]
           /\ jobStatus'[j] = "queued"
           /\ runStatus[r] = "absent" /\ runStatus'[r] # "absent"
           => Cardinality(granted'[r] \ MissedBy(j)) < Need[j]]_vars
  BY OvertakesByLess
<1> QED BY <1>1, <1>2, <1>3, Invariance, PTL DEF Spec, OvertakenByLess

-----------------------------------------------------------------------------
(* Rows of workers *)

(* The steps of a worker keep its own row true. *)
LEMMA OwnRowKept ==
  ASSUME Inv, WorkerRowTruthful, NEW w \in Workers, WorkerStep(w) \/ WorkerFault(w)
  PROVE  WorkerRowTruthful'
<1>t. /\ hand \in [Workers -> Runs \cup {NoRun}] /\ pc \in [Workers -> WorkerPcs]
      /\ workerRow \in [Workers -> [status : WorkerStatuses, run : Runs \cup {NoRun}]]
  BY DEF Inv, TypeOK, StoreTypeOK, WorkerTypeOK
<1> DEFINE True(p, h, row) ==
      /\ p \in {"prepare", "docker"} \cup AfterRun => row = [status |-> "busy", run |-> h]
      /\ p \in {"idle", "popped", "gotRun", "picked"} => row = [status |-> "idle", run |-> NoRun]
<1>1. \A v \in Workers : True(pc[v], hand[v], workerRow[v])
  BY DEF WorkerRowTruthful
<1>2. \A v \in Workers \ {w} : pc'[v] = pc[v] /\ hand'[v] = hand[v] /\ workerRow'[v] = workerRow[v]
  BY <1>t DEF WorkerStep, WorkerFault, WorkerStart, PopJob, PickupReadRun, PickupReadJob,
     PickupCommit, Launch, LaunchFails, RunnerReturn, RunnerGivesUp, FinalReadJob, FinalReadRun,
     FinalCommit, MarkRunFailed, ExecuteRaises, WorkerStops, WorkerCrash, Goto, Drop, SetRow, storeVars
<1>3. True(pc'[w], hand'[w], workerRow'[w])
  <2>1. CASE WorkerStart(w) \/ PickupCommit(w) \/ FinalCommit(w) \/ MarkRunFailed(w)
    BY <1>t, <2>1 DEF WorkerStart, PickupCommit, FinalCommit, MarkRunFailed, Goto, Drop, SetRow, AfterRun
  <2>2. CASE PopJob(w) \/ PickupReadRun(w) \/ PickupReadJob(w)
    BY <1>t, <1>1, <2>2 DEF PopJob, PickupReadRun, PickupReadJob, Goto, Drop, storeVars, AfterRun
  <2>3. CASE \/ Launch(w) \/ LaunchFails(w) \/ RunnerReturn(w) \/ RunnerGivesUp(w)
             \/ FinalReadJob(w) \/ FinalReadRun(w)
    BY <1>t, <1>1, <2>3 DEF Launch, LaunchFails, RunnerReturn, RunnerGivesUp, FinalReadJob,
       FinalReadRun, Goto, storeVars, AfterRun
  <2>4. CASE WorkerFault(w)
    BY <1>t, <2>4 DEF WorkerFault, ExecuteRaises, WorkerStops, WorkerCrash, Goto, AfterRun
  <2> QED BY <2>1, <2>2, <2>3, <2>4 DEF WorkerStep
<1> HIDE DEF True
<1>4. \A v \in Workers : True(pc'[v], hand'[v], workerRow'[v])
  BY <1>1, <1>2, <1>3
<1> QED BY <1>4 DEF True, WorkerRowTruthful

(* While a worker lives, its row tells what it does, after any exception,  *)
(* cancellation or restart.                                                *)
THEOREM WorkerRowsAreTruthful == Spec => []WorkerRowTruthful
<1>1. Init => WorkerRowTruthful
  BY DEF Init, StoreInit, WorkerInit, WorkerRowTruthful, AfterRun
<1>2. Inv /\ WorkerRowTruthful /\ [Next]_vars => WorkerRowTruthful'
  <2> SUFFICES ASSUME Inv, WorkerRowTruthful, [Next]_vars PROVE WorkerRowTruthful'
    OBVIOUS
  <2>1. CASE \E w \in Workers : WorkerStep(w) \/ WorkerFault(w)
    BY <2>1, OwnRowKept
  <2>2. ASSUME ~\E w \in Workers : WorkerStep(w) \/ WorkerFault(w)
        PROVE  UNCHANGED <<pc, hand, workerRow>>
    BY <2>2, TickShape
       DEF Inv, Next, Moves, SchedulerStep, SchedulerNext, PushJob, PushFails, TickFails,
       WorkersStep, ContainerStarts, ContainerExit, ApiStep, ApiNext, ClientStep, SubmitJob, CancelReadJob,
       CancelReadRun, CancelFlush, CancelCommit, CancelAborts, StopContainer, AdminSetStatus,
       vars, storeVars, workerVars
  <2> QED BY <2>1, <2>2 DEF WorkerRowTruthful
<1> QED BY <1>1, <1>2, Invariance, PTL DEF Spec
=============================================================================
