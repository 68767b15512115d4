---------------------------- MODULE GpuScheduler ----------------------------
(***************************************************************************)
(* The system: scheduler, workers and API over one store.                  *)
(***************************************************************************)
EXTENDS Scheduler, WorkerService, JobsApi

(* A history variable, which no step depends on: the devices given back    *)
(* since the transaction in progress has looked for devices for a job.     *)
VARIABLE missed

vars == <<storeVars, schedulerVars, workerVars, apiVars, missed>>

Init ==
  /\ StoreInit /\ SchedulerInit /\ WorkerInit /\ ApiInit
  /\ missed = NoneFound

TypeOK ==
  /\ StoreTypeOK /\ SchedulerTypeOK /\ WorkerTypeOK /\ ApiTypeOK
  /\ missed \in [DOMAIN found -> SUBSET Gpus]

(* The jobs whose rows other transactions have locked for certain, and     *)
(* those whose rows they may have locked, when a tick begins: requests,    *)
(* workers, and administrators, whose PATCH may concern any job.           *)
Flushed == {request[c].job : c \in {d \in Clients : request[d].stage = "flushed"}}
MaybeLocked ==
  {request[c].job : c \in {d \in Clients : request[d] # Idle}} \cup
  {JobOf(hand[w]) : w \in {v \in Workers : hand[v] # NoRun}} \cup
  (IF AdminStatuses = {} /\ \A o, p \in Orders : o = p THEN {} ELSE Jobs)
Locked == {locked \in SUBSET (MaybeLocked \cap Queued) : Flushed \cap Queued \subseteq locked}

SchedulerStep ==
  /\ \E locked \in Locked : SchedulerNext(locked)
  /\ UNCHANGED <<workerVars, apiVars>>

WorkersStep ==
  /\ \/ \E w \in Workers : WorkerStep(w) \/ WorkerFault(w)
     \/ \E r \in Runs : ContainerStarts(r) \/ ContainerExit(r)
  /\ UNCHANGED <<schedulerVars, apiVars>>

ApiStep == ApiNext /\ UNCHANGED <<schedulerVars, workerVars>>

(* Who has an UPDATE or a SELECT FOR UPDATE behind it holds the row until  *)
(* it commits, and every other writer waits: a cancel request that has     *)
(* flushed holds its job and run; the transaction of the scheduler holds   *)
(* the jobs of its batch, and with them keeps everybody off their runs,    *)
(* since a transaction that ends a run also writes or refers to its job.   *)
RowKept(j) ==
  /\ jobStatus'[j] = jobStatus[j]
  /\ \A n \in 1..MaxAttempts :
       runStatus'[<<j, n>>] = runStatus[<<j, n>>] /\ held'[<<j, n>>] = held[<<j, n>>]
RequestLocks ==
  \A c \in Clients : request[c].stage = "flushed" /\ request'[c] = request[c] =>
    /\ jobStatus'[request[c].job] = jobStatus[request[c].job]
    /\ runStatus'[request[c].run] = runStatus[request[c].run]
    /\ held'[request[c].run] = held[request[c].run]
TickLocks ==
  batch # {} /\ batch' = batch =>
    /\ \A j \in batch : RowKept(j)
    /\ Flushed' \cap batch = {}
RowLocks == RequestLocks /\ TickLocks

NoteReleases ==
  missed' = [j \in DOMAIN found' |->
               IF j \notin DOMAIN found THEN {}
               ELSE missed[j] \cup {g \in Gpus : gpuOwner[g] # NoRun /\ gpuOwner'[g] = NoRun}]

Moves == SchedulerStep \/ WorkersStep \/ ApiStep
Next == Moves /\ RowLocks /\ NoteReleases

Spec == Init /\ [][Next]_vars

-----------------------------------------------------------------------------
(* Fairness.  The scheduler's loop never ends and catches what a tick      *)
(* raises; a worker waits only for its queue and its container; containers *)
(* are restarted by their restart policy.  Users, administrators and       *)
(* failures promise nothing.  A container ends, or is given up by the      *)
(* runner when the job has a time limit.                                   *)
Fairly(A) == A /\ RowLocks /\ NoteReleases
Fairness ==
  /\ WF_vars(Fairly(/\ \E locked \in Locked : ScheduleTick(locked)
                    /\ UNCHANGED <<workerVars, apiVars>>))
  /\ WF_vars(Fairly((\E r \in Runs : PushJob(r)) /\ UNCHANGED <<workerVars, apiVars>>))
  /\ \A w \in Workers :
       WF_vars(Fairly(WorkerStep(w) /\ UNCHANGED <<schedulerVars, apiVars>>))
  /\ \A r \in Runs :
       WF_vars(Fairly(/\ ContainerStarts(r) \/ ContainerExit(r)
                      /\ UNCHANGED <<schedulerVars, apiVars>>))

FairSpec == Spec /\ Fairness

-----------------------------------------------------------------------------
(* Invariants *)

Positions(q) == 1..Len(queue[q])
Queueing(r) == \E q \in Queues : \E i \in Positions(q) : queue[q][i] = r
InHand(r) == \E w \in Workers : hand[w] = r

(* The device rows and the open allocation rows tell the same story: a     *)
(* device is allocated to a run exactly when that run has an open          *)
(* allocation of it, and a run has open either all of its allocations or   *)
(* none.  Four code paths close allocations and one opens them.            *)
GpuLedger ==
  /\ \A g \in Gpus, r \in Runs : gpuOwner[g] = r <=> g \in held[r]
  /\ \A r \in Runs : held[r] \in {{}, granted[r]}

(* A run that is completed, failed or cancelled has given its devices      *)
(* back: the status and the release are one transaction on every path.     *)
TerminalRunsReleased ==
  \A r \in Runs : runStatus[r] \in Terminal => held[r] = {}

(* A run is on its way to one worker at most: it is in the scheduler's     *)
(* list, at one place of one queue, or in the hands of one worker.         *)
SingleDispatch ==
  /\ \A p, q \in Queues : \A i \in Positions(p), k \in Positions(q) :
       queue[p][i] = queue[q][k] => p = q /\ i = k
  /\ \A v, w \in Workers : hand[v] = hand[w] /\ hand[v] # NoRun => v = w
  /\ \A r \in Runs : /\ r \in pending => ~Queueing(r) /\ ~InHand(r)
                     /\ Queueing(r) => ~InHand(r)

(* A job is reported completed only when the container of its run ended    *)
(* with exit code zero, and a run likewise (no administrator's override).  *)
OutcomeIsReal ==
  /\ \A r \in Runs : runStatus[r] = "completed" => container[r] = "ok"
  /\ \A j \in Jobs : jobStatus[j] = "completed" =>
       latest[j] # NoRun /\ container[latest[j]] = "ok"

(* The last transaction finishes the job, its run and the allocations      *)
(* together: no run of a completed or failed job is still active.          *)
FinishedJobIsOver ==
  \A r \in Runs : jobStatus[JobOf(r)] \in {"completed", "failed"} =>
    runStatus[r] \in Terminal \cup {"absent"} /\ held[r] = {}

(* The row of a worker tells what the worker does: busy with the run in    *)
(* its hands from the pickup to the last transaction, idle otherwise.      *)
WorkerRowTruthful ==
  \A w \in Workers :
    /\ pc[w] \in {"prepare", "docker"} \cup AfterRun =>
         workerRow[w] = [status |-> "busy", run |-> hand[w]]
    /\ pc[w] \in {"idle", "popped", "gotRun", "picked"} =>
         workerRow[w] = [status |-> "idle", run |-> NoRun]

(* Runs of a job are numbered 1, 2, ... without a gap: counting the rows   *)
(* gives the next attempt_number, and the row with that number is new.     *)
AttemptsInOrder ==
  /\ \A j \in Jobs : \A n \in 2..MaxAttempts :
       runStatus[<<j, n>>] # "absent" => runStatus[<<j, n - 1>>] # "absent"
  /\ \A j \in Jobs : latest[j] # NoRun =>
       /\ JobOf(latest[j]) = j
       /\ \A n \in 1..MaxAttempts : runStatus[<<j, n>>] # "absent" <=> n <= latest[j][2]

(* A container runs only on devices that its run still owns, as long as no *)
(* removal misses its container: docker rm does not fail, and no runner    *)
(* gives up (time limit, exception) before docker has created what it is   *)
(* to remove.                                                              *)
ContainersOwnDevices ==
  \A r \in Runs : container[r] = "up" => \A g \in granted[r] : gpuOwner[g] = r

(* Two live containers never use the same device.                          *)
DevicesExclusive ==
  \A r, s \in Runs : r # s /\ container[r] = "up" /\ container[s] = "up" =>
    granted[r] \cap granted[s] = {}

(* A run that is scheduled or running is on its way to a worker or with    *)
(* one: the rows say so only while somebody is going to act on it.         *)
NothingStranded ==
  \A r \in Runs : runStatus[r] \in {"scheduled", "running"} =>
    r \in pending \/ Queueing(r) \/ InHand(r)

(* Once no request and no worker is concerned with it any more, a          *)
(* cancelled job keeps no device.                                          *)
CancelledHoldsNothing ==
  \A r \in Runs :
    /\ jobStatus[JobOf(r)] = "cancelled"
    /\ r \notin pending /\ ~Queueing(r) /\ ~InHand(r)
    /\ \A c \in Clients : request[c].job # JobOf(r)
    => held[r] = {}

(* A job that is completed, failed or cancelled stays so. *)
FinishedJobIsFinal ==
  [][\A j \in Jobs : jobStatus[j] \in Terminal => jobStatus'[j] = jobStatus[j]]_vars

(* Every job that is queued is worked off in the end. *)
JobsFinish ==
  \A j \in Jobs : jobStatus[j] = "queued" ~> jobStatus[j] \in {"completed", "failed"}

(* A run has at most one container, ever: no status, release or restart    *)
(* makes a worker execute it again.                                        *)
ExecutedOnce ==
  [][\A r \in Runs : container'[r] # container[r] =>
        \/ container[r] = "none" /\ container'[r] = "starting"
        \/ container[r] = "starting" /\ container'[r] \in {"up", "err"}
        \/ container[r] = "up" /\ container'[r] \in {"ok", "err"}]_vars

MissedBy(j) == IF j \in DOMAIN found THEN missed[j] ELSE {}

(* Priorities hold within a tick, except that devices are not kept back    *)
(* for a job that needs many: a job that stays queued is overtaken, but    *)
(* only by runs that get fewer devices than it needs, those not counted    *)
(* that came back after the tick had looked for devices for it.            *)
OvertakenByLess ==
  [][\A j \in batch, r \in Runs :
       /\ order[j] < order[JobOf(r)]
       /\ jobStatus'[j] = "queued"
       /\ runStatus[r] = "absent" /\ runStatus'[r] # "absent"
       => Cardinality(granted'[r] \ MissedBy(j)) < Need[j]]_vars

(* The allocation tables implement the pool. *)
Pool == INSTANCE GpuPool WITH
  Holders <- Runs, Size <- [r \in Runs |-> Need[JobOf(r)]], None <- NoRun,
  owner <- gpuOwner, served <- {r \in Runs : runStatus[r] # "absent"}
PoolSpec == Pool!Spec
=============================================================================
