------------------------------ MODULE JobStore ------------------------------
(***************************************************************************)
(* What outlives a process of the GPU job scheduler: the PostgreSQL tables *)
(* jobs, job_runs, job_run_gpu_allocations, gpu_devices and workers, the   *)
(* Redis ready queues, and the containers of the Docker daemon.  Every     *)
(* component reads and writes this state; none of them shares memory.      *)
(***************************************************************************)
EXTENDS Integers, FiniteSets, Sequences

CONSTANTS
  Jobs,         \* the jobs that users may submit
  Gpus,         \* the rows of gpu_devices
  Workers,      \* the worker processes (distinct worker_name settings)
  Clients,      \* the cancel requests that can be in flight at once
  Queues,       \* queue names
  Need,         \* requested_gpu_count of each job
  Orders,       \* the orders of the jobs (ORDER BY priority, submitted_at) that a tick may find
  QueueOf,      \* queue_name of each job
  ListensOn,    \* worker_queue setting of each worker
  MaxAttempts,  \* bound on the runs of one job
  AdminStatuses,\* statuses that administrators set by hand
  Faults,       \* the failures of the environment that may happen
  NoRun         \* SQL NULL in a column that refers to a run

(* What may fail: the scheduler (a tick or a push), a worker process, a    *)
(* statement of the worker or of a request; and a removal may miss its     *)
(* container, because docker fails it or because it comes too early, when  *)
(* the container is not there yet.                                         *)
FaultKinds == {"push", "crash", "raise", "miss"}

JobStatuses == {"queued", "scheduled", "running", "completed", "failed", "cancelled"}
RunStatuses == {"scheduled", "running", "completed", "failed", "cancelled"}
Terminal == {"completed", "failed", "cancelled"}

(* A run is named by its job and its attempt_number. *)
Runs == Jobs \X (1..MaxAttempts)
JobOf(r) == r[1]

ASSUME FiniteAssumption ==
  /\ IsFiniteSet(Jobs) /\ IsFiniteSet(Gpus)
  /\ MaxAttempts \in Nat \ {0}
ASSUME JobAssumption ==
  /\ Need \in [Jobs -> Nat]
  /\ Orders \subseteq [Jobs -> Nat] /\ Orders # {}
  /\ \A o \in Orders : \A j, k \in Jobs : o[j] = o[k] => j = k
ASSUME QueueAssumption ==
  /\ QueueOf \in [Jobs -> Queues]
  /\ ListensOn \in [Workers -> Queues]
ASSUME EnvironmentAssumption ==
  /\ AdminStatuses \subseteq JobStatuses
  /\ Faults \subseteq FaultKinds
  /\ NoRun \notin Runs

VARIABLES
  jobStatus,  \* jobs.status, "absent" before the submission
  latest,     \* jobs.latest_run_id
  runStatus,  \* job_runs.status, "absent" before the row exists
  granted,    \* the GPUs of all allocation rows of a run
  held,       \* the GPUs of its rows with released_at NULL
  gpuOwner,   \* gpu_devices.current_job_run_id; NoRun <=> status "available"
  workerRow,  \* workers.status and workers.current_job_run_id
  queue,      \* the Redis list queue:ready:<name>
  container   \* the container gpu-job-<run> of the Docker daemon

jobTables == <<jobStatus, latest, runStatus, granted, held, gpuOwner>>
storeVars == <<jobTables, workerRow, queue, container>>

WorkerStatuses == {"unregistered", "idle", "busy", "offline"}
(* "starting" from the spawn of the `docker run` client until the container *)
(* is there, or will not be.                                               *)
ContainerStates == {"none", "starting", "up", "ok", "err"}

StoreTypeOK ==
  /\ jobStatus \in [Jobs -> JobStatuses \cup {"absent"}]
  /\ latest \in [Jobs -> Runs \cup {NoRun}]
  /\ runStatus \in [Runs -> RunStatuses \cup {"absent"}]
  /\ granted \in [Runs -> SUBSET Gpus]
  /\ held \in [Runs -> SUBSET Gpus]
  /\ gpuOwner \in [Gpus -> Runs \cup {NoRun}]
  /\ workerRow \in [Workers -> [status : WorkerStatuses, run : Runs \cup {NoRun}]]
  /\ queue \in [Queues -> Seq(Runs)]
  /\ container \in [Runs -> ContainerStates]

StoreInit ==
  /\ jobStatus = [j \in Jobs |-> "absent"]
  /\ latest = [j \in Jobs |-> NoRun]
  /\ runStatus = [r \in Runs |-> "absent"]
  /\ granted = [r \in Runs |-> {}]
  /\ held = [r \in Runs |-> {}]
  /\ gpuOwner = [g \in Gpus |-> NoRun]
  /\ workerRow = [w \in Workers |-> [status |-> "unregistered", run |-> NoRun]]
  /\ queue = [q \in Queues |-> <<>>]
  /\ container = [r \in Runs |-> "none"]

-----------------------------------------------------------------------------
(* The session emits an UPDATE of a column only when the value assigned    *)
(* differs from the value it loaded, whatever the row holds by then.       *)
OrmSet(current, loaded, new) == IF new = loaded THEN current ELSE new

(* SELECT ... WHERE status = 'available' *)
AvailableGpus == {g \in Gpus : gpuOwner[g] = NoRun}

(* RPUSH and BLPOP on the Redis list of a queue. *)
RPush(q, r) == queue' = [queue EXCEPT ![q] = Append(@, r)]
BLPop(q) == queue[q] # <<>> /\ queue' = [queue EXCEPT ![q] = Tail(@)]

(* Mutant of ReleaseGpus: the rows are closed, the devices stay allocated. *)
ReleaseGpusForgetsDevice(r) ==
  /\ held' = [held EXCEPT ![r] = {}]
  /\ UNCHANGED gpuOwner

(* Close the run's open allocation rows and make their devices available.  *)
(* The loop is the same in the API, in the worker's last transaction and   *)
(* in its failure handler.                                                 *)
ReleaseGpus(r) ==
  /\ held' = [held EXCEPT ![r] = {}]
  /\ gpuOwner' = [g \in Gpus |-> IF g \in held[r] THEN NoRun ELSE gpuOwner[g]]
=============================================================================
