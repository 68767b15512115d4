# A formal model of the GPU job scheduler

This directory specifies, model-checks and proves properties of the GPU job
scheduler of this repository: the API that takes jobs, the scheduler that gives
them devices, the workers that run them in Docker containers, and the tables and
queues that connect these. The specifications are written in TLA+, checked with
TLC on small instances and, for the results listed below, proved with TLAPS for
all values of the constants.

## 1. Inventory

| Component | Code | State it keeps | Operations |
|---|---|---|---|
| scheduler | `app/services/scheduler.py` | `dispatched_runs` of the current tick | `run_scheduler`, `_schedule_tick`, `_try_schedule_job`, `_create_run_and_dispatch` |
| worker | `app/services/worker.py` | its position in `_execute_run`, rows loaded by the current session | `_register_worker`, `_job_loop`, `_execute_run`, `_mark_run_failed`, heartbeat |
| container runner | `app/services/docker_runner.py` | client process, pipes, reader tasks, log files | `run`, `stop` (unused), `_force_remove`, `_build_command` |
| dispatch queue | `app/services/redis_queue.py` | one Redis list per queue name, heartbeat keys | `push_job`, `pop_job`, heartbeats, locks (unused) |
| storage | `app/services/storage.py`, `minio_client.py` | the run's directory, the objects of the bucket | `prepare_workspace`, snapshots, `upload_artifacts` |
| job tables | `app/models.py`, `database.py` | `jobs`, `job_runs`, `job_run_gpu_allocations`, `gpu_devices`, `workers`, `job_artifacts`, events | sessions, one transaction each |
| jobs API | `app/api/jobs.py` | none between requests | submit, cancel, listings, logs, downloads |
| admin API | `app/api/admin.py` | none between requests | users, job overrides, GPU and worker listings |
| accounts | `app/auth.py`, `app/api/auth.py` | `users`, `user_sessions` | register, login, logout, `get_current_user` |
| schemas | `app/schemas.py` | none | validation of requests |
| configuration, start | `config.py`, `main.py` | settings | application start |
| frontend, deployment, samples | `frontend/`, `docker*`, `scripts/` | none the system depends on | polling client; images; DDL |

The components are separate processes. They interact only through PostgreSQL
(rows written and read in transactions, most of them without row locks), through
Redis (the scheduler appends run ids, workers pop them) and through the Docker
daemon (workers create containers; workers, the runner and the API's background
tasks remove them). The API is one asyncio process that serves many requests
concurrently; a request interleaves with everything at each of its awaits.

What is hard in this system:

* **state that is stale when used.** Workers and cancel requests load the status
  of a job or run, decide, and write later in the same transaction; READ
  COMMITTED and the absence of row locks let others commit in between, and the
  session writes only columns whose new value differs from the *loaded* one;
* **effects outside the transaction.** Runs are pushed to Redis after the commit
  that created them; containers are started and stopped in no transaction at all;
* **failure in between.** Processes die, pushes fail, any statement may raise, the
  removal of a container is best-effort;
* **second attempts.** The administrator's override sets a job's status and nothing
  else, so that a job may get a second run while the first is alive;
* **deadlock and loss in the runner.** A program blocks on full pipes; output still
  in a pipe when the readers are cancelled would be lost;
* **row locks.** An UPDATE holds its row until the commit; a cancellation and the
  failure handler take job and run in opposite orders and may wait for each other;
* **liveness.** Whatever raises, a job has to end and its devices to come free.

What makes the components correct, in one line each: the scheduler gives a device
to one run at a time, a queued job exactly the number it asked for, and dispatches
each run once; a worker executes a run at most once, reports the outcome its
container had, and settles job, run, devices and its own row together on every
path; a cancellation frees the devices and is not overwritten, nor overwrites an
outcome; the runner returns when the program ends or the limit strikes, with all
output in the logs and no container left; the account handlers keep names unique
and revocations in force; storage records exactly the outputs of a run under
checksums that describe the stored objects, and never shows a shorter log than before.

`PROJECT.json` lists the hazards line by line with the properties that cover them.

## 2. Modules

```
JobStore  <--  Scheduler, WorkerService, JobsApi  <--  GpuScheduler  --implements-->  GpuPool
                                                         ^    |
                                                         |    MCGpuScheduler, GpuScheduler_proofs,
                                                         |    Dispatch_proofs, Outcome_proofs
                                                     implements
                                                         |
DockerRunner  <--  RunAttempt  <--  AttemptInSystem  ----+
     |                 |                 |
     |          RunAttempt_proofs   MCRunAttempt, AttemptInSystem_proofs
     +--implements-->  RunnerContract
MCDockerRunner, DockerRunner_proofs

JobInput  <--  JobFiles  <--  MCJobFiles, JobFiles_proofs
Accounts  <--  MCAccounts, Accounts_proofs
```

* **JobStore** is what outlives a process: the tables, the queues, the containers.
  A run is the pair of its job and its attempt number. `granted` holds all
  allocation rows of a run and `held` those with `released_at` NULL: the worker
  passes *all* allocation rows to the container (`worker.py:369-377`), whether
  released or not. `gpuOwner[g] = NoRun` stands for status `available`. `OrmSet`
  is the unit of work of the session: assigning the value that was loaded emits
  no UPDATE.
* **Scheduler** is the loop of `scheduler.py`. The transaction of a tick locks the
  queued jobs with SKIP LOCKED and therefore never waits; `locked` is any set of queued
  jobs whose rows a concurrent transaction may hold when it begins. Then it looks for
  devices job by job, one SELECT each (`scheduler.py:103`), and under READ COMMITTED each
  of them sees what others have committed by then. So a tick is one step per job
  (`LookFor`), and releases, cancellations and everything else may come in between:
  `batch` is the jobs it has locked, `found` what each look so far has returned. The
  devices of the jobs served before are not offered again (`LeftBy`): the transaction
  sees what it has flushed itself. Which devices a job gets is left open; a job that does
  not fit is passed over. Two merges are made and lose nothing: the SELECT of the jobs is
  one step with the first look, and the commit with the last, because a release between
  the two of each pair leaves the same state as one just before the first look, or just
  after the commit, and a job submitted after the SELECT is as good as one submitted
  after the look. `TickFails` is an abort, or the end of the process, in between.
  Jobs are served in the order `order`, which each tick takes from `Orders`: the several
  orders that an administrator's change of a priority (`admin.py:207`) may make. The
  pushes follow one by one; a push may fail, which drops the rest of the list.
* **WorkerService** is the process of `worker.py`, one program counter per worker.
  Each transaction of `_execute_run` is split at its reads: loading the run,
  loading the job, commit. `Launch` spawns the client of `docker run`, in no transaction:
  the container is `"starting"` until docker has created it or refused to
  (`ContainerStarts`), whatever has become of worker and client. A removal misses its
  container when docker fails it, or when it comes before there is one
  (`docker_runner.py:198`, a limit that strikes while an image is pulled): both are the
  kind `"miss"` of `Faults`. Without it the model says nothing of runs that are given up
  that early. `ExecuteRaises` is an exception at any other point and leads to `MarkRunFailed`;
  a worker may stop in order (its row goes `offline`) or be killed. A restarted
  worker registers again under its name. One branch of the pickup is left out: a job
  without a `job_inputs` row (`worker.py:215-220`) would be set failed by
  `_mark_run_failed_in_session` (`worker.py:664-698`), which releases no device. Nothing
  reaches it today, since a submission inserts job and input together and nothing deletes
  inputs; if it became reachable, `TerminalRunsReleased` would fail (the mutant
  `MarkRunFailedInSession` of the failure handler shows how).
* **JobsApi** has submission, cancellation (load the job, load its runs, flush,
  commit; the background task that stops the container is created before the
  commit) and the administrator's override of a status. A priority written by the same
  request is a change of the order that a tick finds.
* **GpuScheduler** composes the three over the store and states their properties.
  `RowLocks` is PostgreSQL's row lock: once a request has flushed its UPDATEs
  (`RequestLocks`), and while the tick holds the jobs of its batch (`TickLocks`), every
  other writer of those rows waits for the commit. `MaybeLocked` are the rows that a tick
  may find locked: those of a cancel request or a worker in its transaction, and any row
  where administrators write statuses or priorities. `missed` is a history variable that
  no step depends on: the devices given back since the tick has looked for devices for a
  job. `OvertakenByLess` needs it to say what the code keeps: a release that commits
  between two looks reaches only the jobs that come later, so a job of equal need *can*
  overtake one of higher priority, with such devices only.
* **GpuPool** is the abstract specification of the allocation tables: grant a batch
  of new holders exactly what they ask for out of the free devices; reclaim
  everything a holder has at once.
* **DockerRunner** is `DockerRunner.run` with its environment: client process,
  container, two bounded pipes, two reader tasks, the time limit with removal and
  kill, and the exception path. Output is counted in chunks; `Plans` are the outputs
  a program may produce.
* **RunnerContract** is what the worker relies on when it awaits the runner.
* **RunAttempt** is one run from the pop to the end of its handling, on top of the
  runner: the transactions of the worker and of the cancel requests, one SELECT or
  UPDATE at a time. `PickupStatements` ... `CancelStatements` list the statements in
  the order in which the session emits them: autoflush writes an assigned object
  before the next SELECT, and the unit of work writes `jobs` before `job_runs`. An
  UPDATE waits for the lock of its row (`UpdateRow`); of transactions that wait for
  each other, PostgreSQL aborts one (`DeadlockAborts`), which raises in the worker and
  answers 500 to the request. The inserts into the event table take only key-share
  locks on job and run, which an UPDATE of `status` does not contend with; the row of
  the worker is written last and contended only by the heartbeat: neither is modelled.
  The failure handler is called by `_execute_run` while it prepares (`"inner"`) and by
  the loop otherwise (`"outer"`); an exception out of the second ends the process, which
  sets the row of the worker offline (`"down"`, `worker.py:85-95`). Requests come in two
  kinds: those that load the job as `scheduled` or `running` (`Cancel`), and those that
  had loaded it as `queued` before the tick (`late`, `jobs.py:555-560`): they write the
  job alone, and the worker then leaves the run as it is. A late request has loaded and
  not yet flushed when the attempt begins: had it flushed, the tick would have passed the
  job over. The administrator's override is left out here; it is in `GpuScheduler`.
* **AttemptInSystem** maps `RunAttempt` to `GpuScheduler`, for one job with one device
  that one worker has popped (`CorePc`, `CoreRequest`, `CoreContainer` ...), and states
  that every step of the detailed model is one of the system. Crashes, restarts and
  several workers stay in the system's own modules.
* **JobInput** holds the pure algorithms of a submission as operators: which entry
  points and file names are accepted (`schemas.py`, `api/jobs.py`), the command the
  API stores (`_determine_command`, `_entrypoint_to_module`), the file looked for
  after the clone, and the steps the worker joins with `&&`. A path is a sequence of
  names, a name the sequence of its parts between dots, so that "slashes become
  dots" and "ends in .py" are what the code does to them and not string surgery. Empty
  names and `.` go when a path is normalised (`NormPath`) and by the file system;
  backslashes (`WithSlashes`) become slashes for the module name only, where they are
  part of a name for the file system. Commands are not quoted: a name with a space or
  another character that the shell interprets (`SpacedParts`, `ShellParts`), or one with a
  dash in front (`DashParts`), is not the argument that the user meant (`Word`,
  `Argument`). Requirements paths with `..` or an absolute start, which nothing
  validates, are not modelled. A repository request may have a subdirectory. It is
  promised (`DocsPage.tsx:86` says that "the scheduler sets the correct working directory
  before execution", `src/README.md:306`), validated (`schemas.py:130`), stored
  (`jobs.py:330`), handed over (`worker.py:316`) and then ignored (`storage.py:203-250`):
  the clone is searched, and the command executed, from the root. `Expressible` names the
  requests for which the code keeps its promise, and these are without a subdirectory.
* **JobFiles** is the life of one run's files: submission, workspace preparation with
  the link `./data`, the chain of commands in the container, and the collection of
  outputs, which hashes and uploads them one by one and lets the last transaction
  insert the rows. `SeenByHost` and `SeenInContainer` are the two views of the
  workspace: the worker sees a dangling link where the container finds the moved
  files. The workspace is mounted read-only (`docker_runner.py:353`), so the two
  snapshots agree and only `/outputs` matters. The contents in `Oversized` are those
  whose size does not fit the column of `job_artifacts`, so that the last transaction
  cannot record them. A log is the number of its chunks; `Shown` is what the log
  endpoint serves: the live file until the run names the copy. `ModuleFile` (what `python -m` runs)
  and the steps of the programs are external; a command that names no file because the
  shell understands something else may do anything (`Runs`).
* **Accounts** is registration, login, logout, the authentication of every other
  request and the administration of users. A request is one transaction, split where
  it has read something it later relies on: `register` at its two reads, `login`
  while it verifies the password, `get_current_user` between the read of the session
  and the flush of `last_seen_at`, `update_user` between load and commit, after the test that it is not the
  administrator's own role (`Refused`). The flush
  locks the session's row until the request ends; `Touch` is that wait. `Unique` is
  the pair of constraints of `migrate.sql`.
* Definitions named as the mutant of another (`PushJobTwice` ...) are plausible bugs
  against which the properties were tried; no specification uses them.

## 3. Runs

| Run | Instance | Shows |
|---|---|---|
| `races` | 2 jobs needing 1 and 2 of 2 devices, 2 workers, 1 cancel request; ticks abort, pushes are lost, workers crash, anything raises | a run is dispatched to one worker and executed at most once; a success is a container's success; device rows agree with allocation rows; terminal runs hold nothing; job and run finish together; worker rows are truthful |
| `admin` | 1 job with 2 attempts, put back to queued at any time, 1 cancel request; pushes lost, removals miss | attempts are numbered without a gap, dispatch stays single, the tables implement `GpuPool` |
| `calm` | 3 jobs needing 2, 1 and 1 of 2 devices, in two orders (the last job may get the highest priority), no cancels, crashes or missing removals, exceptions allowed, fair | containers run only on devices of their run; no run is forgotten; outcomes are final; a job is passed over only in favour of jobs that get less than it needs, devices not counted that came back after its turn; every queued job completes or fails; `GpuPool` again |
| `runner` | one run (`MCRunAttempt`) and one cancel request at a time, any number of them, the first one late or not; two streams, a program that writes more to one of them than the pipe of 1 chunk holds; row locks, all failures, fair | the logs are complete, the exit code is the container's, `run` returns and keeps its contract; transactions wait for each other only where the failure handler meets a cancellation; devices are released by one transaction at a time; a handled run leaves everything settled, unless a late request cancelled the job alone; the worker comes back; the whole is a part of `GpuScheduler` |
| `files` | twenty-three requests (uploaded file or repository, as file or module, with and without requirements, setup script and subdirectory, names with spaces, dots, dashes, `&`, `./`, `//` and backslashes), four repositories, four outputs in the four kinds of directory, two contents of which one is too large for its row, a log of one chunk, every failure | the command runs the file that the user named (if it can express it), after the requirements; rows are all or nothing and tell the checksum of the stored object; a log that a user reads never becomes shorter |
| `accounts` | three users, three sessions, two requests at a time | names and addresses are unique; revoked sessions stay revoked; requests of a session take turns; nobody's role or status changes unasked; the last administrator goes only by his own hand or by an update that outlives its author's rights |
| `stranded` | as `calm` with failing pushes | **violated**: a failed push strands a run and its devices |
| `shared` | as `races` without failures | **violated**: two containers on one device after a cancellation |
| `cancel_leak` | as `races` without failures | **violated**: a cancelled job whose run keeps its devices for ever |
| `final` | as `races` without failures | **violated**: a finished job changes its outcome |
| `left_behind` | one call of `run`, no failures | **violated**: a container that starts after the time limit removed it |
| `collision` | one run, two outputs with one name in two directories, no failures | **violated**: the second output overwrites the object that the row of the first describes |

The six violations are disagreements between code and documentation that showed
up while modelling; `PROJECT.json` quotes both sides under `findings`. The first
four need two processes and an interleaving: a push that fails after the commit; a
cancel between the pickup's commit and the launch, or before the container is
stopped; a cancel that loaded `queued` just before the tick committed; a cancel and
a last transaction that each decided on what they had loaded.

**Bounds.** Two devices and jobs that need one or two make every way of competing for
devices happen: a job that fits, one that has to wait, one passed over by smaller ones,
two of equal need in either order, and a device that comes back between two looks. Jobs
without devices take no look of their own in the code; the theorems cover them
(`Need` is any number). Two workers and one queue make double dispatch possible. One
cancel request at a time (`Clients`), but any number one after the other, races
with worker and scheduler; two attempts (`MaxAttempts`) run beside each other. The
failures differ per run (`Faults`) to keep each run within a few minutes; every kind
occurs in some run, and `raise` together with `crash` and `push` in `races`. In
`runner`, a stream with more chunks than a pipe holds beside a silent one is what it
takes to block the program and to lose the end of its output; two streams that both speak
are left to the theorem `LogsAreComplete`, and one plan leaves room for the late request.
One cancel request meets each of the worker's transactions, and a second one
would wait for the first before it has locked anything (the proofs are for any number). In `files`, each request takes another way through the conversions of
names, and each output is in another kind of directory; two contents, and the absence of
a file, are enough to tell a true checksum from a false one. In `accounts`, two requests are what a race
takes, the third user and session are what they race for; tokens run out
(`Tokens`), which ends the run but no race. Devices and workers are interchangeable and declared as symmetry sets
where the run has no liveness property.

**Deadlock** is checked in `races` and `admin` (where a worker can always be
restarted or the override be applied). It is switched off where the system may
rightly come to rest: when all jobs are done (`calm`, and the violation runs),
after the run is handled (`runner`), when a request is refused or recorded (`files`),
when no token is left (`accounts`).

**Fairness.** The scheduler's loop never ends and catches what a tick raises
(`scheduler.py:38-49`), so ticks and pushes are weakly fair. A worker waits only for its queue
(a pop that times out is repeated, `worker.py:156-177`) and for its container; its
steps are weakly fair, failures are not. Containers are assumed to end: by
themselves or by the time limit. In the runner, the event loop runs every task
that can go on and the timer; the Docker client creates a container and ends after
it; a program that is not blocked on a pipe goes on, but nothing ends an endless
program, so `RunEnds` and `AttemptEnds` are claimed only for programs that end or have
a limit. In `RunAttempt` even less is assumed of them: that some
step of the container side, and some reader, goes on while one can. A request that has
begun goes on (weak fairness); the statements of the worker
are strongly fair, since PostgreSQL grants a row lock in the order of the requests: a
stream of cancellations cannot keep the worker from a row for ever.
Users, administrators and all failures promise nothing.

## 4. Proofs

`GpuScheduler_proofs` proves, for all sets of jobs, devices, workers, queues and
clients, any `MaxAttempts`, any override and any combination of failures, from the
named assumptions in `JobStore`:

* `TypeCorrect`: `Spec => []TypeOK`, by one lemma per component, together with
  `BatchQueued` (the jobs that a tick has locked stay queued until it ends);
* `Invariance`: `Spec => []Inv`. The ledger of the devices alone is not inductive.
  The tick has to find the rows it creates unused (`AbsentUnused`), which holds
  because an attempt number is the count of the job's rows plus one and the rows
  are numbered without a gap (`Numbered`); and whoever writes a run's status must
  have in its hands a run that exists (`RunsExist`), or a status could bring a row
  into being. The proof goes by the shape of the steps: a step leaves the
  allocation tables alone, closes all open allocations of one run, or opens
  allocations for new runs (`ShapeOfSteps`); one lemma for each of the three shows
  that it keeps the tables;
* `LedgerCorrect` (`GpuLedger`) and `TerminalReleased` (`TerminalRunsReleased`) follow;
* `PoolRefined`: `Spec => PoolSpec`. A closing step is a `Reclaim` or, if nothing was
  held, a stutter; an opening step is a `Grant`, since the jobs served in one tick
  have pairwise disjoint devices (`ServedApart`).

`DockerRunner_proofs` proves, for all streams, outputs, pipe sizes and failures:

* `RunnerInvariance`: chunks are conserved (written = in the pipe + in the file,
  while the client lives), the combined log never misses a chunk without an error,
  and a reader is done only at the end of its stream or after a timeout or error;
* `RunnerTypeCorrect`, `LogsAreComplete` (`LogsComplete`), `ContractKept` (`ContractSpec`);
* `ExitCodesAreTruthful` (`ExitCodeTruthful`): without a timeout or exception the last
  step reports how the container ended, since the client is then no other than ended;
* `OnlyLimitsLeave`: `NothingLeftBehind` can fail only after a time limit, or after an
  exception while the logs are written (`"disk" \in Faults`). This is the other half of
  the run `left_behind`: whoever waits for the end of the client needs no removal;
* `NeverAllWait`: until `run()` has returned, one of `run()`, the readers, the client
  and the program can go on, however little the pipes hold. `CanGoOn` writes out what
  each of them waits for, because ENABLED is out of reach; this is the safety half of
  `RunEnds`.

`Dispatch_proofs` builds on the invariant of `GpuScheduler_proofs` and proves, again for
all constants: `DispatchedToOne` (`SingleDispatch`), `RunsAreExecutedOnce`
(`ExecutedOnce`), `AttemptsAreInOrder` (`AttemptsInOrder`), `WorkerRowsAreTruthful`
(`WorkerRowTruthful`) and `PrioritiesHold` (`OvertakenByLess`). A run has one position
(the scheduler's list, a place of a queue, a worker's hand), and what the tick creates
has none yet; its container is there only from its launch, which leaves the position.
`PrioritiesHold` goes by an invariant of the tick in progress (`Fair`): a job that was
passed over has found fewer devices than it needs, these were all that were left, and
what a later job finds was left then or has come back since (`missed`).

`Outcome_proofs` proves what is false in general, as the violation runs show. Each theorem
is about one job `j` or one run `r`, for all constants, under the condition that certain
steps do not happen *to it* (`[][~...]_vars` beside `Spec`; the steps are named at the
head of the module). Nothing is assumed of other jobs and runs, of the failures that are
not named, or of administrators elsewhere:

| Theorem | Holds of a job or run unless ... | Run that shows the opposite |
| --- | --- | --- |
| `RunOutcomesAreReal`: a completed run ended with code zero | (always) | |
| `RealUnlessOverridden`: so did the last run of a completed job | an administrator writes `queued` or `completed` | |
| `OverUnlessOverridden`: a completed or failed job has no active run and no device | ... or `failed` | |
| `OwnsUnlessCancelled`, `ApartUnlessCancelled`: its container uses only its devices, and shares none with another such run | the run is cancelled, or a removal misses its container | `shared`, `left_behind` |
| `RunMovesOnUnlessCancelled`: scheduled, running, over, and never back | the run is cancelled | |
| `JobMovesOnUnlessDisturbed`: so does a job, from queued to its end | the job is cancelled or overridden | `final` |
| `GoesOnUnlessLost`: while active it is listed, queued or in hand | its job is cancelled, its push is lost or its worker goes | `stranded` |
| `FreeUnlessCancelledLate`: once cancelled it holds no device | a request that read it as queued commits after the tick, or an administrator writes `queued` or `cancelled` | `cancel_leak` |

That everything is well when such steps happen to nobody follows from the same lemmas:
`OutcomesAreReal` (`OutcomeIsReal`), `FinishedJobsAreOver` (`FinishedJobIsOver`),
`ContainersOwnTheirDevices` (`ContainersOwnDevices`), `DevicesAreExclusive`,
`FinishedJobsAreFinal` (`FinishedJobIsFinal`) and `NothingIsStranded` (`NothingStranded`)
state the properties of the runs `races`, `calm` and `shared`, under conditions on the constants
(no clients, no missing removals, or statuses that administrators do not write) that imply
the steps away. That no removal misses is a condition on more than docker: it also says
that no time limit and no exception makes the runner give up before the container is
there. `left_behind` shows that the code cannot promise this, and what follows then.

Their invariants build on one that always holds (`Common`): a zero that a worker holds
is that of the container of its run (`ZeroIsReal`), what the last transaction saw
finished is finished (`SeenIsOver`), and a request cancels a run of the job it cancels
(`RequestsMatch`). To this each theorem adds what it needs of its job or run. A job that
is not put back has one run (`OneRun`); nobody comes back to a run that is over
(`FinishedIsGone`, `EndedIsGone`: it is in no list, queue or hand); a run on its way, or
whose container is up, holds exactly what it was granted (`OnWayHolds`, `UpHolds`), which
needs that whoever has such a run in hand is awaiting its container (`UpIsAwaited`): only
a transaction of its worker could close its allocations, and after a crash nobody does;
and a request that saw the job scheduled or running has its one run (`Informed`).

`RunAttempt_proofs` proves, for any number of requests, streams and failures:

* `AttemptRefinesRunner`: the composition is a behaviour of the runner, hence
  `AttemptLogsAreComplete`, `AttemptExitCodesAreTruthful`, `AttemptKeepsContract` and
  all other theorems about the runner hold in it;
* `AttemptTypeCorrect`, `ReleasesAlternate` (`ReleasesTakeTurns`), `DeadlocksAreTheHandlers`
  (`OnlyHandlerDeadlocks`), `HandledRunsAreOver` (`HandledMeansOver`). The invariant says
  who holds which lock at which statement: whoever has selected the open allocations
  has flushed job and run before and holds the lock of each that it writes; who has
  nothing to write has seen the run over, and then the allocations are closed.
  `HandledRunsAreOver` excepts the one case in which the code leaks, a late request that
  cancels the job alone (the run `cancel_leak` shows the whole story);
* `DeadlocksAreOfTwo`: of three actors that wait one for the next, the third waits for
  the second again. So no circle of waits is longer than two, and the pairs of `Deadlock`
  are all the deadlocks there are, for any number of requests.

`AttemptInSystem_proofs` proves `AttemptsAreOfSystem` (`AttemptIsOfSystem`), from
`RequestsAssumption` and `NoOneAssumption` only. Each step of the attempt is shown to
be a named action of the system with the values the mapping gives it, or to leave them
alone. What has to be known (`SystemInv`): a cancel request is under way only with a
job it saw scheduled or running (`Informed`), the runner starts only after the pickup
(`Started`), and its report is read only when there is one (`Unfinished`); and
`CommitKeepsRows`: a request that has flushed holds the locks, so that no other commit
changes a row before its own. What the system's model knows of locks (`RequestLocks`) is
that, and it is all that it has to know of them for workers and requests; `TickLocks` is
about the tick, which is over when the attempt begins.

`JobFiles_proofs` proves, for all requests, repositories, outputs and contents:

* `FilesInvariance` by an invariant that follows the collection: nothing is
  collected before the runner returns; from then on, unless the container survived,
  nobody writes (`Quiet`), every entry of the list names an existing output with its
  true checksum, and the list is complete when the walk ends. `RowsAreOutputs`
  (`OutputsRecorded`) follows for every NAS root, below which no output is recorded at all
  if its path has a component `data` or `.pip-user`; and, when no two outputs have the same name
  (`NamesDistinct`), `ChecksumsTrue` (`RowsTellContents`): the run `collision` shows
  that this condition cannot be dropped;
* `FilesTypeCorrect` and `RequirementsComeFirst` (`RequirementsFirst`): the steps
  form a chain whose last command is the main one, and an installation can only be
  its head (`StepsAreChain`, `TailIsChain`);
* `ModuleNamesEntrypoint`: the module name that the API computes from the path of a
  Python file is turned by `python -m` into that very path, for paths of any depth; from
  it `EntrypointIsFound` (`EntrypointFound`), for the requests that are `Expressible`. The argument is by induction over the
  length of the path, put as the induction over sets of naturals that the prover can
  use. `RequestsAssumption` says that the paths that users name are paths (`Paths`);
* `LogsOnlyGrow` (`LogsNeverShrink`): the run names the copy only when the copy is whole.

`Accounts_proofs` proves, for any numbers of users, sessions and requests:

* `AccountsInvariance`: every user has had a session since his registration, hence no
  deletion ever succeeds and every row a request is going to write is still there
  (`Present`); this is what makes `TypeOK` inductive (`AccountsTypeCorrect`);
* `RevocationsHold` (`OverStaysOver`), `NothingUndone` (`OnlyWhatWasAskedFor`),
  `TurnsTaken` (`SessionTakesTurns`), `NamesUnique` (`UsersUnique`), `LastAdminLeaves`
  (`AdminsLastOut`).

Every invariant and action property of a passing run is stated by a theorem, under the
condition named there if it has one. Only model-checked are the liveness properties
`JobsFinish`, `RunEnds` and `AttemptEnds`: fairness and ENABLED are out of reach of the
prover. Their safety halves are proved: `GoesOnUnlessLost` for the jobs, `NeverAllWait` for
the runner, and for the attempt `DeadlocksAreOfTwo` with `HandledRunsAreOver`. To each
violation run there is a theorem that names what it takes: those in the table, `OnlyLimitsLeave`
for `left_behind`, and `ChecksumsTrue` for `collision`.

## 5. What is not modelled

The event rows and the heartbeat (written, never read by the code), the
distributed locks of `redis_queue.py` and `DockerRunner.stop` (never called),
listings and downloads of artifacts (reads), the `docker run` command line except its
mounts, passwords and token hashing, the creation of the bucket, the frontend and the
deployment. `migrate.py` and `migrate.sql` are idempotent DDL, run once and statement
by statement before the system starts; the constraints they declare are used in
`Accounts`. The count of failed logins is left out because the exception that
follows it rolls it back (`api/auth.py:126-131`, `database.py:45-47`). The clock is
left out: a time limit or an expiry may strike at any moment. A failure while
`./data` is being moved is logged and ignored by the code (`storage.py:163`); the
model lets the move succeed. MinIO, Git, Docker, bash, `python -m`, the SQLAlchemy
session and PostgreSQL's row locks are modelled from their use. Connections are not
counted: that a pool of five may run out (`database.py:21`) is listed as a hazard
without a property. `collect_artifacts` skips a file when any component of its path is
`data` or `.pip-user`, those of the NAS root included: `OutputsRecorded` says what follows,
for the workstation setting `/data/gpu_scheduler/nas` of `src/.env.example:21` (no output
is ever recorded) as for a directory of that name deep in the outputs (skipped like the
documented `./data`). In `Accounts`, `SessionTakesTurns` holds until a request commits:
`admin.py:114` and `admin.py:220` do so within the handler, before they load the answer.

## 6. Plan

The modules were written in the order of section 2: the ledger of devices and the
dispatch of runs first, then the runner the worker relies on, files and accounts, then
the theorems about dispatch and outcomes, and the attempt with its row locks. What is
left, in order of importance:

1. several runs in one bucket and one NAS root: that files and objects of different
   runs stay apart, on top of `JobFiles`;
2. the rest of the command line of `docker run` (environment names, device list) as
   operators in the manner of `JobInput`;
3. how long a large job may wait behind small ones (that it can wait for ever follows
   from the order of the tick; `OvertakenByLess` bounds who may overtake it), and
   queues that no worker listens to;
4. the pool of connections as a resource of the API's requests.
