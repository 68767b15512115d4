----------------------------- MODULE Scheduler ------------------------------
(***************************************************************************)
(* app/services/scheduler.py: one process whose loop alternates a          *)
(* scheduling transaction with the pushes of the runs it created.          *)
(*                                                                         *)
(* The transaction locks the queued jobs (SKIP LOCKED: it never waits) and *)
(* looks for devices job by job.  Each of these SELECTs sees what is       *)
(* committed when it runs, so other transactions may give devices back in  *)
(* between; what the transaction itself writes is seen when it commits.    *)
(* It is one step per job: the first also reads the jobs, the last also    *)
(* commits, since nobody could tell whether a release came in just before  *)
(* the first look or while the jobs were read, just after the last look or *)
(* after the commit.  Each push is a step of its own, after the commit.    *)
(***************************************************************************)
EXTENDS JobStore

VARIABLES
  pending,  \* dispatched_runs: runs committed and not pushed yet
  order,    \* the order of the jobs in queued_jobs of the last tick
  batch,    \* the jobs whose rows the transaction in progress has locked
  found     \* available_gpus of each job of the batch it has looked at

schedulerVars == <<pending, order, batch, found>>

NoneFound == [j \in {} |-> {}]

SchedulerInit ==
  /\ pending = {}
  /\ order \in Orders
  /\ batch = {} /\ found = NoneFound
SchedulerTypeOK ==
  /\ pending \in SUBSET Runs
  /\ order \in Orders
  /\ batch \in SUBSET Jobs
  /\ found \in UNION {[S -> SUBSET Gpus] : S \in SUBSET Jobs}

(* Mutant of Attempt: the rows are counted after the new one is inserted. *)
AttemptCountedAfterInsert(j) ==
  Cardinality({n \in 1..MaxAttempts : runStatus[<<j, n>>] # "absent"}) + 2
(* Mutant of Attempt: only runs that are over are counted. *)
AttemptCountsFinished(j) ==
  Cardinality({n \in 1..MaxAttempts : runStatus[<<j, n>>] \in Terminal}) + 1

(* COUNT(job_runs.id) of the job, plus one. *)
Attempt(j) ==
  Cardinality({n \in 1..MaxAttempts : runStatus[<<j, n>>] # "absent"}) + 1
NewRun(j) == <<j, Attempt(j)>>

(* The queued jobs that the tick sees; MaxAttempts bounds the model only. *)
Queued == {j \in Jobs : jobStatus[j] = "queued" /\ Attempt(j) <= MaxAttempts}

(* A job is served exactly when as many devices were found as it needs. *)
ServedBy(f) == {j \in DOMAIN f : Cardinality(f[j]) = Need[j]}

(* Mutant of LeftBy: the devices of the jobs served before are offered again. *)
LeftByReusesRows(f) == AvailableGpus

(* The devices that are available and not taken by a job served before. *)
LeftBy(f) == AvailableGpus \ UNION {f[j] : j \in ServedBy(f)}

(* SELECT ... LIMIT requested_gpu_count: any devices that are left, and    *)
(* fewer than the limit only if these are all.                             *)
Offers(j, f) ==
  {G \in SUBSET LeftBy(f) : \/ Cardinality(G) = Need[j]
                            \/ Cardinality(G) < Need[j] /\ G = LeftBy(f)}

(* Create the runs and allocations of the jobs that are served. *)
CreateRuns(assign) ==
  LET S == DOMAIN assign
      Created == {NewRun(j) : j \in S}
  IN /\ runStatus' = [r \in Runs |-> IF r \in Created THEN "scheduled" ELSE runStatus[r]]
     /\ granted' = [r \in Runs |-> IF r \in Created THEN assign[JobOf(r)] ELSE granted[r]]
     /\ held' = [r \in Runs |-> IF r \in Created THEN assign[JobOf(r)] ELSE held[r]]
     /\ gpuOwner' = [g \in Gpus |->
                       IF \E j \in S : g \in assign[j]
                       THEN NewRun(CHOOSE j \in S : g \in assign[j])
                       ELSE gpuOwner[g]]
     /\ jobStatus' = [j \in Jobs |-> IF j \in S THEN "scheduled" ELSE jobStatus[j]]
     /\ latest' = [j \in Jobs |-> IF j \in S THEN NewRun(j) ELSE latest[j]]
     /\ pending' = Created

(* Mutant of ComesFirst: ORDER BY ... DESC. *)
ComesLast(j, jobs, o) == j \in jobs /\ \A k \in jobs : o[k] <= o[j]

ComesFirst(j, jobs, o) == j \in jobs /\ \A k \in jobs : o[j] <= o[k]

(* What the transaction has found is all in one function f: it goes on     *)
(* with the next of its jobs, or commits.                                  *)
GoOn(jobs, f) ==
  /\ DOMAIN f # jobs
  /\ batch' = jobs /\ found' = f
  /\ UNCHANGED <<pending, jobTables>>
CommitTick(jobs, f) ==
  /\ DOMAIN f = jobs
  /\ CreateRuns([j \in ServedBy(f) |-> f[j]])
  /\ batch' = {} /\ found' = NoneFound

(* Look for devices for job j, the next of `jobs` in order o. *)
LookFor(j, jobs, o) ==
  /\ ComesFirst(j, jobs \ DOMAIN found, o)
  /\ order' = o
  /\ \E G \in Offers(j, found) :
       LET f == [k \in DOMAIN found \cup {j} |-> IF k = j THEN G ELSE found[k]]
       IN GoOn(jobs, f) \/ CommitTick(jobs, f)
  /\ UNCHANGED <<workerRow, queue, container>>

(* One step of a scheduling transaction over the queued jobs whose rows    *)
(* are not locked by another one when it begins.  Administrators may have  *)
(* changed priorities since the last one.                                  *)
ScheduleTick(locked) ==
  /\ pending = {}
  /\ \/ batch = {} /\ \E o \in Orders, j \in Jobs : LookFor(j, Queued \ locked, o)
     \/ batch # {} /\ \E j \in Jobs : LookFor(j, batch, order)

(* The transaction is aborted, or the process dies in it. *)
TickFails ==
  /\ "push" \in Faults
  /\ batch # {}
  /\ batch' = {} /\ found' = NoneFound
  /\ UNCHANGED <<pending, order, storeVars>>

(* Mutant of PushJob: the run stays in the list and is pushed again. *)
PushJobTwice(r) ==
  LET q == QueueOf[JobOf(r)] IN
  /\ r \in pending
  /\ Len(queue[q]) < 2
  /\ RPush(q, r)
  /\ UNCHANGED <<schedulerVars, jobTables, workerRow, container>>

(* Mutant of PushJob: the loop is left after the first push. *)
PushJobStopsAfterFirst(r) ==
  LET q == QueueOf[JobOf(r)] IN
  /\ r \in pending
  /\ ComesFirst(JobOf(r), {JobOf(s) : s \in pending}, order)
  /\ pending' = {}
  /\ RPush(q, r)
  /\ UNCHANGED <<order, batch, found, jobTables, workerRow, container>>

(* The runs are pushed in the order in which the tick created them. *)
PushJob(r) ==
  LET q == QueueOf[JobOf(r)] IN
  /\ r \in pending
  /\ ComesFirst(JobOf(r), {JobOf(s) : s \in pending}, order)
  /\ pending' = pending \ {r}
  /\ RPush(q, r)
  /\ UNCHANGED <<order, batch, found, jobTables, workerRow, container>>

(* A push raises, or the process dies: the rest of dispatched_runs is gone *)
(* and the loop goes on (after a restart) with the next tick.              *)
PushFails ==
  /\ "push" \in Faults
  /\ pending # {}
  /\ pending' = {}
  /\ UNCHANGED <<order, batch, found, storeVars>>

SchedulerNext(locked) ==
  \/ ScheduleTick(locked) \/ TickFails
  \/ \E r \in Runs : PushJob(r)
  \/ PushFails
=============================================================================
