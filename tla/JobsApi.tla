------------------------------ MODULE JobsApi -------------------------------
(***************************************************************************)
(* The handlers of app/api/jobs.py and app/api/admin.py that change the    *)
(* state of a job: submission, cancellation and the administrator's        *)
(* override.  A cancel request loads the job, then (a statement of its     *)
(* own) the job's runs, decides on what it loaded, and writes.             *)
(***************************************************************************)
EXTENDS JobStore

VARIABLES
  request,  \* the cancel request each client has in flight
  stops     \* runs whose container a background task is still to stop

apiVars == <<request, stops>>

Idle == [stage |-> "idle", job |-> "none", sawJob |-> "absent",
         run |-> NoRun, sawRun |-> "absent"]
RequestStates ==
  {Idle} \cup
  [stage : {"gotJob", "gotRun", "flushed"}, job : Jobs, sawJob : {"queued", "scheduled", "running"},
   run : Runs \cup {NoRun}, sawRun : RunStatuses \cup {"absent"}]

ApiInit ==
  /\ request = [c \in Clients |-> Idle]
  /\ stops = {}
ApiTypeOK ==
  /\ request \in [Clients -> RequestStates]
  /\ stops \in SUBSET Runs

-----------------------------------------------------------------------------
(* POST /jobs/python-file and /jobs/github: job, input, commands and events *)
(* are inserted by one transaction.                                        *)
SubmitJob(j) ==
  /\ jobStatus[j] = "absent"
  /\ jobStatus' = [jobStatus EXCEPT ![j] = "queued"]
  /\ UNCHANGED <<latest, runStatus, granted, held, gpuOwner, workerRow, queue,
                 container, apiVars>>

(* POST /jobs/{id}/cancel loads the job; in any other status it answers 409. *)
CancelReadJob(c, j) ==
  /\ request[c] = Idle
  /\ jobStatus[j] \in {"queued", "scheduled", "running"}
  /\ request' = [request EXCEPT ![c] =
                   [stage |-> "gotJob", job |-> j, sawJob |-> jobStatus[j],
                    run |-> latest[j], sawRun |-> "absent"]]
  /\ UNCHANGED <<storeVars, stops>>

(* ... and the runs of the job, by the SELECT that follows. *)
CancelReadRun(c) ==
  LET q == request[c] IN
  /\ q.stage = "gotJob"
  /\ request' = [request EXCEPT ![c] =
                   [stage |-> "gotRun", job |-> q.job, sawJob |-> q.sawJob, run |-> q.run,
                    sawRun |-> IF q.run = NoRun THEN "absent" ELSE runStatus[q.run]]]
  /\ UNCHANGED <<storeVars, stops>>

(* Mutant of CancelRunAndReleaseGpus: the run is closed, its GPUs are not. *)
CancelRunOnly(r, seen) ==
  /\ runStatus' = [runStatus EXCEPT ![r] = IF seen \in Terminal THEN @ ELSE "cancelled"]
  /\ UNCHANGED <<held, gpuOwner>>

(* _cancel_run_and_release_gpus: the status test is on the loaded row. *)
CancelRunAndReleaseGpus(r, seen) ==
  /\ runStatus' = [runStatus EXCEPT ![r] = IF seen \in Terminal THEN @ ELSE "cancelled"]
  /\ ReleaseGpus(r)

StopsContainer(q) == q.sawJob = "running" /\ q.run # NoRun

(* A job that was running: the updates are flushed, and the background     *)
(* task that stops the container is created before the commit.             *)
CancelFlush(c) ==
  LET q == request[c] IN
  /\ q.stage = "gotRun"
  /\ StopsContainer(q)
  /\ stops' = stops \cup {q.run}
  /\ request' = [request EXCEPT ![c] =
                   [stage |-> "flushed", job |-> q.job, sawJob |-> q.sawJob, run |-> q.run,
                    sawRun |-> q.sawRun]]
  /\ UNCHANGED storeVars

(* What is written depends on the status that was loaded. *)
CancelCommit(c) ==
  LET q == request[c] IN
  /\ q.stage = IF StopsContainer(q) THEN "flushed" ELSE "gotRun"
  /\ jobStatus' = [jobStatus EXCEPT ![q.job] = "cancelled"]
  /\ IF q.sawJob = "queued" \/ q.run = NoRun
     THEN UNCHANGED <<runStatus, held, gpuOwner>>
     ELSE CancelRunAndReleaseGpus(q.run, q.sawRun)
  /\ request' = [request EXCEPT ![c] = Idle]
  /\ UNCHANGED <<latest, granted, workerRow, queue, container, stops>>

(* The transaction is aborted (or the connection lost): 500, nothing is    *)
(* written, but a background task that was created goes on.                *)
CancelAborts(c) ==
  /\ "raise" \in Faults
  /\ request[c] # Idle
  /\ request' = [request EXCEPT ![c] = Idle]
  /\ UNCHANGED <<storeVars, stops>>

(* _stop_container: docker stop, then docker rm -f, both best-effort.  A   *)
(* container that is not there yet is not affected.                        *)
StopContainer(r) ==
  /\ r \in stops
  /\ stops' = stops \ {r}
  /\ \/ container' = [container EXCEPT ![r] = IF @ = "up" THEN "err" ELSE @]
     \/ "miss" \in Faults /\ UNCHANGED container
  /\ UNCHANGED <<jobTables, workerRow, queue, request>>

(* PATCH /admin/jobs/{id} with a status: the column is set, nothing else.  *)
(* A priority in the request changes the order of the queued jobs, which   *)
(* nobody but the scheduler looks at: each tick finds any of the Orders.   *)
AdminSetStatus(j, s) ==
  /\ jobStatus[j] # "absent"
  /\ s \in AdminStatuses \ {jobStatus[j]}
  /\ jobStatus' = [jobStatus EXCEPT ![j] = s]
  /\ UNCHANGED <<latest, runStatus, granted, held, gpuOwner, workerRow, queue,
                 container, apiVars>>

ClientStep(c) ==
  \/ \E j \in Jobs : CancelReadJob(c, j)
  \/ CancelReadRun(c) \/ CancelFlush(c) \/ CancelCommit(c) \/ CancelAborts(c)
ApiNext ==
  \/ \E j \in Jobs : SubmitJob(j)
  \/ \E c \in Clients : ClientStep(c)
  \/ \E r \in Runs : StopContainer(r)
  \/ \E j \in Jobs, s \in AdminStatuses : AdminSetStatus(j, s)
=============================================================================
