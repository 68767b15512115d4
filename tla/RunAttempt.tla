----------------------------- MODULE RunAttempt -----------------------------
(***************************************************************************)
(* One run from the pop to the end of its handling: the transactions of    *)
(* app/services/worker.py, statement by statement with their row locks,    *)
(* around the call of DockerRunner.run, while the owner of the job sends   *)
(* cancel requests (app/api/jobs.py).  An UPDATE locks its row until the   *)
(* end of the transaction and waits while another one holds it; when       *)
(* transactions wait for each other, PostgreSQL aborts one of them.  The   *)
(* administrator's override of a status (app/api/admin.py) stays out.      *)
(***************************************************************************)
EXTENDS DockerRunner, Sequences

CONSTANTS
  Requests,  \* the cancel requests that can be in flight at once
  NoOne      \* a row that is not locked

Actors == {"worker"} \cup Requests

ASSUME RequestsAssumption == "worker" \notin Requests /\ NoOne \notin Actors

VARIABLES
  row,   \* what is committed: jobs.status, job_runs.status and the allocations
  late,  \* the requests that loaded the job as queued, before the tick (fixed)
  at,    \* where the worker is; whether a request is in its transaction
  step,  \* the statement that the transaction of an actor comes to next
  saw,   \* the rows as that transaction has loaded them
  lock,  \* who has locked each row
  busy,  \* the row of the worker says busy, and names the run
  stops  \* a background task is still to stop the container

tables == <<row, busy, late>>
attemptVars == <<tables, at, step, saw, lock, stops>>
allVars == <<vars, attemptVars>>

(* The row of the worker comes last and waits for nobody: it needs no lock. *)
Rows == {"job", "run", "devices"}
Terminal == {"completed", "failed", "cancelled"}
Statuses == {"scheduled", "running"} \cup Terminal

(* The places of worker and requests: in one of the transactions, where    *)
(* "inner" is the handler called by _execute_run and "outer" the one       *)
(* called by _job_loop, or outside of them.  "down" is a process that has  *)
(* ended, with the row of the worker set offline.                          *)
Handling == {"inner", "outer"}
InTransaction == {"pickup", "final", "cancel", "late"} \cup Handling
Places == InTransaction \cup {"prepare", "run", "collect", "idle", "down"}

Select(r) == <<"select", r>>
Update(r) == <<"update", r>>

(* The statements in the order in which the session emits them: an object  *)
(* that has been assigned to is flushed before the next SELECT, several    *)
(* objects in the order of their tables.                                   *)
PickupStatements == <<Select("run"), Select("job"), Update("job"), Update("run")>>
(* Mutant of FinalStatements: the run is flushed before the job. *)
FinalStatementsRunFirst ==
  <<Select("job"), Select("run"), Update("run"), Update("job"), Select("devices"),
    Update("devices")>>
FinalStatements ==
  <<Select("job"), Select("run"), Update("job"), Update("run"), Select("devices"),
    Update("devices")>>
(* Mutant of HandlerStatements: the allocations are loaded up front. *)
HandlerStatementsLoadFirst ==
  <<Select("run"), Select("devices"), Update("run"), Select("job"), Update("job"),
    Update("devices")>>
HandlerStatements ==
  <<Select("run"), Update("run"), Select("job"), Update("job"), Select("devices"),
    Update("devices")>>
CancelStatements ==
  <<Select("job"), Select("run"), Update("job"), Update("run"), Select("devices"),
    Update("devices")>>
(* A job loaded as queued has no run yet: the request writes the job only. *)
LateStatements == <<Select("job"), Update("job")>>

Statements(place) ==
  CASE place = "pickup" -> PickupStatements
    [] place = "final" -> FinalStatements
    [] place = "late" -> LateStatements
    [] place \in Handling -> HandlerStatements
    [] OTHER -> CancelStatements

Unread == [r \in Rows |-> "unread"]

AttemptTypeOK ==
  /\ TypeOK
  /\ row \in [Rows -> Statuses \cup {"open", "closed"}]
  /\ at \in [Actors -> Places]
  /\ step \in [Actors -> 1..7]
  /\ saw \in [Actors -> [Rows -> Statuses \cup {"queued", "open", "closed", "unread"}]]
  /\ lock \in [Rows -> Actors \cup {NoOne}]
  /\ busy \in BOOLEAN /\ stops \in BOOLEAN /\ late \subseteq Requests
  /\ \A a \in Actors : at[a] \notin InTransaction =>
       step[a] = 1 /\ saw[a] = Unread /\ \A r \in Rows : lock[r] # a

(* The tick has committed and the worker has popped the run.  A late       *)
(* request has loaded the job and not flushed it: the tick passes a job    *)
(* over whose row is locked.                                               *)
AttemptInit ==
  /\ Init
  /\ late \in SUBSET Requests
  /\ row = [r \in Rows |-> IF r = "devices" THEN "open" ELSE "scheduled"]
  /\ at = [a \in Actors |->
             IF a = "worker" THEN "pickup" ELSE IF a \in late THEN "late" ELSE "idle"]
  /\ step = [a \in Actors |-> IF a \in late THEN 2 ELSE 1]
  /\ saw = [a \in Actors |->
              IF a \in late THEN [Unread EXCEPT !["job"] = "queued"] ELSE Unread]
  /\ lock = [r \in Rows |-> NoOne]
  /\ busy = FALSE /\ stops = FALSE

-----------------------------------------------------------------------------
(* Transactions *)

Goto(a, place, n) ==
  /\ at' = [at EXCEPT ![a] = place]
  /\ step' = [step EXCEPT ![a] = n]

(* Mutant of End: the session, and what it has loaded, is used again. *)
EndKeepsObjects(a) ==
  /\ lock' = [r \in Rows |-> IF lock[r] = a THEN NoOne ELSE lock[r]]
  /\ UNCHANGED saw

(* Commit or rollback: the locks are given up and the objects are dropped. *)
End(a) ==
  /\ saw' = [saw EXCEPT ![a] = Unread]
  /\ lock' = [r \in Rows |-> IF lock[r] = a THEN NoOne ELSE lock[r]]

(* A transaction ends, and the actor goes elsewhere (or to another one). *)
EndAt(a, place) == Goto(a, place, 1) /\ End(a)

IsAt(a, statement) ==
  /\ at[a] \in InTransaction
  /\ step[a] <= Len(Statements(at[a]))
  /\ Statements(at[a])[step[a]] = statement

(* Mutant of Skipped: only the run is looked at. *)
SkippedByRun(a, r) == at[a] = "pickup" /\ r = "job" /\ saw[a]["run"] = "cancelled"
(* The pickup leaves a cancelled job or run alone as it stands. *)
Skipped(a, r) ==
  at[a] = "pickup" /\ r = "job" /\ "cancelled" \in {row["job"], saw[a]["run"]}

SelectRow(a, r) ==
  /\ IsAt(a, Select(r))
  /\ \/ Skipped(a, r) /\ EndAt(a, "idle")
     \/ /\ ~Skipped(a, r)
        /\ saw' = [saw EXCEPT ![a][r] = row[r]]
        /\ Goto(a, at[a], step[a] + 1)
        /\ UNCHANGED lock
  /\ UNCHANGED <<tables, stops>>

(* An object that was not assigned to is not flushed: a job that the last  *)
(* transaction saw cancelled, a run that a cancellation saw finished, and  *)
(* allocations when none was open.                                         *)
Flushed(a, r) ==
  CASE r = "job" -> at[a] # "final" \/ saw[a]["job"] # "cancelled"
    [] r = "run" -> at[a] # "cancel" \/ saw[a]["run"] \notin Terminal
    [] OTHER -> saw[a]["devices"] = "open"

(* A cancellation of a running job creates the task that stops the         *)
(* container when everything is flushed, before the commit.                *)
StopsContainer(a, r) == at[a] = "cancel" /\ r = "devices" /\ saw[a]["job"] = "running"

UpdateRow(a, r) ==
  /\ IsAt(a, Update(r))
  /\ \/ Flushed(a, r) /\ lock[r] = NoOne /\ lock' = [lock EXCEPT ![r] = a]
     \/ ~Flushed(a, r) /\ UNCHANGED lock
  /\ Goto(a, at[a], step[a] + 1)
  /\ stops' = (stops \/ StopsContainer(a, r))
  /\ UNCHANGED <<tables, saw>>

FinalStatus ==
  IF saw["worker"]["job"] = "cancelled" THEN "cancelled"
  ELSE IF report = "ok" THEN "completed" ELSE "failed"

(* The status that a transaction leaves job and run with, as it sees them. *)
Outcome(a, r) ==
  CASE at[a] = "pickup" -> "running"
    [] at[a] = "final" -> IF saw[a][r] = "cancelled" THEN "cancelled" ELSE FinalStatus
    [] at[a] \in Handling -> "failed"
    [] OTHER -> IF saw[a][r] \in Terminal THEN saw[a][r] ELSE "cancelled"

(* Only a column of a loaded object whose value differs from the one       *)
(* loaded is written.                                                      *)
Written(a) ==
  [r \in Rows |->
     IF r = "devices" THEN IF saw[a][r] = "open" THEN "closed" ELSE row[r]
     ELSE IF saw[a][r] \in {"unread", Outcome(a, r)} THEN row[r] ELSE Outcome(a, r)]

Commit(a) ==
  /\ at[a] \in InTransaction /\ step[a] > Len(Statements(at[a]))
  /\ row' = Written(a)
  /\ busy' = IF a = "worker" THEN at[a] = "pickup" ELSE busy
  /\ EndAt(a, IF at[a] = "pickup" THEN "prepare" ELSE "idle")
  /\ UNCHANGED <<stops, late>>

(* Actor a waits for a row that actor b has locked. *)
WaitsFor(a, b) ==
  \E r \in Rows : IsAt(a, Update(r)) /\ Flushed(a, r) /\ lock[r] = b

Deadlock(a, b) == a # b /\ WaitsFor(a, b) /\ WaitsFor(b, a)

(* An exception in the worker: _execute_run has a handler for the          *)
(* preparation, the loop has one for everything else and for the handler;  *)
(* an exception out of that one ends the process, which sets its row       *)
(* offline: see "down".                                                    *)
Raises ==
  IF at["worker"] = "outer" THEN EndAt("worker", "down")
  ELSE EndAt("worker", IF at["worker"] = "prepare" THEN "inner" ELSE "outer")

(* Mutant of DeadlockAborts: the worker drops the run. *)
DeadlockAbortsQuietly(a) ==
  /\ \E b \in Actors : Deadlock(a, b)
  /\ EndAt(a, "idle")
  /\ UNCHANGED <<tables, stops>>

(* PostgreSQL aborts a transaction: the request answers 500, and in the    *)
(* worker an exception is raised.                                          *)
DeadlockAborts(a) ==
  /\ \E b \in Actors : Deadlock(a, b)
  /\ IF a = "worker" THEN Raises ELSE EndAt(a, "idle")
  /\ UNCHANGED <<tables, stops>>

-----------------------------------------------------------------------------
(* The worker between its transactions, and the requests *)

(* The workspace is ready. *)
Prepared ==
  /\ at["worker"] = "prepare"
  /\ at' = [at EXCEPT !["worker"] = "run"]
  /\ UNCHANGED <<tables, step, saw, lock, stops>>

(* The runner has returned: outputs are collected, ... *)
RunnerReturned ==
  /\ at["worker"] = "run" /\ report # NoReport
  /\ at' = [at EXCEPT !["worker"] = "collect"]
  /\ UNCHANGED <<tables, step, saw, lock, stops>>

(* ... and the last transaction begins. *)
Collected ==
  /\ at["worker"] = "collect"
  /\ Goto("worker", "final", 1)
  /\ UNCHANGED <<tables, saw, lock, stops>>

(* Preparation, an upload, an insertion or a transaction fails.  Nothing   *)
(* raises from the spawn of the client to the return of the runner.        *)
ExecuteRaises ==
  /\ \/ at["worker"] \in {"pickup", "prepare", "collect", "final"}
     \/ at["worker"] = "run" /\ stage = "spawn"
  /\ Raises
  /\ UNCHANGED <<tables, stops>>

(* In any other status of the job the request is refused with 409. *)
Cancel(c) ==
  /\ at[c] = "idle" /\ row["job"] \in {"scheduled", "running"}
  /\ Goto(c, "cancel", 2)
  /\ saw' = [saw EXCEPT ![c]["job"] = row["job"]]
  /\ UNCHANGED <<tables, lock, stops>>

(* _stop_container: stop and remove, both best-effort; a container that is *)
(* not there yet is not affected.                                          *)
StopContainer ==
  /\ stops /\ stops' = FALSE
  /\ \/ Stopped
     \/ (container # "up" \/ "rm" \in Faults) /\ UNCHANGED vars
  /\ UNCHANGED <<tables, at, step, saw, lock>>

Statement(a) ==
  (\E r \in Rows : SelectRow(a, r) \/ UpdateRow(a, r)) \/ Commit(a) \/ DeadlockAborts(a)
WorkerGoesOn == Statement("worker") \/ Prepared \/ RunnerReturned \/ Collected

Database ==
  /\ \/ WorkerGoesOn \/ ExecuteRaises
     \/ \E c \in Requests : Cancel(c) \/ Statement(c)
  /\ UNCHANGED vars

(* run() is called once the workspace is ready. *)
Called(A) == A /\ (stage = "spawn" => at["worker"] = "run") /\ UNCHANGED attemptVars

AttemptNext ==
  \/ Database \/ StopContainer
  \/ Called(Environment) \/ Called(Runner) \/ Called(Readers)

AttemptSpec == AttemptInit /\ [][AttemptNext]_allVars

(* The container and its client go on, the event loop runs a reader that   *)
(* can go on, a handler that has begun goes on, and who waits for a row    *)
(* gets it in the order of the requests.                                   *)
ContainerGoesOn ==
  CreateContainer \/ ProgramEnds \/ ClientExits \/ \E s \in Streams : Write(s)
ReadersGoOn == \E s \in Streams : Read(s) \/ EndOfStream(s)

AttemptFairness ==
  /\ WF_allVars(Called(ContainerGoesOn)) /\ WF_allVars(Called(ReadersGoOn))
  /\ WF_allVars(Called(Runner))
  /\ SF_allVars(WorkerGoesOn /\ UNCHANGED vars)
  /\ \A c \in Requests : WF_allVars(Statement(c) /\ UNCHANGED vars)

FairAttemptSpec == AttemptSpec /\ AttemptFairness

-----------------------------------------------------------------------------
(* Properties *)

(* Every transaction locks the job before the run, except the failure      *)
(* handler: transactions wait for each other only when the handler marks a *)
(* run failed that is just being cancelled.                                *)
OnlyHandlerDeadlocks ==
  \A a, b \in Actors : Deadlock(a, b) => at["worker"] \in Handling /\ "worker" \in {a, b}

(* Devices are released on allocations that are still open: nobody closes  *)
(* them, and nobody allocates the devices anew, between the SELECT of the  *)
(* open allocations and the commit.                                        *)
ReleasesTakeTurns ==
  \A a \in Actors : saw[a]["devices"] = "open" => row["devices"] = "open"

(* When the worker has done with a run, whatever raised, aborted or was    *)
(* cancelled meanwhile, job and run are over and the devices are back.     *)
(* One case is excepted, in which the code does leak: a request that had   *)
(* loaded the job as queued, before the tick, cancelled the job alone, and *)
(* the worker leaves the run as the tick made it.  Completed means that    *)
(* the container of the run ended with code zero.                          *)
HandledMeansOver ==
  /\ at["worker"] = "idle" =>
       \/ row["job"] \in Terminal /\ row["run"] \in Terminal /\ row["devices"] = "closed"
       \/ late # {} /\ row["job"] = "cancelled" /\ row["run"] = "scheduled"
  /\ "completed" \in {row["job"], row["run"]} => report = "ok" /\ container = "ok"

(* The worker comes back to its queue, or ends: neither a program that     *)
(* fills its pipes nor a cancellation that holds the rows keeps it.        *)
AttemptEnds ==
  (limit \/ ~endless) ~> at["worker"] \in {"idle", "down"}
=============================================================================
