--------------------------- MODULE WorkerService ----------------------------
(***************************************************************************)
(* app/services/worker.py and the part of docker_runner.py it waits for.   *)
(* A worker handles one run at a time, in transactions of its own: between *)
(* them, and between a transaction's reads and its commit, every other     *)
(* component may move.  A read (with the relationships loaded along with   *)
(* it) stays what it was for the rest of its transaction.                  *)
(***************************************************************************)
EXTENDS JobStore

VARIABLES
  pc,      \* where each worker process is
  hand,    \* the run it handles
  sawRun,  \* job_runs.status as loaded by the current transaction
  sawJob,  \* jobs.status as loaded by the current transaction
  exit     \* RunResult.exit_code, zero ("ok") or not ("err")

workerVars == <<pc, hand, sawRun, sawJob, exit>>

(* Inside _execute_run, before the container and after it. *)
BeforeRun == {"popped", "gotRun", "picked", "prepare"}
AfterRun == {"ended", "gotFinalJob", "gotFinalRun"}
Executing == BeforeRun \cup {"docker"} \cup AfterRun
WorkerPcs == {"down", "idle", "failing"} \cup Executing

WorkerInit ==
  /\ pc = [w \in Workers |-> "down"]
  /\ hand = [w \in Workers |-> NoRun]
  /\ sawRun = [w \in Workers |-> "absent"]
  /\ sawJob = [w \in Workers |-> "absent"]
  /\ exit = [w \in Workers |-> "err"]

WorkerTypeOK ==
  /\ pc \in [Workers -> WorkerPcs]
  /\ hand \in [Workers -> Runs \cup {NoRun}]
  /\ \A w \in Workers : hand[w] = NoRun <=> pc[w] \in {"down", "idle"}
  /\ sawRun \in [Workers -> RunStatuses \cup {"absent"}]
  /\ sawJob \in [Workers -> JobStatuses \cup {"absent"}]
  /\ exit \in [Workers -> {"ok", "err"}]

Goto(w, from, to) == pc[w] \in from /\ pc' = [pc EXCEPT ![w] = to]

(* A transaction is over: what it loaded is not looked at again. *)
EndTransaction(w) ==
  /\ sawRun' = [sawRun EXCEPT ![w] = "absent"]
  /\ sawJob' = [sawJob EXCEPT ![w] = "absent"]

(* The handling of the run is over, one way or another: the locals die. *)
Drop(w) ==
  /\ hand' = [hand EXCEPT ![w] = NoRun]
  /\ EndTransaction(w)
  /\ exit' = [exit EXCEPT ![w] = "err"]

SetRow(w, status, run) ==
  workerRow' = [workerRow EXCEPT ![w] = [status |-> status, run |-> run]]

-----------------------------------------------------------------------------
(* Start, registration and the pop *)

(* Mutant of WorkerStart: an existing row keeps its current_job_run_id. *)
WorkerStartKeepsRun(w) ==
  /\ Goto(w, {"down"}, "idle")
  /\ SetRow(w, "idle", workerRow[w].run)
  /\ UNCHANGED <<jobTables, queue, container, hand, sawRun, sawJob, exit>>

WorkerStart(w) ==
  /\ Goto(w, {"down"}, "idle")
  /\ SetRow(w, "idle", NoRun)
  /\ UNCHANGED <<jobTables, queue, container, hand, sawRun, sawJob, exit>>

(* Mutant of PopJob: the run is read and left in the list. *)
PopJobPeeks(w) ==
  LET q == ListensOn[w] IN
  /\ queue[q] # <<>>
  /\ Goto(w, {"idle"}, "popped")
  /\ hand' = [hand EXCEPT ![w] = Head(queue[q])]
  /\ UNCHANGED <<jobTables, workerRow, container, sawRun, sawJob, exit, queue>>

PopJob(w) ==
  LET q == ListensOn[w] IN
  /\ Goto(w, {"idle"}, "popped")
  /\ BLPop(q)
  /\ hand' = [hand EXCEPT ![w] = Head(queue[q])]
  /\ UNCHANGED <<jobTables, workerRow, container, sawRun, sawJob, exit>>

-----------------------------------------------------------------------------
(* First transaction of _execute_run: fetch, check cancellation, start *)

PickupReadRun(w) ==
  /\ Goto(w, {"popped"}, "gotRun")
  /\ sawRun' = [sawRun EXCEPT ![w] = runStatus[hand[w]]]
  /\ UNCHANGED <<storeVars, hand, sawJob, exit>>

(* The job is read; a cancelled job or run is left alone as it stands. *)
PickupReadJob(w) ==
  /\ pc[w] = "gotRun"
  /\ LET job == jobStatus[JobOf(hand[w])] IN
     \/ /\ "cancelled" \in {job, sawRun[w]}
        /\ Goto(w, {"gotRun"}, "idle")
        /\ Drop(w)
     \/ /\ "cancelled" \notin {job, sawRun[w]}
        /\ Goto(w, {"gotRun"}, "picked")
        /\ sawJob' = [sawJob EXCEPT ![w] = job]
        /\ UNCHANGED <<hand, sawRun, exit>>
  /\ UNCHANGED storeVars

(* The run starts.  The code has one branch more here: a job without its   *)
(* job_inputs row would be marked failed by _mark_run_failed_in_session,   *)
(* which releases nothing.  No job is without: SubmitJob inserts the row   *)
(* with the job, and nothing deletes it.                                   *)
PickupCommit(w) ==
  LET r == hand[w]
      j == JobOf(r)
  IN /\ Goto(w, {"picked"}, "prepare")
     /\ jobStatus' = [jobStatus EXCEPT ![j] = OrmSet(@, sawJob[w], "running")]
     /\ runStatus' = [runStatus EXCEPT ![r] = OrmSet(@, sawRun[w], "running")]
     /\ SetRow(w, "busy", r)
     /\ EndTransaction(w)
     /\ UNCHANGED <<latest, granted, held, gpuOwner, queue, container, hand, exit>>

-----------------------------------------------------------------------------
(* The container *)

(* The workspace is ready and the `docker run` client is started, with the *)
(* devices of all allocation rows of the run.                              *)
Launch(w) ==
  /\ Goto(w, {"prepare"}, "docker")
  /\ container' = [container EXCEPT ![hand[w]] = "starting"]
  /\ UNCHANGED <<jobTables, workerRow, queue, hand, sawRun, sawJob, exit>>

(* The client could not be started: the runner reports exit code -1. *)
LaunchFails(w) ==
  /\ "raise" \in Faults
  /\ Goto(w, {"prepare"}, "ended")
  /\ exit' = [exit EXCEPT ![w] = "err"]
  /\ UNCHANGED <<storeVars, hand, sawRun, sawJob>>

(* Some time later the container is there, or docker refuses to create it: *)
(* whatever has become of the worker, and even of its client, by then.     *)
ContainerStarts(r) ==
  /\ container[r] = "starting"
  /\ \E state \in {"up", "err"} : container' = [container EXCEPT ![r] = state]
  /\ UNCHANGED <<jobTables, workerRow, queue, workerVars>>

(* The program ends by itself, with either outcome. *)
ContainerExit(r) ==
  /\ container[r] = "up"
  /\ \E code \in {"ok", "err"} : container' = [container EXCEPT ![r] = code]
  /\ UNCHANGED <<jobTables, workerRow, queue, workerVars>>

(* Mutant of RunnerReturn: every exit code is reported as zero. *)
RunnerReturnIgnoresCode(w) ==
  /\ Goto(w, {"docker"}, "ended")
  /\ container[hand[w]] \in {"ok", "err"}
  /\ exit' = [exit EXCEPT ![w] = "ok"]
  /\ UNCHANGED <<storeVars, hand, sawRun, sawJob>>

(* Mutant of RunnerReturn: the runner does not wait for the process. *)
RunnerReturnDoesNotWait(w) ==
  /\ Goto(w, {"docker"}, "ended")
  /\ exit' = [exit EXCEPT ![w] = "ok"]
  /\ UNCHANGED <<storeVars, hand, sawRun, sawJob>>

RunnerReturn(w) ==
  /\ Goto(w, {"docker"}, "ended")
  /\ container[hand[w]] \in {"ok", "err"}
  /\ exit' = [exit EXCEPT ![w] = container[hand[w]]]
  /\ UNCHANGED <<storeVars, hand, sawRun, sawJob>>

(* Timeout, or an exception while the streams are read: the runner removes *)
(* the container and reports a failure; but when the time limit strikes a  *)
(* program that has just ended, the exit code it reports is still the      *)
(* program's.  The removal may miss: it fails in silence, or it finds no   *)
(* container yet, and then the container starts after all.                 *)
RunnerGivesUp(w) ==
  /\ Goto(w, {"docker"}, "ended")
  /\ \E code \in {"err"} \cup ({"ok"} \cap {container[hand[w]]}) :
       exit' = [exit EXCEPT ![w] = code]
  /\ \/ /\ container[hand[w]] # "starting"
        /\ container' = [container EXCEPT ![hand[w]] = IF @ = "up" THEN "err" ELSE @]
     \/ "miss" \in Faults /\ UNCHANGED container
  /\ UNCHANGED <<jobTables, workerRow, queue, hand, sawRun, sawJob>>

-----------------------------------------------------------------------------
(* Last transaction of _execute_run: status, release, worker row *)

FinalReadJob(w) ==
  /\ Goto(w, {"ended"}, "gotFinalJob")
  /\ sawJob' = [sawJob EXCEPT ![w] = jobStatus[JobOf(hand[w])]]
  /\ UNCHANGED <<storeVars, hand, sawRun, exit>>

FinalReadRun(w) ==
  /\ Goto(w, {"gotFinalJob"}, "gotFinalRun")
  /\ sawRun' = [sawRun EXCEPT ![w] = runStatus[hand[w]]]
  /\ UNCHANGED <<storeVars, hand, sawJob, exit>>

(* Mutant of FinalStatus: a status of its own for what is not a success. *)
FinalStatusTimedOut(w) ==
  IF sawJob[w] = "cancelled" THEN "cancelled"
  ELSE IF exit[w] = "ok" THEN "completed" ELSE "timed_out"

FinalStatus(w) ==
  IF sawJob[w] = "cancelled" THEN "cancelled"
  ELSE IF exit[w] = "ok" THEN "completed" ELSE "failed"

(* Mutant of WriteFinalStatus: the job gets the final status, the run keeps its own. *)
WriteFinalStatusForgetsRun(w) ==
  LET j == JobOf(hand[w]) IN
  /\ jobStatus' = [jobStatus EXCEPT ![j] = OrmSet(@, sawJob[w], FinalStatus(w))]
  /\ UNCHANGED runStatus

(* A status that was loaded as "cancelled" is not written. *)
WriteFinalStatus(w) ==
  LET r == hand[w]
      j == JobOf(r)
  IN /\ runStatus' = [runStatus EXCEPT ![r] =
                        IF sawRun[w] = "cancelled" THEN @
                        ELSE OrmSet(@, sawRun[w], FinalStatus(w))]
     /\ jobStatus' = [jobStatus EXCEPT ![j] =
                        IF sawJob[w] = "cancelled" THEN @
                        ELSE OrmSet(@, sawJob[w], FinalStatus(w))]

FinalCommit(w) ==
  /\ Goto(w, {"gotFinalRun"}, "idle")
  /\ WriteFinalStatus(w)
  /\ ReleaseGpus(hand[w])
  /\ SetRow(w, "idle", NoRun)
  /\ Drop(w)
  /\ UNCHANGED <<latest, granted, queue, container>>

-----------------------------------------------------------------------------
(* Failures *)

(* An exception in _execute_run outside the runner: a failed preparation,  *)
(* snapshot, upload or event insertion, or a transaction that is aborted.  *)
ExecuteRaises(w) ==
  /\ "raise" \in Faults
  /\ Goto(w, BeforeRun \cup AfterRun, "failing")
  /\ EndTransaction(w)
  /\ exit' = [exit EXCEPT ![w] = "err"]
  /\ UNCHANGED <<storeVars, hand>>

(* Mutant of MarkRunFailed: the release is forgotten, as in the variant of *)
(* the handler that works within a session.                                *)
MarkRunFailedInSession(w) ==
  LET r == hand[w]
      j == JobOf(r)
  IN /\ Goto(w, {"failing"}, "idle")
     /\ runStatus' = [runStatus EXCEPT ![r] = "failed"]
     /\ jobStatus' = [jobStatus EXCEPT ![j] = "failed"]
     /\ SetRow(w, "idle", NoRun)
     /\ Drop(w)
     /\ UNCHANGED <<latest, granted, queue, container, held, gpuOwner>>

MarkRunFailed(w) ==
  LET r == hand[w]
      j == JobOf(r)
  IN /\ Goto(w, {"failing"}, "idle")
     /\ runStatus' = [runStatus EXCEPT ![r] = "failed"]
     /\ jobStatus' = [jobStatus EXCEPT ![j] = "failed"]
     /\ ReleaseGpus(r)
     /\ SetRow(w, "idle", NoRun)
     /\ Drop(w)
     /\ UNCHANGED <<latest, granted, queue, container>>

(* An orderly end: interrupt, lost Redis connection, or an exception out   *)
(* of _mark_run_failed.  The row turns offline; nothing else is undone and *)
(* a container in progress goes on.                                        *)
WorkerStops(w) ==
  /\ "crash" \in Faults
  /\ Goto(w, WorkerPcs \ {"down"}, "down")
  /\ SetRow(w, "offline", workerRow[w].run)
  /\ Drop(w)
  /\ UNCHANGED <<jobTables, queue, container>>

(* The process is killed. *)
WorkerCrash(w) ==
  /\ "crash" \in Faults
  /\ Goto(w, WorkerPcs \ {"down"}, "down")
  /\ Drop(w)
  /\ UNCHANGED storeVars

WorkerStep(w) ==
  \/ WorkerStart(w) \/ PopJob(w)
  \/ PickupReadRun(w) \/ PickupReadJob(w) \/ PickupCommit(w)
  \/ Launch(w) \/ LaunchFails(w) \/ RunnerReturn(w) \/ RunnerGivesUp(w)
  \/ FinalReadJob(w) \/ FinalReadRun(w) \/ FinalCommit(w)
  \/ MarkRunFailed(w)

WorkerFault(w) == ExecuteRaises(w) \/ WorkerStops(w) \/ WorkerCrash(w)
=============================================================================
