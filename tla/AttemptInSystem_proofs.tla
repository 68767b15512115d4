----------------------- MODULE AttemptInSystem_proofs -----------------------
(***************************************************************************)
(* Every step of RunAttempt is a step of GpuScheduler, or none: for any    *)
(* number of cancel requests, whatever the program in the container does.  *)
(***************************************************************************)
EXTENDS AttemptInSystem, RunAttempt_proofs

-----------------------------------------------------------------------------
(* What the detailed model keeps beside its other invariants *)

(* The runner is called once the workspace is ready, and left once it has  *)
(* reported; there is no container before there was a client.              *)
Started ==
  /\ client = "none" => container = "none"
  /\ at[Worker] \in {"pickup", "prepare"} => stage = "spawn"
  /\ at[Worker] \in {"collect", "final"} => report # NoReport

(* Nobody but the worker completes or fails the job or the run. *)
Unfinished ==
  at[Worker] \notin {"idle", "down"} =>
    \A r \in JobAndRun : {row[r], saw[Worker][r]} \cap {"completed", "failed"} = {}

(* A request in its transaction has read a job that was not over; when it  *)
(* was running, a run that the request has seen over is over.              *)
Informed ==
  \A c \in Requests :
    /\ at[c] = "cancel" => step[c] >= 2 /\ saw[c]["job"] \in {"scheduled", "running"}
    /\ at[c] = "late" => step[c] >= 2 /\ saw[c]["job"] = "queued"
    /\ saw[c]["job"] = "running" =>
         at[Worker] # "pickup" /\ (saw[c]["run"] \in Terminal => row["run"] \in Terminal)

SystemInv == Started /\ Unfinished /\ Informed

(* The initial states satisfy it. *)
LEMMA SystemInitInv == AttemptInit => SystemInv
<1> SUFFICES ASSUME AttemptInit PROVE SystemInv
  OBVIOUS
<1>1. Started
  BY DEF AttemptInit, Init, Started, Worker, Actors
<1>2. Unfinished
  BY DEF AttemptInit, Unfinished, JobAndRun, Rows, Unread, Actors, Worker
<1>3. Informed
  <2> SUFFICES ASSUME NEW c \in Requests
               PROVE  /\ at[c] # "cancel" /\ saw[c]["job"] # "running"
                      /\ at[c] = "late" => step[c] >= 2 /\ saw[c]["job"] = "queued"
    BY DEF Informed
  <2> QED
    BY RequestsAssumption DEF AttemptInit, Rows, Unread, Actors
<1> QED
  BY <1>1, <1>2, <1>3 DEF SystemInv

(* The runner does not take a report back. *)
LEMMA ReportIsLast ==
  ASSUME RunnerInv, [Next]_vars, report # NoReport
  PROVE  report' = report
<1>1. stage = "returned"
  BY DEF RunnerInv, Truthful
<1> QED
  BY <1>1 DEF Next, Environment, Runner, Readers, vars, CreateContainer, Write, ProgramEnds, Stopped,
     ClientExits, Spawn, Gathered, TimeLimit, RemoveAfterLimit, Kill, Reap, Return, CloseAfterError,
     RemoveAfterError, ReturnAfterError, Read, ReadRaises, EndOfStream

(* A step of the runner keeps it. *)
LEMMA RunnerKeepsSystemInv ==
  ASSUME RunnerInv, SystemInv, Next, stage = "spawn" => at[Worker] = "run",
         UNCHANGED <<row, at, step, saw>>
  PROVE  SystemInv'
<1>1. client' = "none" => container' = "none"
  BY DEF SystemInv, Started, RunnerInv, TypeOK, Codes, Next, Environment, Runner, Readers,
     CreateContainer, Write, ProgramEnds, Stopped, ClientExits, Spawn, Gathered, TimeLimit,
     RemoveAfterLimit, ForceRemove, Kill, Reap, Return, CloseAfterError, RemoveAfterError,
     ReturnAfterError, Read, ReadRaises, EndOfStream
<1>2. Started'
  BY <1>1, ReportIsLast DEF SystemInv, Started
<1> QED
  BY <1>2 DEF SystemInv, Unfinished, Informed

(* A transaction that ends without a write keeps it. *)
LEMMA EndKeepsSystemInv ==
  ASSUME LockInv, SystemInv, NEW a \in Actors, NEW place \in Places, EndAt(a, place),
         UNCHANGED <<row, stage, report, client, container>>,
         IF a = Worker THEN place \in {"inner", "outer", "down", "idle"} ELSE place = "idle"
  PROVE  SystemInv'
<1>1. /\ \A b \in Actors : /\ at'[b] = (IF b = a THEN place ELSE at[b])
                            /\ step'[b] = (IF b = a THEN 1 ELSE step[b])
                            /\ saw'[b] = (IF b = a THEN Unread ELSE saw[b])
      /\ Worker \in Actors /\ Requests \subseteq Actors /\ Worker \notin Requests
  BY RequestsAssumption DEF EndAt, Goto, End, LockInv, AttemptTypeOK, Actors, Worker
<1>2. \A r \in Rows : Unread[r] = "unread"
  BY DEF Unread
<1>3. Started'
  BY <1>1 DEF SystemInv, Started
<1>4. Unfinished'
  BY <1>1, <1>2 DEF SystemInv, Unfinished, LockInv, Shape, JobAndRun, Rows, Worker
<1>5. Informed'
  BY <1>1, <1>2 DEF SystemInv, Informed, Rows
<1> QED
  BY <1>3, <1>4, <1>5 DEF SystemInv

(* A commit keeps it: a cancellation leaves the run over, and so does the  *)
(* worker, whose pickup comes before any request has read "running".       *)
LEMMA CommitKeepsSystemInv ==
  ASSUME LockInv, HandledInv, SystemInv, NEW a \in Actors, Commit(a), UNCHANGED vars
  PROVE  SystemInv'
<1>1. /\ UNCHANGED <<stage, report, client, container>>
      /\ Worker \in Actors /\ Requests \subseteq Actors /\ Worker \notin Requests /\ Worker = "worker"
      /\ \A r \in Rows : Unread[r] = "unread"
      /\ \A b \in Actors : b # a => at'[b] = at[b] /\ step'[b] = step[b] /\ saw'[b] = saw[b]
      /\ saw'[a] = Unread
      /\ at'[a] = IF at[a] = "pickup" THEN "prepare" ELSE "idle"
  BY RequestsAssumption DEF Commit, EndAt, Goto, End, LockInv, AttemptTypeOK, Actors, Worker, vars,
     Unread
<1>2. CASE a \in Requests
  <2>1. a # Worker /\ at[a] \in {"cancel", "late"}
    BY <1>1, <1>2, CommitWrites DEF LockInv, Shape, InTransaction, Handling
  <2>2. \A r \in JobAndRun : row'[r] \in {row[r], "cancelled"}
    BY <1>2, CancellationWrites
  <2>3. Started'
    BY <1>1, <2>1 DEF SystemInv, Started
  <2>4. Unfinished'
    BY <1>1, <2>1, <2>2 DEF SystemInv, Unfinished, JobAndRun
  <2>5. Informed'
    <3>1. row["run"] \in Terminal => row'["run"] \in Terminal
      BY <2>2 DEF JobAndRun, Terminal
    <3> QED
      BY <1>1, <2>1, <3>1 DEF SystemInv, Informed, Rows
  <2> QED
    BY <2>3, <2>4, <2>5 DEF SystemInv
<1>3. CASE a = Worker /\ at[a] = "pickup"
  <2>1. \A r \in JobAndRun : row'[r] \in {row[r], "running"}
    <3>1. \A r \in JobAndRun : Outcome("worker", r) = "running"
      BY <1>3, Zenon DEF Outcome, Handling, Worker
    <3> QED
      BY <1>3, <3>1, CommitWrites DEF Worker
  <2>2. Started'
    BY <1>1, <1>3 DEF SystemInv, Started
  <2>3. Unfinished'
    BY <1>1, <1>3, <2>1 DEF SystemInv, Unfinished, JobAndRun, Rows
  <2>4. Informed'
    BY <1>1, <1>3 DEF SystemInv, Informed
  <2> QED
    BY <2>2, <2>3, <2>4 DEF SystemInv
<1>4. CASE a = Worker /\ at[a] # "pickup"
  <2>1. row'["run"] \in Terminal
    BY <1>4, FinalWrites DEF JobAndRun, Worker
  <2>2. Started' /\ Unfinished'
    BY <1>1, <1>4 DEF SystemInv, Started, Unfinished
  <2>3. Informed'
    BY <1>1, <1>4, <2>1 DEF SystemInv, Informed
  <2> QED
    BY <2>2, <2>3 DEF SystemInv
<1> QED
  BY <1>2, <1>3, <1>4 DEF Actors, Worker

(* What is loaded is what the row holds. *)
LEMMA SelectKeepsSystemInv ==
  ASSUME LockInv, SystemInv, NEW a \in Actors, NEW r \in Rows, SelectRow(a, r), UNCHANGED vars
  PROVE  SystemInv'
<1>1. /\ UNCHANGED <<stage, report, client, container>> /\ row' = row /\ Worker = "worker"
      /\ Worker \in Actors /\ Requests \subseteq Actors /\ Worker \notin Requests
  BY RequestsAssumption DEF SelectRow, tables, vars, Actors, Worker
<1>2. CASE Skipped(a, r)
  <2>1. a = Worker
    BY <1>1, <1>2, RequestsAssumption DEF Skipped, LockInv, Shape, Actors
  <2> QED
    BY <1>1, <1>2, <2>1, EndKeepsSystemInv DEF SelectRow, Places
<1>3. CASE ~Skipped(a, r)
  <2>1. /\ at' = at
        /\ \A b \in Actors : step'[b] = IF b = a THEN step[a] + 1 ELSE step[b]
        /\ \A b \in Actors, q \in Rows : saw'[b][q] = IF b = a /\ q = r THEN row[r] ELSE saw[b][q]
        /\ step[a] \in 1..7
    BY <1>3 DEF SelectRow, Goto, LockInv, AttemptTypeOK
  <2>2. at[a] \in {"cancel", "late"} /\ r = "job" => step[a] = 1
    <3>1. at[a] \in InTransaction
      BY DEF SelectRow, IsAt
    <3>2. step[a] = SelectAt(at[a], r)
      BY <2>1, <3>1, StatementIs DEF SelectRow
    <3> QED
      BY <3>2 DEF SelectAt
  <2>3. Started' /\ Unfinished'
    BY <1>1, <2>1 DEF SystemInv, Started, Unfinished, JobAndRun, Rows
  <2>4. Informed'
    <3> SUFFICES ASSUME NEW c \in Requests
                 PROVE  /\ at[c] = "cancel" => step'[c] >= 2 /\ saw'[c]["job"] \in {"scheduled", "running"}
                        /\ at[c] = "late" => step'[c] >= 2 /\ saw'[c]["job"] = "queued"
                        /\ saw'[c]["job"] = "running" =>
                             at[Worker] # "pickup" /\ (saw'[c]["run"] \in Terminal => row["run"] \in Terminal)
      BY <1>1, <2>1 DEF Informed
    <3>1. c \in Actors /\ "job" \in Rows /\ "run" \in Rows /\ step[c] \in 1..7
      BY <1>1 DEF Rows, LockInv, AttemptTypeOK
    <3>2. CASE c # a
      BY <3>1, <3>2, <2>1 DEF SystemInv, Informed
    <3>3. CASE c = a
      <4>1. at[c] \in {"cancel", "late"} /\ r # "job"
        BY <3>3, <2>2 DEF SelectRow, IsAt, SystemInv, Informed, LockInv, Shape, InTransaction, Handling
      <4>2. saw'[c]["job"] = saw[c]["job"] /\ saw'[c]["run"] \in {saw[c]["run"], row["run"]}
        BY <4>1, <3>1, <2>1
      <4> QED
        BY <4>1, <4>2, <3>1, <3>3, <2>1 DEF SystemInv, Informed
    <3> QED BY <3>2, <3>3
  <2> QED
    BY <2>3, <2>4 DEF SystemInv
<1> QED
  BY <1>2, <1>3

(* A request begins with a job that is not over; none is running before    *)
(* the worker has picked it up.                                            *)
LEMMA CancelKeepsSystemInv ==
  ASSUME LockInv, HandledInv, SystemInv, NEW c \in Requests, Cancel(c), UNCHANGED vars
  PROVE  SystemInv'
<1>1. /\ UNCHANGED <<stage, report, client, container>> /\ row' = row /\ Worker = "worker"
      /\ Worker \in Actors /\ Requests \subseteq Actors /\ Worker \notin Requests /\ c # Worker
      /\ row["job"] \in {"scheduled", "running"}
      /\ \A b \in Actors : /\ at'[b] = (IF b = c THEN "cancel" ELSE at[b])
                            /\ step'[b] = (IF b = c THEN 2 ELSE step[b])
                            /\ \A q \in Rows : saw'[b][q] = (IF b = c /\ q = "job" THEN row["job"]
                                                             ELSE saw[b][q])
  BY RequestsAssumption DEF Cancel, Goto, tables, vars, Actors, Worker, LockInv, AttemptTypeOK
<1>2. saw[c]["run"] = "unread" /\ "unread" \notin Terminal
  <2>1. at[c] \notin InTransaction
    BY DEF Cancel, InTransaction, Handling
  <2> QED
    BY <1>1, <2>1 DEF LockInv, AttemptTypeOK, Unread, Rows, Terminal
<1>3. row["job"] = "running" => at[Worker] # "pickup"
  BY <1>1 DEF HandledInv, Fresh, LeftBehind
<1>4. Started' /\ Unfinished'
  BY <1>1 DEF SystemInv, Started, Unfinished, JobAndRun, Rows
<1>5. Informed'
  BY <1>1, <1>2, <1>3 DEF SystemInv, Informed, Rows
<1> QED
  BY <1>4, <1>5 DEF SystemInv

(* Every step keeps it. *)
LEMMA SystemNextInv ==
  ASSUME RunnerInv, LockInv, HandledInv, SystemInv, [AttemptNext]_allVars
  PROVE  SystemInv'
<1>0. Worker = "worker" /\ Worker \in Actors /\ Worker \notin Requests
  BY RequestsAssumption DEF Worker, Actors
<1>1. CASE UNCHANGED <<row, at, step, saw, stage, report, client, container>>
  BY <1>1 DEF SystemInv, Started, Unfinished, Informed
<1>2. ASSUME NEW a \in Actors, Statement(a), UNCHANGED vars PROVE SystemInv'
  <2>1. CASE \E r \in Rows : SelectRow(a, r)
    BY <1>2, <2>1, SelectKeepsSystemInv
  <2>2. CASE \E r \in Rows : UpdateRow(a, r)
    <3>1. /\ UNCHANGED <<row, saw, at, stage, report, client, container>>
          /\ \A b \in Actors : step[b] \in 1..7 /\ step'[b] \in {step[b], step[b] + 1}
      BY <1>2, <2>2 DEF UpdateRow, Goto, tables, vars, LockInv, AttemptTypeOK
    <3>2. \A c \in Requests : step[c] >= 2 => step'[c] >= 2
      <4> SUFFICES ASSUME NEW c \in Requests, step[c] >= 2 PROVE step'[c] >= 2
        OBVIOUS
      <4>1. c \in Actors
        BY DEF Actors
      <4>2. step[c] \in Int /\ step'[c] \in {step[c], step[c] + 1}
        BY <3>1, <4>1
      <4> QED
        BY <4>2
    <3> QED
      BY <3>1, <3>2 DEF SystemInv, Started, Unfinished, Informed
  <2>3. CASE Commit(a)
    BY <1>2, <2>3, CommitKeepsSystemInv
  <2>4. CASE DeadlockAborts(a)
    <3>1. UNCHANGED <<row, stage, report, client, container>>
      BY <1>2, <2>4 DEF DeadlockAborts, tables, vars
    <3>2. CASE a = Worker
      BY <1>0, <2>4, <3>1, <3>2, RaisesIs, EndKeepsSystemInv
         DEF DeadlockAborts, Places, InTransaction, Handling
    <3>3. CASE a # Worker
      BY <1>0, <2>4, <3>1, <3>3, EndKeepsSystemInv DEF DeadlockAborts, Places
    <3> QED BY <3>2, <3>3
  <2> QED
    BY <1>2, <2>1, <2>2, <2>3, <2>4 DEF Statement
<1>3. ASSUME Prepared \/ RunnerReturned \/ Collected, UNCHANGED vars PROVE SystemInv'
  <2>1. /\ UNCHANGED <<row, saw, stage, report, client, container>>
        /\ \A c \in Requests : at'[c] = at[c] /\ step'[c] = step[c]
        /\ at'[Worker] = (IF at[Worker] = "prepare" THEN "run"
                          ELSE IF at[Worker] = "run" THEN "collect" ELSE "final")
        /\ at[Worker] \in {"prepare", "run", "collect"}
        /\ at'[Worker] = "collect" => report # NoReport
    BY <1>0, <1>3 DEF Prepared, RunnerReturned, Collected, Goto, tables, vars, LockInv,
       AttemptTypeOK, Actors
  <2> QED
    BY <2>1 DEF SystemInv, Started, Unfinished, Informed
<1>4. ASSUME ExecuteRaises, UNCHANGED vars PROVE SystemInv'
  BY <1>0, <1>4, RaisesIs, EndKeepsSystemInv
     DEF ExecuteRaises, tables, Places, InTransaction, Handling, vars
<1>5. CASE Database
  <2>1. CASE WorkerGoesOn
    BY <1>5, <2>1, <1>2, <1>3 DEF WorkerGoesOn, Actors, Database
  <2>2. CASE \E c \in Requests : Cancel(c) \/ Statement(c)
    BY <1>5, <2>2, <1>2, CancelKeepsSystemInv DEF Actors, Database
  <2> QED
    BY <1>4, <1>5, <2>1, <2>2 DEF Database
<1>6. CASE Called(Environment) \/ Called(Runner) \/ Called(Readers)
  BY <1>0, <1>6, RunnerKeepsSystemInv DEF Called, Next, attemptVars, tables
<1>7. CASE StopContainer
  <2>1. UNCHANGED <<row, at, step, saw, stage, report, client>>
    BY <1>7 DEF StopContainer, Stopped, tables, vars
  <2>2. client = "none" => container' = "none"
    BY <1>7 DEF StopContainer, Stopped, vars, SystemInv, Started
  <2> QED
    BY <2>1, <2>2 DEF SystemInv, Started, Unfinished, Informed
<1> QED
  BY <1>1, <1>5, <1>6, <1>7 DEF AttemptNext, allVars, attemptVars, tables, vars

-----------------------------------------------------------------------------
(* The steps of the system, by the values of its variables *)

RowValues == <<row["job"], row["run"], row["devices"]>>
Store == <<RowValues, CoreRow, CoreContainer>>
Demands == <<CoreRequests, stops>>

(* No row changes while a request that has flushed is about to commit. *)
RowsKept ==
  \A c \in Requests : CoreRequest(c).stage = "flushed" /\ CoreRequest(c)' = CoreRequest(c) =>
    UNCHANGED RowValues

LEMMA RequestFacts ==
  ASSUME NEW c \in Requests
  PROVE  /\ CoreRequests[c] = CoreRequest(c)
         /\ CoreRequest(c).stage = "flushed" => CoreRequest(c).job = Job /\ CoreRequest(c).run = Run
  BY DEF CoreRequests, CoreRequest, NoRequest, LateRequest

LEMMA SystemStutters ==
  ASSUME UNCHANGED <<Store, Demands, CorePc, CoreSaw("run"), CoreSaw("job"), CoreExit>>
  PROVE  UNCHANGED Core!vars
  BY DEF Core!vars, Core!storeVars, Core!jobTables, Core!schedulerVars, Core!workerVars,
     Core!apiVars, Store, RowValues, Demands, CoreHand

(* The rows are kept, no tick is in progress, and no release is noted. *)
LEMMA LocksHold == RowsKept => Core!RowLocks /\ Core!NoteReleases
<1>1. RowsKept => Core!RequestLocks
  BY RequestFacts DEF Core!RequestLocks, RowsKept, CoreRequests, RowValues
<1>2. Core!TickLocks
  BY DEF Core!TickLocks
<1>3. Core!NoteReleases
  BY DEF Core!NoteReleases
<1> QED
  BY <1>1, <1>2, <1>3 DEF Core!RowLocks

(* The row of the worker, as long as its process does not end. *)
LEMMA RowStays ==
  ASSUME busy' = busy, at'[Worker] = "down" <=> at[Worker] = "down"
  PROVE  CoreRow' = CoreRow
  BY DEF CoreRow

LEMMA RowIs ==
  ASSUME busy' \in BOOLEAN, at'[Worker] # "down"
  PROVE  CoreRow' = IF busy' THEN [status |-> "busy", run |-> Run] ELSE [status |-> "idle", run |-> NoOne]
  BY DEF CoreRow

LEMMA WorkerMoves ==
  ASSUME Core!WorkerStep(Worker) \/ Core!WorkerFault(Worker), UNCHANGED Demands, RowsKept
  PROVE  Core!Next
<1>1. Core!WorkersStep
  BY DEF Core!WorkersStep, Core!schedulerVars, Core!apiVars, Demands
<1> QED
  BY <1>1, LocksHold DEF Core!Next, Core!Moves

LEMMA ContainerMoves ==
  ASSUME \/ CoreContainer = "up" /\ CoreContainer' \in {"ok", "err"}
         \/ CoreContainer = "starting" /\ CoreContainer' \in {"up", "err"},
         UNCHANGED <<RowValues, CoreRow, Demands, CorePc, CoreSaw("run"), CoreSaw("job"), CoreExit>>
  PROVE  Core!Next
<1>1. Core!ContainerStarts(Run) \/ Core!ContainerExit(Run)
  BY DEF Core!ContainerStarts, Core!ContainerExit, Core!jobTables, Core!workerVars, RowValues, CoreHand
<1>2. Core!WorkersStep
  BY <1>1 DEF Core!WorkersStep, Core!schedulerVars, Core!apiVars, Core!Runs, Run, Job, Demands
<1> QED
  BY <1>2, LocksHold DEF Core!Next, Core!Moves, RowsKept

(* The pickup *)

LEMMA ReadsRun ==
  ASSUME CorePc = "popped", CorePc' = "gotRun", CoreSaw("run")' = row["run"],
         UNCHANGED <<Store, Demands, CoreSaw("job"), CoreExit>>
  PROVE  Core!Next
<1>1. Core!PickupReadRun(Worker)
  BY DEF Core!PickupReadRun, Core!Goto, Core!storeVars, Core!jobTables, Store, RowValues,
     CoreHand, Run
<1> QED
  BY <1>1, WorkerMoves DEF Core!WorkerStep, RowsKept, Store

LEMMA ReadsJob ==
  ASSUME CorePc = "gotRun", UNCHANGED <<Store, Demands>>,
         IF "cancelled" \in {row["job"], CoreSaw("run")}
         THEN CorePc' = "idle" /\ CoreSaw("run")' = "absent" /\ CoreSaw("job")' = "absent"
         ELSE CorePc' = "picked" /\ CoreSaw("job")' = row["job"] /\ UNCHANGED CoreSaw("run")
  PROVE  Core!Next
<1>1. CoreExit = "err" /\ CoreExit' = "err" /\ CoreHand = Run
      /\ CoreHand' = IF CorePc' = "idle" THEN NoOne ELSE Run
  BY DEF CoreExit, CoreHand
<1>2. Core!JobOf(Run) = Job
  BY DEF Core!JobOf, Run
<1>3. UNCHANGED Core!storeVars
  BY DEF Core!storeVars, Core!jobTables, Store, RowValues
<1>4. Core!PickupReadJob(Worker)
  BY <1>1, <1>2, <1>3 DEF Core!PickupReadJob, Core!Goto, Core!Drop, Core!EndTransaction
<1> QED
  BY <1>4, WorkerMoves DEF Core!WorkerStep, RowsKept, Store

LEMMA PicksUp ==
  ASSUME CorePc = "picked", CorePc' = "prepare", RowsKept,
         CoreRow' = [status |-> "busy", run |-> Run],
         row'["job"] = IF CoreSaw("job") = "running" THEN row["job"] ELSE "running",
         row'["run"] = IF CoreSaw("run") = "running" THEN row["run"] ELSE "running",
         CoreSaw("job")' = "absent", CoreSaw("run")' = "absent",
         UNCHANGED <<row["devices"], CoreContainer, Demands>>
  PROVE  Core!Next
<1>1. CoreExit = "err" /\ CoreExit' = "err" /\ CoreHand = Run /\ CoreHand' = Run
  BY DEF CoreExit, CoreHand
<1>2. Core!JobOf(Run) = Job
  BY DEF Core!JobOf, Run
<1>3. Core!PickupCommit(Worker)
  BY <1>1, <1>2 DEF Core!PickupCommit, Core!Goto, Core!EndTransaction, Core!SetRow, Core!OrmSet
<1> QED
  BY <1>3, WorkerMoves DEF Core!WorkerStep

(* The container *)

LEMMA Launches ==
  ASSUME CorePc = "prepare", CorePc' = "docker", CoreContainer' = "starting",
         UNCHANGED <<RowValues, CoreRow, Demands, CoreSaw("run"), CoreSaw("job")>>
  PROVE  Core!Next
<1>1. Core!Launch(Worker)
  BY DEF Core!Launch, Core!Goto, Core!jobTables, RowValues, CoreHand, CoreExit
<1> QED
  BY <1>1, WorkerMoves DEF Core!WorkerStep, RowsKept

LEMMA LaunchingFails ==
  ASSUME CorePc = "prepare", CorePc' = "ended", CoreExit' = "err",
         UNCHANGED <<Store, Demands, CoreSaw("run"), CoreSaw("job")>>
  PROVE  Core!Next
<1>1. Core!LaunchFails(Worker)
  BY DEF Core!LaunchFails, Core!Goto, Core!storeVars, Core!jobTables, Store, RowValues,
     CoreHand, CoreExit
<1> QED
  BY <1>1, WorkerMoves DEF Core!WorkerStep, RowsKept, Store

LEMMA Reports ==
  ASSUME CorePc = "docker", CorePc' = "ended", CoreExit' \in {"err"} \cup ({"ok"} \cap {CoreContainer}),
         UNCHANGED <<Store, Demands, CoreSaw("run"), CoreSaw("job")>>
  PROVE  Core!Next
<1>1. CoreHand = Run /\ CoreHand' = Run
  BY DEF CoreHand
<1>2. UNCHANGED Core!storeVars
  BY DEF Core!storeVars, Core!jobTables, Store, RowValues
<1>3. Core!RunnerGivesUp(Worker)
  BY <1>1, <1>2 DEF Core!RunnerGivesUp, Core!Goto, Core!storeVars
<1> QED
  BY <1>3, WorkerMoves DEF Core!WorkerStep, RowsKept, Store

(* The last transaction *)

LEMMA ReadsFinalJob ==
  ASSUME CorePc = "ended", CorePc' = "gotFinalJob", CoreSaw("job")' = row["job"],
         UNCHANGED <<Store, Demands, CoreSaw("run"), CoreExit>>
  PROVE  Core!Next
<1>1. Core!FinalReadJob(Worker)
  BY DEF Core!FinalReadJob, Core!Goto, Core!storeVars, Core!jobTables, Store, RowValues,
     CoreHand, Run, Core!JobOf
<1> QED
  BY <1>1, WorkerMoves DEF Core!WorkerStep, RowsKept, Store

LEMMA ReadsFinalRun ==
  ASSUME CorePc = "gotFinalJob", CorePc' = "gotFinalRun", CoreSaw("run")' = row["run"],
         UNCHANGED <<Store, Demands, CoreSaw("job"), CoreExit>>
  PROVE  Core!Next
<1>1. Core!FinalReadRun(Worker)
  BY DEF Core!FinalReadRun, Core!Goto, Core!storeVars, Core!jobTables, Store, RowValues,
     CoreHand, Run
<1> QED
  BY <1>1, WorkerMoves DEF Core!WorkerStep, RowsKept, Store

(* All of the run's devices are available again. *)
LEMMA Releases ==
  ASSUME row'["devices"] = "closed"
  PROVE  Core!ReleaseGpus(Run)
  BY DEF Core!ReleaseGpus

CoreFinalStatus ==
  IF CoreSaw("job") = "cancelled" THEN "cancelled"
  ELSE IF CoreExit = "ok" THEN "completed" ELSE "failed"

LEMMA Finishes ==
  ASSUME CorePc = "gotFinalRun", CorePc' = "idle", RowsKept,
         CoreRow' = [status |-> "idle", run |-> NoOne],
         \A r \in JobAndRun :
           row'[r] = IF CoreSaw(r) \in {"cancelled", CoreFinalStatus} THEN row[r] ELSE CoreFinalStatus,
         row'["devices"] = "closed", CoreSaw("job")' = "absent", CoreSaw("run")' = "absent",
         UNCHANGED <<CoreContainer, Demands>>
  PROVE  Core!Next
<1>1. CoreExit' = "err" /\ CoreHand = Run /\ CoreHand' = NoOne
  BY DEF CoreExit, CoreHand
<1>2. Core!JobOf(Run) = Job /\ Core!FinalStatus(Worker) = CoreFinalStatus
  BY DEF Core!JobOf, Run, Core!FinalStatus, CoreFinalStatus
<1>3. /\ row'["job"] = (IF CoreSaw("job") = "cancelled" THEN row["job"]
                        ELSE IF CoreFinalStatus = CoreSaw("job") THEN row["job"] ELSE CoreFinalStatus)
      /\ row'["run"] = (IF CoreSaw("run") = "cancelled" THEN row["run"]
                        ELSE IF CoreFinalStatus = CoreSaw("run") THEN row["run"] ELSE CoreFinalStatus)
  BY DEF JobAndRun
<1>4. Core!WriteFinalStatus(Worker)
  BY <1>1, <1>2, <1>3 DEF Core!WriteFinalStatus, Core!OrmSet
<1>5. Core!FinalCommit(Worker)
  BY <1>1, <1>4, Releases DEF Core!FinalCommit, Core!Goto, Core!SetRow, Core!Drop, Core!EndTransaction
<1> QED
  BY <1>5, WorkerMoves DEF Core!WorkerStep

(* The failures *)

LEMMA Fails ==
  ASSUME CorePc \in {"popped", "gotRun", "picked", "prepare", "ended", "gotFinalJob", "gotFinalRun"},
         CorePc' = "failing", CoreSaw("job")' = "absent", CoreSaw("run")' = "absent",
         UNCHANGED <<Store, Demands>>
  PROVE  Core!Next
<1>1. CoreExit' = "err" /\ CoreHand = Run /\ CoreHand' = Run
  BY DEF CoreExit, CoreHand
<1>2. UNCHANGED Core!storeVars
  BY DEF Core!storeVars, Core!jobTables, Store, RowValues
<1>3. Core!ExecuteRaises(Worker)
  BY <1>1, <1>2 DEF Core!ExecuteRaises, Core!Goto, Core!EndTransaction, Core!BeforeRun, Core!AfterRun
<1> QED
  BY <1>3, WorkerMoves DEF Core!WorkerFault, RowsKept, Store

LEMMA MarksFailed ==
  ASSUME CorePc = "failing", CorePc' = "idle", RowsKept,
         CoreRow' = [status |-> "idle", run |-> NoOne],
         \A r \in JobAndRun : row'[r] = "failed", row'["devices"] = "closed",
         CoreSaw("job")' = "absent", CoreSaw("run")' = "absent",
         UNCHANGED <<CoreContainer, Demands>>
  PROVE  Core!Next
<1>1. CoreExit' = "err" /\ CoreHand = Run /\ CoreHand' = NoOne
  BY DEF CoreExit, CoreHand
<1>2. Core!JobOf(Run) = Job /\ row'["job"] = "failed" /\ row'["run"] = "failed"
  BY DEF Core!JobOf, Run, JobAndRun
<1>3. Core!MarkRunFailed(Worker)
  BY <1>1, <1>2, Releases DEF Core!MarkRunFailed, Core!Goto, Core!SetRow, Core!Drop,
     Core!EndTransaction
<1> QED
  BY <1>3, WorkerMoves DEF Core!WorkerStep

LEMMA GoesDown ==
  ASSUME CorePc = "failing", CorePc' = "down", CoreSaw("job")' = "absent", CoreSaw("run")' = "absent",
         CoreRow' = [status |-> "offline", run |-> CoreRow.run],
         UNCHANGED <<RowValues, CoreContainer, Demands>>
  PROVE  Core!Next
<1>1. CoreExit' = "err" /\ CoreHand = Run /\ CoreHand' = NoOne
  BY DEF CoreExit, CoreHand
<1>2. UNCHANGED <<Core!jobTables, [r \in {Run} |-> CoreContainer]>>
  BY DEF Core!jobTables, RowValues
<1>3. Core!WorkerStops(Worker)
  BY <1>1, <1>2 DEF Core!WorkerStops, Core!Goto, Core!SetRow, Core!Drop, Core!EndTransaction,
     Core!WorkerPcs
<1> QED
  BY <1>3, WorkerMoves DEF Core!WorkerFault, RowsKept

(* The requests *)

WorkerParts == <<CorePc, CoreSaw("run"), CoreSaw("job"), CoreExit>>

LEMMA ClientMoves ==
  ASSUME NEW c \in Requests, Core!ClientStep(c), UNCHANGED WorkerParts, RowsKept
  PROVE  Core!Next
<1>1. Core!ApiStep
  BY DEF Core!ApiStep, Core!ApiNext, Core!schedulerVars, Core!workerVars, WorkerParts, CoreHand
<1> QED
  BY <1>1, LocksHold DEF Core!Next, Core!Moves

(* The requests after a step of request c. *)
LEMMA RequestChanges ==
  ASSUME NEW c \in Requests, \A d \in Requests \ {c} : CoreRequest(d)' = CoreRequest(d)
  PROVE  CoreRequests' = [CoreRequests EXCEPT ![c] = CoreRequest(c)']
  BY DEF CoreRequests

LEMMA StoreStays == UNCHANGED Store => UNCHANGED Core!storeVars
  BY DEF Core!storeVars, Core!jobTables, Store, RowValues

LEMMA RequestReadsJob ==
  ASSUME NEW c \in Requests, \A d \in Requests \ {c} : CoreRequest(d)' = CoreRequest(d),
         CoreRequest(c) = NoRequest, row["job"] \in {"scheduled", "running"},
         CoreRequest(c)' = [stage |-> "gotJob", job |-> Job, sawJob |-> row["job"], run |-> Run,
                            sawRun |-> "absent"],
         UNCHANGED <<Store, stops, WorkerParts>>
  PROVE  Core!Next
<1>1. Core!CancelReadJob(c, Job)
  BY RequestChanges, RequestFacts, StoreStays DEF Core!CancelReadJob, Core!Idle, NoRequest
<1> QED
  BY <1>1, ClientMoves DEF Core!ClientStep, RowsKept, Store

LEMMA RequestReadsRun ==
  ASSUME NEW c \in Requests, \A d \in Requests \ {c} : CoreRequest(d)' = CoreRequest(d),
         NEW s, CoreRequest(c) = [stage |-> "gotJob", job |-> Job, sawJob |-> s, run |-> Run,
                                  sawRun |-> "absent"],
         CoreRequest(c)' = [stage |-> "gotRun", job |-> Job, sawJob |-> s, run |-> Run,
                            sawRun |-> row["run"]],
         UNCHANGED <<Store, stops, WorkerParts>>
  PROVE  Core!Next
<1>1. Core!CancelReadRun(c)
  BY NoOneAssumption, RequestChanges, RequestFacts, StoreStays DEF Core!CancelReadRun
<1> QED
  BY <1>1, ClientMoves DEF Core!ClientStep, RowsKept, Store

LEMMA RequestFlushes ==
  ASSUME NEW c \in Requests, \A d \in Requests \ {c} : CoreRequest(d)' = CoreRequest(d),
         NEW s, CoreRequest(c) = [stage |-> "gotRun", job |-> Job, sawJob |-> "running", run |-> Run,
                                  sawRun |-> s],
         CoreRequest(c)' = [stage |-> "flushed", job |-> Job, sawJob |-> "running", run |-> Run,
                            sawRun |-> s],
         stops' = TRUE, UNCHANGED <<Store, WorkerParts>>
  PROVE  Core!Next
<1>1. Core!CancelFlush(c)
  BY NoOneAssumption, RequestChanges, RequestFacts, StoreStays
     DEF Core!CancelFlush, Core!StopsContainer
<1> QED
  BY <1>1, ClientMoves DEF Core!ClientStep, RowsKept, Store

LEMMA RequestCommits ==
  ASSUME NEW c \in Requests, \A d \in Requests \ {c} : CoreRequest(d)' = CoreRequest(d),
         NEW j \in {"scheduled", "running"}, NEW s,
         CoreRequest(c) = [stage |-> IF j = "running" THEN "flushed" ELSE "gotRun", job |-> Job,
                           sawJob |-> j, run |-> Run, sawRun |-> s],
         CoreRequest(c)' = NoRequest, RowsKept,
         row'["job"] = "cancelled",
         row'["run"] = IF s \in Terminal THEN row["run"] ELSE "cancelled",
         row'["devices"] = "closed",
         UNCHANGED <<CoreRow, stops, CoreContainer, WorkerParts>>
  PROVE  Core!Next
<1>1. CoreRequests' = [CoreRequests EXCEPT ![c] = NoRequest] /\ CoreRequests[c] = CoreRequest(c)
  BY RequestChanges, RequestFacts
<1>2. Core!CancelRunAndReleaseGpus(Run, s)
  BY Releases DEF Core!CancelRunAndReleaseGpus, Core!Terminal, Terminal
<1>3. Core!CancelCommit(c)
  BY <1>1, <1>2, NoOneAssumption DEF Core!CancelCommit, Core!StopsContainer, Core!Idle, NoRequest
<1> QED
  BY <1>3, ClientMoves DEF Core!ClientStep

(* A request that was late writes the job and nothing else. *)
LEMMA RequestCommitsLate ==
  ASSUME NEW c \in Requests, \A d \in Requests \ {c} : CoreRequest(d)' = CoreRequest(d),
         CoreRequest(c) = LateRequest, CoreRequest(c)' = NoRequest, RowsKept,
         row'["job"] = "cancelled",
         UNCHANGED <<row["run"], row["devices"], CoreRow, stops, CoreContainer, WorkerParts>>
  PROVE  Core!Next
<1>1. CoreRequests' = [CoreRequests EXCEPT ![c] = NoRequest] /\ CoreRequests[c] = LateRequest
  BY RequestChanges, RequestFacts
<1>2. Core!CancelCommit(c)
  BY <1>1 DEF Core!CancelCommit, Core!StopsContainer, Core!Idle, NoRequest, LateRequest
<1> QED
  BY <1>2, ClientMoves DEF Core!ClientStep

LEMMA RequestAborts ==
  ASSUME NEW c \in Requests, \A d \in Requests \ {c} : CoreRequest(d)' = CoreRequest(d),
         CoreRequest(c) # NoRequest, CoreRequest(c)' = NoRequest,
         UNCHANGED <<Store, stops, WorkerParts>>
  PROVE  Core!Next
<1>1. Core!CancelAborts(c)
  BY RequestChanges, RequestFacts, StoreStays DEF Core!CancelAborts, Core!Idle, NoRequest
<1> QED
  BY <1>1, ClientMoves DEF Core!ClientStep, RowsKept, Store

LEMMA ContainerIsStopped ==
  ASSUME stops, stops' = FALSE,
         \/ UNCHANGED CoreContainer
         \/ CoreContainer' = IF CoreContainer = "up" THEN "err" ELSE CoreContainer,
         UNCHANGED <<RowValues, CoreRow, CoreRequests, WorkerParts>>
  PROVE  Core!Next
<1>1. Core!StopContainer(Run)
  BY DEF Core!StopContainer, Core!jobTables, RowValues
<1>2. Core!ApiStep
  BY <1>1 DEF Core!ApiStep, Core!ApiNext, Core!schedulerVars, Core!workerVars, WorkerParts, CoreHand,
     Core!Runs, Run, Job
<1> QED
  BY <1>2, LocksHold DEF Core!Next, Core!Moves, RowsKept

-----------------------------------------------------------------------------
(* The steps of the runner and of the container *)

LEMMA PcIs ==
  /\ at[Worker] = "pickup" =>
       CorePc = IF step[Worker] = 1 THEN "popped" ELSE IF step[Worker] = 2 THEN "gotRun" ELSE "picked"
  /\ at[Worker] = "run" =>
       CorePc = IF report # NoReport THEN "ended" ELSE IF client = "none" THEN "prepare" ELSE "docker"
  /\ at[Worker] = "collect" => CorePc = "ended"
  /\ at[Worker] = "final" =>
       CorePc = IF step[Worker] = 1 THEN "ended"
                ELSE IF step[Worker] = 2 THEN "gotFinalJob" ELSE "gotFinalRun"
  /\ at[Worker] \in Handling => CorePc = "failing"
  /\ at[Worker] \in {"prepare", "idle", "down"} => CorePc = at[Worker]
  BY Zenon DEF CorePc, Handling

LEMMA PcIsNext ==
  /\ at'[Worker] = "pickup" =>
       CorePc' = IF step'[Worker] = 1 THEN "popped" ELSE IF step'[Worker] = 2 THEN "gotRun" ELSE "picked"
  /\ at'[Worker] = "run" =>
       CorePc' = IF report' # NoReport THEN "ended" ELSE IF client' = "none" THEN "prepare" ELSE "docker"
  /\ at'[Worker] = "collect" => CorePc' = "ended"
  /\ at'[Worker] = "final" =>
       CorePc' = IF step'[Worker] = 1 THEN "ended"
                 ELSE IF step'[Worker] = 2 THEN "gotFinalJob" ELSE "gotFinalRun"
  /\ at'[Worker] \in Handling => CorePc' = "failing"
  /\ at'[Worker] \in {"prepare", "idle", "down"} => CorePc' = at'[Worker]
  BY Zenon DEF CorePc, Handling

(* Where only the runner moves, the worker's place in the system depends   *)
(* on the client and on the report.                                        *)
LEMMA RunnerMoves ==
  ASSUME RunnerInv, LockInv, SystemInv, Next, stage = "spawn" => at[Worker] = "run",
         UNCHANGED attemptVars
  PROVE  Core!Next \/ UNCHANGED Core!vars
<1>1. /\ UNCHANGED <<RowValues, CoreRow, stops, CoreRequests, CoreSaw("run"), CoreSaw("job")>>
      /\ UNCHANGED <<at, step>>
  BY DEF attemptVars, tables, RowValues, CoreRequests, CoreRequest, IsCancelling, CoreSaw,
     CoreRow
<1>2. /\ client \in {"none", "up", "ok", "err"} /\ container \in {"none", "up", "ok", "err"}
      /\ stage = "spawn" => client = "none" /\ container = "none"
      /\ client = "ok" => container = "ok"
      /\ client = "none" => container = "none"
      /\ stage # "returned" => report = NoReport
      /\ stage = "closing" => client \in Codes
      /\ NoReport \notin Codes
  BY NoReportAssumption DEF RunnerInv, TypeOK, Course, Truthful, Codes, SystemInv, Started
<1>3. at[Worker] \in {"collect", "final"} => report # NoReport
  BY DEF SystemInv, Started
<1>4. at[Worker] \in Places \ {"cancel", "late"}
  BY DEF LockInv, AttemptTypeOK, Shape, Actors, Worker
<1>5. \/ at[Worker] \in {"run", "collect", "final"}
      \/ CorePc \notin {"ended", "gotFinalJob", "gotFinalRun"}
  BY <1>4, PcIs DEF Places, InTransaction, Handling
(* A step that changes neither the report nor whether there is a client. *)
<1>6. ASSUME report' = report, client' = "none" <=> client = "none"
      PROVE  UNCHANGED <<CorePc, CoreExit>>
  <2>1. CorePc' = CorePc
    BY <1>1, <1>6, Zenon DEF CorePc
  <2> QED
    BY <1>6, <2>1 DEF CoreExit
<1>7. CASE UNCHANGED <<client, container, report>>
  <2>1. CoreContainer' = CoreContainer
    BY <1>7 DEF CoreContainer
  <2> QED
    BY <1>1, <1>6, <1>7, <2>1, SystemStutters DEF Store, Demands
(* The container starts or ends, or the client that would create it ends. *)
<1>8. ASSUME \/ CoreContainer' = CoreContainer
             \/ CoreContainer = "up" /\ CoreContainer' \in {"ok", "err"}
             \/ CoreContainer = "starting" /\ CoreContainer' \in {"up", "err"},
             report' = report, client' = "none" <=> client = "none"
      PROVE  Core!Next \/ UNCHANGED Core!vars
  BY <1>1, <1>6, <1>8, SystemStutters, ContainerMoves DEF Store, Demands
<1>9. CASE Environment
  <2>1. CASE \E s \in Streams : Write(s)
    BY <1>7, <2>1 DEF Write
  <2>2. CASE CreateContainer
    BY <1>8, <2>2 DEF CreateContainer, CoreContainer
  <2>3. CASE ProgramEnds \/ Stopped
    BY <1>2, <1>8, <2>3 DEF ProgramEnds, Stopped, CoreContainer, Codes
  <2>4. CASE ClientExits
    BY <1>2, <1>8, <2>4 DEF ClientExits, CoreContainer, Codes
  <2> QED
    BY <1>9, <2>1, <2>2, <2>3, <2>4 DEF Environment
<1>10. CASE Readers
  BY <1>7, <1>10 DEF Readers, Read, ReadRaises, EndOfStream
<1>11. CASE Spawn
  <2>1. CASE client' = client
    BY <1>7, <1>11, <2>1 DEF Spawn
  <2>2. CASE client' # client
    <3>1. /\ client' = "up" /\ container' = "none" /\ at'[Worker] = "run" /\ at[Worker] = "run"
          /\ client = "none" /\ report = NoReport /\ report' = NoReport
      BY <1>1, <1>2, <1>11, <2>2 DEF Spawn
    <3>2. CorePc = "prepare" /\ CorePc' = "docker" /\ CoreContainer' = "starting"
      BY <3>1, PcIs, PcIsNext DEF CoreContainer
    <3> QED
      BY <1>1, <3>2, Launches DEF Demands
  <2> QED BY <2>1, <2>2
<1>12. CASE Return \/ ReturnAfterError
  <2>1. /\ report = NoReport /\ report' \in {"err"} \cup ({"ok"} \cap {client})
        /\ UNCHANGED <<client, container>>
        /\ Return => client # "none"
    BY <1>2, <1>12 DEF Return, ReturnAfterError, ExitCode, Codes
  <2>2. CoreContainer' = CoreContainer /\ (client = "ok" => CoreContainer = "ok")
    BY <1>2, <2>1 DEF CoreContainer
  <2>3. CASE at[Worker] = "run"
    <3>1. /\ CorePc = (IF client = "none" THEN "prepare" ELSE "docker")
          /\ CorePc' = "ended" /\ CoreExit' = report'
      BY <1>1, <1>2, <2>1, <2>3, PcIs, PcIsNext DEF CoreExit, Codes
    <3> QED
      BY <1>1, <1>2, <2>1, <2>2, <3>1, LaunchingFails, Reports DEF Store, Demands
  <2>4. CASE at[Worker] # "run"
    <3>1. at[Worker] \notin {"run", "collect", "final"}
      BY <1>3, <2>1, <2>4
    <3>2. CorePc' = CorePc
      BY <1>1, <1>4, <3>1, PcIs, PcIsNext DEF Places, InTransaction, Handling
    <3>3. CoreExit' = CoreExit
      BY <1>5, <3>1, <3>2 DEF CoreExit
    <3> QED
      BY <1>1, <2>2, <3>2, <3>3, SystemStutters DEF Store, Demands
  <2> QED BY <2>3, <2>4
<1>13. CASE RemoveAfterLimit \/ RemoveAfterError
  BY <1>2, <1>8, <1>13 DEF RemoveAfterLimit, RemoveAfterError, ForceRemove, CoreContainer
<1>14. CASE Kill
  BY <1>2, <1>8, <1>14 DEF Kill, CoreContainer
<1>15. CASE Gathered \/ TimeLimit \/ Reap \/ CloseAfterError
  BY <1>7, <1>15 DEF Gathered, TimeLimit, Reap, CloseAfterError
<1> QED
  BY <1>9, <1>10, <1>11, <1>12, <1>13, <1>14, <1>15 DEF Next, Runner

(* The task that stops the container. *)
LEMMA StopMoves ==
  ASSUME RunnerInv, SystemInv, StopContainer
  PROVE  Core!Next
<1>1. /\ UNCHANGED <<RowValues, CoreRow, CoreRequests, CoreSaw("run"), CoreSaw("job")>>
      /\ UNCHANGED <<at, step, client, report>> /\ stops' = FALSE /\ stops
      /\ client = "none" => container = "none"
  BY DEF StopContainer, Stopped, vars, tables, RowValues, CoreRequests, CoreRequest, IsCancelling,
     CoreSaw, CoreRow, SystemInv, Started
<1>2. CorePc' = CorePc
  BY <1>1, Zenon DEF CorePc
<1>3. CoreExit' = CoreExit
  BY <1>1, <1>2 DEF CoreExit
<1>4. \/ CoreContainer' = CoreContainer
      \/ CoreContainer' = IF CoreContainer = "up" THEN "err" ELSE CoreContainer
  BY <1>1 DEF StopContainer, Stopped, vars, CoreContainer
<1> QED
  BY <1>1, <1>2, <1>3, <1>4, ContainerIsStopped DEF WorkerParts

-----------------------------------------------------------------------------
(* The steps of the worker *)

(* What the database does with the worker leaves runner and requests alone. *)
LEMMA OnlyWorker ==
  ASSUME UNCHANGED <<vars, stops>>,
         \A c \in Requests : at'[c] = at[c] /\ step'[c] = step[c] /\ saw'[c] = saw[c]
  PROVE  /\ UNCHANGED <<CoreContainer, report, client, stage>>
         /\ UNCHANGED Demands
  BY DEF vars, CoreContainer, Demands, CoreRequests, CoreRequest, IsCancelling

(* A transaction of the worker that ends without a write. *)
LEMMA WorkerFails ==
  ASSUME RunnerInv, LockInv, SystemInv, Raises, UNCHANGED <<vars, tables, stops>>,
         \/ at[Worker] \in {"pickup", "prepare", "collect", "final", "inner", "outer"}
         \/ at[Worker] = "run" /\ stage = "spawn"
  PROVE  Core!Next \/ UNCHANGED Core!vars
<1>1. /\ \A c \in Requests : at'[c] = at[c] /\ step'[c] = step[c] /\ saw'[c] = saw[c]
      /\ at'[Worker] = IF at[Worker] = "outer" THEN "down"
                       ELSE IF at[Worker] = "prepare" THEN "inner" ELSE "outer"
  BY RequestsAssumption DEF Raises, EndAt, Goto, End, LockInv, AttemptTypeOK, Actors, Worker
<1>2. UNCHANGED <<CoreContainer, report, client, stage, Demands, row, busy, RowValues>>
  BY <1>1, OnlyWorker DEF tables, RowValues
<1>r. CoreRow' = IF at[Worker] = "outer" THEN [status |-> "offline", run |-> CoreRow.run] ELSE CoreRow
  <2>1. at[Worker] # "down"
    BY DEF Handling
  <2> QED
    BY <1>1, <1>2, <2>1 DEF CoreRow
<1>3. CoreSaw("run")' = "absent" /\ CoreSaw("job")' = "absent"
  BY <1>1 DEF CoreSaw
<1>4. at[Worker] = "run" => report = NoReport /\ client = "none"
  BY DEF RunnerInv, Course, Truthful
<1>5. CASE at[Worker] = "outer"
  BY <1>1, <1>2, <1>3, <1>r, <1>5, PcIs, PcIsNext, GoesDown DEF Handling
<1>6. CASE at[Worker] = "inner"
  <2>1. CorePc = "failing" /\ CorePc' = "failing"
    BY <1>1, <1>6, PcIs, PcIsNext DEF Handling
  <2>2. CoreSaw("run") = "absent" /\ CoreSaw("job") = "absent"
    BY <1>6 DEF CoreSaw
  <2> QED
    BY <1>2, <1>3, <1>r, <1>6, <2>1, <2>2, SystemStutters DEF Store, CoreExit
<1>7. CASE at[Worker] \notin {"inner", "outer"}
  <2>1. CorePc' = "failing"
    BY <1>1, <1>7, PcIsNext DEF Handling
  <2>2. CorePc \in {"popped", "gotRun", "picked", "prepare", "ended", "gotFinalJob", "gotFinalRun"}
    BY <1>4, <1>7, PcIs DEF Handling
  <2> QED
    BY <1>2, <1>3, <1>r, <1>7, <2>1, <2>2, Fails DEF Store
<1> QED
  BY <1>5, <1>6, <1>7

(* From place to place. *)
LEMMA WorkerProceeds ==
  ASSUME LockInv, RunnerInv, SystemInv, Prepared \/ RunnerReturned \/ Collected, UNCHANGED vars
  PROVE  UNCHANGED Core!vars
<1>1. /\ UNCHANGED <<tables, stops>>
      /\ \A c \in Requests : at'[c] = at[c] /\ step'[c] = step[c] /\ saw'[c] = saw[c]
      /\ \/ at[Worker] = "prepare" /\ at'[Worker] = "run"
         \/ at[Worker] = "run" /\ at'[Worker] = "collect" /\ report # NoReport
         \/ at[Worker] = "collect" /\ at'[Worker] = "final" /\ step'[Worker] = 1
      /\ saw'[Worker] = saw[Worker]
  BY RequestsAssumption DEF Prepared, RunnerReturned, Collected, Goto, LockInv, AttemptTypeOK, Actors,
     Worker
<1>2. UNCHANGED <<CoreContainer, CoreRow, report, client, stage, Demands, row, busy, RowValues>>
  BY <1>1, OnlyWorker, RowStays DEF tables, RowValues
<1>3. at[Worker] = "prepare" => report = NoReport /\ client = "none"
  BY DEF RunnerInv, Course, Truthful, SystemInv, Started
<1>4. CorePc' = CorePc
  BY <1>1, <1>2, <1>3, PcIs, PcIsNext
<1>5. \A r \in Rows : saw[Worker][r] = "unread"
  BY <1>1 DEF LockInv, AttemptTypeOK, Actors, Worker, InTransaction, Handling, Unread
<1>6. \A r \in JobAndRun : CoreSaw(r) = "absent" /\ CoreSaw(r)' = "absent"
  BY <1>1, <1>5 DEF CoreSaw, JobAndRun, Rows
<1> QED
  BY <1>2, <1>4, <1>6, SystemStutters DEF Store, CoreExit, JobAndRun

(* A statement of the worker that loads. *)
LEMMA WorkerSelects ==
  ASSUME RunnerInv, LockInv, SystemInv, NEW r \in Rows, SelectRow(Worker, r), UNCHANGED vars
  PROVE  Core!Next \/ UNCHANGED Core!vars
<1>1. /\ Worker \in Actors /\ Worker \notin Requests /\ Worker = "worker"
      /\ UNCHANGED <<row, busy, stops, RowValues>>
      /\ \A c \in Requests : at'[c] = at[c] /\ step'[c] = step[c] /\ saw'[c] = saw[c]
      /\ at[Worker] \in {"pickup", "final", "inner", "outer"} /\ step[Worker] \in 1..7
      /\ r \in {"job", "run", "devices"}
  BY RequestsAssumption DEF SelectRow, Goto, EndAt, End, IsAt, tables, RowValues, LockInv,
     AttemptTypeOK, Shape, Actors, Worker, InTransaction, Handling, Rows
<1>r. at'[Worker] \in {at[Worker], "idle"}
  BY <1>1 DEF SelectRow, EndAt, Goto, LockInv, AttemptTypeOK
<1>2. UNCHANGED <<CoreContainer, CoreRow, report, client, stage, Demands>>
  BY <1>1, <1>r, OnlyWorker, RowStays
<1>3. at[Worker] \in InTransaction /\ step[Worker] = SelectAt(at[Worker], r)
  BY <1>1, StatementIs DEF SelectRow, IsAt
<1>4. CASE Skipped(Worker, r)
  <2>1. /\ at[Worker] = "pickup" /\ r = "job" /\ step[Worker] = 2
        /\ "cancelled" \in {row["job"], saw[Worker]["run"]}
    BY <1>3, <1>4 DEF Skipped, SelectAt
  <2>2. at'[Worker] = "idle" /\ CorePc = "gotRun" /\ CorePc' = "idle"
    <3>1. at'[Worker] = "idle"
      BY <1>1, <1>4 DEF SelectRow, EndAt, Goto, LockInv, AttemptTypeOK
    <3> QED
      BY <2>1, <3>1, PcIs, PcIsNext
  <2>3. CoreSaw("run") = saw[Worker]["run"]
    <3>1. saw[Worker]["run"] # "unread"
      BY <1>1, <1>3, <2>1 DEF LockInv, Loaded, SelectAt, Rows
    <3> QED
      BY <2>1, <3>1 DEF CoreSaw
  <2>4. CoreSaw("run")' = "absent" /\ CoreSaw("job")' = "absent"
    BY <2>2 DEF CoreSaw
  <2> QED
    BY <1>1, <1>2, <2>1, <2>2, <2>3, <2>4, ReadsJob DEF Store
<1>5. CASE ~Skipped(Worker, r)
  <2>1. /\ at'[Worker] = at[Worker] /\ step'[Worker] = step[Worker] + 1
        /\ \A q \in Rows : saw'[Worker][q] = IF q = r THEN row[r] ELSE saw[Worker][q]
    BY <1>1, <1>5 DEF SelectRow, Goto, LockInv, AttemptTypeOK
  <2>2. \A q \in Rows : saw[Worker][q] # "unread" <=> step[Worker] > SelectAt(at[Worker], q)
    BY <1>1, <1>3 DEF LockInv, Loaded
  <2>3. row[r] # "unread"
    BY <1>1 DEF LockInv, Shape, Rows, Statuses, Terminal
  <2>4. \A q \in JobAndRun :
          CoreSaw(q)' = IF q = r /\ at[Worker] \in {"pickup", "final"} THEN row[r] ELSE CoreSaw(q)
    BY <2>1, <2>3 DEF CoreSaw, JobAndRun, Rows
  <2>5. CASE at[Worker] \in Handling
    <3>1. CorePc = "failing" /\ CorePc' = "failing"
      BY <2>1, <2>5, PcIs, PcIsNext
    <3>2. \A q \in JobAndRun : CoreSaw(q)' = CoreSaw(q)
      BY <2>4, <2>5 DEF Handling
    <3> QED
      BY <1>1, <1>2, <3>1, <3>2, SystemStutters DEF Store, CoreExit, JobAndRun
  <2>6. CASE at[Worker] = "pickup" /\ r = "run"
    <3>1. step[Worker] = 1 /\ CorePc = "popped" /\ CorePc' = "gotRun"
      BY <1>3, <2>1, <2>6, PcIs, PcIsNext DEF SelectAt
    <3> QED
      BY <1>1, <1>2, <2>4, <2>6, <3>1, ReadsRun DEF Store, CoreExit, JobAndRun
  <2>7. CASE at[Worker] = "pickup" /\ r = "job"
    <3>1. step[Worker] = 2 /\ CorePc = "gotRun" /\ CorePc' = "picked"
      BY <1>3, <2>1, <2>7, PcIs, PcIsNext DEF SelectAt
    <3>2. CoreSaw("run") = saw[Worker]["run"]
      BY <1>1, <2>2, <2>7, <3>1 DEF CoreSaw, SelectAt, Rows
    <3>3. "cancelled" \notin {row["job"], CoreSaw("run")}
      BY <1>5, <2>7, <3>2 DEF Skipped
    <3> QED
      BY <1>1, <1>2, <2>4, <2>7, <3>1, <3>3, ReadsJob DEF Store, JobAndRun
  <2>8. CASE at[Worker] = "final" /\ r = "job"
    <3>1. step[Worker] = 1 /\ CorePc = "ended" /\ CorePc' = "gotFinalJob"
      BY <1>3, <2>1, <2>8, PcIs, PcIsNext DEF SelectAt
    <3> QED
      BY <1>1, <1>2, <2>4, <2>8, <3>1, ReadsFinalJob DEF Store, CoreExit, JobAndRun
  <2>9. CASE at[Worker] = "final" /\ r = "run"
    <3>1. step[Worker] = 2 /\ CorePc = "gotFinalJob" /\ CorePc' = "gotFinalRun"
      BY <1>3, <2>1, <2>9, PcIs, PcIsNext DEF SelectAt
    <3> QED
      BY <1>1, <1>2, <2>4, <2>9, <3>1, ReadsFinalRun DEF Store, CoreExit, JobAndRun
  <2>10. CASE at[Worker] \in {"pickup", "final"} /\ r = "devices"
    <3>1. step[Worker] = 5 /\ CorePc' = CorePc
      BY <1>3, <2>1, <2>10, PcIs, PcIsNext DEF SelectAt
    <3>2. \A q \in JobAndRun : CoreSaw(q)' = CoreSaw(q)
      BY <2>4, <2>10 DEF JobAndRun
    <3> QED
      BY <1>1, <1>2, <3>1, <3>2, SystemStutters DEF Store, CoreExit, JobAndRun
  <2> QED
    BY <1>1, <2>5, <2>6, <2>7, <2>8, <2>9, <2>10 DEF Handling
<1> QED
  BY <1>4, <1>5

(* A statement of the worker that locks a row: no step of the system. *)
LEMMA WorkerUpdates ==
  ASSUME RunnerInv, LockInv, SystemInv, NEW r \in Rows, UpdateRow(Worker, r), UNCHANGED vars
  PROVE  UNCHANGED Core!vars
<1>1. /\ Worker \in Actors /\ Worker \notin Requests /\ Worker = "worker"
      /\ UNCHANGED <<row, busy, stops, RowValues, saw, at>>
      /\ \A c \in Requests : step'[c] = step[c]
      /\ step'[Worker] = step[Worker] + 1
      /\ at[Worker] \in {"pickup", "final", "inner", "outer"} /\ step[Worker] \in 1..7
  BY RequestsAssumption DEF UpdateRow, Goto, IsAt, tables, RowValues, LockInv, StopsContainer,
     AttemptTypeOK, Shape, Actors, Worker, InTransaction, Handling
<1>2. UNCHANGED <<CoreContainer, CoreRow, report, client, stage, Demands>>
  BY <1>1, OnlyWorker, RowStays
<1>3. at[Worker] \in InTransaction /\ step[Worker] = UpdateAt(at[Worker], r)
  BY <1>1, StatementIs DEF UpdateRow, IsAt
<1>4. at[Worker] \in {"pickup", "final"} => step[Worker] >= 3
  BY <1>3 DEF UpdateAt, Handling
<1>5. CorePc' = CorePc
  BY <1>1, <1>4, PcIs, PcIsNext DEF Handling
<1>6. \A q \in JobAndRun : CoreSaw(q)' = CoreSaw(q)
  BY <1>1 DEF CoreSaw
<1> QED
  BY <1>1, <1>2, <1>5, <1>6, SystemStutters DEF Store, CoreExit, JobAndRun

-----------------------------------------------------------------------------
(* The commits *)

(* A request that has flushed holds the row of the job: only the last      *)
(* transaction of a run whose job it saw cancelled commits beside it.      *)
(* That one holds the row of the run, which the request therefore saw      *)
(* over, and finds nothing to change.                                      *)
LEMMA CommitKeepsRows ==
  ASSUME LockInv, SystemInv, NEW a \in Actors, Commit(a)
  PROVE  RowsKept
<1> SUFFICES ASSUME NEW c \in Requests, CoreRequest(c).stage = "flushed",
                    CoreRequest(c)' = CoreRequest(c)
             PROVE  UNCHANGED RowValues
  BY DEF RowsKept
<1>1. /\ c \in Actors /\ Worker \in Actors /\ Worker \notin Requests /\ Worker = "worker"
      /\ at[c] = "cancel" /\ step[c] = 7 /\ saw[c]["job"] = "running"
  BY RequestsAssumption DEF CoreRequest, NoRequest, LateRequest, IsCancelling, Actors, Worker
<1>2. c # a
  <2> SUFFICES ASSUME c = a PROVE FALSE
    OBVIOUS
  <2>1. at'[c] = "idle"
    BY <1>1 DEF Commit, EndAt, Goto, LockInv, AttemptTypeOK
  <2> QED
    BY <2>1 DEF CoreRequest, NoRequest, IsCancelling
<1>3. lock["job"] = c
  BY <1>1 DEF LockInv, Locked, Rows, InTransaction, UpdateAt, Handling, Flushed
<1>4. at[a] \in InTransaction /\ step[a] > Length(at[a]) /\ step[a] \in 1..7
  BY StatementIs DEF Commit, LockInv, AttemptTypeOK, Rows
<1>5. step[a] > UpdateAt(at[a], "job") /\ "job" \in Rows /\ "run" \in Rows
  BY <1>4 DEF UpdateAt, Length, Rows, Handling, InTransaction
<1>6. at[a] = "final" /\ saw[a]["job"] = "cancelled"
  BY <1>2, <1>3, <1>4, <1>5 DEF LockInv, Locked, Flushed
<1>7. a = Worker /\ FinalStatus = "cancelled"
  BY <1>1, <1>6 DEF LockInv, Shape, Actors, FinalStatus
<1>8. lock["run"] = a
  <2>1. step[a] > UpdateAt(at[a], "run") /\ Flushed(a, "run")
    BY <1>4, <1>6 DEF UpdateAt, Length, Handling, Flushed
  <2> QED
    BY <1>4, <1>5, <2>1 DEF LockInv, Locked
<1>9. saw[c]["run"] \in Terminal
  <2>1. step[c] > UpdateAt(at[c], "run") /\ at[c] \in InTransaction
    BY <1>1 DEF UpdateAt, Handling, InTransaction
  <2>2. ~Flushed(c, "run")
    BY <1>1, <1>2, <1>5, <1>8, <2>1 DEF LockInv, Locked
  <2> QED
    BY <2>2 DEF Flushed
<1>10. row["run"] = "cancelled" /\ row["devices"] = "closed" /\ saw[a]["devices"] # "open"
  <2>1. row["run"] \in Terminal \ {"completed", "failed"}
    BY <1>1, <1>6, <1>7, <1>9 DEF SystemInv, Informed, Unfinished, JobAndRun
  <2> QED
    BY <1>1, <1>7, <2>1 DEF LockInv, OverMeansClosed, ReleasesTakeTurns, Terminal
<1>11. \A r \in JobAndRun : Outcome(a, r) = "cancelled"
  <2>1. \A r \in JobAndRun :
          Outcome(a, r) = IF saw[a][r] = "cancelled" THEN "cancelled" ELSE FinalStatus
    BY <1>6, Zenon DEF Outcome, Handling
  <2> QED
    BY <1>7, <2>1
<1>12. \A r \in JobAndRun : row'[r] \in {row[r], "cancelled"}
  BY <1>11 DEF Commit, Written, Rows, JobAndRun
<1>13. row'["job"] = row["job"]
  BY <1>6, <1>11 DEF Commit, Written, Rows, JobAndRun
<1>14. row'["devices"] = row["devices"]
  BY <1>10 DEF Commit, Written, Rows
<1> QED
  BY <1>10, <1>12, <1>13, <1>14 DEF RowValues, JobAndRun

(* The devices are closed by a commit that has looked for open ones. *)
LEMMA CommitCloses ==
  ASSUME LockInv, NEW a \in Actors, Commit(a)
  PROVE  row'["devices"] = IF at[a] \in {"pickup", "late"} THEN row["devices"] ELSE "closed"
<1>1. at[a] \in InTransaction /\ step[a] > Length(at[a]) /\ step[a] \in 1..7
  BY StatementIs DEF Commit, LockInv, AttemptTypeOK, Rows
<1>2. row'["devices"] = IF saw[a]["devices"] = "open" THEN "closed" ELSE row["devices"]
  BY DEF Commit, Written, Rows
<1>3. CASE at[a] \in {"pickup", "late"}
  <2>1. step[a] <= 5
    BY <1>1, <1>3 DEF LockInv, Shape, Length
  <2>2. saw[a]["devices"] = "unread"
    BY <1>1, <1>3, <2>1 DEF LockInv, Loaded, Rows, SelectAt
  <2> QED
    BY <1>2, <1>3, <2>2
<1>4. CASE at[a] \notin {"pickup", "late"}
  <2>1. step[a] > 5
    BY <1>1, <1>4, StatementOrder DEF Rows
  <2>2. saw[a]["devices"] \in {"open", "closed"}
    BY <1>1, <2>1 DEF LockInv, Loaded, Shape, Rows, SelectAt
  <2> QED
    BY <1>2, <1>4, <2>2 DEF LockInv, OverMeansClosed
<1> QED
  BY <1>3, <1>4

LEMMA WorkerCommits ==
  ASSUME RunnerInv, LockInv, SystemInv, Commit(Worker), UNCHANGED vars
  PROVE  Core!Next
<1>1. /\ Worker \in Actors /\ Worker \notin Requests /\ Worker = "worker"
      /\ \A c \in Requests : at'[c] = at[c] /\ step'[c] = step[c] /\ saw'[c] = saw[c]
      /\ at[Worker] \in {"pickup", "final", "inner", "outer"} /\ step[Worker] \in 1..7
      /\ step[Worker] > Length(at[Worker]) /\ UNCHANGED stops
      /\ at'[Worker] = IF at[Worker] = "pickup" THEN "prepare" ELSE "idle"
      /\ busy' = (at[Worker] = "pickup")
  BY RequestsAssumption, StatementIs DEF Commit, Goto, EndAt, End, LockInv, AttemptTypeOK, Shape,
     Actors, Worker, InTransaction, Handling, Rows
<1>2. UNCHANGED <<CoreContainer, report, client, stage, Demands>>
  BY <1>1, OnlyWorker
<1>r. CoreRow' = IF at[Worker] = "pickup" THEN [status |-> "busy", run |-> Run]
                 ELSE [status |-> "idle", run |-> NoOne]
  BY <1>1, RowIs
<1>3. RowsKept
  BY <1>1, CommitKeepsRows
<1>4. /\ row'["devices"] = IF at[Worker] = "pickup" THEN row["devices"] ELSE "closed"
      /\ \A r \in JobAndRun :
           row'[r] = IF saw[Worker][r] \in {"unread", Outcome(Worker, r)} THEN row[r] ELSE Outcome(Worker, r)
  BY <1>1, CommitCloses, CommitWrites
<1>5. CoreSaw("job")' = "absent" /\ CoreSaw("run")' = "absent"
  BY <1>1 DEF CoreSaw
<1>6. \A r \in JobAndRun : saw[Worker][r] # "unread"
  <2>1. \A r \in JobAndRun : r \in Rows /\ step[Worker] > SelectAt(at[Worker], r)
    BY <1>1 DEF JobAndRun, Rows, SelectAt, Length
  <2>2. at[Worker] \in InTransaction
    BY <1>1 DEF InTransaction, Handling
  <2> QED
    BY <1>1, <2>1, <2>2 DEF LockInv, Loaded
<1>7. CASE at[Worker] = "pickup"
  <2>1. CorePc = "picked" /\ CorePc' = "prepare"
    BY <1>1, <1>7, PcIs, PcIsNext DEF Length
  <2>2. \A r \in JobAndRun : CoreSaw(r) = saw[Worker][r] /\ Outcome(Worker, r) = "running"
    <3>1. \A r \in JobAndRun : CoreSaw(r) = saw[Worker][r]
      BY <1>6, <1>7 DEF CoreSaw
    <3>2. \A r \in JobAndRun : Outcome(Worker, r) = "running"
      BY <1>7, Zenon DEF Outcome, Handling
    <3> QED
      BY <3>1, <3>2
  <2> QED
    BY <1>1, <1>2, <1>3, <1>4, <1>5, <1>6, <1>r, <1>7, <2>1, <2>2, PicksUp DEF JobAndRun
<1>8. CASE at[Worker] = "final"
  <2>1. CorePc = "gotFinalRun" /\ CorePc' = "idle" /\ CoreExit = report
    BY <1>1, <1>8, PcIs, PcIsNext DEF Length, CoreExit
  <2>2. \A r \in JobAndRun : CoreSaw(r) = saw[Worker][r]
    BY <1>6, <1>8 DEF CoreSaw
  <2>3. CoreFinalStatus = FinalStatus
    BY <1>1, <2>1, <2>2 DEF CoreFinalStatus, FinalStatus, JobAndRun
  <2>4. \A r \in JobAndRun :
          Outcome(Worker, r) = IF saw[Worker][r] = "cancelled" THEN "cancelled" ELSE FinalStatus
    BY <1>8, Zenon DEF Outcome, Handling
  <2>5. \A r \in JobAndRun :
          row'[r] = IF CoreSaw(r) \in {"cancelled", CoreFinalStatus} THEN row[r] ELSE CoreFinalStatus
    BY <1>4, <1>6, <2>2, <2>3, <2>4
  <2> QED
    BY <1>1, <1>2, <1>3, <1>4, <1>5, <1>r, <1>8, <2>1, <2>5, Finishes
<1>9. CASE at[Worker] \in Handling
  <2>1. CorePc = "failing" /\ CorePc' = "idle"
    BY <1>1, <1>9, PcIs, PcIsNext DEF Handling
  <2>2. \A r \in JobAndRun : Outcome(Worker, r) = "failed"
    BY <1>9, Zenon DEF Outcome, Handling
  <2>3. \A r \in JobAndRun : saw[Worker][r] # "failed"
    BY <1>9 DEF SystemInv, Unfinished, Handling
  <2>4. \A r \in JobAndRun : row'[r] = "failed"
    BY <1>4, <1>6, <2>2, <2>3
  <2> QED
    BY <1>1, <1>2, <1>3, <1>4, <1>5, <1>r, <1>9, <2>1, <2>4, MarksFailed DEF Handling
<1> QED
  BY <1>1, <1>7, <1>8, <1>9 DEF Handling

-----------------------------------------------------------------------------
(* The steps of a request *)

(* They leave the worker and the other requests alone. *)
LEMMA OnlyRequest ==
  ASSUME NEW c \in Requests, UNCHANGED vars,
         \A a \in Actors \ {c} : at'[a] = at[a] /\ step'[a] = step[a] /\ saw'[a] = saw[a]
  PROVE  /\ UNCHANGED <<CoreContainer, WorkerParts>>
         /\ busy' = busy => CoreRow' = CoreRow
         /\ \A d \in Requests \ {c} : CoreRequest(d)' = CoreRequest(d)
<1>1. Worker \in Actors \ {c} /\ Requests \subseteq Actors
  BY RequestsAssumption DEF Worker, Actors
<1>2. /\ at'[Worker] = at[Worker] /\ step'[Worker] = step[Worker] /\ saw'[Worker] = saw[Worker]
      /\ report' = report /\ client' = client /\ container' = container
  BY <1>1 DEF vars
<1>3. CorePc' = CorePc
  BY <1>2, Zenon DEF CorePc
<1>4. CoreExit' = CoreExit /\ CoreSaw("run")' = CoreSaw("run") /\ CoreSaw("job")' = CoreSaw("job")
  BY <1>2, <1>3 DEF CoreExit, CoreSaw
<1>5. CoreContainer' = CoreContainer
  BY <1>2 DEF CoreContainer
<1>6. \A d \in Requests \ {c} : CoreRequest(d)' = CoreRequest(d)
  BY <1>1 DEF CoreRequest, IsCancelling
<1>7. busy' = busy => CoreRow' = CoreRow
  BY <1>2, RowStays
<1> QED
  BY <1>3, <1>4, <1>5, <1>6, <1>7 DEF WorkerParts

(* What a request in its transaction is to the system. *)
LEMMA RequestIs ==
  ASSUME NEW c \in Requests, at[c] = "cancel"
  PROVE  CoreRequest(c) =
           [stage |-> IF step[c] = 2 THEN "gotJob"
                      ELSE IF step[c] = 7 /\ saw[c]["job"] = "running" THEN "flushed" ELSE "gotRun",
            job |-> Job, sawJob |-> saw[c]["job"], run |-> Run,
            sawRun |-> IF step[c] = 2 THEN "absent" ELSE saw[c]["run"]]
  BY DEF CoreRequest, IsCancelling

LEMMA LateRequestIs ==
  ASSUME NEW c \in Requests, at[c] = "late"
  PROVE  CoreRequest(c) = LateRequest
  BY DEF CoreRequest

LEMMA RequestStarts ==
  ASSUME LockInv, NEW c \in Requests, Cancel(c), UNCHANGED vars
  PROVE  Core!Next
<1>1. /\ c \in Actors /\ UNCHANGED <<row, busy, stops, RowValues>>
      /\ \A a \in Actors \ {c} : at'[a] = at[a] /\ step'[a] = step[a] /\ saw'[a] = saw[a]
      /\ at[c] = "idle" /\ at'[c] = "cancel" /\ step'[c] = 2 /\ saw'[c]["job"] = row["job"]
      /\ row["job"] \in {"scheduled", "running"}
  BY DEF Cancel, Goto, tables, RowValues, LockInv, AttemptTypeOK, Actors, Rows
<1>2. CoreRequest(c) = NoRequest
  BY <1>1 DEF CoreRequest, IsCancelling
<1>3. CoreRequest(c)' = [stage |-> "gotJob", job |-> Job, sawJob |-> row["job"], run |-> Run,
                         sawRun |-> "absent"]
  BY <1>1 DEF CoreRequest, IsCancelling, LateRequest
<1> QED
  BY <1>1, <1>2, <1>3, OnlyRequest, RequestReadsJob DEF Store

(* A statement that loads: only that of the run is a step of the system. *)
LEMMA RequestSelects ==
  ASSUME LockInv, SystemInv, NEW c \in Requests, NEW r \in Rows, SelectRow(c, r), UNCHANGED vars
  PROVE  Core!Next \/ UNCHANGED Core!vars
<1>0. /\ c \in Actors /\ at[c] \in {"cancel", "late"} /\ step[c] \in 2..7
      /\ r \in {"job", "run", "devices"} /\ at[c] \in InTransaction
  BY DEF SelectRow, IsAt, LockInv, AttemptTypeOK, Shape, SystemInv, Informed, Actors, InTransaction,
     Handling, Rows
<1>l. at[c] # "late"
  BY <1>0, StatementIs DEF SelectRow, SelectAt, Length, Handling, Rows
<1>1. c \in Actors /\ at[c] = "cancel" /\ step[c] \in 2..7 /\ r \in {"job", "run", "devices"}
  BY <1>0, <1>l
<1>2. ~Skipped(c, r)
  BY <1>1 DEF Skipped
<1>3. /\ UNCHANGED <<row, busy, stops, RowValues>>
      /\ \A a \in Actors \ {c} : at'[a] = at[a] /\ step'[a] = step[a] /\ saw'[a] = saw[a]
      /\ at'[c] = "cancel" /\ step'[c] = step[c] + 1
      /\ \A q \in Rows : saw'[c][q] = IF q = r THEN row[r] ELSE saw[c][q]
  BY <1>1, <1>2 DEF SelectRow, Goto, tables, RowValues, LockInv, AttemptTypeOK
<1>4. step[c] = SelectAt("cancel", r)
  BY <1>1, StatementIs DEF SelectRow, IsAt, InTransaction
<1>5. CASE r = "run"
  <2>1. step[c] = 2 /\ step'[c] = 3 /\ saw'[c]["run"] = row["run"] /\ saw'[c]["job"] = saw[c]["job"]
    BY <1>3, <1>4, <1>5 DEF SelectAt, Rows
  <2>2. CoreRequest(c) = [stage |-> "gotJob", job |-> Job, sawJob |-> saw[c]["job"], run |-> Run,
                          sawRun |-> "absent"]
    BY <1>1, <2>1, RequestIs
  <2>3. CoreRequest(c)' = [stage |-> "gotRun", job |-> Job, sawJob |-> saw[c]["job"], run |-> Run,
                           sawRun |-> row["run"]]
    BY <1>3, <2>1 DEF CoreRequest, IsCancelling
  <2> QED
    BY <1>3, <2>2, <2>3, OnlyRequest, RequestReadsRun DEF Store
<1>6. CASE r = "devices"
  <2>1. step[c] = 5 /\ step'[c] = 6 /\ saw'[c]["run"] = saw[c]["run"] /\ saw'[c]["job"] = saw[c]["job"]
    BY <1>3, <1>4, <1>6 DEF SelectAt, Rows
  <2>2. CoreRequest(c)' = CoreRequest(c)
    BY <1>1, <1>3, <2>1 DEF CoreRequest, IsCancelling
  <2>3. CoreRequests' = CoreRequests
    BY <1>3, <2>2, OnlyRequest DEF CoreRequests
  <2> QED
    BY <1>3, <2>3, OnlyRequest, SystemStutters DEF Store, Demands, WorkerParts
<1>7. r # "job"
  BY <1>1, <1>4 DEF SelectAt
<1> QED
  BY <1>1, <1>5, <1>6, <1>7

(* A statement that locks: the last one creates the task that stops the    *)
(* container of a job that was running.                                    *)
LEMMA RequestUpdates ==
  ASSUME LockInv, SystemInv, NEW c \in Requests, NEW r \in Rows, UpdateRow(c, r), UNCHANGED vars,
         at[c] = "cancel"
  PROVE  Core!Next \/ UNCHANGED Core!vars
<1>1. c \in Actors /\ at[c] = "cancel" /\ step[c] \in 2..7 /\ stops \in BOOLEAN
  BY DEF UpdateRow, IsAt, LockInv, AttemptTypeOK, Shape, SystemInv, Informed, Actors, InTransaction,
     Handling
<1>2. /\ UNCHANGED <<row, busy, RowValues, saw, at>>
      /\ \A a \in Actors \ {c} : step'[a] = step[a]
      /\ step'[c] = step[c] + 1 /\ stops' = (stops \/ StopsContainer(c, r))
  BY <1>1 DEF UpdateRow, Goto, tables, RowValues, LockInv, AttemptTypeOK
<1>3. step[c] = UpdateAt("cancel", r)
  BY <1>1, StatementIs DEF UpdateRow, IsAt, InTransaction
<1>4. UNCHANGED <<CoreContainer, CoreRow, WorkerParts>>
      /\ \A d \in Requests \ {c} : CoreRequest(d)' = CoreRequest(d)
  BY <1>2, OnlyRequest
<1>5. CASE StopsContainer(c, r)
  <2>1. step[c] = 6 /\ step'[c] = 7 /\ saw[c]["job"] = "running" /\ stops' = TRUE
    <3>1. stops' = TRUE
      BY <1>2, <1>5, Zenon
    <3> QED
      BY <1>2, <1>3, <1>5, <3>1 DEF StopsContainer, UpdateAt
  <2>2. CoreRequest(c) = [stage |-> "gotRun", job |-> Job, sawJob |-> "running", run |-> Run,
                          sawRun |-> saw[c]["run"]]
    BY <1>1, <2>1, RequestIs
  <2>3. CoreRequest(c)' = [stage |-> "flushed", job |-> Job, sawJob |-> "running", run |-> Run,
                           sawRun |-> saw[c]["run"]]
    BY <1>1, <1>2, <2>1 DEF CoreRequest, IsCancelling
  <2> QED
    BY <1>2, <1>4, <2>1, <2>2, <2>3, RequestFlushes DEF Store
<1>6. CASE ~StopsContainer(c, r)
  <2>1. stops' = stops
    BY <1>1, <1>2, <1>6
  <2>2. /\ step[c] \in 3..6
        /\ step[c] = 6 => saw[c]["job"] # "running"
    BY <1>1, <1>3, <1>6 DEF StopsContainer, UpdateAt, Handling, Rows
  <2>3. CoreRequest(c)' = CoreRequest(c)
    BY <1>1, <1>2, <2>2 DEF CoreRequest, IsCancelling
  <2>4. CoreRequests' = CoreRequests
    BY <1>4, <2>3 DEF CoreRequests
  <2> QED
    BY <1>2, <1>4, <2>1, <2>4, SystemStutters DEF Store, Demands, WorkerParts
<1> QED
  BY <1>5, <1>6

(* A request that is late locks the job only: no step of the system. *)
LEMMA LateRequestUpdates ==
  ASSUME LockInv, NEW c \in Requests, NEW r \in Rows, UpdateRow(c, r), UNCHANGED vars,
         at[c] = "late"
  PROVE  UNCHANGED Core!vars
<1>1. /\ c \in Actors /\ UNCHANGED <<row, busy, RowValues, saw, at>>
      /\ \A a \in Actors \ {c} : step'[a] = step[a]
      /\ stops' = stops
  BY DEF UpdateRow, Goto, tables, RowValues, LockInv, AttemptTypeOK, StopsContainer, Actors
<1>2. CoreRequest(c)' = CoreRequest(c)
  BY <1>1, LateRequestIs DEF CoreRequest, LateRequest
<1>3. CoreRequests' = CoreRequests
  BY <1>1, <1>2, OnlyRequest DEF CoreRequests
<1> QED
  BY <1>1, <1>3, OnlyRequest, SystemStutters DEF Store, Demands, WorkerParts

LEMMA RequestEnds ==
  ASSUME LockInv, SystemInv, NEW c \in Requests, Commit(c), UNCHANGED vars, at[c] = "cancel"
  PROVE  Core!Next
<1>1. /\ c \in Actors /\ at[c] = "cancel" /\ step[c] \in 1..7 /\ step[c] > 6 /\ UNCHANGED <<stops, busy>>
      /\ \A a \in Actors \ {c} : at'[a] = at[a] /\ step'[a] = step[a] /\ saw'[a] = saw[a]
      /\ at'[c] = "idle" /\ saw[c]["job"] \in {"scheduled", "running"}
  BY StatementIs DEF Commit, Goto, EndAt, End, LockInv, AttemptTypeOK, Shape, Actors, InTransaction,
     Handling, SystemInv, Informed, Length, Rows
<1>2. RowsKept /\ row'["devices"] = "closed"
  BY <1>1, CommitKeepsRows, CommitCloses
<1>3. /\ row'["job"] = "cancelled"
      /\ row'["run"] = IF saw[c]["run"] \in Terminal THEN row["run"] ELSE "cancelled"
  BY <1>1, CancellationWrites DEF JobAndRun, Terminal
<1>4. CoreRequest(c) = [stage |-> IF saw[c]["job"] = "running" THEN "flushed" ELSE "gotRun",
                        job |-> Job, sawJob |-> saw[c]["job"], run |-> Run, sawRun |-> saw[c]["run"]]
  BY <1>1, RequestIs
<1>5. CoreRequest(c)' = NoRequest
  BY <1>1 DEF CoreRequest, NoRequest, IsCancelling
<1> QED
  BY <1>1, <1>2, <1>3, <1>4, <1>5, OnlyRequest, RequestCommits

LEMMA LateRequestEnds ==
  ASSUME LockInv, SystemInv, NEW c \in Requests, Commit(c), UNCHANGED vars, at[c] = "late"
  PROVE  Core!Next
<1>1. /\ c \in Actors /\ c # "worker" /\ UNCHANGED <<stops, busy>>
      /\ \A a \in Actors \ {c} : at'[a] = at[a] /\ step'[a] = step[a] /\ saw'[a] = saw[a]
      /\ at'[c] = "idle" /\ saw[c]["job"] = "queued"
  BY RequestsAssumption DEF Commit, Goto, EndAt, End, LockInv, AttemptTypeOK, Actors, SystemInv,
     Informed
<1>2. RowsKept /\ row'["devices"] = row["devices"]
  BY <1>1, CommitKeepsRows, CommitCloses
<1>3. row'["job"] = "cancelled" /\ row'["run"] = row["run"]
  BY <1>1, CancellationWrites DEF JobAndRun, Terminal
<1>4. CoreRequest(c) = LateRequest /\ CoreRequest(c)' = NoRequest
  BY <1>1, LateRequestIs DEF CoreRequest, IsCancelling
<1> QED
  BY <1>1, <1>2, <1>3, <1>4, OnlyRequest, RequestCommitsLate

LEMMA RequestIsAborted ==
  ASSUME LockInv, NEW c \in Requests, DeadlockAborts(c), UNCHANGED vars
  PROVE  Core!Next
<1>1. /\ c \in Actors /\ c # "worker" /\ at[c] \in {"cancel", "late"} /\ UNCHANGED <<row, stops, busy, RowValues>>
      /\ \A a \in Actors \ {c} : at'[a] = at[a] /\ step'[a] = step[a] /\ saw'[a] = saw[a]
      /\ at'[c] = "idle"
  BY RequestsAssumption DEF DeadlockAborts, Deadlock, WaitsFor, IsAt, Goto, EndAt, End, LockInv,
     AttemptTypeOK, Shape, Actors, InTransaction, Handling, tables, RowValues
<1>2. CoreRequest(c) # NoRequest
  BY <1>1, RequestIs, LateRequestIs DEF NoRequest, LateRequest
<1>3. CoreRequest(c)' = NoRequest
  BY <1>1 DEF CoreRequest, NoRequest, IsCancelling
<1> QED
  BY <1>1, <1>2, <1>3, OnlyRequest, RequestAborts DEF Store

-----------------------------------------------------------------------------
(* The system does what the attempt does: a proof for every number of      *)
(* requests that its transactions, which read and commit in single steps,  *)
(* lose no behaviour of the statements and row locks of the database, nor  *)
(* its container any of the runner.                                        *)
LEMMA AttemptStep ==
  ASSUME RunnerInv, LockInv, HandledInv, SystemInv, [AttemptNext]_allVars
  PROVE  [Core!Next]_(Core!vars)
<1>1. CASE UNCHANGED allVars
  <2>1. UNCHANGED <<vars, row, busy, at, step, saw, stops, client, report, container>>
    BY <1>1 DEF allVars, attemptVars, tables, vars
  <2>2. CorePc' = CorePc
    BY <2>1, Zenon DEF CorePc
  <2> QED
    BY <2>1, <2>2, SystemStutters
       DEF Store, Demands, RowValues, CoreContainer, CoreRequests, CoreRequest, IsCancelling, CoreSaw,
           CoreExit, CoreRow
<1>2. CASE Called(Environment) \/ Called(Runner) \/ Called(Readers)
  BY <1>2, RunnerMoves DEF Called, Next, Worker
<1>3. CASE StopContainer
  BY <1>3, StopMoves
<1>4. ASSUME Statement(Worker), UNCHANGED vars PROVE [Core!Next]_(Core!vars)
  <2>1. CASE DeadlockAborts(Worker)
    <3>1. at[Worker] \in {"pickup", "final", "inner", "outer"}
      BY <2>1 DEF DeadlockAborts, Deadlock, WaitsFor, IsAt, LockInv, Shape, InTransaction, Handling,
         Worker
    <3> QED
      BY <1>4, <2>1, <3>1, WorkerFails DEF DeadlockAborts, Worker
  <2> QED
    BY <1>4, <2>1, WorkerSelects, WorkerUpdates, WorkerCommits DEF Statement
<1>5. ASSUME NEW c \in Requests, Cancel(c) \/ Statement(c), UNCHANGED vars
      PROVE  [Core!Next]_(Core!vars)
  <2>1. Statement(c) => at[c] \in {"cancel", "late"}
    BY DEF Statement, SelectRow, UpdateRow, Commit, DeadlockAborts, Deadlock, WaitsFor, IsAt, LockInv,
       Shape, Actors, InTransaction, Handling
  <2> QED
    BY <1>5, <2>1, RequestStarts, RequestSelects, RequestUpdates, LateRequestUpdates, RequestEnds,
       LateRequestEnds, RequestIsAborted DEF Statement
<1>6. CASE Database
  <2>1. CASE ExecuteRaises
    BY <1>6, <2>1, WorkerFails DEF ExecuteRaises, Database, Worker
  <2>2. CASE WorkerGoesOn
    BY <1>4, <1>6, <2>2, WorkerProceeds DEF WorkerGoesOn, Database, Worker
  <2> QED
    BY <1>5, <1>6, <2>1, <2>2 DEF Database
<1> QED
  BY <1>1, <1>2, <1>3, <1>6 DEF AttemptNext

THEOREM AttemptsAreOfSystem == AttemptSpec => AttemptIsOfSystem
<1>1. AttemptInit => HandledInv /\ SystemInv
  BY HandledInitInv, SystemInitInv
<1>2. RunnerInv /\ LockInv /\ HandledInv /\ SystemInv /\ [AttemptNext]_allVars
        => (HandledInv /\ SystemInv)'
  BY HandledNextInv, SystemNextInv
<1>3. RunnerInv /\ LockInv /\ HandledInv /\ SystemInv /\ [AttemptNext]_allVars
        => [Core!Next]_(Core!vars)
  BY AttemptStep
<1> QED
  BY <1>1, <1>2, <1>3, LockInvariance, PTL DEF AttemptSpec, AttemptIsOfSystem
=============================================================================
