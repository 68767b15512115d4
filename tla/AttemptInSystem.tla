-------------------------- MODULE AttemptInSystem ---------------------------
(***************************************************************************)
(* RunAttempt as a part of GpuScheduler: one job with one device and one   *)
(* run, which one worker has popped.  The system takes each transaction in *)
(* two or three steps and the runner in two; here every step of the        *)
(* detailed model is shown to be one of the system, or none.               *)
(***************************************************************************)
EXTENDS RunAttempt

Job == "job"
Device == "device"
Run == <<Job, 1>>
Worker == "worker"
Queue == "default"

ASSUME NoOneAssumption == NoOne # Run

IsCancelling(c) == at[c] = "cancel"

(* The program counter of the worker in the system. *)
CorePc ==
  CASE at[Worker] = "pickup" ->
         IF step[Worker] = 1 THEN "popped" ELSE IF step[Worker] = 2 THEN "gotRun" ELSE "picked"
    [] at[Worker] = "run" ->
         IF report # NoReport THEN "ended" ELSE IF client = "none" THEN "prepare" ELSE "docker"
    [] at[Worker] = "collect" -> "ended"
    [] at[Worker] = "final" ->
         IF step[Worker] = 1 THEN "ended"
         ELSE IF step[Worker] = 2 THEN "gotFinalJob" ELSE "gotFinalRun"
    [] at[Worker] \in Handling -> "failing"
    [] OTHER -> at[Worker]

CoreSaw(r) ==
  IF at[Worker] \in {"pickup", "final"} /\ saw[Worker][r] # "unread" THEN saw[Worker][r]
  ELSE "absent"
CoreHand == IF CorePc \in {"idle", "down"} THEN NoOne ELSE Run
CoreExit == IF CorePc \in {"ended", "gotFinalJob", "gotFinalRun"} THEN report ELSE "err"
CoreRow ==
  [status |-> IF at[Worker] = "down" THEN "offline" ELSE IF busy THEN "busy" ELSE "idle",
   run |-> IF busy THEN Run ELSE NoOne]

(* The container of the system is starting from the spawn of the client;   *)
(* it has failed when the client ends without having created one.          *)
CoreContainer ==
  IF client = "none" THEN "none"
  ELSE IF container # "none" THEN container
  ELSE IF client = "up" THEN "starting" ELSE "err"

NoRequest == [stage |-> "idle", job |-> "none", sawJob |-> "absent",
              run |-> NoOne, sawRun |-> "absent"]
LateRequest == [stage |-> "gotRun", job |-> Job, sawJob |-> "queued",
                run |-> NoOne, sawRun |-> "absent"]
CoreRequest(c) ==
  IF at[c] = "late" THEN LateRequest
  ELSE IF ~IsCancelling(c) THEN NoRequest
  ELSE [stage |-> IF step[c] = 2 THEN "gotJob"
                  ELSE IF step[c] = 7 /\ saw[c]["job"] = "running" THEN "flushed" ELSE "gotRun",
        job |-> Job, sawJob |-> saw[c]["job"], run |-> Run,
        sawRun |-> IF step[c] = 2 THEN "absent" ELSE saw[c]["run"]]

CoreRequests == [c \in Requests |-> CoreRequest(c)]

Core == INSTANCE GpuScheduler WITH
  Jobs <- {Job}, Gpus <- {Device}, Workers <- {Worker}, Clients <- Requests, Queues <- {Queue},
  Need <- [j \in {Job} |-> 1], Orders <- {[j \in {Job} |-> 1]}, QueueOf <- [j \in {Job} |-> Queue],
  ListensOn <- [w \in {Worker} |-> Queue], MaxAttempts <- 1, AdminStatuses <- {},
  Faults <- {"raise", "crash", "miss"}, NoRun <- NoOne,
  jobStatus <- [j \in {Job} |-> row["job"]],
  latest <- [j \in {Job} |-> Run],
  runStatus <- [r \in {Run} |-> row["run"]],
  granted <- [r \in {Run} |-> {Device}],
  held <- [r \in {Run} |-> IF row["devices"] = "open" THEN {Device} ELSE {}],
  gpuOwner <- [g \in {Device} |-> IF row["devices"] = "open" THEN Run ELSE NoOne],
  workerRow <- [w \in {Worker} |-> CoreRow],
  queue <- [q \in {Queue} |-> <<>>],
  container <- [r \in {Run} |-> CoreContainer],
  pending <- {}, order <- [j \in {Job} |-> 1],
  batch <- {}, found <- [j \in {} |-> {}], missed <- [j \in {} |-> {}],
  pc <- [w \in {Worker} |-> CorePc], hand <- [w \in {Worker} |-> CoreHand],
  sawRun <- [w \in {Worker} |-> CoreSaw("run")], sawJob <- [w \in {Worker} |-> CoreSaw("job")],
  exit <- [w \in {Worker} |-> CoreExit],
  request <- CoreRequests,
  stops <- IF stops THEN {Run} ELSE {}

(* Whatever transactions, locks, deadlocks, runner and container do, they  *)
(* do as a sequence of steps of the system: reading and committing without *)
(* row locks, as its workers do, loses no behaviour of the database.       *)
AttemptIsOfSystem == [][Core!Next]_(Core!vars)
=============================================================================
