---------------------------- MODULE DockerRunner ----------------------------
(***************************************************************************)
(* DockerRunner.run of app/services/docker_runner.py for one run: the      *)
(* `docker run` client process, its two pipes, the two reader tasks that   *)
(* copy them to the log files, the time limit and the best-effort removal  *)
(* of the container.  The program in the container writes to the pipes     *)
(* through the client and blocks when a pipe is full.  Output is counted   *)
(* in chunks: what one stream.read returns.                                *)
(***************************************************************************)
EXTENDS Integers

CONSTANTS
  Streams,    \* stdout and stderr
  MaxChunks,  \* bound on the chunks that the program writes to a stream
  Plans,      \* what programs write: chunks for each stream
  PipeSize,   \* chunks that a pipe holds
  Faults,     \* the failures of the environment that may happen
  NoReport    \* the runner has not returned yet

FaultKinds == {"spawn", "create", "disk", "rm"}

ASSUME StreamsAssumption == Streams # {}
ASSUME SizesAssumption == MaxChunks \in Nat /\ PipeSize \in Nat \ {0}
ASSUME PlansAssumption == Plans \subseteq [Streams -> 0..MaxChunks]
ASSUME FaultsAssumption == Faults \subseteq FaultKinds
ASSUME NoReportAssumption == NoReport \notin {"ok", "err"}

VARIABLES
  limit,      \* max_runtime_seconds is set
  endless,    \* the program never ends by itself
  plan,       \* chunks that the program writes to each stream
  written,    \* chunks that it has written
  container,  \* the container: "none", "up", or how it ended
  client,     \* the `docker run` process, and its exit code
  pipe,       \* chunks in each pipe
  reader,     \* the reader task of each stream
  file,       \* chunks in stdout.log and stderr.log
  combined,   \* chunks of each stream in combined.log
  stage,      \* where run() is
  timedOut,   \* timed_out
  report      \* exit_code of the RunResult, zero ("ok") or not ("err")

program == <<limit, endless, plan>>
output == <<written, pipe>>
logs == <<file, combined>>
vars == <<program, output, container, client, reader, logs, stage, timedOut, report>>

Codes == {"ok", "err"}
Stages == {"spawn", "waiting", "removing", "removed", "reaping", "closing",
           "raised", "cleanup", "failed", "returned"}

TypeOK ==
  /\ limit \in BOOLEAN /\ endless \in BOOLEAN
  /\ plan \in [Streams -> 0..MaxChunks]
  /\ written \in [Streams -> 0..MaxChunks]
  /\ container \in {"none", "up"} \cup Codes
  /\ client \in {"none", "up"} \cup Codes
  /\ pipe \in [Streams -> 0..PipeSize]
  /\ reader \in [Streams -> {"none", "reading", "done"}]
  /\ file \in [Streams -> Nat] /\ combined \in [Streams -> Nat]
  /\ stage \in Stages
  /\ timedOut \in BOOLEAN
  /\ report \in Codes \cup {NoReport}

Init ==
  /\ limit \in BOOLEAN /\ endless \in BOOLEAN
  /\ plan \in Plans
  /\ written = [s \in Streams |-> 0]
  /\ container = "none" /\ client = "none"
  /\ pipe = [s \in Streams |-> 0]
  /\ reader = [s \in Streams |-> "none"]
  /\ file = [s \in Streams |-> 0] /\ combined = [s \in Streams |-> 0]
  /\ stage = "spawn"
  /\ timedOut = FALSE
  /\ report = NoReport

-----------------------------------------------------------------------------
(* Docker and the program *)

(* The client has the daemon create and start the container. *)
CreateContainer ==
  /\ client = "up" /\ container = "none"
  /\ container' = "up"
  /\ UNCHANGED <<program, output, client, reader, logs, stage, timedOut, report>>

(* Without a client the output only reaches the log of the daemon. *)
Write(s) ==
  /\ container = "up" /\ written[s] < plan[s]
  /\ client = "up" => pipe[s] < PipeSize
  /\ written' = [written EXCEPT ![s] = @ + 1]
  /\ pipe' = IF client = "up" THEN [pipe EXCEPT ![s] = @ + 1] ELSE pipe
  /\ UNCHANGED <<program, container, client, reader, logs, stage, timedOut, report>>

ProgramEnds ==
  /\ container = "up" /\ ~endless /\ written = plan
  /\ container' \in Codes
  /\ UNCHANGED <<program, output, client, reader, logs, stage, timedOut, report>>

(* A cancellation, or the memory limit, ends the container from outside. *)
Stopped ==
  /\ container = "up"
  /\ container' = "err"
  /\ UNCHANGED <<program, output, client, reader, logs, stage, timedOut, report>>

(* The client ends with the exit code of the container, or because the     *)
(* daemon refuses to create one.                                           *)
ClientExits ==
  /\ client = "up"
  /\ \/ container \in Codes /\ client' = container
     \/ "create" \in Faults /\ container = "none" /\ client' = "err"
  /\ UNCHANGED <<program, output, container, reader, logs, stage, timedOut, report>>

-----------------------------------------------------------------------------
(* run() up to the wait, and the reader tasks *)

Spawn ==
  /\ stage = "spawn"
  /\ \/ /\ client' = "up"
        /\ reader' = [s \in Streams |-> "reading"]
        /\ stage' = "waiting"
     \/ /\ "spawn" \in Faults
        /\ stage' = "cleanup"
        /\ UNCHANGED <<client, reader>>
     \/ /\ "disk" \in Faults  \* a log file cannot be opened
        /\ client' = "up"
        /\ stage' = "cleanup"
        /\ UNCHANGED reader
  /\ UNCHANGED <<program, output, container, logs, timedOut, report>>

(* Mutant of Read: one stream is read to its end before the other. *)
ReadInTurn(s) ==
  /\ reader[s] = "reading" /\ pipe[s] > 0
  /\ \A t \in Streams \ {s} : reader[t] = "done" \/ s = CHOOSE u \in Streams : TRUE
  /\ pipe' = [pipe EXCEPT ![s] = @ - 1]
  /\ file' = [file EXCEPT ![s] = @ + 1]
  /\ combined' = [combined EXCEPT ![s] = @ + 1]
  /\ UNCHANGED <<program, written, container, client, reader, stage, timedOut, report>>

(* A chunk goes to the file of the stream and to the combined file, *)
(* without an await in between.                                      *)
Read(s) ==
  /\ reader[s] = "reading" /\ pipe[s] > 0
  /\ pipe' = [pipe EXCEPT ![s] = @ - 1]
  /\ file' = [file EXCEPT ![s] = @ + 1]
  /\ combined' = [combined EXCEPT ![s] = @ + 1]
  /\ UNCHANGED <<program, written, container, client, reader, stage, timedOut, report>>

(* A write fails: in the file of the stream, or only in the combined one. *)
ReadRaises(s) ==
  /\ "disk" \in Faults
  /\ stage = "waiting" /\ reader[s] = "reading" /\ pipe[s] > 0
  /\ pipe' = [pipe EXCEPT ![s] = @ - 1]
  /\ file' \in {file, [file EXCEPT ![s] = @ + 1]}
  /\ reader' = [reader EXCEPT ![s] = "done"]
  /\ stage' = "raised"
  /\ UNCHANGED <<program, written, container, client, combined, timedOut, report>>

(* The pipe is at its end once the client is gone. *)
EndOfStream(s) ==
  /\ reader[s] = "reading" /\ pipe[s] = 0 /\ client # "up"
  /\ reader' = [reader EXCEPT ![s] = "done"]
  /\ UNCHANGED <<program, output, container, client, logs, stage, timedOut, report>>

-----------------------------------------------------------------------------
(* The wait, the time limit and what follows it *)

(* Mutant of AllDone: only the process is awaited. *)
AllDoneByProcess == client # "up"

(* What asyncio.gather waits for. *)
AllDone == client # "up" /\ \A s \in Streams : reader[s] = "done"

Gathered ==
  /\ stage = "waiting" /\ AllDone
  /\ stage' = "closing"
  /\ UNCHANGED <<program, output, container, client, reader, logs, timedOut, report>>

(* wait_for cancels the readers and the wait for the process. *)
TimeLimit ==
  /\ stage = "waiting" /\ limit /\ ~AllDone
  /\ reader' = [s \in Streams |-> "done"]
  /\ timedOut' = TRUE
  /\ stage' = "removing"
  /\ UNCHANGED <<program, output, container, client, logs, report>>

(* docker rm -f: no effect on a container that is not there (yet). *)
ForceRemove ==
  \/ container' = IF container = "up" THEN "err" ELSE container
  \/ "rm" \in Faults /\ UNCHANGED container

RemoveAfterLimit ==
  /\ stage = "removing"
  /\ ForceRemove
  /\ stage' = "removed"
  /\ UNCHANGED <<program, output, client, reader, logs, timedOut, report>>

(* Mutant of Kill: the removal is trusted to end the client. *)
KillIsSkipped ==
  /\ stage = "removed"
  /\ stage' = "reaping"
  /\ UNCHANGED <<program, output, container, client, reader, logs, timedOut, report>>

(* process.kill(): nothing happens to a client that has ended. *)
Kill ==
  /\ stage = "removed"
  /\ client' = IF client = "up" THEN "err" ELSE client
  /\ stage' = "reaping"
  /\ UNCHANGED <<program, output, container, reader, logs, timedOut, report>>

Reap ==
  /\ stage = "reaping" /\ client # "up"
  /\ stage' = "closing"
  /\ UNCHANGED <<program, output, container, client, reader, logs, timedOut, report>>

(* Mutants of ExitCode: zero is taken for a missing code, a missing code   *)
(* for zero, or the signal of the killed client is reported as it is.      *)
ExitCodeOrMinusOne == "err"
ExitCodeOrZero == IF timedOut THEN "ok" ELSE client
ExitCodeOrSignal == IF timedOut THEN "killed" ELSE client

ExitCode == client

(* The files are closed and the result is made. *)
Return ==
  /\ stage = "closing"
  /\ report' = ExitCode
  /\ stage' = "returned"
  /\ UNCHANGED <<program, output, container, client, reader, logs, timedOut>>

(* An exception of a reader: the tasks are cancelled, the files closed. *)
CloseAfterError ==
  /\ stage = "raised"
  /\ reader' = [s \in Streams |-> "done"]
  /\ stage' = "cleanup"
  /\ UNCHANGED <<program, output, container, client, logs, timedOut, report>>

(* ... and the handler removes the container; the client is left alone. *)
RemoveAfterError ==
  /\ stage = "cleanup"
  /\ ForceRemove
  /\ stage' = "failed"
  /\ UNCHANGED <<program, output, client, reader, logs, timedOut, report>>

ReturnAfterError ==
  /\ stage = "failed"
  /\ report' = "err"
  /\ stage' = "returned"
  /\ UNCHANGED <<program, output, container, client, reader, logs, timedOut>>

-----------------------------------------------------------------------------
Environment ==
  CreateContainer \/ (\E s \in Streams : Write(s)) \/ ProgramEnds \/ Stopped \/ ClientExits

Runner ==
  \/ Spawn \/ Gathered \/ TimeLimit \/ RemoveAfterLimit \/ Kill \/ Reap \/ Return
  \/ CloseAfterError \/ RemoveAfterError \/ ReturnAfterError

Readers == \E s \in Streams : Read(s) \/ ReadRaises(s) \/ EndOfStream(s)

Next == Environment \/ Runner \/ Readers

Spec == Init /\ [][Next]_vars

(* The event loop runs every task that can go on, and the timer; Docker    *)
(* creates containers and ends clients; a program that is not blocked goes *)
(* on.  Nothing ends an endless program from outside.                      *)
Fairness ==
  /\ WF_vars(CreateContainer) /\ WF_vars(ProgramEnds) /\ WF_vars(ClientExits)
  /\ WF_vars(Runner)
  /\ \A s \in Streams :
       WF_vars(Write(s)) /\ WF_vars(Read(s)) /\ WF_vars(EndOfStream(s))

FairSpec == Spec /\ Fairness

-----------------------------------------------------------------------------
(* Properties *)

(* When run() returns without a timeout and without an exception, the log  *)
(* files hold everything that the program wrote: nothing is left in a pipe *)
(* when the readers are cancelled and the files are closed.                *)
LogsComplete ==
  stage = "closing" /\ ~timedOut =>
    /\ file = written
    /\ combined = written

(* A run that was neither interrupted by its time limit nor by an          *)
(* exception is reported successful exactly when its container was.        *)
ExitCodeTruthful ==
  [][stage = "closing" /\ stage' = "returned" /\ ~timedOut =>
       (report' = "ok" <=> container = "ok")]_vars

(* Everything run() started is over when it returns: the container does    *)
(* not run, and no client is left that could still create it.              *)
NothingLeftBehind ==
  stage = "returned" => container # "up" /\ (container = "none" => client # "up")

(* run() returns when the program ends, however much it writes, and at     *)
(* any rate when there is a time limit.                                    *)
RunEnds == (stage # "spawn" /\ (limit \/ ~endless)) ~> stage = "returned"

Contract == INSTANCE RunnerContract
ContractSpec == Contract!Spec
=============================================================================
