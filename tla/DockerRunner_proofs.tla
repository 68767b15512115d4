------------------------ MODULE DockerRunner_proofs -------------------------
(***************************************************************************)
(* Proofs about DockerRunner, for any number of streams, any amount of     *)
(* output, any size of the pipes and every combination of faults.          *)
(***************************************************************************)
EXTENDS DockerRunner, TLAPS

(* Neither the time limit nor an exception has interrupted the run. *)
Undisturbed == stage = "waiting" \/ (stage = "closing" /\ ~timedOut)

(* What an undisturbed run has written is in the log files or in a pipe. *)
Conserved ==
  Undisturbed => \A s \in Streams : file[s] + pipe[s] = written[s] /\ combined[s] = file[s]

(* A reader of an undisturbed run stops at the end of its pipe, and the    *)
(* pipe has an end only when nothing writes to it any more; a client that  *)
(* has ended by itself tells how the container ended, if there was one.    *)
Drained ==
  Undisturbed =>
    /\ client # "none"
    /\ client # "up" => container # "up" /\ (client = "ok" <=> container = "ok")
    /\ \A s \in Streams : reader[s] # "none"
    /\ \A s \in Streams : reader[s] = "done" => pipe[s] = 0 /\ client # "up"
    /\ stage = "closing" => \A s \in Streams : reader[s] = "done"

(* Where run() stands in its course. *)
Course ==
  /\ stage = "spawn" =>
       /\ client = "none" /\ container = "none" /\ ~timedOut
       /\ \A s \in Streams : file[s] = 0 /\ combined[s] = 0 /\ pipe[s] = 0 /\ written[s] = 0
  /\ stage = "waiting" => ~timedOut
  /\ stage \in {"removing", "removed", "reaping"} => timedOut /\ client # "none"
  /\ stage = "closing" => client \in Codes

(* A client or a report of success speaks of a container that succeeded. *)
Truthful ==
  /\ client = "ok" => container = "ok"
  /\ stage # "returned" => report = NoReport

RunnerInv == TypeOK /\ Conserved /\ Drained /\ Course /\ Truthful

(* The initial states satisfy the invariant. *)
LEMMA RunnerInitInv == Init => RunnerInv
<1> SUFFICES ASSUME Init PROVE RunnerInv
  OBVIOUS
<1>1. TypeOK
  <2>1. 0 \in 0..MaxChunks /\ 0 \in 0..PipeSize
    BY SizesAssumption
  <2> QED
    BY <2>1, PlansAssumption DEF Init, TypeOK, Stages, Codes
<1>2. Conserved /\ Drained /\ Truthful
  BY DEF Init, Conserved, Drained, Truthful, Undisturbed
<1>3. Course
  BY DEF Init, Course
<1> QED
  BY <1>1, <1>2, <1>3 DEF RunnerInv

(* What the environment does keeps the invariant. *)
LEMMA EnvironmentKeepsInv ==
  ASSUME RunnerInv, Environment PROVE RunnerInv'
<1> USE SizesAssumption DEF RunnerInv, Codes, Stages, program, output, logs
<1>1. CASE CreateContainer
  BY <1>1 DEF CreateContainer, TypeOK, Conserved, Drained, Course, Truthful, Undisturbed
<1>2. ASSUME NEW s \in Streams, Write(s) PROVE RunnerInv'
  <2> USE <1>2 DEF Write
  <2>1. TypeOK'
    BY DEF TypeOK
  <2>2. Undisturbed => client = "up"
    BY DEF Drained, TypeOK
  <2>3. Conserved'
    BY <2>2 DEF TypeOK, Conserved, Undisturbed
  <2>4. Drained' /\ Course' /\ Truthful'
    BY <2>2 DEF TypeOK, Drained, Course, Truthful, Undisturbed
  <2> QED BY <2>1, <2>3, <2>4
<1>3. CASE ProgramEnds
  BY <1>3 DEF ProgramEnds, TypeOK, Conserved, Drained, Course, Truthful, Undisturbed
<1>4. CASE Stopped
  BY <1>4 DEF Stopped, TypeOK, Conserved, Drained, Course, Truthful, Undisturbed
<1>5. CASE ClientExits
  BY <1>5 DEF ClientExits, TypeOK, Conserved, Drained, Course, Truthful, Undisturbed
<1> QED
  BY <1>1, <1>2, <1>3, <1>4, <1>5 DEF Environment

(* What the reader tasks do keeps the invariant. *)
LEMMA ReadersKeepInv ==
  ASSUME RunnerInv, NEW s \in Streams, Read(s) \/ ReadRaises(s) \/ EndOfStream(s)
  PROVE RunnerInv'
<1> USE SizesAssumption DEF RunnerInv, Codes, Stages, program, output, logs
<1>1. CASE Read(s)
  <2> USE <1>1 DEF Read
  <2>1. TypeOK'
    BY DEF TypeOK
  <2>2. Conserved'
    BY DEF TypeOK, Conserved, Undisturbed
  <2>3. Drained' /\ Course' /\ Truthful'
    BY DEF TypeOK, Drained, Course, Truthful, Undisturbed
  <2> QED BY <2>1, <2>2, <2>3
<1>2. CASE ReadRaises(s)
  BY <1>2 DEF ReadRaises, TypeOK, Conserved, Drained, Course, Truthful, Undisturbed
<1>3. CASE EndOfStream(s)
  BY <1>3 DEF EndOfStream, TypeOK, Conserved, Drained, Course, Truthful, Undisturbed
<1> QED
  BY <1>1, <1>2, <1>3

(* What run() itself does keeps the invariant. *)
LEMMA RunKeepsInv ==
  ASSUME RunnerInv, Runner PROVE RunnerInv'
<1> USE SizesAssumption DEF RunnerInv, Codes, Stages, program, output, logs
<1>1. CASE Spawn
  BY <1>1 DEF Spawn, TypeOK, Conserved, Drained, Course, Truthful, Undisturbed
<1>2. CASE Gathered
  BY <1>2 DEF Gathered, AllDone, TypeOK, Conserved, Drained, Course, Truthful, Undisturbed
<1>3. CASE TimeLimit
  BY <1>3 DEF TimeLimit, TypeOK, Conserved, Drained, Course, Truthful, Undisturbed
<1>4. CASE RemoveAfterLimit \/ RemoveAfterError
  BY <1>4 DEF RemoveAfterLimit, RemoveAfterError, ForceRemove, TypeOK, Conserved, Drained, Course,
     Truthful, Undisturbed
<1>5. CASE Kill
  BY <1>5 DEF Kill, TypeOK, Conserved, Drained, Course, Truthful, Undisturbed
<1>6. CASE Reap
  BY <1>6 DEF Reap, TypeOK, Conserved, Drained, Course, Truthful, Undisturbed
<1>7. CASE Return
  <2>1. client \in Codes
    BY <1>7 DEF Return, Course
  <2> QED
    BY <1>7, <2>1 DEF Return, ExitCode, TypeOK, Conserved, Drained, Course, Truthful, Undisturbed
<1>8. CASE CloseAfterError \/ ReturnAfterError
  BY <1>8 DEF CloseAfterError, ReturnAfterError, TypeOK, Conserved, Drained, Course, Truthful,
     Undisturbed
<1> QED
  BY <1>1, <1>2, <1>3, <1>4, <1>5, <1>6, <1>7, <1>8 DEF Runner

(* Every step keeps the invariant. *)
LEMMA RunnerNextInv == RunnerInv /\ [Next]_vars => RunnerInv'
<1>1. CASE UNCHANGED vars
  BY <1>1 DEF vars, program, output, logs, RunnerInv, TypeOK, Conserved, Drained, Course, Truthful,
     Undisturbed
<1> QED
  BY <1>1, EnvironmentKeepsInv, ReadersKeepInv, RunKeepsInv DEF Next, Readers

(* The invariant holds for ever. *)
THEOREM RunnerInvariance == Spec => []RunnerInv
  BY RunnerInitInv, RunnerNextInv, PTL DEF Spec

(* Every reachable state of a run is well typed. *)
THEOREM RunnerTypeCorrect == Spec => []TypeOK
<1>1. RunnerInv => TypeOK
  BY DEF RunnerInv
<1> QED
  BY <1>1, RunnerInvariance, PTL

(* A run that neither its time limit nor an exception interrupted has the  *)
(* whole output of the program in its log files when it closes them.       *)
THEOREM LogsAreComplete == Spec => []LogsComplete
<1>1. RunnerInv => LogsComplete
  <2> SUFFICES ASSUME RunnerInv, stage = "closing", ~timedOut
               PROVE file = written /\ combined = written
    BY DEF LogsComplete
  <2>1. \A s \in Streams : file[s] = written[s] /\ combined[s] = written[s]
    <3> SUFFICES ASSUME NEW s \in Streams
                 PROVE file[s] = written[s] /\ combined[s] = written[s]
      OBVIOUS
    <3>1. Undisturbed
      BY DEF Undisturbed
    <3>2. pipe[s] = 0 /\ file[s] + pipe[s] = written[s] /\ combined[s] = file[s]
      BY <3>1 DEF RunnerInv, Drained, Conserved
    <3>3. file[s] \in Nat
      BY DEF RunnerInv, TypeOK
    <3>4. file[s] + 0 = file[s]
      BY <3>3
    <3> QED
      BY <3>2, <3>4
  <2>2. /\ file = [s \in Streams |-> file[s]]
        /\ combined = [s \in Streams |-> combined[s]]
        /\ written = [s \in Streams |-> written[s]]
    BY DEF RunnerInv, TypeOK
  <2> QED
    BY <2>1, <2>2
<1> QED
  BY <1>1, RunnerInvariance, PTL

(* When neither the time limit nor an exception has come in between, what  *)
(* run() returns is how the container ended: no other end, such as that of *)
(* a killed client, is ever taken for it.                                  *)
THEOREM ExitCodesAreTruthful == Spec => ExitCodeTruthful
<1> DEFINE Truth == stage = "closing" /\ stage' = "returned" /\ ~timedOut =>
                      (report' = "ok" <=> container = "ok")
<1>1. ASSUME RunnerInv, [Next]_vars, stage = "closing", stage' = "returned", ~timedOut
      PROVE  report' = "ok" <=> container = "ok"
  <2>1. Return
    BY <1>1 DEF Next, Environment, Readers, Runner, CreateContainer, Write, ProgramEnds, Stopped,
       ClientExits, Read, ReadRaises, EndOfStream, Spawn, Gathered, TimeLimit, RemoveAfterLimit, Kill,
       Reap, CloseAfterError, RemoveAfterError, ReturnAfterError, vars
  <2>2. client # "up" /\ (client = "ok" <=> container = "ok")
    BY <1>1 DEF RunnerInv, Drained, Undisturbed, Course, Codes
  <2> QED
    BY <2>1, <2>2 DEF Return, ExitCode
<1>2. RunnerInv /\ [Next]_vars => [Truth]_vars
  BY <1>1
<1> QED
  BY <1>2, RunnerInvariance, PTL DEF Spec, ExitCodeTruthful

(* What run() has brought to its end by itself is over: no client could    *)
(* still create a container, and none is up.                               *)
LeftNothing ==
  /\ stage # "raised"
  /\ ~timedOut /\ stage \in {"closing", "cleanup", "failed", "returned"} =>
       client # "up" /\ container # "up"

LEMMA LeftNothingKept ==
  ASSUME "disk" \notin Faults, RunnerInv, LeftNothing, [Next]_vars
  PROVE  LeftNothing'
<1> USE DEF LeftNothing
<1>1. CASE Environment
  BY <1>1 DEF Environment, CreateContainer, Write, ProgramEnds, Stopped, ClientExits, Codes
<1>2. CASE Readers
  BY <1>2 DEF Readers, Read, ReadRaises, EndOfStream
<1>3. CASE Spawn
  BY <1>3 DEF Spawn, RunnerInv, Course
<1>4. CASE Gathered
  BY <1>4 DEF Gathered, AllDone, RunnerInv, Drained, Undisturbed
<1>5. CASE TimeLimit \/ RemoveAfterLimit \/ Kill \/ Reap
  BY <1>5 DEF TimeLimit, RemoveAfterLimit, Kill, Reap, RunnerInv, Course
<1>6. CASE Return \/ ReturnAfterError \/ CloseAfterError
  BY <1>6 DEF Return, ReturnAfterError, CloseAfterError
<1>7. CASE RemoveAfterError
  BY <1>7 DEF RemoveAfterError, ForceRemove
<1>8. CASE UNCHANGED vars
  BY <1>8 DEF vars
<1> QED
  BY <1>1, <1>2, <1>3, <1>4, <1>5, <1>6, <1>7, <1>8 DEF Next, Runner

(* Only a time limit, or an exception while the log files are written, can *)
(* leave a container behind: whoever waits for the end of the client needs *)
(* no removal, and a removal that fails does no harm.                      *)
THEOREM OnlyLimitsLeave ==
  ASSUME "disk" \notin Faults
  PROVE  Spec => [](~timedOut => NothingLeftBehind)
<1>1. Init => LeftNothing
  BY DEF Init, LeftNothing
<1>2. RunnerInv /\ LeftNothing /\ [Next]_vars => LeftNothing'
  BY LeftNothingKept
<1>3. LeftNothing => (~timedOut => NothingLeftBehind)
  BY DEF LeftNothing, NothingLeftBehind
<1> QED
  BY <1>1, <1>2, <1>3, RunnerInvariance, PTL DEF Spec

(* The guards of the steps that their actors are bound to take in the end: *)
(* those of run() and its readers, of Docker, and of a program that may    *)
(* write or has nothing left to write.                                     *)
CanGoOn ==
  \/ stage \notin {"waiting", "reaping", "returned"}
  \/ stage = "waiting" /\ AllDone
  \/ stage = "reaping" /\ client # "up"
  \/ client = "up" /\ container \in {"none"} \cup Codes
  \/ container = "up" /\ \E s \in Streams : written[s] < plan[s] /\ (client = "up" => pipe[s] < PipeSize)
  \/ container = "up" /\ written = plan
  \/ \E s \in Streams : reader[s] = "reading" /\ (pipe[s] > 0 \/ client # "up")

(* A program writes what it writes, and a client that was killed is gone. *)
Bounded ==
  /\ \A s \in Streams : written[s] <= plan[s]
  /\ stage = "reaping" => client # "up"

LEMMA BoundedKept ==
  ASSUME RunnerInv, Bounded, [Next]_vars
  PROVE  Bounded'
<1>t. /\ plan \in [Streams -> 0..MaxChunks] /\ written \in [Streams -> 0..MaxChunks]
      /\ MaxChunks \in Nat
  BY SizesAssumption DEF RunnerInv, TypeOK
<1>1. ASSUME NEW s \in Streams, Write(s) PROVE Bounded'
  BY <1>t, <1>1 DEF Write, Bounded, program
<1>2. CASE CreateContainer \/ ProgramEnds \/ Stopped \/ ClientExits
  BY <1>2 DEF CreateContainer, ProgramEnds, Stopped, ClientExits, Bounded, program, output, Codes
<1>3. CASE Readers
  BY <1>3 DEF Readers, Read, ReadRaises, EndOfStream, Bounded, program, output
<1>4. CASE Runner
  BY <1>4 DEF Runner, Spawn, Gathered, TimeLimit, RemoveAfterLimit, Kill, Reap, Return, CloseAfterError,
     RemoveAfterError, ReturnAfterError, Bounded, program, output
<1>5. CASE UNCHANGED vars
  BY <1>5 DEF vars, Bounded, program, output
<1> QED
  BY <1>1, <1>2, <1>3, <1>4, <1>5 DEF Next, Environment

(* run(), its readers, the client and the program never all wait for each  *)
(* other, however little the pipes hold and however much is written: until *)
(* run() has returned somebody can go on, and be it only a program that    *)
(* has nothing left to write.  (RunEnds says that this gets somewhere.)    *)
THEOREM NeverAllWait == Spec => [](stage # "returned" => CanGoOn)
<1>1. Init => Bounded
  BY PlansAssumption, SizesAssumption DEF Init, Bounded
<1>2. RunnerInv /\ Bounded /\ [Next]_vars => Bounded'
  BY BoundedKept
<1>3. RunnerInv /\ Bounded => (stage # "returned" => CanGoOn)
  <2> SUFFICES ASSUME RunnerInv, Bounded, stage = "waiting" PROVE CanGoOn
    BY DEF CanGoOn, Bounded
  <2>t. /\ plan \in [Streams -> 0..MaxChunks] /\ written \in [Streams -> 0..MaxChunks]
        /\ pipe \in [Streams -> 0..PipeSize] /\ reader \in [Streams -> {"none", "reading", "done"}]
        /\ container \in {"none", "up"} \cup Codes /\ client \in {"none", "up"} \cup Codes
        /\ MaxChunks \in Nat /\ PipeSize \in Nat \ {0}
    BY SizesAssumption DEF RunnerInv, TypeOK
  <2>d. /\ client # "none"
        /\ \A s \in Streams : reader[s] # "none" /\ (reader[s] = "done" => pipe[s] = 0)
    BY DEF RunnerInv, Drained, Undisturbed
  <2>1. CASE client # "up"
    BY <2>t, <2>d, <2>1 DEF CanGoOn, AllDone
  <2>2. CASE client = "up" /\ container # "up"
    BY <2>t, <2>2 DEF CanGoOn
  <2>3. CASE client = "up" /\ container = "up" /\ written # plan
    <3>1. PICK s \in Streams : written[s] # plan[s]
      BY <2>t, <2>3
    <3>2. written[s] < plan[s]
      BY <2>t, <3>1 DEF Bounded
    <3>3. CASE pipe[s] < PipeSize
      BY <2>3, <3>2, <3>3 DEF CanGoOn
    <3>4. CASE ~(pipe[s] < PipeSize)
      <4>1. pipe[s] > 0
        BY <2>t, <3>4
      <4> QED BY <2>t, <2>d, <4>1 DEF CanGoOn
    <3> QED BY <3>3, <3>4
  <2> QED BY <2>1, <2>2, <2>3 DEF CanGoOn
<1> QED
  BY <1>1, <1>2, <1>3, RunnerInvariance, PTL DEF Spec

(* Every step of a run is a step of the contract. *)
LEMMA ContractStep == RunnerInv /\ [Next]_vars => [Contract!Next]_Contract!vars
<1> SUFFICES ASSUME RunnerInv, [Next]_vars PROVE [Contract!Next]_Contract!vars
  OBVIOUS
<1> USE DEF Contract!Next, Contract!vars, program, output, logs, Codes
<1>1. CASE Environment
  BY <1>1 DEF Environment, CreateContainer, Write, ProgramEnds, Stopped, ClientExits,
     Contract!Start, Contract!End
<1>2. CASE Readers
  BY <1>2 DEF Readers, Read, ReadRaises, EndOfStream
<1>3. CASE Return \/ ReturnAfterError
  BY <1>3 DEF Return, ReturnAfterError, ExitCode, Contract!Report, RunnerInv, Course, Truthful
<1>4. CASE RemoveAfterLimit \/ RemoveAfterError
  BY <1>4 DEF RemoveAfterLimit, RemoveAfterError, ForceRemove, Contract!End
<1>5. CASE Spawn \/ Gathered \/ TimeLimit \/ Kill \/ Reap \/ CloseAfterError
  BY <1>5 DEF Spawn, Gathered, TimeLimit, Kill, Reap, CloseAfterError
<1>6. CASE UNCHANGED vars
  BY <1>6 DEF vars
<1> QED
  BY <1>1, <1>2, <1>3, <1>4, <1>5, <1>6 DEF Next, Runner

(* The runner keeps the contract that the worker relies on. *)
THEOREM ContractKept == Spec => ContractSpec
<1>1. Init => Contract!Init
  BY DEF Init, Contract!Init
<1> QED
  BY <1>1, ContractStep, RunnerInvariance, PTL DEF Spec, ContractSpec, Contract!Spec
=============================================================================
