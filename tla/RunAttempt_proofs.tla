------------------------- MODULE RunAttempt_proofs --------------------------
(***************************************************************************)
(* Proofs about RunAttempt, for any number of cancel requests: the call of *)
(* the runner keeps every property of the runner, transactions lock their  *)
(* rows in one order except in the failure handler, and a run that was     *)
(* handled is over, or left to a request that was late.                    *)
(***************************************************************************)
EXTENDS RunAttempt, DockerRunner_proofs

-----------------------------------------------------------------------------
(* The runner within the attempt *)

(* A step of the attempt is a step of the runner, or the runner stutters. *)
LEMMA StepOfRunner == [AttemptNext]_allVars => [Next]_vars
  BY DEF StopContainer, Environment, AttemptNext, allVars, Database, Called, Next

(* The runner behaves in the worker's hands as it does by itself. *)
THEOREM AttemptRefinesRunner == AttemptSpec => Spec
<1>1. AttemptInit => Init
  BY DEF AttemptInit
<1> QED
  BY <1>1, StepOfRunner, PTL DEF AttemptSpec, Spec

(* The logs of an undisturbed run are complete whatever happens to the job. *)
THEOREM AttemptLogsAreComplete == AttemptSpec => []LogsComplete
  BY AttemptRefinesRunner, LogsAreComplete, PTL

(* ... and so are the exit codes that the worker gets, the cancellations   *)
(* that stop its container included.                                       *)
THEOREM AttemptExitCodesAreTruthful == AttemptSpec => ExitCodeTruthful
  BY AttemptRefinesRunner, ExitCodesAreTruthful, PTL

(* The worker's runner keeps the contract in the worker's hands, too.      *)
THEOREM AttemptKeepsContract == AttemptSpec => ContractSpec
  BY AttemptRefinesRunner, ContractKept, PTL

-----------------------------------------------------------------------------
(* The statements of the transactions *)

SelectAt(place, r) ==
  IF r = "devices" THEN 5
  ELSE IF place \in {"final", "cancel"} THEN IF r = "job" THEN 1 ELSE 2
  ELSE IF place = "late" THEN IF r = "job" THEN 1 ELSE 3
  ELSE IF r = "run" THEN 1 ELSE IF place = "pickup" THEN 2 ELSE 3

UpdateAt(place, r) ==
  IF r = "devices" THEN 6
  ELSE IF place \in Handling THEN IF r = "run" THEN 2 ELSE 4
  ELSE IF r = "run" THEN 4 ELSE IF place = "late" THEN 2 ELSE 3

Length(place) == CASE place = "pickup" -> 4 [] place = "late" -> 2 [] OTHER -> 6

(* Where a transaction stands tells which statement comes next. *)
LEMMA StatementIs ==
  ASSUME NEW a \in Actors, at[a] \in InTransaction, step[a] \in 1..7, NEW r \in Rows
  PROVE  /\ Len(Statements(at[a])) = Length(at[a])
         /\ IsAt(a, Select(r)) <=> step[a] <= Length(at[a]) /\ step[a] = SelectAt(at[a], r)
         /\ IsAt(a, Update(r)) <=> step[a] <= Length(at[a]) /\ step[a] = UpdateAt(at[a], r)
<1> USE DEF IsAt, Select, Update, SelectAt, UpdateAt, Length, Rows, Statements
<1>1. step[a] \in {1, 2, 3, 4, 5, 6, 7}
  OBVIOUS
<1>2. CASE at[a] = "pickup"
  BY <1>1, <1>2 DEF PickupStatements, Handling
<1>3. CASE at[a] = "final"
  BY <1>1, <1>3 DEF FinalStatements, Handling
<1>4. CASE at[a] = "cancel"
  BY <1>1, <1>4 DEF CancelStatements, Handling
<1>5. CASE at[a] \in Handling
  BY <1>1, <1>5 DEF HandlerStatements, Handling
<1>6. CASE at[a] = "late"
  BY <1>1, <1>6 DEF LateStatements, Handling
<1> QED
  BY <1>2, <1>3, <1>4, <1>5, <1>6 DEF InTransaction

(* Selects come in front of the updates, and no two statements coincide. *)
LEMMA StatementOrder ==
  ASSUME NEW place \in InTransaction, NEW q \in Rows, NEW r \in Rows
  PROVE  /\ SelectAt(place, r) \in 1..5 /\ UpdateAt(place, r) \in 2..6
         /\ SelectAt(place, r) < UpdateAt(place, r)
         /\ SelectAt(place, q) # UpdateAt(place, r)
         /\ q # r => SelectAt(place, q) # SelectAt(place, r)
         /\ q # r => UpdateAt(place, q) # UpdateAt(place, r)
         /\ UpdateAt(place, "job") < SelectAt(place, "devices")
         /\ UpdateAt(place, "run") < SelectAt(place, "devices")
         /\ Length(place) \in {2, 4, 6}
         /\ Length(place) = IF place = "pickup" THEN 4 ELSE IF place = "late" THEN 2 ELSE 6
  BY DEF SelectAt, UpdateAt, Length, Rows, InTransaction, Handling

-----------------------------------------------------------------------------
(* The first part of the invariant: what locks and loaded objects stand for *)

(* What is where: who may be at which place, and what a row holds. *)
Shape ==
  /\ at["worker"] \notin {"cancel", "late"}
  /\ \A c \in Requests : at[c] \in {"idle", "cancel", "late"} /\ (at[c] = "late" => c \in late)
  /\ row["devices"] \in {"open", "closed"}
  /\ \A r \in {"job", "run"} : row[r] \in Statuses
  /\ \A a \in Actors : at[a] \in InTransaction => step[a] <= Length(at[a]) + 1
  /\ \A a \in Actors : /\ saw[a]["devices"] \in {"open", "closed", "unread"}
                        /\ saw[a]["job"] \in Statuses \cup {"unread", "queued"}
                        /\ saw[a]["run"] \in Statuses \cup {"unread"}

(* A transaction has loaded what it has selected. *)
Loaded ==
  \A a \in Actors, r \in Rows : at[a] \in InTransaction =>
    (saw[a][r] # "unread" <=> step[a] > SelectAt(at[a], r))

(* ... and has locked what it has updated. *)
Locked ==
  \A a \in Actors, r \in Rows : at[a] \in InTransaction =>
    (lock[r] = a <=> step[a] > UpdateAt(at[a], r) /\ Flushed(a, r))

(* Whoever writes the end of a run closes its allocations. *)
OverMeansClosed ==
  /\ row["run"] \in Terminal => row["devices"] = "closed"
  /\ \A a \in Actors :
       /\ saw[a]["run"] \in Terminal => row["devices"] = "closed"
       /\ saw[a]["devices"] = "closed" => row["devices"] = "closed"

LockInv == AttemptTypeOK /\ Shape /\ Loaded /\ Locked /\ OverMeansClosed /\ ReleasesTakeTurns

(* Every step leaves it told whether the worker is busy, and whether a     *)
(* container is still to be stopped.                                       *)
Flags == busy \in BOOLEAN /\ stops \in BOOLEAN /\ late \subseteq Requests

(* Who was late is settled from the start. *)
LEMMA LateStays == [AttemptNext]_allVars => late' = late
<1>1. ASSUME NEW a \in Actors, Statement(a) PROVE late' = late
  BY <1>1 DEF Statement, SelectRow, UpdateRow, Commit, DeadlockAborts, tables
<1>2. CASE Database
  BY <1>1, <1>2 DEF Database, WorkerGoesOn, Prepared, RunnerReturned, Collected, ExecuteRaises,
     Cancel, Actors, tables
<1> QED
  BY <1>2 DEF AttemptNext, Called, StopContainer, allVars, attemptVars, tables

LEMMA FlagsNextInv ==
  ASSUME Flags, [AttemptNext]_allVars
  PROVE  Flags'
<1>1. ASSUME NEW a \in Actors, Statement(a) PROVE Flags'
  BY <1>1 DEF Statement, Flags, SelectRow, UpdateRow, Commit, DeadlockAborts, tables, StopsContainer
<1>2. CASE Database
  BY <1>1, <1>2 DEF Database, WorkerGoesOn, Prepared, RunnerReturned, Collected, ExecuteRaises,
     Cancel, Actors, Flags, tables
<1> QED
  BY <1>2 DEF AttemptNext, Called, StopContainer, allVars, attemptVars, tables, Flags

(* The initial states satisfy it. *)
LEMMA LockInitInv == AttemptInit => LockInv
<1> SUFFICES ASSUME AttemptInit PROVE LockInv
  OBVIOUS
<1> USE DEF AttemptInit, Rows, Unread, Actors
<1>1. TypeOK
  BY RunnerInitInv DEF RunnerInv
<1>2. AttemptTypeOK
  <2>1. /\ row \in [Rows -> Statuses \cup {"open", "closed"}]
        /\ at \in [Actors -> Places] /\ step \in [Actors -> 1..7]
    BY DEF Statuses, Places, InTransaction
  <2>2. /\ saw \in [Actors -> [Rows -> Statuses \cup {"queued", "open", "closed", "unread"}]]
        /\ lock \in [Rows -> Actors \cup {NoOne}]
    OBVIOUS
  <2>3. \A a \in Actors : at[a] \notin InTransaction =>
          step[a] = 1 /\ saw[a] = Unread /\ \A r \in Rows : lock[r] # a
    BY RequestsAssumption DEF InTransaction
  <2> QED
    BY <1>1, <2>1, <2>2, <2>3 DEF AttemptTypeOK
<1>l. late \subseteq Requests /\ "worker" \notin late
  BY RequestsAssumption
<1>3. Shape
  <2>1. /\ at["worker"] \notin {"cancel", "late"}
        /\ \A c \in Requests : at[c] \in {"idle", "cancel", "late"} /\ (at[c] = "late" => c \in late)
    BY <1>l, RequestsAssumption
  <2>2. \A a \in Actors : at[a] \in InTransaction => step[a] <= Length(at[a]) + 1
    BY <1>l DEF InTransaction, Length, Handling
  <2> QED
    BY <2>1, <2>2 DEF Shape, Statuses, Terminal
<1>4. Loaded
  <2> SUFFICES ASSUME NEW a \in Actors, NEW r \in Rows, at[a] \in InTransaction
               PROVE saw[a][r] # "unread" <=> step[a] > SelectAt(at[a], r)
    BY DEF Loaded
  <2>1. CASE a \in late
    BY <1>l, <2>1 DEF SelectAt
  <2>2. CASE a \notin late
    BY <2>2, StatementOrder
  <2> QED BY <2>1, <2>2
<1>5. Locked
  <2> SUFFICES ASSUME NEW a \in Actors, NEW r \in Rows, at[a] \in InTransaction
               PROVE ~(step[a] > UpdateAt(at[a], r))
    BY RequestsAssumption DEF Locked
  <2> QED
    BY StatementOrder
<1>6. OverMeansClosed /\ ReleasesTakeTurns
  BY DEF OverMeansClosed, ReleasesTakeTurns, Terminal
<1> QED
  BY <1>2, <1>3, <1>4, <1>5, <1>6 DEF LockInv

(* A transaction that ends without a write keeps it. *)
LEMMA EndKeepsLockInv ==
  ASSUME LockInv, NEW a \in Actors, NEW place \in Places, EndAt(a, place), UNCHANGED row,
         TypeOK', Flags', UNCHANGED late, IF a = "worker" THEN place \notin {"cancel", "late"} ELSE place = "idle"
  PROVE  LockInv'
<1> USE DEF LockInv, EndAt, Goto, End
<1>1. /\ at' = [at EXCEPT ![a] = place] /\ step' = [step EXCEPT ![a] = 1]
      /\ saw' = [saw EXCEPT ![a] = Unread]
      /\ lock' = [r \in Rows |-> IF lock[r] = a THEN NoOne ELSE lock[r]]
  OBVIOUS
<1>2. /\ \A b \in Actors : /\ at'[b] = (IF b = a THEN place ELSE at[b])
                            /\ step'[b] = (IF b = a THEN 1 ELSE step[b])
                            /\ saw'[b] = (IF b = a THEN Unread ELSE saw[b])
      /\ \A b \in Actors, r \in Rows : lock'[r] = b <=> b # a /\ lock[r] = b
  <2>1. \A b \in Actors : /\ at'[b] = (IF b = a THEN place ELSE at[b])
                          /\ step'[b] = (IF b = a THEN 1 ELSE step[b])
                          /\ saw'[b] = (IF b = a THEN Unread ELSE saw[b])
    BY <1>1 DEF AttemptTypeOK
  <2>2. \A r \in Rows : lock'[r] = IF lock[r] = a THEN NoOne ELSE lock[r]
    BY <1>1
  <2>3. NoOne \notin Actors
    BY RequestsAssumption
  <2>4. \A b \in Actors, r \in Rows : lock'[r] = b <=> b # a /\ lock[r] = b
    BY <2>2, <2>3
  <2> QED
    BY <2>1, <2>4
<1>3. \A r \in Rows : Unread[r] = "unread"
  BY DEF Unread
<1>4. AttemptTypeOK'
  BY <1>1, <1>2 DEF Flags, AttemptTypeOK, Unread
<1>5. Shape'
  <2>1. \A b \in Actors : at'[b] \in InTransaction => step'[b] <= Length(at'[b]) + 1
    <3> SUFFICES ASSUME NEW b \in Actors, at'[b] \in InTransaction
                 PROVE step'[b] <= Length(at'[b]) + 1
      OBVIOUS
    <3>1. CASE b = a
      BY <3>1, <1>2 DEF Length
    <3>2. CASE b # a
      BY <3>2, <1>2 DEF Shape
    <3> QED BY <3>1, <3>2
  <2>2. \A b \in Actors : /\ saw'[b]["devices"] \in {"open", "closed", "unread"}
                          /\ saw'[b]["job"] \in Statuses \cup {"unread", "queued"}
                          /\ saw'[b]["run"] \in Statuses \cup {"unread"}
    BY <1>2, <1>3 DEF Shape, Rows
  <2>3. /\ at'["worker"] \notin {"cancel", "late"}
        /\ \A c \in Requests :
             at'[c] \in {"idle", "cancel", "late"} /\ (at'[c] = "late" => c \in late')
    BY <1>2, RequestsAssumption DEF Shape, Actors
  <2> QED
    BY <2>1, <2>2, <2>3 DEF Shape
<1>6. Loaded'
  <2> SUFFICES ASSUME NEW b \in Actors, NEW r \in Rows, at'[b] \in InTransaction
               PROVE saw'[b][r] # "unread" <=> step'[b] > SelectAt(at'[b], r)
    BY DEF Loaded
  <2>1. CASE b = a
    <3>1. SelectAt(place, r) \in 1..5
      BY <2>1, <1>2, StatementOrder
    <3> QED
      BY <2>1, <3>1, <1>2, <1>3
  <2>2. CASE b # a
    BY <2>2, <1>2 DEF Loaded
  <2> QED BY <2>1, <2>2
<1>7. Locked'
  <2> SUFFICES ASSUME NEW b \in Actors, NEW r \in Rows, at'[b] \in InTransaction
               PROVE lock'[r] = b <=> step'[b] > UpdateAt(at'[b], r) /\ Flushed(b, r)'
    BY DEF Locked
  <2>1. CASE b = a
    <3>1. UpdateAt(place, r) \in 2..6
      BY <2>1, <1>2, StatementOrder
    <3> QED
      BY <2>1, <3>1, <1>2
  <2>2. CASE b # a
    <3>1. Flushed(b, r)' <=> Flushed(b, r)
      BY <2>2, <1>2 DEF Flushed
    <3> QED
      BY <2>2, <3>1, <1>2 DEF Locked
  <2> QED BY <2>1, <2>2
<1>8. OverMeansClosed' /\ ReleasesTakeTurns'
  BY <1>2, <1>3 DEF OverMeansClosed, ReleasesTakeTurns, Rows, Terminal
<1> QED
  BY <1>4, <1>5, <1>6, <1>7, <1>8

(* Whoever has found open allocations holds the row of the run. *)
LEMMA ReleaserHoldsRun ==
  ASSUME LockInv, NEW a \in Actors, at[a] \in InTransaction, saw[a]["devices"] = "open"
  PROVE  lock["run"] = a
<1>1. saw[a]["run"] \notin Terminal
  BY DEF LockInv, ReleasesTakeTurns, OverMeansClosed, Terminal
<1>2. step[a] > SelectAt(at[a], "devices") /\ step[a] \in 1..7
  BY DEF LockInv, Loaded, AttemptTypeOK, Rows
<1>3. step[a] > UpdateAt(at[a], "run")
  BY <1>2, StatementOrder DEF Rows
<1> QED
  BY <1>1, <1>3 DEF LockInv, Locked, Flushed, Rows

(* A commit keeps it: it closes what it has found open, and nobody else    *)
(* has found the same.                                                     *)
LEMMA CommitKeepsLockInv ==
  ASSUME LockInv, NEW a \in Actors, Commit(a), TypeOK', Flags', UNCHANGED late
  PROVE  LockInv'
<1> DEFINE place == IF at[a] = "pickup" THEN "prepare" ELSE "idle"
<1> USE DEF LockInv
<1>1. /\ at[a] \in InTransaction /\ step[a] \in 1..7 /\ step[a] > Length(at[a])
      /\ row' = Written(a) /\ Goto(a, place, 1) /\ End(a)
  BY StatementIs DEF Commit, EndAt, AttemptTypeOK, Rows
<1>2. /\ \A b \in Actors : /\ at'[b] = (IF b = a THEN place ELSE at[b])
                            /\ step'[b] = (IF b = a THEN 1 ELSE step[b])
                            /\ saw'[b] = (IF b = a THEN Unread ELSE saw[b])
      /\ \A r \in Rows : lock'[r] = (IF lock[r] = a THEN NoOne ELSE lock[r])
  BY <1>1 DEF Goto, End, AttemptTypeOK
<1>3. \A r \in Rows : Unread[r] = "unread"
  BY DEF Unread
<1>4. \A b \in Actors, r \in Rows : lock'[r] = b <=> b # a /\ lock[r] = b
  BY <1>2, RequestsAssumption
<1>5. place \in {"prepare", "idle"} /\ (a # "worker" => place = "idle")
  BY <1>1, RequestsAssumption DEF Shape, Actors
<1>6. /\ \A r \in {"job", "run"} : row'[r] = row[r] \/ row'[r] = Outcome(a, r)
      /\ row'["devices"] = (IF saw[a]["devices"] = "open" THEN "closed" ELSE row["devices"])
      /\ row' = [r \in Rows |-> row'[r]]
  BY <1>1 DEF Written, Rows
<1>7. \A r \in {"job", "run"} : Outcome(a, r) \in Statuses
  <2> SUFFICES ASSUME NEW r \in {"job", "run"} PROVE Outcome(a, r) \in Statuses
    OBVIOUS
  <2>1. FinalStatus \in Statuses
    BY DEF FinalStatus, Statuses, Terminal
  <2> QED
    BY <2>1 DEF Outcome, Statuses, Terminal
<1>8. AttemptTypeOK'
  <2>1. row' \in [Rows -> Statuses \cup {"open", "closed"}]
    <3>1. \A r \in Rows : row'[r] \in Statuses \cup {"open", "closed"}
      BY <1>6, <1>7 DEF AttemptTypeOK, Rows
    <3> QED
      BY <1>6, <3>1
  <2>2. /\ at' \in [Actors -> Places] /\ step' \in [Actors -> 1..7]
        /\ saw' \in [Actors -> [Rows -> Statuses \cup {"queued", "open", "closed", "unread"}]]
        /\ lock' \in [Rows -> Actors \cup {NoOne}]
    BY <1>1, <1>5 DEF Goto, End, AttemptTypeOK, Unread, Places
  <2>3. \A b \in Actors : at'[b] \notin InTransaction =>
          step'[b] = 1 /\ saw'[b] = Unread /\ \A r \in Rows : lock'[r] # b
    BY <1>2, <1>4 DEF AttemptTypeOK
  <2> QED
    BY <2>1, <2>2, <2>3 DEF Flags, AttemptTypeOK
<1>9. at'[a] \notin InTransaction
  BY <1>2, <1>5 DEF InTransaction, Handling
<1>10. Shape'
  <2>1. \A b \in Actors : at'[b] \in InTransaction => step'[b] <= Length(at'[b]) + 1
    BY <1>2, <1>9 DEF Shape
  <2>2. row'["devices"] \in {"open", "closed"} /\ \A r \in {"job", "run"} : row'[r] \in Statuses
    BY <1>6, <1>7 DEF Shape
  <2> QED
    BY <1>2, <1>3, <1>5, <2>1, <2>2, RequestsAssumption DEF Shape, Actors, Rows
<1>11. Loaded'
  BY <1>2, <1>9 DEF Loaded
<1>12. Locked'
  <2> SUFFICES ASSUME NEW b \in Actors, NEW r \in Rows, at'[b] \in InTransaction
               PROVE lock'[r] = b <=> step'[b] > UpdateAt(at'[b], r) /\ Flushed(b, r)'
    BY DEF Locked
  <2>1. b # a
    BY <1>9
  <2>2. Flushed(b, r)' <=> Flushed(b, r)
    BY <2>1, <1>2 DEF Flushed
  <2> QED
    BY <2>1, <2>2, <1>2, <1>4 DEF Locked
<1>13. row["devices"] = "closed" => row'["devices"] = "closed"
  BY <1>6
<1>14. CASE at[a] \in {"pickup", "late"}
  <2>1. saw[a]["devices"] = "unread" /\ (at[a] = "late" => saw[a]["run"] = "unread")
    <3>1. SelectAt(at[a], "devices") = 5 /\ step[a] <= 5
      BY <1>14, <1>1 DEF SelectAt, Length, Shape
    <3>2. at[a] = "late" => SelectAt(at[a], "run") = 3 /\ step[a] <= 3
      BY <1>1 DEF SelectAt, Length, Shape
    <3> QED
      BY <1>14, <1>1, <3>1, <3>2 DEF Loaded, Rows
  <2>2. row'["devices"] = row["devices"]
    BY <2>1, <1>6
  <2>3. row'["run"] \in Terminal => row["run"] \in Terminal
    <3>1. CASE at[a] = "late"
      BY <2>1, <3>1, <1>1 DEF Written, Rows
    <3>2. CASE at[a] = "pickup"
      <4>1. Outcome(a, "run") = "running"
        BY <3>2, Zenon DEF Outcome, Handling
      <4> QED
        BY <1>6, <4>1 DEF Terminal
    <3> QED
      BY <1>14, <3>1, <3>2
  <2>4. OverMeansClosed'
    BY <1>2, <1>3, <2>2, <2>3 DEF OverMeansClosed, Terminal, Rows
  <2>5. ReleasesTakeTurns'
    BY <1>2, <1>3, <2>2 DEF ReleasesTakeTurns, Rows
  <2> QED
    BY <1>8, <1>10, <1>11, <1>12, <2>4, <2>5
<1>15. CASE at[a] \notin {"pickup", "late"}
  <2>1. saw[a]["devices"] \in {"open", "closed"}
    <3>1. SelectAt(at[a], "devices") = 5 /\ step[a] > 6
      <4>1. Length(at[a]) = 6
        BY <1>15, <1>1, StatementOrder DEF Rows
      <4> QED
        BY <1>1, <4>1 DEF SelectAt
    <3>2. saw[a]["devices"] # "unread"
      BY <1>1, <3>1 DEF Loaded, Rows
    <3> QED
      BY <3>2 DEF Shape
  <2>2. row'["devices"] = "closed"
    BY <2>1, <1>6 DEF OverMeansClosed
  <2>3. \A b \in Actors : saw'[b]["devices"] # "open"
    <3> SUFFICES ASSUME NEW b \in Actors, b # a, saw[b]["devices"] = "open" PROVE FALSE
      BY <1>2, <1>3 DEF Rows
    <3>1. at[b] \in InTransaction
      BY DEF AttemptTypeOK, Unread, Rows
    <3>2. saw[a]["devices"] = "open"
      BY <2>1 DEF OverMeansClosed, ReleasesTakeTurns
    <3> QED
      BY <1>1, <3>1, <3>2, ReleaserHoldsRun
  <2> QED
    BY <1>8, <1>10, <1>11, <1>12, <2>2, <2>3 DEF OverMeansClosed, ReleasesTakeTurns
<1> QED
  BY <1>14, <1>15

(* A row is loaded as it is committed, and whether an object is flushed is *)
(* settled before the update of its row.                                   *)
LEMMA SelectKeepsLockInv ==
  ASSUME LockInv, NEW a \in Actors, NEW r \in Rows, SelectRow(a, r), TypeOK', Flags', UNCHANGED late
  PROVE  LockInv'
<1> USE DEF LockInv
<1>1. /\ at[a] \in InTransaction /\ step[a] \in 1..7
      /\ step[a] <= Length(at[a]) /\ step[a] = SelectAt(at[a], r)
  BY StatementIs DEF SelectRow, IsAt, AttemptTypeOK
<1>2. CASE Skipped(a, r)
  <2>1. EndAt(a, "idle") /\ UNCHANGED row
    BY <1>2 DEF tables, SelectRow
  <2>2. "idle" \in Places
    BY DEF Places
  <2> QED
    BY <2>1, <2>2, EndKeepsLockInv
<1>3. CASE ~Skipped(a, r)
  <2>1. /\ saw' = [saw EXCEPT ![a][r] = row[r]]
        /\ at' = at /\ step' = [step EXCEPT ![a] = step[a] + 1]
        /\ lock' = lock /\ row' = row
    BY <1>3 DEF tables, SelectRow, Goto, AttemptTypeOK
  <2>2. \A b \in Actors : /\ step'[b] = (IF b = a THEN step[a] + 1 ELSE step[b])
                          /\ \A q \in Rows : saw'[b][q] = (IF b = a /\ q = r THEN row[r]
                                                           ELSE saw[b][q])
    BY <2>1 DEF AttemptTypeOK
  <2>3. Length(at[a]) \in {2, 4, 6}
    BY DEF Length
  <2>4. AttemptTypeOK'
    <3>1. step' \in [Actors -> 1..7]
      BY <1>1, <2>1, <2>3 DEF AttemptTypeOK
    <3>2. saw' \in [Actors -> [Rows -> Statuses \cup {"queued", "open", "closed", "unread"}]]
      BY <2>1 DEF AttemptTypeOK
    <3>3. \A b \in Actors : at'[b] \notin InTransaction =>
            step'[b] = 1 /\ saw'[b] = Unread /\ \A q \in Rows : lock'[q] # b
      BY <1>1, <2>1 DEF AttemptTypeOK
    <3> QED
      BY <2>1, <3>1, <3>2, <3>3 DEF Flags, AttemptTypeOK
  <2>5. Shape'
    <3>1. \A b \in Actors : at'[b] \in InTransaction => step'[b] <= Length(at'[b]) + 1
      BY <1>1, <2>1, <2>2, <2>3 DEF Shape
    <3>2. \A b \in Actors : /\ saw'[b]["devices"] \in {"open", "closed", "unread"}
                            /\ saw'[b]["job"] \in Statuses \cup {"unread", "queued"}
                            /\ saw'[b]["run"] \in Statuses \cup {"unread"}
      BY <2>2 DEF Shape, Rows
    <3> QED
      BY <2>1, <3>1, <3>2 DEF Shape
  <2>6. row[r] # "unread"
    BY DEF Shape, Rows, Statuses, Terminal
  <2>7. Loaded'
    <3> SUFFICES ASSUME NEW b \in Actors, NEW q \in Rows, at[b] \in InTransaction
                 PROVE saw'[b][q] # "unread" <=> step'[b] > SelectAt(at[b], q)
      BY <2>1 DEF Loaded
    <3>1. CASE b # a
      BY <3>1, <2>2 DEF Loaded
    <3>2. CASE b = a /\ q = r
      BY <3>2, <1>1, <2>2, <2>6
    <3>3. CASE b = a /\ q # r
      <4>1. SelectAt(at[a], q) # step[a] /\ SelectAt(at[a], q) \in 1..5
        BY <3>3, <1>1, StatementOrder
      <4>2. step[a] + 1 > SelectAt(at[a], q) <=> step[a] > SelectAt(at[a], q)
        BY <4>1, <1>1
      <4> QED
        BY <3>3, <4>2, <2>2 DEF Loaded
    <3> QED BY <3>1, <3>2, <3>3
  <2>8. Locked'
    <3> SUFFICES ASSUME NEW b \in Actors, NEW q \in Rows, at[b] \in InTransaction
                 PROVE lock[q] = b <=> step'[b] > UpdateAt(at[b], q) /\ Flushed(b, q)'
      BY <2>1 DEF Locked
    <3>1. CASE b # a
      <4>1. Flushed(b, q)' <=> Flushed(b, q)
        BY <3>1, <2>1, <2>2 DEF Flushed, Rows
      <4> QED
        BY <3>1, <4>1, <2>2 DEF Locked
    <3>2. CASE b = a
      <4>1. UpdateAt(at[a], q) # step[a] /\ UpdateAt(at[a], q) \in 2..6
        BY <1>1, StatementOrder
      <4>2. step[a] + 1 > UpdateAt(at[a], q) <=> step[a] > UpdateAt(at[a], q)
        BY <4>1, <1>1
      <4>3. CASE q = r
        <5>1. ~(step[a] > UpdateAt(at[a], q))
          BY <4>3, <1>1, StatementOrder
        <5> QED
          BY <3>2, <4>2, <5>1, <2>2 DEF Locked
      <4>4. CASE q # r
        <5>1. Flushed(a, q)' <=> Flushed(a, q)
          BY <4>4, <2>1, <2>2 DEF Flushed, Rows
        <5> QED
          BY <3>2, <4>2, <5>1, <2>2 DEF Locked
      <4> QED BY <4>3, <4>4
    <3> QED BY <3>1, <3>2
  <2>9. OverMeansClosed'
    BY <2>1, <2>2 DEF OverMeansClosed, Rows
  <2>10. ReleasesTakeTurns'
    BY <2>1, <2>2 DEF ReleasesTakeTurns, Rows
  <2> QED
    BY <2>4, <2>5, <2>7, <2>8, <2>9, <2>10
<1> QED
  BY <1>2, <1>3

(* An update locks a row that nobody has locked. *)
LEMMA UpdateKeepsLockInv ==
  ASSUME LockInv, NEW a \in Actors, NEW r \in Rows, UpdateRow(a, r), TypeOK', Flags', UNCHANGED late
  PROVE  LockInv'
<1> USE DEF LockInv
<1>1. /\ at[a] \in InTransaction /\ step[a] \in 1..7
      /\ step[a] <= Length(at[a]) /\ step[a] = UpdateAt(at[a], r)
  BY StatementIs DEF UpdateRow, IsAt, AttemptTypeOK
<1>2. /\ at' = at /\ step' = [step EXCEPT ![a] = step[a] + 1]
      /\ saw' = saw /\ row' = row
      /\ IF Flushed(a, r) THEN lock[r] = NoOne /\ lock' = [lock EXCEPT ![r] = a]
                          ELSE lock' = lock
  BY DEF tables, UpdateRow, Goto, AttemptTypeOK
<1>3. \A b \in Actors : step'[b] = (IF b = a THEN step[a] + 1 ELSE step[b])
  BY <1>2 DEF AttemptTypeOK
<1>4. Length(at[a]) \in {2, 4, 6}
  BY DEF Length
<1>5. \A b \in Actors, q \in Rows :
        lock'[q] = b <=> (IF b = a /\ q = r /\ Flushed(a, r) THEN TRUE ELSE lock[q] = b)
  BY <1>2, RequestsAssumption DEF AttemptTypeOK
<1>6. \A b \in Actors, q \in Rows : Flushed(b, q)' <=> Flushed(b, q)
  BY <1>2 DEF Flushed
<1>7. AttemptTypeOK'
  <2>1. step' \in [Actors -> 1..7] /\ lock' \in [Rows -> Actors \cup {NoOne}]
    <3>1. step' \in [Actors -> 1..7]
      BY <1>1, <1>2, <1>4 DEF AttemptTypeOK
    <3> QED
      BY <3>1, <1>2 DEF AttemptTypeOK
  <2>2. \A b \in Actors : at'[b] \notin InTransaction =>
          step'[b] = 1 /\ saw'[b] = Unread /\ \A q \in Rows : lock'[q] # b
    BY <1>1, <1>2, <1>3, <1>5 DEF AttemptTypeOK
  <2> QED
    BY <1>2, <2>1, <2>2 DEF Flags, AttemptTypeOK
<1>8. Shape'
  <2>1. \A b \in Actors : at'[b] \in InTransaction => step'[b] <= Length(at'[b]) + 1
    BY <1>1, <1>2, <1>3, <1>4 DEF Shape
  <2> QED
    BY <1>2, <2>1 DEF Shape
<1>9. Loaded'
  <2> SUFFICES ASSUME NEW b \in Actors, NEW q \in Rows, at[b] \in InTransaction
               PROVE saw[b][q] # "unread" <=> step'[b] > SelectAt(at[b], q)
    BY <1>2 DEF Loaded
  <2>1. CASE b # a
    BY <2>1, <1>3 DEF Loaded
  <2>2. CASE b = a
    <3>1. SelectAt(at[a], q) # step[a] /\ SelectAt(at[a], q) \in 1..5
      BY <1>1, StatementOrder
    <3>2. step[a] + 1 > SelectAt(at[a], q) <=> step[a] > SelectAt(at[a], q)
      BY <3>1, <1>1
    <3> QED
      BY <2>2, <3>2, <1>3 DEF Loaded
  <2> QED BY <2>1, <2>2
<1>10. Locked'
  <2> SUFFICES ASSUME NEW b \in Actors, NEW q \in Rows, at[b] \in InTransaction
               PROVE lock'[q] = b <=> step'[b] > UpdateAt(at[b], q) /\ Flushed(b, q)
    BY <1>2, <1>6 DEF Locked
  <2>1. CASE b # a
    BY <2>1, <1>3, <1>5 DEF Locked
  <2>2. CASE b = a /\ q = r
    <3>1. step[a] + 1 > UpdateAt(at[a], r) /\ ~(step[a] > UpdateAt(at[a], r))
      BY <1>1
    <3>2. lock[r] # a
      BY <3>1, <1>1 DEF Locked
    <3> QED
      BY <2>2, <3>1, <3>2, <1>3, <1>5
  <2>3. CASE b = a /\ q # r
    <3>1. UpdateAt(at[a], q) # step[a] /\ UpdateAt(at[a], q) \in 2..6
      BY <2>3, <1>1, StatementOrder
    <3>2. step[a] + 1 > UpdateAt(at[a], q) <=> step[a] > UpdateAt(at[a], q)
      BY <3>1, <1>1
    <3> QED
      BY <2>3, <3>2, <1>3, <1>5 DEF Locked
  <2> QED BY <2>1, <2>2, <2>3
<1>11. OverMeansClosed' /\ ReleasesTakeTurns'
  BY <1>2 DEF OverMeansClosed, ReleasesTakeTurns
<1> QED
  BY <1>7, <1>8, <1>9, <1>10, <1>11

(* What an exception does, in whatever place it meets the worker. *)
LEMMA RaisesIs ==
  ASSUME Raises
  PROVE  \E place \in {"inner", "outer", "down"} : EndAt("worker", place)
  BY DEF Raises

(* A request begins with the job in its hands. *)
LEMMA CancelKeepsLockInv ==
  ASSUME LockInv, NEW c \in Requests, Cancel(c), TypeOK', Flags', UNCHANGED late
  PROVE  LockInv'
<1> USE DEF LockInv
<1>1. c \in Actors /\ c # "worker"
  BY RequestsAssumption DEF Actors
<1>2. /\ at' = [at EXCEPT ![c] = "cancel"] /\ step' = [step EXCEPT ![c] = 2]
      /\ saw' = [saw EXCEPT ![c]["job"] = row["job"]]
      /\ row' = row /\ lock' = lock /\ at[c] = "idle"
      /\ row["job"] \in {"scheduled", "running"}
  BY DEF tables, Cancel, Goto
<1>3. /\ \A b \in Actors : /\ at'[b] = (IF b = c THEN "cancel" ELSE at[b])
                            /\ step'[b] = (IF b = c THEN 2 ELSE step[b])
                            /\ \A q \in Rows : saw'[b][q] = (IF b = c /\ q = "job" THEN row["job"]
                                                             ELSE saw[b][q])
      /\ step[c] = 1 /\ saw[c] = Unread /\ \A q \in Rows : lock[q] # c
  BY <1>1, <1>2 DEF AttemptTypeOK, InTransaction, Handling
<1>4. \A q \in Rows : saw[c][q] = "unread"
  BY <1>3 DEF Unread
<1>5. AttemptTypeOK'
  <2>1. /\ at' \in [Actors -> Places] /\ step' \in [Actors -> 1..7]
        /\ lock' \in [Rows -> Actors \cup {NoOne}] /\ row' \in [Rows -> Statuses \cup {"open", "closed"}]
    <3>1. "cancel" \in Places /\ 2 \in 1..7
      BY DEF Places, InTransaction
    <3> QED
      BY <1>2, <3>1 DEF AttemptTypeOK
  <2>2. saw' \in [Actors -> [Rows -> Statuses \cup {"queued", "open", "closed", "unread"}]]
    <3>1. row["job"] \in Statuses \cup {"queued", "open", "closed", "unread"}
      BY <1>2 DEF Statuses
    <3>2. [saw[c] EXCEPT !["job"] = row["job"]] \in [Rows -> Statuses \cup {"queued", "open", "closed", "unread"}]
      BY <1>1, <3>1 DEF AttemptTypeOK, Rows
    <3>3. saw' = [saw EXCEPT ![c] = [saw[c] EXCEPT !["job"] = row["job"]]]
      BY <1>2
    <3> QED
      BY <1>1, <3>2, <3>3 DEF AttemptTypeOK
  <2>3. \A b \in Actors : at'[b] \notin InTransaction =>
          step'[b] = 1 /\ saw'[b] = Unread /\ \A q \in Rows : lock'[q] # b
    BY <1>2, <1>3 DEF AttemptTypeOK, InTransaction
  <2> QED
    BY <1>2, <2>1, <2>2, <2>3 DEF Flags, AttemptTypeOK
<1>6. Shape'
  <2>1. \A b \in Actors : at'[b] \in InTransaction => step'[b] <= Length(at'[b]) + 1
    <3> SUFFICES ASSUME NEW b \in Actors, at'[b] \in InTransaction
                 PROVE step'[b] <= Length(at'[b]) + 1
      OBVIOUS
    <3>1. CASE b = c
      BY <3>1, <1>3 DEF Length
    <3>2. CASE b # c
      BY <3>2, <1>3 DEF Shape
    <3> QED BY <3>1, <3>2
  <2>2. \A b \in Actors : /\ saw'[b]["devices"] \in {"open", "closed", "unread"}
                          /\ saw'[b]["job"] \in Statuses \cup {"unread", "queued"}
                          /\ saw'[b]["run"] \in Statuses \cup {"unread"}
    BY <1>2, <1>3 DEF Shape, Rows, Statuses
  <2>3. /\ at'["worker"] \notin {"cancel", "late"}
        /\ \A d \in Requests :
             at'[d] \in {"idle", "cancel", "late"} /\ (at'[d] = "late" => d \in late')
    BY <1>1, <1>3 DEF Shape, Actors
  <2> QED
    BY <1>2, <2>1, <2>2, <2>3 DEF Shape
<1>7. Loaded'
  <2> SUFFICES ASSUME NEW b \in Actors, NEW q \in Rows, at'[b] \in InTransaction
               PROVE saw'[b][q] # "unread" <=> step'[b] > SelectAt(at'[b], q)
    BY DEF Loaded
  <2>1. CASE b = c
    BY <2>1, <1>2, <1>3, <1>4 DEF SelectAt, Rows
  <2>2. CASE b # c
    BY <2>2, <1>3 DEF Loaded
  <2> QED BY <2>1, <2>2
<1>8. Locked'
  <2> SUFFICES ASSUME NEW b \in Actors, NEW q \in Rows, at'[b] \in InTransaction
               PROVE lock[q] = b <=> step'[b] > UpdateAt(at'[b], q) /\ Flushed(b, q)'
    BY <1>2 DEF Locked
  <2>1. CASE b = c
    BY <2>1, <1>3 DEF UpdateAt, Rows, Handling
  <2>2. CASE b # c
    <3>1. Flushed(b, q)' <=> Flushed(b, q)
      BY <2>2, <1>3 DEF Flushed, Rows
    <3> QED
      BY <2>2, <3>1, <1>3 DEF Locked
  <2> QED BY <2>1, <2>2
<1>9. OverMeansClosed' /\ ReleasesTakeTurns'
  BY <1>2, <1>3 DEF OverMeansClosed, ReleasesTakeTurns, Rows, Terminal
<1> QED
  BY <1>5, <1>6, <1>7, <1>8, <1>9

(* Between its transactions the worker goes from place to place. *)
LEMMA PlacesKeepLockInv ==
  ASSUME LockInv, Prepared \/ RunnerReturned \/ Collected, TypeOK', Flags', UNCHANGED late
  PROVE  LockInv'
<1> USE DEF LockInv
<1>1. "worker" \in Actors
  BY DEF Actors
<1>2. PICK place \in {"run", "collect", "final"} :
        /\ at["worker"] \in {"prepare", "run", "collect"}
        /\ at' = [at EXCEPT !["worker"] = place] /\ row' = row /\ saw' = saw /\ lock' = lock
        /\ step' = [step EXCEPT !["worker"] = 1] \/ step' = step
  BY DEF tables, Prepared, RunnerReturned, Collected, Goto
<1>3. /\ step["worker"] = 1 /\ saw["worker"] = Unread /\ \A r \in Rows : lock[r] # "worker"
      /\ \A r \in Rows : saw["worker"][r] = "unread"
  BY <1>1, <1>2 DEF AttemptTypeOK, InTransaction, Handling, Unread
<1>4. /\ step' = step
      /\ \A b \in Actors : at'[b] = (IF b = "worker" THEN place ELSE at[b])
  BY <1>1, <1>2, <1>3 DEF AttemptTypeOK
<1>5. EndAt("worker", place) /\ UNCHANGED row
  <2>1. step' = [step EXCEPT !["worker"] = 1] /\ saw' = [saw EXCEPT !["worker"] = Unread]
    BY <1>2, <1>3, <1>4 DEF AttemptTypeOK
  <2>2. lock' = [r \in Rows |-> IF lock[r] = "worker" THEN NoOne ELSE lock[r]]
    BY <1>2, <1>3 DEF AttemptTypeOK
  <2> QED
    BY <1>2, <2>1, <2>2 DEF EndAt, Goto, End
<1> QED
  BY <1>1, <1>5, EndKeepsLockInv DEF Places, InTransaction

(* Every step keeps it. *)
LEMMA LockNextInv ==
  ASSUME LockInv, [AttemptNext]_allVars, TypeOK', Flags'
  PROVE  LockInv'
<1> USE DEF LockInv
<1>l. UNCHANGED late
  BY LateStays
<1>1. CASE UNCHANGED <<row, at, step, saw, lock>>
  BY <1>l, <1>1 DEF Flags, AttemptTypeOK, Shape, Loaded, Locked, OverMeansClosed, ReleasesTakeTurns,
     Flushed
<1>2. ASSUME NEW a \in Actors, Statement(a) PROVE LockInv'
  <2>1. CASE \E r \in Rows : SelectRow(a, r) \/ UpdateRow(a, r)
    BY <1>l, <2>1, SelectKeepsLockInv, UpdateKeepsLockInv
  <2>2. CASE Commit(a)
    BY <1>l, <2>2, CommitKeepsLockInv
  <2>3. CASE DeadlockAborts(a)
    <3>1. CASE a = "worker"
      BY <1>l, <2>3, <3>1, RaisesIs, EndKeepsLockInv DEF tables, DeadlockAborts, Places, InTransaction, Handling
    <3>2. CASE a # "worker"
      BY <1>l, <2>3, <3>2, EndKeepsLockInv DEF tables, DeadlockAborts, Places
    <3> QED BY <3>1, <3>2
  <2> QED
    BY <1>l, <1>2, <2>1, <2>2, <2>3 DEF Statement
<1>3. CASE ExecuteRaises
  BY <1>l, <1>3, RaisesIs, EndKeepsLockInv DEF tables, ExecuteRaises, Places, InTransaction, Handling, Actors
<1>4. CASE Database
  <2>1. CASE WorkerGoesOn
    BY <1>l, <2>1, <1>2, PlacesKeepLockInv DEF WorkerGoesOn, Actors
  <2>2. CASE \E c \in Requests : Cancel(c) \/ Statement(c)
    BY <1>l, <2>2, <1>2, CancelKeepsLockInv DEF Actors
  <2> QED
    BY <1>l, <1>3, <1>4, <2>1, <2>2 DEF Database
<1> QED
  BY <1>l, <1>1, <1>4 DEF AttemptNext, allVars, attemptVars, tables, Called, StopContainer

(* The invariant of the runner and this one hold for ever. *)
THEOREM LockInvariance == AttemptSpec => [](RunnerInv /\ LockInv)
<1>1. AttemptInit => RunnerInv /\ LockInv
  BY RunnerInitInv, LockInitInv DEF AttemptInit
<1>2. RunnerInv /\ LockInv /\ [AttemptNext]_allVars => (RunnerInv /\ LockInv)'
  <2> SUFFICES ASSUME RunnerInv, LockInv, [AttemptNext]_allVars PROVE RunnerInv' /\ LockInv'
    OBVIOUS
  <2>1. RunnerInv'
    BY StepOfRunner, RunnerNextInv
  <2>2. Flags'
    BY FlagsNextInv DEF LockInv, AttemptTypeOK, Flags
  <2> QED
    BY <2>1, <2>2, LockNextInv DEF RunnerInv
<1> QED
  BY <1>1, <1>2, PTL DEF AttemptSpec

(* Every reachable state of an attempt is well typed; an actor outside of  *)
(* a transaction holds no lock and has nothing loaded.                     *)
THEOREM AttemptTypeCorrect == AttemptSpec => []AttemptTypeOK
  BY LockInvariance, PTL DEF LockInv

(* No two transactions ever close the same allocations, for any number of  *)
(* cancel requests beside the worker's own transactions.                   *)
THEOREM ReleasesAlternate == AttemptSpec => []ReleasesTakeTurns
  BY LockInvariance, PTL DEF LockInv

(* Transactions wait for each other only when one is the failure handler.  *)
THEOREM DeadlocksAreTheHandlers == AttemptSpec => []OnlyHandlerDeadlocks
<1>1. LockInv => OnlyHandlerDeadlocks
  <2> SUFFICES ASSUME LockInv, NEW a \in Actors, NEW b \in Actors, Deadlock(a, b)
               PROVE at["worker"] \in Handling /\ "worker" \in {a, b}
    BY DEF OnlyHandlerDeadlocks
  <2> USE DEF LockInv
  <2>1. PICK q \in Rows : IsAt(a, Update(q)) /\ lock[q] = b
    BY DEF Deadlock, WaitsFor
  <2>2. PICK r \in Rows : IsAt(b, Update(r)) /\ lock[r] = a
    BY DEF Deadlock, WaitsFor
  <2>3. /\ at[a] \in InTransaction /\ step[a] \in 1..7 /\ step[a] = UpdateAt(at[a], q)
        /\ at[b] \in InTransaction /\ step[b] \in 1..7 /\ step[b] = UpdateAt(at[b], r)
    BY <2>1, <2>2, StatementIs DEF IsAt, AttemptTypeOK
  <2>4. UpdateAt(at[a], q) > UpdateAt(at[a], r) /\ UpdateAt(at[b], r) > UpdateAt(at[b], q)
    BY <2>1, <2>2, <2>3 DEF Locked
  <2>5. at[a] \in Handling \/ at[b] \in Handling
    BY <2>4 DEF UpdateAt, Rows
  <2>6. \A c \in Actors : at[c] \in Handling => c = "worker"
    BY DEF Shape, Actors, Handling
  <2> QED
    BY <2>5, <2>6
<1> QED
  BY <1>1, LockInvariance, PTL

(* A chain of three that wait turns back to its second: transactions can   *)
(* wait in a circle only two at a time, so that the pairs of Deadlock are  *)
(* all the deadlocks that PostgreSQL will ever find, for any number of     *)
(* requests.                                                               *)
CirclesAreOfTwo ==
  \A a, b, c, d \in Actors : WaitsFor(a, b) /\ WaitsFor(b, c) /\ WaitsFor(c, d) => d = b

THEOREM DeadlocksAreOfTwo == AttemptSpec => []CirclesAreOfTwo
<1>1. LockInv => CirclesAreOfTwo
  <2> SUFFICES ASSUME LockInv, NEW a \in Actors, NEW b \in Actors, NEW c \in Actors, NEW d \in Actors,
                      WaitsFor(a, b), WaitsFor(b, c), WaitsFor(c, d)
               PROVE  d = b
    BY DEF CirclesAreOfTwo
  <2> USE DEF LockInv
  <2>1. PICK p \in Rows : lock[p] = b
    BY DEF WaitsFor
  <2>2. PICK q \in Rows : IsAt(b, Update(q)) /\ lock[q] = c
    BY DEF WaitsFor
  <2>3. PICK r \in Rows : IsAt(c, Update(r)) /\ lock[r] = d
    BY DEF WaitsFor
  <2>4. /\ at[b] \in InTransaction /\ step[b] = UpdateAt(at[b], q)
        /\ at[c] \in InTransaction /\ step[c] = UpdateAt(at[c], r)
    BY <2>2, <2>3, StatementIs DEF IsAt, AttemptTypeOK
  <2>s. step \in [Actors -> 1..7]
    BY DEF AttemptTypeOK
  <2>5. /\ UpdateAt(at[b], p) < UpdateAt(at[b], q) /\ UpdateAt(at[c], q) < UpdateAt(at[c], r)
    BY <2>1, <2>2, <2>3, <2>4 DEF Locked
  <2>6. p # "devices" /\ q # "devices" /\ p # q /\ q # r
    BY <2>4, <2>5, StatementOrder DEF UpdateAt
  <2>7. CASE r = p
    BY <2>1, <2>3, <2>7
  <2>8. CASE r = "devices"
    <3>1. at[d] \in InTransaction /\ step[d] > 6
      <4>1. at[d] \in InTransaction
        BY <2>3 DEF AttemptTypeOK
      <4> QED BY <2>3, <2>8, <4>1 DEF Locked, UpdateAt
    <3>2. step[b] < 6
      BY <2>4, <2>6, StatementOrder DEF UpdateAt
    <3>3. step[c] = 6
      BY <2>4, <2>8 DEF UpdateAt
    <3>4. Flushed(d, "job") \/ Flushed(d, "run")
      BY DEF Flushed
    <3>5. lock["job"] = d \/ lock["run"] = d
      <4>1. \A x \in {"job", "run"} : x \in Rows /\ UpdateAt(at[d], x) < step[d]
        BY <3>1, <2>s DEF UpdateAt, Rows
      <4>2. \A x \in {"job", "run"} : Flushed(d, x) => lock[x] = d
        BY <3>1, <4>1 DEF Locked
      <4> QED BY <3>4, <4>2
    <3>6. {p, q} = {"job", "run"}
      BY <2>6 DEF Rows
    <3> QED BY <2>1, <2>2, <3>1, <3>2, <3>3, <3>5, <3>6
  <2> QED BY <2>6, <2>7, <2>8 DEF Rows
<1> QED
  BY <1>1, LockInvariance, PTL

-----------------------------------------------------------------------------
(* The second part: what job and run have come to *)

JobAndRun == {"job", "run"}

(* A request that was late has cancelled the job, and the run is as the    *)
(* tick made it.                                                           *)
LeftBehind == late # {} /\ row["job"] = "cancelled" /\ row["run"] = "scheduled"

(* Until the worker has picked the run up, only a cancellation touches the *)
(* two rows, and it touches both unless it is late.                        *)
Fresh ==
  at["worker"] = "pickup" =>
    /\ row["job"] \in {"scheduled", "cancelled"}
    /\ row["run"] = row["job"] \/ LeftBehind
    /\ \A a \in Actors, r \in JobAndRun : saw[a][r] \in Terminal => row[r] = "cancelled"

(* Once the worker ends the run, what it has seen over stays over; the run *)
(* does not go back to what the tick made it.                              *)
Settled ==
  /\ at["worker"] \in {"final"} \cup Handling =>
       \A r \in JobAndRun : saw["worker"][r] \in Terminal => row[r] \in Terminal
  /\ at["worker"] = "idle" => LeftBehind \/ \A r \in JobAndRun : row[r] \in Terminal

(* Success is written only after the report of it. *)
Honest ==
  /\ report = "ok" => container = "ok"
  /\ "completed" \in {row["job"], row["run"]} => report = "ok"

HandledInv == Fresh /\ Settled /\ Honest

(* The initial states satisfy it. *)
LEMMA HandledInitInv == AttemptInit => HandledInv
<1> SUFFICES ASSUME AttemptInit PROVE HandledInv
  OBVIOUS
<1> USE DEF AttemptInit, Rows, JobAndRun, Unread, Actors
<1>1. report # "ok"
  BY NoReportAssumption DEF Init, Codes
<1>2. Fresh
  <2>1. \A a \in Actors, r \in JobAndRun : saw[a][r] \notin Terminal
    BY DEF Terminal
  <2> QED
    BY <2>1 DEF Fresh
<1>3. Settled /\ Honest
  BY <1>1 DEF Settled, Honest, Terminal, Handling
<1> QED
  BY <1>2, <1>3 DEF HandledInv

(* A report of success speaks of a container that succeeded, for ever. *)
LEMMA ReportStays ==
  ASSUME RunnerInv, [Next]_vars, report = "ok" => container = "ok"
  PROVE  /\ report' = "ok" => container' = "ok"
         /\ report = "ok" => report' = "ok"
<1>1. [Contract!Next]_Contract!vars
  BY ContractStep
<1> QED
  BY <1>1, NoReportAssumption DEF Contract!Next, Contract!vars, Contract!Start, Contract!End,
     Contract!Report, Codes

(* A step that writes no row and loads nothing, with the worker elsewhere. *)
LEMMA EndKeepsHandledInv ==
  ASSUME LockInv, HandledInv, NEW a \in Actors, NEW place \in Places, EndAt(a, place),
         UNCHANGED <<row, late, report, container>>,
         a = "worker" => place \notin {"pickup", "idle"}
  PROVE  HandledInv'
<1>1. /\ at'["worker"] = (IF a = "worker" THEN place ELSE at["worker"])
      /\ \A b \in Actors : saw'[b] = (IF b = a THEN Unread ELSE saw[b])
  BY DEF EndAt, Goto, End, LockInv, AttemptTypeOK, Actors
<1>2. \A r \in JobAndRun : Unread[r] \notin Terminal
  BY DEF Unread, Terminal, JobAndRun, Rows
<1>3. Fresh'
  BY <1>1, <1>2 DEF HandledInv, Fresh, LeftBehind
<1>4. Settled'
  BY <1>1, <1>2 DEF HandledInv, Settled, LeftBehind, Actors
<1>5. Honest'
  BY DEF HandledInv, Honest
<1> QED
  BY <1>3, <1>4, <1>5 DEF HandledInv

(* What a commit leaves behind. *)
LEMMA CommitWrites ==
  ASSUME LockInv, NEW a \in Actors, Commit(a)
  PROVE  /\ at[a] \in InTransaction
         /\ at'["worker"] = (IF a # "worker" THEN at["worker"]
                             ELSE IF at[a] = "pickup" THEN "prepare" ELSE "idle")
         /\ \A b \in Actors : saw'[b] = (IF b = a THEN Unread ELSE saw[b])
         /\ \A r \in JobAndRun :
              row'[r] = (IF saw[a][r] \in {"unread", Outcome(a, r)} THEN row[r] ELSE Outcome(a, r))
         /\ \A r \in JobAndRun : Unread[r] \notin Terminal
<1>1. \A r \in JobAndRun :
        row'[r] = (IF saw[a][r] \in {"unread", Outcome(a, r)} THEN row[r] ELSE Outcome(a, r))
  BY DEF Commit, Written, JobAndRun, Rows
<1>2. \A r \in JobAndRun : Unread[r] \notin Terminal
  BY DEF Unread, Terminal, JobAndRun, Rows
<1> QED
  BY <1>1, <1>2 DEF Commit, EndAt, Goto, End, LockInv, AttemptTypeOK, Actors

(* What a transaction has loaded when it commits. *)
LEMMA LoadedAtCommit ==
  ASSUME LockInv, NEW a \in Actors, Commit(a), NEW r \in JobAndRun
  PROVE  saw[a][r] = "unread" <=> at[a] = "late" /\ r = "run"
<1>1. at[a] \in InTransaction /\ step[a] \in 1..7 /\ step[a] > Length(at[a]) /\ r \in Rows
  BY StatementIs DEF Commit, LockInv, AttemptTypeOK, Rows, JobAndRun
<1>2. step[a] <= Length(at[a]) + 1
  BY <1>1 DEF LockInv, Shape
<1>3. step[a] = Length(at[a]) + 1
  BY <1>1, <1>2, StatementOrder
<1>4. saw[a][r] # "unread" <=> Length(at[a]) + 1 > SelectAt(at[a], r)
  BY <1>1, <1>3 DEF LockInv, Loaded
<1>5. CASE at[a] = "late"
  BY <1>4, <1>5 DEF Length, SelectAt, JobAndRun
<1>6. CASE at[a] = "pickup"
  BY <1>4, <1>6 DEF Length, SelectAt, JobAndRun, Handling
<1>7. CASE at[a] \notin {"late", "pickup"}
  <2>1. Length(at[a]) = 6
    BY <1>1, <1>7, StatementOrder
  <2>2. SelectAt(at[a], r) \in 1..5
    BY <1>1, StatementOrder
  <2> QED
    BY <1>4, <1>7, <2>1, <2>2
<1> QED BY <1>5, <1>6, <1>7

(* ... and what the two rows come to by a cancellation. *)
LEMMA CancellationWrites ==
  ASSUME LockInv, NEW c \in Requests, Commit(c), NEW r \in JobAndRun
  PROVE  IF at[c] = "late" /\ r = "run" THEN row'[r] = row[r]
         ELSE IF saw[c][r] \in Terminal THEN row'[r] = row[r] ELSE row'[r] = "cancelled"
<1>1. c \in Actors /\ at[c] \in {"cancel", "late"}
  BY CommitWrites DEF Actors, LockInv, Shape, InTransaction, Handling
<1>2. Outcome(c, r) = IF saw[c][r] \in Terminal THEN saw[c][r] ELSE "cancelled"
  BY <1>1, Zenon DEF Outcome, Handling
<1>3. saw[c][r] = "unread" <=> at[c] = "late" /\ r = "run"
  BY <1>1, LoadedAtCommit
<1> QED
  BY <1>1, <1>2, <1>3, CommitWrites DEF Terminal

(* A commit of the worker after the pickup leaves the rows over. *)
LEMMA FinalWrites ==
  ASSUME LockInv, HandledInv, Commit("worker"), at["worker"] # "pickup", NEW r \in JobAndRun
  PROVE  /\ row'[r] \in Terminal
         /\ row'[r] = "completed" => row[r] = "completed" \/ report = "ok"
<1>1. "worker" \in Actors /\ at["worker"] \in {"final"} \cup Handling
  BY CommitWrites DEF Actors, LockInv, Shape, InTransaction
<1>r. saw["worker"][r] # "unread"
  BY <1>1, LoadedAtCommit DEF Handling
<1>2. /\ FinalStatus \in Terminal
      /\ FinalStatus = "completed" => report = "ok"
  BY DEF FinalStatus, Terminal
<1>3. /\ Outcome("worker", r) \in Terminal
      /\ Outcome("worker", r) = "completed" => report = "ok"
  <2>1. CASE at["worker"] = "final"
    <3>1. Outcome("worker", r) =
            IF saw["worker"][r] = "cancelled" THEN "cancelled" ELSE FinalStatus
      BY <2>1, Zenon DEF Outcome, Handling
    <3> QED
      BY <3>1, <1>2 DEF Terminal
  <2>2. CASE at["worker"] \in Handling
    <3>1. Outcome("worker", r) = "failed"
      BY <2>2 DEF Outcome, Handling
    <3> QED
      BY <3>1 DEF Terminal
  <2> QED
    BY <1>1, <2>1, <2>2
<1> QED
  BY <1>1, <1>r, <1>3, CommitWrites DEF HandledInv, Settled

(* A commit keeps the second part. *)
LEMMA CommitKeepsHandledInv ==
  ASSUME LockInv, HandledInv, NEW a \in Actors, Commit(a), UNCHANGED vars
  PROVE  HandledInv'
<1>1. report' = report /\ container' = container /\ late' = late
  BY DEF vars, Commit
<1>2. CASE a \in Requests
  <2>1. a # "worker" /\ at'["worker"] = at["worker"]
    BY <1>2, RequestsAssumption, CommitWrites
  <2>2. \A r \in JobAndRun :
          IF at[a] = "late" /\ r = "run" THEN row'[r] = row[r]
          ELSE IF saw[a][r] \in Terminal THEN row'[r] = row[r] ELSE row'[r] = "cancelled"
    BY <1>2, CancellationWrites
  <2>3. \A b \in Actors, r \in JobAndRun :
          saw'[b][r] \in Terminal => saw[b][r] \in Terminal /\ saw'[b] = saw[b]
    BY CommitWrites
  <2>l. at[a] = "late" => late # {}
    BY <1>2 DEF LockInv, Shape
  <2>4. Fresh'
    <3> SUFFICES ASSUME at["worker"] = "pickup"
                 PROVE  /\ row'["job"] \in {"scheduled", "cancelled"}
                        /\ row'["run"] = row'["job"] \/ LeftBehind'
                        /\ \A b \in Actors, r \in JobAndRun :
                             saw'[b][r] \in Terminal => row'[r] = "cancelled"
      BY <2>1 DEF Fresh
    <3>1. row'["job"] = "cancelled"
      BY <2>2 DEF HandledInv, Fresh, JobAndRun
    <3>2. CASE at[a] = "late"
      <4>1. row'["run"] = row["run"]
        BY <2>2, <3>2 DEF JobAndRun
      <4>2. row["run"] \in {"scheduled", "cancelled"}
        BY DEF HandledInv, Fresh, LeftBehind
      <4> QED
        BY <1>1, <2>l, <2>3, <3>1, <3>2, <4>1, <4>2 DEF HandledInv, Fresh, LeftBehind, JobAndRun
    <3>3. CASE at[a] # "late"
      <4>1. row'["run"] = "cancelled"
        BY <2>2, <3>3 DEF HandledInv, Fresh, JobAndRun
      <4> QED
        BY <3>1, <4>1 DEF JobAndRun
    <3> QED
      BY <3>2, <3>3
  <2>5. \A r \in JobAndRun : row[r] \in Terminal => row'[r] \in Terminal
    BY <2>2 DEF Terminal
  <2>6. Settled'
    <3>1. LeftBehind => LeftBehind' \/ \A r \in JobAndRun : row'[r] \in Terminal
      BY <1>1, <2>2 DEF LeftBehind, JobAndRun, Terminal
    <3> QED
      BY <2>1, <2>3, <2>5, <3>1 DEF HandledInv, Settled, Actors
  <2>7. Honest'
    BY <1>1, <2>2 DEF HandledInv, Honest, JobAndRun
  <2> QED
    BY <2>4, <2>6, <2>7 DEF HandledInv
<1>3. CASE a = "worker" /\ at["worker"] = "pickup"
  <2>1. at'["worker"] = "prepare"
    BY <1>3, CommitWrites
  <2>2. \A r \in JobAndRun : Outcome("worker", r) = "running"
    BY <1>3, Zenon DEF Outcome, Handling
  <2>3. \A r \in JobAndRun : row'[r] \in {row[r], "running"}
    BY <1>3, <2>2, CommitWrites
  <2> QED
    BY <1>1, <2>1, <2>3 DEF HandledInv, Fresh, Settled, Honest, Handling, JobAndRun
<1>4. CASE a = "worker" /\ at["worker"] # "pickup"
  <2>1. at'["worker"] = "idle"
    BY <1>4, CommitWrites
  <2> QED
    BY <1>1, <1>4, <2>1, FinalWrites DEF HandledInv, Fresh, Settled, Honest, Handling, JobAndRun
<1> QED
  BY <1>2, <1>3, <1>4 DEF Actors

(* The worker leaves the run alone only when both rows are cancelled, or   *)
(* the job by a late request.                                              *)
LEMMA SelectKeepsHandledInv ==
  ASSUME LockInv, HandledInv, NEW a \in Actors, NEW r \in Rows, SelectRow(a, r), UNCHANGED vars
  PROVE  HandledInv'
<1>1. row' = row /\ late' = late /\ report' = report /\ container' = container
  BY DEF tables, SelectRow, vars
<1>2. CASE Skipped(a, r)
  <2>1. a = "worker" /\ at["worker"] = "pickup" /\ EndAt(a, "idle")
    BY <1>2, RequestsAssumption DEF Skipped, SelectRow, LockInv, Shape, Actors
  <2>2. /\ at'["worker"] = "idle"
        /\ \A b \in Actors : saw'[b] = (IF b = a THEN Unread ELSE saw[b])
    BY <2>1 DEF EndAt, Goto, End, LockInv, AttemptTypeOK, Actors
  <2>3. LeftBehind \/ \A q \in JobAndRun : row[q] = "cancelled"
    BY <1>2, <2>1 DEF Skipped, HandledInv, Fresh, LeftBehind, JobAndRun, Terminal
  <2> QED
    BY <1>1, <2>2, <2>3 DEF HandledInv, Fresh, Settled, LeftBehind, Honest, Handling, Terminal
<1>3. CASE ~Skipped(a, r)
  <2>1. at' = at /\ saw' = [saw EXCEPT ![a][r] = row[r]]
    BY <1>3 DEF SelectRow, Goto, LockInv, AttemptTypeOK
  <2>2. \A b \in Actors, q \in Rows :
          saw'[b][q] = (IF b = a /\ q = r THEN row[r] ELSE saw[b][q])
    BY <2>1 DEF LockInv, AttemptTypeOK
  <2>3. JobAndRun \subseteq Rows
    BY DEF JobAndRun, Rows
  <2>4. Fresh'
    <3> SUFFICES ASSUME at["worker"] = "pickup", NEW b \in Actors, NEW q \in JobAndRun,
                        saw'[b][q] \in Terminal
                 PROVE  row[q] = "cancelled"
      BY <1>1, <2>1 DEF HandledInv, Fresh, LeftBehind
    <3>1. {row["job"], row["run"]} \subseteq {"scheduled", "cancelled"}
      BY DEF HandledInv, Fresh, LeftBehind
    <3>2. CASE b = a /\ q = r
      BY <2>2, <2>3, <3>1, <3>2 DEF JobAndRun, Terminal
    <3>3. CASE ~(b = a /\ q = r)
      BY <2>2, <2>3, <3>3 DEF HandledInv, Fresh
    <3> QED BY <3>2, <3>3
  <2>5. Settled'
    <3>1. "worker" \in Actors
      BY DEF Actors
    <3>2. \A q \in JobAndRun :
            saw'["worker"][q] \in Terminal => saw["worker"][q] \in Terminal \/ row[q] \in Terminal
      BY <2>2, <2>3, <3>1
    <3> QED
      BY <1>1, <2>1, <3>2 DEF HandledInv, Settled, LeftBehind
  <2> QED
    BY <1>1, <2>4, <2>5 DEF HandledInv, Honest
<1> QED
  BY <1>2, <1>3

(* A request starts from a job that is not over. *)
LEMMA CancelKeepsHandledInv ==
  ASSUME LockInv, HandledInv, NEW c \in Requests, Cancel(c), UNCHANGED vars
  PROVE  HandledInv'
<1>1. c \in Actors /\ c # "worker" /\ "worker" \in Actors
  BY RequestsAssumption DEF Actors
<1>2. /\ row' = row /\ late' = late /\ report' = report /\ container' = container
      /\ row["job"] \in {"scheduled", "running"} /\ at'["worker"] = at["worker"]
  BY <1>1 DEF tables, Cancel, Goto, vars, LockInv, AttemptTypeOK
<1>3. \A b \in Actors, q \in Rows :
        saw'[b][q] = (IF b = c /\ q = "job" THEN row["job"] ELSE saw[b][q])
  BY <1>1 DEF Cancel, LockInv, AttemptTypeOK
<1>4. \A b \in Actors, q \in JobAndRun :
        saw'[b][q] \in Terminal => saw[b][q] \in Terminal
  BY <1>2, <1>3 DEF JobAndRun, Rows, Terminal
<1> QED
  BY <1>1, <1>2, <1>4 DEF HandledInv, Fresh, Settled, LeftBehind, Honest

(* Every step keeps it. *)
LEMMA HandledNextInv ==
  ASSUME RunnerInv, LockInv, HandledInv, [AttemptNext]_allVars
  PROVE  HandledInv'
<1>l. late' = late
  BY LateStays
<1>1. CASE UNCHANGED <<row, at, step, saw, lock>>
  <2>1. /\ report' = "ok" => container' = "ok"
        /\ report = "ok" => report' = "ok"
    BY StepOfRunner, ReportStays DEF HandledInv, Honest
  <2> QED
    BY <1>l, <1>1, <2>1 DEF HandledInv, Fresh, Settled, LeftBehind, Honest
<1>2. ASSUME NEW a \in Actors, Statement(a), UNCHANGED vars PROVE HandledInv'
  <2>1. CASE \E r \in Rows : SelectRow(a, r)
    BY <1>2, <2>1, SelectKeepsHandledInv
  <2>2. CASE \E r \in Rows : UpdateRow(a, r)
    <3>1. row' = row /\ saw' = saw /\ at' = at /\ report' = report /\ container' = container
      BY <1>2, <2>2 DEF tables, UpdateRow, Goto, vars, LockInv, AttemptTypeOK
    <3> QED
      BY <1>l, <3>1 DEF HandledInv, Fresh, Settled, LeftBehind, Honest
  <2>3. CASE Commit(a)
    BY <1>2, <2>3, CommitKeepsHandledInv
  <2>4. CASE DeadlockAborts(a)
    <3>1. UNCHANGED <<row, late, report, container>>
      BY <1>l, <1>2, <2>4 DEF tables, DeadlockAborts, vars
    <3>2. CASE a = "worker"
      BY <2>4, <3>1, <3>2, RaisesIs, EndKeepsHandledInv
         DEF DeadlockAborts, Places, InTransaction, Handling
    <3>3. CASE a # "worker"
      BY <2>4, <3>1, <3>3, EndKeepsHandledInv DEF DeadlockAborts, Places
    <3> QED BY <3>2, <3>3
  <2> QED
    BY <1>2, <2>1, <2>2, <2>3, <2>4 DEF Statement
<1>3. ASSUME Prepared \/ RunnerReturned \/ Collected, UNCHANGED vars PROVE HandledInv'
  <2>1. "worker" \in Actors /\ row' = row /\ report' = report /\ container' = container
    BY <1>3 DEF tables, Actors, Prepared, RunnerReturned, Collected, vars
  <2>2. /\ saw' = saw /\ saw["worker"] = Unread
        /\ at'["worker"] \in {"run", "collect", "final"}
    BY <1>3, <2>1 DEF Prepared, RunnerReturned, Collected, Goto, LockInv, AttemptTypeOK,
       InTransaction, Handling
  <2>3. \A r \in JobAndRun : saw["worker"][r] \notin Terminal
    BY <2>2 DEF Unread, Terminal, JobAndRun, Rows
  <2> QED
    BY <1>l, <2>1, <2>2, <2>3 DEF HandledInv, Fresh, Settled, LeftBehind, Honest
<1>4. ASSUME ExecuteRaises, UNCHANGED vars PROVE HandledInv'
  BY <1>l, <1>4, RaisesIs, EndKeepsHandledInv DEF tables, ExecuteRaises, Places, InTransaction, Handling, Actors,
     vars
<1>5. CASE Database
  <2>1. CASE WorkerGoesOn
    BY <1>5, <2>1, <1>2, <1>3 DEF WorkerGoesOn, Actors, Database
  <2>2. CASE \E c \in Requests : Cancel(c) \/ Statement(c)
    BY <1>5, <2>2, <1>2, CancelKeepsHandledInv DEF Actors, Database
  <2> QED
    BY <1>4, <1>5, <2>1, <2>2 DEF Database
<1> QED
  BY <1>1, <1>5 DEF AttemptNext, allVars, attemptVars, tables, Called, StopContainer

(* A run that the worker has handled is over, and so is its job, with the  *)
(* devices given back, on whatever path it went and whatever was cancelled *)
(* meanwhile; the only exception is a request that had loaded the job as   *)
(* queued and cancels it without its run.  Only a container that ended     *)
(* with code zero is completed.                                            *)
THEOREM HandledRunsAreOver == AttemptSpec => []HandledMeansOver
<1>1. AttemptInit => HandledInv
  BY HandledInitInv
<1>2. RunnerInv /\ LockInv /\ HandledInv /\ [AttemptNext]_allVars => HandledInv'
  BY HandledNextInv
<1>3. LockInv /\ HandledInv => HandledMeansOver
  BY DEF LockInv, OverMeansClosed, HandledInv, Settled, LeftBehind, Honest, HandledMeansOver, JobAndRun
<1> QED
  BY <1>1, <1>2, <1>3, LockInvariance, PTL DEF AttemptSpec
=============================================================================
