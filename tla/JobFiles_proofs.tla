-------------------------- MODULE JobFiles_proofs --------------------------
(***************************************************************************)
(* Proofs about the files of a run: what the artifact rows tell, for any   *)
(* set of requests, repositories, outputs and contents.                    *)
(***************************************************************************)
EXTENDS JobFiles, FiniteSetTheorems, WellFoundedInduction, TLAPS

(* No two outputs have the same name (without it see the run "collision"). *)
NamesDistinct == \A f, g \in Outputs : NameOf[f] = NameOf[g] => f = g

Before == {"idle", "rejected", "queued", "prepared", "running"}
Ended == {"collected", "copied", "recorded"}
After == {"collecting"} \cup Ended

(* The variables that the collection works on are well typed. *)
Typed ==
  /\ out \in [Outputs -> Contents \cup {NoContent}]
  /\ object \in [{NameOf[f] : f \in Outputs} -> Contents \cup {NoContent}]
  /\ hashed \in Hashes \cup {NoHash}
  /\ artifacts \subseteq Hashes

(* What has been collected at each stage. *)
Stepwise ==
  /\ stage \in Before => artifacts = {} /\ hashed = NoHash
  /\ stage \in Ended => hashed = NoHash
  /\ stage # "recorded" => rows = {}
  /\ stage = "recorded" => rows = artifacts

(* Nobody writes any more while the outputs are collected. *)
Quiet == stage \in After /\ ~survived => container # "up"

(* An entry of the list tells what its file and its object hold. *)
Truthful(a) == a.file \in Walked /\ a.sha = out[a.file]
Stored(a) == object[NameOf[a.file]] = a.sha
Faithful ==
  stage \in After /\ ~survived =>
    /\ \A a \in artifacts : Truthful(a) /\ (NamesDistinct => Stored(a))
    /\ hashed # NoHash => Truthful(hashed)

Complete == stage \in Ended /\ ~survived => Walked \subseteq Uploaded

Inv == Typed /\ Stepwise /\ Quiet /\ Faithful /\ Complete

(* Nothing is collected when a run begins. *)
LEMMA InitInv == Init => Inv
  BY DEF Init, Inv, Typed, Stepwise, Quiet, Faithful, Complete, Before, Ended, After, Hashes, Checksums

(* A step that leaves the collection alone, writes no output after the end *)
(* of the container and does not end the collection keeps the invariant.   *)
LEMMA Bystander ==
  ASSUME Inv, UNCHANGED artifactVars, Typed',
         \/ UNCHANGED <<stage, out, container, survived>>
         \/ stage \in Before /\ stage' \in Before \cup {"failed"}
         \/ stage' = "failed" /\ stage # "recorded"
         \/ container = "up" /\ UNCHANGED <<stage, survived>> /\ (stage \in After => survived)
  PROVE  Inv'
<1> USE DEF Inv, artifactVars, Before, Ended, After
<1>1. Stepwise'
  BY DEF Stepwise
<1>2. Quiet'
  BY DEF Quiet
<1>3. Faithful'
  BY DEF Faithful, Stepwise, Truthful, Stored, Walked
<1>4. Complete'
  BY DEF Complete, Walked, Uploaded
<1> QED BY <1>1, <1>2, <1>3, <1>4

(* The file that is hashed is an output, and its checksum is true. *)
LEMMA HashFileInv ==
  ASSUME Inv, NEW f \in Outputs, HashFile(f)
  PROVE  Inv'
<1> USE DEF Inv, HashFile, inputVars, programVars, Before, Ended, After
<1>1. Typed'
  BY DEF Typed, Walked, Hashes, Checksums
<1>2. Truthful(hashed)'
  BY DEF Truthful, Walked
<1>3. Faithful'
  BY <1>2 DEF Faithful, Truthful, Stored, Walked
<1> QED BY <1>1, <1>3 DEF Stepwise, Quiet, Complete, NoHash

(* The upload stores what was hashed, under a key of its own. *)
LEMMA UploadArtifactInv ==
  ASSUME Inv, UploadArtifact
  PROVE  Inv'
<1> USE DEF Inv, UploadArtifact, inputVars, programVars, Before, Ended, After
<1>1. hashed \in Hashes /\ hashed.file \in Outputs /\ hashed.sha \in Contents
  BY DEF Typed, Hashes, Checksums
<1>2. Typed'
  BY <1>1 DEF Typed, ObjectKey
<1>3. Faithful'
  <2> SUFFICES ASSUME ~survived, NEW a \in artifacts'
               PROVE  (Truthful(a) /\ (NamesDistinct => Stored(a)))'
    BY DEF Faithful
  <2>1. a \in Hashes /\ a.file \in Outputs
    BY <1>2 DEF Typed, Hashes
  <2>2. Truthful(hashed) /\ Truthful(a) /\ (a # hashed /\ NamesDistinct => Stored(a))
    BY DEF Faithful
  <2>3. object' = [object EXCEPT ![NameOf[hashed.file]] = out[hashed.file]]
    BY DEF ObjectKey
  <2>4. CASE a.file = hashed.file
    BY <1>1, <2>1, <2>2, <2>3, <2>4 DEF Truthful, Stored, Walked, Typed
  <2>5. CASE a.file # hashed.file
    <3>1. NamesDistinct => NameOf[a.file] # NameOf[hashed.file]
      BY <1>1, <2>1, <2>5 DEF NamesDistinct
    <3> QED BY <1>1, <2>1, <2>2, <2>3, <2>5, <3>1 DEF Truthful, Stored, Walked, Typed
  <2> QED BY <2>4, <2>5
<1> QED BY <1>2, <1>3 DEF Stepwise, Quiet, Complete

(* The list is complete when the collection ends. *)
LEMMA CollectEndsInv ==
  ASSUME Inv, CollectEnds
  PROVE  Inv'
BY DEF Inv, CollectEnds, inputVars, programVars, artifactVars, Before, Ended, After, Typed, Stepwise,
       Quiet, Faithful, Truthful, Stored, Complete, Walked, Uploaded

(* The logs are no outputs. *)
LEMMA CopyLogsInv ==
  ASSUME Inv, CopyLogs
  PROVE  Inv'
BY DEF Inv, CopyLogs, inputVars, programVars, artifactVars, Before, Ended, After, Typed, Stepwise,
       Quiet, Faithful, Truthful, Stored, Complete, Walked, Uploaded

(* The rows are the list. *)
LEMMA RecordInv ==
  ASSUME Inv, Record
  PROVE  Inv'
BY DEF Inv, Record, inputVars, programVars, Before, Ended, After, Typed, Stepwise,
       Quiet, Faithful, Truthful, Stored, Complete, Walked, Uploaded

(* The end of the container: the collection begins with nothing. *)
LEMMA RunnerInv ==
  ASSUME Inv, RunnerReturns \/ RunnerGivesUp
  PROVE  Inv'
BY DEF Inv, RunnerReturns, RunnerGivesUp, inputVars, programVars, artifactVars, Before, Ended, After,
       Typed, Stepwise, Quiet, Faithful, Complete

(* Every step keeps the invariant. *)
LEMMA NextInv ==
  ASSUME Inv, [Next]_vars
  PROVE  Inv'
<1> USE DEF Before, inputVars, programVars
<1>1. ASSUME NEW q \in Requests, Submit(q) PROVE Inv'
  BY <1>1, Bystander DEF Submit, Inv, Typed, artifactVars
<1>2. CASE PrepareFile
  BY <1>2, Bystander DEF PrepareFile, Inv, Typed, artifactVars
<1>3. ASSUME NEW files \in Repos, PrepareRepo(files) PROVE Inv'
  BY <1>3, Bystander DEF PrepareRepo, Inv, Typed, artifactVars
<1>4. CASE PrepareRaises
  BY <1>4, Bystander DEF PrepareRaises, Inv, Typed, artifactVars
<1>5. CASE Launch
  BY <1>5, Bystander DEF Launch, Inv, Typed, artifactVars
<1>6. CASE RunnerReturns \/ RunnerGivesUp
  BY <1>6, RunnerInv
<1>7. ASSUME NEW f \in Outputs, HashFile(f) PROVE Inv'
  BY <1>7, HashFileInv
<1>8. CASE UploadArtifact
  BY <1>8, UploadArtifactInv
<1>9. CASE UploadRaises
  BY <1>9, Bystander DEF UploadRaises, Inv, Typed, artifactVars
<1>10. CASE CollectEnds
  BY <1>10, CollectEndsInv
<1>15. CASE ReadLog
  BY <1>15, Bystander DEF ReadLog, Inv, Typed, artifactVars
<1>16. CASE CopyLogs
  BY <1>16, CopyLogsInv
<1>11. CASE Record
  BY <1>11, RecordInv
<1>12. CASE StepSucceeds \/ StepFails \/ MainSucceeds
  BY <1>12, Bystander DEF StepSucceeds, StepFails, MainSucceeds, Inv, Typed, Quiet, artifactVars
<1>13. ASSUME NEW f \in Outputs, NEW c \in Contents, Write(f, c) PROVE Inv'
  <2>1. Typed'
    BY <1>13 DEF Write, Inv, Typed, artifactVars
  <2> QED BY <1>13, <2>1, Bystander DEF Write, Inv, Quiet
<1>14. CASE UNCHANGED vars
  BY <1>14, Bystander DEF vars, Inv, Typed, artifactVars
<1> QED BY <1>1, <1>2, <1>3, <1>4, <1>5, <1>6, <1>7, <1>8, <1>9, <1>10, <1>11, <1>12, <1>13, <1>14, <1>15, <1>16
        DEF Next, Worker, Program

(* The collection tells the truth about the outputs, at every stage. *)
THEOREM FilesInvariance == Spec => []Inv
<1>1. Inv /\ [Next]_vars => Inv'
  BY NextInv
<1> QED BY <1>1, InitInv, PTL DEF Spec

(* Whatever the programs write and whatever fails, the checksum in a row   *)
(* is that of the stored object, when no two outputs have the same name.   *)
THEOREM ChecksumsTrue ==
  ASSUME NamesDistinct
  PROVE  Spec => []RowsTellContents
<1>1. Inv => RowsTellContents
  BY DEF Inv, Stepwise, Faithful, Stored, RowsTellContents, ObjectKey, Ended, After
<1> QED BY <1>1, FilesInvariance, PTL

(* The rows are all or nothing, and then they are the outputs: for every   *)
(* root, and none for one that has a skipped name in its path.             *)
THEOREM RowsAreOutputs == Spec => []OutputsRecorded
<1>1. ASSUME Inv, stage = "recorded", ~survived
      PROVE  rows = {[file |-> f, sha |-> out[f]] : f \in Walked}
  <2>1. rows = artifacts /\ Walked \subseteq Uploaded /\ \A a \in artifacts : Truthful(a)
    BY <1>1 DEF Inv, Stepwise, Complete, Faithful, Ended, After
  <2>2. \A a \in artifacts : a = [file |-> a.file, sha |-> a.sha]
    BY <1>1 DEF Inv, Typed, Hashes
  <2> QED BY <2>1, <2>2 DEF Truthful, Uploaded
<1>2. Walked = IF RootParts \cap Skipped # {} THEN {}
               ELSE {g \in Outputs : out[g] # NoContent /\ PlaceOf[g] \notin Skipped}
  BY DEF Walked
<1>3. Inv => OutputsRecorded
  BY <1>1, <1>2 DEF OutputsRecorded, Inv, Stepwise
<1> QED BY <1>3, FilesInvariance, PTL

-----------------------------------------------------------------------------
(* The chain of commands, and the types. *)

Kinds == {"pip", "setup", "main"}

(* The main command comes last, whatever precedes it; an installation      *)
(* comes first.                                                            *)
IsChain(s) ==
  /\ \E S : s \in Seq(S)
  /\ Len(s) \in 1..3
  /\ \A i \in 1..Len(s) : s[i].kind \in Kinds
  /\ s[Len(s)].kind = "main"

(* A sequence that has at most one element. *)
Optional(s, kind, S) == s \in Seq(S) /\ Len(s) \in 0..1 /\ (s # <<>> => s[1].kind = kind)

(* Three steps, the first two of which may be missing. *)
LEMMA ChainOfThree ==
  ASSUME NEW S, NEW p, NEW u, NEW m,
         Optional(p, "pip", S), Optional(u, "setup", S), Optional(m, "main", S), m # <<>>
  PROVE  /\ IsChain(p \o u \o m)
         /\ p # <<>> => Head(p \o u \o m) = p[1] /\ p[1].kind = "pip"
<1> DEFINE s == p \o u \o m
<1> USE DEF Optional
<1>1. Len(m) = 1 /\ m[1].kind = "main"
  OBVIOUS
<1>2. p \o u \in Seq(S) /\ Len(p \o u) = Len(p) + Len(u)
  OBVIOUS
<1>3. s \in Seq(S) /\ Len(s) = Len(p) + Len(u) + 1
  <2>1. ASSUME NEW t \in Seq(S) PROVE t \o m \in Seq(S) /\ Len(t \o m) = Len(t) + Len(m)
    OBVIOUS
  <2> QED BY <1>1, <1>2, <2>1
<1>4. s[Len(s)].kind = "main"
  BY <1>1, <1>2, <1>3
<1>5. p # <<>> => s[1] = p[1] /\ p[1].kind = "pip"
  BY <1>2
<1>6. p = <<>> /\ u # <<>> => s[1].kind = "setup"
  BY <1>2
<1>7. p # <<>> /\ u # <<>> => s[2].kind = "setup"
  <2>1. ASSUME p # <<>>, u # <<>> PROVE Len(p) = 1 /\ Len(u) = 1 /\ (p \o u)[2] = u[1]
    BY <2>1
  <2> QED BY <1>2, <2>1
<1>8. \A i \in 1..Len(s) : s[i].kind \in Kinds
  <2> SUFFICES ASSUME NEW i \in 1..Len(s), i # Len(s) PROVE s[i].kind \in Kinds
    BY <1>4 DEF Kinds
  <2>1. i = 1 \/ (i = 2 /\ Len(p) = 1 /\ Len(u) = 1)
    BY <1>3
  <2>2. i = 1 => p # <<>> \/ u # <<>>
    BY <1>3
  <2> QED BY <1>5, <1>6, <1>7, <2>1, <2>2 DEF Kinds
<1> HIDE DEF s
<1>9. p # <<>> => Head(s) = s[1]
  BY <1>3
<1> QED BY <1>3, <1>4, <1>5, <1>8, <1>9 DEF IsChain, s

(* The steps of the worker form such a chain. *)
LEMMA StepsAreChain ==
  ASSUME NEW q, NEW w
  PROVE  /\ IsChain(Steps(q, w))
         /\ PipStep(q, w) # <<>> =>
              Head(Steps(q, w)).kind = "pip" /\ Head(Steps(q, w)) = PipStep(q, w)[1]
<1> DEFINE S == {PipStep(q, w)[1], SetupStep(q, w)[1], MainStep(q)[1]}
<1>1. PipStep(q, w) = <<>> \/ \E f : PipStep(q, w) = <<[kind |-> "pip", file |-> f]>>
  BY DEF PipStep
<1>2. SetupStep(q, w) = <<>> \/ \E f : SetupStep(q, w) = <<[kind |-> "setup", file |-> f]>>
  BY DEF SetupStep
<1>3. \E f : MainStep(q) = <<[kind |-> "main", file |-> f]>>
  BY DEF MainStep
<1>4. ASSUME NEW s, NEW kind, s[1] \in S, s = <<>> \/ \E f : s = <<[kind |-> kind, file |-> f]>>
      PROVE  Optional(s, kind, S)
  <2> HIDE DEF S
  <2>1. CASE s = <<>>
    BY <2>1 DEF Optional
  <2>2. CASE s # <<>>
    <3>1. PICK f : s = <<[kind |-> kind, file |-> f]>>
      BY <1>4, <2>2
    <3> QED BY <1>4, <3>1 DEF Optional
  <2> QED BY <2>1, <2>2
<1>5. PipStep(q, w)[1] \in S /\ SetupStep(q, w)[1] \in S /\ MainStep(q)[1] \in S
  OBVIOUS
<1> HIDE DEF S
<1>6. Optional(PipStep(q, w), "pip", S)
  BY <1>1, <1>4, <1>5
<1>7. Optional(SetupStep(q, w), "setup", S)
  BY <1>2, <1>4, <1>5
<1>8. Optional(MainStep(q), "main", S) /\ MainStep(q) # <<>>
  BY <1>3, <1>4, <1>5
<1> QED BY <1>6, <1>7, <1>8, ChainOfThree DEF Steps

(* What is left after a step that is not the main one is a chain. *)
LEMMA TailIsChain ==
  ASSUME NEW s, IsChain(s), Head(s).kind # "main"
  PROVE  IsChain(Tail(s))
<1>1. PICK S : s \in Seq(S)
  BY DEF IsChain
<1>2. Head(s) = s[1] /\ Len(s) \in 2..3
  BY <1>1 DEF IsChain
<1>3. /\ Tail(s) \in Seq(S) /\ Len(Tail(s)) = Len(s) - 1
      /\ \A i \in 1..(Len(s) - 1) : Tail(s)[i] = s[i + 1]
  BY <1>1, <1>2
<1> QED BY <1>1, <1>2, <1>3 DEF IsChain

(* While the container runs, the rest of its chain is still to come, and   *)
(* only the first step can be an installation that has not succeeded.      *)
Chained ==
  /\ stage \in {"idle", "rejected", "queued", "prepared"} => container = "none"
  /\ stage \notin {"idle", "rejected"} => Accepted(request)
  /\ steps = <<>> \/ IsChain(steps)
  /\ container = "up" =>
       /\ IsChain(steps)
       /\ \/ PipStep(request, ws) = <<>> \/ ~OneWord(Requirements(request))
          \/ "pip" \in done \/ steps = Steps(request, ws)

TypeInv == TypeOK /\ Chained

(* Before the submission there is neither container nor chain. *)
LEMMA InitTypeInv == Init => TypeInv
<1> SUFFICES ASSUME Init PROVE TypeInv
  OBVIOUS
<1>0. 0 \in 0..MaxLog
  BY OutputsAssumption
<1> USE DEF Init
<1>1. Len(steps) <= 3 /\ \A i \in 1..Len(steps) : steps[i].kind \in {"pip", "setup", "main"}
  OBVIOUS
<1>2. /\ ws.linked \in BOOLEAN
      /\ out \in [Outputs -> Contents \cup {NoContent}]
      /\ object \in [{NameOf[f] : f \in Outputs} -> Contents \cup {NoContent}]
  OBVIOUS
<1>3. /\ request \in Requests \cup {NoRequest} /\ stage \in Stages /\ done \subseteq {"pip", "setup"}
      /\ container \in {"none", "up", "ok", "err"} /\ survived \in BOOLEAN
      /\ hashed \in Hashes \cup {NoHash} /\ artifacts \subseteq Hashes /\ rows \subseteq Hashes
  BY DEF Stages
<1>4. Chained
  BY DEF Chained
<1>5. tooBig \in BOOLEAN /\ log \in 0..MaxLog /\ nasLog \in 0..MaxLog /\ logPath \in {"none", "nas"}
  BY <1>0
<1> HIDE DEF Init
<1> QED BY <1>1, <1>2, <1>3, <1>4, <1>5 DEF TypeInv, TypeOK

(* Steps that leave the container and its chain alone. *)
LEMMA ChainedBystander ==
  ASSUME Chained, UNCHANGED <<request, steps, done>>,
         UNCHANGED ws \/ container = "none",
         container' = container \/ (container' = "err" /\ container = "up"),
         stage' \in {"idle", "rejected", "queued", "prepared"} => container' = "none",
         stage' \notin {"idle", "rejected"} => stage \notin {"idle", "rejected"}
  PROVE  Chained'
BY DEF Chained

(* Every step keeps types and chain. *)
LEMMA NextTypeInv ==
  ASSUME TypeInv, [Next]_vars
  PROVE  TypeInv'
<1> USE OutputsAssumption DEF TypeInv, inputVars, programVars, artifactVars, logVars
<1>1. ASSUME NEW q \in Requests, Submit(q) PROVE TypeInv'
  <2>1. TypeOK'
    BY <1>1 DEF Submit, TypeOK, Stages
  <2>2. Chained'
    BY <1>1 DEF Submit, Chained
  <2> QED BY <2>1, <2>2
<1>2. ASSUME PrepareFile \/ (\E files \in Repos : PrepareRepo(files)) \/ PrepareRaises PROVE TypeInv'
  <2>1. TypeOK'
    <3>1. \A files : LinkData(files).linked \in BOOLEAN
      BY DEF LinkData
    <3> QED BY <1>2, <3>1 DEF PrepareFile, PrepareRepo, PrepareRaises, TypeOK, Stages
  <2>2. container = "none"
    BY <1>2 DEF PrepareFile, PrepareRepo, PrepareRaises, Chained
  <2>3. UNCHANGED <<request, steps, done, container>> /\ stage = "queued"
    BY <1>2 DEF PrepareFile, PrepareRepo, PrepareRaises
  <2>4. Chained'
    BY <2>2, <2>3, ChainedBystander DEF Chained
  <2> QED BY <2>1, <2>4
<1>3. CASE Launch
  <2>1. IsChain(steps')
    BY <1>3, StepsAreChain DEF Launch
  <2>2. TypeOK'
    BY <1>3, <2>1 DEF Launch, TypeOK, Stages, IsChain, Kinds
  <2>3. Chained'
    BY <1>3, <2>1 DEF Launch, Chained
  <2> QED BY <2>2, <2>3
<1>4. CASE StepSucceeds
  <2>1. IsChain(steps) /\ IsChain(Tail(steps))
    BY <1>4, TailIsChain DEF StepSucceeds, Current, Chained
  <2>2. Current.kind \in {"pip", "setup"}
    BY <1>4, <2>1 DEF StepSucceeds, Current, IsChain, Kinds
  <2>3. TypeOK'
    <3>1. Len(steps') <= 3 /\ \A i \in 1..Len(steps') : steps'[i].kind \in Kinds
      BY <1>4, <2>1 DEF StepSucceeds, IsChain
    <3>2. done' \subseteq {"pip", "setup"}
      BY <1>4, <2>2 DEF StepSucceeds, TypeOK
    <3> QED BY <1>4, <3>1, <3>2 DEF StepSucceeds, TypeOK, Kinds
  <2>4. PipStep(request, ws) # <<>> /\ OneWord(Requirements(request)) => "pip" \in done'
    <3>1. CASE "pip" \in done
      BY <1>4, <3>1 DEF StepSucceeds
    <3>2. ASSUME steps = Steps(request, ws), PipStep(request, ws) # <<>>,
                 OneWord(Requirements(request))
          PROVE  "pip" \in done'
      <4>1. Accepted(request)
        BY <1>4 DEF StepSucceeds, Chained, TypeOK, Stages
      <4>2. Current.kind = "pip" /\ Current = PipStep(request, ws)[1]
        BY <3>2, StepsAreChain DEF Current
      <4>3. IsPath(Current.file)
        BY <3>2, <4>1, <4>2, NoPathAssumption
           DEF PipStep, Requirements, Accepted, Word, IsPath
      <4> QED BY <1>4, <4>2, <4>3 DEF StepSucceeds, Runs
    <3> QED BY <1>4, <3>1, <3>2 DEF StepSucceeds, Chained
  <2>5. Chained'
    BY <1>4, <2>1, <2>4 DEF StepSucceeds, Chained
  <2> QED BY <2>3, <2>5
<1>5. CASE StepFails \/ MainSucceeds
  <2>1. TypeOK'
    BY <1>5 DEF StepFails, MainSucceeds, TypeOK
  <2>2. Chained'
    BY <1>5 DEF StepFails, MainSucceeds, Chained
  <2> QED BY <2>1, <2>2
<1>6. ASSUME NEW f \in Outputs, NEW c \in Contents, Write(f, c) PROVE TypeInv'
  <2>1. TypeOK'
    BY <1>6 DEF Write, TypeOK
  <2>2. Chained'
    BY <1>6, ChainedBystander DEF Write, Chained
  <2> QED BY <2>1, <2>2
<1>7. CASE RunnerReturns \/ RunnerGivesUp
  <2>1. TypeOK'
    BY <1>7 DEF RunnerReturns, RunnerGivesUp, TypeOK, Stages
  <2>2. /\ UNCHANGED <<request, ws, steps, done>> /\ stage = "running" /\ stage' = "collecting"
        /\ container' = container \/ (container' = "err" /\ container = "up")
    BY <1>7 DEF RunnerReturns, RunnerGivesUp
  <2>3. Chained'
    BY <2>2, ChainedBystander DEF Chained
  <2> QED BY <2>1, <2>3
<1>8. ASSUME \/ \E f \in Outputs : HashFile(f)
             \/ UploadArtifact \/ UploadRaises \/ CollectEnds \/ CopyLogs \/ Record
      PROVE  TypeInv'
  <2>1. TypeOK'
    <3>1. ASSUME NEW f \in Outputs, HashFile(f) PROVE TypeOK'
      BY <3>1 DEF HashFile, TypeOK, Walked, Hashes, Checksums
    <3>2. CASE UploadArtifact
      BY <3>2 DEF UploadArtifact, ObjectKey, TypeOK, Hashes, Checksums
    <3>3. CASE UploadRaises \/ CollectEnds \/ CopyLogs \/ Record
      BY <3>3 DEF UploadRaises, CollectEnds, CopyLogs, Record, TypeOK, Stages
    <3> QED BY <1>8, <3>1, <3>2, <3>3
  <2>2. /\ UNCHANGED <<request, ws, steps, done, container>>
        /\ stage \in {"collecting", "collected", "copied"}
        /\ stage' \in {"collecting", "collected", "copied", "recorded", "failed"}
    BY <1>8 DEF HashFile, UploadArtifact, UploadRaises, CollectEnds, CopyLogs, Record
  <2>3. Chained'
    BY <2>2, ChainedBystander DEF Chained
  <2> QED BY <2>1, <2>3
<1>9. CASE UNCHANGED vars
  BY <1>9 DEF vars, TypeOK, Chained
<1>10. CASE ReadLog
  <2>1. TypeOK'
    BY <1>10 DEF ReadLog, TypeOK
  <2>2. Chained'
    BY <1>10, ChainedBystander DEF ReadLog, Chained
  <2> QED BY <2>1, <2>2
<1> QED BY <1>1, <1>2, <1>3, <1>4, <1>5, <1>6, <1>7, <1>8, <1>9, <1>10 DEF Next, Worker, Program

(* Types, and the order of the commands in the container. *)
THEOREM FilesTypeInvariance == Spec => []TypeInv
<1>1. TypeInv /\ [Next]_vars => TypeInv'
  BY NextTypeInv
<1> QED BY <1>1, InitTypeInv, PTL DEF Spec

(* Every reachable state of a run's files is well typed. *)
THEOREM FilesTypeCorrect == Spec => []TypeOK
<1>1. TypeInv => TypeOK
  BY DEF TypeInv
<1> QED BY <1>1, FilesTypeInvariance, PTL

(* For all requests and repositories, no script starts before the          *)
(* requirements that the worker can see are installed, unless the name of  *)
(* their file is one that the shell takes for something else.              *)
THEOREM RequirementsComeFirst == Spec => []RequirementsFirst
<1> DEFINE file == NormPath(Requirements(request))
<1>1. ASSUME TypeInv, container = "up", Current.kind # "pip", OneWord(Requirements(request)),
             file \in ws.files, ~UnderData(file)
      PROVE  "pip" \in done
  <2>1. Accepted(request)
    BY <1>1 DEF TypeInv, TypeOK, Chained, Stages
  <2>2. SeenByHost(ws, file)
    BY <1>1 DEF SeenByHost
  <2>3. PipStep(request, ws) # <<>>
    BY <2>1, <2>2 DEF PipStep, Accepted, Requirements
  <2>4. steps # Steps(request, ws)
    BY <1>1, <2>3, StepsAreChain DEF Current
  <2> QED BY <1>1, <2>3, <2>4 DEF TypeInv, Chained
<1>2. TypeInv => RequirementsFirst
  BY <1>1 DEF RequirementsFirst
<1> QED BY <1>2, FilesTypeInvariance, PTL

-----------------------------------------------------------------------------
(* The paths: what _entrypoint_to_module and os.path.normpath compute, for *)
(* a path of any length.                                                   *)

(* A set of natural numbers has a least element: of the intervals below   *)
(* its members, one is minimal.                                            *)
LEMMA LeastElement ==
  ASSUME NEW T \in SUBSET Nat, T # {}
  PROVE  \E m \in T : \A n \in T : m <= n
<1> DEFINE Below(n) == 0..n
           F == {Below(n) : n \in T}
<1>1. F \subseteq FiniteSubsetsOf(Nat) /\ F # {}
  <2>1. ASSUME NEW n \in T PROVE Below(n) \in FiniteSubsetsOf(Nat)
    <3>1. IsFiniteSet(0..n)
      BY FS_Interval
    <3> QED BY <3>1 DEF FiniteSubsetsOf
  <2> QED BY <2>1
<1>2. \E x \in F : \A y \in F : ~(<<y, x>> \in StrictSubsetOrdering(Nat))
  <2> HIDE DEF F
  <2> QED BY <1>1, WFMin, FS_StrictSubsetOrderingWellFounded
<1>3. PICK m \in T : \A n \in T : <<Below(n), Below(m)>> \notin StrictSubsetOrdering(Nat)
  BY <1>2
<1>4. ASSUME NEW n \in T, n < m PROVE FALSE
  <2>1. Below(n) \subseteq Below(m) /\ Below(n) # Below(m) /\ Below(m) \subseteq Nat
    BY <1>4
  <2> QED BY <1>3, <2>1 DEF StrictSubsetOrdering
<1> QED BY <1>4

(* Induction up to n, with a set in the place of a predicate.              *)
LEMMA Induction ==
  ASSUME NEW n \in Nat, NEW T, 0 \in T, \A i \in 0..(n - 1) : i \in T => i + 1 \in T
  PROVE  0..n \subseteq T
<1> SUFFICES ASSUME (0..n) \ T # {} PROVE FALSE
  OBVIOUS
<1>1. PICK m \in (0..n) \ T : \A k \in (0..n) \ T : m <= k
  <2> DEFINE U == (0..n) \ T
  <2>1. U \in SUBSET Nat /\ U # {}
    OBVIOUS
  <2> HIDE DEF U
  <2>2. \E m \in U : \A k \in U : m <= k
    BY <2>1, LeastElement
  <2> QED BY <2>2 DEF U
<1>2. m - 1 \in T /\ m - 1 \in 0..(n - 1)
  BY <1>1
<1> QED BY <1>1, <1>2

(* The functions that primitive recursion defines on 0..n.                 *)
Iterations(n, T, base, step) ==
  {f \in [0..n -> T] : f[0] = base /\ \A i \in 1..n : f[i] = step[<<i, f[i - 1]>>]}

(* ... of which there is one.                                              *)
LEMMA PrimitiveRecursion ==
  ASSUME NEW n \in Nat, NEW T, NEW base \in T, NEW step \in [Nat \X T -> T]
  PROVE  Iterations(n, T, base, step) # {}
<1> DEFINE Solves(f, k) == f \in [0..k -> T] /\ f[0] = base
                           /\ \A i \in 1..k : f[i] = step[<<i, f[i - 1]>>]
           G == {k \in 0..n : \E f : Solves(f, k)}
<1>1. 0 \in G
  <2> DEFINE f == [i \in 0..0 |-> base]
  <2>1. Solves(f, 0)
    OBVIOUS
  <2> HIDE DEF f, Solves
  <2> QED BY <2>1
<1>2. ASSUME NEW k \in 0..(n - 1), k \in G PROVE k + 1 \in G
  <2>1. PICK f : Solves(f, k)
    BY <1>2
  <2> DEFINE g == [i \in 0..(k + 1) |-> IF i = k + 1 THEN step[<<k + 1, f[k]>>] ELSE f[i]]
  <2>2. step[<<k + 1, f[k]>>] \in T
    <3>1. f[k] \in T /\ k + 1 \in Nat
      BY <2>1
    <3> QED BY <3>1
  <2>3. g \in [0..(k + 1) -> T]
    BY <2>1, <2>2
  <2>4. \A i \in 0..k : g[i] = f[i]
    OBVIOUS
  <2>5. g[k + 1] = step[<<k + 1, g[k]>>]
    BY <2>4
  <2> HIDE DEF g
  <2>6. \A i \in 1..(k + 1) : g[i] = step[<<i, g[i - 1]>>]
    <3> TAKE i \in 1..(k + 1)
    <3>1. CASE i = k + 1
      BY <3>1, <2>5
    <3>2. CASE i \in 1..k
      <4>1. i \in 0..k /\ i - 1 \in 0..k
        BY <3>2
      <4> QED BY <4>1, <3>2, <2>1, <2>4
    <3> QED BY <3>1, <3>2
  <2>7. Solves(g, k + 1)
    BY <2>1, <2>3, <2>4, <2>6
  <2> HIDE DEF Solves
  <2> QED BY <2>7
<1> HIDE DEF G
<1>3. 0..n \subseteq G
  BY <1>1, <1>2, Induction
<1> QED BY <1>3 DEF G, Iterations

(* FlattenSeq joins the names of a path from left to right.                *)
LEMMA FlattenSeqEquation ==
  ASSUME NEW S, NEW p \in Seq(Seq(S)), p # <<>>
  PROVE  \E f \in [1..Len(p) -> Seq(S)] :
           /\ f[1] = p[1]
           /\ \A i \in 2..Len(p) : f[i] = f[i - 1] \o p[i]
           /\ FlattenSeq(p) = f[Len(p)]
<1> DEFINE n == Len(p)
           Rhs(f) == [i \in 1..n |-> IF i = 1 THEN p[i] ELSE f[i - 1] \o p[i]]
           flatten == CHOOSE f : f = Rhs(f)
<1>1. n \in Nat \ {0} /\ \A i \in 1..n : p[i] \in Seq(S)
  OBVIOUS
<1>2. FlattenSeq(p) = flatten[n]
  BY <1>1 DEF FlattenSeq
<1> DEFINE step == [x \in Nat \X Seq(S) |-> IF x[1] \in 1..n THEN x[2] \o p[x[1]] ELSE x[2]]
<1>3. \E f \in [0..n -> Seq(S)] :
        f[0] = <<>> /\ \A i \in 1..n : f[i] = f[i - 1] \o p[i]
  <2>1. step \in [Nat \X Seq(S) -> Seq(S)]
    BY <1>1
  <2>2. <<>> \in Seq(S)
    OBVIOUS
  <2>3. PICK f \in [0..n -> Seq(S)] : f[0] = <<>> /\ \A i \in 1..n : f[i] = step[<<i, f[i - 1]>>]
    <3>1. n \in Nat
      BY <1>1
    <3> HIDE DEF n, step
    <3>2. Iterations(n, Seq(S), <<>>, step) # {}
      BY <2>1, <2>2, <3>1, PrimitiveRecursion
    <3> QED BY <3>2 DEF Iterations
  <2>4. \A i \in 1..n : f[i] = f[i - 1] \o p[i]
    <3> TAKE i \in 1..n
    <3>1. i - 1 \in 0..n /\ i \in Nat
      BY <1>1
    <3>2. f[i - 1] \in Seq(S)
      BY <2>3, <3>1
    <3> QED BY <2>3, <3>1, <3>2
  <2> QED BY <2>3, <2>4
<1>4. \E f : f = Rhs(f)
  <2>1. PICK f \in [0..n -> Seq(S)] : f[0] = <<>> /\ \A i \in 1..n : f[i] = f[i - 1] \o p[i]
    BY <1>3
  <2> DEFINE g == [i \in 1..n |-> f[i]]
  <2>2. f[1] = p[1]
    <3>1. 1 \in 1..n /\ 1 - 1 = 0 /\ p[1] \in Seq(S)
      BY <1>1
    <3>2. f[1] = <<>> \o p[1]
      BY <2>1, <3>1
    <3> QED BY <3>1, <3>2
  <2>3. \A i \in 1..n : g[i] = IF i = 1 THEN p[i] ELSE g[i - 1] \o p[i]
    <3> TAKE i \in 1..n
    <3>1. g[i] = f[i] /\ (i # 1 => g[i - 1] = f[i - 1])
      OBVIOUS
    <3> QED BY <2>1, <2>2, <3>1
  <2>4. g = Rhs(g)
    BY <2>3
  <2> HIDE DEF g, Rhs
  <2> QED BY <2>4
<1>5. flatten = Rhs(flatten)
  <2> HIDE DEF Rhs
  <2> QED BY <1>4
<1> HIDE DEF flatten
<1>6. flatten[1] = p[1] /\ \A i \in 2..n : flatten[i] = flatten[i - 1] \o p[i]
  <2>1. \A i \in 1..n : flatten[i] = IF i = 1 THEN p[i] ELSE flatten[i - 1] \o p[i]
    BY <1>5
  <2>2. 1 \in 1..n /\ \A i \in 2..n : i \in 1..n /\ i # 1
    BY <1>1
  <2> QED BY <2>1, <2>2
<1>7. \A i \in 1..n : flatten[i] \in Seq(S)
  <2> DEFINE T == {k \in 0..n : k = 0 \/ flatten[k] \in Seq(S)}
  <2>1. ASSUME NEW k \in 0..(n - 1), k \in T PROVE k + 1 \in T
    <3>1. k + 1 \in 0..n /\ k + 1 \in 1..n /\ k \in Nat
      BY <1>1
    <3>2. k = 0 => flatten[k + 1] \in Seq(S)
      BY <1>1, <1>6
    <3>3. k # 0 => flatten[k + 1] \in Seq(S)
      <4> SUFFICES ASSUME k # 0 PROVE flatten[k + 1] \in Seq(S)
        OBVIOUS
      <4>1. k + 1 \in 2..n /\ (k + 1) - 1 = k
        BY <3>1
      <4>2. flatten[k + 1] = flatten[k] \o p[k + 1] /\ flatten[k] \in Seq(S) /\ p[k + 1] \in Seq(S)
        BY <1>1, <1>6, <2>1, <3>1, <4>1
      <4> QED BY <4>2
    <3> QED BY <3>1, <3>2, <3>3
  <2>2. 0..n \subseteq T
    <3> HIDE DEF T
    <3>1. 0 \in T
      BY <1>1 DEF T
    <3> QED BY <1>1, <2>1, <3>1, Induction
  <2> QED BY <2>2
<1>8. flatten \in [1..n -> Seq(S)]
  BY <1>5, <1>7
<1> QED BY <1>2, <1>6, <1>8

(* os.path.normpath, name by name.                                         *)
LEMMA NormPathEquation ==
  ASSUME NEW S, NEW p \in Seq(S)
  PROVE  \E f \in [0..Len(p) -> Seq(S)] :
           /\ f[0] = <<>>
           /\ \A i \in 1..Len(p) : f[i] = IF p[i] \in Here THEN f[i - 1] ELSE Append(f[i - 1], p[i])
           /\ NormPath(p) = f[Len(p)]
<1> DEFINE n == Len(p)
           Rhs(f) == [i \in 0..n |-> IF i = 0 THEN <<>> ELSE
                        IF p[i] \in Here THEN f[i - 1] ELSE Append(f[i - 1], p[i])]
           norm == CHOOSE f : f = Rhs(f)
<1>1. n \in Nat /\ \A i \in 1..n : p[i] \in S
  OBVIOUS
<1>2. NormPath(p) = norm[n]
  BY DEF NormPath
<1> DEFINE step == [x \in Nat \X Seq(S) |->
                      IF x[1] \notin 1..n \/ p[x[1]] \in Here THEN x[2] ELSE Append(x[2], p[x[1]])]
<1>3. \E f \in [0..n -> Seq(S)] :
        f[0] = <<>> /\ \A i \in 1..n : f[i] = IF p[i] \in Here THEN f[i - 1] ELSE Append(f[i - 1], p[i])
  <2>1. step \in [Nat \X Seq(S) -> Seq(S)]
    BY <1>1
  <2>2. <<>> \in Seq(S)
    OBVIOUS
  <2>3. PICK f \in [0..n -> Seq(S)] : f[0] = <<>> /\ \A i \in 1..n : f[i] = step[<<i, f[i - 1]>>]
    <3>1. n \in Nat
      BY <1>1
    <3> HIDE DEF n, step
    <3>2. Iterations(n, Seq(S), <<>>, step) # {}
      BY <2>1, <2>2, <3>1, PrimitiveRecursion
    <3> QED BY <3>2 DEF Iterations
  <2>4. \A i \in 1..n : f[i] = IF p[i] \in Here THEN f[i - 1] ELSE Append(f[i - 1], p[i])
    <3> TAKE i \in 1..n
    <3>1. i - 1 \in 0..n /\ f[i - 1] \in Seq(S) /\ i \in Nat
      BY <1>1
    <3> QED BY <2>3, <3>1
  <2> QED BY <2>3, <2>4
<1>4. norm = Rhs(norm)
  <2>1. PICK f \in [0..n -> Seq(S)] :
          f[0] = <<>> /\ \A i \in 1..n : f[i] = IF p[i] \in Here THEN f[i - 1] ELSE Append(f[i - 1], p[i])
    BY <1>3
  <2>2. ASSUME NEW i \in 0..n PROVE f[i] = Rhs(f)[i]
    <3>1. i = 0 \/ i \in 1..n
      BY <1>1
    <3> QED BY <2>1, <3>1
  <2>3. f = Rhs(f)
    BY <2>2
  <2> HIDE DEF Rhs
  <2> QED BY <2>2
<1> HIDE DEF norm
<1>5. /\ norm[0] = <<>>
      /\ \A i \in 1..n : norm[i] = IF p[i] \in Here THEN norm[i - 1] ELSE Append(norm[i - 1], p[i])
  <2>1. \A i \in 0..n : norm[i] = IF i = 0 THEN <<>> ELSE
                        IF p[i] \in Here THEN norm[i - 1] ELSE Append(norm[i - 1], p[i])
    BY <1>4
  <2>2. 0 \in 0..n /\ \A i \in 1..n : i \in 0..n /\ i # 0
    BY <1>1
  <2> QED BY <2>1, <2>2
<1>6. \A i \in 0..n : norm[i] \in Seq(S)
  <2> DEFINE T == {k \in 0..n : norm[k] \in Seq(S)}
  <2>1. ASSUME NEW k \in 0..(n - 1), k \in T PROVE k + 1 \in T
    <3>1. k + 1 \in 1..n /\ k + 1 \in 0..n /\ (k + 1) - 1 = k
      BY <1>1
    <3>2. norm[k + 1] = IF p[k + 1] \in Here THEN norm[k] ELSE Append(norm[k], p[k + 1])
      BY <1>5, <3>1
    <3>3. norm[k] \in Seq(S) /\ p[k + 1] \in S
      BY <1>1, <2>1, <3>1
    <3>4. norm[k + 1] \in Seq(S)
      BY <3>2, <3>3
    <3> QED BY <3>1, <3>4
  <2>2. 0..n \subseteq T
    <3>1. 0 \in T
      <4>1. <<>> \in Seq(S) /\ 0 \in 0..n
        BY <1>1
      <4> QED BY <1>5, <4>1
    <3> HIDE DEF T
    <3> QED BY <1>1, <2>1, <3>1, Induction
  <2> QED BY <2>2
<1>7. norm \in [0..n -> Seq(S)]
  BY <1>4, <1>6
<1> QED BY <1>2, <1>5, <1>7

(* It keeps the last name of a path unless that is a dot.                  *)
LEMMA LastNameStays ==
  ASSUME NEW p \in Paths, BaseName(p) \notin Here
  PROVE  /\ NormPath(p) # <<>> /\ BaseName(NormPath(p)) = BaseName(p)
         /\ Len(p) = 1 => NormPath(p) = p
<1> DEFINE S == Seq(STRING)
<1>1. p \in Seq(S) /\ Len(p) \in Nat \ {0}
  BY DEF Paths
<1>2. PICK f \in [0..Len(p) -> Seq(S)] :
        /\ f[0] = <<>>
        /\ \A i \in 1..Len(p) : f[i] = IF p[i] \in Here THEN f[i - 1] ELSE Append(f[i - 1], p[i])
        /\ NormPath(p) = f[Len(p)]
  <2> HIDE DEF S
  <2> QED BY <1>1, NormPathEquation
<1>3. NormPath(p) = Append(f[Len(p) - 1], BaseName(p)) /\ f[Len(p) - 1] \in Seq(S) /\ BaseName(p) \in S
  <2>1. Len(p) \in 1..Len(p) /\ Len(p) - 1 \in 0..Len(p)
    BY <1>1
  <2>2. p[Len(p)] \in S
    <3> HIDE DEF S
    <3> QED BY <1>1, <2>1
  <2> HIDE DEF S
  <2> QED BY <1>2, <2>1, <2>2 DEF BaseName
<1>4. ASSUME Len(p) = 1 PROVE NormPath(p) = p
  <2>1. f[Len(p) - 1] = <<>> /\ BaseName(p) = p[1]
    BY <1>2, <1>4 DEF BaseName
  <2>2. NormPath(p) = Append(<<>>, p[1])
    BY <1>3, <2>1
  <2> QED BY <1>1, <1>4, <2>2
<1> HIDE DEF S
<1>5. NormPath(p) # <<>> /\ NormPath(p)[Len(NormPath(p))] = BaseName(p)
  BY <1>3
<1> QED BY <1>4, <1>5 DEF BaseName

(* What a concatenation holds at each place.                               *)
LEMMA ConcatAt ==
  ASSUME NEW S, NEW s \in Seq(S), NEW t \in Seq(S)
  PROVE  /\ s \o t \in Seq(S) /\ Len(s \o t) = Len(s) + Len(t)
         /\ \A j \in 1..Len(s) : (s \o t)[j] = s[j]
         /\ \A j \in 1..Len(t) : (s \o t)[Len(s) + j] = t[j]
  OBVIOUS

(* The dotted name of a file: the first part of each name, and one more,   *)
(* the suffix.                                                             *)
LEMMA FlattenSeqOfModule ==
  ASSUME NEW S, NEW p \in Seq(Seq(S)), NEW n \in Nat \ {0}, n = Len(p),
         \A i \in 1..(n - 1) : Len(p[i]) = 1, Len(p[n]) = 2
  PROVE  /\ FlattenSeq(p) \in Seq(S) /\ Len(FlattenSeq(p)) = n + 1
         /\ \A i \in 1..n : FlattenSeq(p)[i] = p[i][1]
<1>1. p # <<>> /\ \A i \in 1..n : p[i] \in Seq(S)
  OBVIOUS
<1>2. PICK f \in [1..n -> Seq(S)] :
        /\ f[1] = p[1]
        /\ \A i \in 2..n : f[i] = f[i - 1] \o p[i]
        /\ FlattenSeq(p) = f[n]
  BY <1>1, FlattenSeqEquation
<1> DEFINE Flat(i) == Len(f[i]) = i - 1 + Len(p[i]) /\ \A j \in 1..i : f[i][j] = p[j][1]
           T == {k \in 0..n : k = 0 \/ Flat(k)}
<1>3. \A i \in 1..n : Len(p[i]) \in {1, 2}
  <2> TAKE i \in 1..n
  <2>1. i = n \/ i \in 1..(n - 1)
    OBVIOUS
  <2>2. i = n => Len(p[i]) = 2
    OBVIOUS
  <2>3. i \in 1..(n - 1) => Len(p[i]) = 1
    OBVIOUS
  <2> QED BY <2>1, <2>2, <2>3
<1>4. Flat(1)
  BY <1>1, <1>2
<1>5. ASSUME NEW i \in 1..(n - 1), Flat(i) PROVE Flat(i + 1)
  <2>1. i \in 1..n /\ i + 1 \in 2..n /\ (i + 1) - 1 = i /\ i + 1 \in 1..n
    OBVIOUS
  <2>2. f[i + 1] = f[i] \o p[i + 1] /\ f[i] \in Seq(S) /\ p[i + 1] \in Seq(S)
    BY <1>1, <1>2, <2>1
  <2>3. Len(f[i]) = i
    <3>1. Len(p[i]) = 1 /\ Len(f[i]) = i - 1 + Len(p[i])
      BY <1>5
    <3> QED BY <3>1
  <2>6. /\ Len(f[i + 1]) = Len(f[i]) + Len(p[i + 1])
        /\ \A j \in 1..Len(f[i]) : f[i + 1][j] = f[i][j]
        /\ \A j \in 1..Len(p[i + 1]) : f[i + 1][Len(f[i]) + j] = p[i + 1][j]
    <3>1. PICK s : s = f[i]
      OBVIOUS
    <3>2. PICK t : t = p[i + 1]
      OBVIOUS
    <3>3. s \in Seq(S) /\ t \in Seq(S) /\ f[i + 1] = s \o t
      BY <2>2, <3>1, <3>2
    <3>4. /\ Len(s \o t) = Len(s) + Len(t)
          /\ \A j \in 1..Len(s) : (s \o t)[j] = s[j]
          /\ \A j \in 1..Len(t) : (s \o t)[Len(s) + j] = t[j]
      BY ONLY <3>3, ConcatAt
    <3> QED BY <3>1, <3>2, <3>3, <3>4
  <2>4. Len(f[i + 1]) = i + Len(p[i + 1])
    BY <2>3, <2>6
  <2>5. ASSUME NEW j \in 1..(i + 1) PROVE f[i + 1][j] = p[j][1]
    <3>1. CASE j \in 1..i
      <4>1. f[i][j] = p[j][1]
        BY <1>5, <3>1
      <4>2. f[i + 1][j] = f[i][j]
        BY <2>2, <2>3, <2>6, <3>1
      <4> QED BY <4>1, <4>2
    <3>2. CASE j = i + 1
      BY <1>3, <2>1, <2>3, <2>6, <3>2
    <3> QED BY <3>1, <3>2
  <2> QED BY <2>4, <2>5
<1> HIDE DEF Flat
<1>6. 0 \in T
  OBVIOUS
<1>7. ASSUME NEW k \in 0..(n - 1), k \in T PROVE k + 1 \in T
  <2>1. k + 1 \in 0..n /\ (k # 0 => k \in 1..(n - 1))
    OBVIOUS
  <2> QED BY <1>4, <1>5, <1>7, <2>1
<1>8. n \in T
  <2> HIDE DEF T
  <2>1. 0..n \subseteq T
    BY <1>6, <1>7, Induction
  <2> QED BY <2>1
<1>9. Flat(n)
  BY <1>8
<1>10. f[n] \in Seq(S) /\ Len(f[n]) = n + 1 /\ \A j \in 1..n : f[n][j] = p[j][1]
  <2>1. f[n] \in Seq(S)
    BY <1>2
  <2>2. Len(f[n]) = n - 1 + Len(p[n]) /\ \A j \in 1..n : f[n][j] = p[j][1]
    BY <1>9 DEF Flat
  <2>3. n - 1 + 2 = n + 1
    OBVIOUS
  <2> QED BY <2>1, <2>2, <2>3
<1> QED BY <1>2, <1>10

(* The module name that the API computes from the path of a Python file    *)
(* names that very file for `python -m`, however deep the path is.         *)
THEOREM ModuleNamesEntrypoint ==
  ASSUME NEW p \in Paths, Modular(p)
  PROVE  ModuleFile(EntrypointToModule(p)) = p
<1>1. PICK n : n = Len(p)
  OBVIOUS
<1>2. PICK S : S = STRING
  OBVIOUS
<1>3. p \in Seq(Seq(S)) /\ n \in Nat \ {0}
  BY <1>1, <1>2 DEF Paths
<1>4. \A i \in 1..n : p[i] \in Seq(S)
  BY <1>1, <1>3
<1>5. \A i \in 1..(n - 1) : Len(p[i]) = 1
  BY <1>1 DEF Modular
<1>s. Slashed(p) = p /\ \A i \in 1..n : p[i][1] # ""
  BY <1>1 DEF Slashed, Modular
<1>6. Len(p[n]) = 2 /\ p[n][2] = "py"
  BY <1>1 DEF Modular, HasSuffix, BaseName, Last
<1> DEFINE m == EntrypointToModule(p)
<1>7. /\ FlattenSeq(p) \in Seq(S) /\ Len(FlattenSeq(p)) = n + 1
      /\ \A i \in 1..n : FlattenSeq(p)[i] = p[i][1]
  BY <1>1, <1>3, <1>5, <1>6, FlattenSeqOfModule
<1>8. m = SubSeq(FlattenSeq(p), 1, n)
  <2>1. m = Front(FlattenSeq(p))
    BY <1>s DEF EntrypointToModule, Modular
  <2> HIDE DEF m
  <2>2. Len(FlattenSeq(p)) - 1 = n
    BY <1>3, <1>7
  <2> QED BY <2>1, <2>2 DEF Front
<1>9. Len(m) = n /\ \A i \in 1..n : m[i] = p[i][1]
  BY <1>3, <1>7, <1>8
<1>p. \A i \in 1..Len(m) : m[i] # ""
  BY <1>9, <1>s
<1> HIDE DEF m
<1>10. ModuleFile(m) = [i \in 1..n |-> p[i]]
  <2>1. ASSUME NEW i \in 1..n PROVE p[i] = IF i = n THEN <<m[i], "py">> ELSE <<m[i]>>
    <3>1. CASE i = n
      <4>1. \A s \in Seq(S) : Len(s) = 2 => s = <<s[1], s[2]>>
        OBVIOUS
      <4> QED BY <1>4, <1>6, <1>9, <3>1, <4>1
    <3>2. CASE i # n
      <4>1. \A s \in Seq(S) : Len(s) = 1 => s = <<s[1]>>
        OBVIOUS
      <4>2. i \in 1..(n - 1)
        BY <1>3, <3>2
      <4> QED BY <1>4, <1>5, <1>9, <3>2, <4>1, <4>2
    <3> QED BY <3>1, <3>2
  <2> QED BY <1>9, <1>p, <2>1 DEF ModuleFile
<1>11. p = [i \in 1..n |-> p[i]]
  BY <1>1, <1>3
<1> QED BY <1>10, <1>11 DEF m
-----------------------------------------------------------------------------
(* The file that runs. *)

(* The main command of a chain is the stored one. *)
MainIsStored ==
  \A i \in 1..Len(steps) : steps[i].kind = "main" => steps[i].file = DetermineCommand(request)

(* What was looked for in the clone, or uploaded, is in the workspace.     *)
EntryPresent ==
  /\ request.source = "file" => request.entry \in ws.files
  /\ request.source = "repo" => EntryFile(request.entry) \in ws.files

EntryInv ==
  /\ TypeInv
  /\ stage \notin {"idle", "rejected"} => request \in Requests
  /\ container = "up" => MainIsStored
  /\ stage = "prepared" \/ container = "up" => EntryPresent

(* The steps of the worker have one main command, the stored one. *)
LEMMA MainOfSteps ==
  ASSUME NEW q, NEW w, NEW i \in 1..Len(Steps(q, w)), Steps(q, w)[i].kind = "main"
  PROVE  Steps(q, w)[i].file = DetermineCommand(q)
<1> DEFINE a == PipStep(q, w)
           b == SetupStep(q, w)
           c == MainStep(q)
           S == {a[1], b[1], c[1]}
<1>1. a = <<>> \/ \E f : a = <<[kind |-> "pip", file |-> f]>>
  BY DEF PipStep
<1>2. b = <<>> \/ \E f : b = <<[kind |-> "setup", file |-> f]>>
  BY DEF SetupStep
<1>3. c = <<[kind |-> "main", file |-> DetermineCommand(q)]>>
  BY DEF MainStep
<1>4. a[1] \in S /\ b[1] \in S /\ c[1] \in S
  OBVIOUS
<1> HIDE DEF S
<1>5. a \in Seq(S) /\ \A j \in 1..Len(a) : a[j].kind = "pip"
  <2> HIDE DEF a
  <2>1. CASE a = <<>>
    BY <2>1
  <2>2. CASE a # <<>>
    <3>1. PICK f : a = <<[kind |-> "pip", file |-> f]>>
      BY <1>1, <2>2
    <3> QED BY <1>4, <3>1
  <2> QED BY <2>1, <2>2
<1>6. b \in Seq(S) /\ \A j \in 1..Len(b) : b[j].kind = "setup"
  <2> HIDE DEF b
  <2>1. CASE b = <<>>
    BY <2>1
  <2>2. CASE b # <<>>
    <3>1. PICK f : b = <<[kind |-> "setup", file |-> f]>>
      BY <1>2, <2>2
    <3> QED BY <1>4, <3>1
  <2> QED BY <2>1, <2>2
<1>7. c \in Seq(S) /\ \A j \in 1..Len(c) : c[j].file = DetermineCommand(q)
  <2> HIDE DEF c
  <2> QED BY <1>3, <1>4
<1> HIDE DEF a, b, c
<1>8. PICK ab : ab = a \o b
  OBVIOUS
<1>9. /\ ab \in Seq(S) /\ Len(ab) = Len(a) + Len(b)
      /\ \A j \in 1..Len(a) : ab[j] = a[j]
      /\ \A j \in 1..Len(b) : ab[Len(a) + j] = b[j]
  BY <1>5, <1>6, <1>8, ConcatAt
<1>10. \A j \in 1..Len(ab) : ab[j].kind # "main"
  <2> TAKE j \in 1..Len(ab)
  <2>1. j \in 1..Len(a) \/ (j - Len(a) \in 1..Len(b) /\ j = Len(a) + (j - Len(a)))
    BY <1>5, <1>6, <1>9
  <2> QED BY <1>5, <1>6, <1>9, <2>1
<1>11. /\ Len(ab \o c) = Len(ab) + Len(c)
       /\ \A j \in 1..Len(ab) : (ab \o c)[j] = ab[j]
       /\ \A j \in 1..Len(c) : (ab \o c)[Len(ab) + j] = c[j]
  <2> HIDE DEF c
  <2>1. PICK d : d = c
    OBVIOUS
  <2>2. d \in Seq(S) /\ ab \in Seq(S)
    BY <1>7, <1>9, <2>1
  <2>3. /\ Len(ab \o d) = Len(ab) + Len(d)
        /\ \A j \in 1..Len(ab) : (ab \o d)[j] = ab[j]
        /\ \A j \in 1..Len(d) : (ab \o d)[Len(ab) + j] = d[j]
    BY ONLY <2>2, ConcatAt
  <2> QED BY <2>1, <2>3
<1>12. Steps(q, w) = ab \o c
  BY <1>8 DEF Steps, a, b, c
<1>13. i \notin 1..Len(ab)
  BY <1>10, <1>11, <1>12
<1>14. i - Len(ab) \in 1..Len(c) /\ i = Len(ab) + (i - Len(ab))
  BY <1>7, <1>9, <1>11, <1>12, <1>13
<1> QED BY <1>7, <1>11, <1>12, <1>14

(* Every step keeps it. *)
LEMMA NextEntryInv ==
  ASSUME EntryInv, [Next]_vars
  PROVE  EntryInv'
<1> USE DEF EntryInv, inputVars, programVars, artifactVars, logVars
<1>0. TypeInv' /\ TypeInv
  BY NextTypeInv
<1>1. ASSUME NEW q \in Requests, Submit(q) PROVE EntryInv'
  BY <1>0, <1>1 DEF Submit, TypeInv, Chained
<1>2. CASE PrepareFile
  BY <1>0, <1>2 DEF PrepareFile, TypeInv, Chained, EntryPresent, LinkData, UploadedFiles
<1>3. ASSUME NEW files \in Repos, PrepareRepo(files) PROVE EntryInv'
  BY <1>0, <1>3 DEF PrepareRepo, TypeInv, Chained, EntryPresent, LinkData
<1>4. CASE PrepareRaises
  BY <1>0, <1>4 DEF PrepareRaises, TypeInv, Chained
<1>5. CASE Launch
  <2>1. MainIsStored'
    BY <1>5, MainOfSteps DEF Launch, MainIsStored
  <2> QED BY <1>0, <1>5, <2>1 DEF Launch, EntryPresent
<1>6. CASE StepSucceeds
  <2>1. IsChain(steps)
    BY <1>6 DEF StepSucceeds, TypeInv, Chained
  <2>2. PICK S : steps \in Seq(S)
    BY <2>1 DEF IsChain
  <2>3. steps # <<>>
    <3>1. Len(steps) # 0
      BY <2>1 DEF IsChain
    <3>2. Len(<<>>) = 0
      OBVIOUS
    <3> QED BY <3>1, <3>2
  <2>4. \A i \in 1..Len(Tail(steps)) : i + 1 \in 1..Len(steps) /\ Tail(steps)[i] = steps[i + 1]
    BY <2>2, <2>3
  <2>5. MainIsStored'
    BY <1>6, <2>4 DEF StepSucceeds, MainIsStored
  <2> QED BY <1>0, <1>6, <2>5 DEF StepSucceeds, EntryPresent
<1>7. ASSUME UNCHANGED <<request, ws, steps>>, container' = "up" => container = "up",
             stage' = "prepared" => stage = "prepared",
             stage' \notin {"idle", "rejected"} => stage \notin {"idle", "rejected"}
      PROVE  EntryInv'
  BY <1>0, <1>7 DEF MainIsStored, EntryPresent
<1>8. CASE StepFails \/ MainSucceeds \/ (\E f \in Outputs, c \in Contents : Write(f, c))
  BY <1>7, <1>8 DEF StepFails, MainSucceeds, Write
<1>9. CASE ReadLog \/ RunnerReturns \/ RunnerGivesUp
  BY <1>7, <1>9 DEF ReadLog, RunnerReturns, RunnerGivesUp
<1>10. CASE (\E f \in Outputs : HashFile(f)) \/ UploadArtifact \/ UploadRaises \/ CollectEnds
            \/ CopyLogs \/ Record
  BY <1>7, <1>10 DEF HashFile, UploadArtifact, UploadRaises, CollectEnds, CopyLogs, Record
<1>11. CASE UNCHANGED vars
  BY <1>7, <1>11 DEF vars
<1> QED BY <1>1, <1>2, <1>3, <1>4, <1>5, <1>6, <1>8, <1>9, <1>10, <1>11 DEF Next, Worker, Program

(* A path that was accepted is found under its normal form: an uploaded    *)
(* file is in that form, and a clone is searched for it.                   *)
LEMMA EntryIsFound ==
  ASSUME NEW q \in Requests, Accepted(q), NEW files,
         q.source = "file" => q.entry \in files,
         q.source = "repo" => EntryFile(q.entry) \in files
  PROVE  NormPath(q.entry) \in files
<1> DEFINE p == q.entry
           v == NormPath(p)
<1>1. p \in Paths
  BY RequestsAssumption
<1>2. ASSUME HasSuffix(p, "py") \/ HasSuffix(p, "sh") PROVE BaseName(p) \notin Here
  <2>1. \A name \in Here : Len(name) = 1 \/ Last(name) = ""
    <3>1. Len(<<"">>) = 1 /\ Last(<<"", "">>) = ""
      BY DEF Last
    <3> QED BY <3>1, Zenon DEF Here
  <2>2. Len(BaseName(p)) > 1 /\ Last(BaseName(p)) \in {"py", "sh"}
    BY <1>2 DEF HasSuffix
  <2>3. Len(BaseName(p)) # 1
    <3>1. \A n : n = 1 => ~(n > 1)
      OBVIOUS
    <3> QED BY <2>2, <3>1, Zenon
  <2>4. Last(BaseName(p)) # ""
    BY <2>2
  <2> QED BY <2>1, <2>3, <2>4
<1>3. CASE q.source = "file"
  <2>1. Len(p) = 1 /\ BaseName(p) \notin Here
    BY <1>2, <1>3 DEF Accepted, ValidFilename
  <2> QED BY <1>1, <1>3, <2>1, LastNameStays
<1>4. CASE q.source = "repo"
  <2>1. HasSuffix(p, "py") \/ HasSuffix(p, "sh")
    BY <1>4 DEF Accepted, ValidEntrypoint
  <2>2. BaseName(v) = BaseName(p)
    BY <1>1, <1>2, <2>1, LastNameStays
  <2>3. HasSuffix(v, "py") \/ HasSuffix(v, "sh")
    BY <2>1, <2>2 DEF HasSuffix
  <2> HIDE DEF v
  <2>4. EntryFile(p) = v
    BY <2>3 DEF EntryFile, v
  <2> QED BY <1>4, <2>4 DEF v
<1> QED BY <1>3, <1>4 DEF Accepted

(* The command of an expressible request runs its entry file. *)
LEMMA CommandIsEntry ==
  ASSUME NEW q \in Requests, Accepted(q), Expressible(q)
  PROVE  DetermineCommand(q) = q.entry
<1>1. q.entry \in Paths /\ IsPath(q.entry)
  BY RequestsAssumption
<1>2. q.source = "repo" /\ q.asModule => ModuleFile(EntrypointToModule(q.entry)) = q.entry
  BY <1>1, ModuleNamesEntrypoint DEF Expressible
<1> QED BY <1>1, <1>2 DEF DetermineCommand, Argument, Word, Expressible

(* For all requests and repositories, the container runs the file that the *)
(* user named, and finds it, if the command can express the name: then     *)
(* there is no subdirectory, and the name is seen from the root.           *)
THEOREM EntrypointIsFound == Spec => []EntrypointFound
<1>1. Init => EntryInv
  BY InitTypeInv DEF Init, EntryInv
<1>2. EntryInv /\ [Next]_vars => EntryInv'
  BY NextEntryInv
<1>3. ASSUME EntryInv, container = "up", Current.kind = "main", Expressible(request)
      PROVE  Found(Current) /\ NormPath(Current.file) = NormPath(request.entry)
  <2>1. request \in Requests /\ Accepted(request) /\ IsPath(request.entry)
    BY <1>3, RequestsAssumption DEF EntryInv, TypeInv, Chained, Accepted
  <2>2. Current.file = request.entry
    <3>1. IsChain(steps)
      BY <1>3 DEF EntryInv, TypeInv, Chained
    <3>2. PICK S : steps \in Seq(S)
      BY <3>1 DEF IsChain
    <3>3. 1 \in 1..Len(steps) /\ Current = steps[1]
      BY <3>1, <3>2 DEF IsChain, Current
    <3>4. Current.file = DetermineCommand(request)
      BY <1>3, <3>3 DEF EntryInv, MainIsStored
    <3> QED BY <1>3, <2>1, <3>4, CommandIsEntry
  <2>3. NormPath(request.entry) \in ws.files
    BY <1>3, <2>1, EntryIsFound DEF EntryInv, EntryPresent
  <2> QED BY <2>1, <2>2, <2>3 DEF Found, SeenInContainer
<1>4. EntryInv => EntrypointFound
  BY <1>3 DEF EntrypointFound
<1> QED BY <1>1, <1>2, <1>4, PTL DEF Spec

-----------------------------------------------------------------------------
(* The logs. *)

(* A copy is made when nothing is appended any more, and it is named by    *)
(* the last step of all.                                                   *)
LogInv ==
  /\ log \in Nat /\ nasLog \in Nat
  /\ stage \in {"copied", "recorded"} => nasLog = log
  /\ logPath = "nas" => stage = "recorded"

(* A step keeps it, and what is shown does not become less.                *)
LEMMA LogStep ==
  ASSUME LogInv, [Next]_vars
  PROVE  LogInv' /\ Shown' >= Shown
<1> USE DEF LogInv, Shown, logVars
<1>1. CASE ReadLog
  BY <1>1 DEF ReadLog
<1>2. CASE CopyLogs
  BY <1>2 DEF CopyLogs
<1>3. CASE Record
  BY <1>3 DEF Record
<1>4. ASSUME UNCHANGED logVars, stage' \in {"copied", "recorded"} => stage' = stage,
             stage = "recorded" => stage' = stage
      PROVE  LogInv' /\ Shown' >= Shown
  BY <1>4
<1>5. CASE (\E q \in Requests : Submit(q)) \/ PrepareFile
           \/ (\E files \in Repos : PrepareRepo(files)) \/ PrepareRaises \/ Launch
  BY <1>4, <1>5 DEF Submit, PrepareFile, PrepareRepo, PrepareRaises, Launch
<1>6. CASE \/ RunnerReturns \/ RunnerGivesUp \/ (\E f \in Outputs : HashFile(f)) \/ UploadArtifact
           \/ UploadRaises \/ CollectEnds
  BY <1>4, <1>6 DEF RunnerReturns, RunnerGivesUp, HashFile, UploadArtifact, UploadRaises, CollectEnds
<1>7. CASE Program \/ UNCHANGED vars
  BY <1>4, <1>7 DEF Program, StepSucceeds, StepFails, MainSucceeds, Write, vars
<1> QED BY <1>1, <1>2, <1>3, <1>5, <1>6, <1>7 DEF Next, Worker

(* Whoever reads the log of a run twice finds at the second time what he   *)
(* found at the first, although the row changes from the live file to its  *)
(* copy in between.                                                        *)
THEOREM LogsOnlyGrow == Spec => LogsNeverShrink
<1>1. Init => LogInv
  BY DEF Init, LogInv
<1>2. LogInv /\ [Next]_vars => LogInv' /\ Shown' >= Shown
  BY LogStep
<1>3. LogInv /\ [Next]_vars => [Shown' >= Shown]_vars
  BY <1>2
<1> QED BY <1>1, <1>2, <1>3, PTL DEF Spec, LogsNeverShrink
=============================================================================
