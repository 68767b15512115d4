------------------------------ MODULE JobFiles ------------------------------
(***************************************************************************)
(* The files of one run, from the request to the artifact rows: the        *)
(* workspace that app/services/storage.py prepares, the steps that the     *)
(* container executes in it, and the outputs that are hashed, uploaded and *)
(* recorded one after the other.  The workspace is mounted read-only, so   *)
(* its two snapshots agree and only /outputs can hold anything new.        *)
(***************************************************************************)
EXTENDS JobInput

CONSTANTS
  Requests,   \* what users may send
  Repos,      \* the sets of files that a clone may deliver
  RootParts,  \* the names in the path of the NAS root
  Outputs,    \* the files that programs write below /outputs
  PlaceOf,    \* the directory of each: "top", "sub", "data" or ".pip-user"
  NameOf,     \* its name within the directory
  Contents,   \* what can be in it
  Oversized,  \* contents of 2 GiB or more
  MaxLog,     \* bound on the lines that a program prints
  NoContent,  \* the file does not exist
  NoRequest,
  Faults      \* the failures of the environment that may happen

FaultKinds == {"prepare", "upload", "record", "rm"}
Places == {"top", "sub", "data", ".pip-user"}
Skipped == {"data", ".pip-user"}

ASSUME OutputsAssumption ==
  /\ PlaceOf \in [Outputs -> Places]
  /\ NoContent \notin Contents
  /\ Oversized \subseteq Contents
  /\ MaxLog \in Nat
(* The entry file is a string that every request must have. *)
ASSUME RequestsAssumption ==
  /\ NoRequest \notin Requests
  /\ \A q \in Requests : q.entry \in Paths /\ IsPath(q.entry)
ASSUME FaultsAssumption == Faults \subseteq FaultKinds

VARIABLES
  request,    \* the job's input
  stage,      \* where the handling of the run is
  ws,         \* the workspace: its files, and whether ./data is linked
  steps,      \* the commands joined by && that are still to be executed
  done,       \* the kinds of step that have succeeded
  container,  \* "none", "up", or how it ended
  survived,   \* the container was still up when the runner had given it up
  out,        \* the files below /outputs
  hashed,     \* the file whose checksum has been computed, and the checksum
  artifacts,  \* the list that collect_artifacts builds
  object,     \* the objects under the prefix of the run, by file name
  tooBig,     \* a size in the list is beyond the 32 bits that the ORM binds
  rows,       \* job_artifacts of the run
  log,        \* lines in the log file below the jobs root
  nasLog,     \* lines in its copy
  logPath     \* the file that job_runs.combined_log_path names, if any

inputVars == <<request, ws>>
programVars == <<steps, done, container, out>>
artifactVars == <<hashed, artifacts, object, tooBig, rows>>
logVars == <<log, nasLog, logPath>>
vars == <<inputVars, stage, programVars, survived, artifactVars, logVars>>

Stages == {"idle", "rejected", "queued", "prepared", "running", "collecting", "collected",
           "copied", "recorded", "failed"}
Checksums == Contents  \* two files have the same checksum when they have the same content
NoHash == [file |-> NoContent, sha |-> NoContent]
Hashes == [file : Outputs, sha : Checksums]

TypeOK ==
  /\ request \in Requests \cup {NoRequest}
  /\ stage \in Stages
  /\ ws.linked \in BOOLEAN
  /\ Len(steps) <= 3 /\ \A i \in 1..Len(steps) : steps[i].kind \in {"pip", "setup", "main"}
  /\ done \subseteq {"pip", "setup"}
  /\ container \in {"none", "up", "ok", "err"}
  /\ survived \in BOOLEAN
  /\ out \in [Outputs -> Contents \cup {NoContent}]
  /\ hashed \in Hashes \cup {NoHash}
  /\ artifacts \subseteq Hashes /\ rows \subseteq Hashes
  /\ object \in [{NameOf[f] : f \in Outputs} -> Contents \cup {NoContent}]
  /\ tooBig \in BOOLEAN
  /\ log \in 0..MaxLog /\ nasLog \in 0..MaxLog
  /\ logPath \in {"none", "nas"}

Init ==
  /\ request = NoRequest
  /\ stage = "idle"
  /\ ws = [files |-> {}, linked |-> FALSE]
  /\ steps = <<>> /\ done = {}
  /\ container = "none" /\ survived = FALSE
  /\ out = [f \in Outputs |-> NoContent]
  /\ hashed = NoHash
  /\ artifacts = {} /\ rows = {} /\ tooBig = FALSE
  /\ log = 0 /\ nasLog = 0 /\ logPath = "none"
  /\ object = [n \in {NameOf[f] : f \in Outputs} |-> NoContent]

-----------------------------------------------------------------------------
(* Submission and preparation *)

Submit(q) ==
  /\ stage = "idle"
  /\ \/ Accepted(q) /\ request' = q /\ stage' = "queued"
     \/ ~Accepted(q) /\ stage' = "rejected" /\ UNCHANGED request
  /\ UNCHANGED <<ws, programVars, survived, artifactVars, logVars>>

(* ./data becomes a link, after what it held has been moved to             *)
(* /outputs/data; a file of that name stays.                               *)
LinkData(files) == [files |-> files, linked |-> DataFile \notin files]

(* _prepare_python_file: the uploaded files are copied. *)
UploadedFiles(q) ==
  {q.entry} \cup {p \in {q.req, q.setup} : IsPath(p)}

PrepareFile ==
  /\ stage = "queued" /\ request.source = "file"
  /\ ws' = LinkData(UploadedFiles(request))
  /\ stage' = "prepared"
  /\ UNCHANGED <<request, programVars, survived, artifactVars, logVars>>

(* Mutant of PrepareRepo: the clone is not searched for the entry file. *)
PrepareRepoUnchecked(files) ==
  /\ stage = "queued" /\ request.source = "repo"
  /\ ws' = LinkData(files) /\ stage' = "prepared"
  /\ UNCHANGED <<request, programVars, survived, artifactVars, logVars>>

(* _prepare_github_repo: without its entry file a clone is of no use.  The *)
(* subdirectory is handed over and not used.                               *)
PrepareRepo(files) ==
  /\ stage = "queued" /\ request.source = "repo"
  /\ \/ EntryFile(request.entry) \in files /\ ws' = LinkData(files) /\ stage' = "prepared"
     \/ EntryFile(request.entry) \notin files /\ stage' = "failed" /\ UNCHANGED ws
  /\ UNCHANGED <<request, programVars, survived, artifactVars, logVars>>

(* The clone fails, an uploaded script is gone, or an insertion raises. *)
PrepareRaises ==
  /\ "prepare" \in Faults
  /\ stage = "queued"
  /\ stage' = "failed"
  /\ UNCHANGED <<inputVars, programVars, survived, artifactVars, logVars>>

-----------------------------------------------------------------------------
(* Execution *)

Launch ==
  /\ stage = "prepared"
  /\ steps' = Steps(request, ws)
  /\ container' = "up"
  /\ stage' = "running"
  /\ UNCHANGED <<inputVars, done, out, survived, artifactVars, logVars>>

Current == Head(steps)
Found(step) == IsPath(step.file) /\ SeenInContainer(ws, NormPath(step.file))

(* What a command does that names no file is open: it can do anything.     *)
Runs(step) == IsPath(step.file) => Found(step)

(* A step ends and the next one begins. *)
StepSucceeds ==
  /\ container = "up" /\ Current.kind # "main" /\ Runs(Current)
  /\ steps' = Tail(steps)
  /\ done' = IF Found(Current) THEN done \cup {Current.kind} ELSE done
  /\ UNCHANGED <<inputVars, stage, container, survived, out, artifactVars, logVars>>

(* ... or the chain of commands stops: at a file that is not there, too. *)
StepFails ==
  /\ container = "up"
  /\ container' = "err"
  /\ UNCHANGED <<inputVars, stage, steps, done, survived, out, artifactVars, logVars>>

MainSucceeds ==
  /\ container = "up" /\ Current.kind = "main" /\ Runs(Current)
  /\ container' = "ok"
  /\ UNCHANGED <<inputVars, stage, steps, done, survived, out, artifactVars, logVars>>

(* The installation fills .pip-user, the scripts write where they like. *)
Write(f, c) ==
  /\ container = "up" /\ Runs(Current)
  /\ Current.kind = "pip" => PlaceOf[f] = ".pip-user"
  /\ out[f] # c
  /\ out' = [out EXCEPT ![f] = c]
  /\ UNCHANGED <<inputVars, stage, steps, done, container, survived, artifactVars, logVars>>

(* A reader task of the runner appends to the log file; what the container *)
(* left in a pipe is still read when it has ended.                         *)
ReadLog ==
  /\ stage = "running" /\ log < MaxLog
  /\ log' = log + 1
  /\ UNCHANGED <<inputVars, stage, programVars, survived, artifactVars, nasLog, logPath>>

(* Mutant of RunnerReturns: the end of the container is not awaited. *)
RunnerReturnsEarly ==
  /\ stage = "running"
  /\ stage' = "collecting"
  /\ UNCHANGED <<inputVars, programVars, survived, artifactVars, logVars>>

RunnerReturns ==
  /\ stage = "running" /\ container # "up"
  /\ stage' = "collecting"
  /\ UNCHANGED <<inputVars, programVars, survived, artifactVars, logVars>>

(* The time limit: the container is removed, at best. *)
RunnerGivesUp ==
  /\ stage = "running" /\ container = "up"
  /\ \/ container' = "err" /\ UNCHANGED survived
     \/ "rm" \in Faults /\ survived' = TRUE /\ UNCHANGED container
  /\ stage' = "collecting"
  /\ UNCHANGED <<inputVars, steps, done, out, artifactVars, logVars>>

-----------------------------------------------------------------------------
(* Collection, whatever the exit code *)

(* Mutants of Walked: only the directory itself is listed; or files that   *)
(* are not there as well.                                                  *)
WalkedTop == {f \in Outputs : out[f] # NoContent /\ PlaceOf[f] = "top"}
WalkedUnchecked == {f \in Outputs : PlaceOf[f] \notin Skipped}

(* os.walk, without data sets and installed packages. *)
Walked ==
  {f \in Outputs : out[f] # NoContent /\ (RootParts \cup {PlaceOf[f]}) \cap Skipped = {}}

Uploaded == {a.file : a \in artifacts}

HashFile(f) ==
  /\ stage = "collecting" /\ hashed = NoHash
  /\ f \in Walked \ Uploaded
  /\ hashed' = [file |-> f, sha |-> out[f]]
  /\ UNCHANGED <<inputVars, stage, programVars, survived, artifacts, object, tooBig, rows, logVars>>

(* <user>/<run>/<file name>: the directory of the file is not in the key. *)
ObjectKey(f) == NameOf[f]

UploadArtifact ==
  /\ stage = "collecting" /\ hashed # NoHash
  /\ object' = [object EXCEPT ![ObjectKey(hashed.file)] = out[hashed.file]]
  /\ artifacts' = artifacts \cup {hashed}
  /\ tooBig' = (tooBig \/ out[hashed.file] \in Oversized)
  /\ hashed' = NoHash
  /\ UNCHANGED <<inputVars, stage, programVars, survived, rows, logVars>>

(* An upload fails, or the copy of the logs: the worker's handler marks    *)
(* the run failed; what was uploaded stays.                                *)
UploadRaises ==
  /\ "upload" \in Faults
  /\ stage \in {"collecting", "collected"}
  /\ stage' = "failed"
  /\ UNCHANGED <<inputVars, programVars, survived, artifactVars, logVars>>

(* A directory is listed once: files that a surviving container adds later *)
(* may be missed.                                                          *)
CollectEnds ==
  /\ stage = "collecting" /\ hashed = NoHash
  /\ Walked \subseteq Uploaded \/ survived
  /\ stage' = "collected"
  /\ UNCHANGED <<inputVars, programVars, survived, artifactVars, logVars>>

(* Mutant of CopyLogs: a copy that fails half-way is good enough. *)
CopyLogsBestEffort ==
  /\ stage = "collected"
  /\ nasLog' \in 0..log
  /\ stage' = "copied"
  /\ UNCHANGED <<inputVars, programVars, survived, artifactVars, log, logPath>>

(* copy_logs_to_nas; a log file that was never opened counts as empty. *)
CopyLogs ==
  /\ stage = "collected"
  /\ nasLog' = log
  /\ stage' = "copied"
  /\ UNCHANGED <<inputVars, programVars, survived, artifactVars, log, logPath>>

(* The rows are inserted by the transaction that finishes the run and that *)
(* names the copy; the ORM cannot bind a size beyond 32 bits.              *)
Record ==
  /\ stage = "copied"
  /\ \/ ~tooBig /\ rows' = artifacts /\ logPath' = "nas" /\ stage' = "recorded"
     \/ /\ tooBig \/ "record" \in Faults
        /\ stage' = "failed" /\ UNCHANGED <<rows, logPath>>
  /\ UNCHANGED <<inputVars, programVars, survived, hashed, artifacts, object, tooBig, log, nasLog>>

-----------------------------------------------------------------------------
Program ==
  \/ StepSucceeds \/ StepFails \/ MainSucceeds
  \/ \E f \in Outputs, c \in Contents : Write(f, c)

Worker ==
  \/ PrepareFile \/ (\E files \in Repos : PrepareRepo(files)) \/ PrepareRaises
  \/ Launch \/ ReadLog \/ RunnerReturns \/ RunnerGivesUp
  \/ (\E f \in Outputs : HashFile(f)) \/ UploadArtifact \/ UploadRaises \/ CollectEnds
  \/ CopyLogs \/ Record

Next == (\E q \in Requests : Submit(q)) \/ Worker \/ Program

Spec == Init /\ [][Next]_vars

-----------------------------------------------------------------------------
(* Properties *)

(* The command that runs in the container runs the file that the user      *)
(* named, and it is there: what was accepted, looked for after the clone,  *)
(* turned into a module name and moved with ./data is one file all along.  *)
(* Excepted (Expressible) are names that the shell, the interpreter or     *)
(* `python -m` understands differently, and requests with a subdirectory:  *)
(* all are accepted, and fail in the container or run another file.        *)
EntrypointFound ==
  container = "up" /\ Current.kind = "main" /\ Expressible(request) =>
    /\ Found(Current)
    /\ NormPath(Current.file) = NormPath(request.entry)

(* No script starts before the requirements are installed that the user    *)
(* gave or that lie in the root of the workspace, unless they lie in       *)
(* ./data, where the worker does not see them any more, or under a name    *)
(* that the shell takes for something else.                                *)
RequirementsFirst ==
  LET file == NormPath(Requirements(request)) IN
  container = "up" /\ Current.kind # "pip" /\ OneWord(Requirements(request))
    /\ file \in ws.files /\ ~UnderData(file) => "pip" \in done

(* The checksum in each row is that of the object under its key: nothing   *)
(* changes a file between hash and upload, and nothing overwrites the      *)
(* object.  (A container that survives its run can change its files.)      *)
RowsTellContents ==
  ~survived => \A a \in rows : object[ObjectKey(a.file)] = a.sha

(* The rows are all or nothing: none before the run is finished or when it *)
(* fails on the way, and then exactly the outputs that the container left, *)
(* except those below a directory named data or .pip-user, at any depth.   *)
(* That includes the directories of the root: if one of them has such a    *)
(* name, like /data/gpu_scheduler/nas, no output is recorded at all.       *)
OutputsRecorded ==
  /\ stage # "recorded" => rows = {}
  /\ stage = "recorded" /\ ~survived =>
       rows = IF RootParts \cap Skipped # {} THEN {}
              ELSE {[file |-> f, sha |-> out[f]] : f \in
                      {g \in Outputs : out[g] # NoContent /\ PlaceOf[g] \notin Skipped}}

(* A log never loses a line that its reader has seen: the endpoint serves  *)
(* the live file until the row names the copy, and the copy was made when  *)
(* nothing was appended any more.                                          *)
Shown == IF logPath = "nas" THEN nasLog ELSE log
LogsNeverShrink == [][Shown' >= Shown]_vars
=============================================================================
