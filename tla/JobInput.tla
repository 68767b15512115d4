------------------------------ MODULE JobInput ------------------------------
(***************************************************************************)
(* What a request names and what becomes of it: the validation of          *)
(* app/schemas.py and app/api/jobs.py, the command that the API stores,    *)
(* and the steps that app/services/worker.py builds.  A path is a sequence *)
(* of names and a name the sequence of its parts between dots:             *)
(* src/train.py is <<<<"src">>, <<"train", "py">>>>.                       *)
(***************************************************************************)
EXTENDS Integers, Sequences, SequencesExt

CONSTANTS
  SpacedParts,  \* parts that contain a space
  ShellParts,   \* parts with another character that the shell interprets
  DashParts,    \* parts that begin with a dash
  WithSlashes,  \* the paths with a backslash, and what slashes make of them
  NoPath        \* no file was given, or a command names none

(* At least one name of at least one part: what splitting a string gives.  *)
Paths == Seq(Seq(STRING) \ {<<>>}) \ {<<>>}
IsPath(p) == p # NoPath
BaseName(p) == p[Len(p)]
HasSuffix(p, ext) == Len(BaseName(p)) > 1 /\ Last(BaseName(p)) = ext

(* A name with two dots in a row has an empty part inside. *)
HasDotDot(p) == \E i \in 1..Len(p) : \E k \in 2..(Len(p[i]) - 1) : p[i][k] = ""
IsAbsolute(p) == Len(p) > 1 /\ p[1] = <<"">>
HasPartIn(p, parts) == \E i \in 1..Len(p) : \E k \in 1..Len(p[i]) : p[i][k] \in parts
OneWord(p) == ~HasPartIn(p, SpacedParts \cup ShellParts)

(* GitHubJobRequest.validate_entrypoint and validate_repo_subdir *)
ValidSubdir(p) == ~HasDotDot(p) /\ ~IsAbsolute(p)
ValidEntrypoint(p) ==
  /\ ~HasDotDot(p) /\ ~IsAbsolute(p)
  /\ HasSuffix(p, "py") \/ HasSuffix(p, "sh")

(* _validate_filename: one name that does not begin with a dot; spaces are *)
(* allowed within it, and a dash anywhere.                                 *)
ValidFilename(p) ==
  Len(p) = 1 /\ ~HasDotDot(p) /\ p[1][1] # "" /\ ~HasPartIn(p, ShellParts)

RequirementsTxt == <<<<"requirements", "txt">>>>
ASSUME NoPathAssumption == NoPath # RequirementsTxt

(* A request: source "file" or "repo", the entry file, whether it is to be *)
(* run as a module, the requirements file, the setup script and, of a      *)
(* repository, the subdirectory.  Nobody looks at the last: the clone is   *)
(* searched, and the command is executed, from the root.                   *)
Accepted(q) ==
  \/ /\ q.source = "file"
     /\ ValidFilename(q.entry) /\ HasSuffix(q.entry, "py")
     /\ IsPath(q.setup) => ValidFilename(q.setup) /\ HasSuffix(q.setup, "sh")
     /\ IsPath(q.req) => q.req = RequirementsTxt
  \/ /\ q.source = "repo" /\ ValidEntrypoint(q.entry)
     /\ IsPath(q.subdir) => ValidSubdir(q.subdir)

Slashed(p) == IF p \in DOMAIN WithSlashes THEN WithSlashes[p] ELSE p

(* Mutant of EntrypointToModule: the suffix stays. *)
EntrypointToModuleKeepsSuffix(p) == FlattenSeq(Slashed(p))

(* _entrypoint_to_module: slashes and backslashes become dots, a final .py *)
(* goes.                                                                   *)
EntrypointToModule(p) ==
  IF HasSuffix(p, "py") THEN Front(FlattenSeq(Slashed(p))) ELSE FlattenSeq(Slashed(p))

(* The file that `python -m` runs for a dotted name (not a package); there *)
(* is none when a part of the name is empty.                               *)
ModuleFile(m) ==
  IF \E i \in 1..Len(m) : m[i] = "" THEN NoPath
  ELSE [i \in 1..Len(m) |-> IF i = Len(m) THEN <<m[i], "py">> ELSE <<m[i]>>]

(* The arguments of a command are not quoted: the shell takes a name with  *)
(* a space or another special character for something else.  And bash and  *)
(* python take a file name with a dash in front for an option.             *)
Word(p) == IF IsPath(p) /\ OneWord(p) THEN p ELSE NoPath
IsOption(p) == p[1][1] \in DashParts
Argument(p) == IF IsOption(p) THEN NoPath ELSE Word(p)

(* The file that the stored command runs. *)
DetermineCommand(q) ==
  IF q.source = "repo" /\ q.asModule
  THEN Word(ModuleFile(EntrypointToModule(q.entry)))
  ELSE Argument(q.entry)

(* os.path.normpath, and every file system: the name "." and the empty one *)
(* go (of a relative path without "..").                                   *)
Here == {<<"", "">>, <<"">>}
NormPath(p) ==
  LET norm[i \in 0..Len(p)] ==
        IF i = 0 THEN <<>>
        ELSE IF p[i] \in Here THEN norm[i - 1] ELSE Append(norm[i - 1], p[i])
  IN norm[Len(p)]

(* The file that is looked for after the clone. *)
EntryFile(p) ==
  LET v == NormPath(p) IN
  IF Len(v) = 1 /\ Len(v[1]) > 1 /\ ~HasSuffix(v, "py") /\ ~HasSuffix(v, "sh")
  THEN ModuleFile(v[1])
  ELSE v

(* What `python -m` can express: names without dots, none of them empty,   *)
(* separated by slashes and ending in .py.                                 *)
Modular(p) ==
  /\ HasSuffix(p, "py") /\ Len(BaseName(p)) = 2
  /\ \A i \in 1..(Len(p) - 1) : Len(p[i]) = 1
  /\ \A i \in 1..Len(p) : p[i][1] # ""
  /\ p \notin DOMAIN WithSlashes

(* What the command can express: an entry file seen from the root. *)
Expressible(q) ==
  /\ OneWord(q.entry) /\ ~IsPath(q.subdir)
  /\ IF q.source = "repo" /\ q.asModule THEN Modular(q.entry) ELSE ~IsOption(q.entry)

-----------------------------------------------------------------------------
(* The data directory and the steps.  A workspace is [files, linked]: its  *)
(* files, and whether ./data is a link to /outputs/data; on the host that  *)
(* link leads nowhere, in the container it leads to the files moved there. *)

UnderData(p) == Len(p) > 1 /\ p[1] = <<"data">>
DataFile == <<<<"data">>>>

SeenByHost(ws, p) == p \in ws.files /\ ~(ws.linked /\ UnderData(p))
SeenInContainer(ws, p) == p \in ws.files

(* What the user has given, or the clone has in its root. *)
Requirements(q) == IF IsPath(q.req) THEN q.req ELSE RequirementsTxt

(* Mutant of PipStep: the file in the root is installed as well as looked for. *)
PipStepOfRoot(q, ws) ==
  IF SeenByHost(ws, RequirementsTxt) THEN <<[kind |-> "pip", file |-> RequirementsTxt]>> ELSE <<>>

(* A requirements file that a repository job names is the only one looked for. *)
PipStep(q, ws) ==
  LET req == IF q.source = "repo" /\ IsPath(q.req) THEN q.req ELSE RequirementsTxt IN
  IF SeenByHost(ws, NormPath(req)) THEN <<[kind |-> "pip", file |-> Word(req)]>> ELSE <<>>

SetupStep(q, ws) ==
  IF IsPath(q.setup) /\ SeenByHost(ws, NormPath(q.setup))
  THEN <<[kind |-> "setup", file |-> Argument(q.setup)]>> ELSE <<>>

MainStep(q) == <<[kind |-> "main", file |-> DetermineCommand(q)]>>

(* Mutant of Steps: the setup script runs before the installation. *)
StepsSetupFirst(q, ws) == SetupStep(q, ws) \o PipStep(q, ws) \o MainStep(q)

Steps(q, ws) == PipStep(q, ws) \o SetupStep(q, ws) \o MainStep(q)
=============================================================================
