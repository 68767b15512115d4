----------------------------- MODULE MCJobFiles -----------------------------
EXTENDS JobFiles

CONSTANTS a, b, d, p, c1, c2, huge

train == <<<<"train", "py">>>>
srcTrain == <<<<"src">>, <<"train", "py">>>>
dotTrain == <<<<"", "">>, <<"train", "py">>>>
upTrain == <<<<"", "", "">>, <<"train", "py">>>>
dottedTrain == <<<<"v1", "2">>, <<"train", "py">>>>
spacedTrain == <<<<"my train", "py">>>>
dataTrain == <<<<"data">>, <<"train", "py">>>>
runSh == <<<<"run", "sh">>>>
srcReq == <<<<"src">>, <<"requirements", "txt">>>>
dataReq == <<<<"data">>, <<"requirements", "txt">>>>
dotReq == <<<<"", "">>, <<"requirements", "txt">>>>
slashesTrain == <<<<"src">>, <<"">>, <<"train", "py">>>>
backslashTrain == <<<<"src\\train", "py">>>>
shellTrain == <<<<"a&b", "py">>>>
dashTrain == <<<<"-v", "py">>>>

File(entry, req, setup) ==
  [source |-> "file", entry |-> entry, asModule |-> FALSE, req |-> req, setup |-> setup,
   subdir |-> NoPath]
Repo(entry, asModule, req) ==
  [source |-> "repo", entry |-> entry, asModule |-> asModule, req |-> req, setup |-> NoPath,
   subdir |-> NoPath]

MCRequests ==
  {File(train, RequirementsTxt, runSh), File(train, NoPath, NoPath),
   File(spacedTrain, NoPath, NoPath), File(srcTrain, NoPath, NoPath),
   File(shellTrain, NoPath, NoPath), File(dashTrain, NoPath, NoPath),
   Repo(srcTrain, TRUE, srcReq), Repo(srcTrain, FALSE, NoPath), Repo(dotTrain, FALSE, srcReq),
   Repo(dotTrain, TRUE, NoPath), Repo(dottedTrain, TRUE, NoPath), Repo(dataTrain, TRUE, dataReq),
   Repo(runSh, FALSE, dotReq), Repo(runSh, TRUE, NoPath), Repo(upTrain, FALSE, NoPath),
   Repo(slashesTrain, FALSE, NoPath), Repo(slashesTrain, TRUE, NoPath),
   Repo(backslashTrain, TRUE, NoPath), Repo(shellTrain, FALSE, NoPath),
   Repo(dashTrain, TRUE, NoPath),
   \* the clone has src/train.py, and in its root train.py or none
   [Repo(train, FALSE, NoPath) EXCEPT !.subdir = <<<<"src">>>>],
   [Repo(srcTrain, FALSE, NoPath) EXCEPT !.subdir = <<<<"", "", "">>>>],
   \* a configuration that names a setup script, which the worker finds in the clone
   [Repo(srcTrain, FALSE, NoPath) EXCEPT !.setup = runSh]}

MCRepos ==
  {{srcTrain, srcReq, train}, {srcTrain, RequirementsTxt, runSh, DataFile},
   {dataTrain, dataReq, dottedTrain}, {backslashTrain, shellTrain, dashTrain}}

MCShellParts == {"a&b", "src\\train"}
MCDashParts == {"-v"}
MCWithSlashes == [t \in {backslashTrain} |-> srcTrain]
MCSpacedParts == {"my train"}
MCPlaceOf == [f \in Outputs |-> CASE f = a -> "top" [] f = b -> "sub" [] f = d -> "data"
                                  [] OTHER -> ".pip-user"]
DistinctNames == [f \in Outputs |-> f]

SameName == [f \in Outputs |-> "model.pt"]
=============================================================================
