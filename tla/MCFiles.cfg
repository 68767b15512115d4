CONSTANTS
  a = a
  b = b
  d = d
  p = p
  c1 = c1
  c2 = c2
  huge = huge
  NoPath = NoPath
  NoRequest = NoRequest
  NoContent = NoContent
  SpacedParts <- MCSpacedParts
  ShellParts <- MCShellParts
  DashParts <- MCDashParts
  WithSlashes <- MCWithSlashes
  Requests <- MCRequests
  Repos <- MCRepos
  Outputs = {a, b, d, p}
  RootParts = {"app", "nas"}
  PlaceOf <- MCPlaceOf
  NameOf <- DistinctNames
  Contents = {c1, huge}
  Oversized = {huge}
  MaxLog = 1
  Faults = {"prepare", "upload", "record", "rm"}
SPECIFICATION Spec
INVARIANTS TypeOK EntrypointFound RequirementsFirst RowsTellContents OutputsRecorded
PROPERTY LogsNeverShrink
CHECK_DEADLOCK FALSE
