CONSTANTS
  a = a
  b = b
  d = d
  p = p
  c1 = c1
  c2 = c2
  huge = huge
  NoPath = NoPath
  NoRequest = NoRequest
  NoContent = NoContent
  SpacedParts <- MCSpacedParts
  ShellParts <- MCShellParts
  DashParts <- MCDashParts
  WithSlashes <- MCWithSlashes
  Requests <- MCRequests
  Repos <- MCRepos
  Outputs = {a, b}
  RootParts = {"app", "nas"}
  PlaceOf <- MCPlaceOf
  NameOf <- SameName
  Contents = {c1, c2}
  Oversized = {}
  MaxLog = 0
  Faults = {}
SPECIFICATION Spec
INVARIANT RowsTellContents
CHECK_DEADLOCK FALSE
