CONSTANTS
  t1 = t1
  t2 = t2
  t3 = t3
  c1 = c1
  c2 = c2
  root = root
  u1 = u1
  u2 = u2
  NoUser = NoUser
  NoSession = NoSession
  Idle = Idle
  Ids = {root, u1, u2}
  Root = root
  RootName = "ann"
  RootEmail = "x"
  Names = {"ann", "bob", "cy"}
  Emails = {"x", "y"}
  Tokens = {t1, t2, t3}
  Clients = {c1, c2}
SPECIFICATION Spec
INVARIANTS TypeOK UsersUnique SessionTakesTurns
PROPERTIES OverStaysOver OnlyWhatWasAskedFor AdminsLastOut
SYMMETRY MCSymmetry
CHECK_DEADLOCK FALSE
