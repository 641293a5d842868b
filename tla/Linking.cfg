SPECIFICATION FairSpec
CONSTANTS
  Subjects = {s1, s2}
  Addresses = {e1, e2}
  Admitted = {e1, e2}
  OwnerSettings = {e1, None}
  Browsers = {b1}
  TabsEach = 2
  Agents = {a1, a2}
  PCs = {p1}
  MaxLogins = 2
  MaxMoves = 1
  MaxFaults = 1
  None = None
INVARIANTS
  SignedInAsOneself
  UploadsFollowOwner
PROPERTIES
  NobodyIsStranded
CHECK_DEADLOCK FALSE
