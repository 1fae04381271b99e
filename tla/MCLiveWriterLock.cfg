CONSTANTS
  p1 = p1
  p2 = p2
  s1 = s1
  s2 = s2
  Procs <- TwoProcs
  Accounts = {a1}
  Services <- TwoServices
  ServicesOf <- MCServicesOf
  Objs = {o1, o2, o3}
  MaxCalls = 1
  None = None
SPECIFICATION FairSpec
INVARIANTS
  TypeOK
  ExclusiveWriter
  NoOrphanLock
  HolderIsNamed
PROPERTIES
  GrantMeansHeld
  ImplementsSingleWriter
  ExitCompletes
