SPECIFICATION AcceptanceSpec
CONSTANTS
  a1 = a1
  a2 = a2
  a3 = a3
  s1 = s1
  s2 = s2
  s3 = s3
  s4 = s4
  x1 = x1
  x2 = x2
  x3 = x3
  Instances = {i1}
  Instance = i1
  Runs = {r1}
  Run = r1
  Tickets = {a1, a2, a3, s1, s2, s3, s4, x1, x2, x3}
  Nonces = {a1, a2, a3, s1, s2, s3, s4, x1, x2, x3}
  NonceOf <- MCNonceOf
  ActionOf <- MCActionOf
  LeaseIds = {l1, l2, l3, l4}
  NoBlob = NoBlob
  NoLease = NoLease
  Foreign = Foreign
  NoState = NoState
  NoFile = NoFile
  NoTicket = NoTicket
  Uncommitted = Uncommitted
  PhaseLimits <- MCPhaseLimits
  MaxCalls = 0
  MaxFaults = 2
  MaxLaunches = 5
INVARIANTS
  CheckpointConsistent
  DispatchesAreCounted
  DispatchedUnderLease
  EvidenceAfterRelease
  EvidenceIsTrue
  LaunchesSuffice
CHECK_DEADLOCK FALSE
