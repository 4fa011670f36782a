SPECIFICATION BrokerSpec
CONSTANTS
  a1 = a1
  a2 = a2
  s1 = s1
  x1 = x1
  x2 = x2
  n1 = n1
  n2 = n2
  n3 = n3
  n4 = n4
  Instances = {i1, i2}
  Runs = {r1}
  Tickets = {a1, a2, s1, x1, x2}
  Nonces = {n1, n2, n3, n4}
  NonceOf <- MCNonceOf
  ActionOf <- MCActionOf
  LeaseIds = {l1, l2}
  NoBlob = NoBlob
  NoLease = NoLease
  Foreign = Foreign
  MaxCalls = 3
  MaxFaults = 0
PROPERTIES
  TerminalIsFinal
CHECK_DEADLOCK FALSE
