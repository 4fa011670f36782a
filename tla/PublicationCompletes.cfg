SPECIFICATION FairPublicationSpec
CONSTANTS
  a = a
  b = b
  Principals = {a, b}
  Nobody = Nobody
  None = None
  Offered <- NormalEvents
  Publishers = {p1, p2}
  Claims = {c1, c2, c3}
  Refs = {x1}
  MaxFaults = 2
  MaxRetries = 4
PROPERTIES
  PublicationCompletes
CHECK_DEADLOCK FALSE
