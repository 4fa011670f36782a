SPECIFICATION PublicationSpec
CONSTANTS
  a = a
  b = b
  Principals = {a, b}
  Nobody = Nobody
  None = None
  Offered <- MixedEvents
  Publishers = {p1, p2}
  Claims = {c1, c2, c3}
  Refs = {x1, x2}
  MaxFaults = 3
  MaxRetries = 3
INVARIANTS
  CompletedIsDurable
  EffectsAreWrittenAhead
  RepeatsAreAuthorized
  HolderIsCurrent
PROPERTIES
  ProgressOnlyGrows
SYMMETRY Interchangeable
CHECK_DEADLOCK FALSE
