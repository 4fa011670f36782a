SPECIFICATION JournalSpec
CONSTANTS
  a = a
  b = b
  Principals = {a, b}
  Nobody = Nobody
  Offered <- MCOffered
  c1 = c1
  c2 = c2
  c3 = c3
  x = x
  y = y
  Committers = {c1, c2, c3}
  Bodies = {x, y}
  BodyOf <- MCBodyOf
  MaxFaults = 2
INVARIANTS
  CompleteChainsAreFinal
  UncertaintyNeedsDualControl
  WedgedOnlyByFailedClosure
  OneReceipt
  ReceiptsReadBack
  RejectedForCause
SYMMETRY CommitterSymmetry
CHECK_DEADLOCK FALSE
