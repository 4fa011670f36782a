SPECIFICATION StateSpec
CONSTANTS
  Runs = {r1, r2}
  Plans = {p1, p2}
  Mutations = {m1, m2}
  None = None
  MaxGeneration = 3
  OutcomeCodes = {"confirmed"}
  ReasonCodes = {"transport_result_unknown"}
INVARIANTS
  TypeOK
  EvidenceMatchesIntent
  ReopenedOnlyIfNotApplied
  ClosureHasProof
  UncertaintyIsLast
  RetryNeedsAnotherRun
PROPERTY SettlementIsFinal
CHECK_DEADLOCK FALSE
