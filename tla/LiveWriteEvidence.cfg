SPECIFICATION LiveSpec
CONSTANTS
  r1 = r1
  r2 = r2
  p1 = p1
  p2 = p2
  Runs = {r1, r2}
  Plans = {p1, p2}
  Mutations = {m1}
  Mutation = m1
  None = None
  MaxGeneration = 2
  OutcomeCodes = {"deduplicated", "write_state_uncertain", "precondition_failed",
    "create_conflict", "retryable_rejected", "failed", "confirmed"}
  ReasonCodes = {"uncertain"}
  Workers = {w1, w2}
  Methods = {"POST", "PATCH"}
  PlanOf <- MCPlanOf
  MaxCalls = 3
  MaxForeign = 0
INVARIANTS
  ClosedIsPublished
  CanonicalIntentFirst
  NeverReplayed
  VerifiedIsTrue
SYMMETRY WorkerSymmetry
CHECK_DEADLOCK FALSE
