SPECIFICATION GraphSpec
CONSTANTS
  Requests = {a, b}
  Decisions = {"approve", "revise", "request_evidence", "reject"}
  Kind <- MCKind
  MaxAttempts = 2
  MaxCrashes = 2
  None = None
INVARIANTS ClosedWithReport
CHECK_DEADLOCK FALSE
