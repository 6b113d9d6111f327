SPECIFICATION GraphSpec
CONSTANTS
  Requests = {a, b}
  Decisions = {"approve", "revise", "request_evidence", "reject"}
  Kind <- MCKind
  MaxAttempts = 2
  MaxCrashes = 2
  None = None
SYMMETRY RequestSymmetry
INVARIANTS GraphTypeOK GraphInHistory OneDecision ReportApproved
CHECK_DEADLOCK FALSE
