SPECIFICATION PipelineSpec
CONSTANTS
  p1 = p1
  p2 = p2
  p3 = p3
  Pages = {p1, p2, p3}
  FamilyOf <- MCFamily
  TypeOf <- MCType
  Required = {"primary", "independent", "challenge"}
  MinFamilies = 2
  AcademicClaim = FALSE
  Structured = TRUE
  Readings = {"supports", "challenges"}
  Finds <- MCFinds
  MaxRounds = 3
  MaxConcurrent = 2
  MaxActivations = 6
  MaxSearches = 5
  MaxPages = 7
  MaxModels = 5
  MaxCandidates = 10
  MaxCrashes = 1
  NoResult = NoResult
INVARIANTS PipelineTypeOK BudgetHeld SufficientIsBacked Escalated
PROPERTIES SettledOnce PipelineEnds
CHECK_DEADLOCK FALSE
