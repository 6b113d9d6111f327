SPECIFICATION PipelineSpec
CONSTANTS
  p1 = p1
  p2 = p2
  p3 = p3
  Pages = {p1, p2, p3}
  FamilyOf <- MCFamily
  TypeOf <- MCType
  Required = {"primary", "independent", "challenge"}
  MinFamilies = 2
  AcademicClaim = FALSE
  Structured = FALSE
  Readings = {"supports", "challenges"}
  Finds <- MCFinds
  MaxRounds = 3
  MaxConcurrent = 2
  MaxActivations = 6
  MaxSearches = 24
  MaxPages = 2
  MaxModels = 0
  MaxCandidates = 10
  MaxCrashes = 0
  NoResult = NoResult
INVARIANT ControllerReached
CHECK_DEADLOCK FALSE
