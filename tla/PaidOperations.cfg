SPECIFICATION PaidSpec
CONSTANTS
  p1 = p1
  p2 = p2
  p3 = p3
  w1 = w1
  w2 = w2
  Keys = {model, find}
  Searches = {find}
  Processes = {p1, p2, p3}
  Workers = {w1, w2}
  Identity <- MCIdentity
  NoWorker = NoWorker
  NoKey = NoKey
  MaxStarts = 3
INVARIANTS PaidTypeOK CallsJustified OneCallAtATime CostCovered
CHECK_DEADLOCK FALSE
