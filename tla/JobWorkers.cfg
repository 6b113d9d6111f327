SPECIFICATION FairWorkersSpec
CONSTANTS
  search = search
  Jobs = {j1, j2}
  Workers = {w1, w2}
  Providers = {search}
  ProviderOf <- MCProviderOf
  Priority <- MCPriority
  MaxAttempts <- MCMaxAttempts
  ProviderLimit <- MCProviderLimit
  MaxQueueDepth = 1
  MaxActive = 2
  LeaseSeconds = 1
  MaxDelay = 0
  Operations = {o1}
  Results = {1, 2}
  NoWorker = NoWorker
  NoResult = NoResult
  NoJob = NoJob
INVARIANTS WorkersTypeOK FencingInv PaidAtMostOnce
PROPERTIES EveryJobSettles
CHECK_DEADLOCK FALSE
