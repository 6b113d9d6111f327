SPECIFICATION Spec
CONSTANTS
  j1 = j1
  j2 = j2
  j3 = j3
  search = search
  academic = academic
  Jobs = {j1, j2}
  Workers = {w1, w2}
  Providers = {search, academic}
  ProviderOf <- MCProviderOf
  Priority <- MCPriority
  MaxAttempts <- MCMaxAttempts
  ProviderLimit <- WideProviderLimit
  MaxQueueDepth = 2
  MaxActive = 1
  LeaseSeconds = 2
  MaxDelay = 0
  Operations = {o1}
  Results = {r1}
  NoWorker = NoWorker
  NoResult = NoResult
INVARIANTS AttemptsBounded
CHECK_DEADLOCK FALSE
