SPECIFICATION Spec
CONSTANTS
  j1 = j1
  j2 = j2
  j3 = j3
  search = search
  academic = academic
  Jobs = {j1, j2, j3}
  Workers = {w1, w2}
  Providers = {search, academic}
  ProviderOf <- MCProviderOf
  Priority <- MCPriority
  MaxAttempts <- MCMaxAttempts
  ProviderLimit <- MCProviderLimit
  MaxQueueDepth = 2
  MaxActive = 2
  LeaseSeconds = 1
  MaxDelay = 1
  Operations = {o1}
  Results = {r1}
  NoWorker = NoWorker
  NoResult = NoResult
SYMMETRY WorkerSymmetry
INVARIANTS TypeOK LeaseInv CapacityInv AuditInv OvershootInv
PROPERTIES ImplementsLifecycle
CONSTRAINT OneReserves
CHECK_DEADLOCK FALSE
