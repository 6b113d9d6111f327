SPECIFICATION FairApiSpec
CONSTANTS
  search = search
  Jobs = {j1, j2}
  Authoritative = {j1}
  Workers = {api}
  Api = api
  Report = report
  Providers = {search}
  ProviderOf <- MCProviderOf
  Priority <- MCPriority
  MaxAttempts <- MCMaxAttempts
  ProviderLimit <- MCProviderLimit
  MaxQueueDepth = 1
  MaxActive = 1
  LeaseSeconds = 2
  MaxDelay = 0
  Operations = {}
  Results = {report}
  NoWorker = NoWorker
  NoResult = NoResult
  NoJob = NoJob
  MaxCrashes = 0
PROPERTIES CancellationStops
CHECK_DEADLOCK FALSE
