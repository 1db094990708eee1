SPECIFICATION Spec
CONSTANTS
  FaultKinds = {"elasticsearch"}
  KindOf <- AllBlock
  MaxFaults = 2
  None = None
  NumServers = 2
  NumWords = 2
  Overlap = TRUE
  Readable = {"block"}
  Validators = {v1, v2}
  WorkerOf <- TwoWorkers
  Workers = {"w1", "w2"}
INVARIANT CleanedUp
