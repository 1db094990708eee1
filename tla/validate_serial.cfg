SPECIFICATION FairSpec
CONSTANTS
  FaultKinds = {"elasticsearch", "upload", "cleanup", "crash"}
  KindOf <- Mixed
  MaxFaults = 2
  None = None
  NumServers = 2
  NumWords = 2
  Overlap = FALSE
  Readable = {"block"}
  Validators = {v1, v2}
  WorkerOf <- OneWorker
  Workers = {"w1"}
INVARIANT TypeOK
INVARIANT AnalyzedOwn
INVARIANT FailsOnlyByFault
PROPERTY CleanAgain
