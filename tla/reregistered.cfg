\* Requests when ids are registered again after a deletion.
SPECIFICATION Spec
CONSTANTS
  r1 = r1  r2 = r2  w1 = w1  w2 = w2  script = script
  Ids = {"admin", "u"}
  Admin = "admin"
  Roles = {"ADMIN", "VIEWER"}
  Names = {"n"}
  DefaultName = "n"
  None = None
  Requests = {r1, r2}
  Workers = {w1, w2}
  Starters = {w1, w2, script}
  WorkerOf <- Place
  Exclusive = {"update", "delete"}
  OneCreatePerId = TRUE
  Reregister = TRUE
  Together = FALSE
  MaxAccounts = 3
  MaxFaults = 0
INVARIANT DeletionHolds
