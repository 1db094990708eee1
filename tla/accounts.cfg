\* Requests of two workers that come and go.
SPECIFICATION Spec
CONSTANTS
  r1 = r1  r2 = r2  w1 = w1  w2 = w2  script = script
  Ids = {"admin", "u"}
  Admin = "admin"
  Roles = {"ADMIN", "VIEWER"}
  Names = {"n"}
  DefaultName = "n"
  None = None
  Requests = {r1, r2}
  Workers = {w1, w2}
  Starters = {w1, w2, script}
  WorkerOf <- Place
  Exclusive = {}
  OneCreatePerId = TRUE
  Reregister = FALSE
  Together = FALSE
  MaxAccounts = 2
  MaxFaults = 1
INVARIANTS LifespanTypeOK UniqueAccount DeletionHolds AllClosed
PROPERTIES AccountRemains LastAdmin
