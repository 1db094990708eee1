\* One view at a time while the cluster changes twice.
SPECIFICATION Spec
CONSTANTS
  None = None
  Bad = Bad
  Nodes = {n1, n2}
  Indices = {a}
  Copies = {p, r}
  Asked <- SomeAsked
  Queries = 2
  MaxChanges = 3
  MaxTime = 1
SYMMETRY Exchange
INVARIANTS ViewsTypeOK SteadyShown PlacementWhole NodesShown DetailWhole
INVARIANT Legible
