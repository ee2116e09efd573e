CONSTANTS
  left = left
  right = right
  None = None
  Clients = {"c1", "c2"}
  Mons = {left, right}
  MX <- MCEdges
  MW = 20
  Border = 1
  OwnBorder = 2
  Ops = {"toggle"}
  Never = {"c2"}
  Tilers = {"c2"}
  Floats <- MCFloats
  Requests <- MCRequests
  Writers = {"c1"}
  Restarts = TRUE
SPECIFICATION Spec
INVARIANTS Consistent StatesAgree
PROPERTIES NothingLost Settles
