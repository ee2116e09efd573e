CONSTANTS
  Clients = {c1, c2}
  Setups <- MCSetups
  SplitOf <- MCSplitOf
  StartSplit = {1}
  Wishes = {2, 1001}
  Most = 3
  AtOnce = 1
  None = None
SPECIFICATION Spec
SYMMETRY Symmetry
INVARIANTS Consistent Wanted
PROPERTIES HomeKept
