CONSTANTS
  term = term
  prog = prog
  dialog = dialog
  None = None
  Wins = {term, prog, dialog}
  Ids = {i1, i2, i3}
  Terms = {term}
  NoSwallow = {}
  Floating = {dialog}
  NewMaster = {term, dialog}
  TransientFor <- MCTransient
  Proc <- MCProc
  Desc <- MCDesc
  BadWindows = TRUE
  Hasty = {dialog}
  Remaps = {}
SPECIFICATION Spec
SYMMETRY Symmetric
INVARIANTS Consistent Returns ScreenManaged
CHECK_DEADLOCK FALSE
