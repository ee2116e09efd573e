CONSTANTS
  c1 = c1
  c2 = c2
  Clients = {c1}
  Hinted = {c1}
  MW = 41
  BH = 3
  Pad = 1
  NTags = 3
  Low <- MCLow
  Taggings <- MCTaggings
  NameW = 1
  AltW = 2
  MasterW = 1
  DeskW = 1
  Texts <- MCTexts
  Symbols = {1, 3}
  IconSets = {0, 3}
  PanelL = 0
  PanelR = 0
  BarLayout <- MCBarLayout
  HideVacant = TRUE
  Left = TRUE
SPECIFICATION Spec
INVARIANTS HitsShown BarWhole TagsCurrent
CHECK_DEADLOCK FALSE
