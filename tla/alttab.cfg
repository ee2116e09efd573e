CONSTANTS
  c1 = c1
  c2 = c2
  c3 = c3
  c4 = c4
  Clients = {c1, c2, c3, c4}
  Monitors = {0, 1}
  Tags = {1, 2}
  Mons <- MCMons
  MonOf <- MCMonOf
  TagsOf <- MCTagsOf
  ClassOf <- MCClassOf
  NameRank <- MCNameRank
  Modes <- MCModes
  Highlights = TRUE
  Dying = {c1}
  Early = FALSE
  None = None
SPECIFICATION Spec
INVARIANTS ListSound
PROPERTIES PreviewsPutBack LeftAsAsked
