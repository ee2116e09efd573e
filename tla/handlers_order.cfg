SPECIFICATION Spec
CONSTANTS
    c1 = c1
    c2 = c2
    c3 = c3
    m1 = m1
    m2 = m2
    None = None
    Client = {c1, c2, c3}
    Monitor = {m1}
    Tag = {1, 2}
    NeverFocus = {}
    Monocle = {}
    NMaster = 1
    ViewOnTag = FALSE
    ViewMasks = {{1}, {2}}
    ToggleMasks = {{2}}
    MayFloat = {}
    MayHide = {c1}
INVARIANT NeverBlank
PROPERTIES OneMoves PicksShown
CONSTRAINT FewToggled
SYMMETRY AlikeSymmetry
