SPECIFICATION Spec
CONSTANTS
    c1 = c1
    c2 = c2
    c3 = c3
    m1 = m1
    m2 = m2
    None = None
    Client = {c1, c2}
    Monitor = {m1, m2}
    Tag = {1, 2}
    NeverFocus = {}
    Monocle = {m2}
    NMaster = 1
    ViewOnTag = TRUE
    ViewMasks = {{1}, {2}, {}}
    ToggleMasks = {}
    MayFloat = {c1}
    MayHide = {}
INVARIANTS TypeOK ListsAgree RefsValid OnScreen
PROPERTIES KeepsSelection Quiet
