SPECIFICATION Spec
CONSTANTS
    a1 = a1
    a2 = a2
    b1 = b1
    d1 = d1
    m1 = m1
    None = None
    Client = {a1, a2, b1, d1}
    Monitor = {m1}
    Tag = {1, 2}
    NeverFocus = {}
    Monocle = {}
    NMaster = 1
    ViewOnTag = FALSE
    Class <- MCClass
    Parent <- MCParent
    Floating = {d1}
    MayBeModal = {d1}
INVARIANTS Stacked
PROPERTIES ModalFirst
CHECK_DEADLOCK FALSE
