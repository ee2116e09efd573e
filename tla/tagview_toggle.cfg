SPECIFICATION Spec
CONSTANTS
    NTags = 2
    NLayouts = 3
    NoArrange = {3}
    Configs <- TwoConfigs
    ViewMasks <- AllMasks
    ToggleMasks <- OneTagMasks
    MFactArgs <- KeyArgs
    MaxNMaster = 3
    MaxChanges = 2
INVARIANTS AppliedFresh
PROPERTIES ImplementsViews OthersKept
