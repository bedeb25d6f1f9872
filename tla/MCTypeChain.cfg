\* 13 types: chains of changes of every length.
CONSTANTS
    Types <- MCTypes
    Sizes <- MCSizes
SPECIFICATION ChainSpec
INVARIANTS ChainTypeOK UnflaggedKeepsValues
PROPERTY FlagsOnlyLoss
