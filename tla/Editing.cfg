CONSTANTS
    FrameMax = 2
    StackMax = 2
    NewName = "z"
    Texts <- MCTexts
    Typed <- MCTyped
    Options <- MCOptions
    Budget <- MCBudget
SPECIFICATION Spec
INVARIANT TokensShown
INVARIANT RangeAgrees
INVARIANT KindsFitNesting
INVARIANT FormattingSettles
INVARIANT RenameKeepsBindings
INVARIANT DeclarationsFound
INVARIANT PairsSurface
CHECK_DEADLOCK FALSE
