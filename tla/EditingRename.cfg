CONSTANTS
    FrameMax = 2
    StackMax = 2
    NewName = "z"
    Texts <- MCTwoFunctions
    Typed <- MCTyped
    Options <- MCOptions
    Budget <- MCBudget
SPECIFICATION Spec
INVARIANT OthersStayUntouched
CHECK_DEADLOCK FALSE
