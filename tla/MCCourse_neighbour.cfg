SPECIFICATION Spec
CONSTANTS
    None = None
    Me <- MCMe
    Neighbours <- MCNear
    Poll = {q1, q2}
    MaxSlips = 0
    Skippable = {}
    Detours = {}
    MaxContinue = 0
CHECK_DEADLOCK FALSE
INVARIANT OwnGreen
