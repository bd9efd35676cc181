SPECIFICATION FairSpec
CONSTANTS
    None = None
    Me <- MCMe
    Neighbours <- MCFar
    Poll = {q1}
    MaxSlips = 1
    Skippable = {"uncomment 3"}
    Detours = {4}
    MaxContinue = 1
CHECK_DEADLOCK FALSE
INVARIANTS OwnGreen Earned RowsAreStudents
PROPERTIES PutBack Graduates
