SPECIFICATION FairSpec
CONSTANTS
    None = None
    Key <- MCKey
    Code = {fine, broken}
    Broken = broken
    Checkpoint <- MCCheckpoint
    Student = {ann, tao}
    Request = {r1, r2}
    MaxEdits = 2
    MaxSnippets = 3
CHECK_DEADLOCK FALSE
INVARIANTS ReleasedRenders NothingLost OwnCode OneHighlighter PasteCompiles LabsAsWritten
PROPERTY Answered
