SPECIFICATION FairSpec
CONSTANTS
    t1 = t1
    t2 = t2
    n1 = n1
    n2 = n2
    Tab = {t1}
    Name = {n1}
    Process = {p1, p2}
    None = None
    Size = 1
    MaxRotations = 2
    MaxFaults = 1
    Legacy <- MCLegacy
CHECK_DEADLOCK FALSE
PROPERTIES BackIn
