\* A payment mined between two questions of one pass.
SPECIFICATION Spec
CONSTANTS
    Steps = 2
    Depth = 2
    MaxReorg = 1
    MaxSeq = 3
    MaxOther = 0
    MaxFaults = 1
    Worlds = {FALSE}
INVARIANTS PaidOnce
\* A finished trade stops, and every bound does.
CHECK_DEADLOCK FALSE
