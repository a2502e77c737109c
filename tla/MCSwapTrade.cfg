\* Calm worlds and others, any trader rogue or none.
SPECIFICATION FairSpec
CONSTANTS
    Steps = 2
    Depth = 2
    MaxReorg = 1
    MaxSeq = 3
    MaxOther = 1
    MaxFaults = 2
    Worlds = {TRUE, FALSE}
INVARIANTS TypeOK PaidOnceIfCalm Exposure DoneIsDone RowKnows
PROPERTIES Completion
\* A finished trade stops, and every bound does.
CHECK_DEADLOCK FALSE
