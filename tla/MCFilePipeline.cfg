CONSTANTS
    w1 = w1   w2 = w2
    c1 = c1   c2 = c2
    h1 = h1
    Writer = {w1, w2}
    Cid = {c1, c2}
    Hash = {h1}
    Time = {1}
    NoRecord = NoRecord
    Inode = {1, 2, 3, 4}
    NoFile = NoFile
    Torn = Torn
    MaxBatch = 2
    MaxCalls = 3
    MaxFaults = 2
SPECIFICATION FairSpec
INVARIANTS PipelineTypeOK SerialKept SerialReceipts CheckpointKept CheckpointRegistered
PROPERTIES FlushEnds ImplementsRegistry ImplementsDurable
CHECK_DEADLOCK FALSE
