CONSTANTS
    r1 = r1   r2 = r2
    c1 = c1   c2 = c2
    h1 = h1   h2 = h2
    a1 = a1   a2 = a2
    Runner = {r1, r2}
    Daemon = {r1}
    Cid = {c1, c2}
    Hash = {h1}
    Time = {1}
    NoRecord = NoRecord
    Junk = Junk
    BadPayload = BadPayload
    Address = {a1, a2}
    PdaOf <- Pdas
    Oversized = {}
    BatchSize = 2
    Rounds = 1
    MaxDeliveries = 2
    MaxFaults = 1
    MaxLost = 1
SPECIFICATION FairSpec
INVARIANTS SubmittedWellFormed CheckpointOnItsWay
PROPERTY AcceptedLands
