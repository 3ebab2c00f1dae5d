CONSTANTS
    r1 = r1   r2 = r2
    c1 = c1   c2 = c2
    h1 = h1   h2 = h2
    Runner = {r1, r2}
    Daemon = {r1}
    Cid = {c1, c2}
    Hash = {h1, h2}
    Time = {1}
    NoRecord = NoRecord
    Junk = Junk
    BadPayload = BadPayload
    BatchSize = 2
    Rounds = 2
    MaxDeliveries = 3
    MaxFaults = 2
SPECIFICATION Spec
INVARIANTS TypeOK CheckpointSound NothingSwallowed NeverResubmitted BatchesDistinct AnchoredCountedOnce
PROPERTIES CheckpointGrows PendingRetained ImplementsRegistry
SYMMETRY Symmetry
