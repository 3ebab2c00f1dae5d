CONSTANTS
    c1 = c1   c2 = c2   c3 = c3
    h1 = h1   h2 = h2
    a1 = a1   a2 = a2   a3 = a3   w1 = w1
    Cid = {c1, c2, c3}
    Hash = {h1, h2}
    Time = {1}
    Address = {a1, a2, a3, w1}
    PdaOf <- Pdas
    NoRecord = NoRecord
    Oversized = {c3}
    MaxTx = 2
SPECIFICATION Spec
INVARIANTS RecordAtItsPda SequencedLands
PROPERTIES NoPartialBatch ImplementsRegistry
SYMMETRY Symmetry
CHECK_DEADLOCK FALSE
