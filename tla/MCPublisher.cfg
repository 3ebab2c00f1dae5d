CONSTANTS
    p1 = p1   p2 = p2   p3 = p3
    x = x
    Call = {p1, p2, p3}
    Cid = {x}
    Content <- ContentOf
    Invalid = {p3}
    Policies <- SomePolicies
    U32Max = 15
    DurationMax = 40
SPECIFICATION FairSpec
INVARIANTS AtMostOnce RelayedIsStored RetriesUsed BackoffGrows
PROPERTY PublishEnds
