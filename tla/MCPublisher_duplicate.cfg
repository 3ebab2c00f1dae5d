CONSTANTS
    p1 = p1   p2 = p2   p3 = p3
    x = x
    Call = {p1, p2}
    Cid = {x}
    Content <- ContentOf
    Invalid = {}
    Policies <- SomePolicies
    U32Max = 15
    DurationMax = 40
SPECIFICATION Spec
INVARIANT DuplicateWasBroadcast
