CONSTANTS
    f1 = f1   f2 = f2
    c1 = c1   c2 = c2
    pdf = pdf txt = txt
    File = {f1, f2}
    Cid = {c1, c2}
    ContentType = {pdf, txt}
    CidOf <- MCCidOf
    TypeOf <- MCTypeOf
    Meta = {Untitled, memo, brief}
    Untitled = Untitled
    Tags = {NoTags, leak}
    NoTags = NoTags
    Time = {1, 2}
    None = None
    MaxUploads = 2
    MaxAnchors = 1
SPECIFICATION FairSpec
INVARIANTS TypeOK BusyExact AnchorsBroadcast
PROPERTY BusyEnds
