CONSTANTS
    Base = 4
    W32 = 1
    W64 = 2
    Domain <- MCDomain
    Blank = {0}
    Cids <- MCCids
    Titles <- MCTitles
    Descriptions <- MCDescriptions
    ContentTypes <- MCContentTypes
    Sizes = {0, 6}
    Times = {7}
    TagLists <- MCTagLists
    Versions = {1, 2}
SPECIFICATION Spec
INVARIANTS HashBinds PortsAgree
CHECK_DEADLOCK FALSE
