CONSTANTS
    d1 = d1   d2 = d2
    Document = {d1, d2}
    Junk = Junk
    MaxMessages = 3
SPECIFICATION FairSpec
PROPERTIES SubscribedOnceUp ReceivedIsListed
CHECK_DEADLOCK FALSE
