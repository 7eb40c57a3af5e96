SPECIFICATION FairSpec
CONSTANTS
    Channels = {c1, c2}
    Chats = {k1}
    Retries = 3
CHECK_DEADLOCK FALSE
INVARIANTS
    ReadWasReceived
    AckedIsRead
    NeverGivesUpEarly
    UnackedIsRetried
PROPERTIES
    QuietAfterAck
    DeliveredIsRead
    TimersStop
    IsBoundedDelivery
