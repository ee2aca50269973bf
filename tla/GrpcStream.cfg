SPECIFICATION FairSpec
CONSTANTS
    QueueDepth = 2
    MaxMsgs = 3
    MaxHeaders = 1
CHECK_DEADLOCK FALSE
INVARIANTS
    NoSendOnClosedChannel
    UplinkFaithful
    HeaderIsFinal
PROPERTIES
    DownlinkDelivers
    StreamWindsDown
    CancelReleases
