\* The channel is smaller than the high watermark, and up to two
\* flow frames are lost.  What differs for the downlink is in MCFlow.
SPECIFICATION FlowSpec
CONSTANTS
    Retransmits = 2
    High = 2
    Low = 1
    ChanCapacity = 1
    LaneCapacity = 2
    ReportCapacity = 1
    MaxDrops = 2
    MaxPayloads = 5
INVARIANTS TypeOK GaugeIsExact LatchedHasBacklog NeverBothLegs GaugeCovers LegsApart
PROPERTIES UplinkLives EverythingDelivered
CHECK_DEADLOCK FALSE
