\* The queue: two producers, frames below and above the budget, a lane of one.
\* The writer: frames shorter and longer than a chunk, batches of up to two.
SPECIFICATION TransportSpec
CONSTANTS
    Senders = {s1, s2}
    Sizes = {1, 3}
    MaxSize = 3
    Budget = 2
    Capacity = 3
    LaneCapacity = 1
    MaxSends = 2
    Lens = {1, 3}
    PacketLen = 1
    BatchFrames = 2
    BatchBytes = 4
    Chunk = 2
    MaxBulk = 3
    MaxPackets = 2
INVARIANTS TypeOK NoLostWakeup InflightBounded PeekNeverMisses BytesAccounted OrderKept
PROPERTIES AcceptedIsReceived EverythingIsWritten
CHECK_DEADLOCK FALSE
