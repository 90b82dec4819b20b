\* Framing on the wire when a packet is parked between two chunks.
SPECIFICATION WriterSpec
CONSTANTS
    Lens = {1, 3}
    PacketLen = 1
    BatchFrames = 2
    BatchBytes = 4
    Chunk = 2
    MaxBulk = 2
    MaxPackets = 2
INVARIANT WireIsFramed
CHECK_DEADLOCK FALSE
