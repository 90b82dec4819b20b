---------------------------- MODULE FrameWriter ----------------------------
(***************************************************************************)
(* The coalescing socket writer of rx11-core (transport.rs, drain_frames): *)
(* it takes bulk frames off the outbound queue, encodes several of them    *)
(* into one batch, and commits the batch to the socket in chunks of at     *)
(* most Chunk bytes, letting the priority lane in before every chunk.      *)
(* Producers park frames while the writer works; the queue itself (budget, *)
(* wake-ups) is module OutboundQueue.                                      *)
(***************************************************************************)
EXTENDS Integers, Sequences, SequencesExt

CONSTANTS
    Lens,           \* encoded sizes of bulk frames
    PacketLen,      \* encoded size of a priority packet
    BatchFrames,    \* OUTBOUND_BATCH_FRAMES
    BatchBytes,     \* OUTBOUND_BATCH_BYTES
    Chunk,          \* OUTBOUND_WRITE_CHUNK
    MaxBulk,        \* bound: bulk frames queued
    MaxPackets      \* bound: priority packets parked

ASSUME WriterAssumption ==
    /\ Lens \subseteq Nat \ {0}
    /\ {PacketLen, BatchFrames, BatchBytes, Chunk} \subseteq Nat \ {0}
    /\ {MaxBulk, MaxPackets} \subseteq Nat

VARIABLES
    bulk,       \* frames in the bulk channel
    parked,     \* packets in the priority channel, with the bulk bytes
                \* written since each was parked
    accepted,   \* history: bulk frames queued so far
    packets,    \* history: number of priority packets parked so far
    phase,      \* where drain_frames stands
    batch,      \* coalesced bytes not committed yet
    queued,     \* frames coalesced into the batch
    failed,     \* an encode failed
    wire        \* bytes handed to the socket

writerVars == <<bulk, parked, accepted, packets, phase, batch, queued, failed, wire>>

Phases == {"recv", "coalesce", "commit", "chunk", "done"}

\* A byte is known by its lane, its frame and its place in that frame.
\* Frame::encode_into: all of the frame's bytes, or none when it fails.
Encode(f) ==
    IF f.ok
      THEN [k \in 1 .. f.len |->
               [lane |-> "bulk", frame |-> f.id, at |-> k, last |-> k = f.len]]
      ELSE <<>>

EncodePacket(p) ==
    [k \in 1 .. PacketLen |->
        [lane |-> "priority", frame |-> p.id, at |-> k, last |-> k = PacketLen]]

EncodeAll(frames) == FlattenSeq([i \in 1 .. Len(frames) |-> Encode(frames[i])])

WriterInit ==
    /\ bulk = <<>>
    /\ parked = <<>>
    /\ accepted = <<>>
    /\ packets = 0
    /\ phase = "recv"
    /\ batch = <<>>
    /\ queued = 0
    /\ failed = FALSE
    /\ wire = <<>>

-----------------------------------------------------------------------------
(* Producers                                                               *)

\* OutboundSender::send publishes a frame; `ok` is false for one that will
\* exceed MAX_FRAME_SIZE when encoded.
QueueBulk(n, ok) ==
    LET f == [id |-> Len(accepted) + 1, len |-> n, ok |-> ok]
    IN  /\ phase # "done"
        /\ Len(accepted) < MaxBulk
        /\ bulk' = Append(bulk, f)
        /\ accepted' = Append(accepted, f)
        /\ UNCHANGED <<parked, packets, phase, batch, queued, failed, wire>>

\* OutboundSender::send_priority parks a packet.
ParkPacket ==
    /\ phase # "done"
    /\ packets < MaxPackets
    /\ packets' = packets + 1
    /\ parked' = Append(parked, [id |-> packets + 1, waited |-> 0])
    /\ UNCHANGED <<bulk, accepted, phase, batch, queued, failed, wire>>

-----------------------------------------------------------------------------
(* drain_frames                                                            *)

\* send_raw of the head of the lane (between batches or between chunks).
WritePacket ==
    /\ parked # <<>>
    /\ wire' = wire \o EncodePacket(Head(parked))
    /\ parked' = Tail(parked)

\* LaneItem::Priority: the packet is written on its own.
RecvPriority ==
    /\ phase = "recv"
    /\ WritePacket
    /\ UNCHANGED <<bulk, accepted, packets, phase, batch, queued, failed>>

\* LaneItem::Bulk: the first frame of a batch.
RecvBulk ==
    /\ phase = "recv"
    /\ parked = <<>>
    /\ bulk # <<>>
    /\ bulk' = Tail(bulk)
    /\ batch' = Encode(Head(bulk))
    /\ failed' = ~Head(bulk).ok
    /\ queued' = 1
    /\ phase' = "coalesce"
    /\ UNCHANGED <<parked, accepted, packets, wire>>

\* Mutant: the batch is bounded by bytes alone.
BatchOpenByBytes == ~failed /\ Len(batch) < BatchBytes

\* The coalescer may take another frame.
BatchOpen ==
    ~failed /\ queued < BatchFrames /\ Len(batch) < BatchBytes

\* try_recv of one more frame.  The peek at `priority_backlog` may still miss
\* a packet that has just been parked, so an occupied lane does not exclude
\* this step.
Coalesce ==
    /\ phase = "coalesce"
    /\ BatchOpen
    /\ bulk # <<>>
    /\ bulk' = Tail(bulk)
    /\ batch' = batch \o Encode(Head(bulk))
    /\ failed' = ~Head(bulk).ok
    /\ queued' = IF Head(bulk).ok THEN queued + 1 ELSE queued
    /\ UNCHANGED <<parked, accepted, packets, phase, wire>>

\* The batch is frozen: it is full, an encode failed, the bulk channel looks
\* empty, or priority_pending() says (rightly or not) that a packet waits.
\* An empty batch (its only frame failed) has no chunk to commit.
Freeze ==
    /\ phase = "coalesce"
    /\ phase' = IF batch # <<>> THEN "commit" ELSE "done"
    /\ UNCHANGED <<bulk, parked, accepted, packets, batch, queued, failed, wire>>

\* Before each chunk the lane is drained ...
CommitPriority ==
    /\ phase = "commit"
    /\ WritePacket
    /\ UNCHANGED <<bulk, accepted, packets, phase, batch, queued, failed>>

\* Mutant: one packet at most is let in before a chunk.
LaneDrainedOnce ==
    /\ phase = "commit"
    /\ Len(parked) <= 1
    /\ phase' = IF failed THEN "done" ELSE "chunk"
    /\ UNCHANGED <<bulk, parked, accepted, packets, batch, queued, failed, wire>>

\* ... and found empty; a failed encode ends the loop here.
LaneDrained ==
    /\ phase = "commit"
    /\ parked = <<>>
    /\ phase' = IF failed THEN "done" ELSE "chunk"
    /\ UNCHANGED <<bulk, parked, accepted, packets, batch, queued, failed, wire>>

\* Mutant: chunks_exact, which leaves the remainder behind.
WriteExactChunk ==
    /\ phase = "chunk"
    /\ IF Len(batch) >= Chunk
         THEN /\ wire' = wire \o SubSeq(batch, 1, Chunk)
              /\ batch' = SubSeq(batch, Chunk + 1, Len(batch))
              /\ parked' = [i \in 1 .. Len(parked) |-> [parked[i] EXCEPT !.waited = @ + Chunk]]
              /\ phase' = IF Len(batch) = Chunk THEN "recv" ELSE "commit"
         ELSE batch' = <<>> /\ phase' = "recv" /\ UNCHANGED <<wire, parked>>
    /\ UNCHANGED <<bulk, accepted, packets, queued, failed>>

\* send_raw(chunk).
WriteChunk ==
    LET n == IF Len(batch) < Chunk THEN Len(batch) ELSE Chunk
    IN  /\ phase = "chunk"
        /\ wire' = wire \o SubSeq(batch, 1, n)
        /\ batch' = SubSeq(batch, n + 1, Len(batch))
        /\ parked' = [i \in 1 .. Len(parked) |-> [parked[i] EXCEPT !.waited = @ + n]]
        /\ phase' = IF n = Len(batch) THEN "recv" ELSE "commit"
        /\ UNCHANGED <<bulk, accepted, packets, queued, failed>>

\* send_raw of a packet or of a chunk fails: the loop ends and the receiver
\* is dropped with whatever the lanes still hold.
SocketFails ==
    /\ \/ phase \in {"recv", "commit"} /\ parked # <<>>
       \/ phase = "chunk"
    /\ phase' = "done"
    /\ UNCHANGED <<bulk, parked, accepted, packets, batch, queued, failed, wire>>

\* LaneItem::BulkClosed: every sender clone is gone and the lanes are empty.
Finish ==
    /\ phase = "recv"
    /\ parked = <<>>
    /\ bulk = <<>>
    /\ phase' = "done"
    /\ UNCHANGED <<bulk, parked, accepted, packets, batch, queued, failed, wire>>

-----------------------------------------------------------------------------
WriterStep ==
    RecvPriority \/ RecvBulk \/ Coalesce \/ Freeze \/ CommitPriority
        \/ LaneDrained \/ WriteChunk

WriterNext ==
    \/ \E n \in Lens, ok \in BOOLEAN : QueueBulk(n, ok)
    \/ ParkPacket
    \/ WriterStep
    \/ SocketFails
    \/ Finish

\* The writer task is polled whenever its socket or its lanes are ready.
WriterSpec == WriterInit /\ [][WriterNext]_writerVars /\ WF_writerVars(WriterStep)
-----------------------------------------------------------------------------
(* Properties                                                              *)

WriterTypeOK ==
    /\ phase \in Phases
    /\ queued \in 0 .. BatchFrames
    /\ failed \in BOOLEAN
    /\ packets \in 0 .. MaxPackets
    /\ bulk \in Seq([id : 1 .. MaxBulk, len : Lens, ok : BOOLEAN])
    /\ Len(parked) <= packets
    /\ \A i \in 1 .. Len(parked) : parked[i].id \in 1 .. packets

(* A real-time packet's queueing delay is bounded by one commit chunk of     *)
(* bulk bytes (transport.rs:205), wherever in a batch it is parked.          *)
PacketDelayBounded == \A i \in 1 .. Len(parked) : parked[i].waited <= Chunk

BulkBytes(bytes) ==
    FlattenSeq([i \in 1 .. Len(bytes) |->
                   IF bytes[i].lane = "bulk" THEN <<bytes[i]>> ELSE <<>>])

(* Coalescing and chunking neither lose, repeat nor reorder a bulk byte:     *)
(* what is on the wire, in the batch and in the channel is exactly what was  *)
(* queued, in order, for as long as the writer runs.                         *)
BulkStreamIntact ==
    phase # "done" =>
        BulkBytes(wire) \o batch \o EncodeAll(bulk) = EncodeAll(accepted)

(* Every frame the writer may still send reaches the wire to its last byte,  *)
(* and every parked packet too, unless the writer stops.                     *)
EverythingIsWritten ==
    /\ \A id \in 1 .. MaxBulk :
          (Len(accepted) >= id)
              ~> \/ phase = "done"
                 \/ \E i \in 1 .. Len(wire) :
                        wire[i].lane = "bulk" /\ wire[i].frame = id /\ wire[i].last
    /\ \A id \in 1 .. MaxPackets :
          (packets >= id)
              ~> \/ phase = "done"
                 \/ \E i \in 1 .. Len(wire) :
                        wire[i].lane = "priority" /\ wire[i].frame = id /\ wire[i].last

(* Chunking serves both lanes: a packet waits for one chunk at most, and the *)
(* bulk stream it cuts into stays whole.                                     *)
OrderKept == WriterTypeOK /\ PacketDelayBounded /\ BulkStreamIntact

-----------------------------------------------------------------------------
(* What the repository says of the writer and the code does not do.          *)

(* protocol_e2e.rs:733 "The coalescing writer must preserve frame ORDER and  *)
(* byte-exact framing": a frame's bytes are contiguous on the wire.          *)
WireIsFramed ==
    \A i \in 1 .. Len(wire) - 1 :
        ~wire[i].last =>
            /\ wire[i + 1].lane = wire[i].lane
            /\ wire[i + 1].frame = wire[i].frame
            /\ wire[i + 1].at = wire[i].at + 1
=============================================================================
