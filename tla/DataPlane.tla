----------------------------- MODULE DataPlane -----------------------------
(***************************************************************************)
(* One direction of the data plane of a relay session: the policy chain of *)
(* dataplane.rs at both ends, the diff bases of incremental.rs, the shared *)
(* compression stream, and the resync protocol.                            *)
(*                                                                         *)
(* "down": the relay task takes the payloads of all applications, builds a *)
(* frame and queues it before it does anything else (relay/connection.rs). *)
(* "up": every channel has a pump of its own with its own diff base; the   *)
(* pumps share the compression stream and race for the outbound queue      *)
(* (proxy.rs).  The bulk queue and the wire keep order.  The frame reader  *)
(* may lose a frame while it hunts for the next magic after a damaged      *)
(* header (transport.rs); resync requests ride the lossy priority lane.    *)
(***************************************************************************)
EXTENDS Naturals, Sequences, FiniteSets, FiniteSetsExt, SequencesExt

-----------------------------------------------------------------------------
(* The pure part of incremental.rs: sequence numbers, the chunk diff of a    *)
(* payload against a cached base and its application.  A payload is a        *)
(* sequence of cells; a base is a record of the sequence number and the      *)
(* payload it was cached with, NoBase when nothing is cached.                *)

CONSTANTS
    ChunkSize,      \* DiffParams.chunk_size
    MinBlock,       \* DiffParams.min_block_size
    RefOverhead,    \* IncrementalDefaults::REFERENCE_OVERHEAD
    SavingsDen,     \* min_savings_ratio is 1 / SavingsDen
    SeqWidth,         \* width of the u32 sequence number
    ZeroCell        \* the cell BytesMut::zeroed fills with

ASSUME DiffAssumption ==
    /\ ChunkSize \in Nat \ {0} /\ MinBlock \in Nat /\ RefOverhead \in Nat
    /\ SavingsDen \in Nat \ {0} /\ SeqWidth \in Nat \ {0, 1}

NoBase == [seq |-> 0, data |-> <<>>]

Base(seq, data) == [seq |-> seq, data |-> data]

\* Plausible slip: the number does not wrap.
NextSequenceUnwrapped(base) == IF base = NoBase THEN 1 ELSE base.seq + 1

\* wrapping_add(1).max(1): a sequence number is never 0.
NextSequence(base) ==
    IF base = NoBase THEN 1
    ELSE LET wrapped == (base.seq + 1) % SeqWidth IN IF wrapped = 0 THEN 1 ELSE wrapped

Smaller(a, b) == IF a <= b THEN a ELSE b

\* The block of `data` at `offset`, empty past its end.
BlockAt(data, offset) == SubSeq(data, offset + 1, Smaller(offset + ChunkSize, Len(data)))

Offsets(data) == {o \in {k * ChunkSize : k \in 0 .. Len(data)} : o < Len(data)}

\* The changed blocks, as a set: their offsets are distinct and disjoint.
ComputeDiffChunks(old, new) ==
    {[offset |-> o, data |-> BlockAt(new, o)] :
        o \in {p \in Offsets(new) : BlockAt(new, p) # BlockAt(old, p)}}

ChunkBytes(chunks) == MapThenSumSet(LAMBDA c : Len(c.data), chunks)

NoDiff == [base |-> 0, len |-> 0, chunks |-> {}]

Diff(base, new, chunks) == [base |-> base.seq, len |-> Len(new), chunks |-> chunks]

SavesEnough(old, chunks) ==
    LET bytes == ChunkBytes(chunks)
        saved == IF bytes <= Len(old) THEN Len(old) - bytes ELSE 0
    IN  saved >= Len(old) \div SavingsDen

\* Plausible slip: a truncated prefix scans as "no changed block".
ComputeIncrementalPrefix(base, new) ==
    IF base = NoBase \/ Len(new) < MinBlock THEN NoDiff
    ELSE Diff(base, new, ComputeDiffChunks(base.data, new))

\* NoDiff when the payload has to travel whole.
ComputeIncremental(base, new) ==
    LET old == base.data
        chunks == ComputeDiffChunks(old, new)
        short == Len(new) < MinBlock
        exact == Len(new) > RefOverhead /\ new = old
    IN  IF base = NoBase THEN NoDiff
        ELSE IF short THEN IF exact THEN Diff(base, new, {}) ELSE NoDiff
        ELSE IF chunks = {}
             THEN IF Len(new) = Len(old) THEN Diff(base, new, {}) ELSE NoDiff
        ELSE IF SavesEnough(old, chunks) THEN Diff(base, new, chunks) ELSE NoDiff

Overlay(old, len, chunks) ==
    [i \in 1 .. len |->
        LET hit == {c \in chunks : i - 1 \in c.offset .. (c.offset + Len(c.data) - 1)}
        IN  IF hit # {} THEN LET c == CHOOSE x \in hit : TRUE IN c.data[i - c.offset]
            ELSE IF i <= Len(old) THEN old[i] ELSE ZeroCell]

\* Plausible slip: the base's sequence number is not compared.
AppliesAnyBase(base, diff) == base # NoBase

Applies(base, diff) ==
    /\ base # NoBase
    /\ base.seq = diff.base
    /\ diff.chunks = {} => Len(base.data) = diff.len
    /\ \A c \in diff.chunks : c.offset + Len(c.data) <= diff.len

\* What a diff that applies expands to; the receiver caches it under the
\* frame's own sequence number.
ApplyIncremental(base, diff) ==
    IF diff.chunks = {} THEN base.data ELSE Overlay(base.data, diff.len, diff.chunks)

-----------------------------------------------------------------------------
CONSTANTS
    Garbage,        \* bytes no application sent
    Configs,        \* the negotiated configurations, with their channels
    Threshold,      \* compression_threshold
    DiffHeader,     \* encoded size of a diff without chunks
    ChunkHeader,    \* encoded size of a chunk's offset and length
    WireCapacity,   \* bound: frames between the sender and the receiver
    MaxRefused,     \* bound: frames sent while refusals are outstanding
    MaxLostAsks     \* bound: resync requests lost on a full priority lane

ASSUME DataPlaneAssumption ==
    /\ \A g \in Configs : /\ g.dir \in {"down", "up"}
                          /\ g.algo \in {"none", "oneshot", "stream"}
                          /\ g.features \subseteq {"incremental", "incremental_uplink", "resync"}
                          /\ g.skips \in Nat
                          /\ g.payloads # {} /\ g.conns # {}
    /\ {WireCapacity, MaxRefused, MaxLostAsks} \subseteq Nat
    /\ SeqWidth > MaxRefused + 1

Channels == UNION {g.conns : g \in Configs}

Payloads == UNION {g.payloads : g \in Configs}

ASSUME PayloadsAssumption ==
    /\ \A p \in Payloads : p \in Seq({p[i] : i \in DOMAIN p})
    /\ Garbage \notin Payloads /\ Garbage # <<>>

None == [kind |-> "none"]   \* an empty hand
Nothing == <<>>             \* nothing delivered yet

VARIABLES
    config,     \* features, compression, direction, channels, payloads, faults
    base,       \* sender: diff base per channel
    reset,      \* "up": the uplink_reset flag per channel
    hand,       \* frame built and waiting for room in the outbound queue
    enc, dec,   \* fragments the stream encoder made, the decoder consumed
    wire,       \* frames in the outbound queue and on the wire, in order
    cache,      \* receiver: diff base per channel
    owned,      \* relay: the channel is registered and owned by this transport
    stopped,    \* client: the channel was closed, its pump is gone
    asks,       \* channels with a resync request under way
    lostAsks,   \* resync requests lost so far
    skips,      \* frames the reader may still lose
    refused,    \* per channel: refusals since the last delivered payload
    out,        \* per channel: the payload delivered last
    hurt,       \* per channel: a frame was lost, or the channel is closing
    broken,     \* the session failed on a broken compression stream
    queued,     \* history: the number after the last fragment put on the wire
    spoilt      \* history: more has gone wrong than the two ends can tell

senderVars == <<base, reset, hand, enc>>
receiverVars == <<dec, cache, refused, out, broken>>
faultVars == <<lostAsks, skips, hurt>>
historyVars == <<queued, spoilt>>
vars == <<config, senderVars, wire, receiverVars, owned, stopped, asks, faultVars, historyVars>>

Has(f) == f \in config.features

MayDiff == Has("incremental") /\ (config.dir = "down" \/ Has("incremental_uplink"))

DataInit ==
    /\ config \in Configs
    /\ \E seq \in {0, SeqWidth - 2} :     \* a fresh channel, or one about to wrap
        \E p \in config.payloads :
            LET b == IF seq = 0 \/ ~MayDiff THEN NoBase ELSE Base(seq, p)
            IN  /\ base = [c \in Channels |-> b]
                /\ cache = [c \in Channels |-> b]
    /\ reset = [c \in Channels |-> FALSE]
    /\ hand = [c \in Channels |-> None]
    /\ enc = 0 /\ dec = 0
    /\ wire = <<>>
    /\ owned = [c \in Channels |-> c \in config.conns]
    /\ stopped = [c \in Channels |-> c \notin config.conns]
    /\ asks = {}
    /\ lostAsks = 0
    /\ skips = config.skips
    /\ refused = [c \in Channels |-> 0]
    /\ out = [c \in Channels |-> Nothing]
    /\ hurt = [c \in Channels |-> FALSE]
    /\ broken = FALSE
    /\ queued = 0 /\ spoilt = FALSE

\* The data frames of a channel among some frames, in order.
DataOf(frames, c) ==
    FlattenSeq([i \in 1 .. Len(frames) |->
        IF frames[i].conn = c /\ frames[i].kind # "close" THEN <<frames[i]>> ELSE <<>>])

InTransit(c) == DataOf(wire, c)

-----------------------------------------------------------------------------
(* What the two ends cannot tell is only recorded: spoilt guards no step.  A *)
(* stream has no resync of its own, so a fragment that is queued out of the  *)
(* order it was encoded in, lost, or thrown away while other channels still  *)
(* use the decoder, parts the histories.  And numbers start again at 1 after *)
(* a resync, so a second lost frame of a channel can make a stale base look  *)
(* like the right one.                                                       *)

\* f is a fragment of the compression stream.
Streamed(f) == config.algo = "stream" /\ f.kind # "close" /\ f.squeezed

NoteQueued(f) ==
    /\ queued' = IF Streamed(f) THEN (f.pos + 1) % SeqWidth ELSE queued
    /\ spoilt' = (spoilt \/ (Streamed(f) /\ f.pos # queued))

NoteSkipped(f) ==
    /\ spoilt' = (spoilt \/ (Streamed(f) /\ \E d \in config.conns : owned[d]))
    /\ UNCHANGED queued

NoteLost(f) ==
    /\ spoilt' = \/ spoilt
                 \/ Streamed(f)
                 \/ hurt[f.conn] /\ (config.dir = "up" => owned[f.conn])
    /\ UNCHANGED queued

-----------------------------------------------------------------------------
(* The sender.                                                              *)

\* compress_with: a one-shot algorithm declines what does not shrink.
OneShot == {TRUE, FALSE}

\* The stream never declines: its history has already taken the payload in.
Compressions(len) ==
    IF config.algo = "none" \/ len < Threshold THEN {FALSE}
    ELSE IF config.algo = "stream" THEN {TRUE} ELSE OneShot

\* zstd_stream_compress: one more fragment of the continuous stream.
AfterEncode(squeezed) ==
    IF squeezed /\ config.algo = "stream" THEN (enc + 1) % SeqWidth ELSE enc

DiffSize(diff) == DiffHeader + ChunkHeader * Cardinality(diff.chunks) + ChunkBytes(diff.chunks)

\* Plausible slip: the relay builds the next frame while one waits for room.
SenderFreePerChannel(c) == hand[c] = None

\* The relay task is one task: it holds at most one frame.
SenderFree(c) == IF config.dir = "up" THEN hand[c] = None ELSE \A d \in Channels : hand[d] = None

\* Plausible slip: the pump keeps its base when the relay asks for a resync.
SendBaseKept(c) == base[c]

SendBase(c) == IF reset[c] THEN NoBase ELSE base[c]

Frame(c, old, p, squeezed) ==
    LET diff == IF MayDiff THEN ComputeIncremental(old, p) ELSE NoDiff
    IN  [kind |-> IF diff = NoDiff THEN "plain" ELSE "diff", conn |-> c,
         seq |-> NextSequence(old), diff |-> diff,
         data |-> IF diff = NoDiff THEN p ELSE <<>>,
         squeezed |-> squeezed, pos |-> IF squeezed THEN enc ELSE 0, orig |-> p]

BuildFrame(c, p) ==
    LET old == SendBase(c)
        diff == IF MayDiff THEN ComputeIncremental(old, p) ELSE NoDiff
        size == IF diff = NoDiff THEN Len(p) ELSE DiffSize(diff)
    IN  \E squeezed \in Compressions(size) :
            /\ hand' = [hand EXCEPT ![c] = Frame(c, old, p, squeezed)]
            /\ base' = [base EXCEPT ![c] = IF MayDiff THEN Base(NextSequence(old), p) ELSE @]
            /\ enc' = AfterEncode(squeezed)

\* The bound that keeps a stale number from coming round again: in the code
\* it takes 2^32 frames while one resync request is under way.
AtBound(c) == SendBase(c) # NoBase /\ refused[c] + Len(InTransit(c)) >= MaxRefused

Build(c) ==
    /\ ~broken /\ ~stopped[c]
    /\ config.dir = "down" => owned[c]
    /\ SenderFree(c)
    /\ ~AtBound(c)
    /\ \E p \in config.payloads : BuildFrame(c, p)
    /\ reset' = [reset EXCEPT ![c] = FALSE]
    /\ UNCHANGED <<config, wire, receiverVars, owned, stopped, asks, faultVars, historyVars>>

\* outbound.send: pumps with a frame in hand are let in in any order.
Queue(c) ==
    /\ hand[c] # None /\ Len(wire) < WireCapacity /\ ~broken
    /\ wire' = Append(wire, hand[c])
    /\ hand' = [hand EXCEPT ![c] = None]
    /\ NoteQueued(hand[c])
    /\ UNCHANGED <<config, base, reset, enc, receiverVars, owned, stopped, asks, faultVars>>

-----------------------------------------------------------------------------
(* The receiver.                                                            *)

Delivered(f, data) ==
    /\ out' = [out EXCEPT ![f.conn] = data]
    /\ refused' = [refused EXCEPT ![f.conn] = 0]
    /\ cache' = IF MayDiff THEN [cache EXCEPT ![f.conn] = Base(f.seq, data)] ELSE cache
    /\ UNCHANGED <<asks, lostAsks>>

\* ResyncRequired: the frame's bytes are gone; the request may be lost.
Refused(f) ==
    /\ refused' = [refused EXCEPT ![f.conn] = @ + 1]
    /\ IF Has("resync")
       THEN \/ asks' = asks \union {f.conn} /\ UNCHANGED lostAsks
            \/ lostAsks < MaxLostAsks /\ lostAsks' = lostAsks + 1 /\ UNCHANGED asks
       ELSE UNCHANGED <<asks, lostAsks>>
    /\ UNCHANGED <<out, cache>>

Expand(f) ==
    IF f.kind = "plain" THEN Delivered(f, f.data)
    ELSE IF Applies(cache[f.conn], f.diff)
         THEN Delivered(f, ApplyIncremental(cache[f.conn], f.diff))
         ELSE Refused(f)

\* A fragment decoded against another history than it was encoded with fails
\* or yields other bytes; zstd has no checksum inside a running stream.
InStep(f) == config.algo # "stream" \/ ~f.squeezed \/ f.pos = dec

AfterDecode(f) == IF config.algo = "stream" /\ f.squeezed THEN (dec + 1) % SeqWidth ELSE dec

ApplyInbound(f) ==
    \/ /\ InStep(f)
       /\ dec' = AfterDecode(f)
       /\ Expand(f)
       /\ UNCHANGED broken
    \/ /\ ~InStep(f)
       /\ broken' = TRUE
       /\ UNCHANGED <<dec, cache, refused, out, asks, lostAsks>>
    \/ /\ ~InStep(f)
       /\ dec' = AfterDecode(f)
       /\ Delivered(f, Garbage)
       /\ UNCHANGED broken

\* The relay checks ownership before a frame touches any state; the client
\* has no such check and runs every frame through the chain.
Skipped(f) == config.dir = "up" /\ ~owned[f.conn]

ReceiveData ==
    /\ ~broken /\ wire # <<>> /\ Head(wire).kind # "close"
    /\ wire' = Tail(wire)
    /\ IF Skipped(Head(wire))
       THEN NoteSkipped(Head(wire)) /\ UNCHANGED <<receiverVars, asks, lostAsks>>
       ELSE ApplyInbound(Head(wire)) /\ UNCHANGED historyVars
    /\ UNCHANGED <<config, senderVars, owned, stopped, skips, hurt>>

\* The reader hunts for the next magic: the head frame is never seen.
LoseFrame ==
    /\ ~broken /\ wire # <<>> /\ skips > 0 /\ Head(wire).kind # "close"
    /\ wire' = Tail(wire)
    /\ skips' = skips - 1
    /\ hurt' = [hurt EXCEPT ![Head(wire).conn] = TRUE]
    /\ NoteLost(Head(wire))
    /\ UNCHANGED <<config, senderVars, receiverVars, owned, stopped, asks, lostAsks>>

\* "down": the relay drops its send base if the channel is still owned (it is
\* the relay task, so not while it waits for room in the queue).
\* "up": the serve loop raises the pump's flag if the channel is known.
DropsBase(c) ==
    IF config.dir = "down"
    THEN /\ SenderFree(c)
         /\ base' = [base EXCEPT ![c] = IF owned[c] THEN NoBase ELSE @]
         /\ UNCHANGED reset
    ELSE /\ reset' = [reset EXCEPT ![c] = @ \/ ~stopped[c]]
         /\ UNCHANGED base

TakeAsk(c) ==
    /\ ~broken /\ c \in asks
    /\ asks' = asks \ {c}
    /\ DropsBase(c)
    /\ UNCHANGED <<config, hand, enc, wire, receiverVars, owned, stopped, faultVars, historyVars>>

-----------------------------------------------------------------------------
(* The end of a channel: the application disconnects at the relay.          *)

CloseFrame(c) == [kind |-> "close", conn |-> c]

\* Disconnected: the relay forgets both bases and announces the close, on the
\* bulk lane behind the channel's last picture.
Disconnect(c) ==
    /\ ~broken /\ owned[c]
    /\ owned' = [owned EXCEPT ![c] = FALSE]
    /\ IF config.dir = "down"
       THEN /\ SenderFree(c)
            /\ base' = [base EXCEPT ![c] = NoBase]
            /\ hand' = [hand EXCEPT ![c] = CloseFrame(c)]
            /\ UNCHANGED <<cache, hurt>>
       ELSE /\ cache' = [cache EXCEPT ![c] = NoBase]
            /\ hurt' = [hurt EXCEPT ![c] = TRUE]
            /\ UNCHANGED <<base, hand>>
    /\ UNCHANGED <<config, reset, enc, wire, dec, refused, out, broken, stopped,
                   asks, lostAsks, skips, historyVars>>

\* ChannelClose at the client: "down", in order with the data it follows.
TakeClose ==
    /\ ~broken /\ wire # <<>> /\ Head(wire).kind = "close"
    /\ wire' = Tail(wire)
    /\ cache' = [cache EXCEPT ![Head(wire).conn] = NoBase]
    /\ stopped' = [stopped EXCEPT ![Head(wire).conn] = TRUE]
    /\ UNCHANGED <<config, senderVars, dec, refused, out, broken, owned, asks,
                   faultVars, historyVars>>

\* "up": the same frame ends the pump, some time after the relay closed.
StopPump(c) ==
    /\ config.dir = "up" /\ ~owned[c] /\ ~stopped[c] /\ ~broken
    /\ hand[c] = None       \* the pump itself drops out at its next read
    /\ stopped' = [stopped EXCEPT ![c] = TRUE]
    /\ UNCHANGED <<config, senderVars, wire, receiverVars, owned, asks, faultVars, historyVars>>

Next ==
    \/ ReceiveData \/ LoseFrame \/ TakeClose
    \/ \E c \in Channels :
        Build(c) \/ Queue(c) \/ TakeAsk(c) \/ Disconnect(c) \/ StopPump(c)

\* Queues and the wire move on; the receiver reads; a resync request that
\* arrives again and again is taken.  Applications owe nothing.
Fairness ==
    /\ WF_vars(ReceiveData) /\ WF_vars(TakeClose)
    /\ \A c \in Channels : WF_vars(Queue(c)) /\ SF_vars(TakeAsk(c))

Spec == DataInit /\ [][Next]_vars /\ Fairness

-----------------------------------------------------------------------------
IsBase(b) == b.seq \in 0 .. SeqWidth - 1 /\ b.data \in Payloads \union {<<>>, Garbage}

TypeOK ==
    /\ config \in Configs
    /\ \A c \in Channels : IsBase(base[c]) /\ IsBase(cache[c])
    /\ {reset, owned, stopped, hurt} \subseteq [Channels -> BOOLEAN]
    /\ enc \in 0 .. SeqWidth - 1 /\ dec \in 0 .. SeqWidth - 1
    /\ Len(wire) <= WireCapacity
    /\ asks \subseteq Channels
    /\ lostAsks \in 0 .. MaxLostAsks
    /\ skips \in Nat
    /\ \A c \in Channels : refused[c] \in 0 .. MaxRefused
    /\ \A c \in Channels : out[c] \in Payloads \union {Nothing, Garbage}
    /\ broken \in BOOLEAN

\* The data frames of a channel that the receiver has not seen: on the wire
\* and in the sender's hand.
Unseen(c) ==
    InTransit(c) \o (IF hand[c] # None /\ hand[c].kind # "close" THEN <<hand[c]>> ELSE <<>>)

\* The abstract stream: the payloads those frames were made of.
InFlight(c) == [i \in 1 .. Len(Unseen(c)) |-> Unseen(c)[i].orig]

Stream == INSTANCE PayloadStream WITH
    Values <- Payloads,
    pending <- [c \in Channels |-> InFlight(c)],
    void <- spoilt

(* Several pumps feed one stream.                                           *)
SharedStream ==
    config.algo = "stream" /\ config.dir = "up" /\ \E c, d \in config.conns : c # d

(* What it takes to part the ends: pumps that share a compression stream, a *)
(* lost frame where there is a stream, two lost frames where there is none. *)
SpoiltOnlyByFaults ==
    spoilt => SharedStream \/ skips + (IF config.algo = "stream" THEN 1 ELSE 2) <= config.skips

(* dataplane.rs:146 "stream stays in lockstep", :152-154: the encoder's and *)
(* the decoder's histories are the same, so a negotiated stream never       *)
(* breaks the session by itself.  Two pumps on one stream violate it.       *)
StaysInStep == ~broken /\ \A c \in Channels : out[c] # Garbage

(* The types of both ends' bases, coders and counters, and their histories  *)
(* in step, for as long as no more than one frame of a channel is lost and  *)
(* the fragments of a stream reach the decoder in the order they were made; *)
(* with one task that compresses and queues, they do.                       *)
EndsAgree == SpoiltOnlyByFaults /\ (spoilt \/ (TypeOK /\ StaysInStep))

(* The data plane implements a first-in first-out stream per channel        *)
(* (PayloadStream): diffs expand to the payload they were made of, never    *)
(* against another base, and without a lost frame nothing is ever refused;  *)
(* the promise lapses only under the faults above.                          *)
StreamsPayloads == Stream!StreamSpec /\ []SpoiltOnlyByFaults

(* incremental.rs:99-101 "strictly greater than the cached base so the      *)
(* receiver can detect stale diffs": without a compression stream, what is  *)
(* handed out is the payload of the oldest frame under way.  Two lost       *)
(* frames violate it.                                                       *)
StaleDiffsDetected ==
    [][config.algo # "stream" =>
        \A c \in Channels : out'[c] # out[c] =>
            Unseen(c) # <<>> /\ out'[c] = Head(Unseen(c)).orig]_vars

(* Resync heals: while an application keeps sending on an open channel of a *)
(* session that does not fail, a refused diff is not the last word, although*)
(* requests may get lost.  A sender held up by the bound of the model counts*)
(* as one that keeps sending unless two frames were lost: the code would go *)
(* on, be refused and ask again.                                            *)
ResyncHeals ==
    \A c \in Channels :
        (/\ Has("resync") /\ []owned[c] /\ []~broken
         /\ []<><<Build(c)>>_vars \/ ([]<>AtBound(c) /\ []~spoilt)) => []<>(refused[c] = 0)
=============================================================================
