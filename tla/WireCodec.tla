----------------------------- MODULE WireCodec -----------------------------
(***************************************************************************)
(* Frames on the wire (rx11-core/src/protocol) and the reader that finds    *)
(* them again in a byte stream (transport.rs).  A cell stands for one field  *)
(* of a header or payload, or for one unit of payload data; the four bytes   *)
(* of the magic are one cell.                                               *)
(***************************************************************************)
EXTENDS Naturals, Sequences, FiniteSets

CONSTANTS
    MaxFrame,       \* MAX_FRAME_SIZE, in cells
    MaxField,       \* u32::MAX
    MaxCount        \* u16::MAX, the chunks a diff may have

ASSUME CodecAssumption == {MaxFrame, MaxField, MaxCount} \subseteq Nat \ {0}

Magic == 77
WireVersion == 1
HeaderSize == 4
HardLimit == MaxFrame + 24      \* READ_BUF_HARD_LIMIT: room for a header
Absent == 0

Tag ==
    [Hello |-> 1, HelloAck |-> 2, AuthRequest |-> 3, AuthResponse |-> 4,
     SessionCreate |-> 16, SessionAck |-> 17, SessionDestroy |-> 18, SessionResume |-> 19,
     SessionAutoCreate |-> 20, ChannelOpen |-> 24, ChannelClose |-> 25,
     StreamResyncRequest |-> 26, StreamData |-> 32, CompressedStreamData |-> 33,
     IncrementalStreamData |-> 34, CompressedIncrementalStreamData |-> 35,
     Heartbeat |-> 48, HeartbeatAck |-> 49, FlowControl |-> 64, Error |-> 255]

Types == DOMAIN Tag
KnownTag(t) == \E m \in Types : Tag[m] = t
TypeOf(t) == CHOOSE m \in Types : Tag[m] = t

Binary ==
    {"StreamData", "CompressedStreamData", "IncrementalStreamData", "CompressedIncrementalStreamData"}

Empty == {"Heartbeat", "HeartbeatAck"}

-----------------------------------------------------------------------------
(* JSON payloads: an object with one entry per field.  A field is written     *)
(* unless it is left out at its empty value, and a field that is missing is    *)
(* read as its default.                                                       *)

Plain(key) == [key |-> key, skips |-> FALSE, optional |-> FALSE, default |-> Absent]
Option(key) == [key |-> key, skips |-> FALSE, optional |-> TRUE, default |-> Absent]
Skipped(key) == [key |-> key, skips |-> TRUE, optional |-> TRUE, default |-> Absent]
AllAlgos == 9
Fields ==
    [Hello |-> <<Plain(1), Plain(2), Skipped(3),
                 [Plain(4) EXCEPT !.optional = TRUE, !.default = AllAlgos], Skipped(5)>>,
     HelloAck |-> <<Plain(1), Plain(2), Plain(3), Option(4), Skipped(5), Skipped(6)>>,
     AuthRequest |-> <<Plain(1)>>,
     AuthResponse |-> <<Plain(1), Option(2)>>,
     SessionCreate |-> <<Plain(1), Plain(2), Plain(3)>>,
     SessionAck |-> <<Plain(1), Plain(2), Option(3), Skipped(4)>>,
     SessionDestroy |-> <<Plain(1)>>,
     SessionResume |-> <<Plain(1)>>,
     SessionAutoCreate |-> <<Plain(1), Plain(2)>>,
     ChannelOpen |-> <<Plain(1), Plain(2), Skipped(3), Skipped(4)>>,
     ChannelClose |-> <<Plain(1)>>,
     FlowControl |-> <<Plain(1), Skipped(2)>>,
     Error |-> <<Plain(1), Plain(2)>>,
     StreamResyncRequest |-> <<Plain(1)>>]

\* The message is the sequence of its fields' values.
EncodeJson(type, msg) ==
    LET upTo[n \in 0 .. Len(msg)] ==
            IF n = 0 THEN <<>>
            ELSE IF Fields[type][n].skips /\ msg[n] = Absent THEN upTo[n - 1]
            ELSE upTo[n - 1] \o <<Fields[type][n].key, msg[n]>>
    IN  upTo[Len(msg)]

\* validate_session_create, validate_session_auto_create.
Valid(type, msg) ==
    CASE type = "SessionCreate" -> msg[2] # Absent /\ msg[3] # Absent
      [] type = "SessionAutoCreate" -> msg[1] # Absent /\ msg[2] # Absent
      [] OTHER -> TRUE

DecodeJson(type, p) ==
    LET At(n) == {i \in 1 .. Len(p) \div 2 : p[2 * i - 1] = Fields[type][n].key}
        whole == \A n \in 1 .. Len(Fields[type]) : At(n) # {} \/ Fields[type][n].optional
        msg == [n \in 1 .. Len(Fields[type]) |->
                    IF At(n) = {} THEN Fields[type][n].default
                    ELSE p[2 * (CHOOSE i \in At(n) : TRUE)]]
    IN  IF Len(p) % 2 = 0 /\ whole /\ Valid(type, msg)
        THEN [ok |-> TRUE, frame |-> [type |-> type, msg |-> msg]]
        ELSE [ok |-> FALSE]

-----------------------------------------------------------------------------
(* Binary payloads.  A message is its fixed fields and its data; a diff has    *)
(* chunks [offset, data] in the place of the data.                            *)

FixedFields(type) ==
    CASE type = "StreamData" -> 2
      [] type = "IncrementalStreamData" -> 4
      [] OTHER -> 3

EncodeChunks(chunks) ==
    LET upTo[n \in 0 .. Len(chunks)] ==
            IF n = 0 THEN <<>>
            ELSE upTo[n - 1] \o <<chunks[n].offset, Len(chunks[n].data)>> \o chunks[n].data
    IN  upTo[Len(chunks)]

\* What is appended to the buffer, and whether the encoder went through: a
\* chunk it cannot describe stops it behind the chunks it has written.
EncodeBinary(type, m) ==
    LET bad == {n \in 1 .. Len(m.data) : m.data[n].offset > MaxField}
        first == CHOOSE n \in bad : \A k \in bad : n <= k
    IN  IF \E i \in 1 .. Len(m.fixed) : m.fixed[i] > MaxField THEN [out |-> <<>>, ok |-> FALSE]
        ELSE IF type # "IncrementalStreamData"
        THEN [out |-> IF Len(m.data) > MaxFrame THEN <<>> ELSE m.fixed \o m.data,
              ok |-> Len(m.data) <= MaxFrame]
        ELSE IF Len(m.data) > MaxCount THEN [out |-> <<>>, ok |-> FALSE]
        ELSE IF bad # {}
        THEN [out |-> m.fixed \o <<Len(m.data)>> \o EncodeChunks(SubSeq(m.data, 1, first - 1)),
              ok |-> FALSE]
        ELSE [out |-> m.fixed \o <<Len(m.data)>> \o EncodeChunks(m.data), ok |-> TRUE]

\* The announced number of chunks, each with its header and its data in bounds.
DecodeChunks(count, p) ==
    LET upTo[n \in 0 .. count] ==
            IF n = 0 THEN [ok |-> TRUE, chunks |-> <<>>, pos |-> 0]
            ELSE LET s == upTo[n - 1]
                     from == s.pos + 2
                 IN  IF ~s.ok \/ from > Len(p) THEN [s EXCEPT !.ok = FALSE]
                     ELSE IF from + p[from] > Len(p) THEN [s EXCEPT !.ok = FALSE]
                     ELSE [ok |-> TRUE, pos |-> from + p[from],
                           chunks |-> Append(s.chunks, [offset |-> p[s.pos + 1],
                               data |-> SubSeq(p, from + 1, from + p[from])])]
    IN  upTo[count]

DecodeBinary(type, p) ==
    LET n == FixedFields(type)
        fixed == SubSeq(p, 1, n)
        diff == type = "IncrementalStreamData"
        parts == DecodeChunks(p[n + 1], SubSeq(p, n + 2, Len(p)))
    IN  IF Len(p) < n \/ (diff /\ Len(p) = n) THEN [ok |-> FALSE]
        ELSE IF ~diff
        THEN [ok |-> TRUE, frame |-> [type |-> type,
                msg |-> [fixed |-> fixed, data |-> SubSeq(p, n + 1, Len(p))]]]
        ELSE IF ~parts.ok THEN [ok |-> FALSE]
        ELSE [ok |-> TRUE, frame |-> [type |-> type,
                msg |-> [fixed |-> fixed, data |-> parts.chunks]]]

-----------------------------------------------------------------------------
\* Frame::encode_into.

Header(type, len) == <<Magic, WireVersion, Tag[type], len>>

Body(f) ==
    IF f.type \in Binary THEN EncodeBinary(f.type, f.msg)
    ELSE [out |-> IF f.type \in Empty THEN <<>> ELSE EncodeJson(f.type, f.msg), ok |-> TRUE]

\* Appended to what the buffer holds; a frame that cannot be encoded leaves
\* the buffer as it was.
EncodeInto(out, f) ==
    IF Body(f).ok /\ Len(Body(f).out) <= MaxFrame
    THEN [out |-> out \o Header(f.type, Len(Body(f).out)) \o Body(f).out, ok |-> TRUE]
    ELSE [out |-> out, ok |-> FALSE]

DecodePayload(type, p) ==
    IF type \in Binary THEN DecodeBinary(type, p)
    ELSE IF type \notin Empty THEN DecodeJson(type, p)
    ELSE IF p # <<>> THEN [ok |-> FALSE]
    ELSE [ok |-> TRUE, frame |-> [type |-> type, msg |-> <<>>]]

-----------------------------------------------------------------------------
\* The reader.

\* peek_frame: "more", "corrupt", or "header".
PeekFrame(data) ==
    IF Len(data) < HeaderSize THEN "more"
    ELSE IF data[1] # Magic \/ data[2] # WireVersion \/ data[4] > MaxFrame \/ ~KnownTag(data[3])
    THEN "corrupt" ELSE "header"

FrameLen(data) == HeaderSize + data[4]

\* The distance to the next magic behind the first cell, 0 without one.
ScanForMagic(data) ==
    LET at == {i \in 2 .. Len(data) : data[i] = Magic}
    IN  IF at = {} THEN 0 ELSE (CHOOSE i \in at : \A j \in at : i <= j) - 1

\* Plausible slip: the ceiling leaves no room for the header.
ReadStepTight(buf) ==
    CASE PeekFrame(buf) = "header" /\ Len(buf) >= FrameLen(buf) -> "frame"
      [] PeekFrame(buf) = "corrupt" -> IF ScanForMagic(buf) = 0 THEN "fail" ELSE "hunt"
      [] OTHER -> IF Len(buf) > MaxFrame THEN "overflow" ELSE "read"

\* What the loop of recv_frame_inner does next with its buffer.
ReadStep(buf) ==
    CASE PeekFrame(buf) = "header" /\ Len(buf) >= FrameLen(buf) -> "frame"
      [] PeekFrame(buf) = "corrupt" -> IF ScanForMagic(buf) = 0 THEN "fail" ELSE "hunt"
      [] OTHER -> IF Len(buf) > HardLimit THEN "overflow" ELSE "read"

TakenFrame(buf) == DecodePayload(TypeOf(buf[3]), SubSeq(buf, HeaderSize + 1, FrameLen(buf)))

From(s, n) == SubSeq(s, n, Len(s))

-----------------------------------------------------------------------------
(* The recorder's bytes on their way to the encoder (audio/mod.rs): the gate *)
(* that strips a WAV header, and the packetizer that cuts frames.            *)

CONSTANTS
    PcmFrame,       \* PCM_FRAME_BYTES, in cells
    MaxHeader       \* FormatGate::MAX_HEADER_BYTES

ASSUME PcmAssumption == PcmFrame \in Nat \ {0} /\ MaxHeader \in Nat

Riff == 201
Wave == 202
DataId == 203

NewGate == [prefix |-> <<>>, decided |-> FALSE]

\* Plausible slips: the header of the data chunk is taken for audio; the pad
\* byte of an odd chunk is forgotten.
WalkShort(p) ==
    LET at[off \in Nat] ==
            IF off + 2 > Len(p) THEN 0
            ELSE IF p[off + 1] = DataId THEN off
            ELSE at[off + 2 + p[off + 2] + (p[off + 2] % 2)]
    IN  at[3]

WalkUnpadded(p) ==
    LET at[off \in Nat] ==
            IF off + 2 > Len(p) THEN 0
            ELSE IF p[off + 1] = DataId THEN off + 2
            ELSE at[off + 2 + p[off + 2]]
    IN  at[3]

\* Where the audio begins, behind the header of the data chunk; 0 while the
\* chunks in front of it have not all come.
WalkChunks(p) ==
    LET at[off \in Nat] ==
            IF off + 2 > Len(p) THEN 0
            ELSE IF p[off + 1] = DataId THEN off + 2
            ELSE at[off + 2 + p[off + 2] + (p[off + 2] % 2)]
    IN  at[3]

\* FormatGate::feed: the gate after the chunk, and the audio it lets through.
Feed(g, chunk) ==
    LET p == g.prefix \o chunk
        raw == [gate |-> [prefix |-> <<>>, decided |-> TRUE], audio |-> p]
        wait == [gate |-> [prefix |-> p, decided |-> FALSE], audio |-> <<>>]
    IN  IF g.decided THEN [gate |-> g, audio |-> chunk]
        ELSE IF Len(p) >= 3 /\ (p[1] # Riff \/ p[3] # Wave) THEN raw
        ELSE IF Len(p) >= MaxHeader THEN raw
        ELSE IF Len(p) < 3 \/ WalkChunks(p) = 0 THEN wait
        ELSE [raw EXCEPT !.audio = SubSeq(p, WalkChunks(p) + 1, Len(p))]

NewPacketizer == [carry |-> <<>>, seq |-> 0, packets |-> <<>>]

\* Packetizer::push: every whole frame becomes the next packet.
PushPcm(z, audio) ==
    LET all == z.carry \o audio
        n == Len(all) \div PcmFrame
        frame(i) == [seq |-> z.seq + i - 1, pcm |-> SubSeq(all, (i - 1) * PcmFrame + 1, i * PcmFrame)]
    IN  [carry |-> SubSeq(all, n * PcmFrame + 1, Len(all)), seq |-> z.seq + n,
         packets |-> z.packets \o [i \in 1 .. n |-> frame(i)]]
=============================================================================
