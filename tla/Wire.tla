-------------------------------- MODULE Wire --------------------------------
(***************************************************************************)
(* An application's byte stream from its socket at the relay to the local X  *)
(* server at the client: read in arbitrary pieces, cut into recode units,    *)
(* framed, coalesced on one socket, read in other pieces, expanded, watched  *)
(* and written.  Frames of every other kind travel the same way, and the     *)
(* recorder's bytes go through the gate and the packetizer.  The frames that  *)
(* open, feed and close channels are dispatched to the client's pumps.       *)
(***************************************************************************)
EXTENDS WireCodec, X11Recode, ProxyChannels

CONSTANTS
    Configs,    \* records [kind, stream, script, codec, auth, reply, range, audio, damage]
    Reads       \* the sizes a read may have

ASSUME ReadsAssumption == Reads \subseteq Nat \ {0}

VARIABLES
    config,
    src,        \* what the source has not been read yet
    rec,        \* the DownstreamReencoder of the listener task
    script,     \* the frames queued for the writer
    seq,        \* the sequence number of the next data frame
    batch,      \* what the writer has coalesced: the cells, and (history) the frames
    writer,     \* "open"; "failed" on a frame that cannot be encoded; "closed"
    sent,       \* history: the frames the writer committed
    wire,       \* the cells on the socket
    damaged,    \* a cell of the socket's stream was damaged
    rbuf,       \* the reader's accumulation buffer
    reader,     \* "open"; "failed"; "over"
    got,        \* history: the frames that came out of the reader
    queue,      \* the payloads on the channel to the pump
    held,       \* the bytes the pump is about to write
    pump,       \* "idle"; "writing"; "failed"
    local,      \* history: the bytes the local X server got
    watch, known, order,        \* SetupRequestWatcher; authorization and setup_order
    reply, rwatch, range,       \* what the local X server answers; SetupReplyWatcher
    gate, packetizer,
    served      \* how many frames of got the serve loop has dispatched

sendVars == <<src, rec, script, seq, batch, writer, sent>>
readVars == <<rbuf, reader, got, queue>>
pumpVars == <<held, pump, local, watch, known, order>>
replyVars == <<reply, rwatch, range>>
pcmVars == <<gate, packetizer>>
chainVars == <<config, sendVars, wire, damaged, readVars, pumpVars, replyVars, pcmVars>>
vars == <<chainVars, served, proxyVars>>

X11Kind == 1
NoBatch == [out |-> <<>>, frames |-> <<>>]

Init ==
    /\ config \in Configs
    /\ src = config.stream /\ rec = NewRecoder /\ script = config.script /\ seq = 0
    /\ batch = NoBatch /\ writer = "open" /\ sent = <<>> /\ wire = <<>> /\ damaged = FALSE
    /\ rbuf = <<>> /\ reader = "open" /\ got = <<>> /\ queue = <<>>
    /\ held = <<>> /\ pump = "idle" /\ local = <<>>
    /\ watch = NewWatcher /\ known = Nothing /\ order = Nothing
    /\ reply = <<>> /\ rwatch = NewWatcher /\ range = Nothing
    /\ gate = NewGate /\ packetizer = NewPacketizer
    /\ served = 0 /\ ProxyInit

Least(a, b) == IF a < b THEN a ELSE b
FirstOf(s, n) == SubSeq(s, 1, Least(n, Len(s)))
Rest(s, n) == SubSeq(s, Least(n, Len(s)) + 1, Len(s))

DataFrame(n, data) == [type |-> "StreamData", msg |-> [fixed |-> <<1, n>>, data |-> data]]
Recoding == config.codec # "none"

-----------------------------------------------------------------------------
\* The relay.

\* socket_to_relay: one read, one event per unit.
ReadApp(n) ==
    /\ config.kind = "x11" /\ src # <<>> /\ writer = "open"
    /\ src' = Rest(src, n)
    /\ \E r \in {PushChunk(rec, config.codec, FirstOf(src, n))} :
        LET units == IF Recoding THEN r.out ELSE <<FirstOf(src, n)>>
        IN  /\ rec' = IF Recoding THEN [r EXCEPT !.out = <<>>] ELSE rec
            /\ script' = script \o [i \in 1 .. Len(units) |-> DataFrame(seq + i - 1, units[i])]
            /\ seq' = seq + Len(units)
    /\ UNCHANGED <<config, batch, writer, sent, wire, damaged, readVars, pumpVars, replyVars, pcmVars>>

\* The writer drains its queue into one buffer.
Coalesce ==
    LET e == EncodeInto(batch.out, Head(script))
    IN  /\ writer = "open" /\ script # <<>>
        /\ script' = Tail(script)
        /\ batch' = [out |-> e.out,
                     frames |-> IF e.ok THEN Append(batch.frames, Head(script)) ELSE batch.frames]
        /\ writer' = IF e.ok THEN "open" ELSE "failed"
        /\ UNCHANGED <<config, src, rec, seq, sent, wire, damaged, readVars, pumpVars, replyVars, pcmVars>>

\* One write.  A frame that could not be encoded ends the loop before its
\* first chunk: what was coalesced in front of it is dropped with the connection.
Commit ==
    /\ batch # NoBatch \/ writer = "failed"
    /\ \/ /\ writer = "open"
          /\ wire' = wire \o batch.out /\ sent' = sent \o batch.frames /\ UNCHANGED writer
       \/ writer = "failed" /\ writer' = "closed" /\ UNCHANGED <<wire, sent>>
    /\ batch' = NoBatch
    /\ UNCHANGED <<config, src, rec, script, seq, damaged, readVars, pumpVars, replyVars, pcmVars>>

\* The magic of the frame at the head of the socket is damaged.
Damage ==
    /\ config.damage /\ ~damaged /\ wire # <<>> /\ wire[1] = Magic
    /\ wire' = [wire EXCEPT ![1] = 0] /\ damaged' = TRUE
    /\ UNCHANGED <<config, sendVars, readVars, pumpVars, replyVars, pcmVars>>

-----------------------------------------------------------------------------
\* recv_frame_inner at the client.

ReadSocket(n) ==
    /\ reader = "open" /\ ReadStep(rbuf) = "read" /\ wire # <<>>
    /\ rbuf' = rbuf \o FirstOf(wire, n) /\ wire' = Rest(wire, n)
    /\ UNCHANGED <<config, sendVars, damaged, reader, got, queue, pumpVars, replyVars, pcmVars>>

ReadEnds ==
    /\ reader = "open"
    /\ \/ ReadStep(rbuf) = "read" /\ wire = <<>> /\ writer = "closed" /\ reader' = "over"
       \/ ReadStep(rbuf) \in {"fail", "overflow"} /\ reader' = "failed"
    /\ UNCHANGED <<config, sendVars, wire, damaged, rbuf, got, queue, pumpVars, replyVars, pcmVars>>

\* Plausible slip: the buffer is emptied.
HuntAll ==
    /\ reader = "open" /\ ReadStep(rbuf) = "hunt"
    /\ rbuf' = <<>>
    /\ UNCHANGED <<config, sendVars, wire, damaged, reader, got, queue, pumpVars, replyVars, pcmVars>>

Hunt ==
    /\ reader = "open" /\ ReadStep(rbuf) = "hunt"
    /\ rbuf' = From(rbuf, ScanForMagic(rbuf) + 1)
    /\ UNCHANGED <<config, sendVars, wire, damaged, reader, got, queue, pumpVars, replyVars, pcmVars>>

\* A whole frame; its data goes to the pump of its connection.  The serve loop
\* asks for the next one when it has dispatched the last.
TakeFrame ==
    LET d == TakenFrame(rbuf)
    IN  /\ reader = "open" /\ ReadStep(rbuf) = "frame"
        /\ config.kind = "channels" => served = Len(got) /\ serving = Idle
        /\ rbuf' = From(rbuf, FrameLen(rbuf) + 1)
        /\ reader' = IF d.ok THEN "open" ELSE "failed"
        /\ got' = IF d.ok THEN Append(got, d.frame) ELSE got
        /\ queue' = IF d.ok /\ config.kind = "x11" THEN Append(queue, d.frame.msg.data) ELSE queue
        /\ UNCHANGED <<config, sendVars, wire, damaged, pumpVars, replyVars, pcmVars>>

-----------------------------------------------------------------------------
\* The downlink leg of the pump.

\* The unit is expanded, and the setup request read out of the bytes, before
\* they are written.
Take ==
    /\ pump = "idle" /\ queue # <<>>
    /\ queue' = Tail(queue)
    /\ \E e \in {IF Recoding THEN Expand(Head(queue)) ELSE [ok |-> TRUE, bytes |-> Head(queue)]} :
        \/ /\ ~e.ok
           /\ pump' = "failed" /\ UNCHANGED <<held, watch, known, order>>
        \/ /\ e.ok
           /\ pump' = "writing" /\ held' = e.bytes
           /\ watch' = ObserveRequest(watch, e.bytes)
           /\ known' = IF watch'.found # watch.found THEN watch'.found ELSE known
           /\ order' = IF watch'.found # watch.found THEN FromRequest(watch'.buf) ELSE order
    /\ UNCHANGED <<config, sendVars, wire, damaged, rbuf, reader, got, local, replyVars, pcmVars>>

\* The local X server answers the setup request once it has it.
Write ==
    LET all == local \o held
        asked == SetupMessageLen(config.stream)
    IN  /\ pump = "writing"
        /\ pump' = "idle" /\ local' = all /\ held' = <<>>
        /\ reply' = IF Len(local) < asked /\ Len(all) >= asked THEN config.reply ELSE reply
        /\ UNCHANGED <<config, sendVars, wire, damaged, readVars, watch, known, order, rwatch, range, pcmVars>>

\* The uplink leg: the reply is watched once the order is known.
ReadReply(n) ==
    LET w == IF order = Nothing THEN rwatch ELSE ObserveReply(rwatch, FirstOf(reply, n), order[1])
    IN  /\ pump # "failed" /\ reply # <<>>
        /\ reply' = Rest(reply, n) /\ rwatch' = w
        /\ range' = IF w.found # rwatch.found THEN w.found ELSE range
        /\ UNCHANGED <<config, sendVars, wire, damaged, readVars, pumpVars, pcmVars>>

\* The recorder loop of the relay.
ReadPcm(n) ==
    LET f == Feed(gate, FirstOf(src, n))
    IN  /\ config.kind = "pcm" /\ src # <<>>
        /\ src' = Rest(src, n) /\ gate' = f.gate /\ packetizer' = PushPcm(packetizer, f.audio)
        /\ UNCHANGED <<config, rec, script, seq, batch, writer, sent, wire, damaged, readVars, pumpVars, replyVars>>

-----------------------------------------------------------------------------
\* dispatch_frame, on_other_frame: the frames that concern the map of pumps.  A
\* channel of an unknown kind is not opened.
Dispatch ==
    LET f == got[served + 1]
    IN  /\ config.kind = "channels" /\ served < Len(got)
        /\ served' = served + 1
        /\ \/ f.type = "ChannelOpen" /\ f.msg[2] = X11Kind /\ OpenChannel(f.msg[1])
           \/ f.type = "ChannelOpen" /\ f.msg[2] # X11Kind /\ serving = Idle /\ UNCHANGED proxyVars
           \/ f.type = "StreamData" /\ RouteData(f.msg.fixed[1], f.msg.data)
           \/ f.type = "ChannelClose" /\ CloseChannel(f.msg[1])
        /\ UNCHANGED chainVars

Proxy == config.kind = "channels" /\ ProxyNext /\ UNCHANGED <<chainVars, served>>

Listener == \E n \in Reads : ReadApp(n) \/ ReadPcm(n)
Writer == Coalesce \/ Commit
Reader == (\E n \in Reads : ReadSocket(n)) \/ ReadEnds \/ Hunt \/ TakeFrame
Downlink == Take \/ Write
Uplink == \E n \in Reads : ReadReply(n)

Chain ==
    /\ Listener \/ Writer \/ Damage \/ Reader \/ Downlink \/ Uplink
    /\ UNCHANGED <<served, proxyVars>>

Next == Chain \/ Dispatch \/ Proxy

Spec == Init /\ [][Next]_vars

-----------------------------------------------------------------------------
TypeOK ==
    /\ writer \in {"open", "failed", "closed"} /\ reader \in {"open", "failed", "over"}
    /\ pump \in {"idle", "writing", "failed"} /\ damaged \in BOOLEAN
    /\ Len(got) <= Len(sent) /\ held # <<>> => pump = "writing"
    /\ rec.stage \in {"setup", "requests"} /\ rec.raw = <<>> /\ rec.out = <<>>

Prefix(s, t) == Len(s) <= Len(t) /\ s = SubSeq(t, 1, Len(s))

(* frame.rs:64-67, transport.rs:36-52 However the stream is coalesced and cut *)
(* by the reads, also behind a frame that failed to encode, the reader hands  *)
(* out exactly the frames that were committed, in order; behind a damaged      *)
(* header only whole frames again, with the damaged one missing.            *)
FramesIntact ==
    \/ Prefix(got, sent)
    \/ damaged /\ \E cut \in 1 .. Len(sent) :
        Prefix(got, SubSeq(sent, 1, cut - 1) \o SubSeq(sent, cut + 1, Len(sent)))

(* transport.rs:16-20 The ceiling of the accumulation buffer never meets a     *)
(* peer that sends frames up to the largest allowed size.                   *)
NeverOverflows == ReadStep(rbuf) # "overflow" /\ (~damaged => reader # "failed")

(* x11recode/mod.rs:14-25 The local X server receives the application's own    *)
(* bytes in order, whatever the reads and the recoding did: all of them the   *)
(* same without recoding and in the lossless mode, and everything but the     *)
(* pixels in the lossy one.  The promise that the expander "turns each unit    *)
(* back into the exact original request bytes" (mod.rs:18-22) is not kept for  *)
(* one kind of request, and the formula says for which: an image with a longer *)
(* side than the client accepts (frame.rs:270-273) is recoded by the relay     *)
(* nevertheless, and the connection ends there, with all before it written.    *)
StreamIntact ==
    /\ pump = "failed" =>
        LET req == Rest(config.stream, Len(local))
            be == config.stream[1] = BigEndian
        IN  ClassifyPutImage(req, be) /\ (Width(req, be) > MaxSide \/ Height(req, be) > MaxSide)
    /\ Len(local) <= Len(config.stream)
    /\ \A i \in 1 .. Len(local) : local[i] = config.stream[i] \/ i \in config.lossy

(* proxy.rs:354-372, x11wire.rs:184-190 By the time the local X server has the *)
(* setup request the client knows exactly its authorization, and once the     *)
(* reply has passed, exactly its resource range.                            *)
SetupLearnt ==
    config.kind = "x11" /\ Len(local) > 0 /\ Len(local) >= SetupMessageLen(config.stream) =>
        /\ known = config.auth
        /\ reply = <<>> => range = config.range

(* audio/mod.rs:88-92 The packets are the recorder's audio cut into frames,    *)
(* without its WAV header, however the pipe delivered it.                    *)
PacketsMatch ==
    \A i \in 1 .. Len(packetizer.packets) :
        packetizer.packets[i] = [seq |-> i - 1,
                                 pcm |-> SubSeq(config.audio, (i - 1) * PcmFrame + 1, i * PcmFrame)]

\* No task has anything left to do.
Quiescent ==
    /\ (src = <<>> \/ writer # "open") /\ (script = <<>> \/ writer # "open")
    /\ batch = NoBatch /\ writer # "failed" /\ wire = <<>>
    /\ reader = "open" => ReadStep(rbuf) = "read"
    /\ held = <<>> /\ (pump = "failed" \/ (queue = <<>> /\ reply = <<>>))
    /\ config.kind = "channels" => ProxyQuiescent /\ served = Len(got)

(* x11recode/mod.rs:96-98, transport.rs:36-52 Nothing whole stays behind in a   *)
(* buffer of the chain: when no task has anything left to do, the application's *)
(* stream has arrived complete unless its connection failed, and so have the   *)
(* frames and the packets.                                                    *)
AllArrives ==
    Quiescent =>
        /\ config.kind = "x11" /\ pump # "failed" => Len(local) = Len(config.stream)
        /\ ~damaged /\ serving = Idle => got = sent
        /\ config.kind = "pcm" => Len(packetizer.packets) = Len(config.audio) \div PcmFrame

\* What the serve loop has dispatched for c.
ClosedTo == {c \in Ids : \E i \in 1 .. served : got[i].type = "ChannelClose" /\ got[i].msg[1] = c}
RelayedTo(c) ==
    LET Own(f) == f.type = "StreamData" /\ f.msg.fixed[1] = c
        frames == SelectSeq(SubSeq(got, 1, served), Own)
    IN  [k \in 1 .. Len(frames) |-> frames[k].msg.data]

(* serve/mod.rs:233-255 A channel whose opening was dispatched has a pump, or   *)
(* had one, or its refusal was sent, exactly when the client serves its kind.    *)
(* The comment there has it that unknown kinds are "refused explicitly so the   *)
(* peer never waits on a channel that will stay silent"; they are only logged,  *)
(* and the relay waits.                                                         *)
KnownKindsAnswered ==
    serving = Idle => \A i \in 1 .. served :
        LET c == got[i].msg[1]
        IN  got[i].type = "ChannelOpen" =>
                ((c \in told \/ (c \in Ids /\ pumpAt[c] # "none")) <=> got[i].msg[2] = X11Kind)

(* proxy.rs:76-170, 395-431 However the serve loop, the pumps, the end of the    *)
(* session and a stop request interleave, the channels that live can be reached, *)
(* what the relay sent arrives in order and in full, the relay hears of every    *)
(* channel that ended, the count settles and the session's end is not held up.   *)
ChannelsKept ==
    /\ ProxyTypeOK
    /\ Reachable(ClosedTo)
    /\ DrainedInOrder([c \in Ids |-> RelayedTo(c)])
    /\ RelayTold /\ KnownKindsAnswered /\ CountSettles /\ SessionJoins

(* Nothing that comes out of a stage of the chain differs from what went in: *)
(* frames, X11 requests, what the set-up messages say, and sound.            *)
ChainIntact ==
    /\ TypeOK /\ FramesIntact /\ NeverOverflows /\ StreamIntact /\ SetupLearnt /\ PacketsMatch
    /\ ChannelsKept
=============================================================================
