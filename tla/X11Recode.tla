----------------------------- MODULE X11Recode -----------------------------
(***************************************************************************)
(* The recoding of PutImage requests (rx11-core/src/x11recode).  The stream  *)
(* of an application is a sequence of half words of two bytes, a byte being  *)
(* a digit to the base 16: cell b0 * 16 + b1.                               *)
(***************************************************************************)
EXTENDS Naturals, Sequences

CONSTANTS
    MinPixels,      \* RecodeSpec::min_bytes, in cells
    MaxRequest,     \* MAX_RECODE_REQUEST
    MaxSetup,       \* the setup bytes that are waited for at most
    MaxSide         \* the widest image a container may announce

ASSUME RecodeAssumption == {MinPixels, MaxRequest, MaxSetup, MaxSide} \subseteq Nat

LittleEndian == 108     \* 'l'
BigEndian == 66         \* 'B'
PutImage == 72          \* with format ZPixmap
Base == 16

Swap(c) == (c % Base) * Base + c \div Base
U16(c, be) == IF be THEN c ELSE Swap(c)
U32(b, at, be) ==
    IF be THEN b[at] * Base * Base + b[at + 1] ELSE Swap(b[at]) + Swap(b[at + 1]) * Base * Base
Put16(v, be) == IF be THEN v ELSE Swap(v)
Tail4(n) == (n + 3) \div 4     \* pad4, in words

-----------------------------------------------------------------------------
\* frame.rs: recognition.

\* Six half words of header; 0 while they are incomplete.
SetupMessageLen(b) ==
    IF Len(b) < 6 THEN 0
    ELSE LET be == b[1] = BigEndian
         IN  6 + 2 * (Tail4(U16(b[4], be)) + Tail4(U16(b[5], be)))

HeaderWhole(b, be) == Len(b) >= 2 /\ (U16(b[2], be) = 0 => Len(b) >= 4)

RequestLen(b, be) == IF U16(b[2], be) = 0 THEN 2 * U32(b, 3, be) ELSE 2 * U16(b[2], be)

DataOff(req, be) == IF U16(req[2], be) = 0 THEN 14 ELSE 12
Width(req, be) == U16(req[DataOff(req, be) - 5], be)
Height(req, be) == U16(req[DataOff(req, be) - 4], be)
DataLen(req, be) == 2 * Width(req, be) * Height(req, be)

\* Left pad and depth share a cell: no pad, and a depth of 24 or 32 (in fours).
Deep == {6, 8}

ClassifyPutImage(req, be) ==
    /\ req[1] = PutImage
    /\ req[DataOff(req, be) - 1] \in Deep
    /\ Width(req, be) # 0 /\ Height(req, be) # 0
    /\ DataOff(req, be) + DataLen(req, be) <= Len(req)

-----------------------------------------------------------------------------
\* Codecs: a pixel is two cells, of the bytes B G R X or X R G B.

Half(v) == v - (v % 2)
UnpackRgb(px, be) ==
    [i \in 1 .. 3 * (Len(px) \div 2) |->
        LET a == px[2 * ((i - 1) \div 3) + 1]
            b == px[2 * ((i - 1) \div 3) + 2]
            k == (i - 1) % 3
        IN  IF be THEN (IF k = 0 THEN a % Base ELSE IF k = 1 THEN b \div Base ELSE b % Base)
            ELSE (IF k = 0 THEN b \div Base ELSE IF k = 1 THEN a % Base ELSE a \div Base)]

PackRgb(rgb, be) ==
    [i \in 1 .. 2 * (Len(rgb) \div 3) |->
        LET p == 3 * ((i - 1) \div 2)
        IN  IF be THEN (IF i % 2 = 1 THEN rgb[p + 1] ELSE rgb[p + 2] * Base + rgb[p + 3])
            ELSE (IF i % 2 = 1 THEN rgb[p + 3] * Base + rgb[p + 2] ELSE rgb[p + 1] * Base)]

\* The libraries: a lossless one that shortens uniform data, and a lossy one
\* that keeps the size and rounds.
Pack(s) ==
    IF \A i \in 1 .. Len(s) - 1 : s[i] = s[i + 1] THEN <<Len(s), s[1]>> ELSE <<0>> \o s

Unpack(b) == IF b[1] = 0 THEN Tail(b) ELSE [i \in 1 .. b[1] |-> b[2]]

Blob(codec, px, be) ==
    IF codec = "png" THEN Pack(px)
    ELSE LET rgb == UnpackRgb(px, be) IN Pack([i \in 1 .. Len(rgb) |-> Half(rgb[i])])

Pixels(codec, blob, be) == IF codec = 2 THEN Unpack(blob) ELSE PackRgb(Unpack(blob), be)

-----------------------------------------------------------------------------
\* Containers and units.

KindRaw == 0
KindContainer == 1
ContainerMagic == 99
FixedLen == 9

EncodeContainer(codec, req, be, blob) ==
    <<ContainerMagic, IF codec = "png" THEN 2 ELSE 1, IF be THEN 1 ELSE 0, DataOff(req, be),
      Len(req), Width(req, be), Height(req, be), DataLen(req, be), Len(blob)>>
    \o SubSeq(req, 1, DataOff(req, be)) \o blob

DecodesAsContainer(c) ==
    /\ Len(c) >= FixedLen /\ c[1] = ContainerMagic /\ c[2] \in {1, 2}
    /\ c[6] \in 1 .. MaxSide /\ c[7] \in 1 .. MaxSide
    /\ c[8] = 2 * c[6] * c[7]
    /\ c[4] + c[9] + FixedLen <= Len(c)
    /\ c[5] >= c[4] + c[8]
    /\ c[FixedLen + 1] = PutImage

ContainerPixels(c) ==
    Pixels(c[2], SubSeq(c, FixedLen + c[4] + 1, FixedLen + c[4] + c[9]), c[3] = 1)

\* The prefix, the pixels, and zeros up to the length of the request.
RebuildRequest(c, px) ==
    SubSeq(c, FixedLen + 1, FixedLen + c[4]) \o px \o [i \in 1 .. c[5] - c[4] - c[8] |-> 0]

\* A unit the client cannot expand fails the connection.
Expand(unit) ==
    LET c == Tail(unit)
    IN  IF unit = <<>> THEN [ok |-> TRUE, bytes |-> <<>>]
        ELSE IF unit[1] = KindRaw THEN [ok |-> TRUE, bytes |-> c]
        ELSE IF unit[1] = KindContainer /\ DecodesAsContainer(c)
        THEN [ok |-> Len(ContainerPixels(c)) = c[8], bytes |-> RebuildRequest(c, ContainerPixels(c))]
        ELSE [ok |-> FALSE, bytes |-> <<>>]

-----------------------------------------------------------------------------
\* DownstreamReencoder.

NewRecoder == [buf |-> <<>>, raw |-> <<>>, stage |-> "setup", be |-> FALSE, off |-> FALSE, out |-> <<>>]

\* Plausible slip: the flushed bytes stay queued.
FlushRawKept(r) ==
    IF r.raw = <<>> THEN r ELSE [r EXCEPT !.out = Append(@, <<KindRaw>> \o r.raw)]

FlushRaw(r) ==
    IF r.raw = <<>> THEN r
    ELSE [r EXCEPT !.out = Append(@, <<KindRaw>> \o r.raw), !.raw = <<>>]

PassAll(r) == [r EXCEPT !.raw = @ \o r.buf, !.buf = <<>>]

\* A container goes out at once, ahead of the raw requests queued before it.
RecodedFirst(r, codec, req) ==
    LET at == DataOff(req, r.be)
        blob == Blob(codec, SubSeq(req, at + 1, at + DataLen(req, r.be)), r.be)
    IN  IF Len(blob) + 1 + FixedLen + at >= DataLen(req, r.be)
        THEN [r EXCEPT !.raw = @ \o req]
        ELSE [r EXCEPT !.out = Append(@, <<KindContainer>> \o EncodeContainer(codec, req, r.be, blob))]

\* The request as a container when that is shorter, behind everything queued
\* before it; else as it is.
TryRecode(r, codec, req) ==
    LET at == DataOff(req, r.be)
        blob == Blob(codec, SubSeq(req, at + 1, at + DataLen(req, r.be)), r.be)
        unit == <<KindContainer>> \o EncodeContainer(codec, req, r.be, blob)
    IN  IF Len(blob) + 1 + FixedLen + at >= DataLen(req, r.be)
        THEN [r EXCEPT !.raw = @ \o req]
        ELSE [FlushRaw(r) EXCEPT !.out = Append(@, unit)]

\* One turn of the loop over the requests.
RequestStep(r, codec) ==
    LET total == RequestLen(r.buf, r.be)
        req == SubSeq(r.buf, 1, total)
        rest == [r EXCEPT !.buf = SubSeq(@, total + 1, Len(@))]
    IN  IF r.off THEN PassAll(r)
        ELSE IF ~HeaderWhole(r.buf, r.be) THEN r
        ELSE IF total \notin 2 .. MaxRequest THEN PassAll([r EXCEPT !.off = TRUE])
        ELSE IF Len(r.buf) < total THEN r
        ELSE IF ClassifyPutImage(req, r.be) /\ DataLen(req, r.be) >= MinPixels
        THEN TryRecode(rest, codec, req)
        ELSE [rest EXCEPT !.raw = @ \o req]

ConsumeRequests(r, codec) ==
    LET after[n \in Nat] == IF n = 0 THEN r ELSE RequestStep(after[n - 1], codec)
    IN  after[Len(r.buf) \div 2 + 1]

\* The setup request passes whole; what cannot be one ends the recoding.
ConsumeSetup(r, codec) ==
    LET len == SetupMessageLen(r.buf)
    IN  IF r.buf # <<>> /\ r.buf[1] \notin {LittleEndian, BigEndian}
        THEN PassAll([r EXCEPT !.off = TRUE])
        ELSE IF len = 0
        THEN IF Len(r.buf) > MaxSetup THEN PassAll([r EXCEPT !.off = TRUE]) ELSE r
        ELSE IF Len(r.buf) < len THEN r
        ELSE ConsumeRequests([r EXCEPT !.be = r.buf[1] = BigEndian, !.raw = @ \o SubSeq(r.buf, 1, len),
                                       !.buf = SubSeq(@, len + 1, Len(@)), !.stage = "requests"], codec)

\* One read of the application's socket; the units are in out.
PushChunk(r, codec, chunk) ==
    LET fed == [r EXCEPT !.buf = @ \o chunk, !.out = <<>>]
    IN  FlushRaw(IF r.stage = "setup" THEN ConsumeSetup(fed, codec) ELSE ConsumeRequests(fed, codec))

-----------------------------------------------------------------------------
(* What the client reads out of the bytes it forwards: the authorization in  *)
(* the application's setup request and the resource range in the local X     *)
(* server's setup reply (audioout/x11wire.rs).                               *)

Nothing == <<>>
Success == 16       \* a reply whose first byte is 1

\* The order a setup request announces; Nothing when it is not one.
FromRequest(b) ==
    IF b # <<>> /\ b[1] \in {LittleEndian, BigEndian} THEN <<b[1] = BigEndian>> ELSE Nothing

SetupRequestLen(b) ==
    LET be == FromRequest(b)[1]
    IN  IF Len(b) < 6 \/ FromRequest(b) = Nothing THEN 0
        ELSE 6 + 2 * (Tail4(U16(b[4], be)) + Tail4(U16(b[5], be)))

\* The name and the data, without their padding.
FromSetupRequest(b) ==
    LET be == FromRequest(b)[1]
        name == U16(b[4], be)
        data == U16(b[5], be)
        at == 6 + 2 * Tail4(name)
    IN  [name |-> SubSeq(b, 7, 6 + (name + 1) \div 2),
         data |-> SubSeq(b, at + 1, at + (data + 1) \div 2)]

NewWatcher == [buf |-> <<>>, done |-> FALSE, found |-> Nothing]

\* Only a request that comes in one piece is seen.
ObserveWhole(w, chunk) ==
    IF w.done THEN w
    ELSE IF SetupRequestLen(chunk) = 0 \/ Len(chunk) < SetupRequestLen(chunk) THEN [w EXCEPT !.done = TRUE]
    ELSE [buf |-> chunk, done |-> TRUE, found |-> <<FromSetupRequest(chunk)>>]

\* SetupRequestWatcher::observe.
ObserveRequest(w, chunk) ==
    LET b == w.buf \o chunk
        len == SetupRequestLen(b)
    IN  IF w.done THEN w
        ELSE IF len = 0 THEN [w EXCEPT !.buf = b, !.done = Len(b) > MaxSetup]
        ELSE IF Len(b) < len THEN [w EXCEPT !.buf = b]
        ELSE [buf |-> b, done |-> TRUE, found |-> <<FromSetupRequest(SubSeq(b, 1, len))>>]

\* The reply: four cells of prefix, the last one its length in words.
SetupReplyLen(b, be) ==
    IF Len(b) < 4 \/ b[1] # Success THEN 0 ELSE 4 + 2 * U16(b[4], be)

SetupReplyRange(b, be) ==
    IF Len(b) < 10 \/ b[1] # Success THEN Nothing ELSE <<U32(b, 7, be), U32(b, 9, be)>>

\* SetupReplyWatcher::observe.
ObserveReply(w, chunk, be) ==
    LET b == w.buf \o chunk
        len == SetupReplyLen(b, be)
    IN  IF w.done THEN w
        ELSE IF len = 0 THEN [w EXCEPT !.buf = b, !.done = Len(b) > MaxSetup]
        ELSE IF Len(b) < len THEN [w EXCEPT !.buf = b]
        ELSE [buf |-> b, done |-> TRUE, found |-> SetupReplyRange(b, be)]
=============================================================================
