------------------------------ MODULE MCWire -------------------------------
(* Model-checking instance of Wire. *)
EXTENDS Wire

\* A setup request with three bytes of name and five of data, and a reply.
Name == <<33, 48>>
AuthData == <<18, 52, 80, 0>>
Setup(be) ==
    <<IF be THEN BigEndian ELSE LittleEndian, 11, 0, Put16(3, be), Put16(5, be), 0>> \o Name \o AuthData
Auth == <<[name |-> Name, data |-> SubSeq(AuthData, 1, 3)]>>

Put32(v, be) ==
    IF be THEN <<v \div 256, v % 256>> ELSE <<Swap(v % 256), Swap(v \div 256)>>
Reply(be) == <<Success, 11, 0, Put16(3, be), 0, 0>> \o Put32(512, be) \o Put32(31, be)
Range == <<512, 31>>

\* A request of n words; images of one colour, with the short and the long header.
Request(n, be) == <<7, Put16(n, be)>> \o [i \in 1 .. 2 * n - 2 |-> i]
Image(w, h, be) ==
    <<PutImage, Put16(6 + w * h, be), 0, 1, 0, 2, Put16(w, be), Put16(h, be), 0, 0, 8, 0>>
    \o [i \in 1 .. 2 * w * h |-> 51]
LongImage(w, h, be) ==
    <<PutImage, 0>> \o Put32(7 + w * h, be) \o <<0, 1, 0, 2, Put16(w, be), Put16(h, be), 0, 0, 6, 0>>
    \o [i \in 1 .. 2 * w * h |-> 51]

X(stream, codec, be, lossy) ==
    [kind |-> "x11", stream |-> stream, script |-> <<>>, codec |-> codec,
     auth |-> Auth, reply |-> Reply(be), range |-> Range, audio |-> <<>>, damage |-> FALSE, lossy |-> lossy]

Other(kind, stream, frames, audio, damage) ==
    [kind |-> kind, stream |-> stream, script |-> frames, codec |-> "png",
     auth |-> Nothing, reply |-> <<>>, range |-> Nothing, audio |-> audio, damage |-> damage, lossy |-> {}]

Data(n) == [type |-> "StreamData", msg |-> [fixed |-> <<4, 5>>, data |-> [i \in 1 .. n |-> i]]]
Compressed == [type |-> "CompressedStreamData", msg |-> [fixed |-> <<4, 6, 3>>, data |-> <<Magic, Magic>>]]
Diff(off) ==
    [type |-> "IncrementalStreamData",
     msg |-> [fixed |-> <<4, 7, 6, 9>>,
              data |-> <<[offset |-> 0, data |-> <<1, 2>>], [offset |-> off, data |-> <<3>>]>>]]
Json(type, msg) == [type |-> type, msg |-> msg]
Beat == [type |-> "Heartbeat", msg |-> <<>>]

\* The lives of two channels; a channel of an unknown kind, and one that is fed
\* faster than it is drained.
OpenFrame(c, kind) == Json("ChannelOpen", <<c, kind, 0, 0>>)
CloseFrame(c) == Json("ChannelClose", <<c>>)
FeedFrame(c, n) == [type |-> "StreamData", msg |-> [fixed |-> <<c, n>>, data |-> <<n>>]]
TwoLives == <<OpenFrame(1, 1), OpenFrame(2, 1), FeedFrame(1, 1), FeedFrame(1, 2), CloseFrame(1), FeedFrame(2, 3)>>
FullLife == <<OpenFrame(3, 7), OpenFrame(1, 1), FeedFrame(1, 1), FeedFrame(1, 2), FeedFrame(1, 3)>>

\* A header that does not come to an end.
Endless == <<Riff, 9, Wave, 204, 200>> \o [i \in 1 .. 91 |-> i]

MCConfigs ==
    {X(Setup(FALSE) \o Request(2, FALSE) \o Image(4, 4, FALSE) \o Request(1, FALSE), "png", FALSE, {}),
     X(Setup(TRUE) \o LongImage(4, 4, TRUE) \o Request(2, TRUE), "jpeg", TRUE, 27 .. 58),
     X(Setup(TRUE) \o Image(2, 2, TRUE), "none", TRUE, {}),
     X(Setup(FALSE) \o Request(1, FALSE) \o Image(7, 2, FALSE) \o Request(1, FALSE), "png", FALSE, {}),
     X(Setup(FALSE) \o SubSeq(Request(30, FALSE), 1, 14), "png", FALSE, {}),
     Other("frames", <<>>, <<Json("Hello", <<1, 1, 0, 0, 2>>), Data(66), Compressed, Diff(4), Beat,
                             Json("ChannelOpen", <<3, 1, 0, 2>>)>>, <<>>, FALSE),
     Other("frames", <<>>, <<Json("FlowControl", <<1, 0>>), Data(3), Beat, Diff(200)>>, <<>>, FALSE),
     Other("frames", <<>>, <<Json("SessionCreate", <<1, 1, 1>>), Data(3), Data(70)>>, <<>>, FALSE),
     Other("frames", <<>>, <<Beat, Data(3), Json("SessionAck", <<1, 1, 0, 5>>), Diff(2)>>, <<>>, TRUE),
     Other("channels", <<>>, TwoLives, <<>>, FALSE),
     Other("channels", <<>>, FullLife, <<>>, FALSE),
     Other("pcm", <<Riff, 9, Wave, 204, 3, 1, 1, 1, 0, DataId, 6>> \o [i \in 1 .. 7 |-> i], <<>>,
           [i \in 1 .. 7 |-> i], FALSE),
     Other("pcm", [i \in 1 .. 11 |-> i], <<>>, [i \in 1 .. 11 |-> i], FALSE),
     Other("pcm", Endless, <<>>, Endless, FALSE)}
=============================================================================
