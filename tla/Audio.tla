------------------------------- MODULE Audio -------------------------------
(***************************************************************************)
(* Sound from the relay's host to the client's players: the listener task of *)
(* every X11 connection, the relay task of every client, the audio hub and   *)
(* the clients' serve loops.                                                *)
(***************************************************************************)
EXTENDS AudioHub

-----------------------------------------------------------------------------
(***************************************************************************)
(* The client's audio (rx11-client/src/audioout, serve/audio.rs): a player   *)
(* per audio channel, the rule that decides which of them are fed, and the   *)
(* monitor connection that asks the local X server for the focused window.  *)
(* The set-up request and reply that pass through the pumps of proxy.rs      *)
(* give the monitor its authorization and every connection its range of      *)
(* window ids.                                                              *)
(***************************************************************************)

CONSTANT MaxBreaks      \* bound on the losses of the monitor connection

ASSUME BreaksAssumption == MaxBreaks \in Nat

VARIABLES
    perApp,     \* the per-application capability was negotiated
    outlets,    \* the players of every client
    known,      \* history: the channels a client saw opened and not closed
    pump,       \* the local connection of every X11 connection
    ranges,     \* the connections whose resource range is known, by client
    auth,       \* the clients that know the local server's authorization
    mon,        \* the resident monitor connection
    answer,     \* the focus the monitor was told, while update_focus runs
    fore,       \* the foreground connection the table goes by
    focus,      \* where the local X server's focus is
    breaks      \* losses so far

outVars == <<perApp, outlets, known, pump, ranges, auth, mon, answer, fore, focus, breaks>>

Idle == "idle"
Nobody == "nobody"          \* PointerRoot, or a window of no connection

OutInit ==
    /\ outlets = [c \in Clients |-> {}] /\ known = [c \in Clients |-> {}]
    /\ pump = [x \in Conns |-> "none"]
    /\ ranges = [c \in Clients |-> {}] /\ auth = {}
    /\ mon = [c \in Clients |-> "none"] /\ answer = [c \in Clients |-> Idle]
    /\ fore = [c \in Clients |-> NoConn]
    /\ focus = [c \in Clients |-> Nobody]
    /\ breaks = 0

-----------------------------------------------------------------------------
\* OutletTable.

FirstOfApp(outs, out) == \A o \in outs : o.app = out.app => out.id <= o.id

IsAudible(outs, fg, out) ==
    \/ ~perApp
    \/ out.app = NoConn /\ fg = NoConn
    \/ out.app # NoConn /\ fg \in {NoConn, out.app} /\ FirstOfApp(outs, out)

RefreshAudibility(outs, fg) == {[out EXCEPT !.audible = IsAudible(outs, fg, out)] : out \in outs}

Owns(c, id) == \E out \in outlets[c] : out.id = id

OpenAudioUnruled(c, f) ==
    outlets[c] \cup {[id |-> f.id, app |-> f.app, audible |-> TRUE, alive |-> TRUE]}

\* A player starts audible; the table then applies its rule.
OpenAudioChannel(c, f) ==
    LET new == [id |-> f.id, app |-> f.app, audible |-> TRUE, alive |-> TRUE]
    IN  RefreshAudibility(IF Owns(c, f.id) THEN outlets[c] ELSE outlets[c] \cup {new}, fore[c])

\* A packet for a player that is gone removes the outlet.
DeliverAudioPacket(c, f) == {out \in outlets[c] : out.id # f.id \/ out.alive}

RemoveOutlet(c, f) == {out \in outlets[c] : out.id # f.id}

\* The serve loop takes a frame of the lane; it does not while update_focus runs.
Dispatch(c) ==
    /\ c \in linked /\ answer[c] = Idle /\ lane[c] # <<>>
    /\ LET f == Head(lane[c])
       IN  /\ outlets' = [outlets EXCEPT ![c] =
                CASE f.kind = "open" -> OpenAudioChannel(c, f)
                  [] f.kind = "data" -> DeliverAudioPacket(c, f)
                  [] f.kind = "close" -> RemoveOutlet(c, f)]
           /\ known' = [known EXCEPT ![c] =
                CASE f.kind = "open" -> @ \cup {f.id}
                  [] f.kind = "data" -> @
                  [] f.kind = "close" -> @ \ {f.id}]
    /\ lane' = [lane EXCEPT ![c] = Tail(@)]
    /\ UNCHANGED <<perApp, pump, ranges, auth, mon, answer, fore, focus, breaks>>
    /\ UNCHANGED <<linked, subs, running, recs, caps, lanes, graph, nextId, sounds>>

\* A player process dies.
PlayerDies(c) ==
    /\ \E out \in outlets[c] :
        /\ out.alive
        /\ outlets' = [outlets EXCEPT ![c] = (@ \ {out}) \cup {[out EXCEPT !.alive = FALSE]}]
    /\ breaks < MaxBreaks /\ breaks' = breaks + 1
    /\ UNCHANGED <<perApp, known, pump, ranges, auth, mon, answer, fore, focus>>
    /\ UNCHANGED hubVars

-----------------------------------------------------------------------------
\* update_focus.

\* A broken connection is kept and asked again.
AskFocusKept(c) ==
    /\ c \in linked /\ answer[c] = Idle
    /\ answer' = [answer EXCEPT ![c] = IF c \in auth /\ mon[c] # "broken" THEN focus[c] ELSE Nobody]
    /\ mon' = [mon EXCEPT ![c] = IF c \in auth /\ @ = "none" THEN "open" ELSE @]
    /\ UNCHANGED <<perApp, outlets, known, pump, ranges, auth, fore, focus, breaks>>
    /\ UNCHANGED hubVars

\* The monitor connects when it must and asks; an answer that does not come
\* drops the connection.
AskFocus(c) ==
    /\ c \in linked /\ answer[c] = Idle
    /\ IF c \notin auth
       THEN answer' = [answer EXCEPT ![c] = Nobody] /\ UNCHANGED mon
       ELSE IF mon[c] = "broken"
       THEN answer' = [answer EXCEPT ![c] = Nobody] /\ mon' = [mon EXCEPT ![c] = "none"]
       ELSE answer' = [answer EXCEPT ![c] = focus[c]] /\ mon' = [mon EXCEPT ![c] = "open"]
    /\ UNCHANGED <<perApp, outlets, known, pump, ranges, auth, fore, focus, breaks>>
    /\ UNCHANGED hubVars

\* The local X server, or the wire to it, drops the monitor.
MonitorBreaks(c) ==
    /\ mon[c] = "open" /\ breaks < MaxBreaks
    /\ mon' = [mon EXCEPT ![c] = "broken"] /\ breaks' = breaks + 1
    /\ UNCHANGED <<perApp, outlets, known, pump, ranges, auth, answer, fore, focus>>
    /\ UNCHANGED hubVars

\* The connection whose range holds the focused window, looked up after the
\* answer came.
Foreground(c) == IF answer[c] \in ranges[c] THEN answer[c] ELSE NoConn

ApplyFocus(c) ==
    /\ answer[c] # Idle
    /\ fore' = [fore EXCEPT ![c] = Foreground(c)]
    /\ outlets' = [outlets EXCEPT ![c] =
            IF Foreground(c) = fore[c] THEN @ ELSE RefreshAudibility(@, Foreground(c))]
    /\ answer' = [answer EXCEPT ![c] = Idle]
    /\ UNCHANGED <<perApp, known, pump, ranges, auth, mon, focus, breaks>>
    /\ UNCHANGED hubVars

-----------------------------------------------------------------------------
\* The pump of an X11 connection, as far as the focus needs it.

\* spawn_local_connection, for the ChannelOpen on the bulk queue: without a
\* local X server the channel is closed again.
SpawnLocal(x, c, reachable) ==
    /\ c \in linked /\ answer[c] = Idle /\ pump[x] = "opening"
    /\ pump' = [pump EXCEPT ![x] = IF reachable THEN "open" ELSE "over"]
    /\ UNCHANGED <<perApp, outlets, known, ranges, auth, mon, answer, fore, focus, breaks>>
    /\ UNCHANGED hubVars

\* The application's setup request passes: the authorization is learnt.
SetupRequest(x, c) ==
    /\ pump[x] = "open"
    /\ pump' = [pump EXCEPT ![x] = "asked"]
    /\ auth' = auth \cup {c}
    /\ UNCHANGED <<perApp, outlets, known, ranges, mon, answer, fore, focus, breaks>>
    /\ UNCHANGED hubVars

\* The setup reply passes: the range of the connection is registered.
SetupReply(x, c) ==
    /\ pump[x] = "asked"
    /\ pump' = [pump EXCEPT ![x] = "up"]
    /\ ranges' = [ranges EXCEPT ![c] = @ \cup {x}]
    /\ UNCHANGED <<perApp, outlets, known, auth, mon, answer, fore, focus, breaks>>
    /\ UNCHANGED hubVars

\* The pump ends: with the ChannelClose, or with the local X server's socket.
PumpEnds(x, c) ==
    /\ pump[x] \in {"open", "asked", "up"}
    /\ pump' = [pump EXCEPT ![x] = "over"]
    /\ ranges' = [ranges EXCEPT ![c] = @ \ {x}]
    /\ focus' = [focus EXCEPT ![c] = IF @ = x THEN Nobody ELSE @]
    /\ UNCHANGED <<perApp, outlets, known, auth, mon, answer, fore, breaks>>
    /\ UNCHANGED hubVars

\* The user looks at another window.
FocusMoves(c) ==
    /\ \E w \in {Nobody} \cup {x \in Conns : pump[x] = "up"} :
        w # focus[c] /\ focus' = [focus EXCEPT ![c] = w]
    /\ UNCHANGED <<perApp, outlets, known, pump, ranges, auth, mon, answer, fore, breaks>>
    /\ UNCHANGED hubVars

-----------------------------------------------------------------------------
(* The composition. *)

CONSTANTS
    Configs,        \* records [clients, forward, perApp, mixOnly, local, faults, pid, nodes]
    Truth           \* the application every process really belongs to

ASSUME ConfigAssumption ==
    \A cf \in Configs :
        /\ cf.clients \subseteq Clients
        /\ cf.perApp \in BOOLEAN /\ cf.mixOnly \in BOOLEAN
        /\ DOMAIN cf.pid \subseteq Conns /\ \A x \in DOMAIN cf.pid : cf.pid[x] \in Nat
        /\ \A node \in cf.nodes : node.pid \in Nat

VARIABLES
    config,
    acked,      \* the clients with a session; audio_attached of their relay tasks
    sock,       \* the listener task of every X11 connection
    events,     \* the X11 events on their way to every relay task
    registry    \* the applications of the session manager

wireVars == <<config, acked, sock, events, registry>>
vars == <<hubVars, outVars, wireVars>>

X11 == DOMAIN config.pid
Owner(x) == CHOOSE c \in config.clients : TRUE

Init ==
    /\ config \in Configs
    /\ perApp = config.perApp
    /\ HubInit(config.clients) /\ OutInit
    /\ acked = {} /\ sock = [x \in Conns |-> "new"]
    /\ events = [c \in Clients |-> <<>>]
    /\ registry = EmptyRegistry

\* The tier a client gets is settled by the negotiation and by the host.
MixOnly == config.mixOnly
Tier == config.forward /\ perApp /\ ~MixOnly

\* The first successful session ack of a client attaches it, once.
Ack(c) ==
    /\ c \in linked \ acked
    /\ acked' = acked \cup {c}
    /\ IF ~config.forward THEN UNCHANGED hubVars ELSE IF Tier THEN AttachPerApp(c) ELSE AttachMix(c)
    /\ UNCHANGED <<outVars, config, sock, events, registry>>

\* handle_x11_connection registers the connection and reports it.
Connects(x) ==
    /\ sock[x] = "new" /\ Owner(x) \in linked \cap acked
    /\ sock' = [sock EXCEPT ![x] = "open"]
    /\ registry' = Register(registry, x, config.pid[x])
    /\ events' = [events EXCEPT ![Owner(x)] = Append(@, [kind |-> "connected", conn |-> x])]
    /\ UNCHANGED <<hubVars, outVars, config, acked>>

\* The application leaves: first the event, then the registration goes.
Disconnects(x) ==
    /\ sock[x] = "open" /\ "leave" \in config.faults
    /\ sock' = [sock EXCEPT ![x] = "closing"]
    /\ events' = [events EXCEPT ![Owner(x)] = Append(@, [kind |-> "disconnected", conn |-> x])]
    /\ UNCHANGED <<hubVars, outVars, config, acked, registry>>

Unregisters(x) ==
    /\ sock[x] = "closing"
    /\ sock' = [sock EXCEPT ![x] = "gone"]
    /\ registry' = Unregister(registry, x)
    /\ UNCHANGED <<hubVars, outVars, config, acked, events>>

\* The relay task: a new connection joins its application's sound.
OnConnected(c, x) ==
    LET app == ApplicationOf(registry, x)
    IN  /\ IF Tier /\ app # NoApp /\ c \in lanes
           THEN AttachConnection(app, x, c) ELSE UNCHANGED <<nextId, caps>>
        /\ pump' = [pump EXCEPT ![x] = "opening"]
        /\ UNCHANGED <<lane, registry>>

\* A connection that left loses its channel, if its application is still known.
OnDisconnected(c, x) ==
    LET app == ApplicationOf(registry, x)
    IN  /\ IF Tier /\ app # NoApp /\ caps[app].phase # "none"
           THEN DetachConnection(app, x) ELSE UNCHANGED <<lane, caps>>
        /\ registry' = Unregister(registry, x)
        /\ pump' = [pump EXCEPT ![x] = IF @ = "opening" THEN "over" ELSE @]
        /\ UNCHANGED nextId

TakeEvent(c) ==
    /\ c \in linked /\ events[c] # <<>>
    /\ events' = [events EXCEPT ![c] = Tail(@)]
    /\ LET e == Head(events[c])
       IN  IF e.kind = "connected" THEN OnConnected(c, e.conn) ELSE OnDisconnected(c, e.conn)
    /\ UNCHANGED <<linked, subs, running, recs, lanes, graph, sounds, perApp, outlets, known,
                   ranges, auth, mon, answer, fore, focus, breaks, config, acked, sock>>

\* The transport of a client breaks: its lane closes, its relay task is gone.
LinkDies(c) ==
    /\ c \in linked /\ "link" \in config.faults
    /\ linked' = linked \ {c}
    /\ UNCHANGED <<lane, subs, running, recs, caps, lanes, graph, nextId, sounds>>
    /\ UNCHANGED <<outVars, wireVars>>

Recorder ==
    /\ \E r \in Recorders :
        SetupFails(r) \/ SetupEnds(r) \/ MixPacket(r) \/ RecorderExits(r) \/ Finish(r)
    /\ UNCHANGED <<outVars, wireVars>>

Captures ==
    /\ \/ \E app \in DOMAIN Parent : CaptureStarts(app) \/ CapturePacket(app) \/ CaptureEnds(app)
       \/ \E node \in config.nodes : Plays(node)
    /\ UNCHANGED <<outVars, wireVars>>

Output ==
    /\ \/ \E c \in Clients :
            \/ Dispatch(c) \/ AskFocus(c) \/ ApplyFocus(c) \/ FocusMoves(c)
            \/ "player" \in config.faults /\ PlayerDies(c)
            \/ "monitor" \in config.faults /\ MonitorBreaks(c)
       \/ \E x \in X11 :
            \/ SpawnLocal(x, Owner(x), config.local) \/ SetupRequest(x, Owner(x))
            \/ SetupReply(x, Owner(x))
            \/ "leave" \in config.faults /\ PumpEnds(x, Owner(x))
    /\ UNCHANGED wireVars

Next ==
    \/ \E c \in Clients : Ack(c) \/ TakeEvent(c) \/ LinkDies(c)
    \/ \E x \in X11 : Connects(x) \/ Disconnects(x) \/ Unregisters(x)
    \/ Recorder \/ Captures \/ Output

-----------------------------------------------------------------------------
\* The recorder streams even while the desktop is silent, and its set-up comes
\* to an end; the focus ticker keeps ticking.
RecorderRuns ==
    /\ \E r \in Recorders : SetupFails(r) \/ SetupEnds(r) \/ MixPacket(r) \/ Finish(r)
    /\ UNCHANGED <<outVars, wireVars>>

FocusTicks(c) == (AskFocus(c) \/ ApplyFocus(c)) /\ UNCHANGED wireVars

Fairness == WF_vars(RecorderRuns) /\ \A c \in Clients : WF_vars(FocusTicks(c))

Spec == Init /\ [][Next]_vars /\ Fairness

-----------------------------------------------------------------------------
Channels == [id : 1 .. MaxChannels, client : Clients, app : Conns \cup {NoConn}, opened : BOOLEAN]

TypeOK ==
    /\ linked \subseteq Clients /\ lanes \subseteq Clients /\ acked \subseteq Clients
    /\ \A c \in Clients : Len(lane[c]) <= LaneCap
    /\ \A i \in 1 .. Len(subs) : subs[i] \in Channels
    /\ running \in BOOLEAN
    /\ recs \in [Recorders -> {"none", "setup", "reading", "stopping"}]
    /\ \A app \in DOMAIN Parent :
        /\ caps[app].phase \in {"none", "waiting", "reading", "dead"}
        /\ \A i \in 1 .. Len(caps[app].chs) : caps[app].chs[i] \in Channels
    /\ fore \in [Clients -> Conns \cup {NoConn}]
    /\ pump \in [Conns -> {"none", "opening", "open", "asked", "up", "over"}]

(* mix.rs:57-62 One recorder at a time owns the capture, whatever attaches,  *)
(* failures and ends interleave, and nobody waits on a list that no recorder *)
(* serves.                                                                  *)
RecorderClaimed ==
    /\ Cardinality({r \in Recorders : recs[r] # "none"}) = IF running THEN 1 ELSE 0
    /\ subs # <<>> => running

(* mod.rs:55-58 "only opened channels may see data": on every lane a packet  *)
(* comes behind the ChannelOpen of its channel, with no close between.      *)
OpenBeforeData ==
    \A c \in Clients : \A i \in 1 .. Len(lane[c]) :
        LET id == lane[c][i].id
            ctl == {j \in 1 .. i - 1 : lane[c][j].id = id /\ lane[c][j].kind # "data"}
        IN  lane[c][i].kind = "data" =>
                IF ctl = {} THEN id \in known[c]
                ELSE lane[c][CHOOSE j \in ctl : \A k \in ctl : k <= j].kind = "open"

(* table.rs:10-13 The application the user is looking at is the one heard:   *)
(* with a known foreground exactly the channel tagged with that connection   *)
(* plays, the mix and the other connections of the same application silent;  *)
(* with an unknown one, or without the per-application tier, every open      *)
(* channel does.  No X11 connection has two players.  It holds also after    *)
(* channels opened and closed and the focus moved while update_focus was     *)
(* waiting.  So table.rs:20-22 and 130-137, "exactly ONE channel per audible *)
(* application", holds while the foreground is known; while it is unknown    *)
(* two connections of one application are both heard, for the tags by which  *)
(* the rule picks a channel name connections and not applications.           *)
PlayersFollowRule ==
    \A c \in Clients :
        /\ \A out \in outlets[c] :
                out.audible = (perApp => fore[c] \in {NoConn, out.app})
        /\ \A out, o \in outlets[c] : out.app # NoConn /\ o.app = out.app => o = out

(* application.rs:64-68, ownership.rs:36-54 The registry's index of every    *)
(* connection names the application its process really belongs to, over     *)
(* every order of arrivals and departures.                                  *)
OwnersPointHome ==
    \A x \in DOMAIN registry.owner :
        /\ registry.owner[x] \in 1 .. Len(registry.apps)
        /\ x \in registry.apps[registry.owner[x]].conns
        /\ Truth[ApplicationOf(registry, x)] = Truth[config.pid[x]]

(* per_app.rs:8-18 A channel carries the sound of the application of its own *)
(* X11 connection, never that of another one on the same desktop.           *)
OwnSound ==
    \A app \in DOMAIN Parent : \A i \in 1 .. Len(caps[app].chs) :
        LET x == caps[app].chs[i].app
        IN  caps[app].src # 0 => Truth[caps[app].src] = Truth[config.pid[x]]

(* mix.rs:17-18 "The recorder stops when the last listener leaves": once no  *)
(* client is left, the shared recorder ends.                                *)
RecorderStops == (linked = {}) ~> ~running

(* serve/mod.rs:146-151 When the focus stays on a window of a connection     *)
(* whose range is known, that connection becomes the foreground and stays   *)
(* it, also after the monitor connection was lost.                          *)
FocusFollowed ==
    \A c \in Clients : \A x \in Conns :
        <>[](c \in linked /\ c \in auth /\ focus[c] = x /\ x \in ranges[c]) => <>[](fore[c] = x)

(* The recorder and its subscribers keep order: one recorder serves the     *)
(* list, and no packet runs ahead of its channel.                           *)
SoundInOrder == TypeOK /\ RecorderClaimed /\ OpenBeforeData

(* Sound reaches the connections of the application that makes it, and of    *)
(* these the one the user looks at.                                          *)
SoundWellRouted == PlayersFollowRule /\ OwnersPointHome /\ OwnSound

(* The last listener's leaving and a settled focus take effect in the end.   *)
SoundSettles == RecorderStops /\ FocusFollowed
=============================================================================
