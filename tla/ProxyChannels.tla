---------------------------- MODULE ProxyChannels ----------------------------
(***************************************************************************)
(* The client's map of local X11 connections (proxy.rs), shared by the       *)
(* serve loop and one pump task per connection: the loop opens, feeds and    *)
(* closes channels and may be dropped at any await by a stop request; a pump  *)
(* ends by itself and cleans up behind itself; the end of the session aborts  *)
(* what is left and joins the writer task, which ends with its last sender.   *)
(***************************************************************************)
EXTENDS Naturals, Sequences, FiniteSets

CONSTANTS
    Ids,        \* connection ids
    Room        \* CHANNEL_BUFFER

ASSUME ProxyAssumption == Room \in Nat \ {0} /\ IsFiniteSet(Ids)

VARIABLES
    serving,    \* [at, id, data]: the await the serve task is at, and for whom
    conns,      \* the ids that have an entry in x11_connections
    pumpAt,     \* per id, where its pump task is
    queued,     \* per id, the payloads in the channel to its pump
    aborted,    \* the pumps whose handle was aborted
    active,     \* x11_connections_active
    told,       \* the ids a ChannelClose was sent for
    written,    \* history: per id, the payloads the local X server got
    broken,     \* history: the ids whose local end failed or went away
    leaked      \* history: the openings that nobody will count down

proxyVars == <<serving, conns, pumpAt, queued, aborted, active, told, written, broken, leaked>>

Idle == [at |-> "idle", id |-> 0, data |-> <<>>]
At(place) == [Idle EXCEPT !.at = place]
For(place, c, data) == [at |-> place, id |-> c, data |-> data]

ProxyInit ==
    /\ serving = Idle /\ conns = {} /\ pumpAt = [c \in Ids |-> "none"]
    /\ queued = [c \in Ids |-> <<>>] /\ aborted = {} /\ active = 0 /\ told = {}
    /\ written = [c \in Ids |-> <<>>] /\ broken = {} /\ leaked = 0

Serving == serving.at \in {"idle", "connect", "insert", "send"}

\* dec_x11_connections, n times: checked_sub keeps the counter at 0.
CountedDown(n) == IF active < n THEN 0 ELSE active - n

-----------------------------------------------------------------------------
\* The serve loop.

OpenChannel(c) ==
    /\ serving = Idle
    /\ active' = active + 1 /\ serving' = For("connect", c, <<>>)
    /\ UNCHANGED <<conns, pumpAt, queued, aborted, told, written, broken, leaked>>

\* The local X server refuses: the relay is told.
ConnectFails ==
    /\ serving.at = "connect"
    /\ active' = CountedDown(1) /\ told' = told \union {serving.id}
    /\ broken' = broken \union {serving.id} /\ serving' = Idle
    /\ UNCHANGED <<conns, pumpAt, queued, aborted, written, leaked>>

\* set_nodelay fails: the error ends the session, the opening stays counted.
OptionFails ==
    /\ serving.at = "connect"
    /\ leaked' = leaked + 1 /\ broken' = broken \union {serving.id} /\ serving' = At("cleanup")
    /\ UNCHANGED <<conns, pumpAt, queued, aborted, active, told, written>>

\* The pump is spawned, and its entry inserted after an await of the lock.
Spawn ==
    /\ serving.at = "connect"
    /\ pumpAt' = [pumpAt EXCEPT ![serving.id] = "run"] /\ serving' = [serving EXCEPT !.at = "insert"]
    /\ UNCHANGED <<conns, queued, aborted, active, told, written, broken, leaked>>

Insert ==
    /\ serving.at = "insert"
    /\ conns' = conns \union {serving.id} /\ serving' = Idle
    /\ UNCHANGED <<pumpAt, queued, aborted, active, told, written, broken, leaked>>

\* send_data_to_local: the sender is cloned under the lock and used after it.
RouteData(c, data) ==
    /\ serving = Idle
    /\ serving' = IF c \in conns THEN For("send", c, data) ELSE Idle
    /\ UNCHANGED <<conns, pumpAt, queued, aborted, active, told, written, broken, leaked>>

\* The payload being written has left the channel.
Fits(c) == Len(queued[c]) < (IF pumpAt[c] = "write" THEN Room + 1 ELSE Room)

\* Plausible slip: a channel without room is taken for one that is gone.
SendOrDrop ==
    LET c == serving.id
        fits == pumpAt[c] # "done" /\ Fits(c)
    IN  /\ serving.at = "send"
        /\ serving' = Idle
        /\ queued' = IF fits THEN [queued EXCEPT ![c] = Append(@, serving.data)] ELSE queued
        /\ conns' = IF fits THEN conns ELSE conns \ {c}
        /\ UNCHANGED <<pumpAt, aborted, active, told, written, broken, leaked>>

\* The receiver lives as long as the pump's task; without it the entry is stale.
SendData ==
    LET c == serving.id
    IN  /\ serving.at = "send"
        /\ serving' = Idle
        /\ \/ /\ pumpAt[c] # "done" /\ Fits(c)
              /\ queued' = [queued EXCEPT ![c] = Append(@, serving.data)] /\ UNCHANGED conns
           \/ /\ pumpAt[c] = "done"
              /\ conns' = conns \ {c} /\ UNCHANGED queued
        /\ UNCHANGED <<pumpAt, aborted, active, told, written, broken, leaked>>

\* Plausible slip: the task is aborted with what is still queued for it.
CloseAborting(c) ==
    /\ serving = Idle
    /\ conns' = conns \ {c} /\ aborted' = aborted \union (conns \cap {c})
    /\ UNCHANGED <<serving, pumpAt, queued, active, told, written, broken, leaked>>

\* The entry is dropped, and with it the sender and the (detached) handle.
CloseChannel(c) ==
    /\ serving = Idle
    /\ conns' = conns \ {c}
    /\ UNCHANGED <<serving, pumpAt, queued, aborted, active, told, written, broken, leaked>>

\* The read fails or times out between two frames, or a stop request drops the
\* serve future at whatever it awaits; during connect nobody counts down.
ServeEnds ==
    /\ Serving
    /\ leaked' = IF serving.at = "connect" THEN leaked + 1 ELSE leaked
    /\ serving' = At("cleanup")
    /\ UNCHANGED <<conns, pumpAt, queued, aborted, active, told, written, broken>>

\* Plausible slip: the tasks are aborted, the statistics forgotten.
CleanupUncounted ==
    /\ serving.at = "cleanup"
    /\ serving' = At("join") /\ conns' = {} /\ aborted' = aborted \union conns
    /\ UNCHANGED <<pumpAt, queued, active, told, written, broken, leaked>>

\* Plausible slip: the way out of the session forgets cleanup_connections.
CleanupSkipped ==
    /\ serving.at = "cleanup"
    /\ serving' = At("join")
    /\ UNCHANGED <<conns, pumpAt, queued, aborted, active, told, written, broken, leaked>>

\* cleanup_connections counts down every entry, also that of a pump that has
\* done so itself.
Cleanup ==
    /\ serving.at = "cleanup"
    /\ active' = CountedDown(Cardinality(conns))
    /\ serving' = At("join") /\ conns' = {} /\ aborted' = aborted \union conns
    /\ UNCHANGED <<pumpAt, queued, told, written, broken, leaked>>

\* The writer task ends once no pump holds a sender.
Joined ==
    /\ serving.at = "join" /\ \A c \in Ids : pumpAt[c] \in {"none", "done"}
    /\ serving' = At("ended")
    /\ UNCHANGED <<conns, pumpAt, queued, aborted, active, told, written, broken, leaked>>

-----------------------------------------------------------------------------
\* The pump of c.

\* A sender is in the map, or in the serve task's hands.
HasSender(c) == c \in conns \/ (serving.at \in {"insert", "send"} /\ serving.id = c)

MoveTo(c, place) == pumpAt' = [pumpAt EXCEPT ![c] = place]

PumpTakes(c) ==
    /\ pumpAt[c] = "run" /\ queued[c] # <<>>
    /\ MoveTo(c, "write")
    /\ UNCHANGED <<serving, conns, queued, aborted, active, told, written, broken, leaked>>

PumpWrites(c) ==
    /\ pumpAt[c] = "write"
    /\ MoveTo(c, "run")
    /\ written' = [written EXCEPT ![c] = Append(@, Head(queued[c]))]
    /\ queued' = [queued EXCEPT ![c] = Tail(@)]
    /\ UNCHANGED <<serving, conns, aborted, active, told, broken, leaked>>

\* Either leg ends the pump: end of file or an error at the local X server, or
\* no sender left and nothing queued.
LocalEnds(c) ==
    /\ pumpAt[c] \in {"run", "write"}
    /\ MoveTo(c, "close") /\ broken' = broken \union {c}
    /\ queued' = IF pumpAt[c] = "write" THEN [queued EXCEPT ![c] = Tail(@)] ELSE queued
    /\ UNCHANGED <<serving, conns, aborted, active, told, written, leaked>>

DownlinkEnds(c) ==
    /\ pumpAt[c] = "run" /\ queued[c] = <<>> /\ ~HasSender(c)
    /\ MoveTo(c, "close")
    /\ UNCHANGED <<serving, conns, queued, aborted, active, told, written, broken, leaked>>

PumpTells(c) ==
    /\ pumpAt[c] = "close"
    /\ MoveTo(c, "remove") /\ told' = told \union {c}
    /\ UNCHANGED <<serving, conns, queued, aborted, active, written, broken, leaked>>

PumpRemoves(c) ==
    /\ pumpAt[c] = "remove"
    /\ MoveTo(c, "count") /\ conns' = conns \ {c}
    /\ UNCHANGED <<serving, queued, aborted, active, told, written, broken, leaked>>

PumpCounts(c) ==
    /\ pumpAt[c] = "count"
    /\ MoveTo(c, "done") /\ active' = CountedDown(1)
    /\ UNCHANGED <<serving, conns, queued, aborted, told, written, broken, leaked>>

\* An abort takes effect when the task is polled next, which may be after it
\* has gone through several awaits that were ready.
Cancelled(c) ==
    /\ c \in aborted /\ pumpAt[c] \notin {"none", "done"}
    /\ MoveTo(c, "done")
    /\ UNCHANGED <<serving, conns, queued, aborted, active, told, written, broken, leaked>>

-----------------------------------------------------------------------------
ServeTask ==
    ConnectFails \/ OptionFails \/ Spawn \/ Insert \/ SendData \/ ServeEnds \/ Cleanup \/ Joined

Pump(c) ==
    PumpTakes(c) \/ PumpWrites(c) \/ LocalEnds(c) \/ DownlinkEnds(c)
    \/ PumpTells(c) \/ PumpRemoves(c) \/ PumpCounts(c) \/ Cancelled(c)

ProxyNext == ServeTask \/ \E c \in Ids : Pump(c)

-----------------------------------------------------------------------------
ProxyTypeOK ==
    /\ serving.at \in {"idle", "connect", "insert", "send", "cleanup", "join", "ended"}
    /\ \A c \in Ids : Len(queued[c]) <= Room + 1 /\ (pumpAt[c] = "write" => queued[c] # <<>>)
    /\ conns \union aborted \subseteq {c \in Ids : pumpAt[c] # "none"}

(* proxy.rs:165, 410-414 A connection that still works at both ends is never  *)
(* cut off: while the session lasts its pump can be reached until the relay     *)
(* closes the channel.                                                        *)
Reachable(closed) ==
    Serving =>
        \A c \in Ids : pumpAt[c] \in {"run", "write"} => HasSender(c) \/ c \in closed

(* serve/mod.rs:361, proxy.rs:336 A channel the relay closes is drained first:   *)
(* unless its local end fails or the session is torn down, the pump ends with   *)
(* everything written that the relay sent, in order.                          *)
DrainedInOrder(relayed) ==
    \A c \in Ids :
        LET rest == IF serving.at = "send" /\ serving.id = c THEN 1 ELSE 0
        IN  /\ Len(written[c]) <= Len(relayed[c])
            /\ written[c] = SubSeq(relayed[c], 1, Len(written[c]))
            /\ Serving /\ pumpAt[c] # "none" /\ c \notin broken =>
                    Len(written[c]) + Len(queued[c]) + rest >= Len(relayed[c])
            /\ pumpAt[c] \in {"close", "remove", "count", "done"} /\ c \notin broken \union aborted =>
                    written[c] = relayed[c]

(* connector.rs:526, stats.rs:160-170 The counter outlives the session: when it   *)
(* is over, nothing of it is left in the count but openings it abandoned before  *)
(* they had a pump.                                                            *)
CountSettles == serving.at = "ended" => active <= leaked

(* proxy.rs:86-97, 152-162 The relay hears of the end of every local           *)
(* connection: an X11 channel that has no pump any more while the session lasts, *)
(* or whose local X server refused, was closed to it.                           *)
RelayTold ==
    Serving => \A c \in Ids :
        pumpAt[c] = "done" \/ (pumpAt[c] = "none" /\ c \in broken) => c \in told

\* No task of the session has anything left to do.
ProxyQuiescent ==
    /\ serving.at \in {"idle", "join", "ended"}
    /\ \A c \in Ids :
        /\ pumpAt[c] \in {"none", "run", "done"} /\ (c \in aborted => pumpAt[c] = "done")
        /\ pumpAt[c] = "run" => queued[c] = <<>> /\ HasSender(c)
    /\ serving.at = "join" => \E c \in Ids : pumpAt[c] \notin {"none", "done"}

(* connector.rs:621-626 The end of a session comes to an end: no pump that was    *)
(* left behind keeps the writer task, and with it the connector, waiting.       *)
SessionJoins == ProxyQuiescent => serving.at # "join"
=============================================================================
