----------------------------- MODULE AudioHub ------------------------------
(***************************************************************************)
(* The relay's audio (rx11-server/src/audio): the recorder of the whole     *)
(* desktop shared by every subscriber (mix.rs), one capture per application  *)
(* with a channel per X11 connection (per_app.rs), and the real-time lanes   *)
(* both write to without ever waiting.  First the applications: which one a  *)
(* process belongs to, and which one an X11 connection.                      *)
(***************************************************************************)
EXTENDS Naturals, Sequences, FiniteSets, SequencesExt

-----------------------------------------------------------------------------
(* Which application a process belongs to (audio/ownership.rs), and the      *)
(* stream of the audio graph that carries an application's sound             *)
(* (audio/capture.rs).  The process table does not change.                   *)

CONSTANTS
    Parent,     \* the parent of every readable process; 0 above init
    Leaders,    \* the processes that lead their own session
    Program     \* the executable of every readable process

ASSUME TableAssumption ==
    /\ DOMAIN Parent \subseteq Nat \ {0} /\ \A p \in DOMAIN Parent : Parent[p] \in Nat
    /\ DOMAIN Program = DOMAIN Parent /\ Leaders \subseteq DOMAIN Parent

NoApp == 0
MaxDepth == 64

\* One turn of the walk to the ancestors: it ends above init, at a process it
\* has met, and behind one it cannot read.
WalkOn(chain) ==
    LET last == chain[Len(chain)]
        next == IF last \in DOMAIN Parent THEN Parent[last] ELSE 0
        met == \E i \in 1 .. Len(chain) : chain[i] = next
    IN  IF next = 0 \/ met THEN chain ELSE Append(chain, next)

\* The process, its parent, and so on.
Ancestry(pid) ==
    LET turn == [chain \in Seq(Nat) |-> WalkOn(chain)]
        walk[n \in 0 .. MaxDepth - 1] == IF n = 0 THEN <<pid>> ELSE turn[walk[n - 1]]
    IN  walk[MaxDepth - 1]

\* The positions of the session leaders, the nearest one first.
LeadersOn(chain) == {i \in 1 .. Len(chain) : chain[i] \in Leaders}

SessionLeader(chain) == CHOOSE i \in LeadersOn(chain) : \A j \in LeadersOn(chain) : i <= j

SameProgram(a, b) ==
    {a, b} \subseteq DOMAIN Program /\ Program[a] = Program[b]

\* The mistaken rule: any shared ancestor makes one application.
SharedAncestor(pid) == LET chain == Ancestry(pid) IN IF pid = 0 THEN NoApp ELSE chain[Len(chain)]

\* The process below the leader at this position, on the path to the process.
ChildBelow(chain, at) == chain[at - 1]

\* The process just below the nearest session leader, or the leader itself when
\* both run the same program.
ApplicationRoot(pid) ==
    LET chain == Ancestry(pid)
        at == SessionLeader(chain)
    IN  IF pid = 0 \/ LeadersOn(chain) = {} THEN NoApp
        ELSE IF at = 1 \/ SameProgram(chain[at], ChildBelow(chain, at)) THEN chain[at]
        ELSE ChildBelow(chain, at)

\* The streams of the graph that play for an application.
IsApplicationOutput(node) == node.class = "output" /\ node.pid # 0

StreamsOf(root, graph) ==
    {node \in graph : IsApplicationOutput(node) /\ ApplicationRoot(node.pid) = root /\ root # NoApp}

-----------------------------------------------------------------------------
(* The registry of X11 connections and their applications                    *)
(* (session/application.rs): the applications in order, and for every        *)
(* connection the index of its application.                                  *)

EmptyRegistry == [apps |-> <<>>, owner |-> [x \in {} |-> 0]]

FindApplication(r, root) == {i \in 1 .. Len(r.apps) : r.apps[i].root = root}

\* A process without a readable tree registers nothing.
Register(r, x, pid) ==
    LET root == ApplicationRoot(pid)
        found == FindApplication(r, root)
        at == IF found = {} THEN Len(r.apps) + 1 ELSE CHOOSE i \in found : \A j \in found : i <= j
        apps == IF found = {} THEN Append(r.apps, [root |-> root, conns |-> {}]) ELSE r.apps
    IN  IF root = NoApp THEN r
        ELSE [apps |-> [apps EXCEPT ![at].conns = @ \cup {x}],
              owner |-> [y \in DOMAIN r.owner \cup {x} |-> IF y = x THEN at ELSE r.owner[y]]]

KeptIndexes(owner, at) == owner

\* Every later application moves down by one, and the owner map follows.
ShiftedDown(owner, at) ==
    [x \in DOMAIN owner |-> IF owner[x] > at THEN owner[x] - 1 ELSE owner[x]]

\* An application leaves with its last connection.
Unregister(r, x) ==
    LET at == r.owner[x]
        rest == [y \in DOMAIN r.owner \ {x} |-> r.owner[y]]
        apps == [r.apps EXCEPT ![at].conns = @ \ {x}]
    IN  IF x \notin DOMAIN r.owner THEN r
        ELSE IF apps[at].conns # {} THEN [apps |-> apps, owner |-> rest]
        ELSE [apps |-> [i \in 1 .. Len(apps) - 1 |-> apps[IF i < at THEN i ELSE i + 1]],
              owner |-> ShiftedDown(rest, at)]

ApplicationOf(r, x) ==
    IF x \in DOMAIN r.owner /\ r.owner[x] <= Len(r.apps) THEN r.apps[r.owner[x]].root ELSE NoApp

-----------------------------------------------------------------------------
(* The hub                                                                   *)

CONSTANTS
    Clients, Conns,
    LaneCap,        \* frames a real-time lane holds
    MaxChannels,    \* bound on the channel ids handed out
    MaxRecorders,   \* recorder tasks that can be told apart
    MaxSounds       \* bound on the captures that find a stream

ASSUME LaneAssumption == {LaneCap, MaxChannels, MaxRecorders, MaxSounds} \subseteq Nat \ {0}

NoConn == "no_conn"

ASSUME ConnsAssumption == NoConn \notin Conns

VARIABLES
    lane,       \* the frames on every client's real-time lane
    linked,     \* the clients whose lane has a receiver
    subs,       \* the subscribers of the mix, in order
    running,    \* a recorder owns the capture of the mix
    recs,       \* where every recorder task stands
    caps,       \* the captures, by application
    lanes,      \* the clients known to the per-application tier
    graph,      \* the streams that play
    nextId,     \* next_connection_id
    sounds      \* the captures that found a stream

hubVars == <<lane, linked, subs, running, recs, caps, lanes, graph, nextId, sounds>>

Recorders == 1 .. MaxRecorders
NoCapture == [phase |-> "none", chs |-> <<>>, src |-> 0]

HubInit(clients) ==
    /\ lane = [c \in Clients |-> <<>>] /\ linked = clients
    /\ subs = <<>> /\ running = FALSE /\ recs = [r \in Recorders |-> "none"]
    /\ caps = [a \in DOMAIN Parent |-> NoCapture]
    /\ lanes = {} /\ graph = {} /\ nextId = 1 /\ sounds = 0

-----------------------------------------------------------------------------
\* The lane: send_priority never waits.
FitsAlways(ls, c) == c \in linked

Fits(ls, c) == c \in linked /\ Len(ls[c]) < LaneCap

SendPriority(ls, c, f) == IF Fits(ls, c) THEN [ls EXCEPT ![c] = Append(@, f)] ELSE ls

OpenFrame(ch) == [kind |-> "open", id |-> ch.id, app |-> ch.app, src |-> 0]
DataFrame(ch, src) == [kind |-> "data", id |-> ch.id, app |-> NoConn, src |-> src]
CloseFrame(ch) == [kind |-> "close", id |-> ch.id, app |-> NoConn, src |-> 0]

\* A channel opens with its first packet; one that cannot, or whose lane is
\* gone, is swept.
Dead(ch, ls) == ch.client \notin linked \/ (~ch.opened /\ ~Fits(ls, ch.client))

\* Data goes out whether or not the open did.
ShippedUnopened(ch, ls, src) ==
    LET data == SendPriority(ls, ch.client, DataFrame(ch, src))
    IN  IF ch.opened THEN data ELSE SendPriority(data, ch.client, OpenFrame(ch))

Shipped(ch, ls, src) ==
    LET opened == IF ch.opened THEN ls ELSE SendPriority(ls, ch.client, OpenFrame(ch))
    IN  SendPriority(opened, ch.client, DataFrame(ch, src))

\* A packet on one channel, which is swept or kept as opened.
Served(s, ch, src) ==
    IF Dead(ch, s.lane) THEN s
    ELSE [lane |-> Shipped(ch, s.lane, src), kept |-> Append(s.kept, [ch EXCEPT !.opened = TRUE])]

\* One packet on every channel, in order.
FanOut(chs, src) ==
    LET after[n \in 0 .. Len(chs)] ==
            IF n = 0 THEN [lane |-> lane, kept |-> <<>>] ELSE Served(after[n - 1], chs[n], src)
    IN  after[Len(chs)]

\* An opened channel gets a ChannelClose, if its lane has room.
Told(ls, ch) == IF ch.opened THEN SendPriority(ls, ch.client, CloseFrame(ch)) ELSE ls

Closed(chs) ==
    LET after[n \in 0 .. Len(chs)] == IF n = 0 THEN lane ELSE Told(after[n - 1], chs[n])
    IN  after[Len(chs)]

\* The channels that meet a condition, in order.
Retained(chs, Keep(_)) ==
    FlattenSeq([i \in 1 .. Len(chs) |-> IF Keep(chs[i]) THEN <<chs[i]>> ELSE <<>>])

NewChannel(c, app) == [id |-> nextId, client |-> c, app |-> app, opened |-> FALSE]

-----------------------------------------------------------------------------
\* The mix.

\* Nobody looks whether a recorder runs.
ClaimAlways(r) == recs[r] = "none"

Claim(r) == ~running /\ recs[r] = "none"

AttachMix(c) ==
    /\ nextId <= MaxChannels
    /\ subs' = Append(subs, NewChannel(c, NoConn))
    /\ nextId' = nextId + 1
    /\ \/ \E r \in Recorders : Claim(r) /\ recs' = [recs EXCEPT ![r] = "setup"]
       \/ running /\ UNCHANGED recs
    /\ running' = TRUE
    /\ UNCHANGED <<lane, linked, caps, lanes, graph, sounds>>

\* finish(false): nobody was opened, so the pending subscribers go.
SetupFails(r) ==
    /\ recs[r] = "setup"
    /\ recs' = [recs EXCEPT ![r] = "none"] /\ running' = FALSE
    /\ subs' = Retained(subs, LAMBDA ch : ch.opened)
    /\ UNCHANGED <<lane, linked, caps, lanes, graph, nextId, sounds>>

SetupEnds(r) ==
    /\ recs[r] = "setup" /\ subs # <<>>
    /\ recs' = [recs EXCEPT ![r] = "reading"]
    /\ UNCHANGED <<lane, linked, subs, running, caps, lanes, graph, nextId, sounds>>

AfterPacketEndless(kept) == "reading"

\* The recorder stops when its last listener is swept.
AfterPacket(kept) == IF kept = <<>> THEN "stopping" ELSE "reading"

MixPacket(r) ==
    LET out == FanOut(subs, 0)
    IN  /\ recs[r] = "reading"
        /\ lane' = out.lane /\ subs' = out.kept
        /\ recs' = [recs EXCEPT ![r] = AfterPacket(out.kept)]
        /\ UNCHANGED <<linked, running, caps, lanes, graph, nextId, sounds>>

RecorderExits(r) ==
    /\ recs[r] = "reading"
    /\ recs' = [recs EXCEPT ![r] = "stopping"]
    /\ UNCHANGED <<lane, linked, subs, running, caps, lanes, graph, nextId, sounds>>

\* finish(true): the opened subscribers are closed, and the list is emptied.
Finish(r) ==
    /\ recs[r] = "stopping"
    /\ recs' = [recs EXCEPT ![r] = "none"] /\ running' = FALSE
    /\ lane' = Closed(subs) /\ subs' = <<>>
    /\ UNCHANGED <<linked, caps, lanes, graph, nextId, sounds>>

-----------------------------------------------------------------------------
\* The captures per application.

AttachPerApp(c) ==
    /\ lanes' = lanes \cup {c}
    /\ UNCHANGED <<lane, linked, subs, running, recs, caps, graph, nextId, sounds>>

\* A connection joins its application's capture, which starts with the first.
AttachConnection(app, x, c) ==
    /\ nextId <= MaxChannels /\ nextId' = nextId + 1
    /\ caps' = [caps EXCEPT ![app].chs = Append(@, NewChannel(c, x)),
                            ![app].phase = IF @ = "none" THEN "waiting" ELSE @]

\* The channel of a connection closes; the last one stops the capture.
DetachConnection(app, x) ==
    LET chs == caps[app].chs
        mine == Retained(chs, LAMBDA ch : ch.app = x)
        rest == Retained(chs, LAMBDA ch : ch.app # x)
    IN  /\ lane' = Closed(mine)
        /\ caps' = [caps EXCEPT ![app] = IF rest = <<>> THEN NoCapture ELSE [@ EXCEPT !.chs = rest]]

\* The application makes a sound: the capture is bound to that stream.
CaptureStarts(app) ==
    /\ caps[app].phase = "waiting" /\ sounds < MaxSounds
    /\ \E node \in StreamsOf(app, graph) :
        caps' = [caps EXCEPT ![app].phase = "reading", ![app].src = node.pid]
    /\ sounds' = sounds + 1
    /\ UNCHANGED <<lane, linked, subs, running, recs, lanes, graph, nextId>>

CapturePacket(app) ==
    LET out == FanOut(caps[app].chs, caps[app].src)
    IN  /\ caps[app].phase = "reading"
        /\ \E node \in graph : node.pid = caps[app].src
        /\ lane' = out.lane
        /\ caps' = [caps EXCEPT ![app].chs = out.kept]
        /\ UNCHANGED <<linked, subs, running, recs, lanes, graph, nextId, sounds>>

\* The child ends, with its stream or on its own; the channels stay behind.
CaptureEnds(app) ==
    /\ caps[app].phase = "reading"
    /\ caps' = [caps EXCEPT ![app].phase = "dead"]
    /\ UNCHANGED <<lane, linked, subs, running, recs, lanes, graph, nextId, sounds>>

\* A process starts or stops playing.
Plays(node) ==
    /\ graph' = IF node \in graph THEN graph \ {node} ELSE graph \cup {node}
    /\ UNCHANGED <<lane, linked, subs, running, recs, caps, lanes, nextId, sounds>>
=============================================================================
