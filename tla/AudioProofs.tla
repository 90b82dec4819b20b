---------------------------- MODULE AudioProofs ----------------------------
(* Sound for every number of clients, X11 connections, applications and      *)
(* channels, and every capacity of the real-time lanes: one recorder serves  *)
(* the mix, no packet runs ahead of its channel's open, and sound reaches    *)
(* the connections of the application that makes it.                         *)
EXTENDS Audio, FiniteSetTheorems, SequenceTheorems, WellFoundedInduction, TLAPS

-----------------------------------------------------------------------------
(* The inductive invariant                                                   *)

Tags == Conns \cup {NoConn}
Frames == [kind : {"open", "data", "close"}, id : Nat, app : Tags, src : Nat]
Players == [id : Nat, app : Tags, audible : BOOLEAN, alive : BOOLEAN]
Captured == [phase : {"none", "waiting", "reading", "dead"}, chs : Seq(Channels), src : Nat]
Apps == DOMAIN Parent

HubTyped ==
    /\ config \in Configs
    /\ linked \subseteq Clients /\ lanes \subseteq Clients /\ acked \subseteq Clients
    /\ lane \in [Clients -> Seq(Frames)] /\ \A c \in Clients : Len(lane[c]) <= LaneCap
    /\ subs \in Seq(Channels) /\ running \in BOOLEAN
    /\ recs \in [Recorders -> {"none", "setup", "reading", "stopping"}]
    /\ caps \in [Apps -> Captured]
    /\ graph \subseteq config.nodes /\ nextId \in Nat \ {0}

OutTyped ==
    /\ outlets \in [Clients -> SUBSET Players] /\ known \in [Clients -> SUBSET Nat]
    /\ ranges \in [Clients -> SUBSET Conns]
    /\ fore \in [Clients -> Tags]
    /\ pump \in [Conns -> {"none", "opening", "open", "asked", "up", "over"}]
    /\ sock \in [Conns -> {"new", "open", "closing", "gone"}]
    /\ events \in [Clients -> Seq([kind : {"connected", "disconnected"}, conn : X11])]

\* One recorder at most, and one exactly while the mix is claimed; before its
\* first packet no subscriber was opened.
OneRecorder ==
    /\ running => \E r \in Recorders : /\ recs[r] # "none"
                                       /\ \A q \in Recorders \ {r} : recs[q] = "none"
    /\ ~running => subs = <<>> /\ \A r \in Recorders : recs[r] = "none"
    /\ \A r \in Recorders : recs[r] = "setup" => \A i \in 1 .. Len(subs) : ~subs[i].opened

\* The lists of channels: 0 is the mix, which is no process.
Lists == Apps \cup {0}
ChannelsOf(a) == ToSet(IF a = 0 THEN subs ELSE caps[a].chs)

\* An id names one channel: a list, and in it a connection.
IdsApart ==
    /\ \A a \in Lists : \A ch \in ChannelsOf(a) : ch.id < nextId
    /\ \A a, b \in Lists : \A s \in ChannelsOf(a), t \in ChannelsOf(b) :
            s.id = t.id => a = b /\ s.app = t.app

Control(f, id, kind) == f.id = id /\ f.kind = kind

\* To the reader of lane q, whose opened channels are K, channel id is open
\* before position n.
OpenAt(q, K, id, n) ==
    \/ /\ id \in K
       /\ \A k \in 1 .. n - 1 : ~Control(q[k], id, "close")
    \/ \E j \in 1 .. n - 1 : /\ Control(q[j], id, "open")
                             /\ \A k \in j + 1 .. n - 1 : ~Control(q[k], id, "close")

InOrder(q, K) == \A n \in 1 .. Len(q) : q[n].kind = "data" => OpenAt(q, K, q[n].id, n)

OpenAtEnd(q, K, id) == OpenAt(q, K, id, Len(q) + 1)

\* What was opened stays open to its client, and so does what is under way.
LanesInOrder ==
    /\ \A c \in Clients : InOrder(lane[c], known[c])
    /\ \A a \in Lists : \A ch \in ChannelsOf(a) :
            ch.opened => OpenAtEnd(lane[ch.client], known[ch.client], ch.id)

\* An open for connection x is under way.
Announced(ls, x, id) ==
    \E c \in Clients : \E i \in 1 .. Len(ls[c]) : Control(ls[c][i], id, "open") /\ ls[c][i].app = x

\* Where the id of a connection's channel is met.
Tagged(x, id) ==
    \/ \E a \in Lists : \E ch \in ChannelsOf(a) : ch.app = x /\ ch.id = id
    \/ Announced(lane, x, id)
    \/ \E c \in Clients : \E out \in outlets[c] : out.app = x /\ out.id = id

Arrives(e, x) == e.kind = "connected" /\ e.conn = x

\* A connection is announced once and gets one channel.
TagsApart ==
    /\ \A x \in Conns : \A i, j : Tagged(x, i) /\ Tagged(x, j) => i = j
    /\ \A x \in Conns : sock[x] = "new" => \A i : ~Tagged(x, i)
    /\ \A c \in Clients : \A i \in 1 .. Len(events[c]) : \A x \in Conns : Arrives(events[c][i], x) =>
            /\ sock[x] # "new" /\ \A id : ~Tagged(x, id)
            /\ \A d \in Clients : \A j \in 1 .. Len(events[d]) :
                    Arrives(events[d][j], x) => c = d /\ i = j

\* With one channel for each connection, the rule needs no first of several.
Heard(fg, out) == ~perApp \/ fg = NoConn \/ (out.app # NoConn /\ fg = out.app)

Ruled ==
    \A c \in Clients :
        /\ \A out \in outlets[c] : out.audible = Heard(fore[c], out)
        /\ \A out, o \in outlets[c] : out.id = o.id => out = o

\* Every known connection is with the application of its process.
Entries == [root : Nat, conns : SUBSET Conns]

Home(r, pid) ==
    /\ r.apps \in Seq(Entries) /\ r.owner \in [DOMAIN r.owner -> Nat] /\ DOMAIN r.owner \subseteq DOMAIN pid
    /\ \A x \in DOMAIN r.owner :
        /\ r.owner[x] \in 1 .. Len(r.apps)
        /\ x \in r.apps[r.owner[x]].conns
        /\ r.apps[r.owner[x]].root = ApplicationRoot(pid[x])
        /\ ApplicationRoot(pid[x]) # NoApp

RegistryTrue == Home(registry, config.pid)

\* The channels and the stream of a capture are its application's.
CapturesTrue ==
    \A a \in Apps :
        /\ \A ch \in ChannelsOf(a) : ch.app \in X11 /\ ApplicationRoot(config.pid[ch.app]) = a
        /\ caps[a].src # 0 => \E node \in config.nodes :
            IsApplicationOutput(node) /\ node.pid = caps[a].src /\ ApplicationRoot(node.pid) = a

IInv ==
    /\ HubTyped /\ OutTyped /\ OneRecorder /\ IdsApart /\ LanesInOrder
    /\ TagsApart /\ Ruled /\ RegistryTrue /\ CapturesTrue

-----------------------------------------------------------------------------
(* Induction and recursive functions                                         *)

(* The least-number principle, for a set: every nonempty set of naturals has *)
(* a least element.                                                          *)
LEMMA LeastNumber ==
    ASSUME NEW T \in SUBSET Nat, T # {}
    PROVE  \E m \in T : \A k \in T : m <= k
<1>1. IsWellFoundedOn(OpToRel(<, Nat), Nat)
  BY NatLessThanWellFounded
<1>2. \A R : IsWellFoundedOn(R, Nat)
                => \E x \in T : \A y \in T : ~(<<y, x>> \in R)
  BY WFMin
<1>3. PICK x \in T : \A y \in T : ~(<<y, x>> \in OpToRel(<, Nat))
  BY <1>1, <1>2
<1>4. \A y \in T : ~(y < x)
  BY <1>3 DEF OpToRel
<1> QED BY <1>4

(* Induction up to n, for a set: what contains 0 and with every number its   *)
(* successor contains 0 .. n.                                                *)
LEMMA CountingUp ==
    ASSUME NEW T, NEW n \in Nat, 0 \in T,
           \A i \in 0 .. n - 1 : i \in T => i + 1 \in T
    PROVE  \A i \in 0 .. n : i \in T
<1> SUFFICES ASSUME (0 .. n) \ T # {} PROVE FALSE
  OBVIOUS
<1> DEFINE D == (0 .. n) \ T
<1>0. D \in SUBSET Nat /\ D # {}
  OBVIOUS
<1> HIDE DEF D
<1>a. PICK m \in D : \A k \in D : m <= k
  BY <1>0, LeastNumber
<1>1. m \in (0 .. n) \ T /\ \A k \in (0 .. n) \ T : m <= k
  BY <1>a DEF D
<1>2. m # 0 /\ m - 1 \in 0 .. n - 1 /\ m - 1 \in 0 .. n /\ ~(m <= m - 1)
  BY <1>1
<1>3. m - 1 \in T
  BY <1>1, <1>2
<1> QED BY <1>1, <1>2, <1>3

\* A loop over W in N turns, from b by the steps of G.
Loops(W, N) == [1 .. N -> [W -> W]]
LoopOf(f, N, b, G) == f[0] = b /\ \A n \in 1 .. N : f[n] = G[n][f[n - 1]]
Runs(W, N, b, G) == \E f \in [0 .. N -> W] : LoopOf(f, N, b, G)

(* A function given by its first value and a step to the next one exists:    *)
(* the loops over the channels of a list and over a process's ancestors are  *)
(* such functions.                                                           *)
LEMMA RecursionExists ==
    ASSUME NEW W, NEW N \in Nat, NEW b \in W, NEW G \in Loops(W, N)
    PROVE  Runs(W, N, b, G)
<1> USE DEF Loops
<1> DEFINE Unfolds(f, m) == \A i \in 0 .. m : f[i] = IF i = 0 THEN b ELSE G[i][f[i - 1]]
           T == {m \in 0 .. N : \E f \in [0 .. m -> W] : Unfolds(f, m)}
<1>1. 0 \in T
  <2> DEFINE e == [i \in 0 .. 0 |-> b]
  <2>1. e \in [0 .. 0 -> W] /\ Unfolds(e, 0)
    OBVIOUS
  <2> HIDE DEF e, Unfolds
  <2> QED BY <2>1
<1>2. ASSUME NEW m \in 0 .. N - 1, m \in T PROVE m + 1 \in T
  <2>0. m \in Nat /\ m \in 0 .. m /\ m + 1 \in 1 .. N /\ m + 1 \in 0 .. N
    OBVIOUS
  <2>1. PICK f \in [0 .. m -> W] : Unfolds(f, m)
    BY <1>2
  <2> DEFINE v == G[m + 1][f[m]]
             g == [i \in 0 .. m + 1 |-> IF i = m + 1 THEN v ELSE f[i]]
  <2>2. v \in W
    BY <2>0
  <2>3. g \in [0 .. m + 1 -> W]
    BY <2>0, <2>2
  <2>4. (\A i \in 0 .. m : g[i] = f[i]) /\ g[m + 1] = v
    BY <2>0
  <2> HIDE DEF g
  <2>5. Unfolds(g, m + 1)
    <3> SUFFICES ASSUME NEW i \in 0 .. m + 1
                 PROVE  g[i] = IF i = 0 THEN b ELSE G[i][g[i - 1]]
      OBVIOUS
    <3>1. CASE i = m + 1
      <4>1. g[i - 1] = f[m] /\ i # 0
        BY <2>0, <2>4, <3>1
      <4> QED BY <2>4, <3>1, <4>1
    <3>2. CASE i # m + 1
      <4>1. i \in 0 .. m /\ g[i] = f[i] /\ (i # 0 => i - 1 \in 0 .. m)
        BY <2>0, <2>4, <3>2
      <4>2. i # 0 => g[i - 1] = f[i - 1]
        BY <2>4, <4>1
      <4> QED BY <2>1, <4>1, <4>2
    <3> QED BY <3>1, <3>2
  <2> HIDE DEF Unfolds
  <2> QED BY <2>0, <2>3, <2>5
<1>3. N \in T
  <2> HIDE DEF T
  <2>1. \A i \in 0 .. N : i \in T
    BY <1>1, <1>2, CountingUp
  <2> QED BY <2>1
<1>4. PICK f \in [0 .. N -> W] : Unfolds(f, N)
  BY <1>3
<1>5. LoopOf(f, N, b, G)
  BY <1>4 DEF LoopOf
<1> QED BY <1>4, <1>5 DEF Runs

-----------------------------------------------------------------------------
(* Lanes                                                                     *)

(* A frame behind the others leaves what was open before it open, but for    *)
(* the channel it closes.                                                    *)
LEMMA AppendOpen ==
    ASSUME NEW q \in Seq(Frames), NEW f \in Frames, NEW K, NEW id
    PROVE  /\ \A n \in 1 .. Len(q) + 1 : OpenAt(q, K, id, n) => OpenAt(Append(q, f), K, id, n)
           /\ OpenAtEnd(q, K, id) /\ ~Control(f, id, "close") => OpenAtEnd(Append(q, f), K, id)
           /\ Control(f, id, "open") => OpenAtEnd(Append(q, f), K, id)
<1> DEFINE p == Append(q, f)
           m == Len(q) + 1
<1>1. /\ p \in Seq(Frames) /\ Len(p) = m /\ m \in Nat \ {0} /\ p[m] = f
      /\ \A k \in 1 .. m - 1 : p[k] = q[k]
  OBVIOUS
<1> HIDE DEF p
<1>2. ASSUME NEW n \in 1 .. m, OpenAt(q, K, id, n) PROVE OpenAt(p, K, id, n)
  <2>1. n \in Nat /\ \A k \in 1 .. n - 1 : p[k] = q[k]
    BY <1>1
  <2> QED BY <1>2, <2>1 DEF OpenAt
<1>3. ASSUME OpenAt(q, K, id, m), ~Control(f, id, "close") PROVE OpenAt(p, K, id, m + 1)
  <2>1. \A k \in 1 .. (m + 1) - 1 : k \in 1 .. m - 1 \/ k = m
    BY <1>1
  <2>2. CASE id \in K /\ \A k \in 1 .. m - 1 : ~Control(q[k], id, "close")
    BY <1>1, <1>3, <2>1, <2>2 DEF OpenAt
  <2>3. CASE \E j \in 1 .. m - 1 : /\ Control(q[j], id, "open")
                                   /\ \A k \in j + 1 .. m - 1 : ~Control(q[k], id, "close")
    <3>1. PICK j \in 1 .. m - 1 : /\ Control(q[j], id, "open")
                                  /\ \A k \in j + 1 .. m - 1 : ~Control(q[k], id, "close")
      BY <2>3
    <3>2. j \in 1 .. (m + 1) - 1 /\ Control(p[j], id, "open")
      BY <1>1, <3>1
    <3>3. ASSUME NEW k \in j + 1 .. (m + 1) - 1 PROVE ~Control(p[k], id, "close")
      <4>1. CASE k = m
        BY <1>1, <1>3, <4>1
      <4>2. CASE k # m
        <5>1. k \in j + 1 .. m - 1 /\ p[k] = q[k]
          BY <1>1, <3>1, <4>2
        <5> QED BY <3>1, <5>1
      <4> QED BY <4>1, <4>2
    <3> QED BY <3>2, <3>3 DEF OpenAt
  <2> QED BY <1>3, <2>2, <2>3 DEF OpenAt
<1>4. ASSUME Control(f, id, "open") PROVE OpenAt(p, K, id, m + 1)
  <2>1. m \in 1 .. (m + 1) - 1 /\ Control(p[m], id, "open") /\ m + 1 .. (m + 1) - 1 = {}
    BY <1>1, <1>4
  <2> QED BY <2>1 DEF OpenAt
<1> QED BY <1>1, <1>2, <1>3, <1>4 DEF OpenAtEnd, p

(* A data frame of an open channel behind the others keeps a lane in order,  *)
(* and so does every control frame.                                          *)
LEMMA AppendInOrder ==
    ASSUME NEW q \in Seq(Frames), NEW f \in Frames, NEW K, InOrder(q, K),
           f.kind = "data" => OpenAtEnd(q, K, f.id)
    PROVE  InOrder(Append(q, f), K)
<1> SUFFICES ASSUME NEW n \in 1 .. Len(Append(q, f)), Append(q, f)[n].kind = "data"
             PROVE  OpenAt(Append(q, f), K, Append(q, f)[n].id, n)
  BY DEF InOrder
<1>1. /\ n \in 1 .. Len(q) + 1 /\ (n = Len(q) + 1 => Append(q, f)[n] = f)
      /\ (n # Len(q) + 1 => n \in 1 .. Len(q) /\ Append(q, f)[n] = q[n])
  OBVIOUS
<1>2. OpenAt(q, K, Append(q, f)[n].id, n)
  BY <1>1 DEF InOrder, OpenAtEnd
<1> QED BY <1>1, <1>2, AppendOpen

\* What the client knows after it took a frame.
KnownAfter(K, f) ==
    CASE f.kind = "open" -> K \cup {f.id} [] f.kind = "data" -> K [] f.kind = "close" -> K \ {f.id}

(* Taking the first frame off a lane leaves the others where they were.      *)
LEMMA TailOpen ==
    ASSUME NEW q \in Seq(Frames), q # <<>>, NEW K, NEW id, NEW n \in 2 .. Len(q) + 1,
           OpenAt(q, K, id, n)
    PROVE  OpenAt(Tail(q), KnownAfter(K, Head(q)), id, n - 1)
<1> DEFINE t == Tail(q)
           L == KnownAfter(K, Head(q))
<1>1. /\ n \in Nat /\ n - 1 \in Nat /\ Head(q) = q[1] /\ q[1] \in Frames
      /\ \A k \in 1 .. (n - 1) - 1 : t[k] = q[k + 1] /\ k + 1 \in 2 .. n - 1
  OBVIOUS
<1>2. q[1].kind \in {"open", "data", "close"}
  BY <1>1 DEF Frames
<1>3. /\ Control(q[1], id, "open") => id \in L
      /\ id \in K /\ ~Control(q[1], id, "close") => id \in L
  BY <1>1, <1>2 DEF KnownAfter, Control
<1> HIDE DEF t, L
<1>4. CASE id \in K /\ \A k \in 1 .. n - 1 : ~Control(q[k], id, "close")
  <2>1. id \in L
    BY <1>1, <1>3, <1>4
  <2>2. \A k \in 1 .. (n - 1) - 1 : ~Control(t[k], id, "close")
    BY <1>1, <1>4
  <2> QED BY <2>1, <2>2 DEF OpenAt, t, L
<1>5. CASE \E j \in 1 .. n - 1 : /\ Control(q[j], id, "open")
                                 /\ \A k \in j + 1 .. n - 1 : ~Control(q[k], id, "close")
  <2>1. PICK j \in 1 .. n - 1 : /\ Control(q[j], id, "open")
                                /\ \A k \in j + 1 .. n - 1 : ~Control(q[k], id, "close")
    BY <1>5
  <2>2. CASE j = 1
    <3>1. id \in L
      BY <1>3, <2>1, <2>2
    <3>2. \A k \in 1 .. (n - 1) - 1 : ~Control(t[k], id, "close")
      BY <1>1, <2>1, <2>2
    <3> QED BY <3>1, <3>2 DEF OpenAt, t, L
  <2>3. CASE j # 1
    <3>1. j - 1 \in 1 .. (n - 1) - 1 /\ (j - 1) + 1 = j
      BY <1>1, <2>1, <2>3
    <3>2. Control(t[j - 1], id, "open")
      BY <1>1, <2>1, <3>1
    <3>3. ASSUME NEW k \in (j - 1) + 1 .. (n - 1) - 1 PROVE ~Control(t[k], id, "close")
      <4>1. k \in 1 .. (n - 1) - 1 /\ k + 1 \in j + 1 .. n - 1
        BY <1>1, <2>1, <3>1
      <4> QED BY <1>1, <2>1, <4>1
    <3> QED BY <3>1, <3>2, <3>3 DEF OpenAt, t, L
  <2> QED BY <2>2, <2>3
<1> QED BY <1>4, <1>5 DEF OpenAt

(* Taking the head of a lane keeps the rest in order for its reader.         *)
LEMMA TailInOrder ==
    ASSUME NEW q \in Seq(Frames), q # <<>>, NEW K, InOrder(q, K)
    PROVE  /\ InOrder(Tail(q), KnownAfter(K, Head(q)))
           /\ \A id : OpenAtEnd(q, K, id) => OpenAtEnd(Tail(q), KnownAfter(K, Head(q)), id)
<1>1. Len(Tail(q)) = Len(q) - 1 /\ Len(q) \in Nat \ {0}
  OBVIOUS
<1>2. ASSUME NEW n \in 1 .. Len(Tail(q)), Tail(q)[n].kind = "data"
      PROVE  OpenAt(Tail(q), KnownAfter(K, Head(q)), Tail(q)[n].id, n)
  <2>1. n + 1 \in 2 .. Len(q) /\ n + 1 \in 2 .. Len(q) + 1 /\ n + 1 \in 1 .. Len(q)
        /\ Tail(q)[n] = q[n + 1] /\ (n + 1) - 1 = n
    BY <1>1
  <2>2. OpenAt(q, K, q[n + 1].id, n + 1)
    BY <1>2, <2>1 DEF InOrder
  <2> QED BY <2>1, <2>2, TailOpen
<1>3. ASSUME NEW id, OpenAtEnd(q, K, id)
      PROVE  OpenAtEnd(Tail(q), KnownAfter(K, Head(q)), id)
  <2>1. Len(q) + 1 \in 2 .. Len(q) + 1 /\ (Len(q) + 1) - 1 = Len(Tail(q)) + 1
    BY <1>1
  <2> QED BY <1>3, <2>1, TailOpen DEF OpenAtEnd
<1> QED BY <1>2, <1>3 DEF InOrder

Lanes == {ls \in [Clients -> Seq(Frames)] : \A c \in Clients : Len(ls[c]) <= LaneCap}

\* Every lane is in order for its client.
AllInOrder(ls) == \A c \in Clients : InOrder(ls[c], known[c])

\* Channel id is open to client c behind what is on its lane.
OpenTo(ls, c, id) == OpenAtEnd(ls[c], known[c], id)

(* send_priority appends the frame or drops it.                              *)
LEMMA Sent ==
    ASSUME NEW ls \in Lanes, NEW c \in Clients, NEW f \in Frames, NEW ms, ms = SendPriority(ls, c, f)
    PROVE  /\ ms \in Lanes
           /\ \A d \in Clients : ms[d] = ls[d] \/ (d = c /\ ms[d] = Append(ls[d], f))
           /\ Fits(ls, c) => ms[c] = Append(ls[c], f)
<1>1. ls \in [Clients -> Seq(Frames)] /\ \A d \in Clients : Len(ls[d]) <= LaneCap
  BY DEF Lanes
<1>2. CASE Fits(ls, c)
  <2>1. ms = [ls EXCEPT ![c] = Append(@, f)]
    BY <1>2 DEF SendPriority
  <2>2. Append(ls[c], f) \in Seq(Frames) /\ Len(Append(ls[c], f)) <= LaneCap
    BY <1>1, <1>2, LaneAssumption DEF Fits
  <2> QED BY <1>1, <2>1, <2>2 DEF Lanes
<1>3. CASE ~Fits(ls, c)
  BY <1>3 DEF SendPriority
<1> QED BY <1>2, <1>3

(* A frame that may be sent keeps the lanes in order.                        *)
LEMMA SentInOrder ==
    ASSUME NEW ls \in Lanes, AllInOrder(ls), NEW c \in Clients, NEW f \in Frames,
           f.kind = "data" => OpenTo(ls, c, f.id),
           NEW ms, ms = SendPriority(ls, c, f)
    PROVE  /\ ms \in Lanes /\ AllInOrder(ms)
           /\ \A d \in Clients : \A id :
                OpenTo(ls, d, id) /\ ~Control(f, id, "close") => OpenTo(ms, d, id)
           /\ Fits(ls, c) /\ f.kind = "open" => OpenTo(ms, c, f.id)
           /\ \A x, id : Announced(ms, x, id) =>
                Announced(ls, x, id) \/ (Control(f, id, "open") /\ f.app = x)
<1>1. /\ ms \in Lanes /\ \A d \in Clients : ms[d] = ls[d] \/ (d = c /\ ms[d] = Append(ls[d], f))
      /\ Fits(ls, c) => ms[c] = Append(ls[c], f)
  BY Sent
<1>2. \A d \in Clients : ls[d] \in Seq(Frames)
  BY DEF Lanes
<1>3. AllInOrder(ms)
  <2> SUFFICES ASSUME NEW d \in Clients PROVE InOrder(ms[d], known[d])
    BY DEF AllInOrder
  <2>1. InOrder(ls[d], known[d])
    BY DEF AllInOrder
  <2>2. CASE ms[d] = ls[d]
    BY <2>1, <2>2
  <2>3. CASE d = c /\ ms[d] = Append(ls[d], f)
    BY <1>2, <2>1, <2>3, AppendInOrder DEF OpenTo
  <2> QED BY <1>1, <2>2, <2>3
<1>4. ASSUME NEW d \in Clients, NEW id, OpenTo(ls, d, id), ~Control(f, id, "close")
      PROVE  OpenTo(ms, d, id)
  <2>1. CASE ms[d] = ls[d]
    BY <1>4, <2>1 DEF OpenTo
  <2>2. CASE ms[d] = Append(ls[d], f)
    BY <1>2, <1>4, <2>2, AppendOpen DEF OpenTo
  <2> QED BY <1>1, <2>1, <2>2
<1>5. Fits(ls, c) /\ f.kind = "open" => OpenTo(ms, c, f.id)
  BY <1>1, <1>2, AppendOpen DEF OpenTo, Control
<1>6. ASSUME NEW x, NEW id, Announced(ms, x, id)
      PROVE  Announced(ls, x, id) \/ (Control(f, id, "open") /\ f.app = x)
  <2>1. PICK d \in Clients : \E i \in 1 .. Len(ms[d]) :
                                Control(ms[d][i], id, "open") /\ ms[d][i].app = x
    BY <1>6 DEF Announced
  <2>2. PICK i \in 1 .. Len(ms[d]) : Control(ms[d][i], id, "open") /\ ms[d][i].app = x
    BY <2>1
  <2>3. CASE ms[d] = ls[d]
    BY <2>2, <2>3 DEF Announced
  <2>4. CASE ms[d] = Append(ls[d], f)
    <3>1. ms[d][i] = f \/ (i \in 1 .. Len(ls[d]) /\ ms[d][i] = ls[d][i])
      BY <1>2, <2>2, <2>4
    <3> QED BY <2>2, <3>1 DEF Announced
  <2> QED BY <1>1, <2>3, <2>4
<1> QED BY <1>1, <1>3, <1>4, <1>5, <1>6

(* The frames of a channel are frames.                                       *)
LEMMA FramesOfChannel ==
    ASSUME NEW ch \in Channels, NEW src \in Nat
    PROVE  /\ OpenFrame(ch) \in Frames /\ DataFrame(ch, src) \in Frames /\ CloseFrame(ch) \in Frames
           /\ ch.client \in Clients /\ ch.id \in Nat /\ ch.app \in Tags /\ ch.opened \in BOOLEAN
BY LaneAssumption DEF Channels, Frames, OpenFrame, DataFrame, CloseFrame, Tags

(* Closed is the last value of its loop.                                     *)
LEMMA ClosedUnfolds ==
    ASSUME lane \in Lanes, NEW chs \in Seq(Channels)
    PROVE  \E f : /\ f[0] = lane /\ Closed(chs) = f[Len(chs)]
                  /\ \A n \in 1 .. Len(chs) : f[n] = Told(f[n - 1], chs[n])
<1> DEFINE N == Len(chs)
           G == [n \in 1 .. N |-> [w \in Lanes |-> Told(w, chs[n])]]
<1>1. N \in Nat /\ \A n \in 1 .. N : chs[n] \in Channels
  OBVIOUS
<1>2. ASSUME NEW w \in Lanes, NEW n \in 1 .. N PROVE Told(w, chs[n]) \in Lanes
  <2>1. chs[n].client \in Clients /\ CloseFrame(chs[n]) \in Frames
    BY <1>1, FramesOfChannel
  <2>2. SendPriority(w, chs[n].client, CloseFrame(chs[n])) \in Lanes
    BY <2>1, Sent
  <2> QED BY <2>2 DEF Told
<1>3. G \in Loops(Lanes, N)
  BY <1>2 DEF Loops
<1> HIDE DEF G
<1>4. PICK f \in [0 .. N -> Lanes] : LoopOf(f, N, lane, G)
  BY <1>1, <1>3, RecursionExists DEF Runs
<1>5. f = [n \in 0 .. N |-> IF n = 0 THEN lane ELSE Told(f[n - 1], chs[n])]
  <2>1. ASSUME NEW n \in 0 .. N, n # 0 PROVE f[n] = Told(f[n - 1], chs[n])
    <3>1. n \in 1 .. N /\ n - 1 \in 0 .. N
      BY <1>1, <2>1
    <3>2. f[n - 1] \in Lanes
      BY <1>4, <3>1
    <3> QED BY <1>4, <3>1, <3>2 DEF G, LoopOf
  <2> QED BY <1>4, <2>1 DEF LoopOf
<1>6. PICK h : /\ h = [n \in 0 .. N |-> IF n = 0 THEN lane ELSE Told(h[n - 1], chs[n])]
               /\ Closed(chs) = h[N]
  BY <1>5 DEF Closed
<1>7. h[0] = lane /\ \A n \in 1 .. N : h[n] = Told(h[n - 1], chs[n])
  BY <1>1, <1>6
<1> QED BY <1>6, <1>7

(* Finish and detach_connection: closing channels keeps the lanes in order   *)
(* and every other channel open.                                             *)
LEMMA ClosedWorks ==
    ASSUME lane \in Lanes, AllInOrder(lane), NEW chs \in Seq(Channels), NEW ms, ms = Closed(chs)
    PROVE  /\ ms \in Lanes /\ AllInOrder(ms)
           /\ \A d \in Clients : \A id :
                OpenTo(lane, d, id) /\ (\A ch \in ToSet(chs) : ch.id # id) => OpenTo(ms, d, id)
           /\ \A x, id : Announced(ms, x, id) => Announced(lane, x, id)
<1> DEFINE N == Len(chs)
           Kept(ls) == \A d \in Clients : \A id :
                OpenTo(lane, d, id) /\ (\A ch \in ToSet(chs) : ch.id # id) => OpenTo(ls, d, id)
           Quiet(ls) == \A x, id : Announced(ls, x, id) => Announced(lane, x, id)
           Good(ls) == ls \in Lanes /\ AllInOrder(ls) /\ Kept(ls) /\ Quiet(ls)
<1>1. N \in Nat /\ \A n \in 1 .. N : chs[n] \in Channels /\ chs[n] \in ToSet(chs)
  BY DEF ToSet
<1>2. ASSUME NEW ls, Good(ls), NEW ch \in Channels, ch \in ToSet(chs) PROVE Good(Told(ls, ch))
  <2>1. CASE ~ch.opened
    BY <1>2, <2>1 DEF Told
  <2>2. CASE ch.opened
    <3> DEFINE f == CloseFrame(ch)
               ns == SendPriority(ls, ch.client, f)
    <3>1. f \in Frames /\ ch.client \in Clients /\ Told(ls, ch) = ns
      BY <2>2, FramesOfChannel DEF Told
    <3>2. f.kind = "close" /\ f.id = ch.id
      BY DEF CloseFrame
    <3>3. ~Control(f, ch.id, "open") /\ \A id : ~Control(f, id, "open") /\ (Control(f, id, "close") => id = ch.id)
      BY <3>2 DEF Control
    <3>4. f.kind # "data"
      BY <3>2
    <3> HIDE DEF f
    <3>5. /\ ns \in Lanes /\ AllInOrder(ns)
          /\ \A d \in Clients : \A id :
                OpenTo(ls, d, id) /\ ~Control(f, id, "close") => OpenTo(ns, d, id)
          /\ \A x, id : Announced(ns, x, id) =>
                Announced(ls, x, id) \/ (Control(f, id, "open") /\ f.app = x)
      BY <1>2, <3>1, <3>4, SentInOrder
    <3> HIDE DEF ns
    <3>6. Kept(ns)
      BY <1>2, <3>3, <3>5
    <3>7. Quiet(ns)
      BY <1>2, <3>3, <3>5
    <3> QED BY <3>1, <3>5, <3>6, <3>7
  <2> QED BY <2>1, <2>2, FramesOfChannel
<1>3. PICK f : /\ f[0] = lane /\ Closed(chs) = f[N]
               /\ \A n \in 1 .. N : f[n] = Told(f[n - 1], chs[n])
  BY ClosedUnfolds
<1> DEFINE T == {n \in 0 .. N : Good(f[n])}
<1>4. Good(lane)
  OBVIOUS
<1> HIDE DEF Good
<1>5. 0 \in T
  BY <1>1, <1>3, <1>4
<1>6. ASSUME NEW n \in 0 .. N - 1, n \in T PROVE n + 1 \in T
  <2>1. n + 1 \in 1 .. N /\ n + 1 \in 0 .. N /\ (n + 1) - 1 = n
    BY <1>1
  <2> QED BY <1>1, <1>2, <1>3, <1>6, <2>1
<1>7. Good(f[N])
  <2> HIDE DEF T
  <2>1. \A n \in 0 .. N : n \in T
    BY <1>1, <1>5, <1>6, CountingUp
  <2>2. N \in T
    BY <1>1, <2>1
  <2> QED BY <2>2 DEF T
<1> QED BY <1>3, <1>7 DEF Good

Servings == [lane : Lanes, kept : Seq(Channels)]

(* What a list becomes when one of its channels is served.                   *)
LEMMA ServedTyped ==
    ASSUME NEW s \in Servings, NEW ch \in Channels, NEW src \in Nat
    PROVE  Served(s, ch, src) \in Servings
<1>1. s.lane \in Lanes /\ s.kept \in Seq(Channels)
  BY DEF Servings
<1>2. [ch EXCEPT !.opened = TRUE] \in Channels
  BY DEF Channels
<1>3. ch.client \in Clients /\ OpenFrame(ch) \in Frames /\ DataFrame(ch, src) \in Frames
  BY FramesOfChannel
<1>4. SendPriority(s.lane, ch.client, OpenFrame(ch)) \in Lanes
  BY <1>1, <1>3, Sent
<1>5. Shipped(ch, s.lane, src) \in Lanes
  BY <1>1, <1>3, <1>4, Sent DEF Shipped
<1>6. Append(s.kept, [ch EXCEPT !.opened = TRUE]) \in Seq(Channels)
  BY <1>1, <1>2
<1> QED BY <1>5, <1>6 DEF Served, Servings

(* FanOut is the last value of its loop.                                     *)
LEMMA FanOutUnfolds ==
    ASSUME lane \in Lanes, NEW chs \in Seq(Channels), NEW src \in Nat
    PROVE  \E f : /\ f[0] = [lane |-> lane, kept |-> <<>>] /\ FanOut(chs, src) = f[Len(chs)]
                  /\ \A n \in 1 .. Len(chs) : f[n] = Served(f[n - 1], chs[n], src)
<1> DEFINE N == Len(chs)
           b == [lane |-> lane, kept |-> <<>>]
           G == [n \in 1 .. N |-> [w \in Servings |-> Served(w, chs[n], src)]]
<1>1. N \in Nat /\ \A n \in 1 .. N : chs[n] \in Channels
  OBVIOUS
<1>2. b \in Servings
  BY DEF Servings
<1>3. G \in Loops(Servings, N)
  BY <1>1, ServedTyped DEF Loops
<1>4. ASSUME NEW f, f = [n \in 0 .. N |-> IF n = 0 THEN b ELSE Served(f[n - 1], chs[n], src)]
      PROVE  \E h : /\ h = [n \in 0 .. N |-> IF n = 0 THEN b ELSE Served(h[n - 1], chs[n], src)]
                    /\ FanOut(chs, src) = h[N]
  BY <1>4 DEF FanOut
<1> SUFFICES \E f : /\ f[0] = b /\ FanOut(chs, src) = f[N]
                    /\ \A n \in 1 .. N : f[n] = Served(f[n - 1], chs[n], src)
  OBVIOUS
<1> HIDE DEF G, b
<1>5. PICK f \in [0 .. N -> Servings] : LoopOf(f, N, b, G)
  BY <1>1, <1>2, <1>3, RecursionExists DEF Runs
<1>6. f = [n \in 0 .. N |-> IF n = 0 THEN b ELSE Served(f[n - 1], chs[n], src)]
  <2>1. ASSUME NEW n \in 0 .. N, n # 0 PROVE f[n] = Served(f[n - 1], chs[n], src)
    <3>1. n \in 1 .. N /\ n - 1 \in 0 .. N
      BY <1>1, <2>1
    <3>2. f[n - 1] \in Servings
      BY <1>5, <3>1
    <3> QED BY <1>5, <3>1, <3>2 DEF G, LoopOf
  <2> QED BY <1>5, <2>1 DEF LoopOf
<1>7. PICK h : /\ h = [n \in 0 .. N |-> IF n = 0 THEN b ELSE Served(h[n - 1], chs[n], src)]
               /\ FanOut(chs, src) = h[N]
  BY <1>4, <1>6
<1>8. h[0] = b /\ \A n \in 1 .. N : h[n] = Served(h[n - 1], chs[n], src)
  BY <1>1, <1>7
<1> QED BY <1>7, <1>8

(* A channel as it is kept after a packet.                                   *)
LEMMA OpenedChannel ==
    ASSUME NEW ch \in Channels
    PROVE  LET e == [ch EXCEPT !.opened = TRUE]
           IN  /\ e \in Channels /\ e.id = ch.id /\ e.app = ch.app /\ e.client = ch.client
               /\ e.opened
BY DEF Channels

(* ship: a channel that is not dead gets its open first, and only then data. *)
LEMMA ShippedWorks ==
    ASSUME NEW ls \in Lanes, AllInOrder(ls), NEW ch \in Channels, NEW src \in Nat,
           ch.opened => OpenTo(ls, ch.client, ch.id), ~Dead(ch, ls),
           NEW ms, ms = Shipped(ch, ls, src)
    PROVE  /\ ms \in Lanes /\ AllInOrder(ms) /\ OpenTo(ms, ch.client, ch.id)
           /\ \A d \in Clients : \A id : OpenTo(ls, d, id) => OpenTo(ms, d, id)
           /\ \A x, id : Announced(ms, x, id) => Announced(ls, x, id) \/ (ch.id = id /\ ch.app = x)
<1> DEFINE c == ch.client
           o == OpenFrame(ch)
           f == DataFrame(ch, src)
           ns == IF ch.opened THEN ls ELSE SendPriority(ls, c, o)
<1>1. c \in Clients /\ o \in Frames /\ f \in Frames /\ ch.opened \in BOOLEAN
  BY FramesOfChannel
<1>2. /\ o.kind = "open" /\ o.id = ch.id /\ o.app = ch.app /\ f.kind = "data" /\ f.id = ch.id
      /\ \A id : ~Control(o, id, "close") /\ ~Control(f, id, "close") /\ ~Control(f, id, "open")
      /\ \A id : Control(o, id, "open") => id = ch.id
  BY DEF OpenFrame, DataFrame, Control
<1>3. ms = SendPriority(ns, c, f)
  BY DEF Shipped
<1> HIDE DEF o, f
<1>4. /\ ns \in Lanes /\ AllInOrder(ns) /\ OpenTo(ns, c, ch.id)
      /\ \A d \in Clients : \A id : OpenTo(ls, d, id) => OpenTo(ns, d, id)
      /\ \A x, id : Announced(ns, x, id) => Announced(ls, x, id) \/ (ch.id = id /\ ch.app = x)
  <2>1. CASE ch.opened
    BY <2>1
  <2>2. CASE ~ch.opened
    <3>1. Fits(ls, c) /\ ns = SendPriority(ls, c, o) /\ o.kind # "data"
      BY <1>2, <2>2 DEF Dead
    <3> HIDE DEF ns
    <3>2. /\ ns \in Lanes /\ AllInOrder(ns) /\ OpenTo(ns, c, o.id)
          /\ \A d \in Clients : \A id :
               OpenTo(ls, d, id) /\ ~Control(o, id, "close") => OpenTo(ns, d, id)
          /\ \A x, id : Announced(ns, x, id) =>
                Announced(ls, x, id) \/ (Control(o, id, "open") /\ o.app = x)
      BY <1>1, <1>2, <3>1, SentInOrder
    <3> QED BY <1>2, <3>2
  <2> QED BY <1>1, <2>1, <2>2
<1> HIDE DEF ns, c
<1>5. f.kind = "data" => OpenTo(ns, c, f.id)
  BY <1>2, <1>4
<1>6. /\ ms \in Lanes /\ AllInOrder(ms)
      /\ \A d \in Clients : \A id :
            OpenTo(ns, d, id) /\ ~Control(f, id, "close") => OpenTo(ms, d, id)
      /\ \A x, id : Announced(ms, x, id) =>
            Announced(ns, x, id) \/ (Control(f, id, "open") /\ f.app = x)
  BY <1>1, <1>3, <1>4, <1>5, SentInOrder
<1>7. OpenTo(ms, ch.client, ch.id)
  BY <1>1, <1>2, <1>4, <1>6 DEF c
<1> QED BY <1>2, <1>4, <1>6, <1>7

(* fan_out: what is kept of a list is open to its clients, nothing else is   *)
(* closed, and only the list's own channels are announced.                   *)
LEMMA FanOutWorks ==
    ASSUME lane \in Lanes, AllInOrder(lane), NEW chs \in Seq(Channels), NEW src \in Nat,
           \A ch \in ToSet(chs) : ch.opened => OpenTo(lane, ch.client, ch.id),
           NEW out, out = FanOut(chs, src)
    PROVE  /\ out.lane \in Lanes /\ AllInOrder(out.lane) /\ out.kept \in Seq(Channels)
           /\ \A e \in ToSet(out.kept) :
                /\ e.opened /\ OpenTo(out.lane, e.client, e.id)
                /\ \E ch \in ToSet(chs) : ch.id = e.id /\ ch.app = e.app
           /\ \A d \in Clients : \A id : OpenTo(lane, d, id) => OpenTo(out.lane, d, id)
           /\ \A x, id : Announced(out.lane, x, id) =>
                Announced(lane, x, id) \/ \E ch \in ToSet(chs) : ch.id = id /\ ch.app = x
<1> DEFINE N == Len(chs)
           Told1(ls) == \A x, id : Announced(ls, x, id) =>
                Announced(lane, x, id) \/ \E ch \in ToSet(chs) : ch.id = id /\ ch.app = x
           Opened1(s) == \A i \in 1 .. Len(s.kept) :
                /\ s.kept[i].opened /\ OpenTo(s.lane, s.kept[i].client, s.kept[i].id)
                /\ \E ch \in ToSet(chs) : ch.id = s.kept[i].id /\ ch.app = s.kept[i].app
           Kept1(ls) == \A d \in Clients : \A id : OpenTo(lane, d, id) => OpenTo(ls, d, id)
           Good(s) == /\ s.lane \in Lanes /\ AllInOrder(s.lane) /\ s.kept \in Seq(Channels)
                      /\ Opened1(s) /\ Kept1(s.lane) /\ Told1(s.lane)
<1>1. N \in Nat /\ \A n \in 1 .. N : chs[n] \in Channels /\ chs[n] \in ToSet(chs)
  BY DEF ToSet
<1>2. ASSUME NEW s, Good(s), NEW ch \in Channels, ch \in ToSet(chs) PROVE Good(Served(s, ch, src))
  <2>1. CASE Dead(ch, s.lane)
    BY <1>2, <2>1 DEF Served
  <2>2. CASE ~Dead(ch, s.lane)
    <3> DEFINE e == [ch EXCEPT !.opened = TRUE]
               ms == Shipped(ch, s.lane, src)
               t == Served(s, ch, src)
    <3>0. ch.client \in Clients
      BY FramesOfChannel
    <3>1. t.lane = ms /\ t.kept = Append(s.kept, e)
      BY <2>2 DEF Served
    <3>2. e \in Channels /\ e.id = ch.id /\ e.app = ch.app /\ e.client = ch.client /\ e.opened
      BY OpenedChannel
    <3>3. ch.opened => OpenTo(s.lane, ch.client, ch.id)
      BY <1>2, <3>0
    <3>4. /\ ms \in Lanes /\ AllInOrder(ms) /\ OpenTo(ms, ch.client, ch.id)
          /\ \A d \in Clients : \A id : OpenTo(s.lane, d, id) => OpenTo(ms, d, id)
          /\ \A x, id : Announced(ms, x, id) =>
                Announced(s.lane, x, id) \/ (ch.id = id /\ ch.app = x)
      BY <1>2, <2>2, <3>3, ShippedWorks
    <3> HIDE DEF e, ms, t
    <3>5. Kept1(t.lane) /\ Told1(t.lane)
      BY <1>2, <3>1, <3>4
    <3>6. Opened1(t)
      <4> SUFFICES ASSUME NEW i \in 1 .. Len(t.kept)
                   PROVE  /\ t.kept[i].opened /\ OpenTo(t.lane, t.kept[i].client, t.kept[i].id)
                          /\ \E k \in ToSet(chs) : k.id = t.kept[i].id /\ k.app = t.kept[i].app
        OBVIOUS
      <4>1. t.kept[i] = e \/ (i \in 1 .. Len(s.kept) /\ t.kept[i] = s.kept[i])
        BY <1>2, <3>1, <3>2
      <4>2. CASE t.kept[i] = e
        BY <1>2, <3>1, <3>2, <3>4, <4>2
      <4>3. CASE i \in 1 .. Len(s.kept) /\ t.kept[i] = s.kept[i]
        <5>1. s.kept[i] \in Channels
          BY <1>2, <4>3
        <5>2. s.kept[i].client \in Clients
          BY <5>1, FramesOfChannel
        <5> QED BY <1>2, <3>1, <3>4, <4>3, <5>2
      <4> QED BY <4>1, <4>2, <4>3
    <3>7. t.lane \in Lanes /\ AllInOrder(t.lane) /\ t.kept \in Seq(Channels)
      BY <1>2, <3>1, <3>2, <3>4
    <3> QED BY <3>5, <3>6, <3>7 DEF t
  <2> QED BY <2>1, <2>2
<1>3. PICK f : /\ f[0] = [lane |-> lane, kept |-> <<>>] /\ FanOut(chs, src) = f[N]
               /\ \A n \in 1 .. N : f[n] = Served(f[n - 1], chs[n], src)
  BY FanOutUnfolds
<1> DEFINE T == {n \in 0 .. N : Good(f[n])}
<1>4. Good(f[0])
  BY <1>3
<1>7. Good(f[N]) => Good(out) /\ \A e \in ToSet(out.kept) : \E i \in 1 .. Len(out.kept) : e = out.kept[i]
  BY <1>3 DEF ToSet
<1> SUFFICES Good(f[N])
  BY <1>7
<1> HIDE DEF Good
<1>5. 0 \in T
  BY <1>1, <1>3, <1>4
<1>6. ASSUME NEW n \in 0 .. N - 1, n \in T PROVE n + 1 \in T
  <2>1. n + 1 \in 1 .. N /\ n + 1 \in 0 .. N /\ (n + 1) - 1 = n
    BY <1>1
  <2> QED BY <1>1, <1>2, <1>3, <1>6, <2>1
<1>8. \A n \in 0 .. N : n \in T
  <2> HIDE DEF T
  <2> QED BY <1>1, <1>5, <1>6, CountingUp
<1> QED BY <1>1, <1>8

(* What FlattenSeq collects comes from the sequences it flattens.            *)
LEMMA FlattenElements ==
    ASSUME NEW S, NEW ss \in Seq(Seq(S))
    PROVE  /\ FlattenSeq(ss) \in Seq(S)
           /\ \A e \in ToSet(FlattenSeq(ss)) : \E j \in 1 .. Len(ss) : e \in ToSet(ss[j])
<1> DEFINE M == Len(ss)
           W == Seq(S)
           Cat(a, b) == a \o b
<1>1. CASE ss = <<>>
  BY <1>1 DEF FlattenSeq, ToSet
<1>2. CASE ss # <<>>
  <2>1. M \in Nat \ {0} /\ \A i \in 1 .. M : ss[i] \in W
    BY <1>2
  <2>2. \A a, b \in W : Cat(a, b) \in W
    OBVIOUS
  <2>3. ASSUME NEW f, f = [i \in 1 .. M |-> IF i = 1 THEN ss[i] ELSE Cat(f[i - 1], ss[i])]
        PROVE  \E h : /\ h = [i \in 1 .. M |-> IF i = 1 THEN ss[i] ELSE Cat(h[i - 1], ss[i])]
                      /\ FlattenSeq(ss) = h[M]
    BY <2>1, <2>3 DEF FlattenSeq
  <2>4. ASSUME NEW a \in W, NEW b \in W
        PROVE  \A e \in ToSet(Cat(a, b)) : e \in ToSet(a) \/ e \in ToSet(b)
    <3> SUFFICES ASSUME NEW i \in 1 .. Len(a \o b)
                 PROVE  (a \o b)[i] \in ToSet(a) \/ (a \o b)[i] \in ToSet(b)
      BY <2>2 DEF ToSet
    <3>1. CASE i <= Len(a)
      BY <3>1 DEF ToSet
    <3>2. CASE ~(i <= Len(a))
      <4>1. i - Len(a) \in 1 .. Len(b) /\ (a \o b)[i] = b[i - Len(a)]
        BY <3>2
      <4> QED BY <4>1 DEF ToSet
    <3> QED BY <3>1, <3>2
  <2> HIDE DEF W, Cat, M
  <2> DEFINE N == M - 1
             G == [n \in 1 .. N |-> [w \in W |-> Cat(w, ss[n + 1])]]
  <2>5. /\ N \in Nat /\ N + 1 = M /\ ss[1] \in W
        /\ \A n \in 1 .. N : n + 1 \in 1 .. M /\ ss[n + 1] \in W
    BY <2>1
  <2>6. G \in Loops(W, N)
    BY <2>2, <2>5 DEF Loops
  <2> HIDE DEF N, G
  <2>7. PICK f \in [0 .. N -> W] : LoopOf(f, N, ss[1], G)
    BY <2>5, <2>6, RecursionExists DEF Runs
  <2> DEFINE g == [i \in 1 .. M |-> f[i - 1]]
  <2>8. \A i \in 1 .. M : g[i] = IF i = 1 THEN ss[i] ELSE Cat(g[i - 1], ss[i])
    <3> SUFFICES ASSUME NEW i \in 1 .. M
                 PROVE  f[i - 1] = IF i = 1 THEN ss[i] ELSE Cat(f[(i - 1) - 1], ss[i])
      BY <2>5
    <3>1. CASE i = 1
      BY <2>7, <3>1 DEF LoopOf
    <3>2. CASE i # 1
      <4>1. i - 1 \in 1 .. N /\ (i - 1) - 1 \in 0 .. N /\ (i - 1) + 1 = i
        BY <2>5, <3>2
      <4>2. f[(i - 1) - 1] \in W
        BY <2>7, <4>1
      <4> QED BY <2>7, <3>2, <4>1, <4>2 DEF LoopOf, G
    <3> QED BY <3>1, <3>2
  <2>9. g = [i \in 1 .. M |-> IF i = 1 THEN ss[i] ELSE Cat(g[i - 1], ss[i])]
    BY <2>8
  <2>10. PICK h : /\ h = [i \in 1 .. M |-> IF i = 1 THEN ss[i] ELSE Cat(h[i - 1], ss[i])]
                  /\ FlattenSeq(ss) = h[M]
    <3> HIDE DEF g
    <3> QED BY <2>3, <2>9
  <2> DEFINE From(s) == \A e \in ToSet(s) : \E j \in 1 .. M : e \in ToSet(ss[j])
             Good(s) == s \in W /\ From(s)
             T == {n \in 0 .. N : Good(h[n + 1])}
  <2>11. 0 \in T
    <3>1. 1 \in 1 .. M /\ 0 \in 0 .. N /\ 0 + 1 = 1
      BY <2>1, <2>5
    <3>2. h[1] = ss[1]
      BY <2>10, <3>1
    <3>3. Good(h[1])
      BY <2>5, <3>1, <3>2
    <3> QED BY <3>1, <3>3
  <2>12. ASSUME NEW n \in 0 .. N - 1, n \in T PROVE n + 1 \in T
    <3>1. /\ n + 1 \in 1 .. M /\ n + 1 \in 0 .. N /\ (n + 1) + 1 \in 1 .. M /\ (n + 1) + 1 # 1
          /\ ((n + 1) + 1) - 1 = n + 1
      BY <2>5
    <3> DEFINE a == h[n + 1]
               b == ss[(n + 1) + 1]
    <3>2. h[(n + 1) + 1] = Cat(a, b)
      BY <2>10, <3>1
    <3>3. Good(a) /\ b \in W
      BY <2>1, <2>12, <3>1
    <3>4. Cat(a, b) \in W
      BY <2>2, <3>3
    <3>5. From(Cat(a, b))
      BY <2>4, <3>1, <3>3
    <3> QED BY <3>1, <3>2, <3>4, <3>5
  <2>13. \A n \in 0 .. N : n \in T
    <3> HIDE DEF T
    <3> QED BY <2>5, <2>11, <2>12, CountingUp
  <2>14. Good(h[M])
    <3>1. N \in T
      <4> HIDE DEF T
      <4> QED BY <2>5, <2>13
    <3> QED BY <2>5, <3>1
  <2> QED BY <2>10, <2>14 DEF W, M
<1> QED BY <1>1, <1>2

(* What a filter keeps are channels of the list that meet its condition.     *)
LEMMA RetainedWorks ==
    ASSUME NEW chs \in Seq(Channels), NEW P \in [Channels -> BOOLEAN], NEW kept,
           kept = FlattenSeq([i \in 1 .. Len(chs) |-> IF P[chs[i]] THEN <<chs[i]>> ELSE <<>>])
    PROVE  kept \in Seq(Channels) /\ \A e \in ToSet(kept) : e \in ToSet(chs) /\ P[e]
<1> DEFINE ps == [i \in 1 .. Len(chs) |-> IF P[chs[i]] THEN <<chs[i]>> ELSE <<>>]
<1>1. \A i \in 1 .. Len(chs) : chs[i] \in Channels /\ chs[i] \in ToSet(chs)
  BY DEF ToSet
<1>2. ps \in Seq(Seq(Channels)) /\ Len(ps) = Len(chs)
  <2>1. \A i \in 1 .. Len(chs) : (IF P[chs[i]] THEN <<chs[i]>> ELSE <<>>) \in Seq(Channels)
    BY <1>1
  <2> QED BY <2>1
<1>3. \A j \in 1 .. Len(chs) : \A e \in ToSet(ps[j]) : e = chs[j] /\ P[e]
  BY DEF ToSet
<1> HIDE DEF ps
<1>4. kept \in Seq(Channels) /\ \A e \in ToSet(kept) : \E j \in 1 .. Len(ps) : e \in ToSet(ps[j])
  <2>1. kept = FlattenSeq(ps)
    BY DEF ps
  <2> QED BY <1>2, <2>1, FlattenElements
<1> QED BY <1>1, <1>2, <1>3, <1>4

-----------------------------------------------------------------------------
(* Applications                                                              *)

\* A way up the process tree: whatever has a successor on it was readable.
Chains == {c \in Seq(Nat) : c # <<>> /\ \A i \in 1 .. Len(c) - 1 : c[i] \in Apps}

(* Every turn of the walk leaves a chain of readable processes.              *)
LEMMA WalkOnChains ==
    ASSUME NEW c \in Chains
    PROVE  WalkOn(c) \in Chains
<1> DEFINE last == c[Len(c)]
           next == IF last \in DOMAIN Parent THEN Parent[last] ELSE 0
<1>1. c \in Seq(Nat) /\ Len(c) \in Nat \ {0} /\ \A i \in 1 .. Len(c) - 1 : c[i] \in Apps
  BY DEF Chains
<1>2. next \in Nat /\ (next # 0 => last \in Apps)
  BY TableAssumption DEF Apps
<1>3. WalkOn(c) = c \/ (next # 0 /\ WalkOn(c) = Append(c, next))
  BY DEF WalkOn
<1> HIDE DEF next
<1>4. CASE next # 0 /\ WalkOn(c) = Append(c, next)
  <2>1. Append(c, next) \in Seq(Nat) /\ Append(c, next) # <<>> /\ Len(Append(c, next)) = Len(c) + 1
    BY <1>1, <1>2
  <2>2. ASSUME NEW i \in 1 .. Len(c) PROVE Append(c, next)[i] \in Apps
    <3>1. Append(c, next)[i] = c[i] /\ (i # Len(c) => i \in 1 .. Len(c) - 1)
      BY <1>1, <1>2
    <3> QED BY <1>1, <1>2, <1>4, <3>1
  <2>3. (Len(c) + 1) - 1 = Len(c)
    BY <1>1
  <2> QED BY <1>4, <2>1, <2>2, <2>3 DEF Chains
<1> QED BY <1>3, <1>4

(* ProcessTree::of: the ancestors of a process are a way up the tree.        *)
LEMMA AncestryChains ==
    ASSUME NEW pid \in Nat
    PROVE  Ancestry(pid) \in Chains
<1> DEFINE N == MaxDepth - 1
           G == [n \in 1 .. N |-> [w \in Chains |-> WalkOn(w)]]
           turn == [chain \in Seq(Nat) |-> WalkOn(chain)]
<1>0. \A w \in Chains : turn[w] = WalkOn(w)
  BY DEF Chains
<1>1. N \in Nat /\ <<pid>> \in Chains
  BY DEF MaxDepth, Chains
<1>2. ASSUME NEW f, f = [n \in 0 .. N |-> IF n = 0 THEN <<pid>> ELSE turn[f[n - 1]]]
      PROVE  \E h : /\ h = [n \in 0 .. N |-> IF n = 0 THEN <<pid>> ELSE turn[h[n - 1]]]
                    /\ Ancestry(pid) = h[N]
  BY <1>2 DEF Ancestry
<1>3. G \in Loops(Chains, N)
  BY WalkOnChains DEF Loops
<1> HIDE DEF N, G, turn
<1>4. PICK f \in [0 .. N -> Chains] : LoopOf(f, N, <<pid>>, G)
  BY <1>1, <1>3, RecursionExists DEF Runs
<1>5. f = [n \in 0 .. N |-> IF n = 0 THEN <<pid>> ELSE turn[f[n - 1]]]
  <2>1. ASSUME NEW n \in 0 .. N, n # 0 PROVE f[n] = turn[f[n - 1]]
    <3>1. n \in 1 .. N /\ n - 1 \in 0 .. N
      BY <1>1, <2>1
    <3>2. f[n - 1] \in Chains
      BY <1>4, <3>1
    <3> QED BY <1>0, <1>4, <3>1, <3>2 DEF G, LoopOf
  <2> QED BY <1>4, <2>1 DEF LoopOf
<1>6. PICK h : /\ h = [n \in 0 .. N |-> IF n = 0 THEN <<pid>> ELSE turn[h[n - 1]]]
               /\ Ancestry(pid) = h[N]
  BY <1>2, <1>5
<1> DEFINE T == {n \in 0 .. N : h[n] \in Chains}
<1>7. 0 \in T
  BY <1>1, <1>6
<1>8. ASSUME NEW n \in 0 .. N - 1, n \in T PROVE n + 1 \in T
  <2>1. n + 1 \in 0 .. N /\ n + 1 # 0 /\ (n + 1) - 1 = n
    BY <1>1
  <2>2. h[n + 1] = WalkOn(h[n])
    BY <1>0, <1>6, <1>8, <2>1
  <2> QED BY <1>8, <2>1, <2>2, WalkOnChains
<1>9. \A n \in 0 .. N : n \in T
  <2> HIDE DEF T
  <2> QED BY <1>1, <1>7, <1>8, CountingUp
<1> QED BY <1>1, <1>6, <1>9

(* application_root: an application is named by a process that can be read.  *)
LEMMA RootReadable ==
    ASSUME NEW pid \in Nat
    PROVE  ApplicationRoot(pid) \in Apps \cup {NoApp}
<1> DEFINE chain == Ancestry(pid)
           ats == LeadersOn(chain)
           at == SessionLeader(chain)
<1>1. chain \in Seq(Nat) /\ \A i \in 1 .. Len(chain) - 1 : chain[i] \in Apps
  BY AncestryChains DEF Chains
<1>2. ats \in SUBSET Nat /\ \A i \in ats : i \in 1 .. Len(chain) /\ chain[i] \in Apps
  BY <1>1, TableAssumption DEF LeadersOn, Apps
<1>3. CASE pid = 0 \/ ats = {}
  BY <1>3 DEF ApplicationRoot
<1>4. CASE ~(pid = 0 \/ ats = {})
  <2> HIDE DEF ats, chain
  <2>1. \E i \in ats : \A j \in ats : i <= j
    BY <1>2, <1>4, LeastNumber
  <2>2. at \in ats
    BY <2>1 DEF SessionLeader, ats, chain
  <2>3. at \in 1 .. Len(chain) /\ chain[at] \in Apps
    BY <1>2, <2>2
  <2>4. at # 1 => at - 1 \in 1 .. Len(chain) - 1
    BY <1>1, <2>3
  <2>5. at # 1 => ChildBelow(chain, at) \in Apps
    BY <1>1, <2>4 DEF ChildBelow
  <2>6. \/ ApplicationRoot(pid) = chain[at] \/ (at # 1 /\ ApplicationRoot(pid) = ChildBelow(chain, at))
    BY <1>4 DEF ApplicationRoot, chain, ats
  <2> QED BY <2>3, <2>5, <2>6
<1> QED BY <1>3, <1>4

(* register: the connection joins the application of its process, or founds  *)
(* it; nobody else moves.                                                    *)
LEMMA RegisterHome ==
    ASSUME NEW r, NEW pid, Home(r, pid), NEW x \in Conns, x \in DOMAIN pid, pid[x] \in Nat
    PROVE  Home(Register(r, x, pid[x]), pid)
<1> DEFINE root == ApplicationRoot(pid[x])
           found == FindApplication(r, root)
           at == IF found = {} THEN Len(r.apps) + 1 ELSE CHOOSE i \in found : \A j \in found : i <= j
           apps == IF found = {} THEN Append(r.apps, [root |-> root, conns |-> {}]) ELSE r.apps
           new == [apps EXCEPT ![at].conns = @ \cup {x}]
           owner == [y \in DOMAIN r.owner \cup {x} |-> IF y = x THEN at ELSE r.owner[y]]
<1>1. CASE root = NoApp
  BY <1>1 DEF Register
<1>2. CASE root # NoApp
  <2>1. root \in Nat
    BY RootReadable, TableAssumption DEF Apps, NoApp
  <2>2. r.apps \in Seq(Entries) /\ Len(r.apps) \in Nat
    BY DEF Home
  <2>3. found \in SUBSET Nat /\ \A i \in found : i \in 1 .. Len(r.apps) /\ r.apps[i].root = root
    BY <2>2 DEF FindApplication
  <2>4. found # {} => at \in found
    <3> HIDE DEF found
    <3>1. ASSUME found # {} PROVE at \in found
      <4>1. \E i \in found : \A j \in found : i <= j
        BY <2>3, <3>1, LeastNumber
      <4> QED BY <3>1, <4>1
    <3> QED BY <3>1
  <2>5. /\ apps \in Seq(Entries) /\ at \in 1 .. Len(apps) /\ apps[at].root = root
        /\ Len(r.apps) <= Len(apps) /\ \A i \in 1 .. Len(r.apps) : apps[i] = r.apps[i]
    <3>1. CASE found = {}
      <4>1. [root |-> root, conns |-> {}] \in Entries
        BY <2>1 DEF Entries
      <4> HIDE DEF root
      <4> QED BY <2>2, <3>1, <4>1
    <3>2. CASE found # {}
      <4>1. apps = r.apps
        BY <3>2
      <4> HIDE DEF found, at, apps, root
      <4>2. at \in found
        BY <2>4, <3>2
      <4>3. at \in 1 .. Len(apps) /\ apps[at].root = root
        BY <2>3, <4>1, <4>2
      <4>4. Len(r.apps) <= Len(apps)
        BY <2>2, <4>1
      <4> QED BY <2>2, <4>1, <4>3, <4>4
    <3> QED BY <3>1, <3>2
  <2>6. Register(r, x, pid[x]) = [apps |-> new, owner |-> owner]
    BY <1>2 DEF Register
  <2>7. at \in Nat /\ \A i \in 1 .. Len(apps) : apps[i] \in Entries
    BY <2>5
  <2> HIDE DEF found, at, apps, root
  <2>8. /\ new \in Seq(Entries) /\ Len(new) = Len(apps)
        /\ \A i \in 1 .. Len(apps) : /\ new[i].root = apps[i].root
                                     /\ apps[i].conns \subseteq new[i].conns
                                     /\ (i = at => x \in new[i].conns)
    <3>1. apps \in [1 .. Len(apps) -> Entries]
      BY <2>5
    <3>2. [apps[at] EXCEPT !.conns = @ \cup {x}] \in Entries
      BY <2>5, <2>7 DEF Entries
    <3>3. new = [i \in 1 .. Len(apps) |->
                    IF i = at THEN [apps[at] EXCEPT !.conns = @ \cup {x}] ELSE apps[i]]
      BY <2>5, <3>1
    <3>4. Len(apps) \in Nat
      BY <2>5
    <3>5. new \in Seq(Entries) /\ Len(new) = Len(apps)
      <4> DEFINE e == [apps[at] EXCEPT !.conns = @ \cup {x}]
      <4> HIDE DEF e, new
      <4>1. new = [i \in 1 .. Len(apps) |-> IF i = at THEN e ELSE apps[i]] /\ e \in Entries
        BY <3>2, <3>3 DEF e
      <4> QED BY <2>7, <3>4, <4>1
    <3>6. ASSUME NEW i \in 1 .. Len(apps)
          PROVE  /\ new[i].root = apps[i].root /\ apps[i].conns \subseteq new[i].conns
                 /\ (i = at => x \in new[i].conns)
      <4>1. CASE i = at
        <5>1. new[i] = [apps[at] EXCEPT !.conns = @ \cup {x}] /\ apps[at] \in Entries
          BY <2>5, <2>7, <3>3, <4>1
        <5> HIDE DEF new
        <5> QED BY <4>1, <5>1 DEF Entries
      <4>2. CASE i # at
        BY <3>3, <4>2
      <4> QED BY <4>1, <4>2
    <3> QED BY <3>5, <3>6
  <2> HIDE DEF new
  <2>9. /\ DOMAIN owner = DOMAIN r.owner \cup {x} /\ owner[x] = at
        /\ \A y \in DOMAIN r.owner : y # x => owner[y] = r.owner[y]
    OBVIOUS
  <2>10. owner \in [DOMAIN owner -> Nat] /\ DOMAIN owner \subseteq DOMAIN pid
    BY <2>7 DEF Home
  <2> HIDE DEF owner
  <2>11. ASSUME NEW y \in DOMAIN owner
         PROVE  /\ owner[y] \in 1 .. Len(new) /\ y \in new[owner[y]].conns
                /\ new[owner[y]].root = ApplicationRoot(pid[y]) /\ ApplicationRoot(pid[y]) # NoApp
    <3>1. CASE y = x
      BY <1>2, <2>5, <2>8, <2>9, <3>1 DEF root
    <3>2. CASE y # x
      <4>1. y \in DOMAIN r.owner /\ owner[y] = r.owner[y]
        BY <2>9, <3>2
      <4>2. /\ owner[y] \in 1 .. Len(r.apps) /\ y \in r.apps[owner[y]].conns
            /\ r.apps[owner[y]].root = ApplicationRoot(pid[y]) /\ ApplicationRoot(pid[y]) # NoApp
        BY <4>1 DEF Home
      <4>3. owner[y] \in 1 .. Len(apps) /\ apps[owner[y]] = r.apps[owner[y]]
        BY <2>2, <2>5, <4>2
      <4> QED BY <2>8, <4>2, <4>3
    <3> QED BY <3>1, <3>2
  <2> QED BY <2>6, <2>8, <2>10, <2>11 DEF Home
<1> QED BY <1>1, <1>2

(* unregister: when an application leaves the list, the later ones move      *)
(* down and their connections follow.                                        *)
LEMMA UnregisterHome ==
    ASSUME NEW r, NEW pid, Home(r, pid), NEW x
    PROVE  Home(Unregister(r, x), pid)
<1> DEFINE at == r.owner[x]
           rest == [y \in DOMAIN r.owner \ {x} |-> r.owner[y]]
           apps == [r.apps EXCEPT ![at].conns = @ \ {x}]
           N == Len(r.apps)
           less == [i \in 1 .. N - 1 |-> apps[IF i < at THEN i ELSE i + 1]]
           down == ShiftedDown(rest, at)
<1>1. CASE x \notin DOMAIN r.owner
  BY <1>1 DEF Unregister
<1>2. CASE x \in DOMAIN r.owner
  <2>1. /\ r.apps \in Seq(Entries) /\ N \in Nat /\ at \in 1 .. N
        /\ \A i \in 1 .. N : r.apps[i] \in Entries
    BY <1>2 DEF Home
  <2>2. [r.apps[at] EXCEPT !.conns = @ \ {x}] \in Entries
    BY <2>1 DEF Entries
  <2>3. apps = [i \in 1 .. N |-> IF i = at THEN [r.apps[at] EXCEPT !.conns = @ \ {x}] ELSE r.apps[i]]
    <3>1. r.apps \in [1 .. N -> Entries]
      BY <2>1
    <3> HIDE DEF at, N
    <3> QED BY <2>1, <3>1
  <2>4. apps \in Seq(Entries) /\ Len(apps) = N
    BY <2>1, <2>2, <2>3
  <2>5. \A i \in 1 .. N : apps[i].root = r.apps[i].root /\ apps[i].conns = r.apps[i].conns \ (IF i = at THEN {x} ELSE {})
    <3> SUFFICES ASSUME NEW i \in 1 .. N
                 PROVE  apps[i].root = r.apps[i].root /\ apps[i].conns = r.apps[i].conns \ (IF i = at THEN {x} ELSE {})
      OBVIOUS
    <3>1. CASE i = at
      <4>1. apps[i] = [r.apps[at] EXCEPT !.conns = @ \ {x}] /\ r.apps[at] \in Entries
        BY <2>1, <2>3, <3>1
      <4> HIDE DEF apps
      <4> QED BY <3>1, <4>1 DEF Entries
    <3>2. CASE i # at
      BY <2>1, <2>3, <3>2
    <3> QED BY <3>1, <3>2
  <2>6. /\ DOMAIN rest = DOMAIN r.owner \ {x} /\ \A y \in DOMAIN rest : rest[y] = r.owner[y]
        /\ rest \in [DOMAIN rest -> Nat]
    BY DEF Home
  <2> HIDE DEF apps, rest, at
  <2>7. ASSUME NEW y \in DOMAIN rest
        PROVE  /\ rest[y] \in 1 .. N /\ y \in apps[rest[y]].conns /\ y \in DOMAIN pid
               /\ apps[rest[y]].root = ApplicationRoot(pid[y]) /\ ApplicationRoot(pid[y]) # NoApp
    <3>1. y \in DOMAIN r.owner /\ y # x /\ rest[y] = r.owner[y]
      BY <2>6
    <3>2. /\ r.owner[y] \in 1 .. N /\ y \in r.apps[r.owner[y]].conns /\ y \in DOMAIN pid
          /\ r.apps[r.owner[y]].root = ApplicationRoot(pid[y]) /\ ApplicationRoot(pid[y]) # NoApp
      BY <3>1 DEF Home
    <3> QED BY <2>5, <3>1, <3>2
  <2>8. CASE apps[at].conns # {}
    <3>1. Unregister(r, x) = [apps |-> apps, owner |-> rest]
      BY <1>2, <2>8 DEF Unregister, apps, rest, at
    <3> QED BY <2>4, <2>6, <2>7, <3>1 DEF Home
  <2>9. CASE apps[at].conns = {}
    <3>1. Unregister(r, x) = [apps |-> less, owner |-> down]
      BY <1>2, <2>4, <2>9 DEF Unregister, apps, rest, at
    <3>2. /\ DOMAIN down = DOMAIN rest
          /\ \A y \in DOMAIN rest : down[y] = IF rest[y] > at THEN rest[y] - 1 ELSE rest[y]
      BY DEF ShiftedDown
    <3>3. \A y \in DOMAIN rest : rest[y] # at
      BY <2>7, <2>9
    <3>4. ASSUME NEW i \in 1 .. N - 1
          PROVE  (IF i < at THEN i ELSE i + 1) \in 1 .. N
      BY <2>1
    <3>5. less \in Seq(Entries) /\ Len(less) = N - 1
      <4>1. \A i \in 1 .. N - 1 : apps[IF i < at THEN i ELSE i + 1] \in Entries
        BY <2>4, <3>4
      <4>2. N - 1 \in Nat
        BY <2>1
      <4> QED BY <4>1, <4>2
    <3>6. ASSUME NEW y \in DOMAIN rest
          PROVE  down[y] \in 1 .. N - 1 /\ less[down[y]] = apps[rest[y]]
      <4>1. rest[y] \in 1 .. N /\ rest[y] # at /\ at \in 1 .. N
        BY <2>1, <2>7, <3>3
      <4>2. /\ down[y] \in 1 .. N - 1
            /\ (IF down[y] < at THEN down[y] ELSE down[y] + 1) = rest[y]
        BY <2>1, <3>2, <4>1
      <4> HIDE DEF down
      <4> QED BY <4>2
    <3> HIDE DEF less, down
    <3>7. down \in [DOMAIN rest -> Nat]
      <4>1. down = [y \in DOMAIN rest |-> down[y]]
        BY <3>2 DEF down, ShiftedDown
      <4>2. \A y \in DOMAIN rest : down[y] \in Nat
        BY <2>1, <3>6
      <4> QED BY <4>1, <4>2
    <3> QED BY <2>7, <3>1, <3>2, <3>5, <3>6, <3>7 DEF Home
  <2> QED BY <2>8, <2>9
<1> QED BY <1>1, <1>2

-----------------------------------------------------------------------------
(* What a step keeps                                                         *)

\* No list gets a channel it did not have.
ListsShrink ==
    \A a \in Lists : \A e \in ChannelsOf(a)' : \E ch \in ChannelsOf(a) : ch.id = e.id /\ ch.app = e.app

\* No connection is met in a new place.
TagsShrink == \A x \in Conns : \A id : Tagged(x, id)' => Tagged(x, id)

(* Lists that only lose channels keep their ids apart.                       *)
LEMMA IdsKeep ==
    ASSUME IInv, ListsShrink, nextId' = nextId
    PROVE  IdsApart'
<1>1. ASSUME NEW a \in Lists, NEW e \in ChannelsOf(a)' PROVE e.id < nextId'
  <2>1. PICK ch \in ChannelsOf(a) : ch.id = e.id
    BY <1>1 DEF ListsShrink
  <2> QED BY <2>1 DEF IInv, IdsApart
<1>2. ASSUME NEW a \in Lists, NEW b \in Lists, NEW s \in ChannelsOf(a)', NEW t \in ChannelsOf(b)',
             s.id = t.id
      PROVE  a = b /\ s.app = t.app
  <2>1. PICK ch \in ChannelsOf(a) : ch.id = s.id /\ ch.app = s.app
    BY <1>2 DEF ListsShrink
  <2>2. PICK k \in ChannelsOf(b) : k.id = t.id /\ k.app = t.app
    BY <1>2 DEF ListsShrink
  <2> QED BY <1>2, <2>1, <2>2 DEF IInv, IdsApart
<1>3. Lists' = Lists
  BY DEF Lists, Apps
<1> QED BY <1>1, <1>2, <1>3 DEF IdsApart

(* So do the tags when no connection meets a new id.                         *)
LEMMA TagsKeep ==
    ASSUME IInv, TagsShrink, events' = events, \A x \in Conns : sock'[x] = "new" <=> sock[x] = "new"
    PROVE  TagsApart'
<1>1. ASSUME NEW x \in Conns, NEW i, NEW j, Tagged(x, i)', Tagged(x, j)' PROVE i = j
  BY <1>1 DEF TagsShrink, IInv, TagsApart
<1>2. ASSUME NEW x \in Conns, sock'[x] = "new", NEW i PROVE ~Tagged(x, i)'
  BY <1>2 DEF TagsShrink, IInv, TagsApart
<1>3. ASSUME NEW c \in Clients, NEW i \in 1 .. Len(events[c]), NEW x \in Conns, Arrives(events[c][i], x)
      PROVE  sock'[x] # "new" /\ \A id : ~Tagged(x, id)'
  BY <1>3 DEF TagsShrink, IInv, TagsApart
<1>4. ASSUME NEW c \in Clients, NEW i \in 1 .. Len(events[c]), NEW x \in Conns, Arrives(events[c][i], x),
             NEW d \in Clients, NEW j \in 1 .. Len(events[d]), Arrives(events[d][j], x)
      PROVE  c = d /\ i = j
  BY <1>4 DEF IInv, TagsApart
<1>5. (\A c \in Clients : \A i \in 1 .. Len(events[c]) : \A x \in Conns : Arrives(events[c][i], x) =>
            /\ sock[x] # "new" /\ \A id : ~Tagged(x, id)
            /\ \A d \in Clients : \A j \in 1 .. Len(events[d]) :
                    Arrives(events[d][j], x) => c = d /\ i = j)'
  <2> SUFFICES ASSUME NEW c \in Clients, NEW i \in 1 .. Len(events[c]), NEW x \in Conns,
                      Arrives(events[c][i], x)
               PROVE  /\ sock'[x] # "new" /\ \A id : ~Tagged(x, id)'
                      /\ \A d \in Clients : \A j \in 1 .. Len(events[d]) :
                            Arrives(events[d][j], x) => c = d /\ i = j
    BY DEF Arrives
  <2> QED BY <1>3, <1>4
<1> QED BY <1>1, <1>2, <1>5 DEF TagsApart

(* And the captures stay with their applications.                            *)
LEMMA CapturesKeep ==
    ASSUME IInv, ListsShrink, config' = config,
           \A a \in Apps : caps'[a].src \in {caps[a].src, 0}
    PROVE  CapturesTrue'
<1>1. ASSUME NEW a \in Apps, NEW e \in ChannelsOf(a)'
      PROVE  e.app \in X11' /\ ApplicationRoot(config'.pid[e.app]) = a
  <2>1. PICK ch \in ChannelsOf(a) : ch.app = e.app
    BY <1>1 DEF ListsShrink, Lists
  <2> QED BY <2>1 DEF IInv, CapturesTrue, X11
<1>2. ASSUME NEW a \in Apps, caps'[a].src # 0
      PROVE  \E node \in config'.nodes :
                IsApplicationOutput(node) /\ node.pid = caps'[a].src /\ ApplicationRoot(node.pid) = a
  BY <1>2 DEF IInv, CapturesTrue
<1>3. Apps' = Apps
  BY DEF Apps
<1> QED BY <1>1, <1>2, <1>3 DEF CapturesTrue

\* The facts about lanes that the lemmas about loops start from.
LEMMA LanesAtHand ==
    ASSUME IInv
    PROVE  /\ lane \in Lanes /\ AllInOrder(lane)
           /\ \A a \in Lists : \A ch \in ChannelsOf(a) : ch.opened => OpenTo(lane, ch.client, ch.id)
           /\ subs \in Seq(Channels) /\ \A a \in Apps : caps[a].chs \in Seq(Channels) /\ caps[a].src \in Nat
           /\ \A a \in Apps : ChannelsOf(a) = ToSet(caps[a].chs)
           /\ ChannelsOf(0) = ToSet(subs) /\ 0 \notin Apps
           /\ \A a \in Lists : \A ch \in ChannelsOf(a) : ch \in Channels
<1>1. lane \in Lanes /\ AllInOrder(lane)
  BY DEF IInv, HubTyped, LanesInOrder, Lanes, AllInOrder
<1>2. \A a \in Lists : \A ch \in ChannelsOf(a) : ch.opened => OpenTo(lane, ch.client, ch.id)
  BY DEF IInv, LanesInOrder, OpenTo
<1>3. subs \in Seq(Channels) /\ \A a \in Apps : caps[a].chs \in Seq(Channels) /\ caps[a].src \in Nat
  BY DEF IInv, HubTyped, Captured
<1>4. 0 \notin Apps
  BY TableAssumption DEF Apps
<1>5. ChannelsOf(0) = ToSet(subs) /\ \A a \in Apps : ChannelsOf(a) = ToSet(caps[a].chs)
  BY <1>4 DEF ChannelsOf
<1>6. \A s \in Seq(Channels) : \A ch \in ToSet(s) : ch \in Channels
  BY DEF ToSet
<1> QED BY <1>1, <1>2, <1>3, <1>4, <1>5, <1>6 DEF Lists

(* After the lanes changed as the loops change them, the channels that are   *)
(* left are open to their clients.                                           *)
LEMMA LanesKeep ==
    ASSUME IInv, lane' \in Lanes, \A c \in Clients : InOrder(lane'[c], known'[c]),
           known' = known,
           \A a \in Lists : \A e \in ChannelsOf(a)' : e.opened => OpenTo(lane', e.client, e.id)
    PROVE  LanesInOrder'
<1>1. Lists' = Lists
  BY DEF Lists, Apps
<1> QED BY <1>1 DEF LanesInOrder, OpenTo

(* A step of the hub that hands out no channel: it keeps the lists, what is  *)
(* under way comes from them, and the clients' side stands still.            *)
LEMMA HubKeeps ==
    ASSUME IInv, UNCHANGED outVars, UNCHANGED <<config, sock, events, registry>>,
           nextId' = nextId, HubTyped', OneRecorder', CapturesTrue',
           ListsShrink, AllInOrder(lane'),
           \A a \in Lists : \A e \in ChannelsOf(a)' : e.opened => OpenTo(lane', e.client, e.id),
           \A x, id : Announced(lane', x, id) =>
                Announced(lane, x, id) \/ \E a \in Lists : \E ch \in ChannelsOf(a) : ch.id = id /\ ch.app = x
    PROVE  IInv'
<1>1. IdsApart'
  BY IdsKeep
<1>2. LanesInOrder'
  <2>1. lane' \in Lanes
    BY DEF HubTyped, Lanes
  <2> QED BY <2>1, LanesKeep DEF outVars, AllInOrder
<1>3. TagsShrink
  <2> SUFFICES ASSUME NEW x \in Conns, NEW id, Tagged(x, id)' PROVE Tagged(x, id)
    BY DEF TagsShrink
  <2>1. CASE \E a \in Lists : \E e \in ChannelsOf(a)' : e.app = x /\ e.id = id
    <3>1. PICK a \in Lists : \E e \in ChannelsOf(a)' : e.app = x /\ e.id = id
      BY <2>1
    <3>2. PICK e \in ChannelsOf(a)' : e.app = x /\ e.id = id
      BY <3>1
    <3>3. PICK ch \in ChannelsOf(a) : ch.id = e.id /\ ch.app = e.app
      BY <3>2 DEF ListsShrink
    <3> QED BY <3>2, <3>3 DEF Tagged
  <2>2. CASE Announced(lane', x, id)
    BY <2>2 DEF Tagged
  <2>3. CASE \E c \in Clients : \E out \in outlets'[c] : out.app = x /\ out.id = id
    BY <2>3 DEF Tagged, outVars
  <2>4. Lists' = Lists
    BY DEF Lists, Apps
  <2> QED BY <2>1, <2>2, <2>3, <2>4 DEF Tagged
<1>4. TagsApart'
  BY <1>3, TagsKeep
<1>5. OutTyped'
  BY DEF IInv, OutTyped, outVars, X11
<1>6. Ruled'
  BY DEF IInv, Ruled, Heard, outVars
<1>7. RegistryTrue'
  BY DEF IInv, RegistryTrue
<1> QED BY <1>1, <1>2, <1>4, <1>5, <1>6, <1>7 DEF IInv

(* The same for a step that leaves lists and lanes alone.                    *)
LEMMA QuietKeeps ==
    ASSUME IInv, UNCHANGED outVars, UNCHANGED <<config, sock, events, registry>>,
           UNCHANGED <<lane, subs, nextId>>, \A a \in Apps : caps'[a].chs = caps[a].chs,
           HubTyped', OneRecorder', CapturesTrue'
    PROVE  IInv'
<1>1. \A a \in Lists : ChannelsOf(a)' = ChannelsOf(a)
  BY DEF ChannelsOf, Lists
<1>2. ListsShrink
  BY <1>1 DEF ListsShrink
<1>3. AllInOrder(lane')
  BY LanesAtHand
<1>4. \A a \in Lists : \A e \in ChannelsOf(a)' : e.opened => OpenTo(lane', e.client, e.id)
  BY <1>1, LanesAtHand
<1> QED BY <1>2, <1>3, <1>4, HubKeeps

\* No capture gets a channel or another stream.
LEMMA SameCaptures ==
    ASSUME IInv, config' = config,
           \A a \in Apps : caps'[a].chs = caps[a].chs /\ caps'[a].src = caps[a].src
    PROVE  CapturesTrue'
<1>1. \A a \in Apps : ChannelsOf(a)' = ChannelsOf(a)
  BY TableAssumption DEF ChannelsOf, Apps
<1>2. Apps' = Apps
  BY DEF Apps
<1> QED BY <1>1, <1>2 DEF IInv, CapturesTrue, X11

(* What happens to the recorder and the captures without a packet, and what  *)
(* the links and the streams do.                                             *)
LEMMA SetupEndsKeeps ==
    ASSUME IInv, NEW r \in Recorders, SetupEnds(r) \/ RecorderExits(r), UNCHANGED <<outVars, wireVars>>
    PROVE  IInv'
<1>1. UNCHANGED <<lane, linked, subs, running, caps, lanes, graph, nextId, config, acked>>
  BY DEF SetupEnds, RecorderExits, wireVars
<1>2. recs[r] \in {"setup", "reading"} /\ \E p \in {"reading", "stopping"} : recs' = [recs EXCEPT ![r] = p]
  BY DEF SetupEnds, RecorderExits
<1>3. HubTyped'
  BY <1>1, <1>2 DEF IInv, HubTyped, Apps
<1>4. OneRecorder'
  <2>1. recs \in [Recorders -> {"none", "setup", "reading", "stopping"}]
    BY DEF IInv, HubTyped
  <2>2. recs[r] # "none" /\ recs'[r] \in {"reading", "stopping"} /\ \A q \in Recorders \ {r} : recs'[q] = recs[q]
    BY <1>2, <2>1
  <2>3. OneRecorder
    BY DEF IInv
  <2>4. running
    BY <2>2, <2>3 DEF OneRecorder
  <2>5. \A q \in Recorders \ {r} : recs[q] = "none"
    BY <2>2, <2>3, <2>4 DEF OneRecorder
  <2> QED BY <1>1, <2>2, <2>3, <2>4, <2>5 DEF OneRecorder, Recorders
<1>5. CapturesTrue'
  BY <1>1, SameCaptures DEF wireVars
<1> QED BY <1>1, <1>3, <1>4, <1>5, QuietKeeps DEF wireVars

(* per_app.rs: a capture finds its stream, or its child ends.                *)
LEMMA CaptureEndsKeeps ==
    ASSUME IInv, NEW app \in Apps, CaptureStarts(app) \/ CaptureEnds(app), UNCHANGED <<outVars, wireVars>>
    PROVE  IInv'
<1>1. UNCHANGED <<lane, linked, subs, running, recs, lanes, graph, nextId, config, acked>>
  BY DEF CaptureStarts, CaptureEnds, wireVars
<1>2. caps \in [Apps -> Captured] /\ graph \subseteq config.nodes /\ config \in Configs
  BY DEF IInv, HubTyped
<1>3. PICK k : /\ k \in Captured /\ caps' = [caps EXCEPT ![app] = k] /\ k.chs = caps[app].chs
               /\ \/ k.src = caps[app].src
                  \/ \E node \in StreamsOf(app, graph) : k.src = node.pid
  <2>1. CASE CaptureEnds(app)
    <3> DEFINE m == [caps[app] EXCEPT !.phase = "dead"]
    <3>1. caps' = [caps EXCEPT ![app] = m]
      BY <1>2, <2>1 DEF CaptureEnds
    <3>2. caps[app] \in Captured
      BY <1>2
    <3>3. m \in Captured /\ m.chs = caps[app].chs /\ m.src = caps[app].src
      BY <3>2 DEF Captured
    <3> HIDE DEF m
    <3> QED BY <3>1, <3>3
  <2>2. CASE CaptureStarts(app)
    <3>1. PICK node \in StreamsOf(app, graph) :
            caps' = [caps EXCEPT ![app].phase = "reading", ![app].src = node.pid]
      BY <2>2 DEF CaptureStarts
    <3> DEFINE m == [caps[app] EXCEPT !.phase = "reading", !.src = node.pid]
    <3>2. caps' = [caps EXCEPT ![app] = m]
      BY <1>2, <3>1
    <3>3. node.pid \in Nat
      BY <1>2, <3>1, ConfigAssumption DEF StreamsOf
    <3>4. caps[app] \in Captured
      BY <1>2
    <3>5. m \in Captured /\ m.chs = caps[app].chs /\ m.src = node.pid
      BY <3>3, <3>4 DEF Captured
    <3> HIDE DEF m
    <3> QED BY <3>1, <3>2, <3>5
  <2> QED BY <2>1, <2>2
<1>4. /\ caps' \in [Apps -> Captured] /\ caps'[app] = k
      /\ \A a \in Apps : a # app => caps'[a] = caps[a]
  BY <1>2, <1>3
<1>5. HubTyped'
  BY <1>1, <1>4 DEF IInv, HubTyped, Apps
<1>6. OneRecorder'
  BY <1>1 DEF IInv, OneRecorder, Recorders
<1>7. \A a \in Apps : caps'[a].chs = caps[a].chs
  BY <1>3, <1>4
<1>8. CapturesTrue'
  <2>1. \A a \in Apps : ChannelsOf(a)' = ChannelsOf(a)
    BY <1>7, TableAssumption DEF ChannelsOf, Apps
  <2>2. ASSUME NEW a \in Apps, caps'[a].src # 0
        PROVE  \E node \in config.nodes :
                IsApplicationOutput(node) /\ node.pid = caps'[a].src /\ ApplicationRoot(node.pid) = a
    <3>1. CASE caps'[a].src = caps[a].src
      BY <2>2, <3>1 DEF IInv, CapturesTrue
    <3>2. CASE caps'[a].src # caps[a].src
      <4>1. a = app /\ \E node \in StreamsOf(app, graph) : caps'[a].src = node.pid
        BY <1>3, <1>4, <3>2
      <4> QED BY <1>2, <4>1 DEF StreamsOf
    <3> QED BY <3>1, <3>2
  <2>3. Apps' = Apps
    BY DEF Apps
  <2> QED BY <1>1, <2>1, <2>2, <2>3 DEF IInv, CapturesTrue, X11
<1> QED BY <1>1, <1>5, <1>6, <1>7, <1>8, QuietKeeps DEF wireVars

(* Links, lanes known to the tier, acks and the graph are not in the way.    *)
LEMMA SurroundingsKeep ==
    ASSUME IInv, UNCHANGED outVars, UNCHANGED <<config, sock, events, registry>>,
           UNCHANGED <<lane, subs, running, recs, caps, nextId>>,
           linked' \subseteq Clients, lanes' \subseteq Clients, acked' \subseteq Clients,
           graph' \subseteq config.nodes
    PROVE  IInv'
<1>1. HubTyped'
  BY DEF IInv, HubTyped, Apps
<1>2. OneRecorder'
  BY DEF IInv, OneRecorder, Recorders
<1>3. CapturesTrue'
  BY SameCaptures
<1> QED BY <1>1, <1>2, <1>3, QuietKeeps

(* What is true of the recorder that does something.                         *)
LEMMA TheRecorder ==
    ASSUME IInv, NEW r \in Recorders, recs[r] # "none"
    PROVE  running /\ \A q \in Recorders \ {r} : recs[q] = "none"
BY DEF IInv, OneRecorder

(* run_recorder, the set-up fails: no pending subscriber was opened, so the  *)
(* list is emptied and the claim given back.                                 *)
LEMMA SetupFailsKeeps ==
    ASSUME IInv, NEW r \in Recorders, SetupFails(r), UNCHANGED <<outVars, wireVars>>
    PROVE  IInv'
<1> DEFINE P == [ch \in Channels |-> ch.opened]
<1>1. /\ recs[r] = "setup" /\ recs' = [recs EXCEPT ![r] = "none"] /\ running' = FALSE
      /\ UNCHANGED <<lane, linked, caps, lanes, graph, nextId, config, acked>>
  BY DEF SetupFails, wireVars
<1>2. subs' = FlattenSeq([i \in 1 .. Len(subs) |-> IF P[subs[i]] THEN <<subs[i]>> ELSE <<>>])
  <2>1. subs' = FlattenSeq([i \in 1 .. Len(subs) |-> IF subs[i].opened THEN <<subs[i]>> ELSE <<>>])
    BY DEF SetupFails, Retained
  <2>2. \A i \in 1 .. Len(subs) : P[subs[i]] = subs[i].opened
    BY LanesAtHand
  <2>3. [i \in 1 .. Len(subs) |-> IF P[subs[i]] THEN <<subs[i]>> ELSE <<>>]
            = [i \in 1 .. Len(subs) |-> IF subs[i].opened THEN <<subs[i]>> ELSE <<>>]
    BY <2>2
  <2> QED BY <2>1, <2>3
<1>3. P \in [Channels -> BOOLEAN] /\ \A ch \in Channels : P[ch] = ch.opened
  BY DEF Channels
<1> HIDE DEF P
<1>4. subs' \in Seq(Channels) /\ \A e \in ToSet(subs') : e \in ToSet(subs) /\ P[e]
  BY <1>2, <1>3, LanesAtHand, RetainedWorks
<1>5. \A e \in ToSet(subs) : e \in Channels /\ ~e.opened
  BY <1>1, LanesAtHand DEF IInv, OneRecorder, ToSet
<1>6. subs' = <<>>
  <2>1. ToSet(subs') = {}
    BY <1>3, <1>4, <1>5
  <2> QED BY <1>4, <2>1 DEF ToSet
<1>7. HubTyped'
  BY <1>1, <1>4 DEF IInv, HubTyped, Apps
<1>8. OneRecorder'
  <2>1. recs \in [Recorders -> {"none", "setup", "reading", "stopping"}]
    BY DEF IInv, HubTyped
  <2>2. \A q \in Recorders : recs'[q] = "none"
    BY <1>1, <2>1, TheRecorder
  <2> QED BY <1>1, <1>6, <2>2 DEF OneRecorder, Recorders
<1>9. CapturesTrue'
  BY <1>1, SameCaptures
<1>10. \A a \in Lists : ChannelsOf(a)' \subseteq ChannelsOf(a)
  BY <1>1, <1>6 DEF ChannelsOf, Lists, ToSet
<1>11. ListsShrink
  BY <1>10 DEF ListsShrink
<1>12. AllInOrder(lane')
  BY <1>1, LanesAtHand
<1>13. \A a \in Lists : \A e \in ChannelsOf(a)' : e.opened => OpenTo(lane', e.client, e.id)
  BY <1>1, <1>10, LanesAtHand
<1> QED BY <1>1, <1>7, <1>8, <1>9, <1>11, <1>12, <1>13, HubKeeps DEF wireVars

(* run_recorder, the end: the opened subscribers are closed and the list is  *)
(* emptied.                                                                  *)
LEMMA FinishKeeps ==
    ASSUME IInv, NEW r \in Recorders, Finish(r), UNCHANGED <<outVars, wireVars>>
    PROVE  IInv'
<1>1. /\ recs[r] = "stopping" /\ recs' = [recs EXCEPT ![r] = "none"] /\ running' = FALSE
      /\ lane' = Closed(subs) /\ subs' = <<>>
      /\ UNCHANGED <<linked, caps, lanes, graph, nextId, config, acked>>
  BY DEF Finish, wireVars
<1>2. /\ lane' \in Lanes /\ AllInOrder(lane')
      /\ \A d \in Clients : \A id :
            OpenTo(lane, d, id) /\ (\A ch \in ToSet(subs) : ch.id # id) => OpenTo(lane', d, id)
      /\ \A x, id : Announced(lane', x, id) => Announced(lane, x, id)
  BY <1>1, LanesAtHand, ClosedWorks
<1>3. HubTyped'
  <2>1. subs' \in Seq(Channels)
    BY <1>1
  <2>2. recs' \in [Recorders -> {"none", "setup", "reading", "stopping"}]
    BY <1>1 DEF IInv, HubTyped
  <2>3. lane' \in [Clients -> Seq(Frames)] /\ \A c \in Clients : Len(lane'[c]) <= LaneCap
    BY <1>2 DEF Lanes
  <2> QED BY <1>1, <2>1, <2>2, <2>3 DEF IInv, HubTyped, Apps, Recorders
<1>4. OneRecorder'
  <2>1. recs \in [Recorders -> {"none", "setup", "reading", "stopping"}]
    BY DEF IInv, HubTyped
  <2>2. \A q \in Recorders : recs'[q] = "none"
    BY <1>1, <2>1, TheRecorder
  <2> QED BY <1>1, <2>2 DEF OneRecorder, Recorders
<1>5. CapturesTrue'
  BY <1>1, SameCaptures
<1>6. \A a \in Lists : \A e \in ChannelsOf(a)' : a \in Apps /\ a # 0 /\ e \in ChannelsOf(a)
  BY <1>1, LanesAtHand DEF ChannelsOf, Lists, ToSet
<1>7. ListsShrink
  BY <1>6 DEF ListsShrink
<1>8. ASSUME NEW a \in Lists, NEW e \in ChannelsOf(a)', e.opened PROVE OpenTo(lane', e.client, e.id)
  <2>1. a \in Apps /\ a # 0 /\ e \in ChannelsOf(a) /\ 0 \in Lists
    BY <1>6, <1>8 DEF Lists
  <2>2. OpenTo(lane, e.client, e.id) /\ e.client \in Clients
    BY <1>8, <2>1, LanesAtHand DEF Channels
  <2>3. \A ch \in ToSet(subs) : ch.id # e.id
    BY <2>1, LanesAtHand DEF IInv, IdsApart
  <2> QED BY <1>2, <2>2, <2>3
<1> QED BY <1>1, <1>2, <1>3, <1>4, <1>5, <1>7, <1>8, HubKeeps DEF wireVars

(* What a packet does to the list it is sent to and to all the lanes.        *)
LEMMA PacketOut ==
    ASSUME IInv, NEW k \in Lists, NEW src \in Nat, NEW chs \in Seq(Channels), ToSet(chs) = ChannelsOf(k),
           NEW out, out = FanOut(chs, src), lane' = out.lane, known' = known,
           ChannelsOf(k)' = ToSet(out.kept),
           \A a \in Lists \ {k} : ChannelsOf(a)' = ChannelsOf(a)
    PROVE  /\ lane' \in Lanes /\ AllInOrder(lane') /\ out.kept \in Seq(Channels)
           /\ ListsShrink
           /\ \A a \in Lists : \A e \in ChannelsOf(a)' : e.opened => OpenTo(lane', e.client, e.id)
           /\ \A x, id : Announced(lane', x, id) =>
                Announced(lane, x, id) \/ \E a \in Lists : \E ch \in ChannelsOf(a) : ch.id = id /\ ch.app = x
<1>1. \A ch \in ToSet(chs) : ch.opened => OpenTo(lane, ch.client, ch.id)
  BY LanesAtHand
<1>2. /\ out.lane \in Lanes /\ AllInOrder(out.lane) /\ out.kept \in Seq(Channels)
      /\ \A e \in ToSet(out.kept) :
           /\ e.opened /\ OpenTo(out.lane, e.client, e.id)
           /\ \E ch \in ToSet(chs) : ch.id = e.id /\ ch.app = e.app
      /\ \A d \in Clients : \A id : OpenTo(lane, d, id) => OpenTo(out.lane, d, id)
      /\ \A x, id : Announced(out.lane, x, id) =>
           Announced(lane, x, id) \/ \E ch \in ToSet(chs) : ch.id = id /\ ch.app = x
  BY <1>1, LanesAtHand, FanOutWorks
<1>3. ListsShrink
  <2> SUFFICES ASSUME NEW a \in Lists, NEW e \in ChannelsOf(a)'
               PROVE  \E ch \in ChannelsOf(a) : ch.id = e.id /\ ch.app = e.app
    BY DEF ListsShrink
  <2> QED BY <1>2
<1>4. ASSUME NEW a \in Lists, NEW e \in ChannelsOf(a)', e.opened PROVE OpenTo(lane', e.client, e.id)
  <2>1. CASE a = k
    BY <1>2, <1>4, <2>1
  <2>2. CASE a # k
    <3>1. e \in ChannelsOf(a)
      BY <1>4, <2>2
    <3>2. OpenTo(lane, e.client, e.id) /\ e.client \in Clients
      BY <1>4, <3>1, LanesAtHand DEF Channels
    <3> QED BY <1>2, <3>2
  <2> QED BY <2>1, <2>2
<1> QED BY <1>2, <1>3, <1>4

(* mix.rs: a packet of the desktop for every subscriber.                     *)
LEMMA MixPacketKeeps ==
    ASSUME IInv, NEW r \in Recorders, MixPacket(r), UNCHANGED <<outVars, wireVars>>
    PROVE  IInv'
<1> DEFINE out == FanOut(subs, 0)
<1>1. /\ recs[r] = "reading" /\ lane' = out.lane /\ subs' = out.kept
      /\ recs' = [recs EXCEPT ![r] = AfterPacket(out.kept)]
      /\ UNCHANGED <<linked, running, caps, lanes, graph, nextId, config, acked, known>>
  BY DEF MixPacket, wireVars, outVars
<1> HIDE DEF out
<1>2. 0 \in Lists /\ ToSet(subs) = ChannelsOf(0) /\ ChannelsOf(0)' = ToSet(out.kept)
      /\ \A a \in Lists \ {0} : ChannelsOf(a)' = ChannelsOf(a)
  BY <1>1 DEF Lists, ChannelsOf
<1>3. /\ lane' \in Lanes /\ AllInOrder(lane') /\ out.kept \in Seq(Channels)
      /\ ListsShrink
      /\ \A a \in Lists : \A e \in ChannelsOf(a)' : e.opened => OpenTo(lane', e.client, e.id)
      /\ \A x, id : Announced(lane', x, id) =>
           Announced(lane, x, id) \/ \E a \in Lists : \E ch \in ChannelsOf(a) : ch.id = id /\ ch.app = x
  BY <1>1, <1>2, LanesAtHand, PacketOut DEF out
<1>4. AfterPacket(out.kept) \in {"reading", "stopping"}
  BY DEF AfterPacket
<1>5. HubTyped'
  BY <1>1, <1>3, <1>4 DEF IInv, HubTyped, Apps, Lanes
<1>6. OneRecorder'
  <2>1. recs \in [Recorders -> {"none", "setup", "reading", "stopping"}]
    BY DEF IInv, HubTyped
  <2>2. running /\ \A q \in Recorders \ {r} : recs[q] = "none"
    BY <1>1, TheRecorder
  <2>3. recs'[r] \in {"reading", "stopping"} /\ \A q \in Recorders \ {r} : recs'[q] = "none"
    BY <1>1, <1>4, <2>1, <2>2
  <2> QED BY <1>1, <2>2, <2>3 DEF OneRecorder, Recorders
<1>7. CapturesTrue'
  BY <1>1, SameCaptures
<1> QED BY <1>1, <1>3, <1>5, <1>6, <1>7, HubKeeps DEF wireVars

(* per_app.rs: a packet of an application for its connections.               *)
LEMMA CapturePacketKeeps ==
    ASSUME IInv, NEW app \in Apps, CapturePacket(app), UNCHANGED <<outVars, wireVars>>
    PROVE  IInv'
<1> DEFINE out == FanOut(caps[app].chs, caps[app].src)
           k == [caps[app] EXCEPT !.chs = out.kept]
<1>0. caps \in [Apps -> Captured] /\ caps[app] \in Captured
  BY DEF IInv, HubTyped
<1>1. /\ lane' = out.lane /\ caps' = [caps EXCEPT ![app] = k]
      /\ UNCHANGED <<linked, subs, running, recs, lanes, graph, nextId, config, acked, known>>
  BY <1>0 DEF CapturePacket, wireVars, outVars
<1>2. k.chs = out.kept /\ k.src = caps[app].src
  BY <1>0 DEF Captured
<1>3. caps'[app] = k /\ \A a \in Apps : a # app => caps'[a] = caps[a]
  BY <1>0, <1>1
<1> HIDE DEF out
<1>4. app \in Lists /\ ToSet(caps[app].chs) = ChannelsOf(app) /\ ChannelsOf(app)' = ToSet(out.kept)
      /\ \A a \in Lists \ {app} : ChannelsOf(a)' = ChannelsOf(a)
  <2>1. app # 0
    BY LanesAtHand
  <2> HIDE DEF k
  <2> QED BY <1>1, <1>2, <1>3, <2>1 DEF Lists, ChannelsOf
<1>5. /\ lane' \in Lanes /\ AllInOrder(lane') /\ out.kept \in Seq(Channels)
      /\ ListsShrink
      /\ \A a \in Lists : \A e \in ChannelsOf(a)' : e.opened => OpenTo(lane', e.client, e.id)
      /\ \A x, id : Announced(lane', x, id) =>
           Announced(lane, x, id) \/ \E a \in Lists : \E ch \in ChannelsOf(a) : ch.id = id /\ ch.app = x
  BY <1>1, <1>4, LanesAtHand, PacketOut DEF out
<1>6. k \in Captured
  BY <1>0, <1>5 DEF Captured
<1> HIDE DEF k
<1>7. HubTyped'
  BY <1>0, <1>1, <1>5, <1>6 DEF IInv, HubTyped, Apps, Lanes
<1>8. OneRecorder'
  BY <1>1 DEF IInv, OneRecorder, Recorders
<1>9. CapturesTrue'
  BY <1>1, <1>2, <1>3, <1>5, CapturesKeep
<1> QED BY <1>1, <1>5, <1>7, <1>8, <1>9, HubKeeps DEF wireVars

(* A channel is handed out under a number of its own: it is not open yet,    *)
(* and only its connection is met in a new place.                            *)
LEMMA ChannelJoins ==
    ASSUME IInv, NEW k \in Lists, NEW n \in Channels, n.id = nextId, ~n.opened, nextId' = nextId + 1,
           ChannelsOf(k)' = ChannelsOf(k) \cup {n},
           \A a \in Lists \ {k} : ChannelsOf(a)' = ChannelsOf(a),
           UNCHANGED <<lane, known, outlets>>
    PROVE  /\ IdsApart' /\ LanesInOrder'
           /\ \A x, id : Tagged(x, id)' => Tagged(x, id) \/ (x = n.app /\ id = n.id)
<1>1. Lists' = Lists
  BY DEF Lists, Apps
<1>2. nextId \in Nat
  BY DEF IInv, HubTyped
<1>3. \A a \in Lists : \A e \in ChannelsOf(a)' : e \in ChannelsOf(a) \/ (a = k /\ e = n)
  OBVIOUS
<1>4. \A a \in Lists : \A e \in ChannelsOf(a) : e.id \in Nat /\ e.id < nextId
  <2>1. \A a \in Lists : \A e \in ChannelsOf(a) : e \in Channels
    BY LanesAtHand
  <2> QED BY <2>1, FramesOfChannel DEF IInv, IdsApart
<1>5. IdsApart'
  <2>1. ASSUME NEW a \in Lists, NEW e \in ChannelsOf(a)' PROVE e.id < nextId'
    <3>1. CASE e \in ChannelsOf(a)
      BY <1>2, <1>4, <3>1
    <3>2. CASE e = n
      BY <1>2, <3>2
    <3> QED BY <1>3, <2>1, <3>1, <3>2
  <2>2. ASSUME NEW a \in Lists, NEW b \in Lists, NEW s \in ChannelsOf(a)', NEW t \in ChannelsOf(b)',
               s.id = t.id
        PROVE  a = b /\ s.app = t.app
    <3>1. CASE s \in ChannelsOf(a) /\ t \in ChannelsOf(b)
      BY <2>2, <3>1 DEF IInv, IdsApart
    <3>2. CASE (a = k /\ s = n) /\ (b = k /\ t = n)
      BY <3>2
    <3>3. CASE s \in ChannelsOf(a) /\ t = n
      BY <1>2, <1>4, <2>2, <3>3
    <3>4. CASE s = n /\ t \in ChannelsOf(b)
      BY <1>2, <1>4, <2>2, <3>4
    <3> QED BY <1>3, <2>2, <3>1, <3>2, <3>3, <3>4
  <2> QED BY <1>1, <2>1, <2>2 DEF IdsApart
<1>6. LanesInOrder'
  <2>1. \A a \in Lists : \A e \in ChannelsOf(a)' : e.opened => OpenTo(lane', e.client, e.id)
    BY <1>3, LanesAtHand
  <2>2. lane' \in Lanes /\ \A c \in Clients : InOrder(lane'[c], known'[c])
    BY LanesAtHand DEF AllInOrder
  <2> QED BY <2>1, <2>2, LanesKeep
<1>7. ASSUME NEW x, NEW id, Tagged(x, id)' PROVE Tagged(x, id) \/ (x = n.app /\ id = n.id)
  <2>1. CASE \E a \in Lists : \E e \in ChannelsOf(a)' : e.app = x /\ e.id = id
    BY <1>3, <2>1 DEF Tagged
  <2>2. CASE Announced(lane', x, id)
    BY <2>2 DEF Tagged
  <2>3. CASE \E c \in Clients : \E out \in outlets'[c] : out.app = x /\ out.id = id
    BY <2>3 DEF Tagged
  <2> QED BY <1>1, <1>7, <2>1, <2>2, <2>3 DEF Tagged
<1> QED BY <1>5, <1>6, <1>7

(* A list that a channel is appended to.                                     *)
LEMMA AppendedSet ==
    ASSUME NEW s \in Seq(Channels), NEW n \in Channels
    PROVE  Append(s, n) \in Seq(Channels) /\ ToSet(Append(s, n)) = ToSet(s) \cup {n}
<1>1. Append(s, n) \in Seq(Channels) /\ Len(Append(s, n)) = Len(s) + 1 /\ Len(s) \in Nat
  OBVIOUS
<1>2. Append(s, n)[Len(s) + 1] = n /\ \A i \in 1 .. Len(s) : Append(s, n)[i] = s[i]
  OBVIOUS
<1>3. ASSUME NEW e \in ToSet(Append(s, n)) PROVE e \in ToSet(s) \cup {n}
  <2>1. PICK i \in 1 .. Len(s) + 1 : e = Append(s, n)[i]
    BY <1>1 DEF ToSet
  <2>2. i = Len(s) + 1 \/ i \in 1 .. Len(s)
    BY <1>1
  <2> QED BY <1>2, <2>1, <2>2 DEF ToSet
<1>4. ASSUME NEW e \in ToSet(s) \cup {n} PROVE e \in ToSet(Append(s, n))
  <2>1. CASE e = n
    <3>1. Len(s) + 1 \in DOMAIN Append(s, n)
      BY <1>1
    <3> QED BY <1>2, <2>1, <3>1 DEF ToSet
  <2>2. CASE e \in ToSet(s)
    <3>1. PICK i \in 1 .. Len(s) : e = s[i]
      BY <2>2 DEF ToSet
    <3>2. i \in DOMAIN Append(s, n)
      BY <1>1
    <3> QED BY <1>2, <3>1, <3>2 DEF ToSet
  <2> QED BY <2>1, <2>2
<1> QED BY <1>1, <1>3, <1>4

(* attach: the first subscriber claims the recorder, the others join it.     *)
LEMMA AttachMixKeeps ==
    ASSUME IInv, NEW c \in Clients, AttachMix(c), acked' \subseteq Clients, UNCHANGED outVars,
           UNCHANGED <<config, sock, events, registry>>
    PROVE  IInv'
<1> DEFINE n == NewChannel(c, NoConn)
<1>1. /\ nextId <= MaxChannels /\ subs' = Append(subs, n) /\ nextId' = nextId + 1 /\ running' = TRUE
      /\ UNCHANGED <<lane, linked, caps, lanes, graph>>
  BY DEF AttachMix
<1>2. n \in Channels /\ n.id = nextId /\ ~n.opened /\ n.app = NoConn
  <2>1. nextId \in 1 .. MaxChannels
    BY <1>1, LaneAssumption DEF IInv, HubTyped
  <2> QED BY <2>1 DEF NewChannel, Channels
<1> HIDE DEF n
<1>3. subs \in Seq(Channels) /\ subs' \in Seq(Channels) /\ ToSet(subs') = ToSet(subs) \cup {n}
  BY <1>1, <1>2, LanesAtHand, AppendedSet
<1>4. 0 \in Lists /\ ChannelsOf(0)' = ChannelsOf(0) \cup {n}
      /\ \A a \in Lists \ {0} : ChannelsOf(a)' = ChannelsOf(a)
  BY <1>1, <1>3 DEF Lists, ChannelsOf
<1>5. /\ IdsApart' /\ LanesInOrder'
      /\ \A x, id : Tagged(x, id)' => Tagged(x, id) \/ (x = n.app /\ id = n.id)
  BY <1>1, <1>2, <1>4, ChannelJoins DEF outVars
<1>6. TagsApart'
  <2>1. TagsShrink
    BY <1>2, <1>5, ConnsAssumption DEF TagsShrink
  <2> QED BY <2>1, TagsKeep
<1>7. recs \in [Recorders -> {"none", "setup", "reading", "stopping"}]
  BY DEF IInv, HubTyped
<1>8. /\ recs' \in [Recorders -> {"none", "setup", "reading", "stopping"}]
      /\ OneRecorder'
  <2>0. \A i \in 1 .. Len(subs') : (\A j \in 1 .. Len(subs) : ~subs[j].opened) => ~subs'[i].opened
    BY <1>1, <1>2, <1>3
  <2>1. CASE \E r \in Recorders : Claim(r) /\ recs' = [recs EXCEPT ![r] = "setup"]
    <3>1. PICK r \in Recorders : Claim(r) /\ recs' = [recs EXCEPT ![r] = "setup"]
      BY <2>1
    <3>2. subs = <<>> /\ \A q \in Recorders : recs[q] = "none"
      BY <3>1 DEF IInv, OneRecorder, Claim
    <3>3. recs'[r] = "setup" /\ \A q \in Recorders \ {r} : recs'[q] = "none"
      BY <1>7, <3>1, <3>2
    <3>4. \A i \in 1 .. Len(subs') : ~subs'[i].opened
      BY <2>0, <3>2
    <3>5. recs' \in [Recorders -> {"none", "setup", "reading", "stopping"}]
      BY <1>7, <3>1
    <3> QED BY <1>1, <3>3, <3>4, <3>5 DEF OneRecorder, Recorders
  <2>2. CASE running /\ UNCHANGED recs
    BY <1>1, <1>7, <2>0, <2>2 DEF IInv, OneRecorder, Recorders
  <2> QED BY <2>1, <2>2 DEF AttachMix
<1>9. HubTyped'
  <2>1. nextId' \in Nat \ {0}
    BY <1>1 DEF IInv, HubTyped
  <2> QED BY <1>1, <1>3, <1>8, <2>1 DEF IInv, HubTyped, Apps, Recorders
<1>10. OutTyped' /\ Ruled' /\ RegistryTrue'
  BY DEF IInv, OutTyped, Ruled, Heard, RegistryTrue, outVars, X11
<1>11. CapturesTrue'
  BY <1>1, SameCaptures
<1> QED BY <1>5, <1>6, <1>8, <1>9, <1>10, <1>11 DEF IInv

Events == [kind : {"connected", "disconnected"}, conn : X11]

(* The relay task takes the first event of its client.                       *)
LEMMA EventTaken ==
    ASSUME IInv, NEW c \in Clients, events[c] # <<>>, events' = [events EXCEPT ![c] = Tail(@)]
    PROVE  /\ events' \in [Clients -> Seq(Events)] /\ Head(events[c]) \in Events
           /\ Head(events[c]) = events[c][1] /\ 1 \in 1 .. Len(events[c])
           /\ \A d \in Clients : \A i \in 1 .. Len(events'[d]) :
                LET j == IF d = c THEN i + 1 ELSE i
                IN  j \in 1 .. Len(events[d]) /\ events'[d][i] = events[d][j]
<1>1. events \in [Clients -> Seq(Events)]
  BY DEF IInv, OutTyped, Events
<1>2. /\ events[c] \in Seq(Events) /\ Tail(events[c]) \in Seq(Events) /\ Head(events[c]) \in Events
      /\ Head(events[c]) = events[c][1] /\ 1 \in 1 .. Len(events[c])
  BY <1>1
<1>3. \A d \in Clients : events'[d] = IF d = c THEN Tail(events[c]) ELSE events[d]
  BY <1>1
<1>4. ASSUME NEW d \in Clients, NEW i \in 1 .. Len(events'[d])
      PROVE  LET j == IF d = c THEN i + 1 ELSE i
             IN  j \in 1 .. Len(events[d]) /\ events'[d][i] = events[d][j]
  <2>1. CASE d = c
    <3>1. i \in 1 .. Len(Tail(events[c]))
      BY <1>3, <1>4, <2>1
    <3>2. i + 1 \in 1 .. Len(events[c]) /\ Tail(events[c])[i] = events[c][i + 1]
      BY <1>2, <3>1
    <3> QED BY <1>3, <2>1, <3>2
  <2>2. CASE d # c
    BY <1>3, <1>4, <2>2
  <2> QED BY <2>1, <2>2
<1>5. events' \in [Clients -> Seq(Events)]
  BY <1>1, <1>2
<1> QED BY <1>2, <1>4, <1>5

(* Only the connection that arrives may be met in a new place, under one id. *)
LEMMA TagsTaken ==
    ASSUME IInv, NEW c \in Clients, events[c] # <<>>, events' = [events EXCEPT ![c] = Tail(@)],
           sock' = sock, NEW n,
           \A x \in Conns : \A id : Tagged(x, id)' =>
                Tagged(x, id) \/ (Arrives(Head(events[c]), x) /\ id = n)
    PROVE  TagsApart'
<1>0. TagsApart
  BY DEF IInv
<1>1. /\ Head(events[c]) = events[c][1] /\ 1 \in 1 .. Len(events[c])
      /\ \A d \in Clients : \A i \in 1 .. Len(events'[d]) :
            LET j == IF d = c THEN i + 1 ELSE i
            IN  j \in 1 .. Len(events[d]) /\ events'[d][i] = events[d][j]
  BY EventTaken
<1>2. ASSUME NEW x \in Conns, Arrives(Head(events[c]), x)
      PROVE  /\ sock[x] # "new" /\ \A id : ~Tagged(x, id)
             /\ \A d \in Clients : \A j \in 1 .. Len(events[d]) : Arrives(events[d][j], x) => d = c /\ j = 1
  BY <1>0, <1>1, <1>2 DEF TagsApart
<1>3. ASSUME NEW x \in Conns, NEW i, NEW j, Tagged(x, i)', Tagged(x, j)' PROVE i = j
  BY <1>0, <1>2, <1>3 DEF TagsApart
<1>4. ASSUME NEW x \in Conns, sock'[x] = "new", NEW i PROVE ~Tagged(x, i)'
  BY <1>0, <1>2, <1>4 DEF TagsApart
<1>5. ASSUME NEW d \in Clients, NEW i \in 1 .. Len(events'[d]), NEW x \in Conns, Arrives(events'[d][i], x)
      PROVE  /\ sock'[x] # "new" /\ \A id : ~Tagged(x, id)'
             /\ \A e \in Clients : \A j \in 1 .. Len(events'[e]) :
                    Arrives(events'[e][j], x) => d = e /\ i = j
  <2> DEFINE k == IF d = c THEN i + 1 ELSE i
  <2>1. k \in 1 .. Len(events[d]) /\ Arrives(events[d][k], x) /\ ~(d = c /\ k = 1)
    BY <1>1, <1>5
  <2>2. sock[x] # "new" /\ \A id : ~Tagged(x, id)
    BY <1>0, <2>1 DEF TagsApart
  <2>3. ~Arrives(Head(events[c]), x)
    BY <1>2, <2>1
  <2>4. ASSUME NEW e \in Clients, NEW j \in 1 .. Len(events'[e]), Arrives(events'[e][j], x)
        PROVE  d = e /\ i = j
    <3> DEFINE m == IF e = c THEN j + 1 ELSE j
    <3>1. m \in 1 .. Len(events[e]) /\ Arrives(events[e][m], x)
      BY <1>1, <2>4
    <3>2. d = e /\ k = m
      <4> HIDE DEF k, m
      <4> QED BY <1>0, <2>1, <3>1 DEF TagsApart
    <3> QED BY <3>2
  <2> QED BY <2>2, <2>3, <2>4
<1>6. (\A d \in Clients : \A i \in 1 .. Len(events[d]) : \A x \in Conns : Arrives(events[d][i], x) =>
            /\ sock[x] # "new" /\ \A id : ~Tagged(x, id)
            /\ \A e \in Clients : \A j \in 1 .. Len(events[e]) :
                    Arrives(events[e][j], x) => d = e /\ i = j)'
  BY <1>5 DEF Arrives
<1> QED BY <1>3, <1>4, <1>6 DEF TagsApart

(* The application the registry knows for a connection is that of its        *)
(* process, and a process that can be read.                                  *)
LEMMA KnownApplication ==
    ASSUME IInv, NEW x, ApplicationOf(registry, x) # NoApp
    PROVE  /\ ApplicationOf(registry, x) \in Apps /\ x \in X11
           /\ ApplicationOf(registry, x) = ApplicationRoot(config.pid[x])
<1>1. /\ x \in DOMAIN registry.owner
      /\ ApplicationOf(registry, x) = registry.apps[registry.owner[x]].root
  BY DEF ApplicationOf
<1>2. x \in X11 /\ ApplicationOf(registry, x) = ApplicationRoot(config.pid[x])
  BY <1>1 DEF IInv, RegistryTrue, Home, X11
<1>3. config.pid[x] \in Nat
  BY <1>2, ConfigAssumption DEF IInv, HubTyped, X11
<1> QED BY <1>2, <1>3, RootReadable

\* What taking an event leaves alone.
Aside ==
    UNCHANGED <<linked, subs, running, recs, lanes, graph, perApp, outlets, known, ranges, fore,
                config, acked, sock>>

(* An arrival is taken: its connection gets the next channel id.             *)
LEMMA ArrivalKeeps ==
    ASSUME IInv, NEW c \in Clients, events[c] # <<>>, events' = [events EXCEPT ![c] = Tail(@)],
           NEW x, Head(events[c]).kind = "connected", x = Head(events[c]).conn, OnConnected(c, x), Aside
    PROVE  IInv'
<1>a. PICK app : app = ApplicationOf(registry, x)
  OBVIOUS
<1>b. PICK n : n = NewChannel(c, x)
  OBVIOUS
<1>1. Head(events[c]) \in Events /\ events' \in [Clients -> Seq(Events)]
  BY EventTaken
<1>2. x \in X11 /\ X11 \subseteq Conns /\ Arrives(Head(events[c]), x)
  <2>1. x \in X11
    BY <1>1 DEF Events
  <2>2. X11 \subseteq Conns
    BY ConfigAssumption DEF IInv, HubTyped, X11
  <2> QED BY <2>1, <2>2 DEF Arrives
<1>3. UNCHANGED <<lane, registry>> /\ pump' = [pump EXCEPT ![x] = "opening"]
  BY DEF OnConnected
<1>4. OutTyped'
  <2>1. pump' \in [Conns -> {"none", "opening", "open", "asked", "up", "over"}]
    BY <1>3 DEF IInv, OutTyped
  <2>2. events' \in [Clients -> Seq([kind : {"connected", "disconnected"}, conn : X11])]
    BY <1>1 DEF Events
  <2>3. X11' = X11
    BY DEF X11, Aside
  <2> QED BY <2>1, <2>2, <2>3 DEF IInv, OutTyped, Aside
<1>5. OneRecorder' /\ Ruled' /\ RegistryTrue'
  BY <1>3 DEF IInv, OneRecorder, Recorders, Ruled, Heard, RegistryTrue, Aside
<1>6. CASE UNCHANGED <<nextId, caps>>
  <2>1. HubTyped'
    BY <1>3, <1>6 DEF IInv, HubTyped, Apps, Aside, Recorders
  <2>2. \A a \in Lists : ChannelsOf(a)' = ChannelsOf(a)
    BY <1>6 DEF ChannelsOf, Aside
  <2>3. ListsShrink
    BY <2>2 DEF ListsShrink
  <2>4. IdsApart'
    BY <1>6, <2>3, IdsKeep
  <2>5. LanesInOrder'
    <3>1. \A a \in Lists : \A e \in ChannelsOf(a)' : e.opened => OpenTo(lane', e.client, e.id)
      BY <1>3, <2>2, LanesAtHand
    <3>2. lane' \in Lanes /\ \A d \in Clients : InOrder(lane'[d], known'[d])
      BY <1>3, LanesAtHand DEF AllInOrder, Aside
    <3> QED BY <3>1, <3>2, LanesKeep DEF Aside
  <2>6. \A y, id : Tagged(y, id)' => Tagged(y, id)
    <3>1. Lists' = Lists
      BY DEF Lists, Apps
    <3> QED BY <1>3, <2>2, <3>1 DEF Tagged, Aside
  <2>7. TagsApart'
    BY <2>6, TagsTaken DEF Aside
  <2>8. CapturesTrue'
    BY <1>6, SameCaptures DEF Aside
  <2> QED BY <1>4, <1>5, <2>1, <2>4, <2>5, <2>7, <2>8 DEF IInv
<1>7. CASE app # NoApp /\ AttachConnection(app, x, c)
  <2>1. app \in Apps /\ app = ApplicationRoot(config.pid[x])
    BY <1>7, <1>a, KnownApplication
  <2>2. caps \in [Apps -> Captured] /\ caps[app] \in Captured
    BY <2>1 DEF IInv, HubTyped
  <2>3. n \in Channels /\ n.id = nextId /\ ~n.opened /\ n.app = x
    <3>1. nextId \in 1 .. MaxChannels
      BY <1>7, LaneAssumption DEF IInv, HubTyped, AttachConnection
    <3> QED BY <1>b, <1>2, <3>1 DEF NewChannel, Channels
  <2>a. PICK ph : ph = IF caps[app].phase = "none" THEN "waiting" ELSE caps[app].phase
    OBVIOUS
  <2>b. PICK k : k = [caps[app] EXCEPT !.chs = Append(@, n), !.phase = ph]
    OBVIOUS
  <2>4. nextId' = nextId + 1 /\ caps' = [caps EXCEPT ![app] = k]
    BY <1>7, <1>b, <2>2, <2>a, <2>b DEF AttachConnection
  <2>5. caps[app].chs \in Seq(Channels)
    BY <2>2 DEF Captured
  <2>6. Append(caps[app].chs, n) \in Seq(Channels) /\ ToSet(Append(caps[app].chs, n)) = ToSet(caps[app].chs) \cup {n}
    BY <2>3, <2>5, AppendedSet
  <2>7. k \in Captured /\ k.chs = Append(caps[app].chs, n) /\ k.src = caps[app].src
    <3>1. ph \in {"waiting", "reading", "dead"}
      BY <2>2, <2>a DEF Captured
    <3> QED BY <2>2, <2>6, <2>b, <3>1 DEF Captured
  <2>8. caps' \in [Apps -> Captured] /\ caps'[app] = k /\ \A a \in Apps : a # app => caps'[a] = caps[a]
    BY <2>1, <2>2, <2>4, <2>7
  <2>9. app \in Lists /\ ChannelsOf(app)' = ChannelsOf(app) \cup {n}
        /\ \A a \in Lists \ {app} : ChannelsOf(a)' = ChannelsOf(a)
    <3>1. app # 0
      BY <2>1, LanesAtHand
    <3> QED BY <2>1, <2>6, <2>7, <2>8, <3>1 DEF Lists, ChannelsOf, Aside
  <2>10. /\ IdsApart' /\ LanesInOrder'
         /\ \A y, id : Tagged(y, id)' => Tagged(y, id) \/ (y = n.app /\ id = n.id)
    BY <1>3, <2>3, <2>4, <2>9, ChannelJoins DEF Aside
  <2>11. TagsApart'
    <3>1. PICK m : m = n.id
      OBVIOUS
    <3>2. \A y \in Conns : \A id : Tagged(y, id)' => Tagged(y, id) \/ (Arrives(Head(events[c]), y) /\ id = m)
      BY <1>2, <2>3, <2>10, <3>1
    <3>3. sock' = sock
      BY DEF Aside
    <3> QED BY <3>2, <3>3, TagsTaken
  <2>12. HubTyped'
    <3>1. nextId' \in Nat \ {0}
      BY <2>4 DEF IInv, HubTyped
    <3> QED BY <1>3, <2>8, <3>1 DEF IInv, HubTyped, Apps, Aside, Recorders
  <2>13. CapturesTrue'
    <3>1. ASSUME NEW a \in Apps, NEW e \in ChannelsOf(a)'
          PROVE  e.app \in X11 /\ ApplicationRoot(config.pid[e.app]) = a
      <4>1. e \in ChannelsOf(a) \/ (a = app /\ e = n)
        BY <2>9, <3>1 DEF Lists
      <4> QED BY <1>2, <2>1, <2>3, <4>1 DEF IInv, CapturesTrue
    <3>2. \A a \in Apps : caps'[a].src = caps[a].src
      BY <2>7, <2>8
    <3>3. Apps' = Apps /\ X11' = X11 /\ config' = config
      BY DEF Apps, X11, Aside
    <3> QED BY <3>1, <3>2, <3>3 DEF IInv, CapturesTrue
  <2> QED BY <1>4, <1>5, <2>10, <2>11, <2>12, <2>13 DEF IInv
<1> QED BY <1>6, <1>7, <1>a DEF OnConnected

\* The channels that detach_connection closes, and those it keeps.
MineOf(chs, x) == Retained(chs, LAMBDA ch : ch.app = x)
RestOf(chs, x) == Retained(chs, LAMBDA ch : ch.app # x)

(* detach_connection splits a list in the channels of the connection and     *)
(* the others.                                                               *)
LEMMA SplitWorks ==
    ASSUME NEW chs \in Seq(Channels), NEW x, NEW mine, NEW rest,
           mine = MineOf(chs, x), rest = RestOf(chs, x)
    PROVE  /\ mine \in Seq(Channels) /\ \A e \in ToSet(mine) : e \in ToSet(chs) /\ e.app = x
           /\ rest \in Seq(Channels) /\ \A e \in ToSet(rest) : e \in ToSet(chs) /\ e.app # x
<1> DEFINE P == [ch \in Channels |-> ch.app = x]
           Q == [ch \in Channels |-> ch.app # x]
<1>1. P \in [Channels -> BOOLEAN] /\ Q \in [Channels -> BOOLEAN]
  OBVIOUS
<1>2. \A ch \in Channels : P[ch] = (ch.app = x) /\ Q[ch] = (ch.app # x)
  OBVIOUS
<1>3. \A i \in 1 .. Len(chs) : chs[i] \in Channels
  OBVIOUS
<1> HIDE DEF P, Q
<1>4. mine = FlattenSeq([i \in 1 .. Len(chs) |-> IF P[chs[i]] THEN <<chs[i]>> ELSE <<>>])
  <2>1. mine = FlattenSeq([i \in 1 .. Len(chs) |-> IF chs[i].app = x THEN <<chs[i]>> ELSE <<>>])
    BY DEF Retained, MineOf
  <2>2. [i \in 1 .. Len(chs) |-> IF P[chs[i]] THEN <<chs[i]>> ELSE <<>>]
            = [i \in 1 .. Len(chs) |-> IF chs[i].app = x THEN <<chs[i]>> ELSE <<>>]
    BY <1>2, <1>3
  <2> QED BY <2>1, <2>2
<1>5. rest = FlattenSeq([i \in 1 .. Len(chs) |-> IF Q[chs[i]] THEN <<chs[i]>> ELSE <<>>])
  <2>1. rest = FlattenSeq([i \in 1 .. Len(chs) |-> IF chs[i].app # x THEN <<chs[i]>> ELSE <<>>])
    BY DEF Retained, RestOf
  <2>2. [i \in 1 .. Len(chs) |-> IF Q[chs[i]] THEN <<chs[i]>> ELSE <<>>]
            = [i \in 1 .. Len(chs) |-> IF chs[i].app # x THEN <<chs[i]>> ELSE <<>>]
    BY <1>2, <1>3
  <2> QED BY <2>1, <2>2
<1>6. mine \in Seq(Channels) /\ \A e \in ToSet(mine) : e \in ToSet(chs) /\ P[e]
  BY <1>1, <1>4, RetainedWorks
<1>7. rest \in Seq(Channels) /\ \A e \in ToSet(rest) : e \in ToSet(chs) /\ Q[e]
  BY <1>1, <1>5, RetainedWorks
<1>8. \A e \in ToSet(chs) : e \in Channels
  BY <1>3 DEF ToSet
<1> QED BY <1>2, <1>6, <1>7, <1>8

(* A departure is taken: the channels of the connection close.               *)
LEMMA DepartureKeeps ==
    ASSUME IInv, NEW c \in Clients, events[c] # <<>>, events' = [events EXCEPT ![c] = Tail(@)],
           NEW x, Head(events[c]).kind # "connected", x = Head(events[c]).conn, OnDisconnected(c, x), Aside
    PROVE  IInv'
<1>a. PICK app : app = ApplicationOf(registry, x)
  OBVIOUS
<1>1. Head(events[c]) \in Events /\ events' \in [Clients -> Seq(Events)]
  BY EventTaken
<1>2. /\ nextId' = nextId /\ registry' = Unregister(registry, x)
      /\ pump' = [pump EXCEPT ![x] = IF @ = "opening" THEN "over" ELSE @]
  BY DEF OnDisconnected
<1>3. OutTyped'
  <2>1. pump' \in [Conns -> {"none", "opening", "open", "asked", "up", "over"}]
    BY <1>2 DEF IInv, OutTyped
  <2>2. events' \in [Clients -> Seq([kind : {"connected", "disconnected"}, conn : X11])]
    BY <1>1 DEF Events
  <2>3. X11' = X11
    BY DEF X11, Aside
  <2> QED BY <2>1, <2>2, <2>3 DEF IInv, OutTyped, Aside
<1>4. RegistryTrue'
  <2>1. Home(Unregister(registry, x), config.pid)
    BY UnregisterHome DEF IInv, RegistryTrue
  <2> QED BY <1>2, <2>1 DEF RegistryTrue, Aside
<1>5. OneRecorder' /\ Ruled'
  BY DEF IInv, OneRecorder, Recorders, Ruled, Heard, Aside
<1>6. ASSUME HubTyped', CapturesTrue', ListsShrink, AllInOrder(lane'),
             \A a \in Lists : \A e \in ChannelsOf(a)' : e.opened => OpenTo(lane', e.client, e.id),
             \A y, id : Announced(lane', y, id) => Announced(lane, y, id)
      PROVE  IInv'
  <2>1. IdsApart'
    BY <1>2, <1>6, IdsKeep
  <2>2. LanesInOrder'
    <3>1. lane' \in Lanes /\ \A d \in Clients : InOrder(lane'[d], known'[d])
      BY <1>6 DEF HubTyped, Lanes, AllInOrder, Aside
    <3> QED BY <1>6, <3>1, LanesKeep DEF Aside
  <2>3. ASSUME NEW y \in Conns, NEW id, Tagged(y, id)' PROVE Tagged(y, id)
    <3>1. CASE \E a \in Lists : \E e \in ChannelsOf(a)' : e.app = y /\ e.id = id
      <4>1. PICK a \in Lists : \E e \in ChannelsOf(a)' : e.app = y /\ e.id = id
        BY <3>1
      <4>2. PICK e \in ChannelsOf(a)' : e.app = y /\ e.id = id
        BY <4>1
      <4>3. PICK ch \in ChannelsOf(a) : ch.id = e.id /\ ch.app = e.app
        BY <1>6, <4>2 DEF ListsShrink
      <4> QED BY <4>2, <4>3 DEF Tagged
    <3>2. CASE Announced(lane', y, id)
      BY <1>6, <3>2 DEF Tagged
    <3>3. CASE \E d \in Clients : \E out \in outlets'[d] : out.app = y /\ out.id = id
      BY <3>3 DEF Tagged, Aside
    <3>4. Lists' = Lists
      BY DEF Lists, Apps
    <3> QED BY <2>3, <3>1, <3>2, <3>3, <3>4 DEF Tagged
  <2>4. TagsApart'
    BY <2>3, TagsTaken DEF Aside
  <2> QED BY <1>3, <1>4, <1>5, <1>6, <2>1, <2>2, <2>4 DEF IInv
<1>7. CASE UNCHANGED <<lane, caps>>
  <2>1. HubTyped'
    BY <1>2, <1>7 DEF IInv, HubTyped, Apps, Aside, Recorders
  <2>2. \A a \in Lists : ChannelsOf(a)' = ChannelsOf(a)
    BY <1>7 DEF ChannelsOf, Aside
  <2>3. ListsShrink
    BY <2>2 DEF ListsShrink
  <2>4. AllInOrder(lane') /\ \A a \in Lists : \A e \in ChannelsOf(a)' : e.opened => OpenTo(lane', e.client, e.id)
    BY <1>7, <2>2, LanesAtHand
  <2>5. CapturesTrue'
    BY <1>7, SameCaptures DEF Aside
  <2> QED BY <1>6, <1>7, <2>1, <2>3, <2>4, <2>5
<1>8. CASE app # NoApp /\ DetachConnection(app, x)
  <2>1. app \in Apps /\ app # 0 /\ app \in Lists
    BY <1>8, <1>a, KnownApplication, LanesAtHand DEF Lists
  <2>2. caps \in [Apps -> Captured] /\ caps[app] \in Captured /\ caps[app].chs \in Seq(Channels)
    BY <2>1 DEF IInv, HubTyped, Captured
  <2>3. PICK mine : mine = MineOf(caps[app].chs, x)
    OBVIOUS
  <2>4. PICK rest : rest = RestOf(caps[app].chs, x)
    OBVIOUS
  <2>5. PICK k : k = IF rest = <<>> THEN NoCapture ELSE [caps[app] EXCEPT !.chs = rest]
    OBVIOUS
  <2>6. lane' = Closed(mine) /\ caps' = [caps EXCEPT ![app] = k]
    BY <1>8, <2>2, <2>3, <2>4, <2>5 DEF DetachConnection, MineOf, RestOf, Retained
  <2>7. /\ mine \in Seq(Channels) /\ \A e \in ToSet(mine) : e \in ChannelsOf(app) /\ e.app = x
        /\ rest \in Seq(Channels) /\ \A e \in ToSet(rest) : e \in ChannelsOf(app) /\ e.app # x
    <3>1. ChannelsOf(app) = ToSet(caps[app].chs)
      BY <2>1, LanesAtHand
    <3> QED BY <2>2, <2>3, <2>4, <3>1, SplitWorks
  <2>8. k \in Captured /\ k.chs = rest /\ k.src \in {caps[app].src, 0}
    <3>1. CASE rest = <<>>
      BY <2>5, <2>7, <3>1 DEF NoCapture, Captured
    <3>2. CASE rest # <<>>
      BY <2>2, <2>5, <2>7, <3>2 DEF Captured
    <3> QED BY <3>1, <3>2
  <2>9. caps' \in [Apps -> Captured] /\ caps'[app] = k /\ \A a \in Apps : a # app => caps'[a] = caps[a]
    BY <2>1, <2>2, <2>6, <2>8
  <2>10. /\ lane' \in Lanes /\ AllInOrder(lane')
         /\ \A d \in Clients : \A id :
              OpenTo(lane, d, id) /\ (\A ch \in ToSet(mine) : ch.id # id) => OpenTo(lane', d, id)
         /\ \A y, id : Announced(lane', y, id) => Announced(lane, y, id)
    BY <2>6, <2>7, LanesAtHand, ClosedWorks
  <2>11. ChannelsOf(app)' = ToSet(rest) /\ \A a \in Lists \ {app} : ChannelsOf(a)' = ChannelsOf(a)
    BY <2>1, <2>8, <2>9 DEF ChannelsOf, Lists, Aside
  <2>12. \A a \in Lists : ChannelsOf(a)' \subseteq ChannelsOf(a)
    BY <2>7, <2>11
  <2>13. ListsShrink
    BY <2>12 DEF ListsShrink
  <2>14. ASSUME NEW a \in Lists, NEW e \in ChannelsOf(a)', e.opened PROVE OpenTo(lane', e.client, e.id)
    <3>1. e \in ChannelsOf(a) /\ (a = app => e.app # x)
      BY <2>7, <2>11, <2>12, <2>14
    <3>2. OpenTo(lane, e.client, e.id) /\ e.client \in Clients
      BY <2>14, <3>1, LanesAtHand DEF Channels
    <3>3. \A ch \in ToSet(mine) : ch.id # e.id
      BY <2>1, <2>7, <3>1 DEF IInv, IdsApart
    <3> QED BY <2>10, <3>2, <3>3
  <2>15. HubTyped'
    <3>1. lane' \in [Clients -> Seq(Frames)] /\ \A d \in Clients : Len(lane'[d]) <= LaneCap
      BY <2>10 DEF Lanes
    <3> QED BY <1>2, <2>9, <3>1 DEF IInv, HubTyped, Apps, Aside, Recorders
  <2>16. CapturesTrue'
    <3>1. \A a \in Apps : caps'[a].src \in {caps[a].src, 0}
      BY <2>8, <2>9
    <3> QED BY <2>13, <3>1, CapturesKeep DEF Aside
  <2> QED BY <1>6, <2>10, <2>13, <2>14, <2>15, <2>16
<1> QED BY <1>7, <1>8, <1>a DEF OnDisconnected

(* The listener task of a connection touches neither the hub nor the         *)
(* players.                                                                  *)
LEMMA ListenerKeeps ==
    ASSUME IInv, UNCHANGED <<hubVars, outVars, config, acked>>, OutTyped', TagsApart', RegistryTrue'
    PROVE  IInv'
<1>1. \A a \in Lists : ChannelsOf(a)' = ChannelsOf(a)
  BY DEF ChannelsOf, hubVars
<1>2. Lists' = Lists /\ Apps' = Apps /\ X11' = X11
  BY DEF Lists, Apps, X11
<1>3. HubTyped' /\ OneRecorder'
  BY DEF IInv, HubTyped, OneRecorder, hubVars, Recorders, Apps
<1>4. IdsApart'
  <2>1. ListsShrink
    BY <1>1 DEF ListsShrink
  <2> QED BY <2>1, IdsKeep DEF hubVars
<1>5. LanesInOrder'
  BY <1>1, <1>2 DEF IInv, LanesInOrder, hubVars, outVars
<1>6. Ruled'
  BY DEF IInv, Ruled, Heard, outVars
<1>7. CapturesTrue'
  BY SameCaptures DEF hubVars
<1> QED BY <1>3, <1>4, <1>5, <1>6, <1>7 DEF IInv

(* And the ids it meets are the same ones.                                   *)
LEMMA SameTags ==
    ASSUME IInv, UNCHANGED <<hubVars, outlets>>
    PROVE  \A x, id : Tagged(x, id)' <=> Tagged(x, id)
<1>1. Lists' = Lists /\ \A a \in Lists : ChannelsOf(a)' = ChannelsOf(a)
  BY DEF ChannelsOf, hubVars, Lists, Apps
<1>2. lane' = lane /\ outlets' = outlets
  BY DEF hubVars
<1> QED BY <1>1, <1>2 DEF Tagged

(* An event goes to the end of its relay task's queue.                       *)
LEMMA EventAdded ==
    ASSUME IInv, NEW c, NEW e \in Events, events' = [events EXCEPT ![c] = Append(@, e)]
    PROVE  /\ events' \in [Clients -> Seq(Events)]
           /\ \A d \in Clients : \A i \in 1 .. Len(events'[d]) :
                \/ i \in 1 .. Len(events[d]) /\ events'[d][i] = events[d][i]
                \/ d = c /\ i = Len(events[d]) + 1 /\ events'[d][i] = e
<1>1. events \in [Clients -> Seq(Events)]
  BY DEF IInv, OutTyped, Events
<1>2. \A d \in Clients : events'[d] = IF d = c THEN Append(events[d], e) ELSE events[d]
  BY <1>1
<1>3. events' \in [Clients -> Seq(Events)]
  <2>1. \A d \in Clients : Append(events[d], e) \in Seq(Events)
    BY <1>1
  <2>2. \A d \in Clients : events'[d] \in Seq(Events)
    BY <1>1, <1>2, <2>1
  <2>3. events' = [d \in Clients |-> events'[d]]
    BY <1>1
  <2> QED BY <2>2, <2>3
<1>4. ASSUME NEW d \in Clients, NEW i \in 1 .. Len(events'[d])
      PROVE  \/ i \in 1 .. Len(events[d]) /\ events'[d][i] = events[d][i]
             \/ d = c /\ i = Len(events[d]) + 1 /\ events'[d][i] = e
  <2>1. PICK s \in Seq(Events) : s = events[d]
    BY <1>1
  <2>2. CASE d = c
    <3>1. events'[d] = Append(s, e)
      BY <1>2, <2>1, <2>2
    <3>2. Len(Append(s, e)) = Len(s) + 1 /\ Append(s, e)[Len(s) + 1] = e
          /\ \A k \in 1 .. Len(s) : Append(s, e)[k] = s[k]
      OBVIOUS
    <3>3. i \in 1 .. Len(s) \/ i = Len(s) + 1
      BY <3>1, <3>2
    <3> QED BY <2>1, <2>2, <3>1, <3>2, <3>3
  <2>3. CASE d # c
    BY <1>2, <2>3
  <2> QED BY <2>2, <2>3
<1> QED BY <1>3, <1>4

(* handle_x11_connection: a connection arrives, once, under an id that       *)
(* nobody has met.                                                           *)
LEMMA ConnectsKeeps ==
    ASSUME IInv, NEW x \in X11, Connects(x)
    PROVE  IInv'
<1>1. /\ sock[x] = "new" /\ sock' = [sock EXCEPT ![x] = "open"]
      /\ registry' = Register(registry, x, config.pid[x])
      /\ UNCHANGED <<hubVars, outVars, config, acked>>
  BY DEF Connects
<1>2. PICK c : c = Owner(x)
  OBVIOUS
<1>3. PICK e : e = [kind |-> "connected", conn |-> x]
  OBVIOUS
<1>4. e \in Events /\ events' = [events EXCEPT ![c] = Append(@, e)] /\ Arrives(e, x)
      /\ \A y : Arrives(e, y) => y = x
  BY <1>2, <1>3 DEF Connects, Events, Arrives
<1>5. x \in Conns /\ config.pid[x] \in Nat /\ X11 \subseteq Conns /\ config \in Configs
  BY ConfigAssumption DEF IInv, HubTyped, X11
<1>6. /\ sock' \in [Conns -> {"new", "open", "closing", "gone"}] /\ sock'[x] = "open"
      /\ \A y \in Conns : y # x => sock'[y] = sock[y]
  BY <1>1, <1>5 DEF IInv, OutTyped
<1>7. RegistryTrue'
  <2>1. Home(Register(registry, x, config.pid[x]), config.pid)
    BY <1>5, RegisterHome DEF IInv, RegistryTrue, X11
  <2> QED BY <1>1, <2>1 DEF RegistryTrue
<1>8. OutTyped'
  <2>1. events' \in [Clients -> Seq([kind : {"connected", "disconnected"}, conn : X11])]
    BY <1>4, EventAdded DEF Events
  <2>2. X11' = X11
    BY <1>1 DEF X11
  <2> QED BY <1>1, <1>6, <2>1, <2>2 DEF IInv, OutTyped, outVars
<1>9. \A y, id : Tagged(y, id)' <=> Tagged(y, id)
  BY <1>1, SameTags DEF outVars
<1>10. TagsApart'
  <2>0. TagsApart
    BY DEF IInv
  <2>1. \A d \in Clients : \A i \in 1 .. Len(events'[d]) :
                \/ i \in 1 .. Len(events[d]) /\ events'[d][i] = events[d][i]
                \/ d = c /\ i = Len(events[d]) + 1 /\ events'[d][i] = e
    BY <1>4, EventAdded
  <2>2. \A d \in Clients : \A i \in 1 .. Len(events[d]) : ~Arrives(events[d][i], x)
    BY <1>1, <1>5, <2>0 DEF TagsApart
  <2>3. \A id : ~Tagged(x, id)
    BY <1>1, <1>5, <2>0 DEF TagsApart
  <2>4. (\A y \in Conns : \A i, j : Tagged(y, i) /\ Tagged(y, j) => i = j)'
    BY <1>9, <2>0 DEF TagsApart
  <2>5. (\A y \in Conns : sock[y] = "new" => \A i : ~Tagged(y, i))'
    BY <1>6, <1>9, <2>0 DEF TagsApart
  <2>6. ASSUME NEW d \in Clients, NEW i \in 1 .. Len(events'[d]), NEW y \in Conns, Arrives(events'[d][i], y)
        PROVE  /\ sock'[y] # "new" /\ \A id : ~Tagged(y, id)'
               /\ \A g \in Clients : \A j \in 1 .. Len(events'[g]) : Arrives(events'[g][j], y) => d = g /\ i = j
    <3>1. CASE i \in 1 .. Len(events[d]) /\ events'[d][i] = events[d][i]
      <4>1. y # x /\ Arrives(events[d][i], y)
        BY <2>2, <2>6, <3>1
      <4>2. /\ sock[y] # "new" /\ \A id : ~Tagged(y, id)
            /\ \A g \in Clients : \A j \in 1 .. Len(events[g]) : Arrives(events[g][j], y) => d = g /\ i = j
        BY <2>0, <3>1, <4>1 DEF TagsApart
      <4>3. ~Arrives(e, y)
        BY <1>4, <4>1
      <4>4. ASSUME NEW g \in Clients, NEW j \in 1 .. Len(events'[g]), Arrives(events'[g][j], y)
            PROVE  d = g /\ i = j
        BY <2>1, <4>2, <4>3, <4>4
      <4> QED BY <1>6, <1>9, <4>1, <4>2, <4>4
    <3>2. CASE d = c /\ i = Len(events[d]) + 1 /\ events'[d][i] = e
      <4>1. y = x
        BY <1>4, <2>6, <3>2
      <4>2. ASSUME NEW g \in Clients, NEW j \in 1 .. Len(events'[g]), Arrives(events'[g][j], y)
            PROVE  d = g /\ i = j
        BY <2>1, <2>2, <3>2, <4>1, <4>2
      <4> QED BY <1>6, <1>9, <2>3, <4>1, <4>2
    <3> QED BY <2>1, <3>1, <3>2
  <2> QED BY <2>4, <2>5, <2>6 DEF TagsApart
<1> QED BY <1>1, <1>7, <1>8, <1>10, ListenerKeeps

(* A connection leaves, with an event that announces nothing.                *)
LEMMA DisconnectsKeeps ==
    ASSUME IInv, NEW x \in X11, Disconnects(x)
    PROVE  IInv'
<1>1. /\ sock[x] = "open" /\ sock' = [sock EXCEPT ![x] = "closing"]
      /\ UNCHANGED <<hubVars, outVars, config, acked, registry>>
  BY DEF Disconnects
<1>2. PICK c : c = Owner(x)
  OBVIOUS
<1>3. PICK e : e = [kind |-> "disconnected", conn |-> x]
  OBVIOUS
<1>4. e \in Events /\ events' = [events EXCEPT ![c] = Append(@, e)] /\ \A y : ~Arrives(e, y)
  BY <1>2, <1>3 DEF Disconnects, Events, Arrives
<1>5. x \in Conns
  BY ConfigAssumption DEF IInv, HubTyped, X11
<1>6. /\ sock' \in [Conns -> {"new", "open", "closing", "gone"}]
      /\ \A y \in Conns : sock'[y] = "new" <=> sock[y] = "new"
  BY <1>1, <1>5 DEF IInv, OutTyped
<1>7. RegistryTrue'
  BY <1>1 DEF IInv, RegistryTrue
<1>8. OutTyped'
  <2>1. events' \in [Clients -> Seq([kind : {"connected", "disconnected"}, conn : X11])]
    BY <1>4, EventAdded DEF Events
  <2>2. X11' = X11
    BY <1>1 DEF X11
  <2> QED BY <1>1, <1>6, <2>1, <2>2 DEF IInv, OutTyped, outVars
<1>9. \A y, id : Tagged(y, id)' <=> Tagged(y, id)
  BY <1>1, SameTags DEF outVars
<1>10. TagsApart'
  <2>0. TagsApart
    BY DEF IInv
  <2>1. \A d \in Clients : \A i \in 1 .. Len(events'[d]) : \A y : Arrives(events'[d][i], y) =>
            i \in 1 .. Len(events[d]) /\ Arrives(events[d][i], y)
    <3>1. \A d \in Clients : \A i \in 1 .. Len(events'[d]) :
                \/ i \in 1 .. Len(events[d]) /\ events'[d][i] = events[d][i]
                \/ d = c /\ i = Len(events[d]) + 1 /\ events'[d][i] = e
      BY <1>4, EventAdded
    <3> QED BY <1>4, <3>1
  <2>4. (\A y \in Conns : \A i, j : Tagged(y, i) /\ Tagged(y, j) => i = j)'
    BY <1>9, <2>0 DEF TagsApart
  <2>5. (\A y \in Conns : sock[y] = "new" => \A i : ~Tagged(y, i))'
    BY <1>6, <1>9, <2>0 DEF TagsApart
  <2>6. ASSUME NEW d \in Clients, NEW i \in 1 .. Len(events'[d]), NEW y \in Conns, Arrives(events'[d][i], y)
        PROVE  /\ sock'[y] # "new" /\ \A id : ~Tagged(y, id)'
               /\ \A g \in Clients : \A j \in 1 .. Len(events'[g]) : Arrives(events'[g][j], y) => d = g /\ i = j
    <3>1. i \in 1 .. Len(events[d]) /\ Arrives(events[d][i], y)
      BY <2>1, <2>6
    <3>2. /\ sock[y] # "new" /\ \A id : ~Tagged(y, id)
          /\ \A g \in Clients : \A j \in 1 .. Len(events[g]) : Arrives(events[g][j], y) => d = g /\ i = j
      BY <2>0, <3>1 DEF TagsApart
    <3> QED BY <1>6, <1>9, <2>1, <3>2
  <2> QED BY <2>4, <2>5, <2>6 DEF TagsApart
<1> QED BY <1>1, <1>7, <1>8, <1>10, ListenerKeeps

(* Its registration goes, if the event's handler did not take it already.    *)
LEMMA UnregistersKeeps ==
    ASSUME IInv, NEW x \in X11, Unregisters(x)
    PROVE  IInv'
<1>1. /\ sock[x] = "closing" /\ sock' = [sock EXCEPT ![x] = "gone"]
      /\ registry' = Unregister(registry, x)
      /\ UNCHANGED <<hubVars, outVars, config, acked, events>>
  BY DEF Unregisters
<1>2. x \in Conns
  BY ConfigAssumption DEF IInv, HubTyped, X11
<1>3. /\ sock' \in [Conns -> {"new", "open", "closing", "gone"}]
      /\ \A y \in Conns : sock'[y] = "new" <=> sock[y] = "new"
  BY <1>1, <1>2 DEF IInv, OutTyped
<1>4. RegistryTrue'
  <2>1. Home(Unregister(registry, x), config.pid)
    BY UnregisterHome DEF IInv, RegistryTrue
  <2> QED BY <1>1, <2>1 DEF RegistryTrue
<1>5. OutTyped'
  <2>1. X11' = X11
    BY <1>1 DEF X11
  <2> QED BY <1>1, <1>3, <2>1 DEF IInv, OutTyped, outVars
<1>6. TagsShrink
  BY <1>1, SameTags DEF TagsShrink, outVars
<1>7. TagsApart'
  BY <1>1, <1>3, <1>6, TagsKeep
<1> QED BY <1>1, <1>4, <1>5, <1>7, ListenerKeeps

(* The relay task: the first ack of a client attaches it.                    *)
LEMMA AckKeeps ==
    ASSUME IInv, NEW c \in Clients, Ack(c)
    PROVE  IInv'
<1>1. /\ acked' \subseteq Clients /\ UNCHANGED <<outVars, config, sock, events, registry>>
      /\ linked \subseteq Clients /\ lanes \subseteq Clients /\ graph \subseteq config.nodes
  BY DEF Ack, IInv, HubTyped
<1>2. CASE UNCHANGED hubVars
  BY <1>1, <1>2, SurroundingsKeep DEF hubVars
<1>3. CASE AttachPerApp(c)
  BY <1>1, <1>3, SurroundingsKeep DEF AttachPerApp
<1>4. CASE AttachMix(c)
  BY <1>1, <1>4, AttachMixKeeps
<1> QED BY <1>2, <1>3, <1>4 DEF Ack

(* The transport of a client breaks.                                         *)
LEMMA LinkDiesKeeps ==
    ASSUME IInv, NEW c \in Clients, LinkDies(c)
    PROVE  IInv'
<1>1. linked' \subseteq Clients /\ lanes \subseteq Clients /\ acked \subseteq Clients /\ graph \subseteq config.nodes
  BY DEF LinkDies, IInv, HubTyped
<1>2. UNCHANGED outVars /\ UNCHANGED <<config, sock, events, registry>> /\ UNCHANGED <<acked, lanes, graph>>
      /\ UNCHANGED <<lane, subs, running, recs, caps, nextId>>
  BY DEF LinkDies, wireVars
<1> QED BY <1>1, <1>2, SurroundingsKeep

(* A process starts or stops playing.                                        *)
LEMMA PlaysKeeps ==
    ASSUME IInv, NEW node \in config.nodes, Plays(node), UNCHANGED <<outVars, wireVars>>
    PROVE  IInv'
<1>1. linked \subseteq Clients /\ lanes \subseteq Clients /\ acked \subseteq Clients /\ graph' \subseteq config.nodes
  BY DEF Plays, IInv, HubTyped
<1>2. UNCHANGED outVars /\ UNCHANGED <<config, sock, events, registry>> /\ UNCHANGED <<acked, lanes, linked>>
      /\ UNCHANGED <<lane, subs, running, recs, caps, nextId>>
  BY DEF Plays, wireVars
<1> QED BY <1>1, <1>2, SurroundingsKeep

(* The relay task takes the next event of its X11 connections.               *)
LEMMA TakeEventKeeps ==
    ASSUME IInv, NEW c \in Clients, TakeEvent(c)
    PROVE  IInv'
<1>1. events[c] # <<>> /\ events' = [events EXCEPT ![c] = Tail(@)] /\ Aside
  BY DEF TakeEvent, Aside
<1>2. PICK x : x = Head(events[c]).conn
  OBVIOUS
<1>3. CASE Head(events[c]).kind = "connected"
  BY <1>1, <1>2, <1>3, ArrivalKeeps DEF TakeEvent
<1>4. CASE Head(events[c]).kind # "connected"
  BY <1>1, <1>2, <1>4, DepartureKeeps DEF TakeEvent
<1> QED BY <1>3, <1>4

(* The pumps and the monitor on the client: what the focus needs, and not    *)
(* the players.                                                              *)
LEMMA MonitorKeeps ==
    ASSUME IInv, UNCHANGED <<hubVars, wireVars>>, UNCHANGED <<perApp, outlets, known, fore>>,
           pump' \in [Conns -> {"none", "opening", "open", "asked", "up", "over"}],
           ranges' \in [Clients -> SUBSET Conns]
    PROVE  IInv'
<1>1. \A a \in Lists : ChannelsOf(a)' = ChannelsOf(a)
  BY DEF ChannelsOf, hubVars
<1>2. Lists' = Lists /\ Apps' = Apps /\ X11' = X11
  BY DEF Lists, Apps, X11, wireVars
<1>3. HubTyped' /\ OneRecorder'
  BY DEF IInv, HubTyped, OneRecorder, hubVars, wireVars, Recorders, Apps
<1>4. OutTyped'
  BY <1>2 DEF IInv, OutTyped, wireVars
<1>5. IdsApart'
  <2>1. ListsShrink
    BY <1>1 DEF ListsShrink
  <2> QED BY <2>1, IdsKeep DEF hubVars
<1>6. LanesInOrder'
  BY <1>1, <1>2 DEF IInv, LanesInOrder, hubVars
<1>7. TagsApart'
  <2>1. TagsShrink
    BY SameTags DEF TagsShrink
  <2> QED BY <2>1, TagsKeep DEF wireVars
<1>8. Ruled' /\ RegistryTrue'
  BY DEF IInv, Ruled, Heard, RegistryTrue, wireVars
<1>9. CapturesTrue'
  BY SameCaptures DEF hubVars, wireVars
<1> QED BY <1>3, <1>4, <1>5, <1>6, <1>7, <1>8, <1>9 DEF IInv

(* Every step of the pumps and of the monitor is of that kind.               *)
LEMMA PumpsKeep ==
    ASSUME IInv, UNCHANGED wireVars, NEW c,
           \/ AskFocus(c) \/ MonitorBreaks(c) \/ FocusMoves(c)
           \/ \E x \in X11 : SpawnLocal(x, c, config.local) \/ SetupRequest(x, c)
                             \/ SetupReply(x, c) \/ PumpEnds(x, c)
    PROVE  IInv'
<1>1. /\ pump \in [Conns -> {"none", "opening", "open", "asked", "up", "over"}]
      /\ ranges \in [Clients -> SUBSET Conns] /\ X11 \subseteq Conns
  BY ConfigAssumption DEF IInv, OutTyped, HubTyped, X11
<1>2. CASE AskFocus(c) \/ MonitorBreaks(c) \/ FocusMoves(c)
  BY <1>1, <1>2, MonitorKeeps DEF AskFocus, MonitorBreaks, FocusMoves
<1>3. ASSUME NEW x \in X11, SpawnLocal(x, c, config.local) \/ SetupRequest(x, c)
      PROVE  IInv'
  <2>1. pump' \in [Conns -> {"none", "opening", "open", "asked", "up", "over"}]
    BY <1>1, <1>3 DEF SpawnLocal, SetupRequest
  <2> QED BY <1>1, <1>3, <2>1, MonitorKeeps DEF SpawnLocal, SetupRequest
<1>4. ASSUME NEW x \in X11, SetupReply(x, c) \/ PumpEnds(x, c)
      PROVE  IInv'
  <2>1. pump' \in [Conns -> {"none", "opening", "open", "asked", "up", "over"}]
    BY <1>1, <1>4 DEF SetupReply, PumpEnds
  <2>2. ranges' \in [Clients -> SUBSET Conns]
    <3>1. CASE SetupReply(x, c)
      BY <1>1, <1>4, <3>1 DEF SetupReply
    <3>2. CASE PumpEnds(x, c)
      BY <1>1, <3>2 DEF PumpEnds
    <3> QED BY <1>4, <3>1, <3>2
  <2> QED BY <1>4, <2>1, <2>2, MonitorKeeps DEF SetupReply, PumpEnds
<1> QED BY <1>2, <1>3, <1>4

(* refresh_audibility gives every player what the rule says; with one id for *)
(* each tag and one player for each id, the first of its application is the  *)
(* only one.                                                                 *)
Distinct(outs) ==
    /\ \A out, o \in outs : out.id = o.id => out = o
    /\ \A out, o \in outs : out.app \in Conns /\ out.app = o.app => out.id = o.id

(* The table after refresh_audibility.                                       *)
LEMMA RefreshRules ==
    ASSUME NEW outs \in SUBSET Players, Distinct(outs), NEW fg \in Tags, NEW new,
           new = RefreshAudibility(outs, fg)
    PROVE  /\ new \in SUBSET Players
           /\ \A out \in new : out.audible = Heard(fg, out) /\ \E o \in outs : o.app = out.app /\ o.id = out.id
           /\ \A out, o \in new : out.id = o.id => out = o
<1>1. ASSUME NEW out \in outs, out.app # NoConn PROVE FirstOfApp(outs, out)
  <2>1. out.app \in Conns /\ out.id \in Nat
    BY <1>1 DEF Players, Tags
  <2>2. \A o \in outs : o.app = out.app => out.id = o.id
    BY <2>1 DEF Distinct
  <2> QED BY <2>1, <2>2 DEF FirstOfApp
<1>2. ASSUME NEW out \in outs PROVE IsAudible(outs, fg, out) = Heard(fg, out)
  BY <1>1 DEF IsAudible, Heard
<1>3. \A out \in outs : Heard(fg, out) \in BOOLEAN
  BY DEF Heard
<1>4. ASSUME NEW out \in outs
      PROVE  LET o == [out EXCEPT !.audible = IsAudible(outs, fg, out)]
             IN  /\ o \in Players /\ o.app = out.app /\ o.id = out.id /\ o.audible = Heard(fg, o)
  <2> DEFINE o == [out EXCEPT !.audible = IsAudible(outs, fg, out)]
  <2>1. o.app = out.app /\ o.id = out.id /\ o.audible = Heard(fg, out)
    BY <1>2 DEF Players
  <2>2. Heard(fg, o) = Heard(fg, out)
    BY <2>1 DEF Heard
  <2>3. o \in Players
    BY <1>2, <1>3 DEF Players
  <2> QED BY <2>1, <2>2, <2>3
<1>5. \A q \in new : \E out \in outs : q = [out EXCEPT !.audible = IsAudible(outs, fg, out)]
  BY DEF RefreshAudibility
<1>6. ASSUME NEW p \in new, NEW q \in new, p.id = q.id PROVE p = q
  <2>1. PICK a \in outs : p = [a EXCEPT !.audible = IsAudible(outs, fg, a)]
    BY <1>5
  <2>2. PICK b \in outs : q = [b EXCEPT !.audible = IsAudible(outs, fg, b)]
    BY <1>5
  <2>3. a.id = b.id
    BY <1>4, <1>6, <2>1, <2>2
  <2>4. a = b
    BY <2>3 DEF Distinct
  <2> QED BY <2>1, <2>2, <2>4
<1>7. ASSUME NEW q \in new
      PROVE  q \in Players /\ q.audible = Heard(fg, q) /\ \E o \in outs : o.app = q.app /\ o.id = q.id
  <2>1. PICK a \in outs : q = [a EXCEPT !.audible = IsAudible(outs, fg, a)]
    BY <1>5
  <2> QED BY <1>4, <2>1
<1>8. new \in SUBSET Players
  BY <1>7
<1> QED BY <1>6, <1>7, <1>8

(* The players at hand are told apart.                                       *)
LEMMA PlayersAtHand ==
    ASSUME IInv, NEW c \in Clients
    PROVE  /\ outlets[c] \in SUBSET Players /\ Distinct(outlets[c]) /\ fore[c] \in Tags
           /\ \A out \in outlets[c] : out.audible = Heard(fore[c], out) /\ Tagged(out.app, out.id)
<1>1. outlets[c] \in SUBSET Players /\ fore[c] \in Tags
  BY DEF IInv, OutTyped
<1>2. \A out \in outlets[c] : out.audible = Heard(fore[c], out)
  BY DEF IInv, Ruled
<1>3. \A out, o \in outlets[c] : out.id = o.id => out = o
  BY DEF IInv, Ruled
<1>4. \A out \in outlets[c] : Tagged(out.app, out.id)
  BY DEF Tagged
<1>5. \A x \in Conns : \A i, j : Tagged(x, i) /\ Tagged(x, j) => i = j
  BY DEF IInv, TagsApart
<1>6. \A out, o \in outlets[c] : out.app \in Conns /\ out.app = o.app => out.id = o.id
  BY <1>4, <1>5
<1> QED BY <1>1, <1>2, <1>3, <1>4, <1>6 DEF Distinct

(* A step of one client's table: the players of the others stay, and the     *)
(* ids of its own were met before.                                           *)
LEMMA TableKeeps ==
    ASSUME IInv, NEW c \in Clients, NEW outs, NEW fg, outs \in SUBSET Players, fg \in Tags,
           outlets' = [outlets EXCEPT ![c] = outs], fore' = [fore EXCEPT ![c] = fg],
           \A out \in outs : out.audible = Heard(fg, out) /\ Tagged(out.app, out.id),
           \A out, o \in outs : out.id = o.id => out = o,
           UNCHANGED perApp
    PROVE  /\ Ruled' /\ outlets' \in [Clients -> SUBSET Players] /\ fore' \in [Clients -> Tags]
           /\ \A d \in Clients : \A out \in outlets'[d] : Tagged(out.app, out.id)
<1>1. outlets \in [Clients -> SUBSET Players] /\ fore \in [Clients -> Tags]
  BY DEF IInv, OutTyped
<1>2. /\ outlets' \in [Clients -> SUBSET Players] /\ fore' \in [Clients -> Tags]
      /\ outlets'[c] = outs /\ fore'[c] = fg
      /\ \A d \in Clients : d # c => outlets'[d] = outlets[d] /\ fore'[d] = fore[d]
  BY <1>1
<1>3. ASSUME NEW d \in Clients
      PROVE  /\ \A out \in outlets'[d] : out.audible = Heard(fore'[d], out) /\ Tagged(out.app, out.id)
             /\ \A out, o \in outlets'[d] : out.id = o.id => out = o
  <2>1. CASE d = c
    BY <1>2, <2>1
  <2>2. CASE d # c
    <3>1. \A out, o \in outlets[d] : out.id = o.id => out = o
      BY DEF IInv, Ruled
    <3> QED BY <1>2, <2>2, <3>1, PlayersAtHand
  <2> QED BY <2>1, <2>2
<1>4. Ruled'
  <2>1. \A d \in Clients : \A out \in outlets'[d] : Heard(fore[d], out)' = Heard(fore'[d], out)
    BY DEF Heard
  <2> QED BY <1>3, <2>1 DEF Ruled
<1> QED BY <1>2, <1>3, <1>4

(* A step of the tables leaves the hub and the wire alone.                   *)
LEMMA PlayersKeep ==
    ASSUME IInv, UNCHANGED <<hubVars, wireVars>>, UNCHANGED <<perApp, known, pump, ranges>>,
           Ruled', outlets' \in [Clients -> SUBSET Players], fore' \in [Clients -> Tags],
           \A d \in Clients : \A out \in outlets'[d] : Tagged(out.app, out.id)
    PROVE  IInv'
<1>1. \A a \in Lists : ChannelsOf(a)' = ChannelsOf(a)
  BY DEF ChannelsOf, hubVars
<1>2. Lists' = Lists /\ Apps' = Apps /\ X11' = X11
  BY DEF Lists, Apps, X11, wireVars
<1>3. HubTyped' /\ OneRecorder'
  BY DEF IInv, HubTyped, OneRecorder, hubVars, wireVars, Recorders, Apps
<1>4. OutTyped'
  BY <1>2 DEF IInv, OutTyped, wireVars
<1>5. IdsApart'
  <2>1. ListsShrink
    BY <1>1 DEF ListsShrink
  <2> QED BY <2>1, IdsKeep DEF hubVars
<1>6. LanesInOrder'
  BY <1>1, <1>2 DEF IInv, LanesInOrder, hubVars
<1>7. TagsApart'
  <2>1. ASSUME NEW x, NEW id, Tagged(x, id)' PROVE Tagged(x, id)
    <3>1. CASE \E a \in Lists : \E ch \in ChannelsOf(a)' : ch.app = x /\ ch.id = id
      BY <1>1, <3>1 DEF Tagged
    <3>2. CASE Announced(lane', x, id)
      BY <3>2 DEF Tagged, hubVars
    <3>3. CASE \E d \in Clients : \E out \in outlets'[d] : out.app = x /\ out.id = id
      BY <3>3
    <3> QED BY <1>2, <2>1, <3>1, <3>2, <3>3 DEF Tagged
  <2>2. TagsShrink
    BY <2>1 DEF TagsShrink
  <2> QED BY <2>2, TagsKeep DEF wireVars
<1>8. RegistryTrue'
  BY DEF IInv, RegistryTrue, wireVars
<1>9. CapturesTrue'
  BY SameCaptures DEF hubVars, wireVars
<1> QED BY <1>3, <1>4, <1>5, <1>6, <1>7, <1>8, <1>9 DEF IInv

(* A player dies; its outlet stays until the next packet.                    *)
LEMMA PlayerDiesKeeps ==
    ASSUME IInv, NEW c \in Clients, PlayerDies(c), UNCHANGED wireVars
    PROVE  IInv'
<1>1. PICK out \in outlets[c] :
        outlets' = [outlets EXCEPT ![c] = (@ \ {out}) \cup {[out EXCEPT !.alive = FALSE]}]
  BY DEF PlayerDies
<1>2. PICK dead : dead = [out EXCEPT !.alive = FALSE]
  OBVIOUS
<1>3. PICK outs : outs = (outlets[c] \ {out}) \cup {dead}
  OBVIOUS
<1>4. /\ outlets[c] \in SUBSET Players /\ Distinct(outlets[c]) /\ fore[c] \in Tags
      /\ \A o \in outlets[c] : o.audible = Heard(fore[c], o) /\ Tagged(o.app, o.id)
  BY PlayersAtHand
<1>5. dead \in Players /\ dead.app = out.app /\ dead.id = out.id /\ dead.audible = out.audible
  BY <1>2, <1>4 DEF Players
<1>6. Heard(fore[c], dead) = Heard(fore[c], out)
  BY <1>5 DEF Heard
<1>7. outs \in SUBSET Players /\ \A o \in outs : o.audible = Heard(fore[c], o) /\ Tagged(o.app, o.id)
  BY <1>3, <1>4, <1>5, <1>6
<1>8. \A p, o \in outs : p.id = o.id => p = o
  <2>1. \A o \in outlets[c] : o.id = out.id => o = out
    BY <1>4 DEF Distinct
  <2>2. \A p, o \in outlets[c] : p.id = o.id => p = o
    BY <1>4 DEF Distinct
  <2> QED BY <1>3, <1>5, <2>1, <2>2
<1>9. outlets' = [outlets EXCEPT ![c] = outs] /\ fore' = [fore EXCEPT ![c] = fore[c]]
      /\ UNCHANGED <<perApp, known, pump, ranges>> /\ UNCHANGED hubVars
  <2>1. fore \in [Clients -> Tags]
    BY DEF IInv, OutTyped
  <2> QED BY <1>1, <1>2, <1>3, <2>1 DEF PlayerDies
<1>10. /\ Ruled' /\ outlets' \in [Clients -> SUBSET Players] /\ fore' \in [Clients -> Tags]
       /\ \A d \in Clients : \A o \in outlets'[d] : Tagged(o.app, o.id)
  <2>1. PICK fg : fg = fore[c]
    OBVIOUS
  <2>2. fg \in Tags /\ fore' = [fore EXCEPT ![c] = fg] /\ UNCHANGED perApp
    BY <1>4, <1>9, <2>1
  <2>3. outs \in SUBSET Players /\ outlets' = [outlets EXCEPT ![c] = outs]
    BY <1>7, <1>9
  <2>4. \A o \in outs : o.audible = Heard(fg, o) /\ Tagged(o.app, o.id)
    BY <1>7, <2>1
  <2> QED BY <1>8, <2>2, <2>3, <2>4, TableKeeps
<1> QED BY <1>9, <1>10, PlayersKeep

(* set_foreground: the rule runs over the table when the foreground moved.   *)
LEMMA ApplyFocusKeeps ==
    ASSUME IInv, NEW c \in Clients, ApplyFocus(c), UNCHANGED wireVars
    PROVE  IInv'
<1>1. PICK fg : fg = Foreground(c)
  OBVIOUS
<1>2. PICK outs : outs = IF fg = fore[c] THEN outlets[c] ELSE RefreshAudibility(outlets[c], fg)
  OBVIOUS
<1>3. fg \in Tags
  BY <1>1 DEF Foreground, Tags, IInv, OutTyped
<1>4. /\ outlets[c] \in SUBSET Players /\ Distinct(outlets[c])
      /\ \A o \in outlets[c] : o.audible = Heard(fore[c], o) /\ Tagged(o.app, o.id)
  BY PlayersAtHand
<1>5. /\ outs \in SUBSET Players
      /\ \A out \in outs : out.audible = Heard(fg, out) /\ Tagged(out.app, out.id)
      /\ \A out, o \in outs : out.id = o.id => out = o
  <2>1. CASE fg = fore[c]
    BY <1>2, <1>4, <2>1 DEF Distinct
  <2>2. CASE fg # fore[c]
    <3>1. outs = RefreshAudibility(outlets[c], fg)
      BY <1>2, <2>2
    <3>2. /\ outs \in SUBSET Players
          /\ \A out \in outs : out.audible = Heard(fg, out)
                               /\ \E o \in outlets[c] : o.app = out.app /\ o.id = out.id
          /\ \A out, o \in outs : out.id = o.id => out = o
      BY <1>3, <1>4, <3>1, RefreshRules
    <3>3. \A out \in outs : Tagged(out.app, out.id)
      BY <1>4, <3>2
    <3> QED BY <3>2, <3>3
  <2> QED BY <2>1, <2>2
<1>6. outlets' = [outlets EXCEPT ![c] = outs] /\ fore' = [fore EXCEPT ![c] = fg]
      /\ UNCHANGED <<perApp, known, pump, ranges>> /\ UNCHANGED hubVars
  BY <1>1, <1>2 DEF ApplyFocus
<1>7. /\ Ruled' /\ outlets' \in [Clients -> SUBSET Players] /\ fore' \in [Clients -> Tags]
      /\ \A d \in Clients : \A o \in outlets'[d] : Tagged(o.app, o.id)
  BY <1>3, <1>5, <1>6, TableKeeps
<1> QED BY <1>6, <1>7, PlayersKeep

(* The frame at the head of a lane: the players after it, told apart and     *)
(* under ids that were met.                                                  *)
PlayersAfter(c, f) ==
    CASE f.kind = "open" -> OpenAudioChannel(c, f)
      [] f.kind = "data" -> DeliverAudioPacket(c, f)
      [] f.kind = "close" -> RemoveOutlet(c, f)

(* The table after a frame follows the rule.                                 *)
LEMMA FrameRules ==
    ASSUME IInv, NEW c \in Clients, NEW f \in Frames, f.kind = "open" => Tagged(f.app, f.id),
           NEW outs, outs = PlayersAfter(c, f)
    PROVE  /\ outs \in SUBSET Players
           /\ \A out \in outs : out.audible = Heard(fore[c], out) /\ Tagged(out.app, out.id)
           /\ \A out, o \in outs : out.id = o.id => out = o
<1>1. /\ outlets[c] \in SUBSET Players /\ Distinct(outlets[c]) /\ fore[c] \in Tags
      /\ \A o \in outlets[c] : o.audible = Heard(fore[c], o) /\ Tagged(o.app, o.id)
  BY PlayersAtHand
<1>2. CASE f.kind # "open"
  <2>1. f.kind = "data" \/ f.kind = "close"
    BY <1>2 DEF Frames
  <2>2. outs \subseteq outlets[c]
    BY <2>1 DEF PlayersAfter, DeliverAudioPacket, RemoveOutlet
  <2> QED BY <1>1, <2>2 DEF Distinct
<1>3. CASE f.kind = "open"
  <2>1. PICK new : new = [id |-> f.id, app |-> f.app, audible |-> TRUE, alive |-> TRUE]
    OBVIOUS
  <2>2. new \in Players /\ new.id = f.id /\ new.app = f.app
    BY <2>1 DEF Frames, Players
  <2>3. PICK all : all = IF Owns(c, f.id) THEN outlets[c] ELSE outlets[c] \cup {new}
    OBVIOUS
  <2>4. outs = RefreshAudibility(all, fore[c])
    BY <1>3, <2>1, <2>3 DEF PlayersAfter, OpenAudioChannel
  <2>5. all \in SUBSET Players /\ \A o \in all : Tagged(o.app, o.id)
    BY <1>1, <1>3, <2>2, <2>3
  <2>6. \A out, o \in all : out.id = o.id => out = o
    BY <1>1, <2>2, <2>3 DEF Distinct, Owns
  <2>7. \A x \in Conns : \A i, j : Tagged(x, i) /\ Tagged(x, j) => i = j
    BY DEF IInv, TagsApart
  <2>8. \A out, o \in all : out.app \in Conns /\ out.app = o.app => out.id = o.id
    BY <2>5, <2>7
  <2>9. Distinct(all)
    BY <2>6, <2>8 DEF Distinct
  <2>10. /\ outs \in SUBSET Players
         /\ \A out \in outs : out.audible = Heard(fore[c], out) /\ \E o \in all : o.app = out.app /\ o.id = out.id
         /\ \A out, o \in outs : out.id = o.id => out = o
    BY <1>1, <2>4, <2>5, <2>9, RefreshRules
  <2>11. \A out \in outs : Tagged(out.app, out.id)
    BY <2>5, <2>10
  <2> QED BY <2>10, <2>11
<1> QED BY <1>2, <1>3

(* The serve loop takes a frame of its lane.                                 *)
LEMMA DispatchKeeps ==
    ASSUME IInv, NEW c \in Clients, Dispatch(c), UNCHANGED wireVars
    PROVE  IInv'
<1>1. PICK q : q = lane[c]
  OBVIOUS
<1>2. PICK f : f = Head(q)
  OBVIOUS
<1>3. PICK K : K = known[c]
  OBVIOUS
<1>4. /\ q \in Seq(Frames) /\ q # <<>> /\ Len(q) <= LaneCap /\ lane \in [Clients -> Seq(Frames)]
      /\ known \in [Clients -> SUBSET Nat] /\ InOrder(q, K)
      /\ \A d \in Clients : Len(lane[d]) <= LaneCap /\ InOrder(lane[d], known[d])
  BY <1>1, <1>3 DEF Dispatch, IInv, HubTyped, OutTyped, LanesInOrder
<1>5. f \in Frames /\ f = q[1] /\ 1 \in 1 .. Len(q)
  BY <1>2, <1>4
<1>6. /\ Tail(q) \in Seq(Frames) /\ Len(Tail(q)) = Len(q) - 1 /\ Len(q) \in Nat
      /\ \A i \in 1 .. Len(q) - 1 : Tail(q)[i] = q[i + 1]
  BY <1>4
<1>7. /\ lane' = [lane EXCEPT ![c] = Tail(q)]
      /\ outlets' = [outlets EXCEPT ![c] = PlayersAfter(c, f)]
      /\ known' = [known EXCEPT ![c] = KnownAfter(K, f)]
      /\ UNCHANGED <<perApp, pump, ranges, fore>>
      /\ UNCHANGED <<linked, subs, running, recs, caps, lanes, graph, nextId, sounds>>
  BY <1>1, <1>2, <1>3, <1>4 DEF Dispatch, PlayersAfter, KnownAfter
<1>8. /\ lane'[c] = Tail(q) /\ known'[c] = KnownAfter(K, f)
      /\ \A d \in Clients : d # c => lane'[d] = lane[d] /\ known'[d] = known[d]
  BY <1>4, <1>7
<1>9. lane' \in [Clients -> Seq(Frames)] /\ \A d \in Clients : Len(lane'[d]) <= LaneCap
  <2>1. LaneCap \in Nat
    BY LaneAssumption
  <2>2. lane' \in [Clients -> Seq(Frames)]
    BY <1>4, <1>6, <1>7
  <2> QED BY <1>4, <1>6, <1>8, <2>1, <2>2
<1>10. known' \in [Clients -> SUBSET Nat]
  <2>1. KnownAfter(K, f) \in SUBSET Nat
    BY <1>3, <1>4, <1>5 DEF KnownAfter, Frames
  <2> QED BY <1>4, <1>7, <2>1
<1>11. \A a \in Lists : ChannelsOf(a)' = ChannelsOf(a)
  BY <1>7 DEF ChannelsOf
<1>12. Lists' = Lists /\ Apps' = Apps /\ X11' = X11
  BY DEF Lists, Apps, X11, wireVars
<1>13. f.kind = "open" => Tagged(f.app, f.id)
  BY <1>1, <1>5 DEF Tagged, Announced, Control
<1>14. /\ Ruled' /\ outlets' \in [Clients -> SUBSET Players] /\ fore' \in [Clients -> Tags]
       /\ \A d \in Clients : \A out \in outlets'[d] : Tagged(out.app, out.id)
  <2>1. PICK outs : outs = PlayersAfter(c, f)
    OBVIOUS
  <2>2. PICK fg : fg = fore[c]
    OBVIOUS
  <2>3. fg \in Tags /\ fore' = [fore EXCEPT ![c] = fg] /\ outlets' = [outlets EXCEPT ![c] = outs]
    BY <1>7, <2>1, <2>2 DEF IInv, OutTyped
  <2>4. /\ outs \in SUBSET Players
        /\ \A out \in outs : out.audible = Heard(fg, out) /\ Tagged(out.app, out.id)
        /\ \A out, o \in outs : out.id = o.id => out = o
    BY <1>5, <1>13, <2>1, <2>2, FrameRules
  <2>5. UNCHANGED perApp
    BY <1>7
  <2> QED BY <2>3, <2>4, <2>5, TableKeeps
<1>15. HubTyped' /\ OutTyped'
  BY <1>7, <1>9, <1>10, <1>12, <1>14 DEF IInv, HubTyped, OutTyped, wireVars, Recorders
<1>16. OneRecorder' /\ RegistryTrue'
  BY <1>7 DEF IInv, OneRecorder, RegistryTrue, wireVars, Recorders
<1>17. IdsApart'
  <2>1. ListsShrink
    BY <1>11 DEF ListsShrink
  <2> QED BY <1>7, <2>1, IdsKeep
<1>18. LanesInOrder'
  <2>1. /\ InOrder(Tail(q), KnownAfter(K, f))
        /\ \A id : OpenAtEnd(q, K, id) => OpenAtEnd(Tail(q), KnownAfter(K, f), id)
    BY <1>2, <1>4, TailInOrder
  <2>2. \A d \in Clients : InOrder(lane'[d], known'[d])
    BY <1>4, <1>8, <2>1
  <2>3. ASSUME NEW a \in Lists, NEW ch \in ChannelsOf(a), ch.opened
        PROVE  OpenAtEnd(lane'[ch.client], known'[ch.client], ch.id)
    <3>1. ch.client \in Clients /\ OpenAtEnd(lane[ch.client], known[ch.client], ch.id)
      BY <2>3, LanesAtHand DEF OpenTo, Channels
    <3> QED BY <1>1, <1>3, <1>8, <2>1, <3>1
  <2> QED BY <1>11, <1>12, <2>2, <2>3 DEF LanesInOrder
<1>19. TagsApart'
  <2>1. ASSUME NEW x, NEW id, Announced(lane', x, id) PROVE Announced(lane, x, id)
    <3>0. PICK d \in Clients : \E i \in 1 .. Len(lane'[d]) : Control(lane'[d][i], id, "open") /\ lane'[d][i].app = x
      BY <2>1 DEF Announced
    <3>1. PICK i \in 1 .. Len(lane'[d]) : Control(lane'[d][i], id, "open") /\ lane'[d][i].app = x
      BY <3>0
    <3>2. CASE d # c
      BY <1>8, <3>1, <3>2 DEF Announced
    <3>3. CASE d = c
      <4>1. i \in 1 .. Len(q) - 1 /\ lane'[d][i] = q[i + 1] /\ i + 1 \in 1 .. Len(q)
        BY <1>6, <1>8, <3>1, <3>3
      <4> QED BY <1>1, <3>1, <3>3, <4>1 DEF Announced
    <3> QED BY <3>2, <3>3
  <2>2. ASSUME NEW x, NEW id, Tagged(x, id)' PROVE Tagged(x, id)
    <3>1. CASE \E a \in Lists : \E ch \in ChannelsOf(a)' : ch.app = x /\ ch.id = id
      BY <1>11, <3>1 DEF Tagged
    <3>2. CASE Announced(lane', x, id)
      BY <2>1, <3>2 DEF Tagged
    <3>3. CASE \E d \in Clients : \E out \in outlets'[d] : out.app = x /\ out.id = id
      BY <1>14, <3>3
    <3> QED BY <1>12, <2>2, <3>1, <3>2, <3>3 DEF Tagged
  <2>3. TagsShrink
    BY <2>2 DEF TagsShrink
  <2> QED BY <2>3, TagsKeep DEF wireVars
<1>20. CapturesTrue'
  BY <1>7, SameCaptures DEF wireVars
<1> QED BY <1>14, <1>15, <1>16, <1>17, <1>18, <1>19, <1>20 DEF IInv

-----------------------------------------------------------------------------
(* The invariant holds of every state                                        *)

(* The program starts without channels, players and registrations.           *)
LEMMA InitIInv ==
    ASSUME Init
    PROVE  IInv
<1>1. /\ config \in Configs /\ config.clients \subseteq Clients
      /\ linked = config.clients /\ lanes = {} /\ acked = {} /\ graph = {} /\ nextId = 1
      /\ lane = [c \in Clients |-> <<>>] /\ subs = <<>> /\ running = FALSE
      /\ recs = [r \in Recorders |-> "none"] /\ caps = [a \in Apps |-> NoCapture]
  BY ConfigAssumption DEF Init, HubInit, Apps
<1>2. /\ outlets = [c \in Clients |-> {}] /\ known = [c \in Clients |-> {}]
      /\ pump = [x \in Conns |-> "none"] /\ ranges = [c \in Clients |-> {}]
      /\ fore = [c \in Clients |-> NoConn] /\ sock = [x \in Conns |-> "new"]
      /\ events = [c \in Clients |-> <<>>] /\ registry = EmptyRegistry
  BY DEF Init, OutInit
<1>3. HubTyped
  <2>1. LaneCap \in Nat
    BY LaneAssumption
  <2>2. <<>> \in Seq(Frames) /\ <<>> \in Seq(Channels) /\ Len(<<>>) = 0
    OBVIOUS
  <2>3. NoCapture \in Captured
    BY <2>2 DEF NoCapture, Captured
  <2>4. lane \in [Clients -> Seq(Frames)] /\ \A c \in Clients : Len(lane[c]) <= LaneCap
    BY <1>1, <2>1, <2>2
  <2>5. caps \in [Apps -> Captured]
    <3>1. caps = [a \in Apps |-> NoCapture]
      BY <1>1
    <3> QED BY <2>3, <3>1
  <2>6. recs \in [Recorders -> {"none", "setup", "reading", "stopping"}]
    <3>1. recs = [r \in Recorders |-> "none"]
      BY <1>1
    <3> QED BY <3>1
  <2>7. subs \in Seq(Channels) /\ running \in BOOLEAN /\ nextId \in Nat \ {0}
    <3>1. subs = <<>> /\ running = FALSE /\ nextId = 1
      BY <1>1
    <3>2. subs \in Seq(Channels) /\ nextId \in Nat \ {0}
      BY <3>1
    <3>3. running \in BOOLEAN
      BY <3>1, Zenon
    <3> QED BY <3>2, <3>3
  <2> QED BY <1>1, <2>4, <2>5, <2>6, <2>7 DEF HubTyped
<1>4. OutTyped
  <2>1. <<>> \in Seq(Events)
    OBVIOUS
  <2>2. events \in [Clients -> Seq([kind : {"connected", "disconnected"}, conn : X11])]
    BY <1>2, <2>1 DEF Events
  <2> QED BY <1>2, <2>2 DEF OutTyped, Tags
<1>5. OneRecorder
  BY <1>1 DEF OneRecorder
<1>6. \A a \in Lists : ChannelsOf(a) = {}
  <2>1. ToSet(<<>>) = {}
    BY DEF ToSet
  <2>2. \A a \in Lists : a = 0 \/ caps[a].chs = <<>>
    BY <1>1 DEF Lists, NoCapture
  <2> QED BY <1>1, <2>1, <2>2 DEF ChannelsOf
<1>7. IdsApart
  BY <1>6 DEF IdsApart
<1>8. LanesInOrder
  BY <1>1, <1>6 DEF LanesInOrder, InOrder
<1>9. TagsApart
  <2>1. \A x, id : ~Tagged(x, id)
    BY <1>1, <1>2, <1>6 DEF Tagged, Announced
  <2>2. \A c \in Clients : \A i \in 1 .. Len(events[c]) : FALSE
    BY <1>2
  <2> QED BY <2>1, <2>2 DEF TagsApart
<1>10. Ruled
  BY <1>2 DEF Ruled
<1>11. RegistryTrue
  BY <1>2 DEF RegistryTrue, Home, EmptyRegistry
<1>12. CapturesTrue
  BY <1>1, <1>6 DEF CapturesTrue, Lists, NoCapture
<1> QED BY <1>3, <1>4, <1>5, <1>7, <1>8, <1>9, <1>10, <1>11, <1>12 DEF IInv

(* Every step of the relay and of its clients keeps the invariant.           *)
LEMMA NextKeeps ==
    ASSUME IInv, [Next]_vars
    PROVE  IInv'
<1>1. ASSUME NEW c \in Clients, Ack(c) \/ TakeEvent(c) \/ LinkDies(c) PROVE IInv'
  BY <1>1, AckKeeps, TakeEventKeeps, LinkDiesKeeps
<1>2. ASSUME NEW x \in X11, Connects(x) \/ Disconnects(x) \/ Unregisters(x) PROVE IInv'
  BY <1>2, ConnectsKeeps, DisconnectsKeeps, UnregistersKeeps
<1>3. CASE Recorder
  <2>1. PICK r \in Recorders : SetupFails(r) \/ SetupEnds(r) \/ MixPacket(r) \/ RecorderExits(r) \/ Finish(r)
    BY <1>3 DEF Recorder
  <2>2. UNCHANGED <<outVars, wireVars>>
    BY <1>3 DEF Recorder
  <2> QED BY <2>1, <2>2, SetupFailsKeeps, SetupEndsKeeps, MixPacketKeeps, FinishKeeps
<1>4. CASE Captures
  <2>1. UNCHANGED <<outVars, wireVars>>
    BY <1>4 DEF Captures
  <2>2. ASSUME NEW app \in Apps, CaptureStarts(app) \/ CapturePacket(app) \/ CaptureEnds(app) PROVE IInv'
    BY <2>1, <2>2, CaptureEndsKeeps, CapturePacketKeeps
  <2>3. ASSUME NEW node \in config.nodes, Plays(node) PROVE IInv'
    BY <2>1, <2>3, PlaysKeeps
  <2> QED BY <1>4, <2>2, <2>3 DEF Captures, Apps
<1>5. CASE Output
  <2>1. UNCHANGED wireVars
    BY <1>5 DEF Output
  <2>2. ASSUME NEW c \in Clients, Dispatch(c) \/ ApplyFocus(c) \/ PlayerDies(c) PROVE IInv'
    BY <2>1, <2>2, DispatchKeeps, ApplyFocusKeeps, PlayerDiesKeeps
  <2>3. ASSUME NEW c \in Clients, AskFocus(c) \/ FocusMoves(c) \/ MonitorBreaks(c) PROVE IInv'
    BY <2>1, <2>3, PumpsKeep
  <2>4. ASSUME NEW x \in X11, SpawnLocal(x, Owner(x), config.local) \/ SetupRequest(x, Owner(x))
                              \/ SetupReply(x, Owner(x)) \/ PumpEnds(x, Owner(x))
        PROVE  IInv'
    <3>1. PICK c : c = Owner(x)
      OBVIOUS
    <3>2. SpawnLocal(x, c, config.local) \/ SetupRequest(x, c) \/ SetupReply(x, c) \/ PumpEnds(x, c)
      BY <2>4, <3>1
    <3> QED BY <2>1, <3>2, PumpsKeep
  <2> QED BY <1>5, <2>2, <2>3, <2>4 DEF Output
<1>6. CASE UNCHANGED vars
  <2>1. UNCHANGED outVars /\ UNCHANGED <<config, sock, events, registry>> /\ UNCHANGED acked
        /\ UNCHANGED <<lane, subs, running, recs, caps, nextId>> /\ UNCHANGED <<linked, lanes, graph>>
    BY <1>6 DEF vars, hubVars, wireVars
  <2>2. linked \subseteq Clients /\ lanes \subseteq Clients /\ acked \subseteq Clients /\ graph \subseteq config.nodes
    BY DEF IInv, HubTyped
  <2> QED BY <2>1, <2>2, SurroundingsKeep
<1> QED BY <1>1, <1>2, <1>3, <1>4, <1>5, <1>6 DEF Next

(* The invariant of the sound: one recorder, one channel for each connection *)
(* and each id, lanes in order, players by the rule, and the registry and    *)
(* the captures with the applications of the process tree.                   *)
THEOREM SoundInvariant == Spec => []IInv
<1>1. Init => IInv
  BY InitIInv
<1>2. IInv /\ [Next]_vars => IInv'
  BY NextKeeps
<1> QED BY <1>1, <1>2, PTL DEF Spec

-----------------------------------------------------------------------------
(* What the runs check                                                       *)

(* A packet comes behind the open of its channel: of the opens and closes    *)
(* before it the last is an open, or there is none and the client holds the  *)
(* channel.                                                                  *)
LastOf(ctl) == CHOOSE j \in ctl : \A k \in ctl : k <= j

(* That last one, for a packet of a lane in order.                           *)
LEMMA LastIsOpen ==
    ASSUME NEW q \in Seq(Frames), NEW K, NEW i \in 1 .. Len(q), OpenAt(q, K, q[i].id, i),
           NEW ctl, ctl = {j \in 1 .. i - 1 : q[j].id = q[i].id /\ q[j].kind # "data"}
    PROVE  IF ctl = {} THEN q[i].id \in K ELSE q[LastOf(ctl)].kind = "open"
<1>1. \A j \in 1 .. i - 1 : j \in 1 .. Len(q) /\ q[j] \in Frames
  OBVIOUS
<1>2. \A j \in 1 .. i - 1 : Control(q[j], q[i].id, "open") => j \in ctl
  BY DEF Control
<1>3. CASE ctl = {}
  BY <1>2, <1>3 DEF OpenAt
<1>4. CASE ctl # {}
  <2> DEFINE T == {i - j : j \in ctl}
  <2>1. T \in SUBSET Nat /\ T # {}
    BY <1>4
  <2>2. PICK m \in T : \A k \in T : m <= k
    BY <2>1, LeastNumber
  <2>3. PICK g \in ctl : m = i - g
    BY <2>2
  <2>4. \A k \in ctl : k <= g
    <3>1. \A k \in ctl : i - k \in T
      OBVIOUS
    <3>2. \A k \in ctl : m <= i - k
      BY <2>2, <3>1
    <3> QED BY <2>3, <3>2
  <2>5. PICK l : l = LastOf(ctl)
    OBVIOUS
  <2>6. l \in ctl /\ \A k \in ctl : k <= l
    BY <2>4, <2>5 DEF LastOf
  <2>7. l \in 1 .. i - 1 /\ q[l].id = q[i].id /\ q[l].kind \in {"open", "close"}
    BY <1>1, <2>6 DEF Frames
  <2>8. q[l].kind # "close"
    <3>1. SUFFICES ASSUME q[l].kind = "close" PROVE FALSE
      OBVIOUS
    <3>2. Control(q[l], q[i].id, "close")
      BY <2>7, <3>1 DEF Control
    <3>3. PICK j \in 1 .. i - 1 : /\ Control(q[j], q[i].id, "open")
                                  /\ \A k \in j + 1 .. i - 1 : ~Control(q[k], q[i].id, "close")
      BY <2>7, <3>2 DEF OpenAt
    <3>4. j <= l /\ j # l
      BY <1>2, <2>6, <3>1, <3>3 DEF Control
    <3>5. l \in j + 1 .. i - 1
      BY <2>7, <3>4
    <3> QED BY <3>2, <3>3, <3>5
  <2> QED BY <1>4, <2>5, <2>7, <2>8
<1> QED BY <1>3, <1>4

(* mix.rs, mod.rs: one recorder owns the capture while somebody waits on the *)
(* list, and on every lane a packet comes behind the open of its channel.    *)
THEOREM SoundIsInOrder == Spec => []SoundInOrder
<1>1. ASSUME IInv PROVE SoundInOrder
  <2>1. TypeOK
    <3>1. /\ linked \subseteq Clients /\ lanes \subseteq Clients /\ acked \subseteq Clients
          /\ \A c \in Clients : Len(lane[c]) <= LaneCap
          /\ running \in BOOLEAN /\ recs \in [Recorders -> {"none", "setup", "reading", "stopping"}]
      BY <1>1 DEF IInv, HubTyped
    <3>2. \A i \in 1 .. Len(subs) : subs[i] \in Channels
      BY <1>1 DEF IInv, HubTyped
    <3>3. ASSUME NEW app \in Apps
          PROVE  /\ caps[app].phase \in {"none", "waiting", "reading", "dead"}
                 /\ \A i \in 1 .. Len(caps[app].chs) : caps[app].chs[i] \in Channels
      <4>1. caps[app] \in Captured
        BY <1>1 DEF IInv, HubTyped
      <4> QED BY <4>1 DEF Captured
    <3>4. /\ fore \in [Clients -> Conns \cup {NoConn}]
          /\ pump \in [Conns -> {"none", "opening", "open", "asked", "up", "over"}]
      BY <1>1 DEF IInv, OutTyped, Tags
    <3> QED BY <3>1, <3>2, <3>3, <3>4 DEF TypeOK, Apps
  <2>2. RecorderClaimed
    <3> DEFINE busy == {r \in Recorders : recs[r] # "none"}
    <3>1. CASE running
      <4>1. PICK r \in Recorders : recs[r] # "none" /\ \A q \in Recorders \ {r} : recs[q] = "none"
        BY <1>1, <3>1 DEF IInv, OneRecorder
      <4>2. busy = {r}
        BY <4>1
      <4> QED BY <3>1, <4>2, FS_Singleton DEF RecorderClaimed
    <3>2. CASE ~running
      <4>1. subs = <<>> /\ busy = {}
        BY <1>1, <3>2 DEF IInv, OneRecorder
      <4> QED BY <3>2, <4>1, FS_EmptySet DEF RecorderClaimed
    <3> QED BY <3>1, <3>2
  <2>3. OpenBeforeData
    <3>1. SUFFICES ASSUME NEW c \in Clients, NEW i \in 1 .. Len(lane[c]), lane[c][i].kind = "data"
                   PROVE  LET id == lane[c][i].id
                              ctl == {j \in 1 .. i - 1 : lane[c][j].id = id /\ lane[c][j].kind # "data"}
                          IN  IF ctl = {} THEN id \in known[c]
                              ELSE lane[c][CHOOSE j \in ctl : \A k \in ctl : k <= j].kind = "open"
      BY DEF OpenBeforeData
    <3>2. PICK q : q = lane[c]
      OBVIOUS
    <3>3. PICK K : K = known[c]
      OBVIOUS
    <3>4. q \in Seq(Frames) /\ i \in 1 .. Len(q) /\ OpenAt(q, K, q[i].id, i)
      BY <1>1, <3>1, <3>2, <3>3 DEF IInv, HubTyped, LanesInOrder, InOrder
    <3>5. PICK ctl : ctl = {j \in 1 .. i - 1 : q[j].id = q[i].id /\ q[j].kind # "data"}
      OBVIOUS
    <3>6. IF ctl = {} THEN q[i].id \in K ELSE q[LastOf(ctl)].kind = "open"
      BY <3>4, <3>5, LastIsOpen
    <3> QED BY <3>2, <3>3, <3>5, <3>6 DEF LastOf
  <2> QED BY <2>1, <2>2, <2>3 DEF SoundInOrder
<1> QED BY <1>1, SoundInvariant, PTL

(* table.rs: with a known foreground the channel of that connection is heard *)
(* and no other, with an unknown one all are, and no connection has two      *)
(* players, for any clients, connections and channels.                       *)
THEOREM PlayersAreRuled == Spec => []PlayersFollowRule
<1>1. ASSUME IInv PROVE PlayersFollowRule
  <2>1. SUFFICES ASSUME NEW c \in Clients
                 PROVE  /\ \A out \in outlets[c] :
                            out.audible = (perApp => fore[c] \in {NoConn, out.app})
                        /\ \A out, o \in outlets[c] :
                            out.app # NoConn /\ o.app = out.app => o = out
    BY DEF PlayersFollowRule
  <2>2. /\ outlets[c] \in SUBSET Players /\ Distinct(outlets[c]) /\ fore[c] \in Tags
        /\ \A out \in outlets[c] : out.audible = Heard(fore[c], out)
    BY <1>1, PlayersAtHand
  <2>3. ASSUME NEW out \in outlets[c]
        PROVE  out.audible = (perApp => fore[c] \in {NoConn, out.app})
    BY <2>2 DEF Heard
  <2>4. ASSUME NEW out \in outlets[c], NEW o \in outlets[c], out.app # NoConn, o.app = out.app
        PROVE  o = out
    <3>1. out.app \in Conns
      BY <2>2, <2>4 DEF Players, Tags
    <3> QED BY <2>2, <2>4, <3>1 DEF Distinct
  <2> QED BY <2>3, <2>4
<1> QED BY <1>1, SoundInvariant, PTL

\* The walk through the process tree tells the truth about the processes that
\* hold connections and streams: the root it finds is of their application.
AttributionTrue ==
    \A cf \in Configs :
        /\ \A x \in DOMAIN cf.pid : LET root == ApplicationRoot(cf.pid[x])
                                    IN  root # NoApp => Truth[root] = Truth[cf.pid[x]]
        /\ \A node \in cf.nodes : LET root == ApplicationRoot(node.pid)
                                  IN  root # NoApp => Truth[root] = Truth[node.pid]

(* application.rs, per_app.rs, table.rs: where the process tree attributes   *)
(* every process to its own application, the registry's indexes, the         *)
(* captures and the channels never mix two applications up, over every order *)
(* of arrivals, departures, captures and packets.                            *)
THEOREM SoundIsWellRouted ==
    ASSUME AttributionTrue
    PROVE  Spec => []SoundWellRouted
<1>1. ASSUME IInv PROVE OwnersPointHome
  <2>1. SUFFICES ASSUME NEW x \in DOMAIN registry.owner
                 PROVE  /\ registry.owner[x] \in 1 .. Len(registry.apps)
                        /\ x \in registry.apps[registry.owner[x]].conns
                        /\ Truth[ApplicationOf(registry, x)] = Truth[config.pid[x]]
    BY DEF OwnersPointHome
  <2>2. /\ registry.owner[x] \in 1 .. Len(registry.apps) /\ registry.apps \in Seq(Entries)
        /\ x \in registry.apps[registry.owner[x]].conns /\ x \in DOMAIN config.pid
        /\ registry.apps[registry.owner[x]].root = ApplicationRoot(config.pid[x])
        /\ ApplicationRoot(config.pid[x]) # NoApp
    BY <1>1 DEF IInv, RegistryTrue, Home
  <2>3. ApplicationOf(registry, x) = ApplicationRoot(config.pid[x])
    BY <2>2 DEF ApplicationOf
  <2>4. config \in Configs
    BY <1>1 DEF IInv, HubTyped
  <2>5. Truth[ApplicationRoot(config.pid[x])] = Truth[config.pid[x]]
    BY <2>2, <2>4 DEF AttributionTrue
  <2> QED BY <2>2, <2>3, <2>5
<1>2. ASSUME IInv PROVE OwnSound
  <2>1. SUFFICES ASSUME NEW app \in Apps, NEW i \in 1 .. Len(caps[app].chs), caps[app].src # 0
                 PROVE  Truth[caps[app].src] = Truth[config.pid[caps[app].chs[i].app]]
    BY DEF OwnSound, Apps
  <2>2. PICK ch : ch = caps[app].chs[i]
    OBVIOUS
  <2>3. ch \in ChannelsOf(app)
    <3>1. ChannelsOf(app) = ToSet(caps[app].chs)
      BY <1>2, LanesAtHand
    <3> QED BY <2>1, <2>2, <3>1 DEF ToSet
  <2>4. ch.app \in DOMAIN config.pid /\ ApplicationRoot(config.pid[ch.app]) = app
    BY <1>2, <2>3 DEF IInv, CapturesTrue, X11
  <2>5. PICK node \in config.nodes : node.pid = caps[app].src /\ ApplicationRoot(node.pid) = app
    BY <1>2, <2>1 DEF IInv, CapturesTrue
  <2>6. config \in Configs /\ app # NoApp
    BY <1>2, LanesAtHand DEF IInv, HubTyped, NoApp
  <2>7. Truth[app] = Truth[config.pid[ch.app]] /\ Truth[app] = Truth[node.pid]
    BY <2>4, <2>5, <2>6 DEF AttributionTrue
  <2> QED BY <2>2, <2>5, <2>7
<1> QED BY <1>1, <1>2, SoundInvariant, PlayersAreRuled, PTL DEF SoundWellRouted
=============================================================================
