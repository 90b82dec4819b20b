------------------------- MODULE ClientSessionProofs -------------------------
(***************************************************************************)
(* A client, its relay and its tunnel, for any configurations, any number   *)
(* of retries, connections, crashes, rebuilds and ssh children.             *)
(***************************************************************************)
EXTENDS ClientSession, FiniteSetTheorems, TLAPS

SessionIds == {0} \cup Transports

-----------------------------------------------------------------------------
(* The connector                                                            *)

\* Before a transport of the current attempt exists, and while it does.
Between == {"new", "loop", "tcp", "backoff"}
WithLink == Establishing \cup {"serving", "cleanup"}

\* Every transport costs an attempt, and attempts are within the budget.
TransportsPaid ==
    /\ tr \in Nat /\ attempt \in Nat
    /\ tr <= config.retries + 1 /\ attempt <= config.retries + 1
    /\ at \in Between => tr <= attempt /\ attempt <= config.retries
    /\ at \in WithLink => 1 <= tr /\ tr <= attempt + 1 /\ attempt <= config.retries

\* The one id a connector knows of.
OneId == saved = acked /\ published = acked /\ acked \in SessionIds

\* HonestPhase with what it rests on.
PhaseKept ==
    /\ at \in Between \cup WithLink \cup {"giveUp", "end", "dropped"}
    /\ phase \in {"Stopped", "Connecting", "Handshaking", "Serving", "Reconnecting", "Failed"}
    /\ at \in {"serving", "cleanup"} => phase = "Serving" /\ ~lastError /\ acked # 0
    /\ phase = "Serving" => acked # 0
    /\ phase = "Failed" => at = "end"
    /\ HonestPhase

-----------------------------------------------------------------------------
(* One transport                                                            *)

Terms == [features : SUBSET Supported, algo : {"disabled"} \cup {Algos[i] : i \in 1 .. 4}]

\* What the client of configuration g says first ...
Greetings(g) ==
    {[kind |-> "Hello", version |-> Version, resume |-> s,
      algos |-> g.client.algos, caps |-> AdvertisedFor(g.client.off)] : s \in SessionIds}

\* ... and what it may say at all.
Requests(g) ==
    Greetings(g)
    \cup {[kind |-> "AuthRequest", token |-> g.client.token], Create,
          [kind |-> "HeartbeatAck"], [kind |-> "Destroy"]}
    \cup {Resume(s) : s \in SessionIds}

\* What a relay task that agreed to terms may have sent.
Replies(g, terms) ==
    {[kind |-> "HelloAck", success |-> TRUE, version |-> g.server.version, terms |-> terms],
     [kind |-> "HelloAck", success |-> FALSE, version |-> g.server.version, terms |-> NoTerms],
     AuthResponse(TRUE), AuthResponse(FALSE), [kind |-> "Heartbeat"], [kind |-> "ChannelOpen"]}
    \cup {SessionAck(TRUE, s) : s \in Transports} \cup {SessionAck(FALSE, s) : s \in SessionIds}

\* The relay has not read this transport's Hello.
Unread == {"none", "hello"}

\* Nothing was sent to the client, and nobody has terms, before Hello is read.
SilentBefore(t) ==
    task[t] \in Unread => /\ srvHas[t] = NoTerms /\ cliHas[t] = NoTerms
                          /\ down[t] = <<>> /\ up[t] \in Seq(Greetings(config))

Untouched(t) == t > tr => link[t] = "none" /\ task[t] = "none" /\ up[t] = <<>>

TermsBoth(t) ==
    /\ srvHas[t] \in Terms
    /\ srvHas[t].features \subseteq
        AdvertisedFor(config.client.off) \cap AdvertisedFor(config.server.off)
    /\ cliHas[t] \in {NoTerms, srvHas[t]}

FramesKnown(t) ==
    up[t] \in Seq(Requests(config)) /\ down[t] \in Seq(Replies(config, srvHas[t]))

NotAccepted(t) == link[t] \in {"none", "backlog"} => task[t] = "none"

Sound(t) == SilentBefore(t) /\ Untouched(t) /\ TermsBoth(t) /\ FramesKnown(t) /\ NotAccepted(t)

\* From the client's AuthRequest on, both ends have the terms.
TermsHeld == at \in WithLink \ {"helloAck"} => task[tr] \notin Unread /\ cliHas[tr] = srvHas[tr]

LinkStates == {"none", "backlog", "open", "silent", "dead"}
TaskStates == InService \cup {"none", "over"}

LinkTypes ==
    /\ config \in Configs
    /\ link \in [Transports -> LinkStates]
    /\ task \in [Transports -> TaskStates]
    /\ DOMAIN up = Transports /\ DOMAIN down = Transports
    /\ DOMAIN cliHas = Transports /\ DOMAIN srvHas = Transports

LinksKept == LinkTypes /\ (\A t \in Transports : Sound(t)) /\ TermsHeld

-----------------------------------------------------------------------------
(* The relay and the tunnel                                                 *)

RelayKept ==
    /\ others \in Nat
    /\ alive \subseteq Transports
    /\ holder \in [Transports -> SessionIds]
    /\ ConnectionsCounted

TunnelKept ==
    /\ opened \in 0 .. MaxTunnels /\ failures \in Nat
    /\ DOMAIN child = Tunnels
    /\ sup \in {"off", "open", "ready", "watch", "lost", "rebuild", "ended"}
    /\ sup \in {"open", "ready", "watch", "rebuild"} => cur = opened /\ opened # 0
    /\ sup \in {"off", "lost", "ended"} => cur = 0
    /\ sup = "rebuild" => failures < MaxAttempts
    /\ ending = "RebuildExhausted" => sup = "ended"
    /\ OneTunnel /\ BudgetKept

ConnectorKept == TransportsPaid /\ OneId /\ PhaseKept

IInv == ConnectorKept /\ LinksKept /\ RelayKept /\ TunnelKept
-----------------------------------------------------------------------------
(* The tunnel's facts are kept by its own steps, whatever the rest does.     *)
LEMMA TunnelStep ==
    ASSUME TunnelKept, NEW r,
           SshStep(r) \/ SessionEnds \/ UNCHANGED sshVars
    PROVE  TunnelKept'
<1> USE TunnelAssumption
        DEF TunnelKept, OneTunnel, BudgetKept, Running, Tunnels
<1>1. CASE FirstOpen
  BY <1>1 DEF FirstOpen, Spawned
<1>2. CASE OpenSucceeds
  BY <1>2 DEF OpenSucceeds
<1>3. CASE OpenFails
  BY <1>3 DEF OpenFails, KillChild
<1>4. CASE Supervise
  BY <1>4 DEF Supervise
<1>5. CASE Watch(r)
  BY <1>5 DEF Watch, TunnelDead, KillChild
<1>6. CASE Rebuild
  BY <1>6 DEF Rebuild, Spawned, Exhausted
<1>7. CASE SessionEnds
  BY <1>7 DEF SessionEnds, KillChild
<1>8. ASSUME NEW n \in Tunnels, PortOpens(n) \/ PortDies(n) \/ ChildExits(n)
      PROVE  TunnelKept'
  BY <1>8 DEF PortOpens, PortDies, ChildExits
<1>9. ASSUME NEW n \in Tunnels, HealthTick(n) \/ HealthVerdict(n)
      PROVE  TunnelKept'
  BY <1>9 DEF HealthTick, HealthVerdict
<1>10. CASE UNCHANGED sshVars
  BY <1>10 DEF sshVars
<1> QED
  BY <1>1, <1>2, <1>3, <1>4, <1>5, <1>6, <1>7, <1>8, <1>9, <1>10 DEF SshStep
-----------------------------------------------------------------------------
(* A queue of frames and the frame at its head.                              *)
LEMMA HeadAndTail ==
    ASSUME NEW S, NEW q \in Seq(S), q # <<>>
    PROVE  Head(q) \in S /\ Tail(q) \in Seq(S)
OBVIOUS

(* A SessionAck that says yes names a session.                               *)
LEMMA AckNamesSession ==
    ASSUME NEW g, NEW terms, NEW f \in Replies(g, terms), f.kind = "SessionAck", f.success
    PROVE  f.session \in Transports
BY DEF Replies, AuthResponse, SessionAck

\* Where the connector stands, that its transport exists, and the id it reads.
LEMMA TransportInRange ==
    ASSUME TransportsPaid, config \in Configs, at \in WithLink \/ at = "tcp"
    PROVE  /\ at \in WithLink => tr \in Transports
           /\ at = "tcp" => tr + 1 \in Transports /\ tr + 1 > tr
<1>1. config.retries \in 0 .. MaxRetries /\ MaxRetries \in Nat
  BY HandshakeAssumption
<1> QED BY <1>1 DEF TransportsPaid, Transports, Between, WithLink, Establishing

LEMMA HeadIsReply ==
    ASSUME LinksKept, TransportsPaid, at \in WithLink, CanRead(down, tr)
    PROVE  Head(down[tr]) \in Replies(config, srvHas[tr])
<1>1. tr \in Transports
  BY TransportInRange DEF LinksKept, LinkTypes
<1>2. down[tr] \in Seq(Replies(config, srvHas[tr])) /\ down[tr] # <<>>
  BY <1>1 DEF LinksKept, Sound, FramesKnown, CanRead
<1> QED BY <1>2

(* The connector's own steps keep its budget, its id and what it publishes.  *)
LEMMA FailsKeeps ==
    ASSUME ConnectorKept, config \in Configs, config' = config, NEW b \in BOOLEAN,
           at \in {"tcp"} \cup WithLink, Fails(b)
    PROVE  ConnectorKept'
<1>1. config.retries \in Nat
  BY HandshakeAssumption
<1>2. TransportsPaid'
  <2>1. CASE ~b \/ attempt + 1 > config.retries
    BY <1>1, <2>1 DEF ConnectorKept, TransportsPaid, Fails, Between, WithLink, Establishing
  <2>2. CASE ~(~b \/ attempt + 1 > config.retries)
    BY <1>1, <2>2 DEF ConnectorKept, TransportsPaid, Fails, Between, WithLink, Establishing
  <2> QED BY <2>1, <2>2
<1>3. OneId'
  BY DEF ConnectorKept, OneId, Fails
<1>4. PhaseKept'
  BY DEF ConnectorKept, PhaseKept, HonestPhase, OneId, Fails, Between, WithLink, Establishing
<1> QED BY <1>2, <1>3, <1>4 DEF ConnectorKept

LEMMA ReturnsKeeps ==
    ASSUME ConnectorKept, config' = config, NEW r, Returns(r),
           at \in Between \cup WithLink \cup {"giveUp"}
    PROVE  ConnectorKept'
<1>1. TransportsPaid'
  BY DEF ConnectorKept, TransportsPaid, Returns, Between, WithLink, Establishing
<1>2. OneId'
  BY DEF ConnectorKept, OneId, Returns
<1>3. PhaseKept'
  BY DEF ConnectorKept, PhaseKept, HonestPhase, OneId, Returns, Between, WithLink, Establishing
<1> QED BY <1>1, <1>2, <1>3 DEF ConnectorKept

LEMMA ServesKeeps ==
    ASSUME ConnectorKept, config' = config, NEW s \in Transports, Serves(s), at \in WithLink
    PROVE  ConnectorKept'
<1>0. 0 \notin Transports /\ ~done
  BY DEF Transports, ConnectorKept, PhaseKept, HonestPhase, WithLink, Establishing
<1>1. TransportsPaid'
  BY DEF ConnectorKept, TransportsPaid, Serves, Between, WithLink, Establishing
<1>2. OneId'
  BY DEF ConnectorKept, OneId, Serves, SessionIds
<1>3. PhaseKept'
  BY <1>0 DEF ConnectorKept, PhaseKept, HonestPhase, OneId, Serves, Between, WithLink, Establishing
<1> QED BY <1>1, <1>2, <1>3 DEF ConnectorKept

LEMMA AnswerKeeps ==
    ASSUME ConnectorKept, config' = config, NEW f, NEW next \in Establishing,
           Answer(f, next), at \in Establishing
    PROVE  ConnectorKept'
<1>1. TransportsPaid'
  BY DEF ConnectorKept, TransportsPaid, Answer, Between, WithLink, Establishing
<1>2. OneId'
  BY DEF ConnectorKept, OneId, Answer
<1>3. PhaseKept'
  BY DEF ConnectorKept, PhaseKept, HonestPhase, OneId, Answer, Between, WithLink, Establishing
<1> QED BY <1>1, <1>2, <1>3 DEF ConnectorKept

LEMMA ConnectorStepKeeps ==
    ASSUME ConnectorKept, LinksKept, config' = config,
           ConnectorStep \/ TcpConnects \/ (\E b \in BOOLEAN : TcpFails(b))
    PROVE  ConnectorKept'
<1>0. config \in Configs /\ TransportsPaid /\ OneId /\ PhaseKept
  BY DEF LinksKept, LinkTypes, ConnectorKept
<1>a. "tcp" \notin WithLink /\ Establishing \subseteq WithLink /\ "serving" \in WithLink
      /\ "cleanup" \in WithLink /\ {"loop", "backoff", "tcp"} \subseteq Between
  BY DEF WithLink, Establishing, Between
<1>1. CASE Spawn
  BY <1>1 DEF Spawn, ConnectorKept, TransportsPaid, OneId, PhaseKept, HonestPhase, Between,
              WithLink, Establishing
<1>2. CASE Stop
  BY <1>2 DEF Stop, ConnectorKept, TransportsPaid, OneId, PhaseKept, HonestPhase
<1>3. CASE LoopHead
  <2>1. CASE stopReq
    BY <1>3, <2>1, <1>a, ReturnsKeeps DEF LoopHead
  <2>2. CASE ~stopReq
    BY <1>3, <2>2 DEF LoopHead, ConnectorKept, TransportsPaid, OneId, PhaseKept, HonestPhase,
                      Between, WithLink, Establishing
  <2> QED BY <2>1, <2>2
<1>4. CASE GiveUp
  BY <1>4, ReturnsKeeps DEF GiveUp
<1>5. CASE BackoffEnds
  <2>1. CASE stopReq
    BY <1>5, <2>1, <1>a, ReturnsKeeps DEF BackoffEnds
  <2>2. CASE ~stopReq
    BY <1>5, <2>2 DEF BackoffEnds, ConnectorKept, TransportsPaid, OneId, PhaseKept, HonestPhase,
                      Between, WithLink, Establishing
  <2> QED BY <2>1, <2>2
<1>6. CASE LinkLost \/ HandshakeTimeout
  BY <1>0, <1>a, <1>6, FailsKeeps DEF LinkLost, HandshakeTimeout, EstablishFails, Establishing
<1>7. CASE Receive
  <2>1. at \in Establishing /\ at \in WithLink /\ CanRead(down, tr)
    BY <1>7, <1>a DEF Receive
  <2>2. Head(down[tr]) \in Replies(config, srvHas[tr])
    BY <1>0, <2>1, HeadIsReply
  <2>3. ASSUME EstablishFails(FALSE) PROVE ConnectorKept'
    BY <1>0, <2>1, <2>3, FailsKeeps DEF EstablishFails
  <2>4. {"authResp", "resumeAck", "createAck"} \subseteq Establishing
    BY DEF Establishing
  <2>5. CASE GetHelloAck
    BY <2>1, <2>3, <2>4, <2>5, AnswerKeeps DEF GetHelloAck
  <2>6. CASE GetAuthResponse
    BY <2>1, <2>3, <2>4, <2>6, AnswerKeeps DEF GetAuthResponse
  <2>7. CASE GetResumeAck
    BY <2>1, <2>2, <2>3, <2>4, <2>7, AnswerKeeps, ServesKeeps, AckNamesSession DEF GetResumeAck
  <2>8. CASE GetCreateAck
    BY <2>1, <2>2, <2>3, <2>8, ServesKeeps, AckNamesSession DEF GetCreateAck
  <2> QED BY <1>7, <2>5, <2>6, <2>7, <2>8 DEF Receive
<1>8. CASE ServeFrame
  BY <1>8 DEF ServeFrame, connVars, ConnectorKept, TransportsPaid, OneId, PhaseKept, HonestPhase
<1>9. CASE ServeEnds
  <2>1. at = "serving" /\ \E r, b : Leaving(r, b)
    BY <1>9 DEF ServeEnds, ServeStops, ServeLoses
  <2> QED BY <2>1 DEF Leaving, ConnectorKept, TransportsPaid, OneId, PhaseKept, HonestPhase,
                      Between, WithLink, Establishing
<1>10. CASE Cleanup
  <2>1. CASE result = "ok"
    BY <1>a, <1>10, <2>1, ReturnsKeeps DEF Cleanup
  <2>2. CASE result # "ok"
    BY <1>0, <1>a, <1>10, <2>2, FailsKeeps DEF Cleanup
  <2> QED BY <2>1, <2>2
<1>11. CASE TcpConnects
  <2>1. config.retries \in Nat
    BY <1>0, HandshakeAssumption
  <2>2. TransportsPaid'
    BY <1>11, <1>0, <2>1 DEF TcpConnects, TransportsPaid, Between, WithLink, Establishing
  <2>3. OneId' /\ PhaseKept'
    BY <1>11 DEF TcpConnects, ConnectorKept, OneId, PhaseKept, HonestPhase,
                      Between, WithLink, Establishing
  <2> QED BY <2>2, <2>3 DEF ConnectorKept
<1>12. ASSUME NEW b \in BOOLEAN, TcpFails(b) PROVE ConnectorKept'
  BY <1>0, <1>12, FailsKeeps DEF TcpFails
<1> QED
  BY <1>1, <1>2, <1>3, <1>4, <1>5, <1>6, <1>7, <1>8, <1>9, <1>10, <1>11, <1>12
     DEF ConnectorStep

-----------------------------------------------------------------------------
(* A link that existed may be lost: no transport's facts depend on it.       *)
LEMMA LinkLoss ==
    ASSUME LinksKept, UNCHANGED <<config, up, down, task, cliHas, srvHas, tr>>,
           link' \in [Transports -> LinkStates],
           \A t \in Transports : link'[t] # link[t] =>
                link[t] # "none" /\ link'[t] \notin {"none", "backlog"},
           at' = at \/ at' \notin WithLink \ {"helloAck"}
    PROVE  LinksKept'
<1>1. LinkTypes'
  BY DEF LinksKept, LinkTypes
<1>2. ASSUME NEW t \in Transports PROVE Sound(t)'
  <2>1. Sound(t)
    BY DEF LinksKept
  <2>2. SilentBefore(t)' /\ TermsBoth(t)' /\ FramesKnown(t)'
    BY <2>1 DEF Sound, SilentBefore, TermsBoth, FramesKnown
  <2>3. Untouched(t)' /\ NotAccepted(t)'
    BY <2>1 DEF Sound, Untouched, NotAccepted
  <2> QED BY <2>2, <2>3 DEF Sound
<1>3. TermsHeld'
  BY DEF LinksKept, TermsHeld
<1> QED BY <1>1, <1>2, <1>3 DEF LinksKept

(* A relay task that moves on, or ends, without a word.                      *)
LEMMA TaskMoves ==
    ASSUME LinksKept, UNCHANGED <<config, up, down, cliHas, srvHas, tr, at>>,
           link' \in [Transports -> LinkStates],
           task' \in [Transports -> TaskStates],
           \A t \in Transports :
             /\ link'[t] # link[t] => link[t] # "none" /\ link'[t] \notin {"none", "backlog"}
             /\ task'[t] # task[t] => task[t] # "none" /\ task'[t] \notin Unread,
           TransportsPaid
    PROVE  LinksKept'
<1>1. LinkTypes'
  BY DEF LinksKept, LinkTypes
<1>2. ASSUME NEW t \in Transports PROVE Sound(t)'
  <2>1. Sound(t)
    BY DEF LinksKept
  <2>2. task'[t] \in Unread => task[t] \in Unread
    OBVIOUS
  <2>3. TermsBoth(t)' /\ FramesKnown(t)'
    BY <2>1 DEF Sound, TermsBoth, FramesKnown
  <2>4. SilentBefore(t)'
    BY <2>1, <2>2 DEF Sound, SilentBefore
  <2>5. Untouched(t)' /\ NotAccepted(t)'
    BY <2>1 DEF Sound, Untouched, NotAccepted
  <2> QED BY <2>3, <2>4, <2>5 DEF Sound
<1>3. TermsHeld'
  <2> SUFFICES ASSUME at \in WithLink \ {"helloAck"}
               PROVE  task'[tr] \notin Unread /\ cliHas[tr] = srvHas[tr]
    BY DEF TermsHeld
  <2>1. tr \in Transports
    BY TransportInRange DEF LinksKept, LinkTypes
  <2> QED BY <2>1 DEF LinksKept, TermsHeld
<1> QED BY <1>1, <1>2, <1>3 DEF LinksKept

(* The client reads and writes on its transport, once the relay has read its *)
(* Hello: what it says it may say, and its terms are the relay's.            *)
LEMMA ClientTalks ==
    ASSUME LinksKept, tr \in Transports, task[tr] \notin Unread,
           UNCHANGED <<config, task, srvHas, tr>>,
           link' \in [Transports -> LinkStates],
           \A t \in Transports : link'[t] # link[t] =>
                link[t] # "none" /\ link'[t] \notin {"none", "backlog"},
           DOMAIN up' = Transports, DOMAIN down' = Transports, DOMAIN cliHas' = Transports,
           \A t \in Transports \ {tr} :
                up'[t] = up[t] /\ down'[t] = down[t] /\ cliHas'[t] = cliHas[t],
           up'[tr] \in Seq(Requests(config)),
           down'[tr] \in Seq(Replies(config, srvHas[tr])),
           cliHas'[tr] \in {cliHas[tr], srvHas[tr]},
           at' \in WithLink \ {"helloAck"} => cliHas'[tr] = srvHas[tr]
    PROVE  LinksKept'
<1>1. LinkTypes'
  BY DEF LinksKept, LinkTypes
<1>2. ASSUME NEW t \in Transports PROVE Sound(t)'
  <2>1. Sound(t)
    BY DEF LinksKept
  <2>2. Untouched(t)' /\ NotAccepted(t)'
    <3>1. NotAccepted(t)'
      BY <2>1 DEF Sound, NotAccepted
    <3>2. CASE t = tr
      BY <2>1, <3>1, <3>2 DEF Sound, Untouched, Transports
    <3>3. CASE t # tr
      BY <2>1, <3>1, <3>3 DEF Sound, Untouched
    <3> QED BY <3>2, <3>3
  <2>3. TermsBoth(t)'
    BY <2>1 DEF Sound, TermsBoth
  <2>4. FramesKnown(t)'
    BY <2>1 DEF Sound, FramesKnown
  <2>5. SilentBefore(t)'
    BY <2>1 DEF Sound, SilentBefore
  <2> QED BY <2>2, <2>3, <2>4, <2>5 DEF Sound
<1>3. TermsHeld'
  BY DEF TermsHeld
<1> QED BY <1>1, <1>2, <1>3 DEF LinksKept

(* The client that has something to read talks to a task that read its Hello.*)
LEMMA HelloWasRead ==
    ASSUME LinksKept, TransportsPaid, at \in WithLink, CanRead(down, tr)
    PROVE  /\ tr \in Transports /\ task[tr] \notin Unread
           /\ DOMAIN [down EXCEPT ![tr] = Tail(@)] = Transports
           /\ [down EXCEPT ![tr] = Tail(@)][tr] \in Seq(Replies(config, srvHas[tr]))
           /\ \A t \in Transports \ {tr} : [down EXCEPT ![tr] = Tail(@)][t] = down[t]
<1>1. tr \in Transports
  BY TransportInRange DEF LinksKept, LinkTypes
<1>2. down[tr] \in Seq(Replies(config, srvHas[tr])) /\ down[tr] # <<>> /\ DOMAIN down = Transports
  BY <1>1 DEF LinksKept, LinkTypes, Sound, FramesKnown, CanRead
<1>3. task[tr] \notin Unread
  BY <1>1, <1>2 DEF LinksKept, Sound, SilentBefore
<1>4. Tail(down[tr]) \in Seq(Replies(config, srvHas[tr]))
  BY <1>2, HeadAndTail
<1>5. DOMAIN [down EXCEPT ![tr] = Tail(@)] = Transports
  BY <1>2
<1>6. [down EXCEPT ![tr] = Tail(@)][tr] \in Seq(Replies(config, srvHas[tr]))
  BY <1>1, <1>2, <1>4
<1>7. \A t \in Transports \ {tr} : [down EXCEPT ![tr] = Tail(@)][t] = down[t]
  BY <1>2
<1> QED BY <1>1, <1>3, <1>5, <1>6, <1>7

(* A request written to the transport, or lost.                              *)
LEMMA RequestWritten ==
    ASSUME LinksKept, tr \in Transports, NEW f \in Requests(config)
    PROVE  /\ DOMAIN Written(up, tr, f) = Transports
           /\ Written(up, tr, f)[tr] \in Seq(Requests(config))
           /\ \A t \in Transports \ {tr} : Written(up, tr, f)[t] = up[t]
<1>1. up[tr] \in Seq(Requests(config)) /\ DOMAIN up = Transports
  BY DEF LinksKept, LinkTypes, Sound, FramesKnown
<1>2. Append(up[tr], f) \in Seq(Requests(config))
  BY <1>1
<1> QED BY <1>1, <1>2 DEF Written

(* The echo the client computes is what the relay decided.                   *)
LEMMA EchoAgrees ==
    ASSUME LinksKept, tr \in Transports, NEW f \in Replies(config, srvHas[tr]),
           AcceptsHelloAck(f)
    PROVE  ClientTerms(f) = srvHas[tr]
<1> DEFINE own == srvHas[tr]
<1>1. f.terms = own
  BY DEF Replies, AcceptsHelloAck, AuthResponse, SessionAck
<1>2. own \in Terms /\ own.features \subseteq AdvertisedFor(config.client.off)
  BY DEF LinksKept, Sound, TermsBoth
<1> HIDE DEF own
<1>3. AdvertisedFor(config.client.off) \subseteq Supported
  BY DEF AdvertisedFor
<1>4. NegotiateFeatures(AdvertisedFor(config.client.off), own.features) = own.features
  BY <1>2, <1>3 DEF NegotiateFeatures
<1>5. ClientTerms(f) = [features |-> own.features, algo |-> own.algo]
  BY <1>1, <1>4 DEF ClientTerms
<1>6. own = [features |-> own.features, algo |-> own.algo]
  BY <1>2 DEF Terms
<1> QED BY <1>5, <1>6 DEF own

(* What the client may say, and what the relay may.                          *)
LEMMA FramesAreKnown ==
    /\ \A s \in SessionIds : Hello(s) \in Greetings(config) /\ Resume(s) \in Requests(config)
    /\ Greetings(config) \subseteq Requests(config)
    /\ {AuthRequest, Create, [kind |-> "HeartbeatAck"], [kind |-> "Destroy"]} \subseteq Requests(config)
    /\ \A terms : {HelloAck(terms), FailedHelloAck, AuthResponse(TRUE), AuthResponse(FALSE),
                   [kind |-> "Heartbeat"], [kind |-> "ChannelOpen"]} \subseteq Replies(config, terms)
    /\ \A terms : (\A s \in Transports : SessionAck(TRUE, s) \in Replies(config, terms))
                 /\ (\A s \in SessionIds : SessionAck(FALSE, s) \in Replies(config, terms))
<1>1. \A s \in SessionIds : Hello(s) \in Greetings(config) /\ Resume(s) \in Requests(config)
  BY DEF Hello, Greetings, Requests, Resume
<1>2. Greetings(config) \subseteq Requests(config)
  BY DEF Requests
<1>3. {AuthRequest, Create, [kind |-> "HeartbeatAck"], [kind |-> "Destroy"]} \subseteq Requests(config)
  BY DEF Requests, AuthRequest
<1>4. \A terms : {HelloAck(terms), FailedHelloAck, AuthResponse(TRUE), AuthResponse(FALSE),
                   [kind |-> "Heartbeat"], [kind |-> "ChannelOpen"]} \subseteq Replies(config, terms)
  BY DEF Replies, HelloAck, FailedHelloAck
<1>5. \A terms : (\A s \in Transports : SessionAck(TRUE, s) \in Replies(config, terms))
                 /\ (\A s \in SessionIds : SessionAck(FALSE, s) \in Replies(config, terms))
  BY DEF Replies
<1> QED BY <1>1, <1>2, <1>3, <1>4, <1>5

\* The link the client drops.
LEMMA DroppedTyped ==
    ASSUME LinksKept, tr \in Transports
    PROVE  /\ Dropped \in [Transports -> LinkStates]
           /\ \A t \in Transports : Dropped[t] # link[t] =>
                link[t] # "none" /\ Dropped[t] \notin {"none", "backlog"}
BY DEF LinksKept, LinkTypes, Dropped, LinkStates

(* A new transport starts with the client's Hello and nothing else.          *)
LEMMA TransportOpens ==
    ASSUME ConnectorKept, LinksKept, config' = config, TcpConnects
    PROVE  LinksKept'
<1> DEFINE n == tr + 1
<1>0. tr \in Nat /\ n \in Transports /\ n > tr /\ tr' = n /\ at' \notin WithLink \ {"helloAck"}
      /\ saved \in SessionIds
  BY TransportInRange
     DEF ConnectorKept, TransportsPaid, OneId, TcpConnects, LinksKept, LinkTypes, WithLink, Establishing
<1>1. UNCHANGED <<down, task, cliHas, srvHas>>
  BY DEF TcpConnects
<1>2. /\ link \in [Transports -> LinkStates] /\ DOMAIN up = Transports
      /\ \A t \in Transports : Sound(t)
  BY DEF LinksKept, LinkTypes
<1>3. <<Hello(saved)>> \in Seq(Greetings(config)) /\ <<Hello(saved)>> \in Seq(Requests(config))
  BY <1>0, FramesAreKnown
<1>4. /\ link' \in [Transports -> LinkStates] /\ DOMAIN up' = Transports
      /\ \A t \in Transports \ {n} : link'[t] = link[t] /\ up'[t] = up[t]
      /\ link'[n] \in {"backlog", link[n]}
      /\ up'[n] \in {<<Hello(saved)>>, up[n]}
  BY <1>0, <1>2 DEF TcpConnects, LinkStates, ResumeId
<1>5. LinkTypes'
  BY <1>1, <1>4 DEF LinksKept, LinkTypes
<1> HIDE DEF n
<1>6. ASSUME NEW t \in Transports PROVE Sound(t)'
  <2>1. Sound(t)
    BY <1>2
  <2>2. t \in Nat
    BY HandshakeAssumption DEF Transports
  <2>3. t > n => t > tr /\ t # n
    BY <1>0, <2>2 DEF n
  <2>4. Untouched(t)'
    BY <1>0, <1>1, <1>4, <2>1, <2>3 DEF Sound, Untouched
  <2>5. NotAccepted(t)'
    <3>1. CASE t = n
      BY <1>0, <1>1, <2>1, <3>1 DEF Sound, Untouched, NotAccepted
    <3>2. CASE t # n
      BY <1>1, <1>4, <2>1, <3>2 DEF Sound, NotAccepted
    <3> QED BY <3>1, <3>2
  <2>6. TermsBoth(t)'
    BY <1>1, <2>1 DEF Sound, TermsBoth
  <2>7. up'[t] = up[t] \/ up'[t] = <<Hello(saved)>>
    BY <1>4
  <2>8. FramesKnown(t)'
    BY <1>1, <1>3, <2>1, <2>7 DEF Sound, FramesKnown
  <2>9. SilentBefore(t)'
    BY <1>1, <1>3, <2>1, <2>7 DEF Sound, SilentBefore
  <2> QED BY <2>4, <2>5, <2>6, <2>8, <2>9 DEF Sound
<1>7. TermsHeld'
  BY <1>0 DEF TermsHeld
<1> QED BY <1>5, <1>6, <1>7 DEF LinksKept

(* Every step of the connector keeps the facts about the transports.         *)
LEMMA ConnectorLinksKept ==
    ASSUME ConnectorKept, LinksKept, config' = config,
           ConnectorStep \/ TcpConnects \/ (\E b \in BOOLEAN : TcpFails(b))
    PROVE  LinksKept'
<1>0. /\ TransportsPaid /\ config \in Configs /\ link \in [Transports -> LinkStates]
      /\ DOMAIN up = Transports /\ DOMAIN down = Transports /\ DOMAIN cliHas = Transports
      /\ saved \in SessionIds
  BY DEF LinksKept, LinkTypes, ConnectorKept, OneId
<1>a. Establishing \subseteq WithLink /\ {"serving", "cleanup"} \subseteq WithLink
      /\ {"loop", "tcp", "end", "giveUp", "backoff"} \cap WithLink = {}
  BY DEF WithLink, Establishing
<1>b. ASSUME NEW b, Fails(b) PROVE at' \notin WithLink /\ tr' = tr
  BY <1>b, <1>a DEF Fails
<1>c. ASSUME at \in WithLink PROVE tr \in Transports
  BY <1>0, <1>c, TransportInRange
<1>1. CASE Spawn \/ Stop \/ LoopHead \/ GiveUp \/ BackoffEnds \/ \E b \in BOOLEAN : TcpFails(b)
  <2>1. UNCHANGED <<linkVars, tr>> /\ (at' = at \/ at' \notin WithLink)
    BY <1>1, <1>a, <1>b DEF Spawn, Stop, LoopHead, GiveUp, BackoffEnds, TcpFails, Returns
  <2>2. UNCHANGED <<link, up, down, task, cliHas, srvHas, tr>>
    BY <2>1 DEF linkVars
  <2> QED BY <1>0, <2>1, <2>2, LinkLoss
<1>2. CASE LinkLost \/ HandshakeTimeout
  <2>1. at \in WithLink /\ UNCHANGED <<up, down, task, cliHas, srvHas>> /\ link' = Dropped
        /\ \E b : Fails(b)
    BY <1>2, <1>a DEF LinkLost, HandshakeTimeout, EstablishFails, Establishing
  <2> QED BY <1>b, <1>c, <2>1, DroppedTyped, LinkLoss
<1>3. CASE Receive
  <2>1. at \in WithLink /\ CanRead(down, tr)
    BY <1>3, <1>a DEF Receive
  <2>2. /\ tr \in Transports /\ task[tr] \notin Unread
        /\ down' = [down EXCEPT ![tr] = Tail(@)]
        /\ Head(down[tr]) \in Replies(config, srvHas[tr])
    BY <1>0, <1>3, <2>1, HelloWasRead, HeadIsReply
       DEF Receive, Takes, GetHelloAck, GetAuthResponse, GetResumeAck, GetCreateAck
  <2>3. /\ DOMAIN down' = Transports
        /\ down'[tr] \in Seq(Replies(config, srvHas[tr]))
        /\ \A t \in Transports \ {tr} : down'[t] = down[t]
    BY <1>0, <2>1, <2>2, HelloWasRead
  <2>4. up[tr] \in Seq(Requests(config))
    BY <2>2 DEF LinksKept, Sound, FramesKnown
  <2>5. ASSUME EstablishFails(FALSE) PROVE LinksKept'
    <3>1. at' \notin WithLink /\ tr' = tr /\ link' = Dropped /\ UNCHANGED <<up, task, cliHas, srvHas>>
      BY <1>b, <2>5 DEF EstablishFails
    <3>2. /\ link' \in [Transports -> LinkStates]
          /\ \A t \in Transports : link'[t] # link[t] =>
                link[t] # "none" /\ link'[t] \notin {"none", "backlog"}
      BY <2>2, <3>1, DroppedTyped
    <3> QED BY <1>0, <2>2, <2>3, <2>4, <3>1, <3>2, ClientTalks
  <2>6. ASSUME NEW f \in Requests(config), NEW next, Answer(f, next),
               \/ cliHas' = cliHas /\ at # "helloAck"
               \/ cliHas' = [cliHas EXCEPT ![tr] = srvHas[tr]]
        PROVE  LinksKept'
    <3>1. up' = Written(up, tr, f) /\ UNCHANGED <<link, task, srvHas, tr>>
      BY <2>6 DEF Answer
    <3>2. /\ DOMAIN up' = Transports /\ up'[tr] \in Seq(Requests(config))
          /\ \A t \in Transports \ {tr} : up'[t] = up[t]
      BY <2>2, <3>1, RequestWritten
    <3>3. at # "helloAck" => cliHas[tr] = srvHas[tr]
      BY <2>1 DEF LinksKept, TermsHeld
    <3>4. /\ DOMAIN cliHas' = Transports /\ cliHas'[tr] = srvHas[tr]
          /\ \A t \in Transports \ {tr} : cliHas'[t] = cliHas[t]
      BY <1>0, <2>2, <2>6, <3>3
    <3> QED BY <1>0, <2>2, <2>3, <3>1, <3>2, <3>4, ClientTalks
  <2>7. ASSUME NEW s, Serves(s), at # "helloAck" PROVE LinksKept'
    <3>1. cliHas[tr] = srvHas[tr]
      BY <2>1, <2>7 DEF LinksKept, TermsHeld
    <3>2. UNCHANGED <<link, up, task, cliHas, srvHas, tr>>
      BY <2>7 DEF Serves
    <3> QED BY <1>0, <2>2, <2>3, <2>4, <3>1, <3>2, ClientTalks
  <2>8. CASE at = "helloAck" /\ GetHelloAck
    BY <2>2, <2>5, <2>6, <2>8, EchoAgrees, FramesAreKnown DEF GetHelloAck
  <2>9. CASE at = "authResp" /\ GetAuthResponse
    BY <1>0, <2>2, <2>5, <2>6, <2>9, FramesAreKnown DEF GetAuthResponse, ResumeId
  <2>10. CASE at = "resumeAck" /\ GetResumeAck
    BY <2>5, <2>6, <2>7, <2>10, FramesAreKnown DEF GetResumeAck
  <2>11. CASE at = "createAck" /\ GetCreateAck
    BY <2>5, <2>7, <2>11 DEF GetCreateAck
  <2> QED BY <1>3, <2>8, <2>9, <2>10, <2>11 DEF Receive
<1>4. CASE ServeFrame \/ ServeEnds
  <2>1. at = "serving" /\ at \in WithLink /\ tr \in Transports
    BY <1>4, <1>a, <1>c DEF ServeFrame, ServeEnds, ServeStops, ServeLoses
  <2>2. task[tr] \notin Unread /\ cliHas[tr] = srvHas[tr]
    BY <2>1, <1>a DEF LinksKept, TermsHeld
  <2>3. UNCHANGED <<link, task, cliHas, srvHas, tr>>
    BY <1>4 DEF ServeFrame, ServeEnds, ServeStops, ServeLoses, Leaving, connVars
  <2>4. up' = up \/ \E f \in Requests(config) : up' = Written(up, tr, f)
    BY <1>4, FramesAreKnown DEF ServeFrame, ServeEnds, ServeStops, ServeLoses, Leaving
  <2>5. up[tr] \in Seq(Requests(config)) /\ down[tr] \in Seq(Replies(config, srvHas[tr]))
    BY <2>1 DEF LinksKept, Sound, FramesKnown
  <2>6. /\ DOMAIN up' = Transports /\ up'[tr] \in Seq(Requests(config))
        /\ \A t \in Transports \ {tr} : up'[t] = up[t]
    BY <1>0, <2>1, <2>4, <2>5, RequestWritten
  <2>7. /\ DOMAIN down' = Transports
        /\ down'[tr] \in Seq(Replies(config, srvHas[tr]))
        /\ \A t \in Transports \ {tr} : down'[t] = down[t]
    <3>1. CASE ServeFrame
      BY <1>0, <2>1, <3>1, HelloWasRead DEF ServeFrame
    <3>2. CASE ServeEnds
      BY <1>0, <2>5, <3>2 DEF ServeEnds, ServeStops, ServeLoses, Leaving
    <3> QED BY <1>4, <3>1, <3>2
  <2> QED BY <1>0, <2>1, <2>2, <2>3, <2>6, <2>7, ClientTalks
<1>5. CASE Cleanup
  <2>1. at \in WithLink /\ link' = Dropped /\ UNCHANGED <<up, down, task, cliHas, srvHas>>
        /\ at' \notin WithLink /\ tr' = tr
    BY <1>5, <1>a, <1>b DEF Cleanup, Returns
  <2> QED BY <1>c, <2>1, DroppedTyped, LinkLoss
<1>6. CASE TcpConnects
  BY <1>6, TransportOpens
<1> QED BY <1>1, <1>2, <1>3, <1>4, <1>5, <1>6 DEF ConnectorStep

-----------------------------------------------------------------------------
(* A relay task reads a frame and answers: once past Hello, with frames it    *)
(* may send, on terms that change only when Hello is read.                    *)
LEMMA TaskTalks ==
    ASSUME LinksKept, TransportsPaid, NEW t \in Transports,
           UNCHANGED <<config, link, cliHas, tr, at>>,
           task[t] # "none", task' \in [Transports -> TaskStates], task'[t] \notin Unread,
           DOMAIN up' = Transports, DOMAIN down' = Transports, DOMAIN srvHas' = Transports,
           \A u \in Transports \ {t} :
             task'[u] = task[u] /\ up'[u] = up[u] /\ down'[u] = down[u] /\ srvHas'[u] = srvHas[u],
           up'[t] \in Seq(Requests(config)),
           down'[t] \in Seq(Replies(config, srvHas'[t])),
           \/ srvHas'[t] = srvHas[t]
           \/ /\ task[t] \in Unread /\ srvHas'[t] \in Terms
              /\ srvHas'[t].features \subseteq
                    AdvertisedFor(config.client.off) \cap AdvertisedFor(config.server.off)
    PROVE  LinksKept'
<1>1. LinkTypes'
  BY DEF LinksKept, LinkTypes
<1>2. ASSUME NEW u \in Transports PROVE Sound(u)'
  <2>1. Sound(u) /\ Sound(t)
    BY DEF LinksKept
  <2>2. CASE u # t
    <3>1. task'[u] = task[u] /\ up'[u] = up[u] /\ down'[u] = down[u] /\ srvHas'[u] = srvHas[u]
      BY <2>2
    <3>2. SilentBefore(u)' /\ TermsBoth(u)'
      BY <2>1, <3>1 DEF Sound, SilentBefore, TermsBoth
    <3>3. FramesKnown(u)' /\ Untouched(u)' /\ NotAccepted(u)'
      BY <2>1, <3>1 DEF Sound, FramesKnown, Untouched, NotAccepted
    <3> QED BY <3>2, <3>3 DEF Sound
  <2>3. CASE u = t
    <3>1. SilentBefore(t)'
      BY DEF SilentBefore
    <3>2. Untouched(t)' /\ NotAccepted(t)'
      BY <2>1 DEF Sound, Untouched, NotAccepted
    <3>3. FramesKnown(t)'
      BY DEF FramesKnown
    <3>4. TermsBoth(t)'
      BY <2>1 DEF Sound, TermsBoth, SilentBefore
    <3> QED BY <2>3, <3>1, <3>2, <3>3, <3>4 DEF Sound
  <2> QED BY <2>2, <2>3
<1>3. TermsHeld'
  <2> SUFFICES ASSUME at \in WithLink \ {"helloAck"}
               PROVE  task'[tr] \notin Unread /\ cliHas[tr] = srvHas'[tr]
    BY DEF TermsHeld
  <2>1. tr \in Transports /\ task[tr] \notin Unread /\ cliHas[tr] = srvHas[tr]
    BY TransportInRange DEF LinksKept, LinkTypes, TermsHeld
  <2> QED BY <2>1
<1> QED BY <1>1, <1>2, <1>3 DEF LinksKept

(* A reply written to the transport, or lost.                                *)
LEMMA ReplyWritten ==
    ASSUME LinksKept, NEW t \in Transports, NEW terms, NEW f \in Replies(config, terms),
           down[t] \in Seq(Replies(config, terms))
    PROVE  /\ DOMAIN Written(down, t, f) = Transports
           /\ Written(down, t, f)[t] \in Seq(Replies(config, terms))
           /\ \A u \in Transports \ {t} : Written(down, t, f)[u] = down[u]
<1>1. DOMAIN down = Transports
  BY DEF LinksKept, LinkTypes
<1> DEFINE R == Replies(config, terms)
<1> HIDE DEF R
<1>2. Append(down[t], f) \in Seq(R)
  BY DEF R
<1> QED BY <1>1, <1>2 DEF Written, R

(* What the relay decides on a Hello is in both lists.                       *)
LEMMA TermsDecided ==
    ASSUME NEW hello \in Greetings(config)
    PROVE  /\ ServerTerms(hello) \in Terms
           /\ ServerTerms(hello).features \subseteq
                AdvertisedFor(config.client.off) \cap AdvertisedFor(config.server.off)
<1>1. hello.caps = AdvertisedFor(config.client.off)
  BY DEF Greetings
<1>2. ServerTerms(hello).features =
        NegotiateFeatures(AdvertisedFor(config.client.off), AdvertisedFor(config.server.off))
  BY <1>1 DEF ServerTerms
<1>3. NegotiateAlgo(hello.algos, config.server.algos) \in {"disabled"} \cup {Algos[i] : i \in 1 .. 4}
  <2> DEFINE both == {i \in 1 .. Len(Algos) : Algos[i] \in hello.algos \cap config.server.algos}
             best == CHOOSE i \in both : \A j \in both : i <= j
  <2>1. both \subseteq 1 .. 4
    BY DEF Algos
  <2>2. both # {} => \E i \in both : \A j \in both : i <= j
    <3> HIDE DEF both
    <3>0. \A i \in 1 .. 4 : i = 1 \/ i = 2 \/ i = 3 \/ i = 4
      OBVIOUS
    <3>1. both # {} => 1 \in both \/ 2 \in both \/ 3 \in both \/ 4 \in both
      BY <2>1, <3>0, Zenon
    <3> QED BY <2>1, <3>1
  <2>3. both # {} => best \in 1 .. 4
    <3> HIDE DEF both
    <3> QED BY <2>1, <2>2
  <2> QED BY <2>3 DEF NegotiateAlgo
<1>4. ServerTerms(hello) =
        [features |-> NegotiateFeatures(AdvertisedFor(config.client.off), AdvertisedFor(config.server.off)),
         algo |-> NegotiateAlgo(hello.algos, config.server.algos)]
  BY <1>1 DEF ServerTerms
<1>5. NegotiateFeatures(AdvertisedFor(config.client.off), AdvertisedFor(config.server.off))
        \subseteq Supported
  BY DEF NegotiateFeatures
<1>6. ServerTerms(hello) \in Terms
  BY <1>3, <1>4, <1>5 DEF Terms
<1> QED BY <1>2, <1>6 DEF NegotiateFeatures

(* The relay's steps on one transport.                                       *)
LEMMA RelayLinksKept ==
    ASSUME ConnectorKept, LinksKept, alive \subseteq Transports, NEW t \in Transports,
           UNCHANGED <<config, at, tr>>,
           \/ Accept(t) \/ TakeFrame(t) \/ Heartbeat(t) \/ Leave(t) \/ TaskEnds(t)
           \/ ServerHello(t) \/ ServerAuth(t) \/ ServerHandshakeEnds(t)
    PROVE  LinksKept'
<1>0. /\ TransportsPaid /\ config \in Configs /\ link \in [Transports -> LinkStates]
      /\ task \in [Transports -> TaskStates]
      /\ DOMAIN up = Transports /\ DOMAIN down = Transports /\ DOMAIN srvHas = Transports
      /\ Sound(t)
  BY DEF LinksKept, LinkTypes, ConnectorKept
<1>a. up[t] \in Seq(Requests(config)) /\ down[t] \in Seq(Replies(config, srvHas[t]))
  BY <1>0 DEF Sound, FramesKnown
<1>b. ASSUME CanRead(up, t)
      PROVE  /\ DOMAIN [up EXCEPT ![t] = Tail(@)] = Transports
             /\ [up EXCEPT ![t] = Tail(@)][t] \in Seq(Requests(config))
             /\ Head(up[t]) \in Requests(config)
             /\ \A u \in Transports \ {t} : [up EXCEPT ![t] = Tail(@)][u] = up[u]
  BY <1>0, <1>a, <1>b, HeadAndTail DEF CanRead
<1>1. CASE Accept(t)
  <2>1. /\ link[t] = "backlog" /\ task[t] = "none" /\ UNCHANGED <<up, down, cliHas, srvHas>>
        /\ link' \in [Transports -> LinkStates] /\ task' \in [Transports -> TaskStates]
        /\ \A u \in Transports \ {t} : link'[u] = link[u] /\ task'[u] = task[u]
        /\ link'[t] \in {"open", "dead"} /\ task'[t] \in Unread
    BY <1>0, <1>1 DEF Accept, Sound, NotAccepted, LinkStates, TaskStates, InService, Unread
  <2>2. LinkTypes'
    BY <2>1 DEF LinksKept, LinkTypes
  <2>3. ASSUME NEW u \in Transports PROVE Sound(u)'
    <3>1. Sound(u)
      BY DEF LinksKept
    <3>2. task'[u] \in Unread => task[u] \in Unread
      BY <2>1 DEF Unread
    <3>3. SilentBefore(u)' /\ TermsBoth(u)' /\ FramesKnown(u)'
      BY <2>1, <3>1, <3>2 DEF Sound, SilentBefore, TermsBoth, FramesKnown
    <3>4. Untouched(u)' /\ NotAccepted(u)'
      BY <2>1, <3>1 DEF Sound, Untouched, NotAccepted
    <3> QED BY <3>3, <3>4 DEF Sound
  <2>4. TermsHeld'
    <3> SUFFICES ASSUME at \in WithLink \ {"helloAck"}
                 PROVE  task'[tr] \notin Unread /\ cliHas[tr] = srvHas[tr]
      BY <2>1 DEF TermsHeld
    <3>1. tr \in Transports /\ task[tr] \notin Unread /\ cliHas[tr] = srvHas[tr]
      BY <1>0, TransportInRange DEF LinksKept, TermsHeld
    <3> QED BY <2>1, <3>1 DEF Unread
  <2> QED BY <2>2, <2>3, <2>4 DEF LinksKept
<1>2. CASE Leave(t) \/ TaskEnds(t) \/ ServerHandshakeEnds(t)
  <2>1. /\ UNCHANGED <<up, down, cliHas, srvHas>>
        /\ link' \in [Transports -> LinkStates] /\ task' \in [Transports -> TaskStates]
    BY <1>0, <1>2 DEF Leave, TaskEnds, ServerHandshakeEnds, LinkStates, TaskStates, InService
  <2>2. \A u \in Transports :
             /\ link'[u] # link[u] => link[u] # "none" /\ link'[u] \notin {"none", "backlog"}
             /\ task'[u] # task[u] => task[u] # "none" /\ task'[u] \notin Unread
    BY <1>0, <1>2 DEF Leave, TaskEnds, ServerHandshakeEnds, Unread
  <2> QED BY <1>0, <2>1, <2>2, TaskMoves
<1>3. CASE Heartbeat(t)
  <2>1. task[t] = "serving" /\ UNCHANGED <<link, up, task, cliHas, srvHas>>
        /\ down' = Written(down, t, [kind |-> "Heartbeat"])
    BY <1>3 DEF Heartbeat
  <2>2. /\ DOMAIN down' = Transports /\ down'[t] \in Seq(Replies(config, srvHas[t]))
        /\ \A u \in Transports \ {t} : down'[u] = down[u]
    <3>1. [kind |-> "Heartbeat"] \in Replies(config, srvHas[t])
      BY FramesAreKnown
    <3> QED BY <1>a, <2>1, <3>1, ReplyWritten
  <2>3. task[t] # "none" /\ task[t] \notin Unread
    BY <2>1 DEF Unread
  <2> QED BY <1>0, <1>a, <2>1, <2>2, <2>3, TaskTalks
<1>4. CASE ServerHello(t)
  <2> DEFINE hello == Head(up[t])
  <2>1. task[t] = "hello" /\ CanRead(up, t) /\ up' = [up EXCEPT ![t] = Tail(@)]
        /\ UNCHANGED <<link, cliHas>>
    BY <1>4 DEF ServerHello
  <2>2. task[t] \in Unread /\ down[t] = <<>> /\ up[t] \in Seq(Greetings(config)) /\ up[t] # <<>>
    BY <1>0, <2>1 DEF Sound, SilentBefore, Unread, CanRead
  <2>3. hello \in Greetings(config)
    BY <2>2, HeadAndTail
  <2>4. ASSUME NEW terms PROVE down[t] \in Seq(Replies(config, terms))
    BY <2>2
  <2>5. CASE hello.version # config.server.version
    <3>1. UNCHANGED srvHas /\ task' = [task EXCEPT ![t] = "failed"]
          /\ down' = Written(down, t, FailedHelloAck)
      BY <1>4, <2>5 DEF ServerHello
    <3>2. /\ DOMAIN down' = Transports /\ down'[t] \in Seq(Replies(config, srvHas[t]))
          /\ \A u \in Transports \ {t} : down'[u] = down[u]
      BY <1>a, <3>1, ReplyWritten, FramesAreKnown
    <3>3. /\ task' \in [Transports -> TaskStates] /\ task'[t] \notin Unread
          /\ \A u \in Transports \ {t} : task'[u] = task[u]
      BY <1>0, <3>1 DEF TaskStates, InService, Unread
    <3> QED BY <1>0, <1>b, <2>1, <3>1, <3>2, <3>3, TaskTalks
  <2>6. CASE hello.version = config.server.version
    <3> DEFINE terms == ServerTerms(hello)
    <3>1. srvHas' = [srvHas EXCEPT ![t] = terms] /\ task' = [task EXCEPT ![t] = "auth"]
          /\ down' = Written(down, t, HelloAck(terms))
      BY <1>4, <2>6 DEF ServerHello
    <3>2. /\ terms \in Terms
          /\ terms.features \subseteq
                AdvertisedFor(config.client.off) \cap AdvertisedFor(config.server.off)
      BY <2>3, TermsDecided
    <3> HIDE DEF terms, hello
    <3>3. /\ DOMAIN down' = Transports /\ down'[t] \in Seq(Replies(config, terms))
          /\ \A u \in Transports \ {t} : down'[u] = down[u]
      BY <2>4, <3>1, ReplyWritten, FramesAreKnown
    <3>4. /\ task' \in [Transports -> TaskStates] /\ task'[t] \notin Unread
          /\ \A u \in Transports \ {t} : task'[u] = task[u]
      BY <1>0, <3>1 DEF TaskStates, InService, Unread
    <3>5. /\ DOMAIN srvHas' = Transports /\ srvHas'[t] = terms
          /\ \A u \in Transports \ {t} : srvHas'[u] = srvHas[u]
      BY <1>0, <3>1
    <3> QED BY <1>0, <1>b, <2>1, <2>2, <3>2, <3>3, <3>4, <3>5, TaskTalks
  <2> QED BY <2>5, <2>6
<1>5. CASE ServerAuth(t)
  <2>1. /\ task[t] = "auth" /\ CanRead(up, t) /\ up' = [up EXCEPT ![t] = Tail(@)]
        /\ UNCHANGED <<link, cliHas, srvHas>>
    BY <1>5 DEF ServerAuth
  <2>2. PICK good \in BOOLEAN : /\ down' = Written(down, t, AuthResponse(good))
                                /\ task' = [task EXCEPT ![t] = IF good THEN "serving" ELSE "failed"]
    BY <1>5 DEF ServerAuth, VerifyToken
  <2>3. AuthResponse(good) \in Replies(config, srvHas[t])
    BY FramesAreKnown
  <2>4. /\ DOMAIN down' = Transports /\ down'[t] \in Seq(Replies(config, srvHas[t]))
        /\ \A u \in Transports \ {t} : down'[u] = down[u]
    BY <1>a, <2>2, <2>3, ReplyWritten
  <2>5. /\ task' \in [Transports -> TaskStates] /\ task'[t] \notin Unread /\ task[t] # "none"
        /\ \A u \in Transports \ {t} : task'[u] = task[u]
    BY <1>0, <2>1, <2>2 DEF TaskStates, InService, Unread
  <2> QED BY <1>0, <1>b, <2>1, <2>4, <2>5, TaskTalks
<1>6. CASE TakeFrame(t)
  <2>1. /\ task[t] = "serving" /\ CanRead(up, t) /\ up' = [up EXCEPT ![t] = Tail(@)]
        /\ UNCHANGED <<link, task, cliHas, srvHas>>
    BY <1>6 DEF TakeFrame
  <2>2. task[t] \notin Unread /\ task[t] # "none"
    BY <2>1 DEF Unread
  <2>3. ASSUME NEW ok \in BOOLEAN, NEW s, ok => s \in Transports, ~ok => s \in SessionIds,
               Acked(t, ok, s)
        PROVE  /\ DOMAIN down' = Transports /\ down'[t] \in Seq(Replies(config, srvHas[t]))
               /\ \A u \in Transports \ {t} : down'[u] = down[u]
    <3> DEFINE R == Replies(config, srvHas[t])
    <3>1. SessionAck(ok, s) \in R /\ [kind |-> "ChannelOpen"] \in R
      BY <2>3, FramesAreKnown
    <3>2. CASE down' = Written(down, t, SessionAck(ok, s))
      BY <1>a, <3>1, <3>2, ReplyWritten
    <3>3. CASE down' = [down EXCEPT ![t] = @ \o <<[kind |-> "ChannelOpen"], SessionAck(ok, s)>>]
      <4>0. down[t] \in Seq(R)
        BY <1>a
      <4> HIDE DEF R
      <4>1. <<[kind |-> "ChannelOpen"], SessionAck(ok, s)>> \in Seq(R)
        BY <3>1
      <4>2. down[t] \o <<[kind |-> "ChannelOpen"], SessionAck(ok, s)>> \in Seq(R)
        BY <4>0, <4>1
      <4> QED BY <1>0, <3>3, <4>2 DEF R
    <3> QED BY <2>3, <3>2, <3>3 DEF Acked
  <2>4. /\ DOMAIN down' = Transports /\ down'[t] \in Seq(Replies(config, srvHas[t]))
        /\ \A u \in Transports \ {t} : down'[u] = down[u]
    <3> DEFINE f == Head(up[t])
    <3>0. 0 \in SessionIds /\ f \in Requests(config)
      BY <1>b, <2>1 DEF SessionIds
    <3>1. ASSUME NEW ok \in BOOLEAN, Creates(t, ok) PROVE <2>4
      BY <2>3, <3>0, <3>1 DEF Creates
    <3>2. CASE f.kind = "Resume" /\ Resumes(t, f.session)
      <4>1. f.session \in SessionIds
        BY <3>0, <3>2 DEF Requests, Greetings, Create, Resume
      <4>2. (f.session \in alive) \in BOOLEAN
        OBVIOUS
      <4> QED BY <2>3, <3>2, <4>1, <4>2 DEF Resumes
    <3>3. CASE DestroysOwn(t) \/ UNCHANGED down
      BY <1>0, <1>a, <3>3 DEF DestroysOwn
    <3> QED BY <1>6, <3>1, <3>2, <3>3 DEF TakeFrame
  <2> QED BY <1>0, <1>b, <2>1, <2>2, <2>4, TaskTalks
<1> QED BY <1>1, <1>2, <1>3, <1>4, <1>5, <1>6

-----------------------------------------------------------------------------
(* The served transports are finitely many.                                  *)
LEMMA ServedFinite == IsFiniteSet(Served) /\ Cardinality(Served) \in Nat
<1>1. IsFiniteSet(Transports)
  BY HandshakeAssumption, FS_Interval DEF Transports
<1>2. Served \subseteq Transports
  BY DEF Served
<1> QED BY <1>1, <1>2, FS_Subset, FS_CardinalityType

(* The count stays exact when a task stays in service or stays out of it ... *)
LEMMA ServiceUnchanged ==
    ASSUME RelayKept, active' = active, others' = others, alive' \subseteq Transports,
           holder' \in [Transports -> SessionIds],
           \A t \in Transports : (task'[t] \in InService) <=> (task[t] \in InService)
    PROVE  RelayKept'
<1>1. Served' = Served
  BY DEF Served
<1> QED BY <1>1 DEF RelayKept, ConnectionsCounted

(* ... and every step of the relay keeps it.                                 *)
LEMMA RelayStepKeeps ==
    ASSUME LinksKept, RelayKept, RelayStep
    PROVE  RelayKept'
<1>0. /\ task \in [Transports -> TaskStates] /\ MaxConnections \in Nat /\ others \in Nat
      /\ active = Cardinality(Served) + others /\ active <= MaxConnections
      /\ IsFiniteSet(Served) /\ Cardinality(Served) \in Nat
      /\ alive \subseteq Transports /\ holder \in [Transports -> SessionIds]
  BY ServedFinite, RelayAssumption DEF LinksKept, LinkTypes, RelayKept, ConnectionsCounted
<1>a. 0 \in SessionIds /\ Transports \subseteq SessionIds
  BY DEF SessionIds
<1>b. [s \in Transports |-> 0] \in [Transports -> SessionIds]
  BY <1>a
<1>1. CASE OtherConnects
  <2>1. Served' = Served
    BY <1>1 DEF OtherConnects, linkVars, Served
  <2> QED BY <1>0, <1>1, <2>1 DEF OtherConnects, RelayKept, ConnectionsCounted
<1>2. CASE OtherLeaves
  <2>1. Served' = Served
    BY <1>2 DEF OtherLeaves, linkVars, Served
  <2> QED BY <1>0, <1>2, <2>1 DEF OtherLeaves, RelayKept, ConnectionsCounted
<1>3. CASE AcceptFails \/ RequestStop \/ TakeStop \/ LoopEnds \/ Start
  <2>1. UNCHANGED <<task, active, others>>
    BY <1>3 DEF AcceptFails, RequestStop, TakeStop, LoopEnds, Start, linkVars
  <2>2. alive' \subseteq Transports /\ holder' \in [Transports -> SessionIds]
    BY <1>0, <1>3, <1>b DEF AcceptFails, RequestStop, TakeStop, LoopEnds, Start
  <2> QED BY <2>1, <2>2, ServiceUnchanged
<1>4. CASE Crash
  <2>1. \A t \in Transports : task'[t] \notin InService
    BY <1>0, <1>4 DEF Crash, InService
  <2>2. Cardinality(Served') = 0
    BY <2>1, FS_EmptySet DEF Served
  <2>3. others' = 0 /\ active' = 0 /\ alive' = {} /\ holder' = [s \in Transports |-> 0]
    BY <1>4 DEF Crash
  <2> QED BY <1>0, <1>b, <2>2, <2>3 DEF RelayKept, ConnectionsCounted
<1>5. ASSUME NEW t \in Transports, Accept(t) PROVE RelayKept'
  <2>1. task[t] = "none" /\ t \notin Served
    BY <1>5 DEF Accept, LinksKept, Sound, NotAccepted, Served, InService
  <2>2. CASE active + 1 > MaxConnections
    <3>1. UNCHANGED <<task, active, others, alive, holder>>
      BY <1>5, <2>2 DEF Accept
    <3> QED BY <1>0, <3>1, ServiceUnchanged
  <2>3. CASE ~(active + 1 > MaxConnections)
    <3>1. task' = [task EXCEPT ![t] = "hello"] /\ active' = active + 1
          /\ UNCHANGED <<others, alive, holder>>
      BY <1>5, <2>3 DEF Accept
    <3>2. Served' = Served \cup {t}
      BY <1>0, <3>1 DEF Served, InService
    <3>3. Cardinality(Served') = Cardinality(Served) + 1
      BY <1>0, <2>1, <3>2, FS_AddElement
    <3> QED BY <1>0, <2>3, <3>1, <3>3 DEF RelayKept, ConnectionsCounted
  <2> QED BY <2>2, <2>3
<1>6. ASSUME NEW t \in Transports, TakeFrame(t) PROVE RelayKept'
  <2>1. UNCHANGED <<task, active, others>>
    BY <1>6 DEF TakeFrame
  <2>2. alive' \subseteq Transports /\ holder' \in [Transports -> SessionIds]
    BY <1>0, <1>6, <1>a DEF TakeFrame, Creates, Resumes, DestroysOwn
  <2> QED BY <2>1, <2>2, ServiceUnchanged
<1>7. ASSUME NEW t \in Transports, Heartbeat(t) \/ Leave(t) \/ GraceExpires(t) PROVE RelayKept'
  <2>1. UNCHANGED <<active, others, holder>> /\ alive' \subseteq Transports
    BY <1>0, <1>7 DEF Heartbeat, Leave, GraceExpires, relayVars
  <2>2. \A u \in Transports : (task'[u] \in InService) <=> (task[u] \in InService)
    BY <1>0, <1>7 DEF Heartbeat, Leave, GraceExpires, linkVars, InService
  <2> QED BY <1>0, <2>1, <2>2, ServiceUnchanged
<1>8. ASSUME NEW t \in Transports, TaskEnds(t) PROVE RelayKept'
  <2>1. task' = [task EXCEPT ![t] = "over"] /\ active' = active - 1 /\ t \in Served
        /\ UNCHANGED <<others, alive>>
    BY <1>8 DEF TaskEnds, Served, InService
  <2>2. holder' \in [Transports -> SessionIds]
    BY <1>0, <1>8, <1>a DEF TaskEnds
  <2>3. Served' = Served \ {t}
    BY <1>0, <2>1 DEF Served, InService
  <2>4. Cardinality(Served') = Cardinality(Served) - 1
    BY <1>0, <2>1, <2>3, FS_RemoveElement
  <2>5. active' = Cardinality(Served') + others'
    BY <1>0, <2>1, <2>4
  <2>6. active' <= MaxConnections
    BY <1>0, <2>1
  <2> QED BY <1>0, <2>1, <2>2, <2>5, <2>6 DEF RelayKept, ConnectionsCounted
<1>9. ASSUME NEW t \in Transports, ServerHello(t) \/ ServerAuth(t) \/ ServerHandshakeEnds(t),
             UNCHANGED relayVars
      PROVE  RelayKept'
  <2>1. UNCHANGED <<active, others, alive, holder>>
    BY <1>9 DEF relayVars
  <2>2. \A u \in Transports : (task'[u] \in InService) <=> (task[u] \in InService)
    BY <1>0, <1>9 DEF ServerHello, ServerAuth, ServerHandshakeEnds, InService
  <2> QED BY <1>0, <2>1, <2>2, ServiceUnchanged
<1> QED
  BY <1>1, <1>2, <1>3, <1>4, <1>5, <1>6, <1>7, <1>8, <1>9 DEF RelayStep

-----------------------------------------------------------------------------
(* The invariant of client, relay and tunnel together.                       *)
LEMMA SessionStep == IInv /\ [Next]_vars => IInv'
<1> SUFFICES ASSUME IInv, [Next]_vars PROVE IInv'
  OBVIOUS
<1>0. ConnectorKept /\ LinksKept /\ RelayKept /\ TunnelKept /\ TransportsPaid
      /\ alive \subseteq Transports /\ link \in [Transports -> LinkStates]
      /\ task \in [Transports -> TaskStates]
  BY DEF IInv, ConnectorKept, RelayKept, LinksKept, LinkTypes
<1>a. ASSUME UNCHANGED <<config, connVars>> PROVE ConnectorKept'
  BY <1>0, <1>a DEF connVars, ConnectorKept, TransportsPaid, OneId, PhaseKept, HonestPhase
<1>b. ASSUME UNCHANGED <<task, relayVars>> PROVE RelayKept'
  BY <1>0, <1>b, ServiceUnchanged DEF relayVars, RelayKept
<1>c. ASSUME UNCHANGED sshVars PROVE TunnelKept'
  BY <1>0, <1>c, TunnelStep
<1>1. CASE Client
  <2>1. /\ ConnectorStep \/ TcpConnects \/ (\E b \in BOOLEAN : TcpFails(b))
        /\ config' = config /\ UNCHANGED relayVars /\ UNCHANGED sshVars
    BY <1>1 DEF Client
  <2>2. UNCHANGED task
    BY <2>1 DEF ConnectorStep, Spawn, Stop, LoopHead, GiveUp, BackoffEnds, LinkLost,
          HandshakeTimeout, Receive, GetHelloAck, GetAuthResponse, GetResumeAck, GetCreateAck,
          Answer, Serves, ServeFrame, ServeEnds, ServeStops, ServeLoses, Leaving, Cleanup, TcpConnects, TcpFails,
          EstablishFails, linkVars
  <2> QED BY <1>0, <1>b, <1>c, <2>1, <2>2, ConnectorStepKeeps, ConnectorLinksKept DEF IInv
<1>2. CASE Relay
  <2>1. RelayStep /\ config' = config /\ UNCHANGED connVars /\ UNCHANGED sshVars
        /\ UNCHANGED <<at, tr>>
    BY <1>2 DEF Relay, connVars
  <2>2. LinksKept'
    <3>1. CASE \/ OtherConnects \/ OtherLeaves \/ AcceptFails \/ RequestStop \/ TakeStop \/ Start
               \/ \E t \in Transports : GraceExpires(t)
      <4>1. UNCHANGED <<link, up, down, task, cliHas, srvHas>>
        BY <3>1 DEF OtherConnects, OtherLeaves, AcceptFails, RequestStop, TakeStop, Start,
                    GraceExpires, linkVars
      <4> QED BY <1>0, <2>1, <4>1, LinkLoss
    <3>2. CASE LoopEnds
      <4>1. UNCHANGED <<up, down, task, cliHas, srvHas>>
        BY <3>2 DEF LoopEnds
      <4>2. /\ link' \in [Transports -> LinkStates]
            /\ \A t \in Transports : link'[t] # link[t] =>
                  link[t] # "none" /\ link'[t] \notin {"none", "backlog"}
        BY <1>0, <3>2 DEF LoopEnds, LinkStates
      <4> QED BY <1>0, <2>1, <4>1, <4>2, LinkLoss
    <3>3. CASE Crash
      <4>1. UNCHANGED <<up, down, cliHas, srvHas>>
        BY <3>3 DEF Crash
      <4>2. /\ link' \in [Transports -> LinkStates]
            /\ task' \in [Transports -> TaskStates]
        BY <1>0, <3>3 DEF Crash, LinkStates, TaskStates
      <4>3. \A t \in Transports :
             /\ link'[t] # link[t] => link[t] # "none" /\ link'[t] \notin {"none", "backlog"}
             /\ task'[t] # task[t] => task[t] # "none" /\ task'[t] \notin Unread
        BY <1>0, <3>3 DEF Crash, Unread
      <4> QED BY <1>0, <2>1, <4>1, <4>2, <4>3, TaskMoves
    <3> QED BY <1>0, <2>1, <3>1, <3>2, <3>3, RelayLinksKept DEF RelayStep
  <2> QED BY <1>0, <1>a, <1>c, <2>1, <2>2, RelayStepKeeps DEF IInv
<1>3. CASE Tunnel
  <2>1. /\ SshStep(config.reconnect) /\ UNCHANGED relayVars
        /\ UNCHANGED <<config, up, down, task, cliHas, srvHas, tr, saved, acked, attempt,
                       result, phase, published, lastError, stopReq, done>>
        /\ at' = at \/ (at' = "dropped" /\ at # "end")
    BY <1>3 DEF Tunnel
  <2>2. ConnectorKept'
    BY <1>0, <2>1 DEF ConnectorKept, TransportsPaid, OneId, PhaseKept, HonestPhase, Between,
                      WithLink, Establishing
  <2>3. /\ link' \in [Transports -> LinkStates]
        /\ \A t \in Transports : link'[t] # link[t] =>
              link[t] # "none" /\ link'[t] \notin {"none", "backlog"}
    BY <1>0, <1>3 DEF Tunnel, CutByTunnel, LinkStates
  <2>4. at' = at \/ at' \notin WithLink \ {"helloAck"}
    BY <2>1 DEF WithLink, Establishing
  <2>5. LinksKept'
    BY <1>0, <2>1, <2>3, <2>4, LinkLoss
  <2>6. TunnelKept'
    BY <1>0, <2>1, TunnelStep
  <2> QED BY <1>b, <2>1, <2>2, <2>5, <2>6 DEF IInv
<1>4. CASE SessionOver
  <2>1. SessionEnds /\ config' = config /\ UNCHANGED connVars /\ UNCHANGED relayVars
        /\ UNCHANGED <<link, up, down, task, cliHas, srvHas, tr, at>>
    BY <1>4 DEF SessionOver, linkVars, connVars
  <2>2. LinksKept'
    BY <1>0, <2>1, LinkLoss
  <2> QED BY <1>0, <1>a, <1>b, <2>1, <2>2, TunnelStep DEF IInv
<1>5. ASSUME NEW t \in Transports, LinkBreaks(t) PROVE IInv'
  <2>1. /\ UNCHANGED <<config, up, down, task, cliHas, srvHas, tr, at>>
        /\ UNCHANGED connVars /\ UNCHANGED relayVars /\ UNCHANGED sshVars
    BY <1>5 DEF LinkBreaks, connVars
  <2>2. /\ link' \in [Transports -> LinkStates]
        /\ \A u \in Transports : link'[u] # link[u] =>
              link[u] # "none" /\ link'[u] \notin {"none", "backlog"}
    BY <1>0, <1>5 DEF LinkBreaks, LinkStates
  <2>3. LinksKept'
    BY <1>0, <2>1, <2>2, LinkLoss
  <2> QED BY <1>a, <1>b, <1>c, <2>1, <2>3 DEF IInv
<1>6. CASE UNCHANGED vars
  <2>1. /\ UNCHANGED <<config, link, up, down, task, cliHas, srvHas, tr, at>>
        /\ UNCHANGED connVars /\ UNCHANGED relayVars /\ UNCHANGED sshVars
    BY <1>6 DEF vars, linkVars, connVars
  <2>2. LinksKept'
    BY <1>0, <2>1, LinkLoss
  <2> QED BY <1>a, <1>b, <1>c, <2>1, <2>2 DEF IInv
<1> QED BY <1>1, <1>2, <1>3, <1>4, <1>5, <1>6 DEF Next

(* It holds when nothing has been started.                                   *)
LEMMA SessionStart == Init => IInv
<1> SUFFICES ASSUME Init PROVE IInv
  OBVIOUS
<1>0. config \in Configs /\ config.retries \in Nat
  BY HandshakeAssumption DEF Init
<1>1. ConnectorKept
  BY <1>0 DEF Init, ConnectorInit, ConnectorKept, TransportsPaid, OneId, PhaseKept, HonestPhase,
              Between, WithLink, Establishing, SessionIds
<1>2. LinkTypes
  BY DEF Init, LinkTypes, LinkStates, TaskStates
<1>3. ASSUME NEW t \in Transports PROVE Sound(t)
  <2>1. /\ link[t] = "none" /\ task[t] = "none" /\ up[t] = <<>> /\ down[t] = <<>>
        /\ cliHas[t] = NoTerms /\ srvHas[t] = NoTerms
    BY DEF Init
  <2>2. SilentBefore(t) /\ FramesKnown(t)
    BY <2>1 DEF SilentBefore, FramesKnown
  <2>3. Untouched(t) /\ NotAccepted(t)
    BY <2>1 DEF Untouched, NotAccepted
  <2>4. TermsBoth(t)
    BY <2>1 DEF TermsBoth, Terms, NoTerms
  <2> QED BY <2>2, <2>3, <2>4 DEF Sound
<1>4. TermsHeld
  BY DEF Init, ConnectorInit, TermsHeld, WithLink, Establishing
<1>5. RelayKept
  <2>1. Cardinality(Served) = 0
    BY FS_EmptySet DEF Init, Served, InService
  <2> QED BY <2>1, RelayAssumption DEF Init, RelayInit, RelayKept, ConnectionsCounted, SessionIds
<1>6. TunnelKept
  BY TunnelAssumption DEF Init, SshInit, TunnelKept, OneTunnel, BudgetKept, Running
<1> QED BY <1>1, <1>2, <1>3, <1>4, <1>5, <1>6 DEF IInv, LinksKept

LEMMA SessionInvariant == Spec => []IInv
BY SessionStart, SessionStep, PTL DEF Spec

(* capability.rs:114 A peer that disabled a capability is never talked into  *)
(* it and both ends go by the same terms once they exchange frames, for any  *)
(* settings of both ends, any number of retries and any faults: the echo in  *)
(* HelloAck, intersected once more by the client, is what the relay decided, *)
(* because a task has no terms and has sent nothing before it reads Hello.   *)
THEOREM TermsAreAgreed == Spec => []TermsAgree
<1>1. IInv => TermsAgree
  <2> SUFFICES ASSUME IInv PROVE TermsAgree
    OBVIOUS
  <2>1. LinksKept /\ config \in Configs
    BY DEF IInv, LinksKept, LinkTypes
  <2>2. ASSUME NEW t \in Transports
        PROVE  /\ cliHas[t] \in {NoTerms, srvHas[t]}
               /\ srvHas[t].features \cap (config.client.off \cup config.server.off) = {}
    <3>1. TermsBoth(t)
      BY <2>1 DEF LinksKept, Sound
    <3>2. config.client.off \subseteq Gated /\ config.server.off \subseteq Gated
      BY <2>1, SwitchAssumption
    <3> QED BY <3>1, <3>2 DEF TermsBoth, AdvertisedFor
  <2>3. at \in {"resumeAck", "createAck", "serving"} => cliHas[tr] = srvHas[tr]
    BY <2>1 DEF LinksKept, TermsHeld, WithLink, Establishing
  <2> QED BY <2>2, <2>3 DEF TermsAgree
<1> QED BY <1>1, SessionInvariant, PTL

(* connector.rs:341, relay/mod.rs:318, ssh.rs:152 and ssh.rs:239: for any     *)
(* number of retries, connections, crashes and ssh children, the published    *)
(* phase is where the connector is, the relay's counter counts exactly the    *)
(* connections being served and stays in its limit, at most one ssh child     *)
(* holds the port, and the rebuild budget is neither exceeded nor cut short.  *)
THEOREM LedgersAreHonest == Spec => []LedgersHonest
<1>1. IInv => LedgersHonest
  <2> SUFFICES ASSUME IInv PROVE LedgersHonest
    OBVIOUS
  <2>0. config \in Configs /\ config.retries \in 0 .. MaxRetries /\ MaxRetries \in Nat
    BY HandshakeAssumption DEF IInv, LinksKept, LinkTypes
  <2>1. HonestPhase /\ ConnectionsCounted /\ OneTunnel /\ BudgetKept
    BY DEF IInv, ConnectorKept, PhaseKept, RelayKept, TunnelKept
  <2>2. tr \in {0} \cup Transports /\ attempt \in 0 .. MaxRetries + 1
    BY <2>0 DEF IInv, ConnectorKept, TransportsPaid, Transports
  <2>3. {saved, acked, published} \subseteq {0} \cup Transports
    BY DEF IInv, ConnectorKept, OneId, SessionIds
  <2>4. /\ link \in [Transports -> {"none", "backlog", "open", "silent", "dead"}]
        /\ task \in [Transports -> InService \cup {"none", "over"}]
    BY DEF IInv, LinksKept, LinkTypes, LinkStates, TaskStates
  <2>5. alive \subseteq Transports /\ active \in 0 .. MaxConnections
    BY ServedFinite, RelayAssumption DEF IInv, RelayKept, ConnectionsCounted
  <2>6. cur \in 0 .. opened /\ opened \in 0 .. MaxTunnels /\ failures \in Nat
    BY TunnelAssumption DEF IInv, TunnelKept
  <2> QED BY <2>0, <2>1, <2>2, <2>3, <2>4, <2>5, <2>6 DEF LedgersHonest, TypeOK
<1> QED BY <1>1, SessionInvariant, PTL

(* connector.rs:310 Every later attempt offers to resume exactly the session  *)
(* last acknowledged, whatever was lost, refused or rebuilt in between: the   *)
(* only Hello ever written opens a transport, and carries the saved id.       *)
THEOREM LatestIsResumed == Spec => ResumesLatest
<1> DEFINE Resumed ==
      \A t \in Transports :
        up[t] = <<>> /\ up'[t] # <<>> /\ up'[t][1].kind = "Hello" => up'[t][1].resume = acked
<1>1. IInv /\ [Next]_vars => [Resumed]_<<up, acked>>
  <2> SUFFICES ASSUME IInv, [Next]_vars, NEW t \in Transports, up[t] = <<>>, up'[t] # <<>>,
                      up'[t][1].kind = "Hello"
               PROVE  up'[t][1].resume = acked
    OBVIOUS
  <2>0. /\ saved = acked /\ DOMAIN up = Transports /\ TransportsPaid /\ config \in Configs
    BY DEF IInv, ConnectorKept, OneId, LinksKept, LinkTypes
  <2>1. CASE up' = up
    BY <2>1
  <2>2. ASSUME NEW u \in Transports, up' = [up EXCEPT ![u] = Tail(@)], CanRead(up, u) PROVE FALSE
    BY <2>0, <2>2 DEF CanRead
  <2>3. ASSUME NEW f, up' = Written(up, tr, f) PROVE f.kind = "Hello"
    <3>1. CASE up' = up
      BY <3>1
    <3>2. CASE up' = [up EXCEPT ![tr] = Append(@, f)]
      <4>1. t = tr /\ up'[t] = Append(<<>>, f)
        BY <2>0, <3>2
      <4>2. Append(<<>>, f)[1] = f
        OBVIOUS
      <4> QED BY <4>1, <4>2
    <3> QED BY <2>3, <3>1, <3>2 DEF Written
  <2>4. CASE TcpConnects
    <3>1. up' = up \/ up' = [up EXCEPT ![tr + 1] = <<Hello(saved)>>]
      BY <2>4 DEF TcpConnects, ResumeId
    <3>2. up' = up \/ up'[t] = <<Hello(saved)>>
      BY <2>0, <3>1
    <3>3. <<Hello(saved)>>[1].resume = saved
      BY DEF Hello
    <3> QED BY <2>0, <3>2, <3>3
  <2>5. CASE ConnectorStep \/ \E b \in BOOLEAN : TcpFails(b)
    <3>1. up' = up \/ \E f : up' = Written(up, tr, f) /\ f.kind # "Hello"
      <4>1. AuthRequest.kind # "Hello" /\ Create.kind # "Hello" /\ (\A s : Resume(s).kind # "Hello")
            /\ [kind |-> "HeartbeatAck"].kind # "Hello" /\ [kind |-> "Destroy"].kind # "Hello"
        BY DEF AuthRequest, Create, Resume
      <4>2. CASE Receive
        BY <4>1, <4>2 DEF Receive, GetHelloAck, GetAuthResponse, GetResumeAck, GetCreateAck, Answer,
                          Serves, EstablishFails
      <4>3. CASE ServeFrame \/ ServeEnds
        BY <4>1, <4>3 DEF ServeFrame, ServeEnds, ServeStops, ServeLoses, Leaving
      <4> QED BY <2>5, <4>2, <4>3
            DEF ConnectorStep, Spawn, Stop, LoopHead, GiveUp, BackoffEnds, LinkLost, HandshakeTimeout,
                EstablishFails, Cleanup, TcpFails, linkVars
    <3> QED BY <2>3, <3>1
  <2>6. CASE RelayStep
    <3>1. up' = up \/ \E u \in Transports : up' = [up EXCEPT ![u] = Tail(@)] /\ CanRead(up, u)
      BY <2>6 DEF RelayStep, OtherConnects, OtherLeaves, AcceptFails, RequestStop, TakeStop,
            LoopEnds, Crash, Start, Accept, TakeFrame, Heartbeat, Leave, TaskEnds, GraceExpires,
            ServerHello, ServerAuth, ServerHandshakeEnds, linkVars
    <3> QED BY <2>2, <3>1
  <2>7. CASE Tunnel \/ SessionOver \/ (\E u \in Transports : LinkBreaks(u)) \/ UNCHANGED vars
    BY <2>7 DEF Tunnel, SessionOver, LinkBreaks, vars, linkVars
  <2> QED BY <2>4, <2>5, <2>6, <2>7 DEF Next, Client, Relay
<1> QED BY <1>1, SessionInvariant, PTL DEF Spec, ResumesLatest
=============================================================================
