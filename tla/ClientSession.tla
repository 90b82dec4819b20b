--------------------------- MODULE ClientSession ---------------------------
(***************************************************************************)
(* A client and its relay: connector, handshake, accept loop and relay task,*)
(* directly over TCP or through a supervised SSH tunnel, with network        *)
(* faults, crashes of the relay, and stop requests on both sides.            *)
(***************************************************************************)
EXTENDS Connector, RelayServer

vars == <<config, linkVars, connVars, relayVars, sshVars>>

Init ==
    /\ config \in Configs
    /\ link = [t \in Transports |-> "none"]
    /\ up = [t \in Transports |-> <<>>] /\ down = [t \in Transports |-> <<>>]
    /\ task = [t \in Transports |-> "none"]
    /\ cliHas = [t \in Transports |-> NoTerms] /\ srvHas = [t \in Transports |-> NoTerms]
    /\ ConnectorInit /\ RelayInit /\ SshInit

\* The relay's port is reachable: directly, or through the tunnel's port.
Reachable == relay = "up" /\ (config.ssh => cur # 0 /\ child[cur] = "up")

\* The session future runs as long as supervise polls it.
Polled == config.ssh => sup \in {"watch", "lost", "rebuild"}

Client ==
    /\ Polled
    /\ ConnectorStep \/ (Reachable /\ TcpConnects) \/ (~Reachable /\ TcpFails(TRUE)) \/ TcpFails(FALSE)
    /\ UNCHANGED <<config, relayVars, sshVars>>

Relay == RelayStep /\ UNCHANGED <<config, connVars, sshVars>>

\* A dead tunnel resets its connections, a stuck one silences them.
CutByTunnel ==
    LET after == IF cur' = 0 THEN "exited" ELSE child'[cur']
        cut == IF after = "stuck" THEN "silent" ELSE "dead"
    IN  link' = [t \in Transports |->
                    IF link[t] \in {"backlog", "open"} /\ after # "up" THEN cut ELSE link[t]]

Tunnel ==
    /\ config.ssh
    /\ SshStep(config.reconnect)
    /\ CutByTunnel
    /\ UNCHANGED <<config, up, down, task, cliHas, srvHas, relayVars, tr, saved, acked, attempt,
                   result, phase, published, lastError, stopReq, done>>
    /\ at' = IF sup' = "ended" /\ at # "end" THEN "dropped" ELSE at

\* supervise sees the session future finish.
SessionOver ==
    /\ config.ssh /\ at = "end"
    /\ SessionEnds
    /\ UNCHANGED <<config, linkVars, connVars, relayVars>>

\* The network loses the connection, noticed or not; TCP gives up on a silent
\* one in the end.
LinkBreaks(t) ==
    /\ \/ link[t] = "open" /\ ~config.ssh
       \/ link[t] = "silent"
    /\ link' = [link EXCEPT ![t] = IF @ = "open" THEN "silent" ELSE "dead"]
    /\ UNCHANGED <<config, up, down, task, cliHas, srvHas, connVars, relayVars, sshVars>>

Next ==
    \/ Client \/ Relay \/ Tunnel \/ SessionOver
    \/ \E t \in Transports : LinkBreaks(t)

-----------------------------------------------------------------------------
\* Timeouts of the code, and steps of tasks that are ready to run.  Nothing is
\* assumed of users, of the network, which may stay silent for ever, of other
\* clients, of a relay task that serves or waits for its writer, of the
\* client's writer while its link stands, or of a relay that has sessions to
\* destroy.
ConnectorRuns ==
    /\ Polled
    /\ \/ LoopHead \/ GiveUp \/ BackoffEnds \/ LinkLost \/ HandshakeTimeout \/ Receive
       \/ (Reachable /\ TcpConnects) \/ TcpFails(~Reachable)
       \/ ServeStops \/ ServeLoses
       \/ at = "cleanup" /\ link[tr] = "dead" /\ Cleanup
    /\ UNCHANGED <<config, relayVars, sshVars>>

TaskRuns(t) ==
    /\ \/ Accept(t) \/ (task[t] = "failed" /\ TaskEnds(t))
       \/ (ServerHello(t) \/ ServerAuth(t)) /\ UNCHANGED relayVars
    /\ UNCHANGED <<config, connVars, sshVars>>

Fairness ==
    /\ WF_vars(ConnectorRuns)
    /\ WF_vars(Polled /\ ServeFrame /\ UNCHANGED <<config, relayVars, sshVars>>)
    /\ \A t \in Transports : WF_vars(TaskRuns(t))
    /\ WF_vars((TakeStop \/ (~HasSessions /\ LoopEnds)) /\ UNCHANGED <<config, connVars, sshVars>>)
    /\ WF_vars(Tunnel /\ (OpenSucceeds \/ OpenFails \/ Rebuild))
    /\ WF_vars(SessionOver)

Spec == Init /\ [][Next]_vars /\ Fairness

-----------------------------------------------------------------------------
TypeOK ==
    /\ config \in Configs
    /\ link \in [Transports -> {"none", "backlog", "open", "silent", "dead"}]
    /\ task \in [Transports -> InService \cup {"none", "over"}]
    /\ tr \in {0} \cup Transports
    /\ attempt \in 0 .. MaxRetries + 1
    /\ {saved, acked, published} \subseteq {0} \cup Transports
    /\ alive \subseteq Transports
    /\ active \in 0 .. MaxConnections
    /\ cur \in 0 .. opened /\ opened \in 0 .. MaxTunnels
    /\ failures \in Nat

(* capability.rs:114 "a peer that disabled a capability can never be talked *)
(* into it", and both ends go by the same terms once they exchange frames.  *)
TermsAgree ==
    /\ \A t \in Transports :
        /\ cliHas[t] \in {NoTerms, srvHas[t]}
        /\ srvHas[t].features \cap (config.client.off \cup config.server.off) = {}
    /\ at \in {"resumeAck", "createAck", "serving"} => cliHas[tr] = srvHas[tr]

\* The two waits of the connector that neither a timeout nor a stop request
\* ends: recv_session_ack, and the wait for the writer after a session.
Unbounded ==
    /\ at \in {"resumeAck", "createAck", "cleanup"}
    /\ link[tr] # "dead"
    /\ at # "cleanup" => ~CanRead(down, tr)

(* connector.rs:166 A stop request ends the connector wherever it stands, in*)
(* a backoff, a connect, a hello, an authentication or a live session, or   *)
(* the connector is held up for ever in one of the two waits that look at   *)
(* neither the request nor a clock (connector.rs:640 and :623).             *)
StopEnds ==
    (stopReq /\ at # "new") ~> (at \in {"end", "dropped"} \/ []Unbounded)

(* ssh.rs:188 A dead tunnel is rebuilt or the supervision ends.             *)
TunnelRecovers == (sup = "lost") ~> (sup \in {"watch", "ended"} \/ opened = MaxTunnels)

(* What each process publishes or counts is true under every interleaving   *)
(* of faults, crashes, retries and stop requests: the connector's phase, the *)
(* relay's count of connections, the supervisor's tunnel and its budget.     *)
LedgersHonest == TypeOK /\ HonestPhase /\ ConnectionsCounted /\ OneTunnel /\ BudgetKept

(* Requests are answered and losses repaired: a stop ends the connector and  *)
(* a shutdown the relay, but for the waits the code leaves open, and a dead  *)
(* tunnel is rebuilt or given up.                                            *)
RequestsEnd == StopEnds /\ ShutdownEnds /\ TunnelRecovers
=============================================================================
