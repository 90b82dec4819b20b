----------------------------- MODULE Connector -----------------------------
(***************************************************************************)
(* The client's connector (connector.rs): connect, handshake, create or     *)
(* resume a session, serve, back off and retry, and stop on request.        *)
(***************************************************************************)
EXTENDS Integers, Handshake

-----------------------------------------------------------------------------
(***************************************************************************)
(* The supervised SSH tunnel (ssh.rs, commands/ssh.rs): the ssh child, the  *)
(* health check that shares the child's lock with the supervisor, and       *)
(* supervise, which rebuilds a dead tunnel while the session keeps knocking.*)
(* A child is "starting" (port not open yet), "up", "stuck" (it runs, its   *)
(* port does not answer) or "exited".                                       *)
(***************************************************************************)

CONSTANTS
    MaxAttempts,    \* RebuildPolicy::max_attempts
    MaxUnhealthy,   \* SshDefaults::MAX_CONSECUTIVE_FAILURES
    MaxTunnels      \* bound: ssh children started

ASSUME TunnelAssumption ==
    /\ MaxAttempts \in Nat /\ MaxUnhealthy \in Nat \ {0} /\ MaxTunnels \in Nat \ {0}

Tunnels == 1 .. MaxTunnels

VARIABLES
    child,      \* tunnel -> state of its ssh process
    health,     \* tunnel -> [at, fails]: its health check
    notified,   \* the dead signal of the current tunnel reached supervise
    cur,        \* tunnel in hand, 0 for none
    sup,        \* where open_tunnel or supervise stands
    failures,
    ending,     \* SupervisionEnd
    opened      \* children started

sshVars == <<child, health, notified, cur, sup, failures, ending, opened>>

NoHealth == [at |-> "none", fails |-> 0]

Running(n) == child[n] \in {"starting", "up", "stuck"}

SshInit ==
    /\ child = [n \in Tunnels |-> "none"]
    /\ health = [n \in Tunnels |-> NoHealth]
    /\ notified = FALSE /\ cur = 0 /\ sup = "off" /\ failures = 0
    /\ ending = "none" /\ opened = 0

\* SshTunnel::wait holds the child's lock for as long as it is polled.
WaitHoldsLock(n) == cur = n /\ sup \in {"open", "rebuild", "watch"}

-----------------------------------------------------------------------------
(* The ssh process and the forwarded port                                   *)

PortOpens(n) ==
    /\ child[n] = "starting"
    /\ child' = [child EXCEPT ![n] = "up"]
    /\ UNCHANGED <<health, notified, cur, sup, failures, ending, opened>>

\* The network dies under ssh; ServerAliveCountMax ends the process later.
PortDies(n) ==
    /\ child[n] = "up"
    /\ child' = [child EXCEPT ![n] = "stuck"]
    /\ UNCHANGED <<health, notified, cur, sup, failures, ending, opened>>

ChildExits(n) ==
    /\ Running(n)
    /\ child' = [child EXCEPT ![n] = "exited"]
    /\ UNCHANGED <<health, notified, cur, sup, failures, ending, opened>>

-----------------------------------------------------------------------------
(* health_check_loop                                                        *)

\* A tick: try_wait under the child's lock ...
HealthTick(n) ==
    /\ health[n].at = "idle" /\ ~WaitHoldsLock(n)
    /\ health' = [health EXCEPT ![n].at = IF Running(n) THEN "probe" ELSE "lost"]
    /\ UNCHANGED <<child, notified, cur, sup, failures, ending, opened>>

\* ... then, without the lock, the port.  notify_waiters reaches only a
\* supervisor that has subscribed.
HealthVerdict(n) ==
    /\ health[n].at \in {"probe", "lost"}
    /\ LET healthy == health[n].at = "probe" /\ child[n] = "up"
           fails == IF healthy THEN 0 ELSE health[n].fails + 1
           over == fails >= MaxUnhealthy
       IN  /\ health' = [health EXCEPT ![n] = [at |-> IF over THEN "none" ELSE "idle",
                                                fails |-> fails]]
           /\ notified' = (notified \/ (over /\ cur = n /\ sup = "watch"))
    /\ UNCHANGED <<child, cur, sup, failures, ending, opened>>

-----------------------------------------------------------------------------
(* open_tunnel                                                              *)

Spawned(next) ==
    /\ opened < MaxTunnels
    /\ opened' = opened + 1 /\ cur' = opened + 1
    /\ child' = [child EXCEPT ![opened + 1] = "starting"]
    /\ health' = [health EXCEPT ![opened + 1] = [at |-> "idle", fails |-> 0]]
    /\ sup' = next

\* Plausible slip: the child is left to itself when the tunnel is given up.
ForgetChild == child' = child /\ health' = [health EXCEPT ![cur] = NoHealth]

\* SshTunnel::kill cancels and aborts the health check and reaps the child.
KillChild ==
    /\ child' = [child EXCEPT ![cur] = "exited"]
    /\ health' = [health EXCEPT ![cur] = NoHealth]

FirstOpen ==
    /\ sup = "off"
    /\ Spawned("open")
    /\ UNCHANGED <<notified, failures, ending>>

\* The port answers: the first tunnel is handed on, a rebuilt one watched.
OpenSucceeds ==
    /\ sup \in {"open", "rebuild"} /\ child[cur] = "up"
    /\ sup' = IF sup = "open" THEN "ready" ELSE "watch"
    /\ failures' = 0 /\ notified' = FALSE
    /\ UNCHANGED <<child, health, cur, ending, opened>>

\* The child exits first, or READY_TIMEOUT passes: kill, and an error.
OpenFails ==
    /\ sup \in {"open", "rebuild"}
    /\ KillChild
    /\ cur' = 0
    /\ IF sup = "open"
       THEN sup' = "ended" /\ ending' = "NoTunnel" /\ UNCHANGED failures
       ELSE sup' = "lost" /\ failures' = failures + 1 /\ UNCHANGED ending
    /\ UNCHANGED <<notified, opened>>

-----------------------------------------------------------------------------
(* supervise                                                                *)

\* detect_x11_server is over; the health signal is subscribed to.
Supervise ==
    /\ sup = "ready"
    /\ sup' = "watch" /\ notified' = FALSE
    /\ UNCHANGED <<child, health, cur, failures, ending, opened>>

\* The child has exited, or the health check gave up: kill, then decide.
TunnelDead ==
    /\ sup = "watch"
    /\ child[cur] = "exited" \/ notified
    /\ KillChild
    /\ cur' = 0 /\ notified' = FALSE

Watch(reconnect) ==
    /\ TunnelDead
    /\ IF reconnect THEN sup' = "lost" /\ UNCHANGED ending
       ELSE sup' = "ended" /\ ending' = "TunnelDown"
    /\ UNCHANGED <<failures, opened>>

\* Plausible slip: the budget is compared after one attempt too many.
ExhaustedLate == failures > MaxAttempts

Exhausted == failures >= MaxAttempts

\* Plausible slip: the rebuild waits for the death signal that Watch consumed.
RebuildSignalled ==
    /\ sup = "lost" /\ notified
    /\ IF Exhausted
       THEN /\ sup' = "ended" /\ ending' = "RebuildExhausted"
            /\ UNCHANGED <<child, health, cur, opened>>
       ELSE Spawned("rebuild") /\ UNCHANGED ending
    /\ UNCHANGED <<notified, failures>>

\* Out of attempts, or the backoff passes and a new tunnel is started.
Rebuild ==
    /\ sup = "lost"
    /\ IF Exhausted
       THEN /\ sup' = "ended" /\ ending' = "RebuildExhausted"
            /\ UNCHANGED <<child, health, cur, opened>>
       ELSE Spawned("rebuild") /\ UNCHANGED ending
    /\ UNCHANGED <<notified, failures>>

\* The session ends first.  While watching, the tunnel is killed; a rebuild
\* in flight is dropped, and its health check keeps the child alive.
SessionEnds ==
    /\ sup \in {"watch", "lost", "rebuild"}
    /\ IF sup = "watch" THEN KillChild ELSE UNCHANGED <<child, health>>
    /\ cur' = 0 /\ sup' = "ended" /\ ending' = "Session"
    /\ UNCHANGED <<notified, failures, opened>>

SshStep(reconnect) ==
    \/ FirstOpen \/ OpenSucceeds \/ OpenFails \/ Supervise \/ Watch(reconnect) \/ Rebuild
    \/ \E n \in Tunnels :
        PortOpens(n) \/ PortDies(n) \/ ChildExits(n) \/ HealthTick(n) \/ HealthVerdict(n)

-----------------------------------------------------------------------------
(* ssh.rs:239 "Reap whatever is left before touching the port again": two   *)
(* ssh children never compete for the local port while supervise is in      *)
(* charge, and a supervision that ended without a rebuild in flight left no *)
(* child behind.                                                            *)
OneTunnel ==
    /\ sup # "ended" => \A n \in Tunnels : Running(n) => n = cur
    /\ sup = "ended" => \A n \in Tunnels : Running(n) => ending = "Session" /\ n = opened

(* ssh.rs:152 The budget counts consecutive failed attempts of one death.   *)
BudgetKept == failures <= MaxAttempts /\ (ending = "RebuildExhausted" => failures = MaxAttempts)

-----------------------------------------------------------------------------
(* The connector. *)

VARIABLES
    at,         \* where connect_and_serve stands
    tr,         \* transport of the current attempt, 0 before the first
    saved,      \* last_session_id, 0 for None
    acked,      \* the session of the last successful SessionAck, 0 for none
    attempt,
    result,     \* of the attempt that is being cleaned up
    phase,      \* ConnectorState::phase, as published
    published,  \* ConnectorState::session_id, 0 for None
    lastError,  \* ConnectorState::last_error is set
    stopReq,    \* stop_requested
    done        \* done_tx

connVars == <<at, tr, saved, acked, attempt, result, phase, published, lastError, stopReq, done>>

Establishing == {"helloAck", "authResp", "resumeAck", "createAck"}

Create == [kind |-> "Create"]
Resume(s) == [kind |-> "Resume", session |-> s]

ConnectorInit ==
    /\ at = "new" /\ tr = 0 /\ saved = 0 /\ acked = 0 /\ attempt = 0
    /\ result = "ok" /\ phase = "Stopped" /\ published = 0
    /\ lastError = FALSE /\ stopReq = FALSE /\ done = FALSE

\* LocalConnector::spawn, or the command line's own call.
Spawn ==
    /\ at = "new"
    /\ at' = "loop"
    /\ UNCHANGED <<linkVars, tr, saved, acked, attempt, result, phase, published, lastError,
                   stopReq, done>>

\* ConnectorHandle::stop
Stop ==
    /\ ~done
    /\ stopReq' = TRUE
    /\ UNCHANGED <<linkVars, at, tr, saved, acked, attempt, result, phase, published, lastError,
                   done>>

\* connect_and_serve returns.
Returns(r) ==
    /\ at' = "end"
    /\ phase' = IF r = "ok" THEN "Stopped" ELSE "Failed"
    /\ lastError' = (lastError \/ r # "ok")
    /\ done' = TRUE
    /\ UNCHANGED <<tr, saved, acked, attempt, result, published, stopReq>>

\* The head of run_cycles.
LoopHead ==
    /\ at = "loop"
    /\ IF stopReq THEN Returns("ok")
       ELSE /\ at' = "tcp"
            /\ phase' = "Connecting"
            /\ UNCHANGED <<tr, saved, acked, attempt, result, published, lastError, stopReq, done>>
    /\ UNCHANGED linkVars

\* Plausible slip: the UI keeps showing the phase of the lost session.
FailsSilently(retriable) ==
    /\ result' = "err"
    /\ IF ~retriable \/ attempt + 1 > config.retries
       THEN at' = "giveUp" /\ attempt' = attempt + (IF retriable THEN 1 ELSE 0)
            /\ UNCHANGED phase
       ELSE at' = "backoff" /\ attempt' = attempt + 1 /\ UNCHANGED phase
    /\ lastError' = TRUE
    /\ UNCHANGED <<tr, saved, acked, published, stopReq, done>>

\* An attempt fails: give up, or publish the failure and back off.
Fails(retriable) ==
    /\ result' = "err"
    /\ IF ~retriable \/ attempt + 1 > config.retries
       THEN /\ at' = "giveUp" /\ attempt' = attempt + (IF retriable THEN 1 ELSE 0)
            /\ UNCHANGED phase
       ELSE /\ at' = "backoff" /\ attempt' = attempt + 1
            /\ phase' = "Reconnecting"
    /\ lastError' = TRUE
    /\ UNCHANGED <<tr, saved, acked, published, stopReq, done>>

GiveUp ==
    /\ at = "giveUp"
    /\ Returns("err")
    /\ UNCHANGED linkVars

\* sleep_or_stop
BackoffEnds ==
    /\ at = "backoff"
    /\ IF stopReq THEN Returns("ok")
       ELSE at' = "loop" /\ UNCHANGED <<tr, saved, acked, attempt, result, phase, published,
                                        lastError, stopReq, done>>
    /\ UNCHANGED linkVars

-----------------------------------------------------------------------------
(* establish                                                                *)

\* Plausible slip: the id is taken by the first attempt, not cloned.
ResumeIdTaken == IF attempt = 1 THEN saved ELSE 0

\* run_cycles clones the id for every attempt.
ResumeId == saved

\* The connection is made by the relay's kernel; Hello follows at once,
\* unless the token is not even a token.
TcpConnects ==
    /\ at = "tcp"
    /\ tr' = tr + 1
    /\ phase' = "Handshaking"
    /\ IF WellFormed(config.client.token)
       THEN /\ at' = "helloAck"
            /\ link' = [link EXCEPT ![tr + 1] = "backlog"]
            /\ up' = [up EXCEPT ![tr + 1] = <<Hello(ResumeId)>>]
            /\ UNCHANGED <<attempt, result, lastError>>
       ELSE /\ at' = "giveUp" /\ result' = "err" /\ lastError' = TRUE
            /\ UNCHANGED <<link, up, attempt>>
    /\ UNCHANGED <<down, task, cliHas, srvHas, saved, acked, published, stopReq, done>>

\* Refused is retriable; a connect timeout is an untyped error and is not.
TcpFails(refused) ==
    /\ at = "tcp"
    /\ Fails(refused)
    /\ UNCHANGED linkVars

\* The client drops the transport with the attempt.
Dropped == IF link[tr] \in {"backlog", "open"} THEN [link EXCEPT ![tr] = "dead"] ELSE link

EstablishFails(retriable) ==
    /\ Fails(retriable)
    /\ link' = Dropped
    /\ UNCHANGED <<up, task, cliHas, srvHas>>

\* recv_frame returns an error: the relay or the network closed the link.
LinkLost ==
    /\ at \in Establishing /\ link[tr] = "dead" /\ down[tr] = <<>>
    /\ EstablishFails(TRUE)
    /\ UNCHANGED down

\* recv_handshake_frame times out; recv_session_ack never does.
HandshakeTimeout ==
    /\ at \in {"helloAck", "authResp"}
    /\ "slow" \in config.faults \/ link[tr] # "open"
    /\ EstablishFails(FALSE)
    /\ UNCHANGED down

Takes(f) == CanRead(down, tr) /\ f = Head(down[tr]) /\ down' = [down EXCEPT ![tr] = Tail(@)]

Answer(f, next) ==
    /\ at' = next
    /\ up' = Written(up, tr, f)
    /\ UNCHANGED <<link, task, srvHas, tr, saved, acked, attempt, result, phase, published,
                   lastError, stopReq, done>>

GetHelloAck ==
    \E f \in {Head(down[tr])} :
        /\ Takes(f)
        /\ IF AcceptsHelloAck(f)
           THEN /\ cliHas' = [cliHas EXCEPT ![tr] = ClientTerms(f)]
                /\ Answer(AuthRequest, "authResp")
           ELSE EstablishFails(FALSE)

GetAuthResponse ==
    \E f \in {Head(down[tr])} :
        /\ Takes(f)
        /\ IF AcceptsAuth(f)
           THEN /\ IF ResumeId # 0 THEN Answer(Resume(ResumeId), "resumeAck")
                   ELSE Answer(Create, "createAck")
                /\ UNCHANGED cliHas
           ELSE EstablishFails(FALSE)

\* The session is established and published.
Serves(s) ==
    /\ at' = "serving"
    /\ saved' = s /\ acked' = s /\ published' = s
    /\ phase' = "Serving"
    /\ lastError' = FALSE
    /\ UNCHANGED <<link, up, task, cliHas, srvHas, tr, attempt, result, stopReq, done>>

\* try_resume_session: refused, a new session is asked for on the same link.
GetResumeAck ==
    \E f \in {Head(down[tr])} :
        /\ Takes(f)
        /\ IF f.kind # "SessionAck" THEN EstablishFails(FALSE)
           ELSE IF f.success THEN Serves(f.session)
           ELSE Answer(Create, "createAck") /\ UNCHANGED cliHas

GetCreateAck ==
    \E f \in {Head(down[tr])} :
        /\ Takes(f)
        /\ IF f.kind = "SessionAck" /\ f.success THEN Serves(f.session)
           ELSE EstablishFails(FALSE)

Receive ==
    /\ at \in Establishing /\ CanRead(down, tr)
    /\ \/ at = "helloAck" /\ GetHelloAck
       \/ at = "authResp" /\ GetAuthResponse
       \/ at = "resumeAck" /\ GetResumeAck
       \/ at = "createAck" /\ GetCreateAck

-----------------------------------------------------------------------------
(* serve, and the end of connect_and_serve_once                             *)

\* A heartbeat is answered; the other frames are the data plane's.
ServeFrame ==
    /\ at = "serving" /\ CanRead(down, tr)
    /\ down' = [down EXCEPT ![tr] = Tail(@)]
    /\ up' = IF Head(down[tr]).kind = "Heartbeat"
             THEN Written(up, tr, [kind |-> "HeartbeatAck"]) ELSE up
    /\ UNCHANGED <<link, task, cliHas, srvHas, connVars>>

\* Select with stop_signal, read error, ctrl-c: cleanup_connections
\* and the wait for the writer follow, with the transport still there.
Leaving(r, farewell) ==
    /\ at' = "cleanup" /\ result' = r
    /\ up' = IF farewell THEN Written(up, tr, [kind |-> "Destroy"]) ELSE up
    /\ UNCHANGED <<link, down, task, cliHas, srvHas, tr, saved, acked, attempt, phase, published,
                   lastError, stopReq, done>>

\* Plausible slip: the stop request is looked at between two frames only.
ServeStopsBetweenFrames ==
    /\ at = "serving" /\ stopReq /\ CanRead(down, tr)
    /\ Leaving("ok", FALSE)

\* stop_signal wins the select, whatever await serve is at.
ServeStops == at = "serving" /\ stopReq /\ Leaving("ok", FALSE)

\* recv_frame fails.  The read timeout beside it is never due: the select is
\* entered anew, with a new timeout, at each tick of the focus timer (500 ms;
\* the timeout is at least 1 s), so a silent link is not noticed here.
ServeLoses ==
    /\ at = "serving" /\ link[tr] = "dead" /\ down[tr] = <<>>
    /\ Leaving("err", FALSE)

ServeEnds ==
    \/ ServeStops \/ ServeLoses
    \/ at = "serving" /\ link[tr] = "open" /\ Leaving("fatal", FALSE)  \* dispatch_frame fails
    \/ at = "serving" /\ Leaving("ok", TRUE)

\* The writer has written what it had, or failed: the transport is dropped.
\* Nothing bounds the wait for a writer whose peer does not read.
Cleanup ==
    /\ at = "cleanup"
    /\ link' = Dropped
    /\ IF result = "ok" THEN Returns("ok") ELSE Fails(result = "err")
    /\ UNCHANGED <<up, down, task, cliHas, srvHas>>

ConnectorStep ==
    \/ Spawn \/ Stop \/ LoopHead \/ GiveUp \/ BackoffEnds \/ LinkLost \/ HandshakeTimeout
    \/ Receive \/ ServeFrame \/ ServeEnds \/ Cleanup

-----------------------------------------------------------------------------
(* connector.rs:310 "every later attempt keeps trying to resume the same    *)
(* session until one succeeds and overwrites it": a transport opened after  *)
(* a session was acknowledged offers to resume exactly that session.        *)
ResumesLatest ==
    [][\A t \in Transports :
        up[t] = <<>> /\ up'[t] # <<>> /\ up'[t][1].kind = "Hello" => up'[t][1].resume = acked]_<<up, acked>>

(* connector.rs:341 "a UI never shows Serving while the connector is        *)
(* actually backing off": the published phase and error tell where the      *)
(* connector is, a finished connector says how it ended, and a session      *)
(* shown as served is the acknowledged one.                                 *)
HonestPhase ==
    /\ at = "backoff" => phase = "Reconnecting" /\ lastError
    /\ at \in Establishing => phase = "Handshaking"
    /\ phase = "Serving" =>
        /\ at \in {"serving", "cleanup", "giveUp", "dropped"}   \* dropped by supervise
        /\ published = acked /\ acked # 0
        /\ lastError => at \in {"giveUp", "dropped"}
    /\ done <=> at = "end"
    /\ done => phase \in {"Stopped", "Failed"}
    /\ phase = "Failed" => lastError
=============================================================================
