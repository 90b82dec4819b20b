---------------------------- MODULE RelayServer ----------------------------
(***************************************************************************)
(* The relay process as one client sees it: accept loop, limit and shutdown *)
(* (relay/mod.rs), the life of the task of a transport (relay/connection.rs,*)
(* handle_client) and the sessions it makes and resumes for the client.     *)
(* The registry's own critical sections are SessionManager's subject; here  *)
(* an operation on it is one step.                                          *)
(***************************************************************************)
EXTENDS Handshake

CONSTANTS
    MaxConnections,  \* ServerDefaults::MAX_CONNECTIONS
    MaxCrashes       \* bound: times the relay process dies

ASSUME RelayAssumption == MaxConnections \in Nat \ {0} /\ MaxCrashes \in Nat

VARIABLES
    relay,      \* accept loop: "up", "leaving" (out of its loop), "stopped", "gone"
    running,    \* RelayControl::running
    permit,     \* RelayControl::stop holds a permit
    active,     \* active_connections
    others,     \* connections of other clients being served
    alive,      \* the client's sessions, named by the transport that made them
    holder,     \* session -> transport that owns it, 0 in its grace period
    crashes

relayVars == <<relay, running, permit, active, others, alive, holder, crashes>>

InService == {"hello", "auth", "serving", "failed", "leaving"}

Served == {t \in Transports : task[t] \in InService}

SessionAck(ok, s) == [kind |-> "SessionAck", success |-> ok, session |-> s]

-----------------------------------------------------------------------------
(* accept_loop and spawn_client                                             *)

\* Plausible slip: the rejected connection stays counted.
AcceptLeaks(t) ==
    /\ relay = "up" /\ link[t] = "backlog"
    /\ active' = active + 1
    /\ IF active + 1 > MaxConnections
       THEN link' = [link EXCEPT ![t] = "dead"] /\ UNCHANGED task
       ELSE /\ link' = [link EXCEPT ![t] = "open"]
            /\ task' = [task EXCEPT ![t] = "hello"]
    /\ UNCHANGED <<up, down, cliHas, srvHas, relay, running, permit, others, alive, holder,
                   crashes>>

\* Over the limit the count is taken back and the stream dropped.
Accept(t) ==
    /\ relay = "up" /\ link[t] = "backlog"
    /\ IF active + 1 > MaxConnections
       THEN link' = [link EXCEPT ![t] = "dead"] /\ UNCHANGED <<task, active>>
       ELSE /\ link' = [link EXCEPT ![t] = "open"]
            /\ task' = [task EXCEPT ![t] = "hello"]
            /\ active' = active + 1
    /\ UNCHANGED <<up, down, cliHas, srvHas, relay, running, permit, others, alive, holder,
                   crashes>>

OtherConnects ==
    /\ "others" \in config.faults
    /\ relay = "up" /\ active + 1 <= MaxConnections
    /\ active' = active + 1 /\ others' = others + 1
    /\ UNCHANGED <<linkVars, relay, running, permit, alive, holder, crashes>>

OtherLeaves ==
    /\ others > 0 /\ relay # "gone"
    /\ active' = active - 1 /\ others' = others - 1
    /\ UNCHANGED <<linkVars, relay, running, permit, alive, holder, crashes>>

\* A failed accept() ends the loop.
AcceptFails ==
    /\ "stop" \in config.faults
    /\ relay = "up"
    /\ relay' = "leaving"
    /\ UNCHANGED <<linkVars, running, permit, active, others, alive, holder, crashes>>

\* Plausible slip: only the loop's error path wakes it.
RequestStopUnarmed ==
    /\ "stop" \in config.faults
    /\ relay # "gone"
    /\ running' = FALSE
    /\ UNCHANGED <<linkVars, relay, permit, active, others, alive, holder, crashes>>

\* RelayHandle::shutdown: the first request leaves a permit.
RequestStop ==
    /\ "stop" \in config.faults
    /\ relay # "gone"
    /\ running' = FALSE
    /\ permit' = (permit \/ running)
    /\ UNCHANGED <<linkVars, relay, active, others, alive, holder, crashes>>

TakeStop ==
    /\ relay = "up" /\ permit
    /\ relay' = "leaving" /\ permit' = FALSE
    /\ UNCHANGED <<linkVars, running, active, others, alive, holder, crashes>>

\* There is something for destroy_all_sessions to wait for.
HasSessions == alive # {} \/ others > 0

\* destroy_all_sessions, then stopped_tx; the listener goes with the loop,
\* the tasks of connected clients do not.
LoopEnds ==
    /\ relay = "leaving"
    /\ relay' = "stopped" /\ running' = FALSE
    /\ alive' = {}
    /\ holder' = [s \in Transports |-> 0]
    /\ link' = [t \in Transports |-> IF link[t] = "backlog" THEN "dead" ELSE link[t]]
    /\ UNCHANGED <<up, down, task, cliHas, srvHas, permit, active, others, crashes>>

\* The process dies: nothing of it survives, the kernel resets its links.
Crash ==
    /\ "crash" \in config.faults
    /\ relay # "gone" /\ crashes < MaxCrashes
    /\ relay' = "gone" /\ crashes' = crashes + 1
    /\ active' = 0 /\ others' = 0 /\ permit' = FALSE /\ running' = FALSE
    /\ alive' = {} /\ holder' = [s \in Transports |-> 0]
    /\ task' = [t \in Transports |-> IF task[t] = "none" THEN "none" ELSE "over"]
    /\ link' = [t \in Transports |-> IF link[t] \in {"backlog", "open"} THEN "dead" ELSE link[t]]
    /\ UNCHANGED <<up, down, cliHas, srvHas>>

\* RelayServer::start binds before it spawns the loop.
Start ==
    /\ relay = "gone"
    /\ relay' = "up" /\ running' = TRUE
    /\ UNCHANGED <<linkVars, permit, active, others, alive, holder, crashes>>

-----------------------------------------------------------------------------
(* handle_client                                                            *)

\* send_session_ack: the client is attached to the audio hub before the ack
\* is queued, and a recorder that already runs opens the channel at once.
Acked(t, ok, s) ==
    \/ down' = Written(down, t, SessionAck(ok, s))
    \/ /\ ok /\ "audio_forward" \in srvHas[t].features /\ link[t] = "open"
       /\ down' = [down EXCEPT ![t] = @ \o <<[kind |-> "ChannelOpen"], SessionAck(ok, s)>>]

\* create_session or create_session_auto: a fixed display has one session,
\* and binding the port or setting the cookie may fail.
Creates(t, ok) ==
    /\ ok => ~config.fixed \/ alive = {}
    /\ alive' = IF ok THEN alive \cup {t} ELSE alive
    /\ holder' = IF ok THEN [holder EXCEPT ![t] = t] ELSE holder
    /\ Acked(t, ok, IF ok THEN t ELSE 0)

\* try_resume_session: whoever holds the session loses it.
Resumes(t, s) ==
    /\ alive' = alive
    /\ holder' = IF s \in alive THEN [holder EXCEPT ![s] = t] ELSE holder
    /\ Acked(t, s \in alive, s)

DestroysOwn(t) ==
    LET mine == {s \in alive : holder[s] = t}
    IN  /\ alive' = alive \ mine
        /\ holder' = [s \in Transports |-> IF s \in mine THEN 0 ELSE holder[s]]
        /\ UNCHANGED down

\* relay_loop takes the client's next frame.
TakeFrame(t) ==
    /\ task[t] = "serving" /\ CanRead(up, t)
    /\ LET f == Head(up[t]) IN
       \/ f.kind = "Create" /\ \E ok \in BOOLEAN : Creates(t, ok)
       \/ f.kind = "Resume" /\ Resumes(t, f.session)
       \/ f.kind = "Destroy" /\ DestroysOwn(t)
       \/ f.kind = "HeartbeatAck" /\ UNCHANGED <<alive, holder, down>>
    /\ up' = [up EXCEPT ![t] = Tail(@)]
    /\ UNCHANGED <<link, task, cliHas, srvHas, relay, running, permit, active, others, crashes>>

\* spawn_heartbeat: from the start of the task, before any SessionAck too.
Heartbeat(t) ==
    /\ "slow" \in config.faults
    /\ task[t] = "serving" /\ down[t] = <<>> /\ up[t] = <<>>
    /\ down' = Written(down, t, [kind |-> "Heartbeat"])
    /\ UNCHANGED <<link, up, task, cliHas, srvHas, relayVars>>

\* The loop ends: read error, heartbeat deadline.  The task then waits for
\* its writer, which may outlive the client (see SessionManager).
Leave(t) ==
    /\ task[t] = "serving"
    /\ \/ link[t] = "dead" /\ up[t] = <<>>
       \/ link[t] = "silent"
    /\ task' = [task EXCEPT ![t] = "leaving"]
    /\ UNCHANGED <<link, up, down, cliHas, srvHas, relayVars>>

\* release_session, fetch_sub; the transport is dropped.
TaskEnds(t) ==
    /\ task[t] \in {"failed", "leaving"}
    /\ task' = [task EXCEPT ![t] = "over"]
    /\ link' = [link EXCEPT ![t] = IF @ = "open" THEN "dead" ELSE @]
    /\ active' = active - 1
    /\ holder' = [s \in Transports |-> IF holder[s] = t THEN 0 ELSE holder[s]]
    /\ UNCHANGED <<up, down, cliHas, srvHas, relay, running, permit, others, alive, crashes>>

\* The grace task: the session nobody resumed is destroyed.
GraceExpires(s) ==
    /\ s \in alive /\ holder[s] = 0
    /\ alive' = alive \ {s}
    /\ UNCHANGED <<linkVars, relay, running, permit, active, others, holder, crashes>>

RelayInit ==
    /\ relay = "up" /\ running = TRUE /\ permit = FALSE
    /\ active = 0 /\ others = 0
    /\ alive = {} /\ holder = [s \in Transports |-> 0]
    /\ crashes = 0

RelayStep ==
    \/ OtherConnects \/ OtherLeaves \/ AcceptFails \/ RequestStop \/ TakeStop \/ LoopEnds
    \/ Crash \/ Start
    \/ \E t \in Transports :
        \/ Accept(t) \/ TakeFrame(t) \/ Heartbeat(t) \/ Leave(t) \/ TaskEnds(t)
        \/ GraceExpires(t)
        \/ (ServerHello(t) \/ ServerAuth(t) \/ ServerHandshakeEnds(t)) /\ UNCHANGED relayVars

-----------------------------------------------------------------------------
(* relay/mod.rs:318 The counter counts exactly the connections being served,*)
(* rejected ones and failed handshakes included, and stays in its limit.    *)
ConnectionsCounted ==
    /\ active = Cardinality(Served) + others
    /\ active <= MaxConnections

(* relay/mod.rs:234 A shutdown request ends the accept loop, whatever the   *)
(* loop is doing when it comes, or the loop waits for ever for the sessions *)
(* of some client to be destroyed, a wait nothing bounds.                   *)
ShutdownEnds ==
    (relay = "up" /\ ~running)
        ~> (relay \in {"stopped", "gone"} \/ [](relay = "leaving" /\ HasSessions))
=============================================================================
